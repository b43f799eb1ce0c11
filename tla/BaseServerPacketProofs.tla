------------------------ MODULE BaseServerPacketProofs ------------------------
(***************************************************************************)
(* The references the sessions hold on packets cover every place a packet   *)
(* is in: a ring of packets to send, or the array handed to WSASend. Each   *)
(* step changes what one slot has in them, and counts what it moved in or   *)
(* out; the lemmas first say what that does to the number of places.        *)
(***************************************************************************)
EXTENDS BaseServerProofs

-----------------------------------------------------------------------------
(* Counting a packet in a sequence.                                        *)

LEMMA DisjointUnion ==
  ASSUME NEW S, IsFiniteSet(S), NEW T, IsFiniteSet(T), S \cap T = {}
  PROVE  /\ IsFiniteSet(S \cup T) /\ Cardinality(S) \in Nat /\ Cardinality(T) \in Nat
         /\ Cardinality(S \cup T) = Cardinality(S) + Cardinality(T)
<1>1. Cardinality(S) \in Nat /\ Cardinality(T) \in Nat
  BY FS_CardinalityType
<1>2. Cardinality(S \cap T) = 0
  BY FS_EmptySet
<1>3. /\ IsFiniteSet(S \cup T)
      /\ Cardinality(S \cup T) = Cardinality(S) + Cardinality(T) - Cardinality(S \cap T)
  BY FS_Union
<1> QED BY <1>1, <1>2, <1>3

LEMMA OccurrencesFinite ==
  ASSUME NEW q \in Seq(Packets), NEW p
  PROVE  /\ IsFiniteSet(Occurrences(q, p)) /\ Cardinality(Occurrences(q, p)) \in Nat
         /\ Occurrences(q, p) \subseteq 1..Len(q)
<1>1. DOMAIN q = 1..Len(q) /\ Len(q) \in Nat
  BY LenProperties
<1>2. IsFiniteSet(1..Len(q)) /\ Occurrences(q, p) \in SUBSET (1..Len(q))
  BY <1>1, FS_Interval DEF Occurrences
<1> QED BY <1>2, FS_Subset, FS_CardinalityType

LEMMA OccurrencesOfNone ==
  \A p : Occurrences(<<>>, p) = {} /\ Cardinality(Occurrences(<<>>, p)) = 0
<1>1. \A p : Occurrences(<<>>, p) = {}
  BY DEF Occurrences
<1> QED BY <1>1, FS_EmptySet

(* EnqueueItem puts one more. *)
LEMMA OccurrencesOfAppend ==
  ASSUME NEW q \in Seq(Packets), NEW x \in Packets, NEW p
  PROVE  Cardinality(Occurrences(Append(q, x), p)) =
             Cardinality(Occurrences(q, p)) + (IF x = p THEN 1 ELSE 0)
<1>1. DOMAIN q = 1..Len(q) /\ Len(q) \in Nat
  BY LenProperties
<1>2. /\ Append(q, x) \in Seq(Packets) /\ Len(Append(q, x)) = Len(q) + 1
      /\ \A i \in 1..Len(q) : Append(q, x)[i] = q[i]
      /\ Append(q, x)[Len(q) + 1] = x
  BY AppendProperties
<1>3. DOMAIN Append(q, x) = 1..(Len(q) + 1)
  BY <1>2, LenProperties
<1>4. CASE x = p
  <2>1. Occurrences(Append(q, x), p) = Occurrences(q, p) \cup {Len(q) + 1}
    BY <1>1, <1>2, <1>3, <1>4 DEF Occurrences
  <2>2. Len(q) + 1 \notin Occurrences(q, p)
    BY <1>1 DEF Occurrences
  <2> QED BY <1>4, <2>1, <2>2, OccurrencesFinite, FS_AddElement
<1>5. CASE x # p
  <2>1. Occurrences(Append(q, x), p) = Occurrences(q, p)
    BY <1>1, <1>2, <1>3, <1>5 DEF Occurrences
  <2> QED BY <1>5, <2>1, OccurrencesFinite
<1> QED BY <1>4, <1>5

(* What Drain takes and what it leaves. *)
LEMMA OccurrencesOfSplit ==
  ASSUME NEW q \in Seq(Packets), NEW n \in 0..Len(q), NEW p
  PROVE  LET a == SubSeq(q, 1, n)
             b == SubSeq(q, n + 1, Len(q))
         IN  /\ a \in Seq(Packets) /\ b \in Seq(Packets) /\ Len(a) = n /\ Len(b) = Len(q) - n
             /\ Cardinality(Occurrences(q, p)) =
                    Cardinality(Occurrences(a, p)) + Cardinality(Occurrences(b, p))
<1> DEFINE a == SubSeq(q, 1, n)
           b == SubSeq(q, n + 1, Len(q))
           T == {i \in (n + 1)..Len(q) : q[i] = p}
<1>1. DOMAIN q = 1..Len(q) /\ Len(q) \in Nat /\ n \in Nat /\ n <= Len(q)
      /\ \A i \in 1..Len(q) : q[i] \in Packets
  BY LenProperties, ElementOfSeq
<1>2. /\ a \in Seq(Packets) /\ Len(a) = n /\ \A i \in 1..n : a[i] = q[i]
  BY <1>1, SubSeqProperties
<1>3. /\ b \in Seq(Packets) /\ Len(b) = Len(q) - n
      /\ \A i \in 1..(Len(q) - n) : b[i] = q[n + i]
  <2>1. \A i \in (n + 1)..Len(q) : q[i] \in Packets
    BY <1>1
  <2>2. n + 1 \in Int /\ Len(q) \in Int
    BY <1>1
  <2>3. /\ b \in Seq(Packets) /\ Len(b) = IF n + 1 <= Len(q) THEN Len(q) - (n + 1) + 1 ELSE 0
        /\ \A i \in 1..(Len(q) - (n + 1) + 1) : b[i] = q[(n + 1) + i - 1]
    BY <2>1, <2>2, SubSeqProperties
  <2> HIDE DEF b
  <2>4. Len(b) = Len(q) - n
    <3>1. Len(q) \in Nat /\ n \in Nat /\ n <= Len(q)
      BY <1>1
    <3>2. Len(b) = IF n + 1 <= Len(q) THEN Len(q) - (n + 1) + 1 ELSE 0
      BY <2>3
    <3>3. CASE n + 1 <= Len(q)
      BY <3>1, <3>2, <3>3
    <3>4. CASE ~(n + 1 <= Len(q))
      BY <3>1, <3>2, <3>4
    <3> QED BY <3>3, <3>4
  <2>5. ASSUME NEW i \in 1..(Len(q) - n)
        PROVE  b[i] = q[n + i]
    <3>1. i \in 1..(Len(q) - (n + 1) + 1) /\ (n + 1) + i - 1 = n + i
      BY <1>1
    <3> QED BY <2>3, <3>1
  <2> QED BY <2>3, <2>4, <2>5
<1>4. DOMAIN a = 1..n /\ DOMAIN b = 1..(Len(q) - n)
  BY <1>2, <1>3, LenProperties
<1> HIDE DEF a, b
<1>5. Occurrences(q, p) = Occurrences(a, p) \cup T /\ Occurrences(a, p) \cap T = {}
  BY <1>1, <1>2, <1>4 DEF Occurrences
<1>6. IsFiniteSet(T) /\ Cardinality(T) = Cardinality(Occurrences(b, p))
  <2> DEFINE f == [i \in Occurrences(b, p) |-> n + i]
  <2>1. \A i \in Occurrences(b, p) : n + i \in T
    BY <1>1, <1>3, <1>4 DEF Occurrences
  <2>2. \A k \in T : k - n \in Occurrences(b, p) /\ n + (k - n) = k
    BY <1>1, <1>3, <1>4 DEF Occurrences
  <2>3. Occurrences(b, p) \subseteq Nat
    BY <1>4 DEF Occurrences
  <2>4. \A i, k \in Occurrences(b, p) : n + i = n + k => i = k
    BY <1>1, <2>3
  <2>5. f \in [Occurrences(b, p) -> T]
    BY <2>1
  <2>6. f \in Injection(Occurrences(b, p), T)
    BY <2>4, <2>5 DEF Injection, IsInjective
  <2>7. f \in Surjection(Occurrences(b, p), T)
    <3>1. \A k \in T : \E i \in Occurrences(b, p) : f[i] = k
      BY <2>2
    <3> QED BY <2>5, <3>1 DEF Surjection
  <2>8. ExistsBijection(Occurrences(b, p), T)
    BY <2>6, <2>7 DEF ExistsBijection, Bijection
  <2> QED BY <1>3, <2>8, OccurrencesFinite, FS_Bijection
<1>7. /\ Cardinality(Occurrences(a, p)) \in Nat /\ IsFiniteSet(Occurrences(a, p))
      /\ Cardinality(Occurrences(b, p)) \in Nat
  BY <1>2, <1>3, OccurrencesFinite
<1>8. Cardinality(Occurrences(q, p)) =
          Cardinality(Occurrences(a, p)) + Cardinality(Occurrences(b, p))
  BY <1>5, <1>6, <1>7, DisjointUnion
<1> QED BY <1>2, <1>3, <1>8 DEF a, b

-----------------------------------------------------------------------------
(* Counting a packet in the boxes of all slots.                            *)

Alone(s, q, p) == {s} \X Occurrences(q, p)

LEMMA AloneCounts ==
  ASSUME NEW s, NEW q \in Seq(Packets), NEW p
  PROVE  /\ IsFiniteSet(Alone(s, q, p))
         /\ Cardinality(Alone(s, q, p)) = Cardinality(Occurrences(q, p))
<1>1. IsFiniteSet({s}) /\ Cardinality({s}) = 1
  BY FS_Singleton
<1>2. IsFiniteSet(Occurrences(q, p)) /\ Cardinality(Occurrences(q, p)) \in Nat
  BY OccurrencesFinite
<1>3. /\ IsFiniteSet(Alone(s, q, p))
      /\ Cardinality(Alone(s, q, p)) = Cardinality({s}) * Cardinality(Occurrences(q, p))
  BY <1>1, <1>2, FS_Product DEF Alone
<1> QED BY <1>1, <1>2, <1>3

(* Another sequence in the box of one slot. *)
Refilled(box, s, q) == [box EXCEPT ![s] = q]

LEMMA PlacesChange ==
  ASSUME NEW n \in Nat, NEW box \in [Slots -> Seq(Packets)], NEW s \in Slots, NEW p,
         NEW q \in Seq(Packets), Len(q) <= n, Len(box[s]) <= n,
         IsFiniteSet(Places(box, n, p)),
         NEW new, new = Refilled(box, s, q)
  PROVE  /\ IsFiniteSet(Places(new, n, p))
         /\ Cardinality(Places(box, n, p)) \in Nat /\ Cardinality(Places(new, n, p)) \in Nat
         /\ Cardinality(Places(new, n, p)) =
                Cardinality(Places(box, n, p)) - Cardinality(Occurrences(box[s], p))
                    + Cardinality(Occurrences(q, p))
<1> DEFINE R == {h \in Places(box, n, p) : h[1] # s}
<1>1. box[s] \in Seq(Packets) /\ new[s] = q /\ \A r \in Slots : r # s => new[r] = box[r]
  BY DEF Refilled
<1>2. /\ DOMAIN q = 1..Len(q) /\ Len(q) \in Nat
      /\ DOMAIN box[s] = 1..Len(box[s]) /\ Len(box[s]) \in Nat
  BY <1>1, LenProperties
<1>3. Places(box, n, p) = R \cup Alone(s, box[s], p) /\ R \cap Alone(s, box[s], p) = {}
  <2>1. \A h \in Slots \X (1..n) : h = <<h[1], h[2]>>
    OBVIOUS
  <2>2. \A h : h \in Alone(s, box[s], p) <=>
                   h \in Slots \X (1..n) /\ h[1] = s /\ h[2] <= Len(box[s]) /\ box[s][h[2]] = p
    BY <1>2 DEF Alone, Occurrences
  <2> QED BY <2>1, <2>2 DEF Places
<1>4. Places(new, n, p) = R \cup Alone(s, q, p) /\ R \cap Alone(s, q, p) = {}
  <2>1. \A h : h \in Alone(s, q, p) <=>
                   h \in Slots \X (1..n) /\ h[1] = s /\ h[2] <= Len(q) /\ q[h[2]] = p
    BY <1>2 DEF Alone, Occurrences
  <2>2. \A h : h \in R <=> /\ h \in Slots \X (1..n) /\ h[1] # s
                           /\ h[2] <= Len(new[h[1]]) /\ new[h[1]][h[2]] = p
    BY <1>1 DEF Places
  <2> QED BY <1>1, <2>1, <2>2 DEF Places
<1>5. IsFiniteSet(R) /\ Cardinality(R) \in Nat
  <2>1. R \in SUBSET Places(box, n, p)
    OBVIOUS
  <2> QED BY <2>1, FS_Subset, FS_CardinalityType
<1>6. /\ IsFiniteSet(Alone(s, box[s], p)) /\ IsFiniteSet(Alone(s, q, p))
      /\ Cardinality(Alone(s, box[s], p)) = Cardinality(Occurrences(box[s], p))
      /\ Cardinality(Alone(s, q, p)) = Cardinality(Occurrences(q, p))
      /\ Cardinality(Occurrences(box[s], p)) \in Nat /\ Cardinality(Occurrences(q, p)) \in Nat
  BY <1>1, AloneCounts, OccurrencesFinite
<1> HIDE DEF R
<1>7. Cardinality(Places(box, n, p)) = Cardinality(R) + Cardinality(Occurrences(box[s], p))
  BY <1>3, <1>5, <1>6, DisjointUnion
<1>8. /\ IsFiniteSet(Places(new, n, p))
      /\ Cardinality(Places(new, n, p)) = Cardinality(R) + Cardinality(Occurrences(q, p))
  <2>1. /\ IsFiniteSet(R \cup Alone(s, q, p))
        /\ Cardinality(R \cup Alone(s, q, p)) = Cardinality(R) + Cardinality(Occurrences(q, p))
    BY <1>4, <1>5, <1>6, DisjointUnion
  <2> QED BY <1>4, <2>1
<1> QED BY <1>5, <1>6, <1>7, <1>8

-----------------------------------------------------------------------------
(* The invariant.                                                          *)

(* PacketInv after a step, in terms of the boxes it leaves. *)
LEMMA PacketInvAfter ==
  ASSUME NEW r, NEW q, r = ring', q = sent',
         \A s \in Slots : Len(r[s]) <= RingCap /\ Len(q[s]) <= Batch,
         \A p \in Packets : /\ IsFiniteSet(Places(r, RingCap, p))
                            /\ IsFiniteSet(Places(q, Batch, p))
                            /\ pktRef'[p] >= Cardinality(Places(r, RingCap, p))
                                                 + Cardinality(Places(q, Batch, p))
  PROVE  PacketInv'
BY DEF PacketInv, PacketsHeld, Held, Places

(* The references of a packet follow its places in the boxes of a slot. *)
Follows(s, a, b, p) ==
    \E k, k2 \in Int, x, x2, y, y2 \in Nat :
        /\ k = pktRef[p] /\ k2 = pktRef'[p]
        /\ x = Cardinality(Occurrences(ring[s], p)) /\ x2 = Cardinality(Occurrences(a, p))
        /\ y = Cardinality(Occurrences(sent[s], p)) /\ y2 = Cardinality(Occurrences(b, p))
        /\ k2 - k >= x2 - x + y2 - y

LEMMA FollowsIf ==
  ASSUME NEW s, NEW a, NEW b, NEW p, NEW k \in Int, NEW k2 \in Int,
         NEW x \in Nat, NEW x2 \in Nat, NEW y \in Nat, NEW y2 \in Nat,
         k = pktRef[p], k2 = pktRef'[p],
         x = Cardinality(Occurrences(ring[s], p)), x2 = Cardinality(Occurrences(a, p)),
         y = Cardinality(Occurrences(sent[s], p)), y2 = Cardinality(Occurrences(b, p)),
         k2 - k >= x2 - x + y2 - y
  PROVE  Follows(s, a, b, p)
BY Zenon DEF Follows

LEMMA Balance ==
  ASSUME NEW k \in Int, NEW k2 \in Int, NEW x \in Nat, NEW x2 \in Nat, NEW y \in Nat,
         NEW y2 \in Nat, NEW m \in Nat, NEW m2 \in Nat, NEW n \in Nat, NEW n2 \in Nat,
         k2 - k >= x2 - x + y2 - y, m2 = m - x + x2, n2 = n - y + y2, k >= m + n
  PROVE  k2 >= m2 + n2
OBVIOUS

(* The places in the rings when one of them changes, and in the send buffers. *)
LEMMA RingPlaces ==
  ASSUME IInv, PacketInv, NEW s \in Slots, NEW a \in Seq(Packets), Len(a) <= RingCap,
         NEW r, r = Refilled(ring, s, a), NEW p \in Packets
  PROVE  /\ IsFiniteSet(Places(r, RingCap, p))
         /\ Cardinality(Places(ring, RingCap, p)) \in Nat
         /\ Cardinality(Places(r, RingCap, p)) \in Nat
         /\ Cardinality(Places(r, RingCap, p)) =
                Cardinality(Places(ring, RingCap, p)) - Cardinality(Occurrences(ring[s], p))
                    + Cardinality(Occurrences(a, p))
<1>1. PICK box \in [Slots -> Seq(Packets)], n \in Nat : box = ring /\ n = RingCap
  BY ConstantAssumption DEF IInv, TypeInv, SessionTypes
<1>2. IsFiniteSet(Places(box, n, p)) /\ Len(box[s]) <= n
  BY <1>1 DEF PacketInv
<1>3. r = Refilled(box, s, a) /\ Len(a) <= n
  BY <1>1
<1>4. /\ IsFiniteSet(Places(r, n, p))
      /\ Cardinality(Places(box, n, p)) \in Nat /\ Cardinality(Places(r, n, p)) \in Nat
      /\ Cardinality(Places(r, n, p)) =
             Cardinality(Places(box, n, p)) - Cardinality(Occurrences(box[s], p))
                 + Cardinality(Occurrences(a, p))
  BY <1>2, <1>3, PlacesChange
<1> QED BY <1>1, <1>4

LEMMA SentPlaces ==
  ASSUME IInv, PacketInv, NEW s \in Slots, NEW b \in Seq(Packets), Len(b) <= Batch,
         NEW q, q = Refilled(sent, s, b), NEW p \in Packets
  PROVE  /\ IsFiniteSet(Places(q, Batch, p))
         /\ Cardinality(Places(sent, Batch, p)) \in Nat
         /\ Cardinality(Places(q, Batch, p)) \in Nat
         /\ Cardinality(Places(q, Batch, p)) =
                Cardinality(Places(sent, Batch, p)) - Cardinality(Occurrences(sent[s], p))
                    + Cardinality(Occurrences(b, p))
<1>1. PICK box \in [Slots -> Seq(Packets)], n \in Nat : box = sent /\ n = Batch
  BY ConstantAssumption DEF IInv, TypeInv, SessionTypes
<1>2. IsFiniteSet(Places(box, n, p)) /\ Len(box[s]) <= n
  BY <1>1 DEF PacketInv
<1>3. q = Refilled(box, s, b) /\ Len(b) <= n
  BY <1>1
<1>4. /\ IsFiniteSet(Places(q, n, p))
      /\ Cardinality(Places(box, n, p)) \in Nat /\ Cardinality(Places(q, n, p)) \in Nat
      /\ Cardinality(Places(q, n, p)) =
             Cardinality(Places(box, n, p)) - Cardinality(Occurrences(box[s], p))
                 + Cardinality(Occurrences(b, p))
  BY <1>2, <1>3, PlacesChange
<1> QED BY <1>1, <1>4

(* A step that moves packets in the boxes of one slot, and counts them. *)
LEMMA BoxesChange ==
  ASSUME IInv, PacketInv, NEW s \in Slots, NEW a \in Seq(Packets), NEW b \in Seq(Packets),
         Len(a) <= RingCap, Len(b) <= Batch,
         ring' = [ring EXCEPT ![s] = a], sent' = [sent EXCEPT ![s] = b],
         \A p \in Packets : Follows(s, a, b, p)
  PROVE  PacketInv'
<1>1. /\ ring \in [Slots -> Seq(Packets)] /\ sent \in [Slots -> Seq(Packets)]
      /\ pktRef \in [Packets -> Int] /\ RingCap \in Nat /\ Batch \in Nat
  BY ConstantAssumption DEF IInv, TypeInv, SessionTypes, ServerTypes
<1>2. PICK r \in [Slots -> Seq(Packets)], q \in [Slots -> Seq(Packets)] :
          r = ring' /\ r = Refilled(ring, s, a) /\ q = sent' /\ q = Refilled(sent, s, b)
  BY <1>1 DEF Refilled
<1>3. \A x \in Slots : Len(r[x]) <= RingCap /\ Len(q[x]) <= Batch
  BY <1>1, <1>2 DEF PacketInv, Refilled
<1>4. ASSUME NEW p \in Packets
      PROVE  /\ IsFiniteSet(Places(r, RingCap, p)) /\ IsFiniteSet(Places(q, Batch, p))
             /\ pktRef'[p] >= Cardinality(Places(r, RingCap, p)) + Cardinality(Places(q, Batch, p))
  <2>1. /\ IsFiniteSet(Places(ring, RingCap, p)) /\ IsFiniteSet(Places(sent, Batch, p))
        /\ Len(ring[s]) <= RingCap /\ Len(sent[s]) <= Batch
    BY DEF PacketInv
  <2>2. pktRef[p] >= Cardinality(Places(ring, RingCap, p)) + Cardinality(Places(sent, Batch, p))
    BY DEF PacketInv, PacketsHeld, Held, Places
  <2>3. PICK k \in Int, k2 \in Int, x \in Nat, x2 \in Nat, y \in Nat, y2 \in Nat :
            /\ k = pktRef[p] /\ k2 = pktRef'[p]
            /\ x = Cardinality(Occurrences(ring[s], p)) /\ x2 = Cardinality(Occurrences(a, p))
            /\ y = Cardinality(Occurrences(sent[s], p)) /\ y2 = Cardinality(Occurrences(b, p))
            /\ k2 - k >= x2 - x + y2 - y
    BY DEF Follows
  <2>4. /\ IsFiniteSet(Places(r, RingCap, p))
        /\ Cardinality(Places(ring, RingCap, p)) \in Nat
        /\ Cardinality(Places(r, RingCap, p)) \in Nat
        /\ Cardinality(Places(r, RingCap, p)) =
               Cardinality(Places(ring, RingCap, p)) - Cardinality(Occurrences(ring[s], p))
                   + Cardinality(Occurrences(a, p))
    <3>1. r = Refilled(ring, s, a)
      BY <1>2
    <3> QED BY <3>1, RingPlaces
  <2>5. /\ IsFiniteSet(Places(q, Batch, p))
        /\ Cardinality(Places(sent, Batch, p)) \in Nat
        /\ Cardinality(Places(q, Batch, p)) \in Nat
        /\ Cardinality(Places(q, Batch, p)) =
               Cardinality(Places(sent, Batch, p)) - Cardinality(Occurrences(sent[s], p))
                   + Cardinality(Occurrences(b, p))
    <3>1. q = Refilled(sent, s, b)
      BY <1>2
    <3> QED BY <3>1, SentPlaces
  <2>6. PICK m \in Nat, m2 \in Nat, n \in Nat, n2 \in Nat :
            /\ m = Cardinality(Places(ring, RingCap, p)) /\ m2 = Cardinality(Places(r, RingCap, p))
            /\ n = Cardinality(Places(sent, Batch, p)) /\ n2 = Cardinality(Places(q, Batch, p))
    BY <2>4, <2>5
  <2>7. m2 = m - x + x2 /\ n2 = n - y + y2 /\ k >= m + n
    BY <2>2, <2>3, <2>4, <2>5, <2>6
  <2>8. k2 >= m2 + n2
    BY <2>3, <2>7, Balance
  <2> QED BY <2>3, <2>4, <2>5, <2>6, <2>8
<1> QED BY <1>2, <1>3, <1>4, PacketInvAfter

(* What every step finds in the boxes of a slot. *)
LEMMA BoxFacts ==
  ASSUME IInv, PacketInv, NEW s \in Slots
  PROVE  /\ ring[s] \in Seq(Packets) /\ Len(ring[s]) <= RingCap /\ Len(ring[s]) \in Nat
         /\ sent[s] \in Seq(Packets) /\ Len(sent[s]) <= Batch
         /\ <<>> \in Seq(Packets) /\ Len(<<>>) <= RingCap /\ Len(<<>>) <= Batch
         /\ ring = [ring EXCEPT ![s] = ring[s]] /\ sent = [sent EXCEPT ![s] = sent[s]]
         /\ \A p \in Packets : /\ pktRef[p] \in Int
                               /\ Cardinality(Occurrences(ring[s], p)) \in Nat
                               /\ Cardinality(Occurrences(sent[s], p)) \in Nat
                               /\ Cardinality(Occurrences(<<>>, p)) = 0
<1>1. /\ ring \in [Slots -> Seq(Packets)] /\ sent \in [Slots -> Seq(Packets)]
      /\ pktRef \in [Packets -> Int]
  BY DEF IInv, TypeInv, SessionTypes, ServerTypes
<1>2. <<>> \in Seq(Packets) /\ Len(<<>>) <= RingCap /\ Len(<<>>) <= Batch
  BY ConstantAssumption, EmptySeq
<1>3. ring = [ring EXCEPT ![s] = ring[s]] /\ sent = [sent EXCEPT ![s] = sent[s]]
  BY <1>1
<1>4. ring[s] \in Seq(Packets) /\ Len(ring[s]) \in Nat /\ sent[s] \in Seq(Packets)
  BY <1>1, LenProperties
<1>5. Len(ring[s]) <= RingCap /\ Len(sent[s]) <= Batch
  BY DEF PacketInv
<1> QED BY <1>1, <1>2, <1>3, <1>4, <1>5, OccurrencesFinite, OccurrencesOfNone

(* SubRef on each packet of a sequence. *)
LEMMA SubRefsCounts ==
  ASSUME IInv, NEW q \in Seq(Packets), SubRefs(q)
  PROVE  /\ pktRef' \in [Packets -> Int]
         /\ \A p \in Packets : pktRef'[p] = pktRef[p] - Cardinality(Occurrences(q, p))
<1>1. pktRef' \in [Packets -> Int]
  BY SubRefsType DEF IInv, TypeInv
<1>2. \A p \in Packets : pktRef'[p] = pktRef[p] - Cardinality(Occurrences(q, p))
  BY DEF SubRefs, Occurrences
<1> QED BY <1>1, <1>2

(* Session::Init and Session::Reset empty boxes without counting: they hold  *)
(* nothing by then, and the inequality survives in any case.                *)
LEMMA BoxesEmptied ==
  ASSUME IInv, PacketInv, NEW s \in Slots, pktRef' = pktRef, ring' = [ring EXCEPT ![s] = <<>>],
         sent' = [sent EXCEPT ![s] = <<>>] \/ sent' = sent
  PROVE  PacketInv'
<1>1. PICK b \in {<<>>, sent[s]} : sent' = [sent EXCEPT ![s] = b]
  BY BoxFacts
<1>2. ASSUME NEW p \in Packets
      PROVE  Follows(s, <<>>, b, p)
  <2>1. PICK k \in Int, x \in Nat, y \in Nat, z \in Nat :
            /\ k = pktRef[p] /\ k = pktRef'[p] /\ 0 = Cardinality(Occurrences(<<>>, p))
            /\ x = Cardinality(Occurrences(ring[s], p)) /\ y = Cardinality(Occurrences(sent[s], p))
            /\ z = Cardinality(Occurrences(b, p)) /\ z \in {0, y}
    <3>1. CASE b = <<>>
      BY <3>1, BoxFacts
    <3>2. CASE b = sent[s]
      BY <3>2, BoxFacts
    <3> QED BY <3>1, <3>2
  <2>2. PICK none \in Nat : none = 0 /\ k - k >= none - x + z - y
    <3>1. z = 0 \/ z = y
      BY <2>1
    <3> QED BY <3>1
  <2> QED BY <2>1, <2>2, FollowsIf
<1>3. b \in Seq(Packets) /\ Len(b) <= Batch
  BY BoxFacts
<1> QED BY <1>1, <1>2, <1>3, BoxFacts, BoxesChange

(* Enqueue: the reference is taken with the place. *)
LEMMA EnqueuePackets ==
  ASSUME IInv, PacketInv, NEW t \in Threads, Enqueue(t)
  PROVE  PacketInv'
<1>1. pc[t] = "enqueue" /\ slot[t] \in Slots /\ pkt[t] \in Packets
  <2>1. pc[t] = "enqueue" /\ slot[t] \in Slots /\ ThreadOK(t)
    BY ThreadFacts DEF Enqueue, IInv, ThreadInv
  <2>2. op[t] = "SendPacket"
    BY <2>1 DEF ThreadOK, Serves, CleanupLabels, InCleanup
  <2> QED BY <2>1, <2>2 DEF ThreadOK
<1>2. PICK s \in Slots, x \in Packets : s = slot[t] /\ x = pkt[t]
  BY <1>1
<1>3. CASE UNCHANGED <<ring, sent, pktRef>>
  BY <1>3 DEF PacketInv, PacketsHeld, Held, Places
<1>4. CASE Len(ring[s]) < RingCap
  <2>1. /\ ring' = [ring EXCEPT ![s] = Append(ring[s], x)] /\ sent' = sent
        /\ pktRef' = [pktRef EXCEPT ![x] = @ + 1]
    BY <1>2, <1>4 DEF Enqueue, AddRef
  <2>2. sent' = [sent EXCEPT ![s] = sent[s]]
    BY <2>1, BoxFacts
  <2>3. /\ Append(ring[s], x) \in Seq(Packets) /\ Len(Append(ring[s], x)) = Len(ring[s]) + 1
        /\ \A p : Cardinality(Occurrences(Append(ring[s], x), p)) =
                      Cardinality(Occurrences(ring[s], p)) + (IF x = p THEN 1 ELSE 0)
    BY BoxFacts, AppendProperties, OccurrencesOfAppend
  <2>4. /\ pktRef' \in [Packets -> Int]
        /\ \A p \in Packets : pktRef'[p] = pktRef[p] + (IF x = p THEN 1 ELSE 0)
    BY <2>1 DEF IInv, TypeInv, ServerTypes
  <2>5. Len(Append(ring[s], x)) <= RingCap
    BY <1>4, <2>3, BoxFacts, ConstantAssumption
  <2>6. PICK q \in Seq(Packets) : q = Append(ring[s], x)
    BY <2>3
  <2>7. ASSUME NEW p \in Packets
        PROVE  Follows(s, q, sent[s], p)
    <3>1. PICK k \in Int, d \in {0, 1}, y \in Nat, z \in Nat :
              /\ k = pktRef[p] /\ k + d = pktRef'[p] /\ z = Cardinality(Occurrences(sent[s], p))
              /\ y = Cardinality(Occurrences(ring[s], p))
              /\ y + d = Cardinality(Occurrences(q, p))
      <4>1. CASE x = p
        BY <2>3, <2>4, <2>6, <4>1, BoxFacts
      <4>2. CASE x # p
        BY <2>3, <2>4, <2>6, <4>2, BoxFacts
      <4> QED BY <4>1, <4>2
    <3>2. d \in Nat
      OBVIOUS
    <3>3. PICK k2 \in Int, y2 \in Nat : k2 = k + d /\ y2 = y + d /\ k2 - k >= y2 - y + z - z
      <4>1. k + d \in Int /\ y + d \in Nat /\ (k + d) - k >= (y + d) - y + z - z
        BY <3>2
      <4> QED BY <4>1
    <3> QED BY <3>1, <3>3, FollowsIf
  <2> QED BY <2>1, <2>2, <2>4, <2>5, <2>6, <2>7, BoxFacts, BoxesChange
<1> QED BY <1>2, <1>3, <1>4 DEF Enqueue

(* Drain: packets move from the ring to the send buffer.                    *)
LEMMA DrainPackets ==
  ASSUME IInv, PacketInv, NEW t \in Threads, Drain(t)
  PROVE  PacketInv'
<1>1. PICK s \in Slots : s = slot[t]
  BY ThreadFacts DEF Drain, IInv
<1>2. PICK n : n = BatchSize(ring[s])
  OBVIOUS
<1>3. n \in 0..Len(ring[s]) /\ n <= Batch
  BY <1>2, BoxFacts, ConstantAssumption DEF BatchSize
<1>4. PICK a, b : a = SubSeq(ring[s], n + 1, Len(ring[s])) /\ b = SubSeq(ring[s], 1, n)
  OBVIOUS
<1>5. ring' = [ring EXCEPT ![s] = a] /\ sent' = [sent EXCEPT ![s] = b] /\ pktRef' = pktRef
  BY <1>1, <1>2, <1>4 DEF Drain
<1>6. /\ a \in Seq(Packets) /\ b \in Seq(Packets) /\ Len(b) = n /\ Len(a) = Len(ring[s]) - n
      /\ \A p : Cardinality(Occurrences(ring[s], p)) =
                    Cardinality(Occurrences(b, p)) + Cardinality(Occurrences(a, p))
  <2>1. ring[s] \in Seq(Packets)
    BY BoxFacts
  <2> QED BY <1>3, <1>4, <2>1, OccurrencesOfSplit
<1>7. Len(a) <= RingCap /\ Len(b) <= Batch
  BY <1>3, <1>6, BoxFacts, ConstantAssumption
<1>8. ASSUME NEW p \in Packets
      PROVE  Follows(s, a, b, p)
  <2>1. PICK k \in Int, x \in Nat, x2 \in Nat, y \in Nat, y2 \in Nat :
            /\ k = pktRef[p] /\ k = pktRef'[p]
            /\ x = Cardinality(Occurrences(ring[s], p)) /\ x2 = Cardinality(Occurrences(a, p))
            /\ y = Cardinality(Occurrences(sent[s], p)) /\ y2 = Cardinality(Occurrences(b, p))
    <3>1. Cardinality(Occurrences(a, p)) \in Nat /\ Cardinality(Occurrences(b, p)) \in Nat
      BY <1>6, OccurrencesFinite
    <3> QED BY <1>5, <3>1, BoxFacts
  <2>2. x = y2 + x2
    BY <1>6, <2>1
  <2>3. k - k >= x2 - x + y2 - y
    BY <2>1, <2>2
  <2> QED BY <2>1, <2>3, FollowsIf
<1> QED BY <1>5, <1>6, <1>7, <1>8, BoxesChange

(* The packets of a send buffer lose their references as they leave it.     *)
LEMMA SentPackets ==
  ASSUME IInv, PacketInv, NEW s \in Slots, SubRefs(sent[s]), sent' = [sent EXCEPT ![s] = <<>>],
         ring' = ring
  PROVE  PacketInv'
<1>1. ring' = [ring EXCEPT ![s] = ring[s]]
  BY BoxFacts
<1>2. /\ pktRef' \in [Packets -> Int]
      /\ \A p \in Packets : pktRef'[p] = pktRef[p] - Cardinality(Occurrences(sent[s], p))
  BY BoxFacts, SubRefsCounts
<1>3. ASSUME NEW p \in Packets
      PROVE  Follows(s, ring[s], <<>>, p)
  <2>1. PICK k \in Int, x \in Nat, y \in Nat :
            /\ k = pktRef[p] /\ k - y = pktRef'[p] /\ 0 = Cardinality(Occurrences(<<>>, p))
            /\ x = Cardinality(Occurrences(ring[s], p)) /\ y = Cardinality(Occurrences(sent[s], p))
    BY <1>2, BoxFacts
  <2>2. PICK k2 \in Int, none \in Nat : k2 = k - y /\ none = 0 /\ k2 - k >= x - x + none - y
    BY <2>1
  <2> QED BY <2>1, <2>2, FollowsIf
<1> QED BY <1>1, <1>3, BoxFacts, BoxesChange

(* The packets of a ring lose their references in releaseSession. *)
LEMMA DrainAllPackets ==
  ASSUME IInv, PacketInv, NEW t \in Threads, DrainAll(t)
  PROVE  PacketInv'
<1>1. PICK s \in Slots : s = slot[t]
  BY ThreadFacts DEF DrainAll, IInv
<1>2. SubRefs(ring[s]) /\ ring' = [ring EXCEPT ![s] = <<>>] /\ sent' = sent
  BY <1>1 DEF DrainAll
<1>3. sent' = [sent EXCEPT ![s] = sent[s]]
  BY <1>2, BoxFacts
<1>4. /\ pktRef' \in [Packets -> Int]
      /\ \A p \in Packets : pktRef'[p] = pktRef[p] - Cardinality(Occurrences(ring[s], p))
  BY <1>2, BoxFacts, SubRefsCounts
<1>5. ASSUME NEW p \in Packets
      PROVE  Follows(s, <<>>, sent[s], p)
  <2>1. PICK k \in Int, x \in Nat, y \in Nat :
            /\ k = pktRef[p] /\ k - x = pktRef'[p] /\ 0 = Cardinality(Occurrences(<<>>, p))
            /\ x = Cardinality(Occurrences(ring[s], p)) /\ y = Cardinality(Occurrences(sent[s], p))
    BY <1>4, BoxFacts
  <2>2. PICK k2 \in Int, none \in Nat : k2 = k - x /\ none = 0 /\ k2 - k >= none - x + y - y
    BY <2>1
  <2> QED BY <2>1, <2>2, FollowsIf
<1> QED BY <1>2, <1>3, <1>5, BoxFacts, BoxesChange

(* The packets and their places stay as they are. *)
LEMMA SamePackets ==
  ASSUME PacketInv, UNCHANGED <<ring, sent, pktRef>>
  PROVE  PacketInv'
BY DEF PacketInv, PacketsHeld, Held, Places

LEMMA ContinuePackets ==
  ASSUME IInv, PacketInv, NEW t \in Threads, Continue(t)
  PROVE  PacketInv'
<1>1. CASE SendRef(t) \/ WsaSend(t)
  <2>1. PICK s \in Slots : s = slot[t]
    BY <1>1, ThreadFacts DEF SendRef, WsaSend, IInv
  <2>2. \/ UNCHANGED <<ring, sent, pktRef>>
        \/ SubRefs(sent[s]) /\ sent' = [sent EXCEPT ![s] = <<>>] /\ ring' = ring
    BY <1>1, <2>1 DEF SendRef, WsaSend
  <2> QED BY <2>2, SamePackets, SentPackets
<1>2. CASE Reset(t)
  <2>1. PICK s \in Slots : s = slot[t]
    BY <1>2, ThreadFacts DEF Reset, IInv
  <2>2. pktRef' = pktRef /\ ring' = [ring EXCEPT ![s] = <<>>] /\ sent' = sent
    BY <1>2, <2>1 DEF Reset
  <2> QED BY <2>2, BoxesEmptied
<1>3. CASE Enqueue(t) \/ Drain(t) \/ DrainAll(t)
  BY <1>3, EnqueuePackets, DrainPackets, DrainAllPackets
<1>4. CASE Acquire(t) \/ Recheck(t) \/ Exchange(t) \/ ClearFlag(t) \/ ResetFlag(t)
  <2>1. UNCHANGED <<ring, sent, pktRef>>
    BY <1>4 DEF Acquire, Recheck, Exchange, ClearFlag, ResetFlag, sendVars
  <2> QED BY <2>1, SamePackets
<1>5. CASE RecvRef(t) \/ WsaRecv(t) \/ SetRelease(t) \/ Cancel(t) \/ DropIo(t) \/ DropCall(t)
  <2>1. UNCHANGED <<ring, sent, pktRef>>
    BY <1>5 DEF RecvRef, WsaRecv, SetRelease, Cancel, DropIo, DropCall, sendVars
  <2> QED BY <2>1, SamePackets
<1>6. CASE Cleanup(t) \/ CloseSocket(t) \/ Leave(t) \/ Push(t)
  <2>1. UNCHANGED <<ring, sent, pktRef>>
    BY <1>6 DEF Cleanup, CloseSocket, Leave, Push, sendVars
  <2> QED BY <2>1, SamePackets
<1> QED BY <1>1, <1>2, <1>3, <1>4, <1>5, <1>6 DEF Continue

LEMMA NextPackets ==
  ASSUME IInv, PacketInv, [Next]_vars
  PROVE  PacketInv'
<1>1. CASE Accept
  <2>1. PICK s \in Slots : InitSession(s)
    BY <1>1 DEF Accept, IInv, TypeInv, ServerTypes
  <2>2. pktRef' = pktRef /\ ring' = [ring EXCEPT ![s] = <<>>] /\ sent' = [sent EXCEPT ![s] = <<>>]
    BY <1>1, <2>1 DEF Accept, InitSession
  <2> QED BY <2>2, BoxesEmptied
<1>2. CASE AssignId \/ Publish \/ Register \/ Join
  <2>1. UNCHANGED <<ring, sent, pktRef>>
    BY <1>2 DEF AssignId, Publish, Register, Join, sendVars
  <2> QED BY <2>1, SamePackets
<1>3. ASSUME NEW t \in Apps, Call(t)
      PROVE  PacketInv'
  <2>1. UNCHANGED <<ring, sent, pktRef>>
    BY <1>3 DEF Call, DisConnect, SendPacket, sendVars
  <2> QED BY <2>1, SamePackets
<1>4. ASSUME NEW t \in Threads, Continue(t)
      PROVE  PacketInv'
  BY <1>4, ContinuePackets
<1>5. ASSUME NEW w \in Workers, NEW s \in Slots, Dequeue(w, s)
      PROVE  PacketInv'
  <2>1. \/ UNCHANGED <<ring, sent, pktRef>>
        \/ SubRefs(sent[s]) /\ sent' = [sent EXCEPT ![s] = <<>>] /\ ring' = ring
    BY <1>5 DEF Dequeue, RecvEnded, RecvData, SendFailed, SendDone, ReleaseTaken, sendVars
  <2> QED BY <2>1, SamePackets, SentPackets
<1>6. ASSUME NEW s \in Slots, Network(s)
      PROVE  PacketInv'
  <2>1. UNCHANGED <<ring, sent, pktRef>>
    BY <1>6 DEF Network, RecvCompletes, SendCompletes, sendVars
  <2> QED BY <2>1, SamePackets
<1>7. CASE UNCHANGED vars
  BY <1>7, SamePackets DEF vars, sendVars
<1> QED BY <1>1, <1>2, <1>3, <1>4, <1>5, <1>6, <1>7 DEF Next, AcceptStep

LEMMA InitPackets ==
  ASSUME Init
  PROVE  PacketInv
<1>1. /\ \A s \in Slots : ring[s] = <<>> /\ sent[s] = <<>> /\ Len(<<>>) = 0
      /\ \A p \in Packets : pktRef[p] = 0
  BY DEF Init
<1>2. \A p : Places(ring, RingCap, p) = {} /\ Places(sent, Batch, p) = {}
  BY <1>1 DEF Places
<1>3. IsFiniteSet({}) /\ Cardinality({}) = 0
  BY FS_EmptySet
<1>4. \A p \in Packets : pktRef[p] >= Held(p)
  <2> TAKE p \in Packets
  <2>1. Held(p) = Cardinality(Places(ring, RingCap, p)) + Cardinality(Places(sent, Batch, p))
    BY DEF Held, Places
  <2>2. Held(p) = 0 + 0
    BY <1>2, <1>3, <2>1
  <2> QED BY <1>1, <2>2
<1>5. \A s \in Slots : Len(ring[s]) <= RingCap /\ Len(sent[s]) <= Batch
  BY <1>1, ConstantAssumption
<1>6. \A p \in Packets : /\ IsFiniteSet(Places(ring, RingCap, p))
                         /\ IsFiniteSet(Places(sent, Batch, p))
  BY <1>2, <1>3
<1> QED BY <1>4, <1>5, <1>6 DEF PacketInv, PacketsHeld

(* A packet in the ring of a session or in a send under way holds a reference *)
(* for each of its places, so it is not in its pool: whatever the order of   *)
(* calls, failures and releases, no reference is dropped that still counts.  *)
THEOREM PacketsStayHeld == Spec => []PacketsHeld
<1>1. Init => PacketInv
  BY InitPackets
<1>2. IInv /\ PacketInv /\ [Next]_vars => PacketInv'
  BY NextPackets
<1>3. PacketInv => PacketsHeld
  BY DEF PacketInv
<1> QED BY <1>1, <1>2, <1>3, SpecIInv, PTL DEF Spec

================================================================================
