--------------------------- MODULE GroupServerProofs ---------------------------
(***************************************************************************)
(* Proofs about GroupServer for any number of sessions, players and echo     *)
(* groups and any number of packets, with a pool that reuses players: who    *)
(* owns a player, that a group hears of it before its packets, that the maps *)
(* keep none that was freed but the one the login group may leave behind,    *)
(* that each is counted, and that no client that keeps to the protocol is    *)
(* thrown out. GroupServerInvariant has the induction hypothesis.            *)
(***************************************************************************)
EXTENDS GroupServerInvariant, FiniteSetTheorems, TLAPS


-----------------------------------------------------------------------------
(* Mailboxes as sequences.                                                  *)

LEMMA AppendAt ==
    ASSUME NEW S, NEW q \in Seq(S), NEW x \in S
    PROVE  /\ Append(q, x) \in Seq(S) /\ Len(Append(q, x)) = Len(q) + 1 /\ Len(q) \in Nat
           /\ \A k \in 1 .. Len(q) : Append(q, x)[k] = q[k]
           /\ Append(q, x)[Len(q) + 1] = x
OBVIOUS

LEMMA TailAt ==
    ASSUME NEW S, NEW q \in Seq(S), q # <<>>
    PROVE  /\ Tail(q) \in Seq(S) /\ Len(Tail(q)) = Len(q) - 1 /\ Len(q) \in Nat \ {0}
           /\ \A k \in 1 .. Len(q) - 1 : Tail(q)[k] = q[k + 1]
           /\ Head(q) = q[1] /\ Head(q) \in S
OBVIOUS

LEMMA Concat ==
    ASSUME NEW S, NEW a \in Seq(S), NEW b \in Seq(S)
    PROVE  /\ a \o b \in Seq(S) /\ Len(a \o b) \in Nat
           /\ \A k \in 1 .. Len(a \o b) : (a \o b)[k] \in S
           /\ a \o <<>> = a /\ <<>> \o a = a
<1>1. a \o b \in Seq(S)
  OBVIOUS
<1>2. Len(a \o b) \in Nat /\ \A k \in 1 .. Len(a \o b) : (a \o b)[k] \in S
  BY <1>1
<1>3. a \o <<>> = a /\ <<>> \o a = a
  OBVIOUS
<1>4. QED
  BY <1>1, <1>2, <1>3

LEMMA ConcatAppend ==
    ASSUME NEW S, NEW a \in Seq(S), NEW b \in Seq(S), NEW x \in S
    PROVE  a \o Append(b, x) = Append(a \o b, x)
OBVIOUS

LEMMA ConcatHead ==
    ASSUME NEW S, NEW a \in Seq(S), NEW b \in Seq(S), a # <<>>
    PROVE  /\ a \o b # <<>> /\ Len(a \o b) > 0 /\ (a \o b)[1] = Head(a)
           /\ Tail(a \o b) = Tail(a) \o b
<1>1. Len(a) \in Nat \ {0} /\ Len(b) \in Nat /\ Len(a \o b) = Len(a) + Len(b)
  OBVIOUS
<1>2. a \o b # <<>> /\ Len(a \o b) > 0 /\ (a \o b)[1] = Head(a)
  BY <1>1
<1>3. Tail(a \o b) = Tail(a) \o b
  BY <1>1, <1>2
<1>4. QED
  BY <1>2, <1>3

(* What a step does to the jobs of a group. *)
QueueSame(g)        == Queue(g)' = Queue(g)
QueueGains(g, job)  == Queue(g)' = Append(Queue(g), job)
QueueLoses(g)       == Queue(g) # <<>> /\ Queue(g)' = Tail(Queue(g))

LEMMA QueueType ==
    ASSUME TypeOK, NEW g \in Groups
    PROVE  /\ Queue(g) \in Seq(Jobs) /\ Len(Queue(g)) \in Nat
           /\ \A k \in 1 .. Len(Queue(g)) : Queue(g)[k] \in Jobs
           /\ local[g] # <<>> => Queue(g) # <<>> /\ Current(g) = Queue(g)[1] /\ Len(Queue(g)) > 0
<1>1. local[g] \in Seq(Jobs) /\ mailbox[g] \in Seq(Jobs)
  BY DEF TypeOK
<1>2. QED
  BY <1>1, Concat, ConcatHead DEF Queue, Current

LEMMA Kept ==
    ASSUME NEW g, UNCHANGED <<local, mailbox>>
    PROVE  QueueSame(g)
BY DEF QueueSame, Queue

LEMMA Enqueued ==
    ASSUME TypeOK, NEW h \in Groups, NEW job \in Jobs, Enqueue(h, job), UNCHANGED local
    PROVE  QueueGains(h, job) /\ \A g \in Groups \ {h} : QueueSame(g)
<1>1. local[h] \in Seq(Jobs) /\ mailbox[h] \in Seq(Jobs) /\ mailbox'[h] = Append(mailbox[h], job)
  BY DEF TypeOK, Enqueue
<1>2. \A a, b \in Seq(Jobs) : a \o Append(b, job) = Append(a \o b, job)
  BY ConcatAppend
<1>3. QueueGains(h, job)
  BY <1>1, <1>2 DEF QueueGains, Queue
<1>4. \A g \in Groups \ {h} : QueueSame(g)
  BY DEF TypeOK, Enqueue, QueueSame, Queue
<1>5. QED
  BY <1>3, <1>4

LEMMA TailOfLocal ==
    ASSUME TypeOK, NEW g \in Groups, local[g] # <<>>
    PROVE  Tail(local[g]) \o mailbox[g] = Tail(local[g] \o mailbox[g])
<1>1. local[g] \in Seq(Jobs) /\ mailbox[g] \in Seq(Jobs)
  BY DEF TypeOK
<1>2. QED
  BY <1>1, ConcatHead

LEMMA Popped ==
    ASSUME TypeOK, NEW g \in Groups, local[g] # <<>>, Pop(g), UNCHANGED mailbox
    PROVE  QueueLoses(g) /\ \A h \in Groups \ {g} : QueueSame(h)
<1>1. local'[g] = Tail(local[g])
  BY DEF TypeOK, Pop
<1>2. QueueLoses(g)
  BY <1>1, TailOfLocal, QueueType DEF QueueLoses, Queue
<1>3. \A h \in Groups \ {g} : QueueSame(h)
  BY DEF TypeOK, Pop, QueueSame, Queue
<1>4. QED
  BY <1>2, <1>3

LEMMA Forwarded ==
    ASSUME TypeOK, NEW g \in Groups, local[g] # <<>>, Pop(g),
           NEW h \in Groups \ {g}, NEW job \in Jobs, Enqueue(h, job)
    PROVE  /\ QueueLoses(g) /\ QueueGains(h, job)
           /\ \A e \in Groups \ {g, h} : QueueSame(e)
<1>1. local'[g] = Tail(local[g]) /\ mailbox'[g] = mailbox[g]
  BY DEF TypeOK, Pop, Enqueue
<1>2. QueueLoses(g)
  BY <1>1, TailOfLocal, QueueType DEF QueueLoses, Queue
<1>3. local[h] \in Seq(Jobs) /\ mailbox[h] \in Seq(Jobs) /\ mailbox'[h] = Append(mailbox[h], job)
      /\ local'[h] = local[h]
  BY DEF TypeOK, Enqueue, Pop
<1>4. \A a, b \in Seq(Jobs) : a \o Append(b, job) = Append(a \o b, job)
  BY ConcatAppend
<1>5. QueueGains(h, job)
  BY <1>3, <1>4 DEF QueueGains, Queue
<1>6. \A e \in Groups \ {g, h} : QueueSame(e)
  BY DEF TypeOK, Pop, Enqueue, QueueSame, Queue
<1>7. QED
  BY <1>2, <1>5, <1>6

LEMMA Drained ==
    ASSUME TypeOK, NEW g \in Groups, Drain(g), NEW h \in Groups
    PROVE  QueueSame(h)
<1>1. local[g] = <<>> /\ mailbox[g] \in Seq(Jobs) /\ local'[g] = mailbox[g] /\ mailbox'[g] = <<>>
  BY DEF TypeOK, Drain
<1>2. mailbox[g] \o <<>> = <<>> \o mailbox[g]
  BY <1>1, Concat
<1>3. QueueSame(g)
  BY <1>1, <1>2 DEF QueueSame, Queue
<1>4. h # g => QueueSame(h)
  BY DEF TypeOK, Drain, QueueSame, Queue
<1>5. QED
  BY <1>3, <1>4

(* The jobs of a group after such a step, and their order. *)
Ordered(g)  == \A a, b \in Pending(g) : Precedes(a, b) => Precedes(a, b)'

LEMMA InQueue ==
    ASSUME TypeOK, NEW g \in Groups
    PROVE  /\ \A job \in Pending(g) : job \in Jobs
           /\ \A p : Leaves(g, p) <=>
                  \E job \in Pending(g) : job.type = "LEAVE" /\ job.player = p
           /\ local[g] # <<>> => Current(g) \in Pending(g)
<1>1. PICK q \in Seq(Jobs) : q = Queue(g)
  BY QueueType
<1>2. PICK n \in Nat : n = Len(q) /\ DOMAIN q = 1 .. n /\ \A k \in 1 .. n : q[k] \in Jobs
  BY <1>1
<1>3. Pending(g) = {q[k] : k \in 1 .. n}
  BY <1>1, <1>2 DEF Pending
<1>4. \A job \in Pending(g) : job \in Jobs
  BY <1>2, <1>3
<1>5. \A p : Leaves(g, p) <=> \E job \in Pending(g) : job.type = "LEAVE" /\ job.player = p
  BY <1>1, <1>2, <1>3 DEF Leaves
<1>6. local[g] # <<>> => Current(g) \in Pending(g)
  <2>1. local[g] # <<>> => Current(g) = q[1] /\ 1 \in 1 .. n
    BY <1>1, <1>2, QueueType
  <2>2. QED
    BY <2>1, <1>3
<1>7. QED
  BY <1>4, <1>5, <1>6

LEMMA SameJobs ==
    ASSUME TypeOK, NEW g \in Groups, QueueSame(g)
    PROVE  /\ Pending(g)' = Pending(g)
           /\ LeavesOnce(g) => LeavesOnce(g)'
           /\ InOrder(g) /\ Ordered(g) => InOrder(g)'
           /\ \A p : Leaves(g, p)' <=> Leaves(g, p)
<1>1. Pending(g)' = Pending(g)
  BY DEF QueueSame, Pending
<1>2. ASSUME InOrder(g), Ordered(g) PROVE InOrder(g)'
  <2> SUFFICES ASSUME NEW k \in 1 .. Len(Queue(g)), NEW j \in 1 .. k - 1
               PROVE  Precedes(Queue(g)[j], Queue(g)[k])'
    BY DEF InOrder, QueueSame
  <2>1. Len(Queue(g)) \in Nat /\ j \in 1 .. Len(Queue(g))
    BY QueueType
  <2>2. PICK a \in Pending(g), b \in Pending(g) : a = Queue(g)[j] /\ b = Queue(g)[k]
    BY <2>1 DEF Pending
  <2>3. Precedes(a, b)
    BY <2>2, <1>2 DEF InOrder
  <2>4. Precedes(a, b)'
    BY <2>2, <2>3, <1>2 DEF Ordered
  <2>5. a = Queue(g)'[j] /\ b = Queue(g)'[k]
    BY <2>2 DEF QueueSame
  <2>6. QED
    BY <2>4, <2>5 DEF Precedes, Late
<1>3. LeavesOnce(g) => LeavesOnce(g)'
  BY DEF LeavesOnce, QueueSame
<1>4. \A p : Leaves(g, p)' <=> Leaves(g, p)
  BY DEF Leaves, QueueSame
<1>5. QED
  BY <1>1, <1>2, <1>3, <1>4

LEMMA GainedJob ==
    ASSUME TypeOK, NEW g \in Groups, NEW job \in Jobs, QueueGains(g, job)
    PROVE  /\ Pending(g)' = Pending(g) \cup {job}
           /\ Queue(g) # <<>> => Queue(g)'[1] = Queue(g)[1]
           /\ InOrder(g) /\ Ordered(g) /\ (\A old \in Pending(g) : Precedes(old, job)')
              => InOrder(g)'
           /\ LeavesOnce(g) /\ (job.type = "LEAVE" => ~Leaves(g, job.player))
              => LeavesOnce(g)'
           /\ \A p : Leaves(g, p)' <=> Leaves(g, p) \/ (job.type = "LEAVE" /\ job.player = p)
<1>1. PICK q \in Seq(Jobs) : q = Queue(g)
  BY QueueType
<1>2. PICK r \in Seq(Jobs) : r = Queue(g)' /\ r = Append(q, job)
  BY <1>1, AppendAt DEF QueueGains
<1>3. PICK n \in Nat : n = Len(q)
  BY <1>1
<1>4. /\ Len(r) = n + 1 /\ r[n + 1] = job
      /\ \A k \in 1 .. n : r[k] = q[k]
  BY <1>1, <1>2, <1>3, AppendAt
<1>5. Pending(g) = {q[k] : k \in 1 .. n} /\ Pending(g)' = {r[k] : k \in 1 .. n + 1}
  BY <1>1, <1>2, <1>3, <1>4 DEF Pending
<1>6. 1 .. n + 1 = (1 .. n) \cup {n + 1}
  OBVIOUS
<1>7. Pending(g)' = Pending(g) \cup {job}
  BY <1>4, <1>5, <1>6
<1>8. ASSUME InOrder(g), Ordered(g), \A old \in Pending(g) : Precedes(old, job)'
      PROVE  InOrder(g)'
  <2> SUFFICES ASSUME NEW k \in 1 .. n + 1, NEW j \in 1 .. k - 1
               PROVE  Precedes(r[j], r[k])'
    BY <1>2, <1>4 DEF InOrder, Precedes, Late
  <2>1. j \in 1 .. n /\ r[j] = q[j] /\ q[j] \in Pending(g)
    BY <1>4, <1>5
  <2>2. PICK a \in Pending(g) : a = r[j]
    BY <2>1
  <2>3. CASE k \in 1 .. n
    <3>1. r[k] = q[k] /\ k \in 1 .. Len(Queue(g)) /\ q[k] \in Pending(g)
      BY <2>3, <1>1, <1>3, <1>4, <1>5
    <3>2. PICK b \in Pending(g) : b = r[k]
      BY <3>1
    <3>3. Precedes(a, b)
      BY <2>1, <2>2, <3>1, <3>2, <1>1, <1>8 DEF InOrder
    <3>4. Precedes(a, b)'
      BY <3>3, <1>8 DEF Ordered
    <3>5. QED
      BY <2>2, <3>2, <3>4, <1>2 DEF Precedes, Late
  <2>4. CASE k = n + 1
    <3>1. Precedes(a, job)' /\ r[k] = job
      BY <2>4, <1>4, <1>8
    <3>2. QED
      BY <2>2, <3>1 DEF Precedes, Late
  <2>5. QED
    BY <2>3, <2>4
<1>9. q # <<>> => r[1] = q[1]
  BY <1>3, <1>4
<1>10. \A p : Leaves(g, p)' <=> Leaves(g, p) \/ (job.type = "LEAVE" /\ job.player = p)
  <2>1. \A p : Leaves(g, p) <=> \E k \in 1 .. n : q[k].type = "LEAVE" /\ q[k].player = p
    BY <1>1, <1>3 DEF Leaves
  <2>2. \A p : Leaves(g, p)' <=> \E k \in 1 .. n + 1 : r[k].type = "LEAVE" /\ r[k].player = p
    BY <1>2, <1>4 DEF Leaves
  <2>3. QED
    BY <2>1, <2>2, <1>4, <1>6
<1>11. ASSUME LeavesOnce(g), job.type = "LEAVE" => ~Leaves(g, job.player)
       PROVE  LeavesOnce(g)'
  <2> SUFFICES ASSUME NEW k \in 1 .. n + 1, NEW j \in 1 .. k - 1,
                      r[j].type = "LEAVE", r[k].type = "LEAVE"
               PROVE  r[j].player # r[k].player
    BY <1>2, <1>4 DEF LeavesOnce
  <2>1. j \in 1 .. n /\ r[j] = q[j]
    BY <1>4
  <2>2. CASE k \in 1 .. n
    BY <2>1, <2>2, <1>1, <1>3, <1>4, <1>11 DEF LeavesOnce
  <2>3. CASE k = n + 1
    <3>1. Leaves(g, r[j].player) /\ r[k] = job
      BY <2>1, <2>3, <1>1, <1>3, <1>4 DEF Leaves
    <3>2. QED
      BY <3>1, <1>11
  <2>4. QED
    BY <2>2, <2>3
<1>12. QED
  BY <1>1, <1>2, <1>7, <1>8, <1>9, <1>10, <1>11

LEMMA LostJob ==
    ASSUME TypeOK, NEW g \in Groups, QueueLoses(g)
    PROVE  /\ Queue(g)[1] \in Pending(g) /\ Pending(g) = Pending(g)' \cup {Queue(g)[1]}
           /\ InOrder(g) => \A job \in Pending(g)' : Precedes(Queue(g)[1], job)
           /\ InOrder(g) /\ Ordered(g) => InOrder(g)'
           /\ LeavesOnce(g) =>
                /\ LeavesOnce(g)'
                /\ \A p : Leaves(g, p)' <=>
                       Leaves(g, p) /\ ~(Queue(g)[1].type = "LEAVE" /\ Queue(g)[1].player = p)
<1>1. PICK q \in Seq(Jobs) : q = Queue(g) /\ q # <<>>
  BY QueueType DEF QueueLoses
<1>2. PICK r \in Seq(Jobs) : r = Queue(g)' /\ r = Tail(q)
  BY <1>1, TailAt DEF QueueLoses
<1>3. PICK n \in Nat : n + 1 = Len(q)
  <2>1. Len(q) - 1 \in Nat /\ Len(q) - 1 + 1 = Len(q)
    BY <1>1, TailAt
  <2>2. QED
    BY <2>1
<1>4. Len(r) = n /\ \A k \in 1 .. n : r[k] = q[k + 1]
  BY <1>1, <1>2, <1>3, TailAt
<1>d. DOMAIN r = 1 .. n /\ DOMAIN q = 1 .. n + 1
  BY <1>1, <1>2, <1>3, <1>4
<1>5. Pending(g) = {q[k] : k \in 1 .. n + 1} /\ Pending(g)' = {r[k] : k \in 1 .. n}
  BY <1>1, <1>2, <1>3, <1>4 DEF Pending
<1>6. Pending(g) = Pending(g)' \cup {q[1]}
  <2>1. ASSUME NEW x \in Pending(g) PROVE x \in Pending(g)' \cup {q[1]}
    <3>1. PICK k \in 1 .. n + 1 : x = q[k]
      BY <2>1, <1>5
    <3>2. k # 1 => k - 1 \in 1 .. n /\ r[k - 1] = q[k]
      BY <1>4
    <3>3. QED
      BY <3>1, <3>2, <1>5
  <2>2. ASSUME NEW k \in 1 .. n PROVE r[k] \in Pending(g)
    <3>1. k + 1 \in 1 .. n + 1 /\ r[k] = q[k + 1]
      BY <1>4
    <3>2. QED
      BY <3>1, <1>5
  <2>3. q[1] \in Pending(g)
    <3>1. 1 \in 1 .. n + 1
      OBVIOUS
    <3>2. QED
      BY <3>1, <1>5
  <2>4. QED
    BY <2>1, <2>2, <2>3, <1>5
<1>7. ASSUME InOrder(g), Ordered(g) PROVE InOrder(g)'
  <2> SUFFICES ASSUME NEW k \in 1 .. n, NEW j \in 1 .. k - 1
               PROVE  Precedes(r[j], r[k])'
    BY <1>2, <1>4 DEF InOrder, Precedes, Late
  <2>1. /\ k + 1 \in 1 .. Len(Queue(g)) /\ j + 1 \in 1 .. (k + 1) - 1 /\ j \in 1 .. n
        /\ r[k] = Queue(g)[k + 1] /\ r[j] = Queue(g)[j + 1]
    BY <1>1, <1>3, <1>4
  <2>2. PICK a \in Pending(g), b \in Pending(g) : a = r[j] /\ b = r[k]
    BY <2>1, <1>5, <1>6
  <2>3. Precedes(a, b)
    BY <2>1, <2>2, <1>7 DEF InOrder
  <2>4. Precedes(a, b)'
    BY <2>3, <1>7 DEF Ordered
  <2>5. QED
    BY <2>2, <2>4, <1>2 DEF Precedes, Late
<1>8. ASSUME InOrder(g), NEW job \in Pending(g)'
      PROVE  Precedes(Queue(g)[1], job)
  <2>1. PICK k \in 1 .. n : job = r[k]
    BY <1>5, <1>8
  <2>2. /\ k + 1 \in 1 .. Len(Queue(g)) /\ 1 \in 1 .. (k + 1) - 1
        /\ job = Queue(g)[k + 1]
    BY <2>1, <1>1, <1>3, <1>4
  <2>3. QED
    BY <2>2, <1>8 DEF InOrder
<1>9. ASSUME LeavesOnce(g)
      PROVE  /\ LeavesOnce(g)'
             /\ \A p : Leaves(g, p)' <=>
                    Leaves(g, p) /\ ~(q[1].type = "LEAVE" /\ q[1].player = p)
  <2>1. LeavesOnce(g)'
    <3> SUFFICES ASSUME NEW k \in 1 .. n, NEW j \in 1 .. k - 1,
                        r[j].type = "LEAVE", r[k].type = "LEAVE"
                 PROVE  r[j].player # r[k].player
      BY <1>2, <1>4 DEF LeavesOnce
    <3>1. /\ k + 1 \in 1 .. Len(Queue(g)) /\ j + 1 \in 1 .. (k + 1) - 1
          /\ r[k] = Queue(g)[k + 1] /\ r[j] = Queue(g)[j + 1]
      BY <1>1, <1>3, <1>4
    <3>2. QED
      BY <3>1, <1>9 DEF LeavesOnce
  <2>2. ASSUME NEW p
        PROVE  Leaves(g, p)' <=> Leaves(g, p) /\ ~(q[1].type = "LEAVE" /\ q[1].player = p)
    <3>1. Leaves(g, p) <=> \E k \in 1 .. n + 1 : q[k].type = "LEAVE" /\ q[k].player = p
      BY <1>1, <1>d DEF Leaves
    <3>2. Leaves(g, p)' <=> \E k \in 1 .. n : r[k].type = "LEAVE" /\ r[k].player = p
      BY <1>2, <1>d DEF Leaves
    <3>3. ASSUME NEW k \in 1 .. n, r[k].type = "LEAVE", r[k].player = p
          PROVE  /\ k + 1 \in 1 .. n + 1 /\ q[k + 1] = r[k]
                 /\ ~(q[1].type = "LEAVE" /\ q[1].player = p)
      <4>1. k + 1 \in 1 .. Len(Queue(g)) /\ 1 \in 1 .. (k + 1) - 1 /\ r[k] = Queue(g)[k + 1]
        BY <1>1, <1>3, <1>4
      <4>2. QED
        BY <3>3, <4>1, <1>1, <1>3, <1>9 DEF LeavesOnce
    <3>4. ASSUME NEW k \in 1 .. n + 1, q[k].type = "LEAVE", q[k].player = p, k # 1
          PROVE  k - 1 \in 1 .. n /\ r[k - 1] = q[k]
      BY <3>4, <1>4
    <3>5. QED
      BY <3>1, <3>2, <3>3, <3>4
  <2>3. QED
    BY <2>1, <2>2
<1>10. QED
  BY <1>1, <1>6, <1>7, <1>8, <1>9

-----------------------------------------------------------------------------
(* Types.                                                                   *)

LEMMA JobType ==
    ASSUME NEW p \in Players
    PROVE  /\ \A type \in {"JOIN", "LEAVE", "GROUP_ENTER"} :
                  Job(type, p, NoPacket) \in Jobs
           /\ \A i \in Sessions, k \in Kinds :
                  Job("PACKET", p, [from |-> i, kind |-> k]) \in Jobs
BY DEF Job, Jobs

(* The job a content thread is at. *)
LEMMA CurrentType ==
    ASSUME TypeOK, NEW g \in Groups, local[g] # <<>>
    PROVE  /\ Current(g) \in Jobs /\ Current(g).player \in Players
           /\ Current(g).packet.from \in Ids /\ sid[Current(g).player] \in Ids
<1>1. Current(g) \in Jobs
  BY InQueue
<1>2. PICK p \in Players : p = Current(g).player
  BY <1>1 DEF Jobs
<1>3. sid[p] \in Ids
  BY DEF TypeOK
<1>4. Current(g).packet.from \in Ids
  BY <1>1 DEF Jobs, NoPacket, Ids
<1>5. QED
  BY <1>1, <1>2, <1>3, <1>4

LEMMA EnqueueType ==
    ASSUME TypeOK, NEW h \in Groups, NEW job \in Jobs, Enqueue(h, job)
    PROVE  mailbox' \in [Groups -> Seq(Jobs)]
<1>1. mailbox[h] \in Seq(Jobs)
  BY DEF TypeOK
<1>2. Append(mailbox[h], job) \in Seq(Jobs)
  BY <1>1, AppendAt
<1>3. QED
  BY <1>2 DEF TypeOK, Enqueue

LEMMA PopType ==
    ASSUME TypeOK, NEW g \in Groups, local[g] # <<>>, Pop(g)
    PROVE  local' \in [Groups -> Seq(Jobs)]
<1>1. local[g] \in Seq(Jobs)
  BY DEF TypeOK
<1>2. Tail(local[g]) \in Seq(Jobs)
  BY <1>1, TailAt
<1>3. QED
  BY <1>2 DEF TypeOK, Pop

LEMMA EraseType ==
    ASSUME TypeOK, NEW g \in Groups, NEW i \in Ids, Erase(g, i)
    PROVE  members' \in [Groups -> [Ids -> Players \cup {NoPlayer}]]
           /\ count' \in [Groups -> Int]
<1>1. CASE members[g][i] # NoPlayer
  <2>1. count' \in [Groups -> Int]
    BY <1>1 DEF TypeOK, Erase
  <2>2. members' = [members EXCEPT ![g][i] = NoPlayer]
    BY <1>1 DEF Erase
  <2>3. members[g] \in [Ids -> Players \cup {NoPlayer}]
    BY DEF TypeOK
  <2>4. [members[g] EXCEPT ![i] = NoPlayer] \in [Ids -> Players \cup {NoPlayer}]
    BY <2>3
  <2>5. QED
    BY <2>1, <2>2, <2>4 DEF TypeOK
<1>2. CASE members[g][i] = NoPlayer
  BY <1>2 DEF TypeOK, Erase
<1>3. QED
  BY <1>1, <1>2

LEMMA ReserveType ==
    ASSUME TypeOK, NEW p \in Players, ReserveDisconnect(p)
    PROVE  willDelete' \in [Players -> BOOLEAN] /\ kicked' \subseteq Sessions \X Causes
<1>1. willDelete' \in [Players -> BOOLEAN]
  BY DEF TypeOK, ReserveDisconnect
<1>2. kicked \subseteq Sessions \X Causes
  BY DEF TypeOK
<1>3. CASE ~willDelete[p] /\ Live(sid[p])
  <2>1. <<sid[p], "logic">> \in Sessions \X Causes
    BY <1>3 DEF Live, Causes
  <2>2. kicked' = kicked \cup {<<sid[p], "logic">>}
    BY <1>3 DEF ReserveDisconnect
  <2>3. QED
    BY <2>1, <2>2, <1>1, <1>2
<1>4. CASE ~(~willDelete[p] /\ Live(sid[p]))
  BY <1>1, <1>2, <1>4 DEF ReserveDisconnect
<1>5. QED
  BY <1>3, <1>4

LEMMA SendType ==
    ASSUME TypeOK, NEW i, NEW isSent, SendPacket(i, isSent)
    PROVE  unread' \in [Sessions -> 0 .. SendCap] /\ kicked' \subseteq Sessions \X Causes
<1>1. /\ unread \in [Sessions -> 0 .. SendCap] /\ kicked \subseteq Sessions \X Causes
      /\ SendCap \in Nat
  BY GroupAssumption DEF TypeOK
<1>2. CASE Live(i) /\ unread[i] < SendCap /\ unread' = [unread EXCEPT ![i] = @ + 1] /\ UNCHANGED kicked
  <2>1. i \in Sessions
    BY <1>2 DEF Live
  <2>2. unread[i] \in 0 .. SendCap /\ unread[i] + 1 \in 0 .. SendCap
    BY <2>1, <1>1, <1>2
  <2>3. QED
    BY <2>1, <2>2, <1>1, <1>2
<1>3. CASE Live(i) /\ kicked' = kicked \cup {<<i, "full">>} /\ UNCHANGED unread
  <2>1. <<i, "full">> \in Sessions \X Causes
    BY <1>3 DEF Live, Causes
  <2>2. QED
    BY <2>1, <1>1, <1>3
<1>4. CASE UNCHANGED answerVars
  BY <1>1, <1>4 DEF answerVars
<1>5. QED
  BY <1>2, <1>3, <1>4 DEF SendPacket

LEMMA UseType ==
    ASSUME TypeOK, NEW what \in Uses, NEW i \in Ids, NEW p \in Players, Use(what, i, p)
    PROVE  stale' \subseteq Uses \X Ids \X Ids
<1>1. sid[p] \in Ids /\ stale \subseteq Uses \X Ids \X Ids
  BY DEF TypeOK
<1>2. <<what, i, sid[p]>> \in Uses \X Ids \X Ids
  BY <1>1
<1>3. QED
  BY <1>1, <1>2 DEF Use

LEMMA FreeType ==
    ASSUME TypeOK, NEW p \in Players, Free(p)
    PROVE  avail' \in [Players -> Nat]
BY DEF TypeOK, Free

LEMMA EngineTypes ==
    ASSUME Typed, NEW i \in Sessions, Engine(i)
    PROVE  Typed'
<1>a. /\ TypeOK /\ Login \in Groups /\ Shards \subseteq Groups /\ i \in Ids
      /\ (HasPlayer(i) => mine[i] \in Players)
      /\ \A j \in Sessions : HasPlayer(j) => mine[j] \in Players
  BY DEF Typed, Groups, Ids
<1>c. PICK p : p = mine[i]
  OBVIOUS
<1>d. p \in Players \cup {NoPlayer} /\ map[i] \in Players \cup {NoPlayer}
  BY <1>a, <1>c DEF TypeOK
<1>e. ASSUME TypeOK', UNCHANGED <<local, pc>>,
             \A j \in Sessions : HasPlayer(j)' => mine'[j] \in Players
      PROVE  Typed'
  BY <1>e DEF Typed, Current
<1> USE DEF engineVars, playerVars, groupVars, answerVars
<1>1. CASE JoinAlloc(i)
  <2>1. PICK q \in Players : /\ avail[q] > 0 /\ avail' = [avail EXCEPT ![q] = @ - 1]
                             /\ mine' = [mine EXCEPT ![i] = q]
                             /\ sid' = [sid EXCEPT ![q] = NoSession]
                             /\ group' = [group EXCEPT ![q] = NoGroup]
                             /\ willDelete' = [willDelete EXCEPT ![q] = FALSE]
    BY <1>1 DEF JoinAlloc, MayAlloc
  <2>2. avail[q] \in Nat /\ avail[q] - 1 \in Nat
    BY <2>1, <1>a DEF TypeOK
  <2>3. /\ UNCHANGED <<sent, map, mailbox, local, pc, members, count, unread, kicked, stale>>
        /\ phase' = [phase EXCEPT ![i] = "init"]
    BY <1>1 DEF JoinAlloc
  <2>4. TypeOK'
    BY <1>a, <2>1, <2>2, <2>3 DEF TypeOK, Ids
  <2>5. \A j \in Sessions : HasPlayer(j)' => mine'[j] \in Players
    BY <1>a, <2>1, <2>3 DEF TypeOK, HasPlayer
  <2>6. QED
    BY <2>3, <2>4, <2>5, <1>e
<1>2. CASE JoinInit(i)
  <2>1. /\ phase[i] = "init" /\ phase' = [phase EXCEPT ![i] = "insert"]
        /\ sid' = [sid EXCEPT ![p] = i] /\ group' = [group EXCEPT ![p] = Login]
        /\ UNCHANGED <<mine, sent, map, willDelete, avail, mailbox, local, pc, members, count,
                       unread, kicked, stale>>
    BY <1>2, <1>c DEF JoinInit
  <2>2. TypeOK'
    BY <2>1, <1>a DEF TypeOK
  <2>3. \A j \in Sessions : HasPlayer(j)' => mine'[j] \in Players
    BY <2>1, <1>a DEF TypeOK, HasPlayer
  <2>4. QED
    BY <2>1, <2>2, <2>3, <1>e
<1>3. CASE JoinInsert(i)
  <2>1. /\ phase[i] = "insert" /\ phase' \in {[phase EXCEPT ![i] = "open"], [phase EXCEPT ![i] = "gone"]}
        /\ UNCHANGED <<mine, sent, sid, group, willDelete, local, pc, members, count,
                       unread, kicked, stale>>
    BY <1>3 DEF JoinInsert
  <2>2. p \in Players
    BY <2>1, <1>a, <1>c DEF HasPlayer
  <2>3. \/ /\ map' = [map EXCEPT ![i] = p] /\ avail' = avail
           /\ Enqueue(Login, Job("JOIN", p, NoPacket))
        \/ Free(p) /\ UNCHANGED <<map, mailbox>>
    BY <1>3, <1>c DEF JoinInsert
  <2>4. map' \in [Sessions -> Players \cup {NoPlayer}]
    BY <2>2, <2>3, <1>a DEF TypeOK
  <2>5. avail' \in [Players -> Nat]
    BY <2>2, <2>3, <1>a, FreeType DEF TypeOK
  <2>6. mailbox' \in [Groups -> Seq(Jobs)]
    BY <2>2, <2>3, <1>a, JobType, EnqueueType DEF TypeOK
  <2>7. TypeOK'
    BY <2>1, <2>4, <2>5, <2>6, <1>a DEF TypeOK
  <2>8. \A j \in Sessions : HasPlayer(j)' => mine'[j] \in Players
    BY <2>1, <1>a DEF TypeOK, HasPlayer
  <2>9. QED
    BY <2>1, <2>7, <2>8, <1>e
<1>4. ASSUME NEW k \in Kinds, OnRecv(i, k) PROVE Typed'
  <2>1. /\ phase[i] = "open" /\ sent' = [sent EXCEPT ![i] = Append(@, k)]
        /\ UNCHANGED <<phase, mine, map, sid, group, willDelete, avail, local, pc, members,
                       count, unread, kicked, stale>>
    BY <1>4 DEF OnRecv
  <2>2. PICK q : q = map[i]
    OBVIOUS
  <2>3. \/ /\ q \in Players /\ group[q] \in Groups
           /\ Enqueue(group[q], Job("PACKET", q, [from |-> i, kind |-> k]))
        \/ UNCHANGED mailbox
    BY <1>4, <2>2, <1>a, <1>d DEF OnRecv, TypeOK
  <2>4. mailbox' \in [Groups -> Seq(Jobs)]
    BY <2>3, <1>a, JobType, EnqueueType DEF TypeOK
  <2>5. sent' \in [Sessions -> Seq(Kinds)]
    <3>1. sent[i] \in Seq(Kinds)
      BY <1>a DEF TypeOK
    <3>2. Append(sent[i], k) \in Seq(Kinds)
      BY <3>1, AppendAt
    <3>3. QED
      BY <2>1, <3>2, <1>a DEF TypeOK
  <2>6. TypeOK'
    BY <2>1, <2>4, <2>5, <1>a DEF TypeOK
  <2>7. QED
    BY <2>1, <2>6, <1>a, <1>e DEF HasPlayer
<1>5. CASE OnClientLeave(i)
  <2>1. /\ phase[i] = "open" /\ phase' = [phase EXCEPT ![i] = "check"]
        /\ UNCHANGED <<sent, sid, group, willDelete, avail, local, pc, members,
                       count, unread, kicked, stale>>
    BY <1>5 DEF OnClientLeave
  <2>2. PICK q : q = map[i]
    OBVIOUS
  <2>3. /\ map' = [map EXCEPT ![i] = NoPlayer] /\ mine' = [mine EXCEPT ![i] = q]
        /\ \/ /\ q \in Players /\ group[q] \in Groups
              /\ Enqueue(group[q], Job("LEAVE", q, NoPacket))
           \/ UNCHANGED mailbox
    BY <1>5, <2>2, <1>a, <1>d DEF OnClientLeave, TypeOK
  <2>4. mailbox' \in [Groups -> Seq(Jobs)]
    BY <2>3, <1>a, JobType, EnqueueType DEF TypeOK
  <2>5. TypeOK'
    BY <2>1, <2>2, <2>3, <2>4, <1>a, <1>d DEF TypeOK
  <2>6. \A j \in Sessions : HasPlayer(j)' => mine'[j] \in Players
    BY <2>1, <2>3, <1>a DEF TypeOK, HasPlayer
  <2>7. QED
    BY <2>1, <2>5, <2>6, <1>e
<1>6. CASE LeaveCheck(i)
  <2>1. /\ phase[i] = "check" /\ phase' = [phase EXCEPT ![i] = "gone"]
        /\ UNCHANGED <<mine, sent, map, sid, group, willDelete, mailbox, local, pc, members,
                       count, unread, kicked>>
        /\ \/ p \in Players /\ Free(p) /\ Use("free", i, p)
           \/ UNCHANGED <<avail, stale>>
    BY <1>6, <1>c, <1>d DEF LeaveCheck
  <2>2. avail' \in [Players -> Nat]
    BY <2>1, <1>a, FreeType DEF TypeOK
  <2>3. stale' \subseteq Uses \X Ids \X Ids
    BY <2>1, <1>a, UseType DEF Uses, TypeOK
  <2>4. TypeOK'
    BY <2>1, <2>2, <2>3, <1>a DEF TypeOK
  <2>5. \A j \in Sessions : HasPlayer(j)' => mine'[j] \in Players
    BY <2>1, <1>a DEF TypeOK, HasPlayer
  <2>6. QED
    BY <2>1, <2>4, <2>5, <1>e
<1>7. CASE Transmit(i)
  <2>1. PICK n \in 0 .. unread[i] - 1 : unread' = [unread EXCEPT ![i] = n]
    BY <1>7 DEF Transmit
  <2>2. n \in 0 .. SendCap
    BY <2>1, <1>a, GroupAssumption DEF TypeOK
  <2>3. UNCHANGED <<phase, mine, sent, map, sid, group, willDelete, avail, mailbox, local, pc,
                    members, count, kicked, stale>>
    BY <1>7 DEF Transmit
  <2>4. TypeOK'
    BY <2>1, <2>2, <2>3, <1>a DEF TypeOK
  <2>5. QED
    BY <2>3, <2>4, <1>a, <1>e DEF HasPlayer
<1>8. QED
  BY Engine(i), <1>1, <1>2, <1>3, <1>4, <1>5, <1>6, <1>7 DEF Engine

LEMMA LoginTypes ==
    ASSUME Typed, LoginStep
    PROVE  TypeOK'
<1>a. TypeOK /\ Login \in Groups /\ Shards \subseteq Groups
  BY DEF Typed, Groups
<1>b. PICK p, f : p = Current(Login).player /\ f = Current(Login).packet.from
  OBVIOUS
<1>c. local[Login] # <<>> => p \in Players /\ f \in Ids /\ sid[p] \in Ids /\ Target(p) \in Shards
  BY <1>a, <1>b, CurrentType, GroupAssumption DEF Target
<1>d. pc[Login] # "idle" => local[Login] # <<>>
  BY DEF Typed
<1> USE DEF engineVars, playerVars, groupVars, answerVars
<1>1. CASE LatePacket
  <2>1. local' \in [Groups -> Seq(Jobs)]
    BY <1>1, <1>a, PopType DEF LatePacket, At
  <2>2. QED
    BY <1>1, <1>a, <2>1 DEF LatePacket, TypeOK
<1>2. CASE Refuse
  <2>1. /\ local[Login] # <<>> /\ ReserveDisconnect(p) /\ Use("packet", f, p) /\ Pop(Login)
        /\ UNCHANGED <<phase, mine, sent, map, sid, group, avail, mailbox, pc, members, count, unread>>
    BY <1>2, <1>b DEF Refuse, At
  <2>2. local' \in [Groups -> Seq(Jobs)]
    BY <2>1, <1>a, PopType
  <2>3. willDelete' \in [Players -> BOOLEAN] /\ kicked' \subseteq Sessions \X Causes
    BY <2>1, <1>a, <1>c, ReserveType
  <2>4. stale' \subseteq Uses \X Ids \X Ids
    BY <2>1, <1>a, <1>c, UseType DEF Uses
  <2>5. QED
    BY <2>1, <2>2, <2>3, <2>4, <1>a DEF TypeOK
<1>3. CASE Accepted
  <2>1. /\ local[Login] # <<>> /\ Use("packet", f, p) /\ pc' = [pc EXCEPT ![Login] = "handOver"]
        /\ UNCHANGED <<phase, mine, sent, map, sid, group, willDelete, avail, mailbox, local, members,
                       count, unread, kicked>>
    BY <1>3, <1>b DEF Accepted, At
  <2>2. stale' \subseteq Uses \X Ids \X Ids
    BY <2>1, <1>a, <1>c, UseType DEF Uses
  <2>3. QED
    BY <2>1, <2>2, <1>a DEF TypeOK
<1>4. CASE HandOver("handOver", "move")
  <2>1. /\ pc[Login] = "handOver" /\ Enqueue(Target(p), Job("GROUP_ENTER", p, NoPacket))
        /\ pc' = [pc EXCEPT ![Login] = "move"]
        /\ UNCHANGED <<phase, mine, sent, map, sid, group, willDelete, avail, local, members, count,
                       unread, kicked, stale>>
    BY <1>4, <1>b DEF HandOver
  <2>2. mailbox' \in [Groups -> Seq(Jobs)]
    BY <2>1, <1>a, <1>c, <1>d, JobType, EnqueueType
  <2>3. QED
    BY <2>1, <2>2, <1>a DEF TypeOK
<1>5. CASE Move("move", "erase")
  <2>1. /\ pc[Login] = "move" /\ group' = [group EXCEPT ![p] = Target(p)]
        /\ pc' = [pc EXCEPT ![Login] = "erase"]
        /\ UNCHANGED <<phase, mine, sent, map, sid, willDelete, avail, mailbox, local, members, count,
                       unread, kicked, stale>>
    BY <1>5, <1>b DEF Move
  <2>2. Target(p) \in Groups
    BY <2>1, <1>a, <1>c, <1>d
  <2>3. QED
    BY <2>1, <2>2, <1>a DEF TypeOK
<1>6. CASE EraseMoved
  <2>1. PICK i : i = sid[p]
    OBVIOUS
  <2>2. /\ pc[Login] = "erase" /\ pc' = [pc EXCEPT ![Login] = "reply"]
        /\ Erase(Login, i) /\ Use("erase", f, p)
        /\ UNCHANGED <<phase, mine, sent, map, sid, group, willDelete, avail, mailbox, local, unread, kicked>>
    BY <1>6, <1>b, <2>1 DEF EraseMoved
  <2>3. members' \in [Groups -> [Ids -> Players \cup {NoPlayer}]] /\ count' \in [Groups -> Int]
    BY <2>1, <2>2, <1>a, <1>c, <1>d, EraseType
  <2>4. stale' \subseteq Uses \X Ids \X Ids
    BY <2>2, <1>a, <1>c, <1>d, UseType DEF Uses
  <2>5. QED
    BY <2>2, <2>3, <2>4, <1>a DEF TypeOK
<1>7. CASE Reply
  <2>1. PICK isSent \in BOOLEAN : SendPacket(sid[p], isSent)
    BY <1>7, <1>b DEF Reply
  <2>2. /\ pc[Login] = "reply" /\ Use("reply", f, p) /\ Pop(Login)
        /\ pc' = [pc EXCEPT ![Login] = "idle"]
        /\ UNCHANGED <<phase, mine, sent, map, sid, group, willDelete, avail, mailbox, members, count>>
    BY <1>7, <1>b DEF Reply
  <2>3. local' \in [Groups -> Seq(Jobs)]
    BY <2>2, <1>a, <1>d, PopType
  <2>4. stale' \subseteq Uses \X Ids \X Ids
    BY <2>2, <1>a, <1>c, <1>d, UseType DEF Uses
  <2>5. unread' \in [Sessions -> 0 .. SendCap] /\ kicked' \subseteq Sessions \X Causes
    BY <2>1, <1>a, SendType
  <2>6. QED
    BY <2>2, <2>3, <2>4, <2>5, <1>a DEF TypeOK
<1>8. QED
  BY <1>1, <1>2, <1>3, <1>4, <1>5, <1>6, <1>7 DEF LoginStep

LEMMA ContentTypes ==
    ASSUME Typed, NEW g \in Groups, ContentThread(g)
    PROVE  TypeOK'
<1>a. TypeOK /\ Login \in Groups /\ Shards \subseteq Groups
  BY DEF Typed, Groups
<1>b. PICK p, f : p = Current(g).player /\ f = Current(g).packet.from
  OBVIOUS
<1>c. local[g] # <<>> => p \in Players /\ f \in Ids /\ sid[p] \in Ids
  BY <1>a, <1>b, CurrentType
<1> USE DEF engineVars, playerVars, groupVars, answerVars
<1>1. CASE Drain(g)
  BY <1>1, <1>a DEF Drain, TypeOK
<1>2. CASE OnEnter(g)
  <2>1. /\ local[g] # <<>> /\ members' = [members EXCEPT ![g][sid[p]] = p]
        /\ count' = [count EXCEPT ![g] = @ + 1] /\ Pop(g)
        /\ UNCHANGED <<phase, mine, sent, map, sid, group, willDelete, avail, mailbox, pc, unread,
                       kicked, stale>>
    BY <1>2, <1>b DEF OnEnter, At
  <2>2. local' \in [Groups -> Seq(Jobs)]
    BY <2>1, <1>a, PopType
  <2>3. members' \in [Groups -> [Ids -> Players \cup {NoPlayer}]]
    <3>1. members[g] \in [Ids -> Players \cup {NoPlayer}]
      BY <1>a DEF TypeOK
    <3>2. [members[g] EXCEPT ![sid[p]] = p] \in [Ids -> Players \cup {NoPlayer}]
      BY <3>1, <1>c, <2>1
    <3>3. QED
      BY <2>1, <3>2, <1>a DEF TypeOK
  <2>4. count' \in [Groups -> Int]
    BY <2>1, <1>a DEF TypeOK
  <2>5. QED
    BY SMTT(20), <2>1, <2>2, <2>3, <2>4, <1>a DEF TypeOK
<1>3. CASE OnLeave(g)
  <2>1. /\ local[g] # <<>> /\ Pop(g)
        /\ UNCHANGED <<phase, mine, sent, map, sid, group, willDelete, pc, unread, kicked, stale>>
        /\ \/ Erase(g, sid[p]) /\ Free(p) /\ UNCHANGED mailbox
           \/ Free(p) /\ UNCHANGED <<members, count, mailbox>>
           \/ /\ group[p] \notin {g, NoGroup} /\ Enqueue(group[p], Job("LEAVE", p, NoPacket))
              /\ UNCHANGED <<avail, members, count>>
    BY <1>3, <1>b DEF OnLeave, At
  <2>2. local' \in [Groups -> Seq(Jobs)]
    BY <2>1, <1>a, PopType
  <2>3. mailbox' \in [Groups -> Seq(Jobs)]
    <3>1. group[p] \in Groups \cup {NoGroup}
      BY <2>1, <1>a, <1>c DEF TypeOK
    <3>2. QED
      BY <2>1, <3>1, <1>a, <1>c, JobType, EnqueueType DEF TypeOK
  <2>4. avail' \in [Players -> Nat]
    BY <2>1, <1>a, <1>c, FreeType DEF TypeOK
  <2>5. members' \in [Groups -> [Ids -> Players \cup {NoPlayer}]] /\ count' \in [Groups -> Int]
    BY <2>1, <1>a, <1>c, EraseType DEF TypeOK
  <2>6. QED
    BY <2>1, <2>2, <2>3, <2>4, <2>5, <1>a DEF TypeOK
<1>4. CASE g = Login /\ LoginStep
  BY <1>4, LoginTypes
<1>5. CASE Echo(g)
  <2>1. /\ local[g] # <<>> /\ Use("packet", f, p) /\ Pop(g)
        /\ UNCHANGED <<phase, mine, sent, map, sid, group, avail, mailbox, pc, members, count>>
        /\ \/ \E isSent \in BOOLEAN : /\ SendPacket(sid[p], isSent)
                                      /\ willDelete' = [willDelete EXCEPT ![p] = @ \/ ~isSent]
           \/ UNCHANGED <<willDelete, answerVars>>
    BY <1>5, <1>b DEF Echo, At
  <2>2. local' \in [Groups -> Seq(Jobs)]
    BY <2>1, <1>a, PopType
  <2>3. stale' \subseteq Uses \X Ids \X Ids
    BY <2>1, <1>a, <1>c, UseType DEF Uses
  <2>4. unread' \in [Sessions -> 0 .. SendCap] /\ kicked' \subseteq Sessions \X Causes
    <3>1. unread \in [Sessions -> 0 .. SendCap] /\ kicked \subseteq Sessions \X Causes
      BY <1>a DEF TypeOK
    <3>2. QED
      BY <2>1, <3>1, <1>a, SendType
  <2>5. willDelete' \in [Players -> BOOLEAN]
    <3>1. willDelete \in [Players -> BOOLEAN]
      BY <1>a DEF TypeOK
    <3>2. ASSUME NEW isSent \in BOOLEAN, willDelete' = [willDelete EXCEPT ![p] = @ \/ ~isSent]
          PROVE  willDelete' \in [Players -> BOOLEAN]
      BY ZenonT(20), <3>1, <3>2, <2>1, <1>c
    <3>3. QED
      BY <2>1, <3>1, <3>2
  <2>6. QED
    BY <2>1, <2>2, <2>3, <2>4, <2>5, <1>a DEF TypeOK
<1>6. CASE Reject(g)
  <2>1. /\ local[g] # <<>> /\ Use("packet", f, p) /\ Pop(g) /\ ReserveDisconnect(p)
        /\ UNCHANGED <<phase, mine, sent, map, sid, group, avail, mailbox, pc, members, count, unread>>
    BY <1>6, <1>b DEF Reject, At
  <2>2. local' \in [Groups -> Seq(Jobs)]
    BY <2>1, <1>a, PopType
  <2>3. stale' \subseteq Uses \X Ids \X Ids
    BY <2>1, <1>a, <1>c, UseType DEF Uses
  <2>4. willDelete' \in [Players -> BOOLEAN] /\ kicked' \subseteq Sessions \X Causes
    BY <2>1, <1>a, <1>c, ReserveType
  <2>5. QED
    BY <2>1, <2>2, <2>3, <2>4, <1>a DEF TypeOK
<1>7. QED
  BY ContentThread(g), <1>1, <1>2, <1>3, <1>4, <1>5, <1>6 DEF ContentThread

(* Only the login group stops inside a job, and at a packet. *)
LEMMA ContentStops ==
    ASSUME Typed, NEW g \in Groups, ContentThread(g)
    PROVE  Typed'
<1>a. /\ TypeOK /\ TypeOK' /\ Login \in Groups /\ Shards \subseteq Groups /\ Login \notin Shards
      /\ \A h \in Shards : pc[h] = "idle"
      /\ pc[Login] # "idle" => local[Login] # <<>> /\ Current(Login).type = "PACKET"
  BY ContentTypes, GroupAssumption DEF Typed, Groups
<1>1. UNCHANGED <<phase, mine>>
  BY DEF ContentThread, LoginStep, Drain, OnEnter, OnLeave, LatePacket, Refuse, Accepted, HandOver,
         Move, EraseMoved, Reply, Echo, Reject, engineVars
<1>2. /\ \A h \in Shards : pc'[h] = "idle"
      /\ pc'[Login] # "idle" => local'[Login] # <<>> /\ Current(Login)'.type = "PACKET"
  <2>1. CASE Drain(g)
    <3>1. pc' = pc /\ pc[g] = "idle" /\ local' = [local EXCEPT ![g] = mailbox[g]]
      BY <2>1 DEF Drain
    <3>2. g # Login => local'[Login] = local[Login]
      BY <3>1, <1>a DEF TypeOK
    <3>3. QED
      BY <3>1, <3>2, <1>a DEF Current
  <2>2. CASE OnEnter(g) \/ OnLeave(g) \/ Echo(g) \/ Reject(g)
    <3>1. pc' = pc /\ pc[g] = "idle" /\ Pop(g)
      BY <2>2 DEF OnEnter, OnLeave, Echo, Reject, At, groupVars
    <3>2. g # Login => local'[Login] = local[Login]
      BY <3>1, <1>a DEF TypeOK, Pop
    <3>3. QED
      BY <3>1, <3>2, <1>a DEF Current
  <2>3. CASE LatePacket \/ Refuse
    <3>1. pc' = pc /\ pc[Login] = "idle"
      BY <2>3 DEF LatePacket, Refuse, At
    <3>2. QED
      BY <3>1, <1>a
  <2>4. CASE Accepted \/ HandOver("handOver", "move") \/ Move("move", "erase") \/ EraseMoved
    <3>1. /\ local' = local /\ local[Login] # <<>> /\ Current(Login).type = "PACKET"
          /\ \E label \in {"handOver", "move", "erase", "reply"} :
                pc' = [pc EXCEPT ![Login] = label]
      BY <2>4, <1>a DEF Accepted, HandOver, Move, EraseMoved, At
    <3>2. QED
      BY <3>1, <1>a DEF TypeOK, Current
  <2>5. CASE Reply
    <3>1. pc' = [pc EXCEPT ![Login] = "idle"]
      BY <2>5 DEF Reply
    <3>2. QED
      BY <3>1, <1>a DEF TypeOK, Current
  <2>6. QED
    BY <2>1, <2>2, <2>3, <2>4, <2>5, ContentThread(g) DEF ContentThread, LoginStep
<1>3. QED
  BY <1>a, <1>1, <1>2 DEF Typed, HasPlayer

LEMMA InitTyped == Init => Typed
<1> SUFFICES ASSUME Init PROVE Typed
  OBVIOUS
<1>1. TypeOK
  BY GroupAssumption DEF Init, TypeOK, Groups, Ids
<1>2. Login \in Groups /\ Shards \subseteq Groups
  BY DEF Groups
<1>3. QED
  BY <1>1, <1>2 DEF Init, Typed, HasPlayer, Current

LEMMA NextTyped ==
    ASSUME Typed, [Next]_vars
    PROVE  Typed'
<1>1. CASE Next
  BY <1>1, EngineTypes, ContentStops DEF Next
<1>2. CASE UNCHANGED vars
  <2>1. UNCHANGED <<phase, mine, sent, unread, map, sid, group, willDelete, avail, mailbox, local,
                    pc, members, count, kicked, stale>>
    BY <1>2 DEF vars, engineVars, playerVars, groupVars, answerVars
  <2>2. QED
    BY <2>1 DEF Typed, TypeOK, HasPlayer, Current
<1>3. QED
  BY <1>1, <1>2

-----------------------------------------------------------------------------
(* Who a player is kept for.                                                *)

LeavesKept(g) == LeavesOnce(g)' /\ \A p : Leaves(g, p)' <=> Leaves(g, p)

LEMMA QuietQueue ==
    ASSUME Typed, Tokens, NEW g \in Groups,
           \/ QueueSame(g)
           \/ \E job \in Jobs : QueueGains(g, job) /\ job.type # "LEAVE"
           \/ QueueLoses(g) /\ Queue(g)[1].type # "LEAVE"
    PROVE  LeavesKept(g)
<1>1. TypeOK /\ LeavesOnce(g)
  BY DEF Typed, Tokens
<1>2. CASE QueueSame(g)
  BY <1>1, <1>2, SameJobs DEF LeavesKept
<1>3. ASSUME NEW job \in Jobs, QueueGains(g, job), job.type # "LEAVE" PROVE LeavesKept(g)
  BY <1>1, <1>3, GainedJob DEF LeavesKept
<1>4. CASE QueueLoses(g) /\ Queue(g)[1].type # "LEAVE"
  BY <1>1, <1>4, LostJob DEF LeavesKept
<1>5. QED
  BY <1>2, <1>3, <1>4

LEMMA TokensKept ==
    ASSUME Typed, Tokens, UNCHANGED <<phase, mine, map, sid, avail>>,
           \A p \in Players : group[p] # NoGroup => group'[p] # NoGroup,
           \A g \in Groups : LeavesKept(g)
    PROVE  Tokens'
<1>1. ASSUME NEW i \in Sessions PROVE SessionOf(i)'
  <2>1. SessionOf(i) /\ \A j \in Sessions : Owner(j)' <=> Owner(j)
    BY DEF Tokens, Owner, HasPlayer
  <2>2. QED
    BY <2>1 DEF SessionOf, LeavesKept
<1>2. ASSUME NEW p \in Players PROVE PlayerOf(p)'
  <2>1. PlayerOf(p)
    BY DEF Tokens
  <2>2. QED
    BY <2>1 DEF PlayerOf, LeavesKept
<1>3. QED
  BY <1>1, <1>2 DEF Tokens, LeavesKept

(* The player of an owner. *)
LEMMA OwnPlayer ==
    ASSUME Typed, Tokens, NEW i \in Sessions, Owner(i)
    PROVE  /\ mine[i] \in Players /\ avail[mine[i]] = 0
           /\ \A g \in Groups : ~Leaves(g, mine[i])
           /\ phase[i] # "init" => sid[mine[i]] = i /\ group[mine[i]] \in Groups
           /\ phase[i] = "init" => sid[mine[i]] = NoSession
           /\ \A j \in Sessions : Owner(j) /\ mine[j] = mine[i] => i = j
<1>1. SessionOf(i) /\ TypeOK /\ i # NoSession
  BY GroupAssumption DEF Tokens, Typed
<1>2. mine[i] \in Players
  <2>1. HasPlayer(i) => mine[i] \in Players
    BY DEF Typed
  <2>2. map[i] # NoPlayer => mine[i] \in Players
    BY <1>1 DEF SessionOf, TypeOK
  <2>3. QED
    BY <2>1, <2>2 DEF Owner
<1>3. PlayerOf(mine[i]) /\ group[mine[i]] \in Groups \cup {NoGroup}
  BY <1>1, <1>2 DEF Tokens, TypeOK
<1>4. phase[i] # "init" => sid[mine[i]] = i
  BY <1>1 DEF SessionOf
<1>5. phase[i] # "init" => group[mine[i]] \in Groups
  BY <1>1, <1>3, <1>4 DEF PlayerOf
<1>6. QED
  BY <1>1, <1>2, <1>4, <1>5 DEF SessionOf

(* A session a player has is not one that is being opened. *)
LEMMA PlayerSession ==
    ASSUME Typed, Tokens, NEW p \in Players, sid[p] # NoSession
    PROVE  /\ sid[p] \in Sessions /\ mine[sid[p]] = p /\ group[p] \in Groups
           /\ phase[sid[p]] \in {"insert", "open", "check", "gone"}
           /\ avail[p] > 0 \/ (\E g \in Groups : Leaves(g, p)) => phase[sid[p]] \in Left
<1>1. TypeOK /\ PlayerOf(p) /\ sid[p] \in Sessions
  BY DEF Tokens, Typed, TypeOK, Ids
<1>2. PICK i \in Sessions : i = sid[p]
  BY <1>1
<1>3. mine[i] = p /\ phase[i] \in {"insert", "open", "check", "gone"} /\ group[p] \in Groups
  BY <1>1, <1>2 DEF PlayerOf, TypeOK
<1>4. ASSUME phase[i] \in {"insert", "open"} PROVE avail[p] = 0 /\ \A g \in Groups : ~Leaves(g, p)
  BY <1>3, <1>4, OwnPlayer DEF Owner, HasPlayer
<1>5. QED
  BY <1>1, <1>2, <1>3, <1>4 DEF Left

LEMMA JoinAllocTokens ==
    ASSUME Typed, Tokens, NEW i \in Sessions, JoinAlloc(i)
    PROVE  /\ Tokens' /\ phase[i] = "new" /\ phase' = [phase EXCEPT ![i] = "init"]
           /\ UNCHANGED <<pc, members, count, map, sent, local, mailbox, unread, kicked, stale>>
           /\ \E p \in Players : /\ avail[p] = 1 /\ avail' = [avail EXCEPT ![p] = 0]
                                 /\ mine' = [mine EXCEPT ![i] = p]
                                 /\ sid' = [sid EXCEPT ![p] = NoSession]
                                 /\ group' = [group EXCEPT ![p] = NoGroup]
<1>a. TypeOK
  BY DEF Typed
<1>1. PICK p \in Players : /\ avail[p] > 0 /\ avail' = [avail EXCEPT ![p] = @ - 1]
                           /\ mine' = [mine EXCEPT ![i] = p]
                           /\ sid' = [sid EXCEPT ![p] = NoSession]
                           /\ group' = [group EXCEPT ![p] = NoGroup]
  BY DEF JoinAlloc, MayAlloc
<1>2. avail[p] = 1 /\ avail' = [avail EXCEPT ![p] = 0]
  <2>1. avail[p] \in Nat /\ PlayerOf(p)
    BY <1>a DEF TypeOK, Tokens
  <2>2. avail[p] = 1
    BY <1>1, <2>1 DEF PlayerOf
  <2>3. QED
    BY <2>2, <1>1
<1>3. /\ phase[i] = "new" /\ phase' = [phase EXCEPT ![i] = "init"]
      /\ UNCHANGED <<pc, members, count, map, sent, local, mailbox, unread, kicked, stale>>
  BY DEF JoinAlloc, groupVars, answerVars
<1>4. \A g \in Groups : /\ QueueSame(g) /\ LeavesOnce(g)' /\ ~Leaves(g, p)
                        /\ \A q : Leaves(g, q)' <=> Leaves(g, q)
  <2>1. \A g \in Groups : QueueSame(g)
    BY <1>3, Kept
  <2>2. PlayerOf(p) /\ \A g \in Groups : LeavesOnce(g)
    BY DEF Tokens
  <2>3. \A g \in Groups : ~Leaves(g, p)
    BY <2>2, <1>2 DEF PlayerOf
  <2>4. QED
    BY <2>1, <2>2, <2>3, <1>a, SameJobs
<1>5. \A j \in Sessions : Owner(j) => mine[j] # p
  BY <1>2, OwnPlayer
<1>6. /\ map[i] = NoPlayer /\ ~Owner(i)
      /\ \A j \in Sessions : j # i => (Owner(j)' <=> Owner(j))
  <2>1. SessionOf(i)
    BY DEF Tokens
  <2>2. map[i] = NoPlayer
    BY <2>1, <1>3 DEF SessionOf
  <2>3. QED
    BY <2>2, <1>3, <1>a DEF Owner, HasPlayer, TypeOK
<1>7. ASSUME NEW j \in Sessions PROVE SessionOf(j)'
  <2>1. SessionOf(j)
    BY DEF Tokens
  <2>2. CASE j = i
    <3>1. /\ mine'[i] = p /\ phase'[i] = "init" /\ map'[i] = NoPlayer /\ p # NoPlayer
          /\ sid'[p] = NoSession /\ avail'[p] = 0 /\ \A k \in Sessions : k # i => mine'[k] = mine[k]
      BY <1>1, <1>2, <1>3, <1>6, <1>a, GroupAssumption DEF TypeOK
    <3>2. QED
      BY <2>2, <3>1, <1>4, <1>5, <1>6 DEF SessionOf
  <2>3. CASE j # i
    <3>1. /\ phase'[j] = phase[j] /\ mine'[j] = mine[j] /\ mine'[i] = p
          /\ \A k \in Sessions : k # i => mine'[k] = mine[k]
      BY <2>3, <1>1, <1>3, <1>a DEF TypeOK
    <3>2. Owner(j) => sid'[mine[j]] = sid[mine[j]] /\ avail'[mine[j]] = avail[mine[j]]
      BY <1>1, <1>2, <1>5, <1>a, OwnPlayer DEF TypeOK
    <3>3. QED
      BY <2>1, <2>3, <3>1, <3>2, <1>3, <1>4, <1>5, <1>6 DEF SessionOf
  <2>4. QED
    BY <2>2, <2>3
<1>8. ASSUME NEW q \in Players PROVE PlayerOf(q)'
  <2>1. PlayerOf(q)
    BY DEF Tokens
  <2>2. CASE q = p
    <3>1. sid'[p] = NoSession /\ avail'[p] = 0
      BY <1>1, <1>2, <1>a DEF TypeOK
    <3>2. QED
      BY <2>2, <3>1, <1>4 DEF PlayerOf
  <2>3. CASE q # p
    <3>1. sid'[q] = sid[q] /\ group'[q] = group[q] /\ avail'[q] = avail[q]
      BY <2>3, <1>1, <1>2, <1>a DEF TypeOK
    <3>2. sid[q] # NoSession => sid[q] # i /\ sid[q] \in Sessions
      BY <1>3, PlayerSession
    <3>3. sid[q] # NoSession => phase'[sid[q]] = phase[sid[q]] /\ mine'[sid[q]] = mine[sid[q]]
      BY <3>2, <1>1, <1>3, <1>a DEF TypeOK
    <3>4. QED
      BY <2>1, <3>1, <3>3, <1>4 DEF PlayerOf
  <2>4. QED
    BY <2>2, <2>3
<1>9. QED
  BY <1>1, <1>2, <1>3, <1>4, <1>7, <1>8 DEF Tokens

LEMMA JoinInitTokens ==
    ASSUME Typed, Tokens, NEW i \in Sessions, JoinInit(i)
    PROVE  /\ Tokens' /\ phase[i] = "init" /\ phase' = [phase EXCEPT ![i] = "insert"]
           /\ UNCHANGED <<mine, avail, pc, members, count, map, sent, local, mailbox, unread, kicked,
                          stale>>
           /\ mine[i] \in Players /\ sid[mine[i]] = NoSession /\ avail[mine[i]] = 0
           /\ sid' = [sid EXCEPT ![mine[i]] = i] /\ group' = [group EXCEPT ![mine[i]] = Login]
<1>a. TypeOK
  BY DEF Typed
<1>1. /\ phase[i] = "init" /\ phase' = [phase EXCEPT ![i] = "insert"]
      /\ UNCHANGED <<mine, avail, pc, members, count, map, sent, local, mailbox, unread, kicked, stale>>
  BY DEF JoinInit, groupVars, answerVars
<1>2. Owner(i)
  BY <1>1 DEF Owner, HasPlayer
<1>3. PICK p \in Players :
         /\ p = mine[i] /\ avail[p] = 0 /\ sid[p] = NoSession /\ \A g \in Groups : ~Leaves(g, p)
         /\ \A j \in Sessions : Owner(j) /\ mine[j] = p => i = j
  BY <1>1, <1>2, OwnPlayer
<1>4. sid' = [sid EXCEPT ![p] = i] /\ group' = [group EXCEPT ![p] = Login]
  BY <1>3 DEF JoinInit
<1>5. \A g \in Groups : LeavesOnce(g)' /\ \A q : Leaves(g, q)' <=> Leaves(g, q)
  <2>1. \A g \in Groups : QueueSame(g) /\ LeavesOnce(g)
    BY <1>1, Kept DEF Tokens
  <2>2. QED
    BY <2>1, <1>a, SameJobs
<1>6. \A j \in Sessions : Owner(j)' <=> Owner(j)
  BY <1>1, <1>a DEF Owner, HasPlayer, TypeOK
<1>7. ASSUME NEW j \in Sessions PROVE SessionOf(j)'
  <2>1. SessionOf(j)
    BY DEF Tokens
  <2>2. CASE j = i
    <3>1. phase'[i] = "insert" /\ sid'[p] = i
      BY <1>1, <1>4, <1>a DEF TypeOK
    <3>2. QED
      BY <2>1, <2>2, <3>1, <1>1, <1>3, <1>5, <1>6 DEF SessionOf
  <2>3. CASE j # i
    <3>1. phase'[j] = phase[j]
      BY <2>3, <1>1, <1>a DEF TypeOK
    <3>2. Owner(j) => sid'[mine[j]] = sid[mine[j]]
      BY <2>3, <1>3, <1>4, <1>a, OwnPlayer DEF TypeOK
    <3>3. QED
      BY <2>1, <3>1, <3>2, <1>1, <1>5, <1>6 DEF SessionOf
  <2>4. QED
    BY <2>2, <2>3
<1>8. ASSUME NEW q \in Players PROVE PlayerOf(q)'
  <2>1. PlayerOf(q)
    BY DEF Tokens
  <2>2. CASE q = p
    <3>1. /\ sid'[p] = i /\ group'[p] = Login /\ phase'[i] = "insert" /\ Login # NoGroup
      BY <1>1, <1>4, <1>a, GroupAssumption DEF TypeOK, Groups
    <3>2. QED
      BY <2>2, <3>1, <1>1, <1>3, <1>5 DEF PlayerOf
  <2>3. CASE q # p
    <3>1. sid'[q] = sid[q] /\ group'[q] = group[q]
      BY <2>3, <1>4, <1>a DEF TypeOK
    <3>2. sid[q] # NoSession => sid[q] # i /\ sid[q] \in Sessions
      BY <1>1, PlayerSession
    <3>3. sid[q] # NoSession => phase'[sid[q]] = phase[sid[q]]
      BY <3>2, <1>1, <1>a DEF TypeOK
    <3>4. QED
      BY <2>1, <3>1, <3>3, <1>1, <1>5 DEF PlayerOf
  <2>4. QED
    BY <2>2, <2>3
<1>9. QED
  BY <1>1, <1>3, <1>4, <1>5, <1>7, <1>8 DEF Tokens

LEMMA JoinInsertTokens ==
    ASSUME Typed, Tokens, NEW i \in Sessions, JoinInsert(i)
    PROVE  /\ Tokens' /\ phase[i] = "insert" /\ phase'[i] \in {"open", "gone"}
           /\ \A j \in Sessions \ {i} : phase'[j] = phase[j]
           /\ UNCHANGED <<mine, sid, group, avail, pc, members, count, sent, local, unread, kicked, stale>>
           /\ mine[i] \in Players /\ sid[mine[i]] = i /\ avail[mine[i]] = 0
           /\ Enqueue(Login, Job("JOIN", mine[i], NoPacket))
<1>a. TypeOK /\ Login \in Groups
  BY DEF Typed, Groups
<1>1. /\ phase[i] = "insert" /\ phase'[i] \in {"open", "gone"}
      /\ \A j \in Sessions \ {i} : phase'[j] = phase[j]
      /\ UNCHANGED <<mine, sid, group, pc, members, count, sent, local, unread, kicked, stale>>
  BY <1>a DEF JoinInsert, groupVars, playerVars, answerVars, TypeOK
<1>2. Owner(i) /\ map[i] = NoPlayer
  <2>1. SessionOf(i)
    BY DEF Tokens
  <2>2. QED
    BY <2>1, <1>1 DEF Owner, HasPlayer, SessionOf
<1>3. PICK p \in Players :
         /\ p = mine[i] /\ avail[p] = 0 /\ sid[p] = i /\ \A g \in Groups : ~Leaves(g, p)
         /\ \A j \in Sessions : Owner(j) /\ mine[j] = p => i = j
  BY <1>1, <1>2, OwnPlayer
<1>4. /\ map' = [map EXCEPT ![i] = p] /\ Enqueue(Login, Job("JOIN", p, NoPacket))
      /\ UNCHANGED avail
  BY <1>2, <1>3 DEF JoinInsert
<1>5. \A g \in Groups : LeavesKept(g)
  <2>1. PICK job \in Jobs : job = Job("JOIN", p, NoPacket) /\ job.type # "LEAVE"
    BY JobType DEF Job
  <2>2. QueueGains(Login, job) /\ \A g \in Groups \ {Login} : QueueSame(g)
    BY <2>1, <1>1, <1>4, <1>a, Enqueued
  <2>3. QED
    BY <2>1, <2>2, QuietQueue
<1>6. \A j \in Sessions : Owner(j)' <=> Owner(j)
  <2>1. ASSUME NEW j \in Sessions, j # i PROVE Owner(j)' <=> Owner(j)
    BY <2>1, <1>1, <1>4, <1>a DEF Owner, HasPlayer, TypeOK
  <2>2. Owner(i)'
    BY <1>4, <1>a, GroupAssumption DEF Owner, TypeOK
  <2>3. QED
    BY <2>1, <2>2, <1>2
<1>7. ASSUME NEW j \in Sessions PROVE SessionOf(j)'
  <2>1. SessionOf(j)
    BY DEF Tokens
  <2>2. CASE j = i
    <3>1. map'[i] = p
      BY <1>4, <1>a DEF TypeOK
    <3>2. QED
      BY <2>1, <2>2, <3>1, <1>1, <1>2, <1>3, <1>4, <1>5, <1>6 DEF SessionOf, LeavesKept
  <2>3. CASE j # i
    <3>1. map'[j] = map[j]
      BY <2>3, <1>4, <1>a DEF TypeOK
    <3>2. QED
      BY <2>1, <2>3, <3>1, <1>1, <1>4, <1>5, <1>6 DEF SessionOf, LeavesKept
  <2>4. QED
    BY <2>2, <2>3
<1>8. ASSUME NEW q \in Players PROVE PlayerOf(q)'
  <2>1. PlayerOf(q)
    BY DEF Tokens
  <2>2. sid[q] # NoSession => sid[q] \in Sessions
    BY PlayerSession
  <2>3. sid[q] # NoSession => phase'[sid[q]] \notin {"new", "init"}
    BY <2>1, <2>2, <1>1 DEF PlayerOf
  <2>4. QED
    BY <2>1, <2>3, <1>1, <1>4, <1>5 DEF PlayerOf, LeavesKept
<1>9. QED
  BY <1>1, <1>3, <1>4, <1>5, <1>7, <1>8 DEF Tokens, LeavesKept

LEMMA OnRecvTokens ==
    ASSUME Typed, Tokens, NEW i \in Sessions, NEW kind \in Kinds, OnRecv(i, kind)
    PROVE  /\ Tokens' /\ phase[i] = "open" /\ sent' = [sent EXCEPT ![i] = Append(@, kind)]
           /\ UNCHANGED <<phase, mine, sid, group, avail, pc, members, count, local, unread, kicked, stale>>
           /\ \E p \in Players, h \in Groups :
                /\ p = mine[i] /\ sid[p] = i /\ h = group[p] /\ avail[p] = 0
                /\ \A g \in Groups : ~Leaves(g, p)
                /\ Enqueue(h, Job("PACKET", p, [from |-> i, kind |-> kind]))
<1>a. TypeOK
  BY DEF Typed
<1>1. /\ phase[i] = "open" /\ sent' = [sent EXCEPT ![i] = Append(@, kind)]
      /\ UNCHANGED <<phase, mine, map, sid, group, avail, pc, members, count, local, unread, kicked,
                     stale>>
  BY DEF OnRecv, groupVars, playerVars, answerVars
<1>2. Owner(i) /\ map[i] = mine[i]
  <2>1. SessionOf(i)
    BY DEF Tokens
  <2>2. QED
    BY <2>1, <1>1 DEF Owner, HasPlayer, SessionOf
<1>3. PICK p \in Players, h \in Groups :
         /\ p = mine[i] /\ p = map[i] /\ avail[p] = 0 /\ sid[p] = i /\ h = group[p]
         /\ \A g \in Groups : ~Leaves(g, p)
  BY <1>1, <1>2, OwnPlayer
<1>4. p # NoPlayer /\ group[p] # NoGroup
  BY <1>3, GroupAssumption
<1>5. Enqueue(h, Job("PACKET", p, [from |-> i, kind |-> kind]))
  BY <1>3, <1>4 DEF OnRecv
<1>6. \A g \in Groups : LeavesKept(g)
  <2>1. PICK job \in Jobs : job = Job("PACKET", p, [from |-> i, kind |-> kind]) /\ job.type # "LEAVE"
    BY JobType DEF Job
  <2>2. QueueGains(h, job) /\ \A g \in Groups \ {h} : QueueSame(g)
    BY <2>1, <1>1, <1>5, <1>a, Enqueued
  <2>3. QED
    BY <2>1, <2>2, QuietQueue
<1>7. Tokens'
  BY <1>1, <1>6, TokensKept
<1>8. QED
  BY <1>1, <1>3, <1>5, <1>7

LEMMA OnClientLeaveTokens ==
    ASSUME Typed, Tokens, NEW i \in Sessions, OnClientLeave(i)
    PROVE  /\ Tokens' /\ phase[i] = "open" /\ phase' = [phase EXCEPT ![i] = "check"]
           /\ UNCHANGED <<mine, sid, group, avail, pc, members, count, sent, local, unread, kicked, stale>>
           /\ \E p \in Players, h \in Groups :
                /\ p = mine[i] /\ sid[p] = i /\ h = group[p] /\ avail[p] = 0
                /\ \A g \in Groups : ~Leaves(g, p)
                /\ Enqueue(h, Job("LEAVE", p, NoPacket))
<1>a. TypeOK /\ i # NoSession
  BY GroupAssumption DEF Typed
<1>1. /\ phase[i] = "open" /\ phase' = [phase EXCEPT ![i] = "check"]
      /\ UNCHANGED <<sid, group, avail, pc, members, count, sent, local, unread, kicked, stale>>
  BY DEF OnClientLeave, groupVars, playerVars, answerVars
<1>2. Owner(i) /\ map[i] = mine[i]
  <2>1. SessionOf(i)
    BY DEF Tokens
  <2>2. QED
    BY <2>1, <1>1 DEF Owner, HasPlayer, SessionOf
<1>3. PICK p \in Players, h \in Groups :
         /\ p = mine[i] /\ p = map[i] /\ avail[p] = 0 /\ sid[p] = i /\ h = group[p]
         /\ \A g \in Groups : ~Leaves(g, p)
         /\ \A j \in Sessions : Owner(j) /\ mine[j] = p => i = j
  BY <1>1, <1>2, OwnPlayer
<1>4. p # NoPlayer /\ group[p] # NoGroup
  BY <1>3, GroupAssumption
<1>5. /\ Enqueue(h, Job("LEAVE", p, NoPacket)) /\ map' = [map EXCEPT ![i] = NoPlayer]
      /\ UNCHANGED mine
  <2>1. mine' = [mine EXCEPT ![i] = p]
    BY <1>3 DEF OnClientLeave
  <2>2. UNCHANGED mine
    BY <2>1, <1>3, <1>a DEF TypeOK
  <2>3. QED
    BY <2>2, <1>3, <1>4 DEF OnClientLeave
<1>6. /\ \A g \in Groups : LeavesOnce(g)'
      /\ \A g \in Groups : \A q : Leaves(g, q)' <=> Leaves(g, q) \/ (g = h /\ q = p)
  <2>1. PICK job \in Jobs : job = Job("LEAVE", p, NoPacket) /\ job.type = "LEAVE" /\ job.player = p
    BY JobType DEF Job
  <2>2. QueueGains(h, job) /\ \A g \in Groups \ {h} : QueueSame(g)
    BY <2>1, <1>1, <1>5, <1>a, Enqueued
  <2>3. \A g \in Groups : LeavesOnce(g)
    BY DEF Tokens
  <2>4. LeavesOnce(h)' /\ \A q : Leaves(h, q)' <=> Leaves(h, q) \/ q = p
    BY <2>1, <2>2, <2>3, <1>3, <1>a, GainedJob
  <2>5. ASSUME NEW g \in Groups, g # h PROVE LeavesOnce(g)' /\ (\A q : Leaves(g, q)' <=> Leaves(g, q))
    BY <2>2, <2>3, <2>5, <1>a, SameJobs
  <2>6. QED
    BY <2>4, <2>5
<1>7. \A j \in Sessions : Owner(j)' <=> j # i /\ Owner(j)
  BY <1>1, <1>5, <1>a DEF Owner, HasPlayer, TypeOK
<1>8. ASSUME NEW j \in Sessions PROVE SessionOf(j)'
  <2>1. SessionOf(j)
    BY DEF Tokens
  <2>2. CASE j = i
    <3>1. phase'[i] = "check" /\ map'[i] = NoPlayer
      BY <1>1, <1>5, <1>a DEF TypeOK
    <3>2. QED
      BY <2>1, <2>2, <3>1, <1>1, <1>5, <1>7 DEF SessionOf
  <2>3. CASE j # i
    <3>1. phase'[j] = phase[j] /\ map'[j] = map[j]
      BY <2>3, <1>1, <1>5, <1>a DEF TypeOK
    <3>2. Owner(j) => mine[j] # p
      BY <2>3, <1>3
    <3>3. QED
      BY <2>1, <3>1, <3>2, <1>1, <1>5, <1>6, <1>7 DEF SessionOf
  <2>4. QED
    BY <2>2, <2>3
<1>9. ASSUME NEW q \in Players PROVE PlayerOf(q)'
  <2>1. PlayerOf(q)
    BY DEF Tokens
  <2>2. sid[q] # NoSession => sid[q] \in Sessions
    BY PlayerSession
  <2>3. sid[q] # NoSession => phase'[sid[q]] \notin {"new", "init"}
    BY <2>1, <2>2, <1>1, <1>a DEF PlayerOf, TypeOK
  <2>4. QED
    BY <2>1, <2>3, <1>1, <1>3, <1>5, <1>6, <1>a DEF PlayerOf
<1>10. QED
  BY <1>1, <1>3, <1>5, <1>6, <1>8, <1>9 DEF Tokens

(* A player without a group has no session: what LeaveCheck frees is the     *)
(* player of another session, that is just being opened.                    *)
LEMMA LeaveCheckTokens ==
    ASSUME Typed, Tokens, NEW i \in Sessions, LeaveCheck(i), NoStrayFree'
    PROVE  /\ Tokens' /\ phase[i] = "check" /\ phase' = [phase EXCEPT ![i] = "gone"]
           /\ UNCHANGED <<mine, map, sid, group, avail, pc, members, count, sent, local, mailbox,
                          unread, kicked, stale>>
<1>a. TypeOK /\ i # NoSession
  BY GroupAssumption DEF Typed
<1>1. /\ phase[i] = "check" /\ phase' = [phase EXCEPT ![i] = "gone"]
      /\ UNCHANGED <<map, mine, sid, group, pc, members, count, sent, local, mailbox, unread, kicked>>
  BY DEF LeaveCheck, groupVars, playerVars, answerVars
<1>2. UNCHANGED <<avail, stale>>
  <2>1. PICK p : p = mine[i]
    OBVIOUS
  <2>2. SUFFICES ASSUME p # NoPlayer, group[p] = NoGroup PROVE FALSE
    BY <2>1 DEF LeaveCheck
  <2>3. p \in Players /\ PlayerOf(p)
    BY <2>1, <2>2, <1>a DEF TypeOK, Tokens
  <2>4. sid[p] = NoSession
    BY <2>2, <2>3 DEF PlayerOf
  <2>5. Use("free", i, p)
    BY <2>1, <2>2 DEF LeaveCheck
  <2>6. stale' = stale \cup {<<"free", i, sid[p]>>}
    BY <2>4, <2>5, <1>a DEF Use
  <2>7. PICK use \in stale' : use = <<"free", i, sid[p]>>
    BY <2>6
  <2>8. use[1] = "free"
    BY <2>7
  <2>9. QED
    BY <2>7, <2>8 DEF NoStrayFree
<1>3. \A g \in Groups : LeavesKept(g)
  BY <1>1, Kept, QuietQueue
<1>4. \A j \in Sessions : Owner(j)' <=> Owner(j)
  BY <1>1, <1>a DEF Owner, HasPlayer, TypeOK
<1>5. ASSUME NEW j \in Sessions PROVE SessionOf(j)'
  <2>1. SessionOf(j)
    BY DEF Tokens
  <2>2. phase'[j] = phase[j] \/ (j = i /\ phase'[j] = "gone")
    BY <1>1, <1>a DEF TypeOK
  <2>3. j = i => map[j] = NoPlayer
    BY <2>1, <1>1 DEF SessionOf
  <2>4. QED
    BY <2>1, <2>2, <2>3, <1>1, <1>2, <1>3, <1>4 DEF SessionOf, LeavesKept, Owner, HasPlayer
<1>6. ASSUME NEW q \in Players PROVE PlayerOf(q)'
  <2>1. PlayerOf(q)
    BY DEF Tokens
  <2>2. sid[q] # NoSession => sid[q] \in Sessions
    BY PlayerSession
  <2>3. sid[q] # NoSession => phase'[sid[q]] \notin {"new", "init"}
    BY <2>1, <2>2, <1>1, <1>a DEF PlayerOf, TypeOK
  <2>4. QED
    BY <2>1, <2>3, <1>1, <1>2, <1>3 DEF PlayerOf, LeavesKept
<1>7. QED
  BY <1>1, <1>2, <1>3, <1>5, <1>6 DEF Tokens, LeavesKept

(* A LEAVE is the token of its player: the group that frees it, or forwards  *)
(* the LEAVE, is the only one that has it.                                  *)
LEMMA OnLeaveTokens ==
    ASSUME Typed, Tokens, NEW g \in Groups, OnLeave(g)
    PROVE  /\ Tokens' /\ pc[g] = "idle" /\ local[g] # <<>> /\ Current(g).type = "LEAVE" /\ Pop(g)
           /\ UNCHANGED <<phase, mine, map, sid, group, sent, pc, unread, kicked, stale>>
           /\ \E p \in Players, i \in Sessions :
                /\ p = Current(g).player /\ i = sid[p] /\ mine[i] = p /\ phase[i] \in Left
                /\ avail[p] = 0 /\ group[p] \in Groups
                /\ \A h \in Groups : Leaves(h, p) => h = g
                /\ \/ /\ group[p] = g /\ avail' = [avail EXCEPT ![p] = 1] /\ Erase(g, i)
                      /\ UNCHANGED mailbox
                   \/ /\ group[p] # g /\ Enqueue(group[p], Job("LEAVE", p, NoPacket))
                      /\ UNCHANGED <<avail, members, count>>
<1>a. TypeOK
  BY DEF Typed
<1>1. /\ pc[g] = "idle" /\ local[g] # <<>> /\ Current(g).type = "LEAVE" /\ Pop(g)
      /\ UNCHANGED <<phase, mine, map, sid, group, sent, pc, unread, kicked, stale>>
  BY DEF OnLeave, At, engineVars, playerVars, answerVars
<1>2. PICK p \in Players : p = Current(g).player /\ Current(g) = Queue(g)[1] /\ Leaves(g, p)
  BY <1>1, <1>a, CurrentType, QueueType, InQueue
<1>3. PlayerOf(p)
  BY DEF Tokens
<1>4. avail[p] = 0 /\ sid[p] # NoSession /\ \A h \in Groups : Leaves(h, p) => g = h
  BY <1>2, <1>3 DEF PlayerOf
<1>5. PICK i \in Sessions : i = sid[p] /\ mine[i] = p /\ phase[i] \in Left /\ group[p] \in Groups
  BY <1>2, <1>4, PlayerSession
<1>6. \/ /\ group[p] = g /\ avail' = [avail EXCEPT ![p] = 1] /\ Erase(g, i) /\ UNCHANGED mailbox
      \/ /\ group[p] # g /\ Enqueue(group[p], Job("LEAVE", p, NoPacket))
         /\ UNCHANGED <<avail, members, count>>
  <2>1. group[p] # NoGroup
    BY <1>5, GroupAssumption
  <2>2. Free(p) => avail' = [avail EXCEPT ![p] = 1]
    BY <1>4 DEF Free
  <2>3. QED
    BY <2>1, <2>2, <1>2, <1>5 DEF OnLeave
<1>7. \A j \in Sessions : Owner(j) => mine[j] # p
  BY <1>2, OwnPlayer
<1>8. \A j \in Sessions : Owner(j)' <=> Owner(j)
  BY <1>1 DEF Owner, HasPlayer
<1>9. \A h \in Groups : LeavesOnce(h)
  BY DEF Tokens
<1>10. ASSUME group[p] = g, avail' = [avail EXCEPT ![p] = 1], UNCHANGED mailbox PROVE Tokens'
  <2>1. QueueLoses(g) /\ \A h \in Groups \ {g} : QueueSame(h)
    BY <1>1, <1>10, <1>a, Popped
  <2>2. LeavesOnce(g)' /\ \A q : Leaves(g, q)' <=> Leaves(g, q) /\ q # p
    BY <2>1, <1>1, <1>2, <1>9, <1>a, LostJob
  <2>3. ASSUME NEW h \in Groups, h # g
        PROVE  LeavesOnce(h)' /\ (\A q : Leaves(h, q)' <=> Leaves(h, q))
    BY <2>1, <2>3, <1>9, <1>a, SameJobs
  <2>4. \A h \in Groups : \A q : Leaves(h, q)' => Leaves(h, q) /\ q # p
    BY <2>2, <2>3, <1>4
  <2>5. \A q \in Players : q # p => avail'[q] = avail[q]
    BY <1>10, <1>a DEF TypeOK
  <2>6. ASSUME NEW j \in Sessions PROVE SessionOf(j)'
    <3>1. SessionOf(j)
      BY DEF Tokens
    <3>2. Owner(j) => avail'[mine[j]] = avail[mine[j]]
      BY <2>5, <1>7, OwnPlayer
    <3>3. QED
      BY <3>1, <3>2, <2>4, <1>1, <1>8 DEF SessionOf
  <2>7. ASSUME NEW q \in Players PROVE PlayerOf(q)'
    <3>1. PlayerOf(q)
      BY DEF Tokens
    <3>2. q = p => avail'[q] = 1
      BY <1>10, <1>a DEF TypeOK
    <3>3. QED
      BY <3>1, <3>2, <2>4, <2>5, <1>1 DEF PlayerOf
  <2>8. \A h \in Groups : LeavesOnce(h)'
    BY <2>2, <2>3
  <2>9. QED
    BY <2>6, <2>7, <2>8 DEF Tokens
<1>11. ASSUME group[p] # g, Enqueue(group[p], Job("LEAVE", p, NoPacket)), UNCHANGED avail
       PROVE  Tokens'
  <2>1. PICK h \in Groups \ {g} : h = group[p]
    BY <1>5, <1>11
  <2>2. PICK job \in Jobs : job = Job("LEAVE", p, NoPacket) /\ job.type = "LEAVE" /\ job.player = p
    BY JobType DEF Job
  <2>3. /\ QueueLoses(g) /\ QueueGains(h, job)
        /\ \A e \in Groups \ {g, h} : QueueSame(e)
    BY <2>1, <2>2, <1>1, <1>11, <1>a, Forwarded
  <2>4. LeavesOnce(g)' /\ \A q : Leaves(g, q)' <=> Leaves(g, q) /\ q # p
    BY <2>3, <1>1, <1>2, <1>9, <1>a, LostJob
  <2>5. ~Leaves(h, p)
    BY <2>1, <1>4
  <2>6. LeavesOnce(h)' /\ \A q : Leaves(h, q)' <=> Leaves(h, q) \/ q = p
    BY <2>2, <2>3, <2>5, <1>9, <1>a, GainedJob
  <2>7. ASSUME NEW e \in Groups, e # g, e # h
        PROVE  LeavesOnce(e)' /\ (\A q : Leaves(e, q)' <=> Leaves(e, q))
    BY <2>3, <2>7, <1>9, <1>a, SameJobs
  <2>8. \A e \in Groups : \A q : Leaves(e, q)' => IF q = p THEN e = h ELSE Leaves(e, q)
    BY <2>4, <2>6, <2>7, <1>4
  <2>9. ASSUME NEW j \in Sessions PROVE SessionOf(j)'
    <3>1. SessionOf(j)
      BY DEF Tokens
    <3>2. QED
      BY <3>1, <2>8, <1>1, <1>7, <1>8, <1>11 DEF SessionOf
  <2>10. ASSUME NEW q \in Players PROVE PlayerOf(q)'
    <3>1. PlayerOf(q)
      BY DEF Tokens
    <3>2. CASE q = p
      BY <3>1, <3>2, <2>8, <1>1, <1>4, <1>11 DEF PlayerOf
    <3>3. CASE q # p
      BY <3>1, <3>3, <2>8, <1>1, <1>11 DEF PlayerOf
    <3>4. QED
      BY <3>2, <3>3
  <2>11. \A e \in Groups : LeavesOnce(e)'
    BY <2>4, <2>6, <2>7
  <2>12. QED
    BY <2>9, <2>10, <2>11 DEF Tokens
<1>12. QED
  BY <1>1, <1>2, <1>4, <1>5, <1>6, <1>10, <1>11

(* A content thread that has come to another job than a LEAVE. *)
LEMMA DoneTokens ==
    ASSUME Typed, Tokens, NEW g \in Groups, local[g] # <<>>, Current(g).type # "LEAVE", Pop(g),
           UNCHANGED <<phase, mine, map, sid, group, avail, mailbox>>
    PROVE  Tokens'
<1>1. TypeOK
  BY DEF Typed
<1>2. QueueLoses(g) /\ \A h \in Groups \ {g} : QueueSame(h)
  BY <1>1, Popped
<1>3. Queue(g)[1].type # "LEAVE"
  BY <1>1, QueueType
<1>4. \A h \in Groups : LeavesKept(h)
  BY <1>2, <1>3, QuietQueue
<1>5. QED
  BY <1>4, TokensKept

LEMMA LoginTokens ==
    ASSUME Typed, Tokens, LoginStep
    PROVE  Tokens'
<1>a. TypeOK /\ Login \in Groups /\ Shards \subseteq Groups
  BY DEF Typed, Groups
<1>b. pc[Login] # "idle" => local[Login] # <<>> /\ Current(Login).type = "PACKET"
  BY DEF Typed
<1> USE DEF engineVars, playerVars
<1>1. CASE LatePacket \/ Refuse
  BY <1>1, <1>a, DoneTokens DEF LatePacket, Refuse, At
<1>2. CASE Reply
  BY <1>2, <1>a, <1>b, DoneTokens DEF Reply
<1>3. CASE Accepted \/ EraseMoved
  <2>1. UNCHANGED <<phase, mine, map, sid, group, avail, local, mailbox>>
    BY <1>3 DEF Accepted, EraseMoved
  <2>2. \A h \in Groups : LeavesKept(h)
    BY <2>1, Kept, QuietQueue
  <2>3. QED
    BY <2>1, <2>2, TokensKept
<1>4. CASE Move("move", "erase")
  <2>1. /\ UNCHANGED <<phase, mine, map, sid, avail, local, mailbox>> /\ local[Login] # <<>>
        /\ group' = [group EXCEPT ![Current(Login).player] = Target(Current(Login).player)]
    BY <1>4, <1>b DEF Move
  <2>2. PICK p \in Players : p = Current(Login).player /\ Target(p) \in Groups
    BY <2>1, <1>a, CurrentType, GroupAssumption DEF Target
  <2>3. \A q \in Players : group[q] # NoGroup => group'[q] # NoGroup
    BY <2>1, <2>2, <1>a, GroupAssumption DEF TypeOK
  <2>4. \A h \in Groups : LeavesKept(h)
    BY <2>1, Kept, QuietQueue
  <2>5. QED
    BY <2>1, <2>3, <2>4, TokensKept
<1>5. CASE HandOver("handOver", "move")
  <2>1. /\ UNCHANGED <<phase, mine, map, sid, group, avail, local>> /\ local[Login] # <<>>
        /\ Enqueue(Target(Current(Login).player),
                   Job("GROUP_ENTER", Current(Login).player, NoPacket))
    BY <1>5, <1>b DEF HandOver
  <2>2. PICK p \in Players, h \in Groups : p = Current(Login).player /\ h = Target(p)
    BY <2>1, <1>a, CurrentType, GroupAssumption DEF Target
  <2>3. PICK job \in Jobs : job = Job("GROUP_ENTER", p, NoPacket) /\ job.type # "LEAVE"
    BY JobType DEF Job
  <2>4. QueueGains(h, job) /\ \A g \in Groups \ {h} : QueueSame(g)
    BY <2>1, <2>2, <2>3, <1>a, Enqueued
  <2>5. \A g \in Groups : LeavesKept(g)
    BY <2>3, <2>4, QuietQueue
  <2>6. QED
    BY <2>1, <2>5, TokensKept
<1>6. QED
  BY <1>1, <1>2, <1>3, <1>4, <1>5, LoginStep DEF LoginStep

LEMMA ContentTokens ==
    ASSUME Typed, Tokens, NEW g \in Groups, ContentThread(g)
    PROVE  Tokens'
<1>a. TypeOK
  BY DEF Typed
<1> USE DEF engineVars, playerVars
<1>1. CASE Drain(g)
  <2>1. \A h \in Groups : LeavesKept(h)
    BY <1>1, <1>a, Drained, QuietQueue
  <2>2. QED
    BY <1>1, <2>1, TokensKept DEF Drain
<1>2. CASE OnEnter(g) \/ Echo(g) \/ Reject(g)
  BY <1>2, DoneTokens DEF OnEnter, Echo, Reject, At
<1>3. CASE OnLeave(g)
  BY <1>3, OnLeaveTokens
<1>4. CASE g = Login /\ LoginStep
  BY <1>4, LoginTokens
<1>5. QED
  BY ContentThread(g), <1>1, <1>2, <1>3, <1>4 DEF ContentThread

LEMMA EngineTokens ==
    ASSUME Typed, Tokens, NoStrayFree', NEW i \in Sessions, Engine(i)
    PROVE  Tokens'
<1>1. CASE Transmit(i)
  <2>1. UNCHANGED <<phase, mine, map, sid, group, avail, local, mailbox>>
    BY <1>1 DEF Transmit, engineVars, playerVars, groupVars
  <2>2. \A h \in Groups : LeavesKept(h)
    BY <2>1, Kept, QuietQueue
  <2>3. QED
    BY <2>1, <2>2, TokensKept
<1>2. QED
  BY Engine(i), <1>1, JoinAllocTokens, JoinInitTokens, JoinInsertTokens, OnRecvTokens,
     OnClientLeaveTokens, LeaveCheckTokens DEF Engine

(* What was done on the wrong player stays done. *)
LEMMA StaleGrows ==
    ASSUME [Next]_vars
    PROVE  /\ stale \subseteq stale'
           /\ NoStrayFree' => NoStrayFree
           /\ NoStrayPacket' => NoStrayPacket
<1>1. stale \subseteq stale'
  BY DEF Next, Engine, ContentThread, LoginStep, vars, Use, JoinAlloc, JoinInit, JoinInsert, OnRecv,
         OnClientLeave, LeaveCheck, Transmit, Drain, OnEnter, OnLeave, LatePacket, Refuse, Accepted,
         HandOver, Move, EraseMoved, Reply, Echo, Reject
<1>2. QED
  BY <1>1 DEF NoStrayFree, NoStrayPacket

-----------------------------------------------------------------------------
(* What the jobs, the maps and the hand-over say of a player: the parts that *)
(* a step leaves as they were.                                              *)

Sound == Typed /\ Tokens /\ Core

PlayerKept(p) == sid'[p] = sid[p] /\ group'[p] = group[p] /\ avail'[p] = avail[p]
Grown == \A i \in Sessions : /\ phase[i] \in Joined => phase'[i] \in Joined
                             /\ phase[i] \in Left => phase'[i] \in Left
Staged == /\ \A p \in Players : Posted(p) => Posted(p)'
          /\ \A i \in Ids : Erasing(i) => Erasing(i)' \/ LeftBehind(i)'
Behind == \A i \in Ids : LeftBehind(i) => LeftBehind(i)'

(* A job that is pending, and its player. *)
LEMMA JobPlayer ==
    ASSUME Sound, NEW g \in Groups, NEW job \in Pending(g)
    PROVE  /\ job \in Jobs /\ JobOf(g, job) /\ job.player \in Players /\ sid[job.player] \in Ids
           /\ job.type = "PACKET" =>
                job.packet.from \in Sessions /\ mine[job.packet.from] = job.player
           /\ Late(job) => job.type = "PACKET" /\ LateOf(g, job)
           /\ ~Late(job) => /\ TimelyOf(g, job) /\ sid[job.player] \in Sessions
                            /\ mine[sid[job.player]] = job.player
                            /\ phase[sid[job.player]] \in Joined
                            /\ group[job.player] \in {Login, ShardOf[sid[job.player]]}
                            /\ job.type = "PACKET" => job.packet.from = sid[job.player]
<1>1. job \in Jobs /\ JobOf(g, job)
  BY InQueue DEF Sound, Typed, Core, Mailboxes
<1>2. PICK p \in Players : p = job.player
  BY <1>1 DEF Jobs
<1>3. sid[p] \in Ids
  BY DEF Sound, Typed, TypeOK
<1>4. job.type = "PACKET" => job.packet.from \in Sessions /\ mine[job.packet.from] = p
  BY <1>1, <1>2 DEF JobOf, Jobs, NoPacket
<1>5. Late(job) => job.type = "PACKET" /\ LateOf(g, job)
  BY <1>1 DEF JobOf, Late
<1>6. ASSUME ~Late(job)
      PROVE  /\ TimelyOf(g, job) /\ sid[p] \in Sessions /\ mine[sid[p]] = p
             /\ phase[sid[p]] \in Joined /\ group[p] \in {Login, ShardOf[sid[p]]}
             /\ job.type = "PACKET" => job.packet.from = sid[p]
  <2>1. TimelyOf(g, job)
    BY <1>1, <1>6 DEF JobOf
  <2>2. sid[p] # NoSession /\ phase[sid[p]] \in Joined
    BY <2>1, <1>2 DEF TimelyOf
  <2>3. sid[p] \in Sessions /\ mine[sid[p]] = p
    BY <2>2, PlayerSession DEF Sound
  <2>4. group[p] \in {Login, ShardOf[sid[p]]}
    BY <2>2 DEF Sound, Core, Homes
  <2>5. QED
    BY <2>1, <2>2, <2>3, <2>4, <1>2, <1>6 DEF Late
<1>7. QED
  BY <1>1, <1>2, <1>3, <1>4, <1>5, <1>6

LEMMA JobKept ==
    ASSUME Sound, NEW g \in Groups, NEW job \in Pending(g), NEW p \in Players, p = job.player,
           PlayerKept(p), Grown,
           \A i \in Sessions : mine[i] # NoPlayer => mine'[i] = mine[i],
           job.type \in Enters \/ Late(job) =>
               (members[g][sid[p]] = NoPlayer => members'[g][sid[p]] = NoPlayer),
           job.type = "GROUP_ENTER" /\ Posted(p) => Posted(p)'
    PROVE  JobOf(g, job)' /\ (Late(job)' <=> Late(job))
<1>1. /\ sid'[p] = sid[p] /\ group'[p] = group[p] /\ avail'[p] = avail[p]
      /\ Late(job)' <=> Late(job)
  BY DEF PlayerKept, Late
<1>2. job.type = "PACKET" =>
        /\ job.packet.from \in Sessions /\ mine[job.packet.from] = p
        /\ mine'[job.packet.from] = p
  BY JobPlayer, GroupAssumption
<1>3. CASE Late(job)
  <2>1. /\ job.type = "PACKET" /\ g = Login /\ phase[job.packet.from] \in Left
        /\ avail[p] = 0 /\ group[p] \in {NoGroup, Login} /\ members[Login][sid[p]] = NoPlayer
    BY <1>3, JobPlayer DEF LateOf
  <2>2. phase'[job.packet.from] \in Left /\ members'[Login][sid[p]] = NoPlayer
    BY <2>1, <1>2, <1>3 DEF Grown
  <2>3. LateOf(g, job)'
    BY <2>1, <2>2, <1>1 DEF LateOf
  <2>4. job.packet.from # NoSession
    BY <2>1, <1>2, GroupAssumption
  <2>5. QED
    BY <2>1, <2>3, <2>4, <1>1, <1>2, <1>3 DEF JobOf
<1>4. CASE ~Late(job)
  <2>1. PICK i \in Sessions : i = sid[p] /\ i = sid'[p]
    BY <1>1, <1>4, JobPlayer
  <2>2. TimelyOf(g, job) /\ phase'[i] \in Joined
    BY <2>1, <1>4, JobPlayer DEF Grown
  <2>3. TimelyOf(g, job)'
    BY <2>1, <2>2, <1>1 DEF TimelyOf
  <2>4. job.type = "PACKET" => job.packet.from # NoSession
    BY <1>2, GroupAssumption
  <2>5. QED
    BY <2>3, <2>4, <1>1, <1>2, <1>4 DEF JobOf
<1>5. QED
  BY <1>1, <1>3, <1>4

LEMMA OrderKept ==
    ASSUME NEW g, \A job \in Pending(g) : Late(job)' <=> Late(job)
    PROVE  Ordered(g)
BY DEF Ordered, Precedes

LEMMA MemberKept ==
    ASSUME Sound, NEW g \in Groups, NEW i \in Ids, members'[g][i] = members[g][i], Grown, Behind,
           NEW p, p = members[g][i], p # NoPlayer => PlayerKept(p),
           p \in Players /\ Posted(p) => Posted(p)',
           g = Login /\ Erasing(i) => Erasing(i)' \/ LeftBehind(i)'
    PROVE  MemberOf(g, i)'
<1>1. MemberOf(g, i)
  BY DEF Sound, Core, Members
<1>2. CASE p = NoPlayer
  BY <1>2 DEF MemberOf
<1>3. CASE p # NoPlayer
  <2>1. sid'[p] = sid[p] /\ group'[p] = group[p] /\ avail'[p] = avail[p]
    BY <1>3 DEF PlayerKept
  <2>2. i \in Sessions /\ phase'[i] \in Joined /\ p \in Players
    BY <1>1, <1>3 DEF Grown, MemberOf, Ids, Sound, Typed, TypeOK
  <2>3. g # Login => /\ g = ShardOf[i] /\ sid[p] = i /\ avail[p] = 0
                     /\ group[p] = g \/ Posted(p)
    BY <1>1, <1>3 DEF MemberOf
  <2>4. g = Login => \/ sid[p] = i /\ group[p] = Login /\ avail[p] = 0
                     \/ Erasing(i) \/ LeftBehind(i)
    BY <1>1, <1>3 DEF MemberOf
  <2>5. LeftBehind(i) => LeftBehind(i)'
    BY DEF Behind
  <2>6. i # NoSession
    BY <2>2, GroupAssumption
  <2>7. QED
    BY <1>3, <2>1, <2>2, <2>3, <2>4, <2>5, <2>6 DEF MemberOf
<1>4. QED
  BY <1>2, <1>3

LEMMA KnowsKept ==
    ASSUME NEW p \in Players, NEW g \in Groups, Knows(g, p), sid'[p] = sid[p],
           members[g][sid[p]] = p => members'[g][sid[p]] = p,
           \A job \in Pending(g) : job.player = p /\ job.type \in Enters =>
               job \in Pending(g)' \/ members'[g][sid[p]] = p
    PROVE  Knows(g, p)'
<1>1. PICK i : i = sid[p] /\ i = sid'[p]
  OBVIOUS
<1>2. CASE members[g][i] = p
  BY <1>1, <1>2 DEF Knows
<1>3. ASSUME NEW job \in Pending(g), job.player = p, job.type \in Enters PROVE Knows(g, p)'
  <2>1. job \in Pending(g)' \/ members'[g][i] = p
    BY <1>1, <1>3
  <2>2. QED
    BY <1>1, <1>3, <2>1 DEF Knows
<1>4. QED
  BY <1>1, <1>2, <1>3 DEF Knows

LEMMA KnownKept ==
    ASSUME Sound,
           \A p \in Players, g \in Groups : Knows(g, p) => Knows(g, p)',
           \A p \in Players : sid[p] # NoSession => PlayerKept(p),
           \A p \in Players : group'[p] \in Groups /\ sid[p] = NoSession => phase'[sid'[p]] \notin Joined,
           \A p \in Players : sid[p] \in Sessions /\ phase'[sid[p]] \in Joined =>
               phase[sid[p]] \in Joined \/ \A g \in Groups : group[p] = g => Knows(g, p)'
    PROVE  Known'
<1> SUFFICES ASSUME NEW p \in Players, NEW g \in Groups,
                    group'[p] = g, phase'[sid'[p]] \in Joined, avail'[p] = 0
             PROVE  Knows(g, p)'
  BY DEF Known
<1>1. sid[p] \in Sessions
  <2>1. sid[p] # NoSession
    OBVIOUS
  <2>2. QED
    BY <2>1, PlayerSession DEF Sound
<1>2. group[p] = g /\ phase'[sid[p]] \in Joined /\ avail[p] = 0
  BY <1>1, GroupAssumption DEF PlayerKept
<1>3. CASE phase[sid[p]] \in Joined
  BY <1>2, <1>3 DEF Sound, Core, Known
<1>4. QED
  BY <1>1, <1>2, <1>3

(* While a hand-over is under way the login group stays at its job. *)
HeadStays == /\ pc'[Login] = pc[Login]
             /\ pc[Login] # "idle" => Current(Login)' = Current(Login)

LEMMA StageKept ==
    ASSUME HeadStays
    PROVE  Staged
<1>1. \A p : Posted(p) => Posted(p)'
  BY DEF HeadStays, Posted
<1>2. \A i : Erasing(i) => Erasing(i)'
  BY DEF HeadStays, Erasing
<1>3. QED
  BY <1>1, <1>2 DEF Staged

LEMMA HandOversKept ==
    ASSUME Sound, HeadStays, NEW p, p = Current(Login).player,
           pc[Login] # "idle" => sid'[p] = sid[p] /\ group'[p] = group[p],
           pc[Login] = "move" => (Knows(ShardOf[sid[p]], p) => Knows(ShardOf[sid[p]], p)')
    PROVE  HandOvers'
<1> SUFFICES ASSUME pc'[Login] # "idle" PROVE HandOverOf(Current(Login))'
  BY DEF HandOvers
<1>1. PICK job : job = Current(Login) /\ job = Current(Login)' /\ pc[Login] # "idle" /\ pc'[Login] = pc[Login]
  BY DEF HeadStays
<1>2. HandOverOf(job) /\ sid'[p] = sid[p] /\ group'[p] = group[p]
  BY <1>1 DEF Sound, Core, HandOvers
<1>3. Late(job)' <=> Late(job)
  BY <1>1, <1>2 DEF Late
<1>4. pc[Login] = "move" => Knows(ShardOf[sid[p]], p)'
  BY <1>1, <1>2 DEF HandOverOf, Knows
<1>5. HandOverOf(job)'
  BY <1>1, <1>2, <1>3, <1>4 DEF HandOverOf
<1>6. QED
  BY <1>1, <1>5

(* The job of a hand-over and its player. *)
LEMMA HandOverJob ==
    ASSUME Sound, pc[Login] # "idle"
    PROVE  /\ local[Login] # <<>> /\ Login \in Groups /\ Current(Login) \in Pending(Login)
           /\ Current(Login) \in Jobs /\ Current(Login) = Queue(Login)[1]
           /\ Current(Login).type = "PACKET" /\ Current(Login).packet.from \in Sessions
           /\ Current(Login).player \in Players /\ HandOverOf(Current(Login))
           /\ pc[Login] \in {"handOver", "move"} =>
                /\ ~Late(Current(Login)) /\ group[Current(Login).player] = Login
                /\ avail[Current(Login).player] = 0
                /\ sid[Current(Login).player] \in Sessions
                /\ sid[Current(Login).player] = Current(Login).packet.from
<1>1. /\ local[Login] # <<>> /\ Login \in Groups /\ TypeOK /\ Current(Login).type = "PACKET"
      /\ HandOverOf(Current(Login))
  BY DEF Sound, Typed, Core, HandOvers, Groups
<1>2. PICK job \in Pending(Login) : job = Current(Login) /\ job = Queue(Login)[1]
  BY <1>1, InQueue, QueueType
<1>3. PICK p \in Players : p = job.player /\ job \in Jobs /\ job.packet.from \in Sessions
  BY <1>1, <1>2, JobPlayer
<1>4. ASSUME pc[Login] \in {"handOver", "move"}
      PROVE  /\ ~Late(job) /\ group[p] = Login /\ avail[p] = 0
             /\ sid[p] \in Sessions /\ sid[p] = job.packet.from
  <2>1. ~Late(job) /\ group[p] = Login
    BY <1>1, <1>2, <1>3, <1>4 DEF HandOverOf
  <2>2. TimelyOf(Login, job) /\ sid[p] \in Sessions /\ sid[p] = job.packet.from
    BY <2>1, <1>1, <1>2, <1>3, JobPlayer
  <2>3. avail[p] \in Nat /\ ~(avail[p] > 0)
    BY <2>1, <2>2, <1>1, <1>3 DEF TimelyOf, TypeOK
  <2>4. QED
    BY <2>1, <2>2, <2>3
<1>5. QED
  BY <1>1, <1>2, <1>3, <1>4

LEMMA HeadUntouched ==
    ASSUME Typed, UNCHANGED pc, NEW g \in Groups, pc[g] = "idle",
           \A h \in Groups \ {g} : local'[h] = local[h]
    PROVE  HeadStays
<1>1. Login \in Groups
  BY DEF Groups
<1>2. g # Login => local'[Login] = local[Login]
  BY <1>1
<1>3. QED
  BY <1>2 DEF HeadStays, Current

(* A step that changes no player and no map.                                *)
PlayersKept == /\ UNCHANGED <<mine, sid, group, avail, members>> /\ Grown /\ Staged /\ Behind
               /\ \A i \in Sessions : phase'[i] = "insert" => phase[i] = "insert"

(* A mailbox that stays, loses a job that is no entry, or gains one that     *)
(* may stand behind the others.                                             *)
Gains(g, job) == /\ QueueGains(g, job) /\ JobOf(g, job)'
                 /\ \A old \in Pending(g) : Precedes(old, job)'
MailKept(g) == \/ QueueSame(g)
               \/ QueueLoses(g) /\ Queue(g)[1].type \notin Enters
               \/ \E job \in Jobs : Gains(g, job)

LEMMA PlainJobs ==
    ASSUME Sound, PlayersKept, NEW g \in Groups
    PROVE  Ordered(g) /\ \A job \in Pending(g) : JobOf(g, job)'
<1>1. ASSUME NEW job \in Pending(g) PROVE JobOf(g, job)' /\ (Late(job)' <=> Late(job))
  <2>1. PICK p \in Players : p = job.player
    BY JobPlayer
  <2>2. PlayerKept(p) /\ Grown /\ UNCHANGED <<mine, members>> /\ (Posted(p) => Posted(p)')
    BY DEF PlayersKept, PlayerKept, Staged
  <2>3. QED
    BY <2>1, <2>2, JobKept
<1>2. Ordered(g)
  BY <1>1, OrderKept
<1>3. QED
  BY <1>1, <1>2

LEMMA PlainMail ==
    ASSUME Sound, PlayersKept, \A g \in Groups : MailKept(g)
    PROVE  Mailboxes'
<1> SUFFICES ASSUME NEW g \in Groups PROVE InOrder(g)' /\ \A job \in Pending(g)' : JobOf(g, job)'
  BY DEF Mailboxes
<1>1. TypeOK /\ InOrder(g)
  BY DEF Sound, Typed, Core, Mailboxes
<1>2. Ordered(g) /\ \A job \in Pending(g) : JobOf(g, job)'
  BY PlainJobs
<1>3. CASE QueueSame(g)
  BY <1>1, <1>2, <1>3, SameJobs
<1>4. CASE QueueLoses(g)
  <2>1. InOrder(g)' /\ Pending(g)' \subseteq Pending(g)
    BY <1>1, <1>2, <1>4, LostJob
  <2>2. QED
    BY <2>1, <1>2
<1>5. ASSUME NEW job \in Jobs, Gains(g, job)
      PROVE  InOrder(g)' /\ \A j \in Pending(g)' : JobOf(g, j)'
  <2>1. InOrder(g)' /\ Pending(g)' = Pending(g) \cup {job}
    BY <1>1, <1>2, <1>5, GainedJob DEF Gains
  <2>2. QED
    BY <2>1, <1>2, <1>5 DEF Gains
<1>6. QED
  BY <1>3, <1>4, <1>5 DEF MailKept

LEMMA MailKnows ==
    ASSUME TypeOK, NEW g \in Groups, MailKept(g), NEW p \in Players, UNCHANGED <<sid, members>>,
           Knows(g, p)
    PROVE  Knows(g, p)'
<1>1. \A job \in Pending(g) : job.type \in Enters => job \in Pending(g)'
  <2>1. CASE QueueSame(g)
    BY <2>1, SameJobs
  <2>2. CASE QueueLoses(g) /\ Queue(g)[1].type \notin Enters
    BY <2>2, LostJob
  <2>3. ASSUME NEW job \in Jobs, Gains(g, job)
        PROVE  Pending(g) \subseteq Pending(g)'
    BY <2>3, GainedJob DEF Gains
  <2>4. QED
    BY <2>1, <2>2, <2>3 DEF MailKept
<1>2. QED
  BY <1>1, KnowsKept

LEMMA PlainCore ==
    ASSUME Sound, PlayersKept, \A g \in Groups : MailKept(g), HeadStays \/ HandOvers',
           \A i \in Sessions : phase'[i] \in Joined => phase[i] \in Joined \/ Knows(Login, mine[i])'
    PROVE  Core'
<1>1. Typed /\ TypeOK /\ Homes /\ Tokens
  BY DEF Sound, Core, Typed
<1>2. Homes'
  BY <1>1 DEF PlayersKept, Homes
<1>3. Mailboxes'
  BY PlainMail
<1>4. Members'
  <2> SUFFICES ASSUME NEW g \in Groups, NEW i \in Ids PROVE MemberOf(g, i)'
    BY DEF Members
  <2>1. PICK p : p = members[g][i]
    OBVIOUS
  <2>2. PlayerKept(p) /\ Grown /\ Behind /\ members'[g][i] = members[g][i]
    BY DEF PlayersKept, PlayerKept
  <2>3. p \in Players /\ Posted(p) => Posted(p)'
    BY DEF PlayersKept, Staged
  <2>4. Erasing(i) => Erasing(i)' \/ LeftBehind(i)'
    BY DEF PlayersKept, Staged
  <2>5. QED
    BY <2>1, <2>2, <2>3, <2>4, MemberKept
<1>5. \A p \in Players, g \in Groups : Knows(g, p) => Knows(g, p)'
  BY <1>1, MailKnows DEF PlayersKept
<1>6. Known'
  <2>1. \A p \in Players : PlayerKept(p)
    BY DEF PlayersKept, PlayerKept
  <2>2. ASSUME NEW p \in Players, group'[p] \in Groups, sid[p] = NoSession
        PROVE  phase'[sid'[p]] \notin Joined
    BY <2>2, <1>1, GroupAssumption DEF PlayersKept, Homes
  <2>3. ASSUME NEW p \in Players, sid[p] \in Sessions, phase'[sid[p]] \in Joined, phase[sid[p]] \notin Joined,
               NEW g \in Groups, group[p] = g
        PROVE  Knows(g, p)'
    <3>1. PICK i \in Sessions : i = sid[p]
      BY <2>3
    <3>2. mine[i] = p /\ phase[i] = "insert"
      <4>1. i # NoSession
        BY GroupAssumption
      <4>2. mine[i] = p /\ phase[i] \in {"insert", "open", "check", "gone"}
        BY <3>1, <4>1, <1>1, PlayerSession
      <4>3. QED
        BY <4>2, <3>1, <2>3 DEF Joined
    <3>3. group[p] = Login
      BY <3>2, <1>1 DEF Homes
    <3>4. Knows(Login, mine[i])'
      BY <3>1, <2>3
    <3>5. mine'[i] = p
      BY <3>2 DEF PlayersKept
    <3>6. QED
      BY <3>3, <3>4, <3>5, <2>3
  <2>4. QED
    BY <2>1, <2>2, <2>3, <1>5, KnownKept
<1>7. ASSUME HeadStays PROVE HandOvers'
  <2>1. PICK p : p = Current(Login).player
    OBVIOUS
  <2>2. ASSUME pc[Login] = "move" PROVE p \in Players /\ ShardOf[sid[p]] \in Groups
    <3>1. p \in Players /\ sid[p] \in Ids
      BY <2>1, <2>2, <1>1, HandOverJob DEF TypeOK
    <3>2. QED
      BY <3>1, GroupAssumption DEF Groups
  <2>3. PICK h : h = ShardOf[sid[p]]
    OBVIOUS
  <2>4. UNCHANGED <<sid, group>>
    BY DEF PlayersKept
  <2>5. pc[Login] = "move" => (Knows(h, p) => Knows(h, p)')
    BY <2>2, <2>3, <1>5
  <2>6. pc[Login] = "move" => (Knows(ShardOf[sid[p]], p) => Knows(ShardOf[sid[p]], p)')
    BY <2>3, <2>4, <2>5 DEF Knows
  <2>7. QED
    BY <2>1, <2>4, <2>6, <1>7, HandOversKept
<1>8. QED
  BY <1>2, <1>3, <1>4, <1>6, <1>7 DEF Core

-----------------------------------------------------------------------------
(* The steps that change no player and no map.                              *)

LEMMA BehindKept ==
    ASSUME stale \subseteq stale'
    PROVE  Behind
BY DEF Behind, LeftBehind

LEMMA EngineHead ==
    ASSUME UNCHANGED <<pc, local>>
    PROVE  HeadStays /\ Staged
<1>1. HeadStays
  BY DEF HeadStays, Current
<1>2. QED
  BY <1>1, StageKept

LEMMA JoinInsertCore ==
    ASSUME Sound, NEW i \in Sessions, JoinInsert(i)
    PROVE  Core'
<1>a. Typed /\ Tokens /\ TypeOK /\ Homes /\ i # NoSession /\ Login \in Groups
  BY GroupAssumption DEF Sound, Typed, Core, Groups
<1>1. /\ phase[i] = "insert" /\ phase'[i] \in {"open", "gone"}
      /\ \A j \in Sessions \ {i} : phase'[j] = phase[j]
      /\ UNCHANGED <<mine, sid, group, avail, pc, members, local, stale>>
  BY <1>a, JoinInsertTokens
<1>2. PICK p \in Players : /\ p = mine[i] /\ sid[p] = i /\ avail[p] = 0
                           /\ Enqueue(Login, Job("JOIN", p, NoPacket))
  BY <1>a, JoinInsertTokens
<1>3. group[p] = Login
  BY <1>a, <1>1, <1>2 DEF Homes
<1>4. PICK job \in Jobs : job = Job("JOIN", p, NoPacket) /\ job.type = "JOIN" /\ job.player = p
  BY JobType DEF Job
<1>5. QueueGains(Login, job) /\ \A g \in Groups \ {Login} : QueueSame(g)
  BY <1>a, <1>1, <1>2, <1>4, Enqueued
<1>6. HeadStays /\ PlayersKept
  <2>1. HeadStays /\ Staged /\ Behind
    BY <1>1, EngineHead, BehindKept
  <2>2. Grown
    BY <1>1 DEF Grown, Joined, Left
  <2>3. \A j \in Sessions : phase'[j] = "insert" => phase[j] = "insert"
    BY <1>1
  <2>4. QED
    BY <2>1, <2>2, <2>3, <1>1 DEF PlayersKept
<1>7. JobOf(Login, job)'
  <2>1. members[Login][i] = NoPlayer
    <3>1. MemberOf(Login, i)
      BY <1>a DEF Sound, Core, Members, Ids
    <3>2. QED
      BY <3>1, <1>1 DEF MemberOf, Joined
  <2>2. phase'[i] \in Joined
    BY <1>1 DEF Joined
  <2>3. QED
    BY <2>1, <2>2, <1>a, <1>1, <1>2, <1>3, <1>4 DEF JobOf, Late, TimelyOf
<1>8. ASSUME NEW old \in Pending(Login) PROVE Precedes(old, job)'
  <2>1. old.player = p => old.type # "LEAVE"
    <3>1. Owner(i)
      BY <1>1 DEF Owner, HasPlayer
    <3>2. ~Leaves(Login, p)
      BY <3>1, <1>a, <1>2, OwnPlayer
    <3>3. QED
      BY <3>2, <1>a, InQueue
  <2>2. old.player = p => Late(old)
    <3> SUFFICES ASSUME old.player = p, ~Late(old) PROVE FALSE
      OBVIOUS
    <3>1. phase[sid[p]] \in Joined
      BY <1>a, JobPlayer
    <3>2. QED
      BY <3>1, <1>1, <1>2 DEF Joined
  <2>3. Late(old)' <=> Late(old)
    BY <1>1 DEF Late
  <2>4. QED
    BY <2>1, <2>2, <2>3, <1>4 DEF Precedes
<1>9. \A g \in Groups : MailKept(g)
  BY <1>5, <1>7, <1>8 DEF MailKept, Gains
<1>10. Knows(Login, mine[i])'
  <2>1. job \in Pending(Login)'
    BY <1>a, <1>5, GainedJob
  <2>2. mine'[i] = p
    BY <1>1, <1>2
  <2>3. QED
    BY <2>1, <2>2, <1>4 DEF Knows, Enters
<1>11. QED
  BY <1>1, <1>6, <1>9, <1>10, PlainCore

(* A packet, or the end, of a session that is open. *)
LEMMA OpenCore ==
    ASSUME Sound, NEW i \in Sessions, phase[i] = "open", phase'[i] \in {"open", "check"},
           \A j \in Sessions \ {i} : phase'[j] = phase[j],
           UNCHANGED <<mine, sid, group, avail, pc, members, local, stale>>,
           NEW p \in Players, NEW h \in Groups, p = mine[i], sid[p] = i, h = group[p], avail[p] = 0,
           \A g \in Groups : ~Leaves(g, p),
           NEW job \in Jobs, job.player = p, Enqueue(h, job),
           job.type = "LEAVE" \/ (job.type = "PACKET" /\ job.packet.from = i)
    PROVE  Core'
<1>a. TypeOK /\ Homes /\ i # NoSession
  BY GroupAssumption DEF Sound, Typed, Core
<1>1. QueueGains(h, job) /\ \A g \in Groups \ {h} : QueueSame(g)
  BY <1>a, Enqueued
<1>2. HeadStays /\ PlayersKept
  <2>1. HeadStays /\ Staged /\ Behind
    BY EngineHead, BehindKept
  <2>2. Grown
    BY DEF Grown, Joined, Left
  <2>3. QED
    BY <2>1, <2>2 DEF PlayersKept
<1>3. JobOf(h, job)'
  <2>1. h \in {Login, ShardOf[i]}
    BY <1>a DEF Homes
  <2>2. phase'[i] \in Joined
    BY DEF Joined
  <2>3. QED
    BY <2>1, <2>2, <1>a DEF JobOf, Late, TimelyOf, Enters
<1>4. ASSUME NEW old \in Pending(h) PROVE Precedes(old, job)'
  <2>1. old.player = p => old.type # "LEAVE"
    BY <1>a, InQueue
  <2>2. QED
    BY <2>1 DEF Precedes, Late, Enters
<1>5. \A g \in Groups : MailKept(g)
  BY <1>1, <1>3, <1>4 DEF MailKept, Gains
<1>6. \A j \in Sessions : phase'[j] \in Joined => phase[j] \in Joined
  BY DEF Joined
<1>7. QED
  BY <1>2, <1>5, <1>6, PlainCore

LEMMA OnRecvCore ==
    ASSUME Sound, NEW i \in Sessions, NEW kind \in Kinds, OnRecv(i, kind)
    PROVE  Core'
<1>1. /\ phase[i] = "open" /\ UNCHANGED <<phase, mine, sid, group, avail, pc, members, local, stale>>
      /\ \E p \in Players, h \in Groups :
           /\ p = mine[i] /\ sid[p] = i /\ h = group[p] /\ avail[p] = 0
           /\ \A g \in Groups : ~Leaves(g, p)
           /\ Enqueue(h, Job("PACKET", p, [from |-> i, kind |-> kind]))
  BY OnRecvTokens DEF Sound
<1>2. PICK p \in Players, h \in Groups :
           /\ p = mine[i] /\ sid[p] = i /\ h = group[p] /\ avail[p] = 0
           /\ \A g \in Groups : ~Leaves(g, p)
           /\ Enqueue(h, Job("PACKET", p, [from |-> i, kind |-> kind]))
  BY <1>1
<1>3. PICK job \in Jobs : /\ job = Job("PACKET", p, [from |-> i, kind |-> kind])
                          /\ job.type = "PACKET" /\ job.player = p /\ job.packet.from = i
  BY JobType DEF Job
<1>4. QED
  BY <1>1, <1>2, <1>3, OpenCore

LEMMA OnClientLeaveCore ==
    ASSUME Sound, NEW i \in Sessions, OnClientLeave(i)
    PROVE  Core'
<1>1. /\ phase[i] = "open" /\ phase' = [phase EXCEPT ![i] = "check"]
      /\ UNCHANGED <<mine, sid, group, avail, pc, members, local, stale>>
      /\ \E p \in Players, h \in Groups :
           /\ p = mine[i] /\ sid[p] = i /\ h = group[p] /\ avail[p] = 0
           /\ \A g \in Groups : ~Leaves(g, p)
           /\ Enqueue(h, Job("LEAVE", p, NoPacket))
  BY OnClientLeaveTokens DEF Sound
<1>2. phase'[i] = "check" /\ \A j \in Sessions \ {i} : phase'[j] = phase[j]
  BY <1>1 DEF Sound, Typed, TypeOK
<1>3. PICK p \in Players, h \in Groups :
           /\ p = mine[i] /\ sid[p] = i /\ h = group[p] /\ avail[p] = 0
           /\ \A g \in Groups : ~Leaves(g, p)
           /\ Enqueue(h, Job("LEAVE", p, NoPacket))
  BY <1>1
<1>4. PICK job \in Jobs : job = Job("LEAVE", p, NoPacket) /\ job.type = "LEAVE" /\ job.player = p
  BY JobType DEF Job
<1>5. QED
  BY <1>1, <1>2, <1>3, <1>4, OpenCore

LEMMA QuietCore ==
    ASSUME Sound, UNCHANGED <<mine, sid, group, avail, members>>, Grown, HeadStays,
           stale \subseteq stale',
           \A i \in Sessions : phase'[i] = phase[i] \/ (phase[i] = "check" /\ phase'[i] = "gone"),
           \A g \in Groups : QueueSame(g) \/ (QueueLoses(g) /\ Queue(g)[1].type \notin Enters)
    PROVE  Core'
<1>1. PlayersKept
  BY StageKept, BehindKept DEF PlayersKept
<1>2. \A g \in Groups : MailKept(g)
  BY DEF MailKept
<1>3. \A i \in Sessions : phase'[i] \in Joined => phase[i] \in Joined
  BY DEF Joined
<1>4. QED
  BY <1>1, <1>2, <1>3, PlainCore

LEMMA LeaveCheckCore ==
    ASSUME Sound, NoStrayFree', NEW i \in Sessions, LeaveCheck(i)
    PROVE  Core'
<1>1. /\ phase[i] = "check" /\ phase' = [phase EXCEPT ![i] = "gone"]
      /\ UNCHANGED <<mine, sid, group, avail, pc, members, local, mailbox, stale>>
  BY LeaveCheckTokens DEF Sound
<1>2. \A j \in Sessions : phase'[j] = phase[j] \/ (phase[j] = "check" /\ phase'[j] = "gone")
  BY <1>1 DEF Sound, Typed, TypeOK
<1>3. Grown
  BY <1>2 DEF Grown, Joined, Left
<1>4. HeadStays /\ \A g \in Groups : QueueSame(g)
  BY <1>1, EngineHead, Kept
<1>5. QED
  BY <1>1, <1>2, <1>3, <1>4, QuietCore

LEMMA TransmitCore ==
    ASSUME Sound, NEW i \in Sessions, Transmit(i)
    PROVE  Core'
<1>1. UNCHANGED <<phase, mine, sid, group, avail, pc, members, local, mailbox, stale>>
  BY DEF Transmit, engineVars, playerVars, groupVars
<1>2. Grown /\ HeadStays /\ \A g \in Groups : QueueSame(g)
  BY <1>1, EngineHead, Kept DEF Grown
<1>3. QED
  BY <1>1, <1>2, QuietCore

LEMMA DrainCore ==
    ASSUME Sound, NEW g \in Groups, Drain(g)
    PROVE  Core'
<1>a. Typed /\ TypeOK
  BY DEF Sound, Typed
<1>1. /\ pc[g] = "idle" /\ \A h \in Groups \ {g} : local'[h] = local[h]
      /\ UNCHANGED <<phase, mine, sid, group, avail, members, pc, stale>>
  BY <1>a DEF Drain, engineVars, playerVars, TypeOK
<1>2. HeadStays
  BY <1>a, <1>1, HeadUntouched
<1>3. Grown /\ \A h \in Groups : QueueSame(h)
  BY <1>a, <1>1, Drained DEF Grown
<1>4. QED
  BY <1>1, <1>2, <1>3, QuietCore

(* A packet is done with at one step. *)
LEMMA PacketCore ==
    ASSUME Sound, NEW g \in Groups, At(g, "PACKET"), Pop(g), stale \subseteq stale',
           UNCHANGED <<phase, mine, sid, group, avail, members, pc, mailbox>>
    PROVE  Core'
<1>a. Typed /\ TypeOK /\ local[g] # <<>>
  BY DEF Sound, Typed, At
<1>1. pc[g] = "idle" /\ \A h \in Groups \ {g} : local'[h] = local[h]
  BY <1>a DEF At, Pop, TypeOK
<1>2. HeadStays
  BY <1>a, <1>1, HeadUntouched
<1>3. QueueLoses(g) /\ \A h \in Groups \ {g} : QueueSame(h)
  BY <1>a, Popped
<1>4. Queue(g)[1].type \notin Enters
  BY <1>a, QueueType DEF At, Enters
<1>5. Grown
  BY DEF Grown
<1>6. QED
  BY <1>2, <1>3, <1>4, <1>5, QuietCore

LEMMA AcceptedCore ==
    ASSUME Sound, Accepted, NoStrayPacket', stale \subseteq stale'
    PROVE  Core'
<1>a. TypeOK /\ Login \in Groups
  BY DEF Sound, Typed, Groups
<1>1. /\ pc[Login] = "idle" /\ pc' = [pc EXCEPT ![Login] = "handOver"] /\ pc'[Login] = "handOver"
      /\ Use("packet", Current(Login).packet.from, Current(Login).player)
      /\ local[Login] # <<>> /\ group[Current(Login).player] = Login
      /\ UNCHANGED <<phase, mine, sid, group, avail, members, local, mailbox>>
  BY <1>a DEF Accepted, At, Moved, engineVars, playerVars, TypeOK
<1>2. PICK job : job = Current(Login)
  OBVIOUS
<1>3. ~Late(job)
  <2> SUFFICES ASSUME job.packet.from # sid[job.player] PROVE FALSE
    BY DEF Late
  <2>1. stale' = stale \cup {<<"packet", job.packet.from, sid[job.player]>>}
    BY <1>1, <1>2 DEF Use
  <2>2. PICK use \in stale' : use = <<"packet", job.packet.from, sid[job.player]>>
    BY <2>1
  <2>3. use[1] = "packet"
    BY <2>2
  <2>4. QED
    BY <2>2, <2>3 DEF NoStrayPacket
<1>4. Current(Login)' = job
  BY <1>1, <1>2 DEF Current
<1>5. HandOverOf(job)'
  BY <1>1, <1>2, <1>3 DEF HandOverOf, Late
<1>6. HandOvers'
  BY <1>4, <1>5 DEF HandOvers
<1>7. PlayersKept
  <2>1. Staged
    BY <1>1 DEF Staged, Posted, Erasing
  <2>2. Grown
    BY <1>1 DEF Grown
  <2>3. QED
    BY <2>1, <2>2, <1>1, BehindKept DEF PlayersKept
<1>8. \A g \in Groups : MailKept(g)
  BY <1>1, Kept DEF MailKept
<1>9. QED
  BY <1>1, <1>6, <1>7, <1>8, PlainCore

LEMMA ReplyCore ==
    ASSUME Sound, Reply, stale \subseteq stale'
    PROVE  Core'
<1>a. TypeOK /\ Login \in Groups
  BY DEF Sound, Typed, Groups
<1>1. /\ pc[Login] = "reply" /\ pc'[Login] = "idle" /\ Pop(Login)
      /\ UNCHANGED <<phase, mine, sid, group, avail, members, mailbox>>
  BY <1>a DEF Reply, engineVars, playerVars, TypeOK
<1>2. local[Login] # <<>> /\ Current(Login).type = "PACKET"
  BY <1>1, HandOverJob
<1>3. QueueLoses(Login) /\ \A h \in Groups \ {Login} : QueueSame(h)
  BY <1>a, <1>1, <1>2, Popped
<1>4. Queue(Login)[1].type \notin Enters
  BY <1>a, <1>2, QueueType DEF Enters
<1>5. HandOvers'
  BY <1>1 DEF HandOvers
<1>6. PlayersKept
  <2>1. Staged
    BY <1>1 DEF Staged, Posted, Erasing
  <2>2. Grown
    BY <1>1 DEF Grown
  <2>3. QED
    BY <2>1, <2>2, <1>1, BehindKept DEF PlayersKept
<1>7. \A g \in Groups : MailKept(g)
  BY <1>3, <1>4 DEF MailKept
<1>8. QED
  BY <1>1, <1>5, <1>6, <1>7, PlainCore

(* The GROUP_ENTER is the first job of the player in its echo group. *)
LEMMA HandOverCore ==
    ASSUME Sound, HandOver("handOver", "move")
    PROVE  Core'
<1>a. TypeOK /\ Login \in Groups
  BY DEF Sound, Typed, Groups
<1>1. /\ pc[Login] = "handOver" /\ pc'[Login] = "move"
      /\ Enqueue(Target(Current(Login).player), Job("GROUP_ENTER", Current(Login).player, NoPacket))
      /\ UNCHANGED <<phase, mine, sid, group, avail, members, local, stale>>
  BY <1>a DEF HandOver, engineVars, playerVars, TypeOK
<1>2. PICK head \in Pending(Login), p \in Players, i \in Sessions :
         /\ head = Current(Login) /\ ~Late(head) /\ p = head.player /\ group[p] = Login
         /\ avail[p] = 0 /\ i = sid[p]
  BY <1>1, HandOverJob
<1>3. PICK h \in Groups : h = ShardOf[i] /\ h = Target(p) /\ h # Login
  BY <1>2, GroupAssumption DEF Groups, Ids, Target
<1>4. phase[i] \in Joined /\ mine[i] = p /\ i # NoSession
  BY <1>a, <1>2, JobPlayer, GroupAssumption
<1>5. PICK job \in Jobs : job = Job("GROUP_ENTER", p, NoPacket) /\ job.type = "GROUP_ENTER" /\ job.player = p
  BY JobType DEF Job
<1>6. QueueGains(h, job) /\ \A g \in Groups \ {h} : QueueSame(g)
  BY <1>a, <1>1, <1>2, <1>3, <1>5, Enqueued
<1>7. PlayersKept
  <2>1. Staged
    BY <1>1 DEF Staged, Posted, Erasing
  <2>2. Grown
    BY <1>1 DEF Grown
  <2>3. QED
    BY <2>1, <2>2, <1>1, BehindKept DEF PlayersKept
<1>8. members[h][i] = NoPlayer
  <2>1. MemberOf(h, i)
    BY DEF Sound, Core, Members, Ids
  <2>2. PICK q : q = members[h][i]
    OBVIOUS
  <2>3. q # NoPlayer => q \in Players /\ sid[q] = i /\ (group[q] = h \/ Posted(q))
    BY <2>1, <2>2, <1>3, <1>a DEF MemberOf, TypeOK, Ids
  <2>4. q # NoPlayer => q = p
    BY <2>3, <1>4, PlayerSession DEF Sound
  <2>5. QED
    BY <2>2, <2>3, <2>4, <1>1, <1>2, <1>3 DEF Posted
<1>9. Current(Login)' = head
  BY <1>1, <1>2 DEF Current
<1>10. JobOf(h, job)'
  <2>1. pc'[Login] = "move" /\ Current(Login)'.player = p
    BY <1>1, <1>2, <1>9
  <2>2. ~Late(job)' /\ job.type # "PACKET"
    BY <1>5 DEF Late
  <2>3. /\ sid'[p] = i /\ phase'[i] \in Joined /\ h = ShardOf[i] /\ avail'[p] = 0
        /\ members'[h][i] = NoPlayer
    BY <1>1, <1>2, <1>3, <1>4, <1>8
  <2>4. i # NoSession /\ job.type # "JOIN" /\ job.type # "LEAVE" /\ job.type # "PACKET"
    BY <1>4, <1>5
  <2>5. TimelyOf(h, job)'
    <3>1. i # NoSession /\ phase'[i] \in Joined /\ h \in {Login, ShardOf[i]} /\ h # Login
      BY <2>3, <2>4, <1>3
    <3>2. Posted(p)'
      BY <2>1 DEF Posted
    <3>3. ~(avail'[p] > 0)
      BY <2>3
    <3>4. QED
      BY <2>3, <2>4, <3>1, <3>2, <3>3, <1>5 DEF TimelyOf
  <2>6. QED
    BY <2>2, <2>5 DEF JobOf
<1>11. ASSUME NEW old \in Pending(h) PROVE Precedes(old, job)'
  <2> SUFFICES ASSUME old.player = p PROVE FALSE
    BY <1>5 DEF Precedes
  <2>1. ~Late(old)
    BY <1>3, JobPlayer DEF LateOf
  <2>2. TimelyOf(h, old) /\ old \in Jobs
    BY <2>1, JobPlayer
  <2>3. ~Posted(p) /\ group[p] # h
    BY <1>1, <1>2, <1>3 DEF Posted
  <2>4. old.type \in {"JOIN", "LEAVE", "PACKET", "GROUP_ENTER"}
    BY <2>2 DEF Jobs
  <2>5. QED
    BY <2>2, <2>3, <2>4, <1>3 DEF TimelyOf
<1>12. \A g \in Groups : MailKept(g)
  BY <1>6, <1>10, <1>11 DEF MailKept, Gains
<1>13. HandOvers'
  <2>1. Knows(h, p)'
    <3>1. job \in Pending(h)'
      BY <1>a, <1>6, GainedJob
    <3>2. QED
      BY <3>1, <1>5 DEF Knows, Enters
  <2>2. Knows(ShardOf[sid[p]], p)'
    BY <2>1, <1>1, <1>2, <1>3 DEF Knows
  <2>3. Late(head)' <=> Late(head)
    BY <1>1 DEF Late
  <2>4. HandOverOf(head)'
    BY <2>2, <2>3, <1>1, <1>2 DEF HandOverOf
  <2>5. QED
    BY <2>4, <1>9 DEF HandOvers
<1>14. QED
  BY <1>1, <1>7, <1>12, <1>13, PlainCore

(* A LEAVE that comes to a group the player has left follows it. *)
LEMMA ForwardCore ==
    ASSUME Sound, NEW g \in Groups, OnLeave(g), group[Current(g).player] # g
    PROVE  Core'
<1>a. Typed /\ Tokens /\ TypeOK
  BY DEF Sound, Typed
<1>1. /\ pc[g] = "idle" /\ local[g] # <<>> /\ Current(g).type = "LEAVE" /\ Pop(g)
      /\ UNCHANGED <<phase, mine, sid, group, pc, stale>>
  BY <1>a, OnLeaveTokens
<1>2. PICK p \in Players, i \in Sessions :
        /\ p = Current(g).player /\ i = sid[p] /\ phase[i] \in Left /\ avail[p] = 0
        /\ group[p] \in Groups /\ \A h \in Groups : Leaves(h, p) => h = g
        /\ Enqueue(group[p], Job("LEAVE", p, NoPacket)) /\ UNCHANGED <<avail, members, count>>
  BY <1>a, OnLeaveTokens
<1>3. PICK h \in Groups \ {g} : h = group[p]
  BY <1>2
<1>4. PICK head \in Pending(g) : head = Current(g) /\ head = Queue(g)[1]
  BY <1>1, <1>a, InQueue, QueueType
<1>5. ~Late(head) /\ TimelyOf(g, head)
  BY <1>1, <1>4, JobPlayer
<1>6. g = Login /\ h = ShardOf[i] /\ i # NoSession
  BY <1>1, <1>2, <1>3, <1>4, <1>5, JobPlayer DEF TimelyOf
<1>7. PICK job \in Jobs : job = Job("LEAVE", p, NoPacket) /\ job.type = "LEAVE" /\ job.player = p
  BY JobType DEF Job
<1>8. /\ QueueLoses(g) /\ QueueGains(h, job) /\ \A e \in Groups \ {g, h} : QueueSame(e)
  BY <1>a, <1>1, <1>2, <1>3, <1>7, Forwarded
<1>9. HeadStays /\ PlayersKept
  <2>1. \A e \in Groups \ {g} : local'[e] = local[e]
    BY <1>1, <1>a DEF Pop, TypeOK
  <2>2. HeadStays
    BY <2>1, <1>1, <1>a, HeadUntouched
  <2>3. Grown
    BY <1>1 DEF Grown
  <2>4. QED
    BY <2>2, <2>3, <1>1, <1>2, StageKept, BehindKept DEF PlayersKept
<1>10. JobOf(h, job)'
  <2>1. ~Late(job)' /\ job.type # "PACKET"
    BY <1>7 DEF Late
  <2>2. TimelyOf(h, job)'
    BY <1>1, <1>2, <1>3, <1>6, <1>7 DEF TimelyOf, Enters, Left, Joined
  <2>3. QED
    BY <2>1, <2>2 DEF JobOf
<1>11. ASSUME NEW old \in Pending(h) PROVE Precedes(old, job)'
  <2>1. old.player = p => old.type # "LEAVE"
    BY <1>a, <1>2, InQueue
  <2>2. QED
    BY <2>1, <1>7 DEF Precedes, Late, Enters
<1>12. Queue(g)[1].type \notin Enters
  BY <1>1, <1>4 DEF Enters
<1>13. \A e \in Groups : MailKept(e)
  BY <1>8, <1>10, <1>11, <1>12 DEF MailKept, Gains
<1>14. QED
  BY <1>1, <1>9, <1>13, PlainCore

-----------------------------------------------------------------------------
(* The steps that give a player a session.                                  *)

(* Player p is opened for session i. No job of it waits but late packets of  *)
(* the login group, and only that group's map may still have it.            *)
LEMMA RenewedCore ==
    ASSUME Sound, NEW i \in Sessions, NEW p \in Players,
           phase[i] \notin Joined, mine[i] \in {NoPlayer, p}, mine'[i] = p,
           \A j \in Sessions \ {i} : phase'[j] = phase[j] /\ mine'[j] = mine[j],
           UNCHANGED <<pc, members, local, mailbox, stale>>,
           \A q \in Players \ {p} : PlayerKept(q),
           avail'[p] = 0,
           \/ phase'[i] = "init" /\ sid'[p] = NoSession /\ group'[p] = NoGroup
           \/ phase'[i] = "insert" /\ sid'[p] = i /\ group'[p] = Login,
           \A j \in Sessions \ {i} : phase[j] = "insert" => mine[j] # p,
           \A g \in Groups : \A job \in Pending(g) : job.player = p =>
               g = Login /\ job.type = "PACKET" /\ phase[job.packet.from] \in Left,
           \A g \in Groups, j \in Ids : members[g][j] = p =>
               g = Login /\ (Erasing(j) \/ LeftBehind(j)),
           pc[Login] \in {"handOver", "move"} => Current(Login).player # p
    PROVE  Core'
<1>a. Typed /\ TypeOK /\ Homes /\ Tokens /\ i # NoSession /\ Login \in Groups /\ Login # NoGroup
  BY GroupAssumption DEF Sound, Typed, Core, Groups
<1>1. /\ phase[i] \notin Left /\ phase'[i] \notin Joined /\ Grown
      /\ \A j \in Sessions : mine[j] # NoPlayer => mine'[j] = mine[j]
  BY DEF Grown, Joined, Left
<1>2. HeadStays /\ Staged /\ Behind
  BY EngineHead, BehindKept
<1>3. \A g \in Groups : QueueSame(g)
  BY Kept
<1>4. ASSUME NEW g \in Groups, NEW job \in Pending(g), job.player = p
      PROVE  JobOf(g, job)' /\ Late(job)' /\ job.type = "PACKET"
  <2>1. /\ g = Login /\ job.type = "PACKET" /\ phase[job.packet.from] \in Left
        /\ job.packet.from \in Sessions /\ mine[job.packet.from] = p
    BY <1>4, JobPlayer
  <2>2. job.packet.from # i /\ job.packet.from # NoSession
    BY <2>1, <1>1, GroupAssumption
  <2>3. Late(job)' /\ phase'[job.packet.from] \in Left /\ mine'[job.packet.from] = p
    BY <2>1, <2>2, <1>4 DEF Late
  <2>4. members[Login][sid'[p]] = NoPlayer
    <3>1. MemberOf(Login, NoSession) /\ MemberOf(Login, i)
      BY <1>a DEF Sound, Core, Members, Ids
    <3>2. QED
      BY <3>1 DEF MemberOf
  <2>5. LateOf(g, job)'
    BY <2>1, <2>3, <2>4, <1>4 DEF LateOf
  <2>6. QED
    BY <2>1, <2>2, <2>3, <2>5, <1>4 DEF JobOf
<1>5. ASSUME NEW g \in Groups, NEW job \in Pending(g), job.player # p
      PROVE  JobOf(g, job)' /\ (Late(job)' <=> Late(job))
  <2>1. PICK q \in Players \ {p} : q = job.player
    BY <1>5, JobPlayer
  <2>2. PlayerKept(q) /\ (Posted(q) => Posted(q)')
    BY <1>2 DEF Staged
  <2>3. QED
    BY <2>1, <2>2, <1>1, JobKept
<1>6. Mailboxes'
  <2> SUFFICES ASSUME NEW g \in Groups
               PROVE  InOrder(g)' /\ \A job \in Pending(g)' : JobOf(g, job)'
    BY DEF Mailboxes
  <2>1. Ordered(g)
    <3> SUFFICES ASSUME NEW a \in Pending(g), NEW b \in Pending(g), Precedes(a, b), a.player = b.player
                 PROVE  a.type # "LEAVE" /\ (b.type \in Enters \/ Late(b)' => Late(a)')
      BY DEF Ordered, Precedes
    <3>1. CASE a.player = p
      BY <3>1, <1>4
    <3>2. CASE a.player # p
      BY <3>2, <1>5 DEF Precedes
    <3>3. QED
      BY <3>1, <3>2
  <2>2. InOrder(g)' /\ Pending(g)' = Pending(g)
    BY <2>1, <1>a, <1>3, SameJobs DEF Sound, Core, Mailboxes
  <2>3. QED
    BY <2>2, <1>4, <1>5
<1>7. Members'
  <2> SUFFICES ASSUME NEW g \in Groups, NEW j \in Ids PROVE MemberOf(g, j)'
    BY DEF Members
  <2>1. PICK q \in Players \cup {NoPlayer} : q = members[g][j]
    BY <1>a DEF TypeOK
  <2>2. Erasing(j) => Erasing(j)' \/ LeftBehind(j)'
    BY <1>2 DEF Staged
  <2>3. CASE q # p
    <3>1. q # NoPlayer => PlayerKept(q)
      BY <2>3
    <3>2. q \in Players /\ Posted(q) => Posted(q)'
      BY <1>2 DEF Staged
    <3>3. members'[g][j] = members[g][j] /\ Grown /\ Behind
      BY <1>1, <1>2
    <3>4. QED
      BY <2>1, <2>2, <3>1, <3>2, <3>3, MemberKept
  <2>4. CASE q = p
    <3>1. MemberOf(g, j) /\ p # NoPlayer
      BY GroupAssumption DEF Sound, Core, Members
    <3>2. j # NoSession /\ phase[j] \in Joined /\ g = Login /\ (Erasing(j) \/ LeftBehind(j))
      BY <2>1, <2>4, <3>1 DEF MemberOf
    <3>3. j \in Sessions /\ phase'[j] \in Joined
      BY <3>2, <1>1 DEF Ids, Grown
    <3>4. Erasing(j)' \/ LeftBehind(j)'
      BY <3>2, <2>2, <1>2 DEF Behind
    <3>5. QED
      BY <3>2, <3>3, <3>4 DEF MemberOf
  <2>5. QED
    BY <2>3, <2>4
<1>8. ASSUME NEW q \in Players \ {p}, NEW g \in Groups, Knows(g, q) PROVE Knows(g, q)'
  <2>1. sid'[q] = sid[q] /\ Pending(g)' = Pending(g)
    BY <1>a, <1>3, SameJobs DEF PlayerKept
  <2>2. QED
    BY <2>1, <1>8, KnowsKept
<1>9. Known'
  <2> SUFFICES ASSUME NEW q \in Players, NEW g \in Groups,
                      group'[q] = g, phase'[sid'[q]] \in Joined, avail'[q] = 0
               PROVE  Knows(g, q)'
    BY DEF Known
  <2>1. q # p
    BY <1>1, GroupAssumption
  <2>2. sid'[q] = sid[q] /\ group[q] = g /\ avail[q] = 0
    BY <2>1 DEF PlayerKept
  <2>3. sid[q] # NoSession
    BY <2>2, <1>a, GroupAssumption DEF Homes
  <2>4. sid[q] \in Sessions \ {i}
    BY <2>2, <2>3, <1>1, <1>a, PlayerSession
  <2>5. Knows(g, q)
    BY <2>2, <2>4 DEF Sound, Core, Known
  <2>6. QED
    BY <2>1, <2>5, <1>8
<1>10. Homes'
  <2>1. ASSUME NEW j \in Sessions, phase'[j] = "insert" PROVE group'[mine'[j]] = Login
    <3>1. CASE j = i
      BY <3>1, <2>1
    <3>2. CASE j # i
      <4>1. phase[j] = "insert" /\ mine'[j] = mine[j] /\ mine[j] # p
        BY <2>1, <3>2
      <4>2. mine[j] \in Players \ {p} /\ group[mine[j]] = Login
        BY <4>1, <1>a DEF Homes, Typed, HasPlayer
      <4>3. QED
        BY <4>1, <4>2 DEF PlayerKept
    <3>3. QED
      BY <3>1, <3>2
  <2>2. ASSUME NEW q \in Players
        PROVE  group'[q] \in IF sid'[q] = NoSession THEN {NoGroup} ELSE {Login, ShardOf[sid'[q]]}
    <3>1. CASE q = p
      BY <3>1, <1>a
    <3>2. CASE q # p
      BY <3>2, <1>a DEF Homes, PlayerKept
    <3>3. QED
      BY <3>1, <3>2
  <2>3. QED
    BY <2>1, <2>2 DEF Homes
<1>11. HandOvers'
  <2>1. PICK q : q = Current(Login).player
    OBVIOUS
  <2>2. CASE pc[Login] = "idle"
    BY <2>2 DEF HandOvers
  <2>3. CASE pc[Login] # "idle" /\ q = p
    <3>1. PICK head \in Pending(Login) : head = Current(Login) /\ head.player = p
      BY <2>1, <2>3, HandOverJob
    <3>2. Late(head)' /\ pc[Login] \notin {"handOver", "move"}
      BY <3>1, <1>4, <1>a
    <3>3. Current(Login)' = head
      BY <3>1 DEF Current
    <3>4. HandOverOf(head)'
      BY <3>2 DEF HandOverOf
    <3>5. QED
      BY <3>3, <3>4 DEF HandOvers
  <2>4. CASE pc[Login] # "idle" /\ q # p
    <3>1. q \in Players \ {p} /\ sid[q] \in Ids
      BY <2>1, <2>4, <1>a, HandOverJob DEF TypeOK
    <3>2. sid'[q] = sid[q] /\ group'[q] = group[q]
      BY <3>1 DEF PlayerKept
    <3>3. PICK h \in Groups : h = ShardOf[sid[q]]
      BY <3>1, GroupAssumption DEF Groups
    <3>4. Knows(h, q) => Knows(h, q)'
      BY <3>1, <1>8
    <3>5. Knows(ShardOf[sid[q]], q) => Knows(ShardOf[sid[q]], q)'
      BY <3>2, <3>3, <3>4 DEF Knows
    <3>6. QED
      BY <2>1, <3>2, <3>5, <1>2, HandOversKept
  <2>5. QED
    BY <2>2, <2>3, <2>4
<1>12. QED
  BY <1>6, <1>7, <1>9, <1>10, <1>11 DEF Core

LEMMA JoinAllocCore ==
    ASSUME Sound, NEW i \in Sessions, JoinAlloc(i)
    PROVE  Core'
<1>a. Typed /\ Tokens /\ TypeOK /\ Homes
  BY DEF Sound, Typed, Core
<1>1. /\ phase[i] = "new" /\ phase' = [phase EXCEPT ![i] = "init"]
      /\ UNCHANGED <<pc, members, local, mailbox, stale>>
  BY <1>a, JoinAllocTokens
<1>2. PICK p \in Players : /\ avail[p] = 1 /\ avail' = [avail EXCEPT ![p] = 0]
                           /\ mine' = [mine EXCEPT ![i] = p]
                           /\ sid' = [sid EXCEPT ![p] = NoSession]
                           /\ group' = [group EXCEPT ![p] = NoGroup]
  BY <1>a, JoinAllocTokens
<1>3. /\ phase'[i] = "init" /\ mine'[i] = p /\ avail'[p] = 0 /\ sid'[p] = NoSession /\ group'[p] = NoGroup
      /\ \A j \in Sessions \ {i} : phase'[j] = phase[j] /\ mine'[j] = mine[j]
      /\ \A q \in Players \ {p} : PlayerKept(q)
  BY <1>1, <1>2, <1>a DEF TypeOK, PlayerKept
<1>4. mine[i] = NoPlayer /\ phase[i] \notin Joined
  <2>1. SessionOf(i)
    BY <1>a DEF Tokens
  <2>2. QED
    BY <2>1, <1>1 DEF SessionOf, Joined
<1>5. ASSUME NEW j \in Sessions, phase[j] = "insert" PROVE mine[j] # p
  <2>1. avail[mine[j]] = 0
    BY <1>a, <1>5, OwnPlayer DEF Owner, HasPlayer
  <2>2. QED
    BY <2>1, <1>2
<1>6. ASSUME NEW g \in Groups, NEW job \in Pending(g), job.player = p
      PROVE  g = Login /\ job.type = "PACKET" /\ phase[job.packet.from] \in Left
  <2>1. ~Late(job)
    BY <1>2, <1>6, JobPlayer DEF LateOf
  <2>2. TimelyOf(g, job) /\ sid[p] \in Sessions
    BY <2>1, <1>6, JobPlayer
  <2>3. g = Login /\ job.type = "PACKET"
    BY <2>2, <1>2, <1>6 DEF TimelyOf
  <2>4. job.packet.from = sid[p]
    BY <2>1, <2>3, <1>6 DEF Late
  <2>5. phase[sid[p]] \in Left
    BY <2>2, <1>2, <1>a, PlayerSession, GroupAssumption
  <2>6. QED
    BY <2>3, <2>4, <2>5
<1>7. ASSUME NEW g \in Groups, NEW j \in Ids, members[g][j] = p
      PROVE  g = Login /\ (Erasing(j) \/ LeftBehind(j))
  <2>1. MemberOf(g, j) /\ p # NoPlayer
    BY GroupAssumption DEF Sound, Core, Members
  <2>2. QED
    BY <2>1, <1>2, <1>7 DEF MemberOf
<1>8. pc[Login] \in {"handOver", "move"} => Current(Login).player # p
  BY <1>2, HandOverJob
<1>9. QED
  BY <1>1, <1>3, <1>4, <1>5, <1>6, <1>7, <1>8, RenewedCore

LEMMA JoinInitCore ==
    ASSUME Sound, NEW i \in Sessions, JoinInit(i)
    PROVE  Core'
<1>a. Typed /\ Tokens /\ TypeOK /\ Homes /\ i # NoSession
  BY GroupAssumption DEF Sound, Typed, Core
<1>1. /\ phase[i] = "init" /\ phase' = [phase EXCEPT ![i] = "insert"]
      /\ UNCHANGED <<mine, avail, pc, members, local, mailbox, stale>>
  BY <1>a, JoinInitTokens
<1>2. PICK p \in Players : /\ p = mine[i] /\ sid[p] = NoSession /\ avail[p] = 0
                           /\ sid' = [sid EXCEPT ![p] = i] /\ group' = [group EXCEPT ![p] = Login]
  BY <1>a, JoinInitTokens
<1>3. /\ phase'[i] = "insert" /\ mine'[i] = p /\ avail'[p] = 0 /\ sid'[p] = i /\ group'[p] = Login
      /\ \A j \in Sessions \ {i} : phase'[j] = phase[j] /\ mine'[j] = mine[j]
      /\ \A q \in Players \ {p} : PlayerKept(q)
  BY <1>1, <1>2, <1>a DEF TypeOK, PlayerKept
<1>4. phase[i] \notin Joined
  BY <1>1 DEF Joined
<1>5. ASSUME NEW j \in Sessions, phase[j] = "insert" PROVE mine[j] # p
  <2>1. sid[mine[j]] = j
    BY <1>a, <1>5, OwnPlayer DEF Owner, HasPlayer
  <2>2. QED
    BY <2>1, <1>2, GroupAssumption
<1>6. ASSUME NEW g \in Groups, NEW job \in Pending(g), job.player = p
      PROVE  g = Login /\ job.type = "PACKET" /\ phase[job.packet.from] \in Left
  <2>1. Late(job)
    BY <1>2, <1>6, JobPlayer, GroupAssumption
  <2>2. QED
    BY <2>1, JobPlayer DEF LateOf
<1>7. ASSUME NEW g \in Groups, NEW j \in Ids, members[g][j] = p
      PROVE  g = Login /\ (Erasing(j) \/ LeftBehind(j))
  <2>1. MemberOf(g, j) /\ p # NoPlayer
    BY GroupAssumption DEF Sound, Core, Members
  <2>2. QED
    BY <2>1, <1>2, <1>7 DEF MemberOf
<1>8. pc[Login] \in {"handOver", "move"} => Current(Login).player # p
  BY <1>2, HandOverJob, GroupAssumption
<1>9. QED
  BY <1>1, <1>2, <1>3, <1>4, <1>5, <1>6, <1>7, <1>8, RenewedCore

-----------------------------------------------------------------------------
(* The steps that change the map of a group, or the group of a player.      *)

(* No job stands before the head of a queue. *)
LEMMA HeadFirst ==
    ASSUME Sound, NEW g \in Groups, local[g] # <<>>, NEW job \in Pending(g)
    PROVE  job = Current(g) \/ Precedes(Current(g), job)
<1>1. PICK q \in Seq(Jobs) : q = Queue(g)
  BY QueueType DEF Sound, Typed
<1>2. PICK n \in Nat : n = Len(q) /\ Pending(g) = {q[k] : k \in 1 .. n}
  BY <1>1 DEF Pending
<1>3. Current(g) = q[1]
  BY <1>1, QueueType DEF Sound, Typed
<1>4. PICK k \in 1 .. n : job = q[k]
  BY <1>2
<1>5. k = 1 \/ 1 \in 1 .. k - 1
  OBVIOUS
<1>6. InOrder(g)
  BY DEF Sound, Core, Mailboxes
<1>7. 1 \in 1 .. k - 1 => Precedes(q[1], q[k])
  BY <1>1, <1>2, <1>6 DEF InOrder
<1>8. QED
  BY <1>3, <1>4, <1>5, <1>7

(* The jobs of a group after its first is done, where no player changed its  *)
(* session.                                                                 *)
LEMMA RestInOrder ==
    ASSUME Sound, UNCHANGED sid, NEW g \in Groups, QueueSame(g) \/ QueueLoses(g)
    PROVE  InOrder(g)' /\ Pending(g)' \subseteq Pending(g)
<1>1. TypeOK /\ InOrder(g)
  BY DEF Sound, Typed, Core, Mailboxes
<1>2. Ordered(g)
  BY OrderKept DEF Late
<1>3. CASE QueueSame(g)
  BY <1>1, <1>2, <1>3, SameJobs
<1>4. CASE QueueLoses(g)
  BY <1>1, <1>2, <1>4, LostJob
<1>5. QED
  BY <1>3, <1>4

LEMMA KnownStays ==
    ASSUME Sound, UNCHANGED <<phase, sid>>,
           \A p \in Players, g \in Groups : group'[p] = g /\ avail'[p] = 0 =>
               \/ Knows(g, p)'
               \/ group[p] = g /\ avail[p] = 0 /\ (Knows(g, p) => Knows(g, p)')
    PROVE  Known'
<1> SUFFICES ASSUME NEW p \in Players, NEW g \in Groups,
                    group'[p] = g, phase[sid[p]] \in Joined, avail'[p] = 0
             PROVE  Knows(g, p)'
  BY DEF Known
<1>1. group[p] = g /\ avail[p] = 0 => Knows(g, p)
  BY DEF Sound, Core, Known
<1>2. QED
  BY <1>1

LEMMA OnEnterCore ==
    ASSUME Sound, NEW g \in Groups, OnEnter(g)
    PROVE  Core'
<1>a. Typed /\ Tokens /\ TypeOK /\ Homes
  BY DEF Sound, Typed, Core
<1>1. /\ pc[g] = "idle" /\ local[g] # <<>> /\ Current(g).type \in Enters /\ Pop(g)
      /\ members' = [members EXCEPT ![g][sid[Current(g).player]] = Current(g).player]
      /\ UNCHANGED <<phase, mine, sid, group, avail, mailbox, pc, stale>>
  BY DEF OnEnter, At, Enters, engineVars, playerVars
<1>2. PICK head \in Pending(g) : head = Current(g) /\ head = Queue(g)[1]
  BY <1>1, <1>a, InQueue, QueueType
<1>3. head \in Jobs /\ ~Late(head)
  BY <1>1, <1>2, JobPlayer DEF Late, Enters
<1>4. PICK p \in Players, i \in Sessions :
        /\ p = head.player /\ i = sid[p] /\ mine[i] = p /\ phase[i] \in Joined
  BY <1>3, JobPlayer
<1>5. /\ g \in {Login, ShardOf[i]} /\ avail[p] = 0 /\ members[g][i] = NoPlayer
      /\ g # Login => group[p] = g \/ Posted(p)
      /\ g = Login => group[p] = Login
  <2>1. TimelyOf(g, head)
    BY <1>3, JobPlayer
  <2>2. QED
    BY <2>1, <1>1, <1>2, <1>4 DEF TimelyOf, Enters
<1>6. /\ members'[g][i] = p
      /\ \A e \in Groups, j \in Ids : e # g \/ j # i => members'[e][j] = members[e][j]
  BY <1>a, <1>1, <1>2, <1>4 DEF TypeOK, Ids
<1>7. QueueLoses(g) /\ \A e \in Groups \ {g} : QueueSame(e)
  BY <1>a, <1>1, Popped
<1>8. HeadStays /\ Staged /\ Grown /\ Behind
  <2>1. \A e \in Groups \ {g} : local'[e] = local[e]
    BY <1>1, <1>a DEF Pop, TypeOK
  <2>2. HeadStays
    BY <2>1, <1>1, <1>a, HeadUntouched
  <2>3. Grown
    BY <1>1 DEF Grown
  <2>4. QED
    BY <2>2, <2>3, <1>1, StageKept, BehindKept
<1>9. \A q \in Players : PlayerKept(q) /\ (Posted(q) => Posted(q)')
  BY <1>1, <1>8 DEF PlayerKept, Staged
<1>10. ASSUME NEW q \in Players, sid[q] = i PROVE q = p
  BY <1>10, <1>4, <1>a, PlayerSession, GroupAssumption
<1>11. Mailboxes'
  <2> SUFFICES ASSUME NEW e \in Groups
               PROVE  InOrder(e)' /\ \A job \in Pending(e)' : JobOf(e, job)'
    BY DEF Mailboxes
  <2>1. InOrder(e)' /\ Pending(e)' \subseteq Pending(e)
    BY <1>1, <1>7, RestInOrder
  <2>2. ASSUME NEW job \in Pending(e)' PROVE JobOf(e, job)'
    <3>1. job \in Pending(e)
      BY <2>1, <2>2
    <3>2. PICK q \in Players : q = job.player /\ sid[q] \in Ids
      BY <3>1, JobPlayer
    <3>3. ASSUME job.type \in Enters \/ Late(job), e = g, sid[q] = i PROVE FALSE
      <4>1. Precedes(head, job)
        BY <2>2, <3>3, <1>a, <1>2, <1>7, LostJob DEF Sound, Core, Mailboxes
      <4>2. q = p
        BY <3>3, <1>10
      <4>3. QED
        BY <4>1, <4>2, <3>2, <3>3, <1>3, <1>4 DEF Precedes
    <3>4. job.type \in Enters \/ Late(job) =>
              (members[e][sid[q]] = NoPlayer => members'[e][sid[q]] = NoPlayer)
      BY <3>2, <3>3, <1>6
    <3>5. PlayerKept(q) /\ (Posted(q) => Posted(q)')
      BY <1>9
    <3>6. QED
      BY <3>1, <3>2, <3>4, <3>5, <1>1, <1>8, JobKept
  <2>3. QED
    BY <2>1, <2>2
<1>12. Members'
  <2> SUFFICES ASSUME NEW e \in Groups, NEW j \in Ids PROVE MemberOf(e, j)'
    BY DEF Members
  <2>1. CASE e = g /\ j = i
    <3>1. Posted(p) => Posted(p)'
      BY <1>9
    <3>2. i # NoSession
      BY GroupAssumption
    <3>3. QED
      BY <2>1, <3>1, <3>2, <1>1, <1>4, <1>5, <1>6 DEF MemberOf
  <2>2. CASE e # g \/ j # i
    <3>1. PICK q \in Players \cup {NoPlayer} : q = members[e][j]
      BY <1>a DEF TypeOK
    <3>2. q # NoPlayer => PlayerKept(q)
      BY <1>9
    <3>3. q \in Players /\ Posted(q) => Posted(q)'
      BY <1>9
    <3>4. members'[e][j] = members[e][j]
      BY <2>2, <1>6
    <3>5. Erasing(j) => Erasing(j)' \/ LeftBehind(j)'
      BY <1>8 DEF Staged
    <3>6. QED
      BY <3>1, <3>2, <3>3, <3>4, <3>5, <1>8, MemberKept
  <2>3. QED
    BY <2>1, <2>2
<1>13. ASSUME NEW q \in Players, NEW e \in Groups, Knows(e, q) PROVE Knows(e, q)'
  <2>1. members[e][sid[q]] = q => members'[e][sid[q]] = q
    <3>1. sid[q] \in Ids /\ q # NoPlayer
      BY <1>a, GroupAssumption DEF TypeOK
    <3>2. QED
      BY <3>1, <1>5, <1>6
  <2>2. ASSUME NEW job \in Pending(e), job.player = q, job.type \in Enters
        PROVE  job \in Pending(e)' \/ members'[e][sid[q]] = q
    <3>1. CASE e = g
      <4>1. job \in Pending(g)' \/ job = head
        BY <2>2, <3>1, <1>a, <1>2, <1>7, LostJob
      <4>2. QED
        BY <4>1, <2>2, <3>1, <1>4, <1>6
    <3>2. CASE e # g
      BY <2>2, <3>2, <1>a, <1>7, SameJobs
    <3>3. QED
      BY <3>1, <3>2
  <2>3. sid'[q] = sid[q]
    BY <1>1
  <2>4. QED
    BY <2>1, <2>2, <2>3, <1>13, KnowsKept
<1>14. Known'
  BY <1>1, <1>13, KnownStays
<1>15. Homes'
  BY <1>1, <1>a DEF Homes
<1>16. HandOvers'
  <2>1. PICK q : q = Current(Login).player
    OBVIOUS
  <2>2. ASSUME pc[Login] # "idle"
        PROVE  Knows(ShardOf[sid[q]], q) => Knows(ShardOf[sid[q]], q)'
    <3>1. q \in Players /\ sid[q] \in Ids
      BY <2>1, <2>2, <1>a, HandOverJob DEF TypeOK
    <3>2. PICK h \in Groups : h = ShardOf[sid[q]]
      BY <3>1, GroupAssumption DEF Groups
    <3>3. Knows(h, q) => Knows(h, q)'
      BY <3>1, <1>13
    <3>4. QED
      BY <3>2, <3>3, <1>1 DEF Knows
  <2>3. QED
    BY <2>1, <2>2, <1>1, <1>8, HandOversKept
<1>17. QED
  BY <1>11, <1>12, <1>14, <1>15, <1>16 DEF Core

LEMMA EraseEffect ==
    ASSUME TypeOK, NEW g \in Groups, NEW i \in Ids, Erase(g, i)
    PROVE  /\ members'[g][i] = NoPlayer
           /\ \A e \in Groups, j \in Ids : e # g \/ j # i => members'[e][j] = members[e][j]
<1>1. CASE members[g][i] = NoPlayer
  BY <1>1 DEF Erase
<1>2. CASE members[g][i] # NoPlayer
  <2>1. members' = [members EXCEPT ![g][i] = NoPlayer]
    BY <1>2 DEF Erase
  <2>2. QED
    BY <2>1 DEF TypeOK
<1>3. QED
  BY <1>1, <1>2

(* The last job of a player but for packets that the login group will drop. *)
LEMMA FreedCore ==
    ASSUME Sound, NEW g \in Groups, OnLeave(g), group[Current(g).player] = g
    PROVE  Core'
<1>a. Typed /\ Tokens /\ TypeOK /\ Homes
  BY DEF Sound, Typed, Core
<1>1. /\ pc[g] = "idle" /\ local[g] # <<>> /\ Current(g).type = "LEAVE" /\ Pop(g)
      /\ UNCHANGED <<phase, mine, sid, group, pc, stale>>
  BY <1>a, OnLeaveTokens
<1>2. PICK p \in Players, i \in Sessions :
        /\ p = Current(g).player /\ i = sid[p] /\ mine[i] = p /\ phase[i] \in Left /\ avail[p] = 0
        /\ group[p] = g /\ \A h \in Groups : Leaves(h, p) => h = g
        /\ avail' = [avail EXCEPT ![p] = 1] /\ Erase(g, i) /\ UNCHANGED mailbox
  BY <1>a, OnLeaveTokens
<1>3. PICK head \in Pending(g) : head = Current(g) /\ head = Queue(g)[1]
  BY <1>1, <1>a, InQueue, QueueType
<1>4. head.type = "LEAVE" /\ head.player = p /\ g \in {Login, ShardOf[i]}
  <2>1. i # NoSession
    BY GroupAssumption
  <2>2. QED
    BY <2>1, <1>1, <1>2, <1>3, <1>a DEF Homes
<1>5. /\ members'[g][i] = NoPlayer
      /\ \A e \in Groups, j \in Ids : e # g \/ j # i => members'[e][j] = members[e][j]
  BY <1>a, <1>2, EraseEffect DEF Ids
<1>6. QueueLoses(g) /\ \A e \in Groups \ {g} : QueueSame(e)
  BY <1>a, <1>1, <1>2, Popped
<1>7. HeadStays /\ Staged /\ Grown /\ Behind
  <2>1. \A e \in Groups \ {g} : local'[e] = local[e]
    BY <1>1, <1>a DEF Pop, TypeOK
  <2>2. HeadStays
    BY <2>1, <1>1, <1>a, HeadUntouched
  <2>3. Grown
    BY <1>1 DEF Grown
  <2>4. QED
    BY <2>2, <2>3, <1>1, StageKept, BehindKept
<1>8. avail'[p] = 1 /\ \A q \in Players \ {p} : PlayerKept(q)
  BY <1>1, <1>2, <1>a DEF PlayerKept, TypeOK
<1>9. ~Posted(p)
  <2> SUFFICES ASSUME Posted(p) PROVE FALSE
    OBVIOUS
  <2>1. pc[Login] = "move" /\ Current(Login).player = p
    BY DEF Posted
  <2>2. group[p] = Login
    BY <2>1, HandOverJob
  <2>3. QED
    BY <2>1, <2>2, <1>1, <1>2
<1>10. ASSUME NEW e \in Groups, NEW job \in Pending(e)', job.player = p PROVE JobOf(e, job)'
  <2>1. job \in Pending(e)
    BY <1>1, <1>6, <1>10, RestInOrder
  <2>2. e # g
    <3> SUFFICES ASSUME e = g PROVE FALSE
      OBVIOUS
    <3>1. Precedes(head, job)
      BY <1>10, <1>a, <1>3, <1>6, LostJob DEF Sound, Core, Mailboxes
    <3>2. QED
      BY <3>1, <1>4, <1>10 DEF Precedes
  <2>3. ~Late(job)
    BY <2>1, <2>2, <1>2, <1>10, <1>a, JobPlayer, GroupAssumption DEF LateOf, Homes
  <2>4. /\ TimelyOf(e, job) /\ job \in Jobs
        /\ job.type = "PACKET" => job.packet.from = i /\ mine[i] = p
    BY <2>1, <2>3, <1>2, <1>10, JobPlayer
  <2>5. job.type # "LEAVE"
    BY <2>1, <2>2, <1>2, <1>10, <1>a, InQueue
  <2>6. job.type \in {"JOIN", "PACKET", "GROUP_ENTER"}
    BY <2>4, <2>5 DEF Jobs
  <2>7. e = Login /\ job.type = "PACKET" /\ i # NoSession /\ phase[i] \in Joined
    BY <2>2, <2>4, <2>6, <1>2, <1>4, <1>9, <1>10 DEF TimelyOf
  <2>8. ~Late(job)' /\ mine'[i] = p /\ phase'[i] = phase[i] /\ sid'[p] = i /\ group'[p] = g
    BY <2>4, <2>7, <1>1, <1>2, <1>10 DEF Late
  <2>9. TimelyOf(e, job)'
    BY <2>2, <2>7, <2>8, <1>10 DEF TimelyOf, Enters
  <2>10. QED
    BY <2>4, <2>7, <2>8, <2>9, <1>10 DEF JobOf
<1>11. Mailboxes'
  <2> SUFFICES ASSUME NEW e \in Groups
               PROVE  InOrder(e)' /\ \A job \in Pending(e)' : JobOf(e, job)'
    BY DEF Mailboxes
  <2>1. InOrder(e)' /\ Pending(e)' \subseteq Pending(e)
    BY <1>1, <1>6, RestInOrder
  <2>2. ASSUME NEW job \in Pending(e)', job.player # p PROVE JobOf(e, job)'
    <3>1. job \in Pending(e)
      BY <2>1, <2>2
    <3>2. PICK q \in Players \ {p} : q = job.player /\ sid[q] \in Ids
      BY <2>2, <3>1, JobPlayer
    <3>3. members[e][sid[q]] = NoPlayer => members'[e][sid[q]] = NoPlayer
      BY <3>2, <1>5
    <3>4. PlayerKept(q) /\ (Posted(q) => Posted(q)')
      BY <1>7, <1>8 DEF Staged
    <3>5. QED
      BY <3>1, <3>2, <3>3, <3>4, <1>1, <1>7, JobKept
  <2>3. QED
    BY <2>1, <2>2, <1>10
<1>12. Members'
  <2> SUFFICES ASSUME NEW e \in Groups, NEW j \in Ids PROVE MemberOf(e, j)'
    BY DEF Members
  <2>1. PICK q \in Players \cup {NoPlayer} : q = members[e][j]
    BY <1>a DEF TypeOK
  <2>2. CASE e = g /\ j = i
    BY <2>2, <1>5 DEF MemberOf
  <2>3. CASE (e # g \/ j # i) /\ q # p
    <3>1. q # NoPlayer => PlayerKept(q)
      BY <2>3, <1>8
    <3>2. q \in Players /\ Posted(q) => Posted(q)'
      BY <1>7 DEF Staged
    <3>3. members'[e][j] = members[e][j] /\ (Erasing(j) => Erasing(j)' \/ LeftBehind(j)')
      BY <2>3, <1>5, <1>7 DEF Staged
    <3>4. QED
      BY <2>1, <3>1, <3>2, <3>3, <1>7, MemberKept
  <2>4. CASE (e # g \/ j # i) /\ q = p
    <3>1. MemberOf(e, j) /\ p # NoPlayer
      BY GroupAssumption DEF Sound, Core, Members
    <3>2. j # NoSession /\ phase[j] \in Joined /\ e = Login /\ (Erasing(j) \/ LeftBehind(j))
      BY <2>1, <2>4, <3>1, <1>2, <1>9 DEF MemberOf
    <3>3. Erasing(j)' \/ LeftBehind(j)'
      BY <3>2, <1>7 DEF Staged, Behind
    <3>4. QED
      BY <3>2, <3>3, <1>1 DEF MemberOf
  <2>5. QED
    BY <2>2, <2>3, <2>4
<1>13. ASSUME NEW q \in Players \ {p}, NEW e \in Groups, Knows(e, q) PROVE Knows(e, q)'
  <2>1. sid[q] # i
    BY <1>2, <1>a, PlayerSession, GroupAssumption
  <2>2. sid[q] \in Ids
    BY <1>a DEF TypeOK
  <2>3. members'[e][sid[q]] = members[e][sid[q]]
    BY <2>1, <2>2, <1>5
  <2>4. ASSUME NEW job \in Pending(e), job.type \in Enters PROVE job \in Pending(e)'
    <3>1. e = g => job \in Pending(g)' \/ job = head
      BY <2>4, <1>a, <1>3, <1>6, LostJob
    <3>2. e # g => Pending(e)' = Pending(e)
      BY <1>a, <1>6, SameJobs
    <3>3. QED
      BY <2>4, <3>1, <3>2, <1>4 DEF Enters
  <2>5. sid'[q] = sid[q]
    BY <1>1
  <2>6. QED
    BY <2>3, <2>4, <2>5, <1>13, KnowsKept
<1>14. Known'
  <2>1. ASSUME NEW q \in Players, NEW e \in Groups, group'[q] = e, avail'[q] = 0
        PROVE  group[q] = e /\ avail[q] = 0 /\ (Knows(e, q) => Knows(e, q)')
    BY <2>1, <1>8, <1>13 DEF PlayerKept
  <2>2. QED
    BY <2>1, <1>1, KnownStays
<1>15. Homes'
  BY <1>1, <1>a DEF Homes
<1>16. HandOvers'
  <2>1. PICK q : q = Current(Login).player
    OBVIOUS
  <2>2. ASSUME pc[Login] = "move"
        PROVE  Knows(ShardOf[sid[q]], q) => Knows(ShardOf[sid[q]], q)'
    <3>1. q \in Players /\ sid[q] \in Ids
      BY <2>1, <2>2, <1>a, HandOverJob DEF TypeOK
    <3>2. q # p
      BY <2>1, <2>2, <1>9 DEF Posted
    <3>3. PICK h \in Groups : h = ShardOf[sid[q]]
      BY <3>1, GroupAssumption DEF Groups
    <3>4. Knows(h, q) => Knows(h, q)'
      BY <3>1, <3>2, <1>13
    <3>5. QED
      BY <3>3, <3>4, <1>1 DEF Knows
  <2>3. QED
    BY <2>1, <2>2, <1>1, <1>7, HandOversKept
<1>17. QED
  BY <1>11, <1>12, <1>14, <1>15, <1>16 DEF Core

(* The player gets the echo group that has its GROUP_ENTER; the login group  *)
(* is about to erase its entry.                                             *)
LEMMA MoveCore ==
    ASSUME Sound, Move("move", "erase")
    PROVE  Core'
<1>a. Typed /\ Tokens /\ TypeOK /\ Homes /\ Login \in Groups
  BY DEF Sound, Typed, Core, Groups
<1>1. /\ pc[Login] = "move" /\ pc'[Login] = "erase"
      /\ group' = [group EXCEPT ![Current(Login).player] = Target(Current(Login).player)]
      /\ UNCHANGED <<phase, mine, sid, avail, members, local, mailbox, stale>>
  BY <1>a DEF Move, engineVars, TypeOK
<1>2. PICK head \in Pending(Login), p \in Players, i \in Sessions :
         /\ head = Current(Login) /\ ~Late(head) /\ p = head.player /\ group[p] = Login
         /\ avail[p] = 0 /\ i = sid[p] /\ head.packet.from = i /\ local[Login] # <<>>
         /\ head.type = "PACKET"
  BY <1>1, HandOverJob
<1>3. PICK h \in Groups : h = ShardOf[i] /\ h = Target(p) /\ h # Login
  BY <1>2, GroupAssumption DEF Groups, Ids, Target
<1>4. Knows(h, p) /\ phase[i] \in Joined /\ mine[i] = p
  <2>1. HandOverOf(head)
    BY <1>1, <1>2, HandOverJob
  <2>2. Knows(ShardOf[sid[p]], p)
    BY <2>1, <1>1, <1>2 DEF HandOverOf
  <2>3. QED
    BY <2>2, <1>2, <1>3, JobPlayer, <1>a
<1>5. group'[p] = h /\ \A q \in Players \ {p} : PlayerKept(q)
  BY <1>1, <1>2, <1>3, <1>a DEF PlayerKept, TypeOK
<1>6. Grown /\ Behind /\ \A g \in Groups : QueueSame(g)
  BY <1>1, BehindKept, Kept DEF Grown
<1>7. \A q \in Players \ {p} : ~Posted(q)
  BY <1>2 DEF Posted
<1>8. Current(Login)' = head /\ Erasing(i)' /\ \A j : ~Erasing(j)
  BY <1>1, <1>2 DEF Current, Erasing
<1>9. ASSUME NEW g \in Groups, NEW job \in Pending(g), job.player = p PROVE JobOf(g, job)'
  <2>1. ASSUME g = Login PROVE ~Late(job) /\ job.type \notin Enters
    <3>1. job = head \/ Precedes(head, job)
      BY <2>1, <1>a, <1>2, HeadFirst
    <3>2. QED
      BY <3>1, <1>2, <1>9 DEF Precedes, Enters
  <2>2. ~Late(job)
    BY <2>1, <1>9, JobPlayer DEF LateOf
  <2>3. /\ TimelyOf(g, job) /\ job \in Jobs
        /\ job.type = "PACKET" => job.packet.from = i
    BY <2>2, <1>2, <1>9, JobPlayer
  <2>4. i # NoSession /\ g \in {Login, h} /\ (g = h => job.type # "JOIN")
    BY <2>3, <1>2, <1>3, <1>9 DEF TimelyOf
  <2>5. job.type \in Enters => members[g][i] = NoPlayer
    BY <2>3, <1>2, <1>9 DEF TimelyOf
  <2>6. TimelyOf(g, job)'
    BY <2>1, <2>3, <2>4, <2>5, <1>1, <1>2, <1>3, <1>4, <1>5, <1>9 DEF TimelyOf, Enters
  <2>7. ~Late(job)'
    BY <2>2, <1>1 DEF Late
  <2>8. QED
    BY <2>3, <2>4, <2>6, <2>7, <1>1, <1>4, <1>9 DEF JobOf
<1>10. Mailboxes'
  <2> SUFFICES ASSUME NEW g \in Groups
               PROVE  InOrder(g)' /\ \A job \in Pending(g)' : JobOf(g, job)'
    BY DEF Mailboxes
  <2>1. InOrder(g)' /\ Pending(g)' \subseteq Pending(g)
    BY <1>1, <1>6, RestInOrder
  <2>2. ASSUME NEW job \in Pending(g), job.player # p PROVE JobOf(g, job)'
    <3>1. PICK q \in Players \ {p} : q = job.player
      BY <2>2, JobPlayer
    <3>2. PlayerKept(q) /\ ~Posted(q)
      BY <1>5, <1>7
    <3>3. QED
      BY <3>1, <3>2, <1>1, <1>6, JobKept
  <2>3. QED
    BY <2>1, <2>2, <1>9
<1>11. Members'
  <2> SUFFICES ASSUME NEW g \in Groups, NEW j \in Ids PROVE MemberOf(g, j)'
    BY DEF Members
  <2>1. PICK q \in Players \cup {NoPlayer} : q = members[g][j]
    BY <1>a DEF TypeOK
  <2>2. CASE q # p
    <3>1. q # NoPlayer => PlayerKept(q)
      BY <2>2, <1>5
    <3>2. q \in Players /\ Posted(q) => Posted(q)'
      BY <2>2, <1>7
    <3>3. members'[g][j] = members[g][j] /\ (Erasing(j) => Erasing(j)' \/ LeftBehind(j)')
      BY <1>1, <1>8
    <3>4. QED
      BY <2>1, <3>1, <3>2, <3>3, <1>6, MemberKept
  <2>3. CASE q = p
    <3>1. MemberOf(g, j) /\ p # NoPlayer
      BY GroupAssumption DEF Sound, Core, Members
    <3>2. /\ j # NoSession /\ phase[j] \in Joined
          /\ g # Login => g = ShardOf[j] /\ j = i
          /\ g = Login => j = i \/ LeftBehind(j)
      BY <2>1, <2>3, <3>1, <1>2, <1>8 DEF MemberOf
    <3>3. g = Login => Erasing(j)' \/ LeftBehind(j)'
      BY <3>2, <1>6, <1>8 DEF Behind
    <3>4. QED
      BY <2>1, <2>3, <3>2, <3>3, <1>1, <1>2, <1>3, <1>5 DEF MemberOf
  <2>4. QED
    BY <2>2, <2>3
<1>12. ASSUME NEW q \in Players, NEW g \in Groups, Knows(g, q) PROVE Knows(g, q)'
  <2>1. sid'[q] = sid[q] /\ members' = members /\ Pending(g)' = Pending(g)
    BY <1>a, <1>1, <1>6, SameJobs
  <2>2. QED
    BY <2>1, <1>12, KnowsKept
<1>13. Known'
  <2>1. ASSUME NEW q \in Players, NEW g \in Groups, group'[q] = g, avail'[q] = 0
        PROVE  Knows(g, q)' \/ (group[q] = g /\ avail[q] = 0 /\ (Knows(g, q) => Knows(g, q)'))
    <3>1. CASE q = p
      BY <2>1, <3>1, <1>4, <1>5, <1>12
    <3>2. CASE q # p
      BY <2>1, <3>2, <1>5, <1>12 DEF PlayerKept
    <3>3. QED
      BY <3>1, <3>2
  <2>2. QED
    BY <2>1, <1>1, KnownStays
<1>14. Homes'
  <2>1. ASSUME NEW j \in Sessions, phase[j] = "insert" PROVE mine[j] \in Players \ {p}
    <3>1. mine[j] \in Players /\ sid[mine[j]] = j
      BY <2>1, <1>a, OwnPlayer DEF Owner, HasPlayer
    <3>2. QED
      BY <3>1, <2>1, <1>2, <1>4 DEF Joined
  <2>2. i # NoSession
    BY GroupAssumption
  <2>3. Homes
    BY DEF Sound, Core
  <2>4. \A j \in Sessions : phase'[j] = "insert" => group'[mine'[j]] = Login
    BY <2>1, <2>3, <1>1, <1>5 DEF Homes, PlayerKept
  <2>5. ASSUME NEW q \in Players
        PROVE  group'[q] \in IF sid'[q] = NoSession THEN {NoGroup} ELSE {Login, ShardOf[sid'[q]]}
    <3>1. CASE q = p
      BY <2>2, <3>1, <1>1, <1>2, <1>3, <1>5
    <3>2. CASE q # p
      BY <2>3, <3>2, <1>5 DEF Homes, PlayerKept
    <3>3. QED
      BY <3>1, <3>2
  <2>6. QED
    BY <2>4, <2>5 DEF Homes
<1>15. HandOvers'
  <2>1. HandOverOf(head)'
    BY <1>1, <1>2, <1>3, <1>5 DEF HandOverOf
  <2>2. QED
    BY <2>1, <1>8 DEF HandOvers
<1>16. QED
  BY <1>10, <1>11, <1>13, <1>14, <1>15 DEF Core

(* The entry that goes is the one of the player that has moved, or none: a   *)
(* player that has another session is not in the login group yet.           *)
LEMMA EraseMovedCore ==
    ASSUME Sound, EraseMoved, stale \subseteq stale'
    PROVE  Core'
<1>a. Typed /\ Tokens /\ TypeOK /\ Homes /\ Login \in Groups
  BY DEF Sound, Typed, Core, Groups
<1>1. /\ pc[Login] = "erase" /\ pc'[Login] = "reply"
      /\ Erase(Login, sid[Current(Login).player])
      /\ Use("erase", Current(Login).packet.from, Current(Login).player)
      /\ UNCHANGED <<phase, mine, sid, group, avail, local, mailbox>>
  BY <1>a DEF EraseMoved, engineVars, playerVars, TypeOK
<1>2. PICK head \in Pending(Login), p \in Players, i \in Ids :
         /\ head = Current(Login) /\ p = head.player /\ i = sid[p]
         /\ Late(head) \/ group[p] # Login
  BY <1>1, <1>a, HandOverJob DEF HandOverOf, TypeOK
<1>3. /\ members'[Login][i] = NoPlayer
      /\ \A g \in Groups, j \in Ids : g # Login \/ j # i => members'[g][j] = members[g][j]
  BY <1>a, <1>1, <1>2, EraseEffect
<1>4. Grown /\ Behind /\ \A g \in Groups : QueueSame(g)
  BY <1>1, BehindKept, Kept DEF Grown
<1>5. \A q \in Players : PlayerKept(q) /\ ~Posted(q)
  BY <1>1 DEF PlayerKept, Posted
<1>6. ASSUME NEW j \in Ids, Erasing(j), j # i PROVE LeftBehind(j)'
  <2>1. j = head.packet.from
    BY <1>2, <1>6 DEF Erasing
  <2>2. stale' = stale \cup {<<"erase", j, i>>}
    BY <2>1, <1>1, <1>2, <1>6 DEF Use
  <2>3. QED
    BY <2>2 DEF LeftBehind
<1>7. Mailboxes'
  <2> SUFFICES ASSUME NEW g \in Groups
               PROVE  InOrder(g)' /\ \A job \in Pending(g)' : JobOf(g, job)'
    BY DEF Mailboxes
  <2>1. InOrder(g)' /\ Pending(g)' \subseteq Pending(g)
    BY <1>1, <1>4, RestInOrder
  <2>2. ASSUME NEW job \in Pending(g) PROVE JobOf(g, job)'
    <3>1. PICK q \in Players : q = job.player /\ sid[q] \in Ids
      BY JobPlayer
    <3>2. PlayerKept(q) /\ ~Posted(q)
      BY <1>5
    <3>3. members[g][sid[q]] = NoPlayer => members'[g][sid[q]] = NoPlayer
      BY <3>1, <1>3
    <3>4. QED
      BY <3>1, <3>2, <3>3, <1>1, <1>4, JobKept
  <2>3. QED
    BY <2>1, <2>2
<1>8. Members'
  <2> SUFFICES ASSUME NEW g \in Groups, NEW j \in Ids PROVE MemberOf(g, j)'
    BY DEF Members
  <2>1. PICK q \in Players \cup {NoPlayer} : q = members[g][j]
    BY <1>a DEF TypeOK
  <2>2. CASE g = Login /\ j = i
    BY <2>2, <1>3 DEF MemberOf
  <2>3. CASE g # Login \/ j # i
    <3>1. q # NoPlayer => PlayerKept(q)
      BY <1>5
    <3>2. q \in Players => ~Posted(q)
      BY <1>5
    <3>3. members'[g][j] = members[g][j]
      BY <2>3, <1>3
    <3>4. g = Login /\ Erasing(j) => LeftBehind(j)'
      BY <2>3, <1>6
    <3>5. QED
      BY <2>1, <3>1, <3>2, <3>3, <3>4, <1>4, MemberKept
  <2>4. QED
    BY <2>2, <2>3
<1>9. ASSUME NEW q \in Players, NEW g \in Groups, group[q] = g, members[g][sid[q]] = q
      PROVE  members'[g][sid[q]] = q
  <2>1. sid[q] \in Ids /\ q # NoPlayer
    BY <1>a, GroupAssumption DEF TypeOK
  <2>2. ASSUME g = Login, sid[q] = i PROVE FALSE
    <3>1. MemberOf(Login, i)
      BY <1>a DEF Sound, Core, Members
    <3>2. i # NoSession
      BY <2>1, <2>2, <3>1, <1>9 DEF MemberOf
    <3>3. q = p
      BY <2>2, <3>2, <1>2, <1>a, PlayerSession
    <3>4. Late(head)
      BY <2>2, <3>3, <1>2, <1>9
    <3>5. members[Login][i] = NoPlayer
      BY <3>4, <1>2, <1>a, JobPlayer DEF LateOf
    <3>6. QED
      BY <2>1, <2>2, <3>5, <1>9
  <2>3. QED
    BY <2>1, <2>2, <1>3, <1>9
<1>10. Known'
  <2>1. ASSUME NEW q \in Players, NEW g \in Groups, group[q] = g, Knows(g, q) PROVE Knows(g, q)'
    <3>1. sid'[q] = sid[q] /\ Pending(g)' = Pending(g)
      BY <1>a, <1>1, <1>4, SameJobs
    <3>2. members[g][sid[q]] = q => members'[g][sid[q]] = q
      BY <2>1, <1>9
    <3>3. QED
      BY <2>1, <3>1, <3>2, KnowsKept
  <2>2. ASSUME NEW q \in Players, NEW g \in Groups, group'[q] = g, avail'[q] = 0
        PROVE  group[q] = g /\ avail[q] = 0 /\ (Knows(g, q) => Knows(g, q)')
    BY <2>1, <2>2, <1>1
  <2>3. QED
    BY <2>2, <1>1, KnownStays
<1>11. Homes'
  BY <1>1, <1>a DEF Homes
<1>12. HandOvers'
  <2>1. Current(Login)' = head
    BY <1>1, <1>2 DEF Current
  <2>2. HandOverOf(head)'
    BY <1>1, <1>2 DEF HandOverOf, Late
  <2>3. QED
    BY <2>1, <2>2 DEF HandOvers
<1>13. QED
  BY <1>7, <1>8, <1>10, <1>11, <1>12 DEF Core

LEMMA InitCore ==
    ASSUME Init
    PROVE  Tokens /\ Core
<1>a. TypeOK /\ Login \in Groups
  BY InitTyped DEF Typed, Groups
<1>1. /\ phase = [i \in Sessions |-> "new"] /\ mine = [i \in Sessions |-> NoPlayer]
      /\ map = [i \in Sessions |-> NoPlayer] /\ sid = [p \in Players |-> NoSession]
      /\ group = [p \in Players |-> NoGroup] /\ avail = [p \in Players |-> 1]
      /\ pc = [g \in Groups |-> "idle"] /\ members = [g \in Groups |-> [i \in Ids |-> NoPlayer]]
  BY DEF Init
<1>2. \A g \in Groups : Len(Queue(g)) = 0 /\ Queue(g) = <<>> /\ Pending(g) = {}
  <2>1. ASSUME NEW g \in Groups PROVE Queue(g) = <<>>
    BY Concat DEF Init, Queue
  <2>2. QED
    BY <2>1 DEF Pending
<1>3. \A g \in Groups : \A p : ~Leaves(g, p)
  BY <1>2, <1>a, InQueue
<1>4. Tokens
  <2>1. \A i \in Sessions : SessionOf(i)
    BY <1>1 DEF SessionOf, Owner, HasPlayer
  <2>2. \A p \in Players : PlayerOf(p)
    BY <1>1, <1>3 DEF PlayerOf
  <2>3. \A g \in Groups : LeavesOnce(g)
    BY <1>2 DEF LeavesOnce
  <2>4. QED
    BY <2>1, <2>2, <2>3 DEF Tokens
<1>5. Homes
  BY <1>1 DEF Homes
<1>6. Mailboxes
  BY <1>2 DEF Mailboxes, InOrder
<1>7. Members
  BY <1>1 DEF Members, MemberOf
<1>8. Known
  BY <1>1, GroupAssumption DEF Known
<1>9. HandOvers
  BY <1>1, <1>a DEF HandOvers
<1>10. QED
  BY <1>4, <1>5, <1>6, <1>7, <1>8, <1>9 DEF Core

LEMMA LoginCore ==
    ASSUME Sound, LoginStep, NoStrayPacket', stale \subseteq stale'
    PROVE  Core'
<1>a. Login \in Groups
  BY DEF Groups
<1>1. CASE LatePacket \/ Refuse
  BY <1>1, <1>a, PacketCore DEF LatePacket, Refuse, engineVars, playerVars
<1>2. QED
  BY LoginStep, <1>1, AcceptedCore, HandOverCore, MoveCore, EraseMovedCore, ReplyCore DEF LoginStep

LEMMA ContentCore ==
    ASSUME Sound, NEW g \in Groups, ContentThread(g), NoStrayPacket', stale \subseteq stale'
    PROVE  Core'
<1>1. CASE Echo(g) \/ Reject(g)
  BY <1>1, PacketCore DEF Echo, Reject, engineVars
<1>2. CASE OnLeave(g)
  BY <1>2, ForwardCore, FreedCore
<1>3. QED
  BY ContentThread(g), <1>1, <1>2, DrainCore, OnEnterCore, LoginCore DEF ContentThread

LEMMA EngineCore ==
    ASSUME Sound, NEW i \in Sessions, Engine(i), NoStrayFree'
    PROVE  Core'
BY Engine(i), JoinAllocCore, JoinInitCore, JoinInsertCore, OnRecvCore, OnClientLeaveCore,
   LeaveCheckCore, TransmitCore DEF Engine

LEMMA InitPlayers == Init => PlayerInv
BY InitTyped, InitCore DEF PlayerInv

LEMMA NextPlayers ==
    ASSUME PlayerInv, [Next]_vars
    PROVE  PlayerInv'
<1>1. Typed /\ Typed'
  BY NextTyped DEF PlayerInv
<1>2. /\ stale \subseteq stale'
      /\ NoStrayFree' => NoStrayFree
      /\ NoStrayPacket' => NoStrayPacket
  BY StaleGrows
<1>3. ASSUME UNCHANGED vars PROVE UNCHANGED <<phase, mine, map, sid, group, avail, members, pc, local,
                                              mailbox, stale>>
  BY <1>3 DEF vars, engineVars, playerVars, groupVars
<1>4. ASSUME NoStrayFree' PROVE Tokens'
  <2>1. Tokens
    BY <1>2, <1>4 DEF PlayerInv
  <2>2. CASE UNCHANGED vars
    <3>1. \A g \in Groups : LeavesKept(g)
      BY <2>1, <2>2, <1>1, <1>3, Kept, QuietQueue
    <3>2. QED
      BY <2>1, <2>2, <3>1, <1>1, <1>3, TokensKept
  <2>3. ASSUME NEW i \in Sessions, Engine(i) PROVE Tokens'
    BY <2>1, <2>3, <1>1, <1>4, EngineTokens
  <2>4. ASSUME NEW g \in Groups, ContentThread(g) PROVE Tokens'
    BY <2>1, <2>4, <1>1, ContentTokens
  <2>5. QED
    BY <2>2, <2>3, <2>4 DEF Next
<1>5. ASSUME NoStrayFree', NoStrayPacket' PROVE Core'
  <2>1. Sound
    BY <1>1, <1>2, <1>5 DEF PlayerInv, Sound
  <2>2. CASE UNCHANGED vars
    <3>1. Grown /\ HeadStays /\ \A g \in Groups : QueueSame(g)
      BY <2>2, <1>3, EngineHead, Kept DEF Grown
    <3>2. QED
      BY <2>1, <2>2, <3>1, <1>3, QuietCore
  <2>3. ASSUME NEW i \in Sessions, Engine(i) PROVE Core'
    BY <2>1, <2>3, <1>5, EngineCore
  <2>4. ASSUME NEW g \in Groups, ContentThread(g) PROVE Core'
    BY <2>1, <2>4, <1>2, <1>5, ContentCore
  <2>5. QED
    BY <2>2, <2>3, <2>4 DEF Next
<1>6. QED
  BY <1>1, <1>4, <1>5 DEF PlayerInv

(* The players' part of the inductive invariant, for a pool that reuses them. *)
THEOREM SpecPlayerInv == Spec => []PlayerInv
<1>1. Init => PlayerInv
  BY InitPlayers
<1>2. PlayerInv /\ [Next]_vars => PlayerInv'
  BY NextPlayers
<1>3. QED
  BY <1>1, <1>2, PTL DEF Spec

(* The maps, the mailboxes and the players keep their types. *)
THEOREM GroupTypes == Spec => []TypeOK
<1>1. PlayerInv => TypeOK
  BY DEF PlayerInv, Typed
<1>2. QED
  BY <1>1, SpecPlayerInv, PTL

(* While no worker has freed the player of another session in OnClientLeave,  *)
(* the pool gets no player twice, nor one that a session, a LEAVE or the map  *)
(* still has: the job LEAVE is the one right to free it.                     *)
THEOREM PlayersAreFreedOnce == Spec => []FreedOnce
<1>1. PlayerInv => FreedOnce
  <2> SUFFICES ASSUME Typed, Tokens, NEW p \in Players
               PROVE  /\ avail[p] <= 1
                      /\ \A i \in Sessions : HasPlayer(i) /\ mine[i] = p =>
                             /\ avail[p] = 0 /\ \A g \in Groups : ~Leaves(g, p)
                             /\ \A j \in Sessions : HasPlayer(j) /\ mine[j] = p => i = j
                      /\ \A g \in Groups : Leaves(g, p) =>
                             avail[p] = 0 /\ \A h \in Groups : Leaves(h, p) => g = h
    BY DEF PlayerInv, FreedOnce
  <2>1. PlayerOf(p)
    BY DEF Tokens
  <2>2. \A i \in Sessions : HasPlayer(i) => Owner(i)
    BY DEF Owner
  <2>3. QED
    BY <2>1, <2>2, OwnPlayer DEF PlayerOf
<1>2. QED
  BY <1>1, SpecPlayerInv, PTL

(* A player that is in a group is known to it, or has its entry in the queue *)
(* before the job: the order of the steps of handleLogin is enough, also for  *)
(* players that are reused.                                                 *)
LEMMA EntryFirst ==
    ASSUME Sound, NEW g \in Groups, NEW k \in DOMAIN Queue(g),
           NEW job, job = Queue(g)[k], NEW p, p = job.player, group[p] = g,
           job.type = "LEAVE" \/ (job.type = "PACKET" /\ job.packet.from = sid[p])
    PROVE  \/ members[g][sid[p]] = p
           \/ \E j \in 1..(k - 1) : Queue(g)[j].player = p /\ Queue(g)[j].type \in Enters
<1>a. Typed /\ Tokens /\ TypeOK
  BY DEF Sound, Typed
<1>1. PICK n \in Nat : n = Len(Queue(g)) /\ DOMAIN Queue(g) = 1 .. n
  BY <1>a, QueueType
<1>2. k \in 1 .. n /\ Pending(g) = {Queue(g)[j] : j \in 1 .. n}
  BY <1>1 DEF Pending
<1>3. job \in Pending(g)
  BY <1>2
<1>4. p \in Players /\ ~Late(job) /\ TimelyOf(g, job) /\ phase[sid[p]] \in Joined
  BY <1>3, JobPlayer DEF Late
<1>5. avail[p] = 0
  <2>1. avail[p] \in Nat
    BY <1>4, <1>a DEF TypeOK
  <2>2. QED
    BY <1>4, <2>1 DEF TimelyOf
<1>6. Knows(g, p)
  BY <1>4, <1>5 DEF Sound, Core, Known
<1>7. ASSUME NEW enter \in Pending(g), enter.player = p, enter.type \in Enters
      PROVE  \E j \in 1..(k - 1) : Queue(g)[j].player = p /\ Queue(g)[j].type \in Enters
  <2>1. PICK j \in 1 .. n : Queue(g)[j] = enter
    BY <1>2, <1>7
  <2>2. j # k
    BY <2>1, <1>7 DEF Enters
  <2>3. ASSUME k \in 1 .. j - 1 PROVE FALSE
    <3>1. Precedes(job, enter)
      BY <2>1, <2>3, <1>1 DEF Sound, Core, Mailboxes, InOrder
    <3>2. QED
      BY <3>1, <1>4, <1>7 DEF Precedes
  <2>4. j \in 1 .. k - 1
    BY <2>2, <2>3, <1>2
  <2>5. QED
    BY <2>1, <2>4, <1>7
<1>8. QED
  BY <1>6, <1>7 DEF Knows

THEOREM GroupsHearEntryFirst == Spec => []EnterFirst
<1>1. PlayerInv => EnterFirst
  <2> SUFFICES ASSUME PlayerInv, NoStrayFree, NoStrayPacket, NEW g \in Groups,
                      NEW k \in DOMAIN Queue(g), NEW job, job = Queue(g)[k],
                      NEW p, p = job.player, group[p] = g,
                      job.type = "LEAVE" \/ (job.type = "PACKET" /\ job.packet.from = sid[p])
               PROVE  \/ members[g][sid[p]] = p
                      \/ \E j \in 1..(k - 1) : /\ Queue(g)[j].player = p
                                               /\ Queue(g)[j].type \in {"JOIN", "GROUP_ENTER"}
    BY DEF EnterFirst
  <2>1. Sound
    BY DEF PlayerInv, Sound
  <2>2. QED
    BY <2>1, EntryFirst DEF Enters
<1>2. QED
  BY <1>1, SpecPlayerInv, PTL

(* A player that was freed is in no map, but for the entry the login group    *)
(* leaves behind when it erases under the id of the player's next session,    *)
(* and only in packets that the login group drops.                          *)
THEOREM FreedPlayersAreForgotten == Spec => []NoDangling
<1>1. PlayerInv => NoDangling
  <2> SUFFICES ASSUME PlayerInv, NoStrayFree, NoStrayPacket
               PROVE  /\ \A i \in Sessions : map[i] # NoPlayer => Has(i, map[i])
                      /\ \A g \in Groups, i \in Ids : members[g][i] # NoPlayer =>
                             Has(i, members[g][i]) \/ (g = Login /\ (Erasing(i) \/ LeftBehind(i)))
                      /\ \A g \in Groups : \A k \in DOMAIN Queue(g) :
                             LET job == Queue(g)[k]
                             IN  avail[job.player] > 0 =>
                                     g = Login /\ job.type = "PACKET" /\ Moved(job.player)
    BY DEF NoDangling
  <2>1. Sound /\ Typed /\ Tokens /\ TypeOK
    BY DEF PlayerInv, Sound, Typed
  <2>2. ASSUME NEW i \in Sessions, map[i] # NoPlayer PROVE Has(i, map[i])
    <3>1. SessionOf(i) /\ Owner(i)
      BY <2>1, <2>2 DEF Tokens, Owner
    <3>2. map[i] = mine[i] /\ phase[i] # "init"
      BY <2>2, <3>1 DEF SessionOf
    <3>3. QED
      BY <2>1, <3>1, <3>2, OwnPlayer DEF Has
  <2>3. ASSUME NEW g \in Groups, NEW i \in Ids, members[g][i] # NoPlayer
        PROVE  Has(i, members[g][i]) \/ (g = Login /\ (Erasing(i) \/ LeftBehind(i)))
    <3>1. MemberOf(g, i)
      BY <2>1 DEF Sound, Core, Members
    <3>2. QED
      BY <2>3, <3>1 DEF MemberOf, Has
  <2>4. ASSUME NEW g \in Groups, NEW k \in DOMAIN Queue(g), NEW job, job = Queue(g)[k],
               avail[job.player] > 0
        PROVE  g = Login /\ job.type = "PACKET" /\ Moved(job.player)
    <3>1. job \in Pending(g)
      <4>1. PICK n \in Nat : n = Len(Queue(g)) /\ DOMAIN Queue(g) = 1 .. n
        BY <2>1, QueueType
      <4>2. QED
        BY <2>4, <4>1 DEF Pending
    <3>2. ~Late(job)
      BY <2>1, <2>4, <3>1, JobPlayer DEF LateOf
    <3>3. QED
      BY <2>1, <2>4, <3>1, <3>2, JobPlayer DEF TimelyOf, Moved
  <2>5. QED
    BY <2>2, <2>3, <2>4
<1>2. QED
  BY <1>1, SpecPlayerInv, PTL

-----------------------------------------------------------------------------
(* mPlayerCount.                                                            *)

InMap(g) == {i \in Ids : members[g][i] # NoPlayer}
Counted  == \A g \in Groups : count[g] = Cardinality(InMap(g))

LEMMA InMapFinite == \A g \in Groups : IsFiniteSet(InMap(g)) /\ Cardinality(InMap(g)) \in Nat
<1>1. IsFiniteSet(Ids)
  BY GroupAssumption, FS_AddElement DEF Ids
<1>2. \A g \in Groups : InMap(g) \subseteq Ids
  BY DEF InMap
<1>3. QED
  BY <1>1, <1>2, FS_Subset, FS_CardinalityType

LEMMA CountKept ==
    ASSUME Counted, UNCHANGED <<members, count>>
    PROVE  Counted'
BY DEF Counted, InMap

LEMMA CountChanged ==
    ASSUME TypeOK, Counted, NEW g \in Groups, NEW d \in Int,
           count'[g] = count[g] + d, \A h \in Groups \ {g} : count'[h] = count[h],
           Cardinality(InMap(g)') = Cardinality(InMap(g)) + d,
           \A h \in Groups \ {g} : InMap(h)' = InMap(h)
    PROVE  Counted'
<1> SUFFICES ASSUME NEW h \in Groups PROVE count'[h] = Cardinality(InMap(h)')
  BY DEF Counted, InMap
<1>1. count[h] = Cardinality(InMap(h)) /\ count[g] = Cardinality(InMap(g))
  BY DEF Counted
<1>2. CASE h = g
  BY <1>1, <1>2
<1>3. CASE h # g
  BY <1>1, <1>3
<1>4. QED
  BY <1>2, <1>3

LEMMA EnterCounted ==
    ASSUME Sound, Counted, NEW g \in Groups, OnEnter(g)
    PROVE  Counted'
<1>a. TypeOK
  BY DEF Sound, Typed
<1>1. local[g] # <<>> /\ Current(g).type \in Enters /\ count' = [count EXCEPT ![g] = @ + 1]
  BY DEF OnEnter, At, Enters
<1>2. PICK head \in Pending(g) : head = Current(g)
  BY <1>1, <1>a, InQueue
<1>3. PICK p \in Players, i \in Ids : p = head.player /\ i = sid[p] /\ TimelyOf(g, head)
  BY <1>1, <1>2, JobPlayer DEF Late, Enters
<1>4. members' = [members EXCEPT ![g][i] = p] /\ members[g][i] = NoPlayer /\ p # NoPlayer
  BY <1>1, <1>2, <1>3, GroupAssumption DEF OnEnter, TimelyOf
<1>5. /\ members'[g][i] = p
      /\ \A h \in Groups, j \in Ids : h # g \/ j # i => members'[h][j] = members[h][j]
  BY <1>4, <1>a DEF TypeOK
<1>6. InMap(g)' = InMap(g) \cup {i} /\ i \notin InMap(g)
  BY <1>4, <1>5 DEF InMap
<1>7. \A h \in Groups \ {g} : InMap(h)' = InMap(h)
  BY <1>5 DEF InMap
<1>8. Cardinality(InMap(g)') = Cardinality(InMap(g)) + 1
  BY <1>6, InMapFinite, FS_AddElement
<1>9. count'[g] = count[g] + 1 /\ \A h \in Groups \ {g} : count'[h] = count[h]
  BY <1>1, <1>a DEF TypeOK
<1>10. QED
  BY <1>7, <1>8, <1>9, <1>a, CountChanged

LEMMA EraseCounted ==
    ASSUME TypeOK, Counted, NEW g \in Groups, NEW i \in Ids, Erase(g, i)
    PROVE  Counted'
<1>1. CASE members[g][i] = NoPlayer
  BY <1>1, CountKept DEF Erase
<1>2. CASE members[g][i] # NoPlayer
  <2>1. count' = [count EXCEPT ![g] = @ - 1]
    BY <1>2 DEF Erase
  <2>2. /\ members'[g][i] = NoPlayer
        /\ \A h \in Groups, j \in Ids : h # g \/ j # i => members'[h][j] = members[h][j]
    BY EraseEffect
  <2>3. InMap(g)' = InMap(g) \ {i} /\ i \in InMap(g)
    BY <1>2, <2>2 DEF InMap
  <2>4. \A h \in Groups \ {g} : InMap(h)' = InMap(h)
    BY <2>2 DEF InMap
  <2>5. IsFiniteSet(InMap(g))
    BY InMapFinite
  <2>6. PICK n \in Nat, m \in Nat : n = Cardinality(InMap(g)) /\ m = Cardinality(InMap(g) \ {i})
    BY <2>5, FS_CardinalityType, FS_RemoveElement
  <2>7. m = n - 1
    BY <2>3, <2>5, <2>6, FS_RemoveElement
  <2>8. Cardinality(InMap(g)') = Cardinality(InMap(g)) + (-1)
    BY <2>3, <2>6, <2>7
  <2>9. count'[g] = count[g] + (-1) /\ \A h \in Groups \ {g} : count'[h] = count[h]
    BY <2>1 DEF TypeOK
  <2>10. QED
    BY <2>4, <2>8, <2>9, CountChanged
<1>3. QED
  BY <1>1, <1>2

LEMMA NextCounted ==
    ASSUME Sound, Counted, [Next]_vars
    PROVE  Counted'
<1>a. Typed /\ Tokens /\ TypeOK /\ Login \in Groups
  BY DEF Sound, Typed, Groups
<1> USE DEF groupVars
<1>1. CASE UNCHANGED vars
  BY <1>1, CountKept DEF vars
<1>2. ASSUME NEW i \in Sessions, Engine(i) PROVE Counted'
  <2>1. UNCHANGED <<members, count>>
    BY <1>2 DEF Engine, JoinAlloc, JoinInit, JoinInsert, OnRecv, OnClientLeave, LeaveCheck, Transmit
  <2>2. QED
    BY <2>1, CountKept
<1>3. ASSUME NEW g \in Groups, ContentThread(g) PROVE Counted'
  <2>1. CASE OnEnter(g)
    BY <2>1, EnterCounted
  <2>2. CASE OnLeave(g)
    <3>1. PICK i \in Sessions : Erase(g, i) \/ UNCHANGED <<members, count>>
      BY <2>2, <1>a, OnLeaveTokens
    <3>2. QED
      BY <3>1, <1>a, EraseCounted, CountKept DEF Ids
  <2>3. CASE EraseMoved
    <3>1. PICK i \in Ids : i = sid[Current(Login).player]
      BY <2>3, <1>a, HandOverJob DEF EraseMoved, TypeOK
    <3>2. Erase(Login, i)
      BY <2>3, <3>1 DEF EraseMoved
    <3>3. QED
      BY <3>2, <1>a, EraseCounted
  <2>4. CASE \/ Drain(g) \/ LatePacket \/ Refuse \/ Accepted \/ HandOver("handOver", "move")
             \/ Move("move", "erase") \/ Reply \/ Echo(g) \/ Reject(g)
    <3>1. UNCHANGED <<members, count>>
      BY <2>4 DEF Drain, LatePacket, Refuse, Accepted, HandOver, Move, Reply, Echo, Reject
    <3>2. QED
      BY <3>1, CountKept
  <2>5. QED
    BY <1>3, <2>1, <2>2, <2>3, <2>4 DEF ContentThread, LoginStep
<1>4. QED
  BY <1>1, <1>2, <1>3 DEF Next

(* mPlayerCount, which JOIN and GROUP_ENTER raise unasked, is the size of    *)
(* mPlayers: no entry is overwritten, also when a player comes back.        *)
THEOREM PlayersAreCounted == Spec => []CountExact
<1>1. Init => CountExact
  <2> SUFFICES ASSUME Init, NEW g \in Groups
               PROVE  count[g] = Cardinality({i \in Ids : members[g][i] # NoPlayer})
    BY DEF CountExact
  <2>1. {i \in Ids : members[g][i] # NoPlayer} = {} /\ count[g] = 0
    BY DEF Init
  <2>2. QED
    BY <2>1, FS_EmptySet
<1>2. PlayerInv /\ CountExact /\ [Next]_vars => CountExact'
  <2> SUFFICES ASSUME PlayerInv, CountExact, [Next]_vars, NoStrayFree', NoStrayPacket'
               PROVE  Counted'
    BY DEF CountExact, Counted, InMap
  <2>1. NoStrayFree /\ NoStrayPacket
    BY StaleGrows
  <2>2. Sound /\ Counted
    BY <2>1 DEF PlayerInv, Sound, CountExact, Counted, InMap
  <2>3. QED
    BY <2>2, NextCounted
<1>3. QED
  BY <1>1, <1>2, SpecPlayerInv, PTL DEF Spec

-----------------------------------------------------------------------------
(* The packets of a session that wait in a mailbox.                         *)

LEMMA PlacesFinite ==
    ASSUME TypeOK, NEW g \in Groups, NEW i
    PROVE  IsFiniteSet(Places(g, i)) /\ Cardinality(Places(g, i)) \in Nat
<1>1. PICK n \in Nat : n = Len(Queue(g))
  BY QueueType
<1>2. IsFiniteSet(1 .. n) /\ Places(g, i) \subseteq 1 .. n
  BY <1>1, FS_Interval DEF Places
<1>3. QED
  BY <1>2, FS_Subset, FS_CardinalityType

LEMMA PlacesSame ==
    ASSUME NEW g, NEW i, QueueSame(g)
    PROVE  Places(g, i)' = Places(g, i)
BY DEF QueueSame, Places, PacketAt

LEMMA PlacesGained ==
    ASSUME TypeOK, NEW g \in Groups, NEW i, NEW job \in Jobs, QueueGains(g, job)
    PROVE  /\ job.type = "PACKET" /\ job.packet.from = i =>
                  Cardinality(Places(g, i)') = Cardinality(Places(g, i)) + 1
           /\ ~(job.type = "PACKET" /\ job.packet.from = i) => Places(g, i)' = Places(g, i)
<1>1. PICK q \in Seq(Jobs) : q = Queue(g)
  BY QueueType
<1>2. PICK r \in Seq(Jobs) : r = Queue(g)' /\ r = Append(q, job)
  BY <1>1, AppendAt DEF QueueGains
<1>3. PICK n \in Nat : n = Len(q)
  BY <1>1
<1>4. Len(r) = n + 1 /\ r[n + 1] = job /\ \A k \in 1 .. n : r[k] = q[k]
  BY <1>1, <1>2, <1>3, AppendAt
<1>5. Places(g, i) = {k \in 1 .. n : q[k].type = "PACKET" /\ q[k].packet.from = i}
  BY <1>1, <1>3 DEF Places, PacketAt
<1>6. Places(g, i)' = {k \in 1 .. n + 1 : r[k].type = "PACKET" /\ r[k].packet.from = i}
  BY <1>2, <1>4 DEF Places, PacketAt
<1>7. 1 .. n + 1 = (1 .. n) \cup {n + 1} /\ n + 1 \notin 1 .. n
  OBVIOUS
<1>8. CASE job.type = "PACKET" /\ job.packet.from = i
  <2>1. Places(g, i)' = Places(g, i) \cup {n + 1} /\ n + 1 \notin Places(g, i)
    BY <1>4, <1>5, <1>6, <1>7, <1>8
  <2>2. QED
    BY <2>1, <1>8, PlacesFinite, FS_AddElement
<1>9. CASE ~(job.type = "PACKET" /\ job.packet.from = i)
  BY <1>4, <1>5, <1>6, <1>7, <1>9
<1>10. QED
  BY <1>8, <1>9

LEMMA PlacesLost ==
    ASSUME TypeOK, NEW g \in Groups, NEW i, QueueLoses(g)
    PROVE  /\ Cardinality(Places(g, i)') \in Nat /\ Cardinality(Places(g, i)) \in Nat
           /\ Cardinality(Places(g, i)') <= Cardinality(Places(g, i))
           /\ PacketAt(g, 1, i) => Cardinality(Places(g, i)') + 1 <= Cardinality(Places(g, i))
<1>1. PICK q \in Seq(Jobs) : q = Queue(g) /\ q # <<>>
  BY QueueType DEF QueueLoses
<1>2. PICK r \in Seq(Jobs) : r = Queue(g)' /\ r = Tail(q)
  BY <1>1, TailAt DEF QueueLoses
<1>3. PICK n \in Nat : n + 1 = Len(q)
  <2>1. Len(q) - 1 \in Nat /\ Len(q) - 1 + 1 = Len(q)
    BY <1>1, TailAt
  <2>2. QED
    BY <2>1
<1>4. Len(r) = n /\ \A k \in 1 .. n : r[k] = q[k + 1]
  BY <1>1, <1>2, <1>3, TailAt
<1>5. Places(g, i) = {k \in 1 .. n + 1 : q[k].type = "PACKET" /\ q[k].packet.from = i}
  BY <1>1, <1>3 DEF Places, PacketAt
<1>6. Places(g, i)' = {k \in 1 .. n : r[k].type = "PACKET" /\ r[k].packet.from = i}
  BY <1>2, <1>4 DEF Places, PacketAt
<1>7. PICK S, T : S = Places(g, i)' /\ T = Places(g, i) \ {1}
  OBVIOUS
<1>8. IsFiniteSet(Places(g, i)) /\ Cardinality(Places(g, i)) \in Nat
  BY PlacesFinite
<1>9. IsFiniteSet(T) /\ Cardinality(T) \in Nat /\ Cardinality(T) <= Cardinality(Places(g, i))
  BY <1>7, <1>8, FS_Subset, FS_CardinalityType
<1>10. PICK f : f = [k \in S |-> k + 1]
  OBVIOUS
<1>11. f \in Injection(S, T)
  <2>1. \A k \in S : k \in 1 .. n /\ k + 1 \in T
    BY <1>4, <1>5, <1>6, <1>7
  <2>2. f \in [S -> T]
    BY <2>1, <1>10
  <2>3. \A a, b \in S : f[a] = f[b] => a = b
    BY <2>1, <1>10
  <2>4. QED
    BY <2>2, <2>3 DEF Injection, IsInjective
<1>12. IsFiniteSet(S) /\ Cardinality(S) <= Cardinality(T) /\ Cardinality(S) \in Nat
  BY <1>9, <1>11, FS_Injection, FS_CardinalityType
<1>13. ASSUME PacketAt(g, 1, i) PROVE Cardinality(T) + 1 = Cardinality(Places(g, i))
  <2>1. 1 \in Places(g, i)
    BY <1>1, <1>3, <1>5, <1>13 DEF PacketAt
  <2>2. PICK m \in Nat, t \in Nat : m = Cardinality(Places(g, i)) /\ t = Cardinality(T)
    BY <1>8, <1>9
  <2>3. t = m - 1
    BY <2>1, <2>2, <1>7, <1>8, FS_RemoveElement
  <2>4. QED
    BY <2>2, <2>3
<1>14. PICK a \in Nat, b \in Nat, c \in Nat :
          a = Cardinality(S) /\ b = Cardinality(T) /\ c = Cardinality(Places(g, i))
  BY <1>8, <1>9, <1>12
<1>15. a <= b /\ b <= c /\ (PacketAt(g, 1, i) => b + 1 = c)
  BY <1>9, <1>12, <1>13, <1>14
<1>16. a <= c /\ (PacketAt(g, 1, i) => a + 1 <= c)
  BY <1>15
<1>17. QED
  BY <1>7, <1>14, <1>16

(* The first packet of a session stays the first until it is done.          *)
LEMMA AheadSame ==
    ASSUME QueueSame(Login), NEW i, LoginAhead(i)
    PROVE  LoginAhead(i)'
BY DEF QueueSame, LoginAhead, PacketAt

LEMMA AheadGained ==
    ASSUME TypeOK, NEW job \in Jobs, QueueGains(Login, job), NEW i, LoginAhead(i)
    PROVE  LoginAhead(i)'
<1>1. PICK q \in Seq(Jobs) : q = Queue(Login)
  BY QueueType DEF Groups
<1>2. PICK r \in Seq(Jobs) : r = Queue(Login)' /\ r = Append(q, job)
  BY <1>1, AppendAt DEF QueueGains
<1>3. Len(q) \in Nat /\ Len(r) = Len(q) + 1 /\ \A k \in 1 .. Len(q) : r[k] = q[k]
  BY <1>1, <1>2, AppendAt
<1>4. PICK k \in 1 .. Len(q) :
         /\ q[k].type = "PACKET" /\ q[k].packet.from = i /\ q[k].packet.kind = "login"
         /\ \A j \in 1 .. k - 1 : ~(q[j].type = "PACKET" /\ q[j].packet.from = i)
  BY <1>1 DEF LoginAhead, PacketAt
<1>5. k \in 1 .. Len(r) /\ r[k] = q[k] /\ \A j \in 1 .. k - 1 : r[j] = q[j]
  BY <1>3
<1>6. QED
  BY <1>2, <1>4, <1>5 DEF LoginAhead, PacketAt

LEMMA AheadLost ==
    ASSUME TypeOK, QueueLoses(Login), NEW i, LoginAhead(i),
           PacketAt(Login, 1, i) => Queue(Login)[1].packet.kind # "login"
    PROVE  LoginAhead(i)'
<1>1. PICK q \in Seq(Jobs) : q = Queue(Login) /\ q # <<>>
  BY QueueType DEF Groups, QueueLoses
<1>2. PICK r \in Seq(Jobs) : r = Queue(Login)' /\ r = Tail(q)
  BY <1>1, TailAt DEF QueueLoses
<1>3. /\ Len(q) \in Nat \ {0} /\ Len(r) = Len(q) - 1
      /\ \A k \in 1 .. Len(q) - 1 : r[k] = q[k + 1]
  BY <1>1, <1>2, TailAt
<1>4. PICK k \in 1 .. Len(q) :
         /\ q[k].type = "PACKET" /\ q[k].packet.from = i /\ q[k].packet.kind = "login"
         /\ \A j \in 1 .. k - 1 : ~(q[j].type = "PACKET" /\ q[j].packet.from = i)
  BY <1>1 DEF LoginAhead, PacketAt
<1>5. k # 1
  BY <1>1, <1>4 DEF PacketAt
<1>6. PICK n \in 1 .. Len(r) : k = n + 1
  <2>1. k - 1 \in 1 .. Len(r) /\ k = (k - 1) + 1
    BY <1>3, <1>5
  <2>2. QED
    BY <2>1
<1>7. r[n] = q[k]
  BY <1>3, <1>6
<1>8. ASSUME NEW j \in 1 .. n - 1 PROVE ~(r[j].type = "PACKET" /\ r[j].packet.from = i)
  <2>1. j + 1 \in 1 .. k - 1 /\ r[j] = q[j + 1]
    BY <1>3, <1>6
  <2>2. QED
    BY <2>1, <1>4
<1>9. QED
  BY <1>2, <1>4, <1>6, <1>7, <1>8 DEF LoginAhead, PacketAt

(* The login is the first packet of a session that has sent nothing else.   *)
LEMMA AheadFirst ==
    ASSUME TypeOK, NEW job \in Jobs, QueueGains(Login, job), NEW i, job.packet.from = i,
           job.type = "PACKET", job.packet.kind = "login",
           \A old \in Pending(Login) : ~(old.type = "PACKET" /\ old.packet.from = i)
    PROVE  LoginAhead(i)'
<1>1. PICK q \in Seq(Jobs) : q = Queue(Login)
  BY QueueType DEF Groups
<1>2. PICK r \in Seq(Jobs) : r = Queue(Login)' /\ r = Append(q, job)
  BY <1>1, AppendAt DEF QueueGains
<1>3. PICK n \in Nat : /\ n = Len(q) /\ Len(r) = n + 1 /\ r[n + 1] = job
                       /\ \A k \in 1 .. n : r[k] = q[k]
  BY <1>1, <1>2, AppendAt
<1>4. \A j \in 1 .. (n + 1) - 1 : ~(r[j].type = "PACKET" /\ r[j].packet.from = i)
  <2>1. \A j \in 1 .. n : q[j] \in Pending(Login)
    BY <1>1, <1>3 DEF Pending
  <2>2. QED
    BY <2>1, <1>3
<1>5. n + 1 \in 1 .. Len(r)
  BY <1>3
<1>6. QED
  BY <1>2, <1>3, <1>4, <1>5 DEF LoginAhead, PacketAt

(* Whose LOGIN waits does not have another packet before it. *)
LEMMA AheadAlone ==
    ASSUME TypeOK, NEW i, LoginAhead(i), PacketAt(Login, 1, i)
    PROVE  Queue(Login)[1].packet.kind = "login"
<1>1. PICK k \in 1 .. Len(Queue(Login)) : /\ Queue(Login)[k].packet.kind = "login"
                                          /\ \A j \in 1 .. k - 1 : ~PacketAt(Login, j, i)
  BY DEF LoginAhead
<1>2. Len(Queue(Login)) \in Nat
  BY QueueType DEF Groups
<1>3. k # 1 => 1 \in 1 .. k - 1
  BY <1>2
<1>4. QED
  BY <1>1, <1>3

(* The order of what a client sent, in the two groups. *)
Logical == \A i \in Sessions : <<i, "logic">> \in kicked => Offends(i)
Filled  == \A i \in Sessions : <<i, "full">> \in kicked => Len(sent[i]) > SendCap \/ Misled(i)
PacketInv == Packets /\ Answers /\ Logical /\ Filled

(* The step disconnects nobody for what it did but offenders. *)
JudgedWell == \A i \in Sessions : <<i, "logic">> \in kicked' =>
    <<i, "logic">> \in kicked \/ (sent[i] # <<>> /\ Offends(i))

LEMMA PhaseGrows ==
    ASSUME TypeOK, [Next]_vars
    PROVE  Grown
<1> USE DEF Grown, Joined, Left, TypeOK, engineVars
<1>1. CASE UNCHANGED vars
  BY <1>1 DEF vars
<1>2. ASSUME NEW i \in Sessions, Engine(i) PROVE Grown
  <2>1. CASE JoinAlloc(i) \/ JoinInit(i) \/ JoinInsert(i)
    BY <2>1 DEF JoinAlloc, JoinInit, JoinInsert
  <2>2. CASE OnClientLeave(i) \/ LeaveCheck(i)
    BY <2>2 DEF OnClientLeave, LeaveCheck
  <2>3. CASE Transmit(i) \/ \E k \in Kinds : OnRecv(i, k)
    BY <2>3 DEF Transmit, OnRecv
  <2>4. QED
    BY <1>2, <2>1, <2>2, <2>3 DEF Engine
<1>3. ASSUME NEW g \in Groups, ContentThread(g) PROVE Grown
  <2>1. UNCHANGED phase
    BY <1>3 DEF ContentThread, LoginStep, Drain, OnEnter, OnLeave, LatePacket, Refuse, Accepted,
                HandOver, Move, EraseMoved, Reply, Echo, Reject
  <2>2. QED
    BY <2>1
<1>4. QED
  BY <1>1, <1>2, <1>3 DEF Next

(* A step that sends nothing and hands no player over. *)
LEMMA PacketsKept ==
    ASSUME Packets, UNCHANGED sent, Grown, JudgedWell,
           \A p \in Players, i \in Sessions : sid'[p] = i =>
               \/ sid[p] # i /\ sent[i] = <<>> /\ group'[p] = Login
               \/ /\ sid[p] = i
                  /\ group'[p] # Login => group[p] # Login \/ sent[i] # <<>>
                  /\ group'[p] = Login /\ avail'[p] = 0 =>
                         group[p] = Login /\ avail[p] = 0 /\ (LoginAhead(i) => LoginAhead(i)'),
           \A g \in Groups : \A job \in Pending(g)' : job.type = "PACKET" => job \in Pending(g)
    PROVE  Packets'
<1>0. \A i \in Sessions : Begins(i)' = Begins(i)
  BY DEF Begins
<1>1. ASSUME NEW p \in Players, NEW i \in Sessions, sid'[p] = i PROVE PacketsOf(i, p)'
  <2>1. CASE sid[p] # i /\ sent[i] = <<>> /\ group'[p] = Login
    BY <2>1 DEF PacketsOf, Begins
  <2>2. CASE /\ sid[p] = i
             /\ group'[p] # Login => group[p] # Login \/ sent[i] # <<>>
             /\ group'[p] = Login /\ avail'[p] = 0 =>
                    group[p] = Login /\ avail[p] = 0 /\ (LoginAhead(i) => LoginAhead(i)')
    <3>1. PacketsOf(i, p)
      BY <2>2 DEF Packets
    <3>2. QED
      BY <2>2, <3>1, <1>0 DEF PacketsOf
  <2>3. QED
    BY <1>1, <2>1, <2>2
<1>2. ASSUME NEW g \in Groups, NEW job \in Pending(g)' PROVE PacketOf(g, job)'
  <2>1. CASE job.type # "PACKET"
    BY <2>1 DEF PacketOf
  <2>2. CASE job.type = "PACKET"
    <3>1. PacketOf(g, job)
      BY <2>2 DEF Packets
    <3>2. QED
      BY <3>1 DEF PacketOf, Begins, Later
  <2>3. QED
    BY <2>1, <2>2
<1>3. \A i \in Sessions : phase'[i] \notin Joined => sent[i] = <<>>
  BY DEF Packets, Grown
<1>4. \A i \in Sessions : <<i, "logic">> \in kicked' => sent[i] # <<>>
  BY DEF Packets, JudgedWell
<1>5. QED
  BY <1>1, <1>2, <1>3, <1>4 DEF Packets

(* The packet a step takes from the login group is not the login that opens *)
(* what the session of a player of this group sent.                         *)
Harmless(job) == \/ job.type # "PACKET" \/ job.packet.kind # "login"
                 \/ group[job.player] # Login \/ Late(job)
NoNewPacket(g) ==
    \/ QueueSame(g)
    \/ \E job \in Jobs : job.type # "PACKET" /\ QueueGains(g, job)
    \/ QueueLoses(g) /\ (g = Login => Harmless(Queue(g)[1]))

LEMMA NoNewJob ==
    ASSUME TypeOK, NEW g \in Groups, NoNewPacket(g), NEW job \in Pending(g)', job.type = "PACKET"
    PROVE  job \in Pending(g)
<1>1. CASE QueueSame(g)
  BY <1>1, SameJobs
<1>2. CASE QueueLoses(g)
  BY <1>2, LostJob
<1>3. ASSUME NEW new \in Jobs, new.type # "PACKET", QueueGains(g, new) PROVE job \in Pending(g)
  <2>1. Pending(g)' = Pending(g) \cup {new}
    BY <1>3, GainedJob
  <2>2. QED
    BY <2>1, <1>3
<1>4. QED
  BY <1>1, <1>2, <1>3 DEF NoNewPacket

LEMMA LoginStaysAhead ==
    ASSUME Sound, NoNewPacket(Login), NEW p \in Players, NEW i \in Sessions, sid[p] = i,
           group[p] = Login, LoginAhead(i)
    PROVE  LoginAhead(i)'
<1>a. Typed /\ Tokens /\ TypeOK /\ Login \in Groups
  BY DEF Sound, Typed, Groups
<1>1. CASE QueueSame(Login)
  BY <1>1, AheadSame
<1>2. ASSUME NEW job \in Jobs, QueueGains(Login, job) PROVE LoginAhead(i)'
  BY <1>2, <1>a, AheadGained
<1>3. CASE QueueLoses(Login) /\ Harmless(Queue(Login)[1])
  <2>1. ASSUME PacketAt(Login, 1, i) PROVE Queue(Login)[1].packet.kind # "login"
    <3>1. PICK head \in Pending(Login) : head = Queue(Login)[1]
      BY <1>3, <1>a, LostJob
    <3>2. head.type = "PACKET" /\ head.packet.from = i
      BY <2>1, <3>1 DEF PacketAt
    <3>3. head.player = mine[i] /\ p = mine[i]
      BY <3>2, <1>a, JobPlayer, PlayerSession, GroupAssumption
    <3>4. group[head.player] = Login /\ ~Late(head)
      BY <3>2, <3>3 DEF Late
    <3>5. QED
      BY <3>1, <3>2, <3>4, <1>3 DEF Harmless
  <2>2. QED
    BY <2>1, <1>3, <1>a, AheadLost
<1>4. QED
  BY <1>1, <1>2, <1>3 DEF NoNewPacket

LEMMA PlainPackets ==
    ASSUME Sound, Packets, UNCHANGED <<sent, sid, group>>, Grown, JudgedWell,
           \A p \in Players : avail'[p] = 0 => avail[p] = 0,
           \A g \in Groups : NoNewPacket(g)
    PROVE  Packets'
<1>a. TypeOK /\ Login \in Groups
  BY DEF Sound, Typed, Groups
<1>1. \A p \in Players, i \in Sessions :
          sid[p] = i /\ group[p] = Login /\ LoginAhead(i) => LoginAhead(i)'
  BY <1>a, LoginStaysAhead
<1>2. \A g \in Groups : \A job \in Pending(g)' : job.type = "PACKET" => job \in Pending(g)
  BY <1>a, NoNewJob
<1>3. QED
  BY <1>1, <1>2, PacketsKept

LEMMA JoinAllocPackets ==
    ASSUME Sound, Packets, Grown, JudgedWell, NEW i \in Sessions, JoinAlloc(i)
    PROVE  Packets'
<1>a. Typed /\ Tokens /\ TypeOK /\ Login \in Groups
  BY DEF Sound, Typed, Groups
<1>1. UNCHANGED <<sent, local, mailbox>>
  BY <1>a, JoinAllocTokens
<1>2. PICK p \in Players : /\ avail' = [avail EXCEPT ![p] = 0]
                           /\ sid' = [sid EXCEPT ![p] = NoSession]
                           /\ group' = [group EXCEPT ![p] = NoGroup]
  BY <1>a, JoinAllocTokens
<1>3. \A g \in Groups : QueueSame(g) /\ Pending(g)' = Pending(g)
  BY <1>1, <1>a, Kept, SameJobs
<1>4. \A j : LoginAhead(j) => LoginAhead(j)'
  BY <1>3, <1>a, AheadSame
<1>5. ASSUME NEW q \in Players, NEW j \in Sessions, sid'[q] = j
      PROVE  sid[q] = j /\ group'[q] = group[q] /\ avail'[q] = avail[q]
  BY <1>2, <1>5, <1>a, GroupAssumption DEF TypeOK
<1>6. QED
  BY <1>1, <1>3, <1>4, <1>5, PacketsKept

LEMMA JoinInitPackets ==
    ASSUME Sound, Packets, Grown, JudgedWell, NEW i \in Sessions, JoinInit(i)
    PROVE  Packets'
<1>a. Typed /\ Tokens /\ TypeOK /\ Login \in Groups
  BY DEF Sound, Typed, Groups
<1>1. phase[i] = "init" /\ UNCHANGED <<avail, sent, local, mailbox>>
  BY <1>a, JoinInitTokens
<1>2. PICK p \in Players : /\ sid[p] = NoSession /\ sid' = [sid EXCEPT ![p] = i]
                           /\ group' = [group EXCEPT ![p] = Login]
  BY <1>a, JoinInitTokens
<1>3. sent[i] = <<>>
  BY <1>1 DEF Packets, Joined
<1>4. \A g \in Groups : QueueSame(g) /\ Pending(g)' = Pending(g)
  BY <1>1, <1>a, Kept, SameJobs
<1>5. \A j : LoginAhead(j) => LoginAhead(j)'
  BY <1>4, <1>a, AheadSame
<1>6. /\ sid'[p] = i /\ group'[p] = Login /\ i # sid[p]
      /\ \A q \in Players : q # p => sid'[q] = sid[q] /\ group'[q] = group[q]
  BY <1>2, <1>a, GroupAssumption DEF TypeOK
<1>7. ASSUME NEW q \in Players, NEW j \in Sessions, sid'[q] = j
      PROVE  \/ sid[q] # j /\ sent[j] = <<>> /\ group'[q] = Login
             \/ sid[q] = j /\ group'[q] = group[q] /\ avail'[q] = avail[q]
  BY <1>1, <1>3, <1>6, <1>7
<1>8. QED
  BY <1>1, <1>4, <1>5, <1>7, PacketsKept

(* A player that is handed over has sent its login. *)
LEMMA MovePackets ==
    ASSUME Sound, Packets, Grown, JudgedWell, Move("move", "erase")
    PROVE  Packets'
<1>a. Typed /\ Tokens /\ TypeOK /\ Login \in Groups /\ Login \notin Shards
  BY GroupAssumption DEF Sound, Typed, Groups
<1>1. /\ pc[Login] = "move"
      /\ group' = [group EXCEPT ![Current(Login).player] = Target(Current(Login).player)]
      /\ UNCHANGED <<sent, sid, avail, mailbox, local>>
  BY DEF Move, engineVars
<1>2. PICK head \in Pending(Login), p \in Players, i \in Sessions :
         /\ head = Current(Login) /\ p = head.player /\ i = sid[p] /\ head.packet.from = i
         /\ head.type = "PACKET"
  BY <1>1, HandOverJob
<1>3. sent[i] # <<>>
  BY <1>2, <1>a DEF Packets, PacketOf
<1>4. Target(p) \in Shards
  BY <1>2, GroupAssumption DEF Target, Ids
<1>5. group'[p] # Login /\ \A q \in Players : q # p => group'[q] = group[q]
  BY <1>1, <1>2, <1>4, <1>a DEF TypeOK
<1>6. \A g \in Groups : QueueSame(g) /\ Pending(g)' = Pending(g)
  BY <1>1, <1>a, Kept, SameJobs
<1>7. \A j : LoginAhead(j) => LoginAhead(j)'
  BY <1>6, <1>a, AheadSame
<1>8. ASSUME NEW q \in Players, NEW j \in Sessions, sid'[q] = j
      PROVE  /\ sid[q] = j
             /\ group'[q] # Login => group[q] # Login \/ sent[j] # <<>>
             /\ group'[q] = Login /\ avail'[q] = 0 => group[q] = Login /\ avail[q] = 0
  BY <1>1, <1>2, <1>3, <1>5, <1>8
<1>9. QED
  BY <1>1, <1>6, <1>7, <1>8, PacketsKept

LEMMA SentGrows ==
    ASSUME NEW s \in Seq(Kinds), NEW kind \in Kinds, NEW r, r = Append(s, kind)
    PROVE  /\ r # <<>> /\ (s = <<>> => r[1] = kind)
           /\ s # <<>> => r[1] = s[1] /\ Len(r) \in 2 .. Len(r) /\ r[Len(r)] = kind
           /\ \A n \in 2 .. Len(s) : n \in 2 .. Len(r) /\ r[n] = s[n]
<1>1. Len(s) \in Nat /\ Len(r) = Len(s) + 1 /\ r[Len(s) + 1] = kind
      /\ \A n \in 1 .. Len(s) : r[n] = s[n]
  OBVIOUS
<1>2. s = <<>> <=> Len(s) = 0
  OBVIOUS
<1>3. r # <<>>
  BY <1>1
<1>4. s = <<>> => r[1] = kind
  BY <1>1, <1>2
<1>5. s # <<>> => r[1] = s[1] /\ Len(r) \in 2 .. Len(r) /\ r[Len(r)] = kind
  BY <1>1, <1>2
<1>6. \A n \in 2 .. Len(s) : n \in 2 .. Len(r) /\ r[n] = s[n]
  BY <1>1
<1>7. QED
  BY <1>3, <1>4, <1>5, <1>6

(* What a client sent is more after it sends one packet more. *)
LEMMA SendingMore ==
    ASSUME TypeOK, NEW i \in Sessions, NEW kind \in Kinds, sent' = [sent EXCEPT ![i] = Append(@, kind)]
    PROVE  /\ sent'[i] # <<>> /\ Len(sent'[i]) = Len(sent[i]) + 1
           /\ sent[i] = <<>> => sent'[i][1] = kind
           /\ sent[i] # <<>> => Later(i, kind)'
           /\ \A j \in Sessions : j # i => sent'[j] = sent[j]
           /\ \A j \in Sessions : sent[j] # <<>> =>
                /\ sent'[j] # <<>> /\ (Begins(j)' => Begins(j))
                /\ \A k \in Kinds : Later(j, k) => Later(j, k)'
                /\ Offends(j) => Offends(j)'
<1>1. PICK s \in Seq(Kinds) : s = sent[i]
  BY DEF TypeOK
<1>2. PICK r \in Seq(Kinds) : /\ r = sent'[i] /\ r = Append(s, kind) /\ Len(r) = Len(s) + 1
                              /\ \A j \in Sessions : j # i => sent'[j] = sent[j]
  <2>1. Append(s, kind) \in Seq(Kinds) /\ Len(Append(s, kind)) = Len(s) + 1
    BY <1>1, AppendAt
  <2>2. sent'[i] = Append(s, kind) /\ \A j \in Sessions : j # i => sent'[j] = sent[j]
    BY <1>1 DEF TypeOK
  <2>3. QED
    BY <2>1, <2>2
<1>3. /\ r # <<>> /\ (s = <<>> => r[1] = kind)
      /\ s # <<>> => r[1] = s[1] /\ Len(r) \in 2 .. Len(r) /\ r[Len(r)] = kind
      /\ \A n \in 2 .. Len(s) : n \in 2 .. Len(r) /\ r[n] = s[n]
  BY <1>1, <1>2, SentGrows
<1>4. ASSUME NEW j \in Sessions, sent[j] # <<>>
      PROVE  /\ sent'[j] # <<>> /\ (Begins(j)' => Begins(j))
             /\ \A k \in Kinds : Later(j, k) => Later(j, k)'
             /\ Offends(j) => Offends(j)'
  <2>1. CASE j # i
    <3>1. sent'[j] = sent[j]
      BY <2>1, <1>2
    <3>2. QED
      BY <3>1, <1>4 DEF Begins, Later, Offends
  <2>2. CASE j = i
    <3>1. sent'[j] = r /\ sent[j] = s /\ s # <<>>
      BY <2>2, <1>1, <1>2, <1>4
    <3>2. QED
      BY <3>1, <1>3 DEF Begins, Later, Offends
  <2>3. QED
    BY <2>1, <2>2
<1>5. s # <<>> => Later(i, kind)'
  BY <1>2, <1>3 DEF Later
<1>6. QED
  BY <1>1, <1>2, <1>3, <1>4, <1>5

(* A packet joins the end of its group's mailbox: the first one of a session *)
(* is the login group's, and stands before all others.                      *)
LEMMA OnRecvPackets ==
    ASSUME Sound, Packets, NEW i \in Sessions, NEW kind \in Kinds, OnRecv(i, kind)
    PROVE  Packets'
<1>a. Typed /\ Tokens /\ TypeOK /\ Login \in Groups
  BY DEF Sound, Typed, Groups
<1>1. /\ phase[i] = "open" /\ sent' = [sent EXCEPT ![i] = Append(@, kind)]
      /\ UNCHANGED <<phase, sid, group, avail, local, kicked>>
  BY <1>a, OnRecvTokens
<1>2. PICK p \in Players, h \in Groups :
         /\ p = mine[i] /\ sid[p] = i /\ h = group[p] /\ avail[p] = 0
         /\ Enqueue(h, Job("PACKET", p, [from |-> i, kind |-> kind]))
  BY <1>a, OnRecvTokens
<1>3. PICK job \in Jobs : /\ job = Job("PACKET", p, [from |-> i, kind |-> kind])
                          /\ job.type = "PACKET" /\ job.packet.from = i /\ job.packet.kind = kind
  BY <1>2, JobType DEF Job
<1>4. QueueGains(h, job) /\ \A g \in Groups \ {h} : QueueSame(g)
  BY <1>1, <1>2, <1>3, <1>a, Enqueued
<1>5. Pending(h)' = Pending(h) \cup {job} /\ \A g \in Groups \ {h} : Pending(g)' = Pending(g)
  BY <1>4, <1>a, GainedJob, SameJobs
<1>6. /\ sent'[i] # <<>> /\ (sent[i] = <<>> => sent'[i][1] = kind)
      /\ sent[i] # <<>> => Later(i, kind)'
      /\ \A j \in Sessions : j # i => sent'[j] = sent[j]
  BY <1>1, <1>a, SendingMore
<1>7. \A j \in Sessions : sent[j] # <<>> =>
         /\ sent'[j] # <<>> /\ (Begins(j)' => Begins(j))
         /\ \A k \in Kinds : Later(j, k) => Later(j, k)'
  BY <1>1, <1>a, SendingMore
<1>8. \A j : LoginAhead(j) => LoginAhead(j)'
  <2>1. CASE h = Login
    BY <2>1, <1>4, <1>a, AheadGained
  <2>2. CASE h # Login
    BY <2>2, <1>4, <1>a, AheadSame
  <2>3. QED
    BY <2>1, <2>2
<1>9. ASSUME NEW j \in Sessions, NEW q \in Players, sid[q] = j PROVE PacketsOf(j, q)'
  <2>1. PacketsOf(j, q)
    BY <1>9 DEF Packets
  <2>2. CASE sent[j] # <<>>
    BY <2>1, <2>2, <1>1, <1>7, <1>8 DEF PacketsOf
  <2>3. CASE j # i
    <3>1. sent'[j] = sent[j]
      BY <2>3, <1>6
    <3>2. QED
      BY <2>1, <3>1, <1>1, <1>8 DEF PacketsOf, Begins
  <2>4. CASE j = i /\ sent[j] = <<>>
    <3>1. q = p
      BY <2>4, <1>2, <1>9, <1>a, PlayerSession, GroupAssumption
    <3>2. group[p] = Login /\ h = Login
      BY <2>1, <2>4, <3>1, <1>2 DEF PacketsOf
    <3>3. ASSUME Begins(i)' PROVE LoginAhead(i)'
      <4>1. kind = "login"
        BY <3>3, <2>4, <1>6 DEF Begins
      <4>2. \A old \in Pending(Login) : ~(old.type = "PACKET" /\ old.packet.from = i)
        BY <2>4, <1>a DEF Packets, PacketOf
      <4>3. QED
        BY <4>1, <4>2, <3>2, <1>3, <1>4, <1>a, AheadFirst
    <3>4. QED
      BY <2>4, <3>1, <3>2, <3>3, <1>1, <1>6 DEF PacketsOf
  <2>5. QED
    BY <2>2, <2>3, <2>4
<1>10. ASSUME NEW g \in Groups, NEW old \in Pending(g) PROVE PacketOf(g, old)'
  <2>1. PacketOf(g, old)
    BY DEF Packets
  <2>2. CASE old.type = "PACKET"
    <3>1. old.packet.from \in Sessions /\ old \in Jobs
      BY <2>2, JobPlayer
    <3>2. old.packet.kind \in Kinds
      BY <3>1, GroupAssumption DEF Jobs, NoPacket
    <3>3. QED
      BY <2>1, <2>2, <3>1, <3>2, <1>7 DEF PacketOf
  <2>3. CASE old.type # "PACKET"
    BY <2>3 DEF PacketOf
  <2>4. QED
    BY <2>2, <2>3
<1>11. PacketOf(h, job)'
  <2>1. ASSUME h # Login PROVE Later(i, kind)'
    <3>1. PacketsOf(i, p)
      BY <1>2 DEF Packets
    <3>2. QED
      BY <2>1, <3>1, <1>2, <1>6 DEF PacketsOf
  <2>2. QED
    BY <2>1, <1>3, <1>6 DEF PacketOf
<1>12. \A j \in Sessions : phase'[j] \notin Joined => sent'[j] = <<>>
  BY <1>1, <1>6 DEF Packets, Joined
<1>13. \A j \in Sessions : <<j, "logic">> \in kicked' => sent'[j] # <<>>
  BY <1>1, <1>7 DEF Packets
<1>14. \A q \in Players, j \in Sessions : sid'[q] = j => PacketsOf(j, q)'
  BY <1>1, <1>9
<1>15. \A g \in Groups : \A old \in Pending(g)' : PacketOf(g, old)'
  BY <1>5, <1>10, <1>11
<1>16. QED
  BY <1>12, <1>13, <1>14, <1>15 DEF Packets

(* Who a packet throws out for what it is. *)
LEMMA Kicking ==
    ASSUME NEW p \in Players, ReserveDisconnect(p),
           \A i \in Sessions : sid[p] = i /\ Live(i) => sent[i] # <<>> /\ Offends(i)
    PROVE  JudgedWell /\ \A i : <<i, "full">> \in kicked' => <<i, "full">> \in kicked
<1>1. \/ kicked' = kicked
      \/ kicked' = kicked \cup {<<sid[p], "logic">>} /\ Live(sid[p]) /\ sid[p] \in Sessions
  BY DEF ReserveDisconnect, Live
<1>2. QED
  BY <1>1 DEF JudgedWell

LEMMA RefusedOffends ==
    ASSUME Sound, Packets, Refuse, NoStrayPacket', NEW i \in Sessions, sid[Current(Login).player] = i
    PROVE  sent[i] # <<>> /\ Offends(i)
<1>a. Typed /\ Tokens /\ TypeOK /\ Login \in Groups
  BY DEF Sound, Typed, Groups
<1>1. /\ local[Login] # <<>> /\ Current(Login).type = "PACKET"
      /\ Current(Login).packet.kind # "login" /\ group[Current(Login).player] = Login
      /\ Use("packet", Current(Login).packet.from, Current(Login).player)
  BY DEF Refuse, At, Moved
<1>2. PICK head \in Pending(Login) : head = Current(Login) /\ head = Queue(Login)[1]
  BY <1>1, <1>a, InQueue, QueueType
<1>3. head.packet.from = i
  <2> SUFFICES ASSUME head.packet.from # sid[head.player] PROVE FALSE
    BY <1>2
  <2>1. stale' = stale \cup {<<"packet", head.packet.from, sid[head.player]>>}
    BY <1>1, <1>2 DEF Use
  <2>2. PICK use \in stale' : use = <<"packet", head.packet.from, sid[head.player]>>
    BY <2>1
  <2>3. use[1] = "packet"
    BY <2>2
  <2>4. QED
    BY <2>2, <2>3 DEF NoStrayPacket
<1>4. head.player \in Players /\ TimelyOf(Login, head)
  <2>1. ~Late(head)
    BY <1>2, <1>3 DEF Late
  <2>2. QED
    BY <2>1, <1>a, JobPlayer
<1>5. avail[head.player] = 0
  <2>1. avail[head.player] \in Nat
    BY <1>4, <1>a DEF TypeOK
  <2>2. QED
    BY <2>1, <1>1, <1>2, <1>4 DEF TimelyOf
<1>6. sent[i] # <<>>
  BY <1>1, <1>2, <1>3, <1>a DEF Packets, PacketOf
<1>7. ~Begins(i)
  <2>1. ASSUME Begins(i) PROVE FALSE
    <3>1. LoginAhead(i)
      BY <2>1, <1>1, <1>2, <1>4, <1>5 DEF Packets, PacketsOf
    <3>2. PacketAt(Login, 1, i)
      BY <1>1, <1>2, <1>3 DEF PacketAt
    <3>3. QED
      BY <3>1, <3>2, <1>1, <1>2, <1>a, AheadAlone
  <2>2. QED
    BY <2>1
<1>8. QED
  BY <1>6, <1>7 DEF Begins, Offends

LEMMA RejectedOffends ==
    ASSUME Sound, Packets, NEW g \in Groups, Reject(g),
           NEW i \in Sessions, sid[Current(g).player] = i
    PROVE  sent[i] # <<>> /\ Offends(i)
<1>a. TypeOK /\ g # Login
  BY GroupAssumption DEF Sound, Typed, Reject
<1>1. local[g] # <<>> /\ Current(g).type = "PACKET" /\ Current(g).packet.kind # "echo"
  BY DEF Reject, At
<1>2. PICK head \in Pending(g) : head = Current(g)
  BY <1>1, <1>a, InQueue
<1>3. ~Late(head)
  BY <1>2, <1>a, JobPlayer DEF LateOf
<1>4. head.packet.from = i
  BY <1>1, <1>2, <1>3, JobPlayer
<1>5. sent[i] # <<>> /\ (Begins(i) => Later(i, head.packet.kind))
  BY <1>1, <1>2, <1>4, <1>a DEF Packets, PacketOf
<1>6. QED
  BY <1>1, <1>2, <1>5 DEF Begins, Later, Offends

(* The answers a client has not read and those it is still to get.          *)
LEMMA WaitingType ==
    ASSUME TypeOK, NEW i \in Sessions
    PROVE  /\ ShardOf[i] \in Groups /\ ShardOf[i] # Login /\ Login \in Groups
           /\ Cardinality(Places(Login, i)) \in Nat /\ Cardinality(Places(ShardOf[i], i)) \in Nat
           /\ Waiting(i) \in Nat /\ unread[i] \in 0 .. SendCap /\ Len(sent[i]) \in Nat
<1>1. ShardOf[i] \in Groups /\ ShardOf[i] # Login /\ Login \in Groups
  BY GroupAssumption DEF Groups, Ids
<1>2. Cardinality(Places(Login, i)) \in Nat /\ Cardinality(Places(ShardOf[i], i)) \in Nat
  BY <1>1, PlacesFinite
<1>3. unread[i] \in 0 .. SendCap /\ Len(sent[i]) \in Nat
  BY DEF TypeOK
<1>4. QED
  BY <1>1, <1>2, <1>3 DEF Waiting

LEMMA NoNewPlaces ==
    ASSUME TypeOK, NEW g \in Groups, NEW i,
           \/ QueueSame(g)
           \/ \E job \in Jobs : job.type # "PACKET" /\ QueueGains(g, job)
           \/ QueueLoses(g)
    PROVE  /\ Cardinality(Places(g, i)') \in Nat
           /\ Cardinality(Places(g, i)') <= Cardinality(Places(g, i))
<1>1. Cardinality(Places(g, i)) \in Nat
  BY PlacesFinite
<1>2. CASE QueueSame(g)
  BY <1>1, <1>2, PlacesSame
<1>3. ASSUME NEW job \in Jobs, job.type # "PACKET", QueueGains(g, job)
      PROVE  Places(g, i)' = Places(g, i)
  BY <1>3, PlacesGained
<1>4. CASE QueueLoses(g)
  BY <1>4, PlacesLost
<1>5. QED
  BY <1>1, <1>2, <1>3, <1>4

LEMMA MisledStays ==
    ASSUME stale \subseteq stale', NEW i, Misled(i)
    PROVE  Misled(i)'
BY DEF Misled

LEMMA FewerAnswers ==
    ASSUME TypeOK, TypeOK', Answers, stale \subseteq stale', UNCHANGED sent,
           \A i \in Sessions : unread'[i] <= unread[i],
           \A g \in Groups : \/ QueueSame(g) \/ QueueLoses(g)
                             \/ \E job \in Jobs : job.type # "PACKET" /\ QueueGains(g, job)
    PROVE  Answers'
<1> SUFFICES ASSUME NEW i \in Sessions PROVE Misled(i)' \/ (unread[i] + Waiting(i) <= Len(sent[i]))'
  BY DEF Answers
<1>1. CASE Misled(i)
  BY <1>1, MisledStays
<1>2. CASE unread[i] + Waiting(i) <= Len(sent[i])
  <2>1. PICK h \in Groups : h = ShardOf[i]
    BY WaitingType
  <2>2. PICK a \in Nat, b \in Nat : a = Cardinality(Places(Login, i)) /\ b = Cardinality(Places(h, i))
    BY <2>1, WaitingType
  <2>3. PICK c \in Nat, d \in Nat :
           c = Cardinality(Places(Login, i)') /\ d = Cardinality(Places(h, i)')
    BY <2>1, WaitingType, NoNewPlaces
  <2>4. c <= a /\ d <= b
    BY <2>1, <2>2, <2>3, WaitingType, NoNewPlaces
  <2>5. Waiting(i) = a + b /\ Waiting(i)' = c + d
    BY <2>1, <2>2, <2>3 DEF Waiting
  <2>6. unread[i] \in Nat /\ unread'[i] \in Nat /\ Len(sent[i]) \in Nat /\ unread'[i] <= unread[i]
    BY DEF TypeOK
  <2>7. QED
    BY <1>2, <2>4, <2>5, <2>6
<1>3. QED
  BY <1>1, <1>2 DEF Answers

(* A packet that comes in asks for one answer more. *)
LEMMA OnRecvAnswers ==
    ASSUME Sound, TypeOK', Answers, NEW i \in Sessions, NEW kind \in Kinds, OnRecv(i, kind)
    PROVE  Answers'
<1>a. Typed /\ Tokens /\ TypeOK
  BY DEF Sound, Typed
<1>1. /\ sent' = [sent EXCEPT ![i] = Append(@, kind)] /\ UNCHANGED <<local, unread, stale>>
  BY <1>a, OnRecvTokens
<1>2. PICK p \in Players, h \in Groups :
         /\ sid[p] = i /\ h = group[p] /\ Enqueue(h, Job("PACKET", p, [from |-> i, kind |-> kind]))
  BY <1>a, OnRecvTokens
<1>3. PICK job \in Jobs : /\ job = Job("PACKET", p, [from |-> i, kind |-> kind])
                          /\ job.type = "PACKET" /\ job.packet.from = i
  BY <1>2, JobType DEF Job
<1>4. QueueGains(h, job) /\ \A g \in Groups \ {h} : QueueSame(g)
  BY <1>1, <1>2, <1>3, <1>a, Enqueued
<1>5. h \in {Login, ShardOf[i]}
  BY <1>2, GroupAssumption DEF Sound, Core, Homes
<1> SUFFICES ASSUME NEW j \in Sessions
             PROVE  Misled(j)' \/ (unread[j] + Waiting(j) <= Len(sent[j]))'
  BY DEF Answers
<1>6. CASE Misled(j)
  BY <1>1, <1>6 DEF Misled
<1>7. CASE unread[j] + Waiting(j) <= Len(sent[j])
  <2>1. unread'[j] = unread[j] /\ unread[j] \in Nat /\ Len(sent[j]) \in Nat /\ Waiting(j) \in Nat
    BY <1>1, <1>a, WaitingType
  <2>2. CASE j # i
    <3>1. sent'[j] = sent[j]
      BY <2>2, <1>1, <1>a DEF TypeOK
    <3>2. \A g \in Groups : Places(g, j)' = Places(g, j)
      BY <2>2, <1>3, <1>4, <1>a, PlacesGained, PlacesSame
    <3>3. Waiting(j)' = Waiting(j)
      BY <3>2, <1>a, WaitingType DEF Waiting
    <3>4. QED
      BY <1>7, <2>1, <3>1, <3>3
  <2>3. CASE j = i
    <3>1. Len(sent'[i]) = Len(sent[i]) + 1
      BY <1>1, <1>a, SendingMore
    <3>2. PICK e \in Groups : e = ShardOf[i] /\ e # Login
      BY <1>a, WaitingType
    <3>3. PICK a \in Nat, b \in Nat : a = Cardinality(Places(Login, i)) /\ b = Cardinality(Places(e, i))
      BY <3>2, <1>a, WaitingType
    <3>4. Cardinality(Places(h, i)') = Cardinality(Places(h, i)) + 1
      BY <1>3, <1>4, <1>a, PlacesGained
    <3>5. \A g \in Groups : g # h => Places(g, i)' = Places(g, i)
      BY <1>4, PlacesSame
    <3>6. Cardinality(Places(Login, i)') + Cardinality(Places(e, i)') = a + b + 1
      <4>1. CASE h = Login
        <5>1. Cardinality(Places(Login, i)') = a + 1 /\ Cardinality(Places(e, i)') = b
          BY <4>1, <3>2, <3>3, <3>4, <3>5
        <5>2. QED
          BY <5>1
      <4>2. CASE h = e
        <5>1. Cardinality(Places(Login, i)') = a /\ Cardinality(Places(e, i)') = b + 1
          BY <4>2, <3>2, <3>3, <3>4, <3>5, <1>a, WaitingType
        <5>2. QED
          BY <5>1
      <4>3. QED
        BY <4>1, <4>2, <1>5, <3>2
    <3>7. Waiting(i) = a + b /\ Waiting(i)' = a + b + 1
      BY <3>2, <3>3, <3>6 DEF Waiting
    <3>8. QED
      BY <1>7, <2>1, <2>3, <3>1, <3>7
  <2>4. QED
    BY <2>2, <2>3
<1>8. QED
  BY <1>6, <1>7 DEF Answers

(* An answer is sent for a packet that waits no more, to whom it is for or  *)
(* to one who is misled by it: the ring is full of answers asked for.       *)
LEMMA AnswerSent ==
    ASSUME TypeOK, TypeOK', Answers, Filled, UNCHANGED sent, stale \subseteq stale',
           NEW g \in Groups, NEW i \in Sessions, PacketAt(g, 1, i), g \in {Login, ShardOf[i]},
           QueueLoses(g), \A h \in Groups \ {g} : QueueSame(h),
           NEW j, NEW isSent, SendPacket(j, isSent),
           j = i \/ (j \in Ids /\ <<"reply", i, j>> \in stale')
    PROVE  Answers' /\ Filled' /\ JudgedWell
<1>1. \/ /\ j \in Sessions /\ unread' = [unread EXCEPT ![j] = @ + 1] /\ UNCHANGED kicked
      \/ /\ j \in Sessions /\ unread[j] = SendCap /\ kicked' = kicked \cup {<<j, "full">>}
         /\ UNCHANGED unread
      \/ UNCHANGED <<unread, kicked>>
  BY DEF SendPacket, Live, answerVars
<1>2. j # i => Misled(j)'
  BY GroupAssumption DEF Misled, Ids
<1>3. PICK e \in Groups : e = ShardOf[i] /\ e # Login /\ Login \in Groups
  BY WaitingType
<1>4. PICK a \in Nat, b \in Nat : a = Cardinality(Places(Login, i)) /\ b = Cardinality(Places(e, i))
  BY <1>3, WaitingType
<1>5. PICK c \in Nat, d \in Nat :
         c = Cardinality(Places(Login, i)') /\ d = Cardinality(Places(e, i)')
  BY <1>3, NoNewPlaces
<1>6. c + d + 1 <= a + b
  <2>1. Cardinality(Places(g, i)') + 1 <= Cardinality(Places(g, i))
    BY PlacesLost
  <2>2. \A h \in Groups : h # g => Places(h, i)' = Places(h, i)
    BY PlacesSame
  <2>3. CASE g = Login
    <3>1. c + 1 <= a /\ d = b
      BY <2>1, <2>2, <2>3, <1>3, <1>4, <1>5
    <3>2. QED
      BY <3>1
  <2>4. CASE g = e
    <3>1. c = a /\ d + 1 <= b
      BY <2>1, <2>2, <2>4, <1>3, <1>4, <1>5
    <3>2. QED
      BY <3>1
  <2>5. QED
    BY <2>3, <2>4, <1>3
<1>7. Waiting(i) = a + b /\ Waiting(i)' = c + d
  BY <1>3, <1>4, <1>5 DEF Waiting
<1>8. SendCap \in Nat
  BY GroupAssumption
<1>9. ASSUME NEW s \in Sessions PROVE Misled(s)' \/ (unread[s] + Waiting(s) <= Len(sent[s]))'
  <2>1. CASE Misled(s) \/ (s = j /\ j # i)
    BY <2>1, <1>2, MisledStays
  <2>2. CASE s = i /\ unread[s] + Waiting(s) <= Len(sent[s])
    <3>1. unread[i] \in Nat /\ unread'[i] \in Nat /\ Len(sent[i]) \in Nat
      BY DEF TypeOK
    <3>2. unread'[i] = unread[i] \/ unread'[i] = unread[i] + 1
      <4>1. CASE j \in Sessions /\ unread' = [unread EXCEPT ![j] = @ + 1]
        BY <4>1 DEF TypeOK
      <4>2. CASE unread' = unread
        BY <4>2
      <4>3. QED
        BY <4>1, <4>2, <1>1
    <3>3. unread[i] + (a + b) <= Len(sent[i])
      BY <2>2, <1>7
    <3>4. unread'[i] + (c + d) <= Len(sent[i])
      BY <3>1, <3>2, <3>3, <1>6
    <3>5. QED
      BY <2>2, <3>4, <1>7
  <2>3. CASE s # i /\ s # j /\ unread[s] + Waiting(s) <= Len(sent[s])
    <3>1. unread'[s] = unread[s]
      BY <2>3, <1>1 DEF TypeOK
    <3>2. PICK f \in Groups : f = ShardOf[s] /\ f # Login
      BY WaitingType
    <3>3. PICK m \in Nat, n \in Nat : m = Cardinality(Places(Login, s)) /\ n = Cardinality(Places(f, s))
      BY <3>2, WaitingType
    <3>4. PICK x \in Nat, y \in Nat :
             x = Cardinality(Places(Login, s)') /\ y = Cardinality(Places(f, s)')
      BY <1>3, <3>2, NoNewPlaces
    <3>5. x <= m /\ y <= n
      BY <3>2, <3>3, <3>4, <1>3, NoNewPlaces
    <3>6. Waiting(s) = m + n /\ Waiting(s)' = x + y
      BY <3>2, <3>3, <3>4 DEF Waiting
    <3>7. unread[s] \in Nat /\ Len(sent[s]) \in Nat
      BY DEF TypeOK
    <3>8. QED
      BY <2>3, <3>1, <3>5, <3>6, <3>7
  <2>4. QED
    BY <2>1, <2>2, <2>3 DEF Answers
<1>10. ASSUME NEW s \in Sessions, <<s, "full">> \in kicked'
       PROVE  Len(sent[s]) > SendCap \/ Misled(s)'
  <2>1. CASE <<s, "full">> \in kicked
    BY <2>1, MisledStays DEF Filled
  <2>2. CASE s = j /\ j # i
    BY <2>2, <1>2
  <2>3. CASE s = i /\ s = j /\ unread[i] = SendCap
    <3>1. Misled(i) \/ unread[i] + Waiting(i) <= Len(sent[i])
      BY DEF Answers
    <3>2. Len(sent[i]) \in Nat
      BY DEF TypeOK
    <3>3. CASE unread[i] + Waiting(i) <= Len(sent[i])
      BY <2>3, <3>2, <3>3, <1>6, <1>7, <1>8
    <3>4. QED
      BY <2>3, <3>1, <3>3, MisledStays
  <2>4. QED
    BY <2>1, <2>2, <2>3, <1>1, <1>10
<1>11. JudgedWell
  BY <1>1 DEF JudgedWell
<1>12. QED
  BY <1>9, <1>10, <1>11 DEF Answers, Filled

(* A step that throws out nobody but offenders, and sends no answer.        *)
Fair == /\ Grown /\ JudgedWell /\ UNCHANGED sent /\ stale \subseteq stale'
        /\ \A i : <<i, "full">> \in kicked' => <<i, "full">> \in kicked
        /\ \A i \in Sessions : unread'[i] <= unread[i]

LEMMA FairStep ==
    ASSUME TypeOK, Grown, UNCHANGED <<sent, kicked, unread>>, stale \subseteq stale'
    PROVE  Fair
<1>1. \A i \in Sessions : unread[i] \in Int
  BY DEF TypeOK
<1>2. QED
  BY <1>1 DEF Fair, JudgedWell

LEMMA FairPackets ==
    ASSUME TypeOK, TypeOK', PacketInv, Fair, Packets', \A g \in Groups : NoNewPacket(g)
    PROVE  PacketInv'
<1>1. Answers'
  BY FewerAnswers DEF Fair, PacketInv, NoNewPacket
<1>2. Logical'
  BY DEF Fair, PacketInv, Logical, JudgedWell, Offends
<1>3. Filled'
  BY MisledStays DEF Fair, PacketInv, Filled
<1>4. QED
  BY <1>1, <1>2, <1>3 DEF PacketInv

LEMMA QuietPackets ==
    ASSUME Sound, TypeOK', PacketInv, Fair, UNCHANGED <<sid, group>>,
           \A p \in Players : avail'[p] = 0 => avail[p] = 0, \A g \in Groups : NoNewPacket(g)
    PROVE  PacketInv'
<1>1. Packets'
  BY PlainPackets DEF Fair, PacketInv
<1>2. QED
  BY <1>1, FairPackets DEF Sound, Typed

(* A step that takes the job at the head and posts no packet. *)
LEMMA PoppedPackets ==
    ASSUME Sound, TypeOK', PacketInv, Fair, NEW g \in Groups, local[g] # <<>>, Pop(g),
           UNCHANGED <<sid, group, mailbox>>, \A p \in Players : avail'[p] = 0 => avail[p] = 0,
           g = Login => Harmless(Current(g))
    PROVE  PacketInv'
<1>a. TypeOK
  BY DEF Sound, Typed
<1>1. QueueLoses(g) /\ \A h \in Groups \ {g} : QueueSame(h)
  BY <1>a, Popped
<1>2. Current(g) = Queue(g)[1]
  BY <1>a, QueueType
<1>3. \A h \in Groups : NoNewPacket(h)
  BY <1>1, <1>2 DEF NoNewPacket
<1>4. QED
  BY <1>3, QuietPackets

(* A step that posts a job other than a packet, or none. *)
LEMMA PostedPackets ==
    ASSUME Sound, TypeOK', PacketInv, Fair, UNCHANGED <<sid, group, local>>,
           \A p \in Players : avail'[p] = 0 => avail[p] = 0,
           \/ UNCHANGED mailbox
           \/ \E h \in Groups, job \in Jobs : job.type # "PACKET" /\ Enqueue(h, job)
    PROVE  PacketInv'
<1>a. TypeOK
  BY DEF Sound, Typed
<1>1. CASE UNCHANGED mailbox
  <2>1. \A h \in Groups : NoNewPacket(h)
    BY <1>1, Kept DEF NoNewPacket
  <2>2. QED
    BY <2>1, QuietPackets
<1>2. ASSUME NEW h \in Groups, NEW job \in Jobs, job.type # "PACKET", Enqueue(h, job)
      PROVE  PacketInv'
  <2>1. QueueGains(h, job) /\ \A g \in Groups \ {h} : QueueSame(g)
    BY <1>2, <1>a, Enqueued
  <2>2. \A g \in Groups : NoNewPacket(g)
    BY <2>1, <1>2 DEF NoNewPacket
  <2>3. QED
    BY <2>2, QuietPackets
<1>3. QED
  BY <1>1, <1>2

(* A step that answers the packet at the head. *)
LEMMA AnsweredPackets ==
    ASSUME Sound, TypeOK', PacketInv, Grown, UNCHANGED <<sent, sid, group, avail, mailbox>>,
           stale \subseteq stale',
           NEW g \in Groups, local[g] # <<>>, Current(g).type = "PACKET", Pop(g),
           g = Login => Harmless(Current(g)),
           NEW i \in Sessions, i = Current(g).packet.from, g \in {Login, ShardOf[i]},
           NEW j, NEW isSent, SendPacket(j, isSent),
           j = i \/ (j \in Ids /\ <<"reply", i, j>> \in stale')
    PROVE  PacketInv'
<1>a. TypeOK
  BY DEF Sound, Typed
<1>1. QueueLoses(g) /\ \A h \in Groups \ {g} : QueueSame(h)
  BY <1>a, Popped
<1>2. Current(g) = Queue(g)[1]
  BY <1>a, QueueType
<1>3. PacketAt(g, 1, i)
  BY <1>2 DEF PacketAt
<1>4. \A h \in Groups : NoNewPacket(h)
  BY <1>1, <1>2 DEF NoNewPacket
<1>5. Answers' /\ Filled' /\ JudgedWell
  BY <1>a, <1>1, <1>3, AnswerSent DEF PacketInv
<1>6. Packets'
  BY <1>4, <1>5, PlainPackets DEF PacketInv
<1>7. Logical'
  BY <1>5 DEF PacketInv, Logical, JudgedWell, Offends
<1>8. QED
  BY <1>5, <1>6, <1>7 DEF PacketInv

LEMMA LoginPackets ==
    ASSUME Sound, TypeOK', PacketInv, LoginStep, NoStrayPacket', Grown, stale \subseteq stale'
    PROVE  PacketInv'
<1>a. TypeOK /\ Login \in Groups /\ Packets
  BY DEF Sound, Typed, Groups, PacketInv
<1>b. UNCHANGED <<sent, kicked, unread>> => Fair
  BY <1>a, FairStep
<1> USE DEF engineVars, playerVars, answerVars
<1>1. CASE LatePacket
  <2>1. /\ local[Login] # <<>> /\ Pop(Login) /\ group[Current(Login).player] # Login
        /\ UNCHANGED <<sent, sid, group, avail, mailbox, kicked, unread>>
    BY <1>1 DEF LatePacket, At, Moved
  <2>2. QED
    BY <2>1, <1>a, <1>b, PoppedPackets DEF Harmless
<1>2. CASE Refuse
  <2>1. /\ local[Login] # <<>> /\ Pop(Login) /\ Current(Login).packet.kind # "login"
        /\ ReserveDisconnect(Current(Login).player)
        /\ UNCHANGED <<sent, sid, group, avail, mailbox, unread>>
    BY <1>2 DEF Refuse, At
  <2>2. \A i \in Sessions : sid[Current(Login).player] = i => sent[i] # <<>> /\ Offends(i)
    BY <1>2, <1>a, RefusedOffends
  <2>3. Current(Login).player \in Players
    BY <2>1, <1>a, CurrentType
  <2>4. JudgedWell /\ \A i : <<i, "full">> \in kicked' => <<i, "full">> \in kicked
    BY <2>1, <2>2, <2>3, Kicking
  <2>5. \A i \in Sessions : unread'[i] <= unread[i]
    BY <2>1, <1>a DEF TypeOK
  <2>6. Fair
    BY <2>1, <2>4, <2>5 DEF Fair
  <2>7. QED
    BY <2>1, <2>6, <1>a, PoppedPackets DEF Harmless
<1>3. CASE Accepted \/ EraseMoved
  <2>1. UNCHANGED <<sent, sid, group, avail, local, mailbox, kicked, unread>>
    BY <1>3 DEF Accepted, EraseMoved
  <2>2. QED
    BY <2>1, <1>a, <1>b, PostedPackets
<1>4. CASE HandOver("handOver", "move")
  <2>1. /\ pc[Login] = "handOver"
        /\ UNCHANGED <<sent, sid, group, avail, local, kicked, unread>>
        /\ Enqueue(Target(Current(Login).player),
                   Job("GROUP_ENTER", Current(Login).player, NoPacket))
    BY <1>4 DEF HandOver
  <2>2. PICK p \in Players : p = Current(Login).player /\ sid[p] \in Sessions
    BY <2>1, HandOverJob
  <2>3. Target(p) \in Groups
    BY <2>2, GroupAssumption DEF Target, Groups, Ids
  <2>4. PICK h \in Groups, job \in Jobs : Enqueue(h, job) /\ job.type = "GROUP_ENTER"
    BY <2>1, <2>2, <2>3, JobType DEF Job
  <2>5. QED
    BY <2>1, <2>4, <1>a, <1>b, PostedPackets
<1>5. CASE Move("move", "erase")
  <2>1. UNCHANGED <<sent, kicked, unread, local, mailbox>>
    BY <1>5 DEF Move
  <2>2. Packets'
    BY <2>1, <1>5, <1>a, <1>b, MovePackets DEF Fair
  <2>3. \A g \in Groups : NoNewPacket(g)
    BY <2>1, Kept DEF NoNewPacket
  <2>4. QED
    BY <2>1, <2>2, <2>3, <1>a, <1>b, FairPackets
<1>6. CASE Reply
  <2>1. /\ pc[Login] = "reply" /\ Pop(Login)
        /\ Use("reply", Current(Login).packet.from, Current(Login).player)
        /\ UNCHANGED <<sent, sid, group, avail, mailbox>>
    BY <1>6 DEF Reply
  <2>2. PICK isSent \in BOOLEAN : SendPacket(sid[Current(Login).player], isSent)
    BY <1>6 DEF Reply
  <2>3. PICK i \in Sessions : i = Current(Login).packet.from
    BY <2>1, HandOverJob
  <2>4. /\ local[Login] # <<>> /\ Current(Login).type = "PACKET" /\ Harmless(Current(Login))
        /\ sid[Current(Login).player] \in Ids
    BY <2>1, <1>a, HandOverJob, CurrentType DEF HandOverOf, Harmless
  <2>5. PICK j \in Ids : j = sid[Current(Login).player]
    BY <2>4
  <2>6. j = i \/ <<"reply", i, j>> \in stale'
    BY <2>1, <2>3, <2>5 DEF Use
  <2>7. QED
    BY <2>1, <2>2, <2>3, <2>4, <2>5, <2>6, <1>a, AnsweredPackets
<1>7. QED
  BY <1>1, <1>2, <1>3, <1>4, <1>5, <1>6 DEF LoginStep

LEMMA ContentPackets ==
    ASSUME Sound, TypeOK', PacketInv, NEW g \in Groups, ContentThread(g), NoStrayPacket',
           Grown, stale \subseteq stale'
    PROVE  PacketInv'
<1>a. Typed /\ Tokens /\ TypeOK /\ Packets
  BY DEF Sound, Typed, PacketInv
<1>b. UNCHANGED <<sent, kicked, unread>> => Fair
  BY <1>a, FairStep
<1> USE DEF engineVars, playerVars, answerVars
<1>1. CASE Drain(g)
  <2>1. \A h \in Groups : NoNewPacket(h)
    BY <1>1, <1>a, Drained DEF NoNewPacket
  <2>2. UNCHANGED <<sent, sid, group, avail, kicked, unread>>
    BY <1>1 DEF Drain
  <2>3. QED
    BY <2>1, <2>2, <1>b, QuietPackets
<1>2. CASE OnEnter(g)
  <2>1. /\ local[g] # <<>> /\ Pop(g) /\ Current(g).type # "PACKET"
        /\ UNCHANGED <<sent, sid, group, avail, mailbox, kicked, unread>>
    BY <1>2 DEF OnEnter, At
  <2>2. QED
    BY <2>1, <1>b, PoppedPackets DEF Harmless
<1>3. CASE OnLeave(g)
  <2>1. /\ local[g] # <<>> /\ Current(g).type = "LEAVE" /\ Pop(g)
        /\ UNCHANGED <<sent, sid, group, kicked, unread>>
    BY <1>3, <1>a, OnLeaveTokens
  <2>2. PICK p \in Players :
           /\ p = Current(g).player /\ avail[p] = 0 /\ group[p] \in Groups
           /\ \/ group[p] = g /\ avail' = [avail EXCEPT ![p] = 1] /\ UNCHANGED mailbox
              \/ group[p] # g /\ Enqueue(group[p], Job("LEAVE", p, NoPacket)) /\ UNCHANGED avail
    BY <1>3, <1>a, OnLeaveTokens
  <2>3. \A q \in Players : avail'[q] = 0 => avail[q] = 0
    BY <2>2, <1>a DEF TypeOK
  <2>4. CASE UNCHANGED mailbox
    BY <2>1, <2>3, <2>4, <1>b, PoppedPackets DEF Harmless
  <2>5. CASE group[p] # g /\ Enqueue(group[p], Job("LEAVE", p, NoPacket))
    <3>1. PICK h \in Groups \ {g}, job \in Jobs : Enqueue(h, job) /\ job.type = "LEAVE"
      BY <2>2, <2>5, JobType DEF Job
    <3>2. QueueLoses(g) /\ QueueGains(h, job) /\ \A e \in Groups \ {g, h} : QueueSame(e)
      BY <2>1, <3>1, <1>a, Forwarded
    <3>3. Harmless(Queue(g)[1])
      BY <2>1, <1>a, QueueType DEF Harmless
    <3>4. \A e \in Groups : NoNewPacket(e)
      BY <3>1, <3>2, <3>3 DEF NoNewPacket
    <3>5. QED
      BY <2>1, <2>3, <3>4, <1>b, QuietPackets
  <2>6. QED
    BY <2>2, <2>4, <2>5
<1>4. CASE g = Login /\ LoginStep
  BY <1>4, LoginPackets
<1>5. CASE Echo(g)
  <2>1. /\ g \in Shards /\ g # Login /\ local[g] # <<>> /\ Current(g).type = "PACKET" /\ Pop(g)
        /\ UNCHANGED <<sent, sid, group, avail, mailbox>>
    BY <1>5, GroupAssumption DEF Echo, At
  <2>2. CASE UNCHANGED <<unread, kicked>>
    BY <2>1, <2>2, <1>b, PoppedPackets
  <2>3. ASSUME NEW isSent \in BOOLEAN, SendPacket(sid[Current(g).player], isSent)
        PROVE  PacketInv'
    <3>1. PICK head \in Pending(g) : head = Current(g)
      BY <2>1, <1>a, InQueue
    <3>2. ~Late(head)
      BY <2>1, <3>1, JobPlayer DEF LateOf
    <3>3. PICK i \in Sessions : i = sid[head.player] /\ head.packet.from = i
      BY <2>1, <3>1, <3>2, JobPlayer
    <3>4. g \in {Login, ShardOf[i]}
      BY <3>1, <3>2, <3>3, JobPlayer DEF TimelyOf
    <3>5. QED
      BY <2>1, <2>3, <3>1, <3>3, <3>4, AnsweredPackets
  <2>4. QED
    BY <1>5, <2>2, <2>3 DEF Echo
<1>6. CASE Reject(g)
  <2>1. /\ g \in Shards /\ g # Login /\ local[g] # <<>> /\ Pop(g)
        /\ ReserveDisconnect(Current(g).player)
        /\ UNCHANGED <<sent, sid, group, avail, mailbox, unread>>
    BY <1>6, GroupAssumption DEF Reject, At
  <2>2. \A i \in Sessions : sid[Current(g).player] = i => sent[i] # <<>> /\ Offends(i)
    BY <1>6, <1>a, RejectedOffends
  <2>3. Current(g).player \in Players
    BY <2>1, <1>a, CurrentType
  <2>4. JudgedWell /\ \A i : <<i, "full">> \in kicked' => <<i, "full">> \in kicked
    BY <2>1, <2>2, <2>3, Kicking
  <2>5. \A i \in Sessions : unread'[i] <= unread[i]
    BY <2>1, <1>a DEF TypeOK
  <2>6. Fair
    BY <2>1, <2>4, <2>5 DEF Fair
  <2>7. QED
    BY <2>1, <2>6, PoppedPackets
<1>7. QED
  BY <1>1, <1>2, <1>3, <1>4, <1>5, <1>6 DEF ContentThread

LEMMA EnginePackets ==
    ASSUME Sound, TypeOK', PacketInv, NEW i \in Sessions, Engine(i), NoStrayFree', Grown,
           stale \subseteq stale'
    PROVE  PacketInv'
<1>a. Typed /\ Tokens /\ TypeOK /\ Packets /\ Login \in Groups
  BY DEF Sound, Typed, PacketInv, Groups
<1>b. UNCHANGED <<sent, kicked, unread>> => Fair
  BY <1>a, FairStep
<1>c. UNCHANGED <<local, mailbox>> => \A g \in Groups : NoNewPacket(g)
  BY Kept DEF NoNewPacket
<1>1. CASE JoinAlloc(i)
  <2>1. UNCHANGED <<sent, kicked, unread, local, mailbox>>
    BY <1>1, <1>a, JoinAllocTokens
  <2>2. Packets'
    BY <2>1, <1>1, <1>a, <1>b, JoinAllocPackets DEF Fair
  <2>3. QED
    BY <2>1, <2>2, <1>a, <1>b, <1>c, FairPackets
<1>2. CASE JoinInit(i)
  <2>1. UNCHANGED <<sent, kicked, unread, local, mailbox>>
    BY <1>2, <1>a, JoinInitTokens
  <2>2. Packets'
    BY <2>1, <1>2, <1>a, <1>b, JoinInitPackets DEF Fair
  <2>3. QED
    BY <2>1, <2>2, <1>a, <1>b, <1>c, FairPackets
<1>3. CASE JoinInsert(i)
  <2>1. /\ UNCHANGED <<sent, sid, group, avail, local, kicked, unread>>
        /\ mine[i] \in Players /\ Enqueue(Login, Job("JOIN", mine[i], NoPacket))
    BY <1>3, <1>a, JoinInsertTokens
  <2>2. PICK job \in Jobs : Enqueue(Login, job) /\ job.type = "JOIN"
    BY <2>1, JobType DEF Job
  <2>3. QED
    BY <2>1, <2>2, <1>a, <1>b, PostedPackets
<1>4. ASSUME NEW k \in Kinds, OnRecv(i, k) PROVE PacketInv'
  <2>1. Packets' /\ Answers'
    BY <1>4, OnRecvPackets, OnRecvAnswers DEF PacketInv
  <2>2. sent' = [sent EXCEPT ![i] = Append(@, k)] /\ UNCHANGED <<kicked, stale>>
    BY <1>4, <1>a, OnRecvTokens
  <2>3. \A j \in Sessions : sent[j] # <<>> /\ Offends(j) => Offends(j)'
    BY <2>2, <1>a, SendingMore
  <2>4. Logical'
    BY <2>2, <2>3 DEF PacketInv, Logical, Packets
  <2>5. ASSUME NEW j \in Sessions, Len(sent[j]) > SendCap PROVE Len(sent'[j]) > SendCap
    <3>1. Len(sent[j]) \in Nat /\ SendCap \in Nat
      BY <1>a, GroupAssumption DEF TypeOK
    <3>2. CASE j = i
      <4>1. Len(sent'[i]) = Len(sent[i]) + 1
        BY <2>2, <1>a, SendingMore
      <4>2. QED
        BY <2>5, <3>1, <3>2, <4>1
    <3>3. CASE j # i
      BY <2>5, <3>3, <2>2, <1>a, SendingMore
    <3>4. QED
      BY <3>2, <3>3
  <2>6. Filled'
    BY <2>2, <2>5 DEF PacketInv, Filled, Misled
  <2>7. QED
    BY <2>1, <2>4, <2>6 DEF PacketInv
<1>5. CASE OnClientLeave(i)
  <2>1. UNCHANGED <<sent, sid, group, avail, local, kicked, unread>>
    BY <1>5, <1>a, OnClientLeaveTokens
  <2>2. PICK p \in Players, h \in Groups : Enqueue(h, Job("LEAVE", p, NoPacket))
    BY <1>5, <1>a, OnClientLeaveTokens
  <2>3. PICK job \in Jobs : Enqueue(h, job) /\ job.type = "LEAVE"
    BY <2>2, JobType DEF Job
  <2>4. QED
    BY <2>1, <2>3, <1>a, <1>b, PostedPackets
<1>6. CASE LeaveCheck(i)
  <2>1. UNCHANGED <<sent, sid, group, avail, local, mailbox, kicked, unread>>
    BY <1>6, <1>a, LeaveCheckTokens
  <2>2. QED
    BY <2>1, <1>a, <1>b, PostedPackets
<1>7. CASE Transmit(i)
  <2>1. UNCHANGED <<sent, sid, group, avail, local, mailbox, kicked>>
    BY <1>7 DEF Transmit, engineVars, playerVars, groupVars
  <2>2. \A j \in Sessions : unread'[j] <= unread[j]
    <3>1. PICK n \in 0 .. unread[i] - 1 : unread' = [unread EXCEPT ![i] = n]
      BY <1>7 DEF Transmit
    <3>2. \A j \in Sessions : unread[j] \in 0 .. SendCap
      BY <1>a DEF TypeOK
    <3>3. QED
      BY <3>1, <3>2, <1>a DEF TypeOK
  <2>3. Fair
    BY <2>1, <2>2 DEF Fair, JudgedWell
  <2>4. QED
    BY <2>1, <2>3, <1>a, PostedPackets
<1>8. QED
  BY <1>1, <1>2, <1>3, <1>4, <1>5, <1>6, <1>7 DEF Engine

LEMMA NextPackets ==
    ASSUME Sound, TypeOK', PacketInv, [Next]_vars, NoStrayFree', NoStrayPacket'
    PROVE  PacketInv'
<1>1. Grown /\ stale \subseteq stale'
  BY PhaseGrows, StaleGrows DEF Sound, Typed
<1>2. CASE UNCHANGED vars
  <2>1. UNCHANGED <<sent, sid, group, avail, local, mailbox, kicked, unread>>
    BY <1>2 DEF vars, engineVars, playerVars, groupVars, answerVars
  <2>2. Fair
    BY <2>1, <1>1, FairStep DEF Sound, Typed
  <2>3. QED
    BY <2>1, <2>2, PostedPackets
<1>3. QED
  BY <1>1, <1>2, EnginePackets, ContentPackets DEF Next

LEMMA InitPackets == Init => PacketInv
<1> SUFFICES ASSUME Init PROVE PacketInv
  OBVIOUS
<1>1. /\ kicked = {} /\ stale = {} /\ \A p \in Players : sid[p] = NoSession
      /\ \A i \in Sessions : sent[i] = <<>> /\ unread[i] = 0
  BY DEF Init
<1>2. \A g \in Groups : Queue(g) = <<>>
  <2>1. \A g \in Groups : local[g] = <<>> /\ mailbox[g] = <<>>
    BY DEF Init
  <2>2. <<>> \o <<>> = <<>>
    OBVIOUS
  <2>3. QED
    BY <2>1, <2>2 DEF Queue
<1>3. Packets
  BY <1>1, <1>2, GroupAssumption DEF Packets, Pending
<1>4. \A i \in Sessions : Waiting(i) = 0
  <2>1. \A g \in Groups, i \in Sessions : Places(g, i) = {}
    BY <1>2 DEF Places
  <2>2. \A i \in Sessions : ShardOf[i] \in Groups /\ Login \in Groups
    BY GroupAssumption DEF Groups, Ids
  <2>3. QED
    BY <2>1, <2>2, FS_EmptySet DEF Waiting
<1>5. Answers
  BY <1>1, <1>4 DEF Answers
<1>6. QED
  BY <1>1, <1>3, <1>5 DEF PacketInv, Logical, Filled

(* The server itself disconnects only who breaks the protocol, and who asks  *)
(* for more than its send ring holds or gets the answer of another session, *)
(* until a packet is handled for the wrong session: whoever sends its LOGIN  *)
(* first and echoes from then on stays, although the packets may reach       *)
(* either group and the hand-over runs while they come in.                  *)
THEOREM OnlyOffendersAreThrownOut == Spec => []OnlyOffendersKicked
<1> DEFINE Inv == NoStrayFree /\ NoStrayPacket => PacketInv
<1>1. Init => Inv
  BY InitPackets
<1>2. PlayerInv /\ PlayerInv' /\ Inv /\ [Next]_vars => Inv'
  <2> SUFFICES ASSUME PlayerInv, PlayerInv', Inv, [Next]_vars, NoStrayFree', NoStrayPacket'
               PROVE  PacketInv'
    OBVIOUS
  <2>1. NoStrayFree /\ NoStrayPacket
    BY StaleGrows
  <2>2. Sound /\ PacketInv /\ TypeOK'
    BY <2>1 DEF PlayerInv, Sound, Typed
  <2>3. QED
    BY <2>2, NextPackets
<1>3. Inv => OnlyOffendersKicked
  BY DEF OnlyOffendersKicked, PacketInv, Logical, Filled
<1> HIDE DEF Inv
<1>4. QED
  BY <1>1, <1>2, <1>3, SpecPlayerInv, PTL DEF Spec

================================================================================
