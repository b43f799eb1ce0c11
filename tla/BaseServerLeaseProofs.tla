------------------------- MODULE BaseServerLeaseProofs -------------------------
(***************************************************************************)
(* The session engine implements SessionLease: every step of it is a step   *)
(* of the lease on one slot, or changes nothing the lease speaks of. The    *)
(* kinds of steps are those of BaseServerLifeProofs, and IInv and LifeInv   *)
(* say in which phase the slot of each of them is.                          *)
(***************************************************************************)
EXTENDS BaseServerLease, BaseServerLifeProofs

-----------------------------------------------------------------------------
(* The mapping.                                                            *)

(* The phase and the holders of a slot. *)
LEMMA MapOf ==
  ASSUME NEW s \in Slots
  PROVE  Phases[s] = PhaseOf(s) /\ Holds[s] = HoldersOf(s)
BY DEF Phases, Holds

(* The end of the lease is told by a worker in the clean-up of the slot. *)
LEMMA EndingIsCleaned ==
  ASSUME IInv, NEW s \in Slots, Ending(s)
  PROVE  s \notin free /\ cleanup[s] /\ release[s] /\ ThreadRefs(s) = {}
BY AtIsCleaned DEF Ending, InCleanup

(* A slot somebody refers to is open or closing.                            *)
LEMMA LivePhase ==
  ASSUME IInv, NEW s \in Slots, s \notin free, ~cleanup[s]
  PROVE  PhaseOf(s) = IF release[s] THEN "closing" ELSE "open"
BY EndingIsCleaned DEF PhaseOf

(* Phases change with the free stack, with FLAG_RELEASE and with Ending. *)
LEMMA PhasesKept ==
  ASSUME UNCHANGED <<free, release>>, \A s \in Slots : Ending(s)' <=> Ending(s)
  PROVE  Phases' = Phases
<1>1. \A s \in Slots : PhaseOf(s)' = PhaseOf(s)
  BY DEF PhaseOf
<1> QED BY <1>1 DEF Phases

(* One slot changes its phase. *)
LEMMA PhaseChanged ==
  ASSUME NEW s \in Slots, NEW p, PhaseOf(s)' = p,
         \A r \in Slots : r # s => PhaseOf(r)' = PhaseOf(r)
  PROVE  Phases' = [Phases EXCEPT ![s] = p]
BY DEF Phases

(* No holder comes or goes. *)
LEMMA HoldsKept ==
  ASSUME \A s \in Slots : /\ ThreadRefs(s)' = ThreadRefs(s)
                          /\ recv'[s] = "none" <=> recv[s] = "none"
                          /\ send'[s] = "none" <=> send[s] = "none"
  PROVE  Holds' = Holds
<1>1. \A s \in Slots : HoldersOf(s)' = HoldersOf(s)
  BY DEF HoldersOf
<1> QED BY <1>1 DEF Holds

(* The holders of one slot change. *)
LEMMA HoldersChanged ==
  ASSUME NEW s \in Slots, NEW h, HoldersOf(s)' = h,
         \A r \in Slots : r # s => HoldersOf(r)' = HoldersOf(r)
  PROVE  Holds' = [Holds EXCEPT ![s] = h]
BY DEF Holds

(* The parties of the lease. *)
LEMMA HolderFacts ==
  /\ \A t \in Threads, r \in {"call", "io"} : <<t, r>> \in Holders
  /\ <<Kernel, "recv">> \in Holders /\ <<Kernel, "send">> \in Holders
BY DEF Holders

(* Where a thread holds a slot, and where an I/O does. *)
LEMMA HoldersMembers ==
  ASSUME NEW s \in Slots
  PROVE  /\ \A t \in Threads, r \in {"call", "io"} :
                <<t, r>> \in HoldersOf(s) <=> slot[t] = s /\ r \in own[t]
         /\ <<Kernel, "recv">> \in HoldersOf(s) <=> recv[s] # "none"
         /\ <<Kernel, "send">> \in HoldersOf(s) <=> send[s] # "none"
BY DEF HoldersOf, ThreadRefs

(* A calm step leaves phases to FLAG_RELEASE, ids and told ends alone. *)
LEMMA CalmLease ==
  ASSUME IInv, NEW t \in Threads, Calm(t)
  PROVE  /\ id' = id /\ left' = left /\ free' = free
         /\ \A s \in Slots : Ending(s)' <=> Ending(s)
         /\ release' = release => Phases' = Phases
<1>1. \A s \in Slots : Ending(s)' <=> Ending(s)
  BY AtFrame DEF Ending, Calm, StepOf, Late, InCleanup
<1> QED BY <1>1, PhasesKept DEF Calm

-----------------------------------------------------------------------------
(* Steps of the lease.                                                     *)

(* A step that moves neither a reference nor the flag is none. *)
LEMMA QuietLease ==
  ASSUME IInv, NEW t \in Threads, Quiet(t) \/ Posts(t)
  PROVE  UNCHANGED Lease!leaseVars
<1>1. Calm(t) /\ release' = release
  BY DEF Quiet, Posts
<1>2. \A s \in Slots : ThreadRefs(s)' = ThreadRefs(s)
  BY <1>1, RefsKept DEF Quiet, Posts, Calm, StepOf
<1>3. Holds' = Holds
  BY <1>2, HoldsKept DEF Quiet, Posts
<1> QED BY <1>1, <1>3, CalmLease DEF Lease!leaseVars

(* IncreaseIoCount: the thread becomes a holder of an open slot. *)
LEMMA TakesLease ==
  ASSUME IInv, NEW t \in Threads, NEW r \in {"call", "io"}, Takes(t, r)
  PROVE  Lease!Next
<1>1. PICK s \in Slots : s = slot[t]
  BY DEF Takes
<1>2. /\ Calm(t) /\ OthersKeep(t) /\ ~release[s] /\ pc[t] # "cleanup"
      /\ r \notin own[t] /\ own'[t] = own[t] \cup {r} /\ slot'[t] = s
      /\ recv' = recv /\ send' = send /\ release' = release
  BY <1>1 DEF Takes, Calm, StepOf, Releasing
<1>3. s \notin free /\ ~cleanup[s]
  BY <1>1, <1>2 DEF IInv, SlotInv
<1>4. Phases[s] = "open"
  BY <1>2, <1>3, LivePhase, MapOf
<1>5. Phases' = Phases /\ id' = id /\ left' = left
  BY <1>2, CalmLease
<1>6. <<t, r>> \in Holders /\ <<t, r>> \notin Holds[s]
  <2>1. <<t, r>> \in Holders
    BY HolderFacts
  <2>2. <<t, r>> \notin HoldersOf(s)
    BY <1>2 DEF HoldersOf, ThreadRefs
  <2> QED BY <2>1, <2>2, MapOf
<1>7. Holds' = [Holds EXCEPT ![s] = @ \cup {<<t, r>>}]
  <2>1. HoldersOf(s)' = HoldersOf(s) \cup {<<t, r>>}
    <3>1. ThreadRefs(s)' = ThreadRefs(s) \cup {<<t, r>>}
      BY <1>1, <1>2 DEF ThreadRefs, OthersKeep
    <3> QED BY <1>2, <3>1 DEF HoldersOf
  <2>2. \A q \in Slots : q # s => HoldersOf(q)' = HoldersOf(q)
    <3>1. \A q \in Slots : q # s => ThreadRefs(q)' = ThreadRefs(q)
      BY <1>1, <1>2 DEF ThreadRefs, OthersKeep
    <3> QED BY <1>2, <3>1 DEF HoldersOf
  <2>3. Holds' = [Holds EXCEPT ![s] = HoldersOf(s) \cup {<<t, r>>}]
    BY <2>1, <2>2, HoldersChanged
  <2> QED BY <2>3, MapOf
<1>8. Lease!Hold(s, <<t, r>>)
  BY <1>4, <1>5, <1>6, <1>7 DEF Lease!Hold
<1> QED BY <1>6, <1>8 DEF Lease!Next

(* decreaseSessionIoCount: the thread lets go of the slot. *)
LEMMA DropsLease ==
  ASSUME IInv, NEW t \in Threads, NEW r \in {"call", "io"}, Drops(t, r)
  PROVE  Lease!Next
<1>1. PICK s \in Slots : s = slot[t]
  BY DEF Drops
<1>2. /\ Calm(t) /\ OthersKeep(t) /\ r \in own[t] /\ own'[t] = own[t] \ {r}
      /\ own'[t] = {} \/ slot'[t] = s
      /\ recv' = recv /\ send' = send /\ release' = release
  BY <1>1 DEF Drops, DropRef, Calm, StepOf
<1>3. Phases' = Phases /\ id' = id /\ left' = left
  BY <1>2, CalmLease
<1>4. <<t, r>> \in Holders /\ <<t, r>> \in Holds[s]
  <2>1. <<t, r>> \in Holders
    BY HolderFacts
  <2>2. <<t, r>> \in HoldersOf(s)
    BY ZenonT(40), <1>1, <1>2, HoldersMembers
  <2> QED BY <2>1, <2>2, MapOf
<1>5. Holds' = [Holds EXCEPT ![s] = @ \ {<<t, r>>}]
  <2>1. HoldersOf(s)' = HoldersOf(s) \ {<<t, r>>}
    <3>1. ThreadRefs(s)' = ThreadRefs(s) \ {<<t, r>>}
      BY <1>1, <1>2 DEF ThreadRefs, OthersKeep
    <3> QED BY <1>2, <3>1 DEF HoldersOf
  <2>2. \A q \in Slots : q # s => HoldersOf(q)' = HoldersOf(q)
    <3>1. \A q \in Slots : q # s => ThreadRefs(q)' = ThreadRefs(q)
      BY <1>1, <1>2 DEF ThreadRefs, OthersKeep
    <3> QED BY <1>2, <3>1 DEF HoldersOf
  <2>3. Holds' = [Holds EXCEPT ![s] = HoldersOf(s) \ {<<t, r>>}]
    BY <2>1, <2>2, HoldersChanged
  <2> QED BY <2>3, MapOf
<1>6. Lease!LetGo(s, <<t, r>>)
  BY <1>3, <1>4, <1>5 DEF Lease!LetGo
<1> QED BY <1>4, <1>6 DEF Lease!Next

(* A thread hands its hold to the I/O it started. *)
LEMMA StartsLease ==
  ASSUME IInv, NEW t \in Threads, Starts(t)
  PROVE  Lease!Next
<1>1. PICK s \in Slots : s = slot[t]
  BY DEF Starts
<1>2. /\ Calm(t) /\ OthersKeep(t) /\ "io" \in own[t] /\ own'[t] = own[t] \ {"io"}
      /\ own'[t] = {} \/ slot'[t] = s
      /\ release' = release
  BY <1>1 DEF Starts, Calm, StepOf
<1>3. Phases' = Phases /\ id' = id /\ left' = left
  BY <1>2, CalmLease
<1>4. Phases[s] \in {"open", "closing"}
  <2>1. s \notin free /\ ~cleanup[s]
    BY <1>1, <1>2, OwnedIsLive DEF IInv
  <2> QED BY <2>1, LivePhase, MapOf
<1>5. PICK k \in {<<Kernel, "recv">>, <<Kernel, "send">>} :
         /\ k \notin HoldersOf(s)
         /\ HoldersOf(s)' = (HoldersOf(s) \ {<<t, "io">>}) \cup {k}
         /\ \A q \in Slots : q # s => HoldersOf(q)' = HoldersOf(q)
  <2>1. ThreadRefs(s)' = ThreadRefs(s) \ {<<t, "io">>}
    BY <1>1, <1>2 DEF ThreadRefs, OthersKeep
  <2>2. \A q \in Slots : q # s => ThreadRefs(q)' = ThreadRefs(q)
    BY <1>1, <1>2 DEF ThreadRefs, OthersKeep
  <2>3. /\ recv \in [Slots -> Outcomes] /\ send \in [Slots -> Outcomes \ {"fin"}]
    BY DEF IInv, TypeInv, SessionTypes
  <2>4. CASE recv[s] = "none" /\ recv' = [recv EXCEPT ![s] = "pending"] /\ send' = send
    <3>1. recv'[s] = "pending" /\ \A q \in Slots : q # s => recv'[q] = recv[q]
      BY <2>3, <2>4
    <3>2. <<Kernel, "recv">> \notin HoldersOf(s)
      BY <2>4, HoldersMembers
    <3>3. HoldersOf(s)' = (HoldersOf(s) \ {<<t, "io">>}) \cup {<<Kernel, "recv">>}
      BY <2>1, <2>4, <3>1 DEF HoldersOf
    <3>4. \A q \in Slots : q # s => HoldersOf(q)' = HoldersOf(q)
      BY <2>2, <2>4, <3>1 DEF HoldersOf
    <3> QED BY <3>2, <3>3, <3>4
  <2>5. CASE send[s] = "none" /\ send' = [send EXCEPT ![s] = "pending"] /\ recv' = recv
    <3>1. send'[s] = "pending" /\ \A q \in Slots : q # s => send'[q] = send[q]
      BY <2>3, <2>5
    <3>2. <<Kernel, "send">> \notin HoldersOf(s)
      BY <2>5, HoldersMembers
    <3>3. HoldersOf(s)' = (HoldersOf(s) \ {<<t, "io">>}) \cup {<<Kernel, "send">>}
      BY <2>1, <2>5, <3>1 DEF HoldersOf
    <3>4. \A q \in Slots : q # s => HoldersOf(q)' = HoldersOf(q)
      BY <2>2, <2>5, <3>1 DEF HoldersOf
    <3> QED BY <3>2, <3>3, <3>4
  <2> QED BY <1>1, <2>4, <2>5 DEF Starts
<1>6. <<t, "io">> \in Holders /\ k \in Holders
  BY HolderFacts
<1>7. <<t, "io">> \in Holds[s] /\ k \notin Holds[s]
  <2>1. <<t, "io">> \in HoldersOf(s)
    BY <1>1, <1>2, HoldersMembers
  <2> QED BY <1>5, <2>1, MapOf
<1>8. Holds' = [Holds EXCEPT ![s] = (@ \ {<<t, "io">>}) \cup {k}]
  <2>1. Holds' = [Holds EXCEPT ![s] = (HoldersOf(s) \ {<<t, "io">>}) \cup {k}]
    BY <1>5, HoldersChanged
  <2> QED BY <2>1, MapOf
<1>9. Lease!HandOver(s, <<t, "io">>, k)
  BY <1>3, <1>4, <1>7, <1>8 DEF Lease!HandOver
<1> QED BY <1>6, <1>9 DEF Lease!Next

(* A completed I/O hands its hold to the worker that serves it. *)
LEMMA EndsLease ==
  ASSUME IInv, NEW w \in Threads, NEW s \in Slots, Ends(w, s)
  PROVE  Lease!Next
<1>1. /\ Calm(w) /\ OthersKeep(w) /\ own[w] = {} /\ own'[w] = {"call"} /\ slot'[w] = s
      /\ release' = release
  BY DEF Ends, Calm, StepOf
<1>2. Phases' = Phases /\ id' = id /\ left' = left
  BY <1>1, CalmLease
<1>3. Phases[s] \in {"open", "closing"}
  <2>1. recv[s] # "none" \/ send[s] # "none"
    BY DEF Ends
  <2>2. s \notin free /\ ~cleanup[s]
    BY <2>1 DEF IInv, ReferencedIsLive
  <2> QED BY <2>2, LivePhase, MapOf
<1>4. PICK h \in {<<Kernel, "recv">>, <<Kernel, "send">>} :
         /\ h \in HoldersOf(s)
         /\ HoldersOf(s)' = (HoldersOf(s) \ {h}) \cup {<<w, "call">>}
         /\ \A q \in Slots : q # s => HoldersOf(q)' = HoldersOf(q)
  <2>1. ThreadRefs(s)' = ThreadRefs(s) \cup {<<w, "call">>}
    BY <1>1 DEF ThreadRefs, OthersKeep
  <2>2. \A q \in Slots : q # s => ThreadRefs(q)' = ThreadRefs(q)
    BY <1>1 DEF ThreadRefs, OthersKeep
  <2>3. /\ recv \in [Slots -> Outcomes] /\ send \in [Slots -> Outcomes \ {"fin"}]
    BY DEF IInv, TypeInv, SessionTypes
  <2>4. CASE recv[s] # "none" /\ recv' = [recv EXCEPT ![s] = "none"] /\ send' = send
    <3>1. recv'[s] = "none" /\ \A q \in Slots : q # s => recv'[q] = recv[q]
      BY <2>3, <2>4
    <3>2. <<Kernel, "recv">> \in HoldersOf(s)
      BY <2>4, HoldersMembers
    <3>3. HoldersOf(s)' = (HoldersOf(s) \ {<<Kernel, "recv">>}) \cup {<<w, "call">>}
      BY <2>1, <2>4, <3>1 DEF HoldersOf, ThreadRefs
    <3>4. \A q \in Slots : q # s => HoldersOf(q)' = HoldersOf(q)
      BY <2>2, <2>4, <3>1 DEF HoldersOf
    <3> QED BY <3>2, <3>3, <3>4
  <2>5. CASE send[s] # "none" /\ send' = [send EXCEPT ![s] = "none"] /\ recv' = recv
    <3>1. send'[s] = "none" /\ \A q \in Slots : q # s => send'[q] = send[q]
      BY <2>3, <2>5
    <3>2. <<Kernel, "send">> \in HoldersOf(s)
      BY <2>5, HoldersMembers
    <3>3. HoldersOf(s)' = (HoldersOf(s) \ {<<Kernel, "send">>}) \cup {<<w, "call">>}
      BY <2>1, <2>5, <3>1 DEF HoldersOf, ThreadRefs
    <3>4. \A q \in Slots : q # s => HoldersOf(q)' = HoldersOf(q)
      BY <2>2, <2>5, <3>1 DEF HoldersOf
    <3> QED BY <3>2, <3>3, <3>4
  <2> QED BY <2>4, <2>5 DEF Ends
<1>5. <<w, "call">> \in Holders /\ h \in Holders
  BY HolderFacts
<1>6. h \in Holds[s] /\ <<w, "call">> \notin Holds[s]
  <2>1. <<w, "call">> \notin HoldersOf(s)
    BY <1>1, HoldersMembers
  <2> QED BY <1>4, <2>1, MapOf
<1>7. Holds' = [Holds EXCEPT ![s] = (@ \ {h}) \cup {<<w, "call">>}]
  <2>1. Holds' = [Holds EXCEPT ![s] = (HoldersOf(s) \ {h}) \cup {<<w, "call">>}]
    BY <1>4, HoldersChanged
  <2> QED BY <2>1, MapOf
<1>8. Lease!HandOver(s, h, <<w, "call">>)
  BY <1>2, <1>3, <1>6, <1>7 DEF Lease!HandOver
<1> QED BY <1>5, <1>8 DEF Lease!Next

(* requestRelease closes the lease of the session. *)
LEMMA ClosesLease ==
  ASSUME IInv, NEW t \in Threads, Closes(t)
  PROVE  Lease!Next
<1>1. PICK s \in Slots : s = slot[t]
  BY DEF Closes
<1>2. /\ Calm(t) /\ OthersKeep(t) /\ ~release[s] /\ pc[t] = "setRelease" /\ own'[t] = own[t]
      /\ slot'[t] = slot[t] /\ recv' = recv /\ send' = send
      /\ release' = [release EXCEPT ![s] = TRUE]
  BY <1>1 DEF Closes, Calm, StepOf
<1>3. s \notin free /\ ~cleanup[s]
  BY <1>1, <1>2 DEF IInv, SlotInv
<1>4. /\ id' = id /\ left' = left /\ free' = free
      /\ \A q \in Slots : Ending(q)' <=> Ending(q)
  BY <1>2, CalmLease
<1>5. Phases[s] = "open"
  BY <1>2, <1>3, LivePhase, MapOf
<1>6. Phases' = [Phases EXCEPT ![s] = "closing"]
  <2>1. /\ release'[s] /\ \A q \in Slots : q # s => release'[q] = release[q]
    BY <1>2 DEF IInv, TypeInv, SessionTypes
  <2>2. ~Ending(s)
    BY <1>3, EndingIsCleaned
  <2>3. PhaseOf(s)' = "closing"
    BY <1>3, <1>4, <2>1, <2>2 DEF PhaseOf
  <2>4. \A q \in Slots : q # s => PhaseOf(q)' = PhaseOf(q)
    BY <1>4, <2>1 DEF PhaseOf
  <2> QED BY <2>3, <2>4, PhaseChanged
<1>7. Holds' = Holds
  <2>1. \A q \in Slots : ThreadRefs(q)' = ThreadRefs(q)
    BY <1>2, RefsKept
  <2> QED BY <1>2, <2>1, HoldsKept
<1>8. Lease!Close(s)
  BY <1>4, <1>5, <1>6, <1>7 DEF Lease!Close
<1> QED BY <1>8 DEF Lease!Next

(* No step of a calm kind does anything the lease does not allow. *)
LEMMA CalmKindLease ==
  ASSUME IInv, NEW t \in Threads, CalmKind(t)
  PROVE  [Lease!Next]_(Lease!leaseVars)
<1>1. CASE Quiet(t) \/ Posts(t)
  BY <1>1, QuietLease
<1>2. CASE Starts(t) \/ Closes(t)
  BY <1>2, StartsLease, ClosesLease
<1>3. CASE \E r \in {"call", "io"} : Takes(t, r) \/ Drops(t, r)
  BY <1>3, TakesLease, DropsLease
<1>4. CASE \E s \in Slots : Ends(t, s)
  BY <1>4, EndsLease
<1> QED BY <1>1, <1>2, <1>3, <1>4 DEF CalmKind

(* Nothing the lease speaks of changes. *)
LEMMA SameLease ==
  ASSUME UNCHANGED <<free, release, id, left, recv, send>>,
         \A s \in Slots : ThreadRefs(s)' = ThreadRefs(s),
         \A s \in Slots : Ending(s)' <=> Ending(s)
  PROVE  UNCHANGED Lease!leaseVars
BY PhasesKept, HoldsKept DEF Lease!leaseVars

(* createSession pops a slot: a lease is opened. *)
LEMMA AcceptLease ==
  ASSUME IInv, LifeInv, Accept
  PROVE  Lease!Next
<1> DEFINE t == Acceptor
<1>1. PICK s \in free :
         /\ free' = free \ {s} /\ InitSession(s)
         /\ Begin(t, "Accept", NoId, s, NoPacket, "assignId")
  BY DEF Accept
<1>2. /\ t \in Threads /\ pc[t] = "idle" /\ own[t] = {}
      /\ UNCHANGED <<recv, send, left, own, zero>>
  BY DEF Accept, Threads, appVars, IInv, ThreadInv, ThreadOK, Owns
<1>3. s \in Slots /\ id[s] = NoId
  BY FreeIsClean
<1>4. OthersKeep(t) /\ pc'[t] = "assignId"
  BY <1>1, <1>2, <1>3, BeginMoves DEF Ops, Labels, StepOf
<1>5. id' = id /\ ~release'[s] /\ \A q \in Slots : q # s => release'[q] = release[q]
  BY <1>1, <1>3 DEF InitSession, IInv, TypeInv, SessionTypes
<1>6. \A q \in Slots : Ending(q)' <=> Ending(q)
  BY <1>2, <1>4, AtFrame DEF Ending
<1>7. Phases[s] = "free" /\ Holds[s] = {}
  <2>1. PhaseOf(s) = "free"
    BY DEF PhaseOf
  <2>2. ThreadRefs(s) = {} /\ recv[s] = "none" /\ send[s] = "none"
    BY <1>3 DEF IInv, ReferencedIsLive
  <2>3. HoldersOf(s) = {}
    BY <2>2 DEF HoldersOf
  <2> QED BY <1>3, <2>1, <2>3, MapOf
<1>8. Phases' = [Phases EXCEPT ![s] = "open"]
  <2>1. PhaseOf(s)' = "open"
    BY <1>1, <1>5 DEF PhaseOf
  <2>2. \A q \in Slots : q # s => PhaseOf(q)' = PhaseOf(q)
    BY <1>1, <1>5, <1>6 DEF PhaseOf
  <2> QED BY <1>3, <2>1, <2>2, PhaseChanged
<1>9. Holds' = Holds
  <2>1. \A q \in Slots : ThreadRefs(q)' = ThreadRefs(q)
    BY <1>2, <1>4, RefsKept
  <2> QED BY <1>2, <2>1, HoldsKept
<1>10. Lease!Open(s)
  BY <1>2, <1>5, <1>7, <1>8, <1>9 DEF Lease!Open
<1> QED BY <1>3, <1>10 DEF Lease!Next

(* The lease gets its id, one that no slot has and none had. *)
LEMMA AssignIdLease ==
  ASSUME IInv, LifeInv, AssignId
  PROVE  Lease!Next
<1> DEFINE t == Acceptor
<1>1. /\ t \in Threads /\ pc[t] = "assignId" /\ slot[t] \in Slots /\ Preparing
      /\ Goto(t, "publish") /\ UNCHANGED ctxVars
      /\ UNCHANGED <<ctlVars, recv, send, free, left, own, zero>>
  BY ThreadFacts DEF AssignId, Threads, IInv, appVars, Preparing
<1>2. PICK s \in Slots : s = slot[t]
  BY <1>1
<1>3. PICK i \in Slots \X (0..MaxUnique) : i = <<s, nextUnique>>
  <2>1. nextUnique \in 0..MaxUnique
    BY <1>1, ConstantAssumption DEF LifeInv, NamingInv, IInv, TypeInv, ServerTypes
  <2> QED BY <2>1
<1>4. id' = [id EXCEPT ![s] = i]
  BY <1>2, <1>3 DEF AssignId
<1>5. StepOf(t) /\ pc'[t] = "publish" /\ slot' = slot
  BY <1>1, GotoMoves DEF Labels
<1>6. Phases[s] = "open" /\ id[s] = NoId
  <2>1. s \notin free /\ ~release[s]
    BY <1>1, <1>2 DEF IInv, PrepareInv
  <2>2. PhaseOf(s) = "open"
    BY <2>1 DEF PhaseOf
  <2> QED BY <1>1, <1>2, <2>2, MapOf DEF LifeInv, NamingInv
<1>7. i \notin left /\ \A q \in Slots : id[q] # i
  <2>1. i[2] = nextUnique /\ nextUnique \in Nat /\ i # NoId
    BY <1>3, ConstantAssumption DEF IInv, TypeInv, ServerTypes, Ids
  <2>2. i \notin left
    BY <2>1 DEF LifeInv, ToldInv
  <2>3. \A q \in Slots : id[q] # i
    BY <2>1 DEF IInv, FreshIds
  <2> QED BY <2>2, <2>3
<1>8. Phases' = Phases /\ Holds' = Holds
  <2>1. \A q \in Slots : Ending(q)' <=> Ending(q)
    BY <1>1, <1>5, AtFrame DEF Ending, StepOf
  <2>2. \A q \in Slots : ThreadRefs(q)' = ThreadRefs(q)
    BY <1>1, <1>5, RefsKept DEF StepOf
  <2> QED BY <1>1, <2>1, <2>2, PhasesKept, HoldsKept DEF ctlVars
<1>9. Lease!Name(s, i)
  BY <1>1, <1>4, <1>6, <1>7, <1>8 DEF Lease!Name
<1> QED BY <1>9 DEF Lease!Next

(* The lease knows nothing of states, sockets and counters. *)
LEMMA PublishLease ==
  ASSUME IInv, Publish
  PROVE  UNCHANGED Lease!leaseVars
<1> DEFINE t == Acceptor
<1>1. /\ t \in Threads /\ pc[t] = "publish" /\ Goto(t, "register") /\ UNCHANGED ctxVars
      /\ UNCHANGED <<ctlVars, id, recv, send, free, left, own, zero>>
  BY DEF Publish, Threads, appVars
<1>2. StepOf(t) /\ pc'[t] = "register" /\ slot' = slot
  BY <1>1, GotoMoves DEF Labels
<1>3. \A q \in Slots : Ending(q)' <=> Ending(q)
  BY <1>1, <1>2, AtFrame DEF Ending, StepOf
<1>4. \A q \in Slots : ThreadRefs(q)' = ThreadRefs(q)
  BY <1>1, <1>2, RefsKept DEF StepOf
<1> QED BY <1>1, <1>3, <1>4, SameLease DEF ctlVars

LEMMA ReleaseTakenLease ==
  ASSUME IInv, LifeInv, NEW w \in Workers, NEW s \in Slots, ReleaseTaken(w, s)
  PROVE  UNCHANGED Lease!leaseVars
<1>1. /\ w \in Threads /\ Calm(w) /\ own[w] = {} /\ own' = own /\ UNCHANGED <<release, recv, send>>
  BY ReleaseTakenLife
     DEF ReleaseTaken, Threads, IInv, ThreadInv, ThreadOK, Owns, ctlVars
<1>2. \A q \in Slots : ThreadRefs(q)' = ThreadRefs(q)
  BY <1>1, RefsKept DEF Calm, StepOf
<1> QED BY <1>1, <1>2, CalmLease, SameLease

(* What a step of the clean-up moves: the phase of its own slot at most.    *)
LEMMA CleanerLease ==
  ASSUME IInv, NEW w \in Threads, CleanerMoves(w), NEW s \in Slots, s = slot[w],
         UNCHANGED <<free, release, recv, send, own>>
  PROVE  /\ Holds' = Holds
         /\ Ending(s)' <=> pc'[w] \in {"drainAll", "reset", "push"}
         /\ \A q \in Slots : q # s => (Ending(q)' <=> Ending(q)) /\ PhaseOf(q)' = PhaseOf(q)
<1>1. {"drainAll", "reset", "push"} \subseteq InCleanup
  BY DEF InCleanup
<1>2. Ending(s)' <=> pc'[w] \in {"drainAll", "reset", "push"}
  BY <1>1, AtCleanerMoves DEF Ending
<1>3. \A q \in Slots : q # s => (Ending(q)' <=> Ending(q))
  BY <1>1, AtCleanerMoves DEF Ending
<1>4. \A q \in Slots : q # s => PhaseOf(q)' = PhaseOf(q)
  BY <1>3 DEF PhaseOf
<1>5. \A q \in Slots : ThreadRefs(q)' = ThreadRefs(q)
  BY RefsKept DEF CleanerMoves, StepOf
<1>6. Holds' = Holds
  BY <1>5, HoldsKept
<1> QED BY <1>2, <1>3, <1>4, <1>6

(* Where in its clean-up a worker has told the end. *)
LEMMA EndingHere ==
  ASSUME IInv, NEW w \in Threads, pc[w] \in InCleanup, NEW s \in Slots, s = slot[w]
  PROVE  /\ Ending(s) <=> pc[w] \in {"drainAll", "reset", "push"}
         /\ s \notin free /\ release[s] /\ cleanup[s]
<1>1. {"drainAll", "reset", "push"} \subseteq InCleanup
  BY DEF InCleanup
<1> QED BY <1>1, AtCleaner, CleaningFacts DEF Ending

LEMMA CleanupLease ==
  ASSUME IInv, LifeInv, NEW w \in Threads, Cleanup(w) \/ CloseSocket(w) \/ DrainAll(w)
  PROVE  UNCHANGED Lease!leaseVars
<1>1. /\ CleanerMoves(w) /\ UNCHANGED <<free, release, recv, send, own, id, left>>
      /\ \/ pc[w] = "cleanup" /\ pc'[w] = "close"
         \/ pc[w] = "close" /\ pc'[w] = "leave"
         \/ pc[w] = "drainAll" /\ pc'[w] = "reset"
  BY CleanupLife, CloseSocketLife, DrainAllLife
     DEF Cleanup, CloseSocket, DrainAll, ctlVars, idVars, poolVars, appVars
<1>2. PICK s \in Slots : s = slot[w]
  <2>1. pc[w] # "idle"
    BY <1>1
  <2> QED BY <2>1, ThreadFacts DEF IInv
<1>3. Ending(s)' <=> Ending(s)
  <2>1. CASE pc[w] = "cleanup"
    <3>1. ~cleanup[s]
      BY <1>2, <2>1, CleanupWins
    <3> QED BY <1>1, <1>2, <2>1, <3>1, CleanerLease, EndingIsCleaned
  <2>2. CASE pc[w] # "cleanup"
    <3>1. pc[w] \in InCleanup
      BY <1>1, <2>2 DEF InCleanup
    <3> QED BY <1>1, <1>2, <2>2, <3>1, CleanerLease, EndingHere
  <2> QED BY <2>1, <2>2
<1>4. \A q \in Slots : Ending(q)' <=> Ending(q)
  BY <1>1, <1>2, <1>3, CleanerLease
<1>5. \A q \in Slots : ThreadRefs(q)' = ThreadRefs(q)
  BY <1>1, RefsKept DEF CleanerMoves, StepOf
<1> QED BY <1>1, <1>4, <1>5, SameLease

(* OnClientLeave: the end is told, of the session nobody holds any more. *)
LEMMA LeaveLease ==
  ASSUME IInv, LifeInv, NEW w \in Threads, Leave(w)
  PROVE  Lease!Next
<1>1. /\ CleanerMoves(w) /\ pc[w] = "leave" /\ pc'[w] = "drainAll" /\ left' = left \cup {arg[w]}
      /\ UNCHANGED <<free, release, recv, send, own, id>>
  BY LeaveLife DEF Leave, ctlVars, idVars
<1>2. PICK s \in Slots : s = slot[w]
  BY <1>1, ThreadFacts DEF IInv
<1>3. pc[w] \in InCleanup
  BY <1>1 DEF InCleanup
<1>4. s \notin free /\ release[s] /\ cleanup[s] /\ ~Ending(s)
  BY <1>1, <1>2, <1>3, EndingHere
<1>5. Holds[s] = {} /\ Phases[s] = "closing"
  <2>1. PhaseOf(s) = "closing"
    BY <1>4 DEF PhaseOf
  <2>2. ThreadRefs(s) = {} /\ recv[s] = "none" /\ send[s] = "none"
    BY <1>4 DEF IInv, ReferencedIsLive
  <2>3. HoldersOf(s) = {}
    BY <2>2 DEF HoldersOf
  <2> QED BY <2>1, <2>3, MapOf
<1>6. id[s] = arg[w] /\ id[s] # NoId /\ id[s] \notin left
  <2>1. id[s] = arg[w] /\ arg[w] \in Ids
    BY <1>1, <1>2, <1>3 DEF IInv, CleanerInv
  <2>2. {"drainAll", "reset"} \subseteq InCleanup
    BY DEF InCleanup
  <2>3. ~At(s, {"drainAll", "reset"})
    BY <1>1, <1>2, <1>3, <2>2, AtCleaner
  <2> QED BY <2>1, <2>3, ConstantAssumption DEF LifeInv, ToldInv
<1>7. Holds' = Holds /\ Ending(s)' /\ \A q \in Slots : q # s => PhaseOf(q)' = PhaseOf(q)
  BY <1>1, <1>2, CleanerLease
<1>8. Phases' = [Phases EXCEPT ![s] = "ended"]
  <2>1. PhaseOf(s)' = "ended"
    BY <1>1, <1>4, <1>7 DEF PhaseOf
  <2> QED BY <1>7, <2>1, PhaseChanged
<1>9. Lease!Tell(s)
  BY <1>1, <1>5, <1>6, <1>7, <1>8 DEF Lease!Tell
<1> QED BY <1>9 DEF Lease!Next

(* Session::Reset: the ended lease loses its id. *)
LEMMA ResetLease ==
  ASSUME IInv, LifeInv, NEW w \in Threads, Reset(w)
  PROVE  Lease!Next
<1>1. /\ CleanerMoves(w) /\ pc[w] = "reset" /\ pc'[w] = "push" /\ left' = left
      /\ UNCHANGED <<free, release, recv, send, own>>
  BY ResetLife DEF Reset, ctlVars, poolVars, appVars
<1>2. PICK s \in Slots : s = slot[w]
  BY <1>1, ThreadFacts DEF IInv
<1>3. pc[w] \in InCleanup /\ id' = [id EXCEPT ![s] = NoId]
  BY <1>1, <1>2 DEF InCleanup, Reset
<1>4. s \notin free /\ release[s] /\ Ending(s)
  BY <1>1, <1>2, <1>3, EndingHere
<1>5. Phases[s] = "ended"
  BY <1>4, MapOf DEF PhaseOf
<1>6. id[s] # NoId
  BY <1>1, <1>2, <1>3, ConstantAssumption DEF IInv, CleanerInv
<1>7. Holds' = Holds /\ Ending(s)' /\ \A q \in Slots : q # s => (Ending(q)' <=> Ending(q))
  BY <1>1, <1>2, CleanerLease
<1>8. Phases' = Phases
  BY <1>1, <1>4, <1>7, PhasesKept
<1>9. Lease!Forget(s)
  BY <1>1, <1>3, <1>5, <1>6, <1>7, <1>8 DEF Lease!Forget
<1> QED BY <1>9 DEF Lease!Next

(* The slot is pushed on the free stack: the next lease may be opened. *)
LEMMA PushLease ==
  ASSUME IInv, LifeInv, NEW w \in Threads, Push(w)
  PROVE  Lease!Next
<1>1. /\ StepOf(w) /\ pc[w] = "push" /\ pc'[w] = "idle" /\ own' = own /\ own[w] = {}
      /\ free' = free \cup {slot[w]}
      /\ UNCHANGED <<release, recv, send, id, left>>
  <2>1. pc[w] = "push" /\ own' = own /\ UNCHANGED <<release, recv, send, id, left>>
    BY DEF Push, ctlVars, idVars, appVars
  <2>2. own[w] = {}
    BY <2>1, ThreadFacts DEF IInv, CleanupLabels, InCleanup
  <2> QED BY <2>1, <2>2, PushLife
<1>2. PICK s \in Slots : s = slot[w]
  BY PushLife
<1>3. pc[w] \in InCleanup
  BY <1>1 DEF InCleanup
<1>4. s \notin free /\ release[s] /\ Ending(s)
  BY <1>1, <1>2, <1>3, EndingHere
<1>5. Phases[s] = "ended"
  BY <1>4, MapOf DEF PhaseOf
<1>6. id[s] = NoId
  BY <1>1, <1>2, <1>3 DEF IInv, CleanerInv
<1>7. Holds' = Holds
  <2>1. \A q \in Slots : ThreadRefs(q)' = ThreadRefs(q)
    BY <1>1, RefsKept DEF StepOf
  <2> QED BY <1>1, <2>1, HoldsKept
<1>8. Phases' = [Phases EXCEPT ![s] = "free"]
  <2>1. PhaseOf(s)' = "free"
    BY <1>1, <1>2 DEF PhaseOf
  <2>2. ASSUME NEW q \in Slots, q # s
        PROVE  PhaseOf(q)' = PhaseOf(q)
    <3>1. Ending(q)' <=> Ending(q)
      BY <1>1, <1>2, <2>2 DEF Ending, At, StepOf, OthersKeep
    <3> QED BY <1>1, <1>2, <2>2, <3>1 DEF PhaseOf
  <2> QED BY <2>1, <2>2, PhaseChanged
<1>9. Lease!Recycle(s)
  BY <1>1, <1>5, <1>6, <1>7, <1>8 DEF Lease!Recycle
<1> QED BY <1>9 DEF Lease!Next

(* An I/O that ends is still an I/O: its completion holds the session. *)
LEMMA NetworkLease ==
  ASSUME IInv, NEW s \in Slots, Network(s)
  PROVE  UNCHANGED Lease!leaseVars
<1>1. UNCHANGED <<free, release, id, left, pc, slot, own>>
  BY DEF Network, RecvCompletes, SendCompletes, ctlVars, idVars, poolVars, appVars, ctxVars
<1>2. \A q \in Slots : /\ recv'[q] = "none" <=> recv[q] = "none"
                       /\ send'[q] = "none" <=> send[q] = "none"
  BY DEF Network, RecvCompletes, SendCompletes, IInv, TypeInv, SessionTypes
<1>3. /\ \A q \in Slots : ThreadRefs(q)' = ThreadRefs(q)
      /\ \A q \in Slots : Ending(q)' <=> Ending(q)
  BY <1>1 DEF ThreadRefs, Ending, At
<1> QED BY <1>1, <1>2, <1>3, PhasesKept, HoldsKept DEF Lease!leaseVars

-----------------------------------------------------------------------------
(* The refinement.                                                         *)

LEMMA InitLease ==
  ASSUME Init
  PROVE  Lease!Init
<1>1. Phases = [s \in Slots |-> "free"]
  BY DEF Init, Phases, PhaseOf
<1>2. \A s \in Slots : HoldersOf(s) = {}
  BY DEF Init, HoldersOf, ThreadRefs
<1>3. Holds = [s \in Slots |-> {}]
  BY <1>2 DEF Holds
<1> QED BY <1>1, <1>3 DEF Init, Lease!Init

(* Every step of the engine is one of the lease, or none. *)
LEMMA NextLease ==
  ASSUME IInv, LifeInv, [Next]_vars
  PROVE  [Lease!Next]_(Lease!leaseVars)
<1>1. CASE AcceptStep
  <2>1. Acceptor \in Threads
    BY DEF Threads
  <2> QED BY <1>1, <2>1, AcceptKinds, AcceptLease, AssignIdLease, PublishLease, CalmKindLease
<1>2. ASSUME NEW t \in Apps, Call(t)
      PROVE  [Lease!Next]_(Lease!leaseVars)
  BY <1>2, CallQuiet, CalmKindLease DEF CalmKind, Threads
<1>3. ASSUME NEW t \in Threads, Continue(t)
      PROVE  [Lease!Next]_(Lease!leaseVars)
  BY <1>3, ContinueKinds, CalmKindLease, CleanupLease, LeaveLease, ResetLease, PushLease
<1>4. ASSUME NEW w \in Workers, NEW s \in Slots, Dequeue(w, s)
      PROVE  [Lease!Next]_(Lease!leaseVars)
  BY <1>4, DequeueKinds, CalmKindLease, ReleaseTakenLease DEF Threads
<1>5. ASSUME NEW s \in Slots, Network(s)
      PROVE  [Lease!Next]_(Lease!leaseVars)
  BY <1>5, NetworkLease
<1>6. CASE UNCHANGED vars
  <2>1. UNCHANGED <<free, release, id, left, recv, send, pc, slot, own>>
    BY <1>6 DEF vars, ctlVars, idVars, poolVars, appVars, ctxVars
  <2>2. /\ \A q \in Slots : ThreadRefs(q)' = ThreadRefs(q)
        /\ \A q \in Slots : Ending(q)' <=> Ending(q)
    BY <2>1 DEF ThreadRefs, Ending, At
  <2> QED BY <2>1, <2>2, SameLease
<1> QED BY <1>1, <1>2, <1>3, <1>4, <1>5, <1>6 DEF Next

(* The engine implements the lease, for any number of slots, threads and    *)
(* packets and both orders of join and receive: a slot goes to the next      *)
(* connection only when no caller, I/O or completion holds it, nothing takes *)
(* hold after the release was requested, and the end of each id is told      *)
(* once, after the last hold.                                               *)
THEOREM EngineImplementsLease == Spec => LeaseSpec
<1>1. Init => Lease!Init
  BY InitLease
<1>2. IInv /\ LifeInv /\ [Next]_vars => [Lease!Next]_(Lease!leaseVars)
  BY NextLease
<1> QED BY <1>1, <1>2, SpecLifeInv, PTL DEF Spec, LeaseSpec, Lease!Spec

================================================================================
