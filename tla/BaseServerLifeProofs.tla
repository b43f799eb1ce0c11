------------------------- MODULE BaseServerLifeProofs -------------------------
(***************************************************************************)
(* Proofs about the life of a session in BaseServer: its release is handed  *)
(* over exactly once, a call that passed its re-validation works on the     *)
(* session it was asked for, a slot comes back to the free stack clean, and *)
(* mSessionCount counts. The induction is over LifeInv, and uses IInv of    *)
(* BaseServerProofs before and after each step.                             *)
(*                                                                         *)
(* Most steps are calm: they disturb neither the fields of a session on its *)
(* way through the free stack nor the labels of accept and clean-up.        *)
(***************************************************************************)
EXTENDS BaseServerProofs

(* A step of t, its flag of requestRelease included. *)
StepOf(t) == OthersKeep(t) /\ \A u \in Threads \ {t} : zero'[u] = zero[u]

Late == {"assignId", "publish"} \cup InCleanup

Calm(t) ==
    /\ StepOf(t) /\ pc[t] \notin Late /\ pc'[t] \notin Late
    /\ UNCHANGED <<id, state, socket, free, nextUnique, sessionCount, left, cleanup>>
    /\ \A s \in Slots : ring'[s] # ring[s] \/ sendFlag'[s] # sendFlag[s] => s = slot[t] /\ Solid(t)

-----------------------------------------------------------------------------
(* Who is where.                                                           *)

(* Who is at a set of labels that t neither leaves nor enters. *)
LEMMA AtFrame ==
  ASSUME NEW t \in Threads, OthersKeep(t), NEW L, pc[t] \notin L, pc'[t] \notin L, NEW s
  PROVE  At(s, L)' <=> At(s, L)
BY DEF At, OthersKeep

(* The worker that cleans a slot up is the only one who is anywhere in it.  *)
LEMMA AtCleaner ==
  ASSUME IInv, NEW w \in Threads, pc[w] \in InCleanup, NEW L, L \subseteq InCleanup
  PROVE  At(slot[w], L) <=> pc[w] \in L
BY CleaningFacts DEF At

(* A session with a worker past FLAG_CLEANUP. *)
LEMMA AtIsCleaned ==
  ASSUME IInv, NEW L, L \subseteq InCleanup, NEW s \in Slots, At(s, L)
  PROVE  s \notin free /\ cleanup[s] /\ release[s] /\ ThreadRefs(s) = {}
<1>1. PICK w \in Threads : slot[w] = s /\ pc[w] \in InCleanup
  BY DEF At
<1> QED BY <1>1, CleaningFacts

(* The threads that hold the turn to release are finitely many. *)
LEMMA ReleasersFinite ==
  ASSUME NEW s
  PROVE  IsFiniteSet(Releasers(s)) /\ Cardinality(Releasers(s)) \in Nat
<1>1. Releasers(s) \subseteq Threads
  BY DEF Releasers
<1> QED BY <1>1, ThreadAssumption, FS_Subset, FS_CardinalityType

(* A step that neither takes the turn nor passes it on. *)
LEMMA ReleasersKept ==
  ASSUME NEW t \in Threads, StepOf(t), Releasing(t)' <=> Releasing(t),
         Releasing(t) => slot'[t] = slot[t], NEW s
  PROVE  Releasers(s)' = Releasers(s)
BY DEF StepOf, OthersKeep, Releasers, Releasing

(* t takes the turn of its slot. *)
LEMMA ReleasersAdded ==
  ASSUME NEW t \in Threads, StepOf(t), ~Releasing(t), Releasing(t)', NEW s
  PROVE  Cardinality(Releasers(s)') =
             Cardinality(Releasers(s)) + (IF s = slot'[t] THEN 1 ELSE 0)
<1>1. CASE s = slot'[t]
  <2>1. Releasers(s)' = Releasers(s) \cup {t} /\ t \notin Releasers(s)
    BY <1>1 DEF StepOf, OthersKeep, Releasers, Releasing
  <2> QED BY <1>1, <2>1, ReleasersFinite, FS_AddElement
<1>2. CASE s # slot'[t]
  <2>1. Releasers(s)' = Releasers(s)
    BY <1>2 DEF StepOf, OthersKeep, Releasers, Releasing
  <2> QED BY <1>2, <2>1, ReleasersFinite
<1> QED BY <1>1, <1>2

(* t gives the turn of its slot up. *)
LEMMA ReleasersRemoved ==
  ASSUME NEW t \in Threads, StepOf(t), Releasing(t), ~Releasing(t)', NEW s
  PROVE  Cardinality(Releasers(s)') =
             Cardinality(Releasers(s)) - (IF s = slot[t] THEN 1 ELSE 0)
<1>1. CASE s = slot[t]
  <2>1. Releasers(s)' = Releasers(s) \ {t} /\ t \in Releasers(s)
    BY <1>1 DEF StepOf, OthersKeep, Releasers, Releasing
  <2> QED BY <1>1, <2>1, ReleasersFinite, FS_RemoveElement
<1>2. CASE s # slot[t]
  <2>1. Releasers(s)' = Releasers(s)
    BY <1>2 DEF StepOf, OthersKeep, Releasers, Releasing
  <2> QED BY <1>2, <2>1, ReleasersFinite
<1> QED BY <1>1, <1>2

-----------------------------------------------------------------------------
(* Calm steps.                                                             *)

(* The fields of a session that is being cleaned up or is free are not       *)
(* touched by a thread that is not the one that cleans it up.               *)
CalmLife == StateInv /\ ToldInv /\ NamingInv /\ EmptyInv /\ CountInv /\ CleanedInv

LEMMA CalmStep ==
  ASSUME IInv, CalmLife, NEW t \in Threads, Calm(t)
  PROVE  CalmLife'
<1> USE DEF CalmLife
<1>1. OthersKeep(t) /\ Acceptor \in Threads
  BY ThreadFacts DEF Calm, StepOf, IInv
<1>2. \A s : /\ At(s, {"publish"})' <=> At(s, {"publish"})
             /\ At(s, {"leave", "drainAll", "reset"})' <=> At(s, {"leave", "drainAll", "reset"})
             /\ At(s, {"drainAll", "reset"})' <=> At(s, {"drainAll", "reset"})
             /\ At(s, {"push"})' <=> At(s, {"push"})
             /\ At(s, InCleanup)' <=> At(s, InCleanup)
  BY <1>1, AtFrame DEF Calm, Late, InCleanup
<1>3. StateInv'
  BY <1>2 DEF StateInv, Calm
<1>4. ToldInv'
  BY <1>2 DEF ToldInv, Calm
<1>5. NamingInv'
  BY <1>1 DEF NamingInv, Calm, Late, OthersKeep
<1>6. EmptyInv'
  <2> SUFFICES ASSUME NEW s \in Slots, s \in free \/ At(s, {"push"})
               PROVE  ring'[s] = <<>> /\ sendFlag'[s] = 0
    BY <1>2 DEF EmptyInv, Calm
  <2>1. ring[s] = <<>> /\ sendFlag[s] = 0
    BY DEF EmptyInv
  <2>2. s \in free \/ cleanup[s]
    BY AtIsCleaned DEF InCleanup
  <2>3. ~(s = slot[t] /\ Solid(t))
    BY <2>2, OwnedIsLive DEF Solid, IInv
  <2> QED BY <2>1, <2>3 DEF Calm
<1>7. CountInv'
  <2>1. Counted = {s \in Slots : state[s] = "Connected" /\ ~At(s, {"drainAll", "reset"})}
    BY DEF Counted, At
  <2>2. Counted' = {s \in Slots : state[s] = "Connected" /\ ~At(s, {"drainAll", "reset"})'}
    BY DEF Counted, At, Calm
  <2>3. Counted' = Counted
    BY <1>2, <2>1, <2>2
  <2> QED BY <2>3 DEF CountInv, Calm
<1>8. CleanedInv'
  BY <1>2 DEF CleanedInv, Calm
<1> QED BY <1>3, <1>4, <1>5, <1>6, <1>7, <1>8

-----------------------------------------------------------------------------
(* The steps that move neither a reference nor a release.                  *)

Quiet(t) ==
    /\ Calm(t)
    /\ UNCHANGED <<ioCount, release, posted>>
    /\ \A s \in Slots : /\ recv'[s] = "none" <=> recv[s] = "none"
                        /\ send'[s] = "none" <=> send[s] = "none"
    /\ own'[t] = own[t] /\ (own[t] = {} \/ slot'[t] = slot[t])
    /\ ~Releasing(t) /\ ~Releasing(t)'

(* Goto with nothing taken or given back. *)
LEMMA GotoMoves ==
  ASSUME IInv, NEW t \in Threads, NEW l \in Labels, Goto(t, l), UNCHANGED ctxVars,
         UNCHANGED <<own, zero>>
  PROVE  StepOf(t) /\ pc'[t] = l /\ op' = op /\ arg' = arg /\ slot' = slot
<1>1. /\ ThreadTypes /\ own' \in [Threads -> SUBSET {"call", "io"}]
      /\ zero' \in [Threads -> BOOLEAN]
  BY DEF IInv, TypeInv, ThreadTypes
<1>2. \A u \in Threads \ {t} : own'[u] = own[u]
  OBVIOUS
<1> QED BY <1>1, <1>2, GotoStep DEF StepOf

(* Begin with nothing taken or given back; End is one such. *)
LEMMA BeginMoves ==
  ASSUME IInv, NEW t \in Threads, NEW o \in Ops, NEW i \in Ids \cup {NoId},
         NEW s \in Slots \cup {NoSlot}, NEW p \in Packets \cup {NoPacket}, NEW l \in Labels,
         Begin(t, o, i, s, p, l), UNCHANGED <<own, zero>>
  PROVE  StepOf(t) /\ pc'[t] = l /\ op'[t] = o /\ arg'[t] = i /\ slot'[t] = s
<1>1. /\ ThreadTypes /\ own' \in [Threads -> SUBSET {"call", "io"}]
      /\ zero' \in [Threads -> BOOLEAN]
  BY DEF IInv, TypeInv, ThreadTypes
<1>2. \A u \in Threads \ {t} : own'[u] = own[u]
  OBVIOUS
<1> QED BY <1>1, <1>2, BeginStep DEF StepOf

LEMMA EndMoves ==
  ASSUME IInv, NEW t \in Threads, End(t), UNCHANGED <<own, zero>>
  PROVE  StepOf(t) /\ pc'[t] = "idle" /\ op'[t] = "none" /\ slot'[t] = NoSlot
<1>1. "none" \in Ops /\ "idle" \in Labels
  BY DEF Ops, Labels
<1> QED BY <1>1, BeginMoves DEF End

(* A step of that kind on labels outside accept, clean-up and release.      *)
LEMMA QuietMove ==
  ASSUME IInv, NEW t \in Threads, StepOf(t), own' = own, own[t] = {} \/ slot'[t] = slot[t],
         pc[t] \notin Late \cup {"cleanup", "cancel"},
         pc'[t] \notin Late \cup {"cleanup", "cancel"},
         UNCHANGED <<idVars, poolVars, left, ctlVars, posted>>,
         \A s \in Slots : /\ recv'[s] = "none" <=> recv[s] = "none"
                          /\ send'[s] = "none" <=> send[s] = "none",
         \A s \in Slots : ring'[s] # ring[s] \/ sendFlag'[s] # sendFlag[s] =>
                              s = slot[t] /\ Solid(t)
  PROVE  Quiet(t)
<1>1. Calm(t)
  BY DEF Calm, idVars, poolVars, ctlVars
<1>2. ~Releasing(t) /\ ~Releasing(t)'
  BY DEF Releasing, Late
<1> QED BY <1>1, <1>2 DEF Quiet, ctlVars

(* The accept thread after Publish. *)
LEMMA RegisterQuiet ==
  ASSUME IInv, Register
  PROVE  Quiet(Acceptor)
<1>1. Acceptor \in Threads /\ pc[Acceptor] = "register"
  BY DEF Threads, Register
<1>2. PICK l \in {"recvRef", "join", "setRelease"} : Goto(Acceptor, l)
  BY DEF Register
<1>3. l \in Labels
  BY DEF Labels
<1>4. StepOf(Acceptor) /\ pc'[Acceptor] = l /\ slot' = slot
  BY <1>1, <1>2, <1>3, GotoMoves DEF Register
<1> QED BY <1>1, <1>4, QuietMove DEF Register, sendVars, appVars, Late, InCleanup

LEMMA JoinQuiet ==
  ASSUME IInv, Join
  PROVE  Quiet(Acceptor)
<1>1. /\ Acceptor \in Threads /\ pc[Acceptor] = "join" /\ own[Acceptor] = {}
      /\ UNCHANGED <<idVars, poolVars, left, ctlVars, posted, recv, send, sendVars, own, zero>>
  BY ThreadFacts DEF Threads, Join, IInv, ThreadInv, ThreadOK, Owns
<1>2. StepOf(Acceptor) /\ pc'[Acceptor] \in {"idle", "recvRef"}
  <2>1. CASE End(Acceptor)
    BY <1>1, <2>1, EndMoves
  <2>2. CASE Goto(Acceptor, "recvRef") /\ UNCHANGED ctxVars
    BY <1>1, <2>2, GotoMoves DEF Labels
  <2> QED BY <2>1, <2>2 DEF Join
<1> QED BY <1>1, <1>2, QuietMove DEF sendVars, Late, InCleanup

(* A call of the application begins. *)
LEMMA CallQuiet ==
  ASSUME IInv, NEW t \in Apps, Call(t)
  PROVE  Quiet(t)
<1>1. PICK i \in Known : DisConnect(t, i) \/ \E p \in Packets : SendPacket(t, i, p)
  BY DEF Call
<1>2. /\ t \in Threads /\ pc[t] = "idle" /\ own[t] = {} /\ i \in Ids /\ i[1] \in Slots
      /\ UNCHANGED <<idVars, poolVars, left, ctlVars, posted, recv, send, sendVars, own, zero>>
  BY <1>1 DEF Threads, DisConnect, SendPacket, IInv, ThreadInv, ThreadOK, Owns, TypeInv,
              ServerTypes, Known, Ids, appVars
<1>3. StepOf(t) /\ pc'[t] = "acquire"
  <2>0. "DisConnect" \in Ops /\ "SendPacket" \in Ops /\ "acquire" \in Labels
    BY DEF Ops, Labels
  <2>1. CASE DisConnect(t, i)
    <3>1. Begin(t, "DisConnect", i, i[1], NoPacket, "acquire")
      BY <2>1 DEF DisConnect
    <3> QED BY <1>2, <2>0, <3>1, BeginMoves
  <2>2. CASE \E p \in Packets : SendPacket(t, i, p)
    <3>1. PICK p \in Packets : SendPacket(t, i, p)
      BY <2>2
    <3>2. Begin(t, "SendPacket", i, i[1], p, "acquire")
      BY <3>1 DEF SendPacket
    <3> QED BY <1>2, <2>0, <3>2, BeginMoves
  <2> QED BY <1>1, <2>1, <2>2
<1> QED BY <1>2, <1>3, QuietMove DEF sendVars, Late, InCleanup

(* IncreaseIoCount was refused, in a call or for the next receive. *)
LEMMA AcquireQuiet ==
  ASSUME IInv, NEW t \in Threads, Acquire(t), ~MayTakeRef(slot[t])
  PROVE  Quiet(t)
<1>1. /\ pc[t] = "acquire" /\ own[t] = {} /\ End(t)
      /\ UNCHANGED <<idVars, poolVars, left, ctlVars, posted, recv, send, sendVars, own, zero>>
  BY DEF Acquire, IInv, ThreadInv, ThreadOK, Owns, appVars
<1>2. StepOf(t) /\ pc'[t] = "idle"
  BY <1>1, EndMoves
<1> QED BY <1>1, <1>2, QuietMove DEF sendVars, Late, InCleanup

LEMMA RecvRefQuiet ==
  ASSUME IInv, NEW t \in Threads, RecvRef(t), ~MayTakeRef(slot[t])
  PROVE  Quiet(t)
<1>1. /\ pc[t] = "recvRef" /\ own[t] = Base(t) /\ op[t] \in {"Accept", "Recv"}
      /\ UNCHANGED <<idVars, poolVars, left, ctlVars, posted, recv, send, sendVars, own, zero>>
  BY DEF RecvRef, IInv, ThreadInv, ThreadOK, Owns, Serves, appVars, CleanupLabels, InCleanup
<1>2. /\ StepOf(t) /\ pc'[t] \in {"setRelease", "join", "idle"}
      /\ own[t] = {} \/ slot'[t] = slot[t]
  <2>1. CASE End(t) /\ op[t] # "Recv"
    BY <1>1, <2>1, EndMoves DEF Base
  <2>2. CASE \E l \in {"setRelease", "join"} : Goto(t, l) /\ UNCHANGED ctxVars
    BY <1>1, <2>2, GotoMoves DEF Labels
  <2> QED BY <2>1, <2>2 DEF RecvRef
<1> QED BY <1>1, <1>2, QuietMove DEF sendVars, Late, InCleanup

(* The labels a call or a completion goes through under its reference. *)
LEMMA WorkFacts ==
  ASSUME IInv, NEW t \in Threads,
         pc[t] \in {"recheck", "enqueue", "exchange", "drain", "sendRef", "wsaSend", "clearFlag",
                    "resetFlag"}
  PROVE  "call" \in own[t] /\ (pc[t] # "recheck" => Solid(t)) /\ slot[t] \in Slots
<1>1. ThreadOK(t) /\ slot[t] \in Slots
  BY ThreadFacts DEF IInv, ThreadInv
<1>2. "call" \in own[t]
  BY <1>1 DEF ThreadOK, Serves, Owns, Base, CleanupLabels, InCleanup
<1> QED BY <1>1, <1>2 DEF Solid

LEMMA RecheckQuiet ==
  ASSUME IInv, NEW t \in Threads, Recheck(t)
  PROVE  Quiet(t)
<1>1. /\ pc[t] = "recheck"
      /\ UNCHANGED <<idVars, poolVars, left, ctlVars, posted, recv, send, sendVars, own, zero>>
  BY DEF Recheck, appVars
<1>2. PICK l \in {"dropCall", "setRelease", "enqueue"} : Goto(t, l)
  BY DEF Recheck
<1>3. StepOf(t) /\ pc'[t] = l /\ slot' = slot
  BY <1>1, <1>2, GotoMoves DEF Recheck, Labels
<1> QED BY <1>1, <1>3, QuietMove DEF sendVars, Late, InCleanup

(* The steps of a thread that sends. *)
LEMMA EnqueueQuiet ==
  ASSUME IInv, NEW t \in Threads, Enqueue(t)
  PROVE  Quiet(t)
<1>1. /\ pc[t] = "enqueue" /\ Solid(t)
      /\ UNCHANGED <<idVars, poolVars, left, ctlVars, posted, recv, send, sendFlag, own, zero>>
  BY WorkFacts DEF Enqueue, appVars
<1>2. PICK l \in {"exchange", "setRelease"} : Goto(t, l)
  BY DEF Enqueue
<1>3. StepOf(t) /\ pc'[t] = l /\ slot' = slot
  BY <1>1, <1>2, GotoMoves DEF Enqueue, Labels
<1>4. \A s \in Slots : ring'[s] # ring[s] => s = slot[t]
  BY DEF Enqueue, IInv, TypeInv, SessionTypes
<1> QED BY <1>1, <1>3, <1>4, QuietMove DEF Late, InCleanup

LEMMA ExchangeQuiet ==
  ASSUME IInv, NEW t \in Threads, Exchange(t)
  PROVE  Quiet(t)
<1>1. /\ pc[t] = "exchange" /\ Solid(t)
      /\ UNCHANGED <<idVars, poolVars, left, ctlVars, posted, recv, send, ring, own, zero>>
  BY WorkFacts DEF Exchange, appVars
<1>2. PICK l \in {"drain", "dropCall"} : Goto(t, l)
  BY DEF Exchange
<1>3. StepOf(t) /\ pc'[t] = l /\ slot' = slot
  BY <1>1, <1>2, GotoMoves DEF Exchange, Labels
<1>4. \A s \in Slots : sendFlag'[s] # sendFlag[s] => s = slot[t]
  BY DEF Exchange, IInv, TypeInv, SessionTypes
<1> QED BY <1>1, <1>3, <1>4, QuietMove DEF Late, InCleanup

LEMMA DrainQuiet ==
  ASSUME IInv, NEW t \in Threads, Drain(t)
  PROVE  Quiet(t)
<1>1. /\ pc[t] = "drain" /\ Solid(t)
      /\ UNCHANGED <<idVars, poolVars, left, ctlVars, posted, recv, send, sendFlag, own, zero>>
  BY WorkFacts DEF Drain, appVars
<1>2. PICK l \in {"clearFlag", "sendRef"} : Goto(t, l)
  BY DEF Drain
<1>3. StepOf(t) /\ pc'[t] = l /\ slot' = slot
  BY <1>1, <1>2, GotoMoves DEF Drain, Labels
<1>4. \A s \in Slots : ring'[s] # ring[s] => s = slot[t]
  BY DEF Drain, IInv, TypeInv, SessionTypes
<1> QED BY <1>1, <1>3, <1>4, QuietMove DEF Late, InCleanup

LEMMA SendRefQuiet ==
  ASSUME IInv, NEW t \in Threads, SendRef(t), ~MayTakeRef(slot[t])
  PROVE  Quiet(t)
<1>1. /\ pc[t] = "sendRef" /\ Goto(t, "clearFlag") /\ UNCHANGED ctxVars
      /\ UNCHANGED <<idVars, poolVars, left, ctlVars, posted, recv, send, sendFlag, ring>>
      /\ UNCHANGED <<own, zero>>
  BY DEF SendRef, appVars
<1>2. StepOf(t) /\ pc'[t] = "clearFlag" /\ slot' = slot
  BY <1>1, GotoMoves DEF Labels
<1> QED BY <1>1, <1>2, QuietMove DEF Late, InCleanup

LEMMA WsaSendQuiet ==
  ASSUME IInv, NEW t \in Threads, WsaSend(t), UNCHANGED <<send, own>>
  PROVE  Quiet(t)
<1>1. /\ pc[t] = "wsaSend" /\ "io" \in own[t]
      /\ UNCHANGED <<idVars, poolVars, left, ctlVars, posted, recv, send, sendFlag, ring>>
      /\ UNCHANGED <<own, zero>>
      /\ UNCHANGED ctxVars
  BY DEF WsaSend, appVars, IInv, ThreadInv, ThreadOK, Owns
<1>2. PICK l \in {"dropIo", "setRelease"} : Goto(t, l)
  BY <1>1 DEF WsaSend, IInv, TypeInv, ThreadTypes
<1>3. StepOf(t) /\ pc'[t] = l /\ slot' = slot
  BY <1>1, <1>2, GotoMoves DEF Labels
<1> QED BY <1>1, <1>3, QuietMove DEF Late, InCleanup

(* sendFlag.store(0), by the sender and by the worker of its completion. *)
LEMMA FlagQuiet ==
  ASSUME IInv, NEW t \in Threads, ClearFlag(t) \/ ResetFlag(t)
  PROVE  Quiet(t)
<1>1. /\ pc[t] \in {"clearFlag", "resetFlag"} /\ Solid(t)
      /\ UNCHANGED <<idVars, poolVars, left, ctlVars, posted, recv, send, ring, own, zero>>
      /\ UNCHANGED ctxVars /\ sendFlag' = [sendFlag EXCEPT ![slot[t]] = 0]
  BY WorkFacts DEF ClearFlag, ResetFlag, appVars
<1>2. PICK l \in {"dropCall", "exchange"} : Goto(t, l)
  BY DEF ClearFlag, ResetFlag
<1>3. StepOf(t) /\ pc'[t] = l /\ slot' = slot
  BY <1>1, <1>2, GotoMoves DEF Labels
<1>4. \A s \in Slots : sendFlag'[s] # sendFlag[s] => s = slot[t]
  BY <1>1 DEF IInv, TypeInv, SessionTypes
<1> QED BY <1>1, <1>3, <1>4, QuietMove DEF Late, InCleanup

(* WSARecv failed: the release is asked for next. *)
LEMMA WsaRecvQuiet ==
  ASSUME IInv, NEW t \in Threads, WsaRecv(t), UNCHANGED <<recv, own>>
  PROVE  Quiet(t)
<1>1. /\ pc[t] = "wsaRecv" /\ "io" \in own[t]
      /\ UNCHANGED <<idVars, poolVars, left, ctlVars, posted, recv, send, sendFlag, ring>>
      /\ UNCHANGED <<own, zero>>
  BY DEF WsaRecv, appVars, sendVars, IInv, ThreadInv, ThreadOK, Owns
<1>2. Goto(t, "setRelease") /\ UNCHANGED ctxVars
  BY <1>1 DEF WsaRecv, IInv, TypeInv, ThreadTypes
<1>3. StepOf(t) /\ pc'[t] = "setRelease" /\ slot' = slot
  BY <1>1, <1>2, GotoMoves DEF Labels
<1> QED BY <1>1, <1>3, QuietMove DEF Late, InCleanup

(* The release was requested before. *)
LEMMA SetReleaseQuiet ==
  ASSUME IInv, NEW t \in Threads, SetRelease(t), release[slot[t]]
  PROVE  Quiet(t)
<1>1. /\ pc[t] = "setRelease" /\ AfterRelease(t)
      /\ UNCHANGED <<idVars, poolVars, left, ctlVars, posted, recv, send, sendVars, own, zero>>
      /\ joined' = joined /\ zero' \in [Threads -> BOOLEAN]
  BY DEF SetRelease, appVars, ctlVars, IInv, TypeInv, ThreadTypes
<1>2. /\ StepOf(t) /\ pc'[t] \in {"idle", "dropIo", "dropCall"}
      /\ own[t] = {} \/ slot'[t] = slot[t]
  BY <1>1, AfterReleaseStep DEF StepOf
<1> QED BY <1>1, <1>2, QuietMove DEF sendVars, Late, InCleanup

-----------------------------------------------------------------------------
(* The steps that move a reference, or the release.                        *)

Takes(t, r) ==
    /\ Calm(t) /\ slot[t] \in Slots /\ ~release[slot[t]]
    /\ r \notin own[t] /\ own'[t] = own[t] \cup {r} /\ slot'[t] = slot[t]
    /\ ioCount' = [ioCount EXCEPT ![slot[t]] = @ + 1]
    /\ UNCHANGED <<release, posted, recv, send>>
    /\ ~Releasing(t) /\ ~Releasing(t)'

Drops(t, r) ==
    /\ Calm(t) /\ slot[t] \in Slots
    /\ r \in own[t] /\ own'[t] = own[t] \ {r} /\ (own'[t] = {} \/ slot'[t] = slot[t])
    /\ DropRef(t, slot[t], r)
    /\ UNCHANGED <<recv, send>>
    /\ ~Releasing(t) /\ ~Releasing(t)'

(* A reference goes from t to the I/O it started. *)
Starts(t) ==
    /\ Calm(t) /\ slot[t] \in Slots
    /\ "io" \in own[t] /\ own'[t] = own[t] \ {"io"} /\ (own'[t] = {} \/ slot'[t] = slot[t])
    /\ UNCHANGED <<ioCount, release, posted>>
    /\ \/ /\ recv[slot[t]] = "none" /\ recv' = [recv EXCEPT ![slot[t]] = "pending"]
          /\ send' = send
       \/ /\ send[slot[t]] = "none" /\ send' = [send EXCEPT ![slot[t]] = "pending"]
          /\ recv' = recv
    /\ ~Releasing(t) /\ ~Releasing(t)'

(* The reference of an I/O on s goes to the worker of its completion. *)
Ends(w, s) ==
    /\ Calm(w) /\ own[w] = {} /\ own'[w] = {"call"} /\ slot'[w] = s
    /\ UNCHANGED <<ioCount, release, posted>>
    /\ \/ recv[s] # "none" /\ recv' = [recv EXCEPT ![s] = "none"] /\ send' = send
       \/ send[s] # "none" /\ send' = [send EXCEPT ![s] = "none"] /\ recv' = recv
    /\ ~Releasing(w) /\ ~Releasing(w)'

(* requestRelease sets the flag, and takes the turn if it finds no reference. *)
Closes(t) ==
    /\ Calm(t) /\ pc[t] = "setRelease" /\ slot[t] \in Slots /\ ~release[slot[t]]
    /\ release' = [release EXCEPT ![slot[t]] = TRUE]
    /\ UNCHANGED <<ioCount, posted, recv, send>> /\ own'[t] = own[t] /\ slot'[t] = slot[t]
    /\ ~Releasing(t) /\ (Releasing(t)' <=> ioCount[slot[t]] = 0)

(* requestRelease passes the turn on, as a completion. *)
Posts(t) ==
    /\ Calm(t) /\ slot[t] \in Slots
    /\ posted' = ReleasePosts(t, slot[t])
    /\ UNCHANGED <<ioCount, release>>
    /\ \A s \in Slots : /\ recv'[s] = "none" <=> recv[s] = "none"
                        /\ send'[s] = "none" <=> send[s] = "none"
    /\ own'[t] = own[t] /\ (own[t] = {} \/ slot'[t] = slot[t])
    /\ (Releasing(t) <=> zero[t]) /\ ~Releasing(t)'

(* Goto with r taken or given back. *)
LEMMA RefMoves ==
  ASSUME IInv, NEW t \in Threads, NEW l \in Labels, NEW r \in {"call", "io"},
         Goto(t, l), UNCHANGED ctxVars, zero' = zero,
         \/ own' = [own EXCEPT ![t] = @ \cup {r}]
         \/ own' = [own EXCEPT ![t] = @ \ {r}]
  PROVE  StepOf(t) /\ pc'[t] = l /\ op' = op /\ arg' = arg /\ slot' = slot
<1>1. /\ ThreadTypes /\ own' \in [Threads -> SUBSET {"call", "io"}]
      /\ zero' \in [Threads -> BOOLEAN] /\ \A u \in Threads \ {t} : own'[u] = own[u]
  BY OwnStep DEF IInv, TypeInv, ThreadTypes
<1> QED BY <1>1, GotoStep DEF StepOf

(* End with the last reference given back. *)
LEMMA LastMoves ==
  ASSUME IInv, NEW t \in Threads, NEW r \in {"call", "io"}, End(t), own[t] = {r},
         own' = [own EXCEPT ![t] = @ \ {r}], zero' = zero
  PROVE  StepOf(t) /\ pc'[t] = "idle" /\ own'[t] = {} /\ slot'[t] = NoSlot
<1>1. /\ ThreadTypes /\ own' \in [Threads -> SUBSET {"call", "io"}] /\ own'[t] = own[t] \ {r}
      /\ zero' \in [Threads -> BOOLEAN] /\ \A u \in Threads \ {t} : own'[u] = own[u]
  BY OwnStep DEF IInv, TypeInv, ThreadTypes
<1>2. own'[t] = {}
  BY <1>1
<1> QED BY <1>1, <1>2, EndStep DEF StepOf

(* IncreaseIoCount succeeds. *)
LEMMA TakesRef ==
  ASSUME IInv, NEW t \in Threads, MayTakeRef(slot[t]),
         Acquire(t) \/ SendRef(t) \/ RecvRef(t)
  PROVE  \E r \in {"call", "io"} : Takes(t, r)
<1>1. PICK r \in {"call", "io"}, l \in {"recheck", "wsaSend", "wsaRecv"} :
          /\ TakeRef(t, slot[t], r) /\ Goto(t, l) /\ UNCHANGED ctxVars /\ zero' = zero
          /\ r \notin own[t] /\ pc[t] \in {"acquire", "sendRef", "recvRef"}
          /\ UNCHANGED <<idVars, poolVars, left, posted, recv, send, sendFlag, ring>>
  <2>1. ThreadOK(t)
    BY DEF IInv, ThreadInv
  <2>2. CASE Acquire(t)
    BY <2>1, <2>2 DEF Acquire, ThreadOK, Owns, appVars, sendVars
  <2>3. CASE SendRef(t)
    BY <2>1, <2>3 DEF SendRef, ThreadOK, Owns, Base, appVars
  <2>4. CASE RecvRef(t)
    BY <2>1, <2>4 DEF RecvRef, ThreadOK, Owns, Base, appVars, sendVars
  <2> QED BY <2>2, <2>3, <2>4
<1>2. /\ ThreadTypes /\ slot[t] \in Slots /\ own'[t] = own[t] \cup {r}
      /\ own' = [own EXCEPT ![t] = @ \cup {r}]
  BY <1>1, OwnStep, ThreadFacts DEF TakeRef, IInv, TypeInv
<1>3. l \in Labels
  BY DEF Labels
<1>4. StepOf(t) /\ pc'[t] = l /\ slot' = slot
  BY <1>1, <1>2, <1>3, RefMoves
<1>5. Calm(t)
  BY <1>1, <1>4 DEF Calm, idVars, poolVars, TakeRef, Late, InCleanup
<1>6. ~Releasing(t) /\ ~Releasing(t)'
  BY <1>1, <1>4 DEF Releasing, InCleanup
<1> QED BY <1>1, <1>2, <1>4, <1>5, <1>6 DEF Takes, TakeRef, MayTakeRef

(* decreaseSessionIoCount, at the end of a call or for an I/O not started.  *)
LEMMA DropsCall ==
  ASSUME IInv, NEW t \in Threads, DropCall(t)
  PROVE  Drops(t, "call")
<1>1. /\ ThreadOK(t) /\ slot[t] \in Slots /\ pc[t] = "dropCall"
      /\ DropRef(t, slot[t], "call") /\ End(t)
      /\ UNCHANGED <<idVars, recv, send, sendVars, poolVars, left, zero>>
  BY ThreadFacts DEF DropCall, IInv, ThreadInv, appVars
<1>2. own[t] = {"call"} /\ own' = [own EXCEPT ![t] = @ \ {"call"}]
  BY <1>1, ThreadAssumption
     DEF ThreadOK, Serves, Owns, Base, DropRef, CleanupLabels, InCleanup
<1>3. StepOf(t) /\ pc'[t] = "idle" /\ own'[t] = {} /\ slot'[t] = NoSlot
  BY <1>1, <1>2, LastMoves
<1>4. Calm(t)
  BY <1>1, <1>3 DEF Calm, idVars, poolVars, sendVars, DropRef, Late, InCleanup
<1>5. ~Releasing(t) /\ ~Releasing(t)'
  BY <1>1, <1>3 DEF Releasing, InCleanup
<1> QED BY <1>1, <1>2, <1>3, <1>4, <1>5 DEF Drops

LEMMA DropsIo ==
  ASSUME IInv, NEW t \in Threads, DropIo(t)
  PROVE  Drops(t, "io")
<1>1. /\ ThreadOK(t) /\ ThreadTypes /\ slot[t] \in Slots /\ pc[t] = "dropIo"
      /\ DropRef(t, slot[t], "io") /\ own' = [own EXCEPT ![t] = @ \ {"io"}]
      /\ UNCHANGED <<idVars, recv, send, sendVars, poolVars, left, zero>>
  BY ThreadFacts DEF DropIo, DropRef, IInv, ThreadInv, TypeInv, appVars
<1>2. own[t] = Base(t) \cup {"io"}
  BY <1>1 DEF ThreadOK, Owns
<1>3. own'[t] = own[t] \ {"io"}
  BY <1>1, OwnStep
<1>4. /\ StepOf(t) /\ pc'[t] \in {"clearFlag", "setRelease", "join", "idle"}
      /\ own'[t] = {} \/ slot'[t] = slot[t]
  <2>1. CASE End(t) /\ op[t] \notin {"SendPacket", "Send", "Recv"}
    <3>1. own[t] = {"io"}
      BY <1>1, <1>2, <2>1 DEF ThreadOK, Serves, Base, CleanupLabels, InCleanup
    <3> QED BY <1>1, <2>1, <3>1, LastMoves
  <2>2. CASE \E l \in {"clearFlag", "setRelease", "join"} : Goto(t, l) /\ UNCHANGED ctxVars
    BY <1>1, <2>2, RefMoves DEF Labels
  <2> QED BY <2>1, <2>2 DEF DropIo
<1>5. Calm(t)
  BY <1>1, <1>4 DEF Calm, idVars, poolVars, sendVars, DropRef, Late, InCleanup
<1>6. ~Releasing(t) /\ ~Releasing(t)'
  BY <1>1, <1>4 DEF Releasing, InCleanup
<1> QED BY <1>1, <1>2, <1>3, <1>4, <1>5, <1>6 DEF Drops

(* WSASend and WSARecv are pending: the sender finds no send in the kernel,  *)
(* the receiver no receive.                                                 *)
LEMMA StartsSend ==
  ASSUME IInv, NEW t \in Threads, WsaSend(t), ~UNCHANGED <<send, own>>
  PROVE  Starts(t)
<1>1. /\ slot[t] \in Slots /\ pc[t] = "wsaSend" /\ "io" \in own[t] /\ send[slot[t]] = "none"
  <2>1. Sending(t) /\ slot[t] \in Slots /\ pc[t] = "wsaSend" /\ ThreadOK(t)
    BY ThreadFacts DEF WsaSend, Sending, IInv, ThreadInv
  <2> QED BY <2>1 DEF IInv, SendInv, ThreadOK, Owns
<1>2. /\ send' = [send EXCEPT ![slot[t]] = "pending"] /\ own' = [own EXCEPT ![t] = @ \ {"io"}]
      /\ Goto(t, "dropCall")
      /\ UNCHANGED <<ctlVars, idVars, recv, posted, sendFlag, ring, poolVars, left, ctxVars, zero>>
  BY DEF WsaSend, appVars
<1>3. StepOf(t) /\ pc'[t] = "dropCall" /\ slot' = slot /\ own'[t] = own[t] \ {"io"}
  BY <1>2, RefMoves, OwnStep DEF Labels, IInv, TypeInv
<1>4. Calm(t)
  BY <1>1, <1>2, <1>3 DEF Calm, idVars, ctlVars, poolVars, Late, InCleanup
<1>5. ~Releasing(t) /\ ~Releasing(t)'
  BY <1>1, <1>3 DEF Releasing, InCleanup
<1> QED BY <1>1, <1>2, <1>3, <1>4, <1>5 DEF Starts, ctlVars

LEMMA StartsRecv ==
  ASSUME IInv, NEW t \in Threads, WsaRecv(t), ~UNCHANGED <<recv, own>>
  PROVE  Starts(t)
<1>1. /\ slot[t] \in Slots /\ pc[t] = "wsaRecv" /\ own[t] = Base(t) \cup {"io"}
      /\ recv[slot[t]] = "none" /\ op[t] \in {"Accept", "Recv"}
  <2>1. pc[t] = "wsaRecv" /\ ThreadOK(t) /\ slot[t] \in Slots
    BY ThreadFacts DEF WsaRecv, IInv, ThreadInv
  <2>2. op[t] \in {"Accept", "Recv"}
    BY <2>1 DEF ThreadOK, Serves, CleanupLabels, InCleanup
  <2>3. Receiving(t)
    BY <2>1, <2>2 DEF Receiving
  <2> QED BY <2>1, <2>2, <2>3 DEF IInv, RecvInv, ThreadOK, Owns
<1>2. /\ recv' = [recv EXCEPT ![slot[t]] = "pending"] /\ own' = [own EXCEPT ![t] = @ \ {"io"}]
      /\ UNCHANGED <<ctlVars, idVars, send, posted, sendVars, poolVars, left, zero>>
  BY DEF WsaRecv, appVars
<1>3. own'[t] = own[t] \ {"io"}
  BY <1>2, OwnStep DEF IInv, TypeInv
<1>4. /\ StepOf(t) /\ pc'[t] \in {"dropCall", "join", "idle"}
      /\ own'[t] = {} \/ slot'[t] = slot[t]
  <2>1. CASE End(t) /\ op[t] # "Recv"
    <3>1. own[t] = {"io"}
      BY <1>1, <2>1 DEF Base
    <3> QED BY <1>2, <2>1, <3>1, LastMoves
  <2>2. CASE \E l \in {"dropCall", "join"} : Goto(t, l) /\ UNCHANGED ctxVars
    BY <1>2, <2>2, RefMoves DEF Labels
  <2> QED BY <2>1, <2>2 DEF WsaRecv
<1>5. Calm(t)
  BY <1>1, <1>2, <1>4
     DEF Calm, idVars, ctlVars, poolVars, sendVars, Late, InCleanup
<1>6. ~Releasing(t) /\ ~Releasing(t)'
  BY <1>1, <1>4 DEF Releasing, InCleanup
<1> QED BY <1>1, <1>2, <1>3, <1>4, <1>5, <1>6 DEF Starts, ctlVars

(* A worker takes the completion of an I/O. *)
LEMMA EndsIo ==
  ASSUME IInv, NEW w \in Workers, NEW s \in Slots,
         RecvEnded(w, s) \/ RecvData(w, s) \/ SendFailed(w, s) \/ SendDone(w, s)
  PROVE  Ends(w, s)
<1>1. PICK o \in {"Failed", "Recv", "Send"}, l \in {"setRelease", "recvRef", "resetFlag"} :
          Completion(w, s, o, l)
  BY DEF RecvEnded, RecvData, SendFailed, SendDone
<1>2. /\ UNCHANGED <<ctlVars, idVars, posted, sendFlag, ring, poolVars, left, zero>>
      /\ \/ recv[s] # "none" /\ recv' = [recv EXCEPT ![s] = "none"] /\ send' = send
         \/ send[s] # "none" /\ send' = [send EXCEPT ![s] = "none"] /\ recv' = recv
  BY DEF RecvEnded, RecvData, SendFailed, SendDone, appVars, sendVars
<1>3. w \in Threads /\ pc[w] = "idle" /\ own[w] = {} /\ ThreadTypes
  BY <1>1 DEF Threads, Completion, IInv, ThreadInv, ThreadOK, Owns, TypeInv
<1>4. /\ own' \in [Threads -> SUBSET {"call", "io"}] /\ own'[w] = {"call"}
      /\ \A u \in Threads \ {w} : own'[u] = own[u]
  BY <1>1, <1>3, OwnStep DEF Completion
<1>5. StepOf(w) /\ pc'[w] = l /\ slot'[w] = s
  <2>1. /\ o \in Ops /\ l \in Labels /\ NoId \in Ids \cup {NoId} /\ s \in Slots \cup {NoSlot}
        /\ NoPacket \in Packets \cup {NoPacket} /\ zero' \in [Threads -> BOOLEAN]
        /\ Begin(w, o, NoId, s, NoPacket, l)
    BY <1>1, <1>2, <1>3 DEF Ops, Labels, Completion, ThreadTypes
  <2> QED BY <1>2, <1>3, <1>4, <2>1, BeginStep DEF StepOf
<1>6. Calm(w)
  BY <1>2, <1>3, <1>5
     DEF Calm, idVars, ctlVars, poolVars, Late, InCleanup
<1>7. ~Releasing(w) /\ ~Releasing(w)'
  BY <1>3, <1>5 DEF Releasing, InCleanup
<1> QED BY <1>2, <1>3, <1>4, <1>5, <1>6, <1>7 DEF Ends, ctlVars

(* TrySetReleaseFlag wins. *)
LEMMA SetReleaseCloses ==
  ASSUME IInv, NEW t \in Threads, SetRelease(t), ~release[slot[t]]
  PROVE  Closes(t)
<1>1. /\ ThreadTypes /\ slot[t] \in Slots /\ pc[t] = "setRelease"
      /\ release' = [release EXCEPT ![slot[t]] = TRUE]
      /\ zero' = [zero EXCEPT ![t] = ioCount[slot[t]] = 0]
      /\ Goto(t, "cancel") /\ UNCHANGED ctxVars
      /\ UNCHANGED <<ioCount, cleanup, idVars, recv, send, posted, sendVars, poolVars, left, own>>
  BY ThreadFacts DEF SetRelease, IInv, TypeInv, appVars
<1>2. /\ own' \in [Threads -> SUBSET {"call", "io"}] /\ zero' \in [Threads -> BOOLEAN]
      /\ zero'[t] = (ioCount[slot[t]] = 0) /\ \A u \in Threads \ {t} : zero'[u] = zero[u]
  BY <1>1 DEF ThreadTypes
<1>3. OthersKeep(t) /\ pc'[t] = "cancel" /\ slot' = slot
  BY <1>1, <1>2, GotoStep DEF Labels
<1>4. Calm(t)
  BY <1>1, <1>2, <1>3
     DEF Calm, StepOf, idVars, poolVars, sendVars, Late, InCleanup
<1>5. ~Releasing(t) /\ (Releasing(t)' <=> ioCount[slot[t]] = 0)
  BY <1>1, <1>2, <1>3 DEF Releasing, InCleanup
<1> QED BY <1>1, <1>3, <1>4, <1>5 DEF Closes

LEMMA CancelPosts ==
  ASSUME IInv, NEW t \in Threads, Cancel(t)
  PROVE  Posts(t)
<1>1. /\ ThreadTypes /\ slot[t] \in Slots /\ pc[t] = "cancel" /\ AfterRelease(t)
      /\ posted' = ReleasePosts(t, slot[t]) /\ zero' = [zero EXCEPT ![t] = FALSE]
      /\ UNCHANGED <<ctlVars, idVars, sendVars, poolVars, left, joined, own>>
  BY ThreadFacts DEF Cancel, IInv, TypeInv, appVars
<1>2. zero' \in [Threads -> BOOLEAN] /\ \A u \in Threads \ {t} : zero'[u] = zero[u]
  BY <1>1 DEF ThreadTypes
<1>3. /\ OthersKeep(t) /\ pc'[t] \in {"idle", "dropIo", "dropCall"}
      /\ own[t] = {} \/ slot'[t] = slot[t]
  BY <1>1, <1>2, AfterReleaseStep
<1>4. Calm(t)
  BY <1>1, <1>2, <1>3
     DEF Calm, StepOf, idVars, ctlVars, poolVars, sendVars, Late, InCleanup
<1>5. (Releasing(t) <=> zero[t]) /\ ~Releasing(t)'
  BY <1>1, <1>3 DEF Releasing, InCleanup
<1>6. \A s \in Slots : /\ recv'[s] = "none" <=> recv[s] = "none"
                       /\ send'[s] = "none" <=> send[s] = "none"
  BY DEF Cancel, Cancelled, IInv, TypeInv, SessionTypes
<1> QED BY <1>1, <1>3, <1>4, <1>5, <1>6 DEF Posts, ctlVars

-----------------------------------------------------------------------------
(* The turn to release, over the calm steps.                               *)


LEMMA TurnTypes ==
  ASSUME IInv, NEW s \in Slots
  PROVE  /\ posted[s] \in Nat /\ Cardinality(Releasers(s)) \in Nat
         /\ ioCount[s] \in Nat /\ release[s] \in BOOLEAN
         /\ cleanup[s] \in BOOLEAN
BY IInvTypeOK, ReleasersFinite DEF TypeOK

(* Whoever owns a reference is counted. *)
LEMMA OwnedIsCounted ==
  ASSUME IInv, NEW t \in Threads, slot[t] \in Slots, NEW r \in own[t]
  PROVE  ioCount[slot[t]] > 0
<1>1. r \in {"call", "io"}
  BY ThreadFacts DEF IInv
<1>2. <<t, r>> \in ThreadRefs(slot[t])
  BY <1>1 DEF ThreadRefs
<1>3. Cardinality(ThreadRefs(slot[t])) # 0
  BY <1>2, RefsFinite, FS_EmptySet
<1> QED BY <1>3, RefsFinite DEF IInv, RefCountExact, IoRefs

(* Nothing of the turn is touched. *)
LEMMA QuietOnce ==
  ASSUME IInv, ReleaseExactlyOnce, NEW t \in Threads, Quiet(t)
  PROVE  ReleaseExactlyOnce'
<1>1. \A s \in Slots : Releasers(s)' = Releasers(s)
  BY ReleasersKept DEF Quiet, Calm
<1> QED BY <1>1 DEF ReleaseExactlyOnce, Quiet, Calm

(* A reference is taken only while no release was requested. *)
LEMMA TakesOnce ==
  ASSUME IInv, ReleaseExactlyOnce, NEW t \in Threads, NEW r, Takes(t, r)
  PROVE  ReleaseExactlyOnce'
<1>1. \A s \in Slots : Releasers(s)' = Releasers(s)
  BY ReleasersKept DEF Takes, Calm
<1>2. \A s \in Slots : s # slot[t] => ioCount'[s] = ioCount[s]
  BY DEF Takes, IInv, TypeInv, SessionTypes
<1> QED BY <1>1, <1>2 DEF ReleaseExactlyOnce, Takes, Calm

(* The reference given back last makes the release due, and posts it. *)
LEMMA DropsOnce ==
  ASSUME IInv, ReleaseExactlyOnce, NEW t \in Threads, NEW r, Drops(t, r)
  PROVE  ReleaseExactlyOnce'
<1>1. \A s \in Slots : Releasers(s)' = Releasers(s)
  BY ReleasersKept DEF Drops, Calm
<1>2. /\ slot[t] \in Slots /\ slot[t] \notin free /\ ~cleanup[slot[t]] /\ ioCount[slot[t]] > 0
  BY OwnedIsLive, OwnedIsCounted DEF Drops, IInv
<1>3. /\ release' = release /\ free' = free
      /\ ioCount' = [ioCount EXCEPT ![slot[t]] = @ - 1]
      /\ posted' = IF ioCount[slot[t]] = 1 /\ release[slot[t]]
                   THEN [posted EXCEPT ![slot[t]] = @ + 1] ELSE posted
  BY <1>2 DEF Drops, DropRef, Calm
<1>4. ioCount \in [Slots -> Int] /\ posted \in [Slots -> Nat]
  BY DEF IInv, TypeInv, SessionTypes
<1> SUFFICES ASSUME NEW s \in Slots
             PROVE  posted'[s] + Cardinality(Releasers(s)) =
                        IF release[s] /\ ioCount'[s] = 0 /\ s \notin free THEN 1 ELSE 0
  BY <1>1, <1>3 DEF ReleaseExactlyOnce
<1>5. CASE s # slot[t]
  BY <1>3, <1>4, <1>5 DEF ReleaseExactlyOnce
<1>6. CASE s = slot[t]
  <2>1. posted[s] + Cardinality(Releasers(s)) = 0
    BY <1>2, <1>6 DEF ReleaseExactlyOnce
  <2>2. ioCount'[s] = ioCount[s] - 1 /\ ioCount[s] \in Nat
    BY <1>3, <1>4, <1>6, TurnTypes
  <2>3. posted'[s] = IF ioCount[s] = 1 /\ release[s] THEN posted[s] + 1 ELSE posted[s]
    BY <1>3, <1>4, <1>6
  <2> QED BY <1>2, <1>6, <2>1, <2>2, <2>3, TurnTypes
<1> QED BY <1>5, <1>6

(* References change hands: the count stays. *)
LEMMA PassesOnce ==
  ASSUME IInv, ReleaseExactlyOnce, NEW t \in Threads, NEW s, Starts(t) \/ Ends(t, s)
  PROVE  ReleaseExactlyOnce'
<1>1. \A r \in Slots : Releasers(r)' = Releasers(r)
  BY ReleasersKept DEF Starts, Ends, Calm
<1> QED BY <1>1 DEF ReleaseExactlyOnce, Starts, Ends, Calm

(* A release of a session without references is due at once: t has the turn. *)
LEMMA ClosesOnce ==
  ASSUME IInv, ReleaseExactlyOnce, NEW t \in Threads, Closes(t)
  PROVE  ReleaseExactlyOnce'
<1>1. slot[t] \in Slots /\ slot[t] \notin free
  <2>1. slot[t] \in Slots /\ ThreadOK(t) /\ pc[t] = "setRelease"
    BY DEF Closes, IInv, ThreadInv
  <2>2. CASE own[t] # {}
    BY <2>1, <2>2, OwnedIsLive DEF IInv
  <2>3. CASE own[t] = {}
    <3>1. t = Acceptor
      BY <2>1, <2>3 DEF ThreadOK, Serves, Owns, Base, CleanupLabels, InCleanup
    <3> QED BY <2>1, <2>3, <3>1 DEF IInv, PrepareInv, Preparing
  <2> QED BY <2>2, <2>3, <2>1
<1>2. \A s \in Slots : Cardinality(Releasers(s)') =
          Cardinality(Releasers(s)) + (IF s = slot[t] /\ ioCount[s] = 0 THEN 1 ELSE 0)
  <2>1. CASE ioCount[slot[t]] = 0
    BY <2>1, ReleasersAdded DEF Closes, Calm
  <2>2. CASE ioCount[slot[t]] # 0
    <3>1. \A s \in Slots : Releasers(s)' = Releasers(s)
      BY <2>2, ReleasersKept DEF Closes, Calm
    <3> QED BY <2>2, <3>1, ReleasersFinite
  <2> QED BY <2>1, <2>2
<1>3. \A s \in Slots : release'[s] <=> release[s] \/ s = slot[t]
  BY DEF Closes, IInv, TypeInv, SessionTypes
<1> SUFFICES ASSUME NEW s \in Slots
             PROVE  posted[s] + Cardinality(Releasers(s)') =
                        IF release'[s] /\ ioCount[s] = 0 /\ s \notin free THEN 1 ELSE 0
  BY DEF ReleaseExactlyOnce, Closes, Calm
<1>4. posted[s] + Cardinality(Releasers(s)) =
          IF release[s] /\ ioCount[s] = 0 /\ s \notin free THEN 1 ELSE 0
  BY DEF ReleaseExactlyOnce
<1>5. CASE s = slot[t]
  BY <1>1, <1>2, <1>3, <1>4, <1>5, TurnTypes DEF Closes
<1>6. CASE s # slot[t]
  BY <1>2, <1>3, <1>4, <1>6, TurnTypes
<1> QED BY <1>5, <1>6

(* The turn goes from the thread to the completion it posts. *)
LEMMA PostsOnce ==
  ASSUME IInv, ReleaseExactlyOnce, NEW t \in Threads, Posts(t)
  PROVE  ReleaseExactlyOnce'
<1>1. CASE ~zero[t]
  <2>1. \A s \in Slots : Releasers(s)' = Releasers(s)
    BY <1>1, ReleasersKept DEF Posts, Calm
  <2> QED BY <1>1, <2>1 DEF ReleaseExactlyOnce, Posts, ReleasePosts, Calm
<1>2. CASE zero[t]
  <2>1. \A s \in Slots : Cardinality(Releasers(s)') =
            Cardinality(Releasers(s)) - (IF s = slot[t] THEN 1 ELSE 0)
    BY <1>2, ReleasersRemoved DEF Posts, Calm
  <2>2. \A s \in Slots : posted'[s] = posted[s] + (IF s = slot[t] THEN 1 ELSE 0)
    BY <1>2 DEF Posts, ReleasePosts, IInv, TypeInv, SessionTypes
  <2>3. \A s \in Slots : posted'[s] + Cardinality(Releasers(s)') =
                             posted[s] + Cardinality(Releasers(s))
    BY <2>1, <2>2, TurnTypes
  <2> QED BY <2>3 DEF ReleaseExactlyOnce, Posts, Calm
<1> QED BY <1>1, <1>2

-----------------------------------------------------------------------------
(* The accept thread up to Publish.                                        *)

(* Who is at "publish": the accept thread. *)
LEMMA AtPublish ==
  ASSUME IInv, NEW s \in Slots
  PROVE  At(s, {"publish"}) <=> pc[Acceptor] = "publish" /\ slot[Acceptor] = s
<1>1. Acceptor \in Threads /\ \A t \in Threads : Serves(t)
  BY DEF Threads, IInv, ThreadInv, ThreadOK
<1>2. \A t \in Threads : pc[t] = "publish" => t = Acceptor
  BY <1>1 DEF Serves, CleanupLabels, InCleanup
<1> QED BY <1>1, <1>2 DEF At

(* What createSession pops is as Session::Init leaves it, but for the flags. *)
LEMMA FreeIsClean ==
  ASSUME IInv, LifeInv, NEW s \in free
  PROVE  /\ s \in Slots /\ id[s] = NoId /\ state[s] = "Free" /\ ~socket[s]
         /\ ring[s] = <<>> /\ sendFlag[s] = 0 /\ ioCount[s] = 0 /\ posted[s] = 0
<1>1. s \in Slots /\ id[s] = NoId
  BY DEF IInv, TypeInv, ServerTypes, SlotInv
<1>2. state[s] = "Free" /\ ~socket[s]
  BY <1>1 DEF LifeInv, StateInv, IInv, TypeInv, SessionTypes
<1>3. ring[s] = <<>> /\ sendFlag[s] = 0
  BY <1>1 DEF LifeInv, EmptyInv
<1>4. ioCount[s] = 0
  <2>1. ThreadRefs(s) = {} /\ recv[s] = "none" /\ send[s] = "none"
    BY <1>1 DEF IInv, ReferencedIsLive
  <2> QED BY SMTT(20), <1>1, <2>1, FS_EmptySet DEF IInv, RefCountExact, IoRefs
<1>5. posted[s] = 0
  BY <1>1, TurnTypes DEF LifeInv, ReleaseExactlyOnce
<1> QED BY <1>1, <1>2, <1>3, <1>4, <1>5

(* So Session::Init changes its flags only. *)
LEMMA AcceptLife ==
  ASSUME IInv, LifeInv, Accept
  PROVE  LifeInv'
<1> DEFINE t == Acceptor
<1>1. PICK s \in free :
         /\ free' = free \ {s} /\ InitSession(s)
         /\ Begin(t, "Accept", NoId, s, NoPacket, "assignId")
  BY DEF Accept
<1>2. /\ t \in Threads /\ pc[t] = "idle" /\ nextUnique < MaxUnique
      /\ UNCHANGED <<recv, send, posted, pktRef, nextUnique, sessionCount, left, own, zero>>
  BY DEF Accept, Threads, appVars
<1>3. /\ s \in Slots /\ id[s] = NoId /\ state[s] = "Free" /\ ~socket[s]
      /\ ring[s] = <<>> /\ sendFlag[s] = 0 /\ ioCount[s] = 0 /\ posted[s] = 0
  BY FreeIsClean
<1>4. id' = id /\ state' = state /\ socket' = socket /\ ring' = ring /\ sendFlag' = sendFlag
      /\ ioCount' = ioCount
  BY <1>1, <1>3 DEF InitSession, IInv, TypeInv, SessionTypes
<1>5. StepOf(t) /\ pc'[t] = "assignId" /\ slot'[t] = s
  BY <1>1, <1>2, <1>3, BeginMoves DEF Ops, Labels
<1>6. \A r : /\ At(r, {"publish"})' <=> At(r, {"publish"})
             /\ At(r, {"leave", "drainAll", "reset"})' <=> At(r, {"leave", "drainAll", "reset"})
             /\ At(r, {"drainAll", "reset"})' <=> At(r, {"drainAll", "reset"})
             /\ At(r, {"push"})' <=> At(r, {"push"})
             /\ At(r, InCleanup)' <=> At(r, InCleanup)
  BY <1>2, <1>5, AtFrame DEF StepOf, InCleanup
<1> USE DEF LifeInv
<1>7. StateInv' /\ ToldInv'
  <2>1. StateInv'
    BY <1>4, <1>6 DEF StateInv
  <2>2. ToldInv'
    BY <1>2, <1>4, <1>6 DEF ToldInv
  <2> QED BY <2>1, <2>2
<1>8. NamingInv' /\ EmptyInv'
  <2>1. NamingInv'
    BY <1>2, <1>3, <1>4, <1>5 DEF NamingInv
  <2>2. EmptyInv'
    BY <1>1, <1>4, <1>6 DEF EmptyInv
  <2> QED BY <2>1, <2>2
<1>9. CountInv'
  <2>1. Counted = {r \in Slots : state[r] = "Connected" /\ ~At(r, {"drainAll", "reset"})}
    BY DEF Counted, At
  <2>2. Counted' = {r \in Slots : state[r] = "Connected" /\ ~At(r, {"drainAll", "reset"})'}
    BY <1>4 DEF Counted, At
  <2>3. Counted' = Counted
    BY <1>6, <2>1, <2>2
  <2> QED BY <1>2, <2>3 DEF CountInv
<1>10. CleanedInv'
  <2>1. \A r \in Slots : cleanup'[r] => cleanup[r] /\ r # s
    BY <1>1, <1>3 DEF InitSession, IInv, TypeInv, SessionTypes
  <2> QED BY <1>1, <1>6, <2>1 DEF CleanedInv
<1>11. ReleaseExactlyOnce'
  <2>1. \A r \in Slots : Releasers(r)' = Releasers(r)
    <3>1. ~Releasing(t) /\ ~Releasing(t)'
      BY <1>2, <1>5 DEF Releasing, InCleanup
    <3> QED BY <1>2, <1>5, <3>1, ReleasersKept
  <2>2. \A r \in Slots : r # s => release'[r] = release[r]
    BY <1>1, <1>3 DEF InitSession, IInv, TypeInv, SessionTypes
  <2>3. ~release'[s]
    BY <1>1, <1>3 DEF InitSession, IInv, TypeInv, SessionTypes
  <2>4. posted[s] + Cardinality(Releasers(s)) = 0
    BY <1>3 DEF ReleaseExactlyOnce
  <2>5. posted'[s] + Cardinality(Releasers(s)') = 0
    BY <1>2, <1>3, <2>1, <2>4
  <2>6. \A r \in Slots : r # s => (r \in free' <=> r \in free)
    BY <1>1
  <2> QED BY <1>2, <1>4, <2>1, <2>2, <2>3, <2>5, <2>6 DEF ReleaseExactlyOnce
<1> QED BY <1>7, <1>8, <1>9, <1>10, <1>11

(* The new id is one nobody was told the end of. *)
LEMMA AssignIdLife ==
  ASSUME IInv, LifeInv, AssignId
  PROVE  LifeInv'
<1> DEFINE t == Acceptor
<1>1. /\ t \in Threads /\ pc[t] = "assignId" /\ slot[t] \in Slots
      /\ nextUnique' = nextUnique + 1 /\ Goto(t, "publish") /\ UNCHANGED ctxVars
      /\ UNCHANGED <<ctlVars, state, socket, posted, ring, sendFlag, free, sessionCount, left>>
      /\ UNCHANGED <<own, zero>>
  BY ThreadFacts DEF AssignId, Threads, IInv, sendVars, appVars
<1>2. PICK s \in Slots : s = slot[t]
  BY <1>1
<1>3. id' = [id EXCEPT ![s] = <<s, nextUnique>>]
  BY <1>2 DEF AssignId
<1>4. StepOf(t) /\ pc'[t] = "publish" /\ slot' = slot
  BY <1>1, GotoMoves DEF Labels
<1> USE DEF LifeInv
<1>5. /\ id[s] = NoId /\ nextUnique < MaxUnique /\ nextUnique \in Nat
      /\ id \in [Slots -> Ids \cup {NoId}]
  BY <1>1, <1>2 DEF NamingInv, IInv, TypeInv, ServerTypes, SessionTypes
<1>6. \A r : /\ At(r, {"leave", "drainAll", "reset"})' <=> At(r, {"leave", "drainAll", "reset"})
             /\ At(r, {"drainAll", "reset"})' <=> At(r, {"drainAll", "reset"})
             /\ At(r, {"push"})' <=> At(r, {"push"})
             /\ At(r, InCleanup)' <=> At(r, InCleanup)
  BY <1>1, <1>4, AtFrame DEF StepOf, InCleanup
<1>7. \A r \in Slots : ~At(r, {"publish"}) /\ (At(r, {"publish"})' <=> r = s)
  <2>1. \A r \in Slots : ~At(r, {"publish"})
    BY <1>1, AtPublish
  <2> QED BY <1>1, <1>2, <1>4, <2>1 DEF At, StepOf, OthersKeep
<1>8. StateInv'
  <2>1. state[s] # "Connected" /\ ~socket[s]
    BY <1>5 DEF StateInv
  <2>2. \A r \in Slots : r # s => id'[r] = id[r]
    BY <1>3, <1>5
  <2>3. \A r \in Slots : r = s => At(r, {"publish"})' /\ state'[r] # "Connected" /\ ~socket'[r]
    BY <1>1, <1>7, <2>1
  <2>4. \A r \in Slots : r # s => /\ At(r, {"publish"})' <=> At(r, {"publish"})
                                  /\ state'[r] = state[r] /\ socket'[r] = socket[r]
    BY <1>1, <1>7
  <2> QED BY <1>6, <2>2, <2>3, <2>4 DEF StateInv
<1>9. ToldInv'
  <2> SUFFICES ASSUME NEW i \in left
               PROVE  /\ i \in Ids /\ i[2] < nextUnique + 1
                      /\ \A r \in Slots : id'[r] = i => At(r, {"drainAll", "reset"})
    BY <1>1, <1>6 DEF ToldInv
  <2>1. i \in Ids /\ i[2] < nextUnique /\ i[2] \in Nat
    BY DEF ToldInv, Ids
  <2>2. \A r \in Slots : id'[r] = i => r # s /\ id[r] = i
    BY <1>3, <1>5, <2>1
  <2> QED BY <1>5, <2>1, <2>2 DEF ToldInv
<1>10. NamingInv' /\ EmptyInv' /\ CleanedInv'
  <2>1. NamingInv'
    BY <1>1, <1>4, <1>5, ConstantAssumption DEF NamingInv
  <2>2. EmptyInv'
    BY <1>1, <1>6 DEF EmptyInv
  <2>3. CleanedInv'
    BY <1>1, <1>6 DEF CleanedInv, ctlVars
  <2> QED BY <2>1, <2>2, <2>3
<1>11. CountInv'
  <2>1. Counted = {r \in Slots : state[r] = "Connected" /\ ~At(r, {"drainAll", "reset"})}
    BY DEF Counted, At
  <2>2. Counted' = {r \in Slots : state[r] = "Connected" /\ ~At(r, {"drainAll", "reset"})'}
    BY <1>1 DEF Counted, At
  <2>3. Counted' = Counted
    BY <1>6, <2>1, <2>2
  <2> QED BY <1>1, <2>3 DEF CountInv
<1>12. ReleaseExactlyOnce'
  <2>1. ~Releasing(t) /\ ~Releasing(t)'
    BY <1>1, <1>4 DEF Releasing, InCleanup
  <2>2. \A r \in Slots : Releasers(r)' = Releasers(r)
    BY <1>1, <1>4, <2>1, ReleasersKept
  <2> QED BY <1>1, <2>2 DEF ReleaseExactlyOnce, ctlVars
<1> QED BY <1>8, <1>9, <1>10, <1>11, <1>12

(* The session is counted once its state says that it is connected. *)
LEMMA PublishLife ==
  ASSUME IInv, LifeInv, Publish
  PROVE  LifeInv'
<1> DEFINE t == Acceptor
<1>1. /\ t \in Threads /\ pc[t] = "publish" /\ slot[t] \in Slots
      /\ sessionCount' = sessionCount + 1 /\ Goto(t, "register") /\ UNCHANGED ctxVars
      /\ UNCHANGED <<ctlVars, id, posted, ring, sendFlag, free, nextUnique, left, own, zero>>
  BY ThreadFacts DEF Publish, Threads, IInv, sendVars, appVars
<1>2. PICK s \in Slots : s = slot[t]
  BY <1>1
<1>3. state' = [state EXCEPT ![s] = "Connected"] /\ socket' = [socket EXCEPT ![s] = TRUE]
  BY <1>2 DEF Publish
<1>4. StepOf(t) /\ pc'[t] = "register" /\ slot' = slot
  BY <1>1, GotoMoves DEF Labels
<1> USE DEF LifeInv
<1>5. id[s] # NoId /\ ~cleanup[s]
  <2>1. s \notin free /\ ~release[s]
    BY <1>1, <1>2 DEF IInv, PrepareInv, Preparing
  <2> QED BY <1>1, <1>2, <2>1 DEF IInv, SlotInv
<1>6. \A r : /\ At(r, {"leave", "drainAll", "reset"})' <=> At(r, {"leave", "drainAll", "reset"})
             /\ At(r, {"drainAll", "reset"})' <=> At(r, {"drainAll", "reset"})
             /\ At(r, {"push"})' <=> At(r, {"push"})
             /\ At(r, InCleanup)' <=> At(r, InCleanup)
  BY <1>1, <1>4, AtFrame DEF StepOf, InCleanup
<1>7. \A r \in Slots : (At(r, {"publish"}) <=> r = s) /\ ~At(r, {"publish"})'
  <2>1. \A r \in Slots : At(r, {"publish"}) <=> r = s
    BY <1>1, <1>2, AtPublish
  <2>2. \A u \in Threads : u # t => pc[u] # "publish"
    BY <1>1 DEF IInv, ThreadInv, ThreadOK, Serves, CleanupLabels, InCleanup
  <2> QED BY <1>1, <1>4, <2>1, <2>2 DEF At, StepOf, OthersKeep
<1>8. ~At(s, {"leave", "drainAll", "reset"}) /\ ~At(s, {"drainAll", "reset"})
  BY <1>5, AtIsCleaned DEF InCleanup
<1>9. /\ state'[s] = "Connected" /\ socket'[s] /\ state[s] # "Connected"
      /\ \A r \in Slots : r # s => state'[r] = state[r] /\ socket'[r] = socket[r]
  BY <1>3, <1>7 DEF StateInv, IInv, TypeInv, SessionTypes
<1>10. StateInv'
  <2> SUFFICES ASSUME NEW r \in Slots
               PROVE  /\ state'[r] = "Connected" <=> id[r] # NoId
                      /\ socket'[r] <=> state'[r] = "Connected"
                                        /\ ~At(r, {"leave", "drainAll", "reset"})
    BY <1>1, <1>6, <1>7 DEF StateInv
  <2>1. CASE r = s
    BY <1>5, <1>8, <1>9, <2>1
  <2>2. CASE r # s
    BY <1>7, <1>9, <2>2 DEF StateInv
  <2> QED BY <2>1, <2>2
<1>11. ToldInv' /\ NamingInv' /\ EmptyInv' /\ CleanedInv'
  <2>1. ToldInv'
    BY <1>1, <1>6 DEF ToldInv
  <2>2. NamingInv'
    BY <1>1, <1>4 DEF NamingInv
  <2>3. EmptyInv'
    BY <1>1, <1>6 DEF EmptyInv
  <2>4. CleanedInv'
    BY <1>1, <1>6 DEF CleanedInv, ctlVars
  <2> QED BY <2>1, <2>2, <2>3, <2>4
<1>12. CountInv'
  <2>1. Counted = {r \in Slots : state[r] = "Connected" /\ ~At(r, {"drainAll", "reset"})}
    BY DEF Counted, At
  <2>2. Counted' = {r \in Slots : state'[r] = "Connected" /\ ~At(r, {"drainAll", "reset"})'}
    BY DEF Counted, At
  <2>3. Counted' = Counted \cup {s} /\ s \notin Counted
    BY <1>6, <1>8, <1>9, <2>1, <2>2
  <2> QED BY <1>1, <2>3, FS_AddElement, FS_CardinalityType DEF CountInv
<1>13. ReleaseExactlyOnce'
  <2>1. ~Releasing(t) /\ ~Releasing(t)'
    BY <1>1, <1>4 DEF Releasing, InCleanup
  <2>2. \A r \in Slots : Releasers(r)' = Releasers(r)
    BY <1>1, <1>4, <2>1, ReleasersKept
  <2> QED BY <1>1, <2>2 DEF ReleaseExactlyOnce, ctlVars
<1> QED BY <1>10, <1>11, <1>12, <1>13

-----------------------------------------------------------------------------
(* releaseSession.                                                         *)

(* The completion hands its turn to the worker that takes it. *)
LEMMA ReleaseTakenLife ==
  ASSUME IInv, LifeInv, NEW w \in Workers, NEW s \in Slots, ReleaseTaken(w, s)
  PROVE  LifeInv' /\ Calm(w)
<1>1. /\ w \in Threads /\ pc[w] = "idle" /\ own[w] = {} /\ posted[s] > 0
      /\ posted' = [posted EXCEPT ![s] = @ - 1] /\ Begin(w, "Release", NoId, s, NoPacket, "cleanup")
      /\ UNCHANGED <<ctlVars, idVars, poolVars, left, sendVars, own, zero>>
  BY DEF ReleaseTaken, Threads, IInv, ThreadInv, ThreadOK, Owns, appVars
<1>2. StepOf(w) /\ pc'[w] = "cleanup" /\ slot'[w] = s
  <2>1. "Release" \in Ops /\ "cleanup" \in Labels
    BY DEF Ops, Labels
  <2> QED BY <1>1, <2>1, BeginMoves
<1>3. Calm(w)
  BY <1>1, <1>2 DEF Calm, Late, InCleanup, idVars, ctlVars, poolVars, sendVars
<1>4. CalmLife'
  BY <1>1, <1>3, CalmStep DEF LifeInv, CalmLife
<1>5. ReleaseExactlyOnce'
  <2>1. ~Releasing(w) /\ Releasing(w)'
    BY <1>1, <1>2 DEF Releasing, InCleanup
  <2>2. \A r \in Slots : Cardinality(Releasers(r)') =
            Cardinality(Releasers(r)) + (IF r = s THEN 1 ELSE 0)
    BY <1>1, <1>2, <2>1, ReleasersAdded
  <2>3. \A r \in Slots : posted'[r] = posted[r] - (IF r = s THEN 1 ELSE 0)
    BY <1>1 DEF IInv, TypeInv, SessionTypes
  <2>4. \A r \in Slots : posted'[r] + Cardinality(Releasers(r)') =
                             posted[r] + Cardinality(Releasers(r))
    BY <2>2, <2>3, TurnTypes
  <2> QED BY <1>1, <2>4 DEF LifeInv, ReleaseExactlyOnce, ctlVars, poolVars
<1> QED BY <1>3, <1>4, <1>5 DEF LifeInv, CalmLife

(* The worker at its CAS has the only turn there is: the CAS succeeds.      *)
LEMMA CleanupWins ==
  ASSUME IInv, LifeInv, NEW w \in Threads, pc[w] = "cleanup"
  PROVE  /\ slot[w] \in Slots /\ slot[w] \notin free
         /\ ioCount[slot[w]] = 0 /\ release[slot[w]] /\ ~cleanup[slot[w]]
         /\ id[slot[w]] # NoId
<1>1. slot[w] \in Slots
  BY ThreadFacts DEF IInv
<1>2. PICK s \in Slots : s = slot[w]
  BY <1>1
<1>3. w \in Releasers(s)
  BY <1>2 DEF Releasers, Releasing
<1>4. Cardinality(Releasers(s)) >= 1
  <2>1. Cardinality(Releasers(s)) # 0
    BY <1>3, ReleasersFinite, FS_EmptySet
  <2> QED BY <2>1, ReleasersFinite
<1>5. /\ release[s] /\ ioCount[s] = 0 /\ s \notin free
      /\ posted[s] + Cardinality(Releasers(s)) = 1
  BY <1>4, TurnTypes DEF LifeInv, ReleaseExactlyOnce
<1>6. ~cleanup[s]
  <2> SUFFICES ASSUME cleanup[s]
               PROVE  FALSE
    OBVIOUS
  <2>1. PICK u \in Threads : slot[u] = s /\ pc[u] \in InCleanup
    BY <1>5 DEF LifeInv, CleanedInv, At
  <2>2. u \in Releasers(s) /\ u # w
    BY <2>1 DEF Releasers, Releasing, InCleanup
  <2>3. Cardinality({u, w}) = 2
    <3>1. IsFiniteSet({u}) /\ Cardinality({u}) = 1
      BY FS_Singleton
    <3>2. w \notin {u} /\ {u} \cup {w} = {u, w}
      BY <2>2
    <3> QED BY <3>1, <3>2, FS_AddElement
  <2>4. Cardinality({u, w}) <= Cardinality(Releasers(s))
    <3>1. {u, w} \subseteq Releasers(s)
      BY <1>3, <2>2
    <3> QED BY <3>1, ReleasersFinite, FS_Subset
  <2> QED BY <1>5, <2>3, <2>4, TurnTypes
<1>7. id[s] # NoId
  <2>1. ~(slot[Acceptor] = s /\ pc[Acceptor] = "assignId")
    BY <1>5 DEF IInv, PrepareInv, Preparing
  <2> QED BY <1>5, <1>6, <2>1 DEF IInv, SlotInv
<1> QED BY <1>2, <1>5, <1>6, <1>7

(* A step of the only worker past FLAG_CLEANUP in its slot. *)
CleanerMoves(w) ==
    /\ StepOf(w) /\ pc[w] \in CleanupLabels /\ pc'[w] \in InCleanup /\ slot'[w] = slot[w]
    /\ \A u \in Threads \ {w} : pc[u] \in InCleanup => slot[u] # slot[w]

(* Where that leaves the slot, and every other. *)
LEMMA AtCleanerMoves ==
  ASSUME NEW w \in Threads, CleanerMoves(w), NEW L, L \subseteq InCleanup, NEW s
  PROVE  At(s, L)' <=> IF s = slot[w] THEN pc'[w] \in L ELSE At(s, L)
<1>1. CASE s = slot[w]
  <2>1. At(s, L)' <=> \E u \in Threads : slot'[u] = s /\ pc'[u] \in L
    BY DEF At
  <2>2. \A u \in Threads \ {w} : slot'[u] = s => pc'[u] \notin L
    BY <1>1 DEF CleanerMoves, StepOf, OthersKeep
  <2> QED BY <1>1, <2>1, <2>2 DEF CleanerMoves
<1>2. CASE s # slot[w]
  BY <1>2 DEF At, CleanerMoves, StepOf, OthersKeep
<1> QED BY <1>1, <1>2

(* The turn stays with it. *)
LEMMA CleanerOnce ==
  ASSUME ReleaseExactlyOnce, NEW w \in Threads, CleanerMoves(w),
         UNCHANGED <<ioCount, release, free, posted>>
  PROVE  ReleaseExactlyOnce'
<1>1. Releasing(w) /\ Releasing(w)'
  BY DEF CleanerMoves, Releasing, CleanupLabels
<1>2. \A r \in Slots : Releasers(r)' = Releasers(r)
  BY <1>1, ReleasersKept DEF CleanerMoves
<1> QED BY <1>2 DEF ReleaseExactlyOnce

(* What the clean-up counts, by where its worker is. *)
LEMMA CountedAt ==
  Counted = {r \in Slots : state[r] = "Connected" /\ ~At(r, {"drainAll", "reset"})}
BY DEF Counted, At

(* The step to the next label of the clean-up. *)
LEMMA CleanerGoto ==
  ASSUME IInv, NEW w \in Threads, pc[w] \in InCleanup, NEW l \in InCleanup,
         Goto(w, l), UNCHANGED ctxVars, UNCHANGED <<own, zero>>
  PROVE  CleanerMoves(w) /\ pc'[w] = l /\ slot' = slot
<1>1. l \in Labels /\ pc[w] \in CleanupLabels
  BY DEF InCleanup, Labels, CleanupLabels
<1>2. StepOf(w) /\ pc'[w] = l /\ slot' = slot
  BY <1>1, GotoMoves
<1>3. \A u \in Threads \ {w} : pc[u] \in InCleanup => slot[u] # slot[w]
  BY CleaningFacts
<1> QED BY <1>1, <1>2, <1>3 DEF CleanerMoves

(* FLAG_CLEANUP is set by the worker that starts the clean-up. *)
LEMMA CleanupLife ==
  ASSUME IInv, LifeInv, NEW w \in Threads, Cleanup(w)
  PROVE  LifeInv' /\ CleanerMoves(w) /\ pc'[w] = "close"
<1>1. /\ pc[w] = "cleanup" /\ slot[w] \in Slots /\ slot[w] \notin free
      /\ ioCount[slot[w]] = 0 /\ release[slot[w]] /\ ~cleanup[slot[w]]
  BY CleanupWins DEF Cleanup
<1>2. PICK s \in Slots : s = slot[w]
  BY <1>1
<1>3. /\ cleanup' = [cleanup EXCEPT ![s] = TRUE]
      /\ Begin(w, "Release", id[s], s, NoPacket, "close")
      /\ UNCHANGED <<ioCount, release, idVars, posted, sendVars, poolVars, left, own, zero>>
  BY <1>1, <1>2 DEF Cleanup, appVars
<1>4. StepOf(w) /\ pc'[w] = "close" /\ slot'[w] = s
  <2>1. "Release" \in Ops /\ "close" \in Labels /\ id[s] \in Ids \cup {NoId}
    BY DEF Ops, Labels, IInv, TypeInv, SessionTypes
  <2> QED BY <1>3, <2>1, BeginMoves
<1>5. CleanerMoves(w)
  <2>1. \A u \in Threads \ {w} : pc[u] \in InCleanup => slot[u] # slot[w]
    BY <1>1 DEF IInv, CleanerInv
  <2>2. pc[w] \in CleanupLabels /\ pc'[w] \in InCleanup
    BY <1>1, <1>4 DEF CleanupLabels, InCleanup
  <2> QED BY <1>2, <1>4, <2>1, <2>2 DEF CleanerMoves
<1>6. \A r \in Slots :
             /\ At(r, {"publish"})' <=> At(r, {"publish"})
             /\ At(r, {"leave", "drainAll", "reset"})' <=> At(r, {"leave", "drainAll", "reset"})
             /\ At(r, {"drainAll", "reset"})' <=> At(r, {"drainAll", "reset"})
             /\ At(r, {"push"})' <=> At(r, {"push"})
             /\ At(r, InCleanup)' <=> (At(r, InCleanup) \/ r = s)
  <2>1. \A r \in Slots :
             /\ At(r, {"publish"})' <=> At(r, {"publish"})
             /\ At(r, {"leave", "drainAll", "reset"})' <=> At(r, {"leave", "drainAll", "reset"})
             /\ At(r, {"drainAll", "reset"})' <=> At(r, {"drainAll", "reset"})
             /\ At(r, {"push"})' <=> At(r, {"push"})
    BY <1>1, <1>4, AtFrame DEF StepOf
  <2>2. \A r \in Slots : At(r, InCleanup)' <=> (At(r, InCleanup) \/ r = s)
    BY <1>2, <1>4, <1>5, AtCleanerMoves DEF InCleanup
  <2> QED BY <2>1, <2>2
<1> USE DEF LifeInv
<1>7. StateInv' /\ ToldInv' /\ NamingInv' /\ EmptyInv'
  <2>1. StateInv'
    BY <1>3, <1>6 DEF StateInv, idVars
  <2>2. ToldInv'
    BY <1>3, <1>6 DEF ToldInv, idVars, poolVars
  <2>3. NamingInv'
    <3>1. Acceptor \in Threads /\ w # Acceptor
      BY <1>1, ThreadFacts DEF IInv, CleanupLabels
    <3> QED BY <1>3, <1>4, <3>1 DEF NamingInv, idVars, poolVars, StepOf, OthersKeep
  <2>4. EmptyInv'
    BY <1>3, <1>6 DEF EmptyInv, sendVars, poolVars
  <2> QED BY <2>1, <2>2, <2>3, <2>4
<1>8. CountInv'
  <2>1. Counted' = {r \in Slots : state[r] = "Connected" /\ ~At(r, {"drainAll", "reset"})'}
    BY <1>3 DEF Counted, At, idVars
  <2>2. Counted' = Counted
    BY <1>6, <2>1, CountedAt
  <2> QED BY <1>3, <2>2 DEF CountInv, poolVars
<1>9. CleanedInv'
  BY <1>3, <1>6 DEF CleanedInv, poolVars, IInv, TypeInv, SessionTypes
<1>10. ReleaseExactlyOnce'
  BY <1>3, <1>5, CleanerOnce DEF poolVars
<1> QED BY <1>4, <1>5, <1>7, <1>8, <1>9, <1>10

(* What holds of the slot of a worker on its way through the clean-up.      *)
LEMMA CleanerSlot ==
  ASSUME IInv, LifeInv, NEW w \in Threads, pc[w] \in InCleanup
  PROVE  /\ slot[w] \in Slots /\ slot[w] \notin free /\ cleanup[slot[w]] /\ release[slot[w]]
         /\ \A L \in SUBSET InCleanup : At(slot[w], L) <=> pc[w] \in L
         /\ ~At(slot[w], {"publish"}) /\ w # Acceptor /\ Acceptor \in Threads
<1>1. /\ slot[w] \in Slots /\ slot[w] \notin free /\ cleanup[slot[w]] /\ release[slot[w]]
      /\ w # Acceptor /\ Acceptor \in Threads
      /\ Preparing => slot[Acceptor] # slot[w]
  BY CleaningFacts
<1>2. \A L \in SUBSET InCleanup : At(slot[w], L) <=> pc[w] \in L
  BY AtCleaner
<1>3. ~At(slot[w], {"publish"})
  BY <1>1, AtPublish DEF Preparing
<1> QED BY <1>1, <1>2, <1>3

(* The other slots of a clean-up step keep what they have.                  *)
LEMMA CleanerElse ==
  ASSUME IInv, NEW w \in Threads, CleanerMoves(w), pc[w] \in InCleanup, NEW r, r # slot[w]
  PROVE  /\ At(r, {"publish"})' <=> At(r, {"publish"})
         /\ At(r, {"leave", "drainAll", "reset"})' <=> At(r, {"leave", "drainAll", "reset"})
         /\ At(r, {"drainAll", "reset"})' <=> At(r, {"drainAll", "reset"})
         /\ At(r, {"push"})' <=> At(r, {"push"})
         /\ At(r, InCleanup)' <=> At(r, InCleanup)
<1>1. At(r, {"publish"})' <=> At(r, {"publish"})
  BY AtFrame DEF CleanerMoves, StepOf, InCleanup
<1>2. /\ {"leave", "drainAll", "reset"} \subseteq InCleanup
      /\ {"drainAll", "reset"} \subseteq InCleanup /\ {"push"} \subseteq InCleanup
  BY DEF InCleanup
<1> QED BY <1>1, <1>2, AtCleanerMoves

(* And where it is itself.                                                  *)
LEMMA CleanerHere ==
  ASSUME IInv, NEW w \in Threads, CleanerMoves(w), pc[w] \in InCleanup,
         NEW s \in Slots, s = slot[w]
  PROVE  /\ ~At(s, {"publish"})'
         /\ At(s, {"leave", "drainAll", "reset"})' <=> pc'[w] \in {"leave", "drainAll", "reset"}
         /\ At(s, {"drainAll", "reset"})' <=> pc'[w] \in {"drainAll", "reset"}
         /\ At(s, {"push"})' <=> pc'[w] = "push"
         /\ At(s, InCleanup)'
<1>1. ~At(s, {"publish"})'
  <2>1. ~At(s, {"publish"})
    BY CleaningFacts, AtPublish DEF Preparing
  <2> QED BY <2>1, AtFrame DEF CleanerMoves, StepOf, InCleanup
<1>2. /\ {"leave", "drainAll", "reset"} \subseteq InCleanup
      /\ {"drainAll", "reset"} \subseteq InCleanup /\ {"push"} \subseteq InCleanup
  BY DEF InCleanup
<1>3. /\ At(s, {"leave", "drainAll", "reset"})' <=> pc'[w] \in {"leave", "drainAll", "reset"}
      /\ At(s, {"drainAll", "reset"})' <=> pc'[w] \in {"drainAll", "reset"}
      /\ At(s, {"push"})' <=> pc'[w] \in {"push"}
  BY <1>2, AtCleanerMoves
<1>4. At(s, InCleanup)'
  BY AtCleanerMoves DEF CleanerMoves
<1> QED BY <1>1, <1>3, <1>4

(* The socket is closed before anything else goes. *)
LEMMA CloseSocketLife ==
  ASSUME IInv, LifeInv, NEW w \in Threads, CloseSocket(w)
  PROVE  LifeInv' /\ CleanerMoves(w) /\ pc'[w] = "leave"
<1>1. /\ pc[w] = "close" /\ pc[w] \in InCleanup /\ Goto(w, "leave") /\ UNCHANGED ctxVars
      /\ UNCHANGED <<ctlVars, id, state, posted, sendVars, poolVars, left, own, zero>>
  BY DEF CloseSocket, InCleanup, appVars
<1>2. PICK s \in Slots : s = slot[w]
  BY <1>1, CleanerSlot
<1>3. /\ s \notin free /\ cleanup[s] /\ ~At(s, {"publish"}) /\ w # Acceptor /\ Acceptor \in Threads
      /\ ~At(s, {"leave", "drainAll", "reset"}) /\ ~At(s, {"drainAll", "reset"})
      /\ ~At(s, {"push"})
  BY <1>1, <1>2, CleanerSlot DEF InCleanup
<1>4. CleanerMoves(w) /\ pc'[w] = "leave" /\ slot' = slot
  <2>1. "leave" \in InCleanup
    BY DEF InCleanup
  <2> QED BY <1>1, <2>1, CleanerGoto
<1>5. /\ ~At(s, {"publish"})' /\ At(s, {"leave", "drainAll", "reset"})'
      /\ ~At(s, {"drainAll", "reset"})' /\ ~At(s, {"push"})' /\ At(s, InCleanup)'
  BY <1>1, <1>2, <1>4, CleanerHere
<1>6. \A r \in Slots : r # s =>
         /\ At(r, {"publish"})' <=> At(r, {"publish"})
         /\ At(r, {"leave", "drainAll", "reset"})' <=> At(r, {"leave", "drainAll", "reset"})
         /\ At(r, {"drainAll", "reset"})' <=> At(r, {"drainAll", "reset"})
         /\ At(r, {"push"})' <=> At(r, {"push"})
         /\ At(r, InCleanup)' <=> At(r, InCleanup)
  BY <1>1, <1>2, <1>4, CleanerElse
<1> USE DEF LifeInv
<1>7. StateInv'
  <2>1. socket' = [socket EXCEPT ![s] = FALSE]
    BY <1>2 DEF CloseSocket
  <2>2. ~socket'[s] /\ \A r \in Slots : r # s => socket'[r] = socket[r]
    BY <2>1 DEF IInv, TypeInv, SessionTypes
  <2> SUFFICES ASSUME NEW r \in Slots
               PROVE  /\ state[r] = "Connected" <=> id[r] # NoId /\ ~At(r, {"publish"})'
                      /\ socket'[r] <=> state[r] = "Connected"
                                            /\ ~At(r, {"leave", "drainAll", "reset"})'
    BY <1>1 DEF StateInv
  <2>3. CASE r = s
    BY <1>3, <1>5, <2>2, <2>3 DEF StateInv
  <2>4. CASE r # s
    BY <1>6, <2>2, <2>4 DEF StateInv
  <2> QED BY <2>3, <2>4
<1>8. ToldInv' /\ NamingInv' /\ EmptyInv' /\ CleanedInv'
  <2>1. ToldInv'
    <3>1. \A r \in Slots : At(r, {"drainAll", "reset"}) => At(r, {"drainAll", "reset"})'
      BY <1>3, <1>6
    <3> QED BY <1>1, <3>1 DEF ToldInv, poolVars
  <2>2. NamingInv'
    BY <1>1, <1>3, <1>4 DEF NamingInv, poolVars, CleanerMoves, StepOf, OthersKeep
  <2>3. EmptyInv'
    <3>1. \A r \in Slots : At(r, {"push"})' => At(r, {"push"})
      BY <1>5, <1>6
    <3> QED BY <1>1, <3>1 DEF EmptyInv, poolVars, sendVars
  <2>4. CleanedInv'
    BY <1>1, <1>5, <1>6 DEF CleanedInv, poolVars, ctlVars
  <2> QED BY <2>1, <2>2, <2>3, <2>4
<1>9. CountInv'
  <2>1. Counted' = {r \in Slots : state[r] = "Connected" /\ ~At(r, {"drainAll", "reset"})'}
    BY <1>1 DEF Counted, At
  <2>2. \A r \in Slots : At(r, {"drainAll", "reset"})' <=> At(r, {"drainAll", "reset"})
    BY <1>3, <1>5, <1>6
  <2>3. Counted' = Counted
    BY <2>1, <2>2, CountedAt
  <2> QED BY <1>1, <2>3 DEF CountInv, poolVars
<1>10. ReleaseExactlyOnce'
  BY <1>1, <1>4, CleanerOnce DEF ctlVars, poolVars
<1> QED BY <1>4, <1>7, <1>8, <1>9, <1>10

(* The end of the session is told, under its own id, and it is not counted  *)
(* any more.                                                                *)
LEMMA LeaveLife ==
  ASSUME IInv, LifeInv, NEW w \in Threads, Leave(w)
  PROVE  LifeInv' /\ CleanerMoves(w) /\ pc'[w] = "drainAll"
<1>1. /\ pc[w] = "leave" /\ pc[w] \in InCleanup /\ Goto(w, "drainAll") /\ UNCHANGED ctxVars
      /\ left' = left \cup {arg[w]} /\ sessionCount' = sessionCount - 1
      /\ UNCHANGED <<ctlVars, idVars, posted, sendVars, free, nextUnique, own, zero>>
  BY DEF Leave, InCleanup
<1>2. PICK s \in Slots : s = slot[w]
  BY <1>1, CleanerSlot
<1>3. /\ s \notin free /\ cleanup[s] /\ ~At(s, {"publish"}) /\ w # Acceptor /\ Acceptor \in Threads
      /\ At(s, {"leave", "drainAll", "reset"}) /\ ~At(s, {"drainAll", "reset"})
      /\ ~At(s, {"push"})
  BY <1>1, <1>2, CleanerSlot DEF InCleanup
<1>4. CleanerMoves(w) /\ pc'[w] = "drainAll" /\ slot' = slot
  <2>1. "drainAll" \in InCleanup
    BY DEF InCleanup
  <2> QED BY <1>1, <2>1, CleanerGoto
<1>5. /\ ~At(s, {"publish"})' /\ At(s, {"leave", "drainAll", "reset"})'
      /\ At(s, {"drainAll", "reset"})' /\ ~At(s, {"push"})' /\ At(s, InCleanup)'
  BY <1>1, <1>2, <1>4, CleanerHere
<1>6. \A r \in Slots : r # s =>
         /\ At(r, {"publish"})' <=> At(r, {"publish"})
         /\ At(r, {"leave", "drainAll", "reset"})' <=> At(r, {"leave", "drainAll", "reset"})
         /\ At(r, {"drainAll", "reset"})' <=> At(r, {"drainAll", "reset"})
         /\ At(r, {"push"})' <=> At(r, {"push"})
         /\ At(r, InCleanup)' <=> At(r, InCleanup)
  BY <1>1, <1>2, <1>4, CleanerElse
<1> USE DEF LifeInv
<1>7. id[s] = arg[w] /\ arg[w] \in Ids /\ arg[w][1] = s /\ arg[w][2] < nextUnique
  <2>1. id[s] = arg[w] /\ arg[w] \in Ids /\ arg[w][1] = s
    BY <1>1, <1>2 DEF IInv, CleanerInv
  <2> QED BY <2>1, ConstantAssumption DEF IInv, FreshIds
<1>8. StateInv'
  <2>1. \A r \in Slots : /\ At(r, {"publish"})' <=> At(r, {"publish"})
                         /\ At(r, {"leave", "drainAll", "reset"})' <=>
                                At(r, {"leave", "drainAll", "reset"})
    BY <1>3, <1>5, <1>6
  <2> QED BY <1>1, <2>1 DEF StateInv, idVars
<1>9. ToldInv'
  <2> SUFFICES ASSUME NEW i \in left \cup {arg[w]}
               PROVE  /\ i \in Ids /\ i[2] < nextUnique
                      /\ \A r \in Slots : id[r] = i => At(r, {"drainAll", "reset"})'
    BY <1>1 DEF ToldInv, idVars
  <2>1. CASE i \in left
    BY <1>5, <1>6, <2>1 DEF ToldInv
  <2>2. CASE i = arg[w]
    <3>1. \A r \in Slots : id[r] = i => r = s
      BY <1>7, <2>2, ConstantAssumption DEF IInv, FreshIds
    <3> QED BY <1>5, <1>7, <2>2, <3>1
  <2> QED BY <2>1, <2>2
<1>10. NamingInv' /\ EmptyInv' /\ CleanedInv'
  <2>2. NamingInv'
    BY <1>1, <1>3, <1>4 DEF NamingInv, idVars, CleanerMoves, StepOf, OthersKeep
  <2>3. EmptyInv'
    <3>1. \A r \in Slots : At(r, {"push"})' => At(r, {"push"})
      BY <1>5, <1>6
    <3> QED BY <1>1, <3>1 DEF EmptyInv, sendVars
  <2>4. CleanedInv'
    BY <1>1, <1>5, <1>6 DEF CleanedInv, ctlVars
  <2> QED BY <2>2, <2>3, <2>4
<1>11. CountInv'
  <2>1. Counted' = {r \in Slots : state[r] = "Connected" /\ ~At(r, {"drainAll", "reset"})'}
    BY <1>1 DEF Counted, At, idVars
  <2>2. state[s] = "Connected"
    BY <1>3, <1>7, ConstantAssumption DEF StateInv
  <2>3. Counted' = Counted \ {s} /\ s \in Counted
    BY <1>3, <1>5, <1>6, <2>1, <2>2, CountedAt
  <2> QED BY <1>1, <2>3, FS_RemoveElement, FS_CardinalityType DEF CountInv
<1>12. ReleaseExactlyOnce'
  BY <1>1, <1>4, CleanerOnce DEF ctlVars
<1> QED BY <1>4, <1>8, <1>9, <1>10, <1>11, <1>12

(* The ring is emptied before the slot is reset. *)
LEMMA DrainAllLife ==
  ASSUME IInv, LifeInv, NEW w \in Threads, DrainAll(w)
  PROVE  LifeInv' /\ CleanerMoves(w) /\ pc'[w] = "reset"
<1>1. /\ pc[w] = "drainAll" /\ pc[w] \in InCleanup /\ Goto(w, "reset") /\ UNCHANGED ctxVars
      /\ UNCHANGED <<ctlVars, idVars, posted, sendFlag, sent, poolVars, left, own, zero>>
  BY DEF DrainAll, InCleanup, appVars
<1>2. PICK s \in Slots : s = slot[w]
  BY <1>1, CleanerSlot
<1>3. /\ s \notin free /\ cleanup[s] /\ ~At(s, {"publish"}) /\ w # Acceptor /\ Acceptor \in Threads
      /\ At(s, {"leave", "drainAll", "reset"}) /\ At(s, {"drainAll", "reset"})
      /\ ~At(s, {"push"})
  BY <1>1, <1>2, CleanerSlot DEF InCleanup
<1>4. CleanerMoves(w) /\ pc'[w] = "reset" /\ slot' = slot
  <2>1. "reset" \in InCleanup
    BY DEF InCleanup
  <2> QED BY <1>1, <2>1, CleanerGoto
<1>5. /\ ~At(s, {"publish"})' /\ At(s, {"leave", "drainAll", "reset"})'
      /\ At(s, {"drainAll", "reset"})' /\ ~At(s, {"push"})' /\ At(s, InCleanup)'
  BY <1>1, <1>2, <1>4, CleanerHere
<1>6. \A r \in Slots :
         /\ At(r, {"publish"})' <=> At(r, {"publish"})
         /\ At(r, {"leave", "drainAll", "reset"})' <=> At(r, {"leave", "drainAll", "reset"})
         /\ At(r, {"drainAll", "reset"})' <=> At(r, {"drainAll", "reset"})
         /\ At(r, {"push"})' <=> At(r, {"push"})
         /\ r # s => (At(r, InCleanup)' <=> At(r, InCleanup))
  <2>1. \A r \in Slots : r # s =>
         /\ At(r, {"publish"})' <=> At(r, {"publish"})
         /\ At(r, {"leave", "drainAll", "reset"})' <=> At(r, {"leave", "drainAll", "reset"})
         /\ At(r, {"drainAll", "reset"})' <=> At(r, {"drainAll", "reset"})
         /\ At(r, {"push"})' <=> At(r, {"push"})
         /\ At(r, InCleanup)' <=> At(r, InCleanup)
    BY <1>1, <1>2, <1>4, CleanerElse
  <2> QED BY <1>3, <1>5, <2>1
<1> USE DEF LifeInv
<1>7. StateInv' /\ ToldInv' /\ NamingInv' /\ CleanedInv'
  <2>1. StateInv'
    BY <1>1, <1>6 DEF StateInv, idVars
  <2>2. ToldInv'
    BY <1>1, <1>6 DEF ToldInv, idVars, poolVars
  <2>3. NamingInv'
    BY <1>1, <1>3, <1>4 DEF NamingInv, idVars, poolVars, CleanerMoves, StepOf, OthersKeep
  <2>4. CleanedInv'
    BY <1>1, <1>5, <1>6 DEF CleanedInv, ctlVars, poolVars
  <2> QED BY <2>1, <2>2, <2>3, <2>4
<1>8. EmptyInv'
  <2>1. ring' = [ring EXCEPT ![s] = <<>>]
    BY <1>2 DEF DrainAll
  <2>2. \A r \in Slots : r # s => ring'[r] = ring[r]
    BY <2>1 DEF IInv, TypeInv, SessionTypes
  <2>3. \A r \in Slots : r \in free \/ At(r, {"push"}) => r # s
    BY <1>3
  <2> QED BY <1>1, <1>6, <2>2, <2>3 DEF EmptyInv, poolVars
<1>9. CountInv'
  <2>1. Counted' = {r \in Slots : state[r] = "Connected" /\ ~At(r, {"drainAll", "reset"})'}
    BY <1>1 DEF Counted, At, idVars
  <2>2. Counted' = Counted
    BY <1>6, <2>1, CountedAt
  <2> QED BY <1>1, <2>2 DEF CountInv, poolVars
<1>10. ReleaseExactlyOnce'
  BY <1>1, <1>4, CleanerOnce DEF ctlVars, poolVars
<1> QED BY <1>4, <1>7, <1>8, <1>9, <1>10

(* The slot forgets its session before it goes back. *)
LEMMA ResetLife ==
  ASSUME IInv, LifeInv, NEW w \in Threads, Reset(w)
  PROVE  LifeInv' /\ CleanerMoves(w) /\ pc'[w] = "push"
<1>1. /\ pc[w] = "reset" /\ pc[w] \in InCleanup /\ Goto(w, "push") /\ UNCHANGED ctxVars
      /\ UNCHANGED <<ctlVars, socket, posted, sent, poolVars, left, own, zero>>
  BY DEF Reset, InCleanup, appVars
<1>2. PICK s \in Slots : s = slot[w]
  BY <1>1, CleanerSlot
<1>3. /\ s \notin free /\ cleanup[s] /\ ~At(s, {"publish"}) /\ w # Acceptor /\ Acceptor \in Threads
      /\ At(s, {"leave", "drainAll", "reset"}) /\ At(s, {"drainAll", "reset"})
      /\ ~At(s, {"push"})
  BY <1>1, <1>2, CleanerSlot DEF InCleanup
<1>4. CleanerMoves(w) /\ pc'[w] = "push" /\ slot' = slot
  <2>1. "push" \in InCleanup
    BY DEF InCleanup
  <2> QED BY <1>1, <2>1, CleanerGoto
<1>5. /\ ~At(s, {"publish"})' /\ ~At(s, {"leave", "drainAll", "reset"})'
      /\ ~At(s, {"drainAll", "reset"})' /\ At(s, {"push"})' /\ At(s, InCleanup)'
  BY <1>1, <1>2, <1>4, CleanerHere
<1>6. \A r \in Slots : r # s =>
         /\ At(r, {"publish"})' <=> At(r, {"publish"})
         /\ At(r, {"leave", "drainAll", "reset"})' <=> At(r, {"leave", "drainAll", "reset"})
         /\ At(r, {"drainAll", "reset"})' <=> At(r, {"drainAll", "reset"})
         /\ At(r, {"push"})' <=> At(r, {"push"})
         /\ At(r, InCleanup)' <=> At(r, InCleanup)
  BY <1>1, <1>2, <1>4, CleanerElse
<1>7. /\ ring' = [ring EXCEPT ![s] = <<>>] /\ id' = [id EXCEPT ![s] = NoId]
      /\ state' = [state EXCEPT ![s] = "Free"] /\ sendFlag' = [sendFlag EXCEPT ![s] = 0]
  BY <1>2 DEF Reset
<1>8. /\ ring'[s] = <<>> /\ id'[s] = NoId /\ state'[s] = "Free" /\ sendFlag'[s] = 0
      /\ \A r \in Slots : r # s => /\ ring'[r] = ring[r] /\ id'[r] = id[r]
                                   /\ state'[r] = state[r] /\ sendFlag'[r] = sendFlag[r]
  BY <1>7 DEF IInv, TypeInv, SessionTypes
<1> USE DEF LifeInv
<1>9. StateInv'
  <2> SUFFICES ASSUME NEW r \in Slots
               PROVE  /\ state'[r] = "Connected" <=> id'[r] # NoId /\ ~At(r, {"publish"})'
                      /\ socket[r] <=> state'[r] = "Connected"
                                           /\ ~At(r, {"leave", "drainAll", "reset"})'
    BY <1>1 DEF StateInv
  <2>1. CASE r = s
    BY <1>3, <1>8, <2>1 DEF StateInv
  <2>2. CASE r # s
    BY <1>6, <1>8, <2>2 DEF StateInv
  <2> QED BY <2>1, <2>2
<1>10. ToldInv'
  <2> SUFFICES ASSUME NEW i \in left
               PROVE  /\ i \in Ids /\ i[2] < nextUnique
                      /\ \A r \in Slots : id'[r] = i => At(r, {"drainAll", "reset"})'
    BY <1>1 DEF ToldInv, poolVars
  <2>1. i \in Ids /\ i[2] < nextUnique /\ i # NoId
    BY ConstantAssumption DEF ToldInv
  <2> QED BY <1>6, <1>8, <2>1 DEF ToldInv
<1>11. NamingInv' /\ EmptyInv' /\ CleanedInv'
  <2>1. NamingInv'
    <3>1. pc'[Acceptor] = pc[Acceptor] /\ slot'[Acceptor] = slot[Acceptor]
      BY <1>3, <1>4 DEF CleanerMoves, StepOf, OthersKeep
    <3>2. pc[Acceptor] = "assignId" => slot[Acceptor] \in Slots
      BY <1>3, ThreadFacts DEF IInv
    <3> QED BY <1>1, <1>8, <3>1, <3>2 DEF NamingInv, poolVars
  <2>2. EmptyInv'
    BY <1>1, <1>3, <1>6, <1>8 DEF EmptyInv, poolVars
  <2>3. CleanedInv'
    BY <1>1, <1>5, <1>6 DEF CleanedInv, ctlVars, poolVars
  <2> QED BY <2>1, <2>2, <2>3
<1>12. CountInv'
  <2>1. Counted' = {r \in Slots : state'[r] = "Connected" /\ ~At(r, {"drainAll", "reset"})'}
    BY DEF Counted, At
  <2>2. Counted' = Counted
    BY <1>3, <1>6, <1>8, <2>1, CountedAt
  <2> QED BY <1>1, <2>2 DEF CountInv, poolVars
<1>13. ReleaseExactlyOnce'
  BY <1>1, <1>4, CleanerOnce DEF ctlVars, poolVars
<1> QED BY <1>4, <1>9, <1>10, <1>11, <1>12, <1>13

(* The index goes back, and with it the turn of the worker ends. *)
LEMMA PushLife ==
  ASSUME IInv, LifeInv, NEW w \in Threads, Push(w)
  PROVE  /\ LifeInv' /\ StepOf(w) /\ pc'[w] = "idle" /\ free' = free \cup {slot[w]}
         /\ slot[w] \in Slots
<1>1. /\ pc[w] = "push" /\ pc[w] \in InCleanup /\ End(w)
      /\ UNCHANGED <<ctlVars, idVars, posted, sendVars, nextUnique, sessionCount, left, own, zero>>
  BY DEF Push, InCleanup, appVars
<1>2. PICK s \in Slots : s = slot[w]
  BY <1>1, CleanerSlot
<1>3. /\ s \notin free /\ release[s] /\ ~At(s, {"publish"}) /\ w # Acceptor /\ Acceptor \in Threads
      /\ ~At(s, {"leave", "drainAll", "reset"}) /\ ~At(s, {"drainAll", "reset"})
      /\ At(s, {"push"}) /\ arg[w][1] = s
      /\ \A u \in Threads : pc[u] \in InCleanup /\ slot[u] = s => u = w
  BY <1>1, <1>2, CleanerSlot, CleaningFacts DEF InCleanup
<1>4. StepOf(w) /\ pc'[w] = "idle" /\ slot'[w] = NoSlot /\ free' = free \cup {s}
  BY <1>1, <1>3, EndMoves DEF Push
<1>5. \A r \in Slots :
         /\ At(r, {"publish"})' <=> At(r, {"publish"})
         /\ At(r, {"leave", "drainAll", "reset"})' <=> At(r, {"leave", "drainAll", "reset"})
         /\ At(r, {"drainAll", "reset"})' <=> At(r, {"drainAll", "reset"})
  BY <1>1, <1>4, AtFrame DEF StepOf
<1>6. \A r \in Slots : /\ At(r, {"push"})' => At(r, {"push"})
                       /\ r # s /\ At(r, InCleanup) => At(r, InCleanup)'
  <2>1. \A r \in Slots : At(r, {"push"})' => At(r, {"push"})
    BY <1>1, <1>4 DEF At, StepOf, OthersKeep
  <2>2. \A r \in Slots : r # s /\ At(r, InCleanup) => At(r, InCleanup)'
    BY <1>2, <1>4 DEF At, StepOf, OthersKeep
  <2> QED BY <2>1, <2>2
<1> USE DEF LifeInv
<1>7. StateInv' /\ ToldInv' /\ NamingInv'
  <2>1. StateInv'
    BY <1>1, <1>5 DEF StateInv, idVars
  <2>2. ToldInv'
    BY <1>1, <1>5 DEF ToldInv, idVars
  <2>3. NamingInv'
    BY <1>1, <1>3, <1>4 DEF NamingInv, idVars, StepOf, OthersKeep
  <2> QED BY <2>1, <2>2, <2>3
<1>8. EmptyInv' /\ CleanedInv'
  <2>1. EmptyInv'
    BY <1>1, <1>3, <1>4, <1>6 DEF EmptyInv, sendVars
  <2>2. CleanedInv'
    BY <1>1, <1>4, <1>6 DEF CleanedInv, ctlVars
  <2> QED BY <2>1, <2>2
<1>9. CountInv'
  <2>1. Counted' = {r \in Slots : state[r] = "Connected" /\ ~At(r, {"drainAll", "reset"})'}
    BY <1>1 DEF Counted, At, idVars
  <2>2. Counted' = Counted
    BY <1>5, <2>1, CountedAt
  <2> QED BY <1>1, <2>2 DEF CountInv
<1>10. ReleaseExactlyOnce'
  <2>1. Releasing(w) /\ ~Releasing(w)'
    BY <1>1, <1>4 DEF Releasing, InCleanup
  <2>2. \A r \in Slots : Cardinality(Releasers(r)') =
            Cardinality(Releasers(r)) - (IF r = s THEN 1 ELSE 0)
    BY <1>2, <1>4, <2>1, ReleasersRemoved
  <2>3. ioCount[s] = 0
    <3>1. ThreadRefs(s) = {} /\ recv[s] = "none" /\ send[s] = "none"
      BY <1>1, <1>2, CleaningFacts
    <3> QED BY <3>1, FS_EmptySet DEF IInv, RefCountExact, IoRefs
  <2> SUFFICES ASSUME NEW r \in Slots
               PROVE  posted[r] + Cardinality(Releasers(r)') =
                          IF release[r] /\ ioCount[r] = 0 /\ r \notin free' THEN 1 ELSE 0
    BY <1>1 DEF ReleaseExactlyOnce, ctlVars
  <2>4. posted[r] + Cardinality(Releasers(r)) =
            IF release[r] /\ ioCount[r] = 0 /\ r \notin free THEN 1 ELSE 0
    BY DEF ReleaseExactlyOnce
  <2>5. CASE r = s
    BY <1>3, <1>4, <2>2, <2>3, <2>4, <2>5, TurnTypes
  <2>6. CASE r # s
    BY <1>4, <2>2, <2>4, <2>6, TurnTypes
  <2> QED BY <2>5, <2>6
<1> QED BY <1>2, <1>4, <1>7, <1>8, <1>9, <1>10

-----------------------------------------------------------------------------
(* The invariant of the specification.                                     *)

(* A calm step: nothing moves, or one reference does, or the release.       *)
CalmKind(t) ==
    \/ Quiet(t) \/ Starts(t) \/ Closes(t) \/ Posts(t)
    \/ \E r \in {"call", "io"} : Takes(t, r) \/ Drops(t, r)
    \/ \E s \in Slots : Ends(t, s)

(* Of the accept thread: all but the three steps of createSession.          *)
LEMMA AcceptKinds ==
  ASSUME IInv, AcceptStep
  PROVE  Accept \/ AssignId \/ Publish \/ CalmKind(Acceptor)
BY RegisterQuiet, JoinQuiet DEF AcceptStep, CalmKind

(* Of any thread in a call or a service: all but those of the clean-up.     *)
LEMMA ContinueKinds ==
  ASSUME IInv, NEW t \in Threads, Continue(t)
  PROVE  \/ CalmKind(t)
         \/ Cleanup(t) \/ CloseSocket(t) \/ Leave(t) \/ DrainAll(t) \/ Reset(t) \/ Push(t)
<1>1. CASE Acquire(t)
  BY <1>1, AcquireQuiet, TakesRef DEF CalmKind
<1>2. CASE Recheck(t) \/ Enqueue(t) \/ Exchange(t) \/ Drain(t) \/ ClearFlag(t) \/ ResetFlag(t)
  BY <1>2, RecheckQuiet, EnqueueQuiet, ExchangeQuiet, DrainQuiet, FlagQuiet DEF CalmKind
<1>3. CASE SendRef(t)
  BY <1>3, SendRefQuiet, TakesRef DEF CalmKind
<1>4. CASE WsaSend(t)
  BY <1>4, WsaSendQuiet, StartsSend DEF CalmKind
<1>5. CASE RecvRef(t)
  BY <1>5, RecvRefQuiet, TakesRef DEF CalmKind
<1>6. CASE WsaRecv(t)
  BY <1>6, WsaRecvQuiet, StartsRecv DEF CalmKind
<1>7. CASE SetRelease(t)
  BY <1>7, SetReleaseQuiet, SetReleaseCloses DEF CalmKind
<1>8. CASE Cancel(t) \/ DropIo(t) \/ DropCall(t)
  BY <1>8, CancelPosts, DropsIo, DropsCall DEF CalmKind
<1> QED BY <1>1, <1>2, <1>3, <1>4, <1>5, <1>6, <1>7, <1>8 DEF Continue

(* Of a worker at the IOCP: all but that it takes a RELEASE.                *)
LEMMA DequeueKinds ==
  ASSUME IInv, NEW w \in Workers, NEW s \in Slots, Dequeue(w, s)
  PROVE  ReleaseTaken(w, s) \/ CalmKind(w)
BY EndsIo DEF Dequeue, CalmKind

(* A calm step keeps LifeInv. *)
LEMMA CalmKindLife ==
  ASSUME IInv, LifeInv, NEW t \in Threads, CalmKind(t)
  PROVE  LifeInv'
<1>1. CalmLife'
  <2>1. Calm(t)
    BY DEF CalmKind, Quiet, Starts, Closes, Posts, Takes, Drops, Ends
  <2> QED BY <2>1, CalmStep DEF LifeInv, CalmLife
<1>2. ReleaseExactlyOnce'
  <2>1. ReleaseExactlyOnce
    BY DEF LifeInv
  <2>2. CASE Quiet(t) \/ Starts(t) \/ Closes(t) \/ Posts(t)
    BY <2>1, <2>2, QuietOnce, PassesOnce, ClosesOnce, PostsOnce
  <2>3. CASE \E r \in {"call", "io"} : Takes(t, r) \/ Drops(t, r)
    BY <2>1, <2>3, TakesOnce, DropsOnce
  <2>4. CASE \E s \in Slots : Ends(t, s)
    BY <2>1, <2>4, PassesOnce
  <2> QED BY <2>2, <2>3, <2>4 DEF CalmKind
<1> QED BY <1>1, <1>2 DEF LifeInv, CalmLife

(* The outcome of an I/O is no thread's business yet. *)
LEMMA NetworkLife ==
  ASSUME LifeInv,
         UNCHANGED <<ctlVars, idVars, posted, sendFlag, ring, poolVars, left, pc, slot, zero>>
  PROVE  LifeInv'
<1>1. \A s, L : At(s, L)' <=> At(s, L)
  BY DEF At
<1>2. \A s : Releasers(s)' = Releasers(s)
  BY DEF Releasers, Releasing
<1> USE DEF LifeInv, ctlVars, idVars, poolVars
<1>3. StateInv' /\ ToldInv'
  BY <1>1 DEF StateInv, ToldInv
<1>4. NamingInv' /\ EmptyInv'
  BY <1>1 DEF NamingInv, EmptyInv
<1>5. CountInv'
  BY DEF CountInv, Counted
<1>6. CleanedInv'
  BY <1>1 DEF CleanedInv
<1>7. ReleaseExactlyOnce'
  BY <1>2 DEF ReleaseExactlyOnce
<1> QED BY <1>3, <1>4, <1>5, <1>6, <1>7

(* Before the first connection nothing is told, counted or released. *)
LEMMA InitLife ==
  ASSUME Init
  PROVE  LifeInv
<1>1. /\ \A t \in Threads : pc[t] = "idle" /\ slot[t] = NoSlot /\ ~zero[t]
      /\ \A s \in Slots : /\ id[s] = NoId /\ state[s] = "Free" /\ ~socket[s] /\ ring[s] = <<>>
                          /\ sendFlag[s] = 0 /\ ioCount[s] = 0 /\ ~release[s] /\ ~cleanup[s]
                          /\ posted[s] = 0 /\ s \in free
      /\ left = {} /\ nextUnique = 0 /\ sessionCount = 0 /\ Acceptor \in Threads
  BY DEF Init, Threads
<1>2. StateInv /\ ToldInv /\ EmptyInv /\ CleanedInv
  BY <1>1 DEF StateInv, ToldInv, EmptyInv, CleanedInv
<1>3. NamingInv
  BY <1>1, ConstantAssumption DEF NamingInv
<1>4. CountInv
  <2>1. Counted = {}
    BY <1>1 DEF Counted
  <2> QED BY <1>1, <2>1, FS_EmptySet DEF CountInv
<1>5. ReleaseExactlyOnce
  <2>1. \A s \in Slots : Releasers(s) = {}
    BY <1>1 DEF Releasers, Releasing, InCleanup
  <2>2. \A s \in Slots : Cardinality(Releasers(s)) = 0
    BY <2>1, FS_EmptySet
  <2>3. \A s \in Slots : posted[s] + Cardinality(Releasers(s)) = 0
    BY <1>1, <2>2
  <2> QED BY <1>1, <2>3 DEF ReleaseExactlyOnce
<1> QED BY <1>2, <1>3, <1>4, <1>5 DEF LifeInv

(* No step breaks it. *)
LEMMA NextLife ==
  ASSUME IInv, LifeInv, [Next]_vars
  PROVE  LifeInv'
<1>1. CASE AcceptStep
  <2>1. Acceptor \in Threads
    BY DEF Threads
  <2> QED BY <1>1, <2>1, AcceptKinds, AcceptLife, AssignIdLife, PublishLife, CalmKindLife
<1>2. ASSUME NEW t \in Apps, Call(t)
      PROVE  LifeInv'
  BY <1>2, CallQuiet, CalmKindLife DEF CalmKind, Threads
<1>3. ASSUME NEW t \in Threads, Continue(t)
      PROVE  LifeInv'
  BY <1>3, ContinueKinds, CalmKindLife, CleanupLife, CloseSocketLife, LeaveLife, DrainAllLife,
     ResetLife, PushLife
<1>4. ASSUME NEW w \in Workers, NEW s \in Slots, Dequeue(w, s)
      PROVE  LifeInv'
  BY <1>4, DequeueKinds, CalmKindLife, ReleaseTakenLife DEF Threads
<1>5. ASSUME NEW s \in Slots, Network(s)
      PROVE  LifeInv'
  <2>1. UNCHANGED <<ctlVars, idVars, posted, sendFlag, ring, poolVars, left, pc, slot, zero>>
    BY <1>5 DEF Network, RecvCompletes, SendCompletes, sendVars, appVars, ctxVars
  <2> QED BY <2>1, NetworkLife
<1>6. CASE UNCHANGED vars
  <2>1. UNCHANGED <<ctlVars, idVars, posted, sendFlag, ring, poolVars, left, pc, slot, zero>>
    BY <1>6 DEF vars, sendVars, appVars, ctxVars
  <2> QED BY <2>1, NetworkLife
<1> QED BY <1>1, <1>2, <1>3, <1>4, <1>5, <1>6 DEF Next

(* Both invariants hold in every reachable state. *)
THEOREM SpecLifeInv == Spec => [](IInv /\ LifeInv)
<1>1. Init => LifeInv
  BY InitLife
<1>2. IInv /\ LifeInv /\ [Next]_vars => LifeInv'
  BY NextLife
<1> QED BY <1>1, <1>2, SpecIInv, PTL DEF Spec

-----------------------------------------------------------------------------
(* What follows from it.                                                   *)

(* As soon as a released session has no reference there is exactly one       *)
(* RELEASE under way for it (a completion, the thread about to post it, the  *)
(* worker that took it) until its slot is free, and none before: the session *)
(* is neither lost nor cleaned up twice.                                    *)
THEOREM ReleaseIsHandedOverOnce == Spec => []ReleaseExactlyOnce
<1>1. LifeInv => ReleaseExactlyOnce
  BY DEF LifeInv
<1> QED BY <1>1, SpecLifeInv, PTL

(* A call of the application past its re-validation works on the session it  *)
(* was asked for: connected, with an open socket, its end not told.         *)
THEOREM CallsWorkOnTheirSession == Spec => []TargetAlive
<1>1. IInv /\ LifeInv => TargetAlive
  <2> SUFFICES ASSUME IInv, LifeInv, NEW t \in Apps,
                      "call" \in own[t], pc[t] \notin {"recheck", "dropCall"}
               PROVE  /\ id[slot[t]] = arg[t] /\ state[slot[t]] = "Connected"
                      /\ socket[slot[t]] /\ arg[t] \notin left
    BY DEF TargetAlive
  <2>1. /\ t \in Threads /\ ThreadOK(t) /\ Solid(t) /\ slot[t] \in Slots
        /\ slot[t] \notin free /\ ~cleanup[slot[t]]
    BY ThreadFacts, OwnedIsLive DEF Threads, Solid, IInv, ThreadInv
  <2>2. op[t] \in {"DisConnect", "SendPacket"}
    BY <2>1, ThreadAssumption DEF ThreadOK, Serves, Owns
  <2>3. id[slot[t]] # NoId /\ id[slot[t]] = arg[t]
    BY <2>1, <2>2 DEF IInv, SolidInv
  <2>4. ~At(slot[t], {"publish"})
    BY <2>1, AtPublish DEF IInv, PrepareInv, Preparing
  <2>5. ~At(slot[t], {"leave", "drainAll", "reset"}) /\ ~At(slot[t], {"drainAll", "reset"})
    BY <2>1, AtIsCleaned DEF InCleanup
  <2>6. state[slot[t]] = "Connected" /\ socket[slot[t]]
    BY <2>1, <2>3, <2>4, <2>5 DEF LifeInv, StateInv
  <2>7. arg[t] \notin left
    BY <2>1, <2>3, <2>5 DEF LifeInv, ToldInv
  <2> QED BY <2>3, <2>6, <2>7
<1> QED BY <1>1, SpecLifeInv, PTL

(* A slot on the free stack carries nothing of the connection before.       *)
THEOREM FreeSlotsAreClean == Spec => []CleanRecycled
<1>1. IInv /\ LifeInv => CleanRecycled
  BY FreeIsClean DEF CleanRecycled
<1> QED BY <1>1, SpecLifeInv, PTL

(* mSessionCount is the number of sessions between createSession and         *)
(* OnClientLeave.                                                           *)
THEOREM SessionsAreCounted == Spec => []SessionCountExact
<1>1. LifeInv => SessionCountExact
  BY DEF LifeInv, CountInv, Counted, SessionCountExact
<1> QED BY <1>1, SpecLifeInv, PTL

-----------------------------------------------------------------------------
(* What the application is told of a session.                              *)

(* A step that says nothing: neither an id, nor what was told, nor the       *)
(* session the accept thread has under way changes.                         *)
Silent ==
    /\ UNCHANGED <<id, nextUnique, joined, refused, left>>
    /\ Announcing \/ Announcing' => pc'[Acceptor] = pc[Acceptor] /\ slot'[Acceptor] = slot[Acceptor]

LEMMA SilentAnnounce ==
  ASSUME AnnounceInv, Silent
  PROVE  AnnounceInv'
BY DEF AnnounceInv, Announcing, Told, Silent

(* A thread whose labels are not those of the announcement moves alone. *)
LEMMA SilentMove ==
  ASSUME NEW t \in Threads, NEW l, NEW s, pc \in [Threads -> Labels],
         slot \in [Threads -> Slots \cup {NoSlot}], Acceptor \in Threads,
         pc' = [pc EXCEPT ![t] = l], slot' = slot \/ slot' = [slot EXCEPT ![t] = s],
         t # Acceptor \/ {pc[t], l} \cap {"publish", "register", "join"} = {},
         UNCHANGED <<id, nextUnique, joined, refused, left>>
  PROVE  Silent
<1>1. CASE t = Acceptor
  BY <1>1 DEF Silent, Announcing
<1>2. CASE t # Acceptor
  <2>1. pc'[Acceptor] = pc[Acceptor] /\ slot'[Acceptor] = slot[Acceptor]
    BY <1>2
  <2> QED BY <2>1 DEF Silent
<1> QED BY <1>1, <1>2

(* The steps of a call or a service but for OnClientLeave and Reset. *)
LEMMA ContinueSilent ==
  ASSUME IInv, NEW t \in Threads, Continue(t), ~Leave(t), ~Reset(t)
  PROVE  Silent
<1>1. /\ pc \in [Threads -> Labels] /\ slot \in [Threads -> Slots \cup {NoSlot}]
      /\ Acceptor \in Threads
  BY DEF IInv, TypeInv, ThreadTypes, Threads
<1> USE DEF Goto, Begin, End, AfterRelease, idVars, poolVars, appVars, ctxVars
<1>2. CASE Acquire(t)
  BY <1>1, <1>2, SilentMove DEF Acquire
<1>3. CASE Recheck(t)
  BY <1>1, <1>3, SilentMove DEF Recheck
<1>4. CASE Enqueue(t)
  BY <1>1, <1>4, SilentMove DEF Enqueue
<1>5. CASE Exchange(t)
  BY <1>1, <1>5, SilentMove DEF Exchange
<1>6. CASE Drain(t)
  BY <1>1, <1>6, SilentMove DEF Drain
<1>7. CASE SendRef(t)
  BY <1>1, <1>7, SilentMove DEF SendRef
<1>8. CASE WsaSend(t)
  BY <1>1, <1>8, SilentMove DEF WsaSend
<1>9. CASE ClearFlag(t)
  BY <1>1, <1>9, SilentMove DEF ClearFlag
<1>10. CASE RecvRef(t)
  BY <1>1, <1>10, SilentMove DEF RecvRef
<1>11. CASE WsaRecv(t)
  BY <1>1, <1>11, SilentMove DEF WsaRecv
<1>12. CASE SetRelease(t)
  BY <1>1, <1>12, SilentMove DEF SetRelease
<1>13. CASE Cancel(t)
  BY <1>1, <1>13, SilentMove DEF Cancel
<1>14. CASE DropIo(t)
  BY <1>1, <1>14, SilentMove DEF DropIo
<1>15. CASE DropCall(t)
  BY <1>1, <1>15, SilentMove DEF DropCall
<1>16. CASE ResetFlag(t)
  BY <1>1, <1>16, SilentMove DEF ResetFlag
<1>17. CASE Cleanup(t)
  BY <1>1, <1>17, SilentMove DEF Cleanup
<1>18. CASE CloseSocket(t)
  BY <1>1, <1>18, SilentMove DEF CloseSocket
<1>19. CASE DrainAll(t)
  BY <1>1, <1>19, SilentMove DEF DrainAll
<1>20. CASE Push(t)
  BY <1>1, <1>20, SilentMove DEF Push
<1> QED
  BY <1>2, <1>3, <1>4, <1>5, <1>6, <1>7, <1>8, <1>9, <1>10, <1>11, <1>12, <1>13, <1>14, <1>15,
     <1>16, <1>17, <1>18, <1>19, <1>20 DEF Continue

(* The calls of the application and the completions are of other threads. *)
LEMMA OthersSilent ==
  ASSUME IInv, \/ \E t \in Apps : Call(t)
               \/ \E w \in Workers, s \in Slots : Dequeue(w, s)
               \/ \E s \in Slots : Network(s)
               \/ UNCHANGED vars
  PROVE  Silent
<1>1. /\ pc \in [Threads -> Labels] /\ slot \in [Threads -> Slots \cup {NoSlot}]
      /\ Acceptor \in Threads
  BY DEF IInv, TypeInv, ThreadTypes, Threads
<1>2. \A t \in Apps \cup Workers : t # Acceptor /\ t \in Threads
  BY ThreadAssumption DEF Threads
<1> USE DEF Goto, Begin, idVars, poolVars, appVars, ctxVars
<1>3. ASSUME NEW t \in Apps, Call(t)
      PROVE  Silent
  BY <1>1, <1>2, <1>3, SilentMove DEF Call, DisConnect, SendPacket
<1>4. ASSUME NEW w \in Workers, NEW s \in Slots, Dequeue(w, s)
      PROVE  Silent
  <2>1. UNCHANGED <<id, nextUnique, joined, refused, left>>
    BY <1>4 DEF Dequeue, RecvEnded, RecvData, SendFailed, SendDone, ReleaseTaken
  <2>2. /\ \E l : pc' = [pc EXCEPT ![w] = l]
        /\ slot' = [slot EXCEPT ![w] = s]
    BY <1>4 DEF Dequeue, RecvEnded, RecvData, SendFailed, SendDone, ReleaseTaken, Completion
  <2> QED BY <1>1, <1>2, <2>1, <2>2, SilentMove
<1>5. CASE (\E s \in Slots : Network(s)) \/ UNCHANGED vars
  BY <1>5 DEF Network, RecvCompletes, SendCompletes, vars, Silent, Announcing
<1> QED BY <1>3, <1>4, <1>5

(* A new session gets its id, which was never told. *)
LEMMA AcceptAnnounce ==
  ASSUME IInv, AnnounceInv, Accept \/ AssignId \/ Publish
  PROVE  AnnounceInv'
<1> DEFINE s == slot[Acceptor]
<1> USE DEF AnnounceInv, Announcing, Told, idVars, poolVars, appVars, ctxVars
<1>1. /\ pc \in [Threads -> Labels] /\ slot \in [Threads -> Slots \cup {NoSlot}]
      /\ Acceptor \in Threads /\ id \in [Slots -> Ids \cup {NoId}] /\ nextUnique \in Nat
  BY DEF IInv, TypeInv, SessionTypes, ServerTypes, ThreadTypes, Threads
<1>2. CASE Accept
  <2>1. PICK x \in free : InitSession(x) /\ Begin(Acceptor, "Accept", NoId, x, NoPacket, "assignId")
    BY <1>2 DEF Accept
  <2>2. /\ pc[Acceptor] = "idle" /\ pc'[Acceptor] = "assignId"
        /\ UNCHANGED <<joined, refused, left, nextUnique>>
        /\ \A y \in Slots : id'[y] = NoId \/ id'[y] = id[y]
    BY <1>1, <1>2, <2>1 DEF Accept, InitSession, Begin, Goto
  <2> QED BY <2>2
<1>3. CASE AssignId
  <2>1. /\ pc[Acceptor] = "assignId" /\ pc'[Acceptor] = "publish" /\ slot' = slot /\ s \in Slots
        /\ UNCHANGED <<joined, refused, left>> /\ nextUnique' = nextUnique + 1
        /\ id'[s] = <<s, nextUnique>> /\ \A y \in Slots \ {s} : id'[y] = id[y]
    BY <1>1, <1>3, ThreadFacts DEF AssignId, Goto, IInv
  <2>2. <<s, nextUnique>> \in Ids /\ \A i \in Told : i \in Ids /\ i[2] < nextUnique /\ i[2] \in Nat
    BY <1>1, <2>1 DEF Ids
  <2>3. <<s, nextUnique>> \notin Told
    BY <1>1, <2>2
  <2>4. \A i \in Told : i[2] < nextUnique'
    BY <1>1, <2>1, <2>2
  <2> QED BY <2>1, <2>2, <2>3, <2>4
<1>4. CASE Publish
  <2>1. /\ pc[Acceptor] = "publish" /\ pc'[Acceptor] = "register" /\ slot' = slot
        /\ UNCHANGED <<joined, refused, left, nextUnique, id>>
    BY <1>1, <1>4 DEF Publish, Goto
  <2> QED BY <2>1
<1> QED BY <1>2, <1>3, <1>4

(* It joins or is refused, and the other never. *)
LEMMA JoinAnnounce ==
  ASSUME IInv, AnnounceInv, ~LoginCopy, Register \/ Join
  PROVE  AnnounceInv'
<1> DEFINE s == slot[Acceptor]
<1> USE DEF AnnounceInv, Announcing, Told, idVars, poolVars, ctxVars
<1>1. /\ pc \in [Threads -> Labels] /\ Acceptor \in Threads
      /\ slot \in [Threads -> Slots \cup {NoSlot}] /\ ~RecvFirst
  BY DEF IInv, TypeInv, ThreadTypes, Threads, RecvFirst
<1>2. Announcing /\ id[s] \in Ids /\ id[s] \notin Told /\ s \in Slots
  BY ThreadFacts, <1>1 DEF Register, Join, IInv
<1>3. CASE Register
  <2>1. UNCHANGED <<id, nextUnique, joined, left, slot>>
    BY <1>3 DEF Register
  <2>2. \/ pc'[Acceptor] = "join" /\ refused' = refused
        \/ pc'[Acceptor] = "setRelease" /\ refused' = refused \cup {id[s]}
    BY <1>1, <1>3 DEF Register, Goto
  <2>3. id[s][2] < nextUnique
    BY <1>2, ConstantAssumption DEF IInv, FreshIds
  <2> QED BY <1>2, <2>1, <2>2, <2>3
<1>4. CASE Join
  <2>1. /\ UNCHANGED <<id, nextUnique, refused, left, slot>> /\ pc'[Acceptor] = "recvRef"
        /\ joined' = joined \cup {id[s]}
    BY <1>1, <1>4 DEF Join, Goto
  <2>3. id[s][2] < nextUnique
    BY <1>2, ConstantAssumption DEF IInv, FreshIds
  <2> QED BY <1>2, <2>1, <2>3
<1> QED BY <1>3, <1>4

(* Who is told of the end is not the session under way. *)
LEMMA LeaveAnnounce ==
  ASSUME IInv, AnnounceInv, ~LoginCopy, NEW w \in Threads, Leave(w) \/ Reset(w)
  PROVE  AnnounceInv'
<1> DEFINE s == slot[w]
<1> USE DEF AnnounceInv, Announcing, Told, idVars, poolVars, ctxVars
<1>1. /\ pc \in [Threads -> Labels] /\ Acceptor \in Threads
      /\ slot \in [Threads -> Slots \cup {NoSlot}] /\ id \in [Slots -> Ids \cup {NoId}]
  BY DEF IInv, TypeInv, SessionTypes, ThreadTypes, Threads
<1>2. pc[w] \in InCleanup /\ pc[w] # "push"
  BY DEF Leave, Reset, InCleanup
<1>3. /\ cleanup[s] /\ release[s] /\ s \in Slots /\ arg[w] \in Ids /\ id[s] = arg[w]
  BY <1>2, CleaningFacts, ThreadFacts DEF IInv, CleanerInv
<1>4. Announcing => ~release[slot[Acceptor]]
  BY DEF IInv, PrepareInv, Preparing, RecvFirst
<1>5. ~Announcing \/ slot[Acceptor] # s
  BY <1>3, <1>4
<1>6. w # Acceptor \/ ~Announcing
  BY <1>5
<1>7. UNCHANGED <<nextUnique, joined, refused, slot>>
  BY DEF Leave, Reset, Goto, appVars
<1>8. Announcing' <=> Announcing
  BY <1>1, <1>2 DEF Leave, Reset, Goto, InCleanup
<1>9. CASE Leave(w)
  <2>1. left' = left \cup {arg[w]} /\ id' = id
    BY <1>9 DEF Leave
  <2>2. arg[w] \in Told
    BY <1>3, <1>5, ConstantAssumption
  <2> QED BY <1>7, <1>8, <2>1, <2>2
<1>10. CASE Reset(w)
  <2>1. id' = [id EXCEPT ![s] = NoId] /\ left' = left
    BY <1>10 DEF Reset, appVars
  <2>2. Announcing => slot[Acceptor] \in Slots /\ id'[slot[Acceptor]] = id[slot[Acceptor]]
    BY <1>1, <1>5, <2>1, ThreadFacts DEF IInv
  <2> QED BY <1>1, <1>7, <1>8, <2>1, <2>2
<1> QED BY <1>9, <1>10

(* In the copies of the engine that call OnClientJoin before the first       *)
(* receive, the application is told of the end of a session only after it    *)
(* was told of the session, under its id, but for a session whose            *)
(* registration failed: of that it is told the end alone.                   *)
THEOREM JoinIsToldFirst ==
  ASSUME ~LoginCopy
  PROVE  Spec => []JoinBeforeLeave
<1>1. Init => AnnounceInv
  BY DEF Init, AnnounceInv, Announcing, Told, Threads
<1>2. IInv /\ AnnounceInv /\ [Next]_vars => AnnounceInv'
  <2> SUFFICES ASSUME IInv, AnnounceInv, [Next]_vars
               PROVE  AnnounceInv'
    OBVIOUS
  <2>1. CASE AcceptStep
    BY <2>1, AcceptAnnounce, JoinAnnounce DEF AcceptStep
  <2>2. ASSUME NEW t \in Threads, Continue(t)
        PROVE  AnnounceInv'
    BY <2>2, ContinueSilent, SilentAnnounce, LeaveAnnounce
  <2>3. CASE \/ \E t \in Apps : Call(t)
             \/ \E w \in Workers, s \in Slots : Dequeue(w, s)
             \/ \E s \in Slots : Network(s)
             \/ UNCHANGED vars
    BY <2>3, OthersSilent, SilentAnnounce
  <2> QED BY <2>1, <2>2, <2>3 DEF Next
<1>3. AnnounceInv => JoinBeforeLeave
  BY ConstantAssumption DEF AnnounceInv, Told, JoinBeforeLeave
<1> QED BY <1>1, <1>2, <1>3, SpecIInv, PTL DEF Spec

================================================================================
