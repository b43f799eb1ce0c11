--------------------------- MODULE BaseServerProofs ---------------------------
(***************************************************************************)
(* Proofs about BaseServer: IInv is inductive for every number of slots,    *)
(* threads and packets, and with it the reference count of every session is *)
(* exact, no slot is recycled while it is referenced, and one thread at     *)
(* most sends on a session.                                                 *)
(*                                                                         *)
(* A step belongs to one thread t: OthersKeep(t). The frame lemmas say what *)
(* such a step must respect for each conjunct of IInv to survive it; each   *)
(* action has a lemma that cites the frames of the conjuncts it does not    *)
(* disturb and argues for the ones it does.                                 *)
(***************************************************************************)
EXTENDS BaseServerInvariant, FiniteSetTheorems, SequenceTheorems, TLAPS

OthersKeep(t) == \A u \in Threads \ {t} :
    /\ pc'[u] = pc[u] /\ op'[u] = op[u] /\ arg'[u] = arg[u] /\ slot'[u] = slot[u]
    /\ own'[u] = own[u] /\ pkt'[u] = pkt[u]

-----------------------------------------------------------------------------
(* Types of the thread variables after a step.                             *)

(* Goto keeps the type of pc. *)
LEMMA GotoType ==
  ASSUME ThreadTypes, NEW t \in Threads, NEW l \in Labels, Goto(t, l)
  PROVE  pc' \in [Threads -> Labels]
BY DEF ThreadTypes, Goto

(* Begin keeps the types of the thread's context. *)
LEMMA BeginType ==
  ASSUME ThreadTypes, NEW t \in Threads, NEW o \in Ops, NEW i \in Ids \cup {NoId},
         NEW s \in Slots \cup {NoSlot}, NEW p \in Packets \cup {NoPacket}, NEW l \in Labels,
         Begin(t, o, i, s, p, l)
  PROVE  /\ pc' \in [Threads -> Labels] /\ op' \in [Threads -> Ops]
         /\ arg' \in [Threads -> Ids \cup {NoId}] /\ slot' \in [Threads -> Slots \cup {NoSlot}]
         /\ pkt' \in [Threads -> Packets \cup {NoPacket}]
<1>1. pc' \in [Threads -> Labels] BY DEF ThreadTypes, Begin, Goto
<1>2. op' \in [Threads -> Ops] BY DEF ThreadTypes, Begin
<1>3. arg' \in [Threads -> Ids \cup {NoId}] BY DEF ThreadTypes, Begin
<1>4. slot' \in [Threads -> Slots \cup {NoSlot}] BY DEF ThreadTypes, Begin
<1>5. pkt' \in [Threads -> Packets \cup {NoPacket}] BY DEF ThreadTypes, Begin
<1> QED BY <1>1, <1>2, <1>3, <1>4, <1>5

(* So does the return of a call. *)
LEMMA EndType ==
  ASSUME ThreadTypes, NEW t \in Threads, End(t)
  PROVE  /\ pc' \in [Threads -> Labels] /\ op' \in [Threads -> Ops]
         /\ arg' \in [Threads -> Ids \cup {NoId}] /\ slot' \in [Threads -> Slots \cup {NoSlot}]
         /\ pkt' \in [Threads -> Packets \cup {NoPacket}]
<1>1. "none" \in Ops /\ "idle" \in Labels BY DEF Ops, Labels
<1> QED BY <1>1, BeginType DEF End

-----------------------------------------------------------------------------
(* Frames: one for each conjunct of IInv.                                  *)

(* The other threads keep to their labels. *)
LEMMA ThreadFrame ==
  ASSUME ThreadInv, NEW t \in Threads, OthersKeep(t), joined \subseteq joined', ThreadOK(t)'
  PROVE  ThreadInv'
BY DEF ThreadInv, ThreadOK, Serves, Owns, Base, CleanupLabels, InCleanup, OthersKeep, Known

(* A step of t that leaves flags, ids and the free stack alone keeps SlotInv, *)
(* as long as t takes no free slot up except to look for a clean-up.        *)
LEMMA SlotFrame ==
  ASSUME TypeInv, SlotInv, NEW t \in Threads, OthersKeep(t), Acceptor \in Threads,
         UNCHANGED <<cleanup, release, free, id>>, pc[t] # "assignId",
         \/ slot'[t] = slot[t] /\ pc[t] # "cleanup"
         \/ slot'[t] \notin free \/ pc'[t] = "cleanup"
  PROVE  SlotInv'
BY DEF SlotInv, OthersKeep

(* A thread outside the clean-up disturbs no clean-up.                      *)
LEMMA CleanerFrame ==
  ASSUME CleanerInv, NEW t \in Threads, OthersKeep(t), UNCHANGED <<cleanup, free, id>>,
         pc'[t] \notin InCleanup
  PROVE  CleanerInv'
BY DEF CleanerInv, OthersKeep

(* I/O starts on sessions with an id only, and t takes up work only on the   *)
(* session it was asked for.                                                *)
LEMMA SolidFrame ==
  ASSUME SolidInv, NEW t \in Threads, OthersKeep(t), UNCHANGED id,
         \A s \in Slots : recv'[s] # "none" \/ send'[s] # "none" =>
             recv[s] # "none" \/ send[s] # "none" \/ id[s] # NoId,
         Solid(t)' => /\ id[slot'[t]] # NoId
                      /\ op'[t] \in {"DisConnect", "SendPacket"} => id[slot'[t]] = arg'[t]
  PROVE  SolidInv'
BY DEF SolidInv, Solid, OthersKeep

(* The session under preparation stays private: t neither starts I/O on it   *)
(* nor takes up work on it.                                                 *)
LEMMA PrepareFrame ==
  ASSUME TypeInv, PrepareInv, NEW t \in Threads, OthersKeep(t), Acceptor \in Threads,
         UNCHANGED <<release, free, id, joined>>,
         Preparing' => /\ Preparing /\ slot'[Acceptor] = slot[Acceptor]
                       /\ recv[slot[Acceptor]] = "none" => recv'[slot[Acceptor]] = "none"
                       /\ send[slot[Acceptor]] = "none" => send'[slot[Acceptor]] = "none",
         Preparing /\ slot'[t] = slot[Acceptor] => ~Solid(t)'
  PROVE  PrepareInv'
BY DEF PrepareInv, Solid, OthersKeep, Known

(* t does not start to send on a session it did not send on before.         *)
LEMMA SendFrame ==
  ASSUME SendInv, NEW t \in Threads, OthersKeep(t), UNCHANGED sendFlag,
         \A s \in Slots : send'[s] = "none" <=> send[s] = "none",
         TypeInv, TypeInv', \A u \in Threads : Sending(u) => slot[u] \in Slots,
         Sending(t)' => Sending(t) /\ slot'[t] = slot[t]
  PROVE  SendInv'
BY DEF SendInv, Sending, OthersKeep

(* t does not take up the next receive of a session.                        *)
LEMMA RecvFrame ==
  ASSUME RecvInv, NEW t \in Threads, OthersKeep(t),
         \A s \in Slots : recv[s] = "none" => recv'[s] = "none",
         \A u \in Threads : Receiving(u) => slot[u] \in Slots,
         Receiving(t)' => Receiving(t) /\ slot'[t] = slot[t]
  PROVE  RecvInv'
BY DEF RecvInv, Receiving, OthersKeep

(* t gets references, and I/O starts, only on slots that are neither free    *)
(* nor in their clean-up.                                                   *)
LEMMA LiveFrame ==
  ASSUME ReferencedIsLive, NEW t \in Threads, OthersKeep(t), UNCHANGED <<free, cleanup>>,
         \A s \in Slots : recv'[s] # "none" \/ send'[s] # "none" =>
             recv[s] # "none" \/ send[s] # "none" \/ (s \notin free /\ ~cleanup[s]),
         own'[t] # {} => slot'[t] \notin free /\ ~cleanup[slot'[t]]
  PROVE  ReferencedIsLive'
BY DEF ReferencedIsLive, ThreadRefs, OthersKeep

(* What a reference protects, in the form the proofs use it. *)
LEMMA OwnedIsLive ==
  ASSUME TypeInv, ReferencedIsLive, NEW t \in Threads, own[t] # {}, slot[t] \in Slots
  PROVE  slot[t] \notin free /\ ~cleanup[slot[t]]
<1>1. own[t] \in SUBSET {"call", "io"}
  BY DEF TypeInv, ThreadTypes
<1>2. PICK r : r \in own[t] /\ r \in {"call", "io"}
  BY <1>1
<1>3. <<t, r>> \in ThreadRefs(slot[t])
  BY <1>2 DEF ThreadRefs
<1> QED BY <1>3 DEF ReferencedIsLive

-----------------------------------------------------------------------------
(* Counting the references of a session.                                   *)

(* The references of a session are finitely many: two per thread at most.   *)
LEMMA RefsFinite ==
  ASSUME NEW s
  PROVE  IsFiniteSet(ThreadRefs(s)) /\ Cardinality(ThreadRefs(s)) \in Nat
<1>1. IsFiniteSet({"call", "io"})
  <2>1. IsFiniteSet({"call"})
    BY FS_Singleton
  <2>2. IsFiniteSet({"call"} \cup {"io"})
    BY <2>1, FS_AddElement
  <2>3. {"call"} \cup {"io"} = {"call", "io"}
    OBVIOUS
  <2> QED BY <2>2, <2>3
<1>2. IsFiniteSet(Threads \X {"call", "io"})
  BY <1>1, FS_Product, ThreadAssumption
<1>3. ThreadRefs(s) \subseteq Threads \X {"call", "io"}
  BY DEF ThreadRefs
<1>4. IsFiniteSet(ThreadRefs(s))
  BY <1>2, <1>3, FS_Subset
<1> QED BY <1>4, FS_CardinalityType

(* A step that gives and takes no thread reference: t moves to another slot *)
(* only when it owns none.                                                  *)
LEMMA RefsKept ==
  ASSUME NEW t \in Threads, OthersKeep(t), own'[t] = own[t],
         own[t] = {} \/ slot'[t] = slot[t], NEW s
  PROVE  ThreadRefs(s)' = ThreadRefs(s)
BY DEF ThreadRefs, OthersKeep

(* One reference more for the slot t works on, none for the others. *)
LEMMA RefsAdded ==
  ASSUME NEW t \in Threads, OthersKeep(t), NEW r \in {"call", "io"}, r \notin own[t],
         own'[t] = own[t] \cup {r}, own[t] = {} \/ slot'[t] = slot[t], NEW s
  PROVE  Cardinality(ThreadRefs(s)') =
             Cardinality(ThreadRefs(s)) + (IF s = slot'[t] THEN 1 ELSE 0)
<1>1. CASE s = slot'[t]
  <2>1. ThreadRefs(s)' = ThreadRefs(s) \cup {<<t, r>>}
    BY <1>1 DEF ThreadRefs, OthersKeep
  <2>2. <<t, r>> \notin ThreadRefs(s)
    BY DEF ThreadRefs
  <2> QED BY <1>1, <2>1, <2>2, RefsFinite, FS_AddElement
<1>2. CASE s # slot'[t]
  <2>1. ThreadRefs(s)' = ThreadRefs(s)
    BY <1>2 DEF ThreadRefs, OthersKeep
  <2> QED BY <1>2, <2>1, RefsFinite
<1> QED BY <1>1, <1>2

(* One reference less for the slot t works on, none for the others. *)
LEMMA RefsRemoved ==
  ASSUME NEW t \in Threads, OthersKeep(t), NEW r \in {"call", "io"}, r \in own[t],
         own'[t] = own[t] \ {r}, own'[t] = {} \/ slot'[t] = slot[t], NEW s
  PROVE  Cardinality(ThreadRefs(s)') =
             Cardinality(ThreadRefs(s)) - (IF s = slot[t] THEN 1 ELSE 0)
<1>1. CASE s = slot[t]
  <2>1. ThreadRefs(s)' = ThreadRefs(s) \ {<<t, r>>}
    BY <1>1 DEF ThreadRefs, OthersKeep
  <2>2. <<t, r>> \in ThreadRefs(s)
    BY <1>1 DEF ThreadRefs
  <2> QED BY ZenonT(40), <1>1, <2>1, <2>2, RefsFinite, FS_RemoveElement
<1>2. CASE s # slot[t]
  <2>1. ThreadRefs(s)' = ThreadRefs(s)
    BY <1>2 DEF ThreadRefs, OthersKeep
  <2> QED BY <1>2, <2>1, RefsFinite
<1> QED BY <1>1, <1>2

(* A step that moves no reference. *)
LEMMA CountFrame ==
  ASSUME RefCountExact, NEW t \in Threads, OthersKeep(t), UNCHANGED ioCount,
         own'[t] = own[t], own[t] = {} \/ slot'[t] = slot[t],
         \A s \in Slots : recv'[s] = "none" <=> recv[s] = "none",
         \A s \in Slots : send'[s] = "none" <=> send[s] = "none"
  PROVE  RefCountExact'
<1>1. \A s \in Slots : Cardinality(ThreadRefs(s)') = Cardinality(ThreadRefs(s))
  BY RefsKept
<1>2. \A s \in Slots : IoRefs(recv[s])' = IoRefs(recv[s]) /\ IoRefs(send[s])' = IoRefs(send[s])
  BY DEF IoRefs
<1> QED BY <1>1, <1>2 DEF RefCountExact

-----------------------------------------------------------------------------
(* What IInv says of one thread, and the steps that disturb none of it.    *)

(* A thread in a call or a service has a slot; the senders, the receivers of *)
(* a worker and the threads at work own a reference.                        *)
LEMMA ThreadFacts ==
  ASSUME TypeInv, ThreadInv, NEW t \in Threads
  PROVE  /\ Acceptor \in Threads /\ own[t] \in SUBSET {"call", "io"}
         /\ slot[t] \in Slots \cup {NoSlot} /\ NoSlot \notin Slots
         /\ pc[t] # "idle" => slot[t] \in Slots
         /\ own[t] # {} => pc[t] # "idle"
         /\ Sending(t) => own[t] # {} /\ slot[t] \in Slots
         /\ Receiving(t) => slot[t] \in Slots
         /\ Receiving(t) /\ op[t] = "Recv" => own[t] # {}
         /\ pc[t] \in CleanupLabels => own[t] = {} /\ op[t] = "Release" /\ t # Acceptor
<1>1. /\ Acceptor \in Threads /\ own[t] \in SUBSET {"call", "io"}
      /\ slot[t] \in Slots \cup {NoSlot} /\ NoSlot \notin Slots
  BY ConstantAssumption DEF Threads, TypeInv, ThreadTypes
<1>2. ThreadOK(t)
  BY DEF ThreadInv
<1>3. /\ pc[t] # "idle" => slot[t] \in Slots
      /\ own[t] # {} => pc[t] # "idle"
  BY <1>1, <1>2 DEF ThreadOK, Owns
<1>4. Sending(t) => own[t] # {}
  BY <1>2 DEF ThreadOK, Serves, Owns, Base, Sending, CleanupLabels, InCleanup
<1>5. Receiving(t) => pc[t] # "idle"
  BY DEF Receiving
<1>6. Receiving(t) /\ op[t] = "Recv" => own[t] # {}
  BY <1>2 DEF ThreadOK, Owns, Base, Receiving
<1>7. pc[t] \in CleanupLabels => own[t] = {} /\ op[t] = "Release" /\ t # Acceptor
  BY <1>2, ThreadAssumption DEF ThreadOK, Serves, Owns, CleanupLabels, InCleanup
<1> QED BY <1>1, <1>3, <1>4, <1>5, <1>6, <1>7

(* A step of t that moves it on without a change of flags and ids, that      *)
(* starts I/O on a session only if t is at work on it, and that takes up     *)
(* work on a session only if it is the one t was asked for. References and   *)
(* the exclusion of senders and of receivers are another matter.            *)
LEMMA ControlStep ==
  ASSUME IInv, TypeInv', NEW t \in Threads, OthersKeep(t), ThreadOK(t)',
         UNCHANGED <<release, cleanup, id, free, nextUnique>>,
         joined' = joined \/ (joined \subseteq joined' /\ FreshIds' /\ ~Preparing'),
         \A s \in Slots : recv'[s] # "none" => recv[s] # "none" \/ (s = slot[t] /\ Solid(t)),
         \A s \in Slots : send'[s] # "none" => send[s] # "none" \/ (s = slot[t] /\ Solid(t)),
         pc[t] # "assignId", pc[t] = "cleanup" => slot'[t] \notin free, pc'[t] \notin InCleanup,
         slot'[t] = slot[t] \/ slot'[t] \notin free \/ pc'[t] = "cleanup",
         Solid(t)' =>
             \/ Solid(t) /\ slot'[t] = slot[t] /\ op'[t] = op[t] /\ arg'[t] = arg[t]
             \/ /\ id[slot'[t]] # NoId
                /\ op'[t] \in {"DisConnect", "SendPacket"} => id[slot'[t]] = arg'[t]
                /\ ~(Preparing /\ slot'[t] = slot[Acceptor]),
         Preparing' => Preparing /\ slot'[Acceptor] = slot[Acceptor]
  PROVE  ThreadInv' /\ FreshIds' /\ SlotInv' /\ CleanerInv' /\ SolidInv' /\ PrepareInv'
<1> USE DEF IInv
<1>0. /\ Acceptor \in Threads
      /\ Solid(t) => id[slot[t]] # NoId /\ (Preparing => slot[t] # slot[Acceptor])
  BY ThreadFacts DEF SolidInv, PrepareInv
<1>1. ThreadInv'
  BY ThreadFrame
<1>2. FreshIds'
  BY DEF FreshIds, Known
<1>3. SlotInv'
  BY <1>0, SlotFrame
<1>4. CleanerInv'
  BY CleanerFrame
<1>5. SolidInv'
  <2>1. Solid(t)' => /\ id[slot'[t]] # NoId
                     /\ op'[t] \in {"DisConnect", "SendPacket"} => id[slot'[t]] = arg'[t]
    BY DEF SolidInv
  <2> QED BY <1>0, <2>1, SolidFrame
<1>6. PrepareInv'
  <2>1. Preparing /\ slot'[t] = slot[Acceptor] => ~Solid(t)'
    BY DEF PrepareInv
  <2>2. CASE joined' = joined
    <3>1. Preparing => slot[Acceptor] \in Slots
      BY <1>0, ThreadFacts DEF Preparing
    <3>2. Preparing => /\ recv[slot[Acceptor]] = "none" => recv'[slot[Acceptor]] = "none"
                       /\ send[slot[Acceptor]] = "none" => send'[slot[Acceptor]] = "none"
      BY <1>0, <3>1
    <3> QED BY <1>0, <2>1, <2>2, <3>2, PrepareFrame
  <2>3. CASE ~Preparing'
    BY <2>3 DEF PrepareInv
  <2> QED BY <2>2, <2>3
<1> QED BY <1>1, <1>2, <1>3, <1>4, <1>5, <1>6

(* A step that neither starts nor ends sending on a session. *)
LEMMA SameSender ==
  ASSUME IInv, TypeInv', NEW t \in Threads, OthersKeep(t), UNCHANGED sendFlag,
         \A s \in Slots : send'[s] = "none" <=> send[s] = "none",
         Sending(t)' => Sending(t) /\ slot'[t] = slot[t]
  PROVE  SendInv'
<1>1. \A u \in Threads : Sending(u) => slot[u] \in Slots
  BY ThreadFacts DEF IInv
<1> QED BY <1>1, SendFrame DEF IInv

(* A step that takes up no receive and starts none. *)
LEMMA SameReceiver ==
  ASSUME IInv, NEW t \in Threads, OthersKeep(t),
         \A s \in Slots : recv[s] = "none" => recv'[s] = "none",
         Receiving(t)' => Receiving(t) /\ slot'[t] = slot[t]
  PROVE  RecvInv'
<1>1. \A u \in Threads : Receiving(u) => slot[u] \in Slots
  BY ThreadFacts DEF IInv
<1> QED BY <1>1, RecvFrame DEF IInv

(* The step of the accept thread aside, the preparation goes on. *)
LEMMA NotAcceptor ==
  ASSUME Acceptor \in Threads, NEW t \in Threads, t # Acceptor, OthersKeep(t)
  PROVE  (Preparing' <=> Preparing) /\ slot'[Acceptor] = slot[Acceptor]
BY DEF OthersKeep, Preparing

(* Such a step that moves no reference either. *)
LEMMA QuietStep ==
  ASSUME IInv, TypeInv', NEW t \in Threads, OthersKeep(t), ThreadOK(t)',
         UNCHANGED <<ioCount, release, cleanup, id, sendFlag, free, nextUnique>>,
         joined' = joined \/ (joined \subseteq joined' /\ FreshIds' /\ ~Preparing'),
         \A s \in Slots : recv'[s] = "none" <=> recv[s] = "none",
         \A s \in Slots : send'[s] = "none" <=> send[s] = "none",
         own'[t] = own[t],
         pc[t] # "assignId", pc[t] = "cleanup" => slot'[t] \notin free, pc'[t] \notin InCleanup,
         \/ slot'[t] = slot[t]
         \/ own[t] = {} /\ (slot'[t] \notin free \/ pc'[t] = "cleanup"),
         Solid(t)' =>
             \/ Solid(t) /\ slot'[t] = slot[t] /\ op'[t] = op[t] /\ arg'[t] = arg[t]
             \/ /\ id[slot'[t]] # NoId
                /\ op'[t] \in {"DisConnect", "SendPacket"} => id[slot'[t]] = arg'[t]
                /\ ~(Preparing /\ slot'[t] = slot[Acceptor]),
         Sending(t)' => Sending(t) /\ slot'[t] = slot[t],
         Receiving(t)' => Receiving(t) /\ slot'[t] = slot[t],
         Preparing' => Preparing /\ slot'[Acceptor] = slot[Acceptor]
  PROVE  IInv'
<1>1. /\ ThreadInv' /\ FreshIds' /\ SlotInv' /\ CleanerInv' /\ SolidInv' /\ PrepareInv'
      /\ SendInv' /\ RecvInv'
  BY ControlStep, SameSender, SameReceiver
<1>2. RefCountExact'
  BY CountFrame DEF IInv
<1>3. ReferencedIsLive'
  <2>1. own[t] # {} => slot[t] \in Slots
    BY ThreadFacts DEF IInv
  <2> QED BY <2>1, OwnedIsLive, LiveFrame DEF IInv
<1> QED BY <1>1, <1>2, <1>3 DEF IInv

(* IncreaseIoCount succeeds: the session is neither free nor being cleaned   *)
(* up, since its FLAG_RELEASE is clear and the thread has it as its slot.   *)
LEMMA TakeRefStep ==
  ASSUME IInv, TypeInv', NEW t \in Threads, NEW r \in {"call", "io"}, r \notin own[t],
         MayTakeRef(slot[t]), slot[t] \in Slots, OthersKeep(t), ThreadOK(t)',
         ioCount' = [ioCount EXCEPT ![slot[t]] = @ + 1], own'[t] = own[t] \cup {r},
         slot'[t] = slot[t], op'[t] = op[t], arg'[t] = arg[t],
         UNCHANGED <<release, cleanup, id, recv, send, sendFlag, free, nextUnique, joined>>,
         \/ pc[t] = "acquire" /\ pc'[t] = "recheck"
         \/ pc[t] = "sendRef" /\ pc'[t] = "wsaSend"
         \/ pc[t] = "recvRef" /\ pc'[t] = "wsaRecv"
  PROVE  IInv'
<1> USE DEF IInv
<1>1. slot[t] \notin free /\ ~cleanup[slot[t]]
  BY DEF SlotInv, MayTakeRef
<1>2. ThreadOK(t) /\ Acceptor \in Threads
  BY ThreadFacts DEF ThreadInv
<1>3. pc[t] # "acquire" => Solid(t) \/ (op[t] = "Accept" /\ t = Acceptor /\ pc[t] = "recvRef")
  BY <1>2 DEF ThreadOK, Serves, Owns, Base, Solid, CleanupLabels, InCleanup
<1>4. t = Acceptor => pc[t] = "recvRef" /\ op[t] = "Accept" /\ ~Preparing /\ id[slot[t]] # NoId
  <2>1. t = Acceptor => pc[t] = "recvRef" /\ op[t] = "Accept"
    BY <1>2, ThreadAssumption DEF ThreadOK, Serves, CleanupLabels, InCleanup
  <2>2. pc[Acceptor] = "recvRef" => ~Preparing
    BY DEF Preparing
  <2>3. pc[t] = "recvRef" => id[slot[t]] # NoId
    BY <1>1, <1>3, <2>1 DEF SlotInv, SolidInv
  <2> QED BY <2>1, <2>2, <2>3
<1>5. Solid(t)' =>
             \/ Solid(t) /\ slot'[t] = slot[t] /\ op'[t] = op[t] /\ arg'[t] = arg[t]
             \/ /\ id[slot'[t]] # NoId
                /\ op'[t] \in {"DisConnect", "SendPacket"} => id[slot'[t]] = arg'[t]
                /\ ~(Preparing /\ slot'[t] = slot[Acceptor])
  BY <1>3, <1>4 DEF Solid
<1>6. /\ Sending(t)' => Sending(t)
      /\ Receiving(t)' => Receiving(t)
      /\ Preparing' => Preparing /\ slot'[Acceptor] = slot[Acceptor]
  <2>1. Sending(t)' => Sending(t)
    <3>1. CASE pc[t] = "acquire"
      <4>1. own'[t] = {"call"}
        BY <1>2, <3>1 DEF ThreadOK, Serves, Owns, Base, CleanupLabels, InCleanup
      <4> QED BY <3>1, <4>1 DEF Sending
    <3>2. CASE pc[t] = "sendRef"
      BY <3>2 DEF Sending
    <3>3. CASE pc[t] = "recvRef"
      <4>1. op[t] \in {"Accept", "Recv"}
        BY <1>2, <3>3 DEF ThreadOK, Serves, CleanupLabels, InCleanup
      <4> QED BY <3>3, <4>1 DEF Sending
    <3> QED BY <3>1, <3>2, <3>3
  <2>2. Receiving(t)' => Receiving(t)
    BY DEF Receiving
  <2>3. Preparing' => Preparing /\ slot'[Acceptor] = slot[Acceptor]
    BY <1>2, <1>4 DEF Preparing, OthersKeep
  <2> QED BY <2>1, <2>2, <2>3
<1>7. /\ ThreadInv' /\ FreshIds' /\ SlotInv' /\ CleanerInv' /\ SolidInv' /\ PrepareInv'
      /\ SendInv' /\ RecvInv'
  <2>1. pc[t] \notin {"cleanup", "assignId"} /\ pc'[t] \notin InCleanup
    BY DEF InCleanup
  <2> QED BY <1>5, <1>6, <2>1, ControlStep, SameSender, SameReceiver
<1>8. RefCountExact'
  <2>1. \A s \in Slots : Cardinality(ThreadRefs(s)') =
            Cardinality(ThreadRefs(s)) + (IF s = slot[t] THEN 1 ELSE 0)
    BY RefsAdded
  <2>2. \A s \in Slots : ioCount'[s] = ioCount[s] + (IF s = slot[t] THEN 1 ELSE 0)
    <3>1. ioCount \in [Slots -> Int]
      BY DEF TypeInv, SessionTypes
    <3>2. \A s \in Slots : ioCount'[s] = IF s = slot[t] THEN ioCount[s] + 1 ELSE ioCount[s]
      BY <3>1
    <3> QED BY <3>1, <3>2
  <2>3. \A s \in Slots : Cardinality(ThreadRefs(s)) \in Nat
    BY RefsFinite
  <2>4. \A s \in Slots : IoRefs(recv[s])' = IoRefs(recv[s]) /\ IoRefs(send[s])' = IoRefs(send[s])
                          /\ IoRefs(recv[s]) \in Nat /\ IoRefs(send[s]) \in Nat
    BY DEF IoRefs
  <2> QED BY <2>1, <2>2, <2>3, <2>4 DEF RefCountExact
<1>9. ReferencedIsLive'
  BY <1>1, LiveFrame
<1> QED BY <1>7, <1>8, <1>9

(* A reference is given back. *)
LEMMA DropRefStep ==
  ASSUME IInv, TypeInv', NEW t \in Threads, NEW r \in {"call", "io"}, r \in own[t],
         slot[t] \in Slots, OthersKeep(t), ThreadOK(t)',
         ioCount' = [ioCount EXCEPT ![slot[t]] = @ - 1], own'[t] = own[t] \ {r},
         \/ slot'[t] = slot[t] /\ op'[t] = op[t] /\ arg'[t] = arg[t]
         \/ own'[t] = {} /\ slot'[t] = NoSlot /\ pc'[t] = "idle",
         UNCHANGED <<release, cleanup, id, recv, send, sendFlag, free, nextUnique, joined>>,
         pc[t] \in {"dropIo", "dropCall"},
         pc[t] = "dropCall" => own'[t] = {},
         \/ pc'[t] = "clearFlag" /\ op[t] \in {"SendPacket", "Send"} /\ pc[t] = "dropIo"
         \/ pc'[t] = "setRelease" /\ op[t] = "Recv"
         \/ pc'[t] = "join" /\ RecvFirst
         \/ pc'[t] = "idle"
  PROVE  IInv'
<1> USE DEF IInv
<1>1. slot[t] \notin free /\ ~cleanup[slot[t]]
  BY OwnedIsLive
<1>2. ThreadOK(t) /\ Acceptor \in Threads
  BY ThreadFacts DEF ThreadInv
<1>3. Solid(t)' => Solid(t) /\ slot'[t] = slot[t] /\ op'[t] = op[t] /\ arg'[t] = arg[t]
  BY DEF Solid
<1>4. /\ Sending(t)' => Sending(t) /\ slot'[t] = slot[t]
      /\ Receiving(t)' => Receiving(t) /\ slot'[t] = slot[t]
      /\ Preparing' => Preparing /\ slot'[Acceptor] = slot[Acceptor]
  <2>1. Sending(t)' => Sending(t) /\ slot'[t] = slot[t]
    BY <1>2 DEF Sending, ThreadOK, Owns
  <2>2. Receiving(t)' => Receiving(t) /\ slot'[t] = slot[t]
    BY DEF Receiving
  <2>3. t = Acceptor => op[t] = "Accept"
    BY <1>2, ThreadAssumption DEF ThreadOK, Serves, CleanupLabels, InCleanup
  <2>4. Preparing' => Preparing /\ slot'[Acceptor] = slot[Acceptor]
    BY <1>2, <2>3 DEF Preparing, OthersKeep
  <2> QED BY <2>1, <2>2, <2>4
<1>5. /\ ThreadInv' /\ FreshIds' /\ SlotInv' /\ CleanerInv' /\ SolidInv' /\ PrepareInv'
      /\ SendInv' /\ RecvInv'
  <2>1. /\ pc[t] \notin {"cleanup", "assignId"} /\ pc'[t] \notin InCleanup
        /\ slot'[t] = slot[t] \/ slot'[t] \notin free
    BY ThreadFacts DEF InCleanup, TypeInv, ServerTypes
  <2> QED BY <1>3, <1>4, <2>1, ControlStep, SameSender, SameReceiver
<1>6. RefCountExact'
  <2>1. \A s \in Slots : Cardinality(ThreadRefs(s)') =
            Cardinality(ThreadRefs(s)) - (IF s = slot[t] THEN 1 ELSE 0)
    BY RefsRemoved
  <2>2. \A s \in Slots : ioCount'[s] = ioCount[s] - (IF s = slot[t] THEN 1 ELSE 0)
    BY SMTT(20) DEF TypeInv, SessionTypes
  <2>3. \A s \in Slots : Cardinality(ThreadRefs(s)) \in Nat
    BY RefsFinite
  <2>4. \A s \in Slots : IoRefs(recv[s])' = IoRefs(recv[s]) /\ IoRefs(send[s])' = IoRefs(send[s])
                          /\ IoRefs(recv[s]) \in Nat /\ IoRefs(send[s]) \in Nat
    BY DEF IoRefs
  <2> QED BY <2>1, <2>2, <2>3, <2>4 DEF RefCountExact
<1>7. ReferencedIsLive'
  BY <1>1, LiveFrame
<1> QED BY <1>5, <1>6, <1>7

-----------------------------------------------------------------------------
(* Effects of the step operators on the thread variables.                  *)

(* Goto moves t to its label and nothing else of any thread.                *)
LEMMA GotoStep ==
  ASSUME ThreadTypes, NEW t \in Threads, NEW l \in Labels, Goto(t, l), UNCHANGED ctxVars,
         own' \in [Threads -> SUBSET {"call", "io"}], zero' \in [Threads -> BOOLEAN],
         \A u \in Threads \ {t} : own'[u] = own[u]
  PROVE  /\ ThreadTypes' /\ OthersKeep(t) /\ pc'[t] = l
         /\ op' = op /\ arg' = arg /\ slot' = slot /\ pkt' = pkt
<1>1. pc' \in [Threads -> Labels] BY GotoType
<1>2. ThreadTypes' BY <1>1 DEF ThreadTypes, ctxVars
<1>3. OthersKeep(t) BY DEF ThreadTypes, Goto, OthersKeep, ctxVars
<1>4. pc'[t] = l BY DEF ThreadTypes, Goto
<1> QED BY <1>2, <1>3, <1>4 DEF ctxVars

(* Begin gives t its new context and leaves the other threads theirs.       *)
LEMMA BeginStep ==
  ASSUME ThreadTypes, NEW t \in Threads, NEW o \in Ops, NEW i \in Ids \cup {NoId},
         NEW s \in Slots \cup {NoSlot}, NEW p \in Packets \cup {NoPacket}, NEW l \in Labels,
         Begin(t, o, i, s, p, l),
         own' \in [Threads -> SUBSET {"call", "io"}], zero' \in [Threads -> BOOLEAN],
         \A u \in Threads \ {t} : own'[u] = own[u]
  PROVE  /\ ThreadTypes' /\ OthersKeep(t)
         /\ pc'[t] = l /\ op'[t] = o /\ arg'[t] = i /\ slot'[t] = s /\ pkt'[t] = p
<1>1. ThreadTypes' BY BeginType DEF ThreadTypes
<1>2. OthersKeep(t) BY DEF ThreadTypes, Begin, Goto, OthersKeep
<1>3. pc'[t] = l /\ op'[t] = o /\ arg'[t] = i /\ slot'[t] = s /\ pkt'[t] = p
  BY DEF ThreadTypes, Begin, Goto
<1> QED BY <1>1, <1>2, <1>3

(* A thread whose call returned with nothing left to give back is idle. *)
LEMMA EndStep ==
  ASSUME ThreadTypes, NEW t \in Threads, End(t), own'[t] = {},
         own' \in [Threads -> SUBSET {"call", "io"}], zero' \in [Threads -> BOOLEAN],
         \A u \in Threads \ {t} : own'[u] = own[u]
  PROVE  /\ ThreadTypes' /\ OthersKeep(t) /\ ThreadOK(t)'
         /\ pc'[t] = "idle" /\ slot'[t] = NoSlot
<1>1. /\ ThreadTypes' /\ OthersKeep(t)
      /\ pc'[t] = "idle" /\ op'[t] = "none" /\ slot'[t] = NoSlot
  <2>1. "none" \in Ops /\ "idle" \in Labels BY DEF Ops, Labels
  <2> QED BY <2>1, BeginStep DEF End
<1>2. ThreadOK(t)'
  BY <1>1 DEF ThreadOK, Serves, Owns
<1> QED BY <1>1, <1>2

(* Taking, dropping and receiving a reference changes own for t only.       *)
LEMMA OwnStep ==
  ASSUME ThreadTypes, NEW t \in Threads, NEW r \in {"call", "io"}
  PROVE  /\ own' = [own EXCEPT ![t] = @ \cup {r}] =>
                /\ own' \in [Threads -> SUBSET {"call", "io"}] /\ own'[t] = own[t] \cup {r}
                /\ \A u \in Threads \ {t} : own'[u] = own[u]
         /\ own' = [own EXCEPT ![t] = @ \ {r}] =>
                /\ own' \in [Threads -> SUBSET {"call", "io"}] /\ own'[t] = own[t] \ {r}
                /\ \A u \in Threads \ {t} : own'[u] = own[u]
         /\ own' = [own EXCEPT ![t] = {r}] =>
                /\ own' \in [Threads -> SUBSET {"call", "io"}] /\ own'[t] = {r}
                /\ \A u \in Threads \ {t} : own'[u] = own[u]
BY DEF ThreadTypes

(* An idle thread works on no session.                                      *)
LEMMA IdleIsQuiet ==
  ASSUME NEW t \in Threads, pc'[t] = "idle", own'[t] = {}
  PROVE  /\ pc'[t] \notin InCleanup /\ ~Solid(t)' /\ ~Sending(t)' /\ ~Receiving(t)'
BY DEF InCleanup, Solid, Sending, Receiving

(* A thread that owns nothing gives up its call. *)
LEMMA EndIsQuiet ==
  ASSUME IInv, TypeInv', NEW t \in Threads, OthersKeep(t), ThreadOK(t)',
         pc'[t] = "idle", slot'[t] = NoSlot, own[t] = {}, own'[t] = {},
         UNCHANGED <<ioCount, release, cleanup, id, sendFlag, free, nextUnique, joined>>,
         \A s \in Slots : recv'[s] = "none" <=> recv[s] = "none",
         \A s \in Slots : send'[s] = "none" <=> send[s] = "none",
         pc[t] # "assignId", pc[t] = "cleanup" => slot'[t] \notin free
  PROVE  IInv'
<1>1. slot'[t] \notin free
  BY ConstantAssumption DEF IInv, TypeInv, ServerTypes
<1>2. Preparing' => Preparing /\ slot'[Acceptor] = slot[Acceptor]
  BY ThreadFacts DEF IInv, Preparing, OthersKeep
<1> QED BY <1>1, <1>2, IdleIsQuiet, QuietStep

-----------------------------------------------------------------------------
(* acceptThread: every action of it preserves IInv.                        *)

(* The socket and the state of a session nobody knows disturb nothing.      *)
LEMMA PublishIInv ==
  ASSUME IInv, Publish
  PROVE  IInv'
<1> DEFINE t == Acceptor
<1>1. /\ t \in Threads /\ ThreadOK(t) /\ ThreadTypes
      /\ pc[t] = "publish" /\ slot[t] \in Slots
  BY ThreadFacts DEF IInv, ThreadInv, Publish, TypeInv, Threads
<1>2. op[t] = "Accept" /\ own[t] = {}
  BY <1>1 DEF ThreadOK, Serves, Owns, CleanupLabels, InCleanup
<1>3. /\ ThreadTypes' /\ OthersKeep(t) /\ pc'[t] = "register"
      /\ op' = op /\ arg' = arg /\ slot' = slot /\ pkt' = pkt
  <2>1. "register" \in Labels BY DEF Labels
  <2> QED BY <1>1, <2>1, GotoStep DEF Publish, ThreadTypes
<1>4. TypeInv'
  BY <1>1, <1>3 DEF IInv, TypeInv, SessionTypes, ServerTypes, Publish, ctlVars, sendVars, appVars
<1>5. ThreadOK(t)'
  BY <1>1, <1>2, <1>3 DEF ThreadOK, Serves, Owns, Publish
<1> QED
  BY <1>1, <1>2, <1>3, <1>4, <1>5, QuietStep
     DEF Publish, ctlVars, sendVars, appVars, InCleanup, Solid, Sending, Receiving, Preparing

(* createSession reuses a slot of the free stack: nothing refers to it. *)
LEMMA AcceptIInv ==
  ASSUME IInv, Accept
  PROVE  IInv'
<1> DEFINE t == Acceptor
<1> USE DEF IInv
<1>1. PICK s \in free : 
         /\ free' = free \ {s}
         /\ ioCount' = [ioCount EXCEPT ![s] = 0]
         /\ release' = [release EXCEPT ![s] = FALSE]
         /\ cleanup' = [cleanup EXCEPT ![s] = FALSE]
         /\ id' = [id EXCEPT ![s] = NoId]
         /\ state' = [state EXCEPT ![s] = "Free"]
         /\ socket' = [socket EXCEPT ![s] = FALSE]
         /\ sendFlag' = [sendFlag EXCEPT ![s] = 0]
         /\ ring' = [ring EXCEPT ![s] = <<>>]
         /\ sent' = [sent EXCEPT ![s] = <<>>]
         /\ Begin(t, "Accept", NoId, s, NoPacket, "assignId")
  BY DEF Accept, InitSession
<1>2. /\ t \in Threads /\ ThreadTypes /\ s \in Slots /\ ThreadOK(t)
      /\ pc[t] = "idle"
      /\ UNCHANGED <<recv, send, posted, pktRef, nextUnique, sessionCount, joined, left, refused, sends,
                     own, zero>>
  BY ThreadFacts DEF ThreadInv, Accept, TypeInv, ServerTypes, Threads, appVars
<1>3. own[t] = {}
  BY <1>2 DEF ThreadOK, Owns
<1>4. /\ ThreadTypes' /\ OthersKeep(t)
      /\ pc'[t] = "assignId" /\ op'[t] = "Accept" /\ slot'[t] = s /\ own'[t] = {}
  <2>1. "Accept" \in Ops /\ "assignId" \in Labels BY DEF Ops, Labels
  <2> QED BY <1>1, <1>2, <1>3, <2>1, BeginStep DEF ThreadTypes
<1>5. TypeInv'
  <2>1. SessionTypes'
    BY <1>1, <1>2 DEF TypeInv, SessionTypes
  <2> QED BY <1>1, <1>2, <1>4, <2>1 DEF TypeInv, ServerTypes
<1>6. ThreadInv'
  <2>1. ThreadOK(t)'
    BY <1>2, <1>4, ConstantAssumption DEF ThreadOK, Serves, Owns
  <2> QED BY <1>2, <1>4, <2>1, ThreadFrame
<1>7. \A u \in Threads : slot[u] = s => own[u] = {} /\ pc[u] \notin InCleanup
  <2>1. \A u \in Threads : slot[u] = s => own[u] = {}
    BY <1>2, OwnedIsLive
  <2> QED BY <2>1 DEF CleanerInv
<1>8. recv[s] = "none" /\ send[s] = "none" /\ ThreadRefs(s) = {}
  BY <1>2 DEF ReferencedIsLive
<1>9. /\ s \notin free' /\ ioCount'[s] = 0 /\ ~release'[s] /\ ~cleanup'[s]
      /\ id'[s] = NoId /\ sendFlag'[s] = 0
      /\ \A x \in Slots \ {s} :
            /\ (x \in free') <=> (x \in free)
            /\ ioCount'[x] = ioCount[x] /\ release'[x] = release[x] /\ cleanup'[x] = cleanup[x]
            /\ id'[x] = id[x] /\ sendFlag'[x] = sendFlag[x]
  BY <1>1, <1>2 DEF TypeInv, SessionTypes
<1>10. FreshIds'
  BY <1>2, <1>9 DEF FreshIds, Known
<1>11. SlotInv'
  BY <1>2, <1>4, <1>9 DEF SlotInv, OthersKeep
<1>12. CleanerInv'
  <2>1. \A u \in Threads : pc'[u] \in InCleanup =>
           u # t /\ pc[u] \in InCleanup /\ slot'[u] = slot[u] /\ arg'[u] = arg[u]
              /\ pc'[u] = pc[u] /\ slot[u] # s /\ slot[u] \in Slots
    BY <1>4, <1>7, ThreadFacts DEF OthersKeep, InCleanup
  <2> QED BY <1>9, <2>1 DEF CleanerInv
<1>13. SolidInv'
  <2>1. \A u \in Threads : Solid(u)' =>
           u # t /\ Solid(u) /\ slot'[u] = slot[u] /\ arg'[u] = arg[u] /\ op'[u] = op[u]
              /\ slot[u] # s /\ slot[u] \in Slots
    BY <1>4, <1>7, ThreadFacts DEF OthersKeep, Solid
  <2> QED BY <1>2, <1>8, <1>9, <2>1 DEF SolidInv
<1>14. PrepareInv'
  BY <1>2, <1>4, <1>7, <1>8, <1>9 DEF PrepareInv, Solid, OthersKeep, Known
<1>15. SendInv'
  <2>1. \A u \in Threads : Sending(u)' =>
           u # t /\ Sending(u) /\ slot'[u] = slot[u] /\ slot[u] # s /\ slot[u] \in Slots
    BY <1>4, <1>7, ThreadFacts DEF OthersKeep, Sending
  <2> QED BY <1>2, <1>8, <1>9, <2>1 DEF SendInv
<1>16. RecvInv'
  <2>1. \A u \in Threads \ {t} : Receiving(u)' =>
           Receiving(u) /\ slot'[u] = slot[u] /\ slot[u] # s
    <3>1. \A u \in Threads \ {t} : Receiving(u)' =>
             Receiving(u) /\ slot'[u] = slot[u] /\ op[u] # "Accept"
      BY <1>4 DEF OthersKeep, Receiving, ThreadInv, ThreadOK, Serves
    <3>2. \A u \in Threads : Receiving(u) /\ op[u] # "Accept" => op[u] = "Recv"
      BY DEF Receiving
    <3> QED BY <1>7, <3>1, <3>2, ThreadFacts
  <2> QED BY <1>2, <1>4, <1>8, <2>1 DEF RecvInv
<1>17. RefCountExact'
  <2>1. \A x \in Slots : Cardinality(ThreadRefs(x)') = Cardinality(ThreadRefs(x))
    BY <1>2, <1>3, <1>4, RefsKept
  <2>2. Cardinality(ThreadRefs(s)) = 0
    BY <1>8, FS_EmptySet
  <2>3. \A x \in Slots : IoRefs(recv[x])' = IoRefs(recv[x]) /\ IoRefs(send[x])' = IoRefs(send[x])
    BY <1>2 DEF IoRefs
  <2>4. IoRefs(recv[s]) = 0 /\ IoRefs(send[s]) = 0
    BY <1>8 DEF IoRefs
  <2> QED BY <1>2, <1>9, <2>1, <2>2, <2>3, <2>4 DEF RefCountExact
<1>18. ReferencedIsLive'
  <2>1. \A x \in Slots : ThreadRefs(x)' = ThreadRefs(x)
    BY <1>2, <1>3, <1>4, RefsKept
  <2> QED BY <1>2, <1>9, <2>1 DEF ReferencedIsLive
<1> QED BY <1>5, <1>6, <1>10, <1>11, <1>12, <1>13, <1>14, <1>15, <1>16, <1>17, <1>18

(* The id is fresh: no call was ever made for it. *)
LEMMA AssignIdIInv ==
  ASSUME IInv, AssignId
  PROVE  IInv'
<1> DEFINE t == Acceptor
           s == slot[Acceptor]
<1> USE DEF IInv
<1>1. /\ t \in Threads /\ ThreadOK(t) /\ ThreadTypes /\ pc[t] = "assignId" /\ s \in Slots
      /\ id' = [id EXCEPT ![s] = <<s, nextUnique>>] /\ nextUnique' = nextUnique + 1
      /\ UNCHANGED <<ioCount, release, cleanup, state, socket, recv, send, posted, sendFlag, ring,
                     sent, pktRef>>
      /\ UNCHANGED <<free, sessionCount, joined, left, refused, sends, op, arg, slot, pkt, own, zero>>
  BY ThreadFacts
     DEF ThreadInv, AssignId, TypeInv, Threads, ctlVars, sendVars, appVars, ctxVars
<1>2. op[t] = "Accept" /\ own[t] = {} /\ Preparing
  BY <1>1 DEF ThreadOK, Serves, Owns, CleanupLabels, InCleanup, Preparing
<1>3. ThreadTypes' /\ OthersKeep(t) /\ pc'[t] = "publish"
  <2>1. "publish" \in Labels BY DEF Labels
  <2> QED BY <1>1, <2>1, GotoStep DEF AssignId, ThreadTypes
<1>4. <<s, nextUnique>> \in Ids /\ <<s, nextUnique>> # NoId /\ nextUnique \in Nat
  BY <1>1, ConstantAssumption DEF Ids, TypeInv, ServerTypes
<1>5. TypeInv'
  <2>1. SessionTypes' BY <1>1, <1>4 DEF TypeInv, SessionTypes
  <2> QED BY <1>1, <1>3, <1>4, <2>1 DEF TypeInv, ServerTypes
<1>6. id'[s] = <<s, nextUnique>> /\ \A x \in Slots \ {s} : id'[x] = id[x]
  BY <1>1 DEF TypeInv, SessionTypes
<1>7. /\ s \notin free /\ ~release[s] /\ ~cleanup[s] /\ recv[s] = "none" /\ send[s] = "none"
      /\ \A u \in Threads : slot[u] = s => ~Solid(u) /\ pc[u] \notin InCleanup
  BY <1>1, <1>2 DEF PrepareInv, SlotInv, CleanerInv
<1>8. ThreadInv'
  <2>1. ThreadOK(t)'
    BY <1>1, <1>2, <1>3 DEF ThreadOK, Serves, Owns
  <2> QED BY <1>1, <1>3, <2>1, ThreadFrame
<1>9. FreshIds'
  <2>1. \A i \in Known : i[2] \in Nat
    BY DEF Known, TypeInv, ServerTypes, Ids
  <2>2. \A x \in Slots : id[x] # NoId => id[x][2] \in Nat
    BY DEF TypeInv, SessionTypes, Ids
  <2>3. \A x \in Slots : id'[x] # NoId => id'[x][1] = x /\ id'[x][2] < nextUnique'
    BY <1>1, <1>4, <1>6, <2>2 DEF FreshIds
  <2> QED BY <1>1, <1>4, <2>1, <2>3 DEF FreshIds, Known
<1>10. SlotInv'
  BY <1>1, <1>3, <1>4, <1>6, <1>7 DEF SlotInv, OthersKeep
<1>11. CleanerInv'
  <2>1. \A u \in Threads : pc'[u] \in InCleanup =>
           pc[u] \in InCleanup /\ pc'[u] = pc[u] /\ slot[u] # s /\ slot[u] \in Slots
    BY <1>3, <1>7, ThreadFacts DEF OthersKeep, InCleanup
  <2> QED BY <1>1, <1>6, <2>1 DEF CleanerInv
<1>12. SolidInv'
  <2>1. \A u \in Threads : Solid(u)' => Solid(u) /\ slot[u] # s /\ slot[u] \in Slots
    BY <1>1, <1>2, <1>3, <1>7, ThreadFacts DEF OthersKeep, Solid
  <2> QED BY <1>1, <1>4, <1>6, <2>1 DEF SolidInv
<1>13. PrepareInv'
  <2>1. <<s, nextUnique>> \notin Known
    BY <1>4 DEF FreshIds
  <2>2. \A u \in Threads : slot'[u] = s => ~Solid(u)'
    BY <1>1, <1>2, <1>3, <1>7 DEF OthersKeep, Solid
  <2> QED BY <1>1, <1>6, <1>7, <2>1, <2>2 DEF PrepareInv, Known
<1>14. SendInv' /\ RecvInv'
  <2>1. ~Sending(t)' /\ (Receiving(t)' => Receiving(t))
    BY <1>1, <1>2, <1>3 DEF Sending, Receiving
  <2> QED BY <1>1, <1>3, <1>5, <2>1, ThreadFacts, SendFrame, RecvFrame
<1>15. RefCountExact'
  BY <1>1, <1>3, CountFrame
<1>16. ReferencedIsLive'
  BY <1>1, <1>2, <1>3, LiveFrame
<1> QED BY <1>5, <1>8, <1>9, <1>10, <1>11, <1>12, <1>13, <1>14, <1>15, <1>16

(* The registration with the IOCP decides where the accept thread goes on.  *)
LEMMA RegisterIInv ==
  ASSUME IInv, Register
  PROVE  IInv'
<1> DEFINE t == Acceptor
<1>1. /\ t \in Threads /\ ThreadOK(t) /\ ThreadTypes /\ pc[t] = "register" /\ slot[t] \in Slots
  BY ThreadFacts DEF IInv, ThreadInv, Register, TypeInv, Threads
<1>2. op[t] = "Accept" /\ own[t] = {}
  BY <1>1 DEF ThreadOK, Serves, Owns, CleanupLabels, InCleanup
<1>3. PICK l \in {"recvRef", "join", "setRelease"} :
           /\ Goto(t, l) /\ (l = "recvRef" => RecvFirst) /\ (l = "join" => ~RecvFirst)
  BY DEF Register
<1>4. /\ ThreadTypes' /\ OthersKeep(t) /\ pc'[t] = l
      /\ op' = op /\ arg' = arg /\ slot' = slot /\ pkt' = pkt
  <2>1. l \in Labels BY DEF Labels
  <2> QED BY <1>1, <1>3, <2>1, GotoStep DEF Register, ThreadTypes
<1>5. TypeInv'
  <2>1. refused' \subseteq Ids \cup {NoId}
    BY <1>1 DEF IInv, TypeInv, SessionTypes, ServerTypes, Register
  <2> QED
    BY <1>4, <2>1 DEF IInv, TypeInv, SessionTypes, ServerTypes, Register, ctlVars, idVars,
                      sendVars, poolVars
<1>6. ThreadOK(t)'
  BY <1>1, <1>2, <1>4 DEF ThreadOK, Serves, Owns, Base, Register
<1> QED
  BY <1>1, <1>2, <1>3, <1>4, <1>5, <1>6, QuietStep
     DEF Register, ctlVars, idVars, sendVars, poolVars, appVars, InCleanup, Solid, Sending,
         Receiving, Preparing

(* OnClientJoin makes the id known; with it the preparation is over. *)
LEMMA JoinIInv ==
  ASSUME IInv, Join
  PROVE  IInv'
<1> DEFINE t == Acceptor
<1> USE DEF IInv
<1>1. /\ t \in Threads /\ ThreadOK(t) /\ ThreadTypes /\ pc[t] = "join" /\ slot[t] \in Slots
      /\ joined' = joined \cup {id[slot[t]]}
      /\ UNCHANGED <<ctlVars, idVars, recv, send, posted, sendVars, poolVars, left, refused, sends,
                     own, zero>>
  BY ThreadFacts DEF ThreadInv, Join, TypeInv, Threads
<1>2. op[t] = "Accept" /\ own[t] = {}
  BY <1>1 DEF ThreadOK, Serves, Owns, CleanupLabels, InCleanup
<1>3. /\ ThreadTypes' /\ OthersKeep(t) /\ ThreadOK(t)' /\ own' = own
      /\ \/ RecvFirst /\ pc'[t] = "idle" /\ slot'[t] = NoSlot
         \/ ~RecvFirst /\ pc'[t] = "recvRef" /\ op'[t] = op[t] /\ slot'[t] = slot[t]
  <2>1. CASE RecvFirst
    <3>1. End(t) BY <2>1 DEF Join
    <3> QED BY <1>1, <1>2, <2>1, <3>1, EndStep DEF ThreadTypes
  <2>2. CASE ~RecvFirst
    <3>1. Goto(t, "recvRef") /\ UNCHANGED ctxVars BY <2>2 DEF Join
    <3>2. "recvRef" \in Labels BY DEF Labels
    <3>3. /\ ThreadTypes' /\ OthersKeep(t) /\ pc'[t] = "recvRef"
          /\ op' = op /\ arg' = arg /\ slot' = slot /\ pkt' = pkt
      BY <1>1, <3>1, <3>2, GotoStep DEF ThreadTypes
    <3>4. ThreadOK(t)'
      BY <1>1, <1>2, <3>3 DEF ThreadOK, Serves, Owns, Base
    <3> QED BY <1>1, <2>2, <3>3, <3>4
  <2> QED BY <2>1, <2>2
<1>4. id[slot[t]] \in Ids \cup {NoId}
  BY <1>1 DEF TypeInv, SessionTypes
<1>5. TypeInv'
  BY <1>1, <1>3, <1>4 DEF TypeInv, SessionTypes, ServerTypes, ctlVars, idVars, sendVars, poolVars
<1>6. FreshIds' /\ ~Preparing'
  <2>1. FreshIds'
    BY <1>1 DEF FreshIds, Known, idVars, poolVars
  <2>2. ~Preparing'
    BY <1>3 DEF Preparing
  <2> QED BY <2>1, <2>2
<1>7. slot'[t] \notin free \/ slot'[t] = slot[t]
  BY <1>1, <1>3, ThreadFacts DEF TypeInv, ServerTypes
<1>8. /\ ~Solid(t)' /\ ~Sending(t)' /\ pc'[t] \notin InCleanup
      /\ Receiving(t)' => Receiving(t) /\ slot'[t] = slot[t]
  BY <1>1, <1>2, <1>3 DEF Solid, Sending, Receiving, InCleanup
<1> QED
  BY <1>1, <1>2, <1>3, <1>5, <1>6, <1>7, <1>8, QuietStep DEF ctlVars, idVars, sendVars, poolVars

-----------------------------------------------------------------------------
(* Calls of the application.                                               *)

(* DisConnect starts on a slot that is not free: findSession saw its id.    *)
LEMMA DisConnectIInv ==
  ASSUME IInv, NEW t \in Apps, NEW i \in Known, DisConnect(t, i)
  PROVE  IInv'
<1>1. /\ t \in Threads /\ ThreadOK(t) /\ ThreadTypes /\ pc[t] = "idle" /\ t # Acceptor
  BY ThreadAssumption DEF IInv, ThreadInv, DisConnect, TypeInv, Threads
<1>2. own[t] = {}
  BY <1>1 DEF ThreadOK, Owns
<1>3. i \in Ids /\ i[1] \in Slots /\ id[i[1]] = i /\ i # NoId
  BY DEF IInv, TypeInv, ServerTypes, Known, Ids, DisConnect
<1>4. /\ ThreadTypes' /\ OthersKeep(t)
      /\ pc'[t] = "acquire" /\ op'[t] = "DisConnect" /\ arg'[t] = i /\ slot'[t] = i[1]
  <2>1. "DisConnect" \in Ops /\ "acquire" \in Labels BY DEF Ops, Labels
  <2>2. Begin(t, "DisConnect", i, i[1], NoPacket, "acquire") /\ own' = own /\ zero' = zero
    BY DEF DisConnect
  <2>3. i \in Ids \cup {NoId} /\ i[1] \in Slots \cup {NoSlot} /\ NoPacket \in Packets \cup {NoPacket}
    BY <1>3
  <2>4. /\ own' \in [Threads -> SUBSET {"call", "io"}] /\ zero' \in [Threads -> BOOLEAN]
        /\ \A u \in Threads \ {t} : own'[u] = own[u]
    BY <1>1, <2>2 DEF ThreadTypes
  <2> QED BY <1>1, <2>1, <2>2, <2>3, <2>4, BeginStep
<1>5. TypeInv'
  BY <1>4 DEF IInv, TypeInv, SessionTypes, ServerTypes, DisConnect, ctlVars, idVars, sendVars,
              poolVars, appVars
<1>6. ThreadOK(t)'
  BY <1>1, <1>2, <1>3, <1>4, ConstantAssumption
     DEF ThreadOK, Serves, Owns, DisConnect, Known, appVars, CleanupLabels, InCleanup
<1>7. i[1] \notin free
  BY <1>3 DEF IInv, SlotInv
<1>8. /\ UNCHANGED <<ioCount, release, cleanup, id, recv, send, sendFlag, free, nextUnique, joined>>
      /\ own' = own
  BY DEF DisConnect, ctlVars, idVars, sendVars, poolVars, appVars
<1>9. /\ ~Solid(t)' /\ ~Sending(t)' /\ ~Receiving(t)' /\ pc'[t] \notin InCleanup
      /\ Preparing' => Preparing /\ slot'[Acceptor] = slot[Acceptor]
  <2>1. ~Solid(t)' /\ ~Sending(t)' /\ ~Receiving(t)' /\ pc'[t] \notin InCleanup
    BY <1>2, <1>4, <1>8 DEF Solid, Sending, Receiving, InCleanup
  <2>2. Preparing' => Preparing /\ slot'[Acceptor] = slot[Acceptor]
    BY <1>1, <1>4, <1>8, ThreadFacts DEF IInv, Preparing, OthersKeep
  <2> QED BY <2>1, <2>2
<1> QED
  BY <1>1, <1>2, <1>4, <1>5, <1>6, <1>7, <1>8, <1>9, QuietStep

(* So does SendPacket.                                                      *)
LEMMA SendPacketIInv ==
  ASSUME IInv, NEW t \in Apps, NEW i \in Known, NEW p \in Packets, SendPacket(t, i, p)
  PROVE  IInv'
<1>1. /\ t \in Threads /\ ThreadOK(t) /\ ThreadTypes /\ pc[t] = "idle" /\ t # Acceptor
  BY ThreadAssumption DEF IInv, ThreadInv, SendPacket, TypeInv, Threads
<1>2. own[t] = {}
  BY <1>1 DEF ThreadOK, Owns
<1>3. i \in Ids /\ i[1] \in Slots /\ id[i[1]] = i /\ i # NoId
  BY DEF IInv, TypeInv, ServerTypes, Known, Ids, SendPacket
<1>4. /\ ThreadTypes' /\ OthersKeep(t) /\ pc'[t] = "acquire" /\ op'[t] = "SendPacket"
      /\ arg'[t] = i /\ slot'[t] = i[1] /\ pkt'[t] = p
  <2>1. "SendPacket" \in Ops /\ "acquire" \in Labels BY DEF Ops, Labels
  <2>2. Begin(t, "SendPacket", i, i[1], p, "acquire") /\ own' = own /\ zero' = zero
    BY DEF SendPacket
  <2>3. i \in Ids \cup {NoId} /\ i[1] \in Slots \cup {NoSlot} /\ p \in Packets \cup {NoPacket}
    BY <1>3
  <2>4. /\ own' \in [Threads -> SUBSET {"call", "io"}] /\ zero' \in [Threads -> BOOLEAN]
        /\ \A u \in Threads \ {t} : own'[u] = own[u]
    BY <1>1, <2>2 DEF ThreadTypes
  <2> QED BY <1>1, <2>1, <2>2, <2>3, <2>4, BeginStep
<1>5. TypeInv'
  BY <1>4 DEF IInv, TypeInv, SessionTypes, ServerTypes, SendPacket, ctlVars, idVars, sendVars,
              poolVars, appVars
<1>6. ThreadOK(t)'
  BY <1>1, <1>2, <1>3, <1>4, ConstantAssumption
     DEF ThreadOK, Serves, Owns, SendPacket, Known, CleanupLabels, InCleanup
<1>7. i[1] \notin free
  BY <1>3 DEF IInv, SlotInv
<1>8. /\ UNCHANGED <<ioCount, release, cleanup, id, recv, send, sendFlag, free, nextUnique, joined>>
      /\ own' = own
  BY DEF SendPacket, ctlVars, idVars, sendVars, poolVars
<1>9. /\ ~Solid(t)' /\ ~Sending(t)' /\ ~Receiving(t)' /\ pc'[t] \notin InCleanup
      /\ Preparing' => Preparing /\ slot'[Acceptor] = slot[Acceptor]
  <2>1. ~Solid(t)' /\ ~Sending(t)' /\ ~Receiving(t)' /\ pc'[t] \notin InCleanup
    BY <1>2, <1>4, <1>8 DEF Solid, Sending, Receiving, InCleanup
  <2>2. Preparing' => Preparing /\ slot'[Acceptor] = slot[Acceptor]
    BY <1>1, <1>4, <1>8, ThreadFacts DEF IInv, Preparing, OthersKeep
  <2> QED BY <2>1, <2>2
<1> QED
  BY <1>1, <1>2, <1>4, <1>5, <1>6, <1>7, <1>8, <1>9, QuietStep

(* A call takes its reference, or returns when the session is released.     *)
LEMMA AcquireIInv ==
  ASSUME IInv, NEW t \in Threads, Acquire(t)
  PROVE  IInv'
<1>1. /\ ThreadOK(t) /\ ThreadTypes /\ pc[t] = "acquire" /\ slot[t] \in Slots
      /\ UNCHANGED <<id, state, socket, recv, send, posted, sendVars, poolVars, appVars, zero>>
  BY ThreadFacts DEF IInv, ThreadInv, Acquire, TypeInv, idVars
<1>2. own[t] = {} /\ op[t] \in {"DisConnect", "SendPacket"} /\ t # Acceptor
  BY <1>1, ThreadAssumption DEF ThreadOK, Serves, Owns, CleanupLabels, InCleanup
<1>3. CASE MayTakeRef(slot[t])
  <2>1. TakeRef(t, slot[t], "call") /\ Goto(t, "recheck") /\ UNCHANGED ctxVars
    BY <1>3 DEF Acquire
  <2>2. own' \in [Threads -> SUBSET {"call", "io"}] /\ own'[t] = {"call"}
        /\ \A u \in Threads \ {t} : own'[u] = own[u]
    BY <1>1, <1>2, <2>1, OwnStep DEF TakeRef
  <2>3. /\ ThreadTypes' /\ OthersKeep(t) /\ pc'[t] = "recheck"
        /\ op' = op /\ arg' = arg /\ slot' = slot /\ pkt' = pkt
    <3>1. "recheck" \in Labels BY DEF Labels
    <3> QED BY <1>1, <2>1, <2>2, <3>1, GotoStep DEF ThreadTypes
  <2>4. TypeInv'
    BY <1>1, <2>1, <2>3 DEF IInv, TypeInv, SessionTypes, ServerTypes, TakeRef, sendVars, poolVars,
                            appVars
  <2>5. ThreadOK(t)'
    BY <1>1, <1>2, <2>2, <2>3 DEF ThreadOK, Serves, Owns, Base, Known, appVars, CleanupLabels, InCleanup
  <2>6. /\ ioCount' = [ioCount EXCEPT ![slot[t]] = @ + 1]
        /\ UNCHANGED <<release, cleanup, id, recv, send, sendFlag, free, nextUnique, joined>>
    BY <1>1, <2>1 DEF TakeRef, sendVars, poolVars, appVars
  <2>7. /\ "call" \notin own[t] /\ own'[t] = own[t] \cup {"call"}
        /\ slot'[t] = slot[t] /\ op'[t] = op[t] /\ arg'[t] = arg[t]
    BY <1>2, <2>2, <2>3
  <2> QED
    BY <1>1, <1>3, <2>3, <2>4, <2>5, <2>6, <2>7, TakeRefStep
<1>4. CASE ~MayTakeRef(slot[t])
  <2>1. End(t) /\ UNCHANGED <<ctlVars, own>>
    BY <1>4 DEF Acquire
  <2>2. ThreadTypes' /\ OthersKeep(t) /\ ThreadOK(t)' /\ pc'[t] = "idle" /\ slot'[t] = NoSlot
    BY <1>1, <1>2, <2>1, EndStep DEF ThreadTypes
  <2>3. TypeInv'
    BY <1>1, <2>1, <2>2 DEF IInv, TypeInv, SessionTypes, ServerTypes, ctlVars, sendVars, poolVars,
                            appVars
  <2>4. /\ UNCHANGED <<ioCount, release, cleanup, id, recv, send, sendFlag, free, nextUnique, joined>>
        /\ own' = own
    BY <1>1, <2>1 DEF ctlVars, sendVars, poolVars, appVars
  <2> QED BY <1>1, <1>2, <2>2, <2>3, <2>4, EndIsQuiet
<1> QED BY <1>3, <1>4

(* Past the re-validation the session is the one the caller asked for. *)
LEMMA RecheckIInv ==
  ASSUME IInv, NEW t \in Threads, Recheck(t)
  PROVE  IInv'
<1>1. /\ ThreadOK(t) /\ ThreadTypes /\ pc[t] = "recheck" /\ slot[t] \in Slots
  BY ThreadFacts DEF IInv, ThreadInv, Recheck, TypeInv
<1>2. own[t] = {"call"} /\ op[t] \in {"DisConnect", "SendPacket"} /\ t # Acceptor
  BY <1>1, ThreadAssumption DEF ThreadOK, Serves, Owns, Base, CleanupLabels, InCleanup
<1>3. PICK l \in {"dropCall", "setRelease", "enqueue"} :
         /\ Goto(t, l) /\ (l # "dropCall" => SameSession(t))
         /\ (l = "setRelease" => op[t] = "DisConnect") /\ (l = "enqueue" => op[t] = "SendPacket")
  BY <1>2 DEF Recheck
<1>4. /\ UNCHANGED <<ioCount, release, cleanup, id, recv, send, sendFlag, free, nextUnique, joined>>
      /\ own' = own
  BY DEF Recheck, ctlVars, idVars, sendVars, poolVars, appVars
<1>5. /\ ThreadTypes' /\ OthersKeep(t) /\ pc'[t] = l
      /\ op' = op /\ arg' = arg /\ slot' = slot /\ pkt' = pkt
  <2>1. l \in Labels BY DEF Labels
  <2>2. UNCHANGED <<ctxVars, own, zero>> BY DEF Recheck
  <2> QED BY <1>1, <1>3, <2>1, <2>2, GotoStep DEF ThreadTypes
<1>6. TypeInv'
  BY <1>5 DEF IInv, TypeInv, SessionTypes, ServerTypes, Recheck, ctlVars, idVars, sendVars,
              poolVars, appVars
<1>7. ThreadOK(t)'
  BY <1>1, <1>2, <1>3, <1>4, <1>5
     DEF ThreadOK, Serves, Owns, Base, Known, CleanupLabels, InCleanup
<1>8. Solid(t)' => /\ id[slot'[t]] # NoId
                   /\ op'[t] \in {"DisConnect", "SendPacket"} => id[slot'[t]] = arg'[t]
                   /\ ~(Preparing /\ slot'[t] = slot[Acceptor])
  <2>1. l # "dropCall" => id[slot[t]] = arg[t]
    BY <1>3 DEF SameSession
  <2>2. arg[t] \in Known /\ arg[t] # NoId
    BY <1>1, <1>2 DEF ThreadOK, Known
  <2> QED BY <1>5, <2>1, <2>2 DEF Solid, IInv, PrepareInv
<1>9. ~Sending(t)' /\ ~Receiving(t)' /\ pc'[t] \notin InCleanup
  BY <1>2, <1>4, <1>5 DEF Sending, Receiving, InCleanup
<1> QED
  BY <1>1, <1>2, <1>4, <1>5, <1>6, <1>7, <1>8, <1>9, ThreadFacts, NotAcceptor, QuietStep DEF IInv

(* The send ring is no business of the invariant but for its type.          *)
LEMMA EnqueueIInv ==
  ASSUME IInv, NEW t \in Threads, Enqueue(t)
  PROVE  IInv'
<1>1. /\ ThreadOK(t) /\ ThreadTypes /\ pc[t] = "enqueue" /\ slot[t] \in Slots
  BY ThreadFacts DEF IInv, ThreadInv, Enqueue, TypeInv
<1>2. own[t] = {"call"} /\ op[t] = "SendPacket" /\ t # Acceptor /\ pkt[t] \in Packets
  BY <1>1, ThreadAssumption DEF ThreadOK, Serves, Owns, Base, CleanupLabels, InCleanup
<1>3. PICK l \in {"exchange", "setRelease"} : Goto(t, l)
  BY DEF Enqueue
<1>4. /\ UNCHANGED <<ioCount, release, cleanup, id, recv, send, sendFlag, free, nextUnique, joined>>
      /\ own' = own
  BY DEF Enqueue, ctlVars, idVars, poolVars, appVars
<1>5. /\ ThreadTypes' /\ OthersKeep(t) /\ pc'[t] = l
      /\ op' = op /\ arg' = arg /\ slot' = slot /\ pkt' = pkt
  <2>1. l \in Labels BY DEF Labels
  <2>2. UNCHANGED <<ctxVars, own, zero>> BY DEF Enqueue
  <2> QED BY <1>1, <1>3, <2>1, <2>2, GotoStep DEF ThreadTypes
<1>6. TypeInv'
  <2>1. ring' \in [Slots -> Seq(Packets)]
    <3>1. ring \in [Slots -> Seq(Packets)] /\ Append(ring[slot[t]], pkt[t]) \in Seq(Packets)
      BY <1>1, <1>2 DEF IInv, TypeInv, SessionTypes
    <3> QED BY <3>1 DEF Enqueue
  <2>2. pktRef' \in [Packets -> Int]
    BY DEF IInv, TypeInv, ServerTypes, Enqueue, AddRef
  <2> QED
    BY <1>5, <2>1, <2>2 DEF IInv, TypeInv, SessionTypes, ServerTypes, Enqueue, ctlVars, idVars,
                      poolVars, appVars
<1>7. ThreadOK(t)'
  BY <1>1, <1>2, <1>4, <1>5 DEF ThreadOK, Serves, Owns, Base, Known, CleanupLabels, InCleanup
<1>8. /\ Solid(t)' => Solid(t) /\ slot'[t] = slot[t] /\ op'[t] = op[t] /\ arg'[t] = arg[t]
      /\ ~Sending(t)' /\ ~Receiving(t)' /\ pc'[t] \notin InCleanup
  BY <1>1, <1>2, <1>4, <1>5 DEF Solid, Sending, Receiving, InCleanup
<1> QED
  BY <1>1, <1>2, <1>4, <1>5, <1>6, <1>7, <1>8, ThreadFacts, NotAcceptor, QuietStep DEF IInv

-----------------------------------------------------------------------------
(* postSend.                                                               *)

(* The sequences postSend moves keep their types. *)
LEMMA SubRefsType ==
  ASSUME ServerTypes, NEW q \in Seq(Packets), SubRefs(q)
  PROVE  pktRef' \in [Packets -> Int]
<1>1. \A p \in Packets : Cardinality({i \in DOMAIN q : q[i] = p}) \in Nat
  <2> TAKE p \in Packets
  <2>1. IsFiniteSet(DOMAIN q)
    BY FS_Interval
  <2>2. {i \in DOMAIN q : q[i] = p} \in SUBSET DOMAIN q
    OBVIOUS
  <2> QED BY <2>1, <2>2, FS_Subset, FS_CardinalityType
<1> QED BY <1>1 DEF ServerTypes, SubRefs

(* Both halves of a ring that Drain splits are sequences of packets.        *)
LEMMA BatchTypes ==
  ASSUME NEW q \in Seq(Packets)
  PROVE  /\ SubSeq(q, 1, BatchSize(q)) \in Seq(Packets)
         /\ SubSeq(q, BatchSize(q) + 1, Len(q)) \in Seq(Packets)
<1>1. BatchSize(q) \in 0 .. Len(q)
  BY ConstantAssumption DEF BatchSize
<1> QED BY <1>1, SubSeqProperties

(* Whoever finds sendFlag clear is alone to send. *)
LEMMA ExchangeIInv ==
  ASSUME IInv, NEW t \in Threads, Exchange(t)
  PROVE  IInv'
<1>1. /\ ThreadOK(t) /\ ThreadTypes /\ pc[t] = "exchange" /\ slot[t] \in Slots
      /\ sendFlag' = [sendFlag EXCEPT ![slot[t]] = 1]
  BY ThreadFacts DEF IInv, ThreadInv, Exchange, TypeInv
<1>2. own[t] = {"call"} /\ op[t] \in {"SendPacket", "Send"} /\ t # Acceptor
  BY <1>1, ThreadAssumption DEF ThreadOK, Serves, Owns, Base, CleanupLabels, InCleanup
<1>3. PICK l \in {"drain", "dropCall"} : Goto(t, l) /\ (l = "drain" => FlagWasClear(slot[t]))
  BY DEF Exchange
<1>4. UNCHANGED <<ioCount, release, cleanup, id, recv, send, free, nextUnique, joined, own>>
  BY DEF Exchange, ctlVars, idVars, poolVars, appVars
<1>5. /\ ThreadTypes' /\ OthersKeep(t) /\ pc'[t] = l
      /\ op' = op /\ arg' = arg /\ slot' = slot /\ pkt' = pkt
  <2>1. l \in Labels BY DEF Labels
  <2>2. UNCHANGED <<ctxVars, own, zero>> BY DEF Exchange
  <2> QED BY <1>1, <1>3, <2>1, <2>2, GotoStep DEF ThreadTypes
<1>6. TypeInv'
  <2>1. sendFlag' \in [Slots -> {0, 1}]
    BY <1>1 DEF IInv, TypeInv, SessionTypes
  <2> QED
    BY <1>5, <2>1 DEF IInv, TypeInv, SessionTypes, ServerTypes, Exchange, ctlVars, idVars,
                      poolVars, appVars
<1>7. ThreadOK(t)'
  BY <1>1, <1>2, <1>4, <1>5 DEF ThreadOK, Serves, Owns, Base, Known, CleanupLabels, InCleanup
<1>8. /\ Solid(t)' => Solid(t) /\ slot'[t] = slot[t] /\ op'[t] = op[t] /\ arg'[t] = arg[t]
      /\ ~Receiving(t)' /\ pc'[t] \notin InCleanup
  BY <1>1, <1>2, <1>4, <1>5 DEF Solid, Receiving, InCleanup
<1>9. ThreadInv' /\ FreshIds' /\ SlotInv' /\ CleanerInv' /\ SolidInv' /\ PrepareInv'
  BY <1>1, <1>2, <1>4, <1>5, <1>6, <1>7, <1>8, ThreadFacts, NotAcceptor, ControlStep DEF IInv
<1>10. SendInv'
  <2>1. \A s \in Slots : sendFlag'[s] = IF s = slot[t] THEN 1 ELSE sendFlag[s]
    BY <1>1 DEF IInv, TypeInv, SessionTypes
  <2>2. Sending(t)' => FlagWasClear(slot[t])
    BY <1>2, <1>3, <1>4, <1>5 DEF Sending
  <2>3. Sending(t)' => send[slot[t]] = "none" /\ \A u \in Threads : slot[u] = slot[t] => ~Sending(u)
    BY <1>1, <2>2 DEF IInv, SendInv, FlagWasClear
  <2>4. \A u \in Threads \ {t} : (Sending(u)' <=> Sending(u)) /\ slot'[u] = slot[u]
    BY <1>5 DEF OthersKeep, Sending
  <2>5. \A u \in Threads : Sending(u) => slot[u] \in Slots
    BY ThreadFacts DEF IInv
  <2>6. \A s \in Slots : sendFlag[s] = 1 => sendFlag'[s] = 1
    BY <2>1
  <2>7. \A u \in Threads : Sending(u)' => sendFlag'[slot'[u]] = 1 /\ send'[slot'[u]] = "none"
    BY <1>1, <1>4, <1>5, <2>1, <2>3, <2>4, <2>5, <2>6 DEF IInv, SendInv
  <2>8. \A u, v \in Threads : Sending(u)' /\ Sending(v)' /\ slot'[u] = slot'[v] => u = v
    BY <1>5, <2>3, <2>4 DEF IInv, SendInv
  <2>9. \A s \in Slots : send'[s] # "none" => sendFlag'[s] = 1
    BY <1>4, <2>6 DEF IInv, SendInv
  <2> QED BY <2>7, <2>8, <2>9 DEF SendInv
<1>11. RecvInv'
  BY <1>4, <1>5, <1>8, SameReceiver
<1>12. RefCountExact'
  BY <1>4, <1>5, CountFrame DEF IInv
<1>13. ReferencedIsLive'
  BY <1>1, <1>4, <1>5, OwnedIsLive, LiveFrame DEF IInv
<1> QED BY <1>6, <1>9, <1>10, <1>11, <1>12, <1>13 DEF IInv

(* The owner of sendFlag moves packets and goes on.                         *)
LEMMA DrainIInv ==
  ASSUME IInv, NEW t \in Threads, Drain(t)
  PROVE  IInv'
<1>1. /\ ThreadOK(t) /\ ThreadTypes /\ pc[t] = "drain" /\ slot[t] \in Slots
  BY ThreadFacts DEF IInv, ThreadInv, Drain, TypeInv
<1>2. own[t] = {"call"} /\ op[t] \in {"SendPacket", "Send"} /\ t # Acceptor
  BY <1>1, ThreadAssumption DEF ThreadOK, Serves, Owns, Base, CleanupLabels, InCleanup
<1>3. PICK l \in {"clearFlag", "sendRef"} : Goto(t, l)
  BY DEF Drain
<1>4. /\ UNCHANGED <<ioCount, release, cleanup, id, recv, send, sendFlag, free, nextUnique, joined>>
      /\ own' = own
  BY DEF Drain, ctlVars, idVars, poolVars, appVars
<1>5. /\ ThreadTypes' /\ OthersKeep(t) /\ pc'[t] = l
      /\ op' = op /\ arg' = arg /\ slot' = slot /\ pkt' = pkt
  <2>1. l \in Labels BY DEF Labels
  <2>2. UNCHANGED <<ctxVars, own, zero>> BY DEF Drain
  <2> QED BY <1>1, <1>3, <2>1, <2>2, GotoStep DEF ThreadTypes
<1>6. TypeInv'
  <2> DEFINE q == ring[slot[t]]
  <2>1. q \in Seq(Packets) /\ ring \in [Slots -> Seq(Packets)] /\ sent \in [Slots -> Seq(Packets)]
    BY <1>1 DEF IInv, TypeInv, SessionTypes
  <2>2. /\ SubSeq(q, 1, BatchSize(q)) \in Seq(Packets)
        /\ SubSeq(q, BatchSize(q) + 1, Len(q)) \in Seq(Packets)
    BY <2>1, BatchTypes
  <2>3. ring' \in [Slots -> Seq(Packets)] /\ sent' \in [Slots -> Seq(Packets)]
    BY <2>1, <2>2 DEF Drain
  <2> QED
    BY <1>5, <2>3 DEF IInv, TypeInv, SessionTypes, ServerTypes, Drain, ctlVars, idVars,
                      poolVars, appVars
<1>7. ThreadOK(t)'
  BY <1>1, <1>2, <1>4, <1>5 DEF ThreadOK, Serves, Owns, Base, Known, CleanupLabels, InCleanup
<1>8. /\ Solid(t)' => Solid(t) /\ slot'[t] = slot[t] /\ op'[t] = op[t] /\ arg'[t] = arg[t]
      /\ Sending(t) /\ slot'[t] = slot[t] /\ ~Receiving(t)' /\ pc'[t] \notin InCleanup
  BY <1>1, <1>2, <1>4, <1>5 DEF Solid, Sending, Receiving, InCleanup
<1> QED
  BY <1>1, <1>2, <1>4, <1>5, <1>6, <1>7, <1>8, ThreadFacts, NotAcceptor, QuietStep DEF IInv

(* The sender takes a reference for its WSASend, or gives up.               *)
LEMMA SendRefIInv ==
  ASSUME IInv, NEW t \in Threads, SendRef(t)
  PROVE  IInv'
<1>1. /\ ThreadOK(t) /\ ThreadTypes /\ pc[t] = "sendRef" /\ slot[t] \in Slots
      /\ UNCHANGED <<id, state, socket, recv, send, posted, sendFlag, ring, poolVars, appVars>>
      /\ UNCHANGED <<ctxVars, zero>>
  BY ThreadFacts DEF IInv, ThreadInv, SendRef, TypeInv, idVars
<1>2. own[t] = {"call"} /\ op[t] \in {"SendPacket", "Send"} /\ t # Acceptor
  BY <1>1, ThreadAssumption DEF ThreadOK, Serves, Owns, Base, CleanupLabels, InCleanup
<1>3. CASE MayTakeRef(slot[t])
  <2>1. TakeRef(t, slot[t], "io") /\ Goto(t, "wsaSend") /\ UNCHANGED <<sent, pktRef>>
    BY <1>3 DEF SendRef
  <2>2. own' \in [Threads -> SUBSET {"call", "io"}] /\ own'[t] = own[t] \cup {"io"}
        /\ \A u \in Threads \ {t} : own'[u] = own[u]
    BY <1>1, <2>1, OwnStep DEF TakeRef
  <2>3. /\ ThreadTypes' /\ OthersKeep(t) /\ pc'[t] = "wsaSend"
        /\ op' = op /\ arg' = arg /\ slot' = slot /\ pkt' = pkt
    <3>1. "wsaSend" \in Labels BY DEF Labels
    <3> QED BY <1>1, <2>1, <2>2, <3>1, GotoStep DEF ThreadTypes
  <2>4. TypeInv'
    BY <1>1, <2>1, <2>3 DEF IInv, TypeInv, SessionTypes, ServerTypes, TakeRef, poolVars, appVars
  <2>5. ThreadOK(t)'
    BY <1>1, <1>2, <2>2, <2>3
       DEF ThreadOK, Serves, Owns, Base, Known, appVars, CleanupLabels, InCleanup
  <2>6. /\ ioCount' = [ioCount EXCEPT ![slot[t]] = @ + 1]
        /\ UNCHANGED <<release, cleanup, id, recv, send, sendFlag, free, nextUnique, joined>>
    BY <1>1, <2>1 DEF TakeRef, poolVars, appVars
  <2>7. /\ "io" \notin own[t] /\ slot'[t] = slot[t] /\ op'[t] = op[t] /\ arg'[t] = arg[t]
    BY <1>2, <2>3
  <2> QED
    BY <1>1, <1>3, <2>2, <2>3, <2>4, <2>5, <2>6, <2>7, TakeRefStep
<1>4. CASE ~MayTakeRef(slot[t])
  <2>1. /\ SubRefs(sent[slot[t]]) /\ sent' = [sent EXCEPT ![slot[t]] = <<>>]
        /\ Goto(t, "clearFlag") /\ UNCHANGED <<ctlVars, own>>
    BY <1>4 DEF SendRef
  <2>2. /\ ThreadTypes' /\ OthersKeep(t) /\ pc'[t] = "clearFlag"
        /\ op' = op /\ arg' = arg /\ slot' = slot /\ pkt' = pkt
    <3>1. "clearFlag" \in Labels BY DEF Labels
    <3> QED BY <1>1, <2>1, <3>1, GotoStep DEF ThreadTypes
  <2>3. TypeInv'
    <3>1. sent[slot[t]] \in Seq(Packets) /\ sent' \in [Slots -> Seq(Packets)]
      BY <1>1, <2>1 DEF IInv, TypeInv, SessionTypes
    <3>2. pktRef' \in [Packets -> Int]
      BY <2>1, <3>1, SubRefsType DEF IInv, TypeInv
    <3> QED
      BY <1>1, <2>1, <2>2, <3>1, <3>2 DEF IInv, TypeInv, SessionTypes, ServerTypes, ctlVars,
                                          poolVars, appVars
  <2>4. ThreadOK(t)'
    BY <1>1, <1>2, <2>1, <2>2
       DEF ThreadOK, Serves, Owns, Base, Known, appVars, CleanupLabels, InCleanup
  <2>5. /\ UNCHANGED <<ioCount, release, cleanup, id, recv, send, sendFlag, free, nextUnique, joined>>
        /\ own' = own
    BY <1>1, <2>1 DEF ctlVars, poolVars, appVars
  <2>6. /\ Solid(t)' => Solid(t) /\ slot'[t] = slot[t] /\ op'[t] = op[t] /\ arg'[t] = arg[t]
        /\ Sending(t) /\ slot'[t] = slot[t] /\ ~Receiving(t)' /\ pc'[t] \notin InCleanup
    BY <1>1, <1>2, <2>2, <2>5 DEF Solid, Sending, Receiving, InCleanup
  <2> QED
    BY <1>1, <1>2, <2>2, <2>3, <2>4, <2>5, <2>6, ThreadFacts, NotAcceptor, QuietStep DEF IInv
<1> QED BY <1>3, <1>4

(* A reference goes from the thread to the I/O it started. *)
LEMMA HandOver ==
  ASSUME IInv, TypeInv', NEW t \in Threads, OthersKeep(t), slot[t] \in Slots,
         "io" \in own[t], own'[t] = own[t] \ {"io"}, own'[t] = {} \/ slot'[t] = slot[t],
         UNCHANGED <<ioCount, free, cleanup>>,
         \/ /\ recv[slot[t]] = "none" /\ recv'[slot[t]] # "none" /\ send' = send
            /\ \A s \in Slots \ {slot[t]} : recv'[s] = recv[s]
         \/ /\ send[slot[t]] = "none" /\ send'[slot[t]] # "none" /\ recv' = recv
            /\ \A s \in Slots \ {slot[t]} : send'[s] = send[s]
  PROVE  RefCountExact' /\ ReferencedIsLive'
<1> USE DEF IInv
<1>1. slot[t] \notin free /\ ~cleanup[slot[t]]
  BY OwnedIsLive
<1>2. RefCountExact'
  <2>1. \A s \in Slots : Cardinality(ThreadRefs(s)') =
            Cardinality(ThreadRefs(s)) - (IF s = slot[t] THEN 1 ELSE 0)
    BY RefsRemoved
  <2>2. \A s \in Slots : IoRefs(recv[s])' + IoRefs(send[s])' =
            IoRefs(recv[s]) + IoRefs(send[s]) + (IF s = slot[t] THEN 1 ELSE 0)
    BY DEF IoRefs
  <2>3. \A s \in Slots : /\ Cardinality(ThreadRefs(s)) \in Nat
                         /\ IoRefs(recv[s]) \in Nat /\ IoRefs(send[s]) \in Nat
                         /\ IoRefs(recv[s])' \in Nat /\ IoRefs(send[s])' \in Nat
    BY RefsFinite DEF IoRefs
  <2> QED BY <2>1, <2>2, <2>3 DEF RefCountExact
<1>3. ReferencedIsLive'
  BY <1>1, LiveFrame
<1> QED BY <1>2, <1>3

(* The sender of a session stops, and no other starts. *)
LEMMA SenderLeaves ==
  ASSUME IInv, TypeInv', NEW t \in Threads, OthersKeep(t), slot[t] \in Slots,
         Sending(t), ~Sending(t)',
         \/ sendFlag' = [sendFlag EXCEPT ![slot[t]] = 0] /\ send' = send
         \/ sendFlag' = sendFlag /\ \A s \in Slots \ {slot[t]} : send'[s] = send[s]
  PROVE  SendInv'
<1>1. \A u \in Threads : Sending(u)' => u # t /\ Sending(u) /\ slot'[u] = slot[u]
  BY DEF OthersKeep, Sending
<1>2. \A u \in Threads \ {t} : Sending(u) => slot[u] \in Slots /\ slot[u] # slot[t]
  BY ThreadFacts DEF IInv, SendInv
<1>3. sendFlag[slot[t]] = 1 /\ send[slot[t]] = "none"
  BY DEF IInv, SendInv
<1>4. \A s \in Slots \ {slot[t]} : sendFlag'[s] = sendFlag[s] /\ send'[s] = send[s]
  BY DEF IInv, TypeInv, SessionTypes
<1>5. send'[slot[t]] # "none" => sendFlag'[slot[t]] = 1
  BY <1>3
<1> QED BY <1>1, <1>2, <1>4, <1>5 DEF IInv, SendInv

(* The sender leaves and opens sendFlag.                                    *)
LEMMA ClearFlagIInv ==
  ASSUME IInv, NEW t \in Threads, ClearFlag(t)
  PROVE  IInv'
<1>1. /\ ThreadOK(t) /\ ThreadTypes /\ pc[t] = "clearFlag" /\ slot[t] \in Slots
      /\ sendFlag' = [sendFlag EXCEPT ![slot[t]] = 0]
  BY ThreadFacts DEF IInv, ThreadInv, ClearFlag, TypeInv
<1>2. own[t] = {"call"} /\ op[t] \in {"SendPacket", "Send"} /\ t # Acceptor
  BY <1>1, ThreadAssumption DEF ThreadOK, Serves, Owns, Base, CleanupLabels, InCleanup
<1>3. UNCHANGED <<ioCount, release, cleanup, id, recv, send, free, nextUnique, joined, own>>
  BY DEF ClearFlag, ctlVars, idVars, poolVars, appVars
<1>4. /\ ThreadTypes' /\ OthersKeep(t) /\ pc'[t] = "dropCall"
      /\ op' = op /\ arg' = arg /\ slot' = slot /\ pkt' = pkt
  <2>1. "dropCall" \in Labels BY DEF Labels
  <2>2. Goto(t, "dropCall") /\ UNCHANGED <<ctxVars, own, zero>> BY DEF ClearFlag
  <2> QED BY <1>1, <2>1, <2>2, GotoStep DEF ThreadTypes
<1>5. TypeInv'
  <2>1. sendFlag' \in [Slots -> {0, 1}]
    BY <1>1 DEF IInv, TypeInv, SessionTypes
  <2> QED
    BY <1>4, <2>1 DEF IInv, TypeInv, SessionTypes, ServerTypes, ClearFlag, ctlVars, idVars,
                      poolVars, appVars
<1>6. ThreadOK(t)'
  BY <1>1, <1>2, <1>3, <1>4 DEF ThreadOK, Serves, Owns, Base, Known, CleanupLabels, InCleanup
<1>7. /\ Solid(t)' => Solid(t) /\ slot'[t] = slot[t] /\ op'[t] = op[t] /\ arg'[t] = arg[t]
      /\ ~Receiving(t)' /\ pc'[t] \notin InCleanup /\ Sending(t) /\ ~Sending(t)'
  BY <1>1, <1>2, <1>3, <1>4 DEF Solid, Receiving, Sending, InCleanup
<1>8. ThreadInv' /\ FreshIds' /\ SlotInv' /\ CleanerInv' /\ SolidInv' /\ PrepareInv'
  BY <1>1, <1>2, <1>3, <1>4, <1>5, <1>6, <1>7, ThreadFacts, NotAcceptor, ControlStep DEF IInv
<1>9. SendInv' /\ RecvInv'
  BY <1>1, <1>3, <1>4, <1>5, <1>7, SenderLeaves, SameReceiver
<1>10. RefCountExact' /\ ReferencedIsLive'
  BY <1>1, <1>3, <1>4, CountFrame, OwnedIsLive, LiveFrame DEF IInv
<1> QED BY <1>5, <1>8, <1>9, <1>10 DEF IInv

(* The worker of a completed send opens sendFlag before it sends again.     *)
LEMMA ResetFlagIInv ==
  ASSUME IInv, NEW t \in Threads, ResetFlag(t)
  PROVE  IInv'
<1>1. /\ ThreadOK(t) /\ ThreadTypes /\ pc[t] = "resetFlag" /\ slot[t] \in Slots
      /\ sendFlag' = [sendFlag EXCEPT ![slot[t]] = 0]
  BY ThreadFacts DEF IInv, ThreadInv, ResetFlag, TypeInv
<1>2. own[t] = {"call"} /\ op[t] \in {"Send"} /\ t # Acceptor
  BY <1>1, ThreadAssumption DEF ThreadOK, Serves, Owns, Base, CleanupLabels, InCleanup
<1>3. UNCHANGED <<ioCount, release, cleanup, id, recv, send, free, nextUnique, joined, own>>
  BY DEF ResetFlag, ctlVars, idVars, poolVars, appVars
<1>4. /\ ThreadTypes' /\ OthersKeep(t) /\ pc'[t] = "exchange"
      /\ op' = op /\ arg' = arg /\ slot' = slot /\ pkt' = pkt
  <2>1. "exchange" \in Labels BY DEF Labels
  <2>2. Goto(t, "exchange") /\ UNCHANGED <<ctxVars, own, zero>> BY DEF ResetFlag
  <2> QED BY <1>1, <2>1, <2>2, GotoStep DEF ThreadTypes
<1>5. TypeInv'
  <2>1. sendFlag' \in [Slots -> {0, 1}]
    BY <1>1 DEF IInv, TypeInv, SessionTypes
  <2> QED
    BY <1>4, <2>1 DEF IInv, TypeInv, SessionTypes, ServerTypes, ResetFlag, ctlVars, idVars,
                      poolVars, appVars
<1>6. ThreadOK(t)'
  BY <1>1, <1>2, <1>3, <1>4 DEF ThreadOK, Serves, Owns, Base, Known, CleanupLabels, InCleanup
<1>7. /\ Solid(t)' => Solid(t) /\ slot'[t] = slot[t] /\ op'[t] = op[t] /\ arg'[t] = arg[t]
      /\ ~Receiving(t)' /\ pc'[t] \notin InCleanup /\ Sending(t) /\ ~Sending(t)'
  BY <1>1, <1>2, <1>3, <1>4 DEF Solid, Receiving, Sending, InCleanup
<1>8. ThreadInv' /\ FreshIds' /\ SlotInv' /\ CleanerInv' /\ SolidInv' /\ PrepareInv'
  BY <1>1, <1>2, <1>3, <1>4, <1>5, <1>6, <1>7, ThreadFacts, NotAcceptor, ControlStep DEF IInv
<1>9. SendInv' /\ RecvInv'
  BY <1>1, <1>3, <1>4, <1>5, <1>7, SenderLeaves, SameReceiver
<1>10. RefCountExact' /\ ReferencedIsLive'
  BY <1>1, <1>3, <1>4, CountFrame, OwnedIsLive, LiveFrame DEF IInv
<1> QED BY <1>5, <1>8, <1>9, <1>10 DEF IInv

(* The reference of the sender passes to the I/O, or stays with it.         *)
LEMMA WsaSendIInv ==
  ASSUME IInv, NEW t \in Threads, WsaSend(t)
  PROVE  IInv'
<1>1. /\ ThreadOK(t) /\ ThreadTypes /\ pc[t] = "wsaSend" /\ slot[t] \in Slots
      /\ UNCHANGED <<ctlVars, idVars, recv, posted, sendFlag, ring, poolVars, appVars, ctxVars, zero>>
  BY ThreadFacts DEF IInv, ThreadInv, WsaSend, TypeInv
<1>2. own[t] = {"call", "io"} /\ op[t] \in {"SendPacket", "Send"} /\ t # Acceptor
  BY <1>1, ThreadAssumption DEF ThreadOK, Serves, Owns, Base, CleanupLabels, InCleanup
<1>3. Solid(t) /\ Sending(t)
  BY <1>1, <1>2 DEF Solid, Sending
<1>4. UNCHANGED <<ioCount, release, cleanup, id, recv, sendFlag, free, nextUnique, joined>>
  BY <1>1 DEF ctlVars, idVars, poolVars, appVars
<1>5. CASE /\ send' = [send EXCEPT ![slot[t]] = "pending"] /\ own' = [own EXCEPT ![t] = @ \ {"io"}]
           /\ Goto(t, "dropCall") /\ UNCHANGED <<sent, pktRef>>
  <2>1. /\ own' \in [Threads -> SUBSET {"call", "io"}] /\ own'[t] = own[t] \ {"io"}
        /\ \A u \in Threads \ {t} : own'[u] = own[u]
    BY <1>1, <1>5, OwnStep
  <2>2. /\ ThreadTypes' /\ OthersKeep(t) /\ pc'[t] = "dropCall"
        /\ op' = op /\ arg' = arg /\ slot' = slot /\ pkt' = pkt
    <3>1. "dropCall" \in Labels BY DEF Labels
    <3> QED BY <1>1, <1>5, <2>1, <3>1, GotoStep DEF ThreadTypes
  <2>3. send' \in [Slots -> Outcomes \ {"fin"}] /\ send'[slot[t]] = "pending"
        /\ \A s \in Slots \ {slot[t]} : send'[s] = send[s]
    BY <1>1, <1>5 DEF IInv, TypeInv, SessionTypes, Outcomes
  <2>4. TypeInv'
    BY <1>1, <1>5, <2>2, <2>3 DEF IInv, TypeInv, SessionTypes, ServerTypes, ctlVars, idVars,
                                  poolVars, appVars
  <2>5. ThreadOK(t)'
    BY <1>1, <1>2, <1>4, <2>1, <2>2
       DEF ThreadOK, Serves, Owns, Base, Known, CleanupLabels, InCleanup
  <2>6. ~Solid(t)' /\ ~Sending(t)' /\ ~Receiving(t)' /\ pc'[t] \notin InCleanup
    BY <1>2, <2>1, <2>2 DEF Solid, Sending, Receiving, InCleanup
  <2>7. ThreadInv' /\ FreshIds' /\ SlotInv' /\ CleanerInv' /\ SolidInv' /\ PrepareInv'
    BY <1>1, <1>2, <1>3, <1>4, <2>2, <2>3, <2>4, <2>5, <2>6, ThreadFacts, NotAcceptor, ControlStep
       DEF IInv
  <2>8. SendInv' /\ RecvInv'
    BY <1>1, <1>3, <1>4, <2>2, <2>3, <2>4, <2>6, SenderLeaves, SameReceiver
  <2>9. RefCountExact' /\ ReferencedIsLive'
    <3>1. send[slot[t]] = "none"
      BY <1>3 DEF IInv, SendInv
    <3> QED BY <1>1, <1>2, <1>4, <2>1, <2>2, <2>3, <2>4, <3>1, HandOver
  <2> QED BY <2>4, <2>7, <2>8, <2>9 DEF IInv
<1>6. CASE /\ SubRefs(sent[slot[t]]) /\ sent' = [sent EXCEPT ![slot[t]] = <<>>]
           /\ Goto(t, IF LoginCopy THEN "dropIo" ELSE "setRelease") /\ UNCHANGED <<send, own>>
  <2>1. PICK l \in {"dropIo", "setRelease"} : Goto(t, l)
    BY <1>6
  <2>2. /\ ThreadTypes' /\ OthersKeep(t) /\ pc'[t] = l
        /\ op' = op /\ arg' = arg /\ slot' = slot /\ pkt' = pkt
    <3>1. l \in Labels BY DEF Labels
    <3> QED BY <1>1, <1>6, <2>1, <3>1, GotoStep DEF ThreadTypes
  <2>3. TypeInv'
    <3>1. sent[slot[t]] \in Seq(Packets) /\ sent' \in [Slots -> Seq(Packets)]
      BY <1>1, <1>6 DEF IInv, TypeInv, SessionTypes
    <3>2. pktRef' \in [Packets -> Int]
      BY <1>6, <3>1, SubRefsType DEF IInv, TypeInv
    <3> QED
      BY <1>1, <1>6, <2>2, <3>1, <3>2 DEF IInv, TypeInv, SessionTypes, ServerTypes, ctlVars, idVars,
                                          poolVars, appVars
  <2>4. ThreadOK(t)'
    BY <1>1, <1>2, <1>4, <1>6, <2>2
       DEF ThreadOK, Serves, Owns, Base, Known, CleanupLabels, InCleanup
  <2>5. ~Receiving(t)' /\ pc'[t] \notin InCleanup
    BY <2>2 DEF Receiving, InCleanup
  <2> QED
    BY <1>1, <1>2, <1>3, <1>4, <1>6, <2>2, <2>3, <2>4, <2>5, ThreadFacts, NotAcceptor, QuietStep
       DEF IInv
<1> QED BY <1>5, <1>6 DEF WsaSend

-----------------------------------------------------------------------------
(* postRecv, for the accept thread and for a worker.                       *)

(* The receiver takes a reference for its WSARecv, or gives up.             *)
LEMMA RecvRefIInv ==
  ASSUME IInv, NEW t \in Threads, RecvRef(t)
  PROVE  IInv'
<1>1. /\ ThreadOK(t) /\ ThreadTypes /\ pc[t] = "recvRef" /\ slot[t] \in Slots /\ Acceptor \in Threads
      /\ UNCHANGED <<id, state, socket, recv, send, posted, sendVars, poolVars, appVars, zero>>
  BY ThreadFacts DEF IInv, ThreadInv, RecvRef, TypeInv, idVars
<1>2. \/ own[t] = {} /\ op[t] = "Accept" /\ t = Acceptor
      \/ own[t] = {"call"} /\ op[t] = "Recv" /\ t # Acceptor
  BY <1>1, ThreadAssumption DEF ThreadOK, Serves, Owns, Base, CleanupLabels, InCleanup
<1>3. CASE MayTakeRef(slot[t])
  <2>1. TakeRef(t, slot[t], "io") /\ Goto(t, "wsaRecv") /\ UNCHANGED ctxVars
    BY <1>3 DEF RecvRef
  <2>2. own' \in [Threads -> SUBSET {"call", "io"}] /\ own'[t] = own[t] \cup {"io"}
        /\ \A u \in Threads \ {t} : own'[u] = own[u]
    BY <1>1, <2>1, OwnStep DEF TakeRef
  <2>3. /\ ThreadTypes' /\ OthersKeep(t) /\ pc'[t] = "wsaRecv"
        /\ op' = op /\ arg' = arg /\ slot' = slot /\ pkt' = pkt
    <3>1. "wsaRecv" \in Labels BY DEF Labels
    <3> QED BY <1>1, <2>1, <2>2, <3>1, GotoStep DEF ThreadTypes
  <2>4. TypeInv'
    BY <1>1, <2>1, <2>3 DEF IInv, TypeInv, SessionTypes, ServerTypes, TakeRef, sendVars, poolVars,
                            appVars
  <2>5. ThreadOK(t)'
    BY <1>1, <1>2, <2>2, <2>3
       DEF ThreadOK, Serves, Owns, Base, Known, appVars, CleanupLabels, InCleanup
  <2>6. /\ ioCount' = [ioCount EXCEPT ![slot[t]] = @ + 1]
        /\ UNCHANGED <<release, cleanup, id, recv, send, sendFlag, free, nextUnique, joined>>
    BY <1>1, <2>1 DEF TakeRef, sendVars, poolVars, appVars
  <2>7. /\ "io" \notin own[t] /\ slot'[t] = slot[t] /\ op'[t] = op[t] /\ arg'[t] = arg[t]
    BY <1>2, <2>3
  <2> QED
    BY <1>1, <1>3, <2>2, <2>3, <2>4, <2>5, <2>6, <2>7, TakeRefStep
<1>4. CASE ~MayTakeRef(slot[t])
  <2>1. /\ UNCHANGED <<ioCount, release, cleanup, id, recv, send, sendFlag, free, nextUnique, joined>>
        /\ own' = own
    BY <1>1, <1>4 DEF RecvRef, ctlVars, sendVars, poolVars, appVars
  <2>2. CASE op[t] = "Recv" \/ RecvFirst
    <3>1. PICK l \in {"setRelease", "join"} :
             /\ Goto(t, l) /\ UNCHANGED ctxVars
             /\ (l = "setRelease" => op[t] = "Recv") /\ (l = "join" => op[t] = "Accept" /\ RecvFirst)
      BY <1>2, <1>4, <2>2 DEF RecvRef
    <3>2. /\ ThreadTypes' /\ OthersKeep(t) /\ pc'[t] = l
          /\ op' = op /\ arg' = arg /\ slot' = slot /\ pkt' = pkt
      <4>1. l \in Labels BY DEF Labels
      <4> QED BY <1>1, <2>1, <3>1, <4>1, GotoStep DEF ThreadTypes
    <3>3. TypeInv'
      BY <1>1, <2>1, <3>2 DEF IInv, TypeInv, SessionTypes, ServerTypes, sendVars, poolVars, appVars
    <3>4. ThreadOK(t)'
      BY <1>1, <1>2, <2>1, <3>1, <3>2
         DEF ThreadOK, Serves, Owns, Base, Known, CleanupLabels, InCleanup
    <3>5. /\ Solid(t)' => Solid(t) /\ slot'[t] = slot[t] /\ op'[t] = op[t] /\ arg'[t] = arg[t]
          /\ ~Sending(t)' /\ ~Receiving(t)' /\ pc'[t] \notin InCleanup
      BY <1>1, <1>2, <2>1, <3>1, <3>2 DEF Solid, Sending, Receiving, InCleanup
    <3>6. Preparing' => Preparing /\ slot'[Acceptor] = slot[Acceptor]
      BY <1>1, <1>2, <2>1, <3>1, <3>2 DEF Preparing, OthersKeep
    <3> QED BY <1>1, <2>1, <3>2, <3>3, <3>4, <3>5, <3>6, QuietStep
  <2>3. CASE op[t] # "Recv" /\ ~RecvFirst
    <3>1. End(t) /\ own[t] = {}
      BY <1>2, <1>4, <2>3 DEF RecvRef
    <3>2. ThreadTypes' /\ OthersKeep(t) /\ ThreadOK(t)' /\ pc'[t] = "idle" /\ slot'[t] = NoSlot
      BY <1>1, <2>1, <3>1, EndStep DEF ThreadTypes
    <3>3. TypeInv'
      BY <1>1, <2>1, <3>2 DEF IInv, TypeInv, SessionTypes, ServerTypes, sendVars, poolVars, appVars
    <3> QED BY <1>1, <2>1, <3>1, <3>2, <3>3, EndIsQuiet
  <2> QED BY <2>2, <2>3
<1> QED BY <1>3, <1>4

(* The thread that was to post the receive of a session did so, or gave up. *)
LEMMA ReceiverLeaves ==
  ASSUME IInv, NEW t \in Threads, OthersKeep(t), slot[t] \in Slots,
         Receiving(t), ~Receiving(t)',
         \A s \in Slots \ {slot[t]} : recv'[s] = recv[s]
  PROVE  RecvInv'
<1>1. \A u \in Threads : Receiving(u)' => u # t /\ Receiving(u) /\ slot'[u] = slot[u]
  BY DEF OthersKeep, Receiving
<1>2. \A u \in Threads \ {t} : Receiving(u) => slot[u] \in Slots /\ slot[u] # slot[t]
  BY ThreadFacts DEF IInv, RecvInv
<1> QED BY <1>1, <1>2 DEF IInv, RecvInv

(* The reference of the receiver passes to the I/O, or stays with it.       *)
LEMMA WsaRecvIInv ==
  ASSUME IInv, NEW t \in Threads, WsaRecv(t)
  PROVE  IInv'
<1>1. /\ ThreadOK(t) /\ ThreadTypes /\ pc[t] = "wsaRecv" /\ slot[t] \in Slots /\ Acceptor \in Threads
      /\ UNCHANGED <<ctlVars, idVars, send, posted, sendVars, poolVars, appVars, zero>>
  BY ThreadFacts DEF IInv, ThreadInv, WsaRecv, TypeInv
<1>2. \/ own[t] = {"io"} /\ op[t] = "Accept" /\ t = Acceptor
      \/ own[t] = {"call", "io"} /\ op[t] = "Recv" /\ t # Acceptor
  BY <1>1, ThreadAssumption DEF ThreadOK, Serves, Owns, Base, CleanupLabels, InCleanup
<1>3. Solid(t) /\ Receiving(t)
  BY <1>1, <1>2 DEF Solid, Receiving
<1>4. UNCHANGED <<ioCount, release, cleanup, id, send, sendFlag, free, nextUnique, joined>>
  BY <1>1 DEF ctlVars, idVars, sendVars, poolVars, appVars
<1>5. CASE /\ recv' = [recv EXCEPT ![slot[t]] = "pending"] /\ own' = [own EXCEPT ![t] = @ \ {"io"}]
           /\ IF op[t] = "Recv" THEN Goto(t, "dropCall") /\ UNCHANGED ctxVars
              ELSE IF RecvFirst THEN Goto(t, "join") /\ UNCHANGED ctxVars
              ELSE End(t)
  <2>1. /\ own' \in [Threads -> SUBSET {"call", "io"}] /\ own'[t] = own[t] \ {"io"}
        /\ \A u \in Threads \ {t} : own'[u] = own[u]
    BY <1>1, <1>5, OwnStep
  <2>2. /\ ThreadTypes' /\ OthersKeep(t) /\ ThreadOK(t)'
        /\ \/ pc'[t] = "dropCall" /\ slot'[t] = slot[t] /\ own'[t] = {"call"} /\ t # Acceptor
           \/ pc'[t] = "join" /\ RecvFirst /\ slot'[t] = slot[t] /\ own'[t] = {} /\ t = Acceptor
           \/ pc'[t] = "idle" /\ slot'[t] = NoSlot /\ own'[t] = {} /\ t = Acceptor
    <3>1. CASE op[t] = "Recv" \/ RecvFirst
      <4>1. PICK l \in {"dropCall", "join"} :
               /\ Goto(t, l) /\ UNCHANGED ctxVars
               /\ (l = "dropCall" => op[t] = "Recv") /\ (l = "join" => op[t] = "Accept" /\ RecvFirst)
        BY <1>2, <1>5, <3>1
      <4>2. /\ ThreadTypes' /\ OthersKeep(t) /\ pc'[t] = l
            /\ op' = op /\ arg' = arg /\ slot' = slot /\ pkt' = pkt
        <5>1. l \in Labels BY DEF Labels
        <5> QED BY <1>1, <2>1, <4>1, <5>1, GotoStep DEF ThreadTypes
      <4>3. ThreadOK(t)'
        BY <1>1, <1>2, <1>4, <2>1, <4>1, <4>2
           DEF ThreadOK, Serves, Owns, Base, Known, CleanupLabels, InCleanup
      <4> QED BY <1>2, <2>1, <4>1, <4>2, <4>3
    <3>2. CASE op[t] # "Recv" /\ ~RecvFirst
      <4>1. End(t) /\ own'[t] = {} /\ t = Acceptor
        BY <1>2, <1>5, <2>1, <3>2
      <4>2. ThreadTypes' /\ OthersKeep(t) /\ ThreadOK(t)' /\ pc'[t] = "idle" /\ slot'[t] = NoSlot
        BY <1>1, <2>1, <4>1, EndStep DEF ThreadTypes
      <4> QED BY <4>1, <4>2
    <3> QED BY <3>1, <3>2
  <2>3. recv' \in [Slots -> Outcomes] /\ recv'[slot[t]] = "pending"
        /\ \A s \in Slots \ {slot[t]} : recv'[s] = recv[s]
    BY <1>1, <1>5 DEF IInv, TypeInv, SessionTypes, Outcomes
  <2>4. TypeInv'
    BY <1>1, <2>2, <2>3 DEF IInv, TypeInv, SessionTypes, ServerTypes, ctlVars, idVars, sendVars,
                            poolVars, appVars
  <2>5. /\ ~Solid(t)' /\ ~Receiving(t)' /\ ~Sending(t)' /\ pc'[t] \notin InCleanup
        /\ slot'[t] = slot[t] \/ slot'[t] \notin free
    <3>1. ~Solid(t)' /\ ~Receiving(t)' /\ ~Sending(t)' /\ pc'[t] \notin InCleanup
      BY <2>2 DEF Solid, Receiving, Sending, InCleanup
    <3>2. NoSlot \notin free
      BY ConstantAssumption DEF IInv, TypeInv, ServerTypes
    <3> QED BY <2>2, <3>1, <3>2
  <2>6. Preparing' => Preparing /\ slot'[Acceptor] = slot[Acceptor]
    BY <1>1, <2>2 DEF Preparing, OthersKeep
  <2>7. ThreadInv' /\ FreshIds' /\ SlotInv' /\ CleanerInv' /\ SolidInv' /\ PrepareInv'
    BY <1>1, <1>3, <1>4, <2>2, <2>3, <2>4, <2>5, <2>6, ControlStep
  <2>8. SendInv' /\ RecvInv'
    BY <1>1, <1>3, <1>4, <2>2, <2>3, <2>4, <2>5, SameSender, ReceiverLeaves
  <2>9. RefCountExact' /\ ReferencedIsLive'
    <3>1. recv[slot[t]] = "none"
      BY <1>3 DEF IInv, RecvInv
    <3> QED BY <1>1, <1>2, <1>4, <2>1, <2>2, <2>3, <2>4, <3>1, HandOver
  <2> QED BY <2>4, <2>7, <2>8, <2>9 DEF IInv
<1>6. CASE Goto(t, "setRelease") /\ UNCHANGED <<recv, own, ctxVars>>
  <2>1. /\ ThreadTypes' /\ OthersKeep(t) /\ pc'[t] = "setRelease"
        /\ op' = op /\ arg' = arg /\ slot' = slot /\ pkt' = pkt
    <3>1. "setRelease" \in Labels BY DEF Labels
    <3> QED BY <1>1, <1>6, <3>1, GotoStep DEF ThreadTypes
  <2>2. TypeInv'
    BY <1>1, <1>6, <2>1 DEF IInv, TypeInv, SessionTypes, ServerTypes, ctlVars, idVars, sendVars,
                            poolVars, appVars
  <2>3. ThreadOK(t)'
    BY <1>1, <1>2, <1>4, <1>6, <2>1
       DEF ThreadOK, Serves, Owns, Base, Known, CleanupLabels, InCleanup
  <2>4. ~Sending(t)' /\ ~Receiving(t)' /\ pc'[t] \notin InCleanup
    BY <1>2, <2>1 DEF Sending, Receiving, InCleanup
  <2>5. Preparing' => Preparing /\ slot'[Acceptor] = slot[Acceptor]
    BY <1>1, <1>2, <1>6, <2>1 DEF Preparing, OthersKeep
  <2> QED BY <1>1, <1>3, <1>4, <1>6, <2>1, <2>2, <2>3, <2>4, <2>5, QuietStep
<1> QED BY <1>5, <1>6 DEF WsaRecv

-----------------------------------------------------------------------------
(* requestRelease and decreaseSessionIoCount.                              *)

(* Where a thread that asked for a release goes: to the references it owns. *)
LEMMA AfterReleaseStep ==
  ASSUME IInv, NEW t \in Threads, pc[t] \in {"setRelease", "cancel"}, AfterRelease(t),
         UNCHANGED <<own, joined>>, zero' \in [Threads -> BOOLEAN]
  PROVE  /\ ThreadTypes' /\ OthersKeep(t) /\ ThreadOK(t)' /\ slot[t] \in Slots
         /\ \/ own[t] = {} /\ pc'[t] = "idle" /\ slot'[t] = NoSlot
            \/ /\ own[t] # {} /\ pc'[t] \in {"dropIo", "dropCall"}
               /\ (pc'[t] = "dropIo" => "io" \in own[t])
               /\ slot'[t] = slot[t] /\ op'[t] = op[t] /\ arg'[t] = arg[t]
<1>1. /\ ThreadOK(t) /\ ThreadTypes /\ slot[t] \in Slots /\ own[t] \in SUBSET {"call", "io"}
      /\ own' \in [Threads -> SUBSET {"call", "io"}]
  BY ThreadFacts DEF IInv, ThreadInv, TypeInv, ThreadTypes
<1>2. CASE own[t] = {}
  <2>1. End(t)
    BY <1>2 DEF AfterRelease
  <2> QED BY <1>1, <1>2, <2>1, EndStep
<1>3. CASE own[t] # {}
  <2>1. PICK l \in {"dropIo", "dropCall"} :
           Goto(t, l) /\ UNCHANGED ctxVars /\ (l = "dropIo" <=> "io" \in own[t])
    BY <1>3 DEF AfterRelease
  <2>2. /\ ThreadTypes' /\ OthersKeep(t) /\ pc'[t] = l
        /\ op' = op /\ arg' = arg /\ slot' = slot /\ pkt' = pkt
    <3>1. l \in Labels BY DEF Labels
    <3> QED BY <1>1, <2>1, <3>1, GotoStep
  <2>3. ThreadOK(t)'
    <3>1. own[t] = IF l = "dropIo" THEN Base(t) \cup {"io"} ELSE Base(t)
      BY <1>1, <1>3, <2>1 DEF ThreadOK, Owns, Base
    <3>2. Serves(t)'
      BY <1>1, <1>3, <2>2, <3>1 DEF ThreadOK, Serves, Owns, Base, CleanupLabels, InCleanup
    <3>3. Owns(t)'
      BY <2>2, <3>1 DEF Owns, Base, CleanupLabels, InCleanup
    <3> QED BY <1>1, <2>2, <3>2, <3>3 DEF ThreadOK, Known
  <2> QED BY <1>1, <1>3, <2>1, <2>2, <2>3
<1> QED BY <1>2, <1>3

(* Sending and receiving survive it only as they were. *)
LEMMA AfterReleaseQuiet ==
  ASSUME IInv, NEW t \in Threads, pc[t] \in {"setRelease", "cancel"}, AfterRelease(t),
         UNCHANGED <<own, joined>>, zero' \in [Threads -> BOOLEAN]
  PROVE  /\ Solid(t)' => Solid(t) /\ slot'[t] = slot[t] /\ op'[t] = op[t] /\ arg'[t] = arg[t]
         /\ Sending(t)' => Sending(t) /\ slot'[t] = slot[t]
         /\ ~Receiving(t)' /\ pc'[t] \notin InCleanup /\ (t = Acceptor => ~Preparing')
         /\ (t # Acceptor => (Preparing' <=> Preparing) /\ slot'[Acceptor] = slot[Acceptor])
         /\ own[t] # {} => slot'[t] = slot[t]
         /\ slot'[t] = slot[t] \/ slot'[t] \notin free
<1>1. /\ OthersKeep(t) /\ Acceptor \in Threads /\ slot[t] \in Slots /\ NoSlot \notin free
      /\ \/ own[t] = {} /\ pc'[t] = "idle" /\ slot'[t] = NoSlot
         \/ /\ own[t] # {} /\ pc'[t] \in {"dropIo", "dropCall"}
            /\ (pc'[t] = "dropIo" => "io" \in own[t])
            /\ slot'[t] = slot[t] /\ op'[t] = op[t] /\ arg'[t] = arg[t]
  BY AfterReleaseStep, ThreadFacts, ConstantAssumption DEF IInv, TypeInv, ServerTypes
<1>2. /\ Solid(t)' => Solid(t) /\ slot'[t] = slot[t] /\ op'[t] = op[t] /\ arg'[t] = arg[t]
      /\ Sending(t)' => Sending(t) /\ slot'[t] = slot[t]
      /\ ~Receiving(t)' /\ pc'[t] \notin InCleanup
  BY <1>1 DEF Solid, Sending, Receiving, InCleanup
<1>3. t = Acceptor => ~Preparing'
  BY <1>1 DEF Preparing
<1> QED BY <1>1, <1>2, <1>3, NotAcceptor

(* FLAG_RELEASE is set on a session that is neither free nor in preparation  *)
(* by anyone else.                                                          *)
LEMMA SetReleaseIInv ==
  ASSUME IInv, NEW t \in Threads, SetRelease(t)
  PROVE  IInv'
<1> DEFINE s == slot[t]
<1>1. /\ ThreadOK(t) /\ ThreadTypes /\ pc[t] = "setRelease" /\ s \in Slots /\ Acceptor \in Threads
      /\ UNCHANGED <<ioCount, cleanup, idVars, recv, send, posted, sendVars, poolVars, appVars, own>>
  BY ThreadFacts DEF IInv, ThreadInv, SetRelease, TypeInv
<1>2. UNCHANGED <<ioCount, cleanup, id, recv, send, sendFlag, free, nextUnique, joined>>
  BY <1>1 DEF idVars, sendVars, poolVars, appVars
<1>3. CASE release[s]
  <2>1. AfterRelease(t) /\ UNCHANGED <<release, zero>>
    BY <1>3 DEF SetRelease
  <2>2. zero' \in [Threads -> BOOLEAN] /\ UNCHANGED <<own, joined>>
    BY <1>1, <1>2, <2>1 DEF ThreadTypes
  <2>3. ThreadTypes' /\ OthersKeep(t) /\ ThreadOK(t)'
    BY <1>1, <2>1, <2>2, AfterReleaseStep
  <2>4. TypeInv'
    BY <1>1, <2>1, <2>3 DEF IInv, TypeInv, SessionTypes, ServerTypes, idVars, sendVars,
                            poolVars, appVars
  <2>5. own[t] = {} => slot'[t] \notin free \/ slot'[t] = slot[t]
    BY <1>1, <2>1, <2>2, AfterReleaseQuiet
  <2> QED
    BY <1>1, <1>2, <2>1, <2>2, <2>3, <2>4, <2>5, AfterReleaseQuiet, QuietStep
<1>4. CASE ~release[s]
  <2>1. /\ release' = [release EXCEPT ![s] = TRUE] /\ zero' = [zero EXCEPT ![t] = ioCount[s] = 0]
        /\ Goto(t, "cancel") /\ UNCHANGED ctxVars
    BY <1>4 DEF SetRelease
  <2>2. /\ ThreadTypes' /\ OthersKeep(t) /\ pc'[t] = "cancel"
        /\ op' = op /\ arg' = arg /\ slot' = slot /\ pkt' = pkt
    <3>1. "cancel" \in Labels BY DEF Labels
    <3>2. zero' \in [Threads -> BOOLEAN]
      BY <1>1, <2>1 DEF ThreadTypes
    <3> QED BY <1>1, <2>1, <3>1, <3>2, GotoStep DEF ThreadTypes
  <2>3. release' \in [Slots -> BOOLEAN] /\ release'[s]
        /\ \A x \in Slots \ {s} : release'[x] = release[x]
    BY <1>1, <2>1 DEF IInv, TypeInv, SessionTypes
  <2>4. TypeInv'
    BY <1>1, <2>2, <2>3 DEF IInv, TypeInv, SessionTypes, ServerTypes, idVars, sendVars,
                            poolVars, appVars
  <2>5. ThreadOK(t)'
    <3>1. Owns(t)'
      BY <1>1, <2>2 DEF ThreadOK, Owns, Base, CleanupLabels, InCleanup
    <3>2. Serves(t)'
      BY <1>1, <2>2 DEF ThreadOK, Serves, CleanupLabels, InCleanup
    <3> QED BY <1>1, <1>2, <2>2, <3>1, <3>2 DEF ThreadOK, Known
  <2>6. ThreadInv'
    BY <1>2, <2>2, <2>5, ThreadFrame DEF IInv
  <2>7. /\ Solid(t)' => Solid(t) /\ slot'[t] = slot[t] /\ op'[t] = op[t] /\ arg'[t] = arg[t]
        /\ Sending(t)' => Sending(t) /\ slot'[t] = slot[t]
        /\ ~Receiving(t)' /\ pc'[t] \notin InCleanup
    BY <1>1, <2>2 DEF Solid, Sending, Receiving, InCleanup
  <2>8. s \notin free
    <3>1. CASE own[t] # {}
      BY <1>1, <3>1, OwnedIsLive DEF IInv
    <3>2. CASE own[t] = {}
      <4>1. op[t] = "Accept" /\ t = Acceptor
        BY <1>1, <3>2 DEF ThreadOK, Serves, Owns, Base, CleanupLabels, InCleanup
      <4> QED BY <1>1, <3>2, <4>1 DEF IInv, PrepareInv, Preparing
    <3> QED BY <3>1, <3>2
  <2>9. FreshIds'
    BY <1>2 DEF IInv, FreshIds, Known
  <2>10. SlotInv'
    <3>1. \A x \in Slots : cleanup'[x] => release'[x]
      BY <1>2, <2>3 DEF IInv, SlotInv
    <3>2. \A x \in Slots : x \in free' => id'[x] = NoId /\ (release'[x] => cleanup'[x])
      BY <1>2, <2>3, <2>8 DEF IInv, SlotInv
    <3>3. \A x \in Slots : x \in free' /\ ~release'[x] =>
             \A u \in Threads : slot'[u] = x => pc'[u] = "cleanup"
      BY <1>1, <1>2, <2>2, <2>3, <2>8 DEF IInv, SlotInv, OthersKeep
    <3>4. \A x \in Slots : id'[x] = NoId =>
             \/ x \in free'
             \/ slot'[Acceptor] = x /\ pc'[Acceptor] = "assignId"
             \/ cleanup'[x]
      <4>1. pc[Acceptor] = "assignId" => pc'[Acceptor] = "assignId"
        BY <1>1, <2>2 DEF OthersKeep
      <4>2. \A x \in Slots : id[x] = NoId =>
               \/ x \in free
               \/ slot[Acceptor] = x /\ pc[Acceptor] = "assignId"
               \/ cleanup[x]
        BY DEF IInv, SlotInv
      <4> QED BY <1>2, <2>2, <4>1, <4>2
    <3> QED BY <3>1, <3>2, <3>3, <3>4 DEF SlotInv
  <2>11. CleanerInv'
    BY <1>2, <2>2, <2>7, CleanerFrame DEF IInv
  <2>12. SolidInv'
    <3>1. Solid(t)' => /\ id[slot'[t]] # NoId
                       /\ op'[t] \in {"DisConnect", "SendPacket"} => id[slot'[t]] = arg'[t]
      BY <2>7 DEF IInv, SolidInv
    <3> QED BY <1>2, <2>2, <3>1, SolidFrame DEF IInv
  <2>13. PrepareInv'
    <3>1. Preparing' => t # Acceptor /\ Preparing /\ slot'[Acceptor] = slot[Acceptor]
      BY <1>1, <2>2, NotAcceptor DEF Preparing
    <3>2. t # Acceptor => Solid(t)
      <4>1. t # Acceptor => op[t] # "Accept"
        BY <1>1 DEF ThreadOK, Serves, CleanupLabels, InCleanup
      <4>2. t # Acceptor => own[t] # {}
        BY <1>1, <4>1 DEF ThreadOK, Owns, Base
      <4> QED BY <1>1, <4>2 DEF Solid
    <3>3. Preparing' => s # slot[Acceptor] /\ slot[Acceptor] \in Slots
      <4>1. Preparing => slot[Acceptor] \in Slots
        BY <1>1, ThreadFacts DEF IInv, Preparing
      <4> QED BY <3>1, <3>2, <4>1 DEF IInv, PrepareInv
    <3>4. Preparing' => \A u \in Threads : slot'[u] = slot[Acceptor] => ~Solid(u)'
      <4>1. \A u \in Threads : Solid(u)' => Solid(u) /\ slot'[u] = slot[u]
        BY <2>2, <2>7 DEF OthersKeep, Solid
      <4> QED BY <3>1, <4>1 DEF IInv, PrepareInv
    <3>5. Preparing' => /\ slot[Acceptor] \notin free' /\ ~release'[slot[Acceptor]]
                        /\ id'[slot[Acceptor]] \notin Known'
                        /\ recv'[slot[Acceptor]] = "none" /\ send'[slot[Acceptor]] = "none"
      BY <1>2, <2>3, <3>1, <3>3 DEF IInv, PrepareInv, Known
    <3> QED BY <3>1, <3>4, <3>5 DEF PrepareInv
  <2>14. SendInv' /\ RecvInv'
    BY <1>2, <2>2, <2>4, <2>7, SameSender, SameReceiver
  <2>15. RefCountExact' /\ ReferencedIsLive'
    BY <1>1, <1>2, <2>2, CountFrame, OwnedIsLive, LiveFrame DEF IInv
  <2> QED BY <2>4, <2>6, <2>9, <2>10, <2>11, <2>12, <2>13, <2>14, <2>15 DEF IInv
<1> QED BY <1>3, <1>4

(* CancelIoEx changes the outcome of the I/Os in the kernel, not their       *)
(* number.                                                                  *)
LEMMA CancelIInv ==
  ASSUME IInv, NEW t \in Threads, Cancel(t)
  PROVE  IInv'
<1> DEFINE s == slot[t]
<1>1. /\ ThreadTypes /\ pc[t] = "cancel" /\ s \in Slots /\ AfterRelease(t)
      /\ UNCHANGED <<ctlVars, idVars, sendVars, poolVars, appVars, own>>
      /\ zero' = [zero EXCEPT ![t] = FALSE] /\ posted' = ReleasePosts(t, s)
      /\ recv' = (IF socket[s] THEN [recv EXCEPT ![s] = Cancelled(@)] ELSE recv)
      /\ send' = (IF socket[s] THEN [send EXCEPT ![s] = Cancelled(@)] ELSE send)
  BY ThreadFacts DEF IInv, Cancel, TypeInv
<1>2. UNCHANGED <<ioCount, release, cleanup, id, sendFlag, free, nextUnique, joined>>
  BY <1>1 DEF ctlVars, idVars, sendVars, poolVars, appVars
<1>3. zero' \in [Threads -> BOOLEAN] /\ UNCHANGED <<own, joined>>
  BY <1>1, <1>2 DEF ThreadTypes
<1>4. ThreadTypes' /\ OthersKeep(t) /\ ThreadOK(t)'
  BY <1>1, <1>3, AfterReleaseStep
<1>5. /\ recv' \in [Slots -> Outcomes] /\ \A x \in Slots : recv'[x] = "none" <=> recv[x] = "none"
  BY <1>1 DEF IInv, TypeInv, SessionTypes, Outcomes, Cancelled
<1>6. /\ send' \in [Slots -> Outcomes \ {"fin"}]
      /\ \A x \in Slots : send'[x] = "none" <=> send[x] = "none"
  BY <1>1 DEF IInv, TypeInv, SessionTypes, Outcomes, Cancelled
<1>7. posted' \in [Slots -> Nat]
  BY <1>1 DEF IInv, TypeInv, SessionTypes, ReleasePosts
<1>8. TypeInv'
  BY <1>1, <1>4, <1>5, <1>6, <1>7 DEF IInv, TypeInv, SessionTypes, ServerTypes, ctlVars, idVars,
                                      sendVars, poolVars, appVars
<1>9. own[t] = {} => slot'[t] \notin free \/ slot'[t] = slot[t]
  BY <1>1, <1>3, AfterReleaseQuiet
<1> QED
  BY <1>1, <1>2, <1>3, <1>4, <1>5, <1>6, <1>8, <1>9, AfterReleaseQuiet, QuietStep

(* A failed start of an I/O gives back the reference taken for it. *)
LEMMA DropIoIInv ==
  ASSUME IInv, NEW t \in Threads, DropIo(t)
  PROVE  IInv'
<1>1. /\ ThreadOK(t) /\ ThreadTypes /\ pc[t] = "dropIo" /\ slot[t] \in Slots
      /\ own[t] = Base(t) \cup {"io"} /\ DropRef(t, slot[t], "io")
      /\ UNCHANGED <<idVars, recv, send, sendVars, poolVars, appVars, zero>>
  BY ThreadFacts DEF IInv, ThreadInv, ThreadOK, Owns, DropIo, TypeInv
<1>2. op[t] \in {"Accept", "SendPacket", "Send", "Recv"}
  BY <1>1 DEF ThreadOK, Serves, CleanupLabels, InCleanup
<1>3. /\ own' \in [Threads -> SUBSET {"call", "io"}] /\ own'[t] = own[t] \ {"io"}
      /\ \A u \in Threads \ {t} : own'[u] = own[u]
  BY <1>1, OwnStep DEF DropRef
<1>4. own'[t] = Base(t)
  BY <1>1, <1>3 DEF Base
<1>5. /\ ioCount' = [ioCount EXCEPT ![slot[t]] = @ - 1]
      /\ UNCHANGED <<release, cleanup, id, recv, send, sendFlag, free, nextUnique, joined>>
  BY <1>1 DEF DropRef, idVars, sendVars, poolVars, appVars
<1>6. /\ ThreadTypes' /\ OthersKeep(t) /\ ThreadOK(t)'
      /\ \/ slot'[t] = slot[t] /\ op'[t] = op[t] /\ arg'[t] = arg[t]
         \/ own'[t] = {} /\ slot'[t] = NoSlot /\ pc'[t] = "idle"
      /\ \/ pc'[t] = "clearFlag" /\ op[t] \in {"SendPacket", "Send"}
         \/ pc'[t] = "setRelease" /\ op[t] = "Recv"
         \/ pc'[t] = "join" /\ RecvFirst
         \/ pc'[t] = "idle"
  <2>1. CASE op[t] # "Accept" \/ RecvFirst
    <3>1. PICK l \in {"clearFlag", "setRelease", "join"} :
             /\ Goto(t, l) /\ UNCHANGED ctxVars
             /\ (l = "clearFlag" => op[t] \in {"SendPacket", "Send"})
             /\ (l = "setRelease" => op[t] = "Recv")
             /\ (l = "join" => RecvFirst /\ op[t] = "Accept")
      BY <1>2, <2>1 DEF DropIo
    <3>2. /\ ThreadTypes' /\ OthersKeep(t) /\ pc'[t] = l
          /\ op' = op /\ arg' = arg /\ slot' = slot /\ pkt' = pkt
      <4>1. l \in Labels BY DEF Labels
      <4> QED BY <1>1, <1>3, <3>1, <4>1, GotoStep DEF ThreadTypes
    <3>3. Serves(t)'
      BY <1>1, <3>1, <3>2 DEF ThreadOK, Serves, CleanupLabels, InCleanup
    <3>4. Owns(t)'
      BY <1>4, <3>1, <3>2 DEF Owns, Base, CleanupLabels, InCleanup
    <3>5. ThreadOK(t)'
      BY <1>1, <1>5, <3>2, <3>3, <3>4 DEF ThreadOK, Known
    <3> QED BY <3>1, <3>2, <3>5
  <2>2. CASE op[t] = "Accept" /\ ~RecvFirst
    <3>1. End(t) /\ own'[t] = {}
      BY <1>4, <2>2 DEF DropIo, Base
    <3> QED BY <1>1, <1>3, <3>1, EndStep DEF ThreadTypes
  <2> QED BY <2>1, <2>2
<1>7. TypeInv'
  <2>1. ioCount' \in [Slots -> Int] /\ posted' \in [Slots -> Nat]
    BY <1>1, <1>5 DEF IInv, TypeInv, SessionTypes, DropRef
  <2> QED
    BY <1>1, <1>5, <1>6, <2>1 DEF IInv, TypeInv, SessionTypes, ServerTypes, idVars, sendVars,
                                  poolVars, appVars
<1>8. "io" \in own[t]
  BY <1>1
<1> QED BY <1>1, <1>3, <1>5, <1>6, <1>7, <1>8, DropRefStep

(* A thread gives its last reference back and is idle.                      *)
LEMMA DropCallIInv ==
  ASSUME IInv, NEW t \in Threads, DropCall(t)
  PROVE  IInv'
<1>1. /\ ThreadOK(t) /\ ThreadTypes /\ pc[t] = "dropCall" /\ slot[t] \in Slots
      /\ own[t] = Base(t) /\ DropRef(t, slot[t], "call") /\ End(t)
      /\ UNCHANGED <<idVars, recv, send, sendVars, poolVars, appVars, zero>>
  BY ThreadFacts DEF IInv, ThreadInv, ThreadOK, Owns, DropCall, TypeInv
<1>2. own[t] = {"call"}
  BY <1>1 DEF ThreadOK, Serves, Base, CleanupLabels, InCleanup
<1>3. /\ own' \in [Threads -> SUBSET {"call", "io"}] /\ own'[t] = own[t] \ {"call"}
      /\ \A u \in Threads \ {t} : own'[u] = own[u]
  BY <1>1, OwnStep DEF DropRef
<1>4. own'[t] = {}
  BY <1>2, <1>3
<1>5. /\ ioCount' = [ioCount EXCEPT ![slot[t]] = @ - 1]
      /\ UNCHANGED <<release, cleanup, id, recv, send, sendFlag, free, nextUnique, joined>>
  BY <1>1 DEF DropRef, idVars, sendVars, poolVars, appVars
<1>6. /\ ThreadTypes' /\ OthersKeep(t) /\ ThreadOK(t)' /\ pc'[t] = "idle" /\ slot'[t] = NoSlot
  BY <1>1, <1>3, <1>4, EndStep DEF ThreadTypes
<1>7. TypeInv'
  <2>1. ioCount' \in [Slots -> Int] /\ posted' \in [Slots -> Nat]
    BY <1>1, <1>5 DEF IInv, TypeInv, SessionTypes, DropRef
  <2> QED
    BY <1>1, <1>5, <1>6, <2>1 DEF IInv, TypeInv, SessionTypes, ServerTypes, idVars, sendVars,
                                  poolVars, appVars
<1> QED BY <1>1, <1>2, <1>3, <1>4, <1>5, <1>6, <1>7, DropRefStep

-----------------------------------------------------------------------------
(* workerThread: completions.                                              *)

(* The reference of an I/O passes to the worker that took its completion.   *)
LEMMA CompletionStep ==
  ASSUME IInv, NEW w \in Workers, NEW s \in Slots, NEW o \in {"Failed", "Recv", "Send"},
         NEW l \in {"setRelease", "recvRef", "resetFlag"}, Completion(w, s, o, l),
         \/ o = "Failed" /\ l = "setRelease"
         \/ o = "Recv" /\ l \in {"setRelease", "recvRef"}
         \/ o = "Send" /\ l = "resetFlag",
         SessionTypes', ServerTypes',
         UNCHANGED <<ioCount, release, cleanup, id, sendFlag, free, nextUnique, joined, zero>>,
         \/ recv[s] # "none" /\ recv' = [recv EXCEPT ![s] = "none"] /\ send' = send /\ o # "Send"
         \/ /\ send[s] # "none" /\ send' = [send EXCEPT ![s] = "none"] /\ recv' = recv
            /\ o # "Recv"
  PROVE  IInv'
<1>1. /\ w \in Threads /\ w # Acceptor /\ ThreadOK(w) /\ ThreadTypes /\ pc[w] = "idle"
      /\ Acceptor \in Threads
  BY ThreadAssumption DEF IInv, ThreadInv, Completion, TypeInv, Threads
<1>2. own[w] = {} /\ slot[w] = NoSlot
  BY <1>1 DEF ThreadOK, Owns
<1>3. /\ own' \in [Threads -> SUBSET {"call", "io"}] /\ own'[w] = {"call"}
      /\ \A u \in Threads \ {w} : own'[u] = own[u]
  BY <1>1, OwnStep DEF Completion
<1>4. /\ ThreadTypes' /\ OthersKeep(w) /\ pc'[w] = l /\ op'[w] = o /\ slot'[w] = s
  <2>1. o \in Ops /\ l \in Labels BY DEF Ops, Labels
  <2>2. Begin(w, o, NoId, s, NoPacket, l) /\ zero' \in [Threads -> BOOLEAN]
    BY <1>1 DEF Completion, ThreadTypes
  <2>3. NoId \in Ids \cup {NoId} /\ s \in Slots \cup {NoSlot} /\ NoPacket \in Packets \cup {NoPacket}
    OBVIOUS
  <2> QED BY <1>1, <1>3, <2>1, <2>2, <2>3, BeginStep
<1>5. TypeInv'
  BY <1>4 DEF TypeInv
<1>6. ThreadOK(w)'
  BY <1>1, <1>3, <1>4, ConstantAssumption
     DEF ThreadOK, Serves, Owns, Base, CleanupLabels, InCleanup
<1>7. s \notin free /\ ~cleanup[s] /\ id[s] # NoId /\ (Preparing => s # slot[Acceptor])
  BY DEF IInv, ReferencedIsLive, SolidInv, PrepareInv
<1>8. /\ \A x \in Slots : recv'[x] # "none" => recv[x] # "none"
      /\ \A x \in Slots : send'[x] # "none" => send[x] # "none"
      /\ \A x \in Slots \ {s} : recv'[x] = recv[x] /\ send'[x] = send[x]
      /\ \/ recv[s] # "none" /\ recv'[s] = "none" /\ send'[s] = send[s] /\ o # "Send"
         \/ send[s] # "none" /\ send'[s] = "none" /\ recv'[s] = recv[s] /\ o # "Recv"
  BY DEF IInv, TypeInv, SessionTypes
<1>9. ThreadInv' /\ FreshIds' /\ SlotInv' /\ CleanerInv' /\ SolidInv' /\ PrepareInv'
  <2>1. pc'[w] \notin InCleanup
    BY <1>4 DEF InCleanup
  <2> QED
    BY <1>1, <1>4, <1>5, <1>6, <1>7, <1>8, <2>1, NotAcceptor, ControlStep
<1>10. SendInv'
  <2>1. Sending(w)' => o = "Send"
    BY <1>3, <1>4 DEF Sending
  <2>2. CASE o = "Send"
    <3>1. send[s] # "none" /\ send'[s] = "none" /\ sendFlag[s] = 1
      BY <1>8, <2>2 DEF IInv, SendInv, TypeInv, SessionTypes
    <3>2. \A u \in Threads \ {w} : Sending(u)' =>
             Sending(u) /\ slot'[u] = slot[u] /\ slot[u] # s /\ slot[u] \in Slots
      BY <1>4, <3>1, ThreadFacts DEF OthersKeep, Sending, IInv, SendInv
    <3>3. \A x \in Slots : send'[x] # "none" => send[x] # "none"
      BY <1>8
    <3> QED BY <1>4, <1>8, <3>1, <3>2, <3>3 DEF IInv, SendInv
  <2>3. CASE o # "Send"
    <3>1. \A u \in Threads : Sending(u)' =>
             u # w /\ Sending(u) /\ slot'[u] = slot[u] /\ slot[u] \in Slots
      BY <1>4, <2>1, <2>3, ThreadFacts DEF OthersKeep, Sending, IInv
    <3> QED BY <1>8, <3>1 DEF IInv, SendInv
  <2> QED BY <2>2, <2>3
<1>11. RecvInv'
  <2>1. Receiving(w)' => o = "Recv"
    BY <1>4 DEF Receiving
  <2>2. CASE o = "Recv"
    <3>1. recv[s] # "none" /\ recv'[s] = "none"
      BY <1>8, <2>2 DEF IInv, TypeInv, SessionTypes
    <3>2. \A u \in Threads \ {w} : Receiving(u)' =>
             Receiving(u) /\ slot'[u] = slot[u] /\ slot[u] # s /\ slot[u] \in Slots
      BY <1>4, <3>1, ThreadFacts DEF OthersKeep, Receiving, IInv, RecvInv
    <3> QED BY <1>4, <1>8, <3>1, <3>2 DEF IInv, RecvInv
  <2>3. CASE o # "Recv"
    <3>1. \A u \in Threads : Receiving(u)' =>
             u # w /\ Receiving(u) /\ slot'[u] = slot[u] /\ slot[u] \in Slots
      BY <1>4, <2>1, <2>3, ThreadFacts DEF OthersKeep, Receiving, IInv
    <3> QED BY <1>8, <3>1 DEF IInv, RecvInv
  <2> QED BY <2>2, <2>3
<1>12. RefCountExact'
  <2>1. \A x \in Slots : Cardinality(ThreadRefs(x)') =
            Cardinality(ThreadRefs(x)) + (IF x = s THEN 1 ELSE 0)
    BY <1>1, <1>2, <1>3, <1>4, RefsAdded
  <2>2. \A x \in Slots : IoRefs(recv[x])' + IoRefs(send[x])' =
            IoRefs(recv[x]) + IoRefs(send[x]) - (IF x = s THEN 1 ELSE 0)
    BY <1>8 DEF IoRefs
  <2>3. \A x \in Slots : /\ Cardinality(ThreadRefs(x)) \in Nat
                         /\ IoRefs(recv[x]) \in Nat /\ IoRefs(send[x]) \in Nat
                         /\ IoRefs(recv[x])' \in Nat /\ IoRefs(send[x])' \in Nat
    BY RefsFinite DEF IoRefs
  <2> QED BY <2>1, <2>2, <2>3 DEF IInv, RefCountExact
<1>13. ReferencedIsLive'
  BY <1>1, <1>4, <1>7, <1>8, LiveFrame DEF IInv
<1> QED BY <1>5, <1>9, <1>10, <1>11, <1>12, <1>13 DEF IInv

(* A receive that failed or read 0 bytes.                                   *)
LEMMA RecvEndedIInv ==
  ASSUME IInv, NEW w \in Workers, NEW s \in Slots, RecvEnded(w, s)
  PROVE  IInv'
<1>1. /\ recv[s] # "none" /\ recv' = [recv EXCEPT ![s] = "none"]
      /\ Completion(w, s, "Failed", "setRelease")
      /\ UNCHANGED <<ctlVars, idVars, send, posted, sendVars, poolVars, appVars, zero>>
  BY DEF RecvEnded
<1>2. UNCHANGED <<ioCount, release, cleanup, id, sendFlag, free, nextUnique, joined, zero>>
  BY <1>1 DEF ctlVars, idVars, sendVars, poolVars, appVars
<1>3. SessionTypes' /\ ServerTypes'
  BY <1>1 DEF IInv, TypeInv, SessionTypes, ServerTypes, Outcomes, ctlVars, idVars, sendVars,
              poolVars, appVars
<1>4. send' = send
  BY <1>1
<1> QED BY <1>1, <1>2, <1>3, <1>4, CompletionStep

(* A send that failed.                                                      *)
LEMMA SendFailedIInv ==
  ASSUME IInv, NEW w \in Workers, NEW s \in Slots, SendFailed(w, s)
  PROVE  IInv'
<1>1. /\ send[s] # "none" /\ send' = [send EXCEPT ![s] = "none"]
      /\ Completion(w, s, "Failed", "setRelease")
      /\ UNCHANGED <<ctlVars, idVars, recv, posted, sendVars, poolVars, appVars, zero>>
  BY DEF SendFailed
<1>2. UNCHANGED <<ioCount, release, cleanup, id, sendFlag, free, nextUnique, joined, zero>>
  BY <1>1 DEF ctlVars, idVars, sendVars, poolVars, appVars
<1>3. SessionTypes' /\ ServerTypes'
  BY <1>1 DEF IInv, TypeInv, SessionTypes, ServerTypes, Outcomes, ctlVars, idVars, sendVars,
              poolVars, appVars
<1>4. recv' = recv
  BY <1>1
<1> QED BY <1>1, <1>2, <1>3, <1>4, CompletionStep

(* A receive that brought data, well formed or not.                         *)
LEMMA RecvDataIInv ==
  ASSUME IInv, NEW w \in Workers, NEW s \in Slots, RecvData(w, s)
  PROVE  IInv'
<1>1. PICK l \in {"setRelease", "recvRef"} : Completion(w, s, "Recv", l)
  BY DEF RecvData
<1>2. /\ recv[s] # "none" /\ recv' = [recv EXCEPT ![s] = "none"]
      /\ UNCHANGED <<ctlVars, idVars, send, posted, sendVars, poolVars, appVars, zero>>
  BY DEF RecvData
<1>3. UNCHANGED <<ioCount, release, cleanup, id, sendFlag, free, nextUnique, joined, zero>>
  BY <1>2 DEF ctlVars, idVars, sendVars, poolVars, appVars
<1>4. SessionTypes' /\ ServerTypes'
  BY <1>2 DEF IInv, TypeInv, SessionTypes, ServerTypes, Outcomes, ctlVars, idVars, sendVars,
              poolVars, appVars
<1>5. send' = send
  BY <1>2
<1> QED BY <1>1, <1>2, <1>3, <1>4, <1>5, CompletionStep

(* A send that succeeded: its packets lose their references.                *)
LEMMA SendDoneIInv ==
  ASSUME IInv, NEW w \in Workers, NEW s \in Slots, SendDone(w, s)
  PROVE  IInv'
<1>1. /\ send[s] # "none" /\ send' = [send EXCEPT ![s] = "none"]
      /\ SubRefs(sent[s]) /\ sent' = [sent EXCEPT ![s] = <<>>]
      /\ Completion(w, s, "Send", "resetFlag")
      /\ UNCHANGED <<ctlVars, idVars, recv, posted, sendFlag, ring, poolVars, appVars, zero>>
  BY DEF SendDone
<1>2. UNCHANGED <<ioCount, release, cleanup, id, sendFlag, free, nextUnique, joined, zero>>
  BY <1>1 DEF ctlVars, idVars, poolVars, appVars
<1>3. SessionTypes'
  BY <1>1 DEF IInv, TypeInv, SessionTypes, Outcomes, ctlVars, idVars
<1>4. ServerTypes'
  <2>1. pktRef' \in [Packets -> Int]
    BY <1>1, SubRefsType DEF IInv, TypeInv, SessionTypes
  <2> QED BY <1>1, <2>1 DEF IInv, TypeInv, ServerTypes, poolVars, appVars
<1>5. recv' = recv
  BY <1>1
<1> QED BY <1>1, <1>2, <1>3, <1>4, <1>5, CompletionStep

(* A worker takes a RELEASE completion: nothing but the worker changes.     *)
LEMMA ReleaseTakenIInv ==
  ASSUME IInv, NEW w \in Workers, NEW s \in Slots, ReleaseTaken(w, s)
  PROVE  IInv'
<1>1. /\ w \in Threads /\ w # Acceptor /\ ThreadOK(w) /\ ThreadTypes /\ pc[w] = "idle"
      /\ Acceptor \in Threads
  BY ThreadAssumption DEF IInv, ThreadInv, ReleaseTaken, TypeInv, Threads
<1>2. /\ posted[s] > 0 /\ posted' = [posted EXCEPT ![s] = @ - 1]
      /\ Begin(w, "Release", NoId, s, NoPacket, "cleanup")
      /\ UNCHANGED <<ctlVars, idVars, recv, send, sendVars, poolVars, appVars, own, zero>>
  BY DEF ReleaseTaken
<1>3. /\ UNCHANGED <<ioCount, release, cleanup, id, recv, send, sendFlag, free, nextUnique, joined>>
      /\ UNCHANGED <<own, zero>>
  BY <1>2 DEF ctlVars, idVars, sendVars, poolVars, appVars
<1>4. own[w] = {}
  BY <1>1 DEF ThreadOK, Owns
<1>5. /\ ThreadTypes' /\ OthersKeep(w)
      /\ pc'[w] = "cleanup" /\ op'[w] = "Release" /\ slot'[w] = s /\ own'[w] = {}
  <2>1. /\ "Release" \in Ops /\ "cleanup" \in Labels /\ NoId \in Ids \cup {NoId}
        /\ s \in Slots \cup {NoSlot} /\ NoPacket \in Packets \cup {NoPacket}
    BY DEF Ops, Labels
  <2>2. own' \in [Threads -> SUBSET {"call", "io"}] /\ zero' \in [Threads -> BOOLEAN]
    BY <1>1, <1>3 DEF ThreadTypes
  <2>3. ThreadTypes' /\ OthersKeep(w) /\ pc'[w] = "cleanup" /\ op'[w] = "Release" /\ slot'[w] = s
    BY <1>1, <1>2, <1>3, <2>1, <2>2, BeginStep
  <2> QED BY <1>3, <1>4, <2>3
<1>6. TypeInv'
  <2>1. posted' \in [Slots -> Nat]
    BY <1>2 DEF IInv, TypeInv, SessionTypes
  <2> QED BY <1>2, <1>5, <2>1 DEF IInv, TypeInv, SessionTypes, ServerTypes, ctlVars, idVars,
                                  sendVars, poolVars, appVars
<1>7. ThreadOK(w)'
  BY <1>1, <1>5, ConstantAssumption DEF ThreadOK, Serves, Owns, CleanupLabels, InCleanup
<1>8. /\ ~Solid(w)' /\ ~Sending(w)' /\ ~Receiving(w)' /\ pc'[w] \notin InCleanup
  BY <1>5 DEF Solid, Sending, Receiving, InCleanup
<1>9. Preparing' => Preparing /\ slot'[Acceptor] = slot[Acceptor]
  BY <1>1, <1>5, NotAcceptor
<1>10. own'[w] = own[w]
  BY <1>4, <1>5
<1> QED BY <1>1, <1>3, <1>4, <1>5, <1>6, <1>7, <1>8, <1>9, <1>10, QuietStep

-----------------------------------------------------------------------------
(* releaseSession.                                                         *)

(* A session nobody has a reference to: no thread is at work on it.         *)
LEMMA NobodyAtWork ==
  ASSUME IInv, NEW s \in Slots, ThreadRefs(s) = {}, NEW u \in Threads, slot[u] = s
  PROVE  own[u] = {} /\ ~Solid(u) /\ ~Sending(u)
<1>1. own[u] \in SUBSET {"call", "io"} /\ (Sending(u) => own[u] # {})
  BY ThreadFacts DEF IInv
<1>2. own[u] = {}
  <2>1. \A r \in own[u] : <<u, r>> \in ThreadRefs(s)
    BY <1>1 DEF ThreadRefs
  <2> QED BY <2>1
<1> QED BY <1>1, <1>2 DEF Solid

(* What a worker in the clean-up of a session relies on: its own FLAG_CLEANUP *)
(* keeps everybody else away.                                               *)
LEMMA CleaningFacts ==
  ASSUME IInv, NEW w \in Threads, pc[w] \in InCleanup
  PROVE  /\ slot[w] \in Slots /\ slot[w] \notin free /\ cleanup[slot[w]] /\ release[slot[w]]
         /\ ThreadOK(w) /\ own[w] = {} /\ op[w] = "Release" /\ w # Acceptor
         /\ Acceptor \in Threads /\ ThreadTypes
         /\ ThreadRefs(slot[w]) = {} /\ recv[slot[w]] = "none" /\ send[slot[w]] = "none"
         /\ Preparing => slot[Acceptor] # slot[w]
         /\ arg[w] \in Ids /\ arg[w][1] = slot[w]
         /\ \A u \in Threads : pc[u] \in InCleanup /\ slot[u] = slot[w] => u = w
<1>1. pc[w] \in CleanupLabels /\ pc[w] # "idle"
  BY DEF CleanupLabels, InCleanup
<1>2. /\ slot[w] \in Slots /\ own[w] = {} /\ op[w] = "Release" /\ w # Acceptor
      /\ Acceptor \in Threads /\ ThreadOK(w) /\ ThreadTypes
  BY <1>1, ThreadFacts DEF IInv, ThreadInv, TypeInv
<1>3. /\ slot[w] \notin free /\ cleanup[slot[w]] /\ arg[w] \in Ids /\ arg[w][1] = slot[w]
      /\ \A u \in Threads : pc[u] \in InCleanup /\ slot[u] = slot[w] => u = w
  BY DEF IInv, CleanerInv
<1>4. release[slot[w]] /\ (Preparing => slot[Acceptor] # slot[w])
  BY <1>2, <1>3 DEF IInv, SlotInv, PrepareInv
<1>5. ThreadRefs(slot[w]) = {} /\ recv[slot[w]] = "none" /\ send[slot[w]] = "none"
  BY <1>2, <1>3 DEF IInv, ReferencedIsLive
<1> QED BY <1>2, <1>3, <1>4, <1>5

(* A step from one label of the clean-up to the next; the last but one      *)
(* takes the id and the sendFlag of the session away.                       *)
LEMMA CleanerStep ==
  ASSUME IInv, TypeInv', NEW w \in Threads, pc[w] \in InCleanup, pc'[w] \in InCleanup,
         OthersKeep(w), op' = op, arg' = arg, slot' = slot, own' = own,
         UNCHANGED <<ioCount, release, cleanup, free, recv, send, nextUnique, joined>>,
         \/ UNCHANGED <<id, sendFlag>> /\ pc[w] # "push" /\ pc'[w] # "push"
         \/ /\ id' = [id EXCEPT ![slot[w]] = NoId] /\ sendFlag' = [sendFlag EXCEPT ![slot[w]] = 0]
            /\ pc'[w] = "push"
  PROVE  IInv'
<1> DEFINE s == slot[w]
<1>1. /\ s \in Slots /\ s \notin free /\ cleanup[s] /\ release[s]
      /\ ThreadOK(w) /\ own[w] = {} /\ op[w] = "Release" /\ w # Acceptor
      /\ Acceptor \in Threads /\ ThreadTypes
      /\ ThreadRefs(s) = {} /\ recv[s] = "none" /\ send[s] = "none"
      /\ Preparing => slot[Acceptor] # s
      /\ arg[w] \in Ids /\ arg[w][1] = s
      /\ \A u \in Threads : pc[u] \in InCleanup /\ slot[u] = s => u = w
  BY CleaningFacts
<1>2. \A u \in Threads : slot[u] = s => own[u] = {} /\ ~Solid(u) /\ ~Sending(u)
  BY <1>1, NobodyAtWork
<1>3. \A x \in Slots \ {s} : id'[x] = id[x] /\ sendFlag'[x] = sendFlag[x]
  BY DEF IInv, TypeInv, SessionTypes
<1>4. \/ id'[s] = id[s] /\ pc[w] # "push" /\ pc'[w] # "push"
      \/ id'[s] = NoId /\ pc'[w] = "push"
  <2>1. CASE UNCHANGED <<id, sendFlag>> /\ pc[w] # "push" /\ pc'[w] # "push"
    BY <2>1
  <2>2. CASE id' = [id EXCEPT ![s] = NoId] /\ pc'[w] = "push"
    BY <1>1, <2>2 DEF IInv, TypeInv, SessionTypes
  <2> QED BY <2>1, <2>2
<1>5. \A u \in Threads : /\ Solid(u)' => Solid(u)
                         /\ Sending(u)' => Sending(u)
                         /\ Receiving(u)' => Receiving(u)
  <2>1. ~Solid(w)' /\ ~Sending(w)' /\ ~Receiving(w)'
    BY <1>1 DEF Solid, Sending, Receiving, InCleanup
  <2> QED BY <2>1 DEF OthersKeep, Solid, Sending, Receiving
<1>6. ThreadInv'
  <2>1. pc'[w] # "idle" /\ pc'[w] \in CleanupLabels /\ slot[w] # NoSlot
    BY <1>1, ConstantAssumption DEF InCleanup, CleanupLabels
  <2>2. w \in Workers
    BY <1>1 DEF ThreadOK, Serves
  <2>3. Owns(w)'
    BY <1>1, <2>1 DEF Owns, CleanupLabels, InCleanup
  <2>4. ThreadOK(w)'
    BY <1>1, <2>1, <2>2, <2>3 DEF ThreadOK, Serves
  <2> QED BY <2>4, ThreadFrame DEF IInv
<1>7. FreshIds'
  <2>1. \A x \in Slots : id'[x] # NoId => id'[x] = id[x]
    BY <1>3, <1>4
  <2> QED BY <2>1 DEF IInv, FreshIds, Known
<1>8. SlotInv'
  <2>1. \A u \in Threads : pc'[u] = pc[u] \/ u = w
    BY DEF OthersKeep
  <2>2. pc'[Acceptor] = pc[Acceptor]
    BY <1>1 DEF OthersKeep
  <2> QED BY <1>1, <1>3, <1>4, <2>1, <2>2 DEF IInv, SlotInv
<1>9. CleanerInv'
  <2>1. \A u \in Threads : pc'[u] \in InCleanup => pc[u] \in InCleanup
    BY DEF OthersKeep
  <2>2. \A u \in Threads \ {w} : pc'[u] = pc[u]
    BY DEF OthersKeep
  <2>3. \A u \in Threads \ {w} : pc[u] \in InCleanup => slot[u] # s /\ slot[u] \in Slots
    BY <1>1, CleaningFacts
  <2>4. id'[s] = IF pc'[w] = "push" THEN NoId ELSE arg[w]
    BY <1>4 DEF IInv, CleanerInv
  <2> QED BY <1>1, <1>3, <2>1, <2>2, <2>3, <2>4 DEF IInv, CleanerInv
<1>10. SolidInv'
  <2>1. \A u \in Threads : Solid(u) => slot[u] # s /\ slot[u] \in Slots
    BY <1>2, ThreadFacts DEF IInv, Solid
  <2>2. \A u \in Threads : Solid(u)' =>
           Solid(u) /\ slot'[u] = slot[u] /\ op'[u] = op[u] /\ arg'[u] = arg[u]
                    /\ id'[slot[u]] = id[slot[u]]
    BY <1>3, <1>5, <2>1
  <2>3. \A x \in Slots : recv'[x] # "none" \/ send'[x] # "none" => x # s /\ id'[x] = id[x]
    BY <1>1, <1>3
  <2> QED BY <2>2, <2>3 DEF IInv, SolidInv
<1>11. PrepareInv'
  <2>1. Preparing' <=> Preparing
    BY <1>1, NotAcceptor
  <2>2. Preparing => slot[Acceptor] \in Slots \ {s}
    BY <1>1, ThreadFacts DEF IInv, Preparing
  <2>3. Preparing => id'[slot[Acceptor]] = id[slot[Acceptor]]
    BY <1>3, <2>2
  <2> QED BY <1>5, <2>1, <2>2, <2>3 DEF IInv, PrepareInv, Known
<1>12. SendInv'
  <2>1. \A u \in Threads : Sending(u) => slot[u] # s /\ slot[u] \in Slots
    BY <1>2, ThreadFacts DEF IInv
  <2>2. \A u \in Threads : Sending(u)' =>
           Sending(u) /\ slot'[u] = slot[u] /\ sendFlag'[slot[u]] = sendFlag[slot[u]]
    BY <1>3, <1>5, <2>1
  <2>3. \A x \in Slots : send'[x] # "none" =>
           send[x] # "none" /\ sendFlag'[x] = sendFlag[x]
    BY <1>1, <1>3
  <2> QED BY <2>2, <2>3 DEF IInv, SendInv
<1>13. RecvInv'
  <2>1. recv' = recv /\ slot' = slot
    OBVIOUS
  <2> QED BY <1>5, <2>1 DEF IInv, RecvInv
<1>14. RefCountExact' /\ ReferencedIsLive'
  BY DEF IInv, RefCountExact, ReferencedIsLive, ThreadRefs
<1> QED BY <1>6, <1>7, <1>8, <1>9, <1>10, <1>11, <1>12, <1>13, <1>14 DEF IInv

(* A step of the kernel: no thread moves and no reference changes hands.    *)
LEMMA NetworkStep ==
  ASSUME IInv, TypeInv',
         UNCHANGED <<ioCount, release, cleanup, id, sendFlag, free, nextUnique, joined>>,
         UNCHANGED <<pc, op, arg, slot, own, pkt>>,
         \A s \in Slots : recv'[s] = "none" <=> recv[s] = "none",
         \A s \in Slots : send'[s] = "none" <=> send[s] = "none"
  PROVE  IInv'
<1>1. ThreadInv' /\ FreshIds' /\ SlotInv' /\ CleanerInv'
  BY DEF IInv, ThreadInv, ThreadOK, Serves, Owns, Base, Known, FreshIds, SlotInv, CleanerInv
<1>2. SolidInv'
  BY DEF IInv, SolidInv, Solid
<1>3. PrepareInv'
  <2>1. Preparing' <=> Preparing
    BY DEF Preparing
  <2>2. Preparing => slot[Acceptor] \in Slots
    BY ThreadFacts, ThreadAssumption DEF IInv, Preparing, Threads
  <2> QED BY <2>1, <2>2 DEF IInv, PrepareInv, Solid, Known
<1>4. SendInv' /\ RecvInv'
  <2>1. \A u \in Threads : /\ Sending(u)' <=> Sending(u)
                           /\ Receiving(u)' <=> Receiving(u)
    <3>1. pc' = pc /\ op' = op /\ own' = own
      OBVIOUS
    <3>2. \A u \in Threads : Sending(u)' <=> Sending(u)
      BY <3>1 DEF Sending
    <3>3. \A u \in Threads : Receiving(u)' <=> Receiving(u)
      BY <3>1 DEF Receiving
    <3> QED BY <3>2, <3>3
  <2>2. \A u \in Threads : Sending(u) \/ Receiving(u) => slot[u] \in Slots
    BY ThreadFacts DEF IInv
  <2>3. SendInv'
    BY <2>1, <2>2 DEF IInv, SendInv
  <2>4. RecvInv'
    BY <2>1, <2>2 DEF IInv, RecvInv
  <2> QED BY <2>3, <2>4
<1>5. RefCountExact' /\ ReferencedIsLive'
  <2>1. \A s \in Slots : ThreadRefs(s)' = ThreadRefs(s)
    BY DEF ThreadRefs
  <2>2. \A s \in Slots : IoRefs(recv[s])' = IoRefs(recv[s]) /\ IoRefs(send[s])' = IoRefs(send[s])
    BY DEF IoRefs
  <2> QED BY <2>1, <2>2 DEF IInv, RefCountExact, ReferencedIsLive
<1> QED BY <1>1, <1>2, <1>3, <1>4, <1>5 DEF IInv

(* The CAS on FLAG_CLEANUP: when it succeeds nothing refers to the session, *)
(* the slot is not free and nobody else is in its clean-up.                 *)
LEMMA CleanupIInv ==
  ASSUME IInv, NEW w \in Threads, Cleanup(w)
  PROVE  IInv'
<1> DEFINE s == slot[w]
<1>1. /\ pc[w] = "cleanup" /\ s \in Slots /\ own[w] = {} /\ op[w] = "Release" /\ w # Acceptor
      /\ Acceptor \in Threads /\ ThreadOK(w) /\ ThreadTypes
  BY ThreadFacts DEF IInv, ThreadInv, TypeInv, Cleanup, CleanupLabels
<1>2. /\ UNCHANGED <<ioCount, release, id, recv, send, sendFlag, free, nextUnique, joined>>
      /\ UNCHANGED <<own, zero>>
  BY DEF Cleanup, idVars, sendVars, poolVars, appVars
<1>3. /\ own' \in [Threads -> SUBSET {"call", "io"}] /\ zero' \in [Threads -> BOOLEAN]
      /\ own'[w] = {} /\ \A u \in Threads \ {w} : own'[u] = own[u]
  BY <1>1, <1>2 DEF ThreadTypes
<1>4. CASE End(w) /\ UNCHANGED cleanup
  <2>1. ThreadTypes' /\ OthersKeep(w) /\ ThreadOK(w)' /\ pc'[w] = "idle" /\ slot'[w] = NoSlot
    BY <1>1, <1>3, <1>4, EndStep
  <2>2. TypeInv'
    BY <1>2, <1>4, <2>1 DEF IInv, TypeInv, SessionTypes, ServerTypes, Cleanup, idVars, sendVars,
                            poolVars, appVars
  <2>3. slot'[w] \notin free
    BY <2>1, ConstantAssumption DEF IInv, TypeInv, ServerTypes
  <2> QED BY <1>1, <1>2, <1>3, <1>4, <2>1, <2>2, <2>3, EndIsQuiet
<1>5. CASE /\ ioCount[s] = 0 /\ release[s] /\ ~cleanup[s]
           /\ cleanup' = [cleanup EXCEPT ![s] = TRUE]
           /\ Begin(w, "Release", id[s], s, NoPacket, "close")
  <2>1. ThreadRefs(s) = {} /\ recv[s] = "none" /\ send[s] = "none"
    <3>1. IsFiniteSet(ThreadRefs(s)) /\ Cardinality(ThreadRefs(s)) \in Nat
      BY RefsFinite
    <3>2. 0 = Cardinality(ThreadRefs(s)) + IoRefs(recv[s]) + IoRefs(send[s])
      BY <1>1, <1>5 DEF IInv, RefCountExact
    <3>3. Cardinality(ThreadRefs(s)) = 0 /\ recv[s] = "none" /\ send[s] = "none"
      BY <3>1, <3>2 DEF IoRefs
    <3> QED BY <3>1, <3>3, FS_EmptySet
  <2>2. s \notin free /\ id[s] # NoId
    <3>1. ~(slot[Acceptor] = s /\ pc[Acceptor] = "assignId")
      BY <1>1, <1>5 DEF IInv, PrepareInv, Preparing
    <3> QED BY <1>1, <1>5, <3>1 DEF IInv, SlotInv
  <2>3. id[s] \in Ids /\ id[s][1] = s
    BY <1>1, <2>2 DEF IInv, TypeInv, SessionTypes, FreshIds
  <2>4. /\ ThreadTypes' /\ OthersKeep(w) /\ pc'[w] = "close" /\ op'[w] = "Release"
        /\ arg'[w] = id[s] /\ slot'[w] = s
    <3>1. /\ "Release" \in Ops /\ "close" \in Labels /\ id[s] \in Ids \cup {NoId}
          /\ s \in Slots \cup {NoSlot} /\ NoPacket \in Packets \cup {NoPacket}
      BY <1>1, <2>3 DEF Ops, Labels
    <3> QED BY SMTT(20), <1>1, <1>3, <1>5, <3>1, BeginStep
  <2>5. TypeInv'
    <3>1. cleanup' \in [Slots -> BOOLEAN]
      BY <1>5 DEF IInv, TypeInv, SessionTypes
    <3> QED BY <1>2, <2>4, <3>1 DEF IInv, TypeInv, SessionTypes, ServerTypes, Cleanup, idVars,
                                    sendVars, poolVars, appVars
  <2>6. cleanup'[s] = TRUE /\ \A x \in Slots \ {s} : cleanup'[x] = cleanup[x]
    BY <1>1, <1>5 DEF IInv, TypeInv, SessionTypes
  <2>7. ThreadInv'
    <3>1. w \in Workers
      BY <1>1 DEF ThreadOK, Serves
    <3>2. ThreadOK(w)'
      BY <1>1, <1>3, <2>4, <3>1, ConstantAssumption
         DEF ThreadOK, Serves, Owns, CleanupLabels, InCleanup
    <3> QED BY <1>2, <2>4, <3>2, ThreadFrame DEF IInv
  <2>8. FreshIds'
    BY <1>2 DEF IInv, FreshIds, Known
  <2>9. SlotInv'
    <3>1. \A u \in Threads : slot'[u] = slot[u] /\ (pc'[u] = pc[u] \/ u = w)
      BY <2>4 DEF OthersKeep
    <3>2. pc'[Acceptor] = pc[Acceptor]
      BY <1>1, <2>4 DEF OthersKeep
    <3> QED BY <1>1, <1>2, <1>5, <2>2, <2>6, <3>1, <3>2 DEF IInv, SlotInv
  <2>10. CleanerInv'
    <3>1. \A u \in Threads \ {w} : pc'[u] \in InCleanup =>
              /\ pc[u] \in InCleanup /\ pc'[u] = pc[u] /\ slot'[u] = slot[u] /\ arg'[u] = arg[u]
              /\ slot[u] \in Slots /\ slot[u] # s
      BY <1>5, <2>4, CleaningFacts DEF OthersKeep
    <3> QED BY <1>2, <2>2, <2>3, <2>4, <2>6, <3>1 DEF IInv, CleanerInv
  <2>11. ~Solid(w)' /\ ~Sending(w)' /\ ~Receiving(w)'
    BY <1>3, <2>4 DEF Solid, Sending, Receiving
  <2>12. SolidInv' /\ PrepareInv'
    BY <1>1, <1>2, <2>4, <2>11, NotAcceptor, SolidFrame, PrepareFrame DEF IInv
  <2>13. SendInv' /\ RecvInv'
    BY <1>2, <2>4, <2>5, <2>11, SameSender, SameReceiver
  <2>14. RefCountExact'
    BY <1>1, <1>2, <1>3, <2>4, CountFrame DEF IInv
  <2>15. ReferencedIsLive'
    <3>1. \A x \in Slots : ThreadRefs(x)' = ThreadRefs(x)
      BY <1>1, <1>3, <2>4, RefsKept
    <3> QED BY <1>2, <2>1, <2>6, <3>1 DEF IInv, ReferencedIsLive
  <2> QED BY <2>5, <2>7, <2>8, <2>9, <2>10, <2>12, <2>13, <2>14, <2>15 DEF IInv
<1> QED BY <1>4, <1>5 DEF Cleanup

(* The socket is closed: a step of the clean-up.                            *)
LEMMA CloseSocketIInv ==
  ASSUME IInv, NEW w \in Threads, CloseSocket(w)
  PROVE  IInv'
<1>1. pc[w] = "close" /\ pc[w] \in InCleanup /\ ThreadTypes
  BY DEF CloseSocket, InCleanup, IInv, TypeInv
<1>2. slot[w] \in Slots
  BY <1>1, CleaningFacts
<1>3. /\ UNCHANGED <<ioCount, release, cleanup, free, recv, send, nextUnique, joined>>
      /\ UNCHANGED <<id, sendFlag>>
  BY DEF CloseSocket, ctlVars, sendVars, poolVars, appVars
<1>4. /\ ThreadTypes' /\ OthersKeep(w) /\ pc'[w] = "leave"
      /\ op' = op /\ arg' = arg /\ slot' = slot /\ own' = own
  <2>1. "leave" \in Labels BY DEF Labels
  <2>2. Goto(w, "leave") /\ UNCHANGED <<ctxVars, own, zero>> BY DEF CloseSocket
  <2> QED BY <1>1, <2>1, <2>2, GotoStep DEF ThreadTypes
<1>5. TypeInv'
  <2>1. socket' \in [Slots -> BOOLEAN]
    BY DEF CloseSocket, IInv, TypeInv, SessionTypes
  <2> QED BY <1>3, <1>4, <2>1 DEF CloseSocket, IInv, TypeInv, SessionTypes, ServerTypes, ctlVars,
                                  sendVars, poolVars, appVars
<1>6. pc'[w] \in InCleanup /\ pc'[w] # "push" /\ pc[w] # "push"
  BY <1>1, <1>4 DEF InCleanup
<1> QED BY <1>1, <1>3, <1>4, <1>5, <1>6, CleanerStep

(* OnClientLeave and the session counter: a step of the clean-up.           *)
LEMMA LeaveIInv ==
  ASSUME IInv, NEW w \in Threads, Leave(w)
  PROVE  IInv'
<1>1. pc[w] = "leave" /\ pc[w] \in InCleanup /\ ThreadTypes
  BY DEF Leave, InCleanup, IInv, TypeInv
<1>2. arg[w] \in Ids
  BY <1>1, CleaningFacts
<1>3. /\ UNCHANGED <<ioCount, release, cleanup, free, recv, send, nextUnique, joined>>
      /\ UNCHANGED <<id, sendFlag>>
  BY DEF Leave, ctlVars, idVars, sendVars
<1>4. /\ ThreadTypes' /\ OthersKeep(w) /\ pc'[w] = "drainAll"
      /\ op' = op /\ arg' = arg /\ slot' = slot /\ own' = own
  <2>1. "drainAll" \in Labels BY DEF Labels
  <2>2. Goto(w, "drainAll") /\ UNCHANGED <<ctxVars, own, zero>> BY DEF Leave
  <2> QED BY <1>1, <2>1, <2>2, GotoStep DEF ThreadTypes
<1>5. TypeInv'
  <2>1. left' \subseteq Ids \cup {NoId} /\ sessionCount' \in Int
    BY <1>2 DEF Leave, IInv, TypeInv, ServerTypes
  <2> QED BY <1>3, <1>4, <2>1 DEF Leave, IInv, TypeInv, SessionTypes, ServerTypes, ctlVars,
                                  idVars, sendVars
<1>6. pc'[w] \in InCleanup /\ pc'[w] # "push" /\ pc[w] # "push"
  BY <1>1, <1>4 DEF InCleanup
<1> QED BY <1>1, <1>3, <1>4, <1>5, <1>6, CleanerStep

(* The packets of the ring are given up: a step of the clean-up.            *)
LEMMA DrainAllIInv ==
  ASSUME IInv, NEW w \in Threads, DrainAll(w)
  PROVE  IInv'
<1>1. pc[w] = "drainAll" /\ pc[w] \in InCleanup /\ ThreadTypes
  BY DEF DrainAll, InCleanup, IInv, TypeInv
<1>2. slot[w] \in Slots
  BY <1>1, CleaningFacts
<1>3. /\ UNCHANGED <<ioCount, release, cleanup, free, recv, send, nextUnique, joined>>
      /\ UNCHANGED <<id, sendFlag>>
  BY DEF DrainAll, ctlVars, idVars, poolVars, appVars
<1>4. /\ ThreadTypes' /\ OthersKeep(w) /\ pc'[w] = "reset"
      /\ op' = op /\ arg' = arg /\ slot' = slot /\ own' = own
  <2>1. "reset" \in Labels BY DEF Labels
  <2>2. Goto(w, "reset") /\ UNCHANGED <<ctxVars, own, zero>> BY DEF DrainAll
  <2> QED BY <1>1, <2>1, <2>2, GotoStep DEF ThreadTypes
<1>5. TypeInv'
  <2>1. ring[slot[w]] \in Seq(Packets) /\ ring' \in [Slots -> Seq(Packets)]
    BY <1>2 DEF DrainAll, IInv, TypeInv, SessionTypes
  <2>2. pktRef' \in [Packets -> Int]
    BY <2>1, SubRefsType DEF DrainAll, IInv, TypeInv
  <2> QED BY <1>3, <1>4, <2>1, <2>2 DEF DrainAll, IInv, TypeInv, SessionTypes, ServerTypes,
                                        ctlVars, idVars, poolVars, appVars
<1>6. pc'[w] \in InCleanup /\ pc'[w] # "push" /\ pc[w] # "push"
  BY <1>1, <1>4 DEF InCleanup
<1> QED BY <1>1, <1>3, <1>4, <1>5, <1>6, CleanerStep

(* The id is erased: the last step before the slot is pushed.               *)
LEMMA ResetIInv ==
  ASSUME IInv, NEW w \in Threads, Reset(w)
  PROVE  IInv'
<1>1. pc[w] = "reset" /\ pc[w] \in InCleanup /\ ThreadTypes
  BY DEF Reset, InCleanup, IInv, TypeInv
<1>2. slot[w] \in Slots
  BY <1>1, CleaningFacts
<1>3. /\ UNCHANGED <<ioCount, release, cleanup, free, recv, send, nextUnique, joined>>
      /\ id' = [id EXCEPT ![slot[w]] = NoId] /\ sendFlag' = [sendFlag EXCEPT ![slot[w]] = 0]
  BY DEF Reset, ctlVars, poolVars, appVars
<1>4. /\ ThreadTypes' /\ OthersKeep(w) /\ pc'[w] = "push"
      /\ op' = op /\ arg' = arg /\ slot' = slot /\ own' = own
  <2>1. "push" \in Labels BY DEF Labels
  <2>2. Goto(w, "push") /\ UNCHANGED <<ctxVars, own, zero>> BY DEF Reset
  <2> QED BY <1>1, <2>1, <2>2, GotoStep DEF ThreadTypes
<1>5. TypeInv'
  <2>1. id' \in [Slots -> Ids \cup {NoId}] /\ sendFlag' \in [Slots -> {0, 1}]
    BY <1>3 DEF IInv, TypeInv, SessionTypes
  <2>2. state' \in [Slots -> {"Free", "Connected"}]
    BY DEF Reset, IInv, TypeInv, SessionTypes
  <2>3. ring' \in [Slots -> Seq(Packets)]
    <3>1. ring \in [Slots -> Seq(Packets)] /\ ring' = [ring EXCEPT ![slot[w]] = <<>>]
      BY DEF Reset, IInv, TypeInv, SessionTypes
    <3>2. <<>> \in Seq(Packets)
      OBVIOUS
    <3> QED BY <1>2, <3>1, <3>2
  <2> QED BY <1>3, <1>4, <2>1, <2>2, <2>3 DEF Reset, IInv, TypeInv, SessionTypes, ServerTypes,
                                             ctlVars, poolVars, appVars
<1>6. pc'[w] \in InCleanup
  BY <1>4 DEF InCleanup
<1> QED BY <1>1, <1>3, <1>4, <1>5, <1>6, CleanerStep

(* The slot goes back to the free stack as the worker leaves it.            *)
LEMMA PushIInv ==
  ASSUME IInv, NEW w \in Threads, Push(w)
  PROVE  IInv'
<1> DEFINE s == slot[w]
<1>1. /\ s \in Slots /\ s \notin free /\ cleanup[s] /\ release[s]
      /\ ThreadOK(w) /\ own[w] = {} /\ w # Acceptor /\ Acceptor \in Threads /\ ThreadTypes
      /\ ThreadRefs(s) = {} /\ recv[s] = "none" /\ send[s] = "none"
      /\ Preparing => slot[Acceptor] # s
      /\ arg[w][1] = s /\ pc[w] = "push" /\ id[s] = NoId
      /\ \A u \in Threads : pc[u] \in InCleanup /\ slot[u] = s => u = w
  <2>1. pc[w] = "push" /\ pc[w] \in InCleanup
    BY DEF Push, InCleanup
  <2>2. id[s] = NoId
    BY <2>1 DEF IInv, CleanerInv
  <2> QED BY <2>1, <2>2, CleaningFacts
<1>2. /\ UNCHANGED <<ioCount, release, cleanup, id, recv, send, sendFlag, nextUnique, joined>>
      /\ UNCHANGED <<own, zero>>
  BY DEF Push, ctlVars, idVars, sendVars, appVars
<1>3. free' = free \cup {s}
  BY <1>1 DEF Push
<1>4. ThreadTypes' /\ OthersKeep(w) /\ ThreadOK(w)' /\ pc'[w] = "idle" /\ slot'[w] = NoSlot
  <2>1. /\ own' \in [Threads -> SUBSET {"call", "io"}] /\ zero' \in [Threads -> BOOLEAN]
        /\ own'[w] = {} /\ \A u \in Threads \ {w} : own'[u] = own[u]
    BY <1>1, <1>2 DEF ThreadTypes
  <2> QED BY <1>1, <2>1, EndStep DEF Push
<1>5. TypeInv'
  BY <1>1, <1>2, <1>3, <1>4 DEF Push, IInv, TypeInv, SessionTypes, ServerTypes, ctlVars, idVars,
                                sendVars, appVars
<1>6. NoSlot \notin Slots /\ own'[w] = {}
  BY <1>1, <1>2, ConstantAssumption
<1>7. ~Solid(w)' /\ ~Sending(w)' /\ ~Receiving(w)' /\ pc'[w] \notin InCleanup
  BY <1>4, <1>6, IdleIsQuiet
<1>8. ThreadInv'
  BY <1>2, <1>4, ThreadFrame DEF IInv
<1>9. FreshIds'
  BY <1>2 DEF IInv, FreshIds, Known
<1>10. SlotInv'
  <2>1. \A u \in Threads : slot'[u] \in Slots => slot'[u] = slot[u] /\ pc'[u] = pc[u] /\ u # w
    BY <1>4, <1>6 DEF OthersKeep
  <2>2. \A x \in Slots : x \in free' => x \in free \/ x = s
    BY <1>3
  <2>3. slot'[Acceptor] = slot[Acceptor] /\ pc'[Acceptor] = pc[Acceptor]
    BY <1>1, <1>4 DEF OthersKeep
  <2>4. \A x \in Slots : x \in free => x \in free'
    BY <1>3
  <2> QED BY <1>1, <1>2, <2>1, <2>2, <2>3, <2>4 DEF IInv, SlotInv
<1>11. CleanerInv'
  <2>1. \A u \in Threads : pc'[u] \in InCleanup =>
            /\ u # w /\ pc[u] \in InCleanup /\ pc'[u] = pc[u] /\ slot'[u] = slot[u]
            /\ arg'[u] = arg[u] /\ slot[u] \notin free'
    BY <1>1, <1>3, <1>4, <1>7, CleaningFacts DEF OthersKeep
  <2> QED BY <1>2, <2>1 DEF IInv, CleanerInv
<1>12. SolidInv'
  BY <1>2, <1>4, <1>7, SolidFrame DEF IInv
<1>13. PrepareInv'
  <2>1. (Preparing' <=> Preparing) /\ slot'[Acceptor] = slot[Acceptor]
    BY <1>1, <1>4, NotAcceptor
  <2>2. \A u \in Threads : Solid(u)' => Solid(u) /\ slot'[u] = slot[u]
    BY <1>4, <1>7 DEF OthersKeep, Solid
  <2> QED BY <1>1, <1>2, <1>3, <2>1, <2>2 DEF IInv, PrepareInv, Known
<1>14. SendInv' /\ RecvInv'
  BY <1>2, <1>4, <1>5, <1>7, SameSender, SameReceiver
<1>15. RefCountExact'
  BY <1>1, <1>2, <1>4, CountFrame DEF IInv
<1>16. ReferencedIsLive'
  <2>1. \A x \in Slots : ThreadRefs(x)' = ThreadRefs(x)
    BY <1>1, <1>2, <1>4, RefsKept
  <2> QED BY <1>1, <1>2, <1>3, <2>1 DEF IInv, ReferencedIsLive
<1> QED BY <1>5, <1>8, <1>9, <1>10, <1>11, <1>12, <1>13, <1>14, <1>15, <1>16 DEF IInv

-----------------------------------------------------------------------------
(* The kernel.                                                             *)

(* A receive ends in the kernel: its reference stays with the completion.   *)
LEMMA RecvCompletesIInv ==
  ASSUME IInv, NEW s \in Slots, NEW o \in {"ok", "fin", "failed"}, RecvCompletes(s, o)
  PROVE  IInv'
<1>1. /\ recv[s] = "pending" /\ recv' = [recv EXCEPT ![s] = o]
      /\ UNCHANGED <<ctlVars, idVars, send, posted, sendVars, poolVars, appVars, pc, ctxVars, own,
                     zero>>
  BY DEF RecvCompletes
<1>2. /\ recv' \in [Slots -> Outcomes] /\ \A x \in Slots : recv'[x] = "none" <=> recv[x] = "none"
  BY <1>1 DEF IInv, TypeInv, SessionTypes, Outcomes
<1>3. TypeInv'
  BY <1>1, <1>2 DEF IInv, TypeInv, SessionTypes, ServerTypes, ThreadTypes, ctlVars, idVars,
                    sendVars, poolVars, appVars, ctxVars
<1>4. /\ UNCHANGED <<ioCount, release, cleanup, id, sendFlag, free, nextUnique, joined>>
      /\ UNCHANGED <<pc, op, arg, slot, own, pkt>> /\ send' = send
  BY <1>1 DEF ctlVars, idVars, sendVars, poolVars, appVars, ctxVars
<1> QED BY <1>2, <1>3, <1>4, NetworkStep

(* A send ends in the kernel, likewise.                                     *)
LEMMA SendCompletesIInv ==
  ASSUME IInv, NEW s \in Slots, NEW o \in {"ok", "failed"}, SendCompletes(s, o)
  PROVE  IInv'
<1>1. /\ send[s] = "pending" /\ send' = [send EXCEPT ![s] = o]
      /\ UNCHANGED <<ctlVars, idVars, recv, posted, sendVars, poolVars, appVars, pc, ctxVars, own,
                     zero>>
  BY DEF SendCompletes
<1>2. /\ send' \in [Slots -> Outcomes \ {"fin"}]
      /\ \A x \in Slots : send'[x] = "none" <=> send[x] = "none"
  BY <1>1 DEF IInv, TypeInv, SessionTypes, Outcomes
<1>3. TypeInv'
  BY <1>1, <1>2 DEF IInv, TypeInv, SessionTypes, ServerTypes, ThreadTypes, ctlVars, idVars,
                    sendVars, poolVars, appVars, ctxVars
<1>4. /\ UNCHANGED <<ioCount, release, cleanup, id, sendFlag, free, nextUnique, joined>>
      /\ UNCHANGED <<pc, op, arg, slot, own, pkt>> /\ recv' = recv
  BY <1>1 DEF ctlVars, idVars, sendVars, poolVars, appVars, ctxVars
<1> QED BY <1>2, <1>3, <1>4, NetworkStep

(* A step of something else.                                                *)
LEMMA StutterIInv ==
  ASSUME IInv, UNCHANGED vars
  PROVE  IInv'
<1>1. /\ UNCHANGED <<ctlVars, idVars, recv, send, posted, sendVars, poolVars, appVars>>
      /\ UNCHANGED <<pc, ctxVars, own, zero>>
  BY DEF vars
<1>2. TypeInv'
  BY <1>1 DEF IInv, TypeInv, SessionTypes, ServerTypes, ThreadTypes, ctlVars, idVars,
              sendVars, poolVars, appVars, ctxVars
<1>3. /\ UNCHANGED <<ioCount, release, cleanup, id, sendFlag, free, nextUnique, joined>>
      /\ UNCHANGED <<pc, op, arg, slot, own, pkt>> /\ recv' = recv /\ send' = send
  BY <1>1 DEF ctlVars, idVars, sendVars, poolVars, appVars, ctxVars
<1> QED BY <1>2, <1>3, NetworkStep

-----------------------------------------------------------------------------
(* The invariant of the specification.                                     *)

(* Before the first connection every slot is free and every thread idle.    *)
LEMMA InitIInv ==
  ASSUME Init
  PROVE  IInv
<1>1. TypeInv
  <2>1. SessionTypes
    BY DEF Init, SessionTypes, Outcomes
  <2>2. ServerTypes
    BY DEF Init, ServerTypes
  <2>3. ThreadTypes
    BY DEF Init, ThreadTypes, Labels, Ops
  <2> QED BY <2>1, <2>2, <2>3 DEF TypeInv
<1>2. Acceptor \in Threads /\ NoSlot \notin Slots
  BY ConstantAssumption DEF Threads
<1>3. \A t \in Threads : pc[t] = "idle" /\ op[t] = "none" /\ slot[t] = NoSlot /\ own[t] = {}
  BY DEF Init
<1>4. /\ \A s \in Slots : ioCount[s] = 0 /\ ~release[s] /\ ~cleanup[s] /\ id[s] = NoId
      /\ \A s \in Slots : recv[s] = "none" /\ send[s] = "none" /\ s \in free
      /\ Known = {}
  BY DEF Init, Known
<1>5. ThreadInv
  BY <1>3 DEF ThreadInv, ThreadOK, Serves, Owns
<1>6. FreshIds /\ SlotInv /\ CleanerInv
  BY <1>2, <1>3, <1>4 DEF FreshIds, SlotInv, CleanerInv, InCleanup
<1>7. SolidInv /\ PrepareInv
  BY <1>2, <1>3, <1>4 DEF SolidInv, Solid, PrepareInv, Preparing
<1>8. SendInv /\ RecvInv
  BY <1>3, <1>4 DEF SendInv, Sending, RecvInv, Receiving
<1>9. RefCountExact /\ ReferencedIsLive
  <2>1. \A s \in Slots : ThreadRefs(s) = {}
    BY <1>3 DEF ThreadRefs
  <2>2. Cardinality({}) = 0
    BY FS_EmptySet
  <2> QED BY <1>4, <2>1, <2>2 DEF RefCountExact, ReferencedIsLive, IoRefs
<1> QED BY <1>1, <1>5, <1>6, <1>7, <1>8, <1>9 DEF IInv

(* No step breaks the invariant. *)
LEMMA NextIInv ==
  ASSUME IInv, [Next]_vars
  PROVE  IInv'
<1>1. CASE AcceptStep
  BY <1>1, AcceptIInv, AssignIdIInv, PublishIInv, RegisterIInv, JoinIInv DEF AcceptStep
<1>2. ASSUME NEW t \in Apps, Call(t)
      PROVE  IInv'
  BY <1>2, DisConnectIInv, SendPacketIInv DEF Call
<1>3. ASSUME NEW t \in Threads, Continue(t)
      PROVE  IInv'
  <2>1. CASE Acquire(t) \/ Recheck(t) \/ Enqueue(t)
    BY <2>1, AcquireIInv, RecheckIInv, EnqueueIInv
  <2>2. CASE Exchange(t) \/ Drain(t) \/ SendRef(t) \/ WsaSend(t) \/ ClearFlag(t) \/ ResetFlag(t)
    BY <2>2, ExchangeIInv, DrainIInv, SendRefIInv, WsaSendIInv, ClearFlagIInv, ResetFlagIInv
  <2>3. CASE RecvRef(t) \/ WsaRecv(t)
    BY <2>3, RecvRefIInv, WsaRecvIInv
  <2>4. CASE SetRelease(t) \/ Cancel(t) \/ DropIo(t) \/ DropCall(t)
    BY <2>4, SetReleaseIInv, CancelIInv, DropIoIInv, DropCallIInv
  <2>5. CASE Cleanup(t) \/ CloseSocket(t) \/ Leave(t) \/ DrainAll(t) \/ Reset(t) \/ Push(t)
    BY <2>5, CleanupIInv, CloseSocketIInv, LeaveIInv, DrainAllIInv, ResetIInv, PushIInv
  <2> QED BY <1>3, <2>1, <2>2, <2>3, <2>4, <2>5 DEF Continue
<1>4. ASSUME NEW w \in Workers, NEW s \in Slots, Dequeue(w, s)
      PROVE  IInv'
  BY <1>4, RecvEndedIInv, RecvDataIInv, SendFailedIInv, SendDoneIInv, ReleaseTakenIInv DEF Dequeue
<1>5. ASSUME NEW s \in Slots, Network(s)
      PROVE  IInv'
  BY <1>5, RecvCompletesIInv, SendCompletesIInv DEF Network
<1>6. CASE UNCHANGED vars
  BY <1>6, StutterIInv
<1> QED BY <1>1, <1>2, <1>3, <1>4, <1>5, <1>6 DEF Next

(* The inductive invariant holds in every reachable state, whatever the      *)
(* number of slots, threads and packets and in both copies of the engine.   *)
THEOREM SpecIInv == Spec => []IInv
<1>1. Init => IInv
  BY InitIInv
<1>2. IInv /\ [Next]_vars => IInv'
  BY NextIInv
<1> QED BY <1>1, <1>2, PTL DEF Spec

-----------------------------------------------------------------------------
(* What follows from it.                                                   *)

(* The count of references in the control word is never negative, and every *)
(* other field and local keeps its type.                                    *)
LEMMA IInvTypeOK ==
  ASSUME IInv
  PROVE  TypeOK
<1>1. \A s \in Slots : ioCount[s] \in Nat
  <2>1. \A s \in Slots : Cardinality(ThreadRefs(s)) \in Nat
    BY RefsFinite
  <2> QED BY <2>1 DEF IInv, RefCountExact, IoRefs
<1>2. ioCount \in [Slots -> Nat]
  BY <1>1 DEF IInv, TypeInv, SessionTypes
<1> QED BY <1>2 DEF IInv, TypeInv, SessionTypes, ServerTypes, ThreadTypes, TypeOK

(* Type correctness: the low half of control is a count, every session field *)
(* and thread local has its type, in every reachable state.                 *)
THEOREM TypeCorrect == Spec => []TypeOK
<1>1. IInv => TypeOK
  BY IInvTypeOK
<1> QED BY <1>1, SpecIInv, PTL

(* The control word counts exactly the references there are: no path drops   *)
(* a reference twice or forgets one, and Session::Init loses none.          *)
THEOREM RefCountIsExact == Spec => []RefCountExact
<1>1. IInv => RefCountExact
  BY DEF IInv
<1> QED BY <1>1, SpecIInv, PTL

(* No slot is cleaned up or on the free stack while a thread or an I/O       *)
(* refers to the session in it.                                             *)
THEOREM NoEarlyRecycle == Spec => []ReferencedIsLive
<1>1. IInv => ReferencedIsLive
  BY DEF IInv
<1> QED BY <1>1, SpecIInv, PTL

(* The senders of a session are none or one.                                *)
LEMMA FewSenders ==
  ASSUME IInv, NEW s \in Slots
  PROVE  \/ Senders(s) = {} /\ Cardinality(Senders(s)) = 0
         \/ \E t \in Threads : /\ Senders(s) = {t} /\ Cardinality(Senders(s)) = 1
                               /\ sendFlag[s] = 1 /\ send[s] = "none"
<1>1. CASE Senders(s) = {}
  BY <1>1, FS_EmptySet
<1>2. CASE Senders(s) # {}
  <2>1. PICK t \in Threads : t \in Senders(s)
    BY <1>2 DEF Senders
  <2>2. slot[t] = s /\ Sending(t)
    BY <2>1 DEF Senders
  <2>3. \A u \in Senders(s) : u = t
    BY <2>2 DEF Senders, IInv, SendInv
  <2>4. Senders(s) = {t}
    BY <2>1, <2>3
  <2>5. Cardinality(Senders(s)) = 1
    BY <2>4, FS_Singleton
  <2>6. sendFlag[s] = 1 /\ send[s] = "none"
    BY <2>2 DEF IInv, SendInv
  <2> QED BY <2>4, <2>5, <2>6
<1> QED BY <1>1, <1>2

(* sendFlag is a lock: on every session at most one thread is in the sending *)
(* part of postSend or serving a send's completion, and none while a WSASend *)
(* is in flight.                                                            *)
THEOREM SendIsExclusive == Spec => []OneSender
<1>1. ASSUME IInv
      PROVE  OneSender
  <2>1. ASSUME NEW s \in Slots
        PROVE  /\ Cardinality(Senders(s)) + IoRefs(send[s]) <= 1
               /\ Cardinality(Senders(s)) + IoRefs(send[s]) = 1 => sendFlag[s] = 1
    <3>1. send[s] # "none" => sendFlag[s] = 1
      BY <1>1 DEF IInv, SendInv
    <3>2. CASE Cardinality(Senders(s)) = 0
      BY <3>1, <3>2 DEF IoRefs
    <3>3. CASE Cardinality(Senders(s)) = 1 /\ sendFlag[s] = 1 /\ send[s] = "none"
      BY <3>3 DEF IoRefs
    <3> QED BY <1>1, <3>2, <3>3, FewSenders
  <2> QED BY <2>1 DEF OneSender
<1> QED BY <1>1, SpecIInv, PTL

(* Only IncreaseIoCount raises the count of a session, and it refuses once   *)
(* FLAG_RELEASE is set; Session::Init clears the flag with the count.       *)
LEMMA OnlyTakeRefAdds ==
  ASSUME IInv, [Next]_vars, NEW s \in Slots, release[s], release'[s]
  PROVE  ioCount'[s] <= ioCount[s]
<1>1. ioCount[s] \in Int /\ ioCount \in [Slots -> Int] /\ release \in [Slots -> BOOLEAN]
  BY DEF IInv, TypeInv, SessionTypes
<1>2. UNCHANGED ioCount => ioCount'[s] <= ioCount[s]
  BY <1>1
<1>3. ASSUME NEW t \in Threads, NEW r, MayTakeRef(slot[t]), TakeRef(t, slot[t], r)
      PROVE  ioCount'[s] <= ioCount[s]
  <2>1. slot[t] # s /\ ioCount' = [ioCount EXCEPT ![slot[t]] = @ + 1]
    BY <1>3 DEF MayTakeRef, TakeRef
  <2> QED BY <1>1, <2>1
<1>4. ASSUME NEW t \in Threads, NEW r, DropRef(t, slot[t], r)
      PROVE  ioCount'[s] <= ioCount[s]
  <2>1. ioCount' = [ioCount EXCEPT ![slot[t]] = @ - 1]
    BY <1>4 DEF DropRef
  <2> QED BY <1>1, <2>1
<1>5. CASE AcceptStep
  <2>1. CASE Accept
    <3>1. PICK x \in free : /\ ioCount' = [ioCount EXCEPT ![x] = 0]
                            /\ release' = [release EXCEPT ![x] = FALSE]
      BY <2>1 DEF Accept, InitSession
    <3>2. x # s
      BY <1>1, <3>1
    <3> QED BY <1>1, <3>1, <3>2
  <2>2. CASE AssignId \/ Publish \/ Register \/ Join
    BY <1>2, <2>2 DEF AssignId, Publish, Register, Join, ctlVars
  <2> QED BY <1>5, <2>1, <2>2 DEF AcceptStep
<1>6. ASSUME NEW t \in Apps, Call(t)
      PROVE  ioCount'[s] <= ioCount[s]
  BY <1>2, <1>6 DEF Call, DisConnect, SendPacket, ctlVars
<1>7. ASSUME NEW t \in Threads, Continue(t)
      PROVE  ioCount'[s] <= ioCount[s]
  <2>1. CASE Acquire(t)
    BY <1>2, <1>3, <2>1 DEF Acquire, ctlVars
  <2>2. CASE SendRef(t)
    BY <1>2, <1>3, <2>2 DEF SendRef, ctlVars
  <2>3. CASE RecvRef(t)
    BY <1>2, <1>3, <2>3 DEF RecvRef, ctlVars
  <2>4. CASE DropIo(t) \/ DropCall(t)
    BY <1>4, <2>4 DEF DropIo, DropCall
  <2>5. CASE Recheck(t) \/ Enqueue(t) \/ Exchange(t) \/ Drain(t) \/ WsaSend(t) \/ ClearFlag(t)
    BY <1>2, <2>5 DEF Recheck, Enqueue, Exchange, Drain, WsaSend, ClearFlag, ctlVars
  <2>6. CASE WsaRecv(t) \/ SetRelease(t) \/ Cancel(t) \/ ResetFlag(t) \/ Cleanup(t)
    BY <1>2, <2>6 DEF WsaRecv, SetRelease, Cancel, ResetFlag, Cleanup, ctlVars
  <2>7. CASE CloseSocket(t) \/ Leave(t) \/ DrainAll(t) \/ Reset(t) \/ Push(t)
    BY <1>2, <2>7 DEF CloseSocket, Leave, DrainAll, Reset, Push, ctlVars
  <2> QED BY <1>7, <2>1, <2>2, <2>3, <2>4, <2>5, <2>6, <2>7 DEF Continue
<1>8. ASSUME NEW w \in Workers, NEW x \in Slots, Dequeue(w, x)
      PROVE  ioCount'[s] <= ioCount[s]
  BY <1>2, <1>8 DEF Dequeue, RecvEnded, RecvData, SendFailed, SendDone, ReleaseTaken, ctlVars
<1>9. ASSUME NEW x \in Slots, Network(x)
      PROVE  ioCount'[s] <= ioCount[s]
  BY <1>2, <1>9 DEF Network, RecvCompletes, SendCompletes, ctlVars
<1>10. CASE UNCHANGED vars
  BY <1>2, <1>10 DEF vars, ctlVars
<1> QED BY <1>5, <1>6, <1>7, <1>8, <1>9, <1>10 DEF Next

(* After FLAG_RELEASE the references of a session only go away, so that the  *)
(* count of a released session reaches zero for good.                       *)
THEOREM ReleasedOnlyDrops == Spec => NoRefAfterRelease
<1>1. IInv /\ [Next]_vars =>
          \A s \in Slots : release[s] /\ release'[s] => ioCount'[s] <= ioCount[s]
  BY OnlyTakeRefAdds
<1>2. IInv /\ [Next]_vars =>
          [\A s \in Slots : release[s] /\ release'[s] => ioCount'[s] <= ioCount[s]]_vars
  BY <1>1
<1> QED BY <1>2, SpecIInv, PTL DEF Spec, NoRefAfterRelease

===============================================================================
