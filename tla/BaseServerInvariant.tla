-------------------------- MODULE BaseServerInvariant --------------------------
(***************************************************************************)
(* The inductive strengthening of the reference-count invariants of         *)
(* BaseServer: what each thread owns at each label, which flags a slot has  *)
(* on its way through the free stack, and who may send and receive on it.   *)
(***************************************************************************)
EXTENDS BaseServer

CleanupLabels == InCleanup \cup {"cleanup"}

(* The labels each kind of service goes through, and who provides it. *)
Serves(t) ==
    \/ op[t] = "none" /\ pc[t] = "idle"
    \/ /\ op[t] = "Accept" /\ t = Acceptor
       /\ pc[t] \in {"assignId", "publish", "register", "join", "recvRef", "wsaRecv",
                     "setRelease", "cancel", "dropIo"}
    \/ /\ op[t] = "DisConnect" /\ t \in Apps
       /\ pc[t] \in {"acquire", "recheck", "setRelease", "cancel", "dropCall"}
    \/ /\ op[t] = "SendPacket" /\ t \in Apps
       /\ pc[t] \in {"acquire", "recheck", "enqueue", "exchange", "drain", "sendRef", "wsaSend",
                     "clearFlag", "setRelease", "cancel", "dropIo", "dropCall"}
    \/ /\ op[t] = "Recv" /\ t \in Workers
       /\ pc[t] \in {"recvRef", "wsaRecv", "setRelease", "cancel", "dropIo", "dropCall"}
    \/ /\ op[t] = "Send" /\ t \in Workers
       /\ pc[t] \in {"resetFlag", "exchange", "drain", "sendRef", "wsaSend", "clearFlag",
                     "setRelease", "cancel", "dropIo", "dropCall"}
    \/ /\ op[t] = "Failed" /\ t \in Workers
       /\ pc[t] \in {"setRelease", "cancel", "dropCall"}
    \/ op[t] = "Release" /\ t \in Workers /\ pc[t] \in CleanupLabels

(* The reference a thread owns throughout its service. *)
Base(t) == IF op[t] = "Accept" THEN {} ELSE {"call"}

Owns(t) ==
    /\ pc[t] \in {"idle", "assignId", "publish", "register", "join", "acquire"} \cup CleanupLabels
           => own[t] = {}
    /\ pc[t] \in {"wsaRecv", "wsaSend", "dropIo"} => own[t] = Base(t) \cup {"io"}
    /\ pc[t] \in {"setRelease", "cancel"} =>
           \/ own[t] = Base(t)
           \/ own[t] = Base(t) \cup {"io"} /\ op[t] \notin {"DisConnect", "Failed"}
    /\ pc[t] \in {"recheck", "enqueue", "exchange", "drain", "sendRef", "clearFlag", "resetFlag",
                  "recvRef", "dropCall"} => own[t] = Base(t)

ThreadOK(t) ==
    /\ Serves(t) /\ Owns(t)
    /\ (slot[t] = NoSlot) <=> (pc[t] = "idle")
    /\ op[t] = "SendPacket" => pkt[t] \in Packets
    /\ op[t] \in {"DisConnect", "SendPacket"} =>
           arg[t] \in Known /\ arg[t] \in Ids /\ arg[t][1] = slot[t]
ThreadInv == \A t \in Threads : ThreadOK(t)

(* A slot and the free stack. *)
FreshIds ==
    /\ \A s \in Slots : id[s] # NoId => id[s][1] = s /\ id[s][2] < nextUnique
    /\ \A i \in Known : i[2] < nextUnique
SlotInv ==
    \A s \in Slots :
        /\ cleanup[s] => release[s]
        /\ s \in free => id[s] = NoId /\ (release[s] => cleanup[s])
        /\ s \in free /\ ~release[s] => \A t \in Threads : slot[t] = s => pc[t] = "cleanup"
        /\ id[s] = NoId => \/ s \in free
                           \/ slot[Acceptor] = s /\ pc[Acceptor] = "assignId"
                           \/ cleanup[s]

(* The worker in the clean-up of a slot is alone, and knows its id. *)
CleanerInv ==
    \A t \in Threads : pc[t] \in InCleanup =>
        /\ cleanup[slot[t]] /\ slot[t] \notin free
        /\ arg[t] \in Ids /\ arg[t][1] = slot[t]
        /\ id[slot[t]] = IF pc[t] = "push" THEN NoId ELSE arg[t]
        /\ \A u \in Threads : pc[u] \in InCleanup /\ slot[u] = slot[t] => u = t

(* A thread that works on a session under a reference; one that re-validates *)
(* or has only its reference left to drop does not.                         *)
Solid(t) == own[t] # {} /\ pc[t] \notin {"recheck", "dropCall"}
SolidInv ==
    /\ \A t \in Threads : Solid(t) =>
           /\ id[slot[t]] # NoId
           /\ op[t] \in {"DisConnect", "SendPacket"} => id[slot[t]] = arg[t]
    /\ \A s \in Slots : recv[s] # "none" \/ send[s] # "none" => id[s] # NoId

(* The session the accept thread prepares is not yet anybody's business. *)
Preparing ==
    \/ pc[Acceptor] \in {"assignId", "publish", "register"}
    \/ pc[Acceptor] = "join" /\ ~RecvFirst
    \/ pc[Acceptor] = "setRelease" /\ own[Acceptor] = {}
PrepareInv ==
    Preparing =>
        LET s == slot[Acceptor]
        IN  /\ s \notin free /\ ~release[s] /\ id[s] \notin Known
            /\ recv[s] = "none" /\ send[s] = "none"
            /\ \A t \in Threads : slot[t] = s => ~Solid(t)

(* One thread at most sends on a session, under sendFlag. *)
SendInv ==
    /\ \A t \in Threads : Sending(t) =>
           /\ sendFlag[slot[t]] = 1 /\ send[slot[t]] = "none"
           /\ \A u \in Threads : Sending(u) /\ slot[u] = slot[t] => u = t
    /\ \A s \in Slots : send[s] # "none" => sendFlag[s] = 1

(* One thread at most is to post the next receive of a session. *)
Receiving(t) ==
    \/ op[t] = "Recv" /\ pc[t] \in {"recvRef", "wsaRecv"}
    \/ op[t] = "Accept" /\ pc[t] \in {"assignId", "publish", "register", "recvRef", "wsaRecv"}
    \/ op[t] = "Accept" /\ pc[t] = "join" /\ ~RecvFirst
RecvInv ==
    \A t \in Threads : Receiving(t) =>
        /\ recv[slot[t]] = "none"
        /\ \A u \in Threads : Receiving(u) /\ slot[u] = slot[t] => u = t

(* TypeOK but for the sign of ioCount, which the rest of IInv gives. *)
SessionTypes ==
    /\ ioCount \in [Slots -> Int]
    /\ release \in [Slots -> BOOLEAN] /\ cleanup \in [Slots -> BOOLEAN]
    /\ id \in [Slots -> Ids \cup {NoId}]
    /\ state \in [Slots -> {"Free", "Connected"}] /\ socket \in [Slots -> BOOLEAN]
    /\ recv \in [Slots -> Outcomes] /\ send \in [Slots -> Outcomes \ {"fin"}]
    /\ posted \in [Slots -> Nat]
    /\ sendFlag \in [Slots -> {0, 1}]
    /\ ring \in [Slots -> Seq(Packets)] /\ sent \in [Slots -> Seq(Packets)]
ServerTypes ==
    /\ pktRef \in [Packets -> Int]
    /\ free \subseteq Slots /\ nextUnique \in Nat /\ sessionCount \in Int
    /\ joined \subseteq Ids \cup {NoId} /\ left \subseteq Ids \cup {NoId}
    /\ refused \subseteq Ids \cup {NoId} /\ sends \in Nat
ThreadTypes ==
    /\ pc \in [Threads -> Labels] /\ op \in [Threads -> Ops]
    /\ arg \in [Threads -> Ids \cup {NoId}] /\ slot \in [Threads -> Slots \cup {NoSlot}]
    /\ own \in [Threads -> SUBSET {"call", "io"}]
    /\ pkt \in [Threads -> Packets \cup {NoPacket}] /\ zero \in [Threads -> BOOLEAN]
TypeInv == SessionTypes /\ ServerTypes /\ ThreadTypes

(* The inductive invariant. TypeOK, RefCountExact, ReferencedIsLive,        *)
(* OneSender and NoRefAfterRelease follow from it.                          *)
IInv ==
    /\ TypeInv /\ ThreadInv /\ FreshIds /\ SlotInv /\ CleanerInv /\ SolidInv /\ PrepareInv
    /\ SendInv /\ RecvInv /\ RefCountExact /\ ReferencedIsLive

-----------------------------------------------------------------------------
(* What the reference count makes possible: the fields of a session follow   *)
(* the worker that cleans it up, and its release is handed over exactly.     *)

At(s, labels) == \E t \in Threads : slot[t] = s /\ pc[t] \in labels

(* The state and the socket, from Publish to CloseSocket and Reset. *)
StateInv ==
    \A s \in Slots :
        /\ state[s] = "Connected" <=> id[s] # NoId /\ ~At(s, {"publish"})
        /\ socket[s] <=> state[s] = "Connected" /\ ~At(s, {"leave", "drainAll", "reset"})

(* An id whose end was told is in a session only until Reset. *)
ToldInv ==
    \A i \in left :
        /\ i \in Ids /\ i[2] < nextUnique
        /\ \A s \in Slots : id[s] = i => At(s, {"drainAll", "reset"})

(* The number about to be drawn is within the bound, for a slot without id. *)
NamingInv ==
    /\ nextUnique <= MaxUnique
    /\ pc[Acceptor] = "assignId" => nextUnique < MaxUnique /\ id[slot[Acceptor]] = NoId

(* What Reset leaves behind stays so until the slot is popped again. *)
EmptyInv ==
    \A s \in Slots : s \in free \/ At(s, {"push"}) => ring[s] = <<>> /\ sendFlag[s] = 0

(* The sessions mSessionCount counts. *)
Counted == {s \in Slots : state[s] = "Connected"
                /\ ~\E t \in Threads : slot[t] = s /\ pc[t] \in {"drainAll", "reset"}}
CountInv == IsFiniteSet(Counted) /\ sessionCount = Cardinality(Counted)

(* A session in clean-up has the worker that set its flag. *)
CleanedInv == \A s \in Slots : cleanup[s] /\ s \notin free => At(s, InCleanup)

(* The second inductive invariant, on top of IInv. *)
LifeInv ==
    /\ StateInv /\ ToldInv /\ NamingInv /\ EmptyInv /\ CountInv /\ CleanedInv
    /\ ReleaseExactlyOnce

-----------------------------------------------------------------------------
(* What the application was told: every session but the one the accept       *)
(* thread has under way has joined or was refused, and none did both.       *)

Announcing == pc[Acceptor] \in {"publish", "register", "join"}
Told       == joined \cup refused

AnnounceInv ==
    /\ \A i \in Told : i \in Ids /\ i[2] < nextUnique
    /\ \A s \in Slots : id[s] # NoId => id[s] \in Told \/ (Announcing /\ slot[Acceptor] = s)
    /\ Announcing => id[slot[Acceptor]] \in Ids /\ id[slot[Acceptor]] \notin Told
    /\ left \subseteq Told /\ joined \cap refused = {}

-----------------------------------------------------------------------------
(* Where a packet is: in the boxes (rings, or send buffers) of the slots.   *)

Places(box, n, p) == {h \in Slots \X (1..n) : h[2] <= Len(box[h[1]]) /\ box[h[1]][h[2]] = p}
Occurrences(q, p) == {i \in DOMAIN q : q[i] = p}

(* PacketsHeld, with the bounds on the boxes that it takes to count in them. *)
PacketInv ==
    /\ \A s \in Slots : Len(ring[s]) <= RingCap /\ Len(sent[s]) <= Batch
    /\ \A p \in Packets : /\ IsFiniteSet(Places(ring, RingCap, p))
                        /\ IsFiniteSet(Places(sent, Batch, p))
    /\ PacketsHeld

================================================================================
