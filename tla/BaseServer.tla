------------------------------ MODULE BaseServer ------------------------------
(***************************************************************************)
(* The session engine of NetLib: one array of Session objects (slots), one *)
(* accept thread, a pool of IOCP worker threads, and application threads   *)
(* that call DisConnect and SendPacket with session ids they remember,     *)
(* possibly ids of sessions that are gone and whose slot was reused.       *)
(*                                                                         *)
(* A session's lifetime is governed by one 64-bit control word: the number *)
(* of references (ioCount), and the flags FLAG_RELEASE and FLAG_CLEANUP.   *)
(* Every step of a thread below is one atomic access of the code (a CAS, a *)
(* fetch_sub, an exchange), one critical section, or one kernel call.      *)
(***************************************************************************)
EXTENDS Integers, Sequences, FiniteSets

CONSTANTS
    Slots,      (* indexes of mSessionListHead                               *)
    Workers,    (* threads running workerThread                              *)
    Apps,       (* threads of the application that call into the server      *)
    Acceptor,   (* the one thread running acceptThread                       *)
    Packets,    (* Packet objects the application sends                      *)
    NoId,       (* the id 0 of a Session that is on the free stack           *)
    NoSlot,     (* a null Session*                                           *)
    RingCap,    (* packets sendRingBuffer holds      (code: 256 slots)       *)
    Batch,      (* MAX_SEND_PACKET                   (code: 32)              *)
    MaxUnique,  (* bound: connections accepted in a behaviour                *)
    MaxSends,   (* bound: SendPacket calls in a behaviour                    *)
    LoginCopy   (* TRUE: the copy of BaseServer.cpp in LoginServer/Netlib    *)

Threads == Workers \cup Apps \cup {Acceptor}
Ids     == Slots \X Nat

ASSUME ThreadAssumption ==
    /\ IsFiniteSet(Threads)
    /\ Workers \cap Apps = {}
    /\ Acceptor \notin Workers \cup Apps
ASSUME ConstantAssumption ==
    /\ NoId \notin Ids
    /\ NoSlot \notin Slots
    /\ RingCap \in Nat \ {0}
    /\ Batch \in Nat \ {0}
    /\ MaxUnique \in Nat
    /\ MaxSends \in Nat
    /\ LoginCopy \in BOOLEAN

VARIABLES
    ioCount,        (* low half of control: references to the session        *)
    release,        (* FLAG_RELEASE: the end of the session was requested    *)
    cleanup,        (* FLAG_CLEANUP: a worker owns the clean-up              *)
    id,             (* Session::id                                           *)
    state,          (* Session::state                                        *)
    socket,         (* is Session::socket an open handle?                    *)
    recv,           (* the overlapped WSARecv: idle, in the kernel, or the   *)
                    (* outcome its completion in the IOCP carries            *)
    send,           (* the overlapped WSASend, likewise                      *)
    posted,         (* RELEASE completions in the IOCP for the session       *)
    sendFlag,       (* Session::sendFlag                                     *)
    ring,           (* Session::sendRingBuffer                               *)
    sent,           (* sendOverlapped.sentPackets[0 .. packetCount-1]        *)
    pktRef,         (* references the sessions hold on a Packet              *)
    free,           (* mSessionEmptyIndexStack; popped in any order          *)
    nextUnique,     (* mSessionID                                            *)
    sessionCount,   (* mSessionCount                                         *)
    joined,         (* ids OnClientJoin told the application                 *)
    left,           (* ids OnClientLeave told the application                *)
    refused,        (* ids of sessions the IOCP did not take (history)       *)
    sends,          (* SendPacket calls so far (bounded by MaxSends)         *)
    pc,             (* what the thread does next                             *)
    op,             (* the call or completion the thread is serving          *)
    arg,            (* the session id it serves it for                       *)
    slot,           (* its local Session*                                    *)
    own,            (* references it must give back: of the call, of an I/O  *)
    pkt,            (* its local Packet*                                     *)
    zero            (* ioCountBefore = 0 in its requestRelease               *)

ctlVars  == <<ioCount, release, cleanup>>
idVars   == <<id, state, socket>>
sendVars == <<sendFlag, ring, sent, pktRef>>
poolVars == <<free, nextUnique, sessionCount>>
appVars  == <<joined, left, refused, sends>>
ctxVars  == <<op, arg, slot, pkt>>
vars == <<ctlVars, idVars, recv, send, posted, sendVars, poolVars, appVars,
          pc, ctxVars, own, zero>>

NoPacket == "none"
Outcomes == {"none", "pending", "ok", "fin", "failed"}
Ops      == {"none", "Accept", "DisConnect", "SendPacket", "Recv", "Send",
             "Failed", "Release"}
Labels   == {"idle", "assignId", "publish", "register", "join", "acquire",
             "recheck", "enqueue", "exchange", "drain", "sendRef", "wsaSend",
             "clearFlag", "resetFlag", "recvRef", "wsaRecv", "setRelease",
             "cancel", "dropIo", "dropCall", "cleanup", "close", "leave",
             "drainAll", "reset", "push"}

-----------------------------------------------------------------------------
(* Thread steps.                                                           *)

Goto(t, l) == pc' = [pc EXCEPT ![t] = l]

(* A call starts: the thread remembers what it serves and on which session. *)
Begin(t, o, i, s, p, l) ==
    /\ op'   = [op EXCEPT ![t] = o]
    /\ arg'  = [arg EXCEPT ![t] = i]
    /\ slot' = [slot EXCEPT ![t] = s]
    /\ pkt'  = [pkt EXCEPT ![t] = p]
    /\ Goto(t, l)

(* The call returns. *)
End(t) == Begin(t, "none", NoId, NoSlot, NoPacket, "idle")

(* IncreaseIoCount is refused once FLAG_RELEASE is set. *)
Mutant_MayTakeRef(s) == TRUE
MayTakeRef(s) == ~release[s]

(* The CAS of IncreaseIoCount succeeds: one more reference. *)
TakeRef(t, s, r) ==
    /\ ioCount' = [ioCount EXCEPT ![s] = @ + 1]
    /\ own' = [own EXCEPT ![t] = @ \cup {r}]
    /\ UNCHANGED <<release, cleanup>>

(* decreaseSessionIoCount: the fetch_sub, and the RELEASE completion posted *)
(* by the one that takes the count of a released session to zero.           *)
DropRef(t, s, r) ==
    /\ ioCount' = [ioCount EXCEPT ![s] = @ - 1]
    /\ own' = [own EXCEPT ![t] = @ \ {r}]
    /\ posted' = IF ioCount[s] = 1 /\ release[s] /\ ~cleanup[s]
                 THEN [posted EXCEPT ![s] = @ + 1] ELSE posted
    /\ UNCHANGED <<release, cleanup>>

(* A reference of a session on a packet: AddRef; SubRef on all of q. *)
Mutant_AddRef(p) == UNCHANGED pktRef
AddRef(p)  == pktRef' = [pktRef EXCEPT ![p] = @ + 1]
SubRefs(q) == pktRef' = [p \in Packets |-> pktRef[p] - Cardinality({i \in DOMAIN q : q[i] = p})]

(* The login server's copy posts the first receive before OnClientJoin, the *)
(* others after.                                                            *)
Mutant_RecvFirst == TRUE
RecvFirst == LoginCopy

(* Where requestRelease returns to: the references still owned are dropped. *)
Mutant_AfterRelease(t) ==
    IF own[t] = {} THEN End(t) ELSE Goto(t, "dropCall") /\ UNCHANGED ctxVars
AfterRelease(t) ==
    IF own[t] = {} THEN End(t)
    ELSE /\ Goto(t, IF "io" \in own[t] THEN "dropIo" ELSE "dropCall")
         /\ UNCHANGED ctxVars

-----------------------------------------------------------------------------
(* acceptThread.                                                           *)

(* Session::Init. *)
InitSession(s) ==
    /\ ioCount'  = [ioCount EXCEPT ![s] = 0]
    /\ release'  = [release EXCEPT ![s] = FALSE]
    /\ cleanup'  = [cleanup EXCEPT ![s] = FALSE]
    /\ id'       = [id EXCEPT ![s] = NoId]
    /\ state'    = [state EXCEPT ![s] = "Free"]
    /\ socket'   = [socket EXCEPT ![s] = FALSE]
    /\ sendFlag' = [sendFlag EXCEPT ![s] = 0]
    /\ ring'     = [ring EXCEPT ![s] = <<>>]
    /\ sent'     = [sent EXCEPT ![s] = <<>>]

(* accept() returned and createSession popped a free slot, initialised under *)
(* the stack's lock. An empty stack closes the socket: no step.             *)
Accept ==
    /\ pc[Acceptor] = "idle"
    /\ nextUnique < MaxUnique
    /\ \E s \in free :
         /\ free' = free \ {s}
         /\ InitSession(s)
         /\ Begin(Acceptor, "Accept", NoId, s, NoPacket, "assignId")
    /\ UNCHANGED <<recv, send, posted, pktRef, nextUnique, sessionCount, appVars, own, zero>>

(* createSession: the unique number is drawn and the id stored. *)
AssignId ==
    /\ pc[Acceptor] = "assignId"
    /\ id' = [id EXCEPT ![slot[Acceptor]] = <<slot[Acceptor], nextUnique>>]
    /\ nextUnique' = nextUnique + 1
    /\ Goto(Acceptor, "publish")
    /\ UNCHANGED <<ctlVars, state, socket, recv, send, posted, sendVars, free, sessionCount,
                   appVars, ctxVars, own, zero>>

(* createSession ends (state, mSessionCount) and the socket is stored; no   *)
(* other thread knows the id yet.                                           *)
Publish ==
    /\ pc[Acceptor] = "publish"
    /\ state'  = [state EXCEPT ![slot[Acceptor]] = "Connected"]
    /\ socket' = [socket EXCEPT ![slot[Acceptor]] = TRUE]
    /\ sessionCount' = sessionCount + 1
    /\ Goto(Acceptor, "register")
    /\ UNCHANGED <<ctlVars, id, recv, send, posted, sendVars, free, nextUnique, appVars,
                   ctxVars, own, zero>>

(* CreateIoCompletionPort; on an error the session is released at once and  *)
(* OnClientJoin never called for it.                                        *)
Register ==
    /\ pc[Acceptor] = "register"
    /\ \/ Goto(Acceptor, IF RecvFirst THEN "recvRef" ELSE "join") /\ UNCHANGED refused
       \/ Goto(Acceptor, "setRelease") /\ refused' = refused \cup {id[slot[Acceptor]]}
    /\ UNCHANGED <<ctlVars, idVars, recv, send, posted, sendVars, poolVars, joined, left, sends,
                   ctxVars, own, zero>>

(* OnClientJoin(newSession->id): the id is read from the session here. *)
Join ==
    /\ pc[Acceptor] = "join"
    /\ joined' = joined \cup {id[slot[Acceptor]]}
    /\ IF RecvFirst THEN End(Acceptor) ELSE Goto(Acceptor, "recvRef") /\ UNCHANGED ctxVars
    /\ UNCHANGED <<ctlVars, idVars, recv, send, posted, sendVars, poolVars, left, refused,
                   sends, own, zero>>

-----------------------------------------------------------------------------
(* Calls of the application: any id it was ever told, dead or alive.        *)

Known == joined \ {NoId}

(* DisConnect after a findSession that found the session; when it does not, *)
(* the call returns without a step.                                         *)
DisConnect(t, i) ==
    /\ pc[t] = "idle"
    /\ i \in Known
    /\ id[i[1]] = i /\ state[i[1]] = "Connected"
    /\ Begin(t, "DisConnect", i, i[1], NoPacket, "acquire")
    /\ UNCHANGED <<ctlVars, idVars, recv, send, posted, sendVars, poolVars, appVars, own, zero>>

(* SendPacket after a findSession that found the session. *)
SendPacket(t, i, p) ==
    /\ pc[t] = "idle"
    /\ i \in Known
    /\ sends < MaxSends
    /\ id[i[1]] = i /\ state[i[1]] = "Connected"
    /\ sends' = sends + 1
    /\ Begin(t, "SendPacket", i, i[1], p, "acquire")
    /\ UNCHANGED <<ctlVars, idVars, recv, send, posted, sendVars, poolVars, joined, left,
                   refused, own, zero>>

(* IncreaseIoCount of both calls. *)
Acquire(t) ==
    /\ pc[t] = "acquire"
    /\ IF MayTakeRef(slot[t])
       THEN TakeRef(t, slot[t], "call") /\ Goto(t, "recheck") /\ UNCHANGED ctxVars
       ELSE End(t) /\ UNCHANGED <<ctlVars, own>>
    /\ UNCHANGED <<idVars, recv, send, posted, sendVars, poolVars, appVars, zero>>

(* The re-validation under the reference: the slot may have been reused     *)
(* between findSession and IncreaseIoCount. DisConnect compares the id only. *)
Mutant_SameSession(t) == TRUE
SameSession(t) ==
    /\ id[slot[t]] = arg[t]
    /\ op[t] = "SendPacket" => state[slot[t]] = "Connected"

Recheck(t) ==
    /\ pc[t] = "recheck"
    /\ Goto(t, IF ~SameSession(t) THEN "dropCall"
               ELSE IF op[t] = "DisConnect" THEN "setRelease" ELSE "enqueue")
    /\ UNCHANGED <<ctlVars, idVars, recv, send, posted, sendVars, poolVars, appVars, ctxVars,
                   own, zero>>

(* AddRef and EnqueueItem under the session's lock; a full ring rolls the   *)
(* reference back and asks for the release of the session.                  *)
Enqueue(t) ==
    /\ pc[t] = "enqueue"
    /\ IF Len(ring[slot[t]]) < RingCap
       THEN /\ ring' = [ring EXCEPT ![slot[t]] = Append(@, pkt[t])]
            /\ AddRef(pkt[t])
            /\ Goto(t, "exchange")
       ELSE Goto(t, "setRelease") /\ UNCHANGED <<ring, pktRef>>
    /\ UNCHANGED <<ctlVars, idVars, recv, send, posted, sendFlag, sent, poolVars, appVars,
                   ctxVars, own, zero>>

-----------------------------------------------------------------------------
(* postSend, called by SendPacket and by the completion of a send.          *)

(* sendFlag.exchange(1): whoever reads 1 leaves the sending to its owner. *)
Mutant_FlagWasClear(s) == TRUE
FlagWasClear(s) == sendFlag[s] = 0

Exchange(t) ==
    /\ pc[t] = "exchange"
    /\ sendFlag' = [sendFlag EXCEPT ![slot[t]] = 1]
    /\ Goto(t, IF FlagWasClear(slot[t]) THEN "drain" ELSE "dropCall")
    /\ UNCHANGED <<ctlVars, idVars, recv, send, posted, ring, sent, pktRef, poolVars, appVars,
                   ctxVars, own, zero>>

(* Under the session's lock at most Batch packets move to sendOverlapped. *)
BatchSize(q) == IF Len(q) < Batch THEN Len(q) ELSE Batch

Drain(t) ==
    LET s == slot[t]
        n == BatchSize(ring[s])
    IN  /\ pc[t] = "drain"
        /\ sent' = [sent EXCEPT ![s] = SubSeq(ring[s], 1, n)]
        /\ ring' = [ring EXCEPT ![s] = SubSeq(@, n + 1, Len(@))]
        /\ Goto(t, IF n = 0 THEN "clearFlag" ELSE "sendRef")
        /\ UNCHANGED <<ctlVars, idVars, recv, send, posted, sendFlag, pktRef, poolVars, appVars,
                       ctxVars, own, zero>>

(* The reference of the send I/O; when the session is being released the    *)
(* packets just taken lose theirs.                                          *)
SendRef(t) ==
    LET s == slot[t]
    IN  /\ pc[t] = "sendRef"
        /\ IF MayTakeRef(s)
           THEN TakeRef(t, s, "io") /\ Goto(t, "wsaSend") /\ UNCHANGED <<sent, pktRef>>
           ELSE /\ SubRefs(sent[s])
                /\ sent' = [sent EXCEPT ![s] = <<>>]
                /\ Goto(t, "clearFlag")
                /\ UNCHANGED <<ctlVars, own>>
        /\ UNCHANGED <<idVars, recv, send, posted, sendFlag, ring, poolVars, appVars, ctxVars, zero>>

(* WSASend: pending (its reference now belongs to the I/O), or an error.    *)
(* The login server's copy does not ask for the release on an error.        *)
WsaSend(t) ==
    LET s == slot[t]
    IN  /\ pc[t] = "wsaSend"
        /\ \/ /\ send' = [send EXCEPT ![s] = "pending"]
              /\ own' = [own EXCEPT ![t] = @ \ {"io"}]
              /\ Goto(t, "dropCall")
              /\ UNCHANGED <<sent, pktRef>>
           \/ /\ SubRefs(sent[s])
              /\ sent' = [sent EXCEPT ![s] = <<>>]
              /\ Goto(t, IF LoginCopy THEN "dropIo" ELSE "setRelease")
              /\ UNCHANGED <<send, own>>
        /\ UNCHANGED <<ctlVars, idVars, recv, posted, sendFlag, ring, poolVars, appVars, ctxVars,
                       zero>>

(* sendFlag.store(0) on the ways out of postSend that leave nothing pending. *)
ClearFlag(t) ==
    /\ pc[t] = "clearFlag"
    /\ sendFlag' = [sendFlag EXCEPT ![slot[t]] = 0]
    /\ Goto(t, "dropCall")
    /\ UNCHANGED <<ctlVars, idVars, recv, send, posted, ring, sent, pktRef, poolVars, appVars,
                   ctxVars, own, zero>>

-----------------------------------------------------------------------------
(* postRecv, called by acceptThread and after each completed receive.       *)

(* IncreaseIoCount. When it is refused the worker asks for a release that   *)
(* is already under way; the accept thread only logs.                       *)
RecvRef(t) ==
    LET s == slot[t]
    IN  /\ pc[t] = "recvRef"
        /\ IF MayTakeRef(s)
           THEN TakeRef(t, s, "io") /\ Goto(t, "wsaRecv") /\ UNCHANGED ctxVars
           ELSE /\ UNCHANGED <<ctlVars, own>>
                /\ IF op[t] = "Recv" THEN Goto(t, "setRelease") /\ UNCHANGED ctxVars
                   ELSE IF RecvFirst THEN Goto(t, "join") /\ UNCHANGED ctxVars
                   ELSE End(t)
        /\ UNCHANGED <<idVars, recv, send, posted, sendVars, poolVars, appVars, zero>>

(* WSARecv: pending, or an error that asks for the release. *)
WsaRecv(t) ==
    /\ pc[t] = "wsaRecv"
    /\ \/ /\ recv' = [recv EXCEPT ![slot[t]] = "pending"]
          /\ own' = [own EXCEPT ![t] = @ \ {"io"}]
          /\ IF op[t] = "Recv" THEN Goto(t, "dropCall") /\ UNCHANGED ctxVars
             ELSE IF RecvFirst THEN Goto(t, "join") /\ UNCHANGED ctxVars
             ELSE End(t)
       \/ Goto(t, "setRelease") /\ UNCHANGED <<recv, own, ctxVars>>
    /\ UNCHANGED <<ctlVars, idVars, send, posted, sendVars, poolVars, appVars, zero>>

-----------------------------------------------------------------------------
(* requestRelease and decreaseSessionIoCount.                               *)

(* TrySetReleaseFlag: the first caller wins and notes whether ioCount was 0. *)
SetRelease(t) ==
    LET s == slot[t]
    IN  /\ pc[t] = "setRelease"
        /\ IF release[s]
           THEN AfterRelease(t) /\ UNCHANGED <<release, zero>>
           ELSE /\ release' = [release EXCEPT ![s] = TRUE]
                /\ zero' = [zero EXCEPT ![t] = ioCount[s] = 0]
                /\ Goto(t, "cancel")
                /\ UNCHANGED ctxVars
        /\ UNCHANGED <<ioCount, cleanup, idVars, recv, send, posted, sendVars, poolVars, appVars, own>>

(* CancelIoEx fails the I/Os that are in the kernel now; then the RELEASE   *)
(* completion is posted if there was no reference to wait for.              *)
Mutant_ReleasePosts(t, s) == [posted EXCEPT ![s] = @ + 1]
Mutant_NeverPosts(t, s) == posted
ReleasePosts(t, s) == IF zero[t] THEN [posted EXCEPT ![s] = @ + 1] ELSE posted
Cancelled(io)      == IF io = "pending" THEN "failed" ELSE io

Cancel(t) ==
    LET s == slot[t]
    IN  /\ pc[t] = "cancel"
        /\ recv' = IF socket[s] THEN [recv EXCEPT ![s] = Cancelled(@)] ELSE recv
        /\ send' = IF socket[s] THEN [send EXCEPT ![s] = Cancelled(@)] ELSE send
        /\ posted' = ReleasePosts(t, s)
        /\ zero' = [zero EXCEPT ![t] = FALSE]
        /\ AfterRelease(t)
        /\ UNCHANGED <<ctlVars, idVars, sendVars, poolVars, appVars, own>>

(* The reference of an I/O that was not started is given back. *)
DropIo(t) ==
    /\ pc[t] = "dropIo"
    /\ DropRef(t, slot[t], "io")
    /\ IF op[t] \in {"SendPacket", "Send"} THEN Goto(t, "clearFlag") /\ UNCHANGED ctxVars
       ELSE IF op[t] = "Recv" THEN Goto(t, "setRelease") /\ UNCHANGED ctxVars
       ELSE IF RecvFirst THEN Goto(t, "join") /\ UNCHANGED ctxVars
       ELSE End(t)
    /\ UNCHANGED <<idVars, recv, send, sendVars, poolVars, appVars, zero>>

(* The reference of the call, or of the completed I/O, is given back last. *)
DropCall(t) ==
    /\ pc[t] = "dropCall"
    /\ DropRef(t, slot[t], "call")
    /\ End(t)
    /\ UNCHANGED <<idVars, recv, send, sendVars, poolVars, appVars, zero>>

-----------------------------------------------------------------------------
(* workerThread: the completions a worker takes from the IOCP.              *)

(* The completed I/O hands its reference to the worker. *)
Completion(w, s, o, l) ==
    /\ pc[w] = "idle"
    /\ Begin(w, o, NoId, s, NoPacket, l)
    /\ own' = [own EXCEPT ![w] = {"call"}]

(* GetQueuedCompletionStatus returned FALSE, or a receive of 0 bytes. *)
RecvEnded(w, s) ==
    /\ recv[s] \in {"failed", "fin"}
    /\ recv' = [recv EXCEPT ![s] = "none"]
    /\ Completion(w, s, "Failed", "setRelease")
    /\ UNCHANGED <<ctlVars, idVars, send, posted, sendVars, poolVars, appVars, zero>>

SendFailed(w, s) ==
    /\ send[s] = "failed"
    /\ send' = [send EXCEPT ![s] = "none"]
    /\ Completion(w, s, "Failed", "setRelease")
    /\ UNCHANGED <<ctlVars, idVars, recv, posted, sendVars, poolVars, appVars, zero>>

(* Data arrived: the packets are parsed and OnRecv is called for each; what *)
(* the application does there is what Apps may do at any time. A parse      *)
(* error asks for the release, else the next receive is posted.             *)
RecvData(w, s) ==
    /\ recv[s] = "ok"
    /\ recv' = [recv EXCEPT ![s] = "none"]
    /\ \E parseError \in BOOLEAN :
         Completion(w, s, "Recv", IF parseError THEN "setRelease" ELSE "recvRef")
    /\ UNCHANGED <<ctlVars, idVars, send, posted, sendVars, poolVars, appVars, zero>>

(* A send completed: its packets lose their references, packetCount = 0. *)
SendDone(w, s) ==
    /\ send[s] = "ok"
    /\ send' = [send EXCEPT ![s] = "none"]
    /\ SubRefs(sent[s])
    /\ sent' = [sent EXCEPT ![s] = <<>>]
    /\ Completion(w, s, "Send", "resetFlag")
    /\ UNCHANGED <<ctlVars, idVars, recv, posted, sendFlag, ring, poolVars, appVars, zero>>

(* sendFlag.store(0), then postSend for what is left in the ring. *)
ResetFlag(w) ==
    /\ pc[w] = "resetFlag"
    /\ sendFlag' = [sendFlag EXCEPT ![slot[w]] = 0]
    /\ Goto(w, "exchange")
    /\ UNCHANGED <<ctlVars, idVars, recv, send, posted, ring, sent, pktRef, poolVars, appVars,
                   ctxVars, own, zero>>

-----------------------------------------------------------------------------
(* releaseSession.                                                          *)

ReleaseTaken(w, s) ==
    /\ pc[w] = "idle"
    /\ posted[s] > 0
    /\ posted' = [posted EXCEPT ![s] = @ - 1]
    /\ Begin(w, "Release", NoId, s, NoPacket, "cleanup")
    /\ UNCHANGED <<ctlVars, idVars, recv, send, sendVars, poolVars, appVars, own, zero>>

(* The CAS that makes this worker the one that cleans up. *)
Cleanup(w) ==
    LET s == slot[w]
    IN  /\ pc[w] = "cleanup"
        /\ IF ioCount[s] # 0 \/ ~release[s] \/ cleanup[s]
           THEN End(w) /\ UNCHANGED cleanup
           ELSE /\ cleanup' = [cleanup EXCEPT ![s] = TRUE]
                /\ Begin(w, "Release", id[s], s, NoPacket, "close")
        /\ UNCHANGED <<ioCount, release, idVars, recv, send, posted, sendVars, poolVars, appVars,
                       own, zero>>

CloseSocket(w) ==
    /\ pc[w] = "close"
    /\ socket' = [socket EXCEPT ![slot[w]] = FALSE]
    /\ Goto(w, "leave")
    /\ UNCHANGED <<ctlVars, id, state, recv, send, posted, sendVars, poolVars, appVars, ctxVars,
                   own, zero>>

(* OnClientLeave(sessionID), then mSessionCount.fetch_sub(1). *)
Mutant_Leave(w) ==
    /\ pc[w] = "leave"
    /\ left' = left \cup {arg[w]}
    /\ sessionCount' = sessionCount - 1
    /\ free' = free \cup {slot[w]}
    /\ Goto(w, "drainAll")
    /\ UNCHANGED <<ctlVars, idVars, recv, send, posted, sendVars, nextUnique, joined, refused,
                   sends, ctxVars, own, zero>>
Leave(w) ==
    /\ pc[w] = "leave"
    /\ left' = left \cup {arg[w]}
    /\ sessionCount' = sessionCount - 1
    /\ Goto(w, "drainAll")
    /\ UNCHANGED <<ctlVars, idVars, recv, send, posted, sendVars, free, nextUnique, joined,
                   refused, sends, ctxVars, own, zero>>

(* The packets still in the ring lose their references. *)
DrainAll(w) ==
    LET s == slot[w]
    IN  /\ pc[w] = "drainAll"
        /\ SubRefs(ring[s])
        /\ ring' = [ring EXCEPT ![s] = <<>>]
        /\ Goto(w, "reset")
        /\ UNCHANGED <<ctlVars, idVars, recv, send, posted, sendFlag, sent, poolVars, appVars,
                       ctxVars, own, zero>>

(* Both ring buffers, the id, the state and the flag go back to their start. *)
Mutant_Reset(w) ==
    LET s == slot[w]
    IN  /\ pc[w] = "reset"
        /\ ring'  = [ring EXCEPT ![s] = <<>>]
        /\ id'    = [id EXCEPT ![s] = NoId]
        /\ state' = [state EXCEPT ![s] = "Free"]
        /\ Goto(w, "push")
        /\ UNCHANGED <<ctlVars, socket, recv, send, posted, sendFlag, sent, pktRef, poolVars,
                       appVars, ctxVars, own, zero>>
Reset(w) ==
    LET s == slot[w]
    IN  /\ pc[w] = "reset"
        /\ ring'     = [ring EXCEPT ![s] = <<>>]
        /\ id'       = [id EXCEPT ![s] = NoId]
        /\ state'    = [state EXCEPT ![s] = "Free"]
        /\ sendFlag' = [sendFlag EXCEPT ![s] = 0]
        /\ Goto(w, "push")
        /\ UNCHANGED <<ctlVars, socket, recv, send, posted, sent, pktRef, poolVars, appVars,
                       ctxVars, own, zero>>

(* The index, taken from the id, goes back on the free stack. *)
Push(w) ==
    /\ pc[w] = "push"
    /\ free' = free \cup {arg[w][1]}
    /\ End(w)
    /\ UNCHANGED <<ctlVars, idVars, recv, send, posted, sendVars, nextUnique, sessionCount,
                   appVars, own, zero>>

-----------------------------------------------------------------------------
(* The peer and the kernel decide how a pending I/O ends.                   *)

RecvCompletes(s, o) ==
    /\ recv[s] = "pending"
    /\ recv' = [recv EXCEPT ![s] = o]
    /\ UNCHANGED <<ctlVars, idVars, send, posted, sendVars, poolVars, appVars, pc, ctxVars, own, zero>>

SendCompletes(s, o) ==
    /\ send[s] = "pending"
    /\ send' = [send EXCEPT ![s] = o]
    /\ UNCHANGED <<ctlVars, idVars, recv, posted, sendVars, poolVars, appVars, pc, ctxVars, own, zero>>

-----------------------------------------------------------------------------

Init ==
    /\ ioCount  = [s \in Slots |-> 0]
    /\ release  = [s \in Slots |-> FALSE]
    /\ cleanup  = [s \in Slots |-> FALSE]
    /\ id       = [s \in Slots |-> NoId]
    /\ state    = [s \in Slots |-> "Free"]
    /\ socket   = [s \in Slots |-> FALSE]
    /\ recv     = [s \in Slots |-> "none"]
    /\ send     = [s \in Slots |-> "none"]
    /\ posted   = [s \in Slots |-> 0]
    /\ sendFlag = [s \in Slots |-> 0]
    /\ ring     = [s \in Slots |-> <<>>]
    /\ sent     = [s \in Slots |-> <<>>]
    /\ pktRef   = [p \in Packets |-> 0]
    /\ free = Slots /\ nextUnique = 0 /\ sessionCount = 0
    /\ joined = {} /\ left = {} /\ refused = {} /\ sends = 0
    /\ pc   = [t \in Threads |-> "idle"]
    /\ op   = [t \in Threads |-> "none"]
    /\ arg  = [t \in Threads |-> NoId]
    /\ slot = [t \in Threads |-> NoSlot]
    /\ own  = [t \in Threads |-> {}]
    /\ pkt  = [t \in Threads |-> NoPacket]
    /\ zero = [t \in Threads |-> FALSE]

AcceptStep == Accept \/ AssignId \/ Publish \/ Register \/ Join

Call(t) ==
    \E i \in Known : DisConnect(t, i) \/ \E p \in Packets : SendPacket(t, i, p)

(* The rest of a call or of the service of a completion. *)
Continue(t) ==
    \/ Acquire(t) \/ Recheck(t) \/ Enqueue(t)
    \/ Exchange(t) \/ Drain(t) \/ SendRef(t) \/ WsaSend(t) \/ ClearFlag(t)
    \/ RecvRef(t) \/ WsaRecv(t)
    \/ SetRelease(t) \/ Cancel(t) \/ DropIo(t) \/ DropCall(t)
    \/ ResetFlag(t)
    \/ Cleanup(t) \/ CloseSocket(t) \/ Leave(t) \/ DrainAll(t) \/ Reset(t) \/ Push(t)

Dequeue(w, s) ==
    RecvEnded(w, s) \/ RecvData(w, s) \/ SendFailed(w, s) \/ SendDone(w, s) \/ ReleaseTaken(w, s)

Network(s) ==
    \/ \E o \in {"ok", "fin", "failed"} : RecvCompletes(s, o)
    \/ \E o \in {"ok", "failed"} : SendCompletes(s, o)

Next ==
    \/ AcceptStep
    \/ \E t \in Apps : Call(t)
    \/ \E t \in Threads : Continue(t)
    \/ \E w \in Workers, s \in Slots : Dequeue(w, s)
    \/ \E s \in Slots : Network(s)

Spec == Init /\ [][Next]_vars

-----------------------------------------------------------------------------
(* Type invariant: the shape of every Session field and thread local. *)
TypeOK ==
    /\ ioCount \in [Slots -> Nat]
    /\ release \in [Slots -> BOOLEAN] /\ cleanup \in [Slots -> BOOLEAN]
    /\ id \in [Slots -> Ids \cup {NoId}]
    /\ state \in [Slots -> {"Free", "Connected"}] /\ socket \in [Slots -> BOOLEAN]
    /\ recv \in [Slots -> Outcomes] /\ send \in [Slots -> Outcomes \ {"fin"}]
    /\ posted \in [Slots -> Nat]
    /\ sendFlag \in [Slots -> {0, 1}]
    /\ ring \in [Slots -> Seq(Packets)] /\ sent \in [Slots -> Seq(Packets)]
    /\ pktRef \in [Packets -> Int]
    /\ free \subseteq Slots /\ nextUnique \in Nat /\ sessionCount \in Int
    /\ joined \subseteq Ids \cup {NoId} /\ left \subseteq Ids \cup {NoId}
    /\ refused \subseteq Ids \cup {NoId} /\ sends \in Nat
    /\ pc \in [Threads -> Labels] /\ op \in [Threads -> Ops]
    /\ arg \in [Threads -> Ids \cup {NoId}] /\ slot \in [Threads -> Slots \cup {NoSlot}]
    /\ own \in [Threads -> SUBSET {"call", "io"}]
    /\ pkt \in [Threads -> Packets \cup {NoPacket}] /\ zero \in [Threads -> BOOLEAN]

(* The references of a session: those threads must give back, and one for   *)
(* each I/O in the kernel or in the completion queue.                       *)
ThreadRefs(s) == {r \in Threads \X {"call", "io"} : slot[r[1]] = s /\ r[2] \in own[r[1]]}
IoRefs(io)    == IF io = "none" THEN 0 ELSE 1

(* The count in the control word is the number of references there are: no  *)
(* path of the engine drops one twice, forgets one, or loses one to the     *)
(* store(0) of Session::Init while a caller with a stale id holds it.       *)
RefCountExact ==
    \A s \in Slots :
        ioCount[s] = Cardinality(ThreadRefs(s)) + IoRefs(recv[s]) + IoRefs(send[s])

(* A slot is neither cleaned up nor handed out again while anything refers  *)
(* to the session in it.                                                    *)
ReferencedIsLive ==
    \A s \in Slots :
        s \in free \/ cleanup[s] =>
            ThreadRefs(s) = {} /\ recv[s] = "none" /\ send[s] = "none"

(* Whose turn it is to bring a session whose last reference is gone to its  *)
(* clean-up: a RELEASE completion, the thread about to post it, the worker  *)
(* that took it.                                                            *)
InCleanup == {"close", "leave", "drainAll", "reset", "push"}
Releasing(t) == pc[t] \in InCleanup \cup {"cleanup"} \/ (pc[t] = "cancel" /\ zero[t])
Releasers(s) == {t \in Threads : slot[t] = s /\ Releasing(t)}

(* The hand-over of the release is exact: as soon as a released session has *)
(* no reference there is exactly one RELEASE under way for it, until its    *)
(* slot is free; and there is none before.                                  *)
ReleaseExactlyOnce ==
    \A s \in Slots :
        posted[s] + Cardinality(Releasers(s)) =
            IF release[s] /\ ioCount[s] = 0 /\ s \notin free THEN 1 ELSE 0

(* Past the re-validation a call works on the session it was asked for, not *)
(* on a later connection that reuses the slot, and that session is whole.   *)
TargetAlive ==
    \A t \in Apps :
        "call" \in own[t] /\ pc[t] \notin {"recheck", "dropCall"} =>
            /\ id[slot[t]] = arg[t] /\ state[slot[t]] = "Connected"
            /\ socket[slot[t]] /\ arg[t] \notin left

(* sendFlag is a lock on sendOverlapped: one thread in the sending part of  *)
(* postSend, or one WSASend in flight, or one completion being served, and  *)
(* never two of these.                                                      *)
Sending(t) ==
    \/ pc[t] \in {"drain", "sendRef", "wsaSend", "clearFlag", "resetFlag"}
    \/ "io" \in own[t] /\ op[t] \in {"SendPacket", "Send"}
Senders(s) == {t \in Threads : slot[t] = s /\ Sending(t)}
OneSender ==
    \A s \in Slots :
        /\ Cardinality(Senders(s)) + IoRefs(send[s]) <= 1
        /\ Cardinality(Senders(s)) + IoRefs(send[s]) = 1 => sendFlag[s] = 1

(* A Packet in a ring or handed to WSASend still has the references that    *)
(* keep it from going back to its pool.                                     *)
Held(p) ==
    Cardinality({h \in Slots \X (1..RingCap) : h[2] <= Len(ring[h[1]]) /\ ring[h[1]][h[2]] = p})
      + Cardinality({h \in Slots \X (1..Batch) : h[2] <= Len(sent[h[1]]) /\ sent[h[1]][h[2]] = p})
PacketsHeld == \A p \in Packets : pktRef[p] >= Held(p)

(* What createSession takes from the free stack carries nothing of the      *)
(* connection before: no packet, no flag, no socket, no I/O.                *)
CleanRecycled ==
    \A s \in free :
        /\ id[s] = NoId /\ state[s] = "Free" /\ ~socket[s]
        /\ ring[s] = <<>> /\ sendFlag[s] = 0 /\ ioCount[s] = 0 /\ posted[s] = 0

(* mSessionCount counts the sessions between createSession and              *)
(* OnClientLeave, so releaseSession never finds it at 0 (its __debugbreak). *)
SessionCountExact ==
    sessionCount =
        Cardinality({s \in Slots : state[s] = "Connected"
                        /\ ~\E t \in Threads : slot[t] = s /\ pc[t] \in {"drainAll", "reset"}})

(* The application is told of the end of a session only after it was told of *)
(* the session, under its id; of a session the IOCP did not take it hears    *)
(* the end, and never that it joined.                                       *)
JoinBeforeLeave ==
    /\ left \subseteq joined \cup refused
    /\ joined \cap refused = {} /\ NoId \notin joined

(* After FLAG_RELEASE the references of a session only go away.             *)
NoRefAfterRelease ==
    [][\A s \in Slots : release[s] /\ release'[s] => ioCount'[s] <= ioCount[s]]_vars

-----------------------------------------------------------------------------
(* What the comments promise and the code does not do.                      *)

(* A packet in the ring of a live session has someone who will send it: a   *)
(* send in flight, or a thread before or inside postSend.                   *)
NoStrandedPacket ==
    \A s \in Slots :
        ring[s] # <<>> /\ state[s] = "Connected" /\ ~release[s] =>
            \/ send[s] # "none"
            \/ \E t \in Threads : slot[t] = s
                 /\ pc[t] \in {"exchange", "drain", "sendRef", "wsaSend", "clearFlag", "resetFlag",
                              "setRelease", "cancel", "dropIo"}

(* When no connection is left, no Packet is referenced any more.            *)
NoPacketLeak ==
    free = Slots => \A p \in Packets : pktRef[p] = 0

(* Every thread runs; a send ends, the kernel buffers it; what CancelIoEx   *)
(* cancelled is in the IOCP, whose completions are taken in order of arrival *)
(* and so none is passed over forever. The peer may stay silent forever.    *)
Fairness ==
    /\ WF_vars(AssignId \/ Publish \/ Register \/ Join)
    /\ \A t \in Threads : WF_vars(Continue(t))
    /\ \A s \in Slots : WF_vars(\E o \in {"ok", "failed"} : SendCompletes(s, o))
    /\ \A s \in Slots : SF_vars(\E w \in Workers : Dequeue(w, s))
FairSpec == Spec /\ Fairness

(* The same with a peer that at last sends, closes or is reset. *)
PeerFairSpec ==
    FairSpec /\ \A s \in Slots : WF_vars(\E o \in {"ok", "fin", "failed"} : RecvCompletes(s, o))

(* Once its release is requested a session comes to an end.                 *)
ReleaseCompletes == \A s \in Slots : release[s] ~> s \in free

=============================================================================
