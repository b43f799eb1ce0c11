-------------------------- MODULE LoginChatInvariant ---------------------------
(***************************************************************************)
(* The induction hypotheses of LoginChatProofs: what the keys, the jobs of   *)
(* the login server and the packets under way in the chat server say of the  *)
(* clients they belong to.                                                  *)
(***************************************************************************)
EXTENDS LoginChat

-----------------------------------------------------------------------------
(* Keys.                                                                    *)

KeyTypes ==
    /\ store \in [Accounts -> [key : Keys \cup {None}, by : Clients \cup {None}]]
    /\ issued \in [Logins -> Nat] /\ admitted \in [Logins -> Nat]
    /\ fate \in [Clients -> {"none", "pending", "failed", "valid", "gone"}]

(* A stored key may let in one more session. *)
Stored(l) == IF store[l[1]].key = l[2] THEN 1 ELSE 0
KeysOnce  == \A l \in Logins : admitted[l] + Stored(l) <= issued[l]
KeyInv    == KeyTypes /\ KeysOnce

-----------------------------------------------------------------------------
(* The login server.                                                        *)

Asks == {"PACKET", "BAD"}
Jobs == [type : {"JOIN"}, id : Clients \cup {Zero}]
        \cup [type : Asks \cup {"LEAVE"}, id : Clients]
LoginTypes ==
    /\ session \in [Clients -> {"new", "open", "closing", "left"}]
    /\ accepting \in Clients \cup {None}
    /\ jobs \in [ContentThreads -> Seq(Jobs)]
    /\ step \in [ContentThreads -> {"wait", "store", "answer"}]
    /\ status \in [ContentThreads -> {"ok", "fail"}]
    /\ playerOf \subseteq Clients \cup {Zero} /\ late \subseteq Clients
    /\ asked \in [Clients -> Logins \cup {BadRequest}]
    /\ told \in [Clients -> {"nothing", "waits", "ok", "fail"}]

(* What a job in the queue of thread t says of its session. *)
Pending(t) == {jobs[t][k] : k \in 1 .. Len(jobs[t])}
JobOf(t, job) ==
    LET c == job.id
    IN  /\ ThreadOf[c] = t
        /\ c \in Clients => session[c] # "new"
        /\ job.type = "JOIN" /\ c \in Clients =>
               accepting # c /\ (c \notin late => c \notin playerOf)
        /\ job.type \in Asks => told[c] = "waits"
        /\ job.type = "PACKET" => asked[c] \in Logins
        /\ job.type = "LEAVE" => session[c] = "left"

(* The JOIN is the first job of its session, unless it is late; there is one *)
(* request.                                                                 *)
InOrder(t) == \A k \in 1 .. Len(jobs[t]) : \A j \in 1 .. k - 1 :
    LET c == jobs[t][k].id
    IN  c \in Clients /\ jobs[t][j].id = c =>
          /\ jobs[t][k].type = "JOIN" => c \in late
          /\ ~(jobs[t][k].type \in Asks /\ jobs[t][j].type \in Asks)

Waits(c, types) == \E job \in Pending(ThreadOf[c]) : job.id = c /\ job.type \in types

(* A session whose JOIN was not late. *)
Timely(c) == c \notin late /\ accepting # c
SessionOf(c) ==
    /\ session[c] = "new" => told[c] = "nothing"
    /\ session[c] = "new" \/ accepting = c => c \notin playerOf \cup late
    /\ accepting = c => session[c] # "new"
    /\ told[c] = "nothing" => fate[c] # "valid"
    /\ Timely(c) /\ session[c] = "open" => c \in playerOf \/ Waits(c, {"JOIN"})
    /\ Timely(c) /\ session[c] = "open" /\ told[c] = "waits" => Waits(c, Asks)
    /\ Timely(c) /\ session[c] = "left" /\ (c \in playerOf \/ Waits(c, {"JOIN"})) =>
           Waits(c, {"LEAVE"})

(* What the steps of login have come to, for the job at the head. *)
LoginOf(t) ==
    /\ step[t] # "wait" => jobs[t] # <<>> /\ jobs[t][1].type = "PACKET"
    /\ step[t] = "store" => status[t] = "ok"
    /\ step[t] = "answer" /\ status[t] = "ok" =>
           fate[jobs[t][1].id] \in {"failed", "valid", "gone"}

(* The key of a client is valid as long as it is the one in Redis. *)
FateOf(c) ==
    /\ fate[c] = "valid" =>
          /\ asked[c] \in Logins
          /\ store[asked[c][1]] = [key |-> AsStored(asked[c][2]), by |-> c]
    /\ told[c] = "ok" => fate[c] \in {"failed", "valid", "gone"}

Queues    == \A t \in ContentThreads : InOrder(t) /\ \A job \in Pending(t) : JobOf(t, job)
LoginInv  ==
    /\ LoginTypes /\ Queues
    /\ \A c \in Clients : SessionOf(c) /\ FateOf(c)
    /\ \A t \in ContentThreads : LoginOf(t)

-----------------------------------------------------------------------------
(* The chat server.                                                         *)

Steps == {"idle", "consume", "scan", "enter", "reply", "erase", "insert", "collect", "send"}
ChatTypes ==
    /\ ChatTypeOK
    /\ phase \in [Clients -> {"new", "mapped", "erased", "freeing", "freed"}]
    /\ pc \in [Clients -> Steps] /\ packet \in [Clients -> ChatPackets \cup {NoPacket}]
    /\ rest \in [Clients -> SUBSET (Clients \cup Sectors)]
    /\ found \in [Clients -> [Clients -> Nat]] /\ packets \in Nat
    /\ stayed \in [Clients -> SUBSET Clients]

(* What the phase of a client's player and the step of its packet say. *)
ClientOf(c) ==
    /\ pc[c] # "idle" \/ c \in live \/ c \in loggedIn \ willDelete => phase[c] = "mapped"
    /\ phase[c] = "new" => place[c] = Nowhere /\ c \notin loggedIn
    /\ c \in loggedIn => c \in proven
    /\ pc[c] \in {"consume", "scan", "enter"} => packet[c].kind = "login" /\ c \notin loggedIn
    /\ pc[c] \in {"scan", "enter"} => c \in proven
    /\ pc[c] \in {"erase", "insert"} => packet[c].kind = "move"
    /\ pc[c] \notin {"collect", "send"} => stayed[c] = {} /\ found[c] = Nobody
    /\ pc[c] = "collect" => rest[c] \subseteq Sectors
    /\ pc[c] = "send" => rest[c] = {}
ClientsInv == ChatTypes /\ \A c \in Clients : ClientOf(c)

(* The broadcast of c has counted d once, or still comes to its sector.     *)
StayerOf(c, d) ==
    /\ d \in loggedIn \ willDelete /\ place[d] # Nowhere /\ pc[d] # "insert"
    /\ found[c][d] = IF place[d] \in rest[c] THEN 0 ELSE 1
Stayers == \A c \in Clients : \A d \in stayed[c] : StayerOf(c, d)

(* The earlier sessions of the account that c logs in with: the loop over the *)
(* map has them before it, and leaves one that is live only if there are two. *)
Earlier(c) == {d \in InMap \ {c} : d \in loggedIn /\ account[d] = Login(c)[1]}
ScanOf(c) ==
    /\ pc[c] = "consume" => rest[c] = InMap \ {c}
    /\ pc[c] = "scan" => rest[c] \subseteq InMap \ {c}
    /\ pc[c] = "scan" /\ Login(c)[1] \notin blind => Earlier(c) \subseteq rest[c]
    /\ pc[c] = "enter" /\ Login(c)[1] \notin blind =>
           \/ Earlier(c) \cap live = {}
           \/ \E d, e \in Earlier(c) : d # e
Single == \A c, d \in loggedIn \cap live :
    account[c] = account[d] /\ account[c] \notin blind => c = d
Singles == (\A c \in Clients : ScanOf(c)) /\ Single

ChatInv == ClientsInv /\ SectorsExact /\ Stayers /\ Singles /\ OnlyProvenReplace

================================================================================
