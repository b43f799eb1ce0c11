------------------------------ MODULE GroupServer ------------------------------
(***************************************************************************)
(* The group server: a Player per session, found through a map under a      *)
(* lock, and owned by one group at a time. A group has a mailbox of jobs    *)
(* and a content thread that drains it; the login group hands a player over *)
(* to an echo group when it logs in, and a LEAVE that arrives late is        *)
(* forwarded. Players come from a pool and are reused.                      *)
(*                                                                         *)
(* The session engine calls OnClientJoin, OnRecv and OnClientLeave of one   *)
(* session one after the other (the receive of a session is one, and its     *)
(* end is told when nothing refers to it), and different sessions at once.  *)
(***************************************************************************)
EXTENDS Integers, Sequences, FiniteSets, Functions

CONSTANTS
    Sessions,       (* the connections of a behaviour                        *)
    Players,        (* the objects of Player::playerMemoryPool               *)
    Login,          (* the login group                                       *)
    Shards,         (* the echo groups                                       *)
    ShardOf,        (* sessionID % mEchoShards.size(), as a function         *)
    NoSession,      (* session id 0, that of a player that was cleared       *)
    NoPlayer, NoGroup,
    SendCap,        (* packets the send ring of a session holds              *)
    MaxPackets      (* bound: packets all clients send in a behaviour        *)

Groups == Shards \cup {Login}
Ids    == Sessions \cup {NoSession}

ASSUME GroupAssumption ==
    /\ IsFiniteSet(Sessions) /\ Login \notin Shards /\ NoGroup \notin Groups
    /\ NoSession \notin Sessions /\ NoPlayer \notin Players
    /\ ShardOf \in [Ids -> Shards]
    /\ SendCap \in Nat /\ MaxPackets \in Nat

(* What a client sends: a well-formed login request, an echo request or     *)
(* heartbeat, or anything else.                                             *)
Kinds == {"login", "echo", "bad"}

(* Why the server ends a session: DisconnectReason Logic and RingBufferFull. *)
Causes == {"logic", "full"}

(* What may be done on a player that has got another session meanwhile.     *)
Uses == {"free", "packet", "erase", "reply"}

VARIABLES
    phase,      (* where the engine is with a session                        *)
    mine,       (* the local player of OnClientJoin and OnClientLeave        *)
    sent,       (* the kinds of packets a client sent                        *)
    unread,     (* answers in the send ring of a session                     *)
    map,        (* mPlayerMap                                                *)
    sid,        (* Player::mSessionID                                        *)
    group,      (* Player::mGroup                                            *)
    willDelete, (* Player::mWillDelete                                       *)
    avail,      (* how often the player is in the pool                       *)
    mailbox,    (* JobMailbox::mQueue                                        *)
    local,      (* the jobs Update drained; its head is the one it is at     *)
    pc,         (* where the content thread is in a job                      *)
    members,    (* Group::mPlayers                                           *)
    count,      (* Group::mPlayerCount                                       *)
    kicked,     (* live sessions the server itself disconnected, and why     *)
    stale       (* what was done for a session on the player of another one  *)

engineVars == <<phase, mine, sent>>
playerVars == <<sid, group, willDelete>>
groupVars  == <<local, pc, members, count>>
answerVars == <<unread, kicked>>
vars == <<engineVars, map, playerVars, avail, mailbox, groupVars, answerVars, stale>>

NoPacket == [from |-> NoSession, kind |-> "none"]
Job(type, p, packet) == [type |-> type, player |-> p, packet |-> packet]

Enqueue(g, job) == mailbox' = [mailbox EXCEPT ![g] = Append(@, job)]
Free(p)         == avail' = [avail EXCEPT ![p] = @ + 1]

(* History: a step for session i on player p, whose session is another one. *)
Use(what, i, p) ==
    stale' = IF sid[p] = i THEN stale ELSE stale \cup {<<what, i, sid[p]>>}

-----------------------------------------------------------------------------
(* OnClientJoin, in the accept thread.                                      *)

Joining(i)   == phase[i] \in {"init", "insert"}
ThrownOut(i) == \E cause \in Causes : <<i, cause>> \in kicked

(* Any object that is in the pool, or a new one: what a content thread frees *)
(* goes to the accept thread through the global list once the cache of that  *)
(* thread is full.                                                          *)
Mutant_MayAlloc(p) == TRUE
MayAlloc(p) == avail[p] > 0

(* Alloc and Clear. *)
JoinAlloc(i) ==
    /\ phase[i] = "new" /\ \A j \in Sessions : ~Joining(j)
    /\ \E p \in Players :
         /\ MayAlloc(p)
         /\ avail' = [avail EXCEPT ![p] = @ - 1]
         /\ mine'  = [mine EXCEPT ![i] = p]
         /\ sid'   = [sid EXCEPT ![p] = NoSession]
         /\ group' = [group EXCEPT ![p] = NoGroup]
         /\ willDelete' = [willDelete EXCEPT ![p] = FALSE]
    /\ phase' = [phase EXCEPT ![i] = "init"]
    /\ UNCHANGED <<sent, map, mailbox, groupVars, answerVars, stale>>

(* SetSessionID, then mGroup = LoginGroup. *)
JoinInit(i) ==
    /\ phase[i] = "init"
    /\ sid'   = [sid EXCEPT ![mine[i]] = i]
    /\ group' = [group EXCEPT ![mine[i]] = Login]
    /\ phase' = [phase EXCEPT ![i] = "insert"]
    /\ UNCHANGED <<mine, sent, map, willDelete, avail, mailbox, groupVars, answerVars,
                   stale>>

(* Under the map's lock: the insertion and the JOIN, or a duplicate id. A    *)
(* session that was thrown out before that may have been told to leave, to   *)
(* no effect: its player stays in the map.                                  *)
JoinInsert(i) ==
    /\ phase[i] = "insert"
    /\ IF map[i] = NoPlayer
       THEN /\ map' = [map EXCEPT ![i] = mine[i]]
            /\ Enqueue(Login, Job("JOIN", mine[i], NoPacket))
            /\ UNCHANGED avail
       ELSE Free(mine[i]) /\ UNCHANGED <<map, mailbox>>
    /\ \/ phase' = [phase EXCEPT ![i] = "open"]
       \/ ThrownOut(i) /\ phase' = [phase EXCEPT ![i] = "gone"]
    /\ UNCHANGED <<mine, sent, playerVars, groupVars, answerVars, stale>>

-----------------------------------------------------------------------------
(* OnRecv and OnClientLeave, in a worker.                                   *)

PacketsSent == SumFunction([i \in Sessions |-> Len(sent[i])])

(* Under the map's shared lock the packet goes to the player's group; one    *)
(* with no player or no group is dropped. A group that changes between the   *)
(* load of mGroup and the Enqueue gets the packet as if it came before.     *)
OnRecv(i, k) ==
    LET p == map[i]
    IN  /\ phase[i] = "open" /\ PacketsSent < MaxPackets
        /\ sent' = [sent EXCEPT ![i] = Append(@, k)]
        /\ IF p # NoPlayer /\ group[p] # NoGroup
           THEN Enqueue(group[p], Job("PACKET", p, [from |-> i, kind |-> k]))
           ELSE UNCHANGED mailbox
        /\ UNCHANGED <<phase, mine, map, playerVars, avail, groupVars, answerVars, stale>>

(* The release of a session may be requested at any time, and is told when   *)
(* no receive is under way. Under the map's lock the player leaves the map  *)
(* and the LEAVE is posted.                                                 *)
OnClientLeave(i) ==
    LET p == map[i]
    IN  /\ phase[i] = "open"
        /\ map'  = [map EXCEPT ![i] = NoPlayer]
        /\ mine' = [mine EXCEPT ![i] = p]
        /\ IF p # NoPlayer /\ group[p] # NoGroup
           THEN Enqueue(group[p], Job("LEAVE", p, NoPacket)) ELSE UNCHANGED mailbox
        /\ phase' = [phase EXCEPT ![i] = "check"]
        /\ UNCHANGED <<sent, playerVars, avail, groupVars, answerVars, stale>>

(* After the unlock mGroup is read again: a player without a group is freed. *)
Mutant_LeaveCheck(i) ==
    /\ phase[i] = "check"
    /\ Free(mine[i]) /\ Use("free", i, mine[i])
    /\ phase' = [phase EXCEPT ![i] = "gone"]
    /\ UNCHANGED <<mine, sent, map, playerVars, mailbox, groupVars, answerVars>>
LeaveCheck(i) ==
    LET p == mine[i]
    IN  /\ phase[i] = "check"
        /\ IF p # NoPlayer /\ group[p] = NoGroup
           THEN Free(p) /\ Use("free", i, p) ELSE UNCHANGED <<avail, stale>>
        /\ phase' = [phase EXCEPT ![i] = "gone"]
        /\ UNCHANGED <<mine, sent, map, playerVars, mailbox, groupVars, answerVars>>

-----------------------------------------------------------------------------
(* Group::Update, in the content thread of the group.                       *)

Current(g) == Head(local[g])
At(g, type) == pc[g] = "idle" /\ local[g] # <<>> /\ Current(g).type = type
Pop(g)      == local' = [local EXCEPT ![g] = Tail(@)]

Drain(g) ==
    /\ pc[g] = "idle" /\ local[g] = <<>> /\ mailbox[g] # <<>>
    /\ local'   = [local EXCEPT ![g] = mailbox[g]]
    /\ mailbox' = [mailbox EXCEPT ![g] = <<>>]
    /\ UNCHANGED <<engineVars, map, playerVars, avail, pc, members, count, answerVars, stale>>

(* JOIN and GROUP_ENTER: the count is raised whatever the map held. *)
OnEnter(g) ==
    LET p == Current(g).player
    IN  /\ At(g, "JOIN") \/ At(g, "GROUP_ENTER")
        /\ members' = [members EXCEPT ![g][sid[p]] = p]
        /\ count'   = [count EXCEPT ![g] = @ + 1]
        /\ Pop(g)
        /\ UNCHANGED <<engineVars, map, playerVars, avail, mailbox, pc, answerVars, stale>>

(* mPlayers.erase of the session the player has now, counted if it was there. *)
Erase(g, i) ==
    IF members[g][i] # NoPlayer
    THEN /\ members' = [members EXCEPT ![g][i] = NoPlayer]
         /\ count'   = [count EXCEPT ![g] = @ - 1]
    ELSE UNCHANGED <<members, count>>

(* LEAVE: forwarded when the player has moved, else the player is freed.    *)
Mutant_OnLeave(g) ==
    LET p == Current(g).player
    IN  /\ At(g, "LEAVE")
        /\ Erase(g, sid[p]) /\ Free(p) /\ UNCHANGED mailbox
        /\ Pop(g)
        /\ UNCHANGED <<engineVars, map, playerVars, pc, answerVars, stale>>
Mutant_LeaveDropped(g) ==
    LET p == Current(g).player
    IN  /\ At(g, "LEAVE")
        /\ IF group[p] = g THEN Erase(g, sid[p]) /\ Free(p) ELSE UNCHANGED <<avail, members, count>>
        /\ Pop(g)
        /\ UNCHANGED <<engineVars, map, playerVars, mailbox, pc, answerVars, stale>>
OnLeave(g) ==
    LET p == Current(g).player
    IN  /\ At(g, "LEAVE")
        /\ \/ /\ group[p] = g
              /\ Erase(g, sid[p]) /\ Free(p) /\ UNCHANGED mailbox
           \/ /\ group[p] = NoGroup
              /\ Free(p) /\ UNCHANGED <<members, count, mailbox>>
           \/ /\ group[p] \notin {g, NoGroup}
              /\ Enqueue(group[p], Job("LEAVE", p, NoPacket))
              /\ UNCHANGED <<avail, members, count>>
        /\ Pop(g)
        /\ UNCHANGED <<engineVars, map, playerVars, pc, answerVars, stale>>

(* DisConnect and SendPacket find a session from createSession to its end.   *)
Live(i) == i \in Sessions /\ phase[i] \in {"insert", "open"}

(* ReserveDisconnect: once per player.                                      *)
ReserveDisconnect(p) ==
    /\ willDelete' = [willDelete EXCEPT ![p] = TRUE]
    /\ kicked' = IF ~willDelete[p] /\ Live(sid[p])
                 THEN kicked \cup {<<sid[p], "logic">>} ELSE kicked

(* SendPacket: into the ring; or the ring is full and the session released;  *)
(* or it is gone, its release was requested before, or its connection broke. *)
SendPacket(i, isSent) ==
    \/ /\ isSent /\ Live(i) /\ unread[i] < SendCap
       /\ unread' = [unread EXCEPT ![i] = @ + 1] /\ UNCHANGED kicked
    \/ /\ ~isSent /\ Live(i) /\ unread[i] = SendCap
       /\ kicked' = kicked \cup {<<i, "full">>} /\ UNCHANGED unread
    \/ ~isSent /\ UNCHANGED answerVars

(* postSend takes a batch out of the ring when the client has read the last. *)
Transmit(i) ==
    /\ \E n \in 0 .. unread[i] - 1 : unread' = [unread EXCEPT ![i] = n]
    /\ UNCHANGED <<engineVars, map, playerVars, avail, mailbox, groupVars, kicked, stale>>

-----------------------------------------------------------------------------
(* LoginGroup::OnRecv.                                                      *)

(* A packet that comes late, after the player moved, is dropped. *)
Mutant_Moved(p) == FALSE
Moved(p) == group[p] # Login

LatePacket ==
    /\ At(Login, "PACKET") /\ Moved(Current(Login).player)
    /\ Pop(Login)
    /\ UNCHANGED <<engineVars, map, playerVars, avail, mailbox, pc, members, count, answerVars,
                   stale>>

(* Before the login only a well-formed LOGIN is allowed. *)
Refuse ==
    LET job == Current(Login)
    IN  /\ At(Login, "PACKET") /\ ~Moved(job.player) /\ job.packet.kind # "login"
        /\ ReserveDisconnect(job.player)
        /\ Use("packet", job.packet.from, job.player)
        /\ Pop(Login)
        /\ UNCHANGED <<engineVars, map, sid, group, avail, mailbox, pc, members, count, unread>>

Accepted ==
    LET job == Current(Login)
    IN  /\ At(Login, "PACKET") /\ ~Moved(job.player) /\ job.packet.kind = "login"
        /\ Use("packet", job.packet.from, job.player)
        /\ pc' = [pc EXCEPT ![Login] = "handOver"]
        /\ UNCHANGED <<engineVars, map, playerVars, avail, mailbox, local, members, count,
                       answerVars>>

(* handleLogin: GROUP_ENTER first, then mGroup, then mPlayers, the answer    *)
(* last. The player is the echo group's from the second step on, and may be  *)
(* freed and have another session at the third and the fourth.              *)
Target(p) == ShardOf[sid[p]]

HandOver(label, next) ==
    LET p == Current(Login).player
    IN  /\ pc[Login] = label
        /\ Enqueue(Target(p), Job("GROUP_ENTER", p, NoPacket))
        /\ pc' = [pc EXCEPT ![Login] = next]
        /\ UNCHANGED <<engineVars, map, playerVars, avail, local, members, count, answerVars, stale>>

Move(label, next) ==
    LET p == Current(Login).player
    IN  /\ pc[Login] = label
        /\ group' = [group EXCEPT ![p] = Target(p)]
        /\ pc' = [pc EXCEPT ![Login] = next]
        /\ UNCHANGED <<engineVars, map, sid, willDelete, avail, mailbox, local, members, count,
                       answerVars, stale>>

Mutant_EraseMoved ==
    LET job == Current(Login)
    IN  /\ pc[Login] = "erase"
        /\ members' = [members EXCEPT ![Login][sid[job.player]] = NoPlayer]
        /\ Use("erase", job.packet.from, job.player)
        /\ pc' = [pc EXCEPT ![Login] = "reply"]
        /\ UNCHANGED <<engineVars, map, playerVars, avail, mailbox, local, count, answerVars>>
EraseMoved ==
    LET job == Current(Login)
    IN  /\ pc[Login] = "erase"
        /\ Erase(Login, sid[job.player])
        /\ Use("erase", job.packet.from, job.player)
        /\ pc' = [pc EXCEPT ![Login] = "reply"]
        /\ UNCHANGED <<engineVars, map, playerVars, avail, mailbox, local, answerVars>>

(* A failure to send is only logged. *)
Reply ==
    LET job == Current(Login)
    IN  /\ pc[Login] = "reply"
        /\ \E isSent \in BOOLEAN : SendPacket(sid[job.player], isSent)
        /\ Use("reply", job.packet.from, job.player)
        /\ pc' = [pc EXCEPT ![Login] = "idle"]
        /\ Pop(Login)
        /\ UNCHANGED <<engineVars, map, playerVars, avail, mailbox, members, count>>

-----------------------------------------------------------------------------
(* EchoGroup::OnRecv.                                                       *)

(* An echo is answered, and a client that cannot be sent to disconnected,    *)
(* which it is already; a heartbeat is noted.                               *)
Echo(g) ==
    LET job == Current(g)
    IN  /\ g \in Shards /\ At(g, "PACKET") /\ job.packet.kind = "echo"
        /\ \/ \E isSent \in BOOLEAN :
                /\ SendPacket(sid[job.player], isSent)
                /\ willDelete' = [willDelete EXCEPT ![job.player] = @ \/ ~isSent]
           \/ UNCHANGED <<willDelete, answerVars>>
        /\ Use("packet", job.packet.from, job.player)
        /\ Pop(g)
        /\ UNCHANGED <<engineVars, map, sid, group, avail, mailbox, pc, members, count>>

(* A second LOGIN, or a type that does not exist. *)
Reject(g) ==
    LET job == Current(g)
    IN  /\ g \in Shards /\ At(g, "PACKET") /\ job.packet.kind # "echo"
        /\ ReserveDisconnect(job.player)
        /\ Use("packet", job.packet.from, job.player)
        /\ Pop(g)
        /\ UNCHANGED <<engineVars, map, sid, group, avail, mailbox, pc, members, count, unread>>

-----------------------------------------------------------------------------

Init ==
    /\ phase = [i \in Sessions |-> "new"] /\ mine = [i \in Sessions |-> NoPlayer]
    /\ sent = [i \in Sessions |-> <<>>]
    /\ map = [i \in Sessions |-> NoPlayer]
    /\ sid = [p \in Players |-> NoSession] /\ group = [p \in Players |-> NoGroup]
    /\ willDelete = [p \in Players |-> FALSE]
    /\ avail = [p \in Players |-> 1]
    /\ mailbox = [g \in Groups |-> <<>>] /\ local = [g \in Groups |-> <<>>]
    /\ pc = [g \in Groups |-> "idle"]
    /\ members = [g \in Groups |-> [i \in Ids |-> NoPlayer]]
    /\ count = [g \in Groups |-> 0]
    /\ unread = [i \in Sessions |-> 0] /\ kicked = {} /\ stale = {}

Engine(i) ==
    \/ JoinAlloc(i) \/ JoinInit(i) \/ JoinInsert(i)
    \/ \E k \in Kinds : OnRecv(i, k)
    \/ OnClientLeave(i) \/ LeaveCheck(i)
    \/ Transmit(i)

Mutant_LoginStep ==
    \/ LatePacket \/ Refuse \/ Accepted
    \/ Move("handOver", "move") \/ HandOver("move", "erase")
    \/ EraseMoved \/ Reply
LoginStep ==
    \/ LatePacket \/ Refuse \/ Accepted
    \/ HandOver("handOver", "move") \/ Move("move", "erase")
    \/ EraseMoved \/ Reply

(* The content thread of a group: Update in a loop. *)
ContentThread(g) ==
    \/ Drain(g) \/ OnEnter(g) \/ OnLeave(g)
    \/ g = Login /\ LoginStep
    \/ Echo(g) \/ Reject(g)

Next ==
    \/ \E i \in Sessions : Engine(i)
    \/ \E g \in Groups : ContentThread(g)

Spec == Init /\ [][Next]_vars

(* The content threads loop until the end of the server; a worker that has   *)
(* begun to call OnClientLeave comes back.                                  *)
Fairness ==
    /\ \A g \in Groups : WF_vars(ContentThread(g))
    /\ \A i \in Sessions : WF_vars(LeaveCheck(i))
FairSpec == Spec /\ Fairness

-----------------------------------------------------------------------------
(* Type invariant of the maps, the mailboxes and the players. *)
Jobs == [type : {"JOIN", "LEAVE", "PACKET", "GROUP_ENTER"}, player : Players,
         packet : [from : Sessions, kind : Kinds] \cup {NoPacket}]
TypeOK ==
    /\ phase \in [Sessions -> {"new", "init", "insert", "open", "check", "gone"}]
    /\ mine \in [Sessions -> Players \cup {NoPlayer}]
    /\ sent \in [Sessions -> Seq(Kinds)] /\ unread \in [Sessions -> 0 .. SendCap]
    /\ map \in [Sessions -> Players \cup {NoPlayer}]
    /\ sid \in [Players -> Ids] /\ group \in [Players -> Groups \cup {NoGroup}]
    /\ willDelete \in [Players -> BOOLEAN] /\ avail \in [Players -> Nat]
    /\ mailbox \in [Groups -> Seq(Jobs)] /\ local \in [Groups -> Seq(Jobs)]
    /\ pc \in [Groups -> {"idle", "handOver", "move", "erase", "reply"}]
    /\ members \in [Groups -> [Ids -> Players \cup {NoPlayer}]]
    /\ count \in [Groups -> Int]
    /\ kicked \subseteq Sessions \X Causes /\ stale \subseteq Uses \X Ids \X Ids

(* The jobs a group has still to do, in order. *)
Queue(g)     == local[g] \o mailbox[g]
Leaves(g, p) == \E k \in DOMAIN Queue(g) : Queue(g)[k].type = "LEAVE" /\ Queue(g)[k].player = p

(* Sessions that have a player, from Alloc to OnClientLeave. *)
HasPlayer(i) == phase[i] \in {"init", "insert", "open"}

(* So far OnClientLeave freed no player of another session, nor did the login *)
(* group handle a packet for one; what is true until then is lost after it.  *)
NoStrayFree   == \A use \in stale : use[1] # "free"
NoStrayPacket == \A use \in stale : use[1] # "packet"

(* A player is in the pool, or one session's, or the last job of it is its    *)
(* LEAVE, and only one of these: nobody frees it twice or while it is in use. *)
FreedOnce ==
    NoStrayFree =>
        \A p \in Players :
            /\ avail[p] <= 1
            /\ \A i \in Sessions : HasPlayer(i) /\ mine[i] = p =>
                   /\ avail[p] = 0 /\ \A g \in Groups : ~Leaves(g, p)
                   /\ \A j \in Sessions : HasPlayer(j) /\ mine[j] = p => i = j
            /\ \A g \in Groups : Leaves(g, p) =>
                   avail[p] = 0 /\ \A h \in Groups : Leaves(h, p) => g = h

(* A group hears of a player before it gets packets or the end of its session, *)
(* also when the LEAVE took the way through the group the player has left:    *)
(* this is what the order of the steps of handleLogin is for.                *)
EnterFirst ==
    NoStrayFree /\ NoStrayPacket =>
        \A g \in Groups : \A k \in DOMAIN Queue(g) :
            LET job == Queue(g)[k]
                p   == job.player
            IN  /\ group[p] = g
                /\ job.type = "LEAVE" \/ (job.type = "PACKET" /\ job.packet.from = sid[p])
                =>  \/ members[g][sid[p]] = p
                    \/ \E j \in 1..(k - 1) : /\ Queue(g)[j].player = p
                                             /\ Queue(g)[j].type \in {"JOIN", "GROUP_ENTER"}

(* What the maps refer to is the player the session has now, and no job of a  *)
(* freed player waits but for packets the login group drops unread. In the    *)
(* map of the login group handleLogin may come too late: between the move and *)
(* the erase the player may be freed, and an erase under the id of its next   *)
(* session leaves the entry of the last one behind.                          *)
Has(i, p)     == avail[p] = 0 /\ sid[p] = i
Erasing(i)    == pc[Login] = "erase" /\ Current(Login).packet.from = i
LeftBehind(i) == \E j \in Ids : <<"erase", i, j>> \in stale
NoDangling ==
    NoStrayFree /\ NoStrayPacket =>
        /\ \A i \in Sessions : map[i] # NoPlayer => Has(i, map[i])
        /\ \A g \in Groups, i \in Ids : members[g][i] # NoPlayer =>
               Has(i, members[g][i]) \/ (g = Login /\ (Erasing(i) \/ LeftBehind(i)))
        /\ \A g \in Groups : \A k \in DOMAIN Queue(g) :
               LET job == Queue(g)[k]
               IN  avail[job.player] > 0 =>
                       g = Login /\ job.type = "PACKET" /\ Moved(job.player)

(* mPlayerCount is the number of players in the group's map. *)
CountExact ==
    NoStrayFree /\ NoStrayPacket =>
        \A g \in Groups : count[g] = Cardinality({i \in Ids : members[g][i] # NoPlayer})

(* The server disconnects only clients that break the protocol, and those     *)
(* that have asked for more than their send ring holds: one whose first       *)
(* packet is its LOGIN and that sends echoes from then on stays, also when it  *)
(* does not wait for the answer. The answer to the login may reach a session  *)
(* it is not for and fill its ring.                                          *)
Offends(i)   == sent[i][1] # "login" \/ \E k \in 2..Len(sent[i]) : sent[i][k] # "echo"
Misled(i)    == \E j \in Ids : <<"reply", j, i>> \in stale
OnlyOffendersKicked ==
    NoStrayFree /\ NoStrayPacket =>
        \A i \in Sessions :
            /\ <<i, "logic">> \in kicked => Offends(i)
            /\ <<i, "full">> \in kicked => Len(sent[i]) > SendCap \/ Misled(i)

(* A player whose LEAVE was posted is freed at last, whichever way it takes. *)
PlayerFreed ==
    \A p \in Players : (\E g \in Groups : Leaves(g, p)) ~> avail[p] > 0

(* What is done for a session is done on the player of that session. Where    *)
(* the pool reuses players the code does not keep it.                        *)
NoStaleUse == stale = {}

================================================================================
