------------------------------ MODULE ChatServer -------------------------------
(***************************************************************************)
(* The chat server: a player per session in a map under a shared lock, the   *)
(* login that consumes a key in Redis and replaces an earlier session of the *)
(* account, the sectors with a lock each, and the broadcast to the sectors   *)
(* around.                                                                  *)
(*                                                                         *)
(* A worker holds the map's lock shared for the whole of OnRecv, so packets  *)
(* of different sessions run at once, and joins and leaves wait for them.    *)
(* The packets of one session come one after the other, and its leave after  *)
(* the last of them (BaseServer). Packets that were received with the one    *)
(* the server disconnects for are still handled.                            *)
(***************************************************************************)
EXTENDS SessionKeys, Sequences

CONSTANTS
    Width, Height,  (* SECTOR_CNT_X, SECTOR_CNT_Y                            *)
    ChatLogins,     (* the <<account, key>> that clients present             *)
    Targets,        (* the sectors that clients move to                      *)
    MaxPackets      (* bound: packets all clients send in a behaviour        *)

Sectors == (0 .. Width - 1) \X (0 .. Height - 1)
Nowhere == <<-1, -1>>

ASSUME ChatAssumption ==
    /\ Width \in Nat \ {0} /\ Height \in Nat \ {0} /\ MaxPackets \in Nat
    /\ ChatLogins \subseteq Logins /\ Targets \subseteq Sectors

VARIABLES
    phase,          (* of the player of a client: from Alloc to Free         *)
    live,           (* sessions nobody has disconnected                      *)
    account,        (* Player::mAccountNo                                    *)
    loggedIn, willDelete,      (* Player::mIsLoggedIn, mWillDelete           *)
    place,          (* Player::mSectorX and mSectorY                         *)
    sector,         (* Sector::players: how often a player is in it          *)
    pc,             (* where the worker is in the packet of a session        *)
    packet,         (* the packet,                                           *)
    rest,           (* what is left of a loop over players or sectors,       *)
    found,          (* and targets of broadcast                              *)
    packets,        (* packets sent so far                                   *)
    evictor,        (* history: who had a session disconnected as duplicate, *)
    proven,         (* the sessions whose key matched,                       *)
    blind,          (* accounts that two logins had to do with at once,      *)
    stayed          (* and who was, and stays, within reach of a broadcast   *)

playerVars  == <<phase, live, account, loggedIn, willDelete, place>>
workerVars  == <<pc, packet, rest, found, packets>>
chatHistory == <<evictor, proven, blind, stayed>>
chatVars    == <<playerVars, sector, workerVars, chatHistory>>

NoPacket == [kind |-> "none"]
Nobody   == [c \in Clients |-> 0]

(* No packet, no leave and no sector has anything to do with anybody yet. *)
ChatQuiet ==
    /\ willDelete = {} /\ place = [c \in Clients |-> Nowhere]
    /\ sector = [q \in Sectors |-> Nobody]
    /\ pc = [c \in Clients |-> "idle"] /\ packet = [c \in Clients |-> NoPacket]
    /\ rest = [c \in Clients |-> {}] /\ found = [c \in Clients |-> Nobody]
    /\ blind = {} /\ stayed = [c \in Clients |-> {}]

ChatInit ==
    /\ phase = [c \in Clients |-> "new"] /\ live = {} /\ loggedIn = {}
    /\ account = [c \in Clients |-> None]
    /\ evictor = [c \in Clients |-> None]
    /\ proven = {} /\ ChatQuiet /\ packets \in 0 .. MaxPackets

InMap      == {c \in Clients : phase[c] = "mapped"}
SharedHeld == \E c \in Clients : pc[c] # "idle"

Goto(c, label) == pc' = [pc EXCEPT ![c] = label]

-----------------------------------------------------------------------------
(* The engine's calls.                                                      *)

(* Alloc, Clear, SetSessionID; then the insertion, with the lock exclusive. *)
OnChatJoin(c) ==
    /\ phase[c] = "new" /\ ~SharedHeld
    /\ phase' = [phase EXCEPT ![c] = "mapped"] /\ live' = live \cup {c}
    /\ UNCHANGED <<account, loggedIn, willDelete, place, sector, workerVars, chatHistory,
                   keyVars>>

(* The client ends the connection, or a send of the engine fails. *)
Drop(c) ==
    /\ c \in live
    /\ live' = live \ {c}
    /\ UNCHANGED <<phase, account, loggedIn, willDelete, place, sector, workerVars,
                   chatHistory, keyVars>>

(* A player that is marked, or moves, is no longer one that stays. *)
NotStaying(c) == stayed' = [d \in Clients |-> stayed[d] \ {c}]

(* OnClientLeave: out of the map, with the lock exclusive, *)
OnChatLeave(c) ==
    /\ phase[c] = "mapped" /\ c \notin live /\ ~SharedHeld
    /\ phase' = [phase EXCEPT ![c] = "erased"] /\ willDelete' = willDelete \cup {c}
    /\ UNCHANGED <<live, account, loggedIn, place, sector, workerVars, chatHistory, keyVars>>

EraseFrom(c, q) ==
    sector' = [sector EXCEPT ![q][c] = IF @ > 0 THEN @ - 1 ELSE @]

Mutant_ErasePlace(c) == UNCHANGED sector
ErasePlace(c) == IF place[c] = Nowhere THEN UNCHANGED sector ELSE EraseFrom(c, place[c])

(* out of its sector, under that lock, *)
LeaveSector(c) ==
    /\ phase[c] = "erased"
    /\ ErasePlace(c)
    /\ phase' = [phase EXCEPT ![c] = "freeing"]
    /\ UNCHANGED <<live, account, loggedIn, willDelete, place, workerVars, chatHistory,
                   keyVars>>

(* and back to the pool. *)
FreePlayer(c) ==
    /\ phase[c] = "freeing"
    /\ loggedIn' = loggedIn \ {c} /\ phase' = [phase EXCEPT ![c] = "freed"]
    /\ UNCHANGED <<live, account, willDelete, place, sector, workerVars, chatHistory, keyVars>>

-----------------------------------------------------------------------------
(* OnRecv and packetProc.                                                   *)

ChatPackets ==
    [kind : {"login"}, login : ChatLogins]
    \cup [kind : {"move"}, to : Targets] \cup [kind : {"say", "bad"}]

Refused(c, p) ==
    \/ p.kind = "bad"
    \/ p.kind = "login" /\ c \in loggedIn
    \/ p.kind # "login" /\ c \notin loggedIn
    \/ p.kind = "say" /\ place[c] = Nowhere

(* reserveDeletePlayer, as far as the player is not marked already. *)
ReserveDelete(c) ==
    /\ willDelete' = willDelete \cup {c}
    /\ live' = IF c \in willDelete THEN live ELSE live \ {c}

(* packetProc returns, with TRUE, *)
Return(c) ==
    /\ Goto(c, "idle") /\ packet' = [packet EXCEPT ![c] = NoPacket]
    /\ rest' = [rest EXCEPT ![c] = {}] /\ found' = [found EXCEPT ![c] = Nobody]
    /\ UNCHANGED packets

(* or with FALSE. *)
Fail(c) == Return(c) /\ ReserveDelete(c)

(* initSectorAroundTable: at most one away, within the map. *)
Mutant_Around(q) ==
    ((q[1] - 1 .. q[1]) \cap (0 .. Width - 1)) \X ((q[2] - 1 .. q[2] + 1) \cap (0 .. Height - 1))
Around(q) ==
    ((q[1] - 1 .. q[1] + 1) \cap (0 .. Width - 1))
    \X ((q[2] - 1 .. q[2] + 1) \cap (0 .. Height - 1))

(* History: the players within reach of q, by the distance. *)
Reach(q) == {d \in loggedIn \ willDelete :
    /\ place[d] # Nowhere /\ pc[d] # "insert"
    /\ \A i \in {1, 2} : place[d][i] - q[i] \in -1 .. 1}

Mutant_LoginBegins == "scan"
LoginBegins == "consume"

OnChatRecv(c, p) ==
    /\ phase[c] = "mapped" /\ pc[c] = "idle" /\ packets < MaxPackets
    /\ packets' = packets + 1
    /\ UNCHANGED <<phase, account, loggedIn, place, sector, evictor, proven, blind, keyVars>>
    /\ IF Refused(c, p)
       THEN /\ ReserveDelete(c) /\ NotStaying(c)
            /\ UNCHANGED <<pc, packet, rest, found>>
       ELSE /\ packet' = [packet EXCEPT ![c] = p]
            /\ UNCHANGED <<live, willDelete>>
            /\ \/ /\ p.kind = "login" /\ Goto(c, LoginBegins)
                  /\ rest' = [rest EXCEPT ![c] = InMap \ {c}]
                  /\ UNCHANGED <<found, stayed>>
               \/ /\ p.kind = "move"
                  /\ Goto(c, IF place[c] = p.to THEN "reply" ELSE "erase")
                  /\ UNCHANGED <<rest, found, stayed>>
               \/ /\ p.kind = "say" /\ Goto(c, "collect")
                  /\ rest'   = [rest EXCEPT ![c] = Around(place[c])]
                  /\ UNCHANGED found
                  /\ stayed' = [stayed EXCEPT ![c] = Reach(place[c])]

-----------------------------------------------------------------------------
(* login.                                                                   *)

Login(c) == packet[c].login

(* CompareAndDel. The answer of Redis may be lost on the way, or Redis not   *)
(* be reached; both count as no match.                                      *)
Mutant_AfterConsume(c) == "enter"
AfterConsume(c) == "scan"

Consume(c) ==
    /\ pc[c] = "consume"
    /\ \/ /\ ConsumeKey(Login(c)[1], Login(c)[2])
          /\ \/ /\ Goto(c, AfterConsume(c))
                /\ admitted' = [admitted EXCEPT ![Login(c)] = @ + 1]
                /\ proven' = proven \cup {c}
                /\ UNCHANGED <<live, willDelete, packet, rest, found, packets, stayed>>
             \/ Fail(c) /\ NotStaying(c) /\ UNCHANGED <<admitted, proven>>
       \/ /\ Fail(c) /\ NotStaying(c) /\ UNCHANGED <<proven, keyVars>>
    /\ UNCHANGED <<phase, account, loggedIn, place, sector, evictor, blind>>

Duplicates(c, d) == d \in loggedIn /\ account[d] = Login(c)[1]

(* The loop over mPlayerMap; it stops at the first duplicate. *)
Scan(c) ==
    /\ pc[c] = "scan"
    /\ IF rest[c] = {} THEN Goto(c, "enter") /\ UNCHANGED <<rest, live, evictor>>
       ELSE \E d \in rest[c] :
              IF Duplicates(c, d)
              THEN /\ live' = live \ {d} /\ Goto(c, "enter")
                   /\ evictor' = IF d \in live THEN [evictor EXCEPT ![d] = c] ELSE evictor
                   /\ rest' = [rest EXCEPT ![c] = {}]
              ELSE rest' = [rest EXCEPT ![c] = @ \ {d}] /\ UNCHANGED <<pc, live, evictor>>
    /\ UNCHANGED <<phase, account, loggedIn, willDelete, place, sector, packet, found,
                   packets, proven, blind, stayed, keyVars>>

(* Other sessions the account has, or will have: another login past its key, *)
(* or a second one in the map.                                              *)
Rivals(c) == {d \in InMap \ {c} :
    \/ d \in loggedIn /\ account[d] = Login(c)[1]
    \/ pc[d] \in {"scan", "enter"} /\ Login(d)[1] = Login(c)[1]}

(* SetAccountNo, ..., OnLogin. *)
EnterChat(c) ==
    /\ pc[c] = "enter"
    /\ account' = [account EXCEPT ![c] = Login(c)[1]] /\ loggedIn' = loggedIn \cup {c}
    /\ blind' = IF \/ Cardinality(Rivals(c)) > 1
                   \/ \E d \in Rivals(c) : d \notin loggedIn
                THEN blind \cup {Login(c)[1]} ELSE blind
    /\ Goto(c, "reply")
    /\ UNCHANGED <<phase, live, willDelete, place, sector, packet, rest, found, packets,
                   evictor, proven, stayed, keyVars>>

(* SendPacket of the answer, also of sectorMove: fails when the session is   *)
(* gone.                                                                    *)
Reply(c) ==
    /\ pc[c] = "reply"
    /\ IF c \in live THEN Return(c) /\ UNCHANGED <<live, willDelete, stayed>>
       ELSE Fail(c) /\ NotStaying(c)
    /\ UNCHANGED <<phase, account, loggedIn, place, sector, evictor, proven, blind, keyVars>>

-----------------------------------------------------------------------------
(* movePlayerSector.                                                        *)

EraseOld(c) ==
    /\ pc[c] = "erase"
    /\ ErasePlace(c)
    /\ Goto(c, "insert") /\ NotStaying(c)
    /\ UNCHANGED <<playerVars, packet, rest, found, packets, evictor, proven, blind, keyVars>>

InsertNew(c) ==
    /\ pc[c] = "insert"
    /\ place'  = [place EXCEPT ![c] = packet[c].to]
    /\ sector' = [sector EXCEPT ![packet[c].to][c] = @ + 1]
    /\ Goto(c, "reply")
    /\ UNCHANGED <<phase, live, account, loggedIn, willDelete, packet, rest, found, packets,
                   chatHistory, keyVars>>

-----------------------------------------------------------------------------
(* broadcast.                                                               *)

Before(q, r) == q[2] < r[2] \/ (q[2] = r[2] /\ q[1] <= r[1])

Heard(q) == {d \in loggedIn \ willDelete : sector[q][d] > 0}

(* One sector after the other, line by line, each under its lock. *)
Collect(c) ==
    /\ pc[c] = "collect"
    /\ \E q \in rest[c] :
         /\ \A r \in rest[c] : Before(q, r)
         /\ found' = [found EXCEPT ![c] =
                        [d \in Clients |-> @[d] + IF d \in Heard(q) THEN sector[q][d] ELSE 0]]
         /\ rest' = [rest EXCEPT ![c] = @ \ {q}]
         /\ Goto(c, IF rest[c] = {q} THEN "send" ELSE "collect")
    /\ UNCHANGED <<playerVars, sector, packet, packets, chatHistory, keyVars>>

(* SendPacket to each; the sessions that are gone do not get it. *)
SendAll(c) ==
    /\ pc[c] = "send"
    /\ Return(c)
    /\ stayed' = [stayed EXCEPT ![c] = {}]
    /\ UNCHANGED <<playerVars, sector, evictor, proven, blind, keyVars>>

Worker(c) ==
    \/ Consume(c) \/ Scan(c) \/ EnterChat(c) \/ Reply(c)
    \/ EraseOld(c) \/ InsertNew(c) \/ Collect(c) \/ SendAll(c)

Leaving(c) == OnChatLeave(c) \/ LeaveSector(c) \/ FreePlayer(c)

ChatNext == \E c \in Clients :
    \/ Drop(c) \/ Leaving(c) \/ Worker(c)
    \/ \E p \in ChatPackets : OnChatRecv(c, p)

-----------------------------------------------------------------------------
(* Properties.                                                              *)

(* Every variable of the chat server has its type. *)
ChatTypeOK ==
    /\ live \subseteq Clients /\ loggedIn \subseteq Clients /\ willDelete \subseteq Clients
    /\ account \in [Clients -> Accounts \cup {None}]
    /\ place \in [Clients -> Sectors \cup {Nowhere}]
    /\ sector \in [Sectors -> [Clients -> 0 .. 1]]
    /\ evictor \in [Clients -> Clients \cup {None}]

(* A key lets in one session each time it is stored, however many present    *)
(* it, and at whatever moments.                                             *)
KeyAdmitsOnce == \A l \in Logins : admitted[l] <= issued[l]

(* "Only a connection that has been authenticated may replace the session of *)
(* the account": a client that is thrown out as a duplicate is, by one whose *)
(* key matched.                                                             *)
OnlyProvenReplace ==
    \A c \in Clients : evictor[c] # None => evictor[c] \in proven /\ c \in proven

(* An account has one session, unless two logins of it overlapped, or one    *)
(* came while a session that was replaced was still in the map.             *)
OneSession == \A a \in Accounts \ blind :
    Cardinality({c \in loggedIn \cap live : account[c] = a}) <= 1

(* A player is in the sector its coordinates name, once, and nowhere else,   *)
(* but for the moment it moves; a freed one is in none.                     *)
SectorsExact == \A c \in Clients, q \in Sectors :
    sector[q][c] =
      IF place[c] = q /\ pc[c] # "insert" /\ phase[c] \in {"mapped", "erased"} THEN 1 ELSE 0

(* A message reaches everybody who is logged in within reach of the speaker  *)
(* from the beginning of the broadcast to its end, once, though others come, *)
(* move and leave.                                                          *)
StayersHear == \A c \in Clients :
    pc[c] = "send" => \A d \in stayed[c] : found[c][d] = 1
================================================================================
