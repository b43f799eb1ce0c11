------------------------- MODULE GroupServerInvariant -------------------------
(***************************************************************************)
(* Who may still refer to a player, as an inductive invariant of             *)
(* GroupServer: what each session, each job in a mailbox, each entry of a    *)
(* group's map and each step of the hand-over says of its player, while the  *)
(* pool reuses players. GroupServerProofs proves that it is invariant.       *)
(***************************************************************************)
EXTENDS GroupServer

(* The phases of a session after OnClientJoin, and after its end was told. *)
Joined == {"open", "check", "gone"}
Left   == {"check", "gone"}
Enters == {"JOIN", "GROUP_ENTER"}

Pending(g) == {Queue(g)[k] : k \in 1 .. Len(Queue(g))}

(* The types, and what they rest on: a session that is being opened has a    *)
(* player, and only the login group stops inside a job, and at a packet.    *)
Typed ==
    /\ TypeOK
    /\ \A i \in Sessions : HasPlayer(i) => mine[i] \in Players
    /\ pc[Login] # "idle" => local[Login] # <<>> /\ Current(Login).type = "PACKET"
    /\ \A g \in Shards : pc[g] = "idle"

(* The sessions a player is kept for: those that have one, and one that ended *)
(* before its player came into the map.                                     *)
Owner(i) == HasPlayer(i) \/ map[i] # NoPlayer
SessionOf(i) ==
    /\ mine[i] = NoPlayer <=> phase[i] = "new"
    /\ phase[i] = "open" => map[i] = mine[i]
    /\ map[i] # NoPlayer => map[i] = mine[i] /\ phase[i] \in {"open", "gone"}
    /\ Owner(i) =>
         /\ sid[mine[i]] = IF phase[i] = "init" THEN NoSession ELSE i
         /\ avail[mine[i]] = 0 /\ \A g \in Groups : ~Leaves(g, mine[i])
         /\ \A j \in Sessions : Owner(j) /\ mine[j] = mine[i] => i = j
PlayerOf(p) ==
    /\ avail[p] <= 1
    /\ sid[p] # NoSession => /\ mine[sid[p]] = p /\ phase[sid[p]] \notin {"new", "init"}
                             /\ group[p] # NoGroup
    /\ \A g \in Groups : Leaves(g, p) =>
         /\ avail[p] = 0 /\ sid[p] # NoSession
         /\ \A h \in Groups : Leaves(h, p) => g = h
LeavesOnce(g) == \A k \in 1 .. Len(Queue(g)) : \A j \in 1 .. k - 1 :
    Queue(g)[j].type = "LEAVE" /\ Queue(g)[k].type = "LEAVE" =>
        Queue(g)[j].player # Queue(g)[k].player
Tokens ==
    /\ \A i \in Sessions : SessionOf(i)
    /\ \A p \in Players : PlayerOf(p)
    /\ \A g \in Groups : LeavesOnce(g)

(* A packet of a session whose player has another one, or none, by now. *)
Late(job) == job.type = "PACKET" /\ job.packet.from # sid[job.player]

(* The player the login group is at; has it posted its GROUP_ENTER and not   *)
(* moved it yet?                                                            *)
Posted(p) == pc[Login] = "move" /\ Current(Login).player = p

(* What a job that group g has still to do says of its player. *)
LateOf(g, job) ==
    LET p == job.player
    IN  /\ g = Login /\ phase[job.packet.from] \in Left
        /\ avail[p] = 0 /\ group[p] \in {NoGroup, Login}
        /\ members[Login][sid[p]] = NoPlayer
TimelyOf(g, job) ==
    LET p == job.player
        i == sid[p]
    IN  /\ i # NoSession /\ phase[i] \in Joined /\ g \in {Login, ShardOf[i]}
        /\ job.type = "JOIN" => g = Login /\ group[p] = Login
        /\ job.type = "GROUP_ENTER" => g # Login /\ (group[p] = g \/ Posted(p))
        /\ job.type \in Enters => avail[p] = 0 /\ members[g][i] = NoPlayer
        /\ job.type \in {"PACKET", "LEAVE"} /\ g # Login => group[p] = g
        /\ avail[p] > 0 => g = Login /\ job.type = "PACKET" /\ group[p] # Login
JobOf(g, job) ==
    /\ job.type = "PACKET" => job.packet.from # NoSession /\ mine[job.packet.from] = job.player
    /\ IF Late(job) THEN LateOf(g, job) ELSE TimelyOf(g, job)

(* Late packets come before the other jobs of a player, of which its entry is *)
(* the first and its LEAVE the last.                                        *)
Precedes(a, b) == a.player = b.player =>
    a.type # "LEAVE" /\ (b.type \in Enters \/ Late(b) => Late(a))
InOrder(g) == \A k \in 1 .. Len(Queue(g)) : \A j \in 1 .. k - 1 :
    Precedes(Queue(g)[j], Queue(g)[k])
Mailboxes == \A g \in Groups : InOrder(g) /\ \A job \in Pending(g) : JobOf(g, job)

(* The groups of a player, and what an entry of a group's map says of it. *)
Homes ==
    /\ \A i \in Sessions : phase[i] = "insert" => group[mine[i]] = Login
    /\ \A p \in Players :
           group[p] \in IF sid[p] = NoSession THEN {NoGroup} ELSE {Login, ShardOf[sid[p]]}
MemberOf(g, i) ==
    LET p == members[g][i]
    IN  p # NoPlayer =>
          /\ i # NoSession /\ phase[i] \in Joined
          /\ g # Login => /\ g = ShardOf[i] /\ sid[p] = i /\ avail[p] = 0
                          /\ group[p] = g \/ Posted(p)
          /\ g = Login => \/ sid[p] = i /\ group[p] = Login /\ avail[p] = 0
                          \/ Erasing(i) \/ LeftBehind(i)
Members == \A g \in Groups, i \in Ids : MemberOf(g, i)

(* A group knows p, or will when it comes to a job it has already. *)
Knows(g, p) ==
    \/ members[g][sid[p]] = p
    \/ \E job \in Pending(g) : job.player = p /\ job.type \in Enters
Known == \A p \in Players, g \in Groups :
    group[p] = g /\ phase[sid[p]] \in Joined /\ avail[p] = 0 => Knows(g, p)

(* The steps of handleLogin, for the player of the job at the head. *)
HandOverOf(job) ==
    LET p == job.player
    IN  /\ pc[Login] \in {"handOver", "move"} => ~Late(job) /\ group[p] = Login
        /\ pc[Login] = "move" => Knows(ShardOf[sid[p]], p)
        /\ pc[Login] \in {"erase", "reply"} => Late(job) \/ group[p] # Login
HandOvers == pc[Login] # "idle" => HandOverOf(Current(Login))

(* The first packet of a client that begins with its LOGIN is handled before *)
(* the others, and these in the echo group or not at all.                   *)
Begins(i)      == sent[i] # <<>> /\ sent[i][1] = "login"
Later(i, kind) == \E n \in 2 .. Len(sent[i]) : sent[i][n] = kind
PacketAt(g, k, i) == Queue(g)[k].type = "PACKET" /\ Queue(g)[k].packet.from = i
LoginAhead(i) ==
    \E k \in 1 .. Len(Queue(Login)) :
        /\ PacketAt(Login, k, i) /\ Queue(Login)[k].packet.kind = "login"
        /\ \A j \in 1 .. k - 1 : ~PacketAt(Login, j, i)
PacketsOf(i, p) ==
    /\ Begins(i) /\ group[p] = Login /\ avail[p] = 0 => LoginAhead(i)
    /\ group[p] # Login => sent[i] # <<>>
PacketOf(g, job) ==
    LET i == job.packet.from
    IN  job.type = "PACKET" =>
          sent[i] # <<>> /\ (g # Login /\ Begins(i) => Later(i, job.packet.kind))
Packets ==
    /\ \A i \in Sessions : phase[i] \notin Joined => sent[i] = <<>>
    /\ \A i \in Sessions, p \in Players : sid[p] = i => PacketsOf(i, p)
    /\ \A g \in Groups : \A job \in Pending(g) : PacketOf(g, job)
    /\ \A i \in Sessions : <<i, "logic">> \in kicked => sent[i] # <<>>

(* A client has no more answers to read, and to get, than it sent packets. *)
Places(g, i) == {k \in 1 .. Len(Queue(g)) : PacketAt(g, k, i)}
Waiting(i)   == Cardinality(Places(Login, i)) + Cardinality(Places(ShardOf[i], i))
Answers == \A i \in Sessions : Misled(i) \/ unread[i] + Waiting(i) <= Len(sent[i])

Core      == Homes /\ Mailboxes /\ Members /\ Known /\ HandOvers
PlayerInv ==
    /\ Typed
    /\ NoStrayFree => Tokens
    /\ NoStrayFree /\ NoStrayPacket => Core

================================================================================
