------------------------------ MODULE MCLoginChat ------------------------------
(* Instances of LoginChat for TLC. *)
EXTENDS LoginChat, TLC

CONSTANTS c1, c2, c3, t0, t1, t2, a1, a2, k1, kz, zero

OnThreads == c1 :> t1 @@ c2 :> t2 @@ c3 :> t0 @@ zero :> t0
OneKey    == {<<a1, k1>>}
Requests  == OneKey \cup {<<a1, kz>>, BadRequest}
Places    == {<<0, 0>>, <<1, 0>>, <<2, 0>>}

(* Two of the clients are alike, with their threads. *)
Alike == {c1 :> c2 @@ c2 :> c1 @@ t1 :> t2 @@ t2 :> t1}

(* The login server is at rest. *)
LoggedIn ==
    /\ session = [c \in Clients |-> "left"] /\ accepting = None
    /\ jobs = [t \in ContentThreads |-> <<>>] /\ step = [t \in ContentThreads |-> "wait"]
    /\ status = [t \in ContentThreads |-> "ok"] /\ playerOf = {} /\ late = {}
    /\ told = [c \in Clients |-> "ok"]

(* Both of two clients are in the chat, with accounts of their own. *)
Chatting ==
    LET own == [c \in Clients |-> IF c = c1 THEN a1 ELSE a2] IN
    /\ LoggedIn /\ asked = [c \in Clients |-> <<own[c], k1>>]
    /\ store = [a \in Accounts |-> Empty] /\ fate = [c \in Clients |-> "gone"]
    /\ issued = [l \in Logins |-> 1] /\ admitted = issued
    /\ phase = [c \in Clients |-> IF c = c3 THEN "freed" ELSE "mapped"]
    /\ live = {c1, c2} /\ loggedIn = {c1, c2} /\ proven = {c1, c2}
    /\ account = [c \in Clients |-> IF c = c3 THEN None ELSE own[c]]
    /\ evictor = [c \in Clients |-> None] /\ ChatQuiet /\ packets = 0

(* One client has replaced another of the account, which is still in the     *)
(* map, and the third has a new key.                                        *)
Replacing ==
    /\ LoggedIn /\ asked = [c \in Clients |-> <<a1, k1>>]
    /\ store = [a \in Accounts |-> IF a = a1 THEN [key |-> k1, by |-> c3] ELSE Empty]
    /\ fate = [c \in Clients |-> IF c = c3 THEN "valid" ELSE "gone"]
    /\ issued = [l \in Logins |-> IF l = <<a1, k1>> THEN 3 ELSE 0]
    /\ admitted = [l \in Logins |-> IF l = <<a1, k1>> THEN 2 ELSE 0]
    /\ phase = [c \in Clients |-> IF c = c3 THEN "new" ELSE "mapped"]
    /\ live = {c2} /\ loggedIn = {c1, c2} /\ proven = {c1, c2}
    /\ account = [c \in Clients |-> IF c = c3 THEN None ELSE a1]
    /\ evictor = [c \in Clients |-> IF c = c1 THEN c2 ELSE None]
    /\ ChatQuiet /\ packets = MaxPackets - 3

(* The servers have just started, and two packets are left. *)
Starting == Init /\ packets = MaxPackets - 2

MCInit == Starting \/ Chatting \/ Replacing

(* The third client has a part in the last of them only. *)
OnlyTwo == session[c3] \in {"new", "left"} /\ (session[c3] = "new" => phase[c3] = "new")

MCSpec == MCInit /\ [][Next /\ OnlyTwo']_vars
================================================================================
