----------------------------- MODULE SessionLease -----------------------------
(***************************************************************************)
(* What the session engine promises, without its counter, its flags and    *)
(* its completion queue: each slot is leased to one connection at a time,  *)
(* under an id no other connection ever has; parties that work with the    *)
(* slot hold it; a closed lease admits no new holder; its end is told once, *)
(* when nobody holds the slot any more; and only then is the slot free.    *)
(***************************************************************************)
CONSTANTS Slots, Holders, Ids, NoId

VARIABLES
    phase,      (* "free", "open", "closing" or "ended"                      *)
    owner,      (* the id of the connection the slot is leased to            *)
    holders,    (* who works with the slot                                   *)
    told        (* the ids whose end the application was told                *)

leaseVars == <<phase, owner, holders, told>>

Init ==
    /\ phase   = [s \in Slots |-> "free"]
    /\ owner   = [s \in Slots |-> NoId]
    /\ holders = [s \in Slots |-> {}]
    /\ told    = {}

Open(s) ==
    /\ phase[s] = "free" /\ holders[s] = {}
    /\ phase' = [phase EXCEPT ![s] = "open"]
    /\ UNCHANGED <<owner, holders, told>>

(* The lease gets an id that no connection has or had. *)
Name(s, i) ==
    /\ phase[s] = "open" /\ owner[s] = NoId
    /\ i \notin told /\ \A r \in Slots : owner[r] # i
    /\ owner' = [owner EXCEPT ![s] = i]
    /\ UNCHANGED <<phase, holders, told>>

Hold(s, h) ==
    /\ phase[s] = "open" /\ h \notin holders[s]
    /\ holders' = [holders EXCEPT ![s] = @ \cup {h}]
    /\ UNCHANGED <<phase, owner, told>>

(* A holder passes its hold on: a thread to an I/O it starts, a completed   *)
(* I/O to the worker that serves it. Also possible while closing.           *)
HandOver(s, h, k) ==
    /\ phase[s] \in {"open", "closing"}
    /\ h \in holders[s] /\ k \notin holders[s]
    /\ holders' = [holders EXCEPT ![s] = (@ \ {h}) \cup {k}]
    /\ UNCHANGED <<phase, owner, told>>

LetGo(s, h) ==
    /\ h \in holders[s]
    /\ holders' = [holders EXCEPT ![s] = @ \ {h}]
    /\ UNCHANGED <<phase, owner, told>>

Close(s) ==
    /\ phase[s] = "open"
    /\ phase' = [phase EXCEPT ![s] = "closing"]
    /\ UNCHANGED <<owner, holders, told>>

(* The end of the lease is told, once, when nobody holds the slot. *)
Tell(s) ==
    /\ phase[s] = "closing" /\ holders[s] = {}
    /\ owner[s] # NoId /\ owner[s] \notin told
    /\ phase' = [phase EXCEPT ![s] = "ended"]
    /\ told'  = told \cup {owner[s]}
    /\ UNCHANGED <<owner, holders>>

Forget(s) ==
    /\ phase[s] = "ended" /\ owner[s] # NoId
    /\ owner' = [owner EXCEPT ![s] = NoId]
    /\ UNCHANGED <<phase, holders, told>>

Recycle(s) ==
    /\ phase[s] = "ended" /\ owner[s] = NoId
    /\ phase' = [phase EXCEPT ![s] = "free"]
    /\ UNCHANGED <<owner, holders, told>>

Next ==
    \E s \in Slots :
        \/ Open(s) \/ Close(s) \/ Tell(s) \/ Forget(s) \/ Recycle(s)
        \/ \E i \in Ids : Name(s, i)
        \/ \E h \in Holders : Hold(s, h) \/ LetGo(s, h)
        \/ \E h, k \in Holders : HandOver(s, h, k)

Spec == Init /\ [][Next]_leaseVars

===============================================================================
