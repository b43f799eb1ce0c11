----------------------------- MODULE MCGroupServer -----------------------------
(* Instances of GroupServer for TLC. *)
EXTENDS GroupServer, TLC

CONSTANTS i1, i2, i3, q1, q2, e1

(* One echo group for both sessions: they meet in its mailbox. *)
OneShard == [i \in Ids |-> e1]

================================================================================
