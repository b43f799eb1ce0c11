----------------------------- MODULE MCDBServer -----------------------------
(* DBServer for TLC: two update threads, as in the constructor. *)
EXTENDS DBServer

CONSTANTS u1, u2

=============================================================================
