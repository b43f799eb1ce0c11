---------------------------- MODULE MCLockFreeQueue ----------------------------
(* Instances of LockFreeQueue for TLC. *)
EXTENDS LockFreeQueue

CONSTANTS t1, t2, n1, n2, n3, v1, v2

================================================================================
