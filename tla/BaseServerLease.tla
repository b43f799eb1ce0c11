---------------------------- MODULE BaseServerLease ----------------------------
(***************************************************************************)
(* BaseServer implements SessionLease: the count in the control word stands *)
(* for the set of holders, FLAG_RELEASE closes the lease, and the worker    *)
(* that wins FLAG_CLEANUP ends it.                                          *)
(***************************************************************************)
EXTENDS BaseServerInvariant

Kernel == "kernel"
Holders == (Threads \X {"call", "io"}) \cup ({Kernel} \X {"recv", "send"})

HoldersOf(s) ==
    ThreadRefs(s) \cup (IF recv[s] = "none" THEN {} ELSE {<<Kernel, "recv">>})
                  \cup (IF send[s] = "none" THEN {} ELSE {<<Kernel, "send">>})

(* The worker that told the end of the session is still in its slot. *)
Ending(s) == At(s, {"drainAll", "reset", "push"})

PhaseOf(s) ==
    IF s \in free THEN "free"
    ELSE IF ~release[s] THEN "open"
    ELSE IF Ending(s) THEN "ended" ELSE "closing"

Phases == [s \in Slots |-> PhaseOf(s)]
Holds  == [s \in Slots |-> HoldersOf(s)]

Lease == INSTANCE SessionLease WITH
    Ids <- Slots \X (0..MaxUnique), phase <- Phases, owner <- id, holders <- Holds, told <- left

(* Every behaviour of the engine is one the lease allows: a slot is handed  *)
(* on only when no caller, I/O or completion holds it, no hold is taken     *)
(* after the release was requested, and each id ends exactly once.          *)
LeaseSpec == Lease!Spec

================================================================================
