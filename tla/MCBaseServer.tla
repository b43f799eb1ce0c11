----------------------------- MODULE MCBaseServer -----------------------------
(* Instances of BaseServer for TLC: one or two slots, so that a slot is     *)
(* reused while callers still hold ids of its previous connection.          *)
EXTENDS BaseServerLease, TLC

CONSTANTS w1, w2, a1, a2, p1, p2

Symmetry == Permutations({w1, w2}) \cup Permutations({a1, a2}) \cup Permutations({p1, p2})

(* Two connections at a time only before the first packet is sent. *)
WithinBounds == 1 \in free \/ sends = 0

MCSpec == Init /\ [][Next /\ WithinBounds']_vars

===============================================================================
