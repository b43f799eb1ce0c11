------------------------------ MODULE FramePipe ------------------------------
(***************************************************************************)
(* What a connection promises: the payloads put on one end come out at the *)
(* other, each once, whole and in order. It ends only at something that is *)
(* not a packet, or when a packet is put while Capacity of them wait.      *)
(***************************************************************************)
EXTENDS Naturals, Sequences

CONSTANTS Payloads, Malformed, Capacity

VARIABLES sent, delivered, closed
pipeVars == <<sent, delivered, closed>>

Init == sent = <<>> /\ delivered = <<>> /\ closed = FALSE

NextItem == sent[Len(delivered) + 1]

Send ==
    /\ \E x \in Payloads \cup {Malformed} : sent' = Append(sent, x)
    /\ UNCHANGED <<delivered, closed>>

Deliver ==
    /\ ~closed /\ Len(delivered) < Len(sent) /\ NextItem # Malformed
    /\ delivered' = Append(delivered, NextItem)
    /\ UNCHANGED <<sent, closed>>

Close ==
    /\ \/ Len(delivered) < Len(sent) /\ NextItem = Malformed
       \/ Len(sent) - Len(delivered) >= Capacity
    /\ closed' = TRUE
    /\ UNCHANGED <<sent, delivered>>

Spec == Init /\ [][Send \/ Deliver \/ Close]_pipeVars

===============================================================================
