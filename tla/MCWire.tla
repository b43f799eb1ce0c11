------------------------------- MODULE MCWire -------------------------------
(* Wire for TLC. The packets are interchangeable, so the first is taken to    *)
(* be a proper one, and the second to be malformed or of the full length.     *)
EXTENDS Wire

CONSTANTS s1, s2, p1, p2

MCInit ==
    /\ Init
    /\ payload[p1] # Malformed
    /\ payload[p2] = Malformed \/ Len(payload[p2]) = MaxPayload

MCSpec == MCInit /\ [][Next]_vars /\ Fairness

=============================================================================
