------------------------------ MODULE RingBuffer ------------------------------
(***************************************************************************)
(* The ring buffer of the sessions: one slot more than its capacity, so    *)
(* that a full ring differs from an empty one. A ring is a record of its   *)
(* two indices and its slots; each operator is a method and returns the    *)
(* ring after it.                                                          *)
(***************************************************************************)
LOCAL INSTANCE Integers
LOCAL INSTANCE Sequences

(* A ring of n items; what its slots hold at first is of no account. *)
NewRing(n, filler) ==
    [size |-> n + 1, front |-> 0, rear |-> 0, slots |-> [i \in 0..n |-> filler]]

GetBufferSize(r) == r.size - 1

(* Mutant: no correction for a rear that has wrapped. *)
Mutant_GetUseSize(r) == r.rear - r.front

GetUseSize(r) == (r.rear - r.front + r.size) % r.size

GetFreeSize(r) == GetBufferSize(r) - GetUseSize(r)

(* The free slots that follow the rear without a wrap. *)
DirectEnqueueSize(r) ==
    IF GetFreeSize(r) = 0 THEN 0
    ELSE IF r.rear < r.front THEN r.front - r.rear - 1
    ELSE r.size - r.rear - (IF r.front = 0 THEN 1 ELSE 0)

(* The two areas a receive may fill, as <<index, length>>: from the rear, and *)
(* from the beginning of the buffer.                                         *)
GetEnqueueSegments(r) ==
    LET direct == DirectEnqueueSize(r)
        rest == GetFreeSize(r) - direct
    IN  IF GetFreeSize(r) = 0 THEN <<>>
        ELSE <<<<r.rear, direct>>>> \o IF rest > 0 THEN <<<<0, rest>>>> ELSE <<>>

MoveRear(r, n) ==
    IF n > GetFreeSize(r) THEN r ELSE [r EXCEPT !.rear = (@ + n) % r.size]

MoveFront(r, n) ==
    IF n > GetUseSize(r) THEN r ELSE [r EXCEPT !.front = (@ + n) % r.size]

(* The copy of Peek and Dequeue, in two parts when it wraps. *)
Peek(r, n) ==
    LET size == IF n < GetUseSize(r) THEN n ELSE GetUseSize(r)
        first == IF r.size - r.front < size THEN r.size - r.front ELSE size
    IN  [i \in 1..size |-> IF i <= first THEN r.slots[r.front + i - 1] ELSE r.slots[i - first - 1]]

EnqueueItem(r, x) ==
    IF GetFreeSize(r) < 1 THEN r
    ELSE [r EXCEPT !.slots[r.rear] = x, !.rear = (@ + 1) % r.size]

FrontItem(r) == r.slots[r.front]

===============================================================================
