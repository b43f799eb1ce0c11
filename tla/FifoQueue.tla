------------------------------- MODULE FifoQueue -------------------------------
(***************************************************************************)
(* What a queue shared by threads promises: every call takes effect at one  *)
(* moment between its beginning and its return, first in, first out. A call *)
(* that finds the queue empty may say so, or look again.                    *)
(***************************************************************************)
EXTENDS Sequences

CONSTANTS Threads, Values

VARIABLES
    queue,      (* the values in it, oldest first                            *)
    call        (* the call a thread is in, and what it knows already        *)

vars == <<queue, call>>

Idle     == [op |-> "idle"]
Put(v)   == [op |-> "put", value |-> v]
Done     == [op |-> "done"]
Get      == [op |-> "get"]
SawEmpty == [op |-> "saw_empty"]
Got(v)   == [op |-> "got", value |-> v]

Init == queue = <<>> /\ call = [t \in Threads |-> Idle]

Becomes(t, from, to) == call[t] = from /\ call' = [call EXCEPT ![t] = to]

Begin(t) ==
    /\ \/ Becomes(t, Idle, Get)
       \/ \E v \in Values : Becomes(t, Idle, Put(v))
    /\ UNCHANGED queue

PutItem(t, v) == Becomes(t, Put(v), Done) /\ queue' = Append(queue, v)

GetItem(t) ==
    /\ queue # <<>>
    /\ Becomes(t, Get, Got(Head(queue)))
    /\ queue' = Tail(queue)

Observe(t) == queue = <<>> /\ Becomes(t, Get, SawEmpty) /\ UNCHANGED queue
Again(t)   == Becomes(t, SawEmpty, Get) /\ UNCHANGED queue

Return(t) ==
    /\ \/ Becomes(t, Done, Idle)
       \/ Becomes(t, SawEmpty, Idle)
       \/ \E v \in Values : Becomes(t, Got(v), Idle)
    /\ UNCHANGED queue

Next == \E t \in Threads :
    \/ Begin(t) \/ GetItem(t) \/ Observe(t) \/ Again(t) \/ Return(t)
    \/ \E v \in Values : PutItem(t, v)

Spec == Init /\ [][Next]_vars

================================================================================
