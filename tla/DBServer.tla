------------------------------- MODULE DBServer -------------------------------
(***************************************************************************)
(* The DB work queue: update threads push save requests and wake the one   *)
(* writer by an auto-reset event; the writer takes them in order and sends *)
(* their statements to MySQL over one connection. A trade is four          *)
(* statements, in a transaction or without one. The update thread that     *)
(* ends last waits for the queue to be empty and ends the writer.          *)
(*                                                                         *)
(* What a statement says is abstracted to its number in its request; what  *)
(* MySQL does with it is external: a statement outside a transaction is    *)
(* saved at once, START TRANSACTION commits what was open, a lost          *)
(* connection rolls back and its last answer may be lost after the fact.   *)
(***************************************************************************)
EXTENDS Naturals, Sequences, FiniteSets

CONSTANTS UpdateThreads,    \* the threads of the constructor, two in the code
          Writer,           \* DBWriterThread
          PerThread,        \* requests an update thread makes, 3000 in the code
          MaxFaults         \* bound on the failures of the server

ASSUME DBAssumption ==
    /\ UpdateThreads # {} /\ IsFiniteSet(UpdateThreads) /\ Writer \notin UpdateThreads
    /\ PerThread \in Nat \ {0} /\ MaxFaults \in Nat

VARIABLES
    useTransaction,   \* bUseTransaction
    queue,            \* DBQueue, under DBQueueCS
    event,            \* g_hEvent is signalled
    finished,         \* mFinishedUpdateThreads
    terminate,        \* bTerminate
    total,            \* lDBWriteTotal
    pc, made,         \* where each thread is; the requests an update thread made
    request, step,    \* the writer: the request it handles, its next statement
    db,               \* MySQL: the connection, its transaction, what is saved
    failed,           \* the statements whose execution was reported as failed
    handled, faults   \* the requests the writer is done with; failures so far

threadVars == <<queue, event, finished, terminate, made>>
writerVars == <<total, request, step, db, failed, handled, faults>>
vars == <<useTransaction, threadVars, pc, writerVars>>

(* A request by its thread and number: level, money, quest and buy are one   *)
(* statement each.                                                           *)
Requests == [by : UpdateThreads, nth : 1..PerThread, trade : BOOLEAN]
NoRequest == [by |-> Writer, nth |-> 0, trade |-> FALSE]
Statements(r) == IF r.trade THEN 1..4 ELSE {1}
Last(r) == IF r.trade THEN 4 ELSE 1
InTransaction(r) == r.trade /\ useTransaction

Init ==
    /\ useTransaction \in BOOLEAN
    /\ queue = <<>> /\ event = FALSE
    /\ finished = 0 /\ terminate = FALSE /\ total = 0
    /\ pc = [t \in UpdateThreads \cup {Writer} |-> IF t = Writer THEN "wait" ELSE "produce"]
    /\ made = [t \in UpdateThreads |-> 0]
    /\ request = NoRequest /\ step = 0
    /\ db = [up |-> TRUE, open |-> FALSE, pending |-> {}, saved |-> {}]
    /\ failed = {} /\ handled = {} /\ faults = 0

Goto(t, l) == pc' = [pc EXCEPT ![t] = l]

-------------------------------------------------------------------------------
(* The update threads. *)

(* Enqueue, first part: the push under the lock. *)
Push(t) ==
    /\ pc[t] = "produce"
    /\ \E trade \in BOOLEAN :
           queue' = Append(queue, [by |-> t, nth |-> made[t] + 1, trade |-> trade])
    /\ made' = [made EXCEPT ![t] = @ + 1]
    /\ Goto(t, "wake")
    /\ UNCHANGED <<useTransaction, event, finished, terminate, writerVars>>

(* Enqueue, second part: SetEvent, after the lock is released. *)
Wake(t) ==
    /\ pc[t] = "wake"
    /\ event' = TRUE
    /\ Goto(t, IF made[t] < PerThread THEN "produce" ELSE "finish")
    /\ UNCHANGED <<useTransaction, queue, finished, terminate, made, writerVars>>

AllFinished(n) == n = Cardinality(UpdateThreads)

Finish(t) ==
    /\ pc[t] = "finish"
    /\ finished' = finished + 1
    /\ Goto(t, IF AllFinished(finished + 1) THEN "poll" ELSE "done")
    /\ UNCHANGED <<useTransaction, queue, event, terminate, made, writerVars>>

(* The last one looks at the queue until it is empty. *)
Poll(t) ==
    /\ pc[t] = "poll" /\ queue = <<>>
    /\ Goto(t, "terminate")
    /\ UNCHANGED <<useTransaction, threadVars, writerVars>>

Terminate(t) ==
    /\ pc[t] = "terminate"
    /\ terminate' = TRUE
    /\ Goto(t, "wakeLast")
    /\ UNCHANGED <<useTransaction, queue, event, finished, made, writerVars>>

(* Mutant: the flag alone, without waking the writer. *)
Mutant_WakeLast(t) ==
    /\ pc[t] = "wakeLast"
    /\ Goto(t, "done")
    /\ UNCHANGED <<useTransaction, threadVars, writerVars>>

WakeLast(t) ==
    /\ pc[t] = "wakeLast"
    /\ event' = TRUE
    /\ Goto(t, "done")
    /\ UNCHANGED <<useTransaction, queue, finished, terminate, made, writerVars>>

UpdateThread(t) ==
    Push(t) \/ Wake(t) \/ Finish(t) \/ Poll(t) \/ Terminate(t) \/ WakeLast(t)

-------------------------------------------------------------------------------
(* MySQL, external. *)

Committed == [db EXCEPT !.saved = @ \cup db.pending, !.pending = {}, !.open = FALSE]
Begun == [Committed EXCEPT !.open = TRUE]
RolledBack == [db EXCEPT !.pending = {}, !.open = FALSE]
Written(s) == IF db.open THEN [db EXCEPT !.pending = @ \cup {s}]
                         ELSE [db EXCEPT !.saved = @ \cup {s}]
Cut(d) == [d EXCEPT !.up = FALSE, !.pending = {}, !.open = FALSE]

(* mysql_query: it works; the connection is gone already; the server refuses *)
(* (it may give up the whole transaction, as after a deadlock); or the        *)
(* connection breaks before the server got the query or before its answer.    *)
(* There is no reconnect.                                                      *)
Query(after, refusals, ok) ==
    \/ ok /\ db.up /\ db' = after /\ UNCHANGED faults
    \/ ~ok /\ ~db.up /\ UNCHANGED <<db, faults>>
    \/ /\ ~ok /\ db.up /\ faults < MaxFaults
       /\ faults' = faults + 1
       /\ db' \in refusals \cup {Cut(db), Cut(after)}

(* Execute: the result, noted for the statement it is about. *)
Execute(after, refusals, statement, ok) ==
    /\ Query(after, refusals, ok)
    /\ failed' = IF ok THEN failed ELSE failed \cup {<<request, statement>>}

Refusals == {db, RolledBack}

-------------------------------------------------------------------------------
(* DBWriterThread. *)

WaitForEvent ==
    /\ pc[Writer] = "wait" /\ event
    /\ event' = FALSE
    /\ Goto(Writer, "drain")
    /\ UNCHANGED <<useTransaction, queue, finished, terminate, made, writerVars>>

(* One request from the front; the handler of its type begins. *)
Take ==
    /\ pc[Writer] = "drain" /\ queue # <<>>
    /\ request' = Head(queue) /\ queue' = Tail(queue) /\ step' = 1
    /\ Goto(Writer, IF InTransaction(Head(queue)) THEN "begin" ELSE "execute")
    /\ UNCHANGED <<useTransaction, event, finished, terminate, made, total, db, failed,
                   handled, faults>>

CheckTerminate ==
    /\ pc[Writer] = "drain" /\ queue = <<>>
    /\ Goto(Writer, "check")
    /\ UNCHANGED <<useTransaction, threadVars, writerVars>>

LoopOrEnd ==
    /\ pc[Writer] = "check"
    /\ Goto(Writer, IF terminate THEN "done" ELSE "wait")
    /\ UNCHANGED <<useTransaction, threadVars, writerVars>>

(* Mutant: a trade that failed is not counted. *)
Mutant_Handled ==
    /\ total' = total + (IF \E k \in 0..6 : <<request, k>> \in failed' THEN 0 ELSE 1)
    /\ handled' = handled \cup {request}
    /\ request' = NoRequest /\ step' = 0
    /\ Goto(Writer, "drain")

(* The handler returns and the writer counts the request. *)
Handled ==
    /\ total' = total + 1
    /\ handled' = handled \cup {request}
    /\ request' = NoRequest /\ step' = 0
    /\ Goto(Writer, "drain")

GoOn(l) == Goto(Writer, l) /\ UNCHANGED <<total, handled, request, step>>

BeginTransaction ==
    /\ pc[Writer] = "begin"
    /\ \E ok \in BOOLEAN :
           /\ Execute(Begun, Refusals, 0, ok)
           /\ IF ok THEN GoOn("execute") ELSE Handled
    /\ UNCHANGED <<useTransaction, threadVars>>

(* ExecuteCount with one statement of the request. In a transaction a failure *)
(* ends the trade; elsewhere it is only logged.                               *)
ExecuteCount ==
    /\ pc[Writer] = "execute"
    /\ \E ok \in BOOLEAN :
           /\ Execute(Written(<<request, step>>), Refusals, step, ok)
           /\ CASE ~ok /\ InTransaction(request) -> GoOn("rollback")
                [] step < Last(request) /\ (ok \/ ~InTransaction(request)) ->
                       step' = step + 1 /\ UNCHANGED <<pc, total, handled, request>>
                [] step = Last(request) /\ ok /\ InTransaction(request) -> GoOn("commit")
                [] step = Last(request) /\ ~InTransaction(request) -> Handled
    /\ UNCHANGED <<useTransaction, threadVars>>

(* Mutant: the handler returns after its last statement. *)
Mutant_Commit ==
    /\ pc[Writer] = "commit"
    /\ Handled
    /\ UNCHANGED <<useTransaction, threadVars, db, failed, faults>>

Commit ==
    /\ pc[Writer] = "commit"
    /\ \E ok \in BOOLEAN :
           /\ Execute(Committed, Refusals, 5, ok)
           /\ IF ok THEN Handled ELSE GoOn("rollback")
    /\ UNCHANGED <<useTransaction, threadVars>>

(* Mutant: the handler returns without the rollback. *)
Mutant_Rollback ==
    /\ pc[Writer] = "rollback"
    /\ Handled
    /\ UNCHANGED <<useTransaction, threadVars, db, failed, faults>>

(* The result is ignored; a server that is there does not refuse it. *)
Rollback ==
    /\ pc[Writer] = "rollback"
    /\ \E ok \in BOOLEAN : Execute(RolledBack, {}, 6, ok)
    /\ Handled
    /\ UNCHANGED <<useTransaction, threadVars>>

DBWriterThread ==
    \/ WaitForEvent \/ Take \/ CheckTerminate \/ LoopOrEnd
    \/ BeginTransaction \/ ExecuteCount \/ Commit \/ Rollback

Next == DBWriterThread \/ \E t \in UpdateThreads : UpdateThread(t)

Spec == Init /\ [][Next]_vars

(* Every thread is scheduled, and MySQL or the client library answers. *)
FairSpec == Spec /\ WF_vars(DBWriterThread) /\ \A t \in UpdateThreads : WF_vars(UpdateThread(t))

-------------------------------------------------------------------------------
(* Properties. *)

(* Type invariant. *)
TypeOK ==
    /\ useTransaction \in BOOLEAN /\ event \in BOOLEAN /\ terminate \in BOOLEAN
    /\ queue \in Seq(Requests) /\ request \in Requests \cup {NoRequest}
    /\ finished \in 0..Cardinality(UpdateThreads)
    /\ total = Cardinality(handled) /\ handled \subseteq Requests
    /\ pc \in [UpdateThreads \cup {Writer} ->
                  {"produce", "wake", "finish", "poll", "terminate", "wakeLast", "done",
                   "wait", "drain", "check", "begin", "execute", "commit", "rollback"}]
    /\ made \in [UpdateThreads -> 0..PerThread] /\ step \in 0..4
    /\ faults \in 0..MaxFaults
    /\ db.up \in BOOLEAN /\ db.open \in BOOLEAN
    /\ db.pending \cup db.saved \subseteq Requests \X (1..4) /\ failed \subseteq Requests \X (0..6)
    /\ db.pending # {} => db.open

(* With a transaction a trade is saved as a whole or not at all, whichever of *)
(* its statements fails and whenever the connection breaks: no half of one    *)
(* trade is committed, not by the requests that follow it either.             *)
TradeAtomic ==
    useTransaction =>
        \A s \in db.saved : s[1].trade => \A k \in 1..4 : <<s[1], k>> \in db.saved

(* A request the writer is done with is saved, but for what was reported as   *)
(* failed: the whole trade if it had a transaction, the one statement if not. *)
SavedUnlessFailed ==
    \A r \in handled : \A k \in Statements(r) :
        \/ <<r, k>> \in db.saved
        \/ <<r, k>> \in failed
        \/ InTransaction(r) /\ \E j \in 0..6 : <<r, j>> \in failed

(* The server ends: no wake-up is lost, the writer is not ended before the    *)
(* last request is handled, and all of them are counted.                      *)
ShutsDown ==
    <>[](/\ \A t \in UpdateThreads \cup {Writer} : pc[t] = "done"
         /\ queue = <<>> /\ total = PerThread * Cardinality(UpdateThreads))

===============================================================================
