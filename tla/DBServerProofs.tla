---------------------------- MODULE DBServerProofs ----------------------------
(***************************************************************************)
(* Proofs about DBServer, for any number of update threads, requests and     *)
(* failures: every variable keeps its type, a trade in a transaction is      *)
(* saved whole or not at all, and what a handled request has not saved was   *)
(* reported.                                                                *)
(*                                                                         *)
(* The invariant IInv says what MySQL holds at each label of the writer: a   *)
(* transaction is open from START TRANSACTION to COMMIT or ROLLBACK and has  *)
(* exactly the statements that were executed, and outside nothing is         *)
(* pending.                                                                 *)
(***************************************************************************)
EXTENDS DBServer, FiniteSetTheorems, TLAPS

Connections == [up : BOOLEAN, open : BOOLEAN, pending : SUBSET (Requests \X (1..4)),
                saved : SUBSET (Requests \X (1..4))]
UpdateLabels == {"produce", "wake", "finish", "poll", "terminate", "wakeLast", "done"}
WriterLabels == {"wait", "drain", "check", "done", "begin", "execute", "commit", "rollback"}

Types ==
    /\ useTransaction \in BOOLEAN /\ event \in BOOLEAN /\ terminate \in BOOLEAN
    /\ queue \in Seq(Requests) /\ request \in Requests \cup {NoRequest}
    /\ finished \in Nat /\ total \in Nat /\ handled \subseteq Requests
    /\ pc \in [UpdateThreads \cup {Writer} -> UpdateLabels \cup WriterLabels]
    /\ made \in [UpdateThreads -> 0..PerThread] /\ step \in 0..4
    /\ faults \in 0..MaxFaults
    /\ db \in Connections /\ failed \subseteq Requests \X (0..6)

(* The update threads: how many have ended, and that none makes too many.    *)
Ended == {t \in UpdateThreads : pc[t] \in {"poll", "terminate", "wakeLast", "done"}}
ThreadsInv ==
    /\ \A t \in UpdateThreads : pc[t] \in UpdateLabels /\ (pc[t] = "produce" => made[t] < PerThread)
    /\ finished = Cardinality(Ended)

(* A request is in the queue, with the writer, or handled, and not twice.     *)
Made(r) == r.nth <= made[r.by]
OnceInv ==
    /\ \A i \in DOMAIN queue : Made(queue[i]) /\ queue[i] \notin handled \cup {request}
    /\ \A i, j \in DOMAIN queue : queue[i] = queue[j] => i = j
    /\ \A r \in handled : Made(r)
    /\ request # NoRequest => Made(request) /\ request \notin handled
    /\ IsFiniteSet(handled) /\ total = Cardinality(handled)

(* What the writer does at each of its labels. *)
WriterInv ==
    /\ pc[Writer] \in WriterLabels
    /\ request = NoRequest <=> pc[Writer] \in {"wait", "drain", "check", "done"}
    /\ pc[Writer] \in {"begin", "commit", "rollback"} => InTransaction(request)
    /\ pc[Writer] = "begin" => step = 1
    /\ pc[Writer] = "execute" => step \in 1..Last(request)

(* And what MySQL holds then. *)
Executed(n) == {<<request, k>> : k \in 1..n}
Quiet == ~db.open /\ db.pending = {}
ConnectionInv ==
    /\ ~db.up => Quiet
    /\ db.pending # {} => db.open
    /\ ~InTransaction(request) \/ pc[Writer] = "begin" => Quiet
    /\ pc[Writer] = "execute" /\ InTransaction(request) =>
           db.open /\ db.pending = Executed(step - 1)
    /\ pc[Writer] = "commit" => db.open /\ db.pending = Executed(4)

(* What has become of the statements of a request. *)
Reported(r) == \E j \in 0..6 : <<r, j>> \in failed
Accounted(r) == \A k \in Statements(r) :
    <<r, k>> \in db.saved \/ <<r, k>> \in failed \/ (InTransaction(r) /\ Reported(r))
StatementsInv ==
    /\ \A r \in handled : Accounted(r)
    /\ pc[Writer] = "rollback" => Reported(request)
    /\ pc[Writer] = "execute" /\ ~InTransaction(request) =>
           \A k \in 1..(step - 1) : <<request, k>> \in db.saved \/ <<request, k>> \in failed

IInv == Types /\ ThreadsInv /\ OnceInv /\ WriterInv /\ ConnectionInv /\ TradeAtomic /\ StatementsInv

-----------------------------------------------------------------------------
(* Frames: what a step of one side leaves of the other side's conjuncts.     *)

(* The writer without a request has none of the real ones, and no transaction. *)
LEMMA NoRequestApart ==
  /\ NoRequest \notin Requests /\ ~InTransaction(NoRequest)
  /\ \A r \in Requests : r # NoRequest
BY DBAssumption DEF NoRequest, Requests, InTransaction

(* An update thread moves to a label of its own; nobody else moves. *)
LEMMA UpdateGoto ==
  ASSUME Types, NEW t \in UpdateThreads, NEW l \in UpdateLabels, Goto(t, l)
  PROVE  /\ pc' \in [UpdateThreads \cup {Writer} -> UpdateLabels \cup WriterLabels]
         /\ pc'[t] = l /\ pc'[Writer] = pc[Writer]
         /\ \A u \in UpdateThreads \ {t} : pc'[u] = pc[u]
BY DBAssumption DEF Types, Goto

(* So does the writer. *)
LEMMA WriterGoto ==
  ASSUME Types, NEW l \in WriterLabels, Goto(Writer, l)
  PROVE  /\ pc' \in [UpdateThreads \cup {Writer} -> UpdateLabels \cup WriterLabels]
         /\ pc'[Writer] = l
         /\ \A u \in UpdateThreads : pc'[u] = pc[u]
BY DBAssumption DEF Types, Goto

(* A step of an update thread touches neither the writer nor MySQL. *)
LEMMA UpdateFrame ==
  ASSUME WriterInv, ConnectionInv, TradeAtomic, StatementsInv,
         UNCHANGED <<useTransaction, writerVars>>, pc'[Writer] = pc[Writer]
  PROVE  WriterInv' /\ ConnectionInv' /\ TradeAtomic' /\ StatementsInv'
<1>1. WriterInv' BY DEF WriterInv, writerVars, InTransaction, Last
<1>2. ConnectionInv' BY DEF ConnectionInv, writerVars, InTransaction, Quiet, Executed
<1>3. TradeAtomic' BY DEF TradeAtomic, writerVars
<1>4. StatementsInv'
  BY DEF StatementsInv, Accounted, Reported, Statements, InTransaction, writerVars
<1> QED BY <1>1, <1>2, <1>3, <1>4

(* A step of the writer leaves the update threads where they are. *)
LEMMA ThreadsFrame ==
  ASSUME ThreadsInv, UNCHANGED <<finished, made>>, \A u \in UpdateThreads : pc'[u] = pc[u]
  PROVE  ThreadsInv'
<1>1. Ended' = Ended BY DEF Ended
<1> QED BY <1>1 DEF ThreadsInv

(* Requests stay where they are when neither queue nor writer moves one. *)
LEMMA OnceFrame ==
  ASSUME OnceInv, UNCHANGED <<queue, made, handled, request, total>>
  PROVE  OnceInv'
BY DEF OnceInv, Made

-----------------------------------------------------------------------------
(* The update threads. *)

(* An update thread moves, but not past its end: the count stays.            *)
LEMMA StillEnded ==
  ASSUME ThreadsInv, NEW t \in UpdateThreads, finished' = finished,
         \A u \in UpdateThreads : made'[u] = made[u],
         pc'[t] \in UpdateLabels, pc'[t] = "produce" => made[t] < PerThread,
         pc[t] \in {"poll", "terminate", "wakeLast", "done"} <=>
             pc'[t] \in {"poll", "terminate", "wakeLast", "done"},
         \A u \in UpdateThreads \ {t} : pc'[u] = pc[u]
  PROVE  ThreadsInv'
<1>1. Ended' = Ended BY DEF Ended
<1> QED BY <1>1 DEF ThreadsInv

(* A pushed request is new: its number is above all that its thread made.    *)
LEMMA PushKeepsIInv == ASSUME IInv, NEW t \in UpdateThreads, Push(t) PROVE IInv'
<1> USE DEF IInv
<1>1. PICK b \in BOOLEAN : queue' = Append(queue, [by |-> t, nth |-> made[t] + 1, trade |-> b])
  BY DEF Push
<1>2. made[t] < PerThread /\ made[t] \in Nat /\ made[t] + 1 \in 1..PerThread
  BY DBAssumption DEF ThreadsInv, Push, Types
<1>3. PICK new \in Requests : /\ new.by = t /\ new.nth = made[t] + 1 /\ new # NoRequest
                              /\ queue' = Append(queue, new)
  BY <1>1, <1>2, NoRequestApart DEF Requests
<1>4. /\ made' \in [UpdateThreads -> 0..PerThread] /\ made'[t] = made[t] + 1
      /\ \A u \in UpdateThreads : made[u] <= made'[u]
      /\ \A u \in UpdateThreads \ {t} : made'[u] = made[u]
  BY <1>2, DBAssumption DEF Push, Types
<1>5. /\ pc' \in [UpdateThreads \cup {Writer} -> UpdateLabels \cup WriterLabels]
      /\ pc'[t] = "wake" /\ pc'[Writer] = pc[Writer]
      /\ \A u \in UpdateThreads \ {t} : pc'[u] = pc[u]
  BY UpdateGoto DEF Push, UpdateLabels
<1>6. UNCHANGED <<useTransaction, event, finished, terminate, total, request, step, db, failed,
                  handled, faults>>
  BY DEF Push, writerVars
<1>7. Types'
  <2>1. queue' \in Seq(Requests) BY <1>3 DEF Types
  <2> QED BY <2>1, <1>4, <1>5, <1>6 DEF Types
<1>8. ThreadsInv'
  <2>1. Ended' = Ended BY <1>5 DEF Ended, Push
  <2> QED BY <2>1, <1>4, <1>5, <1>6 DEF ThreadsInv, UpdateLabels
<1>9. OnceInv'
  <2>1. \A r \in Requests : r.nth <= made[r.by] => r.nth <= made'[r.by] /\ r # new
    <3> TAKE r \in Requests
    <3>1. r.by \in UpdateThreads /\ r.nth \in Nat /\ made[r.by] \in Nat /\ made'[r.by] \in Nat
      BY <1>4, DBAssumption DEF Requests, Types
    <3> QED BY <3>1, <1>2, <1>3, <1>4
  <2>2. new.nth <= made'[new.by] BY <1>2, <1>3, <1>4
  <2>3. DOMAIN queue' = DOMAIN queue \cup {Len(queue) + 1}
        /\ Len(queue) + 1 \notin DOMAIN queue
        /\ queue'[Len(queue) + 1] = new
        /\ (\A i \in DOMAIN queue : queue'[i] = queue[i])
        /\ \A i \in DOMAIN queue : queue[i] \in Requests
    BY <1>3 DEF Types
  <2>4. new \notin handled \cup {request}
    BY <2>1, <1>3 DEF OnceInv, Made, Types
  <2>5. \A i \in DOMAIN queue' : /\ queue'[i].nth <= made'[queue'[i].by]
                                /\ queue'[i] \notin handled' \cup {request'}
    BY <2>1, <2>2, <2>3, <2>4, <1>6 DEF OnceInv, Made
  <2>6. \A i, j \in DOMAIN queue' : queue'[i] = queue'[j] => i = j
    BY <2>1, <2>3 DEF OnceInv, Made
  <2>7. /\ \A r \in handled' : r.nth <= made'[r.by]
        /\ request' # NoRequest => request'.nth <= made'[request'.by] /\ request' \notin handled'
        /\ IsFiniteSet(handled') /\ total' = Cardinality(handled')
    <3>1. \A r \in handled : r \in Requests BY DEF Types
    <3>2. request # NoRequest => request \in Requests BY DEF Types
    <3> QED BY <3>1, <3>2, <2>1, <1>6 DEF OnceInv, Made
  <2> QED BY <2>5, <2>6, <2>7 DEF OnceInv, Made
<1>10. WriterInv' /\ ConnectionInv' /\ TradeAtomic' /\ StatementsInv'
  BY <1>5, <1>6, UpdateFrame DEF writerVars
<1> QED BY <1>7, <1>8, <1>9, <1>10

(* The steps of an update thread that only move it and signal. *)
LEMMA MoveKeepsIInv ==
  ASSUME IInv, NEW t \in UpdateThreads, NEW l \in UpdateLabels, Goto(t, l),
         l = "produce" => made[t] < PerThread,
         pc[t] \in {"poll", "terminate", "wakeLast", "done"} <=>
             l \in {"poll", "terminate", "wakeLast", "done"},
         event' \in BOOLEAN, terminate' \in BOOLEAN,
         UNCHANGED <<useTransaction, queue, finished, made, writerVars>>
  PROVE  IInv'
<1> USE DEF IInv
<1>1. /\ pc' \in [UpdateThreads \cup {Writer} -> UpdateLabels \cup WriterLabels]
      /\ pc'[t] = l /\ pc'[Writer] = pc[Writer]
      /\ \A u \in UpdateThreads \ {t} : pc'[u] = pc[u]
  BY UpdateGoto
<1>2. Types' BY <1>1 DEF Types, writerVars
<1>3. ThreadsInv' BY <1>1, StillEnded
<1>4. OnceInv' BY OnceFrame DEF writerVars
<1>5. WriterInv' /\ ConnectionInv' /\ TradeAtomic' /\ StatementsInv' BY <1>1, UpdateFrame
<1> QED BY <1>2, <1>3, <1>4, <1>5

(* The event is signalled after the push. *)
LEMMA WakeKeepsIInv == ASSUME IInv, NEW t \in UpdateThreads, Wake(t) PROVE IInv'
<1> DEFINE l == IF made[t] < PerThread THEN "produce" ELSE "finish"
<1>1. l \in {"produce", "finish"} /\ l \in UpdateLabels BY DEF UpdateLabels
<1>2. Goto(t, l) /\ pc[t] = "wake" BY DEF Wake
<1> QED BY <1>1, <1>2, MoveKeepsIInv DEF Wake, IInv, Types

(* A thread that ends is counted once. *)
LEMMA FinishKeepsIInv == ASSUME IInv, NEW t \in UpdateThreads, Finish(t) PROVE IInv'
<1> USE DEF IInv
<1> DEFINE l == IF AllFinished(finished + 1) THEN "poll" ELSE "done"
<1>1. l \in {"poll", "done"} /\ l \in UpdateLabels BY DEF UpdateLabels
<1>2. /\ pc' \in [UpdateThreads \cup {Writer} -> UpdateLabels \cup WriterLabels]
      /\ pc'[t] = l /\ pc'[Writer] = pc[Writer]
      /\ \A u \in UpdateThreads \ {t} : pc'[u] = pc[u]
  BY <1>1, UpdateGoto DEF Finish
<1>3. UNCHANGED <<useTransaction, queue, event, terminate, made, writerVars>>
      /\ finished' = finished + 1 /\ pc[t] = "finish"
  BY DEF Finish
<1>4. Types' BY <1>2, <1>3 DEF Types, writerVars
<1>5. ThreadsInv'
  <2>1. Ended' = Ended \cup {t} /\ t \notin Ended BY <1>1, <1>2, <1>3 DEF Ended
  <2>2. IsFiniteSet(Ended) BY DBAssumption, FS_Subset DEF Ended
  <2>3. Cardinality(Ended') = Cardinality(Ended) + 1 BY <2>1, <2>2, FS_AddElement
  <2> QED BY <2>3, <1>1, <1>2, <1>3 DEF ThreadsInv
<1>6. OnceInv' BY <1>3, OnceFrame DEF writerVars
<1>7. WriterInv' /\ ConnectionInv' /\ TradeAtomic' /\ StatementsInv' BY <1>2, <1>3, UpdateFrame
<1> QED BY <1>4, <1>5, <1>6, <1>7

(* The last thread waits for the queue and ends the writer. *)
LEMMA EndKeepsIInv ==
  ASSUME IInv, NEW t \in UpdateThreads, Poll(t) \/ Terminate(t) \/ WakeLast(t) PROVE IInv'
<1>1. CASE Poll(t)
  BY <1>1, MoveKeepsIInv DEF Poll, UpdateLabels, threadVars, IInv, Types
<1>2. CASE Terminate(t)
  BY <1>2, MoveKeepsIInv DEF Terminate, UpdateLabels, IInv, Types
<1>3. CASE WakeLast(t)
  BY <1>3, MoveKeepsIInv DEF WakeLast, UpdateLabels, IInv, Types
<1> QED BY <1>1, <1>2, <1>3

-----------------------------------------------------------------------------
(* MySQL. *)

(* What the connection may have become keeps its type. *)
LEMMA ConnectionTypes ==
  ASSUME db \in Connections, NEW s \in Requests \X (1..4)
  PROVE  /\ Committed \in Connections /\ Begun \in Connections /\ RolledBack \in Connections
         /\ Written(s) \in Connections
         /\ \A d \in Connections : Cut(d) \in Connections
BY DEF Connections, Committed, Begun, RolledBack, Written, Cut

(* A query works, or the failure is reported and nobody knows how far it got. *)
LEMMA ExecuteOutcome ==
  ASSUME Types, request \in Requests, NEW after \in Connections,
         NEW refusals \in SUBSET Connections, NEW statement \in 0..6, NEW ok \in BOOLEAN,
         Execute(after, refusals, statement, ok)
  PROVE  /\ db' \in Connections /\ faults' \in 0..MaxFaults
         /\ failed' \subseteq Requests \X (0..6) /\ failed \subseteq failed'
         /\ ok => db' = after
         /\ ~ok => <<request, statement>> \in failed'
         /\ ~ok => \/ db' = db /\ ~db.up
                   \/ db' \in refusals \cup {Cut(db), Cut(after)}
<1>1. db \in Connections /\ failed \subseteq Requests \X (0..6) /\ faults \in 0..MaxFaults
  BY DEF Types
<1>2. \A d \in Connections : Cut(d) \in Connections BY DEF Connections, Cut
<1>3. failed' \subseteq Requests \X (0..6) /\ failed \subseteq failed'
      /\ (~ok => <<request, statement>> \in failed')
  BY <1>1 DEF Execute
<1>4. CASE ok BY <1>1, <1>3, <1>4 DEF Execute, Query
<1>5. CASE ~ok
  <2>1. \/ db' = db /\ ~db.up /\ faults' = faults
        \/ /\ db' \in refusals \cup {Cut(db), Cut(after)}
           /\ faults < MaxFaults /\ faults' = faults + 1
    BY <1>5 DEF Execute, Query
  <2>2. db' \in Connections BY <2>1, <1>1, <1>2
  <2>3. faults' \in 0..MaxFaults BY <2>1, <1>1, DBAssumption
  <2> QED BY <1>3, <1>5, <2>1, <2>2, <2>3
<1> QED BY <1>4, <1>5

(* Nothing that is saved is lost, and no report is withdrawn. *)
LEMMA AccountedStays ==
  ASSUME NEW r, Accounted(r), useTransaction' = useTransaction,
         db.saved \subseteq db'.saved, failed \subseteq failed'
  PROVE  Accounted(r)'
BY DEF Accounted, Reported, InTransaction

(* The saved statements stay whole when none is added, ... *)
LEMMA AtomicSame ==
  ASSUME TradeAtomic, useTransaction' = useTransaction, db'.saved = db.saved
  PROVE  TradeAtomic'
BY DEF TradeAtomic

(* ... when one is added outside a transaction, ... *)
LEMMA AtomicOne ==
  ASSUME TradeAtomic, useTransaction' = useTransaction, ~InTransaction(request),
         request \in Requests, NEW k \in 1..4, db'.saved = db.saved \cup {<<request, k>>}
  PROVE  TradeAtomic'
<1> SUFFICES ASSUME useTransaction', NEW s \in db'.saved, s[1].trade, NEW j \in 1..4
             PROVE  <<s[1], j>> \in db'.saved
  BY DEF TradeAtomic
<1>1. ~request.trade BY DEF InTransaction
<1>2. s # <<request, k>>
  <2>1. <<request, k>>[1] = request OBVIOUS
  <2> QED BY <2>1, <1>1
<1> QED BY <1>2 DEF TradeAtomic

(* ... and when the four of a trade are. *)
LEMMA AtomicTrade ==
  ASSUME TradeAtomic, useTransaction' = useTransaction, request \in Requests,
         db'.saved = db.saved \cup Executed(4)
  PROVE  TradeAtomic'
<1> SUFFICES ASSUME useTransaction', NEW s \in db'.saved, s[1].trade, NEW k \in 1..4
             PROVE  <<s[1], k>> \in db'.saved
  BY DEF TradeAtomic
<1>1. CASE s \in db.saved BY <1>1 DEF TradeAtomic
<1>2. CASE s \in Executed(4)
  <2>1. PICK j \in 1..4 : s = <<request, j>> BY <1>2 DEF Executed
  <2>2. s[1] = request BY <2>1
  <2> QED BY <2>2 DEF Executed
<1> QED BY <1>1, <1>2

-----------------------------------------------------------------------------
(* The writer outside of its handlers. *)

(* A label of the writer between two requests. *)
LEMMA IdleKeepsIInv ==
  ASSUME IInv, pc[Writer] \in {"wait", "drain", "check"},
         NEW l \in {"wait", "drain", "check", "done"},
         Goto(Writer, l), event' \in BOOLEAN,
         UNCHANGED <<useTransaction, queue, finished, terminate, made, writerVars>>
  PROVE  IInv'
<1> USE DEF IInv
<1>1. /\ pc' \in [UpdateThreads \cup {Writer} -> UpdateLabels \cup WriterLabels]
      /\ pc'[Writer] = l /\ \A u \in UpdateThreads : pc'[u] = pc[u]
  BY WriterGoto DEF WriterLabels
<1>2. Types' BY <1>1 DEF Types, writerVars
<1>3. ThreadsInv' BY <1>1, ThreadsFrame
<1>4. OnceInv' BY OnceFrame DEF writerVars
<1>5. request = NoRequest BY DEF WriterInv
<1>6. WriterInv' BY <1>1, <1>5 DEF WriterInv, WriterLabels, writerVars
<1>7. ConnectionInv'
  BY <1>1, <1>5, NoRequestApart DEF ConnectionInv, Quiet, InTransaction, writerVars
<1>8. TradeAtomic' BY AtomicSame DEF writerVars
<1>9. StatementsInv'
  BY <1>1, AccountedStays DEF StatementsInv, writerVars
<1> QED BY <1>2, <1>3, <1>4, <1>6, <1>7, <1>8, <1>9

(* A request that is taken leaves the queue; it was there once. *)
LEMMA TakeKeepsIInv == ASSUME IInv, Take PROVE IInv'
<1> USE DEF IInv
<1>1. queue # <<>> /\ queue \in Seq(Requests) /\ request' = Head(queue) /\ queue' = Tail(queue)
      /\ step' = 1 /\ pc[Writer] = "drain"
      /\ UNCHANGED <<useTransaction, event, finished, terminate, made, total, db, failed,
                     handled, faults>>
  BY DEF Take, Types
<1>2. /\ request' \in Requests /\ request' # NoRequest /\ queue' \in Seq(Requests)
      /\ 1 \in DOMAIN queue /\ request' = queue[1]
  BY <1>1, NoRequestApart
<1>3. DOMAIN queue' = 1..(Len(queue) - 1) /\ DOMAIN queue = 1..Len(queue) /\ Len(queue) \in Nat
      /\ \A i \in DOMAIN queue' : queue'[i] = queue[i + 1] /\ i + 1 \in DOMAIN queue
  BY <1>1
<1> DEFINE l == IF InTransaction(Head(queue)) THEN "begin" ELSE "execute"
<1>4. l \in WriterLabels /\ Goto(Writer, l) BY DEF Take, WriterLabels
<1>5. /\ pc' \in [UpdateThreads \cup {Writer} -> UpdateLabels \cup WriterLabels]
      /\ pc'[Writer] = l /\ \A u \in UpdateThreads : pc'[u] = pc[u]
  BY <1>4, WriterGoto
<1>6. InTransaction(request)' <=> InTransaction(Head(queue)) BY <1>1 DEF InTransaction
<1>7. Types' BY <1>1, <1>2, <1>5 DEF Types
<1>8. ThreadsInv' BY <1>1, <1>5, ThreadsFrame
<1>9. OnceInv'
  <2>1. \A i \in DOMAIN queue' : /\ queue'[i].nth <= made'[queue'[i].by]
                                /\ queue'[i] \notin handled' \cup {request'}
    <3> TAKE i \in DOMAIN queue'
    <3>1. queue'[i] = queue[i + 1] /\ i + 1 \in DOMAIN queue /\ i + 1 # 1 BY <1>3
    <3> QED BY <3>1, <1>1, <1>2 DEF OnceInv, Made
  <2>2. \A i, j \in DOMAIN queue' : queue'[i] = queue'[j] => i = j
    <3> SUFFICES ASSUME NEW i \in DOMAIN queue', NEW j \in DOMAIN queue', queue'[i] = queue'[j]
                 PROVE  i = j
      OBVIOUS
    <3>1. queue[i + 1] = queue[j + 1] /\ i + 1 \in DOMAIN queue /\ j + 1 \in DOMAIN queue BY <1>3
    <3>2. i + 1 = j + 1 BY <3>1 DEF OnceInv
    <3> QED BY <3>2, <1>3
  <2>3. request'.nth <= made'[request'.by] /\ request' \notin handled'
    BY <1>1, <1>2 DEF OnceInv, Made
  <2> QED BY <2>1, <2>2, <2>3, <1>1 DEF OnceInv, Made
<1>10. WriterInv'
  BY <1>1, <1>2, <1>5, <1>6 DEF WriterInv, WriterLabels, Last
<1>11. ConnectionInv'
  <2>1. Quiet BY <1>1, NoRequestApart DEF ConnectionInv, WriterInv
  <2>2. Executed(0)' = {} BY DEF Executed
  <2> QED BY <2>1, <1>1, <1>5, <1>6 DEF ConnectionInv, Quiet
<1>12. TradeAtomic' BY <1>1, AtomicSame
<1>13. StatementsInv'
  <2>1. \A r \in handled' : Accounted(r)' BY <1>1, AccountedStays DEF StatementsInv
  <2> QED BY <2>1, <1>1, <1>5 DEF StatementsInv
<1> QED BY <1>7, <1>8, <1>9, <1>10, <1>11, <1>12, <1>13

-----------------------------------------------------------------------------
(* The handlers. *)

(* A handler that returns leaves no transaction and an accounted request.    *)
LEMMA ReturnKeepsIInv ==
  ASSUME IInv, NEW r \in Requests, r = request, Handled,
         UNCHANGED <<useTransaction, threadVars>>,
         db' \in Connections, faults' \in 0..MaxFaults, failed' \subseteq Requests \X (0..6),
         db.saved \subseteq db'.saved, failed \subseteq failed',
         ~db'.open, db'.pending = {}, TradeAtomic', Accounted(r)'
  PROVE  IInv'
<1> USE DEF IInv
<1>1. /\ total' = total + 1 /\ handled' = handled \cup {r} /\ request' = NoRequest /\ step' = 0
      /\ Goto(Writer, "drain") /\ r # NoRequest
  BY NoRequestApart DEF Handled
<1>2. /\ pc' \in [UpdateThreads \cup {Writer} -> UpdateLabels \cup WriterLabels]
      /\ pc'[Writer] = "drain" /\ \A u \in UpdateThreads : pc'[u] = pc[u]
  BY <1>1, WriterGoto DEF WriterLabels
<1>3. UNCHANGED <<useTransaction, queue, event, finished, terminate, made>> BY DEF threadVars
<1>4. Types' BY <1>1, <1>2, <1>3 DEF Types
<1>5. ThreadsInv' BY <1>2, <1>3, ThreadsFrame
<1>6. OnceInv'
  <2>1. r \notin handled /\ IsFiniteSet(handled) BY <1>1 DEF OnceInv
  <2>2. IsFiniteSet(handled') /\ total' = Cardinality(handled')
    BY <2>1, <1>1, FS_AddElement DEF OnceInv
  <2>3. \A i \in DOMAIN queue : queue[i] # NoRequest /\ queue[i] \in Requests
    BY NoRequestApart DEF Types
  <2> QED BY <2>2, <2>3, <1>1, <1>3 DEF OnceInv, Made
<1>7. WriterInv' BY <1>1, <1>2 DEF WriterInv, WriterLabels
<1>8. ConnectionInv' BY <1>2 DEF ConnectionInv, Quiet
<1>9. StatementsInv'
  <2>1. \A q \in handled : Accounted(q)' BY AccountedStays, <1>3 DEF StatementsInv
  <2> QED BY <2>1, <1>1, <1>2 DEF StatementsInv
<1> QED BY <1>4, <1>5, <1>6, <1>7, <1>8, <1>9

(* A handler goes on: its request and those before it stay what they are.    *)
LEMMA ContinueKeepsIInv ==
  ASSUME IInv, request \in Requests,
         UNCHANGED <<useTransaction, threadVars, total, handled, request>>,
         NEW l \in {"execute", "commit", "rollback"}, Goto(Writer, l), step' \in 0..4,
         db' \in Connections, faults' \in 0..MaxFaults, failed' \subseteq Requests \X (0..6),
         db.saved \subseteq db'.saved, failed \subseteq failed', TradeAtomic', ConnectionInv',
         l = "execute" => step' \in 1..Last(request),
         l \in {"commit", "rollback"} => InTransaction(request),
         l = "rollback" => \E j \in 0..6 : <<request, j>> \in failed',
         l = "execute" /\ ~InTransaction(request) =>
             \A k \in 1..(step' - 1) : <<request, k>> \in db'.saved \/ <<request, k>> \in failed'
  PROVE  IInv'
<1> USE DEF IInv
<1>1. /\ pc' \in [UpdateThreads \cup {Writer} -> UpdateLabels \cup WriterLabels]
      /\ pc'[Writer] = l /\ \A u \in UpdateThreads : pc'[u] = pc[u]
  BY WriterGoto DEF WriterLabels
<1>2. UNCHANGED <<useTransaction, queue, event, finished, terminate, made>> BY DEF threadVars
<1>3. Types' BY <1>1, <1>2 DEF Types
<1>4. ThreadsInv' BY <1>1, <1>2, ThreadsFrame
<1>5. OnceInv' BY <1>2, OnceFrame
<1>6. request # NoRequest /\ (InTransaction(request)' <=> InTransaction(request))
      /\ Last(request)' = Last(request)
  BY NoRequestApart, <1>2 DEF InTransaction, Last
<1>7. WriterInv' BY <1>1, <1>6 DEF WriterInv, WriterLabels, Last
<1>8. StatementsInv'
  <2>1. \A q \in handled : Accounted(q)' BY AccountedStays, <1>2 DEF StatementsInv
  <2>2. l = "rollback" => Reported(request)' BY DEF Reported
  <2> QED BY <2>1, <2>2, <1>1, <1>6 DEF StatementsInv
<1> QED BY <1>3, <1>4, <1>5, <1>7, <1>8

(* The request and the connection while a handler runs. *)
LEMMA HandlerRuns ==
  ASSUME IInv, pc[Writer] \in {"begin", "execute", "commit", "rollback"}
  PROVE  /\ request \in Requests /\ db \in Connections
         /\ Committed \in Connections /\ Begun \in Connections /\ RolledBack \in Connections
         /\ Refusals \in SUBSET Connections
         /\ Last(request) \in {1, 4} /\ (InTransaction(request) => Last(request) = 4)
<1>1. request \in Requests BY DEF IInv, WriterInv, Types
<1>2. db \in Connections BY DEF IInv, Types
<1>3. Committed \in Connections /\ Begun \in Connections /\ RolledBack \in Connections
  BY <1>2, ConnectionTypes DEF Connections, Committed, Begun, RolledBack
<1> QED BY <1>1, <1>2, <1>3 DEF Refusals, Last, InTransaction

(* A failed query of a transaction accounts for all its statements. *)
LEMMA ReportAccounts ==
  ASSUME NEW r, InTransaction(r), useTransaction' = useTransaction,
         NEW j \in 0..6, <<r, j>> \in failed'
  PROVE  Accounted(r)'
BY DEF Accounted, Reported, InTransaction

(* What MySQL must hold for a transaction that goes on. *)
LEMMA ConnectionGoesOn ==
  ASSUME request' = request, useTransaction' = useTransaction, InTransaction(request),
         NEW l \in {"execute", "commit", "rollback"}, pc'[Writer] = l,
         ~db'.up => ~db'.open, db'.pending # {} => db'.open,
         NEW done, step' - 1 = done,
         l = "execute" => db'.open /\ db'.pending = {<<request, k>> : k \in 1..done},
         l = "commit" => db'.open /\ db'.pending = {<<request, k>> : k \in 1..4}
  PROVE  ConnectionInv'
<1>1. Executed(step - 1)' = {<<request, k>> : k \in 1..done} BY DEF Executed
<1>2. Executed(4)' = {<<request, k>> : k \in 1..4} BY DEF Executed
<1>3. InTransaction(request)' BY DEF InTransaction
<1> QED BY <1>1, <1>2, <1>3 DEF ConnectionInv, Quiet

(* START TRANSACTION: open and empty, or the handler returns. *)
LEMMA BeginKeepsIInv == ASSUME IInv, BeginTransaction PROVE IInv'
<1> USE DEF IInv
<1>1. PICK ok \in BOOLEAN : /\ Execute(Begun, Refusals, 0, ok)
                            /\ IF ok THEN GoOn("execute") ELSE Handled
  BY DEF BeginTransaction
<1>2. UNCHANGED <<useTransaction, threadVars>> /\ pc[Writer] = "begin"
      /\ useTransaction' = useTransaction
  BY DEF BeginTransaction
<1>3. /\ request \in Requests /\ db \in Connections /\ Begun \in Connections
      /\ RolledBack \in Connections /\ Refusals \in SUBSET Connections
  BY <1>2, HandlerRuns
<1>4. InTransaction(request) /\ step = 1 /\ ~db.open /\ db.pending = {}
  BY <1>2 DEF WriterInv, ConnectionInv, Quiet
<1>5. /\ db' \in Connections /\ faults' \in 0..MaxFaults
      /\ failed' \subseteq Requests \X (0..6) /\ failed \subseteq failed'
      /\ ok => db' = Begun
      /\ ~ok => <<request, 0>> \in failed'
      /\ ~ok => \/ db' = db /\ ~db.up
                \/ db' \in Refusals \cup {Cut(db), Cut(Begun)}
  BY SMTT(20), <1>1, <1>3, ExecuteOutcome
<1>6. db'.saved = db.saved /\ db'.pending = {}
      /\ (~ok => ~db'.open) /\ (ok => db'.open /\ db'.up = db.up)
  BY ZenonT(40), <1>3, <1>4, <1>5 DEF Connections, Begun, Committed, RolledBack, Refusals, Cut
<1>7. TradeAtomic' BY <1>2, <1>6, AtomicSame
<1>8. CASE ok
  <2>1. GoOn("execute") BY <1>1, <1>8
  <2>2. /\ UNCHANGED <<total, handled, request, step>> /\ request' = request
        /\ Goto(Writer, "execute") /\ pc'[Writer] = "execute"
    BY <2>1, WriterGoto DEF GoOn, WriterLabels
  <2>3. db.up BY <1>1, <1>8 DEF Execute, Query
  <2>4. step' - 1 = 0 /\ {<<request, k>> : k \in 1..0} = {} BY <1>4, <2>2
  <2>5. ConnectionInv'
    BY <1>2, <1>4, <1>6, <1>8, <2>2, <2>3, <2>4, ConnectionGoesOn
  <2>6. step' = 1 /\ 1 \in 1..Last(request) BY <2>2, <1>4 DEF Last
  <2> QED BY <1>2, <1>3, <1>4, <1>5, <1>6, <1>7, <2>2, <2>5, <2>6, ContinueKeepsIInv
<1>9. CASE ~ok
  <2>1. PICK r \in Requests : r = request BY <1>3
  <2>2. Accounted(r)' BY <2>1, <1>2, <1>4, <1>5, <1>9, ReportAccounts
  <2> QED BY <1>1, <1>2, <1>3, <1>5, <1>6, <1>7, <1>9, <2>1, <2>2, ReturnKeepsIInv
<1> QED BY <1>8, <1>9

(* COMMIT: the four statements together, or the rollback is next. *)
LEMMA CommitKeepsIInv == ASSUME IInv, Commit PROVE IInv'
<1> USE DEF IInv
<1>1. PICK ok \in BOOLEAN : /\ Execute(Committed, Refusals, 5, ok)
                            /\ IF ok THEN Handled ELSE GoOn("rollback")
  BY DEF Commit
<1>2. UNCHANGED <<useTransaction, threadVars>> /\ pc[Writer] = "commit"
      /\ useTransaction' = useTransaction
  BY DEF Commit
<1>3. /\ request \in Requests /\ db \in Connections /\ Committed \in Connections
      /\ RolledBack \in Connections /\ Refusals \in SUBSET Connections
  BY <1>2, HandlerRuns
<1>4. InTransaction(request) /\ db.open /\ db.up /\ db.pending = Executed(4)
  BY <1>2 DEF WriterInv, ConnectionInv, Quiet
<1>5. /\ db' \in Connections /\ faults' \in 0..MaxFaults
      /\ failed' \subseteq Requests \X (0..6) /\ failed \subseteq failed'
      /\ ok => db' = Committed
      /\ ~ok => <<request, 5>> \in failed'
      /\ ~ok => \/ db' = db /\ ~db.up
                \/ db' \in Refusals \cup {Cut(db), Cut(Committed)}
  <2>1. Types /\ 5 \in 0..6 OBVIOUS
  <2> QED BY <2>1, <1>1, <1>3, ExecuteOutcome
<1>6. /\ db'.saved \in {db.saved, db.saved \cup Executed(4)}
      /\ ok => db'.saved = db.saved \cup Executed(4) /\ db'.pending = {} /\ ~db'.open
      /\ ~db'.up => ~db'.open
      /\ db'.pending # {} => db'.open
  BY <1>3, <1>4, <1>5 DEF Connections, Committed, RolledBack, Refusals, Cut
<1>7. TradeAtomic' BY <1>2, <1>3, <1>6, AtomicSame, AtomicTrade
<1>8. PICK r \in Requests : r = request BY <1>3
<1>9. CASE ok
  <2>1. Statements(r) \subseteq 1..4 BY DEF Statements
  <2>2. \A k \in 1..4 : <<r, k>> \in db'.saved BY <1>6, <1>8, <1>9 DEF Executed
  <2>3. Accounted(r)' BY <2>1, <2>2 DEF Accounted, Statements
  <2> QED BY <1>1, <1>2, <1>3, <1>5, <1>6, <1>7, <1>8, <1>9, <2>3, ReturnKeepsIInv
<1>10. CASE ~ok
  <2>1. /\ UNCHANGED <<total, handled, request, step>> /\ request' = request
        /\ Goto(Writer, "rollback") /\ pc'[Writer] = "rollback"
    BY <1>1, <1>10, WriterGoto DEF GoOn, WriterLabels
  <2>2. ConnectionInv' BY <1>2, <1>4, <1>6, <2>1, ConnectionGoesOn
  <2>3. step' \in 0..4 BY <2>1 DEF Types
  <2> QED
    BY <1>2, <1>3, <1>4, <1>5, <1>6, <1>7, <1>10, <2>1, <2>2, <2>3, ContinueKeepsIInv
<1> QED BY <1>9, <1>10

(* ROLLBACK: what failed before is reported, and nothing stays pending. *)
LEMMA RollbackKeepsIInv == ASSUME IInv, Rollback PROVE IInv'
<1> USE DEF IInv
<1>1. PICK ok \in BOOLEAN : Execute(RolledBack, {}, 6, ok) BY DEF Rollback
<1>2. UNCHANGED <<useTransaction, threadVars>> /\ pc[Writer] = "rollback" /\ Handled
      /\ useTransaction' = useTransaction
  BY DEF Rollback
<1>3. request \in Requests /\ db \in Connections /\ RolledBack \in Connections
  BY <1>2, HandlerRuns
<1>4. InTransaction(request) /\ Reported(request) /\ (~db.up => ~db.open /\ db.pending = {})
  BY <1>2 DEF WriterInv, ConnectionInv, Quiet, StatementsInv
<1>5. /\ db' \in Connections /\ faults' \in 0..MaxFaults
      /\ failed' \subseteq Requests \X (0..6) /\ failed \subseteq failed'
      /\ ok => db' = RolledBack
      /\ ~ok => \/ db' = db /\ ~db.up
                \/ db' \in {} \cup {Cut(db), Cut(RolledBack)}
  BY SMTT(20), <1>1, <1>3, ExecuteOutcome
<1>6. db'.saved = db.saved /\ ~db'.open /\ db'.pending = {}
  BY <1>3, <1>4, <1>5 DEF Connections, RolledBack, Cut
<1>7. TradeAtomic' BY <1>2, <1>6, AtomicSame
<1>8. PICK r \in Requests : r = request BY <1>3
<1>9. PICK j \in 0..6 : <<r, j>> \in failed BY <1>4, <1>8 DEF Reported
<1>10. Accounted(r)' BY <1>2, <1>4, <1>5, <1>8, <1>9, ReportAccounts
<1> QED BY <1>2, <1>3, <1>5, <1>6, <1>7, <1>8, <1>10, ReturnKeepsIInv

(* One statement: pending in a transaction, saved at once elsewhere. *)
LEMMA StatementOutcome ==
  ASSUME IInv, pc[Writer] = "execute", NEW ok \in BOOLEAN, useTransaction' = useTransaction,
         Execute(Written(<<request, step>>), Refusals, step, ok)
  PROVE  /\ db' \in Connections /\ faults' \in 0..MaxFaults
         /\ failed' \subseteq Requests \X (0..6) /\ failed \subseteq failed'
         /\ db.saved \subseteq db'.saved
         /\ ~db'.up => ~db'.open
         /\ db'.pending # {} => db'.open
         /\ ~ok => <<request, step>> \in failed'
         /\ ~InTransaction(request) =>
                /\ ~db'.open /\ db'.pending = {}
                /\ db'.saved \in {db.saved, db.saved \cup {<<request, step>>}}
                /\ ok => <<request, step>> \in db'.saved
         /\ InTransaction(request) =>
                /\ db'.saved = db.saved
                /\ ok => db'.open /\ db'.pending = Executed(step - 1) \cup {<<request, step>>}
         /\ TradeAtomic'
<1> USE DEF IInv
<1>1. request \in Requests /\ db \in Connections /\ RolledBack \in Connections
      /\ Refusals \in SUBSET Connections /\ step \in 1..4
  BY HandlerRuns DEF WriterInv, Last
<1>2. Written(<<request, step>>) \in Connections /\ step \in 0..6
  <2>1. <<request, step>> \in Requests \X (1..4) BY <1>1
  <2> QED BY <2>1, <1>1, ConnectionTypes
<1>3. /\ db' \in Connections /\ faults' \in 0..MaxFaults
      /\ failed' \subseteq Requests \X (0..6) /\ failed \subseteq failed'
      /\ ok => db' = Written(<<request, step>>)
      /\ ~ok => <<request, step>> \in failed'
      /\ ~ok => \/ db' = db /\ ~db.up
                \/ db' \in Refusals \cup {Cut(db), Cut(Written(<<request, step>>))}
  BY <1>1, <1>2, ExecuteOutcome
<1>4. ok => db.up BY DEF Execute, Query
<1>5. /\ ~db.up => ~db.open /\ db.pending = {}
      /\ db.pending # {} => db.open
      /\ ~InTransaction(request) => ~db.open /\ db.pending = {}
      /\ InTransaction(request) => db.open /\ db.pending = Executed(step - 1)
  BY DEF ConnectionInv, Quiet
<1> DEFINE s == <<request, step>>
<1>6. CASE InTransaction(request)
  <2>1. Written(s) = [db EXCEPT !.pending = @ \cup {s}] BY <1>5, <1>6 DEF Written
  <2>2. /\ db'.saved = db.saved /\ (~db'.up => ~db'.open) /\ (db'.pending # {} => db'.open)
        /\ ok => db'.open /\ db'.pending = db.pending \cup {s}
    BY <2>1, <1>1, <1>3, <1>4, <1>5, <1>6 DEF Connections, RolledBack, Refusals, Cut
  <2>3. TradeAtomic' BY <2>2, AtomicSame
  <2> QED BY <2>2, <2>3, <1>3, <1>5, <1>6
<1>7. CASE ~InTransaction(request)
  <2>1. Written(s) = [db EXCEPT !.saved = @ \cup {s}] BY <1>5, <1>7 DEF Written
  <2>2. /\ db'.saved \in {db.saved, db.saved \cup {s}} /\ ~db'.open /\ db'.pending = {}
        /\ ok => s \in db'.saved
    <3>1. PICK w \in Connections :
              /\ w = Written(s) /\ w.saved = db.saved \cup {s} /\ ~w.open /\ w.pending = {}
      BY <2>1, <1>1, <1>2, <1>5, <1>7 DEF Connections
    <3>2. RolledBack.saved = db.saved /\ ~RolledBack.open /\ RolledBack.pending = {}
      BY <1>1 DEF Connections, RolledBack
    <3>3. \A d \in Connections : Cut(d).saved = d.saved /\ ~Cut(d).open /\ Cut(d).pending = {}
      BY DEF Connections, Cut
    <3>4. db' \in {w, db, RolledBack, Cut(db), Cut(w)} BY <3>1, <1>3 DEF Refusals
    <3> QED BY <3>1, <3>2, <3>3, <3>4, <1>1, <1>3, <1>5, <1>7
  <2>3. TradeAtomic' BY <2>2, <1>1, <1>7, AtomicSame, AtomicOne
  <2> QED BY <2>2, <2>3, <1>3, <1>7
<1> QED BY <1>6, <1>7

(* A statement, and then the next one, the end of the transaction or of the  *)
(* handler.                                                                  *)
LEMMA ExecuteCountKeepsIInv == ASSUME IInv, ExecuteCount PROVE IInv'
<1> USE DEF IInv
<1> DEFINE Inside == InTransaction(request)
<1>1. PICK ok \in BOOLEAN :
          /\ Execute(Written(<<request, step>>), Refusals, step, ok)
          /\ CASE ~ok /\ Inside -> GoOn("rollback")
               [] step < Last(request) /\ (ok \/ ~Inside) ->
                      step' = step + 1 /\ UNCHANGED <<pc, total, handled, request>>
               [] step = Last(request) /\ ok /\ Inside -> GoOn("commit")
               [] step = Last(request) /\ ~Inside -> Handled
  BY DEF ExecuteCount
<1>2. UNCHANGED <<useTransaction, threadVars>> /\ pc[Writer] = "execute"
      /\ useTransaction' = useTransaction
  BY DEF ExecuteCount
<1>3. /\ request \in Requests /\ step \in 1..Last(request) /\ Last(request) \in {1, 4}
      /\ (Inside => Last(request) = 4)
  BY <1>2, HandlerRuns DEF WriterInv
<1>4. /\ db' \in Connections /\ faults' \in 0..MaxFaults
      /\ failed' \subseteq Requests \X (0..6) /\ failed \subseteq failed'
      /\ db.saved \subseteq db'.saved
      /\ ~db'.up => ~db'.open
      /\ db'.pending # {} => db'.open
      /\ ~ok => <<request, step>> \in failed'
      /\ ~Inside => /\ ~db'.open /\ db'.pending = {}
                    /\ ok => <<request, step>> \in db'.saved
      /\ Inside /\ ok => db'.open /\ db'.pending = Executed(step - 1) \cup {<<request, step>>}
      /\ TradeAtomic'
  BY <1>1, <1>2, StatementOutcome
<1>5. Inside => Executed(step - 1) \cup {<<request, step>>} = {<<request, k>> : k \in 1..step}
  BY <1>3 DEF Executed
<1>6. ~Inside => \A k \in 1..step : <<request, k>> \in db'.saved \/ <<request, k>> \in failed'
  <2> SUFFICES ASSUME ~Inside, NEW k \in 1..step
               PROVE  <<request, k>> \in db'.saved \/ <<request, k>> \in failed'
    OBVIOUS
  <2>1. CASE k = step BY <2>1, <1>4
  <2>2. CASE k # step
    <3>1. k \in 1..(step - 1) BY <2>2, <1>3
    <3> QED BY <3>1, <1>2, <1>4 DEF StatementsInv
  <2> QED BY <2>1, <2>2
<1>7. PICK r \in Requests : r = request BY <1>3
<1>8. CASE ~ok /\ Inside
  <2>1. GoOn("rollback") BY <1>1, <1>8
  <2>2. /\ UNCHANGED <<total, handled, request, step>> /\ request' = request
        /\ Goto(Writer, "rollback") /\ pc'[Writer] = "rollback"
    BY <2>1, WriterGoto DEF GoOn, WriterLabels
  <2>3. ConnectionInv' BY <1>2, <1>4, <1>8, <2>2, ConnectionGoesOn
  <2>4. step' \in 0..4 /\ step \in 0..6 BY <2>2 DEF Types
  <2>5. \E j \in 0..6 : <<request, j>> \in failed' BY <1>4, <1>8, <2>4
  <2> QED BY <1>2, <1>3, <1>4, <1>8, <2>2, <2>3, <2>4, <2>5, ContinueKeepsIInv
<1>9. CASE step < Last(request) /\ (ok \/ ~Inside)
  <2>1. step' = step + 1 /\ UNCHANGED <<pc, total, handled, request>> /\ request' = request
    <3>1. step # Last(request) BY <1>3, <1>9
    <3>2. step' = step + 1 /\ UNCHANGED <<pc, total, handled, request>> BY <3>1, <1>1, <1>9, Zenon
    <3> QED BY <3>2
  <2>2. Goto(Writer, "execute") /\ pc'[Writer] = "execute"
    BY <2>1, <1>2, DBAssumption DEF Goto, Types
  <2>3. step' \in 1..Last(request) /\ step' \in 0..4 /\ step' - 1 = step BY <2>1, <1>3, <1>9
  <2>4. ConnectionInv'
    <3>1. CASE Inside BY <3>1, <1>2, <1>4, <1>5, <1>9, <2>1, <2>2, <2>3, ConnectionGoesOn
    <3>2. CASE ~Inside
      <4>1. ~InTransaction(request)' BY <3>2, <1>2, <2>1 DEF InTransaction
      <4> QED BY <4>1, <3>2, <1>4, <2>2 DEF ConnectionInv, Quiet
    <3> QED BY <3>1, <3>2
  <2>5. ~Inside => \A k \in 1..(step' - 1) :
            <<request, k>> \in db'.saved \/ <<request, k>> \in failed'
    BY <1>6, <2>3
  <2> QED BY <1>2, <1>3, <1>4, <2>1, <2>2, <2>3, <2>4, <2>5, ContinueKeepsIInv
<1>10. CASE step = Last(request) /\ ok /\ Inside
  <2>1. GoOn("commit") BY <1>1, <1>10
  <2>2. /\ UNCHANGED <<total, handled, request, step>> /\ request' = request
        /\ Goto(Writer, "commit") /\ pc'[Writer] = "commit"
    BY <2>1, WriterGoto DEF GoOn, WriterLabels
  <2>3. step = 4 /\ step' = 4 /\ step' \in 0..4 BY <2>2, <1>3, <1>10
  <2>4. ConnectionInv' BY <1>2, <1>4, <1>5, <1>10, <2>2, <2>3, ConnectionGoesOn
  <2> QED BY <1>2, <1>3, <1>4, <1>10, <2>2, <2>3, <2>4, ContinueKeepsIInv
<1>11. CASE step = Last(request) /\ ~Inside
  <2>1. Handled BY <1>1, <1>11
  <2>2. Statements(r) \subseteq 1..step BY <1>7, <1>11 DEF Statements, Last
  <2>3. \A k \in 1..step : <<r, k>> \in db'.saved \/ <<r, k>> \in failed' BY <1>6, <1>7, <1>11
  <2>4. Accounted(r)' BY <2>2, <2>3 DEF Accounted, Statements
  <2> QED BY <1>2, <1>4, <1>7, <1>11, <2>1, <2>4, ReturnKeepsIInv
<1> QED BY <1>3, <1>8, <1>9, <1>10, <1>11

-----------------------------------------------------------------------------
(* The invariant. *)

(* In the beginning nothing is queued, nothing is saved, nobody has ended.   *)
LEMMA InitIInv == Init => IInv
<1> SUFFICES ASSUME Init PROVE IInv
  OBVIOUS
<1> USE DEF Init
<1>1. Types
  <2>1. pc \in [UpdateThreads \cup {Writer} -> UpdateLabels \cup WriterLabels]
    BY DEF UpdateLabels, WriterLabels
  <2>2. made \in [UpdateThreads -> 0..PerThread] BY DBAssumption
  <2>3. db \in Connections BY DEF Connections
  <2>4. queue \in Seq(Requests) /\ handled \subseteq Requests /\ failed \subseteq Requests \X (0..6)
    OBVIOUS
  <2>5. finished \in Nat /\ total \in Nat /\ step \in 0..4 /\ faults \in 0..MaxFaults
    BY DBAssumption
  <2> QED BY <2>1, <2>2, <2>3, <2>4, <2>5 DEF Types
<1>2. ThreadsInv
  <2>1. Ended = {} BY DBAssumption DEF Ended
  <2> QED BY <2>1, FS_EmptySet, DBAssumption DEF ThreadsInv, UpdateLabels
<1>3. OnceInv BY FS_EmptySet DEF OnceInv
<1>4. WriterInv BY DEF WriterInv, WriterLabels
<1>5. ConnectionInv BY NoRequestApart DEF ConnectionInv, Quiet
<1>6. TradeAtomic BY DEF TradeAtomic
<1>7. StatementsInv BY DEF StatementsInv
<1> QED BY <1>1, <1>2, <1>3, <1>4, <1>5, <1>6, <1>7 DEF IInv

(* Every step keeps it: one case for each action. *)
LEMMA NextIInv == IInv /\ [Next]_vars => IInv'
<1> SUFFICES ASSUME IInv, [Next]_vars PROVE IInv'
  OBVIOUS
<1>1. CASE DBWriterThread
  <2>1. CASE WaitForEvent BY <2>1, IdleKeepsIInv DEF WaitForEvent
  <2>2. CASE Take BY <2>2, TakeKeepsIInv
  <2>3. CASE CheckTerminate
    BY <2>3, IdleKeepsIInv DEF CheckTerminate, threadVars, IInv, Types
  <2>4. CASE LoopOrEnd
    BY <2>4, IdleKeepsIInv DEF LoopOrEnd, threadVars, IInv, Types
  <2>5. CASE BeginTransaction BY <2>5, BeginKeepsIInv
  <2>6. CASE ExecuteCount BY <2>6, ExecuteCountKeepsIInv
  <2>7. CASE Commit BY <2>7, CommitKeepsIInv
  <2>8. CASE Rollback BY <2>8, RollbackKeepsIInv
  <2> QED BY <1>1, <2>1, <2>2, <2>3, <2>4, <2>5, <2>6, <2>7, <2>8 DEF DBWriterThread
<1>2. CASE \E t \in UpdateThreads : UpdateThread(t)
  <2>1. PICK t \in UpdateThreads : UpdateThread(t) BY <1>2
  <2> QED BY <2>1, PushKeepsIInv, WakeKeepsIInv, FinishKeepsIInv, EndKeepsIInv DEF UpdateThread
<1>3. CASE UNCHANGED vars
  BY ZenonT(40), <1>3 DEF vars, threadVars, writerVars, IInv, Types, ThreadsInv, Ended, OnceInv, Made,
              WriterInv, ConnectionInv, Quiet, Executed, TradeAtomic, StatementsInv, Accounted,
              Reported, Statements, InTransaction, Last
<1> QED BY <1>1, <1>2, <1>3 DEF Next

(* IInv holds throughout every behaviour. *)
THEOREM Invariance == Spec => []IInv
BY InitIInv, NextIInv, PTL DEF Spec

(* Every variable keeps its type; the counter of finished threads never      *)
(* exceeds them, the writer counts each request once and nothing is pending  *)
(* outside a transaction.                                                    *)
THEOREM TypeCorrect == Spec => []TypeOK
<1>1. IInv => TypeOK
  <2> SUFFICES ASSUME IInv PROVE TypeOK
    OBVIOUS
  <2> USE DEF IInv
  <2>1. finished \in 0..Cardinality(UpdateThreads)
    <3>1. Ended \subseteq UpdateThreads BY DEF Ended
    <3>2. /\ Cardinality(Ended) \in Nat /\ Cardinality(UpdateThreads) \in Nat
          /\ Cardinality(Ended) <= Cardinality(UpdateThreads)
      BY <3>1, DBAssumption, FS_Subset, FS_CardinalityType
    <3> QED BY <3>2 DEF ThreadsInv
  <2>2. db.up \in BOOLEAN /\ db.open \in BOOLEAN
        /\ db.pending \cup db.saved \subseteq Requests \X (1..4)
    BY DEF Types, Connections
  <2>3. pc \in [UpdateThreads \cup {Writer} ->
                  {"produce", "wake", "finish", "poll", "terminate", "wakeLast", "done",
                   "wait", "drain", "check", "begin", "execute", "commit", "rollback"}]
    <3>1. UpdateLabels \cup WriterLabels =
              {"produce", "wake", "finish", "poll", "terminate", "wakeLast", "done",
               "wait", "drain", "check", "begin", "execute", "commit", "rollback"}
      BY DEF UpdateLabels, WriterLabels
    <3> QED BY <3>1 DEF Types
  <2> QED BY <2>1, <2>2, <2>3 DEF TypeOK, Types, OnceInv, ConnectionInv
<1> QED BY <1>1, Invariance, PTL

(* Whichever statement of a trade fails, for any number of threads, requests *)
(* and failures, no part of a trade in a transaction is saved without the    *)
(* rest.                                                                     *)
THEOREM TradesAreWhole == Spec => []TradeAtomic
<1>1. IInv => TradeAtomic BY DEF IInv
<1> QED BY <1>1, Invariance, PTL

(* What a handled request has not saved was reported: no statement is lost   *)
(* without a line in the log.                                                *)
THEOREM NothingLostSilently == Spec => []SavedUnlessFailed
<1>1. IInv => SavedUnlessFailed
  BY DEF IInv, StatementsInv, SavedUnlessFailed, Accounted, Reported
<1> QED BY <1>1, Invariance, PTL

=============================================================================
