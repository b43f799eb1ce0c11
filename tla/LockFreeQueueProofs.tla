--------------------------- MODULE LockFreeQueueProofs --------------------------
(***************************************************************************)
(* Proofs about LockFreeQueue, for any number of threads, nodes and values:  *)
(* no node is freed while a thread uses it, every node is in exactly one     *)
(* place, and the queue implements FifoQueue. LockFreeQueueInvariant states  *)
(* the inductive invariants.                                                *)
(***************************************************************************)
EXTENDS LockFreeQueueInvariant, FiniteSetTheorems, SequenceTheorems, NaturalsInduction,
        WellFoundedInduction, TLAPS

-----------------------------------------------------------------------------
(* Sequences as sets. *)

LEMMA ElemsPush ==
    ASSUME NEW S, NEW x \in S, NEW q \in Seq(S)
    PROVE  /\ <<x>> \o q \in Seq(S) /\ x \in Elems(<<x>> \o q)
           /\ \A y \in Elems(q) : y \in Elems(<<x>> \o q)
<1> DEFINE r == <<x>> \o q
<1>1. r \in Seq(S) /\ Len(r) = Len(q) + 1 /\ r[1] = x
  OBVIOUS
<1>2. \A i \in 1 .. Len(q) : r[i + 1] = q[i]
  OBVIOUS
<1>3. DOMAIN r = 1 .. Len(q) + 1 /\ DOMAIN q = 1 .. Len(q) /\ Len(q) \in Nat
  BY <1>1
<1>4. x \in Elems(r)
  BY <1>1, <1>3 DEF Elems
<1>5. ASSUME NEW y \in Elems(q) PROVE y \in Elems(r)
  <2>1. PICK i \in 1 .. Len(q) : y = q[i]
    BY <1>3, <1>5 DEF Elems
  <2>2. i + 1 \in DOMAIN r /\ r[i + 1] = y
    BY <1>2, <1>3, <2>1
  <2>3. QED
    BY <2>2 DEF Elems
<1>6. QED
  BY <1>1, <1>4, <1>5

LEMMA ElemsSplit ==
    ASSUME NEW S, NEW q \in Seq(S), q # <<>>
    PROVE  /\ Head(q) \in S /\ Tail(q) \in Seq(S)
           /\ \A x \in Elems(q) : x = Head(q) \/ x \in Elems(Tail(q))
           /\ \A x \in Elems(Tail(q)) : x \in Elems(q)
<1>1. Len(q) \in Nat /\ Len(q) > 0 /\ DOMAIN q = 1 .. Len(q) /\ Head(q) = q[1]
  OBVIOUS
<1>2. Tail(q) \in Seq(S) /\ DOMAIN Tail(q) = 1 .. (Len(q) - 1)
  OBVIOUS
<1>3. \A i \in 1 .. (Len(q) - 1) : Tail(q)[i] = q[i + 1]
  OBVIOUS
<1>4. ASSUME NEW x \in Elems(q), x # Head(q) PROVE x \in Elems(Tail(q))
  <2>1. PICK i \in 1 .. Len(q) : x = q[i]
    BY <1>1, <1>4 DEF Elems
  <2>2. i - 1 \in 1 .. (Len(q) - 1) /\ (i - 1) + 1 = i
    BY <1>1, <1>4, <2>1
  <2>3. Tail(q)[i - 1] = x
    BY <1>3, <2>1, <2>2
  <2>4. QED
    BY <1>2, <2>2, <2>3 DEF Elems
<1>5. ASSUME NEW x \in Elems(Tail(q)) PROVE x \in Elems(q)
  <2>1. PICK i \in 1 .. (Len(q) - 1) : x = Tail(q)[i]
    BY <1>2, <1>5 DEF Elems
  <2>2. i + 1 \in DOMAIN q /\ q[i + 1] = x
    BY <1>1, <1>3, <2>1
  <2>3. QED
    BY <2>2 DEF Elems
<1>6. Head(q) \in S
  BY <1>1
<1>7. QED
  BY <1>2, <1>4, <1>5, <1>6

-----------------------------------------------------------------------------
(* Types and control.                                                       *)

(* A step of one thread, and what it leaves alone: the other threads.       *)
StepOf(t) == Continue(t) \/ TryDequeue(t) \/ \E v \in Values : Enqueue(t, v)

Same(u) ==
    /\ pc'[u] = pc[u] /\ op'[u] = op[u] /\ ptr'[u] = ptr[u] /\ nxt'[u] = nxt[u]
    /\ node'[u] = node[u] /\ list'[u] = list[u] /\ unread'[u] = unread[u]
    /\ protected'[u] = protected[u] /\ first'[u] = first[u] /\ second'[u] = second[u]
OthersSame(t) == \A u \in Threads \ {t} : Same(u)

Constants == NULL \notin Nodes /\ NULL \notin Values /\ ScanEvery \in Nat \ {0}

LEMMA ConstantsHold == Constants
BY QueueAssumption DEF Constants

(* Every step is one of a single thread. *)
LEMMA StepIsOfOne ==
    ASSUME Types, NEW t \in Threads, StepOf(t)
    PROVE  OthersSame(t)
<1> USE DEF OthersSame, Same, Types, TypeOK, listVars, hazardVars, freeVars, scanVars
<1>1. CASE Load(t)
  BY <1>1 DEF Load, Goto, Source
<1>2. CASE Publish(t)
  BY <1>2 DEF Publish, Goto
<1>3. CASE Validate(t)
  BY <1>3 DEF Validate, Goto
<1>4. CASE LoadNext(t)
  BY <1>4 DEF LoadNext, Goto
<1>5. CASE RecheckTail(t)
  BY <1>5 DEF RecheckTail, Goto, Retry
<1>6. CASE Link(t)
  BY <1>6 DEF Link, Goto, Retry
<1>7. CASE Swing(t)
  BY <1>7 DEF Swing, Goto, CasTail
<1>8. CASE HelpTail(t)
  BY <1>8 DEF HelpTail, Goto, Retry, CasTail
<1>9. CASE StoreSecond(t)
  BY <1>9 DEF StoreSecond, Goto
<1>10. CASE RecheckHead(t)
  BY <1>10 DEF RecheckHead, Goto, Retry
<1>11. CASE LoadTail(t)
  BY <1>11 DEF LoadTail, Goto
<1>12. CASE CopyValue(t)
  BY <1>12 DEF CopyValue, Goto
<1>13. CASE Unlink(t)
  BY <1>13 DEF Unlink, Goto, Retry
<1>14. CASE CountStep(t)
  BY <1>14 DEF CountStep, Goto, Count
<1>15. CASE ClearHazards(t)
  BY <1>15 DEF ClearHazards, Goto, Return
<1>16. CASE Retire(t)
  BY <1>16 DEF Retire, Goto
<1>17. CASE CountRetired(t)
  BY <1>17 DEF CountRetired, Goto, Return, NextCount
<1>18. CASE TakeRetired(t)
  BY <1>18 DEF TakeRetired, Goto, Return
<1>19. CASE LoadHazards(t)
  BY <1>19 DEF LoadHazards, Goto
<1>20. CASE ReadFirst(t)
  BY <1>20 DEF ReadFirst, Goto, Saw
<1>21. CASE ReadSecond(t)
  BY <1>21 DEF ReadSecond, Goto, Saw
<1>22. CASE Delete(t)
  BY <1>22 DEF Delete, Goto, Kept
<1>23. CASE PutBack(t)
  BY <1>23 DEF PutBack
<1>24. CASE ScanDone(t)
  BY <1>24 DEF ScanDone, Goto, Return
<1>25. CASE TryDequeue(t)
  BY <1>25 DEF TryDequeue, Goto
<1>26. ASSUME NEW v \in Values, Enqueue(t, v) PROVE OthersSame(t)
  BY <1>26 DEF Enqueue, Goto
<1>27. QED
  BY <1>1, <1>2, <1>3, <1>4, <1>5, <1>6, <1>7, <1>8, <1>9, <1>10, <1>11, <1>12, <1>13, <1>14,
     <1>15, <1>16, <1>17, <1>18, <1>19, <1>20, <1>21, <1>22, <1>23, <1>24, <1>25, <1>26
     DEF StepOf, Continue

LEMMA StepTypes ==
    ASSUME Constants, Types, Control, NEW t \in Threads, StepOf(t)
    PROVE  Types'
<1> USE DEF Types, TypeOK, Ref, Starting, EnqueueSteps, DequeueSteps, Scanning, Constants,
            listVars, hazardVars, freeVars, scanVars, boundVars
<1>a. ControlOf(t) /\ (head = NULL => pc[t] = "idle")
  BY DEF Control
<1>b. \A S : \A q \in Seq(S) : q # <<>> => Head(q) \in S /\ Tail(q) \in Seq(S)
  BY ElemsSplit
<1>c. NextCount \in 0 .. ScanEvery - 1
  BY DEF NextCount
<1>1. CASE Load(t)
  BY <1>1 DEF Load, Goto, Source
<1>2. CASE Publish(t)
  BY <1>2 DEF Publish, Goto
<1>3. CASE Validate(t)
  BY <1>3 DEF Validate, Goto
<1>4. CASE LoadNext(t)
  BY <1>4, <1>a DEF LoadNext, Goto, ControlOf, Reading
<1>5. CASE RecheckTail(t)
  BY <1>5 DEF RecheckTail, Goto, Retry
<1>6. CASE Link(t)
  BY <1>6, <1>a DEF Link, Goto, Retry, ControlOf, Reading
<1>7. CASE Swing(t)
  BY <1>7 DEF Swing, Goto, CasTail
<1>8. CASE HelpTail(t)
  BY <1>8 DEF HelpTail, Goto, Retry, CasTail
<1>9. CASE StoreSecond(t)
  BY <1>9 DEF StoreSecond, Goto
<1>10. CASE RecheckHead(t)
  BY <1>10 DEF RecheckHead, Goto, Retry
<1>11. CASE LoadTail(t)
  BY <1>11 DEF LoadTail, Goto
<1>12. CASE CopyValue(t)
  BY <1>12, <1>a DEF CopyValue, Goto, ControlOf, Reading
<1>13. CASE Unlink(t)
  BY <1>13 DEF Unlink, Goto, Retry
<1>14. CASE CountStep(t)
  BY <1>14 DEF CountStep, Goto, Count
<1>15. CASE ClearHazards(t)
  BY ZenonT(40), <1>15 DEF ClearHazards, Goto, Return
<1>16. CASE Retire(t)
  BY <1>16, <1>a DEF Retire, Goto, ControlOf, Reading
<1>17. CASE CountRetired(t)
  BY ZenonT(40), <1>17, <1>c DEF CountRetired, Goto, Return
<1>18. CASE TakeRetired(t)
  BY ZenonT(40), <1>18 DEF TakeRetired, Goto, Return
<1>19. CASE LoadHazards(t)
  BY <1>19 DEF LoadHazards, Goto
<1>20. CASE ReadFirst(t)
  BY <1>20, <1>b DEF ReadFirst, Goto, Saw
<1>21. CASE ReadSecond(t)
  BY <1>21, <1>a, <1>b DEF ReadSecond, Goto, Saw, ControlOf, Reading
<1>22. CASE Delete(t)
  BY <1>22 DEF Delete, Goto, Kept
<1>23. CASE PutBack(t)
  BY <1>23 DEF PutBack
<1>24. CASE ScanDone(t)
  BY <1>24 DEF ScanDone, Goto, Return
<1>25. CASE TryDequeue(t)
  BY <1>25, ElemsPush DEF TryDequeue, Goto, GetHazardRecord
<1>26. ASSUME NEW v \in Values, Enqueue(t, v) PROVE Types'
  BY <1>26, ElemsPush DEF Enqueue, Goto, GetHazardRecord
<1>27. QED
  BY <1>26, <1>1, <1>2, <1>3, <1>4, <1>5, <1>6, <1>7, <1>8, <1>9, <1>10, <1>11, <1>12, <1>13,
     <1>14, <1>15, <1>16, <1>17, <1>18, <1>19, <1>20, <1>21, <1>22, <1>23, <1>24, <1>25
     DEF StepOf, Continue

(* The records of the threads that call, which only the destructor takes away. *)
LEMMA RecordsGrow ==
    ASSUME Types, Control, NEW t \in Threads, StepOf(t)
    PROVE  Elems(records) \subseteq Elems(records') /\ t \in Elems(records')
<1>1. CASE Continue(t)
  <2>1. UNCHANGED records /\ pc[t] # "idle"
    BY <1>1 DEF Continue, Load, Publish, Validate, LoadNext, RecheckTail, Link, Swing, HelpTail,
       StoreSecond, RecheckHead, LoadTail, CopyValue, Unlink, CountStep, ClearHazards, Retire,
       CountRetired, TakeRetired, LoadHazards, ReadFirst, ReadSecond, Delete, PutBack, ScanDone,
       hazardVars
  <2>2. QED
    BY <2>1 DEF Control, ControlOf
<1>2. CASE GetHazardRecord(t)
  <2>1. CASE \E i \in DOMAIN records : records[i] = t
    BY <1>2, <2>1 DEF GetHazardRecord, Elems
  <2>2. CASE ~\E i \in DOMAIN records : records[i] = t
    BY <1>2, <2>2, ElemsPush DEF GetHazardRecord, Types
  <2>3. QED
    BY <2>1, <2>2
<1>3. QED
  BY <1>1, <1>2 DEF StepOf, TryDequeue, Enqueue

(* A step is one of a queue that stands, and leaves it standing. *)
LEMMA StepStands ==
    ASSUME Constants, Types, Control, NEW t \in Threads, StepOf(t)
    PROVE  head # NULL /\ tail # NULL /\ head' # NULL /\ tail' # NULL
<1> USE DEF Control, listVars
<1>1. head # NULL /\ tail # NULL
  BY DEF StepOf, TryDequeue, Enqueue, Continue, Load, Publish, Validate, LoadNext, RecheckTail,
     Link, Swing, HelpTail, StoreSecond, RecheckHead, LoadTail, CopyValue, Unlink, CountStep,
     ClearHazards, Retire, CountRetired, TakeRetired, LoadHazards, ReadFirst, ReadSecond, Delete,
     PutBack, ScanDone
<1>2. CASE Swing(t)
  BY <1>1, <1>2 DEF Swing, CasTail, ControlOf, Types, EnqueueSteps, DequeueSteps, Starting, Scanning
<1>3. CASE HelpTail(t)
  BY <1>1, <1>3 DEF HelpTail, CasTail, ControlOf
<1>4. CASE Unlink(t)
  BY <1>1, <1>4 DEF Unlink, ControlOf, Types, EnqueueSteps, DequeueSteps, Starting, Scanning
<1>5. CASE head' = head /\ tail' = tail
  BY <1>1, <1>5
<1>6. QED
  BY <1>2, <1>3, <1>4, <1>5 DEF StepOf, TryDequeue, Enqueue, Continue, Load, Publish, Validate,
     LoadNext, RecheckTail, Link, StoreSecond, RecheckHead, LoadTail, CopyValue, CountStep,
     ClearHazards, Retire, CountRetired, TakeRetired, LoadHazards, ReadFirst, ReadSecond, Delete,
     PutBack, ScanDone

LEMMA StepControl ==
    ASSUME Constants, Types, Control, NEW t \in Threads, StepOf(t)
    PROVE  Control'
<1>a. ControlOf(t) /\ (head = NULL => pc[t] = "idle")
  BY DEF Control
<1>b. head # NULL /\ tail # NULL /\ head' # NULL /\ tail' # NULL
  BY StepStands
<1>c. Elems(records) \subseteq Elems(records') /\ t \in Elems(records')
  BY RecordsGrow
<1>d. \A u \in Threads \ {t} : ControlOf(u)'
  BY <1>c, StepIsOfOne DEF Control, ControlOf, OthersSame, Same
<1>e. ControlOf(t)'
  <2> USE <1>a, <1>b, <1>c DEF ControlOf, Types, TypeOK, Ref, Starting, EnqueueSteps,
      DequeueSteps, Scanning, Reading, Constants, listVars, hazardVars, freeVars, scanVars
  <2>1. CASE Load(t)
    BY <2>1 DEF Load, Goto, Source
  <2>2. CASE Publish(t)
    BY <2>2 DEF Publish, Goto
  <2>3. CASE Validate(t)
    BY <2>3 DEF Validate, Goto
  <2>4. CASE LoadNext(t)
    BY <2>4 DEF LoadNext, Goto
  <2>5. CASE RecheckTail(t)
    BY <2>5 DEF RecheckTail, Goto, Retry
  <2>6. CASE Link(t)
    BY <2>6 DEF Link, Goto, Retry
  <2>7. CASE Swing(t)
    BY <2>7 DEF Swing, Goto, CasTail
  <2>8. CASE HelpTail(t)
    BY <2>8 DEF HelpTail, Goto, Retry, CasTail
  <2>9. CASE StoreSecond(t)
    BY <2>9 DEF StoreSecond, Goto
  <2>10. CASE RecheckHead(t)
    BY <2>10 DEF RecheckHead, Goto, Retry
  <2>11. CASE LoadTail(t)
    BY <2>11 DEF LoadTail, Goto
  <2>12. CASE CopyValue(t)
    BY <2>12 DEF CopyValue, Goto
  <2>13. CASE Unlink(t)
    BY <2>13 DEF Unlink, Goto, Retry
  <2>14. CASE CountStep(t)
    BY <2>14 DEF CountStep, Goto, Count
  <2>15. CASE ClearHazards(t)
    BY <2>15 DEF ClearHazards, Goto, Return
  <2>16. CASE Retire(t)
    BY <2>16 DEF Retire, Goto
  <2>17. CASE CountRetired(t)
    BY <2>17 DEF CountRetired, Goto, Return, NextCount
  <2>18. CASE TakeRetired(t)
    BY <2>18 DEF TakeRetired, Goto, Return
  <2>19. CASE LoadHazards(t)
    BY <2>19 DEF LoadHazards, Goto
  <2>20. CASE ReadFirst(t)
    BY <2>20 DEF ReadFirst, Goto, Saw
  <2>21. CASE ReadSecond(t)
    BY <2>21 DEF ReadSecond, Goto, Saw
  <2>22. CASE Delete(t)
    BY <2>22 DEF Delete, Goto, Kept
  <2>23. CASE PutBack(t)
    BY <2>23 DEF PutBack
  <2>24. CASE ScanDone(t)
    BY <2>24 DEF ScanDone, Goto, Return
  <2>25. CASE TryDequeue(t)
    BY <2>25 DEF TryDequeue, Goto
  <2>26. ASSUME NEW v \in Values, Enqueue(t, v) PROVE ControlOf(t)'
    BY <2>26 DEF Enqueue, Goto
  <2>27. QED
    BY <2>1, <2>2, <2>3, <2>4, <2>5, <2>6, <2>7, <2>8, <2>9, <2>10, <2>11, <2>12, <2>13, <2>14,
       <2>15, <2>16, <2>17, <2>18, <2>19, <2>20, <2>21, <2>22, <2>23, <2>24, <2>25, <2>26
       DEF StepOf, Continue
<1>f. QED
  BY <1>b, <1>d, <1>e DEF Control

-----------------------------------------------------------------------------
(* Who owns a node.                                                         *)

LEMMA OthersOwn ==
    ASSUME NEW t \in Threads, OthersSame(t), NEW u \in Threads \ {t}
    PROVE  /\ Unlinked(u)' = Unlinked(u) /\ Dequeued(u)' = Dequeued(u) /\ Owned(u)' = Owned(u)
           /\ InUse(u)' = InUse(u)
BY DEF OthersSame, Same, Unlinked, Dequeued, Owned, InUse

(* A step that gives no node to another place, and leaves the list as it is. *)
Quiet(t) ==
    /\ OthersSame(t) /\ UNCHANGED <<next, head, heap, retired>>
    /\ Unlinked(t)' = Unlinked(t) /\ Dequeued(t)' = Dequeued(t) /\ list'[t] = list[t]

QuietStep(t) ==
    \/ Load(t) \/ Publish(t) \/ Validate(t) \/ LoadNext(t) \/ RecheckTail(t)
    \/ Swing(t) \/ HelpTail(t) \/ StoreSecond(t) \/ RecheckHead(t) \/ LoadTail(t)
    \/ CopyValue(t) \/ CountStep(t) \/ ClearHazards(t) \/ CountRetired(t) \/ LoadHazards(t)
    \/ ReadFirst(t) \/ ReadSecond(t) \/ ScanDone(t) \/ TryDequeue(t)
    \/ Link(t) /\ ~LinkFits(t)
    \/ Unlink(t) /\ head # ptr[t]

LEMMA QuietStepIsQuiet ==
    ASSUME Types, Control, NEW t \in Threads, StepOf(t), QuietStep(t)
    PROVE  Quiet(t)
<1>a. OthersSame(t) /\ ControlOf(t)
  BY StepIsOfOne DEF Control
<1> USE DEF Quiet, Unlinked, Dequeued, Types, TypeOK, listVars, hazardVars, freeVars, scanVars
<1>1. CASE Load(t)
  BY <1>1, <1>a DEF Load, Goto, Source, ControlOf, EnqueueSteps, DequeueSteps, Starting, Scanning
<1>2. CASE Publish(t)
  BY <1>2, <1>a DEF Publish, Goto, ControlOf, EnqueueSteps, DequeueSteps, Starting, Scanning
<1>3. CASE Validate(t)
  BY <1>3, <1>a DEF Validate, Goto, ControlOf, EnqueueSteps, DequeueSteps, Starting, Scanning
<1>4. CASE LoadNext(t)
  BY <1>4, <1>a DEF LoadNext, Goto, ControlOf, EnqueueSteps, DequeueSteps, Starting, Scanning
<1>5. CASE RecheckTail(t)
  BY <1>5, <1>a DEF RecheckTail, Goto, Retry, ControlOf, EnqueueSteps, DequeueSteps, Starting,
     Scanning
<1>6. CASE Swing(t)
  BY <1>6, <1>a DEF Swing, Goto, CasTail, ControlOf, EnqueueSteps, DequeueSteps, Starting, Scanning
<1>7. CASE HelpTail(t)
  BY <1>7, <1>a DEF HelpTail, Goto, Retry, CasTail, ControlOf, EnqueueSteps, DequeueSteps,
     Starting, Scanning
<1>8. CASE StoreSecond(t)
  BY <1>8, <1>a DEF StoreSecond, Goto, ControlOf, EnqueueSteps, DequeueSteps, Starting, Scanning
<1>9. CASE RecheckHead(t)
  BY <1>9, <1>a DEF RecheckHead, Goto, Retry, ControlOf, EnqueueSteps, DequeueSteps, Starting,
     Scanning
<1>10. CASE LoadTail(t)
  BY <1>10, <1>a DEF LoadTail, Goto, ControlOf, EnqueueSteps, DequeueSteps, Starting, Scanning
<1>11. CASE CopyValue(t)
  BY <1>11, <1>a DEF CopyValue, Goto, ControlOf, EnqueueSteps, DequeueSteps, Starting, Scanning
<1>12. CASE CountStep(t)
  BY <1>12, <1>a DEF CountStep, Goto, Count, ControlOf, EnqueueSteps, DequeueSteps, Starting,
     Scanning
<1>13. CASE ClearHazards(t)
  BY <1>13, <1>a DEF ClearHazards, Goto, Return, ControlOf, EnqueueSteps, DequeueSteps, Starting,
     Scanning
<1>14. CASE CountRetired(t)
  BY <1>14, <1>a DEF CountRetired, Goto, Return, NextCount, ControlOf, EnqueueSteps, DequeueSteps,
     Starting, Scanning
<1>15. CASE LoadHazards(t)
  BY <1>15, <1>a DEF LoadHazards, Goto, ControlOf, EnqueueSteps, DequeueSteps, Starting, Scanning
<1>16. CASE ReadFirst(t)
  BY <1>16, <1>a DEF ReadFirst, Goto, Saw, ControlOf, EnqueueSteps, DequeueSteps, Starting, Scanning
<1>17. CASE ReadSecond(t)
  BY <1>17, <1>a DEF ReadSecond, Goto, Saw, ControlOf, EnqueueSteps, DequeueSteps, Starting,
     Scanning
<1>18. CASE ScanDone(t)
  BY <1>18, <1>a DEF ScanDone, Goto, Return, ControlOf, EnqueueSteps, DequeueSteps, Starting,
     Scanning
<1>19. CASE TryDequeue(t)
  BY <1>19, <1>a DEF TryDequeue, Goto, ControlOf, EnqueueSteps, DequeueSteps, Starting, Scanning
<1>20. CASE Link(t) /\ ~LinkFits(t)
  BY <1>20, <1>a DEF Link, Goto, Retry
<1>21. CASE Unlink(t) /\ head # ptr[t]
  BY <1>21, <1>a DEF Unlink, Goto, Retry
<1>22. QED
  BY <1>1, <1>2, <1>3, <1>4, <1>5, <1>6, <1>7, <1>8, <1>9, <1>10, <1>11, <1>12, <1>13, <1>14,
     <1>15, <1>16, <1>17, <1>18, <1>19, <1>20, <1>21 DEF QuietStep

LEMMA QuietKeeps ==
    ASSUME Disjoint, NEW t \in Threads, Quiet(t)
    PROVE  /\ InChain' = InChain /\ Gone' = Gone /\ InList' = InList
           /\ Disjoint'
           /\ \A u \in Threads : Unlinked(u)' = Unlinked(u)
<1>1. \A u \in Threads : /\ Owned(u)' = Owned(u) /\ Unlinked(u)' = Unlinked(u)
                         /\ Dequeued(u)' = Dequeued(u) /\ list'[u] = list[u]
  <2>1. \A u \in Threads \ {t} : /\ Owned(u)' = Owned(u) /\ Unlinked(u)' = Unlinked(u)
                                 /\ Dequeued(u)' = Dequeued(u) /\ list'[u] = list[u]
    BY OthersOwn DEF Quiet, OthersSame, Same
  <2>2. QED
    BY <2>1 DEF Quiet, Owned
<1>2. InChain' = InChain /\ Gone' = Gone
  BY <1>1 DEF InChain, Gone, Quiet
<1>3. InList' = InList
  BY DEF InList, Closed, Quiet
<1>4. Disjoint'
  BY <1>1 DEF Disjoint, Quiet
<1>5. QED
  BY <1>1, <1>2, <1>3, <1>4

(* The steps that do give a node to another place, and how. *)
LEMMA EnqueueMoves ==
    ASSUME Constants, Types, Control, Disjoint, NEW t \in Threads, NEW v \in Values, Enqueue(t, v)
    PROVE  /\ InChain' = InChain /\ Gone' = Gone /\ Disjoint'
           /\ \E n \in heap : /\ next' = [next EXCEPT ![n] = NULL]
                              /\ \A u \in Threads : Unlinked(u)' \subseteq Unlinked(u) \cup {n}
<1>a. OthersSame(t) /\ ControlOf(t)
  BY StepIsOfOne DEF StepOf, Control
<1>1. PICK n \in heap : heap' = heap \ {n} /\ node' = [node EXCEPT ![t] = n]
                        /\ next' = [next EXCEPT ![n] = NULL]
  BY DEF Enqueue
<1>2. retired' = retired /\ n \in Nodes /\ n # NULL
  BY <1>1 DEF Enqueue, Types, TypeOK, Constants
<1>3. Unlinked(t) = {} /\ Dequeued(t) = {} /\ list[t] = {}
  BY <1>a DEF ControlOf, Enqueue, Unlinked, Dequeued, Scanning
<1>4. Unlinked(t)' = {n} /\ Dequeued(t)' = {} /\ list'[t] = {}
  BY <1>a, <1>1, <1>2, <1>3 DEF Enqueue, Unlinked, Dequeued, Goto, Types, TypeOK, scanVars
<1>5. Owned(t) = {} /\ Owned(t)' = {n}
  BY <1>3, <1>4 DEF Owned
<1>6. \A u \in Threads \ {t} : /\ Owned(u)' = Owned(u) /\ Unlinked(u)' = Unlinked(u)
                               /\ Dequeued(u)' = Dequeued(u) /\ list'[u] = list[u]
  BY <1>a, OthersOwn DEF OthersSame, Same
<1>7. InChain' = InChain
  BY <1>1, <1>2, <1>5, <1>6 DEF InChain
<1>8. Gone' = Gone
  BY <1>2, <1>3, <1>4, <1>6 DEF Gone
<1>9. Disjoint'
  BY <1>1, <1>2, <1>5, <1>6 DEF Disjoint
<1>10. \A u \in Threads : Unlinked(u)' \subseteq Unlinked(u) \cup {n}
  BY <1>4, <1>6
<1>11. QED
  BY <1>1, <1>7, <1>8, <1>9, <1>10

LEMMA LinkMoves ==
    ASSUME Types, Control, Disjoint, Chain, NEW t \in Threads, ReaderOf(t),
           Link(t), LinkFits(t)
    PROVE  /\ ptr[t] \in InChain /\ node[t] \in Nodes /\ node[t] \in Unlinked(t)
           /\ InChain' = InChain \cup {node[t]} /\ Gone' = Gone /\ Disjoint'
           /\ next' = [next EXCEPT ![ptr[t]] = node[t]] /\ next[ptr[t]] = NULL
           /\ Unlinked(t)' = {} /\ \A u \in Threads \ {t} : Unlinked(u)' = Unlinked(u)
<1>a. OthersSame(t) /\ ControlOf(t)
  BY StepIsOfOne DEF StepOf, Continue, Control
<1>1. op[t] = "enqueue" /\ node[t] \in Nodes /\ list[t] = {}
  BY <1>a DEF ControlOf, Link, Scanning, Types, TypeOK, Ref, Starting, DequeueSteps
<1>2. Unlinked(t) = {node[t]} /\ Dequeued(t) = {}
  BY <1>1, <1>a DEF ControlOf, Link, Unlinked, Dequeued
<1>3. Unlinked(t)' = {} /\ Dequeued(t)' = {} /\ list'[t] = {}
  BY <1>1 DEF Link, Goto, Unlinked, Dequeued, Types, TypeOK, scanVars
<1>4. Owned(t) = {node[t]} /\ Owned(t)' = {}
  BY <1>1, <1>2, <1>3 DEF Owned
<1>5. \A u \in Threads \ {t} : /\ Owned(u)' = Owned(u) /\ Unlinked(u)' = Unlinked(u)
                               /\ Dequeued(u)' = Dequeued(u) /\ list'[u] = list[u]
  BY <1>a, OthersOwn DEF OthersSame, Same
<1>6. heap' = heap /\ retired' = retired
  BY DEF Link, freeVars
<1>7. InChain' = InChain \cup {node[t]}
  BY <1>1, <1>4, <1>5, <1>6 DEF InChain, Disjoint
<1>8. Gone' = Gone
  BY <1>1, <1>2, <1>3, <1>5, <1>6 DEF Gone
<1>9. Disjoint'
  BY <1>4, <1>5, <1>6 DEF Disjoint
<1>10. ptr[t] \in InChain /\ next[ptr[t]] = NULL
  BY DEF ReaderOf, Reading, Link, LinkFits, Chain
<1>11. next' = [next EXCEPT ![ptr[t]] = node[t]]
  BY DEF Link
<1>12. QED
  BY <1>1, <1>2, <1>3, <1>5, <1>7, <1>8, <1>9, <1>10, <1>11

LEMMA UnlinkMoves ==
    ASSUME Types, Control, Disjoint, Chain, NEW t \in Threads, ReaderOf(t),
           Unlink(t), head = ptr[t]
    PROVE  /\ head \in InChain /\ head' = next[head] /\ head' \in InChain /\ tail # head
           /\ InChain' = InChain \ {head} /\ Gone' = Gone \cup {head} /\ Disjoint'
           /\ next' = next /\ \A u \in Threads : Unlinked(u)' = Unlinked(u)
<1>a. OthersSame(t) /\ ControlOf(t)
  BY StepIsOfOne DEF StepOf, Continue, Control
<1>1. op[t] = "dequeue" /\ head # NULL /\ nxt[t] # NULL /\ list[t] = {} /\ head' = nxt[t]
  BY <1>a DEF ControlOf, Control, Unlink, Scanning, Types, Starting, EnqueueSteps
<1>2. head \in InChain /\ head' = next[head] /\ head' \in InChain /\ tail # head
  BY <1>1 DEF Chain, ReaderOf, Reading, Unlink
<1>3. Unlinked(t) = {} /\ Dequeued(t) = {} /\ Unlinked(t)' = {} /\ list'[t] = {}
  BY <1>1, <1>a DEF ControlOf, Unlink, Unlinked, Dequeued, scanVars
<1>4. Dequeued(t)' = {head}
  BY <1>1 DEF Unlink, Goto, Dequeued, Types, TypeOK
<1>5. Owned(t) = {} /\ Owned(t)' = {head}
  BY <1>1, <1>3, <1>4 DEF Owned
<1>6. \A u \in Threads \ {t} : /\ Owned(u)' = Owned(u) /\ Unlinked(u)' = Unlinked(u)
                               /\ Dequeued(u)' = Dequeued(u) /\ list'[u] = list[u]
  BY <1>a, OthersOwn DEF OthersSame, Same
<1>7. heap' = heap /\ retired' = retired /\ next' = next
  BY DEF Unlink, freeVars
<1>8. InChain' = InChain \ {head}
  BY <1>2, <1>5, <1>6, <1>7 DEF InChain
<1>9. Gone' = Gone \cup {head}
  BY <1>1, <1>2, <1>3, <1>4, <1>6, <1>7 DEF Gone, InChain
<1>10. Disjoint'
  BY <1>2, <1>5, <1>6, <1>7 DEF Disjoint, InChain
<1>11. QED
  BY <1>2, <1>3, <1>6, <1>7, <1>8, <1>9, <1>10

(* Retired nodes change hands, but none leaves the hands of the queue. *)
LEMMA HandsOver ==
    ASSUME Types, Control, Disjoint, NEW t \in Threads,
           Retire(t) \/ TakeRetired(t) \/ PutBack(t)
    PROVE  /\ InChain' = InChain /\ Gone' = Gone /\ Disjoint'
           /\ \A u \in Threads : Unlinked(u)' = Unlinked(u)
<1>a. OthersSame(t) /\ ControlOf(t)
  BY StepIsOfOne DEF StepOf, Continue, Control
<1>1. \A u \in Threads \ {t} : /\ Owned(u)' = Owned(u) /\ Unlinked(u)' = Unlinked(u)
                               /\ Dequeued(u)' = Dequeued(u) /\ list'[u] = list[u]
  BY <1>a, OthersOwn DEF OthersSame, Same
<1>2. Unlinked(t) = {} /\ Unlinked(t)' = {} /\ heap' = heap
  <2>1. op[t] = "dequeue" /\ node[t] = NULL
    BY <1>a DEF ControlOf, Types, Retire, TakeRetired, PutBack, EnqueueSteps, Starting
  <2>2. node'[t] = NULL /\ heap' = heap
    BY <2>1 DEF Types, TypeOK, Retire, TakeRetired, PutBack, Return
  <2>3. QED
    BY <2>1, <2>2 DEF Unlinked
<1>3. Owned(t) \cup retired = Owned(t)' \cup retired'
  <2>1. CASE Retire(t)
    <3>1. Dequeued(t) = {ptr[t]} /\ retired' = retired \cup {ptr[t]} /\ list'[t] = list[t]
      BY <1>a, <2>1 DEF ControlOf, Types, Retire, Dequeued, EnqueueSteps, Starting, scanVars
    <3>2. Dequeued(t)' = {}
      BY <2>1 DEF Retire, Goto, Dequeued, Types
    <3>3. QED
      BY <1>2, <3>1, <3>2 DEF Owned
  <2>2. CASE TakeRetired(t)
    <3>1. Dequeued(t) = {} /\ list[t] = {} /\ list'[t] = retired /\ retired' = {}
      BY <1>a, <2>2 DEF ControlOf, Types, TypeOK, TakeRetired, Dequeued, Scanning
    <3>2. Dequeued(t)' = {}
      BY <2>2 DEF TakeRetired, Return, Goto, Dequeued, Types, TypeOK
    <3>3. QED
      BY <1>2, <3>1, <3>2 DEF Owned
  <2>3. CASE PutBack(t)
    <3>1. Dequeued(t) = {} /\ Dequeued(t)' = {}
      BY <2>3 DEF PutBack, Dequeued
    <3>2. PICK n \in list[t] : retired' = retired \cup {n} /\ list' = [list EXCEPT ![t] = @ \ {n}]
      BY <2>3 DEF PutBack
    <3>3. list'[t] = list[t] \ {n}
      BY <3>2 DEF Types, TypeOK
    <3>4. QED
      BY <1>2, <3>1, <3>2, <3>3 DEF Owned
  <2>4. QED
    BY <2>1, <2>2, <2>3
<1>4. Owned(t)' \cap retired' = {}
  <2>1. CASE Retire(t)
    <3>1. list[t] = {} /\ list'[t] = list[t]
      BY <1>a, <2>1 DEF ControlOf, Types, Retire, Scanning, scanVars
    <3>2. Dequeued(t)' = {}
      BY <2>1 DEF Retire, Goto, Dequeued, Types
    <3>3. QED
      BY <1>2, <3>1, <3>2 DEF Owned
  <2>2. CASE TakeRetired(t)
    BY <2>2 DEF TakeRetired
  <2>3. CASE PutBack(t)
    <3>1. Dequeued(t)' = {}
      BY <2>3 DEF PutBack, Dequeued
    <3>2. PICK n \in list[t] : retired' = retired \cup {n} /\ list' = [list EXCEPT ![t] = @ \ {n}]
      BY <2>3 DEF PutBack
    <3>3. list'[t] = list[t] \ {n}
      BY <3>2 DEF Types, TypeOK
    <3>4. QED
      BY <1>2, <3>1, <3>2, <3>3 DEF Owned, Disjoint
  <2>4. QED
    BY <2>1, <2>2, <2>3
<1>5. InChain' = InChain
  BY <1>1, <1>2, <1>3 DEF InChain
<1>6. \A u \in Threads : /\ Owned(u) = Unlinked(u) \cup (Dequeued(u) \cup list[u])
                         /\ Owned(u)' = Unlinked(u)' \cup (Dequeued(u)' \cup list'[u])
  BY DEF Owned
<1>7. Gone' = Gone
  <2>1. Dequeued(t) \cup list[t] \cup retired = Dequeued(t)' \cup list'[t] \cup retired'
    BY <1>2, <1>3, <1>6
  <2>2. QED
    BY <1>1, <2>1 DEF Gone
<1>8. Disjoint'
  <2>1. heap' \cap retired' = {} /\ Owned(t)' \cap (heap' \cup retired') = {}
    BY <1>2, <1>3, <1>4 DEF Disjoint
  <2>2. ASSUME NEW u \in Threads \ {t}
        PROVE  /\ Owned(u)' \cap (heap' \cup retired') = {}
               /\ Owned(u)' \cap Owned(t)' = {}
    BY <1>1, <1>2, <1>3, <2>2 DEF Disjoint
  <2>3. \A u, w \in Threads \ {t} : u # w => Owned(u)' \cap Owned(w)' = {}
    BY <1>1 DEF Disjoint
  <2>4. QED
    BY <2>1, <2>2, <2>3 DEF Disjoint
<1>9. QED
  BY <1>1, <1>2, <1>5, <1>7, <1>8

LEMMA DeleteMoves ==
    ASSUME Types, Control, Disjoint, Scans, NEW t \in Threads, Delete(t)
    PROVE  /\ InChain' = InChain /\ Gone' \subseteq Gone /\ Disjoint'
           /\ \A u \in Threads : Unlinked(u)' = Unlinked(u)
           /\ \A u \in Threads : InUse(u) \cap Gone \subseteq Gone'
<1>a. OthersSame(t) /\ ControlOf(t)
  BY StepIsOfOne DEF StepOf, Continue, Control
<1>1. \A u \in Threads \ {t} : /\ Owned(u)' = Owned(u) /\ Unlinked(u)' = Unlinked(u)
                               /\ Dequeued(u)' = Dequeued(u) /\ list'[u] = list[u]
  BY <1>a, OthersOwn DEF OthersSame, Same
<1>2. /\ Dequeued(t) = {} /\ Dequeued(t)' = {} /\ Unlinked(t)' = Unlinked(t)
      /\ retired' = retired
  BY DEF Delete, Goto, Dequeued, Unlinked, Types
<1>3. Unlinked(t) = {}
  BY <1>a DEF ControlOf, Delete, Unlinked, EnqueueSteps, Starting
<1>4. list'[t] = Kept(t) /\ heap' = heap \cup (list[t] \ Kept(t)) /\ Kept(t) \subseteq list[t]
  BY DEF Delete, Kept, Types, TypeOK
<1>5. Owned(t) = list[t] /\ Owned(t)' = Kept(t)
  BY <1>2, <1>3, <1>4 DEF Owned
<1>6. InChain' = InChain
  BY <1>1, <1>2, <1>4, <1>5 DEF InChain
<1>7. Gone' \subseteq Gone
  BY <1>1, <1>2, <1>4 DEF Gone
<1>8. Disjoint'
  <2>1. heap' \cap retired' = {} /\ Owned(t)' \cap (heap' \cup retired') = {}
    BY <1>2, <1>4, <1>5 DEF Disjoint
  <2>2. ASSUME NEW u \in Threads \ {t}
        PROVE  Owned(u)' \cap (heap' \cup retired') = {} /\ Owned(u)' \cap Owned(t)' = {}
    BY <1>1, <1>2, <1>4, <1>5, <2>2 DEF Disjoint
  <2>3. \A u, w \in Threads \ {t} : u # w => Owned(u)' \cap Owned(w)' = {}
    BY <1>1 DEF Disjoint
  <2>4. QED
    BY <2>1, <2>2, <2>3 DEF Disjoint
<1>9. ASSUME NEW u \in Threads, NEW n \in InUse(u), n \in Gone PROVE n \in Gone'
  <2>1. CASE n \in list[t]
    <3>1. n \in protected[t]
      <4>1. WillSee(t, u, n) /\ unread[t] = <<>> /\ pc[t] = "first"
        BY <2>1, <1>9 DEF Scans, Delete
      <4>2. QED
        BY <4>1 DEF WillSee, Elems
    <3>2. n \in list'[t] /\ n \in Nodes
      BY <1>4, <2>1, <3>1 DEF Kept, Types, TypeOK
    <3>3. QED
      BY <3>2 DEF Gone
  <2>2. CASE n \notin list[t]
    BY <1>1, <1>2, <1>9, <2>2 DEF Gone
  <2>3. QED
    BY <2>1, <2>2
<1>10. QED
  BY <1>1, <1>2, <1>6, <1>7, <1>8, <1>9

-----------------------------------------------------------------------------
(* The list.                                                                *)

LEMMA StepKinds ==
    ASSUME NEW t \in Threads, StepOf(t)
    PROVE  \/ QuietStep(t)
           \/ \E v \in Values : Enqueue(t, v)
           \/ Link(t) /\ LinkFits(t)
           \/ Unlink(t) /\ head = ptr[t]
           \/ Retire(t) \/ TakeRetired(t) \/ PutBack(t)
           \/ Delete(t)
BY DEF StepOf, Continue, QuietStep

(* mTail moves to the next node of the list, or stays. *)
LEMMA TailMoves ==
    ASSUME Types, Control, Chain, NEW t \in Threads, ReaderOf(t), StepOf(t), QuietStep(t)
    PROVE  \/ tail' = tail
           \/ tail \in InChain /\ tail' = next[tail] /\ tail' \in InChain
<1>a. ControlOf(t) /\ head # NULL
  BY StepStands, ConstantsHold DEF Control
<1>1. CASE Swing(t)
  BY <1>1, <1>a DEF Swing, CasTail, Chain, ReaderOf, ControlOf, Reading, Types, DequeueSteps,
     Starting, Scanning
<1>2. CASE HelpTail(t)
  BY <1>2, <1>a DEF HelpTail, CasTail, Chain, ReaderOf, ControlOf, Reading
<1>3. CASE ~Swing(t) /\ ~HelpTail(t)
  BY <1>3 DEF QuietStep, Load, Publish, Validate, LoadNext, RecheckTail, StoreSecond, RecheckHead,
     LoadTail, CopyValue, CountStep, ClearHazards, CountRetired, LoadHazards, ReadFirst,
     ReadSecond, ScanDone, TryDequeue, Link, Unlink,
     listVars
<1>4. QED
  BY <1>1, <1>2, <1>3

LEMMA NodesInUse ==
    ASSUME NEW t \in Threads, Readers
    PROVE  InUse(t) \subseteq InChain \cup Gone
BY DEF Readers, ReaderOf, InUse, Reading

(* What only an enqueuer knows is neither in the list nor has it left it. *)
LEMMA NewIsApart ==
    ASSUME Types, Control, Disjoint, NEW u \in Threads, NEW n \in Unlinked(u)
    PROVE  n \notin InChain /\ n \notin Gone
<1>1. n \in Owned(u)
  BY DEF Owned
<1>2. n \notin InChain
  BY <1>1 DEF InChain
<1>3. n \notin Dequeued(u) /\ n \notin list[u]
  BY DEF Unlinked, Dequeued, Control, ControlOf, Types, EnqueueSteps, Starting, Scanning
<1>4. ASSUME NEW w \in Threads \ {u} PROVE n \notin Dequeued(w) \cup list[w]
  BY <1>1, <1>4 DEF Disjoint, Owned
<1>5. n \notin Gone
  BY <1>1, <1>3, <1>4 DEF Gone, Disjoint
<1>6. QED
  BY <1>2, <1>5

LEMMA StepChain ==
    ASSUME Constants, Types, Control, Disjoint, Chain, Readers, Scans,
           NEW t \in Threads, StepOf(t)
    PROVE  Disjoint' /\ Chain'
<1>a. ReaderOf(t) /\ head \in InChain /\ tail \in InChain
  BY StepStands DEF Readers, Chain
<1>b. \A u \in Threads : Unlinked(u) \cap InChain = {} /\ Unlinked(u) \cap Gone = {}
  BY NewIsApart
<1>c. InChain \subseteq Nodes /\ Gone \subseteq Nodes /\ InChain \cap Gone = {}
      /\ heap \cap InChain = {} /\ heap \cap Gone = {}
  BY DEF InChain, Gone, Disjoint, Owned
<1>1. CASE QuietStep(t)
  <2>1. next' = next /\ head' = head
    BY <1>1, QuietStepIsQuiet DEF Quiet
  <2>2. /\ InChain' = InChain /\ Gone' = Gone /\ Disjoint'
        /\ \A u \in Threads : Unlinked(u)' = Unlinked(u)
    BY <1>1, QuietStepIsQuiet, QuietKeeps
  <2>3. tail' \in InChain
    BY <1>1, <1>a, TailMoves
  <2>4. QED
    BY <1>a, <2>1, <2>2, <2>3 DEF Chain
<1>2. ASSUME NEW v \in Values, Enqueue(t, v) PROVE Disjoint' /\ Chain'
  <2>1. /\ InChain' = InChain /\ Gone' = Gone /\ Disjoint'
        /\ \E n \in heap : /\ next' = [next EXCEPT ![n] = NULL]
                           /\ \A u \in Threads : Unlinked(u)' \subseteq Unlinked(u) \cup {n}
    BY <1>2, EnqueueMoves
  <2>2. PICK n \in heap : /\ next' = [next EXCEPT ![n] = NULL]
                         /\ \A u \in Threads : Unlinked(u)' \subseteq Unlinked(u) \cup {n}
    BY <2>1
  <2>3. head' = head /\ tail' = tail /\ n \in Nodes
    BY <1>2 DEF Enqueue, Types, TypeOK
  <2>4. next'[n] = NULL /\ \A m \in Nodes \ {n} : next'[m] = next[m]
    BY <2>2, <2>3 DEF Types, TypeOK
  <2>5. \A m \in InChain \cup Gone : next'[m] = next[m]
    BY <1>c, <2>2, <2>4
  <2>6. \A u \in Threads : \A m \in Unlinked(u)' : next'[m] = NULL
    <3>1. \A u \in Threads : Unlinked(u) \subseteq Nodes
      BY DEF Unlinked, Types, TypeOK, Ref
    <3>2. QED
      BY <2>2, <2>4, <3>1 DEF Chain
  <2>7. QED
    BY <1>a, <2>1, <2>3, <2>5, <2>6 DEF Chain
<1>3. CASE Link(t) /\ LinkFits(t)
  <2> DEFINE n == node[t]
             p == ptr[t]
  <2>1. /\ p \in InChain /\ n \in Nodes /\ n \in Unlinked(t)
        /\ InChain' = InChain \cup {n} /\ Gone' = Gone /\ Disjoint'
        /\ next' = [next EXCEPT ![p] = n] /\ next[p] = NULL
        /\ Unlinked(t)' = {} /\ \A u \in Threads \ {t} : Unlinked(u)' = Unlinked(u)
    BY <1>3, <1>a, LinkMoves
  <2>2. head' = head /\ tail' = tail
    BY <1>3 DEF Link
  <2>3. n \notin InChain /\ n \notin Gone /\ next[n] = NULL /\ n # NULL /\ n # p /\ n # head
    BY <1>a, <1>b, <2>1 DEF Chain, Constants
  <2>4. next'[p] = n /\ \A m \in Nodes \ {p} : next'[m] = next[m]
    BY <1>c, <2>1 DEF Types, TypeOK
  <2>5. \A m \in InChain' : next'[m] \in InChain' \cup {NULL} /\ next'[m] # head'
    BY <1>c, <2>1, <2>2, <2>3, <2>4 DEF Chain
  <2>6. \A m, k \in InChain' : next'[m] = next'[k] /\ next'[m] # NULL => m = k
    <3>1. \A m \in InChain' : m # p => next'[m] # n
      BY <1>c, <2>1, <2>3, <2>4 DEF Chain
    <3>2. \A m, k \in InChain' : m # p /\ k # p /\ next'[m] = next'[k] /\ next'[m] # NULL => m = k
      BY <1>c, <2>1, <2>3, <2>4 DEF Chain
    <3>3. QED
      BY <2>4, <3>1, <3>2
  <2>7. \A m \in Gone' : next'[m] # NULL
    BY <1>c, <2>1, <2>4 DEF Chain
  <2>8. \A u \in Threads : \A m \in Unlinked(u)' : next'[m] = NULL
    <3>1. \A u \in Threads : Unlinked(u) \subseteq Nodes
      BY DEF Unlinked, Types, TypeOK, Ref
    <3>2. QED
      BY <1>b, <2>1, <2>4, <3>1 DEF Chain
  <2>9. QED
    BY <1>a, <2>1, <2>2, <2>5, <2>6, <2>7, <2>8 DEF Chain
<1>4. CASE Unlink(t) /\ head = ptr[t]
  <2>1. /\ head \in InChain /\ head' = next[head] /\ head' \in InChain /\ tail # head
        /\ InChain' = InChain \ {head} /\ Gone' = Gone \cup {head} /\ Disjoint'
        /\ next' = next /\ \A u \in Threads : Unlinked(u)' = Unlinked(u)
    BY <1>4, <1>a, UnlinkMoves
  <2>2. tail' = tail /\ head' # head /\ head' # NULL
    BY <1>4, <1>c, <2>1 DEF Unlink, Chain, Constants
  <2>3. \A m \in InChain' : next'[m] \in InChain' \cup {NULL} /\ next'[m] # head'
    BY <2>1, <2>2 DEF Chain
  <2>4. \A m \in Gone' : next'[m] # NULL
    BY <2>1, <2>2 DEF Chain
  <2>5. QED
    BY <1>a, <2>1, <2>2, <2>3, <2>4 DEF Chain
<1>5. CASE Retire(t) \/ TakeRetired(t) \/ PutBack(t)
  <2>1. next' = next /\ head' = head /\ tail' = tail
    BY <1>5 DEF Retire, TakeRetired, PutBack, listVars
  <2>2. QED
    BY <1>5, <2>1, HandsOver DEF Chain
<1>6. CASE Delete(t)
  <2>1. next' = next /\ head' = head /\ tail' = tail
    BY <1>6 DEF Delete, listVars
  <2>2. QED
    BY <1>6, <2>1, DeleteMoves DEF Chain
<1>7. QED
  BY <1>1, <1>2, <1>3, <1>4, <1>5, <1>6, StepKinds

-----------------------------------------------------------------------------
(* The readers and the scans.                                               *)

(* No step takes a node in use away, brings it back into the list or changes *)
(* where it leads to.                                                       *)
LEMMA UseIsKept ==
    ASSUME SafeInv, NEW t \in Threads, StepOf(t), NEW u \in Threads, NEW n \in InUse(u)
    PROVE  /\ n \in InChain' \cup Gone'
           /\ n \in InChain' => n \in InChain
           /\ next[n] # NULL => next'[n] = next[n]
<1> USE DEF SafeInv
<1>a. ReaderOf(t) /\ n \in InChain \cup Gone /\ n \in Nodes /\ n \notin heap
  BY NodesInUse DEF Readers, InChain, Gone, Disjoint, Owned
<1>1. CASE QuietStep(t)
  BY <1>1, <1>a, QuietStepIsQuiet, QuietKeeps DEF Quiet
<1>2. ASSUME NEW v \in Values, Enqueue(t, v)
      PROVE  InChain' = InChain /\ Gone' = Gone /\ next'[n] = next[n]
  <2>1. InChain' = InChain /\ Gone' = Gone /\ \E m \in heap : next' = [next EXCEPT ![m] = NULL]
    BY <1>2, EnqueueMoves, ConstantsHold
  <2>2. QED
    BY <1>a, <2>1 DEF Types, TypeOK
<1>3. CASE Link(t) /\ LinkFits(t)
  <2>1. /\ InChain' = InChain \cup {node[t]} /\ Gone' = Gone /\ node[t] \in Unlinked(t)
        /\ next' = [next EXCEPT ![ptr[t]] = node[t]] /\ next[ptr[t]] = NULL
    BY <1>3, <1>a, LinkMoves
  <2>2. n # node[t]
    BY <1>a, <2>1, NewIsApart
  <2>3. QED
    BY <1>a, <2>1, <2>2 DEF Types, TypeOK
<1>4. CASE Unlink(t) /\ head = ptr[t]
  BY <1>4, <1>a, UnlinkMoves
<1>5. CASE Retire(t) \/ TakeRetired(t) \/ PutBack(t)
  <2>1. next' = next
    BY <1>5 DEF Retire, TakeRetired, PutBack, listVars
  <2>2. QED
    BY <1>5, <1>a, <2>1, HandsOver
<1>6. CASE Delete(t)
  <2>1. next' = next
    BY <1>6 DEF Delete, listVars
  <2>2. QED
    BY <1>6, <1>a, <2>1, DeleteMoves
<1>7. QED
  BY <1>1, <1>2, <1>3, <1>4, <1>5, <1>6, <1>a, StepKinds

(* mHead moves to the next node, and the node it named is out of the list. *)
LEMMA HeadMoves ==
    ASSUME SafeInv, NEW t \in Threads, StepOf(t)
    PROVE  \/ head' = head /\ (tail' = tail \/ tail' # head)
           \/ /\ head \notin InChain' /\ head' \in InChain /\ head' # head
              /\ tail' = tail
<1> USE DEF SafeInv
<1>a. ReaderOf(t)
  BY DEF Readers
<1>1. CASE Unlink(t) /\ head = ptr[t]
  <2>1. head' = next[head] /\ head \in InChain /\ head' \in InChain /\ InChain' = InChain \ {head}
    BY <1>1, <1>a, UnlinkMoves
  <2>2. tail' = tail
    BY <1>1 DEF Unlink
  <2>3. QED
    BY <2>1, <2>2 DEF Chain
<1>2. CASE QuietStep(t)
  <2>1. head' = head
    BY <1>2, QuietStepIsQuiet DEF Quiet
  <2>2. QED
    BY <1>2, <1>a, <2>1, TailMoves DEF Chain
<1>3. CASE ~QuietStep(t) /\ ~(Unlink(t) /\ head = ptr[t])
  <2>1. head' = head /\ tail' = tail
    BY <1>3, StepKinds DEF Enqueue, Link, Retire, TakeRetired, PutBack, Delete, listVars
  <2>2. QED
    BY <2>1
<1>4. QED
  BY <1>1, <1>2, <1>3

LEMMA OtherReaders ==
    ASSUME SafeInv, NEW t \in Threads, StepOf(t), NEW u \in Threads \ {t}
    PROVE  ReaderOf(u)'
<1> USE DEF SafeInv
<1>a. ReaderOf(u) /\ ControlOf(u) /\ Same(u)
  BY StepIsOfOne DEF Readers, Control, OthersSame
<1>b. ASSUME NEW n \in InUse(u)
      PROVE  /\ n \in InChain' \cup Gone'
             /\ n \in InChain' => n \in InChain
             /\ next[n] # NULL => next'[n] = next[n]
  BY <1>b, UseIsKept
<1>1. CASE pc[u] \notin Reading
  BY <1>1, <1>a DEF ReaderOf, Same, Reading
<1>2. CASE pc[u] \in Reading
  <2>1. ptr[u] \in InUse(u) /\ (pc[u] \in {"tail", "value", "unlink"} => nxt[u] \in InUse(u))
    BY <1>2 DEF InUse, Reading
  <2>2. pc[u] = "swing" => node[u] # NULL
    BY <1>a DEF ControlOf, Types, DequeueSteps, Starting, Scanning
  <2>3. op[u] = "dequeue" /\ ptr[u] \in InChain' => ptr[u] = head'
    BY <1>2, <1>a, <1>b, <2>1, HeadMoves DEF ReaderOf
  <2>4. pc[u] \in {"value", "unlink"} /\ head' = ptr[u] => tail' # ptr[u]
    <3>1. pc[u] \in {"value", "unlink"} => op[u] = "dequeue"
      BY <1>a DEF ControlOf, Types, EnqueueSteps, Starting
    <3>2. QED
      BY <1>2, <1>a, <3>1, HeadMoves DEF ReaderOf
  <2>5. /\ ptr[u] \in InChain' \cup Gone'
        /\ pc[u] # "next" /\ nxt[u] # NULL => next'[ptr[u]] = nxt[u]
        /\ pc[u] = "swing" => next'[ptr[u]] = node[u]
        /\ pc[u] \in {"tail", "value", "unlink"} => nxt[u] \in InChain' \cup Gone'
    <3>1. /\ ptr[u] \in InChain' \cup Gone'
          /\ next[ptr[u]] # NULL => next'[ptr[u]] = next[ptr[u]]
      BY <1>b, <2>1
    <3>2. pc[u] \in {"tail", "value", "unlink"} => nxt[u] \in InChain' \cup Gone'
      BY <1>b, <2>1
    <3>3. /\ pc[u] # "next" /\ nxt[u] # NULL => next[ptr[u]] = nxt[u]
          /\ pc[u] = "swing" => next[ptr[u]] = node[u]
      BY <1>2, <1>a DEF ReaderOf
    <3>4. QED
      BY <2>2, <3>1, <3>2, <3>3
  <2>6. QED
    BY <1>2, <1>a, <2>3, <2>4, <2>5 DEF ReaderOf, Same
<1>3. QED
  BY <1>1, <1>2

LEMMA OwnReader ==
    ASSUME SafeInv, NEW t \in Threads, StepOf(t)
    PROVE  ReaderOf(t)'
<1> USE DEF SafeInv
<1>a. ReaderOf(t) /\ ControlOf(t) /\ head \in InChain /\ tail \in InChain
  BY StepStands, ConstantsHold DEF Readers, Control, Chain
<1>b. QuietStep(t) => /\ InChain' = InChain /\ Gone' = Gone /\ next' = next /\ head' = head
  BY QuietStepIsQuiet, QuietKeeps DEF Quiet
<1>c. pc'[t] \notin Reading \cup {"validate"} => ReaderOf(t)'
  BY DEF ReaderOf, Reading
<1>1. CASE Load(t)
  BY <1>1, <1>c DEF Load, Goto, Source, Reading, Types
<1>2. CASE Publish(t)
  BY <1>2, <1>a, <1>b DEF Publish, Goto, QuietStep, ReaderOf, Reading, HeadMoved, Chain, ControlOf,
     Types, TypeOK, listVars, hazardVars
<1>3. CASE Validate(t)
  BY <1>3, <1>a, <1>b DEF Validate, Goto, Unchanged, Source, QuietStep, ReaderOf, Reading,
     Types, TypeOK, listVars, hazardVars, ControlOf
<1>4. CASE LoadNext(t)
  BY <1>4, <1>a, <1>b DEF LoadNext, Goto, QuietStep, ReaderOf, Reading, HeadMoved, Chain, ControlOf,
     Types, TypeOK, listVars, hazardVars
<1>5. CASE RecheckTail(t)
  BY <1>5, <1>a, <1>b DEF RecheckTail, Goto, Retry, QuietStep, ReaderOf, Reading, HeadMoved,
     Chain, ControlOf,
     Types, TypeOK, listVars, hazardVars
<1>6. CASE Swing(t)
  BY <1>6, <1>c DEF Swing, Goto, CasTail, Reading, Types
<1>7. CASE HelpTail(t)
  BY <1>7, <1>c DEF HelpTail, Goto, Retry, CasTail, Reading, Types
<1>8. CASE StoreSecond(t)
  BY <1>8, <1>a, <1>b DEF StoreSecond, Goto, QuietStep, ReaderOf, Reading, HeadMoved, Chain,
     ControlOf,
     Types, TypeOK, listVars, hazardVars
<1>9. CASE RecheckHead(t)
  BY <1>9, <1>a, <1>b DEF RecheckHead, Goto, Retry, QuietStep, ReaderOf, Reading, HeadMoved,
     Chain, ControlOf,
     Types, TypeOK, listVars, hazardVars
<1>10. CASE LoadTail(t)
  BY <1>10, <1>a, <1>b DEF LoadTail, Goto, QuietStep, ReaderOf, Reading, HeadMoved, Chain,
     ControlOf,
     Types, TypeOK, listVars, hazardVars
<1>11. CASE CopyValue(t)
  BY <1>11, <1>a, <1>b DEF CopyValue, Goto, QuietStep, ReaderOf, Reading, HeadMoved, Chain,
     ControlOf,
     Types, TypeOK, listVars, hazardVars
<1>12. CASE CountStep(t)
  BY <1>12, <1>c DEF CountStep, Goto, Count, Reading, Types
<1>13. CASE ClearHazards(t)
  BY <1>13, <1>c DEF ClearHazards, Goto, Return, Reading, Types
<1>14. CASE CountRetired(t)
  BY <1>14, <1>c DEF CountRetired, Goto, Return, NextCount, Reading, Types
<1>15. CASE LoadHazards(t)
  BY <1>15, <1>c DEF LoadHazards, Goto, Reading, Types
<1>16. CASE ReadFirst(t)
  BY <1>16, <1>c DEF ReadFirst, Goto, Saw, Reading, Types
<1>17. CASE ReadSecond(t)
  BY <1>17, <1>c DEF ReadSecond, Goto, Saw, Reading, Types
<1>18. CASE ScanDone(t)
  BY <1>18, <1>c DEF ScanDone, Goto, Return, Reading, Types
<1>19. CASE TryDequeue(t)
  BY <1>19, <1>c DEF TryDequeue, Goto, Reading, Types
<1>20. CASE Link(t)
  <2>1. CASE LinkFits(t)
    <3>1. pc'[t] = "swing" /\ op' = op /\ op[t] # "dequeue" /\ ptr' = ptr /\ first' = first
          /\ nxt' = nxt /\ node' = node
      BY <1>20, <1>a, <2>1 DEF Link, Goto, Types, ControlOf, DequeueSteps, Starting, Scanning,
         hazardVars
    <3>2. ptr[t] \in InChain /\ InChain' = InChain \cup {node[t]} /\ next[ptr[t]] = NULL
          /\ next' = [next EXCEPT ![ptr[t]] = node[t]]
      BY <1>20, <1>a, <2>1, LinkMoves
    <3>3. next'[ptr[t]] = node[t] /\ nxt[t] = NULL /\ first[t] = ptr[t]
      BY <1>20, <1>a, <3>2 DEF Types, TypeOK, Link, ReaderOf, Reading, InChain
    <3>4. QED
      BY <3>1, <3>2, <3>3 DEF ReaderOf
  <2>2. CASE ~LinkFits(t)
    BY <1>20, <1>c, <2>2 DEF Link, Retry, Goto, Reading, Types
  <2>3. QED
    BY <2>1, <2>2
<1>21. CASE Unlink(t)
  BY <1>21, <1>c DEF Unlink, Retry, Goto, Reading, Types
<1>22. ASSUME NEW v \in Values, Enqueue(t, v) PROVE ReaderOf(t)'
  BY <1>22, <1>c DEF Enqueue, Goto, Reading, Types
<1>23. CASE Retire(t) \/ TakeRetired(t) \/ PutBack(t) \/ Delete(t)
  BY <1>23, <1>c DEF Retire, TakeRetired, PutBack, Delete, Return, Goto, Reading, Types
<1>24. QED
  BY <1>1, <1>2, <1>3, <1>4, <1>5, <1>6, <1>7, <1>8, <1>9, <1>10, <1>11, <1>12, <1>13, <1>14,
     <1>15, <1>16, <1>17, <1>18, <1>19, <1>20, <1>21, <1>22, <1>23 DEF StepOf, Continue

(* A node a thread comes to use is in the list at that moment; one it used   *)
(* already it still names with the same hazard pointer.                     *)
OldUse(t, n) ==
    n \in InUse(t) /\ first'[t] = first[t] /\ (second'[t] = second[t] \/ n = first[t])

LEMMA OwnUse ==
    ASSUME SafeInv, NEW t \in Threads, StepOf(t), NEW n \in InUse(t)'
    PROVE  n \in InChain \/ OldUse(t, n)
<1> USE DEF SafeInv
<1>a. ReaderOf(t) /\ ControlOf(t) /\ head \in InChain /\ tail \in InChain
  BY StepStands, ConstantsHold DEF Readers, Control, Chain
<1>b. pc'[t] \notin Reading => FALSE
  BY DEF InUse, Reading
<1>1. CASE Load(t)
  BY <1>1, <1>b DEF Load, Goto, Source, Reading, Types
<1>2. CASE Publish(t)
  BY <1>2, <1>b DEF Publish, Goto, Reading, Types
<1>3. CASE Validate(t)
  BY <1>3, <1>a, <1>b DEF Validate, Goto, InUse, OldUse, Reading, ReaderOf, Types, TypeOK,
     listVars, hazardVars, Unchanged, Source, ControlOf
<1>4. CASE LoadNext(t)
  BY <1>4, <1>a, <1>b DEF LoadNext, Goto, InUse, OldUse, Reading, ReaderOf, Types, TypeOK,
     listVars, hazardVars
<1>5. CASE RecheckTail(t)
  BY <1>5, <1>a, <1>b DEF RecheckTail, Goto, Retry, InUse, OldUse, Reading, ReaderOf, Types, TypeOK,
     listVars, hazardVars
<1>6. CASE Link(t)
  BY <1>6, <1>a, <1>b DEF Link, Goto, Retry, InUse, OldUse, Reading, ReaderOf, Types, TypeOK,
     listVars, hazardVars
<1>7. CASE Swing(t)
  BY <1>7, <1>b DEF Swing, Goto, CasTail, Reading, Types
<1>8. CASE HelpTail(t)
  BY <1>8, <1>b DEF HelpTail, Goto, Retry, CasTail, Reading, Types
<1>9. CASE StoreSecond(t)
  BY <1>9, <1>a, <1>b DEF StoreSecond, Goto, InUse, OldUse, Reading, ReaderOf, Types, TypeOK,
     listVars, hazardVars
<1>10. CASE RecheckHead(t)
  BY <1>10, <1>a, <1>b DEF RecheckHead, Goto, Retry, InUse, OldUse, Reading, ReaderOf, Types,
     TypeOK,
     listVars, hazardVars, HeadMoved, Chain
<1>11. CASE LoadTail(t)
  BY <1>11, <1>a, <1>b DEF LoadTail, Goto, InUse, OldUse, Reading, ReaderOf, Types, TypeOK,
     listVars, hazardVars
<1>12. CASE CopyValue(t)
  BY <1>12, <1>a, <1>b DEF CopyValue, Goto, InUse, OldUse, Reading, ReaderOf, Types, TypeOK,
     listVars, hazardVars
<1>13. CASE Unlink(t)
  BY <1>13, <1>b DEF Unlink, Goto, Retry, Reading, Types
<1>14. CASE CountStep(t)
  BY <1>14, <1>b DEF CountStep, Goto, Count, Reading, Types
<1>15. CASE ClearHazards(t)
  BY <1>15, <1>b DEF ClearHazards, Goto, Return, Reading, Types
<1>16. CASE Retire(t)
  BY <1>16, <1>b DEF Retire, Goto, Reading, Types
<1>17. CASE CountRetired(t)
  BY <1>17, <1>b DEF CountRetired, Goto, Return, NextCount, Reading, Types
<1>18. CASE TakeRetired(t)
  BY <1>18, <1>b DEF TakeRetired, Goto, Return, Reading, Types
<1>19. CASE LoadHazards(t)
  BY <1>19, <1>b DEF LoadHazards, Goto, Reading, Types
<1>20. CASE ReadFirst(t)
  BY <1>20, <1>b DEF ReadFirst, Goto, Saw, Reading, Types
<1>21. CASE ReadSecond(t)
  BY <1>21, <1>b DEF ReadSecond, Goto, Saw, Reading, Types
<1>22. CASE Delete(t)
  BY <1>22, <1>b DEF Delete, Goto, Kept, Reading, Types
<1>23. CASE PutBack(t)
  BY <1>23, <1>b DEF PutBack, Reading, Types
<1>24. CASE ScanDone(t)
  BY <1>24, <1>b DEF ScanDone, Goto, Return, Reading, Types
<1>25. CASE TryDequeue(t)
  BY <1>25, <1>b DEF TryDequeue, Goto, Reading, Types
<1>26. ASSUME NEW v \in Values, Enqueue(t, v) PROVE FALSE
  BY <1>26, <1>b DEF Enqueue, Goto, Reading, Types
<1>27. QED
  BY <1>1, <1>2, <1>3, <1>4, <1>5, <1>6, <1>7, <1>8, <1>9, <1>10, <1>11, <1>12, <1>13, <1>14,
     <1>15, <1>16, <1>17, <1>18, <1>19, <1>20, <1>21, <1>22, <1>23, <1>24, <1>25, <1>26
     DEF StepOf, Continue

LEMMA ScanSteps ==
    ASSUME Types, Control, NEW t \in Threads, StepOf(t), pc'[t] \in {"first", "second_of"}
    PROVE  LoadHazards(t) \/ ReadFirst(t) \/ ReadSecond(t)
BY DEF Types, StepOf, Continue, Load, Publish, Validate, LoadNext, RecheckTail, Link, Swing,
   HelpTail, StoreSecond, RecheckHead, LoadTail, CopyValue, Unlink, CountStep, ClearHazards, Retire,
   CountRetired, TakeRetired, Delete, PutBack, ScanDone, TryDequeue, Enqueue, Goto, Retry, Return

LEMMA StepScans ==
    ASSUME SafeInv, NEW t \in Threads, StepOf(t)
    PROVE  Scans'
<1> SUFFICES ASSUME NEW s \in Threads, NEW u \in Threads, pc'[s] \in {"first", "second_of"},
                    NEW n \in InUse(u)' \cap list'[s]
             PROVE  WillSee(s, u, n)'
  BY DEF Scans
<1> USE DEF SafeInv
<1>1. list'[s] = list[s]
  <2>1. CASE s # t
    BY <2>1, StepIsOfOne DEF OthersSame, Same
  <2>2. CASE s = t
    BY <2>2, ScanSteps DEF LoadHazards, ReadFirst, ReadSecond
  <2>3. QED
    BY <2>1, <2>2
<1>2. n \in list[s] /\ n \in Nodes /\ n # NULL /\ n \notin InChain
  BY <1>1, ConstantsHold DEF InChain, Owned, Types, TypeOK, Constants
<1>3. OldUse(u, n)
  <2>1. CASE u = t
    BY <1>2, <2>1, OwnUse
  <2>2. CASE u # t
    BY <2>2, StepIsOfOne, OthersOwn DEF OthersSame, Same, OldUse
  <2>3. QED
    BY <2>1, <2>2
<1>4. CASE s # t
  <2>1. WillSee(s, u, n) /\ Same(s)
    BY <1>2, <1>3, <1>4, StepIsOfOne DEF Scans, OthersSame, Same, OldUse
  <2>2. QED
    BY <1>3, <2>1 DEF WillSee, Same, OldUse
<1>5. CASE s = t
  <2>1. CASE LoadHazards(t)
    <3>1. pc[u] # "idle" /\ ControlOf(u)
      BY <1>3 DEF OldUse, InUse, Control
    <3>2. u \in Elems(records)
      BY <3>1 DEF ControlOf
    <3>3. pc'[t] = "first" /\ unread'[t] = records
      BY <2>1 DEF LoadHazards, Goto, Types
    <3>4. QED
      BY <1>5, <3>2, <3>3 DEF WillSee
  <2>2. CASE ReadFirst(t)
    <3>1. pc'[t] = "second_of" /\ unread'[t] = unread[t] /\ unread[t] # <<>>
          /\ unread[t] \in Seq(Threads) /\ pc[t] = "first"
      BY <2>2 DEF ReadFirst, Goto, Types
    <3>2. protected'[t] = protected[t] \cup ({first[Head(unread[t])]} \ {NULL})
      BY <2>2 DEF ReadFirst, Saw, Types, TypeOK
    <3>3. n \in protected[t] \/ u \in Elems(unread[t])
      BY <1>2, <1>3, <1>5, <3>1 DEF Scans, WillSee, OldUse
    <3>4. CASE n \in protected[t]
      BY <1>5, <3>2, <3>4 DEF WillSee
    <3>5. CASE u \in Elems(Tail(unread[t]))
      BY <1>5, <3>1, <3>5 DEF WillSee
    <3>6. CASE u = Head(unread[t]) /\ n = first[u]
      BY <1>2, <1>5, <3>2, <3>6 DEF WillSee
    <3>7. CASE u = Head(unread[t]) /\ n # first[u]
      <4>1. n = second[u]
        BY <1>3, <3>7 DEF OldUse, InUse, Readers, ReaderOf, Reading
      <4>2. first'[u] = first[u] /\ second'[u] = second[u]
        BY <1>3, <3>7 DEF OldUse
      <4>3. QED
        BY <1>5, <3>1, <3>7, <4>1, <4>2 DEF WillSee
    <3>8. QED
      BY <3>1, <3>3, <3>4, <3>5, <3>6, <3>7, ElemsSplit
  <2>3. CASE ReadSecond(t)
    <3>1. pc'[t] = "first" /\ unread'[t] = Tail(unread[t]) /\ pc[t] = "second_of"
      BY <2>3 DEF ReadSecond, Goto, Types
    <3>2. protected'[t] = protected[t] \cup ({second[Head(unread[t])]} \ {NULL})
      BY <2>3 DEF ReadSecond, Saw, Types, TypeOK
    <3>3. WillSee(t, u, n)
      BY <1>2, <1>3, <1>5, <3>1 DEF Scans, OldUse
    <3>4. QED
      BY <1>2, <1>5, <3>1, <3>2, <3>3 DEF WillSee
  <2>4. QED
    BY <1>5, <2>1, <2>2, <2>3, ScanSteps
<1>6. QED
  BY <1>4, <1>5

-----------------------------------------------------------------------------
(* What the destructor reaches.                                             *)

LEMMA ListInClosed ==
    ASSUME NEW S \in SUBSET Nodes, Closed(S)
    PROVE  InList \subseteq S
BY DEF InList

(* A set closed after the step holds the part of the list from before it    *)
(* that it holds the beginning of.                                          *)
LEMMA ListKept ==
    ASSUME Types, Chain, AllReached, head # NULL, InChain' = InChain, head' = head,
           \A m \in InChain : next'[m] = next[m]
    PROVE  InChain' \subseteq InList'
<1>1. ASSUME NEW S \in SUBSET Nodes, Closed(S)' PROVE InChain \subseteq S
  <2> DEFINE T == S \cap InChain
  <2>1. Closed(T)
    BY <1>1 DEF Closed, Chain
  <2>2. T \in SUBSET Nodes
    OBVIOUS
  <2>3. QED
    BY <2>1, <2>2, ListInClosed DEF AllReached
<1>2. QED
  BY <1>1 DEF InList, InChain

LEMMA StepReaches ==
    ASSUME QueueInv, NEW t \in Threads, StepOf(t), Types', Chain'
    PROVE  AllReached'
<1>a. Constants /\ Types /\ Control /\ Disjoint /\ Chain /\ Scans /\ AllReached /\ ReaderOf(t)
      /\ head # NULL
  BY StepStands, ConstantsHold DEF QueueInv, SafeInv, Readers
<1>c. InChain \subseteq Nodes /\ InChain' \subseteq Nodes
  BY DEF InChain
<1>b. InList' \subseteq InChain'
  <2>1. \A S \in SUBSET Nodes : S = InChain' => Closed(S)'
    BY DEF Closed, Chain
  <2>2. \A S \in SUBSET Nodes : Closed(S)' => InList' \subseteq S
    BY DEF InList
  <2>3. QED
    BY <1>c, <2>1, <2>2
<1>1. CASE InChain' = InChain /\ head' = head /\ \A m \in InChain : next'[m] = next[m]
  BY <1>1, <1>a, <1>b, ListKept DEF AllReached
<1>2. CASE Link(t) /\ LinkFits(t)
  <2> DEFINE p == ptr[t]
             k == node[t]
  <2>1. p \in InChain /\ k \in Nodes /\ InChain' = InChain \cup {k} /\ next[p] = NULL
        /\ next' = [next EXCEPT ![p] = k]
    BY <1>2, <1>a, LinkMoves
  <2>2. head' = head /\ next'[p] = k /\ k # NULL /\ \A m \in InChain \ {p} : next'[m] = next[m]
    BY <1>2, <1>a, <1>c, <2>1 DEF Link, Types, TypeOK, Constants
  <2>3. ASSUME NEW S \in SUBSET Nodes, Closed(S)' PROVE InChain' \subseteq S
    <3> DEFINE T == S \cap InChain
    <3>1. Closed(T)
      BY <1>a, <2>1, <2>2, <2>3 DEF Closed, Chain
    <3>2. InChain \subseteq S
      BY <1>a, <3>1, ListInClosed DEF AllReached
    <3>3. k \in S
      BY <2>1, <2>2, <2>3, <3>2 DEF Closed
    <3>4. QED
      BY <2>1, <3>2, <3>3
  <2>4. InChain' \subseteq InList'
    BY <1>c, <2>3 DEF InList
  <2>5. QED
    BY <1>b, <2>4 DEF AllReached
<1>3. CASE Unlink(t) /\ head = ptr[t]
  <2>1. head \in InChain /\ head' = next[head] /\ head' \in InChain /\ InChain' = InChain \ {head}
        /\ next' = next
    BY <1>3, <1>a, UnlinkMoves
  <2>2. head' # NULL
    BY <1>a, <1>c, <2>1 DEF Constants
  <2>3. ASSUME NEW S \in SUBSET Nodes, Closed(S)' PROVE InChain' \subseteq S
    <3> DEFINE T == (S \cap InChain) \cup {head}
    <3>1. Closed(T) /\ T \in SUBSET Nodes
      BY <1>a, <1>c, <2>1, <2>2, <2>3 DEF Closed, Chain
    <3>2. InChain \subseteq T
      BY <1>a, <3>1, ListInClosed DEF AllReached
    <3>3. QED
      BY <2>1, <3>2
  <2>4. InChain' \subseteq InList'
    BY <1>c, <2>3 DEF InList
  <2>5. QED
    BY <1>b, <2>4 DEF AllReached
<1>4. CASE QuietStep(t)
  BY <1>1, <1>4, <1>a, QuietStepIsQuiet, QuietKeeps DEF Quiet
<1>5. ASSUME NEW v \in Values, Enqueue(t, v) PROVE AllReached'
  <2>1. InChain' = InChain /\ \E n \in heap : next' = [next EXCEPT ![n] = NULL]
    BY <1>5, <1>a, EnqueueMoves
  <2>2. \A m \in InChain : next'[m] = next[m]
    BY <1>a, <2>1 DEF InChain, Types, TypeOK
  <2>3. QED
    BY <1>1, <1>5, <2>1, <2>2 DEF Enqueue
<1>6. CASE Retire(t) \/ TakeRetired(t) \/ PutBack(t)
  <2>1. head' = head /\ next' = next
    BY <1>6 DEF Retire, TakeRetired, PutBack, listVars
  <2>2. QED
    BY <1>1, <1>6, <1>a, <2>1, HandsOver
<1>7. CASE Delete(t)
  <2>1. head' = head /\ next' = next
    BY <1>7 DEF Delete, listVars
  <2>2. QED
    BY <1>1, <1>7, <1>a, <2>1, DeleteMoves
<1>8. QED
  BY <1>2, <1>3, <1>4, <1>5, <1>6, <1>7, StepKinds

-----------------------------------------------------------------------------
(* The invariant.                                                           *)

LEMMA InitInv ==
    ASSUME Constants, Init
    PROVE  QueueInv
<1>1. PICK s \in Nodes :
        /\ next = [n \in Nodes |-> NULL] /\ value = [n \in Nodes |-> NULL]
        /\ head = s /\ tail = s /\ size = 0
        /\ first = [t \in Threads |-> NULL] /\ second = [t \in Threads |-> NULL]
        /\ records = <<>>
        /\ retired = {} /\ retireCount = 0 /\ heap = Nodes \ {s}
        /\ pc = [t \in Threads |-> "idle"] /\ op = [t \in Threads |-> "none"]
        /\ ptr = [t \in Threads |-> NULL] /\ nxt = [t \in Threads |-> NULL]
        /\ node = [t \in Threads |-> NULL] /\ item = [t \in Threads |-> NULL]
        /\ list = [t \in Threads |-> {}] /\ unread = [t \in Threads |-> <<>>]
        /\ protected = [t \in Threads |-> {}]
  BY DEF Init
<1>2. Types
  BY <1>1 DEF Types, TypeOK, Ref, Constants
<1>3. Control
  BY <1>1 DEF Control, ControlOf, Constants, Reading, EnqueueSteps, DequeueSteps, Starting, Scanning
<1>4. \A t \in Threads : Unlinked(t) = {} /\ Dequeued(t) = {} /\ Owned(t) = {}
  BY <1>1 DEF Unlinked, Dequeued, Owned
<1>5. InChain = {s} /\ Gone = {}
  BY <1>1, <1>4 DEF InChain, Gone
<1>6. Disjoint
  BY <1>1, <1>4 DEF Disjoint
<1>7. Chain
  BY <1>1, <1>4, <1>5 DEF Chain, Constants
<1>8. Readers /\ Scans
  BY <1>1 DEF Readers, ReaderOf, Reading, Scans
<1>9. InList = {s}
  <2>1. Closed({s})
    BY <1>1 DEF Closed
  <2>2. \A S \in SUBSET Nodes : Closed(S) => s \in S
    BY <1>1 DEF Closed, Constants
  <2>3. QED
    BY <2>1, <2>2 DEF InList
<1>10. QED
  BY <1>2, <1>3, <1>5, <1>6, <1>7, <1>8, <1>9 DEF QueueInv, SafeInv, AllReached

LEMMA DestroyInv ==
    ASSUME Constants, QueueInv, Destroy
    PROVE  QueueInv'
<1>a. Types /\ Control /\ InList = InChain
  BY DEF QueueInv, SafeInv, AllReached
<1>b. \A t \in Threads : pc[t] = "idle" /\ op[t] = "none" /\ node[t] = NULL /\ list[t] = {}
  BY <1>a DEF Destroy, Control, ControlOf, Scanning
<1>c. /\ pc' = pc /\ op' = op /\ ptr' = ptr /\ nxt' = nxt /\ node' = node /\ item' = item
      /\ list' = list /\ unread' = unread /\ protected' = protected
      /\ first' = first /\ second' = second /\ next' = next /\ value' = value /\ size' = size
      /\ retireCount' = retireCount
      /\ heap' = heap \cup retired \cup InList /\ retired' = {} /\ head' = NULL /\ tail' = NULL
      /\ records' = <<>>
  BY DEF Destroy, scanVars
<1>1. Types'
  <2>1. InList \subseteq Nodes
    BY DEF InList
  <2>2. TypeOK'
    BY <1>a, <1>c, <2>1 DEF Types, TypeOK, Ref
  <2>3. QED
    BY <1>a, <1>c, <2>2 DEF Types
<1>2. Control'
  BY <1>a, <1>b, <1>c DEF Control, ControlOf
<1>3. \A t \in Threads : /\ Unlinked(t) = {} /\ Dequeued(t) = {} /\ Owned(t) = {}
                         /\ Unlinked(t)' = {} /\ Dequeued(t)' = {} /\ Owned(t)' = {}
  BY <1>b, <1>c DEF Unlinked, Dequeued, Owned
<1>4. InChain' = {}
  BY <1>a, <1>c, <1>3 DEF InChain
<1>5. Gone' = {}
  BY <1>b, <1>c, <1>3 DEF Gone
<1>6. Disjoint'
  BY <1>c, <1>3 DEF Disjoint
<1>7. Chain'
  BY <1>c, <1>3, <1>4, <1>5 DEF Chain
<1>8. Readers' /\ Scans'
  BY <1>b, <1>c DEF Readers, ReaderOf, Reading, Scans
<1>9. InList' = {}
  BY <1>c DEF InList, Closed
<1>10. QED
  BY <1>1, <1>2, <1>4, <1>6, <1>7, <1>8, <1>9 DEF QueueInv, SafeInv, AllReached

LEMMA StepInv ==
    ASSUME Constants, QueueInv, NEW t \in Threads, StepOf(t)
    PROVE  QueueInv'
<1>a. Types /\ Control /\ Disjoint /\ Chain /\ Readers /\ Scans /\ SafeInv
  BY DEF QueueInv, SafeInv
<1>1. Types' /\ Control'
  BY <1>a, StepTypes, StepControl
<1>2. Disjoint' /\ Chain'
  BY <1>a, StepChain
<1>3. \A u \in Threads : ReaderOf(u)'
  BY <1>a, OtherReaders, OwnReader
<1>4. Readers'
  BY <1>3 DEF Readers
<1>5. Scans'
  BY <1>a, StepScans
<1>6. AllReached'
  BY <1>1, <1>2, StepReaches
<1>7. QED
  BY <1>1, <1>2, <1>4, <1>5, <1>6 DEF QueueInv, SafeInv

LEMMA StutterInv ==
    ASSUME QueueInv, UNCHANGED vars
    PROVE  QueueInv'
<1> USE DEF vars, listVars, hazardVars, freeVars, scanVars, boundVars
<1>1. Types' /\ Control'
  BY DEF QueueInv, SafeInv, Types, TypeOK, Control, ControlOf
<1>2. InChain' = InChain /\ Gone' = Gone /\ InList' = InList
  BY DEF InChain, Gone, InList, Closed, Owned, Unlinked, Dequeued
<1>3. Disjoint' /\ Chain' /\ AllReached'
  BY SMTT(20), <1>2 DEF QueueInv, SafeInv, Disjoint, Chain, AllReached, Owned, Unlinked, Dequeued
<1>4. Readers' /\ Scans'
  BY <1>2 DEF QueueInv, SafeInv, Readers, ReaderOf, Scans, WillSee, InUse
<1>5. QED
  BY <1>1, <1>3, <1>4 DEF QueueInv, SafeInv

(* The invariant the other theorems rest on: each node has one owner, the    *)
(* list is a chain from mHead that the destructor walks whole, and a scan    *)
(* sees the hazard pointer of every node in use.                            *)
THEOREM SpecQueueInv == Spec => []QueueInv
<1>1. Init => QueueInv
  BY InitInv, ConstantsHold
<1>2. QueueInv /\ [Next]_vars => QueueInv'
  <2> SUFFICES ASSUME QueueInv, [Next]_vars PROVE QueueInv'
    OBVIOUS
  <2>1. ASSUME NEW t \in Threads, StepOf(t) PROVE QueueInv'
    BY <2>1, StepInv, ConstantsHold
  <2>2. CASE Destroy
    BY <2>2, DestroyInv, ConstantsHold
  <2>3. CASE UNCHANGED vars
    BY <2>3, StutterInv
  <2>4. QED
    BY <2>1, <2>2, <2>3 DEF Next, StepOf
<1>3. QED
  BY <1>1, <1>2, PTL DEF Spec

(* Every variable keeps its type; retireCount wraps where Retire resets it.  *)
THEOREM QueueTypes == Spec => []TypeOK
<1>1. QueueInv => TypeOK
  BY DEF QueueInv, SafeInv, Types
<1>2. QED
  BY <1>1, SpecQueueInv, PTL

(* No thread follows a pointer to a node that ScanRetired or the destructor *)
(* has deleted, or that new has handed out again.                           *)
THEOREM NodesInUseAreNotFreed == Spec => []NoUseAfterFree
<1>1. QueueInv => NoUseAfterFree
  <2> SUFFICES ASSUME QueueInv, NEW t \in Threads, NEW n \in InUse(t) PROVE n \notin heap
    BY DEF NoUseAfterFree
  <2>1. n \in InChain \cup Gone
    BY NodesInUse DEF QueueInv, SafeInv
  <2>2. QED
    BY <2>1 DEF QueueInv, SafeInv, InChain, Gone, Disjoint, Owned
<1>2. QED
  BY <1>1, SpecQueueInv, PTL

(* Every node is in exactly one place: none is lost and none freed twice.    *)
THEOREM EveryNodeHasOneOwner == Spec => []OneOwner
<1>1. QueueInv => OneOwner
  <2> SUFFICES ASSUME QueueInv, NEW n \in Nodes
               PROVE  Cardinality({p \in DOMAIN Common : n \in Common[p]})
                      + Cardinality({t \in Threads : n \in Unlinked(t) \cup Dequeued(t) \cup list[t]})
                      = 1
    BY DEF OneOwner
  <2> DEFINE P == {p \in DOMAIN Common : n \in Common[p]}
             T == {t \in Threads : n \in Unlinked(t) \cup Dequeued(t) \cup list[t]}
  <2> SUFFICES Cardinality(P) + Cardinality(T) = 1
    OBVIOUS
  <2>a. Disjoint /\ InList = InChain /\ T = {t \in Threads : n \in Owned(t)}
    BY DEF QueueInv, SafeInv, AllReached, Owned
  <2>b. /\ P \subseteq {"linked", "retired", "deleted"}
        /\ "linked" \in P <=> n \in InChain
        /\ "retired" \in P <=> n \in retired
        /\ "deleted" \in P <=> n \in heap
    BY <2>a DEF Common
  <2>c. Cardinality({}) = 0 /\ \A x : Cardinality({x}) = 1
    BY FS_EmptySet, FS_Singleton
  <2> HIDE DEF P, T
  <2>1. CASE \E t \in Threads : n \in Owned(t)
    <3>1. PICK t \in Threads : n \in Owned(t)
      BY <2>1
    <3>2. T = {t} /\ P = {}
      BY <2>a, <2>b, <3>1 DEF Disjoint, InChain
    <3>3. Cardinality(T) = 1 /\ Cardinality(P) = 0
      BY <2>c, <3>2
    <3>4. QED
      BY <3>3
  <2>2. CASE \A t \in Threads : n \notin Owned(t)
    <3>1. T = {}
      BY <2>2, <2>a
    <3>2. PICK p : P = {p}
      <4>1. CASE n \in heap
        <5>1. P = {"deleted"}
          BY <2>a, <2>b, <4>1 DEF Disjoint, InChain
        <5>2. QED
          BY <5>1
      <4>2. CASE n \in retired
        <5>1. P = {"retired"}
          BY <2>a, <2>b, <4>2 DEF Disjoint, InChain
        <5>2. QED
          BY <5>1
      <4>3. CASE n \notin heap \cup retired
        <5>1. P = {"linked"}
          BY <2>2, <2>b, <4>3 DEF InChain
        <5>2. QED
          BY <5>1
      <4>4. QED
        BY <4>1, <4>2, <4>3
    <3>3. Cardinality(T) = 0 /\ Cardinality(P) = 1
      BY <2>c, <3>1, <3>2
    <3>4. QED
      BY <3>3
  <2>3. QED
    BY <2>1, <2>2
<1>2. QED
  BY <1>1, SpecQueueInv, PTL

-----------------------------------------------------------------------------
(* The counter.                                                             *)

LEMMA CardinalityChanges ==
    ASSUME NEW S, IsFiniteSet(S), NEW x
    PROVE  /\ Cardinality(S) \in Nat
           /\ x \notin S => Cardinality(S \cup {x}) = Cardinality(S) + 1
           /\ x \in S => Cardinality(S \ {x}) = Cardinality(S) - 1
BY FS_AddElement, FS_RemoveElement, FS_CardinalityType

LEMMA AreFinite ==
    IsFiniteSet(InChain) /\ IsFiniteSet(ToAdd) /\ IsFiniteSet(ToSubtract)
<1>1. InChain \subseteq Nodes /\ ToAdd \subseteq Threads /\ ToSubtract \subseteq Threads
  BY DEF InChain, ToAdd, ToSubtract
<1>2. QED
  BY <1>1, QueueAssumption, FS_Subset

LEMMA OtherCounts ==
    ASSUME NEW t \in Threads, OthersSame(t)
    PROVE  /\ ToAdd' \ {t} = ToAdd \ {t} /\ ToSubtract' \ {t} = ToSubtract \ {t}
BY DEF OthersSame, Same, ToAdd, ToSubtract

(* Most steps neither count nor leave something to count. *)
Uncounting(t) ==
    /\ t \in ToAdd' <=> t \in ToAdd
    /\ t \in ToSubtract' <=> t \in ToSubtract
    /\ size' = size

LEMMA OwnCount ==
    ASSUME Types, Control, NEW t \in Threads, StepOf(t), ~CountStep(t),
           ~(Link(t) /\ LinkFits(t)), ~(Unlink(t) /\ head = ptr[t])
    PROVE  Uncounting(t)
<1> USE DEF Uncounting, ToAdd, ToSubtract, Types, ControlOf, DequeueSteps, EnqueueSteps, Starting,
            Scanning
<1>a. ControlOf(t)
  BY DEF Control
<1>1. CASE Load(t)
  BY <1>1, <1>a DEF Load, Goto, Source
<1>2. CASE Publish(t)
  BY <1>2, <1>a DEF Publish, Goto
<1>3. CASE Validate(t)
  BY <1>3, <1>a DEF Validate, Goto
<1>4. CASE LoadNext(t)
  BY <1>4, <1>a DEF LoadNext, Goto
<1>5. CASE RecheckTail(t)
  BY <1>5, <1>a DEF RecheckTail, Goto, Retry
<1>6. CASE Link(t)
  BY <1>6, <1>a DEF Link, Goto, Retry
<1>7. CASE Swing(t)
  BY <1>7, <1>a DEF Swing, Goto, CasTail
<1>8. CASE HelpTail(t)
  BY <1>8, <1>a DEF HelpTail, Goto, Retry, CasTail
<1>9. CASE StoreSecond(t)
  BY <1>9, <1>a DEF StoreSecond, Goto
<1>10. CASE RecheckHead(t)
  BY <1>10, <1>a DEF RecheckHead, Goto, Retry
<1>11. CASE LoadTail(t)
  BY <1>11, <1>a DEF LoadTail, Goto
<1>12. CASE CopyValue(t)
  BY <1>12, <1>a DEF CopyValue, Goto
<1>13. CASE Unlink(t)
  BY <1>13, <1>a DEF Unlink, Goto, Retry
<1>14. CASE ClearHazards(t)
  BY <1>14, <1>a DEF ClearHazards, Goto, Return
<1>15. CASE Retire(t)
  BY <1>15, <1>a DEF Retire, Goto
<1>16. CASE CountRetired(t)
  BY <1>16, <1>a DEF CountRetired, Goto, Return, NextCount
<1>17. CASE TakeRetired(t)
  BY <1>17, <1>a DEF TakeRetired, Goto, Return
<1>18. CASE LoadHazards(t)
  BY <1>18, <1>a DEF LoadHazards, Goto
<1>19. CASE ReadFirst(t)
  BY <1>19, <1>a DEF ReadFirst, Goto, Saw
<1>20. CASE ReadSecond(t)
  BY <1>20, <1>a DEF ReadSecond, Goto, Saw
<1>21. CASE Delete(t)
  BY <1>21, <1>a DEF Delete, Goto, Kept
<1>22. CASE PutBack(t)
  BY <1>22, <1>a DEF PutBack
<1>23. CASE ScanDone(t)
  BY <1>23, <1>a DEF ScanDone, Goto, Return
<1>24. CASE TryDequeue(t)
  BY <1>24, <1>a DEF TryDequeue, Goto
<1>25. ASSUME NEW v \in Values, Enqueue(t, v) PROVE Uncounting(t)
  BY <1>25, <1>a DEF Enqueue, Goto
<1>26. QED
  BY <1>1, <1>2, <1>3, <1>4, <1>5, <1>6, <1>7, <1>8, <1>9, <1>10, <1>11, <1>12, <1>13, <1>14,
     <1>15, <1>16, <1>17, <1>18, <1>19, <1>20, <1>21, <1>22, <1>23, <1>24, <1>25 DEF StepOf,
     Continue

LEMMA StepSize ==
    ASSUME QueueInv, SizeInv, NEW t \in Threads, StepOf(t)
    PROVE  SizeInv'
<1>a. Types /\ Control /\ Disjoint /\ Chain /\ Scans /\ SafeInv /\ ReaderOf(t) /\ ControlOf(t)
      /\ OthersSame(t) /\ size \in Int /\ head # NULL
  BY StepIsOfOne, StepStands, ConstantsHold
     DEF QueueInv, SafeInv, Readers, Control, Types, TypeOK
<1>b. ToAdd' \ {t} = ToAdd \ {t} /\ ToSubtract' \ {t} = ToSubtract \ {t}
  BY <1>a, OtherCounts
<1> DEFINE C == Cardinality(InChain)
           A == Cardinality(ToAdd)
           S == Cardinality(ToSubtract)
<1>c. C \in Nat /\ A \in Nat /\ S \in Nat /\ size + A = C - 1 + S
  BY <1>a, AreFinite, FS_CardinalityType DEF SizeInv
<1>1. CASE Link(t) /\ LinkFits(t)
  <2>1. InChain' = InChain \cup {node[t]} /\ node[t] \notin InChain
    BY <1>1, <1>a, LinkMoves, NewIsApart
  <2>2. op[t] = "enqueue" /\ pc[t] = "link" /\ op' = op /\ pc'[t] = "swing" /\ size' = size
    BY <1>1, <1>a DEF Link, Goto, Types, ControlOf, DequeueSteps, Starting, Scanning
  <2>3. ToAdd' = ToAdd \cup {t} /\ t \notin ToAdd /\ ToSubtract' = ToSubtract
    BY <1>b, <2>2 DEF ToAdd, ToSubtract
  <2>4. Cardinality(InChain') = C + 1 /\ Cardinality(ToAdd') = A + 1 /\ Cardinality(ToSubtract') = S
    BY <2>1, <2>3, AreFinite, CardinalityChanges
  <2>5. QED
    BY <1>a, <1>c, <2>2, <2>4 DEF SizeInv
<1>2. CASE Unlink(t) /\ head = ptr[t]
  <2>1. InChain' = InChain \ {head} /\ head \in InChain
    BY <1>2, <1>a, UnlinkMoves
  <2>2. op[t] = "dequeue" /\ pc[t] = "unlink" /\ op' = op /\ pc'[t] = "count" /\ size' = size
    BY <1>2, <1>a DEF Unlink, Goto, Types, ControlOf, EnqueueSteps, Starting
  <2>3. ToAdd' = ToAdd /\ t \notin ToSubtract /\ ToSubtract' = ToSubtract \cup {t}
    BY <1>b, <2>2 DEF ToAdd, ToSubtract
  <2>4. Cardinality(InChain') = C - 1 /\ Cardinality(ToAdd') = A /\ Cardinality(ToSubtract') = S + 1
    BY <2>1, <2>3, AreFinite, CardinalityChanges
  <2>5. QED
    BY <1>a, <1>c, <2>2, <2>4 DEF SizeInv
<1>3. CASE CountStep(t)
  <2>1. InChain' = InChain
    BY <1>3, <1>a, QuietStepIsQuiet, QuietKeeps DEF QuietStep
  <2>2. pc[t] = "count" /\ pc'[t] = "clear" /\ op' = op /\ op[t] \in {"enqueue", "dequeue"}
    BY <1>3, <1>a DEF CountStep, Goto, Types, ControlOf
  <2>3. CASE op[t] = "enqueue"
    <3>1. ToAdd' = ToAdd \ {t} /\ t \in ToAdd /\ ToSubtract' = ToSubtract
      BY <1>b, <2>2, <2>3 DEF ToAdd, ToSubtract
    <3>2. Cardinality(ToAdd') = A - 1 /\ size' = size + 1
      BY <1>3, <2>3, <3>1, AreFinite, CardinalityChanges DEF CountStep, Count
    <3>3. Cardinality(InChain') = C /\ Cardinality(ToSubtract') = S
      BY <2>1, <3>1
    <3>4. QED
      BY <1>a, <1>c, <3>2, <3>3 DEF SizeInv
  <2>4. CASE op[t] = "dequeue"
    <3>1. ToAdd' = ToAdd /\ t \in ToSubtract /\ ToSubtract' = ToSubtract \ {t}
      BY <1>b, <2>2, <2>4 DEF ToAdd, ToSubtract
    <3>2. Cardinality(ToSubtract') = S - 1 /\ size' = size - 1
      BY <1>3, <2>4, <3>1, AreFinite, CardinalityChanges DEF CountStep, Count
    <3>3. Cardinality(InChain') = C /\ Cardinality(ToAdd') = A
      BY <2>1, <3>1
    <3>4. QED
      BY <1>a, <1>c, <3>2, <3>3 DEF SizeInv
  <2>5. QED
    BY <2>2, <2>3, <2>4
<1>4. CASE ~(Link(t) /\ LinkFits(t)) /\ ~(Unlink(t) /\ head = ptr[t]) /\ ~CountStep(t)
  <2>1. Uncounting(t)
    BY <1>4, <1>a, OwnCount
  <2>2. ToAdd' = ToAdd /\ ToSubtract' = ToSubtract /\ size' = size
    BY <1>b, <2>1 DEF Uncounting
  <2>3. InChain' = InChain
    BY <1>4, <1>a, StepKinds, QuietStepIsQuiet, QuietKeeps, EnqueueMoves, HandsOver, DeleteMoves,
       ConstantsHold
  <2>4. QED
    BY <1>a, <1>c, <2>2, <2>3 DEF SizeInv
<1>5. QED
  BY <1>1, <1>2, <1>3, <1>4

(* With nothing under way the counter is the number of items; while only     *)
(* consumers run, a counter of 0 or below means that none is left.          *)
THEOREM SizeCanBeTold == Spec => []SizeTells
<1>1. Init => SizeInv
  <2> SUFFICES ASSUME Init PROVE SizeInv
    OBVIOUS
  <2>1. PICK s \in Nodes : /\ head = s /\ size = 0 /\ retired = {} /\ heap = Nodes \ {s}
                          /\ op = [t \in Threads |-> "none"] /\ node = [t \in Threads |-> NULL]
                          /\ list = [t \in Threads |-> {}]
    BY DEF Init
  <2>2. InChain = {s} /\ ToAdd = {} /\ ToSubtract = {}
    BY <2>1 DEF InChain, ToAdd, ToSubtract, Owned, Unlinked, Dequeued
  <2>3. Cardinality(InChain) = 1 /\ Cardinality(ToAdd) = 0 /\ Cardinality(ToSubtract) = 0
    BY <2>2, FS_Singleton, FS_EmptySet
  <2>4. QED
    BY <2>1, <2>3 DEF SizeInv
<1>2. QueueInv /\ SizeInv /\ [Next]_vars => SizeInv'
  <2> SUFFICES ASSUME QueueInv, SizeInv, [Next]_vars PROVE SizeInv'
    OBVIOUS
  <2>1. ASSUME NEW t \in Threads, StepOf(t) PROVE SizeInv'
    BY <2>1, StepSize
  <2>2. CASE Destroy
    BY <2>2 DEF Destroy, SizeInv
  <2>3. CASE UNCHANGED vars
    BY <2>3 DEF vars, listVars, freeVars, scanVars, SizeInv, ToAdd, ToSubtract, InChain, Owned,
       Unlinked, Dequeued
  <2>4. QED
    BY <2>1, <2>2, <2>3 DEF Next, StepOf
<1>3. QueueInv /\ SizeInv => SizeTells
  <2> SUFFICES ASSUME QueueInv, SizeInv, head # NULL
               PROVE  /\ (size <= 0 /\ \A t \in Threads : op[t] # "enqueue") => InList = {head}
                      /\ (\A t \in Threads : op[t] = "none") => size = Cardinality(InList) - 1
    BY DEF SizeTells
  <2>1. InList = InChain /\ head \in InChain /\ size \in Int
    BY DEF QueueInv, SafeInv, AllReached, Chain, Types, TypeOK
  <2>2. PICK c \in Nat, a \in Nat, s \in Nat :
          /\ c = Cardinality(InChain) /\ a = Cardinality(ToAdd) /\ s = Cardinality(ToSubtract)
          /\ size + a = c - 1 + s
    BY AreFinite, FS_CardinalityType DEF SizeInv
  <2>3. CASE \A t \in Threads : op[t] # "enqueue"
    <3>1. ToAdd = {} /\ a = 0
      BY <2>2, <2>3, FS_EmptySet DEF ToAdd
    <3>2. size <= 0 => c <= 1
      BY <2>1, <2>2, <3>1
    <3>3. c <= 1 => InChain = {head}
      <4>1. c # 0
        BY <2>1, <2>2, AreFinite, FS_EmptySet
      <4>2. ASSUME c = 1 PROVE InChain = {head}
        <5>1. PICK x : InChain = {x}
          BY <2>2, <4>2, AreFinite, FS_Singleton
        <5>2. QED
          BY <2>1, <5>1
      <4>3. QED
        BY <2>2, <4>1, <4>2
    <3>4. (\A t \in Threads : op[t] = "none") => s = 0
      BY <2>2, FS_EmptySet DEF ToSubtract
    <3>5. (\A t \in Threads : op[t] = "none") => size = c - 1
      BY <2>1, <2>2, <3>1, <3>4
    <3>6. QED
      BY <2>1, <2>2, <3>2, <3>3, <3>5
  <2>4. CASE \E t \in Threads : op[t] = "enqueue"
    BY <2>4
  <2>5. QED
    BY <2>3, <2>4
<1>4. QED
  BY <1>1, <1>2, <1>3, SpecQueueInv, PTL DEF Spec

-----------------------------------------------------------------------------
(* Paths along the next pointers.                                           *)

(* Every set of numbers has a least one. *)
LEMMA LeastNumber ==
    ASSUME NEW T \in SUBSET Nat, T # {}
    PROVE  \E n \in T : \A m \in T : n <= m
<1> DEFINE R == {p \in Nat \X Nat : p[1] < p[2]}
<1>1. IsWellFoundedOn(R, Nat)
  BY NatLessThanWellFounded DEF OpToRel
<1>2. \E n \in T : \A m \in T : ~(<<m, n>> \in R)
  <2> HIDE DEF R
  <2>1. QED
    BY <1>1, WFMin
<1>3. PICK n \in T : \A m \in T : ~(<<m, n>> \in R)
  BY <1>2
<1>4. ASSUME NEW m \in T PROVE n <= m
  <2>1. m \in Nat /\ n \in Nat /\ <<m, n>> \in Nat \X Nat /\ <<m, n>> \notin R
    BY <1>3
  <2>2. ~(m < n)
    BY <2>1
  <2>3. QED
    BY <2>1, <2>2
<1>5. QED
  BY <1>4

LEMMA PathsAgree ==
    ASSUME NULL \notin Nodes, NEW s \in Seq(Nodes), NEW u \in Seq(Nodes), NEW from, NEW link,
           IsPath(s, from, link), IsPath(u, from, link)
    PROVE  \A i \in 1 .. Len(s) : i \in 1 .. Len(u) /\ s[i] = u[i]
<1>a. Len(s) \in Nat \ {0} /\ Len(u) \in Nat \ {0} /\ s[1] = from /\ u[1] = from
  BY DEF IsPath
<1>b. /\ \A i \in 1 .. Len(s) : s[i] \in Nodes /\ s[i] # NULL
      /\ \A i \in 1 .. Len(u) : u[i] \in Nodes /\ u[i] # NULL
  OBVIOUS
<1>c. /\ \A i \in 1 .. Len(s) : link[s[i]] = IF i = Len(s) THEN NULL ELSE s[i + 1]
      /\ \A i \in 1 .. Len(u) : link[u[i]] = IF i = Len(u) THEN NULL ELSE u[i + 1]
  BY DEF IsPath
<1> DEFINE Apart == {i \in 1 .. Len(s) : ~(i \in 1 .. Len(u) /\ s[i] = u[i])}
<1>1. SUFFICES ASSUME Apart # {} PROVE FALSE
  OBVIOUS
<1>2. Apart \in SUBSET Nat
  BY <1>a
<1>3. PICK n \in Apart : \A m \in Apart : n <= m
  BY <1>1, <1>2, LeastNumber
<1>4. n \in 1 .. Len(s) /\ n # 1 /\ ~(n \in 1 .. Len(u) /\ s[n] = u[n])
  BY <1>3, <1>a
<1> HIDE DEF Apart
<1>5. PICK k \in 1 .. Len(s) : k + 1 = n
  BY <1>4, <1>a
<1>6. k \notin Apart
  BY <1>3, <1>4, <1>5, <1>a
<1>7. k \in 1 .. Len(u) /\ s[k] = u[k]
  BY <1>5, <1>6 DEF Apart
<1>8. link[s[k]] = s[n] /\ k # Len(s)
  BY <1>4, <1>5, <1>a, <1>c
<1>9. k # Len(u)
  BY <1>7, <1>8, <1>4, <1>b, <1>c
<1>10. link[u[k]] = u[n] /\ n \in 1 .. Len(u)
  BY <1>5, <1>7, <1>9, <1>a, <1>c
<1>11. QED
  BY <1>4, <1>7, <1>8, <1>10

LEMMA PathIsUnique ==
    ASSUME NULL \notin Nodes, NEW s \in Seq(Nodes), NEW u \in Seq(Nodes), NEW from, NEW link,
           IsPath(s, from, link), IsPath(u, from, link)
    PROVE  s = u
<1>1. \A i \in 1 .. Len(s) : i \in 1 .. Len(u) /\ s[i] = u[i]
  BY PathsAgree
<1>2. \A i \in 1 .. Len(u) : i \in 1 .. Len(s) /\ u[i] = s[i]
  BY PathsAgree
<1>3. Len(s) \in Nat /\ Len(u) \in Nat
  OBVIOUS
<1>4. Len(s) = Len(u)
  BY <1>1, <1>2, <1>3
<1>5. QED
  BY <1>1, <1>4

(* A path through distinct nodes is no longer than there are nodes. *)
LEMMA DistinctInPaths ==
    ASSUME IsFiniteSet(Nodes), NEW s \in Seq(Nodes), s # <<>>, Distinct(s)
    PROVE  s \in Paths
<1>1. Len(s) \in Nat \ {0} /\ s \in [1 .. Len(s) -> Nodes]
  BY LenProperties
<1>2. s \in Injection(1 .. Len(s), Nodes)
  BY <1>1 DEF Distinct, Injection, IsInjective
<1>3. Cardinality(1 .. Len(s)) <= Cardinality(Nodes)
  BY <1>2, FS_Injection
<1>4. Cardinality(1 .. Len(s)) = Len(s) /\ Cardinality(Nodes) \in Nat
  BY <1>1, FS_Interval, FS_CardinalityType
<1>5. Len(s) \in 1 .. Cardinality(Nodes)
  BY <1>1, <1>3, <1>4
<1>6. QED
  BY <1>1, <1>5 DEF Paths

LEMMA PathsAreSequences ==
    ASSUME IsFiniteSet(Nodes), NEW s \in Paths
    PROVE  s \in Seq(Nodes)
<1>1. Cardinality(Nodes) \in Nat
  BY FS_CardinalityType
<1>2. PICK k \in 1 .. Cardinality(Nodes) : s \in [1 .. k -> Nodes]
  BY DEF Paths
<1>3. k \in Nat
  BY <1>1
<1>4. QED
  BY <1>2, <1>3, SeqDef

LEMMA PathIs ==
    ASSUME IsFiniteSet(Nodes), NULL \notin Nodes, NEW s \in Seq(Nodes), NEW from, NEW link,
           IsPath(s, from, link), Distinct(s)
    PROVE  PathFrom(from, link) = s
<1>1. s \in Paths
  BY DistinctInPaths DEF IsPath
<1> DEFINE u == PathFrom(from, link)
<1>2. u \in Paths /\ IsPath(u, from, link)
  BY <1>1 DEF PathFrom
<1>3. u \in Seq(Nodes)
  BY <1>2, PathsAreSequences
<1> HIDE DEF u
<1>4. u = s
  BY <1>2, <1>3, PathIsUnique
<1>5. QED
  BY <1>4 DEF u

(* A node linked behind the last one, the first one taken away, or other     *)
(* nodes changed.                                                           *)
LEMMA PathGrows ==
    ASSUME NULL \notin Nodes, NEW s \in Seq(Nodes), NEW from, NEW link, NEW new,
           IsPath(s, from, link), Distinct(s), NEW p \in Elems(s), link[p] = NULL,
           NEW n \in Nodes, n \notin Elems(s), new[p] = n, new[n] = NULL,
           \A m \in Elems(s) : m # p => new[m] = link[m]
    PROVE  /\ Append(s, n) \in Seq(Nodes) /\ IsPath(Append(s, n), from, new)
           /\ Distinct(Append(s, n)) /\ Elems(Append(s, n)) = Elems(s) \cup {n}
<1> DEFINE u == Append(s, n)
<1>a. s # <<>> /\ s[1] = from
      /\ \A i \in 1 .. Len(s) : link[s[i]] = IF i = Len(s) THEN NULL ELSE s[i + 1]
  BY DEF IsPath
<1>b. Len(s) \in Nat \ {0} /\ DOMAIN s = 1 .. Len(s) /\ \A i \in 1 .. Len(s) : s[i] \in Nodes
  BY <1>a
<1>c. /\ u \in Seq(Nodes) /\ Len(u) = Len(s) + 1 /\ DOMAIN u = 1 .. Len(s) + 1
      /\ u[Len(s) + 1] = n /\ \A i \in 1 .. Len(s) : u[i] = s[i]
  BY <1>b
<1> HIDE DEF u
<1>d. \A i \in 1 .. Len(s) + 1 : i \in 1 .. Len(s) \/ i = Len(s) + 1
  BY <1>b
<1>e. \A i \in 1 .. Len(s) : s[i] \in Elems(s)
  BY <1>b DEF Elems
<1>1. PICK l \in 1 .. Len(s) : s[l] = p
  BY <1>b DEF Elems
<1>2. l = Len(s)
  <2>1. SUFFICES ASSUME l # Len(s) PROVE FALSE
    OBVIOUS
  <2>2. l + 1 \in 1 .. Len(s)
    <3>1. PICK k \in Nat : k = Len(s)
      BY <1>b
    <3>2. l \in 1 .. k /\ l # k
      BY <2>1, <3>1
    <3>3. QED
      BY <3>1, <3>2
  <2>3. link[s[l]] = s[l + 1] /\ s[l + 1] \in Nodes
    BY <2>1, <2>2, <1>a, <1>b
  <2>4. QED
    BY <2>3, <1>1
<1>3. ASSUME NEW i \in 1 .. Len(u)
      PROVE  new[u[i]] = IF i = Len(u) THEN NULL ELSE u[i + 1]
  <2>1. CASE i = Len(s) + 1
    BY <2>1, <1>c
  <2>2. CASE i = Len(s)
    <3>1. u[i] = p /\ u[i + 1] = n /\ i # Len(u)
      BY <2>2, <1>1, <1>2, <1>b, <1>c
    <3>2. QED
      BY <3>1
  <2>3. CASE i \in 1 .. Len(s) /\ i # Len(s)
    <3>1. i + 1 \in 1 .. Len(s) /\ i # Len(u)
      <4>1. PICK l0 \in Nat : l0 = Len(s)
        BY <1>b
      <4>2. i \in 1 .. l0 /\ i # l0 /\ Len(u) = l0 + 1
        BY <2>3, <4>1, <1>c
      <4>3. i + 1 \in 1 .. l0 /\ i # l0 + 1
        BY <4>2
      <4>4. QED
        BY <4>1, <4>2, <4>3
    <3>2. u[i] = s[i] /\ u[i + 1] = s[i + 1] /\ s[i] \in Elems(s) /\ link[s[i]] = s[i + 1]
      BY <2>3, <3>1, <1>a, <1>c, <1>e
    <3>3. s[i] # p
      BY <2>3, <1>1, <1>2 DEF Distinct
    <3>4. QED
      BY <3>1, <3>2, <3>3
  <2>4. QED
    BY <2>1, <2>2, <2>3, <1>c, <1>d
<1>4. IsPath(u, from, new)
  <2>1. 1 \in 1 .. Len(s) /\ Len(u) # 0
    BY <1>b, <1>c
  <2>2. u # <<>> /\ u[1] = from
    BY <2>1, <1>a, <1>c
  <2>3. QED
    BY <2>2, <1>3 DEF IsPath
<1>5. Distinct(u)
  <2>1. ASSUME NEW i \in 1 .. Len(s) + 1, NEW j \in 1 .. Len(s) + 1, u[i] = u[j] PROVE i = j
    <3>1. CASE i \in 1 .. Len(s) /\ j \in 1 .. Len(s)
      BY <2>1, <3>1, <1>c DEF Distinct
    <3>2. CASE i = Len(s) + 1 /\ j \in 1 .. Len(s)
      BY <2>1, <3>2, <1>c, <1>e
    <3>3. CASE j = Len(s) + 1 /\ i \in 1 .. Len(s)
      BY <2>1, <3>3, <1>c, <1>e
    <3>4. QED
      BY <3>1, <3>2, <3>3, <1>d
  <2>2. QED
    BY <2>1, <1>c DEF Distinct
<1>6. Elems(u) = Elems(s) \cup {n}
  <2>1. ASSUME NEW x \in Elems(u) PROVE x \in Elems(s) \cup {n}
    <3>1. PICK i \in 1 .. Len(s) + 1 : x = u[i]
      BY <1>c DEF Elems
    <3>2. QED
      BY <3>1, <1>c, <1>d, <1>e
  <2>2. ASSUME NEW x \in Elems(s) PROVE x \in Elems(u)
    <3>1. PICK i \in 1 .. Len(s) : x = s[i]
      BY <1>b DEF Elems
    <3>2. i \in DOMAIN u /\ u[i] = x
      BY <3>1, <1>b, <1>c
    <3>3. QED
      BY <3>2 DEF Elems
  <2>3. n \in Elems(u)
    <3>1. Len(s) + 1 \in DOMAIN u
      BY <1>b, <1>c
    <3>2. QED
      BY <3>1, <1>c DEF Elems
  <2>4. QED
    BY <2>1, <2>2, <2>3
<1>7. QED
  BY <1>c, <1>4, <1>5, <1>6 DEF u

LEMMA PathShrinks ==
    ASSUME NULL \notin Nodes, NEW s \in Seq(Nodes), NEW from, NEW link,
           IsPath(s, from, link), Distinct(s), link[from] # NULL
    PROVE  /\ Tail(s) \in Seq(Nodes) /\ IsPath(Tail(s), link[from], link) /\ Distinct(Tail(s))
           /\ Elems(Tail(s)) = Elems(s) \ {from} /\ Len(s) > 1 /\ s[2] = link[from]
<1> DEFINE u == Tail(s)
<1>a. s # <<>> /\ s[1] = from
      /\ \A i \in 1 .. Len(s) : link[s[i]] = IF i = Len(s) THEN NULL ELSE s[i + 1]
  BY DEF IsPath
<1>b. Len(s) \in Nat /\ Len(s) > 1 /\ s[2] = link[from] /\ DOMAIN s = 1 .. Len(s)
  BY <1>a
<1>c. u \in Seq(Nodes) /\ Len(u) = Len(s) - 1 /\ DOMAIN u = 1 .. Len(s) - 1
      /\ \A i \in 1 .. Len(s) - 1 : u[i] = s[i + 1]
  BY <1>b
<1> HIDE DEF u
<1>1. IsPath(u, link[from], link)
  <2>1. u # <<>> /\ u[1] = link[from]
    BY <1>b, <1>c
  <2>2. ASSUME NEW i \in 1 .. Len(u)
        PROVE  link[u[i]] = IF i = Len(u) THEN NULL ELSE u[i + 1]
    <3>1. i + 1 \in 1 .. Len(s) /\ u[i] = s[i + 1] /\ (i = Len(u) <=> i + 1 = Len(s))
      BY <1>b, <1>c
    <3>2. i # Len(u) => u[i + 1] = s[(i + 1) + 1]
      <4>1. PICK k \in Nat : k = Len(s)
        BY <1>b
      <4>2. i \in 1 .. k - 1 /\ Len(u) = k - 1
        BY <4>1, <1>c
      <4>3. i # Len(u) => i + 1 \in 1 .. k - 1
        BY <4>1, <4>2
      <4>4. QED
        BY <4>1, <4>3, <1>c
    <3>3. QED
      BY <3>1, <3>2, <1>a
  <2>3. QED
    BY <2>1, <2>2 DEF IsPath
<1>2. Distinct(u)
  <2>1. ASSUME NEW i \in 1 .. Len(u), NEW j \in 1 .. Len(u), u[i] = u[j] PROVE i = j
    <3>1. i + 1 \in 1 .. Len(s) /\ j + 1 \in 1 .. Len(s) /\ s[i + 1] = s[j + 1]
      BY <2>1, <1>b, <1>c
    <3>2. i + 1 = j + 1
      BY <3>1 DEF Distinct
    <3>3. QED
      BY <3>2, <1>b, <1>c
  <2>2. QED
    BY <2>1 DEF Distinct
<1>3. Elems(u) = Elems(s) \ {from}
  <2>1. ASSUME NEW x \in Elems(u) PROVE x \in Elems(s) /\ x # from
    <3>1. PICK i \in 1 .. Len(s) - 1 : x = u[i]
      BY <1>c DEF Elems
    <3>2. i + 1 \in 1 .. Len(s) /\ i + 1 # 1 /\ 1 \in 1 .. Len(s) /\ x = s[i + 1]
      BY <3>1, <1>b, <1>c
    <3>3. s[i + 1] # s[1]
      BY <3>2 DEF Distinct
    <3>4. QED
      BY <3>2, <3>3, <1>a, <1>b DEF Elems
  <2>2. ASSUME NEW x \in Elems(s), x # from PROVE x \in Elems(u)
    <3>1. PICK i \in 1 .. Len(s) : x = s[i]
      BY <1>b DEF Elems
    <3>2. PICK k \in 1 .. Len(s) - 1 : k + 1 = i
      <4>1. i # 1
        BY <2>2, <3>1, <1>a
      <4>2. i - 1 \in 1 .. Len(s) - 1 /\ (i - 1) + 1 = i
        BY <4>1, <1>b
      <4>3. QED
        BY <4>2
    <3>3. k \in DOMAIN u /\ u[k] = x
      BY <3>1, <3>2, <1>c
    <3>4. QED
      BY <3>3 DEF Elems
  <2>3. QED
    BY <2>1, <2>2
<1>4. QED
  BY <1>b, <1>c, <1>1, <1>2, <1>3 DEF u

LEMMA PathKept ==
    ASSUME NEW s \in Seq(Nodes), NEW from, NEW link, NEW new, IsPath(s, from, link),
           \A m \in Elems(s) : new[m] = link[m]
    PROVE  IsPath(s, from, new)
<1>1. \A i \in 1 .. Len(s) : s[i] \in Elems(s)
  BY DEF Elems
<1>2. QED
  BY <1>1 DEF IsPath

(* What that does to the items.                                             *)
LEMMA ItemsGrow ==
    ASSUME NEW s \in Seq(Nodes), s # <<>>, NEW n \in Nodes, NEW of \in [Nodes -> Values \cup {NULL}]
    PROVE  ItemsOf(Append(s, n), of) = Append(ItemsOf(s, of), of[n])
<1>1. Len(s) \in Nat \ {0}
  OBVIOUS
<1> DEFINE u == Append(s, n)
           a == ItemsOf(s, of)
           b == ItemsOf(u, of)
<1>2. Len(u) = Len(s) + 1 /\ u[Len(s) + 1] = n /\ \A i \in 1 .. Len(s) : u[i] = s[i]
  BY <1>1
<1>3. a \in Seq(Values \cup {NULL}) /\ Len(a) = Len(s) - 1
      /\ \A i \in 1 .. Len(s) - 1 : a[i] = of[s[i + 1]]
  BY <1>1 DEF ItemsOf
<1> HIDE DEF u
<1>4. b \in Seq(Values \cup {NULL}) /\ Len(b) = Len(s)
      /\ \A i \in 1 .. Len(s) : b[i] = of[u[i + 1]]
  <2>1. Len(u) - 1 = Len(s) /\ \A i \in 1 .. Len(s) : u[i + 1] \in Nodes
    BY <1>1, <1>2
  <2>2. b = [i \in 1 .. Len(s) |-> of[u[i + 1]]]
    BY <2>1 DEF ItemsOf
  <2>3. QED
    BY <1>1, <2>1, <2>2
<1> HIDE DEF a, b
<1>5. b[Len(s)] = of[n] /\ \A i \in 1 .. Len(s) - 1 : b[i] = a[i]
  <2>1. b[Len(s)] = of[n]
    BY <1>1, <1>2, <1>4
  <2>2. ASSUME NEW i \in 1 .. Len(s) - 1 PROVE b[i] = a[i]
    <3>1. i \in 1 .. Len(s) /\ i + 1 \in 1 .. Len(s)
      BY <1>1
    <3>2. u[i + 1] = s[i + 1]
      BY <3>1, <1>2
    <3>3. QED
      BY <3>1, <3>2, <1>3, <1>4
  <2>3. QED
    BY <2>1, <2>2
<1>6. Append(a, of[n]) \in Seq(Values \cup {NULL}) /\ Len(Append(a, of[n])) = Len(s)
      /\ Append(a, of[n])[Len(s)] = of[n]
      /\ \A i \in 1 .. Len(s) - 1 : Append(a, of[n])[i] = a[i]
  BY <1>1, <1>3
<1>7. b = Append(a, of[n])
  BY <1>1, <1>4, <1>5, <1>6
<1>8. QED
  BY <1>7 DEF a, b, u

LEMMA ItemsShrink ==
    ASSUME NEW s \in Seq(Nodes), Len(s) > 1, NEW of \in [Nodes -> Values \cup {NULL}]
    PROVE  /\ ItemsOf(Tail(s), of) = Tail(ItemsOf(s, of))
           /\ ItemsOf(s, of) # <<>> /\ Head(ItemsOf(s, of)) = of[s[2]]
<1>1. Len(s) \in Nat
  OBVIOUS
<1> DEFINE u == Tail(s)
           a == ItemsOf(s, of)
           b == ItemsOf(u, of)
<1>2. u \in Seq(Nodes) /\ Len(u) = Len(s) - 1 /\ \A i \in 1 .. Len(s) - 1 : u[i] = s[i + 1]
  BY <1>1
<1>3. a \in Seq(Values \cup {NULL}) /\ Len(a) = Len(s) - 1
      /\ \A i \in 1 .. Len(s) - 1 : a[i] = of[s[i + 1]]
  BY <1>1 DEF ItemsOf
<1> HIDE DEF u
<1>4. b \in Seq(Values \cup {NULL}) /\ Len(b) = Len(s) - 2
      /\ \A i \in 1 .. Len(s) - 2 : b[i] = of[u[i + 1]]
  BY <1>1, <1>2 DEF ItemsOf
<1> HIDE DEF a, b
<1>5. \A i \in 1 .. Len(s) - 2 : b[i] = a[i + 1]
  BY <1>1, <1>2, <1>3, <1>4
<1>6. a # <<>> /\ Head(a) = of[s[2]]
  BY <1>1, <1>3
<1>7. Tail(a) \in Seq(Values \cup {NULL}) /\ Len(Tail(a)) = Len(s) - 2
      /\ \A i \in 1 .. Len(s) - 2 : Tail(a)[i] = a[i + 1]
  BY <1>1, <1>3
<1>8. b = Tail(a)
  <2>1. Len(b) = Len(Tail(a)) /\ Len(b) \in Nat
    BY <1>1, <1>4, <1>7
  <2>2. \A i \in 1 .. Len(b) : b[i] = Tail(a)[i]
    BY <1>4, <1>5, <1>7
  <2>3. QED
    BY <2>1, <2>2, <1>4, <1>7
<1>9. QED
  BY <1>6, <1>8 DEF a, b, u

LEMMA ItemsKept ==
    ASSUME NEW s \in Seq(Nodes), NEW of, NEW now, \A m \in Elems(s) : now[m] = of[m]
    PROVE  ItemsOf(s, now) = ItemsOf(s, of)
<1>1. \A i \in 1 .. Len(s) - 1 : s[i + 1] \in Elems(s)
  BY DEF Elems
<1>2. QED
  BY <1>1 DEF ItemsOf

-----------------------------------------------------------------------------
(* The list as a sequence, and its items.                                   *)

(* A step that leaves the list and the values as they are.                  *)
ListStands ==
    /\ UNCHANGED <<next, head, value>> /\ InChain' = InChain
    /\ \A u \in Threads : Unlinked(u)' = Unlinked(u)

LEMMA QuietStands ==
    ASSUME NEW t \in Threads, QuietStep(t)
    PROVE  UNCHANGED value
<1> USE DEF listVars
<1>1. CASE Load(t) \/ Publish(t) \/ Validate(t) \/ LoadNext(t) \/ RecheckTail(t)
  BY <1>1 DEF Load, Publish, Validate, LoadNext, RecheckTail
<1>2. CASE Swing(t) \/ HelpTail(t) \/ StoreSecond(t) \/ RecheckHead(t) \/ LoadTail(t)
  BY <1>2 DEF Swing, HelpTail, StoreSecond, RecheckHead, LoadTail
<1>3. CASE CopyValue(t) \/ CountStep(t) \/ ClearHazards(t) \/ CountRetired(t) \/ LoadHazards(t)
  BY <1>3 DEF CopyValue, CountStep, ClearHazards, CountRetired, LoadHazards
<1>4. CASE ReadFirst(t) \/ ReadSecond(t) \/ ScanDone(t) \/ TryDequeue(t)
  BY <1>4 DEF ReadFirst, ReadSecond, ScanDone, TryDequeue
<1>5. CASE Link(t) \/ Unlink(t)
  BY <1>5 DEF Link, Unlink
<1>6. QED
  BY <1>1, <1>2, <1>3, <1>4, <1>5 DEF QuietStep

LEMMA ListKinds ==
    ASSUME SafeInv, NEW t \in Threads, StepOf(t)
    PROVE  \/ ListStands
           \/ \E v \in Values : Enqueue(t, v)
           \/ Link(t) /\ LinkFits(t)
           \/ Unlink(t) /\ head = ptr[t]
<1>a. Types /\ Control /\ Disjoint /\ Scans
  BY DEF SafeInv
<1>1. CASE QuietStep(t)
  <2>1. Quiet(t)
    BY <1>a, <1>1, QuietStepIsQuiet
  <2>2. InChain' = InChain /\ \A u \in Threads : Unlinked(u)' = Unlinked(u)
    BY <1>a, <2>1, QuietKeeps
  <2>3. QED
    BY <1>1, <2>1, <2>2, QuietStands DEF ListStands, Quiet
<1>2. CASE Retire(t) \/ TakeRetired(t) \/ PutBack(t)
  <2>1. InChain' = InChain /\ \A u \in Threads : Unlinked(u)' = Unlinked(u)
    BY <1>a, <1>2, HandsOver
  <2>2. QED
    BY <1>2, <2>1 DEF ListStands, Retire, TakeRetired, PutBack, listVars
<1>3. CASE Delete(t)
  <2>1. InChain' = InChain /\ \A u \in Threads : Unlinked(u)' = Unlinked(u)
    BY <1>a, <1>3, DeleteMoves
  <2>2. QED
    BY <1>3, <2>1 DEF ListStands, Delete, listVars
<1>4. QED
  BY <1>1, <1>2, <1>3, StepKinds

LEMMA ListStandsItems ==
    ASSUME ListStands
    PROVE  Items' = Items /\ (InOrder => InOrder')
<1>1. Linked' = Linked
  BY DEF ListStands, Linked
<1>2. Items' = Items
  BY <1>1 DEF ListStands, Items
<1>3. InOrder => InOrder'
  BY <1>1 DEF ListStands, InOrder
<1>4. QED
  BY <1>2, <1>3

(* The list as a sequence.                                                  *)
LEMMA ListIs ==
    ASSUME InOrder, head # NULL
    PROVE  \E s \in Seq(Nodes) : /\ s = Linked /\ s # <<>> /\ IsPath(s, head, next)
                                 /\ Distinct(s) /\ Elems(s) = InChain
BY DEF InOrder, IsPath

LEMMA ListBecomes ==
    ASSUME Constants, IsFiniteSet(Nodes), NEW s \in Seq(Nodes), IsPath(s, head', next'),
           Distinct(s), Elems(s) = InChain'
    PROVE  Linked' = s /\ InOrder'
<1>1. PathFrom(head', next') = s
  BY PathIs DEF Constants
<1>2. Linked' = s
  BY <1>1 DEF Linked
<1>3. QED
  BY <1>2 DEF InOrder

LEMMA EnqueueItems ==
    ASSUME Constants, IsFiniteSet(Nodes), Types, Control, Disjoint, InOrder,
           NEW t \in Threads, NEW v \in Values, Enqueue(t, v)
    PROVE  InOrder' /\ Items' = Items
<1>1. PICK n \in heap : next' = [next EXCEPT ![n] = NULL] /\ value' = [value EXCEPT ![n] = v]
  BY DEF Enqueue
<1>2. head # NULL /\ head' = head /\ InChain' = InChain
  BY EnqueueMoves DEF Enqueue
<1>3. PICK s \in Seq(Nodes) : /\ s = Linked /\ s # <<>> /\ IsPath(s, head, next)
                              /\ Distinct(s) /\ Elems(s) = InChain
  BY <1>2, ListIs
<1>4. \A m \in Elems(s) : next'[m] = next[m] /\ value'[m] = value[m]
  BY <1>1, <1>3 DEF InChain, Types, TypeOK
<1>5. IsPath(s, head, next')
  BY <1>3, <1>4, PathKept
<1>6. Linked' = s /\ InOrder'
  BY <1>2, <1>3, <1>5, ListBecomes
<1>7. ItemsOf(s, value') = ItemsOf(s, value)
  BY <1>4, ItemsKept
<1>8. Items' = Items
  BY <1>2, <1>3, <1>6, <1>7 DEF Items
<1>9. QED
  BY <1>6, <1>8

LEMMA LinkItems ==
    ASSUME Constants, IsFiniteSet(Nodes), Types, Control, Disjoint, Chain, InOrder,
           NEW t \in Threads, ReaderOf(t), Link(t), LinkFits(t)
    PROVE  InOrder' /\ Items' = Append(Items, value[node[t]])
<1>1. /\ ptr[t] \in InChain /\ node[t] \in Nodes /\ node[t] \in Unlinked(t)
      /\ InChain' = InChain \cup {node[t]}
      /\ next' = [next EXCEPT ![ptr[t]] = node[t]] /\ next[ptr[t]] = NULL
  BY LinkMoves
<1>2. PICK n \in Nodes : n = node[t]
  BY <1>1
<1>3. PICK p \in InChain : p = ptr[t]
  BY <1>1
<1>4. head # NULL /\ head' = head /\ value' = value
  BY DEF Link, Control
<1>5. PICK s \in Seq(Nodes) : /\ s = Linked /\ s # <<>> /\ IsPath(s, head, next)
                              /\ Distinct(s) /\ Elems(s) = InChain
  BY <1>4, ListIs
<1>6. n \notin InChain /\ next[n] = NULL
  BY <1>1, <1>2, NewIsApart DEF Chain
<1>7. /\ next'[p] = n /\ next[p] = NULL /\ next'[n] = NULL
      /\ \A m \in Elems(s) : m # p => next'[m] = next[m]
  BY <1>1, <1>2, <1>3, <1>5, <1>6 DEF InChain, Types, TypeOK
<1>8. /\ Append(s, n) \in Seq(Nodes) /\ IsPath(Append(s, n), head, next')
      /\ Distinct(Append(s, n)) /\ Elems(Append(s, n)) = Elems(s) \cup {n}
  <2>1. p \in Elems(s) /\ n \notin Elems(s) /\ NULL \notin Nodes
    BY <1>3, <1>5, <1>6 DEF Constants
  <2>2. QED
    BY <1>5, <1>7, <2>1, PathGrows
<1>9. Linked' = Append(s, n) /\ InOrder'
  <2>1. Elems(Append(s, n)) = InChain' /\ IsPath(Append(s, n), head', next')
    BY <1>1, <1>2, <1>4, <1>5, <1>8
  <2>2. QED
    BY <1>8, <2>1, ListBecomes
<1>10. ItemsOf(Append(s, n), value) = Append(ItemsOf(s, value), value[n])
  BY <1>5, ItemsGrow DEF Types, TypeOK
<1>11. Items' = Append(Items, value[node[t]])
  BY <1>2, <1>4, <1>5, <1>9, <1>10 DEF Items
<1>12. QED
  BY <1>9, <1>11

LEMMA UnlinkItems ==
    ASSUME Constants, IsFiniteSet(Nodes), Types, Control, Disjoint, Chain, InOrder,
           NEW t \in Threads, ReaderOf(t), Unlink(t), head = ptr[t]
    PROVE  /\ InOrder' /\ Items # <<>> /\ Items' = Tail(Items)
           /\ Head(Items) = value[nxt[t]] /\ nxt[t] = next[head]
<1>1. /\ head \in InChain /\ head' = next[head] /\ head' \in InChain
      /\ InChain' = InChain \ {head} /\ next' = next
  BY UnlinkMoves
<1>2. head # NULL /\ head' # NULL /\ value' = value /\ head' = nxt[t]
  BY <1>1 DEF Unlink, Control, Constants, InChain
<1>3. PICK s \in Seq(Nodes) : /\ s = Linked /\ s # <<>> /\ IsPath(s, head, next)
                              /\ Distinct(s) /\ Elems(s) = InChain
  BY <1>2, ListIs
<1>4. PICK h \in Nodes : h = head
  BY <1>1 DEF InChain
<1>5. /\ Tail(s) \in Seq(Nodes) /\ IsPath(Tail(s), next[h], next) /\ Distinct(Tail(s))
      /\ Elems(Tail(s)) = Elems(s) \ {h} /\ Len(s) > 1 /\ s[2] = next[h]
  <2>1. NULL \notin Nodes /\ IsPath(s, h, next) /\ next[h] # NULL
    BY <1>1, <1>2, <1>3, <1>4 DEF Constants
  <2>2. QED
    BY <1>3, <2>1, PathShrinks
<1>6. Linked' = Tail(s) /\ InOrder'
  <2>1. Elems(Tail(s)) = InChain' /\ IsPath(Tail(s), head', next')
    BY <1>1, <1>3, <1>4, <1>5
  <2>2. QED
    BY <1>5, <2>1, ListBecomes
<1>7. /\ ItemsOf(Tail(s), value) = Tail(ItemsOf(s, value))
      /\ ItemsOf(s, value) # <<>> /\ Head(ItemsOf(s, value)) = value[s[2]]
  BY <1>3, <1>5, ItemsShrink DEF Types, TypeOK
<1>8. Items = ItemsOf(s, value) /\ Items' = ItemsOf(Tail(s), value)
  BY <1>2, <1>3, <1>6 DEF Items
<1>9. QED
  BY <1>1, <1>2, <1>4, <1>5, <1>6, <1>7, <1>8

(* Where next is NULL behind mHead, there is no item.                       *)
LEMMA EmptyItems ==
    ASSUME Constants, InOrder, head # NULL, next[head] = NULL
    PROVE  Items = <<>>
<1>1. PICK s \in Seq(Nodes) : s = Linked /\ s # <<>> /\ IsPath(s, head, next)
  BY ListIs
<1>2. Len(s) \in Nat \ {0} /\ s[1] = head
      /\ \A i \in 1 .. Len(s) : next[s[i]] = IF i = Len(s) THEN NULL ELSE s[i + 1]
  BY <1>1 DEF IsPath
<1>3. Len(s) = 1
  <2>1. SUFFICES ASSUME Len(s) # 1 PROVE FALSE
    OBVIOUS
  <2>2. PICK k \in Nat : k = Len(s)
    BY <1>2
  <2>3. k > 1
    BY <2>1, <2>2, <1>2
  <2>4. 1 \in 1 .. Len(s) /\ 2 \in 1 .. Len(s)
    BY <2>2, <2>3
  <2>5. next[s[1]] = s[2] /\ s[2] \in Nodes
    BY <1>2, <2>1, <2>4
  <2>6. QED
    BY <1>2, <2>5 DEF Constants
<1>4. ItemsOf(s, value) = <<>>
  BY <1>3 DEF ItemsOf
<1>5. QED
  BY <1>1, <1>4 DEF Items

(* Which nodes carry an item.                                               *)
LEMMA StepValued ==
    ASSUME Constants, SafeInv, Valued, NEW t \in Threads, StepOf(t)
    PROVE  Valued'
<1>a. Types /\ Control /\ Disjoint /\ Chain /\ ReaderOf(t)
  BY DEF SafeInv, Readers
<1>1. CASE ListStands
  BY <1>1 DEF ListStands, Valued
<1>2. ASSUME NEW v \in Values, Enqueue(t, v) PROVE Valued'
  <2>1. PICK n \in heap : /\ node' = [node EXCEPT ![t] = n]
                          /\ value' = [value EXCEPT ![n] = v]
    BY <1>2 DEF Enqueue
  <2>2. InChain' = InChain /\ head' = head
    BY <1>a, <1>2, EnqueueMoves DEF Enqueue
  <2>3. ASSUME NEW m \in InChain', m # head' PROVE value'[m] \in Values
    <3>1. m \in InChain /\ m # head /\ m # n /\ m \in Nodes
      BY <2>2, <2>3 DEF InChain
    <3>2. QED
      BY <3>1, <2>1, <1>a DEF Valued, Types, TypeOK
  <2>4. ASSUME NEW u \in Threads, NEW m \in Unlinked(u)' PROVE value'[m] \in Values
    <3>1. CASE u = t
      <4>1. m = n /\ n \in Nodes
        BY <3>1, <2>1, <2>4, <1>a DEF Unlinked, Types, TypeOK
      <4>2. QED
        BY <4>1, <2>1, <1>a DEF Types, TypeOK
    <3>2. CASE u # t
      <4>1. m \in Unlinked(u)
        BY <3>2, <2>4, <1>a, StepIsOfOne, OthersOwn
      <4>2. m # n /\ m \in Nodes
        BY <4>1, <1>a DEF Disjoint, Owned, Unlinked, Types, TypeOK, Ref
      <4>3. QED
        BY <4>1, <4>2, <2>1, <1>a DEF Valued, Types, TypeOK
    <3>3. QED
      BY <3>1, <3>2
  <2>5. QED
    BY <2>3, <2>4 DEF Valued
<1>3. CASE Link(t) /\ LinkFits(t)
  <2>1. /\ InChain' = InChain \cup {node[t]} /\ node[t] \in Unlinked(t)
        /\ Unlinked(t)' = {} /\ \A u \in Threads \ {t} : Unlinked(u)' = Unlinked(u)
    BY <1>a, <1>3, LinkMoves
  <2>2. head' = head /\ value' = value
    BY <1>3 DEF Link
  <2>3. QED
    BY <2>1, <2>2 DEF Valued
<1>4. CASE Unlink(t) /\ head = ptr[t]
  <2>1. /\ InChain' = InChain \ {head} /\ \A u \in Threads : Unlinked(u)' = Unlinked(u)
    BY <1>a, <1>4, UnlinkMoves
  <2>2. value' = value
    BY <1>4 DEF Unlink
  <2>3. QED
    BY <2>1, <2>2 DEF Valued
<1>5. QED
  BY <1>1, <1>2, <1>3, <1>4, ListKinds

(* A node in use keeps its value.                                           *)
LEMMA ValueOfUsed ==
    ASSUME SafeInv, NEW t \in Threads, StepOf(t), NEW u \in Threads, NEW m \in InUse(u)
    PROVE  value'[m] = value[m]
<1>a. Types /\ Control /\ Disjoint /\ Readers
  BY DEF SafeInv
<1>1. CASE ListStands \/ Link(t) \/ Unlink(t)
  BY <1>1 DEF ListStands, Link, Unlink
<1>2. ASSUME NEW v \in Values, Enqueue(t, v) PROVE value'[m] = value[m]
  <2>1. PICK n \in heap : value' = [value EXCEPT ![n] = v]
    BY <1>2 DEF Enqueue
  <2>2. m \in InChain \cup Gone
    BY <1>a, NodesInUse
  <2>3. m \notin heap /\ m \in Nodes
    BY <2>2, <1>a DEF InChain, Gone, Disjoint, Owned
  <2>4. QED
    BY <2>1, <2>3, <1>a DEF Types, TypeOK
<1>3. QED
  BY <1>1, <1>2, ListKinds

LEMMA OtherItems ==
    ASSUME Types, NEW t \in Threads, StepOf(t), NEW u \in Threads \ {t}
    PROVE  item'[u] = item[u]
<1> USE DEF Types, TypeOK
<1>1. CASE Load(t) \/ Publish(t) \/ Validate(t) \/ LoadNext(t) \/ RecheckTail(t) \/ Link(t)
  BY <1>1 DEF Load, Publish, Validate, LoadNext, RecheckTail, Link
<1>2. CASE Swing(t) \/ HelpTail(t) \/ StoreSecond(t) \/ RecheckHead(t) \/ LoadTail(t)
  BY <1>2 DEF Swing, HelpTail, StoreSecond, RecheckHead, LoadTail
<1>3. CASE CopyValue(t) \/ Unlink(t)
  BY <1>3 DEF CopyValue, Unlink
<1>4. CASE CountStep(t) \/ LoadHazards(t) \/ Retire(t) \/ ReadFirst(t) \/ ReadSecond(t)
           \/ TryDequeue(t) \/ Delete(t) \/ PutBack(t) \/ \E v \in Values : Enqueue(t, v)
  BY <1>4 DEF CountStep, LoadHazards, Retire, ReadFirst, ReadSecond, TryDequeue, Delete, PutBack,
     Enqueue
<1>5. CASE ClearHazards(t) \/ CountRetired(t) \/ TakeRetired(t) \/ ScanDone(t)
  BY <1>5 DEF ClearHazards, CountRetired, TakeRetired, ScanDone, Return
<1>6. QED
  BY <1>1, <1>2, <1>3, <1>4, <1>5 DEF StepOf, Continue

LEMMA OtherItemOf ==
    ASSUME SafeInv, NEW t \in Threads, StepOf(t), NEW u \in Threads \ {t}, ItemOf(u)
    PROVE  ItemOf(u)'
<1>1. Same(u) /\ item'[u] = item[u]
  BY StepIsOfOne, OtherItems DEF SafeInv, OthersSame
<1>2. HasItem(u)' <=> HasItem(u)
  BY <1>1 DEF HasItem, Same
<1>3. pc[u] = "unlink" => value'[nxt[u]] = value[nxt[u]]
  BY ValueOfUsed DEF InUse
<1>4. QED
  BY <1>1, <1>2, <1>3 DEF ItemOf, Same

LEMMA OwnItemOf ==
    ASSUME Constants, SafeInv, Valued, NEW t \in Threads, StepOf(t), ItemOf(t)
    PROVE  ItemOf(t)'
<1>a. Types /\ Control /\ Disjoint /\ Chain /\ ReaderOf(t) /\ ControlOf(t)
  BY DEF SafeInv, Readers, Control
<1>b. /\ DOMAIN pc = Threads /\ DOMAIN op = Threads /\ DOMAIN nxt = Threads
      /\ DOMAIN item = Threads
  BY <1>a DEF Types, TypeOK
<1> USE <1>b DEF ItemOf, HasItem, Scanning, Goto
<1>1. CASE Load(t) \/ Publish(t)
  <2>1. /\ pc[t] \in {"load", "publish"} /\ pc'[t] \in {"publish", "validate"}
        /\ item' = item /\ op' = op
    BY <1>1 DEF Load, Publish
  <2>2. QED
    BY <2>1
<1>2. CASE Validate(t)
  BY <1>2 DEF Validate
<1>3. CASE LoadNext(t)
  BY <1>3 DEF LoadNext
<1>4. CASE RecheckTail(t)
  BY <1>4 DEF RecheckTail, Retry
<1>5. CASE Link(t)
  BY <1>5 DEF Link, Retry
<1>6. CASE Swing(t)
  BY <1>6, <1>a DEF Swing, ControlOf, DequeueSteps, Starting
<1>7. CASE HelpTail(t)
  BY <1>7 DEF HelpTail, Retry
<1>8. CASE StoreSecond(t)
  BY <1>8 DEF StoreSecond
<1>9. CASE RecheckHead(t)
  BY <1>9 DEF RecheckHead, Retry
<1>10. CASE LoadTail(t)
  BY <1>10 DEF LoadTail
<1>11. CASE CopyValue(t)
  BY <1>11 DEF CopyValue, listVars
<1>12. CASE Unlink(t)
  <2>1. CASE head = ptr[t]
    <3>1. /\ head' = next[head] /\ head \in InChain /\ head' \in InChain /\ head' = nxt[t]
      BY <1>12, <1>a, <2>1, UnlinkMoves DEF Unlink
    <3>2. nxt[t] # head
      BY <3>1, <1>a DEF Chain
    <3>3. value[nxt[t]] \in Values
      BY <3>1, <3>2 DEF Valued
    <3>4. op[t] = "dequeue"
      BY <1>12, <1>a DEF Types, Unlink, ControlOf, EnqueueSteps, Starting
    <3>5. /\ item' = item /\ op' = op /\ pc'[t] = "count" /\ item[t] = value[nxt[t]]
      BY <1>12, <2>1 DEF Unlink
    <3>6. QED
      BY <3>3, <3>4, <3>5
  <2>2. CASE head # ptr[t]
    BY <1>12, <2>2 DEF Unlink, Retry
  <2>3. QED
    BY <2>1, <2>2
<1>13. CASE CountStep(t)
  BY <1>13, <1>a DEF CountStep, ControlOf
<1>14. CASE ClearHazards(t)
  BY <1>14, <1>a DEF ClearHazards, Return
<1>15. CASE Retire(t)
  BY <1>15 DEF Retire
<1>16. CASE CountRetired(t)
  BY <1>16 DEF CountRetired, Return
<1>17. CASE TakeRetired(t)
  BY <1>17 DEF TakeRetired, Return
<1>18. CASE LoadHazards(t)
  BY <1>18 DEF LoadHazards
<1>19. CASE ReadFirst(t)
  BY <1>19 DEF ReadFirst
<1>20. CASE ReadSecond(t)
  BY <1>20 DEF ReadSecond
<1>21. CASE Delete(t)
  BY <1>21 DEF Delete
<1>22. CASE PutBack(t)
  BY <1>22 DEF PutBack
<1>23. CASE ScanDone(t)
  BY <1>23 DEF ScanDone, Return
<1>24. CASE TryDequeue(t)
  BY <1>24 DEF TryDequeue
<1>25. ASSUME NEW v \in Values, Enqueue(t, v) PROVE ItemOf(t)'
  BY <1>25 DEF Enqueue
<1>26. QED
  BY <1>1, <1>2, <1>3, <1>4, <1>5, <1>6, <1>7, <1>8, <1>9, <1>10, <1>11, <1>12, <1>13, <1>14,
     <1>15, <1>16, <1>17, <1>18, <1>19, <1>20, <1>21, <1>22, <1>23, <1>24, <1>25
     DEF StepOf, Continue

(* The items are in order, on the nodes and in the calls, in every state.   *)
LEMMA InitItems ==
    ASSUME Constants, IsFiniteSet(Nodes), Init
    PROVE  ItemInv /\ Items = <<>>
<1>1. PICK s \in Nodes :
        /\ next = [n \in Nodes |-> NULL] /\ head = s /\ retired = {} /\ heap = Nodes \ {s}
        /\ pc = [t \in Threads |-> "idle"] /\ op = [t \in Threads |-> "none"]
        /\ node = [t \in Threads |-> NULL] /\ item = [t \in Threads |-> NULL]
        /\ list = [t \in Threads |-> {}]
  BY DEF Init
<1>2. \A t \in Threads : Unlinked(t) = {} /\ Owned(t) = {}
  BY <1>1 DEF Unlinked, Dequeued, Owned
<1>3. InChain = {s} /\ head \in Nodes /\ next[s] = NULL
  BY <1>1, <1>2 DEF InChain
<1> DEFINE one == <<s>>
<1>4. /\ one \in Seq(Nodes) /\ one # <<>> /\ Len(one) = 1 /\ 1 .. Len(one) = {1}
      /\ DOMAIN one = {1} /\ one[1] = s
  OBVIOUS
<1> HIDE DEF one
<1>5. IsPath(one, head, next) /\ Distinct(one) /\ Elems(one) = {s}
  BY <1>1, <1>3, <1>4 DEF IsPath, Distinct, Elems
<1>6. PathFrom(head, next) = one
  BY <1>4, <1>5, PathIs DEF Constants
<1>7. InOrder
  BY <1>3, <1>4, <1>5, <1>6 DEF InOrder, Linked
<1>8. Valued
  BY <1>1, <1>2, <1>3 DEF Valued
<1>9. \A t \in Threads : ItemOf(t)
  BY <1>1 DEF ItemOf, HasItem
<1>10. head # NULL /\ next[head] = NULL
  BY <1>1, <1>3 DEF Constants
<1>11. Items = <<>>
  BY <1>7, <1>10, EmptyItems
<1>12. QED
  BY <1>7, <1>8, <1>9, <1>11 DEF ItemInv

LEMMA StepItems ==
    ASSUME Constants, IsFiniteSet(Nodes), SafeInv, ItemInv, NEW t \in Threads, StepOf(t)
    PROVE  ItemInv'
<1>a. Types /\ Control /\ Disjoint /\ Chain /\ ReaderOf(t)
  BY DEF SafeInv, Readers
<1>b. InOrder /\ Valued /\ \A u \in Threads : ItemOf(u)
  BY DEF ItemInv
<1>1. InOrder'
  BY <1>a, <1>b, ListKinds, ListStandsItems, EnqueueItems, LinkItems, UnlinkItems
<1>2. Valued'
  BY <1>b, StepValued
<1>3. ItemOf(t)'
  BY <1>b, OwnItemOf
<1>4. \A u \in Threads \ {t} : ItemOf(u)'
  BY <1>b, OtherItemOf
<1>5. QED
  BY <1>1, <1>2, <1>3, <1>4 DEF ItemInv

LEMMA DestroyItems ==
    ASSUME Constants, QueueInv, ItemInv, Destroy
    PROVE  ItemInv'
<1>a. Types /\ Control /\ InList = InChain
  BY DEF QueueInv, SafeInv, AllReached
<1>b. \A t \in Threads : pc[t] = "idle" /\ node[t] = NULL
  BY <1>a DEF Destroy, Control, ControlOf
<1>1. /\ pc' = pc /\ op' = op /\ nxt' = nxt /\ node' = node /\ item' = item /\ value' = value
      /\ heap' = heap \cup retired \cup InList /\ head' = NULL /\ retired' = {}
      /\ ptr' = ptr /\ list' = list
  BY DEF Destroy, scanVars
<1>2. InOrder'
  BY <1>1 DEF InOrder
<1>3. \A t \in Threads : Unlinked(t)' = {} /\ Owned(t)' = Owned(t)
  BY <1>b, <1>1 DEF Unlinked, Owned, Dequeued
<1>4. InChain' = {}
  BY <1>a, <1>1, <1>3 DEF InChain
<1>5. Valued'
  BY <1>3, <1>4 DEF Valued
<1>6. \A t \in Threads : ItemOf(t)'
  BY <1>1 DEF ItemInv, ItemOf, HasItem
<1>7. QED
  BY <1>2, <1>5, <1>6 DEF ItemInv

LEMMA StutterItems ==
    ASSUME ItemInv, UNCHANGED vars
    PROVE  ItemInv' /\ Items' = Items /\ Calls' = Calls
<1> USE DEF vars, listVars, freeVars, scanVars
<1>1. InChain' = InChain /\ \A t \in Threads : Unlinked(t)' = Unlinked(t)
  BY DEF InChain, Owned, Unlinked, Dequeued
<1>2. ListStands
  BY <1>1 DEF ListStands
<1>3. InOrder' /\ Items' = Items
  BY <1>2, ListStandsItems DEF ItemInv
<1>4. Valued'
  BY <1>1 DEF ItemInv, Valued
<1>5. \A t \in Threads : ItemOf(t)'
  BY DEF ItemInv, ItemOf, HasItem
<1>6. \A t \in Threads : CallOf(t)' = CallOf(t)
  BY DEF CallOf
<1>7. Calls' = Calls
  BY <1>6 DEF Calls
<1>8. QED
  BY <1>3, <1>4, <1>5, <1>7 DEF ItemInv

(* The inductive invariant of the items. *)
THEOREM SpecItemInv == Spec => [](QueueInv /\ ItemInv)
<1>a. Constants /\ IsFiniteSet(Nodes)
  BY ConstantsHold, QueueAssumption
<1>1. Init => ItemInv
  BY <1>a, InitItems
<1>2. QueueInv /\ ItemInv /\ [Next]_vars => ItemInv'
  <2> SUFFICES ASSUME QueueInv, ItemInv, [Next]_vars PROVE ItemInv'
    OBVIOUS
  <2>1. ASSUME NEW t \in Threads, StepOf(t) PROVE ItemInv'
    BY <1>a, <2>1, StepItems DEF QueueInv
  <2>2. CASE Destroy
    BY <1>a, <2>2, DestroyItems
  <2>3. CASE UNCHANGED vars
    BY <2>3, StutterItems
  <2>4. QED
    BY <2>1, <2>2, <2>3 DEF Next, StepOf
<1>3. QED
  BY <1>1, <1>2, SpecQueueInv, PTL DEF Spec

-----------------------------------------------------------------------------
(* The calls.                                                               *)

SawNothing(t) ==
    op[t] = "dequeue" /\ nxt[t] = NULL /\ pc[t] \in {"second", "recheck", "clear"}
Linking(t) == op[t] = "enqueue" /\ pc[t] \notin {"swing", "count", "clear"}

(* What CallOf is, in the terms of the invariant.                           *)
CallForm(t) ==
    /\ op[t] = "none" => CallOf(t) = Fifo!Idle
    /\ op[t] = "enqueue" /\ ~Linking(t) => CallOf(t) = Fifo!Done
    /\ Linking(t) => CallOf(t) = Fifo!Put(value[node[t]])
    /\ SawNothing(t) => CallOf(t) = Fifo!SawEmpty
    /\ HasItem(t) => CallOf(t) = Fifo!Got(item[t]) /\ item[t] \in Values
    /\ op[t] = "dequeue" /\ ~SawNothing(t) /\ ~HasItem(t) => CallOf(t) = Fifo!Get

LEMMA CallForms ==
    ASSUME Constants, NEW t \in Threads, ControlOf(t), ItemOf(t)
    PROVE  CallForm(t)
<1> USE DEF CallOf, Fifo!Idle, Fifo!Done, Fifo!Put, Fifo!SawEmpty, Fifo!Got, Fifo!Get,
            Linking, SawNothing
<1>1. op[t] = "none" => CallOf(t) = Fifo!Idle
  OBVIOUS
<1>2. op[t] = "enqueue" /\ ~Linking(t) => CallOf(t) = Fifo!Done
  OBVIOUS
<1>3. Linking(t) => CallOf(t) = Fifo!Put(value[node[t]])
  OBVIOUS
<1>4. SawNothing(t) => CallOf(t) = Fifo!SawEmpty
  OBVIOUS
<1>5. HasItem(t) => ~SawNothing(t) /\ item[t] \in Values /\ item[t] # NULL
                    /\ pc[t] # "unlink" /\ op[t] = "dequeue"
  BY DEF HasItem, ItemOf, Constants, Scanning
<1>6. HasItem(t) => CallOf(t) = Fifo!Got(item[t])
  BY <1>5
<1>7. ~HasItem(t) => item[t] = NULL \/ pc[t] = "unlink"
  BY DEF ItemOf
<1>8. op[t] = "dequeue" /\ ~SawNothing(t) /\ ~HasItem(t) => CallOf(t) = Fifo!Get
  BY <1>7
<1>9. QED
  BY <1>1, <1>2, <1>3, <1>4, <1>5, <1>6, <1>8 DEF CallForm

LEMMA NextCallForms ==
    ASSUME Constants, NEW t \in Threads, ControlOf(t)', ItemOf(t)'
    PROVE  CallForm(t)'
<1> USE DEF CallOf, Fifo!Idle, Fifo!Done, Fifo!Put, Fifo!SawEmpty, Fifo!Got, Fifo!Get,
            Linking, SawNothing
<1>1. op'[t] = "none" => CallOf(t)' = Fifo!Idle
  OBVIOUS
<1>2. op'[t] = "enqueue" /\ ~Linking(t)' => CallOf(t)' = Fifo!Done
  OBVIOUS
<1>3. Linking(t)' => CallOf(t)' = Fifo!Put(value[node[t]])'
  OBVIOUS
<1>4. SawNothing(t)' => CallOf(t)' = Fifo!SawEmpty
  OBVIOUS
<1>5. HasItem(t)' => ~SawNothing(t)' /\ item'[t] \in Values /\ item'[t] # NULL
                     /\ pc'[t] # "unlink" /\ op'[t] = "dequeue"
  BY DEF HasItem, ItemOf, Constants, Scanning
<1>6. HasItem(t)' => CallOf(t)' = Fifo!Got(item[t])'
  BY <1>5
<1>7. ~HasItem(t)' => item'[t] = NULL \/ pc'[t] = "unlink"
  BY DEF ItemOf
<1>8. op'[t] = "dequeue" /\ ~SawNothing(t)' /\ ~HasItem(t)' => CallOf(t)' = Fifo!Get
  BY <1>7
<1>9. QED
  BY <1>1, <1>2, <1>3, <1>4, <1>5, <1>6, <1>8 DEF CallForm

LEMMA OtherCall ==
    ASSUME SafeInv, NEW t \in Threads, StepOf(t), NEW u \in Threads \ {t}
    PROVE  CallOf(u)' = CallOf(u)
<1>a. Types /\ Control /\ Disjoint /\ ControlOf(u)
  BY DEF SafeInv, Control
<1>1. Same(u) /\ item'[u] = item[u]
  BY <1>a, StepIsOfOne, OtherItems DEF OthersSame
<1>2. Linking(u) => value'[node[u]] = value[node[u]]
  <2>1. CASE ListStands \/ Link(t) \/ Unlink(t)
    BY <2>1 DEF ListStands, Link, Unlink
  <2>2. ASSUME NEW v \in Values, Enqueue(t, v), Linking(u) PROVE value'[node[u]] = value[node[u]]
    <3>1. PICK n \in heap : value' = [value EXCEPT ![n] = v]
      BY <2>2 DEF Enqueue
    <3>2. node[u] \in Unlinked(u) /\ node[u] \in Nodes
      BY <2>2, <1>a DEF Linking, ControlOf, Unlinked, Types, TypeOK, Ref
    <3>3. node[u] # n
      BY <3>2, <1>a DEF Disjoint, Owned
    <3>4. QED
      BY <3>1, <3>2, <3>3, <1>a DEF Types, TypeOK
  <2>3. QED
    BY <2>1, <2>2, ListKinds
<1>3. QED
  BY <1>1, <1>2 DEF CallOf, Same, Linking

LEMMA CallsChange ==
    ASSUME NEW t \in Threads, \A u \in Threads \ {t} : CallOf(u)' = CallOf(u)
    PROVE  /\ Calls[t] = CallOf(t)
           /\ Calls' = [Calls EXCEPT ![t] = CallOf(t)']
           /\ CallOf(t)' = CallOf(t) => Calls' = Calls
BY DEF Calls

LEMMA SameCall ==
    ASSUME NEW t \in Threads, Types, CallForm(t), CallForm(t)', op'[t] = op[t],
           Linking(t)' <=> Linking(t), Linking(t) => value'[node'[t]] = value[node[t]],
           SawNothing(t)' <=> SawNothing(t), HasItem(t)' <=> HasItem(t),
           HasItem(t) => item'[t] = item[t]
    PROVE  CallOf(t)' = CallOf(t)
<1>1. op[t] \in {"none", "enqueue", "dequeue"}
  BY DEF Types
<1>2. CASE Linking(t)
  BY <1>2 DEF CallForm
<1>3. CASE HasItem(t)
  BY <1>3 DEF CallForm
<1>4. CASE SawNothing(t)
  BY <1>4 DEF CallForm
<1>5. CASE ~Linking(t) /\ ~HasItem(t) /\ ~SawNothing(t)
  BY <1>1, <1>5 DEF CallForm
<1>6. QED
  BY <1>2, <1>3, <1>4, <1>5

(* What a step that leaves the items alone does to the call of its thread.  *)
CallStep(t) ==
    \/ CallOf(t)' = CallOf(t)
    \/ CallOf(t) = Fifo!Idle /\ CallOf(t)' = Fifo!Get
    \/ CallOf(t) = Fifo!Idle /\ \E v \in Values : CallOf(t)' = Fifo!Put(v)
    \/ CallOf(t) = Fifo!SawEmpty /\ CallOf(t)' \in {Fifo!Get, Fifo!Idle}
    \/ CallOf(t) = Fifo!Get /\ CallOf(t)' = Fifo!SawEmpty /\ Items = <<>>
    \/ CallOf(t) = Fifo!Done /\ CallOf(t)' = Fifo!Idle
    \/ CallOf(t)' = Fifo!Idle /\ \E v \in Values : CallOf(t) = Fifo!Got(v)

LEMMA OwnCall ==
    ASSUME Constants, SafeInv, InOrder, NEW t \in Threads, StepOf(t), CallForm(t), CallForm(t)',
           ~(Link(t) /\ LinkFits(t)), ~(Unlink(t) /\ head = ptr[t])
    PROVE  CallStep(t)
<1>a. Types /\ Control /\ Chain /\ ReaderOf(t) /\ ControlOf(t)
  BY DEF SafeInv, Readers, Control
<1>b. /\ DOMAIN pc = Threads /\ DOMAIN op = Threads /\ DOMAIN nxt = Threads
      /\ DOMAIN item = Threads /\ DOMAIN node = Threads
      /\ op[t] \in {"none", "enqueue", "dequeue"}
  BY <1>a DEF Types, TypeOK
<1>c. /\ pc[t] \in EnqueueSteps \ DequeueSteps => op[t] = "enqueue"
      /\ pc[t] \in DequeueSteps \ EnqueueSteps => op[t] = "dequeue"
  BY <1>a, <1>b DEF ControlOf, Starting, EnqueueSteps, DequeueSteps, Scanning
<1> DEFINE Keeps == /\ op'[t] = op[t] /\ (Linking(t)' <=> Linking(t))
                    /\ (Linking(t) => value'[node'[t]] = value[node[t]])
                    /\ (SawNothing(t)' <=> SawNothing(t)) /\ (HasItem(t)' <=> HasItem(t))
                    /\ (HasItem(t) => item'[t] = item[t])
           Ends == CallOf(t)' = Fifo!Idle
<1>d. Keeps => CallStep(t)
  BY <1>a, SameCall DEF CallStep
<1>e. op'[t] = "none" => Ends
  BY DEF CallForm
<1>f. HasItem(t) /\ Ends => CallStep(t)
  BY DEF CallForm, CallStep
<1> USE <1>b DEF Linking, SawNothing, HasItem, Scanning, Goto, listVars
<1>1. CASE Load(t) \/ Publish(t) \/ Validate(t)
  <2>1. /\ pc[t] \in {"load", "publish", "validate"}
        /\ pc'[t] \in {"load", "publish", "validate", "next"}
        /\ op' = op /\ item' = item /\ node' = node /\ value' = value
    BY <1>1 DEF Load, Publish, Validate
  <2>2. Keeps
    BY <2>1
  <2>3. QED
    BY <2>2, <1>d
<1>2. CASE LoadNext(t)
  <2>1. /\ pc[t] = "next" /\ op' = op /\ item' = item /\ node' = node /\ value' = value
        /\ pc'[t] = (IF op[t] = "enqueue" THEN "recheck" ELSE "second")
        /\ nxt'[t] = next[ptr[t]]
    BY <1>2 DEF LoadNext
  <2>2. CASE op[t] # "enqueue" /\ nxt'[t] = NULL
    <3>1. op[t] = "dequeue"
      BY <2>1, <2>2, <1>a DEF ControlOf
    <3>2. CallOf(t) = Fifo!Get /\ CallOf(t)' = Fifo!SawEmpty
      BY <2>1, <2>2, <3>1 DEF CallForm
    <3>3. ptr[t] \in InChain /\ ptr[t] = head /\ next[head] = NULL /\ head # NULL
      BY <2>1, <2>2, <3>1, <1>a DEF ReaderOf, Reading, Chain, Constants, InChain
    <3>4. Items = <<>>
      BY <3>3, EmptyItems
    <3>5. QED
      BY <3>2, <3>4 DEF CallStep
  <2>3. CASE op[t] = "enqueue" \/ nxt'[t] # NULL
    <3>1. Keeps
      BY <2>1, <2>3
    <3>2. QED
      BY <3>1, <1>d
  <2>4. QED
    BY <2>2, <2>3
<1>3. CASE RecheckTail(t)
  <2>1. /\ pc[t] = "recheck" /\ op[t] = "enqueue" /\ pc'[t] \in {"load", "link", "help"}
        /\ op' = op /\ item' = item /\ node' = node /\ value' = value
    BY <1>3 DEF RecheckTail, Retry
  <2>2. Keeps
    BY <2>1
  <2>3. QED
    BY <2>2, <1>d
<1>4. CASE Link(t)
  <2>1. /\ pc[t] = "link" /\ pc'[t] = "load"
        /\ op' = op /\ item' = item /\ node' = node /\ value' = value
    BY <1>4 DEF Link, Retry
  <2>2. Keeps
    BY <2>1
  <2>3. QED
    BY <2>2, <1>d
<1>5. CASE Swing(t)
  <2>1. /\ pc[t] = "swing" /\ pc'[t] = "count"
        /\ op' = op /\ item' = item /\ node' = node /\ value' = value
    BY <1>5 DEF Swing
  <2>2. op[t] = "enqueue"
    BY <2>1, <1>c DEF Starting, EnqueueSteps, DequeueSteps
  <2>3. Keeps
    BY <2>1, <2>2
  <2>4. QED
    BY <2>3, <1>d
<1>6. CASE HelpTail(t)
  <2>1. /\ pc[t] = "help" /\ pc'[t] = "load"
        /\ op' = op /\ item' = item /\ node' = node /\ value' = value
    BY <1>6 DEF HelpTail, Retry
  <2>2. Keeps
    BY <2>1
  <2>3. QED
    BY <2>2, <1>d
<1>7. CASE StoreSecond(t)
  <2>1. /\ pc[t] = "second" /\ pc'[t] = "recheck" /\ nxt' = nxt
        /\ op' = op /\ item' = item /\ node' = node /\ value' = value
    BY <1>7 DEF StoreSecond
  <2>2. op[t] = "dequeue"
    BY <2>1, <1>c DEF Starting, EnqueueSteps, DequeueSteps
  <2>3. Keeps
    BY <2>1, <2>2
  <2>4. QED
    BY <2>3, <1>d
<1>8. CASE RecheckHead(t)
  <2>1. /\ pc[t] = "recheck" /\ op[t] = "dequeue"
        /\ op' = op /\ item' = item /\ node' = node /\ value' = value
    BY <1>8 DEF RecheckHead
  <2>2. CASE HeadMoved(t) /\ nxt[t] = NULL
    <3>1. pc'[t] = "load" /\ nxt'[t] = NULL
      BY <1>8, <2>2 DEF RecheckHead, Retry
    <3>2. CallOf(t) = Fifo!SawEmpty /\ CallOf(t)' = Fifo!Get
      BY <2>1, <2>2, <3>1 DEF CallForm
    <3>3. QED
      BY <3>2 DEF CallStep
  <2>3. CASE HeadMoved(t) /\ nxt[t] # NULL
    <3>1. pc'[t] = "load" /\ nxt'[t] = NULL
      BY <1>8, <2>3 DEF RecheckHead, Retry
    <3>2. Keeps
      BY <2>1, <2>3, <3>1
    <3>3. QED
      BY <3>2, <1>d
  <2>4. CASE ~HeadMoved(t)
    <3>1. nxt' = nxt /\ pc'[t] = (IF nxt[t] = NULL THEN "clear" ELSE "tail")
      BY <1>8, <2>4 DEF RecheckHead
    <3>2. Keeps
      BY <2>1, <3>1
    <3>3. QED
      BY <3>2, <1>d
  <2>5. QED
    BY <2>2, <2>3, <2>4
<1>9. CASE LoadTail(t)
  <2>1. /\ pc[t] = "tail" /\ pc'[t] \in {"help", "value"} /\ nxt' = nxt
        /\ op' = op /\ item' = item /\ node' = node /\ value' = value
    BY <1>9 DEF LoadTail
  <2>2. op[t] = "dequeue"
    BY <2>1, <1>c DEF Starting, EnqueueSteps, DequeueSteps
  <2>3. Keeps
    BY <2>1, <2>2
  <2>4. QED
    BY <2>3, <1>d
<1>10. CASE CopyValue(t)
  <2>1. /\ pc[t] = "value" /\ pc'[t] = "unlink" /\ nxt' = nxt
        /\ op' = op /\ node' = node /\ value' = value
    BY <1>10 DEF CopyValue
  <2>2. op[t] = "dequeue"
    BY <2>1, <1>c DEF Starting, EnqueueSteps, DequeueSteps
  <2>3. Keeps
    BY <2>1, <2>2
  <2>4. QED
    BY <2>3, <1>d
<1>11. CASE Unlink(t)
  <2>1. /\ pc[t] = "unlink" /\ pc'[t] = "load"
        /\ op' = op /\ node' = node /\ value' = value
    BY <1>11 DEF Unlink, Retry
  <2>2. op[t] = "dequeue"
    BY <2>1, <1>c DEF Starting, EnqueueSteps, DequeueSteps
  <2>3. Keeps
    BY <2>1, <2>2
  <2>4. QED
    BY <2>3, <1>d
<1>12. CASE CountStep(t)
  <2>1. /\ pc[t] = "count" /\ pc'[t] = "clear" /\ nxt' = nxt
        /\ op' = op /\ item' = item /\ node' = node /\ value' = value
    BY <1>12 DEF CountStep
  <2>2. op[t] = "dequeue" => nxt[t] # NULL
    BY <2>1, <1>a DEF ControlOf
  <2>3. Keeps
    BY <2>1, <2>2
  <2>4. QED
    BY <2>3, <1>d
<1>13. CASE ClearHazards(t)
  <2>1. CASE op[t] = "dequeue" /\ nxt[t] # NULL
    <3>1. /\ pc[t] = "clear" /\ pc'[t] = "retire" /\ nxt' = nxt
          /\ op' = op /\ item' = item /\ node' = node /\ value' = value
      BY <1>13, <2>1 DEF ClearHazards
    <3>2. Keeps
      BY <2>1, <3>1
    <3>3. QED
      BY <3>2, <1>d
  <2>2. CASE ~(op[t] = "dequeue" /\ nxt[t] # NULL)
    <3>1. pc[t] = "clear" /\ op'[t] = "none"
      BY <1>13, <2>2 DEF ClearHazards, Return
    <3>2. op[t] # "none"
      BY <3>1, <1>a DEF ControlOf
    <3>3. CallOf(t) = Fifo!Done \/ CallOf(t) = Fifo!SawEmpty
      BY <2>2, <3>1, <3>2 DEF CallForm
    <3>4. QED
      BY <3>1, <3>3, <1>e DEF CallStep
  <2>3. QED
    BY <2>1, <2>2
<1>14. CASE Retire(t)
  <2>1. /\ pc[t] = "retire" /\ pc'[t] = "counter"
        /\ op' = op /\ item' = item /\ node' = node /\ value' = value
    BY <1>14 DEF Retire
  <2>2. op[t] = "dequeue"
    BY <2>1, <1>c DEF Starting, EnqueueSteps, DequeueSteps
  <2>3. Keeps
    BY <2>1, <2>2
  <2>4. QED
    BY <2>3, <1>d
<1>15. CASE CountRetired(t) \/ TakeRetired(t) \/ ScanDone(t)
  <2>1. pc[t] \in {"counter", "exchange", "put_back"}
    BY <1>15 DEF CountRetired, TakeRetired, ScanDone
  <2>2. op[t] = "dequeue" /\ HasItem(t)
    BY <2>1, <1>c DEF Starting, EnqueueSteps, DequeueSteps
  <2>3. \/ op'[t] = "none"
        \/ /\ pc'[t] \in {"exchange", "hazards"}
           /\ op' = op /\ item' = item /\ node' = node /\ value' = value
    BY <1>15 DEF CountRetired, TakeRetired, ScanDone, Return
  <2>4. CASE op'[t] = "none"
    BY <2>2, <2>4, <1>e, <1>f
  <2>5. CASE /\ pc'[t] \in {"exchange", "hazards"}
             /\ op' = op /\ item' = item /\ node' = node /\ value' = value
    <3>1. Keeps
      BY <2>1, <2>2, <2>5
    <3>2. QED
      BY <3>1, <1>d
  <2>6. QED
    BY <2>3, <2>4, <2>5
<1>16. CASE LoadHazards(t) \/ ReadFirst(t) \/ ReadSecond(t) \/ Delete(t) \/ PutBack(t)
  <2>1. /\ pc[t] \in Scanning /\ pc'[t] \in Scanning
        /\ op' = op /\ item' = item /\ node' = node /\ value' = value
    BY <1>16 DEF LoadHazards, ReadFirst, ReadSecond, Delete, PutBack
  <2>2. op[t] = "dequeue"
    BY <2>1, <1>c DEF Starting, EnqueueSteps, DequeueSteps
  <2>3. Keeps
    BY <2>1, <2>2
  <2>4. QED
    BY <2>3, <1>d
<1>17. CASE TryDequeue(t)
  <2>1. pc[t] = "idle" /\ pc'[t] = "load" /\ op'[t] = "dequeue"
    BY <1>17 DEF TryDequeue
  <2>2. CallOf(t) = Fifo!Idle /\ CallOf(t)' = Fifo!Get
    BY <2>1, <1>a DEF CallForm, ControlOf
  <2>3. QED
    BY <2>2 DEF CallStep
<1>18. ASSUME NEW v \in Values, Enqueue(t, v) PROVE CallStep(t)
  <2>1. PICK n \in heap : value' = [value EXCEPT ![n] = v] /\ node' = [node EXCEPT ![t] = n]
    BY <1>18 DEF Enqueue
  <2>2. pc[t] = "idle" /\ pc'[t] = "load" /\ op'[t] = "enqueue" /\ node'[t] = n /\ value'[n] = v
    BY <1>18, <2>1, <1>a DEF Enqueue, Types, TypeOK
  <2>3. CallOf(t) = Fifo!Idle /\ CallOf(t)' = Fifo!Put(v)
    BY <2>2, <1>a DEF CallForm, ControlOf
  <2>4. QED
    BY <2>3 DEF CallStep
<1>19. QED
  BY <1>1, <1>2, <1>3, <1>4, <1>5, <1>6, <1>7, <1>8, <1>9, <1>10, <1>11, <1>12, <1>13, <1>14,
     <1>15, <1>16, <1>17, <1>18 DEF StepOf, Continue

(* A step that changes the items is the moment its call takes effect.       *)
LEMMA LinkCall ==
    ASSUME NEW t \in Threads, SafeInv, CallForm(t), CallForm(t)', Link(t), LinkFits(t)
    PROVE  CallOf(t) = Fifo!Put(value[node[t]]) /\ CallOf(t)' = Fifo!Done
<1>1. /\ pc[t] = "link" /\ pc'[t] = "swing" /\ op'[t] = op[t]
  BY DEF SafeInv, Types, TypeOK, Link, Goto
<1>2. op[t] = "enqueue"
  BY <1>1 DEF SafeInv, Types, Control, ControlOf, DequeueSteps, Starting, Scanning
<1>3. QED
  BY <1>1, <1>2 DEF CallForm, Linking

LEMMA UnlinkCall ==
    ASSUME NEW t \in Threads, SafeInv, ItemOf(t), CallForm(t), CallForm(t)', Unlink(t),
           head = ptr[t]
    PROVE  CallOf(t) = Fifo!Get /\ CallOf(t)' = Fifo!Got(value[nxt[t]])
<1>1. /\ pc[t] = "unlink" /\ pc'[t] = "count" /\ op'[t] = op[t] /\ item'[t] = item[t]
  BY DEF SafeInv, Types, TypeOK, Unlink, Goto
<1>2. op[t] = "dequeue"
  BY <1>1 DEF SafeInv, Types, Control, ControlOf, EnqueueSteps, Starting
<1>3. item[t] = value[nxt[t]]
  BY <1>1 DEF ItemOf
<1>4. HasItem(t)'
  BY <1>1, <1>2 DEF HasItem
<1>5. CallOf(t)' = Fifo!Got(item[t])'
  BY <1>4 DEF CallForm
<1>6. CallOf(t)' = Fifo!Got(item[t])
  BY <1>1, <1>5 DEF Fifo!Got
<1>7. CallOf(t) = Fifo!Get
  BY <1>1, <1>2 DEF CallForm, SawNothing, HasItem, Scanning
<1>8. QED
  BY <1>3, <1>6, <1>7

-----------------------------------------------------------------------------
(* The refinement.                                                          *)

(* Every step of a thread is one of the abstract queue, or none.            *)
LEMMA StepFifo ==
    ASSUME Constants, IsFiniteSet(Nodes), QueueInv, ItemInv, NEW t \in Threads, StepOf(t)
    PROVE  [Fifo!Next]_(Fifo!vars)
<1>a. SafeInv /\ Types /\ Control /\ Disjoint /\ Chain /\ ReaderOf(t) /\ ControlOf(t)
  BY DEF QueueInv, SafeInv, Readers, Control
<1>b. InOrder /\ Valued /\ ItemOf(t)
  BY DEF ItemInv
<1>c. ControlOf(t)' /\ ItemOf(t)'
  BY <1>a, <1>b, StepControl, OwnItemOf DEF Control
<1>d. CallForm(t) /\ CallForm(t)'
  BY <1>a, <1>b, <1>c, CallForms, NextCallForms
<1>e. /\ Calls[t] = CallOf(t) /\ Calls' = [Calls EXCEPT ![t] = CallOf(t)']
      /\ CallOf(t)' = CallOf(t) => Calls' = Calls
  BY <1>a, OtherCall, CallsChange
<1>1. CASE Link(t) /\ LinkFits(t)
  <2>1. Items' = Append(Items, value[node[t]])
    BY <1>a, <1>b, <1>1, LinkItems
  <2>2. CallOf(t) = Fifo!Put(value[node[t]]) /\ CallOf(t)' = Fifo!Done
    BY <1>a, <1>d, <1>1, LinkCall
  <2>3. value[node[t]] \in Values
    BY <1>a, <1>b, <1>1, LinkMoves DEF Valued
  <2>4. PICK v \in Values : v = value[node[t]]
    BY <2>3
  <2>5. Fifo!PutItem(t, v)
    BY <2>1, <2>2, <2>4, <1>e DEF Fifo!PutItem, Fifo!Becomes
  <2>6. QED
    BY <2>4, <2>5 DEF Fifo!Next
<1>2. CASE Unlink(t) /\ head = ptr[t]
  <2>1. Items # <<>> /\ Items' = Tail(Items) /\ Head(Items) = value[nxt[t]]
    BY <1>a, <1>b, <1>2, UnlinkItems
  <2>2. CallOf(t) = Fifo!Get /\ CallOf(t)' = Fifo!Got(value[nxt[t]])
    BY <1>a, <1>b, <1>d, <1>2, UnlinkCall
  <2>3. Fifo!GetItem(t)
    BY <2>1, <2>2, <1>e DEF Fifo!GetItem, Fifo!Becomes
  <2>4. QED
    BY <2>3 DEF Fifo!Next
<1>3. CASE ~(Link(t) /\ LinkFits(t)) /\ ~(Unlink(t) /\ head = ptr[t])
  <2>1. Items' = Items
    BY <1>a, <1>b, <1>3, ListKinds, ListStandsItems, EnqueueItems
  <2>2. CallStep(t)
    BY <1>a, <1>b, <1>d, <1>3, OwnCall
  <2>3. CASE CallOf(t)' = CallOf(t)
    BY <2>1, <2>3, <1>e DEF Fifo!vars
  <2>4. CASE CallOf(t) = Fifo!Idle /\ CallOf(t)' = Fifo!Get
    <3>1. Fifo!Begin(t)
      BY <2>1, <2>4, <1>e DEF Fifo!Begin, Fifo!Becomes
    <3>2. QED
      BY <3>1 DEF Fifo!Next
  <2>5. CASE CallOf(t) = Fifo!Idle /\ \E v \in Values : CallOf(t)' = Fifo!Put(v)
    <3>1. Fifo!Begin(t)
      BY <2>1, <2>5, <1>e DEF Fifo!Begin, Fifo!Becomes
    <3>2. QED
      BY <3>1 DEF Fifo!Next
  <2>6. CASE CallOf(t) = Fifo!SawEmpty /\ CallOf(t)' = Fifo!Get
    <3>1. Fifo!Again(t)
      BY <2>1, <2>6, <1>e DEF Fifo!Again, Fifo!Becomes
    <3>2. QED
      BY <3>1 DEF Fifo!Next
  <2>7. CASE CallOf(t) = Fifo!Get /\ CallOf(t)' = Fifo!SawEmpty /\ Items = <<>>
    <3>1. Fifo!Observe(t)
      BY <2>1, <2>7, <1>e DEF Fifo!Observe, Fifo!Becomes
    <3>2. QED
      BY <3>1 DEF Fifo!Next
  <2>8. CASE /\ CallOf(t)' = Fifo!Idle
             /\ \/ CallOf(t) = Fifo!Done \/ CallOf(t) = Fifo!SawEmpty
                \/ \E v \in Values : CallOf(t) = Fifo!Got(v)
    <3>1. Fifo!Return(t)
      BY <2>1, <2>8, <1>e DEF Fifo!Return, Fifo!Becomes
    <3>2. QED
      BY <3>1 DEF Fifo!Next
  <2>9. QED
    BY <2>2, <2>3, <2>4, <2>5, <2>6, <2>7, <2>8 DEF CallStep
<1>4. QED
  BY <1>1, <1>2, <1>3

(* The queue implements FifoQueue, for any number of threads, addresses and *)
(* items: each call takes effect in one step of it, between its beginning   *)
(* and its return, and items leave in the order in which they came, though  *)
(* addresses come back and every thread may be anywhere in its call.        *)
THEOREM QueueIsFifo == Spec => FifoSpec
<1>a. Constants /\ IsFiniteSet(Nodes)
  BY ConstantsHold, QueueAssumption
<1>1. Init => Fifo!Init
  <2> SUFFICES ASSUME Init PROVE Fifo!Init
    OBVIOUS
  <2>1. Items = <<>>
    BY <1>a, InitItems
  <2>2. \A t \in Threads : CallOf(t) = Fifo!Idle
    BY DEF Init, CallOf, Fifo!Idle
  <2>3. QED
    BY <2>1, <2>2 DEF Fifo!Init, Calls
<1>2. QueueInv /\ ItemInv /\ [Next]_vars => [Fifo!Next \/ head' = NULL]_(Fifo!vars)
  <2> SUFFICES ASSUME QueueInv, ItemInv, [Next]_vars
               PROVE  [Fifo!Next \/ head' = NULL]_(Fifo!vars)
    OBVIOUS
  <2>1. ASSUME NEW t \in Threads, StepOf(t) PROVE [Fifo!Next]_(Fifo!vars)
    BY <1>a, <2>1, StepFifo
  <2>2. CASE Destroy
    BY <2>2 DEF Destroy
  <2>3. CASE UNCHANGED vars
    BY <2>3, StutterItems DEF Fifo!vars
  <2>4. QED
    BY <2>1, <2>2, <2>3 DEF Next, StepOf
<1>3. QED
  BY <1>1, <1>2, SpecItemInv, PTL DEF Spec, FifoSpec

================================================================================
