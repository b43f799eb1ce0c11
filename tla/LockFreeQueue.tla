----------------------------- MODULE LockFreeQueue -----------------------------
(***************************************************************************)
(* The Michael-Scott queue of LockFreeQueue.h, with two hazard pointers per  *)
(* thread. A node that was dequeued is retired and deleted by a later scan,  *)
(* unless a hazard pointer names it; its address may then come back from     *)
(* new. Each step of a thread is one atomic access; the accesses are taken   *)
(* in one order (the hazard pointers are stored and read seq_cst, the rest   *)
(* is as strong on the x64 the project builds for).                          *)
(***************************************************************************)
EXTENDS Integers, Sequences, FiniteSets

CONSTANTS
    Threads,
    Nodes,          (* addresses new may return                              *)
    Values,         (* items; each is enqueued once                          *)
    NULL,
    ScanEvery,      (* 64: every ScanEvery-th Retire scans                   *)
    MaxDequeues,    (* bound: calls of TryDequeue in a behaviour             *)
    Stalled         (* a thread that may stop for ever, anywhere             *)

ASSUME QueueAssumption ==
    /\ IsFiniteSet(Threads) /\ IsFiniteSet(Nodes) /\ Nodes # {}
    /\ NULL \notin Nodes \cup Values
    /\ ScanEvery \in Nat \ {0} /\ MaxDequeues \in Nat

VARIABLES
    next, value,    (* of each node                                          *)
    head, tail, size,
    first, second,  (* the hazard pointers of a thread's record              *)
    records,        (* mHazards, as the threads that have a record           *)
    retired, retireCount,
    heap,           (* addresses that are not allocated                      *)
    pc, op,         (* the call a thread is in and its next access           *)
    ptr, nxt,       (* its locals: head or tail, and next,                   *)
    node, item,     (* newNode, candidate,                                   *)
    list, unread, protected,   (* and those of ScanRetired                   *)
    used, dequeues  (* items enqueued, and TryDequeue calls, so far          *)

listVars   == <<next, value, head, tail>>
hazardVars == <<first, second, records>>
freeVars   == <<retired, retireCount, heap>>
scanVars   == <<list, unread, protected>>
boundVars  == <<used, dequeues>>
vars == <<listVars, size, hazardVars, freeVars, pc, op, ptr, nxt, node, item,
          scanVars, boundVars>>

Init ==
    \E sentinel \in Nodes :
      /\ next = [n \in Nodes |-> NULL] /\ value = [n \in Nodes |-> NULL]
      /\ head = sentinel /\ tail = sentinel /\ size = 0
      /\ first = [t \in Threads |-> NULL] /\ second = [t \in Threads |-> NULL]
      /\ records = <<>>
      /\ retired = {} /\ retireCount = 0 /\ heap = Nodes \ {sentinel}
      /\ pc = [t \in Threads |-> "idle"] /\ op = [t \in Threads |-> "none"]
      /\ ptr = [t \in Threads |-> NULL] /\ nxt = [t \in Threads |-> NULL]
      /\ node = [t \in Threads |-> NULL] /\ item = [t \in Threads |-> NULL]
      /\ list = [t \in Threads |-> {}] /\ unread = [t \in Threads |-> <<>>]
      /\ protected = [t \in Threads |-> {}]
      /\ used = {} /\ dequeues = 0

Goto(t, label) == pc' = [pc EXCEPT ![t] = label]

(* continue: the loop starts over with Protect. *)
Retry(t) == Goto(t, "load") /\ nxt' = [nxt EXCEPT ![t] = NULL]

(* GetHazardRecord: a thread's first call pushes its record. *)
GetHazardRecord(t) ==
    records' = IF \E i \in DOMAIN records : records[i] = t
               THEN records ELSE <<t>> \o records

-----------------------------------------------------------------------------
(* The calls.                                                               *)

Enqueue(t, v) ==
    /\ pc[t] = "idle" /\ v \notin used /\ head # NULL
    /\ \E n \in heap :
         /\ heap'  = heap \ {n}
         /\ next'  = [next EXCEPT ![n] = NULL]
         /\ value' = [value EXCEPT ![n] = v]
         /\ node'  = [node EXCEPT ![t] = n]
    /\ GetHazardRecord(t)
    /\ op' = [op EXCEPT ![t] = "enqueue"] /\ Goto(t, "load")
    /\ used' = used \cup {v}
    /\ UNCHANGED <<head, tail, size, first, second, retired, retireCount, ptr, nxt,
                   item, scanVars, dequeues>>

TryDequeue(t) ==
    /\ pc[t] = "idle" /\ dequeues < MaxDequeues /\ head # NULL
    /\ GetHazardRecord(t)
    /\ op' = [op EXCEPT ![t] = "dequeue"] /\ Goto(t, "load")
    /\ dequeues' = dequeues + 1
    /\ UNCHANGED <<listVars, size, first, second, freeVars, ptr, nxt, node, item,
                   scanVars, used>>

-----------------------------------------------------------------------------
(* Protect(mTail or mHead, hazard->first).                                  *)

Source(t) == IF op[t] = "enqueue" THEN tail ELSE head

Load(t) ==
    /\ pc[t] = "load"
    /\ ptr' = [ptr EXCEPT ![t] = Source(t)]
    /\ Goto(t, "publish")
    /\ UNCHANGED <<listVars, size, hazardVars, freeVars, op, nxt, node, item, scanVars,
                   boundVars>>

Publish(t) ==
    /\ pc[t] = "publish"
    /\ first' = [first EXCEPT ![t] = ptr[t]]
    /\ Goto(t, "validate")
    /\ UNCHANGED <<listVars, size, second, records, freeVars, op, ptr, nxt, node, item,
                   scanVars, boundVars>>

Unchanged(t) == Source(t) = ptr[t]

Validate(t) ==
    /\ pc[t] = "validate"
    /\ Goto(t, IF Unchanged(t) THEN "next" ELSE "load")
    /\ UNCHANGED <<listVars, size, hazardVars, freeVars, op, ptr, nxt, node, item,
                   scanVars, boundVars>>

(* The first use of the pointer: ptr->next. *)
LoadNext(t) ==
    /\ pc[t] = "next"
    /\ nxt' = [nxt EXCEPT ![t] = next[ptr[t]]]
    /\ Goto(t, IF op[t] = "enqueue" THEN "recheck" ELSE "second")
    /\ UNCHANGED <<listVars, size, hazardVars, freeVars, op, ptr, node, item, scanVars,
                   boundVars>>

-----------------------------------------------------------------------------
(* The rest of Enqueue.                                                     *)

RecheckTail(t) ==
    /\ pc[t] = "recheck" /\ op[t] = "enqueue"
    /\ IF tail # ptr[t] THEN Retry(t)
       ELSE Goto(t, IF nxt[t] = NULL THEN "link" ELSE "help") /\ UNCHANGED nxt
    /\ UNCHANGED <<listVars, size, hazardVars, freeVars, op, ptr, node, item, scanVars,
                   boundVars>>

Mutant_LinkFits(t) == TRUE
LinkFits(t) == next[ptr[t]] = NULL

Link(t) ==
    /\ pc[t] = "link"
    /\ IF LinkFits(t)
       THEN next' = [next EXCEPT ![ptr[t]] = node[t]] /\ Goto(t, "swing") /\ UNCHANGED nxt
       ELSE Retry(t) /\ UNCHANGED next
    /\ UNCHANGED <<value, head, tail, size, hazardVars, freeVars, op, ptr, node, item,
                   scanVars, boundVars>>

(* The CAS on mTail may find that another thread helped already. *)
Mutant_CasTail(t, new) == UNCHANGED tail
CasTail(t, new) == tail' = IF tail = ptr[t] THEN new ELSE tail

Swing(t) ==
    /\ pc[t] = "swing"
    /\ CasTail(t, node[t])
    /\ Goto(t, "count")
    /\ UNCHANGED <<next, value, head, size, hazardVars, freeVars, op, ptr, nxt, node,
                   item, scanVars, boundVars>>

(* Also in TryDequeue, where tail = head. *)
HelpTail(t) ==
    /\ pc[t] = "help"
    /\ CasTail(t, nxt[t])
    /\ Retry(t)
    /\ UNCHANGED <<next, value, head, size, hazardVars, freeVars, op, ptr, node, item,
                   scanVars, boundVars>>

-----------------------------------------------------------------------------
(* The rest of TryDequeue.                                                  *)

StoreSecond(t) ==
    /\ pc[t] = "second"
    /\ second' = [second EXCEPT ![t] = nxt[t]]
    /\ Goto(t, "recheck")
    /\ UNCHANGED <<listVars, size, first, records, freeVars, op, ptr, nxt, node, item,
                   scanVars, boundVars>>

Mutant_HeadMoved(t) == FALSE
HeadMoved(t) == head # ptr[t]

RecheckHead(t) ==
    /\ pc[t] = "recheck" /\ op[t] = "dequeue"
    /\ IF HeadMoved(t) THEN Retry(t)
       ELSE Goto(t, IF nxt[t] = NULL THEN "clear" ELSE "tail") /\ UNCHANGED nxt
    /\ UNCHANGED <<listVars, size, hazardVars, freeVars, op, ptr, node, item, scanVars,
                   boundVars>>

LoadTail(t) ==
    /\ pc[t] = "tail"
    /\ Goto(t, IF tail = ptr[t] THEN "help" ELSE "value")
    /\ UNCHANGED <<listVars, size, hazardVars, freeVars, op, ptr, nxt, node, item,
                   scanVars, boundVars>>

CopyValue(t) ==
    /\ pc[t] = "value"
    /\ item' = [item EXCEPT ![t] = value[nxt[t]]]
    /\ Goto(t, "unlink")
    /\ UNCHANGED <<listVars, size, hazardVars, freeVars, op, ptr, nxt, node, scanVars,
                   boundVars>>

(* The CAS on mHead. *)
Unlink(t) ==
    /\ pc[t] = "unlink"
    /\ IF head = ptr[t]
       THEN head' = nxt[t] /\ Goto(t, "count") /\ UNCHANGED <<nxt, item>>
       ELSE Retry(t) /\ item' = [item EXCEPT ![t] = NULL] /\ UNCHANGED head
    /\ UNCHANGED <<next, value, tail, size, hazardVars, freeVars, op, ptr, node,
                   scanVars, boundVars>>

(* size.fetch_add or fetch_sub; below 0 stands for the wrapped size_t. *)
Mutant_Count(t) == size' = size + 1
Count(t) == size' = IF op[t] = "enqueue" THEN size + 1 ELSE size - 1

CountStep(t) ==
    /\ pc[t] = "count"
    /\ Count(t)
    /\ Goto(t, "clear")
    /\ UNCHANGED <<listVars, hazardVars, freeVars, op, ptr, nxt, node, item, scanVars,
                   boundVars>>

Return(t) ==
    /\ Goto(t, "idle") /\ op' = [op EXCEPT ![t] = "none"]
    /\ ptr'  = [ptr EXCEPT ![t] = NULL]  /\ nxt'  = [nxt EXCEPT ![t] = NULL]
    /\ node' = [node EXCEPT ![t] = NULL] /\ item' = [item EXCEPT ![t] = NULL]

(* ClearHazards: second, then first; a scan, which reads first, then        *)
(* second, can see no more than it sees of the two stores at once.          *)
ClearHazards(t) ==
    /\ pc[t] = "clear"
    /\ first'  = [first EXCEPT ![t] = NULL]
    /\ second' = [second EXCEPT ![t] = NULL]
    /\ IF op[t] = "dequeue" /\ nxt[t] # NULL
       THEN Goto(t, "retire") /\ UNCHANGED <<op, ptr, nxt, node, item>>
       ELSE Return(t)
    /\ UNCHANGED <<listVars, size, records, freeVars, scanVars, boundVars>>

-----------------------------------------------------------------------------
(* Retire and ScanRetired.                                                  *)

Retire(t) ==
    /\ pc[t] = "retire"
    /\ retired' = retired \cup {ptr[t]}
    /\ ptr' = [ptr EXCEPT ![t] = NULL]
    /\ Goto(t, "counter")
    /\ UNCHANGED <<listVars, size, hazardVars, retireCount, heap, op, nxt, node, item,
                   scanVars, boundVars>>

Mutant_NextCount == retireCount + 1
NextCount == (retireCount + 1) % ScanEvery

CountRetired(t) ==
    /\ pc[t] = "counter"
    /\ retireCount' = NextCount
    /\ IF retireCount = ScanEvery - 1
       THEN Goto(t, "exchange") /\ UNCHANGED <<op, ptr, nxt, node, item>>
       ELSE Return(t)
    /\ UNCHANGED <<listVars, size, hazardVars, retired, heap, scanVars, boundVars>>

(* list = mRetired.exchange(nullptr). *)
TakeRetired(t) ==
    /\ pc[t] = "exchange"
    /\ list' = [list EXCEPT ![t] = retired] /\ retired' = {}
    /\ IF retired = {} THEN Return(t)
       ELSE Goto(t, "hazards") /\ UNCHANGED <<op, ptr, nxt, node, item>>
    /\ UNCHANGED <<listVars, size, hazardVars, retireCount, heap, unread, protected,
                   boundVars>>

LoadHazards(t) ==
    /\ pc[t] = "hazards"
    /\ unread' = [unread EXCEPT ![t] = records]
    /\ Goto(t, "first")
    /\ UNCHANGED <<listVars, size, hazardVars, freeVars, op, ptr, nxt, node, item, list,
                   protected, boundVars>>

Saw(t, n) == protected' = [protected EXCEPT ![t] = @ \cup ({n} \ {NULL})]

ReadFirst(t) ==
    /\ pc[t] = "first" /\ unread[t] # <<>>
    /\ Saw(t, first[Head(unread[t])])
    /\ Goto(t, "second_of")
    /\ UNCHANGED <<listVars, size, hazardVars, freeVars, op, ptr, nxt, node, item, list,
                   unread, boundVars>>

ReadSecond(t) ==
    /\ pc[t] = "second_of"
    /\ Saw(t, second[Head(unread[t])])
    /\ unread' = [unread EXCEPT ![t] = Tail(@)]
    /\ Goto(t, "first")
    /\ UNCHANGED <<listVars, size, hazardVars, freeVars, op, ptr, nxt, node, item, list,
                   boundVars>>

Kept(t) == list[t] \cap protected[t]

(* The nodes no hazard pointer named are deleted. *)
Delete(t) ==
    /\ pc[t] = "first" /\ unread[t] = <<>>
    /\ heap' = heap \cup (list[t] \ Kept(t))
    /\ list' = [list EXCEPT ![t] = Kept(t)]
    /\ protected' = [protected EXCEPT ![t] = {}]
    /\ Goto(t, "put_back")
    /\ UNCHANGED <<listVars, size, hazardVars, retired, retireCount, op, ptr, nxt, node,
                   item, unread, boundVars>>

(* The others go back to mRetired, one CAS each. *)
PutBack(t) ==
    /\ pc[t] = "put_back" /\ list[t] # {}
    /\ \E n \in list[t] :
         /\ retired' = retired \cup {n}
         /\ list' = [list EXCEPT ![t] = @ \ {n}]
    /\ UNCHANGED <<listVars, size, hazardVars, retireCount, heap, pc, op, ptr, nxt, node,
                   item, unread, protected, boundVars>>

ScanDone(t) ==
    /\ pc[t] = "put_back" /\ list[t] = {}
    /\ Return(t)
    /\ UNCHANGED <<listVars, size, hazardVars, freeVars, scanVars, boundVars>>

-----------------------------------------------------------------------------
(* The nodes linked from mHead: the sentinel, then those with the items.    *)
Paths == UNION {[1 .. k -> Nodes] : k \in 1 .. Cardinality(Nodes)}
IsPath(s, from, link) ==
    /\ s # <<>> /\ s[1] = from
    /\ \A i \in 1 .. Len(s) : link[s[i]] = IF i = Len(s) THEN NULL ELSE s[i + 1]
PathFrom(from, link) == CHOOSE s \in Paths : IsPath(s, from, link)
Linked == PathFrom(head, next)

(* The same nodes as a set, which is what the destructor deletes: the least   *)
(* set that holds mHead and with a node the node its next names.            *)
Closed(S) ==
    /\ head # NULL => head \in S
    /\ \A n \in S : next[n] \in S \cup {NULL}
InList == {n \in Nodes : \A S \in SUBSET Nodes : Closed(S) => n \in S}

(* ~LockFreeQueue, when no thread uses the queue any more. *)
Destroy ==
    /\ \A t \in Threads : pc[t] = "idle"
    /\ head # NULL
    /\ heap' = heap \cup retired \cup InList
    /\ retired' = {} /\ head' = NULL /\ tail' = NULL /\ records' = <<>>
    /\ UNCHANGED <<next, value, size, first, second, retireCount, pc, op, ptr, nxt, node,
                   item, scanVars, boundVars>>

Continue(t) ==
    \/ Load(t) \/ Publish(t) \/ Validate(t) \/ LoadNext(t)
    \/ RecheckTail(t) \/ Link(t) \/ Swing(t) \/ HelpTail(t)
    \/ StoreSecond(t) \/ RecheckHead(t) \/ LoadTail(t) \/ CopyValue(t) \/ Unlink(t)
    \/ CountStep(t) \/ ClearHazards(t)
    \/ Retire(t) \/ CountRetired(t) \/ TakeRetired(t) \/ LoadHazards(t)
    \/ ReadFirst(t) \/ ReadSecond(t) \/ Delete(t) \/ PutBack(t) \/ ScanDone(t)

Next ==
    \/ \E t \in Threads : Continue(t) \/ TryDequeue(t) \/ \E v \in Values : Enqueue(t, v)
    \/ Destroy

Spec == Init /\ [][Next]_vars

(* A thread inside a call runs on, except the stalled one; nobody has to     *)
(* call.                                                                    *)
FairSpec == Spec /\ \A t \in Threads \ {Stalled} : WF_vars(Continue(t))

-----------------------------------------------------------------------------
(* Properties.                                                              *)

Ref == Nodes \cup {NULL}

(* Every variable of the queue has its type. *)
TypeOK ==
    /\ next \in [Nodes -> Ref] /\ value \in [Nodes -> Values \cup {NULL}]
    /\ head \in Ref /\ tail \in Ref /\ size \in Int
    /\ first \in [Threads -> Ref] /\ second \in [Threads -> Ref]
    /\ retired \subseteq Nodes /\ heap \subseteq Nodes
    /\ retireCount \in 0 .. ScanEvery - 1
    /\ ptr \in [Threads -> Ref] /\ nxt \in [Threads -> Ref]
    /\ node \in [Threads -> Ref] /\ item \in [Threads -> Values \cup {NULL}]
    /\ list \in [Threads -> SUBSET Nodes] /\ protected \in [Threads -> SUBSET Nodes]

(* From the moment Protect has validated mTail or mHead, and for the next    *)
(* node from the moment the head was seen unmoved, until the hazard pointers *)
(* are cleared, the node is not deleted: neither freed nor, worse, back from *)
(* new under the same address (the ABA the header's comment speaks of).      *)
InUse(t) ==
    (IF pc[t] \in {"next", "second", "recheck", "link", "help", "swing", "tail", "value",
                   "unlink"} THEN {ptr[t]} ELSE {})
    \cup (IF pc[t] \in {"tail", "value", "unlink"} THEN {nxt[t]} ELSE {})

NoUseAfterFree == \A t \in Threads : InUse(t) \cap heap = {}

(* Every node is in exactly one place: an enqueuer has it and has not linked *)
(* it, it is linked, a dequeuer has unlinked it and not retired it, it is    *)
(* retired, a scan has it, or it is deleted. So none is lost and none is     *)
(* deleted twice, by the scans or by the destructor.                         *)
Unlinked(t) ==
    {n \in {node[t]} : pc[t] \notin {"swing", "count", "clear"}} \ {NULL}
Dequeued(t) ==
    {n \in {ptr[t]} : op[t] = "dequeue" /\ pc[t] \in {"count", "clear", "retire"}
                      /\ nxt[t] # NULL}

Common == [linked |-> InList, retired |-> retired, deleted |-> heap]

OneOwner == \A n \in Nodes :
    Cardinality({p \in DOMAIN Common : n \in Common[p]})
    + Cardinality({t \in Threads : n \in Unlinked(t) \cup Dequeued(t) \cup list[t]}) = 1

(* What the consumers of main.cpp stop on: with no Enqueue under way, a Size *)
(* of 0 (or below, which reads as a huge number) means that nothing is left, *)
(* though the counter lags behind the list on both sides; and with no call   *)
(* under way Size is the length.                                             *)
SizeTells ==
    head # NULL =>
      /\ (size <= 0 /\ \A t \in Threads : op[t] # "enqueue") => InList = {head}
      /\ (\A t \in Threads : op[t] = "none") => size = Cardinality(InList) - 1

(* The queue is the FIFO queue of FifoQueue: an Enqueue takes effect when it *)
(* links its node, a TryDequeue when it moves mHead, or, when it returns     *)
(* false, when it read next == nullptr.                                      *)
CallOf(t) ==
    IF op[t] = "none" THEN [op |-> "idle"]
    ELSE IF op[t] = "enqueue"
    THEN IF pc[t] \in {"swing", "count", "clear"} THEN [op |-> "done"]
         ELSE [op |-> "put", value |-> value[node[t]]]
    ELSE IF nxt[t] = NULL /\ pc[t] \in {"second", "recheck", "clear"}
    THEN [op |-> "saw_empty"]
    ELSE IF item[t] # NULL /\ pc[t] # "unlink"
    THEN [op |-> "got", value |-> item[t]]
    ELSE [op |-> "get"]
Calls == [t \in Threads |-> CallOf(t)]

ItemsOf(s, of) == [i \in 1 .. Len(s) - 1 |-> of[s[i + 1]]]
Items == IF head = NULL THEN <<>> ELSE ItemsOf(Linked, value)

Fifo == INSTANCE FifoQueue WITH queue <- Items, call <- Calls
FifoSpec == Fifo!Init /\ [][Fifo!Next \/ head' = NULL]_Fifo!vars

(* Lock freedom: though a thread stalls in the middle of a call, wherever    *)
(* that is, the calls of the others return. They start over only because a  *)
(* call got ahead, and they help with what the stalled one left undone.      *)
CallsReturn == \A t \in Threads \ {Stalled} : pc[t] # "idle" ~> pc[t] = "idle"

================================================================================
