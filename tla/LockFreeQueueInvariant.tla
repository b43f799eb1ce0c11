------------------------ MODULE LockFreeQueueInvariant ------------------------
(***************************************************************************)
(* What makes the queue safe, as an inductive invariant: who owns a node,   *)
(* what the next pointers of the list say, what a thread knows of the nodes  *)
(* it reads, and what a scan has still to see of the hazard pointers before  *)
(* it may delete. LockFreeQueueProofs proves that it is invariant.          *)
(***************************************************************************)
EXTENDS LockFreeQueue

Elems(s) == {s[i] : i \in DOMAIN s}

(* The steps of a call between the validation in Protect and ClearHazards,  *)
(* those of Enqueue and of TryDequeue, and those of ScanRetired.            *)
Reading  == {"next", "second", "recheck", "link", "help", "swing", "tail", "value", "unlink"}
Starting == {"load", "publish", "validate", "next", "recheck", "help", "count", "clear"}
Scanning == {"hazards", "first", "second_of", "put_back"}
EnqueueSteps == Starting \cup {"link", "swing"}
DequeueSteps == Starting \cup Scanning
    \cup {"second", "tail", "value", "unlink", "retire", "counter", "exchange"}

(* TypeOK, and the types of the variables it leaves out. *)
Types ==
    /\ TypeOK
    /\ records \in Seq(Threads) /\ unread \in [Threads -> Seq(Threads)]
    /\ pc \in [Threads -> {"idle"} \cup EnqueueSteps \cup DequeueSteps]
    /\ op \in [Threads -> {"none", "enqueue", "dequeue"}]

(* What the place a thread is at says of its own variables. *)
ControlOf(t) ==
    /\ op[t] = "none" <=> pc[t] = "idle"
    /\ op[t] = "enqueue" => pc[t] \in EnqueueSteps /\ node[t] # NULL
    /\ op[t] # "enqueue" => node[t] = NULL
    /\ op[t] = "dequeue" => pc[t] \in DequeueSteps
    /\ pc[t] \in Reading \cup {"publish", "validate"} => ptr[t] # NULL
    /\ pc[t] = "retire" => ptr[t] # NULL /\ nxt[t] # NULL
    /\ op[t] = "dequeue" /\ pc[t] \in {"count", "clear"} /\ nxt[t] # NULL => ptr[t] # NULL
    /\ op[t] = "dequeue" /\ pc[t] \in {"tail", "value", "unlink", "count"} => nxt[t] # NULL
    /\ pc[t] = "help" => nxt[t] # NULL
    /\ pc[t] \notin Scanning => list[t] = {}
    /\ pc[t] = "second_of" => unread[t] # <<>>
    /\ op[t] # "none" => t \in Elems(records)
Control ==
    /\ \A t \in Threads : ControlOf(t)
    /\ head = NULL => \A t \in Threads : pc[t] = "idle"
    /\ head # NULL => tail # NULL

(* The nodes only one thread knows, those that were taken out of the list,   *)
(* and, none of these and not deleted, those in it.                         *)
Owned(t) == Unlinked(t) \cup Dequeued(t) \cup list[t]
Gone     == {n \in Nodes : n \in retired \/ \E t \in Threads : n \in Dequeued(t) \cup list[t]}
InChain  == {n \in Nodes : n \notin heap \cup retired /\ \A t \in Threads : n \notin Owned(t)}

Disjoint ==
    /\ heap \cap retired = {}
    /\ \A t \in Threads : Owned(t) \cap (heap \cup retired) = {}
    /\ \A t, u \in Threads : t # u => Owned(t) \cap Owned(u) = {}

(* The next pointers make the list one chain that begins at mHead; a node    *)
(* that left it has a successor for ever, so no CAS can link behind it.     *)
Chain ==
    /\ head # NULL => head \in InChain /\ tail \in InChain
    /\ \A n \in InChain : next[n] \in InChain \cup {NULL} /\ next[n] # head
    /\ \A m, n \in InChain : next[m] = next[n] /\ next[m] # NULL => m = n
    /\ \A n \in Gone : next[n] # NULL
    /\ \A t \in Threads : \A n \in Unlinked(t) : next[n] = NULL

(* What a thread may rely on of the nodes its hazard pointers name. *)
ReaderOf(t) ==
    /\ pc[t] \in Reading =>
         /\ ptr[t] \in InChain \cup Gone /\ first[t] = ptr[t]
         /\ op[t] = "dequeue" /\ ptr[t] \in InChain => ptr[t] = head
         /\ pc[t] # "next" /\ nxt[t] # NULL => next[ptr[t]] = nxt[t]
         /\ pc[t] = "swing" => next[ptr[t]] = node[t]
    /\ pc[t] = "validate" => first[t] = ptr[t]
    /\ pc[t] = "recheck" /\ op[t] = "dequeue" => second[t] = nxt[t]
    /\ pc[t] \in {"tail", "value", "unlink"} =>
         nxt[t] \in InChain \cup Gone /\ second[t] = nxt[t]
    /\ pc[t] \in {"value", "unlink"} /\ head = ptr[t] => tail # ptr[t]
Readers == \A t \in Threads : ReaderOf(t)

(* A node in use that a scan has taken is one it knows to be protected, or   *)
(* the hazard pointer that names it is still to be read.                    *)
WillSee(s, t, n) ==
    \/ n \in protected[s]
    \/ pc[s] = "first" /\ t \in Elems(unread[s])
    \/ pc[s] = "second_of" /\ t \in Elems(Tail(unread[s]))
    \/ pc[s] = "second_of" /\ t = Head(unread[s]) /\ second[t] = n /\ first[t] # n
Scans ==
    \A s, t \in Threads : pc[s] \in {"first", "second_of"} =>
        \A n \in InUse(t) \cap list[s] : WillSee(s, t, n)

(* The destructor finds every node that is in the list, and no other. *)
AllReached == InList = InChain

(* The counter, with what was linked or unlinked and is not counted yet. *)
ToAdd      == {t \in Threads : op[t] = "enqueue" /\ pc[t] \in {"swing", "count"}}
ToSubtract == {t \in Threads : op[t] = "dequeue" /\ pc[t] = "count"}
SizeInv ==
    head # NULL =>
        size + Cardinality(ToAdd) = Cardinality(InChain) - 1 + Cardinality(ToSubtract)

(* The items: the list as a sequence, which nodes carry one, and which call *)
(* has one in hand.                                                         *)
Distinct(s) == \A i, j \in 1 .. Len(s) : s[i] = s[j] => i = j
InOrder ==
    head # NULL =>
      /\ Linked \in Seq(Nodes) /\ IsPath(Linked, head, next)
      /\ Distinct(Linked) /\ Elems(Linked) = InChain
Valued ==
    /\ \A n \in InChain : n # head => value[n] \in Values
    /\ \A t \in Threads : \A n \in Unlinked(t) : value[n] \in Values

HasItem(t) ==
    /\ op[t] = "dequeue"
    /\ pc[t] \in {"count", "clear", "retire", "counter", "exchange"} \cup Scanning
    /\ pc[t] = "clear" => nxt[t] # NULL
ItemOf(t) ==
    /\ HasItem(t) => item[t] \in Values
    /\ pc[t] = "unlink" => item[t] = value[nxt[t]]
    /\ ~HasItem(t) /\ pc[t] # "unlink" => item[t] = NULL
ItemInv == InOrder /\ Valued /\ \A t \in Threads : ItemOf(t)

SafeInv == Types /\ Control /\ Disjoint /\ Chain /\ Readers /\ Scans
QueueInv == SafeInv /\ AllReached

================================================================================
