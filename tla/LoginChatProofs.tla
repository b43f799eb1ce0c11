---------------------------- MODULE LoginChatProofs ----------------------------
(***************************************************************************)
(* Proofs about the login server and the chat server, for any number of      *)
(* clients, accounts, keys, content threads, sectors and packets.           *)
(* LoginChatInvariant has the induction hypotheses.                         *)
(***************************************************************************)
EXTENDS LoginChatInvariant, FiniteSetTheorems, TLAPS

-----------------------------------------------------------------------------
(* Keys.                                                                    *)

LEMMA StoredType ==
    ASSUME KeyTypes, NEW a \in Accounts, NEW k \in Keys
    PROVE  /\ <<a, k>> \in Logins /\ issued[<<a, k>>] \in Nat /\ admitted[<<a, k>>] \in Nat
           /\ Stored(<<a, k>>) = IF store[a].key = k THEN 1 ELSE 0
BY DEF KeyTypes, Logins, Stored

(* What has become of the keys when the one of an account is lost. *)
LEMMA FateType ==
    ASSUME KeyTypes, NEW a \in Accounts
    PROVE  /\ FateIfLost(a) \in [Clients -> {"none", "pending", "failed", "valid", "gone"}]
           /\ \A c \in Clients : FateIfLost(a)[c] = fate[c] \/ FateIfLost(a)[c] = "gone"
           /\ \A c \in Clients : store[a] # Empty /\ store[a].by = c => FateIfLost(a)[c] = "gone"
<1>1. fate \in [Clients -> {"none", "pending", "failed", "valid", "gone"}]
  BY DEF KeyTypes
<1>2. CASE store[a] = Empty
  BY <1>1, <1>2 DEF FateIfLost
<1>3. CASE store[a] # Empty
  BY <1>1, <1>3 DEF FateIfLost
<1>4. QED
  BY <1>2, <1>3

(* The key of an account goes, and lets in nobody or one session. *)
Lost(a) == store' = [store EXCEPT ![a] = Empty] /\ fate' = FateIfLost(a)

LEMMA LostKey ==
    ASSUME KeyInv, NEW a \in Accounts, Lost(a), UNCHANGED issued,
           \/ UNCHANGED admitted
           \/ \E k \in Keys : /\ store[a].key = k
                              /\ admitted' = [admitted EXCEPT ![<<a, k>>] = @ + 1]
    PROVE  KeyInv'
<1>a. KeyTypes /\ None \notin Keys
  BY KeyAssumption DEF KeyInv
<1>1. /\ fate' \in [Clients -> {"none", "pending", "failed", "valid", "gone"}]
      /\ store' \in [Accounts -> [key : Keys \cup {None}, by : Clients \cup {None}]]
      /\ store'[a].key = None
      /\ \A b \in Accounts : b # a => store'[b] = store[b]
  BY <1>a, FateType DEF Lost, KeyTypes, Empty
<1>2. CASE UNCHANGED admitted
  <2>1. KeyTypes'
    BY <1>a, <1>1, <1>2 DEF KeyTypes
  <2>2. ASSUME NEW b \in Accounts, NEW k \in Keys
        PROVE  admitted'[<<b, k>>] + Stored(<<b, k>>)' <= issued'[<<b, k>>]
    <3>1. admitted[<<b, k>>] + Stored(<<b, k>>) <= issued[<<b, k>>]
      BY <1>a, StoredType DEF KeyInv, KeysOnce
    <3>2. store'[b].key = k => store[b].key = k
      BY <1>a, <1>1
    <3>3. QED
      BY <3>1, <3>2, <1>a, <1>2, StoredType DEF Stored
  <2>3. QED
    BY <2>1, <2>2 DEF KeyInv, KeysOnce, Logins
<1>3. ASSUME NEW k \in Keys, store[a].key = k,
             admitted' = [admitted EXCEPT ![<<a, k>>] = @ + 1]
      PROVE  KeyInv'
  <2>1. admitted' \in [Logins -> Nat] /\ admitted'[<<a, k>>] = admitted[<<a, k>>] + 1
        /\ \A l \in Logins : l # <<a, k>> => admitted'[l] = admitted[l]
    BY <1>3, <1>a, StoredType DEF KeyTypes
  <2>2. KeyTypes'
    BY <1>a, <1>1, <2>1 DEF KeyTypes
  <2>3. ASSUME NEW b \in Accounts, NEW j \in Keys
        PROVE  admitted'[<<b, j>>] + Stored(<<b, j>>)' <= issued'[<<b, j>>]
    <3>1. admitted[<<b, j>>] + Stored(<<b, j>>) <= issued[<<b, j>>]
      BY <1>a, StoredType DEF KeyInv, KeysOnce
    <3>2. CASE <<b, j>> = <<a, k>>
      BY <3>1, <3>2, <1>3, <1>a, <1>1, <2>1, StoredType DEF Stored
    <3>3. CASE <<b, j>> # <<a, k>>
      <4>1. store'[b].key = j => store[b].key = j
        BY <1>a, <1>1
      <4>2. admitted'[<<b, j>>] = admitted[<<b, j>>]
        BY <2>1, <3>3, <1>a, StoredType
      <4>3. QED
        BY <3>1, <4>1, <4>2, <1>a, StoredType DEF Stored
    <3>4. QED
      BY <3>2, <3>3
  <2>4. QED
    BY <2>2, <2>3 DEF KeyInv, KeysOnce, Logins
<1>4. QED
  BY <1>2, <1>3

LEMMA NewKey ==
    ASSUME KeyInv, NEW c \in Clients, NEW a \in Accounts, NEW k \in Keys, SetEx(c, a, k)
    PROVE  KeyInv'
<1>a. KeyTypes /\ None \notin Keys
  BY KeyAssumption DEF KeyInv
<1>1. /\ fate' \in [Clients -> {"none", "pending", "failed", "valid", "gone"}]
      /\ store' \in [Accounts -> [key : Keys \cup {None}, by : Clients \cup {None}]]
      /\ store'[a].key \in {k, None}
      /\ \A b \in Accounts : b # a => store'[b] = store[b]
  BY <1>a, FateType DEF SetEx, KeyTypes, AsStored
<1>2. /\ issued' = [issued EXCEPT ![<<a, k>>] = @ + 1] /\ UNCHANGED admitted
  BY DEF SetEx
<1>3. issued' \in [Logins -> Nat] /\ issued'[<<a, k>>] = issued[<<a, k>>] + 1
      /\ \A l \in Logins : l # <<a, k>> => issued'[l] = issued[l]
  BY <1>2, <1>a, StoredType DEF KeyTypes
<1>4. KeyTypes'
  BY <1>a, <1>1, <1>2, <1>3 DEF KeyTypes
<1>5. ASSUME NEW b \in Accounts, NEW j \in Keys
      PROVE  admitted'[<<b, j>>] + Stored(<<b, j>>)' <= issued'[<<b, j>>]
  <2>1. admitted[<<b, j>>] + Stored(<<b, j>>) <= issued[<<b, j>>]
    BY <1>a, StoredType DEF KeyInv, KeysOnce
  <2>2. CASE <<b, j>> = <<a, k>>
    BY <2>1, <2>2, <1>a, <1>2, <1>3, StoredType DEF Stored
  <2>3. CASE <<b, j>> # <<a, k>>
    <3>1. store'[b].key = j => store[b].key = j
      BY <2>3, <1>a, <1>1
    <3>2. issued'[<<b, j>>] = issued[<<b, j>>]
      BY <1>3, <2>3, <1>a, StoredType
    <3>3. QED
      BY <2>1, <3>1, <3>2, <1>2, <1>a, StoredType DEF Stored
  <2>4. QED
    BY <2>2, <2>3
<1>6. QED
  BY <1>4, <1>5 DEF KeyInv, KeysOnce, Logins

-----------------------------------------------------------------------------
(* The jobs of the login server.                                            *)

LEMMA AppendAt ==
    ASSUME NEW S, NEW q \in Seq(S), NEW x \in S
    PROVE  /\ Append(q, x) \in Seq(S) /\ Len(Append(q, x)) = Len(q) + 1 /\ Len(q) \in Nat
           /\ \A k \in 1 .. Len(q) : Append(q, x)[k] = q[k]
           /\ Append(q, x)[Len(q) + 1] = x
OBVIOUS

LEMMA TailAt ==
    ASSUME NEW S, NEW q \in Seq(S), q # <<>>
    PROVE  /\ Tail(q) \in Seq(S) /\ Len(Tail(q)) = Len(q) - 1 /\ Len(q) \in Nat \ {0}
           /\ \A k \in 1 .. Len(q) - 1 : Tail(q)[k] = q[k + 1]
           /\ Head(q) = q[1] /\ Head(q) \in S
OBVIOUS

Types == {"JOIN", "LEAVE"} \cup Asks
Ids   == Clients \cup {Zero}

LEMMA JobType ==
    ASSUME NEW job
    PROVE  job \in Jobs <=> /\ job = [type |-> job.type, id |-> job.id]
                            /\ job.type \in Types /\ job.id \in Ids
                            /\ job.type # "JOIN" => job.id \in Clients
<1>1. ASSUME job \in Jobs
      PROVE  /\ job = [type |-> job.type, id |-> job.id]
             /\ job.type \in Types /\ job.id \in Ids
             /\ job.type # "JOIN" => job.id \in Clients
  BY <1>1 DEF Jobs, Asks, Types, Ids
<1>2. ASSUME /\ job = [type |-> job.type, id |-> job.id]
             /\ job.type \in Types /\ job.id \in Ids
             /\ job.type # "JOIN" => job.id \in Clients
      PROVE  job \in Jobs
  BY <1>2 DEF Jobs, Asks, Types, Ids
<1>3. QED
  BY <1>1, <1>2

LEMMA NewJob ==
    ASSUME NEW type \in Types, NEW id \in Ids, type # "JOIN" => id \in Clients
    PROVE  /\ Job(type, id) \in Jobs /\ ThreadOf[id] \in ContentThreads
           /\ Job(type, id).type = type /\ Job(type, id).id = id
<1>1. Job(type, id).type = type /\ Job(type, id).id = id
  BY DEF Job
<1>2. QED
  BY <1>1, JobType, LoginAssumption DEF Job, Ids

(* May the jobs old and new of one session follow each other? *)
Follows(old, new) ==
    new.id \in Clients /\ old.id = new.id =>
        (new.type = "JOIN" => new.id \in late) /\ ~(new.type \in Asks /\ old.type \in Asks)

LEMMA Posted ==
    ASSUME LoginTypes, Queues, late \subseteq late', NEW job \in Jobs, Post(job.type, job.id),
           \A old \in Pending(ThreadOf[job.id]) : Follows(old, job)'
    PROVE  /\ jobs' \in [ContentThreads -> Seq(Jobs)]
           /\ \A t \in ContentThreads : t # ThreadOf[job.id] => Pending(t)' = Pending(t)
           /\ Pending(ThreadOf[job.id])' = Pending(ThreadOf[job.id]) \cup {job}
           /\ \A t \in ContentThreads : InOrder(t)'
           /\ \A t \in ContentThreads : jobs[t] # <<>> =>
                  jobs'[t] # <<>> /\ jobs'[t][1] = jobs[t][1]
<1>1. PICK t \in ContentThreads : t = ThreadOf[job.id]
  BY JobType, LoginAssumption DEF Ids
<1>2. jobs' = [jobs EXCEPT ![t] = Append(@, job)]
  BY <1>1, JobType DEF Post, Job
<1>3. PICK q \in Seq(Jobs) : q = jobs[t]
  BY DEF LoginTypes
<1>4. PICK r \in Seq(Jobs) : r = jobs'[t] /\ r = Append(q, job)
  BY <1>2, <1>3, AppendAt DEF LoginTypes
<1>5. PICK n \in Nat : n = Len(q)
  BY <1>3
<1>6. /\ Len(r) = n + 1 /\ r[n + 1] = job
      /\ \A k \in 1 .. n : r[k] = q[k]
  BY <1>3, <1>4, <1>5, AppendAt
<1>7. /\ jobs' \in [ContentThreads -> Seq(Jobs)]
      /\ \A u \in ContentThreads \ {t} : jobs'[u] = jobs[u]
  BY <1>2, <1>3, <1>4 DEF LoginTypes
<1>8. \A u \in ContentThreads \ {t} : Pending(u)' = Pending(u) /\ InOrder(u)'
  <2>1. ASSUME NEW u \in ContentThreads \ {t} PROVE Pending(u)' = Pending(u) /\ InOrder(u)'
    <3>1. jobs'[u] = jobs[u] /\ InOrder(u)
      BY <1>7 DEF Queues
    <3>2. Pending(u)' = Pending(u)
      BY <3>1 DEF Pending
    <3>3. InOrder(u)'
      BY <3>1 DEF InOrder
    <3>4. QED
      BY <3>2, <3>3
  <2>2. QED
    BY <2>1
<1>9. Pending(t) = {q[k] : k \in 1 .. n} /\ Pending(t)' = {r[k] : k \in 1 .. n + 1}
  BY <1>3, <1>4, <1>5, <1>6 DEF Pending
<1>10. 1 .. n + 1 = (1 .. n) \cup {n + 1}
  OBVIOUS
<1>11. Pending(t)' = Pending(t) \cup {job}
  BY <1>6, <1>9, <1>10
<1>12. InOrder(t)'
  <2> SUFFICES ASSUME NEW k \in 1 .. n + 1, NEW j \in 1 .. k - 1,
                      r[k].id \in Clients, r[j].id = r[k].id
               PROVE  /\ r[k].type = "JOIN" => r[k].id \in late'
                      /\ ~(r[k].type \in Asks /\ r[j].type \in Asks)
    BY <1>4, <1>6 DEF InOrder
  <2>1. j \in 1 .. n /\ r[j] = q[j] /\ q[j] \in Pending(t)
    BY <1>6, <1>9
  <2>2. CASE k \in 1 .. n
    <3>1. r[k] = q[k] /\ k \in 1 .. Len(jobs[t]) /\ InOrder(t)
      BY <2>2, <1>3, <1>5, <1>6 DEF Queues
    <3>2. QED
      BY <2>1, <3>1, <1>3 DEF InOrder
  <2>3. CASE k = n + 1
    <3>1. Follows(q[j], job)'
      BY <2>1, <1>1
    <3>2. QED
      BY <2>1, <2>3, <3>1, <1>6 DEF Follows
  <2>4. QED
    BY <2>2, <2>3
<1>13. q # <<>> => r # <<>> /\ r[1] = q[1]
  BY <1>5, <1>6
<1>14. QED
  BY <1>1, <1>3, <1>4, <1>7, <1>8, <1>11, <1>12, <1>13

LEMMA Done ==
    ASSUME LoginTypes, Queues, UNCHANGED late, NEW t \in ContentThreads, jobs[t] # <<>>, NextJob(t)
    PROVE  /\ jobs' \in [ContentThreads -> Seq(Jobs)]
           /\ \A u \in ContentThreads \ {t} : jobs'[u] = jobs[u] /\ Pending(u)' = Pending(u)
           /\ \A u \in ContentThreads : InOrder(u)'
           /\ jobs[t][1] \in Pending(t) /\ Pending(t) = Pending(t)' \cup {jobs[t][1]}
           /\ \A job \in Pending(t)' : Follows(jobs[t][1], job)
<1>1. PICK q \in Seq(Jobs) : q = jobs[t] /\ q # <<>>
  BY DEF LoginTypes
<1>2. PICK r \in Seq(Jobs) : r = jobs'[t] /\ r = Tail(q)
  BY <1>1, TailAt DEF LoginTypes, NextJob
<1>3. PICK n \in Nat : n + 1 = Len(q)
  <2>1. Len(q) - 1 \in Nat /\ Len(q) - 1 + 1 = Len(q)
    BY <1>1, TailAt
  <2>2. QED
    BY <2>1
<1>4. Len(r) = n /\ \A k \in 1 .. n : r[k] = q[k + 1]
  BY <1>1, <1>2, <1>3, TailAt
<1>5. /\ jobs' \in [ContentThreads -> Seq(Jobs)]
      /\ \A u \in ContentThreads \ {t} : jobs'[u] = jobs[u]
  BY <1>1, <1>2 DEF LoginTypes, NextJob
<1>6. \A u \in ContentThreads \ {t} : Pending(u)' = Pending(u) /\ InOrder(u)'
  <2>1. ASSUME NEW u \in ContentThreads \ {t} PROVE Pending(u)' = Pending(u) /\ InOrder(u)'
    <3>1. jobs'[u] = jobs[u] /\ InOrder(u)
      BY <1>5 DEF Queues
    <3>2. QED
      BY <3>1 DEF Pending, InOrder
  <2>2. QED
    BY <2>1
<1>7. Pending(t) = {q[k] : k \in 1 .. n + 1} /\ Pending(t)' = {r[k] : k \in 1 .. n}
  BY <1>1, <1>2, <1>3, <1>4 DEF Pending
<1>8. q[1] \in Pending(t)
  <2>1. 1 \in 1 .. n + 1
    OBVIOUS
  <2>2. QED
    BY <2>1, <1>7
<1>9. Pending(t) = Pending(t)' \cup {q[1]}
  <2>1. ASSUME NEW x \in Pending(t) PROVE x \in Pending(t)' \cup {q[1]}
    <3>1. PICK k \in 1 .. n + 1 : x = q[k]
      BY <2>1, <1>7
    <3>2. k # 1 => k - 1 \in 1 .. n /\ r[k - 1] = q[k]
      BY <1>4
    <3>3. QED
      BY <3>1, <3>2, <1>7
  <2>2. ASSUME NEW k \in 1 .. n PROVE r[k] \in Pending(t)
    <3>1. k + 1 \in 1 .. n + 1 /\ r[k] = q[k + 1]
      BY <1>4
    <3>2. QED
      BY <3>1, <1>7
  <2>3. QED
    BY <2>1, <2>2, <1>7, <1>8
<1>10. InOrder(t) /\ Len(jobs[t]) = n + 1
  BY <1>1, <1>3 DEF Queues
<1>11. InOrder(t)'
  <2> SUFFICES ASSUME NEW k \in 1 .. n, NEW j \in 1 .. k - 1,
                      r[k].id \in Clients, r[j].id = r[k].id
               PROVE  /\ r[k].type = "JOIN" => r[k].id \in late
                      /\ ~(r[k].type \in Asks /\ r[j].type \in Asks)
    BY <1>2, <1>4 DEF InOrder
  <2>1. /\ k + 1 \in 1 .. Len(jobs[t]) /\ j + 1 \in 1 .. (k + 1) - 1
        /\ r[k] = jobs[t][k + 1] /\ r[j] = jobs[t][j + 1]
    BY <1>1, <1>3, <1>4
  <2>2. QED
    BY <2>1, <1>10 DEF InOrder
<1>12. ASSUME NEW job \in Pending(t)' PROVE Follows(q[1], job)
  <2>1. PICK k \in 1 .. n : job = r[k]
    BY <1>7, <1>12
  <2>2. /\ k + 1 \in 1 .. Len(jobs[t]) /\ 1 \in 1 .. (k + 1) - 1
        /\ job = jobs[t][k + 1]
    BY <2>1, <1>1, <1>3, <1>4
  <2>3. QED
    BY <2>2, <1>1, <1>10 DEF InOrder, Follows
<1>13. QED
  BY <1>1, <1>5, <1>6, <1>8, <1>9, <1>11, <1>12

(* What is known of the job a content thread is at. *)
LEMMA HeadJob ==
    ASSUME LoginInv, NEW t \in ContentThreads, jobs[t] # <<>>
    PROVE  \E job \in Jobs :
             /\ job = jobs[t][1] /\ job = Head(jobs[t]) /\ JobId(t) = job.id
             /\ job \in Pending(t) /\ JobOf(t, job) /\ ThreadOf[job.id] = t
             /\ job.id \in Ids /\ (job.type # "JOIN" => job.id \in Clients)
<1>1. PICK q \in Seq(Jobs) : q = jobs[t] /\ q # <<>>
  BY DEF LoginInv, LoginTypes
<1>2. Head(q) = q[1] /\ q[1] \in Jobs /\ 1 \in 1 .. Len(q)
  BY <1>1, TailAt
<1>3. q[1] \in Pending(t)
  BY <1>1, <1>2 DEF Pending
<1>4. JobOf(t, q[1])
  BY <1>3 DEF LoginInv, Queues
<1>5. QED
  BY <1>1, <1>2, <1>3, <1>4, JobType DEF JobId, JobOf

(* Every job that is still to be done. *)
LEMMA PendingJob ==
    ASSUME LoginInv, NEW t \in ContentThreads, NEW job \in Pending(t)
    PROVE  /\ job \in Jobs /\ JobOf(t, job) /\ ThreadOf[job.id] = t
           /\ job.type \in Types /\ job.id \in Ids /\ (job.type # "JOIN" => job.id \in Clients)
<1>1. PICK q \in Seq(Jobs) : q = jobs[t]
  BY DEF LoginInv, LoginTypes
<1>2. job \in Jobs
  BY <1>1 DEF Pending
<1>3. QED
  BY <1>2, JobType DEF LoginInv, Queues, JobOf

LEMMA WaitsKept ==
    ASSUME NEW c \in Clients, NEW types, Waits(c, types),
           \A job \in Pending(ThreadOf[c]) : job.id = c /\ job.type \in types =>
               job \in Pending(ThreadOf[c])'
    PROVE  Waits(c, types)'
BY DEF Waits

-----------------------------------------------------------------------------
(* The steps of the login server.                                           *)

LEMMA SameJobs ==
    ASSUME Queues, UNCHANGED <<jobs, late>>
    PROVE  \A t \in ContentThreads : Pending(t)' = Pending(t) /\ InOrder(t)'
BY DEF Queues, Pending, InOrder

LEMMA AcceptLoginInv ==
    ASSUME LoginInv, NEW c \in Clients, AcceptLogin(c)
    PROVE  LoginInv'
<1>a. LoginTypes /\ Queues /\ None \notin Clients
  BY KeyAssumption DEF LoginInv
<1>1. /\ session[c] = "new" /\ accepting = None /\ accepting' = c
      /\ session' = [session EXCEPT ![c] = "open"]
      /\ UNCHANGED <<jobs, step, status, playerOf, asked, told, late, store, fate>>
  BY DEF AcceptLogin, keyVars
<1>2. /\ session'[c] = "open" /\ \A d \in Clients : d # c => session'[d] = session[d]
  BY <1>1, <1>a DEF LoginTypes
<1>3. LoginTypes'
  BY <1>1, <1>a DEF LoginTypes
<1>4. \A t \in ContentThreads : Pending(t)' = Pending(t) /\ InOrder(t)'
  BY <1>1, <1>a, SameJobs
<1>5. ASSUME NEW t \in ContentThreads, NEW job \in Pending(t)' PROVE JobOf(t, job)'
  <2>1. JobOf(t, job) /\ job.id \in Ids /\ (job.type # "JOIN" => job.id \in Clients)
    BY <1>4, PendingJob
  <2>2. job.id # c
    BY <2>1, <1>1 DEF JobOf
  <2>3. QED
    BY <2>1, <2>2, <1>1, <1>2, LoginAssumption DEF JobOf, Asks
<1>6. ASSUME NEW d \in Clients PROVE SessionOf(d)' /\ FateOf(d)'
  <2>1. SessionOf(d) /\ FateOf(d)
    BY DEF LoginInv
  <2>2. Waits(d, {"JOIN"}) => Waits(d, {"JOIN"})'
    BY <1>4, WaitsKept, LoginAssumption
  <2>3. Waits(d, Asks) => Waits(d, Asks)'
    BY <1>4, WaitsKept, LoginAssumption
  <2>4. Waits(d, {"LEAVE"}) => Waits(d, {"LEAVE"})'
    BY <1>4, WaitsKept, LoginAssumption
  <2>5. Waits(d, {"JOIN"})' => Waits(d, {"JOIN"})
    BY <1>4, LoginAssumption DEF Waits
  <2>6. SessionOf(d)'
    <3>1. CASE d = c
      BY <3>1, <2>1, <1>1, <1>2, <1>a DEF SessionOf, Timely
    <3>2. CASE d # c
      BY <3>2, <2>1, <2>2, <2>3, <2>4, <2>5, <1>1, <1>2, <1>a DEF SessionOf, Timely
    <3>3. QED
      BY <3>1, <3>2
  <2>7. FateOf(d)'
    BY <2>1, <1>1 DEF FateOf
  <2>8. QED
    BY <2>6, <2>7
<1>7. \A t \in ContentThreads : LoginOf(t)'
  BY <1>1 DEF LoginInv, LoginOf
<1>8. QED
  BY <1>3, <1>4, <1>5, <1>6, <1>7 DEF LoginInv, Queues

(* What a step of the engine that posts the job has to keep. *)
LEMMA PostedInv ==
    ASSUME LoginInv, LoginTypes', UNCHANGED <<step, status, playerOf, store, fate>>,
           late \subseteq late', NEW job \in Jobs, Post(job.type, job.id),
           \A old \in Pending(ThreadOf[job.id]) : Follows(old, job)',
           \A t \in ContentThreads : \A old \in Pending(t)' : JobOf(t, old)',
           \A d \in Clients :
               /\ FateOf(d)'
               /\ session'[d] = "new" => told'[d] = "nothing"
               /\ session'[d] = "new" \/ accepting' = d => d \notin playerOf \cup late'
               /\ accepting' = d => session'[d] # "new"
               /\ told'[d] = "nothing" => fate[d] # "valid"
               /\ Timely(d)' => Timely(d) \/ (job.id = d /\ job.type = "JOIN")
               /\ Timely(d)' /\ session'[d] = "open" => session[d] = "open"
               /\ Timely(d)' /\ told'[d] = "waits" /\ session'[d] = "open" =>
                      \/ Timely(d) /\ told[d] = "waits"
                      \/ job.id = d /\ job.type \in Asks
               /\ Timely(d)' /\ session'[d] = "left" =>
                      \/ Timely(d) /\ session[d] = "left" /\ (job.id = d => job.type # "JOIN")
                      \/ job.id = d /\ job.type = "LEAVE"
    PROVE  LoginInv'
<1>a. LoginTypes /\ Queues
  BY DEF LoginInv
<1>1. /\ \A t \in ContentThreads : t # ThreadOf[job.id] => Pending(t)' = Pending(t)
      /\ Pending(ThreadOf[job.id])' = Pending(ThreadOf[job.id]) \cup {job}
      /\ \A t \in ContentThreads : InOrder(t)'
      /\ \A t \in ContentThreads : jobs[t] # <<>> =>
             jobs'[t] # <<>> /\ jobs'[t][1] = jobs[t][1]
  BY <1>a, Posted
<1>2. Queues'
  BY <1>1 DEF Queues
<1>3. ASSUME NEW d \in Clients PROVE SessionOf(d)'
  <2>1. SessionOf(d) /\ ThreadOf[d] \in ContentThreads
    BY LoginAssumption DEF LoginInv
  <2>2. Pending(ThreadOf[d]) \subseteq Pending(ThreadOf[d])'
    BY <2>1, <1>1
  <2>3. \A types : Waits(d, types) => Waits(d, types)'
    BY <2>2, WaitsKept
  <2>4. \A types : job.id = d /\ job.type \in types => Waits(d, types)'
    BY <1>1 DEF Waits
  <2>5. Waits(d, {"JOIN"})' => Waits(d, {"JOIN"}) \/ (job.id = d /\ job.type = "JOIN")
    BY <2>1, <1>1 DEF Waits
  <2>6. Timely(d)' /\ session'[d] = "open" => d \in playerOf' \/ Waits(d, {"JOIN"})'
    BY <2>1, <2>3, <2>4 DEF SessionOf
  <2>7. Timely(d)' /\ session'[d] = "open" /\ told'[d] = "waits" => Waits(d, Asks)'
    BY <2>1, <2>3, <2>4 DEF SessionOf
  <2>8. Timely(d)' /\ session'[d] = "left" /\ (d \in playerOf' \/ Waits(d, {"JOIN"})') =>
            Waits(d, {"LEAVE"})'
    BY <2>1, <2>3, <2>4, <2>5 DEF SessionOf
  <2>9. QED
    BY <2>6, <2>7, <2>8 DEF SessionOf
<1>4. ASSUME NEW t \in ContentThreads PROVE LoginOf(t)'
  <2>1. LoginOf(t)
    BY DEF LoginInv
  <2>2. QED
    BY <2>1, <1>1 DEF LoginOf
<1>5. QED
  BY <1>2, <1>3, <1>4 DEF LoginInv

LEMMA OnClientJoinInv ==
    ASSUME LoginInv, NEW c \in Clients, OnClientJoin(c)
    PROVE  LoginInv'
<1>a. LoginTypes /\ Queues /\ None \notin Clients /\ Zero \notin Clients /\ SessionOf(c)
  BY KeyAssumption, LoginAssumption DEF LoginInv
<1>1. /\ accepting = c /\ accepting' = None
      /\ late' = IF told[c] # "nothing" \/ session[c] = "left" THEN late \cup {c} ELSE late
      /\ UNCHANGED <<session, step, status, playerOf, asked, told, store, fate>>
  BY DEF OnClientJoin, keyVars
<1>2. PICK id \in Ids : Post("JOIN", id) /\ (id = c \/ (id = Zero /\ session[c] = "left"))
  BY DEF OnClientJoin, Ids
<1>3. PICK job \in Jobs : job.type = "JOIN" /\ job.id = id
  BY NewJob DEF Types
<1>4. /\ session[c] # "new" /\ c \notin playerOf
      /\ c \notin late' => told[c] = "nothing" /\ session[c] # "left" /\ id = c
      /\ late \subseteq late' /\ \A d \in Clients : d # c /\ d \in late' => d \in late
  BY <1>1, <1>2, <1>a DEF SessionOf
<1>5. ThreadOf[id] \in ContentThreads
  BY LoginAssumption DEF Ids
<1>6. ASSUME NEW old \in Pending(ThreadOf[id]) PROVE Follows(old, job)'
  <2>1. JobOf(ThreadOf[id], old) /\ old.type \in Types
    BY <1>5, PendingJob
  <2>2. CASE id = c /\ old.id = c
    <3>1. c \in late'
      BY <2>1, <2>2, <1>1, <1>4, <1>a DEF JobOf, Types
    <3>2. QED
      BY <3>1, <2>2, <1>3 DEF Follows, Asks
  <2>3. CASE id # c \/ old.id # c
    BY <2>3, <1>2, <1>3, <1>a DEF Follows
  <2>4. QED
    BY <2>2, <2>3
<1>7. LoginTypes' /\ Post(job.type, job.id)
  <2>1. Post(job.type, job.id)
    BY <1>2, <1>3
  <2>2. jobs' \in [ContentThreads -> Seq(Jobs)]
    BY <2>1, <1>3, <1>4, <1>6, <1>a, Posted
  <2>3. QED
    BY <2>1, <2>2, <1>1, <1>a DEF LoginTypes
<1>8. Pending(ThreadOf[id])' = Pending(ThreadOf[id]) \cup {job}
      /\ \A t \in ContentThreads : t # ThreadOf[id] => Pending(t)' = Pending(t)
  BY <1>3, <1>4, <1>6, <1>7, <1>a, Posted
<1>9. ASSUME NEW t \in ContentThreads, NEW old \in Pending(t)' PROVE JobOf(t, old)'
  <2>1. CASE old \in Pending(t)
    <3>1. JobOf(t, old) /\ old.id \in Ids
      BY <2>1, PendingJob
    <3>2. QED
      BY <3>1, <1>1, <1>4, <1>a DEF JobOf
  <2>2. CASE old = job /\ t = ThreadOf[id]
    BY <2>2, <1>1, <1>2, <1>3, <1>4, <1>a DEF JobOf, Asks
  <2>3. QED
    BY <2>1, <2>2, <1>8, <1>9
<1>10. ASSUME NEW d \in Clients
       PROVE  /\ FateOf(d)'
              /\ session'[d] = "new" => told'[d] = "nothing"
              /\ session'[d] = "new" \/ accepting' = d => d \notin playerOf \cup late'
              /\ accepting' = d => session'[d] # "new"
              /\ told'[d] = "nothing" => fate[d] # "valid"
              /\ Timely(d)' => Timely(d) \/ (job.id = d /\ job.type = "JOIN")
              /\ Timely(d)' /\ session'[d] = "open" => session[d] = "open"
              /\ Timely(d)' /\ told'[d] = "waits" /\ session'[d] = "open" =>
                     Timely(d) /\ told[d] = "waits"
              /\ Timely(d)' /\ session'[d] = "left" =>
                     Timely(d) /\ session[d] = "left" /\ (job.id = d => job.type # "JOIN")
  <2>1. SessionOf(d) /\ FateOf(d)
    BY DEF LoginInv
  <2>2. FateOf(d)'
    BY <2>1, <1>1 DEF FateOf
  <2>3. CASE d = c
    BY <2>1, <2>2, <2>3, <1>1, <1>2, <1>3, <1>4, <1>a DEF SessionOf, Timely
  <2>4. CASE d # c
    BY <2>1, <2>2, <2>4, <1>1, <1>2, <1>3, <1>4, <1>a DEF SessionOf, Timely
  <2>5. QED
    BY <2>3, <2>4
<1>11. UNCHANGED <<step, status, playerOf, store, fate>> /\ late \subseteq late'
  BY <1>1, <1>4
<1>12. QED
  BY <1>3, <1>6, <1>7, <1>9, <1>10, <1>11, PostedInv

LEMMA OnLoginRecvInv ==
    ASSUME LoginInv, NEW c \in Clients, NEW r \in LoginRequests, OnLoginRecv(c, r)
    PROVE  LoginInv'
<1>a. LoginTypes /\ Queues /\ SessionOf(c) /\ r \in Logins \cup {BadRequest}
  BY LoginAssumption DEF LoginInv
<1>1. /\ session[c] = "open" /\ told[c] = "nothing"
      /\ asked' = [asked EXCEPT ![c] = r] /\ told' = [told EXCEPT ![c] = "waits"]
      /\ UNCHANGED <<session, accepting, step, status, playerOf, late, store, fate>>
  BY DEF OnLoginRecv, keyVars
<1>2. PICK type \in Asks : Post(type, c) /\ (type = "PACKET" => r \in Logins)
  BY <1>a DEF OnLoginRecv, Asks
<1>3. PICK job \in Jobs : job.type = type /\ job.id = c
  <2>1. type \in Types /\ c \in Ids
    BY DEF Types, Ids
  <2>2. Job(type, c) \in Jobs /\ Job(type, c).type = type /\ Job(type, c).id = c
    BY <2>1, NewJob
  <2>3. QED
    BY <2>2
<1>4. /\ asked'[c] = r /\ told'[c] = "waits" /\ fate[c] # "valid"
      /\ \A d \in Clients : d # c => asked'[d] = asked[d] /\ told'[d] = told[d]
  BY <1>1, <1>a DEF LoginTypes, SessionOf
<1>5. ThreadOf[c] \in ContentThreads
  BY LoginAssumption
<1>6. ASSUME NEW old \in Pending(ThreadOf[c]) PROVE Follows(old, job)'
  <2>1. JobOf(ThreadOf[c], old)
    BY <1>5, PendingJob
  <2>2. QED
    BY <2>1, <1>1, <1>3 DEF Follows, JobOf, Asks
<1>7. LoginTypes' /\ Post(job.type, job.id)
  <2>1. Post(job.type, job.id)
    BY <1>2, <1>3
  <2>2. jobs' \in [ContentThreads -> Seq(Jobs)]
    BY <2>1, <1>1, <1>3, <1>6, <1>a, Posted
  <2>3. asked' \in [Clients -> Logins \cup {BadRequest}]
        /\ told' \in [Clients -> {"nothing", "waits", "ok", "fail"}]
    BY <1>1, <1>a DEF LoginTypes
  <2>4. QED
    BY <2>1, <2>2, <2>3, <1>1, <1>a DEF LoginTypes
<1>8. Pending(ThreadOf[c])' = Pending(ThreadOf[c]) \cup {job}
      /\ \A t \in ContentThreads : t # ThreadOf[c] => Pending(t)' = Pending(t)
  BY <1>1, <1>3, <1>6, <1>7, <1>a, Posted
<1>9. ASSUME NEW t \in ContentThreads, NEW old \in Pending(t)' PROVE JobOf(t, old)'
  <2>1. CASE old \in Pending(t)
    <3>1. JobOf(t, old) /\ old.id \in Ids /\ (old.type # "JOIN" => old.id \in Clients)
      BY <2>1, PendingJob
    <3>2. QED
      BY <3>1, <1>1, <1>4 DEF JobOf, Asks
  <2>2. CASE old = job /\ t = ThreadOf[c]
    BY <2>2, <1>1, <1>2, <1>3, <1>4 DEF JobOf, Asks
  <2>3. QED
    BY <2>1, <2>2, <1>8, <1>9
<1>10. ASSUME NEW d \in Clients
       PROVE  /\ FateOf(d)'
              /\ session'[d] = "new" => told'[d] = "nothing"
              /\ session'[d] = "new" \/ accepting' = d => d \notin playerOf \cup late'
              /\ accepting' = d => session'[d] # "new"
              /\ told'[d] = "nothing" => fate[d] # "valid"
              /\ Timely(d)' => Timely(d)
              /\ told'[d] = "waits" => told[d] = "waits" \/ (job.id = d /\ job.type \in Asks)
              /\ job.type # "JOIN"
  <2>1. SessionOf(d) /\ FateOf(d)
    BY DEF LoginInv
  <2>2. CASE d = c
    BY <2>1, <2>2, <1>1, <1>2, <1>3, <1>4 DEF SessionOf, FateOf, Timely, Asks
  <2>3. CASE d # c
    <3>1. FateOf(d)'
      BY <2>1, <2>3, <1>1, <1>4 DEF FateOf
    <3>2. QED
      BY <2>1, <2>3, <3>1, <1>1, <1>2, <1>3, <1>4 DEF SessionOf, Timely, Asks
  <2>4. QED
    BY <2>2, <2>3
<1>11. UNCHANGED <<session, step, status, playerOf, store, fate>> /\ late \subseteq late'
  BY <1>1
<1>12. QED
  BY <1>3, <1>6, <1>7, <1>9, <1>10, <1>11, PostedInv

LEMMA OnLoginLeaveInv ==
    ASSUME LoginInv, NEW c \in Clients, OnLoginLeave(c)
    PROVE  LoginInv'
<1>a. LoginTypes /\ Queues /\ SessionOf(c)
  BY DEF LoginInv
<1>1. /\ session[c] \in {"open", "closing"} /\ session' = [session EXCEPT ![c] = "left"]
      /\ Post("LEAVE", c)
      /\ UNCHANGED <<accepting, step, status, playerOf, asked, told, late, store, fate>>
  BY DEF OnLoginLeave, keyVars
<1>2. PICK job \in Jobs : job.type = "LEAVE" /\ job.id = c
  BY NewJob DEF Types, Ids
<1>3. session'[c] = "left" /\ \A d \in Clients : d # c => session'[d] = session[d]
  BY <1>1, <1>a DEF LoginTypes
<1>4. ThreadOf[c] \in ContentThreads
  BY LoginAssumption
<1>5. \A old \in Pending(ThreadOf[c]) : Follows(old, job)'
  BY <1>2 DEF Follows, Asks
<1>6. LoginTypes' /\ Post(job.type, job.id)
  <2>1. Post(job.type, job.id)
    BY <1>1, <1>2
  <2>2. jobs' \in [ContentThreads -> Seq(Jobs)]
    BY <2>1, <1>1, <1>2, <1>5, <1>a, Posted
  <2>3. QED
    BY <2>1, <2>2, <1>1, <1>a DEF LoginTypes
<1>7. Pending(ThreadOf[c])' = Pending(ThreadOf[c]) \cup {job}
      /\ \A t \in ContentThreads : t # ThreadOf[c] => Pending(t)' = Pending(t)
  BY <1>1, <1>2, <1>5, <1>6, <1>a, Posted
<1>8. ASSUME NEW t \in ContentThreads, NEW old \in Pending(t)' PROVE JobOf(t, old)'
  <2>1. CASE old \in Pending(t)
    <3>1. JobOf(t, old) /\ old.id \in Ids /\ (old.type # "JOIN" => old.id \in Clients)
      BY <2>1, PendingJob
    <3>2. QED
      BY <3>1, <1>1, <1>3 DEF JobOf
  <2>2. CASE old = job /\ t = ThreadOf[c]
    BY <2>2, <1>1, <1>2, <1>3 DEF JobOf, Asks
  <2>3. QED
    BY <2>1, <2>2, <1>7, <1>8
<1>9. ASSUME NEW d \in Clients
      PROVE  /\ FateOf(d)'
             /\ session'[d] = "new" => told'[d] = "nothing"
             /\ session'[d] = "new" \/ accepting' = d => d \notin playerOf \cup late'
             /\ accepting' = d => session'[d] # "new"
             /\ told'[d] = "nothing" => fate[d] # "valid"
             /\ Timely(d)' => Timely(d)
             /\ session'[d] = "open" => session[d] = "open"
             /\ session'[d] = "left" => session[d] = "left" \/ job.id = d
  <2>1. SessionOf(d) /\ FateOf(d)
    BY DEF LoginInv
  <2>2. FateOf(d)'
    BY <2>1, <1>1 DEF FateOf
  <2>3. QED
    BY <2>1, <2>2, <1>1, <1>2, <1>3 DEF SessionOf, Timely
<1>10. UNCHANGED <<told, step, status, playerOf, store, fate>> /\ late \subseteq late'
  BY <1>1
<1>11. QED
  BY <1>2, <1>5, <1>6, <1>8, <1>9, <1>10, PostedInv

(* What a content thread that is done with a job leaves of the others. *)
LEMMA LeftOver ==
    ASSUME LoginInv, UNCHANGED late, NEW t \in ContentThreads, jobs[t] # <<>>, NextJob(t),
           NEW head, head = jobs[t][1]
    PROVE  /\ \A u \in ContentThreads : Pending(u)' \subseteq Pending(u)
           /\ \A d \in Clients : \A types :
                  /\ Waits(d, types)' => Waits(d, types)
                  /\ Waits(d, types) => Waits(d, types)' \/ (head.id = d /\ head.type \in types)
           /\ \A u \in ContentThreads \ {t} : jobs'[u] = jobs[u]
           /\ jobs' \in [ContentThreads -> Seq(Jobs)] /\ \A u \in ContentThreads : InOrder(u)'
           /\ \A u \in ContentThreads : \A job \in Pending(u)' : Follows(head, job)
<1>a. LoginTypes /\ Queues
  BY DEF LoginInv
<1>1. /\ jobs' \in [ContentThreads -> Seq(Jobs)]
      /\ \A u \in ContentThreads \ {t} : jobs'[u] = jobs[u] /\ Pending(u)' = Pending(u)
      /\ \A u \in ContentThreads : InOrder(u)'
      /\ Pending(t) = Pending(t)' \cup {head} /\ head \in Pending(t)
      /\ \A job \in Pending(t)' : Follows(head, job)
  BY <1>a, Done
<1>2. \A u \in ContentThreads : Pending(u)' \subseteq Pending(u)
  BY <1>1
<1>3. ThreadOf[head.id] = t
  BY <1>1, PendingJob
<1>4. ASSUME NEW d \in Clients, NEW types
      PROVE  /\ Waits(d, types)' => Waits(d, types)
             /\ Waits(d, types) => Waits(d, types)' \/ (head.id = d /\ head.type \in types)
  <2>1. ThreadOf[d] \in ContentThreads
    BY LoginAssumption
  <2>2. Waits(d, types)' => Waits(d, types)
    BY <2>1, <1>2 DEF Waits
  <2>3. \A job \in Pending(ThreadOf[d]) : job \in Pending(ThreadOf[d])' \/ job = head
    BY <2>1, <1>1
  <2>4. Waits(d, types) => Waits(d, types)' \/ (head.id = d /\ head.type \in types)
    BY <2>3 DEF Waits
  <2>5. QED
    BY <2>2, <2>4
<1>5. ASSUME NEW u \in ContentThreads, NEW job \in Pending(u)' PROVE Follows(head, job)
  <2>1. CASE u = t
    BY <2>1, <1>1, <1>5
  <2>2. CASE u # t
    <3>1. ThreadOf[job.id] = u
      BY <1>2, <1>5, PendingJob
    <3>2. QED
      BY <2>2, <3>1, <1>3 DEF Follows
  <2>3. QED
    BY <2>1, <2>2
<1>6. QED
  BY <1>1, <1>2, <1>4, <1>5

LEMMA DoJoinInv ==
    ASSUME LoginInv, NEW t \in ContentThreads, DoJoin(t)
    PROVE  LoginInv'
<1>a. LoginTypes /\ Queues /\ Zero \notin Clients
  BY LoginAssumption DEF LoginInv
<1>1. /\ step[t] = "wait" /\ jobs[t] # <<>> /\ NextJob(t)
      /\ playerOf' = playerOf \cup {JobId(t)}
      /\ UNCHANGED <<session, accepting, step, status, asked, told, late, store, fate>>
  BY DEF DoJoin, At, keyVars
<1>2. PICK head \in Jobs, c \in Ids :
         /\ head = jobs[t][1] /\ c = head.id /\ JobId(t) = c /\ head \in Pending(t)
         /\ JobOf(t, head) /\ ThreadOf[c] = t /\ head.type = "JOIN"
  BY <1>1, HeadJob DEF DoJoin, At
<1>3. /\ \A u \in ContentThreads : Pending(u)' \subseteq Pending(u)
      /\ \A d \in Clients : \A types :
             /\ Waits(d, types)' => Waits(d, types)
             /\ Waits(d, types) => Waits(d, types)' \/ (head.id = d /\ head.type \in types)
      /\ \A u \in ContentThreads \ {t} : jobs'[u] = jobs[u]
      /\ jobs' \in [ContentThreads -> Seq(Jobs)] /\ \A u \in ContentThreads : InOrder(u)'
      /\ \A u \in ContentThreads : \A job \in Pending(u)' : Follows(head, job)
  BY <1>1, <1>2, LeftOver
<1>4. LoginTypes'
  BY <1>3, <1>1, <1>2, <1>a DEF LoginTypes, Ids
<1>5. ASSUME NEW u \in ContentThreads, NEW job \in Pending(u)' PROVE JobOf(u, job)'
  <2>1. JobOf(u, job) /\ Follows(head, job)
    BY <1>3, <1>5, PendingJob
  <2>2. QED
    BY <2>1, <1>1, <1>2 DEF JobOf, Follows
<1>6. ASSUME NEW d \in Clients PROVE SessionOf(d)' /\ FateOf(d)'
  <2>1. SessionOf(d) /\ FateOf(d)
    BY DEF LoginInv
  <2>2. FateOf(d)'
    BY <2>1, <1>1 DEF FateOf
  <2>3. Waits(d, Asks) => Waits(d, Asks)'
    BY <1>2, <1>3 DEF Asks
  <2>4. Waits(d, {"LEAVE"}) => Waits(d, {"LEAVE"})'
    BY <1>2, <1>3
  <2>5. (Waits(d, {"JOIN"}) => Waits(d, {"JOIN"})' \/ d = c)
        /\ (Waits(d, {"JOIN"})' => Waits(d, {"JOIN"}))
    BY <1>2, <1>3
  <2>6. d = c => Waits(d, {"JOIN"}) /\ session[d] # "new" /\ accepting # d
    BY <1>2 DEF Waits, JobOf
  <2>7. (d \in playerOf' <=> d \in playerOf \/ d = c)
    BY <1>1, <1>2
  <2>8. SessionOf(d)'
    BY <2>1, <2>3, <2>4, <2>5, <2>6, <2>7, <1>1 DEF SessionOf, Timely
  <2>9. QED
    BY <2>2, <2>8
<1>7. ASSUME NEW u \in ContentThreads PROVE LoginOf(u)'
  <2>1. LoginOf(u)
    BY DEF LoginInv
  <2>2. QED
    BY <2>1, <1>1, <1>3 DEF LoginOf
<1>8. Queues'
  BY <1>3, <1>5 DEF Queues
<1>9. QED
  BY <1>4, <1>6, <1>7, <1>8 DEF LoginInv

LEMMA DoLeaveInv ==
    ASSUME LoginInv, NEW t \in ContentThreads, DoLeave(t)
    PROVE  LoginInv'
<1>a. LoginTypes /\ Queues
  BY DEF LoginInv
<1>1. /\ step[t] = "wait" /\ jobs[t] # <<>> /\ NextJob(t)
      /\ playerOf' = playerOf \ {JobId(t)}
      /\ UNCHANGED <<session, accepting, step, status, asked, told, late, store, fate>>
  BY DEF DoLeave, At, keyVars
<1>2. PICK head \in Jobs, c \in Clients :
         /\ head = jobs[t][1] /\ c = head.id /\ JobId(t) = c /\ head \in Pending(t)
         /\ JobOf(t, head) /\ ThreadOf[c] = t /\ head.type = "LEAVE"
  BY <1>1, HeadJob DEF DoLeave, At
<1>3. /\ \A u \in ContentThreads : Pending(u)' \subseteq Pending(u)
      /\ \A d \in Clients : \A types :
             /\ Waits(d, types)' => Waits(d, types)
             /\ Waits(d, types) => Waits(d, types)' \/ (head.id = d /\ head.type \in types)
      /\ \A u \in ContentThreads \ {t} : jobs'[u] = jobs[u]
      /\ jobs' \in [ContentThreads -> Seq(Jobs)] /\ \A u \in ContentThreads : InOrder(u)'
      /\ \A u \in ContentThreads : \A job \in Pending(u)' : Follows(head, job)
  BY <1>1, <1>2, LeftOver
<1>4. LoginTypes'
  BY <1>3, <1>1, <1>a DEF LoginTypes
<1>5. ASSUME NEW u \in ContentThreads, NEW job \in Pending(u)' PROVE JobOf(u, job)'
  <2>1. JobOf(u, job)
    BY <1>3, <1>5, PendingJob
  <2>2. QED
    BY <2>1, <1>1 DEF JobOf
<1>6. ASSUME NEW d \in Clients PROVE SessionOf(d)' /\ FateOf(d)'
  <2>1. SessionOf(d) /\ FateOf(d)
    BY DEF LoginInv
  <2>2. FateOf(d)'
    BY <2>1, <1>1 DEF FateOf
  <2>3. Waits(d, Asks) => Waits(d, Asks)'
    BY <1>2, <1>3 DEF Asks
  <2>4. Waits(d, {"LEAVE"}) => Waits(d, {"LEAVE"})' \/ d = c
    BY <1>2, <1>3
  <2>5. (Waits(d, {"JOIN"}) => Waits(d, {"JOIN"})') /\ (Waits(d, {"JOIN"})' => Waits(d, {"JOIN"}))
    BY <1>2, <1>3
  <2>6. d = c => session[d] = "left" /\ (Waits(d, {"JOIN"})' => d \in late)
    <3>1. session[c] = "left"
      BY <1>2 DEF JobOf
    <3>2. ASSUME NEW job \in Pending(ThreadOf[c])', job.id = c, job.type = "JOIN"
          PROVE  c \in late
      <4>1. Follows(head, job)
        BY <1>2, <1>3, <3>2
      <4>2. QED
        BY <4>1, <3>2, <1>2 DEF Follows
    <3>3. QED
      BY <3>1, <3>2 DEF Waits
  <2>7. d \in playerOf' <=> d \in playerOf /\ d # c
    BY <1>1, <1>2
  <2>8. SessionOf(d)'
    BY <2>1, <2>3, <2>4, <2>5, <2>6, <2>7, <1>1 DEF SessionOf, Timely
  <2>9. QED
    BY <2>2, <2>8
<1>7. ASSUME NEW u \in ContentThreads PROVE LoginOf(u)'
  <2>1. LoginOf(u)
    BY DEF LoginInv
  <2>2. QED
    BY <2>1, <1>1, <1>3 DEF LoginOf
<1>8. Queues'
  BY <1>3, <1>5 DEF Queues
<1>9. QED
  BY <1>4, <1>6, <1>7, <1>8 DEF LoginInv

(* The end of a request, dropped, refused or answered. *)
LEMMA AskedInv ==
    ASSUME LoginInv, NEW t \in ContentThreads, jobs[t] # <<>>, NextJob(t),
           NEW head \in Jobs, head = jobs[t][1], head.type \in Asks,
           NEW c \in Clients, c = head.id, step'[t] = "wait",
           \A u \in ContentThreads \ {t} : step'[u] = step[u],
           step' \in [ContentThreads -> {"wait", "store", "answer"}],
           session' \in [Clients -> {"new", "open", "closing", "left"}],
           told' \in [Clients -> {"nothing", "waits", "ok", "fail"}],
           UNCHANGED <<accepting, status, playerOf, asked, late, store, fate>>,
           \A d \in Clients \ {c} : session'[d] = session[d] /\ told'[d] = told[d],
           \/ session'[c] = session[c]
           \/ session[c] = "open" /\ session'[c] = "closing",
           \/ told'[c] = told[c]
           \/ told'[c] = "fail"
           \/ told'[c] = "ok" /\ fate[c] \in {"failed", "valid", "gone"},
           Timely(c) /\ session[c] = "open" /\ c \in playerOf =>
               session'[c] # "open" \/ told'[c] # "waits"
    PROVE  LoginInv'
<1>a. LoginTypes /\ Queues
  BY DEF LoginInv
<1>1. /\ \A u \in ContentThreads : Pending(u)' \subseteq Pending(u)
      /\ \A d \in Clients : \A types :
             /\ Waits(d, types)' => Waits(d, types)
             /\ Waits(d, types) => Waits(d, types)' \/ (head.id = d /\ head.type \in types)
      /\ \A u \in ContentThreads \ {t} : jobs'[u] = jobs[u]
      /\ jobs' \in [ContentThreads -> Seq(Jobs)] /\ \A u \in ContentThreads : InOrder(u)'
      /\ \A u \in ContentThreads : \A job \in Pending(u)' : Follows(head, job)
  BY LeftOver
<1>2. LoginTypes'
  BY <1>1, <1>a DEF LoginTypes
<1>3. JobOf(t, head) /\ told[c] = "waits" /\ session[c] # "new"
  BY HeadJob DEF JobOf
<1>4. ASSUME NEW u \in ContentThreads, NEW job \in Pending(u)' PROVE JobOf(u, job)'
  <2>1. JobOf(u, job) /\ Follows(head, job) /\ (job.type # "JOIN" => job.id \in Clients)
    BY <1>1, <1>4, PendingJob
  <2>2. job.id = c => job.type \notin Asks
    BY <2>1 DEF Follows
  <2>3. QED
    BY <2>1, <2>2, <1>3 DEF JobOf, Asks
<1>5. ASSUME NEW d \in Clients PROVE SessionOf(d)' /\ FateOf(d)'
  <2>1. SessionOf(d) /\ FateOf(d)
    BY DEF LoginInv
  <2>2. FateOf(d)'
    BY <2>1 DEF FateOf
  <2>3. Waits(d, Asks) => Waits(d, Asks)' \/ d = c
    BY <1>1
  <2>4. Waits(d, {"LEAVE"}) => Waits(d, {"LEAVE"})'
    BY <1>1 DEF Asks
  <2>5. (Waits(d, {"JOIN"}) => Waits(d, {"JOIN"})') /\ (Waits(d, {"JOIN"})' => Waits(d, {"JOIN"}))
    BY <1>1 DEF Asks
  <2>6. CASE d # c
    BY <2>6, <2>1, <2>2, <2>3, <2>4, <2>5 DEF SessionOf, Timely
  <2>7. CASE d = c
    <3>1. Waits(c, {"JOIN"})' => c \in late
      <4>1. ASSUME NEW job \in Pending(ThreadOf[c])', job.id = c, job.type = "JOIN"
            PROVE  c \in late
        <5>1. Follows(head, job)
          BY <1>1, <4>1, LoginAssumption
        <5>2. QED
          BY <5>1, <4>1 DEF Follows
      <4>2. QED
        BY <4>1 DEF Waits
    <3>2. Timely(c) /\ session[c] = "open" => c \in playerOf
      BY <2>1, <2>5, <2>7, <3>1 DEF SessionOf, Timely
    <3>3. Timely(c) => session'[c] # "open" \/ told'[c] # "waits"
      BY <3>2
    <3>4. SessionOf(d)'
      BY <2>1, <2>4, <2>5, <2>7, <3>2, <3>3, <1>3 DEF SessionOf, Timely
    <3>5. QED
      BY <3>4, <2>2
  <2>8. QED
    BY <2>2, <2>6, <2>7
<1>6. ASSUME NEW u \in ContentThreads PROVE LoginOf(u)'
  <2>1. LoginOf(u)
    BY DEF LoginInv
  <2>2. QED
    BY <2>1, <1>1 DEF LoginOf
<1>7. Queues'
  BY <1>1, <1>4 DEF Queues
<1>8. QED
  BY <1>2, <1>5, <1>6, <1>7 DEF LoginInv

LEMMA NoPlayerInv ==
    ASSUME LoginInv, NEW t \in ContentThreads, NoPlayer(t)
    PROVE  LoginInv'
<1>a. LoginTypes
  BY DEF LoginInv
<1>1. /\ step[t] = "wait" /\ jobs[t] # <<>> /\ NextJob(t) /\ JobId(t) \notin playerOf
      /\ UNCHANGED <<session, accepting, step, status, playerOf, asked, told, late, store, fate>>
  BY DEF NoPlayer, At, keyVars
<1>2. PICK head \in Jobs, c \in Clients :
         /\ head = jobs[t][1] /\ c = head.id /\ JobId(t) = c /\ head.type \in Asks
  BY <1>1, HeadJob DEF NoPlayer, At, Asks
<1>3. /\ step'[t] = "wait" /\ \A u \in ContentThreads \ {t} : step'[u] = step[u]
      /\ step' \in [ContentThreads -> {"wait", "store", "answer"}]
      /\ session' \in [Clients -> {"new", "open", "closing", "left"}]
      /\ told' \in [Clients -> {"nothing", "waits", "ok", "fail"}]
      /\ session'[c] = session[c] /\ told'[c] = told[c] /\ c \notin playerOf
      /\ \A d \in Clients \ {c} : session'[d] = session[d] /\ told'[d] = told[d]
  BY <1>1, <1>2, <1>a DEF LoginTypes
<1>4. /\ jobs[t] # <<>> /\ NextJob(t) /\ head = jobs[t][1] /\ head.type \in Asks /\ c = head.id
      /\ UNCHANGED <<accepting, status, playerOf, asked, late, store, fate>>
  BY <1>1, <1>2
<1>5. QED
  BY <1>3, <1>4, AskedInv

LEMMA DoBadInv ==
    ASSUME LoginInv, NEW t \in ContentThreads, DoBad(t)
    PROVE  LoginInv'
<1>a. LoginTypes
  BY DEF LoginInv
<1>1. /\ step[t] = "wait" /\ jobs[t] # <<>> /\ NextJob(t)
      /\ session' = [session EXCEPT ![JobId(t)] = IF @ = "open" THEN "closing" ELSE @]
      /\ UNCHANGED <<accepting, step, status, playerOf, asked, told, late, store, fate>>
  BY DEF DoBad, At, keyVars
<1>2. PICK head \in Jobs, c \in Clients :
         /\ head = jobs[t][1] /\ c = head.id /\ JobId(t) = c /\ head.type \in Asks
  BY <1>1, HeadJob DEF DoBad, At, Asks
<1>3. /\ session' \in [Clients -> {"new", "open", "closing", "left"}]
      /\ session'[c] = IF session[c] = "open" THEN "closing" ELSE session[c]
      /\ \A d \in Clients \ {c} : session'[d] = session[d]
  BY <1>1, <1>2, <1>a DEF LoginTypes
<1>4. /\ session'[c] # "open"
      /\ \/ session'[c] = session[c]
         \/ session[c] = "open" /\ session'[c] = "closing"
  BY <1>3
<1>5. /\ step'[t] = "wait" /\ \A u \in ContentThreads \ {t} : step'[u] = step[u]
      /\ step' \in [ContentThreads -> {"wait", "store", "answer"}]
      /\ told' \in [Clients -> {"nothing", "waits", "ok", "fail"}]
      /\ told'[c] = told[c]
      /\ \A d \in Clients \ {c} : session'[d] = session[d] /\ told'[d] = told[d]
  BY <1>1, <1>3, <1>a DEF LoginTypes
<1>6. /\ jobs[t] # <<>> /\ NextJob(t) /\ head = jobs[t][1] /\ head.type \in Asks /\ c = head.id
      /\ session' \in [Clients -> {"new", "open", "closing", "left"}]
      /\ UNCHANGED <<accepting, status, playerOf, asked, late, store, fate>>
  BY <1>1, <1>2, <1>3
<1>7. QED
  BY <1>4, <1>5, <1>6, AskedInv

LEMMA AnswerInv ==
    ASSUME LoginInv, NEW t \in ContentThreads, Answer(t)
    PROVE  LoginInv'
<1>a. LoginTypes /\ LoginOf(t)
  BY DEF LoginInv
<1>1. /\ step[t] = "answer" /\ NextJob(t) /\ step' = [step EXCEPT ![t] = "wait"]
      /\ told' = [told EXCEPT ![JobId(t)] =
                    IF session[JobId(t)] = "open" THEN status[t] ELSE @]
      /\ UNCHANGED <<session, accepting, status, playerOf, asked, late, store, fate>>
  BY DEF Answer, keyVars
<1>2. jobs[t] # <<>> /\ jobs[t][1].type = "PACKET"
  BY <1>1, <1>a DEF LoginOf
<1>3. PICK head \in Jobs, c \in Clients :
         /\ head = jobs[t][1] /\ c = head.id /\ JobId(t) = c /\ head.type \in Asks
         /\ JobOf(t, head)
  BY <1>2, HeadJob DEF Asks
<1>4. PICK new \in {"ok", "fail"} : new = status[t]
  BY <1>a DEF LoginTypes
<1>5. /\ told' \in [Clients -> {"nothing", "waits", "ok", "fail"}]
      /\ told'[c] = IF session[c] = "open" THEN new ELSE told[c]
      /\ \A d \in Clients \ {c} : told'[d] = told[d]
  BY <1>1, <1>3, <1>4, <1>a DEF LoginTypes
<1>6. /\ step' \in [ContentThreads -> {"wait", "store", "answer"}] /\ step'[t] = "wait"
      /\ \A u \in ContentThreads \ {t} : step'[u] = step[u]
  BY <1>1, <1>a DEF LoginTypes
<1>7. new = "ok" => fate[c] \in {"failed", "valid", "gone"}
  BY <1>1, <1>3, <1>4, <1>a DEF LoginOf
<1>8. \/ told'[c] = told[c]
      \/ told'[c] = "fail"
      \/ told'[c] = "ok" /\ fate[c] \in {"failed", "valid", "gone"}
  BY <1>5, <1>7
<1>9. session[c] # "open" \/ told'[c] # "waits"
  BY <1>5
<1>10. /\ session' \in [Clients -> {"new", "open", "closing", "left"}]
       /\ session'[c] = session[c]
       /\ \A d \in Clients \ {c} : session'[d] = session[d] /\ told'[d] = told[d]
       /\ session'[c] # "open" \/ told'[c] # "waits"
  BY <1>1, <1>5, <1>9, <1>a DEF LoginTypes
<1>11. UNCHANGED <<accepting, status, playerOf, asked, late, store, fate>>
  BY <1>1
<1>12. /\ jobs[t] # <<>> /\ NextJob(t) /\ head = jobs[t][1] /\ head.type \in Asks /\ c = head.id
       /\ told' \in [Clients -> {"nothing", "waits", "ok", "fail"}]
  BY <1>1, <1>2, <1>3, <1>5
<1>13. QED
  BY <1>6, <1>8, <1>10, <1>11, <1>12, AskedInv

(* A step that leaves the jobs, the sessions and the answers alone, and the  *)
(* fate of all clients but one that waits, but for keys that are lost.      *)
LEMMA FateInv ==
    ASSUME LoginInv, UNCHANGED <<session, accepting, jobs, playerOf, asked, told, late>>,
           step' \in [ContentThreads -> {"wait", "store", "answer"}],
           status' \in [ContentThreads -> {"ok", "fail"}],
           \A t \in ContentThreads : LoginOf(t)',
           \A d \in Clients : FateOf(d)' /\ (told[d] = "nothing" => fate'[d] # "valid")
    PROVE  LoginInv'
<1>a. LoginTypes /\ Queues
  BY DEF LoginInv
<1>1. LoginTypes'
  BY <1>a DEF LoginTypes
<1>2. \A t \in ContentThreads : Pending(t)' = Pending(t) /\ InOrder(t)'
  BY <1>a, SameJobs
<1>3. \A t \in ContentThreads : \A job \in Pending(t)' : JobOf(t, job)'
  <2>1. ASSUME NEW t \in ContentThreads, NEW job \in Pending(t)' PROVE JobOf(t, job)'
    <3>1. JobOf(t, job)
      BY <1>2, <2>1, PendingJob
    <3>2. QED
      BY <3>1 DEF JobOf
  <2>2. QED
    BY <2>1
<1>4. ASSUME NEW d \in Clients PROVE SessionOf(d)'
  <2>1. SessionOf(d)
    BY DEF LoginInv
  <2>2. \A types : Waits(d, types)' <=> Waits(d, types)
    BY <1>2, LoginAssumption DEF Waits
  <2>3. QED
    BY <2>1, <2>2 DEF SessionOf, Timely
<1>5. QED
  BY <1>1, <1>2, <1>3, <1>4 DEF LoginInv, Queues

LEMMA QueryInv ==
    ASSUME LoginInv, KeyInv, NEW t \in ContentThreads, Query(t)
    PROVE  LoginInv'
<1>a. LoginTypes /\ KeyTypes
  BY DEF LoginInv, KeyInv
<1>1. /\ step[t] = "wait" /\ jobs[t] # <<>>
      /\ UNCHANGED <<session, accepting, jobs, playerOf, asked, told, late, store>>
  BY DEF Query, At
<1>2. PICK head \in Jobs, c \in Clients :
         /\ head = jobs[t][1] /\ c = head.id /\ JobId(t) = c /\ head.type = "PACKET"
         /\ JobOf(t, head) /\ ThreadOf[c] = t
  BY <1>1, HeadJob DEF Query, At
<1>3. \/ /\ status' = [status EXCEPT ![t] = "ok"] /\ step' = [step EXCEPT ![t] = "store"]
         /\ fate' = [fate EXCEPT ![c] = "pending"]
      \/ /\ status' = [status EXCEPT ![t] = "fail"] /\ step' = [step EXCEPT ![t] = "answer"]
         /\ UNCHANGED fate
  BY <1>2 DEF Query, AfterQuery
<1>4. /\ step' \in [ContentThreads -> {"wait", "store", "answer"}]
      /\ status' \in [ContentThreads -> {"ok", "fail"}]
      /\ \/ step'[t] = "store" /\ status'[t] = "ok"
         \/ step'[t] = "answer" /\ status'[t] = "fail"
      /\ \A u \in ContentThreads \ {t} : step'[u] = step[u] /\ status'[u] = status[u]
  BY <1>3, <1>a DEF LoginTypes
<1>5. /\ \A d \in Clients \ {c} : fate'[d] = fate[d]
      /\ fate'[c] = "pending" \/ fate'[c] = fate[c]
  BY <1>3, <1>a DEF KeyTypes
<1>6. told[c] = "waits"
  BY <1>2 DEF JobOf, Asks
<1>7. ASSUME NEW u \in ContentThreads PROVE LoginOf(u)'
  <2>1. CASE u = t
    BY <2>1, <1>1, <1>2, <1>4 DEF LoginOf
  <2>2. CASE u # t
    <3>1. LoginOf(u)
      BY DEF LoginInv
    <3>2. step[u] # "wait" => jobs[u] # <<>> /\ jobs[u][1].id \in Clients \ {c}
      <4>1. ASSUME step[u] # "wait" PROVE jobs[u] # <<>> /\ jobs[u][1].id \in Clients \ {c}
        <5>1. jobs[u] # <<>> /\ jobs[u][1].type = "PACKET"
          BY <4>1, <3>1 DEF LoginOf
        <5>2. ThreadOf[jobs[u][1].id] = u /\ jobs[u][1].id \in Clients
          BY <5>1, HeadJob
        <5>3. QED
          BY <5>1, <5>2, <2>2, <1>2
      <4>2. QED
        BY <4>1
    <3>3. QED
      BY <2>2, <3>1, <3>2, <1>1, <1>4, <1>5 DEF LoginOf
  <2>3. QED
    BY <2>1, <2>2
<1>8. ASSUME NEW d \in Clients PROVE FateOf(d)' /\ (told[d] = "nothing" => fate'[d] # "valid")
  <2>1. FateOf(d) /\ SessionOf(d)
    BY DEF LoginInv
  <2>2. CASE d = c
    <3>1. fate'[c] = "valid" => fate[c] = "valid"
      BY <1>5
    <3>2. QED
      BY <2>1, <2>2, <3>1, <1>1, <1>6 DEF FateOf
  <2>3. CASE d # c
    BY <2>1, <2>3, <1>1, <1>5 DEF FateOf, SessionOf
  <2>4. QED
    BY <2>2, <2>3
<1>9. QED
  BY <1>1, <1>4, <1>7, <1>8, FateInv

(* A client whose key is not the one of account a keeps it. *)
LEMMA FateKept ==
    ASSUME LoginInv, KeyInv, NEW a \in Accounts, NEW d \in Clients,
           fate'[d] = FateIfLost(a)[d], UNCHANGED <<asked, told>>,
           \A b \in Accounts : b # a => store'[b] = store[b]
    PROVE  FateOf(d)' /\ (told[d] = "nothing" => fate'[d] # "valid")
<1>1. FateOf(d) /\ SessionOf(d) /\ None \notin Clients
  BY KeyAssumption DEF LoginInv
<1>2. /\ fate'[d] = fate[d] \/ fate'[d] = "gone"
      /\ store[a] # Empty /\ store[a].by = d => fate'[d] = "gone"
  BY FateType DEF KeyInv
<1>3. ASSUME fate'[d] = "valid"
      PROVE  /\ asked[d] \in Logins
             /\ store'[asked[d][1]] = [key |-> AsStored(asked[d][2]), by |-> d]
  <2>1. /\ fate[d] = "valid" /\ asked[d] \in Logins
        /\ store[asked[d][1]] = [key |-> AsStored(asked[d][2]), by |-> d]
    BY <1>1, <1>2, <1>3 DEF FateOf
  <2>2. asked[d][1] \in Accounts
    BY <2>1 DEF Logins
  <2>3. asked[d][1] # a
    BY <2>1, <1>1, <1>2, <1>3 DEF Empty
  <2>4. QED
    BY <2>1, <2>2, <2>3
<1>4. QED
  BY <1>1, <1>2, <1>3 DEF FateOf, SessionOf

(* The same of the answer a content thread is about to give. *)
LEMMA AnswerKept ==
    ASSUME LoginInv, NEW t \in ContentThreads,
           jobs[t] # <<>> => jobs'[t] # <<>> /\ jobs'[t][1] = jobs[t][1],
           step'[t] = step[t], status'[t] = status[t],
           \A d \in Clients : ThreadOf[d] = t => fate'[d] \in {fate[d], "gone"}
    PROVE  LoginOf(t)'
<1>1. LoginOf(t)
  BY DEF LoginInv
<1>2. ASSUME step[t] # "wait" PROVE jobs[t][1].id \in Clients /\ ThreadOf[jobs[t][1].id] = t
  BY <1>1, <1>2, HeadJob DEF LoginOf
<1>3. QED
  BY <1>1, <1>2 DEF LoginOf

LEMMA StoreKeyInv ==
    ASSUME LoginInv, KeyInv, NEW t \in ContentThreads, StoreKey(t)
    PROVE  LoginInv' /\ KeyInv'
<1>a. LoginTypes /\ LoginOf(t) /\ KeyTypes /\ None \notin Clients
  BY KeyAssumption DEF LoginInv, KeyInv
<1>1. /\ step[t] = "store" /\ step' = [step EXCEPT ![t] = "answer"]
      /\ UNCHANGED <<session, accepting, jobs, status, playerOf, asked, told, late>>
  BY DEF StoreKey
<1>2. PICK head \in Jobs, c \in Clients :
         /\ jobs[t] # <<>> /\ head = jobs[t][1] /\ c = head.id /\ JobId(t) = c
         /\ head.type = "PACKET" /\ JobOf(t, head) /\ ThreadOf[c] = t
  BY <1>1, <1>a, HeadJob DEF LoginOf
<1>3. PICK a \in Accounts, k \in Keys : asked[c] = <<a, k>>
  BY <1>2 DEF JobOf, Logins
<1>4. \/ SetEx(c, a, k)
      \/ fate' = [fate EXCEPT ![c] = "failed"] /\ UNCHANGED <<store, issued, admitted>>
  BY <1>2, <1>3 DEF StoreKey, Request
<1>5. told[c] = "waits"
  BY <1>2 DEF JobOf, Asks
<1>6. /\ step' \in [ContentThreads -> {"wait", "store", "answer"}] /\ step'[t] = "answer"
      /\ \A u \in ContentThreads \ {t} : step'[u] = step[u]
  BY <1>1, <1>a DEF LoginTypes
<1>7. /\ fate'[c] \in {"valid", "failed"}
      /\ fate'[c] = "valid" => store'[a] = [key |-> AsStored(k), by |-> c]
      /\ \A d \in Clients \ {c} : \/ fate'[d] = FateIfLost(a)[d]
                                  \/ fate'[d] = fate[d] /\ UNCHANGED store
      /\ \A b \in Accounts : b # a => store'[b] = store[b]
  <2>1. CASE SetEx(c, a, k)
    BY <2>1, <1>a, FateType DEF SetEx, KeyTypes
  <2>2. CASE fate' = [fate EXCEPT ![c] = "failed"] /\ UNCHANGED <<store, issued, admitted>>
    BY <2>2, <1>a DEF KeyTypes
  <2>3. QED
    BY <1>4, <2>1, <2>2
<1>8. ASSUME NEW u \in ContentThreads PROVE LoginOf(u)'
  <2>1. CASE u = t
    BY <2>1, <1>1, <1>2, <1>6, <1>7 DEF LoginOf
  <2>2. CASE u # t
    <3>1. \A d \in Clients : ThreadOf[d] = u => fate'[d] \in {fate[d], "gone"}
      BY <2>2, <1>2, <1>3, <1>7, <1>a, FateType
    <3>2. QED
      BY <2>2, <3>1, <1>1, <1>6, AnswerKept
  <2>3. QED
    BY <2>1, <2>2
<1>9. ASSUME NEW d \in Clients PROVE FateOf(d)' /\ (told[d] = "nothing" => fate'[d] # "valid")
  <2>1. CASE d = c
    <3>1. asked'[c] \in Logins /\ asked'[c][1] = a /\ asked'[c][2] = k
      BY <1>1, <1>3 DEF Logins
    <3>2. QED
      BY <2>1, <3>1, <1>1, <1>5, <1>7 DEF FateOf
  <2>2. CASE d # c /\ fate'[d] = FateIfLost(a)[d]
    BY <2>2, <1>1, <1>7, FateKept
  <2>3. CASE d # c /\ fate'[d] = fate[d] /\ UNCHANGED store
    BY <2>3, <1>1 DEF LoginInv, FateOf, SessionOf
  <2>4. QED
    BY <2>1, <2>2, <2>3, <1>7
<1>10. LoginInv'
  BY <1>1, <1>6, <1>8, <1>9, <1>a, FateInv DEF LoginTypes
<1>11. KeyInv'
  <2>1. CASE SetEx(c, a, k)
    BY <2>1, NewKey
  <2>2. CASE fate' = [fate EXCEPT ![c] = "failed"] /\ UNCHANGED <<store, issued, admitted>>
    BY <2>2 DEF KeyInv, KeyTypes, KeysOnce, Stored
  <2>3. QED
    BY <1>4, <2>1, <2>2
<1>12. QED
  BY <1>10, <1>11

(* A key is used or expires. *)
LEMMA LostInv ==
    ASSUME LoginInv, KeyInv, NEW a \in Accounts, Lost(a), UNCHANGED loginVars
    PROVE  LoginInv'
<1>a. LoginTypes /\ KeyTypes
  BY DEF LoginInv, KeyInv
<1>1. UNCHANGED <<session, accepting, jobs, step, status, playerOf, asked, told, late>>
  BY DEF loginVars
<1>2. /\ \A d \in Clients : fate'[d] = FateIfLost(a)[d] /\ fate'[d] \in {fate[d], "gone"}
      /\ \A b \in Accounts : b # a => store'[b] = store[b]
  BY <1>a, FateType DEF Lost, KeyTypes
<1>3. \A u \in ContentThreads : LoginOf(u)'
  BY <1>1, <1>2, AnswerKept
<1>4. \A d \in Clients : FateOf(d)' /\ (told[d] = "nothing" => fate'[d] # "valid")
  BY <1>1, <1>2, FateKept
<1>5. QED
  BY <1>1, <1>3, <1>4, <1>a, FateInv DEF LoginTypes

LEMMA KeySame ==
    ASSUME KeyInv, UNCHANGED keyVars
    PROVE  KeyInv'
BY DEF KeyInv, KeyTypes, KeysOnce, Stored, keyVars

LEMMA LoginSame ==
    ASSUME LoginInv, UNCHANGED <<loginVars, keyVars>>
    PROVE  LoginInv'
<1>1. UNCHANGED <<session, accepting, jobs, step, status, playerOf, asked, told, late, store, fate>>
  BY DEF loginVars, keyVars
<1>2. LoginTypes /\ Queues /\ \A c \in Clients : SessionOf(c) /\ FateOf(c)
  BY DEF LoginInv
<1>3. LoginTypes'
  BY <1>1, <1>2 DEF LoginTypes
<1>4. \A t \in ContentThreads : LoginOf(t)'
  BY <1>1 DEF LoginInv, LoginOf
<1>5. \A d \in Clients : FateOf(d)' /\ (told[d] = "nothing" => fate'[d] # "valid")
  BY <1>1, <1>2 DEF FateOf, SessionOf
<1>6. QED
  BY <1>1, <1>2, <1>3, <1>4, <1>5, FateInv DEF LoginTypes

LEMMA LoginStep ==
    ASSUME LoginInv, KeyInv, LoginNext \/ \E c \in Clients : LogIn(c)
    PROVE  LoginInv' /\ KeyInv'
<1>1. ASSUME NEW c \in Clients,
             AcceptLogin(c) \/ OnClientJoin(c) \/ OnLoginLeave(c)
                 \/ \E r \in LoginRequests : OnLoginRecv(c, r)
      PROVE  LoginInv' /\ KeyInv'
  <2>1. LoginInv'
    BY <1>1, AcceptLoginInv, OnClientJoinInv, OnLoginLeaveInv, OnLoginRecvInv
  <2>2. UNCHANGED keyVars
    BY <1>1 DEF AcceptLogin, OnClientJoin, OnLoginLeave, OnLoginRecv
  <2>3. QED
    BY <2>1, <2>2, KeySame
<1>2. ASSUME NEW t \in ContentThreads, ContentThread(t)
      PROVE  LoginInv' /\ KeyInv'
  <2>1. CASE StoreKey(t)
    BY <2>1, StoreKeyInv
  <2>2. CASE Query(t)
    <3>1. KeyInv'
      <4>1. /\ fate' = [fate EXCEPT ![JobId(t)] = "pending"] \/ UNCHANGED fate
            /\ UNCHANGED <<store, issued, admitted>>
        BY <2>2 DEF Query
      <4>2. fate' \in [Clients -> {"none", "pending", "failed", "valid", "gone"}]
        BY <4>1 DEF KeyInv, KeyTypes
      <4>3. QED
        BY <4>1, <4>2 DEF KeyInv, KeyTypes, KeysOnce, Stored
    <3>2. QED
      BY <2>2, <3>1, QueryInv
  <2>3. CASE DoJoin(t) \/ DoLeave(t) \/ NoPlayer(t) \/ DoBad(t) \/ Answer(t)
    <3>1. LoginInv'
      BY <2>3, DoJoinInv, DoLeaveInv, NoPlayerInv, DoBadInv, AnswerInv
    <3>2. UNCHANGED keyVars
      BY <2>3 DEF DoJoin, DoLeave, NoPlayer, DoBad, Answer
    <3>3. QED
      BY <3>1, <3>2, KeySame
  <2>4. QED
    BY <1>2, <2>1, <2>2, <2>3 DEF ContentThread
<1>3. QED
  BY <1>1, <1>2 DEF LoginNext, LogIn

LEMMA ExpireInv ==
    ASSUME LoginInv, KeyInv, Expire, UNCHANGED loginVars
    PROVE  LoginInv' /\ KeyInv'
<1>1. PICK a \in Accounts : Lost(a) /\ UNCHANGED <<issued, admitted>>
  BY DEF Expire, Lost
<1>2. QED
  BY <1>1, LostKey, LostInv

-----------------------------------------------------------------------------
(* The chat server and the keys.                                            *)

LEMMA LoginType ==
    ASSUME ChatTypes, NEW c \in Clients, packet[c].kind = "login"
    PROVE  /\ Login(c) \in Logins /\ Login(c)[1] \in Accounts /\ Login(c)[2] \in Keys
           /\ Login(c) = <<Login(c)[1], Login(c)[2]>>
<1>1. packet[c] \in ChatPackets
  BY DEF ChatTypes, NoPacket
<1>2. packet[c].login \in ChatLogins
  BY <1>1 DEF ChatPackets
<1>3. QED
  BY <1>2, ChatAssumption DEF Login, Logins

LEMMA ConsumeKeys ==
    ASSUME LoginInv, KeyInv, ChatTypes, NEW c \in Clients, ClientOf(c), Consume(c),
           UNCHANGED loginVars
    PROVE  LoginInv' /\ KeyInv'
<1>1. PICK a \in Accounts, k \in Keys : Login(c) = <<a, k>>
  BY LoginType DEF ClientOf, Consume
<1>2. CASE UNCHANGED keyVars
  BY <1>2, KeySame, LoginSame
<1>3. CASE /\ ConsumeKey(a, k)
           /\ UNCHANGED admitted \/ admitted' = [admitted EXCEPT ![<<a, k>>] = @ + 1]
  <2>1. Lost(a) /\ UNCHANGED issued /\ store[a].key = k
    BY <1>3 DEF ConsumeKey, Lost, Matches, Del
  <2>2. QED
    BY <1>3, <2>1, LostKey, LostInv
<1>4. QED
  BY <1>1, <1>2, <1>3 DEF Consume

LEMMA ChatKeys ==
    ASSUME LoginInv, KeyInv, ClientsInv, UNCHANGED loginVars,
           ChatNext \/ \E c \in Clients : JoinChat(c)
    PROVE  LoginInv' /\ KeyInv'
<1>1. CASE \E c \in Clients : Consume(c)
  BY <1>1, ConsumeKeys DEF ClientsInv
<1>2. CASE ~\E c \in Clients : Consume(c)
  <2>1. UNCHANGED keyVars
    BY <1>2 DEF ChatNext, JoinChat, OnChatJoin, Drop, Leaving, OnChatLeave, LeaveSector,
       FreePlayer, Worker, Scan, EnterChat, Reply, EraseOld, InsertNew, Collect, SendAll,
       OnChatRecv
  <2>2. QED
    BY <2>1, KeySame, LoginSame
<1>3. QED
  BY <1>1, <1>2

LEMMA FirstKeys ==
    ASSUME Init
    PROVE  LoginInv /\ KeyInv
<1>1. KeyInv
  <2>1. KeyTypes
    BY DEF Init, KeysInit, KeyTypes, Empty
  <2>2. ASSUME NEW a \in Accounts, NEW k \in Keys
        PROVE  admitted[<<a, k>>] + Stored(<<a, k>>) <= issued[<<a, k>>]
    <3>1. admitted[<<a, k>>] = 0 /\ issued[<<a, k>>] = 0 /\ store[a].key = None
      BY DEF Init, KeysInit, Empty, Logins
    <3>2. QED
      BY <2>1, <3>1, StoredType, KeyAssumption
  <2>3. QED
    BY <2>1, <2>2 DEF KeyInv, KeysOnce, Logins
<1>2. LoginTypes
  BY LoginAssumption DEF Init, LoginInit, LoginTypes
<1>3. \A t \in ContentThreads : jobs[t] = <<>> /\ step[t] = "wait" /\ Pending(t) = {}
  BY DEF Init, LoginInit, Pending
<1>4. Queues
  BY <1>3 DEF Queues, InOrder
<1>5. \A c \in Clients : SessionOf(c) /\ FateOf(c)
  BY KeyAssumption DEF Init, LoginInit, KeysInit, SessionOf, FateOf, Timely
<1>6. QED
  BY <1>1, <1>2, <1>3, <1>4, <1>5 DEF LoginInv, LoginOf

-----------------------------------------------------------------------------
(* What a step of the chat server leaves as it is.                          *)

LEMMA ClientKept ==
    ASSUME NEW d \in Clients, ClientOf(d),
           pc'[d] = pc[d], packet'[d] = packet[d], rest'[d] = rest[d], found'[d] = found[d],
           phase'[d] = phase[d], place'[d] = place[d], d \in live' => d \in live,
           d \in loggedIn' <=> d \in loggedIn, d \in willDelete => d \in willDelete',
           d \in proven => d \in proven', stayed'[d] \subseteq stayed[d]
    PROVE  ClientOf(d)'
<1>1. stayed[d] = {} => stayed'[d] = {}
  OBVIOUS
<1>2. Nobody' = Nobody
  BY DEF Nobody
<1>3. QED
  BY <1>1, <1>2 DEF ClientOf

LEMMA SectorsKept ==
    ASSUME SectorsExact, UNCHANGED <<sector, place>>,
           \A d \in Clients : /\ pc'[d] = "insert" <=> pc[d] = "insert"
                              /\ phase'[d] \in {"mapped", "erased"} <=>
                                     phase[d] \in {"mapped", "erased"}
    PROVE  SectorsExact'
BY DEF SectorsExact

LEMMA StayersKept ==
    ASSUME Stayers,
           \A c \in Clients : stayed'[c] \subseteq stayed[c],
           \A c \in Clients : \A d \in stayed'[c] :
               /\ d \in loggedIn' \ willDelete' /\ place'[d] = place[d] /\ pc'[d] # "insert"
               /\ rest'[c] = rest[c] /\ found'[c] = found[c]
    PROVE  Stayers'
<1> SUFFICES ASSUME NEW c \in Clients, NEW d \in stayed'[c]
             PROVE  StayerOf(c, d)'
  BY DEF Stayers
<1>1. StayerOf(c, d)
  BY DEF Stayers
<1>2. QED
  BY <1>1 DEF StayerOf

LEMMA SinglesKept ==
    ASSUME Singles, \A c \in loggedIn' \cap live' : c \in loggedIn \cap live,
           UNCHANGED <<account, blind>>,
           \A c \in loggedIn \cap live' : c \in live,
           \A c \in Clients : pc'[c] \in {"consume", "scan", "enter"} =>
               /\ pc'[c] = pc[c] /\ packet'[c] = packet[c] /\ rest'[c] = rest[c]
               /\ \A d \in Clients : /\ phase'[d] = phase[d]
                                     /\ phase[d] = "mapped" => (d \in loggedIn' <=> d \in loggedIn)
    PROVE  Singles'
<1>1. ASSUME NEW c \in Clients PROVE ScanOf(c)'
  <2>1. CASE pc'[c] \notin {"consume", "scan", "enter"}
    BY <2>1 DEF ScanOf
  <2>2. CASE pc'[c] \in {"consume", "scan", "enter"}
    <3>1. /\ ScanOf(c) /\ pc'[c] = pc[c] /\ packet'[c] = packet[c] /\ rest'[c] = rest[c]
          /\ \A d \in Clients : phase'[d] = phase[d]
                                /\ (phase[d] = "mapped" => (d \in loggedIn' <=> d \in loggedIn))
      BY <2>2 DEF Singles
    <3>2. InMap' = InMap /\ Earlier(c)' = Earlier(c)
      BY <3>1 DEF InMap, Earlier, Login
    <3>3. Earlier(c) \cap live = {} => Earlier(c) \cap live' = {}
      BY DEF Earlier
    <3>4. QED
      BY <3>1, <3>2, <3>3 DEF ScanOf, Login
  <2>3. QED
    BY <2>1, <2>2
<1>2. Single'
  BY DEF Singles, Single
<1>3. QED
  BY <1>1, <1>2 DEF Singles

LEMMA Returned ==
    ASSUME ChatTypes, NEW c \in Clients, Return(c)
    PROVE  /\ pc'[c] = "idle" /\ rest'[c] = {} /\ found'[c] = Nobody /\ packets' = packets
           /\ \A d \in Clients \ {c} : /\ pc'[d] = pc[d] /\ packet'[d] = packet[d]
                                       /\ rest'[d] = rest[d] /\ found'[d] = found[d]
           /\ pc' \in [Clients -> Steps] /\ packet' \in [Clients -> ChatPackets \cup {NoPacket}]
           /\ rest' \in [Clients -> SUBSET (Clients \cup Sectors)]
           /\ found' \in [Clients -> [Clients -> Nat]]
<1>1. Nobody \in [Clients -> Nat]
  BY DEF Nobody
<1>2. QED
  BY <1>1 DEF ChatTypes, Return, Goto, Steps

LEMMA Gone ==
    ASSUME ChatTypes, NEW c \in Clients, NotStaying(c)
    PROVE  /\ stayed' \in [Clients -> SUBSET Clients]
           /\ \A d \in Clients : stayed'[d] = stayed[d] \ {c}
BY DEF ChatTypes, NotStaying

LEMMA Idle ==
    ASSUME ClientsInv, ~SharedHeld
    PROVE  \A c \in Clients : pc[c] = "idle" /\ stayed[c] = {}
BY DEF ClientsInv, ClientOf, SharedHeld

-----------------------------------------------------------------------------
(* The engine's calls of the chat server.                                   *)

LEMMA OnChatJoinInv ==
    ASSUME ChatInv, NEW c \in Clients, OnChatJoin(c)
    PROVE  ChatInv'
<1>a. /\ ClientsInv /\ SectorsExact /\ Stayers /\ Singles /\ OnlyProvenReplace /\ ChatTypes
      /\ \A d \in Clients : ClientOf(d)
  BY DEF ChatInv, ClientsInv
<1>1. /\ phase[c] = "new" /\ ~SharedHeld /\ live' = live \cup {c}
      /\ phase' = [phase EXCEPT ![c] = "mapped"]
      /\ UNCHANGED <<account, loggedIn, willDelete, place, sector, pc, packet, rest, found,
                     packets, evictor, proven, blind, stayed>>
  BY DEF OnChatJoin, workerVars, chatHistory
<1>2. /\ phase' \in [Clients -> {"new", "mapped", "erased", "freeing", "freed"}]
      /\ phase'[c] = "mapped" /\ \A d \in Clients \ {c} : phase'[d] = phase[d]
  BY <1>1, <1>a DEF ChatTypes
<1>3. \A d \in Clients : pc[d] = "idle" /\ stayed[d] = {}
  BY <1>1, <1>a, Idle
<1>4. c \notin loggedIn /\ place[c] = Nowhere /\ Nobody' = Nobody
  BY <1>1, <1>a DEF ClientOf, Nobody
<1>5. ChatTypes'
  BY <1>1, <1>2, <1>a DEF ChatTypes, ChatTypeOK
<1>6. ASSUME NEW d \in Clients PROVE ClientOf(d)'
  <2>1. CASE d = c
    BY <2>1, <1>1, <1>2, <1>3, <1>4, <1>a DEF ClientOf
  <2>2. CASE d # c
    BY <2>2, <1>1, <1>2, <1>a, ClientKept
  <2>3. QED
    BY <2>1, <2>2
<1>7. SectorsExact'
  <2>1. \A q \in Sectors : q # Nowhere
    BY DEF Sectors, Nowhere
  <2>2. ASSUME NEW d \in Clients, NEW q \in Sectors
        PROVE  sector'[q][d] = IF /\ place'[d] = q /\ pc'[d] # "insert"
                                  /\ phase'[d] \in {"mapped", "erased"} THEN 1 ELSE 0
    <3>1. CASE d = c
      BY <3>1, <2>1, <1>1, <1>4, <1>a DEF SectorsExact
    <3>2. CASE d # c
      BY <3>2, <1>1, <1>2, <1>a DEF SectorsExact
    <3>3. QED
      BY <3>1, <3>2
  <2>3. QED
    BY <2>2 DEF SectorsExact, Sectors
<1>8. Stayers'
  BY <1>1, <1>3 DEF Stayers
<1>9. Singles'
  BY <1>1, <1>3, <1>4, <1>a, SinglesKept
<1>10. OnlyProvenReplace'
  BY <1>1, <1>a DEF OnlyProvenReplace
<1>11. QED
  BY <1>5, <1>6, <1>7, <1>8, <1>9, <1>10 DEF ChatInv, ClientsInv

LEMMA DropInv ==
    ASSUME ChatInv, NEW c \in Clients, Drop(c)
    PROVE  ChatInv'
<1>a. /\ ClientsInv /\ SectorsExact /\ Stayers /\ Singles /\ OnlyProvenReplace /\ ChatTypes
      /\ \A d \in Clients : ClientOf(d)
  BY DEF ChatInv, ClientsInv
<1>1. /\ live' = live \ {c}
      /\ UNCHANGED <<phase, account, loggedIn, willDelete, place, sector, pc, packet, rest, found,
                     packets, evictor, proven, blind, stayed>>
  BY DEF Drop, workerVars, chatHistory
<1>2. ChatTypes'
  BY <1>1, <1>a DEF ChatTypes, ChatTypeOK
<1>3. \A d \in Clients : ClientOf(d)'
  BY <1>1, <1>a, ClientKept
<1>4. SectorsExact'
  BY <1>1, <1>a, SectorsKept
<1>5. Stayers'
  BY <1>1, <1>a DEF Stayers, StayerOf
<1>6. Singles'
  BY <1>1, <1>a, SinglesKept
<1>7. OnlyProvenReplace'
  BY <1>1, <1>a DEF OnlyProvenReplace
<1>8. QED
  BY <1>2, <1>3, <1>4, <1>5, <1>6, <1>7 DEF ChatInv, ClientsInv

LEMMA OnChatLeaveInv ==
    ASSUME ChatInv, NEW c \in Clients, OnChatLeave(c)
    PROVE  ChatInv'
<1>a. /\ ClientsInv /\ SectorsExact /\ Stayers /\ Singles /\ OnlyProvenReplace /\ ChatTypes
      /\ \A d \in Clients : ClientOf(d)
  BY DEF ChatInv, ClientsInv
<1>1. /\ phase[c] = "mapped" /\ c \notin live /\ ~SharedHeld
      /\ phase' = [phase EXCEPT ![c] = "erased"] /\ willDelete' = willDelete \cup {c}
      /\ UNCHANGED <<live, account, loggedIn, place, sector, pc, packet, rest, found,
                     packets, evictor, proven, blind, stayed>>
  BY DEF OnChatLeave, workerVars, chatHistory
<1>2. /\ phase' \in [Clients -> {"new", "mapped", "erased", "freeing", "freed"}]
      /\ phase'[c] = "erased" /\ \A d \in Clients \ {c} : phase'[d] = phase[d]
  BY <1>1, <1>a DEF ChatTypes
<1>3. /\ \A d \in Clients : pc[d] = "idle" /\ stayed[d] = {}
      /\ Nobody' = Nobody
  BY <1>1, <1>a, Idle DEF Nobody
<1>4. ChatTypes'
  BY <1>1, <1>2, <1>a DEF ChatTypes, ChatTypeOK
<1>5. ASSUME NEW d \in Clients PROVE ClientOf(d)'
  <2>1. CASE d = c
    BY <2>1, <1>1, <1>2, <1>3, <1>a DEF ClientOf
  <2>2. CASE d # c
    BY <2>2, <1>1, <1>2, <1>a, ClientKept
  <2>3. QED
    BY <2>1, <2>2
<1>6. SectorsExact'
  BY <1>1, <1>2, <1>a, SectorsKept
<1>7. Stayers'
  BY <1>1, <1>3 DEF Stayers
<1>8. Singles'
  BY <1>1, <1>3, <1>a, SinglesKept
<1>9. OnlyProvenReplace'
  BY <1>1, <1>a DEF OnlyProvenReplace
<1>10. QED
  BY <1>4, <1>5, <1>6, <1>7, <1>8, <1>9 DEF ChatInv, ClientsInv

(* A player is erased from the sector of its place. *)
LEMMA Erased ==
    ASSUME ChatTypes, SectorsExact, NEW c \in Clients, ErasePlace(c)
    PROVE  /\ sector' \in [Sectors -> [Clients -> 0 .. 1]]
           /\ \A q \in Sectors : \A d \in Clients :
                  sector'[q][d] = IF d = c /\ q = place[c] THEN 0 ELSE sector[q][d]
<1>a. sector \in [Sectors -> [Clients -> 0 .. 1]] /\ place[c] \in Sectors \cup {Nowhere}
  BY DEF ChatTypes, ChatTypeOK
<1>1. \A q \in Sectors : q # Nowhere
  BY DEF Sectors, Nowhere
<1>2. CASE place[c] = Nowhere
  BY <1>2, <1>1, <1>a DEF ErasePlace
<1>3. CASE place[c] # Nowhere
  <2>1. PICK q \in Sectors : q = place[c]
    BY <1>3, <1>a
  <2>2. PICK n \in {0, 1} : n = sector[q][c]
    BY <1>a
  <2>3. sector' = [sector EXCEPT ![q][c] = IF @ > 0 THEN @ - 1 ELSE @]
    BY <1>3, <2>1 DEF ErasePlace, EraseFrom
  <2>4. (IF n > 0 THEN n - 1 ELSE n) = 0
    BY <2>2
  <2>5. sector' = [sector EXCEPT ![q] = [sector[q] EXCEPT ![c] = 0]]
    BY <2>2, <2>3, <2>4
  <2>6. QED
    BY <2>1, <2>5, <1>a
<1>4. QED
  BY <1>2, <1>3

LEMMA LeaveSectorInv ==
    ASSUME ChatInv, NEW c \in Clients, LeaveSector(c)
    PROVE  ChatInv'
<1>a. /\ ClientsInv /\ SectorsExact /\ Stayers /\ Singles /\ OnlyProvenReplace /\ ChatTypes
      /\ \A d \in Clients : ClientOf(d)
  BY DEF ChatInv, ClientsInv
<1>1. /\ phase[c] = "erased" /\ ErasePlace(c)
      /\ phase' = [phase EXCEPT ![c] = "freeing"]
      /\ UNCHANGED <<live, account, loggedIn, willDelete, place, pc, packet, rest, found,
                     packets, evictor, proven, blind, stayed>>
  BY DEF LeaveSector, workerVars, chatHistory
<1>2. /\ phase' \in [Clients -> {"new", "mapped", "erased", "freeing", "freed"}]
      /\ phase'[c] = "freeing" /\ \A d \in Clients \ {c} : phase'[d] = phase[d]
  BY <1>1, <1>a DEF ChatTypes
<1>3. pc[c] = "idle" /\ c \notin live /\ Nobody' = Nobody
  BY <1>1, <1>a DEF ClientOf, Nobody
<1>4. /\ sector' \in [Sectors -> [Clients -> 0 .. 1]]
      /\ \A q \in Sectors : \A d \in Clients :
             sector'[q][d] = IF d = c /\ q = place[c] THEN 0 ELSE sector[q][d]
  BY <1>1, <1>a, Erased
<1>5. ChatTypes'
  BY <1>1, <1>2, <1>4, <1>a DEF ChatTypes, ChatTypeOK, Sectors
<1>6. ASSUME NEW d \in Clients PROVE ClientOf(d)'
  <2>1. CASE d = c
    BY <2>1, <1>1, <1>2, <1>3, <1>a DEF ClientOf
  <2>2. CASE d # c
    BY <2>2, <1>1, <1>2, <1>a, ClientKept
  <2>3. QED
    BY <2>1, <2>2
<1>7. SectorsExact'
  <2>1. ASSUME NEW d \in Clients, NEW q \in Sectors
        PROVE  sector'[q][d] = IF /\ place'[d] = q /\ pc'[d] # "insert"
                                  /\ phase'[d] \in {"mapped", "erased"} THEN 1 ELSE 0
    BY <2>1, <1>1, <1>2, <1>3, <1>4, <1>a DEF SectorsExact
  <2>2. QED
    BY <2>1 DEF SectorsExact, Sectors
<1>8. Stayers'
  BY <1>1, <1>a DEF Stayers, StayerOf
<1>9. Singles'
  <2>1. InMap' = InMap
    BY <1>1, <1>2 DEF InMap
  <2>2. \A d \in Clients : Earlier(d)' = Earlier(d)
    BY <1>1, <2>1 DEF Earlier, Login
  <2>3. \A d \in Clients : ScanOf(d)'
    BY <1>1, <1>a, <2>1, <2>2 DEF Singles, ScanOf, Login
  <2>4. QED
    BY <1>1, <1>a, <2>3 DEF Singles, Single
<1>10. OnlyProvenReplace'
  BY <1>1, <1>a DEF OnlyProvenReplace
<1>11. QED
  BY <1>5, <1>6, <1>7, <1>8, <1>9, <1>10 DEF ChatInv, ClientsInv

LEMMA FreePlayerInv ==
    ASSUME ChatInv, NEW c \in Clients, FreePlayer(c)
    PROVE  ChatInv'
<1>a. /\ ClientsInv /\ SectorsExact /\ Stayers /\ Singles /\ OnlyProvenReplace /\ ChatTypes
      /\ \A d \in Clients : ClientOf(d)
  BY DEF ChatInv, ClientsInv
<1>1. /\ phase[c] = "freeing" /\ loggedIn' = loggedIn \ {c}
      /\ phase' = [phase EXCEPT ![c] = "freed"]
      /\ UNCHANGED <<live, account, willDelete, place, sector, pc, packet, rest, found,
                     packets, evictor, proven, blind, stayed>>
  BY DEF FreePlayer, workerVars, chatHistory
<1>2. /\ phase' \in [Clients -> {"new", "mapped", "erased", "freeing", "freed"}]
      /\ phase'[c] = "freed" /\ \A d \in Clients \ {c} : phase'[d] = phase[d]
  BY <1>1, <1>a DEF ChatTypes
<1>3. pc[c] = "idle" /\ c \notin live /\ c \notin loggedIn \ willDelete /\ Nobody' = Nobody
  BY <1>1, <1>a DEF ClientOf, Nobody
<1>4. ChatTypes'
  BY <1>1, <1>2, <1>a DEF ChatTypes, ChatTypeOK
<1>5. ASSUME NEW d \in Clients PROVE ClientOf(d)'
  <2>1. CASE d = c
    BY <2>1, <1>1, <1>2, <1>3, <1>a DEF ClientOf
  <2>2. CASE d # c
    BY <2>2, <1>1, <1>2, <1>a, ClientKept
  <2>3. QED
    BY <2>1, <2>2
<1>6. SectorsExact'
  BY <1>1, <1>2, <1>a, SectorsKept
<1>7. Stayers'
  BY <1>1, <1>3, <1>a DEF Stayers, StayerOf
<1>8. Singles'
  <2>1. InMap' = InMap
    BY <1>1, <1>2 DEF InMap
  <2>2. \A d \in Clients : Earlier(d)' = Earlier(d)
    BY <1>1, <2>1 DEF Earlier, Login, InMap
  <2>3. \A d \in Clients : ScanOf(d)'
    BY <1>1, <1>a, <2>1, <2>2 DEF Singles, ScanOf, Login
  <2>4. QED
    BY <1>1, <1>a, <2>3 DEF Singles, Single
<1>9. OnlyProvenReplace'
  BY <1>1, <1>a DEF OnlyProvenReplace
<1>10. QED
  BY <1>4, <1>5, <1>6, <1>7, <1>8, <1>9 DEF ChatInv, ClientsInv

-----------------------------------------------------------------------------
(* The packets of the chat server.                                          *)

(* A packet ends, well or not: with the player marked, and the session       *)
(* disconnected, in the second case.                                        *)
LEMMA EndInv ==
    ASSUME ChatInv, NEW c \in Clients, phase[c] = "mapped", pc[c] # "insert",
           pc'[c] = "idle", found'[c] = Nobody, stayed'[c] = {},
           \A d \in Clients \ {c} : /\ pc'[d] = pc[d] /\ packet'[d] = packet[d]
                                    /\ rest'[d] = rest[d] /\ found'[d] = found[d],
           pc' \in [Clients -> Steps], packet' \in [Clients -> ChatPackets \cup {NoPacket}],
           rest' \in [Clients -> SUBSET (Clients \cup Sectors)],
           found' \in [Clients -> [Clients -> Nat]], packets' \in Nat,
           live' \subseteq live, willDelete \subseteq willDelete',
           willDelete' \subseteq willDelete \cup {c},
           stayed' \in [Clients -> SUBSET Clients],
           \A d \in Clients : /\ stayed'[d] \subseteq stayed[d]
                              /\ stayed'[d] \cap willDelete' = {},
           UNCHANGED <<phase, account, loggedIn, place, sector, evictor, blind, proven>>
    PROVE  ChatInv'
<1>a. /\ ClientsInv /\ SectorsExact /\ Stayers /\ Singles /\ OnlyProvenReplace /\ ChatTypes
      /\ \A d \in Clients : ClientOf(d)
  BY DEF ChatInv, ClientsInv
<1>1. ChatTypes'
  BY <1>a DEF ChatTypes, ChatTypeOK
<1>2. ASSUME NEW d \in Clients PROVE ClientOf(d)'
  <2>1. CASE d = c
    <3>1. Nobody' = Nobody
      BY DEF Nobody
    <3>2. QED
      BY <2>1, <3>1, <1>a DEF ClientOf
  <2>2. CASE d # c
    BY <2>2, <1>a, ClientKept
  <2>3. QED
    BY <2>1, <2>2
<1>3. SectorsExact'
  BY <1>a, SectorsKept
<1>4. Stayers'
  <2>1. ASSUME NEW e \in Clients, NEW d \in stayed'[e]
        PROVE  /\ d \in loggedIn' \ willDelete' /\ place'[d] = place[d] /\ pc'[d] # "insert"
               /\ rest'[e] = rest[e] /\ found'[e] = found[e]
    <3>1. e # c /\ d \in stayed[e] /\ d \notin willDelete' /\ d \in Clients
      OBVIOUS
    <3>2. StayerOf(e, d)
      BY <3>1, <1>a DEF Stayers
    <3>3. QED
      BY <3>1, <3>2 DEF StayerOf
  <2>2. QED
    BY <2>1, <1>a, StayersKept
<1>5. Singles'
  <2>1. \A d \in Clients : pc'[d] \in {"consume", "scan", "enter"} =>
            pc'[d] = pc[d] /\ packet'[d] = packet[d] /\ rest'[d] = rest[d]
    OBVIOUS
  <2>2. QED
    BY <2>1, <1>a, SinglesKept
<1>6. OnlyProvenReplace'
  BY <1>a DEF OnlyProvenReplace
<1>7. QED
  BY <1>1, <1>2, <1>3, <1>4, <1>5, <1>6 DEF ChatInv, ClientsInv

LEMMA ReturnInv ==
    ASSUME ChatInv, NEW c \in Clients, phase[c] = "mapped", pc[c] # "insert", Return(c),
           \/ UNCHANGED <<live, willDelete>> /\ stayed[c] = {} /\ UNCHANGED stayed
           \/ UNCHANGED <<live, willDelete>> /\ stayed' = [stayed EXCEPT ![c] = {}]
           \/ stayed[c] = {} /\ ReserveDelete(c) /\ NotStaying(c),
           UNCHANGED <<phase, account, loggedIn, place, sector, evictor, blind, proven>>
    PROVE  ChatInv'
<1>a. /\ ClientsInv /\ Stayers /\ ChatTypes
      /\ \A d \in Clients : ClientOf(d)
  BY DEF ChatInv, ClientsInv
<1>1. /\ pc'[c] = "idle" /\ rest'[c] = {} /\ found'[c] = Nobody /\ packets' = packets
      /\ \A d \in Clients \ {c} : /\ pc'[d] = pc[d] /\ packet'[d] = packet[d]
                                  /\ rest'[d] = rest[d] /\ found'[d] = found[d]
      /\ pc' \in [Clients -> Steps] /\ packet' \in [Clients -> ChatPackets \cup {NoPacket}]
      /\ rest' \in [Clients -> SUBSET (Clients \cup Sectors)]
      /\ found' \in [Clients -> [Clients -> Nat]]
  BY <1>a, Returned
<1>2. packets' \in Nat
  BY <1>1, <1>a DEF ChatTypes
<1>3. /\ live' \subseteq live /\ willDelete \subseteq willDelete'
      /\ willDelete' \subseteq willDelete \cup {c}
  BY DEF ReserveDelete
<1>4. \A d \in Clients : \A e \in stayed[d] : e \notin willDelete
  BY <1>a DEF Stayers, StayerOf
<1>5. /\ stayed' \in [Clients -> SUBSET Clients] /\ stayed'[c] = {}
      /\ \A d \in Clients : stayed'[d] \subseteq stayed[d]
      /\ (\A d \in Clients : c \notin stayed'[d]) \/ willDelete' = willDelete
  BY <1>a DEF ChatTypes, NotStaying
<1>6. \A d \in Clients : stayed'[d] \subseteq stayed[d] /\ stayed'[d] \cap willDelete' = {}
  BY <1>3, <1>4, <1>5
<1>7. QED
  BY <1>1, <1>2, <1>3, <1>5, <1>6, EndInv

(* The packet of a session goes on to another step. *)
LEMMA GoneTo ==
    ASSUME ChatTypes, NEW c \in Clients, NEW label \in Steps, Goto(c, label)
    PROVE  /\ pc' \in [Clients -> Steps] /\ pc'[c] = label
           /\ \A d \in Clients \ {c} : pc'[d] = pc[d]
BY DEF ChatTypes, Goto

LEMMA ReplyInv ==
    ASSUME ChatInv, NEW c \in Clients, Reply(c)
    PROVE  ChatInv'
<1>1. ClientOf(c) /\ pc[c] = "reply"
  BY DEF ChatInv, ClientsInv, Reply
<1>2. phase[c] = "mapped" /\ stayed[c] = {} /\ pc[c] # "insert"
  BY <1>1 DEF ClientOf
<1>3. /\ Return(c)
      /\ \/ UNCHANGED <<live, willDelete, stayed>>
         \/ ReserveDelete(c) /\ NotStaying(c)
      /\ UNCHANGED <<phase, account, loggedIn, place, sector, evictor, blind, proven>>
  BY DEF Reply, Fail
<1>4. QED
  BY <1>2, <1>3, ReturnInv

LEMMA SendAllInv ==
    ASSUME ChatInv, NEW c \in Clients, SendAll(c)
    PROVE  ChatInv'
<1>1. ClientOf(c) /\ pc[c] = "send"
  BY DEF ChatInv, ClientsInv, SendAll
<1>2. phase[c] = "mapped" /\ pc[c] # "insert"
  BY <1>1 DEF ClientOf
<1>3. /\ Return(c) /\ UNCHANGED <<live, willDelete>>
      /\ stayed' = [stayed EXCEPT ![c] = {}]
      /\ UNCHANGED <<phase, account, loggedIn, place, sector, evictor, blind, proven>>
  BY DEF SendAll, playerVars
<1>4. QED
  BY <1>2, <1>3, ReturnInv

LEMMA ConsumeInv ==
    ASSUME ChatInv, NEW c \in Clients, Consume(c)
    PROVE  ChatInv'
<1>a. /\ ClientsInv /\ SectorsExact /\ Stayers /\ Singles /\ OnlyProvenReplace /\ ChatTypes
      /\ \A d \in Clients : ClientOf(d)
  BY DEF ChatInv, ClientsInv
<1>b. /\ pc[c] = "consume"
      /\ UNCHANGED <<phase, account, loggedIn, place, sector, evictor, blind>>
  BY DEF Consume
<1>c. /\ phase[c] = "mapped" /\ pc[c] # "insert" /\ stayed[c] = {} /\ found[c] = Nobody
      /\ c \notin loggedIn /\ packet[c].kind = "login"
  BY <1>a, <1>b DEF ClientOf
<1>1. CASE Fail(c) /\ NotStaying(c) /\ UNCHANGED proven
  BY <1>1, <1>b, <1>c, ReturnInv DEF Fail
<1>2. CASE /\ Goto(c, "scan") /\ proven' = proven \cup {c}
           /\ UNCHANGED <<live, willDelete, packet, rest, found, packets, stayed>>
  <2>1. /\ pc' \in [Clients -> Steps] /\ pc'[c] = "scan"
        /\ \A d \in Clients \ {c} : pc'[d] = pc[d]
    BY <1>2, <1>a, GoneTo DEF Steps
  <2>2. ChatTypes'
    BY <2>1, <1>2, <1>b, <1>a DEF ChatTypes, ChatTypeOK
  <2>3. ASSUME NEW d \in Clients PROVE ClientOf(d)'
    <3>1. CASE d = c
      <4>1. Nobody' = Nobody
        BY DEF Nobody
      <4>2. QED
        BY <3>1, <4>1, <2>1, <1>2, <1>b, <1>c, <1>a DEF ClientOf
    <3>2. CASE d # c
      BY <3>2, <2>1, <1>2, <1>b, <1>a, ClientKept
    <3>3. QED
      BY <3>1, <3>2
  <2>4. SectorsExact'
    BY <2>1, <1>2, <1>b, <1>a, SectorsKept
  <2>5. Stayers'
    BY <2>1, <1>2, <1>b, <1>a DEF Stayers, StayerOf, ChatTypes
  <2>6. Singles'
    <3>1. InMap' = InMap /\ \A d \in Clients : Earlier(d)' = Earlier(d)
      BY <1>2, <1>b DEF InMap, Earlier, Login
    <3>2. ASSUME NEW d \in Clients PROVE ScanOf(d)'
      <4>1. CASE d = c
        <5>1. rest[c] = InMap \ {c}
          BY <1>a, <1>b DEF Singles, ScanOf
        <5>2. Earlier(c) \subseteq rest[c]
          BY <5>1 DEF Earlier
        <5>3. QED
          BY <4>1, <5>1, <5>2, <3>1, <2>1, <1>2 DEF ScanOf
      <4>2. CASE d # c
        <5>1. ScanOf(d)
          BY <1>a DEF Singles
        <5>2. QED
          BY <4>2, <5>1, <3>1, <2>1, <1>2, <1>b DEF ScanOf, Login
      <4>3. QED
        BY <4>1, <4>2
    <3>3. Single'
      BY <1>2, <1>b, <1>a DEF Singles, Single
    <3>4. QED
      BY <3>2, <3>3 DEF Singles
  <2>7. OnlyProvenReplace'
    BY <1>2, <1>b, <1>a DEF OnlyProvenReplace
  <2>8. QED
    BY <2>2, <2>3, <2>4, <2>5, <2>6, <2>7 DEF ChatInv, ClientsInv
<1>3. QED
  BY <1>1, <1>2 DEF Consume, AfterConsume

(* The loop over the players, which disconnects the first duplicate. *)
LEMMA ScanInv ==
    ASSUME ChatInv, NEW c \in Clients, Scan(c)
    PROVE  ChatInv'
<1>a. /\ ClientsInv /\ SectorsExact /\ Stayers /\ Singles /\ OnlyProvenReplace /\ ChatTypes
      /\ \A d \in Clients : ClientOf(d)
  BY DEF ChatInv, ClientsInv
<1>b. /\ pc[c] = "scan"
      /\ UNCHANGED <<phase, account, loggedIn, willDelete, place, sector, packet, found,
                     packets, proven, blind, stayed>>
  BY DEF Scan
<1>c. /\ phase[c] = "mapped" /\ stayed[c] = {} /\ found[c] = Nobody /\ c \in proven
      /\ c \notin loggedIn /\ packet[c].kind = "login"
      /\ Nobody' = Nobody
  BY <1>a, <1>b DEF ClientOf, Nobody
<1>d. /\ ScanOf(c) /\ rest[c] \subseteq InMap \ {c}
      /\ rest \in [Clients -> SUBSET (Clients \cup Sectors)]
  BY <1>a, <1>b DEF Singles, ScanOf, ChatTypes
<1>1. /\ pc' \in [Clients -> Steps] /\ pc'[c] \in {"scan", "enter"}
      /\ \A d \in Clients \ {c} : pc'[d] = pc[d]
      /\ rest' \in [Clients -> SUBSET (Clients \cup Sectors)]
      /\ rest'[c] \subseteq rest[c]
      /\ \A d \in Clients \ {c} : rest'[d] = rest[d]
      /\ live' \subseteq live
  <2>1. CASE rest[c] = {}
    BY <2>1, <1>a, GoneTo DEF Scan, Steps, ChatTypes
  <2>2. CASE rest[c] # {}
    <3>1. PICK d \in rest[c] :
            IF Duplicates(c, d)
            THEN /\ live' = live \ {d} /\ Goto(c, "enter")
                 /\ rest' = [rest EXCEPT ![c] = {}]
            ELSE rest' = [rest EXCEPT ![c] = @ \ {d}] /\ UNCHANGED <<pc, live>>
      BY <2>2 DEF Scan
    <3>2. CASE Duplicates(c, d)
      BY <3>1, <3>2, <1>a, <1>d, GoneTo DEF Steps
    <3>3. CASE ~Duplicates(c, d)
      BY <3>1, <3>3, <1>a, <1>b, <1>d DEF ChatTypes
    <3>4. QED
      BY <3>2, <3>3
  <2>3. QED
    BY <2>1, <2>2
<1>2. evictor' \in [Clients -> Clients \cup {None}] /\ OnlyProvenReplace'
  <2>1. evictor \in [Clients -> Clients \cup {None}]
    BY <1>a DEF ChatTypes, ChatTypeOK
  <2>2. \/ UNCHANGED evictor
        \/ \E d \in rest[c] : Duplicates(c, d) /\ evictor' = [evictor EXCEPT ![d] = c]
    BY DEF Scan
  <2>3. CASE UNCHANGED evictor
    BY <2>1, <2>3, <1>a, <1>b DEF OnlyProvenReplace
  <2>4. ASSUME NEW d \in rest[c], Duplicates(c, d), evictor' = [evictor EXCEPT ![d] = c]
        PROVE  evictor' \in [Clients -> Clients \cup {None}] /\ OnlyProvenReplace'
    <3>1. d \in Clients /\ d \in loggedIn
      BY <2>4, <1>d DEF Duplicates, InMap
    <3>2. d \in proven
      BY <3>1, <1>a DEF ClientOf
    <3>3. QED
      BY <2>1, <2>4, <3>1, <3>2, <1>a, <1>b, <1>c DEF OnlyProvenReplace
  <2>5. QED
    BY <2>2, <2>3, <2>4
<1>3. ChatTypes'
  BY <1>1, <1>2, <1>b, <1>a DEF ChatTypes, ChatTypeOK
<1>4. ASSUME NEW d \in Clients PROVE ClientOf(d)'
  <2>1. CASE d = c
    BY <2>1, <1>1, <1>b, <1>c, <1>a DEF ClientOf
  <2>2. CASE d # c
    BY <2>2, <1>1, <1>b, <1>a, ClientKept
  <2>3. QED
    BY <2>1, <2>2
<1>5. SectorsExact'
  <2>1. \A d \in Clients : pc'[d] = "insert" <=> pc[d] = "insert"
    BY <1>1, <1>b
  <2>2. QED
    BY <2>1, <1>b, <1>a, SectorsKept
<1>6. Stayers'
  <2>1. ASSUME NEW e \in Clients, NEW d \in stayed'[e]
        PROVE  /\ d \in loggedIn' \ willDelete' /\ place'[d] = place[d] /\ pc'[d] # "insert"
               /\ rest'[e] = rest[e] /\ found'[e] = found[e]
    <3>1. e # c /\ d \in stayed[e] /\ StayerOf(e, d) /\ d \in Clients
      BY <1>b, <1>c, <1>a DEF Stayers, ChatTypes
    <3>2. QED
      BY <3>1, <1>1, <1>b DEF StayerOf
  <2>2. \A e \in Clients : stayed'[e] \subseteq stayed[e]
    BY <1>b
  <2>3. QED
    BY <2>1, <2>2, <1>a, StayersKept
<1>7. InMap' = InMap /\ \A d \in Clients : Earlier(d)' = Earlier(d) /\ Login(d)' = Login(d)
  BY <1>b DEF InMap, Earlier, Login
<1>8. ScanOf(c)'
  <2>1. CASE rest[c] = {}
    <3>1. pc'[c] = "enter" /\ live' = live
      BY <2>1, <1>a, GoneTo DEF Scan, Steps
    <3>2. Login(c)[1] \notin blind => Earlier(c) = {}
      BY <2>1, <1>b, <1>d DEF ScanOf
    <3>3. QED
      BY <3>1, <3>2, <1>7, <1>b DEF ScanOf
  <2>2. CASE rest[c] # {}
    <3>1. PICK d \in rest[c] :
            IF Duplicates(c, d)
            THEN /\ live' = live \ {d} /\ Goto(c, "enter")
                 /\ rest' = [rest EXCEPT ![c] = {}]
            ELSE rest' = [rest EXCEPT ![c] = @ \ {d}] /\ UNCHANGED <<pc, live>>
      BY <2>2 DEF Scan
    <3>2. CASE Duplicates(c, d)
      <4>1. pc'[c] = "enter" /\ live' = live \ {d}
        BY <3>1, <3>2, <1>a, GoneTo DEF Steps
      <4>2. d \in Earlier(c)
        BY <3>2, <1>d DEF Duplicates, Earlier
      <4>3. \/ Earlier(c) \cap live' = {}
            \/ \E x, y \in Earlier(c) : x # y
        <5>1. ASSUME NEW x \in Earlier(c) \cap live' PROVE x # d
          BY <5>1, <4>1
        <5>2. QED
          BY <5>1, <4>2
      <4>4. QED
        BY <4>1, <4>3, <1>7, <1>b DEF ScanOf
    <3>3. CASE ~Duplicates(c, d)
      <4>1. pc'[c] = "scan" /\ rest'[c] = rest[c] \ {d}
        BY <3>1, <3>3, <1>b, <1>d
      <4>2. d \notin Earlier(c)
        BY <3>3 DEF Duplicates, Earlier
      <4>3. QED
        BY <4>1, <4>2, <1>7, <1>b, <1>d DEF ScanOf
    <3>4. QED
      BY <3>2, <3>3
  <2>3. QED
    BY <2>1, <2>2
<1>9. ASSUME NEW d \in Clients, d # c PROVE ScanOf(d)'
  <2>1. ScanOf(d) /\ (Earlier(d) \cap live = {} => Earlier(d) \cap live' = {})
    BY <1>1, <1>a DEF Singles
  <2>2. QED
    BY <2>1, <1>1, <1>7, <1>9, <1>b DEF ScanOf
<1>10. Single'
  BY <1>1, <1>b, <1>a DEF Singles, Single
<1>11. Singles'
  BY <1>8, <1>9, <1>10 DEF Singles
<1>12. QED
  BY <1>2, <1>3, <1>4, <1>5, <1>6, <1>11 DEF ChatInv, ClientsInv

LEMMA TwoRivals ==
    ASSUME NEW S \in SUBSET Clients, NEW d \in S, NEW e \in S, d # e
    PROVE  Cardinality(S) > 1
<1>1. Cardinality({d} \cup {e}) = 2
  <2>1. IsFiniteSet({d}) /\ Cardinality({d}) = 1 /\ e \notin {d}
    BY FS_Singleton
  <2>2. Cardinality({d} \cup {e}) = Cardinality({d}) + 1
    BY <2>1, FS_AddElement
  <2>3. QED
    BY <2>1, <2>2
<1>2. {d} \cup {e} \subseteq S /\ IsFiniteSet(S)
  BY KeyAssumption, FS_Subset
<1>3. Cardinality({d} \cup {e}) <= Cardinality(S) /\ Cardinality(S) \in Nat
  BY <1>2, FS_Subset, FS_CardinalityType
<1>4. QED
  BY <1>1, <1>3

LEMMA EnterChatInv ==
    ASSUME ChatInv, NEW c \in Clients, EnterChat(c)
    PROVE  ChatInv'
<1>a. /\ ClientsInv /\ SectorsExact /\ Stayers /\ Singles /\ OnlyProvenReplace /\ ChatTypes
      /\ \A d \in Clients : ClientOf(d)
  BY DEF ChatInv, ClientsInv
<1>b. /\ pc[c] = "enter"
      /\ account' = [account EXCEPT ![c] = Login(c)[1]] /\ loggedIn' = loggedIn \cup {c}
      /\ UNCHANGED <<phase, live, willDelete, place, sector, packet, rest, found, packets,
                     evictor, proven, stayed>>
  BY DEF EnterChat
<1>c. /\ phase[c] = "mapped" /\ stayed[c] = {} /\ found[c] = Nobody /\ c \in proven
      /\ c \notin loggedIn /\ packet[c].kind = "login"
      /\ Nobody' = Nobody
  BY <1>a, <1>b DEF ClientOf, Nobody
<1>1. /\ pc' \in [Clients -> Steps] /\ pc'[c] = "reply"
      /\ \A d \in Clients \ {c} : pc'[d] = pc[d]
  BY <1>a, GoneTo DEF EnterChat, Steps
<1>2. PICK a \in Accounts : a = Login(c)[1]
  BY <1>a, <1>c, LoginType
<1>3. /\ account' \in [Clients -> Accounts \cup {None}] /\ account'[c] = a
      /\ \A d \in Clients \ {c} : account'[d] = account[d]
  BY <1>b, <1>2, <1>a DEF ChatTypes, ChatTypeOK
<1>4. ChatTypes'
  BY <1>1, <1>3, <1>b, <1>a DEF ChatTypes, ChatTypeOK
<1>5. ASSUME NEW d \in Clients PROVE ClientOf(d)'
  <2>1. CASE d = c
    BY <2>1, <1>1, <1>b, <1>c, <1>a DEF ClientOf
  <2>2. CASE d # c
    BY <2>2, <1>1, <1>b, <1>a, ClientKept
  <2>3. QED
    BY <2>1, <2>2
<1>6. SectorsExact'
  <2>1. \A d \in Clients : pc'[d] = "insert" <=> pc[d] = "insert"
    BY <1>1, <1>b
  <2>2. QED
    BY <2>1, <1>b, <1>a, SectorsKept
<1>7. Stayers'
  <2>1. ASSUME NEW e \in Clients, NEW d \in stayed'[e]
        PROVE  /\ d \in loggedIn' \ willDelete' /\ place'[d] = place[d] /\ pc'[d] # "insert"
               /\ rest'[e] = rest[e] /\ found'[e] = found[e]
    <3>1. d \in stayed[e] /\ StayerOf(e, d) /\ d \in Clients
      BY <1>b, <1>a DEF Stayers, ChatTypes
    <3>2. QED
      BY <3>1, <1>1, <1>b DEF StayerOf
  <2>2. \A e \in Clients : stayed'[e] \subseteq stayed[e]
    BY <1>b
  <2>3. QED
    BY <2>1, <2>2, <1>a, StayersKept
<1>8. /\ blind \subseteq blind'
      /\ Cardinality(Rivals(c)) > 1 => a \in blind'
      /\ \A d \in Rivals(c) : d \notin loggedIn => a \in blind'
  BY <1>2 DEF EnterChat
<1>9. InMap' = InMap /\ \A d \in Clients : Login(d)' = Login(d)
  BY <1>b DEF InMap, Login
<1>10. ASSUME NEW d \in Clients PROVE ScanOf(d)'
  <2>1. CASE d = c
    BY <2>1, <1>1 DEF ScanOf
  <2>2. CASE d # c
    <3>1. ScanOf(d)
      BY <1>a DEF Singles
    <3>2. CASE pc[d] \notin {"scan", "enter"}
      BY <2>2, <3>1, <3>2, <1>1, <1>9, <1>b DEF ScanOf
    <3>3. CASE pc[d] \in {"scan", "enter"}
      <4>1. d \in InMap /\ d \notin loggedIn
        BY <3>3, <1>a DEF ClientOf, InMap
      <4>2. CASE Login(d)[1] = a
        <5>1. a \in blind'
          BY <2>2, <3>3, <4>1, <4>2, <1>2, <1>8 DEF Rivals
        <5>2. QED
          BY <5>1, <4>2, <2>2, <3>1, <1>1, <1>9, <1>b DEF ScanOf
      <4>3. CASE Login(d)[1] # a
        <5>1. Earlier(d)' = Earlier(d)
          BY <4>3, <1>3, <1>9, <1>b, <1>c DEF Earlier
        <5>2. QED
          BY <5>1, <2>2, <3>1, <1>1, <1>8, <1>9, <1>b DEF ScanOf
      <4>4. QED
        BY <4>2, <4>3
    <3>4. QED
      BY <3>2, <3>3
  <2>3. QED
    BY <2>1, <2>2
<1>11. ASSUME NEW d \in loggedIn \cap live, account[d] = a PROVE a \in blind'
  <2>1. d \in Clients /\ d # c /\ d \in Earlier(c)
    BY <1>11, <1>2, <1>a, <1>c DEF ClientOf, Earlier, InMap, ChatTypes, ChatTypeOK
  <2>2. CASE a \in blind
    BY <2>2, <1>8
  <2>3. CASE a \notin blind
    <3>1. ScanOf(c)
      BY <1>a DEF Singles
    <3>2. PICK x, y \in Earlier(c) : x # y
      BY <2>1, <2>3, <3>1, <1>2, <1>11, <1>b DEF ScanOf
    <3>3. x \in Rivals(c) /\ y \in Rivals(c) /\ Rivals(c) \in SUBSET Clients
      BY DEF Earlier, Rivals, InMap
    <3>4. Cardinality(Rivals(c)) > 1
      BY <3>2, <3>3, TwoRivals
    <3>5. QED
      BY <3>4, <1>8
  <2>4. QED
    BY <2>2, <2>3
<1>12. Single'
  <2>1. ASSUME NEW x \in loggedIn' \cap live', NEW y \in loggedIn' \cap live',
               account'[x] = account'[y], account'[x] \notin blind'
        PROVE  x = y
    <3>1. x \in Clients /\ y \in Clients
      BY <1>4 DEF ChatTypes, ChatTypeOK
    <3>2. CASE x # c /\ y # c
      BY <2>1, <3>1, <3>2, <1>3, <1>8, <1>b, <1>a DEF Singles, Single
    <3>3. CASE x = c /\ y # c
      BY <2>1, <3>1, <3>3, <1>3, <1>11, <1>b
    <3>4. CASE x # c /\ y = c
      BY <2>1, <3>1, <3>4, <1>3, <1>11, <1>b
    <3>5. QED
      BY <3>2, <3>3, <3>4
  <2>2. QED
    BY <2>1 DEF Single
<1>13. OnlyProvenReplace'
  BY <1>b, <1>a DEF OnlyProvenReplace
<1>14. Singles'
  BY <1>10, <1>12 DEF Singles
<1>15. QED
  BY <1>4, <1>5, <1>6, <1>7, <1>13, <1>14 DEF ChatInv, ClientsInv

LEMMA EraseOldInv ==
    ASSUME ChatInv, NEW c \in Clients, EraseOld(c)
    PROVE  ChatInv'
<1>a. /\ ClientsInv /\ SectorsExact /\ Stayers /\ Singles /\ OnlyProvenReplace /\ ChatTypes
      /\ \A d \in Clients : ClientOf(d)
  BY DEF ChatInv, ClientsInv
<1>b. /\ pc[c] = "erase" /\ ErasePlace(c)
      /\ UNCHANGED <<phase, live, account, loggedIn, willDelete, place, packet, rest, found,
                     packets, evictor, proven, blind>>
  BY DEF EraseOld, playerVars
<1>c. /\ phase[c] = "mapped" /\ stayed[c] = {} /\ found[c] = Nobody
      /\ packet[c].kind = "move" /\ Nobody' = Nobody
  BY <1>a, <1>b DEF ClientOf, Nobody
<1>1. /\ pc' \in [Clients -> Steps] /\ pc'[c] = "insert"
      /\ \A d \in Clients \ {c} : pc'[d] = pc[d]
  BY <1>a, GoneTo DEF EraseOld, Steps
<1>2. /\ sector' \in [Sectors -> [Clients -> 0 .. 1]]
      /\ \A q \in Sectors : \A d \in Clients :
             sector'[q][d] = IF d = c /\ q = place[c] THEN 0 ELSE sector[q][d]
  BY <1>a, <1>b, Erased
<1>3. /\ stayed' \in [Clients -> SUBSET Clients]
      /\ \A d \in Clients : stayed'[d] = stayed[d] \ {c}
  BY <1>a, Gone DEF EraseOld
<1>4. ChatTypes'
  BY <1>1, <1>2, <1>3, <1>b, <1>a DEF ChatTypes, ChatTypeOK, Sectors
<1>5. ASSUME NEW d \in Clients PROVE ClientOf(d)'
  <2>1. CASE d = c
    BY <2>1, <1>1, <1>3, <1>b, <1>c, <1>a DEF ClientOf
  <2>2. CASE d # c
    BY <2>2, <1>1, <1>3, <1>b, <1>a, ClientKept
  <2>3. QED
    BY <2>1, <2>2
<1>6. SectorsExact'
  <2>1. ASSUME NEW d \in Clients, NEW q \in Sectors
        PROVE  sector'[q][d] = IF /\ place'[d] = q /\ pc'[d] # "insert"
                                  /\ phase'[d] \in {"mapped", "erased"} THEN 1 ELSE 0
    BY <2>1, <1>1, <1>2, <1>b, <1>a DEF SectorsExact
  <2>2. QED
    BY <2>1 DEF SectorsExact, Sectors
<1>7. Stayers'
  <2>1. ASSUME NEW e \in Clients, NEW d \in stayed'[e]
        PROVE  /\ d \in loggedIn' \ willDelete' /\ place'[d] = place[d] /\ pc'[d] # "insert"
               /\ rest'[e] = rest[e] /\ found'[e] = found[e]
    <3>1. d \in stayed[e] /\ StayerOf(e, d) /\ d \in Clients /\ d # c
      BY <1>3, <1>a DEF Stayers, ChatTypes
    <3>2. QED
      BY <3>1, <1>1, <1>b DEF StayerOf
  <2>2. \A e \in Clients : stayed'[e] \subseteq stayed[e]
    BY <1>3
  <2>3. QED
    BY <2>1, <2>2, <1>a, StayersKept
<1>8. Singles'
  <2>1. \A d \in Clients : pc'[d] \in {"consume", "scan", "enter"} => pc'[d] = pc[d]
    BY <1>1
  <2>2. QED
    BY <2>1, <1>b, <1>a, SinglesKept
<1>9. OnlyProvenReplace'
  BY <1>b, <1>a DEF OnlyProvenReplace
<1>10. QED
  BY <1>4, <1>5, <1>6, <1>7, <1>8, <1>9 DEF ChatInv, ClientsInv

LEMMA InsertNewInv ==
    ASSUME ChatInv, NEW c \in Clients, InsertNew(c)
    PROVE  ChatInv'
<1>a. /\ ClientsInv /\ SectorsExact /\ Stayers /\ Singles /\ OnlyProvenReplace /\ ChatTypes
      /\ \A d \in Clients : ClientOf(d)
  BY DEF ChatInv, ClientsInv
<1>b. /\ pc[c] = "insert"
      /\ UNCHANGED <<phase, live, account, loggedIn, willDelete, packet, rest, found,
                     packets, evictor, proven, blind, stayed>>
  BY DEF InsertNew, chatHistory
<1>c. /\ phase[c] = "mapped" /\ stayed[c] = {} /\ found[c] = Nobody
      /\ packet[c].kind = "move" /\ Nobody' = Nobody
  BY <1>a, <1>b DEF ClientOf, Nobody
<1>1. /\ pc' \in [Clients -> Steps] /\ pc'[c] = "reply"
      /\ \A d \in Clients \ {c} : pc'[d] = pc[d]
  BY <1>a, GoneTo DEF InsertNew, Steps
<1>2. packet[c] \in ChatPackets
  BY <1>a, <1>c DEF ChatTypes, NoPacket
<1>3. PICK to \in Sectors : to = packet[c].to
  BY <1>2, <1>c, ChatAssumption DEF ChatPackets
<1>4. /\ place' \in [Clients -> Sectors \cup {Nowhere}] /\ place'[c] = to
      /\ \A d \in Clients \ {c} : place'[d] = place[d]
  BY <1>3, <1>a DEF InsertNew, ChatTypes, ChatTypeOK
<1>5. /\ sector' \in [Sectors -> [Clients -> 0 .. 1]]
      /\ \A q \in Sectors : \A d \in Clients :
             sector'[q][d] = IF d = c /\ q = to THEN 1 ELSE sector[q][d]
  <2>1. sector \in [Sectors -> [Clients -> 0 .. 1]] /\ sector[to][c] = 0
    BY <1>a, <1>b DEF ChatTypes, ChatTypeOK, SectorsExact
  <2>2. sector' = [sector EXCEPT ![to] = [sector[to] EXCEPT ![c] = 0 + 1]]
    BY <2>1, <1>3 DEF InsertNew
  <2>3. QED
    BY <2>1, <2>2
<1>6. ChatTypes'
  BY <1>1, <1>4, <1>5, <1>b, <1>a DEF ChatTypes, ChatTypeOK, Sectors
<1>7. ASSUME NEW d \in Clients PROVE ClientOf(d)'
  <2>1. CASE d = c
    BY <2>1, <1>1, <1>b, <1>c, <1>a DEF ClientOf
  <2>2. CASE d # c
    BY <2>2, <1>1, <1>4, <1>b, <1>a, ClientKept
  <2>3. QED
    BY <2>1, <2>2
<1>8. SectorsExact'
  <2>1. ASSUME NEW d \in Clients, NEW q \in Sectors
        PROVE  sector'[q][d] = IF /\ place'[d] = q /\ pc'[d] # "insert"
                                  /\ phase'[d] \in {"mapped", "erased"} THEN 1 ELSE 0
    <3>1. CASE d = c
      BY <3>1, <1>1, <1>4, <1>5, <1>b, <1>c, <1>a DEF SectorsExact
    <3>2. CASE d # c
      BY <3>2, <1>1, <1>4, <1>5, <1>b, <1>a DEF SectorsExact
    <3>3. QED
      BY <3>1, <3>2
  <2>2. QED
    BY <2>1 DEF SectorsExact, Sectors
<1>9. Stayers'
  <2>1. ASSUME NEW e \in Clients, NEW d \in stayed'[e]
        PROVE  /\ d \in loggedIn' \ willDelete' /\ place'[d] = place[d] /\ pc'[d] # "insert"
               /\ rest'[e] = rest[e] /\ found'[e] = found[e]
    <3>1. d \in stayed[e] /\ StayerOf(e, d) /\ d \in Clients
      BY <1>b, <1>a DEF Stayers, ChatTypes
    <3>2. d # c
      BY <3>1, <1>b DEF StayerOf
    <3>3. QED
      BY <3>1, <3>2, <1>1, <1>4, <1>b DEF StayerOf
  <2>2. \A e \in Clients : stayed'[e] \subseteq stayed[e]
    BY <1>b
  <2>3. QED
    BY <2>1, <2>2, <1>a, StayersKept
<1>10. Singles'
  <2>1. \A d \in Clients : pc'[d] \in {"consume", "scan", "enter"} => pc'[d] = pc[d]
    BY <1>1
  <2>2. QED
    BY <2>1, <1>b, <1>a, SinglesKept
<1>11. OnlyProvenReplace'
  BY <1>b, <1>a DEF OnlyProvenReplace
<1>12. QED
  BY <1>6, <1>7, <1>8, <1>9, <1>10, <1>11 DEF ChatInv, ClientsInv

(* The broadcast collects who is in one more sector. *)
LEMMA CollectInv ==
    ASSUME ChatInv, NEW c \in Clients, Collect(c)
    PROVE  ChatInv'
<1>a. /\ ClientsInv /\ SectorsExact /\ Stayers /\ Singles /\ OnlyProvenReplace /\ ChatTypes
      /\ \A d \in Clients : ClientOf(d)
  BY DEF ChatInv, ClientsInv
<1>b. /\ pc[c] = "collect"
      /\ UNCHANGED <<phase, live, account, loggedIn, willDelete, place, sector, packet,
                     packets, evictor, proven, blind, stayed>>
  BY DEF Collect, playerVars, chatHistory
<1>c. phase[c] = "mapped" /\ rest[c] \subseteq Sectors
  BY <1>a, <1>b DEF ClientOf
<1>1. PICK q \in rest[c] :
        /\ found' = [found EXCEPT ![c] =
                       [d \in Clients |-> @[d] + IF d \in Heard(q) THEN sector[q][d] ELSE 0]]
        /\ rest' = [rest EXCEPT ![c] = @ \ {q}]
        /\ Goto(c, IF rest[c] = {q} THEN "send" ELSE "collect")
  BY DEF Collect
<1>2. q \in Sectors /\ sector[q] \in [Clients -> 0 .. 1]
  BY <1>1, <1>c, <1>a DEF ChatTypes, ChatTypeOK
<1>3. /\ pc' \in [Clients -> Steps] /\ pc'[c] = IF rest[c] = {q} THEN "send" ELSE "collect"
      /\ \A d \in Clients \ {c} : pc'[d] = pc[d]
  BY <1>1, <1>a, GoneTo DEF Steps
<1>4. /\ rest' \in [Clients -> SUBSET (Clients \cup Sectors)]
      /\ rest'[c] = rest[c] \ {q}
      /\ \A d \in Clients \ {c} : rest'[d] = rest[d]
  BY <1>1, <1>a DEF ChatTypes
<1>5. /\ found' \in [Clients -> [Clients -> Nat]]
      /\ \A d \in Clients :
            found'[c][d] = found[c][d] + IF d \in Heard(q) THEN sector[q][d] ELSE 0
      /\ \A d \in Clients \ {c} : found'[d] = found[d]
  <2>1. found \in [Clients -> [Clients -> Nat]]
    BY <1>a DEF ChatTypes
  <2>2. [d \in Clients |-> found[c][d] + IF d \in Heard(q) THEN sector[q][d] ELSE 0]
            \in [Clients -> Nat]
    <3>1. ASSUME NEW d \in Clients
          PROVE  found[c][d] + (IF d \in Heard(q) THEN sector[q][d] ELSE 0) \in Nat
      <4>1. PICK n \in Nat : n = found[c][d]
        BY <2>1
      <4>2. PICK m \in 0 .. 1 : m = sector[q][d]
        BY <1>2
      <4>3. QED
        BY <4>1, <4>2
    <3>2. QED
      BY <3>1
  <2>3. QED
    BY <1>1, <2>1, <2>2
<1>6. ChatTypes'
  BY <1>3, <1>4, <1>5, <1>b, <1>a DEF ChatTypes, ChatTypeOK
<1>7. ASSUME NEW d \in Clients PROVE ClientOf(d)'
  <2>1. CASE d = c
    <3>1. /\ rest[c] = {q} => pc'[c] = "send" /\ rest'[c] = {}
          /\ rest[c] # {q} => pc'[c] = "collect"
          /\ rest'[c] \subseteq Sectors
      BY <1>3, <1>4, <1>c
    <3>2. QED
      BY <2>1, <3>1, <1>b, <1>c, <1>a DEF ClientOf
  <2>2. CASE d # c
    BY <2>2, <1>3, <1>4, <1>5, <1>b, <1>a, ClientKept
  <2>3. QED
    BY <2>1, <2>2
<1>8. SectorsExact'
  <2>1. \A d \in Clients : pc'[d] = "insert" <=> pc[d] = "insert"
    BY <1>3, <1>b
  <2>2. QED
    BY <2>1, <1>b, <1>a, SectorsKept
<1>9. Stayers'
  <2>1. ASSUME NEW e \in Clients, NEW d \in stayed'[e] PROVE StayerOf(e, d)'
    <3>1. /\ d \in stayed[e] /\ d \in Clients /\ StayerOf(e, d)
          /\ place[d] \in Sectors /\ phase[d] = "mapped"
      BY <1>b, <1>a DEF Stayers, StayerOf, ClientOf, ChatTypes, ChatTypeOK
    <3>2. /\ d \in loggedIn' \ willDelete' /\ place'[d] = place[d] /\ place[d] # Nowhere
          /\ pc'[d] # "insert"
      BY <3>1, <1>3, <1>b DEF StayerOf
    <3>3. CASE e # c
      BY <3>1, <3>2, <3>3, <1>4, <1>5 DEF StayerOf
    <3>4. CASE e = c
      <4>1. PICK n \in Nat : n = found[c][d]
        BY <3>1, <1>a DEF ChatTypes
      <4>2. n = IF place[d] \in rest[c] THEN 0 ELSE 1
        BY <3>1, <3>4, <4>1 DEF StayerOf
      <4>3. CASE place[d] = q
        <5>1. sector[q][d] = 1
          BY <3>1, <4>3, <1>2, <1>a DEF SectorsExact, StayerOf
        <5>2. d \in Heard(q)
          BY <3>1, <5>1 DEF Heard, StayerOf
        <5>3. found'[c][d] = 1
          <6>1. n = 0
            BY <4>2, <4>3, <1>1
          <6>2. found'[c][d] = n + sector[q][d]
            BY <3>1, <4>1, <5>2, <1>5
          <6>3. QED
            BY <6>1, <6>2, <5>1
        <5>4. QED
          BY <3>2, <3>4, <4>3, <5>3, <1>4 DEF StayerOf
      <4>4. CASE place[d] # q
        <5>1. sector[q][d] = 0
          BY <3>1, <4>4, <1>2, <1>a DEF SectorsExact
        <5>2. found'[c][d] = n
          BY <3>1, <4>1, <5>1, <1>5
        <5>3. place'[d] \in rest'[c] <=> place[d] \in rest[c]
          BY <3>2, <4>4, <1>4
        <5>4. QED
          BY <3>2, <3>4, <4>2, <5>2, <5>3 DEF StayerOf
      <4>5. QED
        BY <4>3, <4>4
    <3>5. QED
      BY <3>3, <3>4
  <2>2. QED
    BY <2>1 DEF Stayers
<1>10. Singles'
  <2>1. \A d \in Clients : pc'[d] \in {"consume", "scan", "enter"} =>
            pc'[d] = pc[d] /\ rest'[d] = rest[d]
    BY <1>3, <1>4
  <2>2. QED
    BY <2>1, <1>b, <1>a, SinglesKept
<1>11. OnlyProvenReplace'
  BY <1>b, <1>a DEF OnlyProvenReplace
<1>12. QED
  BY <1>6, <1>7, <1>8, <1>9, <1>10, <1>11 DEF ChatInv, ClientsInv

(* A worker takes a packet of c that is not refused. *)
LEMMA BeginInv ==
    ASSUME ChatInv, NEW c \in Clients, NEW p \in ChatPackets,
           NEW label \in Steps \ {"insert"}, Goto(c, label),
           packet' = [packet EXCEPT ![c] = p], packets' \in Nat,
           rest' \in [Clients -> SUBSET (Clients \cup Sectors)],
           stayed' \in [Clients -> SUBSET Clients],
           \A d \in Clients \ {c} : rest'[d] = rest[d] /\ stayed'[d] = stayed[d],
           pc[c] = "idle", UNCHANGED <<playerVars, sector, found, evictor, proven, blind>>,
           ClientOf(c)', ScanOf(c)', \A d \in stayed'[c] : StayerOf(c, d)'
    PROVE  ChatInv'
<1>a. /\ ClientsInv /\ SectorsExact /\ Stayers /\ Singles /\ OnlyProvenReplace /\ ChatTypes
      /\ \A d \in Clients : ClientOf(d)
  BY DEF ChatInv, ClientsInv
<1>b. UNCHANGED <<phase, live, account, loggedIn, willDelete, place, sector, found, evictor,
                  proven, blind>>
  BY DEF playerVars
<1>1. /\ pc' \in [Clients -> Steps] /\ pc'[c] = label
      /\ \A d \in Clients \ {c} : pc'[d] = pc[d]
  BY <1>a, GoneTo
<1>2. /\ packet' \in [Clients -> ChatPackets \cup {NoPacket}]
      /\ \A d \in Clients \ {c} : packet'[d] = packet[d]
  BY <1>a DEF ChatTypes
<1>3. ChatTypes'
  BY <1>1, <1>2, <1>b, <1>a DEF ChatTypes, ChatTypeOK
<1>4. ASSUME NEW d \in Clients, d # c PROVE ClientOf(d)'
  BY <1>4, <1>1, <1>2, <1>b, <1>a, ClientKept
<1>5. SectorsExact'
  <2>1. \A d \in Clients : pc'[d] = "insert" <=> pc[d] = "insert"
    BY <1>1
  <2>2. QED
    BY <2>1, <1>b, <1>a, SectorsKept
<1>6. ASSUME NEW e \in Clients, e # c, NEW d \in stayed'[e] PROVE StayerOf(e, d)'
  <2>1. d \in stayed[e] /\ d \in Clients /\ StayerOf(e, d) /\ rest'[e] = rest[e]
    BY <1>6, <1>a DEF Stayers, ChatTypes
  <2>2. pc'[d] # "insert"
    BY <2>1, <1>1 DEF StayerOf
  <2>3. QED
    BY <2>1, <2>2, <1>b DEF StayerOf
<1>7. Stayers'
  BY <1>6 DEF Stayers
<1>8. ASSUME NEW d \in Clients, d # c PROVE ScanOf(d)'
  <2>1. /\ InMap' = InMap /\ Login(d)' = Login(d)
        /\ pc'[d] = pc[d] /\ rest'[d] = rest[d] /\ ScanOf(d)
    BY <1>8, <1>1, <1>2, <1>b, <1>a DEF InMap, Login, Singles
  <2>2. Earlier(d)' = Earlier(d)
    BY <2>1, <1>b DEF Earlier
  <2>3. QED
    BY <2>1, <2>2, <1>b DEF ScanOf
<1>9. Singles'
  BY <1>8, <1>b, <1>a DEF Singles, Single
<1>10. OnlyProvenReplace'
  BY <1>b, <1>a DEF OnlyProvenReplace
<1>11. QED
  BY <1>3, <1>4, <1>5, <1>7, <1>9, <1>10 DEF ChatInv, ClientsInv

(* Whoever is at most one away is in one of the sectors around. *)
LEMMA ReachAround ==
    ASSUME NEW q \in Sectors, NEW r \in Sectors, \A i \in {1, 2} : r[i] - q[i] \in -1 .. 1
    PROVE  r \in Around(q) /\ Around(q) \in SUBSET Sectors
<1>1. PICK x \in 0 .. Width - 1, y \in 0 .. Height - 1 : q = <<x, y>>
  BY DEF Sectors
<1>2. PICK u \in 0 .. Width - 1, v \in 0 .. Height - 1 : r = <<u, v>>
  BY DEF Sectors
<1>3. u - x \in -1 .. 1 /\ v - y \in -1 .. 1
  BY <1>1, <1>2
<1>4. u \in x - 1 .. x + 1 /\ v \in y - 1 .. y + 1
  BY <1>3, ChatAssumption
<1>5. QED
  BY <1>1, <1>2, <1>4 DEF Around, Sectors

LEMMA OnChatRecvInv ==
    ASSUME ChatInv, NEW c \in Clients, NEW p \in ChatPackets, OnChatRecv(c, p)
    PROVE  ChatInv'
<1>a. /\ ClientsInv /\ SectorsExact /\ Stayers /\ Singles /\ OnlyProvenReplace /\ ChatTypes
      /\ \A d \in Clients : ClientOf(d)
  BY DEF ChatInv, ClientsInv
<1>b. /\ phase[c] = "mapped" /\ pc[c] = "idle" /\ packets' = packets + 1
      /\ UNCHANGED <<phase, account, loggedIn, place, sector, evictor, proven, blind>>
  BY DEF OnChatRecv
<1>c. /\ stayed[c] = {} /\ found[c] = Nobody /\ packets' \in Nat /\ Nobody' = Nobody
      /\ rest \in [Clients -> SUBSET (Clients \cup Sectors)]
      /\ stayed \in [Clients -> SUBSET Clients]
      /\ packet \in [Clients -> ChatPackets \cup {NoPacket}]
  BY <1>a, <1>b DEF ClientOf, ChatTypes, Nobody
<1>1. CASE Refused(c, p)
  <2>1. /\ ReserveDelete(c) /\ NotStaying(c)
        /\ UNCHANGED <<pc, packet, rest, found>>
    BY <1>1 DEF OnChatRecv
  <2>2. /\ live' \subseteq live /\ willDelete \subseteq willDelete'
        /\ willDelete' = willDelete \cup {c}
    BY <2>1 DEF ReserveDelete
  <2>3. /\ stayed' \in [Clients -> SUBSET Clients]
        /\ \A d \in Clients : stayed'[d] = stayed[d] \ {c}
    BY <2>1, <1>a, Gone
  <2>4. \A d \in Clients : \A e \in stayed[d] : e \notin willDelete
    BY <1>a DEF Stayers, StayerOf
  <2>5. \A d \in Clients : stayed'[d] \subseteq stayed[d] /\ stayed'[d] \cap willDelete' = {}
    BY <2>2, <2>3, <2>4
  <2>6. /\ pc' \in [Clients -> Steps] /\ packet' \in [Clients -> ChatPackets \cup {NoPacket}]
        /\ rest' \in [Clients -> SUBSET (Clients \cup Sectors)]
        /\ found' \in [Clients -> [Clients -> Nat]]
    BY <2>1, <1>a DEF ChatTypes
  <2>7. pc'[c] = "idle" /\ pc[c] # "insert" /\ found'[c] = Nobody /\ stayed'[c] = {}
    BY <2>1, <2>3, <1>b, <1>c
  <2>8. willDelete' \subseteq willDelete \cup {c}
    BY <2>2
  <2>9. \A d \in Clients \ {c} : /\ pc'[d] = pc[d] /\ packet'[d] = packet[d]
                                 /\ rest'[d] = rest[d] /\ found'[d] = found[d]
    BY <2>1
  <2>10. QED
    BY <2>2, <2>3, <2>5, <2>6, <2>7, <2>8, <2>9, <1>b, <1>c, EndInv
<1>2. CASE ~Refused(c, p)
  <2>a. /\ packet' = [packet EXCEPT ![c] = p] /\ UNCHANGED <<live, willDelete>>
        /\ packet'[c] = p
    BY <1>2, <1>c DEF OnChatRecv
  <2>b. UNCHANGED <<playerVars, sector, evictor, proven, blind>>
    BY <2>a, <1>b DEF playerVars
  <2>1. CASE /\ p.kind = "login" /\ Goto(c, "consume")
             /\ rest' = [rest EXCEPT ![c] = InMap \ {c}]
             /\ UNCHANGED <<found, stayed>>
    <3>1. /\ rest' \in [Clients -> SUBSET (Clients \cup Sectors)]
          /\ rest'[c] = InMap \ {c} /\ \A d \in Clients \ {c} : rest'[d] = rest[d]
      BY <2>1, <1>c DEF InMap
    <3>2. pc'[c] = "consume"
      BY <2>1, <1>a, GoneTo DEF Steps
    <3>3. c \notin loggedIn
      BY <2>1, <1>2 DEF Refused
    <3>4. ClientOf(c)'
      BY <2>1, <2>a, <3>2, <3>3, <1>a, <1>b, <1>c DEF ClientOf
    <3>5. ScanOf(c)'
      <4>1. InMap' = InMap
        BY <1>b DEF InMap
      <4>2. QED
        BY <3>1, <3>2, <4>1 DEF ScanOf
    <3>6. stayed'[c] = {} /\ stayed' \in [Clients -> SUBSET Clients]
          /\ \A d \in Clients \ {c} : rest'[d] = rest[d] /\ stayed'[d] = stayed[d]
      BY <2>1, <3>1, <1>c
    <3>7. "consume" \in Steps \ {"insert"}
      BY DEF Steps
    <3>8. QED
      BY <2>1, <2>a, <2>b, <3>1, <3>4, <3>5, <3>6, <3>7, <1>b, <1>c, BeginInv
  <2>2. CASE /\ p.kind = "move"
             /\ Goto(c, IF place[c] = p.to THEN "reply" ELSE "erase")
             /\ UNCHANGED <<rest, found, stayed>>
    <3>1. PICK label \in {"reply", "erase"} : Goto(c, label)
      BY <2>2
    <3>2. label \in Steps \ {"insert"}
      BY DEF Steps
    <3>3. pc'[c] = label
      BY <3>1, <3>2, <1>a, GoneTo
    <3>4. ClientOf(c)'
      BY <2>2, <2>a, <3>3, <1>a, <1>b, <1>c DEF ClientOf
    <3>5. ScanOf(c)'
      BY <3>3 DEF ScanOf
    <3>6. stayed'[c] = {} /\ stayed' \in [Clients -> SUBSET Clients]
          /\ rest' \in [Clients -> SUBSET (Clients \cup Sectors)]
          /\ \A d \in Clients \ {c} : rest'[d] = rest[d] /\ stayed'[d] = stayed[d]
      BY <2>2, <1>c
    <3>7. QED
      BY <2>2, <2>a, <2>b, <3>1, <3>2, <3>4, <3>5, <3>6, <1>b, <1>c, BeginInv
  <2>3. CASE /\ p.kind = "say" /\ Goto(c, "collect")
             /\ rest'   = [rest EXCEPT ![c] = Around(place[c])]
             /\ UNCHANGED found
             /\ stayed' = [stayed EXCEPT ![c] = Reach(place[c])]
    <3>1. PICK q \in Sectors : q = place[c]
      BY <2>3, <1>2, <1>a DEF Refused, ChatTypes, ChatTypeOK
    <3>2. Around(q) \in SUBSET Sectors
      <4>1. \A i \in {1, 2} : q[i] - q[i] \in -1 .. 1
        BY ChatAssumption DEF Sectors
      <4>2. QED
        BY <4>1, ReachAround
    <3>3. Reach(q) \in SUBSET Clients
      BY <1>a DEF Reach, ChatTypes, ChatTypeOK
    <3>4. /\ rest' \in [Clients -> SUBSET (Clients \cup Sectors)] /\ rest'[c] = Around(q)
          /\ stayed' \in [Clients -> SUBSET Clients] /\ stayed'[c] = Reach(q)
          /\ \A d \in Clients \ {c} : rest'[d] = rest[d] /\ stayed'[d] = stayed[d]
      BY <2>3, <3>1, <3>2, <3>3, <1>c
    <3>5. /\ pc'[c] = "collect" /\ \A d \in Clients \ {c} : pc'[d] = pc[d]
          /\ "collect" \in Steps \ {"insert"}
      BY <2>3, <1>a, GoneTo DEF Steps
    <3>6. ClientOf(c)'
      BY <2>3, <2>a, <3>2, <3>4, <3>5, <1>a, <1>b, <1>c DEF ClientOf
    <3>7. ScanOf(c)'
      BY <3>5 DEF ScanOf
    <3>8. ASSUME NEW d \in stayed'[c] PROVE StayerOf(c, d)'
      <4>1. d \in Reach(q) /\ d \in Clients
        BY <3>3, <3>4
      <4>2. /\ d \in loggedIn \ willDelete /\ place[d] # Nowhere /\ pc[d] # "insert"
            /\ \A i \in {1, 2} : place[d][i] - q[i] \in -1 .. 1
        BY <4>1 DEF Reach
      <4>3. place[d] \in Sectors
        BY <4>1, <4>2, <1>a DEF ChatTypes, ChatTypeOK
      <4>4. place'[d] \in rest'[c]
        BY <4>2, <4>3, <3>4, <1>b, ReachAround
      <4>5. found'[c][d] = 0
        BY <2>3, <4>1, <1>c DEF Nobody
      <4>6. pc'[d] # "insert"
        BY <3>5, <4>1, <4>2
      <4>7. QED
        BY <2>a, <4>2, <4>4, <4>5, <4>6, <1>b DEF StayerOf
    <3>9. QED
      BY <2>3, <2>a, <2>b, <3>4, <3>5, <3>6, <3>7, <3>8, <1>b, <1>c, BeginInv
  <2>4. QED
    BY <1>2, <2>1, <2>2, <2>3 DEF OnChatRecv, LoginBegins
<1>3. QED
  BY <1>1, <1>2

-----------------------------------------------------------------------------
(* The two servers together.                                                *)

LEMMA ChatSame ==
    ASSUME ChatInv, UNCHANGED chatVars
    PROVE  ChatInv'
<1>a. /\ ClientsInv /\ SectorsExact /\ Stayers /\ Singles /\ OnlyProvenReplace /\ ChatTypes
      /\ \A d \in Clients : ClientOf(d)
  BY DEF ChatInv, ClientsInv
<1>1. UNCHANGED <<phase, live, account, loggedIn, willDelete, place, sector, pc, packet, rest,
                  found, packets, evictor, proven, blind, stayed>>
  BY DEF chatVars, playerVars, workerVars, chatHistory
<1>2. ChatTypes'
  BY <1>1, <1>a DEF ChatTypes, ChatTypeOK
<1>3. \A d \in Clients : ClientOf(d)'
  BY <1>1, <1>a, ClientKept
<1>4. SectorsExact'
  BY <1>1, <1>a, SectorsKept
<1>5. Stayers'
  BY <1>1, <1>a DEF Stayers, StayerOf
<1>6. Singles'
  BY <1>1, <1>a, SinglesKept
<1>7. OnlyProvenReplace'
  BY <1>1, <1>a DEF OnlyProvenReplace
<1>8. QED
  BY <1>2, <1>3, <1>4, <1>5, <1>6, <1>7 DEF ChatInv, ClientsInv

LEMMA ChatStep ==
    ASSUME ChatInv, ChatNext \/ \E c \in Clients : JoinChat(c)
    PROVE  ChatInv'
<1>1. ASSUME NEW c \in Clients, Worker(c) PROVE ChatInv'
  BY <1>1, ConsumeInv, ScanInv, EnterChatInv, ReplyInv, EraseOldInv, InsertNewInv, CollectInv,
     SendAllInv DEF Worker
<1>2. ASSUME NEW c \in Clients, Leaving(c) \/ Drop(c) \/ OnChatJoin(c) PROVE ChatInv'
  BY <1>2, OnChatLeaveInv, LeaveSectorInv, FreePlayerInv, DropInv, OnChatJoinInv DEF Leaving
<1>3. ASSUME NEW c \in Clients, NEW p \in ChatPackets, OnChatRecv(c, p) PROVE ChatInv'
  BY <1>3, OnChatRecvInv
<1>4. QED
  BY <1>1, <1>2, <1>3 DEF ChatNext, JoinChat

LEMMA FirstChat ==
    ASSUME Init
    PROVE  ChatInv
<1>1. /\ phase = [c \in Clients |-> "new"] /\ live = {} /\ loggedIn = {}
      /\ account = [c \in Clients |-> None] /\ evictor = [c \in Clients |-> None]
      /\ proven = {} /\ packets \in Nat
      /\ willDelete = {} /\ place = [c \in Clients |-> Nowhere]
      /\ sector = [q \in Sectors |-> Nobody]
      /\ pc = [c \in Clients |-> "idle"] /\ packet = [c \in Clients |-> NoPacket]
      /\ rest = [c \in Clients |-> {}] /\ found = [c \in Clients |-> Nobody]
      /\ blind = {} /\ stayed = [c \in Clients |-> {}]
  BY ChatAssumption DEF Init, ChatInit, ChatQuiet
<1>2. Nobody \in [Clients -> 0 .. 1] /\ Nobody \in [Clients -> Nat]
      /\ \A c \in Clients : Nobody[c] = 0
  BY DEF Nobody
<1>3. ChatTypes
  BY <1>1, <1>2 DEF ChatTypes, ChatTypeOK, Steps
<1>4. \A c \in Clients : ClientOf(c) /\ ScanOf(c)
  BY <1>1 DEF ClientOf, ScanOf
<1>5. SectorsExact
  <2>1. \A q \in Sectors : q # Nowhere
    BY DEF Sectors, Nowhere
  <2>2. \A q \in Sectors : sector[q] = Nobody
    BY <1>1
  <2>3. ASSUME NEW c \in Clients, NEW q \in Sectors
        PROVE  sector[q][c] = IF /\ place[c] = q /\ pc[c] # "insert"
                                 /\ phase[c] \in {"mapped", "erased"} THEN 1 ELSE 0
    BY <1>1, <1>2, <2>1, <2>2, <2>3
  <2>4. QED
    BY <2>3 DEF SectorsExact, Sectors
<1>6. Stayers /\ Single /\ OnlyProvenReplace
  BY <1>1 DEF Stayers, Single, OnlyProvenReplace
<1>7. QED
  BY <1>3, <1>4, <1>5, <1>6 DEF ChatInv, ClientsInv, Singles

(* What is true of the two servers and the keys at every moment: the         *)
(* hypotheses of LoginChatInvariant, whatever the number of clients, content *)
(* threads, accounts and sectors, and in whatever order their steps come.   *)
THEOREM ServersInv == Spec => [](LoginInv /\ KeyInv /\ ChatInv)
<1>1. Init => LoginInv /\ KeyInv /\ ChatInv
  BY FirstKeys, FirstChat
<1>2. ASSUME LoginInv /\ KeyInv /\ ChatInv, [Next]_vars
      PROVE  (LoginInv /\ KeyInv /\ ChatInv)'
  <2>1. CASE (LoginNext \/ \E c \in Clients : LogIn(c)) /\ UNCHANGED chatVars
    BY <2>1, <1>2, LoginStep, ChatSame
  <2>2. CASE (ChatNext \/ (\E c \in Clients : JoinChat(c))) /\ UNCHANGED loginVars
    <3>1. ClientsInv
      BY <1>2 DEF ChatInv
    <3>2. QED
      BY <2>2, <3>1, <1>2, ChatKeys, ChatStep
  <2>3. CASE Expire /\ UNCHANGED <<loginVars, chatVars>>
    BY <2>3, <1>2, ExpireInv, ChatSame
  <2>4. CASE UNCHANGED vars
    <3>1. UNCHANGED <<loginVars, keyVars>> /\ UNCHANGED chatVars /\ UNCHANGED keyVars
      BY <2>4 DEF vars
    <3>2. QED
      BY <3>1, <1>2, LoginSame, KeySame, ChatSame
  <2>5. QED
    BY <1>2, <2>1, <2>2, <2>3, <2>4 DEF Next
<1>3. QED
  BY <1>1, <1>2, PTL DEF Spec

(* Every variable of the chat server keeps its type; in particular a player  *)
(* is in no sector twice.                                                   *)
THEOREM ChatStateTypes == Spec => []ChatTypeOK
<1>1. LoginInv /\ KeyInv /\ ChatInv => ChatTypeOK
  BY DEF ChatInv, ClientsInv, ChatTypes
<1>2. QED
  BY <1>1, ServersInv, PTL

(* A key lets in one session for each time the login server stores it: the   *)
(* script of Redis compares and deletes in one step, and a key that expires  *)
(* or is replaced lets in nobody.                                           *)
THEOREM KeysAdmitOnce == Spec => []KeyAdmitsOnce
<1>1. KeyInv => KeyAdmitsOnce
  <2> SUFFICES ASSUME KeyInv, NEW a \in Accounts, NEW k \in Keys
               PROVE  admitted[<<a, k>>] <= issued[<<a, k>>]
    BY DEF KeyAdmitsOnce, Logins
  <2>1. KeyTypes /\ <<a, k>> \in Logins
    BY DEF KeyInv, Logins
  <2>2. admitted[<<a, k>>] + Stored(<<a, k>>) <= issued[<<a, k>>]
    BY <2>1 DEF KeyInv, KeysOnce
  <2>3. Stored(<<a, k>>) \in {0, 1}
    BY <2>1, StoredType
  <2>4. QED
    BY <2>1, <2>2, <2>3, StoredType
<1>2. QED
  BY <1>1, ServersInv, PTL

(* Who is disconnected as a duplicate is so by a client whose key matched,   *)
(* and was itself let in with a key.                                        *)
THEOREM OnlyProvenEvict == Spec => []OnlyProvenReplace
<1>1. LoginInv /\ KeyInv /\ ChatInv => OnlyProvenReplace
  BY DEF ChatInv
<1>2. QED
  BY <1>1, ServersInv, PTL

(* Two sessions of one account that are both logged in and connected come    *)
(* only of logins that overlapped, or of a session that was replaced and is  *)
(* still in the map: the loop of login stops at the first one.              *)
THEOREM AccountsHaveOneSession == Spec => []OneSession
<1>1. LoginInv /\ KeyInv /\ ChatInv => OneSession
  <2> SUFFICES ASSUME ChatInv, NEW a \in Accounts \ blind
               PROVE  Cardinality({c \in loggedIn \cap live : account[c] = a}) <= 1
    BY DEF OneSession
  <2>1. PICK S \in SUBSET Clients : S = {c \in loggedIn \cap live : account[c] = a}
    BY DEF ChatInv, ClientsInv, ChatTypes, ChatTypeOK
  <2>2. \A c, d \in S : c = d
    BY <2>1 DEF ChatInv, Singles, Single
  <2>3. IsFiniteSet(S) /\ Cardinality(S) \in Nat
    BY KeyAssumption, FS_Subset, FS_CardinalityType
  <2>4. Cardinality(S) > 1 => FALSE
    <3>1. CASE S = {}
      BY <3>1, FS_EmptySet
    <3>2. CASE S # {}
      <4>1. PICK c : S = {c}
        BY <2>2, <3>2
      <4>2. QED
        BY <4>1, FS_Singleton
    <3>3. QED
      BY <3>1, <3>2
  <2>5. QED
    BY <2>1, <2>3, <2>4
<1>2. QED
  BY <1>1, ServersInv, PTL

(* A player is in the sector its coordinates name, once, and nowhere else,   *)
(* except between the two locks of movePlayerSector, and is in none once it  *)
(* goes back to the pool.                                                   *)
THEOREM SectorsAreExact == Spec => []SectorsExact
<1>1. LoginInv /\ KeyInv /\ ChatInv => SectorsExact
  BY DEF ChatInv
<1>2. QED
  BY <1>1, ServersInv, PTL

(* A broadcast counts everybody who stays logged in within reach from its    *)
(* beginning to its end once, though its sectors are locked one by one.     *)
THEOREM StayersAreHeard == Spec => []StayersHear
<1>1. LoginInv /\ KeyInv /\ ChatInv => StayersHear
  BY DEF ChatInv, ClientsInv, ClientOf, Stayers, StayerOf, StayersHear
<1>2. QED
  BY <1>1, ServersInv, PTL

(* When all that was posted for a session is done, its request was answered  *)
(* and its player is gone with it, unless OnClientJoin came after the        *)
(* request or the end.                                                      *)
THEOREM JobsInOrder == Spec => []OnlyLateJoins
<1>1. LoginInv => OnlyLateJoins
  <2> SUFFICES ASSUME LoginInv, NEW c \in Clients \ late, Drained(c)
               PROVE  /\ told[c] = "waits" => session[c] # "open"
                      /\ session[c] = "left" => c \notin playerOf
    BY DEF OnlyLateJoins
  <2>1. SessionOf(c) /\ Timely(c)
    BY DEF LoginInv, Drained, Timely
  <2>2. PICK q \in Seq(Jobs) : q = jobs[ThreadOf[c]]
    BY LoginAssumption DEF LoginInv, LoginTypes
  <2>3. \A job \in Pending(ThreadOf[c]) : job.id # c
    BY <2>2 DEF Pending, Drained
  <2>4. \A types : ~Waits(c, types)
    BY <2>3 DEF Waits
  <2>5. QED
    BY <2>1, <2>4 DEF SessionOf
<1>2. QED
  BY <1>1, ServersInv, PTL

(* A client that was told it is logged in finds its key stored, unless it    *)
(* was used, replaced or expired, or storing it had failed.                 *)
THEOREM ToldClientsHaveKeys == Spec => []ToldIsStored
<1>1. LoginInv => ToldIsStored
  <2>1. ASSUME LoginInv, NEW c \in Clients, told[c] = "ok"
        PROVE  /\ fate[c] \in {"failed", "valid", "gone"}
               /\ fate[c] = "valid" => store[asked[c][1]].key = AsStored(asked[c][2])
    <3>1. FateOf(c)
      BY <2>1 DEF LoginInv
    <3>2. \A k : [key |-> k, by |-> c].key = k
      OBVIOUS
    <3>3. QED
      BY <2>1, <3>1, <3>2 DEF FateOf
  <2>2. QED
    BY <2>1 DEF ToldIsStored
<1>2. QED
  BY <1>1, ServersInv, PTL

================================================================================
