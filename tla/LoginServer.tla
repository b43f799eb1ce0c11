------------------------------ MODULE LoginServer ------------------------------
(***************************************************************************)
(* The login server: the engine's threads post jobs to the port of a        *)
(* session's content thread, which owns the players of its sessions, looks   *)
(* the account up and leaves the client's key in Redis before it answers.    *)
(*                                                                         *)
(* The engine is the login server's copy (LoginCopy of BaseServer): the      *)
(* first receive is posted before OnClientJoin is called, so a PACKET, and   *)
(* even the LEAVE, can be posted before the JOIN; OnClientJoin then gets the *)
(* id the session has at that moment, 0 when it has been reset.              *)
(***************************************************************************)
EXTENDS SessionKeys, Sequences

CONSTANTS
    ContentThreads,
    ThreadOf,       (* GetTargetThread, of the clients' sessions and of Zero *)
    Zero,           (* the session id 0                                      *)
    Registered,     (* accounts with a row in the database                   *)
    LoginRequests   (* the requests <<account, key>> clients send            *)

BadRequest == <<None, None>>

ASSUME LoginAssumption ==
    /\ Zero \notin Clients /\ Registered \subseteq Accounts
    /\ ThreadOf \in [Clients \cup {Zero} -> ContentThreads]
    /\ LoginRequests \subseteq Logins \cup {BadRequest}

VARIABLES
    session,        (* where the engine is with the session of a client      *)
    accepting,      (* the session the accept thread has yet to tell of      *)
    jobs,           (* mContentocpHandles: the queued jobs, oldest first     *)
    step,           (* where a content thread is in its job, the head        *)
    status,         (* its local status                                      *)
    playerOf,       (* mPlayerMap: sessions that have a player               *)
    asked, told,    (* the request and the answer of a client                *)
    late            (* clients whose JOIN was posted after their end, or     *)
                    (* behind their request                                  *)

loginVars == <<session, accepting, jobs, step, status, playerOf, asked, told, late>>

LoginInit ==
    /\ session = [c \in Clients |-> "new"] /\ accepting = None
    /\ jobs = [t \in ContentThreads |-> <<>>]
    /\ step = [t \in ContentThreads |-> "wait"]
    /\ status = [t \in ContentThreads |-> "fail"]
    /\ playerOf = {}
    /\ asked = [c \in Clients |-> BadRequest]
    /\ told = [c \in Clients |-> "nothing"] /\ late = {}

Job(type, id) == [type |-> type, id |-> id]

Mutant_Post(type, id) ==
    \E t \in ContentThreads : jobs' = [jobs EXCEPT ![t] = Append(@, Job(type, id))]
Post(type, id) == jobs' = [jobs EXCEPT ![ThreadOf[id]] = Append(@, Job(type, id))]

-----------------------------------------------------------------------------
(* The engine's threads.                                                    *)

(* createSession and the first postRecv. *)
AcceptLogin(c) ==
    /\ session[c] = "new" /\ accepting = None
    /\ session' = [session EXCEPT ![c] = "open"]
    /\ accepting' = c
    /\ UNCHANGED <<jobs, step, status, playerOf, asked, told, late, keyVars>>

(* OnClientJoin(newSession->id). *)
OnClientJoin(c) ==
    /\ accepting = c
    /\ \E id \in {c} \cup (IF session[c] = "left" THEN {Zero} ELSE {}) : Post("JOIN", id)
    /\ accepting' = None
    /\ late' = IF told[c] # "nothing" \/ session[c] = "left" THEN late \cup {c} ELSE late
    /\ UNCHANGED <<session, step, status, playerOf, asked, told, keyVars>>

(* OnRecv; one request per session. *)
OnLoginRecv(c, r) ==
    /\ session[c] = "open" /\ told[c] = "nothing"
    /\ asked' = [asked EXCEPT ![c] = r]
    /\ Post(IF r = BadRequest THEN "BAD" ELSE "PACKET", c)
    /\ told' = [told EXCEPT ![c] = "waits"]
    /\ UNCHANGED <<session, accepting, step, status, playerOf, late, keyVars>>

(* OnClientLeave, at the end of the session. *)
OnLoginLeave(c) ==
    /\ session[c] \in {"open", "closing"}
    /\ session' = [session EXCEPT ![c] = "left"]
    /\ Post("LEAVE", c)
    /\ UNCHANGED <<accepting, step, status, playerOf, asked, told, late, keyVars>>

-----------------------------------------------------------------------------
(* contentThread.                                                           *)

At(t, type) == step[t] = "wait" /\ jobs[t] # <<>> /\ Head(jobs[t]).type = type
JobId(t)    == Head(jobs[t]).id
NextJob(t)  == jobs' = [jobs EXCEPT ![t] = Tail(@)]

(* A second player for an id that has one is left to itself: it is in no    *)
(* map and is not given back.                                               *)
DoJoin(t) ==
    /\ At(t, "JOIN")
    /\ playerOf' = playerOf \cup {JobId(t)}
    /\ NextJob(t)
    /\ UNCHANGED <<session, accepting, step, status, asked, told, late, keyVars>>

(* removePlayer; its DisConnect finds no session any more. *)
DoLeave(t) ==
    /\ At(t, "LEAVE")
    /\ playerOf' = playerOf \ {JobId(t)}
    /\ NextJob(t)
    /\ UNCHANGED <<session, accepting, step, status, asked, told, late, keyVars>>

(* A PACKET without a player is dropped. *)
NoPlayer(t) ==
    /\ At(t, "PACKET") \/ At(t, "BAD")
    /\ JobId(t) \notin playerOf
    /\ NextJob(t)
    /\ UNCHANGED <<session, accepting, step, status, playerOf, asked, told, late, keyVars>>

(* An unknown opcode: reserveDeletePlayer. *)
DoBad(t) ==
    /\ At(t, "BAD") /\ JobId(t) \in playerOf
    /\ session' = [session EXCEPT ![JobId(t)] = IF @ = "open" THEN "closing" ELSE @]
    /\ NextJob(t)
    /\ UNCHANGED <<accepting, step, status, playerOf, asked, told, late, keyVars>>

Request(t) == asked[JobId(t)]

Mutant_AfterQuery == "answer"
AfterQuery == "store"

(* login, up to mysql_fetch_row: no connection, no result or no row leave    *)
(* the status at FAIL.                                                      *)
Query(t) ==
    /\ At(t, "PACKET") /\ JobId(t) \in playerOf
    /\ \/ /\ Request(t)[1] \in Registered
          /\ status' = [status EXCEPT ![t] = "ok"]
          /\ step' = [step EXCEPT ![t] = AfterQuery]
          /\ fate' = [fate EXCEPT ![JobId(t)] = "pending"]
       \/ /\ status' = [status EXCEPT ![t] = "fail"]
          /\ step' = [step EXCEPT ![t] = "answer"]
          /\ UNCHANGED fate
    /\ UNCHANGED <<session, accepting, jobs, playerOf, asked, told, late, store, issued,
                   admitted>>

(* mRedis.Set, whose result is not looked at. *)
StoreKey(t) ==
    /\ step[t] = "store"
    /\ \/ SetEx(JobId(t), Request(t)[1], Request(t)[2])
       \/ fate' = [fate EXCEPT ![JobId(t)] = "failed"] /\ UNCHANGED <<store, issued, admitted>>
    /\ step' = [step EXCEPT ![t] = "answer"]
    /\ UNCHANGED <<session, accepting, jobs, status, playerOf, asked, told, late>>

(* SendPacket of the answer; nobody gets it when the session is gone. *)
Answer(t) ==
    /\ step[t] = "answer"
    /\ told' = [told EXCEPT ![JobId(t)] =
                  IF session[JobId(t)] = "open" THEN status[t] ELSE @]
    /\ step' = [step EXCEPT ![t] = "wait"] /\ NextJob(t)
    /\ UNCHANGED <<session, accepting, status, playerOf, asked, late, keyVars>>

ContentThread(t) ==
    DoJoin(t) \/ DoLeave(t) \/ NoPlayer(t) \/ DoBad(t) \/ Query(t) \/ StoreKey(t) \/ Answer(t)

LoginNext ==
    \/ \E c \in Clients :
         \/ OnClientJoin(c) \/ OnLoginLeave(c)
         \/ \E r \in LoginRequests : OnLoginRecv(c, r)
    \/ \E t \in ContentThreads : ContentThread(t)

-----------------------------------------------------------------------------
(* A thread is done with all that was posted for the client.                *)
Drained(c) ==
    /\ accepting # c
    /\ \A i \in DOMAIN jobs[ThreadOf[c]] : jobs[ThreadOf[c]][i].id # c

(* The order of the jobs is all that can go wrong between the engine and     *)
(* the content threads: when the jobs of a session are done, a request was   *)
(* answered (while its session was open), and a session that ended has no    *)
(* player any more, unless the JOIN was posted late.                         *)
OnlyLateJoins == \A c \in Clients \ late :
    Drained(c) =>
      /\ told[c] = "waits" => session[c] # "open"
      /\ session[c] = "left" => c \notin playerOf
================================================================================
