------------------------------ MODULE SessionKeys ------------------------------
(***************************************************************************)
(* The session keys in Redis, between the login server and the chat server: *)
(* one value per account number, set with a time to live by the one, and    *)
(* compared and deleted by a script of the other.                           *)
(***************************************************************************)
EXTENDS Integers, FiniteSets

CONSTANTS
    Clients,        (* who log in, and then join the chat                    *)
    Accounts,
    Keys,           (* the 64 bytes a client chooses                         *)
    WithNul,        (* keys with a zero byte in them                         *)
    None

ASSUME KeyAssumption ==
    /\ IsFiniteSet(Clients) /\ WithNul \subseteq Keys
    /\ None \notin Clients \cup Accounts \cup Keys

VARIABLES
    store,          (* the value of an account, and who had it stored        *)
    issued,         (* history: how often the key of an account was stored,  *)
    admitted,       (* and how often it let somebody in                      *)
    fate            (* what has become of a client's key: none, pending,     *)
                    (* failed, valid or gone                                 *)

keyVars == <<store, issued, admitted, fate>>

Empty  == [key |-> None, by |-> None]
Logins == Accounts \X Keys

(* std::string(const char* ) ends at the first zero byte, and is then equal  *)
(* to no 64-byte string.                                                    *)
AsStored(k) == IF k \in WithNul THEN None ELSE k

KeysInit ==
    /\ store = [a \in Accounts |-> Empty]
    /\ issued = [l \in Logins |-> 0] /\ admitted = [l \in Logins |-> 0]
    /\ fate = [c \in Clients |-> "none"]

(* The key that is stored for the account is used, replaced or expired. *)
FateIfLost(a) == IF store[a] = Empty THEN fate ELSE [fate EXCEPT ![store[a].by] = "gone"]

(* SETEX. *)
SetEx(c, a, k) ==
    /\ store'  = [store EXCEPT ![a] = [key |-> AsStored(k), by |-> c]]
    /\ issued' = [issued EXCEPT ![<<a, k>>] = @ + 1]
    /\ fate'   = [FateIfLost(a) EXCEPT ![c] = "valid"]
    /\ UNCHANGED admitted

Matches(a, k) == store[a] # Empty /\ store[a].key = k

(* The script of CompareAndDel, when the key matches. *)
Mutant_Del(a) == UNCHANGED store
Del(a) == store' = [store EXCEPT ![a] = Empty]

ConsumeKey(a, k) ==
    /\ Matches(a, k)
    /\ Del(a)
    /\ fate' = FateIfLost(a)
    /\ UNCHANGED issued

(* The 60 seconds are over. *)
Expire ==
    \E a \in Accounts :
      /\ store[a] # Empty
      /\ store' = [store EXCEPT ![a] = Empty]
      /\ fate'  = FateIfLost(a)
      /\ UNCHANGED <<issued, admitted>>

================================================================================
