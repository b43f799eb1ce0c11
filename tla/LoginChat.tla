------------------------------- MODULE LoginChat -------------------------------
(***************************************************************************)
(* The login server and the chat server with the keys in between. A client   *)
(* may log in first, and closes that connection before it joins the chat:    *)
(* what the login server does after its answer is of no consequence there.  *)
(***************************************************************************)
EXTENDS LoginServer, ChatServer

vars == <<keyVars, loginVars, chatVars>>

Init == KeysInit /\ LoginInit /\ ChatInit

JoinChat(c) ==
    /\ session[c] \in {"new", "left"}
    /\ OnChatJoin(c)

LogIn(c) == phase[c] = "new" /\ AcceptLogin(c)

Next ==
    \/ (LoginNext \/ \E c \in Clients : LogIn(c)) /\ UNCHANGED chatVars
    \/ (ChatNext \/ (\E c \in Clients : JoinChat(c))) /\ UNCHANGED loginVars
    \/ Expire /\ UNCHANGED <<loginVars, chatVars>>

Spec == Init /\ [][Next]_vars

(* A client that was told it is logged in can come to the chat server with   *)
(* its key at once: the key was stored before, and is there unless it was    *)
(* used, replaced or expired, or storing it had failed, which nobody looks   *)
(* at.                                                                      *)
ToldIsStored == \A c \in Clients :
    told[c] = "ok" => /\ fate[c] \in {"failed", "valid", "gone"}
                      /\ fate[c] = "valid" => store[asked[c][1]].key = AsStored(asked[c][2])
================================================================================
