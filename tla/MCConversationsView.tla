------------------------ MODULE MCConversationsView ------------------------
(***************************************************************************)
(* A small instance of ConversationsView for TLC: a session with an agent, *)
(* an imported conversation, and two remotes.                              *)
(***************************************************************************)
EXTENDS ConversationsView

CONSTANTS origin, fork, f1, f2, session, agent, pulled

Agent == [c \in Conversations |-> IF c = agent THEN session ELSE None]
Urls == [r \in Remotes |-> IF r = origin THEN f1 ELSE f2]
Consents == {[d \in Destinations |-> IF d = f1 THEN first ELSE "none"] :
                first \in {"none", "manual"}}
Thoughts == [c \in Conversations |->
    IF c = session THEN {1} ELSE IF c = agent THEN {2} ELSE {3}]
\* The session is shared for its first destination.
Shared == [d \in Destinations |-> IF d = f1 THEN {1} ELSE {}]
=============================================================================
