--------------------------- MODULE MCPublication ---------------------------
(***************************************************************************)
(* Small instances of Publication for TLC.                                 *)
(***************************************************************************)
EXTENDS Publication, TLC

CONSTANTS alice, bob, origin, mirror, t1, t2, chat, none

\* Every clone's user acknowledged every destination.
AllConsented == [c \in Clones |-> Destinations]

\* Who captures what: t1 is alice's, the last thought is bob's where he exists.
AliceOnly == [t \in Thoughts |-> alice]
OneEach == [t \in Thoughts |-> IF t = t1 THEN alice ELSE bob]

OneSession == [t \in Thoughts |-> chat]
NoParents == [t \in Thoughts |-> NoThought]
Replies == [t \in Thoughts |-> IF t = t1 THEN NoThought ELSE t1]

AllMcp == [t \in Thoughts |-> "mcp"]
AllHarness == [t \in Thoughts |-> "harness"]
ThenMcp == [t \in Thoughts |-> IF t = t1 THEN "passive" ELSE "mcp"]
OwnRequests == [t \in Thoughts |-> t]

\* Alice and bob are alike, each with a thought of their own.
Swap == {[x \in {alice, bob, t1, t2} |-> x],
         [x \in {alice, bob, t1, t2} |->
            CASE x = alice -> bob [] x = bob -> alice [] x = t1 -> t2 [] x = t2 -> t1]}
=============================================================================
