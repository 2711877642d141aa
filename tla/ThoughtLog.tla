----------------------------- MODULE ThoughtLog -----------------------------
(***************************************************************************)
(* What the destinations of a repository promise to everyone who reads     *)
(* them, whatever their clones do: a record of thoughts that is only added *)
(* to, where a thought leaves by a tombstone, for good.  Design.md calls   *)
(* refs/cvc/main an append-only tree.                                      *)
(***************************************************************************)
CONSTANTS Thoughts, Destinations

VARIABLES
    served,      \* served[d]: the thoughts a reader finds at d
    suppressed   \* suppressed[d]: the thoughts d has a tombstone for

logVars == <<served, suppressed>>

Init ==
    /\ served = [d \in Destinations |-> {}]
    /\ suppressed = [d \in Destinations |-> {}]

\* A commit brings thoughts that are new to the destination, and tombstones.
Publish(d, new, gone) ==
    /\ new \cap (served[d] \cup suppressed[d] \cup gone) = {}
    /\ served' = [served EXCEPT ![d] = (@ \cup new) \ gone]
    /\ suppressed' = [suppressed EXCEPT ![d] = @ \cup gone]

Next ==
    \E d \in Destinations, new, gone \in SUBSET Thoughts : Publish(d, new, gone)

Spec == Init /\ [][Next]_logVars
=============================================================================
