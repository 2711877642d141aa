--------------------------- MODULE MCRewriteInbox ---------------------------
(***************************************************************************)
(* Small instances of RewriteInbox for TLC: commit A is amended to B and B *)
(* to C, and the file of the second batch sorts before that of the first.  *)
(***************************************************************************)
EXTENDS RewriteInbox, TLC

CONSTANTS A, B, C, ab, bc, bad

Amends == [x \in Batches |-> IF x = ab THEN {<<A, B>>}
                             ELSE IF x = bc THEN {<<B, C>>} ELSE {}]
SecondFirst == IF bad \in Batches THEN <<bad, bc, ab>> ELSE <<bc, ab>>
=============================================================================
