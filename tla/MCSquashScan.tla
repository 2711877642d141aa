---------------------------- MODULE MCSquashScan ----------------------------
(***************************************************************************)
(* Small instances of SquashScan for TLC: a branch of four commits.        *)
(***************************************************************************)
EXTENDS SquashScan, TLC

CONSTANTS c0, c1, c2, c3, none

Line == [c \in Commits |->
    CASE c = c0 -> NoCommit [] c = c1 -> c0 [] c = c2 -> c1 [] c = c3 -> c2]

\* A pull of two commits or three, a commit on top, and a reset to the root.
PullsAndReset == {<<c0, c2>>, <<c0, c3>>, <<c2, c3>>, <<c2, c0>>}
=============================================================================
