--------------------------- MODULE MCHarnessSetup ---------------------------
(***************************************************************************)
(* A small repository for HarnessSetup: its own worktree, one to be added, *)
(* one whose branch brings the settings file back into commits; a hook     *)
(* file of the user's with a block of an earlier release, one that is not  *)
(* a shell script, and one that is not there.                              *)
(***************************************************************************)
EXTENDS HarnessSetup, TLC

CONSTANTS main, side, public, stable, copy, observe, lint

Branches == [w \in Worktrees |-> IF w = public THEN "unignored" ELSE "plain"]
Files == [h \in Hooks |-> IF h = PostCheckout THEN <<"user", "older">>
                       ELSE IF h = lint THEN <<"script">> ELSE None]

Alike == Permutations(Commands)
=============================================================================
