-------------------------- MODULE MCReleaseLauncher --------------------------
(***************************************************************************)
(* A small home for ReleaseLauncher: an old release in ~/.cvc/bin, or the  *)
(* newest without its language server; two launches of newer releases, the *)
(* one of the newest perhaps from a container; an installation; and in     *)
(* their way perhaps the lock of a launch that was killed.                 *)
(***************************************************************************)
EXTENDS ReleaseLauncher

CONSTANTS older, newer, dead, script

Brings == [p \in Processes |-> CASE p = older -> 2 [] p = newer -> 3
                                  [] p = dead -> 3 [] p = script -> 2]
Containers == {{}, {newer}}
Asked == [p \in Launchers |-> IF p = older THEN "cvc-lsp" ELSE "cvc-mcp"]
InBin == {[f \in Files |-> 1], [f \in Files |-> IF f = "cvc-lsp" THEN 0 ELSE 3]}
InCache == [v \in {Brings[p] : p \in Launchers} |-> IF v = 2 THEN "damaged" ELSE "whole"]
==============================================================================
