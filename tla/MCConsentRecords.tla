-------------------------- MODULE MCConsentRecords --------------------------
(***************************************************************************)
(* Two processes of either version, one destination whose URL has user     *)
(* information in some remotes.                                            *)
(***************************************************************************)
EXTENDS ConsentRecords, TLC

CONSTANT l1

Today(does, from) == [does |-> does, version |-> "today", from |-> from]
Earlier(does) == [does |-> does, version |-> "earlier", from |-> l1]
Asked == {Today("look", l1), Today("autoOff", l1), Today("push", l1), Today("unshare", l1),
          Today("consent", Fp), Today("capture", Fp),
          Earlier("share"), Earlier("hook"), Earlier("autoOn")}
=============================================================================
