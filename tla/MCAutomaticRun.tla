------------------------------ MODULE MCAutomaticRun -----------------------------
(* AutomaticRun with small cohorts and lanes.                                   *)
EXTENDS AutomaticRun
================================================================================
