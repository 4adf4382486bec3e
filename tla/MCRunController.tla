---------------------------- MODULE MCRunController ----------------------------
(* The controller on its own, for TLC.                                        *)
EXTENDS RunController
================================================================================
