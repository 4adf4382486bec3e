------------------------------- MODULE MCTaskLoop -------------------------------
(* One task for TLC: two allowed sources and a foreign one.                   *)
EXTENDS TaskLoop
================================================================================
