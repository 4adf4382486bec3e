------------------------------- MODULE MCSerialDag ------------------------------
(* A workflow for TLC in which every kind of outcome meets a join.            *)
EXTENDS SerialDag, TLC

\* 1 and 2 are sources; 3 needs 1; 4 tolerates the failure of 2 and 3; 5 needs
\* the degraded 4; 6 needs 3, also when 3 was skipped.
Flow      == 1..6
FlowDeps  == (1 :> {}) @@ (2 :> {}) @@ (3 :> {1}) @@ (4 :> {2, 3}) @@ (5 :> {4}) @@ (6 :> {3})
FlowAgent == (1 :> "x") @@ (2 :> "y") @@ (3 :> "x") @@ (4 :> "y") @@ (5 :> "z") @@ (6 :> "z")
FlowRank  == [t \in Flow |-> t]
================================================================================
