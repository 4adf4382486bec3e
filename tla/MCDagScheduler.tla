----------------------------- MODULE MCDagScheduler ----------------------------
(* Small workflows for TLC: the shapes of depends_on that make the scheduler    *)
(* choose (shared agents, a full pool, skips, degraded joins).                  *)
EXTENDS DagSchedulerInv, TLC

\* A chain with a side branch: 1 -> 2 -> 4, 1 -> 3 -> 4, and a free task 5 of
\* the agent of 1; 2 and 4 may be allowed to go on after a failure.
Fan         == 1..5
FanDeps     == (1 :> {}) @@ (2 :> {1}) @@ (3 :> {1}) @@ (4 :> {2, 3}) @@ (5 :> {})
FanAgent    == (1 :> "x") @@ (2 :> "y") @@ (3 :> "z") @@ (4 :> "w") @@ (5 :> "x")

\* Three independent tasks of three agents.
Wide        == 1..3
WideDeps    == [t \in Wide |-> {}]
WideAgent   == (1 :> "x") @@ (2 :> "y") @@ (3 :> "z")

\* Task names are their positions in the topological order.
InOrder(S)  == [t \in S |-> t]
FanRank     == InOrder(Fan)
WideRank    == InOrder(Wide)
================================================================================
