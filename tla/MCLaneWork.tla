-------------------------------- MODULE MCLaneWork -------------------------------
(* LaneWork with four jobs on three lanes, two of them in the same lane.        *)
EXTENDS LaneWork

JobCount == 4
LaneMap  == <<"a", "a", "b", "c">>
LaneSet  == {"a", "b", "c"}

Good(j) == [kind |-> "result", request |-> j, size |-> "fits", finish |-> "stop",
            trace |-> "bounded", action |-> "final", shape |-> TRUE, cites |-> {j}]

\* The good answer of every job, which is a wrong one for the others; one that
\* cites another job's source, and one for each other check.
AnswerSet ==
  {Good(j) : j \in {1, 3}}
    \cup {[Good(1) EXCEPT !.cites = {1, 2}], [Good(1) EXCEPT !.finish = "length"]}
================================================================================
