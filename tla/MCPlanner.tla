------------------------------- MODULE MCPlanner -------------------------------
(* Plans of up to two steps and two governor calls, for TLC.               *)
EXTENDS Planner, TLC

CONSTANT n1
Step(id, ok) == [id |-> id, name |-> n1, ok |-> ok]
SomePlans == {<<>>, <<Step(1, FALSE)>>, <<Step(1, TRUE), Step(1, TRUE)>>, <<Step(1, TRUE), Step(2, TRUE)>>}
===============================================================================
