--------------------------- MODULE MCQueueDispatch ---------------------------
(* Instances of QueueDispatch for TLC.                                      *)
EXTENDS QueueDispatch

CONSTANTS e1, e2, w1, w2, w3

\* The workflows: w1 may be delayed and w2 more urgent than the others.
SamePriority == [w \in Workflow |-> 0]
Urgent == [w \in Workflow |-> IF w = w2 THEN 0 ELSE 1]
OneDelayed == [w \in Workflow |-> IF w = w1 THEN 1 ELSE 0]

==============================================================================
