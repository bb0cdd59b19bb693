------------------------ MODULE MCWorkflowExecution ------------------------
(* Instances of WorkflowExecution for TLC. *)
EXTENDS WorkflowExecution, TLC

CONSTANTS e1, e2, w1, w2, r1, r2, r3, v1, v2

Symmetry3 == Permutations({r1, r2, r3}) \cup Permutations({v1, v2})

\* Only the executor that owns w1 calls it.
OwnerCalls == {<<e1, w1>>}
\* Both processes call run_workflow with the id w1.
BothCall == {<<e1, w1>>, <<e2, w1>>}
CallsNone == {}
EnqueueW1 == {<<e1, w1>>}
EnqueueW2 == {<<e2, w2>>}
=============================================================================
