--------------------------- MODULE MCWorkflowTree ---------------------------
(* A root with two children, the second of which may hang, and a fork.      *)
EXTENDS WorkflowTree

ids == {<<1>>, <<1, 1>>, <<1, 2>>, <<2>>, <<2, 1>>, <<2, 2>>}
root == <<1>>
forked == <<2>>
queued == {<<1, 1>>}
hangs == {<<1, 2>>}
Bound(cr, ca, re, de, co, fo) ==
    [crash |-> cr, cancel |-> ca, resume |-> re, delete |-> de, collect |-> co, fork |-> fo]
several == {Bound(1, 1, 0, 0, 0, 0), Bound(1, 0, 0, 1, 0, 0), Bound(0, 1, 1, 0, 0, 0),
            Bound(0, 0, 0, 0, 1, 1)}
=============================================================================
