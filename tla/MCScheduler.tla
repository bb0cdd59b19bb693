----------------------------- MODULE MCScheduler -----------------------------
(* Instances of Scheduler for TLC.                                          *)
EXTENDS Scheduler

CONSTANTS p1, p2

Backfilled == {TRUE}
BothKinds == {"static", "dynamic"}

Bound(create, status, delete, crash, failure) ==
    [create |-> create, status |-> status, delete |-> delete, crash |-> crash, failure |-> failure]

\* A pause, a replaced schedule, crashes and failing submissions.
Several == {Bound(1, 1, 0, 0, 0), Bound(2, 0, 1, 0, 0), Bound(1, 0, 0, 2, 0), Bound(1, 0, 0, 1, 1)}

\* Two ticks come due, the third one is what is waited for after them.
OddTicks == {1, 3, 9}

==============================================================================
