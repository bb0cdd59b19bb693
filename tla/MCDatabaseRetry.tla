-------------------------- MODULE MCDatabaseRetry --------------------------
(* A step with retries and a send.  The time for retries is over after three *)
(* delays.                                                                   *)
EXTENDS DatabaseRetry

sends == {2}
Bound(lo, fa, re, ra, rj, cr, sh) ==
    [lost |-> lo, failed |-> fa, refused |-> re, raised |-> ra, rejected |-> rj, crash |-> cr, shutdown |-> sh]
several == {Bound(2, 1, 1, 0, 0, 2, 0), Bound(1, 1, 0, 2, 1, 1, 1), Bound(1, 4, 1, 0, 0, 1, 0), Bound(2, 0, 0, 1, 1, 1, 1)}
restart == {Bound(1, 1, 0, 0, 0, 0, 0)}
=============================================================================
