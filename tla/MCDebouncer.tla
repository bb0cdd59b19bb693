---------------------------- MODULE MCDebouncer ----------------------------
(* Three calls, of which one has a longer delay; one fault, or two together. *)
EXTENDS Debouncer

CONSTANTS c1, c2, c3

three == {c1, c2, c3}
delays == [c \in three |-> IF c = c1 THEN 2 ELSE 1]
two == {c1, c2}
same == [c \in two |-> 2]
Bound(S, la, cr, sh, ca, er, un, co) ==
    [calls |-> S, most |-> [late |-> la, crash |-> cr, shutdown |-> sh, cancel |-> ca, error |-> er,
                            unacked |-> un, collect |-> co]]
several == {Bound(three, 0, 0, 0, 0, 0, 0, 0), Bound(two, 1, 1, 0, 0, 0, 2, 0), Bound(two, 0, 0, 1, 0, 0, 0, 1),
            Bound(two, 0, 0, 0, 1, 0, 0, 1), Bound(two, 1, 0, 0, 0, 1, 0, 1), Bound(two, 0, 1, 0, 0, 2, 0, 0),
            Bound(two, 0, 1, 0, 1, 0, 0, 0)}
calm == {Bound(two, 0, 0, 0, 0, 0, 0, 0)}
=============================================================================
