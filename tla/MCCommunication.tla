-------------------------- MODULE MCCommunication ---------------------------
(* Instances of Communication for TLC.                                     *)
EXTENDS Communication, TLC

CONSTANTS w1, w2, r1, r2, r3

Op(name, with) == [op |-> name, with |-> with]

\* A sender and a receiver; a workflow that publishes and one that looks on.
Messages == w1 :> << Op("send", w2) >> @@ w2 :> << Op("recv", None), Op("recv", None) >>
Streams == w1 :> << Op("writeStream", None), Op("writeStream", None), Op("closeStream", None) >> @@ w2 :> << Op("sleep", None) >>
Events == w1 :> << Op("setEvent", None), Op("setEvent", None) >> @@ w2 :> << Op("getEvent", w1), Op("sleep", None) >>
Talks == {Messages, Streams, Events}

Bound(crash, rival, shutdown, cancel, send) ==
    [crash |-> crash, rival |-> rival, shutdown |-> shutdown, cancel |-> cancel, send |-> send]

\* A rival and a crash; a crash and a shutdown; a cancellation and a shutdown.
Pairs == {Bound(1, 1, 0, 0, 1), Bound(1, 0, 1, 0, 1), Bound(0, 0, 1, 1, 1)}

TwoTimes == {0, 1}
=============================================================================
