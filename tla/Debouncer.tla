----------------------------- MODULE Debouncer -----------------------------
(***************************************************************************)
(* Calls that are debounced under one key.  The call that wins the         *)
(* deduplication slot enqueues an internal workflow, which waits for the   *)
(* inputs of further calls and then enqueues the target, once; the others  *)
(* find the holder of the slot, send it their input, and begin again when  *)
(* no acknowledgement comes in time.                                       *)
(*                                                                         *)
(* An internal workflow is named for the call that enqueued it, and so is  *)
(* its target.  The steps it has recorded are condensed into what a replay *)
(* of them yields: where it goes on, where it may break off, and which     *)
(* acknowledgements it makes up for.  Calls come from other processes than *)
(* the one that runs the internal queue.  Keys do not share anything.      *)
(***************************************************************************)
EXTENDS Integers, FiniteSets

CONSTANTS Call,        \* calls of debounce
          Delay,       \* the delay of each
          Timeout,     \* Debouncer.timeout; 0 is no timeout
          AckTimeout,  \* ACK_TIMEOUT
          Horizon,     \* the end of time
          None,
          Bounds       \* what may happen in one behaviour: which calls, and how
                       \* often what goes wrong

\* late: a call stops waiting while the holder still has the slot; unacked: an
\* acknowledgement fails; error: another statement does
Happenings == {"late", "crash", "shutdown", "cancel", "error", "unacked", "collect"}

ASSUME DebouncerAssumption ==
    /\ Delay \in [Call -> Nat] /\ Timeout \in Nat /\ AckTimeout \in Nat \ {0} /\ Horizon \in Nat
    /\ None \notin Call \cup Nat
    /\ Bounds \subseteq [calls : SUBSET Call, most : [Happenings -> Nat]]

Time == 0..Horizon

VARIABLES slot,     \* the internal workflow that has the deduplication id
          row,      \* workflow_status of the internal workflows
          target,   \* that of the targets: the input, and when it was enqueued;
                    \* history: whether by a body that left its loop at a failing recv
          inbox,    \* notifications of each internal workflow
          acked,    \* workflow_events of each: the messages acknowledged
          journal,  \* operation_outputs of each: the next step, and what the
                    \* recorded ones yield
          body,     \* where the body of each is, and what it has in its hand: a
                    \* message, or the input it had when a recv failed
          process,  \* "up", "draining" (its token is cancelled), "down"
          call,     \* where each call is
          now,      \* the clock
          earlier,  \* history: the calls that had returned when a call began
          happened  \* how often each of Happenings has happened

cycle == <<slot, row, target, inbox, acked, journal, body>>
vars == <<cycle, process, call, now, earlier, happened>>

\* A time beyond the end of time is the end of time.
Later(t, d) == IF t + d > Horizon THEN Horizon ELSE t + d

NoBody == [pc |-> "none", msg |-> None, input |-> None]

\* had: the inputs that were pending before each recv that is recorded; missed: the
\* messages whose acknowledgement failed, steps without a record.
NewJournal(i) == [stage |-> "start", max |-> Horizon, at |-> None, now |-> None, deadline |-> None,
                  input |-> i, msg |-> None, had |-> {}, missed |-> {}]

Init ==
    /\ slot = None
    /\ row = [c \in Call |-> "ABSENT"]
    /\ target = [c \in Call |-> None]
    /\ inbox = [c \in Call |-> {}] /\ acked = [c \in Call |-> {}]
    /\ journal = [c \in Call |-> NewJournal(c)]
    /\ body = [c \in Call |-> NoBody]
    /\ process = "up"
    /\ call = [i \in Call |-> [pc |-> "idle", holder |-> None, attempt |-> 1, until |-> None,
                               handle |-> None]]
    /\ now = 0
    /\ earlier = [i \in Call |-> {}]
    /\ happened = [h \in Happenings |-> 0]

At(i, pc) == call[i].pc = pc
Begun == {i \in Call : ~At(i, "idle")}

\* One of the bounds allows these calls, and this much.
Within(calls, much) == \E b \in Bounds : calls \subseteq b.calls /\ \A h \in Happenings : much[h] <= b.most[h]

Happens(h) == happened' = [happened EXCEPT ![h] = @ + 1] /\ Within(Begun, happened')

Tick ==
    /\ now < Horizon /\ now' = now + 1
    /\ UNCHANGED <<cycle, process, call, earlier, happened>>

------------------------------------------------------------------------------
(* debounce.                                                               *)

To(i, pc) == call' = [call EXCEPT ![i].pc = pc]
Return(i, h) == call' = [call EXCEPT ![i].pc = "returned", ![i].handle = h, ![i].holder = None, ![i].until = None]

\* The insert of a new internal workflow, which the unique index refuses while
\* another one has the slot.
InsertNew(i) ==
    /\ IF slot = None
       THEN /\ slot' = i /\ row' = [row EXCEPT ![i] = "ENQUEUED"]
            /\ Return(i, i)
       ELSE /\ To(i, "lookup")
            /\ UNCHANGED <<slot, row>>
    /\ UNCHANGED <<target, inbox, acked, journal, body, process, now>>

Begin(i) ==
    /\ At(i, "idle") /\ Within(Begun \cup {i}, happened) /\ InsertNew(i)
    /\ earlier' = [earlier EXCEPT ![i] = {j \in Call : At(j, "returned")}]
    /\ UNCHANGED happened

Insert(i) == At(i, "insert") /\ InsertNew(i) /\ UNCHANGED <<earlier, happened>>

Lookup(i) ==
    /\ At(i, "lookup")
    /\ call' = IF slot = None THEN [call EXCEPT ![i].pc = "insert"]
               ELSE [call EXCEPT ![i].pc = "send", ![i].holder = slot]
    /\ UNCHANGED <<cycle, process, now, earlier, happened>>

Message(i) == [call |-> i, attempt |-> call[i].attempt, sent |-> now]

\* A message to a row that is gone is refused, and the call with it.
Send(i) ==
    LET c == call[i].holder
    IN  /\ At(i, "send")
        /\ IF row[c] = "gone"
           THEN call' = [call EXCEPT ![i].pc = "failed", ![i].holder = None] /\ UNCHANGED inbox
           ELSE /\ inbox' = [inbox EXCEPT ![c] = @ \cup {Message(i)}]
                /\ call' = [call EXCEPT ![i].pc = "ack", ![i].until = Later(now, AckTimeout)]
        /\ UNCHANGED <<slot, row, target, acked, journal, body, process, now, earlier, happened>>

IsAcked(i) == <<i, call[i].attempt>> \in acked[call[i].holder]

\* (mutant) The call does not wait for the acknowledgement.
AckedOrNot(i) ==
    /\ At(i, "ack") /\ To(i, "status")
    /\ UNCHANGED <<cycle, process, now, earlier, happened>>

Acked(i) ==
    /\ At(i, "ack") /\ IsAcked(i) /\ To(i, "status")
    /\ UNCHANGED <<cycle, process, now, earlier, happened>>

\* No acknowledgement in time: from the start, with a new message.
Unanswered(i) ==
    /\ At(i, "ack") /\ ~IsAcked(i) /\ now >= call[i].until
    /\ IF slot = call[i].holder THEN Happens("late") ELSE UNCHANGED happened
    /\ call' = [call EXCEPT ![i].pc = "insert", ![i].attempt = @ + 1, ![i].holder = None, ![i].until = None]
    /\ UNCHANGED <<cycle, process, now, earlier>>

\* The handle is on the target of the holder, or, when its row cannot be read, on
\* one that nobody enqueues.
Resolve(i) ==
    /\ At(i, "status")
    /\ Return(i, IF row[call[i].holder] = "gone" THEN None ELSE call[i].holder)
    /\ UNCHANGED <<cycle, process, now, earlier, happened>>

\* A statement of a call fails, and the call with it.
CallFails(i) ==
    /\ call[i].pc \in {"insert", "lookup", "send", "ack", "status"} /\ Happens("error")
    /\ call' = [call EXCEPT ![i].pc = "failed", ![i].holder = None, ![i].until = None]
    /\ UNCHANGED <<cycle, process, now, earlier>>

------------------------------------------------------------------------------
(* internal_debouncer_body.  A body looks at its status where it checks a  *)
(* step, recorded or not, and only there.                                  *)

In(c, stage) == body[c].pc = "next" /\ journal[c].stage = stage
Move(c, pc) == body' = [body EXCEPT ![c].pc = pc]
Holds(c, pc, m) == body' = [body EXCEPT ![c] = [pc |-> pc, msg |-> m, input |-> None]]
Cancelled(c) == row[c] = "CANCELLED"
Refused(c) == row[c] \in {"CANCELLED", "gone"}
Others == UNCHANGED <<process, call, now, earlier>>

\* A recv fails: the loop ends with input i.
Break(c, i) == body' = [body EXCEPT ![c] = [pc |-> "fire", msg |-> None, input |-> i]]

\* When the target is to start: d after t, and not after max.
Capped(t, d, max) == IF Timeout > 0 /\ Later(t, d) > max THEN max ELSE Later(t, d)

StartTime(c) ==
    LET max == Later(now, Timeout)
    IN  /\ In(c, "start") /\ ~Refused(c)
        /\ journal' = [journal EXCEPT ![c].stage = "loop", ![c].max = max,
                                      ![c].at = Capped(now, Delay[c], max)]
        /\ UNCHANGED <<slot, row, target, inbox, acked, body, happened>> /\ Others

\* (mutant) The deadline of the last recv is still there.
LoopTimeKeepsDeadline(c) ==
    /\ In(c, "loop") /\ ~Refused(c)
    /\ journal' = [journal EXCEPT ![c].stage = IF journal[c].at <= now THEN "fire" ELSE "recv", ![c].now = now]
    /\ UNCHANGED <<slot, row, target, inbox, acked, body, happened>> /\ Others

LoopTime(c) ==
    /\ In(c, "loop") /\ ~Refused(c)
    /\ journal' = [journal EXCEPT ![c].stage = IF journal[c].at <= now THEN "fire" ELSE "recv",
                                  ![c].now = now, ![c].deadline = None]
    /\ UNCHANGED <<slot, row, target, inbox, acked, body, happened>> /\ Others

\* recv: its deadline is recorded once.
Deadline(c) ==
    /\ In(c, "recv") /\ ~Refused(c)
    /\ journal' = [journal EXCEPT ![c].deadline =
                      IF @ = None THEN Later(now, journal[c].at - journal[c].now) ELSE @]
    /\ Move(c, "wait")
    /\ UNCHANGED <<slot, row, target, inbox, acked, happened>> /\ Others

Wait(c) ==
    /\ body[c].pc = "wait"
    /\ inbox[c] # {} \/ now >= journal[c].deadline \/ process = "draining"
    /\ Move(c, "consume")
    /\ UNCHANGED <<slot, row, target, inbox, acked, journal, happened>> /\ Others

Oldest(c) == {m \in inbox[c] : \A n \in inbox[c] : m.sent <= n.sent}

\* The oldest message is taken; if there is none, the timeout is recorded.
Consume(c) ==
    /\ body[c].pc = "consume" /\ row[c] # "gone"
    /\ IF inbox[c] = {}
       THEN /\ journal' = [journal EXCEPT ![c].stage = "fire", ![c].had = @ \cup {journal[c].input}]
            /\ Move(c, "next") /\ UNCHANGED inbox
       ELSE \E m \in Oldest(c) :
            /\ inbox' = [inbox EXCEPT ![c] = @ \ {m}]
            /\ Holds(c, "record", m)
            /\ UNCHANGED journal
    /\ UNCHANGED <<slot, row, target, acked, happened>> /\ Others

\* The input of a message replaces the pending one.  Its delay counts from the
\* time that was read before the recv.
Updated(j, m) == [j EXCEPT !.stage = "ack", !.msg = m, !.input = m.call, !.had = @ \cup {j.input},
                           !.at = Capped(j.now, Delay[m.call], j.max)]

RecordRecv(c) ==
    /\ body[c].pc = "record" /\ row[c] # "gone"
    /\ journal' = [journal EXCEPT ![c] = Updated(@, body[c].msg)]
    /\ Holds(c, "next", None)
    /\ UNCHANGED <<slot, row, target, inbox, acked, happened>> /\ Others

Ack(m) == <<m.call, m.attempt>>

SetEvent(c) ==
    /\ In(c, "ack") /\ ~Refused(c)
    /\ acked' = [acked EXCEPT ![c] = @ \cup {Ack(journal[c].msg)}]
    /\ Move(c, "acked")
    /\ UNCHANGED <<slot, row, target, inbox, journal, happened>> /\ Others

RecordEvent(c) ==
    /\ body[c].pc = "acked" /\ Move(c, "next")
    /\ journal' = [journal EXCEPT ![c].stage = "loop"]
    /\ UNCHANGED <<slot, row, target, inbox, acked, happened>> /\ Others

\* The target is enqueued under its id; if its row is there, that is all.  It is
\* no child: no step is checked or recorded.
EnqueueTarget(c) ==
    LET cut == body[c].pc = "fire"
        new == [input |-> IF cut THEN body[c].input ELSE journal[c].input, at |-> now, cut |-> cut]
    IN  /\ In(c, "fire") \/ cut
        /\ target' = [target EXCEPT ![c] = IF @ = None THEN new ELSE @]
        /\ Holds(c, "outcome", None)
        /\ UNCHANGED <<slot, row, inbox, acked, journal, happened>> /\ Others

\* update_workflow_outcome: the slot is free, unless the cancel has freed it.
Outcome(c) ==
    /\ body[c].pc \in {"outcome", "error"} /\ body' = [body EXCEPT ![c] = NoBody]
    /\ row' = [row EXCEPT ![c] = IF Refused(c) THEN @ ELSE IF body[c].pc = "error" THEN "ERROR" ELSE "SUCCESS"]
    /\ slot' = IF slot = c THEN None ELSE slot
    /\ UNCHANGED <<target, inbox, acked, journal, happened>> /\ Others

\* A body that is run again, past the steps that are recorded; it acknowledges what
\* it did not before.
AckMissed(c) ==
    /\ body[c].pc = "replay" /\ ~Refused(c)
    /\ \E m \in journal[c].missed :
          /\ acked' = [acked EXCEPT ![c] = @ \cup {Ack(m)}]
          /\ journal' = [journal EXCEPT ![c].missed = @ \ {m}]
    /\ UNCHANGED <<slot, row, target, inbox, body, happened>> /\ Others

Replayed(c) ==
    /\ body[c].pc = "replay" /\ ~Refused(c) /\ journal[c].missed = {}
    /\ Move(c, "next")
    /\ UNCHANGED <<slot, row, target, inbox, acked, journal, happened>> /\ Others

\* A body whose workflow was cancelled, or collected then: a recv that finds out
\* breaks the loop, the step for a time ends the body, and after a failing
\* acknowledgement comes one.  In a replay it may be any recv that finds out.
NoticeCancel(c) ==
    /\ Refused(c)
    /\ \/ In(c, "recv") /\ Break(c, journal[c].input)
       \/ row[c] = "gone" /\ body[c].pc \in {"consume", "record"} /\ Break(c, journal[c].input)
       \/ body[c].pc = "replay" /\ \E i \in journal[c].had : Break(c, i)
       \/ /\ In(c, "start") \/ In(c, "loop") \/ In(c, "ack") \/ body[c].pc = "replay"
          /\ Holds(c, "error", None)
    /\ UNCHANGED <<slot, row, target, inbox, acked, journal, happened>> /\ Others

\* A statement fails for good.  Within recv it breaks the loop; in a step for a
\* time, or with the target, it ends the body.
LoopFails(c) ==
    /\ Happens("error")
    /\ \/ /\ In(c, "recv") \/ body[c].pc \in {"wait", "consume", "record"}
          /\ Break(c, journal[c].input)
       \/ body[c].pc = "replay" /\ \E i \in journal[c].had : Break(c, i)
       \/ /\ In(c, "start") \/ In(c, "loop") \/ In(c, "fire") \/ body[c].pc \in {"fire", "replay"}
          /\ Holds(c, "error", None)
    /\ UNCHANGED <<slot, row, target, inbox, acked, journal>> /\ Others

\* An acknowledgement that fails is logged, and the loop goes on; so it does in a
\* replay.  (If the event was set and its record fails, it is set again, to no effect.)
AckFails(c) ==
    /\ Happens("unacked")
    /\ \/ /\ In(c, "ack") /\ UNCHANGED body
          /\ journal' = [journal EXCEPT ![c].stage = "loop", ![c].missed = @ \cup {journal[c].msg}]
       \/ /\ body[c].pc = "replay" /\ ~Refused(c) /\ journal[c].missed # {}
          /\ Move(c, "next") /\ UNCHANGED journal
    /\ UNCHANGED <<slot, row, target, inbox, acked>> /\ Others

\* The result of update_workflow_outcome is dropped: the row stays PENDING, and keeps
\* the slot, without a body.
OutcomeFails(c) ==
    /\ Happens("error")
    /\ body[c].pc \in {"outcome", "error"} /\ body' = [body EXCEPT ![c] = NoBody]
    /\ UNCHANGED <<slot, row, target, inbox, acked, journal>> /\ Others

StatementFails(c) == LoopFails(c) \/ AckFails(c) \/ OutcomeFails(c)

------------------------------------------------------------------------------
(* The internal queue and its process, and management.                     *)

\* The runner claims the row, and starts the body; of one that has recorded steps,
\* these are replayed first.
Dequeue(c) ==
    /\ process = "up" /\ row[c] = "ENQUEUED"
    /\ row' = [row EXCEPT ![c] = "PENDING"]
    /\ Move(c, IF journal[c].stage = "start" THEN "next" ELSE "replay")
    /\ UNCHANGED <<slot, target, inbox, acked, journal, process, call, now, earlier, happened>>

\* The dispatch of a claimed row fails: it stays PENDING, without a body.
DispatchFails(c) ==
    /\ process = "up" /\ row[c] = "ENQUEUED" /\ Happens("error")
    /\ row' = [row EXCEPT ![c] = "PENDING"]
    /\ UNCHANGED <<slot, target, inbox, acked, journal, body, process, call, now, earlier>>

\* shutdown cancels the token and waits a while for the bodies.
Shutdown ==
    /\ process = "up" /\ Happens("shutdown")
    /\ process' = "draining"
    /\ UNCHANGED <<cycle, call, now, earlier>>

Stopped ==
    /\ process' = "down" /\ body' = [c \in Call |-> NoBody]
    /\ UNCHANGED <<slot, row, target, inbox, acked, journal, call, now, earlier>>

Exit == process = "draining" /\ Stopped /\ UNCHANGED happened
Crash == process # "down" /\ Happens("crash") /\ Stopped

\* (mutant) The recovery pass leaves alone what was on a queue.
LaunchOnly ==
    /\ process = "down" /\ process' = "up"
    /\ UNCHANGED <<cycle, call, now, earlier, happened>>

\* The recovery pass puts what was running back on the queue.
Launch ==
    /\ process = "down" /\ process' = "up"
    /\ row' = [c \in Call |-> IF row[c] = "PENDING" THEN "ENQUEUED" ELSE row[c]]
    /\ UNCHANGED <<slot, target, inbox, acked, journal, body, call, now, earlier, happened>>

\* (mutant) The deduplication id stays.
CancelKeepsSlot(c) ==
    /\ row[c] \in {"ENQUEUED", "PENDING"} /\ Happens("cancel")
    /\ row' = [row EXCEPT ![c] = "CANCELLED"]
    /\ UNCHANGED <<slot, target, inbox, acked, journal, body, process, call, now, earlier>>

\* cancel_workflow clears the deduplication id.
Cancel(c) ==
    /\ row[c] \in {"ENQUEUED", "PENDING"} /\ Happens("cancel")
    /\ row' = [row EXCEPT ![c] = "CANCELLED"]
    /\ slot' = IF slot = c THEN None ELSE slot
    /\ UNCHANGED <<target, inbox, acked, journal, body, process, call, now, earlier>>

\* Garbage collection takes the row, and messages and events with it; that of a
\* cancelled workflow may still have a body.
Collect(c) ==
    /\ row[c] \in {"SUCCESS", "ERROR", "CANCELLED"} /\ Happens("collect")
    /\ row' = [row EXCEPT ![c] = "gone"]
    /\ inbox' = [inbox EXCEPT ![c] = {}] /\ acked' = [acked EXCEPT ![c] = {}]
    /\ UNCHANGED <<slot, target, journal, body, process, call, now, earlier>>

------------------------------------------------------------------------------
CallStep(i) == Insert(i) \/ Lookup(i) \/ Send(i) \/ Acked(i) \/ Unanswered(i) \/ Resolve(i)
BodyStep(c) ==
    \/ StartTime(c) \/ LoopTime(c) \/ Deadline(c) \/ Wait(c) \/ Consume(c) \/ RecordRecv(c)
    \/ SetEvent(c) \/ RecordEvent(c) \/ EnqueueTarget(c) \/ Outcome(c) \/ AckMissed(c) \/ Replayed(c)
    \/ NoticeCancel(c)
Errors(c) == CallFails(c) \/ StatementFails(c) \/ DispatchFails(c)
Environment == Shutdown \/ Crash \/ \E c \in Call : Begin(c) \/ Errors(c) \/ Cancel(c) \/ Collect(c)

Next ==
    \/ Tick \/ Exit \/ Launch \/ Environment
    \/ \E c \in Call : CallStep(c) \/ BodyStep(c) \/ Dequeue(c)

Spec == Init /\ [][Next]_vars

\* Time passes, the runtime runs every call and every body, the internal queue
\* is polled, and a process that stops is started again.
Fairness ==
    /\ WF_vars(Tick) /\ WF_vars(Exit) /\ WF_vars(Launch)
    /\ \A c \in Call : WF_vars(CallStep(c)) /\ WF_vars(BodyStep(c) \/ Dequeue(c))

FairSpec == Spec /\ Fairness

------------------------------------------------------------------------------
(* Properties.                                                             *)

Messages == [call : Call, attempt : Nat, sent : Time]
OrNone(S) == S \cup {None}

\* Types; and the slot belongs to the row that is in progress, a body to a row
\* that was dequeued.
TypeOK ==
    /\ slot \in OrNone(Call)
    /\ row \in [Call -> {"ABSENT", "ENQUEUED", "PENDING", "SUCCESS", "ERROR", "CANCELLED", "gone"}]
    /\ target \in [Call -> OrNone([input : Call, at : Time, cut : BOOLEAN])]
    /\ \A c \in Call : inbox[c] \subseteq Messages /\ acked[c] \subseteq Call \X Nat
    /\ journal \in [Call -> [stage : {"start", "loop", "recv", "ack", "fire"}, max : Time, at : OrNone(Time),
                             now : OrNone(Time), deadline : OrNone(Time), input : Call, msg : OrNone(Messages),
                             had : SUBSET Call, missed : SUBSET Messages]]
    /\ body \in [Call -> [pc : {"none", "next", "wait", "consume", "record", "acked", "fire", "outcome",
                                 "error", "replay"},
                          msg : OrNone(Messages), input : OrNone(Call)]]
    /\ process \in {"up", "draining", "down"}
    /\ call \in [Call -> [pc : {"idle", "insert", "lookup", "send", "ack", "status", "returned", "failed"},
                          holder : OrNone(Call), attempt : Nat, until : OrNone(Time), handle : OrNone(Call)]]
    /\ now \in Time /\ earlier \in [Call -> SUBSET Call]
    /\ \A c \in Call : row[c] \in {"ENQUEUED", "PENDING"} <=> slot = c
    /\ \A c \in Call : body[c].pc # "none" => row[c] \in {"PENDING", "CANCELLED", "gone"}

Fired(c) == target[c] # None

\* debouncer.rs:6-8, "enqueued exactly once with the most recent input": the
\* target that the handle of a call is on does not run with the input of a call
\* that had returned before this one began, although messages are lost in crashes,
\* acknowledged late, and sent to holders that are about to fire.  One exception: a
\* recv that fails, or is refused, fires without a record; with a restart, the body
\* that is run again can acknowledge a message for a target that was enqueued before,
\* or fire with the input it had at an earlier recv.
LatestInputWins ==
    \A i \in Call : LET c == call[i].handle IN
        At(i, "returned") /\ c # None /\ Fired(c) =>
            \/ target[c].cut /\ happened["crash"] + happened["shutdown"] > 0
            \/ target[c].input \notin earlier[i]

\* A call that was never left waiting counts once: no target but the one its
\* handle is on gets its input.  (A call that stopped waiting sends its input
\* again, and two targets may run with it.)  And a target is enqueued not before
\* its time comes, through crashes and replays; but a shutdown, a cancel or a
\* failing statement ends the waiting.
FiresOnceInTime ==
    \A c \in Call : Fired(c) =>
        /\ LET i == target[c].input
           IN  call[i].attempt = 1 /\ call[i].pc \notin {"ack", "status"} => call[i].handle \in {c, None}
        /\ \/ happened["shutdown"] + happened["cancel"] + happened["error"] > 0
           \/ target[c].at >= journal[c].at

\* Since an error, the holder of the slot has no body and stays PENDING: its outcome
\* was not written, or its dispatch failed, and no process was restarted since.
Stranded == happened["error"] > 0 /\ \E c \in Call : slot = c /\ row[c] = "PENDING" /\ body[c] = NoBody

\* Every call returns, but while a stranded workflow holds the slot: then a call
\* sends, gets no acknowledgement and begins again, until a restart or a cancel; and
\* the call may fail with a statement of its own, or when its holder is collected.
\* The target of its handle is enqueued, unless the internal workflow is cancelled or
\* meets an error, or its row was collected between the acknowledgement and the look
\* at it.
Completes ==
    <>[](\A i \in Call :
            /\ \/ call[i].pc \in {"idle", "returned"} \/ Stranded
               \/ call[i].pc = "failed" /\ happened["collect"] + happened["error"] > 0
            /\ At(i, "returned") =>
                  \/ happened["cancel"] + happened["error"] > 0
                  \/ IF call[i].handle = None THEN happened["collect"] > 0 ELSE Fired(call[i].handle))

\* debouncer.rs:6-7: "After the input "settles" (no new call within `delay`, or the
\* timeout cap is reached), the target workflow is enqueued".
SettlesFirst ==
    \A c \in Call : Fired(c) /\ journal[c].msg # None =>
        LET m == journal[c].msg
        IN  \/ target[c].at >= Later(m.sent, Delay[m.call])
            \/ Timeout > 0 /\ target[c].at >= journal[c].max
=============================================================================
