---------------------------- MODULE Communication ----------------------------
(***************************************************************************)
(* Durable communication: send / recv, set_event / get_event, streams and  *)
(* durable sleep.  A workflow is a fixed sequence of such operations; each *)
(* of them checks the step journal, acts on its table, and records the     *)
(* step, in that order and in separate database calls.  Bodies crash and   *)
(* are run again from the start, and two bodies of one workflow may run at *)
(* the same time in two processes (WorkflowExecution shows how).           *)
(*                                                                         *)
(* All messages have one topic, all events and streams one key: others are *)
(* independent of them.  A body takes a recv that timed out for an answer  *)
(* and goes on; any other error ends it.                                   *)
(***************************************************************************)
EXTENDS Integers, Sequences, FiniteSets

CONSTANTS Workflow,      \* workflow ids
          Programs,      \* applications: the operations of each workflow, in order
          Longest,       \* the most operations of a workflow
          Time,          \* times on the clocks of the senders
          Run,           \* slots for the bodies in progress, each in its own process
          None,          \* no workflow
          Bounds         \* what may happen in one behaviour, and how often: crashes of a
                         \* process that runs a body, bodies begun while another one of
                         \* the workflow runs, processes that shut down while they run a
                         \* body, cancel_workflow calls, sends from outside any workflow

Happenings == {"crash", "rival", "shutdown", "cancel", "send"}

Operation ==
    [op : {"send", "recv", "setEvent", "getEvent", "writeStream", "closeStream", "sleep"},
     with : Workflow \cup {None}]

ASSUME CommunicationAssumption ==
    /\ None \notin Workflow
    /\ Programs \subseteq [Workflow -> Seq(Operation) \ {<< >>}]
    /\ \A p \in Programs : \A w \in Workflow : \A i \in DOMAIN p[w] :
          p[w][i].op \in {"send", "getEvent"} => p[w][i].with \in Workflow
    /\ Longest \in Nat \ {0} /\ \A p \in Programs : \A w \in Workflow : Len(p[w]) <= Longest
    /\ Time \subseteq Nat
    /\ Bounds \subseteq [Happenings -> Nat]

Place == 1..Longest    \* of an operation in its workflow

VARIABLES program,   \* the application
          status,    \* workflow_status
          journal,   \* operation_outputs of the operations
          deadline,  \* operation_outputs of the deadlines, and whether they are past
          inbox,     \* notifications, by destination, as they were inserted
          event,     \* workflow_events: the operation whose value is set
          stream,    \* streams, by offset: the operation that wrote the entry
          body,      \* the bodies in progress
          stopping,  \* the processes whose shutdown token is cancelled
          happened   \* how often each of Happenings has happened

vars == <<program, status, journal, deadline, inbox, event, stream, body, stopping, happened>>

\* What an operation ends with.  A message is named by its place in the inbox.
Result == [kind : {"none", "ok", "timeout", "noDestination"}, id : {0}]
          \cup [kind : {"message"}, id : Nat \ {0}] \cup [kind : {"event"}, id : Nat]
Plain(kind) == [kind |-> kind, id |-> 0]
Missing == Plain("none")

Free == [pc |-> "free", wf |-> None, pos |-> 1, val |-> Missing]

Init ==
    /\ program \in Programs
    /\ status = [w \in Workflow |-> "ABSENT"]
    /\ journal = [w \in Workflow |-> [i \in Place |-> Missing]]
    /\ deadline = [w \in Workflow |-> [i \in Place |-> "none"]]
    /\ inbox = [w \in Workflow |-> << >>]
    /\ event = [w \in Workflow |-> 0]
    /\ stream = [w \in Workflow |-> << >>]
    /\ body = [r \in Run |-> Free]
    /\ stopping = {}
    /\ happened = [h \in Happenings |-> 0]

tables == <<inbox, event, stream>>

\* One more of these, if one of the bounds allows it.
Happens(h) ==
    /\ happened' = [happened EXCEPT ![h] = @ + 1]
    /\ \E b \in Bounds : \A k \in Happenings : happened'[k] <= b[k]

------------------------------------------------------------------------------
(* The body.                                                               *)

At(r) == program[body[r].wf][body[r].pos]

\* Where an operation begins; a sleep has no record but its deadline.
Entry(o) == IF o.op = "sleep" THEN "deadline" ELSE "check"

\* Where it goes on when its step is not recorded.
Act(o) == CASE o.op \in {"send", "setEvent"} -> "act"
            [] o.op \in {"recv", "getEvent"} -> "deadline"
            [] o.op \in {"writeStream", "closeStream"} -> "probe"

\* A body that has the result of its operation: on to the next one, or to the end.
Advance(x, v) ==
    IF v.kind = "noDestination" THEN [x EXCEPT !.pc = "failed", !.val = Missing]
    ELSE IF x.pos = Len(program[x.wf]) THEN [x EXCEPT !.pc = "finished", !.val = Missing]
    ELSE [x EXCEPT !.pc = Entry(program[x.wf][x.pos + 1]), !.pos = @ + 1, !.val = Missing]

Goto(r, pc) == body' = [body EXCEPT ![r].pc = pc]

\* (mutant) The record is not looked up.
CheckForgets(r) ==
    /\ body[r].pc = "check"
    /\ Goto(r, IF status[body[r].wf] = "CANCELLED" THEN "failed" ELSE Act(At(r)))
    /\ UNCHANGED <<program, status, journal, deadline, tables, stopping, happened>>

\* check_operation_execution: cancelled, recorded (replay), or not yet.
Check(r) ==
    LET w == body[r].wf
        v == journal[w][body[r].pos]
    IN  /\ body[r].pc = "check"
        /\ IF status[w] = "CANCELLED" THEN Goto(r, "failed")
           ELSE IF v # Missing THEN body' = [body EXCEPT ![r] = Advance(@, v)]
           ELSE Goto(r, Act(At(r)))
        /\ UNCHANGED <<program, status, journal, deadline, tables, stopping, happened>>

\* (mutant) A conflict goes unnoticed.
RecordOverwrites(r) ==
    LET w == body[r].wf
    IN  /\ body[r].pc = "record"
        /\ journal' = [journal EXCEPT ![w][body[r].pos] = body[r].val]
        /\ body' = [body EXCEPT ![r] = Advance(@, @.val)]
        /\ UNCHANGED <<program, status, deadline, tables, stopping, happened>>

\* The step is recorded; where another body has recorded it, this one gives up
\* and waits for the outcome.
Record(r) ==
    LET w == body[r].wf
        i == body[r].pos
    IN  /\ body[r].pc = "record"
        /\ IF journal[w][i] = Missing
           THEN /\ journal' = [journal EXCEPT ![w][i] = body[r].val]
                /\ body' = [body EXCEPT ![r] = Advance(@, @.val)]
           ELSE /\ Goto(r, "await")
                /\ UNCHANGED journal
        /\ UNCHANGED <<program, status, deadline, tables, stopping, happened>>

------------------------------------------------------------------------------
(* Waiting: the durable deadline.                                          *)

\* The deadline of a recv, get_event or sleep is looked up,
CheckDeadline(r) ==
    LET w == body[r].wf
    IN  /\ body[r].pc = "deadline"
        /\ Goto(r, IF status[w] = "CANCELLED" THEN "failed"
                   ELSE IF deadline[w][body[r].pos] = "none" THEN "setDeadline" ELSE "wait")
        /\ UNCHANGED <<program, status, journal, deadline, tables, stopping, happened>>

\* (mutant) A body that waits again waits for a new deadline.
RecordDeadlineAgain(r) ==
    /\ body[r].pc = "setDeadline"
    /\ deadline' = [deadline EXCEPT ![body[r].wf][body[r].pos] = "running"]
    /\ Goto(r, "wait")
    /\ UNCHANGED <<program, status, journal, tables, stopping, happened>>

\* and recorded; after a conflict the body reads the one that is recorded.
RecordDeadline(r) ==
    LET w == body[r].wf
        i == body[r].pos
    IN  /\ body[r].pc = "setDeadline"
        /\ IF deadline[w][i] = "none"
           THEN /\ deadline' = [deadline EXCEPT ![w][i] = "running"]
                /\ Goto(r, "wait")
           ELSE /\ Goto(r, "deadline")
                /\ UNCHANGED deadline
        /\ UNCHANGED <<program, status, journal, tables, stopping, happened>>

\* Time passes.
Pass(w, i) ==
    /\ i \in DOMAIN program[w] /\ deadline[w][i] = "running"
    /\ deadline' = [deadline EXCEPT ![w][i] = "past"]
    /\ UNCHANGED <<program, status, journal, tables, body, stopping, happened>>

Unconsumed(w) == {n \in DOMAIN inbox[w] : ~inbox[w][n].consumed}
Oldest(w) == {n \in Unconsumed(w) : \A m \in Unconsumed(w) : inbox[w][n].at <= inbox[w][m].at}

Ready(w, o) ==
    \/ o.op = "recv" /\ Unconsumed(w) # {}
    \/ o.op = "getEvent" /\ event[o.with] # 0

\* (mutant) The deadline is forgotten.
WaitForever(r) ==
    /\ body[r].pc = "wait"
    /\ Ready(body[r].wf, At(r)) \/ r \in stopping
    /\ Goto(r, "take")
    /\ UNCHANGED <<program, status, journal, deadline, tables, stopping, happened>>

\* wait_until: the poll finds something, or the deadline is past, or the
\* process shuts down; none of them is told from the others.  (Only the shutdown
\* and the deadline end a sleep, which is then over without a record.)
Wait(r) ==
    LET w == body[r].wf
    IN  /\ body[r].pc = "wait"
        /\ \/ Ready(w, At(r))
           \/ deadline[w][body[r].pos] = "past"
           \/ r \in stopping
        /\ IF At(r).op = "sleep" THEN body' = [body EXCEPT ![r] = Advance(@, Plain("ok"))]
                                 ELSE Goto(r, "take")
        /\ UNCHANGED <<program, status, journal, deadline, tables, stopping, happened>>

------------------------------------------------------------------------------
(* Notifications.                                                          *)

\* Messages are in the order of their commits; created_at_epoch_ms is the clock
\* of the sender, which may be behind the clock of an earlier one.
Deliver(w, from, i) ==
    \E t \in Time :
        inbox' = [inbox EXCEPT ![w] = Append(@, [from |-> from, pos |-> i, at |-> t, consumed |-> FALSE])]

\* send_notification: the foreign key rejects a destination that has no row.
Send(r) ==
    LET dest == At(r).with
    IN  /\ body[r].pc = "act" /\ At(r).op = "send"
        /\ IF status[dest] = "ABSENT"
           THEN /\ body' = [body EXCEPT ![r].pc = "record", ![r].val = Plain("noDestination")]
                /\ UNCHANGED inbox
           ELSE /\ body' = [body EXCEPT ![r].pc = "record", ![r].val = Plain("ok")]
                /\ Deliver(dest, body[r].wf, body[r].pos)
        /\ UNCHANGED <<program, status, journal, deadline, event, stream, stopping, happened>>

\* send from outside a workflow, to one that listens: the insert alone.
SendFromOutside(w) ==
    /\ \E i \in DOMAIN program[w] : program[w][i].op = "recv"
    /\ status[w] # "ABSENT"
    /\ Deliver(w, None, 0)
    /\ Happens("send")
    /\ UNCHANGED <<program, status, journal, deadline, event, stream, body, stopping>>

\* (mutant) A timeout records nothing.
SelectUnrecorded(r) ==
    LET w == body[r].wf
    IN  /\ body[r].pc = "take" /\ At(r).op = "recv"
        /\ IF Unconsumed(w) = {}
           THEN Goto(r, "record")
           ELSE \E n \in Oldest(w) :
                   body' = [body EXCEPT ![r].pc = "consume", ![r].val = [kind |-> "message", id |-> n]]
        /\ UNCHANGED <<program, status, journal, deadline, tables, stopping, happened>>

\* (mutant) Any message, not the oldest.
SelectAny(r) ==
    LET w == body[r].wf
    IN  /\ body[r].pc = "take" /\ At(r).op = "recv"
        /\ IF Unconsumed(w) = {}
           THEN body' = [body EXCEPT ![r].pc = "record", ![r].val = Plain("timeout")]
           ELSE \E n \in Unconsumed(w) :
                   body' = [body EXCEPT ![r].pc = "consume", ![r].val = [kind |-> "message", id |-> n]]
        /\ UNCHANGED <<program, status, journal, deadline, tables, stopping, happened>>

\* consume_oldest_notification: the SELECT of the oldest message,
Select(r) ==
    LET w == body[r].wf
    IN  /\ body[r].pc = "take" /\ At(r).op = "recv"
        /\ IF Unconsumed(w) = {}
           THEN body' = [body EXCEPT ![r].pc = "record", ![r].val = Plain("timeout")]
           ELSE \E n \in Oldest(w) :
                   body' = [body EXCEPT ![r].pc = "consume", ![r].val = [kind |-> "message", id |-> n]]
        /\ UNCHANGED <<program, status, journal, deadline, tables, stopping, happened>>

\* and the UPDATE by its id, which does not look at consumed again: on Postgres
\* two transactions may both select the message and both get it.  (On SQLite
\* the write lock makes the two statements one.)
Consume(r) ==
    /\ body[r].pc = "consume"
    /\ inbox' = [inbox EXCEPT ![body[r].wf][body[r].val.id].consumed = TRUE]
    /\ Goto(r, "record")
    /\ UNCHANGED <<program, status, journal, deadline, event, stream, stopping, happened>>

------------------------------------------------------------------------------
(* Events.                                                                 *)

\* set_event: an upsert.
SetEvent(r) ==
    /\ body[r].pc = "act" /\ At(r).op = "setEvent"
    /\ event' = [event EXCEPT ![body[r].wf] = body[r].pos]
    /\ body' = [body EXCEPT ![r].pc = "record", ![r].val = Plain("ok")]
    /\ UNCHANGED <<program, status, journal, deadline, inbox, stream, stopping, happened>>

\* get_event, after the wait: the event, or nothing.
GetEvent(r) ==
    /\ body[r].pc = "take" /\ At(r).op = "getEvent"
    /\ body' = [body EXCEPT ![r].pc = "record",
                            ![r].val = [kind |-> "event", id |-> event[At(r).with]]]
    /\ UNCHANGED <<program, status, journal, deadline, tables, stopping, happened>>

------------------------------------------------------------------------------
(* Streams.                                                                *)

IsClose(w, i) == program[w][i].op = "closeStream"
Closed(w, s) == \E n \in DOMAIN s : IsClose(w, s[n])

\* write_stream: is the stream closed?
Probe(r) ==
    /\ body[r].pc = "probe"
    /\ Goto(r, IF Closed(body[r].wf, stream[body[r].wf]) THEN "failed" ELSE "append")
    /\ UNCHANGED <<program, status, journal, deadline, tables, stopping, happened>>

Appended(r) ==
    stream' = [stream EXCEPT ![body[r].wf] = Append(@, body[r].pos)]

\* The insert at the next offset.  On Postgres another body that computes the
\* same offset meanwhile fails at the primary key.
AppendEntry(r) ==
    LET rivals == {s \in Run \ {r} : body[s].pc = "append" /\ body[s].wf = body[r].wf}
    IN  /\ body[r].pc = "append"
        /\ Appended(r)
        /\ \E collide \in SUBSET rivals :
              body' = [s \in Run |-> IF s = r THEN [body[r] EXCEPT !.pc = "record", !.val = Plain("ok")]
                                     ELSE IF s \in collide THEN [body[s] EXCEPT !.pc = "failed"]
                                     ELSE body[s]]
        /\ UNCHANGED <<program, status, journal, deadline, inbox, event, stopping, happened>>

\* (mutant) The sentinel is skipped, not taken for the end.
ReadableBeyond(w, s) == SelectSeq(s, LAMBDA i : ~IsClose(w, i))

\* What read_stream returns: the entries in front of the sentinel, and whether
\* there is one.
Readable(w, s) ==
    LET open == {n \in DOMAIN s : \A m \in 1..n : ~IsClose(w, s[m])}
    IN  SubSeq(s, 1, Cardinality(open))

------------------------------------------------------------------------------
(* Beginning and end of a body.                                            *)

InProgress(w) == {r \in Run : body[r].wf = w}

\* The first body of a workflow, one that recovers it, or a rival.
Begin(r, w) ==
    /\ body[r].pc = "free"
    /\ status[w] \in {"ABSENT", "PENDING"}
    /\ status' = [status EXCEPT ![w] = "PENDING"]
    /\ body' = [body EXCEPT ![r] = [pc |-> Entry(program[w][1]), wf |-> w, pos |-> 1, val |-> Missing]]
    /\ IF InProgress(w) = {} THEN UNCHANGED happened
       ELSE Happens("rival")
    /\ UNCHANGED <<program, journal, deadline, tables, stopping>>

\* update_workflow_outcome; a CANCELLED row stays as it is.  A process that is
\* shutting down has nothing more to wait for.
Finish(r) ==
    LET w == body[r].wf
    IN  /\ body[r].pc \in {"finished", "failed"}
        /\ status' = [status EXCEPT ![w] =
                        IF @ = "CANCELLED" THEN @
                        ELSE IF body[r].pc = "finished" THEN "SUCCESS" ELSE "ERROR"]
        /\ body' = [body EXCEPT ![r] = Free]
        /\ stopping' = stopping \ {r}
        /\ UNCHANGED <<program, journal, deadline, tables, happened>>

\* await_workflow_result, after a conflict.
AwaitOutcome(r) ==
    /\ body[r].pc = "await"
    /\ status[body[r].wf] # "PENDING"
    /\ body' = [body EXCEPT ![r] = Free]
    /\ stopping' = stopping \ {r}
    /\ UNCHANGED <<program, status, journal, deadline, tables, happened>>

\* The process of a body dies, or the time that shutdown gives its bodies is up
\* and the database is closed under them; the slot is a new process then.
Crash(r) ==
    /\ body[r].pc # "free"
    /\ body' = [body EXCEPT ![r] = Free]
    /\ stopping' = stopping \ {r}
    /\ Happens("crash")
    /\ UNCHANGED <<program, status, journal, deadline, tables>>

\* shutdown: the token is cancelled, and bodies may still go on for a while.
Shutdown(r) ==
    /\ body[r].pc # "free" /\ r \notin stopping
    /\ stopping' = stopping \cup {r}
    /\ Happens("shutdown")
    /\ UNCHANGED <<program, status, journal, deadline, tables, body>>

Cancel(w) ==
    /\ status[w] = "PENDING"
    /\ status' = [status EXCEPT ![w] = "CANCELLED"]
    /\ Happens("cancel")
    /\ UNCHANGED <<program, journal, deadline, tables, body, stopping>>

------------------------------------------------------------------------------
BodyStep(r) ==
    \/ Check(r) \/ Record(r)
    \/ CheckDeadline(r) \/ RecordDeadline(r) \/ Wait(r)
    \/ Send(r) \/ Select(r) \/ Consume(r)
    \/ SetEvent(r) \/ GetEvent(r) \/ Probe(r) \/ AppendEntry(r)
    \/ Finish(r) \/ AwaitOutcome(r)

Next ==
    \/ \E r \in Run : BodyStep(r) \/ Crash(r) \/ Shutdown(r)
    \/ \E r \in Run, w \in Workflow : Begin(r, w)
    \/ \E w \in Workflow : Cancel(w) \/ SendFromOutside(w) \/ \E i \in Place : Pass(w, i)

Spec == Init /\ [][Next]_vars

\* Recovery runs a PENDING workflow again that has no body any more.
Recover(w) ==
    /\ status[w] = "PENDING" /\ InProgress(w) = {}
    /\ \E r \in Run : Begin(r, w)

Fairness ==
    /\ \A r \in Run : WF_vars(BodyStep(r))
    /\ \A w \in Workflow : WF_vars(Recover(w)) /\ \A i \in Place : WF_vars(Pass(w, i))

FairSpec == Spec /\ Fairness

------------------------------------------------------------------------------
(* Properties.                                                             *)

PC == {"free", "check", "act", "deadline", "setDeadline", "wait", "take", "consume", "probe",
       "append", "record", "await", "finished", "failed"}

Body == [pc : PC, wf : Workflow \cup {None}, pos : Place, val : Result]

Note == [from : Workflow \cup {None}, pos : Nat, at : Time, consumed : BOOLEAN]

\* Every variable has its type; a body is at an operation of its workflow, has
\* something to record when it records, and a message of its inbox to consume.
TypeOK ==
    /\ program \in Programs
    /\ status \in [Workflow -> {"ABSENT", "PENDING", "SUCCESS", "ERROR", "CANCELLED"}]
    /\ journal \in [Workflow -> [Place -> Result]]
    /\ deadline \in [Workflow -> [Place -> {"none", "running", "past"}]]
    /\ inbox \in [Workflow -> Seq(Note)]
    /\ event \in [Workflow -> {0} \cup Place]
    /\ stream \in [Workflow -> Seq(Place)]
    /\ body \in [Run -> Body]
    /\ \A r \in Run : body[r].pc # "free" =>
          body[r].wf \in Workflow /\ body[r].pos \in DOMAIN program[body[r].wf]
    /\ \A r \in Run : body[r].pc = "record" => body[r].val # Missing
    /\ \A r \in Run : body[r].pc = "check" => At(r).op # "sleep"
    /\ \A r \in Run : body[r].pc = "consume" =>
          body[r].val.kind = "message" /\ body[r].val.id \in DOMAIN inbox[body[r].wf]
    /\ stopping \subseteq {r \in Run : body[r].pc # "free"}
    /\ happened \in [Happenings -> Nat]

Received(w, i) == journal[w][i].kind = "message"
Message(w, i) == inbox[w][journal[w][i].id]

\* Nobody receives a message twice: whatever bodies crash, run again and race
\* for the inbox, two recvs of a workflow have two messages (comms.rs:55).
ReceivedOnce ==
    \A w \in Workflow : \A i, j \in Place :
        i # j /\ Received(w, i) /\ Received(w, j) => journal[w][i].id # journal[w][j].id

\* FIFO, as far as it goes: a recv leaves no older message behind that was
\* there already and that a later recv gets (comms.rs:54).  One with the same
\* time, or one that comes later with an earlier time, may be overtaken.
ReceivedByAge ==
    \A w \in Workflow : \A i, j \in Place :
        /\ i < j /\ Received(w, i) /\ Received(w, j)
        /\ journal[w][j].id < journal[w][i].id
        => Message(w, i).at <= Message(w, j).at

Never(h) == happened[h] = 0

\* "on replay only the remaining time is slept" (step.rs:115): a recv has timed
\* out, a get_event come back empty and a sleep ended only if the deadline that
\* was recorded first is over, however often the body waited.  Exceptions: a
\* process that shuts down ends its waits, and a recv that saw a message times
\* out at once when a rival takes it (and if it records that first, the
\* message is lost).
NothingEndsEarly ==
    Never("shutdown") =>
        \A w \in Workflow : \A i \in DOMAIN program[w] : deadline[w][i] # "past" =>
            /\ journal[w][i].kind = "timeout" => ~Never("rival")
            /\ journal[w][i] # [kind |-> "event", id |-> 0]
            /\ program[w][i].op = "sleep" =>
                  \A r \in Run : body[r].wf = w => body[r].pos <= i /\ body[r].pc # "finished"

Recorded(w, i) == journal[w][i] # Missing

\* "Memoized as a step so replay does not re-deliver" (comms.rs:44): what is
\* recorded does not act again, after whatever crashes.  (It may while two
\* bodies run: the second one acts before it finds the record.)
Memoized ==
    [][Never("rival") => \A w \in Workflow :
          /\ Len(inbox'[w]) > Len(inbox[w]) =>
                LET m == inbox'[w][Len(inbox'[w])] IN m.from # None => ~Recorded(m.from, m.pos)
          /\ event'[w] # event[w] => ~Recorded(w, event'[w])
          /\ Len(stream'[w]) > Len(stream[w]) => ~Recorded(w, stream'[w][Len(stream'[w])])]_vars

\* Readers never see a value of a stream go or change, nor one behind the end
\* once they have seen the end; rivals may append behind it unseen.
StreamOnlyGrows ==
    [][\A w \in Workflow :
          LET old == Readable(w, stream[w])
              new == Readable(w, stream'[w])
          IN  /\ Len(old) <= Len(new)
              /\ \A n \in DOMAIN old : new[n] = old[n]
              /\ Closed(w, stream[w]) => Len(new) = Len(old)]_vars

\* A workflow that waits for messages and events ends all the same, across
\* crashes and shutdowns.  (A rival that dies can leave the other body waiting
\* for its outcome.)
Finishes == \A w \in Workflow : status[w] = "PENDING" ~> status[w] # "PENDING" \/ ~Never("rival")

==============================================================================
