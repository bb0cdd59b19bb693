---------------------------- MODULE WorkflowTree ----------------------------
(***************************************************************************)
(* Workflows that start workflows: children under ids derived from their   *)
(* parents', timeouts, forks, and the operations that take rows away,      *)
(* delete and garbage collection, while bodies run, wait for each other    *)
(* and are recovered from lists that were read earlier.                    *)
(*                                                                         *)
(* A workflow that has children runs them one after the other and waits    *)
(* for each; one without does its work.  A failing child fails its parent. *)
(* WorkflowExecution looks at the steps of a body and at attempts, and     *)
(* QueueDispatch at queues; here a dequeue claims one workflow.            *)
(***************************************************************************)
EXTENDS Integers, Sequences, FiniteSets, SequencesExt

CONSTANTS Process,
          Id,          \* workflow ids: sequences, a child's is its parent's and its step
          Root, Forked,  \* the workflow that is submitted, and the id of its fork
          Steps,       \* children a workflow may have
          Queued,      \* children that are enqueued
          Hangs,       \* workflows whose work need not end
          Timeout,     \* of the root: RunOptions.timeout, in ticks, or None
          None,
          Horizon,     \* the end of time
          Bounds       \* what may happen in one behaviour, and how often

Happenings == {"crash", "cancel", "resume", "delete", "collect", "fork"}

Step == 1..Steps
Child(w, k) == Append(w, k)
HasChildren(w) == Child(w, 1) \in Id

\* The root and the fork are given ids that no child has.
ASSUME TreeAssumption ==
    /\ IsFiniteSet(Id) /\ Id \subseteq Seq(Nat)
    /\ Root \in Id /\ Forked \in Id /\ Root # Forked
    /\ Steps \in Nat \ {0}
    /\ \A w \in Id, k \in Step : /\ HasChildren(w) => Child(w, k) \in Id
                                 /\ Child(w, k) \notin {Root, Forked}
    /\ Queued \subseteq Id /\ Hangs \subseteq Id
    /\ Timeout \in Nat \cup {None} /\ None \notin Nat \cup Id \cup Process
    /\ Horizon \in Nat
    /\ Bounds \subseteq [Happenings -> Nat]

Settled == {"SUCCESS", "ERROR", "CANCELLED"}

VARIABLES row,       \* workflow_status
          journal,   \* operation_outputs: the child of each step
          body,      \* the bodies of each process
          todo,      \* what a process is going to start or put back: its batch of
                     \* dequeued workflows, its recovery pass
          up,        \* the processes that are launched
          deleter,   \* delete_workflow in progress
          forking,   \* fork_workflow in progress
          now,       \* the clock
          gone,      \* history: the ids whose row was taken away
          happened   \* how often each of Happenings has happened

vars == <<row, journal, body, todo, up, deleter, forking, now, gone, happened>>

Absent == [status |-> "ABSENT", parent |-> None, executor |-> None, queued |-> FALSE,
           timeout |-> None, deadline |-> None, created |-> None, completed |-> None]
Free == [pc |-> "free", step |-> 1, child |-> None, channel |-> FALSE, deadline |-> None]
NoDelete == [pc |-> "idle", visit |-> << >>, found |-> << >>]
NoFork == None

Init ==
    /\ row = [w \in Id |-> Absent]
    /\ journal = [w \in Id |-> [k \in Step |-> None]]
    /\ body = [e \in Process |-> [w \in Id |-> Free]]
    /\ todo = [e \in Process |-> {}]
    /\ up = Process
    /\ deleter = NoDelete
    /\ forking = NoFork
    /\ now = 0
    /\ gone = {}
    /\ happened = [h \in Happenings |-> 0]

\* One more of these, if one of the bounds allows it.
Happens(h) ==
    /\ happened' = [happened EXCEPT ![h] = @ + 1]
    /\ \E b \in Bounds : \A k \in Happenings : happened'[k] <= b[k]

Exists(w) == row[w].status # "ABSENT"
Running(e, w) == body[e][w].pc # "free"

------------------------------------------------------------------------------
(* Rows.                                                                   *)

\* A deadline beyond the end of time comes at the end of time.
DeadlineIn(ticks) == IF now + ticks > Horizon THEN Horizon ELSE now + ticks

\* The row of a workflow that is submitted by e.
NewRow(e, w, parent, timeout) ==
    [status |-> IF w \in Queued THEN "ENQUEUED" ELSE "PENDING", parent |-> parent,
     executor |-> e, queued |-> w \in Queued, timeout |-> timeout,
     deadline |-> IF timeout = None \/ w \in Queued THEN None ELSE DeadlineIn(timeout),
     created |-> now, completed |-> None]

\* The upsert: a row that exists moves to the process that inserts it.
Upserted(e, w, new) ==
    IF ~Exists(w) THEN new
    ELSE IF new.status = "ENQUEUED" THEN row[w]
    ELSE [row[w] EXCEPT !.executor = e]

Ended(r, status) == [r EXCEPT !.status = status, !.completed = now]

\* (mutant) The outcome is written without the time of the end.
OutcomeWithoutEnd(r, status) ==
    IF r.status \in {"ABSENT", "CANCELLED"} THEN r ELSE [r EXCEPT !.status = status]

\* (mutant) The outcome is upserted.
OutcomeUpserted(r, status) == IF r.status = "CANCELLED" THEN r ELSE Ended(r, status)

\* update_workflow_outcome, cancel_workflow, resume_workflow
OutcomeRow(r, status) == IF r.status \in {"ABSENT", "CANCELLED"} THEN r ELSE Ended(r, status)
CancelRow(r) ==
    IF r.status \in Settled \cup {"ABSENT"} THEN r ELSE [Ended(r, "CANCELLED") EXCEPT !.queued = FALSE]
ResumeRow(r) ==
    IF r.status \in {"ABSENT", "SUCCESS", "ERROR"} THEN r
    ELSE [r EXCEPT !.status = "ENQUEUED", !.queued = TRUE, !.deadline = None, !.completed = None]

\* The claim of a dequeue; a workflow with a timeout gets its deadline now.
Claimed(e, r) ==
    [r EXCEPT !.status = "PENDING", !.executor = e,
              !.deadline = IF r.timeout # None /\ r.deadline = None THEN DeadlineIn(r.timeout) ELSE @]

------------------------------------------------------------------------------
(* Starting bodies.                                                        *)

\* (mutant) No watcher.
BegunUnwatched(w, deadline) == [Free EXCEPT !.pc = IF HasChildren(w) THEN "check" ELSE "work"]

\* A new body, with the deadline its watcher sleeps until.
Begun(w, deadline) ==
    [Free EXCEPT !.pc = IF HasChildren(w) THEN "check" ELSE "work", !.deadline = deadline]

\* run_workflow of the application.
Submit(e) ==
    /\ e \in up /\ ~Exists(Root) /\ Root \notin gone
    /\ row' = [row EXCEPT ![Root] = NewRow(e, Root, None, Timeout)]
    /\ body' = [body EXCEPT ![e][Root] = Begun(Root, row'[Root].deadline)]
    /\ UNCHANGED <<journal, todo, up, deleter, forking, now, gone, happened>>

\* dequeue_workflows: the claim commits before the batch is started.
Dequeue(e, w) ==
    /\ e \in up /\ row[w].status = "ENQUEUED"
    /\ row' = [row EXCEPT ![w] = Claimed(e, row[w])]
    /\ todo' = [todo EXCEPT ![e] = @ \cup {<<w, "start">>}]
    /\ UNCHANGED <<journal, body, up, deleter, forking, now, gone, happened>>

\* The insert of a workflow that is run again: without queue, parent, timeout.
Inserts(e, w) ==
    Upserted(e, w, [Absent EXCEPT !.status = "PENDING", !.executor = e, !.created = now])

\* run_workflow_erased for a dequeued or a recovered workflow.  The insert
\* comes first: it puts a row that was taken away meanwhile back.
StartListed(e, w) ==
    /\ <<w, "start">> \in todo[e]
    /\ todo' = [todo EXCEPT ![e] = @ \ {<<w, "start">>}]
    /\ row' = [row EXCEPT ![w] = Inserts(e, w)]
    /\ IF row'[w].status \in {"SUCCESS", "ERROR"} \/ Running(e, w)
       THEN UNCHANGED body
       ELSE body' = [body EXCEPT ![e][w] = Begun(w, row'[w].deadline)]
    /\ UNCHANGED <<journal, up, deleter, forking, now, gone, happened>>

\* clear_queue_assignment
PutBack(e, w) ==
    /\ <<w, "putBack">> \in todo[e]
    /\ todo' = [todo EXCEPT ![e] = @ \ {<<w, "putBack">>}]
    /\ row' = IF row[w].status = "PENDING" /\ row[w].queued
              THEN [row EXCEPT ![w].status = "ENQUEUED"] ELSE row
    /\ UNCHANGED <<journal, body, up, deleter, forking, now, gone, happened>>

------------------------------------------------------------------------------
(* The body.                                                               *)

Goto(e, w, pc) == body' = [body EXCEPT ![e][w].pc = pc]

\* A body that has the result of its child: on to the next step, or to the end.
After(b, ok) ==
    IF ~ok THEN [b EXCEPT !.pc = "error", !.child = None, !.channel = FALSE]
    ELSE IF b.step = Steps THEN [b EXCEPT !.pc = "ok", !.child = None, !.channel = FALSE]
    ELSE [b EXCEPT !.pc = "check", !.step = @ + 1, !.child = None, !.channel = FALSE]

\* check_child_workflow: recorded, or still to be spawned.
CheckChild(e, w) ==
    LET c == journal[w][body[e][w].step]
    IN  /\ body[e][w].pc = "check"
        /\ body' = [body EXCEPT ![e][w] = IF c = None THEN [@ EXCEPT !.pc = "spawn"]
                                          ELSE [@ EXCEPT !.pc = "join", !.child = c]]
        /\ UNCHANGED <<row, journal, todo, up, deleter, forking, now, gone, happened>>

\* A child cannot be recorded for a parent that is gone (a foreign key), nor for
\* a step that another body has recorded (a conflict).
Refused(w, k) == ~Exists(w) \/ journal[w][k] # None

\* (mutant) Only a child that runs here is recorded.
SpawnUnrecorded(e, w) ==
    LET k == body[e][w].step
        c == Child(w, k)
        local == ~Exists(c) /\ c \notin Queued /\ ~Running(e, c)
    IN  /\ body[e][w].pc = "spawn"
        /\ IF Refused(w, k)
           THEN Goto(e, w, IF Exists(w) THEN "await" ELSE "error") /\ UNCHANGED <<row, journal>>
           ELSE /\ row' = [row EXCEPT ![c] = Upserted(e, c, NewRow(e, c, w, None))]
                /\ journal' = [journal EXCEPT ![w][k] = IF local THEN c ELSE @]
                /\ body' = [body EXCEPT ![e][w] = [@ EXCEPT !.pc = "join", !.child = c, !.channel = local],
                                        ![e][c] = IF local THEN Begun(c, None) ELSE @]
        /\ UNCHANGED <<todo, up, deleter, forking, now, gone, happened>>

\* One transaction inserts the child and records it as the parent's step.  When
\* the record is refused the body ends, after a conflict with the other one's
\* outcome.  A child that is new is run
\* here and answers over a channel; one that exists already is polled for.
Spawn(e, w) ==
    LET k == body[e][w].step
        c == Child(w, k)
        local == ~Exists(c) /\ c \notin Queued /\ ~Running(e, c)
    IN  /\ body[e][w].pc = "spawn"
        /\ IF Refused(w, k)
           THEN /\ Goto(e, w, IF Exists(w) THEN "await" ELSE "error")
                /\ UNCHANGED <<row, journal>>
           ELSE /\ row' = [row EXCEPT ![c] = Upserted(e, c, NewRow(e, c, w, None))]
                /\ journal' = [journal EXCEPT ![w][k] = c]
                /\ body' = [body EXCEPT ![e][w] = [@ EXCEPT !.pc = "join", !.child = c, !.channel = local],
                                        ![e][c] = IF local THEN Begun(c, None) ELSE @]
        /\ UNCHANGED <<todo, up, deleter, forking, now, gone, happened>>

\* get_result of a polling handle: as long as there is no row, or no result,
\* it polls on.
Join(e, w) ==
    LET s == row[body[e][w].child].status
    IN  /\ body[e][w].pc = "join" /\ ~body[e][w].channel
        /\ s \in Settled
        /\ body' = [body EXCEPT ![e][w] = After(@, s = "SUCCESS")]
        /\ UNCHANGED <<row, journal, todo, up, deleter, forking, now, gone, happened>>

\* The steps of a workflow without children, which look at the row first.
Work(e, w) ==
    /\ body[e][w].pc = "work"
    /\ Goto(e, w, IF row[w].status \in {"ABSENT", "CANCELLED"} THEN "error" ELSE "ok")
    /\ UNCHANGED <<row, journal, todo, up, deleter, forking, now, gone, happened>>

\* The outcome is written, if the row allows it; the handle gets it anyway, and
\* with it the parent in this process that waits for it.
Leave(e, w) ==
    LET ok == body[e][w].pc = "ok"
        waits == {v \in Id : body[e][v].pc = "join" /\ body[e][v].channel /\ body[e][v].child = w}
    IN  /\ body[e][w].pc \in {"ok", "error"}
        /\ row' = [row EXCEPT ![w] = OutcomeRow(@, IF ok THEN "SUCCESS" ELSE "ERROR")]
        /\ body' = [body EXCEPT ![e] = [v \in Id |-> IF v = w THEN Free
                                                     ELSE IF v \in waits THEN After(@[v], ok)
                                                     ELSE @[v]]]
        /\ UNCHANGED <<journal, todo, up, deleter, forking, now, gone, happened>>

\* A body that met a conflict ends with the workflow.
AwaitOther(e, w) ==
    LET waits == {v \in Id : body[e][v].pc = "join" /\ body[e][v].channel /\ body[e][v].child = w}
    IN  /\ body[e][w].pc = "await" /\ row[w].status \in Settled
        /\ body' = [body EXCEPT ![e] = [v \in Id |-> IF v = w THEN Free
                                                     ELSE IF v \in waits THEN After(@[v], row[w].status = "SUCCESS")
                                                     ELSE @[v]]]
        /\ UNCHANGED <<row, journal, todo, up, deleter, forking, now, gone, happened>>

\* The watcher of a body cancels the workflow, whatever has become of the row. It
\* ends with the body: while the task awaits another's result there is none.
Expire(e, w) ==
    /\ Running(e, w) /\ body[e][w].pc # "await" /\ body[e][w].deadline # None /\ now >= body[e][w].deadline
    /\ row' = [row EXCEPT ![w] = CancelRow(@)]
    /\ body' = [body EXCEPT ![e][w].deadline = None]
    /\ UNCHANGED <<journal, todo, up, deleter, forking, now, gone, happened>>

------------------------------------------------------------------------------
(* Management.                                                             *)

Cancel(w) ==
    /\ row[w].status \in {"PENDING", "ENQUEUED"}
    /\ row' = [row EXCEPT ![w] = CancelRow(@)]
    /\ Happens("cancel")
    /\ UNCHANGED <<journal, body, todo, up, deleter, forking, now, gone>>

Resume(w) ==
    /\ row[w].status \in {"PENDING", "ENQUEUED", "CANCELLED"}
    /\ row' = [row EXCEPT ![w] = ResumeRow(@)]
    /\ Happens("resume")
    /\ UNCHANGED <<journal, body, todo, up, deleter, forking, now, gone>>

\* The rows go, and with them (ON DELETE CASCADE) what they have recorded.
Removed(ws) ==
    /\ row' = [w \in Id |-> IF w \in ws THEN Absent ELSE row[w]]
    /\ journal' = [w \in Id |-> IF w \in ws THEN [k \in Step |-> None] ELSE journal[w]]
    /\ gone' = gone \cup {w \in ws : Exists(w)}

\* delete_workflow, with or without the descendants.
Delete(w) ==
    /\ deleter.pc = "idle" /\ Exists(w)
    /\ \E pc \in {"list", "delete"} : deleter' = [pc |-> pc, visit |-> <<w>>, found |-> <<w>>]
    /\ Happens("delete")
    /\ UNCHANGED <<row, journal, body, todo, up, forking, now, gone>>

\* get_workflow_children of the next id of the search.
DeleteList ==
    LET children == {c \in Id : Exists(c) /\ row[c].parent = Head(deleter.visit)}
    IN  /\ deleter.pc = "list"
        /\ IF deleter.visit = << >> THEN deleter' = [deleter EXCEPT !.pc = "delete"]
           ELSE \E cs \in SetToSeqs(children) :
                   deleter' = [deleter EXCEPT !.visit = Tail(@) \o cs, !.found = @ \o cs]
        /\ UNCHANGED <<row, journal, body, todo, up, forking, now, gone, happened>>

DeleteNext ==
    /\ deleter.pc = "delete"
    /\ IF deleter.found = << >>
       THEN deleter' = NoDelete /\ UNCHANGED <<row, journal, gone>>
       ELSE /\ Removed({Head(deleter.found)})
            /\ deleter' = [deleter EXCEPT !.found = Tail(@)]
    /\ UNCHANGED <<body, todo, up, forking, now, happened>>

\* garbage_collect: the workflows that have ended before a time, and all ended
\* ones but the newest; the two statements of a call with both limits.
Terminal == {w \in Id : row[w].status \in Settled}

CollectBefore(cutoff) ==
    LET old == {w \in Terminal : row[w].completed < cutoff}
    IN  /\ old # {} /\ Removed(old)
        /\ Happens("collect")
        /\ UNCHANGED <<body, todo, up, deleter, forking, now>>

CollectBeyond(threshold) ==
    \E kept \in kSubset(threshold, Terminal) :
        /\ \A w \in kept, v \in Terminal \ kept : row[w].created >= row[v].created
        /\ kept # Terminal /\ Removed(Terminal \ kept)
        /\ Happens("collect")
        /\ UNCHANGED <<body, todo, up, deleter, forking, now>>

\* fork_workflow: the original is read, then the fork is inserted with the
\* steps of the original before the start step that are recorded by then.
Fork(start) ==
    /\ forking = NoFork /\ Exists(Root) /\ ~Exists(Forked) /\ Forked \notin gone
    /\ forking' = start
    /\ Happens("fork")
    /\ UNCHANGED <<row, journal, body, todo, up, deleter, now, gone>>

\* No executor, parent or timeout.
ForkedRow == [Absent EXCEPT !.status = "ENQUEUED", !.queued = TRUE, !.created = now]

Copied(start) == [k \in Step |-> IF k < start THEN journal[Root][k] ELSE None]

ForkInsert ==
    /\ forking # NoFork
    /\ row' = [row EXCEPT ![Forked] = ForkedRow]
    /\ journal' = [journal EXCEPT ![Forked] = Copied(forking)]
    /\ forking' = NoFork
    /\ UNCHANGED <<body, todo, up, deleter, now, gone, happened>>

------------------------------------------------------------------------------
(* Processes and time.                                                     *)

Crash(e) ==
    /\ e \in up /\ Happens("crash")
    /\ up' = up \ {e}
    /\ body' = [body EXCEPT ![e] = [w \in Id |-> Free]]
    /\ todo' = [todo EXCEPT ![e] = {}]
    /\ UNCHANGED <<row, journal, deleter, forking, now, gone>>

\* The recovery pass of a launch lists what the process left behind.
Launch(e) ==
    /\ e \notin up
    /\ up' = up \cup {e}
    /\ todo' = [todo EXCEPT ![e] =
         {<<w, IF row[w].queued THEN "putBack" ELSE "start">> :
             w \in {v \in Id : row[v].status = "PENDING" /\ row[v].executor = e}}]
    /\ UNCHANGED <<row, journal, body, deleter, forking, now, gone, happened>>

Pass ==
    /\ now < Horizon
    /\ now' = now + 1
    /\ UNCHANGED <<row, journal, body, todo, up, deleter, forking, gone, happened>>

------------------------------------------------------------------------------
BodyStep(e, w) ==
    \/ CheckChild(e, w) \/ Spawn(e, w) \/ Join(e, w)
    \/ Leave(e, w) \/ AwaitOther(e, w)
    \/ w \notin Hangs /\ Work(e, w)

ProcessStep(e) == Launch(e) \/ \E w \in Id : Dequeue(e, w) \/ StartListed(e, w) \/ PutBack(e, w)

Environment ==
    \/ \E e \in Process : Submit(e) \/ Crash(e)
    \/ \E e \in Process, w \in Hangs : Work(e, w)
    \/ \E w \in Id : Cancel(w) \/ Resume(w) \/ Delete(w)
    \/ \E cutoff \in 1..(Horizon + 1) : CollectBefore(cutoff)
    \/ \E threshold \in 0..Cardinality(Id) : CollectBeyond(threshold)
    \/ \E start \in 1..(Steps + 1) : Fork(start)

Next ==
    \/ \E e \in Process : ProcessStep(e)
    \/ \E e \in Process, w \in Id : BodyStep(e, w) \/ Expire(e, w)
    \/ DeleteList \/ DeleteNext \/ ForkInsert \/ Pass
    \/ Environment

Spec == Init /\ [][Next]_vars

\* Bodies go on, but for work that hangs; watchers watch, processes are
\* restarted, dequeue and recover; time passes.
Fairness ==
    /\ \A e \in Process : WF_vars(ProcessStep(e))
    /\ \A e \in Process, w \in Id : WF_vars(BodyStep(e, w)) /\ WF_vars(Expire(e, w))
    /\ WF_vars(Pass)

FairSpec == Spec /\ Fairness

------------------------------------------------------------------------------
(* Properties.                                                             *)

Tick == 0..Horizon
RowType ==
    [status : {"ABSENT", "ENQUEUED", "PENDING"} \cup Settled, parent : Id \cup {None},
     executor : Process \cup {None}, queued : BOOLEAN, timeout : Nat \cup {None},
     deadline : Tick \cup {None}, created : Tick \cup {None}, completed : Tick \cup {None}]
BodyType ==
    [pc : {"free", "check", "spawn", "join", "await", "work", "ok", "error"}, step : Nat,
     child : Id \cup {None}, channel : BOOLEAN, deadline : Tick \cup {None}]

\* Types, and what goes with them: a row is settled exactly when it has ended;
\* a body that joins has a child, and a channel only to a body that is there.
TypeOK ==
    /\ row \in [Id -> RowType]
    /\ journal \in [Id -> [Step -> Id \cup {None}]]
    /\ body \in [Process -> [Id -> BodyType]]
    /\ \A e \in Process : todo[e] \subseteq Id \X {"start", "putBack"}
    /\ up \subseteq Process /\ gone \subseteq Id /\ now \in Tick
    /\ forking \in 1..(Steps + 1) \cup {NoFork}
    /\ \A w \in Id : (row[w].status \in Settled) <=> (row[w].completed # None)
    /\ \A e \in Process, w \in Id : LET b == body[e][w] IN
          /\ b.pc = "join" => b.child # None
          /\ b.channel => b.pc = "join" /\ Running(e, b.child)

\* The rows of children and their parents' journals: a row with a parent that was
\* never taken away is the child its parent has recorded for the step the id is
\* made from; a recorded child has a row, unless that was taken away.
RecordsAgree ==
    /\ \A c \in Id : LET p == row[c].parent IN
          p # None /\ p \notin gone => Exists(p) /\ journal[p][c[Len(c)]] = c
    /\ \A w \in Id, k \in Step : LET c == journal[w][k] IN
          c # None => Exists(w) /\ (Exists(c) \/ c \in gone)

\* The step is recorded, with a child that has succeeded, if it is still there.
Done(w, k) ==
    LET c == journal[w][k] IN c # None /\ (c \in gone \/ row[c].status = "SUCCESS")

\* A child and its parent's journal agree however bodies, processes and forks
\* interleave: rows and records agree, and a workflow that has succeeded has
\* recorded every step, with children that have succeeded (a cancelled child
\* may have answered over a channel before it noticed).  With children that have
\* children the last part need not hold: a child that runs twice can see its own
\* child taken away, fail, and overwrite its SUCCESS with ERROR.
ChildrenAgree ==
    /\ RecordsAgree
    /\ \A w \in Id \ gone :
          row[w].status = "SUCCESS" /\ HasChildren(w) /\ happened["cancel"] = 0
             => \A k \in Step : Done(w, k)

\* A workflow that was deleted or collected comes back only when a process had
\* read it before: as part of a batch or a recovery pass, with no memory of its
\* queue, parent and timeout, or as the child of a body that still runs for a
\* parent that is there.
GoneForGood ==
    [][\A w \in gone : ~Exists(w) /\ row'[w].status # "ABSENT" =>
          \/ row'[w].parent = None /\ \E e \in up : <<w, "start">> \in todo[e]
          \/ \E p \in Id : /\ row'[w].parent = p /\ Exists(p)
                           /\ \E e \in up : body[e][p].pc = "spawn" /\ w = Child(p, body[e][p].step)]_vars

\* A body polls for a row that was taken away: nothing tells it.
Stranded == \E e \in Process, w \in Id : LET b == body[e][w] IN
               b.pc = "join" /\ ~b.channel /\ ~Exists(b.child)

\* Workflows that need not end: work that hangs, those that have recorded such
\* a child and have no timeout (a fork has none), and those that are back, without
\* their timeouts, after they were taken away.
Endless ==
    Hangs \cup gone \cup {w \in Id : row[w].timeout = None /\ \E k \in Step : journal[w][k] \in Hangs}

\* In the end every workflow has settled or is gone, whatever crashes, is
\* cancelled or forked: one that waits for a child that never ends is cancelled
\* when its timeout is over, after a restart too.  Excused are, but for Endless
\* ones, systems with a body that waits for a row that was taken away, and with
\* a resume: a body that is still there then may have used its watcher.
Settles ==
    <>[](happened["resume"] > 0 \/ Stranded \/
         \A w \in Id \ Endless : row[w].status \in Settled \cup {"ABSENT"})

=============================================================================
