# Verification of DBOS Transact (Rust)

TLA+ models of the durable-workflow engine in `src/crates/dbos-core`, the TLC
runs that check them on small instances, and theorems about them that TLAPS
proves for every instance. Source paths below are relative to
`crates/dbos-core/src` unless they start with `crates/`.

## 1. The system

A *process* (executor) embeds the library; any number of processes share one
system database (SQLite or Postgres). Processes never talk to each other: all
coordination goes through rows of the database, plus what each process keeps in
memory.

| part | state | operations | interacts through |
|---|---|---|---|
| run core (`workflow/run.rs`) | `active_workflow_ids`, one task per running body | `run_workflow`, `run_workflow_erased`, outcome write | status rows; called by applications, queue runner, recovery, scheduler, debouncer |
| steps (`workflow/step.rs`, `context/state.rs`) | per-run step counter; journal `operation_outputs` | `run_step`, `run_step_opts` (retry), `sleep` | check / record statements |
| recovery (`recovery.rs`, `context/lifecycle.rs`) | the list a pass took | launch pass, pass on request | `clear_queue_assignment`, run core |
| queues (`queue/`) | registered queues; status rows | promote delayed, dequeue, dispatch | `dequeue_workflows`, run core |
| management (`workflow/manage.rs`) | none | cancel, resume, fork, delete, list | status rows |
| communication (`workflow/comms.rs`) | notifications, events, streams | send, recv, set/get event, write/close/read stream | two-statement operations: act, then record a step |
| timeouts (`workflow/run.rs`, `step.rs`) | deadline column, watcher task | watcher cancels at the deadline, durable sleep | cancel statement, shutdown token |
| scheduler (`scheduler/`) | schedules, last fire | cron loop, reconciler, backfill, pause/resume | deterministic workflow ids |
| debouncer (`debouncer.rs`) | a debouncer workflow and its inbox | debounce | dedup id, notifications |
| retry decorator (`db/retry.rs`) | none | repeat a statement after a transient error | every statement on Postgres |
| database backends (`db/sqlite.rs`, `db/postgres.rs`) | all tables | the `SystemDatabase` trait | - |
| handles (`workflow/handle.rs`), client (`client.rs`) | channel or id | await, poll, enqueue | status rows |
| conductor, admin server, CLI (`crates/dbos-server`, `crates/dbos-cli`) | websocket session | forward requests | management operations, recovery |

What is hard: every operation is a sequence of transactions of *several*
processes with crashes between any two of them; lists and answers are used
after the rows behind them changed; the owner of a workflow is a column that
several operations rewrite; a body that was cancelled keeps running until its
next check; retried statements may have committed the first time.

What makes each part correct: all executions of a workflow use one journal of
step results; a settled workflow stays what it is; a cancelled one stays
cancelled until it is resumed; attempts are bounded; every workflow somebody
submitted eventually settles; queues never exceed their limits; a message is
received once; a tick fires once; a debounced workflow runs once, with the last
input. `PROJECT.json` lists each hazard at its line.

## 2. Modules

| module | models |
|---|---|
| `WorkflowStatusTable` | the rows of `workflow_status` and every statement that decides who runs a workflow and how it ends, as functions on rows |
| `WorkflowExecution` | processes that call, enqueue, dispatch, recover, run, cancel, resume and crash; the core of the system |
| `DurableExecution` | the abstract promise: one growing journal, one final outcome |
| `MCWorkflowExecution` | instances of `WorkflowExecution` for TLC |
| `WorkflowExecution_proofs`, `WorkflowOutcome_proofs` | theorems about it: types, journal and success, the budget of starts, what runs twice; cancellation, outcomes and the abstract promise |
| `QueueDispatch` | one queue with its limits, polled by several processes, on SQLite and on Postgres |
| `MCQueueDispatch` | instances of `QueueDispatch` for TLC |
| `QueueDispatch_proofs` | theorems about it |
| `Communication` | send, recv, events, streams and durable sleep in workflows that crash, run twice, are cancelled and shut down |
| `MCCommunication` | instances of `Communication` for TLC |
| `Communication_proofs` | theorems about it |
| `WorkflowTree` | children, timeouts, forks, delete and garbage collection under bodies that run, wait for each other and are recovered |
| `WorkflowTree_proofs` | theorems about it |
| `Scheduler` | static and dynamic schedules: reconcilers, backfill, firing tasks of several processes |
| `Scheduler_proofs` | theorems about it |
| `Debouncer` | calls of one key, the internal workflow that collects their inputs, its queue and its restarts |
| `Debouncer_proofs` | theorems about it |
| `DatabaseRetry` | one workflow on a Postgres that fails, loses answers and comes back, with the retries of statements and of steps |
| `DatabaseRetry_proofs` | theorems about it |
| `MCWorkflowTree`, `MCScheduler`, `MCDebouncer`, `MCDatabaseRetry` | instances of these for TLC |

How the modules fit together: `WorkflowExecution` is the composition of
processes, recovery, dispatch and management over the table of
`WorkflowStatusTable`, and implements `DurableExecution`. Each other module
takes one thing it leaves out, opens it up, and abstracts the rest to what the
core promises: `QueueDispatch` opens the dequeue, `Communication` the operations
of a body that are more than one statement, `WorkflowTree` bodies that start
bodies and operations that remove rows, `DatabaseRetry` the single statement and
the single closure. `Scheduler` and `Debouncer` sit on top: what they submit is
a workflow with an id of its own, of which the core says that it is one
workflow however often it is submitted.

### WorkflowStatusTable

The upsert of `insert_workflow_status` is `Upserted` (an inserted row, or the
`ON CONFLICT` update, which moves `executor_id` and counts an attempt), followed
in the same transaction by the dead-letter check (`OverBudget`, `Parked`).
`OutcomeRow`, `ClearQueueAssignment`, `ClaimRow`, `CancelRow` and `ResumeRow`
are the other statements with their `WHERE` clauses. The columns kept are
status, recovery_attempts, executor_id, queue_name (NULL or not) and the outcome.
SQLite and Postgres run the same statements; each is one transaction that locks
the row it writes, so one action is right for both.

### WorkflowExecution

One invocation of `run_workflow_erased` is a record in a slot of `run`; its `pc`
says which database call or memory access comes next:

| pc | code |
|---|---|
| (start) | `Invoke`: the status insert; a dead-letter error ends the invocation |
| decide | `should_skip`, reading the insert's answer and the active map |
| admit | the insert into the active map, the spawn of the body |
| check | `check_operation_execution`: cancelled, replayed, or not yet run |
| exec | the closure of the step |
| record | `record_operation_result`: accepted, or a conflict |
| finish | `update_workflow_outcome` |
| await | `await_workflow_result` after a conflict |
| leave | the removal from the active map, the answer to the handle |

`Call`, `Dispatch` and `RecoverDirect` start invocations for the application,
the queue runner and a recovery pass; the latter two wait for one invocation
to return before they make the next, and a recovery pass that gets a dead-letter
error forgets the rest of its list, as `?` in `recovery.rs` does. `Crash` loses
everything a process kept in memory. The active-map lookup and insert are two
steps because other tasks of the process run between them.

The body is a fixed sequence of `NumSteps` steps; a step returns any member of
`Value` or `StepFailed`, so two executions of a closure may disagree, and the
body propagates the first error. Application version filtering, authentication
fields, inputs and serialization are left out.

`starts`, `resumed` and `effects` are history variables the code does not have.

### QueueDispatch

`WorkflowExecution` takes a dequeue as one claim of any waiting workflow;
`QueueDispatch` opens it up and closes the rest: a body is one step there, and a
failing body is like a succeeding one. A runner's record holds what one poll of
`dequeue_and_dispatch` has read so far:

| pc | code |
|---|---|
| idle | `transition_delayed_workflows` (`Promote`) |
| count | the count of the active entries that carry the queue's name (`CountLocal`) |
| rate | SQLite: all of `dequeue_workflows` (`Dequeue`); Postgres: the rate limiter's count (`CountRecent`) |
| limit | Postgres: the count of the PENDING rows (`CountPending`) |
| select | Postgres: the candidates (`Select`) |
| claim | Postgres: one UPDATE per candidate (`Claim`), then `Commit` |
| dispatch | one `run_workflow` after the other (`Dispatch`, `DispatchFails`) |

Rows a Postgres transaction has updated are in `held` with the age of their
`started_at`; other writers of such a row wait (`Locked`), and the statements of
other transactions see them ENQUEUED until the commit. Times are ages in ticks:
`Tick` makes every start and every delay one tick older. `counted` is the part
of `active_workflow_ids` whose entries have the name of the queue: the entry
takes it from the row, which a cancellation sets to NULL. `window` is history.

Queue names other than this one, partition keys, deduplication ids and
application versions are left out; deduplication only guards the insert.

### Communication

`WorkflowExecution` shows when bodies of one workflow run again or at the same
time; `Communication` takes this as given (`Begin`, with the happening "rival")
and looks at what the operations do between their database calls. A workflow is
a sequence of operations (`program`), a body a place in it:

| pc | code |
|---|---|
| check | `check_operation_execution` of the operation |
| act | send: the insert; set_event: the upsert |
| deadline, setDeadline | `durable_deadline_ms`: the lookup, the record (again the lookup after a conflict) |
| wait | `wait_until`, or the select of `sleep` |
| take | recv: the SELECT of `consume_oldest_notification`; get_event: the second read |
| consume | the UPDATE of `consume_oldest_notification` |
| probe, append | `write_stream`: the check for the end marker, the insert |
| record | `record_operation_result`: accepted, or a conflict that ends the body |
| finished, failed | `update_workflow_outcome` |
| await | `await_workflow_result` |

A message is named by its place in the inbox, which is the order of the commits;
`at` is `created_at_epoch_ms`, the clock of its sender. Topics, event keys and
stream keys are independent of each other, so there is one of each. Contents of
messages, events and entries are the operation they come from. `get_event` and
`read_stream` from outside a workflow are reads (`Readable` is what the latter
returns). Attempt limits, queues and executor ids are left to the other modules:
`Begin` starts a body for any workflow that is PENDING.

`happened` counts crashes, rivals, shutdowns, cancellations and sends from
outside; `Bounds` are the combinations of them that are looked at.

### WorkflowTree

Rows with a parent, a timeout, a deadline and the times of their creation and
end; a workflow that has children spawns them one after the other and waits for
each. A body's `pc`:

| pc | code |
|---|---|
| check | `check_child_workflow`: recorded, or to be spawned (`CheckChild`) |
| spawn | one transaction inserts the child and records it with the parent (`Spawn`); a refused record ends the body, a conflict sends it to `await` |
| join | the handle on the child: a channel when the child runs in this body's process, else polling (`Join`, `Leave`, `AwaitOther`) |
| work | the steps of a workflow without children, which look at the row first |
| ok, error | the outcome, and the answer to whoever waits on the channel |

`Expire` is the watcher that is spawned with a body that has a deadline: it
belongs to the body and ends with it (not with the task, which may still await
another's outcome), sleeps until the deadline read then, and cancels the row
whatever has become of it. `todo` holds what a process has read from the table
and not yet acted on: the batch of a dequeue, the list of a recovery pass.
`StartListed` begins with the upsert, so it may bring back a row that was
deleted meanwhile, without queue, parent and timeout. `Delete` with descendants
is a search (`DeleteList`, one `get_workflow_children` per id) and a removal per
id (`DeleteNext`); garbage collection is its two statements (`CollectBefore`,
`CollectBeyond`); `Fork` reads the original and `ForkInsert` writes the fork
later. `gone` is history. Steps other than children, attempts and limits are in
the other modules.

### Scheduler

One schedule name. `kind` says whether it is static (a task per process from
launch on) or dynamic (a row of `workflow_schedules`). The reconciler lists the
table (`List`), cancels what is stale and computes the missed ticks
(`Reconcile`), submits them one by one (`BackfillTick`) and spawns a firing task
(`Install`); pauses, deletes and replacements come between any two of these. A
firing task computes the next tick (`Start`), waits for it or for its token
(`Wake`, `Quit`), submits (`Fire`, `FireStatic`) and stamps (`Stamp`). Several
tasks of a process may coexist while old ones wind down: `Slots` bounds them.
Ticks are a set of times; `submitted` is the set of ticks with a workflow, since
workflows are named after their tick. `told`, `slipped` and `since` are history.

### Debouncer

One key. A call is in one of the stages of the loop in `debounce`: insert,
lookup of the holder of the deduplication id, send, wait for the
acknowledgement, look at the holder's row. The internal workflow of the call
that won the slot is named for it, and so is its target. `journal` condenses the
recorded steps of the internal workflow into what a replay yields: the stage it
is at, the latest time, the start time, the time and the deadline of the recv in
progress, the input, the inputs before each recv (`had`: a recv that fails in a
replay ends the loop with one of them) and the acknowledgements that are missing
(`missed`: `AckMissed` makes up for them in a replay). A crash loses `body`, not
`journal`; `Consume` and `RecordRecv` are separate, so that a crash between them
loses the message. `Launch` puts running workflows back on the queue, `Cancel`
frees the slot, `Collect` removes a row with its messages and events, that of a
cancelled workflow under its running body, too. `target` holds the input a target
was enqueued with, once. `earlier` and `cut` are history.

A statement may fail for good wherever there is one, with what the code makes of
it:

| action | code |
|---|---|
| `CallFails` | a statement of a call: `debounce` returns the error |
| `LoopFails` | within a recv: the loop ends (debouncer.rs:295); in a step for a time, or with the target: the body ends in an error |
| `AckFails` | an acknowledgement: logged, and the loop goes on without the record (debouncer.rs:289) |
| `OutcomeFails` | `update_workflow_outcome`: dropped (workflow/run.rs:297, :331); the row stays PENDING and has the slot, without a body |
| `DispatchFails` | the dispatch of a claimed row: logged, and the row is PENDING without a body |

The last two leave what `Stranded` describes.

### DatabaseRetry

A statement in progress is `call`: sent, or answered and not yet looked at.
`Execute` is a statement that is executed and answered, `LoseAnswer` one that is
executed and not answered, `Fail` one that is not executed (transient: no
server; fatal: an error that is not retried). `Retry` sends it again with the
next delay while there is time; otherwise the method returns and the body goes
on (`Listed` ... `AwaitedOutcome`, one per statement). `await_workflow_result`
polls inside one call, so the time for retries runs while it does (`Poll`).
`RunClosure` and `Wake` are the loop of `run_step_opts`. A `send` in a step is a
statement of its own kind, not guarded by a unique key. The process shuts down
(its token is cancelled, then it stops), crashes and recovers. `told`,
`launches`, `resent`, `gaveUp` and `runs` are history.

## 3. Runs

| run | shows |
|---|---|
| `exec_crash` | rival bodies of one workflow agree with the journal and the outcome; attempts are bounded; `WorkflowExecution` implements `DurableExecution` when nothing is resumed |
| `exec_resume` | a workflow that is called and enqueued: the journal and the outcomes while a cancel and a resume race body, recovery and dispatch; without the resume, steps repeat only after crashes and a process has one body |
| `exec_live` | a called and an enqueued workflow settle across a crash |
| `queue_bodies` | SQLite: rows and running bodies stay within the global concurrency, with delays, priorities, a crash and a failing dispatch; no period has more starts than the rate limit, until the crash |
| `queue_live` | Postgres: concurrent pollers never share a workflow, each keeps its worker limit, and everything runs although a process crashes |
| `comm_talk` | nobody receives a message twice or out of order, recorded operations do not act again, waits last until their first deadline, streams only grow, workflows that wait end |
| `tree_life` | parents' journals and children's rows agree, what was removed comes back only through a list read before, and every workflow settles or is gone |
| `sched_ticks` | two processes, a static or a dynamic schedule: one task per process and none for what was paused, no tick lost, and in the end the tasks follow the table |
| `debounce_calls` | the last input wins, a call counts once and not before its time, every call returns and is followed by its target, unless an error strands the holder of the slot |
| `debounce_doc_settle` | a statement of the documents that the code does not keep (section 5) |
| `retry_flap` | what handles and rows say is true, repetitions have a cause, and the workflow ends but for the two known cases |
| `retry_doc_restart` | a statement of the documents that the code does not keep (section 5) |

### Bounds

`exec_*`: one or two processes and workflows, two or three invocations at a
time, one or two steps and results, one or two crashes. Two executors and three
slots are what it takes for a body, its rival and a late decision to coexist;
two steps for a journal with a before and an after; two results for two
executions to disagree. Run slots and results are symmetric in the safety runs.

`queue_*`: two processes and two or three workflows: two pollers are what it
takes to race, three workflows to have one running, one claimed and one left
waiting, and limits of one or two to be reached. A period is one or two ticks.
`MaxMishaps` lets two of a crash, a cancellation, a requested pass and a failing
dispatch happen in one behaviour. A pass may be requested for any process, a
running one and the own one included.

`comm_talk` has three applications of two workflows: one sends, the other one
receives twice (from it or from outside); one writes and closes a stream; one
sets an event twice, the other one gets it and sleeps. Two slots let any two
bodies, of one workflow or of two, interleave; a sender whose workflow is over
and a sender outside are as good as a third.

`tree_life` has a root with an enqueued child and one that runs in the root's
process and may hang, a timeout for the root, a fork with children of its own,
and two processes, so that a child may run elsewhere and a recovery may race.

`sched_ticks`: two processes with two task slots (the installed task and one
that winds down), ticks that come due once and twice, and a third one to wait
for; `Second` is what the backfill adds to the last fire.

`debounce_calls`: three calls when nothing fails (a holder, one that pushes it
back, one that comes late), two calls with one of these: a late acknowledgement,
a crash and two failing acknowledgements; a shutdown and a collection; a cancel
and a collection; a late acknowledgement, an error and a collection; a crash and
two errors (a lost outcome, say, and what the replay meets); a crash and a cancel. Delays of one and two, a
timeout of two and an end of time of three let the start time be pushed back,
capped, and passed.

`retry_flap`: three steps, so that the send in the middle has a step before and
one after it; a step is retried once, a workflow recovered once, and the time
for retries is over after three delays (1, 2 and 3, with one unit left).

What may go wrong is counted in `happened` (or `budget`), and a behaviour stays
within one of the combinations `Bounds` lists, which pair the faults of a
module: a crash with a cancellation, a deletion, a rival, a shutdown, a lost
answer. More of one kind repeats what one or two show.

The system may stop: when all workflows are settled and the bounds are used up
nothing is left to do, so the runs switch the deadlock check off.

### Properties with exceptions

Some properties hold only without certain operations. The exceptions are part of
the definitions, and they are what the code does:

- `NothingRunsTwice`: a recovery pass requested for a living process runs its
  workflows a second time, and so does a resume of a running workflow.
- `BodiesWithinGlobal`: a workflow that is cancelled frees its slot while its
  body still runs, and of two recovery passes for one process the later puts a
  workflow back that already runs again.
- `WorkerLimitHolds`: the active entry takes its queue name from the row
  (workflow/run.rs:257), so a workflow that is cancelled between its claim and
  its dispatch runs without being counted.
- `StartsWithinRate`: cancel, resume and `clear_queue_assignment` set
  `started_at` to NULL, and the start is no longer counted.
- `NothingEndsEarly` and `Memoized`: rivals and shutdowns; `Finishes`: rivals
  (workflow/run.rs:306, where a body awaits the outcome of one that has died).
- `ChildrenAgree`, the last conjunct, without cancellations: a cancelled child
  that has not noticed answers over its channel, so its parent succeeds.
- `Settles` of `WorkflowTree`: bodies that poll for a row that was removed,
  resumes (a body that is still there may have used its watcher up), and what
  hangs without a timeout.
- `NoTickLost`: ticks that come due while a process is busy with another one,
  or whose submission failed.
- `LatestInputWins`: a recv that fails, or is refused after a cancel, together
  with a restart. `FiresOnceInTime`: calls that stopped waiting (their input is
  sent again); a shutdown, a cancellation or a failing statement ends the wait
  early.
- `Completes`: a call need not return while a stranded workflow has the slot
  (`Stranded`): an error left its row PENDING without a body, since its outcome
  was not written or its dispatch failed, and no process was restarted since. The
  calls then insert, send and wait for an acknowledgement again and again. A call
  may fail with an error of its own or when its holder is collected. The target
  may be missing after a cancellation or an error of the internal workflow, or
  its collection between acknowledgement and status read.
- `AnswersAreTrue`: an ERROR after a success was told needs a recovery that
  cannot read a step. `Ends`: statements that have given up, and a record whose
  answer was lost.

### Fairness

`WorkflowExecution`: tasks of a live process are scheduled and their database
calls return, the queue runner keeps polling, a recovery pass goes on with its
list, and a crashed process is restarted. Nobody is obliged to call, enqueue,
cancel, resume, crash or request a recovery. An application call leaves one
invocation slot free: the slots bound the model, not the code, and must not
starve the system's own invocations.

`QueueDispatch`: the runners poll (each on an interval, so weak fairness of its
next step), the bodies end, recovery passes go on, a process that is down is
restarted, and time passes. Dispatches need not fail and nobody need cancel.

`Communication`: bodies go on, deadlines pass, and a workflow that is PENDING
without a body is recovered.

`WorkflowTree`: bodies go on except for work that hangs, watchers watch,
processes are restarted, dequeue and recover, time passes. Deletions and forks
once begun need not end (their caller may be gone).

`Scheduler`: reconcilers poll, tasks go on, processes are launched again, time
passes. `Debouncer`: calls and bodies go on, the internal queue is polled, a
process that stops is started again, time passes. `DatabaseRetry`: a statement
that is sent is in the end executed and answered or sent again, a body acts on
its answer, a process that stops is started again.

## 4. Theorems

Assumptions: `TableAssumption` and `ExecutionAssumption` (at least one step, the
constants that stand for "nothing" and "failed" are not results). Nothing is
assumed about the number of processes, workflows, steps, slots, or about the
bounds.

- `Typing`: `TypeOK`.
- `BodiesAgree`, `JournalHasNoGaps`, `SuccessIsRecorded`: `SeenIsRecorded`,
  `JournalIsPrefix` and `SuccessMatchesJournal` follow from `JournalInv`, which
  adds to them `BodyProgress`: a run at step k has seen values for all earlier
  steps and nothing later. It is needed in two places. When a record is let in,
  the writer's own earlier results are in the journal (so there is no gap) and
  nobody has used a result of this step yet (there was none). When a body
  writes SUCCESS it has seen a value of every step, and those are the journal.

- `StartsAreBudgeted`: `StartsWithinBudget`. `BudgetInv` adds the invocations that
  have been let in and may still start a body: together with the starts they are
  at most `MaxRetries + 1` for every resume, and the attempts that were counted
  since the last one. A step is one of four things for a workflow: it costs
  nothing (`Costless`), it lets one invocation in and counts its attempt, it
  begins what was let in, or it resubmits. Enqueued and called workflows count
  at different statements, which is what the invariant has to bridge.
- `ClosuresRunOnce`: `NothingRunsTwice`. Its second half is `OneInv`: what
  processes have in their hands (`HandInv`), that an invocation of a fresh insert
  is the only one (`NewInv`), that those which wait for a running body came after
  it (`WaitInv`), and that a process has one body of a workflow, whose entry is
  in `active_workflow_ids` (`BodyInv`). The first half is `ChanceInv`: a workflow
  has one chance to execute a step, which is its row, its place in a batch or a
  list, or an invocation before the step; statements pass it on, the closure uses
  it up, and only a crash opens another one (`Passes`, `Uses`, `Reopens`).

- `CancelIsFinal`: `CancelledUntilResumed`, whatever happens. Every statement but
  `resume_workflow` keeps a CANCELLED row (`Quiet` says what a statement that is
  neither a resume nor an outcome may make of a row).
- `ResultsStay`: whatever is resumed, a record never changes, and none is added to
  a workflow whose row says SUCCESS. This is what is left of `JournalOnlyGrows`
  when bodies from before and after a resume write one journal.
- `ErrorIsRecorded`, `OutcomeStays`, `JournalStays`: `ErrorMatchesJournal`, that
  a settled workflow keeps its outcome (`OutcomeIsFinal`), and that a recorded
  result stays (`JournalOnlyGrows`), when nobody resumes (`MaxResumes = 0`: a
  body that was cancelled writes ERROR over a resumed row, section 5). To
  `JournalInv`, `OutcomeInv` adds that a body which ends because it was cancelled
  finds its row CANCELLED (`Anchors`), so it writes nothing, and that the outcome
  columns say what the status says. Hence a second outcome of a workflow is the
  first one again: a body that succeeded has seen the whole journal, one that
  failed has seen the failure in it, and the two cannot both be.
- `Implementation`: `ImplementsDurableExecution` when nobody resumes. By
  `StepShape` a step is a `QuietStep` (Create, Park, CancelForGood or a stutter),
  a record (Append) or an outcome (Succeed, Fail, or the same again).

- `QueueTyping`: `TypeOK` of `QueueDispatch`, with the nesting of the sets a
  process keeps in memory.
- `NothingInTwoHands`: `ClaimedOnce`, on both backends. The property ends with the
  first pass for another process (two passes for one process put back a workflow
  that runs again already). Until then the invariant `HandsInv` says what a
  workflow's row looks like while a process has it in its hands: ENQUEUED and
  locked while it is being claimed, PENDING for that process or over from the
  commit on. A second claim fails at the row, a second dispatch at the executor
  id. That a process which is down has nothing in its hands is needed for
  recovery: only then may its rows be given back.
- `GlobalLimitOnSQLite`: `GlobalLimitHolds` when a dequeue is one transaction
  that nothing interleaves with (`Atomic`; on Postgres two pollers count before
  either commits). Two workflows never have the same `created_at` in the model
  and nobody overtakes, so the candidates have different numbers of workflows
  ahead of them; a `LIMIT n` takes those with fewer than n ahead, hence n at
  most. The invariant `LimitInv` adds to the limit that no runner is inside a
  transaction (`OneStatement`), that the submitted workflows have different ages
  (`Line`), and that only submitted ones are in anybody's hands (`Known`).
- `BodiesOnSQLite`: `BodiesWithinGlobal`, when dequeues are `Atomic`. `BusyInv`
  says that the row of a body that runs is PENDING and names its queue; by
  `HandsInv` two bodies have different rows, so the bodies are at most as many as
  the rows that `GlobalLimitOnSQLite` bounds. What could take a row away from its
  body is a recovery, and a process has nothing of its own in its list while it
  runs anything.
- `RateOnSQLite`: `StartsWithinRate`, when dequeues are `Atomic`. The limiter
  counts rows with a young `started_at`, the property counts starts. `RateInv`
  connects the two age by age: there are as many rows started then (`Remembered`),
  so that the starts of a period can be mapped to different rows the limiter
  sees. That what waits has no `started_at` (`Fresh`) and that nobody has
  anything to recover (`AllUp`) is why no start is forgotten; a poll adds as many
  rows as starts, and a tick moves both by one.

- `WorkerLimitOnBoth`: `WorkerLimitHolds`, on both backends and with crashes,
  failing dispatches and recovery passes for others. A process counts its entries
  first and claims some statements later; in between its own entries only become
  fewer, because it dispatches nothing while it polls. `WorkerInv` carries that
  through the poll: the entries are covered by the count (`Fits`), the room read
  next leaves the count its place, candidates and claimed ones together stay in
  the room, and the committed batch with the entries in the limit. Every entry
  counts only while every submitted row names its queue (`NullFree`), which a
  cancellation ends; that is where the theorem needs its premise.

Assumed of the constants of `QueueDispatch` is `QueueAssumption`: finitely many
processes and workflows, limits that are natural numbers or absent, a period of
at least one tick.

- `CommunicationTyping`: `TypeOK` of `Communication`.
- `NobodyReceivesTwice`: `ReceivedOnce`, for every application. What is needed
  for it (`RecvInv`) is that recorded messages are consumed, that operations are
  recorded in their order and a body has those before its own behind it, and
  that the message in the hand of a body is not one of theirs. A body takes a
  message that is not consumed, so no recv has recorded it; while it goes on to
  record it, others can only record operations from its own on, and when one of
  them does, its own record is a conflict. So nothing depends on the UPDATE that
  consumes the message noticing that another one did it already.
- `ReadersSeeNothingGo`: `StreamOnlyGrows`. Appends go to the end and only the
  first end marker counts, so no rival can take back what a reader has read.
- `NothingActsAgain`: `Memoized`. Without a rival a workflow has one body
  (`Alone`), and where it is about to act nothing is recorded (`ActsOnce`): it
  has looked, and there is nobody else to record anything in between.
- `MessagesByAge`: `ReceivedByAge`. When a body selects a message, no older one
  that came before it is left (`Foremost`), and consumed messages stay consumed.
  So if an earlier recv has taken one that came later, that one is not younger
  than what the body has in its hand (`HandAge`).
- `WaitsAreKept`: `NothingEndsEarly`. A body behind an operation that waited has
  its result, or the deadline that was recorded first is past (`JournalEarly`); a
  crashed body waits again, but only until that deadline.

Assumed of the constants of `Communication` is `CommunicationAssumption`:
applications of workflows with at least one and at most `Longest` operations,
whose sends and get_events name workflows.

- `RetryTyping`: `TypeOK` of `DatabaseRetry`.
- `RepetitionsHaveCauses`: `RepeatsExplained`, for every backoff, number of
  retries and set of faults. The invariant `RepeatInv` says when the next
  delivery or the next attempt still has its cause ahead of it: while a body is
  before a send (`Unsent`), or a recovery before its insert is answered
  (`Uncounted`), the count is one lower than the bound. A statement that commits
  and is answered takes the body out of that state; one whose answer is lost
  leaves it there and is in `resent`; a new life of the process puts it back and
  is in `launches`. `AbsentInv` (without a row nothing was sent and nobody is
  past the insert) is for a first insert that is sent again, `ParkedInv` (a
  parked row has too many attempts) for the last conjunct.

- `AnswersTrue`: `AnswersAreTrue`. The invariant `AnswersInv` follows a body from
  the read of a step to its record: behind a body that works there are only steps
  that have succeeded, and what it has read or recorded at its own step is what
  the journal says (`JournalRead`), so a step is recorded once and an outcome is
  written with all steps or with a failure (`OutcomeEarned`). The row is open
  meanwhile (`RowOpen`), hence a success that was told is not followed by an
  ERROR unless a body cannot read a step: with all steps recorded there is
  nothing else left that could fail (`ToldStays`). `ErrorsCaused` carries the
  cause of a failure from the closure to the journal; it needs that the runs a
  body counts are runs of its step (`body.runs <= runs[body.step]`).

Assumed of the constants of `DatabaseRetry` is `RetryAssumption`: at least one
step, the sends are steps, delays are positive and at most `MaxDelay`, and the
constant for "nothing" is none of the answers.

- `SchedulerTyping`: `TypeOK` of `Scheduler`.
- `FiresOne`: `OneTaskFires`. `TokenInv` adds what a reconciler knows (`Knows`):
  what it has found is still the row if nothing has changed since it looked, and
  while it backfills nothing is installed, so that the task it installs is the
  only live one. Hence it does not matter that the table may change between the
  list and the end of the pass: a process that has noticed a change has done so
  in a pass whose list came after it.
- `TicksAreKept`: `NoTickLost`, for every cron expression whose ticks are more
  than a second apart (`Sparse`; a schedule for every second does lose a tick,
  section 5). `Orderly` follows the ticks since the first stamp through a
  schedule nobody disturbs: a task has all of them behind it but the one it
  waits for or fires (`TaskKept`), and a backfill has all of them behind it or in
  its list (`RecKept`). The stamp that a list shows may be older than the row's,
  but every tick up to it is taken care of and the ones after it are backfilled;
  `Sparse` is needed there, because the backfill leaves out the second after the
  stamp. When time passes, either every task waits for the tick that comes due,
  or a process is busy and the tick is one of the excused.

Assumed of the constants of `Scheduler` is `SchedulerAssumption`: ticks are
positive numbers, a second is at least one unit of the clock.

- `TreeTyping`: `TypeOK` of `WorkflowTree`.
- `RecordsAgreement`: `RecordsAgree`, the first half of `ChildrenAgree`, for trees
  of every depth. `RecordInv` adds that ids with a parent end with a step, that
  what a process has listed was there, and that the id of a fork in progress is
  unused. Most steps change one row and neither remove it nor its parent
  (`KeepsRows`); the others are the spawn, which inserts and records in one
  transaction, the fork, and the removals, which take a row's records with it.
- `ParentsKnowTheirChildren`: `ChildrenAgree` for trees of two levels and any
  number of steps (`Flat`). `SuccessInv` follows a body: behind its step every
  step is done (`Progress`), what it waits for is what is recorded (`Joined`), and
  no child fails that was never taken away (`Unhurt`), because a body runs only
  for a row that is or was there (`Present`) and only the root has a deadline
  (`Untimed`). `RowMoves`, `JournalMoves` and `BodyMove` say what any step may do.
  The premise is needed: with three levels a body that runs twice can find its
  child deleted and inserted again, end in ERROR, and overwrite the SUCCESS of
  its workflow, after the parent has succeeded with it (a run of 29 steps with
  one deletion and resumes).
- `NothingReturnsByItself`: `GoneForGood`, from `RecordInv` and that a process
  which is down has nothing listed and runs nothing (`Down`).

Assumed of the constants of `WorkflowTree` is `TreeAssumption`: a finite set of
ids, sequences of numbers; a workflow has all its steps or none; the root and the
fork have ids no child has.

- `DebouncerTyping`: `TypeOK` of `Debouncer`. `TypeInv` adds what a journal has at
  each stage, what a body has in its hand, which calls have a holder, and that
  there is nothing where there was never a row.
- `DebouncerLatest`: `LatestInputWins`. A step moves each message one place
  further, from the inbox to the hand of a body, to the record, to the
  acknowledged ones (to which count those whose acknowledgement failed: `Taken`),
  or drops it (`Moves`); a call adds its own (`Sends`). Along
  that line the attempts of one call are in order (`OrderInv`): a message is taken
  by its time, and two attempts of a call are at least one tick apart
  (`SentInv`) except at the end of time, where a recv is the last one (`Locked`).
  So a call whose attempt is acknowledged has no older message left there. Hence,
  while a workflow has the slot, a message that may still replace its input is of
  a call that has not returned (`SlotInv`); a call that finds the holder finds
  nothing of earlier calls there, and once its own message is acknowledged the
  input is not one of theirs (`LaterInv`). `FiredInv` is why the target has the
  recorded input: a body that has fired records nothing more, unless it left the
  loop at a recv (`cut`) and is run again, which takes a stopped process
  (`CausesInv`: what a body, a row or a process must have behind it to be where
  it is).
- `DebouncerOnceInTime`: `FiresOnceInTime`. `OnceInv` says where the input of a call
  at its first attempt can be, in messages, records and bodies (`Inputs`): with its
  holder while it waits, and with its handle after. `TimeInv` says that a recv without a message ends at its deadline, which
  is not before the time of the target (`JournalOK`), and that a body at its last
  stage has reached that time, when nothing ends the waiting (`CausesInv`).

Assumed of the constants of `Debouncer` is `DebouncerAssumption`: delays and the
timeout are natural numbers, a call waits at least one tick for its
acknowledgement (debouncer.rs:50), and the constant for "nothing" is neither a
call nor a number.

## 5. Where documents and code disagree

- `debounce_doc_settle`: the new start time of a debounced call is the time that
  was read before the recv plus the delay of the message that ended it
  (debouncer.rs:283): a call near the end of the window hardly pushes the target
  back (debouncer.rs:4-8 says by `delay`).
- `retry_doc_restart`: a record whose answer was lost is refused when it is sent
  again, which the run takes for another run's record; it waits for an outcome
  that nobody writes until the process is started again (db/retry.rs:83,
  workflow/run.rs:306; README.md:212).

Seen while modelling, without a run of its own:

Execution.
- A call that attaches to a workflow another process runs makes its own process
  the row's executor; when the running one crashes, no recovery pass lists the
  workflow (db/sqlite.rs:231; README.md:114).
- The body that was cancelled before a resume writes its cancellation as ERROR
  over the resumed row (db/sqlite.rs:390; workflow/manage.rs:36).
- A dead-lettered workflow ends a recovery pass early, and the workflows listed
  after it wait for the next restart (recovery.rs:88; docs/ARCHITECTURE.md:72).
- A step's closure runs again after a crash before its record, so that a side
  effect is "exactly once" only if no crash hits it (`NothingRunsTwice`).

Queues.
- On Postgres two pollers count before either commits and together exceed the
  global concurrency (db/postgres.rs:719; queue/mod.rs:38).
- Two recovery passes for one process put a workflow back on the queue that
  already runs again; two bodies run (queue/mod.rs:38).
- A worker concurrency replaces `max_tasks_per_iteration` (db/sqlite.rs:718), and
  candidates are ordered by priority whether the queue enables it or not
  (db/sqlite.rs:741).

Communication.
- A crash between the consumption and the record of a message loses it
  (workflow/comms.rs:91; comms.rs:54).
- Messages with the same time may be received in either order, and a late one
  may have an earlier time than one that has been received (db/postgres.rs:1119).
- A second body of a workflow that runs behind can set an event back to an
  earlier value; a close_stream that crashed before its record fails the workflow
  when it runs again (comms.rs:385); a shutdown makes a recv record a timeout
  before its deadline (comms.rs:349).

Trees and management.
- `check_child_workflow` does not look at the parent's status: a cancelled or
  timed-out parent goes on spawning children.
- A list of a recovery pass or a dequeued batch that is stale inserts a deleted
  workflow again, without queue, parent and timeout (`GoneForGood`).
- A delete with descendants misses children that are spawned between the search
  and the removal (workflow/manage.rs:67).
- A handle on a row that was removed polls for ever (`Stranded`).
- A body that runs a second time can end in ERROR, since a child was removed, and
  `update_workflow_outcome` replaces the SUCCESS the first one has written
  (db/sqlite.rs:390).
- A channel answers Ok although the row is CANCELLED.
- The watcher of a body that was cancelled and whose workflow was resumed cancels
  it again (workflow/run.rs:265); a workflow resumed while its old body runs is
  dequeued and gets a deadline, but no watcher (run.rs:232, :263).
- A fork replays the children of the original as its own, has no timeout, and
  copies nothing when the original is deleted between read and insert.

Retries.
- A handle is told success although the outcome's update gave up; a recovery that
  cannot read a step ends the workflow in ERROR (workflow/run.rs:297).
- An insert whose answer was lost counts two attempts, and parks the workflow
  earlier; a send whose answer was lost delivers twice (`RepeatsExplained`).
- The polls of one `await_workflow_result` use up the time for its retries.
- A shutdown during the backoff of a step records the step as failed, and the
  workflow ends in ERROR (workflow/step.rs:319).

Scheduler and debouncer.
- An automatic backfill begins a second after the last fire, so that a schedule
  for every second loses a tick (scheduler/engine.rs:215; dynamic.rs:38-39).
- A call of debounce whose acknowledgement is late sends its input again, and two
  targets may run with it.
- A cancelled internal workflow that waits for a message fires its target, since
  an error of recv only ends the loop; a shutdown ends the wait early and fires.
- A cancelled internal workflow whose body is run again after a crash may be
  refused at a recv that is recorded, and then fires with the input it had before
  it: an older one (debouncer.rs:295, db/sqlite.rs:491).
- An internal workflow whose outcome is not written, or whose dispatch fails,
  keeps the deduplication id without a body, and the calls of debounce under its
  key do not return until a restart or a cancel (workflow/run.rs:297, :331;
  queue/runner.rs:93).
- A statement that fails in a step for a time ends the internal workflow in ERROR,
  and the handles on its target poll for ever.
- A recv that fails and is not recorded, then a restart: the replay may acknowledge
  a message for a target that is enqueued already (debouncer.rs:295).
- A collection between the acknowledgement and the status read gives a handle on a
  target nobody enqueues (debouncer.rs:197-207).

## 6. What is proved and what is only checked

Proved for every instance are the theorems of section 4. Liveness (`Settles`,
`EveryWorkflowRuns`, `Finishes`, `Follows`, `Completes`, `Ends`) is out of the
prover's reach and stays with TLC, with the fairness above. Every safety
invariant and every action property of the runs is stated by a theorem. Some of
them have premises, each because of a behaviour that TLC finds without it:

- `MaxResumes = 0` in `ErrorIsRecorded`, `OutcomeStays`, `JournalStays` and
  `Implementation`: a body that was cancelled reports ERROR over a resumed row.
- `Atomic` in the three theorems about limits over all processes: on Postgres
  two pollers count before either of them commits, and with `Atomic = FALSE` the
  instance of `queue_bodies` exceeds each of the three.
- `Sparse` in `TicksAreKept` and `Flat` in `ParentsKnowTheirChildren` (section 4).

The exceptions listed in section 3 are part of the properties themselves.

## 7. Not modelled

- The conductor client, the admin server and the CLI: they receive a request and
  call an operation that is modelled here; their own state is a connection that
  is opened again after a delay.
- The client: its enqueue is the insert of `Enqueue`, the rest forwards.
- Typed registration and configuration: they are over before a process launches.
- Serialization and errors: conversions of payloads that the models abstract to
  values.
- Listings, status counts, aggregates, application versions (and the filtering of
  recovery and dequeue by them), authentication fields: reads, or columns no
  property is about.
- Partition keys of queues; deduplication ids are in `Debouncer` only.
- In `Debouncer`: two bodies of one internal workflow (a resume, or a recovery
  pass for a running process; `Communication` has rivals), a record that conflicts
  with its own repetition (`DatabaseRetry` has it), and crashes of the processes
  that call, which only end the call.
- Cron parsing and time zones: a schedule is a set of ticks.
- The durations of backoffs, beyond that `DatabaseRetry` counts those of
  statements.
