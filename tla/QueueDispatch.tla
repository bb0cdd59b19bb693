---------------------------- MODULE QueueDispatch ----------------------------
(***************************************************************************)
(* One queue: workflows are enqueued, perhaps with a delay, and the queue  *)
(* runner of every process polls: it promotes delayed workflows, counts    *)
(* what it runs itself, claims a batch in dequeue_workflows and dispatches *)
(* the batch.  The limits of the queue (concurrency over all processes and *)
(* per process, starts per period) are enforced only by the counts those   *)
(* statements read.                                                        *)
(*                                                                         *)
(* SQLite serializes transactions, so dequeue_workflows is one action.     *)
(* Postgres runs it at READ COMMITTED: every statement sees what other     *)
(* transactions committed before it, and an UPDATE waits for a row another *)
(* transaction has claimed.  Atomic selects the backend.                   *)
(*                                                                         *)
(* Dead-lettering, resuming and workflows outside the queue are in         *)
(* WorkflowExecution; a body that fails is like one that succeeds here.    *)
(***************************************************************************)
EXTENDS Integers, FiniteSets

CONSTANTS Executor, Workflow,
          Atomic,        \* TRUE: SQLite, FALSE: Postgres
          GlobalLimit,   \* global_concurrency, worker_concurrency and the limit of
          WorkerLimit,   \* rate_limit; None where the option is not given
          StartLimit,
          Period,        \* rate_limit.period, in ticks
          MaxTasks,      \* max_tasks_per_iteration
          Priority,      \* RunOptions.priority of each workflow
          Delay,         \* RunOptions.delay, in ticks; 0 is no delay
          None,
          MaxCrashes, MaxCancels, MaxPasses, MaxFailures,  \* bounds,
          MaxMishaps     \* and one of all these together

ASSUME QueueAssumption ==
    /\ IsFiniteSet(Executor) /\ IsFiniteSet(Workflow)
    /\ Atomic \in BOOLEAN
    /\ None \notin Int \cup Executor
    /\ {GlobalLimit, WorkerLimit, StartLimit} \subseteq Nat \cup {None}
    /\ Period \in Nat \ {0} /\ MaxTasks \in Nat
    /\ Priority \in [Workflow -> Nat] /\ Delay \in [Workflow -> Nat]
    /\ {MaxCrashes, MaxCancels, MaxPasses, MaxFailures, MaxMishaps} \subseteq Nat

VARIABLES row,      \* the workflow_status rows
          runner,   \* the queue runner of each process
          active,   \* active_workflow_ids of each process,
          counted,  \* those of its entries that carry the name of the queue,
          running,  \* and those whose body has not ended
          up,       \* "down", "launching" or "up", by executor
          todo,     \* what is left of the list a recovery pass took
          window,   \* history: the starts in the last period, by age
          budget    \* how much is left of each bound

vars == <<row, runner, active, counted, running, up, todo, window, budget>>
bodies == <<active, counted, running>>

\* Ages are in ticks; Period stands for every older age, and for NULL.
Age == 0..Period
Young == 0..(Period - 1)

NoRow == [status |-> "ABSENT", queue |-> "null", executor |-> None,
          created |-> 0, delay |-> 0, age |-> Period]

\* The runner of a process between two polls.
Idle == [pc |-> "idle", local |-> 0, recent |-> 0, room |-> 0, ids |-> {}, batch |-> {},
         held |-> [w \in Workflow |-> None]]

Init ==
    /\ row = [w \in Workflow |-> NoRow]
    /\ runner = [e \in Executor |-> Idle]
    /\ active = [e \in Executor |-> {}]
    /\ counted = [e \in Executor |-> {}]
    /\ running = [e \in Executor |-> {}]
    /\ up = [e \in Executor |-> "up"]
    /\ todo = [e \in Executor |-> {}]
    /\ window = [a \in Young |-> 0]
    /\ budget = [crash |-> MaxCrashes, cancel |-> MaxCancels,
                 pass |-> MaxPasses, failure |-> MaxFailures]

\* How many of the bounded events have happened.
Mishaps == (MaxCrashes - budget.crash) + (MaxCancels - budget.cancel)
           + (MaxPasses - budget.pass) + (MaxFailures - budget.failure)

\* queue_name of the row.
OnQueue(w) == row[w].queue = "this"
InStatus(s) == {w \in Workflow : row[w].status = s}
MinOf(a, b) == IF a <= b THEN a ELSE b
Positive(n) == IF n <= 0 THEN 0 ELSE n

------------------------------------------------------------------------------
(* The statements of dequeue_workflows.                                    *)

\* (mutant) Workflows that have ended are no longer counted.
RecentStartsRunning == Cardinality({w \in InStatus("PENDING") : OnQueue(w) /\ row[w].age < Period})

\* The starts the rate limiter sees: rows with a started_at in the period.
RecentStarts ==
    Cardinality({w \in Workflow : /\ OnQueue(w) /\ row[w].age < Period
                                  /\ row[w].status \notin {"ENQUEUED", "DELAYED"}})

PendingCount == Cardinality({w \in InStatus("PENDING") : OnQueue(w)})

\* (mutants) One slot too many, over all processes and in each of them.
RoomOffByOne(local) ==
    LET tasks == IF WorkerLimit = None THEN MaxTasks ELSE Positive(WorkerLimit - local)
    IN  IF GlobalLimit = None THEN tasks
        ELSE MinOf(tasks, Positive(GlobalLimit + 1 - PendingCount))

RoomWorkerOffByOne(local) ==
    LET tasks == IF WorkerLimit = None THEN MaxTasks ELSE Positive(WorkerLimit + 1 - local)
    IN  IF GlobalLimit = None THEN tasks
        ELSE MinOf(tasks, Positive(GlobalLimit - PendingCount))

\* How many workflows a poll may claim; a worker limit replaces MaxTasks.
Room(local) ==
    LET tasks == IF WorkerLimit = None THEN MaxTasks ELSE Positive(WorkerLimit - local)
    IN  IF GlobalLimit = None THEN tasks
        ELSE MinOf(tasks, Positive(GlobalLimit - PendingCount))

\* ORDER BY priority ASC, created_at ASC
Before(v, w) ==
    \/ Priority[v] < Priority[w]
    \/ Priority[v] = Priority[w] /\ row[v].created < row[w].created

\* The candidates: the first n that are ENQUEUED.
First(n) ==
    {w \in InStatus("ENQUEUED") : Cardinality({v \in InStatus("ENQUEUED") : Before(v, w)}) < n}

\* What the rate limit leaves of a poll that may claim n.
Allowed(n, recent) == IF StartLimit = None THEN n ELSE MinOf(n, StartLimit - recent)

\* The claim of a workflow by e, started age ticks ago.
Claimed(w, e, age) == [row[w] EXCEPT !.status = "PENDING", !.executor = e, !.age = age]

------------------------------------------------------------------------------
(* Submitting.                                                             *)

Enqueue(w) ==
    /\ row[w].status = "ABSENT"
    /\ row' = [row EXCEPT ![w] =
         [status |-> IF Delay[w] > 0 THEN "DELAYED" ELSE "ENQUEUED", queue |-> "this",
          executor |-> None, created |-> Cardinality(Workflow \ InStatus("ABSENT")),
          delay |-> Delay[w], age |-> Period]]
    /\ UNCHANGED <<runner, bodies, up, todo, window, budget>>

------------------------------------------------------------------------------
(* The queue runner of process e: one poll after the other.                *)

\* transition_delayed_workflows, at the start of a poll.
Promote(e) ==
    /\ up[e] = "up" /\ runner[e].pc = "idle"
    /\ row' = [w \in Workflow |->
                 IF row[w].status = "DELAYED" /\ row[w].delay = 0
                 THEN [row[w] EXCEPT !.status = "ENQUEUED"] ELSE row[w]]
    /\ runner' = [runner EXCEPT ![e].pc = "count"]
    /\ UNCHANGED <<bodies, up, todo, window, budget>>

\* local_running: the active entries of this queue.
CountLocal(e) ==
    /\ runner[e].pc = "count"
    /\ runner' = [runner EXCEPT ![e].pc = "rate", ![e].local = Cardinality(counted[e])]
    /\ UNCHANGED <<row, bodies, up, todo, window, budget>>

\* The end of a transaction that claimed the workflows ws, n of them just now.
Dispatching(e, ws) ==
    runner' = [runner EXCEPT ![e] = IF ws = {} THEN Idle
                                    ELSE [Idle EXCEPT !.pc = "dispatch", !.batch = ws]]

\* dequeue_workflows on SQLite.
Dequeue(e) ==
    LET recent == RecentStarts
        room   == Room(runner[e].local)
        ws     == IF StartLimit # None /\ recent >= StartLimit THEN {}
                  ELSE First(Allowed(room, recent))
    IN  /\ Atomic
        /\ runner[e].pc = "rate"
        /\ row' = [w \in Workflow |-> IF w \in ws THEN Claimed(w, e, 0) ELSE row[w]]
        /\ window' = [window EXCEPT ![0] = @ + Cardinality(ws)]
        /\ Dispatching(e, ws)
        /\ UNCHANGED <<bodies, up, todo, budget>>

\* dequeue_workflows on Postgres, statement by statement: the rate limiter's
\* count,
CountRecent(e) ==
    /\ ~Atomic
    /\ runner[e].pc = "rate"
    /\ runner' = [runner EXCEPT ![e] =
                    IF StartLimit # None /\ RecentStarts >= StartLimit THEN Idle
                    ELSE [@ EXCEPT !.pc = "limit",
                                   !.recent = IF StartLimit = None THEN 0 ELSE RecentStarts]]
    /\ UNCHANGED <<row, bodies, up, todo, window, budget>>

\* the count of the pending workflows,
CountPending(e) ==
    LET room == Room(runner[e].local)
    IN  /\ runner[e].pc = "limit"
        /\ runner' = [runner EXCEPT ![e] = IF room = 0 THEN Idle
                                           ELSE [@ EXCEPT !.pc = "select", !.room = room]]
        /\ UNCHANGED <<row, bodies, up, todo, window, budget>>

\* the candidates,
Select(e) ==
    /\ runner[e].pc = "select"
    /\ runner' = [runner EXCEPT ![e].pc = "claim", ![e].ids = First(runner[e].room)]
    /\ UNCHANGED <<row, bodies, up, todo, window, budget>>

Held(e) == {w \in Workflow : runner[e].held[w] # None}
Locked(w) == \E e \in Executor : w \in Held(e)
RateLeft(e) == StartLimit # None => runner[e].recent + Cardinality(Held(e)) < StartLimit

\* A transaction that has tried to claim w.
Tried(x, w, free) ==
    [x EXCEPT !.ids = @ \ {w}, !.held = IF free THEN [@ EXCEPT ![w] = 0] ELSE @]

\* (mutant) The claim does not look at the status again.
ClaimBlindly(e) ==
    \E w \in runner[e].ids :
        /\ runner[e].pc = "claim"
        /\ \A v \in runner[e].ids \ {w} : Before(w, v)
        /\ RateLeft(e)
        /\ ~Locked(w)
        /\ runner' = [runner EXCEPT ![e] = Tried(@, w, TRUE)]
        /\ UNCHANGED <<row, bodies, up, todo, window, budget>>

\* the claim of the next candidate, unless another process was first,
Claim(e) ==
    \E w \in runner[e].ids :
        /\ runner[e].pc = "claim"
        /\ \A v \in runner[e].ids \ {w} : Before(w, v)
        /\ RateLeft(e)
        /\ ~Locked(w)
        /\ runner' = [runner EXCEPT ![e] = Tried(@, w, row[w].status = "ENQUEUED")]
        /\ UNCHANGED <<row, bodies, up, todo, window, budget>>

\* and the commit.
Commit(e) ==
    /\ runner[e].pc = "claim"
    /\ runner[e].ids = {} \/ ~RateLeft(e)
    /\ row' = [w \in Workflow |->
                 IF w \in Held(e) THEN Claimed(w, e, runner[e].held[w]) ELSE row[w]]
    /\ window' = [a \in Young |-> window[a] + Cardinality({w \in Held(e) : runner[e].held[w] = a})]
    /\ Dispatching(e, Held(e))
    /\ UNCHANGED <<bodies, up, todo, budget>>

\* The dispatch of one workflow of the batch: its row gets the executor id
\* again, and its body starts unless it has ended or is active here.  The
\* active entry carries the queue_name of the row.
Dispatch(e, w) ==
    LET skip == row[w].status = "SUCCESS" \/ w \in active[e]
        add(set) == IF skip THEN set ELSE [set EXCEPT ![e] = @ \cup {w}]
    IN  /\ w \in runner[e].batch /\ ~Locked(w)
        /\ row' = [row EXCEPT ![w].executor = e]
        /\ active' = add(active)
        /\ running' = add(running)
        /\ counted' = IF OnQueue(w) THEN add(counted) ELSE counted
        /\ Dispatching(e, runner[e].batch \ {w})
        /\ UNCHANGED <<up, todo, window, budget>>

\* A dispatch that fails (a database error, a workflow that is not
\* registered in this process) is logged and dropped.
DispatchFails(e, w) ==
    /\ budget.failure > 0 /\ Mishaps < MaxMishaps
    /\ w \in runner[e].batch
    /\ Dispatching(e, runner[e].batch \ {w})
    /\ budget' = [budget EXCEPT !.failure = @ - 1]
    /\ UNCHANGED <<row, bodies, up, todo, window>>

------------------------------------------------------------------------------
(* Bodies.                                                                 *)

\* A body ends and its outcome is written; CANCELLED stays.
EndBody(e, w) ==
    /\ w \in running[e] /\ ~Locked(w)
    /\ running' = [running EXCEPT ![e] = @ \ {w}]
    /\ row' = IF row[w].status = "CANCELLED" THEN row
              ELSE [row EXCEPT ![w].status = "SUCCESS"]
    /\ UNCHANGED <<runner, active, counted, up, todo, window, budget>>

\* (mutant) The entry still counts.
LeaveCounted(e, w) ==
    /\ w \in active[e] \ running[e]
    /\ active' = [active EXCEPT ![e] = @ \ {w}]
    /\ UNCHANGED <<row, runner, counted, running, up, todo, window, budget>>

\* The task removes its entry from active_workflow_ids.
Leave(e, w) ==
    /\ w \in active[e] \ running[e]
    /\ active' = [active EXCEPT ![e] = @ \ {w}]
    /\ counted' = [counted EXCEPT ![e] = @ \ {w}]
    /\ UNCHANGED <<row, runner, running, up, todo, window, budget>>

------------------------------------------------------------------------------
(* Recovery.                                                               *)

PendingOf(e) == {w \in InStatus("PENDING") : row[w].executor = e}

Launch(e) ==
    /\ up[e] = "down"
    /\ up' = [up EXCEPT ![e] = "launching"]
    /\ todo' = [todo EXCEPT ![e] = PendingOf(e)]
    /\ UNCHANGED <<row, runner, bodies, window, budget>>

Launched(e) ==
    /\ up[e] = "launching" /\ todo[e] = {}
    /\ up' = [up EXCEPT ![e] = "up"]
    /\ UNCHANGED <<row, runner, bodies, todo, window, budget>>

\* The recovery endpoint of e, asked for any process, running or not.
RecoveryRequest(e, target) ==
    /\ budget.pass > 0 /\ Mishaps < MaxMishaps
    /\ up[e] = "up" /\ todo[e] = {}
    /\ todo' = [todo EXCEPT ![e] = PendingOf(target)]
    /\ budget' = [budget EXCEPT !.pass = @ - 1]
    /\ UNCHANGED <<row, runner, bodies, up, window>>

\* (mutant) The workflow stays PENDING.
ClearedNothing(w) == row[w]

\* clear_queue_assignment, whoever claimed the workflow by now.
Cleared(w) ==
    IF row[w].status = "PENDING" /\ OnQueue(w)
    THEN [row[w] EXCEPT !.status = "ENQUEUED", !.age = Period] ELSE row[w]

Recover(e, w) ==
    /\ w \in todo[e]
    /\ row' = [row EXCEPT ![w] = Cleared(w)]
    /\ todo' = [todo EXCEPT ![e] = @ \ {w}]
    /\ UNCHANGED <<runner, bodies, up, window, budget>>

\* A process dies; the database rolls its open transaction back.
Crash(e) ==
    /\ budget.crash > 0 /\ Mishaps < MaxMishaps /\ up[e] # "down"
    /\ up' = [up EXCEPT ![e] = "down"]
    /\ runner' = [runner EXCEPT ![e] = Idle]
    /\ active' = [active EXCEPT ![e] = {}]
    /\ counted' = [counted EXCEPT ![e] = {}]
    /\ running' = [running EXCEPT ![e] = {}]
    /\ todo' = [todo EXCEPT ![e] = {}]
    /\ budget' = [budget EXCEPT !.crash = @ - 1]
    /\ UNCHANGED <<row, window>>

------------------------------------------------------------------------------
(* Cancellation and time.                                                  *)

Cancel(w) ==
    /\ budget.cancel > 0 /\ Mishaps < MaxMishaps
    /\ row[w].status \in {"DELAYED", "ENQUEUED", "PENDING"} /\ ~Locked(w)
    /\ row' = [row EXCEPT ![w].status = "CANCELLED", ![w].queue = "null", ![w].age = Period]
    /\ budget' = [budget EXCEPT !.cancel = @ - 1]
    /\ UNCHANGED <<runner, bodies, up, todo, window>>

Older(a) == MinOf(a + 1, Period)

Tick ==
    /\ row' = [w \in Workflow |-> [row[w] EXCEPT !.delay = Positive(@ - 1), !.age = Older(@)]]
    /\ runner' = [e \in Executor |-> [runner[e] EXCEPT
                    !.held = [w \in Workflow |-> IF @[w] = None THEN None ELSE Older(@[w])]]]
    /\ window' = [a \in Young |-> IF a = 0 THEN 0 ELSE window[a - 1]]
    /\ UNCHANGED <<bodies, up, todo, budget>>

------------------------------------------------------------------------------
RunnerStep(e) ==
    \/ Promote(e) \/ CountLocal(e) \/ Dequeue(e)
    \/ CountRecent(e) \/ CountPending(e) \/ Select(e) \/ Claim(e) \/ Commit(e)
    \/ \E w \in Workflow : Dispatch(e, w)

BodyStep(e, w) == EndBody(e, w) \/ Leave(e, w)

RecoveryStep(e) == Launch(e) \/ Launched(e) \/ \E w \in Workflow : Recover(e, w)

Environment ==
    \/ \E w \in Workflow : Enqueue(w) \/ Cancel(w)
    \/ \E e \in Executor, w \in Workflow : DispatchFails(e, w)
    \/ \E e \in Executor : Crash(e)
    \/ \E e, target \in Executor : RecoveryRequest(e, target)

Next ==
    \/ \E e \in Executor : RunnerStep(e) \/ RecoveryStep(e)
    \/ \E e \in Executor, w \in Workflow : BodyStep(e, w)
    \/ Tick
    \/ Environment

Spec == Init /\ [][Next]_vars

\* The runners poll, bodies end, a process that died is restarted, time
\* passes; nobody has to enqueue, cancel, fail or crash.
Fairness ==
    /\ \A e \in Executor : WF_vars(RunnerStep(e)) /\ WF_vars(RecoveryStep(e))
    /\ \A e \in Executor, w \in Workflow : WF_vars(BodyStep(e, w))
    /\ WF_vars(Tick)

FairSpec == Spec /\ Fairness

------------------------------------------------------------------------------
(* Properties.                                                             *)

RowType == [status : {"ABSENT", "DELAYED", "ENQUEUED", "PENDING", "SUCCESS", "CANCELLED"},
            queue : {"this", "null"}, executor : Executor \cup {None}, created : Nat,
            delay : Nat, age : Age]

RunnerType == [pc : {"idle", "count", "rate", "limit", "select", "claim", "dispatch"},
               local : Nat, recent : Nat, room : Nat,
               ids : SUBSET Workflow, batch : SUBSET Workflow,
               held : [Workflow -> Age \cup {None}]]

Budget == [crash : 0..MaxCrashes, cancel : 0..MaxCancels,
           pass : 0..MaxPasses, failure : 0..MaxFailures]

\* Every variable has its type, and the sets a process keeps in memory nest.
TypeOK ==
    /\ row \in [Workflow -> RowType]
    /\ runner \in [Executor -> RunnerType]
    /\ active \in [Executor -> SUBSET Workflow]
    /\ counted \in [Executor -> SUBSET Workflow]
    /\ running \in [Executor -> SUBSET Workflow]
    /\ \A e \in Executor : counted[e] \subseteq active[e] /\ running[e] \subseteq active[e]
    /\ up \in [Executor -> {"down", "launching", "up"}]
    /\ todo \in [Executor -> SUBSET Workflow]
    /\ window \in [Young -> Nat]
    /\ budget \in Budget

\* The rows of a queue never show more running workflows than its
\* global_concurrency, whatever crashes, is cancelled or recovered.
GlobalLimitHolds == GlobalLimit # None => PendingCount <= GlobalLimit

Bodies == {b \in Executor \X Workflow : b[2] \in running[b[1]]}

\* The bodies that really run, counted over the processes, keep the limit
\* too: a row is PENDING for as long as its body runs (without cancellations,
\* and when only a restarted process recovers its workflows, README, section 3).
BodiesWithinGlobal ==
    /\ GlobalLimit # None
    /\ budget.cancel = MaxCancels /\ budget.pass = MaxPasses
    => Cardinality(Bodies) <= GlobalLimit

\* A process never runs more workflows of a queue than worker_concurrency,
\* the batch it is about to dispatch included, although it counts before it
\* claims (without cancellations, README, section 3).
WorkerLimitHolds ==
    WorkerLimit # None /\ budget.cancel = MaxCancels =>
        \A e \in Executor : Cardinality(active[e] \cup runner[e].batch) <= WorkerLimit

\* No workflow is in the hands of two processes at a time, claimed or
\* running, although Postgres' pollers select candidates concurrently (until
\* a process recovers the workflows of another one, README, section 3).
Mine(e) == running[e] \cup runner[e].batch
InHands(e) == Mine(e) \cup Held(e)
ClaimedOnce ==
    budget.pass = MaxPasses => \A e, f \in Executor : e # f => InHands(e) \cap InHands(f) = {}

\* Why: a workflow that is being claimed is still ENQUEUED and locked; one
\* that is claimed, running or to be recovered is PENDING for that process
\* only, or over; and a process that is not up has nothing in its hands.
\* (The inductive invariant ClaimedOnce is proved with, until there is a pass
\* for another process.)
Waiting == \A e \in Executor : \A w \in Held(e) : row[w].status = "ENQUEUED"
Owned ==
    \A e \in Executor : \A w \in Mine(e) \cup todo[e] :
        \/ row[w].status \in {"SUCCESS", "CANCELLED"}
        \/ row[w].status = "PENDING" /\ row[w].executor = e
Apart ==
    \A e, f \in Executor : e # f =>
        Held(e) \cap Held(f) = {} /\ Mine(e) \cap Mine(f) = {}
EmptyWhenDown ==
    \A e \in Executor : /\ up[e] # "up" => runner[e] = Idle /\ running[e] = {}
                        /\ todo[e] # {} => up[e] = "launching"
HandsInv == TypeOK /\ Waiting /\ Owned /\ Apart /\ EmptyWhenDown /\ budget.pass = MaxPasses

StartsIn(ages) == Cardinality(UNION {{<<a, n>> : n \in 1..window[a]} : a \in ages})

\* In no period does a queue start more workflows than its rate limit allows,
\* as long as no crash, cancellation or recovery pass has reset a started_at
\* (README, section 3).
StartsWithinRate ==
    /\ StartLimit # None
    /\ budget.crash = MaxCrashes /\ budget.cancel = MaxCancels /\ budget.pass = MaxPasses
    => StartsIn(Young) <= StartLimit

\* Every workflow on the queue is run in the end, whatever limits the queue
\* has and although a process crashes with workflows it has claimed.
EveryWorkflowRuns ==
    \A w \in Workflow :
        row[w].status \in {"DELAYED", "ENQUEUED", "PENDING"}
            ~> row[w].status \in {"SUCCESS", "CANCELLED"}

==============================================================================
