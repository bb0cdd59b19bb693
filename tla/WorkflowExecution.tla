-------------------------- MODULE WorkflowExecution --------------------------
(***************************************************************************)
(* Durable execution: processes (executors) share one system database.     *)
(* Application calls, the queue runner and recovery all invoke a workflow  *)
(* through run_workflow_erased: insert the status row, decide whether to   *)
(* run the body here, run it step by step against the step journal         *)
(* (operation_outputs), write the outcome.  Processes crash and restart.   *)
(*                                                                         *)
(* Every database call is one action; between two of them any other        *)
(* invocation, of any process, may act.  A workflow body is the worst one  *)
(* for this protocol: NumSteps steps in a fixed order, each returning a    *)
(* result nothing outside it determines, or failing; the body propagates   *)
(* the first error it meets.                                               *)
(***************************************************************************)
EXTENDS WorkflowStatusTable

CONSTANTS Workflow,    \* workflow ids
          Run,         \* slots for the invocations in progress, of all processes
          Calls,       \* <<e, w>>: e's application calls run_workflow with id w
          Enqueues,    \* <<e, w>>: e's application enqueues w on a queue
          MaxCrashes,  \* bounds: process crashes,
          MaxCancels,  \* cancel_workflow calls,
          MaxResumes,  \* resume_workflow calls,
          MaxPasses    \* and recovery passes asked for by an administrator

ASSUME ExecutionAssumption ==
    /\ None \notin Workflow
    /\ Calls \subseteq Executor \X Workflow
    /\ Enqueues \subseteq Executor \X Workflow
    /\ {MaxCrashes, MaxCancels, MaxResumes, MaxPasses} \subseteq Nat

VARIABLES row,      \* workflow_status, by workflow id
          log,      \* operation_outputs, by workflow id: a journal
          run,      \* the invocations in progress
          active,   \* active_workflow_ids of each process
          up,       \* "down", "launching" or "up", by executor
          todo,     \* what is left of the list a recovery pass took
          claimed,  \* what is left of the batch the queue runner claimed
          starts,   \* history: bodies started, by workflow
          resumed,  \* history: resumes that put the workflow on the queue
          effects,  \* history: executions of a step's closure
          budget    \* how much is left of each bound

vars == <<row, log, run, active, up, todo, claimed, starts, resumed, effects, budget>>
history == <<starts, resumed, effects>>

Kind == {"call", "recovery", "dequeue"}
Free == [pc |-> "free", kind |-> "call", wf |-> None, exec |-> None, owner |-> "other",
         status |-> "ABSENT", step |-> 1, seen |-> Blank, val |-> None, why |-> "none"]

Init ==
    /\ row = [w \in Workflow |-> NoRow]
    /\ log = [w \in Workflow |-> Blank]
    /\ run = [r \in Run |-> Free]
    /\ active = [e \in Executor |-> {}]
    /\ up = [e \in Executor |-> "up"]
    /\ todo = [e \in Executor |-> {}]
    /\ claimed = [e \in Executor |-> {}]
    /\ starts = [w \in Workflow |-> 0]
    /\ resumed = [w \in Workflow |-> 0]
    /\ effects = [w \in Workflow |-> [k \in Step |-> 0]]
    /\ budget = [crash |-> MaxCrashes, cancel |-> MaxCancels,
                 resume |-> MaxResumes, pass |-> MaxPasses]

------------------------------------------------------------------------------
(* Invocations.                                                            *)

\* An invocation that has inserted its row.  It decides on two answers of the
\* insert: whose owner_xid is on the row, and which status.
Inserted(kind, e, w, owner, status) ==
    [pc |-> "decide", kind |-> kind, wf |-> w, exec |-> e, owner |-> owner, status |-> status,
     step |-> 1, seen |-> Blank, val |-> None, why |-> "none"]

\* The status insert of an invocation; a dead-letter error ends it at once.
Invoke(r, kind, e, w) ==
    LET fails == InsertFails(row[w], "PENDING", e, kind # "call")
        after == InsertStatus(row[w], "PENDING", e, kind # "call")
    IN  /\ run[r].pc = "free"
        /\ row' = [row EXCEPT ![w] = after]
        /\ run' = IF fails THEN run
                  ELSE [run EXCEPT ![r] = Inserted(kind, e, w,
                          IF row[w].status = "ABSENT" THEN "self" ELSE "other", after.status)]

\* The queue runner and a recovery pass wait for an invocation they made to
\* return before they make the next one.
Invoking(e, kind) ==
    \E r \in Run : run[r].exec = e /\ run[r].kind = kind /\ run[r].pc \in {"decide", "admit"}

\* run_workflow, called by the application.  (The bound on the slots must not
\* starve the system's own invocations: a call leaves one free.)
Call(e, w) ==
    /\ <<e, w>> \in Calls
    /\ up[e] = "up"
    /\ \E r, s \in Run : r # s /\ run[s].pc = "free" /\ Invoke(r, "call", e, w)
    /\ UNCHANGED <<log, active, up, todo, claimed, history, budget>>

\* run_workflow with a queue name: always a polling handle.  A second enqueue
\* of the id changes no column of this model (it may meet the dead-letter
\* check like any insert).
Enqueue(e, w) ==
    /\ <<e, w>> \in Enqueues
    /\ up[e] = "up"
    /\ row' = [row EXCEPT ![w] = InsertStatus(@, "ENQUEUED", e, FALSE)]
    /\ UNCHANGED <<log, run, active, up, todo, claimed, history, budget>>

\* (mutant) A process starts a body it is running already.
SkipIgnoresActive(r) ==
    \/ run[r].status \in {"SUCCESS", "ERROR"}
    \/ run[r].kind = "call" /\ run[r].owner # "self"

\* should_skip: hand back a polling handle instead of running the body.
Skip(r) ==
    \/ run[r].status \in {"SUCCESS", "ERROR"}
    \/ run[r].kind = "call" /\ run[r].owner # "self"
    \/ run[r].wf \in active[run[r].exec]

Decide(r) ==
    /\ run[r].pc = "decide"
    /\ run' = [run EXCEPT ![r] = IF Skip(r) THEN Free ELSE [@ EXCEPT !.pc = "admit"]]
    /\ UNCHANGED <<row, log, active, up, todo, claimed, history, budget>>

\* The entry in active_workflow_ids, and the spawned body.
Admit(r) ==
    /\ run[r].pc = "admit"
    /\ active' = [active EXCEPT ![run[r].exec] = @ \cup {run[r].wf}]
    /\ starts' = [starts EXCEPT ![run[r].wf] = @ + 1]
    /\ run' = [run EXCEPT ![r].pc = "check"]
    /\ UNCHANGED <<row, log, up, todo, claimed, resumed, effects, budget>>

------------------------------------------------------------------------------
(* The body, one step after the other.                                     *)

\* (mutant) The end of the body is noticed one step late.
AdvanceOffByOne(x, v) ==
    IF v = StepFailed
    THEN [x EXCEPT !.pc = "finish", !.why = "stepError", !.seen[x.step] = v, !.val = None]
    ELSE [x EXCEPT !.seen[x.step] = v, !.val = None, !.step = @ + 1,
                   !.pc = IF x.step > NumSteps THEN "finish" ELSE "check",
                   !.why = IF x.step > NumSteps THEN "ok" ELSE "none"]

\* A run that has the result v of its step: on to the next one, or to the end.
Advance(x, v) ==
    IF v = StepFailed
    THEN [x EXCEPT !.pc = "finish", !.why = "stepError", !.seen[x.step] = v, !.val = None]
    ELSE [x EXCEPT !.seen[x.step] = v, !.val = None, !.step = @ + 1,
                   !.pc = IF x.step = NumSteps THEN "finish" ELSE "check",
                   !.why = IF x.step = NumSteps THEN "ok" ELSE "none"]

\* check_operation_execution: cancelled, recorded (replay), or neither.
Checked(x) ==
    IF row[x.wf].status = "CANCELLED"
    THEN [x EXCEPT !.pc = "finish", !.why = "cancelled"]
    ELSE IF log[x.wf][x.step] # None
    THEN Advance(x, log[x.wf][x.step])
    ELSE [x EXCEPT !.pc = "exec"]

CheckStep(r) ==
    /\ run[r].pc = "check"
    /\ run' = [run EXCEPT ![r] = Checked(@)]
    /\ UNCHANGED <<row, log, active, up, todo, claimed, history, budget>>

\* The closure of the step: its side effect, and a result.
Execute(r) ==
    /\ run[r].pc = "exec"
    /\ \E v \in StepResult : run' = [run EXCEPT ![r].pc = "record", ![r].val = v]
    /\ effects' = [effects EXCEPT ![run[r].wf][run[r].step] = @ + 1]
    /\ UNCHANGED <<row, log, active, up, todo, claimed, starts, resumed, budget>>

\* (mutants) A duplicate record replaces the first one; a conflict is an
\* error like any other.
RecordStepOverwrites(r) ==
    /\ run[r].pc = "record"
    /\ log' = [log EXCEPT ![run[r].wf][run[r].step] = run[r].val]
    /\ run' = [run EXCEPT ![r] = Advance(@, @.val)]
    /\ UNCHANGED <<row, active, up, todo, claimed, history, budget>>

RecordStepConflictIsError(r) ==
    /\ run[r].pc = "record"
    /\ IF log[run[r].wf][run[r].step] = None
       THEN /\ log' = [log EXCEPT ![run[r].wf][run[r].step] = run[r].val]
            /\ run' = [run EXCEPT ![r] = Advance(@, @.val)]
       ELSE /\ run' = [run EXCEPT ![r].pc = "finish", ![r].why = "stepError"]
            /\ UNCHANGED log
    /\ UNCHANGED <<row, active, up, todo, claimed, history, budget>>

\* record_operation_result: the primary key (workflow_uuid, function_id) lets
\* one record in; the other execution learns that it is not the only one.
RecordStep(r) ==
    /\ run[r].pc = "record"
    /\ IF log[run[r].wf][run[r].step] = None
       THEN /\ log' = [log EXCEPT ![run[r].wf][run[r].step] = run[r].val]
            /\ run' = [run EXCEPT ![r] = Advance(@, @.val)]
       ELSE /\ run' = [run EXCEPT ![r].pc = "await"]
            /\ UNCHANGED log
    /\ UNCHANGED <<row, active, up, todo, claimed, history, budget>>

\* update_workflow_outcome after the body returned.
WriteOutcome(r) ==
    LET x == run[r]
    IN  /\ x.pc = "finish"
        /\ row' = [row EXCEPT ![x.wf] = OutcomeRow(@,
                     [why |-> x.why, seen |-> IF x.why = "ok" THEN x.seen ELSE Blank])]
        /\ run' = [run EXCEPT ![r].pc = "leave"]
        /\ UNCHANGED <<log, active, up, todo, claimed, history, budget>>

Settled == {"SUCCESS", "ERROR", "CANCELLED", "MAX_RECOVERY_ATTEMPTS_EXCEEDED"}

\* await_workflow_result: the run that met a conflict polls the row.
AwaitOutcome(r) ==
    /\ run[r].pc = "await"
    /\ row[run[r].wf].status \in Settled
    /\ run' = [run EXCEPT ![r].pc = "leave"]
    /\ UNCHANGED <<row, log, active, up, todo, claimed, history, budget>>

\* The task removes its active entry and sends the outcome to its handle.
Leave(r) ==
    /\ run[r].pc = "leave"
    /\ active' = [active EXCEPT ![run[r].exec] = @ \ {run[r].wf}]
    /\ run' = [run EXCEPT ![r] = Free]
    /\ UNCHANGED <<row, log, up, todo, claimed, history, budget>>

------------------------------------------------------------------------------
(* The queue runner of a process.                                          *)

\* dequeue_workflows claims every enqueued workflow (an unlimited queue, as
\* the internal one is).
Claim(e) ==
    LET batch == {w \in Workflow : row[w].status = "ENQUEUED"}
    IN  /\ up[e] = "up"
        /\ claimed[e] = {} /\ ~Invoking(e, "dequeue")
        /\ batch # {}
        /\ row' = [w \in Workflow |-> ClaimRow(row[w], e)]
        /\ claimed' = [claimed EXCEPT ![e] = batch]
        /\ UNCHANGED <<log, run, active, up, todo, history, budget>>

\* The dispatch loop; a dispatch that fails is logged and dropped.
Dispatch(e) ==
    /\ ~Invoking(e, "dequeue")
    /\ \E w \in claimed[e] :
          /\ \E r \in Run : Invoke(r, "dequeue", e, w)
          /\ claimed' = [claimed EXCEPT ![e] = @ \ {w}]
    /\ UNCHANGED <<log, active, up, todo, history, budget>>

------------------------------------------------------------------------------
(* Recovery.                                                               *)

\* list_workflows: the PENDING rows of the executors a pass is for.
Pending(es) ==
    {[wf |-> w, queued |-> row[w].queued] :
        w \in {v \in Workflow : row[v].status = "PENDING" /\ row[v].executor \in es}}

\* launch: the recovery pass of a process that (re)starts.
Launch(e) ==
    /\ up[e] = "down"
    /\ up' = [up EXCEPT ![e] = "launching"]
    /\ todo' = [todo EXCEPT ![e] = Pending({e})]
    /\ UNCHANGED <<row, log, run, active, claimed, history, budget>>

Launched(e) ==
    /\ up[e] = "launching"
    /\ todo[e] = {} /\ ~Invoking(e, "recovery")
    /\ up' = [up EXCEPT ![e] = "up"]
    /\ UNCHANGED <<row, log, run, active, todo, claimed, history, budget>>

\* The recovery endpoint: a pass for executor ids somebody names.
RecoveryRequest(e, target) ==
    /\ budget.pass > 0
    /\ up[e] = "up"
    /\ todo[e] = {} /\ ~Invoking(e, "recovery")
    /\ todo' = [todo EXCEPT ![e] = Pending({target})]
    /\ budget' = [budget EXCEPT !.pass = @ - 1]
    /\ UNCHANGED <<row, log, run, active, up, claimed, history>>

\* One workflow of the pass that was on a queue when it was listed.
RecoverQueued(e) ==
    /\ ~Invoking(e, "recovery")
    /\ \E t \in todo[e] :
          /\ t.queued
          /\ row' = [row EXCEPT ![t.wf] = ClearQueueAssignment(@)]
          /\ todo' = [todo EXCEPT ![e] = @ \ {t}]
    /\ UNCHANGED <<log, run, active, up, claimed, history, budget>>

\* One workflow of the pass that was not: run it again.  The error of a
\* dead-lettered workflow ends the whole pass.
RecoverDirect(e) ==
    /\ ~Invoking(e, "recovery")
    /\ \E t \in todo[e] :
          /\ ~t.queued
          /\ \E r \in Run : Invoke(r, "recovery", e, t.wf)
          /\ todo' = [todo EXCEPT ![e] =
                        IF InsertFails(row[t.wf], "PENDING", e, TRUE) THEN {} ELSE @ \ {t}]
    /\ UNCHANGED <<log, active, up, claimed, history, budget>>

\* A process dies: what it kept in memory is gone.
Crash(e) ==
    /\ budget.crash > 0
    /\ up[e] # "down"
    /\ up' = [up EXCEPT ![e] = "down"]
    /\ run' = [r \in Run |-> IF run[r].exec = e THEN Free ELSE run[r]]
    /\ active' = [active EXCEPT ![e] = {}]
    /\ todo' = [todo EXCEPT ![e] = {}]
    /\ claimed' = [claimed EXCEPT ![e] = {}]
    /\ budget' = [budget EXCEPT !.crash = @ - 1]
    /\ UNCHANGED <<row, log, history>>

------------------------------------------------------------------------------
(* Management, from any process or client.                                 *)

Cancel(w) ==
    /\ budget.cancel > 0
    /\ row[w].status # "ABSENT"
    /\ row' = [row EXCEPT ![w] = CancelRow(@)]
    /\ budget' = [budget EXCEPT !.cancel = @ - 1]
    /\ UNCHANGED <<log, run, active, up, todo, claimed, history>>

Resume(w) ==
    /\ budget.resume > 0
    /\ row[w].status # "ABSENT"
    /\ row' = [row EXCEPT ![w] = ResumeRow(@)]
    /\ resumed' = [resumed EXCEPT ![w] = @ + IF row'[w].status = "ENQUEUED" THEN 1 ELSE 0]
    /\ budget' = [budget EXCEPT !.resume = @ - 1]
    /\ UNCHANGED <<log, run, active, up, todo, claimed, starts, effects>>

------------------------------------------------------------------------------
RunStep(r) ==
    \/ Decide(r) \/ Admit(r)
    \/ CheckStep(r) \/ Execute(r) \/ RecordStep(r)
    \/ WriteOutcome(r) \/ AwaitOutcome(r) \/ Leave(r)

ExecutorStep(e) ==
    \/ Claim(e) \/ Dispatch(e)
    \/ Launch(e) \/ Launched(e) \/ RecoverQueued(e) \/ RecoverDirect(e)

Environment ==
    \/ \E e \in Executor, w \in Workflow : Call(e, w) \/ Enqueue(e, w)
    \/ \E e, target \in Executor : RecoveryRequest(e, target)
    \/ \E e \in Executor : Crash(e)
    \/ \E w \in Workflow : Cancel(w) \/ Resume(w)

Next ==
    \/ \E r \in Run : RunStep(r)
    \/ \E e \in Executor : ExecutorStep(e)
    \/ Environment

Spec == Init /\ [][Next]_vars

\* Tasks are scheduled, polls repeat and crashed processes are restarted;
\* nobody has to call, cancel, resume or crash anything.
Fairness ==
    /\ \A r \in Run : WF_vars(RunStep(r))
    /\ \A e \in Executor :
          /\ WF_vars(Claim(e)) /\ WF_vars(Dispatch(e))
          /\ WF_vars(Launch(e)) /\ WF_vars(Launched(e))
          /\ WF_vars(RecoverQueued(e)) /\ WF_vars(RecoverDirect(e))

FairSpec == Spec /\ Fairness

------------------------------------------------------------------------------
(* Properties.                                                             *)

PC == {"free", "decide", "admit", "check", "exec", "record", "finish", "await", "leave"}

RunRecord == [pc : PC, kind : Kind, wf : Workflow \cup {None}, exec : Executor \cup {None},
              owner : {"self", "other"}, status : Status, step : 1..(NumSteps + 1), seen : Journal,
              val : StepResult \cup {None}, why : {"none", "ok", "stepError", "cancelled"}]

Budget == [crash : 0..MaxCrashes, cancel : 0..MaxCancels,
           resume : 0..MaxResumes, pass : 0..MaxPasses]

\* Every variable has its type; an invocation in progress has a workflow and
\* an executor, one at a step is at a step of the body.
TypeOK ==
    /\ row \in [Workflow -> Row]
    /\ log \in [Workflow -> Journal]
    /\ run \in [Run -> RunRecord]
    /\ \A r \in Run : run[r].pc # "free" => run[r].wf \in Workflow /\ run[r].exec \in Executor
    /\ \A r \in Run : run[r].pc \in {"decide", "admit", "check", "exec", "record"} => run[r].step \in Step
    /\ \A r \in Run : run[r].pc = "record" => run[r].val # None
    /\ active \in [Executor -> SUBSET Workflow]
    /\ up \in [Executor -> {"down", "launching", "up"}]
    /\ todo \in [Executor -> SUBSET [wf : Workflow, queued : BOOLEAN]]
    /\ claimed \in [Executor -> SUBSET Workflow]
    /\ starts \in [Workflow -> Nat]
    /\ resumed \in [Workflow -> Nat]
    /\ effects \in [Workflow -> [Step -> Nat]]
    /\ budget \in Budget

InBody(r) == run[r].pc \in {"check", "exec", "record", "finish", "await", "leave"}

\* Whatever result a body has used, for any step and in any process, is the
\* one the journal holds: concurrent and repeated executions of a workflow
\* all compute from the same step results (operation_outputs' primary key
\* and the ConflictingId path of the run core).
SeenIsRecorded ==
    \A r \in Run : \A k \in Step :
        run[r].pc # "free" /\ run[r].seen[k] # None => run[r].seen[k] = log[run[r].wf][k]

\* How far a body has come: values for the steps before the one it is at, and
\* the reason it finished (the strengthening SeenIsRecorded is proved with).
Progress(x) ==
    /\ x.pc \in {"decide", "admit"} => x.seen = Blank /\ x.step = 1
    /\ x.pc \in {"check", "exec", "record"} =>
          \A k \in Step : IF k < x.step THEN x.seen[k] \in Value ELSE x.seen[k] = None
    /\ x.pc = "finish" /\ x.why = "ok" => \A k \in Step : x.seen[k] \in Value
    /\ x.pc = "finish" /\ x.why = "stepError" => \E k \in Step : x.seen[k] = StepFailed
    /\ x.pc = "finish" => x.why # "none"
BodyProgress == \A r \in Run : Progress(run[r])

\* A workflow reported as SUCCESS went through all its steps and its output
\* was computed from exactly the results that are recorded.
SuccessMatchesJournal ==
    \A w \in Workflow : row[w].status = "SUCCESS" =>
        /\ row[w].outcome.why = "ok"
        /\ row[w].outcome.seen = log[w]
        /\ \A k \in Step : log[w][k] \in Value

\* A workflow reported as ERROR failed in a recorded step, so that running
\* it again would report the same (if nobody resumes: README, section 4).
ErrorMatchesJournal ==
    \A w \in Workflow : row[w].status = "ERROR" => \E k \in Step : log[w][k] = StepFailed

\* The journal has no gaps and nothing after a failed step, even when several
\* processes write it: a replay can always continue after a prefix.
JournalIsPrefix ==
    \A w \in Workflow : \A k \in Step : log[w][k] # None =>
        \A j \in 1..(k - 1) : log[w][j] \in Value

\* The inductive invariant behind the three journal properties.
JournalInv ==
    TypeOK /\ BodyProgress /\ SeenIsRecorded /\ JournalIsPrefix /\ SuccessMatchesJournal

\* A recorded result never changes, and nothing is recorded any more for a
\* workflow whose row says SUCCESS or ERROR, although other processes may
\* still be running its body.
JournalOnlyGrows ==
    [][\A w \in Workflow : \A k \in Step : log'[w][k] # log[w][k] =>
          log[w][k] = None /\ row[w].status \notin {"SUCCESS", "ERROR"}]_vars

\* SUCCESS and ERROR are final, output included: what a client has read once
\* it reads forever (if nobody resumes: README, section 4).
OutcomeIsFinal ==
    [][\A w \in Workflow : row[w].status \in {"SUCCESS", "ERROR"} =>
          row'[w].status = row[w].status /\ row'[w].outcome = row[w].outcome]_vars

\* A cancelled workflow is never reported as anything else until it is
\* resumed: not by a body that finishes late, a recovery pass or a dequeue.
CancelledUntilResumed ==
    [][\A w \in Workflow : row[w].status = "CANCELLED" /\ row'[w].status # "CANCELLED" =>
          resumed'[w] > resumed[w]]_vars

\* Dead-lettering: however often processes crash and whoever recovers the
\* workflow, its body starts at most MaxRetries + 1 times for each time
\* somebody (re)submits it.
StartsWithinBudget ==
    MaxRetries > 0 =>
        \A w \in Workflow : starts[w] <= (resumed[w] + 1) * (MaxRetries + 1)

\* Nobody has asked for a recovery pass or resumed anything yet.
Undisturbed == budget.pass = MaxPasses /\ budget.resume = MaxResumes

\* Unless somebody recovers a living executor's workflows or resumes: the closure
\* of a step runs once, plus at most once for every crash (attaching calls, the
\* runners and the launch passes never run it twice); and active_workflow_ids
\* keeps a process from running a workflow twice at a time, although the check
\* and the insert are separate steps.
NothingRunsTwice ==
    Undisturbed =>
        /\ \A w \in Workflow : \A k \in Step : effects[w][k] <= 1 + (MaxCrashes - budget.crash)
        /\ \A r, s \in Run : r # s /\ InBody(r) /\ InBody(s) =>
              run[r].wf # run[s].wf \/ run[r].exec # run[s].exec

\* A workflow that is waiting or running is eventually settled, across
\* crashes of the process that runs it.
Settles ==
    \A w \in Workflow : row[w].status \in {"PENDING", "ENQUEUED"} ~> row[w].status \in Settled

------------------------------------------------------------------------------
(* The abstract specification this module implements.                      *)

PhaseOf(r) == CASE r.status = "ABSENT" -> "absent"
                [] r.status \in {"PENDING", "ENQUEUED"} -> "open"
                [] r.status = "MAX_RECOVERY_ATTEMPTS_EXCEEDED" -> "parked"
                [] r.status = "CANCELLED" -> "cancelled"
                [] r.status = "SUCCESS" -> "success"
                [] r.status = "ERROR" -> "error"

Abstract == INSTANCE DurableExecution WITH
    phase <- [w \in Workflow |-> PhaseOf(row[w])],
    journal <- log,
    output <- [w \in Workflow |-> row[w].outcome.seen]

\* Without resumes every behaviour of the processes and the database is one
\* of the abstract specification: one growing journal, one final outcome.
ImplementsDurableExecution == Abstract!ASpec
==============================================================================
