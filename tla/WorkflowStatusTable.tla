------------------------- MODULE WorkflowStatusTable -------------------------
(***************************************************************************)
(* The rows of the workflow_status table and the SQL statements that write *)
(* them, as functions from the row a statement finds to the row it leaves. *)
(* Every statement runs in one database transaction, so a module that      *)
(* calls these operators gives each of them one atomic action.             *)
(*                                                                         *)
(* A row keeps the columns that decide who runs a workflow and how it      *)
(* ends: status, recovery_attempts, executor_id, queue_name (only whether  *)
(* it is NULL) and the outcome columns (output, error).                    *)
(***************************************************************************)
EXTENDS Naturals

CONSTANTS Executor,    \* the executor ids of the processes
          MaxRetries,  \* max_retries of the registered workflow; 0 is "no limit"
          NumSteps,    \* the number of steps of the workflow body
          Value,       \* what a step can return
          None,        \* SQL NULL, or "not there"
          StepFailed   \* the error a step can return

ASSUME TableAssumption ==
    /\ MaxRetries \in Nat
    /\ NumSteps \in Nat \ {0}
    /\ None \notin Value \cup {StepFailed} \cup Executor
    /\ StepFailed \notin Value

Step == 1..NumSteps

\* What a step can end with: step errors are recorded like results.
StepResult == Value \cup {StepFailed}

\* The results a body has seen, or a journal has recorded, step by step.
Journal == [Step -> StepResult \cup {None}]
Blank == [k \in Step |-> None]

Status == {"ABSENT", "PENDING", "ENQUEUED", "SUCCESS", "ERROR", "CANCELLED",
           "MAX_RECOVERY_ATTEMPTS_EXCEEDED"}

\* The outcome columns: why the row is settled and, for SUCCESS, the output
\* (the output of a body is a function of the step results it saw).
Outcome == [why : {"none", "ok", "stepError", "cancelled"}, seen : Journal]
NoOutcome == [why |-> "none", seen |-> Blank]

Row == [status : Status, attempts : Nat, executor : Executor \cup {None},
        queued : BOOLEAN, outcome : Outcome]
NoRow == [status |-> "ABSENT", attempts |-> 0, executor |-> None,
          queued |-> FALSE, outcome |-> NoOutcome]

------------------------------------------------------------------------------
(* insert_workflow_status: an upsert, then the dead-letter check.          *)

\* INSERT: an enqueued workflow has not run yet and starts at 0 attempts.
InsertedRow(status, e) ==
    [status |-> status, attempts |-> IF status = "ENQUEUED" THEN 0 ELSE 1,
     executor |-> e, queued |-> status = "ENQUEUED", outcome |-> NoOutcome]

\* ON CONFLICT DO UPDATE: an invocation that is not an enqueue takes the
\* executor_id over, and a recovery or a dequeue counts one more attempt,
\* whatever the status of the row.
ConflictRow(r, status, e, increment) ==
    IF status = "ENQUEUED" THEN r
    ELSE [r EXCEPT !.attempts = @ + IF increment THEN 1 ELSE 0, !.executor = e]

Upserted(r, status, e, increment) ==
    IF r.status = "ABSENT" THEN InsertedRow(status, e)
                           ELSE ConflictRow(r, status, e, increment)

\* (mutant) One attempt too many.
OverBudgetOffByOne(r) ==
    /\ r.status \notin {"SUCCESS", "ERROR"}
    /\ MaxRetries > 0
    /\ r.attempts > MaxRetries + 2

\* The attempts are used up: the insert returns a dead-letter error.
OverBudget(r) ==
    /\ r.status \notin {"SUCCESS", "ERROR"}
    /\ MaxRetries > 0
    /\ r.attempts > MaxRetries + 1

\* The parking UPDATE, which touches a PENDING row only.
Parked(r) ==
    IF r.status = "PENDING"
    THEN [r EXCEPT !.status = "MAX_RECOVERY_ATTEMPTS_EXCEEDED", !.queued = FALSE]
    ELSE r

\* The committed row, and whether the caller gets a dead-letter error.
InsertStatus(r, status, e, increment) ==
    LET u == Upserted(r, status, e, increment)
    IN  IF OverBudget(u) THEN Parked(u) ELSE u
InsertFails(r, status, e, increment) == OverBudget(Upserted(r, status, e, increment))

------------------------------------------------------------------------------
(* The other statements.                                                   *)

\* (mutant) CANCELLED may become SUCCESS or ERROR.
OutcomeRowUnguarded(r, outcome) ==
    IF r.status = "ABSENT" THEN r
    ELSE [r EXCEPT !.status = IF outcome.why = "ok" THEN "SUCCESS" ELSE "ERROR",
                   !.outcome = outcome]

\* update_workflow_outcome: only a CANCELLED row keeps its status; the
\* queue_name stays.
OutcomeRow(r, outcome) ==
    IF r.status \in {"ABSENT", "CANCELLED"} THEN r
    ELSE [r EXCEPT !.status = IF outcome.why = "ok" THEN "SUCCESS" ELSE "ERROR",
                   !.outcome = outcome]

\* (mutant) Leaves a claimed workflow PENDING.
ClearQueueAssignmentNothing(r) == r

\* clear_queue_assignment: back to the queue for the runner to dispatch.
ClearQueueAssignment(r) ==
    IF r.status = "PENDING" /\ r.queued
    THEN [r EXCEPT !.status = "ENQUEUED"] ELSE r

\* dequeue_workflows: the claim of one candidate by an executor.
ClaimRow(r, e) ==
    IF r.status = "ENQUEUED"
    THEN [r EXCEPT !.status = "PENDING", !.executor = e] ELSE r

\* cancel_workflow: the row leaves its queue; SUCCESS and ERROR are final.
CancelRow(r) ==
    IF r.status \in {"ABSENT", "SUCCESS", "ERROR", "CANCELLED"} THEN r
    ELSE [r EXCEPT !.status = "CANCELLED", !.queued = FALSE]

\* resume_workflow: anything but SUCCESS and ERROR goes to the internal
\* queue with a new attempt budget, a running workflow included.
ResumeRow(r) ==
    IF r.status \in {"ABSENT", "SUCCESS", "ERROR"} THEN r
    ELSE [r EXCEPT !.status = "ENQUEUED", !.queued = TRUE, !.attempts = 0]
==============================================================================
