-------------------------- MODULE DurableExecution --------------------------
(***************************************************************************)
(* What the library promises of a workflow that nobody resumes: it has one *)
(* journal of step results, which only grows and only while the workflow   *)
(* may still be running, and one final outcome, computed from the whole    *)
(* journal.  Nothing here knows of processes, crashes, attempts or queues. *)
(***************************************************************************)
EXTENDS Naturals

CONSTANTS Workflow, NumSteps, Value, StepFailed, None

VARIABLES phase,    \* where the workflow is in its life
          journal,  \* the recorded step results
          output    \* the step results the reported output was computed from

avars == <<phase, journal, output>>

Phase == {"absent", "open", "parked", "cancelled", "success", "error"}
Empty == [k \in 1..NumSteps |-> None]

AInit ==
    /\ phase = [w \in Workflow |-> "absent"]
    /\ journal = [w \in Workflow |-> Empty]
    /\ output = [w \in Workflow |-> Empty]

\* Somebody calls or enqueues the workflow.
Create(w) ==
    /\ phase[w] = "absent"
    /\ phase' = [phase EXCEPT ![w] = "open"]
    /\ UNCHANGED <<journal, output>>

\* The next step result, after a prefix of successful ones.
Append(w, k, v) ==
    /\ phase[w] \in {"open", "parked", "cancelled"}
    /\ journal[w][k] = None
    /\ \A j \in 1..(k - 1) : journal[w][j] \in Value
    /\ journal' = [journal EXCEPT ![w][k] = v]
    /\ UNCHANGED <<phase, output>>

\* All steps returned a value: the output is computed from them.
Succeed(w) ==
    /\ phase[w] \in {"open", "parked"}
    /\ \A k \in 1..NumSteps : journal[w][k] \in Value
    /\ phase' = [phase EXCEPT ![w] = "success"]
    /\ output' = [output EXCEPT ![w] = journal[w]]
    /\ UNCHANGED journal

\* A recorded step failed.
Fail(w) ==
    /\ phase[w] \in {"open", "parked"}
    /\ \E k \in 1..NumSteps : journal[w][k] = StepFailed
    /\ phase' = [phase EXCEPT ![w] = "error"]
    /\ UNCHANGED <<journal, output>>

\* Too many attempts.  A body may still be running and settle the workflow.
Park(w) ==
    /\ phase[w] = "open"
    /\ phase' = [phase EXCEPT ![w] = "parked"]
    /\ UNCHANGED <<journal, output>>

\* Cancelled for good: a body that finishes later does not change that.
CancelForGood(w) ==
    /\ phase[w] \in {"open", "parked"}
    /\ phase' = [phase EXCEPT ![w] = "cancelled"]
    /\ UNCHANGED <<journal, output>>

ANext ==
    \E w \in Workflow :
        \/ Create(w) \/ Succeed(w) \/ Fail(w) \/ Park(w) \/ CancelForGood(w)
        \/ \E k \in 1..NumSteps, v \in Value \cup {StepFailed} : Append(w, k, v)

ASpec == AInit /\ [][ANext]_avars
=============================================================================
