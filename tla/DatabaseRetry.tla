--------------------------- MODULE DatabaseRetry ---------------------------
(***************************************************************************)
(* One workflow on a Postgres that comes and goes.  Every statement goes   *)
(* through RetryingDb: it fails before the server has executed it, or its  *)
(* answer is lost after the server has committed, and in both cases it is  *)
(* sent again, with growing delays, until it is answered or the time for   *)
(* retries is over.  The server cannot tell the second sending from a      *)
(* statement of somebody else.  On top of that, steps retry their closure, *)
(* and the process crashes, shuts down and recovers the workflow.          *)
(*                                                                         *)
(* WorkflowExecution has attaching callers, several processes and cancels; *)
(* here every statement is answered or not, and a body is a sequence of    *)
(* statements and closures.                                                *)
(***************************************************************************)
EXTENDS Integers

CONSTANTS Steps,        \* the workflow's steps are 1..Steps
          Sends,        \* those whose closure is a send: a statement, without retries
          StepRetries,  \* StepOptions.max_retries
          MaxRetries,   \* max_retries of the workflow
          MinDelay, MaxDelay, MaxElapsed,  \* the backoff of RetryingDb
          None,
          Bounds        \* what may happen in one behaviour, and how often

Happenings == {"lost", "failed", "refused", "raised", "rejected", "crash", "shutdown"}

ASSUME RetryAssumption ==
    /\ Steps \in Nat \ {0} /\ Sends \subseteq 1..Steps
    /\ StepRetries \in Nat /\ MaxRetries \in Nat
    /\ MinDelay \in Nat \ {0} /\ MaxDelay \in Nat /\ MinDelay <= MaxDelay
    /\ MaxElapsed \in Nat
    /\ None \notin {"ok", "error", "conflict", "run", "transient", "fatal"}
    /\ Bounds \subseteq [Happenings -> Nat]

Step == 1..Steps
Op == {"list", "insert", "check", "send", "record", "outcome", "await"}
Terminal == {"SUCCESS", "ERROR", "DEAD"}

VARIABLES row,       \* workflow_status: its status and recovery_attempts
          journal,   \* operation_outputs: how each step has ended
          sent,      \* notifications: how many messages each send has delivered
          process,   \* "up", "draining" (its token is cancelled), "down"
          body,      \* where the workflow's body is, its step, the runs of the
                     \* step's closure, and how the closure or the body has ended
          call,      \* the statement in progress: its answer, the delay before it
                     \* is sent again, the time since it was sent first
          told,      \* history: what handles have returned
          launches,  \* history: recoveries
          resent,    \* history: statements that committed and were sent again
          gaveUp,    \* history: statements that have returned an error
          runs,      \* history: how often each closure was run
          happened   \* how often each of Happenings has happened

vars == <<row, journal, sent, process, body, call, told, launches, resent, gaveUp, runs, happened>>

Idle == [pc |-> "idle", step |-> 1, runs |-> 0, result |-> None, recovered |-> FALSE]
NoCall == [pc |-> "none", answer |-> None, delay |-> MinDelay, elapsed |-> 0]
\* A method of RetryingDb sends its statement and starts the clock.
NewCall == [NoCall EXCEPT !.pc = "sent"]

Init ==
    /\ row = [status |-> "ABSENT", attempts |-> 0]
    /\ journal = [k \in Step |-> None]
    /\ sent = [k \in Step |-> 0]
    /\ process = "up"
    /\ body = Idle /\ call = NoCall
    /\ told = {}
    /\ launches = 0
    /\ resent = [op \in Op |-> 0]
    /\ gaveUp = {}
    /\ runs = [k \in Step |-> 0]
    /\ happened = [h \in Happenings |-> 0]

\* One more of these, if one of the bounds allows it.
Happens(h) ==
    /\ happened' = [happened EXCEPT ![h] = @ + 1]
    /\ \E b \in Bounds : \A k \in Happenings : happened'[k] <= b[k]

------------------------------------------------------------------------------
(* The server.                                                             *)

\* (mutant) A workflow is parked at its last attempt instead of after it.
OverBudgetSoon(attempts) == MaxRetries > 0 /\ attempts >= MaxRetries + 1

OverBudget(attempts) == MaxRetries > 0 /\ attempts > MaxRetries + 1

\* insert_workflow_status: the row is new, or, for a recovery, counts an
\* attempt more and is parked when there are too many.
InsertedRow ==
    LET attempts == IF row.status = "ABSENT" THEN 1
                    ELSE IF body.recovered THEN row.attempts + 1 ELSE row.attempts
    IN  [status |-> IF row.status = "ABSENT" THEN "PENDING"
                    ELSE IF row.status = "PENDING" /\ OverBudget(attempts) THEN "DEAD"
                    ELSE row.status,
         attempts |-> attempts]

\* A body is started unless the row has its result, or the attempts are used up.
\* The owner_xid of a call that is sent again is the same.
InsertAnswer ==
    IF row.status \notin {"SUCCESS", "ERROR"} /\ OverBudget(InsertedRow.attempts) THEN "dead"
    ELSE IF row.status \in {"SUCCESS", "ERROR"} THEN "skip" ELSE "run"

\* What the server answers to the statement of the body, and what it commits.
\* Nothing is answered to a body that polls as long as there is no outcome.
Answer ==
    LET k == body.step
    IN  CASE body.pc = "list"    -> IF row.status = "PENDING" THEN "recover" ELSE "nothing"
          [] body.pc = "insert"  -> InsertAnswer
          [] body.pc = "check"   -> journal[k]
          [] body.pc = "send"    -> "ok"
          [] body.pc = "record"  -> IF journal[k] = None THEN "ok" ELSE "conflict"
          [] body.pc = "outcome" -> "ok"
          [] body.pc = "await"   -> row.status

Effect ==
    /\ row' = CASE body.pc = "insert"  -> InsertedRow
                [] body.pc = "outcome" -> [row EXCEPT !.status = IF body.result = "ok" THEN "SUCCESS" ELSE "ERROR"]
                [] OTHER               -> row
    /\ journal' = IF body.pc = "record" /\ journal[body.step] = None
                  THEN [journal EXCEPT ![body.step] = body.result] ELSE journal
    /\ sent' = IF body.pc = "send" THEN [sent EXCEPT ![body.step] = @ + 1] ELSE sent

Changes == <<row, journal, sent>>' # <<row, journal, sent>>
Answered(answer) == call' = [call EXCEPT !.pc = "answered", !.answer = answer]

\* A poll that finds no outcome sleeps and asks again, inside the same call.
PollAgain == body.pc = "await" /\ row.status \notin Terminal

Execute ==
    /\ call.pc = "sent" /\ ~PollAgain
    /\ Effect /\ Answered(Answer)
    /\ UNCHANGED <<process, body, told, launches, resent, gaveUp, runs, happened>>

\* The time for retries runs while the body polls.
Poll ==
    /\ call.pc = "sent" /\ PollAgain /\ call.elapsed < MaxElapsed
    /\ call' = [call EXCEPT !.elapsed = @ + 1]
    /\ UNCHANGED <<row, journal, sent, process, body, told, launches, resent, gaveUp, runs, happened>>

\* The server commits, but the connection is gone.
LoseAnswer ==
    /\ call.pc = "sent" /\ ~PollAgain
    /\ Effect /\ Answered("transient")
    /\ resent' = IF Changes THEN [resent EXCEPT ![body.pc] = @ + 1] ELSE resent
    /\ Happens("lost")
    /\ UNCHANGED <<process, body, told, launches, gaveUp, runs>>

\* The server is not there, or it answers with an error of another kind.
Fail ==
    /\ call.pc = "sent"
    /\ \/ Answered("transient") /\ Happens("failed")
       \/ Answered("fatal") /\ Happens("refused")
    /\ UNCHANGED <<row, journal, sent, process, body, told, launches, resent, gaveUp, runs>>

------------------------------------------------------------------------------
(* RetryingDb.                                                             *)

\* (mutant) The delays are not capped.
NextDelayUncapped(delay) == 2 * delay

NextDelay(delay) == IF 2 * delay > MaxDelay THEN MaxDelay ELSE 2 * delay

MayRetry == call.answer = "transient" /\ call.elapsed < MaxElapsed

Retry ==
    /\ call.pc = "answered" /\ MayRetry
    /\ call' = [pc |-> "sent", answer |-> None, delay |-> NextDelay(call.delay),
                elapsed |-> IF call.elapsed + call.delay > MaxElapsed THEN MaxElapsed
                            ELSE call.elapsed + call.delay]
    /\ UNCHANGED <<row, journal, sent, process, body, told, launches, resent, gaveUp, runs, happened>>

\* The method returns: the answer, or the last error.
Returns(op) == body.pc = op /\ call.pc = "answered" /\ ~MayRetry
Failed == call.answer \in {"transient", "fatal"}

------------------------------------------------------------------------------
(* The body: what it does with an answer, and what it asks next.           *)

\* b is where the body goes; if it asks something there, the call begins.
Goto(b) ==
    /\ body' = b
    /\ call' = IF b.pc \in Op THEN NewCall ELSE NoCall
    /\ gaveUp' = IF Failed THEN gaveUp \cup {body.pc} ELSE gaveUp

To(pc) == [body EXCEPT !.pc = pc]
Ended(result) == [body EXCEPT !.pc = "outcome", !.result = result]
NextStep == IF body.step = Steps THEN Ended("ok")
            ELSE [body EXCEPT !.pc = "check", !.step = @ + 1, !.runs = 0, !.result = None]
Closure == To(IF body.step \in Sends THEN "send" ELSE "closure")
DoneWith(result) == [body EXCEPT !.pc = "record", !.result = result]

\* run_workflow of the application
Submit ==
    /\ process = "up" /\ body.pc = "idle" /\ row.status = "ABSENT"
    /\ launches = 0 /\ "insert" \notin gaveUp
    /\ body' = To("insert") /\ call' = NewCall
    /\ UNCHANGED <<row, journal, sent, process, told, launches, resent, gaveUp, runs, happened>>

\* The recovery pass has its list.
Listed ==
    /\ Returns("list")
    /\ IF call.answer = "recover" THEN Goto([To("insert") EXCEPT !.recovered = TRUE]) ELSE Goto(Idle)
    /\ UNCHANGED <<row, journal, sent, process, told, launches, resent, runs, happened>>

Inserted ==
    /\ Returns("insert")
    /\ Goto(IF call.answer = "run" THEN To("check") ELSE Idle)
    /\ UNCHANGED <<row, journal, sent, process, told, launches, resent, runs, happened>>

\* check_step: a recorded step is replayed.
Checked ==
    /\ Returns("check")
    /\ Goto(IF call.answer = None THEN Closure
            ELSE IF call.answer = "ok" THEN NextStep ELSE Ended("error"))
    /\ UNCHANGED <<row, journal, sent, process, told, launches, resent, runs, happened>>

\* The closure of a send has returned.
Sent ==
    /\ Returns("send")
    /\ Goto(DoneWith(IF Failed THEN "error" ELSE "ok"))
    /\ UNCHANGED <<row, journal, sent, process, told, launches, resent, runs, happened>>

\* The closure succeeds; or it fails and is run again after a while, until the
\* retries are used up or the predicate is against it.
RunClosure ==
    /\ body.pc = "closure"
    /\ runs' = [runs EXCEPT ![body.step] = @ + 1]
    /\ \/ body' = DoneWith("ok") /\ call' = NewCall /\ UNCHANGED happened
       \/ Happens("rejected") /\ body' = DoneWith("error") /\ call' = NewCall
       \/ /\ Happens("raised")
          /\ IF body.runs < StepRetries
             THEN body' = [To("backoff") EXCEPT !.runs = @ + 1] /\ UNCHANGED call
             ELSE body' = DoneWith("error") /\ call' = NewCall
    /\ UNCHANGED <<row, journal, sent, process, told, launches, resent, gaveUp>>

\* The delay is over; a process that shuts down does not wait for it, and
\* the step has failed.
Wake ==
    /\ body.pc = "backoff"
    /\ IF process = "draining" THEN body' = DoneWith("error") /\ call' = NewCall
       ELSE body' = To("closure") /\ UNCHANGED call
    /\ UNCHANGED <<row, journal, sent, process, told, launches, resent, gaveUp, runs, happened>>

\* (mutant) A step whose record has failed goes on as if it was recorded.
AfterRecordIgnored ==
    IF call.answer = "conflict" THEN To("await")
    ELSE IF body.result = "ok" THEN NextStep ELSE Ended("error")

\* record_step: after a conflict the body waits for whoever has recorded the
\* step; another error, of the record or of the closure, ends it.
AfterRecord ==
    IF call.answer = "conflict" THEN To("await")
    ELSE IF ~Failed /\ body.result = "ok" THEN NextStep ELSE Ended("error")

Recorded ==
    /\ Returns("record")
    /\ Goto(AfterRecord)
    /\ UNCHANGED <<row, journal, sent, process, told, launches, resent, runs, happened>>

\* Whatever has become of the outcome's update, the handle returns it.
Concluded ==
    /\ Returns("outcome")
    /\ told' = told \cup {body.result}
    /\ Goto(Idle)
    /\ UNCHANGED <<row, journal, sent, process, launches, resent, runs, happened>>

AwaitedOutcome ==
    /\ Returns("await")
    /\ told' = told \cup {IF call.answer = "SUCCESS" THEN "ok" ELSE "error"}
    /\ Goto(Idle)
    /\ UNCHANGED <<row, journal, sent, process, launches, resent, runs, happened>>

------------------------------------------------------------------------------
(* The process.                                                            *)

\* shutdown cancels the token and waits a while for the bodies.
Shutdown ==
    /\ process = "up" /\ Happens("shutdown")
    /\ process' = "draining"
    /\ UNCHANGED <<row, journal, sent, body, call, told, launches, resent, gaveUp, runs>>

Stopped == process' = "down" /\ body' = Idle /\ call' = NoCall

Exit ==
    /\ process = "draining" /\ Stopped
    /\ UNCHANGED <<row, journal, sent, told, launches, resent, gaveUp, runs, happened>>

Crash ==
    /\ process # "down" /\ Happens("crash") /\ Stopped
    /\ UNCHANGED <<row, journal, sent, told, launches, resent, gaveUp, runs>>

\* (mutant) A launch recovers nothing.
LaunchOnly ==
    /\ process = "down" /\ process' = "up"
    /\ launches' = launches + 1
    /\ UNCHANGED <<row, journal, sent, body, call, told, resent, gaveUp, runs, happened>>

\* launch: the recovery pass lists the pending workflows.
Launch ==
    /\ process = "down" /\ process' = "up"
    /\ launches' = launches + 1
    /\ body' = To("list") /\ call' = NewCall
    /\ UNCHANGED <<row, journal, sent, told, resent, gaveUp, runs, happened>>

------------------------------------------------------------------------------
Statement == Execute \/ Poll \/ Retry
BodyStep == \/ Listed \/ Inserted \/ Checked \/ Sent \/ Recorded \/ Concluded \/ AwaitedOutcome
            \/ RunClosure \/ Wake
Environment == Submit \/ LoseAnswer \/ Fail \/ Shutdown \/ Crash

Next == Statement \/ BodyStep \/ Exit \/ Launch \/ Environment

Spec == Init /\ [][Next]_vars

\* The database answers now and then, the body goes on, a process that is to
\* stop does, and one that has stopped is started again.
Fairness == WF_vars(Statement) /\ WF_vars(BodyStep) /\ WF_vars(Exit) /\ WF_vars(Launch)

FairSpec == Spec /\ Fairness

------------------------------------------------------------------------------
(* Properties.                                                             *)

\* Types, and what goes with them: a call is in progress exactly where the body
\* asks something; a body only where there is a process.
TypeOK ==
    /\ row \in [status : {"ABSENT", "PENDING"} \cup Terminal, attempts : Nat]
    /\ journal \in [Step -> {None, "ok", "error"}]
    /\ process \in {"up", "draining", "down"}
    /\ body \in [pc : {"idle", "closure", "backoff"} \cup Op, step : Step, runs : 0..StepRetries,
                 result : {None, "ok", "error"}, recovered : BOOLEAN]
    /\ call \in [pc : {"none", "sent", "answered"}, delay : MinDelay..MaxDelay, elapsed : 0..MaxElapsed,
                 answer : {None, "ok", "error", "transient", "fatal", "dead", "run", "skip", "recover",
                           "nothing", "conflict"} \cup Terminal]
    /\ told \subseteq {"ok", "error"} /\ gaveUp \subseteq Op
    /\ sent \in [Step -> Nat] /\ runs \in [Step -> Nat] /\ resent \in [Op -> Nat] /\ launches \in Nat
    /\ (body.pc \in Op) <=> (call.pc # "none")
    /\ process = "down" => body.pc = "idle"

\* What handles have returned and what is recorded is earned and kept, although
\* the body ignores whether its outcome was written: a success once told is
\* recorded step by step, so that a recovery ends differently only when it cannot
\* read a step (an ERROR after a success was told); a workflow fails because a step has failed or a statement has given up; and a
\* step fails because its closure has used up its retries, was rejected by the
\* predicate, was a send that has given up, or waited when the process shut down.
AnswersAreTrue ==
    /\ "ok" \in told => /\ \A k \in Step : journal[k] = "ok"
                        /\ row.status = "ERROR" => "check" \in gaveUp
    /\ row.status = "SUCCESS" => \A k \in Step : journal[k] = "ok"
    /\ row.status = "ERROR" => gaveUp # {} \/ \E k \in Step : journal[k] = "error"
    /\ \A k \in Step : journal[k] = "error" =>
          \/ runs[k] > StepRetries \/ happened["rejected"] > 0 \/ happened["shutdown"] > 0
          \/ k \in Sends /\ "send" \in gaveUp

\* What happens more than once has a cause: a message is delivered once more for
\* every life of the process that ended between the send and its record and for
\* every answer that was lost; an attempt is counted once for every recovery
\* and every answer to an insert that was lost, and only those park a workflow.
RepeatsExplained ==
    /\ \A k \in Step : sent[k] <= 1 + launches + resent["send"]
    /\ row.attempts <= 1 + launches + resent["insert"]
    /\ row.status = "DEAD" => launches + resent["insert"] > MaxRetries

\* A workflow that was inserted ends, through outages, lost answers, crashes and
\* shutdowns.  But two of them leave it pending until the process is started
\* again: a statement that has given up, and a record whose answer was lost; it
\* is refused when it is sent again, and the body waits for its own outcome.
Ends ==
    <>[](\/ row.status \in Terminal \cup {"ABSENT"}
         \/ body.pc = "idle" /\ gaveUp # {}
         \/ body.pc = "await" /\ resent["record"] > 0)

\* README.md:212: "Postgres connections automatically retry transient database
\* failures, so workflows survive a database restart."
SurvivesRestart == <>[](row.status \in Terminal \cup {"ABSENT"} \/ gaveUp # {})
=============================================================================
