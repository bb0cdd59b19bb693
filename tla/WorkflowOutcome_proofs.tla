------------------------ MODULE WorkflowOutcome_proofs ------------------------
(***************************************************************************)
(* The outcome theorems of WorkflowExecution: a cancelled workflow stays   *)
(* cancelled until somebody resumes it; and where nobody resumes anything, *)
(* outcomes are final, errors are those of recorded steps and the          *)
(* processes together implement DurableExecution.                          *)
(***************************************************************************)
EXTENDS WorkflowExecution_proofs

USE TableAssumption DEF TableAssumption

------------------------------------------------------------------------------
(* What statements do to a row.                                            *)

\* What a statement may make of a row that is neither update_workflow_outcome
\* nor resume_workflow.
Quiet(r, s) ==
    /\ r.status = "ABSENT" => s.status \in {"ABSENT", "PENDING", "ENQUEUED"}
    /\ r.status \in {"PENDING", "ENQUEUED"} =>
          s.status \in {"PENDING", "ENQUEUED", "CANCELLED", "MAX_RECOVERY_ATTEMPTS_EXCEEDED"}
    /\ r.status = "MAX_RECOVERY_ATTEMPTS_EXCEEDED" =>
          s.status \in {"MAX_RECOVERY_ATTEMPTS_EXCEEDED", "CANCELLED"}
    /\ r.status \in {"SUCCESS", "ERROR", "CANCELLED"} => s.status = r.status
    /\ r.status # "ABSENT" => s.outcome = r.outcome
    /\ r.status = "ABSENT" /\ s.status # "ABSENT" => s.outcome = NoOutcome
    /\ r.status = "ABSENT" /\ s.status = "ABSENT" => s = r

\* The insert, claims, recovery and cancellation are such statements.
LEMMA QuietStatements ==
    ASSUME NEW r \in Row, NEW e \in Executor, NEW inc \in BOOLEAN,
           NEW st \in {"PENDING", "ENQUEUED"}
    PROVE  /\ Quiet(r, InsertStatus(r, st, e, inc))
           /\ Quiet(r, ClearQueueAssignment(r))
           /\ Quiet(r, ClaimRow(r, e))
           /\ Quiet(r, CancelRow(r))
<1>1. Quiet(r, InsertStatus(r, st, e, inc))
  <2> DEFINE u == Upserted(r, st, e, inc)
  <2>0. u \in Row
    BY UpsertedType
  <2>1. CASE r.status = "ABSENT"
    <3>1. u = InsertedRow(st, e)
      BY <2>1 DEF Upserted
    <3>2. u.status = st /\ u.attempts \in {0, 1} /\ u.outcome = NoOutcome
      BY <3>1 DEF InsertedRow
    <3>3. ~OverBudget(u)
      <4> HIDE DEF u
      <4> QED
        BY <3>2 DEF OverBudget
    <3> HIDE DEF u
    <3> QED
      BY <2>1, <3>2, <3>3 DEF u, InsertStatus, Quiet
  <2>2. CASE r.status # "ABSENT"
    <3>1. u.status = r.status /\ u.outcome = r.outcome
      BY <2>2 DEF Upserted, ConflictRow, Row
    <3>2. InsertStatus(r, st, e, inc) \in {u, Parked(u)}
      BY DEF InsertStatus
    <3> HIDE DEF u
    <3>3. /\ Parked(u).outcome = u.outcome
          /\ Parked(u).status = IF u.status = "PENDING" THEN "MAX_RECOVERY_ATTEMPTS_EXCEEDED"
                                                        ELSE u.status
      BY <2>0 DEF Parked, Row
    <3> QED
      BY <2>2, <3>1, <3>2, <3>3 DEF Quiet, Row, Status
  <2> QED
    BY <2>1, <2>2
<1>2. Quiet(r, ClearQueueAssignment(r)) /\ Quiet(r, ClaimRow(r, e))
  BY DEF Quiet, ClearQueueAssignment, ClaimRow, Row
<1>3. Quiet(r, CancelRow(r))
  BY DEF Quiet, CancelRow, Row
<1> QED
  BY <1>1, <1>2, <1>3

\* A row no statement touches.
LEMMA QuietSame == ASSUME NEW r \in Row PROVE Quiet(r, r)
  BY DEF Quiet, Row, Status

\* At most one workflow gets into another phase of its life.
OnePhase ==
    \A u, v \in Workflow :
        PhaseOf(row'[u]) # PhaseOf(row[u]) /\ PhaseOf(row'[v]) # PhaseOf(row[v]) => u = v

\* Steps that write neither the journal nor an outcome, and resume nothing.
QuietStep ==
    /\ log' = log
    /\ \A w \in Workflow : Quiet(row[w], row'[w])
    /\ OnePhase

\* One row that a quiet statement changes.
LEMMA QuietRow ==
    ASSUME TypeOK, NEW w \in Workflow, NEW x, Quiet(row[w], x), log' = log,
           row' = [row EXCEPT ![w] = x]
    PROVE  QuietStep
<1>1. \A u \in Workflow : row'[u] = IF u = w THEN x ELSE row[u]
  BY DEF TypeOK
<1>2. \A u \in Workflow : Quiet(row[u], row'[u])
  BY <1>1, QuietSame DEF TypeOK
<1>3. OnePhase
  BY <1>1 DEF OnePhase
<1> QED
  BY <1>2, <1>3 DEF QuietStep

\* No row changes.
LEMMA QuietTable ==
    ASSUME TypeOK, row' = row, log' = log
    PROVE  QuietStep
  BY QuietSame DEF QuietStep, OnePhase, TypeOK

\* The insert of an invocation.
LEMMA QuietInvoke ==
    ASSUME TypeOK, NEW r \in Run, NEW kind \in Kind, NEW e \in Executor, NEW w \in Workflow,
           Invoke(r, kind, e, w), log' = log
    PROVE  QuietStep
<1> DEFINE after == InsertStatus(row[w], "PENDING", e, kind # "call")
<1>1. row' = [row EXCEPT ![w] = after]
  BY DEF Invoke
<1>2. Quiet(row[w], after)
  <2>1. (kind # "call") \in BOOLEAN /\ row[w] \in Row
    BY DEF TypeOK
  <2> QED
    BY <2>1, QuietStatements
<1> HIDE DEF after
<1> QED
  BY <1>1, <1>2, QuietRow

\* Every step is quiet, or records a result, an outcome or a resume.
LEMMA QuietSteps ==
    ASSUME TypeOK, [Next]_vars,
           \A r \in Run : ~RecordStep(r) /\ ~WriteOutcome(r),
           \A w \in Workflow : ~Resume(w)
    PROVE  QuietStep
<1>0. /\ row \in [Workflow -> Row]
      /\ claimed \in [Executor -> SUBSET Workflow]
      /\ todo \in [Executor -> SUBSET [wf : Workflow, queued : BOOLEAN]]
  BY DEF TypeOK
<1>1. CASE UNCHANGED vars
  BY <1>1, QuietTable DEF vars
<1>2. ASSUME NEW r \in Run, RunStep(r) PROVE QuietStep
  <2>1. row' = row /\ log' = log
    BY <1>2 DEF RunStep, Decide, Admit, CheckStep, Execute, AwaitOutcome, Leave
  <2> QED
    BY <2>1, QuietTable
<1>3. ASSUME NEW e \in Executor, ExecutorStep(e) PROVE QuietStep
  <2>0. log' = log
    BY <1>3 DEF ExecutorStep, Claim, Dispatch, Launch, Launched, RecoverQueued, RecoverDirect
  <2>1. CASE Claim(e)
    <3>1. \A w \in Workflow : row[w] \in Row /\ row'[w] = ClaimRow(row[w], e)
      BY <1>0, <2>1 DEF Claim
    <3>2. \A w \in Workflow : PhaseOf(row'[w]) = PhaseOf(row[w])
      <4> SUFFICES ASSUME NEW w \in Workflow PROVE PhaseOf(row'[w]) = PhaseOf(row[w])
        OBVIOUS
      <4>1. CASE row[w].status # "ENQUEUED"
        BY <3>1, <4>1 DEF ClaimRow
      <4>2. CASE row[w].status = "ENQUEUED"
        <5>1. row'[w].status = "PENDING"
          BY <3>1, <4>2 DEF ClaimRow, Row
        <5> QED
          BY <4>2, <5>1 DEF PhaseOf
      <4> QED
        BY <4>1, <4>2
    <3> QED
      BY <2>0, <3>1, <3>2, QuietStatements DEF QuietStep, OnePhase
  <2>2. CASE Dispatch(e)
    <3>1. PICK w \in claimed[e], r \in Run : Invoke(r, "dequeue", e, w)
      BY <2>2 DEF Dispatch
    <3>2. w \in Workflow /\ "dequeue" \in Kind
      BY <1>0 DEF Kind
    <3> QED
      BY <2>0, <3>1, <3>2, QuietInvoke
  <2>3. CASE Launch(e) \/ Launched(e)
    <3>1. row' = row
      BY <2>3 DEF Launch, Launched
    <3> QED
      BY <2>0, <3>1, QuietTable
  <2>4. CASE RecoverQueued(e)
    <3>1. PICK t \in todo[e] : row' = [row EXCEPT ![t.wf] = ClearQueueAssignment(row[t.wf])]
      BY <2>4 DEF RecoverQueued
    <3>2. t.wf \in Workflow /\ row[t.wf] \in Row
      BY <1>0
    <3>3. Quiet(row[t.wf], ClearQueueAssignment(row[t.wf]))
      BY <3>2 DEF Quiet, ClearQueueAssignment, Row
    <3> QED
      BY <2>0, <3>1, <3>2, <3>3, QuietRow
  <2>5. CASE RecoverDirect(e)
    <3>1. PICK t \in todo[e], r \in Run : Invoke(r, "recovery", e, t.wf)
      BY <2>5 DEF RecoverDirect
    <3>2. t.wf \in Workflow /\ "recovery" \in Kind
      BY <1>0 DEF Kind
    <3> QED
      BY <2>0, <3>1, <3>2, QuietInvoke
  <2> QED
    BY <1>3, <2>1, <2>2, <2>3, <2>4, <2>5 DEF ExecutorStep
<1>4. CASE Environment
  <2>0. log' = log
    BY <1>4 DEF Environment, Call, Enqueue, RecoveryRequest, Crash, Cancel, Resume
  <2>1. ASSUME NEW e \in Executor, NEW w \in Workflow, Call(e, w) PROVE QuietStep
    <3>1. PICK r \in Run : Invoke(r, "call", e, w)
      BY <2>1 DEF Call
    <3>2. "call" \in Kind
      BY DEF Kind
    <3> QED
      BY <2>0, <3>1, <3>2, QuietInvoke
  <2>2. ASSUME NEW e \in Executor, NEW w \in Workflow, Enqueue(e, w) PROVE QuietStep
    <3>1. row[w] \in Row /\ FALSE \in BOOLEAN /\ "ENQUEUED" \in {"PENDING", "ENQUEUED"}
      BY <1>0
    <3>2. Quiet(row[w], InsertStatus(row[w], "ENQUEUED", e, FALSE))
      BY <3>1, QuietStatements
    <3>3. row' = [row EXCEPT ![w] = InsertStatus(row[w], "ENQUEUED", e, FALSE)]
      BY <2>2 DEF Enqueue
    <3> QED
      BY <2>0, <3>2, <3>3, QuietRow
  <2>3. ASSUME NEW e \in Executor, NEW t \in Executor, RecoveryRequest(e, t) \/ Crash(e)
        PROVE  QuietStep
    <3>1. row' = row
      BY <2>3 DEF RecoveryRequest, Crash
    <3> QED
      BY <2>0, <3>1, QuietTable
  <2>4. ASSUME NEW w \in Workflow, Cancel(w) PROVE QuietStep
    <3>1. Quiet(row[w], CancelRow(row[w]))
      BY <1>0 DEF Quiet, CancelRow, Row
    <3>2. row' = [row EXCEPT ![w] = CancelRow(row[w])]
      BY <2>4 DEF Cancel
    <3> QED
      BY <2>0, <3>1, <3>2, QuietRow
  <2> QED
    BY <1>4, <2>1, <2>2, <2>3, <2>4 DEF Environment
<1> QED
  BY <1>1, <1>2, <1>3, <1>4 DEF Next

------------------------------------------------------------------------------
\* A cancelled workflow stays cancelled until it is resumed, whoever finishes,
\* recovers, dequeues or inserts it.
THEOREM CancelIsFinal == Spec => CancelledUntilResumed
<1> DEFINE Kept == \A w \in Workflow : row[w].status = "CANCELLED" /\ row'[w].status # "CANCELLED" =>
                       resumed'[w] > resumed[w]
<1>1. TypeOK /\ [Next]_vars => Kept
  <2> SUFFICES ASSUME TypeOK, [Next]_vars PROVE Kept
    OBVIOUS
  <2>1. CASE QuietStep
    BY <2>1 DEF QuietStep, Quiet
  <2>2. ASSUME NEW r \in Run, RecordStep(r) PROVE Kept
    BY <2>2 DEF RecordStep
  <2>3. ASSUME NEW r \in Run, WriteOutcome(r) PROVE Kept
    <3> SUFFICES ASSUME NEW w \in Workflow, row[w].status = "CANCELLED"
                 PROVE  row'[w] = row[w]
      OBVIOUS
    <3>1. PICK o : row' = [row EXCEPT ![run[r].wf] = OutcomeRow(row[run[r].wf], o)]
      BY <2>3 DEF WriteOutcome
    <3> QED
      BY <3>1 DEF TypeOK, OutcomeRow
  <2>4. ASSUME NEW v \in Workflow, Resume(v) PROVE Kept
    <3> SUFFICES ASSUME NEW w \in Workflow, row[w].status = "CANCELLED", row'[w].status # "CANCELLED"
                 PROVE  resumed'[w] > resumed[w]
      OBVIOUS
    <3>1. row' = [row EXCEPT ![v] = ResumeRow(row[v])]
      BY <2>4 DEF Resume
    <3>2. w = v
      BY <3>1 DEF TypeOK
    <3>3. row'[v].status = "ENQUEUED"
      BY <3>1, <3>2 DEF TypeOK, ResumeRow, Row
    <3>4. resumed' = [resumed EXCEPT ![v] = @ + 1]
      BY <2>4, <3>3 DEF Resume
    <3> QED
      BY <3>2, <3>4 DEF TypeOK
  <2> QED
    BY <2>1, <2>2, <2>3, <2>4, QuietSteps
<1>2. TypeOK /\ [Next]_vars => [Kept]_vars
  BY <1>1
<1> HIDE DEF Kept
<1>3. Spec => [][Kept]_vars
  BY <1>2, Typing, PTL DEF Spec
<1> QED
  BY <1>3 DEF Kept, CancelledUntilResumed

\* Whatever is resumed: the record of a step is never changed, and nothing is
\* recorded any more for a workflow whose row says SUCCESS.
RecordedForGood ==
    [][\A w \in Workflow : \A k \in Step : log'[w][k] # log[w][k] =>
          log[w][k] = None /\ row[w].status # "SUCCESS"]_vars

\* What a client or a replay has once read of a journal stays there, even when
\* bodies of before and after a resume write it together: JournalOnlyGrows
\* without its premise, but for the workflows that were reported as ERROR.
THEOREM ResultsStay == Spec => RecordedForGood
<1> DEFINE Kept == \A w \in Workflow : \A k \in Step : log'[w][k] # log[w][k] =>
                       log[w][k] = None /\ row[w].status # "SUCCESS"
<1>1. JournalInv /\ [Next]_vars => Kept
  <2> SUFFICES ASSUME JournalInv, [Next]_vars PROVE Kept
    OBVIOUS
  <2>0. TypeOK
    BY DEF JournalInv
  <2>1. CASE QuietStep
    BY <2>1 DEF QuietStep
  <2>2. ASSUME NEW r \in Run, RecordStep(r), log' # log PROVE Kept
    <3> DEFINE u == run[r].wf  j == run[r].step  v == run[r].val
    <3>1. /\ u \in Workflow /\ j \in Step /\ log[u][j] = None
          /\ log' = [log EXCEPT ![u][j] = v]
      BY <2>0, <2>2, TypeParts DEF RunsOK, GoodRun, RunRecord, RecordStep
    <3>2. log \in [Workflow -> Journal]
      BY <2>0 DEF TypeOK
    <3>3. row[u].status # "SUCCESS"
      BY <3>1 DEF JournalInv, SuccessMatchesJournal
    <3> HIDE DEF u, j, v
    <3>4. ASSUME NEW w \in Workflow, NEW k \in Step, log'[w][k] # log[w][k] PROVE w = u /\ k = j
      BY <3>1, <3>2, <3>4 DEF Journal
    <3> QED
      BY <3>1, <3>3, <3>4
  <2>3. ASSUME log' = log PROVE Kept
    BY <2>3
  <2>4. ASSUME NEW r \in Run, WriteOutcome(r) PROVE log' = log
    BY <2>4 DEF WriteOutcome
  <2>5. ASSUME NEW v \in Workflow, Resume(v) PROVE log' = log
    BY <2>5 DEF Resume
  <2> QED
    BY <2>0, <2>1, <2>2, <2>3, <2>4, <2>5, QuietSteps
<1>2. JournalInv /\ [Next]_vars => [Kept]_vars
  BY <1>1
<1> HIDE DEF Kept
<1>3. Spec => [][Kept]_vars
  BY <1>2, JournalInvariance, PTL DEF Spec
<1> QED
  BY <1>3 DEF Kept, RecordedForGood

------------------------------------------------------------------------------
(* What holds of the outcomes while nobody resumes.                        *)

\* An invocation in progress has a row, and a body that ends because it was
\* cancelled finds its row CANCELLED.
Anchored(x, table) ==
    x.pc # "free" =>
        /\ table[x.wf].status # "ABSENT"
        /\ x.pc = "finish" /\ x.why = "cancelled" => table[x.wf].status = "CANCELLED"
Anchors == \A r \in Run : Anchored(run[r], row)

\* The outcome columns of a row say what its status says.
OutcomesMatch ==
    \A w \in Workflow :
        /\ row[w].status = "ERROR" => row[w].outcome = [why |-> "stepError", seen |-> Blank]
        /\ row[w].status \notin {"SUCCESS", "ERROR"} => row[w].outcome = NoOutcome

OutcomeInv == budget.resume = 0 /\ Anchors /\ ErrorMatchesJournal /\ OutcomesMatch

\* A row that exists keeps existing, and a CANCELLED one stays so, by quiet
\* statements; runs that stay with their workflow stay anchored.
LEMMA QuietAnchors ==
    ASSUME QuietStep, Anchors, TypeOK,
           \A r \in Run : run'[r] = run[r] \/ Anchored(run'[r], row')
    PROVE  Anchors'
<1> SUFFICES ASSUME NEW r \in Run, run'[r] = run[r] PROVE Anchored(run'[r], row')
  BY DEF Anchors
<1>1. CASE run[r].pc = "free"
  BY <1>1 DEF Anchored
<1>2. CASE run[r].pc # "free"
  <2> DEFINE w == run[r].wf
  <2>1. w \in Workflow /\ row[w].status \in Status
    BY <1>2 DEF TypeOK, Row
  <2>2. Quiet(row[w], row'[w])
    BY <2>1 DEF QuietStep
  <2>3. Anchored(run[r], row)
    BY DEF Anchors
  <2>4. row[w].status # "ABSENT" => row'[w].status # "ABSENT"
    BY <2>1, <2>2 DEF Quiet, Status
  <2>5. row[w].status = "CANCELLED" => row'[w].status = "CANCELLED"
    BY <2>2 DEF Quiet
  <2> QED
    BY <2>3, <2>4, <2>5 DEF Anchored
<1> QED
  BY <1>1, <1>2

\* Quiet statements keep what the outcome columns say.
LEMMA QuietOutcomes ==
    ASSUME TypeOK, QuietStep, ErrorMatchesJournal, OutcomesMatch
    PROVE  ErrorMatchesJournal' /\ OutcomesMatch'
<1>1. \A w \in Workflow : Quiet(row[w], row'[w]) /\ log' = log
  BY DEF QuietStep
<1>2. ErrorMatchesJournal'
  <2> SUFFICES ASSUME NEW w \in Workflow, row'[w].status = "ERROR"
               PROVE  \E k \in Step : log[w][k] = StepFailed
    BY <1>1 DEF ErrorMatchesJournal
  <2>1. row[w].status \in Status
    BY DEF TypeOK, Row
  <2>2. row[w].status = "ERROR"
    BY <1>1, <2>1 DEF Quiet, Status
  <2> QED
    BY <2>2 DEF ErrorMatchesJournal
<1>3. OutcomesMatch'
  <2> SUFFICES ASSUME NEW w \in Workflow
               PROVE  /\ row'[w].status = "ERROR" =>
                            row'[w].outcome = [why |-> "stepError", seen |-> Blank]
                      /\ row'[w].status \notin {"SUCCESS", "ERROR"} => row'[w].outcome = NoOutcome
    BY DEF OutcomesMatch
  <2>1. /\ row[w].status \in Status
        /\ row[w].status = "ERROR" => row[w].outcome = [why |-> "stepError", seen |-> Blank]
        /\ row[w].status \notin {"SUCCESS", "ERROR"} => row[w].outcome = NoOutcome
    BY DEF TypeOK, Row, OutcomesMatch
  <2> DEFINE failed == [why |-> "stepError", seen |-> Blank]
  <2> HIDE DEF failed
  <2> QED
    BY <1>1, <2>1 DEF failed, Quiet, Status
<1> QED
  BY <1>2, <1>3

\* One run of the table changes.
LEMMA OneAnchor ==
    ASSUME TypeOK, Anchors, row' = row, NEW r \in Run, NEW y, run' = [run EXCEPT ![r] = y],
           Anchored(y, row)
    PROVE  Anchors'
<1>1. \A q \in Run : run'[q] = IF q = r THEN y ELSE run[q]
  BY DEF TypeOK
<1> QED
  BY <1>1 DEF Anchors

\* A body that goes on stays anchored: Advance never says "cancelled", and a
\* check does so only when it reads CANCELLED.
LEMMA BodyAnchored ==
    ASSUME NEW x, GoodRun(x), x.pc \in {"check", "record"}, Anchored(x, row)
    PROVE  /\ \A v \in StepResult : Anchored(Advance(x, v), row)
           /\ x.pc = "check" => Anchored(Checked(x), row)
<1>1. x \in RunRecord /\ row[x.wf].status # "ABSENT"
  BY DEF GoodRun, Anchored
<1>2. \A v : Anchored(Advance(x, v), row)
  <2> SUFFICES ASSUME NEW v PROVE Anchored(Advance(x, v), row)
    OBVIOUS
  <2>1. Advance(x, v).wf = x.wf
    BY <1>1 DEF Advance, RunRecord
  <2>2. Advance(x, v).why # "cancelled"
    BY <1>1 DEF Advance, RunRecord
  <2> QED
    BY <1>1, <2>1, <2>2 DEF Anchored
<1>3. CASE x.pc = "check" /\ row[x.wf].status = "CANCELLED"
  <2>1. Checked(x) = [x EXCEPT !.pc = "finish", !.why = "cancelled"]
    BY <1>3 DEF Checked
  <2>2. Checked(x).wf = x.wf
    BY <1>1, <2>1 DEF RunRecord
  <2> QED
    BY <1>2, <1>3, <2>2 DEF Anchored
<1>4. CASE x.pc = "check" /\ row[x.wf].status # "CANCELLED" /\ log[x.wf][x.step] # None
  BY <1>2, <1>4 DEF Checked
<1>5. CASE x.pc = "check" /\ row[x.wf].status # "CANCELLED" /\ log[x.wf][x.step] = None
  <2>1. Checked(x) = [x EXCEPT !.pc = "exec"]
    BY <1>5 DEF Checked
  <2>2. Checked(x).wf = x.wf /\ Checked(x).pc = "exec"
    BY <1>1, <2>1 DEF RunRecord
  <2> QED
    BY <1>1, <1>2, <2>2 DEF Anchored
<1> QED
  BY <1>2, <1>3, <1>4, <1>5

\* The steps of an invocation that leave the rows alone.
LEMMA RunAnchors ==
    ASSUME TypeOK, Anchors, NEW r \in Run, RunStep(r), ~WriteOutcome(r)
    PROVE  Anchors'
<1> DEFINE x == run[r]
<1>1. run \in [Run -> RunRecord] /\ GoodRun(x) /\ x \in RunRecord /\ Anchored(x, row)
  BY TypeParts DEF RunsOK, Anchors, TypeOK
<1>2. row' = row
  BY DEF RunStep, Decide, Admit, CheckStep, Execute, RecordStep, AwaitOutcome, Leave
<1>3. Anchored(Free, row)
  BY DEF Anchored, Free
<1>4. ASSUME NEW p \in {"admit", "check", "await", "leave"}, x.pc # "free"
      PROVE  Anchored([x EXCEPT !.pc = p], row)
  <2>1. [x EXCEPT !.pc = p].wf = x.wf /\ [x EXCEPT !.pc = p].pc = p
    BY <1>1 DEF RunRecord
  <2> QED
    BY <1>1, <1>4, <2>1 DEF Anchored
<1>5. CASE Decide(r)
  <2>1. run' = [run EXCEPT ![r] = Free] \/ run' = [run EXCEPT ![r] = [x EXCEPT !.pc = "admit"]]
    BY <1>5 DEF Decide
  <2>2. x.pc # "free"
    BY <1>5 DEF Decide
  <2> QED
    BY <1>2, <1>3, <1>4, <2>1, <2>2, OneAnchor
<1>6. CASE Admit(r)
  <2>1. run' = [run EXCEPT ![r] = [x EXCEPT !.pc = "check"]] /\ x.pc # "free"
    BY <1>1, <1>6 DEF Admit
  <2> QED
    BY <1>2, <1>4, <2>1, OneAnchor
<1>7. CASE CheckStep(r)
  <2>1. run' = [run EXCEPT ![r] = Checked(x)] /\ x.pc = "check"
    BY <1>7 DEF CheckStep
  <2> QED
    BY <1>1, <1>2, <2>1, BodyAnchored, OneAnchor
<1>8. CASE Execute(r)
  <2>1. PICK v \in StepResult : run' = [run EXCEPT ![r].pc = "record", ![r].val = v]
    BY <1>8 DEF Execute
  <2> DEFINE y == [x EXCEPT !.pc = "record", !.val = v]
  <2>2. run' = [run EXCEPT ![r] = y] /\ x.pc # "free"
    BY <1>1, <1>8, <2>1 DEF Execute
  <2>3. y.wf = x.wf /\ y.pc = "record"
    BY <1>1 DEF RunRecord
  <2> HIDE DEF y
  <2>4. Anchored(y, row)
    BY <1>1, <2>2, <2>3 DEF Anchored
  <2> QED
    BY <1>2, <2>2, <2>4, OneAnchor
<1>9. CASE RecordStep(r)
  <2>1. x.pc = "record" /\ x.val \in StepResult
    BY <1>1, <1>9 DEF RecordStep, GoodRun, RunRecord
  <2>2. \/ run' = [run EXCEPT ![r] = Advance(x, x.val)]
        \/ run' = [run EXCEPT ![r] = [x EXCEPT !.pc = "await"]]
    BY <1>1, <1>9 DEF RecordStep
  <2>3. Anchored(Advance(x, x.val), row) /\ Anchored([x EXCEPT !.pc = "await"], row)
    BY <1>1, <1>4, <2>1, BodyAnchored
  <2> QED
    BY <1>2, <2>2, <2>3, OneAnchor
<1>10. CASE AwaitOutcome(r)
  <2>1. run' = [run EXCEPT ![r] = [x EXCEPT !.pc = "leave"]] /\ x.pc # "free"
    BY <1>1, <1>10 DEF AwaitOutcome
  <2> QED
    BY <1>2, <1>4, <2>1, OneAnchor
<1>11. CASE Leave(r)
  BY <1>2, <1>3, <1>11, OneAnchor DEF Leave
<1> QED
  BY <1>5, <1>6, <1>7, <1>8, <1>9, <1>10, <1>11 DEF RunStep

------------------------------------------------------------------------------
(* The two steps that are not quiet.                                       *)

\* A result is recorded after a prefix of values, of a workflow that has begun
\* and is neither SUCCESS nor ERROR.
Appended(w, k, v) ==
    /\ log' = [log EXCEPT ![w][k] = v]
    /\ log[w][k] = None
    /\ \A j \in Step : j < k => log[w][j] \in Value
    /\ row[w].status \notin {"ABSENT", "SUCCESS", "ERROR"}

\* A record that is let in is appended to the journal of one workflow.
LEMMA RecordAppends ==
    ASSUME JournalInv, OutcomeInv, NEW r \in Run, RecordStep(r), log' # log
    PROVE  /\ row' = row
           /\ \E w \in Workflow, k \in Step, v \in StepResult : Appended(w, k, v)
<1> DEFINE x == run[r]  w == run[r].wf  k == run[r].step  v == run[r].val
<1>1. /\ x.pc = "record" /\ w \in Workflow /\ k \in Step /\ v \in StepResult
      /\ log[w] \in Journal /\ x.seen \in Journal
  BY TypeParts DEF JournalInv, RunsOK, TableOK, GoodRun, RunRecord, RecordStep
<1>2. row' = row /\ log' = [log EXCEPT ![w][k] = v] /\ log[w][k] = None
  BY DEF RecordStep
<1>3. \A j \in Step : IF j < k THEN x.seen[j] \in Value ELSE x.seen[j] = None
  BY <1>1 DEF JournalInv, BodyProgress, Progress
<1>4. \A j \in Step : j < k => log[w][j] \in Value
  <2> SUFFICES ASSUME NEW j \in Step, j < k PROVE log[w][j] \in Value
    OBVIOUS
  <2>1. x.seen[j] \in Value /\ x.seen[j] # None
    BY <1>3
  <2> QED
    BY <1>1, <2>1 DEF JournalInv, SeenIsRecorded
<1>5. row[w].status # "SUCCESS"
  BY <1>1, <1>2 DEF JournalInv, SuccessMatchesJournal
<1>6. row[w].status # "ERROR"
  <2> SUFFICES ASSUME row[w].status = "ERROR" PROVE FALSE
    OBVIOUS
  <2>1. PICK m \in Step : log[w][m] = StepFailed
    BY <1>1 DEF OutcomeInv, ErrorMatchesJournal
  <2>2. m > k
    BY <1>1, <1>2, <1>4, <2>1 DEF Step
  <2>3. k \in 1..(m - 1) /\ log[w][m] # None
    BY <1>1, <2>1, <2>2 DEF Step
  <2>4. log[w][k] \in Value
    BY <1>1, <2>3 DEF JournalInv, JournalIsPrefix
  <2> QED
    BY <1>2, <2>4
<1>7. row[w].status # "ABSENT"
  BY <1>1 DEF OutcomeInv, Anchors, Anchored
<1> QED
  BY <1>1, <1>2, <1>4, <1>5, <1>6, <1>7 DEF Appended

\* An outcome is written that was computed from the journal; a row that has
\* one already gets the same again.
Succeeded(w) ==
    /\ row[w].status \notin {"ABSENT", "CANCELLED", "ERROR"}
    /\ \A k \in Step : log[w][k] \in Value
    /\ row'[w].status = "SUCCESS"
    /\ row'[w].outcome = [why |-> "ok", seen |-> log[w]]

Failed(w) ==
    /\ row[w].status \notin {"ABSENT", "CANCELLED", "SUCCESS"}
    /\ \E k \in Step : log[w][k] = StepFailed
    /\ row'[w].status = "ERROR"
    /\ row'[w].outcome = [why |-> "stepError", seen |-> Blank]

\* An outcome that is written changes the row of one workflow, and the journal
\* justifies it.
LEMMA OutcomeWritten ==
    ASSUME JournalInv, OutcomeInv, NEW r \in Run, WriteOutcome(r), row' # row
    PROVE  /\ log' = log
           /\ \E w \in Workflow : /\ \A u \in Workflow \ {w} : row'[u] = row[u]
                                  /\ Succeeded(w) \/ Failed(w)
<1> DEFINE x == run[r]
           w == run[r].wf
           o == [why |-> x.why, seen |-> IF x.why = "ok" THEN x.seen ELSE Blank]
<1>1. /\ x.pc = "finish" /\ w \in Workflow /\ row[w] \in Row /\ row \in [Workflow -> Row]
      /\ log[w] \in Journal /\ x.seen \in Journal
      /\ x.why \in {"none", "ok", "stepError", "cancelled"}
  BY TypeParts DEF JournalInv, RunsOK, TableOK, GoodRun, RunRecord, WriteOutcome
<1>2. log' = log /\ row' = [row EXCEPT ![w] = OutcomeRow(row[w], o)]
  BY DEF WriteOutcome
<1>3. /\ \A u \in Workflow \ {w} : row'[u] = row[u]
      /\ row'[w] = OutcomeRow(row[w], o)
  BY <1>1, <1>2
<1>4. row[w].status \notin {"ABSENT", "CANCELLED"}
  BY <1>1, <1>2 DEF OutcomeRow
<1>5. o.why = x.why /\ o.seen = IF x.why = "ok" THEN x.seen ELSE Blank
  OBVIOUS
<1>6. /\ row'[w].status = IF x.why = "ok" THEN "SUCCESS" ELSE "ERROR"
      /\ row'[w].outcome = o
  <2> HIDE DEF o
  <2> QED
    BY <1>1, <1>3, <1>4, <1>5 DEF OutcomeRow, Row
<1>7. x.why \in {"ok", "stepError"} /\ Progress(x)
  BY <1>1, <1>4 DEF JournalInv, BodyProgress, Progress, OutcomeInv, Anchors, Anchored
<1>8. \A k \in Step : x.seen[k] # None => x.seen[k] = log[w][k]
  BY <1>1 DEF JournalInv, SeenIsRecorded
<1>9. CASE x.why = "ok"
  <2>1. \A k \in Step : x.seen[k] \in Value
    BY <1>1, <1>7, <1>9 DEF Progress
  <2>2. \A k \in Step : log[w][k] = x.seen[k] /\ log[w][k] \in Value
    BY <1>8, <2>1
  <2>3. x.seen = log[w]
    BY <1>1, <2>2 DEF Journal
  <2>4. row[w].status # "ERROR"
    BY <1>1, <2>2 DEF OutcomeInv, ErrorMatchesJournal
  <2>5. o = [why |-> "ok", seen |-> log[w]]
    BY <1>9, <2>3
  <2> HIDE DEF o
  <2>6. Succeeded(w)
    BY <1>4, <1>6, <1>9, <2>2, <2>4, <2>5 DEF Succeeded
  <2> QED
    BY <1>1, <1>2, <1>3, <2>6
<1>10. CASE x.why = "stepError"
  <2>1. PICK k \in Step : x.seen[k] = StepFailed
    BY <1>1, <1>7, <1>10 DEF Progress
  <2>2. log[w][k] = StepFailed /\ StepFailed \notin Value
    BY <1>8, <2>1
  <2>3. row[w].status # "SUCCESS"
    BY <1>1, <2>2 DEF JournalInv, SuccessMatchesJournal
  <2>4. o = [why |-> "stepError", seen |-> Blank]
    BY <1>10
  <2> HIDE DEF o
  <2>5. Failed(w)
    BY <1>4, <1>6, <1>10, <2>2, <2>3, <2>4 DEF Failed
  <2> QED
    BY <1>1, <1>2, <1>3, <2>5
<1> QED
  BY <1>7, <1>9, <1>10

\* The four things a step can do while nobody resumes.
LEMMA StepShape ==
    ASSUME JournalInv, OutcomeInv, [Next]_vars
    PROVE  \/ QuietStep
           \/ /\ row' = row
              /\ \E w \in Workflow, k \in Step, v \in StepResult : Appended(w, k, v)
           \/ /\ log' = log
              /\ \E w \in Workflow : /\ \A u \in Workflow \ {w} : row'[u] = row[u]
                                     /\ Succeeded(w) \/ Failed(w)
<1>0. TypeOK
  BY DEF JournalInv
<1>1. \A w \in Workflow : ~Resume(w)
  BY DEF OutcomeInv, Resume
<1>2. ASSUME NEW r \in Run, RecordStep(r), log' = log PROVE QuietStep
  BY <1>0, <1>2, QuietTable DEF RecordStep
<1>3. ASSUME NEW r \in Run, WriteOutcome(r), row' = row PROVE QuietStep
  BY <1>0, <1>3, QuietTable DEF WriteOutcome
<1> QED
  BY <1>0, <1>1, <1>2, <1>3, QuietSteps, RecordAppends, OutcomeWritten

------------------------------------------------------------------------------
(* The invariant.                                                          *)

\* Writing an outcome leaves every run anchored: no row stops to exist and
\* none stops to be CANCELLED.
LEMMA OutcomeAnchors ==
    ASSUME JournalInv, OutcomeInv, NEW r \in Run, WriteOutcome(r)
    PROVE  Anchors'
<1> DEFINE y == [run[r] EXCEPT !.pc = "leave"]
<1>1. /\ run \in [Run -> RunRecord] /\ row \in [Workflow -> Row]
      /\ \A q \in Run : run[q].pc # "free" => run[q].wf \in Workflow
  BY DEF JournalInv, TypeOK
<1>2. run' = [run EXCEPT ![r] = y] /\ run[r].pc = "finish"
  BY <1>1 DEF WriteOutcome
<1>3. y.wf = run[r].wf /\ y.pc = "leave"
  BY <1>1 DEF RunRecord
<1> HIDE DEF y
<1>4. \A w \in Workflow :
          /\ row[w].status # "ABSENT" => row'[w].status # "ABSENT"
          /\ row[w].status = "CANCELLED" => row'[w].status = "CANCELLED"
  <2>1. CASE row' = row
    BY <2>1
  <2>2. CASE row' # row
    BY <2>2, OutcomeWritten DEF Succeeded, Failed
  <2> QED
    BY <2>1, <2>2
<1>5. \A q \in Run : run'[q] = IF q = r THEN y ELSE run[q]
  BY <1>1, <1>2
<1> SUFFICES ASSUME NEW q \in Run PROVE Anchored(run'[q], row')
  BY DEF Anchors
<1>6. Anchored(run[q], row)
  BY DEF OutcomeInv, Anchors
<1> QED
  BY <1>1, <1>2, <1>3, <1>4, <1>5, <1>6 DEF Anchored

\* The insert of an invocation makes sure that there is a row.
LEMMA InvokeAnchors ==
    ASSUME TypeOK, Anchors, NEW r \in Run, NEW kind \in Kind, NEW e \in Executor,
           NEW w \in Workflow, Invoke(r, kind, e, w), log' = log
    PROVE  Anchors'
<1> DEFINE after == InsertStatus(row[w], "PENDING", e, kind # "call")
<1>1. /\ run \in [Run -> RunRecord] /\ row[w] \in Row /\ row \in [Workflow -> Row]
      /\ (kind # "call") \in BOOLEAN
  BY DEF TypeOK
<1>2. row' = [row EXCEPT ![w] = after]
  BY DEF Invoke
<1>3. after.status # "ABSENT"
  <2> DEFINE u == Upserted(row[w], "PENDING", e, kind # "call")
  <2>1. u \in Row
    BY <1>1, UpsertedType
  <2>2. u.status # "ABSENT"
    <3>1. CASE row[w].status = "ABSENT"
      BY <3>1 DEF Upserted, InsertedRow
    <3>2. CASE row[w].status # "ABSENT"
      BY <1>1, <3>2 DEF Upserted, ConflictRow, Row
    <3> QED
      BY <3>1, <3>2
  <2>3. after \in {u, Parked(u)}
    BY DEF InsertStatus
  <2> HIDE DEF u, after
  <2>4. Parked(u).status # "ABSENT"
    BY <2>1, <2>2 DEF Parked, Row
  <2> QED
    BY <2>2, <2>3, <2>4
<1> HIDE DEF after
<1>4. row'[w].status # "ABSENT"
  BY <1>1, <1>2, <1>3
<1>5. run' = run \/ \E o, st : run' = [run EXCEPT ![r] = Inserted(kind, e, w, o, st)]
  BY DEF Invoke
<1>6. \A q \in Run : run'[q] = run[q] \/ (run'[q].wf = w /\ run'[q].pc = "decide")
  BY <1>1, <1>5 DEF Inserted
<1>7. \A q \in Run : run'[q] = run[q] \/ Anchored(run'[q], row')
  BY <1>4, <1>6 DEF Anchored
<1> QED
  BY <1>7, QuietInvoke, QuietAnchors

\* Every step keeps the runs anchored.
LEMMA AnchorsStep ==
    ASSUME JournalInv, OutcomeInv, [Next]_vars
    PROVE  Anchors'
<1>0. /\ TypeOK /\ Anchors /\ \A w \in Workflow : ~Resume(w)
      /\ claimed \in [Executor -> SUBSET Workflow]
      /\ todo \in [Executor -> SUBSET [wf : Workflow, queued : BOOLEAN]]
  BY DEF JournalInv, OutcomeInv, TypeOK, Resume
<1>1. ASSUME QuietStep, \A r \in Run : run'[r] = run[r] \/ run'[r].pc = "free"
      PROVE  Anchors'
  <2>1. \A r \in Run : run'[r] = run[r] \/ Anchored(run'[r], row')
    BY <1>1 DEF Anchored
  <2> QED
    BY <1>0, <1>1, <2>1, QuietAnchors
<1>2. CASE UNCHANGED vars
  BY <1>0, <1>1, <1>2, QuietTable DEF vars
<1>3. ASSUME NEW r \in Run, RunStep(r) PROVE Anchors'
  BY <1>0, <1>3, RunAnchors, OutcomeAnchors
<1>4. CASE \A r \in Run : ~RunStep(r)
  <2>0. QuietStep /\ log' = log
    BY <1>0, <1>4, QuietSteps DEF QuietStep, RunStep
  <2>1. ASSUME NEW w \in Workflow, NEW r \in Run, NEW e \in Executor, NEW kind \in Kind,
               Invoke(r, kind, e, w)
        PROVE  Anchors'
    BY <1>0, <2>0, <2>1, InvokeAnchors
  <2>2. ASSUME NEW e \in Executor, ExecutorStep(e) PROVE Anchors'
    <3>1. CASE Dispatch(e)
      <4>1. PICK w \in claimed[e], r \in Run : Invoke(r, "dequeue", e, w)
        BY <3>1 DEF Dispatch
      <4>2. w \in Workflow /\ "dequeue" \in Kind
        BY <1>0 DEF Kind
      <4> QED
        BY <2>1, <4>1, <4>2
    <3>2. CASE RecoverDirect(e)
      <4>1. PICK t \in todo[e], r \in Run : Invoke(r, "recovery", e, t.wf)
        BY <3>2 DEF RecoverDirect
      <4>2. t.wf \in Workflow /\ "recovery" \in Kind
        BY <1>0 DEF Kind
      <4> QED
        BY <2>1, <4>1, <4>2
    <3>3. CASE Claim(e) \/ Launch(e) \/ Launched(e) \/ RecoverQueued(e)
      <4>1. run' = run
        BY <3>3 DEF Claim, Launch, Launched, RecoverQueued
      <4> QED
        BY <1>1, <2>0, <4>1
    <3> QED
      BY <2>2, <3>1, <3>2, <3>3 DEF ExecutorStep
  <2>3. CASE Environment
    <3>1. ASSUME NEW e \in Executor, NEW w \in Workflow, Call(e, w) PROVE Anchors'
      <4>1. PICK r \in Run : Invoke(r, "call", e, w)
        BY <3>1 DEF Call
      <4>2. "call" \in Kind
        BY DEF Kind
      <4> QED
        BY <2>1, <4>1, <4>2
    <3>2. ASSUME NEW e \in Executor, Crash(e) PROVE Anchors'
      <4>1. \A r \in Run : run'[r] = run[r] \/ run'[r].pc = "free"
        BY <3>2 DEF Crash, Free
      <4> QED
        BY <1>1, <2>0, <4>1
    <3>3. ASSUME \/ \E e \in Executor, w \in Workflow : Enqueue(e, w)
                 \/ \E e, t \in Executor : RecoveryRequest(e, t)
                 \/ \E w \in Workflow : Cancel(w)
          PROVE  Anchors'
      <4>1. run' = run
        BY <3>3 DEF Enqueue, RecoveryRequest, Cancel
      <4> QED
        BY <1>1, <2>0, <4>1
    <3> QED
      BY <1>0, <2>3, <3>1, <3>2, <3>3 DEF Environment
  <2> QED
    BY <1>2, <1>4, <2>2, <2>3 DEF Next
<1> QED
  BY <1>3, <1>4

\* OutcomeInv holds at the start, when nothing may be resumed.
LEMMA OutcomeInit == MaxResumes = 0 /\ Init => OutcomeInv
<1> SUFFICES ASSUME MaxResumes = 0, Init PROVE OutcomeInv
  OBVIOUS
<1>1. \A r \in Run : run[r].pc = "free"
  BY DEF Init, Free
<1>2. \A w \in Workflow : row[w].status = "ABSENT" /\ row[w].outcome = NoOutcome
  BY DEF Init, NoRow
<1>3. budget.resume = 0
  BY DEF Init
<1> QED
  BY <1>1, <1>2, <1>3 DEF OutcomeInv, Anchors, Anchored, ErrorMatchesJournal, OutcomesMatch

\* Every step keeps it.
LEMMA OutcomeStep == JournalInv /\ OutcomeInv /\ [Next]_vars => OutcomeInv'
<1> SUFFICES ASSUME JournalInv, OutcomeInv, [Next]_vars PROVE OutcomeInv'
  OBVIOUS
<1>0. /\ TypeOK /\ row \in [Workflow -> Row] /\ log \in [Workflow -> Journal]
      /\ ErrorMatchesJournal /\ OutcomesMatch
  BY DEF JournalInv, OutcomeInv, TypeOK
<1>1. budget'.resume = 0
  <2>1. budget.resume = 0 /\ budget \in Budget /\ \A w \in Workflow : ~Resume(w)
    BY DEF OutcomeInv, JournalInv, TypeOK, Resume
  <2>2. \/ budget' = budget
        \/ budget' = [budget EXCEPT !.pass = @ - 1]
        \/ budget' = [budget EXCEPT !.crash = @ - 1]
        \/ budget' = [budget EXCEPT !.cancel = @ - 1]
    <3>1. ASSUME NEW r \in Run, RunStep(r) PROVE budget' = budget
      BY <3>1 DEF RunStep, Decide, Admit, CheckStep, Execute, RecordStep, WriteOutcome,
         AwaitOutcome, Leave
    <3>2. ASSUME NEW e \in Executor, ExecutorStep(e) PROVE budget' = budget
      BY <3>2 DEF ExecutorStep, Claim, Dispatch, Launch, Launched, RecoverQueued, RecoverDirect
    <3>3. ASSUME NEW e \in Executor, NEW w \in Workflow, Call(e, w) \/ Enqueue(e, w)
          PROVE  budget' = budget
      BY <3>3 DEF Call, Enqueue
    <3>4. ASSUME NEW e \in Executor, NEW t \in Executor, RecoveryRequest(e, t)
          PROVE  budget' = [budget EXCEPT !.pass = @ - 1]
      BY <3>4 DEF RecoveryRequest
    <3>5. ASSUME NEW e \in Executor, Crash(e) PROVE budget' = [budget EXCEPT !.crash = @ - 1]
      BY <3>5 DEF Crash
    <3>6. ASSUME NEW w \in Workflow, Cancel(w) PROVE budget' = [budget EXCEPT !.cancel = @ - 1]
      BY <3>6 DEF Cancel
    <3>7. UNCHANGED vars => budget' = budget
      BY DEF vars
    <3> QED
      BY <2>1, <3>1, <3>2, <3>3, <3>4, <3>5, <3>6, <3>7 DEF Next, Environment
  <2> QED
    BY <2>1, <2>2 DEF Budget
<1>2. Anchors'
  BY AnchorsStep
<1>3. ErrorMatchesJournal' /\ OutcomesMatch'
  <2>1. CASE QuietStep
    BY <1>0, <2>1, QuietOutcomes
  <2>2. ASSUME NEW w \in Workflow, NEW k \in Step, NEW v \in StepResult, Appended(w, k, v),
               row' = row
        PROVE  ErrorMatchesJournal' /\ OutcomesMatch'
    <3>1. \A u \in Workflow : \A j \in Step : log[u][j] = StepFailed => log'[u][j] = StepFailed
      BY <1>0, <2>2 DEF Appended, Journal
    <3> QED
      BY <1>0, <2>2, <3>1 DEF ErrorMatchesJournal, OutcomesMatch
  <2>3. ASSUME NEW w \in Workflow, log' = log, \A u \in Workflow \ {w} : row'[u] = row[u],
               Succeeded(w) \/ Failed(w)
        PROVE  ErrorMatchesJournal' /\ OutcomesMatch'
    <3> DEFINE failed == [why |-> "stepError", seen |-> Blank]
               good == [why |-> "ok", seen |-> log[w]]
    <3>1. \/ row'[w].status = "SUCCESS"
          \/ /\ row'[w].status = "ERROR" /\ row'[w].outcome = failed
             /\ \E k \in Step : log[w][k] = StepFailed
      BY <2>3 DEF Succeeded, Failed
    <3>2. ErrorMatchesJournal'
      BY <1>0, <2>3, <3>1 DEF ErrorMatchesJournal
    <3>3. OutcomesMatch'
      BY <1>0, <2>3, <3>1 DEF OutcomesMatch
    <3> QED
      BY <3>2, <3>3
  <2> QED
    BY <2>1, <2>2, <2>3, StepShape
<1> QED
  BY <1>1, <1>2, <1>3 DEF OutcomeInv

\* Where nobody resumes, both invariants hold always.
LEMMA OutcomeInvariance == MaxResumes = 0 => (Spec => [](JournalInv /\ OutcomeInv))
<1> SUFFICES ASSUME MaxResumes = 0 PROVE Spec => [](JournalInv /\ OutcomeInv)
  OBVIOUS
<1>1. Init => OutcomeInv
  BY OutcomeInit
<1> QED
  BY <1>1, OutcomeStep, JournalInvariance, PTL DEF Spec

\* A workflow that nobody resumes and that is reported as ERROR failed in a
\* recorded step.
THEOREM ErrorIsRecorded == MaxResumes = 0 => (Spec => []ErrorMatchesJournal)
<1> SUFFICES ASSUME MaxResumes = 0 PROVE Spec => []ErrorMatchesJournal
  OBVIOUS
<1>1. OutcomeInv => ErrorMatchesJournal
  BY DEF OutcomeInv
<1> QED
  BY <1>1, OutcomeInvariance, PTL

\* SUCCESS and ERROR are final, whatever late bodies, recovery passes and
\* cancellations come.
THEOREM OutcomeStays == MaxResumes = 0 => (Spec => OutcomeIsFinal)
<1> SUFFICES ASSUME MaxResumes = 0 PROVE Spec => OutcomeIsFinal
  OBVIOUS
<1> DEFINE Kept == \A w \in Workflow : row[w].status \in {"SUCCESS", "ERROR"} =>
                       row'[w].status = row[w].status /\ row'[w].outcome = row[w].outcome
<1>1. JournalInv /\ OutcomeInv /\ [Next]_vars => Kept
  <2> SUFFICES ASSUME JournalInv, OutcomeInv, [Next]_vars,
                      NEW w \in Workflow, row[w].status \in {"SUCCESS", "ERROR"}
               PROVE  row'[w].status = row[w].status /\ row'[w].outcome = row[w].outcome
    OBVIOUS
  <2>1. CASE QuietStep
    BY <2>1 DEF QuietStep, Quiet
  <2>2. CASE row' = row
    BY <2>2
  <2>3. ASSUME NEW v \in Workflow, \A u \in Workflow \ {v} : row'[u] = row[u],
               Succeeded(v) \/ Failed(v)
        PROVE  row'[w].status = row[w].status /\ row'[w].outcome = row[w].outcome
    <3>1. CASE w # v
      BY <2>3, <3>1
    <3>2. CASE w = v /\ Succeeded(v)
      <4>1. row[w].status = "SUCCESS" /\ row[w].outcome \in Outcome
        BY <3>2 DEF Succeeded, JournalInv, TypeOK, Row
      <4>2. row[w].outcome.why = "ok" /\ row[w].outcome.seen = log[w]
        BY <4>1 DEF JournalInv, SuccessMatchesJournal
      <4>3. row[w].outcome = [why |-> "ok", seen |-> log[w]]
        BY <4>1, <4>2 DEF Outcome
      <4> QED
        BY <3>2, <4>1, <4>3 DEF Succeeded
    <3>3. CASE w = v /\ Failed(v)
      <4>1. row[w].status = "ERROR"
        BY <3>3 DEF Failed
      <4>2. row[w].outcome = [why |-> "stepError", seen |-> Blank]
        BY <4>1 DEF OutcomeInv, OutcomesMatch
      <4> QED
        BY <3>3, <4>1, <4>2 DEF Failed
    <3> QED
      BY <2>3, <3>1, <3>2, <3>3
  <2> QED
    BY <2>1, <2>2, <2>3, StepShape
<1> HIDE DEF Kept
<1>2. Spec => [][Kept]_vars
  BY <1>1, OutcomeInvariance, PTL DEF Spec
<1> QED
  BY <1>2 DEF Kept, OutcomeIsFinal

\* A record never changes, and none is added to a workflow that is reported.
THEOREM JournalStays == MaxResumes = 0 => (Spec => JournalOnlyGrows)
<1> SUFFICES ASSUME MaxResumes = 0 PROVE Spec => JournalOnlyGrows
  OBVIOUS
<1> DEFINE Kept == \A w \in Workflow : \A k \in Step : log'[w][k] # log[w][k] =>
                       log[w][k] = None /\ row[w].status \notin {"SUCCESS", "ERROR"}
<1>1. JournalInv /\ OutcomeInv /\ [Next]_vars => Kept
  <2> SUFFICES ASSUME JournalInv, OutcomeInv, [Next]_vars,
                      NEW w \in Workflow, NEW k \in Step, log'[w][k] # log[w][k]
               PROVE  log[w][k] = None /\ row[w].status \notin {"SUCCESS", "ERROR"}
    OBVIOUS
  <2>1. PICK u \in Workflow, j \in Step, v \in StepResult : Appended(u, j, v)
    BY StepShape DEF QuietStep
  <2>2. log[w] \in Journal /\ log[u] \in Journal /\ log \in [Workflow -> Journal]
    BY DEF JournalInv, TypeOK
  <2>3. w = u /\ k = j
    BY <2>1, <2>2 DEF Appended, Journal
  <2> QED
    BY <2>1, <2>3 DEF Appended
<1> HIDE DEF Kept
<1>2. Spec => [][Kept]_vars
  BY <1>1, OutcomeInvariance, PTL DEF Spec
<1> QED
  BY <1>2 DEF Kept, JournalOnlyGrows

------------------------------------------------------------------------------
(* The refinement.                                                         *)

\* The abstract phases, status by status.
LEMMA Phases ==
    ASSUME NEW r
    PROVE  /\ r.status = "ABSENT" => PhaseOf(r) = "absent"
           /\ r.status \in {"PENDING", "ENQUEUED"} => PhaseOf(r) = "open"
           /\ r.status = "MAX_RECOVERY_ATTEMPTS_EXCEEDED" => PhaseOf(r) = "parked"
           /\ r.status = "CANCELLED" => PhaseOf(r) = "cancelled"
           /\ r.status = "SUCCESS" => PhaseOf(r) = "success"
           /\ r.status = "ERROR" => PhaseOf(r) = "error"
<1>1. r.status = "ABSENT" => PhaseOf(r) = "absent"
  BY DEF PhaseOf
<1>2. r.status \in {"PENDING", "ENQUEUED"} => PhaseOf(r) = "open"
  BY DEF PhaseOf
<1>3. r.status = "MAX_RECOVERY_ATTEMPTS_EXCEEDED" => PhaseOf(r) = "parked"
  BY DEF PhaseOf
<1>4. r.status = "CANCELLED" => PhaseOf(r) = "cancelled"
  BY DEF PhaseOf
<1>5. r.status = "SUCCESS" => PhaseOf(r) = "success"
  BY DEF PhaseOf
<1>6. r.status = "ERROR" => PhaseOf(r) = "error"
  BY DEF PhaseOf
<1> QED
  BY <1>1, <1>2, <1>3, <1>4, <1>5, <1>6

\* A quiet statement moves the phase as Create, Park or CancelForGood do, or
\* leaves it, and changes no output.
LEMMA QuietPhase ==
    ASSUME NEW r \in Row, NEW s \in Row, Quiet(r, s), r.status = "ABSENT" => r.outcome = NoOutcome
    PROVE  /\ s.outcome = r.outcome
           /\ \/ PhaseOf(s) = PhaseOf(r)
              \/ PhaseOf(r) = "absent" /\ PhaseOf(s) = "open"
              \/ PhaseOf(r) = "open" /\ PhaseOf(s) = "parked"
              \/ PhaseOf(r) \in {"open", "parked"} /\ PhaseOf(s) = "cancelled"
<1>1. r.status \in Status
  BY DEF Row
<1>2. s.outcome = r.outcome
  BY DEF Quiet
<1>3. CASE r.status = "ABSENT"
  BY <1>2, <1>3, Phases DEF Quiet
<1>4. CASE r.status \in {"PENDING", "ENQUEUED"}
  BY <1>2, <1>4, Phases DEF Quiet
<1>5. CASE r.status = "MAX_RECOVERY_ATTEMPTS_EXCEEDED"
  BY <1>2, <1>5, Phases DEF Quiet
<1>6. CASE r.status \in {"SUCCESS", "ERROR", "CANCELLED"}
  BY <1>2, <1>6, Phases DEF Quiet
<1> QED
  BY <1>1, <1>3, <1>4, <1>5, <1>6 DEF Status

phaseMap == [w \in Workflow |-> PhaseOf(row[w])]
outputMap == [w \in Workflow |-> row[w].outcome.seen]

\* A row that changes alone changes the maps at one place.
LEMMA MapsUpdate ==
    ASSUME NEW w \in Workflow,
           \A u \in Workflow \ {w} : /\ PhaseOf(row'[u]) = PhaseOf(row[u])
                                     /\ row'[u].outcome.seen = row[u].outcome.seen
    PROVE  /\ phaseMap' = [phaseMap EXCEPT ![w] = PhaseOf(row'[w])]
           /\ outputMap' = [outputMap EXCEPT ![w] = row'[w].outcome.seen]
<1>1. phaseMap' = [phaseMap EXCEPT ![w] = PhaseOf(row'[w])]
  BY DEF phaseMap
<1>2. outputMap' = [outputMap EXCEPT ![w] = row'[w].outcome.seen]
  BY DEF outputMap
<1> QED
  BY <1>1, <1>2

\* Quiet statements are steps of the abstract specification, or stutter.
LEMMA AbstractQuiet ==
    ASSUME TypeOK, TypeOK', OutcomeInv, QuietStep
    PROVE  [Abstract!ANext]_(Abstract!avars)
<1>1. \A w \in Workflow : /\ row[w] \in Row /\ row'[w] \in Row /\ Quiet(row[w], row'[w])
                          /\ row[w].status = "ABSENT" => row[w].outcome = NoOutcome
  BY DEF TypeOK, QuietStep, OutcomeInv, OutcomesMatch
<1>2. \A w \in Workflow : row'[w].outcome = row[w].outcome
  BY <1>1, QuietPhase
<1>3. outputMap' = outputMap
  BY <1>2 DEF outputMap
<1>4. log' = log
  BY DEF QuietStep
<1>5. CASE \A w \in Workflow : PhaseOf(row'[w]) = PhaseOf(row[w])
  <2>1. phaseMap' = phaseMap
    BY <1>5 DEF phaseMap
  <2> QED
    BY <1>3, <1>4, <2>1 DEF phaseMap, outputMap, Abstract!avars
<1>6. CASE \E w \in Workflow : PhaseOf(row'[w]) # PhaseOf(row[w])
  <2>1. PICK w \in Workflow : PhaseOf(row'[w]) # PhaseOf(row[w])
    BY <1>6
  <2>2. \A u \in Workflow \ {w} : PhaseOf(row'[u]) = PhaseOf(row[u])
    BY <2>1 DEF QuietStep, OnePhase
  <2> DEFINE p == PhaseOf(row'[w])
  <2>3. phaseMap' = [phaseMap EXCEPT ![w] = p] /\ phaseMap[w] = PhaseOf(row[w])
    BY <1>2, <2>2, MapsUpdate DEF phaseMap
  <2>4. \/ phaseMap[w] = "absent" /\ p = "open"
        \/ phaseMap[w] = "open" /\ p = "parked"
        \/ phaseMap[w] \in {"open", "parked"} /\ p = "cancelled"
    BY <1>1, <2>1, <2>3, QuietPhase
  <2> HIDE DEF p
  <2>5. Abstract!Create(w) \/ Abstract!Park(w) \/ Abstract!CancelForGood(w)
    BY <1>3, <1>4, <2>3, <2>4
       DEF phaseMap, outputMap, Abstract!Create, Abstract!Park, Abstract!CancelForGood
  <2> QED
    BY <2>5 DEF Abstract!ANext
<1> QED
  BY <1>5, <1>6

\* A record is the abstract Append.
LEMMA AbstractAppend ==
    ASSUME TypeOK, NEW w \in Workflow, NEW k \in Step, NEW v \in StepResult, Appended(w, k, v),
           row' = row
    PROVE  Abstract!ANext
<1>1. phaseMap' = phaseMap /\ outputMap' = outputMap
  BY DEF phaseMap, outputMap
<1>2. row[w].status \in {"PENDING", "ENQUEUED", "CANCELLED", "MAX_RECOVERY_ATTEMPTS_EXCEEDED"}
  BY DEF TypeOK, Row, Status, Appended
<1>3. phaseMap[w] \in {"open", "parked", "cancelled"}
  BY <1>2, Phases DEF phaseMap
<1>4. k \in 1..NumSteps /\ v \in Value \cup {StepFailed} /\ \A j \in 1..(k - 1) : j \in Step /\ j < k
  BY DEF Step, StepResult
<1>5. Abstract!Append(w, k, v)
  BY <1>1, <1>3, <1>4 DEF phaseMap, outputMap, Appended, Abstract!Append
<1> QED
  BY <1>4, <1>5 DEF Abstract!ANext

\* An outcome is the abstract Succeed or Fail, or repeats the one there is.
LEMMA AbstractOutcome ==
    ASSUME JournalInv, OutcomeInv, NEW w \in Workflow, log' = log,
           \A u \in Workflow \ {w} : row'[u] = row[u], Succeeded(w) \/ Failed(w)
    PROVE  [Abstract!ANext]_(Abstract!avars)
<1>1. /\ phaseMap' = [phaseMap EXCEPT ![w] = PhaseOf(row'[w])]
      /\ outputMap' = [outputMap EXCEPT ![w] = row'[w].outcome.seen]
      /\ phaseMap[w] = PhaseOf(row[w]) /\ outputMap[w] = row[w].outcome.seen
      /\ phaseMap \in [Workflow -> {phaseMap[u] : u \in Workflow}]
      /\ outputMap \in [Workflow -> {outputMap[u] : u \in Workflow}]
  BY MapsUpdate DEF phaseMap, outputMap
<1>2. row[w].status \in Status
  BY DEF JournalInv, TypeOK, Row
<1>3. CASE Succeeded(w)
  <2>1. PhaseOf(row'[w]) = "success" /\ row'[w].outcome.seen = log[w]
    BY <1>3, Phases DEF Succeeded
  <2>2. CASE row[w].status = "SUCCESS"
    <3>1. phaseMap[w] = "success" /\ outputMap[w] = log[w]
      BY <1>1, <2>2, Phases DEF JournalInv, SuccessMatchesJournal
    <3>2. phaseMap' = phaseMap /\ outputMap' = outputMap
      BY <1>1, <2>1, <3>1
    <3> QED
      BY <3>2 DEF phaseMap, outputMap, Abstract!avars
  <2>3. CASE row[w].status # "SUCCESS"
    <3>1. row[w].status \in {"PENDING", "ENQUEUED", "MAX_RECOVERY_ATTEMPTS_EXCEEDED"}
      BY <1>2, <1>3, <2>3 DEF Status, Succeeded
    <3>2. phaseMap[w] \in {"open", "parked"}
      BY <1>1, <3>1, Phases
    <3>3. \A k \in 1..NumSteps : log[w][k] \in Value
      BY <1>3 DEF Succeeded, Step
    <3>4. Abstract!Succeed(w)
      BY <1>1, <2>1, <3>2, <3>3 DEF phaseMap, outputMap, Abstract!Succeed
    <3> QED
      BY <3>4 DEF Abstract!ANext
  <2> QED
    BY <2>2, <2>3
<1>4. CASE Failed(w)
  <2>1. PhaseOf(row'[w]) = "error" /\ row'[w].outcome.seen = Blank
    BY <1>4, Phases DEF Failed
  <2>2. outputMap[w] = Blank
    <3>1. row[w].status # "SUCCESS"
      BY <1>4 DEF Failed
    <3>2. row[w].outcome \in {[why |-> "stepError", seen |-> Blank], NoOutcome}
      BY <3>1 DEF OutcomeInv, OutcomesMatch
    <3> QED
      BY <1>1, <3>2 DEF NoOutcome
  <2>3. outputMap' = outputMap
    BY <1>1, <2>1, <2>2
  <2>4. CASE row[w].status = "ERROR"
    <3>1. phaseMap' = phaseMap
      BY <1>1, <2>1, <2>4, Phases
    <3> QED
      BY <2>3, <3>1 DEF phaseMap, outputMap, Abstract!avars
  <2>5. CASE row[w].status # "ERROR"
    <3>1. row[w].status \in {"PENDING", "ENQUEUED", "MAX_RECOVERY_ATTEMPTS_EXCEEDED"}
      BY <1>2, <1>4, <2>5 DEF Status, Failed
    <3>2. phaseMap[w] \in {"open", "parked"}
      BY <1>1, <3>1, Phases
    <3>3. \E k \in 1..NumSteps : log[w][k] = StepFailed
      BY <1>4 DEF Failed, Step
    <3>4. Abstract!Fail(w)
      BY <1>1, <2>1, <2>3, <3>2, <3>3 DEF phaseMap, outputMap, Abstract!Fail
    <3> QED
      BY <3>4 DEF Abstract!ANext
  <2> QED
    BY <2>4, <2>5
<1> QED
  BY <1>3, <1>4

\* The processes and the database together do what DurableExecution promises,
\* where nobody resumes: rivals, crashes, attempts and queues are invisible.
THEOREM Implementation == MaxResumes = 0 => (Spec => ImplementsDurableExecution)
<1> SUFFICES ASSUME MaxResumes = 0 PROVE Spec => ImplementsDurableExecution
  OBVIOUS
<1>1. Init => Abstract!AInit
  <2> SUFFICES ASSUME Init PROVE Abstract!AInit
    OBVIOUS
  <2>1. \A w \in Workflow : row[w] = NoRow
    BY DEF Init
  <2>2. \A w \in Workflow : PhaseOf(row[w]) = "absent" /\ row[w].outcome.seen = Blank
    BY <2>1, Phases DEF NoRow, NoOutcome
  <2>3. phaseMap = [w \in Workflow |-> "absent"] /\ outputMap = [w \in Workflow |-> Blank]
    BY <2>2 DEF phaseMap, outputMap
  <2>4. log = [w \in Workflow |-> Blank]
    BY DEF Init
  <2> QED
    BY <2>3, <2>4 DEF phaseMap, outputMap, Blank, Step, Abstract!AInit, Abstract!Empty
<1>2. TypeOK' /\ JournalInv /\ OutcomeInv /\ [Next]_vars => [Abstract!ANext]_(Abstract!avars)
  <2> SUFFICES ASSUME TypeOK', JournalInv, OutcomeInv, [Next]_vars
               PROVE  [Abstract!ANext]_(Abstract!avars)
    OBVIOUS
  <2>0. TypeOK
    BY DEF JournalInv
  <2>1. CASE QuietStep
    BY <2>0, <2>1, AbstractQuiet
  <2>2. CASE row' = row /\ \E w \in Workflow, k \in Step, v \in StepResult : Appended(w, k, v)
    BY <2>0, <2>2, AbstractAppend
  <2>3. CASE /\ log' = log
             /\ \E w \in Workflow : /\ \A u \in Workflow \ {w} : row'[u] = row[u]
                                    /\ Succeeded(w) \/ Failed(w)
    BY <2>3, AbstractOutcome
  <2> QED
    BY <2>1, <2>2, <2>3, StepShape
<1> QED
  BY <1>1, <1>2, Typing, OutcomeInvariance, PTL DEF Spec, ImplementsDurableExecution, Abstract!ASpec
==============================================================================
