---------------------- MODULE WorkflowExecution_proofs ----------------------
(***************************************************************************)
(* Theorems about WorkflowExecution, for every number of processes,        *)
(* workflows, steps and results and every bound.  The types.  The journal: *)
(* every body, in every process, computes from the recorded results, the   *)
(* journal has no gaps, and an outcome that says SUCCESS was computed from *)
(* the whole journal.  The budget: a body starts at most MaxRetries + 1    *)
(* times for each submission.  And, unless somebody recovers or resumes,   *)
(* nothing runs twice, but for a crash.                                    *)
(***************************************************************************)
EXTENDS WorkflowExecution, FiniteSetTheorems, TLAPS

USE TableAssumption, ExecutionAssumption DEF TableAssumption, ExecutionAssumption

------------------------------------------------------------------------------
(* The statements on rows.                                                 *)

\* The upsert turns a row into a row.
LEMMA UpsertedType ==
    ASSUME NEW r \in Row, NEW e \in Executor, NEW inc \in BOOLEAN,
           NEW s \in {"PENDING", "ENQUEUED"}
    PROVE  Upserted(r, s, e, inc) \in Row
<1>1. NoOutcome \in Outcome
  BY DEF NoOutcome, Outcome, Journal, Blank
<1>2. InsertedRow(s, e) \in Row
  <2>1. (s = "ENQUEUED") \in BOOLEAN
    OBVIOUS
  <2> QED
    BY <1>1, <2>1 DEF InsertedRow, Row, Status
<1>3. ConflictRow(r, s, e, inc) \in Row
  <2>1. r.attempts + (IF inc THEN 1 ELSE 0) \in Nat
    BY DEF Row
  <2> QED
    BY <2>1 DEF ConflictRow, Row
<1> QED
  BY <1>2, <1>3 DEF Upserted

\* So does the whole insert, the dead-letter check included.
LEMMA InsertStatusType ==
    ASSUME NEW r \in Row, NEW e \in Executor, NEW inc \in BOOLEAN,
           NEW s \in {"PENDING", "ENQUEUED"}
    PROVE  InsertStatus(r, s, e, inc) \in Row
<1> DEFINE u == Upserted(r, s, e, inc)
<1>1. u \in Row
  BY UpsertedType
<1>2. Parked(u) \in Row
  BY <1>1 DEF Parked, Row, Status
<1> QED
  BY <1>1, <1>2 DEF InsertStatus

\* Every other statement also turns a row into a row.
LEMMA StatementType ==
    ASSUME NEW r \in Row, NEW e \in Executor, NEW o \in Outcome
    PROVE  /\ OutcomeRow(r, o) \in Row
           /\ ClearQueueAssignment(r) \in Row
           /\ ClaimRow(r, e) \in Row
           /\ CancelRow(r) \in Row
           /\ ResumeRow(r) \in Row
  BY DEF OutcomeRow, ClearQueueAssignment, ClaimRow, CancelRow, ResumeRow, Row, Status

------------------------------------------------------------------------------
(* Types.                                                                  *)

\* An invocation in progress names a workflow and a process, and one that is
\* at a step is at a step of the body.
GoodRun(x) ==
    /\ x \in RunRecord
    /\ x.pc # "free" => x.wf \in Workflow /\ x.exec \in Executor
    /\ x.pc \in {"decide", "admit", "check", "exec", "record"} => x.step \in Step
    /\ x.pc = "record" => x.val # None

\* A slot that runs nothing is well typed.
LEMMA FreeType == GoodRun(Free)
  BY DEF GoodRun, Free, RunRecord, PC, Kind, Status, Journal, Blank, Step

\* An invocation that was just inserted.
LEMMA InsertedType ==
    ASSUME NEW kind \in Kind, NEW e \in Executor, NEW w \in Workflow,
           NEW o \in {"self", "other"}, NEW st \in Status
    PROVE  GoodRun(Inserted(kind, e, w, o, st))
<1>1. Blank \in Journal
  BY DEF Blank, Journal
<1> QED
  BY <1>1 DEF GoodRun, Inserted, RunRecord, PC, Step

\* Advancing over a result keeps the invocation well typed.
LEMMA AdvanceType ==
    ASSUME NEW x, GoodRun(x), x.pc \in {"check", "record"}, NEW v \in StepResult
    PROVE  GoodRun(Advance(x, v))
<1>1. x.step \in Step /\ x.step + 1 \in 1..(NumSteps + 1)
  BY DEF GoodRun, Step, RunRecord
<1>2. [x.seen EXCEPT ![x.step] = v] \in Journal
  BY <1>1 DEF GoodRun, RunRecord, Journal
<1>3. x.step # NumSteps => x.step + 1 \in Step
  BY <1>1 DEF Step
<1>4. CASE v = StepFailed
  BY <1>1, <1>2, <1>4 DEF GoodRun, Advance, RunRecord, PC
<1>5. CASE v # StepFailed
  BY <1>1, <1>2, <1>3, <1>5 DEF GoodRun, Advance, RunRecord, PC
<1> QED
  BY <1>4, <1>5

\* The run core's part of TypeOK, and the rest.
RunsOK == run \in [Run -> RunRecord] /\ \A r \in Run : GoodRun(run[r])
TableOK == row \in [Workflow -> Row] /\ log \in [Workflow -> Journal]
ProcessOK ==
    /\ active \in [Executor -> SUBSET Workflow]
    /\ up \in [Executor -> {"down", "launching", "up"}]
    /\ todo \in [Executor -> SUBSET [wf : Workflow, queued : BOOLEAN]]
    /\ claimed \in [Executor -> SUBSET Workflow]
HistoryOK ==
    /\ starts \in [Workflow -> Nat]
    /\ resumed \in [Workflow -> Nat]
    /\ effects \in [Workflow -> [Step -> Nat]]
    /\ budget \in Budget

\* TypeOK taken apart, one conjunct per variable group.
LEMMA TypeParts == TypeOK <=> RunsOK /\ TableOK /\ ProcessOK /\ HistoryOK
  BY DEF TypeOK, RunsOK, TableOK, ProcessOK, HistoryOK, GoodRun

\* An EXCEPT on one slot keeps the slots well typed.
LEMMA RunUpdate ==
    ASSUME RunsOK, NEW r \in Run, NEW x, GoodRun(x), run' = [run EXCEPT ![r] = x]
    PROVE  RunsOK'
<1>1. x \in RunRecord
  BY DEF GoodRun
<1>2. run' \in [Run -> RunRecord]
  BY <1>1 DEF RunsOK
<1>3. ASSUME NEW q \in Run PROVE GoodRun(run'[q])
  BY <1>2 DEF RunsOK
<1> QED
  BY <1>2, <1>3 DEF RunsOK

\* An EXCEPT on one row keeps the table well typed.
LEMMA RowUpdate ==
    ASSUME TableOK, NEW w \in Workflow, NEW x \in Row, row' = [row EXCEPT ![w] = x]
    PROVE  row' \in [Workflow -> Row]
  BY DEF TableOK

\* An invocation that was inserted, or refused with a dead-letter error.
LEMMA InvokeType ==
    ASSUME RunsOK, TableOK, NEW r \in Run, NEW kind \in Kind, NEW e \in Executor,
           NEW w \in Workflow, Invoke(r, kind, e, w)
    PROVE  RunsOK' /\ row' \in [Workflow -> Row]
<1> DEFINE after == InsertStatus(row[w], "PENDING", e, kind # "call")
           x == Inserted(kind, e, w, IF row[w].status = "ABSENT" THEN "self" ELSE "other",
                         after.status)
<1>1. row[w] \in Row
  BY DEF TableOK
<1>2. after \in Row
  <2>1. (kind # "call") \in BOOLEAN
    OBVIOUS
  <2> QED
    BY <1>1, <2>1, InsertStatusType
<1>3. row' \in [Workflow -> Row]
  <2>1. row' = [row EXCEPT ![w] = after]
    BY DEF Invoke
  <2> HIDE DEF after
  <2> QED
    BY <1>2, <2>1, RowUpdate
<1>4. GoodRun(x)
  <2>1. after.status \in Status
    BY <1>2 DEF Row
  <2> HIDE DEF after
  <2> QED
    BY <2>1, InsertedType
<1>5. run' = run \/ run' = [run EXCEPT ![r] = x]
  BY DEF Invoke
<1>6. CASE run' = run
  BY <1>3, <1>6 DEF RunsOK
<1>7. CASE run' = [run EXCEPT ![r] = x]
  <2> HIDE DEF x
  <2> QED
    BY <1>3, <1>4, <1>7, RunUpdate
<1> QED
  BY <1>3, <1>5, <1>6, <1>7

\* A recovery pass collects workflows of the table.
LEMMA PendingType ==
    ASSUME TableOK, NEW es \in SUBSET Executor
    PROVE  Pending(es) \subseteq [wf : Workflow, queued : BOOLEAN]
  BY DEF Pending, TableOK, Row

\* Init establishes the types.
LEMMA TypeInit == Init => TypeOK
<1> SUFFICES ASSUME Init PROVE TypeOK
  OBVIOUS
<1>1. NoRow \in Row
  BY DEF NoRow, Row, Status, NoOutcome, Outcome, Journal, Blank
<1>2. Blank \in Journal
  BY DEF Blank, Journal
<1>3. RunsOK
  BY FreeType DEF Init, RunsOK, GoodRun
<1>4. TableOK
  BY <1>1, <1>2 DEF Init, TableOK
<1>5. ProcessOK
  BY DEF Init, ProcessOK
<1>6. HistoryOK
  BY DEF Init, HistoryOK, Budget
<1> QED
  BY <1>3, <1>4, <1>5, <1>6, TypeParts

\* The steps of an invocation change the run table and one row or journal.
LEMMA RunStepType ==
    ASSUME TypeOK, NEW r \in Run, RunStep(r)
    PROVE  TypeOK'
<1> DEFINE x == run[r]
<1>1. RunsOK /\ TableOK /\ ProcessOK /\ HistoryOK
  BY TypeParts
<1>2. GoodRun(x) /\ x \in RunRecord
  BY <1>1 DEF RunsOK
<1>3. RunsOK' /\ TableOK' /\ ProcessOK' /\ HistoryOK'
  <2>1. CASE Decide(r)
    <3>1. GoodRun([x EXCEPT !.pc = "admit"])
      BY <1>2, <2>1 DEF Decide, GoodRun, RunRecord, PC
    <3>2. RunsOK'
      BY <1>1, <2>1, <3>1, FreeType, RunUpdate DEF Decide
    <3> QED
      BY <1>1, <2>1, <3>2 DEF Decide, history, TableOK, ProcessOK, HistoryOK
  <2>2. CASE Admit(r)
    <3>0. x.pc = "admit" /\ run' = [run EXCEPT ![r] = [x EXCEPT !.pc = "check"]]
      BY <1>1, <2>2 DEF Admit, RunsOK
    <3>1. GoodRun([x EXCEPT !.pc = "check"])
      BY <1>2, <3>0 DEF GoodRun, RunRecord, PC, Step
    <3>2. RunsOK'
      BY <1>1, <3>0, <3>1, RunUpdate
    <3>3. x.wf \in Workflow /\ x.exec \in Executor
      BY <1>2, <3>0 DEF GoodRun
    <3> QED
      BY <1>1, <2>2, <3>2, <3>3 DEF Admit, TableOK, ProcessOK, HistoryOK
  <2>3. CASE CheckStep(r)
    <3>1. GoodRun(Checked(x))
      <4>0. x.pc = "check" /\ x.wf \in Workflow /\ x.step \in Step
        BY <1>2, <2>3 DEF CheckStep, GoodRun
      <4>1. GoodRun([x EXCEPT !.pc = "finish", !.why = "cancelled"])
        BY <1>2, <4>0 DEF GoodRun, RunRecord, PC
      <4>2. GoodRun([x EXCEPT !.pc = "exec"])
        BY <1>2, <4>0 DEF GoodRun, RunRecord, PC
      <4>3. log[x.wf][x.step] # None => log[x.wf][x.step] \in StepResult
        BY <1>1, <4>0 DEF TableOK, Journal
      <4>4. log[x.wf][x.step] # None => GoodRun(Advance(x, log[x.wf][x.step]))
        BY <1>2, <4>0, <4>3, AdvanceType
      <4> QED
        BY <4>1, <4>2, <4>4 DEF Checked
    <3>2. RunsOK'
      BY <1>1, <2>3, <3>1, RunUpdate DEF CheckStep
    <3> QED
      BY <1>1, <2>3, <3>2 DEF CheckStep, history, TableOK, ProcessOK, HistoryOK
  <2>4. CASE Execute(r)
    <3>1. PICK v \in StepResult : run' = [run EXCEPT ![r].pc = "record", ![r].val = v]
      BY <2>4 DEF Execute
    <3>2. x.pc = "exec" /\ x.wf \in Workflow /\ x.step \in Step
      BY <1>2, <2>4 DEF Execute, GoodRun
    <3>3. GoodRun([x EXCEPT !.pc = "record", !.val = v])
      BY <1>2, <3>2 DEF GoodRun, RunRecord, PC, StepResult
    <3>4. run' = [run EXCEPT ![r] = [x EXCEPT !.pc = "record", !.val = v]]
      BY <1>1, <3>1 DEF RunsOK
    <3>5. RunsOK'
      BY <1>1, <3>3, <3>4, RunUpdate
    <3>6. effects' \in [Workflow -> [Step -> Nat]]
      BY <1>1, <2>4, <3>2 DEF Execute, HistoryOK
    <3> QED
      BY <1>1, <2>4, <3>5, <3>6 DEF Execute, TableOK, ProcessOK, HistoryOK
  <2>5. CASE RecordStep(r)
    <3>1. x.pc = "record" /\ x.wf \in Workflow /\ x.step \in Step
      BY <1>2, <2>5 DEF RecordStep, GoodRun
    <3>2. CASE log[x.wf][x.step] = None
      <4>1. x.val \in StepResult
        BY <1>2, <3>1 DEF RunRecord, GoodRun
      <4>2. GoodRun(Advance(x, x.val))
        BY <1>2, <3>1, <4>1, AdvanceType
      <4>3. RunsOK'
        BY <1>1, <2>5, <3>2, <4>2, RunUpdate DEF RecordStep
      <4>4. TableOK'
        BY <1>1, <2>5, <3>1, <3>2, <4>1 DEF RecordStep, TableOK, Journal
      <4> QED
        BY <1>1, <2>5, <4>3, <4>4 DEF RecordStep, history, ProcessOK, HistoryOK
    <3>3. CASE log[x.wf][x.step] # None
      <4>1. run' = [run EXCEPT ![r] = [x EXCEPT !.pc = "await"]] /\ log' = log
        BY <1>1, <2>5, <3>3 DEF RecordStep, RunsOK
      <4>2. GoodRun([x EXCEPT !.pc = "await"])
        BY <1>2, <3>1 DEF GoodRun, RunRecord, PC
      <4>3. RunsOK'
        BY <1>1, <4>1, <4>2, RunUpdate
      <4>4. TableOK'
        BY <1>1, <2>5, <4>1 DEF RecordStep, TableOK
      <4> QED
        BY <1>1, <2>5, <4>3, <4>4 DEF RecordStep, history, ProcessOK, HistoryOK
    <3> QED
      BY <3>2, <3>3
  <2>6. CASE WriteOutcome(r)
    <3>1. x.pc = "finish" /\ x.wf \in Workflow /\ x.exec \in Executor
      BY <1>2, <2>6 DEF WriteOutcome, GoodRun
    <3> DEFINE o == [why |-> x.why, seen |-> IF x.why = "ok" THEN x.seen ELSE Blank]
    <3>2. o \in Outcome
      BY <1>2 DEF Outcome, RunRecord, Blank, Journal
    <3>3. row[x.wf] \in Row /\ row' = [row EXCEPT ![x.wf] = OutcomeRow(row[x.wf], o)]
      BY <1>1, <2>6, <3>1 DEF WriteOutcome, TableOK
    <3>4. OutcomeRow(row[x.wf], o) \in Row
      <4> HIDE DEF o
      <4> QED
        BY <3>1, <3>2, <3>3, StatementType
    <3>5. TableOK'
      <4> HIDE DEF o
      <4>1. log' = log
        BY <2>6 DEF WriteOutcome
      <4> QED
        BY <1>1, <3>1, <3>3, <3>4, <4>1, RowUpdate DEF TableOK
    <3>6. GoodRun([x EXCEPT !.pc = "leave"])
      BY <1>2, <3>1 DEF GoodRun, RunRecord, PC
    <3>7. run' = [run EXCEPT ![r] = [x EXCEPT !.pc = "leave"]]
      BY <1>1, <2>6 DEF WriteOutcome, RunsOK
    <3>8. RunsOK'
      BY <1>1, <3>6, <3>7, RunUpdate
    <3> QED
      BY <1>1, <2>6, <3>5, <3>8 DEF WriteOutcome, history, ProcessOK, HistoryOK
  <2>7. CASE AwaitOutcome(r)
    <3>1. run' = [run EXCEPT ![r] = [x EXCEPT !.pc = "leave"]] /\ x.pc = "await"
      BY <1>1, <2>7 DEF AwaitOutcome, RunsOK
    <3>2. GoodRun([x EXCEPT !.pc = "leave"])
      BY <1>2, <3>1 DEF GoodRun, RunRecord, PC
    <3>3. RunsOK'
      BY <1>1, <3>1, <3>2, RunUpdate
    <3> QED
      BY <1>1, <2>7, <3>3 DEF AwaitOutcome, history, TableOK, ProcessOK, HistoryOK
  <2>8. CASE Leave(r)
    <3>1. RunsOK'
      BY <1>1, <2>8, FreeType, RunUpdate DEF Leave
    <3>2. ProcessOK'
      BY <1>1, <2>8 DEF Leave, ProcessOK
    <3> QED
      BY <1>1, <2>8, <3>1, <3>2 DEF Leave, history, TableOK, HistoryOK
  <2> QED
    BY <2>1, <2>2, <2>3, <2>4, <2>5, <2>6, <2>7, <2>8 DEF RunStep
<1> QED
  BY <1>3 DEF TypeOK, RunsOK, TableOK, ProcessOK, HistoryOK, GoodRun

\* The steps of the queue runner and of recovery.
LEMMA ExecutorStepType ==
    ASSUME TypeOK, NEW e \in Executor, ExecutorStep(e)
    PROVE  TypeOK'
<1>1. RunsOK /\ TableOK /\ ProcessOK /\ HistoryOK
  BY TypeParts
<1>2. RunsOK' /\ TableOK' /\ ProcessOK' /\ HistoryOK'
  <2>1. CASE Claim(e)
    <3>1. row' \in [Workflow -> Row]
      <4>1. \A w \in Workflow : ClaimRow(row[w], e) \in Row
        BY <1>1 DEF TableOK, ClaimRow, Row, Status
      <4> QED
        BY <2>1, <4>1 DEF Claim
    <3>2. claimed' \in [Executor -> SUBSET Workflow]
      BY <1>1, <2>1 DEF Claim, ProcessOK
    <3> QED
      BY <1>1, <2>1, <3>1, <3>2 DEF Claim, history, RunsOK, TableOK, ProcessOK, HistoryOK
  <2>2. CASE Dispatch(e)
    <3>1. PICK w \in claimed[e] : /\ \E r \in Run : Invoke(r, "dequeue", e, w)
                                  /\ claimed' = [claimed EXCEPT ![e] = @ \ {w}]
      BY <2>2 DEF Dispatch
    <3>2. w \in Workflow /\ "dequeue" \in Kind
      BY <1>1 DEF ProcessOK, Kind
    <3>3. RunsOK' /\ row' \in [Workflow -> Row]
      BY <1>1, <3>1, <3>2, InvokeType
    <3> QED
      BY <1>1, <2>2, <3>1, <3>3 DEF Dispatch, history, TableOK, ProcessOK, HistoryOK
  <2>3. CASE Launch(e)
    <3>1. Pending({e}) \subseteq [wf : Workflow, queued : BOOLEAN]
      BY <1>1, PendingType
    <3>2. ProcessOK'
      BY <1>1, <2>3, <3>1 DEF Launch, ProcessOK
    <3> QED
      BY <1>1, <2>3, <3>2 DEF Launch, history, RunsOK, TableOK, HistoryOK
  <2>4. CASE Launched(e)
    BY <1>1, <2>4 DEF Launched, history, RunsOK, TableOK, ProcessOK, HistoryOK
  <2>5. CASE RecoverQueued(e)
    <3>1. PICK t \in todo[e] : /\ row' = [row EXCEPT ![t.wf] = ClearQueueAssignment(@)]
                               /\ todo' = [todo EXCEPT ![e] = @ \ {t}]
      BY <2>5 DEF RecoverQueued
    <3>2. t.wf \in Workflow
      BY <1>1 DEF ProcessOK
    <3>3. ClearQueueAssignment(row[t.wf]) \in Row
      BY <1>1, <3>2 DEF TableOK, ClearQueueAssignment, Row, Status
    <3>4. row' \in [Workflow -> Row]
      BY <1>1, <3>1, <3>2, <3>3, RowUpdate DEF TableOK
    <3> QED
      BY <1>1, <2>5, <3>1, <3>4 DEF RecoverQueued, history, RunsOK, TableOK, ProcessOK, HistoryOK
  <2>6. CASE RecoverDirect(e)
    <3>1. PICK t \in todo[e] :
             /\ \E r \in Run : Invoke(r, "recovery", e, t.wf)
             /\ todo' = [todo EXCEPT ![e] =
                   IF InsertFails(row[t.wf], "PENDING", e, TRUE) THEN {} ELSE @ \ {t}]
      BY <2>6 DEF RecoverDirect
    <3>2. t.wf \in Workflow /\ "recovery" \in Kind
      BY <1>1 DEF ProcessOK, Kind
    <3>3. RunsOK' /\ row' \in [Workflow -> Row]
      BY <1>1, <3>1, <3>2, InvokeType
    <3>4. todo' \in [Executor -> SUBSET [wf : Workflow, queued : BOOLEAN]]
      BY <1>1, <3>1 DEF ProcessOK
    <3> QED
      BY <1>1, <2>6, <3>3, <3>4 DEF RecoverDirect, history, TableOK, ProcessOK, HistoryOK
  <2> QED
    BY <2>1, <2>2, <2>3, <2>4, <2>5, <2>6 DEF ExecutorStep
<1> QED
  BY <1>2 DEF TypeOK, RunsOK, TableOK, ProcessOK, HistoryOK, GoodRun

\* Calls, management requests and crashes.
LEMMA EnvironmentType ==
    ASSUME TypeOK, Environment
    PROVE  TypeOK'
<1>1. RunsOK /\ TableOK /\ ProcessOK /\ HistoryOK
  BY TypeParts
<1>2. RunsOK' /\ TableOK' /\ ProcessOK' /\ HistoryOK'
  <2>1. ASSUME NEW e \in Executor, NEW w \in Workflow, Call(e, w)
        PROVE  RunsOK' /\ TableOK' /\ ProcessOK' /\ HistoryOK'
    <3>1. PICK r \in Run : Invoke(r, "call", e, w)
      BY <2>1 DEF Call
    <3>2. "call" \in Kind
      BY DEF Kind
    <3>3. RunsOK' /\ row' \in [Workflow -> Row]
      BY <1>1, <3>1, <3>2, InvokeType
    <3> QED
      BY <1>1, <2>1, <3>3 DEF Call, history, TableOK, ProcessOK, HistoryOK
  <2>2. ASSUME NEW e \in Executor, NEW w \in Workflow, Enqueue(e, w)
        PROVE  RunsOK' /\ TableOK' /\ ProcessOK' /\ HistoryOK'
    <3>1. row[w] \in Row /\ FALSE \in BOOLEAN /\ "ENQUEUED" \in {"PENDING", "ENQUEUED"}
      BY <1>1 DEF TableOK
    <3>2. InsertStatus(row[w], "ENQUEUED", e, FALSE) \in Row
      BY <3>1, InsertStatusType
    <3>3. row' \in [Workflow -> Row]
      BY <1>1, <2>2, <3>2, RowUpdate DEF Enqueue
    <3> QED
      BY <1>1, <2>2, <3>3 DEF Enqueue, history, RunsOK, TableOK, ProcessOK, HistoryOK
  <2>3. ASSUME NEW e \in Executor, NEW target \in Executor, RecoveryRequest(e, target)
        PROVE  RunsOK' /\ TableOK' /\ ProcessOK' /\ HistoryOK'
    <3>1. Pending({target}) \subseteq [wf : Workflow, queued : BOOLEAN]
      BY <1>1, PendingType
    <3>2. ProcessOK'
      BY <1>1, <2>3, <3>1 DEF RecoveryRequest, ProcessOK
    <3>3. HistoryOK'
      BY <1>1, <2>3 DEF RecoveryRequest, history, HistoryOK, Budget
    <3> QED
      BY <1>1, <2>3, <3>2, <3>3 DEF RecoveryRequest, RunsOK, TableOK
  <2>4. ASSUME NEW e \in Executor, Crash(e)
        PROVE  RunsOK' /\ TableOK' /\ ProcessOK' /\ HistoryOK'
    <3>1. RunsOK'
      BY <1>1, <2>4, FreeType DEF Crash, RunsOK, GoodRun
    <3>2. ProcessOK'
      BY <1>1, <2>4 DEF Crash, ProcessOK
    <3>3. HistoryOK'
      BY <1>1, <2>4 DEF Crash, history, HistoryOK, Budget
    <3> QED
      BY <1>1, <2>4, <3>1, <3>2, <3>3 DEF Crash, TableOK
  <2>5. ASSUME NEW w \in Workflow, Cancel(w)
        PROVE  RunsOK' /\ TableOK' /\ ProcessOK' /\ HistoryOK'
    <3>1. CancelRow(row[w]) \in Row
      BY <1>1 DEF TableOK, CancelRow, Row, Status
    <3>2. row' \in [Workflow -> Row]
      BY <1>1, <2>5, <3>1, RowUpdate DEF Cancel
    <3>3. HistoryOK'
      BY <1>1, <2>5 DEF Cancel, history, HistoryOK, Budget
    <3> QED
      BY <1>1, <2>5, <3>2, <3>3 DEF Cancel, RunsOK, TableOK, ProcessOK
  <2>6. ASSUME NEW w \in Workflow, Resume(w)
        PROVE  RunsOK' /\ TableOK' /\ ProcessOK' /\ HistoryOK'
    <3>1. ResumeRow(row[w]) \in Row
      BY <1>1 DEF TableOK, ResumeRow, Row, Status
    <3>2. row' \in [Workflow -> Row]
      BY <1>1, <2>6, <3>1, RowUpdate DEF Resume
    <3>3. HistoryOK'
      BY <1>1, <2>6 DEF Resume, HistoryOK, Budget
    <3> QED
      BY <1>1, <2>6, <3>2, <3>3 DEF Resume, RunsOK, TableOK, ProcessOK
  <2> QED
    BY <2>1, <2>2, <2>3, <2>4, <2>5, <2>6 DEF Environment
<1> QED
  BY <1>2 DEF TypeOK, RunsOK, TableOK, ProcessOK, HistoryOK, GoodRun

\* Every behaviour of the processes and the database is well typed.
THEOREM Typing == Spec => []TypeOK
<1>1. TypeOK /\ [Next]_vars => TypeOK'
  <2> SUFFICES ASSUME TypeOK, [Next]_vars PROVE TypeOK'
    OBVIOUS
  <2>1. CASE UNCHANGED vars
    BY <2>1 DEF TypeOK, vars
  <2> QED
    BY <2>1, RunStepType, ExecutorStepType, EnvironmentType DEF Next
<1> QED
  BY <1>1, TypeInit, PTL DEF Spec


------------------------------------------------------------------------------
(* Lemmas.                                                                 *)

\* Only update_workflow_outcome makes a row a SUCCESS; every other statement
\* leaves a row that ends as SUCCESS with the status and outcome it had.
SameSuccess(r, s) ==
    s.status = "SUCCESS" => r.status = "SUCCESS" /\ s.outcome = r.outcome

\* No other statement makes a row a SUCCESS or changes what one says.
LEMMA StatementKeepsSuccess ==
    ASSUME NEW r \in Row, NEW e \in Executor, NEW inc \in BOOLEAN,
           NEW st \in {"PENDING", "ENQUEUED"}
    PROVE  /\ SameSuccess(r, InsertStatus(r, st, e, inc))
           /\ SameSuccess(r, ClearQueueAssignment(r))
           /\ SameSuccess(r, ClaimRow(r, e))
           /\ SameSuccess(r, CancelRow(r))
           /\ SameSuccess(r, ResumeRow(r))
<1>1. SameSuccess(r, Upserted(r, st, e, inc))
  BY DEF SameSuccess, Upserted, InsertedRow, ConflictRow, Row
<1>2. SameSuccess(r, InsertStatus(r, st, e, inc))
  <2> DEFINE u == Upserted(r, st, e, inc)
  <2>0. u \in Row
    BY UpsertedType
  <2>1. SameSuccess(u, Parked(u))
    BY <2>0 DEF SameSuccess, Parked, Row
  <2> HIDE DEF u
  <2> QED
    BY <1>1, <2>1 DEF u, SameSuccess, InsertStatus
<1> QED
  BY <1>2 DEF SameSuccess, ClearQueueAssignment, ClaimRow, CancelRow, ResumeRow, Row

\* Going on with the result of the step a body is at.
LEMMA AdvanceProgress ==
    ASSUME NEW x, GoodRun(x), Progress(x), x.pc \in {"check", "record"}, NEW v \in StepResult
    PROVE  /\ Progress(Advance(x, v))
           /\ Advance(x, v).wf = x.wf
           /\ Advance(x, v).seen = [x.seen EXCEPT ![x.step] = v]
<1> DEFINE y == Advance(x, v)
<1>1. x \in RunRecord /\ x.step \in Step /\ x.seen \in Journal
  BY DEF GoodRun, RunRecord
<1>2. y.wf = x.wf /\ y.seen = [x.seen EXCEPT ![x.step] = v]
  BY <1>1 DEF Advance, RunRecord
<1>3. CASE v = StepFailed
  <2>1. y.pc = "finish" /\ y.why = "stepError"
    BY <1>1, <1>3 DEF Advance, RunRecord
  <2>2. y.seen[x.step] = StepFailed
    BY <1>1, <1>2, <1>3 DEF Journal
  <2> QED
    BY <1>1, <1>2, <2>1, <2>2 DEF Progress
<1>4. CASE v # StepFailed /\ x.step = NumSteps
  <2>1. y.pc = "finish" /\ y.why = "ok"
    BY <1>1, <1>4 DEF Advance, RunRecord
  <2>2. ASSUME NEW k \in Step PROVE y.seen[k] \in Value
    <3>1. k < x.step \/ k = x.step
      BY <1>4 DEF Step
    <3>2. k < x.step => x.seen[k] \in Value
      BY DEF Progress
    <3>3. y.seen[k] = IF k = x.step THEN v ELSE x.seen[k]
      BY <1>1, <1>2 DEF Journal
    <3> QED
      BY <1>1, <1>4, <3>1, <3>2, <3>3 DEF StepResult, Step
  <2> QED
    BY <1>2, <2>1, <2>2 DEF Progress
<1>5. CASE v # StepFailed /\ x.step # NumSteps
  <2>1. y.pc = "check" /\ y.step = x.step + 1
    BY <1>1, <1>5 DEF Advance, RunRecord
  <2>2. \A k \in Step : IF k < y.step THEN y.seen[k] \in Value ELSE y.seen[k] = None
    BY <1>1, <1>2, <1>5, <2>1 DEF Progress, Journal, Step, StepResult
  <2> QED
    BY <1>2, <2>1, <2>2 DEF Progress
<1> QED
  BY <1>2, <1>3, <1>4, <1>5

\* Steps that write no journal and no SUCCESS, and leave every run as it was,
\* ended, or about to begin, keep the invariant.
LEMMA JournalFrame ==
    ASSUME JournalInv, TypeOK', log' = log,
           \A w \in Workflow : SameSuccess(row[w], row'[w]),
           \A r \in Run : \/ run'[r] = run[r]
                          \/ run'[r].pc = "free"
                          \/ run'[r].pc = "decide" /\ run'[r].seen = Blank /\ run'[r].step = 1
    PROVE  JournalInv'
<1>1. BodyProgress'
  BY DEF JournalInv, BodyProgress, Progress
<1>2. SeenIsRecorded'
  BY DEF JournalInv, SeenIsRecorded, Blank
<1>3. JournalIsPrefix'
  BY DEF JournalInv, JournalIsPrefix
<1>4. SuccessMatchesJournal'
  BY DEF JournalInv, SuccessMatchesJournal, SameSuccess
<1> QED
  BY <1>1, <1>2, <1>3, <1>4 DEF JournalInv

------------------------------------------------------------------------------
(* The invariant.                                                          *)

\* JournalInv holds at the start.
LEMMA JournalInit == Init => JournalInv
<1> SUFFICES ASSUME Init PROVE JournalInv
  OBVIOUS
<1>1. TypeOK
  BY TypeInit
<1>2. \A r \in Run : run[r].pc = "free" /\ run[r].seen = Blank /\ run[r].step = 1
  BY DEF Init, Free
<1>3. \A w \in Workflow : log[w] = Blank /\ row[w].status = "ABSENT"
  BY DEF Init, NoRow
<1> QED
  BY <1>1, <1>2, <1>3 DEF JournalInv, BodyProgress, Progress, SeenIsRecorded, JournalIsPrefix,
     SuccessMatchesJournal, Blank

\* Replacing one run that stays with its workflow, while the journal stays.
LEMMA RunProgress ==
    ASSUME JournalInv, TypeOK', log' = log, NEW r \in Run, NEW x,
           run' = [run EXCEPT ![r] = x], Progress(x), x.wf = run[r].wf, run[r].pc # "free",
           \A k \in Step : x.seen[k] # None => x.seen[k] = log[x.wf][k]
    PROVE  BodyProgress' /\ SeenIsRecorded' /\ JournalIsPrefix'
<1>1. \A q \in Run : run'[q] = IF q = r THEN x ELSE run[q]
  BY DEF JournalInv, TypeOK
<1>2. BodyProgress'
  BY <1>1 DEF JournalInv, BodyProgress, Progress
<1>3. SeenIsRecorded'
  BY <1>1 DEF JournalInv, SeenIsRecorded
<1>4. JournalIsPrefix'
  BY DEF JournalInv, JournalIsPrefix
<1> QED
  BY <1>2, <1>3, <1>4

\* The record that is let in.  No body has used a result of this step yet, no
\* later step is recorded, and the workflow is not a SUCCESS.
LEMMA JournalRecord ==
    ASSUME JournalInv, TypeOK', NEW r \in Run, RecordStep(r), log[run[r].wf][run[r].step] = None
    PROVE  JournalInv'
<1> DEFINE x == run[r]  w == run[r].wf  k == run[r].step  v == run[r].val
<1>1. TypeOK /\ RunsOK /\ TableOK /\ GoodRun(x) /\ Progress(x)
  BY TypeParts DEF JournalInv, RunsOK, BodyProgress
<1>2. x.pc = "record" /\ w \in Workflow /\ k \in Step /\ v \in StepResult /\ x \in RunRecord
  BY <1>1 DEF GoodRun, RecordStep, RunRecord
<1>3. log' = [log EXCEPT ![w][k] = v] /\ run' = [run EXCEPT ![r] = Advance(x, v)] /\ row' = row
  BY DEF RecordStep
<1>4. /\ Progress(Advance(x, v))
      /\ Advance(x, v).wf = w
      /\ Advance(x, v).seen = [x.seen EXCEPT ![k] = v]
  BY <1>1, <1>2, AdvanceProgress
<1>5. \A q \in Run : run'[q] = IF q = r THEN Advance(x, v) ELSE run[q]
  BY <1>1, <1>3 DEF RunsOK
<1>6. \A u \in Workflow, j \in Step : log'[u][j] = IF u = w /\ j = k THEN v ELSE log[u][j]
  BY <1>1, <1>2, <1>3 DEF TableOK, Journal
<1>7. \A j \in Step : j < k => log[w][j] \in Value
  <2> SUFFICES ASSUME NEW j \in Step, j < k PROVE log[w][j] \in Value
    OBVIOUS
  <2>1. x.seen[j] \in Value
    BY <1>1, <1>2 DEF Progress
  <2>2. x.seen[j] # None
    BY <2>1
  <2> QED
    BY <1>2, <2>1, <2>2 DEF JournalInv, SeenIsRecorded
<1>8. BodyProgress'
  <2> SUFFICES ASSUME NEW q \in Run PROVE Progress(run'[q])
    BY DEF BodyProgress
  <2> QED
    BY <1>4, <1>5 DEF JournalInv, BodyProgress
<1>9. SeenIsRecorded'
  <2> SUFFICES ASSUME NEW q \in Run, NEW j \in Step, run'[q].pc # "free", run'[q].seen[j] # None
               PROVE  run'[q].seen[j] = log'[run'[q].wf][j]
    BY DEF SeenIsRecorded
  <2>1. CASE q = r
    <3>1. run'[q].wf = w /\ run'[q].seen[j] = IF j = k THEN v ELSE x.seen[j]
      BY <1>2, <1>4, <1>5, <2>1 DEF RunRecord, Journal
    <3> QED
      BY <1>2, <1>6, <3>1 DEF JournalInv, SeenIsRecorded
  <2>2. CASE q # r
    <3>1. run'[q] = run[q] /\ run[q].wf \in Workflow
      BY <1>1, <1>5, <2>2 DEF RunsOK, GoodRun
    <3>2. run[q].seen[j] = log[run[q].wf][j]
      BY <3>1 DEF JournalInv, SeenIsRecorded
    <3> QED
      BY <1>6, <3>1, <3>2
  <2> QED
    BY <2>1, <2>2
<1>10. JournalIsPrefix'
  <2> SUFFICES ASSUME NEW u \in Workflow, NEW m \in Step, log'[u][m] # None, NEW j \in 1..(m - 1)
               PROVE  log'[u][j] \in Value
    BY DEF JournalIsPrefix
  <2>1. j \in Step /\ j < m
    BY DEF Step
  <2>2. CASE u = w /\ m = k
    BY <1>2, <1>6, <1>7, <2>1, <2>2
  <2>3. CASE ~(u = w /\ m = k)
    <3>1. log[u][m] # None
      BY <1>6, <2>3
    <3>2. log[u][j] \in Value
      BY <3>1 DEF JournalInv, JournalIsPrefix
    <3>3. ~(u = w /\ j = k)
      BY <3>2
    <3> QED
      BY <1>6, <2>1, <3>2, <3>3
  <2> QED
    BY <2>2, <2>3
<1>11. SuccessMatchesJournal'
  <2> SUFFICES ASSUME NEW u \in Workflow, row[u].status = "SUCCESS"
               PROVE  /\ row[u].outcome.why = "ok"
                      /\ row[u].outcome.seen = log'[u]
                      /\ \A j \in Step : log'[u][j] \in Value
    BY <1>3 DEF SuccessMatchesJournal
  <2>1. \A j \in Step : log[u][j] \in Value
    BY DEF JournalInv, SuccessMatchesJournal
  <2>2. u # w
    BY <1>2, <2>1
  <2>3. log'[u] = log[u]
    BY <1>1, <1>2, <1>3, <2>2 DEF TableOK
  <2> QED
    BY <2>3 DEF JournalInv, SuccessMatchesJournal
<1> QED
  BY <1>8, <1>9, <1>10, <1>11 DEF JournalInv

\* The outcome: a body that says "ok" has used a value of every step.
LEMMA JournalOutcome ==
    ASSUME JournalInv, TypeOK', NEW r \in Run, WriteOutcome(r)
    PROVE  JournalInv'
<1> DEFINE x == run[r]
           w == run[r].wf
           o == [why |-> x.why, seen |-> IF x.why = "ok" THEN x.seen ELSE Blank]
           y == [x EXCEPT !.pc = "leave"]
<1>1. TypeOK /\ RunsOK /\ TableOK /\ GoodRun(x) /\ Progress(x)
  BY TypeParts DEF JournalInv, RunsOK, BodyProgress
<1>2. x.pc = "finish" /\ w \in Workflow /\ x \in RunRecord /\ log' = log
  BY <1>1 DEF GoodRun, WriteOutcome
<1>3. row' = [row EXCEPT ![w] = OutcomeRow(row[w], o)]
  BY DEF WriteOutcome
<1>4. run' = [run EXCEPT ![r] = y]
  BY <1>1 DEF WriteOutcome, RunsOK
<1>5. y.wf = w /\ y.seen = x.seen /\ y.pc = "leave"
  BY <1>2 DEF RunRecord
<1>6. BodyProgress' /\ SeenIsRecorded' /\ JournalIsPrefix'
  <2> HIDE DEF y
  <2>1. Progress(y)
    BY <1>5 DEF Progress
  <2>2. \A k \in Step : y.seen[k] # None => y.seen[k] = log[y.wf][k]
    BY <1>2, <1>5 DEF JournalInv, SeenIsRecorded
  <2> QED
    BY <1>2, <1>4, <1>5, <2>1, <2>2, RunProgress
<1>7. SuccessMatchesJournal'
  <2> SUFFICES ASSUME NEW u \in Workflow, row'[u].status = "SUCCESS"
               PROVE  /\ row'[u].outcome.why = "ok"
                      /\ row'[u].outcome.seen = log[u]
                      /\ \A j \in Step : log[u][j] \in Value
    BY <1>2 DEF SuccessMatchesJournal
  <2>1. CASE row'[u] = row[u]
    BY <2>1 DEF JournalInv, SuccessMatchesJournal
  <2>2. CASE row'[u] # row[u]
    <3>1. u = w /\ row'[u] = OutcomeRow(row[w], o) /\ row[w] \in Row
      BY <1>1, <1>2, <1>3, <2>2 DEF TableOK
    <3>2. o.why = x.why /\ o.seen = IF x.why = "ok" THEN x.seen ELSE Blank
      OBVIOUS
    <3> HIDE DEF o
    <3>3. x.why = "ok" /\ row'[u].outcome = o
      BY <2>2, <3>1, <3>2 DEF OutcomeRow, Row
    <3>4. \A j \in Step : x.seen[j] \in Value
      BY <1>1, <1>2, <3>3 DEF Progress
    <3>5. \A j \in Step : x.seen[j] = log[w][j]
      BY <1>2, <3>4 DEF JournalInv, SeenIsRecorded
    <3>6. x.seen = log[w]
      BY <1>1, <1>2, <3>5 DEF RunRecord, TableOK, Journal
    <3> QED
      BY <3>1, <3>2, <3>3, <3>4, <3>6
  <2> QED
    BY <2>1, <2>2
<1> QED
  BY <1>6, <1>7 DEF JournalInv

\* The step of an invocation keeps the invariant.
LEMMA JournalRunStep ==
    ASSUME JournalInv, TypeOK', NEW r \in Run, RunStep(r)
    PROVE  JournalInv'
<1> DEFINE x == run[r]
<1>1. TypeOK /\ RunsOK /\ TableOK /\ GoodRun(x) /\ Progress(x)
  BY TypeParts DEF JournalInv, RunsOK, BodyProgress
<1>2. x \in RunRecord /\ (x.pc # "free" => x.wf \in Workflow)
  BY <1>1 DEF GoodRun
<1>3. x.pc # "free" => \A k \in Step : x.seen[k] # None => x.seen[k] = log[x.wf][k]
  BY DEF JournalInv, SeenIsRecorded
<1>4. ASSUME row' = row, log' = log, BodyProgress', SeenIsRecorded', JournalIsPrefix'
      PROVE  JournalInv'
  BY <1>4 DEF JournalInv, SuccessMatchesJournal
<1>5. CASE Decide(r)
  <2>1. row' = row /\ log' = log
    BY <1>5 DEF Decide
  <2>2. CASE Skip(r)
    <3>1. \A q \in Run : run'[q] = run[q] \/ run'[q].pc = "free"
      BY <1>1, <1>5, <2>2 DEF Decide, RunsOK, Free
    <3> QED
      BY <2>1, <3>1, JournalFrame DEF SameSuccess
  <2>3. CASE ~Skip(r)
    <3>1. x.pc = "decide" /\ run' = [run EXCEPT ![r] = [x EXCEPT !.pc = "admit"]]
      BY <1>5, <2>3 DEF Decide
    <3> DEFINE y == [x EXCEPT !.pc = "admit"]
    <3>2. Progress(y) /\ y.wf = x.wf /\ y.seen = x.seen
      BY <1>1, <1>2, <3>1 DEF Progress, RunRecord
    <3> HIDE DEF y
    <3> QED
      BY <1>3, <1>4, <2>1, <3>1, <3>2, RunProgress DEF y
  <2> QED
    BY <2>2, <2>3
<1>6. CASE Admit(r)
  <2>1. row' = row /\ log' = log /\ x.pc = "admit"
    BY <1>6 DEF Admit
  <2> DEFINE y == [x EXCEPT !.pc = "check"]
  <2>2. run' = [run EXCEPT ![r] = y]
    BY <1>1, <1>6 DEF Admit, RunsOK
  <2>3. y.wf = x.wf /\ y.seen = x.seen /\ y.pc = "check" /\ y.step = x.step
    BY <1>2 DEF RunRecord
  <2>4. Progress(y)
    <3>1. x.seen = Blank /\ x.step = 1
      BY <1>1, <2>1 DEF Progress
    <3> HIDE DEF y
    <3> QED
      BY <2>3, <3>1 DEF Progress, Blank, Step
  <2> HIDE DEF y
  <2> QED
    BY <1>3, <1>4, <2>1, <2>2, <2>3, <2>4, RunProgress
<1>7. CASE CheckStep(r)
  <2>1. row' = row /\ log' = log /\ x.pc = "check" /\ run' = [run EXCEPT ![r] = Checked(x)]
    BY <1>7 DEF CheckStep
  <2>2. x.wf \in Workflow /\ x.step \in Step
    BY <1>1, <2>1 DEF GoodRun
  <2>3. CASE row[x.wf].status = "CANCELLED" \/ log[x.wf][x.step] = None
    <3>1. /\ Checked(x).wf = x.wf /\ Checked(x).seen = x.seen /\ Checked(x).step = x.step
          /\ \/ Checked(x).pc = "exec"
             \/ Checked(x).pc = "finish" /\ Checked(x).why = "cancelled"
      <4>1. CASE row[x.wf].status = "CANCELLED"
        <5>1. Checked(x) = [x EXCEPT !.pc = "finish", !.why = "cancelled"]
          BY <4>1 DEF Checked
        <5> QED
          BY <1>2, <5>1 DEF RunRecord
      <4>2. CASE row[x.wf].status # "CANCELLED"
        <5>1. Checked(x) = [x EXCEPT !.pc = "exec"]
          BY <2>3, <4>2 DEF Checked
        <5> QED
          BY <1>2, <5>1 DEF RunRecord
      <4> QED
        BY <4>1, <4>2
    <3>2. Progress(Checked(x))
      BY <1>1, <2>1, <3>1 DEF Progress
    <3> QED
      BY <1>3, <1>4, <2>1, <3>1, <3>2, RunProgress
  <2>4. CASE row[x.wf].status # "CANCELLED" /\ log[x.wf][x.step] # None
    <3> DEFINE v == log[x.wf][x.step]
    <3>1. v \in StepResult
      BY <1>1, <2>2, <2>4 DEF TableOK, Journal
    <3>2. Checked(x) = Advance(x, v)
      BY <2>4 DEF Checked
    <3>3. /\ Progress(Advance(x, v))
          /\ Advance(x, v).wf = x.wf
          /\ Advance(x, v).seen = [x.seen EXCEPT ![x.step] = v]
      BY <1>1, <2>1, <3>1, AdvanceProgress
    <3>4. \A k \in Step : Advance(x, v).seen[k] # None => Advance(x, v).seen[k] = log[x.wf][k]
      BY <1>2, <1>3, <2>1, <2>2, <3>3 DEF RunRecord, Journal
    <3> DEFINE y == Advance(x, v)
    <3>5. /\ run' = [run EXCEPT ![r] = y] /\ Progress(y) /\ y.wf = x.wf
          /\ \A k \in Step : y.seen[k] # None => y.seen[k] = log[y.wf][k]
      BY <2>1, <3>2, <3>3, <3>4
    <3> HIDE DEF y
    <3> QED
      BY <1>4, <2>1, <3>5, RunProgress
  <2> QED
    BY <2>3, <2>4
<1>8. CASE Execute(r)
  <2>1. row' = row /\ log' = log /\ x.pc = "exec"
    BY <1>8 DEF Execute
  <2>2. PICK v \in StepResult : run' = [run EXCEPT ![r].pc = "record", ![r].val = v]
    BY <1>8 DEF Execute
  <2> DEFINE y == [x EXCEPT !.pc = "record", !.val = v]
  <2>3. run' = [run EXCEPT ![r] = y]
    BY <1>1, <2>2 DEF RunsOK
  <2>4. y.wf = x.wf /\ y.seen = x.seen /\ y.pc = "record" /\ y.step = x.step
    BY <1>2 DEF RunRecord
  <2> HIDE DEF y
  <2>5. Progress(y)
    BY <1>1, <2>1, <2>4 DEF Progress
  <2> QED
    BY <1>3, <1>4, <2>1, <2>3, <2>4, <2>5, RunProgress
<1>9. CASE RecordStep(r) /\ log[x.wf][x.step] # None
  <2>1. row' = row /\ log' = log /\ x.pc = "record"
    BY <1>9 DEF RecordStep
  <2> DEFINE y == [x EXCEPT !.pc = "await"]
  <2>2. run' = [run EXCEPT ![r] = y]
    BY <1>1, <1>9 DEF RecordStep, RunsOK
  <2>3. y.wf = x.wf /\ y.seen = x.seen /\ y.pc = "await"
    BY <1>2 DEF RunRecord
  <2> HIDE DEF y
  <2>4. Progress(y)
    BY <2>3 DEF Progress
  <2> QED
    BY <1>3, <1>4, <2>1, <2>2, <2>3, <2>4, RunProgress
<1>10. CASE RecordStep(r) /\ log[x.wf][x.step] = None
  BY <1>10, JournalRecord
<1>11. CASE WriteOutcome(r)
  BY <1>11, JournalOutcome
<1>12. CASE AwaitOutcome(r)
  <2>1. row' = row /\ log' = log /\ x.pc = "await"
    BY <1>12 DEF AwaitOutcome
  <2> DEFINE y == [x EXCEPT !.pc = "leave"]
  <2>2. run' = [run EXCEPT ![r] = y]
    BY <1>1, <1>12 DEF AwaitOutcome, RunsOK
  <2>3. y.wf = x.wf /\ y.seen = x.seen /\ y.pc = "leave"
    BY <1>2 DEF RunRecord
  <2> HIDE DEF y
  <2>4. Progress(y)
    BY <2>3 DEF Progress
  <2> QED
    BY <1>3, <1>4, <2>1, <2>2, <2>3, <2>4, RunProgress
<1>13. CASE Leave(r)
  <2>1. row' = row /\ log' = log
    BY <1>13 DEF Leave
  <2>2. \A q \in Run : run'[q] = run[q] \/ run'[q].pc = "free"
    BY <1>1, <1>13 DEF Leave, RunsOK, Free
  <2> QED
    BY <2>1, <2>2, JournalFrame DEF SameSuccess
<1> QED
  BY <1>5, <1>6, <1>7, <1>8, <1>9, <1>10, <1>11, <1>12, <1>13 DEF RunStep, RecordStep

\* What an invocation that is inserted does to the run table and the row.
LEMMA InvokeFrame ==
    ASSUME JournalInv, NEW r \in Run, NEW kind \in Kind, NEW e \in Executor,
           NEW w \in Workflow, Invoke(r, kind, e, w)
    PROVE  /\ \A u \in Workflow : SameSuccess(row[u], row'[u])
           /\ \A q \in Run : \/ run'[q] = run[q]
                             \/ run'[q].pc = "decide" /\ run'[q].seen = Blank /\ run'[q].step = 1
<1>1. RunsOK /\ TableOK
  BY TypeParts DEF JournalInv
<1> DEFINE after == InsertStatus(row[w], "PENDING", e, kind # "call")
<1>2. row' = [row EXCEPT ![w] = after] /\ SameSuccess(row[w], after)
  <2>1. (kind # "call") \in BOOLEAN /\ row[w] \in Row
    BY <1>1 DEF TableOK
  <2> QED
    BY <2>1, StatementKeepsSuccess DEF Invoke
<1>3. \A u \in Workflow : SameSuccess(row[u], row'[u])
  <2> HIDE DEF after
  <2> QED
    BY <1>1, <1>2 DEF SameSuccess, TableOK
<1>4. run' = run \/ \E o, st : run' = [run EXCEPT ![r] = Inserted(kind, e, w, o, st)]
  BY DEF Invoke
<1>5. \A q \in Run : \/ run'[q] = run[q]
                     \/ run'[q].pc = "decide" /\ run'[q].seen = Blank /\ run'[q].step = 1
  BY <1>1, <1>4 DEF RunsOK, Inserted
<1> QED
  BY <1>3, <1>5

\* One row that some other statement changes.
LEMMA RowFrame ==
    ASSUME JournalInv, NEW w \in Workflow, NEW x, SameSuccess(row[w], x),
           row' = [row EXCEPT ![w] = x]
    PROVE  \A u \in Workflow : SameSuccess(row[u], row'[u])
  BY DEF JournalInv, TypeOK, SameSuccess

\* The queue runner and the recovery passes keep JournalInv.
LEMMA JournalExecutorStep ==
    ASSUME JournalInv, TypeOK', NEW e \in Executor, ExecutorStep(e)
    PROVE  JournalInv'
<1>1. TypeOK /\ TableOK /\ ProcessOK
  BY TypeParts DEF JournalInv
<1>2. log' = log
  BY DEF ExecutorStep, Claim, Dispatch, Launch, Launched, RecoverQueued, RecoverDirect
<1>3. CASE Claim(e)
  <2>1. run' = run /\ row' = [w \in Workflow |-> ClaimRow(row[w], e)]
    BY <1>3 DEF Claim
  <2>2. \A w \in Workflow : SameSuccess(row[w], row'[w])
    BY <1>1, <2>1, StatementKeepsSuccess DEF TableOK
  <2> QED
    BY <1>2, <2>1, <2>2, JournalFrame
<1>4. CASE Dispatch(e)
  <2>1. PICK w \in claimed[e], r \in Run : Invoke(r, "dequeue", e, w)
    BY <1>4 DEF Dispatch
  <2>2. w \in Workflow /\ "dequeue" \in Kind
    BY <1>1 DEF ProcessOK, Kind
  <2> QED
    BY <1>2, <2>1, <2>2, InvokeFrame, JournalFrame
<1>5. CASE Launch(e) \/ Launched(e)
  <2>1. run' = run /\ row' = row
    BY <1>5 DEF Launch, Launched
  <2> QED
    BY <1>2, <2>1, JournalFrame DEF SameSuccess
<1>6. CASE RecoverQueued(e)
  <2>1. PICK t \in todo[e] : row' = [row EXCEPT ![t.wf] = ClearQueueAssignment(row[t.wf])]
    BY <1>6 DEF RecoverQueued
  <2>2. t.wf \in Workflow
    BY <1>1 DEF ProcessOK
  <2>3. SameSuccess(row[t.wf], ClearQueueAssignment(row[t.wf]))
    BY DEF SameSuccess, ClearQueueAssignment
  <2>4. run' = run
    BY <1>6 DEF RecoverQueued
  <2>5. \A u \in Workflow : SameSuccess(row[u], row'[u])
    BY <2>1, <2>2, <2>3, RowFrame
  <2> QED
    BY <1>2, <2>4, <2>5, JournalFrame
<1>7. CASE RecoverDirect(e)
  <2>1. PICK t \in todo[e], r \in Run : Invoke(r, "recovery", e, t.wf)
    BY <1>7 DEF RecoverDirect
  <2>2. t.wf \in Workflow /\ "recovery" \in Kind
    BY <1>1 DEF ProcessOK, Kind
  <2> QED
    BY <1>2, <2>1, <2>2, InvokeFrame, JournalFrame
<1> QED
  BY <1>3, <1>4, <1>5, <1>6, <1>7 DEF ExecutorStep

\* So do calls, cancellations, resumes, crashes and restarts.
LEMMA JournalEnvironment ==
    ASSUME JournalInv, TypeOK', Environment
    PROVE  JournalInv'
<1>1. TypeOK /\ RunsOK /\ TableOK /\ ProcessOK
  BY TypeParts DEF JournalInv
<1>2. ASSUME NEW e \in Executor, NEW w \in Workflow, Call(e, w) PROVE JournalInv'
  <2>1. PICK r \in Run : Invoke(r, "call", e, w)
    BY <1>2 DEF Call
  <2>2. "call" \in Kind /\ log' = log
    BY <1>2 DEF Kind, Call
  <2> QED
    BY <2>1, <2>2, InvokeFrame, JournalFrame
<1>3. ASSUME NEW e \in Executor, NEW w \in Workflow, Enqueue(e, w) PROVE JournalInv'
  <2>1. row[w] \in Row /\ FALSE \in BOOLEAN /\ "ENQUEUED" \in {"PENDING", "ENQUEUED"}
    BY <1>1 DEF TableOK
  <2>2. SameSuccess(row[w], InsertStatus(row[w], "ENQUEUED", e, FALSE))
    BY <2>1, StatementKeepsSuccess
  <2>3. log' = log /\ run' = run
    BY <1>3 DEF Enqueue
  <2>4. \A u \in Workflow : SameSuccess(row[u], row'[u])
    BY <1>3, <2>2, RowFrame DEF Enqueue
  <2> QED
    BY <2>3, <2>4, JournalFrame
<1>4. ASSUME NEW e \in Executor, NEW t \in Executor, RecoveryRequest(e, t) PROVE JournalInv'
  <2>1. log' = log /\ run' = run /\ row' = row
    BY <1>4 DEF RecoveryRequest
  <2> QED
    BY <2>1, JournalFrame DEF SameSuccess
<1>5. ASSUME NEW e \in Executor, Crash(e) PROVE JournalInv'
  <2>1. log' = log /\ row' = row
    BY <1>5 DEF Crash
  <2>2. \A q \in Run : run'[q] = run[q] \/ run'[q].pc = "free"
    BY <1>5 DEF Crash, Free
  <2> QED
    BY <2>1, <2>2, JournalFrame DEF SameSuccess
<1>6. ASSUME NEW w \in Workflow, Cancel(w) \/ Resume(w) PROVE JournalInv'
  <2>1. log' = log /\ run' = run
    BY <1>6 DEF Cancel, Resume
  <2>2. row' = [row EXCEPT ![w] = CancelRow(row[w])] \/ row' = [row EXCEPT ![w] = ResumeRow(row[w])]
    BY <1>6 DEF Cancel, Resume
  <2>3. SameSuccess(row[w], CancelRow(row[w])) /\ SameSuccess(row[w], ResumeRow(row[w]))
    <3>1. row[w] \in Row
      BY <1>1 DEF TableOK
    <3> QED
      BY <3>1 DEF SameSuccess, CancelRow, ResumeRow, Row
  <2>4. \A u \in Workflow : SameSuccess(row[u], row'[u])
    BY <2>2, <2>3, RowFrame
  <2> QED
    BY <2>1, <2>4, JournalFrame
<1> QED
  BY <1>2, <1>3, <1>4, <1>5, <1>6 DEF Environment

\* Every behaviour keeps the journal invariant.
LEMMA JournalInvariance == Spec => []JournalInv
<1>1. JournalInv /\ TypeOK' /\ [Next]_vars => JournalInv'
  <2> SUFFICES ASSUME JournalInv, TypeOK', [Next]_vars PROVE JournalInv'
    OBVIOUS
  <2>1. CASE UNCHANGED vars
    <3>1. log' = log /\ run' = run /\ row' = row
      BY <2>1 DEF vars
    <3> QED
      BY <3>1, JournalFrame DEF SameSuccess
  <2> QED
    BY <2>1, JournalRunStep, JournalExecutorStep, JournalEnvironment DEF Next
<1> QED
  BY <1>1, JournalInit, Typing, PTL DEF Spec

\* Concurrent and repeated executions of a workflow, in whatever processes,
\* all use the results that are recorded.
THEOREM BodiesAgree == Spec => []SeenIsRecorded
<1>1. JournalInv => SeenIsRecorded
  BY DEF JournalInv
<1> QED
  BY <1>1, JournalInvariance, PTL

\* The journal of a workflow is a prefix of its steps, and nothing follows a
\* step that failed.
THEOREM JournalHasNoGaps == Spec => []JournalIsPrefix
<1>1. JournalInv => JournalIsPrefix
  BY DEF JournalInv
<1> QED
  BY <1>1, JournalInvariance, PTL

\* A SUCCESS was computed from the whole journal.
THEOREM SuccessIsRecorded == Spec => []SuccessMatchesJournal
<1>1. JournalInv => SuccessMatchesJournal
  BY DEF JournalInv
<1> QED
  BY <1>1, JournalInvariance, PTL

------------------------------------------------------------------------------
(* The budget of a workflow.                                               *)

\* The most a body starts for each time its workflow is submitted.
Allowed == MaxRetries + 1

\* The attempts a row has counted, as far as they may start a body.
Counted(a) == IF a < Allowed THEN a ELSE Allowed

\* The invocation x of w has been let in by the insert and not yet started.
Granted(x) == x.status \notin {"SUCCESS", "ERROR"} /\ (x.kind = "call" => x.owner = "self")
IsGrant(x, w) == x.pc \in {"decide", "admit"} /\ x.wf = w /\ Granted(x)
GrantsOf(runs, w) == {r \in Run : IsGrant(runs[r], w)}

\* Every invocation past should_skip is granted.
AdmitsGranted == \A r \in Run : run[r].pc = "admit" => Granted(run[r])

\* Every body that has started, and every invocation that may still start one,
\* is paid for by an attempt or by a resume that has given the budget back.
BudgetInv ==
    /\ AdmitsGranted
    /\ \A w \in Workflow : row[w].status = "ABSENT" => row[w].attempts = 0
    /\ MaxRetries > 0 => \A w \in Workflow :
          /\ IsFiniteSet(GrantsOf(run, w))
          /\ starts[w] + Cardinality(GrantsOf(run, w))
                <= resumed[w] * Allowed + Counted(row[w].attempts)

\* What a step may do to the budget of w.  Nothing that costs:
Costless(w) ==
    /\ starts'[w] = starts[w] /\ resumed'[w] = resumed[w]
    /\ row[w].attempts <= row'[w].attempts
    /\ GrantsOf(run', w) \subseteq GrantsOf(run, w)

\* or an invocation r is let in for one more attempt,
LetsIn(w, r) ==
    /\ starts'[w] = starts[w] /\ resumed'[w] = resumed[w]
    /\ row'[w].attempts = row[w].attempts + 1 /\ (MaxRetries > 0 => row'[w].attempts <= Allowed)
    /\ GrantsOf(run', w) \subseteq GrantsOf(run, w) \cup {r}

\* or one that was let in starts its body,
Begins(w, r) ==
    /\ starts'[w] = starts[w] + 1 /\ resumed'[w] = resumed[w]
    /\ row'[w].attempts = row[w].attempts
    /\ r \in GrantsOf(run, w) /\ GrantsOf(run', w) \subseteq GrantsOf(run, w) \ {r}

\* or somebody submits the workflow again.
Resubmits(w) ==
    /\ starts'[w] = starts[w] /\ resumed'[w] = resumed[w] + 1
    /\ row'[w].attempts = 0
    /\ GrantsOf(run', w) \subseteq GrantsOf(run, w)

Spends(w) ==
    /\ \/ Costless(w)
       \/ \E r \in Run : LetsIn(w, r) \/ Begins(w, r)
       \/ Resubmits(w)
    /\ row'[w].status = "ABSENT" => row[w].status = "ABSENT" /\ row'[w].attempts = row[w].attempts

\* One more factor.
LEMMA OneMoreTime ==
    ASSUME NEW n \in Nat, NEW m \in Nat
    PROVE  n * m \in Nat /\ (n + 1) * m = n * m + m
  OBVIOUS

\* Each of these keeps the budget.
LEMMA SpendsKeeps ==
    ASSUME TypeOK, TypeOK', MaxRetries > 0, NEW w \in Workflow, Spends(w),
           IsFiniteSet(GrantsOf(run, w)),
           starts[w] + Cardinality(GrantsOf(run, w))
               <= resumed[w] * Allowed + Counted(row[w].attempts)
    PROVE  /\ IsFiniteSet(GrantsOf(run', w))
           /\ starts'[w] + Cardinality(GrantsOf(run', w))
                 <= resumed'[w] * Allowed + Counted(row'[w].attempts)
<1> DEFINE G == GrantsOf(run, w)
           H == GrantsOf(run', w)
           P == resumed[w] * Allowed
<1>1. /\ starts[w] \in Nat /\ resumed[w] \in Nat /\ row[w].attempts \in Nat
      /\ row'[w].attempts \in Nat
  BY DEF TypeOK, Row
<1>2. Allowed \in Nat /\ P \in Nat /\ (resumed[w] + 1) * Allowed = P + Allowed
  <2>1. Allowed \in Nat
    BY DEF Allowed
  <2> QED
    BY <1>1, <2>1, OneMoreTime
<1>3. IsFiniteSet(G) /\ Cardinality(G) \in Nat
  BY FS_CardinalityType
<1>4. starts[w] + Cardinality(G) <= P + Counted(row[w].attempts)
  OBVIOUS
<1>6. ASSUME H \subseteq G PROVE IsFiniteSet(H) /\ Cardinality(H) \in Nat /\ Cardinality(H) <= Cardinality(G)
  BY <1>3, <1>6, FS_Subset, FS_CardinalityType
<1> HIDE DEF G, H, P
<1>7. CASE Costless(w)
  <2>1. H \subseteq G /\ starts'[w] = starts[w] /\ resumed'[w] = resumed[w]
        /\ row[w].attempts <= row'[w].attempts
    BY <1>7 DEF Costless, G, H
  <2>2. Counted(row[w].attempts) <= Counted(row'[w].attempts)
    BY <1>1, <1>2, <2>1 DEF Counted
  <2>3. Counted(row[w].attempts) \in Nat /\ Counted(row'[w].attempts) \in Nat
    BY <1>1, <1>2 DEF Counted
  <2>4. IsFiniteSet(H) /\ Cardinality(H) \in Nat /\ Cardinality(H) <= Cardinality(G)
    BY <1>6, <2>1
  <2>5. starts'[w] + Cardinality(H) <= P + Counted(row'[w].attempts)
    BY <1>1, <1>2, <1>3, <1>4, <2>1, <2>2, <2>3, <2>4
  <2> QED
    BY <2>1, <2>4, <2>5 DEF H, P
<1>8. ASSUME NEW r \in Run, LetsIn(w, r)
      PROVE  IsFiniteSet(H) /\ starts'[w] + Cardinality(H) <= P + Counted(row'[w].attempts)
             /\ resumed'[w] = resumed[w]
  <2>1. H \subseteq G \cup {r} /\ starts'[w] = starts[w] /\ resumed'[w] = resumed[w]
        /\ row'[w].attempts = row[w].attempts + 1 /\ row'[w].attempts <= Allowed
    BY <1>8 DEF LetsIn, G, H
  <2>2. /\ IsFiniteSet(G \cup {r})
        /\ Cardinality(G \cup {r}) \in Nat
        /\ Cardinality(G \cup {r}) <= Cardinality(G) + 1
    <3>1. IsFiniteSet(G \cup {r}) /\ Cardinality(G \cup {r}) = IF r \in G THEN Cardinality(G) ELSE Cardinality(G) + 1
      BY <1>3, FS_AddElement
    <3> QED
      BY <1>3, <3>1
  <2>3. IsFiniteSet(H) /\ Cardinality(H) \in Nat /\ Cardinality(H) <= Cardinality(G \cup {r})
    BY <2>1, <2>2, FS_Subset, FS_CardinalityType
  <2>4. Counted(row[w].attempts) = row[w].attempts /\ Counted(row'[w].attempts) = row[w].attempts + 1
    BY <1>1, <1>2, <2>1 DEF Counted
  <2>5. starts'[w] + Cardinality(H) <= P + Counted(row'[w].attempts)
    BY <1>1, <1>2, <1>3, <1>4, <2>1, <2>2, <2>3, <2>4
  <2> QED
    BY <2>1, <2>3, <2>5
<1>9. ASSUME NEW r \in Run, Begins(w, r)
      PROVE  IsFiniteSet(H) /\ starts'[w] + Cardinality(H) <= P + Counted(row'[w].attempts)
             /\ resumed'[w] = resumed[w]
  <2>1. H \subseteq G \ {r} /\ r \in G /\ starts'[w] = starts[w] + 1 /\ resumed'[w] = resumed[w]
        /\ row'[w].attempts = row[w].attempts
    BY <1>9 DEF Begins, G, H
  <2>2. IsFiniteSet(G \ {r}) /\ Cardinality(G \ {r}) = Cardinality(G) - 1
    BY <1>3, <2>1, FS_RemoveElement
  <2>3. IsFiniteSet(H) /\ Cardinality(H) \in Nat /\ Cardinality(H) <= Cardinality(G \ {r})
    BY <2>1, <2>2, FS_Subset, FS_CardinalityType
  <2>4. Counted(row[w].attempts) \in Nat
    BY <1>1, <1>2 DEF Counted
  <2>5. starts'[w] + Cardinality(H) <= P + Counted(row'[w].attempts)
    BY <1>1, <1>2, <1>3, <1>4, <2>1, <2>2, <2>3, <2>4
  <2> QED
    BY <2>1, <2>3, <2>5
<1>10. CASE Resubmits(w)
  <2>1. H \subseteq G /\ starts'[w] = starts[w] /\ resumed'[w] = resumed[w] + 1
        /\ row'[w].attempts = 0
    BY <1>10 DEF Resubmits, G, H
  <2>2. Counted(row[w].attempts) \in Nat /\ Counted(row[w].attempts) <= Allowed /\ Counted(0) = 0
    BY <1>1, <1>2 DEF Counted, Allowed
  <2>3. IsFiniteSet(H) /\ Cardinality(H) \in Nat /\ Cardinality(H) <= Cardinality(G)
    BY <1>6, <2>1
  <2>4. starts'[w] + Cardinality(H) <= P + Allowed
    BY <1>1, <1>2, <1>3, <1>4, <2>1, <2>2, <2>3
  <2>5. resumed'[w] * Allowed = P + Allowed
    BY <1>2, <2>1
  <2>6. starts'[w] + Cardinality(H) <= resumed'[w] * Allowed + Counted(row'[w].attempts)
    BY <1>2, <2>1, <2>2, <2>4, <2>5
  <2> QED
    BY <2>3, <2>6 DEF H
<1> QED
  BY <1>7, <1>8, <1>9, <1>10 DEF Spends, H, P

\* What the insert of an invocation answers and leaves.
Answered(old, new, fails, e, inc) ==
    /\ new.status # "ABSENT"
    /\ fails => old.status # "ABSENT" /\ old.attempts <= new.attempts
    /\ ~fails => /\ new.executor = e
                 /\ new.status = IF old.status = "ABSENT" THEN "PENDING" ELSE old.status
                 /\ new.attempts = IF old.status = "ABSENT" THEN 1
                                   ELSE old.attempts + IF inc THEN 1 ELSE 0
                 /\ MaxRetries > 0 /\ new.status \notin {"SUCCESS", "ERROR"}
                       => new.attempts <= MaxRetries + 1

\* It does so.
LEMMA Insertion ==
    ASSUME NEW old \in Row, NEW e \in Executor, NEW inc \in BOOLEAN
    PROVE  Answered(old, InsertStatus(old, "PENDING", e, inc),
                    InsertFails(old, "PENDING", e, inc), e, inc)
<1> DEFINE u == Upserted(old, "PENDING", e, inc)
<1>1. u \in Row
  BY UpsertedType
<1>2. /\ u.executor = e
      /\ u.status = IF old.status = "ABSENT" THEN "PENDING" ELSE old.status
      /\ u.attempts = IF old.status = "ABSENT" THEN 1 ELSE old.attempts + IF inc THEN 1 ELSE 0
  <2>1. CASE old.status = "ABSENT"
    <3>1. u = InsertedRow("PENDING", e)
      BY <2>1 DEF Upserted
    <3> QED
      BY <2>1, <3>1 DEF InsertedRow
  <2>2. CASE old.status # "ABSENT"
    <3>1. u = [old EXCEPT !.attempts = @ + IF inc THEN 1 ELSE 0, !.executor = e]
      BY <2>2 DEF Upserted, ConflictRow
    <3> HIDE DEF u
    <3> QED
      BY <2>2, <3>1 DEF Row
  <2> QED
    BY <2>1, <2>2
<1> HIDE DEF u
<1>3. old.attempts \in Nat /\ u.attempts \in Nat
  BY <1>1 DEF Row
<1>4. old.status = "ABSENT" => ~OverBudget(u)
  BY <1>2 DEF OverBudget
<1>5. old.status # "ABSENT" => old.attempts <= u.attempts
  BY <1>2, <1>3
<1>6. Parked(u).attempts = u.attempts /\ (u.status # "ABSENT" => Parked(u).status # "ABSENT")
  BY <1>1 DEF Parked, Row
<1>7. u.status # "ABSENT"
  BY <1>2
<1>8. CASE OverBudget(u)
  <2>1. InsertFails(old, "PENDING", e, inc) /\ InsertStatus(old, "PENDING", e, inc) = Parked(u)
    BY <1>8 DEF InsertFails, InsertStatus, u
  <2> QED
    BY <1>4, <1>5, <1>6, <1>7, <1>8, <2>1 DEF Answered
<1>9. CASE ~OverBudget(u)
  <2>1. ~InsertFails(old, "PENDING", e, inc) /\ InsertStatus(old, "PENDING", e, inc) = u
    BY <1>9 DEF InsertFails, InsertStatus, u
  <2>2. MaxRetries > 0 /\ u.status \notin {"SUCCESS", "ERROR"} => u.attempts <= MaxRetries + 1
    BY <1>3, <1>9 DEF OverBudget
  <2> QED
    BY <1>2, <1>7, <2>1, <2>2 DEF Answered
<1> QED
  BY <1>8, <1>9

\* What an invocation does to the slots.
LEMMA Invoked ==
    ASSUME TypeOK, NEW r \in Run, NEW kind \in Kind, NEW e \in Executor, NEW w \in Workflow,
           Invoke(r, kind, e, w)
    PROVE  /\ run[r].pc = "free"
           /\ \A u \in Workflow : u # w => row'[u] = row[u]
           /\ row'[w] = InsertStatus(row[w], "PENDING", e, kind # "call")
           /\ \A q \in Run : q # r => run'[q] = run[q]
           /\ InsertFails(row[w], "PENDING", e, kind # "call") => run'[r] = run[r]
           /\ ~InsertFails(row[w], "PENDING", e, kind # "call") =>
                 run'[r] = Inserted(kind, e, w, IF row[w].status = "ABSENT" THEN "self" ELSE "other",
                                    row'[w].status)
<1> DEFINE after == InsertStatus(row[w], "PENDING", e, kind # "call")
           fails == InsertFails(row[w], "PENDING", e, kind # "call")
           x == Inserted(kind, e, w, IF row[w].status = "ABSENT" THEN "self" ELSE "other",
                         after.status)
<1>1. /\ run[r].pc = "free"
      /\ row' = [row EXCEPT ![w] = after]
      /\ run' = IF fails THEN run ELSE [run EXCEPT ![r] = x]
  BY DEF Invoke
<1> HIDE DEF after, fails, x
<1>2. row'[w] = after /\ \A u \in Workflow : u # w => row'[u] = row[u]
  BY <1>1 DEF TypeOK
<1>3. \A q \in Run : q # r => run'[q] = run[q]
  BY <1>1 DEF TypeOK
<1>4. run'[r] = IF fails THEN run[r] ELSE x
  BY <1>1 DEF TypeOK
<1> QED
  BY <1>1, <1>2, <1>3, <1>4 DEF after, fails, x

\* The grants a step leaves.
LEMMA GrantsShrink ==
    ASSUME NEW w,
           \A r \in Run : IsGrant(run'[r], w) => IsGrant(run[r], w)
    PROVE  GrantsOf(run', w) \subseteq GrantsOf(run, w)
  BY DEF GrantsOf

\* An invocation that is let in pays with an attempt.
LEMMA InvokeSpends ==
    ASSUME TypeOK, AdmitsGranted, NEW r \in Run, NEW kind \in Kind,
           NEW e \in Executor, NEW w \in Workflow, Invoke(r, kind, e, w),
           \A u \in Workflow : row[u].status = "ABSENT" => row[u].attempts = 0,
           starts' = starts, resumed' = resumed
    PROVE  AdmitsGranted' /\ \A u \in Workflow : Spends(u)
<1> DEFINE inc == kind # "call"
           fails == InsertFails(row[w], "PENDING", e, inc)
           x == Inserted(kind, e, w, IF row[w].status = "ABSENT" THEN "self" ELSE "other",
                         row'[w].status)
<1>1. /\ run[r].pc = "free"
      /\ \A u \in Workflow : u # w => row'[u] = row[u]
      /\ row'[w] = InsertStatus(row[w], "PENDING", e, inc)
      /\ \A q \in Run : q # r => run'[q] = run[q]
      /\ fails => run'[r] = run[r]
      /\ ~fails => run'[r] = x
  BY Invoked
<1>2. row[w] \in Row /\ inc \in BOOLEAN
  BY DEF TypeOK
<1>3. /\ row'[w].status # "ABSENT"
      /\ fails => row[w].status # "ABSENT" /\ row[w].attempts <= row'[w].attempts
      /\ ~fails => /\ row'[w].attempts = IF row[w].status = "ABSENT" THEN 1
                                         ELSE row[w].attempts + IF inc THEN 1 ELSE 0
                   /\ MaxRetries > 0 /\ row'[w].status \notin {"SUCCESS", "ERROR"}
                         => row'[w].attempts <= Allowed
  <2>1. Answered(row[w], row'[w], fails, e, inc)
    BY <1>1, <1>2, Insertion
  <2> QED
    BY <2>1 DEF Answered, Allowed
<1>4. /\ x.pc = "decide" /\ x.wf = w /\ x.kind = kind /\ x.status = row'[w].status
      /\ x.owner = IF row[w].status = "ABSENT" THEN "self" ELSE "other"
  BY DEF Inserted
<1> HIDE DEF fails, x, inc
<1>5. AdmitsGranted'
  BY <1>1, <1>4 DEF AdmitsGranted
<1>6. \A u \in Workflow, q \in Run :
         IsGrant(run'[q], u) => IsGrant(run[q], u) \/ (q = r /\ u = w /\ ~fails /\ IsGrant(x, w))
  BY <1>1, <1>4 DEF IsGrant
<1>7. row[w].attempts \in Nat /\ (row[w].status = "ABSENT" => row[w].attempts = 0)
  BY <1>2 DEF Row
<1>8. ASSUME NEW u \in Workflow, u # w PROVE Spends(u)
  <2>1. \A q \in Run : IsGrant(run'[q], u) => IsGrant(run[q], u)
    BY <1>6, <1>8
  <2>2. GrantsOf(run', u) \subseteq GrantsOf(run, u)
    BY <2>1, GrantsShrink
  <2>3. row'[u] = row[u] /\ row[u].attempts \in Nat
    BY <1>1, <1>8 DEF TypeOK, Row
  <2> QED
    BY <2>2, <2>3 DEF Spends, Costless
<1>9. CASE fails \/ ~IsGrant(x, w)
  <2>1. \A q \in Run : IsGrant(run'[q], w) => IsGrant(run[q], w)
    BY <1>6, <1>9
  <2>2. GrantsOf(run', w) \subseteq GrantsOf(run, w)
    BY <2>1, GrantsShrink
  <2>3. row[w].attempts <= row'[w].attempts
    BY <1>3, <1>7
  <2>4. Costless(w)
    BY <2>2, <2>3 DEF Costless
  <2> QED
    BY <1>3, <1>8, <2>4, <1>5 DEF Spends
<1>10. CASE ~fails /\ IsGrant(x, w)
  <2>1. GrantsOf(run', w) \subseteq GrantsOf(run, w) \cup {r}
    BY <1>6 DEF GrantsOf
  <2>2. row'[w].status \notin {"SUCCESS", "ERROR"} /\ (kind = "call" => row[w].status = "ABSENT")
    BY <1>4, <1>10 DEF IsGrant, Granted
  <2>3. row'[w].attempts = row[w].attempts + 1 /\ (MaxRetries > 0 => row'[w].attempts <= Allowed)
    <3>1. CASE row[w].status = "ABSENT"
      BY <1>3, <1>7, <1>10, <2>2, <3>1
    <3>2. CASE row[w].status # "ABSENT"
      <4>1. inc
        BY <2>2, <3>2 DEF inc
      <4> QED
        BY <1>3, <1>10, <2>2, <3>2, <4>1
    <3> QED
      BY <3>1, <3>2
  <2>4. LetsIn(w, r)
    BY <2>1, <2>3 DEF LetsIn
  <2> QED
    BY <1>3, <1>8, <2>4, <1>5 DEF Spends
<1> QED
  BY <1>9, <1>10

\* A statement that gives the budget back to nobody.
Keeps(old, new) ==
    /\ old.attempts <= new.attempts
    /\ new.status = "ABSENT" => old.status = "ABSENT" /\ new.attempts = old.attempts

\* The statements that are neither inserts nor resumes.
LEMMA StatementKeeps ==
    ASSUME NEW old \in Row, NEW e \in Executor, NEW o
    PROVE  /\ Keeps(old, old)
           /\ Keeps(old, OutcomeRow(old, o))
           /\ Keeps(old, ClearQueueAssignment(old))
           /\ Keeps(old, ClaimRow(old, e))
           /\ Keeps(old, CancelRow(old))
<1>1. old.attempts <= old.attempts
  BY DEF Row
<1> QED
  BY <1>1 DEF Keeps, OutcomeRow, ClearQueueAssignment, ClaimRow, CancelRow, Row

\* An enqueue counts nothing.
LEMMA EnqueueKeeps ==
    ASSUME NEW old \in Row, NEW e \in Executor, old.status = "ABSENT" => old.attempts = 0
    PROVE  Keeps(old, InsertStatus(old, "ENQUEUED", e, FALSE))
<1> DEFINE u == Upserted(old, "ENQUEUED", e, FALSE)
<1>1. old.attempts \in Nat
  BY DEF Row
<1>2. u.status # "ABSENT" /\ u.attempts = old.attempts
  BY <1>1 DEF Upserted, InsertedRow, ConflictRow
<1>3. u \in Row
  BY UpsertedType
<1> HIDE DEF u
<1>4. Parked(u).attempts = u.attempts /\ Parked(u).status # "ABSENT"
  BY <1>2, <1>3 DEF Parked, Row
<1>5. InsertStatus(old, "ENQUEUED", e, FALSE) = IF OverBudget(u) THEN Parked(u) ELSE u
  BY DEF InsertStatus, u
<1> DEFINE new == InsertStatus(old, "ENQUEUED", e, FALSE)
<1> HIDE DEF new
<1>6. new = Parked(u) \/ new = u
  BY <1>5 DEF new
<1>7. new.attempts = old.attempts /\ new.status # "ABSENT"
  BY <1>2, <1>4, <1>6
<1>8. Keeps(old, new)
  BY <1>1, <1>7 DEF Keeps
<1> QED
  BY <1>8 DEF new

\* Steps that let nobody in and start nothing.
LEMMA NothingSpent ==
    ASSUME AdmitsGranted, starts' = starts, resumed' = resumed,
           \A q \in Run : run'[q] = run[q] \/ run'[q].pc \notin {"decide", "admit"},
           \A u \in Workflow : Keeps(row[u], row'[u])
    PROVE  AdmitsGranted' /\ \A u \in Workflow : Spends(u)
<1>1. AdmitsGranted'
  BY DEF AdmitsGranted
<1>2. ASSUME NEW u \in Workflow PROVE Spends(u)
  <2>1. \A q \in Run : IsGrant(run'[q], u) => IsGrant(run[q], u)
    BY DEF IsGrant
  <2>2. GrantsOf(run', u) \subseteq GrantsOf(run, u)
    BY <2>1, GrantsShrink
  <2> QED
    BY <2>2 DEF Spends, Costless, Keeps
<1> QED
  BY <1>1, <1>2

\* The step of an invocation or a body.
LEMMA RunStepSpends ==
    ASSUME TypeOK, AdmitsGranted, NEW r \in Run, RunStep(r)
    PROVE  AdmitsGranted' /\ \A u \in Workflow : Spends(u)
<1> DEFINE x == run[r]
<1>1. \A u \in Workflow : row[u] \in Row /\ Keeps(row[u], row[u])
  BY DEF TypeOK, Keeps, Row
<1>2. x \in RunRecord /\ (x.pc # "free" => x.wf \in Workflow) /\ run \in [Run -> RunRecord]
  BY DEF TypeOK
<1>3. CASE Decide(r) /\ ~Skip(r)
  <2>1. x.pc = "decide" /\ run' = [run EXCEPT ![r] = [x EXCEPT !.pc = "admit"]]
        /\ row' = row /\ starts' = starts /\ resumed' = resumed
    BY <1>3 DEF Decide, history
  <2> DEFINE y == [x EXCEPT !.pc = "admit"]
  <2>2. y.pc = "admit" /\ y.wf = x.wf /\ y.status = x.status /\ y.kind = x.kind /\ y.owner = x.owner
    BY <1>2 DEF RunRecord
  <2> HIDE DEF y
  <2>3. run'[r] = y /\ \A q \in Run : q # r => run'[q] = run[q]
    BY <1>2, <2>1 DEF y
  <2>4. Granted(y)
    BY <1>3, <2>2 DEF Skip, Granted
  <2>5. AdmitsGranted'
    BY <2>3, <2>4 DEF AdmitsGranted
  <2>6. ASSUME NEW u \in Workflow PROVE Spends(u)
    <3>1. \A q \in Run : IsGrant(run'[q], u) => IsGrant(run[q], u)
      BY <2>1, <2>2, <2>3 DEF IsGrant, Granted
    <3>2. GrantsOf(run', u) \subseteq GrantsOf(run, u)
      BY <3>1, GrantsShrink
    <3> QED
      BY <1>1, <2>1, <3>2 DEF Spends, Costless, Keeps
  <2> QED
    BY <2>5, <2>6
<1>4. CASE Decide(r) /\ Skip(r)
  <2>1. \A q \in Run : run'[q] = run[q] \/ run'[q].pc \notin {"decide", "admit"}
    <3>1. run' = [run EXCEPT ![r] = Free] /\ Free.pc = "free"
      BY <1>4 DEF Decide, Free
    <3> QED
      BY <1>2, <3>1
  <2>2. row' = row /\ starts' = starts /\ resumed' = resumed
    BY <1>4 DEF Decide, history
  <2> QED
    BY <1>1, <2>1, <2>2, NothingSpent
<1>5. CASE Admit(r)
  <2>1. x.pc = "admit" /\ starts' = [starts EXCEPT ![x.wf] = @ + 1]
        /\ row' = row /\ resumed' = resumed
    BY <1>5 DEF Admit
  <2>2. x.wf \in Workflow /\ starts \in [Workflow -> Nat] /\ IsGrant(x, x.wf)
    BY <1>2, <2>1 DEF IsGrant, AdmitsGranted, TypeOK
  <2>3. run'[r].pc = "check" /\ \A q \in Run : q # r => run'[q] = run[q]
    BY <1>2, <1>5 DEF Admit, RunRecord
  <2>4. AdmitsGranted'
    BY <2>3 DEF AdmitsGranted
  <2>5. ASSUME NEW u \in Workflow PROVE Spends(u)
    <3>1. \A q \in Run : IsGrant(run'[q], u) => q # r /\ IsGrant(run[q], u)
      BY <2>3 DEF IsGrant
    <3>2. GrantsOf(run', u) \subseteq GrantsOf(run, u) \ {r}
      BY <3>1 DEF GrantsOf
    <3>3. CASE u = x.wf
      <4>1. r \in GrantsOf(run, u)
        BY <2>2, <3>3 DEF GrantsOf
      <4>2. starts'[u] = starts[u] + 1
        BY <2>1, <2>2, <3>3
      <4> QED
        BY <2>1, <3>2, <4>1, <4>2 DEF Spends, Begins
    <3>4. CASE u # x.wf
      <4>1. starts'[u] = starts[u]
        BY <2>1, <2>2, <3>4
      <4> QED
        BY <1>1, <2>1, <3>2, <4>1 DEF Spends, Costless, Keeps
    <3> QED
      BY <3>3, <3>4
  <2> QED
    BY <2>4, <2>5
<1>6. CASE CheckStep(r)
  <2>1. Checked(x).pc \in {"exec", "check", "finish"}
    BY <1>2 DEF Checked, Advance, RunRecord
  <2>2. \A q \in Run : run'[q] = run[q] \/ run'[q].pc \notin {"decide", "admit"}
    BY <1>2, <1>6, <2>1 DEF CheckStep
  <2>3. row' = row /\ starts' = starts /\ resumed' = resumed
    BY <1>6 DEF CheckStep, history
  <2> QED
    BY <1>1, <2>2, <2>3, NothingSpent
<1>7. CASE Execute(r)
  <2>1. \A q \in Run : run'[q] = run[q] \/ run'[q].pc \notin {"decide", "admit"}
    BY <1>2, <1>7 DEF Execute, RunRecord
  <2>2. row' = row /\ starts' = starts /\ resumed' = resumed
    BY <1>7 DEF Execute
  <2> QED
    BY <1>1, <2>1, <2>2, NothingSpent
<1>8. CASE RecordStep(r)
  <2>1. Advance(x, x.val).pc \in {"check", "finish"}
    BY <1>2 DEF Advance, RunRecord
  <2>2. run' = [run EXCEPT ![r] = Advance(x, x.val)] \/ run' = [run EXCEPT ![r].pc = "await"]
    BY <1>8 DEF RecordStep
  <2>3. \A q \in Run : run'[q] = run[q] \/ run'[q].pc \notin {"decide", "admit"}
    BY <1>2, <2>1, <2>2 DEF RunRecord
  <2>4. row' = row /\ starts' = starts /\ resumed' = resumed
    BY <1>8 DEF RecordStep, history
  <2> QED
    BY <1>1, <2>3, <2>4, NothingSpent
<1>9. CASE WriteOutcome(r)
  <2> DEFINE o == [why |-> x.why, seen |-> IF x.why = "ok" THEN x.seen ELSE Blank]
  <2>1. run' = [run EXCEPT ![r].pc = "leave"] /\ row' = [row EXCEPT ![x.wf] = OutcomeRow(row[x.wf], o)]
        /\ starts' = starts /\ resumed' = resumed /\ x.wf \in Workflow
    BY <1>2, <1>9 DEF WriteOutcome, history
  <2> HIDE DEF o
  <2>2. \A q \in Run : run'[q] = run[q] \/ run'[q].pc \notin {"decide", "admit"}
    BY <1>2, <2>1 DEF RunRecord
  <2>3. row \in [Workflow -> Row]
    BY DEF TypeOK
  <2>4. Keeps(row[x.wf], OutcomeRow(row[x.wf], o))
    BY <2>1, <2>3 DEF Keeps, OutcomeRow, Row
  <2>5. \A u \in Workflow : Keeps(row[u], row'[u])
    BY <1>1, <2>1, <2>3, <2>4
  <2> QED
    BY <2>1, <2>2, <2>5, NothingSpent
<1>10. CASE AwaitOutcome(r) \/ Leave(r)
  <2>1. run' = [run EXCEPT ![r].pc = "leave"] \/ run' = [run EXCEPT ![r] = Free]
    BY <1>10 DEF AwaitOutcome, Leave
  <2>2. \A q \in Run : run'[q] = run[q] \/ run'[q].pc \notin {"decide", "admit"}
    BY <1>2, <2>1 DEF RunRecord, Free
  <2>3. row' = row /\ starts' = starts /\ resumed' = resumed
    BY <1>10 DEF AwaitOutcome, Leave, history
  <2> QED
    BY <1>1, <2>2, <2>3, NothingSpent
<1> QED
  BY <1>3, <1>4, <1>5, <1>6, <1>7, <1>8, <1>9, <1>10 DEF RunStep

\* The steps of the runner and of recovery.
LEMMA ExecutorStepSpends ==
    ASSUME TypeOK, AdmitsGranted, NEW e \in Executor, ExecutorStep(e),
           \A u \in Workflow : row[u].status = "ABSENT" => row[u].attempts = 0
    PROVE  AdmitsGranted' /\ \A u \in Workflow : Spends(u)
<1>1. \A u \in Workflow : row[u] \in Row /\ Keeps(row[u], row[u])
  BY DEF TypeOK, Keeps, Row
<1>2. starts' = starts /\ resumed' = resumed
  BY DEF ExecutorStep, Claim, Dispatch, Launch, Launched, RecoverQueued, RecoverDirect, history
<1>3. CASE Claim(e)
  <2>1. run' = run /\ row' = [w \in Workflow |-> ClaimRow(row[w], e)]
    BY <1>3 DEF Claim
  <2>2. \A u \in Workflow : Keeps(row[u], row'[u])
    BY <1>1, <2>1, StatementKeeps
  <2> QED
    BY <1>2, <2>1, <2>2, NothingSpent
<1>4. CASE Dispatch(e)
  <2>1. PICK w \in claimed[e], r \in Run : Invoke(r, "dequeue", e, w)
    BY <1>4 DEF Dispatch
  <2>2. w \in Workflow /\ "dequeue" \in Kind
    BY DEF TypeOK, Kind
  <2> QED
    BY <1>2, <2>1, <2>2, InvokeSpends
<1>5. CASE Launch(e) \/ Launched(e)
  <2>1. run' = run /\ row' = row
    BY <1>5 DEF Launch, Launched
  <2> QED
    BY <1>1, <1>2, <2>1, NothingSpent
<1>6. CASE RecoverQueued(e)
  <2>1. PICK t \in todo[e] : row' = [row EXCEPT ![t.wf] = ClearQueueAssignment(row[t.wf])]
    BY <1>6 DEF RecoverQueued
  <2>2. t.wf \in Workflow /\ run' = run /\ row \in [Workflow -> Row]
    BY <1>6 DEF RecoverQueued, TypeOK
  <2>3. Keeps(row[t.wf], ClearQueueAssignment(row[t.wf]))
    BY <2>2, StatementKeeps
  <2>4. \A u \in Workflow : Keeps(row[u], row'[u])
    BY <1>1, <2>1, <2>2, <2>3
  <2> QED
    BY <1>2, <2>2, <2>4, NothingSpent
<1>7. CASE RecoverDirect(e)
  <2>1. PICK t \in todo[e], r \in Run : Invoke(r, "recovery", e, t.wf)
    BY <1>7 DEF RecoverDirect
  <2>2. t.wf \in Workflow /\ "recovery" \in Kind
    BY DEF TypeOK, Kind
  <2> QED
    BY <1>2, <2>1, <2>2, InvokeSpends
<1> QED
  BY <1>3, <1>4, <1>5, <1>6, <1>7 DEF ExecutorStep

\* Calls, crashes and management.
LEMMA EnvironmentSpends ==
    ASSUME TypeOK, AdmitsGranted, Environment,
           \A u \in Workflow : row[u].status = "ABSENT" => row[u].attempts = 0
    PROVE  AdmitsGranted' /\ \A u \in Workflow : Spends(u)
<1>1. \A u \in Workflow : row[u] \in Row /\ Keeps(row[u], row[u])
  BY DEF TypeOK, Keeps, Row
<1>2. row \in [Workflow -> Row] /\ resumed \in [Workflow -> Nat]
  BY DEF TypeOK
<1>3. ASSUME NEW e \in Executor, NEW w \in Workflow, Call(e, w)
      PROVE  AdmitsGranted' /\ \A u \in Workflow : Spends(u)
  <2>1. PICK r \in Run : Invoke(r, "call", e, w)
    BY <1>3 DEF Call
  <2>2. "call" \in Kind /\ starts' = starts /\ resumed' = resumed
    BY <1>3 DEF Kind, Call, history
  <2> QED
    BY <2>1, <2>2, InvokeSpends
<1>4. ASSUME NEW e \in Executor, NEW w \in Workflow, Enqueue(e, w)
      PROVE  AdmitsGranted' /\ \A u \in Workflow : Spends(u)
  <2>1. /\ row' = [row EXCEPT ![w] = InsertStatus(row[w], "ENQUEUED", e, FALSE)]
        /\ run' = run /\ starts' = starts /\ resumed' = resumed
    BY <1>4 DEF Enqueue, history
  <2>2. Keeps(row[w], InsertStatus(row[w], "ENQUEUED", e, FALSE))
    BY <1>1, EnqueueKeeps
  <2>3. \A u \in Workflow : Keeps(row[u], row'[u])
    BY <1>1, <1>2, <2>1, <2>2
  <2> QED
    BY <2>1, <2>3, NothingSpent
<1>5. ASSUME NEW e \in Executor, NEW t \in Executor, RecoveryRequest(e, t)
      PROVE  AdmitsGranted' /\ \A u \in Workflow : Spends(u)
  <2>1. run' = run /\ row' = row /\ starts' = starts /\ resumed' = resumed
    BY <1>5 DEF RecoveryRequest, history
  <2> QED
    BY <1>1, <2>1, NothingSpent
<1>6. ASSUME NEW e \in Executor, Crash(e)
      PROVE  AdmitsGranted' /\ \A u \in Workflow : Spends(u)
  <2>1. row' = row /\ starts' = starts /\ resumed' = resumed
    BY <1>6 DEF Crash, history
  <2>2. \A q \in Run : run'[q] = run[q] \/ run'[q].pc \notin {"decide", "admit"}
    BY <1>6 DEF Crash, Free
  <2> QED
    BY <1>1, <2>1, <2>2, NothingSpent
<1>7. ASSUME NEW w \in Workflow, Cancel(w)
      PROVE  AdmitsGranted' /\ \A u \in Workflow : Spends(u)
  <2>1. /\ row' = [row EXCEPT ![w] = CancelRow(row[w])]
        /\ run' = run /\ starts' = starts /\ resumed' = resumed
    BY <1>7 DEF Cancel, history
  <2>2. Keeps(row[w], CancelRow(row[w]))
    BY <1>1 DEF Keeps, CancelRow, Row
  <2>3. \A u \in Workflow : Keeps(row[u], row'[u])
    BY <1>1, <1>2, <2>1, <2>2
  <2> QED
    BY <2>1, <2>3, NothingSpent
<1>8. ASSUME NEW w \in Workflow, Resume(w)
      PROVE  AdmitsGranted' /\ \A u \in Workflow : Spends(u)
  <2>1. /\ row' = [row EXCEPT ![w] = ResumeRow(row[w])]
        /\ resumed' = [resumed EXCEPT ![w] = @ + IF row'[w].status = "ENQUEUED" THEN 1 ELSE 0]
        /\ run' = run /\ starts' = starts /\ row[w].status # "ABSENT"
    BY <1>8 DEF Resume
  <2>2. row'[w] = ResumeRow(row[w]) /\ \A u \in Workflow : u # w => row'[u] = row[u] /\ resumed'[u] = resumed[u]
    BY <1>2, <2>1
  <2>3. CASE row[w].status \in {"SUCCESS", "ERROR"}
    <3>1. row'[w] = row[w]
      BY <2>2, <2>3 DEF ResumeRow
    <3>2. resumed' = resumed
      BY <1>2, <2>1, <2>3, <3>1
    <3>3. \A u \in Workflow : Keeps(row[u], row'[u])
      BY <1>1, <2>2, <3>1
    <3> QED
      BY <2>1, <3>2, <3>3, NothingSpent
  <2>4. CASE row[w].status \notin {"SUCCESS", "ERROR"}
    <3>1. row'[w].status = "ENQUEUED" /\ row'[w].attempts = 0
      <4>1. row'[w] = [row[w] EXCEPT !.status = "ENQUEUED", !.queued = TRUE, !.attempts = 0]
        BY <2>1, <2>2, <2>4 DEF ResumeRow
      <4>2. row[w] \in Row
        BY <1>1
      <4> QED
        BY <4>1, <4>2 DEF Row
    <3>2. resumed'[w] = resumed[w] + 1
      BY <1>2, <2>1, <3>1
    <3>3. \A u \in Workflow : GrantsOf(run', u) \subseteq GrantsOf(run, u)
      BY <2>1
    <3>4. Spends(w)
      BY <2>1, <3>1, <3>2, <3>3 DEF Spends, Resubmits
    <3>5. \A u \in Workflow : u # w => Spends(u)
      BY <1>1, <2>1, <2>2, <3>3 DEF Spends, Costless, Keeps
    <3>6. AdmitsGranted'
      BY <2>1 DEF AdmitsGranted
    <3> QED
      BY <3>4, <3>5, <3>6
  <2> QED
    BY <2>3, <2>4
<1> QED
  BY <1>3, <1>4, <1>5, <1>6, <1>7, <1>8 DEF Environment

\* What a step does to the budgets and to the invocations past should_skip.
LEMMA StepSpends ==
    ASSUME TypeOK, AdmitsGranted, [Next]_vars,
           \A w \in Workflow : row[w].status = "ABSENT" => row[w].attempts = 0
    PROVE  AdmitsGranted' /\ \A w \in Workflow : Spends(w)
<1>1. CASE UNCHANGED vars
  <2>1. \A u \in Workflow : Keeps(row[u], row[u])
    BY DEF TypeOK, Keeps, Row
  <2>2. row' = row /\ run' = run /\ starts' = starts /\ resumed' = resumed
    BY <1>1 DEF vars
  <2> QED
    BY <2>1, <2>2, NothingSpent
<1>2. ASSUME NEW r \in Run, RunStep(r) PROVE AdmitsGranted' /\ \A w \in Workflow : Spends(w)
  BY <1>2, RunStepSpends
<1>3. ASSUME NEW e \in Executor, ExecutorStep(e)
      PROVE  AdmitsGranted' /\ \A w \in Workflow : Spends(w)
  BY <1>3, ExecutorStepSpends
<1>4. CASE Environment
  BY <1>4, EnvironmentSpends
<1> QED
  BY <1>1, <1>2, <1>3, <1>4 DEF Next

\* Every behaviour keeps the budget.
LEMMA BudgetInvariance == Spec => []BudgetInv
<1>1. Init => BudgetInv
  <2> SUFFICES ASSUME Init PROVE BudgetInv
    OBVIOUS
  <2>1. \A r \in Run : run[r].pc = "free"
    BY DEF Init, Free
  <2>2. \A w \in Workflow : row[w].attempts = 0 /\ starts[w] = 0 /\ resumed[w] = 0
    BY DEF Init, NoRow
  <2>3. ASSUME MaxRetries > 0, NEW w \in Workflow
        PROVE  /\ IsFiniteSet(GrantsOf(run, w))
               /\ starts[w] + Cardinality(GrantsOf(run, w))
                     <= resumed[w] * Allowed + Counted(row[w].attempts)
    <3>1. GrantsOf(run, w) = {}
      BY <2>1 DEF GrantsOf, IsGrant
    <3>2. Allowed \in Nat /\ Counted(0) = 0
      BY DEF Allowed, Counted
    <3>3. 0 * Allowed = 0
      BY <3>2
    <3> QED
      BY <2>2, <3>1, <3>2, <3>3, FS_EmptySet
  <2> QED
    BY <2>1, <2>2, <2>3 DEF BudgetInv, AdmitsGranted
<1>2. TypeOK /\ TypeOK' /\ BudgetInv /\ [Next]_vars => BudgetInv'
  <2> SUFFICES ASSUME TypeOK, TypeOK', BudgetInv, [Next]_vars PROVE BudgetInv'
    OBVIOUS
  <2>1. AdmitsGranted' /\ \A w \in Workflow : Spends(w)
    BY StepSpends DEF BudgetInv
  <2>2. \A w \in Workflow : row'[w].status = "ABSENT" => row'[w].attempts = 0
    BY <2>1 DEF BudgetInv, Spends
  <2>3. ASSUME MaxRetries > 0, NEW w \in Workflow
        PROVE  /\ IsFiniteSet(GrantsOf(run', w))
               /\ starts'[w] + Cardinality(GrantsOf(run', w))
                     <= resumed'[w] * Allowed + Counted(row'[w].attempts)
    BY <2>1, <2>3, SpendsKeeps DEF BudgetInv
  <2> QED
    BY <2>1, <2>2, <2>3 DEF BudgetInv, AdmitsGranted
<1> QED
  BY <1>1, <1>2, Typing, PTL DEF Spec

\* Dead-lettering, for every number of processes, retries, crashes, resumes and
\* recovery passes: what a body's start costs is paid before it, and a workflow
\* has MaxRetries + 1 attempts for each submission.
THEOREM StartsAreBudgeted == Spec => []StartsWithinBudget
<1>1. TypeOK /\ BudgetInv => StartsWithinBudget
  <2> SUFFICES ASSUME TypeOK, BudgetInv, MaxRetries > 0, NEW w \in Workflow
               PROVE  starts[w] <= (resumed[w] + 1) * (MaxRetries + 1)
    BY DEF StartsWithinBudget
  <2>1. starts[w] \in Nat /\ resumed[w] \in Nat /\ row[w].attempts \in Nat /\ Allowed \in Nat
    BY DEF TypeOK, Row, Allowed
  <2>2. IsFiniteSet(GrantsOf(run, w))
        /\ starts[w] + Cardinality(GrantsOf(run, w)) <= resumed[w] * Allowed + Counted(row[w].attempts)
    BY DEF BudgetInv
  <2>3. Cardinality(GrantsOf(run, w)) \in Nat
    BY <2>2, FS_CardinalityType
  <2>4. Counted(row[w].attempts) \in Nat /\ Counted(row[w].attempts) <= Allowed
    BY <2>1 DEF Counted
  <2>5. resumed[w] * Allowed \in Nat /\ (resumed[w] + 1) * Allowed = resumed[w] * Allowed + Allowed
    BY <2>1, OneMoreTime
  <2>6. starts[w] <= resumed[w] * Allowed + Allowed
    BY <2>1, <2>2, <2>3, <2>4, <2>5
  <2> QED
    BY <2>5, <2>6 DEF Allowed
<1> QED
  BY <1>1, BudgetInvariance, Typing, PTL

------------------------------------------------------------------------------
(* Nothing runs twice.                                                     *)

\* An invocation that waits for should_skip or for its body, one whose body
\* goes on, and both kinds of those that were not skipped.
Waiting(x) == x.pc \in {"decide", "admit"}
Body(x) == x.pc \in {"check", "exec", "record", "finish", "await", "leave"}
Engaged(x) == x.pc = "admit" \/ Body(x)

\* A call that has inserted the row of its workflow.
FirstCall(x) == Waiting(x) /\ x.kind = "call" /\ x.owner = "self"

\* A workflow that is on no queue, and nobody can put it on one but a resume.
OffQueue(x) == x.status \notin {"ABSENT", "ENQUEUED"} /\ ~x.queued

Apart(x, y) == x.wf # y.wf \/ x.exec # y.exec

\* A list names a workflow once.
NamesOnce(list) == \A t, u \in list : t.wf = u.wf => t = u

\* What the processes have in hand.  Only an "up" process has claimed anything,
\* only one that launches has listed anything, a workflow once.
HandInv ==
    /\ \A e \in Executor : claimed[e] # {} => up[e] = "up"
    /\ \A e \in Executor : todo[e] # {} => up[e] = "launching"
    /\ \A e \in Executor : NamesOnce(todo[e])

\* Nobody knows a workflow without a row.
NewInv ==
    \A w \in Workflow : row[w].status = "ABSENT" =>
        /\ \A e \in Executor : w \notin claimed[e] /\ \A t \in todo[e] : t.wf # w
        /\ \A r \in Run : run[r].wf # w

\* The invocations that wait.  Recovery waits while its process launches, the
\* others while it is up; runner and recovery wait for one at a time; a workflow
\* is inserted by one call, and then the runner does not get it.
WaitInv ==
    /\ \A r \in Run : Waiting(run[r]) =>
          up[run[r].exec] = IF run[r].kind = "recovery" THEN "launching" ELSE "up"
    /\ \A r, s \in Run : r # s /\ Waiting(run[r]) /\ Waiting(run[s])
                            /\ run[r].exec = run[s].exec /\ run[r].kind = run[s].kind
                         => run[r].kind = "call"
    /\ \A r, s \in Run : r # s /\ FirstCall(run[r]) /\ FirstCall(run[s]) => run[r].wf # run[s].wf
    /\ \A r \in Run : FirstCall(run[r]) =>
          /\ OffQueue(row[run[r].wf])
          /\ \A e \in Executor : run[r].wf \notin claimed[e]
          /\ \A s \in Run : Waiting(run[s]) /\ run[s].kind = "dequeue" => run[s].wf # run[r].wf

\* The bodies: each has its entry in active_workflow_ids, and a process has one
\* invocation of a workflow past should_skip.
BodyInv ==
    /\ \A r \in Run : Body(run[r]) => run[r].wf \in active[run[r].exec]
    /\ \A r, s \in Run : r # s /\ Engaged(run[r]) /\ Engaged(run[s]) => Apart(run[r], run[s])

OneInv == Undisturbed => HandInv /\ NewInv /\ WaitInv /\ BodyInv

\* The steps while nobody resumes or asks for a recovery pass.
CalmNext ==
    \/ \E r \in Run : RunStep(r)
    \/ \E e \in Executor : ExecutorStep(e)
    \/ \E e \in Executor, w \in Workflow : Call(e, w) \/ Enqueue(e, w)
    \/ \E e \in Executor : Crash(e)
    \/ \E w \in Workflow : Cancel(w)
    \/ UNCHANGED vars

\* A state that is undisturbed was reached so.
LEMMA CalmStep ==
    ASSUME TypeOK, [Next]_vars, Undisturbed'
    PROVE  Undisturbed /\ CalmNext
<1>1. budget \in Budget /\ budget.pass \in Nat /\ budget.resume \in Nat
  BY DEF TypeOK, Budget
<1>2. budget.pass <= MaxPasses /\ budget.resume <= MaxResumes
  BY <1>1 DEF Budget
<1>3. ASSUME NEW e \in Executor, NEW t \in Executor, RecoveryRequest(e, t) PROVE FALSE
  <2>1. budget' = [budget EXCEPT !.pass = @ - 1]
    BY <1>3 DEF RecoveryRequest
  <2>2. budget'.pass = budget.pass - 1
    BY <1>1, <2>1 DEF Budget
  <2> QED
    BY <1>1, <1>2, <2>2 DEF Undisturbed
<1>4. ASSUME NEW w \in Workflow, Resume(w) PROVE FALSE
  <2>1. budget' = [budget EXCEPT !.resume = @ - 1]
    BY <1>4 DEF Resume
  <2>2. budget'.resume = budget.resume - 1
    BY <1>1, <2>1 DEF Budget
  <2> QED
    BY <1>1, <1>2, <2>2 DEF Undisturbed
<1>5. CalmNext
  BY <1>3, <1>4 DEF Next, Environment, CalmNext
<1>6. budget'.pass = budget.pass /\ budget'.resume = budget.resume
  <2>1. CASE \E r \in Run : RunStep(r)
    BY <2>1 DEF RunStep, Decide, Admit, CheckStep, Execute, RecordStep, WriteOutcome, AwaitOutcome, Leave
  <2>2. CASE \E e \in Executor : ExecutorStep(e)
    BY <2>2 DEF ExecutorStep, Claim, Dispatch, Launch, Launched, RecoverQueued, RecoverDirect
  <2>3. ASSUME NEW e \in Executor, Crash(e) PROVE budget'.pass = budget.pass /\ budget'.resume = budget.resume
    <3>1. budget' = [budget EXCEPT !.crash = @ - 1]
      BY <2>3 DEF Crash
    <3> QED
      BY <1>1, <3>1 DEF Budget
  <2>4. ASSUME NEW w \in Workflow, Cancel(w) PROVE budget'.pass = budget.pass /\ budget'.resume = budget.resume
    <3>1. budget' = [budget EXCEPT !.cancel = @ - 1]
      BY <2>4 DEF Cancel
    <3> QED
      BY <1>1, <3>1 DEF Budget
  <2>5. CASE (\E e \in Executor, w \in Workflow : Call(e, w) \/ Enqueue(e, w)) \/ UNCHANGED vars
    BY <2>5 DEF Call, Enqueue, vars
  <2> QED
    BY <1>5, <2>1, <2>2, <2>3, <2>4, <2>5 DEF CalmNext
<1> QED
  BY <1>5, <1>6 DEF Undisturbed

\* What the processes have in hand stays in order.
LEMMA HandStep ==
    ASSUME TypeOK, HandInv, CalmNext
    PROVE  HandInv'
<1>0. /\ up \in [Executor -> {"down", "launching", "up"}]
      /\ claimed \in [Executor -> SUBSET Workflow]
      /\ todo \in [Executor -> SUBSET [wf : Workflow, queued : BOOLEAN]]
  BY DEF TypeOK
<1>1. ASSUME up' = up, \A e \in Executor : claimed'[e] \subseteq claimed[e] /\ todo'[e] \subseteq todo[e]
      PROVE  HandInv'
  <2>1. \A e \in Executor : (claimed'[e] # {} => claimed[e] # {}) /\ (todo'[e] # {} => todo[e] # {})
    BY <1>1
  <2> QED
    BY <1>1, <2>1 DEF HandInv, NamesOnce
<1>2. CASE \E r \in Run : RunStep(r)
  <2>1. up' = up /\ claimed' = claimed /\ todo' = todo
    BY <1>2 DEF RunStep, Decide, Admit, CheckStep, Execute, RecordStep, WriteOutcome, AwaitOutcome, Leave
  <2> QED
    BY <1>1, <2>1
<1>3. ASSUME NEW e \in Executor, ExecutorStep(e) PROVE HandInv'
  <2>1. CASE Claim(e)
    <3>1. up' = up /\ todo' = todo /\ up[e] = "up" /\ \A f \in Executor : f # e => claimed'[f] = claimed[f]
      BY <1>0, <2>1 DEF Claim
    <3> QED
      BY <3>1 DEF HandInv
  <2>2. CASE Dispatch(e)
    <3>1. PICK w \in claimed[e] : claimed' = [claimed EXCEPT ![e] = @ \ {w}]
      BY <2>2 DEF Dispatch
    <3>2. up' = up /\ todo' = todo
      BY <2>2 DEF Dispatch
    <3>3. \A f \in Executor : claimed'[f] \subseteq claimed[f]
      BY <1>0, <3>1
    <3> QED
      BY <1>1, <3>2, <3>3
  <2>3. CASE Launch(e)
    <3>1. up' = [up EXCEPT ![e] = "launching"] /\ todo' = [todo EXCEPT ![e] = Pending({e})]
          /\ claimed' = claimed /\ up[e] = "down"
      BY <2>3 DEF Launch
    <3>2. NamesOnce(Pending({e}))
      BY DEF Pending, NamesOnce
    <3>3. claimed[e] = {}
      BY <3>1 DEF HandInv
    <3>4. up'[e] = "launching" /\ todo'[e] = Pending({e})
          /\ \A f \in Executor : f # e => up'[f] = up[f] /\ todo'[f] = todo[f]
      BY <1>0, <3>1
    <3>5. \A f \in Executor : claimed'[f] # {} => up'[f] = "up"
      BY <3>1, <3>3, <3>4 DEF HandInv
    <3>6. \A f \in Executor : todo'[f] # {} => up'[f] = "launching"
      BY <3>4 DEF HandInv
    <3>7. ASSUME NEW f \in Executor PROVE NamesOnce(todo'[f])
      BY <3>2, <3>4 DEF HandInv
    <3> QED
      BY <3>5, <3>6, <3>7 DEF HandInv
  <2>4. CASE Launched(e)
    <3>1. up' = [up EXCEPT ![e] = "up"] /\ todo' = todo /\ claimed' = claimed /\ todo[e] = {}
      BY <2>4 DEF Launched
    <3>2. up'[e] = "up" /\ \A f \in Executor : f # e => up'[f] = up[f]
      BY <1>0, <3>1
    <3> QED
      BY <3>1, <3>2 DEF HandInv
  <2>5. CASE RecoverQueued(e)
    <3>1. PICK t \in todo[e] : todo' = [todo EXCEPT ![e] = @ \ {t}]
      BY <2>5 DEF RecoverQueued
    <3>2. up' = up /\ claimed' = claimed
      BY <2>5 DEF RecoverQueued
    <3>3. \A f \in Executor : todo'[f] \subseteq todo[f]
      BY <1>0, <3>1
    <3> QED
      BY <1>1, <3>2, <3>3
  <2>6. CASE RecoverDirect(e)
    <3>1. PICK t \in todo[e] : todo' = [todo EXCEPT ![e] =
                                  IF InsertFails(row[t.wf], "PENDING", e, TRUE) THEN {} ELSE @ \ {t}]
      BY <2>6 DEF RecoverDirect
    <3>2. up' = up /\ claimed' = claimed
      BY <2>6 DEF RecoverDirect
    <3>3. \A f \in Executor : todo'[f] \subseteq todo[f]
      BY <1>0, <3>1
    <3> QED
      BY <1>1, <3>2, <3>3
  <2> QED
    BY <1>3, <2>1, <2>2, <2>3, <2>4, <2>5, <2>6 DEF ExecutorStep
<1>4. CASE \/ \E e \in Executor, w \in Workflow : Call(e, w) \/ Enqueue(e, w)
           \/ \E w \in Workflow : Cancel(w)
           \/ UNCHANGED vars
  <2>1. up' = up /\ claimed' = claimed /\ todo' = todo
    BY <1>4 DEF Call, Enqueue, Cancel, vars
  <2> QED
    BY <1>1, <2>1
<1>5. ASSUME NEW e \in Executor, Crash(e) PROVE HandInv'
  <2>1. /\ up' = [up EXCEPT ![e] = "down"] /\ todo' = [todo EXCEPT ![e] = {}]
        /\ claimed' = [claimed EXCEPT ![e] = {}]
    BY <1>5 DEF Crash
  <2>2. claimed'[e] = {} /\ todo'[e] = {}
        /\ \A f \in Executor : f # e => up'[f] = up[f] /\ todo'[f] = todo[f] /\ claimed'[f] = claimed[f]
    BY <1>0, <2>1
  <2>3. NamesOnce({})
    BY DEF NamesOnce
  <2> QED
    BY <2>2, <2>3 DEF HandInv
<1> QED
  BY <1>2, <1>3, <1>4, <1>5 DEF CalmNext

\* An invocation that stays, goes on in its body, or ends.
GoesOn(x, y) ==
    \/ y = Free
    \/ /\ y.wf = x.wf /\ y.exec = x.exec /\ y.kind = x.kind /\ y.owner = x.owner
       /\ Waiting(y) => Waiting(x)
       /\ Engaged(y) => Engaged(x)
       /\ Body(y) => Body(x)

\* A new invocation, and who makes it.
Enters(r, kind, e, w) ==
    /\ Invoke(r, kind, e, w)
    /\ active' = active /\ up' = up
    /\ \/ kind = "call" /\ up[e] = "up"
       \/ kind = "dequeue" /\ w \in claimed[e] /\ ~Invoking(e, kind)
       \/ kind = "recovery" /\ (\E t \in todo[e] : t.wf = w) /\ ~Invoking(e, kind)

RunsMove ==
    \/ \E r \in Run, kind \in Kind, e \in Executor, w \in Workflow : Enters(r, kind, e, w)
    \/ \E r \in Run : Decide(r) /\ ~Skip(r)
    \/ \E r \in Run : Admit(r)
    \/ /\ \A r \in Run : GoesOn(run[r], run'[r])
       /\ \/ active' = active
          \/ \E r \in Run : Leave(r)
          \/ \E e \in Executor : Crash(e)

\* A body that goes on stays the body of its workflow.
LEMMA OneGoesOn ==
    ASSUME TypeOK, NEW r \in Run, NEW y, run' = [run EXCEPT ![r] = y],
           y = Free \/ /\ y.wf = run[r].wf /\ y.exec = run[r].exec /\ y.kind = run[r].kind
                       /\ y.owner = run[r].owner /\ Body(run[r]) /\ Body(y)
    PROVE  \A q \in Run : GoesOn(run[q], run'[q])
<1>1. \A q \in Run : run'[q] = IF q = r THEN y ELSE run[q]
  BY DEF TypeOK
<1>2. \A q \in Run : GoesOn(run[q], run[q])
  BY DEF GoesOn
<1>3. GoesOn(run[r], y)
  <2>1. Body(y) => ~Waiting(y)
    BY DEF Body, Waiting
  <2> QED
    BY <2>1 DEF GoesOn, Engaged
<1> QED
  BY <1>1, <1>2, <1>3

\* Going on with a result is going on.
LEMMA AdvanceGoesOn ==
    ASSUME NEW x \in RunRecord, NEW v
    PROVE  LET y == Advance(x, v)
           IN  /\ y.wf = x.wf /\ y.exec = x.exec /\ y.kind = x.kind /\ y.owner = x.owner
               /\ y.pc \in {"check", "finish"}
               /\ y.pc = "check" => y.step = x.step + 1
<1>1. CASE v = StepFailed
  <2>1. Advance(x, v) = [x EXCEPT !.pc = "finish", !.why = "stepError", !.seen[x.step] = v, !.val = None]
    BY <1>1 DEF Advance
  <2> QED
    BY <2>1 DEF RunRecord
<1>2. CASE v # StepFailed
  <2>1. Advance(x, v) = [x EXCEPT !.seen[x.step] = v, !.val = None, !.step = @ + 1,
                   !.pc = IF x.step = NumSteps THEN "finish" ELSE "check",
                   !.why = IF x.step = NumSteps THEN "ok" ELSE "none"]
    BY <1>2 DEF Advance
  <2> QED
    BY <2>1 DEF RunRecord
<1> QED
  BY <1>1, <1>2

\* What a step does to the invocations.
LEMMA StepMovesRuns ==
    ASSUME TypeOK, CalmNext
    PROVE  RunsMove
<1>0. run \in [Run -> RunRecord]
  BY DEF TypeOK
<1>1. ASSUME run' = run, active' = active PROVE RunsMove
  <2>1. \A q \in Run : GoesOn(run[q], run[q])
    BY DEF GoesOn
  <2> QED
    BY <1>1, <2>1 DEF RunsMove
<1>2. ASSUME NEW r \in Run, RunStep(r) PROVE RunsMove
  <2> DEFINE x == run[r]
  <2>0. x \in RunRecord
    BY <1>0
  <2>1. CASE Decide(r) /\ ~Skip(r)
    BY <2>1 DEF RunsMove
  <2>2. CASE Decide(r) /\ Skip(r)
    <3>1. run' = [run EXCEPT ![r] = Free] /\ active' = active
      BY <2>2 DEF Decide
    <3> QED
      BY <3>1, OneGoesOn DEF RunsMove
  <2>3. CASE Admit(r)
    BY <2>3 DEF RunsMove
  <2>4. CASE CheckStep(r)
    <3>1. x.pc = "check" /\ run' = [run EXCEPT ![r] = Checked(x)] /\ active' = active
      BY <2>4 DEF CheckStep
    <3> DEFINE y == Checked(x)
    <3>2. /\ y.wf = x.wf /\ y.exec = x.exec /\ y.kind = x.kind /\ y.owner = x.owner
          /\ y.pc \in {"check", "exec", "finish"}
      <4>1. CASE row[x.wf].status = "CANCELLED"
        <5>1. y = [x EXCEPT !.pc = "finish", !.why = "cancelled"]
          BY <4>1 DEF Checked
        <5> QED
          BY <2>0, <5>1 DEF RunRecord
      <4>2. CASE row[x.wf].status # "CANCELLED" /\ log[x.wf][x.step] # None
        <5>1. y = Advance(x, log[x.wf][x.step])
          BY <4>2 DEF Checked
        <5> QED
          BY <2>0, <5>1, AdvanceGoesOn
      <4>3. CASE row[x.wf].status # "CANCELLED" /\ log[x.wf][x.step] = None
        <5>1. y = [x EXCEPT !.pc = "exec"]
          BY <4>3 DEF Checked
        <5> QED
          BY <2>0, <5>1 DEF RunRecord
      <4> QED
        BY <4>1, <4>2, <4>3
    <3> HIDE DEF y
    <3>3. \A q \in Run : GoesOn(run[q], run'[q])
      <4>1. run' = [run EXCEPT ![r] = y]
        BY <3>1 DEF y
      <4>2. Body(x) /\ Body(y)
        BY <3>1, <3>2 DEF Body
      <4> QED
        BY <3>2, <4>1, <4>2, OneGoesOn
    <3> QED
      BY <3>1, <3>3 DEF RunsMove
  <2>5. CASE Execute(r)
    <3>1. PICK v \in StepResult : run' = [run EXCEPT ![r].pc = "record", ![r].val = v]
      BY <2>5 DEF Execute
    <3> DEFINE y == [x EXCEPT !.pc = "record", !.val = v]
    <3>2. run' = [run EXCEPT ![r] = y] /\ active' = active /\ x.pc = "exec"
      BY <1>0, <2>5, <3>1 DEF Execute
    <3>3. y.wf = x.wf /\ y.exec = x.exec /\ y.kind = x.kind /\ y.owner = x.owner /\ y.pc = "record"
      BY <2>0 DEF RunRecord
    <3> HIDE DEF y
    <3>4. \A q \in Run : GoesOn(run[q], run'[q])
      BY <3>2, <3>3, OneGoesOn DEF Body
    <3> QED
      BY <3>2, <3>4 DEF RunsMove
  <2>6. CASE RecordStep(r)
    <3> DEFINE y == IF log[x.wf][x.step] = None THEN Advance(x, x.val) ELSE [x EXCEPT !.pc = "await"]
    <3>1. x.pc = "record" /\ run' = [run EXCEPT ![r] = y] /\ active' = active
      BY <1>0, <2>6 DEF RecordStep
    <3>2. y.wf = x.wf /\ y.exec = x.exec /\ y.kind = x.kind /\ y.owner = x.owner
          /\ y.pc \in {"check", "finish", "await"}
      BY <2>0, AdvanceGoesOn DEF RunRecord
    <3> HIDE DEF y
    <3>3. \A q \in Run : GoesOn(run[q], run'[q])
      BY <3>1, <3>2, OneGoesOn DEF Body
    <3> QED
      BY <3>1, <3>3 DEF RunsMove
  <2>7. CASE WriteOutcome(r) \/ AwaitOutcome(r)
    <3> DEFINE y == [x EXCEPT !.pc = "leave"]
    <3>1. run' = [run EXCEPT ![r] = y] /\ active' = active /\ x.pc \in {"finish", "await"}
      BY <1>0, <2>7 DEF WriteOutcome, AwaitOutcome
    <3>2. y.wf = x.wf /\ y.exec = x.exec /\ y.kind = x.kind /\ y.owner = x.owner /\ y.pc = "leave"
      BY <2>0 DEF RunRecord
    <3> HIDE DEF y
    <3>3. \A q \in Run : GoesOn(run[q], run'[q])
      BY <3>1, <3>2, OneGoesOn DEF Body
    <3> QED
      BY <3>1, <3>3 DEF RunsMove
  <2>8. CASE Leave(r)
    <3>1. run' = [run EXCEPT ![r] = Free]
      BY <2>8 DEF Leave
    <3> QED
      BY <2>8, <3>1, OneGoesOn DEF RunsMove
  <2> QED
    BY <1>2, <2>1, <2>2, <2>3, <2>4, <2>5, <2>6, <2>7, <2>8 DEF RunStep
<1>3. ASSUME NEW e \in Executor, ExecutorStep(e) PROVE RunsMove
  <2>1. CASE Dispatch(e)
    <3>1. PICK w \in claimed[e], r \in Run : Invoke(r, "dequeue", e, w)
      BY <2>1 DEF Dispatch
    <3>2. w \in Workflow /\ "dequeue" \in Kind /\ active' = active /\ up' = up /\ ~Invoking(e, "dequeue")
      BY <2>1 DEF TypeOK, Kind, Dispatch
    <3>3. Enters(r, "dequeue", e, w)
      BY <3>1, <3>2 DEF Enters
    <3> QED
      BY <3>2, <3>3 DEF RunsMove
  <2>2. CASE RecoverDirect(e)
    <3>1. PICK t \in todo[e], r \in Run : Invoke(r, "recovery", e, t.wf)
      BY <2>2 DEF RecoverDirect
    <3>2. t.wf \in Workflow /\ "recovery" \in Kind /\ active' = active /\ up' = up /\ ~Invoking(e, "recovery")
      BY <2>2 DEF TypeOK, Kind, RecoverDirect
    <3>3. Enters(r, "recovery", e, t.wf)
      BY <3>1, <3>2 DEF Enters
    <3> QED
      BY <3>2, <3>3 DEF RunsMove
  <2>3. CASE Claim(e) \/ Launch(e) \/ Launched(e) \/ RecoverQueued(e)
    BY <1>1, <2>3 DEF Claim, Launch, Launched, RecoverQueued
  <2> QED
    BY <1>3, <2>1, <2>2, <2>3 DEF ExecutorStep
<1>4. ASSUME NEW e \in Executor, NEW w \in Workflow, Call(e, w) PROVE RunsMove
  <2>1. PICK r \in Run : Invoke(r, "call", e, w)
    BY <1>4 DEF Call
  <2>2. "call" \in Kind /\ active' = active /\ up' = up /\ up[e] = "up"
    BY <1>4 DEF Call, Kind
  <2>3. Enters(r, "call", e, w)
    BY <2>1, <2>2 DEF Enters
  <2> QED
    BY <2>2, <2>3 DEF RunsMove
<1>5. CASE \/ \E e \in Executor, w \in Workflow : Enqueue(e, w)
           \/ \E w \in Workflow : Cancel(w)
           \/ UNCHANGED vars
  BY <1>1, <1>5 DEF Enqueue, Cancel, vars
<1>6. ASSUME NEW e \in Executor, Crash(e) PROVE RunsMove
  <2>1. \A q \in Run : run'[q] = Free \/ run'[q] = run[q]
    BY <1>6 DEF Crash
  <2>2. \A q \in Run : GoesOn(run[q], run'[q])
    BY <2>1 DEF GoesOn
  <2> QED
    BY <1>6, <2>2 DEF RunsMove
<1> QED
  BY <1>2, <1>3, <1>4, <1>5, <1>6 DEF CalmNext

\* Where the insert of an invocation leaves a row: on a queue only if it was on
\* one, and if it is PENDING then for the process that invoked.
Placed(old, new, e) ==
    /\ new.status # "ABSENT"
    /\ old.status = "ABSENT" \/ ~old.queued => ~new.queued
    /\ new.status = "ENQUEUED" => old.status = "ENQUEUED"
    /\ new.status = "PENDING" => new.executor = e

\* It does so.
LEMMA InsertPlaces ==
    ASSUME NEW old \in Row, NEW e \in Executor, NEW inc \in BOOLEAN
    PROVE  Placed(old, InsertStatus(old, "PENDING", e, inc), e)
<1> DEFINE u == Upserted(old, "PENDING", e, inc)
<1>1. u \in Row
  BY UpsertedType
<1>2. Placed(old, u, e)
  <2>1. CASE old.status = "ABSENT"
    <3>1. u = InsertedRow("PENDING", e)
      BY <2>1 DEF Upserted
    <3> HIDE DEF u
    <3>2. u.executor = e /\ u.status = "PENDING" /\ u.queued = FALSE
      BY <3>1 DEF InsertedRow
    <3> QED
      BY <2>1, <3>2 DEF Placed
  <2>2. CASE old.status # "ABSENT"
    <3>1. u = [old EXCEPT !.attempts = @ + IF inc THEN 1 ELSE 0, !.executor = e]
      BY <2>2 DEF Upserted, ConflictRow
    <3>2. u.executor = e /\ u.status = old.status /\ u.queued = old.queued
      <4> HIDE DEF u
      <4> QED
        BY <3>1 DEF Row
    <3> QED
      BY <2>2, <3>2 DEF Placed
  <2> QED
    BY <2>1, <2>2
<1> HIDE DEF u
<1>3. Placed(old, Parked(u), e)
  <2>1. CASE u.status = "PENDING"
    <3>1. Parked(u) = [u EXCEPT !.status = "MAX_RECOVERY_ATTEMPTS_EXCEEDED", !.queued = FALSE]
      BY <2>1 DEF Parked
    <3> QED
      BY <1>1, <3>1 DEF Row, Placed
  <2>2. CASE u.status # "PENDING"
    <3>1. Parked(u) = u
      BY <2>2 DEF Parked
    <3> QED
      BY <1>2, <3>1
  <2> QED
    BY <2>1, <2>2
<1>4. InsertStatus(old, "PENDING", e, inc) = IF OverBudget(u) THEN Parked(u) ELSE u
  BY DEF InsertStatus, u
<1> QED
  BY <1>2, <1>3, <1>4

\* An enqueue puts nothing on a queue that has a row.
EnqueuedOnce(old, new) ==
    /\ OffQueue(old) => OffQueue(new)
    /\ new.status \in {"ABSENT", "ENQUEUED"} => old.status \in {"ABSENT", "ENQUEUED"}
    /\ new.status = "PENDING" => old.status = "PENDING" /\ new.executor = old.executor

\* It does so.
LEMMA EnqueuePlaces ==
    ASSUME NEW old \in Row, NEW e \in Executor
    PROVE  EnqueuedOnce(old, InsertStatus(old, "ENQUEUED", e, FALSE))
<1> DEFINE u == Upserted(old, "ENQUEUED", e, FALSE)
           new == InsertStatus(old, "ENQUEUED", e, FALSE)
<1>1. u = IF old.status = "ABSENT" THEN InsertedRow("ENQUEUED", e) ELSE old
  BY DEF Upserted, ConflictRow
<1>2. u \in Row
  BY UpsertedType
<1> HIDE DEF u
<1>3. old.status = "ABSENT" => u.status = "ENQUEUED"
  <2> SUFFICES ASSUME old.status = "ABSENT" PROVE u.status = "ENQUEUED"
    OBVIOUS
  <2>1. u = InsertedRow("ENQUEUED", e)
    BY <1>1
  <2> QED
    BY <2>1 DEF InsertedRow
<1>4. new = u \/ (u.status = "PENDING"
                   /\ new = [u EXCEPT !.status = "MAX_RECOVERY_ATTEMPTS_EXCEEDED", !.queued = FALSE])
  BY DEF InsertStatus, Parked, u
<1> HIDE DEF new
<1>5. EnqueuedOnce(old, u)
  BY <1>1, <1>3 DEF EnqueuedOnce, OffQueue
<1>6. ASSUME new # u PROVE EnqueuedOnce(old, new)
  <2>1. new.status = "MAX_RECOVERY_ATTEMPTS_EXCEEDED" /\ ~new.queued
    BY <1>2, <1>4, <1>6 DEF Row
  <2> QED
    BY <2>1 DEF EnqueuedOnce, OffQueue
<1>7. EnqueuedOnce(old, new)
  BY <1>5, <1>6
<1> QED
  BY <1>7 DEF new

\* What a step does to queues, batches and lists.
QueuesMove ==
    /\ \A w \in Workflow : OffQueue(row[w]) => OffQueue(row'[w])
    /\ \A e \in Executor, w \in Workflow :
          w \in claimed'[e] => w \in claimed[e] \/ row[w].status = "ENQUEUED"
    /\ \A e \in Executor : \A t \in todo'[e] : t \in todo[e] \/ row[t.wf].status = "PENDING"

\* Every step does that.
LEMMA StepMovesQueues ==
    ASSUME TypeOK, CalmNext
    PROVE  QueuesMove
<1>0. /\ row \in [Workflow -> Row] /\ claimed \in [Executor -> SUBSET Workflow]
      /\ todo \in [Executor -> SUBSET [wf : Workflow, queued : BOOLEAN]]
  BY DEF TypeOK
<1>1. ASSUME \A w \in Workflow : OffQueue(row[w]) => OffQueue(row'[w]),
             \A e \in Executor : claimed'[e] \subseteq claimed[e] /\ todo'[e] \subseteq todo[e]
      PROVE  QueuesMove
  BY <1>1 DEF QueuesMove
<1>2. ASSUME NEW w \in Workflow, NEW x, row' = [row EXCEPT ![w] = x], OffQueue(row[w]) => OffQueue(x)
      PROVE  \A u \in Workflow : OffQueue(row[u]) => OffQueue(row'[u])
  <2>1. \A u \in Workflow : row'[u] = IF u = w THEN x ELSE row[u]
    BY <1>0, <1>2
  <2> QED
    BY <1>2, <2>1
<1>3. ASSUME NEW r \in Run, NEW kind \in Kind, NEW e \in Executor, NEW w \in Workflow, Invoke(r, kind, e, w)
      PROVE  \A u \in Workflow : OffQueue(row[u]) => OffQueue(row'[u])
  <2> DEFINE x == InsertStatus(row[w], "PENDING", e, kind # "call")
  <2>1. row' = [row EXCEPT ![w] = x]
    BY <1>3 DEF Invoke
  <2>2. Placed(row[w], x, e)
    <3>1. (kind # "call") \in BOOLEAN /\ row[w] \in Row
      BY <1>0
    <3> QED
      BY <3>1, InsertPlaces
  <2> HIDE DEF x
  <2>3. OffQueue(row[w]) => OffQueue(x)
    BY <2>2 DEF Placed, OffQueue
  <2> QED
    BY <1>2, <2>1, <2>3
<1>4. ASSUME NEW r \in Run, RunStep(r) PROVE QueuesMove
  <2>1. claimed' = claimed /\ todo' = todo
    BY <1>4 DEF RunStep, Decide, Admit, CheckStep, Execute, RecordStep, WriteOutcome, AwaitOutcome, Leave
  <2>2. CASE row' = row
    BY <1>1, <2>1, <2>2
  <2>3. CASE WriteOutcome(r)
    <3> DEFINE w == run[r].wf
               o == [why |-> run[r].why, seen |-> IF run[r].why = "ok" THEN run[r].seen ELSE Blank]
    <3>1. row' = [row EXCEPT ![w] = OutcomeRow(row[w], o)] /\ w \in Workflow
      BY <2>3 DEF WriteOutcome, TypeOK
    <3> HIDE DEF o, w
    <3>2. OffQueue(row[w]) => OffQueue(OutcomeRow(row[w], o))
      BY <1>0, <3>1 DEF OffQueue, OutcomeRow, Row
    <3>3. \A u \in Workflow : OffQueue(row[u]) => OffQueue(row'[u])
      BY <1>2, <3>1, <3>2
    <3> QED
      BY <1>1, <2>1, <3>3
  <2> QED
    BY <1>4, <2>2, <2>3 DEF RunStep, Decide, Admit, CheckStep, Execute, RecordStep, AwaitOutcome, Leave
<1>5. ASSUME NEW e \in Executor, ExecutorStep(e) PROVE QueuesMove
  <2>1. CASE Claim(e)
    <3>1. row' = [w \in Workflow |-> ClaimRow(row[w], e)] /\ todo' = todo
          /\ claimed' = [claimed EXCEPT ![e] = {w \in Workflow : row[w].status = "ENQUEUED"}]
      BY <2>1 DEF Claim
    <3>2. \A w \in Workflow : OffQueue(row[w]) => row'[w] = row[w]
      BY <3>1 DEF OffQueue, ClaimRow
    <3>3. \A f \in Executor, w \in Workflow :
             w \in claimed'[f] => w \in claimed[f] \/ row[w].status = "ENQUEUED"
      BY <1>0, <3>1
    <3> QED
      BY <3>1, <3>2, <3>3 DEF QueuesMove
  <2>2. CASE Dispatch(e)
    <3>1. PICK w \in claimed[e] : /\ \E r \in Run : Invoke(r, "dequeue", e, w)
                                  /\ claimed' = [claimed EXCEPT ![e] = @ \ {w}]
      BY <2>2 DEF Dispatch
    <3>2. w \in Workflow /\ "dequeue" \in Kind /\ todo' = todo
      BY <1>0, <2>2 DEF Kind, Dispatch
    <3>3. \A f \in Executor : claimed'[f] \subseteq claimed[f]
      BY <1>0, <3>1
    <3>4. \A u \in Workflow : OffQueue(row[u]) => OffQueue(row'[u])
      BY <1>3, <3>1, <3>2
    <3> QED
      BY <1>1, <3>2, <3>3, <3>4
  <2>3. CASE Launch(e)
    <3>1. row' = row /\ claimed' = claimed /\ todo' = [todo EXCEPT ![e] = Pending({e})]
      BY <2>3 DEF Launch
    <3>2. \A t \in Pending({e}) : row[t.wf].status = "PENDING"
      BY DEF Pending
    <3>3. todo'[e] = Pending({e}) /\ \A f \in Executor : f # e => todo'[f] = todo[f]
      BY <1>0, <3>1
    <3>4. \A f \in Executor : \A t \in todo'[f] : t \in todo[f] \/ row[t.wf].status = "PENDING"
      BY <3>2, <3>3
    <3> QED
      BY <3>1, <3>4 DEF QueuesMove
  <2>4. CASE Launched(e)
    BY <1>1, <2>4 DEF Launched
  <2>5. CASE RecoverQueued(e)
    <3>1. PICK t \in todo[e] : /\ row' = [row EXCEPT ![t.wf] = ClearQueueAssignment(@)]
                               /\ todo' = [todo EXCEPT ![e] = @ \ {t}]
      BY <2>5 DEF RecoverQueued
    <3>2. t.wf \in Workflow /\ claimed' = claimed /\ \A f \in Executor : todo'[f] \subseteq todo[f]
      BY <1>0, <2>5, <3>1 DEF RecoverQueued
    <3>3. OffQueue(row[t.wf]) => OffQueue(ClearQueueAssignment(row[t.wf]))
      BY DEF OffQueue, ClearQueueAssignment
    <3>4. \A u \in Workflow : OffQueue(row[u]) => OffQueue(row'[u])
      BY <1>2, <3>1, <3>2, <3>3
    <3> QED
      BY <1>1, <3>2, <3>4
  <2>6. CASE RecoverDirect(e)
    <3>1. PICK t \in todo[e] :
             /\ \E r \in Run : Invoke(r, "recovery", e, t.wf)
             /\ todo' = [todo EXCEPT ![e] =
                   IF InsertFails(row[t.wf], "PENDING", e, TRUE) THEN {} ELSE @ \ {t}]
      BY <2>6 DEF RecoverDirect
    <3>2. t.wf \in Workflow /\ "recovery" \in Kind /\ claimed' = claimed
      BY <1>0, <2>6 DEF Kind, RecoverDirect
    <3>3. \A f \in Executor : todo'[f] \subseteq todo[f]
      BY <1>0, <3>1
    <3>4. \A u \in Workflow : OffQueue(row[u]) => OffQueue(row'[u])
      BY <1>3, <3>1, <3>2
    <3> QED
      BY <1>1, <3>2, <3>3, <3>4
  <2> QED
    BY <1>5, <2>1, <2>2, <2>3, <2>4, <2>5, <2>6 DEF ExecutorStep
<1>6. ASSUME NEW e \in Executor, NEW w \in Workflow, Call(e, w) PROVE QueuesMove
  <2>1. PICK r \in Run : Invoke(r, "call", e, w)
    BY <1>6 DEF Call
  <2>2. "call" \in Kind /\ claimed' = claimed /\ todo' = todo
    BY <1>6 DEF Kind, Call
  <2>3. \A u \in Workflow : OffQueue(row[u]) => OffQueue(row'[u])
    BY <1>3, <2>1, <2>2
  <2> QED
    BY <1>1, <2>2, <2>3
<1>7. ASSUME NEW e \in Executor, NEW w \in Workflow, Enqueue(e, w) PROVE QueuesMove
  <2>1. row' = [row EXCEPT ![w] = InsertStatus(row[w], "ENQUEUED", e, FALSE)] /\ claimed' = claimed /\ todo' = todo
    BY <1>7 DEF Enqueue
  <2>2. OffQueue(row[w]) => OffQueue(InsertStatus(row[w], "ENQUEUED", e, FALSE))
    BY <1>0, EnqueuePlaces DEF EnqueuedOnce
  <2>3. \A u \in Workflow : OffQueue(row[u]) => OffQueue(row'[u])
    BY <1>2, <2>1, <2>2
  <2> QED
    BY <1>1, <2>1, <2>3
<1>8. ASSUME NEW e \in Executor, Crash(e) PROVE QueuesMove
  <2>1. row' = row /\ todo' = [todo EXCEPT ![e] = {}] /\ claimed' = [claimed EXCEPT ![e] = {}]
    BY <1>8 DEF Crash
  <2>2. \A f \in Executor : claimed'[f] \subseteq claimed[f] /\ todo'[f] \subseteq todo[f]
    BY <1>0, <2>1
  <2> QED
    BY <1>1, <2>1, <2>2
<1>9. ASSUME NEW w \in Workflow, Cancel(w) PROVE QueuesMove
  <2>1. row' = [row EXCEPT ![w] = CancelRow(row[w])] /\ claimed' = claimed /\ todo' = todo
    BY <1>9 DEF Cancel
  <2>2. OffQueue(row[w]) => OffQueue(CancelRow(row[w]))
    BY <1>0 DEF OffQueue, CancelRow, Row
  <2>3. \A u \in Workflow : OffQueue(row[u]) => OffQueue(row'[u])
    BY <1>2, <2>1, <2>2
  <2> QED
    BY <1>1, <2>1, <2>3
<1>10. CASE UNCHANGED vars
  BY <1>1, <1>10 DEF vars
<1> QED
  BY <1>4, <1>5, <1>6, <1>7, <1>8, <1>9, <1>10 DEF CalmNext

\* What an invocation that enters changes.
LEMMA Entered ==
    ASSUME TypeOK, NEW r \in Run, NEW kind \in Kind, NEW e \in Executor, NEW w \in Workflow,
           Enters(r, kind, e, w)
    PROVE  /\ run[r].pc = "free"
           /\ \A q \in Run : q # r => run'[q] = run[q]
           /\ \/ run'[r] = run[r]
              \/ /\ run'[r].pc = "decide" /\ run'[r].kind = kind /\ run'[r].exec = e
                 /\ run'[r].wf = w
                 /\ run'[r].owner = IF row[w].status = "ABSENT" THEN "self" ELSE "other"
           /\ Placed(row[w], row'[w], e)
           /\ \A u \in Workflow : u # w => row'[u] = row[u]
<1>1. Invoke(r, kind, e, w)
  BY DEF Enters
<1>2. /\ run[r].pc = "free"
      /\ \A u \in Workflow : u # w => row'[u] = row[u]
      /\ row'[w] = InsertStatus(row[w], "PENDING", e, kind # "call")
      /\ \A q \in Run : q # r => run'[q] = run[q]
      /\ \/ run'[r] = run[r]
         \/ run'[r] = Inserted(kind, e, w, IF row[w].status = "ABSENT" THEN "self" ELSE "other",
                               row'[w].status)
  BY <1>1, Invoked
<1>3. Placed(row[w], row'[w], e)
  <2>1. row[w] \in Row /\ (kind # "call") \in BOOLEAN
    BY DEF TypeOK
  <2>2. Placed(row[w], InsertStatus(row[w], "PENDING", e, kind # "call"), e)
    BY <2>1, InsertPlaces
  <2> QED
    BY <1>2, <2>2
<1> QED
  BY <1>2, <1>3 DEF Inserted

\* An invocation that is not skipped, or whose body starts, stays otherwise as it is.
LEMMA Moved ==
    ASSUME TypeOK, NEW r \in Run, (Decide(r) /\ ~Skip(r)) \/ Admit(r)
    PROVE  /\ \A q \in Run : q # r => run'[q] = run[q]
           /\ run'[r].wf = run[r].wf /\ run'[r].exec = run[r].exec
           /\ run'[r].kind = run[r].kind /\ run'[r].owner = run[r].owner
           /\ Waiting(run[r]) /\ run'[r].pc \in {"admit", "check"}
<1>1. run \in [Run -> RunRecord] /\ run[r] \in RunRecord
  BY DEF TypeOK
<1>2. PICK pc \in {"admit", "check"} : run' = [run EXCEPT ![r] = [run[r] EXCEPT !.pc = pc]]
  <2>1. CASE Decide(r) /\ ~Skip(r)
    <3>1. run' = [run EXCEPT ![r] = [run[r] EXCEPT !.pc = "admit"]]
      BY <2>1 DEF Decide
    <3> QED
      BY <3>1
  <2>2. CASE Admit(r)
    <3>1. run' = [run EXCEPT ![r] = [run[r] EXCEPT !.pc = "check"]]
      BY <1>1, <2>2 DEF Admit
    <3> QED
      BY <3>1
  <2> QED
    BY <2>1, <2>2
<1>3. run'[r] = [run[r] EXCEPT !.pc = pc] /\ \A q \in Run : q # r => run'[q] = run[q]
  BY <1>1, <1>2
<1>4. Waiting(run[r])
  BY DEF Decide, Admit, Waiting
<1> QED
  BY <1>1, <1>3, <1>4 DEF RunRecord

\* Nobody knows a workflow without a row.
LEMMA NewStep ==
    ASSUME TypeOK, NewInv, QueuesMove, RunsMove,
           \A w \in Workflow : row'[w].status = "ABSENT" => row[w].status = "ABSENT"
    PROVE  NewInv'
<1> SUFFICES ASSUME NEW w \in Workflow, row'[w].status = "ABSENT"
             PROVE  /\ \A e \in Executor : w \notin claimed'[e] /\ \A t \in todo'[e] : t.wf # w
                    /\ \A r \in Run : run'[r].wf # w
  BY DEF NewInv
<1>1. row[w].status = "ABSENT"
  OBVIOUS
<1>2. /\ \A e \in Executor : w \notin claimed[e] /\ \A t \in todo[e] : t.wf # w
      /\ \A r \in Run : run[r].wf # w
  BY <1>1 DEF NewInv
<1>3. ASSUME NEW e \in Executor PROVE w \notin claimed'[e] /\ \A t \in todo'[e] : t.wf # w
  BY <1>1, <1>2 DEF QueuesMove
<1>4. ASSUME NEW q \in Run PROVE run'[q].wf # w
  <2>1. ASSUME NEW r \in Run, NEW kind \in Kind, NEW e \in Executor, NEW v \in Workflow,
               Enters(r, kind, e, v)
        PROVE  run'[q].wf # w
    <3>1. v # w
      BY <2>1, Entered DEF Placed
    <3> QED
      BY <1>2, <2>1, <3>1, Entered
  <2>2. ASSUME NEW r \in Run, (Decide(r) /\ ~Skip(r)) \/ Admit(r) PROVE run'[q].wf # w
    BY <1>2, <2>2, Moved
  <2>3. CASE GoesOn(run[q], run'[q])
    BY <1>2, <2>3 DEF GoesOn, Free
  <2> QED
    BY <2>1, <2>2, <2>3 DEF RunsMove
<1> QED
  BY <1>3, <1>4

\* While an invocation waits its process neither launches, nor is launched, nor
\* stops.
LEMMA WaitsInPeace ==
    ASSUME TypeOK, WaitInv, CalmNext, NEW r \in Run, Waiting(run[r]), Waiting(run'[r]),
           run'[r].exec = run[r].exec
    PROVE  up'[run[r].exec] = up[run[r].exec]
<1>0. up \in [Executor -> {"down", "launching", "up"}] /\ run[r].exec \in Executor
  BY DEF TypeOK, Waiting
<1>1. up[run[r].exec] = IF run[r].kind = "recovery" THEN "launching" ELSE "up"
  BY DEF WaitInv
<1>2. ASSUME NEW e \in Executor, Launch(e) PROVE up'[run[r].exec] = up[run[r].exec]
  <2>1. up' = [up EXCEPT ![e] = "launching"] /\ up[e] = "down"
    BY <1>2 DEF Launch
  <2> QED
    BY <1>0, <1>1, <2>1
<1>3. ASSUME NEW e \in Executor, Launched(e) PROVE up'[run[r].exec] = up[run[r].exec]
  <2>1. up' = [up EXCEPT ![e] = "up"] /\ up[e] = "launching" /\ ~Invoking(e, "recovery")
    BY <1>3 DEF Launched
  <2>2. run[r].exec # e
    BY <1>1, <2>1 DEF Invoking, Waiting
  <2> QED
    BY <1>0, <2>1, <2>2
<1>4. ASSUME NEW e \in Executor, Crash(e) PROVE up'[run[r].exec] = up[run[r].exec]
  <2>1. up' = [up EXCEPT ![e] = "down"] /\ (run[r].exec = e => run'[r] = Free)
    BY <1>4 DEF Crash
  <2>2. run[r].exec # e
    BY <2>1 DEF Waiting, Free
  <2> QED
    BY <1>0, <2>1, <2>2
<1>5. CASE up' = up
  BY <1>5
<1>6. \/ up' = up
      \/ \E e \in Executor : Launch(e) \/ Launched(e) \/ Crash(e)
  <2>1. CASE \E q \in Run : RunStep(q)
    BY <2>1 DEF RunStep, Decide, Admit, CheckStep, Execute, RecordStep, WriteOutcome, AwaitOutcome, Leave
  <2>2. CASE \E e \in Executor : ExecutorStep(e)
    BY <2>2 DEF ExecutorStep, Claim, Dispatch, RecoverQueued, RecoverDirect
  <2>3. CASE \/ \E e \in Executor, w \in Workflow : Call(e, w) \/ Enqueue(e, w)
             \/ \E w \in Workflow : Cancel(w)
             \/ UNCHANGED vars
    BY <2>3 DEF Call, Enqueue, Cancel, vars
  <2>4. CASE \E e \in Executor : Crash(e)
    BY <2>4
  <2> QED
    BY <2>1, <2>2, <2>3, <2>4 DEF CalmNext
<1> QED
  BY <1>2, <1>3, <1>4, <1>5, <1>6

\* Who waits was waiting already, for the same workflow in the same process.
Same(x, y) == y.wf = x.wf /\ y.exec = x.exec /\ y.kind = x.kind /\ y.owner = x.owner
NobodyNew == \A r \in Run : Waiting(run'[r]) => Waiting(run[r]) /\ Same(run[r], run'[r])

\* Without a new invocation the waiting ones stay in order.
LEMMA WaitKept ==
    ASSUME TypeOK, WaitInv, CalmNext, QueuesMove, NobodyNew
    PROVE  WaitInv'
<1>1. ASSUME NEW r \in Run, Waiting(run'[r])
      PROVE  up'[run'[r].exec] = IF run'[r].kind = "recovery" THEN "launching" ELSE "up"
  <2>1. Waiting(run[r]) /\ run'[r].exec = run[r].exec /\ run'[r].kind = run[r].kind
    BY <1>1 DEF NobodyNew, Same
  <2>2. up'[run[r].exec] = up[run[r].exec]
    BY <1>1, <2>1, WaitsInPeace
  <2> QED
    BY <2>1, <2>2 DEF WaitInv
<1>2. ASSUME NEW r \in Run, NEW s \in Run, r # s, Waiting(run'[r]), Waiting(run'[s]),
             run'[r].exec = run'[s].exec, run'[r].kind = run'[s].kind
      PROVE  run'[r].kind = "call"
  <2>1. Waiting(run[r]) /\ Waiting(run[s]) /\ Same(run[r], run'[r]) /\ Same(run[s], run'[s])
    BY <1>2 DEF NobodyNew
  <2> QED
    BY <1>2, <2>1 DEF WaitInv, Same
<1>3. ASSUME NEW r \in Run, FirstCall(run'[r]) PROVE FirstCall(run[r]) /\ run'[r].wf = run[r].wf
  BY <1>3 DEF NobodyNew, FirstCall, Same
<1>4. ASSUME NEW r \in Run, NEW s \in Run, r # s, FirstCall(run'[r]), FirstCall(run'[s])
      PROVE  run'[r].wf # run'[s].wf
  BY <1>3, <1>4 DEF WaitInv
<1>5. ASSUME NEW r \in Run, FirstCall(run'[r])
      PROVE  /\ OffQueue(row'[run'[r].wf])
             /\ \A e \in Executor : run'[r].wf \notin claimed'[e]
             /\ \A s \in Run : Waiting(run'[s]) /\ run'[s].kind = "dequeue" => run'[s].wf # run'[r].wf
  <2>1. PICK w : w = run[r].wf
    OBVIOUS
  <2>2. FirstCall(run[r]) /\ run'[r].wf = w /\ w \in Workflow
    BY <1>3, <1>5, <2>1 DEF TypeOK, FirstCall, Waiting
  <2>3. /\ OffQueue(row[w]) /\ \A e \in Executor : w \notin claimed[e]
        /\ \A s \in Run : Waiting(run[s]) /\ run[s].kind = "dequeue" => run[s].wf # w
    BY <2>1, <2>2 DEF WaitInv
  <2>4. OffQueue(row'[w]) /\ \A e \in Executor : w \notin claimed'[e]
    BY <2>2, <2>3 DEF QueuesMove, OffQueue
  <2>5. \A s \in Run : Waiting(run'[s]) /\ run'[s].kind = "dequeue" => run'[s].wf # w
    BY <2>3 DEF NobodyNew, Same
  <2> QED
    BY <2>2, <2>4, <2>5
<1> QED
  BY <1>1, <1>2, <1>4, <1>5 DEF WaitInv

\* A new invocation comes when its maker has no other one waiting, and inserts
\* the row only if nobody knows the workflow.
LEMMA WaitEnters ==
    ASSUME TypeOK, HandInv, NewInv, WaitInv, QueuesMove, NEW r \in Run, NEW kind \in Kind,
           NEW e \in Executor, NEW w \in Workflow, Enters(r, kind, e, w)
    PROVE  WaitInv'
<1>1. /\ run[r].pc = "free"
      /\ \A q \in Run : q # r => run'[q] = run[q]
      /\ \/ run'[r] = run[r]
         \/ /\ run'[r].pc = "decide" /\ run'[r].kind = kind /\ run'[r].exec = e
            /\ run'[r].wf = w
            /\ run'[r].owner = IF row[w].status = "ABSENT" THEN "self" ELSE "other"
      /\ Placed(row[w], row'[w], e)
  BY Entered
<1>2. up' = up /\ up[e] = (IF kind = "recovery" THEN "launching" ELSE "up")
      /\ (kind # "call" => ~Invoking(e, kind)) /\ (kind = "dequeue" => w \in claimed[e])
  BY DEF Enters, HandInv
<1>3. ASSUME NEW q \in Run, Waiting(run'[q])
      PROVE  \/ q # r /\ run'[q] = run[q] /\ Waiting(run[q])
             \/ q = r /\ run'[r].kind = kind /\ run'[r].exec = e /\ run'[r].wf = w
                /\ run'[r].owner = IF row[w].status = "ABSENT" THEN "self" ELSE "other"
  BY <1>1, <1>3 DEF Waiting
<1>4. ASSUME NEW q \in Run, Waiting(run'[q])
      PROVE  up'[run'[q].exec] = IF run'[q].kind = "recovery" THEN "launching" ELSE "up"
  BY <1>2, <1>3, <1>4 DEF WaitInv
<1>5. ASSUME NEW q \in Run, Waiting(run[q]), run[q].exec = e, run[q].kind = kind PROVE kind = "call"
  BY <1>2, <1>5 DEF Invoking, Waiting
<1>6. ASSUME NEW q \in Run, NEW s \in Run, q # s, Waiting(run'[q]), Waiting(run'[s]),
             run'[q].exec = run'[s].exec, run'[q].kind = run'[s].kind
      PROVE  run'[q].kind = "call"
  <2>1. CASE q # r /\ s # r
    BY <1>3, <1>6, <2>1 DEF WaitInv
  <2>2. CASE q = r
    BY <1>3, <1>5, <1>6, <2>2
  <2>3. CASE s = r
    BY <1>3, <1>5, <1>6, <2>3
  <2> QED
    BY <2>1, <2>2, <2>3
<1>7. ASSUME NEW q \in Run, FirstCall(run'[q])
      PROVE  \/ q # r /\ run'[q] = run[q] /\ FirstCall(run[q])
             \/ q = r /\ run'[r].wf = w /\ row[w].status = "ABSENT" /\ kind = "call"
  BY <1>3, <1>7 DEF FirstCall
<1>8. row[w].status = "ABSENT" => \A q \in Run : run[q].wf # w
  BY DEF NewInv
<1>9. ASSUME NEW q \in Run, NEW s \in Run, q # s, FirstCall(run'[q]), FirstCall(run'[s])
      PROVE  run'[q].wf # run'[s].wf
  <2>1. CASE q # r /\ s # r
    BY <1>7, <1>9, <2>1 DEF WaitInv
  <2>2. CASE q = r
    BY <1>7, <1>8, <1>9, <2>2
  <2>3. CASE s = r
    BY <1>7, <1>8, <1>9, <2>3
  <2> QED
    BY <2>1, <2>2, <2>3
<1>10. ASSUME NEW q \in Run, FirstCall(run'[q])
       PROVE  /\ OffQueue(row'[run'[q].wf])
              /\ \A f \in Executor : run'[q].wf \notin claimed'[f]
              /\ \A s \in Run : Waiting(run'[s]) /\ run'[s].kind = "dequeue" => run'[s].wf # run'[q].wf
  <2>1. CASE q # r
    <3>1. PICK v : v = run[q].wf
      OBVIOUS
    <3>2. FirstCall(run[q]) /\ run'[q].wf = v /\ v \in Workflow
      BY <1>7, <1>10, <2>1, <3>1 DEF TypeOK, FirstCall, Waiting
    <3>3. /\ OffQueue(row[v]) /\ \A f \in Executor : v \notin claimed[f]
          /\ \A s \in Run : Waiting(run[s]) /\ run[s].kind = "dequeue" => run[s].wf # v
      BY <3>1, <3>2 DEF WaitInv
    <3>4. OffQueue(row'[v]) /\ \A f \in Executor : v \notin claimed'[f]
      BY <3>2, <3>3 DEF QueuesMove, OffQueue
    <3>5. ASSUME NEW s \in Run, Waiting(run'[s]), run'[s].kind = "dequeue" PROVE run'[s].wf # v
      <4>1. CASE s # r
        BY <1>3, <3>3, <3>5, <4>1
      <4>2. CASE s = r
        BY <1>2, <1>3, <3>3, <3>5, <4>2
      <4> QED
        BY <4>1, <4>2
    <3> QED
      BY <3>2, <3>4, <3>5
  <2>2. CASE q = r
    <3>1. run'[q].wf = w /\ row[w].status = "ABSENT" /\ kind = "call"
      BY <1>7, <1>10, <2>2
    <3>2. \A f \in Executor : w \notin claimed[f]
      BY <3>1 DEF NewInv
    <3>3. \A f \in Executor : w \notin claimed'[f]
      BY <3>1, <3>2 DEF QueuesMove
    <3>4. OffQueue(row'[w])
      BY <1>1, <3>1 DEF Placed, OffQueue
    <3>5. ASSUME NEW s \in Run, Waiting(run'[s]), run'[s].kind = "dequeue" PROVE run'[s].wf # w
      BY <1>3, <1>8, <3>1, <3>5
    <3> QED
      BY <3>1, <3>3, <3>4, <3>5
  <2> QED
    BY <2>1, <2>2
<1> QED
  BY <1>4, <1>6, <1>9, <1>10 DEF WaitInv

\* So they are after every step.
LEMMA WaitStep ==
    ASSUME TypeOK, HandInv, NewInv, WaitInv, CalmNext, QueuesMove, RunsMove
    PROVE  WaitInv'
<1>1. CASE \E r \in Run, kind \in Kind, e \in Executor, w \in Workflow : Enters(r, kind, e, w)
  BY <1>1, WaitEnters
<1>2. ASSUME NEW r \in Run, (Decide(r) /\ ~Skip(r)) \/ Admit(r) PROVE NobodyNew
  <2>1. /\ \A q \in Run : q # r => run'[q] = run[q]
        /\ Same(run[r], run'[r]) /\ Waiting(run[r])
    BY <1>2, Moved DEF Same
  <2>2. ASSUME NEW q \in Run, Waiting(run'[q]) PROVE Waiting(run[q]) /\ Same(run[q], run'[q])
    <3>1. CASE q = r
      BY <2>1, <3>1
    <3>2. CASE q # r
      BY <2>1, <2>2, <3>2 DEF Same
    <3> QED
      BY <3>1, <3>2
  <2> QED
    BY <2>2 DEF NobodyNew
<1>3. ASSUME \A r \in Run : GoesOn(run[r], run'[r]) PROVE NobodyNew
  <2>1. Free.pc = "free"
    BY DEF Free
  <2> QED
    <3> SUFFICES ASSUME NEW q \in Run, Waiting(run'[q])
                 PROVE  Waiting(run[q]) /\ Same(run[q], run'[q])
      BY DEF NobodyNew
    <3>1. GoesOn(run[q], run'[q]) /\ run'[q] # Free
      BY <1>3, <2>1 DEF Waiting
    <3> QED
      BY <3>1 DEF GoesOn, Same
<1> QED
  BY <1>1, <1>2, <1>3, WaitKept DEF RunsMove

\* The bodies keep their entries, and no process lets a second one past.
LEMMA BodyStep ==
    ASSUME TypeOK, AdmitsGranted, WaitInv, BodyInv, RunsMove
    PROVE  BodyInv'
<1>0. /\ active \in [Executor -> SUBSET Workflow]
      /\ \A r \in Run : run[r].pc # "free" => run[r].wf \in Workflow /\ run[r].exec \in Executor
  BY DEF TypeOK
<1>1. ASSUME NEW r \in Run, NEW kind \in Kind, NEW e \in Executor, NEW w \in Workflow,
             Enters(r, kind, e, w)
      PROVE  BodyInv'
  <2>1. active' = active /\ \A q \in Run : run'[q] = run[q] \/ run'[q].pc = "decide"
    BY <1>1, Entered DEF Enters
  <2>2. \A q \in Run : (Body(run'[q]) \/ Engaged(run'[q])) => run'[q] = run[q]
    BY <2>1 DEF Body, Engaged
  <2> QED
    BY <2>1, <2>2 DEF BodyInv
<1>2. ASSUME NEW r \in Run, Decide(r) /\ ~Skip(r) PROVE BodyInv'
  <2>1. /\ \A q \in Run : q # r => run'[q] = run[q]
        /\ run'[r].wf = run[r].wf /\ run'[r].exec = run[r].exec
    BY <1>2, Moved
  <2>2. active' = active /\ run'[r].pc = "admit" /\ run[r].pc = "decide"
    <3>1. active' = active /\ run[r].pc = "decide" /\ run' = [run EXCEPT ![r] = [run[r] EXCEPT !.pc = "admit"]]
      BY <1>2 DEF Decide
    <3>2. run \in [Run -> RunRecord] /\ run[r] \in RunRecord
      BY DEF TypeOK
    <3>3. run'[r] = [run[r] EXCEPT !.pc = "admit"]
      BY <3>1, <3>2
    <3> QED
      BY <3>1, <3>2, <3>3 DEF RunRecord
  <2>3. run[r].wf \notin active[run[r].exec] /\ Granted(run[r])
    BY <1>2 DEF Skip, Granted
  <2>4. ASSUME NEW s \in Run, s # r, Engaged(run[s]) PROVE Apart(run[r], run[s])
    <3> SUFFICES ASSUME run[r].wf = run[s].wf, run[r].exec = run[s].exec PROVE FALSE
      BY DEF Apart
    <3>1. run[s].pc = "admit"
      BY <2>3, <2>4 DEF BodyInv, Engaged
    <3>2. Waiting(run[r]) /\ Waiting(run[s]) /\ Granted(run[s])
      BY <2>2, <3>1 DEF Waiting, AdmitsGranted
    <3>3. (run[r].kind = "recovery") <=> (run[s].kind = "recovery")
      BY <3>2 DEF WaitInv
    <3>4. run[r].kind \in Kind /\ run[s].kind \in Kind
      BY DEF TypeOK, RunRecord
    <3>5. CASE run[r].kind = run[s].kind
      <4>1. run[r].kind = "call" /\ run[s].kind = "call"
        BY <2>4, <3>2, <3>5 DEF WaitInv
      <4>2. FirstCall(run[r]) /\ FirstCall(run[s])
        BY <2>3, <3>2, <4>1 DEF Granted, FirstCall
      <4> QED
        BY <2>4, <4>2 DEF WaitInv
    <3>6. CASE run[r].kind = "call" /\ run[s].kind = "dequeue"
      <4>1. FirstCall(run[r])
        BY <2>3, <3>2, <3>6 DEF Granted, FirstCall
      <4> QED
        BY <3>2, <3>6, <4>1 DEF WaitInv
    <3>7. CASE run[s].kind = "call" /\ run[r].kind = "dequeue"
      <4>1. FirstCall(run[s])
        BY <3>2, <3>7 DEF Granted, FirstCall
      <4> QED
        BY <3>2, <3>7, <4>1 DEF WaitInv
    <3> QED
      BY <3>3, <3>4, <3>5, <3>6, <3>7 DEF Kind
  <2>5. ASSUME NEW q \in Run, Body(run'[q]) PROVE run'[q].wf \in active'[run'[q].exec]
    BY <2>1, <2>2, <2>5 DEF BodyInv, Body
  <2>6. ASSUME NEW q \in Run, NEW s \in Run, q # s, Engaged(run'[q]), Engaged(run'[s])
        PROVE  Apart(run'[q], run'[s])
    <3>1. CASE q # r /\ s # r
      BY <2>1, <2>6, <3>1 DEF BodyInv
    <3>2. CASE q = r
      BY <2>1, <2>4, <2>6, <3>2 DEF Apart
    <3>3. CASE s = r
      BY <2>1, <2>4, <2>6, <3>3 DEF Apart
    <3> QED
      BY <3>1, <3>2, <3>3
  <2> QED
    BY <2>5, <2>6 DEF BodyInv
<1>3. ASSUME NEW r \in Run, Admit(r) PROVE BodyInv'
  <2>1. /\ \A q \in Run : q # r => run'[q] = run[q]
        /\ run'[r].wf = run[r].wf /\ run'[r].exec = run[r].exec
    BY <1>3, Moved
  <2>2. /\ run[r].pc = "admit" /\ run[r].wf \in Workflow /\ run[r].exec \in Executor
        /\ active' = [active EXCEPT ![run[r].exec] = @ \cup {run[r].wf}]
    BY <1>0, <1>3 DEF Admit
  <2>3. run[r].wf \in active'[run[r].exec] /\ \A f \in Executor : active[f] \subseteq active'[f]
    BY <1>0, <2>2
  <2>4. ASSUME NEW q \in Run, Body(run'[q]) PROVE run'[q].wf \in active'[run'[q].exec]
    <3>1. CASE q = r
      BY <2>1, <2>3, <3>1
    <3>2. CASE q # r
      <4>1. Body(run[q]) /\ run'[q] = run[q]
        BY <2>1, <2>4, <3>2
      <4>2. run[q].exec \in Executor /\ run[q].wf \in active[run[q].exec]
        BY <1>0, <4>1 DEF BodyInv, Body
      <4> QED
        BY <2>3, <4>1, <4>2
    <3> QED
      BY <3>1, <3>2
  <2>5. \A q \in Run : Engaged(run'[q]) => Engaged(run[q]) /\ run'[q].wf = run[q].wf /\ run'[q].exec = run[q].exec
    BY <2>1, <2>2 DEF Engaged
  <2> QED
    BY <2>4, <2>5 DEF BodyInv, Apart
<1>4. CASE /\ \A r \in Run : GoesOn(run[r], run'[r])
           /\ \/ active' = active
              \/ \E r \in Run : Leave(r)
              \/ \E e \in Executor : Crash(e)
  <2>1. \A q \in Run : /\ Engaged(run'[q]) => Engaged(run[q]) /\ run'[q].wf = run[q].wf /\ run'[q].exec = run[q].exec
                       /\ Body(run'[q]) => Body(run[q]) /\ run'[q].wf = run[q].wf /\ run'[q].exec = run[q].exec
    BY <1>4 DEF GoesOn, Engaged, Body, Free
  <2>2. \A r, s \in Run : r # s /\ Engaged(run'[r]) /\ Engaged(run'[s]) => Apart(run'[r], run'[s])
    BY <2>1 DEF BodyInv, Apart
  <2>3. CASE active' = active
    BY <2>1, <2>2, <2>3 DEF BodyInv
  <2>4. ASSUME NEW r \in Run, Leave(r) PROVE BodyInv'
    <3>1. /\ active' = [active EXCEPT ![run[r].exec] = @ \ {run[r].wf}]
          /\ run' = [run EXCEPT ![r] = Free] /\ Body(run[r])
      BY <2>4 DEF Leave, Body
    <3>2. run'[r] = Free
      BY <3>1 DEF TypeOK
    <3>3. ASSUME NEW q \in Run, Body(run'[q]) PROVE run'[q].wf \in active'[run'[q].exec]
      <4>1. q # r
        BY <3>2, <3>3 DEF Free, Body
      <4>2. Body(run[q]) /\ run'[q].wf = run[q].wf /\ run'[q].exec = run[q].exec
        BY <2>1, <3>3
      <4>3. Apart(run[q], run[r])
        BY <3>1, <4>1, <4>2 DEF BodyInv, Engaged
      <4>4. run[q].exec \in Executor /\ run[q].wf \in active[run[q].exec]
        BY <1>0, <4>2 DEF BodyInv, Body
      <4> QED
        BY <1>0, <3>1, <4>2, <4>3, <4>4 DEF Apart
    <3> QED
      BY <2>2, <3>3 DEF BodyInv
  <2>5. ASSUME NEW e \in Executor, Crash(e) PROVE BodyInv'
    <3>1. /\ active' = [active EXCEPT ![e] = {}]
          /\ \A q \in Run : run[q].exec = e => run'[q] = Free
      BY <2>5 DEF Crash
    <3>2. ASSUME NEW q \in Run, Body(run'[q]) PROVE run'[q].wf \in active'[run'[q].exec]
      <4>1. Body(run[q]) /\ run'[q].wf = run[q].wf /\ run'[q].exec = run[q].exec
        BY <2>1, <3>2
      <4>2. run[q].exec # e
        BY <3>1, <3>2 DEF Free, Body
      <4>3. run[q].exec \in Executor /\ run[q].wf \in active[run[q].exec]
        BY <1>0, <4>1 DEF BodyInv, Body
      <4> QED
        BY <1>0, <3>1, <4>1, <4>2, <4>3
    <3> QED
      BY <2>2, <3>2 DEF BodyInv
  <2> QED
    BY <1>4, <2>3, <2>4, <2>5
<1> QED
  BY <1>1, <1>2, <1>3, <1>4 DEF RunsMove

\* Every behaviour keeps the order among the invocations while it is undisturbed.
LEMMA OneInvariance == Spec => [](OneInv /\ BudgetInv)
<1>1. Init => OneInv
  <2> SUFFICES ASSUME Init PROVE HandInv /\ NewInv /\ WaitInv /\ BodyInv
    BY DEF OneInv
  <2>1. \A e \in Executor : claimed[e] = {} /\ todo[e] = {}
    BY DEF Init
  <2>2. \A r \in Run : run[r].pc = "free" /\ run[r].wf = None
    BY DEF Init, Free
  <2>3. HandInv
    BY <2>1 DEF HandInv, NamesOnce
  <2>4. NewInv
    BY <2>1, <2>2 DEF NewInv
  <2>5. WaitInv /\ BodyInv
    BY <2>2 DEF WaitInv, BodyInv, Waiting, FirstCall, Body, Engaged
  <2> QED
    BY <2>3, <2>4, <2>5
<1>2. TypeOK /\ BudgetInv /\ OneInv /\ [Next]_vars => OneInv'
  <2> SUFFICES ASSUME TypeOK, BudgetInv, OneInv, [Next]_vars, Undisturbed'
               PROVE  HandInv' /\ NewInv' /\ WaitInv' /\ BodyInv'
    BY DEF OneInv
  <2>1. CalmNext /\ HandInv /\ NewInv /\ WaitInv /\ BodyInv
    BY CalmStep DEF OneInv
  <2>2. AdmitsGranted /\ \A w \in Workflow : row[w].status = "ABSENT" => row[w].attempts = 0
    BY DEF BudgetInv
  <2>3. \A w \in Workflow : row'[w].status = "ABSENT" => row[w].status = "ABSENT"
    BY <2>2, StepSpends DEF Spends
  <2>4. RunsMove /\ QueuesMove
    BY <2>1, StepMovesRuns, StepMovesQueues
  <2>5. HandInv'
    BY <2>1, HandStep
  <2>6. NewInv'
    BY <2>1, <2>3, <2>4, NewStep
  <2>7. WaitInv'
    BY <2>1, <2>4, WaitStep
  <2>8. BodyInv'
    BY <2>1, <2>2, <2>4, BodyStep
  <2> QED
    BY <2>5, <2>6, <2>7, <2>8
<1> QED
  BY <1>1, <1>2, Typing, BudgetInvariance, PTL DEF Spec

------------------------------------------------------------------------------
(* One chance to execute a step, and one more for every crash.             *)

\* Who may still execute step k of w: an invocation,
MayRun(x, k) ==
    \/ Waiting(x) /\ Granted(x)
    \/ x.pc \in {"check", "exec"} /\ x.step <= k
    \/ x.pc = "record" /\ x.step < k
RunsFor(runs, w, k) == {r \in Run : runs[r].wf = w /\ MayRun(runs[r], k)}

\* a recovery pass, a batch of the runner,
ListsWith(lists, w) == {e \in Executor : \E t \in lists[e] : t.wf = w}
BatchesWith(batches, w) == {e \in Executor : w \in batches[e]}

\* or whoever takes the row next.
Takable(x, ups) ==
    \/ x.status \in {"ABSENT", "ENQUEUED"}
    \/ x.status = "PENDING" /\ \E e \in Executor : x.executor = e /\ ups[e] = "down"

Chances(w, k) ==
    Cardinality(RunsFor(run, w, k)) + Cardinality(ListsWith(todo, w))
        + Cardinality(BatchesWith(claimed, w)) + IF Takable(row[w], up) THEN 1 ELSE 0

Finite(w, k) ==
    /\ IsFiniteSet(RunsFor(run, w, k))
    /\ IsFiniteSet(ListsWith(todo, w))
    /\ IsFiniteSet(BatchesWith(claimed, w))

ChanceInv ==
    Undisturbed =>
        \A w \in Workflow : \A k \in Step :
            /\ Finite(w, k)
            /\ effects[w][k] + Chances(w, k) <= 1 + (MaxCrashes - budget.crash)

\* A set that became another one: by nothing, by one more, by one less.
Within(G, H) == H \subseteq G
OneMore(G, H) == \E x : H \subseteq G \cup {x}
OneLess(G, H) == \E x \in G : H \subseteq G \ {x}

\* What that means for their sizes.
LEMMA Sizes ==
    ASSUME NEW G, NEW H, IsFiniteSet(G), Within(G, H) \/ OneMore(G, H) \/ OneLess(G, H)
    PROVE  /\ IsFiniteSet(H) /\ Cardinality(G) \in Nat /\ Cardinality(H) \in Nat
           /\ Within(G, H) => Cardinality(H) <= Cardinality(G)
           /\ OneMore(G, H) => Cardinality(H) <= Cardinality(G) + 1
           /\ OneLess(G, H) => Cardinality(H) + 1 <= Cardinality(G)
<1>1. Cardinality(G) \in Nat
  BY FS_CardinalityType
<1>2. ASSUME Within(G, H)
      PROVE  IsFiniteSet(H) /\ Cardinality(H) \in Nat /\ Cardinality(H) <= Cardinality(G)
  BY <1>2, FS_Subset, FS_CardinalityType DEF Within
<1>3. ASSUME OneMore(G, H)
      PROVE  IsFiniteSet(H) /\ Cardinality(H) \in Nat /\ Cardinality(H) <= Cardinality(G) + 1
  <2>1. PICK x : H \subseteq G \cup {x}
    BY <1>3 DEF OneMore
  <2>2. IsFiniteSet(G \cup {x}) /\ (Cardinality(G \cup {x}) = Cardinality(G)
                                    \/ Cardinality(G \cup {x}) = Cardinality(G) + 1)
    BY FS_AddElement
  <2>3. IsFiniteSet(H) /\ Cardinality(H) \in Nat /\ Cardinality(H) <= Cardinality(G \cup {x})
    BY <2>1, <2>2, FS_Subset, FS_CardinalityType
  <2> QED
    BY <1>1, <2>2, <2>3
<1>4. ASSUME OneLess(G, H)
      PROVE  IsFiniteSet(H) /\ Cardinality(H) \in Nat /\ Cardinality(H) + 1 <= Cardinality(G)
  <2>1. PICK x \in G : H \subseteq G \ {x}
    BY <1>4 DEF OneLess
  <2>2. IsFiniteSet(G \ {x}) /\ Cardinality(G \ {x}) = Cardinality(G) - 1
    BY <2>1, FS_RemoveElement
  <2>3. IsFiniteSet(H) /\ Cardinality(H) \in Nat /\ Cardinality(H) <= Cardinality(G \ {x})
    BY <2>1, <2>2, FS_Subset, FS_CardinalityType
  <2> QED
    BY <1>1, <2>2, <2>3
<1> QED
  BY <1>1, <1>2, <1>3, <1>4

\* A step passes the chance to execute step k of w on, from one hand to the next
\* or to nobody;
Passes(w, k) ==
    LET runs == RunsFor(run, w, k)       runsN == RunsFor(run', w, k)
        lists == ListsWith(todo, w)      listsN == ListsWith(todo', w)
        batches == BatchesWith(claimed, w)
        batchesN == BatchesWith(claimed', w)
        open == Takable(row[w], up)      openN == Takable(row'[w], up')
    IN  /\ effects'[w][k] = effects[w][k] /\ budget'.crash = budget.crash
        /\ \/ Within(runs, runsN) /\ Within(lists, listsN) /\ Within(batches, batchesN)
              /\ (openN => open)
           \/ OneMore(runs, runsN) /\ Within(lists, listsN) /\ Within(batches, batchesN)
              /\ open /\ ~openN
           \/ OneMore(runs, runsN) /\ OneLess(lists, listsN) /\ Within(batches, batchesN)
              /\ (openN => open)
           \/ OneMore(runs, runsN) /\ Within(lists, listsN) /\ OneLess(batches, batchesN)
              /\ (openN => open)
           \/ Within(runs, runsN) /\ Within(lists, listsN) /\ OneMore(batches, batchesN)
              /\ open /\ ~openN
           \/ Within(runs, runsN) /\ OneMore(lists, listsN) /\ Within(batches, batchesN)
              /\ open /\ ~openN
           \/ Within(runs, runsN) /\ OneLess(lists, listsN) /\ Within(batches, batchesN)

\* or the step is executed and a chance is gone;
Uses(w, k) ==
    /\ effects'[w][k] = effects[w][k] + 1 /\ budget'.crash = budget.crash
    /\ OneLess(RunsFor(run, w, k), RunsFor(run', w, k))
    /\ Within(ListsWith(todo, w), ListsWith(todo', w))
    /\ Within(BatchesWith(claimed, w), BatchesWith(claimed', w))
    /\ Takable(row'[w], up') => Takable(row[w], up)

\* or a process crashes, and its workflows may be taken once more.
Reopens(w, k) ==
    /\ effects'[w][k] = effects[w][k] /\ budget'.crash = budget.crash - 1
    /\ Within(RunsFor(run, w, k), RunsFor(run', w, k))
    /\ Within(ListsWith(todo, w), ListsWith(todo', w))
    /\ Within(BatchesWith(claimed, w), BatchesWith(claimed', w))

\* What ChanceInv says of one step of one workflow.
ChanceOK(w, k) ==
    Finite(w, k) /\ effects[w][k] + Chances(w, k) <= 1 + (MaxCrashes - budget.crash)

\* None of these gives away more chances than there have been crashes.
LEMMA ChanceKept ==
    ASSUME TypeOK, TypeOK', NEW w \in Workflow, NEW k \in Step, ChanceOK(w, k),
           Passes(w, k) \/ Uses(w, k) \/ Reopens(w, k)
    PROVE  /\ IsFiniteSet(RunsFor(run', w, k))
           /\ IsFiniteSet(ListsWith(todo', w))
           /\ IsFiniteSet(BatchesWith(claimed', w))
           /\ effects'[w][k] + (Cardinality(RunsFor(run', w, k)) + Cardinality(ListsWith(todo', w))
                  + Cardinality(BatchesWith(claimed', w)) + IF Takable(row'[w], up') THEN 1 ELSE 0)
                <= 1 + (MaxCrashes - budget'.crash)
<1> DEFINE R == RunsFor(run, w, k)         R1 == RunsFor(run', w, k)
           L == ListsWith(todo, w)         L1 == ListsWith(todo', w)
           B == BatchesWith(claimed, w)    B1 == BatchesWith(claimed', w)
           o == IF Takable(row[w], up) THEN 1 ELSE 0
           o1 == IF Takable(row'[w], up') THEN 1 ELSE 0
           n == effects[w][k]              n1 == effects'[w][k]
           c == budget.crash               c1 == budget'.crash
<1>1. n \in Nat /\ n1 \in Nat /\ c \in Nat /\ c1 \in Nat
  BY DEF TypeOK, Budget
<1>2. IsFiniteSet(R) /\ IsFiniteSet(L) /\ IsFiniteSet(B)
      /\ n + (Cardinality(R) + Cardinality(L) + Cardinality(B) + o) <= 1 + (MaxCrashes - c)
  BY DEF ChanceOK, Finite, Chances
<1>3. o \in {0, 1} /\ o1 \in {0, 1} /\ (Takable(row'[w], up') /\ ~Takable(row[w], up) <=> o1 > o)
      /\ (Takable(row[w], up) /\ ~Takable(row'[w], up') <=> o1 < o)
  OBVIOUS
<1>4. /\ Within(R, R1) \/ OneMore(R, R1) \/ OneLess(R, R1)
      /\ Within(L, L1) \/ OneMore(L, L1) \/ OneLess(L, L1)
      /\ Within(B, B1) \/ OneMore(B, B1) \/ OneLess(B, B1)
  BY DEF Passes, Uses, Reopens
<1>5. \/ /\ n1 = n /\ c1 = c
         /\ \/ Within(R, R1) /\ Within(L, L1) /\ Within(B, B1) /\ o1 <= o
            \/ OneMore(R, R1) /\ Within(L, L1) /\ Within(B, B1) /\ o1 < o
            \/ OneMore(R, R1) /\ OneLess(L, L1) /\ Within(B, B1) /\ o1 <= o
            \/ OneMore(R, R1) /\ Within(L, L1) /\ OneLess(B, B1) /\ o1 <= o
            \/ Within(R, R1) /\ Within(L, L1) /\ OneMore(B, B1) /\ o1 < o
            \/ Within(R, R1) /\ OneMore(L, L1) /\ Within(B, B1) /\ o1 < o
            \/ Within(R, R1) /\ OneLess(L, L1) /\ Within(B, B1)
      \/ n1 = n + 1 /\ c1 = c /\ OneLess(R, R1) /\ Within(L, L1) /\ Within(B, B1) /\ o1 <= o
      \/ n1 = n /\ c1 = c - 1 /\ Within(R, R1) /\ Within(L, L1) /\ Within(B, B1)
  <2>1. CASE Passes(w, k)
    BY <2>1 DEF Passes
  <2>2. CASE Uses(w, k)
    BY <2>2 DEF Uses
  <2>3. CASE Reopens(w, k)
    BY <2>3 DEF Reopens
  <2> QED
    BY <2>1, <2>2, <2>3
<1> DEFINE nR == Cardinality(R)  nR1 == Cardinality(R1)
           nL == Cardinality(L)  nL1 == Cardinality(L1)
           nB == Cardinality(B)  nB1 == Cardinality(B1)
<1>6. /\ IsFiniteSet(R1) /\ nR \in Nat /\ nR1 \in Nat
      /\ Within(R, R1) => nR1 <= nR
      /\ OneMore(R, R1) => nR1 <= nR + 1
      /\ OneLess(R, R1) => nR1 + 1 <= nR
  <2> HIDE DEF R, R1
  <2> QED
    BY <1>2, <1>4, Sizes
<1>7. /\ IsFiniteSet(L1) /\ nL \in Nat /\ nL1 \in Nat
      /\ Within(L, L1) => nL1 <= nL
      /\ OneMore(L, L1) => nL1 <= nL + 1
      /\ OneLess(L, L1) => nL1 + 1 <= nL
  <2> HIDE DEF L, L1
  <2> QED
    BY <1>2, <1>4, Sizes
<1>8. /\ IsFiniteSet(B1) /\ nB \in Nat /\ nB1 \in Nat
      /\ Within(B, B1) => nB1 <= nB
      /\ OneMore(B, B1) => nB1 <= nB + 1
      /\ OneLess(B, B1) => nB1 + 1 <= nB
  <2> HIDE DEF B, B1
  <2> QED
    BY <1>2, <1>4, Sizes
<1>9. n + (nR + nL + nB + o) <= 1 + (MaxCrashes - c)
  BY <1>2
<1> HIDE DEF R, R1, L, L1, B, B1, o, o1, n, n1, c, c1, nR, nR1, nL, nL1, nB, nB1
<1>10. MaxCrashes \in Nat
  OBVIOUS
<1>11. n1 + (nR1 + nL1 + nB1 + o1) <= 1 + (MaxCrashes - c1)
  <2>1. \/ n1 = n /\ c1 = c /\ nR1 + nL1 + nB1 + o1 <= nR + nL + nB + o
        \/ n1 = n + 1 /\ c1 = c /\ nR1 + nL1 + nB1 + o1 + 1 <= nR + nL + nB + o
        \/ n1 = n /\ c1 = c - 1 /\ nR1 + nL1 + nB1 + o1 <= nR + nL + nB + o + 1
    BY <1>1, <1>3, <1>5, <1>6, <1>7, <1>8
  <2> QED
    BY <1>1, <1>3, <1>6, <1>7, <1>8, <1>9, <1>10, <2>1
<1> QED
  BY <1>6, <1>7, <1>8, <1>11 DEF R, R1, L, L1, B, B1, o, o1, n, n1, c, c1, nR, nR1, nL, nL1, nB, nB1

\* A step that touches no list, no batch and no process, and lets nobody in.
LEMMA PassesQuietly ==
    ASSUME NEW w \in Workflow, NEW k \in Step,
           effects'[w][k] = effects[w][k], budget'.crash = budget.crash,
           \A q \in Run : run'[q].wf = w /\ MayRun(run'[q], k) => run[q].wf = w /\ MayRun(run[q], k),
           \A e \in Executor : \A t \in todo'[e] : t.wf = w => t \in todo[e],
           \A e \in Executor : w \in claimed'[e] => w \in claimed[e],
           Takable(row'[w], up') => Takable(row[w], up)
    PROVE  Passes(w, k)
<1>1. Within(RunsFor(run, w, k), RunsFor(run', w, k))
  BY DEF RunsFor, Within
<1>2. Within(ListsWith(todo, w), ListsWith(todo', w))
  BY DEF ListsWith, Within
<1>3. Within(BatchesWith(claimed, w), BatchesWith(claimed', w))
  BY DEF BatchesWith, Within
<1> QED
  BY <1>1, <1>2, <1>3 DEF Passes

\* One invocation goes on: it has a step before it only if it had it before it.
LEMMA PassesInRun ==
    ASSUME TypeOK, NEW r \in Run, NEW y, run' = [run EXCEPT ![r] = y],
           NEW w \in Workflow, NEW k \in Step,
           y.wf = w /\ MayRun(y, k) => run[r].wf = w /\ MayRun(run[r], k),
           todo' = todo, claimed' = claimed, up' = up,
           effects'[w][k] = effects[w][k], budget' = budget,
           Takable(row'[w], up) => Takable(row[w], up)
    PROVE  Passes(w, k)
<1>1. \A q \in Run : run'[q] = IF q = r THEN y ELSE run[q]
  BY DEF TypeOK
<1>2. \A q \in Run : run'[q].wf = w /\ MayRun(run'[q], k) => run[q].wf = w /\ MayRun(run[q], k)
  BY <1>1
<1> QED
  BY <1>2, PassesQuietly

\* The closure of a step uses up a chance to execute that step, and no other.
LEMMA ExecuteUses ==
    ASSUME TypeOK, NEW r \in Run, Execute(r), NEW w \in Workflow, NEW k \in Step
    PROVE  Passes(w, k) \/ Uses(w, k)
<1> DEFINE x == run[r]
<1>0. run \in [Run -> RunRecord] /\ x \in RunRecord /\ effects \in [Workflow -> [Step -> Nat]]
  BY DEF TypeOK
<1>1. PICK v \in StepResult : run' = [run EXCEPT ![r].pc = "record", ![r].val = v]
  BY DEF Execute
<1> DEFINE y == [x EXCEPT !.pc = "record", !.val = v]
<1>2. /\ run' = [run EXCEPT ![r] = y] /\ x.pc = "exec" /\ x.wf \in Workflow /\ x.step \in Step
      /\ effects' = [effects EXCEPT ![x.wf][x.step] = @ + 1]
      /\ row' = row /\ todo' = todo /\ claimed' = claimed /\ up' = up /\ budget' = budget
  BY <1>0, <1>1 DEF TypeOK, Execute
<1>3. y.wf = x.wf /\ y.step = x.step /\ y.pc = "record"
  BY <1>0 DEF RunRecord
<1>4. \A q \in Run : run'[q] = IF q = r THEN y ELSE run[q]
  BY <1>0, <1>2
<1>5. x.step \in Nat /\ k \in Nat
  BY <1>2 DEF Step
<1> HIDE DEF y
<1>6. CASE w = x.wf /\ k = x.step
  <2>1. effects'[w][k] = effects[w][k] + 1
    BY <1>0, <1>2, <1>6
  <2>2. r \in RunsFor(run, w, k)
    BY <1>2, <1>5, <1>6 DEF RunsFor, MayRun
  <2>3. r \notin RunsFor(run', w, k)
    BY <1>3, <1>4, <1>5, <1>6 DEF RunsFor, MayRun, Waiting
  <2>4. RunsFor(run', w, k) \subseteq RunsFor(run, w, k) \ {r}
    BY <1>4, <2>3 DEF RunsFor
  <2>5. OneLess(RunsFor(run, w, k), RunsFor(run', w, k))
    BY <2>2, <2>4 DEF OneLess
  <2> QED
    BY <1>2, <2>1, <2>5 DEF Uses, Within
<1>7. CASE ~(w = x.wf /\ k = x.step)
  <2>1. effects'[w][k] = effects[w][k]
    BY <1>0, <1>2, <1>7
  <2>2. y.wf = w /\ MayRun(y, k) => x.wf = w /\ MayRun(x, k)
    BY <1>2, <1>3, <1>5 DEF MayRun, Waiting
  <2>3. Passes(w, k)
    BY <1>2, <2>1, <2>2, PassesInRun
  <2> QED
    BY <2>3
<1> QED
  BY <1>6, <1>7

\* What an invocation does by itself gives nobody a chance to execute a step.
LEMMA RunStepPasses ==
    ASSUME TypeOK, AdmitsGranted, NEW r \in Run, RunStep(r), NEW w \in Workflow, NEW k \in Step
    PROVE  Passes(w, k) \/ Uses(w, k)
<1> DEFINE x == run[r]
<1>0. run \in [Run -> RunRecord] /\ x \in RunRecord
  BY DEF TypeOK
<1>1. k \in Nat /\ 1 <= k
  BY DEF Step
<1>2. ~MayRun(Free, k)
  BY DEF MayRun, Waiting, Free
<1>3. CASE Decide(r)
  <2>1. CASE Skip(r)
    <3>1. /\ run' = [run EXCEPT ![r] = Free] /\ effects' = effects /\ budget' = budget
          /\ row' = row /\ todo' = todo /\ claimed' = claimed /\ up' = up
      BY <1>3, <2>1 DEF Decide, history
    <3> QED
      BY <1>2, <3>1, PassesInRun
  <2>2. CASE ~Skip(r)
    <3> DEFINE y == [x EXCEPT !.pc = "admit"]
    <3>1. /\ run' = [run EXCEPT ![r] = y] /\ x.pc = "decide" /\ effects' = effects /\ budget' = budget
          /\ row' = row /\ todo' = todo /\ claimed' = claimed /\ up' = up
      BY <1>3, <2>2 DEF Decide, history
    <3>2. y.wf = x.wf /\ y.pc = "admit"
      BY <1>0 DEF RunRecord
    <3>3. MayRun(x, k)
      <4>1. Granted(x)
        BY <2>2 DEF Skip, Granted
      <4> QED
        BY <3>1, <4>1 DEF MayRun, Waiting
    <3> HIDE DEF y
    <3> QED
      BY <3>1, <3>2, <3>3, PassesInRun
  <2> QED
    BY <2>1, <2>2
<1>4. CASE Admit(r)
  <2> DEFINE y == [x EXCEPT !.pc = "check"]
  <2>1. /\ run' = [run EXCEPT ![r] = y] /\ x.pc = "admit" /\ effects' = effects /\ budget' = budget
        /\ row' = row /\ todo' = todo /\ claimed' = claimed /\ up' = up
    BY <1>0, <1>4 DEF Admit
  <2>2. y.wf = x.wf
    BY <1>0 DEF RunRecord
  <2>3. MayRun(x, k)
    BY <2>1 DEF MayRun, Waiting, AdmitsGranted
  <2> HIDE DEF y
  <2> QED
    BY <2>1, <2>2, <2>3, PassesInRun
<1>5. CASE CheckStep(r)
  <2> DEFINE y == Checked(x)
  <2>1. /\ run' = [run EXCEPT ![r] = y] /\ x.pc = "check" /\ effects' = effects /\ budget' = budget
        /\ row' = row /\ todo' = todo /\ claimed' = claimed /\ up' = up
    BY <1>5 DEF CheckStep, history
  <2>0. x.step \in Nat
    BY <1>0 DEF RunRecord
  <2>2. /\ y.wf = x.wf
        /\ \/ y.pc = "finish"
           \/ (y.pc = "check" /\ y.step = x.step + 1)
           \/ (y.pc = "exec" /\ y.step = x.step)
    <3>1. CASE row[x.wf].status = "CANCELLED"
      <4>1. y = [x EXCEPT !.pc = "finish", !.why = "cancelled"]
        BY <3>1 DEF Checked
      <4> QED
        BY <1>0, <4>1 DEF RunRecord
    <3>2. CASE row[x.wf].status # "CANCELLED" /\ log[x.wf][x.step] # None
      <4>1. y = Advance(x, log[x.wf][x.step])
        BY <3>2 DEF Checked
      <4> QED
        BY <1>0, <4>1, AdvanceGoesOn
    <3>3. CASE row[x.wf].status # "CANCELLED" /\ log[x.wf][x.step] = None
      <4>1. y = [x EXCEPT !.pc = "exec"]
        BY <3>3 DEF Checked
      <4> QED
        BY <1>0, <4>1 DEF RunRecord
    <3> QED
      BY <3>1, <3>2, <3>3
  <2> HIDE DEF y
  <2>3. MayRun(y, k) => MayRun(x, k)
    BY <1>1, <2>0, <2>1, <2>2 DEF MayRun, Waiting
  <2>4. y.wf = w /\ MayRun(y, k) => run[r].wf = w /\ MayRun(run[r], k)
    BY <2>2, <2>3
  <2>5. /\ effects'[w][k] = effects[w][k]
        /\ Takable(row'[w], up) => Takable(row[w], up)
    BY <2>1
  <2>6. Passes(w, k)
    BY <2>1, <2>4, <2>5, PassesInRun
  <2> QED
    BY <2>6
<1>6. CASE Execute(r)
  BY <1>6, ExecuteUses
<1>7. CASE RecordStep(r)
  <2> DEFINE y == IF log[x.wf][x.step] = None THEN Advance(x, x.val) ELSE [x EXCEPT !.pc = "await"]
  <2>1. /\ run' = [run EXCEPT ![r] = y] /\ x.pc = "record" /\ effects' = effects /\ budget' = budget
        /\ row' = row /\ todo' = todo /\ claimed' = claimed /\ up' = up
    BY <1>0, <1>7 DEF RecordStep, history
  <2>0. x.step \in Nat
    BY <1>0 DEF RunRecord
  <2>2. /\ y.wf = x.wf
        /\ y.pc \in {"finish", "await"} \/ (y.pc = "check" /\ y.step = x.step + 1)
    BY <1>0, AdvanceGoesOn DEF RunRecord
  <2> HIDE DEF y
  <2>3. MayRun(y, k) => MayRun(x, k)
    BY <1>1, <2>0, <2>1, <2>2 DEF MayRun, Waiting
  <2>4. y.wf = w /\ MayRun(y, k) => run[r].wf = w /\ MayRun(run[r], k)
    BY <2>2, <2>3
  <2>5. /\ effects'[w][k] = effects[w][k]
        /\ Takable(row'[w], up) => Takable(row[w], up)
    BY <2>1
  <2>6. Passes(w, k)
    BY <2>1, <2>4, <2>5, PassesInRun
  <2> QED
    BY <2>6
<1>8. CASE WriteOutcome(r) \/ AwaitOutcome(r)
  <2> DEFINE y == [x EXCEPT !.pc = "leave"]
             o == [why |-> x.why, seen |-> IF x.why = "ok" THEN x.seen ELSE Blank]
  <2>1. /\ run' = [run EXCEPT ![r] = y] /\ effects' = effects /\ budget' = budget
        /\ row' = row \/ (x.wf \in Workflow /\ row' = [row EXCEPT ![x.wf] = OutcomeRow(row[x.wf], o)])
        /\ todo' = todo /\ claimed' = claimed /\ up' = up
    BY <1>0, <1>8 DEF WriteOutcome, AwaitOutcome, history, TypeOK
  <2>2. y.pc = "leave"
    BY <1>0 DEF RunRecord
  <2> HIDE DEF y, o
  <2>3. Takable(row'[w], up) => Takable(row[w], up)
    <3>1. row \in [Workflow -> Row] /\ row[w] \in Row
      BY DEF TypeOK
    <3>2. row'[w] = row[w] \/ row'[w] = OutcomeRow(row[w], o)
      BY <2>1, <3>1
    <3>3. OutcomeRow(row[w], o) = row[w] \/ OutcomeRow(row[w], o).status \in {"SUCCESS", "ERROR"}
      BY <3>1 DEF OutcomeRow, Row
    <3> QED
      BY <3>2, <3>3 DEF Takable
  <2>4. ~MayRun(y, k)
    BY <2>2 DEF MayRun, Waiting
  <2> QED
    BY <2>1, <2>3, <2>4, PassesInRun
<1>9. CASE Leave(r)
  <2>1. /\ run' = [run EXCEPT ![r] = Free] /\ effects' = effects /\ budget' = budget
        /\ row' = row /\ todo' = todo /\ claimed' = claimed /\ up' = up
    BY <1>9 DEF Leave, history
  <2> QED
    BY <1>2, <2>1, PassesInRun
<1> QED
  BY <1>3, <1>4, <1>5, <1>6, <1>7, <1>8, <1>9 DEF RunStep

\* An invocation that enters leaves the row to nobody who might not have taken
\* it anyway.
LEMMA EntersTakes ==
    ASSUME TypeOK, HandInv, NEW r \in Run, NEW kind \in Kind, NEW e \in Executor, NEW v \in Workflow,
           Enters(r, kind, e, v)
    PROVE  /\ up[e] # "down" /\ up' = up
           /\ row'[v].status # "ABSENT"
           /\ Takable(row'[v], up) => row[v].status = "ENQUEUED"
           /\ \A u \in Workflow : u # v => row'[u] = row[u]
<1>1. Placed(row[v], row'[v], e) /\ \A u \in Workflow : u # v => row'[u] = row[u]
  BY Entered
<1>2. up[e] # "down" /\ up' = up
  BY DEF Enters, HandInv
<1> QED
  BY <1>1, <1>2 DEF Placed, Takable

\* Only its own workflow gets one more invocation.
LEMMA EntersRuns ==
    ASSUME TypeOK, NEW r \in Run, NEW kind \in Kind, NEW e \in Executor, NEW v \in Workflow,
           Enters(r, kind, e, v), NEW w \in Workflow, NEW k \in Step
    PROVE  /\ OneMore(RunsFor(run, w, k), RunsFor(run', w, k))
           /\ (w # v \/ (kind = "call" /\ row[v].status # "ABSENT"))
                 => \A q \in Run : run'[q].wf = w /\ MayRun(run'[q], k)
                                     => run[q].wf = w /\ MayRun(run[q], k)
<1>1. /\ \A q \in Run : q # r => run'[q] = run[q]
      /\ \/ run'[r] = run[r]
         \/ /\ run'[r].pc = "decide" /\ run'[r].kind = kind /\ run'[r].exec = e
            /\ run'[r].wf = v
            /\ run'[r].owner = IF row[v].status = "ABSENT" THEN "self" ELSE "other"
  BY Entered
<1>2. RunsFor(run', w, k) \subseteq RunsFor(run, w, k) \cup {r}
  BY <1>1 DEF RunsFor
<1>3. OneMore(RunsFor(run, w, k), RunsFor(run', w, k))
  BY <1>2 DEF OneMore
<1>4. ASSUME w # v \/ (kind = "call" /\ row[v].status # "ABSENT"),
             NEW q \in Run, run'[q].wf = w, MayRun(run'[q], k)
      PROVE  run[q].wf = w /\ MayRun(run[q], k)
  <2>1. CASE run'[q] = run[q]
    BY <1>4, <2>1
  <2>2. CASE run'[q] # run[q]
    <3>1. run'[q].pc = "decide" /\ run'[q].wf = v /\ run'[q].kind = kind
          /\ run'[q].owner = IF row[v].status = "ABSENT" THEN "self" ELSE "other"
      BY <1>1, <2>2
    <3>2. Granted(run'[q])
      BY <1>4, <3>1 DEF MayRun, Waiting
    <3> QED
      BY <1>4, <3>1, <3>2 DEF Granted
  <2> QED
    BY <2>1, <2>2
<1> QED
  BY <1>3, <1>4

\* The application's call takes the row, or attaches to it.
LEMMA CallPasses ==
    ASSUME TypeOK, HandInv, NEW e \in Executor, NEW v \in Workflow, Call(e, v),
           NEW w \in Workflow, NEW k \in Step
    PROVE  Passes(w, k)
<1>1. PICK r \in Run : Invoke(r, "call", e, v)
  BY DEF Call
<1>2. /\ "call" \in Kind /\ active' = active /\ up' = up /\ up[e] = "up"
      /\ todo' = todo /\ claimed' = claimed /\ effects' = effects /\ budget' = budget
  BY DEF Call, Kind, history
<1>3. Enters(r, "call", e, v)
  BY <1>1, <1>2 DEF Enters
<1>4. /\ Takable(row'[v], up) => row[v].status = "ENQUEUED"
      /\ \A u \in Workflow : u # v => row'[u] = row[u]
  BY <1>2, <1>3, EntersTakes
<1>5. Takable(row'[w], up) => Takable(row[w], up)
  BY <1>4 DEF Takable
<1>6. CASE w # v \/ row[v].status # "ABSENT"
  <2>1. \A q \in Run : run'[q].wf = w /\ MayRun(run'[q], k) => run[q].wf = w /\ MayRun(run[q], k)
    BY <1>2, <1>3, <1>6, EntersRuns
  <2>2. effects'[w][k] = effects[w][k] /\ budget'.crash = budget.crash
        /\ (Takable(row'[w], up') => Takable(row[w], up))
    BY <1>2, <1>5
  <2> QED
    BY <1>2, <2>1, <2>2, PassesQuietly
<1>7. CASE w = v /\ row[v].status = "ABSENT"
  <2>1. OneMore(RunsFor(run, w, k), RunsFor(run', w, k))
    BY <1>2, <1>3, EntersRuns
  <2>2. Takable(row[w], up) /\ ~Takable(row'[w], up')
    BY <1>2, <1>4, <1>7 DEF Takable
  <2> QED
    BY <1>2, <2>1, <2>2 DEF Passes, Within
<1> QED
  BY <1>6, <1>7

\* The runner hands on what it claimed.
LEMMA DispatchPasses ==
    ASSUME TypeOK, HandInv, NEW e \in Executor, Dispatch(e), NEW w \in Workflow, NEW k \in Step
    PROVE  Passes(w, k)
<1>0. claimed \in [Executor -> SUBSET Workflow]
  BY DEF TypeOK
<1>1. PICK v \in claimed[e] : /\ \E r \in Run : Invoke(r, "dequeue", e, v)
                              /\ claimed' = [claimed EXCEPT ![e] = @ \ {v}]
  BY DEF Dispatch
<1>2. PICK r \in Run : Invoke(r, "dequeue", e, v)
  BY <1>1
<1>3. /\ v \in Workflow /\ "dequeue" \in Kind /\ active' = active /\ up' = up /\ todo' = todo
      /\ ~Invoking(e, "dequeue") /\ effects' = effects /\ budget' = budget
  BY <1>0 DEF Kind, Dispatch, history
<1>4. Enters(r, "dequeue", e, v)
  BY <1>1, <1>2, <1>3 DEF Enters
<1>5. /\ Takable(row'[v], up) => row[v].status = "ENQUEUED"
      /\ \A u \in Workflow : u # v => row'[u] = row[u]
  BY <1>3, <1>4, EntersTakes
<1>6. Takable(row'[w], up') => Takable(row[w], up)
  BY <1>3, <1>5 DEF Takable
<1>7. claimed'[e] = claimed[e] \ {v} /\ \A f \in Executor : claimed'[f] \subseteq claimed[f]
  BY <1>0, <1>1
<1>8. CASE w # v
  <2>1. \A q \in Run : run'[q].wf = w /\ MayRun(run'[q], k) => run[q].wf = w /\ MayRun(run[q], k)
    BY <1>3, <1>4, <1>8, EntersRuns
  <2>2. effects'[w][k] = effects[w][k] /\ budget'.crash = budget.crash
    BY <1>3
  <2>3. \A f \in Executor : w \in claimed'[f] => w \in claimed[f]
    BY <1>7
  <2> QED
    BY <1>3, <1>6, <2>1, <2>2, <2>3, PassesQuietly
<1>9. CASE w = v
  <2>1. OneMore(RunsFor(run, w, k), RunsFor(run', w, k))
    BY <1>3, <1>4, EntersRuns
  <2>2. e \in BatchesWith(claimed, w)
        /\ BatchesWith(claimed', w) \subseteq BatchesWith(claimed, w) \ {e}
    BY <1>1, <1>7, <1>9 DEF BatchesWith
  <2>3. OneLess(BatchesWith(claimed, w), BatchesWith(claimed', w))
    BY <2>2 DEF OneLess
  <2> QED
    BY <1>3, <1>6, <2>1, <2>3 DEF Passes, Within
<1> QED
  BY <1>8, <1>9

\* A list from which the entry of w is gone.
LEMMA ListLoses ==
    ASSUME HandInv, NEW e \in Executor, NEW t \in todo[e], t \notin todo'[e],
           \A f \in Executor : todo'[f] \subseteq todo[f]
    PROVE  OneLess(ListsWith(todo, t.wf), ListsWith(todo', t.wf))
<1>1. e \in ListsWith(todo, t.wf)
  BY DEF ListsWith
<1>2. \A u \in todo'[e] : u.wf # t.wf
  BY DEF HandInv, NamesOnce
<1>3. ListsWith(todo', t.wf) \subseteq ListsWith(todo, t.wf) \ {e}
  BY <1>2 DEF ListsWith
<1> QED
  BY <1>1, <1>3 DEF OneLess

\* A recovery pass runs what it listed,
LEMMA RecoverDirectPasses ==
    ASSUME TypeOK, HandInv, NEW e \in Executor, RecoverDirect(e), NEW w \in Workflow, NEW k \in Step
    PROVE  Passes(w, k)
<1>0. todo \in [Executor -> SUBSET [wf : Workflow, queued : BOOLEAN]]
  BY DEF TypeOK
<1>1. PICK t \in todo[e] :
         /\ \E r \in Run : Invoke(r, "recovery", e, t.wf)
         /\ todo' = [todo EXCEPT ![e] =
               IF InsertFails(row[t.wf], "PENDING", e, TRUE) THEN {} ELSE @ \ {t}]
  BY DEF RecoverDirect
<1>2. PICK v : v = t.wf
  OBVIOUS
<1>3. PICK r \in Run : Invoke(r, "recovery", e, v)
  BY <1>1, <1>2
<1>4. /\ v \in Workflow /\ "recovery" \in Kind /\ active' = active /\ up' = up /\ claimed' = claimed
      /\ ~Invoking(e, "recovery") /\ effects' = effects /\ budget' = budget
  BY <1>0, <1>2 DEF Kind, RecoverDirect, history
<1>5. Enters(r, "recovery", e, v)
  BY <1>1, <1>2, <1>3, <1>4 DEF Enters
<1>6. /\ Takable(row'[v], up) => row[v].status = "ENQUEUED"
      /\ \A u \in Workflow : u # v => row'[u] = row[u]
  BY <1>4, <1>5, EntersTakes
<1>7. Takable(row'[w], up') => Takable(row[w], up)
  BY <1>4, <1>6 DEF Takable
<1>8. t \notin todo'[e] /\ \A f \in Executor : todo'[f] \subseteq todo[f]
  BY <1>0, <1>1
<1>9. CASE w # v
  <2>1. \A q \in Run : run'[q].wf = w /\ MayRun(run'[q], k) => run[q].wf = w /\ MayRun(run[q], k)
    BY <1>4, <1>5, <1>9, EntersRuns
  <2>2. effects'[w][k] = effects[w][k] /\ budget'.crash = budget.crash
    BY <1>4
  <2> QED
    BY <1>4, <1>7, <1>8, <2>1, <2>2, PassesQuietly
<1>10. CASE w = v
  <2>1. OneMore(RunsFor(run, w, k), RunsFor(run', w, k))
    BY <1>4, <1>5, EntersRuns
  <2>2. OneLess(ListsWith(todo, w), ListsWith(todo', w))
    BY <1>2, <1>8, <1>10, ListLoses
  <2> QED
    BY <1>4, <1>7, <2>1, <2>2 DEF Passes, Within
<1> QED
  BY <1>9, <1>10

\* or puts it back on its queue.
LEMMA RecoverQueuedPasses ==
    ASSUME TypeOK, HandInv, NEW e \in Executor, RecoverQueued(e), NEW w \in Workflow, NEW k \in Step
    PROVE  Passes(w, k)
<1>0. todo \in [Executor -> SUBSET [wf : Workflow, queued : BOOLEAN]] /\ row \in [Workflow -> Row]
  BY DEF TypeOK
<1>1. PICK t \in todo[e] : /\ row' = [row EXCEPT ![t.wf] = ClearQueueAssignment(@)]
                           /\ todo' = [todo EXCEPT ![e] = @ \ {t}]
  BY DEF RecoverQueued
<1>2. /\ run' = run /\ up' = up /\ claimed' = claimed /\ effects' = effects /\ budget' = budget
  BY DEF RecoverQueued, history
<1>3. t \notin todo'[e] /\ \A f \in Executor : todo'[f] \subseteq todo[f]
  BY <1>0, <1>1
<1>4. CASE w # t.wf
  <2>1. row'[w] = row[w]
    BY <1>0, <1>1, <1>4
  <2>2. /\ effects'[w][k] = effects[w][k] /\ budget'.crash = budget.crash
        /\ Takable(row'[w], up') => Takable(row[w], up)
    BY <1>2, <2>1
  <2> QED
    BY <1>2, <1>3, <2>2, PassesQuietly
<1>5. CASE w = t.wf
  <2>1. OneLess(ListsWith(todo, w), ListsWith(todo', w))
    BY <1>3, <1>5, ListLoses
  <2> QED
    BY <1>2, <2>1 DEF Passes, Within
<1> QED
  BY <1>4, <1>5

\* The runner claims a row for its process.
LEMMA ClaimPasses ==
    ASSUME TypeOK, NEW e \in Executor, Claim(e), NEW w \in Workflow, NEW k \in Step
    PROVE  Passes(w, k)
<1>0. claimed \in [Executor -> SUBSET Workflow] /\ row \in [Workflow -> Row] /\ row[w] \in Row
  BY DEF TypeOK
<1>1. /\ up[e] = "up" /\ row'[w] = ClaimRow(row[w], e)
      /\ claimed' = [claimed EXCEPT ![e] = {v \in Workflow : row[v].status = "ENQUEUED"}]
      /\ run' = run /\ up' = up /\ todo' = todo /\ effects' = effects /\ budget' = budget
  BY DEF Claim, history
<1>2. w \in claimed'[e] <=> row[w].status = "ENQUEUED"
  BY <1>0, <1>1
<1>3. \A f \in Executor : f # e => claimed'[f] = claimed[f]
  BY <1>0, <1>1
<1>4. CASE row[w].status # "ENQUEUED"
  <2>1. row'[w] = row[w]
    BY <1>1, <1>4 DEF ClaimRow
  <2>2. /\ effects'[w][k] = effects[w][k] /\ budget'.crash = budget.crash
        /\ Takable(row'[w], up') => Takable(row[w], up)
    BY <1>1, <2>1
  <2>3. \A f \in Executor : w \in claimed'[f] => w \in claimed[f]
    BY <1>2, <1>3, <1>4
  <2> QED
    BY <1>1, <2>2, <2>3, PassesQuietly
<1>5. CASE row[w].status = "ENQUEUED"
  <2>1. row'[w].status = "PENDING" /\ row'[w].executor = e
    <3>1. row'[w] = [row[w] EXCEPT !.status = "PENDING", !.executor = e]
      BY <1>1, <1>5 DEF ClaimRow
    <3> QED
      BY <1>0, <3>1 DEF Row
  <2>2. Takable(row[w], up) /\ ~Takable(row'[w], up')
    BY <1>1, <1>5, <2>1 DEF Takable
  <2>3. BatchesWith(claimed', w) \subseteq BatchesWith(claimed, w) \cup {e}
    BY <1>3 DEF BatchesWith
  <2>4. OneMore(BatchesWith(claimed, w), BatchesWith(claimed', w))
    BY <2>3 DEF OneMore
  <2> QED
    BY <1>1, <2>2, <2>4 DEF Passes, Within
<1> QED
  BY <1>4, <1>5

\* A process that launches lists the rows of the process that died.
LEMMA LaunchPasses ==
    ASSUME TypeOK, NEW e \in Executor, Launch(e), NEW w \in Workflow, NEW k \in Step
    PROVE  Passes(w, k)
<1>0. /\ todo \in [Executor -> SUBSET [wf : Workflow, queued : BOOLEAN]]
      /\ up \in [Executor -> {"down", "launching", "up"}]
  BY DEF TypeOK
<1>1. /\ up[e] = "down" /\ up' = [up EXCEPT ![e] = "launching"]
      /\ todo' = [todo EXCEPT ![e] = Pending({e})]
      /\ row' = row /\ run' = run /\ claimed' = claimed /\ effects' = effects /\ budget' = budget
  BY DEF Launch, history
<1>2. /\ todo'[e] = Pending({e}) /\ \A f \in Executor : f # e => todo'[f] = todo[f]
      /\ up'[e] = "launching" /\ \A f \in Executor : f # e => up'[f] = up[f]
  BY <1>0, <1>1
<1>3. \A t \in Pending({e}) : row[t.wf].status = "PENDING" /\ row[t.wf].executor = e
  BY DEF Pending
<1>4. CASE row[w].status = "PENDING" /\ row[w].executor = e
  <2>1. Takable(row[w], up) /\ ~Takable(row'[w], up')
    BY <1>1, <1>2, <1>4 DEF Takable
  <2>2. ListsWith(todo', w) \subseteq ListsWith(todo, w) \cup {e}
    BY <1>2 DEF ListsWith
  <2>3. OneMore(ListsWith(todo, w), ListsWith(todo', w))
    BY <2>2 DEF OneMore
  <2> QED
    BY <1>1, <2>1, <2>3 DEF Passes, Within
<1>5. CASE ~(row[w].status = "PENDING" /\ row[w].executor = e)
  <2>1. \A f \in Executor : \A t \in todo'[f] : t.wf = w => t \in todo[f]
    BY <1>2, <1>3, <1>5
  <2>2. \A f \in Executor : up'[f] = "down" => up[f] = "down"
    BY <1>2
  <2>3. Takable(row'[w], up') => Takable(row[w], up)
    BY <1>1, <2>2 DEF Takable
  <2>4. effects'[w][k] = effects[w][k] /\ budget'.crash = budget.crash
    BY <1>1
  <2> QED
    BY <1>1, <2>1, <2>3, <2>4, PassesQuietly
<1> QED
  BY <1>4, <1>5

\* Every step of a process keeps the chances to execute a step.
LEMMA ExecutorStepPasses ==
    ASSUME TypeOK, HandInv, NEW e \in Executor, ExecutorStep(e), NEW w \in Workflow, NEW k \in Step
    PROVE  Passes(w, k)
<1>1. CASE Launched(e)
  <2>1. /\ up' = [up EXCEPT ![e] = "up"] /\ up \in [Executor -> {"down", "launching", "up"}]
        /\ row' = row /\ run' = run /\ todo' = todo /\ claimed' = claimed
        /\ effects' = effects /\ budget' = budget
    BY <1>1 DEF Launched, history, TypeOK
  <2>2. \A f \in Executor : up'[f] = "down" => up[f] = "down"
    BY <2>1
  <2>3. Takable(row'[w], up') => Takable(row[w], up)
    BY <2>1, <2>2 DEF Takable
  <2>4. effects'[w][k] = effects[w][k] /\ budget'.crash = budget.crash
    BY <2>1
  <2> QED
    BY <2>1, <2>3, <2>4, PassesQuietly
<1> QED
  BY <1>1, ClaimPasses, DispatchPasses, LaunchPasses, RecoverQueuedPasses, RecoverDirectPasses
     DEF ExecutorStep

\* An enqueue and a cancellation open no row.
LEMMA RowPasses ==
    ASSUME TypeOK, NEW v \in Workflow, Cancel(v) \/ \E e \in Executor : Enqueue(e, v),
           NEW w \in Workflow, NEW k \in Step
    PROVE  Passes(w, k)
<1>0. row \in [Workflow -> Row] /\ row[w] \in Row /\ budget \in Budget
  BY DEF TypeOK
<1>1. run' = run /\ up' = up /\ todo' = todo /\ claimed' = claimed /\ effects' = effects
  BY DEF Enqueue, Cancel, history
<1>2. budget'.crash = budget.crash
  <2>1. CASE \E e \in Executor : Enqueue(e, v)
    BY <2>1 DEF Enqueue
  <2>2. CASE Cancel(v)
    <3>1. budget' = [budget EXCEPT !.cancel = @ - 1]
      BY <2>2 DEF Cancel
    <3> QED
      BY <1>0, <3>1 DEF Budget
  <2> QED
    BY <2>1, <2>2
<1>3. row'[w] = row[w] \/ EnqueuedOnce(row[w], row'[w]) \/ row'[w] = CancelRow(row[w])
  <2>1. CASE \E e \in Executor : Enqueue(e, v)
    <3>0. PICK e \in Executor : Enqueue(e, v)
      BY <2>1
    <3>1. row' = [row EXCEPT ![v] = InsertStatus(row[v], "ENQUEUED", e, FALSE)]
      BY <3>0 DEF Enqueue
    <3>2. row'[w] = row[w] \/ row'[w] = InsertStatus(row[w], "ENQUEUED", e, FALSE)
      BY <1>0, <3>1
    <3>3. EnqueuedOnce(row[w], InsertStatus(row[w], "ENQUEUED", e, FALSE))
      BY <1>0, EnqueuePlaces
    <3> QED
      BY <3>2, <3>3
  <2>2. CASE Cancel(v)
    BY <1>0, <2>2 DEF Cancel
  <2> QED
    BY <2>1, <2>2
<1>4. Takable(row'[w], up') => Takable(row[w], up)
  <2>1. CASE EnqueuedOnce(row[w], row'[w])
    BY <1>1, <2>1 DEF Takable, EnqueuedOnce
  <2>2. CASE row'[w] = CancelRow(row[w])
    <3>1. row'[w] = row[w] \/ row'[w] = [row[w] EXCEPT !.status = "CANCELLED", !.queued = FALSE]
      BY <2>2 DEF CancelRow
    <3>2. row'[w] = row[w] \/ row'[w].status = "CANCELLED"
      BY <1>0, <3>1 DEF Row
    <3> QED
      BY <1>1, <3>2 DEF Takable
  <2>3. CASE row'[w] = row[w]
    BY <1>1, <2>3
  <2> QED
    BY <1>3, <2>1, <2>2, <2>3
<1>5. effects'[w][k] = effects[w][k]
  BY <1>1
<1> QED
  BY <1>1, <1>2, <1>4, <1>5, PassesQuietly

\* A crash takes the chances its process had in hand, and opens its rows.
LEMMA CrashReopens ==
    ASSUME TypeOK, NEW e \in Executor, Crash(e), NEW w \in Workflow, NEW k \in Step
    PROVE  Reopens(w, k)
<1>0. /\ budget \in Budget /\ todo \in [Executor -> SUBSET [wf : Workflow, queued : BOOLEAN]]
      /\ claimed \in [Executor -> SUBSET Workflow]
  BY DEF TypeOK
<1>1. /\ run' = [r \in Run |-> IF run[r].exec = e THEN Free ELSE run[r]]
      /\ todo' = [todo EXCEPT ![e] = {}] /\ claimed' = [claimed EXCEPT ![e] = {}]
      /\ budget' = [budget EXCEPT !.crash = @ - 1] /\ effects' = effects
  BY DEF Crash, history
<1>2. budget'.crash = budget.crash - 1
  BY <1>0, <1>1 DEF Budget
<1>3. ~MayRun(Free, k)
  BY DEF MayRun, Waiting, Free
<1>4. RunsFor(run', w, k) \subseteq RunsFor(run, w, k)
  BY <1>1, <1>3 DEF RunsFor
<1>5. ListsWith(todo', w) \subseteq ListsWith(todo, w)
  BY <1>0, <1>1 DEF ListsWith
<1>6. BatchesWith(claimed', w) \subseteq BatchesWith(claimed, w)
  BY <1>0, <1>1 DEF BatchesWith
<1> QED
  BY <1>1, <1>2, <1>4, <1>5, <1>6 DEF Reopens, Within

\* Every step passes on, uses or reopens.
LEMMA StepPasses ==
    ASSUME TypeOK, AdmitsGranted, HandInv, CalmNext, NEW w \in Workflow, NEW k \in Step
    PROVE  Passes(w, k) \/ Uses(w, k) \/ Reopens(w, k)
<1>1. CASE UNCHANGED vars
  <2>1. /\ run' = run /\ todo' = todo /\ claimed' = claimed
        /\ effects'[w][k] = effects[w][k] /\ budget'.crash = budget.crash
        /\ Takable(row'[w], up') => Takable(row[w], up)
    BY <1>1 DEF vars
  <2> QED
    BY <2>1, PassesQuietly
<1>2. CASE \E r \in Run : RunStep(r)
  BY <1>2, RunStepPasses
<1>3. CASE \E e \in Executor : ExecutorStep(e)
  BY <1>3, ExecutorStepPasses
<1>4. CASE \E e \in Executor, v \in Workflow : Call(e, v) \/ Enqueue(e, v)
  BY <1>4, CallPasses, RowPasses
<1>5. CASE \E e \in Executor : Crash(e)
  BY <1>5, CrashReopens
<1>6. CASE \E v \in Workflow : Cancel(v)
  BY <1>6, RowPasses
<1> QED
  BY <1>1, <1>2, <1>3, <1>4, <1>5, <1>6 DEF CalmNext

\* The state a workflow starts in: one chance to execute each of its steps.
LEMMA ChanceInit ==
    ASSUME Init, NEW w \in Workflow, NEW k \in Step
    PROVE  ChanceOK(w, k)
<1>1. /\ run = [r \in Run |-> Free] /\ todo = [e \in Executor |-> {}]
      /\ claimed = [e \in Executor |-> {}]
      /\ effects[w][k] = 0 /\ budget.crash = MaxCrashes /\ row[w].status = "ABSENT"
  BY DEF Init, NoRow
<1>2. RunsFor(run, w, k) = {}
  BY <1>1 DEF RunsFor, MayRun, Waiting, Free
<1>3. ListsWith(todo, w) = {} /\ BatchesWith(claimed, w) = {}
  BY <1>1 DEF ListsWith, BatchesWith
<1>4. IsFiniteSet({}) /\ Cardinality({}) = 0
  BY FS_EmptySet
<1>5. Takable(row[w], up)
  BY <1>1 DEF Takable
<1>6. Chances(w, k) = 1
  BY <1>2, <1>3, <1>4, <1>5 DEF Chances
<1>7. Finite(w, k)
  BY <1>2, <1>3, <1>4 DEF Finite
<1> QED
  BY <1>1, <1>6, <1>7 DEF ChanceOK

\* Every behaviour keeps the chances, while it is undisturbed.
LEMMA ChanceInvariance == Spec => []ChanceInv
<1>1. Init => ChanceInv
  BY ChanceInit DEF ChanceInv, ChanceOK
<1>2. TypeOK /\ TypeOK' /\ BudgetInv /\ OneInv /\ ChanceInv /\ [Next]_vars => ChanceInv'
  <2> SUFFICES ASSUME TypeOK, TypeOK', BudgetInv, OneInv, ChanceInv, [Next]_vars, Undisturbed',
                      NEW w \in Workflow, NEW k \in Step
               PROVE  /\ IsFiniteSet(RunsFor(run', w, k))
                      /\ IsFiniteSet(ListsWith(todo', w))
                      /\ IsFiniteSet(BatchesWith(claimed', w))
                      /\ effects'[w][k] + (Cardinality(RunsFor(run', w, k))
                             + Cardinality(ListsWith(todo', w)) + Cardinality(BatchesWith(claimed', w))
                             + IF Takable(row'[w], up') THEN 1 ELSE 0)
                           <= 1 + (MaxCrashes - budget'.crash)
    BY DEF ChanceInv, Finite, Chances
  <2>1. Undisturbed /\ CalmNext
    BY CalmStep
  <2>2. HandInv /\ AdmitsGranted /\ ChanceOK(w, k)
    BY <2>1 DEF OneInv, BudgetInv, ChanceInv, ChanceOK
  <2>3. Passes(w, k) \/ Uses(w, k) \/ Reopens(w, k)
    BY <2>1, <2>2, StepPasses
  <2> QED
    BY <2>2, <2>3, ChanceKept
<1> QED
  BY <1>1, <1>2, Typing, OneInvariance, PTL DEF Spec

\* Unless somebody asks for a recovery pass or resumes, a step's closure runs
\* once and at most once more for every crash, and no process ever runs two
\* bodies of one workflow: whoever may still run a body holds a chance that the
\* status row, the batch of a runner or the list of a recovery pass gave up for
\* it (insert_workflow_status, dequeue_workflows, should_skip in the run core).
THEOREM ClosuresRunOnce == Spec => []NothingRunsTwice
<1>1. TypeOK /\ OneInv /\ ChanceInv => NothingRunsTwice
  <2> SUFFICES ASSUME TypeOK, OneInv, ChanceInv, Undisturbed
               PROVE  /\ \A w \in Workflow : \A k \in Step :
                            effects[w][k] <= 1 + (MaxCrashes - budget.crash)
                      /\ \A r, s \in Run : r # s /\ InBody(r) /\ InBody(s) =>
                            run[r].wf # run[s].wf \/ run[r].exec # run[s].exec
    BY DEF NothingRunsTwice
  <2>1. ASSUME NEW w \in Workflow, NEW k \in Step
        PROVE  effects[w][k] <= 1 + (MaxCrashes - budget.crash)
    <3>1. Finite(w, k) /\ effects[w][k] + Chances(w, k) <= 1 + (MaxCrashes - budget.crash)
      BY DEF ChanceInv
    <3>2. effects[w][k] \in Nat /\ budget.crash \in Nat /\ MaxCrashes \in Nat
      BY DEF TypeOK, Budget
    <3>3. /\ Cardinality(RunsFor(run, w, k)) \in Nat /\ Cardinality(ListsWith(todo, w)) \in Nat
          /\ Cardinality(BatchesWith(claimed, w)) \in Nat
      BY <3>1, FS_CardinalityType DEF Finite
    <3>4. Chances(w, k) \in Nat
      BY <3>3 DEF Chances
    <3> QED
      BY <3>1, <3>2, <3>4
  <2>2. \A r \in Run : InBody(r) => Engaged(run[r])
    BY DEF InBody, Engaged, Body
  <2>3. \A r, s \in Run : r # s /\ InBody(r) /\ InBody(s) =>
            run[r].wf # run[s].wf \/ run[r].exec # run[s].exec
    BY <2>2 DEF OneInv, BodyInv, Apart
  <2> QED
    BY <2>1, <2>3
<1> QED
  BY <1>1, Typing, OneInvariance, ChanceInvariance, PTL
==============================================================================
