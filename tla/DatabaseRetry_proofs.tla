------------------------ MODULE DatabaseRetry_proofs ------------------------
(***************************************************************************)
(* Theorems about DatabaseRetry, for every number of steps and retries,    *)
(* every backoff and every bound on what may happen.                       *)
(***************************************************************************)
EXTENDS DatabaseRetry, TLAPS

USE RetryAssumption DEF RetryAssumption

RowType == [status : {"ABSENT", "PENDING"} \cup Terminal, attempts : Nat]
BodyType == [pc : {"idle", "closure", "backoff"} \cup Op, step : Step, runs : 0..StepRetries,
             result : {None, "ok", "error"}, recovered : BOOLEAN]
AnswerType == {None, "ok", "error", "transient", "fatal", "dead", "run", "skip", "recover",
               "nothing", "conflict"} \cup Terminal
CallType == [pc : {"none", "sent", "answered"}, delay : MinDelay..MaxDelay,
             elapsed : 0..MaxElapsed, answer : AnswerType]

------------------------------------------------------------------------------
(* Types.                                                                  *)

\* A step or a body that has ended has ended one way or the other.
Decided == body.pc \in {"record", "outcome"} => body.result \in {"ok", "error"}

\* A call that begins, and none.
LEMMA CallTypes == NewCall \in CallType /\ NoCall \in CallType
                   /\ NewCall.pc = "sent" /\ NoCall.pc = "none"
  BY DEF NewCall, NoCall, CallType, AnswerType

\* No body.
LEMMA IdleType == Idle \in BodyType /\ Idle.pc = "idle"
  BY DEF Idle, BodyType, Step

\* Where a body may go.
LEMMA BodyTypes ==
    ASSUME body \in BodyType
    PROVE  /\ \A pc \in {"idle", "closure", "backoff"} \cup Op :
                 To(pc) \in BodyType /\ To(pc).pc = pc
           /\ \A result \in {None, "ok", "error"} :
                 /\ Ended(result) \in BodyType /\ Ended(result).pc = "outcome"
                 /\ DoneWith(result) \in BodyType /\ DoneWith(result).pc = "record"
           /\ NextStep \in BodyType /\ Closure \in BodyType
           /\ [To("insert") EXCEPT !.recovered = TRUE] \in BodyType
<1>1. \A pc \in {"idle", "closure", "backoff"} \cup Op : To(pc) \in BodyType /\ To(pc).pc = pc
  BY DEF To, BodyType
<1>2. \A result \in {None, "ok", "error"} :
         /\ Ended(result) \in BodyType /\ Ended(result).pc = "outcome"
         /\ DoneWith(result) \in BodyType /\ DoneWith(result).pc = "record"
  BY DEF Ended, DoneWith, BodyType, Op
<1>3. NextStep \in BodyType
  <2>1. CASE body.step = Steps
    BY <1>2, <2>1 DEF NextStep
  <2>2. CASE body.step # Steps
    <3>1. body.step + 1 \in Step
      BY <2>2 DEF BodyType, Step
    <3>2. PICK n \in Step : n = body.step + 1
      BY <3>1
    <3>3. 0 \in 0..StepRetries
      OBVIOUS
    <3>4. [body EXCEPT !.pc = "check", !.step = n, !.runs = 0, !.result = None] \in BodyType
      BY <3>3 DEF BodyType, Op
    <3> QED
      BY <2>2, <3>2, <3>4 DEF NextStep
  <2> QED
    BY <2>1, <2>2
<1>4. Closure \in BodyType
  BY <1>1 DEF Closure, Op
<1>5. [To("insert") EXCEPT !.recovered = TRUE] \in BodyType
  <2> DEFINE b == To("insert")
  <2>1. b \in BodyType
    BY <1>1 DEF Op
  <2> HIDE DEF b
  <2>2. [b EXCEPT !.recovered = TRUE] \in BodyType
    BY <2>1 DEF BodyType
  <2> QED
    BY <2>2 DEF b
<1> QED
  BY <1>1, <1>2, <1>3, <1>4, <1>5

\* Going somewhere keeps everything in type.
LEMMA GotoType ==
    ASSUME TypeOK, body.pc \in Op, NEW b \in BodyType, Goto(b),
           told' \subseteq {"ok", "error"},
           UNCHANGED <<row, journal, sent, process, launches, resent, runs>>
    PROVE  TypeOK'
<1>1. body' \in BodyType /\ call' \in CallType
  BY CallTypes DEF Goto
<1>2. gaveUp' \subseteq Op
  BY DEF Goto, TypeOK
<1>3. (body'.pc \in Op) <=> (call'.pc # "none")
  BY CallTypes DEF Goto
<1>4. process' # "down"
  BY DEF TypeOK, Op
<1> QED
  BY <1>1, <1>2, <1>3, <1>4 DEF TypeOK, BodyType, CallType, AnswerType

\* The server's answers, and what it commits.
LEMMA ServerType ==
    ASSUME TypeOK, call.pc = "sent", ~PollAgain
    PROVE  /\ Answer \in AnswerType
           /\ Effect => /\ row' \in RowType
                        /\ journal' \in [Step -> {None, "ok", "error"}]
                        /\ sent' \in [Step -> Nat]
<1>1. body.pc \in Op /\ body.step \in Step /\ body.result \in {None, "ok", "error"}
  BY DEF TypeOK
<1>2. Answer \in AnswerType
  BY <1>1 DEF Answer, AnswerType, Op, InsertAnswer, TypeOK, PollAgain
<1>3. InsertedRow \in RowType
  BY DEF InsertedRow, RowType, TypeOK, Terminal
<1>4. Effect => row' \in RowType
  BY <1>3 DEF Effect, RowType, TypeOK, Terminal
<1>5. Effect => journal' \in [Step -> {None, "ok", "error"}]
  BY <1>1 DEF Effect, TypeOK
<1>6. Effect => sent' \in [Step -> Nat]
  BY <1>1 DEF Effect, TypeOK
<1> QED
  BY <1>2, <1>4, <1>5, <1>6

\* Every step keeps the types.
LEMMA TypeStep == TypeOK /\ Decided /\ [Next]_vars => TypeOK'
<1> SUFFICES ASSUME TypeOK, Decided, [Next]_vars PROVE TypeOK'
  OBVIOUS
<1> USE DEF RowType, BodyType, AnswerType, CallType
<1>1. CASE Execute
  BY <1>1, ServerType DEF Execute, Answered, TypeOK
<1>2. CASE Poll
  BY <1>2 DEF Poll, TypeOK
<1>3. CASE Retry
  BY <1>3 DEF Retry, NextDelay, TypeOK
<1>4. CASE LoseAnswer
  <2>1. resent' \in [Op -> Nat]
    BY <1>4 DEF LoseAnswer, TypeOK
  <2> QED
    BY <1>4, <2>1, ServerType DEF LoseAnswer, Answered, TypeOK
<1>5. CASE Fail
  BY <1>5 DEF Fail, Answered, TypeOK
<1>6. CASE BodyStep
  <2>1. body \in BodyType
    BY DEF TypeOK
  <2>2. CASE Listed
    <3>1. PICK b \in BodyType : Goto(b)
      BY <2>1, <2>2, BodyTypes, IdleType DEF Listed
    <3> QED
      BY <2>2, <3>1, GotoType DEF Listed, Returns, Op, TypeOK
  <2>3. CASE Inserted
    <3>1. PICK b \in BodyType : Goto(b)
      BY <2>1, <2>3, BodyTypes, IdleType DEF Inserted, Op
    <3> QED
      BY <2>3, <3>1, GotoType DEF Inserted, Returns, Op, TypeOK
  <2>4. CASE Checked
    <3>1. PICK b \in BodyType : Goto(b)
      BY <2>1, <2>4, BodyTypes DEF Checked
    <3> QED
      BY <2>4, <3>1, GotoType DEF Checked, Returns, Op, TypeOK
  <2>5. CASE Sent
    <3>1. PICK b \in BodyType : Goto(b)
      BY <2>1, <2>5, BodyTypes DEF Sent
    <3> QED
      BY <2>5, <3>1, GotoType DEF Sent, Returns, Op, TypeOK
  <2>6. CASE Recorded
    <3>1. PICK b \in BodyType : Goto(b)
      BY <2>1, <2>6, BodyTypes DEF Recorded, AfterRecord, Op
    <3> QED
      BY <2>6, <3>1, GotoType DEF Recorded, Returns, Op, TypeOK
  <2>7. CASE Concluded
    <3>1. body.result \in {"ok", "error"}
      BY <2>7 DEF Concluded, Returns, Decided
    <3> QED
      BY <2>7, <3>1, IdleType, GotoType DEF Concluded, Returns, Op, TypeOK
  <2>8. CASE AwaitedOutcome
    BY <2>8, IdleType, GotoType DEF AwaitedOutcome, Returns, Op, TypeOK
  <2>9. CASE RunClosure
    <3>1. runs' \in [Step -> Nat]
      BY <2>9 DEF RunClosure, TypeOK
    <3>2. CASE body' \in BodyType /\ body'.pc \in Op /\ call' = NewCall
      BY <2>9, <3>1, <3>2, CallTypes DEF RunClosure, TypeOK, Op
    <3>3. CASE body.runs < StepRetries /\ body' = [To("backoff") EXCEPT !.runs = @ + 1] /\ UNCHANGED call
      <4> DEFINE b == To("backoff")
      <4>1. b \in BodyType /\ b.pc = "backoff" /\ b.runs = body.runs
        BY <2>1, BodyTypes DEF To
      <4> HIDE DEF b
      <4>2. b.runs + 1 \in 0..StepRetries
        BY <3>3, <4>1
      <4>3. body' = [b EXCEPT !.runs = b.runs + 1]
        BY <3>3 DEF b
      <4>4. body' \in BodyType /\ body'.pc = "backoff"
        BY <4>1, <4>2, <4>3
      <4> QED
        BY <2>9, <3>1, <3>3, <4>4 DEF RunClosure, TypeOK, Op
    <3> QED
      BY <2>1, <2>9, <3>2, <3>3, BodyTypes DEF RunClosure, Op
  <2>10. CASE Wake
    <3>1. CASE body' = DoneWith("error") /\ call' = NewCall
      BY <2>1, <2>10, <3>1, CallTypes, BodyTypes DEF Wake, TypeOK, Op
    <3>2. CASE body' = To("closure") /\ UNCHANGED call
      BY <2>1, <2>10, <3>2, BodyTypes DEF Wake, TypeOK, Op
    <3> QED
      BY <2>10, <3>1, <3>2 DEF Wake
  <2> QED
    BY <1>6, <2>2, <2>3, <2>4, <2>5, <2>6, <2>7, <2>8, <2>9, <2>10 DEF BodyStep
<1>7. CASE Submit
  BY <1>7, CallTypes, BodyTypes DEF Submit, TypeOK, Op
<1>8. CASE Shutdown
  BY <1>8 DEF Shutdown, TypeOK
<1>9. CASE Exit \/ Crash
  BY <1>9, CallTypes, IdleType DEF Exit, Crash, Stopped, TypeOK, Op
<1>10. CASE Launch
  BY <1>10, CallTypes, BodyTypes DEF Launch, TypeOK, Op
<1>11. CASE UNCHANGED vars
  BY <1>11 DEF vars, TypeOK
<1> QED
  BY <1>1, <1>2, <1>3, <1>4, <1>5, <1>6, <1>7, <1>8, <1>9, <1>10, <1>11
  DEF Next, Statement, Environment

\* The initial state is in type.
LEMMA InitTyped == Init => TypeOK /\ Decided
  BY IdleType, CallTypes DEF Init, TypeOK, Decided, Step, Op, BodyType, CallType, AnswerType

------------------------------------------------------------------------------
(* Moves: what becomes of the parts of the body and of the call, so that   *)
(* nothing below has to look into the records.                             *)

\* The parts of the records that bodies and calls become.
LEMMA Parts ==
    ASSUME body \in BodyType
    PROVE  /\ \A pc : /\ To(pc).pc = pc /\ To(pc).step = body.step /\ To(pc).runs = body.runs
                      /\ To(pc).result = body.result /\ To(pc).recovered = body.recovered
           /\ \A r : /\ Ended(r).pc = "outcome" /\ Ended(r).step = body.step /\ Ended(r).result = r
                     /\ Ended(r).runs = body.runs
                     /\ DoneWith(r).pc = "record" /\ DoneWith(r).step = body.step /\ DoneWith(r).result = r
                     /\ DoneWith(r).runs = body.runs
           /\ body.step # Steps => /\ NextStep.pc = "check" /\ NextStep.step = body.step + 1
                                   /\ NextStep.runs = 0
           /\ body.step = Steps => NextStep = Ended("ok")
           /\ Idle.pc = "idle" /\ Idle.step = 1 /\ Idle.runs = 0
           /\ NewCall.pc = "sent" /\ NewCall.answer = None
           /\ NoCall.pc = "none" /\ NoCall.answer = None
<1>1. body.step # Steps => /\ NextStep.pc = "check" /\ NextStep.step = body.step + 1
                           /\ NextStep.runs = 0
  BY DEF NextStep, BodyType
<1> QED
  BY <1>1 DEF To, Ended, DoneWith, NextStep, BodyType, Idle, NewCall, NoCall

\* The body goes to pc, at the same step.
Moves(pc) == body'.pc = pc /\ body'.step = body.step /\ body'.runs = body.runs
Fresh == call'.answer = None /\ call'.pc # "answered"
Rests == body'.pc = "idle" /\ body'.step = 1 /\ body'.runs = 0
Continues ==
    IF body.step = Steps THEN Moves("outcome") /\ body'.result = "ok"
    ELSE body'.pc = "check" /\ body'.step = body.step + 1 /\ body'.runs = 0
GaveUp == gaveUp' = IF Failed THEN gaveUp \cup {body.pc} ELSE gaveUp

\* Where each step of the body leads.
LEMMA BodyMoves ==
    ASSUME TypeOK
    PROVE  /\ Listed => Fresh /\ GaveUp /\ (Rests \/ Moves("insert"))
           /\ Inserted => Fresh /\ GaveUp /\ IF call.answer = "run" THEN Moves("check") ELSE Rests
           /\ Checked => Fresh /\ GaveUp /\
                 IF call.answer = None
                 THEN IF body.step \in Sends THEN Moves("send") ELSE Moves("closure")
                 ELSE IF call.answer = "ok" THEN Continues
                 ELSE Moves("outcome") /\ body'.result = "error"
           /\ Sent => Fresh /\ GaveUp /\ Moves("record") /\ body'.result = IF Failed THEN "error" ELSE "ok"
           /\ Recorded => Fresh /\ GaveUp /\
                 IF call.answer = "conflict" THEN Moves("await")
                 ELSE IF ~Failed /\ body.result = "ok" THEN Continues
                 ELSE Moves("outcome") /\ body'.result = "error"
           /\ Concluded => Fresh /\ GaveUp /\ Rests
           /\ AwaitedOutcome => Fresh /\ GaveUp /\ Rests
           /\ Wake => IF process = "draining" THEN Fresh /\ Moves("record") /\ body'.result = "error"
                      ELSE UNCHANGED call /\ Moves("closure")
           /\ RunClosure =>
                 /\ body'.step = body.step
                 /\ \/ Fresh /\ Moves("record") /\ body'.result = "ok"
                    \/ Fresh /\ Moves("record") /\ body'.result = "error" /\ Happens("rejected")
                    \/ Fresh /\ Moves("record") /\ body'.result = "error" /\ body.runs >= StepRetries
                    \/ UNCHANGED call /\ body'.pc = "backoff" /\ body'.runs = body.runs + 1
<1>1. body \in BodyType
  BY DEF TypeOK, BodyType
<1>2. \A b : Goto(b) => Fresh /\ GaveUp /\ body' = b
  BY <1>1, Parts DEF Goto, Fresh, GaveUp
<1>3. Listed => Fresh /\ GaveUp /\ (Rests \/ Moves("insert"))
  <2> DEFINE b == To("insert")
  <2>1. b \in BodyType /\ b.pc = "insert" /\ b.step = body.step /\ b.runs = body.runs
    BY <1>1, Parts, BodyTypes DEF Op
  <2> HIDE DEF b
  <2> DEFINE d == [b EXCEPT !.recovered = TRUE]
  <2>2. d.pc = "insert" /\ d.step = body.step /\ d.runs = body.runs
    BY <2>1 DEF BodyType
  <2>3. Listed => Goto(d) \/ Goto(Idle)
    BY DEF Listed, b
  <2> HIDE DEF d
  <2>4. Listed => Fresh /\ GaveUp /\ (body' = d \/ body' = Idle)
    BY <1>2, <2>3
  <2>5. Idle.pc = "idle" /\ Idle.step = 1 /\ Idle.runs = 0
    BY <1>1, Parts
  <2> QED
    BY <2>2, <2>4, <2>5 DEF Moves, Rests
<1>4. Inserted => Fresh /\ GaveUp /\ IF call.answer = "run" THEN Moves("check") ELSE Rests
  BY <1>1, <1>2, Parts DEF Inserted, Moves, Rests
<1>5. body' = NextStep => Continues
  BY <1>1, Parts DEF Continues, Moves
<1>6. Checked => Fresh /\ GaveUp /\
                 IF call.answer = None
                 THEN IF body.step \in Sends THEN Moves("send") ELSE Moves("closure")
                 ELSE IF call.answer = "ok" THEN Continues
                 ELSE Moves("outcome") /\ body'.result = "error"
  <2>1. Checked => Fresh /\ GaveUp /\ body' = IF call.answer = None THEN Closure
                                        ELSE IF call.answer = "ok" THEN NextStep ELSE Ended("error")
    BY <1>2 DEF Checked
  <2>2. body' = Closure => IF body.step \in Sends THEN Moves("send") ELSE Moves("closure")
    BY <1>1, Parts DEF Closure, Moves
  <2>3. body' = Ended("error") => Moves("outcome") /\ body'.result = "error"
    BY <1>1, Parts DEF Moves
  <2> QED
    BY <1>5, <2>1, <2>2, <2>3
<1>7. Sent => Fresh /\ GaveUp /\ Moves("record") /\ body'.result = IF Failed THEN "error" ELSE "ok"
  BY <1>1, <1>2, Parts DEF Sent, Moves
<1>8. Recorded => Fresh /\ GaveUp /\
                 IF call.answer = "conflict" THEN Moves("await")
                 ELSE IF ~Failed /\ body.result = "ok" THEN Continues
                 ELSE Moves("outcome") /\ body'.result = "error"
  <2>1. Recorded => Fresh /\ GaveUp /\ body' = AfterRecord
    BY <1>2 DEF Recorded
  <2>2. body' = To("await") => Moves("await")
    BY <1>1, Parts DEF Moves
  <2>3. body' = Ended("error") => Moves("outcome") /\ body'.result = "error"
    BY <1>1, Parts DEF Moves
  <2> QED
    BY <1>5, <2>1, <2>2, <2>3 DEF AfterRecord
<1>9. Concluded => Fresh /\ GaveUp /\ Rests
  BY <1>1, <1>2, Parts DEF Concluded, Rests
<1>10. AwaitedOutcome => Fresh /\ GaveUp /\ Rests
  BY <1>1, <1>2, Parts DEF AwaitedOutcome, Rests
<1>11. Wake => IF process = "draining" THEN Fresh /\ Moves("record") /\ body'.result = "error"
                      ELSE UNCHANGED call /\ Moves("closure")
  BY <1>1, Parts DEF Wake, Moves, Fresh
<1>12. RunClosure =>
                 /\ body'.step = body.step
                 /\ \/ Fresh /\ Moves("record") /\ body'.result = "ok"
                    \/ Fresh /\ Moves("record") /\ body'.result = "error" /\ Happens("rejected")
                    \/ Fresh /\ Moves("record") /\ body'.result = "error" /\ body.runs >= StepRetries
                    \/ UNCHANGED call /\ body'.pc = "backoff" /\ body'.runs = body.runs + 1
  <2> SUFFICES ASSUME RunClosure
               PROVE  /\ body'.step = body.step
                      /\ \/ Fresh /\ Moves("record") /\ body'.result = "ok"
                         \/ Fresh /\ Moves("record") /\ body'.result = "error" /\ Happens("rejected")
                         \/ Fresh /\ Moves("record") /\ body'.result = "error" /\ body.runs >= StepRetries
                         \/ UNCHANGED call /\ body'.pc = "backoff" /\ body'.runs = body.runs + 1
    OBVIOUS
  <2>1. CASE body' = DoneWith("ok") /\ call' = NewCall
    BY <1>1, <2>1, Parts DEF Moves, Fresh
  <2>2. CASE Happens("rejected") /\ body' = DoneWith("error") /\ call' = NewCall
    BY <1>1, <2>2, Parts DEF Moves, Fresh
  <2>3. CASE ~(body.runs < StepRetries) /\ body' = DoneWith("error") /\ call' = NewCall
    <3>1. body.runs >= StepRetries
      BY <1>1, <2>3 DEF BodyType
    <3> QED
      BY <1>1, <2>3, <3>1, Parts DEF Moves, Fresh
  <2>4. CASE body' = [To("backoff") EXCEPT !.runs = @ + 1] /\ UNCHANGED call
    <3> DEFINE b == To("backoff")
    <3>1. b \in BodyType /\ b.pc = "backoff" /\ b.runs = body.runs /\ b.step = body.step
      BY <1>1, BodyTypes, Parts
    <3> HIDE DEF b
    <3>2. body' = [b EXCEPT !.runs = b.runs + 1]
      BY <2>4 DEF b
    <3> QED
      BY <2>4, <3>1, <3>2 DEF BodyType
  <2> QED
    BY <2>1, <2>2, <2>3, <2>4 DEF RunClosure
<1> QED
  BY <1>3, <1>4, <1>6, <1>7, <1>8, <1>9, <1>10, <1>11, <1>12

------------------------------------------------------------------------------
(* Steps and bodies that have ended.                                       *)

\* Every step keeps a result where one is needed.
LEMMA DecidedStep == TypeOK /\ Decided /\ [Next]_vars => Decided'
<1> SUFFICES ASSUME TypeOK, Decided, [Next]_vars PROVE Decided'
  OBVIOUS
<1>1. CASE UNCHANGED body
  BY <1>1 DEF Decided
<1>2. CASE BodyStep
  BY <1>2, BodyMoves DEF BodyStep, Decided, Moves, Rests, Continues
<1>3. CASE Stopped \/ Submit \/ Launch
  BY <1>3, Parts DEF Stopped, Submit, Launch, Decided, TypeOK, BodyType
<1> QED
  BY <1>1, <1>2, <1>3 DEF Next, vars, Statement, Execute, Poll, Retry, Environment, LoseAnswer, Fail,
                          Exit, Crash, Shutdown

\* Every variable has its type, in every behaviour.
THEOREM RetryTyping == Spec => []TypeOK
<1>1. TypeOK /\ Decided /\ [Next]_vars => TypeOK' /\ Decided'
  BY TypeStep, DecidedStep
<1> QED
  BY <1>1, InitTyped, PTL DEF Spec

------------------------------------------------------------------------------
(* What happens more than once has a cause.                                *)

Succeeded(answers) == call.pc = "answered" /\ call.answer \in answers

\* The body is before the send of step k, in this life of the process.
Unsent(k) ==
    /\ body.pc # "idle"
    /\ \/ k > body.step
       \/ k = body.step /\ \/ body.pc \in {"list", "insert", "check", "closure", "backoff"}
                           \/ body.pc = "send" /\ ~Succeeded({"ok"})

\* And this is before the insert that counts the recovery.
Uncounted ==
    \/ body.pc = "list"
    \/ body.pc = "insert" /\ body.recovered /\ ~Succeeded({"dead", "run", "skip"})

SentInv ==
    \A k \in Step : /\ sent[k] <= 1 + launches + resent["send"]
                    /\ Unsent(k) => sent[k] <= launches + resent["send"]

AttemptInv ==
    /\ row.attempts <= 1 + launches + resent["insert"]
    /\ Uncounted => row.attempts <= launches + resent["insert"]

\* Without a row nothing was sent, and no body is further than its insert.
AbsentInv ==
    row.status = "ABSENT" =>
        /\ row.attempts = 0 /\ \A k \in Step : sent[k] = 0
        /\ body.pc \in {"idle", "list", "insert"}
        /\ body.pc = "insert" => call.answer # "run"

ParkedInv == row.status = "DEAD" => row.attempts > MaxRetries + 1

RepeatInv == TypeOK /\ Decided /\ SentInv /\ AttemptInv /\ AbsentInv /\ ParkedInv

\* Nothing has happened yet.
LEMMA RepeatInit == Init => RepeatInv
  BY InitTyped DEF Init, RepeatInv, SentInv, AttemptInv, AbsentInv, ParkedInv, Uncounted, Unsent, Idle, Step, Op

\* The server executes the statement of the body.
LEMMA RepeatExecute ==
    ASSUME RepeatInv, call.pc = "sent", ~PollAgain, Effect,
           UNCHANGED <<body, launches>>,
           \/ resent' = resent /\ call'.pc = "answered" /\ call'.answer = Answer
           \/ resent' = [resent EXCEPT ![body.pc] = @ + 1] /\ Changes
           \/ resent' = resent /\ ~Changes
    PROVE  SentInv' /\ AttemptInv' /\ AbsentInv' /\ ParkedInv'
<1>1. TypeOK /\ SentInv /\ AttemptInv /\ AbsentInv /\ ParkedInv
  BY DEF RepeatInv
<1>2. /\ body.pc \in Op /\ body.step \in Step /\ sent \in [Step -> Nat] /\ resent \in [Op -> Nat]
      /\ launches \in Nat /\ row.attempts \in Nat
  BY <1>1 DEF TypeOK
<1>3. \A S : ~Succeeded(S)
  BY DEF Succeeded
<1>4. resent' \in [Op -> Nat] /\ \A op \in Op : resent'[op] >= resent[op]
  BY <1>2
<1>5. CASE body.pc = "send"
  <2> PICK k \in Step : k = body.step
    BY <1>2
  <2>1. row' = row /\ sent' = [sent EXCEPT ![k] = @ + 1]
    BY <1>5 DEF Effect
  <2>2. sent'[k] = sent[k] + 1 /\ sent[k] \in Nat /\ \A m \in Step \ {k} : sent'[m] = sent[m]
    BY <1>2, <2>1
  <2>3. Changes
    <3>1. sent' # sent
      BY <2>2
    <3> QED
      BY <3>1 DEF Changes
  <2>4. sent[k] <= launches + resent["send"]
    BY <1>1, <1>2, <1>3, <1>5 DEF SentInv, Unsent
  <2>5. SentInv'
    <3>1. CASE resent' = resent /\ call'.pc = "answered" /\ call'.answer = Answer
      <4>1. Succeeded({"ok"})'
        BY <1>5, <3>1 DEF Succeeded, Answer
      <4>2. ~Unsent(k)'
        BY <1>5, <4>1 DEF Unsent, Succeeded, Step
      <4>3. \A m \in Step : m # k /\ Unsent(m)' => Unsent(m)
        BY DEF Unsent
      <4> SUFFICES ASSUME NEW m \in Step
                   PROVE  /\ sent'[m] <= 1 + launches' + resent'["send"]
                          /\ Unsent(m)' => sent'[m] <= launches' + resent'["send"]
        BY DEF SentInv
      <4>4. launches' = launches /\ resent' = resent /\ resent["send"] \in Nat
        BY <1>2, <3>1 DEF Op
      <4>5. CASE m = k
        BY <1>2, <2>2, <2>4, <4>2, <4>4, <4>5
      <4>6. CASE m # k
        BY <1>1, <2>2, <4>3, <4>4, <4>6 DEF SentInv
      <4> QED
        BY <4>5, <4>6
    <3>2. CASE resent' = [resent EXCEPT !["send"] = @ + 1]
      <4>1. resent'["send"] = resent["send"] + 1 /\ resent["send"] \in Nat
        BY <1>2, <3>2 DEF Op
      <4>2. \A m \in Step : m # k /\ Unsent(m)' => Unsent(m)
        BY DEF Unsent
      <4> QED
        BY <1>1, <1>2, <2>2, <2>4, <4>1, <4>2 DEF SentInv
    <3> QED
      BY <1>5, <2>3, <3>1, <3>2
  <2>6. resent'["insert"] = resent["insert"]
    BY <1>2, <1>5 DEF Op
  <2>7. AttemptInv' /\ AbsentInv' /\ ParkedInv'
    BY <1>1, <1>5, <2>1, <2>6 DEF AttemptInv, AbsentInv, ParkedInv, Uncounted
  <2> QED
    BY <2>5, <2>7
<1>6. CASE body.pc = "insert"
  <2>1. row' = InsertedRow /\ sent' = sent
    BY <1>6 DEF Effect
  <2>2. resent'["send"] = resent["send"]
    BY <1>2, <1>6 DEF Op
  <2>3. SentInv'
    <3>1. \A k \in Step : Unsent(k)' => Unsent(k)
      BY <1>6 DEF Unsent
    <3> QED
      BY <1>1, <2>1, <2>2, <3>1 DEF SentInv
  <2>4. /\ row'.attempts = IF row.status = "ABSENT" THEN 1
                           ELSE IF body.recovered THEN row.attempts + 1 ELSE row.attempts
        /\ row'.status # "ABSENT"
        /\ row'.status = "DEAD" => row.status = "DEAD" \/ row'.attempts > MaxRetries + 1
    BY <1>2, <2>1 DEF InsertedRow, OverBudget
  <2>5. AbsentInv' /\ ParkedInv'
    BY <1>1, <1>2, <2>4 DEF AbsentInv, ParkedInv
  <2>6. AttemptInv'
    <3>1. body.recovered => row.attempts <= launches + resent["insert"]
      BY <1>1, <1>3, <1>6 DEF AttemptInv, Uncounted
    <3>2. row.status = "ABSENT" => row.attempts = 0
      BY <1>1 DEF AbsentInv
    <3>3. CASE resent' = resent /\ call'.pc = "answered" /\ call'.answer = Answer
      <4>1. Succeeded({"dead", "run", "skip"})'
        BY <1>6, <3>3 DEF Succeeded, Answer, InsertAnswer
      <4>2. ~Uncounted'
        BY <1>6, <4>1 DEF Uncounted
      <4> QED
        BY <1>1, <1>2, <2>4, <3>1, <3>3, <4>2 DEF AttemptInv, Op
    <3>4. CASE resent' = [resent EXCEPT !["insert"] = @ + 1]
      <4>1. resent'["insert"] = resent["insert"] + 1 /\ resent["insert"] \in Nat
        BY <1>2, <3>4 DEF Op
      <4> QED
        BY <1>1, <1>2, <2>4, <3>1, <3>2, <4>1 DEF AttemptInv
    <3>5. CASE resent' = resent /\ ~Changes
      <4>1. row' = row
        BY <3>5 DEF Changes
      <4>2. Uncounted' => Uncounted
        BY <1>3, <1>6 DEF Uncounted
      <4> QED
        BY <1>1, <3>5, <4>1, <4>2 DEF AttemptInv
    <3> QED
      BY <1>6, <3>3, <3>4, <3>5
  <2> QED
    BY <2>3, <2>5, <2>6
<1>7. CASE body.pc \notin {"send", "insert"}
  <2>1. resent'["send"] = resent["send"] /\ resent'["insert"] = resent["insert"]
    BY <1>2, <1>7 DEF Op
  <2>2. sent' = sent
    BY <1>7 DEF Effect
  <2>3. row'.attempts = row.attempts /\ (row'.status # row.status => row'.status \in {"SUCCESS", "ERROR"})
    BY <1>1, <1>7 DEF Effect, TypeOK
  <2>4. (\A k \in Step : Unsent(k)' => Unsent(k)) /\ (Uncounted' => Uncounted)
    BY <1>7 DEF Unsent, Uncounted
  <2> QED
    BY <1>1, <1>7, <2>1, <2>2, <2>3, <2>4 DEF SentInv, AttemptInv, AbsentInv, ParkedInv
<1> QED
  BY <1>5, <1>6, <1>7

\* Every step keeps the invariant: a step that sends or counts has the budget of
\* this life of the process, and one that repeats has a lost answer to show.
LEMMA RepeatStep == RepeatInv /\ [Next]_vars => RepeatInv'
<1> SUFFICES ASSUME RepeatInv, [Next]_vars PROVE RepeatInv'
  OBVIOUS
<1>1. TypeOK' /\ Decided'
  BY TypeStep, DecidedStep DEF RepeatInv
<1>2. TypeOK /\ Decided /\ SentInv /\ AttemptInv /\ AbsentInv /\ ParkedInv
  BY DEF RepeatInv
<1> DEFINE Kept == SentInv' /\ AttemptInv' /\ AbsentInv' /\ ParkedInv'
<1> SUFFICES Kept
  BY <1>1 DEF RepeatInv
<1>3. CASE Execute
  <2>1. call.pc = "sent" /\ ~PollAgain /\ Effect /\ UNCHANGED <<body, launches, resent>>
    BY <1>3 DEF Execute
  <2>2. PICK a : a = Answer
    OBVIOUS
  <2>3. call' = [call EXCEPT !.pc = "answered", !.answer = a]
    BY <1>3, <2>2 DEF Execute, Answered
  <2>4. call'.pc = "answered" /\ call'.answer = a
    BY <1>2, <2>3 DEF TypeOK
  <2> QED
    BY <2>1, <2>2, <2>4, RepeatExecute
<1>4. CASE LoseAnswer
  BY <1>4, RepeatExecute DEF LoseAnswer
<1>5. ASSUME UNCHANGED <<row, sent, launches, resent>>,
             \A k \in Step : Unsent(k)' => Unsent(k),
             Uncounted' => Uncounted,
             row.status = "ABSENT" => /\ body'.pc \in {"idle", "list", "insert"}
                                      /\ body'.pc = "insert" => call'.answer # "run"
      PROVE  Kept
  BY <1>2, <1>5 DEF SentInv, AttemptInv, AbsentInv, ParkedInv
<1>6. CASE Poll
  BY <1>2, <1>5, <1>6 DEF Poll, PollAgain, Unsent, Uncounted, AbsentInv
<1>7. CASE Retry
  BY <1>2, <1>5, <1>7 DEF Retry, MayRetry, Unsent, Uncounted, Succeeded, AbsentInv
<1>8. CASE Fail
  BY <1>2, <1>5, <1>8 DEF Fail, Answered, Unsent, Uncounted, Succeeded, AbsentInv, TypeOK
<1>9. CASE BodyStep
  <2>1. body.step \in Step /\ body.step \in Int /\ Step \subseteq Int
    BY <1>2 DEF TypeOK, Step
  <2>2. UNCHANGED <<row, sent, launches, resent>>
    BY <1>9 DEF BodyStep, Listed, Inserted, Checked, Sent, Recorded, Concluded, AwaitedOutcome, RunClosure, Wake
  <2>3. \/ Rests
        \/ body.pc = "list" /\ Moves("insert") /\ Fresh
        \/ body.pc = "insert" /\ call.answer = "run" /\ Moves("check")
        \/ body.pc = "check" /\ (Moves("send") \/ Moves("closure"))
        \/ body.pc \in {"check", "record"} /\ Continues
        \/ body.pc = "closure" /\ body'.pc = "backoff" /\ body'.step = body.step
        \/ body.pc = "backoff" /\ Moves("closure")
        \/ /\ body.pc \in {"check", "send", "record", "closure", "backoff"}
           /\ Moves("record") \/ Moves("outcome") \/ Moves("await")
    <3>1. CASE Listed \/ Inserted
      BY <1>2, <3>1, BodyMoves DEF Listed, Inserted, Returns
    <3>2. CASE Checked \/ Sent \/ Recorded
      BY <1>2, <3>2, BodyMoves DEF Checked, Sent, Recorded, Returns
    <3>3. CASE Concluded \/ AwaitedOutcome \/ RunClosure \/ Wake
      BY <1>2, <3>3, BodyMoves DEF RunClosure, Wake
    <3> QED
      BY <1>9, <3>1, <3>2, <3>3 DEF BodyStep
  <2>4. \A k \in Step : Unsent(k)' => Unsent(k)
    <3> TAKE k \in Step
    <3>1. CASE Rests
      BY <3>1 DEF Rests, Unsent
    <3>2. CASE /\ body.pc \in {"list", "insert", "check", "closure", "backoff"}
               /\ body'.step = body.step
      BY <3>2 DEF Unsent
    <3>3. CASE body.pc # "idle" /\ (Moves("record") \/ Moves("outcome") \/ Moves("await"))
      BY <3>3 DEF Moves, Unsent
    <3>4. CASE body.pc \in {"check", "record"} /\ Continues
      <4>1. CASE body.step = Steps
        BY <3>3, <3>4, <4>1 DEF Continues
      <4>2. CASE body'.step = body.step + 1
        <5>1. Unsent(k)' => k >= body.step + 1
          BY <2>1, <4>2 DEF Unsent
        <5>2. k \in Int /\ (k >= body.step + 1 => k > body.step)
          BY <2>1
        <5> QED
          BY <3>4, <5>1, <5>2 DEF Unsent
      <4> QED
        BY <3>4, <4>1, <4>2 DEF Continues
    <3> QED
      BY <2>3, <3>1, <3>2, <3>3, <3>4 DEF Moves
  <2>5. Uncounted' => Uncounted
    BY <2>3 DEF Uncounted, Rests, Moves, Continues
  <2>6. row.status = "ABSENT" => /\ body'.pc \in {"idle", "list", "insert"}
                                 /\ body'.pc = "insert" => call'.answer # "run"
    BY <1>2, <2>3 DEF AbsentInv, Rests, Moves, Fresh
  <2> QED
    BY <1>5, <2>2, <2>4, <2>5, <2>6
<1>10. CASE Submit
  <2>1. /\ row.status = "ABSENT" /\ UNCHANGED <<row, sent, launches, resent>>
        /\ body'.pc = "insert" /\ call'.answer = None
    BY <1>2, <1>10, Parts DEF Submit, TypeOK, BodyType
  <2>2. row.attempts = 0 /\ \A k \in Step : sent[k] = 0
    BY <1>2, <2>1 DEF AbsentInv
  <2>3. launches \in Nat /\ resent["send"] \in Nat /\ resent["insert"] \in Nat
    BY <1>2 DEF TypeOK, Op
  <2> QED
    BY <2>1, <2>2, <2>3 DEF SentInv, AttemptInv, AbsentInv, ParkedInv
<1>11. CASE Stopped /\ UNCHANGED <<row, sent, launches, resent>>
  <2>1. body'.pc = "idle"
    BY <1>11, IdleType DEF Stopped
  <2> QED
    BY <1>5, <1>11, <2>1 DEF Unsent, Uncounted
<1>12. CASE Launch
  <2>1. /\ UNCHANGED <<row, sent, resent>> /\ launches' = launches + 1
        /\ body'.pc = "list"
    BY <1>2, <1>12, Parts DEF Launch, TypeOK, BodyType
  <2>2. /\ launches \in Nat /\ resent["send"] \in Nat /\ resent["insert"] \in Nat
        /\ row.attempts \in Nat /\ sent \in [Step -> Nat]
    BY <1>2 DEF TypeOK, Op
  <2> QED
    BY <1>2, <2>1, <2>2 DEF SentInv, AttemptInv, AbsentInv, ParkedInv
<1>13. CASE Shutdown \/ UNCHANGED vars
  BY <1>2, <1>5, <1>13 DEF Shutdown, vars, Unsent, Uncounted, Succeeded, AbsentInv
<1> QED
  BY <1>1, <1>3, <1>4, <1>6, <1>7, <1>8, <1>9, <1>10, <1>11, <1>12, <1>13
  DEF RepeatInv, Next, Statement, Environment, Exit, Crash

\* Messages, attempts and dead letters all have a cause.
THEOREM RepetitionsHaveCauses == Spec => []RepeatsExplained
<1>1. RepeatInv => RepeatsExplained
  <2> SUFFICES ASSUME RepeatInv PROVE RepeatsExplained
    OBVIOUS
  <2>1. launches \in Nat /\ resent["insert"] \in Nat /\ row.attempts \in Nat
    BY DEF RepeatInv, TypeOK, Op
  <2>2. row.status = "DEAD" => launches + resent["insert"] > MaxRetries
    BY <2>1 DEF RepeatInv, AttemptInv, ParkedInv
  <2> QED
    BY <2>2 DEF RepeatInv, RepeatsExplained, SentInv, AttemptInv
<1> QED
  BY <1>1, RepeatInit, RepeatStep, PTL DEF Spec

------------------------------------------------------------------------------
(* What handles have returned and what is recorded is true.                *)

AllOk == \A k \in Step : journal[k] = "ok"
Settled == row.status \in {"SUCCESS", "ERROR"}
Working == {"check", "closure", "backoff", "send", "record"}

\* Behind a body that works there are steps that have succeeded; it runs a
\* closure only where nothing is recorded, and what it has read or recorded at
\* its own step is what the journal says.
JournalRead ==
    /\ body.pc \in {"idle", "list", "insert"} => body.step = 1
    /\ body.pc \in Working => \A k \in Step : k < body.step => journal[k] = "ok"
    /\ body.pc \in {"closure", "backoff", "send"} => journal[body.step] = None
    /\ body.pc = "check" /\ call.pc = "answered" => Failed \/ call.answer = journal[body.step]
    /\ body.pc = "record" => /\ journal[body.step] \in {None, body.result}
                             /\ call.pc = "answered" => \/ Failed \/ call.answer = "conflict"
                                                        \/ call.answer = "ok" /\ journal[body.step] = body.result

\* The row is open while a body works, and while it waits after a conflict.
RowOpen ==
    /\ body.pc \in Working \cup {"await"} => ~Settled
    /\ body.pc = "insert" /\ call.answer = "run" => ~Settled
    /\ body.pc = "await" /\ call.pc = "answered" => call.answer # "SUCCESS"

FailureEarned == gaveUp # {} \/ \E k \in Step : journal[k] = "error"

\* A success has all steps, an error has a reason.
OutcomeEarned ==
    /\ body.pc = "outcome" /\ body.result = "ok" => AllOk /\ row.status # "ERROR"
    /\ body.pc = "outcome" /\ body.result = "error" => FailureEarned
    /\ row.status = "SUCCESS" => AllOk
    /\ row.status = "ERROR" => FailureEarned

\* After a success was told nothing is left to run, so only a step that cannot
\* be read brings a body to an error.
ToldStays ==
    "ok" \in told => /\ AllOk
                     /\ body.pc \notin Working \ {"check"}
                     /\ body.pc = "outcome" /\ body.result = "error" => "check" \in gaveUp
                     /\ row.status = "ERROR" => "check" \in gaveUp

\* Why step k may have failed.
Cause(k) ==
    \/ runs[k] > StepRetries \/ happened["rejected"] > 0 \/ happened["shutdown"] > 0
    \/ k \in Sends /\ "send" \in gaveUp

ErrorsCaused ==
    /\ \A k \in Step : journal[k] = "error" => Cause(k)
    /\ body.pc = "record" /\ body.result = "error" => Cause(body.step)
    /\ body.pc = "send" => body.step \in Sends
    /\ body.runs <= runs[body.step]
    /\ process = "draining" => happened["shutdown"] > 0
    /\ happened \in [Happenings -> Nat]

AnswersInv == TypeOK /\ Decided /\ JournalRead /\ RowOpen /\ OutcomeEarned /\ ToldStays /\ ErrorsCaused

\* Nothing is told or recorded yet.
LEMMA AnswersInit == Init => AnswersInv
<1> SUFFICES ASSUME Init PROVE AnswersInv
  OBVIOUS
<1>1. TypeOK /\ Decided
  BY InitTyped
<1>2. body.pc = "idle" /\ body.runs = 0 /\ body.step \in Step /\ runs[body.step] = 0
  BY DEF Init, Idle, Step
<1>3. JournalRead /\ RowOpen /\ OutcomeEarned /\ ToldStays
  BY <1>2 DEF Init, Idle, JournalRead, RowOpen, OutcomeEarned, ToldStays, Working, AllOk
<1>4. ErrorsCaused
  BY <1>2 DEF Init, ErrorsCaused, Happenings
<1> QED
  BY <1>1, <1>3, <1>4 DEF AnswersInv

\* What happens is counted.
LEMMA HappensCounts ==
    ASSUME happened \in [Happenings -> Nat], NEW h \in Happenings, Happens(h)
    PROVE  /\ happened' \in [Happenings -> Nat] /\ happened'[h] > 0
           /\ \A g \in Happenings : happened'[g] >= happened[g]
  BY DEF Happens

\* The server executes the statement of the body: only an empty place of the
\* journal is written, and only with the result of the body.
LEMMA AnswersExecute ==
    ASSUME AnswersInv, call.pc = "sent", ~PollAgain, Effect,
           UNCHANGED <<process, body, told, gaveUp, runs>>,
           happened' \in [Happenings -> Nat],
           \A h \in Happenings : happened'[h] >= happened[h],
           call'.pc = "answered", call'.answer = Answer \/ call'.answer = "transient"
    PROVE  JournalRead' /\ RowOpen' /\ OutcomeEarned' /\ ToldStays' /\ ErrorsCaused'
<1>1. TypeOK /\ JournalRead /\ RowOpen /\ OutcomeEarned /\ ToldStays /\ ErrorsCaused
  BY DEF AnswersInv
<1>2. PICK s \in Step : s = body.step
  BY <1>1 DEF TypeOK
<1>3. journal \in [Step -> {None, "ok", "error"}] /\ body.pc \in {"idle", "closure", "backoff"} \cup Op
  BY <1>1 DEF TypeOK
<1>4. \A k \in Step : Cause(k) => Cause(k)'
  <2>1. happened["rejected"] \in Nat /\ happened["shutdown"] \in Nat
        /\ happened'["rejected"] \in Nat /\ happened'["shutdown"] \in Nat
        /\ happened'["rejected"] >= happened["rejected"] /\ happened'["shutdown"] >= happened["shutdown"]
    BY <1>1 DEF ErrorsCaused, Happenings
  <2> QED
    BY <2>1 DEF Cause
<1>5. process = "draining" => happened'["shutdown"] > 0
  BY <1>1 DEF ErrorsCaused, Happenings
<1>6. CASE body.pc = "record"
  <2>1. row' = row
    BY <1>6 DEF Effect
  <2>2. journal[s] \in {None, body.result} /\ body.result \in {"ok", "error"}
    BY <1>1, <1>2, <1>6 DEF JournalRead, AnswersInv, Decided
  <2>3. journal' = [journal EXCEPT ![s] = body.result]
    BY <1>2, <1>3, <1>6, <2>2 DEF Effect
  <2>4. journal'[s] = body.result /\ \A k \in Step : k # s => journal'[k] = journal[k]
    BY <1>3, <2>3
  <2>5. call'.answer \in {"transient", "conflict", "ok"}
    BY <1>6 DEF Answer
  <2>6. JournalRead'
    <3>1. \A k \in Step : k < s => k # s
      BY DEF Step
    <3>2. Failed' <=> call'.answer \in {"transient", "fatal"}
      BY DEF Failed
    <3> QED
      BY <1>1, <1>2, <1>6, <2>4, <2>5, <3>1, <3>2 DEF JournalRead, Working
  <2>7. RowOpen'
    BY <1>1, <1>6, <2>1 DEF RowOpen, Settled
  <2>8. AllOk => AllOk'
    BY <2>2, <2>4 DEF AllOk
  <2>9. FailureEarned => FailureEarned'
    BY <2>2, <2>4 DEF FailureEarned
  <2>10. OutcomeEarned' /\ ToldStays'
    BY <1>1, <1>6, <2>1, <2>8, <2>9 DEF OutcomeEarned, ToldStays
  <2>11. ErrorsCaused'
    BY <1>1, <1>2, <1>4, <1>5, <1>6, <2>4 DEF ErrorsCaused
  <2> QED
    BY <2>6, <2>7, <2>10, <2>11
<1>7. CASE body.pc # "record"
  <2>1. journal' = journal
    BY <1>7 DEF Effect
  <2>2. JournalRead'
    <3>1. body.pc = "check" => call'.answer \in {journal[body.step], "transient"}
      BY DEF Answer
    <3> QED
      BY <1>1, <1>7, <2>1, <3>1 DEF JournalRead, Failed
  <2>3. ErrorsCaused'
    BY <1>1, <1>2, <1>4, <1>5, <1>7, <2>1 DEF ErrorsCaused
  <2>4. /\ body.pc \notin {"insert", "outcome"} => row' = row
        /\ body.pc = "outcome" => row'.status = IF body.result = "ok" THEN "SUCCESS" ELSE "ERROR"
    BY <1>1 DEF Effect, TypeOK
  <2>5. body.pc = "insert" => /\ row'.status \in {"SUCCESS", "ERROR"} => row'.status = row.status
                              /\ call'.answer = "run" => row'.status \notin {"SUCCESS", "ERROR"}
    BY DEF Effect, Answer, InsertAnswer, InsertedRow
  <2>6. RowOpen'
    <3>1. body.pc = "await" => call'.answer # "SUCCESS"
      BY <1>1 DEF Answer, RowOpen, Settled
    <3> QED
      BY <1>1, <2>4, <2>5, <3>1 DEF RowOpen, Settled, Working
  <2>7. OutcomeEarned'
    BY <1>1, <2>1, <2>4, <2>5 DEF OutcomeEarned, AllOk, FailureEarned, AnswersInv, Decided
  <2>8. ToldStays'
    BY <1>1, <2>1, <2>4, <2>5 DEF ToldStays, AllOk, OutcomeEarned, AnswersInv, Decided
  <2> QED
    BY <2>2, <2>3, <2>6, <2>7, <2>8
<1> QED
  BY <1>6, <1>7




\* The body acts on an answer, or on the end of its closure.
LEMMA AnswersBody ==
    ASSUME AnswersInv, TypeOK', BodyStep
    PROVE  JournalRead' /\ RowOpen' /\ OutcomeEarned' /\ ToldStays' /\ ErrorsCaused'
<1> DEFINE Kept == JournalRead' /\ RowOpen' /\ OutcomeEarned' /\ ToldStays' /\ ErrorsCaused'
<1> SUFFICES Kept
  OBVIOUS
<1>1. TypeOK /\ Decided /\ JournalRead /\ RowOpen /\ OutcomeEarned /\ ToldStays /\ ErrorsCaused
  BY DEF AnswersInv
<1>2. PICK s \in Step : s = body.step
  BY <1>1 DEF TypeOK
<1>3. /\ journal \in [Step -> {None, "ok", "error"}] /\ runs \in [Step -> Nat]
      /\ body.pc \in {"idle", "closure", "backoff"} \cup Op
      /\ happened \in [Happenings -> Nat]
  BY <1>1 DEF TypeOK, ErrorsCaused
<1>4. UNCHANGED <<row, journal, process>>
  BY DEF BodyStep, Listed, Inserted, Checked, Sent, Recorded, Concluded, AwaitedOutcome, RunClosure, Wake
\* What a step that only moves the body has to show.
<1>5. ASSUME gaveUp \subseteq gaveUp', runs' = runs, happened' = happened,
             "ok" \in told' => "ok" \in told \/ (AllOk /\ row.status # "ERROR")
      PROVE  /\ \A k \in Step : Cause(k) => Cause(k)'
             /\ FailureEarned => FailureEarned'
             /\ row.status = "ERROR" => FailureEarned'
             /\ "ok" \in told' => AllOk /\ (row.status = "ERROR" => "check" \in gaveUp')
  BY <1>1, <1>4, <1>5 DEF Cause, FailureEarned, OutcomeEarned, ToldStays
<1>6. ASSUME GaveUp, Fresh, runs' = runs, happened' = happened,
             "ok" \in told' => "ok" \in told \/ (AllOk /\ row.status # "ERROR"),
             body'.pc \in {"idle", "insert"}, body'.step = 1, body'.runs <= runs[1]
      PROVE  Kept
  <2>1. gaveUp \subseteq gaveUp'
    BY <1>6 DEF GaveUp
  <2>2. JournalRead' /\ RowOpen'
    BY <1>6 DEF JournalRead, RowOpen, Working, Fresh
  <2>3. OutcomeEarned'
    BY <1>1, <1>4, <1>5, <1>6, <2>1 DEF OutcomeEarned, AllOk
  <2>4. ToldStays'
    BY <1>1, <1>4, <1>5, <1>6, <2>1 DEF ToldStays, AllOk, Working
  <2>5. ErrorsCaused'
    BY <1>1, <1>4, <1>5, <1>6, <2>1 DEF ErrorsCaused
  <2> QED
    BY <2>2, <2>3, <2>4, <2>5
<1>7. 1 \in Step /\ runs[1] \in Nat
  BY <1>3 DEF Step
<1>8. CASE Listed
  <2>1. GaveUp /\ Fresh /\ (Rests \/ Moves("insert")) /\ UNCHANGED <<told, runs, happened>> /\ body.pc = "list"
    BY <1>1, <1>8, BodyMoves DEF Listed, Returns
  <2>2. body.step = 1 /\ body.runs <= runs[1]
    BY <1>1, <2>1 DEF JournalRead, ErrorsCaused
  <2>3. body'.pc \in {"idle", "insert"} /\ body'.step = 1 /\ body'.runs <= runs[1]
    BY <1>7, <2>1, <2>2 DEF Rests, Moves
  <2> QED
    BY <1>6, <2>1, <2>3
<1>9. CASE Concluded
  <2>1. GaveUp /\ Fresh /\ Rests /\ UNCHANGED <<runs, happened>> /\ body.pc = "outcome"
    BY <1>1, <1>9, BodyMoves DEF Concluded, Returns
  <2>2. "ok" \in told' => "ok" \in told \/ body.result = "ok"
    BY <1>9 DEF Concluded
  <2>3. "ok" \in told' => "ok" \in told \/ (AllOk /\ row.status # "ERROR")
    BY <1>1, <2>1, <2>2 DEF OutcomeEarned
  <2>4. body'.pc = "idle" /\ body'.step = 1 /\ body'.runs <= runs[1]
    BY <1>7, <2>1 DEF Rests
  <2> QED
    BY <1>6, <2>1, <2>3, <2>4
<1>10. CASE AwaitedOutcome
  <2>1. /\ GaveUp /\ Fresh /\ Rests /\ UNCHANGED <<runs, happened>>
        /\ body.pc = "await" /\ call.pc = "answered"
    BY <1>1, <1>10, BodyMoves DEF AwaitedOutcome, Returns
  <2>2. call.answer # "SUCCESS"
    BY <1>1, <2>1 DEF RowOpen
  <2>3. told' = told \cup {"error"}
    BY <1>10, <2>2 DEF AwaitedOutcome
  <2>4. body'.pc = "idle" /\ body'.step = 1 /\ body'.runs <= runs[1]
    BY <1>7, <2>1 DEF Rests
  <2> QED
    BY <1>6, <2>1, <2>3, <2>4
\* The body goes to its next read, to its end, or to a record.
<1>11. ASSUME gaveUp \subseteq gaveUp', runs' = runs, happened' = happened, told' = told, Fresh, ~Settled,
              body'.pc = "check", \A k \in Step : k < body'.step => journal[k] = "ok",
              body'.runs <= runs[body'.step]
       PROVE  Kept
  <2>1. JournalRead' /\ RowOpen'
    BY <1>4, <1>11 DEF JournalRead, RowOpen, Fresh, Settled
  <2>2. OutcomeEarned' /\ ToldStays'
    BY <1>1, <1>4, <1>5, <1>11 DEF OutcomeEarned, ToldStays, AllOk
  <2>3. ErrorsCaused'
    BY <1>1, <1>4, <1>5, <1>11 DEF ErrorsCaused
  <2> QED
    BY <2>1, <2>2, <2>3
<1>12. ASSUME gaveUp \subseteq gaveUp', runs' = runs, happened' = happened, told' = told, Moves("outcome"),
              body'.result = "ok" => AllOk /\ ~Settled,
              body'.result = "error" => FailureEarned',
              "ok" \in told /\ body'.result = "error" => "check" \in gaveUp'
       PROVE  Kept
  <2>1. JournalRead' /\ RowOpen'
    BY <1>12 DEF JournalRead, RowOpen, Moves, Working
  <2>2. OutcomeEarned'
    BY <1>1, <1>4, <1>5, <1>12 DEF OutcomeEarned, AllOk, Settled
  <2>3. ToldStays'
    BY <1>1, <1>4, <1>5, <1>12 DEF ToldStays, AllOk, Moves, Working
  <2>4. ErrorsCaused'
    BY <1>1, <1>4, <1>5, <1>12 DEF ErrorsCaused, Moves
  <2> QED
    BY <2>1, <2>2, <2>3, <2>4
<1>13. ASSUME gaveUp \subseteq gaveUp', runs' = runs, happened' = happened, told' = told, Fresh, Continues,
              body.pc \in Working, journal[s] = "ok"
       PROVE  Kept
  <2>1. ~Settled /\ \A k \in Step : k < s => journal[k] = "ok"
    BY <1>1, <1>2, <1>13 DEF RowOpen, JournalRead
  <2>2. CASE body.step = Steps
    <3>1. AllOk
      BY <1>2, <1>13, <2>1, <2>2 DEF AllOk, Step
    <3> QED
      BY <1>12, <1>13, <2>1, <2>2, <3>1 DEF Continues
  <2>3. CASE body.step # Steps
    <3>1. body'.pc = "check" /\ body'.step = s + 1 /\ body'.runs = 0 /\ s + 1 \in Step
      BY <1>2, <1>13, <2>3 DEF Continues, Step
    <3>2. \A k \in Step : k < body'.step => journal[k] = "ok"
      BY <1>13, <2>1, <3>1 DEF Step
    <3>3. body'.runs <= runs[body'.step]
      BY <1>3, <3>1
    <3> QED
      BY <1>11, <1>13, <2>1, <3>1, <3>2, <3>3
  <2> QED
    BY <2>2, <2>3
<1>14. ASSUME gaveUp \subseteq gaveUp', told' = told, Fresh, Moves("record"),
              body.pc \in {"closure", "backoff", "send"},
              \A k \in Step : Cause(k) => Cause(k)',
              body'.result = "error" => Cause(s)',
              runs'[s] >= runs[s] /\ runs'[s] \in Nat, happened' \in [Happenings -> Nat],
              happened'["shutdown"] >= happened["shutdown"]
       PROVE  Kept
  <2>1. ~Settled /\ journal[s] = None /\ (\A k \in Step : k < s => journal[k] = "ok") /\ "ok" \notin told
    BY <1>1, <1>2, <1>14 DEF RowOpen, JournalRead, ToldStays, Working
  <2>2. JournalRead' /\ RowOpen'
    BY <1>2, <1>4, <1>14, <2>1 DEF JournalRead, RowOpen, Moves, Fresh, Settled
  <2>3. OutcomeEarned' /\ ToldStays'
    BY <1>1, <1>4, <1>14, <2>1 DEF OutcomeEarned, ToldStays, AllOk, FailureEarned, Moves
  <2>4. body.runs <= runs'[s]
    BY <1>1, <1>2, <1>3, <1>14 DEF ErrorsCaused, TypeOK
  <2>5. process = "draining" => happened'["shutdown"] > 0
    BY <1>1, <1>3, <1>14 DEF ErrorsCaused, Happenings
  <2>6. ErrorsCaused'
    BY <1>1, <1>2, <1>4, <1>14, <2>4, <2>5 DEF ErrorsCaused, Moves
  <2> QED
    BY <2>2, <2>3, <2>6
<1>15. CASE Inserted
  <2>1. /\ GaveUp /\ Fresh /\ UNCHANGED <<told, runs, happened>> /\ body.pc = "insert"
        /\ IF call.answer = "run" THEN Moves("check") ELSE Rests
    BY <1>1, <1>15, BodyMoves DEF Inserted, Returns
  <2>2. CASE call.answer = "run"
    <3>1. ~Settled /\ body'.pc = "check" /\ body'.step = 1 /\ body'.runs <= runs[1]
      BY <1>1, <2>1, <2>2 DEF RowOpen, JournalRead, ErrorsCaused, Moves
    <3>2. \A k \in Step : ~(k < 1)
      BY DEF Step
    <3>3. gaveUp \subseteq gaveUp'
      BY <2>1 DEF GaveUp
    <3> QED
      BY <1>11, <2>1, <3>1, <3>2, <3>3
  <2>3. CASE call.answer # "run"
    <3>1. body'.pc = "idle" /\ body'.step = 1 /\ body'.runs <= runs[1]
      BY <1>7, <2>1, <2>3 DEF Rests
    <3> QED
      BY <1>6, <2>1, <3>1
  <2> QED
    BY <2>2, <2>3
<1>16. CASE Checked
  <2>1. /\ GaveUp /\ Fresh /\ UNCHANGED <<told, runs, happened>>
        /\ body.pc = "check" /\ call.pc = "answered"
        /\ IF call.answer = None
           THEN IF body.step \in Sends THEN Moves("send") ELSE Moves("closure")
           ELSE IF call.answer = "ok" THEN Continues
           ELSE Moves("outcome") /\ body'.result = "error"
    BY <1>1, <1>16, BodyMoves DEF Checked, Returns
  <2>2. ~Settled /\ (\A k \in Step : k < s => journal[k] = "ok") /\ (Failed \/ call.answer = journal[s])
    BY <1>1, <1>2, <2>1 DEF RowOpen, JournalRead, Working
  <2>3. gaveUp \subseteq gaveUp' /\ (Failed => "check" \in gaveUp')
    BY <2>1 DEF GaveUp
  <2>4. CASE call.answer = None
    <3>1. journal[s] = None /\ "ok" \notin told
      BY <1>1, <2>2, <2>4 DEF Failed, ToldStays, AllOk
    <3>2. body'.pc \in {"send", "closure"} /\ body'.step = s /\ body'.runs = body.runs
          /\ (body'.pc = "send" => s \in Sends)
      BY <1>2, <2>1, <2>4 DEF Moves
    <3>3. JournalRead' /\ RowOpen'
      BY <1>4, <2>2, <3>1, <3>2 DEF JournalRead, RowOpen, Settled
    <3>4. OutcomeEarned' /\ ToldStays'
      BY <1>1, <1>4, <2>1, <2>3, <3>1, <3>2 DEF OutcomeEarned, ToldStays, AllOk, FailureEarned
    <3>5. ErrorsCaused'
      BY <1>1, <1>2, <1>4, <1>5, <2>1, <2>3, <3>2 DEF ErrorsCaused
    <3> QED
      BY <3>3, <3>4, <3>5
  <2>5. CASE call.answer = "ok"
    <3>1. journal[s] = "ok" /\ Continues
      BY <2>1, <2>2, <2>5 DEF Failed
    <3> QED
      BY <1>13, <2>1, <2>3, <3>1 DEF Working
  <2>6. CASE call.answer \notin {None, "ok"}
    <3>1. Moves("outcome") /\ body'.result = "error"
      BY <2>1, <2>6
    <3>2. CASE Failed
      <4>1. FailureEarned' /\ "check" \in gaveUp'
        BY <2>3, <3>2 DEF FailureEarned
      <4> QED
        BY <1>12, <2>1, <2>3, <3>1, <4>1
    <3>3. CASE ~Failed
      <4>1. journal[s] = "error"
        BY <1>3, <2>2, <2>6, <3>3
      <4>2. FailureEarned' /\ "ok" \notin told
        BY <1>1, <1>4, <4>1 DEF FailureEarned, ToldStays, AllOk
      <4> QED
        BY <1>12, <2>1, <2>3, <3>1, <4>2
    <3> QED
      BY <3>2, <3>3
  <2> QED
    BY <2>4, <2>5, <2>6
<1>17. CASE Sent
  <2>1. /\ GaveUp /\ Fresh /\ UNCHANGED <<told, runs, happened>> /\ body.pc = "send"
        /\ Moves("record") /\ body'.result = IF Failed THEN "error" ELSE "ok"
    BY <1>1, <1>17, BodyMoves DEF Sent, Returns
  <2>2. gaveUp \subseteq gaveUp' /\ (Failed => "send" \in gaveUp') /\ s \in Sends
    BY <1>1, <1>2, <2>1 DEF GaveUp, ErrorsCaused
  <2>3. body'.result = "error" => Cause(s)'
    BY <2>1, <2>2 DEF Cause
  <2>4. \A k \in Step : Cause(k) => Cause(k)'
    BY <1>5, <2>1, <2>2
  <2>5. runs'[s] \in Nat /\ runs'[s] >= runs[s] /\ happened' \in [Happenings -> Nat]
        /\ happened'["shutdown"] >= happened["shutdown"]
    BY <1>3, <2>1 DEF Happenings
  <2> QED
    BY <1>14, <2>1, <2>2, <2>3, <2>4, <2>5
<1>18. CASE Recorded
  <2>1. /\ GaveUp /\ Fresh /\ UNCHANGED <<told, runs, happened>>
        /\ body.pc = "record" /\ call.pc = "answered"
        /\ IF call.answer = "conflict" THEN Moves("await")
           ELSE IF ~Failed /\ body.result = "ok" THEN Continues
           ELSE Moves("outcome") /\ body'.result = "error"
    BY <1>1, <1>18, BodyMoves DEF Recorded, Returns
  <2>2. /\ ~Settled /\ "ok" \notin told /\ body.result \in {"ok", "error"}
        /\ Failed \/ call.answer = "conflict" \/ (call.answer = "ok" /\ journal[s] = body.result)
    BY <1>1, <1>2, <2>1 DEF RowOpen, JournalRead, ToldStays, Working, Decided
  <2>3. gaveUp \subseteq gaveUp' /\ (Failed => gaveUp' # {})
    BY <2>1 DEF GaveUp
  <2>4. CASE call.answer = "conflict"
    <3>1. body'.pc = "await" /\ body'.step = s /\ body'.runs = body.runs
      BY <1>2, <2>1, <2>4 DEF Moves
    <3>2. JournalRead' /\ RowOpen'
      BY <1>4, <2>1, <2>2, <3>1 DEF JournalRead, RowOpen, Settled, Fresh, Working
    <3>3. OutcomeEarned' /\ ToldStays'
      BY <1>1, <1>4, <2>1, <2>2, <2>3, <3>1 DEF OutcomeEarned, ToldStays, AllOk, FailureEarned
    <3>4. ErrorsCaused'
      BY <1>1, <1>2, <1>4, <1>5, <2>1, <2>3, <3>1 DEF ErrorsCaused
    <3> QED
      BY <3>2, <3>3, <3>4
  <2>5. CASE ~Failed /\ body.result = "ok" /\ call.answer # "conflict"
    <3>1. Continues /\ journal[s] = "ok"
      BY <2>1, <2>2, <2>5
    <3> QED
      BY <1>13, <2>1, <2>3, <3>1 DEF Working
  <2>6. CASE (Failed \/ body.result = "error") /\ call.answer # "conflict"
    <3>1. Moves("outcome") /\ body'.result = "error"
      BY <2>1, <2>2, <2>6
    <3>2. FailureEarned'
      BY <1>4, <2>2, <2>3, <2>6 DEF FailureEarned
    <3> QED
      BY <1>12, <2>1, <2>2, <2>3, <3>1, <3>2
  <2> QED
    BY <2>2, <2>4, <2>5, <2>6
<1>19. CASE RunClosure
  <2>1. /\ body'.step = body.step
        /\ \/ Fresh /\ Moves("record") /\ body'.result = "ok"
           \/ Fresh /\ Moves("record") /\ body'.result = "error" /\ Happens("rejected")
           \/ Fresh /\ Moves("record") /\ body'.result = "error" /\ body.runs >= StepRetries
           \/ UNCHANGED call /\ body'.pc = "backoff" /\ body'.runs = body.runs + 1
    BY <1>1, <1>19, BodyMoves
  <2>2. /\ body.pc = "closure" /\ UNCHANGED <<told, gaveUp>> /\ runs' = [runs EXCEPT ![s] = @ + 1]
        /\ happened' = happened \/ Happens("rejected") \/ Happens("raised")
    BY <1>2, <1>19 DEF RunClosure
  <2>3. /\ happened' \in [Happenings -> Nat] /\ \A h \in Happenings : happened'[h] >= happened[h]
        /\ Happens("rejected") => happened'["rejected"] > 0
    BY <1>3, <2>2, HappensCounts DEF Happenings
  <2>4. runs'[s] = runs[s] + 1 /\ runs[s] \in Nat /\ \A k \in Step : runs'[k] \in Nat /\ runs'[k] >= runs[k]
    BY <1>3, <2>2
  <2>5. body.runs <= runs[s] /\ body.runs \in Nat
    BY <1>1, <1>2 DEF ErrorsCaused, TypeOK
  <2>6. \A k \in Step : Cause(k) => Cause(k)'
    <3>1. /\ happened["rejected"] \in Nat /\ happened["shutdown"] \in Nat
          /\ happened'["rejected"] \in Nat /\ happened'["shutdown"] \in Nat
          /\ happened'["rejected"] >= happened["rejected"] /\ happened'["shutdown"] >= happened["shutdown"]
      BY <1>3, <2>3 DEF Happenings
    <3>2. \A k \in Step : runs[k] > StepRetries => runs'[k] > StepRetries
      BY <1>3, <2>4
    <3> QED
      BY <2>2, <3>1, <3>2 DEF Cause
  <2>7. CASE Fresh /\ Moves("record")
    <3>1. CASE body'.result # "error"
      BY <1>14, <2>2, <2>3, <2>4, <2>6, <2>7, <3>1 DEF Happenings
    <3>2. CASE Happens("rejected")
      <4>1. Cause(s)'
        BY <2>3, <3>2 DEF Cause
      <4> QED
        BY <1>14, <2>2, <2>3, <2>4, <2>6, <2>7, <4>1 DEF Happenings
    <3>3. CASE body.runs >= StepRetries
      <4>1. Cause(s)'
        BY <2>4, <2>5, <3>3 DEF Cause
      <4> QED
        BY <1>14, <2>2, <2>3, <2>4, <2>6, <2>7, <4>1 DEF Happenings
    <3>4. body'.pc = "record"
      BY <2>7 DEF Moves
    <3> QED
      BY <2>1, <3>1, <3>2, <3>3, <3>4
  <2>8. CASE UNCHANGED call /\ body'.pc = "backoff" /\ body'.runs = body.runs + 1
    <3>1. ~Settled /\ journal[s] = None /\ (\A k \in Step : k < s => journal[k] = "ok") /\ "ok" \notin told
      BY <1>1, <1>2, <2>2 DEF RowOpen, JournalRead, ToldStays, Working
    <3>2. JournalRead' /\ RowOpen'
      BY <1>2, <1>4, <2>1, <2>8, <3>1 DEF JournalRead, RowOpen, Settled
    <3>3. OutcomeEarned' /\ ToldStays'
      BY <1>1, <1>4, <2>2, <2>8, <3>1 DEF OutcomeEarned, ToldStays, AllOk, FailureEarned
    <3>4. process = "draining" => happened'["shutdown"] > 0
      BY <1>1, <1>3, <2>3 DEF ErrorsCaused, Happenings
    <3>5. ErrorsCaused'
      BY <1>1, <1>2, <1>4, <2>1, <2>3, <2>4, <2>5, <2>6, <2>8, <3>4 DEF ErrorsCaused
    <3> QED
      BY <3>2, <3>3, <3>5
  <2> QED
    BY <2>1, <2>7, <2>8
<1>20. CASE Wake
  <2>1. /\ UNCHANGED <<told, gaveUp, runs, happened>> /\ body.pc = "backoff"
        /\ IF process = "draining" THEN Fresh /\ Moves("record") /\ body'.result = "error"
           ELSE UNCHANGED call /\ Moves("closure")
    BY <1>1, <1>20, BodyMoves DEF Wake
  <2>2. CASE process = "draining"
    <3>1. Cause(s)'
      BY <1>1, <2>1, <2>2 DEF ErrorsCaused, Cause
    <3>2. runs'[s] \in Nat /\ runs'[s] >= runs[s] /\ happened' \in [Happenings -> Nat]
          /\ happened'["shutdown"] >= happened["shutdown"]
      BY <1>3, <2>1 DEF Happenings
    <3>3. \A k \in Step : Cause(k) => Cause(k)'
      BY <1>5, <2>1
    <3> QED
      BY <1>14, <2>1, <2>2, <3>1, <3>2, <3>3
  <2>3. CASE process # "draining"
    <3>1. body'.pc = "closure" /\ body'.step = s /\ body'.runs = body.runs /\ UNCHANGED call
      BY <1>2, <2>1, <2>3 DEF Moves
    <3>2. ~Settled /\ journal[s] = None /\ (\A k \in Step : k < s => journal[k] = "ok") /\ "ok" \notin told
      BY <1>1, <1>2, <2>1 DEF RowOpen, JournalRead, ToldStays, Working
    <3>3. JournalRead' /\ RowOpen'
      BY <1>4, <3>1, <3>2 DEF JournalRead, RowOpen, Settled
    <3>4. OutcomeEarned' /\ ToldStays'
      BY <1>1, <1>4, <2>1, <3>1, <3>2 DEF OutcomeEarned, ToldStays, AllOk, FailureEarned
    <3>5. ErrorsCaused'
      BY <1>1, <1>2, <1>4, <1>5, <2>1, <3>1 DEF ErrorsCaused
    <3> QED
      BY <3>3, <3>4, <3>5
  <2> QED
    BY <2>2, <2>3
<1> QED
  BY <1>8, <1>9, <1>10, <1>15, <1>16, <1>17, <1>18, <1>19, <1>20 DEF BodyStep

\* Every step keeps the invariant.
LEMMA AnswersStep == AnswersInv /\ [Next]_vars => AnswersInv'
<1> SUFFICES ASSUME AnswersInv, [Next]_vars PROVE AnswersInv'
  OBVIOUS
<1>1. TypeOK' /\ Decided'
  BY TypeStep, DecidedStep DEF AnswersInv
<1>2. TypeOK /\ Decided /\ JournalRead /\ RowOpen /\ OutcomeEarned /\ ToldStays /\ ErrorsCaused
  BY DEF AnswersInv
<1> DEFINE Kept == JournalRead' /\ RowOpen' /\ OutcomeEarned' /\ ToldStays' /\ ErrorsCaused'
<1> SUFFICES Kept
  BY <1>1 DEF AnswersInv
<1>3. happened \in [Happenings -> Nat]
  BY <1>2 DEF ErrorsCaused
<1>4. CASE Execute
  <2>1. /\ call.pc = "sent" /\ ~PollAgain /\ Effect
        /\ UNCHANGED <<process, body, told, gaveUp, runs, happened>>
    BY <1>4 DEF Execute
  <2>2. PICK a : a = Answer
    OBVIOUS
  <2>3. call' = [call EXCEPT !.pc = "answered", !.answer = a]
    BY <1>4, <2>2 DEF Execute, Answered
  <2>4. call'.pc = "answered" /\ call'.answer = a
    BY <1>2, <2>3 DEF TypeOK
  <2>5. \A h \in Happenings : happened'[h] >= happened[h]
    BY <1>3, <2>1
  <2> QED
    BY <1>3, <2>1, <2>2, <2>4, <2>5, AnswersExecute
<1>5. CASE LoseAnswer
  <2>1. /\ call.pc = "sent" /\ ~PollAgain /\ Effect /\ Happens("lost")
        /\ UNCHANGED <<process, body, told, gaveUp, runs>>
    BY <1>5 DEF LoseAnswer
  <2>2. call'.pc = "answered" /\ call'.answer = "transient"
    BY <1>2, <1>5 DEF LoseAnswer, Answered, TypeOK
  <2>3. happened' \in [Happenings -> Nat] /\ \A h \in Happenings : happened'[h] >= happened[h]
    BY <1>3, <2>1, HappensCounts DEF Happenings
  <2> QED
    BY <2>1, <2>2, <2>3, AnswersExecute
<1>6. ASSUME UNCHANGED <<row, journal, body, told, gaveUp, runs>>,
             process' = "draining" => process = "draining" \/ happened'["shutdown"] > 0,
             happened' \in [Happenings -> Nat], \A h \in Happenings : happened'[h] >= happened[h],
             \/ call' = call
             \/ call'.pc = "sent" /\ call'.answer \in {None, call.answer}
             \/ call'.pc = "answered" /\ call'.answer \in {"transient", "fatal"}
      PROVE  Kept
  <2>1. /\ happened["rejected"] \in Nat /\ happened["shutdown"] \in Nat
        /\ happened'["rejected"] \in Nat /\ happened'["shutdown"] \in Nat
        /\ happened'["rejected"] >= happened["rejected"] /\ happened'["shutdown"] >= happened["shutdown"]
    BY <1>3, <1>6 DEF Happenings
  <2>2. \A k \in Step : Cause(k) => Cause(k)'
    BY <1>6, <2>1 DEF Cause
  <2>3. ErrorsCaused'
    BY <1>2, <1>6, <2>1, <2>2 DEF ErrorsCaused, TypeOK
  <2>4. JournalRead' /\ RowOpen'
    BY <1>2, <1>6 DEF JournalRead, RowOpen, Settled, Failed
  <2>5. OutcomeEarned' /\ ToldStays'
    BY <1>2, <1>6 DEF OutcomeEarned, ToldStays, AllOk, FailureEarned
  <2> QED
    BY <2>3, <2>4, <2>5
<1>7. CASE Poll \/ Retry
  <2>1. UNCHANGED <<row, journal, process, body, told, gaveUp, runs, happened>>
    BY <1>7 DEF Poll, Retry
  <2>2. call'.pc = "sent" /\ call'.answer \in {None, call.answer}
    BY <1>2, <1>7 DEF Poll, Retry, TypeOK
  <2>3. \A h \in Happenings : happened'[h] >= happened[h]
    BY <1>3, <2>1
  <2> QED
    BY <1>3, <1>6, <2>1, <2>2, <2>3
<1>8. CASE Fail
  <2>1. UNCHANGED <<row, journal, process, body, told, gaveUp, runs>>
    BY <1>8 DEF Fail
  <2>2. call'.pc = "answered" /\ call'.answer \in {"transient", "fatal"}
    BY <1>2, <1>8 DEF Fail, Answered, TypeOK
  <2>3. happened' \in [Happenings -> Nat] /\ \A h \in Happenings : happened'[h] >= happened[h]
    BY <1>3, <1>8, HappensCounts DEF Fail, Happenings
  <2> QED
    BY <1>6, <2>1, <2>2, <2>3
<1>9. CASE Shutdown
  <2>1. UNCHANGED <<row, journal, body, call, told, gaveUp, runs>> /\ Happens("shutdown")
    BY <1>9 DEF Shutdown
  <2>2. /\ happened' \in [Happenings -> Nat] /\ happened'["shutdown"] > 0
        /\ \A h \in Happenings : happened'[h] >= happened[h]
    BY <1>3, <2>1, HappensCounts DEF Happenings
  <2> QED
    BY <1>6, <2>1, <2>2
<1>10. ASSUME UNCHANGED <<row, journal, told, gaveUp, runs>>,
              process' # "draining", happened' \in [Happenings -> Nat],
              \A h \in Happenings : happened'[h] >= happened[h],
              body'.pc \in {"idle", "list", "insert"}, body'.step = 1, body'.runs <= runs[1],
              call'.answer = None
       PROVE  Kept
  <2>1. /\ happened["rejected"] \in Nat /\ happened["shutdown"] \in Nat
        /\ happened'["rejected"] \in Nat /\ happened'["shutdown"] \in Nat
        /\ happened'["rejected"] >= happened["rejected"] /\ happened'["shutdown"] >= happened["shutdown"]
    BY <1>3, <1>10 DEF Happenings
  <2>2. \A k \in Step : Cause(k) => Cause(k)'
    BY <1>10, <2>1 DEF Cause
  <2>4. ErrorsCaused'
    BY <1>2, <1>10, <2>2 DEF ErrorsCaused
  <2>5. JournalRead' /\ RowOpen'
    BY <1>10 DEF JournalRead, RowOpen, Working
  <2>6. OutcomeEarned' /\ ToldStays'
    BY <1>2, <1>10 DEF OutcomeEarned, ToldStays, AllOk, FailureEarned, Working
  <2> QED
    BY <2>4, <2>5, <2>6
<1>11. CASE Exit \/ Crash
  <2>1. UNCHANGED <<row, journal, told, gaveUp, runs>> /\ process' = "down"
    BY <1>11 DEF Exit, Crash, Stopped
  <2>2. body'.pc = "idle" /\ body'.step = 1 /\ body'.runs = 0 /\ call'.answer = None
    BY <1>11 DEF Exit, Crash, Stopped, Idle, NoCall
  <2>4. 1 \in Step /\ runs[1] \in Nat
    BY <1>2 DEF TypeOK, Step
  <2>3. happened' \in [Happenings -> Nat] /\ \A h \in Happenings : happened'[h] >= happened[h]
    BY <1>3, <1>11, HappensCounts DEF Exit, Crash, Happenings
  <2> QED
    BY <1>10, <2>1, <2>2, <2>3, <2>4
<1>12. CASE Submit \/ Launch
  <2>1. UNCHANGED <<row, journal, told, gaveUp, runs, happened>> /\ process' = "up"
    BY <1>12 DEF Submit, Launch
  <2>2. body.pc = "idle" /\ call'.answer = None
    BY <1>2, <1>12, Parts DEF Submit, Launch, TypeOK, BodyType
  <2>3. body'.pc \in {"list", "insert"} /\ body'.step = body.step /\ body'.runs = body.runs
    BY <1>2, <1>12, Parts DEF Submit, Launch, TypeOK, BodyType
  <2>4. body.step = 1 /\ body.runs <= runs[1]
    BY <1>2, <2>2 DEF JournalRead, ErrorsCaused
  <2>5. \A h \in Happenings : happened'[h] >= happened[h]
    BY <1>3, <2>1
  <2> QED
    BY <1>3, <1>10, <2>1, <2>2, <2>3, <2>4, <2>5
<1>13. CASE BodyStep
  BY <1>1, <1>13, AnswersBody
<1>14. CASE UNCHANGED vars
  <2>1. UNCHANGED <<row, journal, process, body, call, told, gaveUp, runs, happened>>
    BY <1>14 DEF vars
  <2>2. \A h \in Happenings : happened'[h] >= happened[h]
    BY <1>3, <2>1
  <2> QED
    BY <1>3, <1>6, <2>1, <2>2
<1> QED
  BY <1>4, <1>5, <1>7, <1>8, <1>9, <1>11, <1>12, <1>13, <1>14 DEF Next, Statement, Environment

\* What is told and recorded is true, kept, and has a cause.
THEOREM AnswersTrue == Spec => []AnswersAreTrue
<1>1. AnswersInv => AnswersAreTrue
  BY DEF AnswersInv, AnswersAreTrue, ToldStays, OutcomeEarned, ErrorsCaused, AllOk, FailureEarned, Cause
<1> QED
  BY <1>1, AnswersInit, AnswersStep, PTL DEF Spec

=============================================================================
