------------------------ MODULE Communication_proofs ------------------------
(***************************************************************************)
(* Theorems about Communication, for every application, every number of    *)
(* bodies and whatever happens to them.                                    *)
(***************************************************************************)
EXTENDS Communication, FiniteSetTheorems, SequenceTheorems, TLAPS

USE CommunicationAssumption DEF CommunicationAssumption

------------------------------------------------------------------------------
(* Types.                                                                  *)

\* The two halves of the type invariant.
Tables ==
    /\ program \in Programs
    /\ status \in [Workflow -> {"ABSENT", "PENDING", "SUCCESS", "ERROR", "CANCELLED"}]
    /\ journal \in [Workflow -> [Place -> Result]]
    /\ deadline \in [Workflow -> [Place -> {"none", "running", "past"}]]
    /\ inbox \in [Workflow -> Seq(Note)]
    /\ event \in [Workflow -> {0} \cup Place]
    /\ stream \in [Workflow -> Seq(Place)]
    /\ happened \in [Happenings -> Nat]

BodyOK(b) ==
    /\ b \in Body
    /\ b.pc # "free" => b.wf \in Workflow /\ b.pos \in DOMAIN program[b.wf]
    /\ b.pc = "record" => b.val # Missing
    /\ b.pc = "check" => program[b.wf][b.pos].op # "sleep"
    /\ b.pc = "consume" => b.val.kind = "message" /\ b.val.id \in DOMAIN inbox[b.wf]

Bodies ==
    /\ body \in [Run -> Body]
    /\ \A r \in Run : BodyOK(body[r])
    /\ stopping \subseteq {r \in Run : body[r].pc # "free"}

\* The types are those of the tables and those of the bodies.
LEMMA Halves == TypeOK <=> Tables /\ Bodies
  BY DEF TypeOK, Tables, Bodies, BodyOK, At

\* A workflow of the application has operations, and no more than Longest.
LEMMA ProgramType ==
    ASSUME program \in Programs, NEW w \in Workflow
    PROVE  /\ program[w] \in Seq(Operation)
           /\ Len(program[w]) \in 1..Longest
           /\ DOMAIN program[w] = 1..Len(program[w])
           /\ DOMAIN program[w] \subseteq Place
<1>1. program[w] \in Seq(Operation) /\ program[w] # << >>
  OBVIOUS
<1>2. Len(program[w]) \in Nat /\ Len(program[w]) # 0 /\ DOMAIN program[w] = 1..Len(program[w])
  BY <1>1
<1>3. Len(program[w]) <= Longest
  OBVIOUS
<1> QED
  BY <1>1, <1>2, <1>3 DEF Place

\* The operation a body is at.
LEMMA AtType ==
    ASSUME program \in Programs, NEW r \in Run, BodyOK(body[r]), body[r].pc # "free"
    PROVE  /\ At(r) \in Operation
           /\ At(r).op \in {"send", "getEvent"} => At(r).with \in Workflow
<1>1. body[r].wf \in Workflow /\ body[r].pos \in DOMAIN program[body[r].wf]
  BY DEF BodyOK
<1>2. program[body[r].wf] \in Seq(Operation)
  BY <1>1, ProgramType
<1> QED
  BY <1>1, <1>2 DEF At

\* Where operations begin and go on.
LEMMA EntryType ==
    ASSUME NEW o \in Operation
    PROVE  /\ Entry(o) \in {"check", "deadline"}
           /\ Entry(o) = "check" => o.op # "sleep"
           /\ o.op # "sleep" => Act(o) \in {"act", "deadline", "probe"}
  BY DEF Entry, Act, Operation

\* Fields of a changed body.
LEMMA BodyFields ==
    ASSUME NEW b \in Body, NEW p \in PC, NEW v \in Result
    PROVE  /\ [b EXCEPT !.pc = p] \in Body
           /\ [b EXCEPT !.pc = p].pc = p
           /\ [b EXCEPT !.pc = p].wf = b.wf
           /\ [b EXCEPT !.pc = p].pos = b.pos
           /\ [b EXCEPT !.pc = p].val = b.val
           /\ [b EXCEPT !.pc = p, !.val = v] \in Body
           /\ [b EXCEPT !.pc = p, !.val = v].pc = p
           /\ [b EXCEPT !.pc = p, !.val = v].wf = b.wf
           /\ [b EXCEPT !.pc = p, !.val = v].pos = b.pos
           /\ [b EXCEPT !.pc = p, !.val = v].val = v
  BY DEF Body

\* Results.
LEMMA PlainType ==
    /\ \A k \in {"none", "ok", "timeout", "noDestination"} : Plain(k) \in Result
    /\ Missing \in Result
    /\ Plain("ok") # Missing /\ Plain("timeout") # Missing /\ Plain("noDestination") # Missing
  BY DEF Plain, Missing, Result

\* A body that advances stays at an operation, or ends at the last one.
LEMMA AdvanceType ==
    ASSUME program \in Programs, NEW b \in Body, NEW v \in Result,
           b.wf \in Workflow, b.pos \in DOMAIN program[b.wf]
    PROVE  LET y == Advance(b, v)
           IN  /\ y \in Body
               /\ y.wf = b.wf
               /\ y.val = Missing
               /\ y.pc \in {"failed", "finished", "check", "deadline"}
               /\ y.pos \in DOMAIN program[b.wf]
               /\ y.pos \in {b.pos, b.pos + 1}
               /\ y.pc = "check" => program[b.wf][y.pos].op # "sleep"
               /\ y.pc = "finished" => b.pos = Len(program[b.wf])
<1> DEFINE n == Len(program[b.wf])
           next == Entry(program[b.wf][b.pos + 1])
           y1 == [b EXCEPT !.pc = "failed", !.val = Missing]
           y2 == [b EXCEPT !.pc = "finished", !.val = Missing]
           y3 == [b EXCEPT !.pc = next, !.pos = @ + 1, !.val = Missing]
<1>1. /\ n \in 1..Longest /\ DOMAIN program[b.wf] = 1..n /\ DOMAIN program[b.wf] \subseteq Place
      /\ program[b.wf] \in Seq(Operation)
  BY ProgramType
<1>2. Missing \in Result /\ "failed" \in PC /\ "finished" \in PC
  BY PlainType DEF PC
<1>3. b.pos \in 1..n
  BY <1>1
<1>4. CASE v.kind = "noDestination"
  <2>1. Advance(b, v) = y1
    BY <1>4 DEF Advance
  <2>2. y1 \in Body /\ y1.wf = b.wf /\ y1.val = Missing /\ y1.pc = "failed" /\ y1.pos = b.pos
    BY <1>2 DEF Body
  <2> HIDE DEF y1
  <2> QED
    BY <2>1, <2>2, <1>1
<1>5. CASE v.kind # "noDestination" /\ b.pos = n
  <2>1. Advance(b, v) = y2
    BY <1>5 DEF Advance
  <2>2. y2 \in Body /\ y2.wf = b.wf /\ y2.val = Missing /\ y2.pc = "finished" /\ y2.pos = b.pos
    BY <1>2 DEF Body
  <2> HIDE DEF y2
  <2> QED
    BY <2>1, <2>2, <1>1, <1>5
<1>6. CASE v.kind # "noDestination" /\ b.pos # n
  <2>1. Advance(b, v) = y3
    BY <1>6 DEF Advance
  <2>2. b.pos + 1 \in 1..n
    BY <1>6, <1>3, <1>1
  <2>3. next \in {"check", "deadline"} /\ next \in PC /\ (next = "check" => program[b.wf][b.pos + 1].op # "sleep")
    BY <2>2, <1>1, EntryType DEF PC
  <2>4. b.pos + 1 \in Place
    BY <2>2, <1>1
  <2> HIDE DEF next
  <2>5. y3 \in Body /\ y3.wf = b.wf /\ y3.val = Missing /\ y3.pc = next /\ y3.pos = b.pos + 1
    BY <1>2, <2>3, <2>4 DEF Body
  <2> HIDE DEF y3
  <2> QED
    BY <2>1, <2>2, <2>3, <2>5, <1>1
<1> QED
  BY <1>4, <1>5, <1>6

\* One body changes, and no inbox gets shorter.
LEMMA BodyChange ==
    ASSUME Bodies, NEW r \in Run, NEW y \in Body,
           y.pc # "free" => y.wf \in Workflow /\ y.pos \in DOMAIN program[y.wf],
           y.pc = "record" => y.val # Missing,
           y.pc = "check" => program[y.wf][y.pos].op # "sleep",
           y.pc = "consume" => y.val.kind = "message" /\ y.val.id \in DOMAIN inbox[y.wf],
           body' = [body EXCEPT ![r] = y],
           program' = program,
           \A w \in Workflow : DOMAIN inbox[w] \subseteq DOMAIN inbox'[w],
           stopping' \subseteq stopping,
           y.pc = "free" => r \notin stopping'
    PROVE  Bodies'
<1>1. body' \in [Run -> Body] /\ body'[r] = y /\ \A s \in Run \ {r} : body'[s] = body[s]
  BY DEF Bodies
<1>2. ASSUME NEW s \in Run PROVE BodyOK(body[s])'
  <2>1. CASE s = r
    BY <1>1, <2>1 DEF BodyOK
  <2>2. CASE s # r
    <3>1. body'[s] = body[s] /\ BodyOK(body[s])
      BY <1>1, <2>2 DEF Bodies
    <3>2. body[s].pc = "consume" => body[s].wf \in Workflow
      BY <3>1 DEF BodyOK
    <3> QED
      BY <3>1, <3>2 DEF BodyOK
  <2> QED
    BY <2>1, <2>2
<1>3. stopping' \subseteq {s \in Run : body'[s].pc # "free"}
  BY <1>1 DEF Bodies
<1> QED
  BY <1>1, <1>2, <1>3 DEF Bodies

\* The results of recv and get_event, and the free slot, are results and bodies.
LEMMA MoreTypes ==
    /\ \A n \in Nat \ {0} : [kind |-> "message", id |-> n] \in Result
    /\ \A n \in Nat : [kind |-> "event", id |-> n] \in Result
    /\ \A n \in Nat : [kind |-> "message", id |-> n] # Missing /\ [kind |-> "event", id |-> n] # Missing
    /\ Free \in Body /\ Free.pc = "free"
<1>1. \A n \in Nat : [kind |-> "message", id |-> n] # Missing /\ [kind |-> "event", id |-> n] # Missing
  <2>1. \A n \in Nat : [kind |-> "message", id |-> n].kind # Missing.kind /\ [kind |-> "event", id |-> n].kind # Missing.kind
    BY DEF Missing, Plain
  <2> QED
    BY <2>1
<1>2. Free \in Body /\ Free.pc = "free"
  BY PlainType DEF Free, Body, PC, Place
<1> QED
  BY <1>1, <1>2 DEF Result

\* One value of a function on workflows changes.
LEMMA Replaced ==
    ASSUME NEW S, NEW f \in [Workflow -> S], NEW w \in Workflow, NEW x \in S
    PROVE  /\ [f EXCEPT ![w] = x] \in [Workflow -> S]
           /\ [f EXCEPT ![w] = x][w] = x
           /\ \A v \in Workflow \ {w} : [f EXCEPT ![w] = x][v] = f[v]
  OBVIOUS

\* A message is delivered.
LEMMA DeliverType ==
    ASSUME Tables, NEW w \in Workflow, NEW f \in Workflow \cup {None}, NEW i \in Nat, Deliver(w, f, i)
    PROVE  /\ inbox' \in [Workflow -> Seq(Note)]
           /\ \A v \in Workflow : /\ DOMAIN inbox[v] \subseteq DOMAIN inbox'[v]
                                  /\ \A n \in DOMAIN inbox[v] : inbox'[v][n] = inbox[v][n]
<1>1. PICK t \in Time : inbox' = [inbox EXCEPT ![w] = Append(@, [from |-> f, pos |-> i, at |-> t, consumed |-> FALSE])]
  BY DEF Deliver
<1> DEFINE m == [from |-> f, pos |-> i, at |-> t, consumed |-> FALSE]
<1>2. m \in Note
  BY DEF Note
<1> HIDE DEF m
<1>3. inbox' = [inbox EXCEPT ![w] = Append(inbox[w], m)]
  BY <1>1 DEF m
<1>4. inbox[w] \in Seq(Note) /\ Append(inbox[w], m) \in Seq(Note)
  BY <1>2 DEF Tables
<1>5. /\ DOMAIN inbox[w] \subseteq DOMAIN Append(inbox[w], m)
      /\ \A n \in DOMAIN inbox[w] : Append(inbox[w], m)[n] = inbox[w][n]
  BY <1>2, <1>4
<1> QED
  BY <1>3, <1>4, <1>5 DEF Tables

\* A message is consumed.
LEMMA ConsumeType ==
    ASSUME Tables, NEW w \in Workflow, NEW k \in DOMAIN inbox[w],
           inbox' = [inbox EXCEPT ![w] = [inbox[w] EXCEPT ![k] = [inbox[w][k] EXCEPT !.consumed = TRUE]]]
    PROVE  /\ inbox' \in [Workflow -> Seq(Note)]
           /\ inbox'[w][k].consumed
           /\ \A v \in Workflow : /\ DOMAIN inbox[v] = DOMAIN inbox'[v]
                                  /\ \A n \in DOMAIN inbox[v] : inbox[v][n].consumed => inbox'[v][n].consumed
<1> DEFINE m == [inbox[w][k] EXCEPT !.consumed = TRUE]
           b == [inbox[w] EXCEPT ![k] = m]
<1>1. inbox[w] \in Seq(Note) /\ inbox[w][k] \in Note
  BY DEF Tables
<1>2. m \in Note /\ m.consumed
  BY <1>1 DEF Note
<1> HIDE DEF m
<1>3. b \in Seq(Note) /\ DOMAIN b = DOMAIN inbox[w] /\ b[k] = m /\ \A n \in DOMAIN b \ {k} : b[n] = inbox[w][n]
  BY <1>1, <1>2
<1>4. inbox' = [inbox EXCEPT ![w] = b]
  BY DEF b, m
<1> HIDE DEF b
<1>5. /\ inbox' \in [Workflow -> Seq(Note)] /\ inbox'[w] = b
      /\ \A v \in Workflow \ {w} : inbox'[v] = inbox[v]
  <2> DEFINE S == Seq(Note)
  <2>1. inbox \in [Workflow -> S] /\ b \in S
    BY <1>3 DEF Tables
  <2> HIDE DEF S
  <2>2. inbox' \in [Workflow -> S] /\ inbox'[w] = b /\ \A v \in Workflow \ {w} : inbox'[v] = inbox[v]
    <3>1. [inbox EXCEPT ![w] = b] \in [Workflow -> S]
      BY <2>1
    <3>2. [inbox EXCEPT ![w] = b][w] = b
      BY <2>1
    <3>3. \A v \in Workflow \ {w} : [inbox EXCEPT ![w] = b][v] = inbox[v]
      BY <2>1
    <3> QED
      BY <3>1, <3>2, <3>3, <1>4
  <2> QED
    BY <2>2 DEF S
<1>6. ASSUME NEW v \in Workflow
      PROVE  /\ DOMAIN inbox[v] = DOMAIN inbox'[v]
             /\ \A n \in DOMAIN inbox[v] : inbox[v][n].consumed => inbox'[v][n].consumed
  <2>1. CASE v = w
    <3>1. inbox'[v] = b /\ DOMAIN b = DOMAIN inbox[v]
      BY <1>3, <1>5, <2>1
    <3>2. ASSUME NEW n \in DOMAIN inbox[v], inbox[v][n].consumed PROVE b[n].consumed
      <4>1. CASE n = k
        BY <1>2, <1>3, <4>1
      <4>2. CASE n # k
        BY <1>3, <3>1, <3>2, <2>1, <4>2
      <4> QED
        BY <4>1, <4>2
    <3> QED
      BY <3>1, <3>2
  <2>2. CASE v # w
    BY <1>5, <2>2
  <2> QED
    BY <2>1, <2>2
<1>7. inbox'[w][k].consumed
  BY <1>2, <1>3, <1>5
<1> QED
  BY <1>5, <1>6, <1>7

\* A body goes on without a result,
LEMMA GotoType ==
    ASSUME Bodies, NEW r \in Run, body[r].pc # "free",
           NEW p \in PC \ {"free", "check", "record", "consume"},
           Goto(r, p), UNCHANGED <<program, inbox, stopping>>
    PROVE  Bodies'
<1> DEFINE y == [body[r] EXCEPT !.pc = p]
<1>1. body[r] \in Body /\ body[r].wf \in Workflow /\ body[r].pos \in DOMAIN program[body[r].wf]
  BY DEF Bodies, BodyOK
<1>2. y \in Body /\ y.pc = p /\ y.wf = body[r].wf /\ y.pos = body[r].pos
  BY <1>1 DEF Body
<1>3. body' = [body EXCEPT ![r] = y]
  BY DEF Goto
<1> HIDE DEF y
<1> QED
  BY <1>1, <1>2, <1>3, BodyChange

\* has something to record,
LEMMA RecordingType ==
    ASSUME Bodies, NEW r \in Run, body[r].pc # "free", NEW v \in Result, v # Missing,
           body' = [body EXCEPT ![r].pc = "record", ![r].val = v], program' = program, stopping' = stopping,
           \A w \in Workflow : DOMAIN inbox[w] \subseteq DOMAIN inbox'[w]
    PROVE  Bodies'
<1> DEFINE y == [body[r] EXCEPT !.pc = "record", !.val = v]
<1>1. body[r] \in Body /\ body[r].wf \in Workflow /\ body[r].pos \in DOMAIN program[body[r].wf]
  BY DEF Bodies, BodyOK
<1>2. y \in Body /\ y.pc = "record" /\ y.val = v /\ y.wf = body[r].wf /\ y.pos = body[r].pos
  BY <1>1 DEF Body, PC
<1>3. body' = [body EXCEPT ![r] = y]
  BY <1>1 DEF Bodies
<1> HIDE DEF y
<1> QED
  BY <1>1, <1>2, <1>3, BodyChange

\* or advances.
LEMMA AdvancingType ==
    ASSUME Bodies, program \in Programs, NEW r \in Run, body[r].pc # "free", NEW v \in Result,
           body' = [body EXCEPT ![r] = Advance(@, v)], UNCHANGED <<program, inbox, stopping>>
    PROVE  Bodies'
<1> DEFINE y == Advance(body[r], v)
<1>1. body[r] \in Body /\ body[r].wf \in Workflow /\ body[r].pos \in DOMAIN program[body[r].wf]
  BY DEF Bodies, BodyOK
<1>2. /\ y \in Body /\ y.wf = body[r].wf /\ y.pc \in {"failed", "finished", "check", "deadline"}
      /\ y.pos \in DOMAIN program[body[r].wf]
      /\ y.pc = "check" => program[body[r].wf][y.pos].op # "sleep"
  BY <1>1, AdvanceType
<1>3. body' = [body EXCEPT ![r] = y]
  OBVIOUS
<1> HIDE DEF y
<1> QED
  BY <1>1, <1>2, <1>3, BodyChange

\* The facts about a body in progress that the next lemmas start from.
LEMMA InProgressType ==
    ASSUME TypeOK, NEW r \in Run, body[r].pc # "free"
    PROVE  /\ Tables /\ Bodies /\ program \in Programs
           /\ body[r] \in Body /\ body[r].wf \in Workflow /\ body[r].pos \in Place /\ body[r].val \in Result
           /\ body[r].pos \in DOMAIN program[body[r].wf]
           /\ At(r) \in Operation
           /\ At(r).op \in {"send", "getEvent"} => At(r).with \in Workflow
           /\ body[r].pc = "check" => At(r).op # "sleep"
           /\ body[r].pc = "record" => body[r].val # Missing
           /\ body[r].pc = "consume" => body[r].val.kind = "message" /\ body[r].val.id \in DOMAIN inbox[body[r].wf]
<1>1. Tables /\ Bodies /\ program \in Programs
  BY Halves DEF Tables
<1>2. BodyOK(body[r]) /\ body[r] \in Body
  BY <1>1 DEF Bodies
<1>3. body[r].wf \in Workflow /\ body[r].pos \in Place /\ body[r].val \in Result
  BY <1>2 DEF BodyOK, Body
<1>4. /\ At(r) \in Operation
      /\ At(r).op \in {"send", "getEvent"} => At(r).with \in Workflow
  BY <1>1, <1>2, AtType
<1> QED
  BY <1>1, <1>2, <1>3, <1>4 DEF BodyOK, At

\* The tables keep their types in a step that leaves them alone.
LEMMA TablesKept ==
    ASSUME Tables, UNCHANGED <<program, status, journal, deadline, inbox, event, stream, happened>>
    PROVE  Tables'
  BY DEF Tables

\* What every step of a body does to the types.
LEMMA BodyStepType ==
    ASSUME TypeOK, NEW r \in Run, BodyStep(r)
    PROVE  TypeOK'
<1> USE DEF tables
<1>0. body[r].pc # "free"
  BY DEF BodyStep, Check, Record, CheckDeadline, RecordDeadline, Wait, Send, Select, Consume, SetEvent,
         GetEvent, Probe, AppendEntry, Finish, AwaitOutcome
<1> DEFINE w == body[r].wf
           i == body[r].pos
<1>1. /\ Tables /\ Bodies /\ program \in Programs
      /\ body[r] \in Body /\ w \in Workflow /\ i \in Place /\ body[r].val \in Result
      /\ i \in DOMAIN program[w]
      /\ At(r) \in Operation
      /\ At(r).op \in {"send", "getEvent"} => At(r).with \in Workflow
      /\ body[r].pc = "check" => At(r).op # "sleep"
      /\ body[r].pc = "record" => body[r].val # Missing
      /\ body[r].pc = "consume" => body[r].val.kind = "message" /\ body[r].val.id \in DOMAIN inbox[w]
  BY <1>0, InProgressType
<1> SUFFICES Tables' /\ Bodies'
  BY Halves, PTL
<1> USE <1>0, <1>1
<1>2. CASE Check(r)
  <2>0. UNCHANGED <<program, status, journal, deadline, inbox, event, stream, stopping, happened>>
    BY <1>2 DEF Check
  <2>1. Tables'
    BY <2>0, TablesKept
  <2>2. CASE status[w] = "CANCELLED"
    <3>1. Goto(r, "failed")
      BY <1>2, <2>2 DEF Check
    <3> QED
      BY <2>0, <2>1, <3>1, GotoType DEF PC
  <2>3. CASE status[w] # "CANCELLED" /\ journal[w][i] # Missing
    <3>1. body' = [body EXCEPT ![r] = Advance(@, journal[w][i])]
      BY <1>2, <2>3 DEF Check
    <3>2. journal[w][i] \in Result
      BY DEF Tables
    <3> QED
      BY <2>0, <2>1, <3>1, <3>2, AdvancingType
  <2>4. CASE status[w] # "CANCELLED" /\ journal[w][i] = Missing
    <3>1. Act(At(r)) \in {"act", "deadline", "probe"}
      BY <1>2, EntryType DEF Check
    <3>2. Goto(r, Act(At(r)))
      BY <1>2, <2>4 DEF Check
    <3> QED
      BY <2>0, <2>1, <3>1, <3>2, GotoType DEF PC
  <2> QED
    BY <2>2, <2>3, <2>4
<1>3. CASE Record(r)
  <2>1. CASE journal[w][i] = Missing
    <3> DEFINE v == body[r].val
    <3>0. /\ journal' = [journal EXCEPT ![w] = [journal[w] EXCEPT ![i] = v]]
          /\ UNCHANGED <<program, status, deadline, inbox, event, stream, happened>>
      BY <1>3, <2>1 DEF Record
    <3>a. journal' \in [Workflow -> [Place -> Result]]
      <4>1. [journal[w] EXCEPT ![i] = v] \in [Place -> Result]
        BY DEF Tables
      <4> QED
        BY <3>0, <4>1, Replaced DEF Tables
    <3>1. Tables'
      BY <3>0, <3>a DEF Tables
    <3>2. Bodies'
      BY <1>3, <2>1, AdvancingType DEF Record
    <3> QED
      BY <3>1, <3>2
  <2>2. CASE journal[w][i] # Missing
    <3>1. Tables'
      BY <1>3, <2>2 DEF Record, Tables
    <3>2. Bodies'
      BY <1>3, <2>2, GotoType DEF Record, PC
    <3> QED
      BY <3>1, <3>2
  <2> QED
    BY <2>1, <2>2
<1>4. CASE CheckDeadline(r)
  <2>0. UNCHANGED <<program, status, journal, deadline, inbox, event, stream, stopping, happened>>
    BY <1>4 DEF CheckDeadline
  <2>1. PICK p \in {"failed", "setDeadline", "wait"} : Goto(r, p)
    BY <1>4 DEF CheckDeadline
  <2> QED
    BY <2>0, <2>1, TablesKept, GotoType DEF PC
<1>5. CASE RecordDeadline(r)
  <2> DEFINE D == {"none", "running", "past"}
           d == [deadline[w] EXCEPT ![i] = "running"]
  <2>0. /\ \/ deadline' = [deadline EXCEPT ![w] = d]
           \/ deadline' = deadline
        /\ UNCHANGED <<program, status, journal, inbox, event, stream, happened>>
    BY <1>5 DEF RecordDeadline
  <2>a. deadline' \in [Workflow -> [Place -> D]]
    <3>1. d \in [Place -> D] /\ deadline \in [Workflow -> [Place -> D]]
      BY DEF Tables
    <3> HIDE DEF d, D
    <3>2. [deadline EXCEPT ![w] = d] \in [Workflow -> [Place -> D]]
      BY <3>1
    <3> QED
      BY <2>0, <3>1, <3>2
  <2>1. Tables'
    BY <2>0, <2>a DEF Tables
  <2>2. Bodies'
    BY <1>5, GotoType DEF RecordDeadline, PC
  <2> QED
    BY <2>1, <2>2
<1>6. CASE Wait(r)
  <2>1. Tables'
    BY <1>6 DEF Wait, Tables
  <2>2. CASE At(r).op = "sleep"
    <3>1. Plain("ok") \in Result
      BY PlainType
    <3> QED
      BY <1>6, <2>1, <2>2, <3>1, AdvancingType DEF Wait
  <2>3. CASE At(r).op # "sleep"
    BY <1>6, <2>1, <2>3, GotoType DEF Wait, PC
  <2> QED
    BY <2>2, <2>3
<1>7. CASE Send(r)
  <2> DEFINE dest == At(r).with
  <2>0. dest \in Workflow
    BY <1>7 DEF Send
  <2>1. CASE status[dest] = "ABSENT"
    <3>1. Tables'
      BY <1>7, <2>1 DEF Send, Tables
    <3>2. Plain("noDestination") \in Result /\ Plain("noDestination") # Missing
      BY PlainType
    <3>3. Bodies'
      BY <1>7, <2>1, <3>2, RecordingType DEF Send
    <3> QED
      BY <3>1, <3>3
  <2>2. CASE status[dest] # "ABSENT"
    <3>0. Deliver(dest, w, i) /\ i \in Nat
      BY <1>7, <2>2 DEF Send, Place
    <3>1. /\ inbox' \in [Workflow -> Seq(Note)]
          /\ \A v \in Workflow : DOMAIN inbox[v] \subseteq DOMAIN inbox'[v]
      BY <2>0, <3>0, DeliverType
    <3>2. Tables'
      BY <1>7, <3>1 DEF Send, Tables
    <3>3. Plain("ok") \in Result /\ Plain("ok") # Missing
      BY PlainType
    <3>4. Bodies'
      BY <1>7, <2>2, <3>1, <3>3, RecordingType DEF Send
    <3> QED
      BY <3>2, <3>4
  <2> QED
    BY <2>1, <2>2
<1>8. CASE Select(r)
  <2>1. Tables'
    BY <1>8 DEF Select, Tables
  <2>2. CASE Unconsumed(w) = {}
    <3>1. Plain("timeout") \in Result /\ Plain("timeout") # Missing
      BY PlainType
    <3> QED
      BY <1>8, <2>1, <2>2, <3>1, RecordingType DEF Select
  <2>3. CASE Unconsumed(w) # {}
    <3>1. PICK n \in Oldest(w) :
            body' = [body EXCEPT ![r].pc = "consume", ![r].val = [kind |-> "message", id |-> n]]
      BY <1>8, <2>3 DEF Select
    <3>2. n \in DOMAIN inbox[w] /\ inbox[w] \in Seq(Note)
      BY DEF Oldest, Unconsumed, Tables
    <3>3. n \in Nat \ {0}
      BY <3>2
    <3> DEFINE v == [kind |-> "message", id |-> n]
               y == [body[r] EXCEPT !.pc = "consume", !.val = v]
    <3>4. v \in Result /\ v.kind = "message" /\ v.id = n
      BY <3>3, MoreTypes
    <3>5. body' = [body EXCEPT ![r] = y]
      BY <3>1 DEF Bodies
    <3> HIDE DEF v
    <3>6. y \in Body /\ y.pc = "consume" /\ y.wf = w /\ y.pos = i /\ y.val = v
      BY <3>4 DEF Body, PC
    <3> HIDE DEF y
    <3> QED
      BY <1>8, <2>1, <3>2, <3>4, <3>5, <3>6, BodyChange DEF Select
  <2> QED
    BY <2>2, <2>3
<1>9. CASE Consume(r)
  <2> DEFINE k == body[r].val.id
             y == [body[r] EXCEPT !.pc = "record"]
  <2>1. k \in DOMAIN inbox[w] /\ body[r].val # Missing
    BY <1>9, MoreTypes DEF Consume, Missing, Plain
  <2>2. inbox' = [inbox EXCEPT ![w] = [inbox[w] EXCEPT ![k] = [inbox[w][k] EXCEPT !.consumed = TRUE]]]
    BY <1>9 DEF Consume
  <2>3. /\ inbox' \in [Workflow -> Seq(Note)]
        /\ \A v \in Workflow : DOMAIN inbox[v] \subseteq DOMAIN inbox'[v]
    BY <2>1, <2>2, ConsumeType
  <2>4. Tables'
    BY <1>9, <2>3 DEF Consume, Tables
  <2>5. body' = [body EXCEPT ![r] = y]
    BY <1>9 DEF Consume, Goto, Bodies
  <2>6. y \in Body /\ y.pc = "record" /\ y.wf = w /\ y.pos = i /\ y.val = body[r].val
    BY DEF Body, PC
  <2>7. UNCHANGED <<program, stopping>>
    BY <1>9 DEF Consume
  <2> HIDE DEF y
  <2>8. Bodies'
    BY <2>1, <2>3, <2>5, <2>6, <2>7, BodyChange
  <2> QED
    BY <2>4, <2>8
<1>10. CASE SetEvent(r)
  <2>1. Tables'
    BY <1>10 DEF SetEvent, Tables
  <2>2. Plain("ok") \in Result /\ Plain("ok") # Missing
    BY PlainType
  <2>3. Bodies'
    BY <1>10, <2>2, RecordingType DEF SetEvent
  <2> QED
    BY <2>1, <2>3
<1>11. CASE GetEvent(r)
  <2>1. Tables'
    BY <1>11 DEF GetEvent, Tables
  <2> DEFINE v == [kind |-> "event", id |-> event[At(r).with]]
  <2>2. event[At(r).with] \in Nat
    BY <1>11 DEF GetEvent, Tables, Place
  <2>3. v \in Result /\ v # Missing
    BY <2>2, MoreTypes
  <2>4. body' = [body EXCEPT ![r].pc = "record", ![r].val = v]
    BY <1>11 DEF GetEvent
  <2> HIDE DEF v
  <2>5. Bodies'
    BY <1>11, <2>3, <2>4, RecordingType DEF GetEvent
  <2> QED
    BY <2>1, <2>5
<1>12. CASE Probe(r)
  <2>0. UNCHANGED <<program, status, journal, deadline, inbox, event, stream, stopping, happened>>
    BY <1>12 DEF Probe
  <2>1. PICK p \in {"failed", "append"} : Goto(r, p)
    BY <1>12 DEF Probe
  <2> QED
    BY <2>0, <2>1, TablesKept, GotoType DEF PC
<1>13. CASE AppendEntry(r)
  <2> DEFINE rivals == {s \in Run \ {r} : body[s].pc = "append" /\ body[s].wf = body[r].wf}
             y == [body[r] EXCEPT !.pc = "record", !.val = Plain("ok")]
             z(s) == [body[s] EXCEPT !.pc = "failed"]
  <2>0. UNCHANGED <<program, status, journal, deadline, inbox, event, stopping, happened>> /\ Appended(r)
    BY <1>13 DEF AppendEntry
  <2>1. PICK collide \in SUBSET rivals :
          body' = [s \in Run |-> IF s = r THEN y ELSE IF s \in collide THEN z(s) ELSE body[s]]
    BY <1>13 DEF AppendEntry
  <2>2. stream' \in [Workflow -> Seq(Place)]
    BY <2>0 DEF Appended, Tables
  <2>3. Tables'
    BY <2>0, <2>2 DEF Tables
  <2>4. y \in Body /\ y.pc = "record" /\ y.val # Missing /\ y.wf = w /\ y.pos = i
    BY PlainType DEF Body, PC
  <2>5. ASSUME NEW s \in collide
        PROVE  z(s) \in Body /\ z(s).pc = "failed" /\ z(s).wf = body[s].wf /\ z(s).pos = body[s].pos
    BY DEF Bodies, Body, PC
  <2> HIDE DEF y, z
  <2>6. body' \in [Run -> Body]
    BY <2>1, <2>4, <2>5 DEF Bodies
  <2>7. ASSUME NEW s \in Run PROVE BodyOK(body[s])' /\ (body[s].pc # "free" => body'[s].pc # "free")
    <3>1. BodyOK(body[s])
      BY DEF Bodies
    <3>2. CASE s = r
      <4>1. body'[s] = y
        BY <2>1, <3>2
      <4> QED
        BY <2>0, <2>4, <4>1 DEF BodyOK
    <3>3. CASE s # r /\ s \in collide
      <4>1. body'[s] = z(s) /\ body[s].pc = "append"
        BY <2>1, <3>3
      <4> QED
        BY <2>0, <2>5, <3>1, <3>3, <4>1 DEF BodyOK
    <3>4. CASE s # r /\ s \notin collide
      <4>1. body'[s] = body[s]
        BY <2>1, <3>4
      <4> QED
        BY <2>0, <3>1, <4>1 DEF BodyOK
    <3> QED
      BY <3>2, <3>3, <3>4
  <2>8. Bodies'
    BY <2>0, <2>6, <2>7 DEF Bodies
  <2> QED
    BY <2>3, <2>8
<1>14. CASE Finish(r) \/ AwaitOutcome(r)
  <2>1. Tables'
    BY <1>14 DEF Finish, AwaitOutcome, Tables
  <2>2. Bodies'
    BY <1>14, MoreTypes, BodyChange DEF Finish, AwaitOutcome
  <2> QED
    BY <2>1, <2>2
<1> QED
  BY <1>2, <1>3, <1>4, <1>5, <1>6, <1>7, <1>8, <1>9, <1>10, <1>11, <1>12, <1>13, <1>14 DEF BodyStep

\* A happening is counted.
LEMMA HappensType ==
    ASSUME happened \in [Happenings -> Nat], NEW h \in Happenings, Happens(h)
    PROVE  happened' \in [Happenings -> Nat]
  BY DEF Happens

\* A slot is emptied.
LEMMA FreedType ==
    ASSUME Bodies, NEW r \in Run, body' = [body EXCEPT ![r] = Free], stopping' = stopping \ {r},
           UNCHANGED <<program, inbox>>
    PROVE  Bodies'
<1>1. Free \in Body /\ Free.pc = "free"
  BY MoreTypes
<1> QED
  BY <1>1, BodyChange

\* What every other step does to the types.
LEMMA EventStepType ==
    ASSUME TypeOK, NEW r \in Run, Crash(r) \/ Shutdown(r)
    PROVE  TypeOK'
<1> USE DEF tables
<1>0. Tables /\ Bodies /\ Free.pc = "free" /\ UNCHANGED <<program, status, journal, deadline, inbox, event, stream>>
  BY Halves, MoreTypes DEF Crash, Shutdown
<1>1. happened' \in [Happenings -> Nat]
  BY <1>0, HappensType DEF Crash, Shutdown, Happenings, Tables
<1>2. Tables'
  BY <1>0, <1>1 DEF Tables
<1>3. CASE Crash(r)
  <2>1. Bodies'
    BY <1>0, <1>3, FreedType DEF Crash
  <2> QED
    BY <1>2, <2>1, Halves, PTL
<1>4. CASE Shutdown(r)
  <2>1. body' = body /\ stopping' = stopping \cup {r}
    BY <1>4 DEF Shutdown
  <2>2. \A s \in Run : BodyOK(body[s])'
    BY <1>0, <2>1 DEF Bodies, BodyOK
  <2>3. body[r].pc # "free"
    BY <1>4 DEF Shutdown
  <2>4. Bodies'
    BY <1>0, <2>1, <2>2, <2>3 DEF Bodies
  <2> QED
    BY <1>2, <2>4, Halves, PTL
<1> QED
  BY <1>3, <1>4

\* So do they when a workflow is cancelled or sent to, or time passes for it.
LEMMA WorkflowStepType ==
    ASSUME TypeOK, NEW w \in Workflow, NEW i \in Place, Cancel(w) \/ SendFromOutside(w) \/ Pass(w, i)
    PROVE  TypeOK'
<1> USE DEF tables
<1>0. Tables /\ Bodies /\ UNCHANGED <<program, journal, event, stream, body, stopping>>
  BY Halves DEF Cancel, SendFromOutside, Pass
<1>1. happened' \in [Happenings -> Nat]
  BY <1>0, HappensType DEF Cancel, SendFromOutside, Pass, Happenings, Tables
<1>2. status' \in [Workflow -> {"ABSENT", "PENDING", "SUCCESS", "ERROR", "CANCELLED"}]
  BY <1>0 DEF Cancel, SendFromOutside, Pass, Tables
<1>3. /\ inbox' \in [Workflow -> Seq(Note)]
      /\ \A v \in Workflow : DOMAIN inbox[v] \subseteq DOMAIN inbox'[v]
  <2>1. CASE SendFromOutside(w)
    <3>1. Deliver(w, None, 0)
      BY <2>1 DEF SendFromOutside
    <3> QED
      BY <1>0, <3>1, DeliverType
  <2>2. CASE ~SendFromOutside(w)
    <3>1. inbox' = inbox
      BY <2>2 DEF Cancel, Pass
    <3> QED
      BY <1>0, <3>1 DEF Tables
  <2> QED
    BY <2>1, <2>2
<1>4. deadline' \in [Workflow -> [Place -> {"none", "running", "past"}]]
  <2> DEFINE D == {"none", "running", "past"}
             d == [deadline[w] EXCEPT ![i] = "past"]
  <2>1. deadline' = deadline \/ deadline' = [deadline EXCEPT ![w] = d]
    BY DEF Cancel, SendFromOutside, Pass
  <2>2. d \in [Place -> D] /\ deadline \in [Workflow -> [Place -> D]]
    BY <1>0 DEF Tables
  <2> HIDE DEF d, D
  <2>3. [deadline EXCEPT ![w] = d] \in [Workflow -> [Place -> D]]
    BY <2>2
  <2>4. deadline' \in [Workflow -> [Place -> D]]
    BY <2>1, <2>2, <2>3
  <2> QED
    BY <2>4 DEF D
<1>5. Tables'
  BY <1>0, <1>1, <1>2, <1>3, <1>4 DEF Tables
<1>6. \A r \in Run : BodyOK(body[r])'
  <2>1. ASSUME NEW r \in Run PROVE BodyOK(body[r])'
    <3>1. BodyOK(body[r])
      BY <1>0 DEF Bodies
    <3> QED
      BY <1>0, <1>3, <3>1 DEF BodyOK
  <2> QED
    BY <2>1
<1>7. Bodies'
  BY <1>0, <1>6 DEF Bodies
<1> QED
  BY <1>5, <1>7, Halves, PTL

\* And when a body begins.
LEMMA BeginType ==
    ASSUME TypeOK, NEW r \in Run, NEW w \in Workflow, Begin(r, w)
    PROVE  TypeOK'
<1> USE DEF tables
<1>0. Tables /\ Bodies /\ program \in Programs
      /\ UNCHANGED <<program, journal, deadline, inbox, event, stream, stopping>>
  BY Halves DEF Begin, Tables
<1> DEFINE y == [pc |-> Entry(program[w][1]), wf |-> w, pos |-> 1, val |-> Missing]
<1>1. happened' \in [Happenings -> Nat]
  <2>1. happened' = happened \/ Happens("rival")
    BY DEF Begin
  <2> QED
    BY <1>0, <2>1, HappensType DEF Happenings, Tables
<1>2. Tables'
  <2>1. status' = [status EXCEPT ![w] = "PENDING"]
    BY DEF Begin
  <2> QED
    BY <1>0, <1>1, <2>1 DEF Tables
<1>3. program[w][1] \in Operation /\ 1 \in DOMAIN program[w] /\ 1 \in Place
  BY <1>0, ProgramType
<1>4. Entry(program[w][1]) \in {"check", "deadline"} /\ Missing \in Result
      /\ (Entry(program[w][1]) = "check" => program[w][1].op # "sleep")
  BY <1>3, EntryType, PlainType
<1>5. y \in Body /\ y.wf = w /\ y.pos = 1 /\ y.pc = Entry(program[w][1])
  BY <1>3, <1>4 DEF Body, PC
<1>6. body' = [body EXCEPT ![r] = y]
  BY DEF Begin
<1> HIDE DEF y
<1>7. Bodies'
  BY <1>0, <1>3, <1>4, <1>5, <1>6, BodyChange
<1> QED
  BY <1>2, <1>7, Halves, PTL

\* The types hold at the start,
LEMMA InitType == ASSUME Init PROVE TypeOK
<1>1. Missing \in Result /\ Free \in Body /\ Free.pc = "free" /\ 0 \in Nat
  BY PlainType, MoreTypes
<1>2. program \in Programs
  BY DEF Init
<1>3. /\ status \in [Workflow -> {"ABSENT", "PENDING", "SUCCESS", "ERROR", "CANCELLED"}]
      /\ journal \in [Workflow -> [Place -> Result]]
      /\ deadline \in [Workflow -> [Place -> {"none", "running", "past"}]]
  BY <1>1 DEF Init
<1>4. /\ inbox \in [Workflow -> Seq(Note)]
      /\ event \in [Workflow -> {0} \cup Place]
      /\ stream \in [Workflow -> Seq(Place)]
      /\ happened \in [Happenings -> Nat]
  BY DEF Init
<1>5. Tables
  BY <1>2, <1>3, <1>4 DEF Tables
<1>6. body \in [Run -> Body] /\ stopping = {} /\ \A r \in Run : body[r] = Free
  BY <1>1 DEF Init
<1>7. Bodies
  BY <1>1, <1>6 DEF Bodies, BodyOK
<1> QED
  BY <1>5, <1>7, Halves

\* and every step keeps them.
LEMMA NextType == ASSUME TypeOK, [Next]_vars PROVE TypeOK'
<1>1. ASSUME UNCHANGED vars PROVE TypeOK'
  <2>1. UNCHANGED <<program, status, journal, deadline, inbox, event, stream, body, stopping, happened>>
    BY <1>1 DEF vars
  <2>2. Tables /\ Bodies
    BY Halves
  <2>3. Tables'
    BY <2>1, <2>2, TablesKept
  <2>4. Bodies'
    BY <2>1, <2>2 DEF Bodies, BodyOK
  <2> QED
    BY <2>3, <2>4, Halves, PTL
<1>2. ASSUME Next PROVE TypeOK'
  BY <1>2, BodyStepType, EventStepType, WorkflowStepType, BeginType DEF Next, Place
<1> QED
  BY <1>1, <1>2

\* Every variable has its type, and a body is always at an operation of its
\* workflow, with a result to record and a message to consume when it needs them.
THEOREM CommunicationTyping == Spec => []TypeOK
  BY InitType, NextType, PTL DEF Spec

------------------------------------------------------------------------------
(* Nobody receives a message twice.                                        *)

\* At these places a body is not in a sleep.
Awake == {"check", "act", "take", "consume", "probe", "append", "record"}

\* A body is past an operation that is recorded, or that has no record.
Settled(w, j) == program[w][j].op = "sleep" \/ journal[w][j] # Missing

Consumed(w, n) == n \in DOMAIN inbox[w] /\ inbox[w][n].consumed

\* A body has every operation before its own behind it; the message in its hand
\* is not the message of an earlier operation, and consumed before it is recorded.
HandOK(b) ==
    b.pc # "free" =>
        /\ \A j \in Place : j < b.pos => Settled(b.wf, j)
        /\ b.pc \in Awake => program[b.wf][b.pos].op # "sleep"
        /\ b.pc \in {"consume", "record"} /\ b.val.kind = "message" =>
              \A j \in Place : j < b.pos => journal[b.wf][j] # b.val
        /\ b.pc = "record" /\ b.val.kind = "message" => Consumed(b.wf, b.val.id)

\* What is recorded has been consumed; operations are recorded in their order.
JournalOK ==
    \A w \in Workflow : \A j \in Place :
        /\ journal[w][j].kind = "message" => Consumed(w, journal[w][j].id)
        /\ journal[w][j] # Missing => \A i \in Place : i < j => Settled(w, i)

RecvInv == JournalOK /\ (\A r \in Run : HandOK(body[r])) /\ ReceivedOnce

\* What is settled and consumed stays so, while the journal does not change.
LEMMA JournalKept ==
    ASSUME TypeOK, RecvInv, program' = program, journal' = journal,
           \A w \in Workflow : \A n : Consumed(w, n) => Consumed(w, n)'
    PROVE  JournalOK' /\ ReceivedOnce'
<1>1. JournalOK'
  <2>1. ASSUME NEW w \in Workflow, NEW j \in Place
        PROVE  /\ journal[w][j].kind = "message" => Consumed(w, journal[w][j].id)'
               /\ journal[w][j] # Missing => \A i \in Place : i < j => Settled(w, i)'
    BY DEF RecvInv, JournalOK, Settled
  <2> QED
    BY <2>1 DEF JournalOK, Consumed, Settled
<1>2. ReceivedOnce'
  BY DEF RecvInv, ReceivedOnce, Received
<1> QED
  BY <1>1, <1>2

\* So a body whose slot does not change keeps its hand in order.
LEMMA HandKept ==
    ASSUME TypeOK, RecvInv, program' = program, journal' = journal,
           \A w \in Workflow : \A n : Consumed(w, n) => Consumed(w, n)',
           NEW r \in Run, body'[r] = body[r]
    PROVE  HandOK(body[r])'
<1>1. HandOK(body[r])
  BY DEF RecvInv
<1>2. CASE body[r].pc = "free"
  BY <1>2 DEF HandOK
<1>3. CASE body[r].pc # "free"
  <2>1. body[r].wf \in Workflow
    BY <1>3, InProgressType
  <2>2. Consumed(body[r].wf, body[r].val.id) => Consumed(body[r].wf, body[r].val.id)'
    BY <2>1
  <2> QED
    BY <1>1, <1>3, <2>2 DEF HandOK, Consumed, Settled
<1> QED
  BY <1>2, <1>3

\* One body moves, and the journal does not change.
LEMMA Moves ==
    ASSUME TypeOK, RecvInv, program' = program, journal' = journal,
           \A w \in Workflow : \A n : Consumed(w, n) => Consumed(w, n)',
           NEW r \in Run, NEW y, body' = [body EXCEPT ![r] = y],
           y.pc # "free" => \A j \in Place : j < y.pos => Settled(y.wf, j),
           y.pc \in Awake => program[y.wf][y.pos].op # "sleep",
           y.pc \in {"consume", "record"} /\ y.val.kind = "message" =>
              \A j \in Place : j < y.pos => journal[y.wf][j] # y.val,
           y.pc = "record" /\ y.val.kind = "message" => Consumed(y.wf, y.val.id)'
    PROVE  RecvInv'
<1>1. body \in [Run -> Body]
  BY Halves DEF Bodies
<1>2. body'[r] = y /\ \A s \in Run \ {r} : body'[s] = body[s]
  BY <1>1
<1>3. HandOK(body[r])'
  BY <1>2 DEF HandOK, Settled, Consumed
<1>4. \A s \in Run \ {r} : HandOK(body[s])'
  BY <1>2, HandKept
<1>5. JournalOK' /\ ReceivedOnce'
  BY JournalKept
<1>6. \A s \in Run : HandOK(body[s])'
  <2>1. ASSUME NEW s \in Run PROVE HandOK(body[s])'
    BY <1>3, <1>4
  <2> QED
    BY <2>1
<1> QED
  BY <1>5, <1>6 DEF RecvInv

\* The common case: it stays at its operation, with no message.
LEMMA Stays ==
    ASSUME TypeOK, RecvInv, program' = program, journal' = journal,
           \A w \in Workflow : \A n : Consumed(w, n) => Consumed(w, n)',
           NEW r \in Run, body[r].pc # "free", NEW p, NEW v, v.kind # "message",
           p \in Awake => At(r).op # "sleep",
           \/ body' = [body EXCEPT ![r].pc = p, ![r].val = v]
           \/ Goto(r, p) /\ p \notin {"consume", "record"}
    PROVE  RecvInv'
<1>0. body \in [Run -> Body] /\ body[r] \in Body /\ HandOK(body[r])
  BY Halves DEF Bodies, RecvInv
<1>1. CASE body' = [body EXCEPT ![r].pc = p, ![r].val = v]
  <2> DEFINE y == [body[r] EXCEPT !.pc = p, !.val = v]
  <2>1. y.pc = p /\ y.val = v /\ y.wf = body[r].wf /\ y.pos = body[r].pos
    BY <1>0 DEF Body
  <2>2. body' = [body EXCEPT ![r] = y]
    BY <1>0, <1>1
  <2> HIDE DEF y
  <2>3. \A j \in Place : j < y.pos => Settled(y.wf, j)
    BY <1>0, <2>1 DEF HandOK
  <2> QED
    BY <2>1, <2>2, <2>3, Moves DEF At
<1>2. CASE Goto(r, p) /\ p \notin {"consume", "record"}
  <2> DEFINE y == [body[r] EXCEPT !.pc = p]
  <2>1. y.pc = p /\ y.wf = body[r].wf /\ y.pos = body[r].pos
    BY <1>0 DEF Body
  <2>2. body' = [body EXCEPT ![r] = y]
    BY <1>0, <1>2 DEF Goto
  <2> HIDE DEF y
  <2>3. \A j \in Place : j < y.pos => Settled(y.wf, j)
    BY <1>0, <2>1 DEF HandOK
  <2> QED
    BY <1>2, <2>1, <2>2, <2>3, Moves DEF At
<1> QED
  BY <1>1, <1>2

\* A body with its operation behind it.
LEMMA Advances ==
    ASSUME TypeOK, RecvInv, UNCHANGED <<program, journal, inbox>>,
           NEW r \in Run, body[r].pc # "free", NEW v \in Result,
           Settled(body[r].wf, body[r].pos),
           body' = [body EXCEPT ![r] = Advance(@, v)]
    PROVE  RecvInv'
<1> DEFINE y == Advance(body[r], v)
<1>0. /\ HandOK(body[r]) /\ body[r] \in Body /\ program \in Programs
      /\ body[r].wf \in Workflow /\ body[r].pos \in DOMAIN program[body[r].wf] /\ body[r].pos \in Place
  BY InProgressType DEF RecvInv
<1>1. /\ y.wf = body[r].wf /\ y.pc \in {"failed", "finished", "check", "deadline"}
      /\ y.pos \in {body[r].pos, body[r].pos + 1}
      /\ y.pc = "check" => program[body[r].wf][y.pos].op # "sleep"
  BY <1>0, AdvanceType
<1>2. body' = [body EXCEPT ![r] = y]
  OBVIOUS
<1> HIDE DEF y
<1>3. ASSUME NEW j \in Place, j < y.pos PROVE Settled(y.wf, j)
  <2>1. j < body[r].pos \/ j = body[r].pos
    BY <1>0, <1>1, <1>3 DEF Place
  <2> QED
    BY <1>0, <1>1, <2>1 DEF HandOK
<1>4. \A w \in Workflow : \A n : Consumed(w, n) => Consumed(w, n)'
  BY DEF Consumed
<1>5. /\ y.pc # "free" => \A j \in Place : j < y.pos => Settled(y.wf, j)
      /\ y.pc \in Awake => program[y.wf][y.pos].op # "sleep"
      /\ y.pc \notin {"consume", "record"}
  BY <1>1, <1>3 DEF Awake
<1>6. program' = program /\ journal' = journal
  OBVIOUS
<1> QED
  BY <1>2, <1>4, <1>5, <1>6, Moves

\* Two messages with one place in the inbox are one.
LEMMA SameMessage ==
    ASSUME NEW a \in Result, NEW b \in Result, a.kind = "message", b.kind = "message", a.id = b.id
    PROVE  a = b
<1>1. a \in [kind : {"message"}, id : Nat \ {0}] /\ b \in [kind : {"message"}, id : Nat \ {0}]
  BY DEF Result
<1> QED
  BY <1>1

\* A body records its operation.
LEMMA Records ==
    ASSUME TypeOK, RecvInv, NEW r \in Run, Record(r),
           NEW w, w = body[r].wf, NEW i, i = body[r].pos, NEW v, v = body[r].val,
           NEW y, y = Advance(body[r], v)
    PROVE  RecvInv'
<1>0. /\ body[r].pc = "record"
      /\ UNCHANGED <<program, inbox>>
  BY DEF Record, tables
<1>1. /\ program \in Programs /\ body \in [Run -> Body] /\ journal \in [Workflow -> [Place -> Result]]
      /\ HandOK(body[r]) /\ body[r] \in Body
      /\ w \in Workflow /\ i \in Place /\ i \in DOMAIN program[w] /\ v \in Result /\ v # Missing
  BY <1>0, InProgressType DEF RecvInv, Tables, Bodies
<1>2. \A x \in Workflow : \A n : Consumed(x, n) => Consumed(x, n)'
  BY <1>0 DEF Consumed
<1>3. program[w][i].op # "sleep"
  BY <1>0, <1>1 DEF HandOK, Awake
<1>4. CASE journal[w][i] # Missing
  <2>1. Goto(r, "await") /\ UNCHANGED journal
    BY <1>4 DEF Record
  <2>2. Missing.kind # "message"
    BY DEF Missing, Plain
  <2>3. body[r].pc # "free" /\ "await" \notin Awake \cup {"consume", "record"}
    BY <1>0 DEF Awake
  <2> QED
    BY <1>0, <1>2, <2>1, <2>2, <2>3, Stays
<1>5. CASE journal[w][i] = Missing
  <2> DEFINE f == [journal[w] EXCEPT ![i] = v]
  <2>1. journal' = [journal EXCEPT ![w] = f] /\ body' = [body EXCEPT ![r] = y]
    BY <1>5 DEF Record
  <2>2. f \in [Place -> Result] /\ f[i] = v /\ \A j \in Place \ {i} : f[j] = journal[w][j]
    BY <1>1
  <2>3. journal'[w] = f /\ \A x \in Workflow \ {w} : journal'[x] = journal[x]
    <3> DEFINE S == [Place -> Result]
    <3>1. journal \in [Workflow -> S] /\ f \in S
      BY <1>1, <2>2
    <3> HIDE DEF f, S
    <3> QED
      BY <1>1, <2>1, <3>1, Replaced
  <2> HIDE DEF f
  <2>4. /\ journal'[w][i] = v
        /\ \A x \in Workflow : \A j \in Place : x # w \/ j # i => journal'[x][j] = journal[x][j]
    BY <1>1, <2>2, <2>3
  <2>5. \A x \in Workflow : \A j \in Place : Settled(x, j) => Settled(x, j)'
    BY <1>0, <1>1, <2>4 DEF Settled
  <2>6. Settled(w, i)'
    BY <1>1, <2>4 DEF Settled
  \* Nothing after the operation is recorded yet, and everything before it is.
  <2>7. \A j \in Place : i < j => journal[w][j] = Missing
    BY <1>1, <1>3, <1>5 DEF RecvInv, JournalOK, Settled
  <2>8. \A j \in Place : j < i => Settled(w, j)
    BY <1>0, <1>1 DEF HandOK
  <2>9. v.kind = "message" => /\ \A j \in Place : j < i => journal[w][j] # v
                              /\ Consumed(w, v.id)
    BY <1>0, <1>1 DEF HandOK
  <2>10. v.kind = "message" => \A j \in Place \ {i} : journal[w][j] # v
    <3>1. \A j \in Place \ {i} : j < i \/ i < j
      BY <1>1 DEF Place
    <3> QED
      BY <1>1, <2>7, <2>9, <3>1
  <2>11. ReceivedOnce'
    <3>1. ASSUME NEW x \in Workflow, NEW j \in Place, NEW k \in Place, j # k,
                 journal'[x][j].kind = "message", journal'[x][k].kind = "message"
          PROVE  journal'[x][j].id # journal'[x][k].id
      <4>1. CASE x # w \/ (j # i /\ k # i)
        BY <2>4, <3>1, <4>1 DEF RecvInv, ReceivedOnce, Received
      <4>2. ASSUME NEW l \in Place \ {i}, journal[w][l].kind = "message", v.kind = "message"
            PROVE  journal[w][l].id # v.id
        <5>1. journal[w][l] \in Result /\ journal[w][l] # v
          BY <1>1, <2>10, <4>2
        <5> QED
          BY <1>1, <4>2, <5>1, SameMessage
      <4>3. CASE x = w /\ j = i
        BY <2>4, <3>1, <4>2, <4>3
      <4>4. CASE x = w /\ k = i
        BY <2>4, <3>1, <4>2, <4>4
      <4> QED
        BY <4>1, <4>3, <4>4
    <3> QED
      BY <3>1 DEF ReceivedOnce, Received
  <2>12. JournalOK'
    <3>1. ASSUME NEW x \in Workflow, NEW j \in Place
          PROVE  /\ journal'[x][j].kind = "message" => Consumed(x, journal'[x][j].id)
                 /\ journal'[x][j] # Missing => \A k \in Place : k < j => Settled(x, k)'
      <4>1. CASE x # w \/ j # i
        <5>1. journal'[x][j] = journal[x][j]
          BY <2>4, <4>1
        <5> QED
          BY <2>5, <5>1 DEF RecvInv, JournalOK
      <4>2. CASE x = w /\ j = i
        BY <2>4, <2>5, <2>8, <2>9, <1>1, <4>2
      <4> QED
        BY <4>1, <4>2
    <3> QED
      BY <1>0, <3>1 DEF JournalOK, Consumed
  <2>13. ASSUME NEW s \in Run PROVE HandOK(body[s])'
    <3>1. CASE s = r
      <4>1. /\ y.wf = w /\ y.pc \in {"failed", "finished", "check", "deadline"}
            /\ y.pos \in {i, i + 1}
            /\ y.pc = "check" => program[w][y.pos].op # "sleep"
        BY <1>1, AdvanceType
      <4>2. body'[s] = y
        BY <1>1, <2>1, <3>1
      <4>3. ASSUME NEW j \in Place, j < y.pos PROVE Settled(w, j)'
        <5>1. j < i \/ j = i
          BY <1>1, <4>1, <4>3 DEF Place
        <5> QED
          BY <1>1, <2>5, <2>6, <2>8, <5>1
      <4> QED
        BY <1>0, <4>1, <4>2, <4>3 DEF HandOK, Awake, Settled, Consumed
    <3>2. CASE s # r /\ body[s].pc # "free"
      <4> PICK x, q : x = body[s].wf /\ q = body[s].pos
        OBVIOUS
      <4>1. body'[s] = body[s] /\ HandOK(body[s]) /\ x \in Workflow /\ q \in Place
        BY <1>1, <2>1, <3>2, InProgressType DEF RecvInv
      <4>2. \A j \in Place : j < q => Settled(x, j)
        BY <3>2, <4>1 DEF HandOK
      \* The operation recorded now is not behind another body.
      <4>3. \A j \in Place : j < q => journal'[x][j] = journal[x][j]
        <5>1. ASSUME x = w, i < q PROVE FALSE
          BY <1>1, <1>3, <1>5, <4>2, <5>1 DEF Settled
        <5> QED
          BY <2>4, <4>1, <5>1
      <4> QED
        BY <1>0, <1>2, <2>5, <3>2, <4>1, <4>2, <4>3 DEF HandOK, Settled, Consumed
    <3>3. CASE s # r /\ body[s].pc = "free"
      <4>1. body'[s] = body[s]
        BY <1>1, <2>1, <3>3
      <4> QED
        BY <3>3, <4>1 DEF HandOK
    <3> QED
      BY <3>1, <3>2, <3>3
  <2> QED
    BY <2>11, <2>12, <2>13 DEF RecvInv
<1> QED
  BY <1>4, <1>5

\* Steps of a body that leave the journal and the inboxes as they are.
LEMMA QuietStep ==
    ASSUME TypeOK, RecvInv, NEW r \in Run,
           \/ Check(r) \/ CheckDeadline(r) \/ RecordDeadline(r) \/ Wait(r)
           \/ SetEvent(r) \/ GetEvent(r) \/ Probe(r) \/ AppendEntry(r) \/ Finish(r) \/ AwaitOutcome(r)
    PROVE  RecvInv'
<1> USE DEF tables
<1> DEFINE w == body[r].wf
           i == body[r].pos
<1>1. /\ body[r].pc # "free"
      /\ UNCHANGED <<program, journal, inbox>>
  BY DEF Check, CheckDeadline, RecordDeadline, Wait, SetEvent, GetEvent, Probe, AppendEntry, Finish, AwaitOutcome
<1>2. \A x \in Workflow : \A n : Consumed(x, n) => Consumed(x, n)'
  BY <1>1 DEF Consumed
<1>3. /\ body \in [Run -> Body] /\ journal \in [Workflow -> [Place -> Result]] /\ HandOK(body[r])
      /\ w \in Workflow /\ i \in Place /\ At(r) \in Operation
      /\ body[r].pc \in Awake => At(r).op # "sleep"
  BY <1>1, InProgressType DEF RecvInv, Tables, Bodies, HandOK, At
<1>4. Missing.kind # "message" /\ Plain("ok").kind # "message"
  BY DEF Missing, Plain
<1>5. ASSUME NEW p, p \notin {"consume", "record"}, p \in Awake => At(r).op # "sleep", Goto(r, p)
      PROVE  RecvInv'
  BY <1>1, <1>2, <1>4, <1>5, Stays
<1>6. ASSUME NEW v, v.kind # "message", At(r).op # "sleep",
             body' = [body EXCEPT ![r].pc = "record", ![r].val = v]
      PROVE  RecvInv'
  BY <1>1, <1>2, <1>6, Stays
<1>7. CASE Check(r)
  <2>1. CASE status[w] # "CANCELLED" /\ journal[w][i] # Missing
    <3>1. body' = [body EXCEPT ![r] = Advance(@, journal[w][i])]
      BY <1>7, <2>1 DEF Check
    <3>2. Settled(w, i) /\ journal[w][i] \in Result
      BY <1>3, <2>1 DEF Settled
    <3> QED
      BY <1>1, <3>1, <3>2, Advances
  <2>2. CASE status[w] = "CANCELLED"
    <3>1. Goto(r, "failed")
      BY <1>7, <2>2 DEF Check
    <3> QED
      BY <1>5, <3>1 DEF Awake
  <2>3. CASE status[w] # "CANCELLED" /\ journal[w][i] = Missing
    <3>1. body[r].pc \in Awake /\ Goto(r, Act(At(r)))
      BY <1>7, <2>3 DEF Check, Awake
    <3>2. Act(At(r)) \in {"act", "deadline", "probe"}
      BY <1>3, <3>1, EntryType
    <3> QED
      BY <1>3, <1>5, <3>1, <3>2
  <2> QED
    BY <2>1, <2>2, <2>3
<1>8. CASE CheckDeadline(r) \/ RecordDeadline(r)
  <2>1. PICK p \in {"failed", "setDeadline", "wait", "deadline"} : Goto(r, p)
    BY <1>8 DEF CheckDeadline, RecordDeadline
  <2> QED
    BY <1>5, <2>1 DEF Awake
<1>9. CASE Wait(r)
  <2>1. CASE At(r).op = "sleep"
    <3>1. body' = [body EXCEPT ![r] = Advance(@, Plain("ok"))]
      BY <1>9, <2>1 DEF Wait
    <3>2. Settled(w, i) /\ Plain("ok") \in Result
      BY <2>1, PlainType DEF Settled, At
    <3> QED
      BY <1>1, <3>1, <3>2, Advances
  <2>2. CASE At(r).op # "sleep"
    <3>1. Goto(r, "take")
      BY <1>9, <2>2 DEF Wait
    <3> QED
      BY <1>5, <2>2, <3>1
  <2> QED
    BY <2>1, <2>2
<1>10. CASE SetEvent(r)
  BY <1>4, <1>6, <1>10 DEF SetEvent
<1>11. CASE GetEvent(r)
  <2> DEFINE v == [kind |-> "event", id |-> event[At(r).with]]
  <2>1. v.kind # "message" /\ At(r).op # "sleep" /\ body' = [body EXCEPT ![r].pc = "record", ![r].val = v]
    BY <1>11 DEF GetEvent
  <2> HIDE DEF v
  <2> QED
    BY <1>6, <2>1
<1>12. CASE Probe(r)
  <2>1. PICK p \in {"failed", "append"} : Goto(r, p)
    BY <1>12 DEF Probe
  <2>2. At(r).op # "sleep"
    BY <1>3, <1>12 DEF Probe, Awake
  <2> QED
    BY <1>5, <2>1, <2>2
<1>13. CASE Finish(r) \/ AwaitOutcome(r)
  <2>1. body' = [body EXCEPT ![r] = Free] /\ Free.pc = "free"
    BY <1>13, MoreTypes DEF Finish, AwaitOutcome
  <2> QED
    BY <1>1, <1>2, <2>1, Moves DEF Awake
<1>14. CASE AppendEntry(r)
  <2> DEFINE rivals == {s \in Run \ {r} : body[s].pc = "append" /\ body[s].wf = body[r].wf}
             y(s) == [body[s] EXCEPT !.pc = "record", !.val = Plain("ok")]
             z(s) == [body[s] EXCEPT !.pc = "failed"]
  <2>1. PICK collide \in SUBSET rivals :
          body' = [s \in Run |-> IF s = r THEN y(r) ELSE IF s \in collide THEN z(s) ELSE body[s]]
    BY <1>14 DEF AppendEntry
  <2>2. At(r).op # "sleep" /\ body[r].pc = "append"
    BY <1>3, <1>14 DEF AppendEntry, Awake
  <2>3. ASSUME NEW s \in Run
        PROVE  /\ y(s).pc = "record" /\ y(s).val = Plain("ok") /\ y(s).wf = body[s].wf /\ y(s).pos = body[s].pos
               /\ z(s).pc = "failed" /\ z(s).wf = body[s].wf /\ z(s).pos = body[s].pos
    BY <1>3 DEF Body
  <2> HIDE DEF y, z
  <2>4. ASSUME NEW s \in Run PROVE HandOK(body[s])'
    <3>1. HandOK(body[s])
      BY DEF RecvInv
    <3>2. CASE s = r
      <4>1. body'[s] = y(r)
        BY <2>1, <3>2
      <4> QED
        BY <1>1, <1>4, <2>2, <2>3, <3>1, <3>2, <4>1 DEF HandOK, Settled, Awake
    <3>3. CASE s # r /\ s \in collide
      <4>1. body'[s] = z(s) /\ body[s].pc = "append"
        BY <2>1, <3>3
      <4> QED
        BY <1>1, <2>3, <3>1, <4>1 DEF HandOK, Settled, Awake
    <3>4. CASE s # r /\ s \notin collide
      <4>1. body'[s] = body[s]
        BY <2>1, <3>4
      <4> QED
        BY <1>1, <1>2, <4>1, HandKept
    <3> QED
      BY <3>2, <3>3, <3>4
  <2> QED
    BY <1>1, <1>2, <2>4, JournalKept DEF RecvInv
<1> QED
  BY <1>7, <1>8, <1>9, <1>10, <1>11, <1>12, <1>13, <1>14

\* Steps of a body on an inbox.
LEMMA InboxStep ==
    ASSUME TypeOK, RecvInv, NEW r \in Run, Send(r) \/ Select(r) \/ Consume(r)
    PROVE  RecvInv'
<1> USE DEF tables
<1>1. body[r].pc # "free" /\ UNCHANGED <<program, journal>>
  BY DEF Send, Select, Consume
<1> DEFINE w == body[r].wf
           i == body[r].pos
           v == body[r].val
<1>2. /\ Tables /\ body \in [Run -> Body] /\ body[r] \in Body /\ HandOK(body[r])
      /\ w \in Workflow /\ i \in Place
      /\ At(r).op \in {"send", "getEvent"} => At(r).with \in Workflow
      /\ body[r].pc = "consume" => v.kind = "message" /\ v.id \in DOMAIN inbox[w]
  BY <1>1, InProgressType DEF RecvInv, Bodies
<1>3. CASE Send(r)
  <2>1. At(r).op = "send" /\ At(r).with \in Workflow
    BY <1>2, <1>3 DEF Send
  <2>2. PICK u \in {Plain("noDestination"), Plain("ok")} :
          body' = [body EXCEPT ![r].pc = "record", ![r].val = u]
    BY <1>3 DEF Send
  <2>3. u.kind # "message"
    BY DEF Plain
  <2>4. inbox' = inbox \/ Deliver(At(r).with, w, i)
    BY <1>3 DEF Send
  <2>5. \A x \in Workflow : \A n : Consumed(x, n) => Consumed(x, n)'
    <3>1. CASE inbox' = inbox
      BY <3>1 DEF Consumed
    <3>2. CASE Deliver(At(r).with, w, i)
      BY <1>2, <2>1, <3>2, DeliverType DEF Consumed, Place
    <3> QED
      BY <2>4, <3>1, <3>2
  <2> QED
    BY <1>1, <2>1, <2>2, <2>3, <2>5, Stays
<1>4. CASE Select(r)
  <2>1. /\ inbox' = inbox /\ At(r).op = "recv"
        /\ \A x \in Workflow : \A n : Consumed(x, n) => Consumed(x, n)'
    BY <1>4 DEF Select, Consumed
  <2>2. CASE Unconsumed(w) = {}
    <3>1. body' = [body EXCEPT ![r].pc = "record", ![r].val = Plain("timeout")] /\ Plain("timeout").kind # "message"
      BY <1>4, <2>2 DEF Select, Plain
    <3> QED
      BY <1>1, <2>1, <3>1, Stays
  <2>3. CASE Unconsumed(w) # {}
    <3>1. PICK n \in Oldest(w) :
            body' = [body EXCEPT ![r].pc = "consume", ![r].val = [kind |-> "message", id |-> n]]
      BY <1>4, <2>3 DEF Select
    <3>2. ~Consumed(w, n)
      BY DEF Oldest, Unconsumed, Consumed
    <3> DEFINE u == [kind |-> "message", id |-> n]
               y == [body[r] EXCEPT !.pc = "consume", !.val = u]
    <3>3. u.kind = "message" /\ u.id = n
      OBVIOUS
    <3>4. body' = [body EXCEPT ![r] = y]
      BY <1>2, <3>1
    <3> HIDE DEF u
    <3>5. y.pc = "consume" /\ y.wf = w /\ y.pos = i /\ y.val = u
      BY <1>2 DEF Body
    <3> HIDE DEF y
    \* What is recorded is consumed, and this message is not.
    <3>6. \A j \in Place : journal[w][j] # u
      BY <1>2, <3>2, <3>3 DEF RecvInv, JournalOK
    <3>7. /\ \A j \in Place : j < y.pos => Settled(y.wf, j)
          /\ program[y.wf][y.pos].op # "sleep"
      BY <1>1, <1>2, <2>1, <3>5 DEF HandOK, At
    <3> QED
      BY <1>1, <2>1, <3>4, <3>5, <3>6, <3>7, Moves
  <2> QED
    BY <2>2, <2>3
<1>5. CASE Consume(r)
  <2> DEFINE k == v.id
  <2> PICK y : y = [body[r] EXCEPT !.pc = "record"]
    OBVIOUS
  <2>0. body[r].pc = "consume" /\ v.kind = "message" /\ k \in DOMAIN inbox[w]
    BY <1>2, <1>5 DEF Consume
  <2>1. inbox' = [inbox EXCEPT ![w] = [inbox[w] EXCEPT ![k] = [inbox[w][k] EXCEPT !.consumed = TRUE]]]
    BY <1>5 DEF Consume
  <2>2. /\ inbox'[w][k].consumed
        /\ \A x \in Workflow : /\ DOMAIN inbox[x] = DOMAIN inbox'[x]
                               /\ \A n \in DOMAIN inbox[x] : inbox[x][n].consumed => inbox'[x][n].consumed
    BY <1>2, <2>0, <2>1, ConsumeType
  <2>3. \A x \in Workflow : \A n : Consumed(x, n) => Consumed(x, n)'
    BY <2>2 DEF Consumed
  <2>4. body' = [body EXCEPT ![r] = y]
    BY <1>2, <1>5 DEF Consume, Goto
  <2>5. y.pc = "record" /\ y.wf = w /\ y.pos = i /\ y.val = v
    BY <1>2 DEF Body
  <2>6. /\ \A j \in Place : j < y.pos => Settled(y.wf, j)
        /\ program[y.wf][y.pos].op # "sleep"
        /\ \A j \in Place : j < y.pos => journal[y.wf][j] # y.val
    BY <1>1, <1>2, <2>0, <2>5 DEF HandOK, Awake
  <2>7. Consumed(y.wf, y.val.id)'
    <3> PICK x, n : x = w /\ n = k
      OBVIOUS
    <3>1. y.wf = x /\ y.val.id = n /\ n \in DOMAIN inbox'[x] /\ inbox'[x][n].consumed
      BY <1>2, <2>0, <2>2, <2>5
    <3> QED
      BY <3>1 DEF Consumed
  <2> QED
    BY <1>1, <2>3, <2>4, <2>6, <2>7, Moves
<1> QED
  BY <1>3, <1>4, <1>5

\* Steps outside the bodies.
LEMMA OtherStep ==
    ASSUME TypeOK, RecvInv,
           \/ \E r \in Run : Crash(r) \/ Shutdown(r) \/ \E w \in Workflow : Begin(r, w)
           \/ \E w \in Workflow : Cancel(w) \/ SendFromOutside(w) \/ \E i \in Place : Pass(w, i)
    PROVE  RecvInv'
<1> USE DEF tables
<1>1. UNCHANGED <<program, journal>>
  BY DEF Crash, Shutdown, Begin, Cancel, SendFromOutside, Pass
<1>2. \A x \in Workflow : \A n : Consumed(x, n) => Consumed(x, n)'
  <2>1. CASE inbox' = inbox
    BY <2>1 DEF Consumed
  <2>2. CASE \E w \in Workflow : SendFromOutside(w)
    <3>1. PICK w \in Workflow : Deliver(w, None, 0)
      BY <2>2 DEF SendFromOutside
    <3>2. Tables
      BY Halves
    <3> QED
      BY <3>1, <3>2, DeliverType DEF Consumed
  <2> QED
    BY <2>1, <2>2 DEF Crash, Shutdown, Begin, Cancel, Pass
<1>3. CASE body' = body
  <2>1. ASSUME NEW r \in Run PROVE HandOK(body[r])'
    BY <1>1, <1>2, <1>3, HandKept
  <2> QED
    BY <1>1, <1>2, <2>1, JournalKept DEF RecvInv
<1>4. ASSUME NEW r \in Run, Crash(r) PROVE RecvInv'
  <2>1. body' = [body EXCEPT ![r] = Free] /\ Free.pc = "free"
    BY <1>4, MoreTypes DEF Crash
  <2> QED
    BY <1>1, <1>2, <2>1, Moves DEF Awake
<1>5. ASSUME NEW r \in Run, NEW w \in Workflow, Begin(r, w) PROVE RecvInv'
  <2> PICK y : y = [pc |-> Entry(program[w][1]), wf |-> w, pos |-> 1, val |-> Missing]
    OBVIOUS
  <2>1. body' = [body EXCEPT ![r] = y] /\ y.pc = Entry(program[w][1]) /\ y.wf = w /\ y.pos = 1
    BY <1>5 DEF Begin
  <2>2. program[w][1] \in Operation
    <3>1. program \in Programs
      BY Halves DEF Tables
    <3> QED
      BY <3>1, ProgramType
  <2>3. /\ y.pc \in {"check", "deadline"}
        /\ y.pc = "check" => program[y.wf][y.pos].op # "sleep"
    BY <2>1, <2>2, EntryType
  <2>4. \A j \in Place : ~(j < y.pos)
    BY <2>1 DEF Place
  <2>5. /\ y.pc # "free" => \A j \in Place : j < y.pos => Settled(y.wf, j)
        /\ y.pc \in Awake => program[y.wf][y.pos].op # "sleep"
        /\ y.pc \notin {"consume", "record"}
    BY <2>3, <2>4 DEF Awake
  <2> QED
    BY <1>1, <1>2, <2>1, <2>5, Moves
<1> QED
  BY <1>3, <1>4, <1>5 DEF Shutdown, Cancel, SendFromOutside, Pass

\* RecvInv holds at the start,
LEMMA RecvInit == ASSUME Init PROVE RecvInv
<1>1. \A w \in Workflow : \A j \in Place : journal[w][j] = Missing
  BY DEF Init
<1>2. Missing.kind # "message"
  BY DEF Missing, Plain
<1>3. \A r \in Run : body[r].pc = "free"
  BY DEF Init, Free
<1>4. \A r \in Run : HandOK(body[r])
  BY <1>3 DEF HandOK
<1> QED
  BY <1>1, <1>2, <1>4 DEF RecvInv, JournalOK, ReceivedOnce, Received

\* and every step keeps it.
LEMMA RecvNext == ASSUME TypeOK, RecvInv, [Next]_vars PROVE RecvInv'
<1>1. ASSUME UNCHANGED vars PROVE RecvInv'
  <2>1. UNCHANGED <<program, journal, inbox, body>>
    BY <1>1 DEF vars
  <2>2. \A x \in Workflow : \A n : Consumed(x, n) => Consumed(x, n)'
    BY <2>1 DEF Consumed
  <2>3. ASSUME NEW r \in Run PROVE HandOK(body[r])'
    BY <2>1, <2>2, HandKept
  <2> QED
    BY <2>1, <2>2, <2>3, JournalKept DEF RecvInv
<1>2. ASSUME NEW r \in Run, BodyStep(r) PROVE RecvInv'
  <2>1. CASE Record(r)
    BY <2>1, Records
  <2>2. CASE Send(r) \/ Select(r) \/ Consume(r)
    BY <2>2, InboxStep
  <2> QED
    BY <1>2, <2>1, <2>2, QuietStep DEF BodyStep
<1> QED
  BY <1>1, <1>2, OtherStep DEF Next

\* Nobody receives a message twice, though bodies crash between consuming a
\* message and recording it, run again from the start and race for the inbox,
\* and though the UPDATE does not look at consumed again: a message in the hand
\* of a body is not one that its workflow has recorded before.
THEOREM NobodyReceivesTwice == Spec => []ReceivedOnce
<1>1. RecvInv => ReceivedOnce
  BY DEF RecvInv
<1> QED
  BY <1>1, RecvInit, RecvNext, CommunicationTyping, PTL DEF Spec

------------------------------------------------------------------------------
(* Readers of a stream never see anything go.                              *)

\* The numbers up to n.
LEMMA Segment == \A n \in Nat : IsFiniteSet(1..n) /\ Cardinality(1..n) = n
<1>1. ASSUME NEW n \in Nat PROVE IsFiniteSet(1..n) /\ Cardinality(1..n) = n
  <2>1. IsFiniteSet(1..n) /\ Cardinality(1..n) = IF 1 > n THEN 0 ELSE n - 1 + 1
    BY FS_Interval
  <2> QED
    BY <2>1
<1> QED
  BY <1>1

\* What a reader gets: everything in front of the first end marker.
LEMMA ReadableIs ==
    ASSUME NEW w \in Workflow, NEW s \in Seq(Place)
    PROVE  \E k \in 0..Len(s) :
              /\ Len(Readable(w, s)) = k /\ DOMAIN Readable(w, s) = 1..k
              /\ \A n \in 1..k : Readable(w, s)[n] = s[n] /\ ~IsClose(w, s[n])
              /\ k < Len(s) => IsClose(w, s[k + 1])
<1> DEFINE open == {n \in DOMAIN s : \A m \in 1..n : ~IsClose(w, s[m])}
           k == Cardinality(open)
<1>1. DOMAIN s = 1..Len(s) /\ Len(s) \in Nat /\ IsFiniteSet(1..Len(s))
  BY Segment
<1>2. IsFiniteSet(open) /\ k \in Nat /\ k <= Len(s)
  <2>1. open \subseteq 1..Len(s)
    BY <1>1
  <2>2. Cardinality(1..Len(s)) = Len(s)
    BY <1>1, Segment
  <2> HIDE DEF open
  <2> QED
    <3>1. IsFiniteSet(open) /\ Cardinality(open) <= Cardinality(1..Len(s))
      BY <1>1, <2>1, FS_Subset
    <3>2. Cardinality(open) \in Nat
      BY <3>1, FS_CardinalityType
    <3> QED
      BY <2>2, <3>1, <3>2
<1>3. open = 1..k
  <2>1. ASSUME NEW n \in open PROVE n \in 1..k
    <3>1. 1..n \subseteq open /\ n \in Nat \ {0}
      BY <1>1
    <3>2. Cardinality(1..n) = n /\ Cardinality(1..n) <= k
      <4>1. Cardinality(1..n) = n
        BY <3>1, Segment
      <4> HIDE DEF open
      <4> QED
        BY <1>2, <3>1, <4>1, FS_Subset
    <3> QED
      BY <1>2, <3>1, <3>2
  <2>2. ASSUME NEW n \in 1..k, n \notin open PROVE FALSE
    <3>1. open \subseteq 1..(n - 1)
      <4>1. ASSUME NEW m \in open, m >= n PROVE FALSE
        <5>1. n \in DOMAIN s /\ 1..n \subseteq 1..m
          BY <1>1, <1>2, <4>1
        <5> QED
          BY <2>2, <4>1, <5>1
      <4> QED
        BY <1>1, <4>1
    <3>2. Cardinality(1..(n - 1)) = n - 1 /\ IsFiniteSet(1..(n - 1))
      <4>1. n - 1 \in Nat
        BY <1>2
      <4> QED
        BY <4>1, Segment
    <3>3. k <= n - 1
      <4> HIDE DEF open
      <4> QED
        <5>1. Cardinality(open) <= Cardinality(1..(n - 1))
          BY <3>1, <3>2, FS_Subset
        <5> QED
          BY <3>2, <5>1
    <3> QED
      BY <1>2, <3>3
  <2> QED
    BY <2>1, <2>2
<1>4. Readable(w, s) = SubSeq(s, 1, k)
  BY DEF Readable
<1> HIDE DEF k
<1>5. \A n \in 1..k : s[n] \in Place
  BY <1>1, <1>2
<1>6. Len(SubSeq(s, 1, k)) = k /\ DOMAIN SubSeq(s, 1, k) = 1..k /\ \A n \in 1..k : SubSeq(s, 1, k)[n] = s[n]
  <2>1. /\ SubSeq(s, 1, k) \in Seq(Place)
        /\ Len(SubSeq(s, 1, k)) = IF 1 <= k THEN k - 1 + 1 ELSE 0
        /\ \A n \in 1..(k - 1 + 1) : SubSeq(s, 1, k)[n] = s[1 + n - 1]
    BY <1>2, <1>5, SubSeqProperties
  <2> QED
    BY <1>2, <2>1
<1>7. \A n \in 1..k : ~IsClose(w, s[n])
  BY <1>3, <1>2
<1>8. k < Len(s) => IsClose(w, s[k + 1])
  <2>1. ASSUME k < Len(s), ~IsClose(w, s[k + 1]) PROVE FALSE
    <3>1. k + 1 \in DOMAIN s /\ \A m \in 1..(k + 1) : m \in 1..k \/ m = k + 1
      BY <1>1, <1>2, <2>1
    <3>2. k + 1 \in open
      BY <1>7, <2>1, <3>1
    <3> QED
      BY <1>2, <1>3, <3>2
  <2> QED
    BY <2>1
<1> QED
  BY <1>2, <1>4, <1>6, <1>7, <1>8

\* A reader of the one stream sees all of it in the other, and nothing new behind an end.
Prolongs(w, s, t) ==
    /\ Len(Readable(w, s)) <= Len(Readable(w, t))
    /\ \A n \in DOMAIN Readable(w, s) : Readable(w, t)[n] = Readable(w, s)[n]
    /\ Closed(w, s) => Len(Readable(w, t)) = Len(Readable(w, s))

\* An entry more: readers see what they saw, and nothing new behind an end.
LEMMA OneEntryMore ==
    ASSUME NEW w \in Workflow, NEW s \in Seq(Place), NEW t \in Seq(Place), NEW p \in Place, t = Append(s, p)
    PROVE  Prolongs(w, s, t)
<1>1. /\ t \in Seq(Place) /\ Len(t) = Len(s) + 1 /\ Len(s) \in Nat
      /\ DOMAIN s = 1..Len(s) /\ \A n \in 1..Len(s) : t[n] = s[n]
  OBVIOUS
<1>2. PICK k \in 0..Len(s) :
        /\ Len(Readable(w, s)) = k /\ DOMAIN Readable(w, s) = 1..k
        /\ \A n \in 1..k : Readable(w, s)[n] = s[n] /\ ~IsClose(w, s[n])
        /\ k < Len(s) => IsClose(w, s[k + 1])
  BY ReadableIs
<1>3. PICK l \in 0..Len(t) :
        /\ Len(Readable(w, t)) = l
        /\ \A n \in 1..l : Readable(w, t)[n] = t[n] /\ ~IsClose(w, t[n])
        /\ l < Len(t) => IsClose(w, t[l + 1])
  BY <1>1, ReadableIs
<1>4. k <= l
  <2>1. ASSUME l < k PROVE FALSE
    <3>1. l < Len(t) /\ l + 1 \in 1..k /\ t[l + 1] = s[l + 1]
      BY <1>1, <2>1
    <3> QED
      BY <1>2, <1>3, <3>1
  <2> QED
    BY <2>1
<1>5. k < Len(s) => l = k
  <2>1. ASSUME k < Len(s), k < l PROVE FALSE
    <3>1. k + 1 \in 1..l /\ t[k + 1] = s[k + 1]
      BY <1>1, <2>1
    <3> QED
      BY <1>2, <1>3, <2>1, <3>1
  <2> QED
    BY <1>4, <2>1
<1>6. Closed(w, s) => k < Len(s)
  <2>1. ASSUME Closed(w, s) PROVE k # Len(s)
    <3>1. PICK n \in 1..Len(s) : IsClose(w, s[n])
      BY <1>1, <2>1 DEF Closed
    <3> QED
      BY <1>2, <3>1
  <2> QED
    BY <1>1, <2>1
<1>7. DOMAIN Readable(w, s) = 1..k
  BY <1>2
<1> QED
  BY <1>1, <1>2, <1>3, <1>4, <1>5, <1>6, <1>7 DEF Prolongs


------------------------------------------------------------------------------
(* What a step may do: to one body, and to the tables.                     *)

\* A body goes on to its next operation, or to its end: the one it leaves is
\* recorded, or a sleep whose deadline is past or that a shutdown has ended.
GoesOn(r) ==
    LET b == body[r]
        c == body'[r]
    IN  /\ c.pos \in {b.pos, b.pos + 1}
        /\ c.pc \in {"failed", "finished", "check", "deadline"}
        /\ c.pc = "finished" => b.pos = Len(program[b.wf])
        /\ At(r).op = "sleep" => deadline[b.wf][b.pos] = "past" \/ r \in stopping

\* A body stays at its operation.
StaysAt(r) ==
    LET b == body[r]
        c == body'[r]
    IN  /\ c.pos = b.pos
        /\ \/ c.pc \in {"failed", "setDeadline", "wait", "deadline", "await"}
           \/ /\ b.pc = "check" /\ c.pc \in {"act", "probe"}
              /\ journal[b.wf][b.pos] = Missing
           \/ /\ b.pc = "probe" /\ c.pc = "append"
           \/ /\ b.pc = "wait" /\ c.pc = "take"
              /\ \/ Ready(b.wf, At(r))
                 \/ deadline[b.wf][b.pos] = "past"
                 \/ r \in stopping
           \/ /\ b.pc \in {"act", "append"} /\ c.pc = "record"
              /\ c.val.kind \in {"ok", "noDestination"}
           \/ /\ b.pc = "take" /\ c.pc = "record" /\ At(r).op = "recv"
              /\ Unconsumed(b.wf) = {} /\ c.val = Plain("timeout")
           \/ /\ b.pc = "take" /\ c.pc = "record" /\ At(r).op = "getEvent"
              /\ c.val = [kind |-> "event", id |-> event[At(r).with]]
           \/ /\ b.pc = "take" /\ c.pc = "consume" /\ At(r).op = "recv"
              /\ \E n \in Oldest(b.wf) : c.val = [kind |-> "message", id |-> n]
           \/ /\ b.pc = "consume" /\ c.pc = "record" /\ c.val = b.val

\* The turn of a body in a step: none, the end, the beginning, or one of the above.
Turn(r) ==
    \/ body'[r] = body[r]
    \/ body'[r].pc = "free" /\ body'[r].wf = None
    \/ /\ body[r].pc = "free" /\ body'[r].pc \in {"check", "deadline"}
       /\ body'[r].wf \in Workflow /\ body'[r].pos = 1
    \/ /\ body[r].pc # "free" /\ body'[r].pc # "free" /\ body'[r].wf = body[r].wf
       /\ GoesOn(r) \/ StaysAt(r)

\* Only one slot changes.
LEMMA OneTurn ==
    ASSUME body \in [Run -> Body], NEW r \in Run, NEW y, body' = [body EXCEPT ![r] = y],
           body'[r] = y => Turn(r)
    PROVE  \A s \in Run : Turn(s)
<1>1. body'[r] = y /\ \A s \in Run \ {r} : body'[s] = body[s]
  OBVIOUS
<1>2. \A s \in Run \ {r} : Turn(s)
  BY <1>1 DEF Turn
<1> QED
  BY <1>1, <1>2

\* Every step of a body is a turn of that body, or two at the end of a stream.
LEMMA BodyTurns ==
    ASSUME TypeOK, RecvInv, NEW r \in Run, BodyStep(r)
    PROVE  \A s \in Run : Turn(s)
<1> USE DEF tables
<1>0. body[r].pc # "free"
  BY DEF BodyStep, Check, Record, CheckDeadline, RecordDeadline, Wait, Send, Select, Consume, SetEvent,
         GetEvent, Probe, AppendEntry, Finish, AwaitOutcome
<1> PICK w, i, v : w = body[r].wf /\ i = body[r].pos /\ v = body[r].val
  OBVIOUS
<1>1. /\ program \in Programs /\ body \in [Run -> Body] /\ body[r] \in Body
      /\ w \in Workflow /\ i \in Place /\ i \in DOMAIN program[w] /\ v \in Result
      /\ journal[w][i] \in Result /\ At(r) \in Operation /\ HandOK(body[r])
  BY <1>0, InProgressType DEF Tables, Bodies, RecvInv
<1>2. body[r].pc \in Awake => At(r).op # "sleep"
  BY <1>0, <1>1 DEF HandOK, At
<1>3. ASSUME NEW p, body[r].pc # p, p # "free", Goto(r, p),
             \/ p \in {"failed", "setDeadline", "wait", "deadline", "await"}
             \/ body[r].pc = "check" /\ p \in {"act", "probe"} /\ journal[w][i] = Missing
             \/ body[r].pc = "probe" /\ p = "append"
             \/ /\ body[r].pc = "wait" /\ p = "take"
                /\ Ready(w, At(r)) \/ deadline[w][i] = "past" \/ r \in stopping
             \/ body[r].pc = "consume" /\ p = "record"
      PROVE  \A s \in Run : Turn(s)
  <2> PICK y : y = [body[r] EXCEPT !.pc = p]
    OBVIOUS
  <2>1. y.pc = p /\ y.wf = w /\ y.pos = i /\ y.val = v
    BY <1>1 DEF Body
  <2>2. body' = [body EXCEPT ![r] = y]
    BY <1>3 DEF Goto
  <2>3. ASSUME body'[r] = y PROVE Turn(r)
    <3>1. StaysAt(r)
      BY <1>3, <2>1, <2>3 DEF StaysAt
    <3> QED
      BY <1>0, <1>3, <2>1, <2>3, <3>1 DEF Turn
  <2> QED
    BY <1>1, <2>2, <2>3, OneTurn
<1>4. ASSUME NEW p \in {"record", "consume"}, NEW u, body' = [body EXCEPT ![r].pc = p, ![r].val = u],
             \/ body[r].pc \in {"act", "append"} /\ p = "record" /\ u.kind \in {"ok", "noDestination"}
             \/ /\ body[r].pc = "take" /\ p = "record" /\ At(r).op = "recv"
                /\ Unconsumed(w) = {} /\ u = Plain("timeout")
             \/ /\ body[r].pc = "take" /\ p = "record" /\ At(r).op = "getEvent"
                /\ u = [kind |-> "event", id |-> event[At(r).with]]
             \/ /\ body[r].pc = "take" /\ p = "consume" /\ At(r).op = "recv"
                /\ \E n \in Oldest(w) : u = [kind |-> "message", id |-> n]
      PROVE  \A s \in Run : Turn(s)
  <2> PICK y : y = [body[r] EXCEPT !.pc = p, !.val = u]
    OBVIOUS
  <2>1. y.pc = p /\ y.wf = w /\ y.pos = i /\ y.val = u
    BY <1>1 DEF Body
  <2>2. body' = [body EXCEPT ![r] = y]
    BY <1>1, <1>4
  <2>3. ASSUME body'[r] = y PROVE Turn(r)
    <3>1. StaysAt(r)
      BY <1>4, <2>1, <2>3 DEF StaysAt
    <3> QED
      BY <1>0, <1>4, <2>1, <2>3, <3>1 DEF Turn
  <2> QED
    BY <1>1, <2>2, <2>3, OneTurn
<1>5. ASSUME NEW u \in Result, body' = [body EXCEPT ![r] = Advance(@, u)],
             At(r).op = "sleep" => deadline[w][i] = "past" \/ r \in stopping
      PROVE  \A s \in Run : Turn(s)
  <2> PICK y : y = Advance(body[r], u)
    OBVIOUS
  <2>1. /\ y.wf = w /\ y.pc \in {"failed", "finished", "check", "deadline"} /\ y.pos \in {i, i + 1}
        /\ y.pc = "finished" => i = Len(program[w])
    BY <1>1, AdvanceType
  <2>2. body' = [body EXCEPT ![r] = y]
    BY <1>5
  <2>3. ASSUME body'[r] = y PROVE Turn(r)
    <3>1. GoesOn(r)
      BY <1>5, <2>1, <2>3 DEF GoesOn
    <3> QED
      BY <1>0, <2>1, <2>3, <3>1 DEF Turn
  <2> QED
    BY <1>1, <2>2, <2>3, OneTurn
<1>6. CASE Check(r)
  <2>1. body[r].pc = "check" /\ At(r).op # "sleep"
    BY <1>2, <1>6 DEF Check, Awake
  <2>2. CASE status[w] = "CANCELLED"
    <3>1. Goto(r, "failed")
      BY <1>6, <2>2 DEF Check
    <3> QED
      BY <1>3, <2>1, <3>1
  <2>3. CASE status[w] # "CANCELLED" /\ journal[w][i] # Missing
    <3>1. body' = [body EXCEPT ![r] = Advance(@, journal[w][i])]
      BY <1>6, <2>3 DEF Check
    <3> QED
      BY <1>1, <1>5, <2>1, <3>1
  <2>4. CASE status[w] # "CANCELLED" /\ journal[w][i] = Missing
    <3>1. PICK p : p = Act(At(r)) /\ Goto(r, p)
      BY <1>6, <2>4 DEF Check
    <3>2. p \in {"act", "deadline", "probe"}
      BY <1>1, <2>1, <3>1, EntryType
    <3> QED
      BY <1>3, <2>1, <2>4, <3>1, <3>2
  <2> QED
    BY <2>2, <2>3, <2>4
<1>7. CASE Record(r)
  <2>1. body[r].pc = "record" /\ At(r).op # "sleep"
    BY <1>2, <1>7 DEF Record, Awake
  <2>2. CASE journal[w][i] = Missing
    <3>1. body' = [body EXCEPT ![r] = Advance(@, v)]
      BY <1>1, <1>7, <2>2 DEF Record
    <3> QED
      BY <1>1, <1>5, <2>1, <3>1
  <2>3. CASE journal[w][i] # Missing
    <3>1. Goto(r, "await")
      BY <1>7, <2>3 DEF Record
    <3> QED
      BY <1>3, <2>1, <3>1
  <2> QED
    BY <2>2, <2>3
<1>8. CASE CheckDeadline(r)
  <2>1. PICK p \in {"failed", "setDeadline", "wait"} : Goto(r, p) /\ body[r].pc = "deadline"
    BY <1>8 DEF CheckDeadline
  <2> QED
    BY <1>3, <2>1
<1>9. CASE RecordDeadline(r)
  <2>1. PICK p \in {"wait", "deadline"} : Goto(r, p) /\ body[r].pc = "setDeadline"
    BY <1>9 DEF RecordDeadline
  <2> QED
    BY <1>3, <2>1
<1>10. CASE Wait(r)
  <2>1. /\ body[r].pc = "wait"
        /\ Ready(w, At(r)) \/ deadline[w][i] = "past" \/ r \in stopping
    BY <1>10 DEF Wait
  <2>2. CASE At(r).op = "sleep"
    <3>1. body' = [body EXCEPT ![r] = Advance(@, Plain("ok"))]
      BY <1>10, <2>2 DEF Wait
    <3>2. ~Ready(w, At(r)) /\ Plain("ok") \in Result
      BY <2>2, PlainType DEF Ready
    <3> QED
      BY <1>5, <2>1, <3>1, <3>2
  <2>3. CASE At(r).op # "sleep"
    <3>1. Goto(r, "take")
      BY <1>10, <2>3 DEF Wait
    <3> QED
      BY <1>3, <2>1, <3>1
  <2> QED
    BY <2>2, <2>3
<1>11. CASE Send(r) \/ SetEvent(r)
  <2>1. PICK u \in {Plain("noDestination"), Plain("ok")} :
          body[r].pc = "act" /\ body' = [body EXCEPT ![r].pc = "record", ![r].val = u]
    BY <1>11 DEF Send, SetEvent
  <2>2. u.kind \in {"ok", "noDestination"}
    BY DEF Plain
  <2> QED
    BY <1>4, <2>1, <2>2
<1>12. CASE Select(r)
  <2>1. body[r].pc = "take" /\ At(r).op = "recv"
    BY <1>12 DEF Select
  <2>2. CASE Unconsumed(w) = {}
    <3>1. body' = [body EXCEPT ![r].pc = "record", ![r].val = Plain("timeout")]
      BY <1>12, <2>2 DEF Select
    <3> QED
      BY <1>4, <2>1, <2>2, <3>1
  <2>3. CASE Unconsumed(w) # {}
    <3>1. PICK n \in Oldest(w) :
            body' = [body EXCEPT ![r].pc = "consume", ![r].val = [kind |-> "message", id |-> n]]
      BY <1>12, <2>3 DEF Select
    <3> PICK u : u = [kind |-> "message", id |-> n]
      OBVIOUS
    <3> QED
      BY <1>4, <2>1, <3>1
  <2> QED
    BY <2>2, <2>3
<1>13. CASE Consume(r)
  <2>1. body[r].pc = "consume" /\ Goto(r, "record")
    BY <1>13 DEF Consume
  <2> QED
    BY <1>3, <2>1
<1>14. CASE GetEvent(r)
  <2> PICK u : u = [kind |-> "event", id |-> event[At(r).with]]
    OBVIOUS
  <2>1. body[r].pc = "take" /\ At(r).op = "getEvent" /\ body' = [body EXCEPT ![r].pc = "record", ![r].val = u]
    BY <1>14 DEF GetEvent
  <2> QED
    BY <1>4, <2>1
<1>15. CASE Probe(r)
  <2>1. PICK p \in {"failed", "append"} : Goto(r, p) /\ body[r].pc = "probe"
    BY <1>15 DEF Probe
  <2> QED
    BY <1>3, <2>1
<1>16. CASE Finish(r) \/ AwaitOutcome(r)
  <2>1. body' = [body EXCEPT ![r] = Free]
    BY <1>16 DEF Finish, AwaitOutcome
  <2>2. Free.pc = "free" /\ Free.wf = None
    BY DEF Free
  <2>3. ASSUME body'[r] = Free PROVE Turn(r)
    BY <2>2, <2>3 DEF Turn
  <2> QED
    BY <1>1, <2>1, <2>3, OneTurn
<1>17. CASE AppendEntry(r)
  <2> DEFINE rivals == {s \in Run \ {r} : body[s].pc = "append" /\ body[s].wf = body[r].wf}
             y == [body[r] EXCEPT !.pc = "record", !.val = Plain("ok")]
             z(s) == [body[s] EXCEPT !.pc = "failed"]
  <2>1. PICK collide \in SUBSET rivals :
          body' = [s \in Run |-> IF s = r THEN y ELSE IF s \in collide THEN z(s) ELSE body[s]]
    BY <1>17 DEF AppendEntry
  <2>2. y.pc = "record" /\ y.val.kind = "ok" /\ y.wf = body[r].wf /\ y.pos = body[r].pos
    BY <1>1 DEF Body, Plain
  <2>3. ASSUME NEW s \in Run PROVE z(s).pc = "failed" /\ z(s).wf = body[s].wf /\ z(s).pos = body[s].pos
    BY <1>1 DEF Body
  <2>4. body[r].pc = "append"
    BY <1>17 DEF AppendEntry
  <2> HIDE DEF y, z
  <2>5. ASSUME NEW s \in Run PROVE Turn(s)
    <3>1. CASE s = r
      <4>1. body'[s] = y
        BY <2>1, <3>1
      <4>2. StaysAt(s)
        BY <2>2, <2>4, <3>1, <4>1 DEF StaysAt
      <4> QED
        BY <1>0, <2>2, <3>1, <4>1, <4>2 DEF Turn
    <3>2. CASE s # r /\ s \in collide
      <4>1. body'[s] = z(s) /\ body[s].pc = "append"
        BY <2>1, <3>2
      <4>2. StaysAt(s)
        BY <2>3, <4>1 DEF StaysAt
      <4> QED
        BY <2>3, <4>1, <4>2 DEF Turn
    <3>3. CASE s # r /\ s \notin collide
      BY <2>1, <3>3 DEF Turn
    <3> QED
      BY <3>1, <3>2, <3>3
  <2> QED
    BY <2>5
<1> QED
  BY <1>6, <1>7, <1>8, <1>9, <1>10, <1>11, <1>12, <1>13, <1>14, <1>15, <1>16, <1>17 DEF BodyStep

\* And so is every other step.
LEMMA Turns ==
    ASSUME TypeOK, RecvInv, [Next]_vars
    PROVE  \A s \in Run : Turn(s)
<1>1. CASE body' = body
  BY <1>1 DEF Turn
<1>2. ASSUME NEW r \in Run, Crash(r) PROVE \A s \in Run : Turn(s)
  <2>1. body \in [Run -> Body] /\ body' = [body EXCEPT ![r] = Free]
    BY <1>2, Halves DEF Crash, Bodies
  <2>2. ASSUME body'[r] = Free PROVE Turn(r)
    BY <2>2 DEF Turn, Free
  <2> QED
    BY <2>1, <2>2, OneTurn
<1>3. ASSUME NEW r \in Run, NEW w \in Workflow, Begin(r, w) PROVE \A s \in Run : Turn(s)
  <2> PICK y : y = [pc |-> Entry(program[w][1]), wf |-> w, pos |-> 1, val |-> Missing]
    OBVIOUS
  <2>1. body \in [Run -> Body] /\ body' = [body EXCEPT ![r] = y] /\ body[r].pc = "free" /\ program \in Programs
    BY <1>3, Halves DEF Begin, Bodies, Tables
  <2>2. program[w][1] \in Operation
    BY <2>1, ProgramType
  <2>3. y.pc \in {"check", "deadline"} /\ y.wf = w /\ y.pos = 1
    BY <2>2, EntryType
  <2>4. ASSUME body'[r] = y PROVE Turn(r)
    BY <2>1, <2>3, <2>4 DEF Turn
  <2> QED
    BY <2>1, <2>4, OneTurn
<1>4. CASE Next
  BY <1>1, <1>2, <1>3, <1>4, BodyTurns DEF Next, Shutdown, Cancel, SendFromOutside, Pass
<1>5. CASE UNCHANGED vars
  BY <1>1, <1>5 DEF vars
<1> QED
  BY <1>4, <1>5

\* What the tables keep: nothing is taken back.
TablesOnlyGrow ==
    /\ program' = program
    /\ \A w \in Workflow : \A n \in DOMAIN inbox[w] :
          /\ n \in DOMAIN inbox'[w]
          /\ inbox'[w][n].at = inbox[w][n].at
          /\ inbox[w][n].consumed => inbox'[w][n].consumed
    /\ \A w \in Workflow : event[w] # 0 => event'[w] # 0
    /\ \A w \in Workflow : \A i \in Place : deadline[w][i] = "past" => deadline'[w][i] = "past"
    /\ \A h \in Happenings : happened'[h] = 0 => happened[h] = 0

\* A message is consumed by a body that has it in its hand.
OnlyTaken ==
    \A w \in Workflow : Unconsumed(w) # {} =>
        \/ \E n : n \in DOMAIN inbox'[w] /\ ~inbox'[w][n].consumed
        \/ \E r \in Run : body[r].wf = w /\ body[r].pc = "consume"

\* The journal changes where a body records for the first time.
OnlyRecorded ==
    \A w \in Workflow : \A i \in Place :
        \/ journal'[w][i] = journal[w][i]
        \/ /\ journal[w][i] = Missing
           /\ \E r \in Run : /\ body[r].pc = "record" /\ body[r].wf = w /\ body[r].pos = i
                             /\ journal'[w][i] = body[r].val

\* A shutdown is counted.
OnlyShutdown == happened'["shutdown"] = 0 => stopping' \subseteq stopping

\* A message delivered: where it goes, what it is.
LEMMA Delivered ==
    ASSUME Tables, NEW w \in Workflow, NEW f \in Workflow \cup {None}, NEW i \in Nat, Deliver(w, f, i)
    PROVE  \E m \in Note :
             /\ m.from = f /\ m.pos = i
             /\ inbox'[w] = Append(inbox[w], m)
             /\ \A v \in Workflow \ {w} : inbox'[v] = inbox[v]
             /\ \A v \in Workflow : \A n \in DOMAIN inbox[v] :
                   n \in DOMAIN inbox'[v] /\ inbox'[v][n] = inbox[v][n]
<1>1. PICK t \in Time : inbox' = [inbox EXCEPT ![w] = Append(@, [from |-> f, pos |-> i, at |-> t, consumed |-> FALSE])]
  BY DEF Deliver
<1> PICK m : m = [from |-> f, pos |-> i, at |-> t, consumed |-> FALSE]
  OBVIOUS
<1>2. m \in Note /\ m.from = f /\ m.pos = i
  BY DEF Note
<1>3. inbox' = [inbox EXCEPT ![w] = Append(inbox[w], m)]
  BY <1>1
<1>4. /\ inbox'[w] = Append(inbox[w], m)
      /\ \A v \in Workflow \ {w} : inbox'[v] = inbox[v]
  BY <1>3 DEF Tables
<1> QED
  BY <1>2, <1>4, DeliverType

\* A message consumed: its time stays.
LEMMA ConsumedKeeps ==
    ASSUME Tables, NEW w \in Workflow, NEW k \in DOMAIN inbox[w],
           inbox' = [inbox EXCEPT ![w] = [inbox[w] EXCEPT ![k] = [inbox[w][k] EXCEPT !.consumed = TRUE]]]
    PROVE  /\ \A v \in Workflow : \A n \in DOMAIN inbox[v] :
                /\ n \in DOMAIN inbox'[v] /\ inbox'[v][n].at = inbox[v][n].at
                /\ inbox[v][n].consumed => inbox'[v][n].consumed
           /\ \A v \in Workflow : Len(inbox'[v]) = Len(inbox[v])
           /\ \A v \in Workflow \ {w} : inbox'[v] = inbox[v]
<1> PICK m : m = [inbox[w][k] EXCEPT !.consumed = TRUE]
  OBVIOUS
<1> PICK b : b = [inbox[w] EXCEPT ![k] = m]
  OBVIOUS
<1>1. inbox[w] \in Seq(Note) /\ inbox[w][k] \in Note
  BY DEF Tables
<1>2. m \in Note /\ m.at = inbox[w][k].at
  BY <1>1 DEF Note
<1>3. b \in Seq(Note) /\ DOMAIN b = DOMAIN inbox[w] /\ b[k] = m /\ \A n \in DOMAIN b \ {k} : b[n] = inbox[w][n]
  BY <1>1, <1>2
<1>4. Len(b) = Len(inbox[w])
  BY <1>1, <1>3
<1>5. inbox' = [inbox EXCEPT ![w] = b]
  OBVIOUS
<1>6. inbox'[w] = b /\ \A v \in Workflow \ {w} : inbox'[v] = inbox[v]
  BY <1>5 DEF Tables
<1>7. \A v \in Workflow : \A n \in DOMAIN inbox[v] : inbox'[v][n].at = inbox[v][n].at
  <2>1. ASSUME NEW n \in DOMAIN inbox[w] PROVE b[n].at = inbox[w][n].at
    BY <1>2, <1>3
  <2> QED
    BY <1>6, <2>1
<1> QED
  BY <1>4, <1>6, <1>7, ConsumeType

\* Steps that leave the inboxes alone.
LEMMA InboxKept ==
    ASSUME inbox' = inbox
    PROVE  /\ \A w \in Workflow : \A n \in DOMAIN inbox[w] :
                /\ n \in DOMAIN inbox'[w]
                /\ inbox'[w][n].at = inbox[w][n].at
                /\ inbox[w][n].consumed => inbox'[w][n].consumed
           /\ OnlyTaken
  BY DEF OnlyTaken, Unconsumed

\* What a step does to the inboxes.
LEMMA InboxStepKeeps ==
    ASSUME TypeOK, [Next]_vars
    PROVE  /\ \A w \in Workflow : \A n \in DOMAIN inbox[w] :
                /\ n \in DOMAIN inbox'[w]
                /\ inbox'[w][n].at = inbox[w][n].at
                /\ inbox[w][n].consumed => inbox'[w][n].consumed
           /\ OnlyTaken
<1> USE DEF tables
<1>0. Tables
  BY Halves
<1>1. CASE inbox' = inbox
  BY <1>1, InboxKept
<1>2. ASSUME NEW w \in Workflow, NEW f \in Workflow \cup {None}, NEW i \in Nat, Deliver(w, f, i)
      PROVE  /\ \A x \in Workflow : \A n \in DOMAIN inbox[x] :
                   /\ n \in DOMAIN inbox'[x]
                   /\ inbox'[x][n].at = inbox[x][n].at
                   /\ inbox[x][n].consumed => inbox'[x][n].consumed
             /\ OnlyTaken
  <2>1. \A x \in Workflow : \A n \in DOMAIN inbox[x] : n \in DOMAIN inbox'[x] /\ inbox'[x][n] = inbox[x][n]
    BY <1>0, <1>2, Delivered
  <2> QED
    BY <2>1 DEF OnlyTaken, Unconsumed
<1>3. ASSUME NEW r \in Run, Consume(r)
      PROVE  /\ \A x \in Workflow : \A n \in DOMAIN inbox[x] :
                   /\ n \in DOMAIN inbox'[x]
                   /\ inbox'[x][n].at = inbox[x][n].at
                   /\ inbox[x][n].consumed => inbox'[x][n].consumed
             /\ OnlyTaken
  <2> PICK w, k : w = body[r].wf /\ k = body[r].val.id
    OBVIOUS
  <2>1. body[r].pc = "consume" /\ w \in Workflow /\ k \in DOMAIN inbox[w]
    BY <1>3, InProgressType DEF Consume
  <2>2. inbox' = [inbox EXCEPT ![w] = [inbox[w] EXCEPT ![k] = [inbox[w][k] EXCEPT !.consumed = TRUE]]]
    BY <1>3 DEF Consume
  <2>3. /\ \A x \in Workflow : \A n \in DOMAIN inbox[x] :
             /\ n \in DOMAIN inbox'[x] /\ inbox'[x][n].at = inbox[x][n].at
             /\ inbox[x][n].consumed => inbox'[x][n].consumed
        /\ \A x \in Workflow \ {w} : inbox'[x] = inbox[x]
    BY <1>0, <2>1, <2>2, ConsumedKeeps
  <2>4. OnlyTaken
    BY <2>1, <2>3 DEF OnlyTaken, Unconsumed
  <2> QED
    BY <2>3, <2>4
<1>4. ASSUME NEW r \in Run, Send(r), inbox' # inbox
      PROVE  \E w \in Workflow, f \in Workflow \cup {None}, i \in Nat : Deliver(w, f, i)
  <2>1. /\ body[r].wf \in Workflow /\ body[r].pos \in Nat /\ At(r).with \in Workflow
        /\ Deliver(At(r).with, body[r].wf, body[r].pos)
    BY <1>4, InProgressType DEF Send, Place
  <2> QED
    BY <2>1
<1>5. ASSUME NEW w \in Workflow, SendFromOutside(w) PROVE Deliver(w, None, 0)
  BY <1>5 DEF SendFromOutside
<1>6. \/ inbox' = inbox
      \/ \E r \in Run : Send(r) /\ inbox' # inbox
      \/ \E r \in Run : Consume(r)
      \/ \E w \in Workflow : SendFromOutside(w)
  BY DEF Next, vars, BodyStep, Check, Record, CheckDeadline, RecordDeadline, Wait, Select, SetEvent, GetEvent,
         Probe, AppendEntry, Finish, AwaitOutcome, Crash, Shutdown, Begin, Cancel, Pass
<1> QED
  BY <1>1, <1>2, <1>3, <1>4, <1>5, <1>6

\* What a step does to the journal.
LEMMA JournalStep ==
    ASSUME TypeOK, [Next]_vars
    PROVE  OnlyRecorded
<1> USE DEF tables
<1>1. CASE journal' = journal
  BY <1>1 DEF OnlyRecorded
<1>2. ASSUME NEW r \in Run, Record(r), journal' # journal PROVE OnlyRecorded
  <2> PICK w, i, v : w = body[r].wf /\ i = body[r].pos /\ v = body[r].val
    OBVIOUS
  <2>1. /\ body[r].pc = "record" /\ w \in Workflow /\ i \in Place
        /\ journal \in [Workflow -> [Place -> Result]] /\ v \in Result
    BY <1>2, InProgressType DEF Record, Tables
  <2>2. journal[w][i] = Missing /\ journal' = [journal EXCEPT ![w][i] = v]
    BY <1>2 DEF Record
  <2>3. \A x \in Workflow : \A j \in Place :
           journal'[x][j] = IF x = w /\ j = i THEN v ELSE journal[x][j]
    BY <2>1, <2>2
  <2> QED
    BY <2>1, <2>2, <2>3 DEF OnlyRecorded
<1>3. journal' = journal \/ \E r \in Run : Record(r) /\ journal' # journal
  BY DEF Next, vars, BodyStep, Check, CheckDeadline, RecordDeadline, Wait, Send, Select, Consume, SetEvent, GetEvent,
         Probe, AppendEntry, Finish, AwaitOutcome, Crash, Shutdown, Begin, Cancel, Pass, SendFromOutside
<1> QED
  BY <1>1, <1>2, <1>3

\* What a step does to the deadlines, the events, and the counts.
LEMMA DeadlineStep ==
    ASSUME TypeOK, [Next]_vars
    PROVE  \A w \in Workflow : \A i \in Place : deadline[w][i] = "past" => deadline'[w][i] = "past"
<1> USE DEF tables
<1>0. deadline \in [Workflow -> [Place -> {"none", "running", "past"}]]
  BY DEF TypeOK
<1>1. ASSUME NEW r \in Run, RecordDeadline(r), deadline' # deadline
      PROVE  \A w \in Workflow : \A i \in Place : deadline[w][i] = "past" => deadline'[w][i] = "past"
  <2> PICK w, i : w = body[r].wf /\ i = body[r].pos
    OBVIOUS
  <2>1. w \in Workflow /\ i \in Place
    BY <1>1, InProgressType DEF RecordDeadline
  <2>2. deadline[w][i] = "none" /\ deadline' = [deadline EXCEPT ![w][i] = "running"]
    BY <1>1 DEF RecordDeadline
  <2> QED
    BY <1>0, <2>1, <2>2
<1>2. ASSUME NEW w \in Workflow, NEW i \in Place, Pass(w, i)
      PROVE  \A x \in Workflow : \A j \in Place : deadline[x][j] = "past" => deadline'[x][j] = "past"
  <2>1. deadline' = [deadline EXCEPT ![w][i] = "past"]
    BY <1>2 DEF Pass
  <2> QED
    BY <1>0, <2>1
<1>3. \/ deadline' = deadline
      \/ \E r \in Run : RecordDeadline(r) /\ deadline' # deadline
      \/ \E w \in Workflow : \E i \in Place : Pass(w, i)
  BY DEF Next, vars, BodyStep, Check, Record, CheckDeadline, Wait, Send, Select, Consume, SetEvent, GetEvent,
         Probe, AppendEntry, Finish, AwaitOutcome, Crash, Shutdown, Begin, Cancel, SendFromOutside
<1> QED
  BY <1>1, <1>2, <1>3

\* An event is set only by a body that acts at its own place.
LEMMA EventStep ==
    ASSUME TypeOK, [Next]_vars
    PROVE  \A w \in Workflow : \/ event'[w] = event[w]
                               \/ \E r \in Run : /\ body[r].pc = "act" /\ body[r].wf = w
                                                 /\ event'[w] = body[r].pos /\ body[r].pos \in Place
<1> USE DEF tables
<1>1. ASSUME NEW r \in Run, SetEvent(r)
      PROVE  \A w \in Workflow : \/ event'[w] = event[w]
                                 \/ \E s \in Run : /\ body[s].pc = "act" /\ body[s].wf = w
                                                   /\ event'[w] = body[s].pos /\ body[s].pos \in Place
  <2>1. event \in [Workflow -> {0} \cup Place] /\ body[r].pos \in Place
    BY <1>1, InProgressType DEF SetEvent, Tables
  <2>2. event' = [event EXCEPT ![body[r].wf] = body[r].pos] /\ body[r].pc = "act"
    BY <1>1 DEF SetEvent
  <2> QED
    BY <2>1, <2>2
<1>2. event' = event \/ \E r \in Run : SetEvent(r)
  BY DEF Next, vars, BodyStep, Check, Record, CheckDeadline, RecordDeadline, Wait, Send, Select, Consume, GetEvent,
         Probe, AppendEntry, Finish, AwaitOutcome, Crash, Shutdown, Begin, Cancel, Pass, SendFromOutside
<1> QED
  BY <1>1, <1>2

\* What has happened is never forgotten, and nothing stops before a shutdown.
LEMMA HappenedStep ==
    ASSUME TypeOK, [Next]_vars
    PROVE  (\A h \in Happenings : happened'[h] = 0 => happened[h] = 0) /\ OnlyShutdown
<1>0. happened \in [Happenings -> Nat]
  BY DEF TypeOK
<1>1. ASSUME NEW k \in Happenings, Happens(k)
      PROVE  (\A h \in Happenings : happened'[h] = 0 => happened[h] = 0) /\ happened'[k] # 0
  <2>1. happened' = [happened EXCEPT ![k] = @ + 1]
    BY <1>1 DEF Happens
  <2> QED
    BY <1>0, <2>1
<1>2. happened' = happened \/ \E k \in Happenings : Happens(k)
  BY DEF Next, vars, BodyStep, Check, Record, CheckDeadline, RecordDeadline, Wait, Send, Select, Consume, SetEvent,
         GetEvent, Probe, AppendEntry, Finish, AwaitOutcome, Crash, Shutdown, Begin, Cancel, Pass, SendFromOutside,
         Happenings
<1>3. stopping' \subseteq stopping \/ \E r \in Run : Shutdown(r)
  BY DEF Next, vars, BodyStep, Check, Record, CheckDeadline, RecordDeadline, Wait, Send, Select, Consume, SetEvent,
         GetEvent, Probe, AppendEntry, Finish, AwaitOutcome, Crash, Begin, Cancel, Pass, SendFromOutside
<1>4. ASSUME NEW r \in Run, Shutdown(r) PROVE happened'["shutdown"] # 0
  BY <1>1, <1>4 DEF Shutdown, Happenings
<1> QED
  BY <1>1, <1>2, <1>3, <1>4 DEF OnlyShutdown

\* All of them.
LEMMA TablesStep ==
    ASSUME TypeOK, [Next]_vars
    PROVE  TablesOnlyGrow /\ OnlyTaken /\ OnlyRecorded /\ OnlyShutdown
<1>1. program' = program
  BY DEF Next, vars, BodyStep, Check, Record, CheckDeadline, RecordDeadline, Wait, Send, Select, Consume, SetEvent,
         GetEvent, Probe, AppendEntry, Finish, AwaitOutcome, Crash, Shutdown, Begin, Cancel, Pass, SendFromOutside
<1>2. \A w \in Workflow : event[w] # 0 => event'[w] # 0
  BY EventStep DEF Place
<1> QED
  BY <1>1, <1>2, InboxStepKeeps, JournalStep, DeadlineStep, HappenedStep DEF TablesOnlyGrow

\* An entry is appended to one stream.
LEMMA StreamStep ==
    ASSUME TypeOK, [Next]_vars
    PROVE  \A w \in Workflow :
              \/ stream'[w] = stream[w]
              \/ \E r \in Run : /\ body[r].pc = "append" /\ body[r].wf = w /\ body[r].pos \in Place
                                /\ stream'[w] = Append(stream[w], body[r].pos)
<1> USE DEF tables
<1>1. ASSUME NEW r \in Run, AppendEntry(r)
      PROVE  \A w \in Workflow :
                \/ stream'[w] = stream[w]
                \/ \E s \in Run : /\ body[s].pc = "append" /\ body[s].wf = w /\ body[s].pos \in Place
                                  /\ stream'[w] = Append(stream[w], body[s].pos)
  <2> PICK w, i : w = body[r].wf /\ i = body[r].pos
    OBVIOUS
  <2>1. stream \in [Workflow -> Seq(Place)] /\ i \in Place /\ w \in Workflow /\ body[r].pc = "append"
    BY <1>1, InProgressType DEF AppendEntry, Tables
  <2>2. stream' = [stream EXCEPT ![w] = Append(stream[w], i)]
    BY <1>1 DEF AppendEntry, Appended
  <2>3. stream'[w] = Append(stream[w], i) /\ \A x \in Workflow \ {w} : stream'[x] = stream[x]
    BY <2>1, <2>2
  <2> QED
    BY <2>1, <2>3
<1>2. stream' = stream \/ \E r \in Run : AppendEntry(r)
  BY DEF Next, vars, BodyStep, Check, Record, CheckDeadline, RecordDeadline, Wait, Send, Select, Consume, SetEvent,
         GetEvent, Probe, Finish, AwaitOutcome, Crash, Shutdown, Begin, Cancel, Pass, SendFromOutside
<1> QED
  BY <1>1, <1>2

\* Readers of a stream never see a value go or change, nor one behind the end
\* once they have seen the end, though rivals and bodies that run again append
\* to a stream that is closed: what is readable is a prefix that only grows, up
\* to the first end marker.
THEOREM ReadersSeeNothingGo == Spec => StreamOnlyGrows
<1> DEFINE Grows ==
        \A w \in Workflow :
          LET old == Readable(w, stream[w])
              new == Readable(w, stream'[w])
          IN  /\ Len(old) <= Len(new)
              /\ \A n \in DOMAIN old : new[n] = old[n]
              /\ Closed(w, stream[w]) => Len(new) = Len(old)
<1>1. ASSUME TypeOK, [Next]_vars PROVE Grows
  <2>1. ASSUME NEW w \in Workflow
        PROVE  /\ Len(Readable(w, stream[w])) <= Len(Readable(w, stream'[w]))
               /\ \A n \in DOMAIN Readable(w, stream[w]) : Readable(w, stream'[w])[n] = Readable(w, stream[w])[n]
               /\ Closed(w, stream[w]) => Len(Readable(w, stream'[w])) = Len(Readable(w, stream[w]))
    <3> PICK s, t : s = stream[w] /\ t = stream'[w]
      OBVIOUS
    <3>1. s \in Seq(Place)
      BY <1>1 DEF TypeOK
    <3>2. CASE t = s
      <4>1. Len(Readable(w, s)) \in Nat
        BY <3>1, ReadableIs
      <4> QED
        BY <3>2, <4>1
    <3>3. CASE t # s
      <4>1. PICK p \in Place : t = Append(s, p)
        BY <1>1, <3>3, StreamStep
      <4>2. t \in Seq(Place)
        BY <3>1, <4>1
      <4>3. Prolongs(w, s, t)
        BY <3>1, <4>1, <4>2, OneEntryMore
      <4> QED
        BY <4>3 DEF Prolongs
    <3> QED
      BY <3>2, <3>3
  <2> QED
    BY <2>1
<1>2. TypeOK /\ [Next]_vars => [Grows]_vars
  BY <1>1
<1> QED
  BY <1>2, CommunicationTyping, PTL DEF Spec, StreamOnlyGrows

------------------------------------------------------------------------------
(* What is recorded does not act again.                                    *)

\* Without a rival a workflow has one body.
Alone ==
    /\ \A r \in Run : body[r].pc = "free" => body[r].wf = None
    /\ Never("rival") => \A r, s \in Run : body[r].pc # "free" /\ body[s].wf = body[r].wf => s = r

\* Then nobody else records the operation that a body is about to perform.
ActsOnce ==
    Never("rival") => \A r \in Run : body[r].pc \in {"act", "probe", "append"} => ~Recorded(body[r].wf, body[r].pos)

\* A body begins: it is a rival, or the workflow has no other.
LEMMA BeginningAlone ==
    ASSUME TypeOK, NEW r \in Run, NEW w \in Workflow, Begin(r, w), happened'["rival"] = 0
    PROVE  \A s \in Run : body[s].wf # w
<1>1. happened \in [Happenings -> Nat]
  BY DEF TypeOK
<1>2. ~Happens("rival")
  BY <1>1 DEF Happens, Happenings
<1>3. InProgress(w) = {}
  BY <1>2 DEF Begin
<1> QED
  BY <1>3 DEF InProgress

\* Only one body begins in a step.
LEMMA Beginnings ==
    ASSUME TypeOK, RecvInv, Alone, [Next]_vars
    PROVE  \/ \A s \in Run : body'[s].wf \in {body[s].wf, None}
           \/ \E r \in Run, w \in Workflow :
                 /\ \A s \in Run \ {r} : body'[s] = body[s]
                 /\ body'[r].wf = w
                 /\ happened'["rival"] = 0 => \A s \in Run : body[s].wf # w
<1>1. ASSUME NEW r \in Run, NEW w \in Workflow, Begin(r, w)
      PROVE  /\ \A s \in Run \ {r} : body'[s] = body[s]
             /\ body'[r].wf = w
             /\ happened'["rival"] = 0 => \A s \in Run : body[s].wf # w
  <2>1. body \in [Run -> Body]
    BY DEF TypeOK
  <2> QED
    BY <1>1, <2>1, BeginningAlone DEF Begin
<1>2. ASSUME NEW s \in Run, body[s].pc # "free" \/ body'[s] = body[s] PROVE body'[s].wf \in {body[s].wf, None}
  BY <1>2, Turns DEF Turn
<1>3. CASE ~\E r \in Run, w \in Workflow : Begin(r, w)
  <2>1. ASSUME NEW s \in Run, body[s].pc = "free" PROVE body'[s] = body[s]
    <3>1. body \in [Run -> Body]
      BY DEF TypeOK
    <3>2. ASSUME NEW r \in Run, BodyStep(r), body'[s] # body[s] PROVE FALSE
      <4>1. body[r].pc # "free"
        BY <3>2 DEF BodyStep, Check, Record, CheckDeadline, RecordDeadline, Wait, Send, Select, Consume, SetEvent,
               GetEvent, Probe, AppendEntry, Finish, AwaitOutcome
      <4>2. CASE AppendEntry(r)
        BY <2>1, <3>2, <4>1, <4>2 DEF AppendEntry
      <4>3. CASE ~AppendEntry(r)
        <5>1. \E y : body' = [body EXCEPT ![r] = y]
          BY <3>2, <4>3 DEF BodyStep, Check, Record, CheckDeadline, RecordDeadline, Wait, Send, Select, Consume,
             SetEvent, GetEvent, Probe, Finish, AwaitOutcome, Goto
        <5> QED
          BY <2>1, <3>1, <3>2, <4>1, <5>1
      <4> QED
        BY <4>2, <4>3
    <3>3. ASSUME NEW r \in Run, Crash(r), body'[s] # body[s] PROVE FALSE
      BY <2>1, <3>1, <3>3 DEF Crash
    <3> QED
      BY <1>3, <3>2, <3>3 DEF Next, vars, Shutdown, Cancel, SendFromOutside, Pass
  <2> QED
    BY <1>2, <2>1
<1> QED
  BY <1>1, <1>3

\* Every step keeps Alone,
LEMMA AloneNext ==
    ASSUME TypeOK, TypeOK', RecvInv, Alone, [Next]_vars
    PROVE  Alone'
<1>1. \A s \in Run : Turn(s)
  BY Turns
<1>2. ASSUME NEW s \in Run, body'[s].pc = "free" PROVE body'[s].wf = None
  BY <1>1, <1>2 DEF Turn, Alone
<1>3. ASSUME happened'["rival"] = 0, NEW r \in Run, NEW s \in Run, body'[r].pc # "free", body'[s].wf = body'[r].wf
      PROVE  s = r
  <2>1. body'[r].wf \in Workflow /\ body'[r].wf # None
    BY <1>3 DEF TypeOK
  <2>2. Never("rival")
    BY <1>3, HappenedStep DEF Never, Happenings
  <2>3. CASE \A t \in Run : body'[t].wf \in {body[t].wf, None}
    <3>1. body[r].wf = body'[r].wf /\ body[s].wf = body'[r].wf
      BY <1>3, <2>1, <2>3
    <3>2. body[r].pc # "free"
      BY <2>1, <3>1 DEF Alone
    <3> QED
      BY <2>2, <3>1, <3>2 DEF Alone
  <2>4. ASSUME NEW q \in Run, NEW w \in Workflow,
               \A t \in Run \ {q} : body'[t] = body[t], body'[q].wf = w, \A t \in Run : body[t].wf # w
        PROVE  s = r
    <3>1. CASE r = q \/ s = q
      BY <1>3, <2>4, <3>1
    <3>2. CASE r # q /\ s # q
      BY <1>3, <2>2, <2>4, <3>2 DEF Alone
    <3> QED
      BY <3>1, <3>2
  <2> QED
    BY <1>3, <2>3, <2>4, Beginnings
<1> QED
  BY <1>2, <1>3 DEF Alone, Never

\* and with it that a body acts only where nothing is recorded.
LEMMA ActsOnceNext ==
    ASSUME TypeOK, TypeOK', RecvInv, Alone, ActsOnce, [Next]_vars
    PROVE  ActsOnce'
<1>1. ASSUME happened'["rival"] = 0, NEW r \in Run, body'[r].pc \in {"act", "probe", "append"},
             NEW w, w = body'[r].wf, NEW i, i = body'[r].pos
      PROVE  journal'[w][i] = Missing
  <2>1. Never("rival") /\ Turn(r)
    BY <1>1, HappenedStep, Turns DEF Never, Happenings
  <2>2. /\ body[r].wf = w /\ body[r].pos = i /\ body[r].pc \in {"check", "act", "probe", "append"}
        /\ journal[w][i] = Missing
    BY <1>1, <2>1 DEF Turn, GoesOn, StaysAt, ActsOnce, Recorded
  <2>3. w \in Workflow /\ i \in Place
    BY <2>2, InProgressType
  <2>4. ASSUME NEW s \in Run, body[s].pc = "record", body[s].wf = w PROVE FALSE
    BY <2>1, <2>2, <2>4 DEF Alone
  <2> QED
    BY <2>2, <2>3, <2>4, TablesStep DEF OnlyRecorded
<1> QED
  BY <1>1 DEF ActsOnce, Never, Recorded, Missing, Plain

\* A message that is new comes from outside, or from a body that sends it now.
LEMMA SentNow ==
    ASSUME TypeOK, [Next]_vars, NEW w \in Workflow, Len(inbox'[w]) > Len(inbox[w]),
           NEW m, m = inbox'[w][Len(inbox'[w])]
    PROVE  \/ m.from = None
           \/ \E r \in Run : body[r].pc = "act" /\ body[r].wf = m.from /\ body[r].pos = m.pos
<1> USE DEF tables
<1>a. Tables
  BY Halves
<1>0. Len(inbox[w]) \in Nat /\ inbox[w] \in Seq(Note)
  <2>1. inbox[w] \in Seq(Note)
    BY <1>a DEF Tables
  <2> QED
    BY <2>1
<1>1. inbox'[w] # inbox[w]
  BY <1>0
<1>2. ASSUME NEW x \in Workflow, NEW f \in Workflow \cup {None}, NEW i \in Nat, Deliver(x, f, i)
      PROVE  m.from = f /\ m.pos = i
  <2>1. PICK n \in Note :
             /\ n.from = f /\ n.pos = i
             /\ inbox'[x] = Append(inbox[x], n)
             /\ \A v \in Workflow \ {x} : inbox'[v] = inbox[v]
    BY <1>a, <1>2, Delivered
  <2>2. x = w
    BY <1>1, <2>1
  <2>3. Append(inbox[w], n)[Len(Append(inbox[w], n))] = n
    BY <1>0
  <2> QED
    BY <2>1, <2>2, <2>3
<1>3. ASSUME NEW r \in Run, Send(r)
      PROVE  \E s \in Run : body[s].pc = "act" /\ body[s].wf = m.from /\ body[s].pos = m.pos
  <2>1. /\ body[r].wf \in Workflow /\ body[r].pos \in Nat /\ At(r).with \in Workflow /\ body[r].pc = "act"
        /\ Deliver(At(r).with, body[r].wf, body[r].pos)
    BY <1>1, <1>3, InProgressType DEF Send, Place
  <2> QED
    BY <1>2, <2>1
<1>4. ASSUME NEW x \in Workflow, SendFromOutside(x) PROVE m.from = None
  BY <1>2, <1>4 DEF SendFromOutside
<1>5. ASSUME NEW r \in Run, Consume(r) PROVE FALSE
  <2> PICK x, k : x = body[r].wf /\ k = body[r].val.id
    OBVIOUS
  <2>1. body[r].pc = "consume" /\ x \in Workflow /\ k \in DOMAIN inbox[x]
    BY <1>5, InProgressType DEF Consume
  <2>2. inbox' = [inbox EXCEPT ![x] = [inbox[x] EXCEPT ![k] = [inbox[x][k] EXCEPT !.consumed = TRUE]]]
    BY <1>5 DEF Consume
  <2>3. Len(inbox'[w]) = Len(inbox[w])
    BY <1>a, <2>1, <2>2, ConsumedKeeps
  <2> QED
    BY <1>0, <2>3
<1>6. \/ inbox' = inbox
      \/ \E r \in Run : Send(r)
      \/ \E r \in Run : Consume(r)
      \/ \E x \in Workflow : SendFromOutside(x)
  BY DEF Next, vars, BodyStep, Check, Record, CheckDeadline, RecordDeadline, Wait, Select, SetEvent, GetEvent,
         Probe, AppendEntry, Finish, AwaitOutcome, Crash, Shutdown, Begin, Cancel, Pass
<1> QED
  BY <1>1, <1>3, <1>4, <1>5, <1>6

\* What is recorded does not act again, whatever crashes: as long as no rival
\* is started, the one body of a workflow performs an operation only where it
\* has found no record, and nobody else can write that record meanwhile.
THEOREM NothingActsAgain == Spec => Memoized
<1> DEFINE Acts ==
        Never("rival") => \A w \in Workflow :
          /\ Len(inbox'[w]) > Len(inbox[w]) =>
                LET m == inbox'[w][Len(inbox'[w])] IN m.from # None => ~Recorded(m.from, m.pos)
          /\ event'[w] # event[w] => ~Recorded(w, event'[w])
          /\ Len(stream'[w]) > Len(stream[w]) => ~Recorded(w, stream'[w][Len(stream'[w])])
<1>1. Init => Alone /\ ActsOnce
  <2>1. ASSUME Init PROVE \A r \in Run : body[r].pc = "free" /\ body[r].wf = None
    BY <2>1 DEF Init, Free
  <2> QED
    BY <2>1 DEF Alone, ActsOnce
<1>2. ASSUME TypeOK, ActsOnce, [Next]_vars, Never("rival"), NEW w \in Workflow
      PROVE  /\ \A m : Len(inbox'[w]) > Len(inbox[w]) /\ m = inbox'[w][Len(inbox'[w])] =>
                          (m.from # None => ~Recorded(m.from, m.pos))
             /\ event'[w] # event[w] => ~Recorded(w, event'[w])
             /\ Len(stream'[w]) > Len(stream[w]) => ~Recorded(w, stream'[w][Len(stream'[w])])
  <2>1. ASSUME NEW r \in Run, body[r].pc \in {"act", "append"} PROVE ~Recorded(body[r].wf, body[r].pos)
    BY <1>2, <2>1 DEF ActsOnce
  <2>2. event'[w] # event[w] => ~Recorded(w, event'[w])
    BY <1>2, <2>1, EventStep
  <2>3. ASSUME Len(stream'[w]) > Len(stream[w]) PROVE ~Recorded(w, stream'[w][Len(stream'[w])])
    <3>1. stream[w] \in Seq(Place)
      BY <1>2 DEF TypeOK
    <3>2. stream'[w] # stream[w]
      BY <2>3, <3>1
    <3>3. PICK r \in Run : /\ body[r].pc = "append" /\ body[r].wf = w /\ body[r].pos \in Place
                           /\ stream'[w] = Append(stream[w], body[r].pos)
      BY <1>2, <3>2, StreamStep
    <3>4. stream'[w][Len(stream'[w])] = body[r].pos
      BY <3>1, <3>3
    <3> QED
      BY <2>1, <3>3, <3>4
  <2>4. ASSUME NEW m, Len(inbox'[w]) > Len(inbox[w]), m = inbox'[w][Len(inbox'[w])], m.from # None
        PROVE  ~Recorded(m.from, m.pos)
    BY <1>2, <2>1, <2>4, SentNow
  <2> QED
    BY <2>2, <2>3, <2>4
<1>3. TypeOK /\ ActsOnce /\ [Next]_vars => [Acts]_vars
  BY <1>2
<1>4. TypeOK /\ TypeOK' /\ RecvInv /\ Alone /\ ActsOnce /\ [Next]_vars => Alone' /\ ActsOnce'
  BY AloneNext, ActsOnceNext
<1> QED
  BY <1>1, <1>3, <1>4, RecvInit, RecvNext, CommunicationTyping, PTL DEF Spec, Memoized

------------------------------------------------------------------------------
(* Messages are received by age.                                           *)

\* No older message that is still there was inserted before this one.
Foremost(w, n) ==
    \A m \in DOMAIN inbox[w] : m < n /\ ~inbox[w][m].consumed => inbox[w][n].at <= inbox[w][m].at

\* The message in the hand of a body was the oldest when it was selected, and
\* the earlier recvs left it behind when they had the choice.
HandAge(b) ==
    b.pc \in {"consume", "record"} /\ b.val.kind = "message" =>
        /\ Foremost(b.wf, b.val.id)
        /\ \A i \in Place : i < b.pos /\ Received(b.wf, i) /\ b.val.id < journal[b.wf][i].id
                               => Message(b.wf, i).at <= inbox[b.wf][b.val.id].at

AgeInv ==
    /\ \A r \in Run : HandAge(body[r])
    /\ \A w \in Workflow : \A i \in Place : Received(w, i) => Foremost(w, journal[w][i].id)
    /\ ReceivedByAge

\* A message in hand is in the inbox.
LEMMA InHand ==
    ASSUME TypeOK, RecvInv, NEW r \in Run, body[r].pc \in {"consume", "record"}, body[r].val.kind = "message"
    PROVE  body[r].val.id \in DOMAIN inbox[body[r].wf] /\ body[r].wf \in Workflow
<1>1. body[r].wf \in Workflow /\ HandOK(body[r])
  BY InProgressType DEF RecvInv
<1>2. CASE body[r].pc = "consume"
  BY <1>1, <1>2, InProgressType
<1>3. CASE body[r].pc = "record"
  BY <1>1, <1>3 DEF HandOK, Consumed
<1> QED
  BY <1>1, <1>2, <1>3

\* It stays foremost.
LEMMA ForemostKept ==
    ASSUME TypeOK, TypeOK', [Next]_vars, NEW w \in Workflow, NEW n \in DOMAIN inbox[w], Foremost(w, n)
    PROVE  Foremost(w, n)'
<1>1. inbox[w] \in Seq(Note) /\ inbox'[w] \in Seq(Note)
  BY DEF TypeOK
<1>2. ASSUME NEW m \in DOMAIN inbox'[w], m < n PROVE m \in DOMAIN inbox[w]
  BY <1>1, <1>2
<1>3. \A m \in DOMAIN inbox[w] :
         /\ inbox'[w][m].at = inbox[w][m].at
         /\ inbox[w][m].consumed => inbox'[w][m].consumed
  BY TablesStep DEF TablesOnlyGrow
<1>4. ASSUME NEW m \in DOMAIN inbox'[w], m < n, ~inbox'[w][m].consumed
      PROVE  inbox'[w][n].at <= inbox'[w][m].at
  <2>1. m \in DOMAIN inbox[w]
    BY <1>2, <1>4
  <2>2. inbox'[w][m].at = inbox[w][m].at /\ inbox'[w][n].at = inbox[w][n].at
    BY <1>3, <2>1
  <2>3. ~inbox[w][m].consumed
    BY <1>3, <1>4, <2>1
  <2>4. inbox[w][n].at <= inbox[w][m].at
    BY <1>4, <2>1, <2>3 DEF Foremost
  <2> QED
    BY <2>2, <2>4
<1> QED
  BY <1>4 DEF Foremost

\* Nobody records an operation that is behind a body.
LEMMA BehindKept ==
    ASSUME TypeOK, RecvInv, [Next]_vars, NEW r \in Run, body[r].pc # "free",
           NEW i \in Place, i < body[r].pos
    PROVE  journal'[body[r].wf][i] = journal[body[r].wf][i]
<1> PICK w : w = body[r].wf
  OBVIOUS
<1>1. w \in Workflow /\ Settled(w, i)
  BY InProgressType DEF RecvInv, HandOK
<1>2. ASSUME journal[w][i] = Missing, NEW s \in Run, body[s].pc = "record", body[s].wf = w, body[s].pos = i PROVE FALSE
  <2>1. program[w][i].op # "sleep"
    BY <1>2 DEF RecvInv, HandOK, Awake
  <2> QED
    BY <1>1, <1>2, <2>1 DEF Settled
<1> QED
  BY <1>1, <1>2, TablesStep DEF OnlyRecorded

\* Every step keeps what is known of the message in the hand of one body,
LEMMA HandAgeNext ==
    ASSUME TypeOK, TypeOK', RecvInv, AgeInv, [Next]_vars, NEW r \in Run
    PROVE  HandAge(body[r])'
<1> PICK w, p, v : w = body'[r].wf /\ p = body'[r].pos /\ v = body'[r].val
  OBVIOUS
<1> SUFFICES ASSUME body'[r].pc \in {"consume", "record"}, v.kind = "message"
             PROVE  /\ Foremost(w, v.id)'
                    /\ \A i \in Place : i < p /\ journal'[w][i].kind = "message" /\ v.id < journal'[w][i].id
                                           => inbox'[w][journal'[w][i].id].at <= inbox'[w][v.id].at
  <2> PICK n : n = v.id
    OBVIOUS
  <2> QED
    BY DEF HandAge, Foremost, Received, Message
<1>1. /\ body[r].pc # "free" /\ body[r].wf = w /\ body[r].pos = p
      /\ \/ body[r].pc \in {"consume", "record"} /\ body[r].val = v
         \/ \E n \in Oldest(w) : v = [kind |-> "message", id |-> n]
  <2>1. Turn(r)
    BY Turns
  <2>2. Plain("timeout").kind # "message"
    BY DEF Plain
  <2> QED
    <3>1. CASE body'[r] = body[r]
      BY <3>1
    <3>2. CASE body'[r] # body[r]
      <4>1. body[r].pc # "free" /\ body'[r].wf = body[r].wf /\ StaysAt(r)
        BY <2>1, <3>2 DEF Turn, GoesOn
      <4>2. body'[r].val.kind = "message"
        OBVIOUS
      <4> QED
        BY <2>2, <4>1, <4>2 DEF StaysAt
    <3> QED
      BY <3>1, <3>2
<1>2. w \in Workflow
  BY <1>1, InProgressType
<1>3. ASSUME NEW i \in Place, i < p PROVE journal'[w][i] = journal[w][i]
  BY <1>1, <1>3, BehindKept
<1>4. ASSUME NEW i \in Place, journal[w][i].kind = "message"
      PROVE  journal[w][i].id \in DOMAIN inbox[w] /\ Foremost(w, journal[w][i].id)
  BY <1>2, <1>4 DEF RecvInv, JournalOK, Consumed, AgeInv, Received
<1>5. /\ v.id \in DOMAIN inbox[w] /\ Foremost(w, v.id)
      /\ \A i \in Place : i < p /\ journal[w][i].kind = "message" /\ v.id < journal[w][i].id
                             => inbox[w][journal[w][i].id].at <= inbox[w][v.id].at
  <2>1. CASE body[r].pc \in {"consume", "record"} /\ body[r].val = v
    <3>1. v.id \in DOMAIN inbox[w]
      BY <1>1, <2>1, InHand
    <3>2. HandAge(body[r])
      BY DEF AgeInv
    <3> QED
      BY <1>1, <2>1, <3>1, <3>2 DEF HandAge, Received, Message
  <2>2. ASSUME NEW n \in Oldest(w), v = [kind |-> "message", id |-> n]
        PROVE  /\ v.id \in DOMAIN inbox[w] /\ Foremost(w, v.id)
               /\ \A i \in Place : i < p /\ journal[w][i].kind = "message" /\ v.id < journal[w][i].id
                                      => inbox[w][journal[w][i].id].at <= inbox[w][v.id].at
    <3>1. v.id = n /\ n \in DOMAIN inbox[w] /\ ~inbox[w][n].consumed
      BY <2>2 DEF Oldest, Unconsumed
    <3>2. Foremost(w, n)
      BY <2>2 DEF Oldest, Unconsumed, Foremost
    <3> QED
      BY <1>4, <3>1, <3>2 DEF Foremost
  <2> QED
    BY <1>1, <2>1, <2>2
<1>6. \A n \in DOMAIN inbox[w] : inbox'[w][n].at = inbox[w][n].at
  BY <1>2, TablesStep DEF TablesOnlyGrow
<1>7. Foremost(w, v.id)'
  <2> PICK n : n = v.id
    OBVIOUS
  <2>1. Foremost(w, n)'
    BY <1>2, <1>5, ForemostKept
  <2> QED
    BY <2>1 DEF Foremost
<1>8. ASSUME NEW i \in Place, i < p, journal'[w][i].kind = "message", v.id < journal'[w][i].id
      PROVE  inbox'[w][journal'[w][i].id].at <= inbox'[w][v.id].at
  <2> PICK k : k = journal[w][i].id
    OBVIOUS
  <2>1. journal'[w][i] = journal[w][i]
    BY <1>3, <1>8
  <2>2. k \in DOMAIN inbox[w] /\ inbox[w][k].at <= inbox[w][v.id].at
    BY <1>4, <1>5, <1>8, <2>1
  <2>3. inbox'[w][k].at = inbox[w][k].at /\ inbox'[w][v.id].at = inbox[w][v.id].at
    BY <1>5, <1>6, <2>2
  <2> QED
    BY <2>1, <2>2, <2>3
<1> QED
  BY <1>7, <1>8

\* and the invariant of the ages.
LEMMA AgeNext ==
    ASSUME TypeOK, TypeOK', RecvInv, RecvInv', AgeInv, [Next]_vars
    PROVE  AgeInv'
<1>1. \A r \in Run : HandAge(body[r])'
  BY HandAgeNext
<1>2. ASSUME NEW w \in Workflow, NEW i \in Place, journal'[w][i] # journal[w][i]
      PROVE  /\ ~Settled(w, i)
             /\ \E r \in Run : /\ body[r].pc = "record" /\ body[r].wf = w /\ body[r].pos = i
                               /\ journal'[w][i] = body[r].val
  <2>1. /\ journal[w][i] = Missing
        /\ \E r \in Run : /\ body[r].pc = "record" /\ body[r].wf = w /\ body[r].pos = i
                          /\ journal'[w][i] = body[r].val
    BY <1>2, TablesStep DEF OnlyRecorded
  <2>2. program[w][i].op # "sleep"
    BY <2>1 DEF RecvInv, HandOK, Awake
  <2> QED
    BY <2>1, <2>2 DEF Settled
<1>3. ASSUME NEW w \in Workflow, NEW i \in Place, NEW n, journal'[w][i].kind = "message", n = journal'[w][i].id
      PROVE  Foremost(w, n)'
  <2>1. CASE journal'[w][i] = journal[w][i]
    <3>1. n \in DOMAIN inbox[w] /\ Foremost(w, n)
      BY <1>3, <2>1 DEF RecvInv, JournalOK, Consumed, AgeInv, Received
    <3> QED
      BY <3>1, ForemostKept
  <2>2. CASE journal'[w][i] # journal[w][i]
    <3>1. PICK r \in Run : body[r].pc = "record" /\ body[r].wf = w /\ journal'[w][i] = body[r].val
      BY <1>2, <2>2
    <3>2. n \in DOMAIN inbox[w] /\ Foremost(w, n)
      BY <1>3, <3>1, InHand DEF AgeInv, HandAge
    <3> QED
      BY <3>2, ForemostKept
  <2> QED
    BY <2>1, <2>2
<1>4. ASSUME NEW w \in Workflow, NEW i \in Place, NEW j \in Place, i < j,
             journal'[w][i].kind = "message", journal'[w][j].kind = "message",
             NEW k, k = journal'[w][i].id, NEW n, n = journal'[w][j].id, n < k
      PROVE  inbox'[w][k].at <= inbox'[w][n].at
  <2>0. Missing.kind # "message"
    BY DEF Missing, Plain
  <2>1. journal'[w][i] = journal[w][i]
    <3>1. ASSUME journal'[w][i] # journal[w][i] PROVE FALSE
      <4>1. ~Settled(w, i)
        BY <1>2, <3>1
      <4>2. CASE journal'[w][j] = journal[w][j]
        BY <1>4, <2>0, <4>1, <4>2 DEF RecvInv, JournalOK
      <4>3. CASE journal'[w][j] # journal[w][j]
        <5>1. PICK r \in Run : body[r].pc = "record" /\ body[r].wf = w /\ body[r].pos = j
          BY <1>2, <4>3
        <5> QED
          BY <1>4, <4>1, <5>1 DEF RecvInv, HandOK
      <4> QED
        BY <4>2, <4>3
    <3> QED
      BY <3>1
  <2>2. k \in DOMAIN inbox[w]
    BY <1>4, <2>1 DEF RecvInv, JournalOK, Consumed
  <2>3. n \in DOMAIN inbox[w] /\ inbox[w][k].at <= inbox[w][n].at
    <3>1. CASE journal'[w][j] = journal[w][j]
      <4>1. n \in DOMAIN inbox[w]
        BY <1>4, <3>1 DEF RecvInv, JournalOK, Consumed
      <4>2. ReceivedByAge
        BY DEF AgeInv
      <4> QED
        BY <1>4, <2>1, <3>1, <4>1, <4>2 DEF ReceivedByAge, Received, Message
    <3>2. CASE journal'[w][j] # journal[w][j]
      <4>1. PICK r \in Run : body[r].pc = "record" /\ body[r].wf = w /\ body[r].pos = j /\ journal'[w][j] = body[r].val
        BY <1>2, <3>2
      <4>2. HandAge(body[r]) /\ n \in DOMAIN inbox[w]
        BY <1>4, <4>1, InHand DEF AgeInv
      <4> QED
        BY <1>4, <2>1, <4>1, <4>2 DEF HandAge, Received, Message
    <3> QED
      BY <3>1, <3>2
  <2> QED
    BY <2>2, <2>3, TablesStep DEF TablesOnlyGrow
<1>5. ReceivedByAge'
  BY <1>4 DEF ReceivedByAge, Received, Message
<1>6. \A w \in Workflow : \A i \in Place : Received(w, i)' => Foremost(w, journal[w][i].id)'
  BY <1>3 DEF Received, Foremost
<1> QED
  BY <1>1, <1>5, <1>6 DEF AgeInv

\* FIFO as far as it goes: a recv leaves no older message behind that a later
\* recv gets, whatever bodies race for the inbox.  A message that is still
\* there when a recv selects one is no older than that one; what an earlier
\* recv recorded was selected before a later recv of any body could begin.
THEOREM MessagesByAge == Spec => []ReceivedByAge
<1>1. AgeInv => ReceivedByAge
  BY DEF AgeInv
<1>2. ASSUME Init PROVE AgeInv
  <2>1. \A w \in Workflow : \A j \in Place : journal[w][j].kind # "message"
    BY <1>2 DEF Init, Missing, Plain
  <2>2. \A r \in Run : body[r].pc = "free"
    BY <1>2 DEF Init, Free
  <2> QED
    BY <2>1, <2>2 DEF AgeInv, HandAge, ReceivedByAge, Received
<1>3. TypeOK /\ TypeOK' /\ RecvInv /\ RecvInv' /\ AgeInv /\ [Next]_vars => AgeInv'
  BY AgeNext
<1> QED
  BY <1>1, <1>2, <1>3, RecvInit, RecvNext, CommunicationTyping, PTL DEF Spec

------------------------------------------------------------------------------
(* Nothing ends early.                                                     *)

Past(w, i) == deadline[w][i] = "past"

\* A body that has waited has something to take, or its deadline is past; what
\* it has come back with without the one is because of the other; and the
\* sleeps behind it are over.
HandEarly(b) ==
    b.pc # "free" =>
        /\ b.pc = "take" /\ program[b.wf][b.pos].op = "getEvent" =>
              Past(b.wf, b.pos) \/ event[program[b.wf][b.pos].with] # 0
        /\ b.pc = "take" /\ program[b.wf][b.pos].op = "recv" =>
              Past(b.wf, b.pos) \/ Unconsumed(b.wf) # {} \/ ~Never("rival")
        /\ b.pc = "record" /\ b.val.kind = "timeout" => Past(b.wf, b.pos) \/ ~Never("rival")
        /\ b.pc = "record" /\ b.val = [kind |-> "event", id |-> 0] => Past(b.wf, b.pos)
        /\ \A i \in DOMAIN program[b.wf] :
              program[b.wf][i].op = "sleep" /\ ~Past(b.wf, i) => b.pos <= i /\ b.pc # "finished"

JournalEarly ==
    \A w \in Workflow : \A i \in DOMAIN program[w] : ~Past(w, i) =>
        /\ journal[w][i].kind = "timeout" => ~Never("rival")
        /\ journal[w][i] # [kind |-> "event", id |-> 0]

EarlyInv ==
    Never("shutdown") => stopping = {} /\ JournalEarly /\ \A r \in Run : HandEarly(body[r])

\* What a body meets when it begins to wait again or takes what it waited for.
LEMMA HandEarlyNext ==
    ASSUME TypeOK, TypeOK', RecvInv, Alone, EarlyInv, [Next]_vars, happened'["shutdown"] = 0, NEW r \in Run
    PROVE  HandEarly(body[r])'
<1> SUFFICES ASSUME body'[r].pc # "free"
             PROVE  HandEarly(body[r])'
  BY DEF HandEarly
<1> PICK w, p, pc, v : w = body'[r].wf /\ p = body'[r].pos /\ pc = body'[r].pc /\ v = body'[r].val
  OBVIOUS
<1>1. /\ Turn(r) /\ TablesOnlyGrow /\ OnlyTaken /\ HandEarly(body[r]) /\ HandOK(body[r])
      /\ Never("shutdown") /\ stopping = {}
  BY Turns, TablesStep DEF EarlyInv, RecvInv, TablesOnlyGrow, Never, Happenings
<1>2. /\ w \in Workflow /\ p \in DOMAIN program[w] /\ program' = program /\ program \in Programs
      /\ p \in Place /\ DOMAIN program[w] = 1..Len(program[w]) /\ Len(program[w]) \in Nat
      /\ DOMAIN program[w] \subseteq Place
  <2>1. w \in Workflow /\ program' = program /\ p \in DOMAIN program'[w] /\ program \in Programs
    BY <1>1 DEF TypeOK, TablesOnlyGrow
  <2> QED
    BY <2>1, ProgramType
<1>3. \A i \in Place : Past(w, i) => deadline'[w][i] = "past"
  BY <1>1, <1>2 DEF TablesOnlyGrow, Past
<1>4. ~Never("rival") => happened'["rival"] # 0
  BY <1>1 DEF TablesOnlyGrow, Never, Happenings
<1> DEFINE Wanted ==
       /\ pc = "take" /\ program[w][p].op = "getEvent" => deadline'[w][p] = "past" \/ event'[program[w][p].with] # 0
       /\ pc = "take" /\ program[w][p].op = "recv" =>
             deadline'[w][p] = "past" \/ Unconsumed(w)' # {} \/ happened'["rival"] # 0
       /\ pc = "record" /\ v.kind = "timeout" => deadline'[w][p] = "past" \/ happened'["rival"] # 0
       /\ pc = "record" /\ v = [kind |-> "event", id |-> 0] => deadline'[w][p] = "past"
           Slept == \A i \in DOMAIN program[w] :
              program[w][i].op = "sleep" /\ deadline'[w][i] # "past" => p <= i /\ pc # "finished"
<1>5. Wanted /\ Slept => HandEarly(body[r])'
  BY <1>2 DEF HandEarly, Past, Never, Unconsumed
\* What waited for something still finds it, as long as it is alone.
<1>6. ASSUME body[r].pc \in {"wait", "take"}, body[r].wf = w, Unconsumed(w) # {}
      PROVE  Unconsumed(w)' # {} \/ ~Never("rival")
  <2>1. ASSUME NEW s \in Run, body[s].wf = w, body[s].pc = "consume", Never("rival") PROVE FALSE
    <3>1. s = r
      BY <1>6, <2>1 DEF Alone
    <3> QED
      BY <1>6, <2>1, <3>1
  <2>2. ASSUME NEW n, n \in DOMAIN inbox'[w], ~inbox'[w][n].consumed PROVE Unconsumed(w)' # {}
    BY <2>2 DEF Unconsumed
  <2> QED
    BY <1>1, <1>2, <1>6, <2>1, <2>2 DEF OnlyTaken
<1>7. ASSUME NEW x, x = program[w][p].with, program[w][p].op = "getEvent", event[x] # 0 PROVE event'[x] # 0
  BY <1>1, <1>2, <1>7 DEF TablesOnlyGrow
<1>8. CASE body'[r] = body[r]
  <2>1. body[r].wf = w /\ body[r].pos = p /\ body[r].pc = pc /\ body[r].val = v /\ pc # "free"
    BY <1>8
  <2>2. Slept
    BY <1>1, <1>2, <1>3, <2>1 DEF HandEarly, Past
  <2>3. Wanted
    BY <1>1, <1>2, <1>3, <1>4, <1>6, <1>7, <2>1 DEF HandEarly
  <2> QED
    BY <1>5, <2>2, <2>3
<1>9. CASE body[r].pc = "free" /\ pc \in {"check", "deadline"} /\ p = 1
  BY <1>2, <1>5, <1>9
<1>10. CASE body[r].pc # "free" /\ body[r].wf = w /\ GoesOn(r)
  <2>1. /\ p \in {body[r].pos, body[r].pos + 1} /\ pc \in {"failed", "finished", "check", "deadline"}
        /\ pc = "finished" => body[r].pos = Len(program[w])
        /\ program[w][body[r].pos].op = "sleep" => Past(w, body[r].pos)
        /\ body[r].pos \in DOMAIN program[w] /\ body[r].pos \in Nat
    BY <1>1, <1>2, <1>10, InProgressType DEF GoesOn, At, Past, Place
  <2>2. ASSUME NEW i \in DOMAIN program[w], program[w][i].op = "sleep", deadline'[w][i] # "past"
        PROVE  p <= i /\ pc # "finished"
    <3>1. ~Past(w, i) /\ i # body[r].pos
      BY <1>2, <1>3, <2>1, <2>2
    <3>2. body[r].pos <= i
      BY <1>1, <1>10, <2>2, <3>1 DEF HandEarly
    <3> QED
      BY <1>2, <2>1, <3>1, <3>2
  <2> QED
    BY <1>5, <2>1, <2>2
<1>11. CASE body[r].pc # "free" /\ body[r].wf = w /\ StaysAt(r)
  <2>1. /\ p = body[r].pos /\ pc # "finished"
        /\ pc = "take" => body[r].pc = "wait" /\ (Ready(w, program[w][p]) \/ Past(w, p))
    BY <1>1, <1>11 DEF StaysAt, At, Past
  <2>2. pc = "record" =>
           \/ v.kind \in {"ok", "noDestination"}
           \/ /\ body[r].pc = "take" /\ program[w][p].op = "recv"
              /\ Unconsumed(w) = {} /\ v = Plain("timeout")
           \/ /\ body[r].pc = "take" /\ program[w][p].op = "getEvent"
              /\ v = [kind |-> "event", id |-> event[program[w][p].with]]
           \/ body[r].pc = "consume" /\ v = body[r].val
    BY <1>11 DEF StaysAt, At
  <2>3. Slept
    BY <1>1, <1>2, <1>3, <1>11, <2>1 DEF HandEarly
  <2>4. pc = "take" /\ program[w][p].op = "getEvent" => deadline'[w][p] = "past" \/ event'[program[w][p].with] # 0
    BY <1>2, <1>3, <1>7, <2>1 DEF Ready
  <2>5. pc = "take" /\ program[w][p].op = "recv" =>
             deadline'[w][p] = "past" \/ Unconsumed(w)' # {} \/ happened'["rival"] # 0
    BY <1>2, <1>3, <1>4, <1>6, <1>11, <2>1 DEF Ready
  <2>6. CASE pc = "record" /\ v.kind \in {"ok", "noDestination"}
    <3>1. v.kind # "timeout" /\ v # [kind |-> "event", id |-> 0]
      BY <2>6
    <3> QED
      BY <1>5, <2>3, <2>6, <3>1
  <2>7. CASE /\ pc = "record" /\ body[r].pc = "take" /\ program[w][p].op = "recv"
             /\ Unconsumed(w) = {} /\ v = Plain("timeout")
    <3>1. v # [kind |-> "event", id |-> 0]
      BY <2>7 DEF Plain
    <3>2. Past(w, p) \/ ~Never("rival")
      BY <1>1, <1>11, <2>1, <2>7 DEF HandEarly
    <3> QED
      BY <1>2, <1>3, <1>4, <1>5, <2>3, <2>7, <3>1, <3>2
  <2>8. CASE /\ pc = "record" /\ body[r].pc = "take" /\ program[w][p].op = "getEvent"
             /\ v = [kind |-> "event", id |-> event[program[w][p].with]]
    <3>1. v.kind # "timeout" /\ v.id = event[program[w][p].with]
      BY <2>8
    <3>2. Past(w, p) \/ event[program[w][p].with] # 0
      BY <1>1, <1>11, <2>1, <2>8 DEF HandEarly
    <3>3. v = [kind |-> "event", id |-> 0] => Past(w, p)
      BY <3>1, <3>2
    <3> QED
      BY <1>2, <1>3, <1>5, <2>3, <2>8, <3>1, <3>3
  <2>9. CASE pc = "record" /\ body[r].pc = "consume" /\ v = body[r].val
    <3>1. v.kind = "message"
      BY <1>11, <2>9, InProgressType
    <3>2. v.kind # "timeout" /\ v # [kind |-> "event", id |-> 0]
      BY <3>1
    <3> QED
      BY <1>5, <2>3, <2>9, <3>2
  <2>10. CASE pc # "record"
    BY <1>5, <2>3, <2>4, <2>5, <2>10
  <2> QED
    BY <2>2, <2>6, <2>7, <2>8, <2>9, <2>10
<1> QED
  BY <1>1, <1>8, <1>9, <1>10, <1>11 DEF Turn

\* Until a shutdown every step keeps what is known of the recorded waits.
LEMMA JournalEarlyNext ==
    ASSUME TypeOK, RecvInv, EarlyInv, [Next]_vars, happened'["shutdown"] = 0
    PROVE  JournalEarly'
<1>1. TablesOnlyGrow /\ OnlyRecorded /\ Never("shutdown")
  BY TablesStep DEF TablesOnlyGrow, Never, Happenings
<1>2. JournalEarly /\ \A r \in Run : HandEarly(body[r])
  BY <1>1 DEF EarlyInv
<1>3. ASSUME NEW w \in Workflow, NEW i \in DOMAIN program[w], deadline'[w][i] # "past"
      PROVE  /\ journal'[w][i].kind = "timeout" => happened'["rival"] # 0
             /\ journal'[w][i] # [kind |-> "event", id |-> 0]
  <2>1. i \in Place /\ ~Past(w, i) /\ (~Never("rival") => happened'["rival"] # 0)
    <3>1. i \in Place
      BY ProgramType DEF TypeOK
    <3> QED
      BY <1>1, <1>3, <3>1 DEF TablesOnlyGrow, Past, Never, Happenings
  <2>2. CASE journal'[w][i] = journal[w][i]
    BY <1>2, <2>1, <2>2 DEF JournalEarly
  <2>3. ASSUME NEW r \in Run, body[r].pc = "record", body[r].wf = w, body[r].pos = i, journal'[w][i] = body[r].val
        PROVE  /\ journal'[w][i].kind = "timeout" => happened'["rival"] # 0
               /\ journal'[w][i] # [kind |-> "event", id |-> 0]
    BY <1>2, <2>1, <2>3 DEF HandEarly
  <2> QED
    BY <1>1, <2>1, <2>2, <2>3 DEF OnlyRecorded
<1> QED
  BY <1>1, <1>3 DEF JournalEarly, TablesOnlyGrow, Past, Never

\* A recv has timed out, a get_event come back empty and a sleep ended only if
\* the deadline that was recorded first is past, however often the body crashed
\* and waited again - unless a process shut down, or, of a recv, a rival took
\* the message it had seen.
THEOREM WaitsAreKept == Spec => []NothingEndsEarly
<1>1. ASSUME TypeOK, Alone, EarlyInv PROVE NothingEndsEarly
  <2>1. ASSUME Never("shutdown"), NEW w \in Workflow, NEW i \in DOMAIN program[w], deadline[w][i] # "past"
        PROVE  /\ journal[w][i].kind = "timeout" => ~Never("rival")
               /\ journal[w][i] # [kind |-> "event", id |-> 0]
               /\ program[w][i].op = "sleep" =>
                     \A r \in Run : body[r].wf = w => body[r].pos <= i /\ body[r].pc # "finished"
    <3>1. JournalEarly /\ \A r \in Run : HandEarly(body[r])
      BY <1>1, <2>1 DEF EarlyInv
    <3>2. ASSUME NEW r \in Run, body[r].wf = w, program[w][i].op = "sleep"
          PROVE  body[r].pos <= i /\ body[r].pc # "finished"
      <4>1. CASE body[r].pc # "free"
        BY <2>1, <3>1, <3>2, <4>1 DEF HandEarly, Past
      <4>2. CASE body[r].pc = "free"
        BY <1>1, <2>1, <3>2, <4>2 DEF Alone
      <4> QED
        BY <4>1, <4>2
    <3> QED
      BY <2>1, <3>1, <3>2 DEF JournalEarly, Past
  <2> QED
    BY <2>1 DEF NothingEndsEarly
<1>2. ASSUME Init PROVE EarlyInv /\ Alone
  <2>1. /\ \A r \in Run : body[r].pc = "free" /\ body[r].wf = None
        /\ stopping = {} /\ program \in Programs
        /\ \A w \in Workflow : \A i \in Place : journal[w][i].kind = "none"
    BY <1>2 DEF Init, Free, Missing, Plain
  <2>2. JournalEarly
    BY <2>1, ProgramType DEF JournalEarly
  <2> QED
    BY <2>1, <2>2 DEF EarlyInv, HandEarly, Alone
<1>3. ASSUME TypeOK, TypeOK', RecvInv, Alone, EarlyInv, [Next]_vars PROVE EarlyInv'
  <2>1. ASSUME happened'["shutdown"] = 0 PROVE stopping' = {}
    <3>1. OnlyShutdown /\ TablesOnlyGrow
      BY <1>3, TablesStep
    <3>2. Never("shutdown")
      BY <2>1, <3>1 DEF TablesOnlyGrow, Never, Happenings
    <3> QED
      BY <1>3, <2>1, <3>1, <3>2 DEF OnlyShutdown, EarlyInv
  <2>2. ASSUME happened'["shutdown"] = 0 PROVE JournalEarly' /\ \A r \in Run : HandEarly(body[r])'
    BY <1>3, <2>2, HandEarlyNext, JournalEarlyNext
  <2> QED
    BY <2>1, <2>2 DEF EarlyInv, Never
<1>4. TypeOK /\ TypeOK' /\ RecvInv /\ Alone /\ [Next]_vars => Alone'
  BY AloneNext
<1> QED
  BY <1>1, <1>2, <1>3, <1>4, RecvInit, RecvNext, CommunicationTyping, PTL DEF Spec
==============================================================================
