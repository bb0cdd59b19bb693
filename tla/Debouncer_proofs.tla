-------------------------- MODULE Debouncer_proofs --------------------------
(***************************************************************************)
(* Theorems of Debouncer: its types; that a target does not run with the   *)
(* input of a call that had returned before the one began whose handle is  *)
(* on it; and that inputs fire once, and not before their time.            *)
(***************************************************************************)
EXTENDS Debouncer, TLAPS

USE DebouncerAssumption DEF DebouncerAssumption

------------------------------------------------------------------------------
(* Types.                                                                  *)

RowType == {"ABSENT", "ENQUEUED", "PENDING", "SUCCESS", "ERROR", "CANCELLED", "gone"}
JournalType ==
    [stage : {"start", "loop", "recv", "ack", "fire"}, max : Time, at : OrNone(Time),
     now : OrNone(Time), deadline : OrNone(Time), input : Call, msg : OrNone(Messages),
     had : SUBSET Call, missed : SUBSET Messages]
BodyType ==
    [pc : {"none", "next", "wait", "consume", "record", "acked", "fire", "outcome", "error", "replay"},
     msg : OrNone(Messages), input : OrNone(Call)]
CallType ==
    [pc : {"idle", "insert", "lookup", "send", "ack", "status", "returned", "failed"},
     holder : OrNone(Call), attempt : Nat, until : OrNone(Time), handle : OrNone(Call)]
Targets == OrNone([input : Call, at : Time, cut : BOOLEAN])

\* What a journal has for the stage it is at, at time t.
JournalOK(j, t) ==
    /\ j \in JournalType
    /\ j.stage # "start" => j.at \in Time
    /\ j.stage \in {"recv", "ack"} => j.now \in Time /\ j.now <= t
    /\ j.stage = "ack" => j.msg \in Messages /\ j.input = j.msg.call
    /\ j.stage = "recv" /\ j.deadline # None => j.deadline >= j.at

\* The stage a body is at, and what it has in its hand.
BodyOK(b, j, r) ==
    /\ b \in BodyType
    /\ b.pc # "none" => r \in {"PENDING", "CANCELLED", "gone"}
    /\ b.pc \in {"wait", "consume", "record"} => j.stage = "recv"
    /\ b.pc \in {"wait", "consume"} => j.deadline # None
    /\ b.pc = "acked" => j.stage = "ack"
    /\ b.pc = "record" => b.msg \in Messages
    /\ b.pc = "fire" => b.input \in Call

\* A call that has not returned has no row, and only some of them have a holder,
\* whose row is or was there; one that has a row returned its own handle.
CallOK(i, k, rows) ==
    /\ k \in CallType /\ k.attempt # 0
    /\ IF k.pc \in {"send", "ack", "status"}
       THEN k.holder \in Call /\ rows[k.holder] # "ABSENT" ELSE k.holder = None
    /\ k.pc = "ack" => k.until \in Time
    /\ k.pc # "returned" => rows[i] = "ABSENT" /\ k.handle = None
    /\ k.handle # None => rows[k.handle] # "ABSENT"
    /\ rows[i] # "ABSENT" => k.handle = i

\* Where there was never a row there is nothing.
CleanOK(c, r, in, ack, j, t) ==
    r = "ABSENT" => in = {} /\ ack = {} /\ j = NewJournal(c) /\ t = None

Slots ==
    /\ slot \in OrNone(Call) /\ row \in [Call -> RowType]
    /\ \A c \in Call : row[c] \in {"ENQUEUED", "PENDING"} <=> slot = c
Calls ==
    /\ call \in [Call -> CallType] /\ earlier \in [Call -> SUBSET Call]
    /\ \A i \in Call : CallOK(i, call[i], row)
Work ==
    /\ journal \in [Call -> JournalType] /\ body \in [Call -> BodyType]
    /\ \A c \in Call : JournalOK(journal[c], now) /\ BodyOK(body[c], journal[c], row[c])
    /\ process \in {"up", "draining", "down"}
    /\ process = "down" => \A c \in Call : body[c] = NoBody
Boxes ==
    /\ inbox \in [Call -> SUBSET Messages] /\ acked \in [Call -> SUBSET (Call \X Nat)]
    /\ target \in [Call -> Targets]
    /\ \A c \in Call : CleanOK(c, row[c], inbox[c], acked[c], journal[c], target[c])
Clock == now \in Time /\ happened \in [Happenings -> Nat]

TypeInv == Slots /\ Calls /\ Work /\ Boxes /\ Clock

\* These are the types.
LEMMA TypeInvTypes == TypeInv => TypeOK
<1> SUFFICES ASSUME TypeInv PROVE TypeOK
  OBVIOUS
<1>1. \A c \in Call : body[c].pc # "none" => row[c] \in {"PENDING", "CANCELLED", "gone"}
  BY DEF TypeInv, Work, BodyOK
<1>2. \A c \in Call : inbox[c] \subseteq Messages /\ acked[c] \subseteq Call \X Nat
  BY DEF TypeInv, Boxes
<1> QED
  BY <1>1, <1>2 DEF TypeInv, TypeOK, Slots, Calls, Work, Boxes, Clock, RowType, CallType, JournalType,
                    BodyType, Targets

\* Times.
LEMMA Times ==
    /\ Time \subseteq Nat /\ 0 \in Time /\ Horizon \in Time /\ None \notin Time
    /\ \A t \in Time, d \in Nat : Later(t, d) \in Time
    /\ \A t \in Time, d \in Nat, max \in Time : Capped(t, d, max) \in Time
<1>1. Time \subseteq Nat /\ 0 \in Time /\ Horizon \in Time /\ None \notin Time
  BY DEF Time
<1>2. \A t \in Time, d \in Nat : Later(t, d) \in Time
  BY DEF Time, Later
<1> QED
  BY <1>1, <1>2 DEF Capped

\* A call goes on, and nothing else changes.
LEMMA CallStepTypes ==
    ASSUME TypeInv, NEW i \in Call, NEW k, CallOK(i, k, row), call' = [call EXCEPT ![i] = k],
           row' = row, earlier' = earlier
    PROVE  Calls'
<1>1. \A j \in Call : call'[j] = IF j = i THEN k ELSE call[j]
  BY DEF TypeInv, Calls
<1>2. k \in CallType
  BY DEF CallOK
<1>3. call' \in [Call -> CallType]
  BY <1>2 DEF TypeInv, Calls
<1>4. \A j \in Call : CallOK(j, call'[j], row')
  BY <1>1 DEF TypeInv, Calls
<1> QED
  BY <1>3, <1>4 DEF Calls, TypeInv

\* Calls stay when no row appears or leaves for good.
LEMMA CallsStay ==
    ASSUME TypeInv, call' = call, earlier' = earlier,
           \A c \in Call : row'[c] = "ABSENT" <=> row[c] = "ABSENT"
    PROVE  Calls'
<1>1. ASSUME NEW i \in Call PROVE CallOK(i, call'[i], row')
  <2>1. CallOK(i, call[i], row) /\ call[i].holder \in OrNone(Call) /\ call[i].handle \in OrNone(Call)
    BY DEF TypeInv, Calls, CallType
  <2> QED
    BY <2>1 DEF CallOK, OrNone
<1> QED
  BY <1>1 DEF Calls, TypeInv

\* One body goes on, with its journal.
LEMMA WorkStepTypes ==
    ASSUME TypeInv, NEW c \in Call, NEW j, NEW b, JournalOK(j, now), BodyOK(b, j, row[c]),
           journal' = [journal EXCEPT ![c] = j], body' = [body EXCEPT ![c] = b],
           row' = row, now' = now, process' = process, process # "down"
    PROVE  Work'
<1>1. /\ \A d \in Call : journal'[d] = IF d = c THEN j ELSE journal[d]
      /\ \A d \in Call : body'[d] = IF d = c THEN b ELSE body[d]
  BY DEF TypeInv, Work
<1>2. journal' \in [Call -> JournalType] /\ body' \in [Call -> BodyType]
  BY DEF TypeInv, Work, JournalOK, BodyOK
<1>3. \A d \in Call : JournalOK(journal'[d], now') /\ BodyOK(body'[d], journal'[d], row'[d])
  BY <1>1 DEF TypeInv, Work
<1> QED
  BY <1>2, <1>3 DEF Work, TypeInv

\* What is in boxes, of a workflow with a row.
LEMMA BoxesStep ==
    ASSUME TypeInv, NEW c \in Call, row[c] # "ABSENT",
           \A d \in Call : row'[d] = "ABSENT" => row[d] = "ABSENT",
           inbox' \in [Call -> SUBSET Messages], acked' \in [Call -> SUBSET (Call \X Nat)],
           target' \in [Call -> Targets],
           \A d \in Call : d # c => /\ inbox'[d] = inbox[d] /\ acked'[d] = acked[d]
                                    /\ journal'[d] = journal[d] /\ target'[d] = target[d],
           row'[c] # "ABSENT"
    PROVE  Boxes'
<1>1. \A d \in Call : d # c => CleanOK(d, row'[d], inbox'[d], acked'[d], journal'[d], target'[d])
  BY DEF TypeInv, Boxes, CleanOK
<1>2. CleanOK(c, row'[c], inbox'[c], acked'[c], journal'[c], target'[c])
  BY DEF CleanOK
<1> QED
  BY <1>1, <1>2 DEF Boxes

\* What is counted.
LEMMA CounterType ==
    ASSUME happened \in [Happenings -> Nat], happened' = happened \/ \E h \in Happenings : Happens(h)
    PROVE  happened' \in [Happenings -> Nat]
  BY DEF Happens

\* The steps of a call.
LEMMA TypedCall ==
    ASSUME TypeInv, NEW i \in Call, CallStep(i) \/ Begin(i) \/ CallFails(i)
    PROVE  TypeInv'
<1> DEFINE k == call[i]
<1>0. /\ CallOK(i, k, row) /\ k \in CallType /\ call \in [Call -> CallType] /\ slot \in OrNone(Call)
      /\ now \in Time
  BY DEF TypeInv, Calls, Slots, Clock
<1>1. ASSUME Lookup(i) \/ Acked(i) \/ Unanswered(i) \/ Resolve(i) \/ CallFails(i) PROVE TypeInv'
  <2>1. /\ UNCHANGED <<slot, row, target, inbox, acked, journal, body, process, now, earlier>>
        /\ happened' = happened \/ Happens("late") \/ Happens("error")
    BY <1>1 DEF Lookup, Acked, Unanswered, Resolve, CallFails, cycle
  <2>2. Slots' /\ Work' /\ Boxes'
    BY <2>1 DEF TypeInv, Slots, Work, Boxes
  <2>3. Clock'
    <3>1. {"late", "error"} \subseteq Happenings
      BY DEF Happenings
    <3> QED
      BY <2>1, <3>1, CounterType DEF TypeInv, Clock
  <2>4. \E n : CallOK(i, n, row) /\ call' = [call EXCEPT ![i] = n]
    <3>1. CASE Lookup(i)
      <4>1. CASE slot = None
        <5> DEFINE n == [k EXCEPT !.pc = "insert"]
        <5>1. call' = [call EXCEPT ![i] = n]
          BY <1>0, <3>1, <4>1 DEF Lookup
        <5>2. CallOK(i, n, row)
          BY <1>0, <3>1 DEF Lookup, At, CallOK, CallType
        <5> QED
          BY <5>1, <5>2
      <4>2. CASE slot # None
        <5> DEFINE n == [k EXCEPT !.pc = "send", !.holder = slot]
        <5>1. call' = [call EXCEPT ![i] = n]
          BY <1>0, <3>1, <4>2 DEF Lookup
        <5>2. slot \in Call /\ row[slot] # "ABSENT"
          BY <4>2 DEF TypeInv, Slots, OrNone
        <5>3. CallOK(i, n, row)
          BY <1>0, <3>1, <5>2 DEF Lookup, At, CallOK, CallType, OrNone
        <5> QED
          BY <5>1, <5>3
      <4> QED
        BY <4>1, <4>2
    <3>2. CASE Acked(i)
      <4> DEFINE n == [k EXCEPT !.pc = "status"]
      <4>1. call' = [call EXCEPT ![i] = n]
        BY <1>0, <3>2 DEF Acked, To
      <4>2. CallOK(i, n, row)
        BY <1>0, <3>2 DEF Acked, At, CallOK, CallType
      <4> QED
        BY <4>1, <4>2
    <3>3. CASE Unanswered(i)
      <4> DEFINE n == [k EXCEPT !.pc = "insert", !.attempt = @ + 1, !.holder = None, !.until = None]
      <4>1. call' = [call EXCEPT ![i] = n]
        BY <1>0, <3>3 DEF Unanswered
      <4>2. k.attempt + 1 \in Nat /\ k.attempt + 1 # 0
        BY <1>0 DEF CallType
      <4>3. CallOK(i, n, row)
        BY <1>0, <3>3, <4>2 DEF Unanswered, At, CallOK, CallType, OrNone
      <4> QED
        BY <4>1, <4>3
    <3>4. CASE Resolve(i)
      <4> DEFINE h == IF row[k.holder] = "gone" THEN None ELSE k.holder
                 n == [k EXCEPT !.pc = "returned", !.handle = h, !.holder = None, !.until = None]
      <4>1. call' = [call EXCEPT ![i] = n]
        BY <1>0, <3>4 DEF Resolve, Return
      <4>2. h \in OrNone(Call) /\ (h # None => row[h] # "ABSENT") /\ row[i] = "ABSENT"
        BY <1>0, <3>4 DEF Resolve, At, CallOK, OrNone
      <4> HIDE DEF h
      <4>3. CallOK(i, n, row)
        BY <1>0, <4>2 DEF CallOK, CallType, OrNone
      <4> QED
        BY <4>1, <4>3
    <3>5. CASE CallFails(i)
      <4> DEFINE n == [k EXCEPT !.pc = "failed", !.holder = None, !.until = None]
      <4>1. call' = [call EXCEPT ![i] = n]
        BY <1>0, <3>5 DEF CallFails
      <4>2. CallOK(i, n, row)
        BY <1>0, <3>5 DEF CallFails, CallOK, CallType, OrNone
      <4> QED
        BY <4>1, <4>2
    <3> QED
      BY <1>1, <3>1, <3>2, <3>3, <3>4, <3>5
  <2>5. Calls'
    BY <2>1, <2>4, CallStepTypes
  <2> QED
    BY <2>2, <2>3, <2>5 DEF TypeInv
<1>2. ASSUME Send(i) PROVE TypeInv'
  <2> DEFINE c == k.holder
  <2>1. /\ UNCHANGED <<slot, row, target, acked, journal, body, process, now, earlier, happened>>
        /\ c \in Call /\ row[c] # "ABSENT" /\ k.pc = "send"
    BY <1>0, <1>2 DEF Send, At, CallOK
  <2>2. Slots' /\ Work' /\ Clock'
    BY <2>1 DEF TypeInv, Slots, Work, Clock
  <2>3. Calls'
    <3>1. CASE row[c] = "gone"
      <4> DEFINE n == [k EXCEPT !.pc = "failed", !.holder = None]
      <4>1. call' = [call EXCEPT ![i] = n]
        BY <1>0, <1>2, <3>1 DEF Send
      <4>2. CallOK(i, n, row)
        BY <1>0, <2>1 DEF CallOK, CallType, OrNone
      <4> QED
        BY <2>1, <4>1, <4>2, CallStepTypes
    <3>2. CASE row[c] # "gone"
      <4> DEFINE u == Later(now, AckTimeout)
                 n == [k EXCEPT !.pc = "ack", !.until = u]
      <4>1. call' = [call EXCEPT ![i] = n]
        BY <1>0, <1>2, <3>2 DEF Send
      <4>2. u \in Time
        BY <1>0, Times
      <4> HIDE DEF u
      <4>3. CallOK(i, n, row)
        BY <1>0, <2>1, <4>2 DEF CallOK, CallType, OrNone
      <4> QED
        BY <2>1, <4>1, <4>3, CallStepTypes
    <3> QED
      BY <3>1, <3>2
  <2>4. Boxes'
    <3>1. Message(i) \in Messages
      BY <1>0 DEF Message, Messages, CallType
    <3>2. inbox' = inbox \/ inbox' = [inbox EXCEPT ![c] = @ \cup {Message(i)}]
      BY <1>2 DEF Send
    <3>3. inbox' \in [Call -> SUBSET Messages] /\ \A d \in Call : d # c => inbox'[d] = inbox[d]
      BY <3>1, <3>2 DEF TypeInv, Boxes
    <3>4. acked' \in [Call -> SUBSET (Call \X Nat)] /\ target' \in [Call -> Targets]
      BY <2>1 DEF TypeInv, Boxes
    <3> QED
      BY <2>1, <3>3, <3>4, BoxesStep
  <2> QED
    BY <2>2, <2>3, <2>4 DEF TypeInv
<1>3. ASSUME Insert(i) \/ Begin(i) PROVE TypeInv'
  <2>1. /\ UNCHANGED <<target, inbox, acked, journal, body, process, now>> /\ InsertNew(i)
        /\ k.pc \in {"idle", "insert"} /\ row[i] = "ABSENT" /\ k.handle = None /\ k.holder = None
    BY <1>0, <1>3 DEF Insert, Begin, InsertNew, At, CallOK
  <2>2. Clock'
    BY <1>3, <2>1 DEF TypeInv, Clock, Insert, Begin
  <2>3. earlier' \in [Call -> SUBSET Call]
    BY <1>3 DEF Insert, Begin, TypeInv, Calls
  <2>4. body[i].pc = "none" /\ slot # i
    BY <2>1 DEF TypeInv, Work, BodyOK, Slots
  <2>5. CASE slot = None
    <3>1. slot' = i /\ row' = [row EXCEPT ![i] = "ENQUEUED"] /\ Return(i, i)
      BY <2>1, <2>5 DEF InsertNew
    <3>2. \A c \in Call : row'[c] = IF c = i THEN "ENQUEUED" ELSE row[c]
      BY <3>1 DEF TypeInv, Slots
    <3>3. Slots'
      <4>1. row' \in [Call -> RowType]
        BY <3>1 DEF TypeInv, Slots, RowType
      <4>2. \A c \in Call : row[c] \notin {"ENQUEUED", "PENDING"}
        BY <2>5 DEF TypeInv, Slots
      <4> QED
        BY <3>1, <3>2, <4>1, <4>2 DEF Slots, OrNone
    <3>4. Work'
      <4>1. \A c \in Call : BodyOK(body[c], journal[c], row'[c])
        <5>1. BodyOK(body[i], journal[i], row'[i])
          BY <2>4 DEF TypeInv, Work, BodyOK
        <5> QED
          BY <3>2, <5>1 DEF TypeInv, Work
      <4> QED
        BY <2>1, <4>1 DEF TypeInv, Work
    <3>5. Boxes'
      BY <2>1, <3>2 DEF TypeInv, Boxes, CleanOK
    <3>6. Calls'
      <4> DEFINE n == [k EXCEPT !.pc = "returned", !.handle = i, !.holder = None, !.until = None]
      <4>1. call' = [call EXCEPT ![i] = n]
        BY <1>0, <3>1 DEF Return
      <4>2. n \in CallType /\ n.attempt = k.attempt /\ n.pc = "returned" /\ n.handle = i /\ n.holder = None
        BY <1>0 DEF CallType, OrNone
      <4> HIDE DEF n
      <4>3. \A j \in Call : call'[j] = IF j = i THEN n ELSE call[j]
        BY <1>0, <4>1
      <4>4. call' \in [Call -> CallType]
        BY <1>0, <4>1, <4>2
      <4>5. CallOK(i, n, row')
        BY <1>0, <3>2, <4>2 DEF CallOK
      <4>6. ASSUME NEW j \in Call, j # i PROVE CallOK(j, call[j], row')
        <5>1. CallOK(j, call[j], row) /\ call[j].holder \in OrNone(Call) /\ call[j].handle \in OrNone(Call)
          BY DEF TypeInv, Calls, CallType
        <5>2. \A c \in Call : row[c] # "ABSENT" => row'[c] # "ABSENT"
          BY <3>2
        <5> QED
          BY <3>2, <4>6, <5>1, <5>2 DEF CallOK, OrNone
      <4>7. \A j \in Call : CallOK(j, call'[j], row')
        BY <4>3, <4>5, <4>6
      <4> QED
        BY <2>3, <4>4, <4>7 DEF Calls
    <3> QED
      BY <2>2, <3>3, <3>4, <3>5, <3>6 DEF TypeInv
  <2>6. CASE slot # None
    <3> DEFINE n == [k EXCEPT !.pc = "lookup"]
    <3>1. call' = [call EXCEPT ![i] = n] /\ slot' = slot /\ row' = row
      BY <1>0, <2>1, <2>6 DEF InsertNew, To
    <3>2. CallOK(i, n, row)
      BY <1>0, <2>1 DEF CallOK, CallType
    <3>3. \A j \in Call : CallOK(j, call'[j], row)
      BY <1>0, <3>1, <3>2 DEF TypeInv, Calls
    <3>4. call' \in [Call -> CallType]
      BY <1>0, <3>1, <3>2 DEF CallOK
    <3>5. Calls'
      BY <2>3, <3>1, <3>3, <3>4 DEF Calls
    <3>6. Slots' /\ Work' /\ Boxes'
      BY <2>1, <3>1 DEF TypeInv, Slots, Work, Boxes
    <3> QED
      BY <2>2, <3>5, <3>6 DEF TypeInv
  <2> QED
    BY <2>5, <2>6
<1> QED
  BY <1>1, <1>2, <1>3 DEF CallStep

\* The steps of a body that leave its row alone.
LEMMA TypedBody ==
    ASSUME TypeInv, NEW c \in Call,
           \/ StartTime(c) \/ LoopTime(c) \/ Deadline(c) \/ Wait(c) \/ Consume(c) \/ RecordRecv(c)
           \/ SetEvent(c) \/ RecordEvent(c) \/ EnqueueTarget(c) \/ AckMissed(c) \/ Replayed(c)
           \/ NoticeCancel(c) \/ StatementFails(c)
    PROVE  TypeInv'
<1> DEFINE j == journal[c]
           b == body[c]
<1>0. /\ JournalOK(j, now) /\ BodyOK(b, j, row[c]) /\ j \in JournalType /\ b \in BodyType
      /\ journal \in [Call -> JournalType] /\ body \in [Call -> BodyType] /\ now \in Time
      /\ inbox \in [Call -> SUBSET Messages] /\ acked \in [Call -> SUBSET (Call \X Nat)]
      /\ target \in [Call -> Targets]
  BY DEF TypeInv, Work, JournalOK, BodyOK, Clock, Boxes
<1>1. b.pc # "none"
  BY DEF StartTime, LoopTime, Deadline, Wait, Consume, RecordRecv, SetEvent, RecordEvent,
     EnqueueTarget, AckMissed,
         Replayed, NoticeCancel, StatementFails, LoopFails, AckFails, OutcomeFails, In
<1>2. row[c] \in {"PENDING", "CANCELLED", "gone"} /\ process # "down"
  <2>1. row[c] \in {"PENDING", "CANCELLED", "gone"}
    BY <1>0, <1>1 DEF BodyOK
  <2>2. process # "down"
    BY <1>1 DEF TypeInv, Work, NoBody
  <2> QED
    BY <2>1, <2>2
<1>3. /\ UNCHANGED <<slot, row, process, call, now, earlier>>
      /\ happened' = happened \/ Happens("error") \/ Happens("unacked")
  BY DEF StartTime, LoopTime, Deadline, Wait, Consume, RecordRecv, SetEvent, RecordEvent,
     EnqueueTarget, AckMissed,
         Replayed, NoticeCancel, StatementFails, LoopFails, AckFails, OutcomeFails, Others
<1>4. \E j2, b2 : /\ JournalOK(j2, now) /\ BodyOK(b2, j2, row[c])
                  /\ journal' = [journal EXCEPT ![c] = j2] /\ body' = [body EXCEPT ![c] = b2]
  <2>0. journal = [journal EXCEPT ![c] = j] /\ body = [body EXCEPT ![c] = b]
    BY <1>0
  <2>00. Time \subseteq Nat /\ None \notin Time
    BY Times
  <2>1. CASE StartTime(c)
    <3> DEFINE max == Later(now, Timeout)
               at == Capped(now, Delay[c], max)
               j2 == [j EXCEPT !.stage = "loop", !.max = max, !.at = at]
    <3>1. max \in Time /\ at \in Time
      BY <1>0, Times
    <3>2. journal' = [journal EXCEPT ![c] = j2] /\ body' = body /\ b.pc = "next"
      BY <1>0, <2>1 DEF StartTime, In
    <3> HIDE DEF max, at
    <3>3. JournalOK(j2, now) /\ BodyOK(b, j2, row[c])
      BY <1>0, <3>1, <3>2 DEF JournalOK, BodyOK, JournalType, OrNone
    <3> QED
      BY <2>0, <3>2, <3>3
  <2>2. CASE LoopTime(c)
    <3> DEFINE s == IF j.at <= now THEN "fire" ELSE "recv"
               j2 == [j EXCEPT !.stage = s, !.now = now, !.deadline = None]
    <3>1. journal' = [journal EXCEPT ![c] = j2] /\ body' = body /\ b.pc = "next" /\ j.stage = "loop"
      BY <1>0, <2>2 DEF LoopTime, In
    <3>2. s \in {"fire", "recv"}
      OBVIOUS
    <3> HIDE DEF s
    <3>3. j2 \in JournalType
      BY <1>0, <3>2 DEF JournalType, OrNone
    <3>4. j2.stage = s /\ j2.now = now /\ j2.deadline = None /\ j2.at = j.at
      BY <1>0 DEF JournalType
    <3> HIDE DEF j2
    <3>5. now <= now /\ j.at \in Time
      BY <1>0, <2>00, <3>1 DEF JournalOK
    <3>6. JournalOK(j2, now)
      BY <1>0, <3>2, <3>3, <3>4, <3>5 DEF JournalOK
    <3>7. BodyOK(b, j2, row[c])
      BY <1>0, <3>1 DEF BodyOK
    <3> QED
      BY <2>0, <3>1, <3>6, <3>7
  <2>3. CASE Deadline(c)
    <3> DEFINE d == IF j.deadline = None THEN Later(now, j.at - j.now) ELSE j.deadline
               j2 == [j EXCEPT !.deadline = d]
               b2 == [b EXCEPT !.pc = "wait"]
    <3>1. journal' = [journal EXCEPT ![c] = j2] /\ body' = [body EXCEPT ![c] = b2] /\ j.stage = "recv"
      BY <1>0, <2>3 DEF Deadline, In, Move
    <3>2. j.at \in Time /\ j.now \in Time /\ j.now <= now
      BY <1>0, <3>1 DEF JournalOK
    <3>3. d \in Time /\ d >= j.at
      <4>1. CASE j.deadline = None
        BY <1>0, <3>2, <4>1 DEF Time, Later
      <4>2. CASE j.deadline # None
        BY <1>0, <3>1, <4>2 DEF JournalOK, JournalType, OrNone
      <4> QED
        BY <4>1, <4>2
    <3> HIDE DEF d
    <3>4. JournalOK(j2, now) /\ j2.stage = "recv" /\ j2.deadline # None
      BY <1>0, <2>00, <3>1, <3>2, <3>3 DEF JournalOK, JournalType, OrNone
    <3> HIDE DEF j2
    <3>5. BodyOK(b2, j2, row[c])
      BY <1>0, <1>2, <3>4 DEF BodyOK, BodyType
    <3> QED
      BY <3>1, <3>4, <3>5
  <2>4. CASE Wait(c)
    <3> DEFINE b2 == [b EXCEPT !.pc = "consume"]
    <3>1. journal' = journal /\ body' = [body EXCEPT ![c] = b2] /\ b.pc = "wait"
      BY <1>0, <2>4 DEF Wait, Move
    <3>2. BodyOK(b2, j, row[c])
      BY <1>0, <3>1 DEF BodyOK, BodyType
    <3> QED
      BY <1>0, <2>0, <3>1, <3>2
  <2>5. CASE Consume(c)
    <3>1. CASE inbox[c] = {}
      <4> DEFINE j2 == [j EXCEPT !.stage = "fire", !.had = @ \cup {j.input}]
                 b2 == [b EXCEPT !.pc = "next"]
      <4>1. journal' = [journal EXCEPT ![c] = j2] /\ body' = [body EXCEPT ![c] = b2] /\ j.stage = "recv"
        BY <1>0, <2>5, <3>1 DEF Consume, Move, BodyOK
      <4>2. JournalOK(j2, now)
        BY <1>0, <4>1 DEF JournalOK, JournalType
      <4>3. BodyOK(b2, j2, row[c])
        BY <1>0, <1>2 DEF BodyOK, BodyType
      <4> QED
        BY <4>1, <4>2, <4>3
    <3>2. CASE inbox[c] # {}
      <4>1. PICK m \in inbox[c] : /\ journal' = journal
                                  /\ body' = [body EXCEPT ![c] = [pc |-> "record", msg |-> m, input |-> None]]
        BY <2>5, <3>2 DEF Consume, Oldest, Holds
      <4>2. m \in Messages /\ j.stage = "recv"
        BY <1>0, <2>5 DEF Consume, BodyOK
      <4>3. BodyOK([pc |-> "record", msg |-> m, input |-> None], j, row[c])
        BY <1>2, <4>2 DEF BodyOK, BodyType, OrNone
      <4> QED
        BY <1>0, <2>0, <4>1, <4>3
    <3> QED
      BY <3>1, <3>2
  <2>6. CASE RecordRecv(c)
    <3> DEFINE m == b.msg
               at == Capped(j.now, Delay[m.call], j.max)
               j2 == [j EXCEPT !.stage = "ack", !.msg = m, !.input = m.call, !.had = @ \cup {j.input}, !.at = at]
               b2 == [pc |-> "next", msg |-> None, input |-> None]
    <3>1. journal' = [journal EXCEPT ![c] = j2] /\ body' = [body EXCEPT ![c] = b2] /\ b.pc = "record"
      BY <1>0, <2>6 DEF RecordRecv, Updated, Holds
    <3>2. m \in Messages /\ m.call \in Call /\ j.stage = "recv" /\ j.now \in Time /\ j.now <= now /\ j.max \in Time
      BY <1>0, <3>1 DEF BodyOK, JournalOK, Messages, JournalType
    <3>3. at \in Time
      BY <3>2, Times
    <3> HIDE DEF m, at
    <3>4. JournalOK(j2, now)
      BY <1>0, <3>2, <3>3 DEF JournalOK, JournalType, OrNone
    <3>5. BodyOK(b2, j2, row[c])
      BY <1>2 DEF BodyOK, BodyType, OrNone
    <3> QED
      BY <3>1, <3>4, <3>5
  <2>7. CASE SetEvent(c)
    <3> DEFINE b2 == [b EXCEPT !.pc = "acked"]
    <3>1. journal' = journal /\ body' = [body EXCEPT ![c] = b2] /\ j.stage = "ack"
      BY <1>0, <2>7 DEF SetEvent, In, Move
    <3>2. BodyOK(b2, j, row[c])
      BY <1>0, <1>2, <3>1 DEF BodyOK, BodyType
    <3> QED
      BY <1>0, <2>0, <3>1, <3>2
  <2>8. CASE RecordEvent(c)
    <3> DEFINE j2 == [j EXCEPT !.stage = "loop"]
               b2 == [b EXCEPT !.pc = "next"]
    <3>1. journal' = [journal EXCEPT ![c] = j2] /\ body' = [body EXCEPT ![c] = b2] /\ j.stage = "ack"
      BY <1>0, <2>8 DEF RecordEvent, Move, BodyOK
    <3>2. JournalOK(j2, now)
      BY <1>0, <3>1 DEF JournalOK, JournalType
    <3>3. BodyOK(b2, j2, row[c])
      BY <1>0, <1>2 DEF BodyOK, BodyType
    <3> QED
      BY <3>1, <3>2, <3>3
  <2>9. CASE EnqueueTarget(c)
    <3> DEFINE b2 == [pc |-> "outcome", msg |-> None, input |-> None]
    <3>1. journal' = journal /\ body' = [body EXCEPT ![c] = b2]
      BY <1>0, <2>9 DEF EnqueueTarget, Holds
    <3>2. BodyOK(b2, j, row[c])
      BY <1>0, <1>2 DEF BodyOK, BodyType, OrNone
    <3> QED
      BY <1>0, <2>0, <3>1, <3>2
  <2>10. CASE AckMissed(c)
    <3>1. PICK m \in j.missed : journal' = [journal EXCEPT ![c].missed = @ \ {m}] /\ body' = body
      BY <2>10 DEF AckMissed
    <3> DEFINE j2 == [j EXCEPT !.missed = @ \ {m}]
    <3>2. journal' = [journal EXCEPT ![c] = j2]
      BY <1>0, <3>1
    <3>3. JournalOK(j2, now) /\ BodyOK(b, j2, row[c])
      BY <1>0 DEF JournalOK, BodyOK, JournalType
    <3> QED
      BY <2>0, <3>1, <3>2, <3>3
  <2>11. ASSUME journal' = journal, body' = [body EXCEPT ![c].pc = "next"]
         PROVE  \E j2, b2 : /\ JournalOK(j2, now) /\ BodyOK(b2, j2, row[c])
                            /\ journal' = [journal EXCEPT ![c] = j2] /\ body' = [body EXCEPT ![c] = b2]
    <3> DEFINE b2 == [b EXCEPT !.pc = "next"]
    <3>1. BodyOK(b2, j, row[c])
      BY <1>0, <1>2 DEF BodyOK, BodyType
    <3>2. body' = [body EXCEPT ![c] = b2]
      BY <1>0, <2>11
    <3> QED
      BY <1>0, <2>0, <2>11, <3>1, <3>2
  <2>12. ASSUME journal' = journal, NEW i \in Call, Break(c, i)
         PROVE  \E j2, b2 : /\ JournalOK(j2, now) /\ BodyOK(b2, j2, row[c])
                            /\ journal' = [journal EXCEPT ![c] = j2] /\ body' = [body EXCEPT ![c] = b2]
    <3> DEFINE b2 == [pc |-> "fire", msg |-> None, input |-> i]
    <3>1. BodyOK(b2, j, row[c]) /\ body' = [body EXCEPT ![c] = b2]
      BY <1>2, <2>12 DEF BodyOK, BodyType, OrNone, Break
    <3> QED
      BY <1>0, <2>0, <2>12, <3>1
  <2>13. ASSUME journal' = journal, Holds(c, "error", None) \/ body' = [body EXCEPT ![c] = NoBody]
         PROVE  \E j2, b2 : /\ JournalOK(j2, now) /\ BodyOK(b2, j2, row[c])
                            /\ journal' = [journal EXCEPT ![c] = j2] /\ body' = [body EXCEPT ![c] = b2]
    <3>1. PICK p \in {"error", "none"} : body' = [body EXCEPT ![c] = [pc |-> p, msg |-> None, input |-> None]]
      BY <2>13 DEF Holds, NoBody
    <3>2. BodyOK([pc |-> p, msg |-> None, input |-> None], j, row[c])
      BY <1>2 DEF BodyOK, BodyType, OrNone
    <3> QED
      BY <1>0, <2>0, <2>13, <3>1, <3>2
  <2>14. j.input \in Call /\ j.had \subseteq Call
    BY <1>0 DEF JournalType
  <2>15. CASE Replayed(c)
    BY <2>11, <2>15 DEF Replayed, Move
  <2>16. CASE NoticeCancel(c)
    <3>1. journal' = journal /\ (Holds(c, "error", None) \/ \E i \in Call : Break(c, i))
      BY <2>14, <2>16 DEF NoticeCancel
    <3> QED
      BY <2>12, <2>13, <3>1
  <2>17. CASE LoopFails(c)
    <3>1. journal' = journal /\ (Holds(c, "error", None) \/ \E i \in Call : Break(c, i))
      BY <2>14, <2>17 DEF LoopFails
    <3> QED
      BY <2>12, <2>13, <3>1
  <2>18. CASE AckFails(c)
    <3>1. CASE body' = [body EXCEPT ![c].pc = "next"] /\ journal' = journal
      BY <2>11, <3>1
    <3>2. CASE /\ In(c, "ack") /\ body' = body
               /\ journal' = [journal EXCEPT ![c].stage = "loop", ![c].missed = @ \cup {j.msg}]
      <4> DEFINE j2 == [j EXCEPT !.stage = "loop", !.missed = @ \cup {j.msg}]
      <4>1. journal' = [journal EXCEPT ![c] = j2]
        BY <1>0, <3>2
      <4>2. j.msg \in Messages /\ b.pc = "next"
        BY <1>0, <3>2 DEF In, JournalOK
      <4>3. JournalOK(j2, now)
        BY <1>0, <3>2, <4>2 DEF In, JournalOK, JournalType
      <4>4. BodyOK(b, j2, row[c])
        BY <1>0, <4>2 DEF BodyOK
      <4> QED
        BY <2>0, <3>2, <4>1, <4>3, <4>4
    <3> QED
      BY <2>18, <3>1, <3>2 DEF AckFails, Move
  <2>19. CASE OutcomeFails(c)
    BY <2>13, <2>19 DEF OutcomeFails
  <2> QED
    BY <2>1, <2>2, <2>3, <2>4, <2>5, <2>6, <2>7, <2>8, <2>9, <2>10, <2>15, <2>16, <2>17, <2>18, <2>19
    DEF StatementFails
<1>5. PICK j2, b2 : /\ JournalOK(j2, now) /\ BodyOK(b2, j2, row[c])
                    /\ journal' = [journal EXCEPT ![c] = j2] /\ body' = [body EXCEPT ![c] = b2]
  BY <1>4
<1>6. Work'
  BY <1>2, <1>3, <1>5, WorkStepTypes
<1>7. Boxes'
  <2>1. /\ inbox' \in [Call -> SUBSET Messages] /\ acked' \in [Call -> SUBSET (Call \X Nat)]
        /\ target' \in [Call -> Targets]
        /\ \A d \in Call : d # c => inbox'[d] = inbox[d] /\ acked'[d] = acked[d] /\ target'[d] = target[d]
    <3>1. CASE Consume(c)
      <4>1. inbox' = inbox \/ \E m : inbox' = [inbox EXCEPT ![c] = @ \ {m}]
        BY <3>1 DEF Consume
      <4>2. acked' = acked /\ target' = target
        BY <3>1 DEF Consume
      <4> QED
        BY <1>0, <4>1, <4>2
    <3>2. CASE SetEvent(c) \/ AckMissed(c)
      <4>1. PICK m \in Messages : /\ acked' = [acked EXCEPT ![c] = @ \cup {Ack(m)}]
                                  /\ inbox' = inbox /\ target' = target
        BY <1>0, <3>2 DEF SetEvent, AckMissed, In, JournalOK, JournalType
      <4>2. Ack(m) \in Call \X Nat
        BY DEF Ack, Messages
      <4> QED
        BY <1>0, <4>1, <4>2
    <3>3. CASE EnqueueTarget(c)
      <4> DEFINE cut == b.pc = "fire"
                 new == [input |-> IF cut THEN b.input ELSE j.input, at |-> now, cut |-> cut]
                 t == IF target[c] = None THEN new ELSE target[c]
      <4>1. t \in Targets
        <5>1. (IF cut THEN b.input ELSE j.input) \in Call /\ cut \in BOOLEAN
          BY <1>0 DEF BodyOK, JournalType
        <5> HIDE DEF cut
        <5> QED
          BY <1>0, <5>1 DEF Targets, OrNone
      <4>2. target' = [target EXCEPT ![c] = t] /\ inbox' = inbox /\ acked' = acked
        BY <3>3 DEF EnqueueTarget
      <4> HIDE DEF t
      <4> QED
        BY <1>0, <4>1, <4>2
    <3>4. CASE inbox' = inbox /\ acked' = acked /\ target' = target
      BY <1>0, <3>4
    <3> QED
      BY <3>1, <3>2, <3>3, <3>4 DEF StartTime, LoopTime, Deadline, Wait, RecordRecv, RecordEvent, Replayed,
         NoticeCancel, StatementFails, LoopFails, AckFails, OutcomeFails
  <2>2. \A d \in Call : d # c => journal'[d] = journal[d]
    BY <1>0, <1>5
  <2> QED
    BY <1>2, <1>3, <2>1, <2>2, BoxesStep
<1>8. Slots' /\ Calls'
  BY <1>3 DEF TypeInv, Slots, Calls
<1>9. Clock'
  <2>1. {"error", "unacked"} \subseteq Happenings
    BY DEF Happenings
  <2> QED
    BY <1>3, <2>1, CounterType DEF TypeInv, Clock
<1> QED
  BY <1>6, <1>7, <1>8, <1>9 DEF TypeInv

\* A body ends: its row has an outcome, and the slot is free.
LEMMA TypedOutcome ==
    ASSUME TypeInv, NEW c \in Call, Outcome(c)
    PROVE  TypeInv'
<1>1. /\ row[c] \in {"PENDING", "CANCELLED", "gone"} /\ process # "down"
      /\ UNCHANGED <<target, inbox, acked, journal, process, call, now, earlier, happened>>
  <2>1. body[c].pc # "none" /\ UNCHANGED <<target, inbox, acked, journal, process, call, now, earlier, happened>>
    BY DEF Outcome, Others
  <2> QED
    BY <2>1 DEF TypeInv, Work, BodyOK, NoBody
<1>2. /\ row \in [Call -> RowType] /\ body \in [Call -> BodyType]
      /\ \A d \in Call : row[d] \in {"ENQUEUED", "PENDING"} <=> slot = d
  BY DEF TypeInv, Slots, Work
<1> DEFINE r == IF Refused(c) THEN row[c] ELSE IF body[c].pc = "error" THEN "ERROR" ELSE "SUCCESS"
<1>3. /\ row' = [row EXCEPT ![c] = r] /\ slot' = (IF slot = c THEN None ELSE slot)
      /\ body' = [body EXCEPT ![c] = NoBody]
  BY DEF Outcome
<1>4. r \in {"SUCCESS", "ERROR", "CANCELLED", "gone"}
  BY DEF Refused
<1> HIDE DEF r
<1>5. \A d \in Call : row'[d] = IF d = c THEN r ELSE row[d]
  BY <1>2, <1>3
<1>6. Slots'
  <2>1. row' \in [Call -> RowType]
    BY <1>2, <1>3, <1>4 DEF RowType
  <2>2. slot' \in OrNone(Call)
    BY <1>3 DEF TypeInv, Slots, OrNone
  <2>3. \A d \in Call : row'[d] \in {"ENQUEUED", "PENDING"} <=> slot' = d
    BY <1>2, <1>3, <1>4, <1>5
  <2> QED
    BY <2>1, <2>2, <2>3 DEF Slots
<1>7. Calls'
  BY <1>1, <1>4, <1>5, CallsStay
<1>8. Work'
  <2>1. NoBody \in BodyType /\ NoBody.pc = "none"
    BY DEF NoBody, BodyType, OrNone
  <2>2. body' \in [Call -> BodyType] /\ \A d \in Call : body'[d] = IF d = c THEN NoBody ELSE body[d]
    BY <1>2, <1>3, <2>1
  <2>3. \A d \in Call : BodyOK(body'[d], journal[d], row'[d])
    BY <1>5, <2>1, <2>2 DEF TypeInv, Work, BodyOK
  <2> QED
    BY <1>1, <2>2, <2>3 DEF TypeInv, Work
<1>9. Boxes'
  BY <1>1, <1>4, <1>5 DEF TypeInv, Boxes, CleanOK
<1>10. Clock'
  BY <1>1 DEF TypeInv, Clock
<1> QED
  BY <1>6, <1>7, <1>8, <1>9, <1>10 DEF TypeInv

\* The queue takes a row from the queue.
LEMMA TypedDequeue ==
    ASSUME TypeInv, NEW c \in Call, Dequeue(c) \/ DispatchFails(c)
    PROVE  TypeInv'
<1>1. /\ process = "up" /\ row[c] = "ENQUEUED" /\ row' = [row EXCEPT ![c] = "PENDING"]
      /\ UNCHANGED <<slot, target, inbox, acked, journal, process, call, now, earlier>>
      /\ happened' = happened \/ Happens("error")
  BY DEF Dequeue, DispatchFails
<1>2. /\ row \in [Call -> RowType] /\ body \in [Call -> BodyType]
      /\ BodyOK(body[c], journal[c], row[c]) /\ body[c] \in BodyType
  BY DEF TypeInv, Slots, Work
<1>3. \A d \in Call : row'[d] = IF d = c THEN "PENDING" ELSE row[d]
  BY <1>1, <1>2
<1>4. Slots'
  <2>1. row' \in [Call -> RowType]
    BY <1>1, <1>2 DEF RowType
  <2> QED
    BY <1>1, <1>3, <2>1 DEF TypeInv, Slots
<1>5. Calls'
  BY <1>1, <1>3, CallsStay
<1>6. Work'
  <2>0. PICK p \in {"none", "next", "replay"} : body' = [body EXCEPT ![c].pc = p]
    <3>1. CASE Dequeue(c)
      BY <3>1 DEF Dequeue, Move
    <3>2. CASE DispatchFails(c)
      <4>1. body[c].pc = "none"
        BY <1>1, <1>2 DEF BodyOK
      <4> QED
        BY <1>2, <3>2, <4>1 DEF DispatchFails, BodyType
    <3> QED
      BY <3>1, <3>2
  <2> DEFINE b == [body[c] EXCEPT !.pc = p]
  <2>1. b \in BodyType /\ b.pc = p /\ body' = [body EXCEPT ![c] = b]
    BY <1>2, <2>0 DEF BodyType
  <2> HIDE DEF b
  <2>2. body' \in [Call -> BodyType] /\ \A d \in Call : body'[d] = IF d = c THEN b ELSE body[d]
    BY <1>2, <2>1
  <2>3. BodyOK(b, journal[c], "PENDING")
    BY <2>1 DEF BodyOK
  <2>4. \A d \in Call : BodyOK(body'[d], journal[d], row'[d])
    BY <1>3, <2>2, <2>3 DEF TypeInv, Work
  <2> QED
    BY <1>1, <2>2, <2>4 DEF TypeInv, Work
<1>7. Boxes'
  BY <1>1, <1>3 DEF TypeInv, Boxes, CleanOK
<1>8. Clock'
  <2>1. "error" \in Happenings
    BY DEF Happenings
  <2> QED
    BY <1>1, <2>1, CounterType DEF TypeInv, Clock
<1> QED
  BY <1>4, <1>5, <1>6, <1>7, <1>8 DEF TypeInv

\* A row is cancelled, or taken by garbage collection.
LEMMA TypedManagement ==
    ASSUME TypeInv, NEW c \in Call, Cancel(c) \/ Collect(c)
    PROVE  TypeInv'
<1>1. PICK r \in {"CANCELLED", "gone"} :
      /\ row' = [row EXCEPT ![c] = r] /\ row[c] # "ABSENT"
      /\ UNCHANGED <<target, journal, body, process, call, now, earlier>>
      /\ slot' = IF slot = c THEN None ELSE slot
      /\ r = "gone" => row[c] \in {"SUCCESS", "ERROR", "CANCELLED"}
  BY DEF Cancel, Collect, TypeInv, Slots
<1>2. row \in [Call -> RowType] /\ slot \in OrNone(Call)
  BY DEF TypeInv, Slots
<1>3. \A d \in Call : row'[d] = IF d = c THEN r ELSE row[d]
  BY <1>1, <1>2
<1>4. Slots'
  <2>1. row' \in [Call -> RowType]
    BY <1>1, <1>2 DEF RowType
  <2>2. \A d \in Call : row'[d] \in {"ENQUEUED", "PENDING"} <=> slot' = d
    BY <1>1, <1>3 DEF TypeInv, Slots
  <2> QED
    BY <1>1, <1>2, <2>1, <2>2 DEF Slots, OrNone
<1>5. Calls'
  BY <1>1, <1>3, CallsStay
<1>6. Work'
  <2>1. BodyOK(body[c], journal[c], r)
    BY <1>1 DEF TypeInv, Work, BodyOK, NoBody
  <2>2. \A d \in Call : BodyOK(body[d], journal[d], row'[d])
    BY <1>3, <2>1 DEF TypeInv, Work
  <2> QED
    BY <1>1, <2>2 DEF TypeInv, Work
<1>7. Boxes'
  <2>1. \/ inbox' = inbox /\ acked' = acked
        \/ inbox' = [inbox EXCEPT ![c] = {}] /\ acked' = [acked EXCEPT ![c] = {}]
    BY DEF Cancel, Collect
  <2>2. /\ inbox' \in [Call -> SUBSET Messages] /\ acked' \in [Call -> SUBSET (Call \X Nat)]
        /\ \A d \in Call : d # c => inbox'[d] = inbox[d] /\ acked'[d] = acked[d]
    BY <2>1 DEF TypeInv, Boxes
  <2>3. target' \in [Call -> Targets]
    BY <1>1 DEF TypeInv, Boxes
  <2> QED
    BY <1>1, <1>3, <2>2, <2>3, BoxesStep
<1>8. Clock'
  <2>1. {"cancel", "collect"} \subseteq Happenings
    BY DEF Happenings
  <2> QED
    BY <1>1, <2>1, CounterType DEF TypeInv, Clock, Cancel, Collect
<1> QED
  BY <1>4, <1>5, <1>6, <1>7, <1>8 DEF TypeInv

\* Time, and the process of the internal queue.
LEMMA TypedProcess ==
    ASSUME TypeInv, Tick \/ Shutdown \/ Exit \/ Crash \/ Launch
    PROVE  TypeInv'
<1>1. CASE Tick
  <2>1. UNCHANGED <<slot, row, target, inbox, acked, journal, body, process, call, earlier, happened>>
    BY <1>1 DEF Tick, cycle
  <2>2. Slots' /\ Calls' /\ Boxes'
    BY <2>1 DEF TypeInv, Slots, Calls, Boxes
  <2>3. now \in Time /\ now' \in Time /\ now <= now'
    BY <1>1 DEF Tick, TypeInv, Clock, Time
  <2>4. Clock'
    BY <2>1, <2>3 DEF TypeInv, Clock
  <2>5. \A c \in Call : JournalOK(journal[c], now')
    <3> SUFFICES ASSUME NEW c \in Call PROVE JournalOK(journal[c], now')
      OBVIOUS
    <3>1. JournalOK(journal[c], now)
      BY DEF TypeInv, Work
    <3>2. journal[c].now \in Time /\ journal[c].now <= now => journal[c].now <= now'
      BY <2>3 DEF Time
    <3> QED
      BY <3>1, <3>2 DEF JournalOK
  <2>6. Work'
    BY <2>1, <2>5 DEF TypeInv, Work
  <2> QED
    BY <2>2, <2>4, <2>6 DEF TypeInv
<1>2. CASE Shutdown
  <2>1. "shutdown" \in Happenings
    BY DEF Happenings
  <2>2. Clock'
    BY <1>2, <2>1, CounterType DEF Shutdown, TypeInv, Clock
  <2>3. Slots' /\ Calls' /\ Boxes' /\ Work'
    BY <1>2 DEF Shutdown, cycle, TypeInv, Slots, Calls, Boxes, Work
  <2> QED
    BY <2>2, <2>3 DEF TypeInv
<1>3. CASE Exit \/ Crash
  <2>1. /\ process' = "down" /\ body' = [c \in Call |-> NoBody]
        /\ UNCHANGED <<slot, row, target, inbox, acked, journal, call, now, earlier>>
        /\ happened' = happened \/ Happens("crash")
    BY <1>3 DEF Exit, Crash, Stopped
  <2>2. NoBody \in BodyType /\ NoBody.pc = "none"
    BY DEF NoBody, BodyType, OrNone
  <2>3. \A c \in Call : BodyOK(NoBody, journal[c], row[c])
    BY <2>2 DEF BodyOK
  <2>4. Work'
    BY <2>1, <2>2, <2>3 DEF TypeInv, Work
  <2>5. Slots' /\ Calls' /\ Boxes'
    BY <2>1 DEF TypeInv, Slots, Calls, Boxes
  <2>6. Clock'
    <3>1. "crash" \in Happenings
      BY DEF Happenings
    <3> QED
      BY <2>1, <3>1, CounterType DEF TypeInv, Clock
  <2> QED
    BY <2>4, <2>5, <2>6 DEF TypeInv
<1>4. CASE Launch
  <2>1. /\ process = "down" /\ process' = "up"
        /\ UNCHANGED <<slot, target, inbox, acked, journal, body, call, now, earlier, happened>>
        /\ row' = [c \in Call |-> IF row[c] = "PENDING" THEN "ENQUEUED" ELSE row[c]]
    BY <1>4 DEF Launch
  <2>2. Slots'
    BY <2>1 DEF TypeInv, Slots, RowType
  <2>3. \A c \in Call : body[c].pc = "none"
    BY <2>1 DEF TypeInv, Work, NoBody
  <2>4. Work'
    <3>1. \A c \in Call : BodyOK(body[c], journal[c], row'[c])
      BY <2>3 DEF TypeInv, Work, BodyOK
    <3> QED
      BY <2>1, <3>1 DEF TypeInv, Work
  <2>5. Calls'
    BY <2>1, CallsStay
  <2>6. Boxes' /\ Clock'
    BY <2>1 DEF TypeInv, Boxes, CleanOK, Clock
  <2> QED
    BY <2>2, <2>4, <2>5, <2>6 DEF TypeInv
<1> QED
  BY <1>1, <1>2, <1>3, <1>4

\* The types hold at the start.
LEMMA TypedInit == Init => TypeInv
<1> SUFFICES ASSUME Init PROVE TypeInv
  OBVIOUS
<1>1. 0 \in Time /\ Horizon \in Time
  BY Times
<1>2. \A c \in Call : NewJournal(c) \in JournalType /\ NewJournal(c).stage = "start"
  BY <1>1 DEF NewJournal, JournalType, OrNone
<1>3. NoBody \in BodyType /\ NoBody.pc = "none"
  BY DEF NoBody, BodyType, OrNone
<1> DEFINE k == [pc |-> "idle", holder |-> None, attempt |-> 1, until |-> None, handle |-> None]
<1>4. k \in CallType /\ k.pc = "idle" /\ k.holder = None /\ k.attempt = 1 /\ k.handle = None
  BY DEF CallType, OrNone
<1>5. call = [i \in Call |-> k]
  BY DEF Init
<1> HIDE DEF k
<1>6. \A i \in Call : row[i] = "ABSENT"
  BY DEF Init
<1>7. Slots
  BY <1>6 DEF Init, Slots, RowType, OrNone
<1>8. Calls
  BY <1>4, <1>5, <1>6 DEF Calls, CallOK, Init
<1>9. Work
  <2>1. \A c \in Call : JournalOK(NewJournal(c), 0)
    BY <1>2 DEF JournalOK
  <2>2. \A c \in Call : BodyOK(NoBody, NewJournal(c), "ABSENT")
    BY <1>3 DEF BodyOK
  <2> QED
    BY <1>2, <1>3, <2>1, <2>2 DEF Init, Work
<1>10. Boxes
  BY DEF Init, Boxes, Targets, OrNone, CleanOK
<1>11. Clock
  BY <1>1 DEF Init, Clock
<1> QED
  BY <1>7, <1>8, <1>9, <1>10, <1>11 DEF TypeInv

\* Every step keeps them.
LEMMA TypedNext == TypeInv /\ [Next]_vars => TypeInv'
<1> SUFFICES ASSUME TypeInv, [Next]_vars PROVE TypeInv'
  OBVIOUS
<1>1. CASE Next
  BY <1>1, TypedCall, TypedBody, TypedOutcome, TypedDequeue, TypedManagement, TypedProcess
  DEF Next, Environment, Errors, BodyStep
<1>2. CASE UNCHANGED vars
  BY <1>2 DEF vars, cycle, TypeInv, Slots, Calls, Work, Boxes, Clock
<1> QED
  BY <1>1, <1>2

\* Every state has the types: the slot belongs to the one row that is waiting or
\* running, and a body to a row that was dequeued.
THEOREM DebouncerTyping == Spec => []TypeOK
<1>1. Init => TypeInv
  BY TypedInit
<1>2. TypeInv /\ [Next]_vars => TypeInv'
  BY TypedNext
<1>3. TypeInv => TypeOK
  BY TypeInvTypes
<1> QED
  BY <1>1, <1>2, <1>3, PTL DEF Spec

------------------------------------------------------------------------------
(* Messages: where one can be, and what a step does with those of a        *)
(* workflow.                                                               *)

\* The message that a body has taken, and the one that it acknowledges.
Hand(c) == IF body[c].pc = "record" THEN {body[c].msg} ELSE {}
Pend(c) == IF journal[c].stage = "ack" THEN {journal[c].msg} ELSE {}

\* The messages that are acknowledged, or were to be.
Taken(c) == acked[c] \cup {Ack(m) : m \in journal[c].missed}

\* At the end of time a recv is the last one.
Locked(c) == now = Horizon /\ journal[c].stage \in {"ack", "loop", "fire"}

\* Some are gone; the oldest is taken; the one taken is recorded, and its input;
\* the one recorded is acknowledged, or was to be.
Drops(c) ==
    /\ inbox'[c] \subseteq inbox[c] /\ Taken(c)' \subseteq Taken(c)
    /\ Hand(c)' \subseteq Hand(c) /\ Pend(c)' \subseteq Pend(c)
    /\ journal'[c].input = journal[c].input
Takes(c) ==
    /\ journal[c].stage = "recv"
    /\ \E m \in inbox[c] :
          /\ \A n \in inbox[c] : m.sent <= n.sent
          /\ inbox'[c] = inbox[c] \ {m} /\ Hand(c)' = {m}
    /\ Taken(c)' = Taken(c) /\ journal'[c] = journal[c]
Keeps(c) ==
    /\ journal'[c].stage = "ack" /\ Hand(c)' = {}
    /\ \E m \in Hand(c) : Pend(c)' = {m} /\ journal'[c].input = m.call
    /\ inbox'[c] = inbox[c] /\ Taken(c)' = Taken(c)
Acks(c) ==
    /\ \E m \in Pend(c) : Taken(c)' = Taken(c) \cup {Ack(m)} /\ m.call = journal[c].input
    /\ inbox'[c] = inbox[c] /\ Hand(c)' = Hand(c) /\ Pend(c)' \subseteq Pend(c)
    /\ journal'[c].input = journal[c].input
Moves(c) ==
    /\ Drops(c) \/ Takes(c) \/ Keeps(c) \/ Acks(c)
    /\ Locked(c) => Locked(c)'

\* What is not touched moves like this.
LEMMA StillMoves ==
    ASSUME NEW c \in Call, inbox'[c] = inbox[c], acked'[c] = acked[c], journal'[c] = journal[c],
           Hand(c)' \subseteq Hand(c), now = Horizon => now' = Horizon
    PROVE  Moves(c)
  BY DEF Moves, Drops, Pend, Locked, Taken

\* The steps of a body, for its own workflow.
LEMMA BodyMoves ==
    ASSUME TypeInv, NEW c \in Call, BodyStep(c) \/ StatementFails(c)
    PROVE  Moves(c) /\ now' = now
<1> DEFINE j == journal[c]
           b == body[c]
<1>0. /\ JournalOK(j, now) /\ BodyOK(b, j, row[c]) /\ j \in JournalType /\ b \in BodyType
      /\ journal \in [Call -> JournalType] /\ body \in [Call -> BodyType] /\ now \in Time
      /\ inbox \in [Call -> SUBSET Messages] /\ acked \in [Call -> SUBSET (Call \X Nat)]
  BY DEF TypeInv, Work, JournalOK, BodyOK, Clock, Boxes
<1>1. now' = now
  BY DEF BodyStep, StartTime, LoopTime, Deadline, Wait, Consume, RecordRecv, SetEvent, RecordEvent,
         EnqueueTarget, Outcome, AckMissed, Replayed, NoticeCancel, StatementFails, LoopFails,
         AckFails, OutcomeFails, Others
\* What is left is where it was, and only the stage goes on.
<1>2. ASSUME inbox' = inbox, acked' = acked, journal'[c].missed = j.missed, journal'[c].input = j.input,
             body'[c].pc # "record", journal'[c].stage # "ack",
             Locked(c) => journal'[c].stage \in {"loop", "fire"}
      PROVE  Moves(c) /\ now' = now
  BY <1>1, <1>2 DEF Moves, Drops, Hand, Pend, Locked, Taken
<1>3. CASE StartTime(c) \/ LoopTime(c)
  <2>1. /\ inbox' = inbox /\ acked' = acked /\ body' = body /\ b.pc = "next"
        /\ journal'[c].input = j.input /\ journal'[c].missed = j.missed
        /\ journal'[c].stage \in {"loop", "fire", "recv"}
    BY <1>0, <1>3 DEF StartTime, LoopTime, In, JournalType
  <2>2. Locked(c) => journal'[c].stage \in {"loop", "fire"}
    <3> SUFFICES ASSUME Locked(c), LoopTime(c) PROVE journal'[c].stage = "fire"
      BY <1>0, <1>3 DEF StartTime, JournalType
    <3>1. j.at \in Time /\ now = Horizon
      BY <1>0 DEF LoopTime, In, JournalOK, Locked
    <3>2. j.at <= now
      BY <3>1 DEF Time
    <3> QED
      BY <1>0, <3>2 DEF LoopTime, JournalType
  <2> QED
    BY <1>2, <2>1, <2>2
<1>4. CASE Deadline(c) \/ Wait(c)
  <2>1. /\ inbox' = inbox /\ acked' = acked /\ body'[c].pc # "record" /\ b.pc # "record"
        /\ journal'[c].input = j.input /\ j.stage = "recv" /\ journal'[c].stage = "recv"
        /\ journal'[c].missed = j.missed
    BY <1>0, <1>4 DEF Deadline, Wait, Move, In, JournalType, BodyType, BodyOK
  <2> QED
    BY <1>2, <2>1 DEF Locked
<1>5. CASE Consume(c)
  <2>1. acked' = acked /\ j.stage = "recv" /\ b.pc = "consume"
    BY <1>0, <1>5 DEF Consume, BodyOK
  <2>2. CASE inbox[c] = {}
    <3>1. /\ inbox' = inbox /\ body'[c].pc = "next"
          /\ journal'[c].input = j.input /\ journal'[c].stage = "fire" /\ journal'[c].missed = j.missed
      BY <1>0, <1>5, <2>2 DEF Consume, Move, JournalType, BodyType
    <3> QED
      BY <1>2, <2>1, <3>1 DEF Locked
  <2>3. CASE inbox[c] # {}
    <3>1. PICK m \in Oldest(c) :
             /\ inbox' = [inbox EXCEPT ![c] = @ \ {m}] /\ journal' = journal
             /\ body' = [body EXCEPT ![c] = [pc |-> "record", msg |-> m, input |-> None]]
      BY <1>5, <2>3 DEF Consume, Holds
    <3>2. Hand(c)' = {m} /\ inbox'[c] = inbox[c] \ {m}
      BY <1>0, <3>1 DEF Hand
    <3>3. Takes(c)
      BY <2>1, <3>1, <3>2 DEF Takes, Oldest, Taken
    <3> QED
      BY <1>1, <2>1, <3>3 DEF Moves, Locked
  <2> QED
    BY <2>2, <2>3
<1>6. CASE RecordRecv(c)
  <2>1. /\ inbox' = inbox /\ acked' = acked /\ b.pc = "record" /\ j.stage = "recv"
        /\ body' = [body EXCEPT ![c] = [pc |-> "next", msg |-> None, input |-> None]]
        /\ journal' = [journal EXCEPT ![c] = Updated(j, b.msg)]
    BY <1>0, <1>6 DEF RecordRecv, BodyOK, Holds
  <2>2. /\ journal'[c].stage = "ack" /\ journal'[c].msg = b.msg /\ journal'[c].input = b.msg.call
        /\ journal'[c].missed = j.missed
    BY <1>0, <2>1 DEF Updated, JournalType
  <2>3. Keeps(c)
    BY <1>0, <2>1, <2>2 DEF Keeps, Hand, Pend, Taken
  <2> QED
    BY <1>1, <2>1, <2>3 DEF Moves, Locked
<1>7. CASE SetEvent(c)
  <2>1. /\ inbox' = inbox /\ journal' = journal /\ j.stage = "ack" /\ j.input = j.msg.call
        /\ acked'[c] = acked[c] \cup {Ack(j.msg)}
        /\ b.pc = "next" /\ body'[c].pc = "acked"
    BY <1>0, <1>7 DEF SetEvent, In, Move, JournalOK, BodyType
  <2>2. Acks(c)
    BY <2>1 DEF Acks, Hand, Pend, Taken
  <2> QED
    BY <1>1, <2>1, <2>2 DEF Moves, Locked
<1>8. CASE RecordEvent(c)
  <2>1. /\ inbox' = inbox /\ acked' = acked /\ b.pc = "acked" /\ body'[c].pc = "next"
        /\ journal'[c].stage = "loop" /\ journal'[c].input = j.input /\ journal'[c].missed = j.missed
    BY <1>0, <1>8 DEF RecordEvent, Move, JournalType, BodyType
  <2> QED
    BY <1>2, <2>1
<1>9. CASE \/ EnqueueTarget(c) \/ Outcome(c) \/ Replayed(c) \/ NoticeCancel(c) \/ LoopFails(c) \/ OutcomeFails(c)
           \/ AckFails(c) /\ journal' = journal
  <2>1. inbox' = inbox /\ acked' = acked /\ journal' = journal /\ body'[c].pc # "record"
    BY <1>0, <1>9 DEF EnqueueTarget, Outcome, Replayed, NoticeCancel, LoopFails, OutcomeFails,
       AckFails, Move, Holds,
                      Break, In, NoBody, BodyType
  <2>2. Hand(c)' = {}
    BY <2>1 DEF Hand
  <2> QED
    BY <1>1, <2>1, <2>2, StillMoves
<1>10. CASE AckMissed(c)
  <2>1. PICK m \in j.missed : /\ acked' = [acked EXCEPT ![c] = @ \cup {Ack(m)}]
                              /\ journal' = [journal EXCEPT ![c].missed = @ \ {m}]
                              /\ inbox' = inbox /\ body' = body
    BY <1>10 DEF AckMissed
  <2>2. /\ acked'[c] = acked[c] \cup {Ack(m)} /\ journal'[c].missed = j.missed \ {m}
        /\ journal'[c].input = j.input /\ journal'[c].stage = j.stage /\ journal'[c].msg = j.msg
    BY <1>0, <2>1 DEF JournalType
  <2>3. Drops(c)
    BY <2>1, <2>2 DEF Drops, Taken, Hand, Pend
  <2> QED
    BY <1>1, <2>2, <2>3 DEF Moves, Locked
<1>11. CASE AckFails(c) /\ journal' # journal
  <2>1. /\ inbox' = inbox /\ acked' = acked /\ body' = body /\ j.stage = "ack" /\ j.input = j.msg.call
        /\ journal' = [journal EXCEPT ![c].stage = "loop", ![c].missed = @ \cup {j.msg}]
    BY <1>0, <1>11 DEF AckFails, In, JournalOK
  <2>2. /\ journal'[c].missed = j.missed \cup {j.msg} /\ journal'[c].stage = "loop"
        /\ journal'[c].input = j.input
    BY <1>0, <2>1 DEF JournalType
  <2>3. Acks(c)
    BY <2>1, <2>2 DEF Acks, Taken, Hand, Pend
  <2> QED
    BY <1>1, <2>2, <2>3 DEF Moves, Locked
<1> QED
  BY <1>1, <1>3, <1>4, <1>5, <1>6, <1>7, <1>8, <1>9, <1>10, <1>11 DEF BodyStep, StatementFails

\* Those of any step.
LEMMA AllMove ==
    ASSUME TypeInv, Next, NEW d \in Call, \A i \in Call : ~Send(i)
    PROVE  Moves(d) /\ (now = Horizon => now' = Horizon)
<1>0. /\ journal \in [Call -> JournalType] /\ body \in [Call -> BodyType] /\ now \in Time
      /\ inbox \in [Call -> SUBSET Messages] /\ acked \in [Call -> SUBSET (Call \X Nat)]
  BY DEF TypeInv, Work, Clock, Boxes
<1>1. ASSUME NEW c \in Call, BodyStep(c) \/ StatementFails(c) PROVE Moves(d) /\ now' = now
  <2>1. now' = now
    BY <1>1, BodyMoves
  <2>2. CASE c = d
    BY <1>1, <2>1, <2>2, BodyMoves
  <2>3. CASE c # d
    <3>1. inbox'[d] = inbox[d] /\ acked'[d] = acked[d] /\ journal'[d] = journal[d]
      BY <1>0, <1>1, <2>3 DEF BodyStep, StartTime, LoopTime, Deadline, Wait, Consume, RecordRecv, SetEvent,
         RecordEvent, EnqueueTarget, Outcome, AckMissed, Replayed, NoticeCancel, StatementFails, LoopFails,
         AckFails, OutcomeFails
    <3>2. body'[d] = body[d]
      BY <1>0, <1>1, <2>3 DEF BodyStep, StartTime, LoopTime, Deadline, Wait, Consume, RecordRecv, SetEvent,
         RecordEvent, EnqueueTarget, Outcome, AckMissed, Replayed, NoticeCancel, StatementFails, LoopFails,
         AckFails, OutcomeFails, Move, Holds, Break
    <3> QED
      BY <2>1, <3>1, <3>2, StillMoves DEF Hand
  <2> QED
    BY <2>1, <2>2, <2>3
<1>2. ASSUME NEW c \in Call, Dequeue(c) \/ DispatchFails(c) \/ Cancel(c) PROVE Moves(d) /\ now' = now
  <2>1. /\ inbox' = inbox /\ acked' = acked /\ journal' = journal /\ now' = now
        /\ body' = body \/ \E p \in {"next", "replay"} : body' = [body EXCEPT ![c].pc = p]
    BY <1>2 DEF Dequeue, DispatchFails, Cancel, Move
  <2>2. Hand(d)' \subseteq Hand(d)
    BY <1>0, <2>1 DEF Hand, BodyType
  <2> QED
    BY <2>1, <2>2, StillMoves
<1>3. ASSUME NEW c \in Call, Collect(c) PROVE Moves(d) /\ now' = now
  <2>1. inbox'[d] \subseteq inbox[d] /\ acked'[d] \subseteq acked[d]
    BY <1>0, <1>3 DEF Collect
  <2> QED
    BY <1>3, <2>1 DEF Collect, Moves, Drops, Hand, Pend, Locked, Taken
<1>4. CASE Tick \/ Shutdown \/ Exit \/ Crash \/ Launch
  <2>1. /\ inbox' = inbox /\ acked' = acked /\ journal' = journal
        /\ body' = body \/ body' = [c \in Call |-> NoBody]
        /\ now = Horizon => now' = Horizon
    BY <1>0, <1>4 DEF Tick, Shutdown, Exit, Crash, Launch, Stopped, cycle, Time
  <2>2. Hand(d)' \subseteq Hand(d)
    BY <2>1 DEF Hand, NoBody
  <2> QED
    BY <2>1, <2>2, StillMoves
<1>5. ASSUME NEW i \in Call, Begin(i) \/ CallFails(i) \/ (CallStep(i) /\ ~Send(i)) PROVE Moves(d) /\ now' = now
  <2>1. inbox' = inbox /\ acked' = acked /\ journal' = journal /\ body' = body /\ now' = now
    BY <1>5 DEF Begin, CallFails, CallStep, Insert, InsertNew, Lookup, Acked, Unanswered, Resolve, cycle
  <2> QED
    BY <2>1, StillMoves DEF Hand
<1> QED
  BY <1>1, <1>2, <1>3, <1>4, <1>5 DEF Next, Environment, Errors

\* A call sends its message to the holder c.
Sends(i, c) ==
    /\ call[i].pc = "send" /\ call[i].holder = c /\ call'[i].pc = "ack" /\ call'[i].attempt = call[i].attempt
    /\ inbox'[c] = inbox[c] \cup {Message(i)}
    /\ Hand(c)' = Hand(c) /\ acked'[c] = acked[c] /\ journal'[c] = journal[c] /\ now' = now

\* Every step moves the messages of a workflow on, or is a call sending one.
LEMMA EachMoves ==
    ASSUME TypeInv, Next, NEW c \in Call
    PROVE  (Moves(c) \/ \E i \in Call : Sends(i, c)) /\ (now = Horizon => now' = Horizon)
<1>1. CASE \A i \in Call : ~Send(i)
  BY <1>1, AllMove
<1>2. ASSUME NEW i \in Call, Send(i) PROVE (Moves(c) \/ Sends(i, c)) /\ now' = now
  <2>1. /\ UNCHANGED <<acked, journal, body, now>> /\ call[i].pc = "send"
        /\ call \in [Call -> CallType] /\ inbox \in [Call -> SUBSET Messages]
    BY <1>2 DEF Send, At, TypeInv, Calls, Boxes
  <2>2. CASE inbox'[c] = inbox[c]
    BY <2>1, <2>2, StillMoves DEF Hand
  <2>3. CASE inbox'[c] # inbox[c]
    <3>1. /\ inbox' = [inbox EXCEPT ![call[i].holder] = @ \cup {Message(i)}]
          /\ call' = [call EXCEPT ![i].pc = "ack", ![i].until = Later(now, AckTimeout)]
      BY <1>2, <2>3 DEF Send
    <3>2. call[i].holder = c /\ inbox'[c] = inbox[c] \cup {Message(i)}
      BY <2>1, <2>3, <3>1
    <3>3. call'[i].pc = "ack" /\ call'[i].attempt = call[i].attempt
      BY <2>1, <3>1 DEF CallType
    <3> QED
      BY <2>1, <3>2, <3>3 DEF Sends, Hand
  <2> QED
    BY <2>1, <2>2, <2>3
<1> QED
  BY <1>1, <1>2

\* What a call does, of which k becomes n.
Goes(j, k, n) ==
    \/ n = k
    \/ /\ k.pc \in {"idle", "insert"} /\ n.pc = "lookup"
       /\ n.attempt = k.attempt /\ n.holder = None /\ n.handle = None
    \/ /\ k.pc \in {"idle", "insert"} /\ n.pc = "returned"
       /\ n.attempt = k.attempt /\ n.holder = None /\ n.handle = j /\ row[j] = "ABSENT" /\ slot = None
    \/ k.pc = "lookup" /\ n.pc = "insert" /\ n.attempt = k.attempt /\ n.holder = None /\ n.handle = None
    \/ k.pc = "lookup" /\ n.pc = "send" /\ n.attempt = k.attempt /\ n.holder = slot /\ n.handle = None
    \/ /\ k.pc \in {"insert", "lookup", "send", "ack", "status"} /\ n.pc = "failed"
       /\ n.attempt = k.attempt /\ n.holder = None /\ n.handle = None
    \/ /\ k.pc = "send" /\ n.pc = "ack" /\ n.until = Later(now, AckTimeout)
       /\ n.attempt = k.attempt /\ n.holder = k.holder /\ n.handle = None
    \/ /\ k.pc = "ack" /\ n.pc = "status" /\ <<j, k.attempt>> \in Taken(k.holder)
       /\ n.attempt = k.attempt /\ n.holder = k.holder /\ n.handle = None
    \/ /\ k.pc = "ack" /\ n.pc = "insert" /\ now >= k.until
       /\ n.attempt = k.attempt + 1 /\ n.holder = None /\ n.handle = None
    \/ /\ k.pc = "status" /\ n.pc = "returned"
       /\ n.attempt = k.attempt /\ n.holder = None /\ n.handle \in {k.holder, None}

\* Every step takes each call along its way.
LEMMA EachGoes ==
    ASSUME TypeInv, Next, NEW j \in Call
    PROVE  Goes(j, call[j], call'[j])
<1> DEFINE k == call[j]
<1>0. call \in [Call -> CallType] /\ k \in CallType /\ CallOK(j, k, row)
  BY DEF TypeInv, Calls
<1>1. CASE call' = call
  BY <1>1 DEF Goes
<1>2. ASSUME NEW i \in Call, CallStep(i) \/ Begin(i) \/ CallFails(i) PROVE Goes(j, call[j], call'[j])
  <2>1. CASE i # j
    <3>1. call'[j] = call[j]
      BY <1>0, <1>2, <2>1 DEF CallStep, Begin, CallFails, Insert, InsertNew, Lookup, Send, Acked,
         Unanswered, Resolve, To, Return
    <3> QED
      BY <3>1 DEF Goes
  <2>2. CASE i = j
    <3>1. CASE Insert(j) \/ Begin(j)
      <4>1. InsertNew(j) /\ k.pc \in {"idle", "insert"} /\ row[j] = "ABSENT" /\ k.holder = None /\ k.handle = None
        BY <1>0, <3>1 DEF Insert, Begin, At, CallOK
      <4>2. \/ /\ slot = None
               /\ call' = [call EXCEPT ![j].pc = "returned", ![j].handle = j, ![j].holder = None, ![j].until = None]
            \/ call' = [call EXCEPT ![j].pc = "lookup"]
        BY <4>1 DEF InsertNew, To, Return
      <4> QED
        BY <1>0, <4>1, <4>2 DEF Goes, CallType
    <3>2. CASE Lookup(j)
      BY <1>0, <3>2 DEF Lookup, At, CallOK, Goes, CallType
    <3>3. CASE Send(j)
      BY <1>0, <3>3 DEF Send, At, To, CallOK, Goes, CallType
    <3>4. CASE Acked(j)
      BY <1>0, <3>4 DEF Acked, At, To, IsAcked, Taken, CallOK, Goes, CallType
    <3>5. CASE Unanswered(j)
      BY <1>0, <3>5 DEF Unanswered, At, CallOK, Goes, CallType
    <3>6. CASE Resolve(j)
      BY <1>0, <3>6 DEF Resolve, At, Return, CallOK, Goes, CallType
    <3>7. CASE CallFails(j)
      BY <1>0, <3>7 DEF CallFails, CallOK, Goes, CallType
    <3> QED
      BY <1>2, <2>2, <3>1, <3>2, <3>3, <3>4, <3>5, <3>6, <3>7 DEF CallStep
  <2> QED
    BY <2>1, <2>2
<1>3. call' = call \/ \E i \in Call : CallStep(i) \/ Begin(i) \/ CallFails(i)
  <2>1. ASSUME NEW c \in Call, BodyStep(c) \/ StatementFails(c) PROVE call' = call
    BY <2>1 DEF BodyStep, StartTime, LoopTime, Deadline, Wait, Consume, RecordRecv, SetEvent, RecordEvent,
         EnqueueTarget, Outcome, AckMissed, Replayed, NoticeCancel, StatementFails, LoopFails,
         AckFails, OutcomeFails, Others
  <2> QED
    BY <2>1 DEF Next, Environment, Errors, Dequeue, DispatchFails, Cancel, Collect, Tick, Shutdown,
       Exit, Crash, Stopped, Launch
<1> QED
  BY <1>1, <1>2, <1>3

\* The slot is freed, or goes to a call that has no row.
LEMMA SlotGoes ==
    ASSUME TypeInv, Next
    PROVE  \/ slot' \in {slot, None}
           \/ slot' \in Call /\ row[slot'] = "ABSENT"
<1>1. ASSUME NEW i \in Call, CallStep(i) \/ Begin(i) \/ CallFails(i)
      PROVE  slot' = slot \/ (slot' = i /\ row[i] = "ABSENT")
  BY <1>1 DEF CallStep, Begin, CallFails, Insert, InsertNew, Lookup, Send, Acked, Unanswered, Resolve,
     cycle, At,
         TypeInv, Calls, CallOK
<1>2. ASSUME NEW c \in Call, BodyStep(c) \/ StatementFails(c) PROVE slot' \in {slot, None}
  BY <1>2 DEF BodyStep, StartTime, LoopTime, Deadline, Wait, Consume, RecordRecv, SetEvent, RecordEvent,
         EnqueueTarget, Outcome, AckMissed, Replayed, NoticeCancel, StatementFails, LoopFails,
         AckFails, OutcomeFails
<1>3. CASE Tick \/ Shutdown \/ Exit \/ Crash \/ Launch
           \/ \E c \in Call : Dequeue(c) \/ DispatchFails(c) \/ Cancel(c) \/ Collect(c)
  BY <1>3 DEF Dequeue, DispatchFails, Cancel, Collect, Tick, Shutdown, Exit, Crash, Stopped, Launch, cycle
<1> QED
  BY <1>1, <1>2, <1>3 DEF Next, Environment, Errors

------------------------------------------------------------------------------
(* A target has the latest input.                                          *)

\* The calls that had returned when one began have returned.
EarlierInv == \A i \in Call : \A j \in earlier[i] : At(j, "returned")

\* What is numbered a is of an attempt that call j has begun and, unless it waits,
\* has given up.
Numbered(j, a) ==
    /\ a <= call[j].attempt
    /\ call[j].pc \in {"idle", "insert", "lookup", "send"} => a # call[j].attempt
AttemptInv == \A c \in Call :
    /\ \A m \in inbox[c] \cup Hand(c) \cup Pend(c) : Numbered(m.call, m.attempt)
    /\ \A j \in Call, a \in Nat : <<j, a>> \in Taken(c) => Numbered(j, a)

\* The attempts a call has made stay made.
LEMMA NumbersGrow ==
    ASSUME TypeInv, Next, NEW j \in Call, NEW a \in Nat, Numbered(j, a)
    PROVE  Numbered(j, a)'
<1>1. Goes(j, call[j], call'[j]) /\ call[j].attempt \in Nat
  BY EachGoes DEF TypeInv, Calls, CallType
<1> QED
  BY <1>1 DEF Goes, Numbered

\* The messages of a workflow, by where they are.
LEMMA MessageTypes ==
    ASSUME TypeInv, NEW c \in Call
    PROVE  /\ inbox[c] \subseteq Messages /\ Hand(c) \subseteq Messages /\ Pend(c) \subseteq Messages
           /\ \A m \in Messages : m.call \in Call /\ m.attempt \in Nat /\ m.sent \in Time
<1>1. JournalOK(journal[c], now) /\ BodyOK(body[c], journal[c], row[c])
  BY DEF TypeInv, Work
<1> QED
  BY <1>1 DEF JournalOK, BodyOK, Hand, Pend, TypeInv, Boxes, Messages

\* The calls that had returned are looked up when a call begins.
LEMMA EarlierGoes ==
    ASSUME TypeInv, Next, NEW i \in Call
    PROVE  \/ earlier'[i] = earlier[i]
           \/ /\ earlier'[i] = {h \in Call : At(h, "returned")}
              /\ call[i].pc = "idle" /\ call'[i].pc # "idle"
<1>1. earlier \in [Call -> SUBSET Call] /\ call \in [Call -> CallType]
  BY DEF TypeInv, Calls
<1>2. ASSUME NEW c \in Call, BodyStep(c) \/ StatementFails(c) PROVE earlier' = earlier
  BY <1>2 DEF BodyStep, StartTime, LoopTime, Deadline, Wait, Consume, RecordRecv, SetEvent, RecordEvent,
     EnqueueTarget, Outcome, AckMissed, Replayed, NoticeCancel, StatementFails, LoopFails,
         AckFails, OutcomeFails, Others
<1>3. \/ earlier' = earlier
      \/ \E k \in Call : Begin(k)
  BY <1>2 DEF Next, Environment, Errors, CallFails, CallStep, Insert, Lookup, Send, Acked, Unanswered,
     Resolve,
     Dequeue, DispatchFails, Cancel, Collect, Tick, Shutdown, Exit, Crash, Stopped, Launch
<1>4. ASSUME NEW k \in Call, Begin(k)
      PROVE  \/ earlier'[i] = earlier[i]
             \/ /\ earlier'[i] = {h \in Call : At(h, "returned")}
                /\ call[i].pc = "idle" /\ call'[i].pc # "idle"
  <2>1. earlier' = [earlier EXCEPT ![k] = {h \in Call : At(h, "returned")}] /\ call[k].pc = "idle"
    BY <1>4 DEF Begin, At
  <2>2. call'[k].pc \in {"lookup", "returned"}
    BY <1>1, <1>4 DEF Begin, InsertNew, To, Return, CallType
  <2> QED
    BY <1>1, <2>1, <2>2
<1> QED
  BY <1>3, <1>4

\* Every step keeps EarlierInv, and only calls that have returned are earlier
\* ones.
LEMMA NextEarlier ==
    ASSUME TypeInv, EarlierInv, Next
    PROVE  /\ EarlierInv'
           /\ \A i \in Call : \A j \in earlier'[i] : j \in Call /\ At(j, "returned")
<1>1. ASSUME NEW i \in Call, NEW j \in earlier'[i] PROVE j \in Call /\ At(j, "returned")
  <2>1. earlier[i] \subseteq Call
    BY DEF TypeInv, Calls
  <2> QED
    BY <1>1, <2>1, EarlierGoes DEF EarlierInv
<1>2. ASSUME NEW i \in Call, NEW j \in earlier'[i] PROVE At(j, "returned")'
  <2>1. Goes(j, call[j], call'[j])
    BY <1>1, EachGoes
  <2> QED
    BY <1>1, <2>1 DEF Goes, At
<1> QED
  BY <1>1, <1>2 DEF EarlierInv

\* Every step keeps AttemptInv.
LEMMA NextAttempt ==
    ASSUME TypeInv, AttemptInv, Next
    PROVE  AttemptInv'
<1> SUFFICES ASSUME NEW c \in Call
             PROVE  /\ \A m \in inbox'[c] \cup Hand(c)' \cup Pend(c)' : Numbered(m.call, m.attempt)'
                    /\ \A j \in Call, a \in Nat : <<j, a>> \in Taken(c)' => Numbered(j, a)'
  BY DEF AttemptInv
<1>1. /\ \A m \in inbox[c] \cup Hand(c) \cup Pend(c) : Numbered(m.call, m.attempt)'
      /\ \A j \in Call, a \in Nat : <<j, a>> \in Taken(c) => Numbered(j, a)'
  BY MessageTypes, NumbersGrow DEF AttemptInv
<1>2. CASE Moves(c)
  BY <1>1, <1>2 DEF Moves, Drops, Takes, Keeps, Acks, Pend, Ack
<1>3. ASSUME NEW i \in Call, Sends(i, c)
      PROVE  /\ \A m \in inbox'[c] \cup Hand(c)' \cup Pend(c)' : Numbered(m.call, m.attempt)'
             /\ \A j \in Call, a \in Nat : <<j, a>> \in Taken(c)' => Numbered(j, a)'
  <2>1. Pend(c)' = Pend(c)
    BY <1>3 DEF Sends, Pend
  <2>2. PICK a \in Nat : a = call[i].attempt
    BY DEF TypeInv, Calls, CallType
  <2>3. Numbered(i, a)'
    BY <1>3, <2>2 DEF Sends, Numbered
  <2>4. \A m \in inbox'[c] : m \in inbox[c] \/ (m.call = i /\ m.attempt = a)
    BY <1>3, <2>2 DEF Sends, Message
  <2>5. Hand(c)' = Hand(c) /\ Taken(c)' = Taken(c)
    BY <1>3 DEF Sends, Taken
  <2> QED
    BY <1>1, <2>1, <2>3, <2>4, <2>5
<1> QED
  BY <1>2, <1>3, EachMoves

\* A step leaves the time alone, or is a tick that leaves the calls alone.
LEMMA TimeGoes ==
    ASSUME TypeInv, Next
    PROVE  now' = now \/ (now < Horizon /\ now' = now + 1 /\ call' = call)
<1>1. ASSUME NEW c \in Call, BodyStep(c) \/ StatementFails(c) PROVE now' = now
  BY <1>1, BodyMoves
<1> QED
  BY <1>1 DEF Next, Environment, Errors, CallStep, Begin, CallFails, Insert, InsertNew, Lookup, Send,
     Acked, Unanswered, Resolve,
     Dequeue, DispatchFails, Cancel, Collect, Tick, Shutdown, Exit, Crash, Stopped, Launch

\* When a message was sent: before the attempt of its call that waits gives up, and
\* before the next attempt; two of one call are a tick apart, or at the end of time.
InTime(m) ==
    /\ m.sent <= now
    /\ call[m.call].pc \in {"idle", "insert", "lookup", "send"} => m.sent < now \/ now = Horizon
    /\ call[m.call].pc = "ack" => m.sent < call[m.call].until \/ call[m.call].until = Horizon
Apart(m, n) == m.call = n.call =>
    /\ m.attempt < n.attempt => m.sent < n.sent \/ n.sent = Horizon
    /\ m.attempt = n.attempt => m = n
SentInv == \A c \in Call :
    /\ \A m \in inbox[c] : InTime(m)
    /\ \A m, n \in inbox[c] : Apart(m, n)

\* What is not after now is before the time an acknowledgement is awaited until,
\* except at the end of time.
LEMMA LaterThanNow ==
    ASSUME NEW s \in Time, NEW t \in Time, s <= t
    PROVE  s < Later(t, AckTimeout) \/ Later(t, AckTimeout) = Horizon
  BY DEF Time, Later

\* What was sent in time stays so.
LEMMA InTimeStays ==
    ASSUME TypeInv, Next, NEW m \in Messages, InTime(m)
    PROVE  InTime(m)'
<1> DEFINE i == m.call
           s == m.sent
           k == call[i]
           n == call'[i]
<1>1. i \in Call /\ s \in Time /\ now \in Time
  BY DEF Messages, TypeInv, Clock
<1>2. Goes(i, k, n) /\ k.pc \in {"ack"} => k.until \in Time
  BY <1>1 DEF TypeInv, Calls, CallOK
<1>3. Goes(i, k, n)
  BY <1>1, EachGoes
<1>4. /\ s <= now
      /\ k.pc \in {"idle", "insert", "lookup", "send"} => s < now \/ now = Horizon
      /\ k.pc = "ack" => k.until \in Time /\ (s < k.until \/ k.until = Horizon)
  BY <1>2, <1>3 DEF InTime
<1>5. CASE now' = now
  <2>1. n.pc \in {"idle", "insert", "lookup", "send"} => s < now \/ now = Horizon
    <3>1. k.pc = "ack" /\ now >= k.until => s < now \/ now = Horizon
      BY <1>1, <1>4 DEF Time
    <3> QED
      BY <1>3, <1>4, <3>1 DEF Goes
  <2>2. n.pc = "ack" => s < n.until \/ n.until = Horizon
    BY <1>1, <1>3, <1>4, LaterThanNow DEF Goes
  <2> QED
    BY <1>4, <1>5, <2>1, <2>2 DEF InTime
<1>6. CASE now < Horizon /\ now' = now + 1 /\ call' = call
  <2>1. s < now' /\ s <= now'
    BY <1>1, <1>4, <1>6 DEF Time
  <2> QED
    BY <1>4, <1>6, <2>1 DEF InTime
<1> QED
  BY <1>5, <1>6, TimeGoes

\* Every step keeps SentInv.
LEMMA NextSent ==
    ASSUME TypeInv, AttemptInv, SentInv, Next
    PROVE  SentInv'
<1> SUFFICES ASSUME NEW c \in Call
             PROVE  /\ \A m \in inbox'[c] : InTime(m)'
                    /\ \A m, n \in inbox'[c] : Apart(m, n)
  BY DEF SentInv
<1>1. /\ \A m \in inbox[c] : InTime(m)'
      /\ \A m, n \in inbox[c] : Apart(m, n)
  BY InTimeStays, MessageTypes DEF SentInv
<1>2. CASE Moves(c)
  <2>1. inbox'[c] \subseteq inbox[c]
    BY <1>2 DEF Moves, Drops, Takes, Keeps, Acks
  <2> QED
    BY <1>1, <2>1
<1>3. ASSUME NEW i \in Call, Sends(i, c)
      PROVE  /\ \A m \in inbox'[c] : InTime(m)'
             /\ \A m, n \in inbox'[c] : Apart(m, n)
  <2>0. PICK x : x = Message(i)
    OBVIOUS
  <2>1. /\ inbox'[c] = inbox[c] \cup {x} /\ now' = now /\ now \in Time /\ call[i].attempt \in Nat
        /\ x.call = i /\ x.attempt = call[i].attempt /\ x.sent = now
        /\ call[i].pc = "send" /\ call'[i].pc = "ack"
    BY <1>3, <2>0 DEF Sends, Message, TypeInv, Clock, Calls, CallType
  <2>2. now <= now /\ (now < call'[i].until \/ call'[i].until = Horizon)
    <3>1. call'[i].until = Later(now, AckTimeout)
      BY <2>1, EachGoes DEF Goes
    <3>2. now <= now
      BY <2>1 DEF Time
    <3> QED
      BY <2>1, <3>1, <3>2, LaterThanNow
  <2>3. \A m \in inbox[c] : m.call = i => /\ m.attempt \in Nat /\ m.attempt < call[i].attempt
                                          /\ m.sent < now \/ now = Horizon
    BY <2>1, MessageTypes DEF AttemptInv, Numbered, SentInv, InTime
  <2>4. \A m \in inbox[c] : Apart(m, x) /\ Apart(x, m)
    BY <2>1, <2>3 DEF Apart
  <2>5. InTime(x)'
    <3>1. /\ x.sent = now' /\ now' <= now' /\ x.call = i /\ call'[i].pc = "ack"
          /\ x.sent < call'[i].until \/ call'[i].until = Horizon
      BY <2>1, <2>2
    <3> QED
      BY <3>1 DEF InTime
  <2>6. Apart(x, x)
    BY <2>1 DEF Apart
  <2> QED
    BY <1>1, <2>1, <2>4, <2>5, <2>6
<1> QED
  BY <1>2, <1>3, EachMoves

\* What is acknowledged, or was to be, or is recorded, came before what is still there; so did what
\* a body has taken, but at the end of time.
Behind(c, j, a) ==
    /\ \A n \in inbox[c] : n.call = j => n.attempt > a \/ Locked(c)
    /\ \A h \in Hand(c) : h.call = j => h.attempt > a
OrderInv == \A c \in Call :
    /\ \A j \in Call, a \in Nat : <<j, a>> \in Taken(c) => Behind(c, j, a)
    /\ \A p \in Pend(c) : Behind(c, p.call, p.attempt)
    /\ \A h \in Hand(c), n \in inbox[c] : n.call = h.call => n.attempt > h.attempt \/ now = Horizon

\* What is still there of a call stays later than the attempts it is later than.
LEMMA BehindStays ==
    ASSUME TypeInv, Next, NEW c \in Call, NEW j \in Call, NEW a \in Nat, Numbered(j, a), Behind(c, j, a)
    PROVE  Behind(c, j, a)'
<1>1. CASE Moves(c)
  BY <1>1 DEF Moves, Drops, Takes, Keeps, Acks, Behind, Locked
<1>2. ASSUME NEW i \in Call, Sends(i, c) PROVE Behind(c, j, a)'
  <2>1. \A m \in inbox'[c] : m \in inbox[c] \/ (m.call = i /\ m.attempt = call[i].attempt)
    BY <1>2 DEF Sends, Message
  <2>2. i = j => call[i].attempt > a
    <3>1. call[i].attempt \in Nat
      BY DEF TypeInv, Calls, CallType
    <3>2. i = j => a <= call[i].attempt /\ a # call[i].attempt
      BY <1>2 DEF Sends, Numbered
    <3> QED
      BY <3>1, <3>2
  <2>3. Locked(c) => Locked(c)'
    BY <1>2 DEF Sends, Locked
  <2>4. Hand(c)' = Hand(c)
    BY <1>2 DEF Sends
  <2> QED
    BY <2>1, <2>2, <2>3, <2>4 DEF Behind
<1> QED
  BY <1>1, <1>2, EachMoves

\* Every step keeps OrderInv.
LEMMA NextOrder ==
    ASSUME TypeInv, AttemptInv, SentInv, OrderInv, Next
    PROVE  OrderInv'
<1> SUFFICES ASSUME NEW c \in Call
             PROVE  /\ \A j \in Call, a \in Nat : <<j, a>> \in Taken(c)' => Behind(c, j, a)'
                    /\ \A p \in Pend(c)' : Behind(c, p.call, p.attempt)'
                    /\ \A h \in Hand(c)', n \in inbox'[c] :
                          n.call = h.call => n.attempt > h.attempt \/ now' = Horizon
  BY DEF OrderInv
<1>1. \A j \in Call, a \in Nat : <<j, a>> \in Taken(c) => Behind(c, j, a)'
  BY BehindStays DEF AttemptInv, OrderInv
<1>2. \A p \in Pend(c) : Behind(c, p.call, p.attempt)'
  BY BehindStays, MessageTypes DEF AttemptInv, OrderInv
<1>3. \A h \in Hand(c), n \in inbox[c] : n.call = h.call => n.attempt > h.attempt \/ now' = Horizon
  BY EachMoves DEF OrderInv
<1>4. CASE Drops(c)
  BY <1>1, <1>2, <1>3, <1>4 DEF Drops
<1>5. CASE Takes(c)
  <2>1. PICK m \in inbox[c] : /\ \A n \in inbox[c] : m.sent <= n.sent
                              /\ inbox'[c] = inbox[c] \ {m} /\ Hand(c)' = {m}
    BY <1>5 DEF Takes
  <2>2. Pend(c)' = Pend(c) /\ Taken(c)' = Taken(c)
    BY <1>5 DEF Takes, Pend
  <2>3. ASSUME NEW n \in inbox[c], n # m, n.call = m.call PROVE n.attempt > m.attempt \/ now' = Horizon
    <3>1. m.sent <= n.sent /\ Apart(m, n) /\ Apart(n, m) /\ m.sent <= now
      BY <2>1 DEF SentInv, InTime
    <3>2. /\ m.attempt \in Nat /\ n.attempt \in Nat /\ m.sent \in Time /\ n.sent \in Time /\ now \in Time
      BY MessageTypes DEF TypeInv, Clock
    <3>3. n.attempt # m.attempt
      BY <2>3, <3>1 DEF Apart
    <3>4. n.attempt < m.attempt => n.sent < m.sent \/ m.sent = Horizon
      BY <2>3, <3>1 DEF Apart
    <3>5. m.sent = Horizon => now = Horizon
      BY <3>1, <3>2 DEF Time
    <3>6. ~(n.sent < m.sent)
      BY <3>1, <3>2 DEF Time
    <3>7. n.attempt > m.attempt \/ now = Horizon
      BY <3>2, <3>3, <3>4, <3>5, <3>6
    <3> QED
      BY <3>7, EachMoves
  <2> QED
    BY <1>1, <1>2, <2>1, <2>2, <2>3
<1>6. CASE Keeps(c) /\ Moves(c)
  <2>1. PICK m \in Hand(c) : Pend(c)' = {m}
    BY <1>6 DEF Keeps
  <2>2. inbox'[c] = inbox[c] /\ Taken(c)' = Taken(c) /\ Hand(c)' = {} /\ journal'[c].stage = "ack"
    BY <1>6 DEF Keeps
  <2>3. Behind(c, m.call, m.attempt)'
    BY <1>3, <2>1, <2>2 DEF Behind, Locked
  <2> QED
    BY <1>1, <2>1, <2>2, <2>3
<1>7. CASE Acks(c)
  <2>1. PICK m \in Pend(c) : Taken(c)' = Taken(c) \cup {<<m.call, m.attempt>>}
    BY <1>7 DEF Acks, Ack
  <2>2. inbox'[c] = inbox[c] /\ Hand(c)' = Hand(c) /\ Pend(c)' \subseteq Pend(c)
    BY <1>7 DEF Acks
  <2>3. \A j \in Call, a \in Nat : <<j, a>> = <<m.call, m.attempt>> => Behind(c, j, a)'
    BY <1>2
  <2> QED
    BY <1>1, <1>2, <1>3, <2>1, <2>2, <2>3
<1>8. ASSUME NEW i \in Call, Sends(i, c)
      PROVE  /\ \A j \in Call, a \in Nat : <<j, a>> \in Taken(c)' => Behind(c, j, a)'
             /\ \A p \in Pend(c)' : Behind(c, p.call, p.attempt)'
             /\ \A h \in Hand(c)', n \in inbox'[c] :
                   n.call = h.call => n.attempt > h.attempt \/ now' = Horizon
  <2>1. \A m \in inbox'[c] : m \in inbox[c] \/ (m.call = i /\ m.attempt = call[i].attempt)
    BY <1>8 DEF Sends, Message
  <2>2. Hand(c)' = Hand(c) /\ Pend(c)' = Pend(c) /\ Taken(c)' = Taken(c)
    BY <1>8 DEF Sends, Pend, Taken
  <2>3. \A h \in Hand(c) : h.call = i => call[i].attempt > h.attempt
    <3> SUFFICES ASSUME NEW h \in Hand(c), h.call = i PROVE call[i].attempt > h.attempt
      OBVIOUS
    <3>1. h.attempt <= call[i].attempt /\ h.attempt # call[i].attempt
      BY <1>8 DEF AttemptInv, Numbered, Sends
    <3>2. h.attempt \in Nat /\ call[i].attempt \in Nat
      BY MessageTypes DEF TypeInv, Calls, CallType
    <3> QED
      BY <3>1, <3>2
  <2> QED
    BY <1>1, <1>2, <1>3, <2>1, <2>2, <2>3
<1> QED
  BY <1>4, <1>5, <1>6, <1>7, <1>8, EachMoves DEF Moves

\* A message of call j may still replace the input of c.
From(j, c) ==
    \/ ~Locked(c) /\ \E m \in inbox[c] : m.call = j
    \/ \E h \in Hand(c) : h.call = j

\* A call that may replace an input could do so before, or is just sending.
LEMMA FromStays ==
    ASSUME TypeInv, Next, NEW c \in Call, NEW j \in Call, From(j, c)'
    PROVE  From(j, c) \/ Sends(j, c)
<1>1. CASE Moves(c)
  BY <1>1 DEF Moves, Drops, Takes, Keeps, Acks, From, Locked
<1>2. ASSUME NEW i \in Call, Sends(i, c) PROVE From(j, c) \/ i = j
  BY <1>2 DEF Sends, Message, From, Locked
<1> QED
  BY <1>1, <1>2, EachMoves

\* Nothing replaces the input of a workflow that has no row.
LEMMA NothingFrom ==
    ASSUME TypeInv, NEW c \in Call, NEW j \in Call, row[c] = "ABSENT"
    PROVE  ~From(j, c) /\ ~Sends(j, c)
<1>1. inbox[c] = {} /\ body[c].pc = "none"
  BY DEF TypeInv, Boxes, CleanOK, Work, BodyOK
<1>2. call[j].pc = "send" => row[call[j].holder] # "ABSENT"
  BY DEF TypeInv, Calls, CallOK
<1> QED
  BY <1>1, <1>2 DEF From, Hand, Sends

\* A call whose attempt is acknowledged has nothing there that may replace an input.
LEMMA NothingBehind ==
    ASSUME TypeInv, AttemptInv, OrderInv, NEW c \in Call, NEW j \in Call,
           <<j, call[j].attempt>> \in Taken(c)
    PROVE  ~From(j, c)
<1>1. call[j].attempt \in Nat
  BY DEF TypeInv, Calls, CallType
<1>2. Behind(c, j, call[j].attempt)
  BY <1>1 DEF OrderInv
<1>3. \A m \in inbox[c] \cup Hand(c) : m.call = j => ~(m.attempt > call[j].attempt)
  <2> SUFFICES ASSUME NEW m \in inbox[c] \cup Hand(c), m.call = j PROVE ~(m.attempt > call[j].attempt)
    OBVIOUS
  <2>1. m.attempt \in Nat /\ m.attempt <= call[j].attempt
    BY MessageTypes DEF AttemptInv, Numbered
  <2> QED
    BY <1>1, <2>1
<1> QED
  BY <1>2, <1>3 DEF Behind, From

\* While the workflow has the slot, a call whose message it may still take is not
\* done with it: it waits for it, begins again, or has failed.
SlotInv == \A c, j \in Call : slot = c /\ From(j, c) =>
    \/ call[j].holder = c /\ call[j].pc \in {"send", "ack"}
    \/ call[j].pc \in {"insert", "lookup", "failed"}

\* Every step keeps SlotInv.
LEMMA NextSlot ==
    ASSUME TypeInv, AttemptInv, OrderInv, SlotInv, Next
    PROVE  SlotInv'
<1> SUFFICES ASSUME NEW c \in Call, NEW j \in Call, slot' = c, From(j, c)'
             PROVE  \/ call'[j].holder = c /\ call'[j].pc \in {"send", "ack"}
                    \/ call'[j].pc \in {"insert", "lookup", "failed"}
  BY DEF SlotInv
<1>1. slot = c
  BY SlotGoes, FromStays, NothingFrom
<1>2. Goes(j, call[j], call'[j])
  BY EachGoes
<1>3. CASE Sends(j, c)
  BY <1>2, <1>3 DEF Goes, Sends
<1>4. CASE From(j, c)
  <2>1. \/ call[j].holder = c /\ call[j].pc \in {"send", "ack"}
        \/ call[j].pc \in {"insert", "lookup", "failed"}
    BY <1>1, <1>4 DEF SlotInv
  <2>2. <<j, call[j].attempt>> \notin Taken(c)
    BY <1>4, NothingBehind
  <2>3. call[j].holder = c => <<j, call[j].attempt>> \notin Taken(call[j].holder)
    BY <2>2
  <2> QED
    BY <1>1, <1>2, <2>1, <2>3 DEF Goes
<1> QED
  BY <1>3, <1>4, FromStays

\* Once a call has found its holder, no call that had returned before can replace
\* the input there; and once its message is acknowledged, none has.
Accepted(i, c) ==
    \/ call[i].handle = c
    \/ call[i].holder = c /\ call[i].pc = "status"
    \/ call[i].holder = c /\ call[i].pc = "ack" /\ <<i, call[i].attempt>> \in Taken(c)
LaterInv == \A i, c \in Call :
    /\ c \in {call[i].holder, call[i].handle} => \A j \in earlier[i] : ~From(j, c)
    /\ Accepted(i, c) => journal[c].input \notin earlier[i]

\* The first half, for what a step leaves behind of an earlier call.
LEMMA NothingEarlier ==
    ASSUME TypeInv, EarlierInv, SlotInv, LaterInv, Next, NEW i \in Call, NEW c \in Call,
           c \in {call'[i].holder, call'[i].handle}, NEW j \in earlier'[i]
    PROVE  j \in Call /\ At(j, "returned") /\ ~From(j, c)
<1>1. j \in Call /\ At(j, "returned")
  BY NextEarlier
<1>2. Goes(i, call[i], call'[i]) /\ c # None
  BY EachGoes
<1>3. earlier'[i] = earlier[i] \/ (call[i].pc = "idle" /\ call'[i].pc # "idle")
  BY EarlierGoes
<1>4. c \in {call[i].holder, call[i].handle} => \A h \in earlier[i] : ~From(h, c)
  BY DEF LaterInv
<1>5. slot = c => ~From(j, c)
  BY <1>1 DEF SlotInv, At
<1>6. row[c] = "ABSENT" => ~From(j, c)
  BY <1>1, NothingFrom
<1>7. ~From(j, c)
  BY <1>2, <1>3, <1>4, <1>5, <1>6 DEF Goes
<1> QED
  BY <1>1, <1>7

\* Every step keeps LaterInv.
LEMMA NextLater ==
    ASSUME TypeInv, EarlierInv, AttemptInv, SlotInv, LaterInv, Next
    PROVE  LaterInv'
<1> SUFFICES ASSUME NEW i \in Call, NEW c \in Call
             PROVE  /\ c \in {call'[i].holder, call'[i].handle} => \A j \in earlier'[i] : ~From(j, c)'
                    /\ Accepted(i, c)' => journal'[c].input \notin earlier'[i]
  BY DEF LaterInv
<1>1. c \in {call'[i].holder, call'[i].handle} => \A j \in earlier'[i] : ~From(j, c)'
  BY NothingEarlier, FromStays DEF Sends, At
<1>2. ASSUME Accepted(i, c)', journal'[c].input \in earlier'[i] PROVE FALSE
  <2>1. c \in {call'[i].holder, call'[i].handle}
    BY <1>2 DEF Accepted
  <2>2. ~From(journal'[c].input, c)
    BY <1>2, <2>1, NothingEarlier
  <2>3. journal'[c].input = journal[c].input
    <3>1. ~Keeps(c)
      BY <2>2 DEF Keeps, From
    <3> QED
      BY <3>1, EachMoves DEF Moves, Drops, Takes, Acks, Sends
  <2>4. \A a : <<i, a>> \in Taken(c)' => <<i, a>> \in Taken(c) \/ i = journal[c].input
    BY EachMoves DEF Moves, Drops, Takes, Keeps, Acks, Ack, Sends, Taken
  <2>5. At(journal[c].input, "returned")
    BY <1>2, <2>3, NextEarlier
  <2>6. Goes(i, call[i], call'[i]) /\ c # None
    BY EachGoes
  <2>7. earlier'[i] = earlier[i] \/ (call[i].pc = "idle" /\ call'[i].pc # "idle")
    BY EarlierGoes
  <2>8. Accepted(i, c) => journal[c].input \notin earlier[i]
    BY DEF LaterInv
  <2>9. call[i].pc = "send" => <<i, call[i].attempt>> \notin Taken(c)
    <3>1. call[i].attempt \in Nat
      BY DEF TypeInv, Calls, CallType
    <3> QED
      BY <3>1 DEF AttemptInv, Numbered
  <2>10. row[c] = "ABSENT" => journal[c].input = c
    <3>1. NewJournal(c).input = c
      BY DEF NewJournal
    <3>2. row[c] = "ABSENT" => journal[c] = NewJournal(c)
      BY DEF TypeInv, Boxes, CleanOK
    <3> QED
      BY <3>1, <3>2
  <2>11. call'[i] = call[i] \/ call[i].pc # "returned"
    BY <2>6 DEF Goes
  <2>12. CASE call'[i] = call[i]
    <3>1. earlier'[i] = earlier[i]
      BY <2>7, <2>12
    <3>2. ~Accepted(i, c)
      BY <1>2, <2>3, <2>8, <3>1
    <3>3. call[i].pc = "ack" /\ i = journal[c].input
      BY <1>2, <2>4, <2>12, <3>2 DEF Accepted
    <3> QED
      BY <2>5, <3>3 DEF At
  <2>13. CASE call'[i] # call[i]
    <3>1. i # journal[c].input
      BY <2>5, <2>11, <2>13 DEF At
    <3>2. row[c] # "ABSENT" \/ c # i
      BY <2>10, <3>1
    <3>3. ~Accepted(i, c) \/ call[i].pc = "idle"
      BY <1>2, <2>3, <2>7, <2>8
    <3> QED
      BY <1>2, <2>4, <2>6, <2>9, <2>13, <3>1, <3>2, <3>3 DEF Goes, Accepted
  <2> QED
    BY <2>12, <2>13
<1> QED
  BY <1>1, <1>2

\* A process of the internal queue was stopped; and nothing has ended a wait.
Restarted == happened["crash"] > 0 \/ happened["shutdown"] > 0
Quiet == happened["shutdown"] + happened["cancel"] + happened["error"] = 0

\* What has happened is counted and never forgotten.
LEMMA HappenedGrows ==
    ASSUME TypeInv, Next
    PROVE  \A h \in Happenings : /\ happened[h] \in Nat /\ happened'[h] \in Nat
                                 /\ happened[h] <= happened'[h]
<1>1. happened \in [Happenings -> Nat]
  BY DEF TypeInv, Clock
<1>2. ASSUME NEW k \in Happenings, Happens(k)
      PROVE  \A h \in Happenings : happened'[h] \in Nat /\ happened[h] <= happened'[h]
  BY <1>1, <1>2 DEF Happens
<1>3. {"late", "crash", "shutdown", "cancel", "error", "unacked", "collect"} = Happenings
  BY DEF Happenings
<1>4. ASSUME NEW c \in Call, BodyStep(c) \/ StatementFails(c)
      PROVE  happened' = happened \/ Happens("error") \/ Happens("unacked")
  BY <1>4 DEF BodyStep, StartTime, LoopTime, Deadline, Wait, Consume, RecordRecv, SetEvent, RecordEvent,
     EnqueueTarget, Outcome, AckMissed, Replayed, NoticeCancel, StatementFails, LoopFails, AckFails, OutcomeFails
<1>5. happened' = happened \/ \E k \in Happenings : Happens(k)
  BY <1>3, <1>4 DEF Next, Environment, Errors, CallStep, CallFails, Begin, Insert, Lookup, Send, Acked,
     Unanswered,
     Resolve, Dequeue, DispatchFails, Cancel, Collect, Tick, Shutdown, Exit, Crash, Stopped, Launch
<1> QED
  BY <1>1, <1>2, <1>5

\* What has happened stays so; while it is quiet, it was quiet before.
LEMMA CausesStay ==
    ASSUME TypeInv, Next
    PROVE  /\ Restarted => Restarted'
           /\ Quiet' => Quiet
           /\ \A h \in Happenings : happened[h] > 0 => happened'[h] > 0
<1>1. {"crash", "shutdown", "cancel", "error"} \subseteq Happenings
  BY DEF Happenings
<1>2. \A h \in Happenings : happened[h] > 0 => happened'[h] > 0
  BY HappenedGrows
<1>3. \A h \in {"crash", "shutdown", "cancel", "error"} :
         happened[h] \in Nat /\ happened'[h] \in Nat /\ happened[h] <= happened'[h]
  BY <1>1, HappenedGrows
<1>4. \A a, b, d \in Nat : a + b + d = 0 => a = 0 /\ b = 0 /\ d = 0
  OBVIOUS
<1>5. ASSUME Quiet' PROVE Quiet
  <2>1. happened'["shutdown"] + happened'["cancel"] + happened'["error"] = 0
    BY <1>5 DEF Quiet
  <2>2. happened'["shutdown"] = 0 /\ happened'["cancel"] = 0 /\ happened'["error"] = 0
    BY <1>3, <1>4, <2>1
  <2>3. happened["shutdown"] = 0 /\ happened["cancel"] = 0 /\ happened["error"] = 0
    BY <1>3, <2>2
  <2> QED
    BY <2>3 DEF Quiet
<1> QED
  BY <1>1, <1>2, <1>5 DEF Restarted

\* What a happening leaves behind.
LEMMA HappensOnce ==
    ASSUME TypeInv, NEW h \in Happenings, Happens(h)
    PROVE  happened'[h] > 0 /\ happened'[h] = happened[h] + 1 /\ happened[h] \in Nat
  BY DEF Happens, TypeInv, Clock

\* A body of one workflow leaves the others alone,
LEMMA OthersStay ==
    ASSUME TypeInv, NEW c \in Call, BodyStep(c) \/ StatementFails(c), NEW d \in Call, d # c
    PROVE  /\ target'[d] = target[d] /\ journal'[d] = journal[d] /\ inbox'[d] = inbox[d]
           /\ body'[d] = body[d] /\ row'[d] = row[d]
<1>1. /\ journal \in [Call -> JournalType] /\ body \in [Call -> BodyType] /\ row \in [Call -> RowType]
      /\ inbox \in [Call -> SUBSET Messages] /\ target \in [Call -> Targets]
  BY DEF TypeInv, Work, Slots, Boxes
<1>2. target'[d] = target[d] /\ journal'[d] = journal[d] /\ inbox'[d] = inbox[d]
  BY <1>1 DEF BodyStep, StartTime, LoopTime, Deadline, Wait, Consume, RecordRecv, SetEvent, RecordEvent,
     EnqueueTarget, Outcome, AckMissed, Replayed, NoticeCancel, StatementFails, LoopFails, AckFails, OutcomeFails
<1>3. body'[d] = body[d] /\ row'[d] = row[d]
  BY <1>1 DEF BodyStep, StartTime, LoopTime, Deadline, Wait, Consume, RecordRecv, SetEvent, RecordEvent,
     EnqueueTarget, Outcome, AckMissed, Replayed, NoticeCancel, StatementFails, LoopFails, AckFails, OutcomeFails,
     Move, Holds, Break
<1> QED
  BY <1>2, <1>3

\* and gives its own at most an outcome; what has fired it leaves as it is.
LEMMA BodyKeeps ==
    ASSUME TypeInv, NEW c \in Call, BodyStep(c) \/ StatementFails(c)
    PROVE  /\ body[c].pc # "none" /\ row[c] \in {"PENDING", "CANCELLED", "gone"}
           /\ row'[c] = row[c] \/ row'[c] \in {"SUCCESS", "ERROR"}
           /\ process' = process
           /\ journal[c].stage = "fire" => /\ journal'[c].stage = "fire" /\ journal'[c].input = journal[c].input
                                           /\ journal'[c].at = journal[c].at
           /\ body[c].pc = "outcome" => journal' = journal /\ body'[c].pc = "none" /\ target' = target
           /\ body'[c].pc = "replay" => body[c].pc = "replay"
<1> DEFINE j == journal[c]
           b == body[c]
<1>0. /\ JournalOK(j, now) /\ BodyOK(b, j, row[c]) /\ j \in JournalType /\ b \in BodyType
      /\ journal \in [Call -> JournalType] /\ body \in [Call -> BodyType] /\ row \in [Call -> RowType]
  BY DEF TypeInv, Work, JournalOK, BodyOK, Slots
<1>1. b.pc # "none" /\ process' = process
  BY DEF BodyStep, StartTime, LoopTime, Deadline, Wait, Consume, RecordRecv, SetEvent, RecordEvent,
     EnqueueTarget,
     Outcome, AckMissed, Replayed, NoticeCancel, StatementFails, LoopFails, AckFails, OutcomeFails, In, Others
<1>2. row[c] \in {"PENDING", "CANCELLED", "gone"}
  BY <1>0, <1>1 DEF BodyOK
<1>3. row'[c] = row[c] \/ row'[c] \in {"SUCCESS", "ERROR"}
  BY <1>0 DEF BodyStep, StartTime, LoopTime, Deadline, Wait, Consume, RecordRecv, SetEvent,
     RecordEvent, EnqueueTarget,
     Outcome, AckMissed, Replayed, NoticeCancel, StatementFails, LoopFails, AckFails, OutcomeFails
<1>4. j.stage = "fire" => journal'[c].stage = "fire" /\ journal'[c].input = j.input /\ journal'[c].at = j.at
  <2>1. j.stage = "fire" => journal' = journal \/ \E m : journal' = [journal EXCEPT ![c].missed = m]
    BY <1>0 DEF BodyStep, StartTime, LoopTime, Deadline, Wait, Consume, RecordRecv, SetEvent, RecordEvent,
       EnqueueTarget, Outcome, AckMissed, Replayed, NoticeCancel, StatementFails, LoopFails, AckFails, OutcomeFails,
       In, BodyOK
  <2> QED
    BY <1>0, <2>1 DEF JournalType
<1>5. b.pc = "outcome" => journal' = journal /\ body'[c].pc = "none" /\ target' = target
  BY <1>0 DEF BodyStep, StartTime, LoopTime, Deadline, Wait, Consume, RecordRecv, SetEvent, RecordEvent,
     EnqueueTarget, Outcome, AckMissed, Replayed, NoticeCancel, StatementFails, LoopFails, AckFails, OutcomeFails,
     In, NoBody
<1>6. body'[c].pc = "replay" => b.pc = "replay"
  BY <1>0 DEF BodyStep, StartTime, LoopTime, Deadline, Wait, Consume, RecordRecv, SetEvent, RecordEvent,
     EnqueueTarget, Outcome, AckMissed, Replayed, NoticeCancel, StatementFails, LoopFails, AckFails, OutcomeFails,
     Move, Holds, Break, NoBody, BodyType
<1> QED
  BY <1>1, <1>2, <1>3, <1>4, <1>5, <1>6

\* Where a body or a row is, and what was needed for that.
CausesOK(c) ==
    /\ row[c] = "CANCELLED" => happened["cancel"] > 0
    /\ row[c] = "gone" /\ body[c].pc # "none" => happened["cancel"] > 0
    /\ body[c].pc = "fire" => happened["cancel"] > 0 \/ happened["error"] > 0
    /\ body[c].pc = "replay" => Restarted
    /\ row[c] = "ENQUEUED" => Restarted \/ journal[c].stage = "start"
    /\ body[c].pc = "fire" => Restarted \/ body[c].input = journal[c].input
CausesInv ==
    /\ process = "draining" => happened["shutdown"] > 0
    /\ process = "down" => Restarted
    /\ \A c \in Call : CausesOK(c)

\* What is left alone, but for a body that goes, keeps its causes.
LEMMA CausesOKStay ==
    ASSUME TypeInv, Next, NEW c \in Call, CausesOK(c), row'[c] = row[c], journal'[c] = journal[c],
           body'[c] = body[c] \/ body'[c].pc = "none"
    PROVE  CausesOK(c)'
<1>1. {"cancel", "error"} \subseteq Happenings
  BY DEF Happenings
<1>2. /\ Restarted => Restarted'
      /\ happened["cancel"] > 0 => happened'["cancel"] > 0
      /\ happened["error"] > 0 => happened'["error"] > 0
  BY <1>1, CausesStay
<1> QED
  BY <1>2 DEF CausesOK

\* The steps of a body keep the causes of its workflow.
LEMMA CausesByBody ==
    ASSUME TypeInv, Next, NEW c \in Call, CausesOK(c), BodyStep(c) \/ StatementFails(c)
    PROVE  CausesOK(c)'
<1> DEFINE j == journal[c]
           b == body[c]
<1>0. b \in BodyType /\ body \in [Call -> BodyType] /\ {"cancel", "error"} \subseteq Happenings
  BY DEF TypeInv, Work, Happenings
<1>1. /\ b.pc # "none" /\ row[c] \in {"PENDING", "CANCELLED", "gone"}
      /\ row'[c] = row[c] \/ row'[c] \in {"SUCCESS", "ERROR"}
      /\ body'[c].pc = "replay" => b.pc = "replay"
  BY BodyKeeps
<1>2. /\ Restarted => Restarted'
      /\ happened["cancel"] > 0 => happened'["cancel"] > 0
      /\ happened["error"] > 0 => happened'["error"] > 0
  BY <1>0, CausesStay
<1>3. body'[c].pc = "fire" => /\ happened'["cancel"] > 0 \/ happened'["error"] > 0
                              /\ Restarted \/ body'[c].input = journal'[c].input
  <2>1. CASE NoticeCancel(c) \/ LoopFails(c)
    <3>1. Refused(c) => happened["cancel"] > 0
      BY <1>1 DEF Refused, CausesOK
    <3>2. NoticeCancel(c) \/ happened'["error"] > 0
      BY <1>0, <2>1, HappensOnce DEF LoopFails
    <3>3. happened'["cancel"] > 0 \/ happened'["error"] > 0
      BY <1>2, <3>1, <3>2 DEF NoticeCancel
    <3>4. journal' = journal /\ (b.pc = "replay" \/ Holds(c, "error", None) \/ Break(c, j.input))
      BY <2>1 DEF NoticeCancel, LoopFails
    <3>5. b.pc = "replay" => Restarted
      BY DEF CausesOK
    <3>6. body'[c].pc = "fire" /\ b.pc # "replay" => body'[c].input = j.input
      BY <1>0, <3>4 DEF Holds, Break
    <3> QED
      BY <3>3, <3>4, <3>5, <3>6
  <2>2. CASE ~NoticeCancel(c) /\ ~LoopFails(c)
    <3>1. b.pc # "fire" \/ EnqueueTarget(c)
      BY <2>2 DEF BodyStep, StartTime, LoopTime, Deadline, Wait, Consume, RecordRecv, SetEvent, RecordEvent,
         EnqueueTarget, Outcome, AckMissed, Replayed, StatementFails, AckFails, OutcomeFails, In
    <3>2. body'[c].pc # "fire"
      BY <1>0, <2>2, <3>1 DEF BodyStep, StartTime, LoopTime, Deadline, Wait, Consume, RecordRecv, SetEvent,
         RecordEvent, EnqueueTarget, Outcome, AckMissed, Replayed, StatementFails, AckFails, OutcomeFails, Move,
         Holds, NoBody, BodyType
    <3> QED
      BY <3>2
  <2> QED
    BY <2>1, <2>2
<1> QED
  BY <1>1, <1>2, <1>3 DEF CausesOK

\* Every step keeps CausesInv.
LEMMA NextCauses ==
    ASSUME TypeInv, CausesInv, Next
    PROVE  CausesInv'
<1>0. /\ row \in [Call -> RowType] /\ body \in [Call -> BodyType] /\ journal \in [Call -> JournalType]
      /\ \A c \in Call : BodyOK(body[c], journal[c], row[c]) /\ body[c] \in BodyType
      /\ {"crash", "shutdown", "cancel", "error"} \subseteq Happenings
  BY DEF TypeInv, Slots, Work, Happenings
<1>1. /\ Restarted => Restarted'
      /\ \A h \in {"shutdown", "cancel", "error"} : happened[h] > 0 => happened'[h] > 0
  BY <1>0, CausesStay
<1>2. \A c \in Call : CausesOK(c)
  BY DEF CausesInv
<1>3. ASSUME NEW c \in Call, BodyStep(c) \/ StatementFails(c) PROVE CausesInv'
  <2>1. process' = process
    BY <1>3, BodyKeeps
  <2>2. ASSUME NEW d \in Call PROVE CausesOK(d)'
    <3>1. CASE d = c
      BY <1>2, <1>3, <3>1, CausesByBody
    <3>2. CASE d # c
      BY <1>2, <1>3, <3>2, OthersStay, CausesOKStay
    <3> QED
      BY <3>1, <3>2
  <2> QED
    BY <1>1, <2>1, <2>2 DEF CausesInv
<1>4. ASSUME NEW c \in Call, Dequeue(c) \/ DispatchFails(c) \/ Cancel(c) \/ Collect(c) PROVE CausesInv'
  <2>1. process' = process /\ journal' = journal
    BY <1>4 DEF Dequeue, DispatchFails, Cancel, Collect
  <2>2. \A d \in Call : d # c => body'[d] = body[d] /\ row'[d] = row[d]
    BY <1>0, <1>4 DEF Dequeue, DispatchFails, Cancel, Collect, Move
  <2>3. CausesOK(c)'
    <3>1. CASE Dequeue(c) \/ DispatchFails(c)
      <4>1. row[c] = "ENQUEUED" /\ row'[c] = "PENDING"
        BY <1>0, <3>1 DEF Dequeue, DispatchFails
      <4>2. body[c].pc = "none"
        BY <1>0, <4>1 DEF BodyOK
      <4>3. \/ body'[c].pc \in {"none", "next"}
            \/ body'[c].pc = "replay" /\ journal[c].stage # "start"
        BY <1>0, <3>1, <4>2 DEF Dequeue, DispatchFails, Move, BodyType
      <4>4. Restarted \/ journal[c].stage = "start"
        BY <1>2, <4>1 DEF CausesOK
      <4> QED
        BY <1>1, <4>1, <4>3, <4>4 DEF CausesOK
    <3>2. CASE Cancel(c)
      <4>1. happened'["cancel"] > 0 /\ body' = body /\ row'[c] = "CANCELLED"
        BY <1>0, <3>2, HappensOnce DEF Cancel
      <4> QED
        BY <1>1, <1>2, <2>1, <4>1 DEF CausesOK
    <3>3. CASE Collect(c)
      <4>1. row'[c] = "gone" /\ body' = body /\ row[c] \in {"SUCCESS", "ERROR", "CANCELLED"}
        BY <1>0, <3>3 DEF Collect
      <4>2. body[c].pc # "none" => row[c] = "CANCELLED"
        BY <1>0, <4>1 DEF BodyOK
      <4> QED
        BY <1>1, <1>2, <2>1, <4>1, <4>2 DEF CausesOK
    <3> QED
      BY <1>4, <3>1, <3>2, <3>3
  <2>4. \A d \in Call : CausesOK(d)'
    BY <1>2, <2>1, <2>2, <2>3, CausesOKStay
  <2> QED
    BY <1>1, <2>1, <2>4 DEF CausesInv
<1>5. CASE Tick \/ Shutdown \/ Exit \/ Crash
  <2>1. row' = row /\ journal' = journal /\ (body' = body \/ body' = [c \in Call |-> NoBody])
    BY <1>5 DEF Tick, Shutdown, Exit, Crash, Stopped, cycle
  <2>2. \A c \in Call : CausesOK(c)'
    BY <1>2, <2>1, CausesOKStay DEF NoBody
  <2>3. process' = "draining" => happened'["shutdown"] > 0
    BY <1>0, <1>1, <1>5, HappensOnce DEF CausesInv, Tick, Shutdown, Exit, Crash, Stopped
  <2>4. process' = "down" => Restarted'
    <3>1. CASE Exit
      BY <1>1, <3>1 DEF Exit, CausesInv, Restarted
    <3>2. CASE Crash
      BY <1>0, <3>2, HappensOnce DEF Crash, Restarted
    <3>3. CASE Tick \/ Shutdown
      BY <1>1, <3>3 DEF Tick, Shutdown, CausesInv
    <3> QED
      BY <1>5, <3>1, <3>2, <3>3
  <2> QED
    BY <2>2, <2>3, <2>4 DEF CausesInv
<1>6. CASE Launch
  <2>1. /\ Restarted /\ process' = "up" /\ journal' = journal /\ body' = body
        /\ \A c \in Call : row'[c] = IF row[c] = "PENDING" THEN "ENQUEUED" ELSE row[c]
    BY <1>6 DEF Launch, CausesInv
  <2>2. \A c \in Call : CausesOK(c)'
    BY <1>1, <1>2, <2>1 DEF CausesOK
  <2> QED
    BY <2>1, <2>2 DEF CausesInv
<1>7. ASSUME NEW i \in Call, CallStep(i) \/ Begin(i) \/ CallFails(i) PROVE CausesInv'
  <2>1. /\ process' = process /\ body' = body /\ journal' = journal
        /\ row' = row \/ (row' = [row EXCEPT ![i] = "ENQUEUED"] /\ row[i] = "ABSENT")
    BY <1>7 DEF CallStep, Begin, CallFails, Insert, InsertNew, Lookup, Send, Acked, Unanswered,
       Resolve, cycle, At,
       TypeInv, Calls, CallOK
  <2>2. ASSUME NEW c \in Call PROVE CausesOK(c)'
    <3>1. CASE row'[c] = row[c]
      BY <1>2, <2>1, <3>1, CausesOKStay
    <3>2. CASE row'[c] # row[c]
      <4>1. row'[c] = "ENQUEUED" /\ row[c] = "ABSENT"
        BY <1>0, <2>1, <3>2
      <4>2. body[c].pc = "none" /\ journal[c] = NewJournal(c)
        BY <1>0, <4>1 DEF BodyOK, TypeInv, Boxes, CleanOK
      <4>3. journal[c].stage = "start"
        BY <4>2 DEF NewJournal
      <4> QED
        BY <2>1, <4>1, <4>2, <4>3 DEF CausesOK
    <3> QED
      BY <3>1, <3>2
  <2> QED
    BY <1>1, <2>1, <2>2 DEF CausesInv
<1> QED
  BY <1>3, <1>4, <1>5, <1>6, <1>7 DEF Next, Environment, Errors

\* A target has the input that its body has recorded: either its body went through
\* its last stage, or it left the loop and does not run again, unless a process was
\* stopped.
FiredOK(c) == Fired(c) =>
    \/ ~target[c].cut /\ journal[c].stage = "fire" /\ target[c].input = journal[c].input
    \/ target[c].cut /\ Restarted
    \/ /\ target[c].cut /\ target[c].input = journal[c].input
       /\ body[c].pc \in {"none", "outcome"} /\ row[c] # "ENQUEUED"
FiredInv == CausesInv /\ \A c \in Call : FiredOK(c)

\* What a step may do to a workflow whose body has no step of its own there.
LEMMA FiredStays ==
    ASSUME TypeInv, Next, NEW c \in Call, FiredOK(c), target'[c] = target[c], journal'[c] = journal[c],
           \/ ~Fired(c) \/ Restarted' \/ row[c] = "ENQUEUED"
           \/ (body'[c] = body[c] \/ body'[c].pc = "none") /\ (row'[c] = "ENQUEUED" => row[c] = "ENQUEUED")
    PROVE  FiredOK(c)'
<1>1. Restarted => Restarted'
  BY CausesStay
<1>2. Fired(c)' <=> Fired(c)
  BY DEF Fired
<1> QED
  BY <1>1, <1>2 DEF FiredOK

\* The steps of a body keep what is known of a body that has fired.
LEMMA FiredByBody ==
    ASSUME TypeInv, FiredInv, Next, NEW c \in Call, BodyStep(c) \/ StatementFails(c)
    PROVE  FiredOK(c)'
<1> DEFINE j == journal[c]
           b == body[c]
<1>0. b \in BodyType /\ body \in [Call -> BodyType] /\ target \in [Call -> Targets] /\ target[c] \in Targets
  BY DEF TypeInv, Work, Boxes
<1>1. FiredOK(c) /\ CausesOK(c) /\ (Restarted => Restarted')
  BY CausesStay DEF FiredInv, CausesInv
<1>2. CASE target'[c] = target[c]
  <2>1. Fired(c)' <=> Fired(c)
    BY <1>2 DEF Fired
  <2>2. /\ b.pc # "none" /\ row'[c] # "ENQUEUED"
        /\ j.stage = "fire" => journal'[c].stage = "fire" /\ journal'[c].input = j.input
        /\ b.pc = "outcome" => journal' = journal /\ body'[c].pc = "none"
    BY BodyKeeps
  <2> QED
    BY <1>1, <1>2, <2>1, <2>2 DEF FiredOK
<1>3. CASE target'[c] # target[c]
  <2>1. EnqueueTarget(c)
    BY <1>3 DEF BodyStep, StartTime, LoopTime, Deadline, Wait, Consume, RecordRecv, SetEvent, RecordEvent,
       EnqueueTarget, Outcome, AckMissed, Replayed, NoticeCancel, StatementFails, LoopFails, AckFails, OutcomeFails
  <2>2. /\ In(c, "fire") \/ b.pc = "fire"
        /\ target'[c].cut = (b.pc = "fire") /\ target'[c].input = IF b.pc = "fire" THEN b.input ELSE j.input
        /\ journal' = journal /\ row' = row /\ body'[c].pc = "outcome"
    BY <1>0, <1>3, <2>1 DEF EnqueueTarget, Holds
  <2>3. row[c] # "ENQUEUED"
    BY BodyKeeps
  <2>4. CASE b.pc = "fire"
    BY <1>1, <2>2, <2>3, <2>4 DEF CausesOK, FiredOK
  <2>5. CASE b.pc # "fire"
    BY <2>2, <2>5 DEF In, FiredOK
  <2> QED
    BY <2>4, <2>5
<1> QED
  BY <1>2, <1>3

\* Every step keeps FiredInv.
LEMMA NextFired ==
    ASSUME TypeInv, FiredInv, Next
    PROVE  FiredInv'
<1>0. /\ row \in [Call -> RowType] /\ body \in [Call -> BodyType]
      /\ \A c \in Call : BodyOK(body[c], journal[c], row[c])
  BY DEF TypeInv, Slots, Work
<1> SUFFICES ASSUME NEW c \in Call PROVE FiredOK(c)'
  BY NextCauses DEF FiredInv
<1>1. FiredOK(c)
  BY DEF FiredInv
<1>2. ASSUME NEW d \in Call, BodyStep(d) \/ StatementFails(d) PROVE FiredOK(c)'
  <2>1. CASE d = c
    BY <1>2, <2>1, FiredByBody
  <2>2. CASE d # c
    BY <1>1, <1>2, <2>2, OthersStay, FiredStays
  <2> QED
    BY <2>1, <2>2
<1>3. ASSUME NEW d \in Call, Dequeue(d) \/ DispatchFails(d) \/ Cancel(d) \/ Collect(d) PROVE FiredOK(c)'
  <2>1. target' = target /\ journal' = journal
    BY <1>3 DEF Dequeue, DispatchFails, Cancel, Collect
  <2>2. d # c => body'[c] = body[c] /\ row'[c] = row[c]
    BY <1>0, <1>3 DEF Dequeue, DispatchFails, Cancel, Collect, Move
  <2>3. d = c => row[c] = "ENQUEUED" \/ (body' = body /\ row'[c] # "ENQUEUED")
    BY <1>0, <1>3 DEF Dequeue, DispatchFails, Cancel, Collect
  <2> QED
    BY <1>1, <2>1, <2>2, <2>3, FiredStays
<1>4. CASE Tick \/ Shutdown \/ Exit \/ Crash
  <2>1. target' = target /\ journal' = journal /\ row' = row /\ (body' = body \/ body'[c].pc = "none")
    BY <1>4 DEF Tick, Shutdown, Exit, Crash, Stopped, cycle, NoBody
  <2> QED
    BY <1>1, <2>1, FiredStays
<1>5. CASE Launch
  <2>1. target' = target /\ journal' = journal /\ Restarted
    BY <1>5 DEF Launch, FiredInv, CausesInv
  <2> QED
    BY <1>1, <2>1, CausesStay, FiredStays
<1>6. ASSUME NEW i \in Call, CallStep(i) \/ Begin(i) \/ CallFails(i) PROVE FiredOK(c)'
  <2>1. /\ target' = target /\ journal' = journal /\ body' = body
        /\ row' = row \/ (row' = [row EXCEPT ![i] = "ENQUEUED"] /\ row[i] = "ABSENT")
    BY <1>6 DEF CallStep, Begin, CallFails, Insert, InsertNew, Lookup, Send, Acked, Unanswered,
       Resolve, cycle, At,
       TypeInv, Calls, CallOK
  <2>2. row[i] = "ABSENT" => ~Fired(i)
    BY DEF TypeInv, Boxes, CleanOK, Fired
  <2>3. ~Fired(c) \/ row'[c] = row[c]
    BY <1>0, <2>1, <2>2
  <2> QED
    BY <1>1, <2>1, <2>3, FiredStays
<1> QED
  BY <1>2, <1>3, <1>4, <1>5, <1>6 DEF Next, Environment, Errors

\* What LatestInputWins rests on, together.
LatestInv == TypeInv /\ EarlierInv /\ AttemptInv /\ SentInv /\ OrderInv /\ SlotInv /\ LaterInv /\ FiredInv

\* The invariant of LatestInputWins holds at the start,
LEMMA InitLatest == Init => LatestInv
<1> SUFFICES ASSUME Init PROVE LatestInv
  OBVIOUS
<1>1. TypeInv
  BY TypedInit
<1>2. \A c \in Call : /\ inbox[c] = {} /\ acked[c] = {} /\ Hand(c) = {} /\ Pend(c) = {} /\ earlier[c] = {}
                      /\ call[c].pc = "idle" /\ call[c].handle = None /\ call[c].holder = None
                      /\ row[c] = "ABSENT" /\ target[c] = None /\ body[c].pc = "none" /\ journal[c].missed = {}
  BY DEF Init, Hand, Pend, NoBody, NewJournal
<1>3. \A c, j \in Call : ~From(j, c)
  BY <1>2 DEF From
<1>4. EarlierInv /\ AttemptInv /\ SentInv /\ OrderInv /\ SlotInv
  BY <1>2, <1>3 DEF EarlierInv, AttemptInv, SentInv, OrderInv, SlotInv, Taken
<1>5. LaterInv
  BY <1>2 DEF LaterInv, Accepted
<1>6. FiredInv
  BY <1>2 DEF FiredInv, CausesInv, CausesOK, FiredOK, Fired, Init
<1> QED
  BY <1>1, <1>4, <1>5, <1>6 DEF LatestInv

\* and every step keeps it.
LEMMA NextLatest == LatestInv /\ [Next]_vars => LatestInv'
<1> SUFFICES ASSUME LatestInv, [Next]_vars PROVE LatestInv'
  OBVIOUS
<1>1. CASE Next
  <2>1. TypeInv'
    BY <1>1, TypedNext DEF LatestInv
  <2>2. EarlierInv' /\ AttemptInv' /\ SentInv' /\ OrderInv'
    BY <1>1, NextEarlier, NextAttempt, NextSent, NextOrder DEF LatestInv
  <2>3. SlotInv' /\ LaterInv' /\ FiredInv'
    BY <1>1, NextSlot, NextLater, NextFired DEF LatestInv
  <2> QED
    BY <2>1, <2>2, <2>3 DEF LatestInv
<1>2. CASE UNCHANGED vars
  <2>1. TypeInv'
    BY <1>2, TypedNext DEF LatestInv
  <2>2. UNCHANGED <<slot, row, target, inbox, acked, journal, body, process, call, now, earlier, happened>>
    BY <1>2 DEF vars, cycle
  <2>3. EarlierInv' /\ AttemptInv' /\ SentInv' /\ OrderInv'
    BY <2>2 DEF LatestInv, EarlierInv, At, AttemptInv, Numbered, SentInv, InTime, Apart, OrderInv,
       Behind, Locked,
                Hand, Pend, Taken
  <2>4. SlotInv' /\ LaterInv'
    BY <2>2 DEF LatestInv, SlotInv, LaterInv, Accepted, From, Locked, Hand, Taken
  <2>5. FiredInv'
    BY <2>2 DEF LatestInv, FiredInv, CausesInv, CausesOK, FiredOK, Fired, Restarted
  <2> QED
    BY <2>1, <2>3, <2>4, <2>5 DEF LatestInv
<1> QED
  BY <1>1, <1>2

\* debouncer.rs:6-8: the target that the handle of a call is on does not run with
\* the input of a call that had returned before this one began, through messages
\* that are lost, late, not acknowledged, or sent to a holder about to fire; unless
\* a recv failed, or was refused, and a process was stopped.
THEOREM DebouncerLatest == Spec => []LatestInputWins
<1>1. LatestInv => LatestInputWins
  <2> SUFFICES ASSUME LatestInv, NEW i \in Call, At(i, "returned"), call[i].handle # None, Fired(call[i].handle)
               PROVE  \/ target[call[i].handle].cut /\ happened["crash"] + happened["shutdown"] > 0
                      \/ target[call[i].handle].input \notin earlier[i]
    BY DEF LatestInputWins
  <2>1. PICK c \in Call : c = call[i].handle
    BY DEF LatestInv, TypeInv, Calls, CallType, OrNone
  <2>2. journal[c].input \notin earlier[i]
    BY <2>1 DEF LatestInv, LaterInv, Accepted
  <2>3. Restarted => happened["crash"] + happened["shutdown"] > 0
    <3>1. happened["crash"] \in Nat /\ happened["shutdown"] \in Nat
      BY DEF LatestInv, TypeInv, Clock, Happenings
    <3> QED
      BY <3>1 DEF Restarted
  <2>4. FiredOK(c)
    BY DEF LatestInv, FiredInv
  <2> QED
    BY <2>1, <2>2, <2>3, <2>4 DEF FiredOK
<1> QED
  BY <1>1, InitLatest, NextLatest, PTL DEF Spec

------------------------------------------------------------------------------
(* An input fires once, and in time.                                       *)

\* The inputs that a body had, or has; and a workflow has the input of call i, or
\* will have it.
Inputs(c) == journal[c].had \cup {journal[c].input} \cup (IF body[c].pc = "fire" THEN {body[c].input} ELSE {})
HasFrom(c, i) ==
    \/ \E m \in inbox[c] \cup Hand(c) : m.call = i
    \/ row[c] # "ABSENT" /\ i \in Inputs(c)
    \/ Fired(c) /\ target[c].input = i
\* While a call is at its first attempt, only its holder has its input.
OnceInv == \A c, i \in Call : call[i].attempt = 1 /\ HasFrom(c, i) =>
    \/ call[i].holder = c /\ call[i].pc \in {"ack", "status"}
    \/ call[i].pc = "returned" /\ call[i].handle \in {c, None}
    \/ call[i].pc = "failed" /\ call[i].handle = None

\* What a step does with a target.
LEMMA TargetGoes ==
    ASSUME TypeInv, Next, NEW c \in Call
    PROVE  \/ target'[c] = target[c]
           \/ /\ EnqueueTarget(c) /\ target[c] = None /\ target'[c].at = now
              /\ target'[c].input = IF body[c].pc = "fire" THEN body[c].input ELSE journal[c].input
<1>0. target \in [Call -> Targets]
  BY DEF TypeInv, Boxes
<1>1. ASSUME NEW d \in Call, BodyStep(d) \/ StatementFails(d) PROVE target' = target \/ EnqueueTarget(d)
  BY <1>1 DEF BodyStep, StartTime, LoopTime, Deadline, Wait, Consume, RecordRecv, SetEvent, RecordEvent,
     Outcome, AckMissed, Replayed, NoticeCancel, StatementFails, LoopFails, AckFails, OutcomeFails
<1>2. target' = target \/ \E d \in Call : EnqueueTarget(d)
  BY <1>1 DEF Next, Environment, Errors, CallStep, CallFails, Begin, Insert, InsertNew, Lookup, Send, Acked,
     Unanswered, Resolve, Dequeue, DispatchFails, Cancel, Collect, Tick, Shutdown, Exit, Crash, Stopped, Launch, cycle
<1>3. ASSUME NEW d \in Call, EnqueueTarget(d), target'[c] # target[c]
      PROVE  /\ d = c /\ target[c] = None /\ target'[c].at = now
             /\ target'[c].input = IF body[c].pc = "fire" THEN body[c].input ELSE journal[c].input
  BY <1>0, <1>3 DEF EnqueueTarget
<1> QED
  BY <1>2, <1>3

\* A step gives a body no input but the one that is recorded then.
LEMMA InputsGo ==
    ASSUME TypeInv, Next, NEW c \in Call
    PROVE  Inputs(c)' \subseteq Inputs(c) \cup {journal'[c].input}
<1>0. /\ journal \in [Call -> JournalType] /\ body \in [Call -> BodyType]
      /\ journal[c] \in JournalType /\ body[c] \in BodyType
  BY DEF TypeInv, Work
<1>1. ASSUME journal'[c].had \subseteq journal[c].had \cup {journal[c].input},
             body'[c].pc = "fire" => \/ body[c].pc = "fire" /\ body'[c].input = body[c].input
                                     \/ body'[c].input \in journal[c].had \cup {journal[c].input}
      PROVE  Inputs(c)' \subseteq Inputs(c) \cup {journal'[c].input}
  BY <1>1 DEF Inputs
<1>2. ASSUME NEW d \in Call, BodyStep(d) \/ StatementFails(d)
      PROVE  Inputs(c)' \subseteq Inputs(c) \cup {journal'[c].input}
  <2>1. CASE d # c
    BY <1>1, <1>2, <2>1, OthersStay
  <2>2. CASE d = c
    <3>1. journal'[c].had \subseteq journal[c].had \cup {journal[c].input}
      <4>1. CASE Consume(c) \/ RecordRecv(c)
        <5>1. \/ journal' = journal
              \/ journal' = [journal EXCEPT ![c].stage = "fire", ![c].had = @ \cup {journal[c].input}]
              \/ journal' = [journal EXCEPT ![c] = Updated(journal[c], body[c].msg)]
          BY <4>1 DEF Consume, RecordRecv
        <5>2. Updated(journal[c], body[c].msg).had = journal[c].had \cup {journal[c].input}
          BY <1>0 DEF Updated, JournalType
        <5>3. CASE journal' = [journal EXCEPT ![c].stage = "fire", ![c].had = @ \cup {journal[c].input}]
          BY <1>0, <5>3 DEF JournalType
        <5> QED
          BY <1>0, <5>1, <5>2, <5>3
      <4>2. CASE ~Consume(c) /\ ~RecordRecv(c)
        BY <1>0, <1>2, <2>2, <4>2 DEF BodyStep, StartTime, LoopTime, Deadline, Wait, SetEvent, RecordEvent,
           EnqueueTarget, Outcome, AckMissed, Replayed, NoticeCancel, StatementFails, LoopFails, AckFails,
           OutcomeFails, JournalType
      <4> QED
        BY <4>1, <4>2
    <3>2. CASE NoticeCancel(c) \/ LoopFails(c)
      <4>1. \/ Holds(c, "error", None)
            \/ \E i \in journal[c].had \cup {journal[c].input} : Break(c, i)
        BY <3>2 DEF NoticeCancel, LoopFails
      <4> QED
        BY <1>0, <1>1, <3>1, <4>1 DEF Holds, Break
    <3>3. CASE ~NoticeCancel(c) /\ ~LoopFails(c)
      <4>1. body[c].pc # "fire" \/ EnqueueTarget(c)
        BY <1>2, <2>2, <3>3 DEF BodyStep, StartTime, LoopTime, Deadline, Wait, Consume, RecordRecv,
           SetEvent,
           RecordEvent, EnqueueTarget, Outcome, AckMissed, Replayed, StatementFails, AckFails, OutcomeFails, In
      <4>2. body'[c].pc # "fire"
        BY <1>0, <1>2, <2>2, <3>3, <4>1 DEF BodyStep, StartTime, LoopTime, Deadline, Wait, Consume,
           RecordRecv,
           SetEvent, RecordEvent, EnqueueTarget, Outcome, AckMissed, Replayed, StatementFails, AckFails, OutcomeFails,
           Move, Holds, NoBody, BodyType
      <4> QED
        BY <1>1, <3>1, <4>2
    <3> QED
      BY <3>2, <3>3
  <2> QED
    BY <2>1, <2>2
<1>3. ASSUME NEW d \in Call, Dequeue(d)
      PROVE  Inputs(c)' \subseteq Inputs(c) \cup {journal'[c].input}
  <2>1. journal' = journal /\ \E p \in {"next", "replay"} : body' = [body EXCEPT ![d].pc = p]
    BY <1>3 DEF Dequeue, Move
  <2>2. body'[c].pc = "fire" => body'[c] = body[c]
    BY <1>0, <2>1 DEF BodyType
  <2> QED
    BY <1>1, <2>1, <2>2
<1>4. \/ journal' = journal /\ (body' = body \/ body' = [d \in Call |-> NoBody])
      \/ \E d \in Call : BodyStep(d) \/ StatementFails(d) \/ Dequeue(d)
  BY DEF Next, Environment, Errors, CallStep, CallFails, Begin, Insert, InsertNew, Lookup, Send, Acked,
     Unanswered,
     Resolve, DispatchFails, Cancel, Collect, Tick, Shutdown, Exit, Crash, Stopped, Launch, cycle
<1>5. CASE journal' = journal /\ (body' = body \/ body' = [d \in Call |-> NoBody])
  BY <1>1, <1>5 DEF NoBody
<1> QED
  BY <1>2, <1>3, <1>4, <1>5

\* An input of a call is with a workflow because it was there, was sent there,
\* or the call made the workflow.
LEMMA HasFromStays ==
    ASSUME TypeInv, Next, NEW c \in Call, NEW i \in Call, HasFrom(c, i)'
    PROVE  \/ HasFrom(c, i) \/ Sends(i, c)
           \/ i = c /\ call'[i].pc = "returned" /\ call'[i].handle = c
<1>1. ASSUME NEW m \in inbox'[c] \cup Hand(c)', m.call = i PROVE HasFrom(c, i) \/ Sends(i, c)
  <2>1. CASE Moves(c)
    BY <1>1, <2>1 DEF Moves, Drops, Takes, Keeps, Acks, HasFrom
  <2>2. ASSUME NEW j \in Call, Sends(j, c) PROVE HasFrom(c, i) \/ i = j
    BY <1>1, <2>2 DEF Sends, Message, HasFrom
  <2> QED
    BY <2>1, <2>2, EachMoves
<1>2. CASE row'[c] # "ABSENT" /\ i \in Inputs(c)'
  <2>0. i \in Inputs(c) \/ i = journal'[c].input
    BY <1>2, InputsGo
  <2>1. CASE row[c] # "ABSENT"
    <3>0. journal[c].input \in Inputs(c)
      BY DEF Inputs
    <3>1. CASE Moves(c)
      BY <2>0, <2>1, <3>0, <3>1 DEF Moves, Drops, Takes, Keeps, Acks, HasFrom
    <3>2. CASE \E j \in Call : Sends(j, c)
      BY <2>0, <2>1, <3>0, <3>2 DEF Sends, HasFrom
    <3> QED
      BY <3>1, <3>2, EachMoves
  <2>2. CASE row[c] = "ABSENT"
    <3>1. Hand(c) = {}
      BY <2>2 DEF Hand, TypeInv, Work, BodyOK
    <3>2. journal'[c].input = journal[c].input
      BY <3>1, EachMoves DEF Moves, Drops, Takes, Keeps, Acks, Sends
    <3>3. journal[c].input = c /\ Inputs(c) = {c}
      <4>1. NewJournal(c).input = c /\ NewJournal(c).had = {}
        BY DEF NewJournal
      <4>2. journal[c] = NewJournal(c) /\ body[c].pc = "none"
        BY <2>2 DEF TypeInv, Boxes, CleanOK, Work, BodyOK
      <4> QED
        BY <4>1, <4>2 DEF Inputs
    <3>4. CallOK(c, call[c], row)'
      BY TypedNext DEF TypeInv, Calls
    <3> QED
      BY <1>2, <2>0, <3>2, <3>3, <3>4 DEF CallOK
  <2> QED
    BY <2>1, <2>2
<1>3. CASE Fired(c)' /\ target'[c].input = i
  <2>1. CASE target'[c] = target[c]
    BY <1>3, <2>1 DEF Fired, HasFrom
  <2>2. CASE /\ EnqueueTarget(c)
             /\ target'[c].input = IF body[c].pc = "fire" THEN body[c].input ELSE journal[c].input
    <3>1. row[c] # "ABSENT"
      BY <2>2 DEF EnqueueTarget, In, TypeInv, Work, BodyOK
    <3>2. target'[c].input \in Inputs(c)
      BY <2>2 DEF Inputs
    <3> QED
      BY <1>3, <3>1, <3>2 DEF HasFrom
  <2> QED
    BY <2>1, <2>2, TargetGoes
<1> QED
  BY <1>1, <1>2, <1>3 DEF HasFrom

\* Every step keeps OnceInv.
LEMMA NextOnce ==
    ASSUME TypeInv, OnceInv, Next
    PROVE  OnceInv'
<1> SUFFICES ASSUME NEW c \in Call, NEW i \in Call, call'[i].attempt = 1, HasFrom(c, i)'
             PROVE  \/ call'[i].holder = c /\ call'[i].pc \in {"ack", "status"}
                    \/ call'[i].pc = "returned" /\ call'[i].handle \in {c, None}
                    \/ call'[i].pc = "failed" /\ call'[i].handle = None
  BY DEF OnceInv
<1>1. Goes(i, call[i], call'[i])
  BY EachGoes
<1>2. call[i].attempt \in Nat /\ call[i].attempt # 0
  BY DEF TypeInv, Calls, CallOK, CallType
<1>3. call[i].attempt = 1 /\ call'[i].attempt # call[i].attempt + 1
  BY <1>1, <1>2 DEF Goes
<1>4. CASE HasFrom(c, i)
  <2>1. \/ call[i].holder = c /\ call[i].pc \in {"ack", "status"}
        \/ call[i].pc = "returned" /\ call[i].handle \in {c, None}
        \/ call[i].pc = "failed" /\ call[i].handle = None
    BY <1>3, <1>4 DEF OnceInv
  <2> QED
    BY <1>1, <1>3, <2>1 DEF Goes
<1>5. CASE Sends(i, c)
  BY <1>1, <1>5 DEF Goes, Sends
<1> QED
  BY <1>4, <1>5, HasFromStays

\* With no shutdown, cancel or failing statement, a recv without a message ends at
\* its deadline, and a target is enqueued at the last stage, when its time has come.
TimeOK(c) ==
    /\ body[c].pc = "consume" => inbox[c] # {} \/ now >= journal[c].deadline
    /\ journal[c].stage = "fire" => now >= journal[c].at
    /\ Fired(c) => journal[c].stage = "fire" /\ target[c].at >= journal[c].at
TimeInv == Quiet => \A c \in Call : TimeOK(c)

\* While it is quiet no process drains, nothing is cancelled, or collected under its
\* body, and no body has left its loop at a failing recv.
LEMMA QuietCauses ==
    ASSUME TypeInv, CausesInv, Quiet
    PROVE  /\ process # "draining"
           /\ \A c \in Call : /\ row[c] # "CANCELLED" /\ body[c].pc # "fire"
                              /\ body[c].pc # "none" => ~Refused(c)
<1>1. \A h \in {"shutdown", "cancel", "error"} : happened[h] \in Nat
  BY DEF TypeInv, Clock, Happenings
<1>2. \A a, b, d \in Nat : a + b + d = 0 => ~(a > 0) /\ ~(b > 0) /\ ~(d > 0)
  OBVIOUS
<1>3. happened["shutdown"] + happened["cancel"] + happened["error"] = 0
  BY DEF Quiet
<1>4. ~(happened["shutdown"] > 0) /\ ~(happened["cancel"] > 0) /\ ~(happened["error"] > 0)
  BY <1>1, <1>2, <1>3
<1> QED
  BY <1>4 DEF CausesInv, CausesOK, Refused

\* A step that leaves the target and the times of a workflow alone keeps TimeOK.
LEMMA TimeStays ==
    ASSUME TypeInv, Next, NEW c \in Call, TimeOK(c), target'[c] = target[c],
           journal'[c].stage = journal[c].stage, journal'[c].at = journal[c].at,
           journal'[c].deadline = journal[c].deadline,
           body'[c].pc = "consume" => body[c].pc = "consume" /\ (inbox[c] # {} => inbox'[c] # {})
    PROVE  TimeOK(c)'
<1>1. now \in Nat /\ now' \in Nat /\ now <= now'
  <2>1. now \in Nat
    BY Times DEF TypeInv, Clock
  <2>2. now' = now \/ now' = now + 1
    BY TimeGoes
  <2> QED
    BY <2>1, <2>2
<1>2. /\ body[c].pc = "consume" => journal[c].deadline \in Nat
      /\ journal[c].stage = "fire" => journal[c].at \in Nat
  BY Times DEF TypeInv, Work, BodyOK, JournalOK, JournalType, OrNone
<1>3. body'[c].pc = "consume" => inbox'[c] # {} \/ now' >= journal[c].deadline
  BY <1>1, <1>2 DEF TimeOK
<1>4. journal[c].stage = "fire" => now' >= journal[c].at
  BY <1>1, <1>2 DEF TimeOK
<1> QED
  BY <1>3, <1>4 DEF TimeOK, Fired

\* So do the steps of its body.
LEMMA TimeByBody ==
    ASSUME TypeInv, CausesInv, Quiet, Quiet', Next, NEW c \in Call, TimeOK(c), BodyStep(c) \/ StatementFails(c)
    PROVE  TimeOK(c)'
<1> DEFINE j == journal[c]
           b == body[c]
<1>0. /\ JournalOK(j, now) /\ BodyOK(b, j, row[c]) /\ j \in JournalType /\ b \in BodyType
      /\ journal \in [Call -> JournalType] /\ body \in [Call -> BodyType] /\ target \in [Call -> Targets]
      /\ now \in Time /\ now' = now
  BY BodyMoves DEF TypeInv, Work, Boxes, Clock
<1>1. process # "draining" /\ b.pc # "fire" /\ b.pc # "none" /\ ~Refused(c)
  BY QuietCauses, BodyKeeps
\* Before the last stage.
<1>2. ASSUME target' = target, j.stage # "fire", journal'[c].stage # "fire", body'[c].pc # "consume" PROVE TimeOK(c)'
  BY <1>2 DEF TimeOK, Fired
<1>3. CASE \/ StartTime(c) \/ Deadline(c) \/ RecordRecv(c) \/ SetEvent(c) \/ RecordEvent(c)
           \/ AckFails(c) /\ journal' # journal
  <2>1. target' = target /\ j.stage # "fire"
    BY <1>0, <1>3 DEF StartTime, Deadline, RecordRecv, SetEvent, RecordEvent, AckFails, In, BodyOK
  <2>2. journal'[c].stage # "fire"
    <3>1. CASE StartTime(c) \/ RecordEvent(c)
      BY <1>0, <3>1 DEF StartTime, RecordEvent, JournalType
    <3>2. CASE Deadline(c)
      BY <1>0, <2>1, <3>2 DEF Deadline, JournalType
    <3>3. CASE RecordRecv(c)
      <4>1. journal'[c] = Updated(j, b.msg)
        BY <1>0, <3>3 DEF RecordRecv
      <4>2. Updated(j, b.msg).stage = "ack"
        BY <1>0 DEF Updated, JournalType
      <4> QED
        BY <4>1, <4>2
    <3>4. CASE SetEvent(c)
      BY <2>1, <3>4 DEF SetEvent
    <3>5. CASE AckFails(c) /\ journal' # journal
      BY <1>0, <3>5 DEF AckFails, JournalType
    <3> QED
      BY <1>3, <3>1, <3>2, <3>3, <3>4, <3>5
  <2>3. body'[c].pc # "consume"
    BY <1>0, <1>3 DEF StartTime, Deadline, RecordRecv, SetEvent, RecordEvent, AckFails, Move, Holds,
       In, BodyType
  <2> QED
    BY <1>2, <2>1, <2>2, <2>3
<1>4. CASE LoopTime(c)
  <2>1. target' = target /\ body' = body /\ b.pc = "next" /\ j.stage = "loop"
    BY <1>4 DEF LoopTime, In
  <2>2. journal'[c].at = j.at /\ (journal'[c].stage = "fire" => j.at <= now)
    BY <1>0, <1>4 DEF LoopTime, JournalType
  <2>3. j.at \in Nat /\ now \in Nat
    BY <1>0, <2>1, Times DEF JournalOK
  <2>4. journal'[c].stage = "fire" => now >= j.at
    BY <2>2, <2>3
  <2> QED
    BY <1>0, <2>1, <2>2, <2>4 DEF TimeOK, Fired
<1>5. CASE Wait(c)
  <2>1. /\ target' = target /\ journal' = journal /\ inbox' = inbox /\ j.stage = "recv"
        /\ inbox[c] # {} \/ now >= j.deadline
    BY <1>0, <1>1, <1>5 DEF Wait, BodyOK
  <2> QED
    BY <1>0, <2>1 DEF TimeOK, Fired
<1>6. CASE Consume(c)
  <2>1. target' = target /\ j.stage = "recv" /\ b.pc = "consume"
    BY <1>0, <1>6 DEF Consume, BodyOK
  <2>2. CASE inbox[c] # {}
    <3>1. journal' = journal /\ body'[c].pc = "record"
      BY <1>0, <1>6, <2>2 DEF Consume, Holds
    <3> QED
      BY <1>2, <2>1, <3>1
  <2>3. CASE inbox[c] = {}
    <3>1. /\ journal' = [journal EXCEPT ![c].stage = "fire", ![c].had = @ \cup {j.input}]
          /\ body'[c].pc = "next"
      BY <1>0, <1>6, <2>3 DEF Consume, Move, BodyType
    <3>2. journal'[c].at = j.at /\ journal'[c].stage = "fire"
      BY <1>0, <3>1 DEF JournalType
    <3>3. now >= j.deadline /\ j.deadline >= j.at
      BY <1>0, <2>1, <2>3 DEF TimeOK, BodyOK, JournalOK
    <3>4. now \in Nat /\ j.deadline \in Nat /\ j.at \in Nat
      BY <1>0, <2>1, Times DEF BodyOK, JournalOK, JournalType, OrNone
    <3>5. now >= j.at
      BY <3>3, <3>4
    <3> QED
      BY <1>0, <2>1, <3>1, <3>2, <3>5 DEF TimeOK, Fired
  <2> QED
    BY <2>2, <2>3
<1>7. CASE EnqueueTarget(c)
  <2>1. journal' = journal /\ j.stage = "fire" /\ body'[c].pc = "outcome"
    BY <1>0, <1>1, <1>7 DEF EnqueueTarget, In, Holds
  <2>2. target'[c] = target[c] \/ (target'[c].at = now /\ now >= j.at)
    BY <2>1, TargetGoes DEF TimeOK
  <2> QED
    BY <1>0, <2>1, <2>2 DEF TimeOK, Fired
\* A step that has nothing to do with time.
<1>8. ASSUME target' = target, body'[c].pc # "consume",
             journal' = journal \/ \E m : journal' = [journal EXCEPT ![c].missed = m]
      PROVE  TimeOK(c)'
  <2>1. journal'[c].stage = j.stage /\ journal'[c].at = j.at /\ journal'[c].deadline = j.deadline
    BY <1>0, <1>8 DEF JournalType
  <2> QED
    BY <1>8, <2>1, TimeStays
<1>9. CASE Outcome(c) \/ AckMissed(c) \/ Replayed(c)
  <2>1. target' = target /\ (journal' = journal \/ \E m : journal' = [journal EXCEPT ![c].missed = m])
    BY <1>9 DEF Outcome, AckMissed, Replayed
  <2>2. body'[c].pc # "consume"
    BY <1>0, <1>9 DEF Outcome, AckMissed, Replayed, Move, NoBody, BodyType
  <2> QED
    BY <1>8, <2>1, <2>2
<1>10. CASE AckFails(c) /\ journal' = journal
  <2>1. target' = target /\ body'[c].pc # "consume"
    BY <1>0, <1>10 DEF AckFails, Move, In, BodyType
  <2> QED
    BY <1>8, <1>10, <2>1
<1>11. CASE NoticeCancel(c)
  BY <1>1, <1>11 DEF NoticeCancel
<1>12. CASE LoopFails(c) \/ OutcomeFails(c)
  <2>1. "error" \in Happenings /\ \A h \in {"shutdown", "cancel", "error"} : h \in Happenings /\ happened'[h] \in Nat
    BY HappenedGrows DEF Happenings
  <2>2. happened'["error"] > 0
    BY <1>12, <2>1, HappensOnce DEF LoopFails, OutcomeFails
  <2> QED
    BY <2>1, <2>2 DEF Quiet
<1> QED
  BY <1>3, <1>4, <1>5, <1>6, <1>7, <1>9, <1>10, <1>11, <1>12 DEF BodyStep, StatementFails

\* Every step keeps TimeInv.
LEMMA NextTime ==
    ASSUME TypeInv, CausesInv, TimeInv, Next
    PROVE  TimeInv'
<1> SUFFICES ASSUME Quiet', NEW c \in Call PROVE TimeOK(c)'
  BY DEF TimeInv
<1>1. Quiet /\ TimeOK(c)
  BY CausesStay DEF TimeInv
<1>0. /\ body \in [Call -> BodyType] /\ journal \in [Call -> JournalType] /\ inbox \in [Call -> SUBSET Messages]
      /\ target \in [Call -> Targets] /\ body[c] \in BodyType
  BY DEF TypeInv, Work, Boxes
<1>2. ASSUME NEW d \in Call, BodyStep(d) \/ StatementFails(d) PROVE TimeOK(c)'
  <2>1. CASE d = c
    BY <1>1, <1>2, <2>1, TimeByBody
  <2>2. CASE d # c
    BY <1>1, <1>2, <2>2, OthersStay, TimeStays
  <2> QED
    BY <2>1, <2>2
<1>3. ASSUME NEW d \in Call, Dequeue(d) \/ DispatchFails(d) \/ Cancel(d) \/ Collect(d) PROVE TimeOK(c)'
  <2>1. target' = target /\ journal' = journal
    BY <1>3 DEF Dequeue, DispatchFails, Cancel, Collect
  <2>2. /\ body' = body \/ \E p \in {"next", "replay"} : body' = [body EXCEPT ![d].pc = p]
        /\ inbox' = inbox \/ (inbox' = [inbox EXCEPT ![d] = {}] /\ body[d].pc = "none")
    <3>1. CASE Collect(d)
      <4>1. row[d] \in {"SUCCESS", "ERROR"}
        BY <1>1, <3>1, QuietCauses DEF Collect
      <4>2. body[d].pc = "none"
        BY <4>1 DEF TypeInv, Work, BodyOK
      <4> QED
        BY <3>1, <4>2 DEF Collect
    <3>2. CASE ~Collect(d)
      BY <1>3, <3>2 DEF Dequeue, DispatchFails, Cancel, Move
    <3> QED
      BY <3>1, <3>2
  <2>3. body'[c].pc = "consume" => body[c].pc = "consume" /\ (inbox[c] # {} => inbox'[c] # {})
    <3>1. body'[c].pc = "consume" => body[c].pc = "consume"
      BY <1>0, <2>2 DEF BodyType
    <3>2. body[c].pc = "consume" => inbox'[c] = inbox[c]
      BY <1>0, <2>2
    <3> QED
      BY <3>1, <3>2
  <2> QED
    BY <1>1, <2>1, <2>3, TimeStays
<1>4. CASE Tick \/ Shutdown \/ Exit \/ Crash \/ Launch
  <2>1. target' = target /\ journal' = journal /\ inbox' = inbox
    BY <1>4 DEF Tick, Shutdown, Exit, Crash, Launch, Stopped, cycle
  <2>2. body' = body \/ body'[c].pc = "none"
    BY <1>4 DEF Tick, Shutdown, Exit, Crash, Launch, Stopped, cycle, NoBody
  <2> QED
    BY <1>1, <2>1, <2>2, TimeStays
<1>5. ASSUME NEW i \in Call, CallStep(i) \/ Begin(i) \/ CallFails(i) PROVE TimeOK(c)'
  <2>1. target' = target /\ journal' = journal /\ body' = body
    BY <1>5 DEF CallStep, Begin, CallFails, Insert, InsertNew, Lookup, Send, Acked, Unanswered,
       Resolve, cycle
  <2>2. inbox' = inbox \/ \E d, m : inbox' = [inbox EXCEPT ![d] = @ \cup {m}]
    BY <1>5 DEF CallStep, Begin, CallFails, Insert, InsertNew, Lookup, Send, Acked, Unanswered,
       Resolve, cycle
  <2>3. inbox[c] # {} => inbox'[c] # {}
    BY <1>0, <2>2
  <2> QED
    BY <1>1, <2>1, <2>3, TimeStays
<1> QED
  BY <1>2, <1>3, <1>4, <1>5 DEF Next, Environment, Errors

\* What FiresOnceInTime rests on, together.
OnceInTimeInv == TypeInv /\ CausesInv /\ OnceInv /\ TimeInv

\* The invariant of FiresOnceInTime holds at the start,
LEMMA InitOnceInTime == Init => OnceInTimeInv
<1> SUFFICES ASSUME Init PROVE OnceInTimeInv
  OBVIOUS
<1>1. \A c \in Call : /\ inbox[c] = {} /\ Hand(c) = {} /\ ~Fired(c)
                      /\ row[c] = "ABSENT" /\ body[c].pc = "none" /\ journal[c].stage = "start"
  BY DEF Init, Hand, NoBody, NewJournal, Fired
<1>2. TypeInv
  BY TypedInit
<1>3. CausesInv
  BY <1>1 DEF CausesInv, CausesOK, Init
<1>4. OnceInv /\ TimeInv
  BY <1>1 DEF OnceInv, HasFrom, TimeInv, TimeOK
<1> QED
  BY <1>2, <1>3, <1>4 DEF OnceInTimeInv

\* and every step keeps it.
LEMMA NextOnceInTime == OnceInTimeInv /\ [Next]_vars => OnceInTimeInv'
<1> SUFFICES ASSUME OnceInTimeInv, [Next]_vars PROVE OnceInTimeInv'
  OBVIOUS
<1>1. TypeInv'
  BY TypedNext DEF OnceInTimeInv
<1>2. CASE Next
  BY <1>1, <1>2, NextCauses, NextOnce, NextTime DEF OnceInTimeInv
<1>3. CASE UNCHANGED vars
  <2>1. UNCHANGED <<slot, row, target, inbox, acked, journal, body, process, call, now, earlier, happened>>
    BY <1>3 DEF vars, cycle
  <2>2. CausesInv' /\ OnceInv'
    BY <2>1 DEF OnceInTimeInv, CausesInv, CausesOK, Restarted, OnceInv, HasFrom, Inputs, Hand, Fired
  <2>3. TimeInv'
    BY <2>1 DEF OnceInTimeInv, TimeInv, TimeOK, Quiet, Fired
  <2> QED
    BY <1>1, <2>2, <2>3 DEF OnceInTimeInv
<1> QED
  BY <1>2, <1>3

\* A call that was never left waiting counts once: its input runs in no target but
\* the one its handle is on; and a target is enqueued not before its time, through
\* crashes and replays, but for a shutdown, a cancel and a failing statement.
THEOREM DebouncerOnceInTime == Spec => []FiresOnceInTime
<1>1. OnceInTimeInv => FiresOnceInTime
  <2> SUFFICES ASSUME OnceInTimeInv, NEW c \in Call, Fired(c)
               PROVE  /\ LET i == target[c].input
                         IN  call[i].attempt = 1 /\ call[i].pc \notin {"ack", "status"} => call[i].handle \in {c, None}
                      /\ \/ happened["shutdown"] + happened["cancel"] + happened["error"] > 0
                         \/ target[c].at >= journal[c].at
    BY DEF FiresOnceInTime
  <2>1. target[c].input \in Call
    BY DEF OnceInTimeInv, TypeInv, Boxes, Targets, OrNone, Fired
  <2>2. HasFrom(c, target[c].input)
    BY DEF HasFrom
  <2>3. \A h \in {"shutdown", "cancel", "error"} : happened[h] \in Nat
    BY DEF OnceInTimeInv, TypeInv, Clock, Happenings
  <2>4. Quiet \/ happened["shutdown"] + happened["cancel"] + happened["error"] > 0
    BY <2>3 DEF Quiet
  <2> QED
    BY <2>1, <2>2, <2>4 DEF OnceInTimeInv, OnceInv, TimeInv, TimeOK
<1> QED
  BY <1>1, InitOnceInTime, NextOnceInTime, PTL DEF Spec
=============================================================================
