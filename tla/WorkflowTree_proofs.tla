------------------------- MODULE WorkflowTree_proofs -------------------------
(***************************************************************************)
(* Theorems of WorkflowTree: its types; that rows of children and journals *)
(* of parents agree; that a workflow that succeeded has children that did; *)
(* and that what was taken away comes back only in the hands of somebody   *)
(* who had read it before.                                                 *)
(***************************************************************************)
EXTENDS WorkflowTree, TLAPS, FiniteSetTheorems, SequenceTheorems

USE TreeAssumption DEF TreeAssumption

------------------------------------------------------------------------------
(* Types.                                                                  *)

\* A row is settled exactly when it has ended.
RowOK(r) == r \in RowType /\ (r.status \in Settled <=> r.completed # None)

\* A body that is at a step is that of a workflow with such a step, and one that
\* joins has somebody to join.
BodyOK(w, b) ==
    /\ b \in BodyType
    /\ b.pc = "join" => b.child # None
    /\ b.channel => b.pc = "join"
    /\ b.pc \in {"check", "spawn", "join", "await"} => HasChildren(w) /\ b.step \in Step

Rows == row \in [Id -> RowType] /\ \A w \in Id : RowOK(row[w])

Bodies ==
    /\ body \in [Process -> [Id -> BodyType]]
    /\ \A e \in Process, w \in Id :
          /\ BodyOK(w, body[e][w])
          /\ body[e][w].channel => body[e][body[e][w].child].pc # "free"

Rest ==
    /\ journal \in [Id -> [Step -> Id \cup {None}]]
    /\ todo \in [Process -> SUBSET (Id \X {"start", "putBack"})]
    /\ up \subseteq Process /\ gone \subseteq Id /\ now \in Tick
    /\ forking \in 1..(Steps + 1) \cup {NoFork}
    /\ deleter \in [pc : {"idle", "list", "delete"}, visit : Seq(Id), found : Seq(Id)]
    /\ happened \in [Happenings -> Nat]

\* What a process that is down has left.
Down == \A e \in Process \ up : todo[e] = {} /\ \A w \in Id : body[e][w] = Free

TypeInv == Rows /\ Bodies /\ Rest /\ Down

\* These are the types.
LEMMA TypeInvTypes == TypeInv => TypeOK
<1> SUFFICES ASSUME TypeInv PROVE TypeOK
  OBVIOUS
<1>1. \A w \in Id : (row[w].status \in Settled) <=> (row[w].completed # None)
  BY DEF TypeInv, Rows, RowOK
<1>2. ASSUME NEW e \in Process, NEW w \in Id
      PROVE  LET b == body[e][w] IN
             /\ b.pc = "join" => b.child # None
             /\ b.channel => b.pc = "join" /\ Running(e, b.child)
  BY DEF TypeInv, Bodies, BodyOK, Running
<1>3. row \in [Id -> RowType] /\ body \in [Process -> [Id -> BodyType]]
  BY DEF TypeInv, Rows, Bodies
<1> QED
  BY <1>1, <1>2, <1>3 DEF TypeInv, Rest, TypeOK

\* The statements on rows.
LEMMA StatementTypes ==
    ASSUME now \in Tick, NEW r, RowOK(r)
    PROVE  /\ \A s \in {"SUCCESS", "ERROR"} : RowOK(OutcomeRow(r, s))
           /\ RowOK(CancelRow(r))
           /\ RowOK(ResumeRow(r))
           /\ \A e \in Process : r.status = "ENQUEUED" => RowOK(Claimed(e, r))
           /\ r.status = "PENDING" => RowOK([r EXCEPT !.status = "ENQUEUED"])
           /\ \A e \in Process : RowOK([r EXCEPT !.executor = e])
<1>0. now \in Nat /\ now # None /\ 0 \in Tick /\ Tick \subseteq Nat
  BY DEF Tick
<1>1. ASSUME NEW s \in Settled PROVE RowOK(Ended(r, s))
  BY <1>0 DEF Ended, RowOK, RowType, Settled
<1>2. ASSUME NEW s \in {"SUCCESS", "ERROR"} PROVE RowOK(OutcomeRow(r, s))
  BY <1>1 DEF OutcomeRow, Settled
<1>3. RowOK(CancelRow(r))
  <2>1. ASSUME NEW x, RowOK(x) PROVE RowOK([x EXCEPT !.queued = FALSE])
    BY <2>1 DEF RowOK, RowType
  <2>2. RowOK(Ended(r, "CANCELLED"))
    BY <1>1 DEF Settled
  <2> QED
    BY <2>1, <2>2 DEF CancelRow
<1>4. RowOK(ResumeRow(r))
  BY DEF ResumeRow, RowOK, RowType, Settled
<1>5. ASSUME NEW e \in Process, r.status = "ENQUEUED" PROVE RowOK(Claimed(e, r))
  <2>1. r.timeout # None => DeadlineIn(r.timeout) \in Tick
    BY <1>0 DEF DeadlineIn, RowOK, RowType, Tick
  <2> DEFINE d == IF r.timeout # None /\ r.deadline = None THEN DeadlineIn(r.timeout) ELSE r.deadline
  <2>2. d \in Tick \cup {None}
    BY <2>1 DEF RowOK, RowType
  <2>3. Claimed(e, r) = [r EXCEPT !.status = "PENDING", !.executor = e, !.deadline = d]
    BY DEF Claimed, RowOK, RowType
  <2> HIDE DEF d
  <2> QED
    BY <1>5, <2>2, <2>3 DEF RowOK, RowType, Settled
<1>6. r.status = "PENDING" => RowOK([r EXCEPT !.status = "ENQUEUED"])
  BY DEF RowOK, RowType, Settled
<1>7. \A e \in Process : RowOK([r EXCEPT !.executor = e])
  BY DEF RowOK, RowType
<1> QED
  BY <1>2, <1>3, <1>4, <1>5, <1>6, <1>7

\* The rows that are inserted.
LEMMA InsertTypes ==
    ASSUME now \in Tick, NEW e \in Process, NEW w \in Id,
           NEW parent \in Id \cup {None}, NEW timeout \in Nat \cup {None}
    PROVE  /\ RowOK(NewRow(e, w, parent, timeout))
           /\ RowOK([Absent EXCEPT !.status = "PENDING", !.executor = e, !.created = now])
           /\ RowOK(ForkedRow) /\ RowOK(Absent)
<1>1. RowOK(Absent)
  BY DEF RowOK, RowType, Absent, Settled
<1>2. timeout # None => DeadlineIn(timeout) \in Tick
  BY DEF DeadlineIn, Tick
<1>3. RowOK(NewRow(e, w, parent, timeout))
  BY <1>2 DEF NewRow, RowOK, RowType, Settled
<1>4. RowOK([Absent EXCEPT !.status = "PENDING", !.executor = e, !.created = now])
  BY <1>1 DEF RowOK, RowType, Settled, Absent
<1>5. RowOK(ForkedRow)
  BY <1>1 DEF ForkedRow, RowOK, RowType, Settled, Absent
<1> QED
  BY <1>1, <1>3, <1>4, <1>5

\* One row that changes.
LEMMA RowsStep ==
    ASSUME Rows, NEW w \in Id, NEW r, RowOK(r), row' = [row EXCEPT ![w] = r]
    PROVE  Rows'
<1>1. row' \in [Id -> RowType]
  BY DEF Rows, RowOK
<1>2. \A v \in Id : row'[v] = r \/ row'[v] = row[v]
  BY DEF Rows
<1>3. \A v \in Id : RowOK(row'[v])
  BY <1>2 DEF Rows
<1> QED
  BY <1>1, <1>3 DEF Rows, RowOK, RowType

\* A new body.
LEMMA BegunType ==
    ASSUME NEW w \in Id, NEW d \in Tick \cup {None}
    PROVE  /\ BodyOK(w, Begun(w, d)) /\ ~Begun(w, d).channel /\ Begun(w, d).pc \in {"check", "work"}
           /\ BodyOK(w, Free)
<1>1. Free \in BodyType /\ ~Free.channel /\ Free.step = 1 /\ Free.pc = "free"
  BY DEF Free, BodyType
<1>2. Begun(w, d) \in BodyType /\ ~Begun(w, d).channel /\ Begun(w, d).step = 1
      /\ Begun(w, d).pc = IF HasChildren(w) THEN "check" ELSE "work"
  BY <1>1 DEF Begun, BodyType
<1> QED
  BY <1>1, <1>2 DEF BodyOK, Step

\* A body that has the result of its child.
LEMMA AfterType ==
    ASSUME NEW w \in Id, NEW b, BodyOK(w, b), b.pc = "join", NEW ok \in BOOLEAN
    PROVE  BodyOK(w, After(b, ok)) /\ ~After(b, ok).channel /\ After(b, ok).pc # "free"
<1>1. b \in BodyType /\ HasChildren(w) /\ b.step \in Step /\ b.step \in Nat
  BY DEF BodyOK, Step
<1>2. After(b, ok) \in BodyType
  <2>1. /\ [b EXCEPT !.pc = "error", !.child = None, !.channel = FALSE] \in BodyType
        /\ [b EXCEPT !.pc = "ok", !.child = None, !.channel = FALSE] \in BodyType
    BY <1>1 DEF BodyType
  <2>2. [b EXCEPT !.pc = "check", !.step = @ + 1, !.child = None, !.channel = FALSE] \in BodyType
    <3>1. b.step + 1 \in Nat
      BY <1>1
    <3> QED
      BY <1>1, <3>1 DEF BodyType
  <2> QED
    BY <2>1, <2>2 DEF After
<1>3. After(b, ok).pc \in {"error", "ok", "check"} /\ ~After(b, ok).channel
  BY <1>1 DEF After, BodyType
<1>4. After(b, ok).pc = "check" => After(b, ok).step \in Step
  BY <1>1 DEF After, BodyType, Step
<1> QED
  BY <1>1, <1>2, <1>3, <1>4 DEF BodyOK

\* One body that goes on, whatever it was.
LEMMA BodiesStep ==
    ASSUME Bodies, NEW e \in Process, NEW w \in Id, NEW b, BodyOK(w, b), ~b.channel, b.pc # "free",
           body' = [body EXCEPT ![e][w] = b]
    PROVE  Bodies'
<1>1. body' \in [Process -> [Id -> BodyType]]
  BY DEF Bodies, BodyOK
<1>2. \A f \in Process, v \in Id : body'[f][v] = IF f = e /\ v = w THEN b ELSE body[f][v]
  BY DEF Bodies
<1>3. ASSUME NEW f \in Process, NEW v \in Id
      PROVE  BodyOK(v, body'[f][v]) /\ (body'[f][v].channel => body'[f][body'[f][v].child].pc # "free")
  <2>1. CASE f = e /\ v = w
    BY <1>2, <2>1
  <2>2. CASE ~(f = e /\ v = w)
    <3>1. body'[f][v] = body[f][v] /\ BodyOK(v, body[f][v])
      BY <1>2, <2>2 DEF Bodies
    <3>2. ASSUME body[f][v].channel PROVE body'[f][body[f][v].child].pc # "free"
      <4>1. body[f][v].child \in Id /\ body[f][body[f][v].child].pc # "free"
        BY <3>1, <3>2 DEF Bodies, BodyOK, BodyType
      <4> QED
        BY <1>2, <3>1, <4>1
    <3> QED
      BY <3>1, <3>2
  <2> QED
    BY <2>1, <2>2
<1> QED
  BY <1>1, <1>3 DEF Bodies, BodyOK, BodyType

\* A body that leaves, and those that waited for it over a channel.
Left(e, w, ok) ==
    body' = [body EXCEPT ![e] =
               [v \in Id |-> IF v = w THEN Free
                             ELSE IF body[e][v].pc = "join" /\ body[e][v].channel /\ body[e][v].child = w
                                  THEN After(body[e][v], ok)
                             ELSE body[e][v]]]

\* The bodies keep their types when one leaves.
LEMMA BodiesLeave ==
    ASSUME Bodies, NEW e \in Process, NEW w \in Id, NEW ok \in BOOLEAN, Left(e, w, ok)
    PROVE  Bodies'
<1> DEFINE waits(v) == body[e][v].pc = "join" /\ body[e][v].channel /\ body[e][v].child = w
           new(v) == IF v = w THEN Free ELSE IF waits(v) THEN After(body[e][v], ok) ELSE body[e][v]
<1>0. body' = [body EXCEPT ![e] = [v \in Id |-> new(v)]]
  BY DEF Left
<1>1. \A f \in Process, v \in Id : body'[f][v] = IF f = e THEN new(v) ELSE body[f][v]
  BY <1>0 DEF Bodies
<1>2. ASSUME NEW v \in Id
      PROVE  /\ BodyOK(v, new(v))
             /\ new(v).channel => new(v) = body[e][v] /\ v # w /\ body[e][v].child # w
             /\ v # w /\ body[e][v].pc # "free" => new(v).pc # "free"
  <2>1. BodyOK(v, body[e][v])
    BY DEF Bodies
  <2>2. CASE v = w
    <3>1. BodyOK(v, Free) /\ ~Free.channel
      BY DEF Free, BodyOK, BodyType
    <3> QED
      BY <2>2, <3>1
  <2>3. CASE v # w /\ waits(v)
    BY <2>1, <2>3, AfterType
  <2>4. CASE v # w /\ ~waits(v)
    BY <2>1, <2>4 DEF BodyOK
  <2> QED
    BY <2>2, <2>3, <2>4
<1> HIDE DEF new
<1>3. body' \in [Process -> [Id -> BodyType]]
  <2>1. [v \in Id |-> new(v)] \in [Id -> BodyType]
    BY <1>2 DEF BodyOK
  <2> QED
    BY <1>0, <2>1 DEF Bodies
<1>4. ASSUME NEW f \in Process, NEW v \in Id
      PROVE  BodyOK(v, body'[f][v]) /\ (body'[f][v].channel => body'[f][body'[f][v].child].pc # "free")
  <2>1. CASE f # e
    <3>1. body'[f] = body[f]
      BY <1>0, <2>1 DEF Bodies
    <3> QED
      BY <3>1 DEF Bodies
  <2>2. CASE f = e
    <3>1. body'[e][v] = new(v) /\ BodyOK(v, new(v))
      BY <1>1, <1>2
    <3>2. ASSUME new(v).channel PROVE body'[e][new(v).child].pc # "free"
      <4>1. new(v) = body[e][v] /\ body[e][v].child # w
        BY <1>2, <3>2
      <4>2. body[e][v].child \in Id /\ body[e][body[e][v].child].pc # "free"
        BY <3>2, <4>1 DEF Bodies, BodyOK, BodyType
      <4> QED
        BY <1>1, <1>2, <4>1, <4>2
    <3> QED
      BY <2>2, <3>1, <3>2
  <2> QED
    BY <2>1, <2>2
<1> QED
  BY <1>3, <1>4 DEF Bodies, BodyOK, BodyType

\* A process that is down has nothing and does nothing.
LEMMA DownStays ==
    ASSUME Bodies, Rest, Down, up' = up, NEW e \in up,
           \A f \in Process : f # e => body'[f] = body[f] /\ todo'[f] = todo[f]
    PROVE  Down'
  BY DEF Down

\* Whoever is at work is up.
LEMMA WorkersAreUp ==
    ASSUME Down, NEW e \in Process, NEW w \in Id,
           Running(e, w) \/ (\E x : <<w, x>> \in todo[e])
    PROVE  e \in up
<1>1. ASSUME e \notin up PROVE todo[e] = {} /\ body[e][w].pc = "free"
  BY <1>1 DEF Down, Free
<1> QED
  BY <1>1 DEF Running

------------------------------------------------------------------------------
\* The steps of a body.
LEMMA TypedSpawn ==
    ASSUME TypeInv, NEW e \in Process, NEW w \in Id, Spawn(e, w)
    PROVE  TypeInv'
<1> USE DEF TypeInv
<1> DEFINE b == body[e][w]
           c == Child(w, b.step)
<1>0. b \in BodyType /\ BodyOK(w, b) /\ b.pc = "spawn" /\ HasChildren(w) /\ b.step \in Step
      /\ ~b.channel /\ e \in up
  <2>1. b \in BodyType /\ BodyOK(w, b) /\ b.pc = "spawn"
    BY DEF Bodies, Spawn
  <2>2. e \in up
    BY <2>1, WorkersAreUp DEF Running
  <2> QED
    BY <2>1, <2>2 DEF BodyOK
<1>1. /\ todo' = todo /\ up' = up /\ deleter' = deleter /\ forking' = forking /\ now' = now
      /\ gone' = gone /\ happened' = happened
  BY DEF Spawn
<1>2. CASE Refused(w, b.step)
  <2>1. PICK pc \in {"await", "error"} : body' = [body EXCEPT ![e][w].pc = pc]
    BY <1>2 DEF Spawn, Goto
  <2>2. row' = row /\ journal' = journal
    BY <1>2 DEF Spawn
  <2>3. body' = [body EXCEPT ![e][w] = [b EXCEPT !.pc = pc]]
    BY <2>1 DEF Bodies
  <2>4. BodyOK(w, [b EXCEPT !.pc = pc]) /\ ~[b EXCEPT !.pc = pc].channel
        /\ [b EXCEPT !.pc = pc].pc # "free"
    BY <1>0 DEF BodyOK, BodyType
  <2>5. Bodies'
    <3> HIDE DEF b
    <3> QED
      BY <2>3, <2>4, BodiesStep
  <2>6. Rows' /\ Rest'
    BY <1>1, <2>2 DEF Rows, Rest, RowOK, RowType
  <2>7. Down'
    <3>1. \A f \in Process : f # e => body'[f] = body[f]
      BY <2>1 DEF Bodies
    <3> QED
      BY <1>0, <1>1, <3>1, DownStays
  <2> QED
    BY <2>5, <2>6, <2>7
<1>3. CASE ~Refused(w, b.step)
  <2> DEFINE local == ~Exists(c) /\ c \notin Queued /\ ~Running(e, c)
             nb == [b EXCEPT !.pc = "join", !.child = c, !.channel = local]
             cb == IF local THEN Begun(c, None) ELSE body[e][c]
  <2>0. c \in Id /\ c # w /\ c # None
    <3>1. c \in Id
      BY <1>0 DEF Step
    <3>2. Len(c) = Len(w) + 1 /\ Len(w) \in Nat
      BY <1>0 DEF Child, Step
    <3>3. c # w
      BY <3>2
    <3> HIDE DEF c
    <3> QED
      BY <3>1, <3>3
  <2>1. /\ row' = [row EXCEPT ![c] = Upserted(e, c, NewRow(e, c, w, None))]
        /\ journal' = [journal EXCEPT ![w][b.step] = c]
        /\ body' = [body EXCEPT ![e][w] = [@ EXCEPT !.pc = "join", !.child = c, !.channel = local],
                                ![e][c] = IF local THEN Begun(c, None) ELSE @]
    BY <1>3 DEF Spawn
  <2>2. \A f \in Process, v \in Id :
           body'[f][v] = IF f = e /\ v = c THEN cb ELSE IF f = e /\ v = w THEN nb ELSE body[f][v]
    <3> HIDE DEF c, local
    <3> QED
      BY <2>0, <2>1 DEF Bodies
  <2>3. body' \in [Process -> [Id -> BodyType]]
    <3>1. nb \in BodyType
      <4> HIDE DEF c
      <4> QED
        BY <1>0, <2>0 DEF BodyType
    <3>2. cb \in BodyType
      BY <2>0, BegunType DEF BodyOK, Bodies
    <3> HIDE DEF c, local
    <3> QED
      BY <2>0, <2>1, <3>1, <3>2 DEF Bodies
  <2>4. nb.pc = "join" /\ nb.child = c /\ nb.channel = local /\ nb.step = b.step
    <3> HIDE DEF c, local
    <3> QED
      BY <1>0 DEF BodyType
  <2>5. /\ BodyOK(c, cb)
        /\ local => ~cb.channel /\ cb.pc # "free"
        /\ ~local => cb = body[e][c]
    BY <2>0, BegunType DEF Bodies
  <2> HIDE DEF c, cb, nb
  <2>6. BodyOK(w, nb)
    <3>1. nb \in BodyType
      BY <2>0, <2>2, <2>3
    <3> QED
      BY <1>0, <2>0, <2>4, <3>1 DEF BodyOK
  <2>7. ASSUME NEW f \in Process, NEW v \in Id, body[f][v].pc # "free" PROVE body'[f][v].pc # "free"
    BY <2>2, <2>4, <2>5, <2>7
  <2>8. Bodies'
    <3>1. ASSUME NEW f \in Process, NEW v \in Id
          PROVE  BodyOK(v, body'[f][v]) /\ (body'[f][v].channel => body'[f][body'[f][v].child].pc # "free")
      <4>1. CASE f = e /\ v = w
        <5>1. body'[f][v] = nb
          BY <2>0, <2>2, <4>1
        <5>2. local => body'[e][c].pc # "free"
          BY <2>0, <2>2, <2>5 DEF Running
        <5> QED
          BY <2>4, <2>6, <4>1, <5>1, <5>2
      <4>2. CASE f = e /\ v = c /\ local
        BY <2>2, <2>5, <4>2
      <4>3. CASE body'[f][v] = body[f][v]
        <5>1. BodyOK(v, body[f][v]) /\ (body[f][v].channel => body[f][body[f][v].child].pc # "free")
              /\ body[f][v].child \in Id \cup {None}
          BY DEF Bodies, BodyType
        <5>2. body[f][v].channel => body[f][v].child \in Id
          BY <5>1 DEF BodyOK
        <5> QED
          BY <2>7, <4>3, <5>1, <5>2
      <4> QED
        BY <2>0, <2>2, <2>5, <4>1, <4>2, <4>3
    <3> QED
      BY <2>3, <3>1 DEF Bodies, BodyOK, BodyType
  <2>9. Rows'
    <3>1. RowOK(NewRow(e, c, w, None)) /\ RowOK(row[c])
      BY <2>0, InsertTypes DEF Rest, Rows
    <3>2. RowOK(Upserted(e, c, NewRow(e, c, w, None)))
      BY <3>1, StatementTypes DEF Upserted, Rest
    <3> QED
      BY <2>0, <2>1, <3>2, RowsStep
  <2>10. Rest'
    <3>1. journal' \in [Id -> [Step -> Id \cup {None}]]
      BY <1>0, <2>0, <2>1 DEF Rest
    <3> QED
      BY <1>1, <3>1 DEF Rest
  <2>11. Down'
    <3>1. \A f \in Process : f # e => body'[f] = body[f]
      BY <2>1 DEF Bodies
    <3> QED
      BY <1>0, <1>1, <3>1, DownStays
  <2> QED
    BY <2>8, <2>9, <2>10, <2>11
<1> QED
  BY <1>2, <1>3

\* Steps of a body that start no child.
LEMMA TypedBody ==
    ASSUME TypeInv, NEW e \in Process, NEW w \in Id,
           CheckChild(e, w) \/ Join(e, w) \/ Work(e, w) \/ Leave(e, w) \/ AwaitOther(e, w)
           \/ Expire(e, w)
    PROVE  TypeInv'
<1> USE DEF TypeInv
<1> DEFINE b == body[e][w]
<1>0. b \in BodyType /\ BodyOK(w, b) /\ b.pc # "free" /\ e \in up /\ RowOK(row[w]) /\ now \in Tick
  <2>1. b \in BodyType /\ BodyOK(w, b) /\ b.pc # "free"
    BY DEF Bodies, CheckChild, Join, Work, Leave, AwaitOther, Expire, Running
  <2>2. e \in up
    BY <2>1, WorkersAreUp DEF Running
  <2> QED
    BY <2>1, <2>2 DEF Rows, Rest
<1>1. /\ todo' = todo /\ up' = up /\ deleter' = deleter /\ forking' = forking /\ now' = now
      /\ gone' = gone /\ happened' = happened /\ journal' = journal
  BY DEF CheckChild, Join, Work, Leave, AwaitOther, Expire
<1>2. Rest'
  BY <1>1 DEF Rest
<1>3. Rows'
  <2>1. CASE row' = row
    BY <2>1 DEF Rows, RowOK, RowType
  <2>2. CASE row' # row
    <3>1. \E r : RowOK(r) /\ row' = [row EXCEPT ![w] = r]
      <4>1. CASE Leave(e, w)
        <5>1. row' = [row EXCEPT ![w] = OutcomeRow(row[w], IF b.pc = "ok" THEN "SUCCESS" ELSE "ERROR")]
          BY <4>1 DEF Leave, Rows
        <5> QED
          BY <1>0, <5>1, StatementTypes
      <4>2. CASE Expire(e, w)
        <5>1. row' = [row EXCEPT ![w] = CancelRow(row[w])]
          BY <4>2 DEF Expire, Rows
        <5> QED
          BY <1>0, <5>1, StatementTypes
      <4> QED
        BY <2>2, <4>1, <4>2 DEF CheckChild, Join, Work, AwaitOther
    <3> QED
      BY <3>1, RowsStep
  <2> QED
    BY <2>1, <2>2
<1>4. Bodies'
  <2>1. CASE Leave(e, w)
    <3>1. Left(e, w, b.pc = "ok")
      BY <2>1 DEF Leave, Left, Bodies
    <3> HIDE DEF b
    <3> QED
      BY <3>1, BodiesLeave
  <2>2. CASE AwaitOther(e, w)
    <3>1. Left(e, w, row[w].status = "SUCCESS")
      BY <2>2 DEF AwaitOther, Left, Bodies
    <3> QED
      BY <3>1, BodiesLeave
  <2>3. CASE Expire(e, w)
    <3> DEFINE nb == [b EXCEPT !.deadline = None]
    <3>1. body' = [body EXCEPT ![e][w] = nb]
      BY <2>3 DEF Expire, Bodies
    <3>2. nb \in BodyType /\ nb.pc = b.pc /\ nb.child = b.child /\ nb.channel = b.channel /\ nb.step = b.step
      BY <1>0 DEF BodyType
    <3> HIDE DEF nb
    <3>3. \A f \in Process, v \in Id :
             /\ body'[f][v].pc = body[f][v].pc /\ body'[f][v].child = body[f][v].child
             /\ body'[f][v].channel = body[f][v].channel /\ body'[f][v].step = body[f][v].step
      BY <3>1, <3>2 DEF Bodies
    <3>4. body' \in [Process -> [Id -> BodyType]]
      BY <3>1, <3>2 DEF Bodies
    <3>5. ASSUME NEW f \in Process, NEW v \in Id
          PROVE  BodyOK(v, body'[f][v]) /\ (body'[f][v].channel => body'[f][body'[f][v].child].pc # "free")
      <4>0. BodyOK(v, body[f][v]) /\ body'[f][v] \in BodyType
        BY <3>4 DEF Bodies
      <4>1. BodyOK(v, body'[f][v])
        BY <3>3, <4>0 DEF BodyOK
      <4>2. body[f][v].channel => body[f][v].child \in Id /\ body[f][body[f][v].child].pc # "free"
        BY DEF Bodies, BodyOK, BodyType
      <4> QED
        BY <3>3, <4>1, <4>2
    <3> QED
      BY <3>4, <3>5 DEF Bodies, BodyOK, BodyType
  <2>4. CASE CheckChild(e, w) \/ Join(e, w) \/ Work(e, w)
    <3>1. \E nb : BodyOK(w, nb) /\ ~nb.channel /\ nb.pc # "free" /\ body' = [body EXCEPT ![e][w] = nb]
      <4>1. CASE CheckChild(e, w)
        <5> DEFINE c == journal[w][b.step]
        <5>1. b.pc = "check" /\ HasChildren(w) /\ b.step \in Step /\ ~b.channel
          BY <1>0, <4>1 DEF CheckChild, BodyOK
        <5>2. c \in Id \cup {None}
          BY <5>1 DEF Rest
        <5>3. body' = [body EXCEPT ![e][w] = IF c = None THEN [b EXCEPT !.pc = "spawn"]
                                             ELSE [b EXCEPT !.pc = "join", !.child = c]]
          BY <4>1 DEF CheckChild, Bodies
        <5>4. BodyOK(w, [b EXCEPT !.pc = "spawn"]) /\ ~[b EXCEPT !.pc = "spawn"].channel
              /\ [b EXCEPT !.pc = "spawn"].pc # "free"
          BY <1>0, <5>1 DEF BodyOK, BodyType
        <5> HIDE DEF c
        <5>5. c # None => BodyOK(w, [b EXCEPT !.pc = "join", !.child = c])
                          /\ ~[b EXCEPT !.pc = "join", !.child = c].channel
                          /\ [b EXCEPT !.pc = "join", !.child = c].pc # "free"
          BY <1>0, <5>1, <5>2 DEF BodyOK, BodyType
        <5> QED
          BY <5>3, <5>4, <5>5
      <4>2. CASE Join(e, w)
        <5>1. PICK ok \in BOOLEAN : body' = [body EXCEPT ![e][w] = After(b, ok)]
          BY <4>2 DEF Join, Bodies
        <5> QED
          BY <1>0, <4>2, <5>1, AfterType DEF Join
      <4>3. CASE Work(e, w)
        <5>1. PICK pc \in {"error", "ok"} : body' = [body EXCEPT ![e][w] = [b EXCEPT !.pc = pc]]
          BY <4>3 DEF Work, Goto, Bodies
        <5>2. ~b.channel
          BY <1>0, <4>3 DEF Work, BodyOK
        <5>3. BodyOK(w, [b EXCEPT !.pc = pc]) /\ ~[b EXCEPT !.pc = pc].channel /\ [b EXCEPT !.pc = pc].pc # "free"
          BY <1>0, <5>2 DEF BodyOK, BodyType
        <5> QED
          BY <5>1, <5>3
      <4> QED
        BY <2>4, <4>1, <4>2, <4>3
    <3> QED
      BY <3>1, BodiesStep
  <2> QED
    BY <2>1, <2>2, <2>3, <2>4
<1>5. Down'
  <2>1. \A f \in Process : f # e => body'[f] = body[f]
    BY DEF CheckChild, Join, Work, Goto, Leave, AwaitOther, Expire, Bodies
  <2> QED
    BY <1>0, <1>1, <2>1, DownStays
<1> QED
  BY <1>2, <1>3, <1>4, <1>5

\* A workflow that is submitted, claimed, started or put back.
LEMMA TypedStart ==
    ASSUME TypeInv, NEW e \in Process, NEW w \in Id,
           Submit(e) \/ Dequeue(e, w) \/ StartListed(e, w) \/ PutBack(e, w)
    PROVE  TypeInv'
<1> USE DEF TypeInv
<1>0. /\ up' = up /\ deleter' = deleter /\ forking' = forking /\ now' = now
      /\ gone' = gone /\ happened' = happened /\ journal' = journal /\ now \in Tick
  BY DEF Submit, Dequeue, StartListed, PutBack, Rest
<1>1. e \in up
  BY WorkersAreUp DEF Submit, Dequeue, StartListed, PutBack
<1>2. Rest'
  <2>1. todo' \in [Process -> SUBSET (Id \X {"start", "putBack"})]
    BY DEF Submit, Dequeue, StartListed, PutBack, Rest
  <2> QED
    BY <1>0, <2>1 DEF Rest
<1>3. Down'
  <2>1. \A f \in Process : f # e => body'[f] = body[f] /\ todo'[f] = todo[f]
    BY DEF Submit, Dequeue, StartListed, PutBack, Bodies, Rest
  <2> QED
    BY <1>0, <1>1, <2>1, DownStays
<1>4. Rows'
  <2>1. CASE Submit(e)
    BY <1>0, <2>1, InsertTypes, RowsStep DEF Submit
  <2>2. CASE Dequeue(e, w)
    <3>1. RowOK(Claimed(e, row[w]))
      BY <1>0, <2>2, StatementTypes DEF Dequeue, Rows
    <3> QED
      BY <2>2, <3>1, RowsStep DEF Dequeue
  <2>3. CASE StartListed(e, w)
    <3>1. RowOK(Inserts(e, w))
      BY <1>0, StatementTypes, InsertTypes DEF Inserts, Upserted, Rows
    <3> QED
      BY <2>3, <3>1, RowsStep DEF StartListed
  <2>4. CASE PutBack(e, w)
    <3>1. row[w].status = "PENDING" => RowOK([row[w] EXCEPT !.status = "ENQUEUED"])
      BY <1>0, StatementTypes DEF Rows
    <3>2. row' = row \/ (row[w].status = "PENDING" /\ row' = [row EXCEPT ![w] = [row[w] EXCEPT !.status = "ENQUEUED"]])
      BY <2>4 DEF PutBack, Rows
    <3>3. CASE row' = row
      BY <3>3 DEF Rows, RowOK, RowType
    <3> QED
      BY <3>1, <3>2, <3>3, RowsStep
  <2> QED
    BY <2>1, <2>2, <2>3, <2>4
<1>5. Bodies'
  <2>1. ASSUME NEW v \in Id, body' = [body EXCEPT ![e][v] = Begun(v, row'[v].deadline)] PROVE Bodies'
    <3>1. row'[v].deadline \in Tick \cup {None}
      BY <1>4 DEF Rows, RowType
    <3>2. PICK d \in Tick \cup {None} : d = row'[v].deadline
      BY <3>1
    <3>3. BodyOK(v, Begun(v, d)) /\ ~Begun(v, d).channel /\ Begun(v, d).pc # "free"
      BY BegunType
    <3>4. body' = [body EXCEPT ![e][v] = Begun(v, d)]
      BY <2>1, <3>2
    <3> QED
      BY <3>3, <3>4, BodiesStep
  <2>2. CASE body' = body
    BY <2>2 DEF Bodies, BodyOK, BodyType
  <2> QED
    BY <2>1, <2>2 DEF Submit, Dequeue, StartListed, PutBack
<1> QED
  BY <1>2, <1>3, <1>4, <1>5

\* Sets of ids as sequences.
LEMMA IdSequences ==
    ASSUME NEW S, S \subseteq Id, NEW s \in SetToSeqs(S)
    PROVE  s \in Seq(Id)
<1>1. Cardinality(S) \in Nat
  BY FS_Subset, FS_CardinalityType
<1>2. s \in [1..Cardinality(S) -> S]
  BY DEF SetToSeqs
<1>3. s \in Seq(S)
  <2>1. s \in UNION {[1..n -> S] : n \in Nat}
    BY <1>1, <1>2
  <2> QED
    BY <2>1, SeqDef, Zenon
<1> QED
  BY <1>3, SeqMonotonic

\* Rows that go.
LEMMA TypedRemoved ==
    ASSUME TypeInv, NEW ws, ws \subseteq Id, Removed(ws)
    PROVE  /\ Rows'
           /\ journal' \in [Id -> [Step -> Id \cup {None}]] /\ gone' \subseteq Id
<1>1. RowOK(Absent)
  BY DEF RowOK, RowType, Absent, Settled
<1>2. \A w \in Id : row'[w] = Absent \/ row'[w] = row[w]
  BY DEF Removed
<1>3. \A w \in Id : RowOK(row'[w])
  BY <1>1, <1>2 DEF TypeInv, Rows
<1>4. row' \in [Id -> RowType]
  <2>1. \A w \in Id : RowOK(IF w \in ws THEN Absent ELSE row[w])
    BY <1>1 DEF TypeInv, Rows
  <2> QED
    BY <2>1 DEF Removed, RowOK
<1>5. Rows'
  BY <1>3, <1>4 DEF Rows, RowOK, RowType
<1>6. journal' \in [Id -> [Step -> Id \cup {None}]] /\ gone' \subseteq Id
  BY DEF Removed, TypeInv, Rest
<1> QED
  BY <1>5, <1>6

\* Counters stay numbers.
LEMMA CounterType ==
    ASSUME happened \in [Happenings -> Nat], happened' = happened \/ \E h \in Happenings : Happens(h)
    PROVE  happened' \in [Happenings -> Nat]
  BY DEF Happens

\* What people do with workflows.
LEMMA TypedManagement ==
    ASSUME TypeInv,
           \/ \E w \in Id : Cancel(w) \/ Resume(w) \/ Delete(w)
           \/ DeleteList \/ DeleteNext \/ ForkInsert
           \/ \E cutoff : CollectBefore(cutoff)
           \/ \E threshold : CollectBeyond(threshold)
           \/ \E start \in 1..(Steps + 1) : Fork(start)
    PROVE  TypeInv'
<1> USE DEF TypeInv
<1>0. /\ up' = up /\ body' = body /\ todo' = todo /\ now' = now /\ now \in Tick
      /\ deleter \in [pc : {"idle", "list", "delete"}, visit : Seq(Id), found : Seq(Id)]
  BY DEF Cancel, Resume, Delete, DeleteList, DeleteNext, ForkInsert, CollectBefore, CollectBeyond,
         Fork, Rest
<1>1. Bodies' /\ Down'
  BY <1>0 DEF Bodies, BodyOK, BodyType, Down
<1>2. happened' \in [Happenings -> Nat]
  <2>1. happened' = happened \/ \E h \in Happenings : Happens(h)
    BY DEF Cancel, Resume, Delete, DeleteList, DeleteNext, ForkInsert, CollectBefore, CollectBeyond,
           Fork, Happenings
  <2> QED
    BY <2>1, CounterType DEF Rest
<1>3. ASSUME row' = row, journal' = journal, gone' = gone, forking' \in 1..(Steps + 1) \cup {NoFork},
             deleter' \in [pc : {"idle", "list", "delete"}, visit : Seq(Id), found : Seq(Id)]
      PROVE  TypeInv'
  BY <1>0, <1>1, <1>2, <1>3 DEF Rest, Rows, RowOK, RowType
<1>4. ASSUME NEW w \in Id, NEW r, RowOK(r), row' = [row EXCEPT ![w] = r],
             journal' \in [Id -> [Step -> Id \cup {None}]], gone' = gone,
             forking' \in {forking, NoFork}, deleter' = deleter
      PROVE  TypeInv'
  <2>1. Rows'
    BY <1>4, RowsStep
  <2> QED
    BY <1>0, <1>1, <1>2, <1>4, <2>1 DEF Rest
<1>5. ASSUME NEW ws, ws \subseteq Id, Removed(ws), forking' = forking,
             deleter' \in [pc : {"idle", "list", "delete"}, visit : Seq(Id), found : Seq(Id)]
      PROVE  TypeInv'
  BY <1>0, <1>1, <1>2, <1>5, TypedRemoved DEF Rest
<1>6. ASSUME NEW w \in Id, Cancel(w) \/ Resume(w) PROVE TypeInv'
  <2>0. RowOK(row[w]) /\ forking' = forking /\ deleter' = deleter /\ journal' = journal /\ gone' = gone
        /\ journal \in [Id -> [Step -> Id \cup {None}]]
    BY <1>6 DEF Cancel, Resume, Rows, Rest
  <2>1. RowOK(CancelRow(row[w])) /\ RowOK(ResumeRow(row[w]))
    BY <1>0, <2>0, StatementTypes
  <2>2. row' = [row EXCEPT ![w] = CancelRow(row[w])] \/ row' = [row EXCEPT ![w] = ResumeRow(row[w])]
    BY <1>6 DEF Cancel, Resume, Rows
  <2> QED
    BY <1>4, <2>0, <2>1, <2>2
<1>7. ASSUME NEW w \in Id, Delete(w) PROVE TypeInv'
  <2>1. <<w>> \in Seq(Id)
    OBVIOUS
  <2>2. deleter' \in [pc : {"idle", "list", "delete"}, visit : Seq(Id), found : Seq(Id)]
    BY <1>7, <2>1 DEF Delete
  <2> QED
    BY <1>3, <1>7, <2>2 DEF Delete, Rest
<1>8. CASE DeleteList
  <2>1. deleter' \in [pc : {"idle", "list", "delete"}, visit : Seq(Id), found : Seq(Id)]
    <3>1. CASE deleter.visit = << >>
      BY <1>0, <1>8, <3>1 DEF DeleteList
    <3>2. CASE deleter.visit # << >>
      <4>1. PICK cs \in Seq(Id) :
               deleter' = [deleter EXCEPT !.visit = Tail(@) \o cs, !.found = @ \o cs]
        <5> DEFINE children == {c \in Id : Exists(c) /\ row[c].parent = Head(deleter.visit)}
        <5>1. PICK cs \in SetToSeqs(children) :
                 deleter' = [deleter EXCEPT !.visit = Tail(@) \o cs, !.found = @ \o cs]
          BY <1>8, <3>2 DEF DeleteList
        <5>2. children \subseteq Id
          OBVIOUS
        <5> HIDE DEF children
        <5> QED
          BY <5>1, <5>2, IdSequences
      <4>2. Tail(deleter.visit) \o cs \in Seq(Id) /\ deleter.found \o cs \in Seq(Id)
        BY <1>0, <3>2
      <4> QED
        BY <1>0, <4>1, <4>2
    <3> QED
      BY <3>1, <3>2
  <2> QED
    BY <1>3, <1>8, <2>1 DEF DeleteList, Rest
<1>9. CASE DeleteNext
  <2>1. CASE deleter.found = << >>
    <3>1. NoDelete \in [pc : {"idle", "list", "delete"}, visit : Seq(Id), found : Seq(Id)]
      BY DEF NoDelete
    <3> QED
      BY <1>3, <1>9, <2>1, <3>1 DEF DeleteNext, Rest
  <2>2. CASE deleter.found # << >>
    <3>1. Head(deleter.found) \in Id /\ Tail(deleter.found) \in Seq(Id)
      BY <1>0, <2>2
    <3>2. deleter' = [deleter EXCEPT !.found = Tail(@)] /\ Removed({Head(deleter.found)})
          /\ forking' = forking
      BY <1>9, <2>2 DEF DeleteNext
    <3>3. deleter' \in [pc : {"idle", "list", "delete"}, visit : Seq(Id), found : Seq(Id)]
      BY <1>0, <3>1, <3>2
    <3> QED
      BY <1>5, <3>1, <3>2, <3>3
  <2> QED
    BY <2>1, <2>2
<1>10. ASSUME NEW cutoff, CollectBefore(cutoff) PROVE TypeInv'
  BY <1>0, <1>5, <1>10 DEF CollectBefore, Terminal
<1>11. ASSUME NEW threshold, CollectBeyond(threshold) PROVE TypeInv'
  BY <1>0, <1>5, <1>11 DEF CollectBeyond, Terminal
<1>12. ASSUME NEW start \in 1..(Steps + 1), Fork(start) PROVE TypeInv'
  BY <1>0, <1>3, <1>12 DEF Fork
<1>13. CASE ForkInsert
  <2>1. forking \in 1..(Steps + 1) /\ journal \in [Id -> [Step -> Id \cup {None}]]
    BY <1>13 DEF ForkInsert, Rest
  <2>2. Copied(forking) \in [Step -> Id \cup {None}]
    BY <2>1 DEF Copied
  <2>3. RowOK(ForkedRow)
    <3>1. RowOK(Absent)
      BY DEF RowOK, RowType, Absent, Settled
    <3> QED
      BY <1>0, <3>1 DEF ForkedRow, RowOK, RowType, Settled, Absent
  <2> QED
    BY <1>4, <1>13, <2>1, <2>2, <2>3 DEF ForkInsert
<1> QED
  BY <1>6, <1>7, <1>8, <1>9, <1>10, <1>11, <1>12, <1>13

\* Processes that crash and come back; time.
LEMMA TypedProcess ==
    ASSUME TypeInv, Pass \/ UNCHANGED vars \/ \E e \in Process : Crash(e) \/ Launch(e)
    PROVE  TypeInv'
<1> USE DEF TypeInv
<1>0. /\ row' = row /\ journal' = journal /\ deleter' = deleter /\ forking' = forking /\ gone' = gone
  BY DEF Pass, vars, Crash, Launch
<1>1. Rows'
  BY <1>0 DEF Rows, RowOK, RowType
<1>2. now' \in Tick /\ happened' \in [Happenings -> Nat]
  <2>1. happened' = happened \/ \E h \in Happenings : Happens(h)
    BY DEF Pass, vars, Crash, Launch, Happenings
  <2>2. now' = now \/ (now < Horizon /\ now' = now + 1)
    BY DEF Pass, vars, Crash, Launch
  <2> QED
    BY <2>1, <2>2, CounterType DEF Rest, Tick
<1>3. CASE Pass \/ UNCHANGED vars
  <2>1. up' = up /\ body' = body /\ todo' = todo
    BY <1>3 DEF Pass, vars
  <2> QED
    BY <1>0, <1>1, <1>2, <2>1 DEF Bodies, BodyOK, BodyType, Down, Rest
<1>4. ASSUME NEW e \in Process, Crash(e) PROVE TypeInv'
  <2>1. /\ up' = up \ {e} /\ body' = [body EXCEPT ![e] = [w \in Id |-> Free]]
        /\ todo' = [todo EXCEPT ![e] = {}]
    BY <1>4 DEF Crash
  <2>2. \A w \in Id : BodyOK(w, Free) /\ ~Free.channel
    BY DEF Free, BodyOK, BodyType
  <2>3. Free \in BodyType
    BY DEF Free, BodyType
  <2>4. body' \in [Process -> [Id -> BodyType]]
    BY <2>1, <2>3 DEF Bodies
  <2>5. ASSUME NEW f \in Process, NEW v \in Id
        PROVE  BodyOK(v, body'[f][v]) /\ (body'[f][v].channel => body'[f][body'[f][v].child].pc # "free")
    <3>1. CASE f = e
      <4>1. body'[f][v] = Free
        BY <2>1, <3>1 DEF Bodies
      <4> QED
        BY <2>2, <4>1
    <3>2. CASE f # e
      <4>1. body'[f] = body[f]
        BY <2>1, <3>2 DEF Bodies
      <4> QED
        BY <4>1 DEF Bodies
    <3> QED
      BY <3>1, <3>2
  <2>6. Bodies'
    BY <2>4, <2>5 DEF Bodies, BodyOK, BodyType
  <2>7. Down'
    <3>1. ASSUME NEW f \in Process \ up' PROVE todo'[f] = {} /\ \A w \in Id : body'[f][w] = Free
      BY <2>1, <3>1 DEF Down, Bodies, Rest
    <3> QED
      BY <3>1 DEF Down, Free
  <2>8. Rest'
    BY <1>0, <1>2, <2>1 DEF Rest
  <2> QED
    BY <1>1, <2>6, <2>7, <2>8
<1>5. ASSUME NEW e \in Process, Launch(e) PROVE TypeInv'
  <2>1. up' = up \cup {e} /\ body' = body
    BY <1>5 DEF Launch
  <2>2. Bodies'
    BY <2>1 DEF Bodies, BodyOK, BodyType
  <2>3. todo' \in [Process -> SUBSET (Id \X {"start", "putBack"})]
        /\ \A f \in Process : f # e => todo'[f] = todo[f]
    BY <1>5 DEF Launch, Rest
  <2>4. Rest'
    BY <1>0, <1>2, <2>1, <2>3 DEF Rest
  <2>5. Down'
    BY <2>1, <2>3 DEF Down
  <2> QED
    BY <1>1, <2>2, <2>4, <2>5
<1> QED
  BY <1>3, <1>4, <1>5

\* At the start there is nothing.
LEMMA TypedInit == Init => TypeInv
<1> SUFFICES ASSUME Init PROVE TypeInv
  OBVIOUS
<1>1. RowOK(Absent) /\ Absent \in RowType
  BY DEF RowOK, RowType, Absent, Settled
<1>2. Rows
  BY <1>1 DEF Init, Rows
<1>3. Bodies
  <2>1. \A w \in Id : BodyOK(w, Free) /\ ~Free.channel /\ Free \in BodyType
    BY DEF Free, BodyOK, BodyType
  <2> QED
    BY <2>1 DEF Init, Bodies
<1>4. Rest
  BY DEF Init, Rest, NoDelete, NoFork, Tick
<1>5. Down
  BY DEF Init, Down
<1> QED
  BY <1>2, <1>3, <1>4, <1>5 DEF TypeInv

\* Every step keeps the types.
LEMMA TypedNext == TypeInv /\ [Next]_vars => TypeInv'
<1> SUFFICES ASSUME TypeInv, [Next]_vars PROVE TypeInv'
  OBVIOUS
<1>1. ASSUME NEW e \in Process, Submit(e) PROVE TypeInv'
  BY <1>1, TypedStart
<1> QED
  BY <1>1, TypedBody, TypedSpawn, TypedStart, TypedManagement, TypedProcess
  DEF Next, ProcessStep, BodyStep, Environment

\* Every variable has its type at all times: a row is settled exactly when it has
\* an end, and a channel leads to a body that is there.
THEOREM TreeTyping == Spec => []TypeOK
<1> QED
  BY TypedInit, TypedNext, TypeInvTypes, PTL DEF Spec

------------------------------------------------------------------------------
(* Rows and records.                                                       *)

\* A row has a parent when its id is that of a step; what a process has listed was
\* there; a fork in progress has an id that nobody has used.
RecordInv ==
    /\ RecordsAgree
    /\ \A c \in Id : row[c].parent # None => c[Len(c)] \in Step
    /\ \A e \in Process, w \in Id : <<w, "start">> \in todo[e] => Exists(w) \/ w \in gone
    /\ forking # NoFork => ~Exists(Forked) /\ Forked \notin gone

\* No statement on a row that exists takes it away, nor its parent.
LEMMA StatementsKeep ==
    ASSUME NEW r \in RowType
    PROVE  /\ \A s \in {"SUCCESS", "ERROR"} :
                 /\ OutcomeRow(r, s).parent = r.parent
                 /\ OutcomeRow(r, s).status = "ABSENT" <=> r.status = "ABSENT"
           /\ CancelRow(r).parent = r.parent /\ (CancelRow(r).status = "ABSENT" <=> r.status = "ABSENT")
           /\ ResumeRow(r).parent = r.parent /\ (ResumeRow(r).status = "ABSENT" <=> r.status = "ABSENT")
           /\ \A e \in Process : Claimed(e, r).parent = r.parent /\ Claimed(e, r).status = "PENDING"
<1>1. ASSUME NEW s PROVE Ended(r, s).parent = r.parent /\ Ended(r, s).status = s
  BY DEF Ended, RowType
<1>2. [Ended(r, "CANCELLED") EXCEPT !.queued = FALSE].parent = r.parent
      /\ [Ended(r, "CANCELLED") EXCEPT !.queued = FALSE].status = "CANCELLED"
  BY DEF Ended, RowType
<1>3. ASSUME NEW e \in Process PROVE Claimed(e, r).parent = r.parent /\ Claimed(e, r).status = "PENDING"
  BY DEF Claimed, RowType
<1>4. ASSUME NEW s \in {"SUCCESS", "ERROR"}
      PROVE  OutcomeRow(r, s).parent = r.parent
             /\ (OutcomeRow(r, s).status = "ABSENT" <=> r.status = "ABSENT")
  BY <1>1 DEF OutcomeRow
<1>5. CancelRow(r).parent = r.parent /\ (CancelRow(r).status = "ABSENT" <=> r.status = "ABSENT")
  BY <1>2 DEF CancelRow, Settled
<1>6. ResumeRow(r).parent = r.parent /\ (ResumeRow(r).status = "ABSENT" <=> r.status = "ABSENT")
  BY DEF ResumeRow, RowType
<1> QED
  BY <1>3, <1>4, <1>5, <1>6

\* The insert leaves a row that exists where it is.
LEMMA UpsertKeeps ==
    ASSUME TypeInv, NEW e \in Process, NEW w \in Id, NEW new \in RowType
    PROVE  /\ Exists(w) => /\ Upserted(e, w, new).parent = row[w].parent
                           /\ Upserted(e, w, new).status = row[w].status
                           /\ Upserted(e, w, new).timeout = row[w].timeout
                           /\ Upserted(e, w, new).deadline = row[w].deadline
           /\ ~Exists(w) => Upserted(e, w, new) = new
<1>1. row[w] \in RowType
  BY DEF TypeInv, Rows
<1> QED
  BY <1>1 DEF Upserted, RowType

\* One row changes at most, and it is not taken away; a row that is new has no
\* parent, and is that of a fork only when the fork has ended.
KeepsRows ==
    /\ journal' = journal /\ gone' = gone
    /\ \A w \in Id : row'[w] # row[w] =>
          /\ row'[w].status # "ABSENT"
          /\ row'[w].parent = IF Exists(w) THEN row[w].parent ELSE None
          /\ w = Forked /\ ~Exists(w) => w \in gone
    /\ forking' \in {forking, NoFork}
    /\ \A e \in Process, w \in Id :
          <<w, "start">> \in todo'[e] => <<w, "start">> \in todo[e] \/ Exists(w)

\* Such steps keep rows and records in agreement.
LEMMA RecordsKept ==
    ASSUME RecordInv, TypeInv, KeepsRows
    PROVE  RecordInv'
<1>1. \A w \in Id : Exists(w) => row'[w].status # "ABSENT" /\ row'[w].parent = row[w].parent
  BY DEF KeepsRows, Exists
<1>2. \A w \in Id : row'[w].parent # None => row'[w].parent = row[w].parent
  BY DEF KeepsRows
<1>3. ASSUME NEW c \in Id, row'[c].parent # None, row'[c].parent \notin gone
      PROVE  row'[row'[c].parent].status # "ABSENT" /\ journal[row'[c].parent][c[Len(c)]] = c
  <2>1. row[c].parent # None /\ row[c].parent \notin gone /\ row[c].parent \in Id
        /\ row'[c].parent = row[c].parent
    BY <1>2, <1>3 DEF TypeInv, Rows, RowType
  <2>2. Exists(row[c].parent) /\ journal[row[c].parent][c[Len(c)]] = c
    BY <2>1 DEF RecordInv, RecordsAgree
  <2> QED
    BY <1>1, <2>1, <2>2
<1>4. \A w \in Id, k \in Step : journal[w][k] # None =>
         row'[w].status # "ABSENT" /\ (row'[journal[w][k]].status # "ABSENT" \/ journal[w][k] \in gone)
  <2>1. ASSUME NEW w \in Id, NEW k \in Step, journal[w][k] # None
        PROVE  row'[w].status # "ABSENT" /\ (row'[journal[w][k]].status # "ABSENT" \/ journal[w][k] \in gone)
    <3>1. journal[w][k] \in Id
      BY <2>1 DEF TypeInv, Rest
    <3>2. Exists(w) /\ (Exists(journal[w][k]) \/ journal[w][k] \in gone)
      BY <2>1 DEF RecordInv, RecordsAgree
    <3> QED
      BY <1>1, <3>1, <3>2
  <2> QED
    BY <2>1
<1>5. RecordsAgree'
  BY <1>3, <1>4 DEF RecordsAgree, KeepsRows, Exists
<1>6. ASSUME NEW e \in Process, NEW w \in Id, <<w, "start">> \in todo'[e]
      PROVE  row'[w].status # "ABSENT" \/ w \in gone'
  BY <1>1, <1>6 DEF KeepsRows, RecordInv, Exists
<1>7. ASSUME forking' # NoFork PROVE row'[Forked].status = "ABSENT" /\ Forked \notin gone'
  BY <1>7 DEF KeepsRows, RecordInv, Exists
<1>8. \A c \in Id : row'[c].parent # None => c[Len(c)] \in Step
  BY <1>2 DEF RecordInv
<1> QED
  BY <1>5, <1>6, <1>7, <1>8 DEF RecordInv, Exists

\* One row, and how it changes.
LEMMA OneRow ==
    ASSUME TypeInv, NEW w \in Id, NEW r, row' = [row EXCEPT ![w] = r],
           journal' = journal, gone' = gone, forking' = forking,
           \A e \in Process, v \in Id :
              <<v, "start">> \in todo'[e] => <<v, "start">> \in todo[e] \/ Exists(v),
           Exists(w) => r.status # "ABSENT" /\ r.parent = row[w].parent,
           ~Exists(w) => r = row[w] \/ (r.parent = None /\ r.status # "ABSENT" /\ (w = Forked => w \in gone))
    PROVE  KeepsRows
<1>1. \A v \in Id : row'[v] = IF v = w THEN r ELSE row[v]
  BY DEF TypeInv, Rows
<1> QED
  BY <1>1 DEF KeepsRows

\* Nothing changes in the table.
LEMMA NoRow ==
    ASSUME row' = row, journal' = journal, gone' = gone, forking' = forking,
           \A e \in Process, v \in Id :
              <<v, "start">> \in todo'[e] => <<v, "start">> \in todo[e] \/ Exists(v)
    PROVE  KeepsRows
  BY DEF KeepsRows

\* The steps of bodies and processes that are of this kind.
LEMMA RecordsBody ==
    ASSUME TypeInv, NEW e, NEW w \in Id,
           \/ /\ e \in Process
              /\ \/ CheckChild(e, w) \/ Join(e, w) \/ Work(e, w) \/ Leave(e, w) \/ AwaitOther(e, w)
                 \/ Expire(e, w) \/ Dequeue(e, w) \/ PutBack(e, w) \/ Launch(e) \/ Crash(e)
           \/ Cancel(w) \/ Resume(w) \/ Delete(w) \/ DeleteList \/ Pass \/ UNCHANGED vars
    PROVE  KeepsRows /\ \A v \in Id : ~Exists(v) => row'[v] = row[v]
<1>0. /\ row \in [Id -> RowType] /\ row[w] \in RowType
      /\ todo \in [Process -> SUBSET (Id \X {"start", "putBack"})]
  BY DEF TypeInv, Rows, Rest
<1>1. journal' = journal /\ gone' = gone /\ forking' = forking
  BY DEF CheckChild, Join, Work, Leave, AwaitOther, Expire, Dequeue, PutBack, Launch, Crash, Cancel,
         Resume, Delete, DeleteList, Pass, vars
<1>2. \A f \in Process, v \in Id :
         <<v, "start">> \in todo'[f] => <<v, "start">> \in todo[f] \/ Exists(v)
  <2>1. CASE todo' = todo
    BY <2>1
  <2>2. CASE e \in Process /\ Dequeue(e, w)
    BY <1>0, <2>2 DEF Dequeue, Exists
  <2>3. CASE e \in Process /\ (PutBack(e, w) \/ Crash(e))
    BY <1>0, <2>3 DEF PutBack, Crash
  <2>4. CASE e \in Process /\ Launch(e)
    <3>1. \A f \in Process : f # e => todo'[f] = todo[f]
      BY <1>0, <2>4 DEF Launch
    <3>2. ASSUME NEW v \in Id, <<v, "start">> \in todo'[e] PROVE row[v].status = "PENDING"
      BY <1>0, <2>4, <3>2 DEF Launch
    <3> QED
      BY <3>1, <3>2 DEF Exists
  <2> QED
    BY <2>1, <2>2, <2>3, <2>4
    DEF CheckChild, Join, Work, Leave, AwaitOther, Expire, Cancel, Resume, Delete, DeleteList, Pass, vars
<1>3. CASE row' = row
  BY <1>1, <1>2, <1>3, NoRow
<1>4. CASE row' # row
  <2>1. \E r : /\ row' = [row EXCEPT ![w] = r]
               /\ r.parent = row[w].parent
               /\ r.status = "ABSENT" <=> row[w].status = "ABSENT"
               /\ row[w].status = "ABSENT" => r = row[w]
    <3>1. CASE Leave(e, w)
      <4>1. PICK s \in {"SUCCESS", "ERROR"} : row' = [row EXCEPT ![w] = OutcomeRow(row[w], s)]
        BY <1>0, <3>1 DEF Leave
      <4>2. row[w].status = "ABSENT" => OutcomeRow(row[w], s) = row[w]
        BY DEF OutcomeRow
      <4>3. /\ OutcomeRow(row[w], s).parent = row[w].parent
            /\ OutcomeRow(row[w], s).status = "ABSENT" <=> row[w].status = "ABSENT"
        BY <1>0, StatementsKeep
      <4> QED
        BY <4>1, <4>2, <4>3
    <3>2. CASE Expire(e, w) \/ Cancel(w)
      <4>1. row' = [row EXCEPT ![w] = CancelRow(row[w])]
        BY <1>0, <3>2 DEF Expire, Cancel
      <4>2. row[w].status = "ABSENT" => CancelRow(row[w]) = row[w]
        BY DEF CancelRow
      <4> QED
        BY <1>0, <4>1, <4>2, StatementsKeep
    <3>3. CASE Resume(w)
      <4>1. row' = [row EXCEPT ![w] = ResumeRow(row[w])]
        BY <1>0, <3>3 DEF Resume
      <4>2. row[w].status = "ABSENT" => ResumeRow(row[w]) = row[w]
        BY DEF ResumeRow
      <4> QED
        BY <1>0, <4>1, <4>2, StatementsKeep
    <3>4. CASE e \in Process /\ Dequeue(e, w)
      <4>1. row' = [row EXCEPT ![w] = Claimed(e, row[w])] /\ row[w].status = "ENQUEUED"
        BY <3>4 DEF Dequeue
      <4>2. Claimed(e, row[w]).parent = row[w].parent /\ Claimed(e, row[w]).status = "PENDING"
        BY <1>0, <3>4, StatementsKeep
      <4> QED
        BY <4>1, <4>2
    <3>5. CASE PutBack(e, w)
      <4>1. row' = [row EXCEPT ![w] = [row[w] EXCEPT !.status = "ENQUEUED"]] /\ row[w].status = "PENDING"
        BY <1>0, <1>4, <3>5 DEF PutBack
      <4>2. /\ [row[w] EXCEPT !.status = "ENQUEUED"].parent = row[w].parent
            /\ [row[w] EXCEPT !.status = "ENQUEUED"].status = "ENQUEUED"
        BY <1>0 DEF RowType
      <4> QED
        BY <4>1, <4>2
    <3> QED
      BY <1>4, <3>1, <3>2, <3>3, <3>4, <3>5
      DEF CheckChild, Join, Work, AwaitOther, Launch, Crash, Delete, DeleteList, Pass, vars
  <2>2. PICK r : /\ row' = [row EXCEPT ![w] = r]
                 /\ r.parent = row[w].parent
                 /\ r.status = "ABSENT" <=> row[w].status = "ABSENT"
                 /\ row[w].status = "ABSENT" => r = row[w]
    BY <2>1
  <2>3. KeepsRows
    BY <1>1, <1>2, <2>2, OneRow DEF Exists
  <2>4. \A v \in Id : row'[v] = IF v = w THEN r ELSE row[v]
    BY <1>0, <2>2
  <2> QED
    BY <2>2, <2>3, <2>4 DEF Exists
<1> QED
  BY <1>3, <1>4

\* The two steps that insert a row that nobody's journal has.
LEMMA RecordsStart ==
    ASSUME TypeInv, RecordInv, NEW e \in Process, NEW w \in Id, Submit(e) \/ StartListed(e, w)
    PROVE  KeepsRows
<1>0. row \in [Id -> RowType] /\ e \in Process
      /\ todo \in [Process -> SUBSET (Id \X {"start", "putBack"})]
  BY DEF TypeInv, Rows, Rest
<1>1. CASE Submit(e)
  <2> DEFINE r == NewRow(e, Root, None, Timeout)
  <2>1. r.parent = None /\ r.status # "ABSENT"
    BY DEF NewRow
  <2> HIDE DEF r
  <2>2. row' = [row EXCEPT ![Root] = r] /\ ~Exists(Root) /\ journal' = journal /\ gone' = gone
        /\ forking' = forking /\ todo' = todo
    BY <1>1 DEF Submit, r
  <2> QED
    BY <2>1, <2>2, OneRow
<1>2. CASE StartListed(e, w)
  <2> DEFINE new == [Absent EXCEPT !.status = "PENDING", !.executor = e, !.created = now]
             r   == Upserted(e, w, new)
  <2>1. new.parent = None /\ new.status = "PENDING"
    BY DEF Absent
  <2>2. new \in RowType
    BY InsertTypes DEF RowOK, TypeInv, Rest
  <2> HIDE DEF new
  <2>3. /\ Exists(w) => r.parent = row[w].parent /\ r.status = row[w].status
        /\ ~Exists(w) => r = new
    BY <2>2, UpsertKeeps
  <2> HIDE DEF r
  <2>4. row' = [row EXCEPT ![w] = r] /\ journal' = journal /\ gone' = gone /\ forking' = forking
    BY <1>2 DEF StartListed, Inserts, r, new
  <2>5. \A f \in Process, v \in Id : <<v, "start">> \in todo'[f] => <<v, "start">> \in todo[f]
    BY <1>0, <1>2 DEF StartListed
  <2>6. Exists(w) \/ w \in gone
    BY <1>2 DEF StartListed, RecordInv
  <2> QED
    BY <2>1, <2>3, <2>4, <2>5, <2>6, OneRow DEF Exists
<1> QED
  BY <1>1, <1>2

\* The id of a child ends with its step.
LEMMA ChildIds ==
    ASSUME NEW w \in Id, NEW k \in Step
    PROVE  /\ Child(w, k) # w /\ Child(w, k)[Len(Child(w, k))] = k
           /\ HasChildren(w) => Child(w, k) \in Id
           /\ Child(w, k) # Root /\ Child(w, k) # Forked
<1>1. w \in Seq(Nat) /\ k \in Nat
  BY DEF Step
<1>2. /\ Len(Append(w, k)) = Len(w) + 1 /\ Append(w, k)[Len(w) + 1] = k /\ Len(w) \in Nat
  BY <1>1
<1> QED
  BY <1>2 DEF Child

\* The insert of a child comes with its record.
LEMMA RecordsSpawn ==
    ASSUME TypeInv, RecordInv, NEW e \in Process, NEW w \in Id, Spawn(e, w)
    PROVE  RecordInv'
<1> DEFINE k == body[e][w].step
           c == Child(w, k)
           r == Upserted(e, c, NewRow(e, c, w, None))
<1>1. k \in Step /\ HasChildren(w)
  BY DEF TypeInv, Bodies, BodyOK, Spawn
<1>2. c \in Id /\ c # w /\ c[Len(c)] = k /\ c # Forked
  BY <1>1, ChildIds
<1>3. CASE Refused(w, k)
  <2>1. row' = row /\ journal' = journal /\ gone' = gone /\ forking' = forking /\ todo' = todo
    BY <1>3 DEF Spawn
  <2> QED
    BY <2>1, NoRow, RecordsKept
<1>4. CASE ~Refused(w, k)
  <2>1. /\ row' = [row EXCEPT ![c] = r] /\ journal' = [journal EXCEPT ![w][k] = c]
        /\ gone' = gone /\ forking' = forking /\ todo' = todo
        /\ Exists(w) /\ journal[w][k] = None
    BY <1>4 DEF Spawn, Refused
  <2>2. NewRow(e, c, w, None) \in RowType
    BY <1>2, InsertTypes DEF RowOK, TypeInv, Rest
  <2>3. NewRow(e, c, w, None).parent = w /\ NewRow(e, c, w, None).status # "ABSENT"
    BY DEF NewRow
  <2>4. /\ Exists(c) => r.parent = row[c].parent /\ r.status # "ABSENT"
        /\ ~Exists(c) => r.parent = w /\ r.status # "ABSENT"
    BY <1>2, <2>2, <2>3, UpsertKeeps DEF Exists
  <2> HIDE DEF r, c, k
  <2>5. \A d \in Id : row'[d] = IF d = c THEN r ELSE row[d]
    BY <2>1 DEF TypeInv, Rows
  <2>6. \A v \in Id, j \in Step : journal'[v][j] = IF v = w /\ j = k THEN c ELSE journal[v][j]
    BY <1>1, <2>1 DEF TypeInv, Rest
  <2>7. \A d \in Id : Exists(d) => row'[d].status # "ABSENT"
    BY <2>4, <2>5 DEF Exists
  <2>8. row'[c].status # "ABSENT"
    BY <1>2, <2>4, <2>5
  <2>9. \A d \in Id : row[d].parent \in Id \cup {None}
    BY DEF TypeInv, Rows, RowType
  <2>10. ASSUME NEW d \in Id, row'[d].parent # None, row'[d].parent \notin gone
         PROVE  row'[row'[d].parent].status # "ABSENT" /\ journal'[row'[d].parent][d[Len(d)]] = d
    <3>1. CASE row'[d].parent = row[d].parent
      <4>1. /\ row[d].parent \in Id /\ d[Len(d)] \in Step
            /\ Exists(row[d].parent) /\ journal[row[d].parent][d[Len(d)]] = d
        BY <2>9, <2>10, <3>1 DEF RecordInv, RecordsAgree
      <4>2. d # None
        OBVIOUS
      <4> QED
        BY <2>1, <2>6, <2>7, <3>1, <4>1, <4>2
    <3>2. CASE row'[d].parent # row[d].parent
      <4>1. d = c /\ row'[d].parent = w
        BY <2>4, <2>5, <3>2
      <4> QED
        BY <1>1, <1>2, <2>1, <2>6, <2>7, <4>1
    <3> QED
      BY <3>1, <3>2
  <2>11. ASSUME NEW v \in Id, NEW j \in Step, journal'[v][j] # None
         PROVE  row'[v].status # "ABSENT" /\ (row'[journal'[v][j]].status # "ABSENT" \/ journal'[v][j] \in gone)
    <3>1. CASE v = w /\ j = k
      BY <2>1, <2>6, <2>7, <2>8, <3>1
    <3>2. CASE ~(v = w /\ j = k)
      <4>1. journal'[v][j] = journal[v][j] /\ journal[v][j] \in Id
        BY <2>6, <2>11, <3>2 DEF TypeInv, Rest
      <4>2. Exists(v) /\ (Exists(journal[v][j]) \/ journal[v][j] \in gone)
        BY <2>11, <4>1 DEF RecordInv, RecordsAgree
      <4> QED
        BY <2>7, <4>1, <4>2
    <3> QED
      BY <3>1, <3>2
  <2>12. RecordsAgree'
    BY <2>1, <2>10, <2>11 DEF RecordsAgree, Exists
  <2>13. \A d \in Id : row'[d].parent # None => d[Len(d)] \in Step
    BY <1>1, <1>2, <2>4, <2>5 DEF RecordInv, Exists
  <2>14. \A f \in Process, v \in Id : <<v, "start">> \in todo'[f] => row'[v].status # "ABSENT" \/ v \in gone'
    BY <2>1, <2>7 DEF RecordInv
  <2>15. forking' # NoFork => row'[Forked].status = "ABSENT" /\ Forked \notin gone'
    BY <1>2, <2>1, <2>5 DEF RecordInv, Exists
  <2> QED
    BY <2>12, <2>13, <2>14, <2>15 DEF RecordInv, Exists
<1> QED
  BY <1>3, <1>4

\* Rows that go take their records with them.
LEMMA RecordsRemoved ==
    ASSUME TypeInv, RecordInv, NEW ws, ws \subseteq Id, Removed(ws),
           todo' = todo, forking' = forking
    PROVE  RecordInv'
<1>1. /\ \A w \in Id : row'[w] = IF w \in ws THEN Absent ELSE row[w]
      /\ \A w \in Id, k \in Step : journal'[w][k] = IF w \in ws THEN None ELSE journal[w][k]
      /\ \A w \in Id : w \in gone' <=> w \in gone \/ (w \in ws /\ Exists(w))
  BY DEF Removed
<1>2. Absent.status = "ABSENT" /\ Absent.parent = None
  BY DEF Absent
<1>3. \A w \in Id : row'[w].status # "ABSENT" => w \notin ws /\ row'[w] = row[w]
  BY <1>1, <1>2
<1>4. \A w \in Id : row'[w].parent # None => w \notin ws /\ row'[w] = row[w]
  BY <1>1, <1>2
<1>5. \A w \in Id : Exists(w) => row'[w].status # "ABSENT" \/ w \in gone'
  BY <1>1 DEF Exists
<1>6. ASSUME NEW c \in Id, row'[c].parent # None, row'[c].parent \notin gone'
      PROVE  row'[row'[c].parent].status # "ABSENT" /\ journal'[row'[c].parent][c[Len(c)]] = c
  <2>1. row'[c] = row[c] /\ row[c].parent \in Id /\ row[c].parent \notin gone
    BY <1>1, <1>4, <1>6 DEF TypeInv, Rows, RowType
  <2>2. Exists(row[c].parent) /\ journal[row[c].parent][c[Len(c)]] = c /\ c[Len(c)] \in Step
    BY <1>6, <2>1 DEF RecordInv, RecordsAgree
  <2>3. row[c].parent \notin ws
    BY <1>1, <1>6, <2>1, <2>2
  <2> QED
    BY <1>1, <2>1, <2>2, <2>3 DEF Exists
<1>7. ASSUME NEW w \in Id, NEW k \in Step, journal'[w][k] # None
      PROVE  row'[w].status # "ABSENT" /\ (row'[journal'[w][k]].status # "ABSENT" \/ journal'[w][k] \in gone')
  <2>1. w \notin ws /\ journal'[w][k] = journal[w][k] /\ journal[w][k] \in Id
    BY <1>1, <1>7 DEF TypeInv, Rest
  <2>2. Exists(w) /\ (Exists(journal[w][k]) \/ journal[w][k] \in gone)
    BY <1>7, <2>1 DEF RecordInv, RecordsAgree
  <2> QED
    BY <1>1, <1>5, <2>1, <2>2 DEF Exists
<1>8. RecordsAgree'
  BY <1>6, <1>7 DEF RecordsAgree, Exists
<1>9. \A c \in Id : row'[c].parent # None => c[Len(c)] \in Step
  BY <1>4 DEF RecordInv
<1>10. \A e \in Process, w \in Id : <<w, "start">> \in todo'[e] => row'[w].status # "ABSENT" \/ w \in gone'
  BY <1>1, <1>5 DEF RecordInv
<1>11. forking' # NoFork => row'[Forked].status = "ABSENT" /\ Forked \notin gone'
  BY <1>1, <1>2 DEF RecordInv, Exists
<1> QED
  BY <1>8, <1>9, <1>10, <1>11 DEF RecordInv, Exists

\* A fork has a new row, and what its original had recorded.
LEMMA RecordsFork ==
    ASSUME TypeInv, RecordInv, ForkInsert \/ \E start \in 1..(Steps + 1) : Fork(start)
    PROVE  RecordInv'
<1>1. CASE \E start \in 1..(Steps + 1) : Fork(start)
  BY <1>1 DEF Fork, RecordInv, RecordsAgree, Exists
<1>2. CASE ForkInsert
  <2>1. /\ \A w \in Id : row'[w] = IF w = Forked THEN ForkedRow ELSE row[w]
        /\ \A w \in Id : journal'[w] = IF w = Forked THEN Copied(forking) ELSE journal[w]
        /\ forking' = NoFork /\ gone' = gone /\ todo' = todo
    BY <1>2 DEF ForkInsert, TypeInv, Rows, Rest
  <2>2. ForkedRow.status = "ENQUEUED" /\ ForkedRow.parent = None
    BY DEF ForkedRow, Absent
  <2>3. ~Exists(Forked) /\ Forked \notin gone
    BY <1>2 DEF ForkInsert, RecordInv
  <2>4. \A w \in Id : Exists(w) => row'[w].status # "ABSENT"
    BY <2>1, <2>2 DEF Exists
  <2>5. \A c \in Id : row'[c].parent # None => c # Forked /\ row'[c] = row[c]
    BY <2>1, <2>2
  <2>6. ASSUME NEW c \in Id, row'[c].parent # None, row'[c].parent \notin gone
        PROVE  row'[row'[c].parent].status # "ABSENT" /\ journal'[row'[c].parent][c[Len(c)]] = c
    <3>1. row'[c] = row[c] /\ row[c].parent \in Id
      BY <2>5, <2>6 DEF TypeInv, Rows, RowType
    <3>2. Exists(row[c].parent) /\ journal[row[c].parent][c[Len(c)]] = c
      BY <2>6, <3>1 DEF RecordInv, RecordsAgree
    <3> QED
      BY <2>1, <2>3, <2>4, <3>1, <3>2
  <2>7. ASSUME NEW w \in Id, NEW k \in Step, journal'[w][k] # None
        PROVE  row'[w].status # "ABSENT" /\ (row'[journal'[w][k]].status # "ABSENT" \/ journal'[w][k] \in gone)
    <3> DEFINE v == IF w = Forked THEN Root ELSE w
    <3>0. Copied(forking)[k] # None => Copied(forking)[k] = journal[Root][k]
      BY DEF Copied
    <3>1. v \in Id /\ journal'[w][k] = journal[v][k] /\ journal[v][k] \in Id
      BY <2>1, <2>7, <3>0 DEF TypeInv, Rest
    <3>2. Exists(v) /\ (Exists(journal[v][k]) \/ journal[v][k] \in gone)
      BY <2>7, <3>1 DEF RecordInv, RecordsAgree
    <3> QED
      BY <2>1, <2>2, <2>4, <3>1, <3>2
  <2>8. RecordsAgree'
    BY <2>1, <2>6, <2>7 DEF RecordsAgree, Exists
  <2> QED
    BY <2>1, <2>4, <2>5, <2>8 DEF RecordInv, Exists
<1> QED
  BY <1>1, <1>2

\* RecordInv holds at the start.
LEMMA RecordsInit == Init => RecordInv
<1> SUFFICES ASSUME Init PROVE RecordInv
  OBVIOUS
<1>1. \A w \in Id : row[w].status = "ABSENT" /\ row[w].parent = None
  BY DEF Init, Absent
<1>2. \A w \in Id, k \in Step : journal[w][k] = None
  BY DEF Init
<1>3. RecordsAgree
  BY <1>1, <1>2 DEF RecordsAgree
<1> QED
  BY <1>1, <1>3 DEF RecordInv, Init, NoFork

\* Every step keeps rows and records in agreement.
LEMMA RecordsNext == TypeInv /\ RecordInv /\ [Next]_vars => RecordInv'
<1> SUFFICES ASSUME TypeInv, RecordInv, [Next]_vars PROVE RecordInv'
  OBVIOUS
<1>1. ASSUME NEW e \in Process, NEW w \in Id,
             CheckChild(e, w) \/ Join(e, w) \/ Work(e, w) \/ Leave(e, w) \/ AwaitOther(e, w)
             \/ Expire(e, w) \/ Dequeue(e, w) \/ PutBack(e, w)
             \/ StartListed(e, w)
      PROVE  RecordInv'
  BY <1>1, RecordsBody, RecordsStart, RecordsKept
<1>2. ASSUME NEW e \in Process, Launch(e) \/ Crash(e) \/ Submit(e)
      PROVE  RecordInv'
  BY <1>2, RecordsBody, RecordsStart, RecordsKept
<1>3. ASSUME NEW w \in Id, Cancel(w) \/ Resume(w) \/ Delete(w)
      PROVE  RecordInv'
  BY <1>3, RecordsBody, RecordsKept
<1>4. ASSUME DeleteList \/ Pass \/ UNCHANGED vars PROVE RecordInv'
  BY <1>4, RecordsBody, RecordsKept
<1>5. ASSUME DeleteNext PROVE RecordInv'
  <2>1. todo' = todo /\ forking' = forking
    BY <1>5 DEF DeleteNext
  <2>2. CASE deleter.found = << >>
    <3>1. KeepsRows
      BY <1>5, <2>1, <2>2, NoRow DEF DeleteNext
    <3> QED
      BY <3>1, RecordsKept
  <2>3. CASE deleter.found # << >>
    <3>1. deleter.found \in Seq(Id)
      BY DEF TypeInv, Rest
    <3>2. {Head(deleter.found)} \subseteq Id
      BY <2>3, <3>1
    <3> QED
      BY <1>5, <2>1, <2>3, <3>2, RecordsRemoved DEF DeleteNext
  <2> QED
    BY <2>2, <2>3
<1>6. ASSUME NEW cutoff, CollectBefore(cutoff) PROVE RecordInv'
  BY <1>6, RecordsRemoved DEF CollectBefore, Terminal
<1>7. ASSUME NEW threshold, CollectBeyond(threshold) PROVE RecordInv'
  BY <1>7, RecordsRemoved DEF CollectBeyond, Terminal
<1> QED
  BY <1>1, <1>2, <1>3, <1>4, <1>5, <1>6, <1>7, RecordsSpawn, RecordsFork
  DEF Next, ProcessStep, BodyStep, Environment

\* Rows and journals agree at all times, however bodies, dequeues, recoveries,
\* forks, deletes and collections interleave.
THEOREM RecordsAgreement == Spec => []RecordsAgree
<1>1. RecordInv => RecordsAgree
  BY DEF RecordInv
<1> QED
  BY <1>1, TypedInit, TypedNext, RecordsInit, RecordsNext, PTL DEF Spec

------------------------------------------------------------------------------
(* What was taken away.                                                    *)

\* A row comes back with a process that is up, and had it listed, or whose body
\* spawns it for a parent that is there.
ComesBack(w) ==
    \/ row'[w].parent = None /\ \E e \in up : <<w, "start">> \in todo[e]
    \/ \E p \in Id : /\ row'[w].parent = p /\ Exists(p)
                     /\ \E e \in up : body[e][p].pc = "spawn" /\ w = Child(p, body[e][p].step)

\* Most steps bring nothing back, and a submission only what was never there.
LEMMA StaysAway ==
    ASSUME TypeInv, RecordInv, NEW w \in gone, ~Exists(w), row'[w].status # "ABSENT", [Next]_vars
    PROVE  \E e \in Process, v \in Id : StartListed(e, v) \/ Spawn(e, v)
<1>0. w \in Id
  BY DEF TypeInv, Rest
<1>1. row'[w] # row[w]
  BY DEF Exists
<1>2. ASSUME NEW e \in Process, NEW v \in Id,
             CheckChild(e, v) \/ Join(e, v) \/ Work(e, v) \/ Leave(e, v) \/ AwaitOther(e, v)
             \/ Expire(e, v) \/ Dequeue(e, v) \/ PutBack(e, v) \/ Launch(e) \/ Crash(e)
      PROVE  FALSE
  BY <1>0, <1>1, <1>2, RecordsBody
<1>3. ASSUME NEW v \in Id, Cancel(v) \/ Resume(v) \/ Delete(v) PROVE FALSE
  BY <1>0, <1>1, <1>3, RecordsBody
<1>4. ASSUME DeleteList \/ Pass \/ UNCHANGED vars PROVE FALSE
  BY <1>0, <1>1, <1>4, RecordsBody
<1>5. ASSUME NEW e \in Process, Submit(e) PROVE FALSE
  BY <1>0, <1>1, <1>5 DEF Submit, TypeInv, Rows
<1>6. ASSUME NEW ws, Removed(ws) PROVE FALSE
  BY <1>0, <1>1, <1>6 DEF Removed, Absent
<1>7. ASSUME DeleteNext \/ (\E n : CollectBefore(n)) \/ (\E n : CollectBeyond(n)) PROVE FALSE
  BY <1>1, <1>6, <1>7 DEF DeleteNext, CollectBefore, CollectBeyond
<1>8. ASSUME ForkInsert \/ (\E start : Fork(start)) PROVE FALSE
  BY <1>0, <1>1, <1>8 DEF ForkInsert, Fork, RecordInv, TypeInv, Rows
<1> QED
  BY <1>2, <1>3, <1>4, <1>5, <1>7, <1>8 DEF Next, ProcessStep, BodyStep, Environment

\* A workflow that is gone has a row again only if something brings it back.
LEMMA GoneStep ==
    ASSUME TypeInv, RecordInv, NEW w \in gone, ~Exists(w), row'[w].status # "ABSENT", [Next]_vars
    PROVE  ComesBack(w)
<1>0. w \in Id /\ row \in [Id -> RowType]
  BY DEF TypeInv, Rest, Rows
<1>1. PICK e \in Process, v \in Id : StartListed(e, v) \/ Spawn(e, v)
  BY StaysAway
<1>2. CASE StartListed(e, v)
  <2> DEFINE new == [Absent EXCEPT !.status = "PENDING", !.executor = e, !.created = now]
  <2>1. new.parent = None
    BY DEF Absent
  <2>2. new \in RowType
    BY InsertTypes DEF RowOK, TypeInv, Rest
  <2> HIDE DEF new
  <2>3. row' = [row EXCEPT ![v] = Upserted(e, v, new)] /\ <<v, "start">> \in todo[e]
    BY <1>2 DEF StartListed, Inserts, new
  <2>4. w = v
    BY <1>0, <2>3 DEF Exists
  <2>5. row'[w] = new
    BY <1>0, <2>2, <2>3, <2>4, UpsertKeeps
  <2>6. e \in up
    BY <2>3 DEF TypeInv, Down
  <2> QED
    BY <2>1, <2>3, <2>4, <2>5, <2>6 DEF ComesBack
<1>3. CASE Spawn(e, v)
  <2> DEFINE k == body[e][v].step
             c == Child(v, k)
             new == NewRow(e, c, v, None)
  <2>1. k \in Step /\ HasChildren(v) /\ body[e][v].pc = "spawn"
    BY <1>3 DEF TypeInv, Bodies, BodyOK, Spawn
  <2>2. c \in Id
    BY <2>1, ChildIds
  <2>3. new \in RowType /\ new.parent = v
    <3>1. new \in RowType
      BY <2>2, InsertTypes DEF RowOK, TypeInv, Rest
    <3> QED
      BY <3>1 DEF NewRow
  <2>4. row' # row
    BY DEF Exists
  <2>5. row' = [row EXCEPT ![c] = Upserted(e, c, new)] /\ Exists(v)
    BY <1>3, <2>4 DEF Spawn, Refused
  <2> HIDE DEF new, c
  <2>6. w = c
    BY <1>0, <2>5 DEF Exists
  <2>7. row'[w] = new
    BY <1>0, <2>2, <2>3, <2>5, <2>6, UpsertKeeps
  <2>8. e \in up
    <3>1. body[e][v] # Free
      BY <2>1 DEF Free
    <3> QED
      BY <3>1 DEF TypeInv, Down
  <2> QED
    BY <2>1, <2>3, <2>5, <2>6, <2>7, <2>8 DEF ComesBack, c
<1> QED
  BY <1>1, <1>2, <1>3

\* A workflow that was deleted or collected comes back only in the hands of a
\* process that had read it before, and with no memory of its parent, or as the
\* child of a parent that is there.
THEOREM NothingReturnsByItself == Spec => GoneForGood
<1>1. ASSUME TypeInv, RecordInv, [Next]_vars
      PROVE  \A w \in gone : ~Exists(w) /\ row'[w].status # "ABSENT" => ComesBack(w)
  BY <1>1, GoneStep
<1>2. TypeInv /\ RecordInv /\ [Next]_vars =>
        [\A w \in gone : ~Exists(w) /\ row'[w].status # "ABSENT" =>
          \/ row'[w].parent = None /\ \E e \in up : <<w, "start">> \in todo[e]
          \/ \E p \in Id : /\ row'[w].parent = p /\ Exists(p)
                           /\ \E e \in up : body[e][p].pc = "spawn" /\ w = Child(p, body[e][p].step)]_vars
  BY <1>1 DEF ComesBack
<1> QED
  BY <1>2, TypedInit, TypedNext, RecordsInit, RecordsNext, PTL DEF Spec, GoneForGood

------------------------------------------------------------------------------
(* Parents and children.                                                   *)

IsChild(c) == \E w \in Id, k \in Step : c = Child(w, k)

\* Nobody has cancelled a workflow.
Calm == happened["cancel"] = 0

\* What is recorded are children.
JournalKids == \A w \in Id, k \in Step : journal[w][k] # None => IsChild(journal[w][k])

\* Only the root has a timeout.
Untimed == \A w \in Id \ {Root} : /\ row[w].timeout = None /\ row[w].deadline = None
                                  /\ \A e \in Process : body[e][w].deadline = None

\* A body runs for a row that is there or was; it has children or work; and it
\* joins what is recorded.
Present == \A e \in Process, w \in Id : body[e][w].pc # "free" => Exists(w) \/ w \in gone
Working == \A e \in Process, w \in Id : body[e][w].pc = "work" => ~HasChildren(w)
Joined  == \A e \in Process, w \in Id :
              body[e][w].pc = "join" /\ w \notin gone => body[e][w].child = journal[w][body[e][w].step]

\* Without a cancellation only the root is cancelled, by its watcher, and no
\* child fails that was never taken away.
Unhurt == Calm =>
    /\ \A w \in Id \ {Root} : row[w].status # "CANCELLED"
    /\ \A w \in Id \ gone : IsChild(w) => /\ row[w].status # "ERROR"
                                          /\ \A e \in Process : body[e][w].pc # "error"

\* The steps that a body has behind it, and those of a workflow that succeeded.
Progress == Calm => \A e \in Process, w \in Id \ gone :
    /\ body[e][w].pc \in {"check", "spawn", "join"} =>
          \A k \in Step : k < body[e][w].step => Done(w, k)
    /\ body[e][w].pc = "ok" /\ HasChildren(w) => \A k \in Step : Done(w, k)
Succeeded == Calm => \A w \in Id \ gone :
    row[w].status = "SUCCESS" /\ HasChildren(w) => \A k \in Step : Done(w, k)

SuccessInv ==
    JournalKids /\ Untimed /\ Present /\ Working /\ Joined /\ Unhurt /\ Progress /\ Succeeded

\* What a step may do to a row.
RowMoves == \A w \in Id :
    /\ row[w].status # "ABSENT" => row'[w].status # "ABSENT" \/ w \in gone'
    /\ w # Root => row'[w].timeout = None /\ row'[w].deadline = None
    /\ Calm' /\ w # Root => row'[w].status # "CANCELLED"
    /\ row'[w].status = "ERROR" => row[w].status = "ERROR" \/ \E e \in Process : body[e][w].pc = "error"
    /\ row'[w].status = "SUCCESS" => row[w].status = "SUCCESS" \/ \E e \in Process : body[e][w].pc = "ok"
    /\ row[w].status = "SUCCESS" =>
          \/ row'[w].status = "SUCCESS" \/ w \in gone'
          \/ \E e \in Process : body[e][w].pc = "error"

\* What a step may do to a journal, and to the past.
JournalMoves ==
    /\ \A w \in Id, k \in Step :
          /\ journal[w][k] # None => journal'[w][k] = journal[w][k] \/ w \in gone'
          /\ journal'[w][k] # None => IsChild(journal'[w][k])
    /\ gone \subseteq gone'
    /\ Calm' => Calm

\* A body that goes on after a join has a child that has succeeded, if it is
\* still there.
Answered(e, w) ==
    Calm' /\ w \notin gone => body[e][w].child \in gone \/ row'[body[e][w].child].status = "SUCCESS"

\* What a step may do to a body.
BodyMove(e, w) ==
    LET b  == body[e][w]
        b2 == body'[e][w]
    IN  /\ b2.pc # "free" => b.pc # "free" \/ row'[w].status # "ABSENT"
        /\ w # Root /\ b.deadline = None => b2.deadline = None
        /\ b2.pc = "work" => b.pc = "work" \/ ~HasChildren(w)
        /\ b2.pc = "error" => \/ b.pc = "error" \/ HasChildren(w)
                              \/ b.pc = "work" /\ row[w].status \in {"ABSENT", "CANCELLED"}
        /\ b2.pc \in {"check", "spawn", "join"} =>
              \/ b2.step = 1
              \/ /\ b.pc \in {"check", "spawn", "join"}
                 /\ \/ b2.step = b.step
                    \/ b2.step = b.step + 1 /\ b.pc = "join" /\ Answered(e, w)
        /\ b2.pc = "ok" =>
              \/ b.pc \in {"ok", "work"}
              \/ b.pc = "join" /\ b.step = Steps /\ Answered(e, w)
        /\ b2.pc = "join" =>
              \/ b.pc = "join" /\ b2.child = b.child /\ b2.step = b.step
              \/ b2.child = journal'[w][b2.step]

Moves == RowMoves /\ JournalMoves /\ \A e \in Process, w \in Id : BodyMove(e, w)

\* Children have no children: the trees have two levels.
Flat == \A w \in Id, k, j \in Step : Child(Child(w, k), j) \notin Id

\* A child has no step of its own, and is not the root or the fork.
LEMMA Leaf ==
    ASSUME Flat, NEW c \in Id, IsChild(c)
    PROVE  ~HasChildren(c) /\ c # Root /\ c # Forked
<1>1. PICK w \in Id, k \in Step : c = Child(w, k)
  BY DEF IsChild
<1>2. 1 \in Step
  BY DEF Step
<1> QED
  BY <1>1, <1>2, ChildIds DEF Flat, HasChildren

\* What is done stays done.
LEMMA DoneKept ==
    ASSUME TypeInv, SuccessInv, Moves, Calm', NEW w \in Id, w \notin gone', NEW k \in Step, Done(w, k)
    PROVE  Done(w, k)'
<1>1. journal[w][k] # None /\ journal'[w][k] = journal[w][k] /\ journal[w][k] \in Id
  BY DEF Moves, JournalMoves, Done, TypeInv, Rest
<1>2. CASE journal[w][k] \in gone
  BY <1>1, <1>2 DEF Done, Moves, JournalMoves
<1>3. CASE journal[w][k] \notin gone
  <2>1. row[journal[w][k]].status = "SUCCESS" /\ IsChild(journal[w][k])
    BY <1>1, <1>3 DEF Done, SuccessInv, JournalKids
  <2>2. \A e \in Process : body[e][journal[w][k]].pc # "error"
    BY <1>1, <1>3, <2>1 DEF SuccessInv, Unhurt, Moves, JournalMoves
  <2>3. row'[journal[w][k]].status = "SUCCESS" \/ journal[w][k] \in gone'
    BY <1>1, <2>1, <2>2 DEF Moves, RowMoves
  <2> QED
    BY <1>1, <2>3 DEF Done
<1> QED
  BY <1>2, <1>3

\* A child that a body has joined is done when it has answered.
LEMMA JoinDone ==
    ASSUME TypeInv, SuccessInv, Moves, Calm', NEW e \in Process, NEW w \in Id, w \notin gone',
           body[e][w].pc = "join", Answered(e, w), NEW s \in Step, s = body[e][w].step
    PROVE  Done(w, s)'
<1>1. body[e][w].child # None
  BY DEF TypeInv, Bodies, BodyOK
<1>2. w \notin gone /\ gone \subseteq gone'
  BY DEF Moves, JournalMoves
<1>3. body[e][w].child = journal[w][s]
  BY <1>2 DEF SuccessInv, Joined
<1>4. journal'[w][s] = journal[w][s]
  BY <1>1, <1>3 DEF Moves, JournalMoves
<1>5. journal[w][s] \in gone \/ row'[journal[w][s]].status = "SUCCESS"
  BY <1>2, <1>3 DEF Answered
<1>6. journal'[w][s] # None /\ (journal'[w][s] \in gone' \/ row'[journal'[w][s]].status = "SUCCESS")
  BY <1>1, <1>2, <1>3, <1>4, <1>5
<1> QED
  BY <1>6 DEF Done

\* Such steps keep the promise.
LEMMA SuccessKept ==
    ASSUME Flat, TypeInv, SuccessInv, Moves
    PROVE  SuccessInv'
<1>0. gone \subseteq gone' /\ (Calm' => Calm)
  BY DEF Moves, JournalMoves
<1>1. JournalKids'
  BY DEF Moves, JournalMoves, JournalKids
<1>2. Untimed'
  BY DEF Moves, RowMoves, BodyMove, SuccessInv, Untimed
<1>3. Present'
  <2>1. ASSUME NEW e \in Process, NEW w \in Id, body'[e][w].pc # "free"
        PROVE  row'[w].status # "ABSENT" \/ w \in gone'
    <3>1. body[e][w].pc # "free" \/ row'[w].status # "ABSENT"
      BY <2>1 DEF Moves, BodyMove
    <3>2. body[e][w].pc # "free" => row[w].status # "ABSENT" \/ w \in gone
      BY DEF SuccessInv, Present, Exists
    <3>3. row[w].status # "ABSENT" => row'[w].status # "ABSENT" \/ w \in gone'
      BY DEF Moves, RowMoves
    <3> QED
      BY <1>0, <3>1, <3>2, <3>3
  <2> QED
    BY <2>1 DEF Present, Exists
<1>4. Working'
  BY DEF Moves, BodyMove, SuccessInv, Working
<1>5. Joined'
  <2>1. ASSUME NEW e \in Process, NEW w \in Id, body'[e][w].pc = "join", w \notin gone'
        PROVE  body'[e][w].child = journal'[w][body'[e][w].step]
    <3>1. CASE body[e][w].pc = "join" /\ body'[e][w].child = body[e][w].child
               /\ body'[e][w].step = body[e][w].step
      <4>1. body[e][w].child = journal[w][body[e][w].step]
        BY <1>0, <2>1, <3>1 DEF SuccessInv, Joined
      <4>2. body[e][w].child # None /\ body[e][w].step \in Step
        BY <3>1 DEF TypeInv, Bodies, BodyOK
      <4>3. journal'[w][body[e][w].step] = journal[w][body[e][w].step]
        BY <2>1, <4>1, <4>2 DEF Moves, JournalMoves
      <4> QED
        BY <3>1, <4>1, <4>3
    <3> QED
      BY <2>1, <3>1 DEF Moves, BodyMove
  <2> QED
    BY <2>1 DEF Joined
<1>6. Unhurt'
  <2>1. ASSUME Calm', NEW w \in Id, w \notin gone', IsChild(w)
        PROVE  row'[w].status # "ERROR" /\ \A e \in Process : body'[e][w].pc # "error"
    <3>1. ~HasChildren(w) /\ w # Root /\ w \notin gone
      BY <1>0, <2>1, Leaf
    <3>2. row[w].status \notin {"ERROR", "CANCELLED"} /\ \A e \in Process : body[e][w].pc # "error"
      BY <1>0, <2>1, <3>1 DEF SuccessInv, Unhurt
    <3>3. row'[w].status # "ERROR"
      BY <3>2 DEF Moves, RowMoves
    <3>4. ASSUME NEW e \in Process, body'[e][w].pc = "error" PROVE FALSE
      <4>1. body[e][w].pc = "work" /\ row[w].status = "ABSENT"
        BY <3>1, <3>2, <3>4 DEF Moves, BodyMove
      <4> QED
        BY <3>1, <4>1 DEF SuccessInv, Present, Exists
    <3> QED
      BY <3>3, <3>4
  <2>2. ASSUME Calm', NEW w \in Id \ {Root} PROVE row'[w].status # "CANCELLED"
    BY <2>2 DEF Moves, RowMoves
  <2> QED
    BY <2>1, <2>2 DEF Unhurt
<1>7. Progress'
  <2>1. ASSUME Calm', NEW e \in Process, NEW w \in Id, w \notin gone',
               body'[e][w].pc \in {"check", "spawn", "join"}, NEW k \in Step, k < body'[e][w].step
        PROVE  Done(w, k)'
    <3> DEFINE s == body[e][w].step
    <3>1. PICK b2 : b2 = body'[e][w]
      OBVIOUS
    <3>2. \/ b2.step = 1
          \/ /\ body[e][w].pc \in {"check", "spawn", "join"}
             /\ b2.step = s \/ (b2.step = s + 1 /\ body[e][w].pc = "join" /\ Answered(e, w))
      BY <2>1, <3>1 DEF Moves, BodyMove
    <3>3. b2.step # 1
      BY <2>1, <3>1 DEF Step
    <3>4. s \in Step
      BY <3>2, <3>3 DEF TypeInv, Bodies, BodyOK
    <3>5. k < s => Done(w, k)
      BY <1>0, <2>1, <3>2, <3>3 DEF SuccessInv, Progress
    <3>6. k < s => Done(w, k)'
      BY <2>1, <3>5, DoneKept
    <3>7. CASE k = s
      <4>1. b2.step # s
        BY <2>1, <3>1, <3>4, <3>7 DEF Step
      <4> QED
        BY <2>1, <3>2, <3>3, <3>7, <4>1, JoinDone
    <3>8. k < s \/ k = s
      <4>1. k \in Nat /\ s \in Nat
        BY <3>4 DEF Step
      <4>2. b2.step = s \/ b2.step = s + 1
        BY <3>2, <3>3
      <4>3. k < b2.step
        BY <2>1, <3>1
      <4> HIDE DEF s
      <4> QED
        BY <4>1, <4>2, <4>3
    <3> QED
      BY <3>6, <3>7, <3>8
  <2>2. ASSUME Calm', NEW e \in Process, NEW w \in Id, w \notin gone',
               body'[e][w].pc = "ok", HasChildren(w), NEW k \in Step
        PROVE  Done(w, k)'
    <3>1. \/ body[e][w].pc = "ok"
          \/ body[e][w].pc = "join" /\ body[e][w].step = Steps /\ Answered(e, w)
      BY <2>2 DEF Moves, BodyMove, SuccessInv, Working
    <3>2. CASE body[e][w].pc = "ok"
      <4>1. Done(w, k)
        BY <1>0, <2>2, <3>2 DEF SuccessInv, Progress
      <4> QED
        BY <2>2, <4>1, DoneKept
    <3>3. CASE body[e][w].pc = "join" /\ body[e][w].step = Steps /\ Answered(e, w)
      <4>1. k = Steps \/ k < Steps
        BY DEF Step
      <4>2. CASE k = Steps
        BY <2>2, <3>3, <4>2, JoinDone
      <4>3. CASE k < Steps
        <5>1. Done(w, k)
          BY <1>0, <2>2, <3>3, <4>3 DEF SuccessInv, Progress
        <5> QED
          BY <2>2, <5>1, DoneKept
      <4> QED
        BY <4>1, <4>2, <4>3
    <3> QED
      BY <3>1, <3>2, <3>3
  <2> QED
    BY <2>1, <2>2 DEF Progress
<1>8. Succeeded'
  <2>1. ASSUME Calm', NEW w \in Id, w \notin gone', row'[w].status = "SUCCESS", HasChildren(w),
               NEW k \in Step
        PROVE  Done(w, k)'
    <3>1. row[w].status = "SUCCESS" \/ \E e \in Process : body[e][w].pc = "ok"
      BY <2>1 DEF Moves, RowMoves
    <3>2. Done(w, k)
      BY <1>0, <2>1, <3>1 DEF SuccessInv, Progress, Succeeded
    <3> QED
      BY <2>1, <3>2, DoneKept
  <2> QED
    BY <2>1 DEF Succeeded
<1> QED
  BY <1>1, <1>2, <1>3, <1>4, <1>5, <1>6, <1>7, <1>8 DEF SuccessInv

\* A cancellation is not undone.
LEMMA CalmBefore ==
    ASSUME TypeInv, happened' = happened \/ \E h \in Happenings : Happens(h)
    PROVE  Calm' => Calm
<1>1. CASE happened' = happened
  BY <1>1 DEF Calm
<1>2. ASSUME NEW h \in Happenings, Happens(h) PROVE Calm' => Calm
  <2>1. happened \in [Happenings -> Nat] /\ "cancel" \in Happenings
    BY DEF TypeInv, Rest, Happenings
  <2>2. happened["cancel"] \in Nat /\ happened[h] \in Nat
    BY <2>1
  <2>3. happened'["cancel"] = happened["cancel"] \/ happened'["cancel"] = happened["cancel"] + 1
    BY <1>2, <2>1 DEF Happens
  <2> QED
    BY <2>2, <2>3 DEF Calm
<1> QED
  BY <1>1, <1>2

\* Nothing is recorded.
LEMMA JournalStays ==
    ASSUME SuccessInv, journal' = journal, gone' = gone, Calm' => Calm
    PROVE  JournalMoves
  BY DEF SuccessInv, JournalKids, JournalMoves

\* No row changes, or one.
LEMMA RowStays ==
    ASSUME SuccessInv, row' = row, Calm' => Calm
    PROVE  RowMoves
  BY DEF RowMoves, SuccessInv, Untimed, Unhurt

\* A step that changes one row, in one of the ways it may, is one of RowMoves.
LEMMA OneRowMoves ==
    ASSUME TypeInv, SuccessInv, Calm' => Calm, NEW w \in Id, NEW r, row' = [row EXCEPT ![w] = r],
           Exists(w) => r.status # "ABSENT",
           w # Root => r.timeout = None /\ r.deadline = None,
           Calm' /\ w # Root => r.status # "CANCELLED",
           r.status = "ERROR" => row[w].status = "ERROR" \/ \E e \in Process : body[e][w].pc = "error",
           r.status = "SUCCESS" => row[w].status = "SUCCESS" \/ \E e \in Process : body[e][w].pc = "ok",
           row[w].status = "SUCCESS" => r.status = "SUCCESS" \/ \E e \in Process : body[e][w].pc = "error"
    PROVE  RowMoves
<1>1. \A v \in Id : row'[v] = IF v = w THEN r ELSE row[v]
  BY DEF TypeInv, Rows
<1>2. ASSUME NEW v \in Id, v # w
      PROVE  /\ row'[v] = row[v]
             /\ v # Root => row[v].timeout = None /\ row[v].deadline = None
             /\ Calm' /\ v # Root => row[v].status # "CANCELLED"
  BY <1>1, <1>2 DEF SuccessInv, Untimed, Unhurt
<1> QED
  BY <1>1, <1>2 DEF RowMoves, Exists

\* The ways of a body.
LEMMA BodyStays ==
    ASSUME NEW e, NEW w, body'[e][w] = body[e][w]
    PROVE  BodyMove(e, w)
  BY DEF BodyMove

\* A body that is freed,
LEMMA BodyFreed ==
    ASSUME NEW e, NEW w, body'[e][w] = Free
    PROVE  BodyMove(e, w)
  BY DEF BodyMove, Free

\* one that begins
LEMMA BodyBegins ==
    ASSUME NEW e, NEW w, NEW d, body'[e][w] = Begun(w, d), w # Root => d = None,
           row'[w].status # "ABSENT"
    PROVE  BodyMove(e, w)
<1>1. /\ Begun(w, d).pc = IF HasChildren(w) THEN "check" ELSE "work"
      /\ Begun(w, d).step = 1 /\ Begun(w, d).deadline = d
  BY DEF Begun, Free
<1> QED
  BY <1>1 DEF BodyMove

\* and one whose join is answered move in a way a body may.
LEMMA BodyAnswered ==
    ASSUME TypeInv, NEW e \in Process, NEW w \in Id, NEW ok \in BOOLEAN, body[e][w].pc = "join",
           body'[e][w] = After(body[e][w], ok), ok => Answered(e, w)
    PROVE  BodyMove(e, w)
<1>0. PICK b : b = body[e][w]
  OBVIOUS
<1>1. b \in BodyType /\ HasChildren(w)
  BY <1>0 DEF TypeInv, Bodies, BodyOK
<1>2. /\ ~ok => After(b, ok).pc = "error"
      /\ ok /\ b.step = Steps => After(b, ok).pc = "ok"
      /\ ok /\ b.step # Steps => After(b, ok).pc = "check" /\ After(b, ok).step = b.step + 1
      /\ After(b, ok).deadline = b.deadline
  BY <1>1 DEF After, BodyType
<1> QED
  BY <1>0, <1>1, <1>2 DEF BodyMove

\* A body that starts.
LEMMA MovesStart ==
    ASSUME TypeInv, RecordInv, SuccessInv, NEW e \in Process, NEW w \in Id, Submit(e) \/ StartListed(e, w)
    PROVE  Moves
<1>0. /\ row \in [Id -> RowType] /\ body \in [Process -> [Id -> BodyType]] /\ Root \in Id
  BY DEF TypeInv, Rows, Bodies
<1>1. Calm' => Calm
  BY CalmBefore DEF Submit, StartListed
<1>2. JournalMoves
  BY <1>1, JournalStays DEF Submit, StartListed
<1> DEFINE Started(v, r) ==
             /\ row' = [row EXCEPT ![v] = r]
             /\ body' = body \/ body' = [body EXCEPT ![e][v] = Begun(v, row'[v].deadline)]
             /\ Exists(v) => r.status = row[v].status
             /\ ~Exists(v) => r.status \in {"PENDING", "ENQUEUED"}
             /\ v # Root => r.timeout = None /\ r.deadline = None
<1>3. \E v \in Id : \E r : Started(v, r)
  <2>1. CASE Submit(e)
    <3>1. NewRow(e, Root, None, Timeout).status \in {"PENDING", "ENQUEUED"}
      BY DEF NewRow
    <3> QED
      BY <1>0, <2>1, <3>1 DEF Submit
  <2>2. CASE StartListed(e, w)
    <3> DEFINE new == [Absent EXCEPT !.status = "PENDING", !.executor = e, !.created = now]
               r   == Upserted(e, w, new)
    <3>1. new.timeout = None /\ new.deadline = None /\ new.status = "PENDING"
      BY DEF Absent
    <3>2. new \in RowType
      BY InsertTypes DEF RowOK, TypeInv, Rest
    <3> HIDE DEF new
    <3>3. /\ Exists(w) => /\ r.status = row[w].status /\ r.timeout = row[w].timeout
                          /\ r.deadline = row[w].deadline
          /\ ~Exists(w) => r = new
      BY <3>2, UpsertKeeps
    <3>4. w # Root => r.timeout = None /\ r.deadline = None
      BY <3>1, <3>3 DEF SuccessInv, Untimed
    <3> HIDE DEF r
    <3>5. row' = [row EXCEPT ![w] = r]
      BY <2>2 DEF StartListed, Inserts, r, new
    <3>6. body' = body \/ body' = [body EXCEPT ![e][w] = Begun(w, row'[w].deadline)]
      BY <2>2 DEF StartListed
    <3> QED
      BY <3>1, <3>3, <3>4, <3>5, <3>6
  <2> QED
    BY <2>1, <2>2
<1>4. PICK v \in Id : \E r : Started(v, r)
  BY <1>3
<1>5. PICK r : Started(v, r)
  BY <1>4
<1>6. row'[v] = r /\ r.status # "ABSENT"
  BY <1>0, <1>5 DEF Exists
<1>7. RowMoves
  <2>1. Calm' /\ v # Root => r.status # "CANCELLED"
    BY <1>1, <1>5 DEF SuccessInv, Unhurt
  <2>2. /\ r.status = "ERROR" => row[v].status = "ERROR"
        /\ r.status = "SUCCESS" <=> row[v].status = "SUCCESS"
    BY <1>5 DEF Exists
  <2> QED
    BY <1>1, <1>5, <1>6, <2>1, <2>2, OneRowMoves
<1>8. ASSUME NEW f \in Process, NEW u \in Id PROVE BodyMove(f, u)
  <2>1. CASE f = e /\ u = v /\ body' # body
    <3>1. body'[f][u] = Begun(u, r.deadline)
      BY <1>0, <1>5, <1>6, <2>1
    <3> QED
      BY <1>5, <1>6, <2>1, <3>1, BodyBegins
  <2>2. CASE ~(f = e /\ u = v) \/ body' = body
    <3>1. body'[f][u] = body[f][u]
      BY <1>0, <1>5, <2>2
    <3> QED
      BY <3>1, BodyStays
  <2> QED
    BY <2>1, <2>2
<1> QED
  BY <1>2, <1>7, <1>8 DEF Moves

\* A body that spawns.
LEMMA MovesSpawn ==
    ASSUME TypeInv, RecordInv, SuccessInv, NEW e \in Process, NEW w \in Id, Spawn(e, w)
    PROVE  Moves
<1> DEFINE k == body[e][w].step
           c == Child(w, k)
           new == NewRow(e, c, w, None)
           r == Upserted(e, c, new)
<1>0. row \in [Id -> RowType] /\ body \in [Process -> [Id -> BodyType]] /\ body[e][w] \in BodyType
  BY DEF TypeInv, Rows, Bodies
<1>1. Calm' => Calm
  BY CalmBefore DEF Spawn
<1>2. k \in Step /\ HasChildren(w) /\ body[e][w].pc = "spawn"
  BY DEF TypeInv, Bodies, BodyOK, Spawn
<1>3. c \in Id /\ c # w /\ c # Root
  BY <1>2, ChildIds
<1>4. CASE Refused(w, k)
  <2>1. row' = row /\ journal' = journal /\ gone' = gone
    BY <1>4 DEF Spawn
  <2>2. PICK pc \in {"await", "error"} : body' = [body EXCEPT ![e][w].pc = pc]
    BY <1>4 DEF Spawn, Goto
  <2>3. ASSUME NEW f \in Process, NEW u \in Id PROVE BodyMove(f, u)
    <3>1. CASE f = e /\ u = w
      <4>1. body'[f][u] = [body[e][w] EXCEPT !.pc = pc]
        BY <1>0, <2>2, <3>1
      <4>2. body'[f][u].pc = pc /\ body'[f][u].deadline = body[e][w].deadline
        BY <1>0, <4>1 DEF BodyType
      <4> QED
        BY <1>2, <3>1, <4>2 DEF BodyMove
    <3>2. CASE ~(f = e /\ u = w)
      <4>1. body'[f][u] = body[f][u]
        BY <1>0, <2>2, <3>2
      <4> QED
        BY <4>1, BodyStays
    <3> QED
      BY <3>1, <3>2
  <2> QED
    BY <1>1, <2>1, <2>3, JournalStays, RowStays DEF Moves
<1>5. CASE ~Refused(w, k)
  <2> DEFINE local == ~Exists(c) /\ c \notin Queued /\ ~Running(e, c)
  <2>1. /\ row' = [row EXCEPT ![c] = r] /\ journal' = [journal EXCEPT ![w][k] = c]
        /\ gone' = gone /\ journal[w][k] = None
        /\ body' = [body EXCEPT ![e][w] = [@ EXCEPT !.pc = "join", !.child = c, !.channel = local],
                                ![e][c] = IF local THEN Begun(c, None) ELSE @]
    BY <1>5 DEF Spawn, Refused
  <2>2. new \in RowType
    BY <1>3, InsertTypes DEF RowOK, TypeInv, Rest
  <2>3. /\ new.timeout = None /\ new.deadline = None /\ new.status \in {"PENDING", "ENQUEUED"}
    BY DEF NewRow
  <2> HIDE DEF new
  <2>4. /\ Exists(c) => r.status = row[c].status /\ r.timeout = row[c].timeout /\ r.deadline = row[c].deadline
        /\ ~Exists(c) => r = new
    BY <1>3, <2>2, UpsertKeeps
  <2>5. r.timeout = None /\ r.deadline = None /\ (Calm' => r.status # "CANCELLED") /\ r.status # "ABSENT"
    BY <1>1, <1>3, <2>3, <2>4 DEF SuccessInv, Untimed, Unhurt, Exists
  <2>6. /\ r.status = "ERROR" => row[c].status = "ERROR"
        /\ r.status = "SUCCESS" <=> row[c].status = "SUCCESS"
    BY <2>3, <2>4 DEF Exists
  <2> HIDE DEF r, c, k
  <2>7. RowMoves
    BY <1>1, <1>3, <2>1, <2>5, <2>6, OneRowMoves
  <2>8. \A v \in Id, j \in Step : journal'[v][j] = IF v = w /\ j = k THEN c ELSE journal[v][j]
    BY <1>2, <2>1 DEF TypeInv, Rest
  <2>9. JournalMoves
    <3>1. IsChild(c)
      BY <1>2 DEF IsChild, c
    <3> QED
      BY <1>1, <2>1, <2>8, <3>1 DEF JournalMoves, SuccessInv, JournalKids
  <2>10. row'[c].status # "ABSENT"
    BY <1>0, <1>3, <2>1, <2>5
  <2>11. ASSUME NEW f \in Process, NEW u \in Id PROVE BodyMove(f, u)
    <3>1. CASE f = e /\ u = w
      <4>1. body'[f][u] = [body[e][w] EXCEPT !.pc = "join", !.child = c, !.channel = local]
        BY <1>0, <1>3, <2>1, <3>1
      <4> HIDE DEF local
      <4>2. /\ body'[f][u].pc = "join" /\ body'[f][u].deadline = body[e][w].deadline
            /\ body'[f][u].child = c /\ body'[f][u].step = k
        BY <1>0, <4>1 DEF BodyType, k
      <4>3. journal'[w][k] = c
        BY <1>2, <2>8
      <4> QED
        BY <1>2, <3>1, <4>2, <4>3 DEF BodyMove, k
    <3>2. CASE f = e /\ u = c
      <4>1. body'[f][u] = IF local THEN Begun(c, None) ELSE body[f][u]
        BY <1>0, <1>3, <2>1, <3>2
      <4> HIDE DEF local
      <4> QED
        BY <2>10, <3>2, <4>1, BodyBegins, BodyStays
    <3>3. CASE ~(f = e /\ u \in {w, c})
      <4>1. body'[f][u] = body[f][u]
        BY <1>0, <1>3, <2>1, <3>3
      <4> QED
        BY <4>1, BodyStays
    <3> QED
      BY <3>1, <3>2, <3>3
  <2> QED
    BY <2>7, <2>9, <2>11 DEF Moves
<1> QED
  BY <1>4, <1>5

\* Steps that change one row, and how.
LEMMA RowStatements ==
    ASSUME NEW r \in RowType
    PROVE  /\ \A s \in {"SUCCESS", "ERROR"} : LET x == OutcomeRow(r, s) IN
                 /\ x.status = r.status \/ (x.status = s /\ r.status \notin {"ABSENT", "CANCELLED"})
                 /\ x.timeout = r.timeout /\ x.deadline = r.deadline
                 /\ r.status \notin {"ABSENT", "CANCELLED"} => x.status = s
           /\ LET x == CancelRow(r) IN
                 /\ x.status = r.status \/ (x.status = "CANCELLED" /\ r.status \in {"ENQUEUED", "PENDING"})
                 /\ x.timeout = r.timeout /\ x.deadline = r.deadline
           /\ LET x == ResumeRow(r) IN
                 /\ x.status = r.status \/ (x.status = "ENQUEUED" /\ r.status \notin {"ABSENT", "SUCCESS"})
                 /\ x.timeout = r.timeout /\ x.deadline \in {r.deadline, None}
           /\ \A e : LET x == Claimed(e, r) IN
                 /\ x.status = "PENDING" /\ x.timeout = r.timeout
                 /\ r.timeout = None => x.deadline = r.deadline
           /\ LET x == [r EXCEPT !.status = "ENQUEUED"] IN
                 /\ x.status = "ENQUEUED" /\ x.timeout = r.timeout /\ x.deadline = r.deadline
<1>1. ASSUME NEW s
      PROVE  /\ Ended(r, s).status = s /\ Ended(r, s).timeout = r.timeout /\ Ended(r, s).deadline = r.deadline
             /\ LET x == [Ended(r, s) EXCEPT !.queued = FALSE] IN
                  x.status = s /\ x.timeout = r.timeout /\ x.deadline = r.deadline
  BY DEF Ended, RowType
<1>2. \A s \in {"SUCCESS", "ERROR"} : LET x == OutcomeRow(r, s) IN
         /\ x.status = r.status \/ (x.status = s /\ r.status \notin {"ABSENT", "CANCELLED"})
         /\ x.timeout = r.timeout /\ x.deadline = r.deadline
         /\ r.status \notin {"ABSENT", "CANCELLED"} => x.status = s
  BY <1>1 DEF OutcomeRow
<1>3. LET x == CancelRow(r) IN
         /\ x.status = r.status \/ (x.status = "CANCELLED" /\ r.status \in {"ENQUEUED", "PENDING"})
         /\ x.timeout = r.timeout /\ x.deadline = r.deadline
  BY <1>1 DEF CancelRow, Settled, RowType
<1>4. LET x == ResumeRow(r) IN
         /\ x.status = r.status \/ (x.status = "ENQUEUED" /\ r.status \notin {"ABSENT", "SUCCESS"})
         /\ x.timeout = r.timeout /\ x.deadline \in {r.deadline, None}
  BY DEF ResumeRow, RowType
<1>5. \A e : LET x == Claimed(e, r) IN
         /\ x.status = "PENDING" /\ x.timeout = r.timeout
         /\ r.timeout = None => x.deadline = r.deadline
  BY DEF Claimed, RowType
<1>6. LET x == [r EXCEPT !.status = "ENQUEUED"] IN
         /\ x.status = "ENQUEUED" /\ x.timeout = r.timeout /\ x.deadline = r.deadline
  BY DEF RowType
<1> QED
  BY <1>2, <1>3, <1>4, <1>5, <1>6

\* Rows that are claimed, put back, cancelled or resumed.
LEMMA MovesRow ==
    ASSUME TypeInv, SuccessInv, Calm' => Calm, NEW e, NEW w \in Id,
           \/ Dequeue(e, w) \/ PutBack(e, w) \/ Resume(w) \/ Cancel(w)
    PROVE  RowMoves
<1>0. row[w] \in RowType
  BY DEF TypeInv, Rows
<1>1. w # Root => row[w].timeout = None /\ row[w].deadline = None
  BY DEF SuccessInv, Untimed
<1>2. Calm' /\ w # Root => row[w].status # "CANCELLED"
  BY DEF SuccessInv, Unhurt
<1>3. CASE Dequeue(e, w)
  <2> DEFINE r == Claimed(e, row[w])
  <2>1. /\ r.status = "PENDING" /\ r.timeout = row[w].timeout
        /\ row[w].timeout = None => r.deadline = row[w].deadline
    BY <1>0, RowStatements
  <2> HIDE DEF r
  <2>2. row' = [row EXCEPT ![w] = r] /\ row[w].status = "ENQUEUED"
    BY <1>3 DEF Dequeue, r
  <2> QED
    BY <1>1, <2>1, <2>2, OneRowMoves
<1>4. CASE PutBack(e, w)
  <2>1. CASE row' = row
    BY <2>1, RowStays
  <2>2. CASE row' # row
    <3> DEFINE r == [row[w] EXCEPT !.status = "ENQUEUED"]
    <3>1. r.status = "ENQUEUED" /\ r.timeout = row[w].timeout /\ r.deadline = row[w].deadline
      BY <1>0, RowStatements
    <3>2. row' = [row EXCEPT ![w] = r] /\ row[w].status = "PENDING"
      BY <1>4, <2>2 DEF PutBack
    <3> HIDE DEF r
    <3> QED
      BY <1>1, <3>1, <3>2, OneRowMoves
  <2> QED
    BY <2>1, <2>2
<1>5. CASE Resume(w)
  <2> DEFINE r == ResumeRow(row[w])
  <2>1. /\ r.status = row[w].status \/ (r.status = "ENQUEUED" /\ row[w].status \notin {"ABSENT", "SUCCESS"})
        /\ r.timeout = row[w].timeout /\ r.deadline \in {row[w].deadline, None}
    BY <1>0, RowStatements
  <2> HIDE DEF r
  <2>2. row' = [row EXCEPT ![w] = r]
    BY <1>5 DEF Resume, r
  <2> QED
    BY <1>1, <1>2, <2>1, <2>2, OneRowMoves DEF Exists
<1>6. CASE Cancel(w)
  <2> DEFINE r == CancelRow(row[w])
  <2>1. /\ r.status = row[w].status \/ (r.status = "CANCELLED" /\ row[w].status \in {"ENQUEUED", "PENDING"})
        /\ r.timeout = row[w].timeout /\ r.deadline = row[w].deadline
    BY <1>0, RowStatements
  <2> HIDE DEF r
  <2>2. row' = [row EXCEPT ![w] = r]
    BY <1>6 DEF Cancel, r
  <2>3. ~Calm'
    <3>1. happened["cancel"] \in Nat /\ happened'["cancel"] = happened["cancel"] + 1
      BY <1>6 DEF Cancel, Happens, TypeInv, Rest, Happenings
    <3> QED
      BY <3>1 DEF Calm
  <2> QED
    BY <1>1, <2>1, <2>2, <2>3, OneRowMoves DEF Exists
<1> QED
  BY <1>3, <1>4, <1>5, <1>6

\* The steps at which bodies stay as they are, or go with their process.
LEMMA MovesManagement ==
    ASSUME TypeInv, RecordInv, SuccessInv, NEW e, NEW w \in Id,
           \/ Dequeue(e, w) \/ PutBack(e, w) \/ (e \in Process /\ (Launch(e) \/ Crash(e)))
           \/ Cancel(w) \/ Resume(w) \/ Delete(w) \/ DeleteList \/ Pass \/ UNCHANGED vars
           \/ \E start : Fork(start)
    PROVE  Moves
<1>1. Calm' => Calm
  <2>1. "crash" \in Happenings /\ "cancel" \in Happenings /\ "resume" \in Happenings
        /\ "delete" \in Happenings /\ "fork" \in Happenings
    BY DEF Happenings
  <2>2. happened' = happened \/ \E h \in Happenings : Happens(h)
    BY <2>1 DEF Dequeue, PutBack, Launch, Crash, Cancel, Resume, Delete, DeleteList, Pass, vars, Fork
  <2> QED
    BY <2>2, CalmBefore
<1>2. journal' = journal /\ gone' = gone
  BY DEF Dequeue, PutBack, Launch, Crash, Cancel, Resume, Delete, DeleteList, Pass, vars, Fork
<1>3. RowMoves
  <2>1. CASE row' = row
    BY <1>1, <2>1, RowStays
  <2>2. CASE row' # row
    BY <1>1, <2>2, MovesRow DEF Launch, Crash, Delete, DeleteList, Pass, vars, Fork
  <2> QED
    BY <2>1, <2>2
<1>4. ASSUME NEW f \in Process, NEW u \in Id PROVE BodyMove(f, u)
  <2>1. body \in [Process -> [Id -> BodyType]]
    BY DEF TypeInv, Bodies
  <2>2. CASE body' = body
    BY <2>2, BodyStays
  <2>3. CASE e \in Process /\ Crash(e)
    <3>1. body'[f][u] = Free \/ body'[f][u] = body[f][u]
      BY <2>1, <2>3 DEF Crash
    <3> QED
      BY <3>1, BodyFreed, BodyStays
  <2> QED
    BY <2>2, <2>3 DEF Dequeue, PutBack, Launch, Cancel, Resume, Delete, DeleteList, Pass, vars, Fork
<1> QED
  BY <1>1, <1>2, <1>3, <1>4, JournalStays DEF Moves

\* Rows that go.
LEMMA MovesRemoved ==
    ASSUME TypeInv, RecordInv, SuccessInv, NEW ws, Removed(ws), body' = body,
           happened' = happened \/ \E h \in Happenings : Happens(h)
    PROVE  Moves
<1>1. Calm' => Calm
  BY CalmBefore
<1>2. Absent.status = "ABSENT" /\ Absent.timeout = None /\ Absent.deadline = None
  BY DEF Absent
<1>3. \A w \in Id : row'[w] = row[w] \/ (row'[w] = Absent /\ w \in ws)
  BY DEF Removed
<1>4. gone' = gone \cup {w \in ws : Exists(w)}
  BY DEF Removed
<1>5. RowMoves
  <2>1. ASSUME NEW w \in Id, row'[w] = row[w]
        PROVE  /\ w # Root => row'[w].timeout = None /\ row'[w].deadline = None
               /\ Calm' /\ w # Root => row'[w].status # "CANCELLED"
    BY <1>1, <2>1 DEF SuccessInv, Untimed, Unhurt
  <2> QED
    BY <1>2, <1>3, <1>4, <2>1 DEF RowMoves, Exists
<1>6. JournalMoves
  <2>1. ASSUME NEW w \in Id, NEW k \in Step
        PROVE  /\ journal[w][k] # None => journal'[w][k] = journal[w][k] \/ w \in gone'
               /\ journal'[w][k] # None => journal'[w][k] = journal[w][k]
    <3>1. journal'[w][k] = IF w \in ws THEN None ELSE journal[w][k]
      BY DEF Removed
    <3>2. journal[w][k] # None => Exists(w)
      BY DEF RecordInv, RecordsAgree
    <3> QED
      BY <1>4, <3>1, <3>2
  <2> QED
    BY <1>1, <1>4, <2>1 DEF JournalMoves, SuccessInv, JournalKids
<1> QED
  BY <1>5, <1>6, BodyStays DEF Moves

\* A fork.
LEMMA MovesFork ==
    ASSUME TypeInv, RecordInv, SuccessInv, ForkInsert
    PROVE  Moves
<1>1. Calm' => Calm
  BY CalmBefore DEF ForkInsert
<1>2. ForkedRow.status = "ENQUEUED" /\ ForkedRow.timeout = None /\ ForkedRow.deadline = None
  BY DEF ForkedRow, Absent
<1>3. ~Exists(Forked) /\ row' = [row EXCEPT ![Forked] = ForkedRow]
  BY DEF ForkInsert, RecordInv
<1>4. RowMoves
  BY <1>1, <1>2, <1>3, OneRowMoves DEF Exists
<1>5. JournalMoves
  <2>1. ASSUME NEW w \in Id, NEW k \in Step
        PROVE  /\ journal[w][k] # None => journal'[w][k] = journal[w][k]
               /\ journal'[w][k] # None => journal'[w][k] \in {journal[w][k], journal[Root][k]}
    <3>1. journal'[w] = IF w = Forked THEN Copied(forking) ELSE journal[w]
      BY DEF ForkInsert, TypeInv, Rest
    <3>2. journal[Forked][k] = None
      BY <1>3 DEF RecordInv, RecordsAgree
    <3> QED
      BY <3>1, <3>2 DEF Copied
  <2>2. gone' = gone
    BY DEF ForkInsert
  <2> QED
    BY <1>1, <2>1, <2>2 DEF JournalMoves, SuccessInv, JournalKids
<1> QED
  BY <1>4, <1>5, BodyStays DEF Moves, ForkInsert

\* The other steps of a body.
LEMMA MovesBody ==
    ASSUME TypeInv, SuccessInv, NEW e \in Process, NEW w \in Id,
           CheckChild(e, w) \/ Join(e, w) \/ Work(e, w) \/ Expire(e, w)
    PROVE  Moves
<1>0. /\ body \in [Process -> [Id -> BodyType]] /\ body[e][w] \in BodyType /\ row[w] \in RowType
      /\ body[e][w].pc \in {"check", "join"} => HasChildren(w) /\ body[e][w].step \in Step
  BY DEF TypeInv, Rows, Bodies, BodyOK
<1>1. Calm' => Calm
  BY CalmBefore DEF CheckChild, Join, Work, Expire
<1>2. JournalMoves
  BY <1>1, JournalStays DEF CheckChild, Join, Work, Expire
<1>3. RowMoves
  <2>1. CASE row' = row
    BY <1>1, <2>1, RowStays
  <2>2. CASE Expire(e, w)
    <3> DEFINE r == CancelRow(row[w])
    <3>1. /\ r.status = row[w].status \/ (r.status = "CANCELLED" /\ row[w].status \in {"ENQUEUED", "PENDING"})
      BY <1>0, RowStatements
    <3> HIDE DEF r
    <3>2. row' = [row EXCEPT ![w] = r] /\ w = Root
      BY <2>2 DEF Expire, r, SuccessInv, Untimed
    <3> QED
      BY <1>1, <3>1, <3>2, OneRowMoves DEF Exists
  <2> QED
    BY <2>1, <2>2 DEF CheckChild, Join, Work
<1>4. \A f \in Process, u \in Id : ~(f = e /\ u = w) => body'[f][u] = body[f][u]
  BY <1>0 DEF CheckChild, Join, Work, Goto, Expire
<1>5. BodyMove(e, w)
  <2>1. CASE CheckChild(e, w)
    <3> DEFINE c == journal[w][body[e][w].step]
    <3>1. body'[e][w] = IF c = None THEN [body[e][w] EXCEPT !.pc = "spawn"]
                        ELSE [body[e][w] EXCEPT !.pc = "join", !.child = c]
      BY <1>0, <2>1 DEF CheckChild
    <3>2. journal' = journal /\ body[e][w].pc = "check"
      BY <2>1 DEF CheckChild
    <3> HIDE DEF c
    <3>3. /\ body'[e][w].deadline = body[e][w].deadline /\ body'[e][w].step = body[e][w].step
          /\ body'[e][w].pc \in {"spawn", "join"} /\ (body'[e][w].pc = "join" => body'[e][w].child = c)
      BY <1>0, <3>1 DEF BodyType
    <3> QED
      BY <3>2, <3>3 DEF BodyMove, c
  <2>2. CASE Join(e, w)
    <3> DEFINE ok == row[body[e][w].child].status = "SUCCESS"
    <3>1. body'[e][w] = After(body[e][w], ok) /\ body[e][w].pc = "join" /\ row' = row
      BY <1>0, <2>2 DEF Join
    <3>2. ok \in BOOLEAN /\ (ok => Answered(e, w))
      BY <3>1 DEF Answered
    <3> HIDE DEF ok
    <3> QED
      BY <3>1, <3>2, BodyAnswered
  <2>3. CASE Work(e, w)
    <3>1. PICK pc : /\ pc = IF row[w].status \in {"ABSENT", "CANCELLED"} THEN "error" ELSE "ok"
                    /\ body' = [body EXCEPT ![e][w].pc = pc]
      BY <2>3 DEF Work, Goto
    <3>2. body'[e][w] = [body[e][w] EXCEPT !.pc = pc] /\ body[e][w].pc = "work"
      BY <1>0, <2>3, <3>1 DEF Work
    <3>3. body'[e][w].pc = pc /\ body'[e][w].deadline = body[e][w].deadline
      BY <1>0, <3>2 DEF BodyType
    <3> QED
      BY <3>1, <3>2, <3>3 DEF BodyMove
  <2>4. CASE Expire(e, w)
    <3>1. body'[e][w] = [body[e][w] EXCEPT !.deadline = None] /\ journal' = journal
      BY <1>0, <2>4 DEF Expire
    <3>2. /\ body'[e][w].deadline = None /\ body'[e][w].pc = body[e][w].pc
          /\ body'[e][w].step = body[e][w].step /\ body'[e][w].child = body[e][w].child
      BY <1>0, <3>1 DEF BodyType
    <3> QED
      BY <3>1, <3>2 DEF BodyMove
  <2> QED
    BY <2>1, <2>2, <2>3, <2>4
<1>6. ASSUME NEW f \in Process, NEW u \in Id PROVE BodyMove(f, u)
  BY <1>4, <1>5, BodyStays
<1> QED
  BY <1>2, <1>3, <1>6 DEF Moves

\* A body that ends, and those that waited for it.
LEMMA MovesLeave ==
    ASSUME Flat, TypeInv, SuccessInv, NEW e \in Process, NEW w \in Id, Leave(e, w) \/ AwaitOther(e, w)
    PROVE  Moves
<1>0. /\ body \in [Process -> [Id -> BodyType]] /\ row[w] \in RowType /\ row \in [Id -> RowType]
  BY DEF TypeInv, Rows, Bodies
<1>1. Calm' => Calm
  BY CalmBefore DEF Leave, AwaitOther
<1>2. JournalMoves
  BY <1>1, JournalStays DEF Leave, AwaitOther
<1>3. PICK ok \in BOOLEAN :
        /\ Left(e, w, ok)
        /\ \/ /\ Leave(e, w) /\ body[e][w].pc = IF ok THEN "ok" ELSE "error"
              /\ row' = [row EXCEPT ![w] = OutcomeRow(row[w], IF ok THEN "SUCCESS" ELSE "ERROR")]
           \/ row' = row /\ (ok => row[w].status = "SUCCESS")
  <2>1. CASE Leave(e, w)
    <3> DEFINE ok == body[e][w].pc = "ok"
    <3>1. Left(e, w, ok)
      BY <1>0, <2>1 DEF Leave, Left
    <3>2. row' = [row EXCEPT ![w] = OutcomeRow(row[w], IF ok THEN "SUCCESS" ELSE "ERROR")]
      BY <2>1 DEF Leave
    <3>3. body[e][w].pc = IF ok THEN "ok" ELSE "error"
      BY <2>1 DEF Leave
    <3>4. ok \in BOOLEAN
      OBVIOUS
    <3> HIDE DEF ok
    <3> QED
      BY <2>1, <3>1, <3>2, <3>3, <3>4
  <2>2. CASE AwaitOther(e, w)
    <3> DEFINE ok == row[w].status = "SUCCESS"
    <3>1. Left(e, w, ok)
      BY <1>0, <2>2 DEF AwaitOther, Left
    <3>2. row' = row /\ ok \in BOOLEAN
      BY <2>2 DEF AwaitOther
    <3>3. ok => row[w].status = "SUCCESS"
      OBVIOUS
    <3> HIDE DEF ok
    <3> QED
      BY <3>1, <3>2, <3>3
  <2> QED
    BY <2>1, <2>2
<1>4. RowMoves
  <2>1. CASE row' = row
    BY <1>1, <2>1, RowStays
  <2>2. CASE row' # row
    <3> DEFINE s == IF ok THEN "SUCCESS" ELSE "ERROR"
               r == OutcomeRow(row[w], s)
    <3>0. s \in {"SUCCESS", "ERROR"}
      OBVIOUS
    <3>1. /\ r.status = row[w].status \/ (r.status = s /\ row[w].status \notin {"ABSENT", "CANCELLED"})
          /\ r.timeout = row[w].timeout /\ r.deadline = row[w].deadline
      BY <1>0, <3>0, RowStatements, SMT
    <3>2. row' = [row EXCEPT ![w] = r] /\ body[e][w].pc = IF ok THEN "ok" ELSE "error"
      BY <1>3, <2>2
    <3> HIDE DEF r
    <3>3. /\ w # Root => r.timeout = None /\ r.deadline = None
          /\ Calm' /\ w # Root => r.status # "CANCELLED"
      BY <1>1, <3>0, <3>1 DEF SuccessInv, Untimed, Unhurt
    <3>4. /\ Exists(w) => r.status # "ABSENT"
          /\ r.status = "ERROR" => row[w].status = "ERROR" \/ body[e][w].pc = "error"
          /\ r.status = "SUCCESS" => row[w].status = "SUCCESS" \/ body[e][w].pc = "ok"
          /\ row[w].status = "SUCCESS" => r.status = "SUCCESS" \/ body[e][w].pc = "error"
      BY <3>1, <3>2 DEF Exists
    <3> QED
      BY <1>1, <3>2, <3>3, <3>4, OneRowMoves
  <2> QED
    BY <2>1, <2>2
<1>5. ASSUME NEW v \in Id, body[e][v].pc = "join", body[e][v].child = w, ok PROVE Answered(e, v)
  <2>1. CASE row' = row /\ row[w].status = "SUCCESS"
    BY <1>5, <2>1 DEF Answered
  <2>2. CASE ~(row' = row /\ row[w].status = "SUCCESS")
    <3> SUFFICES ASSUME Calm', v \notin gone, w \notin gone PROVE row'[w].status = "SUCCESS"
      BY <1>5 DEF Answered
    <3>1. row' = [row EXCEPT ![w] = OutcomeRow(row[w], "SUCCESS")] /\ body[e][w].pc = "ok"
      BY <1>3, <1>5, <2>2
    <3>2. row[w].status # "ABSENT"
      BY <3>1 DEF SuccessInv, Present, Exists
    <3>3. body[e][v].step \in Step /\ w = journal[v][body[e][v].step] /\ w # None
      BY <1>5 DEF TypeInv, Bodies, BodyOK, SuccessInv, Joined
    <3>4. IsChild(w)
      BY <3>3 DEF SuccessInv, JournalKids
    <3>5. w # Root
      BY <3>4, Leaf
    <3>6. row[w].status # "CANCELLED"
      BY <1>1, <3>5 DEF SuccessInv, Unhurt
    <3>7. OutcomeRow(row[w], "SUCCESS").status = "SUCCESS"
      BY <1>0, <3>2, <3>6, RowStatements
    <3> QED
      BY <1>0, <3>1, <3>7
  <2> QED
    BY <2>1, <2>2
<1>6. ASSUME NEW f \in Process, NEW u \in Id PROVE BodyMove(f, u)
  <2>1. CASE f # e
    <3>1. body'[f][u] = body[f][u]
      BY <1>0, <1>3, <2>1 DEF Left
    <3> QED
      BY <3>1, BodyStays
  <2>2. CASE f = e /\ u = w
    <3>1. body'[f][u] = Free
      BY <1>0, <1>3, <2>2 DEF Left
    <3> QED
      BY <3>1, BodyFreed
  <2>3. CASE f = e /\ u # w /\ body[e][u].pc = "join" /\ body[e][u].channel /\ body[e][u].child = w
    <3>1. body'[f][u] = After(body[f][u], ok)
      BY <1>0, <1>3, <2>3 DEF Left
    <3> QED
      BY <1>5, <2>3, <3>1, BodyAnswered
  <2>4. CASE f = e /\ u # w /\ ~(body[e][u].pc = "join" /\ body[e][u].channel /\ body[e][u].child = w)
    <3>1. body'[f][u] = body[f][u]
      BY <1>0, <1>3, <2>4 DEF Left
    <3> QED
      BY <3>1, BodyStays
  <2> QED
    BY <2>1, <2>2, <2>3, <2>4
<1> QED
  BY <1>2, <1>4, <1>6 DEF Moves

\* SuccessInv holds at the start.
LEMMA SuccessInit == Init => SuccessInv
<1> SUFFICES ASSUME Init PROVE SuccessInv
  OBVIOUS
<1>1. \A w \in Id : row[w].status = "ABSENT" /\ row[w].timeout = None /\ row[w].deadline = None
  BY DEF Init, Absent
<1>2. \A e \in Process, w \in Id : body[e][w].pc = "free" /\ body[e][w].deadline = None
  BY DEF Init, Free
<1>3. \A w \in Id, k \in Step : journal[w][k] = None
  BY DEF Init
<1> QED
  BY <1>1, <1>2, <1>3
  DEF SuccessInv, JournalKids, Untimed, Present, Working, Joined, Unhurt, Progress, Succeeded

\* Every step keeps it.
LEMMA SuccessNext == Flat /\ TypeInv /\ RecordInv /\ SuccessInv /\ [Next]_vars => SuccessInv'
<1> SUFFICES ASSUME Flat, TypeInv, RecordInv, SuccessInv, [Next]_vars PROVE SuccessInv'
  OBVIOUS
<1>1. ASSUME NEW e \in Process, NEW w \in Id,
             CheckChild(e, w) \/ Join(e, w) \/ Work(e, w) \/ Leave(e, w) \/ AwaitOther(e, w)
             \/ Expire(e, w) \/ Spawn(e, w) \/ StartListed(e, w)
      PROVE  Moves
  BY <1>1, MovesBody, MovesLeave, MovesSpawn, MovesStart
<1>2. ASSUME NEW e \in Process, Submit(e) PROVE Moves
  BY <1>2, MovesStart
<1>3. ASSUME NEW e \in Process, NEW w \in Id, Dequeue(e, w) \/ PutBack(e, w) \/ Launch(e) \/ Crash(e)
      PROVE  Moves
  BY <1>3, MovesManagement
<1>4. ASSUME NEW w \in Id,
             \/ Cancel(w) \/ Resume(w) \/ Delete(w) \/ DeleteList \/ Pass \/ UNCHANGED vars
             \/ \E start : Fork(start)
      PROVE  Moves
  BY <1>4, MovesManagement
<1>5. ASSUME DeleteNext PROVE Moves
  <2>1. CASE deleter.found = << >>
    <3>1. row' = row /\ journal' = journal /\ gone' = gone /\ body' = body /\ happened' = happened
      BY <1>5, <2>1 DEF DeleteNext
    <3> QED
      BY <3>1, CalmBefore, RowStays, JournalStays, BodyStays DEF Moves
  <2>2. CASE deleter.found # << >>
    BY <1>5, <2>2, MovesRemoved DEF DeleteNext
  <2> QED
    BY <2>1, <2>2
<1>6. ASSUME (\E n : CollectBefore(n)) \/ (\E n : CollectBeyond(n)) PROVE Moves
  <2>1. "collect" \in Happenings
    BY DEF Happenings
  <2> QED
    BY <1>6, <2>1, MovesRemoved DEF CollectBefore, CollectBeyond
<1>7. ASSUME ForkInsert PROVE Moves
  BY <1>7, MovesFork
<1>8. Moves
  BY <1>1, <1>2, <1>3, <1>4, <1>5, <1>6, <1>7 DEF Next, ProcessStep, BodyStep, Environment
<1> QED
  BY <1>8, SuccessKept

\* In trees of two levels a workflow that has succeeded has recorded every step,
\* with children that have succeeded, whatever crashes, is dequeued, recovered,
\* resumed, forked, deleted or collected, as long as nobody cancels one.
THEOREM ParentsKnowTheirChildren ==
    ASSUME Flat
    PROVE  Spec => []ChildrenAgree
<1>1. RecordInv /\ SuccessInv => ChildrenAgree
  BY DEF RecordInv, SuccessInv, Succeeded, Calm, ChildrenAgree
<1>2. Flat /\ TypeInv /\ RecordInv /\ SuccessInv /\ [Next]_vars => SuccessInv'
  BY SuccessNext
<1>3. TypeInv /\ RecordInv /\ SuccessInv /\ [Next]_vars => SuccessInv'
  BY <1>2
<1> QED
  BY <1>1, <1>3, TypedInit, TypedNext, RecordsInit, RecordsNext, SuccessInit, PTL DEF Spec
=============================================================================
