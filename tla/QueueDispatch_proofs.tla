------------------------ MODULE QueueDispatch_proofs ------------------------
(***************************************************************************)
(* Theorems about QueueDispatch, for every number of processes and         *)
(* workflows, every setting of the limits and every bound: the types; that *)
(* no workflow is in two hands and the limit of each process, on both      *)
(* backends; and on SQLite the global limit, of the rows and of the bodies *)
(* that really run, and the rate limit.                                    *)
(***************************************************************************)
EXTENDS QueueDispatch, FiniteSetTheorems, TLAPS

USE QueueAssumption DEF QueueAssumption

------------------------------------------------------------------------------
(* Numbers.                                                                *)

\* Sets of workflows can be counted.
LEMMA Countable ==
    ASSUME NEW S \in SUBSET Workflow
    PROVE  IsFiniteSet(S) /\ Cardinality(S) \in Nat
  BY FS_Subset, FS_CardinalityType

\* A poll may claim a natural number of workflows, and no more than the
\* global limit leaves.
LEMMA RoomType ==
    ASSUME NEW local \in Nat
    PROVE  /\ Room(local) \in Nat
           /\ GlobalLimit # None => Room(local) = 0 \/ Room(local) <= GlobalLimit - PendingCount
<1>1. PendingCount \in Nat
  BY Countable DEF PendingCount, InStatus
<1>2. None \notin Nat
  OBVIOUS
<1> QED
  BY <1>1, <1>2 DEF Room, MinOf, Positive

\* Ages stay ages.
LEMMA OlderType == \A a \in Age : Older(a) \in Age
  BY DEF Older, MinOf, Age

------------------------------------------------------------------------------
(* Types.                                                                  *)

\* An EXCEPT on one row keeps the table a table.
LEMMA RowUpdate ==
    ASSUME row \in [Workflow -> RowType], NEW w \in Workflow, NEW x \in RowType,
           row' = [row EXCEPT ![w] = x]
    PROVE  row' \in [Workflow -> RowType]
  OBVIOUS

\* An EXCEPT on one runner keeps the runners runners.
LEMMA RunnerUpdate ==
    ASSUME runner \in [Executor -> RunnerType], NEW e \in Executor, NEW x \in RunnerType,
           runner' = [runner EXCEPT ![e] = x]
    PROVE  runner' \in [Executor -> RunnerType]
  OBVIOUS

\* Updates of a row and of a runner's record keep their types.
LEMMA RowFields ==
    ASSUME NEW x \in RowType
    PROVE  /\ \A st \in {"ENQUEUED", "SUCCESS"} : [x EXCEPT !.status = st] \in RowType
           /\ \A e \in Executor : [x EXCEPT !.executor = e] \in RowType
           /\ \A e \in Executor, a \in Age : [x EXCEPT !.status = "PENDING", !.executor = e, !.age = a] \in RowType
           /\ \A a \in Age : [x EXCEPT !.status = "ENQUEUED", !.age = a] \in RowType
           /\ \A a \in Age : [x EXCEPT !.status = "CANCELLED", !.queue = "null", !.age = a] \in RowType
           /\ \A d \in Nat, a \in Age : [x EXCEPT !.delay = d, !.age = a] \in RowType
<1>1. \A st \in {"ENQUEUED", "SUCCESS"} : [x EXCEPT !.status = st] \in RowType
  BY DEF RowType
<1>2. \A e \in Executor : [x EXCEPT !.executor = e] \in RowType
  BY DEF RowType
<1>3. \A e \in Executor, a \in Age : [x EXCEPT !.status = "PENDING", !.executor = e, !.age = a] \in RowType
  BY DEF RowType
<1>4. \A a \in Age : [x EXCEPT !.status = "ENQUEUED", !.age = a] \in RowType
  BY DEF RowType
<1>5. \A a \in Age : [x EXCEPT !.status = "CANCELLED", !.queue = "null", !.age = a] \in RowType
  BY DEF RowType
<1>6. \A d \in Nat, a \in Age : [x EXCEPT !.delay = d, !.age = a] \in RowType
  BY DEF RowType
<1> QED
  BY <1>1, <1>2, <1>3, <1>4, <1>5, <1>6

\* Updates of the fields of a runner record keep its type.
LEMMA RunnerFields ==
    ASSUME NEW x \in RunnerType
    PROVE  /\ [x EXCEPT !.pc = "count"] \in RunnerType
           /\ \A n \in Nat : [x EXCEPT !.pc = "rate", !.local = n] \in RunnerType
           /\ \A n \in Nat : [x EXCEPT !.pc = "limit", !.recent = n] \in RunnerType
           /\ \A n \in Nat : [x EXCEPT !.pc = "select", !.room = n] \in RunnerType
           /\ \A ws \in SUBSET Workflow : [x EXCEPT !.pc = "claim", !.ids = ws] \in RunnerType
           /\ \A ws \in SUBSET Workflow, h \in [Workflow -> Age \cup {None}] : [x EXCEPT !.ids = ws, !.held = h] \in RunnerType
           /\ \A ws \in SUBSET Workflow : [x EXCEPT !.pc = "dispatch", !.batch = ws] \in RunnerType
           /\ \A h \in [Workflow -> Age \cup {None}] : [x EXCEPT !.held = h] \in RunnerType
<1>1. [x EXCEPT !.pc = "count"] \in RunnerType
  BY DEF RunnerType
<1>2. \A n \in Nat : [x EXCEPT !.pc = "rate", !.local = n] \in RunnerType
  BY DEF RunnerType
<1>3. \A n \in Nat : [x EXCEPT !.pc = "limit", !.recent = n] \in RunnerType
  BY DEF RunnerType
<1>4. \A n \in Nat : [x EXCEPT !.pc = "select", !.room = n] \in RunnerType
  BY DEF RunnerType
<1>5. \A ws \in SUBSET Workflow : [x EXCEPT !.pc = "claim", !.ids = ws] \in RunnerType
  BY DEF RunnerType
<1>6. \A ws \in SUBSET Workflow, h \in [Workflow -> Age \cup {None}] : [x EXCEPT !.ids = ws, !.held = h] \in RunnerType
  BY DEF RunnerType
<1>7. \A ws \in SUBSET Workflow : [x EXCEPT !.pc = "dispatch", !.batch = ws] \in RunnerType
  BY DEF RunnerType
<1>8. \A h \in [Workflow -> Age \cup {None}] : [x EXCEPT !.held = h] \in RunnerType
  BY DEF RunnerType
<1> QED
  BY <1>1, <1>2, <1>3, <1>4, <1>5, <1>6, <1>7, <1>8

\* What a runner has tried and not got is still a set of rows it saw.
LEMMA TriedType ==
    ASSUME NEW x \in RunnerType, NEW w \in x.ids, NEW free
    PROVE  Tried(x, w, free) \in RunnerType
<1> DEFINE left == x.ids \ {w}
           holding == IF free THEN [x.held EXCEPT ![w] = 0] ELSE x.held
<1>1. w \in Workflow /\ 0 \in Age
  BY DEF RunnerType, Age
<1>2. left \in SUBSET Workflow /\ holding \in [Workflow -> Age \cup {None}]
  BY <1>1 DEF RunnerType
<1>3. Tried(x, w, free) = [x EXCEPT !.ids = left, !.held = holding]
  BY DEF Tried
<1>4. [x EXCEPT !.ids = left, !.held = holding] \in RunnerType
  <2> HIDE DEF left, holding
  <2> QED
    BY <1>2, RunnerFields
<1> QED
  BY <1>3, <1>4

\* The state of a runner between polls is well typed.
LEMMA IdleType == Idle \in RunnerType
  BY DEF Idle, RunnerType

\* So is the state of a runner about to dispatch.
LEMMA DispatchingType ==
    ASSUME runner \in [Executor -> RunnerType], NEW e \in Executor, NEW ws \in SUBSET Workflow,
           Dispatching(e, ws)
    PROVE  runner' \in [Executor -> RunnerType]
<1>1. [Idle EXCEPT !.pc = "dispatch", !.batch = ws] \in RunnerType
  BY IdleType, RunnerFields
<1> QED
  BY <1>1, IdleType, RunnerUpdate DEF Dispatching

\* The claim writes rows of the right type.
LEMMA ClaimedType ==
    ASSUME row \in [Workflow -> RowType], NEW w \in Workflow, NEW e \in Executor, NEW a \in Age
    PROVE  Claimed(w, e, a) \in RowType
  BY RowFields DEF Claimed

\* The sets a process keeps in memory.
BodiesOK ==
    /\ active \in [Executor -> SUBSET Workflow]
    /\ counted \in [Executor -> SUBSET Workflow]
    /\ running \in [Executor -> SUBSET Workflow]
    /\ \A e \in Executor : counted[e] \subseteq active[e] /\ running[e] \subseteq active[e]

\* Init establishes the types.
LEMMA InitType == Init => TypeOK
<1> SUFFICES ASSUME Init PROVE TypeOK
  OBVIOUS
<1>1. NoRow \in RowType
  BY DEF NoRow, RowType, Age
<1> QED
  BY <1>1, IdleType DEF Init, TypeOK, Young, Budget

\* Every step keeps them.
LEMMA StepType == TypeOK /\ [Next]_vars => TypeOK'
<1> SUFFICES ASSUME TypeOK, [Next]_vars PROVE TypeOK'
  OBVIOUS
<1> USE DEF TypeOK
<1>1. ASSUME NEW w \in Workflow, Enqueue(w) PROVE TypeOK'
  <2>1. Cardinality(Workflow \ InStatus("ABSENT")) \in Nat
    BY Countable DEF InStatus
  <2> QED
    BY <1>1, <2>1 DEF Enqueue, RowType, Age, bodies
<1>2. ASSUME NEW e \in Executor, Promote(e) PROVE TypeOK'
  <2>1. row' \in [Workflow -> RowType]
    BY <1>2, RowFields DEF Promote, Age
  <2>2. runner' \in [Executor -> RunnerType]
    BY <1>2, RunnerFields DEF Promote
  <2> QED
    BY <1>2, <2>1, <2>2 DEF Promote, bodies
<1>3. ASSUME NEW e \in Executor, CountLocal(e) PROVE TypeOK'
  <2>1. Cardinality(counted[e]) \in Nat
    BY Countable
  <2>2. runner' = [runner EXCEPT ![e] = [runner[e] EXCEPT !.pc = "rate", !.local = Cardinality(counted[e])]]
    BY <1>3 DEF CountLocal
  <2>3. runner' \in [Executor -> RunnerType]
    BY <2>1, <2>2, RunnerFields
  <2> QED
    BY <1>3, <2>3 DEF CountLocal, bodies
<1>4. ASSUME NEW e \in Executor, Dequeue(e) PROVE TypeOK'
  <2> DEFINE room == Room(runner[e].local)
             ws == IF StartLimit # None /\ RecentStarts >= StartLimit THEN {}
                   ELSE First(Allowed(room, RecentStarts))
  <2>1. ws \in SUBSET Workflow
    BY DEF First, InStatus
  <2>2. Cardinality(ws) \in Nat
    BY <2>1, Countable
  <2>3. \A w \in Workflow : Claimed(w, e, 0) \in RowType
    BY ClaimedType DEF Age
  <2>4. row' \in [Workflow -> RowType]
    BY <1>4, <2>3 DEF Dequeue
  <2>5. runner' \in [Executor -> RunnerType]
    BY <1>4, <2>1, DispatchingType DEF Dequeue
  <2>6. window' \in [Young -> Nat]
    <3> HIDE DEF ws
    <3>1. window' = [window EXCEPT ![0] = @ + Cardinality(ws)]
      BY <1>4 DEF Dequeue, ws
    <3> QED
      BY <2>2, <3>1 DEF Young
  <2> QED
    BY <1>4, <2>4, <2>5, <2>6 DEF Dequeue, bodies
<1>5. ASSUME NEW e \in Executor, CountRecent(e) PROVE TypeOK'
  <2>1. RecentStarts \in Nat
    BY Countable DEF RecentStarts
  <2>2. \A n \in Nat : [runner[e] EXCEPT !.pc = "limit", !.recent = n] \in RunnerType
    BY RunnerFields
  <2>3. runner' \in [Executor -> RunnerType]
    BY <1>5, <2>1, <2>2, IdleType DEF CountRecent
  <2> QED
    BY <1>5, <2>3 DEF CountRecent, bodies
<1>6. ASSUME NEW e \in Executor, CountPending(e) PROVE TypeOK'
  <2>1. Room(runner[e].local) \in Nat
    BY RoomType DEF RunnerType
  <2>2. \A n \in Nat : [runner[e] EXCEPT !.pc = "select", !.room = n] \in RunnerType
    BY RunnerFields
  <2>3. runner' \in [Executor -> RunnerType]
    BY <1>6, <2>1, <2>2, IdleType DEF CountPending
  <2> QED
    BY <1>6, <2>3 DEF CountPending, bodies
<1>7. ASSUME NEW e \in Executor, Select(e) PROVE TypeOK'
  <2>1. \A ws \in SUBSET Workflow : [runner[e] EXCEPT !.pc = "claim", !.ids = ws] \in RunnerType
    BY RunnerFields
  <2>2. First(runner[e].room) \in SUBSET Workflow
    BY DEF First, InStatus
  <2>3. runner' = [runner EXCEPT ![e] = [runner[e] EXCEPT !.pc = "claim", !.ids = First(runner[e].room)]]
    BY <1>7 DEF Select
  <2>4. runner' \in [Executor -> RunnerType]
    BY <2>1, <2>2, <2>3
  <2> QED
    BY <1>7, <2>4 DEF Select, bodies
<1>8. ASSUME NEW e \in Executor, Claim(e) PROVE TypeOK'
  <2>1. PICK w \in runner[e].ids :
          runner' = [runner EXCEPT ![e] = Tried(runner[e], w, row[w].status = "ENQUEUED")]
    BY <1>8 DEF Claim
  <2>2. runner' \in [Executor -> RunnerType]
    BY <2>1, TriedType DEF RunnerType
  <2> QED
    BY <1>8, <2>2 DEF Claim, bodies
<1>9. ASSUME NEW e \in Executor, Commit(e) PROVE TypeOK'
  <2>1. \A w \in Held(e) : runner[e].held[w] \in Age
    BY DEF Held, RunnerType
  <2>2. \A w \in Held(e) : Claimed(w, e, runner[e].held[w]) \in RowType
    BY <2>1, ClaimedType DEF Held
  <2>3. row' \in [Workflow -> RowType]
    BY <1>9, <2>2 DEF Commit
  <2>4. Held(e) \in SUBSET Workflow
    BY DEF Held
  <2>5. runner' \in [Executor -> RunnerType]
    BY <1>9, <2>4, DispatchingType DEF Commit
  <2>6. \A a \in Young : Cardinality({w \in Held(e) : runner[e].held[w] = a}) \in Nat
    BY <2>4, Countable
  <2>7. window' \in [Young -> Nat]
    BY <1>9, <2>6 DEF Commit
  <2> QED
    BY <1>9, <2>3, <2>5, <2>7 DEF Commit, bodies
<1>10. ASSUME NEW e \in Executor, NEW w \in Workflow, Dispatch(e, w) PROVE TypeOK'
  <2>1. row' \in [Workflow -> RowType]
    <3>1. row' = [row EXCEPT ![w] = [row[w] EXCEPT !.executor = e]]
      BY <1>10 DEF Dispatch
    <3> QED
      BY <3>1, RowFields
  <2>2. runner[e].batch \ {w} \in SUBSET Workflow
    BY DEF RunnerType
  <2>3. runner' \in [Executor -> RunnerType]
    BY <1>10, <2>2, DispatchingType DEF Dispatch
  <2>4. BodiesOK'
    BY <1>10 DEF Dispatch, BodiesOK
  <2> QED
    BY <1>10, <2>1, <2>3, <2>4 DEF Dispatch, BodiesOK
<1>11. ASSUME NEW e \in Executor, NEW w \in Workflow, DispatchFails(e, w) PROVE TypeOK'
  <2>1. runner[e].batch \ {w} \in SUBSET Workflow
    BY DEF RunnerType
  <2>2. runner' \in [Executor -> RunnerType]
    BY <1>11, <2>1, DispatchingType DEF DispatchFails
  <2> QED
    BY <1>11, <2>2 DEF DispatchFails, bodies, Budget
<1>12. ASSUME NEW e \in Executor, NEW w \in Workflow, EndBody(e, w) PROVE TypeOK'
  <2>1. row' \in [Workflow -> RowType]
    <3>1. row' = row \/ row' = [row EXCEPT ![w] = [row[w] EXCEPT !.status = "SUCCESS"]]
      BY <1>12 DEF EndBody
    <3>2. [row[w] EXCEPT !.status = "SUCCESS"] \in RowType
      BY RowFields
    <3> QED
      BY <3>1, <3>2
  <2> QED
    BY <1>12, <2>1 DEF EndBody
<1>13. ASSUME NEW e \in Executor, NEW w \in Workflow, Leave(e, w) PROVE TypeOK'
  BY <1>13 DEF Leave
<1>14. ASSUME NEW e \in Executor, Launch(e) PROVE TypeOK'
  BY <1>14 DEF Launch, PendingOf, InStatus, bodies
<1>15. ASSUME NEW e \in Executor, Launched(e) PROVE TypeOK'
  BY <1>15 DEF Launched, bodies
<1>16. ASSUME NEW e \in Executor, NEW target \in Executor, RecoveryRequest(e, target) PROVE TypeOK'
  BY <1>16 DEF RecoveryRequest, PendingOf, InStatus, bodies, Budget
<1>17. ASSUME NEW e \in Executor, NEW w \in Workflow, Recover(e, w) PROVE TypeOK'
  <2>1. Cleared(w) \in RowType
    <3>1. row[w] \in RowType /\ Period \in Age
      BY DEF Age
    <3>2. [row[w] EXCEPT !.status = "ENQUEUED", !.age = Period] \in RowType
      BY <3>1, RowFields
    <3> QED
      BY <3>1, <3>2 DEF Cleared
  <2> QED
    BY <1>17, <2>1 DEF Recover, bodies
<1>18. ASSUME NEW e \in Executor, Crash(e) PROVE TypeOK'
  <2>1. runner' \in [Executor -> RunnerType]
    BY <1>18, IdleType DEF Crash
  <2> QED
    BY <1>18, <2>1 DEF Crash, Budget
<1>19. ASSUME NEW w \in Workflow, Cancel(w) PROVE TypeOK'
  <2>1. row' \in [Workflow -> RowType]
    <3>1. row' = [row EXCEPT ![w] = [row[w] EXCEPT !.status = "CANCELLED", !.queue = "null", !.age = Period]]
      BY <1>19 DEF Cancel
    <3>2. row[w] \in RowType /\ Period \in Age
      BY DEF Age
    <3>3. [row[w] EXCEPT !.status = "CANCELLED", !.queue = "null", !.age = Period] \in RowType
      BY <3>2, RowFields
    <3> QED
      BY <3>1, <3>3
  <2> QED
    BY <1>19, <2>1 DEF Cancel, bodies, Budget
<1>20. ASSUME Tick PROVE TypeOK'
  <2>1. \A d \in Nat : Positive(d - 1) \in Nat
    BY DEF Positive
  <2>2. \A w \in Workflow : row[w].delay \in Nat /\ row[w].age \in Age
    BY DEF RowType
  <2>3. \A w \in Workflow : row'[w] = [row[w] EXCEPT !.delay = Positive(row[w].delay - 1),
                                                  !.age = Older(row[w].age)]
    BY <1>20 DEF Tick
  <2>4. \A w \in Workflow : row'[w] \in RowType
    <3> TAKE w \in Workflow
    <3> DEFINE d == Positive(row[w].delay - 1)
               a == Older(row[w].age)
    <3>1. d \in Nat /\ a \in Age /\ row[w] \in RowType
      BY <2>1, <2>2, OlderType
    <3>2. row'[w] = [row[w] EXCEPT !.delay = d, !.age = a]
      BY <2>3
    <3> HIDE DEF d, a
    <3>3. [row[w] EXCEPT !.delay = d, !.age = a] \in RowType
      BY <3>1, RowFields
    <3> QED
      BY <3>2, <3>3
  <2>5. row' \in [Workflow -> RowType]
    BY <1>20, <2>4 DEF Tick
  <2>6. \A e \in Executor : [w \in Workflow |-> IF runner[e].held[w] = None THEN None
                            ELSE Older(runner[e].held[w])] \in [Workflow -> Age \cup {None}]
    BY OlderType DEF RunnerType
  <2>7. runner' \in [Executor -> RunnerType]
    BY <1>20, <2>6, RunnerFields DEF Tick
  <2>8. window' \in [Young -> Nat]
    <3>1. \A a \in Young : a # 0 => a - 1 \in Young
      BY DEF Young
    <3> QED
      BY <1>20, <3>1 DEF Tick, Young
  <2> QED
    BY <1>20, <2>5, <2>7, <2>8 DEF Tick, bodies
<1>21. CASE UNCHANGED vars
  BY <1>21 DEF vars
<1> QED
  BY <1>1, <1>2, <1>3, <1>4, <1>5, <1>6, <1>7, <1>8, <1>9, <1>10, <1>11, <1>12, <1>13, <1>14,
     <1>15, <1>16, <1>17, <1>18, <1>19, <1>20, <1>21
     DEF Next, RunnerStep, BodyStep, RecoveryStep, Environment

\* TypeOK holds in every behaviour, on both backends.
THEOREM QueueTyping == Spec => []TypeOK
  BY InitType, StepType, PTL DEF Spec

------------------------------------------------------------------------------
(* No workflow in two hands.                                               *)

\* An idle runner holds nothing.
LEMMA IdleHands ==
    ASSUME NEW e \in Executor, runner[e] = Idle
    PROVE  Held(e) = {} /\ runner[e].batch = {}
  BY DEF Held, Idle

\* Ending a transaction releases its locks and leaves the batch.
LEMMA Dispatched ==
    ASSUME TypeOK, NEW e \in Executor, NEW ws \in SUBSET Workflow, Dispatching(e, ws)
    PROVE  /\ Held(e)' = {} /\ runner'[e].batch = ws
           /\ \A f \in Executor \ {e} : runner'[f] = runner[f]
<1>1. runner \in [Executor -> RunnerType]
  BY DEF TypeOK
<1>2. runner'[e].held = [w \in Workflow |-> None] /\ runner'[e].batch = ws
  BY <1>1 DEF Dispatching, Idle
<1>3. \A f \in Executor \ {e} : runner'[f] = runner[f]
  BY <1>1 DEF Dispatching
<1> QED
  BY <1>2, <1>3 DEF Held

\* What a claim writes into a row.
LEMMA ClaimedFields ==
    ASSUME row \in [Workflow -> RowType], NEW w \in Workflow, NEW e, NEW a
    PROVE  Claimed(w, e, a).status = "PENDING" /\ Claimed(w, e, a).executor = e
  BY DEF Claimed, RowType

\* Nobody holds anything at the start.
LEMMA HandsInit == Init => HandsInv
<1> SUFFICES ASSUME Init PROVE HandsInv
  OBVIOUS
<1>1. TypeOK
  BY InitType
<1>2. \A e \in Executor : Held(e) = {} /\ Mine(e) = {}
  BY IdleHands DEF Init, Mine
<1> QED
  BY <1>1, <1>2 DEF Init, HandsInv, Waiting, Owned, Apart, EmptyWhenDown

\* On SQLite no transaction is ever open between two steps.
OneStatement ==
    Atomic => \A e \in Executor :
        runner[e].pc \in {"idle", "count", "rate", "dispatch"} /\ Held(e) = {}

\* No transaction is open at the start.
LEMMA OneStatementInit == Init => OneStatement
<1> SUFFICES ASSUME Init PROVE OneStatement
  OBVIOUS
<1>1. \A e \in Executor : runner[e] = Idle
  BY DEF Init
<1> QED
  BY <1>1, IdleHands DEF OneStatement, Idle

\* On SQLite a poll is one step: no runner is ever seen inside one.
LEMMA OneStatementStep == TypeOK /\ OneStatement /\ [Next]_vars => OneStatement'
<1> SUFFICES ASSUME TypeOK, OneStatement, Atomic, [Next]_vars
             PROVE  \A e \in Executor :
                      runner'[e].pc \in {"idle", "count", "rate", "dispatch"} /\ Held(e)' = {}
  BY DEF OneStatement
<1>0. runner \in [Executor -> RunnerType]
  BY DEF TypeOK
<1>1. \A e \in Executor : runner[e].pc \in {"idle", "count", "rate", "dispatch"} /\ Held(e) = {}
  BY DEF OneStatement
<1>2. ASSUME NEW e \in Executor, NEW ws \in SUBSET Workflow, Dispatching(e, ws)
      PROVE  \A f \in Executor : runner'[f].pc \in {"idle", "count", "rate", "dispatch"} /\ Held(f)' = {}
  <2>1. runner'[e].pc \in {"idle", "dispatch"}
    BY <1>0, <1>2 DEF Dispatching, Idle
  <2>2. Held(e)' = {} /\ \A f \in Executor \ {e} : runner'[f] = runner[f]
    BY <1>2, Dispatched
  <2> QED
    BY <1>1, <2>1, <2>2 DEF Held
<1>3. ASSUME UNCHANGED runner
      PROVE  \A f \in Executor : runner'[f].pc \in {"idle", "count", "rate", "dispatch"} /\ Held(f)' = {}
  BY <1>1, <1>3 DEF Held
<1>4. ASSUME NEW e \in Executor, Promote(e) \/ CountLocal(e)
      PROVE  \A f \in Executor : runner'[f].pc \in {"idle", "count", "rate", "dispatch"} /\ Held(f)' = {}
  <2>1. runner'[e].pc \in {"count", "rate"} /\ runner'[e].held = runner[e].held
    BY <1>0, <1>4 DEF Promote, CountLocal, RunnerType
  <2>2. \A f \in Executor \ {e} : runner'[f] = runner[f]
    BY <1>0, <1>4 DEF Promote, CountLocal
  <2> QED
    BY <1>1, <2>1, <2>2 DEF Held
<1>5. ASSUME NEW e \in Executor, RunnerStep(e)
      PROVE  \A f \in Executor : runner'[f].pc \in {"idle", "count", "rate", "dispatch"} /\ Held(f)' = {}
  <2>1. CASE Dequeue(e)
    <3>1. PICK ws \in SUBSET Workflow : Dispatching(e, ws)
      BY <2>1 DEF Dequeue, First, InStatus
    <3> QED
      BY <3>1, <1>2
  <2>2. ASSUME NEW w \in Workflow, Dispatch(e, w)
        PROVE  \A f \in Executor : runner'[f].pc \in {"idle", "count", "rate", "dispatch"} /\ Held(f)' = {}
    <3>1. runner[e].batch \ {w} \in SUBSET Workflow /\ Dispatching(e, runner[e].batch \ {w})
      BY <1>0, <2>2 DEF Dispatch, RunnerType
    <3> QED
      BY <3>1, <1>2
  <2>3. ~(CountRecent(e) \/ CountPending(e) \/ Select(e) \/ Claim(e) \/ Commit(e))
    BY <1>1 DEF CountRecent, CountPending, Select, Claim, Commit
  <2> QED
    BY <1>4, <1>5, <2>1, <2>2, <2>3 DEF RunnerStep
<1>6. ASSUME NEW e \in Executor, NEW w \in Workflow, DispatchFails(e, w)
      PROVE  \A f \in Executor : runner'[f].pc \in {"idle", "count", "rate", "dispatch"} /\ Held(f)' = {}
  <2>1. runner[e].batch \ {w} \in SUBSET Workflow /\ Dispatching(e, runner[e].batch \ {w})
    BY <1>0, <1>6 DEF DispatchFails, RunnerType
  <2> QED
    BY <2>1, <1>2
<1>7. ASSUME NEW e \in Executor, Crash(e)
      PROVE  \A f \in Executor : runner'[f].pc \in {"idle", "count", "rate", "dispatch"} /\ Held(f)' = {}
  <2>1. runner'[e] = Idle /\ \A f \in Executor \ {e} : runner'[f] = runner[f]
    BY <1>0, <1>7 DEF Crash
  <2> QED
    BY <1>1, <2>1 DEF Held, Idle
<1>8. ASSUME Tick
      PROVE  \A f \in Executor : runner'[f].pc \in {"idle", "count", "rate", "dispatch"} /\ Held(f)' = {}
  <2>1. \A f \in Executor : /\ runner'[f].pc = runner[f].pc
                            /\ \A w \in Workflow : runner[f].held[w] = None => runner'[f].held[w] = None
    BY <1>0, <1>8 DEF Tick, RunnerType
  <2> QED
    BY <1>1, <2>1 DEF Held
<1>9. CASE UNCHANGED vars
  BY <1>3, <1>9 DEF vars
<1> QED
  BY <1>3, <1>5, <1>6, <1>7, <1>8, <1>9
     DEF Next, RecoveryStep, BodyStep, Environment, Launch, Launched, Recover, EndBody, Leave,
         Enqueue, Cancel, RecoveryRequest

\* The parts of HandsInv beside the types.
Hands == Waiting /\ Owned /\ Apart /\ EmptyWhenDown /\ budget.pass = MaxPasses

\* The step of a process e keeps them if e takes only what is free, leaves what
\* the others hold alone or settles it, and has nothing when it is down.
LEMMA Local ==
    ASSUME Hands, NEW e \in Executor, budget'.pass = MaxPasses,
           \A f \in Executor \ {e} :
              /\ runner'[f] = runner[f] /\ running'[f] = running[f]
              /\ up'[f] = up[f] /\ todo'[f] = todo[f],
           \A f \in Executor \ {e} : \A w \in Held(f) : row'[w].status = "ENQUEUED" /\ w \notin Held(e)',
           \A f \in Executor \ {e} : \A w \in Mine(f) \cup todo[f] :
              row'[w] = row[w] \/ row'[w].status \in {"SUCCESS", "CANCELLED"},
           \A f \in Executor \ {e} : Mine(f) \cap Mine(e)' = {},
           \A w \in Held(e)' : row'[w].status = "ENQUEUED",
           \A w \in Mine(e)' \cup todo'[e] :
              \/ row'[w].status \in {"SUCCESS", "CANCELLED"}
              \/ row'[w].status = "PENDING" /\ row'[w].executor = e,
           up'[e] # "up" => runner'[e] = Idle /\ running'[e] = {},
           todo'[e] # {} => up'[e] = "launching"
    PROVE  Hands'
<1>1. \A f \in Executor \ {e} : Held(f)' = Held(f) /\ Mine(f)' = Mine(f)
  BY DEF Held, Mine
<1>2. Waiting'
  BY <1>1 DEF Waiting
<1>3. Owned'
  BY <1>1 DEF Hands, Owned
<1>4. Apart'
  BY <1>1 DEF Hands, Apart
<1>5. EmptyWhenDown'
  <2> SUFFICES ASSUME NEW f \in Executor
               PROVE  /\ up'[f] # "up" => runner'[f] = Idle /\ running'[f] = {}
                      /\ todo'[f] # {} => up'[f] = "launching"
    BY DEF EmptyWhenDown, Idle
  <2> QED
    BY DEF Hands, EmptyWhenDown
<1> QED
  BY <1>2, <1>3, <1>4, <1>5 DEF Hands

\* So does a step that moves nothing in memory and leaves what anybody holds
\* alone or settles it.
LEMMA Quiet ==
    ASSUME Hands, UNCHANGED <<running, up, todo>>, budget'.pass = MaxPasses,
           \A e \in Executor : runner'[e].batch = runner[e].batch /\ Held(e)' = Held(e)
                               /\ (up[e] # "up" => runner'[e] = Idle),
           \A e \in Executor : \A w \in Held(e) : row'[w].status = row[w].status,
           \A e \in Executor : \A w \in Mine(e) \cup todo[e] :
              \/ row'[w].status = row[w].status /\ row'[w].executor = row[w].executor
              \/ row'[w].status \in {"SUCCESS", "CANCELLED"}
    PROVE  Hands'
<1>1. \A e \in Executor : Mine(e)' = Mine(e)
  BY DEF Mine
<1>2. Waiting'
  BY DEF Hands, Waiting
<1>3. Owned'
  BY <1>1 DEF Hands, Owned
<1>4. Apart'
  BY <1>1 DEF Hands, Apart
<1>5. EmptyWhenDown'
  <2> SUFFICES ASSUME NEW f \in Executor
               PROVE  /\ up'[f] # "up" => runner'[f] = Idle /\ running'[f] = {}
                      /\ todo'[f] # {} => up'[f] = "launching"
    BY DEF EmptyWhenDown, Idle
  <2> QED
    BY DEF Hands, EmptyWhenDown
<1> QED
  BY <1>2, <1>3, <1>4, <1>5 DEF Hands

\* What a process may have in its hands.
LEMMA HandSets ==
    ASSUME TypeOK, NEW e \in Executor
    PROVE  Mine(e) \subseteq Workflow /\ todo[e] \subseteq Workflow /\ Held(e) \subseteq Workflow
<1>1. runner[e].batch \subseteq Workflow
  BY DEF TypeOK, RunnerType
<1>2. running[e] \subseteq Workflow /\ todo[e] \subseteq Workflow
  BY DEF TypeOK
<1> QED
  BY <1>1, <1>2 DEF Mine, Held

\* The claim of free workflows, at the end of a transaction.
LEMMA ClaimHands ==
    ASSUME TypeOK, Hands, NEW e \in Executor, NEW ws \in SUBSET Workflow,
           runner[e] # Idle, Dispatching(e, ws),
           \A w \in ws : row[w].status = "ENQUEUED",
           \A f \in Executor \ {e} : Held(f) \cap ws = {},
           \A w \in ws : row'[w].status = "PENDING" /\ row'[w].executor = e,
           \A w \in Workflow \ ws : row'[w] = row[w],
           UNCHANGED <<running, up, todo, budget>>
    PROVE  Hands'
<1>1. Held(e)' = {} /\ runner'[e].batch = ws /\ \A f \in Executor \ {e} : runner'[f] = runner[f]
  BY Dispatched
<1>2. Mine(e)' = running[e] \cup ws
  BY <1>1 DEF Mine
<1>3. \A f \in Executor : (Mine(f) \cup todo[f]) \cap ws = {} /\ running[f] \subseteq Mine(f)
  BY DEF Hands, Owned, Mine
<1>4. \A f \in Executor \ {e} : Mine(f) \cap Mine(e) = {}
  BY DEF Hands, Apart
<1>5. \A w \in Mine(e)' \cup todo'[e] :
        \/ row'[w].status \in {"SUCCESS", "CANCELLED"}
        \/ row'[w].status = "PENDING" /\ row'[w].executor = e
  <2> SUFFICES ASSUME NEW w \in Mine(e)' \cup todo'[e], w \notin ws
               PROVE  \/ row'[w].status \in {"SUCCESS", "CANCELLED"}
                      \/ row'[w].status = "PENDING" /\ row'[w].executor = e
    OBVIOUS
  <2>1. w \in Mine(e) \cup todo[e]
    BY <1>2, <1>3
  <2>2. row'[w] = row[w]
    BY <2>1, HandSets
  <2> QED
    BY <2>1, <2>2 DEF Hands, Owned
<1>6. \A f \in Executor \ {e} : \A w \in Held(f) : row'[w].status = "ENQUEUED" /\ w \notin Held(e)'
  BY <1>1, HandSets DEF Hands, Waiting
<1>7. \A f \in Executor \ {e} : \A w \in Mine(f) \cup todo[f] : row'[w] = row[w]
  BY <1>3, HandSets
<1>8. \A f \in Executor \ {e} : Mine(f) \cap Mine(e)' = {}
  BY <1>2, <1>3, <1>4
<1>9. up'[e] = "up" /\ todo'[e] = {}
  BY DEF Hands, EmptyWhenDown
<1>10. budget'.pass = MaxPasses
  BY DEF Hands
<1> QED
  BY <1>1, <1>5, <1>6, <1>7, <1>8, <1>9, <1>10, Local

\* The transaction of e loses what it held and claims nothing, or its batch
\* loses a workflow: nothing is taken.
LEMMA LessHands ==
    ASSUME TypeOK, Hands, NEW e \in Executor, NEW ws \in SUBSET Workflow, ws \subseteq runner[e].batch,
           Dispatching(e, ws) \/ (runner' = [runner EXCEPT ![e] = Idle] /\ ws = {}),
           UNCHANGED <<row, running, up, todo>>, budget'.pass = MaxPasses
    PROVE  Hands'
<1>0. runner \in [Executor -> RunnerType]
  BY DEF TypeOK
<1>1. /\ Held(e)' = {} /\ runner'[e].batch = ws
      /\ \A f \in Executor \ {e} : runner'[f] = runner[f]
  <2>1. CASE Dispatching(e, ws)
    BY <2>1, Dispatched
  <2>2. CASE runner' = [runner EXCEPT ![e] = Idle] /\ ws = {}
    BY <1>0, <2>2 DEF Held, Idle
  <2> QED
    BY <2>1, <2>2
<1>2. Mine(e)' \subseteq Mine(e)
  BY <1>1 DEF Mine
<1>3. \A f \in Executor \ {e} : \A w \in Held(f) : row'[w].status = "ENQUEUED" /\ w \notin Held(e)'
  BY <1>1 DEF Hands, Waiting
<1>4. \A f \in Executor \ {e} : Mine(f) \cap Mine(e)' = {}
  BY <1>2 DEF Hands, Apart
<1>5. \A w \in Mine(e)' \cup todo'[e] :
        \/ row'[w].status \in {"SUCCESS", "CANCELLED"}
        \/ row'[w].status = "PENDING" /\ row'[w].executor = e
  BY <1>2 DEF Hands, Owned
<1>6. /\ up'[e] # "up" => runner'[e] = Idle /\ running'[e] = {}
      /\ todo'[e] # {} => up'[e] = "launching"
  <2>1. up'[e] # "up" => runner[e] = Idle /\ running[e] = {}
    BY DEF Hands, EmptyWhenDown
  <2>2. runner[e] = Idle => ws = {}
    BY DEF Idle
  <2>3. ws = {} => runner'[e] = Idle
    BY <1>0 DEF Dispatching
  <2> QED
    BY <2>1, <2>2, <2>3 DEF Hands, EmptyWhenDown
<1> QED
  BY <1>1, <1>3, <1>4, <1>5, <1>6, Local

\* A step that turns only rows nobody holds, and of a runner only what it has read.
LEMMA ReadHands ==
    ASSUME TypeOK, Hands, UNCHANGED <<running, up, todo, budget>>,
           \A e \in Executor : /\ runner'[e].batch = runner[e].batch /\ runner'[e].held = runner[e].held
                               /\ up[e] # "up" => runner'[e] = runner[e],
           \A w \in Workflow : row'[w] = row[w] \/ row[w].status \in {"ABSENT", "DELAYED"}
    PROVE  Hands'
<1>1. \A e \in Executor : \A w \in Held(e) : row'[w].status = row[w].status
  BY HandSets DEF Hands, Waiting
<1>2. \A e \in Executor : \A w \in Mine(e) \cup todo[e] : row'[w] = row[w]
  BY HandSets DEF Hands, Owned
<1>3. \A e \in Executor : Held(e)' = Held(e) /\ (up[e] # "up" => runner'[e] = Idle)
  BY DEF Held, Hands, EmptyWhenDown
<1>4. budget'.pass = MaxPasses
  BY DEF Hands
<1> QED
  BY <1>1, <1>2, <1>3, <1>4, Quiet

\* The next state of a runner that has only read something.
LEMMA ReadRunner ==
    ASSUME NEW x \in RunnerType, NEW y,
           \/ \E p : y = [x EXCEPT !.pc = p]
           \/ \E p, n : y = [x EXCEPT !.pc = p, !.local = n]
           \/ \E p, n : y = [x EXCEPT !.pc = p, !.recent = n]
           \/ \E p, n : y = [x EXCEPT !.pc = p, !.room = n]
           \/ \E p, n : y = [x EXCEPT !.pc = p, !.ids = n]
    PROVE  y.batch = x.batch /\ y.held = x.held
  BY DEF RunnerType

\* The steps that poll, on either backend, keep HandsInv.
LEMMA PollHands ==
    ASSUME HandsInv, NEW e \in Executor,
           Promote(e) \/ CountLocal(e) \/ CountRecent(e) \/ CountPending(e) \/ Select(e)
    PROVE  Hands'
<1>0. TypeOK /\ Hands
  BY DEF HandsInv, Hands
<1>1. runner \in [Executor -> RunnerType] /\ {} \subseteq runner[e].batch
  BY <1>0 DEF TypeOK
<1>2. up[e] = "up"
  <2>1. Idle.pc = "idle"
    BY DEF Idle
  <2> QED
    BY <2>1, <1>0 DEF Promote, CountLocal, CountRecent, CountPending, Select, Hands, EmptyWhenDown
<1>3. budget'.pass = MaxPasses /\ UNCHANGED <<running, up, todo, budget>>
  BY <1>0 DEF Promote, CountLocal, CountRecent, CountPending, Select, bodies, Hands
<1>4. ASSUME NEW y, runner' = [runner EXCEPT ![e] = y],
             y.batch = runner[e].batch /\ y.held = runner[e].held,
             \A w \in Workflow : row'[w] = row[w] \/ row[w].status \in {"ABSENT", "DELAYED"}
      PROVE Hands'
  <2>1. \A f \in Executor : /\ runner'[f].batch = runner[f].batch /\ runner'[f].held = runner[f].held
                            /\ up[f] # "up" => runner'[f] = runner[f]
    BY <1>1, <1>2, <1>4
  <2> QED
    BY <2>1, <1>0, <1>3, <1>4, ReadHands
<1>5. ASSUME runner' = [runner EXCEPT ![e] = Idle], UNCHANGED row PROVE Hands'
  <2> DEFINE none == {}
  <2>1. none \in SUBSET Workflow /\ none \subseteq runner[e].batch /\ none = {}
    OBVIOUS
  <2>2. UNCHANGED <<row, running, up, todo>> /\ budget'.pass = MaxPasses
    BY <1>3, <1>5
  <2> HIDE DEF none
  <2> QED
    BY <2>1, <2>2, <1>0, <1>5, LessHands
<1>6. CASE Promote(e)
  <2> DEFINE y == [runner[e] EXCEPT !.pc = "count"]
  <2>1. y.batch = runner[e].batch /\ y.held = runner[e].held
    BY <1>1, ReadRunner
  <2>2. runner' = [runner EXCEPT ![e] = y]
    BY <1>6 DEF Promote
  <2>3. \A w \in Workflow : row'[w] = row[w] \/ row[w].status \in {"ABSENT", "DELAYED"}
    BY <1>6 DEF Promote
  <2> HIDE DEF y
  <2> QED
    BY <2>1, <2>2, <2>3, <1>4
<1>7. CASE CountLocal(e)
  <2> DEFINE y == [runner[e] EXCEPT !.pc = "rate", !.local = Cardinality(counted[e])]
  <2>1. y.batch = runner[e].batch /\ y.held = runner[e].held
    BY <1>1, ReadRunner
  <2>2. runner' = [runner EXCEPT ![e] = y] /\ UNCHANGED row
    BY <1>7 DEF CountLocal
  <2> HIDE DEF y
  <2> QED
    BY <2>1, <2>2, <1>4
<1>8. CASE CountRecent(e)
  <2> DEFINE n == IF StartLimit = None THEN 0 ELSE RecentStarts
             y == [runner[e] EXCEPT !.pc = "limit", !.recent = n]
  <2>0. runner[e] \in RunnerType
    BY <1>1
  <2>1. y.batch = runner[e].batch /\ y.held = runner[e].held
    BY <2>0 DEF RunnerType
  <2>2. (runner' = [runner EXCEPT ![e] = y] \/ runner' = [runner EXCEPT ![e] = Idle]) /\ UNCHANGED row
    BY <1>8 DEF CountRecent
  <2> HIDE DEF y
  <2> QED
    BY <2>1, <2>2, <1>4, <1>5
<1>9. CASE CountPending(e)
  <2> DEFINE y == [runner[e] EXCEPT !.pc = "select", !.room = Room(runner[e].local)]
  <2>1. y.batch = runner[e].batch /\ y.held = runner[e].held
    BY <1>1, ReadRunner
  <2>2. (runner' = [runner EXCEPT ![e] = y] \/ runner' = [runner EXCEPT ![e] = Idle]) /\ UNCHANGED row
    BY <1>9 DEF CountPending
  <2> HIDE DEF y
  <2> QED
    BY <2>1, <2>2, <1>4, <1>5
<1>10. CASE Select(e)
  <2> DEFINE y == [runner[e] EXCEPT !.pc = "claim", !.ids = First(runner[e].room)]
  <2>1. y.batch = runner[e].batch /\ y.held = runner[e].held
    BY <1>1, ReadRunner
  <2>2. runner' = [runner EXCEPT ![e] = y] /\ UNCHANGED row
    BY <1>10 DEF Select
  <2> HIDE DEF y
  <2> QED
    BY <2>1, <2>2, <1>4
<1> QED
  BY <1>6, <1>7, <1>8, <1>9, <1>10

\* The statements of a Postgres dequeue keep HandsInv.
LEMMA TransactionHands ==
    ASSUME HandsInv, OneStatement, NEW e \in Executor, Dequeue(e) \/ Claim(e) \/ Commit(e)
    PROVE  Hands'
<1>0. TypeOK /\ Hands
  BY DEF HandsInv, Hands
<1>t. row \in [Workflow -> RowType] /\ runner \in [Executor -> RunnerType]
  BY <1>0 DEF TypeOK
<1>i. Idle.pc = "idle"
  BY DEF Idle
<1>1. CASE Dequeue(e)
  <2> DEFINE ws == IF StartLimit # None /\ RecentStarts >= StartLimit THEN {}
                   ELSE First(Allowed(Room(runner[e].local), RecentStarts))
  <2>1. ws \in SUBSET Workflow /\ \A w \in ws : row[w].status = "ENQUEUED"
    BY DEF First, InStatus
  <2>2. /\ Dispatching(e, ws) /\ runner[e] # Idle
        /\ \A w \in Workflow : row'[w] = IF w \in ws THEN Claimed(w, e, 0) ELSE row[w]
        /\ UNCHANGED <<running, up, todo, budget>>
    BY <1>1, <1>i DEF Dequeue, bodies
  <2>3. \A f \in Executor \ {e} : Held(f) \cap ws = {}
    BY <1>1 DEF Dequeue, OneStatement
  <2> HIDE DEF ws
  <2>4. \A w \in ws : row'[w].status = "PENDING" /\ row'[w].executor = e
    BY <2>1, <2>2, <1>t, ClaimedFields
  <2>5. \A w \in Workflow \ ws : row'[w] = row[w]
    BY <2>2
  <2> QED
    BY <2>1, <2>2, <2>3, <2>4, <2>5, <1>0, ClaimHands
<1>2. CASE Claim(e)
  <2>1. PICK w \in runner[e].ids :
          /\ ~Locked(w)
          /\ runner' = [runner EXCEPT ![e] = Tried(runner[e], w, row[w].status = "ENQUEUED")]
    BY <1>2 DEF Claim
  <2>2. UNCHANGED <<row, running, up, todo, budget>> /\ runner[e] # Idle
    BY <1>2, <1>i DEF Claim, bodies
  <2>3. up[e] = "up"
    BY <2>2, <1>0 DEF Hands, EmptyWhenDown
  <2>4. /\ runner'[e].batch = runner[e].batch
        /\ Held(e)' \subseteq Held(e) \cup {w}
        /\ w \in Held(e)' \ Held(e) => row[w].status = "ENQUEUED"
    <3>1. runner'[e] = Tried(runner[e], w, row[w].status = "ENQUEUED") /\ runner[e] \in RunnerType
      BY <2>1, <1>t
    <3>2. runner'[e].batch = runner[e].batch
      BY <3>1 DEF Tried, RunnerType
    <3>3. runner'[e].held = IF row[w].status = "ENQUEUED" THEN [runner[e].held EXCEPT ![w] = 0]
                            ELSE runner[e].held
      BY <3>1 DEF Tried, RunnerType
    <3>4. runner[e].held \in [Workflow -> Age \cup {None}]
      BY <3>1 DEF RunnerType
    <3> QED
      BY <3>2, <3>3, <3>4 DEF Held
  <2>5. Mine(e)' = Mine(e)
    BY <2>2, <2>4 DEF Mine
  <2>6. \A f \in Executor \ {e} : /\ runner'[f] = runner[f] /\ running'[f] = running[f]
                                  /\ up'[f] = up[f] /\ todo'[f] = todo[f]
    BY <2>1, <2>2, <1>t
  <2>7. \A f \in Executor \ {e} : \A v \in Held(f) : row'[v].status = "ENQUEUED" /\ v \notin Held(e)'
    <3>1. \A f \in Executor \ {e} : w \notin Held(f) /\ Held(f) \cap Held(e) = {}
      BY <2>1, <1>0 DEF Locked, Hands, Apart
    <3>2. \A f \in Executor \ {e} : \A v \in Held(f) : row'[v].status = "ENQUEUED"
      BY <2>2, <1>0 DEF Hands, Waiting
    <3> QED
      BY <2>4, <3>1, <3>2
  <2>8. \A f \in Executor \ {e} : \A v \in Mine(f) \cup todo[f] : row'[v] = row[v]
    BY <2>2
  <2>9. \A f \in Executor \ {e} : Mine(f) \cap Mine(e)' = {}
    BY <2>5, <1>0 DEF Hands, Apart
  <2>10. \A v \in Held(e)' : row'[v].status = "ENQUEUED"
    BY <2>2, <2>4, <1>0 DEF Hands, Waiting
  <2>11. \A v \in Mine(e)' \cup todo'[e] :
           \/ row'[v].status \in {"SUCCESS", "CANCELLED"}
           \/ row'[v].status = "PENDING" /\ row'[v].executor = e
    BY <2>2, <2>5, <1>0 DEF Hands, Owned
  <2>12. budget'.pass = MaxPasses /\ up'[e] = "up" /\ todo'[e] = {}
    BY <2>2, <2>3, <1>0 DEF Hands, EmptyWhenDown
  <2> QED
    BY <2>6, <2>7, <2>8, <2>9, <2>10, <2>11, <2>12, <1>0, Local
<1>3. CASE Commit(e)
  <2>1. Held(e) \in SUBSET Workflow /\ \A w \in Held(e) : row[w].status = "ENQUEUED"
    BY <1>0, HandSets DEF Hands, Waiting
  <2>2. /\ Dispatching(e, Held(e)) /\ runner[e] # Idle
        /\ \A w \in Workflow : row'[w] = IF w \in Held(e) THEN Claimed(w, e, runner[e].held[w]) ELSE row[w]
        /\ UNCHANGED <<running, up, todo, budget>>
    BY <1>3, <1>i DEF Commit, bodies
  <2>3. \A f \in Executor \ {e} : Held(f) \cap Held(e) = {}
    BY <1>0 DEF Hands, Apart
  <2>4. \A w \in Held(e) : row'[w].status = "PENDING" /\ row'[w].executor = e
    BY <2>1, <2>2, <1>t, ClaimedFields
  <2>5. \A w \in Workflow \ Held(e) : row'[w] = row[w]
    BY <2>2
  <2> QED
    BY <2>1, <2>2, <2>3, <2>4, <2>5, <1>0, ClaimHands
<1> QED
  BY <1>1, <1>2, <1>3

\* Dispatching a claimed workflow and ending its body keep HandsInv.
LEMMA DispatchHands ==
    ASSUME HandsInv, NEW e \in Executor, NEW w \in Workflow, Dispatch(e, w) \/ EndBody(e, w)
    PROVE  Hands'
<1>0. TypeOK /\ Hands
  BY DEF HandsInv, Hands
<1>t. /\ row \in [Workflow -> RowType] /\ runner \in [Executor -> RunnerType]
      /\ running \in [Executor -> SUBSET Workflow]
  BY <1>0 DEF TypeOK
<1>1. /\ w \in Mine(e) /\ ~Locked(w)
      /\ \A v \in Workflow \ {w} : row'[v] = row[v]
      /\ \/ row'[w].status = row[w].status /\ row'[w].executor = e
         \/ row'[w].status \in {"SUCCESS", "CANCELLED"}
  <2>1. CASE Dispatch(e, w)
    <3>1. row' = [row EXCEPT ![w] = [row[w] EXCEPT !.executor = e]]
      BY <2>1 DEF Dispatch
    <3>2. row'[w].status = row[w].status /\ row'[w].executor = e
      BY <3>1, <1>t DEF RowType
    <3> QED
      BY <2>1, <3>1, <3>2, <1>t DEF Dispatch, Mine
  <2>2. CASE EndBody(e, w)
    <3>1. \/ row[w].status = "CANCELLED" /\ row' = row
          \/ row' = [row EXCEPT ![w] = [row[w] EXCEPT !.status = "SUCCESS"]]
      BY <2>2 DEF EndBody
    <3>2. row'[w].status \in {"SUCCESS", "CANCELLED"}
      BY <3>1, <1>t DEF RowType
    <3> QED
      BY <2>2, <3>1, <3>2, <1>t DEF EndBody, Mine
  <2> QED
    BY <2>1, <2>2
<1>2. /\ UNCHANGED <<up, todo, budget>>
      /\ \A f \in Executor \ {e} : runner'[f] = runner[f] /\ running'[f] = running[f]
      /\ Held(e)' \subseteq Held(e) /\ Mine(e)' \subseteq Mine(e)
      /\ running[e] = {} => (running'[e] = {} \/ runner[e] # Idle)
      /\ runner[e] = Idle => runner'[e] = Idle
  <2>1. CASE Dispatch(e, w)
    <3>1. runner[e].batch \ {w} \in SUBSET Workflow /\ Dispatching(e, runner[e].batch \ {w})
          /\ w \in runner[e].batch
      BY <2>1, <1>t DEF Dispatch, RunnerType
    <3>2. /\ Held(e)' = {} /\ runner'[e].batch = runner[e].batch \ {w}
          /\ \A f \in Executor \ {e} : runner'[f] = runner[f]
      BY <3>1, <1>0, Dispatched
    <3>3. running' = running \/ running' = [running EXCEPT ![e] = running[e] \cup {w}]
      BY <2>1 DEF Dispatch
    <3>4. runner[e] # Idle
      BY <3>1 DEF Idle
    <3>5. UNCHANGED <<up, todo, budget>>
      BY <2>1 DEF Dispatch
    <3>6. /\ running'[e] \subseteq running[e] \cup {w}
          /\ \A f \in Executor \ {e} : running'[f] = running[f]
      BY <3>3, <1>t
    <3> QED
      BY <3>1, <3>2, <3>4, <3>5, <3>6 DEF Mine
  <2>2. CASE EndBody(e, w)
    <3>1. running'[e] \subseteq running[e] /\ \A f \in Executor \ {e} : running'[f] = running[f]
      BY <2>2, <1>t DEF EndBody
    <3> QED
      BY <2>2, <3>1 DEF EndBody, Held, Mine
  <2> QED
    BY <2>1, <2>2
<1>3. \A f \in Executor \ {e} : \A v \in Held(f) : row'[v].status = "ENQUEUED" /\ v \notin Held(e)'
  <2>1. \A f \in Executor : w \notin Held(f)
    BY <1>1 DEF Locked
  <2> QED
    BY <2>1, <1>0, <1>1, <1>2, HandSets DEF Hands, Waiting, Apart
<1>4. \A f \in Executor \ {e} : \A v \in Mine(f) \cup todo[f] :
        row'[v] = row[v] \/ row'[v].status \in {"SUCCESS", "CANCELLED"}
  <2>1. \A f \in Executor \ {e} : w \notin Mine(f)
    BY <1>0, <1>1 DEF Hands, Apart
  <2>2. \A f \in Executor \ {e} : w \in todo[f] => row[w].status \in {"SUCCESS", "CANCELLED"}
    BY <1>0, <1>1 DEF Hands, Owned
  <2> QED
    BY <2>1, <2>2, <1>0, <1>1, HandSets
<1>5. \A f \in Executor \ {e} : Mine(f) \cap Mine(e)' = {}
  BY <1>0, <1>2 DEF Hands, Apart
<1>6. \A v \in Held(e)' : row'[v].status = "ENQUEUED"
  BY <1>0, <1>1, <1>2, HandSets DEF Hands, Waiting, Locked
<1>7. \A v \in Mine(e)' \cup todo'[e] :
        \/ row'[v].status \in {"SUCCESS", "CANCELLED"}
        \/ row'[v].status = "PENDING" /\ row'[v].executor = e
  <2> SUFFICES ASSUME NEW v \in Mine(e) \cup todo[e]
               PROVE  \/ row'[v].status \in {"SUCCESS", "CANCELLED"}
                      \/ row'[v].status = "PENDING" /\ row'[v].executor = e
    BY <1>2
  <2>1. \/ row[v].status \in {"SUCCESS", "CANCELLED"}
        \/ row[v].status = "PENDING" /\ row[v].executor = e
    BY <1>0 DEF Hands, Owned
  <2>2. v \in Workflow
    BY <1>0, HandSets
  <2> QED
    BY <1>1, <2>1, <2>2
<1>8. /\ up'[e] # "up" => runner'[e] = Idle /\ running'[e] = {}
      /\ todo'[e] # {} => up'[e] = "launching"
  BY <1>0, <1>2 DEF Hands, EmptyWhenDown
<1>9. budget'.pass = MaxPasses
  BY <1>0, <1>2 DEF Hands
<1> QED
  BY <1>0, <1>2, <1>3, <1>4, <1>5, <1>6, <1>7, <1>8, <1>9, Local

\* A restart and the recovery of a process's own rows keep HandsInv.
LEMMA RecoveryHands ==
    ASSUME HandsInv, NEW e \in Executor, Launch(e) \/ Launched(e) \/ \E w \in Workflow : Recover(e, w)
    PROVE  Hands'
<1>0. TypeOK /\ Hands
  BY DEF HandsInv, Hands
<1>t. /\ row \in [Workflow -> RowType] /\ todo \in [Executor -> SUBSET Workflow]
      /\ up \in [Executor -> {"down", "launching", "up"}]
  BY <1>0 DEF TypeOK
<1>1. /\ up[e] # "up" /\ UNCHANGED <<runner, running, budget>>
      /\ runner[e] = Idle /\ running[e] = {}
  <2>1. up[e] # "up" /\ UNCHANGED <<runner, running, budget>>
    BY <1>0 DEF Launch, Launched, Recover, bodies, Hands, EmptyWhenDown
  <2> QED
    BY <2>1, <1>0 DEF Hands, EmptyWhenDown
<1>2. /\ \A f \in Executor : Held(f)' = Held(f) /\ Mine(f)' = Mine(f)
      /\ Held(e) = {} /\ Mine(e) = {}
  BY <1>1, IdleHands DEF Held, Mine
<1>3. \A f \in Executor \ {e} : up'[f] = up[f] /\ todo'[f] = todo[f]
  BY <1>t DEF Launch, Launched, Recover
<1>4. /\ todo'[e] # {} => up'[e] = "launching"
      /\ todo'[e] \subseteq todo[e] \cup PendingOf(e)
      /\ \/ UNCHANGED row
         \/ \E w \in todo[e] \ todo'[e] : row' = [row EXCEPT ![w] = Cleared(w)]
  BY <1>0, <1>t DEF Launch, Launched, Recover, Hands, EmptyWhenDown
<1>5. \A w \in todo[e] \cup PendingOf(e) :
        \/ row[w].status \in {"SUCCESS", "CANCELLED"}
        \/ row[w].status = "PENDING" /\ row[w].executor = e
  BY <1>0 DEF Hands, Owned, PendingOf, InStatus
<1>6. \A w \in Workflow : row'[w] = row[w] \/ (w \in todo[e] \ todo'[e] /\ row[w].status = "PENDING")
  <2>1. \A w \in Workflow : row[w].status # "PENDING" => Cleared(w) = row[w]
    BY DEF Cleared
  <2> QED
    BY <1>t, <1>4, <2>1
<1>7. \A w \in todo'[e] : \/ row'[w].status \in {"SUCCESS", "CANCELLED"}
                          \/ row'[w].status = "PENDING" /\ row'[w].executor = e
  <2>1. todo'[e] \subseteq Workflow
    BY <1>4, <1>t DEF PendingOf, InStatus
  <2> QED
    BY <1>4, <1>5, <1>6, <2>1
<1>8. \A f \in Executor \ {e} : \A w \in Held(f) \cup Mine(f) \cup todo[f] : row'[w] = row[w]
  <2>1. \A f \in Executor \ {e} : \A w \in Held(f) \cup Mine(f) \cup todo[f] :
          ~(w \in todo[e] /\ row[w].status = "PENDING")
    BY <1>0, <1>5 DEF Hands, Waiting, Owned
  <2> QED
    BY <2>1, <1>0, <1>6, HandSets
<1>9. \A f \in Executor \ {e} : \A w \in Held(f) : row'[w].status = "ENQUEUED" /\ w \notin Held(e)'
  BY <1>0, <1>2, <1>8 DEF Hands, Waiting
<1>10. budget'.pass = MaxPasses
  BY <1>0, <1>1 DEF Hands
<1> QED
  BY <1>0, <1>1, <1>2, <1>3, <1>4, <1>7, <1>8, <1>9, <1>10, Local

\* A crash keeps HandsInv: it only empties hands.
LEMMA CrashHands ==
    ASSUME HandsInv, NEW e \in Executor, Crash(e)
    PROVE  Hands'
<1>0. TypeOK /\ Hands
  BY DEF HandsInv, Hands
<1>1. /\ \A f \in Executor \ {e} : /\ runner'[f] = runner[f] /\ running'[f] = running[f]
                                   /\ up'[f] = up[f] /\ todo'[f] = todo[f]
      /\ runner'[e] = Idle /\ running'[e] = {} /\ todo'[e] = {} /\ UNCHANGED row
      /\ budget'.pass = budget.pass
  BY <1>0 DEF Crash, TypeOK, Budget
<1>2. Held(e)' = {} /\ Mine(e)' = {}
  BY <1>1 DEF Held, Mine, Idle
<1>3. \A f \in Executor \ {e} : \A w \in Held(f) : row'[w].status = "ENQUEUED" /\ w \notin Held(e)'
  BY <1>0, <1>1, <1>2 DEF Hands, Waiting
<1>4. budget'.pass = MaxPasses
  BY <1>0, <1>1 DEF Hands
<1> QED
  BY <1>0, <1>1, <1>2, <1>3, <1>4, Local

\* Steps that move nothing from hand to hand.
LEMMA OtherHands ==
    ASSUME HandsInv,
           \/ \E w \in Workflow : Enqueue(w) \/ Cancel(w)
           \/ \E e \in Executor, w \in Workflow : Leave(e, w)
           \/ Tick \/ UNCHANGED vars
    PROVE  Hands'
<1>0. TypeOK /\ Hands
  BY DEF HandsInv, Hands
<1>t. row \in [Workflow -> RowType] /\ runner \in [Executor -> RunnerType]
  BY <1>0 DEF TypeOK
<1>1. UNCHANGED <<running, up, todo>> /\ budget'.pass = MaxPasses
  BY <1>0 DEF Enqueue, Cancel, Leave, Tick, vars, bodies, Hands, TypeOK, Budget
<1>2. /\ \A e \in Executor : runner'[e].batch = runner[e].batch /\ Held(e)' = Held(e)
      /\ \A e \in Executor : runner[e] = Idle => runner'[e] = Idle
  <2>1. CASE UNCHANGED runner
    BY <2>1 DEF Held
  <2>2. CASE Tick
    <3> SUFFICES ASSUME NEW e \in Executor
                 PROVE  /\ runner'[e].batch = runner[e].batch /\ Held(e)' = Held(e)
                        /\ runner[e] = Idle => runner'[e] = Idle
      OBVIOUS
    <3> DEFINE h == [w \in Workflow |-> IF runner[e].held[w] = None THEN None
                                       ELSE Older(runner[e].held[w])]
    <3>1. runner'[e] = [runner[e] EXCEPT !.held = h]
      BY <2>2 DEF Tick
    <3>2. \A w \in Workflow : h[w] # None <=> runner[e].held[w] # None
      <4>1. runner[e].held \in [Workflow -> Age \cup {None}] /\ None \notin Age
        BY <1>t DEF RunnerType, Age
      <4>2. \A w \in Workflow : runner[e].held[w] # None => Older(runner[e].held[w]) # None
        BY <4>1, OlderType
      <4> QED
        BY <4>2
    <3>3. runner[e].held = [w \in Workflow |-> None] => h = runner[e].held
      OBVIOUS
    <3> HIDE DEF h
    <3>r. runner[e] \in RunnerType
      BY <1>t
    <3>4. runner'[e].batch = runner[e].batch /\ runner'[e].held = h
      BY <3>1, <3>r DEF RunnerType
    <3>5. runner[e] = Idle => runner'[e] = Idle
      <4> SUFFICES ASSUME runner[e] = Idle PROVE runner'[e] = Idle
        OBVIOUS
      <4>1. h = runner[e].held
        BY <3>3 DEF Idle
      <4> QED
        BY <3>1, <3>r, <4>1 DEF RunnerType
    <3> QED
      BY <3>2, <3>4, <3>5 DEF Held
  <2> QED
    BY <2>1, <2>2 DEF Enqueue, Cancel, Leave, vars
<1>3. \A w \in Workflow :
        \/ row'[w].status = row[w].status /\ row'[w].executor = row[w].executor
        \/ row[w].status = "ABSENT"
        \/ row'[w].status = "CANCELLED" /\ ~Locked(w)
  <2>1. CASE \E w \in Workflow : Enqueue(w)
    BY <2>1, <1>t DEF Enqueue
  <2>2. CASE \E w \in Workflow : Cancel(w)
    <3>1. PICK w \in Workflow : Cancel(w)
      BY <2>2
    <3>2. /\ row' = [row EXCEPT ![w] = [row[w] EXCEPT !.status = "CANCELLED", !.queue = "null", !.age = Period]]
          /\ ~Locked(w)
      BY <3>1 DEF Cancel
    <3> QED
      BY <3>2, <1>t DEF RowType
  <2>3. CASE Tick
    BY <2>3, <1>t DEF Tick, RowType
  <2>4. CASE UNCHANGED row
    BY <2>4
  <2> QED
    BY <2>1, <2>2, <2>3, <2>4 DEF Leave, vars
<1>4. \A e \in Executor : \A w \in Held(e) : row'[w].status = row[w].status
  BY <1>0, <1>3, HandSets DEF Hands, Waiting, Locked
<1>5. \A e \in Executor : \A w \in Mine(e) \cup todo[e] :
        \/ row'[w].status = row[w].status /\ row'[w].executor = row[w].executor
        \/ row'[w].status \in {"SUCCESS", "CANCELLED"}
  BY <1>0, <1>3, HandSets DEF Hands, Owned
<1>6. \A e \in Executor : up[e] # "up" => runner'[e] = Idle
  BY <1>0, <1>2 DEF Hands, EmptyWhenDown
<1> QED
  BY <1>0, <1>1, <1>2, <1>4, <1>5, <1>6, Quiet

\* Bounds are used up and never come back.
LEMMA BudgetsFall ==
    ASSUME TypeOK, [Next]_vars
    PROVE  /\ {budget.crash, budget.cancel, budget.pass} \subseteq Nat
           /\ {budget'.crash, budget'.cancel, budget'.pass} \subseteq Nat
           /\ budget.crash <= MaxCrashes /\ budget.cancel <= MaxCancels /\ budget.pass <= MaxPasses
           /\ budget'.crash <= budget.crash /\ budget'.cancel <= budget.cancel
           /\ budget'.pass <= budget.pass
<1>1. budget \in Budget /\ budget' \in Budget
  BY StepType DEF TypeOK
<1>2. \/ budget' = budget
      \/ budget' = [budget EXCEPT !.failure = budget.failure - 1]
      \/ budget' = [budget EXCEPT !.crash = budget.crash - 1]
      \/ budget' = [budget EXCEPT !.pass = budget.pass - 1]
      \/ budget' = [budget EXCEPT !.cancel = budget.cancel - 1]
  BY DEF Next, RunnerStep, BodyStep, RecoveryStep, Environment, vars, Promote, CountLocal, CountRecent,
         CountPending, Select, Claim, Commit, Dequeue, Dispatch, DispatchFails, EndBody, Leave, Launch,
         Launched, Recover, RecoveryRequest, Crash, Tick, Enqueue, Cancel
<1>3. /\ {budget.crash, budget.cancel, budget.pass} \subseteq Nat
      /\ {budget'.crash, budget'.cancel, budget'.pass} \subseteq Nat
      /\ budget.crash <= MaxCrashes /\ budget.cancel <= MaxCancels /\ budget.pass <= MaxPasses
  BY <1>1 DEF Budget
<1>4. /\ budget'.crash <= budget.crash /\ budget'.cancel <= budget.cancel
      /\ budget'.pass <= budget.pass
  <2>1. CASE budget' = budget
    BY <1>3, <2>1
  <2>2. CASE budget' = [budget EXCEPT !.failure = budget.failure - 1]
    BY <1>1, <1>3, <2>2 DEF Budget
  <2>3. CASE budget' = [budget EXCEPT !.crash = budget.crash - 1]
    BY <1>1, <1>3, <2>3 DEF Budget
  <2>4. CASE budget' = [budget EXCEPT !.pass = budget.pass - 1]
    BY <1>1, <1>3, <2>4 DEF Budget
  <2>5. CASE budget' = [budget EXCEPT !.cancel = budget.cancel - 1]
    BY <1>1, <1>3, <2>5 DEF Budget
  <2> QED
    BY <1>2, <2>1, <2>2, <2>3, <2>4, <2>5
<1> QED
  BY <1>3, <1>4

\* Every step keeps the invariant until there is a pass for another process.
LEMMA HandsStep == HandsInv /\ OneStatement /\ [Next]_vars /\ budget'.pass = MaxPasses => HandsInv'
<1> SUFFICES ASSUME HandsInv, OneStatement, [Next]_vars, budget'.pass = MaxPasses PROVE HandsInv'
  OBVIOUS
<1>0. TypeOK' /\ budget.pass = MaxPasses
  BY StepType DEF HandsInv
<1>1. ASSUME NEW e \in Executor, RunnerStep(e) PROVE Hands'
  BY <1>1, PollHands, TransactionHands, DispatchHands DEF RunnerStep
<1>2. ASSUME NEW e \in Executor, RecoveryStep(e) PROVE Hands'
  BY <1>2, RecoveryHands DEF RecoveryStep
<1>3. ASSUME \/ \E w \in Workflow : Enqueue(w) \/ Cancel(w)
             \/ \E e \in Executor, w \in Workflow : Leave(e, w)
             \/ Tick \/ UNCHANGED vars
      PROVE  Hands'
  BY <1>3, OtherHands
<1>4. ASSUME NEW e \in Executor, NEW w \in Workflow, BodyStep(e, w) PROVE Hands'
  BY <1>4, <1>3, DispatchHands DEF BodyStep
<1>5. ASSUME Environment PROVE Hands'
  <2>1. ASSUME NEW e \in Executor, NEW w \in Workflow, DispatchFails(e, w) PROVE Hands'
    <3> DEFINE ws == runner[e].batch \ {w}
    <3>1. ws \in SUBSET Workflow /\ ws \subseteq runner[e].batch
      BY DEF HandsInv, TypeOK, RunnerType
    <3>2. Dispatching(e, ws) /\ UNCHANGED <<row, running, up, todo>> /\ budget'.pass = MaxPasses
      BY <2>1 DEF DispatchFails, bodies, HandsInv, TypeOK, Budget
    <3>3. TypeOK /\ Hands
      BY DEF HandsInv, Hands
    <3> HIDE DEF ws
    <3> QED
      BY <3>1, <3>2, <3>3, LessHands
  <2>2. ASSUME NEW e \in Executor, NEW target \in Executor PROVE ~RecoveryRequest(e, target)
    <3>1. budget \in Budget
      BY DEF HandsInv, TypeOK
    <3> QED
      BY <1>0, <3>1 DEF RecoveryRequest, Budget
  <2>3. ASSUME NEW e \in Executor, Crash(e) PROVE Hands'
    BY <2>3, CrashHands
  <2>4. CASE \E w \in Workflow : Enqueue(w) \/ Cancel(w)
    BY <1>3, <2>4
  <2> QED
    BY <1>5, <2>1, <2>2, <2>3, <2>4 DEF Environment
<1> QED
  BY <1>0, <1>1, <1>2, <1>3, <1>4, <1>5 DEF Next, HandsInv, Hands

\* What is proved by induction: the hands until there is a pass for another.
PassInv == TypeOK /\ OneStatement /\ (budget.pass = MaxPasses => HandsInv)

\* Every step keeps it.
LEMMA PassStep == PassInv /\ [Next]_vars => PassInv'
<1> SUFFICES ASSUME PassInv, [Next]_vars PROVE PassInv'
  OBVIOUS
<1>1. TypeOK' /\ OneStatement'
  BY StepType, OneStatementStep DEF PassInv
<1>2. budget'.pass = MaxPasses => budget.pass = MaxPasses
  BY BudgetsFall DEF PassInv
<1>3. budget'.pass = MaxPasses => HandsInv'
  BY <1>2, HandsStep DEF PassInv
<1> QED
  BY <1>1, <1>3 DEF PassInv

\* Nothing is in two hands: until a process recovers the workflows of another
\* one, a workflow of the queue is being claimed, dispatched or run by one
\* process at most, on both backends, whatever crashes, fails or is cancelled.
THEOREM NothingInTwoHands == Spec => []ClaimedOnce
<1>1. Init => PassInv
  BY HandsInit, OneStatementInit, InitType DEF PassInv
<1>2. PassInv /\ [Next]_vars => PassInv'
  BY PassStep
<1>3. HandsInv => ClaimedOnce
  <2> SUFFICES ASSUME HandsInv, NEW e \in Executor, NEW f \in Executor, e # f
               PROVE  InHands(e) \cap InHands(f) = {}
    BY DEF ClaimedOnce
  <2>1. Held(e) \cap Held(f) = {} /\ Mine(e) \cap Mine(f) = {}
    BY DEF HandsInv, Apart
  <2>2. Held(e) \cap Mine(f) = {} /\ Mine(e) \cap Held(f) = {}
    BY DEF HandsInv, Waiting, Owned
  <2> QED
    BY <2>1, <2>2 DEF InHands
<1>4. PassInv => ClaimedOnce
  BY <1>3 DEF PassInv, ClaimedOnce
<1> QED
  BY <1>1, <1>2, <1>4, PTL DEF Spec

------------------------------------------------------------------------------
(* The limits.  dequeue_workflows claims no more candidates than they      *)
(* leave, because the candidates stand in a line.                          *)

\* Workflows that were submitted have different ages: created_at orders them.
Submitted == Workflow \ InStatus("ABSENT")
Line ==
    /\ \A w \in Submitted : row[w].created < Cardinality(Submitted)
    /\ \A v, w \in Submitted : v # w => row[v].created # row[w].created

\* Nobody runs or dispatches a workflow that was not submitted.
Known == \A e \in Executor : Mine(e) \subseteq Submitted

LimitInv == TypeOK /\ OneStatement /\ Line /\ Known /\ GlobalLimitHolds

------------------------------------------------------------------------------
(* The candidates.                                                         *)

\* Of two workflows that wait one goes before the other.
LEMMA TotalOrder ==
    ASSUME TypeOK, Line, NEW v \in InStatus("ENQUEUED"), NEW w \in InStatus("ENQUEUED"), v # w
    PROVE  Before(v, w) \/ Before(w, v)
<1>1. row[v].created \in Nat /\ row[w].created \in Nat /\ Priority[v] \in Nat /\ Priority[w] \in Nat
  BY DEF TypeOK, RowType, InStatus
<1>2. row[v].created # row[w].created
  BY DEF Line, Submitted, InStatus
<1> QED
  BY <1>1, <1>2 DEF Before

Ahead(w) == {v \in InStatus("ENQUEUED") : Before(v, w)}

\* Who goes before another has fewer before him.
LEMMA FewerAhead ==
    ASSUME TypeOK, NEW v \in InStatus("ENQUEUED"), NEW w \in InStatus("ENQUEUED"), Before(v, w)
    PROVE  /\ Cardinality(Ahead(v)) \in Nat /\ Cardinality(Ahead(w)) \in Nat
           /\ Cardinality(Ahead(v)) < Cardinality(Ahead(w))
<1>1. \A u \in InStatus("ENQUEUED") : row[u].created \in Nat /\ Priority[u] \in Nat
  BY DEF TypeOK, RowType, InStatus
<1>2. Ahead(v) \subseteq Ahead(w) \ {v} /\ v \in Ahead(w)
  BY <1>1 DEF Ahead, Before
<1>3. Ahead(v) \in SUBSET Workflow /\ Ahead(w) \in SUBSET Workflow
  BY DEF Ahead, InStatus
<1>4. /\ IsFiniteSet(Ahead(w)) /\ Cardinality(Ahead(w)) \in Nat /\ Cardinality(Ahead(v)) \in Nat
  BY <1>3, Countable
<1>5. /\ IsFiniteSet(Ahead(w) \ {v})
      /\ Cardinality(Ahead(w) \ {v}) = Cardinality(Ahead(w)) - 1
  BY <1>2, <1>4, FS_RemoveElement
<1>6. Cardinality(Ahead(v)) <= Cardinality(Ahead(w) \ {v})
  BY <1>2, <1>5, FS_Subset
<1> QED
  BY <1>4, <1>5, <1>6

\* A LIMIT of n gives n workflows at most.
LEMMA FirstSize ==
    ASSUME TypeOK, Line, NEW n \in Nat
    PROVE  Cardinality(First(n)) <= n
<1>1. First(n) = {w \in InStatus("ENQUEUED") : Cardinality(Ahead(w)) < n}
  BY DEF First, Ahead
<1>2. First(n) \in SUBSET Workflow
  BY DEF First, InStatus
<1>3. IsFiniteSet(First(n)) /\ Cardinality(First(n)) \in Nat
  BY <1>2, Countable
<1>4. IsFiniteSet(0..(n - 1)) /\ Cardinality(0..(n - 1)) = n
  <2> DEFINE m == n - 1
  <2>1. 0 \in Int /\ m \in Int /\ (0 > m <=> n = 0) /\ m - 0 + 1 = n
    OBVIOUS
  <2> HIDE DEF m
  <2>2. IsFiniteSet(0..m) /\ Cardinality(0..m) = IF 0 > m THEN 0 ELSE m - 0 + 1
    BY <2>1, FS_Interval
  <2>3. IsFiniteSet(0..m) /\ Cardinality(0..m) = n
    BY <2>1, <2>2
  <2> QED
    BY <2>3 DEF m
<1> SUFFICES ASSUME n < Cardinality(First(n)) PROVE FALSE
  BY <1>3
<1> DEFINE rank == [w \in First(n) |-> Cardinality(Ahead(w))]
<1>5. \A w \in First(n) : Cardinality(Ahead(w)) \in 0..(n - 1)
  <2> TAKE w \in First(n)
  <2>1. Ahead(w) \in SUBSET Workflow
    BY DEF Ahead, InStatus
  <2>2. Cardinality(Ahead(w)) \in Nat
    BY <2>1, Countable
  <2>3. Cardinality(Ahead(w)) < n
    BY <1>1, Zenon
  <2> HIDE DEF Ahead
  <2> QED
    BY <2>2, <2>3
<1>6. rank \in [First(n) -> 0..(n - 1)]
  BY <1>5
<1>7. PICK v, w \in First(n) : v # w /\ rank[v] = rank[w]
  <2> HIDE DEF rank
  <2> QED
    BY <1>3, <1>4, <1>6, FS_PigeonHole
<1>8. Cardinality(Ahead(v)) = Cardinality(Ahead(w))
  BY <1>7
<1>9. v \in InStatus("ENQUEUED") /\ w \in InStatus("ENQUEUED")
  BY <1>1
<1> QED
  BY <1>7, <1>8, <1>9, TotalOrder, FewerAhead

------------------------------------------------------------------------------
(* Steps.                                                                  *)

\* Steps that submit nothing and claim nothing.
RowsKept ==
    /\ \A w \in Workflow :
          /\ row'[w].created = row[w].created
          /\ row'[w].status = "ABSENT" <=> row[w].status = "ABSENT"
          /\ row'[w].status = "PENDING" /\ row'[w].queue = "this"
               => row[w].status = "PENDING" /\ row[w].queue = "this"
    /\ \A e \in Executor : Mine(e)' \subseteq Mine(e)

\* A step that keeps the rows' ages and adds no start keeps the invariant.
LEMMA KeptStep ==
    ASSUME Line, Known, GlobalLimitHolds, RowsKept
    PROVE  Line' /\ Known' /\ GlobalLimitHolds'
<1>1. Submitted' = Submitted
  BY DEF RowsKept, Submitted, InStatus
<1>2. Line'
  BY <1>1 DEF Line, RowsKept, Submitted
<1>3. Known'
  BY <1>1 DEF Known, RowsKept
<1>4. GlobalLimitHolds'
  <2> DEFINE P == {w \in InStatus("PENDING") : OnQueue(w)}
  <2>1. P' \subseteq P
    BY DEF RowsKept, InStatus, OnQueue
  <2>2. P \in SUBSET Workflow /\ P' \in SUBSET Workflow
    BY DEF InStatus
  <2>3. PendingCount = Cardinality(P) /\ PendingCount' = Cardinality(P')
    BY DEF PendingCount
  <2> HIDE DEF P
  <2>4. IsFiniteSet(P) /\ Cardinality(P) \in Nat /\ Cardinality(P') \in Nat
    BY <2>2, Countable
  <2>5. Cardinality(P') <= Cardinality(P)
    BY <2>1, <2>4, FS_Subset
  <2> QED
    BY <2>3, <2>4, <2>5 DEF GlobalLimitHolds
<1> QED
  BY <1>2, <1>3, <1>4

\* A step that submits a workflow puts it at the end of the line.
LEMMA EnqueueLimit ==
    ASSUME LimitInv, NEW w \in Workflow, Enqueue(w)
    PROVE  Line' /\ Known' /\ GlobalLimitHolds'
<1> DEFINE n == Cardinality(Submitted)
           new == [status |-> IF Delay[w] > 0 THEN "DELAYED" ELSE "ENQUEUED", queue |-> "this",
                   executor |-> None, created |-> n, delay |-> Delay[w], age |-> Period]
<1>1. row \in [Workflow -> RowType] /\ w \notin Submitted /\ row' = [row EXCEPT ![w] = new]
  BY DEF LimitInv, TypeOK, Enqueue, Submitted, InStatus
<1>2. row'[w] = new /\ \A v \in Workflow \ {w} : row'[v] = row[v]
  BY <1>1
<1>3. Submitted' = Submitted \cup {w}
  BY <1>2 DEF Submitted, InStatus
<1>4. IsFiniteSet(Submitted) /\ n \in Nat
  BY Countable DEF Submitted
<1>5. Cardinality(Submitted') = n + 1
  BY <1>1, <1>3, <1>4, FS_AddElement
<1>6. new.created = n
  OBVIOUS
<1>7. \A v \in Submitted : row'[v].created = row[v].created /\ row[v].created \in Nat /\ row[v].created < n
  BY <1>1, <1>2 DEF LimitInv, Line, Submitted, RowType
<1> HIDE DEF n, new
<1>8. Line'
  <2>1. \A v \in Submitted' : row'[v].created < Cardinality(Submitted')
    BY <1>2, <1>3, <1>4, <1>5, <1>6, <1>7
  <2>2. \A u, v \in Submitted' : u # v => row'[u].created # row'[v].created
    BY <1>2, <1>3, <1>4, <1>6, <1>7 DEF LimitInv, Line
  <2> QED
    BY <2>1, <2>2 DEF Line
<1>9. Known'
  <2>1. \A e \in Executor : Mine(e)' = Mine(e)
    BY DEF Enqueue, bodies, Mine
  <2> QED
    BY <1>3, <2>1 DEF LimitInv, Known
<1>10. GlobalLimitHolds'
  <2>1. {v \in InStatus("PENDING") : OnQueue(v)}' = {v \in InStatus("PENDING") : OnQueue(v)}
    <3>1. row[w].status = "ABSENT" /\ row'[w].status # "PENDING"
      BY <1>2 DEF Enqueue, new
    <3> QED
      BY <1>2, <3>1 DEF InStatus, OnQueue
  <2> QED
    BY <2>1 DEF LimitInv, GlobalLimitHolds, PendingCount
<1> QED
  BY <1>8, <1>9, <1>10

\* A poll claims what the limit leaves.
LEMMA DequeueLimit ==
    ASSUME LimitInv, NEW e \in Executor, Dequeue(e)
    PROVE  Line' /\ Known' /\ GlobalLimitHolds'
<1> DEFINE room == Room(runner[e].local)
           recent == RecentStarts
           ws == IF StartLimit # None /\ recent >= StartLimit THEN {} ELSE First(Allowed(room, recent))
<1>0. TypeOK /\ Line /\ Known /\ GlobalLimitHolds /\ row \in [Workflow -> RowType]
  BY DEF LimitInv, TypeOK
<1>1. room \in Nat /\ (GlobalLimit # None => room = 0 \/ room <= GlobalLimit - PendingCount)
  BY <1>0, RoomType DEF TypeOK, RunnerType
<1>2. /\ ws \in SUBSET Workflow /\ \A w \in ws : row[w].status = "ENQUEUED"
      /\ IsFiniteSet(ws) /\ Cardinality(ws) \in Nat
  <2>1. ws \in SUBSET Workflow /\ \A w \in ws : row[w].status = "ENQUEUED"
    BY DEF First, InStatus
  <2> HIDE DEF ws
  <2> QED
    BY <2>1, Countable
<1>3. Cardinality(ws) <= room
  <2>1. CASE StartLimit # None /\ recent >= StartLimit
    <3>1. ws = {}
      BY <2>1
    <3> HIDE DEF ws, room
    <3> QED
      BY <1>1, <3>1, FS_EmptySet
  <2>2. CASE ~(StartLimit # None /\ recent >= StartLimit)
    <3> DEFINE allowed == Allowed(room, recent)
    <3>1. recent \in Nat
      BY Countable DEF RecentStarts
    <3> HIDE DEF recent, room
    <3>2. allowed \in Nat /\ allowed <= room
      BY <1>1, <2>2, <3>1 DEF Allowed, MinOf
    <3> HIDE DEF allowed
    <3>3. Cardinality(First(allowed)) <= allowed
      BY <1>0, <3>2, FirstSize
    <3>4. ws = First(allowed)
      BY <2>2 DEF allowed
    <3> HIDE DEF ws
    <3> QED
      BY <1>1, <1>2, <3>2, <3>3, <3>4
  <2> QED
    BY <2>1, <2>2
<1>4. /\ Dispatching(e, ws) /\ UNCHANGED running
      /\ \A w \in Workflow : row'[w] = IF w \in ws THEN Claimed(w, e, 0) ELSE row[w]
  BY DEF Dequeue, bodies
<1> HIDE DEF ws
<1>5. \A w \in ws : /\ row'[w].status = "PENDING" /\ row'[w].created = row[w].created
                    /\ row'[w].queue = row[w].queue
  BY <1>0, <1>2, <1>4 DEF Claimed, RowType
<1>6. \A w \in Workflow : row'[w].created = row[w].created
                          /\ (row'[w].status = "ABSENT" <=> row[w].status = "ABSENT")
  BY <1>2, <1>4, <1>5
<1>7. Submitted' = Submitted
  BY <1>6 DEF Submitted, InStatus
<1>8. Line'
  BY <1>0, <1>6, <1>7 DEF Line, Submitted
<1>9. Known'
  <2>1. runner'[e].batch = ws /\ \A f \in Executor \ {e} : runner'[f] = runner[f]
    BY <1>0, <1>2, <1>4, Dispatched
  <2>2. ws \subseteq Submitted
    BY <1>2 DEF Submitted, InStatus
  <2>3. \A f \in Executor : Mine(f)' \subseteq Mine(f) \cup ws
    BY <1>4, <2>1 DEF Mine
  <2> QED
    BY <1>0, <1>7, <2>2, <2>3 DEF Known
<1>10. GlobalLimitHolds'
  <2> DEFINE P == {w \in InStatus("PENDING") : OnQueue(w)}
  <2>1. P' \subseteq P \cup ws
    BY <1>4 DEF InStatus, OnQueue
  <2>2. P \in SUBSET Workflow /\ P' \in SUBSET Workflow
    BY DEF InStatus
  <2>3. PendingCount = Cardinality(P) /\ PendingCount' = Cardinality(P')
    BY DEF PendingCount
  <2> HIDE DEF P, room
  <2>4. IsFiniteSet(P) /\ Cardinality(P) \in Nat /\ Cardinality(P') \in Nat
    BY <2>2, Countable
  <2>5. IsFiniteSet(P \cup ws) /\ Cardinality(P \cup ws) <= Cardinality(P) + Cardinality(ws)
    <3>1. /\ IsFiniteSet(P \cup ws)
          /\ Cardinality(P \cup ws) = Cardinality(P) + Cardinality(ws) - Cardinality(P \cap ws)
      BY <1>2, <2>4, FS_Union
    <3>2. Cardinality(P \cap ws) \in Nat
      <4>1. P \cap ws \in SUBSET Workflow
        BY <1>2
      <4> QED
        BY <4>1, Countable
    <3> QED
      BY <1>2, <2>4, <3>1, <3>2
  <2>6. Cardinality(P') <= Cardinality(P \cup ws) /\ Cardinality(P \cup ws) \in Nat
    BY <2>1, <2>5, FS_Subset, FS_CardinalityType
  <2>7. GlobalLimit # None => GlobalLimit \in Nat /\ Cardinality(P) <= GlobalLimit
    BY <1>0, <2>3 DEF GlobalLimitHolds
  <2>8. GlobalLimit # None => Cardinality(P') <= GlobalLimit
    BY <1>1, <1>2, <1>3, <2>3, <2>4, <2>5, <2>6, <2>7
  <2> QED
    BY <2>3, <2>8 DEF GlobalLimitHolds
<1> QED
  BY <1>8, <1>9, <1>10

\* A row after a step that is neither a submission nor a claim.
LEMMA KeptRow ==
    ASSUME NEW x \in RowType
    PROVE  /\ \A e \in Executor : LET y == [x EXCEPT !.executor = e]
                                  IN y.created = x.created /\ y.status = x.status /\ y.queue = x.queue
           /\ \A s : LET y == [x EXCEPT !.status = s] IN y.created = x.created /\ y.status = s
           /\ \A a : LET y == [x EXCEPT !.status = "ENQUEUED", !.age = a]
                     IN y.created = x.created /\ y.status = "ENQUEUED"
           /\ \A a : LET y == [x EXCEPT !.status = "CANCELLED", !.queue = "null", !.age = a]
                     IN y.created = x.created /\ y.status = "CANCELLED"
           /\ \A d, a : LET y == [x EXCEPT !.delay = d, !.age = a]
                        IN y.created = x.created /\ y.status = x.status /\ y.queue = x.queue
  BY DEF RowType

\* The steps other than a submission and a claim keep LimitInv.
LEMMA OtherLimit ==
    ASSUME LimitInv, Atomic, [Next]_vars,
           ~\E w \in Workflow : Enqueue(w), ~\E e \in Executor : Dequeue(e)
    PROVE  RowsKept
<1>0. TypeOK /\ OneStatement /\ Known
  BY DEF LimitInv
<1>t. /\ row \in [Workflow -> RowType] /\ runner \in [Executor -> RunnerType]
      /\ running \in [Executor -> SUBSET Workflow]
  BY <1>0 DEF TypeOK
<1> DEFINE Kept(w) == /\ row'[w].created = row[w].created
                      /\ row'[w].status = "ABSENT" <=> row[w].status = "ABSENT"
                      /\ row'[w].status = "PENDING" /\ row'[w].queue = "this"
                           => row[w].status = "PENDING" /\ row[w].queue = "this"
<1>a. ASSUME NEW w \in Workflow, row'[w] = row[w] PROVE Kept(w)
  BY <1>a
<1>b. ASSUME UNCHANGED <<runner, running>> PROVE \A e \in Executor : Mine(e)' \subseteq Mine(e)
  BY <1>b DEF Mine
<1>c. ASSUME NEW e \in Executor, NEW ws \in SUBSET Workflow, ws \subseteq runner[e].batch,
             Dispatching(e, ws), UNCHANGED running
      PROVE  \A f \in Executor : Mine(f)' \subseteq Mine(f)
  <2>1. runner'[e].batch = ws /\ \A f \in Executor \ {e} : runner'[f] = runner[f]
    BY <1>0, <1>c, Dispatched
  <2> QED
    BY <1>c, <2>1 DEF Mine
<1>1. ASSUME NEW e \in Executor, Promote(e) PROVE RowsKept
  <2>1. \A w \in Workflow : Kept(w)
    <3> SUFFICES ASSUME NEW w \in Workflow PROVE Kept(w)
      OBVIOUS
    <3>1. CASE row[w].status = "DELAYED" /\ row[w].delay = 0
      <4>1. row'[w] = [row[w] EXCEPT !.status = "ENQUEUED"]
        BY <1>1, <3>1 DEF Promote
      <4> QED
        BY <1>t, <3>1, <4>1, KeptRow
    <3>2. CASE ~(row[w].status = "DELAYED" /\ row[w].delay = 0)
      BY <1>1, <1>a, <3>2 DEF Promote
    <3> QED
      BY <3>1, <3>2
  <2>2. /\ runner'[e].batch = runner[e].batch /\ UNCHANGED running
        /\ \A f \in Executor \ {e} : runner'[f] = runner[f]
    BY <1>1, <1>t DEF Promote, bodies, RunnerType
  <2> QED
    BY <2>1, <2>2 DEF RowsKept, Mine
<1>2. ASSUME NEW e \in Executor, CountLocal(e) PROVE RowsKept
  <2>1. /\ runner'[e].batch = runner[e].batch /\ UNCHANGED <<row, running>>
        /\ \A f \in Executor \ {e} : runner'[f] = runner[f]
    BY <1>2, <1>t DEF CountLocal, bodies, RunnerType
  <2> QED
    BY <2>1 DEF RowsKept, Mine
<1>3. ASSUME NEW e \in Executor PROVE ~(CountRecent(e) \/ CountPending(e) \/ Select(e) \/ Claim(e) \/ Commit(e))
  BY <1>0 DEF OneStatement, CountRecent, CountPending, Select, Claim, Commit
<1>4. ASSUME NEW e \in Executor, NEW w \in Workflow, Dispatch(e, w) PROVE RowsKept
  <2> DEFINE ws == runner[e].batch \ {w}
  <2>1. row' = [row EXCEPT ![w] = [row[w] EXCEPT !.executor = e]]
    BY <1>4 DEF Dispatch
  <2>2. \A v \in Workflow : Kept(v)
    BY <1>t, <2>1, KeptRow
  <2>3. ws \in SUBSET Workflow /\ Dispatching(e, ws) /\ w \in runner[e].batch
    BY <1>4, <1>t DEF Dispatch, RunnerType
  <2>4. running' = running \/ running' = [running EXCEPT ![e] = running[e] \cup {w}]
    BY <1>4 DEF Dispatch
  <2>5. \A f \in Executor : running'[f] \subseteq IF f = e THEN running[f] \cup {w} ELSE running[f]
    BY <1>t, <2>4
  <2>6. runner'[e].batch = ws /\ \A f \in Executor \ {e} : runner'[f] = runner[f]
    BY <1>0, <2>3, Dispatched
  <2>7. \A f \in Executor : Mine(f)' \subseteq Mine(f)
    BY <2>3, <2>5, <2>6 DEF Mine
  <2> QED
    BY <2>2, <2>7 DEF RowsKept
<1>5. ASSUME NEW e \in Executor, NEW w \in Workflow, DispatchFails(e, w) PROVE RowsKept
  <2> DEFINE ws == runner[e].batch \ {w}
  <2>1. ws \in SUBSET Workflow /\ ws \subseteq runner[e].batch /\ Dispatching(e, ws)
        /\ UNCHANGED <<row, running>>
    BY <1>5, <1>t DEF DispatchFails, RunnerType, bodies
  <2> HIDE DEF ws
  <2> QED
    BY <1>a, <1>c, <2>1 DEF RowsKept
<1>6. ASSUME NEW e \in Executor, NEW w \in Workflow, EndBody(e, w) PROVE RowsKept
  <2>1. row[w].status # "ABSENT"
    BY <1>0, <1>6 DEF EndBody, Known, Mine, Submitted, InStatus
  <2>2. row' = row \/ row' = [row EXCEPT ![w] = [row[w] EXCEPT !.status = "SUCCESS"]]
    BY <1>6 DEF EndBody
  <2>3. \A v \in Workflow : Kept(v)
    <3>1. CASE row' = row
      BY <3>1, <1>a
    <3>2. CASE row' = [row EXCEPT ![w] = [row[w] EXCEPT !.status = "SUCCESS"]]
      <4>1. row'[w].created = row[w].created /\ row'[w].status = "SUCCESS"
        BY <1>t, <3>2, KeptRow
      <4>2. \A v \in Workflow \ {w} : row'[v] = row[v]
        BY <1>t, <3>2
      <4> QED
        BY <2>1, <4>1, <4>2
    <3> QED
      BY <2>2, <3>1, <3>2
  <2>4. \A f \in Executor : Mine(f)' \subseteq Mine(f)
    BY <1>6, <1>t DEF EndBody, Mine
  <2> QED
    BY <2>3, <2>4 DEF RowsKept
<1>7. ASSUME NEW e \in Executor, NEW w \in Workflow, Recover(e, w) PROVE RowsKept
  <2>1. row' = [row EXCEPT ![w] = Cleared(w)] /\ UNCHANGED <<runner, running>>
    BY <1>7 DEF Recover, bodies
  <2>2. \/ Cleared(w) = row[w]
        \/ row[w].status = "PENDING" /\ Cleared(w) = [row[w] EXCEPT !.status = "ENQUEUED", !.age = Period]
    BY DEF Cleared
  <2>3. Cleared(w).created = row[w].created /\ (Cleared(w) = row[w] \/
           (row[w].status = "PENDING" /\ Cleared(w).status = "ENQUEUED"))
    <3>1. CASE Cleared(w) = row[w]
      BY <3>1
    <3>2. CASE row[w].status = "PENDING" /\ Cleared(w) = [row[w] EXCEPT !.status = "ENQUEUED", !.age = Period]
      <4>1. row[w] \in RowType
        BY <1>t
      <4> QED
        BY <3>2, <4>1 DEF RowType
    <3> QED
      BY <2>2, <3>1, <3>2
  <2>4. \A v \in Workflow : Kept(v)
    <3>1. row'[w] = Cleared(w) /\ \A v \in Workflow \ {w} : row'[v] = row[v]
      BY <1>t, <2>1
    <3> QED
      BY <2>3, <3>1
  <2> QED
    BY <1>b, <2>1, <2>4 DEF RowsKept
<1>8. ASSUME NEW w \in Workflow, Cancel(w) PROVE RowsKept
  <2>1. /\ row' = [row EXCEPT ![w] = [row[w] EXCEPT !.status = "CANCELLED", !.queue = "null", !.age = Period]]
        /\ row[w].status # "ABSENT" /\ UNCHANGED <<runner, running>>
    BY <1>8 DEF Cancel, bodies
  <2>2. row'[w].created = row[w].created /\ row'[w].status = "CANCELLED"
    BY <1>t, <2>1, KeptRow
  <2>3. \A v \in Workflow \ {w} : row'[v] = row[v]
    BY <1>t, <2>1
  <2>4. \A v \in Workflow : Kept(v)
    BY <2>1, <2>2, <2>3
  <2> QED
    BY <1>b, <2>1, <2>4 DEF RowsKept
<1>9. ASSUME Tick PROVE RowsKept
  <2>1. \A w \in Workflow : row'[w] = [row[w] EXCEPT !.delay = Positive(row[w].delay - 1),
                                                  !.age = Older(row[w].age)]
    BY <1>9 DEF Tick
  <2>2. \A w \in Workflow : Kept(w)
    <3> SUFFICES ASSUME NEW w \in Workflow PROVE Kept(w)
      OBVIOUS
    <3> DEFINE d == Positive(row[w].delay - 1)
               a == Older(row[w].age)
    <3>1. row'[w] = [row[w] EXCEPT !.delay = d, !.age = a]
      BY <2>1
    <3> HIDE DEF d, a
    <3>2. /\ row'[w].created = row[w].created /\ row'[w].status = row[w].status
          /\ row'[w].queue = row[w].queue
      BY <1>t, <3>1, KeptRow
    <3> QED
      BY <3>2
  <2>3. UNCHANGED running /\ \A e \in Executor : runner'[e].batch = runner[e].batch
    BY <1>9, <1>t DEF Tick, bodies, RunnerType
  <2> QED
    BY <2>2, <2>3 DEF RowsKept, Mine
<1>10. ASSUME NEW e \in Executor, Crash(e) PROVE RowsKept
  <2>1. \A f \in Executor : Mine(f)' \subseteq Mine(f)
    BY <1>10, <1>t DEF Crash, Mine, Idle
  <2> QED
    BY <1>a, <1>10, <2>1 DEF RowsKept, Crash
<1>11. ASSUME UNCHANGED <<row, runner, running>> PROVE RowsKept
  BY <1>11, <1>a, <1>b DEF RowsKept
<1>12. CASE UNCHANGED vars
  BY <1>11, <1>12 DEF vars
<1>13. ASSUME NEW e \in Executor,
              \/ Launch(e) \/ Launched(e)
              \/ \E target \in Executor : RecoveryRequest(e, target)
              \/ \E w \in Workflow : Leave(e, w)
       PROVE RowsKept
  BY <1>11, <1>13 DEF Launch, Launched, RecoveryRequest, Leave, bodies
<1> HIDE DEF Kept
<1> QED
  BY <1>1, <1>2, <1>3, <1>4, <1>5, <1>6, <1>7, <1>8, <1>9, <1>10, <1>12, <1>13
     DEF Next, RunnerStep, BodyStep, RecoveryStep, Environment

\* LimitInv holds at the start: the table is empty.
LEMMA LimitInit == Init => LimitInv
<1> SUFFICES ASSUME Init PROVE LimitInv
  OBVIOUS
<1>1. TypeOK /\ OneStatement
  BY InitType, OneStatementInit
<1>2. Submitted = {} /\ InStatus("PENDING") = {}
  BY DEF Init, Submitted, InStatus, NoRow
<1>3. \A e \in Executor : Mine(e) = {}
  BY IdleHands DEF Init, Mine
<1>4. PendingCount = 0
  <2>1. {w \in InStatus("PENDING") : OnQueue(w)} = {}
    BY <1>2
  <2> QED
    BY <2>1, FS_EmptySet DEF PendingCount
<1>5. GlobalLimit # None => 0 <= GlobalLimit
  OBVIOUS
<1> QED
  BY <1>1, <1>2, <1>3, <1>4, <1>5 DEF LimitInv, Line, Known, GlobalLimitHolds

\* On SQLite every step keeps LimitInv.
LEMMA LimitStep == Atomic /\ LimitInv /\ [Next]_vars => LimitInv'
<1> SUFFICES ASSUME Atomic, LimitInv, [Next]_vars PROVE LimitInv'
  OBVIOUS
<1>1. TypeOK' /\ OneStatement'
  BY StepType, OneStatementStep DEF LimitInv
<1>2. Line' /\ Known' /\ GlobalLimitHolds'
  <2>1. CASE \E w \in Workflow : Enqueue(w)
    BY <2>1, EnqueueLimit
  <2>2. CASE \E e \in Executor : Dequeue(e)
    BY <2>2, DequeueLimit
  <2>3. CASE ~(\E w \in Workflow : Enqueue(w)) /\ ~\E e \in Executor : Dequeue(e)
    <3>1. RowsKept
      BY <2>3, OtherLimit
    <3> QED
      BY <3>1, KeptStep DEF LimitInv
  <2> QED
    BY <2>1, <2>2, <2>3
<1> QED
  BY <1>1, <1>2 DEF LimitInv

\* On SQLite the rows of a queue never show more running workflows than its
\* global_concurrency, for any number of processes and workflows, whatever
\* crashes, fails, is cancelled or is recovered on behalf of others.
THEOREM GlobalLimitOnSQLite == Atomic => (Spec => []GlobalLimitHolds)
<1> SUFFICES ASSUME Atomic PROVE Spec => []GlobalLimitHolds
  OBVIOUS
<1>1. LimitInv /\ [Next]_vars => LimitInv'
  BY LimitStep
<1>2. LimitInv => GlobalLimitHolds
  BY DEF LimitInv
<1> QED
  BY LimitInit, <1>1, <1>2, PTL DEF Spec

------------------------------------------------------------------------------
(* The limit per process, on both backends.                                *)

\* A runner has in its hands what its place in the poll is for, and nothing
\* that was not submitted.
Tidy(e) ==
    /\ runner[e].pc # "claim" => Held(e) = {}
    /\ runner[e].pc # "dispatch" => runner[e].batch = {}
    /\ Mine(e) \cup Held(e) \subseteq Submitted

\* What a runner has counted covers what the process runs, and what it may
\* claim or has claimed fits into the rest.
Fits(e) ==
    /\ counted[e] = active[e]
    /\ runner[e].pc \in {"rate", "limit", "select", "claim"} => Cardinality(active[e]) <= runner[e].local
    /\ runner[e].pc \in {"select", "claim"} => runner[e].room + runner[e].local <= WorkerLimit
    /\ runner[e].pc = "claim" => Cardinality(runner[e].ids \cup Held(e)) <= runner[e].room
    /\ Cardinality(active[e] \cup runner[e].batch) <= WorkerLimit

\* While nothing has been cancelled every row names its queue.
Watched == WorkerLimit # None /\ budget.cancel = MaxCancels
NullFree == \A w \in Submitted : OnQueue(w)

WorkerInv ==
    /\ TypeOK /\ Line
    /\ \A e \in Executor : Tidy(e)
    /\ Watched => NullFree /\ \A e \in Executor : Fits(e)

\* The room for a poll is what its own count leaves.
LEMMA WorkerRoom ==
    ASSUME NEW local \in Nat, WorkerLimit # None
    PROVE  Room(local) = 0 \/ Room(local) + local <= WorkerLimit
<1>1. PendingCount \in Nat
  BY Countable DEF PendingCount, InStatus
<1> QED
  BY <1>1 DEF Room, MinOf, Positive

\* Rows after a step that submits nothing.
RowsStay ==
    \A w \in Workflow :
        /\ row'[w].created = row[w].created
        /\ row'[w].status = "ABSENT" <=> row[w].status = "ABSENT"
        /\ budget'.cancel = budget.cancel => row'[w].queue = row[w].queue

\* Submitted workflows stay submitted, in line and on their queue.
LEMMA RowStep ==
    ASSUME TypeOK, \A e \in Executor : Tidy(e), [Next]_vars, ~\E w \in Workflow : Enqueue(w)
    PROVE  RowsStay
<1>t. /\ row \in [Workflow -> RowType] /\ runner \in [Executor -> RunnerType]
      /\ running \in [Executor -> SUBSET Workflow] /\ budget \in Budget
  BY DEF TypeOK
<1> DEFINE Stays(w) == /\ row'[w].created = row[w].created
                       /\ row'[w].status = "ABSENT" <=> row[w].status = "ABSENT"
                       /\ budget'.cancel = budget.cancel => row'[w].queue = row[w].queue
<1>a. ASSUME NEW w \in Workflow, row'[w] = row[w] PROVE Stays(w)
  BY <1>a
<1>b. ASSUME NEW w \in Workflow, NEW e \in Executor, NEW a \in Age,
             row[w].status # "ABSENT", row'[w] = Claimed(w, e, a)
      PROVE  Stays(w)
  BY <1>t, <1>b DEF Claimed, RowType
<1>1. ASSUME NEW e \in Executor, Promote(e) PROVE RowsStay
  <2> SUFFICES ASSUME NEW w \in Workflow PROVE Stays(w)
    BY DEF RowsStay
  <2>1. CASE row[w].status = "DELAYED" /\ row[w].delay = 0
    <3>1. row'[w] = [row[w] EXCEPT !.status = "ENQUEUED"]
      BY <1>1, <2>1 DEF Promote
    <3> QED
      BY <1>t, <2>1, <3>1 DEF RowType
  <2>2. CASE ~(row[w].status = "DELAYED" /\ row[w].delay = 0)
    BY <1>1, <1>a, <2>2 DEF Promote
  <2> QED
    BY <2>1, <2>2
<1>2. ASSUME NEW e \in Executor, Dequeue(e) PROVE RowsStay
  <2> DEFINE room == Room(runner[e].local)
             ws == IF StartLimit # None /\ RecentStarts >= StartLimit THEN {}
                   ELSE First(Allowed(room, RecentStarts))
  <2>1. \A w \in Workflow : row'[w] = IF w \in ws THEN Claimed(w, e, 0) ELSE row[w]
    BY <1>2 DEF Dequeue
  <2>2. \A w \in ws : row[w].status = "ENQUEUED"
    BY DEF First, InStatus
  <2> HIDE DEF ws
  <2>3. 0 \in Age
    BY DEF Age
  <2>4. \A w \in Workflow : Stays(w)
    BY <1>a, <1>b, <2>1, <2>2, <2>3
  <2> QED
    BY <2>4 DEF RowsStay
<1>3. ASSUME NEW e \in Executor, Commit(e) PROVE RowsStay
  <2>1. \A w \in Workflow : row'[w] = IF w \in Held(e) THEN Claimed(w, e, runner[e].held[w]) ELSE row[w]
    BY <1>3 DEF Commit
  <2>2. \A w \in Held(e) : row[w].status # "ABSENT" /\ runner[e].held[w] \in Age
    BY <1>t DEF Tidy, Submitted, InStatus, Held, RunnerType
  <2>3. \A w \in Workflow : Stays(w)
    BY <1>a, <1>b, <2>1, <2>2
  <2> QED
    BY <2>3 DEF RowsStay
<1>4. ASSUME NEW e \in Executor, NEW w \in Workflow, Dispatch(e, w) PROVE RowsStay
  <2>1. row' = [row EXCEPT ![w] = [row[w] EXCEPT !.executor = e]]
    BY <1>4 DEF Dispatch
  <2>2. \A v \in Workflow : Stays(v)
    BY <1>t, <2>1, KeptRow
  <2> QED
    BY <2>2 DEF RowsStay
<1>5. ASSUME NEW e \in Executor, NEW w \in Workflow, EndBody(e, w) PROVE RowsStay
  <2>1. row[w].status # "ABSENT"
    BY <1>5 DEF EndBody, Tidy, Mine, Submitted, InStatus
  <2>2. row' = row \/ row' = [row EXCEPT ![w] = [row[w] EXCEPT !.status = "SUCCESS"]]
    BY <1>5 DEF EndBody
  <2>3. CASE row' = [row EXCEPT ![w] = [row[w] EXCEPT !.status = "SUCCESS"]]
    <3>1. row'[w] = [row[w] EXCEPT !.status = "SUCCESS"] /\ \A v \in Workflow \ {w} : row'[v] = row[v]
      BY <1>t, <2>3
    <3>2. Stays(w)
      BY <1>t, <2>1, <3>1 DEF RowType
    <3> QED
      BY <1>a, <3>1, <3>2 DEF RowsStay
  <2> QED
    BY <1>a, <2>2, <2>3 DEF RowsStay
<1>6. ASSUME NEW e \in Executor, NEW w \in Workflow, Recover(e, w) PROVE RowsStay
  <2>1. row' = [row EXCEPT ![w] = Cleared(w)]
    BY <1>6 DEF Recover
  <2>2. row'[w] = Cleared(w) /\ \A v \in Workflow \ {w} : row'[v] = row[v]
    BY <1>t, <2>1
  <2>3. Stays(w)
    <3>1. CASE row'[w] = row[w]
      BY <1>a, <3>1
    <3>2. CASE row[w].status = "PENDING" /\ row'[w] = [row[w] EXCEPT !.status = "ENQUEUED", !.age = Period]
      BY <1>t, <3>2 DEF RowType
    <3> QED
      BY <2>2, <3>1, <3>2 DEF Cleared
  <2> QED
    BY <1>a, <2>2, <2>3 DEF RowsStay
<1>7. ASSUME NEW w \in Workflow, Cancel(w) PROVE RowsStay
  <2>1. /\ row' = [row EXCEPT ![w] = [row[w] EXCEPT !.status = "CANCELLED", !.queue = "null", !.age = Period]]
        /\ row[w].status # "ABSENT"
    BY <1>7 DEF Cancel
  <2>2. row'[w].created = row[w].created /\ row'[w].status = "CANCELLED"
    BY <1>t, <2>1, KeptRow
  <2>3. budget'.cancel # budget.cancel
    BY <1>t, <1>7 DEF Cancel, Budget
  <2>4. \A v \in Workflow \ {w} : row'[v] = row[v]
    BY <1>t, <2>1
  <2> QED
    BY <2>1, <2>2, <2>3, <2>4 DEF RowsStay
<1>8. ASSUME Tick PROVE RowsStay
  <2> SUFFICES ASSUME NEW w \in Workflow PROVE Stays(w)
    BY DEF RowsStay
  <2> DEFINE d == Positive(row[w].delay - 1)
             a == Older(row[w].age)
  <2>1. row'[w] = [row[w] EXCEPT !.delay = d, !.age = a]
    BY <1>8 DEF Tick
  <2> HIDE DEF d, a
  <2> QED
    BY <1>t, <2>1, KeptRow
<1>9. CASE UNCHANGED row
  BY <1>9, <1>a DEF RowsStay
<1> QED
  BY <1>1, <1>2, <1>3, <1>4, <1>5, <1>6, <1>7, <1>8, <1>9
     DEF Next, RunnerStep, BodyStep, RecoveryStep, Environment, vars, CountLocal, CountRecent,
         CountPending, Select, Claim, DispatchFails, Leave, Launch, Launched, RecoveryRequest, Crash

\* A submitted workflow goes to the end of the line.
LEMMA EnqueueLine ==
    ASSUME TypeOK, Line, NEW w \in Workflow, Enqueue(w)
    PROVE  /\ Line' /\ Submitted' = Submitted \cup {w}
           /\ row'[w].queue = "this" /\ \A v \in Submitted : row'[v] = row[v]
<1> DEFINE n == Cardinality(Submitted)
           new == [status |-> IF Delay[w] > 0 THEN "DELAYED" ELSE "ENQUEUED", queue |-> "this",
                   executor |-> None, created |-> n, delay |-> Delay[w], age |-> Period]
<1>1. row \in [Workflow -> RowType] /\ w \notin Submitted /\ row' = [row EXCEPT ![w] = new]
  BY DEF TypeOK, Enqueue, Submitted, InStatus
<1>2. row'[w] = new /\ \A v \in Workflow \ {w} : row'[v] = row[v]
  BY <1>1
<1>3. Submitted' = Submitted \cup {w}
  BY <1>2 DEF Submitted, InStatus
<1>4. IsFiniteSet(Submitted) /\ n \in Nat
  BY Countable DEF Submitted
<1>5. Cardinality(Submitted') = n + 1
  BY <1>1, <1>3, <1>4, FS_AddElement
<1>6. new.created = n /\ new.queue = "this"
  OBVIOUS
<1>7. \A v \in Submitted : row'[v] = row[v] /\ row[v].created \in Nat /\ row[v].created < n
  BY <1>1, <1>2 DEF Line, Submitted, RowType
<1> HIDE DEF n, new
<1>8. \A v \in Submitted' : row'[v].created < Cardinality(Submitted')
  BY <1>2, <1>3, <1>4, <1>5, <1>6, <1>7
<1>9. \A u, v \in Submitted' : u # v => row'[u].created # row'[v].created
  BY <1>2, <1>3, <1>4, <1>6, <1>7 DEF Line
<1> QED
  BY <1>2, <1>3, <1>6, <1>7, <1>8, <1>9 DEF Line

\* The table keeps its line, whatever is done.
LEMMA LineStep ==
    ASSUME TypeOK, Line, \A e \in Executor : Tidy(e), [Next]_vars
    PROVE  /\ Line' /\ Submitted \subseteq Submitted'
           /\ budget'.cancel = budget.cancel /\ NullFree => NullFree'
<1>1. CASE \E w \in Workflow : Enqueue(w)
  <2>1. PICK w \in Workflow : Enqueue(w)
    BY <1>1
  <2> QED
    BY <2>1, EnqueueLine DEF NullFree, OnQueue
<1>2. CASE ~\E w \in Workflow : Enqueue(w)
  <2>1. RowsStay
    BY <1>2, RowStep
  <2>2. Submitted' = Submitted
    BY <2>1 DEF RowsStay, Submitted, InStatus
  <2> QED
    BY <2>1, <2>2 DEF RowsStay, Line, NullFree, OnQueue, Submitted
<1> QED
  BY <1>1, <1>2

\* A part of a set of workflows has no more elements than the set.
LEMMA FewerOf ==
    ASSUME NEW S, NEW T \in SUBSET Workflow, S \subseteq T
    PROVE  Cardinality(S) \in Nat /\ Cardinality(T) \in Nat /\ Cardinality(S) <= Cardinality(T)
<1>1. S \in SUBSET Workflow /\ IsFiniteSet(T)
  BY Countable
<1> QED
  BY <1>1, Countable, FS_Subset

\* A union has no more elements than its parts together.
LEMMA UnionOf ==
    ASSUME NEW S \in SUBSET Workflow, NEW T \in SUBSET Workflow
    PROVE  Cardinality(S \cup T) <= Cardinality(S) + Cardinality(T)
<1>1. IsFiniteSet(S) /\ IsFiniteSet(T) /\ Cardinality(S) \in Nat /\ Cardinality(T) \in Nat
  BY Countable
<1>2. Cardinality(S \cup T) = Cardinality(S) + Cardinality(T) - Cardinality(S \cap T)
  BY <1>1, FS_Union
<1>3. S \cap T \in SUBSET Workflow
  OBVIOUS
<1>4. Cardinality(S \cap T) \in Nat
  BY <1>3, Countable
<1> QED
  BY <1>1, <1>2, <1>4

\* A runner that begins to dispatch, or has nothing to dispatch.
LEMMA DispatchingFields ==
    ASSUME TypeOK, NEW e \in Executor, NEW ws \in SUBSET Workflow, Dispatching(e, ws)
    PROVE  /\ runner'[e].pc = (IF ws = {} THEN "idle" ELSE "dispatch")
           /\ runner'[e].batch = ws /\ Held(e)' = {}
           /\ \A f \in Executor \ {e} : runner'[f] = runner[f]
<1>1. runner'[e].pc = (IF ws = {} THEN "idle" ELSE "dispatch")
  BY DEF TypeOK, Dispatching, Idle
<1> QED
  BY <1>1, Dispatched

\* A process a step leaves alone.
LEMMA Undisturbed ==
    ASSUME NEW e \in Executor, runner'[e] = runner[e], active'[e] = active[e],
           counted'[e] = counted[e], running'[e] = running[e], Submitted \subseteq Submitted'
    PROVE  (Tidy(e) => Tidy(e)') /\ (Fits(e) => Fits(e)')
<1>1. Held(e)' = Held(e) /\ Mine(e)' = Mine(e)
  BY DEF Held, Mine
<1> QED
  BY <1>1 DEF Tidy, Fits

\* A runner that dispatches ws, which it holds, has claimed or had to dispatch.
LEMMA TidyDispatch ==
    ASSUME TypeOK, NEW e \in Executor, NEW ws \in SUBSET Workflow, Dispatching(e, ws), Tidy(e),
           ws \subseteq Submitted, running'[e] \subseteq running[e] \cup ws \cup runner[e].batch,
           Submitted \subseteq Submitted'
    PROVE  Tidy(e)'
<1>1. /\ runner'[e].pc = (IF ws = {} THEN "idle" ELSE "dispatch")
      /\ runner'[e].batch = ws /\ Held(e)' = {}
  BY DispatchingFields
<1>2. Mine(e)' \subseteq Submitted'
  BY <1>1 DEF Mine, Tidy
<1> QED
  BY <1>1, <1>2 DEF Tidy

\* A process that begins to dispatch fits if its entries and its batch do.
LEMMA FitsDispatch ==
    ASSUME TypeOK, NEW e \in Executor, NEW ws \in SUBSET Workflow, Dispatching(e, ws),
           counted'[e] = active'[e], Cardinality(active'[e] \cup ws) <= WorkerLimit
    PROVE  Fits(e)'
<1>1. /\ runner'[e].pc = (IF ws = {} THEN "idle" ELSE "dispatch")
      /\ runner'[e].batch = ws
  BY DispatchingFields
<1> QED
  BY <1>1 DEF Fits

\* A poll reads, and counts on what it has read.
LEMMA PollFits ==
    ASSUME TypeOK, Line, NEW e \in Executor, Tidy(e), Submitted \subseteq Submitted',
           \/ Promote(e) \/ CountLocal(e) \/ CountRecent(e) \/ CountPending(e) \/ Select(e)
    PROVE  /\ \A f \in Executor \ {e} : runner'[f] = runner[f]
           /\ Tidy(e)'
           /\ WorkerLimit # None /\ Fits(e) => Fits(e)'
<1>t. runner \in [Executor -> RunnerType] /\ active \in [Executor -> SUBSET Workflow]
  BY DEF TypeOK
<1>b. UNCHANGED <<active, counted, running>>
  BY DEF Promote, CountLocal, CountRecent, CountPending, Select, bodies
<1> DEFINE x == runner[e]
<1>x. x \in RunnerType
  BY <1>t
<1>i. Cardinality(active[e]) \in Nat /\ active[e] \cup {} = active[e]
  BY <1>t, Countable
\* A runner that gives up, and one that stays in its transaction.
<1>0. ASSUME runner' = [runner EXCEPT ![e] = Idle] PROVE Tidy(e)' /\ (WorkerLimit # None /\ Fits(e) => Fits(e)')
  <2>1. runner'[e] = Idle
    BY <1>t, <1>0
  <2>2. Held(e)' = {} /\ runner'[e].batch = {} /\ runner'[e].pc = "idle"
    BY <2>1 DEF Held, Idle
  <2>3. WorkerLimit # None /\ Fits(e) => Cardinality(active[e]) <= WorkerLimit
    <3>1. active[e] \cup x.batch \in SUBSET Workflow
      BY <1>t, <1>x DEF RunnerType
    <3>2. Cardinality(active[e]) <= Cardinality(active[e] \cup x.batch)
          /\ Cardinality(active[e] \cup x.batch) \in Nat
      BY <3>1, FewerOf
    <3>3. WorkerLimit # None => WorkerLimit \in Nat
      OBVIOUS
    <3>4. Fits(e) => Cardinality(active[e] \cup x.batch) <= WorkerLimit
      BY DEF Fits
    <3> QED
      BY <1>i, <3>2, <3>3, <3>4
  <2> QED
    BY <1>b, <1>i, <2>2, <2>3 DEF Tidy, Fits, Mine
<1>1. ASSUME NEW y, runner' = [runner EXCEPT ![e] = y], y.held = x.held, y.batch = x.batch,
             x.pc \notin {"claim", "dispatch"}, y.pc # "dispatch"
      PROVE  /\ runner'[e] = y /\ Held(e)' = {} /\ y.batch = {} /\ Tidy(e)'
             /\ Fits(e) => counted'[e] = active'[e] /\ Cardinality(active'[e] \cup y.batch) <= WorkerLimit
  <2>1. runner'[e] = y
    BY <1>t, <1>1
  <2>2. Held(e)' = Held(e) /\ Held(e) = {} /\ x.batch = {}
    BY <1>1, <2>1 DEF Held, Tidy
  <2> QED
    BY <1>1, <1>b, <2>1, <2>2 DEF Tidy, Mine, Fits
<1>2. CASE Promote(e)
  <2> DEFINE y == [x EXCEPT !.pc = "count"]
  <2>1. runner' = [runner EXCEPT ![e] = y] /\ x.pc = "idle"
    BY <1>2 DEF Promote
  <2>2. y.held = x.held /\ y.batch = x.batch /\ y.pc = "count"
    BY <1>x DEF RunnerType
  <2> HIDE DEF y
  <2>3. runner'[e] = y /\ Tidy(e)' /\ (Fits(e) => Fits(e)')
    BY <1>1, <2>1, <2>2 DEF Fits
  <2> QED
    BY <1>t, <2>1, <2>3
<1>3. CASE CountLocal(e)
  <2> DEFINE n == Cardinality(counted[e])
             y == [x EXCEPT !.pc = "rate", !.local = n]
  <2>1. runner' = [runner EXCEPT ![e] = y] /\ x.pc = "count"
    BY <1>3 DEF CountLocal
  <2>2. y.held = x.held /\ y.batch = x.batch /\ y.pc = "rate" /\ y.local = n
    BY <1>x DEF RunnerType
  <2>3. Fits(e) => Cardinality(active[e]) <= n
    BY <1>i DEF Fits
  <2> HIDE DEF y, n
  <2>4. runner'[e] = y /\ Tidy(e)' /\ (Fits(e) => Fits(e)')
    BY <1>1, <1>b, <2>1, <2>2, <2>3 DEF Fits
  <2> QED
    BY <1>t, <2>1, <2>4
<1>4. CASE CountRecent(e)
  <2> DEFINE n == IF StartLimit = None THEN 0 ELSE RecentStarts
             y == [x EXCEPT !.pc = "limit", !.recent = n]
  <2>1. x.pc = "rate" /\ (runner' = [runner EXCEPT ![e] = Idle] \/ runner' = [runner EXCEPT ![e] = y])
    BY <1>4 DEF CountRecent
  <2> HIDE DEF n
  <2>2. y.held = x.held /\ y.batch = x.batch /\ y.pc = "limit" /\ y.local = x.local
    BY <1>x DEF RunnerType
  <2> HIDE DEF y
  <2>3. CASE runner' = [runner EXCEPT ![e] = y]
    <3>1. runner'[e] = y /\ Tidy(e)' /\ (Fits(e) => Fits(e)')
      BY <1>1, <1>b, <2>1, <2>2, <2>3 DEF Fits
    <3> QED
      BY <1>t, <2>3, <3>1
  <2> QED
    BY <1>t, <1>0, <2>1, <2>3
<1>5. CASE CountPending(e)
  <2> DEFINE n == Room(x.local)
             y == [x EXCEPT !.pc = "select", !.room = n]
  <2>1. /\ x.pc = "limit"
        /\ runner' = [runner EXCEPT ![e] = Idle] \/ (n # 0 /\ runner' = [runner EXCEPT ![e] = y])
    BY <1>5 DEF CountPending
  <2>2. x.local \in Nat /\ (WorkerLimit # None => n = 0 \/ n + x.local <= WorkerLimit)
    BY <1>x, WorkerRoom DEF RunnerType
  <2> HIDE DEF n
  <2>3. y.held = x.held /\ y.batch = x.batch /\ y.pc = "select" /\ y.local = x.local /\ y.room = n
    BY <1>x DEF RunnerType
  <2> HIDE DEF y
  <2>4. CASE n # 0 /\ runner' = [runner EXCEPT ![e] = y]
    <3>1. runner'[e] = y /\ Tidy(e)' /\ (WorkerLimit # None /\ Fits(e) => Fits(e)')
      BY <1>1, <1>b, <2>1, <2>2, <2>3, <2>4 DEF Fits
    <3> QED
      BY <1>t, <2>4, <3>1
  <2> QED
    BY <1>t, <1>0, <2>1, <2>4
<1>6. CASE Select(e)
  <2> DEFINE ws == First(x.room)
             y == [x EXCEPT !.pc = "claim", !.ids = ws]
  <2>1. x.pc = "select" /\ runner' = [runner EXCEPT ![e] = y]
    BY <1>6 DEF Select
  <2>2. x.room \in Nat /\ Cardinality(ws) <= x.room
    BY <1>x, FirstSize DEF RunnerType
  <2> HIDE DEF ws
  <2>3. y.held = x.held /\ y.batch = x.batch /\ y.pc = "claim" /\ y.local = x.local /\ y.room = x.room
        /\ y.ids = ws
    BY <1>x DEF RunnerType
  <2> HIDE DEF y
  <2>4. runner'[e] = y /\ Held(e)' = {} /\ Tidy(e)'
    BY <1>1, <2>1, <2>3
  <2>5. Cardinality(y.ids \cup Held(e)') <= y.room
    <3>1. y.ids \cup Held(e)' = ws
      BY <2>3, <2>4
    <3> QED
      BY <2>2, <2>3, <3>1
  <2>6. Fits(e) => Fits(e)'
    BY <1>1, <1>b, <2>1, <2>3, <2>4, <2>5 DEF Fits
  <2> QED
    BY <1>t, <2>1, <2>4, <2>6
<1> QED
  BY <1>2, <1>3, <1>4, <1>5, <1>6

\* What a step keeps of every process.
WorkerKept ==
    /\ \A f \in Executor : Tidy(f)'
    /\ WorkerLimit # None /\ NullFree /\ (\A f \in Executor : Fits(f)) => \A f \in Executor : Fits(f)'

\* The processes a step leaves alone need no more than that.
LEMMA OneProcess ==
    ASSUME NEW e \in Executor, \A f \in Executor : Tidy(f), Submitted \subseteq Submitted',
           \A f \in Executor \ {e} : /\ runner'[f] = runner[f] /\ active'[f] = active[f]
                                     /\ counted'[f] = counted[f] /\ running'[f] = running[f],
           Tidy(e)', WorkerLimit # None /\ NullFree /\ Fits(e) => Fits(e)'
    PROVE  WorkerKept
<1>1. ASSUME NEW f \in Executor \ {e} PROVE Tidy(f)' /\ (Fits(f) => Fits(f)')
  BY Undisturbed
<1> QED
  BY <1>1 DEF WorkerKept

\* SQLite's poll claims what its count leaves.
LEMMA DequeueFits ==
    ASSUME TypeOK, Line, NEW e \in Executor, \A f \in Executor : Tidy(f),
           Submitted \subseteq Submitted', Dequeue(e)
    PROVE  WorkerKept
<1> DEFINE local == runner[e].local
           room == Room(local)
           recent == RecentStarts
           ws == IF StartLimit # None /\ recent >= StartLimit THEN {} ELSE First(Allowed(room, recent))
<1>t. /\ runner \in [Executor -> RunnerType] /\ active \in [Executor -> SUBSET Workflow]
      /\ local \in Nat /\ runner[e].batch \in SUBSET Workflow
  BY DEF TypeOK, RunnerType
<1>1. room \in Nat /\ (WorkerLimit # None => room = 0 \/ room + local <= WorkerLimit)
  BY <1>t, RoomType, WorkerRoom
<1>2. ws \in SUBSET Workflow /\ ws \subseteq Submitted
  BY DEF First, InStatus, Submitted
<1>3. /\ Dispatching(e, ws) /\ UNCHANGED <<active, counted, running>>
      /\ runner[e].pc = "rate"
  BY DEF Dequeue, bodies
<1>4. Cardinality(ws) \in Nat /\ Cardinality(ws) <= room
  <2>1. CASE StartLimit # None /\ recent >= StartLimit
    <3>1. ws = {}
      BY <2>1
    <3> HIDE DEF ws, room
    <3> QED
      BY <1>1, <3>1, FS_EmptySet
  <2>2. CASE ~(StartLimit # None /\ recent >= StartLimit)
    <3> DEFINE allowed == Allowed(room, recent)
    <3>1. recent \in Nat
      BY Countable DEF RecentStarts
    <3> HIDE DEF recent, room
    <3>2. allowed \in Nat /\ allowed <= room
      BY <1>1, <2>2, <3>1 DEF Allowed, MinOf
    <3> HIDE DEF allowed
    <3>3. Cardinality(First(allowed)) <= allowed
      BY <3>2, FirstSize
    <3>4. ws = First(allowed)
      BY <2>2 DEF allowed
    <3> HIDE DEF ws
    <3>5. Cardinality(ws) \in Nat
      BY <1>2, Countable
    <3> QED
      BY <1>1, <3>2, <3>3, <3>4, <3>5
  <2> QED
    BY <2>1, <2>2
<1> HIDE DEF ws, room
<1>5. \A f \in Executor \ {e} : runner'[f] = runner[f]
  BY <1>2, <1>3, DispatchingFields
<1>6. Tidy(e)'
  BY <1>2, <1>3, TidyDispatch
<1>7. ASSUME WorkerLimit # None, Fits(e) PROVE Fits(e)'
  <2>1. /\ counted'[e] = active'[e] /\ active'[e] = active[e] /\ Cardinality(active[e]) <= local
        /\ Cardinality(active[e] \cup runner[e].batch) <= WorkerLimit
    BY <1>3, <1>7 DEF Fits
  <2>2. Cardinality(active[e] \cup ws) <= Cardinality(active[e]) + Cardinality(ws)
    BY <1>t, <1>2, UnionOf
  <2>3. WorkerLimit \in Nat
    BY <1>7
  <2>4. Cardinality(active[e]) \in Nat /\ Cardinality(active[e] \cup ws) \in Nat
    BY <1>t, <1>2, Countable
  <2>5. Cardinality(active[e]) <= WorkerLimit
    <3>1. /\ Cardinality(active[e]) <= Cardinality(active[e] \cup runner[e].batch)
          /\ Cardinality(active[e] \cup runner[e].batch) \in Nat
      BY <1>t, FewerOf
    <3> QED
      BY <2>1, <2>3, <2>4, <3>1
  <2>6. Cardinality(active[e] \cup ws) <= WorkerLimit
    BY <1>t, <1>1, <1>4, <1>7, <2>1, <2>2, <2>3, <2>4, <2>5
  <2> QED
    BY <1>2, <1>3, <2>1, <2>6, FitsDispatch
<1> QED
  BY <1>3, <1>5, <1>6, <1>7, OneProcess

\* Postgres' poll claims its candidates one by one.
LEMMA ClaimFits ==
    ASSUME TypeOK, NEW e \in Executor, \A f \in Executor : Tidy(f),
           Submitted \subseteq Submitted', Claim(e)
    PROVE  WorkerKept
<1> DEFINE x == runner[e]
<1>t. /\ runner \in [Executor -> RunnerType] /\ active \in [Executor -> SUBSET Workflow]
      /\ x \in RunnerType /\ x.ids \in SUBSET Workflow /\ x.room \in Nat
  BY DEF TypeOK, RunnerType
<1>1. PICK w \in x.ids : /\ x.pc = "claim"
                         /\ runner' = [runner EXCEPT ![e] = Tried(x, w, row[w].status = "ENQUEUED")]
                         /\ UNCHANGED <<row, active, counted, running>>
  BY DEF Claim, bodies
<1> DEFINE free == row[w].status = "ENQUEUED"
           left == x.ids \ {w}
           holding == IF free THEN [x.held EXCEPT ![w] = 0] ELSE x.held
           y == [x EXCEPT !.ids = left, !.held = holding]
<1>2. runner' = [runner EXCEPT ![e] = y]
  BY <1>1 DEF Tried
<1>3. /\ w \in Workflow /\ holding \in [Workflow -> Age \cup {None}]
      /\ \A v \in Workflow \ {w} : holding[v] = x.held[v]
      /\ ~free => holding = x.held
  BY <1>t DEF RunnerType, Age
<1> HIDE DEF holding, left
<1>4. /\ y.pc = x.pc /\ y.local = x.local /\ y.room = x.room /\ y.batch = x.batch
      /\ y.ids = left /\ y.held = holding
  BY <1>t DEF RunnerType
<1> HIDE DEF y
<1>5. runner'[e] = y /\ \A f \in Executor \ {e} : runner'[f] = runner[f]
  BY <1>t, <1>2
<1>6. Held(e)' = {v \in Workflow : holding[v] # None}
  BY <1>4, <1>5 DEF Held
<1>7. Held(e)' \subseteq Held(e) \cup {w} /\ (~free => Held(e)' = Held(e))
  <2>1. Held(e) = {v \in Workflow : x.held[v] # None}
    BY DEF Held
  <2>2. ASSUME NEW v \in Held(e)' PROVE v \in Held(e) \cup {w}
    BY <1>3, <1>6, <2>1, <2>2
  <2>3. ASSUME ~free PROVE Held(e)' = Held(e)
    BY <1>3, <1>6, <2>1, <2>3
  <2> QED
    BY <2>2, <2>3
<1>8. left \cup Held(e)' \subseteq x.ids \cup Held(e)
  BY <1>7 DEF left
<1>9. Mine(e)' = Mine(e)
  BY <1>1, <1>4, <1>5 DEF Mine
<1>10. Held(e)' \subseteq Submitted
  <2>1. Held(e) \subseteq Submitted
    BY DEF Tidy
  <2>2. free => w \in Submitted
    BY <1>3 DEF Submitted, InStatus
  <2> QED
    BY <1>7, <2>1, <2>2
<1>11. Tidy(e)'
  BY <1>1, <1>4, <1>5, <1>9, <1>10 DEF Tidy
<1>12. ASSUME WorkerLimit # None, Fits(e) PROVE Fits(e)'
  <2>1. x.ids \cup Held(e) \in SUBSET Workflow
    BY <1>t DEF Held
  <2>2. /\ Cardinality(left \cup Held(e)') \in Nat /\ Cardinality(x.ids \cup Held(e)) \in Nat
        /\ Cardinality(left \cup Held(e)') <= Cardinality(x.ids \cup Held(e))
    BY <1>8, <2>1, FewerOf
  <2>3. Cardinality(x.ids \cup Held(e)) <= x.room
    BY <1>1, <1>12 DEF Fits
  <2>4. Cardinality(left \cup Held(e)') <= x.room
    BY <1>t, <2>2, <2>3
  <2> QED
    BY <1>1, <1>4, <1>5, <1>12, <2>4 DEF Fits
<1> QED
  BY <1>1, <1>5, <1>11, <1>12, OneProcess

\* The commit leaves what was claimed to be dispatched.
LEMMA CommitFits ==
    ASSUME TypeOK, NEW e \in Executor, \A f \in Executor : Tidy(f),
           Submitted \subseteq Submitted', Commit(e)
    PROVE  WorkerKept
<1>t. /\ active \in [Executor -> SUBSET Workflow] /\ runner[e].batch \in SUBSET Workflow
      /\ runner[e].ids \in SUBSET Workflow /\ runner[e].local \in Nat /\ runner[e].room \in Nat
  BY DEF TypeOK, RunnerType
<1> DEFINE ws == Held(e)
<1>1. ws \in SUBSET Workflow /\ ws \subseteq Submitted
  BY DEF Held, Tidy
<1>2. Dispatching(e, ws) /\ UNCHANGED <<active, counted, running>> /\ runner[e].pc = "claim"
  BY DEF Commit, bodies
<1> HIDE DEF ws
<1>3. \A f \in Executor \ {e} : runner'[f] = runner[f]
  BY <1>1, <1>2, DispatchingFields
<1>4. Tidy(e)'
  BY <1>1, <1>2, TidyDispatch
<1>5. ASSUME WorkerLimit # None, Fits(e) PROVE Fits(e)'
  <2>1. /\ counted'[e] = active'[e] /\ active'[e] = active[e]
        /\ Cardinality(active[e]) <= runner[e].local
        /\ runner[e].room + runner[e].local <= WorkerLimit
        /\ Cardinality(runner[e].ids \cup ws) <= runner[e].room
    BY <1>2, <1>5 DEF Fits, ws
  <2>2. /\ Cardinality(ws) <= Cardinality(runner[e].ids \cup ws)
        /\ Cardinality(ws) \in Nat /\ Cardinality(runner[e].ids \cup ws) \in Nat
    <3>1. runner[e].ids \cup ws \in SUBSET Workflow
      BY <1>t, <1>1
    <3> QED
      BY <3>1, FewerOf
  <2>3. Cardinality(active[e] \cup ws) <= Cardinality(active[e]) + Cardinality(ws)
    BY <1>t, <1>1, UnionOf
  <2>4. Cardinality(active[e]) \in Nat /\ Cardinality(active[e] \cup ws) \in Nat /\ WorkerLimit \in Nat
    BY <1>t, <1>1, <1>5, Countable
  <2>5. Cardinality(active[e] \cup ws) <= WorkerLimit
    BY <1>t, <2>1, <2>2, <2>3, <2>4
  <2> QED
    BY <1>1, <1>2, <2>1, <2>5, FitsDispatch
<1> QED
  BY <1>2, <1>3, <1>4, <1>5, OneProcess

\* A dispatch moves a workflow from the batch to the active ones, and the
\* entry counts because the row names its queue.
LEMMA DispatchFits ==
    ASSUME TypeOK, NEW e \in Executor, NEW w \in Workflow, \A f \in Executor : Tidy(f),
           Submitted \subseteq Submitted', Dispatch(e, w) \/ DispatchFails(e, w)
    PROVE  WorkerKept
<1> DEFINE ws == runner[e].batch \ {w}
<1>t. /\ active \in [Executor -> SUBSET Workflow] /\ counted \in [Executor -> SUBSET Workflow]
      /\ running \in [Executor -> SUBSET Workflow] /\ runner[e].batch \in SUBSET Workflow
  BY DEF TypeOK, RunnerType
<1>1. /\ w \in runner[e].batch /\ Dispatching(e, ws) /\ ws \in SUBSET Workflow
      /\ ws \subseteq Submitted /\ w \in Submitted
  BY <1>t DEF Dispatch, DispatchFails, Tidy, Mine
<1>2. \/ UNCHANGED <<active, counted, running>>
      \/ /\ active' = [active EXCEPT ![e] = active[e] \cup {w}]
         /\ running' = [running EXCEPT ![e] = running[e] \cup {w}]
         /\ counted' = IF OnQueue(w) THEN [counted EXCEPT ![e] = counted[e] \cup {w}] ELSE counted
  BY DEF Dispatch, DispatchFails, bodies
<1>3. \A f \in Executor \ {e} : /\ active'[f] = active[f] /\ counted'[f] = counted[f]
                                /\ running'[f] = running[f]
  BY <1>t, <1>2
<1>4. /\ active'[e] \subseteq active[e] \cup {w} /\ running'[e] \subseteq running[e] \cup {w}
      /\ (OnQueue(w) /\ counted[e] = active[e] => counted'[e] = active'[e])
  BY <1>t, <1>2
<1>5. \A f \in Executor \ {e} : runner'[f] = runner[f]
  BY <1>1, DispatchingFields
<1>6. running'[e] \subseteq running[e] \cup ws \cup runner[e].batch
  BY <1>1, <1>4
<1> HIDE DEF ws
<1>7. Tidy(e)'
  BY <1>1, <1>6, TidyDispatch
<1>8. ASSUME WorkerLimit # None, NullFree, Fits(e) PROVE Fits(e)'
  <2>1. counted'[e] = active'[e] /\ Cardinality(active[e] \cup runner[e].batch) <= WorkerLimit
    BY <1>1, <1>4, <1>8 DEF Fits, NullFree
  <2>2. active'[e] \cup ws \subseteq active[e] \cup runner[e].batch
    BY <1>1, <1>4 DEF ws
  <2>3. active[e] \cup runner[e].batch \in SUBSET Workflow
    BY <1>t
  <2>4. /\ Cardinality(active'[e] \cup ws) <= Cardinality(active[e] \cup runner[e].batch)
        /\ Cardinality(active'[e] \cup ws) \in Nat /\ Cardinality(active[e] \cup runner[e].batch) \in Nat
    BY <2>2, <2>3, FewerOf
  <2>5. WorkerLimit \in Nat
    BY <1>8
  <2>6. Cardinality(active'[e] \cup ws) <= WorkerLimit
    BY <2>1, <2>4, <2>5
  <2> QED
    BY <1>1, <2>1, <2>6, FitsDispatch
<1> QED
  BY <1>3, <1>5, <1>7, <1>8, OneProcess

\* A body that ends, or whose entry is removed, leaves room.
LEMMA BodyFits ==
    ASSUME TypeOK, NEW e \in Executor, NEW w \in Workflow, \A f \in Executor : Tidy(f),
           Submitted \subseteq Submitted', EndBody(e, w) \/ Leave(e, w)
    PROVE  WorkerKept
<1>t. /\ active \in [Executor -> SUBSET Workflow] /\ counted \in [Executor -> SUBSET Workflow]
      /\ running \in [Executor -> SUBSET Workflow] /\ runner[e].batch \in SUBSET Workflow
  BY DEF TypeOK, RunnerType
<1>1. /\ UNCHANGED runner
      /\ \/ running' = [running EXCEPT ![e] = running[e] \ {w}] /\ UNCHANGED <<active, counted>>
         \/ /\ active' = [active EXCEPT ![e] = active[e] \ {w}]
            /\ counted' = [counted EXCEPT ![e] = counted[e] \ {w}] /\ UNCHANGED running
  BY DEF EndBody, Leave
<1>2. /\ \A f \in Executor \ {e} : /\ active'[f] = active[f] /\ counted'[f] = counted[f]
                                   /\ running'[f] = running[f]
      /\ active'[e] \subseteq active[e] /\ running'[e] \subseteq running[e]
      /\ (counted[e] = active[e] => counted'[e] = active'[e])
  BY <1>t, <1>1
<1>3. Held(e)' = Held(e) /\ Mine(e)' \subseteq Mine(e)
  BY <1>1, <1>2 DEF Held, Mine
<1>4. Tidy(e)'
  BY <1>1, <1>3 DEF Tidy
<1>5. ASSUME WorkerLimit # None, Fits(e) PROVE Fits(e)'
  <2>1. active'[e] \cup runner[e].batch \subseteq active[e] \cup runner[e].batch
        /\ active[e] \cup runner[e].batch \in SUBSET Workflow
    BY <1>t, <1>2
  <2>2. /\ Cardinality(active'[e] \cup runner[e].batch) <= Cardinality(active[e] \cup runner[e].batch)
        /\ Cardinality(active'[e] \cup runner[e].batch) \in Nat
        /\ Cardinality(active[e] \cup runner[e].batch) \in Nat
    BY <2>1, FewerOf
  <2>3. /\ Cardinality(active'[e]) <= Cardinality(active[e])
        /\ Cardinality(active'[e]) \in Nat /\ Cardinality(active[e]) \in Nat
    BY <1>t, <1>2, FewerOf
  <2>4. WorkerLimit \in Nat /\ Cardinality(active[e] \cup runner[e].batch) <= WorkerLimit
    BY <1>5 DEF Fits
  <2>5. Cardinality(active'[e] \cup runner[e].batch) <= WorkerLimit
    BY <2>2, <2>4
  <2>6. runner[e].local \in Nat
    BY DEF TypeOK, RunnerType
  <2>7. Cardinality(active[e]) <= runner[e].local => Cardinality(active'[e]) <= runner[e].local
    BY <2>3, <2>6
  <2> QED
    BY <1>1, <1>2, <1>3, <1>5, <2>5, <2>7 DEF Fits
<1> QED
  BY <1>1, <1>2, <1>4, <1>5, OneProcess

\* A process that dies forgets everything.
LEMMA CrashFits ==
    ASSUME TypeOK, NEW e \in Executor, \A f \in Executor : Tidy(f),
           Submitted \subseteq Submitted', Crash(e)
    PROVE  WorkerKept
<1>t. /\ runner \in [Executor -> RunnerType] /\ active \in [Executor -> SUBSET Workflow]
      /\ counted \in [Executor -> SUBSET Workflow] /\ running \in [Executor -> SUBSET Workflow]
  BY DEF TypeOK
<1>1. /\ \A f \in Executor \ {e} : /\ runner'[f] = runner[f] /\ active'[f] = active[f]
                                   /\ counted'[f] = counted[f] /\ running'[f] = running[f]
      /\ runner'[e] = Idle /\ active'[e] = {} /\ counted'[e] = {} /\ running'[e] = {}
  BY <1>t DEF Crash
<1>2. Held(e)' = {} /\ Mine(e)' = {} /\ runner'[e].pc = "idle" /\ runner'[e].batch = {}
  BY <1>1 DEF Held, Mine, Idle
<1>3. Cardinality({}) = 0
  BY FS_EmptySet
<1>4. WorkerLimit # None => 0 <= WorkerLimit
  OBVIOUS
<1>5. Tidy(e)'
  BY <1>2 DEF Tidy
<1>6. WorkerLimit # None => Fits(e)'
  <2>1. active'[e] \cup runner'[e].batch = {}
    BY <1>1, <1>2
  <2> QED
    BY <1>1, <1>2, <1>3, <1>4, <2>1 DEF Fits
<1> QED
  BY <1>1, <1>5, <1>6, OneProcess

\* Time makes claims older.
LEMMA TickFits ==
    ASSUME TypeOK, \A f \in Executor : Tidy(f), Submitted \subseteq Submitted', Tick
    PROVE  WorkerKept
<1>t. runner \in [Executor -> RunnerType]
  BY DEF TypeOK
<1>1. ASSUME NEW f \in Executor PROVE Tidy(f)' /\ (Fits(f) => Fits(f)')
  <2> DEFINE x == runner[f]
             holding == [w \in Workflow |-> IF x.held[w] = None THEN None ELSE Older(x.held[w])]
             y == [x EXCEPT !.held = holding]
  <2>1. runner'[f] = y /\ UNCHANGED <<active, counted, running>>
    BY DEF Tick, bodies
  <2>2. \A w \in Workflow : holding[w] # None <=> x.held[w] # None
    <3>1. \A w \in Workflow : x.held[w] \in Age \cup {None}
      BY <1>t DEF RunnerType
    <3>2. \A a \in Age : Older(a) # None
      BY OlderType DEF Age
    <3> QED
      BY <3>1, <3>2
  <2> HIDE DEF holding
  <2>3. /\ y.pc = x.pc /\ y.local = x.local /\ y.room = x.room /\ y.batch = x.batch
        /\ y.ids = x.ids /\ y.held = holding
    BY <1>t DEF RunnerType
  <2> HIDE DEF y
  <2>4. Held(f)' = Held(f) /\ Mine(f)' = Mine(f)
    BY <2>1, <2>2, <2>3 DEF Held, Mine
  <2> QED
    BY <2>1, <2>3, <2>4 DEF Tidy, Fits
<1> QED
  BY <1>1 DEF WorkerKept

\* Every step keeps the invariant.
LEMMA WorkerStep == WorkerInv /\ [Next]_vars => WorkerInv'
<1> SUFFICES ASSUME WorkerInv, [Next]_vars PROVE WorkerInv'
  OBVIOUS
<1>0. TypeOK /\ Line /\ \A f \in Executor : Tidy(f)
  BY DEF WorkerInv
<1>1. TypeOK'
  BY <1>0, StepType
<1>2. Line' /\ Submitted \subseteq Submitted' /\ (budget'.cancel = budget.cancel /\ NullFree => NullFree')
  BY <1>0, LineStep
<1>3. WorkerKept
  <2>0. Submitted \subseteq Submitted'
    BY <1>2
  <2>1. ASSUME NEW e \in Executor, RunnerStep(e) PROVE WorkerKept
    <3>1. CASE Promote(e) \/ CountLocal(e) \/ CountRecent(e) \/ CountPending(e) \/ Select(e)
      <4>1. UNCHANGED <<active, counted, running>>
        BY <3>1 DEF Promote, CountLocal, CountRecent, CountPending, Select, bodies
      <4>2. /\ \A f \in Executor \ {e} : runner'[f] = runner[f]
            /\ Tidy(e)' /\ (WorkerLimit # None /\ Fits(e) => Fits(e)')
        BY <1>0, <2>0, <3>1, PollFits
      <4> QED
        BY <1>0, <2>0, <4>1, <4>2, OneProcess
    <3>2. CASE Dequeue(e)
      BY <1>0, <2>0, <3>2, DequeueFits
    <3>3. CASE Claim(e)
      BY <1>0, <2>0, <3>3, ClaimFits
    <3>4. CASE Commit(e)
      BY <1>0, <2>0, <3>4, CommitFits
    <3>5. ASSUME NEW w \in Workflow, Dispatch(e, w) PROVE WorkerKept
      BY <1>0, <2>0, <3>5, DispatchFits
    <3> QED
      BY <2>1, <3>1, <3>2, <3>3, <3>4, <3>5 DEF RunnerStep
  <2>2. ASSUME NEW e \in Executor, NEW w \in Workflow, BodyStep(e, w) PROVE WorkerKept
    BY <1>0, <2>0, <2>2, BodyFits DEF BodyStep
  <2>3. ASSUME NEW e \in Executor, NEW w \in Workflow, DispatchFails(e, w) PROVE WorkerKept
    BY <1>0, <2>0, <2>3, DispatchFits
  <2>4. ASSUME NEW e \in Executor, Crash(e) PROVE WorkerKept
    BY <1>0, <2>0, <2>4, CrashFits
  <2>5. CASE Tick
    BY <1>0, <2>0, <2>5, TickFits
  <2>6. ASSUME UNCHANGED <<runner, active, counted, running>> PROVE WorkerKept
    <3>1. ASSUME NEW f \in Executor PROVE Tidy(f)' /\ (Fits(f) => Fits(f)')
      BY <1>0, <2>0, <2>6, Undisturbed
    <3> QED
      BY <3>1 DEF WorkerKept
  <2>7. ASSUME NEW e \in Executor,
               \/ RecoveryStep(e)
               \/ \E target \in Executor : RecoveryRequest(e, target)
        PROVE  WorkerKept
    BY <2>6, <2>7 DEF RecoveryStep, Launch, Launched, Recover, RecoveryRequest, bodies
  <2>8. ASSUME NEW w \in Workflow, Enqueue(w) \/ Cancel(w) PROVE WorkerKept
    BY <2>6, <2>8 DEF Enqueue, Cancel, bodies
  <2>9. CASE UNCHANGED vars
    BY <2>6, <2>9 DEF vars
  <2> QED
    BY <2>1, <2>2, <2>3, <2>4, <2>5, <2>7, <2>8, <2>9 DEF Next, Environment
<1>4. Watched' => Watched /\ budget'.cancel = budget.cancel
  <2>1. budget'.cancel = MaxCancels => budget.cancel = MaxCancels
    BY <1>0, BudgetsFall
  <2> QED
    BY <2>1 DEF Watched
<1> QED
  BY <1>1, <1>2, <1>3, <1>4 DEF WorkerInv, WorkerKept, Watched

\* It holds at the start: nobody has anything.
LEMMA WorkerInit == Init => WorkerInv
<1> SUFFICES ASSUME Init PROVE WorkerInv
  OBVIOUS
<1>1. TypeOK
  BY InitType
<1>2. Submitted = {}
  BY DEF Init, Submitted, InStatus, NoRow
<1>3. ASSUME NEW e \in Executor
      PROVE  /\ Held(e) = {} /\ Mine(e) = {} /\ runner[e].pc = "idle" /\ runner[e].batch = {}
             /\ active[e] = {} /\ counted[e] = {}
  BY IdleHands DEF Init, Mine, Idle
<1>4. Cardinality({}) = 0 /\ (WorkerLimit # None => 0 <= WorkerLimit)
  BY FS_EmptySet
<1>5. ASSUME NEW e \in Executor PROVE Tidy(e) /\ (WorkerLimit # None => Fits(e))
  <2>1. active[e] \cup runner[e].batch = {}
    BY <1>3
  <2> QED
    BY <1>3, <1>4, <2>1 DEF Tidy, Fits
<1> QED
  BY <1>1, <1>2, <1>5 DEF WorkerInv, Line, NullFree, Watched

\* On both backends no process runs more workflows of a queue than
\* worker_concurrency, the batch it is about to dispatch included, for any
\* number of processes and workflows, whatever crashes, fails or is recovered
\* on behalf of others, as long as nothing is cancelled.
THEOREM WorkerLimitOnBoth == Spec => []WorkerLimitHolds
<1>1. WorkerInv => WorkerLimitHolds
  BY DEF WorkerInv, WorkerLimitHolds, Watched, Fits
<1> QED
  BY WorkerInit, WorkerStep, <1>1, PTL DEF Spec

------------------------------------------------------------------------------
(* The bodies that really run, on SQLite.                                  *)

\* Without cancellations every row names its queue, and none is CANCELLED.
Uncancelled == NullFree /\ \A w \in Workflow : row[w].status # "CANCELLED"

\* The row of a workflow whose body runs is PENDING.
Busy == \A e \in Executor : \A w \in running[e] : row[w].status = "PENDING"

\* What is proved by induction for the bodies.
BusyInv ==
    /\ WorkerInv /\ PassInv
    /\ budget.cancel = MaxCancels =>
          Uncancelled /\ (budget.pass = MaxPasses => Busy)

\* A step that starts no body and leaves the rows of running bodies PENDING.
LEMMA BusyRows ==
    ASSUME Busy, \A e \in Executor : running'[e] \subseteq running[e],
           \A e \in Executor : \A w \in running'[e] :
              row[w].status = "PENDING" => row'[w].status = "PENDING"
    PROVE  Busy'
  BY DEF Busy

\* Nothing becomes CANCELLED but by a cancellation.
LEMMA NoCancellation ==
    ASSUME TypeOK, [Next]_vars, budget'.cancel = budget.cancel,
           NEW w \in Workflow, row[w].status # "CANCELLED"
    PROVE  row'[w].status # "CANCELLED"
<1>t. row \in [Workflow -> RowType] /\ budget \in Budget
  BY DEF TypeOK
<1> DEFINE Not == row'[w].status # "CANCELLED"
<1>1. ASSUME NEW v \in Workflow, Enqueue(v) PROVE Not
  <2> DEFINE new == [status |-> IF Delay[v] > 0 THEN "DELAYED" ELSE "ENQUEUED", queue |-> "this",
                     executor |-> None, created |-> Cardinality(Workflow \ InStatus("ABSENT")),
                     delay |-> Delay[v], age |-> Period]
  <2>1. row' = [row EXCEPT ![v] = new] /\ new.status # "CANCELLED"
    BY <1>1 DEF Enqueue
  <2> HIDE DEF new
  <2> QED
    BY <1>t, <2>1
<1>2. ASSUME NEW v \in Workflow, Cancel(v) PROVE Not
  BY <1>t, <1>2 DEF Cancel, Budget
<1>3. ASSUME NEW e \in Executor, Promote(e) PROVE Not
  <2>1. row'[w] = row[w] \/ row'[w] = [row[w] EXCEPT !.status = "ENQUEUED"]
    BY <1>3 DEF Promote
  <2> QED
    BY <1>t, <2>1 DEF RowType
<1>4. ASSUME NEW e \in Executor, Dequeue(e) PROVE Not
  <2>1. row'[w] = row[w] \/ row'[w] = Claimed(w, e, 0)
    BY <1>4 DEF Dequeue
  <2> QED
    BY <1>t, <2>1, ClaimedFields
<1>5. ASSUME NEW e \in Executor, Commit(e) PROVE Not
  <2>1. row'[w] = row[w] \/ row'[w] = Claimed(w, e, runner[e].held[w])
    BY <1>5 DEF Commit
  <2> QED
    BY <1>t, <2>1, ClaimedFields
<1>6. ASSUME NEW e \in Executor, NEW v \in Workflow, Dispatch(e, v) PROVE Not
  <2>1. row' = [row EXCEPT ![v] = [row[v] EXCEPT !.executor = e]]
    BY <1>6 DEF Dispatch
  <2> QED
    BY <1>t, <2>1 DEF RowType
<1>7. ASSUME NEW e \in Executor, NEW v \in Workflow, EndBody(e, v) PROVE Not
  <2>1. row' = row \/ row' = [row EXCEPT ![v] = [row[v] EXCEPT !.status = "SUCCESS"]]
    BY <1>7 DEF EndBody
  <2> QED
    BY <1>t, <2>1 DEF RowType
<1>8. ASSUME NEW e \in Executor, NEW v \in Workflow, Recover(e, v) PROVE Not
  <2>1. row' = [row EXCEPT ![v] = Cleared(v)]
    BY <1>8 DEF Recover
  <2>2. Cleared(v) = row[v] \/ Cleared(v).status = "ENQUEUED"
    BY <1>t DEF Cleared, RowType
  <2> QED
    BY <1>t, <2>1, <2>2
<1>9. CASE Tick
  <2> DEFINE d == Positive(row[w].delay - 1)
             a == Older(row[w].age)
  <2>1. row'[w] = [row[w] EXCEPT !.delay = d, !.age = a]
    BY <1>9 DEF Tick
  <2> HIDE DEF d, a
  <2> QED
    BY <1>t, <2>1 DEF RowType
<1>10. CASE UNCHANGED row
  BY <1>10
<1> QED
  BY <1>1, <1>2, <1>3, <1>4, <1>5, <1>6, <1>7, <1>8, <1>9, <1>10
     DEF Next, RunnerStep, BodyStep, RecoveryStep, Environment, vars, CountLocal, CountRecent,
         CountPending, Select, Claim, DispatchFails, Leave, Launch, Launched, RecoveryRequest, Crash

\* The polls: only workflows that wait are claimed.
LEMMA PollBusy ==
    ASSUME TypeOK, HandsInv, Busy, NEW e \in Executor,
           Promote(e) \/ Dequeue(e) \/ Commit(e)
    PROVE  Busy'
<1>t. row \in [Workflow -> RowType]
  BY DEF TypeOK
<1>1. UNCHANGED running
  BY DEF Promote, Dequeue, Commit, bodies
<1>2. ASSUME NEW w \in Workflow, row[w].status = "PENDING" PROVE row'[w].status = "PENDING"
  <2>1. CASE Promote(e)
    BY <1>2, <2>1 DEF Promote
  <2>2. CASE Dequeue(e)
    <3>1. row'[w] = row[w] \/ row'[w] = Claimed(w, e, 0)
      BY <2>2 DEF Dequeue
    <3> QED
      BY <1>t, <1>2, <3>1, ClaimedFields
  <2>3. CASE Commit(e)
    <3>1. row'[w] = row[w] \/ row'[w] = Claimed(w, e, runner[e].held[w])
      BY <2>3 DEF Commit
    <3> QED
      BY <1>t, <1>2, <3>1, ClaimedFields
  <2> QED
    BY <2>1, <2>2, <2>3
<1>3. \A f \in Executor : running[f] \subseteq Workflow
  BY DEF TypeOK
<1> QED
  BY <1>1, <1>2, <1>3, BusyRows

\* The dispatch: a workflow that has not ended is PENDING.
LEMMA DispatchBusy ==
    ASSUME TypeOK, HandsInv, Uncancelled, Busy,
           NEW e \in Executor, NEW w \in Workflow, Dispatch(e, w)
    PROVE  Busy'
<1>t. row \in [Workflow -> RowType] /\ running \in [Executor -> SUBSET Workflow]
  BY DEF TypeOK
<1>1. w \in Mine(e) /\ row' = [row EXCEPT ![w] = [row[w] EXCEPT !.executor = e]]
  BY DEF Dispatch, Mine
<1>2. \A v \in Workflow : row'[v].status = row[v].status
  BY <1>t, <1>1 DEF RowType
<1>3. row[w].status \in {"SUCCESS", "PENDING"}
  BY <1>1 DEF HandsInv, Owned, Uncancelled
<1>4. \/ running' = running
      \/ row[w].status # "SUCCESS" /\ running' = [running EXCEPT ![e] = @ \cup {w}]
  BY DEF Dispatch
<1>5. CASE running' = running
  BY <1>t, <1>2, <1>5 DEF Busy
<1>6. CASE row[w].status # "SUCCESS" /\ running' = [running EXCEPT ![e] = @ \cup {w}]
  <2>1. \A f \in Executor : running'[f] \subseteq running[f] \cup {w}
    BY <1>t, <1>6
  <2> QED
    BY <1>t, <1>2, <1>3, <1>6, <2>1 DEF Busy
<1> QED
  BY <1>4, <1>5, <1>6

\* The end of a body: nobody else runs it.
LEMMA EndBusy ==
    ASSUME TypeOK, HandsInv, Busy, NEW e \in Executor, NEW w \in Workflow, EndBody(e, w)
    PROVE  Busy'
<1>t. row \in [Workflow -> RowType] /\ running \in [Executor -> SUBSET Workflow]
  BY DEF TypeOK
<1>1. w \in running[e] /\ running' = [running EXCEPT ![e] = @ \ {w}]
  BY DEF EndBody
<1>2. running'[e] = running[e] \ {w} /\ \A f \in Executor \ {e} : running'[f] = running[f]
  BY <1>t, <1>1
<1>3. \A f \in Executor : w \notin running'[f]
  BY <1>1, <1>2 DEF HandsInv, Apart, Mine
<1>4. \A v \in Workflow \ {w} : row'[v] = row[v]
  BY <1>t DEF EndBody
<1>5. \A f \in Executor : running'[f] \subseteq running[f] /\ running[f] \subseteq Workflow
  BY <1>t, <1>2
<1> QED
  BY <1>3, <1>4, <1>5, BusyRows

\* The recovery: what is given back runs nowhere.
LEMMA RecoverBusy ==
    ASSUME TypeOK, HandsInv, Busy, NEW e \in Executor, NEW w \in Workflow, Recover(e, w)
    PROVE  Busy'
<1>t. row \in [Workflow -> RowType] /\ running \in [Executor -> SUBSET Workflow]
  BY DEF TypeOK
<1>1. w \in todo[e] /\ row' = [row EXCEPT ![w] = Cleared(w)] /\ UNCHANGED running
  BY DEF Recover, bodies
<1>2. ASSUME NEW f \in Executor, w \in running[f] PROVE FALSE
  <2>1. running[e] = {}
    BY <1>1 DEF HandsInv, EmptyWhenDown
  <2>2. row[w].status = "PENDING" /\ row[w].executor = f
    BY <1>2 DEF Busy, HandsInv, Owned, Mine
  <2>3. row[w].executor = e
    BY <1>1, <2>2 DEF HandsInv, Owned
  <2> QED
    BY <1>2, <2>1, <2>2, <2>3
<1>3. \A v \in Workflow \ {w} : row'[v] = row[v]
  BY <1>t, <1>1
<1> QED
  BY <1>t, <1>1, <1>2, <1>3, BusyRows

\* Everything else leaves rows that are PENDING alone and starts no body.
LEMMA OtherBusy ==
    ASSUME TypeOK, Busy,
           \/ \E w \in Workflow : Enqueue(w)
           \/ \E e \in Executor, w \in Workflow : Leave(e, w)
           \/ \E e \in Executor : Crash(e)
           \/ Tick
           \/ UNCHANGED <<row, running>>
    PROVE  Busy'
<1>t. row \in [Workflow -> RowType] /\ running \in [Executor -> SUBSET Workflow]
  BY DEF TypeOK
<1>1. \A e \in Executor : running'[e] \subseteq running[e]
  BY <1>t DEF Enqueue, Leave, Crash, Tick, bodies
<1>2. \A w \in Workflow : row[w].status = "PENDING" => row'[w].status = "PENDING"
  <2>1. CASE \E w \in Workflow : Enqueue(w)
    BY <1>t, <2>1 DEF Enqueue
  <2>2. CASE Tick
    <3>1. \A w \in Workflow : row'[w].status = row[w].status
      BY <1>t, <2>2 DEF Tick, RowType
    <3> QED
      BY <3>1
  <2>3. CASE UNCHANGED row
    BY <2>3
  <2> QED
    BY <2>1, <2>2, <2>3 DEF Leave, Crash
<1> QED
  BY <1>t, <1>1, <1>2, BusyRows

\* Every step keeps it.
LEMMA BusyStep == BusyInv /\ [Next]_vars => BusyInv'
<1> SUFFICES ASSUME BusyInv, [Next]_vars PROVE BusyInv'
  OBVIOUS
<1>0. TypeOK /\ Line /\ \A e \in Executor : Tidy(e)
  BY DEF BusyInv, WorkerInv
<1>1. WorkerInv' /\ PassInv'
  BY WorkerStep, PassStep DEF BusyInv
<1>2. /\ budget'.cancel = MaxCancels => budget.cancel = MaxCancels
      /\ budget'.pass = MaxPasses => budget.pass = MaxPasses
  BY <1>0, BudgetsFall
<1>3. budget'.cancel = MaxCancels => Uncancelled'
  BY <1>0, <1>2, LineStep, NoCancellation DEF BusyInv, Uncancelled
<1>4. ASSUME budget'.cancel = MaxCancels, budget'.pass = MaxPasses PROVE Busy'
  <2>1. TypeOK /\ HandsInv /\ Uncancelled /\ Busy
    BY <1>0, <1>2, <1>4 DEF BusyInv, PassInv
  <2>2. ASSUME NEW w \in Workflow PROVE ~Cancel(w)
    <3>1. budget \in Budget
      BY <2>1 DEF TypeOK
    <3> QED
      BY <1>2, <1>4, <3>1 DEF Cancel, Budget
  <2>3. ASSUME NEW e \in Executor, RunnerStep(e) PROVE Busy'
    <3>1. CASE CountLocal(e) \/ CountRecent(e) \/ CountPending(e) \/ Select(e) \/ Claim(e)
      BY <2>1, <3>1, OtherBusy DEF CountLocal, CountRecent, CountPending, Select, Claim, bodies
    <3> QED
      BY <2>1, <2>3, <3>1, PollBusy, DispatchBusy DEF RunnerStep
  <2>4. ASSUME NEW e \in Executor, RecoveryStep(e) PROVE Busy'
    <3>1. CASE Launch(e) \/ Launched(e)
      BY <2>1, <3>1, OtherBusy DEF Launch, Launched, bodies
    <3> QED
      BY <2>1, <2>4, <3>1, RecoverBusy DEF RecoveryStep
  <2>5. ASSUME NEW e \in Executor, NEW w \in Workflow, BodyStep(e, w) PROVE Busy'
    BY <2>1, <2>5, EndBusy, OtherBusy DEF BodyStep
  <2>6. CASE Environment
    <3>1. ASSUME NEW e \in Executor, NEW w \in Workflow, DispatchFails(e, w) PROVE Busy'
      BY <2>1, <3>1, OtherBusy DEF DispatchFails, bodies
    <3>2. ASSUME NEW e \in Executor, NEW f \in Executor, RecoveryRequest(e, f) PROVE Busy'
      BY <2>1, <3>2, OtherBusy DEF RecoveryRequest, bodies
    <3>3. CASE \E w \in Workflow : Enqueue(w)
      BY <2>1, <3>3, OtherBusy
    <3>4. CASE \E e \in Executor : Crash(e)
      BY <2>1, <3>4, OtherBusy
    <3> QED
      BY <2>2, <2>6, <3>1, <3>2, <3>3, <3>4 DEF Environment
  <2>7. CASE Tick
    BY <2>1, <2>7, OtherBusy
  <2>8. CASE UNCHANGED vars
    BY <2>1, <2>8, OtherBusy DEF vars
  <2> QED
    BY <2>3, <2>4, <2>5, <2>6, <2>7, <2>8 DEF Next
<1> QED
  BY <1>1, <1>3, <1>4 DEF BusyInv

\* It holds at the start: nothing was submitted and nothing runs.
LEMMA BusyInit == Init => BusyInv
<1> SUFFICES ASSUME Init PROVE BusyInv
  OBVIOUS
<1>1. WorkerInv /\ PassInv
  BY WorkerInit, HandsInit, OneStatementInit, InitType DEF PassInv
<1>2. \A w \in Workflow : row[w].status = "ABSENT"
  BY DEF Init, NoRow
<1>3. Uncancelled
  BY <1>2 DEF Uncancelled, NullFree, Submitted, InStatus
<1>4. Busy
  BY DEF Busy, Init
<1> QED
  BY <1>1, <1>3, <1>4 DEF BusyInv

\* The running workflows of the queue are among the PENDING rows of the queue.
LEMMA BodiesArePending ==
    ASSUME BusyInv, budget.cancel = MaxCancels, budget.pass = MaxPasses
    PROVE  /\ Cardinality(Bodies) \in Nat /\ PendingCount \in Nat
           /\ Cardinality(Bodies) <= PendingCount
<1> DEFINE P == {w \in InStatus("PENDING") : OnQueue(w)}
           f == [b \in Bodies |-> b[2]]
<1>0. TypeOK /\ HandsInv /\ Uncancelled /\ Busy
  BY DEF BusyInv, WorkerInv, PassInv
<1>1. \A b \in Bodies : /\ b[1] \in Executor /\ b[2] \in Workflow /\ b[2] \in running[b[1]]
                        /\ b = <<b[1], b[2]>>
  BY DEF Bodies
<1>2. \A b \in Bodies : b[2] \in P
  BY <1>0, <1>1 DEF Busy, Uncancelled, NullFree, Submitted, InStatus
<1>3. \A b, c \in Bodies : b[2] = c[2] => b = c
  <2> SUFFICES ASSUME NEW b \in Bodies, NEW c \in Bodies, b[2] = c[2] PROVE b = c
    OBVIOUS
  <2>1. b[2] \in Mine(b[1]) /\ c[2] \in Mine(c[1])
    BY <1>1 DEF Mine
  <2>2. b[1] = c[1]
    BY <1>0, <1>1, <2>1 DEF HandsInv, Apart
  <2> QED
    BY <1>1, <2>2
<1>4. P \in SUBSET Workflow /\ PendingCount = Cardinality(P)
  BY DEF PendingCount, InStatus
<1> HIDE DEF P
<1>5. f \in Injection(Bodies, P)
  BY <1>2, <1>3 DEF Injection, IsInjective
<1>6. IsFiniteSet(P) /\ Cardinality(P) \in Nat
  BY <1>4, Countable
<1> HIDE DEF f
<1>7. IsFiniteSet(Bodies) /\ Cardinality(Bodies) <= Cardinality(P)
  BY <1>5, <1>6, FS_Injection
<1>8. Cardinality(Bodies) \in Nat
  BY <1>7, FS_CardinalityType
<1> QED
  BY <1>4, <1>6, <1>7, <1>8

\* On SQLite the bodies that really run keep the global limit of the queue,
\* counted over any number of processes, whatever crashes and fails, as long as
\* nothing is cancelled and processes recover only their own workflows.
THEOREM BodiesOnSQLite == Atomic => (Spec => []BodiesWithinGlobal)
<1> SUFFICES ASSUME Atomic PROVE Spec => []BodiesWithinGlobal
  OBVIOUS
<1>1. LimitInv /\ [Next]_vars => LimitInv'
  BY LimitStep
<1>2. BusyInv /\ LimitInv => BodiesWithinGlobal
  <2> SUFFICES ASSUME BusyInv, LimitInv, GlobalLimit # None,
                      budget.cancel = MaxCancels, budget.pass = MaxPasses
               PROVE  Cardinality(Bodies) <= GlobalLimit
    BY DEF BodiesWithinGlobal
  <2>1. PendingCount <= GlobalLimit /\ GlobalLimit \in Nat
    BY DEF LimitInv, GlobalLimitHolds
  <2> QED
    BY <2>1, BodiesArePending
<1> QED
  BY LimitInit, BusyInit, BusyStep, <1>1, <1>2, PTL DEF Spec

------------------------------------------------------------------------------
(* The rate limit, on SQLite.                                              *)

\* As long as nothing crashes, is cancelled or recovered for another process.
Steady == budget.crash = MaxCrashes /\ budget.cancel = MaxCancels /\ budget.pass = MaxPasses

\* No process has anything to recover; what waits has no started_at.
AllUp == \A e \in Executor : up[e] = "up" /\ todo[e] = {}
Fresh == \A w \in Workflow : row[w].status \in {"ABSENT", "DELAYED", "ENQUEUED"} => row[w].age = Period

\* The workflows that were started a ticks ago, and those of the period.
Waits(w) == row[w].status \in {"ENQUEUED", "DELAYED"}
StartedAt(a) == {w \in Workflow : OnQueue(w) /\ row[w].age = a /\ ~Waits(w)}
Recents == {w \in Workflow : OnQueue(w) /\ row[w].age < Period /\ ~Waits(w)}

\* No start of the period has been forgotten, and the rate limiter has kept
\* what it sees within the limit.
Remembered == \A a \in Young : window[a] <= Cardinality(StartedAt(a))
RateHolds == StartLimit # None => Cardinality(Recents) <= StartLimit

\* What is proved by induction for the rate limit.
RateInv == BusyInv /\ (Steady => AllUp /\ Fresh /\ Remembered /\ RateHolds)

\* The sets these count.
LEMMA StartSets ==
    /\ RecentStarts = Cardinality(Recents)
    /\ Recents \in SUBSET Workflow
    /\ \A a \in Young : StartedAt(a) \in SUBSET Workflow
  BY DEF RecentStarts, Recents, StartedAt, Waits

\* A step that starts nothing, resets no started_at and lets no time pass.
Ageless(w) ==
    /\ row'[w].age = row[w].age
    /\ row[w].age < Period =>
          row'[w].queue = row[w].queue /\ (row'[w].status \in {"ENQUEUED", "DELAYED"} <=> Waits(w))
    /\ row'[w].status \in {"ABSENT", "DELAYED", "ENQUEUED"} =>
          row[w].status \in {"ABSENT", "DELAYED", "ENQUEUED"}

\* Steps of that kind, for every workflow, leave what the limiter counts alone.
LEMMA AgelessStep ==
    ASSUME TypeOK, Fresh, Remembered, RateHolds, UNCHANGED window, \A w \in Workflow : Ageless(w)
    PROVE  Fresh' /\ Remembered' /\ RateHolds'
<1>1. Fresh'
  BY DEF Fresh, Ageless
<1>2. Recents' = Recents
  BY DEF Recents, OnQueue, Waits, Ageless
<1>3. \A a \in Young : StartedAt(a)' = StartedAt(a)
  <2> TAKE a \in Young
  <2>1. a < Period
    BY DEF Young
  <2> QED
    BY <2>1 DEF StartedAt, OnQueue, Waits, Ageless
<1>4. Remembered'
  BY <1>3 DEF Remembered
<1> QED
  BY <1>1, <1>2, <1>4 DEF RateHolds

\* Two sets of workflows that share nothing.
LEMMA DisjointUnion ==
    ASSUME NEW S \in SUBSET Workflow, NEW T \in SUBSET Workflow, T \cap S = {}
    PROVE  Cardinality(S \cup T) = Cardinality(S) + Cardinality(T)
<1>1. IsFiniteSet(S) /\ IsFiniteSet(T) /\ Cardinality(S) \in Nat /\ Cardinality(T) \in Nat
  BY Countable
<1>2. Cardinality(S \cup T) = Cardinality(S) + Cardinality(T) - Cardinality(S \cap T)
  BY <1>1, FS_Union
<1>3. S \cap T = {}
  OBVIOUS
<1>4. Cardinality(S \cap T) = 0
  BY <1>3, FS_EmptySet
<1> QED
  BY <1>1, <1>2, <1>4

\* A poll: the new starts are recorded with the claims, and the rate limiter
\* leaves room for them.
LEMMA DequeueRate ==
    ASSUME TypeOK, Line, NullFree, Fresh, Remembered, RateHolds, NEW e \in Executor, Dequeue(e)
    PROVE  Fresh' /\ Remembered' /\ RateHolds'
<1> DEFINE room == Room(runner[e].local)
           recent == RecentStarts
           ws == IF StartLimit # None /\ recent >= StartLimit THEN {} ELSE First(Allowed(room, recent))
<1>t. row \in [Workflow -> RowType] /\ window \in [Young -> Nat] /\ room \in Nat
  BY RoomType DEF TypeOK, RunnerType
<1>1. /\ \A w \in Workflow : row'[w] = IF w \in ws THEN Claimed(w, e, 0) ELSE row[w]
      /\ window' = [window EXCEPT ![0] = @ + Cardinality(ws)]
  BY DEF Dequeue
<1>2. ws \in SUBSET Workflow /\ \A w \in ws : row[w].status = "ENQUEUED"
  BY DEF First, InStatus
<1>3. recent = Cardinality(Recents) /\ recent \in Nat /\ Recents \in SUBSET Workflow
  BY StartSets, Countable
<1>4. StartLimit # None => recent + Cardinality(ws) <= StartLimit
  <2>1. CASE StartLimit # None /\ recent >= StartLimit
    <3>1. ws = {}
      BY <2>1
    <3>2. Cardinality(ws) = 0
      BY <3>1, FS_EmptySet
    <3> HIDE DEF ws, recent
    <3> QED
      BY <1>3, <2>1, <3>2 DEF RateHolds
  <2>2. CASE StartLimit # None /\ ~(recent >= StartLimit)
    <3> DEFINE allowed == Allowed(room, recent)
    <3>1. ws = First(allowed)
      BY <2>2
    <3> HIDE DEF room, recent, ws
    <3>2. allowed \in Nat /\ allowed <= StartLimit - recent
      BY <1>t, <1>3, <2>2 DEF Allowed, MinOf
    <3> HIDE DEF allowed
    <3>3. Cardinality(First(allowed)) <= allowed
      BY <3>2, FirstSize
    <3>4. Cardinality(ws) \in Nat
      BY <1>2, Countable
    <3>5. StartLimit \in Nat
      BY <2>2
    <3> QED
      BY <1>3, <3>1, <3>2, <3>3, <3>4, <3>5
  <2> QED
    BY <2>1, <2>2
<1> HIDE DEF ws, recent, room
<1>5. \A w \in ws : /\ row'[w].status = "PENDING" /\ row'[w].age = 0
                    /\ row'[w].queue = row[w].queue
  BY <1>t, <1>1, <1>2 DEF Claimed, RowType
<1>6. \A w \in Workflow \ ws : row'[w] = row[w]
  BY <1>1
<1>7. Fresh'
  BY <1>5, <1>6 DEF Fresh
<1>8. Recents' \subseteq Recents \cup ws
  BY <1>2, <1>6 DEF Recents, OnQueue, Waits
<1>9. RateHolds'
  <2>1. Recents \cup ws \in SUBSET Workflow
    BY <1>2, <1>3
  <2>2. Cardinality(Recents') \in Nat /\ Cardinality(Recents \cup ws) \in Nat
        /\ Cardinality(Recents') <= Cardinality(Recents \cup ws)
    BY <1>8, <2>1, FewerOf
  <2>3. Cardinality(Recents \cup ws) <= Cardinality(Recents) + Cardinality(ws)
    BY <1>2, <1>3, UnionOf
  <2>4. Cardinality(ws) \in Nat /\ (StartLimit # None => StartLimit \in Nat)
    BY <1>2, Countable
  <2>5. StartLimit # None => Cardinality(Recents') <= StartLimit
    BY <1>3, <1>4, <2>2, <2>3, <2>4
  <2> QED
    BY <2>5 DEF RateHolds
<1>10. Remembered'
  <2> SUFFICES ASSUME NEW a \in Young PROVE window'[a] <= Cardinality(StartedAt(a)')
    BY DEF Remembered
  <2>1. a \in Nat /\ 0 \in Young
    BY DEF Young
  <2>2. CASE a # 0
    <3>1. StartedAt(a)' = StartedAt(a)
      <4>1. \A w \in ws : w \notin StartedAt(a) /\ w \notin StartedAt(a)'
        BY <1>2, <1>5, <2>1, <2>2 DEF StartedAt, Waits
      <4> QED
        BY <1>6, <4>1 DEF StartedAt, OnQueue, Waits
    <3>2. window'[a] = window[a]
      BY <1>t, <1>1, <2>2
    <3> QED
      BY <3>1, <3>2 DEF Remembered
  <2>3. CASE a = 0
    <3> DEFINE S == StartedAt(0)
    <3>1. window'[0] = window[0] + Cardinality(ws)
      BY <1>t, <1>1, <2>1
    <3>2. ws \cap S = {}
      BY <1>2 DEF StartedAt, Waits
    <3>3. S \cup ws = StartedAt(0)'
      <4>1. \A w \in ws : w \in StartedAt(0)'
        BY <1>2, <1>5 DEF StartedAt, OnQueue, Waits, NullFree, Submitted, InStatus
      <4>2. \A w \in Workflow \ ws : w \in S <=> w \in StartedAt(0)'
        BY <1>6 DEF StartedAt, OnQueue, Waits
      <4>3. S \subseteq Workflow /\ StartedAt(0)' \subseteq Workflow
        BY DEF StartedAt
      <4> HIDE DEF S
      <4> QED
        BY <1>2, <3>2, <4>1, <4>2, <4>3
    <3>4. Cardinality(S \cup ws) = Cardinality(S) + Cardinality(ws)
      BY <1>2, <2>1, <3>2, StartSets, DisjointUnion
    <3>5. window[0] <= Cardinality(S) /\ window[0] \in Nat
      BY <1>t, <2>1 DEF Remembered
    <3>6. Cardinality(S) \in Nat /\ Cardinality(ws) \in Nat
      BY <1>2, <2>1, StartSets, Countable
    <3>7. Cardinality(StartedAt(a)') = Cardinality(S \cup ws)
      BY <2>3, <3>3
    <3> HIDE DEF S
    <3> QED
      BY <2>3, <3>1, <3>4, <3>5, <3>6, <3>7
  <2> QED
    BY <2>2, <2>3
<1> QED
  BY <1>7, <1>9, <1>10

\* Time: every start becomes one tick older, and the oldest leave the period.
LEMMA TickRate ==
    ASSUME TypeOK, Fresh, Remembered, RateHolds, Tick
    PROVE  Fresh' /\ Remembered' /\ RateHolds'
<1>t. row \in [Workflow -> RowType] /\ window \in [Young -> Nat]
  BY DEF TypeOK
<1>1. ASSUME NEW w \in Workflow
      PROVE  /\ row'[w].status = row[w].status /\ row'[w].queue = row[w].queue
             /\ row'[w].age = Older(row[w].age) /\ row[w].age \in Age
  <2> DEFINE d == Positive(row[w].delay - 1)
             a == Older(row[w].age)
  <2>1. row'[w] = [row[w] EXCEPT !.delay = d, !.age = a]
    BY DEF Tick
  <2> HIDE DEF d
  <2>2. row'[w].status = row[w].status /\ row'[w].queue = row[w].queue /\ row'[w].age = a
    <3> HIDE DEF a
    <3> QED
      BY <1>t, <2>1 DEF RowType
  <2> QED
    BY <1>t, <2>2 DEF RowType
<1>2. Fresh'
  <2> SUFFICES ASSUME NEW w \in Workflow, row'[w].status \in {"ABSENT", "DELAYED", "ENQUEUED"}
               PROVE  row'[w].age = Period
    BY DEF Fresh
  <2>1. row[w].age = Period
    BY <1>1 DEF Fresh
  <2> QED
    BY <1>1, <2>1 DEF Older, MinOf
<1>3. Recents' \subseteq Recents
  <2> SUFFICES ASSUME NEW w \in Recents' PROVE w \in Recents
    OBVIOUS
  <2>1. w \in Workflow /\ row'[w].age < Period
    BY DEF Recents
  <2>2. row[w].age < Period
    BY <1>1, <2>1 DEF Older, MinOf, Age
  <2> QED
    BY <1>1, <2>1, <2>2 DEF Recents, OnQueue, Waits
<1>4. RateHolds'
  <2>1. /\ Cardinality(Recents') \in Nat /\ Cardinality(Recents) \in Nat
        /\ Cardinality(Recents') <= Cardinality(Recents)
    BY <1>3, StartSets, FewerOf
  <2>2. StartLimit # None => StartLimit \in Nat
    OBVIOUS
  <2> QED
    BY <2>1, <2>2 DEF RateHolds
<1>5. Remembered'
  <2> SUFFICES ASSUME NEW a \in Young PROVE window'[a] <= Cardinality(StartedAt(a)')
    BY DEF Remembered
  <2>1. window'[a] = IF a = 0 THEN 0 ELSE window[a - 1]
    BY DEF Tick
  <2>2. CASE a = 0
    <3>1. StartedAt(a)' \in SUBSET Workflow
      BY DEF StartedAt
    <3>2. Cardinality(StartedAt(a)') \in Nat
      BY <3>1, Countable
    <3> QED
      BY <2>1, <2>2, <3>2
  <2>3. CASE a # 0
    <3>1. PICK b \in Young : b = a - 1 /\ a = b + 1 /\ a < Period
      BY <2>3 DEF Young
    <3>2. \A w \in Workflow : row'[w].age = a <=> row[w].age = b
      <4> TAKE w \in Workflow
      <4>1. b \in Nat /\ a \in Nat /\ Period \in Nat
        BY DEF Young
      <4>2. row[w].age \in Nat
        BY <1>1 DEF Age
      <4>3. row'[w].age = IF row[w].age + 1 <= Period THEN row[w].age + 1 ELSE Period
        BY <1>1 DEF Older, MinOf
      <4>4. a = b + 1 /\ a < Period
        BY <3>1
      <4> HIDE QueueAssumption
      <4> QED
        BY <4>1, <4>2, <4>3, <4>4
    <3>3. StartedAt(a)' = StartedAt(b)
      BY <1>1, <3>2 DEF StartedAt, OnQueue, Waits
    <3> QED
      BY <2>1, <2>3, <3>1, <3>3 DEF Remembered
  <2> QED
    BY <2>2, <2>3
<1> QED
  BY <1>2, <1>4, <1>5

\* The steps that are neither a poll nor a tick.
LEMMA OtherRate ==
    ASSUME TypeOK, Fresh, Busy, NEW w \in Workflow,
           \/ \E v \in Workflow : Enqueue(v)
           \/ \E e \in Executor : Promote(e)
           \/ \E e \in Executor, v \in Workflow : Dispatch(e, v) \/ EndBody(e, v)
           \/ UNCHANGED row
    PROVE  Ageless(w)
<1>t. row \in [Workflow -> RowType] /\ \A e \in Executor : running[e] \subseteq Workflow
  BY DEF TypeOK
<1>0. ASSUME row'[w] = row[w] PROVE Ageless(w)
  BY <1>0 DEF Ageless, Waits
<1>1. ASSUME NEW v \in Workflow, Enqueue(v) PROVE Ageless(w)
  <2> DEFINE new == [status |-> IF Delay[v] > 0 THEN "DELAYED" ELSE "ENQUEUED", queue |-> "this",
                     executor |-> None, created |-> Cardinality(Workflow \ InStatus("ABSENT")),
                     delay |-> Delay[v], age |-> Period]
  <2>1. row' = [row EXCEPT ![v] = new] /\ new.age = Period /\ row[v].status = "ABSENT"
    BY <1>1 DEF Enqueue
  <2> HIDE DEF new
  <2>2. CASE w = v
    <3>1. row'[w].age = Period /\ row[w].age = Period
      BY <1>t, <2>1, <2>2 DEF Fresh
    <3> QED
      BY <2>1, <2>2, <3>1 DEF Ageless
  <2> QED
    BY <1>0, <1>t, <2>1, <2>2
<1>2. ASSUME NEW e \in Executor, Promote(e) PROVE Ageless(w)
  <2>1. \/ row'[w] = row[w]
        \/ row[w].status = "DELAYED" /\ row'[w] = [row[w] EXCEPT !.status = "ENQUEUED"]
    BY <1>2 DEF Promote
  <2>2. CASE row[w].status = "DELAYED" /\ row'[w] = [row[w] EXCEPT !.status = "ENQUEUED"]
    BY <1>t, <2>2 DEF RowType, Ageless, Waits
  <2> QED
    BY <1>0, <2>1, <2>2
<1>3. ASSUME NEW e \in Executor, NEW v \in Workflow, Dispatch(e, v) PROVE Ageless(w)
  <2>1. row' = [row EXCEPT ![v] = [row[v] EXCEPT !.executor = e]]
    BY <1>3 DEF Dispatch
  <2>2. row'[w].age = row[w].age /\ row'[w].queue = row[w].queue /\ row'[w].status = row[w].status
    BY <1>t, <2>1 DEF RowType
  <2> QED
    BY <2>2 DEF Ageless, Waits
<1>4. ASSUME NEW e \in Executor, NEW v \in Workflow, EndBody(e, v) PROVE Ageless(w)
  <2>1. /\ row' = row \/ row' = [row EXCEPT ![v] = [row[v] EXCEPT !.status = "SUCCESS"]]
        /\ row[v].status = "PENDING"
    BY <1>4 DEF EndBody, Busy
  <2>2. CASE w = v /\ row' = [row EXCEPT ![v] = [row[v] EXCEPT !.status = "SUCCESS"]]
    <3>1. row'[w].age = row[w].age /\ row'[w].queue = row[w].queue /\ row'[w].status = "SUCCESS"
      BY <1>t, <2>2 DEF RowType
    <3> QED
      BY <2>1, <2>2, <3>1 DEF Ageless, Waits
  <2> QED
    BY <1>0, <1>t, <2>1, <2>2
<1> QED
  BY <1>0, <1>1, <1>2, <1>3, <1>4

\* Every step on SQLite keeps the invariant.
LEMMA RateStep == Atomic /\ RateInv /\ [Next]_vars => RateInv'
<1> SUFFICES ASSUME Atomic, RateInv, [Next]_vars PROVE RateInv'
  OBVIOUS
<1>0. TypeOK /\ Line
  BY DEF RateInv, BusyInv, WorkerInv
<1>1. BusyInv'
  BY BusyStep DEF RateInv
<1>2. Steady' => /\ budget'.crash = MaxCrashes /\ budget'.cancel = MaxCancels
                 /\ budget'.pass = MaxPasses
  BY DEF Steady
<1>3. SUFFICES ASSUME Steady' PROVE AllUp' /\ Fresh' /\ Remembered' /\ RateHolds'
  BY <1>1 DEF RateInv
<1>4. /\ budget.crash = MaxCrashes /\ budget.cancel = MaxCancels /\ budget.pass = MaxPasses
      /\ budget'.crash = budget.crash /\ budget'.cancel = budget.cancel /\ budget'.pass = budget.pass
  BY <1>0, <1>2, <1>3, BudgetsFall
<1>5. AllUp /\ Fresh /\ Remembered /\ RateHolds /\ NullFree /\ Busy /\ OneStatement
  BY <1>4 DEF RateInv, Steady, BusyInv, Uncancelled, PassInv
<1>b. budget \in Budget
  BY <1>0 DEF TypeOK
<1>6. /\ \A w \in Workflow : ~Cancel(w)
      /\ \A e \in Executor : ~Crash(e)
      /\ \A e, f \in Executor : ~RecoveryRequest(e, f)
  <2>1. \A w \in Workflow : ~Cancel(w)
    BY <1>4, <1>b DEF Cancel, Budget
  <2>2. \A e \in Executor : ~Crash(e)
    BY <1>4, <1>b DEF Crash, Budget
  <2>3. \A e, f \in Executor : ~RecoveryRequest(e, f)
    BY <1>4, <1>b DEF RecoveryRequest, Budget
  <2> QED
    BY <2>1, <2>2, <2>3
<1>7. ASSUME NEW e \in Executor PROVE ~RecoveryStep(e) /\ ~Commit(e)
  BY <1>5 DEF AllUp, RecoveryStep, Launch, Launched, Recover, Commit, OneStatement
<1>8. AllUp'
  <2>1. UNCHANGED <<up, todo>>
    BY <1>6, <1>7
       DEF Next, RunnerStep, BodyStep, Environment, vars, Promote, CountLocal, Dequeue, CountRecent,
           CountPending, Select, Claim, Dispatch, DispatchFails, EndBody, Leave, Enqueue, Tick
  <2> QED
    BY <1>5, <2>1 DEF AllUp
<1>9. CASE \E e \in Executor : Dequeue(e)
  BY <1>0, <1>5, <1>8, <1>9, DequeueRate
<1>10. CASE Tick
  BY <1>0, <1>5, <1>8, <1>10, TickRate
<1>11. CASE \/ \E v \in Workflow : Enqueue(v)
            \/ \E e \in Executor : Promote(e)
            \/ \E e \in Executor, v \in Workflow : Dispatch(e, v) \/ EndBody(e, v)
            \/ UNCHANGED <<row, window>>
  <2>1. UNCHANGED window
    BY <1>11 DEF Enqueue, Promote, Dispatch, EndBody
  <2>2. \A w \in Workflow : Ageless(w)
    BY <1>0, <1>5, <1>11, OtherRate
  <2> QED
    BY <1>0, <1>5, <1>8, <2>1, <2>2, AgelessStep
<1> QED
  BY <1>6, <1>7, <1>9, <1>10, <1>11
     DEF Next, RunnerStep, BodyStep, Environment, vars, CountLocal, CountRecent,
         CountPending, Select, Claim, DispatchFails, Leave

\* It holds at the start: nothing was started.
LEMMA RateInit == Init => RateInv
<1> SUFFICES ASSUME Init PROVE RateInv
  OBVIOUS
<1>1. BusyInv
  BY BusyInit
<1>2. AllUp /\ Fresh
  BY DEF AllUp, Fresh, Init, NoRow
<1>3. Recents = {}
  BY DEF Recents, Init, NoRow, OnQueue
<1>4. RateHolds
  BY <1>3, FS_EmptySet DEF RateHolds
<1>5. ASSUME NEW a \in Young PROVE window[a] <= Cardinality(StartedAt(a))
  <2>1. Cardinality(StartedAt(a)) \in Nat
    BY StartSets, Countable
  <2> QED
    BY <2>1 DEF Init
<1> QED
  BY <1>1, <1>2, <1>4, <1>5 DEF RateInv, Remembered

\* The starts of an age can be told apart by the workflows started then.
LEMMA OneStartEach ==
    ASSUME TypeOK, Remembered, NEW a \in Young
    PROVE  \E g \in [1..window[a] -> StartedAt(a)] :
              \A m, n \in 1..window[a] : g[m] = g[n] => m = n
<1>1. IsFiniteSet(StartedAt(a))
  BY StartSets, Countable
<1>2. PICK k \in Nat : ExistsBijection(1..k, StartedAt(a))
  BY <1>1, FS_NatBijection
<1>3. Cardinality(StartedAt(a)) = k
  BY <1>2, FS_CountingElements
<1>4. window[a] \in Nat /\ window[a] <= k
  BY <1>3 DEF TypeOK, Remembered
<1>5. PICK f : f \in Bijection(1..k, StartedAt(a))
  BY <1>2 DEF ExistsBijection
<1>6. f \in [1..k -> StartedAt(a)] /\ \A m, n \in 1..k : f[m] = f[n] => m = n
  BY <1>5 DEF Bijection, Injection, IsInjective
<1>7. \A n \in 1..window[a] : n \in 1..k
  BY <1>4
<1> DEFINE g == [n \in 1..window[a] |-> f[n]]
<1>8. g \in [1..window[a] -> StartedAt(a)]
  BY <1>6, <1>7
<1>9. \A m, n \in 1..window[a] : g[m] = g[n] => m = n
  BY <1>6, <1>7
<1> QED
  BY <1>8, <1>9

\* No more starts are remembered than the rate limiter sees.
LEMMA StartsAreSeen ==
    ASSUME TypeOK, Remembered
    PROVE  /\ StartsIn(Young) <= Cardinality(Recents)
           /\ StartsIn(Young) \in Nat /\ Cardinality(Recents) \in Nat
<1> DEFINE Starts == UNION {{<<a, n>> : n \in 1..window[a]} : a \in Young}
           one(a, g) == /\ g \in [1..window[a] -> StartedAt(a)]
                        /\ \A m, n \in 1..window[a] : g[m] = g[n] => m = n
           G == [a \in Young |-> CHOOSE g : one(a, g)]
           h == [s \in Starts |-> G[s[1]][s[2]]]
<1>1. \A a \in Young : one(a, G[a])
  <2> TAKE a \in Young
  <2>1. \E g : one(a, g)
    BY OneStartEach
  <2> HIDE DEF one
  <2>2. one(a, CHOOSE g : one(a, g))
    BY <2>1
  <2> QED
    BY <2>2
<1> HIDE DEF G
<1>2. \A s \in Starts : s[1] \in Young /\ s[2] \in 1..window[s[1]] /\ s = <<s[1], s[2]>>
  OBVIOUS
<1> HIDE DEF Starts
<1>3. \A s \in Starts : h[s] = G[s[1]][s[2]] /\ h[s] \in StartedAt(s[1])
  BY <1>1, <1>2
<1>4. \A a \in Young : a < Period
  BY DEF Young
<1>5. \A s \in Starts : h[s] \in Recents
  BY <1>2, <1>3, <1>4 DEF StartedAt, Recents
<1>6. ASSUME NEW s \in Starts, NEW t \in Starts, h[s] = h[t] PROVE s = t
  <2>1. s[1] = row[h[s]].age /\ t[1] = row[h[t]].age
    BY <1>3 DEF StartedAt
  <2>2. s[1] = t[1]
    BY <1>6, <2>1
  <2>3. s[2] = t[2]
    BY <1>1, <1>2, <1>3, <1>6, <2>2
  <2> QED
    BY <1>2, <2>2, <2>3
<1>7. h \in Injection(Starts, Recents)
  <2>1. h \in [Starts -> Recents]
    BY <1>5
  <2> HIDE DEF h
  <2> QED
    BY <1>6, <2>1 DEF Injection, IsInjective
<1>8. IsFiniteSet(Recents) /\ Cardinality(Recents) \in Nat
  BY StartSets, Countable
<1> HIDE DEF h
<1>9. IsFiniteSet(Starts) /\ Cardinality(Starts) <= Cardinality(Recents)
  BY <1>7, <1>8, FS_Injection
<1>10. Cardinality(Starts) \in Nat
  BY <1>9, FS_CardinalityType
<1>11. StartsIn(Young) = Cardinality(Starts)
  BY DEF StartsIn, Starts
<1> QED
  BY <1>8, <1>9, <1>10, <1>11

\* On SQLite no queue starts more workflows in a period than its rate limit
\* allows, whatever the limits, the priorities and the delays are and however
\* many processes poll it, as long as nothing crashes, is cancelled or is
\* recovered for another process.
THEOREM RateOnSQLite == Atomic => (Spec => []StartsWithinRate)
<1> SUFFICES ASSUME Atomic PROVE Spec => []StartsWithinRate
  OBVIOUS
<1>1. RateInv /\ [Next]_vars => RateInv'
  BY RateStep
<1>2. RateInv => StartsWithinRate
  <2> SUFFICES ASSUME RateInv, StartLimit # None, Steady PROVE StartsIn(Young) <= StartLimit
    BY DEF StartsWithinRate, Steady
  <2>1. TypeOK /\ Remembered /\ Cardinality(Recents) <= StartLimit /\ StartLimit \in Nat
    BY DEF RateInv, BusyInv, WorkerInv, RateHolds
  <2> QED
    BY <2>1, StartsAreSeen
<1> QED
  BY RateInit, <1>1, <1>2, PTL DEF Spec

============================================================================
