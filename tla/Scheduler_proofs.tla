--------------------------- MODULE Scheduler_proofs ---------------------------
(***************************************************************************)
(* Theorems of Scheduler: its types; that a process has one firing task,   *)
(* the one of the schedule it has installed, and none of a schedule it has *)
(* seen go; and that no tick is lost while nobody pauses, resumes or       *)
(* deletes the schedule.                                                   *)
(***************************************************************************)
EXTENDS Scheduler, TLAPS

USE SchedulerAssumption DEF SchedulerAssumption

------------------------------------------------------------------------------
(* Tasks and types.                                                        *)

RecType == [pc : {"idle", "listed", "backfill"}, seen : RowType,
            fresh : BOOLEAN, todo : SUBSET Ticks]

TaskType == [pc : {"free", "start", "wait", "fire", "stamp"}, id : Id,
             next : Time, live : BOOLEAN]

\* The types, what a process that is down has left, and that a task which has a
\* tick has one of the schedule.
TypeInv ==
    /\ TypeOK
    /\ \A p \in Process \ up :
          rec[p] = Idle /\ installed[p] = NoId /\ \A s \in TasksOf(p) : task[s] = Free
    /\ \A s \in Task : task[s].pc \in {"wait", "fire", "stamp"} => task[s].next \in Ticks

\* The task that Spawn starts.
Fresh(id) == [pc |-> "start", id |-> id, next |-> Never, live |-> TRUE]

\* The tasks of a process are those with its name.
LEMMA Owner ==
    /\ \A s \in Task : s[1] \in Process
    /\ \A p \in Process : TasksOf(p) \subseteq Task
    /\ \A p \in Process : \A s \in Task : s \in TasksOf(p) <=> s[1] = p
  BY DEF Task, TasksOf

\* Spawn turns one free task of the process into a live one.
LEMMA SpawnOne ==
    ASSUME NEW p \in Process, NEW id, Spawn(p, id)
    PROVE  \E s \in TasksOf(p) : task[s] = Free /\ task' = [task EXCEPT ![s] = Fresh(id)]
<1>1. PICK n \in Slot : /\ task[<<p, n>>] = Free
                        /\ task' = [task EXCEPT ![<<p, n>>] = Fresh(id)]
  BY DEF Spawn, Fresh
<1>2. <<p, n>> \in TasksOf(p)
  BY DEF TasksOf
<1> QED
  BY <1>1, <1>2

\* Counters only grow, and with the number of rows created the schedule_ids.
LEMMA CountersGrow ==
    ASSUME TypeOK, NEW h \in Happenings, Happens(h)
    PROVE  /\ happened' \in [Happenings -> Nat]
           /\ \A k \in Happenings : happened[k] <= happened'[k]
           /\ happened'[h] = happened[h] + 1
  BY DEF TypeOK, Happens, Happenings

\* Types that are wide enough stay so.
LEMMA TypesGrow ==
    ASSUME TypeOK, happened' \in [Happenings -> Nat], happened["create"] <= happened'["create"]
    PROVE  /\ Id \subseteq Id'
           /\ \A r \in RowType : r \in RowType'
           /\ \A r \in RecType : r \in RecType'
           /\ \A r \in TaskType : r \in TaskType'
<1>1. happened["create"] \in Nat /\ happened'["create"] \in Nat
  BY DEF TypeOK, Happenings
<1>2. Id \subseteq Id'
  BY <1>1 DEF Id
<1>3. ASSUME NEW r \in RowType PROVE r \in RowType'
  BY <1>2 DEF RowType, Time
<1>4. ASSUME NEW r \in RecType PROVE r \in RecType'
  BY <1>3 DEF RecType
<1>5. ASSUME NEW r \in TaskType PROVE r \in TaskType'
  BY <1>2 DEF TaskType, Time
<1> QED
  BY <1>2, <1>3, <1>4, <1>5

\* What has no task, no schedule and no id has its type.
LEMMA Defaults ==
    ASSUME TypeOK
    PROVE  NoId \in Id /\ NoRow \in RowType /\ Idle \in RecType /\ Free \in TaskType
<1>1. NoId \in Id
  BY DEF TypeOK, Id, NoId, Happenings
<1>2. NoRow \in RowType
  BY <1>1 DEF NoRow, RowType, Time
<1>3. Idle \in RecType
  BY <1>2 DEF Idle, RecType
<1>4. Free \in TaskType
  BY <1>1 DEF Free, TaskType, Time
<1> QED
  BY <1>1, <1>2, <1>3, <1>4

\* The types at a step, once those of its record-valued variables are known.
LEMMA Assemble ==
    ASSUME TypeOK,
           kind' \in Kinds, now' \in Nat, submitted' \subseteq Ticks, up' \subseteq Process,
           told' \subseteq up', slipped' \subseteq Ticks, since' \in Time,
           happened' \in [Happenings -> Nat], happened["create"] <= happened'["create"],
           row' \in RowType', row'.status = "ABSENT" => row' = NoRow,
           rec' \in [Process -> RecType'], installed' \in [Process -> Id'],
           task' \in [Task -> TaskType']
    PROVE  TypeOK'
  BY DEF TypeOK, RecType, TaskType, RowType, Time, Id

\* The table and its rows.
LEMMA TypedTable ==
    ASSUME TypeInv, Create \/ Delete \/ \E status \in {"ACTIVE", "PAUSED"} : SetStatus(status)
    PROVE  TypeInv'
<1>0. /\ now' = now /\ kind' = kind /\ submitted' = submitted /\ up' = up
      /\ installed' = installed /\ task' = task /\ told' = {} /\ slipped' \subseteq Ticks
      /\ since' \in {since, Never} /\ rec' = [p \in Process |-> [rec[p] EXCEPT !.fresh = FALSE]]
      /\ \E h \in {"create", "delete", "status"} : Happens(h)
  BY DEF Create, Delete, SetStatus, Changed, TypeInv, TypeOK
<1>1. happened' \in [Happenings -> Nat] /\ happened["create"] <= happened'["create"]
  BY <1>0, CountersGrow DEF TypeInv, Happenings
<1>2. row' \in RowType' /\ (row'.status = "ABSENT" => row' = NoRow)
  <2>1. CASE Create
    <3>1. PICK auto \in BOOLEAN :
             row' = [id |-> happened["create"] + 1, status |-> "ACTIVE", last |-> Never, auto |-> auto]
      BY <2>1 DEF Create
    <3>2. happened'["create"] = happened["create"] + 1
      BY <2>1, CountersGrow DEF Create, TypeInv, Happenings
    <3>3. happened["create"] + 1 \in Id'
      BY <1>1, <3>2 DEF Id, TypeInv, TypeOK, Happenings
    <3> QED
      BY <3>1, <3>3 DEF RowType, Time
  <2>2. CASE Delete
    BY <1>1, <2>2, Defaults, TypesGrow DEF Delete, TypeInv
  <2>3. ASSUME NEW status \in {"ACTIVE", "PAUSED"}, SetStatus(status)
        PROVE  row' \in RowType' /\ (row'.status = "ABSENT" => row' = NoRow)
    <3>1. row \in RowType /\ row' = WithStatus(row, status)
      BY <2>3 DEF SetStatus, TypeInv, TypeOK
    <3>2. row' \in RowType /\ row'.status = status
      BY <3>1 DEF WithStatus, RowType, Time
    <3> QED
      BY <1>1, <3>2, TypesGrow DEF TypeInv
  <2> QED
    BY <2>1, <2>2, <2>3
<1>3. rec' \in [Process -> RecType]
  <2>1. \A p \in Process : rec[p] \in RecType
    BY DEF TypeInv, TypeOK, RecType
  <2>2. \A r \in RecType : [r EXCEPT !.fresh = FALSE] \in RecType
    BY DEF RecType
  <2> QED
    BY <1>0, <2>1, <2>2
<1>4. TypeOK'
  <2>1. rec' \in [Process -> RecType'] /\ installed' \in [Process -> Id'] /\ task' \in [Task -> TaskType']
    BY <1>0, <1>1, <1>3, TypesGrow DEF TypeInv, TypeOK, TaskType
  <2> QED
    BY <1>0, <1>1, <1>2, <2>1, Assemble DEF TypeInv, TypeOK, Time
<1>5. ASSUME NEW p \in Process \ up' PROVE rec'[p] = Idle
  <2>1. rec'[p] = [Idle EXCEPT !.fresh = FALSE]
    BY <1>0, <1>5 DEF TypeInv
  <2>2. \A r \in RecType : ~r.fresh => [r EXCEPT !.fresh = FALSE] = r
    BY DEF RecType
  <2>3. Idle \in RecType /\ ~Idle.fresh
    BY Defaults DEF Idle, TypeInv
  <2> QED
    BY <2>1, <2>2, <2>3
<1> QED
  BY <1>0, <1>4, <1>5 DEF TypeInv

\* A change of one reconciler, with what it installs and cancels.
LEMMA TypedReconciler ==
    ASSUME TypeInv, NEW p \in Process, ReconcilerStep(p) \/ BackfillFails(p)
    PROVE  TypeInv'
<1>0. rec \in [Process -> RecType] /\ rec[p] \in RecType /\ task \in [Task -> TaskType] /\ row \in RowType
  BY DEF TypeInv, TypeOK, RecType, TaskType
<1>1. /\ now' = now /\ kind' = kind /\ up' = up /\ row' = row /\ since' = since
      /\ p \in up
  BY DEF ReconcilerStep, List, Reconcile, BackfillTick, BackfillFails, Install, history, TypeInv, Idle
<1>2. happened' \in [Happenings -> Nat] /\ happened["create"] <= happened'["create"]
  <2>1. happened' = happened \/ Happens("failure")
    BY DEF ReconcilerStep, List, Reconcile, BackfillTick, BackfillFails, Install
  <2> QED
    BY <2>1, CountersGrow DEF TypeInv, TypeOK, Happenings
<1>3. submitted' \subseteq Ticks /\ slipped' \subseteq Ticks /\ told' \subseteq up
  <2>1. slipped' \subseteq Ticks
    BY DEF ReconcilerStep, List, Reconcile, BackfillTick, BackfillFails, Install, history, TypeInv, TypeOK, Slips
  <2>2. told' \subseteq up
    BY <1>1 DEF ReconcilerStep, List, Reconcile, BackfillTick, BackfillFails, Install, history, TypeInv, TypeOK
  <2>3. submitted' \subseteq Ticks
    BY <1>0 DEF ReconcilerStep, List, Reconcile, BackfillTick, BackfillFails, Install, TypeInv, TypeOK, RecType
  <2> QED
    BY <2>1, <2>2, <2>3
<1>4. \E x \in RecType : rec' = [rec EXCEPT ![p] = x]
  <2>1. CASE List(p)
    <3>1. [pc |-> "listed", seen |-> row, fresh |-> TRUE, todo |-> {}] \in RecType
      BY <1>0 DEF RecType
    <3> QED
      BY <2>1, <3>1 DEF List
  <2>2. CASE Reconcile(p)
    <3>1. Missed(rec[p].seen, now) \in SUBSET Ticks
      BY DEF Missed
    <3> DEFINE m == Missed(rec[p].seen, now)
               x == [rec[p] EXCEPT !.pc = "backfill", !.todo = m]
    <3>2. rec' = [rec EXCEPT ![p] = x] \/ rec' = [rec EXCEPT ![p] = Idle]
      BY <1>0, <2>2 DEF Reconcile
    <3>3. x \in RecType
      <4> HIDE DEF m
      <4> QED
        BY <1>0, <3>1 DEF RecType, m
    <3> QED
      BY <3>2, <3>3, Defaults DEF TypeInv
  <2>3. CASE BackfillTick(p) \/ BackfillFails(p)
    <3>1. PICK todo \in SUBSET Ticks : rec' = [rec EXCEPT ![p].todo = todo]
      BY <1>0, <2>3 DEF BackfillTick, BackfillFails, RecType
    <3>2. rec' = [rec EXCEPT ![p] = [rec[p] EXCEPT !.todo = todo]]
      BY <3>1, <1>0
    <3>3. [rec[p] EXCEPT !.todo = todo] \in RecType
      BY <1>0 DEF RecType
    <3> QED
      BY <3>2, <3>3
  <2>4. CASE Install(p)
    BY <2>4, Defaults DEF Install, TypeInv
  <2> QED
    BY <2>1, <2>2, <2>3, <2>4 DEF ReconcilerStep
<1>5. rec' \in [Process -> RecType] /\ \A q \in Process \ up : rec'[q] = Idle
  BY <1>0, <1>1, <1>4 DEF TypeInv
<1>6. installed' \in [Process -> Id] /\ \A q \in Process \ up : installed'[q] = NoId
  <2>1. rec[p].seen.id \in Id
    BY <1>0 DEF RecType, RowType
  <2> QED
    BY <1>1, <2>1, Defaults
    DEF ReconcilerStep, List, Reconcile, BackfillTick, BackfillFails, Install, TypeInv, TypeOK
<1>7. task' = task \/ task' = Cancelled(p) \/ Spawn(p, rec[p].seen.id)
  BY DEF ReconcilerStep, List, Reconcile, BackfillTick, BackfillFails, Install
<1>8. /\ task' \in [Task -> TaskType]
      /\ \A q \in Process \ up : \A s \in TasksOf(q) : task'[s] = Free
      /\ \A s \in Task : task'[s].pc \in {"wait", "fire", "stamp"} => task'[s].next \in Ticks
  <2>1. CASE task' = task
    BY <1>0, <2>1 DEF TypeInv
  <2>2. CASE task' = Cancelled(p)
    <3>1. \A s \in Task : [task[s] EXCEPT !.live = FALSE] \in TaskType
      BY <1>0 DEF TaskType
    <3>2. task' \in [Task -> TaskType]
      BY <1>0, <2>2, <3>1 DEF Cancelled
    <3>3. \A q \in Process \ up : \A s \in TasksOf(q) : task'[s] = task[s]
      BY <1>1, <2>2, Owner DEF Cancelled
    <3>4. \A s \in Task : task'[s].pc = task[s].pc /\ task'[s].next = task[s].next
      BY <1>0, <2>2 DEF Cancelled, TaskType
    <3> QED
      BY <3>2, <3>3, <3>4 DEF TypeInv
  <2>3. CASE Spawn(p, rec[p].seen.id)
    <3>1. PICK s \in TasksOf(p) : task' = [task EXCEPT ![s] = Fresh(rec[p].seen.id)]
      BY <2>3, SpawnOne
    <3>2. rec[p].seen.id \in Id
      BY <1>0 DEF RecType, RowType
    <3>3. Fresh(rec[p].seen.id) \in TaskType
      BY <3>2 DEF Fresh, TaskType, Time
    <3>4. Fresh(rec[p].seen.id).pc = "start"
      BY DEF Fresh
    <3> QED
      BY <1>0, <1>1, <3>1, <3>3, <3>4, Owner DEF TypeInv
  <2> QED
    BY <1>7, <2>1, <2>2, <2>3
<1>9. TypeOK'
  <2>1. row' \in RowType' /\ rec' \in [Process -> RecType'] /\ installed' \in [Process -> Id']
        /\ task' \in [Task -> TaskType']
    BY <1>0, <1>1, <1>2, <1>5, <1>6, <1>8, TypesGrow DEF TypeInv
  <2> QED
    BY <1>1, <1>2, <1>3, <2>1, Assemble DEF TypeInv, TypeOK
<1> QED
  BY <1>1, <1>5, <1>6, <1>8, <1>9 DEF TypeInv

\* A change of one task, with what it submits and stamps.
LEMMA TypedTask ==
    ASSUME TypeInv, NEW s \in Task, TaskStep(s) \/ FireFails(s) \/ StampFails(s)
    PROVE  TypeInv'
<1>0. task \in [Task -> TaskType] /\ task[s] \in TaskType /\ row \in RowType
      /\ rec \in [Process -> RecType]
  BY DEF TypeInv, TypeOK, RecType, TaskType
<1>1. /\ now' = now /\ kind' = kind /\ up' = up /\ rec' = rec /\ told' = told
      /\ installed' = installed
  BY DEF TaskStep, Start, Wake, Quit, Fire, FireStatic, FireFails, Stamp, StampFails, history
<1>2. happened' \in [Happenings -> Nat] /\ happened["create"] <= happened'["create"]
  <2>1. happened' = happened \/ Happens("failure")
    BY DEF TaskStep, Start, Wake, Quit, Fire, FireStatic, FireFails, Stamp, StampFails
  <2> QED
    BY <2>1, CountersGrow DEF TypeInv, TypeOK, Happenings
<1>3. task[s].pc \in {"wait", "fire", "stamp"} => task[s].next \in Ticks
  BY DEF TypeInv
<1>4. submitted' \subseteq Ticks /\ slipped' \subseteq Ticks
  BY <1>3 DEF TaskStep, Start, Wake, Quit, Fire, FireStatic, FireFails, Stamp, StampFails, history,
              Slips, TypeInv, TypeOK
<1>5. row' \in RowType /\ (row'.status = "ABSENT" => row' = NoRow)
  <2>1. row' = row \/ row' = Stamped(row, task[s].next)
    BY DEF TaskStep, Start, Wake, Quit, Fire, FireStatic, FireFails, Stamp, StampFails
  <2>2. [row EXCEPT !.last = task[s].next] \in RowType
    BY <1>0 DEF TaskType, RowType
  <2>3. [row EXCEPT !.last = task[s].next].status = row.status
    BY <1>0 DEF RowType
  <2> QED
    BY <1>0, <2>1, <2>2, <2>3 DEF Stamped, TypeInv, TypeOK
<1>6. since' \in Time
  <2>1. since' = since \/ since' = row'.last
    BY DEF TaskStep, Start, Wake, Quit, Fire, FireStatic, FireFails, Stamp, StampFails, history
  <2> QED
    BY <1>5, <2>1 DEF TypeInv, TypeOK, RowType
<1>7. \E x \in TaskType : /\ task' = [task EXCEPT ![s] = x]
                          /\ x.pc \in {"wait", "fire", "stamp"} => x.next \in Ticks
                          /\ task[s] # Free
  <2>0. task[s] # Free
    BY DEF TaskStep, Start, Wake, Quit, Fire, FireStatic, FireFails, Stamp, StampFails, Free
  <2>1. CASE Start(s)
    <3>1. PICK t \in Ticks : task' = [task EXCEPT ![s].pc = "wait", ![s].next = t]
      BY <2>1 DEF Start
    <3>2. [task[s] EXCEPT !.pc = "wait", !.next = t] \in TaskType
      BY <1>0 DEF TaskType, Time
    <3>3. [task[s] EXCEPT !.pc = "wait", !.next = t].next = t
      BY <1>0 DEF TaskType
    <3>4. task' = [task EXCEPT ![s] = [task[s] EXCEPT !.pc = "wait", !.next = t]]
      BY <3>1, <1>0
    <3> QED
      BY <2>0, <3>2, <3>3, <3>4
  <2>2. CASE Quit(s)
    BY <2>0, <2>2, Defaults DEF Quit, Free, TypeInv
  <2>3. CASE Wake(s) \/ Fire(s) \/ FireStatic(s) \/ FireFails(s) \/ Stamp(s) \/ StampFails(s)
    <3>1. PICK pc \in {"start", "fire", "stamp"} : task' = [task EXCEPT ![s].pc = pc]
      BY <2>3 DEF Wake, Fire, FireStatic, FireFails, Stamp, StampFails
    <3>2. task[s].pc \in {"wait", "fire", "stamp"}
      BY <2>3 DEF Wake, Fire, FireStatic, FireFails, Stamp, StampFails
    <3>3. [task[s] EXCEPT !.pc = pc] \in TaskType /\ [task[s] EXCEPT !.pc = pc].next = task[s].next
      BY <1>0 DEF TaskType
    <3>4. task' = [task EXCEPT ![s] = [task[s] EXCEPT !.pc = pc]]
      BY <3>1, <1>0
    <3> QED
      BY <1>3, <2>0, <3>2, <3>3, <3>4
  <2> QED
    BY <2>1, <2>2, <2>3 DEF TaskStep
<1>8. /\ task' \in [Task -> TaskType]
      /\ \A q \in Process \ up : \A z \in TasksOf(q) : task'[z] = Free
      /\ \A z \in Task : task'[z].pc \in {"wait", "fire", "stamp"} => task'[z].next \in Ticks
  <2>1. PICK x \in TaskType : /\ task' = [task EXCEPT ![s] = x]
                              /\ x.pc \in {"wait", "fire", "stamp"} => x.next \in Ticks
                              /\ task[s] # Free
    BY <1>7
  <2>2. \A q \in Process \ up : \A z \in TasksOf(q) : z \in Task /\ z # s
    BY <2>1, Owner DEF TypeInv
  <2> QED
    BY <1>0, <2>1, <2>2 DEF TypeInv
<1>9. TypeOK'
  <2>1. row' \in RowType' /\ rec' \in [Process -> RecType'] /\ installed' \in [Process -> Id']
        /\ task' \in [Task -> TaskType']
    BY <1>0, <1>1, <1>2, <1>5, <1>8, TypesGrow DEF TypeInv, TypeOK
  <2> QED
    BY <1>1, <1>2, <1>4, <1>5, <1>6, <2>1, Assemble DEF TypeInv, TypeOK
<1> QED
  BY <1>1, <1>8, <1>9 DEF TypeInv

\* A process comes or goes.
LEMMA TypedProcess ==
    ASSUME TypeInv, NEW p \in Process, Launch(p) \/ Crash(p)
    PROVE  TypeInv'
<1>0. task \in [Task -> TaskType] /\ row \in RowType /\ rec \in [Process -> RecType]
  BY DEF TypeInv, TypeOK, RecType, TaskType
<1>1. /\ now' = now /\ kind' = kind /\ row' = row /\ submitted' = submitted /\ since' = since
      /\ slipped' = slipped
  BY DEF Launch, Crash, history
<1>2. happened' \in [Happenings -> Nat] /\ happened["create"] <= happened'["create"]
  <2>1. happened' = happened \/ Happens("crash")
    BY DEF Launch, Crash
  <2> QED
    BY <2>1, CountersGrow DEF TypeInv, TypeOK, Happenings
<1>3. up' \subseteq Process /\ told' \subseteq up'
  BY DEF Launch, Crash, history, TypeInv, TypeOK
<1>4. rec' \in [Process -> RecType] /\ installed' \in [Process -> Id] /\ task' \in [Task -> TaskType]
  <2>1. CASE Crash(p)
    BY <1>0, <2>1, Defaults DEF Crash, TypeInv, TypeOK
  <2>2. CASE Launch(p) /\ task' = task
    BY <1>0, <2>2 DEF Launch, TypeInv, TypeOK
  <2>3. CASE Launch(p) /\ Spawn(p, NoId)
    <3>1. Fresh(NoId) \in TaskType
      BY Defaults DEF Fresh, TaskType, Time, TypeInv
    <3>2. \E s \in TasksOf(p) : task' = [task EXCEPT ![s] = Fresh(NoId)]
      BY <2>3, SpawnOne
    <3> QED
      BY <1>0, <2>3, <3>1, <3>2, Owner DEF Launch, TypeInv, TypeOK
  <2> QED
    BY <2>1, <2>2, <2>3 DEF Launch
<1>5. TypeOK'
  <2>1. row' \in RowType' /\ rec' \in [Process -> RecType'] /\ installed' \in [Process -> Id']
        /\ task' \in [Task -> TaskType']
    BY <1>0, <1>1, <1>2, <1>4, TypesGrow DEF TypeInv
  <2> QED
    BY <1>1, <1>2, <1>3, <2>1, Assemble DEF TypeInv, TypeOK
<1>6. ASSUME NEW q \in Process \ up'
      PROVE  rec'[q] = Idle /\ installed'[q] = NoId /\ \A s \in TasksOf(q) : task'[s] = Free
  <2>1. CASE Crash(p)
    <3>1. \A s \in TasksOf(q) : s \in Task /\ (s \in TasksOf(p) <=> q = p)
      BY Owner
    <3> QED
      BY <1>0, <1>6, <2>1, <3>1 DEF Crash, TypeInv, TypeOK
  <2>2. CASE Launch(p)
    <3>1. q # p /\ q \in Process \ up
      BY <1>6, <2>2 DEF Launch
    <3>2. \A s \in TasksOf(q) : s \in Task /\ s \notin TasksOf(p)
      BY <3>1, Owner
    <3>3. \A s \in TasksOf(q) : task'[s] = task[s]
      BY <1>0, <2>2, <3>2, SpawnOne DEF Launch
    <3> QED
      BY <2>2, <3>1, <3>3 DEF Launch, TypeInv
  <2> QED
    BY <2>1, <2>2
<1>7. \A s \in Task : task'[s].pc \in {"wait", "fire", "stamp"} => task'[s].next \in Ticks
  <2>1. CASE Crash(p)
    BY <2>1 DEF Crash, Free, TypeInv
  <2>2. CASE Launch(p)
    <3>1. Fresh(NoId).pc = "start"
      BY DEF Fresh
    <3> QED
      BY <1>0, <2>2, <3>1, SpawnOne DEF Launch, TypeInv
  <2> QED
    BY <2>1, <2>2
<1> QED
  BY <1>5, <1>6, <1>7 DEF TypeInv

\* Time passes, or nothing happens.
LEMMA TypedPass ==
    ASSUME TypeInv, Pass \/ UNCHANGED vars
    PROVE  TypeInv'
<1>1. /\ kind' = kind /\ row' = row /\ submitted' = submitted /\ up' = up /\ rec' = rec
      /\ installed' = installed /\ task' = task /\ told' = told /\ since' = since
      /\ happened' = happened
  BY DEF Pass, vars
<1>2. now' \in Nat /\ slipped' \subseteq Ticks
  <2>1. now' \in Nat
    BY DEF Pass, vars, TypeInv, TypeOK
  <2>2. slipped' = slipped \/ slipped' = slipped \cup ({now'} \cap Ticks)
    BY DEF Pass, vars, Slips
  <2> QED
    BY <2>1, <2>2 DEF TypeInv, TypeOK
<1> QED
  BY <1>1, <1>2 DEF TypeInv, TypeOK, RowType, Id

\* A schedule starts empty.
LEMMA TypedInit ==
    ASSUME Init
    PROVE  TypeInv
<1>1. happened \in [Happenings -> Nat] /\ NoId \in Id
  BY DEF Init, Id, NoId, Happenings
<1>2. row \in RowType
  BY <1>1 DEF Init, NoRow, RowType, Time
<1>3. rec \in [Process -> RecType]
  BY <1>2 DEF Init, Idle, RecType
<1>4. task \in [Task -> TaskType]
  BY <1>1 DEF Init, Free, TaskType, Time
<1>5. TypeOK
  BY <1>1, <1>2, <1>3, <1>4 DEF Init, TypeOK, RecType, TaskType, Time
<1> QED
  BY <1>5, Owner DEF Init, TypeInv, Free

\* Every step keeps the types.
LEMMA TypedNext == TypeInv /\ [Next]_vars => TypeInv'
  BY TypedTable, TypedReconciler, TypedTask, TypedProcess, TypedPass DEF Next, Environment

\* Every variable of the scheduler has its type at all times, and what is
\* deleted leaves nothing behind: a stamp that meets no row writes none.
THEOREM SchedulerTyping == Spec => []TypeOK
<1>1. Init => TypeInv
  BY TypedInit
<1>2. TypeInv /\ [Next]_vars => TypeInv'
  BY TypedNext
<1>3. TypeInv => TypeOK
  BY DEF TypeInv
<1> QED
  BY <1>1, <1>2, <1>3, PTL DEF Spec

------------------------------------------------------------------------------
(* One firing task.                                                        *)

\* What the reconciler of p knows: a schedule it found has an id, one it is
\* backfilling is active and not installed, and what it found is still in the
\* table when nothing has changed since it looked.
Knows(p) ==
    /\ rec[p].seen.status # "ABSENT" => rec[p].seen.id # NoId
    /\ rec[p].pc = "backfill" => rec[p].seen.status = "ACTIVE" /\ installed[p] = NoId
    /\ rec[p].pc # "idle" /\ (rec[p].fresh \/ p \in told) =>
          rec[p].seen.status = row.status /\ rec[p].seen.id = row.id

\* OneTaskFires is inductive together with what the reconcilers know; a static
\* schedule has no row to know about.
TokenInv ==
    /\ kind = "static" => row = NoRow /\ told = {} /\ \A p \in Process : rec[p].pc = "idle"
    /\ row.status # "ABSENT" => row.id # NoId
    /\ \A p \in Process : Knows(p)
    /\ \A s \in Task : task[s].live =>
          task[s].pc # "free" /\ (kind = "dynamic" => task[s].id # NoId)
    /\ OneTaskFires

\* Steps that neither wake, rename nor hide anything keep the invariant.
LEMMA TokensKept ==
    ASSUME TypeInv, TokenInv,
           kind' = kind, told' \subseteq told, installed' = installed,
           row'.status = row.status, row'.id = row.id, row = NoRow => row' = NoRow,
           \A p \in Process : /\ rec'[p].pc = rec[p].pc /\ rec'[p].seen = rec[p].seen
                              /\ rec'[p].fresh = rec[p].fresh,
           \A s \in Task : task'[s].live =>
              /\ task[s].live
              /\ task'[s].id = task[s].id
              /\ task'[s].pc # "free"
    PROVE  TokenInv'
<1>1. \A p \in Process : Knows(p)'
  BY DEF TokenInv, Knows
<1>2. OneTaskFires'
  <2>1. ASSUME kind = "dynamic", NEW s \in Task, NEW t \in Task
        PROVE  /\ task'[s].live => installed'[s[1]] = task'[s].id
               /\ task'[s].live /\ task'[t].live /\ s[1] = t[1] => s = t
    BY <2>1 DEF TokenInv, OneTaskFires
  <2>2. ASSUME NEW p \in told', NEW s \in TasksOf(p), task'[s].live, s \in Task
        PROVE  row'.status = "ACTIVE" /\ row'.id = task'[s].id
    BY <2>2 DEF TokenInv, OneTaskFires
  <2>3. \A p \in told' : \A s \in TasksOf(p) : s \in Task
    BY Owner DEF TypeInv, TypeOK
  <2> QED
    BY <2>1, <2>2, <2>3 DEF OneTaskFires
<1> QED
  BY <1>1, <1>2 DEF TokenInv

\* A task of one process, by its owner.
LEMMA OneTaskOf ==
    ASSUME TypeInv, OneTaskFires, NEW p \in told, NEW s \in Task, s[1] = p, task[s].live
    PROVE  row.status = "ACTIVE" /\ row.id = task[s].id
<1>1. p \in Process
  BY DEF TypeInv, TypeOK
<1>2. s \in TasksOf(p)
  BY <1>1, Owner
<1> QED
  BY <1>2 DEF OneTaskFires

\* OneTaskFires, told by the owners of the tasks.
LEMMA TasksByOwner ==
    ASSUME TypeInv',
           kind' = "dynamic" => \A s, t \in Task :
              /\ task'[s].live => installed'[s[1]] = task'[s].id
              /\ task'[s].live /\ task'[t].live /\ s[1] = t[1] => s = t,
           \A s \in Task : s[1] \in told' /\ task'[s].live =>
              row'.status = "ACTIVE" /\ row'.id = task'[s].id
    PROVE  OneTaskFires'
<1>1. \A p \in told' : \A s \in TasksOf(p) : s \in Task /\ s[1] = p
  BY Owner DEF TypeInv, TypeOK
<1> QED
  BY <1>1 DEF OneTaskFires

\* The table: whatever was noticed is out of date.
LEMMA TokensTable ==
    ASSUME TypeInv, TokenInv, Create \/ Delete \/ \E status \in {"ACTIVE", "PAUSED"} : SetStatus(status)
    PROVE  TokenInv'
<1>0. rec \in [Process -> RecType] /\ row \in RowType /\ happened["create"] \in Nat
  BY DEF TypeInv, TypeOK, RecType, Happenings
<1>1. /\ kind' = kind /\ installed' = installed /\ task' = task /\ told' = {}
      /\ rec' = [p \in Process |-> [rec[p] EXCEPT !.fresh = FALSE]]
  BY DEF Create, Delete, SetStatus, Changed
<1>2. kind = "dynamic"
  <2>1. kind = "static" => row.status = "ABSENT"
    BY DEF TokenInv, NoRow
  <2> QED
    BY <2>1 DEF Create, Delete, SetStatus, TypeInv, TypeOK
<1>3. row'.status # "ABSENT" => row'.id # NoId
  <2>1. CASE Create
    <3>1. row'.id = happened["create"] + 1
      BY <2>1 DEF Create
    <3> QED
      BY <1>0, <3>1 DEF NoId
  <2>2. CASE Delete
    BY <2>2 DEF Delete, NoRow
  <2>3. ASSUME NEW status \in {"ACTIVE", "PAUSED"}, SetStatus(status)
        PROVE  row'.id # NoId
    <3>1. row.status # "ABSENT" /\ row'.id = row.id
      BY <1>0, <2>3 DEF SetStatus, WithStatus, RowType
    <3> QED
      BY <3>1 DEF TokenInv
  <2> QED
    BY <2>1, <2>2, <2>3
<1>4. ASSUME NEW p \in Process PROVE Knows(p)'
  <2>1. rec'[p].pc = rec[p].pc /\ rec'[p].seen = rec[p].seen /\ rec'[p].fresh = FALSE
    BY <1>0, <1>1 DEF RecType
  <2> QED
    BY <1>1, <2>1 DEF TokenInv, Knows
<1>5. OneTaskFires'
  BY <1>1 DEF TokenInv, OneTaskFires
<1> QED
  BY <1>1, <1>2, <1>3, <1>4, <1>5 DEF TokenInv

\* The list: what it shows is the row.
LEMMA TokensList ==
    ASSUME TypeInv, TokenInv, NEW p \in Process, List(p)
    PROVE  TokenInv'
<1>0. rec \in [Process -> RecType]
  BY DEF TypeInv, TypeOK, RecType
<1>1. /\ kind' = kind /\ kind = "dynamic" /\ installed' = installed /\ task' = task
      /\ told' = told /\ row' = row
      /\ rec' = [rec EXCEPT ![p] = [pc |-> "listed", seen |-> row, fresh |-> TRUE, todo |-> {}]]
  BY DEF List, history
<1>2. ASSUME NEW q \in Process PROVE Knows(q)'
  <2>1. CASE q = p
    <3>1. rec'[q].pc = "listed" /\ rec'[q].seen = row
      BY <1>0, <1>1, <2>1
    <3> QED
      BY <1>1, <3>1 DEF TokenInv, Knows
  <2>2. CASE q # p
    <3>1. rec'[q] = rec[q]
      BY <1>0, <1>1, <2>2
    <3> QED
      BY <1>1, <3>1 DEF TokenInv, Knows
  <2> QED
    BY <2>1, <2>2
<1>3. OneTaskFires'
  BY <1>1 DEF TokenInv, OneTaskFires
<1> QED
  BY <1>1, <1>2, <1>3 DEF TokenInv

\* What a pass cancels: every task of p that does not belong to the schedule
\* that was found, and nothing of another process.
LEMMA Cancels ==
    ASSUME TypeInv, TokenInv, NEW p \in Process, Reconcile(p), NEW s \in Task
    PROVE  /\ task'[s].pc = task[s].pc /\ task'[s].next = task[s].next /\ task'[s].id = task[s].id
           /\ task'[s].live <=> task[s].live /\ (s[1] = p => ~Stale(p))
<1>0. task[s] \in TaskType
  BY DEF TypeInv, TypeOK, TaskType
<1>1. s \in TasksOf(p) <=> s[1] = p
  BY Owner
<1>2. task' = IF Stale(p) THEN Cancelled(p) ELSE task
  BY DEF Reconcile
<1>3. CASE Stale(p) /\ s[1] = p
  <2>1. task'[s] = [task[s] EXCEPT !.live = FALSE]
    BY <1>1, <1>2, <1>3 DEF Cancelled
  <2> QED
    BY <1>0, <1>3, <2>1 DEF TaskType
<1>4. CASE ~(Stale(p) /\ s[1] = p)
  <2>1. task'[s] = task[s]
    BY <1>1, <1>2, <1>4 DEF Cancelled
  <2> QED
    BY <1>4, <2>1
<1> QED
  BY <1>3, <1>4

\* The pass: what is left belongs to the schedule that was found.
LEMMA TokensReconcile ==
    ASSUME TypeInv, TokenInv, NEW p \in Process, Reconcile(p)
    PROVE  TokenInv'
<1>0. rec \in [Process -> RecType] /\ installed \in [Process -> Id]
  BY DEF TypeInv, TypeOK, RecType
<1>1. /\ kind' = kind /\ kind = "dynamic" /\ row' = row
      /\ installed' = [installed EXCEPT ![p] = IF Stale(p) THEN NoId ELSE @]
      /\ told' = IF rec[p].fresh THEN told \cup {p} ELSE told
      /\ rec[p].pc = "listed"
  BY <1>0 DEF Reconcile, TokenInv, TypeInv, TypeOK
<1>2. \A q \in Process : q # p => rec'[q] = rec[q]
  BY <1>0 DEF Reconcile
<1>3. \/ rec'[p] = Idle
      \/ /\ rec'[p].pc = "backfill" /\ rec'[p].seen = rec[p].seen /\ rec'[p].fresh = rec[p].fresh
         /\ rec[p].seen.status = "ACTIVE" /\ installed'[p] = NoId
  <2>1. CASE rec' = [rec EXCEPT ![p] = Idle]
    BY <1>0, <2>1
  <2>2. CASE rec' # [rec EXCEPT ![p] = Idle]
    <3>1. /\ rec' = [rec EXCEPT ![p].pc = "backfill", ![p].todo = Missed(rec[p].seen, now)]
          /\ rec[p].seen.status = "ACTIVE" /\ installed'[p] = NoId
      BY <1>0, <2>2 DEF Reconcile
    <3>2. rec[p] \in RecType
      BY <1>0
    <3> QED
      BY <1>0, <3>1, <3>2 DEF RecType
  <2> QED
    BY <2>1, <2>2
<1>4. Knows(p)'
  <2>1. CASE rec'[p] = Idle
    BY <2>1 DEF Knows, Idle, NoRow
  <2>2. CASE rec'[p] # Idle
    BY <1>1, <1>3, <2>2 DEF TokenInv, Knows
  <2> QED
    BY <2>1, <2>2
<1>5. ASSUME NEW q \in Process, q # p PROVE Knows(q)'
  BY <1>0, <1>1, <1>2, <1>5 DEF TokenInv, Knows
<1>6. ASSUME NEW s \in Task, task'[s].live
      PROVE  /\ task[s].live
             /\ task'[s].pc # "free" /\ task'[s].id = task[s].id /\ task[s].id # NoId
             /\ installed'[s[1]] = task'[s].id
             /\ s[1] \in told' => row'.status = "ACTIVE" /\ row'.id = task'[s].id
  <2>1. /\ task[s].live /\ task'[s].pc = task[s].pc /\ task'[s].id = task[s].id
        /\ (s[1] = p => ~Stale(p)) /\ s[1] \in Process
    BY <1>6, Cancels, Owner
  <2>2. task[s].pc # "free" /\ task[s].id # NoId /\ installed[s[1]] = task[s].id
    BY <1>1, <2>1 DEF TokenInv, OneTaskFires
  <2>3. installed'[s[1]] = task'[s].id
    BY <1>0, <1>1, <2>1, <2>2
  <2>4. ASSUME s[1] \in told' PROVE row'.status = "ACTIVE" /\ row'.id = task'[s].id
    <3>1. CASE s[1] \in told
      BY <1>1, <2>1, <3>1, OneTaskOf DEF TokenInv
    <3>2. CASE s[1] \notin told
      <4>1. s[1] = p /\ rec[p].fresh /\ ~Stale(p)
        BY <1>1, <2>1, <2>4, <3>2
      <4>2. rec[p].seen.status = "ACTIVE" /\ rec[p].seen.id = task[s].id
        BY <2>2, <4>1 DEF Stale
      <4> QED
        BY <1>1, <2>1, <4>1, <4>2 DEF TokenInv, Knows
    <3> QED
      BY <3>1, <3>2
  <2> QED
    BY <2>1, <2>2, <2>3, <2>4
<1>7. \A s, t \in Task : task'[s].live /\ task'[t].live /\ s[1] = t[1] => s = t
  BY <1>1, <1>6 DEF TokenInv, OneTaskFires
<1>8. OneTaskFires'
  <2>1. TypeInv'
    BY TypedReconciler DEF ReconcilerStep
  <2> QED
    BY <1>6, <1>7, <2>1, TasksByOwner
<1> QED
  BY <1>1, <1>4, <1>5, <1>6, <1>8 DEF TokenInv

\* Nothing of p was installed, and what is installed now is what it found.
LEMMA TokensInstall ==
    ASSUME TypeInv, TokenInv, NEW p \in Process, Install(p)
    PROVE  TokenInv'
<1>0. rec \in [Process -> RecType] /\ installed \in [Process -> Id] /\ task \in [Task -> TaskType]
  BY DEF TypeInv, TypeOK, RecType, TaskType
<1> DEFINE id == rec[p].seen.id
<1>1. /\ kind' = kind /\ row' = row /\ told' = told
      /\ installed' = [installed EXCEPT ![p] = id] /\ rec' = [rec EXCEPT ![p] = Idle]
      /\ rec[p].pc = "backfill"
  BY DEF Install, history
<1>2. kind = "dynamic" /\ installed[p] = NoId /\ rec[p].seen.status = "ACTIVE" /\ id # NoId
  BY <1>1 DEF TokenInv, Knows, TypeInv, TypeOK
<1>3. PICK z \in TasksOf(p) : task' = [task EXCEPT ![z] = Fresh(id)]
  BY SpawnOne DEF Install
<1>4. z \in Task /\ z[1] = p
  BY Owner
<1>5. task'[z] = Fresh(id) /\ \A s \in Task : s # z => task'[s] = task[s]
  BY <1>0, <1>3, <1>4
<1>6. Fresh(id).live /\ Fresh(id).id = id /\ Fresh(id).pc = "start"
  BY DEF Fresh
<1>7. \A s \in Task : task[s].live => s[1] # p
  BY <1>2 DEF TokenInv, OneTaskFires
<1>8. ASSUME NEW q \in Process PROVE Knows(q)'
  <2>1. CASE q = p
    <3>1. rec'[p] = Idle
      BY <1>0, <1>1
    <3> QED
      BY <2>1, <3>1 DEF Knows, Idle, NoRow
  <2>2. CASE q # p
    <3>1. rec'[q] = rec[q] /\ installed'[q] = installed[q]
      BY <1>0, <1>1, <2>2
    <3> QED
      BY <1>1, <3>1 DEF TokenInv, Knows
  <2> QED
    BY <2>1, <2>2
<1> HIDE DEF id
<1>9. OneTaskFires'
  <2>1. TypeInv'
    BY TypedReconciler DEF ReconcilerStep
  <2>2. \A s \in Task : s[1] \in Process
    BY Owner
  <2>3. ASSUME NEW s \in Task, task'[s].live PROVE installed'[s[1]] = task'[s].id
    BY <1>0, <1>1, <1>2, <1>4, <1>5, <1>6, <1>7, <2>2, <2>3 DEF TokenInv, OneTaskFires
  <2>4. ASSUME NEW s \in Task, NEW t \in Task, task'[s].live, task'[t].live, s[1] = t[1]
        PROVE  s = t
    BY <1>2, <1>4, <1>5, <1>7, <2>4 DEF TokenInv, OneTaskFires
  <2>5. ASSUME NEW s \in Task, s[1] \in told', task'[s].live
        PROVE  row'.status = "ACTIVE" /\ row'.id = task'[s].id
    <3>1. CASE s = z
      BY <1>1, <1>2, <1>4, <1>5, <1>6, <2>5, <3>1 DEF TokenInv, Knows, id
    <3>2. CASE s # z
      BY <1>1, <1>5, <2>5, <3>2, OneTaskOf DEF TokenInv
    <3> QED
      BY <3>1, <3>2
  <2> QED
    BY <2>1, <2>3, <2>4, <2>5, TasksByOwner
<1>10. \A s \in Task : task'[s].live =>
          task'[s].pc # "free" /\ (kind' = "dynamic" => task'[s].id # NoId)
  BY <1>1, <1>2, <1>5, <1>6 DEF TokenInv
<1> QED
  BY <1>1, <1>2, <1>8, <1>9, <1>10 DEF TokenInv

\* A task never wakes another one, nor renames itself, and a stamp leaves the
\* row what it was to the reconcilers.
LEMMA TokensTask ==
    ASSUME TypeInv, TokenInv, NEW s \in Task, TaskStep(s) \/ FireFails(s) \/ StampFails(s)
    PROVE  TokenInv'
<1>0. task \in [Task -> TaskType] /\ task[s] \in TaskType /\ row \in RowType
  BY DEF TypeInv, TypeOK, TaskType
<1>1. kind' = kind /\ rec' = rec /\ told' = told /\ installed' = installed
  BY DEF TaskStep, Start, Wake, Quit, Fire, FireStatic, FireFails, Stamp, StampFails, history
<1>2. row'.status = row.status /\ row'.id = row.id /\ (row = NoRow => row' = NoRow)
  <2>1. row' = row \/ row' = Stamped(row, task[s].next)
    BY DEF TaskStep, Start, Wake, Quit, Fire, FireStatic, FireFails, Stamp, StampFails
  <2>2. [row EXCEPT !.last = task[s].next].status = row.status
        /\ [row EXCEPT !.last = task[s].next].id = row.id
    BY <1>0 DEF RowType
  <2>3. NoRow.status = "ABSENT"
    BY DEF NoRow
  <2> QED
    BY <2>1, <2>2, <2>3 DEF Stamped
<1>3. \A z \in Task : z # s => task'[z] = task[z]
  BY <1>0 DEF TaskStep, Start, Wake, Quit, Fire, FireStatic, FireFails, Stamp, StampFails
<1>4. task'[s].live => task[s].live /\ task'[s].id = task[s].id /\ task'[s].pc # "free"
  <2>1. CASE Start(s)
    <3>1. PICK t \in Ticks : task'[s] = [task[s] EXCEPT !.pc = "wait", !.next = t]
      BY <1>0, <2>1 DEF Start
    <3> QED
      BY <1>0, <3>1 DEF TaskType
  <2>2. CASE Quit(s)
    BY <1>0, <2>2 DEF Quit, Free
  <2>3. CASE Wake(s) \/ Fire(s) \/ FireStatic(s) \/ FireFails(s) \/ Stamp(s) \/ StampFails(s)
    <3>1. PICK pc \in {"start", "fire", "stamp"} : task'[s] = [task[s] EXCEPT !.pc = pc]
      BY <1>0, <2>3 DEF Wake, Fire, FireStatic, FireFails, Stamp, StampFails
    <3> QED
      BY <1>0, <3>1 DEF TaskType
  <2> QED
    BY <2>1, <2>2, <2>3 DEF TaskStep
<1>5. \A z \in Task : task'[z].live =>
         task[z].live /\ task'[z].id = task[z].id /\ task'[z].pc # "free"
  BY <1>3, <1>4 DEF TokenInv
<1> QED
  BY <1>1, <1>2, <1>5, TokensKept

\* A backfill changes what is submitted.
LEMMA TokensBackfill ==
    ASSUME TypeInv, TokenInv, NEW p \in Process, BackfillTick(p) \/ BackfillFails(p)
    PROVE  TokenInv'
<1>0. rec \in [Process -> RecType] /\ rec[p] \in RecType
  BY DEF TypeInv, TypeOK, RecType
<1>1. /\ kind' = kind /\ row' = row /\ told' = told /\ installed' = installed /\ task' = task
  BY DEF BackfillTick, BackfillFails, history
<1>2. \E todo : rec' = [rec EXCEPT ![p].todo = todo]
  BY <1>0 DEF BackfillTick, BackfillFails
<1>3. \A q \in Process : /\ rec'[q].pc = rec[q].pc /\ rec'[q].seen = rec[q].seen
                         /\ rec'[q].fresh = rec[q].fresh
  BY <1>0, <1>2 DEF RecType
<1> QED
  BY <1>1, <1>3, TokensKept DEF TokenInv

\* A launch starts the task of a static schedule; a crash leaves nothing.
LEMMA TokensProcess ==
    ASSUME TypeInv, TokenInv, NEW p \in Process, Launch(p) \/ Crash(p)
    PROVE  TokenInv'
<1>0. task \in [Task -> TaskType] /\ rec \in [Process -> RecType] /\ installed \in [Process -> Id]
  BY DEF TypeInv, TypeOK, RecType, TaskType
<1>1. CASE Launch(p) /\ task' = task
  <2>1. /\ kind' = kind /\ row' = row /\ told' = told /\ rec' = rec /\ installed' = installed
    BY <1>1 DEF Launch, history
  <2> QED
    BY <1>1, <2>1, TokensKept DEF TokenInv
<1>2. CASE Launch(p) /\ kind = "static" /\ Spawn(p, NoId)
  <2>1. /\ kind' = kind /\ row' = row /\ told' = told /\ rec' = rec /\ installed' = installed
    BY <1>2 DEF Launch, history
  <2>2. Fresh(NoId).pc = "start"
    BY DEF Fresh
  <2>3. \A s \in Task : task'[s].live => task'[s].pc # "free"
    BY <1>0, <1>2, <2>2, SpawnOne, Owner DEF TokenInv
  <2>4. OneTaskFires'
    BY <1>2, <2>1 DEF TokenInv, OneTaskFires
  <2>5. \A q \in Process : Knows(q)'
    BY <2>1 DEF TokenInv, Knows
  <2> QED
    BY <1>2, <2>1, <2>3, <2>4, <2>5 DEF TokenInv
<1>3. CASE Crash(p)
  <2>1. /\ kind' = kind /\ row' = row /\ told' = told \ {p} /\ rec' = [rec EXCEPT ![p] = Idle]
        /\ installed' = [installed EXCEPT ![p] = NoId]
        /\ task' = [s \in Task |-> IF s \in TasksOf(p) THEN Free ELSE task[s]]
    BY <1>3 DEF Crash
  <2>2. \A s \in Task : task'[s] = IF s[1] = p THEN Free ELSE task[s]
    BY <2>1, Owner
  <2>3. ~Free.live
    BY DEF Free
  <2>4. ASSUME NEW q \in Process PROVE Knows(q)'
    <3>1. CASE q = p
      <4>1. rec'[p] = Idle
        BY <1>0, <2>1
      <4> QED
        BY <3>1, <4>1 DEF Knows, Idle, NoRow
    <3>2. CASE q # p
      <4>1. rec'[q] = rec[q] /\ installed'[q] = installed[q]
        BY <1>0, <2>1, <3>2
      <4> QED
        BY <2>1, <3>2, <4>1 DEF TokenInv, Knows
    <3> QED
      BY <3>1, <3>2
  <2>5. ASSUME NEW s \in Task, task'[s].live
        PROVE  task'[s] = task[s] /\ s[1] # p /\ installed'[s[1]] = installed[s[1]]
    BY <1>0, <2>1, <2>2, <2>3, <2>5, Owner
  <2>6. OneTaskFires'
    <3>1. TypeInv'
      BY <1>3, TypedProcess
    <3>2. kind' = "dynamic" => \A s, t \in Task :
             /\ task'[s].live => installed'[s[1]] = task'[s].id
             /\ task'[s].live /\ task'[t].live /\ s[1] = t[1] => s = t
      BY <2>1, <2>5 DEF TokenInv, OneTaskFires
    <3>3. ASSUME NEW s \in Task, s[1] \in told', task'[s].live
          PROVE  row'.status = "ACTIVE" /\ row'.id = task'[s].id
      BY <2>1, <2>5, <3>3, OneTaskOf DEF TokenInv
    <3> QED
      BY <3>1, <3>2, <3>3, TasksByOwner
  <2>7. \A q \in Process : rec[q].pc = "idle" => rec'[q].pc = "idle"
    BY <1>0, <2>1 DEF Idle
  <2>8. \A s \in Task : task'[s].live =>
           task'[s].pc # "free" /\ (kind' = "dynamic" => task'[s].id # NoId)
    BY <2>1, <2>5 DEF TokenInv
  <2> QED
    BY <2>1, <2>4, <2>6, <2>7, <2>8 DEF TokenInv
<1> QED
  BY <1>1, <1>2, <1>3 DEF Launch

\* Every step keeps the tokens in order.
LEMMA TokensNext == TypeInv /\ TokenInv /\ [Next]_vars => TokenInv'
<1>1. ASSUME TypeInv, TokenInv, Pass \/ UNCHANGED vars PROVE TokenInv'
  <2>1. /\ kind' = kind /\ row' = row /\ told' = told /\ rec' = rec /\ installed' = installed
        /\ task' = task
    BY <1>1 DEF Pass, vars
  <2> QED
    BY <1>1, <2>1, TokensKept DEF TokenInv
<1> QED
  BY <1>1, TokensTable, TokensList, TokensReconcile, TokensInstall, TokensBackfill, TokensTask,
     TokensProcess
  DEF Next, Environment, ReconcilerStep

\* At the start there is nothing to know.
LEMMA TokensInit == Init => TokenInv
<1>1. ASSUME Init PROVE TokenInv
  <2>1. \A p \in Process : rec[p] = Idle
    BY <1>1 DEF Init
  <2>2. Idle.pc = "idle" /\ Idle.seen = NoRow /\ NoRow.status = "ABSENT" /\ ~Free.live
    BY DEF Idle, NoRow, Free
  <2>3. row = NoRow /\ told = {} /\ \A s \in Task : ~task[s].live
    BY <1>1, <2>2 DEF Init
  <2> QED
    BY <2>1, <2>2, <2>3 DEF TokenInv, Knows, OneTaskFires
<1> QED
  BY <1>1

\* A process has at most one task that may still wake up, the task of the
\* schedule_id it has installed, and once it has noticed that a schedule was
\* paused, deleted or replaced it has none for it (dynamic.rs:121), whatever
\* becomes of the table between the list and the pass.
THEOREM FiresOne == Spec => []OneTaskFires
<1>1. Init => TypeInv /\ TokenInv
  BY TypedInit, TokensInit
<1>2. TypeInv /\ TokenInv /\ [Next]_vars => (TypeInv /\ TokenInv)'
  BY TypedNext, TokensNext
<1>3. TypeInv /\ TokenInv => OneTaskFires
  BY DEF TokenInv
<1> QED
  BY <1>1, <1>2, <1>3, PTL DEF Spec

------------------------------------------------------------------------------
(* No tick is lost.                                                        *)

\* Missed leaves out a tick that follows within a second of the one stamped last:
\* a schedule that fires every second can lose ticks, any other schedule cannot.
Sparse == \A t, u \in Ticks : t < u => t + Second < u

\* Every tick from a to b has a workflow, or came due at a moment that excuses it.
Covered(a, b) == \A t \in Ticks : a <= t /\ t <= b => t \in submitted \cup slipped

\* A task waits for the first tick after the present, and fires when it is past;
\* what was stamped is past.
InTime ==
    /\ \A s \in Task :
          /\ task[s].pc = "wait" => \A u \in Ticks : u > now => task[s].next <= u
          /\ task[s].pc \in {"fire", "stamp"} => task[s].next <= now
    /\ row.last <= now
    /\ \A p \in Process : rec[p].seen.last <= now

\* A task is live, has nothing behind it but its tick, and there is nothing
\* before its tick but what was taken care of.
TaskKept(s) ==
    /\ task[s].pc # "free" => task[s].live
    /\ task[s].pc \in {"wait", "fire"} => Covered(task[s].next + 1, now)
    /\ task[s].pc = "stamp" => Covered(task[s].next, now)
    /\ since # Never /\ row.auto /\ task[s].pc # "free" =>
          \A t \in Ticks : since <= t /\ t <= now =>
             \/ t \in submitted \cup slipped
             \/ task[s].pc \in {"wait", "fire"} /\ t = task[s].next

\* What the reconciler of p found is the row there is, what it has installed is
\* that row, and what it has still to backfill is all there is to submit.
RecKept(p) ==
    /\ rec[p].seen.status # "PAUSED" /\ (rec[p].seen.status = "ABSENT" => rec[p].seen = NoRow)
    /\ rec[p].seen.status = "ACTIVE" =>
          row.status = "ACTIVE" /\ rec[p].seen.id = row.id /\ rec[p].seen.auto = row.auto
    /\ installed[p] # NoId =>
          /\ row.status = "ACTIVE" /\ row.id = installed[p]
          /\ rec[p].pc = "listed" => rec[p].seen.status = "ACTIVE"
    /\ since # Never /\ row.auto =>
          /\ rec[p].pc = "backfill" => \A t \in Ticks : since <= t /\ t <= now =>
                t \in submitted \cup slipped \cup rec[p].todo
          /\ rec[p].pc = "listed" /\ rec[p].seen.status = "ACTIVE" =>
                Covered(since, IF rec[p].seen.last = Never THEN now ELSE rec[p].seen.last)

\* While nobody disturbs the schedule, all of this holds, and the last stamp has
\* nothing before it that is lost.
Orderly ==
    /\ row.status # "PAUSED"
    /\ since # Never => row.last # Never /\ (row.auto => Covered(since, row.last))
    /\ \A s \in Task : TaskKept(s)
    /\ \A p \in Process : RecKept(p)

TickInv == InTime /\ (Undisturbed => Orderly)

\* The clock is a number, and so are the ticks.
LEMMA Times ==
    ASSUME TypeOK
    PROVE  /\ now \in Nat /\ Ticks \subseteq Nat /\ row.last \in Time
           /\ \A t \in Time : t \in Nat /\ (t # Never => t \in Ticks)
           /\ \A p \in Process : rec[p].seen.last \in Time
           /\ \A s \in Task : task[s].next \in Time
  BY DEF TypeOK, RowType, Time, Never

\* The clock does not go back, and a tick that is waited for is ahead when it is
\* chosen.
LEMMA InTimeNext ==
    ASSUME TypeInv, InTime, [Next]_vars
    PROVE  InTime'
<1>0. /\ rec \in [Process -> RecType] /\ task \in [Task -> TaskType] /\ row \in RowType
      /\ TypeOK
  BY DEF TypeInv, TypeOK, RecType, TaskType
<1>1. CASE Create \/ Delete \/ \E status \in {"ACTIVE", "PAUSED"} : SetStatus(status)
  <2>1. /\ now' = now /\ task' = task
        /\ rec' = [p \in Process |-> [rec[p] EXCEPT !.fresh = FALSE]]
    BY <1>1 DEF Create, Delete, SetStatus, Changed
  <2>2. \A p \in Process : rec'[p].seen = rec[p].seen
    BY <1>0, <2>1 DEF RecType
  <2>3. row'.last = Never
    <3>1. Create => row'.last = Never
      BY DEF Create
    <3>2. Delete => row'.last = Never
      BY DEF Delete, NoRow
    <3>3. ASSUME NEW status, SetStatus(status) PROVE row'.last = Never
      BY <1>0, <3>3 DEF SetStatus, WithStatus, RowType
    <3> QED
      BY <1>1, <3>1, <3>2, <3>3
  <2> QED
    BY <1>0, <2>1, <2>2, <2>3, Times DEF InTime, Never
<1>2. ASSUME NEW p \in Process, ReconcilerStep(p) \/ BackfillFails(p) PROVE InTime'
  <2>1. now' = now /\ row' = row
    BY <1>2 DEF ReconcilerStep, List, Reconcile, BackfillTick, BackfillFails, Install, history
  <2>2. \A q \in Process : rec'[q].seen \in {rec[q].seen, row, NoRow}
    <3>1. CASE List(p)
      BY <1>0, <3>1 DEF List
    <3>2. CASE Install(p)
      BY <1>0, <3>2 DEF Install, Idle
    <3>3. CASE BackfillTick(p) \/ BackfillFails(p)
      <4>1. \E todo : rec' = [rec EXCEPT ![p].todo = todo]
        BY <3>3 DEF BackfillTick, BackfillFails
      <4> QED
        BY <1>0, <4>1 DEF RecType
    <3>4. CASE Reconcile(p)
      <4>1. rec' = [rec EXCEPT ![p] = Idle] \/ \E m : rec' = [rec EXCEPT ![p].pc = "backfill", ![p].todo = m]
        BY <3>4 DEF Reconcile
      <4> QED
        BY <1>0, <4>1 DEF RecType, Idle
    <3> QED
      BY <1>2, <3>1, <3>2, <3>3, <3>4 DEF ReconcilerStep
  <2>3. \A q \in Process : rec'[q].seen.last <= now
    BY <1>0, <2>2, Times DEF InTime, NoRow, Never
  <2>4. ASSUME NEW s \in Task
        PROVE  /\ task'[s].pc = task[s].pc /\ task'[s].next = task[s].next
               \/ task'[s].pc = "start"
    <3>1. task' = task \/ Reconcile(p) \/ Install(p)
      BY <1>2 DEF ReconcilerStep, List, BackfillTick, BackfillFails
    <3>2. CASE Reconcile(p)
      <4>1. task' = IF Stale(p) THEN Cancelled(p) ELSE task
        BY <3>2 DEF Reconcile
      <4>2. task'[s] = task[s] \/ task'[s] = [task[s] EXCEPT !.live = FALSE]
        BY <4>1 DEF Cancelled
      <4> QED
        BY <1>0, <4>2 DEF TaskType
    <3>3. CASE Install(p)
      <4>1. \E z \in TasksOf(p), id \in Id : task' = [task EXCEPT ![z] = Fresh(id)]
        <5>1. rec[p].seen.id \in Id
          BY <1>0 DEF RecType, RowType
        <5> QED
          BY <3>3, <5>1, SpawnOne DEF Install
      <4>2. \A id : Fresh(id).pc = "start"
        BY DEF Fresh
      <4> QED
        BY <1>0, <4>1, <4>2, Owner
    <3> QED
      BY <3>1, <3>2, <3>3
  <2> QED
    BY <2>1, <2>3, <2>4 DEF InTime
<1>3. ASSUME NEW s \in Task, TaskStep(s) \/ FireFails(s) \/ StampFails(s) PROVE InTime'
  <2>1. now' = now /\ rec' = rec
    BY <1>3 DEF TaskStep, Start, Wake, Quit, Fire, FireStatic, FireFails, Stamp, StampFails
  <2>2. \A z \in Task : z # s => task'[z] = task[z]
    BY <1>0, <1>3 DEF TaskStep, Start, Wake, Quit, Fire, FireStatic, FireFails, Stamp, StampFails
  <2>3. /\ task'[s].pc = "wait" => \A u \in Ticks : u > now => task'[s].next <= u
        /\ task'[s].pc \in {"fire", "stamp"} => task'[s].next <= now
    <3>1. CASE Start(s)
      <4>1. PICK t \in Ticks : IsNext(t) /\ task' = [task EXCEPT ![s].pc = "wait", ![s].next = t]
        BY <3>1 DEF Start
      <4>2. task'[s].pc = "wait" /\ task'[s].next = t
        BY <1>0, <4>1 DEF TaskType
      <4> QED
        BY <4>1, <4>2 DEF IsNext
    <3>2. CASE Quit(s)
      BY <1>0, <3>2 DEF Quit, Free
    <3>3. CASE Wake(s)
      <4>1. task'[s].pc = "fire" /\ task'[s].next = task[s].next
        BY <1>0, <3>3 DEF Wake, TaskType
      <4> QED
        BY <1>0, <3>3, <4>1, Times DEF Wake
    <3>4. CASE Fire(s)
      <4>1. task'[s].pc = "stamp" /\ task'[s].next = task[s].next /\ task[s].pc = "fire"
        BY <1>0, <3>4 DEF Fire, TaskType
      <4> QED
        BY <4>1 DEF InTime
    <3>5. CASE FireStatic(s) \/ FireFails(s) \/ Stamp(s) \/ StampFails(s)
      <4>1. task'[s].pc = "start"
        BY <1>0, <3>5 DEF FireStatic, FireFails, Stamp, StampFails, TaskType
      <4> QED
        BY <4>1
    <3> QED
      BY <1>3, <3>1, <3>2, <3>3, <3>4, <3>5 DEF TaskStep
  <2>4. row'.last <= now
    <3>1. row' = row \/ (Stamp(s) /\ row' = Stamped(row, task[s].next))
      BY <1>3 DEF TaskStep, Start, Wake, Quit, Fire, FireStatic, FireFails, Stamp, StampFails
    <3>2. Stamp(s) => task[s].next <= now
      BY DEF Stamp, InTime
    <3>3. [row EXCEPT !.last = task[s].next].last = task[s].next
      BY <1>0 DEF RowType
    <3> QED
      BY <3>1, <3>2, <3>3 DEF Stamped, InTime
  <2> QED
    BY <2>1, <2>2, <2>3, <2>4 DEF InTime
<1>4. ASSUME NEW p \in Process, Launch(p) PROVE InTime'
  <2>1. now' = now /\ row' = row /\ rec' = rec
    BY <1>4 DEF Launch
  <2>2. \A s \in Task : task'[s] = task[s] \/ task'[s].pc = "start"
    <3>1. Fresh(NoId).pc = "start"
      BY DEF Fresh
    <3> QED
      BY <1>0, <1>4, <3>1, SpawnOne, Owner DEF Launch
  <2> QED
    BY <2>1, <2>2 DEF InTime
<1>5. ASSUME NEW p \in Process, Crash(p) PROVE InTime'
  <2>1. now' = now /\ row' = row
    BY <1>5 DEF Crash
  <2>2. \A q \in Process : rec'[q] = rec[q] \/ rec'[q].seen.last = Never
    BY <1>0, <1>5 DEF Crash, Idle, NoRow
  <2>3. \A s \in Task : task'[s] = task[s] \/ task'[s].pc = "free"
    BY <1>5 DEF Crash, Free
  <2> QED
    BY <1>0, <2>1, <2>2, <2>3, Times DEF InTime, Never
<1>6. CASE Pass
  <2>1. now' = now + 1 /\ row' = row /\ rec' = rec /\ task' = task
    BY <1>6 DEF Pass
  <2>2. \A u \in Nat : (u > now' => u > now) /\ (u <= now => u <= now')
    BY <1>0, <2>1, Times
  <2>3. /\ \A u \in Ticks : u \in Nat
        /\ row.last \in Nat
        /\ \A p \in Process : rec[p].seen.last \in Nat
        /\ \A s \in Task : task[s].next \in Nat
    BY <1>0, Times
  <2> QED
    BY <2>1, <2>2, <2>3 DEF InTime
<1>7. CASE UNCHANGED vars
  BY <1>7 DEF vars, InTime
<1> QED
  BY <1>1, <1>2, <1>3, <1>4, <1>5, <1>6, <1>7 DEF Next, Environment, ReconcilerStep

\* A task that does not move stays in order while the clock stands and nothing
\* that was taken care of is forgotten.
LEMMA TaskStays ==
    ASSUME NEW s \in Task, TaskKept(s), task'[s] = task[s], now' = now, since' = since,
           row'.auto = row.auto, submitted \subseteq submitted', slipped \subseteq slipped'
    PROVE  TaskKept(s)'
  BY DEF TaskKept, Covered

\* So does a reconciler, while the row is the one it knows.
LEMMA RecStays ==
    ASSUME NEW p \in Process, RecKept(p), rec'[p] = rec[p], installed'[p] = installed[p],
           now' = now, since' = since, row'.status = row.status, row'.id = row.id,
           row'.auto = row.auto, submitted \subseteq submitted', slipped \subseteq slipped'
    PROVE  RecKept(p)'
  BY DEF RecKept, Covered

\* A reconciler between two passes has nothing to keep.
LEMMA RecIdles ==
    ASSUME NEW p \in Process, rec'[p] = Idle,
           installed'[p] # NoId => row'.status = "ACTIVE" /\ row'.id = installed'[p]
    PROVE  RecKept(p)'
  BY DEF RecKept, Idle, NoRow

\* A new row: nothing has been stamped for it, nobody knows it.
LEMMA OrderlyCreate ==
    ASSUME TypeInv, TokenInv, Orderly, Create
    PROVE  Orderly'
<1>0. rec \in [Process -> RecType]
  BY DEF TypeInv, TypeOK, RecType
<1>1. /\ row = NoRow /\ row'.status = "ACTIVE"
      /\ now' = now /\ task' = task /\ submitted' = submitted /\ slipped' = slipped
      /\ installed' = installed /\ since' = since
      /\ rec' = [p \in Process |-> [rec[p] EXCEPT !.fresh = FALSE]]
  BY DEF Create, Changed, TypeInv, TypeOK
<1>2. since = Never
  BY <1>1 DEF Orderly, NoRow
<1>3. \A s \in Task : TaskKept(s)'
  BY <1>1, <1>2 DEF Orderly, TaskKept, Covered
<1>4. ASSUME NEW p \in Process PROVE RecKept(p)'
  <2>1. /\ rec'[p].seen = rec[p].seen /\ rec'[p].pc = rec[p].pc
        /\ rec[p].seen.status \in {"ABSENT", "ACTIVE", "PAUSED"}
    BY <1>0, <1>1 DEF RecType, RowType
  <2>2. rec[p].seen = NoRow /\ installed[p] = NoId
    BY <1>1, <2>1 DEF Orderly, RecKept, NoRow
  <2> QED
    BY <1>1, <1>2, <2>1, <2>2 DEF RecKept, NoRow
<1> QED
  BY <1>1, <1>2, <1>3, <1>4 DEF Orderly

\* The list shows the row.
LEMMA OrderlyList ==
    ASSUME TypeInv, Orderly, NEW p \in Process, List(p)
    PROVE  Orderly'
<1>0. rec \in [Process -> RecType]
  BY DEF TypeInv, TypeOK, RecType
<1>1. /\ now' = now /\ task' = task /\ submitted' = submitted /\ slipped' = slipped
      /\ installed' = installed /\ since' = since /\ row' = row
      /\ rec' = [rec EXCEPT ![p] = [pc |-> "listed", seen |-> row, fresh |-> TRUE, todo |-> {}]]
  BY DEF List, history
<1>2. rec'[p].pc = "listed" /\ rec'[p].seen = row
  BY <1>0, <1>1
<1>3. RecKept(p)'
  BY <1>1, <1>2 DEF Orderly, RecKept, Covered, TypeInv, TypeOK
<1>4. \A q \in Process : q # p => RecKept(q)'
  BY <1>0, <1>1, RecStays DEF Orderly
<1>5. \A s \in Task : TaskKept(s)'
  BY <1>1, TaskStays DEF Orderly
<1> QED
  BY <1>1, <1>3, <1>4, <1>5 DEF Orderly, Covered

\* What a pass finds is what is installed, or nothing is installed, and then the
\* ticks since the last stamp are backfilled.
LEMMA OrderlyReconcile ==
    ASSUME Sparse, TypeInv, InTime, Orderly, Undisturbed, NEW p \in Process, Reconcile(p)
    PROVE  Orderly'
<1>0. rec \in [Process -> RecType] /\ rec[p] \in RecType /\ installed \in [Process -> Id] /\ TypeOK
  BY DEF TypeInv, TypeOK, RecType
<1>1. ~Stale(p)
  BY DEF Reconcile, Stale, Orderly, RecKept
<1>2. /\ now' = now /\ task' = task /\ submitted' = submitted
      /\ installed' = installed /\ since' = since /\ row' = row
  BY <1>0, <1>1 DEF Reconcile
<1>3. slipped \subseteq slipped'
  BY DEF Reconcile, Slips
<1>4. \A q \in Process : q # p => RecKept(q)'
  <2>1. \A q \in Process : q # p => rec'[q] = rec[q]
    BY <1>0 DEF Reconcile
  <2> QED
    BY <1>2, <1>3, <2>1, RecStays DEF Orderly
<1>5. RecKept(p)'
  <2>1. CASE rec' = [rec EXCEPT ![p] = Idle]
    <3>1. rec'[p] = Idle
      BY <1>0, <2>1
    <3> QED
      BY <1>2, <3>1, RecIdles DEF Orderly, RecKept
  <2>2. CASE rec' # [rec EXCEPT ![p] = Idle]
    <3> DEFINE seen == rec[p].seen
    <3>1. /\ rec' = [rec EXCEPT ![p].pc = "backfill", ![p].todo = Missed(seen, now)]
          /\ slipped' = slipped \cup ({now} \cap Ticks)
          /\ seen.status = "ACTIVE" /\ installed[p] = NoId
      BY <1>1, <2>2 DEF Reconcile, Slips
    <3>2. rec'[p].pc = "backfill" /\ rec'[p].seen = seen /\ rec'[p].todo = Missed(seen, now)
      BY <1>0, <3>1 DEF RecType
    <3>3. rec[p].pc = "listed"
      BY DEF Reconcile
    <3>4. ASSUME since # Never, row.auto, NEW t \in Ticks, since <= t, t <= now
          PROVE  t \in submitted' \cup slipped' \cup Missed(seen, now)
      <4>1. /\ seen.auto
            /\ seen.last \in Time
            /\ Covered(since, IF seen.last = Never THEN now ELSE seen.last)
        BY <1>0, <3>1, <3>3, <3>4, Times DEF Orderly, RecKept
      <4>2. CASE t = now
        BY <3>1, <4>2
      <4>3. CASE t # now /\ (seen.last = Never \/ t <= seen.last)
        BY <1>2, <1>3, <3>4, <4>1, <4>3 DEF Covered
      <4>4. CASE t # now /\ seen.last # Never /\ ~(t <= seen.last)
        <5>1. seen.last \in Ticks /\ t \in Nat /\ seen.last \in Nat /\ now \in Nat
          BY <1>0, <4>1, <4>4, Times
        <5>2. seen.last < t /\ t < now
          BY <3>4, <4>4, <5>1
        <5>3. seen.last + Second < t
          BY <5>1, <5>2 DEF Sparse
        <5> QED
          BY <4>1, <4>4, <5>2, <5>3 DEF Missed
      <4> QED
        BY <4>2, <4>3, <4>4
    <3> HIDE DEF seen
    <3>5. RecKept(p)
      BY DEF Orderly
    <3> QED
      BY <1>2, <3>1, <3>2, <3>4, <3>5 DEF RecKept, seen
  <2> QED
    BY <2>1, <2>2
<1>6. \A s \in Task : TaskKept(s)'
  BY <1>2, <1>3, TaskStays DEF Orderly
<1> QED
  BY <1>2, <1>3, <1>4, <1>5, <1>6 DEF Orderly, Covered

\* What is backfilled is submitted, or fails.
LEMMA OrderlyBackfill ==
    ASSUME TypeInv, Orderly, Undisturbed, NEW p \in Process, BackfillTick(p) \/ BackfillFails(p)
    PROVE  Orderly'
<1>0. rec \in [Process -> RecType] /\ rec[p] \in RecType
  BY DEF TypeInv, TypeOK, RecType
<1>1. /\ now' = now /\ task' = task /\ installed' = installed /\ since' = since /\ row' = row
      /\ submitted \subseteq submitted' /\ slipped \subseteq slipped' /\ rec[p].pc = "backfill"
  BY DEF BackfillTick, BackfillFails, history, Slips
<1>2. \E todo : /\ rec' = [rec EXCEPT ![p].todo = todo]
                /\ rec[p].todo \cap Ticks \subseteq todo \cup submitted' \cup slipped'
  <2>1. CASE BackfillTick(p)
    <3>1. PICK t : submitted' = submitted \cup {t} /\ rec' = [rec EXCEPT ![p].todo = @ \ {t}]
      BY <2>1 DEF BackfillTick
    <3>2. rec' = [rec EXCEPT ![p].todo = rec[p].todo \ {t}]
      BY <1>0, <3>1
    <3>3. rec[p].todo \cap Ticks \subseteq (rec[p].todo \ {t}) \cup submitted' \cup slipped'
      BY <3>1
    <3> QED
      BY <3>2, <3>3
  <2>2. CASE BackfillFails(p)
    <3>1. rec' = [rec EXCEPT ![p].todo = {}] /\ slipped' = slipped \cup (rec[p].todo \cap Ticks)
      BY <2>2 DEF BackfillFails, Slips
    <3> QED
      BY <3>1
  <2> QED
    BY <2>1, <2>2
<1>3. /\ rec'[p].pc = "backfill" /\ rec'[p].seen = rec[p].seen
      /\ rec[p].todo \cap Ticks \subseteq rec'[p].todo \cup submitted' \cup slipped'
  BY <1>0, <1>1, <1>2 DEF RecType
<1>4. RecKept(p)'
  <2>1. RecKept(p)
    BY DEF Orderly
  <2> QED
    BY <1>1, <1>3, <2>1 DEF RecKept
<1>5. \A q \in Process : q # p => RecKept(q)'
  <2>1. \A q \in Process : q # p => rec'[q] = rec[q]
    BY <1>0, <1>2
  <2> QED
    BY <1>1, <2>1, RecStays DEF Orderly
<1>6. \A s \in Task : TaskKept(s)'
  BY <1>1, TaskStays DEF Orderly
<1> QED
  BY <1>1, <1>4, <1>5, <1>6 DEF Orderly, Covered

\* The new task has nothing behind it: the backfill has ended.
LEMMA OrderlyInstall ==
    ASSUME TypeInv, TokenInv, Orderly, NEW p \in Process, Install(p)
    PROVE  Orderly'
<1>0. rec \in [Process -> RecType] /\ rec[p] \in RecType /\ installed \in [Process -> Id]
      /\ task \in [Task -> TaskType]
  BY DEF TypeInv, TypeOK, RecType, TaskType
<1> DEFINE id == rec[p].seen.id
<1>1. /\ now' = now /\ since' = since /\ row' = row /\ submitted' = submitted /\ slipped' = slipped
      /\ installed' = [installed EXCEPT ![p] = id] /\ rec' = [rec EXCEPT ![p] = Idle]
      /\ rec[p].pc = "backfill" /\ rec[p].todo = {}
  BY DEF Install, history
<1>2. PICK z \in TasksOf(p) : task' = [task EXCEPT ![z] = Fresh(id)]
  BY SpawnOne DEF Install
<1>3. z \in Task /\ task'[z] = Fresh(id) /\ \A s \in Task : s # z => task'[s] = task[s]
  BY <1>0, <1>2, Owner
<1>4. task'[z].live /\ task'[z].pc = "start"
  BY <1>3 DEF Fresh
<1>5. TaskKept(z)'
  BY <1>1, <1>4 DEF TaskKept, Orderly, RecKept
<1>6. \A s \in Task : TaskKept(s)'
  BY <1>1, <1>3, <1>5, TaskStays DEF Orderly
<1>7. rec[p].seen.status = "ACTIVE" /\ row.status = "ACTIVE" /\ row.id = id
  BY <1>1 DEF TokenInv, Knows, Orderly, RecKept
<1>8. RecKept(p)'
  <2>1. rec'[p] = Idle /\ installed'[p] = id
    BY <1>0, <1>1
  <2> QED
    BY <1>1, <1>7, <2>1, RecIdles
<1>9. \A q \in Process : q # p => RecKept(q)'
  BY <1>0, <1>1, RecStays DEF Orderly
<1> QED
  BY <1>1, <1>6, <1>8, <1>9 DEF Orderly, Covered

\* A task that goes on: every tick it leaves behind is submitted, or has failed.
LEMMA OrderlyTask ==
    ASSUME TypeInv, InTime, Orderly, Undisturbed, NEW s \in Task,
           Start(s) \/ Wake(s) \/ Quit(s) \/ Fire(s) \/ FireStatic(s) \/ FireFails(s) \/ StampFails(s)
    PROVE  Orderly'
<1>0. task \in [Task -> TaskType] /\ task[s] \in TaskType /\ now \in Nat /\ Ticks \subseteq Nat
      /\ task[s].next \in Nat
  BY Times DEF TypeInv, TypeOK, TaskType, Time, Never
<1>1. /\ now' = now /\ since' = since /\ row' = row /\ installed' = installed /\ rec' = rec
      /\ submitted \subseteq submitted' /\ slipped \subseteq slipped'
  BY DEF Start, Wake, Quit, Fire, FireStatic, FireFails, StampFails, history, Slips
<1>2. \A z \in Task : z # s => task'[z] = task[z]
  BY <1>0 DEF Start, Wake, Quit, Fire, FireStatic, FireFails, StampFails
<1>4. TaskKept(s)
  BY DEF Orderly
<1>5. TaskKept(s)'
  <2>1. CASE Start(s)
    <3>1. PICK t \in Ticks : IsNext(t) /\ task' = [task EXCEPT ![s].pc = "wait", ![s].next = t]
      BY <2>1 DEF Start
    <3>2. task'[s].pc = "wait" /\ task'[s].next = t /\ task'[s].live = task[s].live
      BY <1>0, <3>1 DEF TaskType
    <3>3. \A u \in Ticks : ~(t + 1 <= u /\ u <= now)
      BY <1>0, <3>1 DEF IsNext
    <3> QED
      BY <1>1, <1>4, <2>1, <3>2, <3>3 DEF TaskKept, Covered, Start
  <2>2. CASE Quit(s)
    BY <1>4, <2>2 DEF TaskKept, Quit
  <2>3. CASE Wake(s)
    <3>1. task'[s].pc = "fire" /\ task'[s].next = task[s].next /\ task'[s].live = task[s].live
      BY <1>0, <2>3 DEF Wake, TaskType
    <3> QED
      BY <1>1, <1>4, <2>3, <3>1 DEF TaskKept, Covered, Wake
  <2>4. CASE Fire(s) \/ FireStatic(s) \/ FireFails(s)
    <3>1. /\ task[s].pc = "fire" /\ task'[s].pc \in {"start", "stamp"}
          /\ task'[s].next = task[s].next /\ task'[s].live = task[s].live
      BY <1>0, <2>4 DEF Fire, FireStatic, FireFails, TaskType
    <3>2. task[s].next \in submitted' \cup slipped'
      BY <1>4, <3>1, <2>4 DEF Fire, FireStatic, FireFails, Slips, TypeInv
    <3>3. \A t \in Ticks : task[s].next <= t => t = task[s].next \/ task[s].next + 1 <= t
      BY <1>0
    <3> QED
      BY <1>1, <1>4, <3>1, <3>2, <3>3 DEF TaskKept, Covered
  <2>5. CASE StampFails(s)
    <3>1. task[s].pc = "stamp" /\ task'[s].pc = "start" /\ task'[s].live = task[s].live
      BY <1>0, <2>5 DEF StampFails, TaskType
    <3> QED
      BY <1>1, <1>4, <3>1 DEF TaskKept, Covered
  <2> QED
    BY <2>1, <2>2, <2>3, <2>4, <2>5
<1>6. \A z \in Task : TaskKept(z)'
  BY <1>1, <1>2, <1>5, TaskStays DEF Orderly
<1>7. \A p \in Process : RecKept(p)'
  BY <1>1, RecStays DEF Orderly
<1> QED
  BY <1>1, <1>6, <1>7 DEF Orderly, Covered

\* A stamp: every tick from the stamped one on is taken care of, and if it is not
\* the first stamp, every tick from the first one on.
LEMMA OrderlyStamp ==
    ASSUME TypeInv, InTime, Orderly, Undisturbed, NEW s \in Task, Stamp(s)
    PROVE  Orderly'
<1>0. /\ task \in [Task -> TaskType] /\ task[s] \in TaskType /\ row \in RowType /\ TypeOK
      /\ now \in Nat /\ Ticks \subseteq Nat /\ task[s].next \in Ticks /\ task[s].next # Never
      /\ task[s].pc = "stamp"
  BY Times DEF TypeInv, TypeOK, TaskType, Stamp, Never
<1>1. /\ now' = now /\ installed' = installed /\ rec' = rec
      /\ submitted' = submitted /\ slipped' = slipped
      /\ row' = Stamped(row, task[s].next)
      /\ since' = IF since = Never THEN row'.last ELSE since
  BY DEF Stamp
<1>2. \A z \in Task : z # s => task'[z] = task[z]
  BY <1>0 DEF Stamp
<1>3. task'[s].pc = "start" /\ task'[s].live = task[s].live
  BY <1>0 DEF Stamp, TaskType
<1>4. TaskKept(s) /\ task[s].next <= now
  BY <1>0 DEF Orderly, InTime
<1>5. CASE row.status = "ABSENT"
  <2>1. row' = row /\ row.last = Never
    BY <1>1, <1>5 DEF Stamped, TypeInv, TypeOK, NoRow
  <2>2. since' = since
    BY <1>1, <2>1
  <2>3. TaskKept(s)'
    BY <1>0, <1>1, <1>3, <1>4, <2>1, <2>2 DEF TaskKept, Covered
  <2>4. \A z \in Task : TaskKept(z)'
    BY <1>1, <1>2, <2>1, <2>2, <2>3, TaskStays DEF Orderly
  <2>5. \A p \in Process : RecKept(p)'
    BY <1>1, <2>1, <2>2, RecStays DEF Orderly
  <2> QED
    BY <1>1, <2>1, <2>2, <2>4, <2>5 DEF Orderly, Covered
<1>6. CASE row.status # "ABSENT"
  <2>1. /\ row'.last = task[s].next /\ row'.status = row.status /\ row'.id = row.id
        /\ row'.auto = row.auto
    BY <1>0, <1>1, <1>6 DEF Stamped, RowType
  <2>2. since' # Never /\ (since # Never => since' = since) /\ (since = Never => since' = task[s].next)
    BY <1>0, <1>1, <2>1
  <2>3. ASSUME row.auto, NEW t \in Ticks, since' <= t, t <= now PROVE t \in submitted \cup slipped
    BY <1>0, <1>4, <2>2, <2>3 DEF TaskKept, Covered
  <2>4. ASSUME NEW z \in Task PROVE TaskKept(z)'
    <3>1. TaskKept(z)
      BY DEF Orderly
    <3>2. CASE z = s
      BY <1>0, <1>1, <1>3, <1>4, <2>1, <2>3, <3>2 DEF TaskKept
    <3>3. CASE z # s
      BY <1>1, <1>2, <2>1, <2>3, <3>1, <3>3 DEF TaskKept, Covered
    <3> QED
      BY <3>2, <3>3
  <2>5. ASSUME NEW p \in Process PROVE RecKept(p)'
    <3>1. RecKept(p) /\ rec[p].seen.last <= now /\ rec[p].seen.last \in Nat
      BY <1>0, Times DEF Orderly, InTime
    <3>2. ASSUME row.auto PROVE Covered(since', now) /\ Covered(since', rec[p].seen.last)
      <4>1. ASSUME NEW t \in Ticks, t <= rec[p].seen.last PROVE t <= now
        BY <1>0, <3>1, <4>1
      <4> QED
        BY <2>3, <3>2, <4>1 DEF Covered
    <3> QED
      BY <1>1, <2>1, <2>3, <3>1, <3>2 DEF RecKept, Covered
  <2>6. row.auto => Covered(since', task[s].next)
    <3>1. ASSUME NEW t \in Ticks, t <= task[s].next PROVE t <= now
      <4>1. t \in Nat /\ task[s].next \in Nat /\ now \in Nat
        BY <1>0
      <4>2. t <= task[s].next /\ task[s].next <= now
        BY <1>4, <3>1
      <4> QED
        BY <4>1, <4>2
    <3> QED
      BY <2>3, <3>1 DEF Covered
  <2> QED
    BY <1>0, <1>1, <2>1, <2>4, <2>5, <2>6 DEF Orderly, Covered
<1> QED
  BY <1>5, <1>6

\* A launch starts nothing while there is a row; a crash leaves nothing behind.
LEMMA OrderlyProcess ==
    ASSUME TypeInv, TokenInv, Orderly, NEW p \in Process, Launch(p) \/ Crash(p)
    PROVE  Orderly'
<1>0. /\ task \in [Task -> TaskType] /\ rec \in [Process -> RecType]
      /\ installed \in [Process -> Id]
  BY DEF TypeInv, TypeOK, TaskType, RecType
<1>1. /\ now' = now /\ since' = since /\ row' = row /\ submitted' = submitted /\ slipped' = slipped
  BY DEF Launch, Crash, history
<1>2. CASE Launch(p)
  <2>1. rec' = rec /\ installed' = installed
    BY <1>2 DEF Launch
  <2>2. ASSUME NEW s \in Task, task'[s] # task[s] PROVE TaskKept(s)'
    <3>1. kind = "static" /\ task'[s] = Fresh(NoId)
      BY <1>0, <1>2, <2>2, SpawnOne, Owner DEF Launch
    <3>2. since = Never
      BY <3>1 DEF TokenInv, Orderly, NoRow
    <3>3. task'[s].pc = "start" /\ task'[s].live
      BY <3>1 DEF Fresh
    <3> QED
      BY <1>1, <3>2, <3>3 DEF TaskKept
  <2>3. \A s \in Task : TaskKept(s)'
    BY <1>1, <2>2, TaskStays DEF Orderly
  <2>4. \A q \in Process : RecKept(q)'
    BY <1>1, <2>1, RecStays DEF Orderly
  <2> QED
    BY <1>1, <2>3, <2>4 DEF Orderly, Covered
<1>3. CASE Crash(p)
  <2>1. \A s \in Task : task'[s] = task[s] \/ task'[s] = Free
    BY <1>3 DEF Crash
  <2>2. ASSUME NEW s \in Task, task'[s] = Free PROVE TaskKept(s)'
    BY <2>2 DEF TaskKept, Free
  <2>3. \A s \in Task : TaskKept(s)'
    BY <1>1, <2>1, <2>2, TaskStays DEF Orderly
  <2>4. RecKept(p)'
    <3>1. rec'[p] = Idle /\ installed'[p] = NoId
      BY <1>0, <1>3 DEF Crash
    <3> QED
      BY <3>1, RecIdles
  <2>5. ASSUME NEW q \in Process, q # p PROVE RecKept(q)'
    <3>1. rec'[q] = rec[q] /\ installed'[q] = installed[q]
      BY <1>0, <1>3, <2>5 DEF Crash
    <3> QED
      BY <1>1, <3>1, RecStays DEF Orderly
  <2> QED
    BY <1>1, <2>3, <2>4, <2>5 DEF Orderly, Covered
<1> QED
  BY <1>2, <1>3

\* Time passes: a tick that comes due is waited for by every task, or slips
\* because a process is busy.
LEMMA OrderlyPass ==
    ASSUME TypeInv, InTime, Orderly, Undisturbed, Pass
    PROVE  Orderly'
<1>0. /\ now \in Nat /\ Ticks \subseteq Nat /\ TypeOK
      /\ \A s \in Task : task[s].next \in Nat
      /\ now' = now + 1 /\ since' = since /\ row' = row /\ submitted' = submitted
      /\ rec' = rec /\ task' = task /\ installed' = installed
  BY Times DEF TypeInv, TypeOK, Pass, Time, Never
<1>1. slipped \subseteq slipped' /\ ((\E p \in up : Busy(p)) => now' \in slipped' \/ now' \notin Ticks)
  BY DEF Pass, Slips
<1>2. \A t \in Ticks : t <= now' => t <= now \/ t = now'
  BY <1>0
<1>3. CASE \E p \in up : Busy(p)
  <2>1. \A t \in Ticks : t <= now' => t <= now \/ t \in slipped'
    BY <1>1, <1>2, <1>3
  <2>2. ASSUME NEW s \in Task PROVE TaskKept(s)'
    <3>1. TaskKept(s)
      BY DEF Orderly
    <3> QED
      BY <1>0, <1>1, <2>1, <3>1 DEF TaskKept, Covered
  <2>3. ASSUME NEW p \in Process PROVE RecKept(p)'
    <3>1. RecKept(p)
      BY DEF Orderly
    <3> QED
      BY <1>0, <1>1, <2>1, <3>1 DEF RecKept, Covered
  <2> QED
    BY <1>0, <1>1, <2>2, <2>3 DEF Orderly, Covered
<1>4. CASE \A p \in up : ~Busy(p)
  <2>1. ASSUME NEW s \in Task, task[s].pc # "free"
        PROVE  task[s].pc = "wait" /\ task[s].next \in Ticks /\ now < task[s].next
    <3>1. task[s].live
      BY <2>1 DEF Orderly, TaskKept
    <3>2. s[1] \in up
      BY <2>1, Owner DEF TypeInv, Free
    <3>3. s \in TasksOf(s[1])
      BY Owner
    <3>4. ~(task[s].pc = "wait" => task[s].next <= now)
      BY <1>4, <3>1, <3>2, <3>3 DEF Busy
    <3> QED
      BY <1>0, <3>4 DEF TypeInv
  <2>2. ASSUME NEW p \in Process PROVE rec[p].pc = "idle"
    BY <1>4 DEF Busy, TypeInv, Idle
  <2>3. ASSUME NEW s \in Task PROVE TaskKept(s)'
    <3>1. TaskKept(s)
      BY DEF Orderly
    <3>2. CASE task[s].pc = "free"
      BY <1>0, <3>2 DEF TaskKept
    <3>3. CASE task[s].pc # "free"
      <4>1. /\ task[s].pc = "wait" /\ task[s].next \in Ticks /\ now < task[s].next
            /\ \A u \in Ticks : u > now => task[s].next <= u
        BY <2>1, <3>3 DEF InTime
      <4>2. ASSUME NEW t \in Ticks, task[s].next + 1 <= t PROVE ~(t <= now')
        <5>1. t \in Nat /\ task[s].next \in Nat /\ now' = now + 1 /\ now \in Nat
          BY <1>0
        <5> QED
          BY <4>1, <4>2, <5>1
      <4>3. ASSUME NEW t \in Ticks, t = now' PROVE t = task[s].next
        BY <1>0, <4>1, <4>3
      <4> QED
        BY <1>0, <1>1, <1>2, <3>1, <4>1, <4>2, <4>3 DEF TaskKept, Covered
    <3> QED
      BY <3>2, <3>3
  <2>4. ASSUME NEW p \in Process PROVE RecKept(p)'
    BY <1>0, <2>2 DEF Orderly, RecKept
  <2> QED
    BY <1>0, <1>1, <2>3, <2>4 DEF Orderly, Covered
<1> QED
  BY <1>3, <1>4

\* Pausing, resuming and deleting are counted, so that a schedule that is
\* undisturbed after a step was so before it.
LEMMA Disturbed ==
    ASSUME TypeOK, [Next]_vars, Undisturbed'
    PROVE  /\ Undisturbed
           /\ ~Delete /\ \A status \in {"ACTIVE", "PAUSED"} : ~SetStatus(status)
<1>1. happened["status"] \in Nat /\ happened["delete"] \in Nat
  BY DEF TypeOK, Happenings
<1>2. happened' = happened \/ \E h \in Happenings : Happens(h)
  BY DEF Next, vars, Environment, ReconcilerStep, TaskStep, Create, Delete, SetStatus, List,
         Reconcile, BackfillTick, BackfillFails, Install, Start, Wake, Quit, Fire, FireStatic,
         FireFails, Stamp, StampFails, Launch, Crash, Pass, Happenings
<1>3. Undisturbed
  <2>1. /\ happened["status"] <= happened'["status"] /\ happened["delete"] <= happened'["delete"]
    BY <1>1, <1>2, CountersGrow DEF Happenings
  <2> QED
    BY <1>1, <2>1 DEF Undisturbed
<1>4. ASSUME Delete PROVE FALSE
  BY <1>1, <1>4, CountersGrow DEF Delete, Undisturbed, Happenings
<1>5. ASSUME NEW status, SetStatus(status) PROVE FALSE
  BY <1>1, <1>5, CountersGrow DEF SetStatus, Undisturbed, Happenings
<1> QED
  BY <1>3, <1>4, <1>5

\* Every step keeps the ticks.
LEMMA TicksNext ==
    ASSUME Sparse, TypeInv, TokenInv, TickInv, [Next]_vars
    PROVE  TickInv'
<1>1. InTime'
  BY InTimeNext DEF TickInv
<1>2. ASSUME Undisturbed' PROVE Orderly'
  <2>1. /\ Undisturbed /\ Orderly /\ InTime
        /\ ~Delete /\ \A status \in {"ACTIVE", "PAUSED"} : ~SetStatus(status)
    BY <1>2, Disturbed DEF TickInv, TypeInv
  <2>2. ASSUME UNCHANGED vars PROVE Orderly'
    BY <2>1, <2>2 DEF vars, Orderly, TaskKept, RecKept, Covered
  <2> QED
    BY <2>1, <2>2, OrderlyCreate, OrderlyList, OrderlyReconcile, OrderlyBackfill, OrderlyInstall,
       OrderlyTask, OrderlyStamp, OrderlyProcess, OrderlyPass
    DEF Next, Environment, ReconcilerStep, TaskStep
<1> QED
  BY <1>1, <1>2 DEF TickInv

\* At the start no tick has come.
LEMMA TicksInit == Init => TickInv
<1>1. ASSUME Init PROVE TickInv
  <2>1. \A p \in Process : rec[p] = Idle /\ installed[p] = NoId
    BY <1>1 DEF Init
  <2>2. \A s \in Task : task[s] = Free
    BY <1>1 DEF Init
  <2>3. row = NoRow /\ now = 0 /\ since = Never
    BY <1>1 DEF Init
  <2>4. InTime
    BY <2>1, <2>2, <2>3 DEF InTime, Idle, NoRow, Free, Never
  <2>5. (\A s \in Task : TaskKept(s)) /\ \A p \in Process : RecKept(p)
    <3>1. ASSUME NEW s \in Task PROVE TaskKept(s)
      <4>1. task[s].pc = "free"
        BY <2>2 DEF Free
      <4> QED
        BY <4>1 DEF TaskKept
    <3>2. ASSUME NEW p \in Process PROVE RecKept(p)
      <4>1. rec[p].pc = "idle" /\ rec[p].seen = NoRow /\ installed[p] = NoId
        BY <2>1 DEF Idle
      <4> QED
        BY <4>1 DEF RecKept, NoRow
    <3> QED
      BY <3>1, <3>2
  <2> QED
    BY <2>3, <2>4, <2>5 DEF TickInv, Orderly, NoRow
<1> QED
  BY <1>1

\* With an automatic backfill, once a process waits for the next tick, every tick
\* from the first stamped one on has a workflow (dynamic.rs:38), whatever
\* processes crash, race and restart, unless it came due while a process was busy
\* or its submission failed: for every schedule whose ticks are more than a
\* second apart.
THEOREM TicksAreKept == ASSUME Sparse PROVE Spec => []NoTickLost
<1>1. Init => TypeInv /\ TokenInv /\ TickInv
  BY TypedInit, TokensInit, TicksInit
<1>2. TypeInv /\ TokenInv /\ TickInv /\ [Next]_vars => (TypeInv /\ TokenInv /\ TickInv)'
  BY TypedNext, TokensNext, TicksNext
<1>3. TypeInv /\ TickInv => NoTickLost
  <2> SUFFICES ASSUME TypeInv, TickInv, Undisturbed, row.auto, since # Never,
                      NEW p \in up, Waits(p), NEW t \in Ticks, since <= t, t <= now
               PROVE  t \in submitted \cup slipped
    BY DEF NoTickLost
  <2>1. PICK s \in TasksOf(p) : task[s].pc = "wait" /\ task[s].next > now
    BY DEF Waits
  <2>2. s \in Task
    BY Owner DEF TypeInv, TypeOK
  <2>3. TaskKept(s)
    BY <2>2 DEF TickInv, Orderly
  <2>4. t # task[s].next
    <3>1. t \in Nat /\ now \in Nat /\ task[s].next \in Nat
      BY <2>2, Times DEF TypeInv, Time, Never
    <3> QED
      BY <2>1, <3>1
  <2> QED
    BY <2>1, <2>3, <2>4 DEF TaskKept
<1> QED
  BY <1>1, <1>2, <1>3, PTL DEF Spec
=============================================================================
