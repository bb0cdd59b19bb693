------------------------------ MODULE Scheduler ------------------------------
(***************************************************************************)
(* Workflows that are started by the clock.  A schedule is either static,  *)
(* one task per process that waits for the next tick of its cron           *)
(* expression and submits a workflow, or a row of workflow_schedules,      *)
(* which can be created, paused, resumed and deleted: the reconciler of    *)
(* every process polls the table and keeps one firing task per active      *)
(* schedule.  Both name the workflow after the tick, so that a tick that   *)
(* several processes submit is one workflow.                               *)
(*                                                                         *)
(* One schedule name (others are independent of it); its rows have         *)
(* different schedule_ids.  A shutdown is a crash after the fires have     *)
(* ended.  What becomes of a workflow once it is submitted is in           *)
(* WorkflowExecution.                                                      *)
(***************************************************************************)
EXTENDS Integers, FiniteSets

CONSTANTS Process,
          Slots,       \* firing tasks a process may have, those that wind down included
          Autos,       \* what automatic_backfill may be
          Kinds,       \* what the schedule may be: "static", "dynamic"
          Ticks,       \* the times of the cron expression
          Second,      \* a second, in units of the clock
          Horizon,     \* the end of time
          Bounds       \* what may happen in one behaviour, and how often

Happenings == {"create", "status", "delete", "crash", "failure"}

ASSUME SchedulerAssumption ==
    /\ Kinds \subseteq {"static", "dynamic"}
    /\ Slots \in Nat /\ Autos \subseteq BOOLEAN
    /\ Ticks \subseteq Nat \ {0}
    /\ Second \in Nat \ {0} /\ Horizon \in Nat
    /\ Bounds \subseteq [Happenings -> Nat]

Never == 0     \* no time: ticks are later
NoId == 0      \* no schedule_id

Slot == 1..Slots
Task == Process \X Slot
TasksOf(p) == {p} \X Slot

VARIABLES kind,       \* static or dynamic
          now,        \* the clock
          row,        \* the row of workflow_schedules
          submitted,  \* the ticks with a workflow
          up,         \* the processes that are launched
          rec,        \* the reconciler of each process
          installed,  \* Scheduler.installed of each process: the schedule_id
          task,       \* the firing tasks
          told,       \* history: the processes that have noticed the row as it is now
          slipped,    \* history: the ticks that came due while a process was busy, and
          since,      \* the first tick that was stamped, as long as they matter
          happened    \* how often each of Happenings has happened

vars == <<kind, now, row, submitted, up, rec, installed, task, told, slipped, since, happened>>
history == <<told, slipped, since>>

NoRow == [id |-> NoId, status |-> "ABSENT", last |-> Never, auto |-> FALSE]
Idle == [pc |-> "idle", seen |-> NoRow, fresh |-> FALSE, todo |-> {}]
Free == [pc |-> "free", id |-> NoId, next |-> Never, live |-> FALSE]

\* The task that is spawned for p, with a token of its own.
Spawn(p, id) ==
    \E n \in Slot :
        /\ task[<<p, n>>] = Free /\ \A m \in Slot : m < n => task[<<p, m>>] # Free
        /\ task' = [task EXCEPT ![<<p, n>>] =
                      [pc |-> "start", id |-> id, next |-> Never, live |-> TRUE]]

Init ==
    /\ kind \in Kinds
    /\ now = 0
    /\ row = NoRow
    /\ submitted = {}
    /\ up = {}
    /\ rec = [p \in Process |-> Idle]
    /\ installed = [p \in Process |-> NoId]
    /\ task = [s \in Task |-> Free]
    /\ told = {}
    /\ slipped = {}
    /\ since = Never
    /\ happened = [h \in Happenings |-> 0]

\* One more of these, if one of the bounds allows it.
Happens(h) ==
    /\ happened' = [happened EXCEPT ![h] = @ + 1]
    /\ \E b \in Bounds : \A k \in Happenings : happened'[k] <= b[k]

\* Nobody has paused, resumed or deleted a schedule.
Undisturbed == happened["status"] = 0 /\ happened["delete"] = 0

Slips(ticks) == slipped' = IF Undisturbed THEN slipped \cup (ticks \cap Ticks) ELSE slipped

------------------------------------------------------------------------------
(* The table and its operations.                                           *)

\* What nobody has noticed yet.
Changed ==
    /\ told' = {}
    /\ rec' = [p \in Process |-> [rec[p] EXCEPT !.fresh = FALSE]]

\* INSERT with a new schedule_id; a second row of the name is refused.
Create ==
    /\ kind = "dynamic" /\ row.status = "ABSENT"
    /\ \E auto \in Autos :
          row' = [id |-> happened["create"] + 1, status |-> "ACTIVE", last |-> Never, auto |-> auto]
    /\ Happens("create") /\ Changed
    /\ UNCHANGED <<kind, now, submitted, up, installed, task, slipped, since>>

\* UPDATE ... SET status = ?, last_fired_at = NULL
WithStatus(r, status) == [r EXCEPT !.status = status, !.last = Never]

\* pause_schedule and resume_schedule
SetStatus(status) ==
    /\ row.status # "ABSENT"
    /\ row' = WithStatus(row, status)
    /\ Happens("status") /\ Changed
    /\ slipped' = {} /\ since' = Never
    /\ UNCHANGED <<kind, now, submitted, up, installed, task>>

Delete ==
    /\ row.status # "ABSENT"
    /\ row' = NoRow
    /\ Happens("delete") /\ Changed
    /\ slipped' = {} /\ since' = Never
    /\ UNCHANGED <<kind, now, submitted, up, installed, task>>

\* (mutant) The stamp is an upsert.
StampedAnyway(r, t) == [r EXCEPT !.last = t, !.id = 1]

\* UPDATE ... SET last_fired_at = ? WHERE schedule_name = ?, whichever row that is.
Stamped(r, t) == IF r.status = "ABSENT" THEN r ELSE [r EXCEPT !.last = t]

------------------------------------------------------------------------------
(* The reconciler.                                                         *)

\* list_schedules; a pass whose list fails is no pass.
List(p) ==
    /\ kind = "dynamic" /\ p \in up /\ rec[p].pc = "idle"
    /\ rec' = [rec EXCEPT ![p] = [pc |-> "listed", seen |-> row, fresh |-> TRUE, todo |-> {}]]
    /\ UNCHANGED <<kind, now, row, submitted, up, installed, task, history, happened>>

\* What is installed is deleted, paused or replaced.
Stale(p) ==
    /\ installed[p] # NoId
    /\ rec[p].seen.status # "ACTIVE" \/ rec[p].seen.id # installed[p]

\* (mutant) The token is not cancelled.
CancelledNowhere(p) == task

\* The tasks once the token of p's installed task is cancelled.
Cancelled(p) == [s \in Task |-> IF s \in TasksOf(p) THEN [task[s] EXCEPT !.live = FALSE] ELSE task[s]]

\* (mutant) Ticks of the last second are left out at either end.
MissedInside(r, end) ==
    IF r.auto /\ r.last # Never THEN {t \in Ticks : r.last + Second < t /\ t + Second < end} ELSE {}

\* The ticks an automatic backfill looks at.
Missed(r, end) ==
    IF r.auto /\ r.last # Never THEN {t \in Ticks : r.last + Second < t /\ t < end} ELSE {}

\* (mutant) The task is cancelled, but the entry stays.
ReconcileKeepsEntry(p) ==
    LET seen == rec[p].seen
    IN  /\ rec[p].pc = "listed"
        /\ task' = IF Stale(p) THEN Cancelled(p) ELSE task
        /\ IF seen.status = "ACTIVE" /\ installed[p] = NoId
           THEN rec' = [rec EXCEPT ![p].pc = "backfill", ![p].todo = Missed(seen, now)] /\ Slips({now})
           ELSE rec' = [rec EXCEPT ![p] = Idle] /\ UNCHANGED slipped
        /\ told' = IF rec[p].fresh THEN told \cup {p} ELSE told
        /\ UNCHANGED <<kind, now, row, submitted, up, installed, since, happened>>

\* The pass after the list: what is stale goes, and a new active schedule is
\* backfilled before it is installed.  A pass without anything to install ends.
Reconcile(p) ==
    LET seen == rec[p].seen
        kept == IF Stale(p) THEN NoId ELSE installed[p]
    IN  /\ rec[p].pc = "listed"
        /\ task' = IF Stale(p) THEN Cancelled(p) ELSE task
        /\ installed' = [installed EXCEPT ![p] = kept]
        /\ IF seen.status = "ACTIVE" /\ kept = NoId
           THEN /\ rec' = [rec EXCEPT ![p].pc = "backfill", ![p].todo = Missed(seen, now)]
                /\ Slips({now})
           ELSE /\ rec' = [rec EXCEPT ![p] = Idle]
                /\ UNCHANGED slipped
        /\ told' = IF rec[p].fresh THEN told \cup {p} ELSE told
        /\ UNCHANGED <<kind, now, row, submitted, up, since, happened>>

\* The next missed tick: submitted, unless it has a workflow already.
BackfillTick(p) ==
    /\ rec[p].pc = "backfill"
    /\ \E t \in rec[p].todo :
          /\ \A u \in rec[p].todo : t <= u
          /\ submitted' = submitted \cup {t}
          /\ rec' = [rec EXCEPT ![p].todo = @ \ {t}]
    /\ UNCHANGED <<kind, now, row, up, installed, task, history, happened>>

\* A failing submission ends the backfill; the schedule is installed all the same.
BackfillFails(p) ==
    /\ rec[p].pc = "backfill" /\ rec[p].todo # {}
    /\ rec' = [rec EXCEPT ![p].todo = {}]
    /\ Slips(rec[p].todo)
    /\ Happens("failure")
    /\ UNCHANGED <<kind, now, row, submitted, up, installed, task, told, since>>

Install(p) ==
    /\ rec[p].pc = "backfill" /\ rec[p].todo = {}
    /\ Spawn(p, rec[p].seen.id)
    /\ installed' = [installed EXCEPT ![p] = rec[p].seen.id]
    /\ rec' = [rec EXCEPT ![p] = Idle]
    /\ UNCHANGED <<kind, now, row, submitted, up, history, happened>>

------------------------------------------------------------------------------
(* The firing tasks.                                                       *)

\* schedule.after(&now).next()
IsNext(t) == t \in Ticks /\ t > now /\ \A u \in Ticks : u > now => t <= u

\* The loop of run_db_schedule and run_schedule: the next tick is computed ...
Start(s) ==
    /\ task[s].pc = "start"
    /\ \E t \in Ticks : IsNext(t) /\ task' = [task EXCEPT ![s].pc = "wait", ![s].next = t]
    /\ UNCHANGED <<kind, now, row, submitted, up, rec, installed, history, happened>>

\* ... and waited for, unless the token is cancelled first.  What happens to
\* the token from here on does not matter to this tick.
Wake(s) ==
    /\ task[s].pc = "wait" /\ task[s].live /\ now >= task[s].next
    /\ task' = [task EXCEPT ![s].pc = "fire"]
    /\ UNCHANGED <<kind, now, row, submitted, up, rec, installed, history, happened>>

Quit(s) ==
    /\ task[s].pc \in {"start", "wait"} /\ ~task[s].live
    /\ task' = [task EXCEPT ![s] = Free]
    /\ UNCHANGED <<kind, now, row, submitted, up, rec, installed, history, happened>>

\* The workflow of the tick is submitted; a static schedule has nothing to stamp.
Fire(s) ==
    /\ task[s].pc = "fire" /\ kind = "dynamic"
    /\ submitted' = submitted \cup {task[s].next}
    /\ task' = [task EXCEPT ![s].pc = "stamp"]
    /\ UNCHANGED <<kind, now, row, up, rec, installed, history, happened>>

FireStatic(s) ==
    /\ task[s].pc = "fire" /\ kind = "static"
    /\ submitted' = submitted \cup {task[s].next}
    /\ task' = [task EXCEPT ![s].pc = "start"]
    /\ UNCHANGED <<kind, now, row, up, rec, installed, history, happened>>

FireFails(s) ==
    /\ task[s].pc = "fire"
    /\ task' = [task EXCEPT ![s].pc = "start"]
    /\ Slips({task[s].next})
    /\ Happens("failure")
    /\ UNCHANGED <<kind, now, row, submitted, up, rec, installed, told, since>>

Stamp(s) ==
    /\ task[s].pc = "stamp"
    /\ row' = Stamped(row, task[s].next)
    /\ task' = [task EXCEPT ![s].pc = "start"]
    /\ since' = IF Undisturbed /\ since = Never THEN row'.last ELSE since
    /\ UNCHANGED <<kind, now, submitted, up, rec, installed, told, slipped, happened>>

StampFails(s) ==
    /\ task[s].pc = "stamp"
    /\ task' = [task EXCEPT ![s].pc = "start"]
    /\ Happens("failure")
    /\ UNCHANGED <<kind, now, row, submitted, up, rec, installed, history>>

------------------------------------------------------------------------------
(* Processes and time.                                                     *)

\* launch spawns the reconciler and a task per static schedule.
Launch(p) ==
    /\ p \notin up
    /\ up' = up \cup {p}
    /\ IF kind = "static"
       THEN Spawn(p, NoId)
       ELSE UNCHANGED task
    /\ UNCHANGED <<kind, now, row, submitted, rec, installed, history, happened>>

Crash(p) ==
    /\ p \in up /\ Happens("crash")
    /\ up' = up \ {p}
    /\ rec' = [rec EXCEPT ![p] = Idle]
    /\ installed' = [installed EXCEPT ![p] = NoId]
    /\ task' = [s \in Task |-> IF s \in TasksOf(p) THEN Free ELSE task[s]]
    /\ told' = told \ {p}
    /\ UNCHANGED <<kind, now, row, submitted, slipped, since>>

\* A process that neither waits for the next tick nor has its list still to come.
Busy(p) ==
    \/ rec[p].pc # "idle"
    \/ \E s \in TasksOf(p) : task[s].live /\ (task[s].pc = "wait" => task[s].next <= now)

Pass ==
    /\ now < Horizon
    /\ now' = now + 1
    /\ IF \E p \in up : Busy(p) THEN Slips({now'}) ELSE UNCHANGED slipped
    /\ UNCHANGED <<kind, row, submitted, up, rec, installed, task, told, since, happened>>

------------------------------------------------------------------------------
ReconcilerStep(p) == List(p) \/ Reconcile(p) \/ BackfillTick(p) \/ Install(p)

TaskStep(s) == Start(s) \/ Wake(s) \/ Quit(s) \/ Fire(s) \/ FireStatic(s) \/ Stamp(s)

Environment ==
    \/ Create \/ Delete \/ \E status \in {"ACTIVE", "PAUSED"} : SetStatus(status)
    \/ \E p \in Process : BackfillFails(p) \/ Crash(p)
    \/ \E s \in Task : FireFails(s) \/ StampFails(s)

Next ==
    \/ \E p \in Process : ReconcilerStep(p) \/ Launch(p)
    \/ \E s \in Task : TaskStep(s)
    \/ Pass
    \/ Environment

Spec == Init /\ [][Next]_vars

\* The reconcilers poll, tasks go on, processes are restarted and time passes;
\* nobody has to create or pause anything, to fail or to crash.
Fairness ==
    /\ \A p \in Process : /\ WF_vars(ReconcilerStep(p) \/ Launch(p))
                          /\ WF_vars(\E s \in TasksOf(p) : TaskStep(s))
    /\ WF_vars(Pass)

FairSpec == Spec /\ Fairness

------------------------------------------------------------------------------
(* Properties.                                                             *)

Id == 0..happened["create"]
Time == Ticks \cup {Never}

RowType == [id : Id, status : {"ABSENT", "ACTIVE", "PAUSED"}, last : Time, auto : BOOLEAN]

\* Every variable has its type; what is deleted leaves nothing behind.
TypeOK ==
    /\ kind \in Kinds
    /\ now \in Nat
    /\ row \in RowType /\ (row.status = "ABSENT" => row = NoRow)
    /\ submitted \subseteq Ticks
    /\ up \subseteq Process
    /\ rec \in [Process -> [pc : {"idle", "listed", "backfill"}, seen : RowType,
                            fresh : BOOLEAN, todo : SUBSET Ticks]]
    /\ installed \in [Process -> Id]
    /\ task \in [Task -> [pc : {"free", "start", "wait", "fire", "stamp"}, id : Id,
                          next : Time, live : BOOLEAN]]
    /\ told \subseteq up
    /\ slipped \subseteq Ticks
    /\ since \in Time
    /\ happened \in [Happenings -> Nat]

\* A process has one task that may still wake up, that of the schedule_id it has
\* installed: what was deleted, paused or replaced meanwhile has been cancelled,
\* whatever the table has become since the list was taken.  "The reconciler
\* removes its firing task within one poll" (dynamic.rs:121): a process that has
\* noticed that a schedule was paused, deleted or replaced does not wake up for
\* it any more; a tick it has woken up for it may submit.
OneTaskFires ==
    /\ kind = "dynamic" => \A s, t \in Task :
          /\ task[s].live => installed[s[1]] = task[s].id
          /\ task[s].live /\ task[t].live /\ s[1] = t[1] => s = t
    /\ \A p \in told : \A s \in TasksOf(p) :
          task[s].live => row.status = "ACTIVE" /\ row.id = task[s].id

Waits(p) == \E s \in TasksOf(p) : task[s].live /\ task[s].pc = "wait" /\ task[s].next > now

\* "Backfill missed ticks since last_fired_at when the schedule is (re)installed"
\* (dynamic.rs:38): once a process waits for the next tick, every tick from the
\* first stamped one on has a workflow, although processes crash, race and
\* restart.  The exceptions are ticks that came due while a process was busy (a
\* task looks for the next tick only when the one before is submitted and
\* stamped, and a new one when the backfill has ended), and ticks whose
\* submission failed.
NoTickLost ==
    /\ Undisturbed /\ row.auto /\ since # Never
    /\ \E p \in up : Waits(p)
    => \A t \in Ticks : since <= t /\ t <= now => t \in submitted \cup slipped

\* The tasks follow the table, and their ticks: in the end every process has a
\* task for the schedule that is active, and no other one, and no task hangs on
\* a tick that is past.
Follows ==
    kind = "dynamic" =>
        <>[]\A p \in Process :
            /\ installed[p] = IF row.status = "ACTIVE" THEN row.id ELSE NoId
            /\ \A s \in TasksOf(p) : task[s].pc # "free" => task[s].id = row.id /\ Waits(p)
            /\ row.status = "ACTIVE" => Waits(p)
==============================================================================
