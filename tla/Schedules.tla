----------------------------- MODULE Schedules -----------------------------
(***************************************************************************)
(* Cron schedules: the table cron_schedules with its REST handlers         *)
(* (internal/server/handler/schedules.go, store/schedules.go) and the      *)
(* scheduler that keeps one entry of the cron library per enabled row      *)
(* (internal/server/scheduler/scheduler.go).                               *)
(*                                                                         *)
(* A handler writes the row and then lets the scheduler reload it.         *)
(* ReloadSchedule holds the scheduler's mutex for the removal of the old   *)
(* entry and for the addition of the new one, not for the reading of the   *)
(* row in between.  A schedule that fires publishes trigger.cron on the    *)
(* bus of module Triggers.                                                 *)
(***************************************************************************)
EXTENDS Triggers

CONSTANTS ScheduleIds,
          Exprs,          \* cron expressions
          SchedRequests,  \* handlers that may run at the same time
          MaxEntries,     \* bound: cron entries ever added
          ScheduledJob    \* the job of the schedules

ASSUME SchedulesAssumption == /\ IsFiniteSet(ScheduleIds)
                              /\ MaxEntries \in Nat
                              /\ Cardinality(ScheduleIds) <= MaxEntries

VARIABLES
    schedRow,    \* cron_schedules: the row, or that it is not there yet or any more
    schedEntry,  \* entries of the scheduler: schedule -> cron entry, 0 for none
    cron,        \* the entries of the cron library
    lastEntry,   \* the last EntryID the library gave out
    schedReq,    \* per handler: where it is
    callback,    \* schedules whose fired entry has published and not yet written back
    disturbed    \* history since the server started: requests or callbacks
                 \* overlapped, a reload failed, the job was deleted, or the
                 \* table had a stale next_run_at from before

schedVars == <<schedRow, schedEntry, cron, lastEntry, schedReq, callback, disturbed>>

ScheduleRow == [is : {"row"}, expr : Exprs, enabled : BOOLEAN, next : BOOLEAN]
Absent(is)  == [is |-> is]
HasRow(s)   == schedRow[s].is = "row"
IdleReload  == [at |-> "idle"]
Quiet       == callback = {} /\ \A q \in SchedRequests : schedReq[q] = IdleReload

(* The types of rows and cron entries; an entry id is used once.           *)
SchedulesTypeOK ==
    /\ schedRow \in [ScheduleIds -> ScheduleRow \cup {Absent("none"), Absent("deleted")}]
    /\ schedEntry \in [ScheduleIds -> 0 .. lastEntry] /\ lastEntry \in 0 .. MaxEntries
    /\ \A e \in cron : e \in [id : 1 .. lastEntry, sched : ScheduleIds, expr : Exprs]
    /\ \A e, f \in cron : e.id = f.id => e = f
    /\ callback \subseteq ScheduleIds /\ disturbed \in BOOLEAN

SchedulesInit ==
    /\ schedRow = [s \in ScheduleIds |-> Absent("none")]
    /\ schedEntry = [s \in ScheduleIds |-> 0] /\ cron = {} /\ lastEntry = 0
    /\ schedReq = [q \in SchedRequests |-> IdleReload]
    /\ callback = {} /\ disturbed = FALSE

-----------------------------------------------------------------------------
(* The handlers up to their write. *)

Busy(q) == callback # {} \/ \E p \in SchedRequests \ {q} : schedReq[p] # IdleReload

(* The write of the row; ReloadSchedule or RemoveSchedule follows.         *)
WriteRow(q, s, row, then) ==
    /\ schedReq[q] = IdleReload
    /\ schedRow' = [schedRow EXCEPT ![s] = row]
    /\ schedReq' = [schedReq EXCEPT ![q] = [at |-> then, sched |-> s]]
    /\ disturbed' = (disturbed \/ Busy(q))
    /\ UNCHANGED <<schedEntry, cron, lastEntry, callback>>

(* The row the store inserts: enabled, not scheduled yet.                  *)
InsertedRow(x) == [is |-> "row", expr |-> x, enabled |-> TRUE, next |-> FALSE]

CreateSchedule(q, s) ==
    /\ schedRow[s].is = "none"
    /\ \E x \in Exprs : WriteRow(q, s, InsertedRow(x), "remove")

(* The store's UpdateSchedule clears next_run_at.                          *)
UpdatedRow(row, x) == [row EXCEPT !.expr = x, !.next = FALSE]

UpdateSchedule(q, s) ==
    /\ HasRow(s)
    /\ \E x \in Exprs : WriteRow(q, s, UpdatedRow(schedRow[s], x), "remove")

(* SetScheduleEnabled clears next_run_at when it disables.                 *)
SetScheduleEnabled(row, on) == [row EXCEPT !.enabled = on, !.next = on /\ @]

(* PauseSchedule and ResumeSchedule.                                       *)
setEnabled(q, s) ==
    /\ HasRow(s)
    /\ \E on \in BOOLEAN : WriteRow(q, s, SetScheduleEnabled(schedRow[s], on), "remove")

DeleteSchedule(q, s) == HasRow(s) /\ WriteRow(q, s, Absent("deleted"), "unregister")

(* DeleteJob: the rows go with the job, the scheduler is not told.         *)
DeleteScheduledJob ==
    /\ \E s \in ScheduleIds : HasRow(s)
    /\ schedRow' = [s \in ScheduleIds |-> Absent("deleted")]
    /\ disturbed' = TRUE
    /\ UNCHANGED <<schedEntry, cron, lastEntry, schedReq, callback>>

-----------------------------------------------------------------------------
(* The scheduler. *)

(* The entry of s that the map names leaves the library and the map.       *)
Mutant_RemoveEntry(s) ==
    /\ cron' = {e \in cron : e.id # schedEntry[s]}
    /\ UNCHANGED schedEntry

RemoveEntry(s) ==
    /\ cron' = {e \in cron : e.id # schedEntry[s]}
    /\ schedEntry' = [schedEntry EXCEPT ![s] = 0]

Step(q, from, to) ==
    /\ schedReq[q].at = from
    /\ schedReq' = [schedReq EXCEPT ![q] = to]

(* ReloadSchedule, step 1.                                                 *)
ReloadRemove(q) ==
    /\ Step(q, "remove", [at |-> "get", sched |-> schedReq[q].sched])
    /\ RemoveEntry(schedReq[q].sched)
    /\ UNCHANGED <<schedRow, lastEntry, callback, disturbed>>

(* Step 2: the row is read without the mutex.                              *)
GetSchedule(s) == schedRow[s]

ReloadGet(q) ==
    LET s == schedReq[q].sched  sc == GetSchedule(s) IN
    /\ Step(q, "get", IF sc.is = "row" /\ sc.enabled
                      THEN [at |-> "add", sched |-> s, expr |-> sc.expr] ELSE IdleReload)
    /\ UNCHANGED <<schedRow, schedEntry, cron, lastEntry, callback, disturbed>>

(* The reading fails (the client went away): the handler logs it.          *)
ReloadFails(q) ==
    /\ Step(q, "get", IdleReload)
    /\ disturbed' = TRUE
    /\ UNCHANGED <<schedRow, schedEntry, cron, lastEntry, callback>>

(* addEntryLocked: the map names the new entry.                            *)
addEntryLocked(s, x) ==
    /\ lastEntry < MaxEntries /\ lastEntry' = lastEntry + 1
    /\ cron' = cron \cup {[id |-> lastEntry', sched |-> s, expr |-> x]}
    /\ schedEntry' = [schedEntry EXCEPT ![s] = lastEntry']

(* Step 3.                                                                 *)
ReloadAdd(q) ==
    /\ Step(q, "add", [at |-> "persist", sched |-> schedReq[q].sched])
    /\ addEntryLocked(schedReq[q].sched, schedReq[q].expr)
    /\ UNCHANGED <<schedRow, callback, disturbed>>

(* UpdateScheduleTimestamps; a row that is gone is an error, logged.       *)
WithNext(s) == IF HasRow(s) THEN [schedRow EXCEPT ![s].next = TRUE] ELSE schedRow

(* Step 4.                                                                 *)
ReloadPersist(q) ==
    /\ Step(q, "persist", IdleReload)
    /\ schedRow' = WithNext(schedReq[q].sched)
    /\ UNCHANGED <<schedEntry, cron, lastEntry, callback, disturbed>>

RemoveSchedule(q) ==
    /\ Step(q, "unregister", IdleReload)
    /\ RemoveEntry(schedReq[q].sched)
    /\ UNCHANGED <<schedRow, lastEntry, callback, disturbed>>

(* The closure of buildFuncJob: an entry fires and publishes ...           *)
Fire ==
    \E e \in cron :
       /\ e.sched \notin callback
       /\ trigQueue' = Published(<<CronEvent(ScheduledJob)>>)
       /\ callback' = callback \cup {e.sched}
       /\ disturbed' = (disturbed \/ \E q \in SchedRequests : schedReq[q] # IdleReload)
       /\ UNCHANGED <<schedRow, schedEntry, cron, lastEntry, schedReq>>

(* ... and writes the times back.                                          *)
FireWrites(s) ==
    /\ s \in callback
    /\ callback' = callback \ {s}
    /\ schedRow' = WithNext(s)
    /\ UNCHANGED <<schedEntry, cron, lastEntry, schedReq, disturbed, trigQueue>>

ListEnabledSchedules == {s \in ScheduleIds : HasRow(s) /\ schedRow[s].enabled}

(* The server stops and starts again: Start registers the enabled rows.    *)
Restart ==
    LET on == ListEnabledSchedules IN
    /\ \E number \in [on -> 1 .. Cardinality(on)] :
          /\ \A s, t \in on : number[s] = number[t] => s = t
          /\ lastEntry' = Cardinality(on)
          /\ schedEntry' = [s \in ScheduleIds |-> IF s \in on THEN number[s] ELSE 0]
          /\ cron' = {[id |-> number[s], sched |-> s, expr |-> schedRow[s].expr] : s \in on}
    /\ schedRow' = [s \in ScheduleIds |-> IF s \in on THEN [schedRow[s] EXCEPT !.next = TRUE] ELSE schedRow[s]]
    /\ schedReq' = [q \in SchedRequests |-> IdleReload]
    /\ callback' = {}
    /\ disturbed' = \E s \in ScheduleIds : HasRow(s) /\ ~schedRow[s].enabled /\ schedRow[s].next
    /\ trigQueue' = <<>>

SchedulerStep(q) ==
    \/ ReloadRemove(q) \/ ReloadGet(q) \/ ReloadFails(q) \/ ReloadAdd(q) \/ ReloadPersist(q)
    \/ RemoveSchedule(q)

SchedulesNext ==
    \/ /\ \/ \E q \in SchedRequests, s \in ScheduleIds :
                CreateSchedule(q, s) \/ UpdateSchedule(q, s) \/ setEnabled(q, s) \/ DeleteSchedule(q, s)
          \/ DeleteScheduledJob
          \/ \E q \in SchedRequests : SchedulerStep(q)
       /\ UNCHANGED trigVars
    \/ /\ Fire \/ (\E s \in ScheduleIds : FireWrites(s)) \/ Restart
       /\ UNCHANGED <<triggers, trigWork, trigRuns, trigManual, trigEdits>>

-----------------------------------------------------------------------------
(* Properties. *)

(* When requests follow each other and nothing failed since the server     *)
(* started, every enabled row has exactly one cron entry, with the row's   *)
(* present expression and known to the map, no other row has one, and a    *)
(* disabled row shows no next run.                                         *)
EntriesFollowRows ==
    Quiet /\ ~disturbed =>
       \A s \in ScheduleIds :
          LET mine == {e \in cron : e.sched = s} IN
          IF HasRow(s) /\ schedRow[s].enabled
          THEN mine = {[id |-> schedEntry[s], sched |-> s, expr |-> schedRow[s].expr]}
          ELSE mine = {} /\ schedEntry[s] = 0 /\ (HasRow(s) => ~schedRow[s].next)

(* Even when reloads overlap, an entry the map names exists in the library *)
(* and belongs to its schedule: a later removal stops that schedule and no *)
(* other one.                                                              *)
EntryIsOwn ==
    \A s \in ScheduleIds :
       schedEntry[s] # 0 => \E e \in cron : e.id = schedEntry[s] /\ e.sched = s

(* "Package scheduler provides cron-based job scheduling", and its rows    *)
(* are updated "after triggering a run": once the subscriber has the event *)
(* of a schedule of the job, and the job has an enabled trigger for it,    *)
(* the job runs.                                                           *)
ScheduledJobRuns ==
    (/\ \E i \in DOMAIN trigQueue : trigQueue[i] = CronEvent(ScheduledJob)
     /\ \E t \in Rows : triggers[t] = CreateJobTrigger(ScheduledJob, Type("trigger", "cron")))
        ~> ScheduledJob \in trigRuns

(* The entries of the cron library follow the rows, and none is mistaken   *)
(* for that of another schedule (ReloadSchedule, RemoveSchedule).          *)
SchedulesInv == SchedulesTypeOK /\ EntriesFollowRows /\ EntryIsOwn
=============================================================================
