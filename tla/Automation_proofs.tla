------------------------- MODULE Automation_proofs --------------------------
(***************************************************************************)
(* Proofs about the automation of jobs: the cron entries of the schedules  *)
(* and the editing of jobs and steps by several users at once.  Each part  *)
(* states the specification of its component alone, its inductive          *)
(* invariant, one lemma per action, and the theorem.                       *)
(***************************************************************************)
EXTENDS Schedules, JobEditor, FiniteSetTheorems, NaturalsInduction, WellFoundedInduction, TLAPS

(* Schedules.                                                              *)

SchedulesSpec == SchedulesInit /\ [][SchedulesNext]_schedVars

(* Where a handler is: the reload of a schedule, step by step, with the    *)
(* expression it read once it has read the row.                            *)
ReloadAt  == [at : {"remove", "get", "persist", "unregister"}, sched : ScheduleIds]
ReloadAdds == [at : {"add"}, sched : ScheduleIds, expr : Exprs]
Reloads   == {IdleReload} \cup ReloadAt \cup ReloadAdds
ScRows    == ScheduleRow \cup {Absent("none"), Absent("deleted")}
CronEntries == [id : Nat \ {0}, sched : ScheduleIds, expr : Exprs]

ScTypes ==
    /\ schedRow \in [ScheduleIds -> ScRows]
    /\ lastEntry \in Nat /\ lastEntry <= MaxEntries
    /\ schedEntry \in [ScheduleIds -> Nat]
    /\ \A s \in ScheduleIds : schedEntry[s] <= lastEntry
    /\ cron \subseteq CronEntries
    /\ \A e \in cron : e.id <= lastEntry
    /\ schedReq \in [SchedRequests -> Reloads]
    /\ callback \subseteq ScheduleIds /\ disturbed \in BOOLEAN

(* The library gives an entry id once.                                     *)
IdsOnce == \A e, f \in cron : e.id = f.id => e = f

(* Of one schedule: the library has an entry for it exactly when its row   *)
(* is there and enabled ...                                                *)
On(s)     == HasRow(s) /\ schedRow[s].enabled
NoEntry(s) == schedEntry[s] = 0 /\ \A e \in cron : e.sched # s
OwnEntry(s) == /\ [id |-> schedEntry[s], sched |-> s, expr |-> schedRow[s].expr] \in cron
               /\ \A e \in cron : e.sched = s =>
                     e = [id |-> schedEntry[s], sched |-> s, expr |-> schedRow[s].expr]
NoStaleTime(s) == HasRow(s) /\ ~schedRow[s].enabled => ~schedRow[s].next
Follows(s) == /\ On(s) => OwnEntry(s)
              /\ ~On(s) => NoEntry(s)
              /\ NoStaleTime(s)
(* ... or a reload is on its way to that.  Until the old entry is removed  *)
(* the map still names the only one.                                       *)
OnlyNamed(s) == \A e \in cron : e.sched = s => e.id = schedEntry[s]

Phase(q, s) ==
    /\ schedReq[q].at = "remove" => OnlyNamed(s) /\ HasRow(s) /\ NoStaleTime(s)
    /\ schedReq[q].at = "get" => NoEntry(s) /\ HasRow(s) /\ NoStaleTime(s)
    /\ schedReq[q].at = "add" => NoEntry(s) /\ On(s) /\ schedRow[s].expr = schedReq[q].expr
    /\ schedReq[q].at = "persist" => On(s) /\ OwnEntry(s)
    /\ schedReq[q].at = "unregister" => OnlyNamed(s) /\ ~HasRow(s)

(* As long as nothing overlapped, one reload at most is under way and only *)
(* its schedule may be out of step; a callback is that of an enabled row.  *)
OneAtATime ==
    /\ \A p, q \in SchedRequests :
          schedReq[p] # IdleReload /\ schedReq[q] # IdleReload => p = q
    /\ callback # {} => \A q \in SchedRequests : schedReq[q] = IdleReload

InStep ==
    \A s \in ScheduleIds :
       \/ Follows(s)
       \/ \E q \in SchedRequests : schedReq[q] # IdleReload /\ schedReq[q].sched = s

ReloadsUnderWay ==
    \A q \in SchedRequests : schedReq[q] # IdleReload => Phase(q, schedReq[q].sched)

Undisturbed == ~disturbed => /\ OneAtATime /\ InStep /\ ReloadsUnderWay
                             /\ \A s \in callback : On(s)

ScInd == ScTypes /\ IdsOnce /\ EntryIsOwn /\ Undisturbed

-----------------------------------------------------------------------------
LEMMA IdleIs == /\ IdleReload.at = "idle" /\ IdleReload \in Reloads
                /\ \A r \in Reloads : r.at = "idle" <=> r = IdleReload
                /\ \A r \in Reloads : r # IdleReload => r.sched \in ScheduleIds
                /\ \A r \in Reloads : r.at = "add" => r.expr \in Exprs
<1>1. IdleReload.at = "idle" /\ IdleReload \in Reloads
  BY DEF IdleReload, Reloads
<1>2. ASSUME NEW r \in ReloadAt
      PROVE  r.at # "idle" /\ r.at # "add" /\ r # IdleReload /\ r.sched \in ScheduleIds
  BY DEF ReloadAt, IdleReload
<1>3. ASSUME NEW r \in ReloadAdds
      PROVE  r.at # "idle" /\ r # IdleReload /\ r.sched \in ScheduleIds /\ r.expr \in Exprs
  BY DEF ReloadAdds, IdleReload
<1>4. QED
  BY <1>1, <1>2, <1>3 DEF Reloads, IdleReload

LEMMA RowIs == /\ \A r \in ScRows : r.is = "row" <=> r \in ScheduleRow
               /\ \A r \in ScheduleRow : /\ r.is = "row" /\ r.expr \in Exprs
                                         /\ r.enabled \in BOOLEAN /\ r.next \in BOOLEAN
               /\ Absent("none").is = "none" /\ Absent("deleted").is = "deleted"
               /\ Absent("none") \in ScRows /\ Absent("deleted") \in ScRows
<1>1. Absent("none").is = "none" /\ Absent("deleted").is = "deleted"
  BY DEF Absent
<1>2. \A r \in ScheduleRow : /\ r.is = "row" /\ r.expr \in Exprs
                             /\ r.enabled \in BOOLEAN /\ r.next \in BOOLEAN
  BY DEF ScheduleRow
<1>3. QED
  BY <1>1, <1>2 DEF ScRows

(* What the invariant means for the properties.                            *)
LEMMA ScStrong == ScInd => SchedulesInv
<1> SUFFICES ASSUME ScInd PROVE SchedulesInv
  OBVIOUS
<1>1. SchedulesTypeOK
  <2>1. schedRow \in [ScheduleIds -> ScheduleRow \cup {Absent("none"), Absent("deleted")}]
    BY DEF ScInd, ScTypes, ScRows
  <2>2. schedEntry \in [ScheduleIds -> 0 .. lastEntry] /\ lastEntry \in 0 .. MaxEntries
    <3>1. \A s \in ScheduleIds : schedEntry[s] \in 0 .. lastEntry
      BY DEF ScInd, ScTypes
    <3>2. lastEntry \in 0 .. MaxEntries
      BY SchedulesAssumption DEF ScInd, ScTypes
    <3>3. QED
      BY <3>1, <3>2 DEF ScInd, ScTypes
  <2>3. \A e \in cron : e \in [id : 1 .. lastEntry, sched : ScheduleIds, expr : Exprs]
    <3> SUFFICES ASSUME NEW e \in cron
                 PROVE  e \in [id : 1 .. lastEntry, sched : ScheduleIds, expr : Exprs]
      OBVIOUS
    <3>1. e \in CronEntries /\ e.id <= lastEntry /\ lastEntry \in Nat
      BY DEF ScInd, ScTypes
    <3>2. e.id \in Nat \ {0}
      BY <3>1 DEF CronEntries
    <3>3. e.id \in 1 .. lastEntry
      BY <3>1, <3>2
    <3>4. QED
      BY <3>1, <3>3 DEF CronEntries
  <2>4. QED
    BY <2>1, <2>2, <2>3 DEF ScInd, ScTypes, IdsOnce, SchedulesTypeOK
<1>2. EntriesFollowRows
  <2> SUFFICES ASSUME Quiet, ~disturbed, NEW s \in ScheduleIds
               PROVE  IF HasRow(s) /\ schedRow[s].enabled
                      THEN {e \in cron : e.sched = s}
                             = {[id |-> schedEntry[s], sched |-> s, expr |-> schedRow[s].expr]}
                      ELSE /\ {e \in cron : e.sched = s} = {} /\ schedEntry[s] = 0
                           /\ (HasRow(s) => ~schedRow[s].next)
    BY DEF EntriesFollowRows
  <2>1. Follows(s)
    BY DEF ScInd, Undisturbed, InStep, Quiet
  <2>2. CASE On(s)
    <3> DEFINE r == [id |-> schedEntry[s], sched |-> s, expr |-> schedRow[s].expr]
    <3>1. r \in cron /\ \A e \in cron : e.sched = s => e = r
      BY <2>1, <2>2 DEF Follows, OwnEntry
    <3>2. r.sched = s
      OBVIOUS
    <3> HIDE DEF r
    <3>3. {e \in cron : e.sched = s} = {r}
      BY <3>1, <3>2
    <3>4. QED
      BY <3>3, <2>2 DEF r, On
  <2>3. CASE ~On(s)
    BY <2>1, <2>3 DEF Follows, NoEntry, On, NoStaleTime
  <2>4. QED
    BY <2>2, <2>3
<1>3. QED
  BY <1>1, <1>2 DEF ScInd, SchedulesInv

LEMMA ScInit == SchedulesInit => ScInd
<1> SUFFICES ASSUME SchedulesInit PROVE ScInd
  OBVIOUS
<1>1. ScTypes
  <2>1. schedRow \in [ScheduleIds -> ScRows]
    BY RowIs DEF SchedulesInit
  <2>2. schedReq \in [SchedRequests -> Reloads]
    BY IdleIs DEF SchedulesInit
  <2>3. lastEntry \in Nat /\ lastEntry <= MaxEntries
    BY SchedulesAssumption DEF SchedulesInit
  <2>4. schedEntry \in [ScheduleIds -> Nat] /\ \A s \in ScheduleIds : schedEntry[s] <= lastEntry
    BY DEF SchedulesInit
  <2>5. QED
    BY <2>1, <2>2, <2>3, <2>4 DEF SchedulesInit, ScTypes
<1>2. IdsOnce /\ EntryIsOwn
  BY DEF SchedulesInit, IdsOnce, EntryIsOwn
<1>3. \A s \in ScheduleIds : ~HasRow(s) /\ Follows(s)
  BY RowIs DEF SchedulesInit, Follows, On, HasRow, NoEntry, NoStaleTime
<1>4. Undisturbed
  BY <1>3 DEF SchedulesInit, Undisturbed, OneAtATime, InStep, ReloadsUnderWay
<1>5. QED
  BY <1>1, <1>2, <1>4 DEF ScInd

(* Frames: what is said of one schedule depends on its row, on what the    *)
(* map names for it and on its own entries.                                *)
LEMMA SameSchedule ==
    ASSUME NEW s \in ScheduleIds,
           schedRow'[s] = schedRow[s], schedEntry'[s] = schedEntry[s],
           \A e \in cron' : e.sched = s => e \in cron,
           \A e \in cron : e.sched = s => e \in cron'
    PROVE  /\ Follows(s)' <=> Follows(s)
           /\ On(s)' <=> On(s)
           /\ HasRow(s)' <=> HasRow(s)
           /\ NoEntry(s)' <=> NoEntry(s)
           /\ OwnEntry(s)' <=> OwnEntry(s)
           /\ OnlyNamed(s)' <=> OnlyNamed(s)
           /\ NoStaleTime(s)' <=> NoStaleTime(s)
<1> DEFINE r == [id |-> schedEntry[s], sched |-> s, expr |-> schedRow[s].expr]
<1>1. HasRow(s)' <=> HasRow(s)
  BY DEF HasRow
<1>2. On(s)' <=> On(s)
  BY <1>1 DEF On
<1>3. NoEntry(s)' <=> NoEntry(s)
  BY DEF NoEntry
<1>4. OwnEntry(s)' <=> OwnEntry(s)
  <2>1. r.sched = s
    OBVIOUS
  <2>2. OwnEntry(s) <=> (r \in cron /\ \A e \in cron : e.sched = s => e = r)
    BY DEF OwnEntry
  <2>3. OwnEntry(s)' <=> (r \in cron' /\ \A e \in cron' : e.sched = s => e = r)
    BY DEF OwnEntry
  <2> HIDE DEF r
  <2>4. QED
    BY <2>1, <2>2, <2>3
<1>5. NoStaleTime(s)' <=> NoStaleTime(s)
  BY <1>1 DEF NoStaleTime
<1>6. OnlyNamed(s)' <=> OnlyNamed(s)
  BY DEF OnlyNamed
<1>7. QED
  BY <1>1, <1>2, <1>3, <1>4, <1>5, <1>6 DEF Follows

(* A handler under way in an undisturbed scheduler is the only one, and    *)
(* every other schedule is in step.                                        *)
LEMMA Alone ==
    ASSUME ScInd, ~disturbed, NEW q \in SchedRequests, schedReq[q] # IdleReload
    PROVE  /\ \A p \in SchedRequests \ {q} : schedReq[p] = IdleReload
           /\ callback = {}
           /\ schedReq[q].sched \in ScheduleIds
           /\ \A t \in ScheduleIds \ {schedReq[q].sched} : Follows(t)
           /\ Phase(q, schedReq[q].sched)
<1>1. OneAtATime /\ InStep /\ ReloadsUnderWay
  BY DEF ScInd, Undisturbed
<1>2. \A p \in SchedRequests \ {q} : schedReq[p] = IdleReload
  BY <1>1 DEF OneAtATime
<1>3. callback = {}
  BY <1>1 DEF OneAtATime
<1>4. schedReq[q].sched \in ScheduleIds
  BY IdleIs DEF ScInd, ScTypes
<1>5. \A t \in ScheduleIds \ {schedReq[q].sched} : Follows(t)
  BY <1>1, <1>2 DEF InStep
<1>6. QED
  BY <1>1, <1>2, <1>3, <1>4, <1>5 DEF ReloadsUnderWay

(* Its next step keeps it the only one, with its schedule, or ends it with *)
(* its schedule in step.                                                   *)
LEMMA AloneSteps ==
    ASSUME ScInd, ~disturbed, NEW q \in SchedRequests, schedReq[q] # IdleReload,
           NEW to \in Reloads, schedReq' = [schedReq EXCEPT ![q] = to],
           UNCHANGED callback,
           \A t \in ScheduleIds \ {schedReq[q].sched} : Follows(t)',
           \/ to = IdleReload /\ \A t \in ScheduleIds : Follows(t)'
           \/ (/\ to # IdleReload /\ to.sched = schedReq[q].sched
               /\ \A s \in ScheduleIds : s = schedReq[q].sched => Phase(q, s)')
    PROVE  Undisturbed'
<1>1. /\ \A p \in SchedRequests \ {q} : schedReq[p] = IdleReload
      /\ callback = {} /\ schedReq[q].sched \in ScheduleIds
  BY Alone
<1>2. /\ schedReq'[q] = to
      /\ \A p \in SchedRequests \ {q} : schedReq'[p] = IdleReload
  BY <1>1 DEF ScInd, ScTypes
<1>3. callback' = {}
  BY <1>1
<1>4. OneAtATime'
  BY <1>2, <1>3 DEF OneAtATime
<1>5. InStep'
  BY <1>2 DEF InStep
<1>6. ReloadsUnderWay'
  <2> SUFFICES ASSUME NEW p \in SchedRequests, schedReq'[p] # IdleReload
               PROVE  Phase(p, schedReq[p].sched)'
    BY DEF ReloadsUnderWay
  <2>1. p = q /\ to # IdleReload
    BY <1>2
  <2>2. PICK s \in ScheduleIds : s = schedReq[q].sched
    BY <1>1
  <2>3. Phase(q, s)' /\ schedReq'[q].sched = s
    BY <2>1, <2>2, <1>2
  <2>4. Phase(q, schedReq[q].sched)'
    BY <2>3 DEF Phase, OnlyNamed, HasRow, NoStaleTime, NoEntry, On, OwnEntry
  <2>5. QED
    BY <2>1, <2>4
<1>7. QED
  BY <1>3, <1>4, <1>5, <1>6 DEF Undisturbed

-----------------------------------------------------------------------------
(* The handlers' writes. *)
LEMMA ScWrite ==
    ASSUME ScInd, NEW q \in SchedRequests, NEW s \in ScheduleIds, NEW row \in ScRows,
           NEW then \in {"remove", "unregister"}, WriteRow(q, s, row, then),
           then = "remove" => row.is = "row" /\ (~row.enabled => ~row.next),
           then = "unregister" => row.is # "row"
    PROVE  ScInd'
<1> DEFINE to == [at |-> then, sched |-> s]
<1>1. /\ schedReq[q] = IdleReload
      /\ schedRow' = [schedRow EXCEPT ![s] = row]
      /\ schedReq' = [schedReq EXCEPT ![q] = to]
      /\ disturbed' = (disturbed \/ Busy(q))
      /\ UNCHANGED <<schedEntry, cron, lastEntry, callback>>
  BY DEF WriteRow
<1>2. to \in Reloads /\ to.sched = s /\ to.at = then /\ to # IdleReload
  BY DEF Reloads, ReloadAt, IdleReload
<1> HIDE DEF to
<1>3. ScTypes'
  BY <1>1, <1>2 DEF ScInd, ScTypes, Busy
<1>4. IdsOnce' /\ EntryIsOwn'
  BY <1>1 DEF ScInd, IdsOnce, EntryIsOwn
<1>5. Undisturbed'
  <2> SUFFICES ASSUME ~disturbed' PROVE OneAtATime' /\ InStep' /\ ReloadsUnderWay' /\ callback' = {}
    BY DEF Undisturbed
  <2>1. ~disturbed /\ callback = {} /\ \A p \in SchedRequests : schedReq[p] = IdleReload
    BY <1>1 DEF Busy
  <2>2. \A t \in ScheduleIds : Follows(t)
    BY <2>1 DEF ScInd, Undisturbed, InStep
  <2>3. /\ schedReq'[q] = to
        /\ \A p \in SchedRequests \ {q} : schedReq'[p] = IdleReload
        /\ schedRow'[s] = row
        /\ \A t \in ScheduleIds \ {s} : schedRow'[t] = schedRow[t]
    BY <1>1, <2>1 DEF ScInd, ScTypes
  <2>4. \A t \in ScheduleIds \ {s} : Follows(t)'
    BY <2>2, <2>3, <1>1, SameSchedule
  <2>5. OnlyNamed(s)
    <3>1. CASE On(s)
      <4> DEFINE r == [id |-> schedEntry[s], sched |-> s, expr |-> schedRow[s].expr]
      <4>1. \A e \in cron : e.sched = s => e = r
        BY <2>2, <3>1 DEF Follows, OwnEntry
      <4>2. r.id = schedEntry[s]
        OBVIOUS
      <4> HIDE DEF r
      <4>3. QED
        BY <4>1, <4>2 DEF OnlyNamed
    <3>2. CASE ~On(s)
      BY <2>2, <3>2 DEF Follows, NoEntry, OnlyNamed
    <3>3. QED
      BY <3>1, <3>2
  <2>6. OnlyNamed(s)'
    BY <2>5, <1>1 DEF OnlyNamed
  <2>7. Phase(q, s)'
    BY <2>3, <2>6, <1>2 DEF Phase, HasRow, NoStaleTime
  <2>8. OneAtATime' /\ InStep' /\ callback' = {}
    BY <2>1, <2>3, <2>4, <1>1, <1>2 DEF OneAtATime, InStep
  <2>9. ReloadsUnderWay'
    <3> SUFFICES ASSUME NEW p \in SchedRequests, schedReq'[p] # IdleReload
                 PROVE  Phase(p, schedReq[p].sched)'
      BY DEF ReloadsUnderWay
    <3>1. p = q /\ schedReq'[q].sched = s
      BY <2>3, <1>2
    <3>2. Phase(q, schedReq[q].sched)'
      BY <3>1, <2>7 DEF Phase, OnlyNamed, HasRow, NoStaleTime, NoEntry, On, OwnEntry
    <3>3. QED
      BY <3>1, <3>2
  <2>10. QED
    BY <2>8, <2>9
<1>6. QED
  BY <1>3, <1>4, <1>5 DEF ScInd

LEMMA ScHandlers ==
    ASSUME ScInd, NEW q \in SchedRequests, NEW s \in ScheduleIds,
           CreateSchedule(q, s) \/ UpdateSchedule(q, s) \/ setEnabled(q, s)
           \/ DeleteSchedule(q, s)
    PROVE  ScInd'
<1>r. schedRow[s] \in ScRows
  BY DEF ScInd, ScTypes
<1>1. CASE CreateSchedule(q, s)
  <2>1. PICK x \in Exprs : WriteRow(q, s, InsertedRow(x), "remove")
    BY <1>1 DEF CreateSchedule
  <2>2. InsertedRow(x) \in ScRows /\ InsertedRow(x).is = "row" /\ InsertedRow(x).enabled
    BY DEF InsertedRow, ScRows, ScheduleRow
  <2>3. QED
    BY <2>1, <2>2, ScWrite
<1>2. CASE UpdateSchedule(q, s)
  <2>1. PICK x \in Exprs : WriteRow(q, s, UpdatedRow(schedRow[s], x), "remove")
    BY <1>2 DEF UpdateSchedule
  <2>2. schedRow[s] \in ScheduleRow
    BY <1>2, <1>r, RowIs DEF UpdateSchedule, HasRow
  <2> DEFINE row == UpdatedRow(schedRow[s], x)
  <2>3. row \in ScheduleRow /\ row.is = "row" /\ ~row.next
    BY <2>2 DEF UpdatedRow, ScheduleRow
  <2>4. row \in ScRows
    BY <2>3 DEF ScRows
  <2> HIDE DEF row
  <2>5. WriteRow(q, s, row, "remove")
    BY <2>1 DEF row
  <2>6. QED
    BY <2>3, <2>4, <2>5, ScWrite
<1>3. CASE setEnabled(q, s)
  <2>1. PICK on \in BOOLEAN : WriteRow(q, s, SetScheduleEnabled(schedRow[s], on), "remove")
    BY <1>3 DEF setEnabled
  <2>2. schedRow[s] \in ScheduleRow
    BY <1>3, <1>r, RowIs DEF setEnabled, HasRow
  <2> DEFINE row == SetScheduleEnabled(schedRow[s], on)
  <2>3. row \in ScheduleRow /\ row.is = "row" /\ row.enabled = on
        /\ row.next = (on /\ schedRow[s].next)
    BY <2>2 DEF SetScheduleEnabled, ScheduleRow
  <2>4. row \in ScRows
    BY <2>3 DEF ScRows
  <2> HIDE DEF row
  <2>5. WriteRow(q, s, row, "remove")
    BY <2>1 DEF row
  <2>6. ~row.enabled => ~row.next
    BY <2>3
  <2>7. QED
    BY <2>3, <2>4, <2>5, <2>6, ScWrite
<1>4. CASE DeleteSchedule(q, s)
  <2>1. WriteRow(q, s, Absent("deleted"), "unregister")
    BY <1>4 DEF DeleteSchedule
  <2>2. Absent("deleted") \in ScRows /\ Absent("deleted").is # "row"
    BY RowIs
  <2>3. QED
    BY <2>1, <2>2, ScWrite
<1>5. QED
  BY <1>1, <1>2, <1>3, <1>4

LEMMA ScDeleteJob ==
    ASSUME ScInd, DeleteScheduledJob
    PROVE  ScInd'
<1>1. /\ schedRow' = [s \in ScheduleIds |-> Absent("deleted")]
      /\ disturbed' = TRUE
      /\ UNCHANGED <<schedEntry, cron, lastEntry, schedReq, callback>>
  BY DEF DeleteScheduledJob
<1>2. schedRow' \in [ScheduleIds -> ScRows]
  BY <1>1, RowIs
<1>3. ScTypes'
  BY <1>1, <1>2 DEF ScInd, ScTypes
<1>4. IdsOnce' /\ EntryIsOwn' /\ Undisturbed'
  BY <1>1 DEF ScInd, IdsOnce, EntryIsOwn, Undisturbed
<1>5. QED
  BY <1>3, <1>4 DEF ScInd

-----------------------------------------------------------------------------
(* The scheduler. *)

(* Removing the entry the map names for s removes no other schedule's.     *)
LEMMA ScRemoved ==
    ASSUME ScInd, NEW s \in ScheduleIds, RemoveEntry(s), UNCHANGED lastEntry
    PROVE  /\ schedEntry' \in [ScheduleIds -> Nat]
           /\ \A t \in ScheduleIds : schedEntry'[t] <= lastEntry
           /\ schedEntry'[s] = 0
           /\ \A t \in ScheduleIds \ {s} : schedEntry'[t] = schedEntry[t]
           /\ cron' \subseteq cron
           /\ \A e \in cron : e.sched # s => e \in cron'
           /\ \A e \in cron' : e.id # schedEntry[s]
           /\ IdsOnce' /\ EntryIsOwn'
<1>1. /\ cron' = {e \in cron : e.id # schedEntry[s]}
      /\ schedEntry' = [schedEntry EXCEPT ![s] = 0]
  BY DEF RemoveEntry
<1>2. /\ schedEntry' \in [ScheduleIds -> Nat]
      /\ schedEntry'[s] = 0
      /\ \A t \in ScheduleIds \ {s} : schedEntry'[t] = schedEntry[t]
  BY <1>1 DEF ScInd, ScTypes
<1>3. \A t \in ScheduleIds : schedEntry'[t] <= lastEntry
  BY <1>2 DEF ScInd, ScTypes
<1>4. ASSUME NEW e \in cron, e.sched # s PROVE e \in cron'
  <2> SUFFICES ASSUME e.id = schedEntry[s] PROVE FALSE
    BY <1>1
  <2>1. e.id # 0
    BY DEF ScInd, ScTypes, CronEntries
  <2>2. PICK f \in cron : f.id = schedEntry[s] /\ f.sched = s
    BY <2>1 DEF ScInd, EntryIsOwn
  <2>3. QED
    BY <2>2, <1>4 DEF ScInd, IdsOnce
<1>5. IdsOnce'
  BY <1>1 DEF ScInd, IdsOnce
<1>6. EntryIsOwn'
  <2> SUFFICES ASSUME NEW t \in ScheduleIds, schedEntry'[t] # 0
               PROVE  \E e \in cron' : e.id = schedEntry'[t] /\ e.sched = t
    BY DEF EntryIsOwn
  <2>1. t # s /\ schedEntry'[t] = schedEntry[t]
    BY <1>2
  <2>2. PICK e \in cron : e.id = schedEntry[t] /\ e.sched = t
    BY <2>1 DEF ScInd, EntryIsOwn
  <2>3. QED
    BY <2>1, <2>2, <1>4
<1>7. QED
  BY <1>1, <1>2, <1>3, <1>4, <1>5, <1>6

(* A step of a handler moves it and nothing else of the handlers.          *)
LEMMA ScStep ==
    ASSUME ScInd, NEW q \in SchedRequests, NEW to, NEW from, Step(q, from, to),
           from # "idle", to \in Reloads
    PROVE  /\ schedReq[q] # IdleReload /\ schedReq[q].at = from
           /\ schedReq[q].sched \in ScheduleIds
           /\ schedReq' = [schedReq EXCEPT ![q] = to]
           /\ schedReq' \in [SchedRequests -> Reloads]
           /\ schedReq'[q] = to
<1>1. schedReq[q] \in Reloads
  BY DEF ScInd, ScTypes
<1>2. schedReq[q] # IdleReload /\ schedReq[q].at = from
  BY <1>1, IdleIs DEF Step
<1>3. QED
  BY <1>1, <1>2, IdleIs DEF Step, ScInd, ScTypes

LEMMA ScReloadRemove ==
    ASSUME ScInd, NEW q \in SchedRequests, ReloadRemove(q)
    PROVE  ScInd'
<1>s. schedReq[q].at = "remove" /\ schedReq[q] \in Reloads
  BY DEF ReloadRemove, Step, ScInd, ScTypes
<1>p. PICK s \in ScheduleIds : s = schedReq[q].sched
  BY <1>s, IdleIs
<1> DEFINE to == [at |-> "get", sched |-> s]
<1>t. to \in Reloads /\ to.at = "get" /\ to.sched = s /\ to # IdleReload
  BY DEF Reloads, ReloadAt, IdleReload
<1>1. /\ Step(q, "remove", to) /\ RemoveEntry(s)
      /\ UNCHANGED <<schedRow, lastEntry, callback, disturbed>>
  BY <1>p DEF ReloadRemove
<1> HIDE DEF to
<1>2. /\ schedReq[q] # IdleReload
      /\ schedReq' = [schedReq EXCEPT ![q] = to]
      /\ schedReq' \in [SchedRequests -> Reloads]
      /\ schedReq'[q] = to
  BY <1>1, <1>t, ScStep
<1>3. /\ schedEntry' \in [ScheduleIds -> Nat]
      /\ \A t \in ScheduleIds : schedEntry'[t] <= lastEntry
      /\ schedEntry'[s] = 0
      /\ \A t \in ScheduleIds \ {s} : schedEntry'[t] = schedEntry[t]
      /\ cron' \subseteq cron
      /\ \A e \in cron : e.sched # s => e \in cron'
      /\ \A e \in cron' : e.id # schedEntry[s]
      /\ IdsOnce' /\ EntryIsOwn'
  BY <1>1, ScRemoved
<1>4. ScTypes'
  BY <1>1, <1>2, <1>3 DEF ScInd, ScTypes
<1>5. Undisturbed'
  <2> SUFFICES ASSUME ~disturbed PROVE Undisturbed'
    BY <1>1 DEF Undisturbed
  <2>1. /\ \A t \in ScheduleIds \ {s} : Follows(t)
        /\ Phase(q, s)
    BY <1>2, <1>p, Alone
  <2>2. \A t \in ScheduleIds \ {s} : Follows(t)'
    BY <2>1, <1>1, <1>3, SameSchedule
  <2>3. OnlyNamed(s) /\ HasRow(s) /\ NoStaleTime(s)
    BY <2>1, <1>s DEF Phase
  <2>4. NoEntry(s)' /\ HasRow(s)' /\ NoStaleTime(s)'
    BY <2>3, <1>1, <1>3 DEF OnlyNamed, NoEntry, HasRow, NoStaleTime
  <2>5. Phase(q, s)'
    BY <2>4, <1>2, <1>t DEF Phase
  <2>6. QED
    BY <2>2, <2>5, <1>1, <1>2, <1>p, <1>t, AloneSteps
<1>6. QED
  BY <1>3, <1>4, <1>5 DEF ScInd

LEMMA ScRemoveSchedule ==
    ASSUME ScInd, NEW q \in SchedRequests, RemoveSchedule(q)
    PROVE  ScInd'
<1>s. schedReq[q].at = "unregister" /\ schedReq[q] \in Reloads
  BY DEF RemoveSchedule, Step, ScInd, ScTypes
<1>p. PICK s \in ScheduleIds : s = schedReq[q].sched
  BY <1>s, IdleIs
<1>1. /\ Step(q, "unregister", IdleReload) /\ RemoveEntry(s)
      /\ UNCHANGED <<schedRow, lastEntry, callback, disturbed>>
  BY <1>p DEF RemoveSchedule
<1>2. /\ schedReq[q] # IdleReload
      /\ schedReq' = [schedReq EXCEPT ![q] = IdleReload]
      /\ schedReq' \in [SchedRequests -> Reloads]
  BY <1>1, IdleIs, ScStep
<1>3. /\ schedEntry' \in [ScheduleIds -> Nat]
      /\ \A t \in ScheduleIds : schedEntry'[t] <= lastEntry
      /\ schedEntry'[s] = 0
      /\ \A t \in ScheduleIds \ {s} : schedEntry'[t] = schedEntry[t]
      /\ cron' \subseteq cron
      /\ \A e \in cron : e.sched # s => e \in cron'
      /\ \A e \in cron' : e.id # schedEntry[s]
      /\ IdsOnce' /\ EntryIsOwn'
  BY <1>1, ScRemoved
<1>4. ScTypes'
  BY <1>1, <1>2, <1>3 DEF ScInd, ScTypes
<1>5. Undisturbed'
  <2> SUFFICES ASSUME ~disturbed PROVE Undisturbed'
    BY <1>1 DEF Undisturbed
  <2>1. /\ \A t \in ScheduleIds \ {s} : Follows(t)
        /\ Phase(q, s)
    BY <1>2, <1>p, Alone
  <2>2. \A t \in ScheduleIds \ {s} : Follows(t)'
    BY <2>1, <1>1, <1>3, SameSchedule
  <2>3. OnlyNamed(s) /\ ~HasRow(s)
    BY <2>1, <1>s DEF Phase
  <2>4. NoEntry(s)' /\ ~HasRow(s)'
    BY <2>3, <1>1, <1>3 DEF OnlyNamed, NoEntry, HasRow
  <2>5. Follows(s)'
    BY <2>4 DEF Follows, On, NoStaleTime
  <2>6. \A t \in ScheduleIds : Follows(t)'
    BY <2>2, <2>5
  <2>7. QED
    BY <2>2, <2>6, <1>1, <1>2, <1>p, IdleIs, AloneSteps
<1>6. QED
  BY <1>3, <1>4, <1>5 DEF ScInd

LEMMA ScReloadGet ==
    ASSUME ScInd, NEW q \in SchedRequests, ReloadGet(q)
    PROVE  ScInd'
<1>s. schedReq[q].at = "get" /\ schedReq[q] \in Reloads
  BY DEF ReloadGet, Step, ScInd, ScTypes
<1>p. PICK s \in ScheduleIds : s = schedReq[q].sched
  BY <1>s, IdleIs
<1> DEFINE add == [at |-> "add", sched |-> s, expr |-> schedRow[s].expr]
<1> DEFINE to == IF On(s) THEN add ELSE IdleReload
<1>r. schedRow[s] \in ScRows
  BY DEF ScInd, ScTypes
<1>a. ASSUME On(s)
      PROVE  /\ add \in Reloads /\ add.at = "add" /\ add.sched = s
             /\ add.expr = schedRow[s].expr /\ add # IdleReload
  <2>1. schedRow[s].expr \in Exprs
    BY <1>a, <1>r, RowIs DEF On, HasRow
  <2>2. QED
    BY <2>1 DEF Reloads, ReloadAdds, IdleReload
<1>t. to \in Reloads
  BY <1>a, IdleIs
<1>1. /\ Step(q, "get", to)
      /\ UNCHANGED <<schedRow, schedEntry, cron, lastEntry, callback, disturbed>>
  BY <1>p DEF ReloadGet, GetSchedule, On, HasRow
<1> HIDE DEF add
<1>u. (On(s) => to = add) /\ (~On(s) => to = IdleReload)
  OBVIOUS
<1> HIDE DEF to
<1>2. /\ schedReq[q] # IdleReload
      /\ schedReq' = [schedReq EXCEPT ![q] = to]
      /\ schedReq' \in [SchedRequests -> Reloads]
      /\ schedReq'[q] = to
  BY <1>1, <1>t, ScStep
<1>3. ScTypes' /\ IdsOnce' /\ EntryIsOwn'
  BY <1>1, <1>2 DEF ScInd, ScTypes, IdsOnce, EntryIsOwn
<1>4. Undisturbed'
  <2> SUFFICES ASSUME ~disturbed PROVE Undisturbed'
    BY <1>1 DEF Undisturbed
  <2>1. /\ \A t \in ScheduleIds \ {s} : Follows(t)
        /\ Phase(q, s)
    BY <1>2, <1>p, Alone
  <2>2. \A t \in ScheduleIds \ {s} : Follows(t)'
    BY <2>1, <1>1, SameSchedule
  <2>3. NoEntry(s) /\ HasRow(s) /\ NoStaleTime(s)
    BY <2>1, <1>s DEF Phase
  <2>4. CASE On(s)
    <3>1. NoEntry(s)' /\ On(s)' /\ schedRow'[s].expr = schedReq'[q].expr
      BY <2>3, <2>4, <1>1, <1>2, <1>a, <1>u DEF NoEntry, On, HasRow
    <3>2. Phase(q, s)'
      BY <3>1, <2>4, <1>2, <1>a, <1>u DEF Phase
    <3>3. to # IdleReload /\ to.sched = schedReq[q].sched
      BY <2>4, <1>a, <1>u, <1>p
    <3>4. \A t \in ScheduleIds : t = schedReq[q].sched => Phase(q, t)'
      BY <3>2, <1>p
    <3>5. \A t \in ScheduleIds \ {schedReq[q].sched} : Follows(t)'
      BY <2>2, <1>p
    <3>6. QED
      BY <3>3, <3>4, <3>5, <1>1, <1>2, <1>t, AloneSteps
  <2>5. CASE ~On(s)
    <3>1. Follows(s)
      BY <2>3, <2>5 DEF Follows
    <3>2. \A t \in ScheduleIds : Follows(t)'
      BY <2>2, <3>1, <1>1, SameSchedule
    <3>3. QED
      BY <3>2, <2>5, <1>1, <1>2, <1>t, <1>u, AloneSteps
  <2>6. QED
    BY <2>4, <2>5
<1>5. QED
  BY <1>3, <1>4 DEF ScInd

LEMMA ScReloadFails ==
    ASSUME ScInd, NEW q \in SchedRequests, ReloadFails(q)
    PROVE  ScInd'
<1>1. /\ Step(q, "get", IdleReload) /\ disturbed' = TRUE
      /\ UNCHANGED <<schedRow, schedEntry, cron, lastEntry, callback>>
  BY DEF ReloadFails
<1>2. schedReq' \in [SchedRequests -> Reloads]
  BY <1>1, IdleIs, ScStep
<1>3. ScTypes' /\ IdsOnce' /\ EntryIsOwn' /\ Undisturbed'
  BY <1>1, <1>2 DEF ScInd, ScTypes, IdsOnce, EntryIsOwn, Undisturbed
<1>4. QED
  BY <1>3 DEF ScInd

LEMMA ScReloadAdd ==
    ASSUME ScInd, NEW q \in SchedRequests, ReloadAdd(q)
    PROVE  ScInd'
<1>s. schedReq[q].at = "add" /\ schedReq[q] \in Reloads
  BY DEF ReloadAdd, Step, ScInd, ScTypes
<1>p. PICK s \in ScheduleIds : s = schedReq[q].sched
  BY <1>s, IdleIs
<1>x. PICK x \in Exprs : x = schedReq[q].expr
  BY <1>s, IdleIs
<1>n. PICK n \in Nat \ {0} : n = lastEntry + 1 /\ n <= MaxEntries
  BY SchedulesAssumption DEF ReloadAdd, addEntryLocked, ScInd, ScTypes
<1> DEFINE to == [at |-> "persist", sched |-> s]
<1> DEFINE new == [id |-> n, sched |-> s, expr |-> x]
<1>t. to \in Reloads /\ to.at = "persist" /\ to.sched = s /\ to # IdleReload
  BY DEF Reloads, ReloadAt, IdleReload
<1>w. new \in CronEntries /\ new.id = n /\ new.sched = s
  BY DEF CronEntries
<1>1. /\ Step(q, "add", to) /\ lastEntry' = n /\ cron' = cron \cup {new}
      /\ schedEntry' = [schedEntry EXCEPT ![s] = n]
      /\ UNCHANGED <<schedRow, callback, disturbed>>
  BY <1>p, <1>x, <1>n DEF ReloadAdd, addEntryLocked
<1>v. new = [id |-> n, sched |-> s, expr |-> x]
  OBVIOUS
<1> HIDE DEF to, new
<1>2. /\ schedReq[q] # IdleReload
      /\ schedReq' = [schedReq EXCEPT ![q] = to]
      /\ schedReq' \in [SchedRequests -> Reloads]
      /\ schedReq'[q] = to
  BY <1>1, <1>t, ScStep
<1>3. /\ schedEntry' \in [ScheduleIds -> Nat] /\ schedEntry'[s] = n
      /\ \A t \in ScheduleIds \ {s} : schedEntry'[t] = schedEntry[t]
  BY <1>1 DEF ScInd, ScTypes
<1>4. \A e \in cron : e.id \in Nat /\ e.id < n
  BY <1>n DEF ScInd, ScTypes, CronEntries
<1>5. ScTypes'
  <2>1. \A t \in ScheduleIds : schedEntry'[t] <= n
    BY <1>3, <1>n DEF ScInd, ScTypes
  <2>2. \A e \in cron' : e.id <= n
    BY <1>1, <1>4, <1>w
  <2>3. cron' \subseteq CronEntries
    BY <1>1, <1>w DEF ScInd, ScTypes
  <2>4. QED
    BY <2>1, <2>2, <2>3, <1>1, <1>2, <1>3, <1>n DEF ScInd, ScTypes
<1>6. IdsOnce'
  <2> SUFFICES ASSUME NEW e \in cron', NEW f \in cron', e.id = f.id PROVE e = f
    BY DEF IdsOnce
  <2>1. CASE e \in cron /\ f \in cron
    BY <2>1 DEF ScInd, IdsOnce
  <2>2. CASE e = new \/ f = new
    <3>1. n \in Nat /\ ~(n < n)
      BY <1>n
    <3>2. e = new /\ f = new
      BY <2>2, <3>1, <1>1, <1>4, <1>w
    <3>3. QED
      BY <3>2
  <2>3. QED
    BY <2>1, <2>2, <1>1
<1>7. EntryIsOwn'
  <2> SUFFICES ASSUME NEW t \in ScheduleIds, schedEntry'[t] # 0
               PROVE  \E e \in cron' : e.id = schedEntry'[t] /\ e.sched = t
    BY DEF EntryIsOwn
  <2>1. CASE t = s
    BY <2>1, <1>1, <1>3, <1>w
  <2>2. CASE t # s
    <3>1. PICK e \in cron : e.id = schedEntry[t] /\ e.sched = t
      BY <2>2, <1>3 DEF ScInd, EntryIsOwn
    <3>2. QED
      BY <3>1, <2>2, <1>1, <1>3
  <2>3. QED
    BY <2>1, <2>2
<1>8. Undisturbed'
  <2> SUFFICES ASSUME ~disturbed PROVE Undisturbed'
    BY <1>1 DEF Undisturbed
  <2>1. /\ \A t \in ScheduleIds \ {s} : Follows(t)
        /\ Phase(q, s)
    BY <1>2, <1>p, Alone
  <2>2. \A t \in ScheduleIds \ {s} : Follows(t)'
    BY <2>1, <1>1, <1>3, <1>w, SameSchedule
  <2>3. NoEntry(s) /\ On(s) /\ schedRow[s].expr = x
    BY <2>1, <1>s, <1>x DEF Phase
  <2>4. On(s)'
    BY <2>3, <1>1 DEF On, HasRow
  <2>5. schedEntry'[s] = n /\ schedRow'[s].expr = x
    BY <2>3, <1>1, <1>3
  <2>6. new = [id |-> schedEntry'[s], sched |-> s, expr |-> schedRow'[s].expr]
    BY <2>5, <1>v
  <2>7. new \in cron' /\ \A e \in cron' : e.sched = s => e = new
    BY <2>3, <1>1 DEF NoEntry
  <2>8. OwnEntry(s)'
    BY <2>6, <2>7 DEF OwnEntry
  <2>9. Phase(q, s)'
    BY <2>4, <2>8, <1>2, <1>t DEF Phase
  <2>10. QED
    BY <2>2, <2>9, <1>1, <1>2, <1>p, <1>t, AloneSteps
<1>9. QED
  BY <1>5, <1>6, <1>7, <1>8 DEF ScInd

(* A row that gets its next time stays the row it is; that an enabled      *)
(* row has one disturbs nothing.                                           *)
LEMMA ScTimes ==
    ASSUME ScInd, NEW s \in ScheduleIds, schedRow' = WithNext(s),
           UNCHANGED <<schedEntry, cron>>
    PROVE  /\ schedRow' \in [ScheduleIds -> ScRows]
           /\ \A t \in ScheduleIds \ {s} : schedRow'[t] = schedRow[t]
           /\ On(s)' <=> On(s)
           /\ On(s) /\ OwnEntry(s) => OwnEntry(s)' /\ Follows(s)'
           /\ \A t \in ScheduleIds \ {s} : Follows(t) => Follows(t)'
           /\ \A t \in ScheduleIds \ {s} : On(t) => On(t)'
<1>r. schedRow[s] \in ScRows
  BY DEF ScInd, ScTypes
<1>1. CASE ~HasRow(s)
  <2>1. schedRow' = schedRow
    BY <1>1 DEF WithNext
  <2>2. QED
    BY <2>1, <1>1, SameSchedule DEF ScInd, ScTypes, On
<1>2. CASE HasRow(s)
  <2> DEFINE row == [schedRow[s] EXCEPT !.next = TRUE]
  <2>1. schedRow[s] \in ScheduleRow
    BY <1>2, <1>r, RowIs DEF HasRow
  <2>2. /\ row \in ScheduleRow /\ row.is = schedRow[s].is /\ row.expr = schedRow[s].expr
        /\ row.enabled = schedRow[s].enabled
    BY <2>1 DEF ScheduleRow
  <2>3. row \in ScRows
    BY <2>2 DEF ScRows
  <2>4. schedRow' = [schedRow EXCEPT ![s] = row]
    BY <1>2 DEF WithNext
  <2> HIDE DEF row
  <2>5. /\ schedRow' \in [ScheduleIds -> ScRows] /\ schedRow'[s] = row
        /\ \A t \in ScheduleIds \ {s} : schedRow'[t] = schedRow[t]
    BY <2>3, <2>4 DEF ScInd, ScTypes
  <2>6. \A t \in ScheduleIds \ {s} : (Follows(t) => Follows(t)') /\ (On(t) => On(t)')
    BY <2>5, SameSchedule
  <2>7. On(s)' <=> On(s)
    BY <2>2, <2>5 DEF On, HasRow
  <2>8. OwnEntry(s) => OwnEntry(s)'
    BY <2>2, <2>5 DEF OwnEntry
  <2>9. On(s) /\ OwnEntry(s) => Follows(s)'
    BY <2>7, <2>8 DEF Follows, NoStaleTime, On
  <2>10. QED
    BY <2>5, <2>6, <2>7, <2>8, <2>9
<1>3. QED
  BY <1>1, <1>2

LEMMA ScReloadPersist ==
    ASSUME ScInd, NEW q \in SchedRequests, ReloadPersist(q)
    PROVE  ScInd'
<1>s. schedReq[q].at = "persist" /\ schedReq[q] \in Reloads
  BY DEF ReloadPersist, Step, ScInd, ScTypes
<1>p. PICK s \in ScheduleIds : s = schedReq[q].sched
  BY <1>s, IdleIs
<1>1. /\ Step(q, "persist", IdleReload) /\ schedRow' = WithNext(s)
      /\ UNCHANGED <<schedEntry, cron, lastEntry, callback, disturbed>>
  BY <1>p DEF ReloadPersist
<1>2. /\ schedReq[q] # IdleReload
      /\ schedReq' = [schedReq EXCEPT ![q] = IdleReload]
      /\ schedReq' \in [SchedRequests -> Reloads]
  BY <1>1, IdleIs, ScStep
<1>3. /\ schedRow' \in [ScheduleIds -> ScRows]
      /\ On(s) /\ OwnEntry(s) => Follows(s)'
      /\ \A t \in ScheduleIds \ {s} : Follows(t) => Follows(t)'
  BY <1>1, ScTimes
<1>4. ScTypes' /\ IdsOnce' /\ EntryIsOwn'
  BY <1>1, <1>2, <1>3 DEF ScInd, ScTypes, IdsOnce, EntryIsOwn
<1>5. Undisturbed'
  <2> SUFFICES ASSUME ~disturbed PROVE Undisturbed'
    BY <1>1 DEF Undisturbed
  <2>1. /\ \A t \in ScheduleIds \ {s} : Follows(t)
        /\ Phase(q, s)
    BY <1>2, <1>p, Alone
  <2>2. On(s) /\ OwnEntry(s)
    BY <2>1, <1>s DEF Phase
  <2>3. \A t \in ScheduleIds : Follows(t)'
    BY <2>1, <2>2, <1>3
  <2>4. QED
    BY <2>3, <1>1, <1>2, IdleIs, AloneSteps
<1>6. QED
  BY <1>4, <1>5 DEF ScInd

-----------------------------------------------------------------------------
(* A firing entry. *)
LEMMA ScFire ==
    ASSUME ScInd, Fire
    PROVE  ScInd'
<1>1. PICK e \in cron :
         /\ callback' = callback \cup {e.sched}
         /\ disturbed' = (disturbed \/ \E q \in SchedRequests : schedReq[q] # IdleReload)
         /\ UNCHANGED <<schedRow, schedEntry, cron, lastEntry, schedReq>>
  BY DEF Fire
<1>2. e.sched \in ScheduleIds
  BY DEF ScInd, ScTypes, CronEntries
<1>3. ScTypes' /\ IdsOnce' /\ EntryIsOwn'
  BY <1>1, <1>2 DEF ScInd, ScTypes, IdsOnce, EntryIsOwn
<1>4. Undisturbed'
  <2> SUFFICES ASSUME ~disturbed' PROVE Undisturbed'
    BY DEF Undisturbed
  <2>1. ~disturbed /\ \A q \in SchedRequests : schedReq[q] = IdleReload
    BY <1>1
  <2>2. \A t \in ScheduleIds : Follows(t) /\ Follows(t)'
    BY <2>1, <1>1, SameSchedule DEF ScInd, Undisturbed, InStep
  <2>3. On(e.sched)
    BY <2>2, <1>2 DEF Follows, NoEntry
  <2>4. \A t \in callback' : On(t)'
    BY <2>1, <2>3, <1>1 DEF ScInd, Undisturbed, On, HasRow
  <2>5. OneAtATime' /\ InStep' /\ ReloadsUnderWay'
    BY <2>1, <2>2, <1>1 DEF OneAtATime, InStep, ReloadsUnderWay
  <2>6. QED
    BY <2>4, <2>5 DEF Undisturbed
<1>5. QED
  BY <1>3, <1>4 DEF ScInd

LEMMA ScFireWrites ==
    ASSUME ScInd, NEW s \in ScheduleIds, FireWrites(s)
    PROVE  ScInd'
<1>1. /\ s \in callback /\ callback' = callback \ {s} /\ schedRow' = WithNext(s)
      /\ UNCHANGED <<schedEntry, cron, lastEntry, schedReq, disturbed>>
  BY DEF FireWrites
<1>2. /\ schedRow' \in [ScheduleIds -> ScRows]
      /\ On(s) /\ OwnEntry(s) => Follows(s)'
      /\ \A t \in ScheduleIds \ {s} : Follows(t) => Follows(t)'
      /\ \A t \in ScheduleIds \ {s} : On(t) => On(t)'
  BY <1>1, ScTimes
<1>3. ScTypes' /\ IdsOnce' /\ EntryIsOwn'
  BY <1>1, <1>2 DEF ScInd, ScTypes, IdsOnce, EntryIsOwn
<1>4. Undisturbed'
  <2> SUFFICES ASSUME ~disturbed PROVE Undisturbed'
    BY <1>1 DEF Undisturbed
  <2>1. (\A q \in SchedRequests : schedReq[q] = IdleReload) /\ (\A t \in callback : On(t))
    BY <1>1 DEF ScInd, Undisturbed, OneAtATime
  <2>2. \A t \in ScheduleIds : Follows(t)
    BY <2>1 DEF ScInd, Undisturbed, InStep
  <2>3. On(s) /\ OwnEntry(s)
    BY <2>1, <2>2, <1>1 DEF Follows
  <2>4. \A t \in ScheduleIds : Follows(t)'
    BY <2>2, <2>3, <1>2
  <2>5. \A t \in callback' : On(t)'
    BY <2>1, <1>1, <1>2 DEF ScInd, ScTypes
  <2>6. OneAtATime' /\ InStep' /\ ReloadsUnderWay'
    BY <2>1, <2>4, <1>1 DEF OneAtATime, InStep, ReloadsUnderWay
  <2>7. QED
    BY <2>5, <2>6 DEF Undisturbed
<1>5. QED
  BY <1>3, <1>4 DEF ScInd

(* The server restarts: the rows that are enabled get entries of their own. *)
LEMMA ScRestart ==
    ASSUME ScInd, Restart
    PROVE  ScInd'
<1> DEFINE on == ListEnabledSchedules
<1>o. on \subseteq ScheduleIds /\ \A s \in ScheduleIds : s \in on <=> On(s)
  BY DEF ListEnabledSchedules, On
<1>1. PICK number \in [on -> 1 .. Cardinality(on)] :
         /\ \A s, t \in on : number[s] = number[t] => s = t
         /\ lastEntry' = Cardinality(on)
         /\ schedEntry' = [s \in ScheduleIds |-> IF s \in on THEN number[s] ELSE 0]
         /\ cron' = {[id |-> number[s], sched |-> s, expr |-> schedRow[s].expr] : s \in on}
  BY DEF Restart
<1>2. /\ schedRow' = [s \in ScheduleIds |->
                        IF s \in on THEN [schedRow[s] EXCEPT !.next = TRUE] ELSE schedRow[s]]
      /\ schedReq' = [q \in SchedRequests |-> IdleReload]
      /\ callback' = {}
      /\ disturbed' = \E s \in ScheduleIds : HasRow(s) /\ ~schedRow[s].enabled /\ schedRow[s].next
  BY DEF Restart
<1> HIDE DEF on
<1>3. Cardinality(on) \in Nat /\ Cardinality(on) <= MaxEntries
  <2>1. IsFiniteSet(on) /\ Cardinality(on) <= Cardinality(ScheduleIds)
    BY <1>o, SchedulesAssumption, FS_Subset
  <2>2. Cardinality(on) \in Nat /\ Cardinality(ScheduleIds) \in Nat
    BY <2>1, SchedulesAssumption, FS_CardinalityType
  <2>3. QED
    BY <2>1, <2>2, SchedulesAssumption
<1>4. \A s \in on : number[s] \in Nat \ {0} /\ number[s] <= Cardinality(on)
  BY <1>1, <1>3
<1>5. \A s \in on : schedRow[s] \in ScheduleRow
  BY <1>o, RowIs DEF On, HasRow, ScInd, ScTypes
<1>6. \A s \in on : /\ schedRow'[s] \in ScheduleRow
                    /\ schedRow'[s].expr = schedRow[s].expr
                    /\ schedRow'[s].enabled = schedRow[s].enabled
  <2> SUFFICES ASSUME NEW s \in on
               PROVE  /\ schedRow'[s] \in ScheduleRow
                      /\ schedRow'[s].expr = schedRow[s].expr
                      /\ schedRow'[s].enabled = schedRow[s].enabled
    OBVIOUS
  <2>1. schedRow'[s] = [schedRow[s] EXCEPT !.next = TRUE]
    BY <1>2, <1>o
  <2>2. QED
    BY <2>1, <1>5 DEF ScheduleRow
<1>7. \A s \in ScheduleIds \ on : schedRow'[s] = schedRow[s]
  BY <1>2
<1>8. schedRow' \in [ScheduleIds -> ScRows]
  <2>1. \A s \in ScheduleIds : schedRow'[s] \in ScRows
    BY <1>6, <1>7, <1>o DEF ScInd, ScTypes, ScRows
  <2>2. QED
    BY <2>1, <1>2
<1>9. \A s \in ScheduleIds : /\ s \in on => schedEntry'[s] = number[s]
                             /\ s \notin on => schedEntry'[s] = 0
  BY <1>1
<1>10. \A s \in ScheduleIds : On(s)' <=> s \in on
  BY <1>5, <1>6, <1>7, <1>o, RowIs DEF On, HasRow
<1>11. ASSUME NEW e \in cron'
       PROVE  \E s \in on : e = [id |-> number[s], sched |-> s, expr |-> schedRow[s].expr]
  BY <1>11, <1>1
<1>12. ASSUME NEW s \in on
       PROVE  /\ [id |-> number[s], sched |-> s, expr |-> schedRow[s].expr] \in cron'
              /\ [id |-> number[s], sched |-> s, expr |-> schedRow[s].expr] \in CronEntries
  <2>1. schedRow[s].expr \in Exprs /\ s \in ScheduleIds
    BY <1>5, <1>o, RowIs
  <2>2. QED
    BY <2>1, <1>1, <1>4 DEF CronEntries
<1>13. ScTypes'
  <2>1. schedEntry' \in [ScheduleIds -> Nat]
    BY <1>1, <1>4
  <2>2. \A s \in ScheduleIds : schedEntry'[s] <= lastEntry'
    BY <1>1, <1>3, <1>4, <1>9
  <2>3. cron' \subseteq CronEntries
    BY <1>11, <1>12
  <2>4. \A e \in cron' : e.id <= lastEntry'
    BY <1>11, <1>4, <1>1
  <2>5. schedReq' \in [SchedRequests -> Reloads]
    BY <1>2, IdleIs
  <2>6. QED
    BY <2>1, <2>2, <2>3, <2>4, <2>5, <1>1, <1>2, <1>3, <1>8 DEF ScTypes
<1>14. IdsOnce'
  <2> SUFFICES ASSUME NEW e \in cron', NEW f \in cron', e.id = f.id PROVE e = f
    BY DEF IdsOnce
  <2>1. PICK s \in on : e = [id |-> number[s], sched |-> s, expr |-> schedRow[s].expr]
    BY <1>11
  <2>2. PICK t \in on : f = [id |-> number[t], sched |-> t, expr |-> schedRow[t].expr]
    BY <1>11
  <2>3. number[s] = number[t]
    BY <2>1, <2>2
  <2>4. s = t
    BY <2>3, <1>1
  <2>5. QED
    BY <2>1, <2>2, <2>4
<1>15. EntryIsOwn'
  <2> SUFFICES ASSUME NEW s \in ScheduleIds, schedEntry'[s] # 0
               PROVE  \E e \in cron' : e.id = schedEntry'[s] /\ e.sched = s
    BY DEF EntryIsOwn
  <2>1. s \in on /\ schedEntry'[s] = number[s]
    BY <1>9
  <2> DEFINE r == [id |-> number[s], sched |-> s, expr |-> schedRow[s].expr]
  <2>2. r \in cron' /\ r.id = number[s] /\ r.sched = s
    BY <2>1, <1>12
  <2> HIDE DEF r
  <2>3. QED
    BY <2>1, <2>2
<1>16. ASSUME ~disturbed', NEW s \in ScheduleIds PROVE Follows(s)'
  <2>1. CASE s \in on
    <3> DEFINE r == [id |-> number[s], sched |-> s, expr |-> schedRow[s].expr]
    <3>1. r \in cron'
      BY <2>1, <1>12
    <3>2. ASSUME NEW e \in cron', e.sched = s PROVE e = r
      <4>1. PICK t \in on : e = [id |-> number[t], sched |-> t, expr |-> schedRow[t].expr]
        BY <1>11
      <4>2. t = s
        BY <4>1, <3>2
      <4>3. QED
        BY <4>1, <4>2
    <3>3. r = [id |-> schedEntry'[s], sched |-> s, expr |-> schedRow'[s].expr]
      BY <2>1, <1>6, <1>9
    <3> HIDE DEF r
    <3>4. OwnEntry(s)'
      BY <3>1, <3>2, <3>3 DEF OwnEntry
    <3>5. QED
      BY <3>4, <2>1, <1>10 DEF Follows, NoStaleTime, On
  <2>2. CASE s \notin on
    <3>1. \A e \in cron' : e.sched # s
      <4> SUFFICES ASSUME NEW e \in cron' PROVE e.sched # s
        OBVIOUS
      <4>1. PICK t \in on : e = [id |-> number[t], sched |-> t, expr |-> schedRow[t].expr]
        BY <1>11
      <4>2. QED
        BY <4>1, <2>2
    <3>2. NoEntry(s)'
      BY <3>1, <2>2, <1>9 DEF NoEntry
    <3>3. NoStaleTime(s)'
      BY <2>2, <1>2, <1>7, <1>16 DEF NoStaleTime, HasRow
    <3>4. QED
      BY <3>2, <3>3, <2>2, <1>10 DEF Follows
  <2>3. QED
    BY <2>1, <2>2
<1>17. \A q \in SchedRequests : schedReq'[q] = IdleReload
  BY <1>2
<1>18. Undisturbed'
  BY <1>2, <1>16, <1>17 DEF Undisturbed, OneAtATime, InStep, ReloadsUnderWay
<1>19. QED
  BY <1>13, <1>14, <1>15, <1>18 DEF ScInd

LEMMA ScNext == ScInd /\ [SchedulesNext]_schedVars => ScInd'
<1> SUFFICES ASSUME ScInd, [SchedulesNext]_schedVars PROVE ScInd'
  OBVIOUS
<1>1. CASE UNCHANGED schedVars
  BY <1>1 DEF schedVars, ScInd, ScTypes, IdsOnce, EntryIsOwn, Undisturbed, OneAtATime,
     InStep, ReloadsUnderWay, Phase, Follows, On, HasRow, NoEntry, OwnEntry, NoStaleTime, OnlyNamed
<1>2. CASE \E q \in SchedRequests, s \in ScheduleIds :
              CreateSchedule(q, s) \/ UpdateSchedule(q, s) \/ setEnabled(q, s)
              \/ DeleteSchedule(q, s)
  BY <1>2, ScHandlers
<1>3. CASE DeleteScheduledJob
  BY <1>3, ScDeleteJob
<1>4. CASE \E q \in SchedRequests : SchedulerStep(q)
  BY <1>4, ScReloadRemove, ScReloadGet, ScReloadFails, ScReloadAdd, ScReloadPersist,
     ScRemoveSchedule DEF SchedulerStep
<1>5. CASE Fire \/ (\E s \in ScheduleIds : FireWrites(s)) \/ Restart
  BY <1>5, ScFire, ScFireWrites, ScRestart
<1>6. QED
  BY <1>1, <1>2, <1>3, <1>4, <1>5 DEF SchedulesNext

(* The cron library follows the table for any number of schedules and      *)
(* concurrent handlers: an entry the map names is its schedule's own even  *)
(* when reloads overlap, and while they do not, every enabled row has      *)
(* exactly one entry, with its present expression.                         *)
THEOREM SchedulesAreSound == SchedulesSpec => []SchedulesInv
  BY ScInit, ScNext, ScStrong, PTL DEF SchedulesSpec

-----------------------------------------------------------------------------
(* The job editor.                                                         *)

JobEditorSpec == JobEditorInit /\ [][JobEditorNext]_jobVars

(* Job j has a run_job step that starts job k.                             *)
Calls(j, k) == \E s \in StepIds : stepJob[s] = j /\ stepKind[s] = k

LEMMA TargetsAre ==
    ASSUME NEW J, NEW k
    PROVE  k \in TargetsOf(J) <=> (k \in Jobs /\ \E j \in J : Calls(j, k))
  BY DEF TargetsOf, Calls

(* The walk of checkRunJobCycle is defined at every depth: a first depth   *)
(* at which it is not would have a predecessor at which it is.             *)
EditDepths == OpToRel(<, Nat)

IsWalk(g, n, target) == /\ g \in [0 .. n -> SUBSET Jobs]
                        /\ g[0] = {target}
                        /\ \A d \in 1 .. n : g[d] = TargetsOf(g[d - 1])

LEMMA WalkExists ==
    ASSUME NEW target \in Jobs, NEW n \in Nat
    PROVE  \E g : IsWalk(g, n, target)
<1> DEFINE Bad == {m \in Nat : ~\E g : IsWalk(g, m, target)}
<1> SUFFICES ASSUME Bad # {} PROVE FALSE
  OBVIOUS
<1>1. IsWellFoundedOn(EditDepths, Nat)
  BY NatLessThanWellFounded, Zenon DEF EditDepths
<1>2. \A l, m \in Nat : l < m => <<l, m>> \in EditDepths
  BY DEF EditDepths, OpToRel
<1>3. Bad \subseteq Nat
  OBVIOUS
<1>4. PICK m \in Bad : \A y \in Bad : ~(<<y, m>> \in EditDepths)
  <2> HIDE DEF Bad
  <2>1. QED
    BY <1>1, <1>3, WFMin, Zenon
<1>5. m \in Nat /\ ~\E g : IsWalk(g, m, target)
  BY <1>4
<1>6. m # 0
  <2> DEFINE g == [d \in 0 .. 0 |-> {target}]
  <2>1. IsWalk(g, 0, target)
    BY DEF IsWalk
  <2>2. QED
    BY <2>1, <1>5
<1>7. m - 1 \in Nat /\ m - 1 < m
  BY <1>5, <1>6
<1>8. PICK g : IsWalk(g, m - 1, target)
  BY <1>2, <1>4, <1>5, <1>7
<1> DEFINE h == [d \in 0 .. m |-> IF d = m THEN TargetsOf(g[m - 1]) ELSE g[d]]
<1>9. IsWalk(h, m, target)
  <2>1. TargetsOf(g[m - 1]) \in SUBSET Jobs
    BY DEF TargetsOf
  <2>2. h \in [0 .. m -> SUBSET Jobs]
    BY <2>1, <1>5, <1>6, <1>8 DEF IsWalk
  <2>3. h[0] = {target}
    BY <1>5, <1>6, <1>8 DEF IsWalk
  <2>4. ASSUME NEW d \in 1 .. m PROVE h[d] = TargetsOf(h[d - 1])
    <3>1. h[d - 1] = g[d - 1]
      BY <1>5
    <3>2. CASE d = m
      BY <3>1, <3>2, <1>5
    <3>3. CASE d # m
      <4>1. d \in 1 .. (m - 1) /\ h[d] = g[d]
        BY <3>3, <1>5
      <4>2. g[d] = TargetsOf(g[d - 1])
        BY <4>1, <1>8 DEF IsWalk
      <4>3. QED
        BY <3>1, <4>1, <4>2
    <3>4. QED
      BY <3>2, <3>3
  <2>5. QED
    BY <2>2, <2>3, <2>4 DEF IsWalk
<1>10. QED
  BY <1>5, <1>9

LEMMA WalkIs ==
    ASSUME NEW target \in Jobs
    PROVE  IsWalk(RunJobWalk(target), MaxRunJobDepth, target)
<1> DEFINE M == MaxRunJobDepth
<1> DEFINE W(f) == [d \in 0 .. M |-> IF d = 0 THEN {target} ELSE TargetsOf(f[d - 1])]
<1>1. M \in Nat /\ M # 0
  BY JobEditorAssumption
<1>2. PICK g : IsWalk(g, M, target)
  BY <1>1, WalkExists
<1>3. g = W(g)
  <2>1. g = [d \in 0 .. M |-> g[d]]
    BY <1>2 DEF IsWalk
  <2>2. \A d \in 0 .. M : g[d] = IF d = 0 THEN {target} ELSE TargetsOf(g[d - 1])
    BY <1>1, <1>2 DEF IsWalk
  <2>3. QED
    BY <2>1, <2>2
<1>4. RunJobWalk(target) = CHOOSE f : f = W(f)
  BY DEF RunJobWalk
<1>5. RunJobWalk(target) = W(RunJobWalk(target))
  <2> HIDE DEF W
  <2>1. QED
    BY <1>3, <1>4
<1> DEFINE f == RunJobWalk(target)
<1> HIDE DEF f
<1>6. f = W(f)
  BY <1>5 DEF f
<1>7. \A d \in 0 .. M : f[d] = IF d = 0 THEN {target} ELSE TargetsOf(f[d - 1])
  BY <1>6
<1>8. \A d \in 0 .. M : f[d] \in SUBSET Jobs
  BY <1>7 DEF TargetsOf
<1>9. f \in [0 .. M -> SUBSET Jobs]
  <2>1. f = [d \in 0 .. M |-> f[d]]
    BY <1>6
  <2>2. QED
    BY <2>1, <1>8
<1>10. f[0] = {target} /\ \A d \in 1 .. M : f[d] = TargetsOf(f[d - 1])
  BY <1>1, <1>7
<1>11. QED
  BY <1>9, <1>10 DEF IsWalk, f

(* What a walk that passes the check shows: there is a set of jobs that    *)
(* holds the target and whatever its members start, and not the origin.    *)
LEMMA WalkClosed ==
    ASSUME NEW origin \in Jobs, NEW target \in Jobs, origin # target,
           checkRunJobCycle(origin, target)
    PROVE  \E R \in SUBSET Jobs :
              /\ target \in R /\ origin \notin R
              /\ \A x \in R, y \in Jobs : Calls(x, y) => y \in R
<1> DEFINE f == RunJobWalk(target)
<1> DEFINE M == MaxRunJobDepth
<1> DEFINE R == UNION {f[d] : d \in 0 .. M}
<1>1. M \in Nat /\ M # 0
  BY JobEditorAssumption
<1>2. IsWalk(f, M, target)
  BY WalkIs
<1>3. (\A d \in 1 .. M : origin \notin f[d]) /\ f[M] = {}
  BY DEF checkRunJobCycle
<1> HIDE DEF f
<1>4. R \in SUBSET Jobs
  BY <1>2 DEF IsWalk
<1>5. target \in R
  BY <1>1, <1>2 DEF IsWalk
<1>6. origin \notin R
  <2> SUFFICES ASSUME NEW d \in 0 .. M PROVE origin \notin f[d]
    OBVIOUS
  <2>1. CASE d = 0
    BY <2>1, <1>2 DEF IsWalk
  <2>2. CASE d # 0
    BY <2>2, <1>1, <1>3
  <2>3. QED
    BY <2>1, <2>2
<1>7. ASSUME NEW x \in R, NEW y \in Jobs, Calls(x, y) PROVE y \in R
  <2>1. PICK d \in 0 .. M : x \in f[d]
    OBVIOUS
  <2>2. d # M
    BY <2>1, <1>3
  <2>3. d + 1 \in 1 .. M /\ (d + 1) - 1 = d
    BY <2>2, <1>1
  <2>4. f[d + 1] = TargetsOf(f[d])
    BY <2>3, <1>2 DEF IsWalk
  <2>5. y \in f[d + 1]
    BY <2>1, <2>4, <1>7, TargetsAre
  <2>6. d + 1 \in 0 .. M
    BY <2>3
  <2>7. QED
    BY <2>5, <2>6
<1>8. QED
  BY <1>4, <1>5, <1>6, <1>7

-----------------------------------------------------------------------------
(* What a handler may be at, and what it was asked.                        *)
AddRq   == [at : {"AddStep"}, user : Editors, job : Jobs, kind : Kinds]
UpdRq   == [at : {"UpdateStep"}, user : Editors, job : Jobs, step : StepIds, kind : Kinds]
DelRq   == [at : {"DeleteStep"}, user : Editors, job : Jobs, step : StepIds]
EdgeAts == {"AddDependency", "RemoveDependency", "check", "rollback"}
EdgeRq  == [at : EdgeAts, user : Editors, job : Jobs, edge : StepIds \X StepIds]
JobRq   == [at : {"DeleteJob"}, user : Editors, job : Jobs]
CloneRq == [at : {"CloneJob"}, user : Editors, job : Jobs,
            steps : UNION {[S -> Kinds] : S \in SUBSET StepIds},
            edges : SUBSET (StepIds \X StepIds)]
EditRqs == {IdleRq} \cup AddRq \cup UpdRq \cup DelRq \cup EdgeRq \cup JobRq \cup CloneRq

JeTypes ==
    /\ jobOwner \in [Jobs -> Editors \cup {"none", "deleted"}]
    /\ stepJob \in [StepIds -> Jobs \cup {"none", "deleted"}]
    /\ stepKind \in [StepIds -> Kinds]
    /\ deps \subseteq StepIds \X StepIds
    /\ unchecked \subseteq deps
    /\ overlap \in BOOLEAN
    /\ editReq \in [EditRequests -> EditRqs]

(* CASCADE: steps belong to jobs that exist, edges join steps of one job.  *)
Cascaded ==
    /\ \A s \in StepIds : stepJob[s] \in Jobs => jobOwner[stepJob[s]] \in Editors
    /\ \A d \in deps : stepJob[d[1]] = stepJob[d[2]] /\ stepJob[d[1]] \in Jobs

(* A request was made by the owner of its job, and the steps it names are  *)
(* steps of that job, as long as they are there.                           *)
OwnReq(q) ==
    q # IdleRq =>
       /\ jobOwner[q.job] \in {q.user, "deleted"}
       /\ q.at \in {"UpdateStep", "DeleteStep"} => stepJob[q.step] \in {q.job, "deleted"}
       /\ q.at \in EdgeAts => /\ stepJob[q.edge[1]] \in {q.job, "deleted"}
                              /\ stepJob[q.edge[2]] \in {q.job, "deleted"}
       /\ q.at = "CloneJob" =>
             \A d \in q.edges : d[1] \in DOMAIN q.steps /\ d[2] \in DOMAIN q.steps

(* No step starts a job whose identifier was not given out yet.            *)
KnownKind(k) == k \in Jobs => jobOwner[k] # "none"
KnownReq(q) ==
    /\ q.at \in {"AddStep", "UpdateStep"} => KnownKind(q.kind)
    /\ q.at = "CloneJob" => \A s \in DOMAIN q.steps : KnownKind(q.steps[s])

Requests == \A r \in EditRequests : OwnReq(editReq[r]) /\ KnownReq(editReq[r])
KnownSteps == \A s \in StepIds : KnownKind(stepKind[s])

(* What a request read still holds, if nobody wrote in between.            *)
(* Of checkRunJobCycle that is what its walk showed: some jobs hold the    *)
(* target and all they start, and not the origin.                          *)
SafeTarget(j, k) == \E R \in SUBSET Jobs :
                       /\ k \in R /\ j \notin R
                       /\ \A x \in R, y \in Jobs : Calls(x, y) => y \in R
ValidFor(j, k, rest) == /\ k \in Jobs => SafeTarget(j, k)
                        /\ ValidateJobSteps({stepKind[s] : s \in rest} \cup {k})
Current(q) ==
    /\ q.at = "AddStep" => ValidFor(q.job, q.kind, StepsOf(q.job))
    /\ q.at = "UpdateStep" => ValidFor(q.job, q.kind, StepsOf(q.job) \ {q.step})
    /\ q.at = "CloneJob" => q.steps = [s \in StepsOf(q.job) |-> stepKind[s]]

NoSelfStart == ~\E J \in SUBSET Jobs : J # {} /\ \A j \in J : \E k \in J : Calls(j, k)
OneMachine  == \A j \in Jobs : \A s, t \in StepsOf(j) :
                  {stepKind[s], stepKind[t]} \subseteq Machines => stepKind[s] = stepKind[t]

AllCurrent  == \A r \in EditRequests : Current(editReq[r])
Uncontested == ~overlap => NoSelfStart /\ OneMachine /\ AllCurrent

JeInd == JeTypes /\ Cascaded /\ Requests /\ KnownSteps /\ CheckedEdgesAcyclic /\ Uncontested

-----------------------------------------------------------------------------
(* What each kind of request carries.                                      *)
RqFacts(q) == /\ q.at = "idle" <=> q = IdleRq
              /\ q # IdleRq => q.job \in Jobs /\ q.user \in Editors
              /\ q.at = "AddStep" => q.kind \in Kinds
              /\ q.at = "UpdateStep" => q.kind \in Kinds /\ q.step \in StepIds
              /\ q.at = "DeleteStep" => q.step \in StepIds
              /\ q.at \in EdgeAts => q \in EdgeRq /\ q.edge \in StepIds \X StepIds
              /\ q.at = "CloneJob" => /\ q.steps \in [DOMAIN q.steps -> Kinds]
                                      /\ DOMAIN q.steps \subseteq StepIds
                                      /\ q.edges \subseteq StepIds \X StepIds

LEMMA RqIs == ASSUME NEW q \in EditRqs PROVE RqFacts(q)
<1>1. CASE q = IdleRq
  BY <1>1 DEF IdleRq, RqFacts, EdgeAts
<1>2. CASE q \in AddRq
  BY <1>2 DEF AddRq, IdleRq, RqFacts, EdgeAts
<1>3. CASE q \in UpdRq
  BY <1>3 DEF UpdRq, IdleRq, RqFacts, EdgeAts
<1>4. CASE q \in DelRq
  BY <1>4 DEF DelRq, IdleRq, RqFacts, EdgeAts
<1>5. CASE q \in EdgeRq
  BY <1>5 DEF EdgeRq, IdleRq, RqFacts, EdgeAts
<1>6. CASE q \in JobRq
  BY <1>6 DEF JobRq, IdleRq, RqFacts, EdgeAts
<1>7. CASE q \in CloneRq
  <2>1. /\ q.at = "CloneJob" /\ q.user \in Editors /\ q.job \in Jobs
        /\ q.steps \in UNION {[S -> Kinds] : S \in SUBSET StepIds}
        /\ q.edges \in SUBSET (StepIds \X StepIds)
    BY <1>7 DEF CloneRq
  <2>2. PICK S \in SUBSET StepIds : q.steps \in [S -> Kinds]
    BY <2>1
  <2>3. DOMAIN q.steps = S
    BY <2>2
  <2>4. q # IdleRq
    BY <2>1 DEF IdleRq
  <2>5. QED
    BY <2>1, <2>2, <2>3, <2>4 DEF RqFacts, EdgeAts
<1>8. QED
  BY <1>1, <1>2, <1>3, <1>4, <1>5, <1>6, <1>7 DEF EditRqs

LEMMA IdleRqIs == IdleRq.at = "idle" /\ IdleRq \in EditRqs
  BY DEF IdleRq, EditRqs

(* An idle handler, or one that checks the edge it wrote, claims nothing   *)
(* about what it read.                                                     *)
LEMMA AfterWrite ==
    ASSUME NEW q, q.at \in {"idle", "check", "rollback"}
    PROVE  Current(q) /\ Current(q)'
  BY DEF Current

LEMMA FewerEdges ==
    ASSUME NEW D, NEW E, D \subseteq E, Cyclic(D)
    PROVE  Cyclic(E)
  BY DEF Cyclic

LEMMA JeInit == JobEditorInit => JeInd
<1> SUFFICES ASSUME JobEditorInit PROVE JeInd
  OBVIOUS
<1>1. JeTypes
  <2>1. editReq \in [EditRequests -> EditRqs]
    BY IdleRqIs DEF JobEditorInit
  <2>2. QED
    BY <2>1 DEF JobEditorInit, JeTypes, Kinds
<1>2. Cascaded /\ KnownSteps
  BY JobEditorAssumption DEF JobEditorInit, Cascaded, KnownSteps, KnownKind
<1>3. \A r \in EditRequests : editReq[r] = IdleRq
  BY DEF JobEditorInit
<1>4. Requests
  BY <1>3, IdleRqIs DEF Requests, OwnReq, KnownReq
<1>5. CheckedEdgesAcyclic
  BY DEF JobEditorInit, CheckedEdgesAcyclic, Cyclic
<1>6. NoSelfStart /\ OneMachine
  BY JobEditorAssumption DEF JobEditorInit, NoSelfStart, OneMachine, Calls, StepsOf
<1>7. Uncontested
  BY <1>3, <1>6, IdleRqIs, AfterWrite DEF Uncontested, AllCurrent
<1>8. QED
  BY <1>1, <1>2, <1>4, <1>5, <1>7 DEF JeInd

LEMMA JeStrong == JeInd => /\ JobEditorTypeOK /\ CheckedEdgesAcyclic
                           /\ RunJobAcyclic /\ KeyOnOneMachine
<1> SUFFICES ASSUME JeInd
             PROVE  JobEditorTypeOK /\ CheckedEdgesAcyclic /\ RunJobAcyclic /\ KeyOnOneMachine
  OBVIOUS
<1>1. JobEditorTypeOK
  <2>1. \A r \in EditRequests : editReq[r] = IdleRq \/ editReq[r].job \in Jobs
    BY RqIs DEF JeInd, JeTypes, RqFacts
  <2>2. deps \subseteq {d \in StepIds \X StepIds : stepJob[d[1]] = stepJob[d[2]]
                                                   /\ stepJob[d[1]] \in Jobs}
    BY DEF JeInd, JeTypes, Cascaded
  <2>3. QED
    BY <2>1, <2>2 DEF JeInd, JeTypes, JobEditorTypeOK
<1>2. RunJobAcyclic
  <2>1. \A j, k \in Jobs : k \in TargetsOf({j}) <=> Calls(j, k)
    BY TargetsAre
  <2>2. QED
    BY <2>1 DEF JeInd, Uncontested, NoSelfStart, RunJobAcyclic
<1>3. KeyOnOneMachine
  BY DEF JeInd, Uncontested, OneMachine, KeyOnOneMachine
<1>4. QED
  BY <1>1, <1>2, <1>3 DEF JeInd

(* Jobs and steps only go forward: given out, there, deleted.              *)
Forward ==
    /\ \A j \in Jobs : \/ jobOwner'[j] = jobOwner[j]
                       \/ (jobOwner[j] = "none" /\ jobOwner'[j] # "none")
                       \/ (jobOwner[j] # "none" /\ jobOwner'[j] = "deleted")
    /\ \A s \in StepIds : \/ stepJob'[s] = stepJob[s]
                          \/ stepJob[s] = "none"
                          \/ stepJob'[s] = "deleted"

LEMMA ReqForward ==
    ASSUME Forward, NEW q \in EditRqs, OwnReq(q), KnownReq(q)
    PROVE  OwnReq(q)' /\ KnownReq(q)'
<1>f. RqFacts(q)
  BY RqIs
<1>j. "none" \notin Editors /\ "none" \notin Jobs /\ "deleted" # "none"
  BY JobEditorAssumption
<1>1. \A k : KnownKind(k) => KnownKind(k)'
  BY <1>j DEF KnownKind, Forward
<1>2. KnownReq(q)'
  BY <1>1 DEF KnownReq
<1>3. ASSUME NEW s \in StepIds, NEW j \in Jobs, stepJob[s] \in {j, "deleted"}
      PROVE  stepJob'[s] \in {j, "deleted"}
  BY <1>3, <1>j DEF Forward
<1>4. ASSUME q # IdleRq PROVE jobOwner'[q.job] \in {q.user, "deleted"}
  BY <1>4, <1>f, <1>j DEF Forward, OwnReq, RqFacts
<1>5. ASSUME q # IdleRq, q.at \in {"UpdateStep", "DeleteStep"}
      PROVE  stepJob'[q.step] \in {q.job, "deleted"}
  BY <1>5, <1>f, <1>3 DEF OwnReq, RqFacts
<1>6. ASSUME q # IdleRq, q.at \in EdgeAts
      PROVE  /\ stepJob'[q.edge[1]] \in {q.job, "deleted"}
             /\ stepJob'[q.edge[2]] \in {q.job, "deleted"}
  <2>1. q.edge[1] \in StepIds /\ q.edge[2] \in StepIds /\ q.job \in Jobs
    BY <1>6, <1>f DEF RqFacts
  <2>2. QED
    BY <2>1, <1>3, <1>6 DEF OwnReq
<1>7. OwnReq(q)'
  BY <1>4, <1>5, <1>6 DEF OwnReq
<1>8. QED
  BY <1>2, <1>7

(* One handler moves; the requests of the others stay good.                *)
LEMMA RequestsKept ==
    ASSUME JeInd, Forward, NEW r \in EditRequests, NEW q \in EditRqs,
           editReq' = [editReq EXCEPT ![r] = q], OwnReq(q)', KnownReq(q)'
    PROVE  /\ Requests' /\ editReq' \in [EditRequests -> EditRqs]
           /\ editReq'[r] = q
           /\ \A p \in EditRequests \ {r} : editReq'[p] = editReq[p]
<1>1. /\ editReq' \in [EditRequests -> EditRqs] /\ editReq'[r] = q
      /\ \A p \in EditRequests \ {r} : editReq'[p] = editReq[p]
  BY DEF JeInd, JeTypes
<1>2. ASSUME NEW p \in EditRequests PROVE OwnReq(editReq[p])' /\ KnownReq(editReq[p])'
  <2>1. CASE p = r
    BY <2>1, <1>1 DEF OwnReq, KnownReq, KnownKind
  <2>2. CASE p # r
    <3>1. PICK o \in EditRqs : o = editReq[p]
      BY DEF JeInd, JeTypes
    <3>2. OwnReq(o) /\ KnownReq(o)
      BY <3>1 DEF JeInd, Requests
    <3>3. OwnReq(o)' /\ KnownReq(o)'
      BY <3>2, ReqForward
    <3>4. editReq'[p] = o
      BY <2>2, <3>1, <1>1
    <3>5. QED
      BY <3>3, <3>4 DEF OwnReq, KnownReq, KnownKind
  <2>3. QED
    BY <2>1, <2>2
<1>3. QED
  BY <1>1, <1>2 DEF Requests

LEMMA RequestsSame ==
    ASSUME JeInd, Forward, UNCHANGED editReq
    PROVE  Requests'
<1> SUFFICES ASSUME NEW p \in EditRequests PROVE OwnReq(editReq[p])' /\ KnownReq(editReq[p])'
  BY DEF Requests
<1>1. PICK o \in EditRqs : o = editReq[p]
  BY DEF JeInd, JeTypes
<1>2. OwnReq(o) /\ KnownReq(o)
  BY <1>1 DEF JeInd, Requests
<1>3. OwnReq(o)' /\ KnownReq(o)'
  BY <1>2, ReqForward
<1>4. QED
  BY <1>1, <1>3 DEF OwnReq, KnownReq, KnownKind

(* Nothing is claimed anew while the steps stay as they are.               *)
LEMMA SameSteps ==
    ASSUME UNCHANGED <<stepJob, stepKind>>
    PROVE  /\ NoSelfStart => NoSelfStart'
           /\ OneMachine => OneMachine'
           /\ \A q : Current(q) => Current(q)'
<1>1. \A j, k : Calls(j, k)' <=> Calls(j, k)
  BY DEF Calls
<1>2. \A j : StepsOf(j)' = StepsOf(j)
  BY DEF StepsOf
<1>3. NoSelfStart => NoSelfStart'
  BY <1>1 DEF NoSelfStart
<1>4. OneMachine => OneMachine'
  BY <1>2 DEF OneMachine
<1>5. \A j, k, rest : ValidFor(j, k, rest) => ValidFor(j, k, rest)'
  BY <1>1 DEF ValidFor, SafeTarget, ValidateJobSteps
<1>6. ASSUME NEW q, Current(q) PROVE Current(q)'
  BY <1>2, <1>5, <1>6 DEF Current
<1>7. QED
  BY <1>3, <1>4, <1>6

(* The claims when one handler moves and the steps stay.                   *)
LEMMA UncontestedSame ==
    ASSUME JeInd, UNCHANGED <<stepJob, stepKind, overlap>>, NEW r \in EditRequests,
           NEW q, Current(q), editReq' = [editReq EXCEPT ![r] = q]
    PROVE  Uncontested'
<1> SUFFICES ASSUME ~overlap
             PROVE  NoSelfStart' /\ OneMachine' /\ AllCurrent'
  BY DEF Uncontested
<1>1. NoSelfStart /\ OneMachine /\ \A p \in EditRequests : Current(editReq[p])
  BY DEF JeInd, Uncontested, AllCurrent
<1>2. \A p \in EditRequests : editReq'[p] = IF p = r THEN q ELSE editReq[p]
  BY DEF JeInd, JeTypes
<1>3. ASSUME NEW p \in EditRequests PROVE Current(editReq[p])'
  <2>1. PICK o : o = IF p = r THEN q ELSE editReq[p]
    OBVIOUS
  <2>2. Current(o)
    BY <2>1, <1>1
  <2>3. Current(o)'
    BY <2>2, SameSteps
  <2>4. editReq'[p] = o
    BY <2>1, <1>2
  <2>5. QED
    BY <2>3, <2>4 DEF Current, StepsOf, ValidFor, SafeTarget, Calls, ValidateJobSteps
<1>4. QED
  BY <1>1, <1>3, SameSteps DEF AllCurrent

(* A write that overlaps no reading leaves no other reading to be current. *)
LEMMA WriteAlone ==
    ASSUME JeInd, NEW r \in EditRequests, NEW what, Write(r, what), ~overlap',
           editReq'[r].at \in {"idle", "check", "rollback"},
           \A p \in EditRequests \ {r} : editReq'[p] = editReq[p]
    PROVE  /\ ~overlap /\ NoSelfStart /\ OneMachine /\ Current(editReq[r])
           /\ AllCurrent'
<1>1. ~overlap /\ ~Overlaps(r)
  BY DEF Write
<1>2. \A p \in EditRequests \ {r} : editReq[p].at \in {"idle", "check", "rollback"}
  BY <1>1 DEF Overlaps, AtWrite
<1>3. \A p \in EditRequests : editReq'[p].at \in {"idle", "check", "rollback"}
  BY <1>2
<1>4. AllCurrent'
  BY <1>3 DEF Current, AllCurrent
<1>5. QED
  BY <1>1, <1>4 DEF JeInd, Uncontested, AllCurrent

LEMMA AnswerAlone ==
    ASSUME JeInd, NEW r \in EditRequests, NEW what, Write(r, what), ~overlap',
           editReq' = [editReq EXCEPT ![r] = IdleRq]
    PROVE  /\ ~overlap /\ NoSelfStart /\ OneMachine /\ Current(editReq[r])
           /\ AllCurrent'
<1>1. editReq'[r].at \in {"idle", "check", "rollback"}
  BY IdleRqIs DEF JeInd, JeTypes
<1>2. \A p \in EditRequests \ {r} : editReq'[p] = editReq[p]
  BY DEF JeInd, JeTypes
<1>3. QED
  BY <1>1, <1>2, WriteAlone

-----------------------------------------------------------------------------
(* The edges under way. *)
LEMMA UnderWayIs ==
    ASSUME NEW e
    PROVE  e \in UnderWay <=> \E r \in EditRequests : /\ editReq[r].at \in {"check", "rollback"}
                                                      /\ editReq[r].edge = e
  BY DEF UnderWay

(* A handler that moves takes at most its own edge out of those under way. *)
LEMMA UnderWayMoves ==
    ASSUME JeInd, NEW r \in EditRequests, NEW q, editReq' = [editReq EXCEPT ![r] = q]
    PROVE  /\ editReq[r].at \notin {"check", "rollback"} => UnderWay \subseteq UnderWay'
           /\ UnderWay \ {editReq[r].edge} \subseteq UnderWay'
           /\ q.at \in {"check", "rollback"} => q.edge \in UnderWay'
<1>1. \A p \in EditRequests : editReq'[p] = IF p = r THEN q ELSE editReq[p]
  BY DEF JeInd, JeTypes
<1>2. \A e : e \in UnderWay' <=> \E p \in EditRequests : /\ editReq'[p].at \in {"check", "rollback"}
                                                         /\ editReq'[p].edge = e
  BY DEF UnderWay
<1>3. q.at \in {"check", "rollback"} => q.edge \in UnderWay'
  BY <1>1, <1>2
<1>4. ASSUME NEW e \in UnderWay, e # editReq[r].edge \/ editReq[r].at \notin {"check", "rollback"}
      PROVE  e \in UnderWay'
  <2>1. PICK p \in EditRequests : editReq[p].at \in {"check", "rollback"} /\ editReq[p].edge = e
    BY UnderWayIs
  <2>2. p # r
    BY <2>1, <1>4
  <2>3. QED
    BY <2>1, <2>2, <1>1, <1>2
<1>5. QED
  BY <1>3, <1>4

LEMMA StillAcyclic ==
    ASSUME JeInd, deps' \ (UnderWay' \cup unchecked') \subseteq deps \ (UnderWay \cup unchecked)
    PROVE  CheckedEdgesAcyclic'
<1>1. ~Cyclic(deps \ (UnderWay \cup unchecked))
  BY DEF JeInd, CheckedEdgesAcyclic
<1> DEFINE D == deps' \ (UnderWay' \cup unchecked')
<1>2. ~Cyclic(D)
  <2> HIDE DEF D
  <2>1. QED
    BY <1>1, FewerEdges DEF D
<1>3. QED
  BY <1>2 DEF CheckedEdgesAcyclic, Cyclic

-----------------------------------------------------------------------------
(* Reading. *)
LEMMA JeBegin ==
    ASSUME JeInd, NEW r \in EditRequests, NEW q \in EditRqs, Begin(r, q),
           OwnReq(q), KnownReq(q), Current(q)
    PROVE  JeInd'
<1>1. /\ editReq[r] = IdleRq /\ editReq' = [editReq EXCEPT ![r] = q]
      /\ UNCHANGED <<jobOwner, stepJob, stepKind, deps, unchecked, overlap>>
  BY DEF Begin
<1>2. Forward
  BY <1>1 DEF Forward
<1>3. OwnReq(q)' /\ KnownReq(q)'
  BY <1>2, ReqForward
<1>4. Requests' /\ editReq' \in [EditRequests -> EditRqs]
  BY <1>1, <1>2, <1>3, RequestsKept
<1>5. JeTypes' /\ Cascaded' /\ KnownSteps'
  BY <1>1, <1>4 DEF JeInd, JeTypes, Cascaded, KnownSteps, KnownKind
<1>6. CheckedEdgesAcyclic'
  <2>1. UnderWay \subseteq UnderWay'
    BY <1>1, IdleRqIs, UnderWayMoves
  <2>2. QED
    BY <2>1, <1>1, StillAcyclic
<1>7. Uncontested'
  BY <1>1, UncontestedSame
<1>8. QED
  BY <1>4, <1>5, <1>6, <1>7 DEF JeInd

(* A kind that is accepted is valid and known.                             *)
LEMMA Accepted ==
    ASSUME JeInd, NEW u \in Editors, NEW j \in Jobs, NEW k \in Kinds, NEW rest,
           KindAccepted(u, j, k, rest)
    PROVE  ValidFor(j, k, rest) /\ KnownKind(k)
<1>1. ASSUME k \in Jobs PROVE SafeTarget(j, k) /\ jobOwner[k] # "none"
  <2>1. k # j /\ jobOwner[k] = u /\ checkRunJobCycle(j, k)
    BY <1>1 DEF KindAccepted, validateRunJobStep, authorizeJob
  <2>2. SafeTarget(j, k)
    BY <1>1, <2>1, WalkClosed DEF SafeTarget
  <2>3. QED
    BY <2>1, <2>2, JobEditorAssumption
<1>2. QED
  BY <1>1 DEF ValidFor, KnownKind, KindAccepted

LEMMA JeReads ==
    ASSUME JeInd, NEW r \in EditRequests, NEW u \in Editors, NEW j \in Jobs,
           \/ ReadAddStep(r, u, j) \/ ReadUpdateStep(r, u, j) \/ ReadDeleteStep(r, u, j)
           \/ ReadAddDependency(r, u, j) \/ ReadRemoveDependency(r, u, j)
           \/ ReadDeleteJob(r, u, j) \/ ReadCloneJob(r, u, j)
    PROVE  JeInd'
<1>o. jobOwner[j] = u
  BY DEF ReadAddStep, ReadUpdateStep, ReadDeleteStep, ReadAddDependency,
         ReadRemoveDependency, ReadDeleteJob, ReadCloneJob, authorizeJobByID, authorizeJob
<1>s. \A s : jobOwnsStep(j, s) => s \in StepIds /\ stepJob[s] = j
  BY DEF jobOwnsStep, StepsOf
<1>1. CASE ReadAddStep(r, u, j)
  <2>1. PICK k \in Kinds :
           /\ KindAccepted(u, j, k, StepsOf(j))
           /\ Begin(r, [at |-> "AddStep", user |-> u, job |-> j, kind |-> k])
    BY <1>1 DEF ReadAddStep
  <2> DEFINE q == [at |-> "AddStep", user |-> u, job |-> j, kind |-> k]
  <2>2. /\ q \in AddRq /\ q.at = "AddStep" /\ q.user = u /\ q.job = j /\ q.kind = k
        /\ Begin(r, q)
    BY <2>1 DEF AddRq
  <2> HIDE DEF q
  <2>3. q \in EditRqs
    BY <2>2 DEF EditRqs
  <2>4. ValidFor(j, k, StepsOf(j)) /\ KnownKind(k)
    BY <2>1, Accepted
  <2>5. OwnReq(q) /\ KnownReq(q) /\ Current(q)
    BY <2>2, <2>4, <1>o DEF OwnReq, KnownReq, Current, EdgeAts
  <2>6. QED
    BY <2>2, <2>3, <2>5, JeBegin
<1>2. CASE ReadUpdateStep(r, u, j)
  <2>1. PICK s \in StepIds, k \in Kinds :
           /\ jobOwnsStep(j, s)
           /\ KindAccepted(u, j, k, StepsOf(j) \ {s})
           /\ Begin(r, [at |-> "UpdateStep", user |-> u, job |-> j, step |-> s, kind |-> k])
    BY <1>2 DEF ReadUpdateStep
  <2> DEFINE q == [at |-> "UpdateStep", user |-> u, job |-> j, step |-> s, kind |-> k]
  <2>2. /\ q \in UpdRq /\ q.at = "UpdateStep" /\ q.user = u /\ q.job = j /\ q.kind = k
        /\ q.step = s /\ Begin(r, q)
    BY <2>1 DEF UpdRq
  <2> HIDE DEF q
  <2>3. q \in EditRqs
    BY <2>2 DEF EditRqs
  <2>4. ValidFor(j, k, StepsOf(j) \ {s}) /\ KnownKind(k)
    BY <2>1, Accepted
  <2>5. OwnReq(q) /\ KnownReq(q) /\ Current(q)
    BY <2>1, <2>2, <2>4, <1>o, <1>s DEF OwnReq, KnownReq, Current, EdgeAts
  <2>6. QED
    BY <2>2, <2>3, <2>5, JeBegin
<1>3. CASE ReadDeleteStep(r, u, j)
  <2>1. PICK s \in StepIds :
           /\ jobOwnsStep(j, s)
           /\ Begin(r, [at |-> "DeleteStep", user |-> u, job |-> j, step |-> s])
    BY <1>3 DEF ReadDeleteStep
  <2> DEFINE q == [at |-> "DeleteStep", user |-> u, job |-> j, step |-> s]
  <2>2. /\ q \in DelRq /\ q.at = "DeleteStep" /\ q.user = u /\ q.job = j
        /\ q.step = s /\ Begin(r, q)
    BY <2>1 DEF DelRq
  <2> HIDE DEF q
  <2>3. q \in EditRqs
    BY <2>2 DEF EditRqs
  <2>4. OwnReq(q) /\ KnownReq(q) /\ Current(q)
    BY <2>1, <2>2, <1>o, <1>s DEF OwnReq, KnownReq, Current, EdgeAts
  <2>5. QED
    BY <2>2, <2>3, <2>4, JeBegin
<1>4. CASE ReadAddDependency(r, u, j) \/ ReadRemoveDependency(r, u, j)
  <2>1. PICK s \in StepIds, t \in StepIds, what \in {"AddDependency", "RemoveDependency"} :
           /\ jobOwnsStep(j, s) /\ jobOwnsStep(j, t)
           /\ Begin(r, [at |-> what, user |-> u, job |-> j, edge |-> <<s, t>>])
    BY <1>4 DEF ReadAddDependency, ReadRemoveDependency
  <2> DEFINE q == [at |-> what, user |-> u, job |-> j, edge |-> <<s, t>>]
  <2>2. /\ q \in EdgeRq /\ q.at = what /\ q.user = u /\ q.job = j
        /\ q.edge[1] = s /\ q.edge[2] = t /\ Begin(r, q)
    BY <2>1 DEF EdgeRq, EdgeAts
  <2> HIDE DEF q
  <2>3. q \in EditRqs
    BY <2>2 DEF EditRqs
  <2>4. OwnReq(q) /\ KnownReq(q) /\ Current(q)
    BY <2>1, <2>2, <1>o, <1>s DEF OwnReq, KnownReq, Current, EdgeAts
  <2>5. QED
    BY <2>2, <2>3, <2>4, JeBegin
<1>5. CASE ReadDeleteJob(r, u, j)
  <2> DEFINE q == [at |-> "DeleteJob", user |-> u, job |-> j]
  <2>1. /\ q \in JobRq /\ q.at = "DeleteJob" /\ q.user = u /\ q.job = j /\ Begin(r, q)
    BY <1>5 DEF ReadDeleteJob, JobRq
  <2> HIDE DEF q
  <2>2. q \in EditRqs
    BY <2>1 DEF EditRqs
  <2>3. OwnReq(q) /\ KnownReq(q) /\ Current(q)
    BY <2>1, <1>o DEF OwnReq, KnownReq, Current, EdgeAts
  <2>4. QED
    BY <2>1, <2>2, <2>3, JeBegin
<1>6. CASE ReadCloneJob(r, u, j)
  <2> DEFINE st == [s \in StepsOf(j) |-> stepKind[s]]
  <2> DEFINE q == [at |-> "CloneJob", user |-> u, job |-> j, steps |-> st, edges |-> DepsOf(j)]
  <2>1. /\ StepsOf(j) \in SUBSET StepIds
        /\ st \in [StepsOf(j) -> Kinds] /\ DOMAIN st = StepsOf(j)
        /\ \A s \in StepsOf(j) : st[s] = stepKind[s]
    BY DEF StepsOf, JeInd, JeTypes
  <2>2. st \in UNION {[S -> Kinds] : S \in SUBSET StepIds}
    BY <2>1
  <2>3. /\ DepsOf(j) \in SUBSET (StepIds \X StepIds)
        /\ \A d \in DepsOf(j) : d[1] \in StepsOf(j) /\ d[2] \in StepsOf(j)
    BY DEF DepsOf, StepsOf, JeInd, JeTypes, Cascaded
  <2>4. Begin(r, q) /\ st = [s \in StepsOf(j) |-> stepKind[s]]
    BY <1>6 DEF ReadCloneJob
  <2> HIDE DEF st
  <2>5. /\ q \in CloneRq /\ q.at = "CloneJob" /\ q.user = u /\ q.job = j /\ q.steps = st
        /\ q.edges = DepsOf(j)
    BY <2>2, <2>3 DEF CloneRq
  <2> HIDE DEF q
  <2>6. q \in EditRqs
    BY <2>5 DEF EditRqs
  <2>7. OwnReq(q)
    BY <2>1, <2>3, <2>5, <1>o DEF OwnReq, EdgeAts
  <2>8. KnownReq(q)
    BY <2>1, <2>5 DEF KnownReq, JeInd, KnownSteps
  <2>9. Current(q)
    BY <2>4, <2>5 DEF Current
  <2>10. QED
    BY <2>4, <2>6, <2>7, <2>8, <2>9, JeBegin
<1>7. QED
  BY <1>1, <1>2, <1>3, <1>4, <1>5, <1>6

LEMMA JeCreateJob ==
    ASSUME JeInd, NEW u \in Editors, CreateJob(u)
    PROVE  JeInd'
<1>1. PICK j \in Jobs : jobOwner[j] = "none" /\ jobOwner' = [jobOwner EXCEPT ![j] = u]
  BY DEF CreateJob, InsertJob
<1>2. UNCHANGED <<stepJob, stepKind, deps, editReq, unchecked, overlap>>
  BY DEF CreateJob
<1>3. "none" \notin Editors
  BY JobEditorAssumption
<1>4. /\ jobOwner' \in [Jobs -> Editors \cup {"none", "deleted"}]
      /\ \A k \in Jobs : jobOwner'[k] = IF k = j THEN u ELSE jobOwner[k]
  BY <1>1 DEF JeInd, JeTypes
<1>5. Forward
  BY <1>1, <1>2, <1>3, <1>4 DEF Forward
<1>6. Requests'
  BY <1>2, <1>5, RequestsSame
<1>7. JeTypes' /\ Cascaded' /\ KnownSteps'
  BY <1>2, <1>3, <1>4 DEF JeInd, JeTypes, Cascaded, KnownSteps, KnownKind
<1>8. CheckedEdgesAcyclic'
  BY <1>2, StillAcyclic DEF UnderWay
<1>9. Uncontested'
  <2> SUFFICES ASSUME ~overlap
               PROVE  NoSelfStart' /\ OneMachine' /\ AllCurrent'
    BY <1>2 DEF Uncontested
  <2>1. NoSelfStart /\ OneMachine /\ \A p \in EditRequests : Current(editReq[p])
    BY DEF JeInd, Uncontested, AllCurrent
  <2>2. ASSUME NEW p \in EditRequests PROVE Current(editReq[p])'
    <3>1. PICK o : o = editReq[p]
      OBVIOUS
    <3>2. Current(o)'
      BY <2>1, <3>1, <1>2, SameSteps
    <3>3. editReq'[p] = o
      BY <3>1, <1>2
    <3>4. QED
      BY <3>2, <3>3 DEF Current, StepsOf, ValidFor, SafeTarget, Calls, ValidateJobSteps
  <2>3. QED
    BY <2>1, <2>2, <1>2, SameSteps DEF AllCurrent
<1>10. QED
  BY <1>6, <1>7, <1>8, <1>9 DEF JeInd

-----------------------------------------------------------------------------
(* Writing. *)

(* A call is added to a target that reaches only jobs other than the       *)
(* caller: no job starts itself if none did.  Those the target reaches     *)
(* would have had a cycle of their own before, and without them the new    *)
(* call is no part of one.                                                 *)
LEMMA NoNewCycle ==
    ASSUME NoSelfStart, NEW j \in Jobs, NEW k, k \in Jobs => SafeTarget(j, k),
           \A x, y \in Jobs : Calls(x, y)' => Calls(x, y) \/ (x = j /\ y = k)
    PROVE  NoSelfStart'
<1> SUFFICES ASSUME NEW J \in SUBSET Jobs, J # {}, \A x \in J : \E y \in J : Calls(x, y)'
             PROVE  FALSE
  BY DEF NoSelfStart
<1>1. CASE k \notin Jobs
  BY <1>1 DEF NoSelfStart
<1>2. CASE k \in Jobs
  <2>1. PICK R \in SUBSET Jobs :
           /\ k \in R /\ j \notin R
           /\ \A x \in R, y \in Jobs : Calls(x, y) => y \in R
    BY <1>2 DEF SafeTarget
  <2>2. CASE J \cap R # {}
    <3>1. ASSUME NEW x \in J \cap R PROVE \E y \in J \cap R : Calls(x, y)
      <4>1. PICK y \in J : Calls(x, y)'
        OBVIOUS
      <4>2. x # j
        BY <2>1
      <4>3. Calls(x, y)
        BY <4>1, <4>2
      <4>4. QED
        BY <4>3, <2>1
    <3>2. J \cap R \in SUBSET Jobs
      OBVIOUS
    <3>3. QED
      BY <2>2, <3>1, <3>2 DEF NoSelfStart
  <2>3. CASE J \cap R = {}
    <3>1. k \notin J
      BY <2>1, <2>3
    <3>2. \A x \in J : \E y \in J : Calls(x, y)
      BY <3>1
    <3>3. QED
      BY <3>2 DEF NoSelfStart
  <2>4. QED
    BY <2>2, <2>3
<1>3. QED
  BY <1>1, <1>2

(* The handler answers: its request is gone.                               *)
LEMMA IdleIsGood == OwnReq(IdleRq)' /\ KnownReq(IdleRq)' /\ Current(IdleRq) /\ Current(IdleRq)'
  BY IdleRqIs DEF OwnReq, KnownReq, Current

(* What a handler at a write knows of its request.                         *)
LEMMA AtRequest ==
    ASSUME JeInd, NEW r \in EditRequests
    PROVE  /\ editReq[r] \in EditRqs /\ RqFacts(editReq[r])
           /\ OwnReq(editReq[r]) /\ KnownReq(editReq[r])
  BY RqIs DEF JeInd, JeTypes, Requests

LEMMA JeAddStep ==
    ASSUME JeInd, NEW r \in EditRequests, AddStep(r)
    PROVE  JeInd'
<1>a. "none" \notin Jobs /\ "deleted" \notin Jobs /\ "none" \notin Editors /\ "deleted" \notin Editors
  BY JobEditorAssumption
<1>1. /\ Write(r, "AddStep") /\ editReq' = [editReq EXCEPT ![r] = IdleRq]
      /\ UNCHANGED <<jobOwner, deps, unchecked>>
  BY DEF AddStep, Answer
<1>2. editReq[r].at = "AddStep" /\ overlap' \in BOOLEAN
  BY <1>1 DEF Write, JeInd, JeTypes
<1>3. PICK j \in Jobs, k \in Kinds : j = editReq[r].job /\ k = editReq[r].kind /\ KnownKind(k)
  BY <1>2, AtRequest, IdleRqIs DEF RqFacts, KnownReq
<1>4. \/ UNCHANGED <<stepJob, stepKind>>
      \/ (/\ jobOwner[j] \in Editors
          /\ \E s \in StepIds : /\ stepJob[s] = "none"
                                /\ stepJob' = [stepJob EXCEPT ![s] = j]
                                /\ stepKind' = [stepKind EXCEPT ![s] = k])
  BY <1>3 DEF AddStep
<1>5. CASE UNCHANGED <<stepJob, stepKind>>
  <2>1. Forward
    BY <1>1, <1>5 DEF Forward
  <2>2. Requests' /\ editReq' \in [EditRequests -> EditRqs]
    BY <1>1, <2>1, IdleIsGood, IdleRqIs, RequestsKept
  <2>3. JeTypes' /\ Cascaded' /\ KnownSteps'
    BY <1>1, <1>2, <1>5, <2>2 DEF JeInd, JeTypes, Cascaded, KnownSteps, KnownKind
  <2>4. CheckedEdgesAcyclic'
    BY <1>1, <1>2, UnderWayMoves, StillAcyclic
  <2>5. Uncontested'
    BY <1>1, <1>5, AnswerAlone, SameSteps DEF Uncontested
  <2>6. QED
    BY <2>2, <2>3, <2>4, <2>5 DEF JeInd
<1>6. ASSUME jobOwner[j] \in Editors, NEW s \in StepIds, stepJob[s] = "none",
             stepJob' = [stepJob EXCEPT ![s] = j], stepKind' = [stepKind EXCEPT ![s] = k]
      PROVE  JeInd'
  <2>1. /\ stepJob' \in [StepIds -> Jobs \cup {"none", "deleted"}]
        /\ stepKind' \in [StepIds -> Kinds]
        /\ stepJob'[s] = j /\ stepKind'[s] = k
        /\ \A t \in StepIds \ {s} : stepJob'[t] = stepJob[t] /\ stepKind'[t] = stepKind[t]
    BY <1>6 DEF JeInd, JeTypes
  <2>2. Forward
    BY <1>1, <1>6, <2>1 DEF Forward
  <2>3. Requests' /\ editReq' \in [EditRequests -> EditRqs]
    BY <1>1, <2>2, IdleIsGood, IdleRqIs, RequestsKept
  <2>4. JeTypes'
    BY <1>1, <1>2, <2>1, <2>3 DEF JeInd, JeTypes
  <2>5. Cascaded'
    <3>1. \A t \in StepIds : stepJob'[t] \in Jobs => jobOwner'[stepJob'[t]] \in Editors
      BY <1>1, <1>6, <2>1 DEF JeInd, Cascaded
    <3>2. \A d \in deps : d[1] \in StepIds \ {s} /\ d[2] \in StepIds \ {s}
      BY <1>6, <1>a DEF JeInd, Cascaded, JeTypes
    <3>3. QED
      BY <3>1, <3>2, <1>1, <2>1 DEF JeInd, Cascaded
  <2>6. KnownSteps'
    BY <1>1, <1>3, <2>1 DEF JeInd, KnownSteps, KnownKind
  <2>7. CheckedEdgesAcyclic'
    BY <1>1, <1>2, UnderWayMoves, StillAcyclic
  <2>8. Uncontested'
    <3> SUFFICES ASSUME ~overlap'
                 PROVE  NoSelfStart' /\ OneMachine' /\ AllCurrent'
      BY DEF Uncontested
    <3>1. /\ NoSelfStart /\ OneMachine /\ Current(editReq[r])
          /\ AllCurrent'
      BY <1>1, AnswerAlone
    <3>2. ValidFor(j, k, StepsOf(j))
      BY <3>1, <1>2, <1>3 DEF Current
    <3>3. NoSelfStart'
      <4>1. \A x, y \in Jobs : Calls(x, y)' => Calls(x, y) \/ (x = j /\ y = k)
        BY <2>1 DEF Calls
      <4>2. QED
        BY <4>1, <3>1, <3>2, NoNewCycle DEF ValidFor
    <3>4. ASSUME NEW x \in Jobs, NEW t \in StepsOf(x)', NEW v \in StepsOf(x)',
                 stepKind'[t] \in Machines, stepKind'[v] \in Machines
          PROVE  stepKind'[t] = stepKind'[v]
      <4>1. \A w \in StepsOf(x)' : \/ (w = s /\ x = j /\ stepKind'[w] = k)
                                   \/ (w \in StepsOf(x) /\ stepKind'[w] = stepKind[w])
        BY <2>1 DEF StepsOf
      <4>2. \A w \in StepsOf(j) : stepKind[w] \in Machines /\ k \in Machines => stepKind[w] = k
        BY <3>2 DEF ValidFor, ValidateJobSteps
      <4>3. \A w, z \in StepsOf(x) :
               stepKind[w] \in Machines /\ stepKind[z] \in Machines => stepKind[w] = stepKind[z]
        BY <3>1 DEF OneMachine
      <4>4. CASE stepKind'[t] = k /\ x = j /\ t = s
        BY <4>1, <4>2, <4>4, <3>4
      <4>5. CASE t \in StepsOf(x) /\ stepKind'[t] = stepKind[t]
        BY <4>1, <4>2, <4>3, <4>5, <3>4
      <4>6. QED
        BY <4>1, <4>4, <4>5, <3>4
    <3>5. OneMachine'
      BY <3>4 DEF OneMachine
    <3>6. QED
      BY <3>1, <3>3, <3>5
  <2>9. QED
    BY <2>3, <2>4, <2>5, <2>6, <2>7, <2>8 DEF JeInd
<1>7. QED
  BY <1>4, <1>5, <1>6

LEMMA JeUpdateStep ==
    ASSUME JeInd, NEW r \in EditRequests, UpdateStep(r)
    PROVE  JeInd'
<1>a. "none" \notin Jobs /\ "deleted" \notin Jobs
  BY JobEditorAssumption
<1>1. /\ Write(r, "UpdateStep") /\ editReq' = [editReq EXCEPT ![r] = IdleRq]
      /\ UNCHANGED <<jobOwner, stepJob, deps, unchecked>>
  BY DEF UpdateStep, Answer
<1>2. editReq[r].at = "UpdateStep" /\ overlap' \in BOOLEAN
  BY <1>1 DEF Write, JeInd, JeTypes
<1>3. PICK j \in Jobs, k \in Kinds, s \in StepIds :
         /\ j = editReq[r].job /\ k = editReq[r].kind /\ s = editReq[r].step
         /\ KnownKind(k) /\ stepJob[s] \in {j, "deleted"}
  BY <1>2, AtRequest, IdleRqIs DEF RqFacts, KnownReq, OwnReq
<1>4. stepKind' = IF stepJob[s] \in Jobs THEN [stepKind EXCEPT ![s] = k] ELSE stepKind
  BY <1>3 DEF UpdateStep
<1>5. /\ stepKind' \in [StepIds -> Kinds]
      /\ stepJob[s] = j => stepKind'[s] = k
      /\ \A t \in StepIds : t # s \/ stepJob[t] # j => stepKind'[t] = stepKind[t]
      /\ \A t \in StepIds : stepKind'[t] = stepKind[t] \/ stepKind'[t] = k
  BY <1>3, <1>4, <1>a DEF JeInd, JeTypes
<1>6. Forward
  BY <1>1 DEF Forward
<1>7. Requests' /\ editReq' \in [EditRequests -> EditRqs]
  BY <1>1, <1>6, IdleIsGood, IdleRqIs, RequestsKept
<1>8. JeTypes' /\ Cascaded'
  BY <1>1, <1>2, <1>5, <1>7 DEF JeInd, JeTypes, Cascaded
<1>9. KnownSteps'
  BY <1>1, <1>3, <1>5 DEF JeInd, KnownSteps, KnownKind
<1>10. CheckedEdgesAcyclic'
  BY <1>1, <1>2, UnderWayMoves, StillAcyclic
<1>11. Uncontested'
  <2> SUFFICES ASSUME ~overlap'
               PROVE  NoSelfStart' /\ OneMachine' /\ AllCurrent'
    BY DEF Uncontested
  <2>1. /\ NoSelfStart /\ OneMachine /\ Current(editReq[r])
        /\ AllCurrent'
    BY <1>1, AnswerAlone
  <2>2. ValidFor(j, k, StepsOf(j) \ {s})
    BY <2>1, <1>2, <1>3 DEF Current
  <2>3. NoSelfStart'
    <3>1. \A x, y \in Jobs : Calls(x, y)' => Calls(x, y) \/ (x = j /\ y = k)
      BY <1>1, <1>3, <1>5, <1>a DEF Calls
    <3>2. QED
      BY <3>1, <2>1, <2>2, NoNewCycle DEF ValidFor
  <2>4. ASSUME NEW x \in Jobs, NEW t \in StepsOf(x)', NEW v \in StepsOf(x)',
               stepKind'[t] \in Machines, stepKind'[v] \in Machines
        PROVE  stepKind'[t] = stepKind'[v]
    <3>0. t \in StepsOf(x) /\ v \in StepsOf(x)
      BY <1>1 DEF StepsOf
    <3>1. \A w \in StepsOf(x) : \/ (w = s /\ x = j /\ stepKind'[w] = k)
                                \/ ((w # s \/ x # j) /\ stepKind'[w] = stepKind[w])
      BY <1>3, <1>5 DEF StepsOf
    <3>2. \A w \in StepsOf(j) \ {s} :
             stepKind[w] \in Machines /\ k \in Machines => stepKind[w] = k
      BY <2>2 DEF ValidFor, ValidateJobSteps
    <3>3. \A w, z \in StepsOf(x) :
             stepKind[w] \in Machines /\ stepKind[z] \in Machines => stepKind[w] = stepKind[z]
      BY <2>1 DEF OneMachine
    <3>4. CASE t = s /\ x = j /\ stepKind'[t] = k
      BY <3>0, <3>1, <3>2, <3>4, <2>4
    <3>5. CASE (t # s \/ x # j) /\ stepKind'[t] = stepKind[t]
      BY <3>0, <3>1, <3>2, <3>3, <3>5, <2>4
    <3>6. QED
      BY <3>0, <3>1, <3>4, <3>5
  <2>5. OneMachine'
    BY <2>4 DEF OneMachine
  <2>6. QED
    BY <2>1, <2>3, <2>5
<1>12. QED
  BY <1>7, <1>8, <1>9, <1>10, <1>11 DEF JeInd

(* Steps go, with the edges at them.                                       *)
LEMMA JeWithout ==
    ASSUME JeInd, NEW S \in SUBSET StepIds, NEW r \in EditRequests, NEW what,
           what \notin {"check", "rollback"}, Write(r, what), Without(S),
           editReq' = [editReq EXCEPT ![r] = IdleRq],
           jobOwner' \in [Jobs -> Editors \cup {"none", "deleted"}],
           \A j \in Jobs : \/ jobOwner'[j] = jobOwner[j]
                           \/ (/\ jobOwner[j] # "none" /\ jobOwner'[j] = "deleted"
                               /\ StepsOf(j) \subseteq S)
    PROVE  JeInd'
<1>a. "none" \notin Jobs /\ "deleted" \notin Jobs /\ "plain" \notin Jobs /\ "plain" \notin Machines
      /\ "plain" \in Kinds
  BY JobEditorAssumption DEF Kinds
<1>1. /\ stepJob' \in [StepIds -> Jobs \cup {"none", "deleted"}]
      /\ stepKind' \in [StepIds -> Kinds]
      /\ \A s \in S : stepJob'[s] = "deleted" /\ stepKind'[s] = "plain"
      /\ \A s \in StepIds \ S : stepJob'[s] = stepJob[s] /\ stepKind'[s] = stepKind[s]
  BY <1>a DEF Without, JeInd, JeTypes
<1>2. /\ deps' = {d \in deps : d[1] \notin S /\ d[2] \notin S}
      /\ unchecked' = unchecked \cap deps'
  BY DEF Without
<1>3. editReq[r].at = what /\ overlap' \in BOOLEAN
  BY DEF Write, JeInd, JeTypes
<1>4. Forward
  BY <1>1 DEF Forward
<1>5. Requests' /\ editReq' \in [EditRequests -> EditRqs]
  BY <1>4, IdleIsGood, IdleRqIs, RequestsKept
<1>6. JeTypes'
  BY <1>1, <1>2, <1>3, <1>5 DEF JeInd, JeTypes
<1>7. Cascaded'
  <2>1. ASSUME NEW s \in StepIds, stepJob'[s] \in Jobs PROVE jobOwner'[stepJob'[s]] \in Editors
    <3>1. s \notin S /\ stepJob'[s] = stepJob[s]
      BY <2>1, <1>1, <1>a
    <3>2. jobOwner[stepJob[s]] \in Editors /\ s \in StepsOf(stepJob[s])
      BY <3>1, <2>1 DEF JeInd, Cascaded, StepsOf
    <3>3. QED
      BY <3>1, <3>2, <2>1
  <2>2. ASSUME NEW d \in deps' PROVE stepJob'[d[1]] = stepJob'[d[2]] /\ stepJob'[d[1]] \in Jobs
    <3>1. d \in deps /\ d[1] \in StepIds \ S /\ d[2] \in StepIds \ S
      BY <1>2 DEF JeInd, JeTypes
    <3>2. QED
      BY <3>1, <1>1 DEF JeInd, Cascaded
  <2>3. QED
    BY <2>1, <2>2 DEF Cascaded
<1>8. KnownSteps'
  BY <1>1, <1>a DEF JeInd, KnownSteps, KnownKind
<1>9. CheckedEdgesAcyclic'
  <2>1. UnderWay \subseteq UnderWay'
    BY <1>3, UnderWayMoves
  <2>2. QED
    BY <2>1, <1>2, StillAcyclic
<1>10. Uncontested'
  <2> SUFFICES ASSUME ~overlap'
               PROVE  NoSelfStart' /\ OneMachine' /\ AllCurrent'
    BY DEF Uncontested
  <2>1. NoSelfStart /\ OneMachine /\ AllCurrent'
    BY AnswerAlone
  <2>2. \A x, y \in Jobs : Calls(x, y)' => Calls(x, y)
    BY <1>1, <1>a DEF Calls
  <2>3. NoSelfStart'
    BY <2>1, <2>2 DEF NoSelfStart
  <2>4. \A x \in Jobs : \A t \in StepsOf(x)' : t \in StepsOf(x) /\ stepKind'[t] = stepKind[t]
    BY <1>1, <1>a DEF StepsOf
  <2>5. OneMachine'
    BY <2>1, <2>4 DEF OneMachine
  <2>6. QED
    BY <2>1, <2>3, <2>5
<1>11. QED
  BY <1>5, <1>6, <1>7, <1>8, <1>9, <1>10 DEF JeInd

LEMMA JeDeletes ==
    ASSUME JeInd, NEW r \in EditRequests, DeleteStep(r) \/ DeleteJob(r)
    PROVE  JeInd'
<1>1. CASE DeleteStep(r)
  <2>1. /\ Write(r, "DeleteStep") /\ Without({editReq[r].step})
        /\ editReq' = [editReq EXCEPT ![r] = IdleRq] /\ jobOwner' = jobOwner
    BY <1>1 DEF DeleteStep, Answer
  <2>2. editReq[r].step \in StepIds
    BY <2>1, AtRequest DEF Write, RqFacts
  <2>3. jobOwner' \in [Jobs -> Editors \cup {"none", "deleted"}]
    BY <2>1 DEF JeInd, JeTypes
  <2>4. QED
    BY <2>1, <2>2, <2>3, JeWithout
<1>2. CASE DeleteJob(r)
  <2>1. /\ Write(r, "DeleteJob") /\ Without(StepsOf(editReq[r].job))
        /\ jobOwner' = [jobOwner EXCEPT ![editReq[r].job] = "deleted"]
        /\ editReq' = [editReq EXCEPT ![r] = IdleRq]
    BY <1>2 DEF DeleteJob, Answer
  <2>2. editReq[r].at = "DeleteJob"
    BY <2>1 DEF Write
  <2>3. PICK j \in Jobs : j = editReq[r].job /\ jobOwner[j] \in {editReq[r].user, "deleted"}
                          /\ editReq[r].user \in Editors
    BY <2>2, AtRequest, IdleRqIs DEF RqFacts, OwnReq
  <2>4. jobOwner[j] # "none"
    BY <2>3, JobEditorAssumption
  <2>5. /\ jobOwner' \in [Jobs -> Editors \cup {"none", "deleted"}]
        /\ \A k \in Jobs : jobOwner'[k] = IF k = j THEN "deleted" ELSE jobOwner[k]
    BY <2>1, <2>3 DEF JeInd, JeTypes
  <2>6. StepsOf(j) \in SUBSET StepIds
    BY DEF StepsOf
  <2>7. \A k \in Jobs : \/ jobOwner'[k] = jobOwner[k]
                        \/ (/\ jobOwner[k] # "none" /\ jobOwner'[k] = "deleted"
                            /\ StepsOf(k) \subseteq StepsOf(j))
    BY <2>4, <2>5
  <2>8. Without(StepsOf(j))
    BY <2>1, <2>3
  <2>9. QED
    BY <2>1, <2>5, <2>6, <2>7, <2>8, JeWithout
<1>3. QED
  BY <1>1, <1>2

(* The clone has fresh steps: nothing starts the new job, its steps are    *)
(* copies of the steps of a job that was in order, and nobody checks its   *)
(* edges.                                                                  *)
LEMMA JeCloneJob ==
    ASSUME JeInd, NEW r \in EditRequests, CloneJob(r)
    PROVE  JeInd'
<1>a. "none" \notin Jobs /\ "deleted" \notin Jobs /\ "none" \notin Editors
  BY JobEditorAssumption
<1>1. Write(r, "CloneJob") /\ editReq' = [editReq EXCEPT ![r] = IdleRq]
  BY DEF CloneJob, Answer
<1>2. editReq[r].at = "CloneJob" /\ overlap' \in BOOLEAN
  BY <1>1 DEF Write, JeInd, JeTypes
<1> DEFINE st == editReq[r].steps
<1> DEFINE old == DOMAIN st
<1>3. PICK j \in Jobs, copy \in [old -> StepIds] :
          /\ jobOwner[j] = "none"
          /\ \A s \in old : stepJob[copy[s]] = "none"
          /\ \A s, t \in old : copy[s] = copy[t] => s = t
          /\ jobOwner' = [jobOwner EXCEPT ![j] = editReq[r].user]
          /\ stepJob' = [s \in StepIds |-> IF \E o \in old : copy[o] = s THEN j ELSE stepJob[s]]
          /\ stepKind' = [s \in StepIds |-> IF \E o \in old : copy[o] = s
                             THEN st[CHOOSE o \in old : copy[o] = s] ELSE stepKind[s]]
          /\ deps' = deps \cup {<<copy[d[1]], copy[d[2]]>> : d \in editReq[r].edges}
          /\ unchecked' = unchecked \cup {<<copy[d[1]], copy[d[2]]>> : d \in editReq[r].edges}
  BY DEF CloneJob
<1>4. /\ st \in [old -> Kinds] /\ old \subseteq StepIds
      /\ \A d \in editReq[r].edges : d[1] \in old /\ d[2] \in old
      /\ \A s \in old : KnownKind(st[s])
      /\ editReq[r].user \in Editors /\ editReq[r].job \in Jobs
  BY <1>2, AtRequest, IdleRqIs DEF RqFacts, OwnReq, KnownReq
<1> DEFINE copies == {<<copy[d[1]], copy[d[2]]>> : d \in editReq[r].edges}
<1>5. deps' = deps \cup copies /\ unchecked' = unchecked \cup copies
  BY <1>3
<1>6. copies \subseteq StepIds \X StepIds
  BY <1>3, <1>4
<1>7. ASSUME NEW o \in old
      PROVE  copy[o] \in StepIds /\ stepJob'[copy[o]] = j /\ stepKind'[copy[o]] = st[o]
  <2>1. copy[o] \in StepIds
    BY <1>3
  <2>2. (CHOOSE p \in old : copy[p] = copy[o]) = o
    BY <1>3
  <2>3. QED
    BY <2>1, <2>2, <1>3
<1>8. ASSUME NEW s \in StepIds, \A o \in old : copy[o] # s
      PROVE  stepJob'[s] = stepJob[s] /\ stepKind'[s] = stepKind[s]
  BY <1>3, <1>8
<1>9. /\ jobOwner' \in [Jobs -> Editors \cup {"none", "deleted"}]
      /\ jobOwner'[j] = editReq[r].user
      /\ \A k \in Jobs \ {j} : jobOwner'[k] = jobOwner[k]
  BY <1>3, <1>4 DEF JeInd, JeTypes
<1>10. \A d \in copies : \E o, p \in old : d = <<copy[o], copy[p]>>
  BY <1>4
<1> HIDE DEF copies
<1>11. ASSUME NEW s \in StepIds, stepJob[s] # "none"
       PROVE  stepJob'[s] = stepJob[s] /\ stepKind'[s] = stepKind[s]
  BY <1>3, <1>8, <1>11
<1>12. /\ stepJob' \in [StepIds -> Jobs \cup {"none", "deleted"}]
       /\ stepKind' \in [StepIds -> Kinds]
  <2>1. \A s \in StepIds : stepJob'[s] \in Jobs \cup {"none", "deleted"} /\ stepKind'[s] \in Kinds
    BY <1>4, <1>7, <1>8 DEF JeInd, JeTypes
  <2>2. QED
    BY <2>1, <1>3
<1>13. Forward
  BY <1>3, <1>4, <1>9, <1>11, <1>a DEF Forward
<1>14. Requests' /\ editReq' \in [EditRequests -> EditRqs]
  BY <1>1, <1>13, IdleIsGood, IdleRqIs, RequestsKept
<1>15. JeTypes'
  BY <1>2, <1>5, <1>6, <1>9, <1>12, <1>14 DEF JeInd, JeTypes
<1>16. Cascaded'
  <2>1. ASSUME NEW s \in StepIds, stepJob'[s] \in Jobs PROVE jobOwner'[stepJob'[s]] \in Editors
    <3>1. CASE \E o \in old : copy[o] = s
      BY <3>1, <1>4, <1>7, <1>9
    <3>2. CASE \A o \in old : copy[o] # s
      <4>1. stepJob'[s] = stepJob[s]
        BY <3>2, <1>8
      <4>2. jobOwner[stepJob[s]] \in Editors
        BY <4>1, <2>1 DEF JeInd, Cascaded
      <4>3. stepJob[s] # j
        BY <4>2, <1>3, <1>a
      <4>4. QED
        BY <4>1, <4>2, <4>3, <2>1, <1>9
    <3>3. QED
      BY <3>1, <3>2
  <2>2. ASSUME NEW d \in deps' PROVE stepJob'[d[1]] = stepJob'[d[2]] /\ stepJob'[d[1]] \in Jobs
    <3>1. CASE d \in copies
      <4>1. PICK o \in old, p \in old : d = <<copy[o], copy[p]>>
        BY <3>1, <1>10
      <4>2. QED
        BY <4>1, <1>7
    <3>2. CASE d \in deps
      <4>1. d[1] \in StepIds /\ d[2] \in StepIds
            /\ stepJob[d[1]] = stepJob[d[2]] /\ stepJob[d[1]] \in Jobs
        BY <3>2 DEF JeInd, JeTypes, Cascaded
      <4>2. QED
        BY <4>1, <1>11, <1>a
    <3>3. QED
      BY <3>1, <3>2, <1>5
  <2>3. QED
    BY <2>1, <2>2 DEF Cascaded
(* Nobody starts the new job. *)
<1>17. ASSUME NEW s \in StepIds, stepKind'[s] \in Jobs
       PROVE  jobOwner[stepKind'[s]] # "none"
  <2>1. CASE \E o \in old : copy[o] = s
    BY <2>1, <1>4, <1>7, <1>17 DEF KnownKind
  <2>2. CASE \A o \in old : copy[o] # s
    BY <2>2, <1>8, <1>17 DEF JeInd, KnownSteps, KnownKind
  <2>3. QED
    BY <2>1, <2>2
<1>18. KnownSteps'
  <2> SUFFICES ASSUME NEW s \in StepIds, stepKind'[s] \in Jobs PROVE jobOwner'[stepKind'[s]] # "none"
    BY DEF KnownSteps, KnownKind
  <2>1. stepKind'[s] # j
    BY <1>3, <1>17
  <2>2. QED
    BY <2>1, <1>9, <1>17
<1>19. CheckedEdgesAcyclic'
  <2>1. UnderWay \subseteq UnderWay'
    BY <1>1, <1>2, UnderWayMoves
  <2>2. QED
    BY <2>1, <1>5, StillAcyclic
<1>20. Uncontested'
  <2> SUFFICES ASSUME ~overlap' PROVE NoSelfStart' /\ OneMachine' /\ AllCurrent'
    BY DEF Uncontested
  <2>1. NoSelfStart /\ OneMachine /\ AllCurrent' /\ Current(editReq[r])
    BY <1>1, AnswerAlone
  <2>2. \A x, y \in Jobs : Calls(x, y)' => y # j
    <3> SUFFICES ASSUME NEW x \in Jobs, NEW y \in Jobs, Calls(x, y)' PROVE y # j
      OBVIOUS
    <3>1. PICK s \in StepIds : stepKind'[s] = y
      BY DEF Calls
    <3>2. QED
      BY <3>1, <1>3, <1>17
  <2>3. ASSUME NEW x \in Jobs, x # j, NEW s \in StepIds, stepJob'[s] = x
        PROVE  stepJob[s] = x /\ stepKind'[s] = stepKind[s]
    BY <2>3, <1>7, <1>8
  <2>4. \A x, y \in Jobs : x # j /\ Calls(x, y)' => Calls(x, y)
    BY <2>3 DEF Calls
  <2>5. NoSelfStart'
    <3> SUFFICES ASSUME NEW J \in SUBSET Jobs, J # {}, \A x \in J : \E y \in J : Calls(x, y)'
                 PROVE  FALSE
      BY DEF NoSelfStart
    <3>1. J \ {j} # {} /\ J \ {j} \in SUBSET Jobs
      BY <2>2
    <3>2. \A x \in J \ {j} : \E y \in J \ {j} : Calls(x, y)
      BY <2>2, <2>4
    <3>3. QED
      BY <3>1, <3>2, <2>1 DEF NoSelfStart
  <2>6. PICK i \in Jobs : i = editReq[r].job /\ st = [s \in StepsOf(i) |-> stepKind[s]]
    BY <2>1, <1>2, <1>4 DEF Current
  <2>7. old = StepsOf(i) /\ \A o \in old : st[o] = stepKind[o]
    BY <2>6
  <2>8. ASSUME NEW x \in Jobs, NEW t \in StepsOf(x)', NEW v \in StepsOf(x)',
               stepKind'[t] \in Machines, stepKind'[v] \in Machines
        PROVE  stepKind'[t] = stepKind'[v]
    <3>0. t \in StepIds /\ v \in StepIds /\ stepJob'[t] = x /\ stepJob'[v] = x
      BY DEF StepsOf
    <3>1. CASE x = j
      <4>1. \A s \in StepIds : stepJob[s] # j
        BY <1>3, <1>a DEF JeInd, Cascaded
      <4>2. \A s \in StepIds : stepJob'[s] = j => \E o \in old : copy[o] = s
        BY <4>1, <1>8
      <4>3. PICK o \in old, p \in old : copy[o] = t /\ copy[p] = v
        BY <4>2, <3>0, <3>1
      <4>4. stepKind'[t] = stepKind[o] /\ stepKind'[v] = stepKind[p]
        BY <4>3, <1>7, <2>7
      <4>5. QED
        BY <4>4, <2>1, <2>7, <2>8 DEF OneMachine
    <3>2. CASE x # j
      <4>1. t \in StepsOf(x) /\ v \in StepsOf(x)
            /\ stepKind'[t] = stepKind[t] /\ stepKind'[v] = stepKind[v]
        BY <3>0, <3>2, <2>3 DEF StepsOf
      <4>2. QED
        BY <4>1, <2>1, <2>8 DEF OneMachine
    <3>3. QED
      BY <3>1, <3>2
  <2>9. OneMachine'
    BY <2>8 DEF OneMachine
  <2>10. QED
    BY <2>1, <2>5, <2>9
<1>21. QED
  BY <1>14, <1>15, <1>16, <1>18, <1>19, <1>20 DEF JeInd

(* An edge request that moves from the write to its check keeps its edge.  *)
LEMMA EdgeMoves ==
    ASSUME NEW q \in EdgeRq, NEW at \in {"check", "rollback"}
    PROVE  /\ [q EXCEPT !.at = at] \in EdgeRq /\ [q EXCEPT !.at = at] \in EditRqs
           /\ [q EXCEPT !.at = at].at = at /\ [q EXCEPT !.at = at].edge = q.edge
           /\ [q EXCEPT !.at = at].job = q.job /\ [q EXCEPT !.at = at].user = q.user
           /\ [q EXCEPT !.at = at] # IdleRq /\ q # IdleRq
<1>1. /\ [q EXCEPT !.at = at] \in EdgeRq
      /\ [q EXCEPT !.at = at].at = at /\ [q EXCEPT !.at = at].edge = q.edge
      /\ [q EXCEPT !.at = at].job = q.job /\ [q EXCEPT !.at = at].user = q.user
  BY DEF EdgeRq, EdgeAts
<1>2. q # IdleRq /\ [q EXCEPT !.at = at] # IdleRq
  BY <1>1, IdleRqIs DEF EdgeRq, EdgeAts
<1>3. QED
  BY <1>1, <1>2 DEF EditRqs

LEMMA EdgeMovesGood ==
    ASSUME NEW q \in EdgeRq, OwnReq(q), NEW at \in {"check", "rollback"},
           UNCHANGED <<jobOwner, stepJob>>
    PROVE  OwnReq([q EXCEPT !.at = at])' /\ KnownReq([q EXCEPT !.at = at])'
<1> DEFINE n == [q EXCEPT !.at = at]
<1>1. /\ n.at = at /\ n.edge = q.edge /\ n.job = q.job /\ n.user = q.user /\ n # IdleRq
      /\ q # IdleRq
  BY EdgeMoves
<1> HIDE DEF n
<1>2. q.at \in EdgeAts
  BY DEF EdgeRq
<1>3. OwnReq(n)' /\ KnownReq(n)'
  BY <1>1, <1>2 DEF OwnReq, KnownReq, EdgeAts
<1>4. QED
  BY <1>3 DEF n

LEMMA JeInsertEdge ==
    ASSUME JeInd, NEW r \in EditRequests, InsertEdge(r)
    PROVE  JeInd'
<1>1. Write(r, "AddDependency") /\ UNCHANGED <<jobOwner, stepJob, stepKind, unchecked>>
  BY DEF InsertEdge
<1>2. editReq[r].at = "AddDependency" /\ overlap' \in BOOLEAN
  BY <1>1 DEF Write, JeInd, JeTypes
<1>3. PICK o \in EdgeRq : o = editReq[r] /\ OwnReq(o)
  BY <1>2, AtRequest DEF RqFacts, EdgeAts
<1>4. PICK e \in StepIds \X StepIds : e = o.edge
  BY DEF EdgeRq
<1> DEFINE n == [o EXCEPT !.at = "check"]
<1>5. \/ editReq' = [editReq EXCEPT ![r] = IdleRq] /\ deps' = deps
      \/ (/\ stepJob[e[1]] \in Jobs /\ stepJob[e[2]] \in Jobs
          /\ deps' = deps \cup {e} /\ editReq' = [editReq EXCEPT ![r] = n])
  BY <1>3, <1>4 DEF InsertEdge, Answer
<1>6. Forward
  BY <1>1 DEF Forward
<1>7. KnownSteps'
  BY <1>1 DEF JeInd, KnownSteps, KnownKind
<1>8. CASE editReq' = [editReq EXCEPT ![r] = IdleRq] /\ deps' = deps
  <2>1. Requests' /\ editReq' \in [EditRequests -> EditRqs]
    BY <1>6, <1>8, IdleIsGood, IdleRqIs, RequestsKept
  <2>2. JeTypes' /\ Cascaded'
    BY <2>1, <1>1, <1>2, <1>8 DEF JeInd, JeTypes, Cascaded
  <2>3. UnderWay \subseteq UnderWay'
    BY <1>2, <1>8, UnderWayMoves
  <2>4. CheckedEdgesAcyclic'
    BY <2>3, <1>1, <1>8, StillAcyclic
  <2>5. Uncontested'
    BY <1>1, <1>8, AnswerAlone, SameSteps DEF Uncontested
  <2>6. QED
    BY <2>1, <2>2, <2>4, <2>5, <1>7 DEF JeInd
<1>9. CASE /\ stepJob[e[1]] \in Jobs /\ stepJob[e[2]] \in Jobs
           /\ deps' = deps \cup {e} /\ editReq' = [editReq EXCEPT ![r] = n]
  <2>1. n \in EditRqs /\ n.at = "check" /\ n.edge = e
    BY <1>4, EdgeMoves
  <2>2. OwnReq(n)' /\ KnownReq(n)'
    BY <1>1, <1>3, EdgeMovesGood
  <2> HIDE DEF n
  <2>3. /\ Requests' /\ editReq' \in [EditRequests -> EditRqs] /\ editReq'[r] = n
        /\ \A p \in EditRequests \ {r} : editReq'[p] = editReq[p]
    BY <1>6, <1>9, <2>1, <2>2, RequestsKept
  <2>4. JeTypes'
    BY <2>3, <1>1, <1>2, <1>9 DEF JeInd, JeTypes
  <2>5. Cascaded'
    <3>1. stepJob[e[1]] = o.job /\ stepJob[e[2]] = o.job
      <4>1. o.at \in EdgeAts /\ o # IdleRq
        BY <1>2, <1>3, IdleRqIs DEF EdgeAts
      <4>2. QED
        BY <4>1, <1>3, <1>4, <1>9, JobEditorAssumption DEF OwnReq
    <3>2. QED
      BY <3>1, <1>1, <1>9 DEF JeInd, Cascaded
  <2>6. UnderWay \subseteq UnderWay' /\ e \in UnderWay'
    BY <1>2, <1>9, <2>1, UnderWayMoves
  <2>7. CheckedEdgesAcyclic'
    BY <2>6, <1>1, <1>9, StillAcyclic
  <2>8. Uncontested'
    <3> SUFFICES ASSUME ~overlap' PROVE NoSelfStart' /\ OneMachine' /\ AllCurrent'
      BY DEF Uncontested
    <3>1. editReq'[r].at \in {"idle", "check", "rollback"}
      BY <2>1, <2>3
    <3>2. NoSelfStart /\ OneMachine /\ AllCurrent'
      BY <2>3, <3>1, <1>1, WriteAlone
    <3>3. QED
      BY <3>2, <1>1, SameSteps
  <2>9. QED
    BY <2>3, <2>4, <2>5, <2>7, <2>8, <1>7 DEF JeInd
<1>10. QED
  BY <1>5, <1>8, <1>9

(* The check of an inserted edge.  A cycle among the checked edges lies    *)
(* within one job: in the job that was just validated there is none, in    *)
(* the others nothing changed.                                             *)
LEMMA CheckPasses ==
    ASSUME JeInd, NEW r \in EditRequests, editReq[r].at = "check",
           ~Cyclic(DepsOf(editReq[r].job)),
           editReq' = [editReq EXCEPT ![r] = IdleRq],
           UNCHANGED <<deps, unchecked>>
    PROVE  CheckedEdgesAcyclic'
<1>1. PICK o \in EdgeRq : o = editReq[r] /\ OwnReq(o) /\ o # IdleRq
  BY AtRequest, IdleRqIs DEF RqFacts, EdgeAts
<1>2. PICK j \in Jobs : j = o.job /\ ~Cyclic(DepsOf(j))
  BY <1>1 DEF EdgeRq
<1> DEFINE D == deps \ (UnderWay \cup unchecked)
<1> DEFINE N == deps \ (UnderWay' \cup unchecked)
<1>3. UnderWay \ {o.edge} \subseteq UnderWay'
  BY <1>1, UnderWayMoves
<1>4. N \subseteq D \cup {o.edge} /\ N \subseteq deps /\ ~Cyclic(D)
  BY <1>3 DEF JeInd, CheckedEdgesAcyclic
<1>5. o.edge \in deps => stepJob[o.edge[1]] = j
  <2>1. stepJob[o.edge[1]] \in {j, "deleted"}
    BY <1>1, <1>2 DEF OwnReq, EdgeAts
  <2>2. QED
    BY <2>1, JobEditorAssumption DEF JeInd, Cascaded
<1> HIDE DEF D, N
<1>6. ~Cyclic(N)
  <2> SUFFICES ASSUME NEW S \in SUBSET StepIds, S # {},
                      \A s \in S : \E t \in S : <<s, t>> \in N
               PROVE  FALSE
    BY DEF Cyclic
  <2>1. CASE S \cap StepsOf(j) # {}
    <3>1. ASSUME NEW s \in S \cap StepsOf(j)
          PROVE  \E t \in S \cap StepsOf(j) : <<s, t>> \in DepsOf(j)
      <4>1. PICK t \in S : <<s, t>> \in N
        OBVIOUS
      <4>2. <<s, t>> \in deps
        BY <4>1, <1>4
      <4>3. stepJob[t] = stepJob[s]
        BY <4>2 DEF JeInd, Cascaded
      <4>4. t \in StepsOf(j) /\ <<s, t>> \in DepsOf(j)
        BY <4>2, <4>3 DEF StepsOf, DepsOf
      <4>5. QED
        BY <4>4
    <3>2. S \cap StepsOf(j) \in SUBSET StepIds
      OBVIOUS
    <3>3. Cyclic(DepsOf(j))
      BY <2>1, <3>1, <3>2 DEF Cyclic
    <3>4. QED
      BY <3>3, <1>2
  <2>2. CASE S \cap StepsOf(j) = {}
    <3>1. ASSUME NEW s \in S PROVE \E t \in S : <<s, t>> \in D
      <4>1. PICK t \in S : <<s, t>> \in N
        OBVIOUS
      <4>2. stepJob[s] # j
        BY <2>2 DEF StepsOf
      <4>3. <<s, t>> # o.edge
        BY <4>1, <4>2, <1>4, <1>5
      <4>4. QED
        BY <4>1, <4>3, <1>4
    <3>2. Cyclic(D)
      BY <3>1 DEF Cyclic
    <3>3. QED
      BY <3>2, <1>4
  <2>3. QED
    BY <2>1, <2>2
<1>7. ~Cyclic(deps' \ (UnderWay' \cup unchecked'))
  BY <1>6 DEF N
<1>8. QED
  BY <1>7 DEF CheckedEdgesAcyclic, Cyclic

LEMMA JeCheckEdge ==
    ASSUME JeInd, NEW r \in EditRequests, CheckEdge(r)
    PROVE  JeInd'
<1>1. /\ editReq[r].at = "check"
      /\ UNCHANGED <<jobOwner, stepJob, stepKind, deps, unchecked, overlap>>
  BY DEF CheckEdge
<1>2. PICK o \in EdgeRq : o = editReq[r] /\ OwnReq(o)
  BY <1>1, AtRequest DEF RqFacts, EdgeAts
<1> DEFINE n == [o EXCEPT !.at = "rollback"]
<1>3. \/ editReq' = [editReq EXCEPT ![r] = n]
      \/ editReq' = [editReq EXCEPT ![r] = IdleRq] /\ ~Cyclic(DepsOf(editReq[r].job))
  BY <1>2 DEF CheckEdge
<1>4. Forward
  BY <1>1 DEF Forward
<1>5. Cascaded' /\ KnownSteps'
  BY <1>1 DEF JeInd, Cascaded, KnownSteps, KnownKind
<1>6. CASE editReq' = [editReq EXCEPT ![r] = n]
  <2>1. n \in EditRqs /\ n.at = "rollback" /\ n.edge = o.edge
    BY EdgeMoves
  <2>2. OwnReq(n)' /\ KnownReq(n)'
    BY <1>1, <1>2, EdgeMovesGood
  <2> HIDE DEF n
  <2>3. Requests' /\ editReq' \in [EditRequests -> EditRqs]
    BY <1>4, <1>6, <2>1, <2>2, RequestsKept
  <2>4. JeTypes'
    BY <2>3, <1>1 DEF JeInd, JeTypes
  <2>5. UnderWay \subseteq UnderWay'
    BY <1>2, <1>6, <2>1, UnderWayMoves
  <2>6. CheckedEdgesAcyclic'
    BY <2>5, <1>1, StillAcyclic
  <2>7. Current(n)
    BY <2>1 DEF Current
  <2>8. Uncontested'
    BY <2>7, <1>1, <1>6, UncontestedSame
  <2>9. QED
    BY <2>3, <2>4, <2>6, <2>8, <1>5 DEF JeInd
<1>7. CASE editReq' = [editReq EXCEPT ![r] = IdleRq] /\ ~Cyclic(DepsOf(editReq[r].job))
  <2>1. Requests' /\ editReq' \in [EditRequests -> EditRqs]
    BY <1>4, <1>7, IdleIsGood, IdleRqIs, RequestsKept
  <2>2. JeTypes'
    BY <2>1, <1>1 DEF JeInd, JeTypes
  <2>3. CheckedEdgesAcyclic'
    BY <1>1, <1>7, CheckPasses
  <2>4. Uncontested'
    BY <1>1, <1>7, IdleIsGood, UncontestedSame
  <2>5. QED
    BY <2>1, <2>2, <2>3, <2>4, <1>5 DEF JeInd
<1>8. QED
  BY <1>3, <1>6, <1>7

(* An edge is taken out, or left behind unchecked.                         *)
LEMMA JeEdgeEnds ==
    ASSUME JeInd, NEW r \in EditRequests, RollBackEdge(r) \/ CheckFails(r) \/ RemoveDependency(r)
    PROVE  JeInd'
<1>1. /\ editReq[r].at \in {"check", "rollback", "RemoveDependency"}
      /\ editReq' = [editReq EXCEPT ![r] = IdleRq]
      /\ UNCHANGED <<jobOwner, stepJob, stepKind>>
  BY DEF RollBackEdge, CheckFails, RemoveDependency, Write, Answer
<1>2. /\ deps' \subseteq deps /\ unchecked' \subseteq deps'
      /\ \A d \in deps' : d \in unchecked => d \in unchecked'
      /\ (editReq[r].at \in {"check", "rollback"} /\ editReq[r].edge \in deps')
            => editReq[r].edge \in unchecked'
  BY DEF RollBackEdge, CheckFails, RemoveDependency, RemoveEdge, Write, JeInd, JeTypes
<1>3. Forward
  BY <1>1 DEF Forward
<1>4. Requests' /\ editReq' \in [EditRequests -> EditRqs]
  BY <1>1, <1>3, IdleIsGood, IdleRqIs, RequestsKept
<1>5. overlap' = overlap \/ (Write(r, "RemoveDependency") /\ overlap' \in BOOLEAN)
  BY DEF RollBackEdge, CheckFails, RemoveDependency, Write, JeInd, JeTypes
<1>6. JeTypes'
  BY <1>1, <1>2, <1>4, <1>5 DEF JeInd, JeTypes
<1>7. Cascaded' /\ KnownSteps'
  BY <1>1, <1>2 DEF JeInd, Cascaded, KnownSteps, KnownKind
<1>8. CheckedEdgesAcyclic'
  <2>1. /\ UnderWay \ {editReq[r].edge} \subseteq UnderWay'
        /\ editReq[r].at \notin {"check", "rollback"} => UnderWay \subseteq UnderWay'
    BY <1>1, UnderWayMoves
  <2>2. deps' \ (UnderWay' \cup unchecked') \subseteq deps \ (UnderWay \cup unchecked)
    BY <2>1, <1>1, <1>2
  <2>3. QED
    BY <2>2, StillAcyclic
<1>9. Uncontested'
  <2>1. CASE overlap' = overlap
    BY <2>1, <1>1, IdleIsGood, UncontestedSame
  <2>2. CASE Write(r, "RemoveDependency")
    BY <2>2, <1>1, AnswerAlone, SameSteps DEF Uncontested
  <2>3. QED
    BY <2>1, <2>2, <1>5
<1>10. QED
  BY <1>4, <1>6, <1>7, <1>8, <1>9 DEF JeInd

LEMMA JeNext == JeInd /\ [JobEditorNext]_jobVars => JeInd'
<1> SUFFICES ASSUME JeInd, [JobEditorNext]_jobVars PROVE JeInd'
  OBVIOUS
<1>1. CASE UNCHANGED jobVars
  <2>1. UNCHANGED <<jobOwner, stepJob, stepKind, deps, editReq, unchecked, overlap>>
    BY <1>1 DEF jobVars
  <2>2. Forward
    BY <2>1 DEF Forward
  <2>3. Requests'
    BY <2>1, <2>2, RequestsSame
  <2>4. JeTypes' /\ Cascaded' /\ KnownSteps'
    BY <2>1 DEF JeInd, JeTypes, Cascaded, KnownSteps, KnownKind
  <2>5. CheckedEdgesAcyclic'
    BY <2>1, StillAcyclic DEF UnderWay
  <2>6. Uncontested'
    <3> SUFFICES ASSUME ~overlap PROVE NoSelfStart' /\ OneMachine' /\ AllCurrent'
      BY <2>1 DEF Uncontested
    <3>1. NoSelfStart /\ OneMachine /\ AllCurrent
      BY DEF JeInd, Uncontested
    <3>2. ASSUME NEW p \in EditRequests PROVE Current(editReq[p])'
      <4>1. PICK o : o = editReq[p]
        OBVIOUS
      <4>2. Current(o)'
        BY <3>1, <4>1, <2>1, SameSteps DEF AllCurrent
      <4>3. editReq'[p] = o
        BY <4>1, <2>1
      <4>4. QED
        BY <4>2, <4>3 DEF Current, StepsOf, ValidFor, SafeTarget, Calls, ValidateJobSteps
    <3>3. QED
      BY <3>1, <3>2, <2>1, SameSteps DEF AllCurrent
  <2>7. QED
    BY <2>3, <2>4, <2>5, <2>6 DEF JeInd
<1>2. CASE \E u \in Editors : CreateJob(u)
  BY <1>2, JeCreateJob
<1>3. CASE \E r \in EditRequests, u \in Editors, j \in Jobs :
              \/ ReadAddStep(r, u, j) \/ ReadUpdateStep(r, u, j) \/ ReadDeleteStep(r, u, j)
              \/ ReadAddDependency(r, u, j) \/ ReadRemoveDependency(r, u, j)
              \/ ReadDeleteJob(r, u, j) \/ ReadCloneJob(r, u, j)
  BY <1>3, JeReads
<1>4. CASE \E r \in EditRequests :
              \/ AddStep(r) \/ UpdateStep(r) \/ DeleteStep(r) \/ DeleteJob(r) \/ CloneJob(r)
              \/ InsertEdge(r) \/ CheckEdge(r) \/ RollBackEdge(r) \/ CheckFails(r)
              \/ RemoveDependency(r)
  BY <1>4, JeAddStep, JeUpdateStep, JeDeletes, JeCloneJob, JeInsertEdge, JeCheckEdge, JeEdgeEnds
<1>5. QED
  BY <1>1, <1>2, <1>3, <1>4 DEF JobEditorNext

-----------------------------------------------------------------------------
(* Whose definition a request changes. *)
SameJob(j) == /\ \A s \in StepIds : stepJob'[s] = j <=> stepJob[s] = j
              /\ \A s \in StepIds : stepJob[s] = j => stepKind'[s] = stepKind[s]
              /\ \A d \in deps : stepJob[d[1]] = j => d \in deps'
              /\ \A d \in deps' : stepJob[d[1]] = j => d \in deps

LEMMA OthersUntouched ==
    ASSUME JeInd, JeInd', NEW r \in EditRequests, editReq[r] # IdleRq,
           \A j \in Jobs : jobOwner[j] \in Editors /\ j # editReq[r].job => SameJob(j)
    PROVE  OnlyOwnerEdits
<1> SUFFICES ASSUME NEW j \in Jobs, jobOwner[j] \in Editors,
                    StepsOf(j)' # StepsOf(j) \/ DepsOf(j)' # DepsOf(j)
                    \/ \E s \in StepsOf(j) : stepKind'[s] # stepKind[s]
             PROVE  \E p \in EditRequests : editReq[p] # IdleRq /\ editReq[p].job = j
                                            /\ editReq[p].user = jobOwner[j]
  BY DEF OnlyOwnerEdits
<1>1. CASE j = editReq[r].job
  <2>1. jobOwner[j] \in {editReq[r].user, "deleted"}
    BY <1>1, AtRequest DEF OwnReq
  <2>2. jobOwner[j] = editReq[r].user
    BY <2>1, JobEditorAssumption
  <2>3. QED
    BY <1>1, <2>2
<1>2. CASE j # editReq[r].job
  <2>1. SameJob(j)
    BY <1>2
  <2>2. StepsOf(j)' = StepsOf(j)
    BY <2>1 DEF SameJob, StepsOf
  <2>3. \A s \in StepsOf(j) : stepKind'[s] = stepKind[s]
    BY <2>1 DEF SameJob, StepsOf
  <2>4. DepsOf(j)' = DepsOf(j)
    <3>1. \A d \in deps \cup deps' : d[1] \in StepsOf(j) => (d \in deps <=> d \in deps')
      BY <2>1 DEF SameJob, StepsOf
    <3>2. QED
      BY <2>2, <3>1 DEF DepsOf
  <2>5. QED
    BY <2>2, <2>3, <2>4
<1>3. QED
  BY <1>1, <1>2

LEMMA JeOwner == JeInd /\ JeInd' /\ [JobEditorNext]_jobVars => OnlyOwnerEdits
<1> SUFFICES ASSUME JeInd, JeInd', [JobEditorNext]_jobVars PROVE OnlyOwnerEdits
  OBVIOUS
<1>a. "none" \notin Jobs /\ "deleted" \notin Jobs /\ "none" \notin Editors
  BY JobEditorAssumption
<1>d. \A d \in deps : /\ d[1] \in StepIds /\ d[2] \in StepIds
                      /\ stepJob[d[1]] = stepJob[d[2]]
  BY DEF JeInd, JeTypes, Cascaded
<1>1. CASE UNCHANGED <<stepJob, stepKind, deps>>
  BY <1>1 DEF OnlyOwnerEdits, StepsOf, DepsOf
<1>2. ASSUME NEW r \in EditRequests, AddStep(r) PROVE OnlyOwnerEdits
  <2>1. editReq[r].at = "AddStep" /\ deps' = deps
    BY <1>2 DEF AddStep, Write
  <2>2. PICK i : i = editReq[r].job
    OBVIOUS
  <2>3. \/ UNCHANGED <<stepJob, stepKind>>
        \/ \E s \in StepIds : /\ stepJob[s] = "none"
                              /\ stepJob' = [stepJob EXCEPT ![s] = i]
                              /\ stepKind' = [stepKind EXCEPT ![s] = editReq[r].kind]
    BY <1>2, <2>2 DEF AddStep
  <2>4. CASE UNCHANGED <<stepJob, stepKind>>
    BY <2>1, <2>4, <1>1
  <2>5. ASSUME NEW s \in StepIds, stepJob[s] = "none",
               stepJob' = [stepJob EXCEPT ![s] = i],
               stepKind' = [stepKind EXCEPT ![s] = editReq[r].kind]
        PROVE  OnlyOwnerEdits
    <3>1. /\ stepJob'[s] = i
          /\ \A t \in StepIds \ {s} : stepJob'[t] = stepJob[t] /\ stepKind'[t] = stepKind[t]
      BY <2>5 DEF JeInd, JeTypes
    <3>2. \A j \in Jobs : j # i => SameJob(j)
      BY <3>1, <2>1, <2>5, <1>a DEF SameJob
    <3>3. editReq[r] # IdleRq
      BY <2>1, IdleRqIs
    <3>4. QED
      BY <3>2, <3>3, <2>2, OthersUntouched
  <2>6. QED
    BY <2>3, <2>4, <2>5
<1>3. ASSUME NEW r \in EditRequests, UpdateStep(r) PROVE OnlyOwnerEdits
  <2>1. editReq[r].at = "UpdateStep" /\ deps' = deps /\ stepJob' = stepJob /\ editReq[r] # IdleRq
    BY <1>3, IdleRqIs DEF UpdateStep, Write
  <2>2. PICK s \in StepIds : s = editReq[r].step /\ stepJob[s] \in {editReq[r].job, "deleted"}
    BY <2>1, AtRequest DEF RqFacts, OwnReq
  <2>3. \A t \in StepIds \ {s} : stepKind'[t] = stepKind[t]
    BY <2>2, <1>3 DEF UpdateStep, JeInd, JeTypes
  <2>4. \A j \in Jobs : j # editReq[r].job => SameJob(j)
    BY <2>1, <2>2, <2>3, <1>a DEF SameJob
  <2>5. QED
    BY <2>1, <2>4, OthersUntouched
<1>4. ASSUME NEW r \in EditRequests, NEW S \in SUBSET StepIds, Without(S), editReq[r] # IdleRq,
             \A s \in S : stepJob[s] \in {editReq[r].job, "deleted"}
      PROVE  OnlyOwnerEdits
  <2>1. /\ \A s \in S : stepJob'[s] = "deleted"
        /\ \A s \in StepIds \ S : stepJob'[s] = stepJob[s] /\ stepKind'[s] = stepKind[s]
        /\ deps' = {d \in deps : d[1] \notin S /\ d[2] \notin S}
    BY <1>4 DEF Without
  <2>2. ASSUME NEW j \in Jobs, j # editReq[r].job PROVE SameJob(j)
    <3>1. \A s \in StepIds : stepJob[s] = j => s \notin S
      BY <1>4, <2>2, <1>a
    <3>2. \A s \in StepIds : stepJob'[s] = j <=> stepJob[s] = j
      BY <3>1, <2>1, <1>a
    <3>3. \A d \in deps : stepJob[d[1]] = j => d \in deps'
      BY <3>1, <2>1, <1>d
    <3>4. QED
      BY <3>1, <3>2, <3>3, <2>1 DEF SameJob
  <2>3. QED
    BY <2>2, <1>4, OthersUntouched
<1>5. ASSUME NEW r \in EditRequests, DeleteStep(r) PROVE OnlyOwnerEdits
  <2>1. editReq[r].at = "DeleteStep" /\ Without({editReq[r].step}) /\ editReq[r] # IdleRq
    BY <1>5, IdleRqIs DEF DeleteStep, Write
  <2>2. /\ editReq[r].step \in StepIds
        /\ stepJob[editReq[r].step] \in {editReq[r].job, "deleted"}
    BY <2>1, AtRequest DEF RqFacts, OwnReq
  <2>3. \A s \in {editReq[r].step} : stepJob[s] \in {editReq[r].job, "deleted"}
    BY <2>2
  <2>4. {editReq[r].step} \in SUBSET StepIds
    BY <2>2
  <2>5. QED
    BY <2>1, <2>3, <2>4, <1>4
<1>6. ASSUME NEW r \in EditRequests, DeleteJob(r) PROVE OnlyOwnerEdits
  <2>1. Without(StepsOf(editReq[r].job)) /\ editReq[r] # IdleRq
    BY <1>6, IdleRqIs DEF DeleteJob, Write
  <2>2. \A s \in StepsOf(editReq[r].job) : stepJob[s] \in {editReq[r].job, "deleted"}
    BY DEF StepsOf
  <2>3. StepsOf(editReq[r].job) \in SUBSET StepIds
    BY DEF StepsOf
  <2>4. QED
    BY <2>1, <2>2, <2>3, <1>4
<1>7. ASSUME NEW r \in EditRequests, CloneJob(r) PROVE OnlyOwnerEdits
  <2>1. editReq[r].at = "CloneJob" /\ editReq[r] # IdleRq
    BY <1>7, IdleRqIs DEF CloneJob, Write
  <2> DEFINE old == DOMAIN editReq[r].steps
  <2>2. PICK i \in Jobs, copy \in [old -> StepIds] :
          /\ jobOwner[i] = "none"
          /\ \A s \in old : stepJob[copy[s]] = "none"
          /\ stepJob' = [s \in StepIds |-> IF \E o \in old : copy[o] = s THEN i ELSE stepJob[s]]
          /\ stepKind' = [s \in StepIds |-> IF \E o \in old : copy[o] = s
                             THEN editReq[r].steps[CHOOSE o \in old : copy[o] = s] ELSE stepKind[s]]
          /\ deps' = deps \cup {<<copy[d[1]], copy[d[2]]>> : d \in editReq[r].edges}
    BY <1>7 DEF CloneJob
  <2>k. \A s \in StepIds : (~\E o \in old : copy[o] = s) => stepKind'[s] = stepKind[s]
    BY <2>2
  <2>3. \A d \in editReq[r].edges : d[1] \in old
    BY <2>1, AtRequest DEF OwnReq
  <2>4. ASSUME NEW j \in Jobs, jobOwner[j] \in Editors PROVE SameJob(j)
    <3>1. j # i
      BY <2>2, <2>4, <1>a
    <3>2. \A s \in StepIds : stepJob[s] = j => ~\E o \in old : copy[o] = s
      BY <2>2, <1>a
    <3>3. \A s \in StepIds : stepJob'[s] = j <=> stepJob[s] = j
      BY <3>1, <3>2, <2>2
    <3>4. \A d \in deps' : stepJob[d[1]] = j => d \in deps
      <4> SUFFICES ASSUME NEW d \in editReq[r].edges
                   PROVE  stepJob[<<copy[d[1]], copy[d[2]]>>[1]] # j
        BY <2>2
      <4>1. d[1] \in old
        BY <2>3
      <4>2. QED
        BY <4>1, <2>2, <1>a
    <3>5. QED
      BY <3>2, <3>3, <3>4, <2>2, <2>k DEF SameJob
  <2>5. QED
    BY <2>1, <2>4, OthersUntouched
(* A request about an edge adds or removes that edge only, and the edge    *)
(* belongs to the job of the request.                                      *)
<1>8. ASSUME NEW r \in EditRequests, editReq[r].at \in EdgeAts, UNCHANGED <<stepJob, stepKind>>,
             \A d : d # editReq[r].edge => (d \in deps' <=> d \in deps)
      PROVE  OnlyOwnerEdits
  <2>1. editReq[r] # IdleRq
    BY <1>8, IdleRqIs DEF EdgeAts
  <2>2. stepJob[editReq[r].edge[1]] \in {editReq[r].job, "deleted"}
    BY <2>1, <1>8, AtRequest DEF OwnReq
  <2>3. ASSUME NEW j \in Jobs, j # editReq[r].job PROVE SameJob(j)
    <3>1. \A d : stepJob[d[1]] = j => d # editReq[r].edge
      BY <2>2, <2>3, <1>a
    <3>2. QED
      BY <3>1, <1>8 DEF SameJob
  <2>4. QED
    BY <2>1, <2>3, OthersUntouched
<1>9. ASSUME NEW r \in EditRequests, InsertEdge(r) PROVE OnlyOwnerEdits
  <2>1. editReq[r].at \in EdgeAts /\ UNCHANGED <<stepJob, stepKind>>
    BY <1>9 DEF InsertEdge, Write, EdgeAts
  <2>2. deps' = deps \/ deps' = deps \cup {editReq[r].edge}
    BY <1>9 DEF InsertEdge
  <2>3. \A d : d # editReq[r].edge => (d \in deps' <=> d \in deps)
    BY <2>2
  <2>4. QED
    BY <2>1, <2>3, <1>8
<1>10. ASSUME NEW r \in EditRequests, RollBackEdge(r) \/ RemoveDependency(r) PROVE OnlyOwnerEdits
  <2>1. editReq[r].at \in EdgeAts /\ UNCHANGED <<stepJob, stepKind>>
    BY <1>10 DEF RollBackEdge, RemoveDependency, Write, EdgeAts
  <2>2. deps' = deps \ {editReq[r].edge}
    BY <1>10 DEF RollBackEdge, RemoveDependency, RemoveEdge
  <2>3. \A d : d # editReq[r].edge => (d \in deps' <=> d \in deps)
    BY <2>2
  <2>4. QED
    BY <2>1, <2>3, <1>8
<1>11. ASSUME NEW r \in EditRequests, CheckEdge(r) \/ CheckFails(r) PROVE OnlyOwnerEdits
  BY <1>1, <1>11 DEF CheckEdge, CheckFails
<1>12. ASSUME NEW r \in EditRequests, NEW u \in Editors, NEW j \in Jobs,
              \/ ReadAddStep(r, u, j) \/ ReadUpdateStep(r, u, j) \/ ReadDeleteStep(r, u, j)
              \/ ReadAddDependency(r, u, j) \/ ReadRemoveDependency(r, u, j)
              \/ ReadDeleteJob(r, u, j) \/ ReadCloneJob(r, u, j)
       PROVE  OnlyOwnerEdits
  <2>1. UNCHANGED <<stepJob, stepKind, deps>>
    BY <1>12 DEF ReadAddStep, ReadUpdateStep, ReadDeleteStep, ReadAddDependency,
                 ReadRemoveDependency, ReadDeleteJob, ReadCloneJob, Begin
  <2>2. QED
    BY <2>1, <1>1
<1>13. ASSUME NEW u \in Editors, CreateJob(u) PROVE OnlyOwnerEdits
  BY <1>1, <1>13 DEF CreateJob
<1>14. CASE UNCHANGED jobVars
  BY <1>1, <1>14 DEF jobVars
<1>15. QED
  BY <1>2, <1>3, <1>5, <1>6, <1>7, <1>9, <1>10, <1>11, <1>12, <1>13, <1>14 DEF JobEditorNext

(* For any number of jobs, steps, users and overlapping requests, and for  *)
(* every depth of the walk: no cycle gets through the check of             *)
(* AddDependency, a definition changes only by a request of its owner, and *)
(* requests that do not overlap leave no job that starts itself and no     *)
(* session key on two machines.                                            *)
THEOREM EditingIsSound == JobEditorSpec => JobEditorSafe
<1> DEFINE Good == JobEditorTypeOK /\ CheckedEdgesAcyclic /\ RunJobAcyclic /\ KeyOnOneMachine
<1>1. JeInd => Good
  BY JeStrong
<1>2. JeInd /\ JeInd' /\ [JobEditorNext]_jobVars => [OnlyOwnerEdits]_jobVars
  BY JeOwner
<1>3. JobEditorSpec => []Good /\ [][OnlyOwnerEdits]_jobVars
  <2> HIDE DEF Good
  <2>1. QED
    BY <1>1, <1>2, JeInit, JeNext, PTL DEF JobEditorSpec
<1>4. QED
  BY <1>3 DEF JobEditorSafe
=============================================================================
