------------------------------ MODULE Triggers ------------------------------
(***************************************************************************)
(* Event triggers: the table job_triggers with its handlers                *)
(* (internal/server/handler/triggers.go, store/triggers.go), and the       *)
(* subscriber of the event bus that starts a run for every enabled trigger *)
(* whose pattern matches an event (event/trigger_subscriber.go).  A run    *)
(* publishes events itself (orchestrator.go), so triggers can feed each    *)
(* other.                                                                  *)
(*                                                                         *)
(* An event is its type, split at the dot, and the job its payload names.  *)
(* The bus is what the subscriber sees of it: a bounded channel that drops *)
(* what does not fit (bus.go; module EventBus has the bus itself).         *)
(***************************************************************************)
EXTENDS Integers, Sequences, FiniteSets

CONSTANTS TrigJobs, TriggerIds,
          TrigWorkers,    \* goroutines that drain the subscriber's channel
          TrigBuffer,     \* capacity of the channel
          MaxManualRuns,  \* bound: runs started by users
          MaxTrigEdits    \* bound: requests on the table

ASSUME TriggersAssumption == {TrigBuffer, MaxManualRuns, MaxTrigEdits} \subseteq Nat

VARIABLES
    triggers,    \* job_triggers: the row, or that it is not there yet or any more
    trigQueue,   \* the subscriber's channel
    trigWork,    \* per worker: idle, or its event and the triggers left to visit
    trigRuns,    \* jobs with an active run (max_concurrent_runs is 1)
    trigManual,  \* runs started by users so far
    trigEdits    \* requests so far

trigVars == <<triggers, trigQueue, trigWork, trigRuns, trigManual, trigEdits>>

NoJob  == "no job"
Type(p, n)   == [prefix |-> p, name |-> n]
RunEvent(n, j)  == [type |-> Type("run", n), job |-> j]
CronEvent(j)    == [type |-> Type("trigger", "cron"), job |-> j]
TrigEvents   == {RunEvent(n, j) : n \in {"created", "started", "completed"}, j \in TrigJobs}
                \cup {CronEvent(j) : j \in TrigJobs}
Patterns     == {Type("*", "*"), Type("run", "*"), Type("run", "completed"), Type("trigger", "cron")}
TriggerRow   == [is : {"row"}, job : TrigJobs, pattern : Patterns, enabled : BOOLEAN]
NoTrigger(is) == [is |-> is]
Rows         == {t \in TriggerIds : triggers[t].is = "row"}
IdleWorker   == [at |-> "idle", todo |-> {}]

(* The types of triggers, queue and workers; the queue holds at most its   *)
(* capacity.                                                               *)
TriggersTypeOK ==
    /\ triggers \in [TriggerIds -> TriggerRow \cup {NoTrigger("none"), NoTrigger("deleted")}]
    /\ trigQueue \in Seq(TrigEvents) /\ Len(trigQueue) <= TrigBuffer
    /\ \A w \in TrigWorkers : \/ trigWork[w] = IdleWorker
                              \/ /\ trigWork[w].event \in TrigEvents
                                 /\ trigWork[w].todo \subseteq TriggerIds \X TriggerRow
    /\ trigRuns \subseteq TrigJobs
    /\ trigManual \in 0 .. MaxManualRuns /\ trigEdits \in 0 .. MaxTrigEdits

TriggersInit ==
    /\ triggers = [t \in TriggerIds |-> NoTrigger("none")]
    /\ trigQueue = <<>> /\ trigWork = [w \in TrigWorkers |-> IdleWorker]
    /\ trigRuns = {} /\ trigManual = 0 /\ trigEdits = 0

-----------------------------------------------------------------------------
(* The table. *)

Edit(t, row) ==
    /\ trigEdits < MaxTrigEdits
    /\ trigEdits' = trigEdits + 1
    /\ triggers' = [triggers EXCEPT ![t] = row]
    /\ UNCHANGED <<trigQueue, trigWork, trigRuns, trigManual>>

(* The store's view: an inserted row is enabled.                           *)
CreateJobTrigger(j, p)   == [is |-> "row", job |-> j, pattern |-> p, enabled |-> TRUE]
UpdateJobTrigger(row, p) == [row EXCEPT !.pattern = p]
ToggleJobTrigger(row)    == [row EXCEPT !.enabled = ~@]
DeleteJobTrigger         == NoTrigger("deleted")

CreateTrigger(t) == /\ triggers[t].is = "none"
                    /\ \E j \in TrigJobs, p \in Patterns : Edit(t, CreateJobTrigger(j, p))

UpdateTrigger(t) == t \in Rows /\ \E p \in Patterns : Edit(t, UpdateJobTrigger(triggers[t], p))

ToggleTrigger(t) == t \in Rows /\ Edit(t, ToggleJobTrigger(triggers[t]))

DeleteTrigger(t) == t \in Rows /\ Edit(t, DeleteJobTrigger)

-----------------------------------------------------------------------------
(* Runs and their events. *)

(* What the channel holds after the events es are published to it.         *)
Published(es) ==
    LET room == TrigBuffer - Len(trigQueue)
    IN  trigQueue \o SubSeq(es, 1, IF Len(es) < room THEN Len(es) ELSE room)

(* CreateRun: refused while a run of the job is active.  The subscriber    *)
(* logs the refusal and goes on.                                           *)
CreateRun(j) ==
    IF j \in trigRuns
    THEN UNCHANGED <<trigQueue, trigRuns>>
    ELSE /\ trigRuns' = trigRuns \cup {j}
         /\ trigQueue' = Published(<<RunEvent("created", j), RunEvent("started", j)>>)

(* TriggerRun, the REST handler.                                           *)
TriggerRun(j) ==
    /\ trigManual < MaxManualRuns
    /\ trigManual' = trigManual + 1
    /\ CreateRun(j)
    /\ UNCHANGED <<triggers, trigWork, trigEdits>>

(* buildOnComplete: the run ends and says so.                              *)
RunEnds(j) ==
    /\ j \in trigRuns
    /\ trigRuns' = trigRuns \ {j}
    /\ trigQueue' = Published(<<RunEvent("completed", j)>>)
    /\ UNCHANGED <<triggers, trigWork, trigManual, trigEdits>>

-----------------------------------------------------------------------------
(* The subscriber. *)

MatchPattern(pattern, type) ==
    \/ pattern.prefix = "*"
    \/ pattern.prefix = type.prefix /\ pattern.name \in {"*", type.name}

(* A worker takes an event and lists the enabled triggers.                 *)
ListEnabledTriggers == {<<t, triggers[t]>> : t \in {u \in Rows : triggers[u].enabled}}

TakeEvent(w) ==
    /\ trigWork[w] = IdleWorker
    /\ trigQueue # <<>>
    /\ trigWork' = [trigWork EXCEPT ![w] = [at |-> "event", event |-> Head(trigQueue), todo |-> ListEnabledTriggers]]
    /\ trigQueue' = Tail(trigQueue)
    /\ UNCHANGED <<triggers, trigRuns, trigManual, trigEdits>>

(* The triggers the event fires: loop prevention skips the triggers of the *)
(* job the payload names.  (A trigger's filter only narrows this further.) *)
Mutant_Fires(t, e) == MatchPattern(t.pattern, e.type)

Fires(t, e) == MatchPattern(t.pattern, e.type) /\ t.job # e.job

(* It visits them one after the other.                                     *)
VisitTrigger(w) ==
    \E t \in trigWork[w].todo :
       /\ trigWork' = [trigWork EXCEPT ![w].todo = @ \ {t}]
       /\ IF Fires(t[2], trigWork[w].event) THEN CreateRun(t[2].job) ELSE UNCHANGED <<trigQueue, trigRuns>>
       /\ UNCHANGED <<triggers, trigManual, trigEdits>>

HandlerReturns(w) ==
    /\ trigWork[w] # IdleWorker /\ trigWork[w].todo = {}
    /\ trigWork' = [trigWork EXCEPT ![w] = IdleWorker]
    /\ UNCHANGED <<triggers, trigQueue, trigRuns, trigManual, trigEdits>>

Subscriber(w) == TakeEvent(w) \/ VisitTrigger(w) \/ HandlerReturns(w)

TriggersNext ==
    \/ \E t \in TriggerIds : CreateTrigger(t) \/ UpdateTrigger(t) \/ ToggleTrigger(t) \/ DeleteTrigger(t)
    \/ \E j \in TrigJobs : TriggerRun(j) \/ RunEnds(j)
    \/ \E w \in TrigWorkers : Subscriber(w)

(* The workers and the runs make progress; users need not.                 *)
TriggersFairness ==
    /\ \A w \in TrigWorkers : WF_trigVars(Subscriber(w))
    /\ \A j \in TrigJobs : WF_trigVars(RunEnds(j))

-----------------------------------------------------------------------------
(* Properties. *)

(* Only one job has triggers.                                              *)
OneJobTriggered == \A t, u \in Rows : triggers[t].job = triggers[u].job

(* While only one job has triggers, its own events cannot keep it running: *)
(* after the users' last run everything comes to rest, whatever the        *)
(* patterns.  (Two jobs that trigger each other never come to rest.)       *)
TriggerChainEnds ==
    []OneJobTriggered => <>[](trigRuns = {} /\ trigQueue = <<>>
                              /\ \A w \in TrigWorkers : trigWork[w] = IdleWorker)

(* The subscriber's queue keeps to its capacity, and the events of one job *)
(* with triggers come to rest (handle skips the triggers of the job an     *)
(* event is about).                                                        *)
TriggersSound == []TriggersTypeOK /\ TriggerChainEnds
=============================================================================
