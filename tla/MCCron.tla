------------------------------- MODULE MCCron -------------------------------
(***************************************************************************)
(* A schedule and a trigger of the same job: the entry fires, the          *)
(* subscriber gets the event.  The server is not restarted and nobody      *)
(* changes the trigger once it is there.                                   *)
(***************************************************************************)
EXTENDS Schedules

vars == <<schedVars, trigVars>>

Init == SchedulesInit /\ TriggersInit

Next ==
    \/ /\ \E q \in SchedRequests :
             SchedulerStep(q) \/ \E s \in ScheduleIds : CreateSchedule(q, s)
       /\ UNCHANGED trigVars
    \/ /\ Fire \/ \E s \in ScheduleIds : FireWrites(s)
       /\ UNCHANGED <<triggers, trigWork, trigRuns, trigManual, trigEdits>>
    \/ TriggersNext /\ UNCHANGED schedVars

Spec == Init /\ [][Next]_vars /\ TriggersFairness
=============================================================================
