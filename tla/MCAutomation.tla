---------------------------- MODULE MCAutomation ----------------------------
(***************************************************************************)
(* What users configure, in one run: the job editor, once for dependencies *)
(* (four steps, two in a job, so that a job with an edge can be cloned)    *)
(* and once for the kinds of steps, and the cron schedules.  The variable  *)
(* part says which of them a behaviour is about; the others stand still,   *)
(* so that the state spaces add up instead of multiplying.                 *)
(***************************************************************************)
EXTENDS JobEditor, Schedules, TLC

VARIABLE part

vars == <<part, jobVars, schedVars, trigVars>>

Init == /\ part \in {"edges", "kinds", "schedules"}
        /\ JobEditorInit /\ SchedulesInit /\ TriggersInit

Next == /\ UNCHANGED part
        /\ \/ /\ part \in {"edges", "kinds"} /\ JobEditorNext
              /\ UNCHANGED <<schedVars, trigVars>>
           \/ /\ part = "schedules" /\ SchedulesNext
              /\ UNCHANGED jobVars

Spec == Init /\ [][Next]_vars

(* Bounds of the two views of the job editor.                              *)
Asked(r, whats) == editReq[r].at \in whats

Bounds ==
    /\ part = "edges" =>
          /\ \A s \in StepIds : stepKind[s] = "plain"
          /\ \A j \in Jobs : Cardinality(StepsOf(j)) <= 2
          /\ \A r \in EditRequests :
                ~Asked(r, {"UpdateStep", "DeleteJob"}) /\ (Asked(r, {"AddStep"}) => editReq[r].kind = "plain")
          /\ Cardinality({jobOwner[j] : j \in Jobs} \cap Editors) <= 1
    /\ part = "kinds" =>
          /\ Cardinality({s \in StepIds : stepJob[s] # "none"}) <= 2
          /\ deps = {} /\ \A r \in EditRequests : ~Asked(r, {"AddDependency", "RemoveDependency"})

Symmetry == UNION {Permutations(S) : S \in {Jobs, StepIds, EditRequests, Machines, Editors}}
=============================================================================
