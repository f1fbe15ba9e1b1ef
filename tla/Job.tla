-------------------------------- MODULE Job --------------------------------
(***************************************************************************)
(* The job a run executes, as NewDAGRunner receives it: the run steps with *)
(* their snapshotted policies, and the dependency edges between them       *)
(* (internal/server/orchestrator/dag_runner.go, NewDAGRunner).             *)
(*                                                                         *)
(* A record of JobType carries what the scheduling decisions read:         *)
(*   deps        the pairs <<step, dependsOn>>                             *)
(*   key         SessionKeySnapshot, NoKey for the empty string            *)
(*   maxRetries  MaxRetriesSnapshot                                        *)
(*   onFailure   OnFailure                                                 *)
(*   runIf       RunIfSnapshot                                             *)
(*   delay       DelaySecondsSnapshot > 0                                  *)
(*   prior       the status each run step has when the runner is built:    *)
(*               all "pending" for CreateRun; what the database holds for  *)
(*               rebuildAndStartRun.                                       *)
(***************************************************************************)
EXTENDS Integers, Sequences, FiniteSets

CONSTANTS Steps,  \* the step ids of a job
          Keys,   \* the session keys
          NoKey,  \* the empty session key
          Jobs    \* the jobs a run may be created for

StepStatus ==
    {"pending", "running", "completed", "failed", "skipped", "cancelled"}

JobType == [deps       : SUBSET (Steps \X Steps),
            key        : [Steps -> Keys \cup {NoKey}],
            maxRetries : [Steps -> Nat],
            onFailure  : [Steps -> {"fail_run", "continue"}],
            runIf      : [Steps -> {"all_success", "all_done"}],
            delay      : [Steps -> BOOLEAN],
            prior      : [Steps -> StepStatus]]

ASSUME JobAssumption ==
    /\ IsFiniteSet(Steps)
    /\ NoKey \notin Keys
    /\ Jobs \subseteq JobType

(* The steps that s depends on, and the steps that depend on s. *)
Upstream(j, s)   == {u \in Steps : <<s, u>> \in j.deps}
Dependents(j, s) == {d \in Steps : <<d, s>> \in j.deps}

(* A step that the runner took over in a status other than pending and     *)
(* completed: it is never launched and never counted.                      *)
Inherited(j, s) == j.prior[s] \notin {"pending", "completed"}

(* A step will not run again in this run: its dependents may be decided.   *)
SettledAs(j, st, s) ==
    /\ ~Inherited(j, s)
    /\ st[s] \in {"completed", "failed", "skipped"}

=============================================================================
