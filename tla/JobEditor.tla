------------------------------ MODULE JobEditor ------------------------------
(***************************************************************************)
(* The editor of job definitions: the REST handlers of                     *)
(* internal/server/handler/jobs.go over the tables jobs, steps and         *)
(* step_dependencies of internal/server/store/jobs.go.                     *)
(*                                                                         *)
(* Every request first reads the job (authorizeJobByID) and validates what *)
(* it was asked against that reading, then writes; several requests are    *)
(* under way at a time and no transaction spans a reading and a write.     *)
(* AddDependency writes first and validates afterwards.  A step is         *)
(* abstracted to what the validations tell apart: a plain step, a step     *)
(* with a session key on a machine, or a run_job step with its target.     *)
(***************************************************************************)
EXTENDS Integers, FiniteSets

CONSTANTS Jobs, StepIds,    \* identifiers, never used twice
          Editors,          \* users; every job belongs to one
          EditRequests,     \* handlers that may run at the same time
          Machines,         \* machines a step with a session key may name
          MaxRunJobDepth    \* maxRunJobDepth

(* Identifiers are none of the words the tables use for "not there", and   *)
(* the three kinds of steps can be told apart.                             *)
ASSUME JobEditorAssumption == /\ MaxRunJobDepth \in Nat \ {0}
                              /\ {"none", "deleted"} \cap (Jobs \cup Editors) = {}
                              /\ "plain" \notin Jobs \cup Machines
                              /\ Jobs \cap Machines = {}

VARIABLES
    jobOwner,   \* jobs.user_id, or "none", or "deleted"
    stepJob,    \* steps.job_id, or "none", or "deleted"
    stepKind,   \* "plain", a machine (session key) or a job (run_job)
    deps,       \* step_dependencies: <<step, depends_on>>
    editReq,    \* per handler: where it is and what it was asked
    unchecked,  \* history: edges of deps that stay although no handler will check them
    overlap     \* history: a request wrote between another one's reading and write

jobVars == <<jobOwner, stepJob, stepKind, deps, editReq, unchecked, overlap>>

Kinds  == {"plain"} \cup Machines \cup Jobs
IdleRq == [at |-> "idle"]
StepsOf(j)   == {s \in StepIds : stepJob[s] = j}
DepsOf(j)    == {d \in deps : d[1] \in StepsOf(j)}
TargetsOf(J) == {k \in Jobs : \E s \in StepIds : stepJob[s] \in J /\ stepKind[s] = k}

(* A set of edges is cyclic iff some steps all depend on one of themselves. *)
Cyclic(D) == \E S \in SUBSET StepIds : S # {} /\ \A s \in S : \E t \in S : <<s, t>> \in D

(* The types of the tables; a dependency joins two steps of one existing   *)
(* job (CASCADE on steps and jobs).                                        *)
JobEditorTypeOK ==
    /\ jobOwner \in [Jobs -> Editors \cup {"none", "deleted"}]
    /\ stepJob \in [StepIds -> Jobs \cup {"none", "deleted"}]
    /\ stepKind \in [StepIds -> Kinds]
    /\ deps \subseteq {d \in StepIds \X StepIds : stepJob[d[1]] = stepJob[d[2]]
                                                  /\ stepJob[d[1]] \in Jobs}
    /\ unchecked \subseteq deps
    /\ overlap \in BOOLEAN
    /\ \A r \in EditRequests :
         editReq[r] = IdleRq \/ editReq[r].job \in Jobs

JobEditorInit ==
    /\ jobOwner = [j \in Jobs |-> "none"]
    /\ stepJob = [s \in StepIds |-> "none"] /\ stepKind = [s \in StepIds |-> "plain"]
    /\ deps = {} /\ unchecked = {} /\ overlap = FALSE
    /\ editReq = [r \in EditRequests |-> IdleRq]

-----------------------------------------------------------------------------
(* Reading and validating. *)

(* authorizeJob: the owner (an administrator is one more owner).           *)
authorizeJob(u, j) == jobOwner[j] = u

(* authorizeJobByID: the job is there, and the user may use it.            *)
authorizeJobByID(u, j) == jobOwner[j] \in Editors /\ authorizeJob(u, j)

(* jobOwnsStep, on the steps read with the job.                            *)
jobOwnsStep(j, s) == s \in StepsOf(j)

(* ValidateJobSteps: the steps that share the session key name one machine. *)
ValidateJobSteps(kinds) == \A m, n \in kinds \cap Machines : m = n

(* checkRunJobCycle: the jobs met at each depth of the walk from target.   *)
(* The walk fails when it meets the origin or is still going on at the     *)
(* maximal depth.                                                          *)
RunJobWalk(target) ==
    LET met[d \in 0 .. MaxRunJobDepth] == IF d = 0 THEN {target} ELSE TargetsOf(met[d - 1])
    IN  met

checkRunJobCycle(origin, target) ==
    LET met == RunJobWalk(target)
    IN  /\ \A d \in 1 .. MaxRunJobDepth : origin \notin met[d]
        /\ met[MaxRunJobDepth] = {}

(* validateRunJobStep.                                                     *)
validateRunJobStep(u, j, k) == k # j /\ authorizeJob(u, k) /\ checkRunJobCycle(j, k)

(* What AddStep and UpdateStep check of the new kind k, the other steps of *)
(* the job being rest.                                                     *)
KindAccepted(u, j, k, rest) ==
    /\ k \in Jobs => validateRunJobStep(u, j, k)
    /\ ValidateJobSteps({stepKind[s] : s \in rest} \cup {k})

(* The request is at its write, with what it read.                         *)
Begin(r, q) ==
    /\ editReq[r] = IdleRq
    /\ editReq' = [editReq EXCEPT ![r] = q]
    /\ UNCHANGED <<jobOwner, stepJob, stepKind, deps, unchecked, overlap>>

ReadAddStep(r, u, j) ==
    /\ authorizeJobByID(u, j)
    /\ \E k \in Kinds : /\ KindAccepted(u, j, k, StepsOf(j))
                        /\ Begin(r, [at |-> "AddStep", user |-> u, job |-> j, kind |-> k])

ReadUpdateStep(r, u, j) ==
    /\ authorizeJobByID(u, j)
    /\ \E s \in StepIds, k \in Kinds :
          /\ jobOwnsStep(j, s)
          /\ KindAccepted(u, j, k, StepsOf(j) \ {s})
          /\ Begin(r, [at |-> "UpdateStep", user |-> u, job |-> j, step |-> s, kind |-> k])

ReadDeleteStep(r, u, j) ==
    /\ authorizeJobByID(u, j)
    /\ \E s \in StepIds : /\ jobOwnsStep(j, s)
                          /\ Begin(r, [at |-> "DeleteStep", user |-> u, job |-> j, step |-> s])

ReadAddDependency(r, u, j) ==
    /\ authorizeJobByID(u, j)
    /\ \E s, t \in StepIds :
          /\ jobOwnsStep(j, s) /\ jobOwnsStep(j, t)
          /\ Begin(r, [at |-> "AddDependency", user |-> u, job |-> j, edge |-> <<s, t>>])

ReadRemoveDependency(r, u, j) ==
    /\ authorizeJobByID(u, j)
    /\ \E s, t \in StepIds :
          /\ jobOwnsStep(j, s) /\ jobOwnsStep(j, t)
          /\ Begin(r, [at |-> "RemoveDependency", user |-> u, job |-> j, edge |-> <<s, t>>])

ReadDeleteJob(r, u, j) ==
    /\ authorizeJobByID(u, j)
    /\ Begin(r, [at |-> "DeleteJob", user |-> u, job |-> j])

(* CloneJob reads the steps and the edges it will copy outside of its      *)
(* transaction.                                                            *)
ReadCloneJob(r, u, j) ==
    /\ authorizeJobByID(u, j)
    /\ Begin(r, [at |-> "CloneJob", user |-> u, job |-> j,
                 steps |-> [s \in StepsOf(j) |-> stepKind[s]], edges |-> DepsOf(j)])

-----------------------------------------------------------------------------
(* Writing. *)

AtWrite(r) == editReq[r].at \notin {"idle", "check", "rollback"}

(* Another request has read the job and has not written yet.               *)
Overlaps(r) == \E q \in EditRequests \ {r} : AtWrite(q)

Write(r, what) ==
    /\ editReq[r].at = what
    /\ overlap' = (overlap \/ Overlaps(r))

Answer(r) == editReq' = [editReq EXCEPT ![r] = IdleRq]

(* CreateJob: needs no job; the identifier is a fresh one.                 *)
InsertJob(j, u) == jobOwner[j] = "none" /\ jobOwner' = [jobOwner EXCEPT ![j] = u]

CreateJob(u) ==
    /\ \E j \in Jobs : InsertJob(j, u)
    /\ UNCHANGED <<stepJob, stepKind, deps, editReq, unchecked, overlap>>

(* CreateStep: the foreign key refuses a step of a deleted job.            *)
AddStep(r) ==
    /\ Write(r, "AddStep")
    /\ LET q == editReq[r] IN
       IF jobOwner[q.job] \notin Editors
       THEN UNCHANGED <<stepJob, stepKind>>
       ELSE \E s \in StepIds : /\ stepJob[s] = "none"
                               /\ stepJob' = [stepJob EXCEPT ![s] = q.job]
                               /\ stepKind' = [stepKind EXCEPT ![s] = q.kind]
    /\ Answer(r)
    /\ UNCHANGED <<jobOwner, deps, unchecked>>

UpdateStep(r) ==
    /\ Write(r, "UpdateStep")
    /\ stepKind' = IF stepJob[editReq[r].step] \in Jobs
                   THEN [stepKind EXCEPT ![editReq[r].step] = editReq[r].kind] ELSE stepKind
    /\ Answer(r)
    /\ UNCHANGED <<jobOwner, stepJob, deps, unchecked>>

(* Deleting a step takes its edges with it (ON DELETE CASCADE).            *)
Without(S) ==
    /\ stepJob' = [s \in StepIds |-> IF s \in S THEN "deleted" ELSE stepJob[s]]
    /\ stepKind' = [s \in StepIds |-> IF s \in S THEN "plain" ELSE stepKind[s]]
    /\ deps' = {d \in deps : d[1] \notin S /\ d[2] \notin S}
    /\ unchecked' = unchecked \cap deps'

DeleteStep(r) ==
    /\ Write(r, "DeleteStep")
    /\ Without({editReq[r].step})
    /\ Answer(r)
    /\ UNCHANGED jobOwner

DeleteJob(r) ==
    /\ Write(r, "DeleteJob")
    /\ jobOwner' = [jobOwner EXCEPT ![editReq[r].job] = "deleted"]
    /\ Without(StepsOf(editReq[r].job))
    /\ Answer(r)

(* Edges some handler has inserted and will still check.                   *)
UnderWay == {editReq[r].edge : r \in {q \in EditRequests : editReq[q].at \in {"check", "rollback"}}}

(* CloneJob: a new job with copies of what was read.  A copied edge is not *)
(* validated, whatever became of the original.                             *)
CloneJob(r) ==
    /\ Write(r, "CloneJob")
    /\ LET q == editReq[r] old == DOMAIN q.steps IN
       \E j \in Jobs, copy \in [old -> StepIds] :
          /\ jobOwner[j] = "none"
          /\ \A s \in old : stepJob[copy[s]] = "none"
          /\ \A s, t \in old : copy[s] = copy[t] => s = t
          /\ jobOwner' = [jobOwner EXCEPT ![j] = q.user]
          /\ stepJob' = [s \in StepIds |-> IF \E o \in old : copy[o] = s THEN j ELSE stepJob[s]]
          /\ stepKind' = [s \in StepIds |-> IF \E o \in old : copy[o] = s
                             THEN q.steps[CHOOSE o \in old : copy[o] = s] ELSE stepKind[s]]
          /\ LET copies == {<<copy[d[1]], copy[d[2]]>> : d \in q.edges} IN
                /\ deps' = deps \cup copies
                /\ unchecked' = unchecked \cup copies
    /\ Answer(r)

(* AddDependency inserts the edge; the table refuses an edge to itself, an *)
(* edge it has and an edge of a missing step.                              *)
InsertEdge(r) ==
    /\ Write(r, "AddDependency")
    /\ LET e == editReq[r].edge IN
       IF e[1] = e[2] \/ e \in deps \/ stepJob[e[1]] \notin Jobs \/ stepJob[e[2]] \notin Jobs
       THEN Answer(r) /\ UNCHANGED <<deps>>
       ELSE /\ deps' = deps \cup {e}
            /\ editReq' = [editReq EXCEPT ![r].at = "check"]
    /\ UNCHANGED <<jobOwner, stepJob, stepKind, unchecked>>

RemoveEdge(e) == deps' = deps \ {e} /\ unchecked' = unchecked \ {e}

(* It then reads the graph again and validates it ...                      *)
Mutant_CheckEdge(r) ==
    /\ editReq[r].at = "check"
    /\ editReq' = IF \E t \in StepIds : <<editReq[r].edge[2], t>> \in deps /\ <<t, editReq[r].edge[1]>> \in deps
                  THEN [editReq EXCEPT ![r].at = "rollback"]
                  ELSE [editReq EXCEPT ![r] = IdleRq]
    /\ UNCHANGED <<jobOwner, stepJob, stepKind, deps, unchecked, overlap>>

CheckEdge(r) ==
    /\ editReq[r].at = "check"
    /\ editReq' = IF Cyclic(DepsOf(editReq[r].job)) THEN [editReq EXCEPT ![r].at = "rollback"]
                                                    ELSE [editReq EXCEPT ![r] = IdleRq]
    /\ UNCHANGED <<jobOwner, stepJob, stepKind, deps, unchecked, overlap>>

(* ... and takes the edge back when it closed a cycle.                     *)
RollBackEdge(r) ==
    /\ editReq[r].at = "rollback"
    /\ RemoveEdge(editReq[r].edge)
    /\ Answer(r)
    /\ UNCHANGED <<jobOwner, stepJob, stepKind, overlap>>

(* The reading or the rollback fails (the client went away and with it the *)
(* request's context): the edge stays.                                     *)
CheckFails(r) ==
    /\ editReq[r].at \in {"check", "rollback"}
    /\ unchecked' = unchecked \cup ({editReq[r].edge} \cap deps)
    /\ Answer(r)
    /\ UNCHANGED <<jobOwner, stepJob, stepKind, deps, overlap>>

RemoveDependency(r) ==
    /\ Write(r, "RemoveDependency")
    /\ RemoveEdge(editReq[r].edge)
    /\ Answer(r)
    /\ UNCHANGED <<jobOwner, stepJob, stepKind>>

JobEditorNext ==
    \/ \E u \in Editors : CreateJob(u)
    \/ \E r \in EditRequests, u \in Editors, j \in Jobs :
          \/ ReadAddStep(r, u, j) \/ ReadUpdateStep(r, u, j) \/ ReadDeleteStep(r, u, j)
          \/ ReadAddDependency(r, u, j) \/ ReadRemoveDependency(r, u, j)
          \/ ReadDeleteJob(r, u, j) \/ ReadCloneJob(r, u, j)
    \/ \E r \in EditRequests :
          \/ AddStep(r) \/ UpdateStep(r) \/ DeleteStep(r) \/ DeleteJob(r) \/ CloneJob(r)
          \/ InsertEdge(r) \/ CheckEdge(r) \/ RollBackEdge(r) \/ CheckFails(r)
          \/ RemoveDependency(r)

-----------------------------------------------------------------------------
(* Properties. *)

(* However requests interleave, a cycle consists of edges of which one is  *)
(* still to be checked by its handler or was left behind unchecked (a      *)
(* clone, a client that went away): insert, read again and take back is    *)
(* enough without a transaction.                                           *)
CheckedEdgesAcyclic == ~Cyclic(deps \ (UnderWay \cup unchecked))

(* While requests do not overlap, no job starts itself through run_job     *)
(* steps: checkRunJobCycle at the reading of AddStep and UpdateStep.       *)
RunJobAcyclic ==
    ~overlap => ~\E J \in SUBSET Jobs : J # {} /\ \A j \in J : \E k \in J : k \in TargetsOf({j})

(* While requests do not overlap, the steps of a job that share a session  *)
(* key name one machine, also after UpdateStep and CloneJob.               *)
KeyOnOneMachine ==
    ~overlap => \A j \in Jobs : \A s, t \in StepsOf(j) :
                   {stepKind[s], stepKind[t]} \subseteq Machines => stepKind[s] = stepKind[t]

(* A step or an edge of an existing job changes only by a request that was *)
(* made for this job by its owner, whatever other requests do to the job   *)
(* in between.                                                             *)
OnlyOwnerEdits ==
    \A j \in Jobs :
       jobOwner[j] \in Editors
       /\ (StepsOf(j)' # StepsOf(j) \/ DepsOf(j)' # DepsOf(j)
           \/ \E s \in StepsOf(j) : stepKind'[s] # stepKind[s])
       => \E r \in EditRequests : editReq[r] # IdleRq /\ editReq[r].job = j
                                  /\ editReq[r].user = jobOwner[j]

(* What overlapping requests cannot do to a definition: let a cycle        *)
(* through the check of AddDependency, or change a job of somebody else;   *)
(* and what requests one after the other cannot do: close a run_job cycle  *)
(* or spread a session key over two machines.                              *)
JobEditorSafe ==
    /\ [](JobEditorTypeOK /\ CheckedEdgesAcyclic /\ RunJobAcyclic /\ KeyOnOneMachine)
    /\ [][OnlyOwnerEdits]_jobVars
==============================================================================
