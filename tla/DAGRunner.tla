----------------------------- MODULE DAGRunner -----------------------------
(***************************************************************************)
(* The DAG runner of one job run                                           *)
(* (internal/server/orchestrator/dag_runner.go).                           *)
(*                                                                         *)
(* Every handler runs under the mutex d.mu.  A handler whose body is a     *)
(* loop over steps, dependents or deferred steps is a sequence of actions, *)
(* one per iteration, with pc saying which loop holds the mutex; the       *)
(* handlers without such a loop are one action each, enabled when the      *)
(* mutex is free (pc = "idle").  What happens outside the mutex            *)
(* interleaves with the loops: a delayed launch, a call to the executor,   *)
(* and the cancellation of the context, which Cancel performs after it     *)
(* has unlocked.                                                           *)
(*                                                                         *)
(* The executor (StepExecutor) is the environment: it calls                *)
(* OnStepCompleted once for each ExecuteStep, at any later time, with exit *)
(* code zero or not.                                                       *)
(***************************************************************************)
EXTENDS Job

VARIABLES
    job,               \* run steps, snapshots and dependencies
    ctx,               \* d.ctx: "nil" before Start, then "live", "cancelled"
    status,            \* d.steps[s].Status
    attempt,           \* d.steps[s].Attempt
    inDegree,          \* d.inDegree
    hasFailedUpstream, \* d.hasFailedUpstream
    completed,         \* d.completed
    failed,            \* d.failed
    done,              \* d.done is closed
    activeKeys,        \* d.activeSessionKeys
    deferred,          \* d.deferredSteps
    pc,                \* the loop that holds d.mu
    item,              \* processReadyDependents: the work item in hand
    todo,              \* the iterations the current loop still has to make
    queue,             \* processReadyDependents: the work queue
    scan,              \* processDeferredSteps: the rest of the old list
    toLaunch,          \* steps to launch once d.mu is released
    waiting,           \* per step, launches that have not called the executor
    executing,         \* per step, ExecuteStep calls not yet completed
    retrying,          \* per step, retry goroutines
    cancelling,        \* a Cancel is between its unlock and its cancel()
    outcome            \* the calls of onRunComplete, in order

graph  == <<inDegree, hasFailedUpstream>>
keys   == <<activeKeys, deferred>>
loops  == <<pc, item, todo, queue, scan, toLaunch>>
procs  == <<waiting, executing, retrying>>
ending == <<done, cancelling, outcome>>
vars   == <<job, ctx, status, attempt, graph, completed, failed, keys,
            loops, procs, ending>>

(* How a work item's step ended, as processReadyDependents is told. *)
WorkItem == [step : Steps, failed : BOOLEAN]

RecordOK == /\ job \in Jobs
            /\ ctx \in {"nil", "live", "cancelled"}
            /\ status \in [Steps -> StepStatus]
            /\ attempt \in [Steps -> Nat]
            /\ completed \in Nat
            /\ failed \in BOOLEAN

GraphOK == /\ inDegree \in [Steps -> Int]
           /\ hasFailedUpstream \in [Steps -> BOOLEAN]

KeysOK == /\ activeKeys \subseteq Keys
          /\ deferred \in Seq(Steps)

LoopsOK == /\ pc \in {"idle", "start", "deps", "deferred"}
           /\ pc = "deps" => item \in WorkItem
           /\ todo \subseteq Steps
           /\ queue \in Seq(WorkItem)
           /\ scan \in Seq(Steps)
           /\ toLaunch \subseteq Steps

ProcsOK == /\ waiting \in [Steps -> Nat]
           /\ executing \in [Steps -> Nat]
           /\ retrying \in [Steps -> Nat]

EndingOK == /\ done \in BOOLEAN
            /\ cancelling \in BOOLEAN
            /\ outcome \in Seq({"completed", "failed"})

(* Every variable of the runner stays in its type; in particular the empty *)
(* session key is never claimed, and no launch, execution or retry counter *)
(* goes below zero.                                                        *)
TypeOK == RecordOK /\ GraphOK /\ KeysOK /\ LoopsOK /\ ProcsOK /\ EndingOK

-----------------------------------------------------------------------------
(* NewDAGRunner, and for a rebuilt run the pre-processing of the completed *)
(* steps in rebuildAndStartRun.                                            *)
Init ==
    /\ job \in Jobs
    /\ ctx = "nil"
    /\ status = job.prior
    /\ attempt = [s \in Steps |-> 1]
    /\ inDegree = [s \in Steps |->
           Cardinality({u \in Upstream(job, s) : job.prior[u] # "completed"})]
    /\ hasFailedUpstream = [s \in Steps |-> FALSE]
    /\ completed = Cardinality({s \in Steps : job.prior[s] = "completed"})
    /\ failed = FALSE
    /\ done = FALSE
    /\ activeKeys = {}
    /\ deferred = <<>>
    /\ pc = "idle"
    /\ item = <<>>
    /\ todo = {}
    /\ queue = <<>>
    /\ scan = <<>>
    /\ toLaunch = {}
    /\ waiting = [s \in Steps |-> 0]
    /\ executing = [s \in Steps |-> 0]
    /\ retrying = [s \in Steps |-> 0]
    /\ cancelling = FALSE
    /\ outcome = <<>>

Mutant_canLaunch(s) == TRUE

canLaunch(s) == job.key[s] = NoKey \/ job.key[s] \notin activeKeys

Mutant_claimSessionKey(s) == activeKeys' = activeKeys \cup {job.key[s]}

claimSessionKey(s) == activeKeys' = activeKeys \cup ({job.key[s]} \ {NoKey})

releaseSessionKey(s) == activeKeys' = activeKeys \ {job.key[s]}

(* The three places that launch a step under the mutex do the same thing. *)
Launch(s) ==
    /\ canLaunch(s)
    /\ claimSessionKey(s)
    /\ status' = [status EXCEPT ![s] = "running"]
    /\ toLaunch' = toLaunch \cup {s}

(* run_if: all_success, the default, skips a step with a failed upstream. *)
mustSkip(s, upstreamFailed) == upstreamFailed /\ job.runIf[s] # "all_done"

(* Unlock, then launchStep for each collected step. *)
UnlockAndLaunch ==
    /\ pc' = "idle"
    /\ toLaunch' = {}
    /\ waiting' = [s \in Steps |-> IF s \in toLaunch THEN waiting[s] + 1
                                                     ELSE waiting[s]]

-----------------------------------------------------------------------------
(* Start *)
Start ==
    /\ ctx = "nil"
    /\ pc = "idle"
    /\ ctx' = "live"
    /\ pc' = "start"
    /\ todo' = {s \in Steps : inDegree[s] = 0}
    /\ UNCHANGED <<job, status, attempt, graph, completed, failed, keys,
                   item, queue, scan, toLaunch, procs, ending>>

(* One iteration of Start's loop; a Go map is ranged over in any order. *)
StartRoot(s) ==
    /\ pc = "start"
    /\ s \in todo
    /\ todo' = todo \ {s}
    /\ \/ /\ status[s] = "pending"
          /\ Launch(s)
          /\ UNCHANGED deferred
       \/ /\ status[s] = "pending"
          /\ ~canLaunch(s)
          /\ deferred' = Append(deferred, s)
          /\ UNCHANGED <<activeKeys, status, toLaunch>>
       \/ /\ status[s] # "pending"
          /\ UNCHANGED <<keys, status, toLaunch>>
    /\ UNCHANGED <<job, ctx, attempt, graph, completed, failed, pc, item,
                   queue, scan, procs, ending>>

StartUnlock ==
    /\ pc = "start"
    /\ todo = {}
    /\ UnlockAndLaunch
    /\ UNCHANGED <<job, ctx, status, attempt, graph, completed, failed, keys,
                   item, todo, queue, scan, executing, retrying, ending>>

(* launchStep: the delay, if any, elapses and the executor is called. *)
ExecuteStep(s) ==
    /\ waiting[s] > 0
    /\ waiting' = [waiting EXCEPT ![s] = @ - 1]
    /\ executing' = [executing EXCEPT ![s] = @ + 1]
    /\ UNCHANGED <<job, ctx, status, attempt, graph, completed, failed, keys,
                   loops, retrying, ending>>

(* launchStep: the context ends during the delay. *)
DelayCancelled(s) ==
    /\ waiting[s] > 0
    /\ job.delay[s]
    /\ ctx = "cancelled"
    /\ waiting' = [waiting EXCEPT ![s] = @ - 1]
    /\ UNCHANGED <<job, ctx, status, attempt, graph, completed, failed, keys,
                   loops, executing, retrying, ending>>

-----------------------------------------------------------------------------
(* OnStepCompleted.  Its branches up to processReadyDependents. *)

(* The executor calls back and the handler gets the mutex. *)
Callback(s) ==
    /\ executing[s] > 0
    /\ pc = "idle"
    /\ executing' = [executing EXCEPT ![s] = @ - 1]

(* The context was cancelled: the result is dropped. *)
CompletionIgnored(s) ==
    /\ Callback(s)
    /\ ctx = "cancelled"
    /\ UNCHANGED <<job, ctx, status, attempt, graph, completed, failed, keys,
                   loops, waiting, retrying, ending>>

(* Count the step and enter the loop over its dependents. *)
Propagate(s, stepFailed) ==
    /\ completed' = completed + 1
    /\ pc' = "deps"
    /\ item' = [step |-> s, failed |-> stepFailed]
    /\ todo' = Dependents(job, s)
    /\ UNCHANGED <<queue, scan, toLaunch>>

StepSucceeded(s) ==
    /\ Callback(s)
    /\ ctx # "cancelled"
    /\ releaseSessionKey(s)
    /\ status' = [status EXCEPT ![s] = "completed"]
    /\ Propagate(s, FALSE)
    /\ UNCHANGED <<job, ctx, attempt, graph, failed, deferred, waiting,
                   retrying, ending>>

Mutant_CanRetry(s) == job.maxRetries[s] > 0 /\ attempt[s] <= job.maxRetries[s] + 1

CanRetry(s) == job.maxRetries[s] > 0 /\ attempt[s] <= job.maxRetries[s]

Mutant_StepRetried(s) ==
    /\ Callback(s)
    /\ ctx # "cancelled"
    /\ CanRetry(s)
    /\ releaseSessionKey(s)
    /\ status' = [status EXCEPT ![s] = "pending"]
    /\ deferred' = Append(deferred, s)
    /\ attempt' = [attempt EXCEPT ![s] = @ + 1]
    /\ retrying' = [retrying EXCEPT ![s] = @ + 1]
    /\ UNCHANGED <<job, ctx, graph, completed, failed, loops, waiting, ending>>

(* A failure with attempts left: a retry goroutine is started.  The        *)
(* deferred steps are not looked at.                                       *)
StepRetried(s) ==
    /\ Callback(s)
    /\ ctx # "cancelled"
    /\ CanRetry(s)
    /\ releaseSessionKey(s)
    /\ status' = [status EXCEPT ![s] = "failed"]
    /\ attempt' = [attempt EXCEPT ![s] = @ + 1]
    /\ retrying' = [retrying EXCEPT ![s] = @ + 1]
    /\ UNCHANGED <<job, ctx, graph, completed, failed, deferred, loops,
                   waiting, ending>>

(* A final failure with on_failure = fail_run ends the run. *)
StepFailedRun(s) ==
    /\ Callback(s)
    /\ ctx # "cancelled"
    /\ ~CanRetry(s)
    /\ job.onFailure[s] = "fail_run"
    /\ releaseSessionKey(s)
    /\ failed' = TRUE
    /\ status' = [t \in Steps |-> CASE t = s -> "failed"
                                    [] t # s /\ status[t] = "pending" -> "skipped"
                                    [] t # s /\ status[t] = "running" -> "cancelled"
                                    [] OTHER -> status[t]]
    /\ ctx' = "cancelled"
    /\ done' = TRUE
    /\ outcome' = Append(outcome, "failed")
    /\ UNCHANGED <<job, attempt, graph, completed, deferred, loops, waiting,
                   retrying, cancelling>>

StepFailed(s) ==
    /\ Callback(s)
    /\ ctx # "cancelled"
    /\ ~CanRetry(s)
    /\ job.onFailure[s] # "fail_run"
    /\ releaseSessionKey(s)
    /\ failed' = TRUE
    /\ status' = [status EXCEPT ![s] = "failed"]
    /\ Propagate(s, TRUE)
    /\ UNCHANGED <<job, ctx, attempt, graph, deferred, waiting, retrying,
                   ending>>

-----------------------------------------------------------------------------
(* processReadyDependents *)

(* Its last dependency is decided and nothing decided the step itself. *)
isReady(d, degree) == degree = 0 /\ status[d] = "pending"

(* A ready step that is skipped: counted, and a work item of its own. *)
Mutant_SkipReady(d) ==
    /\ status' = [status EXCEPT ![d] = "skipped"]
    /\ completed' = completed + 1
    /\ UNCHANGED <<queue, keys, toLaunch>>

SkipReady(d) ==
    /\ status' = [status EXCEPT ![d] = "skipped"]
    /\ completed' = completed + 1
    /\ queue' = Append(queue, [step |-> d, failed |-> TRUE])
    /\ UNCHANGED <<keys, toLaunch>>

(* One dependent of the work item: its in-degree drops, and if that makes  *)
(* it ready it is skipped (and queued as a work item), launched or         *)
(* deferred.                                                               *)
Dependent(d) ==
    /\ pc = "deps"
    /\ d \in todo
    /\ todo' = todo \ {d}
    /\ hasFailedUpstream' = [hasFailedUpstream EXCEPT ![d] = @ \/ item.failed]
    /\ inDegree' = [inDegree EXCEPT ![d] = @ - 1]
    /\ LET ready == isReady(d, inDegree'[d])
           skip  == mustSkip(d, hasFailedUpstream'[d])
       IN \/ /\ ~ready
             /\ UNCHANGED <<status, completed, queue, keys, toLaunch>>
          \/ /\ ready /\ skip
             /\ SkipReady(d)
          \/ /\ ready /\ ~skip
             /\ Launch(d)
             /\ UNCHANGED <<completed, queue, deferred>>
          \/ /\ ready /\ ~skip
             /\ ~canLaunch(d)
             /\ deferred' = Append(deferred, d)
             /\ UNCHANGED <<status, completed, queue, activeKeys, toLaunch>>
    /\ UNCHANGED <<job, ctx, attempt, failed, pc, item, scan, procs, ending>>

NextItem ==
    /\ pc = "deps"
    /\ todo = {}
    /\ queue # <<>>
    /\ item' = Head(queue)
    /\ queue' = Tail(queue)
    /\ todo' = Dependents(job, Head(queue).step)
    /\ UNCHANGED <<job, ctx, status, attempt, graph, completed, failed, keys,
                   pc, scan, toLaunch, procs, ending>>

Mutant_BeginDeferred ==
    /\ pc = "deps"
    /\ todo = {}
    /\ queue = <<>>
    /\ pc' = "deferred"
    /\ UNCHANGED <<job, ctx, status, attempt, graph, completed, failed, keys,
                   item, todo, queue, scan, toLaunch, procs, ending>>

(* processDeferredSteps begins: the list is rebuilt from its own elements. *)
BeginDeferred ==
    /\ pc = "deps"
    /\ todo = {}
    /\ queue = <<>>
    /\ pc' = "deferred"
    /\ scan' = deferred
    /\ deferred' = <<>>
    /\ UNCHANGED <<job, ctx, status, attempt, graph, completed, failed,
                   activeKeys, item, todo, queue, toLaunch, procs, ending>>

(* One iteration of processDeferredSteps: the step is launched; or it is   *)
(* dropped because something else decided it, skipped because an upstream  *)
(* step failed, or kept because its key is still in use.                   *)
DeferredStep ==
    /\ pc = "deferred"
    /\ scan # <<>>
    /\ scan' = Tail(scan)
    /\ LET s    == Head(scan)
           wait == status[s] = "pending"
           skip == mustSkip(s, hasFailedUpstream[s])
       IN \/ /\ wait /\ ~skip
             /\ Launch(s)
             /\ UNCHANGED <<completed, deferred>>
          \/ /\ ~(wait /\ ~skip /\ canLaunch(s))
             /\ status' = IF wait /\ skip THEN [status EXCEPT ![s] = "skipped"]
                                          ELSE status
             /\ completed' = IF wait /\ skip THEN completed + 1 ELSE completed
             /\ deferred' = IF wait /\ ~skip THEN Append(deferred, s)
                                             ELSE deferred
             /\ UNCHANGED <<activeKeys, toLaunch>>
    /\ UNCHANGED <<job, ctx, attempt, graph, failed, pc, item, todo, queue,
                   procs, ending>>

(* The end of OnStepCompleted: the run is over, or the collected steps are *)
(* launched.                                                               *)
FinishRun ==
    /\ pc = "deferred"
    /\ scan = <<>>
    /\ completed = Cardinality(Steps)
    /\ pc' = "idle"
    /\ toLaunch' = {}
    /\ done' = TRUE
    /\ outcome' = Append(outcome, IF failed THEN "failed" ELSE "completed")
    /\ UNCHANGED <<job, ctx, status, attempt, graph, completed, failed, keys,
                   item, todo, queue, scan, procs, cancelling>>

ContinueRun ==
    /\ pc = "deferred"
    /\ scan = <<>>
    /\ completed # Cardinality(Steps)
    /\ UnlockAndLaunch
    /\ UNCHANGED <<job, ctx, status, attempt, graph, completed, failed, keys,
                   item, todo, queue, scan, executing, retrying, ending>>

-----------------------------------------------------------------------------
(* The retry goroutine: it gives up when the context is cancelled, waits   *)
(* for its session key with the deferred steps, or calls the executor.     *)
RetryFires(s) ==
    /\ retrying[s] > 0
    /\ pc = "idle"
    /\ retrying' = [retrying EXCEPT ![s] = @ - 1]
    /\ \/ /\ ctx = "cancelled"
          /\ UNCHANGED <<status, keys, executing>>
       \/ /\ ctx # "cancelled"
          /\ ~canLaunch(s)
          /\ status' = [status EXCEPT ![s] = "pending"]
          /\ deferred' = Append(deferred, s)
          /\ UNCHANGED <<activeKeys, executing>>
       \/ /\ ctx # "cancelled"
          /\ canLaunch(s)
          /\ claimSessionKey(s)
          /\ status' = [status EXCEPT ![s] = "running"]
          /\ executing' = [executing EXCEPT ![s] = @ + 1]
          /\ UNCHANGED deferred
    /\ UNCHANGED <<job, ctx, attempt, graph, completed, failed, loops,
                   waiting, ending>>

(* Cancel: under the mutex it closes done and reads d.cancel, which is nil *)
(* before Start; the cancel function is called after the unlock.           *)
Cancel ==
    /\ pc = "idle"
    /\ done' = TRUE
    /\ cancelling' = (cancelling \/ ctx # "nil")
    /\ UNCHANGED <<job, ctx, status, attempt, graph, completed, failed, keys,
                   loops, procs, outcome>>

CancelContext ==
    /\ cancelling
    /\ cancelling' = FALSE
    /\ ctx' = "cancelled"
    /\ UNCHANGED <<job, status, attempt, graph, completed, failed, keys,
                   loops, procs, done, outcome>>

-----------------------------------------------------------------------------
StepAction(s) ==
    \/ StartRoot(s) \/ ExecuteStep(s) \/ DelayCancelled(s)
    \/ CompletionIgnored(s) \/ StepSucceeded(s) \/ StepRetried(s)
    \/ StepFailedRun(s) \/ StepFailed(s) \/ Dependent(s) \/ RetryFires(s)

RunAction ==
    \/ Start \/ StartUnlock \/ NextItem \/ BeginDeferred \/ DeferredStep
    \/ FinishRun \/ ContinueRun \/ Cancel \/ CancelContext

Next == RunAction \/ \E s \in Steps : StepAction(s)

Spec == Init /\ [][Next]_vars


(* The goroutine that holds the mutex keeps running; launches, retries and *)
(* a cancel in progress are goroutines the Go scheduler runs; and the      *)
(* executor answers every ExecuteStep (an assumption about its             *)
(* environment).                                                           *)
HolderStep ==
    \/ StartUnlock \/ NextItem \/ BeginDeferred \/ DeferredStep \/ FinishRun
    \/ ContinueRun \/ \E s \in Steps : StartRoot(s) \/ Dependent(s)

Completion(s) ==
    \/ CompletionIgnored(s) \/ StepSucceeded(s) \/ StepRetried(s)
    \/ StepFailedRun(s) \/ StepFailed(s)

Fairness ==
    /\ WF_vars(Start)
    /\ WF_vars(HolderStep)
    /\ WF_vars(CancelContext)
    /\ \A s \in Steps : /\ WF_vars(ExecuteStep(s))
                         /\ WF_vars(Completion(s))
                         /\ WF_vars(RetryFires(s))

FairSpec == Spec /\ Fairness

-----------------------------------------------------------------------------
(* Properties *)

(* Per step, the executions that were decided and have not called back. *)
Outstanding ==
    [s \in Steps |-> waiting[s] + executing[s] + (IF s \in toLaunch THEN 1 ELSE 0)]

(* s is decided for good: counted, and no retry is on its way. *)
Final(s) == SettledAs(job, status, s) /\ retrying[s] = 0

(* Session key serialization: two steps with the same session key never    *)
(* have an execution outstanding at the same time, whatever retries,       *)
(* deferrals, delays and cancellation do (canLaunch, claimSessionKey and   *)
(* releaseSessionKey are called from five places).                         *)
SessionKeyExclusive ==
    \A s, t \in Steps :
        s # t /\ job.key[s] = job.key[t] /\ job.key[s] # NoKey
            => Outstanding[s] = 0 \/ Outstanding[t] = 0

(* A step is never executed twice at once: it has at most one execution or *)
(* one retry goroutine (the root, dependent, deferred and retry paths all  *)
(* launch it).                                                             *)
SingleExecution ==
    \A s \in Steps : Outstanding[s] + retrying[s] <= 1

(* Dependency order: when a step is being executed every upstream step is  *)
(* decided for good, and unless run_if is all_done every one completed     *)
(* (the in-degree counters and hasFailedUpstream of processReadyDependents *)
(* mean what they stand for).                                              *)
StartsAfterUpstream ==
    \A s \in Steps : Outstanding[s] > 0 =>
        \A u \in Upstream(job, s) :
            /\ Final(u)
            /\ job.runIf[s] = "all_done" \/ status[u] = "completed"

(* The branch of processDeferredSteps that skips a step without telling    *)
(* its dependents is never taken: no step waiting for a session key has a  *)
(* failed upstream that would skip it.                                     *)
DeferredNeverSkipped ==
    \A i \in DOMAIN deferred :
        LET s == deferred[i] IN
        status[s] = "pending" /\ hasFailedUpstream[s]
            => job.runIf[s] = "all_done"

(* No lost wakeup: while the run is live and the mutex is free, a pending  *)
(* step either still has an undecided upstream step or waits in            *)
(* deferredSteps, and then another step with its session key is executing  *)
(* or about to retry, whose completion rescans the list.                   *)
NoLostWakeup ==
    ctx = "live" /\ pc = "idle" =>
        \A s \in Steps : status[s] = "pending" =>
            \/ \E u \in Upstream(job, s) : ~Final(u)
            \/ /\ \E i \in DOMAIN deferred : deferred[i] = s
               /\ \E t \in Steps \ {s} : /\ job.key[t] = job.key[s]
                                         /\ Outstanding[t] + retrying[t] > 0

(* onRunComplete is called at most once, "completed" only when every step  *)
(* completed, "failed" only when some step failed with no attempt left.    *)
OutcomeSound ==
    /\ Len(outcome) <= 1
    /\ outcome = <<"completed">> => \A s \in Steps : status[s] = "completed"
    /\ outcome = <<"failed">> =>
          \E s \in Steps : status[s] = "failed" /\ retrying[s] = 0 /\ ~CanRetry(s)

(* Once the outcome is reported no step changes its status any more: late  *)
(* completions, retries and delayed launches leave the runner's record     *)
(* alone.                                                                  *)
ReportedIsFinal ==
    outcome # <<>> => status' = status

(* A started run that is not cancelled reports an outcome: no combination  *)
(* of session keys, retries and skips leaves it waiting for ever.          *)
RunEnds == (ctx = "live") ~> (outcome # <<>> \/ ctx = "cancelled")

-----------------------------------------------------------------------------
(* The abstract run this runner implements: a step whose retry goroutine   *)
(* exists is retrying; a cancelled context is a stopped run.               *)
AbstractStatus ==
    [s \in Steps |-> IF retrying[s] > 0 THEN "retrying" ELSE status[s]]

Contract == INSTANCE JobRun WITH st <- AbstractStatus, tries <- attempt,
                                 stopped <- (ctx = "cancelled")

(* Every behaviour of the runner is one of the run contract: the counters, *)
(* queues and lists decide exactly what the declarative rules allow.       *)
ImplementsContract == Contract!Spec

(* The scheduling rules together: a step starts after its upstream steps,  *)
(* a deferred step is neither skipped nor forgotten                        *)
(* (processDeferredSteps), the outcome that onRunComplete reports fits the *)
(* steps, and no step changes after it.                                    *)
SchedulingSound ==
    /\ [](StartsAfterUpstream /\ DeferredNeverSkipped /\ NoLostWakeup /\ OutcomeSound)
    /\ [][ReportedIsFinal]_vars
=============================================================================
