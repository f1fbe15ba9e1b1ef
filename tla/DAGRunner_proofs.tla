------------------------- MODULE DAGRunner_proofs -------------------------
(***************************************************************************)
(* Proofs about the DAG runner, for every set of steps, keys and jobs.     *)
(***************************************************************************)
EXTENDS DAGRunner, FiniteSetTheorems, TLAPS

(* Where an execution or a retry of s may be, and what the runner's record *)
(* of s says meanwhile.                                                    *)
ExecAt(s) ==
    /\ Outstanding[s] + retrying[s] <= 1
    /\ Outstanding[s] > 0 => status[s] \in {"running", "cancelled"}
    /\ retrying[s] > 0 => status[s] = "failed"

ExecInv == \A s \in Steps : ExecAt(s)

(* The steps with an execution outstanding. *)
Busy == {s \in Steps : Outstanding[s] > 0}

(* With busy steps B and active keys A: the key of every busy step is      *)
(* active, and no two busy steps have the same one.                        *)
KeySafe(key, B, A) ==
    /\ \A s \in B : key[s] # NoKey => key[s] \in A
    /\ \A s, t \in B : s # t /\ key[s] = key[t] => key[s] = NoKey

KInv == TypeOK /\ ExecInv /\ KeySafe(job.key, Busy, activeKeys)

-----------------------------------------------------------------------------
LEMMA JobFacts ==
    ASSUME job \in Jobs
    PROVE  /\ job.key \in [Steps -> Keys \cup {NoKey}]
           /\ job.maxRetries \in [Steps -> Nat]
           /\ job.prior \in [Steps -> StepStatus]
           /\ NoKey \notin Keys
BY JobAssumption DEF JobType

(* The number of steps with a property is a natural number. *)
LEMMA CountIsNat ==
    ASSUME NEW S \in SUBSET Steps
    PROVE  Cardinality(S) \in Nat /\ IsFiniteSet(S)
BY JobAssumption, FS_Subset, FS_CardinalityType

LEMMA SeqFacts ==
    ASSUME NEW S, NEW q \in Seq(S)
    PROVE  /\ \A x \in S : Append(q, x) \in Seq(S)
           /\ q # <<>> => Head(q) \in S /\ Tail(q) \in Seq(S)
OBVIOUS

LEMMA EmptySeq == \A S : <<>> \in Seq(S)
OBVIOUS

LEMMA TypeInit == Init => TypeOK
<1> SUFFICES ASSUME Init PROVE TypeOK
    OBVIOUS
<1>1. completed \in Nat
    BY CountIsNat DEF Init
<1>2. inDegree \in [Steps -> Int]
    <2>1. ASSUME NEW s \in Steps
          PROVE  Cardinality({u \in Upstream(job, s) : job.prior[u] # "completed"}) \in Int
        <3>1. {u \in Upstream(job, s) : job.prior[u] # "completed"} \in SUBSET Steps
            BY DEF Upstream
        <3>2. QED
            BY <3>1, CountIsNat
    <2>2. QED
        BY <2>1 DEF Init
<1>3. RecordOK
    BY <1>1, JobFacts DEF Init, RecordOK
<1>4. GraphOK
    BY <1>2 DEF Init, GraphOK
<1>5. KeysOK /\ EndingOK
    BY EmptySeq, Zenon DEF Init, KeysOK, EndingOK
<1>7. LoopsOK
    BY EmptySeq, Zenon DEF Init, LoopsOK
<1>8. ProcsOK
    BY DEF Init, ProcsOK
<1>6. QED
    BY <1>3, <1>4, <1>5, <1>7, <1>8 DEF TypeOK

LEMMA TypeNext == TypeOK /\ [Next]_vars => TypeOK'
<1> SUFFICES ASSUME TypeOK, [Next]_vars PROVE TypeOK'
    OBVIOUS
<1> USE DEF TypeOK
<1>0. \A s \in Steps : job.key[s] \in Keys \cup {NoKey}
    BY JobFacts DEF RecordOK
<1>1. CASE UNCHANGED vars
    BY <1>1 DEF RecordOK, GraphOK, KeysOK, LoopsOK, ProcsOK, EndingOK,
                vars, graph, keys, loops, procs, ending
<1>2. CASE Start
    <2>1. GraphOK' /\ KeysOK' /\ ProcsOK' /\ EndingOK'
        BY <1>2 DEF Start, GraphOK, KeysOK, ProcsOK, EndingOK, graph, keys,
            procs, ending
    <2>2. RecordOK'
        BY <1>2 DEF Start, RecordOK, StepStatus
    <2>3. LoopsOK'
        BY <1>2 DEF Start, LoopsOK
    <2>4. QED
        BY <2>1, <2>2, <2>3
<1>3. CASE StartUnlock
    <2>1. RecordOK' /\ GraphOK' /\ KeysOK' /\ EndingOK'
        BY <1>3 DEF StartUnlock, RecordOK, GraphOK, KeysOK, EndingOK, graph,
            keys, ending
    <2>2. LoopsOK'
        BY <1>3 DEF StartUnlock, UnlockAndLaunch, LoopsOK
    <2>3. ProcsOK'
        BY <1>3 DEF StartUnlock, UnlockAndLaunch, ProcsOK
    <2>4. QED
        BY <2>1, <2>2, <2>3
<1>4. CASE NextItem
    <2>1. RecordOK' /\ GraphOK' /\ KeysOK' /\ ProcsOK' /\ EndingOK'
        BY <1>4 DEF NextItem, RecordOK, GraphOK, KeysOK, ProcsOK, EndingOK,
            graph, keys, procs, ending
    <2>2. LoopsOK'
        <3>1. Head(queue) \in WorkItem /\ Tail(queue) \in Seq(WorkItem)
            BY <1>4, SeqFacts DEF NextItem, LoopsOK
        <3>2. todo' \subseteq Steps
            BY <1>4 DEF NextItem, Dependents
        <3>3. QED
            BY <1>4, <3>1, <3>2, Zenon DEF NextItem, LoopsOK
    <2>3. QED
        BY <2>1, <2>2
<1>5. CASE BeginDeferred
    <2>1. RecordOK' /\ GraphOK' /\ ProcsOK' /\ EndingOK'
        BY <1>5 DEF BeginDeferred, RecordOK, GraphOK, ProcsOK, EndingOK,
            graph, procs, ending
    <2>2. KeysOK'
        BY <1>5 DEF BeginDeferred, KeysOK, keys
    <2>3. LoopsOK'
        BY <1>5, Zenon DEF BeginDeferred, LoopsOK, KeysOK
    <2>4. QED
        BY <2>1, <2>2, <2>3
<1>6. CASE DeferredStep
    <2>1. GraphOK' /\ ProcsOK' /\ EndingOK'
        BY <1>6 DEF DeferredStep, GraphOK, ProcsOK, EndingOK, graph, procs,
            ending
    <2>2. RecordOK'
        BY <1>6 DEF DeferredStep, Launch, RecordOK, StepStatus
    <2>3. KeysOK'
        <3>1. Head(scan) \in Steps
            BY <1>6, SeqFacts DEF DeferredStep, LoopsOK
        <3>2. activeKeys' \subseteq Keys
            BY <1>6, <1>0, <3>1 DEF DeferredStep, Launch, claimSessionKey, KeysOK
        <3>3. deferred' \in Seq(Steps)
            BY <1>6, <3>1 DEF DeferredStep, KeysOK
        <3>4. QED
            BY <3>2, <3>3 DEF KeysOK
    <2>4. LoopsOK'
        BY <1>6 DEF DeferredStep, Launch, LoopsOK
    <2>5. QED
        BY <2>1, <2>2, <2>3, <2>4
<1>7. CASE FinishRun
    <2>1. RecordOK' /\ GraphOK' /\ KeysOK' /\ ProcsOK'
        BY <1>7 DEF FinishRun, RecordOK, GraphOK, KeysOK, ProcsOK, graph,
            keys, procs
    <2>2. LoopsOK'
        BY <1>7 DEF FinishRun, LoopsOK
    <2>3. EndingOK'
        BY <1>7 DEF FinishRun, EndingOK
    <2>4. QED
        BY <2>1, <2>2, <2>3
<1>8. CASE ContinueRun
    <2>1. RecordOK' /\ GraphOK' /\ KeysOK' /\ EndingOK'
        BY <1>8 DEF ContinueRun, RecordOK, GraphOK, KeysOK, EndingOK, graph,
            keys, ending
    <2>2. LoopsOK'
        BY <1>8 DEF ContinueRun, UnlockAndLaunch, LoopsOK
    <2>3. ProcsOK'
        BY <1>8 DEF ContinueRun, UnlockAndLaunch, ProcsOK
    <2>4. QED
        BY <2>1, <2>2, <2>3
<1>9. CASE Cancel
    <2>1. RecordOK' /\ GraphOK' /\ KeysOK' /\ LoopsOK' /\ ProcsOK'
        BY <1>9 DEF Cancel, RecordOK, GraphOK, KeysOK, LoopsOK, ProcsOK,
            graph, keys, loops, procs
    <2>2. EndingOK'
        BY <1>9 DEF Cancel, EndingOK
    <2>3. QED
        BY <2>1, <2>2
<1>10. CASE CancelContext
    <2>1. GraphOK' /\ KeysOK' /\ LoopsOK' /\ ProcsOK'
        BY <1>10 DEF CancelContext, GraphOK, KeysOK, LoopsOK, ProcsOK, graph,
            keys, loops, procs
    <2>2. RecordOK'
        BY <1>10 DEF CancelContext, RecordOK, StepStatus
    <2>3. EndingOK'
        BY <1>10 DEF CancelContext, EndingOK
    <2>4. QED
        BY <2>1, <2>2, <2>3
<1>11. ASSUME NEW s \in Steps, StartRoot(s) PROVE TypeOK'
    <2>1. GraphOK' /\ ProcsOK' /\ EndingOK'
        BY <1>11 DEF StartRoot, GraphOK, ProcsOK, EndingOK, graph, procs,
            ending
    <2>2. RecordOK'
        BY <1>11 DEF StartRoot, Launch, RecordOK, StepStatus
    <2>3. KeysOK'
        BY <1>11, <1>0 DEF StartRoot, Launch, claimSessionKey, KeysOK, keys
    <2>4. LoopsOK'
        BY <1>11 DEF StartRoot, Launch, LoopsOK
    <2>5. QED
        BY <2>1, <2>2, <2>3, <2>4
<1>12. ASSUME NEW s \in Steps, ExecuteStep(s) PROVE TypeOK'
    <2>1. RecordOK' /\ GraphOK' /\ KeysOK' /\ LoopsOK' /\ EndingOK'
        BY <1>12 DEF ExecuteStep, RecordOK, GraphOK, KeysOK, LoopsOK,
            EndingOK, graph, keys, loops, ending
    <2>2. ProcsOK'
        BY <1>12 DEF ExecuteStep, ProcsOK
    <2>3. QED
        BY <2>1, <2>2
<1>13. ASSUME NEW s \in Steps, DelayCancelled(s) PROVE TypeOK'
    <2>1. RecordOK' /\ GraphOK' /\ KeysOK' /\ LoopsOK' /\ EndingOK'
        BY <1>13 DEF DelayCancelled, RecordOK, GraphOK, KeysOK, LoopsOK,
            EndingOK, graph, keys, loops, ending
    <2>2. ProcsOK'
        BY <1>13 DEF DelayCancelled, ProcsOK
    <2>3. QED
        BY <2>1, <2>2
<1>14. ASSUME NEW s \in Steps, CompletionIgnored(s) PROVE TypeOK'
    <2>1. RecordOK' /\ GraphOK' /\ KeysOK' /\ LoopsOK' /\ EndingOK'
        BY <1>14 DEF CompletionIgnored, RecordOK, GraphOK, KeysOK, LoopsOK,
            EndingOK, graph, keys, loops, ending
    <2>2. ProcsOK'
        BY <1>14 DEF CompletionIgnored, Callback, ProcsOK
    <2>3. QED
        BY <2>1, <2>2
<1>15. ASSUME NEW s \in Steps, StepSucceeded(s) PROVE TypeOK'
    <2>1. GraphOK' /\ EndingOK'
        BY <1>15 DEF StepSucceeded, GraphOK, EndingOK, graph, ending
    <2>2. RecordOK'
        BY <1>15 DEF StepSucceeded, Propagate, RecordOK, StepStatus
    <2>3. KeysOK'
        BY <1>15 DEF StepSucceeded, releaseSessionKey, KeysOK, keys
    <2>4. LoopsOK'
        BY <1>15 DEF StepSucceeded, Propagate, WorkItem, Dependents, LoopsOK
    <2>5. ProcsOK'
        BY <1>15 DEF StepSucceeded, Callback, ProcsOK
    <2>6. QED
        BY <2>1, <2>2, <2>3, <2>4, <2>5
<1>16. ASSUME NEW s \in Steps, StepRetried(s) PROVE TypeOK'
    <2>1. GraphOK' /\ LoopsOK' /\ EndingOK'
        BY <1>16 DEF StepRetried, GraphOK, LoopsOK, EndingOK, graph, loops,
            ending
    <2>2. RecordOK'
        BY <1>16 DEF StepRetried, RecordOK, StepStatus
    <2>3. KeysOK'
        BY <1>16 DEF StepRetried, releaseSessionKey, KeysOK, keys
    <2>4. ProcsOK'
        BY <1>16 DEF StepRetried, Callback, ProcsOK
    <2>5. QED
        BY <2>1, <2>2, <2>3, <2>4
<1>17. ASSUME NEW s \in Steps, StepFailedRun(s) PROVE TypeOK'
    <2>1. GraphOK' /\ LoopsOK'
        BY <1>17 DEF StepFailedRun, GraphOK, LoopsOK, graph, loops
    <2>2. RecordOK'
        BY <1>17 DEF StepFailedRun, RecordOK, StepStatus
    <2>3. KeysOK'
        BY <1>17 DEF StepFailedRun, releaseSessionKey, KeysOK, keys
    <2>4. ProcsOK'
        BY <1>17 DEF StepFailedRun, Callback, ProcsOK
    <2>5. EndingOK'
        BY <1>17 DEF StepFailedRun, EndingOK
    <2>6. QED
        BY <2>1, <2>2, <2>3, <2>4, <2>5
<1>18. ASSUME NEW s \in Steps, StepFailed(s) PROVE TypeOK'
    <2>1. GraphOK' /\ EndingOK'
        BY <1>18 DEF StepFailed, GraphOK, EndingOK, graph, ending
    <2>2. RecordOK'
        BY <1>18 DEF StepFailed, Propagate, RecordOK, StepStatus
    <2>3. KeysOK'
        BY <1>18 DEF StepFailed, releaseSessionKey, KeysOK, keys
    <2>4. LoopsOK'
        BY <1>18 DEF StepFailed, Propagate, WorkItem, Dependents, LoopsOK
    <2>5. ProcsOK'
        BY <1>18 DEF StepFailed, Callback, ProcsOK
    <2>6. QED
        BY <2>1, <2>2, <2>3, <2>4, <2>5
<1>19. ASSUME NEW s \in Steps, Dependent(s) PROVE TypeOK'
    <2>1. ProcsOK' /\ EndingOK'
        BY <1>19 DEF Dependent, ProcsOK, EndingOK, procs, ending
    <2>2. RecordOK'
        BY <1>19 DEF Dependent, SkipReady, Launch, RecordOK, StepStatus
    <2>3. GraphOK'
        BY <1>19 DEF Dependent, GraphOK
    <2>4. KeysOK'
        BY <1>19, <1>0 DEF Dependent, SkipReady, Launch, claimSessionKey,
            KeysOK, keys
    <2>5. LoopsOK'
        <3>1. queue' \in Seq(WorkItem)
            <4>1. [step |-> s, failed |-> TRUE] \in WorkItem
                BY DEF WorkItem
            <4>2. queue' = queue \/ queue' = Append(queue, [step |-> s, failed |-> TRUE])
                BY <1>19 DEF Dependent, SkipReady
            <4>3. QED
                BY <4>1, <4>2, SeqFacts DEF LoopsOK
        <3>2. todo' \subseteq Steps /\ toLaunch' \subseteq Steps
            BY <1>19 DEF Dependent, SkipReady, Launch, LoopsOK
        <3>3. UNCHANGED <<pc, item, scan>>
            BY <1>19 DEF Dependent
        <3>4. QED
            BY <3>1, <3>2, <3>3 DEF LoopsOK
    <2>6. QED
        BY <2>1, <2>2, <2>3, <2>4, <2>5
<1>20. ASSUME NEW s \in Steps, RetryFires(s) PROVE TypeOK'
    <2>1. GraphOK' /\ LoopsOK' /\ EndingOK'
        BY <1>20 DEF RetryFires, GraphOK, LoopsOK, EndingOK, graph, loops,
            ending
    <2>2. RecordOK'
        BY <1>20 DEF RetryFires, RecordOK, StepStatus
    <2>3. KeysOK'
        <3>1. activeKeys' \subseteq Keys
            BY <1>20, <1>0 DEF RetryFires, claimSessionKey, KeysOK, keys
        <3>2. deferred' \in Seq(Steps)
            BY <1>20 DEF RetryFires, KeysOK, keys
        <3>3. QED
            BY <3>1, <3>2 DEF KeysOK
    <2>4. ProcsOK'
        <3>1. retrying' \in [Steps -> Nat]
            BY <1>20 DEF RetryFires, ProcsOK
        <3>2. executing' \in [Steps -> Nat]
            <4>1. \/ executing' = executing
                  \/ executing' = [executing EXCEPT ![s] = @ + 1]
                BY <1>20 DEF RetryFires
            <4>2. QED
                BY <4>1 DEF ProcsOK
        <3>3. waiting' = waiting
            BY <1>20 DEF RetryFires
        <3>4. QED
            BY <3>1, <3>2, <3>3 DEF ProcsOK
    <2>5. QED
        BY <2>1, <2>2, <2>3, <2>4
<1>21. QED
    BY <1>1, <1>2, <1>3, <1>4, <1>5, <1>6, <1>7, <1>8, <1>9, <1>10, <1>11,
       <1>12, <1>13, <1>14, <1>15, <1>16, <1>17, <1>18, <1>19, <1>20
    DEF Next, RunAction, StepAction

-----------------------------------------------------------------------------
LEMMA KeyShrink ==
    ASSUME NEW key, NEW B, NEW A, NEW C \in SUBSET B, KeySafe(key, B, A)
    PROVE  KeySafe(key, C, A)
BY DEF KeySafe

LEMMA KeyClaim ==
    ASSUME NEW key, NEW B, NEW A, NEW s, KeySafe(key, B, A),
           key[s] = NoKey \/ key[s] \notin A
    PROVE  KeySafe(key, B \cup {s}, A \cup ({key[s]} \ {NoKey}))
BY DEF KeySafe

LEMMA KeyRelease ==
    ASSUME NEW key, NEW B, NEW A, NEW s \in B, KeySafe(key, B, A)
    PROVE  KeySafe(key, B \ {s}, A \ {key[s]})
BY DEF KeySafe

LEMMA KInvInit == Init => KInv
<1> SUFFICES ASSUME Init PROVE KInv
    OBVIOUS
<1>1. TypeOK
    BY TypeInit
<1>2. \A s \in Steps : Outstanding[s] = 0 /\ retrying[s] = 0
    BY DEF Init, Outstanding
<1>3. QED
    BY <1>1, <1>2 DEF KInv, ExecInv, ExecAt, KeySafe, Busy

(* Outstanding is a natural number. *)
LEMMA OutstandingNat ==
    ASSUME TypeOK
    PROVE  \A s \in Steps : /\ Outstanding[s] \in Nat
                            /\ Outstanding[s] > 0 <=>
                                 waiting[s] > 0 \/ executing[s] > 0 \/ s \in toLaunch
BY DEF TypeOK, ProcsOK, Outstanding

LEMMA KInvNext == KInv /\ [Next]_vars => KInv'
<1>a. SUFFICES ASSUME KInv, [Next]_vars
               PROVE  ExecInv' /\ KeySafe(job.key, Busy, activeKeys)'
    BY TypeNext DEF KInv
<1>b. /\ status \in [Steps -> StepStatus]
      /\ waiting \in [Steps -> Nat]
      /\ executing \in [Steps -> Nat]
      /\ retrying \in [Steps -> Nat]
    BY <1>a DEF KInv, TypeOK, RecordOK, ProcsOK
<1>c. /\ waiting' \in [Steps -> Nat]
      /\ executing' \in [Steps -> Nat]
    BY <1>a, TypeNext DEF KInv, TypeOK, ProcsOK
<1>d. /\ \A t \in Steps : ExecAt(t)
      /\ KeySafe(job.key, Busy, activeKeys)
    BY <1>a DEF KInv, ExecInv
<1>e. \A t \in Steps : Outstanding[t] \in Nat /\ retrying[t] \in Nat
    BY <1>b DEF Outstanding
<1>f. \A t \in Steps : Outstanding'[t] \in Nat
    BY <1>c DEF Outstanding
<1>1. CASE UNCHANGED vars
    BY <1>1, <1>d DEF ExecInv, ExecAt, Outstanding, KeySafe, Busy, vars, keys, loops, procs
<1>2. CASE Start
    <2>1. ASSUME NEW t \in Steps PROVE Outstanding'[t] = Outstanding[t]
        BY <1>2, <1>b DEF Outstanding, Start, keys, procs
    <2>2. UNCHANGED <<job, status, activeKeys, retrying>>
        BY <1>2 DEF Start, keys, procs
    <2>3. QED
        BY <1>d, <1>e, <2>1, <2>2 DEF ExecInv, ExecAt, Busy
<1>3. CASE StartUnlock
    <2>1. ASSUME NEW t \in Steps PROVE Outstanding'[t] = Outstanding[t]
        BY <1>3, <1>b DEF Outstanding, StartUnlock, UnlockAndLaunch, keys
    <2>2. UNCHANGED <<job, status, activeKeys, retrying>>
        BY <1>3 DEF StartUnlock, UnlockAndLaunch, keys
    <2>3. QED
        BY <1>d, <1>e, <2>1, <2>2 DEF ExecInv, ExecAt, Busy
<1>4. CASE NextItem
    <2>1. ASSUME NEW t \in Steps PROVE Outstanding'[t] = Outstanding[t]
        BY <1>4, <1>b DEF Outstanding, NextItem, keys, procs
    <2>2. UNCHANGED <<job, status, activeKeys, retrying>>
        BY <1>4 DEF NextItem, keys, procs
    <2>3. QED
        BY <1>d, <1>e, <2>1, <2>2 DEF ExecInv, ExecAt, Busy
<1>5. CASE BeginDeferred
    <2>1. ASSUME NEW t \in Steps PROVE Outstanding'[t] = Outstanding[t]
        BY <1>5, <1>b DEF Outstanding, BeginDeferred, keys, procs
    <2>2. UNCHANGED <<job, status, activeKeys, retrying>>
        BY <1>5 DEF BeginDeferred, keys, procs
    <2>3. QED
        BY <1>d, <1>e, <2>1, <2>2 DEF ExecInv, ExecAt, Busy
<1>6. CASE ContinueRun
    <2>1. ASSUME NEW t \in Steps PROVE Outstanding'[t] = Outstanding[t]
        BY <1>6, <1>b DEF Outstanding, ContinueRun, UnlockAndLaunch, keys
    <2>2. UNCHANGED <<job, status, activeKeys, retrying>>
        BY <1>6 DEF ContinueRun, UnlockAndLaunch, keys
    <2>3. QED
        BY <1>d, <1>e, <2>1, <2>2 DEF ExecInv, ExecAt, Busy
<1>7. CASE Cancel
    <2>1. ASSUME NEW t \in Steps PROVE Outstanding'[t] = Outstanding[t]
        BY <1>7, <1>b DEF Outstanding, Cancel, keys, loops, procs
    <2>2. UNCHANGED <<job, status, activeKeys, retrying>>
        BY <1>7 DEF Cancel, keys, procs
    <2>3. QED
        BY <1>d, <1>e, <2>1, <2>2 DEF ExecInv, ExecAt, Busy
<1>8. CASE CancelContext
    <2>1. ASSUME NEW t \in Steps PROVE Outstanding'[t] = Outstanding[t]
        BY <1>8, <1>b DEF Outstanding, CancelContext, keys, loops, procs
    <2>2. UNCHANGED <<job, status, activeKeys, retrying>>
        BY <1>8 DEF CancelContext, keys, procs
    <2>3. QED
        BY <1>d, <1>e, <2>1, <2>2 DEF ExecInv, ExecAt, Busy
<1>9. CASE FinishRun
    <2>1. ASSUME NEW t \in Steps PROVE Outstanding'[t] <= Outstanding[t]
        BY <1>9, <1>b DEF Outstanding, FinishRun, keys, procs
    <2>2. UNCHANGED <<job, status, activeKeys, retrying>>
        BY <1>9 DEF FinishRun, keys, procs
    <2>4. Busy' \subseteq Busy
        BY <1>d, <1>e, <2>1, <1>f DEF Busy
    <2>5. ExecInv'
        BY <1>d, <1>e, <2>1, <2>2, <1>f DEF ExecInv, ExecAt
    <2>6. QED
        BY <2>2, <2>4, <2>5, KeyShrink, <1>d
<1>10. CASE DeferredStep
    <2> DEFINE s == Head(scan)
    <2>1. s \in Steps
        BY <1>10, <1>a, SeqFacts DEF DeferredStep, KInv, TypeOK, LoopsOK
    <2>2. CASE status[s] = "pending" /\ Launch(s)
        <3>1. ASSUME NEW t \in Steps, t # s
              PROVE  Outstanding'[t] = Outstanding[t] /\ status'[t] = status[t]
            BY <1>10, <1>b, <2>1, <2>2, <3>1 DEF DeferredStep, Launch, Outstanding, procs
        <3>2. Outstanding[s] = 0 /\ retrying[s] = 0
            BY <1>d, <1>e, <2>1, <2>2 DEF ExecAt
        <3>3. Outstanding'[s] = 1
            BY <1>10, <1>b, <2>1, <2>2, <3>2 DEF DeferredStep, Launch, Outstanding, procs
        <3>4. status'[s] = "running" /\ job' = job /\ retrying' = retrying
            BY <1>10, <1>b, <2>1, <2>2 DEF DeferredStep, Launch, procs
        <3>5. ExecInv'
            BY <1>d, <1>e, <3>1, <3>2, <3>3, <3>4 DEF ExecInv, ExecAt
        <3>6. Busy' = Busy \cup {s}
            BY <2>1, <3>1, <3>3 DEF Busy
        <3>7. QED
            BY <2>2, <3>4, <3>5, <3>6, KeyClaim, <1>d
            DEF Launch, canLaunch, claimSessionKey
    <2>3. CASE ~(status[s] = "pending" /\ Launch(s))
        <3>1. ASSUME NEW t \in Steps
              PROVE  /\ Outstanding'[t] = Outstanding[t]
                     /\ status'[t] = status[t] \/ status[t] = "pending"
            BY <1>10, <1>b, <2>1, <2>3 DEF DeferredStep, Outstanding, procs
        <3>2. UNCHANGED <<job, activeKeys, retrying>>
            BY <1>10, <2>3 DEF DeferredStep, procs
        <3>3. QED
            BY <1>d, <1>e, <3>1, <3>2 DEF ExecInv, ExecAt, Busy
    <2>4. QED
        BY <2>2, <2>3
<1>11. ASSUME NEW s \in Steps, ExecuteStep(s)
      PROVE  ExecInv' /\ KeySafe(job.key, Busy, activeKeys)'
    <2>1. ASSUME NEW t \in Steps PROVE Outstanding'[t] = Outstanding[t]
        BY <1>11, <1>b DEF Outstanding, ExecuteStep, keys, loops
    <2>2. UNCHANGED <<job, status, activeKeys, retrying>>
        BY <1>11 DEF ExecuteStep, keys
    <2>3. QED
        BY <1>d, <1>e, <2>1, <2>2 DEF ExecInv, ExecAt, Busy
<1>12. ASSUME NEW s \in Steps, DelayCancelled(s)
      PROVE  ExecInv' /\ KeySafe(job.key, Busy, activeKeys)'
    <2>1. ASSUME NEW t \in Steps PROVE Outstanding'[t] <= Outstanding[t]
        BY <1>12, <1>b DEF Outstanding, DelayCancelled, keys, loops
    <2>2. UNCHANGED <<job, status, activeKeys, retrying>>
        BY <1>12 DEF DelayCancelled, keys
    <2>4. Busy' \subseteq Busy
        BY <1>d, <1>e, <2>1, <1>f DEF Busy
    <2>5. ExecInv'
        BY <1>d, <1>e, <2>1, <2>2, <1>f DEF ExecInv, ExecAt
    <2>6. QED
        BY <2>2, <2>4, <2>5, KeyShrink, <1>d
<1>13. ASSUME NEW s \in Steps, CompletionIgnored(s)
      PROVE  ExecInv' /\ KeySafe(job.key, Busy, activeKeys)'
    <2>1. ASSUME NEW t \in Steps PROVE Outstanding'[t] <= Outstanding[t]
        BY <1>13, <1>b DEF Outstanding, CompletionIgnored, Callback, keys,
            loops
    <2>2. UNCHANGED <<job, status, activeKeys, retrying>>
        BY <1>13 DEF CompletionIgnored, Callback, keys
    <2>4. Busy' \subseteq Busy
        BY <1>d, <1>e, <2>1, <1>f DEF Busy
    <2>5. ExecInv'
        BY <1>d, <1>e, <2>1, <2>2, <1>f DEF ExecInv, ExecAt
    <2>6. QED
        BY <2>2, <2>4, <2>5, KeyShrink, <1>d
<1>14. ASSUME NEW s \in Steps, StepSucceeded(s)
      PROVE  ExecInv' /\ KeySafe(job.key, Busy, activeKeys)'
    <2>1. ASSUME NEW t \in Steps, t # s
          PROVE  Outstanding'[t] = Outstanding[t] /\ retrying'[t] = retrying[t]
        BY <1>14, <1>b, <2>1 DEF Outstanding, StepSucceeded, Callback,
            Propagate
    <2>2. Outstanding[s] = 1 /\ retrying[s] = 0 /\ Outstanding'[s] = 0
        BY <1>14, <1>b, <1>d DEF ExecAt, Outstanding, StepSucceeded, Callback,
            Propagate
    <2>3. retrying'[s] = 0 /\ status'[s] = "completed"
        BY <1>14, <1>b, <2>2 DEF StepSucceeded
    <2>4. ASSUME NEW t \in Steps, t # s PROVE status'[t] = status[t]
        BY <1>14, <1>b, <2>4 DEF StepSucceeded
    <2>5. ExecInv'
        BY <1>d, <1>e, <2>1, <2>2, <2>3, <2>4 DEF ExecInv, ExecAt
    <2>6. s \in Busy /\ Busy' = Busy \ {s}
        BY <2>1, <2>2 DEF Busy
    <2>7. job' = job /\ activeKeys' = activeKeys \ {job.key[s]}
        BY <1>14 DEF StepSucceeded, releaseSessionKey
    <2>8. QED
        BY <2>5, <2>6, <2>7, KeyRelease, <1>d
<1>15. ASSUME NEW s \in Steps, StepRetried(s)
      PROVE  ExecInv' /\ KeySafe(job.key, Busy, activeKeys)'
    <2>1. ASSUME NEW t \in Steps, t # s
          PROVE  Outstanding'[t] = Outstanding[t] /\ retrying'[t] = retrying[t]
        BY <1>15, <1>b, <2>1 DEF Outstanding, StepRetried, Callback, loops
    <2>2. Outstanding[s] = 1 /\ retrying[s] = 0 /\ Outstanding'[s] = 0
        BY <1>15, <1>b, <1>d DEF ExecAt, Outstanding, StepRetried, Callback,
            loops
    <2>3. retrying'[s] = 1 /\ status'[s] = "failed"
        BY <1>15, <1>b, <2>2 DEF StepRetried
    <2>4. ASSUME NEW t \in Steps, t # s PROVE status'[t] = status[t]
        BY <1>15, <1>b, <2>4 DEF StepRetried
    <2>5. ExecInv'
        BY <1>d, <1>e, <2>1, <2>2, <2>3, <2>4 DEF ExecInv, ExecAt
    <2>6. s \in Busy /\ Busy' = Busy \ {s}
        BY <2>1, <2>2 DEF Busy
    <2>7. job' = job /\ activeKeys' = activeKeys \ {job.key[s]}
        BY <1>15 DEF StepRetried, releaseSessionKey
    <2>8. QED
        BY <2>5, <2>6, <2>7, KeyRelease, <1>d
<1>16. ASSUME NEW s \in Steps, StepFailedRun(s)
      PROVE  ExecInv' /\ KeySafe(job.key, Busy, activeKeys)'
    <2>1. ASSUME NEW t \in Steps, t # s
          PROVE  Outstanding'[t] = Outstanding[t] /\ retrying'[t] = retrying[t]
        BY <1>16, <1>b, <2>1 DEF Outstanding, StepFailedRun, Callback, loops
    <2>2. Outstanding[s] = 1 /\ retrying[s] = 0 /\ Outstanding'[s] = 0
        BY <1>16, <1>b, <1>d DEF ExecAt, Outstanding, StepFailedRun, Callback,
            loops
    <2>3. retrying'[s] = 0 /\ status'[s] = "failed"
        BY <1>16, <1>b, <2>2 DEF StepFailedRun
    <2>4. ASSUME NEW t \in Steps, t # s
          PROVE  \/ status'[t] = status[t]
                 \/ status[t] = "pending"
                 \/ status[t] = "running" /\ status'[t] = "cancelled"
        BY <1>16, <1>b, <2>4 DEF StepFailedRun
    <2>5. ExecInv'
        BY <1>d, <1>e, <2>1, <2>2, <2>3, <2>4 DEF ExecInv, ExecAt
    <2>6. s \in Busy /\ Busy' = Busy \ {s}
        BY <2>1, <2>2 DEF Busy
    <2>7. job' = job /\ activeKeys' = activeKeys \ {job.key[s]}
        BY <1>16 DEF StepFailedRun, releaseSessionKey
    <2>8. QED
        BY <2>5, <2>6, <2>7, KeyRelease, <1>d
<1>17. ASSUME NEW s \in Steps, StepFailed(s)
      PROVE  ExecInv' /\ KeySafe(job.key, Busy, activeKeys)'
    <2>1. ASSUME NEW t \in Steps, t # s
          PROVE  Outstanding'[t] = Outstanding[t] /\ retrying'[t] = retrying[t]
        BY <1>17, <1>b, <2>1 DEF Outstanding, StepFailed, Callback, Propagate
    <2>2. Outstanding[s] = 1 /\ retrying[s] = 0 /\ Outstanding'[s] = 0
        BY <1>17, <1>b, <1>d DEF ExecAt, Outstanding, StepFailed, Callback,
            Propagate
    <2>3. retrying'[s] = 0 /\ status'[s] = "failed"
        BY <1>17, <1>b, <2>2 DEF StepFailed
    <2>4. ASSUME NEW t \in Steps, t # s PROVE status'[t] = status[t]
        BY <1>17, <1>b, <2>4 DEF StepFailed
    <2>5. ExecInv'
        BY <1>d, <1>e, <2>1, <2>2, <2>3, <2>4 DEF ExecInv, ExecAt
    <2>6. s \in Busy /\ Busy' = Busy \ {s}
        BY <2>1, <2>2 DEF Busy
    <2>7. job' = job /\ activeKeys' = activeKeys \ {job.key[s]}
        BY <1>17 DEF StepFailed, releaseSessionKey
    <2>8. QED
        BY <2>5, <2>6, <2>7, KeyRelease, <1>d
<1>18. ASSUME NEW s \in Steps, StartRoot(s)
      PROVE  ExecInv' /\ KeySafe(job.key, Busy, activeKeys)'
    <2>1. CASE status[s] = "pending" /\ Launch(s)
        <3>1. ASSUME NEW t \in Steps, t # s
              PROVE  Outstanding'[t] = Outstanding[t] /\ status'[t] = status[t]
            BY <1>18, <1>b, <2>1, <3>1 DEF StartRoot, Launch, Outstanding, procs
        <3>2. Outstanding[s] = 0 /\ retrying[s] = 0
            BY <1>d, <1>e, <2>1 DEF ExecAt
        <3>3. Outstanding'[s] = 1
            BY <1>18, <1>b, <2>1, <3>2 DEF StartRoot, Launch, Outstanding, procs
        <3>4. status'[s] = "running" /\ job' = job /\ retrying' = retrying
            BY <1>18, <1>b, <2>1 DEF StartRoot, Launch, procs
        <3>5. ExecInv'
            BY <1>d, <1>e, <3>1, <3>2, <3>3, <3>4 DEF ExecInv, ExecAt
        <3>6. Busy' = Busy \cup {s}
            BY <3>1, <3>3 DEF Busy
        <3>7. QED
            BY <2>1, <3>4, <3>5, <3>6, KeyClaim, <1>d
            DEF Launch, canLaunch, claimSessionKey
    <2>2. CASE ~(status[s] = "pending" /\ Launch(s))
        <3>1. ASSUME NEW t \in Steps
              PROVE  /\ Outstanding'[t] = Outstanding[t]
                     /\ status'[t] = status[t] \/ status[t] = "pending"
            BY <1>18, <1>b, <2>2 DEF StartRoot, keys, Outstanding, procs
        <3>2. UNCHANGED <<job, activeKeys, retrying>>
            BY <1>18, <1>b, <2>2 DEF StartRoot, keys, procs
        <3>3. QED
            BY <1>d, <1>e, <3>1, <3>2 DEF ExecInv, ExecAt, Busy
    <2>3. QED
        BY <2>1, <2>2
<1>19. ASSUME NEW s \in Steps, Dependent(s)
      PROVE  ExecInv' /\ KeySafe(job.key, Busy, activeKeys)'
    <2>1. CASE status[s] = "pending" /\ Launch(s)
        <3>1. ASSUME NEW t \in Steps, t # s
              PROVE  Outstanding'[t] = Outstanding[t] /\ status'[t] = status[t]
            BY <1>19, <1>b, <2>1, <3>1 DEF Dependent, Launch, Outstanding, procs
        <3>2. Outstanding[s] = 0 /\ retrying[s] = 0
            BY <1>d, <1>e, <2>1 DEF ExecAt
        <3>3. Outstanding'[s] = 1
            BY <1>19, <1>b, <2>1, <3>2 DEF Dependent, Launch, Outstanding, procs
        <3>4. status'[s] = "running" /\ job' = job /\ retrying' = retrying
            BY <1>19, <1>b, <2>1 DEF Dependent, Launch, procs
        <3>5. ExecInv'
            BY <1>d, <1>e, <3>1, <3>2, <3>3, <3>4 DEF ExecInv, ExecAt
        <3>6. Busy' = Busy \cup {s}
            BY <3>1, <3>3 DEF Busy
        <3>7. QED
            BY <2>1, <3>4, <3>5, <3>6, KeyClaim, <1>d
            DEF Launch, canLaunch, claimSessionKey
    <2>2. CASE ~(status[s] = "pending" /\ Launch(s))
        <3>1. ASSUME NEW t \in Steps
              PROVE  /\ Outstanding'[t] = Outstanding[t]
                     /\ status'[t] = status[t] \/ status[t] = "pending"
            BY <1>19, <1>b, <2>2 DEF Dependent, SkipReady, isReady, keys, Outstanding, procs
        <3>2. UNCHANGED <<job, activeKeys, retrying>>
            BY <1>19, <1>b, <2>2 DEF Dependent, SkipReady, isReady, keys, procs
        <3>3. QED
            BY <1>d, <1>e, <3>1, <3>2 DEF ExecInv, ExecAt, Busy
    <2>3. QED
        BY <2>1, <2>2
<1>20. ASSUME NEW s \in Steps, RetryFires(s)
      PROVE  ExecInv' /\ KeySafe(job.key, Busy, activeKeys)'
    <2>1. Outstanding[s] = 0 /\ retrying[s] = 1 /\ retrying'[s] = 0
        BY <1>20, <1>b, <1>d, <1>e DEF RetryFires, ExecAt
    <2>2. ASSUME NEW t \in Steps, t # s
          PROVE  /\ Outstanding'[t] = Outstanding[t]
                 /\ retrying'[t] = retrying[t]
                 /\ status'[t] = status[t]
        BY <1>20, <1>b, <2>2 DEF RetryFires, Outstanding, loops
    <2>3. job' = job
        BY <1>20 DEF RetryFires
    <2>4. CASE canLaunch(s) /\ claimSessionKey(s) /\ status'[s] = "running"
               /\ executing' = [executing EXCEPT ![s] = @ + 1]
        <3>1. Outstanding'[s] = 1
            BY <1>20, <1>b, <2>1, <2>4 DEF RetryFires, Outstanding, loops
        <3>2. ExecInv'
            BY <1>d, <1>e, <2>1, <2>2, <2>4, <3>1 DEF ExecInv, ExecAt
        <3>3. Busy' = Busy \cup {s}
            BY <2>2, <3>1 DEF Busy
        <3>4. QED
            BY <2>3, <2>4, <3>2, <3>3, KeyClaim, <1>d DEF canLaunch, claimSessionKey
    <2>5. CASE UNCHANGED <<activeKeys, executing>>
        <3>1. Outstanding'[s] = 0
            BY <1>20, <1>b, <2>1, <2>5 DEF RetryFires, Outstanding, loops
        <3>2. ExecInv'
            BY <1>d, <1>e, <2>1, <2>2, <3>1 DEF ExecInv, ExecAt
        <3>3. Busy' = Busy
            BY <2>1, <2>2, <3>1 DEF Busy
        <3>4. QED
            BY <2>3, <2>5, <3>2, <3>3, <1>d
    <2>6. QED
        BY <1>20, <1>b, <2>4, <2>5 DEF RetryFires, keys
<1>21. QED
    BY <1>a, <1>1, <1>2, <1>3, <1>4, <1>5, <1>6, <1>7, <1>8, <1>9, <1>10,
        <1>11, <1>12, <1>13, <1>14, <1>15, <1>16, <1>17, <1>18, <1>19, <1>20
    DEF Next, RunAction, StepAction

LEMMA KInvariant == Spec => []KInv
BY KInvInit, KInvNext, PTL DEF Spec

(* The runner's variables keep their types: no handler claims the empty    *)
(* session key, and no counter of launches, executions or retries goes     *)
(* below zero (dag_runner.go, all handlers).                               *)
THEOREM TypeCorrect == Spec => []TypeOK
<1>1. KInv => TypeOK
    BY DEF KInv
<1>2. QED
    BY <1>1, KInvariant, PTL

(* Session key serialization: whatever the graph, the retries and the      *)
(* cancellations, two steps that share a session key never have an         *)
(* execution outstanding at the same time (canLaunch, claimSessionKey,     *)
(* releaseSessionKey).                                                     *)
THEOREM SessionKeysAreExclusive == Spec => []SessionKeyExclusive
<1>1. KInv => SessionKeyExclusive
    <2>1. SUFFICES ASSUME KInv PROVE SessionKeyExclusive
        OBVIOUS
    <2>2. \A s \in Steps : Outstanding[s] \in Nat
        BY <2>1 DEF KInv, TypeOK, ProcsOK, Outstanding
    <2>3. QED
        BY <2>1, <2>2 DEF KInv, KeySafe, Busy, SessionKeyExclusive
<1>2. QED
    BY <1>1, KInvariant, PTL

(* A step has at most one execution or one pending retry at any time: the  *)
(* root, dependent, deferred and retry paths never launch it twice         *)
(* (Start, processReadyDependents, processDeferredSteps, the retry         *)
(* goroutine of OnStepCompleted).                                          *)
THEOREM ExecutionsAreSingle == Spec => []SingleExecution
<1>1. KInv => SingleExecution
    BY DEF KInv, ExecInv, ExecAt, SingleExecution
<1>2. QED
    BY <1>1, KInvariant, PTL

-----------------------------------------------------------------------------
(* What the runner's counters, flags and lists stand for, while loops over *)
(* dependents and deferred steps are half way.                             *)

(* An edge from u to its dependent s that the loops have not counted yet:  *)
(* u is not decided for good, or it is a work item that still has s ahead. *)
FinalSteps   == {s \in Steps : Final(s)}
Queued(u)    == \E i \in 1 .. Len(queue) : queue[i].step = u
AtHand(s, u) == pc = "deps" /\ item.step = u /\ s \in todo
Open(s, u)   == u \notin FinalSteps \/ Queued(u) \/ AtHand(s, u)
OpenEdges(s) == {u \in Upstream(job, s) : Open(s, u)}

(* A handler of the run may still decide something.                        *)
Going == ~(ctx = "cancelled" /\ pc = "idle")

Deferred(s) == \E i \in 1 .. Len(deferred) : deferred[i] = s
Scanned(s)  == \E i \in 1 .. Len(scan) : scan[i] = s

(* Steps that were taken over are left alone; a step is cancelled only     *)
(* when the run is given up.                                               *)
LeftAlone ==
    \A s \in Steps :
       /\ Inherited(job, s) => Outstanding[s] = 0 /\ retrying[s] = 0 /\ status[s] # "pending"
       /\ status[s] = "cancelled" /\ ~Inherited(job, s) => ~Going

(* A running step holds its key, also when its completion was dropped.     *)
Running == {s \in Steps : status[s] = "running" /\ ~Inherited(job, s)}
RunningKeys == KeySafe(job.key, Running, activeKeys)

(* The work items of processReadyDependents are decided steps, each there  *)
(* once, with what became of them.                                         *)
ItemRight(w) == w.step \in FinalSteps /\ (w.failed <=> status[w.step] # "completed")
LoopsRight ==
    /\ pc # "deps" => queue = <<>>
    /\ pc # "deferred" => scan = <<>>
    /\ pc = "start" => \A s \in todo : inDegree[s] = 0
    /\ pc = "deps" => ItemRight(item) /\ todo \subseteq Dependents(job, item.step) /\ ~Queued(item.step)
    /\ \A i \in 1 .. Len(queue) : ItemRight(queue[i])
    /\ \A i, j \in 1 .. Len(queue) : queue[i].step = queue[j].step => i = j

(* The counters and flags mean what they stand for.                        *)
DegreesRight == Going => \A s \in Steps : inDegree[s] = Cardinality(OpenEdges(s))
FlagsTrue    == \A s \in Steps : hasFailedUpstream[s] =>
                   \E u \in Upstream(job, s) : u \in FinalSteps /\ status[u] # "completed"
FlagsWhole   == Going => \A s \in Steps : \A u \in Upstream(job, s) \ OpenEdges(s) :
                   status[u] # "completed" => hasFailedUpstream[s]
NoFlagYet    == ctx = "nil" \/ pc = "start" => \A s \in Steps : ~hasFailedUpstream[s]
CountRight   == Going => completed = Cardinality(FinalSteps)
FailedWhole  == Going => \A s \in FinalSteps : status[s] # "completed" => failed
FailedTrue   == failed => \E s \in FinalSteps : status[s] = "failed" /\ ~CanRetry(s)

(* A step that is executed, retried or put off has its upstream decided.   *)
Clear(s) == \A u \in Upstream(job, s) : u \in FinalSteps /\ (job.runIf[s] = "all_done" \/ status[u] = "completed")
Wants(s) == \/ Outstanding[s] > 0 \/ retrying[s] > 0
            \/ status[s] = "pending" /\ (Deferred(s) \/ Scanned(s))
WantsAreClear == \A s \in Steps : Wants(s) => Clear(s)

(* Nothing happens before Start and after the outcome.                     *)
BeforeStart == ctx = "nil" => /\ pc = "idle" /\ outcome = <<>>
                              /\ \A s \in Steps : Outstanding[s] = 0 /\ retrying[s] = 0
AfterOutcome == /\ Len(outcome) <= 1
                /\ outcome # <<>> => pc = "idle" /\ (ctx = "cancelled" \/ FinalSteps = Steps)
                /\ outcome # <<>> => outcome[1] = IF failed THEN "failed" ELSE "completed"
                /\ outcome # <<>> /\ ~failed => \A s \in Steps : status[s] = "completed"

(* Who waits for a session key waits for a step that will give it back.    *)
Held(key) == \E t \in Steps : job.key[t] = key /\ Outstanding[t] > 0
KeysHeld == ctx # "cancelled" => \A key \in activeKeys : Held(key)
Awaited(s) == \E t \in Steps \ {s} : job.key[t] = job.key[s] /\ Outstanding[t] + retrying[t] > 0
DeferredAwait == ctx # "cancelled" /\ pc # "deps" =>
                    \A s \in Steps : Deferred(s) /\ status[s] = "pending" => Awaited(s)
PendingListed == Going /\ ctx # "nil" =>
                    \A s \in Steps : status[s] = "pending" /\ inDegree[s] = 0 =>
                        Deferred(s) \/ Scanned(s) \/ (pc = "start" /\ s \in todo)

RunInv == /\ KInv /\ LeftAlone /\ RunningKeys /\ LoopsRight
          /\ DegreesRight /\ FlagsTrue /\ FlagsWhole /\ NoFlagYet /\ CountRight /\ FailedWhole /\ FailedTrue
          /\ WantsAreClear /\ BeforeStart /\ AfterOutcome /\ KeysHeld /\ DeferredAwait /\ PendingListed

-----------------------------------------------------------------------------
LEMMA RunTypes ==
    ASSUME RunInv
    PROVE  /\ TypeOK /\ ExecInv /\ job \in Jobs
           /\ status \in [Steps -> StepStatus] /\ attempt \in [Steps -> Nat] /\ retrying \in [Steps -> Nat]
           /\ waiting \in [Steps -> Nat] /\ executing \in [Steps -> Nat] /\ toLaunch \subseteq Steps
           /\ inDegree \in [Steps -> Int] /\ hasFailedUpstream \in [Steps -> BOOLEAN] /\ completed \in Nat
           /\ todo \subseteq Steps /\ queue \in Seq(WorkItem) /\ scan \in Seq(Steps) /\ deferred \in Seq(Steps)
           /\ activeKeys \subseteq Keys /\ outcome \in Seq({"completed", "failed"}) /\ failed \in BOOLEAN
           /\ pc \in {"idle", "start", "deps", "deferred"} /\ ctx \in {"nil", "live", "cancelled"}
           /\ pc = "deps" => item \in WorkItem
           /\ cancelling \in BOOLEAN
  BY DEF RunInv, KInv, TypeOK, RecordOK, GraphOK, KeysOK, LoopsOK, ProcsOK, EndingOK

(* The executions of a step, in two states.                                *)
LEMMA OutstandingIs ==
    \A s \in Steps :
       /\ Outstanding[s] = waiting[s] + executing[s] + (IF s \in toLaunch THEN 1 ELSE 0)
       /\ Outstanding'[s] = waiting'[s] + executing'[s] + (IF s \in toLaunch' THEN 1 ELSE 0)
  BY DEF Outstanding

LEMMA ProcTypes ==
    ASSUME RunInv
    PROVE  waiting \in [Steps -> Nat] /\ executing \in [Steps -> Nat] /\ retrying \in [Steps -> Nat]
  BY RunTypes

LEMMA RunJob ==
    ASSUME RunInv
    PROVE  /\ job.key \in [Steps -> Keys \cup {NoKey}] /\ NoKey \notin Keys
           /\ job.maxRetries \in [Steps -> Nat]
  BY JobFacts, RunTypes

(* The executions and retries of a step.                                   *)
LEMMA Executions ==
    ASSUME RunInv, NEW s \in Steps
    PROVE  /\ Outstanding[s] \in Nat /\ retrying[s] \in Nat
           /\ Outstanding[s] + retrying[s] <= 1
           /\ Outstanding[s] > 0 <=> (waiting[s] > 0 \/ executing[s] > 0 \/ s \in toLaunch)
           /\ Outstanding[s] = waiting[s] + executing[s] + (IF s \in toLaunch THEN 1 ELSE 0)
           /\ Outstanding[s] > 0 => status[s] \in {"running", "cancelled"} /\ ~Inherited(job, s)
           /\ retrying[s] > 0 => status[s] = "failed" /\ ~Inherited(job, s)
           /\ Outstanding[s] > 0 /\ ctx # "cancelled" => status[s] = "running"
           /\ s \in FinalSteps => Outstanding[s] = 0 /\ retrying[s] = 0 /\ ~Inherited(job, s)
           /\ s \in FinalSteps <=> (~Inherited(job, s) /\ status[s] \in {"completed", "failed", "skipped"} /\ retrying[s] = 0)
           /\ s \in FinalSteps => status[s] \in {"completed", "failed", "skipped"}
  <1>1. TypeOK /\ ExecAt(s) /\ retrying[s] \in Nat
    BY RunTypes DEF ExecInv
  <1>2. /\ Outstanding[s] \in Nat
        /\ Outstanding[s] > 0 <=> (waiting[s] > 0 \/ executing[s] > 0 \/ s \in toLaunch)
    BY <1>1, OutstandingNat
  <1>3. Outstanding[s] = waiting[s] + executing[s] + (IF s \in toLaunch THEN 1 ELSE 0)
    BY DEF Outstanding
  <1>4. /\ Inherited(job, s) => Outstanding[s] = 0 /\ retrying[s] = 0
        /\ status[s] = "cancelled" /\ ~Inherited(job, s) => ctx = "cancelled"
    BY DEF RunInv, LeftAlone, Going
  <1> HIDE DEF Outstanding
  <1>5. s \in FinalSteps <=> (~Inherited(job, s) /\ status[s] \in {"completed", "failed", "skipped"} /\ retrying[s] = 0)
    BY DEF FinalSteps, Final, SettledAs
  <1> QED
    BY <1>1, <1>2, <1>3, <1>4, <1>5 DEF ExecAt

(* A list with one element more or less.                                   *)
LEMMA ListAppend ==
    ASSUME NEW S, NEW q \in Seq(S), NEW x \in S
    PROVE  /\ Append(q, x) \in Seq(S) /\ Len(Append(q, x)) = Len(q) + 1 /\ Len(q) \in Nat
           /\ \A i \in 1 .. Len(q) : Append(q, x)[i] = q[i]
           /\ Append(q, x)[Len(q) + 1] = x
  OBVIOUS

LEMMA ListTail ==
    ASSUME NEW S, NEW q \in Seq(S), q # <<>>
    PROVE  /\ Head(q) = q[1] /\ Head(q) \in S /\ Tail(q) \in Seq(S)
           /\ Len(q) \in Nat /\ Len(q) >= 1 /\ Len(Tail(q)) = Len(q) - 1
           /\ \A i \in 1 .. Len(q) - 1 : Tail(q)[i] = q[i + 1]
  OBVIOUS

LEMMA FinalAre == FinalSteps \subseteq Steps
  BY DEF FinalSteps

(* Nothing that decides a step changes.                                    *)
LEMMA SameFinal ==
    ASSUME job' = job, status' = status, retrying' = retrying, attempt' = attempt
    PROVE  /\ \A s \in Steps : Clear(s)' = Clear(s)
           /\ \A s \in Steps : CanRetry(s)' = CanRetry(s)
           /\ FinalSteps' = FinalSteps /\ Running' = Running
  BY DEF Final, SettledAs, Inherited, Clear, CanRetry, FinalSteps, Running, Upstream

(* A step that leaves statuses and keys alone, and executions too unless   *)
(* the context is cancelled.                                               *)
Still == /\ job' = job /\ status' = status /\ attempt' = attempt /\ retrying' = retrying
         /\ completed' = completed /\ failed' = failed /\ activeKeys' = activeKeys
         /\ \A s \in Steps : Outstanding'[s] \in Nat /\ Outstanding'[s] <= Outstanding[s]
         /\ ctx' # "cancelled" => \A s \in Steps : Outstanding'[s] = Outstanding[s]
         /\ Going' => Going
         /\ ctx' # "cancelled" => ctx # "cancelled"

StillPart == LeftAlone /\ RunningKeys /\ CountRight /\ FailedWhole /\ FailedTrue /\ KeysHeld

LEMMA StillKeeps ==
    ASSUME RunInv, Still
    PROVE  StillPart'
  <1>1. /\ \A s \in Steps : CanRetry(s)' = CanRetry(s)
        /\ FinalSteps' = FinalSteps /\ Running' = Running
    BY SameFinal DEF Still
  <1>3. LeftAlone'
    BY Executions DEF RunInv, Still, LeftAlone, Inherited
  <1>4. RunningKeys'
    BY <1>1 DEF RunInv, Still, RunningKeys, KeySafe
  <1>7. CountRight' /\ FailedWhole' /\ FailedTrue'
    BY <1>1, FinalAre DEF RunInv, Still, CountRight, FailedWhole, FailedTrue
  <1>8. KeysHeld'
    BY DEF RunInv, Still, KeysHeld, Held
  <1> QED
    BY <1>3, <1>4, <1>7, <1>8 DEF StillPart

(* The same, and the counters and edges stay.                              *)
Calm == /\ Still
        /\ inDegree' = inDegree /\ hasFailedUpstream' = hasFailedUpstream
        /\ Going' => \A s \in Steps : OpenEdges(s)' = OpenEdges(s)

CalmPart == StillPart /\ DegreesRight /\ FlagsTrue /\ FlagsWhole

LEMMA CalmKeeps ==
    ASSUME RunInv, Calm
    PROVE  CalmPart'
  <1>0. StillPart' /\ job' = job /\ status' = status /\ (Going' => Going)
    BY StillKeeps DEF Calm, Still
  <1>1. FinalSteps' = FinalSteps
    BY SameFinal DEF Calm, Still
  <1>2. \A s \in Steps : Upstream(job, s)' = Upstream(job, s) /\ Upstream(job, s) \subseteq Steps
    BY <1>0 DEF Upstream
  <1>5. DegreesRight' /\ FlagsWhole'
    BY <1>0, <1>2 DEF RunInv, Calm, DegreesRight, FlagsWhole
  <1>6. FlagsTrue'
    BY <1>0, <1>1, <1>2 DEF RunInv, Calm, FlagsTrue
  <1> QED
    BY <1>0, <1>5, <1>6 DEF CalmPart

(* What also depends on the loops and the lists.                           *)
LoopPart == /\ LoopsRight /\ NoFlagYet /\ WantsAreClear /\ BeforeStart /\ AfterOutcome
            /\ DeferredAwait /\ PendingListed

LEMMA TwoParts == KInv' /\ CalmPart' /\ LoopPart' => RunInv'
  BY DEF RunInv, CalmPart, StillPart, LoopPart

LEMMA ContextEnds == ASSUME RunInv, ctx' = ctx \/ ctx' = "cancelled", pc' = pc PROVE Going' => Going
  BY DEF Going

(* Neither loops nor lists change: launches, Cancel, dropped completions.  *)
LEMMA QuietKeeps ==
    ASSUME RunInv, KInv',
           UNCHANGED <<job, status, attempt, retrying, graph, completed, failed, keys, pc, item, todo, queue, scan, outcome>>,
           ctx' = ctx \/ ctx' = "cancelled",
           \A s \in Steps : Outstanding'[s] \in Nat /\ Outstanding'[s] <= Outstanding[s],
           ctx' # "cancelled" => \A s \in Steps : Outstanding'[s] = Outstanding[s]
    PROVE  RunInv'
  <1> USE DEF graph, keys
  <1>1. FinalSteps' = FinalSteps /\ \A s \in Steps : Clear(s)' = Clear(s)
    BY SameFinal
  <1>2. \A s \in Steps : OpenEdges(s)' = OpenEdges(s)
    BY <1>1 DEF OpenEdges, Open, Queued, AtHand, Upstream
  <1>3. Calm
    BY <1>2, ContextEnds DEF Calm, Still
  <1>4. CalmPart'
    BY <1>3, CalmKeeps
  <1>5. LoopsRight'
    BY <1>1, RunTypes DEF RunInv, LoopsRight, ItemRight, Queued, Dependents
  <1>6. NoFlagYet' /\ WantsAreClear'
    BY <1>1, Executions DEF RunInv, NoFlagYet, WantsAreClear, Wants, Deferred, Scanned
  <1>7. BeforeStart' /\ AfterOutcome'
    BY <1>1, Executions DEF RunInv, BeforeStart, AfterOutcome
  <1>8. DeferredAwait'
    BY DEF RunInv, DeferredAwait, Awaited, Deferred
  <1>9. PendingListed'
    <2>1. Going' => Going
      BY ContextEnds
    <2> QED
      BY <2>1 DEF RunInv, PendingListed, Deferred, Scanned, Going, BeforeStart
  <1> QED
    BY <1>4, <1>5, <1>6, <1>7, <1>8, <1>9, TwoParts DEF LoopPart

LEMMA Idle == ASSUME RunInv, KInv', UNCHANGED vars PROVE RunInv'
  <1>1. \A s \in Steps : Outstanding'[s] = Outstanding[s] /\ Outstanding[s] \in Nat
    BY Executions DEF vars, Outstanding, loops, procs
  <1> QED
    BY <1>1, QuietKeeps DEF vars, loops, procs, ending, graph, keys

LEMMA ExecuteStepKeeps == ASSUME RunInv, KInv', NEW s \in Steps, ExecuteStep(s) PROVE RunInv'
  <1>1. \A t \in Steps : Outstanding'[t] = Outstanding[t] /\ Outstanding[t] \in Nat
    BY ProcTypes, OutstandingIs DEF ExecuteStep, loops
  <1> QED
    BY <1>1, QuietKeeps DEF ExecuteStep, loops, ending, graph, keys

LEMMA DelayCancelledKeeps == ASSUME RunInv, KInv', NEW s \in Steps, DelayCancelled(s) PROVE RunInv'
  <1>1. \A t \in Steps : Outstanding'[t] \in Nat /\ Outstanding'[t] <= Outstanding[t]
    BY ProcTypes, OutstandingIs DEF DelayCancelled, loops
  <1> QED
    BY <1>1, QuietKeeps DEF DelayCancelled, loops, ending, graph, keys

LEMMA CompletionIgnoredKeeps == ASSUME RunInv, KInv', NEW s \in Steps, CompletionIgnored(s) PROVE RunInv'
  <1>1. \A t \in Steps : Outstanding'[t] \in Nat /\ Outstanding'[t] <= Outstanding[t]
    BY ProcTypes, OutstandingIs DEF CompletionIgnored, Callback, loops
  <1> QED
    BY <1>1, QuietKeeps DEF CompletionIgnored, loops, ending, graph, keys

LEMMA CancelKeeps == ASSUME RunInv, KInv', Cancel \/ CancelContext PROVE RunInv'
  <1>1. \A t \in Steps : Outstanding'[t] = Outstanding[t] /\ Outstanding[t] \in Nat
    BY Executions DEF Cancel, CancelContext, Outstanding, loops, procs
  <1> QED
    BY <1>1, QuietKeeps DEF Cancel, CancelContext, loops, procs, ending, graph, keys

(* Start reads the roots.                                                  *)
LEMMA StartKeeps == ASSUME RunInv, KInv', Start PROVE RunInv'
  <1> USE DEF graph, keys, procs, ending
  <1>1. /\ ctx = "nil" /\ pc = "idle" /\ ctx' = "live" /\ pc' = "start" /\ todo' = {s \in Steps : inDegree[s] = 0}
        /\ UNCHANGED <<job, status, attempt, graph, completed, failed, keys, item, queue, scan, toLaunch, procs, ending>>
    BY DEF Start
  <1>2. FinalSteps' = FinalSteps /\ \A s \in Steps : Clear(s)' = Clear(s)
    BY <1>1, SameFinal
  <1>3. \A s \in Steps : OpenEdges(s)' = OpenEdges(s)
    BY <1>1, <1>2 DEF OpenEdges, Open, Queued, AtHand, Upstream
  <1>4. \A s \in Steps : Outstanding'[s] = Outstanding[s] /\ Outstanding[s] \in Nat
    BY <1>1, Executions DEF Outstanding
  <1>5. CalmPart'
    BY <1>1, <1>3, <1>4, CalmKeeps DEF Calm, Still, Going
  <1>6. LoopsRight'
    BY <1>1, <1>2 DEF RunInv, LoopsRight, ItemRight, Queued
  <1>7. NoFlagYet' /\ WantsAreClear'
    BY <1>1, <1>2, <1>4 DEF RunInv, NoFlagYet, WantsAreClear, Wants, Deferred, Scanned
  <1>8. BeforeStart' /\ AfterOutcome'
    BY <1>1, EmptySeq DEF RunInv, BeforeStart, AfterOutcome
  <1>9. DeferredAwait'
    BY <1>1, <1>4 DEF RunInv, DeferredAwait, Awaited, Deferred
  <1>10. PendingListed'
    BY <1>1 DEF PendingListed
  <1> QED
    BY <1>5, <1>6, <1>7, <1>8, <1>9, <1>10, TwoParts DEF LoopPart

(* The collected steps are launched: an execution moves from toLaunch to   *)
(* waiting.                                                                *)
LEMMA UnlockExecutions ==
    ASSUME RunInv, UnlockAndLaunch, UNCHANGED <<executing, retrying>>
    PROVE  \A s \in Steps : Outstanding'[s] = Outstanding[s] /\ Outstanding[s] \in Nat
  BY ProcTypes, OutstandingIs, Executions DEF UnlockAndLaunch

LEMMA UnlockKeeps ==
    ASSUME RunInv, KInv', pc \in {"start", "deferred"}, pc = "start" => todo = {}, scan = <<>>, UnlockAndLaunch,
           UNCHANGED <<job, ctx, status, attempt, graph, completed, failed, keys, item, todo, queue, scan, executing, retrying, outcome>>
    PROVE  RunInv'
  <1> USE DEF graph, keys
  <1>1. pc' = "idle" /\ pc # "idle" /\ pc # "deps"
    BY DEF UnlockAndLaunch
  <1>2. FinalSteps' = FinalSteps /\ \A s \in Steps : Clear(s)' = Clear(s)
    BY SameFinal
  <1>3. \A s \in Steps : OpenEdges(s)' = OpenEdges(s)
    BY <1>1, <1>2 DEF OpenEdges, Open, Queued, AtHand, Upstream
  <1>4. \A s \in Steps : Outstanding'[s] = Outstanding[s] /\ Outstanding[s] \in Nat
    BY UnlockExecutions
  <1>5. CalmPart'
    BY <1>1, <1>3, <1>4, CalmKeeps DEF Calm, Still, Going
  <1>6. LoopsRight'
    BY <1>1, <1>2 DEF RunInv, LoopsRight, ItemRight, Queued
  <1>7. NoFlagYet' /\ WantsAreClear'
    BY <1>1, <1>2, <1>4 DEF RunInv, NoFlagYet, WantsAreClear, Wants, Deferred, Scanned, BeforeStart
  <1>8. BeforeStart' /\ AfterOutcome'
    BY <1>1, <1>2, <1>4 DEF RunInv, BeforeStart, AfterOutcome
  <1>9. DeferredAwait'
    BY <1>1, <1>4 DEF RunInv, DeferredAwait, Awaited, Deferred
  <1>10. PendingListed'
    BY <1>1 DEF RunInv, PendingListed, Deferred, Scanned, Going
  <1> QED
    BY <1>5, <1>6, <1>7, <1>8, <1>9, <1>10, TwoParts DEF LoopPart

LEMMA StartUnlockKeeps == ASSUME RunInv, KInv', StartUnlock PROVE RunInv'
  <1>1. scan = <<>>
    BY DEF RunInv, LoopsRight, StartUnlock
  <1> QED
    BY <1>1, UnlockKeeps DEF StartUnlock, ending

LEMMA ContinueRunKeeps == ASSUME RunInv, KInv', ContinueRun PROVE RunInv'
  BY UnlockKeeps DEF ContinueRun, ending

(* The next work item is taken: its edges stay open, now as those at hand. *)
LEMMA NextItemKeeps == ASSUME RunInv, KInv', NextItem PROVE RunInv'
  <1> USE DEF graph, keys, procs, ending
  <1>1. /\ pc = "deps" /\ todo = {} /\ queue # <<>> /\ item' = Head(queue) /\ queue' = Tail(queue)
        /\ todo' = Dependents(job, Head(queue).step) /\ pc' = pc
        /\ UNCHANGED <<job, ctx, status, attempt, graph, completed, failed, keys, scan, toLaunch, procs, ending>>
    BY DEF NextItem
  <1>2. FinalSteps' = FinalSteps /\ \A s \in Steps : Clear(s)' = Clear(s)
    BY <1>1, SameFinal
  <1>3. /\ Head(queue) = queue[1] /\ Len(queue) \in Nat /\ Len(queue) >= 1 /\ Len(queue') = Len(queue) - 1
        /\ \A i \in 1 .. Len(queue) - 1 : queue'[i] = queue[i + 1]
        /\ \A i \in 1 .. Len(queue) : queue[i].step \in Steps
    <2>1. queue \in Seq(WorkItem)
      BY RunTypes
    <2>2. \A i \in 1 .. Len(queue) : queue[i] \in WorkItem
      BY <2>1
    <2> QED
      BY <1>1, <2>1, <2>2, ListTail DEF WorkItem
  <1>4. \A u : Queued(u)' <=> (Queued(u) /\ u # queue[1].step)
    <2>1. \A i, j \in 1 .. Len(queue) : queue[i].step = queue[j].step => i = j
      BY DEF RunInv, LoopsRight
    <2>2. ASSUME NEW u, Queued(u)' PROVE Queued(u) /\ u # queue[1].step
      <3>1. PICK i \in 1 .. Len(queue') : queue'[i].step = u
        BY <2>2 DEF Queued
      <3>2. i + 1 \in 1 .. Len(queue) /\ queue[i + 1].step = u /\ i + 1 # 1 /\ 1 \in 1 .. Len(queue)
        BY <1>3, <3>1
      <3> QED
        BY <3>2, <2>1 DEF Queued
    <2>3. ASSUME NEW u, Queued(u), u # queue[1].step PROVE Queued(u)'
      <3>1. PICK i \in 1 .. Len(queue) : queue[i].step = u
        BY <2>3 DEF Queued
      <3>2. i - 1 \in 1 .. Len(queue') /\ queue'[i - 1].step = u
        BY <1>3, <3>1, <2>3
      <3> QED
        BY <3>2 DEF Queued
    <2> QED
      BY <2>2, <2>3
  <1>5. Queued(queue[1].step)
    BY <1>3 DEF Queued
  <1>6. \A s \in Steps : OpenEdges(s)' = OpenEdges(s)
    BY <1>1, <1>2, <1>3, <1>4, <1>5 DEF OpenEdges, Open, AtHand, Upstream, Dependents
  <1>7. \A s \in Steps : Outstanding'[s] = Outstanding[s] /\ Outstanding[s] \in Nat
    BY <1>1, Executions DEF Outstanding
  <1>8. CalmPart'
    BY <1>1, <1>6, <1>7, CalmKeeps DEF Calm, Still, Going
  <1>9. LoopsRight'
    <2>1. /\ \A i \in 1 .. Len(queue) : ItemRight(queue[i])
          /\ \A i, j \in 1 .. Len(queue) : queue[i].step = queue[j].step => i = j
          /\ scan = <<>>
      BY <1>1 DEF RunInv, LoopsRight
    <2>2. ItemRight(item)' /\ ~Queued(item.step)'
      BY <1>1, <1>2, <1>3, <1>4, <2>1 DEF ItemRight, Queued
    <2>3. \A i \in 1 .. Len(queue') : ItemRight(queue[i + 1]) /\ queue'[i] = queue[i + 1] /\ i + 1 \in 1 .. Len(queue)
      BY <1>3, <2>1
    <2>4. \A i \in 1 .. Len(queue') : /\ queue'[i].step \in FinalSteps'
                                      /\ (queue'[i].failed <=> status'[queue'[i].step] # "completed")
      BY <1>1, <1>2, <2>3 DEF ItemRight
    <2>5. \A i, j \in 1 .. Len(queue') : queue'[i].step = queue'[j].step => i = j
      BY <1>3, <2>1
    <2> QED
      BY <1>1, <2>1, <2>2, <2>4, <2>5 DEF LoopsRight, ItemRight
  <1>10. NoFlagYet' /\ WantsAreClear'
    BY <1>1, <1>2, <1>7 DEF RunInv, NoFlagYet, WantsAreClear, Wants, Deferred, Scanned
  <1>11. BeforeStart' /\ AfterOutcome'
    BY <1>1, <1>2, <1>7 DEF RunInv, BeforeStart, AfterOutcome
  <1>12. DeferredAwait' /\ PendingListed'
    BY <1>1 DEF RunInv, DeferredAwait, PendingListed, Deferred, Scanned, Going
  <1> QED
    BY <1>8, <1>9, <1>10, <1>11, <1>12, TwoParts DEF LoopPart

(* The list becomes the one to scan.                                       *)
LEMMA BeginDeferredKeeps == ASSUME RunInv, KInv', BeginDeferred PROVE RunInv'
  <1> USE DEF graph, procs, ending
  <1>1. /\ pc = "deps" /\ todo = {} /\ queue = <<>> /\ pc' = "deferred" /\ scan' = deferred /\ deferred' = <<>>
        /\ UNCHANGED <<job, ctx, status, attempt, graph, completed, failed, activeKeys, item, todo, queue, toLaunch, procs, ending>>
    BY DEF BeginDeferred
  <1>0. Len(<<>>) = 0
    BY EmptySeq
  <1>2. FinalSteps' = FinalSteps /\ \A s \in Steps : Clear(s)' = Clear(s)
    BY <1>1, SameFinal
  <1>3. \A s \in Steps : OpenEdges(s)' = OpenEdges(s)
    BY <1>1, <1>2 DEF OpenEdges, Open, Queued, AtHand, Upstream
  <1>4. \A s \in Steps : Outstanding'[s] = Outstanding[s] /\ Outstanding[s] \in Nat
    BY <1>1, Executions DEF Outstanding
  <1>5. CalmPart'
    BY <1>1, <1>3, <1>4, CalmKeeps DEF Calm, Still, Going
  <1>6. LoopsRight'
    BY <1>1, <1>2 DEF RunInv, LoopsRight, ItemRight, Queued
  <1>7. \A s \in Steps : Scanned(s)' = Deferred(s) /\ ~Deferred(s)'
    BY <1>1, <1>0 DEF Scanned, Deferred
  <1>8. NoFlagYet' /\ WantsAreClear'
    BY <1>1, <1>2, <1>4, <1>7 DEF RunInv, NoFlagYet, WantsAreClear, Wants
  <1>9. BeforeStart' /\ AfterOutcome'
    BY <1>1, <1>2, <1>4 DEF RunInv, BeforeStart, AfterOutcome
  <1>10. DeferredAwait'
    BY <1>7 DEF DeferredAwait
  <1>12. PendingListed'
    <2>1. \A s \in Steps : ~Scanned(s)
      BY <1>1, <1>0 DEF RunInv, LoopsRight, Scanned
    <2> QED
      BY <1>1, <1>7, <2>1 DEF RunInv, PendingListed, Going
  <1> QED
    BY <1>5, <1>6, <1>8, <1>9, <1>10, <1>12, TwoParts DEF LoopPart

(* When as many steps are counted as there are, all are decided.           *)
LEMMA AllCounted ==
    ASSUME RunInv, Going, completed = Cardinality(Steps)
    PROVE  FinalSteps = Steps
  BY FinalAre, FS_Subset, JobAssumption DEF RunInv, CountRight

LEMMA FinishRunKeeps == ASSUME RunInv, KInv', FinishRun PROVE RunInv'
  <1> USE DEF graph, keys, procs
  <1>1. /\ pc = "deferred" /\ scan = <<>> /\ completed = Cardinality(Steps) /\ pc' = "idle" /\ toLaunch' = {}
        /\ outcome' = Append(outcome, IF failed THEN "failed" ELSE "completed")
        /\ UNCHANGED <<job, ctx, status, attempt, graph, completed, failed, keys, item, todo, queue, scan, procs>>
    BY DEF FinishRun
  <1>2. FinalSteps' = FinalSteps /\ \A s \in Steps : Clear(s)' = Clear(s)
    BY <1>1, SameFinal
  <1>3. Going /\ FinalSteps = Steps
    BY <1>1, AllCounted DEF Going
  <1>4. \A s \in Steps : OpenEdges(s)' = OpenEdges(s)
    BY <1>1, <1>2 DEF OpenEdges, Open, Queued, AtHand, Upstream
  <1>5. \A s \in Steps : Outstanding'[s] = Outstanding[s] /\ Outstanding[s] \in Nat
    <2>1. \A s \in Steps : Outstanding[s] = 0 /\ s \notin toLaunch
      BY <1>3, Executions
    <2> QED
      BY <1>1, <2>1, OutstandingIs
  <1>6. CalmPart'
    BY <1>1, <1>3, <1>4, <1>5, CalmKeeps DEF Calm, Still
  <1>7. LoopsRight'
    BY <1>1, <1>2 DEF RunInv, LoopsRight, ItemRight, Queued
  <1>8. NoFlagYet' /\ WantsAreClear'
    BY <1>1, <1>2, <1>5 DEF RunInv, NoFlagYet, WantsAreClear, Wants, Deferred, Scanned
  <1>9. BeforeStart'
    BY <1>1 DEF RunInv, BeforeStart
  <1>10. AfterOutcome'
    <2>1. outcome = <<>>
      BY <1>1 DEF RunInv, AfterOutcome
    <2>2. Len(outcome') = 1 /\ outcome'[1] = IF failed THEN "failed" ELSE "completed"
      BY <1>1, <2>1
    <2>3. ~failed => \A s \in Steps : status[s] = "completed"
      BY <1>3 DEF RunInv, FailedWhole
    <2> QED
      BY <1>1, <1>2, <1>3, <2>2, <2>3 DEF AfterOutcome
  <1>11. DeferredAwait'
    BY <1>1, <1>5 DEF RunInv, DeferredAwait, Awaited, Deferred
  <1>12. PendingListed'
    BY <1>1, <1>3 DEF RunInv, PendingListed, Deferred, Scanned, Going
  <1> QED
    BY <1>6, <1>7, <1>8, <1>9, <1>10, <1>11, <1>12, TwoParts DEF LoopPart

(* A step without open edges has its upstream decided, and what failed     *)
(* there is flagged.                                                       *)
LEMMA NoOpenEdges ==
    ASSUME RunInv, Going, NEW s \in Steps, inDegree[s] = 0
    PROVE  \A u \in Upstream(job, s) : u \in FinalSteps /\ (status[u] # "completed" => hasFailedUpstream[s])
  <1>1. OpenEdges(s) \in SUBSET Steps
    BY DEF OpenEdges, Upstream
  <1>2. Cardinality(OpenEdges(s)) = 0 /\ IsFiniteSet(OpenEdges(s))
    BY <1>1, CountIsNat DEF RunInv, DegreesRight
  <1>3. OpenEdges(s) = {}
    BY <1>2, FS_EmptySet
  <1>4. \A u \in Upstream(job, s) : u \in FinalSteps
    BY <1>3 DEF OpenEdges, Open
  <1>5. \A u \in Upstream(job, s) : status[u] # "completed" => hasFailedUpstream[s]
    BY <1>3 DEF RunInv, FlagsWhole
  <1> QED
    BY <1>4, <1>5

(* A launch under the mutex: the step runs, and holds its key.             *)
Launching(s) == /\ status[s] = "pending" /\ Launch(s) /\ pc # "idle" /\ Clear(s)
                /\ UNCHANGED <<job, ctx, attempt, retrying, waiting, executing, pc, completed, failed, outcome>>

LEMMA LaunchFacts ==
    ASSUME RunInv, NEW s \in Steps, Launching(s)
    PROVE  /\ \A t \in Steps : status'[t] = IF t = s THEN "running" ELSE status[t]
           /\ Outstanding[s] = 0 /\ retrying[s] = 0 /\ ~Inherited(job, s) /\ s \notin FinalSteps
           /\ \A t \in Steps : Outstanding'[t] = IF t = s THEN 1 ELSE Outstanding[t]
           /\ activeKeys' = activeKeys \cup ({job.key[s]} \ {NoKey}) /\ (job.key[s] = NoKey \/ job.key[s] \notin activeKeys)
           /\ FinalSteps' = FinalSteps
           /\ \A t \in Steps : Clear(t)' = Clear(t)
           /\ \A t \in Steps : CanRetry(t)' = CanRetry(t)
           /\ Running' = Running \cup {s}
  <1>1. \A t \in Steps : status'[t] = IF t = s THEN "running" ELSE status[t]
    BY RunTypes DEF Launching, Launch
  <1>2. Outstanding[s] = 0 /\ retrying[s] = 0 /\ s \notin FinalSteps /\ s \notin toLaunch
    BY Executions DEF Launching
  <1>3. ~Inherited(job, s)
    BY DEF RunInv, LeftAlone, Launching
  <1>4. \A t \in Steps : Outstanding'[t] = IF t = s THEN 1 ELSE Outstanding[t]
    <2>1. waiting' = waiting /\ executing' = executing /\ toLaunch' = toLaunch \cup {s}
      BY DEF Launching, Launch
    <2>2. waiting[s] + executing[s] = 0
      BY <1>2, ProcTypes, OutstandingIs
    <2>3. Outstanding'[s] = 1
      BY <2>1, <2>2, ProcTypes, OutstandingIs
    <2>4. \A t \in Steps : t # s => Outstanding'[t] = Outstanding[t]
      BY <2>1, OutstandingIs
    <2> QED
      BY <2>3, <2>4
  <1>5. activeKeys' = activeKeys \cup ({job.key[s]} \ {NoKey}) /\ (job.key[s] = NoKey \/ job.key[s] \notin activeKeys)
    BY DEF Launching, Launch, claimSessionKey, canLaunch
  <1>6. FinalSteps' = FinalSteps
    BY <1>1 DEF FinalSteps, Final, SettledAs, Inherited, Launching
  <1>7. \A t \in Steps : Clear(t)' = Clear(t)
    <2>1. \A t \in Steps : Upstream(job, t)' = Upstream(job, t) /\ Upstream(job, t) \subseteq Steps
      BY DEF Launching, Upstream
    <2>2. \A u \in FinalSteps : status'[u] = status[u]
      BY <1>1, <1>2, FinalAre
    <2> QED
      BY <1>6, <2>1, <2>2 DEF Clear, Launching
  <1>8. \A t \in Steps : CanRetry(t)' = CanRetry(t)
    BY DEF CanRetry, Launching
  <1>9. Running' = Running \cup {s}
    BY <1>1, <1>3 DEF Running, Inherited, Launching
  <1> QED
    BY <1>1, <1>2, <1>3, <1>4, <1>5, <1>6, <1>7, <1>8, <1>9

LaunchPart == /\ LeftAlone /\ RunningKeys /\ CountRight /\ FailedWhole /\ FailedTrue
              /\ BeforeStart /\ AfterOutcome /\ KeysHeld

LEMMA LaunchKeeps ==
    ASSUME RunInv, NEW s \in Steps, Launching(s)
    PROVE  LaunchPart'
  <1> USE LaunchFacts
  <1>0. job' = job /\ ctx' = ctx /\ pc' = pc /\ completed' = completed /\ failed' = failed /\ outcome' = outcome /\ retrying' = retrying
    BY DEF Launching
  <1>1. LeftAlone'
    BY <1>0 DEF RunInv, LeftAlone, Inherited, Going
  <1>2. RunningKeys'
    <2>1. KeySafe(job.key, Running \cup {s}, activeKeys \cup ({job.key[s]} \ {NoKey}))
      BY KeyClaim DEF RunInv, RunningKeys
    <2> QED
      BY <1>0, <2>1 DEF RunningKeys
  <1>3. CountRight'
    BY <1>0 DEF RunInv, CountRight, Going
  <1>4. FailedWhole' /\ FailedTrue'
    BY <1>0, FinalAre DEF RunInv, FailedWhole, FailedTrue, Going
  <1>5. BeforeStart' /\ AfterOutcome'
    BY <1>0 DEF RunInv, BeforeStart, AfterOutcome, Launching
  <1>6. KeysHeld'
    BY <1>0 DEF RunInv, KeysHeld, Held
  <1> QED
    BY <1>1, <1>2, <1>3, <1>4, <1>5, <1>6 DEF LaunchPart

(* A launch that leaves the counters and the edges alone.                  *)
LEMMA LaunchKeepsGraph ==
    ASSUME RunInv, NEW s \in Steps, Launching(s), UNCHANGED <<graph, item, queue>>,
           pc = "deps" => UNCHANGED todo
    PROVE  DegreesRight' /\ FlagsTrue' /\ FlagsWhole' /\ NoFlagYet'
  <1> USE LaunchFacts DEF graph
  <1>0. job' = job /\ ctx' = ctx /\ pc' = pc
    BY DEF Launching
  <1>1. \A t \in Steps : Upstream(job, t)' = Upstream(job, t) /\ Upstream(job, t) \subseteq Steps
    BY <1>0 DEF Upstream
  <1>2. \A t \in Steps : OpenEdges(t)' = OpenEdges(t)
    BY <1>0, <1>1 DEF OpenEdges, Open, Queued, AtHand
  <1>3. \A u \in Steps : status'[u] # "completed" <=> status[u] # "completed"
    BY DEF Launching
  <1>4. DegreesRight' /\ NoFlagYet'
    BY <1>0, <1>2 DEF RunInv, DegreesRight, NoFlagYet, Going
  <1>5. FlagsTrue' /\ FlagsWhole'
    BY <1>0, <1>1, <1>2, <1>3 DEF RunInv, FlagsTrue, FlagsWhole, Going
  <1> QED
    BY <1>4, <1>5

LEMMA LaunchParts ==
    KInv' /\ LaunchPart' /\ DegreesRight' /\ FlagsTrue' /\ FlagsWhole' /\ NoFlagYet'
      /\ LoopsRight' /\ WantsAreClear' /\ DeferredAwait' /\ PendingListed' => RunInv'
  BY DEF RunInv, LaunchPart

(* A step whose key is taken waits for the step that holds it.             *)
LEMMA BlockedIsAwaited ==
    ASSUME RunInv, NEW s \in Steps, ~canLaunch(s), status[s] # "running", ctx # "cancelled"
    PROVE  \E t \in Steps \ {s} : job.key[t] = job.key[s] /\ Outstanding[t] > 0
  <1>1. job.key[s] \in activeKeys
    BY DEF canLaunch
  <1>2. PICK t \in Steps : job.key[t] = job.key[s] /\ Outstanding[t] > 0
    BY <1>1 DEF RunInv, KeysHeld, Held
  <1>3. t # s
    BY <1>2, Executions
  <1> QED
    BY <1>2, <1>3

LEMMA DeferredMore ==
    ASSUME RunInv, NEW s \in Steps, deferred' = Append(deferred, s)
    PROVE  \A t : Deferred(t)' <=> (Deferred(t) \/ t = s)
  <1>1. /\ Len(deferred') = Len(deferred) + 1 /\ Len(deferred) \in Nat
        /\ \A i \in 1 .. Len(deferred) : deferred'[i] = deferred[i]
        /\ deferred'[Len(deferred) + 1] = s
    BY RunTypes, ListAppend
  <1>2. Deferred(s)'
    BY <1>1 DEF Deferred
  <1>3. ASSUME NEW t, Deferred(t) PROVE Deferred(t)'
    BY <1>1, <1>3 DEF Deferred
  <1>4. ASSUME NEW t, Deferred(t)', t # s PROVE Deferred(t)
    <2>1. PICK i \in 1 .. Len(deferred') : deferred'[i] = t
      BY <1>4 DEF Deferred
    <2>2. i \in 1 .. Len(deferred)
      BY <1>1, <1>4, <2>1
    <2> QED
      BY <1>1, <2>1, <2>2 DEF Deferred
  <1> QED
    BY <1>2, <1>3, <1>4

(* The upstream of a root is decided, and nothing failed yet.              *)
LEMMA RootIsClear ==
    ASSUME RunInv, pc = "start", NEW s \in todo
    PROVE  s \in Steps /\ Going /\ Clear(s)
  <1>1. s \in Steps /\ inDegree[s] = 0 /\ ~hasFailedUpstream[s] /\ Going
    BY RunTypes DEF RunInv, LoopsRight, NoFlagYet, Going
  <1> QED
    BY <1>1, NoOpenEdges DEF Clear

LEMMA StartRootKeeps == ASSUME RunInv, KInv', NEW s \in Steps, StartRoot(s) PROVE RunInv'
  <1> USE DEF graph, procs, ending
  <1>1. /\ pc = "start" /\ s \in todo /\ todo' = todo \ {s}
        /\ UNCHANGED <<job, ctx, attempt, graph, completed, failed, pc, item, queue, scan, procs, ending>>
    BY DEF StartRoot
  <1>2. Going /\ Clear(s) /\ todo \subseteq Steps
    BY <1>1, RootIsClear, RunTypes
  <1>3. CASE status[s] = "pending" /\ Launch(s) /\ deferred' = deferred
    <2>1. Launching(s)
      BY <1>1, <1>2, <1>3 DEF Launching
    <2>2. LaunchPart' /\ DegreesRight' /\ FlagsTrue' /\ FlagsWhole' /\ NoFlagYet'
      BY <1>1, <2>1, LaunchKeeps, LaunchKeepsGraph
    <2> USE LaunchFacts
    <2>3. LoopsRight'
      BY <1>1 DEF RunInv, LoopsRight, Queued
    <2>4. WantsAreClear'
      BY <1>1, <1>2, <1>3, <2>1 DEF RunInv, WantsAreClear, Wants, Deferred, Scanned
    <2>5. DeferredAwait'
      <3>1. \A t \in Steps : Awaited(t) => Awaited(t)'
        BY <1>1, <2>1 DEF Awaited
      <3> QED
        BY <1>1, <1>3, <2>1, <3>1 DEF RunInv, DeferredAwait, Deferred
    <2>6. PendingListed'
      BY <1>1, <1>2, <1>3, <2>1 DEF RunInv, PendingListed, Deferred, Scanned
    <2> QED
      BY <2>2, <2>3, <2>4, <2>5, <2>6, LaunchParts
  <1>4. CASE /\ status' = status /\ activeKeys' = activeKeys /\ toLaunch' = toLaunch
             /\ \/ status[s] = "pending" /\ ~canLaunch(s) /\ deferred' = Append(deferred, s)
                \/ status[s] # "pending" /\ deferred' = deferred
    <2>1. FinalSteps' = FinalSteps /\ \A t \in Steps : Clear(t)' = Clear(t)
      BY <1>1, <1>4, SameFinal
    <2>2. \A t \in Steps : OpenEdges(t)' = OpenEdges(t)
      BY <1>1, <2>1 DEF OpenEdges, Open, Queued, AtHand, Upstream
    <2>3. \A t \in Steps : Outstanding'[t] = Outstanding[t] /\ Outstanding[t] \in Nat
      BY <1>1, <1>4, Executions DEF Outstanding
    <2>4. CalmPart'
      BY <1>1, <1>4, <2>2, <2>3, CalmKeeps DEF Calm, Still, Going
    <2>5. LoopsRight'
      BY <1>1, <1>4, <2>1 DEF RunInv, LoopsRight, Queued
    <2>6. /\ \A t : t # s => (Deferred(t)' <=> Deferred(t))
          /\ status[s] = "pending" => Deferred(s)'
      <3>1. CASE status[s] = "pending" /\ deferred' = Append(deferred, s)
        BY <3>1, DeferredMore
      <3>2. CASE status[s] # "pending" /\ deferred' = deferred
        BY <3>2 DEF Deferred
      <3> QED
        BY <1>4, <3>1, <3>2
    <2>7. NoFlagYet' /\ WantsAreClear'
      BY <1>1, <1>2, <1>4, <2>1, <2>3, <2>6 DEF RunInv, NoFlagYet, WantsAreClear, Wants, Scanned
    <2>8. BeforeStart' /\ AfterOutcome'
      BY <1>1, <1>4, <2>1, <2>3 DEF RunInv, BeforeStart, AfterOutcome
    <2>9. DeferredAwait'
      <3>1. \A t \in Steps : Awaited(t)' = Awaited(t)
        BY <1>1, <2>3 DEF Awaited
      <3>2. status[s] = "pending" /\ ~canLaunch(s) /\ ctx # "cancelled" => Awaited(s)
        BY BlockedIsAwaited, Executions DEF Awaited
      <3> QED
        BY <1>1, <1>4, <2>6, <3>1, <3>2 DEF RunInv, DeferredAwait
    <2>10. PendingListed'
      BY <1>1, <1>4, <2>6 DEF RunInv, PendingListed, Scanned, Going
    <2> QED
      BY <2>4, <2>5, <2>7, <2>8, <2>9, <2>10, TwoParts DEF LoopPart
  <1> QED
    BY <1>3, <1>4 DEF StartRoot, keys

LEMMA ScannedLess ==
    ASSUME RunInv, scan # <<>>, scan' = Tail(scan)
    PROVE  /\ Head(scan) \in Steps /\ Scanned(Head(scan))
           /\ \A t : Scanned(t)' => Scanned(t)
           /\ \A t : Scanned(t) => t = Head(scan) \/ Scanned(t)'
  <1>1. /\ Head(scan) = scan[1] /\ Head(scan) \in Steps /\ Len(scan) \in Nat /\ Len(scan) >= 1
        /\ Len(scan') = Len(scan) - 1 /\ \A i \in 1 .. Len(scan) - 1 : scan'[i] = scan[i + 1]
    BY RunTypes, ListTail
  <1>2. Scanned(Head(scan))
    BY <1>1 DEF Scanned
  <1>3. ASSUME NEW t, Scanned(t)' PROVE Scanned(t)
    <2>1. PICK i \in 1 .. Len(scan') : scan'[i] = t
      BY <1>3 DEF Scanned
    <2>2. i + 1 \in 1 .. Len(scan) /\ scan[i + 1] = t
      BY <1>1, <2>1
    <2> QED
      BY <2>2 DEF Scanned
  <1>4. ASSUME NEW t, Scanned(t), t # Head(scan) PROVE Scanned(t)'
    <2>1. PICK i \in 1 .. Len(scan) : scan[i] = t
      BY <1>4 DEF Scanned
    <2>2. i - 1 \in 1 .. Len(scan') /\ scan'[i - 1] = t
      BY <1>1, <1>4, <2>1
    <2> QED
      BY <2>2 DEF Scanned
  <1> QED
    BY <1>1, <1>2, <1>3, <1>4

(* The branch of processDeferredSteps that skips is never taken.           *)
LEMMA ScannedIsNotSkipped ==
    ASSUME RunInv, NEW s \in Steps, Clear(s)
    PROVE  ~mustSkip(s, hasFailedUpstream[s])
  BY DEF RunInv, FlagsTrue, Clear, mustSkip

LEMMA DeferredStepKeeps == ASSUME RunInv, KInv', DeferredStep PROVE RunInv'
  <1> USE DEF graph, procs, ending
  <1>1. /\ pc = "deferred" /\ scan # <<>> /\ scan' = Tail(scan)
        /\ UNCHANGED <<job, ctx, attempt, graph, failed, pc, item, todo, queue, procs, ending>>
    BY DEF DeferredStep
  <1>a. PICK s \in Steps : s = Head(scan)
    BY <1>1, ScannedLess
  <1>2. /\ s \in Steps /\ Scanned(s)
        /\ \A t : Scanned(t)' => Scanned(t)
        /\ \A t : Scanned(t) => t = s \/ Scanned(t)'
    BY <1>1, <1>a, ScannedLess
  <1>3. status[s] = "pending" => Clear(s) /\ ~mustSkip(s, hasFailedUpstream[s])
    BY <1>2, ScannedIsNotSkipped DEF RunInv, WantsAreClear, Wants
  <1>4. \/ status[s] = "pending" /\ Launch(s) /\ completed' = completed /\ deferred' = deferred
        \/ /\ status' = status /\ completed' = completed /\ activeKeys' = activeKeys /\ toLaunch' = toLaunch
           /\ \/ status[s] = "pending" /\ ~canLaunch(s) /\ deferred' = Append(deferred, s)
              \/ status[s] # "pending" /\ deferred' = deferred
    BY <1>a, <1>3 DEF DeferredStep
  <1>5. Going
    BY <1>1 DEF Going
  <1>6. CASE status[s] = "pending" /\ Launch(s) /\ completed' = completed /\ deferred' = deferred
    <2>1. Launching(s)
      BY <1>1, <1>3, <1>6 DEF Launching
    <2>2. LaunchPart' /\ DegreesRight' /\ FlagsTrue' /\ FlagsWhole' /\ NoFlagYet'
      BY <1>1, <1>2, <2>1, LaunchKeeps, LaunchKeepsGraph
    <2>f. /\ \A t \in Steps : status'[t] = IF t = s THEN "running" ELSE status[t]
          /\ \A t \in Steps : Outstanding'[t] = IF t = s THEN 1 ELSE Outstanding[t]
          /\ FinalSteps' = FinalSteps /\ \A t \in Steps : Clear(t)' = Clear(t)
      BY <1>2, <2>1, LaunchFacts
    <2>3. LoopsRight'
      BY <1>1, <2>f DEF RunInv, LoopsRight, Queued
    <2>4. WantsAreClear'
      BY <1>1, <1>2, <1>3, <1>6, <2>f DEF RunInv, WantsAreClear, Wants, Deferred
    <2>5. DeferredAwait'
      <3>1. \A t \in Steps : Awaited(t) => Awaited(t)'
        BY <1>1, <1>6, <2>f, Executions DEF Awaited
      <3> QED
        BY <1>1, <1>6, <2>f, <3>1 DEF RunInv, DeferredAwait, Deferred
    <2>6. PendingListed'
      BY <1>1, <1>2, <1>5, <1>6, <2>f DEF RunInv, PendingListed, Deferred
    <2> QED
      BY <2>2, <2>3, <2>4, <2>5, <2>6, LaunchParts
  <1>7. CASE /\ status' = status /\ completed' = completed /\ activeKeys' = activeKeys /\ toLaunch' = toLaunch
             /\ \/ status[s] = "pending" /\ ~canLaunch(s) /\ deferred' = Append(deferred, s)
                \/ status[s] # "pending" /\ deferred' = deferred
    <2>1. FinalSteps' = FinalSteps /\ \A t \in Steps : Clear(t)' = Clear(t)
      BY <1>1, <1>7, SameFinal
    <2>2. \A t \in Steps : OpenEdges(t)' = OpenEdges(t)
      BY <1>1, <2>1 DEF OpenEdges, Open, Queued, AtHand, Upstream
    <2>3. \A t \in Steps : Outstanding'[t] = Outstanding[t] /\ Outstanding[t] \in Nat
      BY <1>1, <1>7, Executions DEF Outstanding
    <2>4. CalmPart'
      BY <1>1, <1>7, <2>2, <2>3, CalmKeeps DEF Calm, Still, Going
    <2>5. LoopsRight'
      BY <1>1, <1>7, <2>1 DEF RunInv, LoopsRight, Queued
    <2>6. /\ \A t : t # s => (Deferred(t)' <=> Deferred(t))
          /\ status[s] = "pending" => Deferred(s)'
      <3>1. CASE status[s] = "pending" /\ deferred' = Append(deferred, s)
        BY <1>2, <3>1, DeferredMore
      <3>2. CASE status[s] # "pending" /\ deferred' = deferred
        BY <3>2 DEF Deferred
      <3> QED
        BY <1>7, <3>1, <3>2
    <2>7. NoFlagYet' /\ WantsAreClear'
      BY <1>1, <1>2, <1>3, <1>7, <2>1, <2>3, <2>6 DEF RunInv, NoFlagYet, WantsAreClear, Wants
    <2>8. BeforeStart' /\ AfterOutcome'
      BY <1>1, <1>7, <2>1, <2>3 DEF RunInv, BeforeStart, AfterOutcome
    <2>9. DeferredAwait'
      <3>1. \A t \in Steps : Awaited(t)' = Awaited(t)
        BY <1>1, <2>3 DEF Awaited
      <3>2. status[s] = "pending" /\ ~canLaunch(s) /\ ctx # "cancelled" => Awaited(s)
        BY <1>2, BlockedIsAwaited, Executions DEF Awaited
      <3> QED
        BY <1>1, <1>7, <2>6, <3>1, <3>2 DEF RunInv, DeferredAwait
    <2>10. PendingListed'
      BY <1>1, <1>2, <1>7, <2>6 DEF RunInv, PendingListed, Going
    <2> QED
      BY <2>4, <2>5, <2>7, <2>8, <2>9, <2>10, TwoParts DEF LoopPart
  <1> QED
    BY <1>4, <1>6, <1>7

(* One dependent of the work item.  The edge at hand is closed; a step     *)
(* that is skipped becomes a work item, so that its edges stay open.       *)
ItemDone(d) ==
    /\ pc = "deps" /\ d \in todo /\ todo' = todo \ {d}
    /\ hasFailedUpstream' = [hasFailedUpstream EXCEPT ![d] = @ \/ item.failed]
    /\ inDegree' = [inDegree EXCEPT ![d] = @ - 1]
    /\ UNCHANGED <<job, ctx, attempt, failed, pc, item, scan, procs, ending>>

LEMMA ItemFacts ==
    ASSUME RunInv, NEW d \in Steps, ItemDone(d)
    PROVE  /\ item.step \in FinalSteps /\ item.step \in Upstream(job, d) /\ ~Queued(item.step)
           /\ item.step \in OpenEdges(d) /\ (item.failed <=> status[item.step] # "completed")
           /\ \A t \in Steps : inDegree'[t] = IF t = d THEN inDegree[d] - 1 ELSE inDegree[t]
           /\ \A t \in Steps : hasFailedUpstream'[t] <=> (hasFailedUpstream[t] \/ (t = d /\ item.failed))
           /\ Going /\ outcome = <<>> /\ ctx # "nil"
  <1>1. /\ item.step \in FinalSteps /\ ~Queued(item.step) /\ d \in Dependents(job, item.step)
        /\ (item.failed <=> status[item.step] # "completed")
    BY DEF RunInv, LoopsRight, ItemRight, ItemDone
  <1>2. item.step \in Upstream(job, d)
    BY <1>1, FinalAre DEF Dependents, Upstream
  <1>3. item.step \in OpenEdges(d)
    BY <1>2 DEF OpenEdges, Open, AtHand, ItemDone
  <1>4. \A t \in Steps : inDegree'[t] = IF t = d THEN inDegree[d] - 1 ELSE inDegree[t]
    BY RunTypes DEF ItemDone
  <1>5. item.failed \in BOOLEAN
    BY RunTypes DEF WorkItem, ItemDone
  <1>6. \A t \in Steps : hasFailedUpstream'[t] <=> (hasFailedUpstream[t] \/ (t = d /\ item.failed))
    BY <1>5, RunTypes DEF ItemDone
  <1>7. Going /\ outcome = <<>> /\ ctx # "nil"
    BY DEF RunInv, ItemDone, Going, AfterOutcome, BeforeStart
  <1> QED
    BY <1>1, <1>2, <1>3, <1>4, <1>6, <1>7

(* When its last edge is closed, the upstream of d is decided.             *)
LEMMA LastEdge ==
    ASSUME RunInv, NEW d \in Steps, ItemDone(d), inDegree'[d] = 0
    PROVE  \A u \in Upstream(job, d) : u \in FinalSteps /\ (status[u] # "completed" => hasFailedUpstream'[d])
  <1>1. OpenEdges(d) \in SUBSET Steps
    BY DEF OpenEdges, Upstream
  <1>2. Cardinality(OpenEdges(d)) = 1 /\ IsFiniteSet(OpenEdges(d)) /\ item.step \in OpenEdges(d)
    BY <1>1, CountIsNat, ItemFacts, RunTypes DEF RunInv, DegreesRight
  <1>3. IsFiniteSet(OpenEdges(d) \ {item.step}) /\ Cardinality(OpenEdges(d) \ {item.step}) = 0
    BY <1>2, FS_RemoveElement
  <1>4. OpenEdges(d) \ {item.step} = {}
    BY <1>3, FS_EmptySet
  <1>5. \A u \in Upstream(job, d) : u = item.step \/ u \notin OpenEdges(d)
    BY <1>4
  <1>6. ASSUME NEW u \in Upstream(job, d), u \notin OpenEdges(d)
        PROVE  u \in FinalSteps /\ (status[u] # "completed" => hasFailedUpstream[d])
    BY <1>6, ItemFacts DEF OpenEdges, Open, RunInv, FlagsWhole
  <1> QED
    BY <1>5, <1>6, ItemFacts

LEMMA ItemEdges ==
    ASSUME RunInv, NEW d \in Steps, ItemDone(d),
           \/ queue' = queue /\ FinalSteps' = FinalSteps
           \/ /\ \A u : Queued(u)' <=> (Queued(u) \/ u = d)
              /\ FinalSteps' = FinalSteps \cup {d} /\ d \notin FinalSteps
    PROVE  \A t \in Steps : OpenEdges(t)' = IF t = d THEN OpenEdges(d) \ {item.step} ELSE OpenEdges(t)
  <1>1. \A t \in Steps : Upstream(job, t)' = Upstream(job, t)
    BY DEF ItemDone, Upstream
  <1>2. /\ item.step \in FinalSteps /\ ~Queued(item.step)
        /\ pc = "deps" /\ pc' = "deps" /\ item' = item /\ todo' = todo \ {d} /\ d \in todo
    BY ItemFacts DEF ItemDone
  <1>3. \A t, u \in Steps : Open(t, u)' <=> (Open(t, u) /\ ~(t = d /\ u = item.step))
    BY <1>2 DEF Open, AtHand, Queued
  <1> QED
    BY <1>1, <1>3 DEF OpenEdges, Upstream

GraphPart == DegreesRight /\ FlagsTrue /\ FlagsWhole /\ NoFlagYet

LEMMA ItemKeepsGraph ==
    ASSUME RunInv, NEW d \in Steps, ItemDone(d),
           \/ queue' = queue /\ FinalSteps' = FinalSteps
           \/ /\ \A u : Queued(u)' <=> (Queued(u) \/ u = d)
              /\ FinalSteps' = FinalSteps \cup {d} /\ d \notin FinalSteps,
           \A u \in FinalSteps : status'[u] = status[u]
    PROVE  GraphPart'
  <1>1. \A t \in Steps : Upstream(job, t)' = Upstream(job, t)
    BY DEF ItemDone, Upstream
  <1>2. \A t \in Steps : OpenEdges(t)' = IF t = d THEN OpenEdges(d) \ {item.step} ELSE OpenEdges(t)
    BY ItemEdges
  <1>3. DegreesRight'
    <2>1. \A t \in Steps : OpenEdges(t) \in SUBSET Steps
      BY DEF OpenEdges, Upstream
    <2>2. IsFiniteSet(OpenEdges(d)) /\ item.step \in OpenEdges(d)
      BY <2>1, CountIsNat, ItemFacts
    <2>3. Cardinality(OpenEdges(d) \ {item.step}) = Cardinality(OpenEdges(d)) - 1
      BY <2>2, FS_RemoveElement
    <2>4. \A t \in Steps : inDegree[t] = Cardinality(OpenEdges(t))
      BY ItemFacts DEF RunInv, DegreesRight
    <2>5. \A t \in Steps : inDegree'[t] = IF t = d THEN inDegree[d] - 1 ELSE inDegree[t]
      BY ItemFacts
    <2>6. ASSUME NEW t \in Steps PROVE inDegree'[t] = Cardinality(OpenEdges(t)')
      <3>1. CASE t = d
        <4>1. OpenEdges(t)' = OpenEdges(d) \ {item.step}
          BY <1>2, <3>1
        <4> QED
          BY <2>3, <2>4, <2>5, <3>1, <4>1
      <3>2. CASE t # d
        <4>1. OpenEdges(t)' = OpenEdges(t)
          BY <1>2, <3>2
        <4> QED
          BY <2>4, <2>5, <3>2, <4>1
      <3> QED
        BY <3>1, <3>2
    <2> QED
      BY <2>6 DEF DegreesRight
  <1>4. FlagsTrue'
    <2>1. ASSUME NEW t \in Steps, hasFailedUpstream'[t]
          PROVE  \E u \in Upstream(job, t)' : u \in FinalSteps' /\ status'[u] # "completed"
      <3>1. PICK u \in Upstream(job, t) : u \in FinalSteps /\ status[u] # "completed"
        BY <2>1, ItemFacts DEF RunInv, FlagsTrue
      <3> QED
        BY <1>1, <3>1
    <2> QED
      BY <2>1 DEF FlagsTrue
  <1>5. FlagsWhole'
    <2>1. ASSUME NEW t \in Steps, NEW u \in Upstream(job, t) \ OpenEdges(t)', status'[u] # "completed"
          PROVE  hasFailedUpstream'[t]
      <3>1. CASE t = d /\ u = item.step
        BY <2>1, <3>1, ItemFacts
      <3>2. CASE ~(t = d /\ u = item.step)
        <4>1. u \in Upstream(job, t) \ OpenEdges(t)
          BY <1>2, <2>1, <3>2
        <4>2. u \in FinalSteps
          BY <4>1 DEF OpenEdges, Open
        <4>3. status[u] # "completed"
          BY <2>1, <4>2
        <4> QED
          BY <4>1, <4>3, ItemFacts DEF RunInv, FlagsWhole
      <3> QED
        BY <3>1, <3>2
    <2> QED
      BY <1>1, <2>1 DEF FlagsWhole
  <1>6. NoFlagYet'
    BY ItemFacts DEF NoFlagYet, ItemDone
  <1> QED
    BY <1>3, <1>4, <1>5, <1>6 DEF GraphPart

LEMMA FourParts ==
    KInv' /\ StillPart' /\ GraphPart' /\ LoopsRight' /\ WantsAreClear' /\ BeforeStart' /\ AfterOutcome'
      /\ DeferredAwait' /\ PendingListed' => RunInv'
  BY DEF RunInv, StillPart, GraphPart

(* The dependent is not ready, or has to wait for its session key.         *)
LEMMA DependentWaits ==
    ASSUME RunInv, KInv', NEW d \in Steps, ItemDone(d),
           UNCHANGED <<status, completed, queue, activeKeys, toLaunch>>,
           \/ ~isReady(d, inDegree'[d]) /\ deferred' = deferred
           \/ /\ isReady(d, inDegree'[d]) /\ ~mustSkip(d, hasFailedUpstream'[d])
              /\ deferred' = Append(deferred, d)
    PROVE  RunInv'
  <1> USE DEF procs, ending
  <1>1. /\ pc = "deps" /\ todo' = todo \ {d}
        /\ UNCHANGED <<job, ctx, attempt, failed, pc, item, scan, procs, ending, status, completed, queue, activeKeys, toLaunch>>
    BY DEF ItemDone
  <1>2. FinalSteps' = FinalSteps /\ \A t \in Steps : Clear(t)' = Clear(t)
    BY <1>1, SameFinal
  <1>3. \A t \in Steps : Outstanding'[t] = Outstanding[t] /\ Outstanding[t] \in Nat
    BY <1>1, Executions DEF Outstanding
  <1>4. StillPart'
    BY <1>1, <1>3, StillKeeps DEF Still, Going
  <1>5. GraphPart'
    BY <1>1, <1>2, ItemKeepsGraph
  <1>6. LoopsRight'
    BY <1>1, <1>2 DEF RunInv, LoopsRight, ItemRight, Queued, Dependents
  <1>7. /\ \A t : t # d => (Deferred(t)' <=> Deferred(t))
        /\ Deferred(d) => Deferred(d)'
        /\ isReady(d, inDegree'[d]) => Deferred(d)' /\ Clear(d)
        /\ ~isReady(d, inDegree'[d]) => (Deferred(d)' <=> Deferred(d))
    <2>1. CASE ~isReady(d, inDegree'[d]) /\ deferred' = deferred
      BY <2>1 DEF Deferred
    <2>2. CASE /\ isReady(d, inDegree'[d]) /\ ~mustSkip(d, hasFailedUpstream'[d])
               /\ deferred' = Append(deferred, d)
      <3>1. Clear(d)
        BY <2>2, LastEdge DEF isReady, mustSkip, Clear
      <3> QED
        BY <2>2, <3>1, DeferredMore
    <2> QED
      BY <2>1, <2>2
  <1>8. WantsAreClear'
    BY <1>1, <1>2, <1>3, <1>7 DEF RunInv, WantsAreClear, Wants, Scanned
  <1>9. BeforeStart' /\ AfterOutcome'
    BY <1>1, <1>2, <1>3 DEF RunInv, BeforeStart, AfterOutcome
  <1>10. DeferredAwait'
    BY <1>1 DEF DeferredAwait
  <1>11. PendingListed'
    <2>1. \A t \in Steps : inDegree'[t] = IF t = d THEN inDegree[d] - 1 ELSE inDegree[t]
      BY ItemFacts
    <2> QED
      BY <1>1, <1>7, <2>1 DEF RunInv, PendingListed, Scanned, Going, isReady
  <1> QED
    BY <1>4, <1>5, <1>6, <1>8, <1>9, <1>10, <1>11, FourParts

(* The dependent is launched.                                              *)
LEMMA DependentStarts ==
    ASSUME RunInv, KInv', NEW d \in Steps, ItemDone(d), UNCHANGED <<completed, queue, deferred>>,
           isReady(d, inDegree'[d]), ~mustSkip(d, hasFailedUpstream'[d]), Launch(d)
    PROVE  RunInv'
  <1> USE DEF procs, ending
  <1>1. /\ pc = "deps" /\ todo' = todo \ {d}
        /\ UNCHANGED <<job, ctx, attempt, failed, pc, item, scan, procs, ending, completed, queue, deferred>>
    BY DEF ItemDone
  <1>2. Clear(d) /\ status[d] = "pending"
    BY LastEdge DEF isReady, mustSkip, Clear
  <1>3. Launching(d)
    BY <1>1, <1>2 DEF Launching
  <1>4. LaunchPart'
    BY <1>3, LaunchKeeps
  <1>5. /\ \A t \in Steps : status'[t] = IF t = d THEN "running" ELSE status[t]
        /\ \A t \in Steps : Outstanding'[t] = IF t = d THEN 1 ELSE Outstanding[t]
        /\ FinalSteps' = FinalSteps /\ d \notin FinalSteps /\ \A t \in Steps : Clear(t)' = Clear(t)
    BY <1>3, LaunchFacts
  <1>6. GraphPart'
    BY <1>1, <1>5, FinalAre, ItemKeepsGraph
  <1>7. LoopsRight'
    <2>2. \A i \in 1 .. Len(queue) : ItemRight(queue[i])
      BY DEF RunInv, LoopsRight
    <2>3. \A i \in 1 .. Len(queue') : ItemRight(queue[i])'
      BY <1>1, <1>5, <2>2, FinalAre DEF ItemRight
    <2>4. ItemRight(item)'
      BY <1>1, <1>5, FinalAre DEF ItemRight, RunInv, LoopsRight
    <2> QED
      BY <1>1, <2>3, <2>4 DEF RunInv, LoopsRight, Queued, Dependents
  <1>8. WantsAreClear'
    BY <1>1, <1>2, <1>5 DEF RunInv, WantsAreClear, Wants, Deferred, Scanned
  <1>9. DeferredAwait'
    BY <1>1 DEF DeferredAwait
  <1>10. PendingListed'
    <2>1. \A t \in Steps : inDegree'[t] = IF t = d THEN inDegree[d] - 1 ELSE inDegree[t]
      BY ItemFacts
    <2> QED
      BY <1>1, <1>5, <2>1 DEF RunInv, PendingListed, Deferred, Scanned, Going
  <1> QED
    BY <1>4, <1>6, <1>7, <1>8, <1>9, <1>10, LaunchParts DEF GraphPart

(* The dependent is skipped: it is decided, counted, and a work item.      *)
LEMMA DependentSkipped ==
    ASSUME RunInv, KInv', NEW d \in Steps, ItemDone(d), isReady(d, inDegree'[d]),
           mustSkip(d, hasFailedUpstream'[d]), SkipReady(d)
    PROVE  RunInv'
  <1> USE DEF procs, ending, keys
  <1>1. /\ pc = "deps" /\ todo' = todo \ {d} /\ completed' = completed + 1 /\ status[d] = "pending"
        /\ queue' = Append(queue, [step |-> d, failed |-> TRUE])
        /\ UNCHANGED <<job, ctx, attempt, failed, pc, item, scan, procs, ending, keys, toLaunch>>
    BY DEF ItemDone, SkipReady, isReady
  <1>2. \A t \in Steps : status'[t] = IF t = d THEN "skipped" ELSE status[t]
    BY RunTypes DEF SkipReady
  <1>3. \A t \in Steps : Outstanding'[t] = Outstanding[t] /\ Outstanding[t] \in Nat
    BY <1>1, Executions DEF Outstanding
  <1>4. Outstanding[d] = 0 /\ retrying[d] = 0 /\ d \notin FinalSteps /\ ~Inherited(job, d)
    BY <1>1, Executions DEF RunInv, LeftAlone
  <1>5. FinalSteps' = FinalSteps \cup {d}
    BY <1>1, <1>2, <1>4 DEF FinalSteps, Final, SettledAs, Inherited
  <1>6. \A u \in FinalSteps : status'[u] = status[u]
    BY <1>2, <1>4, FinalAre
  <1>7. /\ Len(queue') = Len(queue) + 1 /\ Len(queue) \in Nat
        /\ \A i \in 1 .. Len(queue) : queue'[i] = queue[i]
        /\ queue'[Len(queue) + 1] = [step |-> d, failed |-> TRUE]
    <2>1. queue \in Seq(WorkItem) /\ [step |-> d, failed |-> TRUE] \in WorkItem
      BY RunTypes DEF WorkItem
    <2> QED
      BY <1>1, <2>1, ListAppend
  <1>8. \A u : Queued(u)' <=> (Queued(u) \/ u = d)
    <2>1. Queued(d)'
      BY <1>7 DEF Queued
    <2>2. ASSUME NEW u, Queued(u) PROVE Queued(u)'
      BY <1>7, <2>2 DEF Queued
    <2>3. ASSUME NEW u, Queued(u)', u # d PROVE Queued(u)
      <3>1. PICK i \in 1 .. Len(queue') : queue'[i].step = u
        BY <2>3 DEF Queued
      <3>2. i \in 1 .. Len(queue)
        BY <1>7, <2>3, <3>1
      <3> QED
        BY <1>7, <3>1, <3>2 DEF Queued
    <2> QED
      BY <2>1, <2>2, <2>3
  <1>9. GraphPart'
    BY <1>4, <1>5, <1>6, <1>8, ItemKeepsGraph
  <1>10. LoopsRight'
    <2>1. /\ \A i \in 1 .. Len(queue) : ItemRight(queue[i])
          /\ \A i, j \in 1 .. Len(queue) : queue[i].step = queue[j].step => i = j
          /\ ItemRight(item) /\ todo \subseteq Dependents(job, item.step) /\ ~Queued(item.step)
          /\ scan = <<>>
      BY <1>1 DEF RunInv, LoopsRight
    <2>2. ItemRight(item)' /\ ~Queued(item.step)'
      <3>1. item.step # d
        BY <1>4, <2>1 DEF ItemRight
      <3>2. ~Queued(item.step)'
        BY <1>1, <1>7, <2>1, <3>1 DEF Queued
      <3> QED
        BY <1>1, <1>5, <1>6, <2>1, <3>2 DEF ItemRight
    <2>3. \A i \in 1 .. Len(queue') : ItemRight(queue[i])'
      <3>1. ASSUME NEW i \in 1 .. Len(queue) PROVE ItemRight(queue[i])'
        BY <1>5, <1>6, <1>7, <2>1 DEF ItemRight
      <3>2. ASSUME NEW i, i = Len(queue) + 1 PROVE ItemRight(queue[i])'
        BY <1>2, <1>5, <1>7, <3>2 DEF ItemRight
      <3> QED
        BY <1>7, <3>1, <3>2
    <2>4. \A i, j \in 1 .. Len(queue') : queue'[i].step = queue'[j].step => i = j
      <3>1. \A i \in 1 .. Len(queue) : queue[i].step # d
        BY <1>4, <2>1 DEF ItemRight
      <3> QED
        BY <1>7, <2>1, <3>1
    <2> QED
      BY <1>1, <2>1, <2>2, <2>3, <2>4 DEF LoopsRight, Dependents
  <1>11. StillPart'
    <2>1. LeftAlone'
      BY <1>1, <1>2, <1>3 DEF RunInv, LeftAlone, Inherited, Going
    <2>2. RunningKeys'
      <3>1. Running' = Running
        BY <1>1, <1>2 DEF Running, Inherited
      <3> QED
        BY <1>1, <3>1 DEF RunInv, RunningKeys
    <2>3. CountRight'
      <3>1. FinalSteps \in SUBSET Steps
        BY FinalAre
      <3>2. IsFiniteSet(FinalSteps)
        BY <3>1, CountIsNat
      <3>3. Cardinality(FinalSteps \cup {d}) = Cardinality(FinalSteps) + 1
        BY <1>4, <3>2, FS_AddElement
      <3> QED
        BY <1>1, <1>5, <3>3 DEF RunInv, CountRight, Going
    <2>4. FailedWhole'
      <3>1. PICK u \in Upstream(job, d)' : u \in FinalSteps' /\ status'[u] # "completed"
        BY <1>9 DEF GraphPart, FlagsTrue, mustSkip
      <3>2. u \in FinalSteps \/ u = d
        BY <1>5, <3>1
      <3>3. failed
        <4>1. CASE u \in FinalSteps
          BY <1>6, <3>1, <4>1, ItemFacts DEF RunInv, FailedWhole
        <4>2. CASE u = d
          BY <1>1, <1>4, <4>2, <3>1, LastEdge DEF isReady, Upstream
        <4> QED
          BY <3>2, <4>1, <4>2
      <3> QED
        BY <1>1, <3>3 DEF FailedWhole
    <2>5. FailedTrue'
      BY <1>1, <1>5, <1>6 DEF RunInv, FailedTrue, CanRetry
    <2>6. KeysHeld'
      BY <1>1, <1>3 DEF RunInv, KeysHeld, Held
    <2> QED
      BY <2>1, <2>2, <2>3, <2>4, <2>5, <2>6 DEF StillPart
  <1>12. WantsAreClear'
    <2>1. \A t \in Steps : Clear(t) => Clear(t)'
      BY <1>1, <1>5, <1>6 DEF Clear, Upstream
    <2> QED
      BY <1>1, <1>2, <1>3, <2>1 DEF RunInv, WantsAreClear, Wants, Deferred, Scanned
  <1>13. BeforeStart' /\ AfterOutcome'
    BY <1>1 DEF RunInv, BeforeStart, AfterOutcome
  <1>14. DeferredAwait'
    BY <1>1 DEF DeferredAwait
  <1>15. PendingListed'
    <2>1. \A t \in Steps : inDegree'[t] = IF t = d THEN inDegree[d] - 1 ELSE inDegree[t]
      BY ItemFacts
    <2> QED
      BY <1>1, <1>2, <2>1 DEF RunInv, PendingListed, Deferred, Scanned, Going
  <1> QED
    BY <1>9, <1>10, <1>11, <1>12, <1>13, <1>14, <1>15, FourParts

LEMMA DependentKeeps == ASSUME RunInv, KInv', NEW d \in Steps, Dependent(d) PROVE RunInv'
  <1>1. ItemDone(d)
    BY DEF Dependent, ItemDone
  <1>2. \/ ~isReady(d, inDegree'[d]) /\ UNCHANGED <<status, completed, queue, keys, toLaunch>>
        \/ isReady(d, inDegree'[d]) /\ mustSkip(d, hasFailedUpstream'[d]) /\ SkipReady(d)
        \/ /\ isReady(d, inDegree'[d]) /\ ~mustSkip(d, hasFailedUpstream'[d]) /\ Launch(d)
           /\ UNCHANGED <<completed, queue, deferred>>
        \/ /\ isReady(d, inDegree'[d]) /\ ~mustSkip(d, hasFailedUpstream'[d]) /\ ~canLaunch(d)
           /\ deferred' = Append(deferred, d) /\ UNCHANGED <<status, completed, queue, activeKeys, toLaunch>>
    BY DEF Dependent
  <1> QED
    BY <1>1, <1>2, DependentWaits, DependentStarts, DependentSkipped DEF keys

(* The executor calls back while the context is live.                      *)
Answered(s) == /\ Callback(s) /\ ctx # "cancelled" /\ releaseSessionKey(s)
               /\ UNCHANGED <<job, graph, deferred, queue, scan, waiting, toLaunch>>

LEMMA AnsweredFacts ==
    ASSUME RunInv, NEW s \in Steps, Answered(s)
    PROVE  /\ pc = "idle" /\ ctx = "live" /\ Going /\ outcome = <<>> /\ queue = <<>> /\ scan = <<>>
           /\ status[s] = "running" /\ ~Inherited(job, s) /\ retrying[s] = 0 /\ s \notin FinalSteps
           /\ Outstanding[s] = 1 /\ Clear(s) /\ s \in Running
           /\ \A t \in Steps : Outstanding'[t] = IF t = s THEN 0 ELSE Outstanding[t]
           /\ activeKeys' = activeKeys \ {job.key[s]}
  <1>1. /\ executing[s] > 0 /\ pc = "idle" /\ ctx # "cancelled" /\ executing' = [executing EXCEPT ![s] = @ - 1]
        /\ waiting' = waiting /\ toLaunch' = toLaunch /\ activeKeys' = activeKeys \ {job.key[s]}
    BY DEF Answered, Callback, releaseSessionKey
  <1>2. Outstanding[s] = 1 /\ status[s] = "running" /\ ~Inherited(job, s) /\ retrying[s] = 0 /\ s \notin FinalSteps
    BY <1>1, Executions
  <1>3. ctx = "live" /\ Going
    BY <1>1, <1>2, RunTypes DEF RunInv, BeforeStart, Going
  <1>4. outcome = <<>> /\ queue = <<>> /\ scan = <<>>
    BY <1>1, <1>2, <1>3 DEF RunInv, AfterOutcome, LoopsRight
  <1>5. Clear(s)
    BY <1>2 DEF RunInv, WantsAreClear, Wants
  <1>6. \A t \in Steps : Outstanding'[t] = IF t = s THEN 0 ELSE Outstanding[t]
    <2>1. executing'[s] = executing[s] - 1 /\ \A t \in Steps : t # s => executing'[t] = executing[t]
      BY <1>1, ProcTypes
    <2>2. Outstanding'[s] = 0
      <3>1. Outstanding'[s] = Outstanding[s] - 1
        BY <1>1, <2>1, ProcTypes, OutstandingIs
      <3> QED
        BY <1>2, <3>1
    <2>3. \A t \in Steps : t # s => Outstanding'[t] = Outstanding[t]
      BY <1>1, <2>1, OutstandingIs
    <2> QED
      BY <2>2, <2>3
  <1> QED
    BY <1>1, <1>2, <1>3, <1>4, <1>5, <1>6 DEF Running

(* The key that is given back is nobody else's.                            *)
LEMMA ReleaseKeepsKeys ==
    ASSUME RunInv, NEW s \in Steps, Answered(s), Running' = Running \ {s}
    PROVE  RunningKeys' /\ KeysHeld'
  <1>1. KeySafe(job.key, Running \ {s}, activeKeys \ {job.key[s]})
    BY AnsweredFacts, KeyRelease DEF RunInv, RunningKeys
  <1>2. job' = job /\ activeKeys' = activeKeys \ {job.key[s]}
    BY AnsweredFacts DEF Answered
  <1>3. RunningKeys'
    BY <1>1, <1>2 DEF RunningKeys
  <1>4. KeysHeld'
    <2>1. ASSUME NEW key \in activeKeys' PROVE Held(key)'
      <3>1. key \in activeKeys /\ key # job.key[s] /\ ctx # "cancelled"
        BY <1>2, <2>1, AnsweredFacts
      <3>2. PICK t \in Steps : job.key[t] = key /\ Outstanding[t] > 0
        BY <3>1 DEF RunInv, KeysHeld, Held
      <3>3. Outstanding'[t] = Outstanding[t]
        BY <3>1, <3>2, AnsweredFacts
      <3> QED
        BY <1>2, <3>2, <3>3 DEF Held
    <2> QED
      BY <2>1 DEF KeysHeld
  <1> QED
    BY <1>3, <1>4

(* A step is decided, and its dependents are next.                         *)
LEMMA DecidedKeeps ==
    ASSUME RunInv, KInv', NEW s \in Steps, NEW f \in BOOLEAN, Answered(s), Propagate(s, f),
           status' = [status EXCEPT ![s] = IF f THEN "failed" ELSE "completed"],
           failed' = (failed \/ f), f => ~CanRetry(s), UNCHANGED <<ctx, attempt, retrying, outcome>>
    PROVE  RunInv'
  <1> USE DEF graph
  <1>1. /\ pc' = "deps" /\ completed' = completed + 1 /\ item' = [step |-> s, failed |-> f] /\ todo' = Dependents(job, s)
        /\ UNCHANGED <<job, ctx, attempt, retrying, outcome, graph, deferred, queue, scan>>
    BY DEF Propagate, Answered
  <1>2. \A t \in Steps : status'[t] = IF t = s THEN (IF f THEN "failed" ELSE "completed") ELSE status[t]
    BY RunTypes
  <1>3. /\ pc = "idle" /\ ctx = "live" /\ Going /\ outcome = <<>> /\ queue = <<>> /\ scan = <<>>
        /\ status[s] = "running" /\ ~Inherited(job, s) /\ retrying[s] = 0 /\ s \notin FinalSteps
        /\ \A t \in Steps : Outstanding'[t] = IF t = s THEN 0 ELSE Outstanding[t]
    BY AnsweredFacts
  <1>4. FinalSteps' = FinalSteps \cup {s}
    BY <1>1, <1>2, <1>3 DEF FinalSteps, Final, SettledAs, Inherited
  <1>5. \A u \in FinalSteps : status'[u] = status[u]
    BY <1>2, <1>3, FinalAre
  <1>6. \A t \in Steps : Clear(t) => Clear(t)'
    BY <1>1, <1>4, <1>5 DEF Clear, Upstream
  <1>7. Running' = Running \ {s}
    BY <1>1, <1>2 DEF Running, Inherited
  <1>8. \A t \in Steps : Upstream(job, t)' = Upstream(job, t) /\ Upstream(job, t) \subseteq Steps
    BY <1>1 DEF Upstream
  <1>9. \A t \in Steps : OpenEdges(t)' = OpenEdges(t)
    <2>1. \A u : ~Queued(u) /\ ~Queued(u)'
      BY <1>1, <1>3, EmptySeq DEF Queued
    <2>2. \A t \in Steps : \A u \in Upstream(job, t) : Open(t, u)' <=> Open(t, u)
      BY <1>1, <1>3, <1>4, <1>8, <2>1 DEF Open, AtHand, Upstream, Dependents
    <2> QED
      BY <1>8, <2>2 DEF OpenEdges
  <1>10. GraphPart'
    <2>1. DegreesRight'
      BY <1>1, <1>3, <1>9 DEF RunInv, DegreesRight
    <2>2. FlagsTrue'
      BY <1>1, <1>4, <1>5, <1>8 DEF RunInv, FlagsTrue
    <2>3. FlagsWhole'
      <3>1. \A t \in Steps : \A u \in Upstream(job, t) \ OpenEdges(t) : u \in FinalSteps
        BY DEF OpenEdges, Open
      <3> QED
        BY <1>1, <1>3, <1>5, <1>8, <1>9, <3>1 DEF RunInv, FlagsWhole
    <2>4. NoFlagYet'
      BY <1>1, <1>3 DEF NoFlagYet
    <2> QED
      BY <2>1, <2>2, <2>3, <2>4 DEF GraphPart
  <1>11. StillPart'
    <2>1. LeftAlone'
      BY <1>1, <1>2, <1>3 DEF RunInv, LeftAlone, Inherited
    <2>2. RunningKeys' /\ KeysHeld'
      BY <1>7, ReleaseKeepsKeys
    <2>3. CountRight'
      <3>1. FinalSteps \in SUBSET Steps
        BY FinalAre
      <3>2. IsFiniteSet(FinalSteps)
        BY <3>1, CountIsNat
      <3>3. Cardinality(FinalSteps \cup {s}) = Cardinality(FinalSteps) + 1
        BY <1>3, <3>2, FS_AddElement
      <3> QED
        BY <1>1, <1>3, <1>4, <3>3 DEF RunInv, CountRight
    <2>4. FailedWhole'
      BY <1>2, <1>3, <1>4, <1>5 DEF RunInv, FailedWhole
    <2>5. FailedTrue'
      <3>1. \A t \in Steps : CanRetry(t)' = CanRetry(t)
        BY <1>1 DEF CanRetry
      <3>2. CASE f
        BY <1>2, <1>4, <3>1, <3>2 DEF FailedTrue
      <3>3. CASE ~f /\ failed
        <4>1. PICK u \in FinalSteps : status[u] = "failed" /\ ~CanRetry(u)
          BY <3>3 DEF RunInv, FailedTrue
        <4> QED
          BY <1>4, <1>5, <3>1, <4>1, FinalAre DEF FailedTrue
      <3>4. CASE ~f /\ ~failed
        BY <3>4 DEF FailedTrue
      <3> QED
        BY <3>2, <3>3, <3>4
    <2> QED
      BY <2>1, <2>2, <2>3, <2>4, <2>5 DEF StillPart
  <1>12. LoopsRight'
    <2>1. Len(<<>>) = 0
      BY EmptySeq
    <2>2. ItemRight(item)'
      BY <1>1, <1>2, <1>4 DEF ItemRight
    <2> QED
      BY <1>1, <1>3, <2>1, <2>2 DEF LoopsRight, Queued
  <1>13. WantsAreClear'
    BY <1>1, <1>2, <1>3, <1>6 DEF RunInv, WantsAreClear, Wants, Deferred, Scanned
  <1>14. BeforeStart' /\ AfterOutcome'
    BY <1>1, <1>3 DEF RunInv, BeforeStart, AfterOutcome
  <1>15. DeferredAwait'
    BY <1>1 DEF DeferredAwait
  <1>16. PendingListed'
    BY <1>1, <1>2, <1>3 DEF RunInv, PendingListed, Deferred, Scanned
  <1> QED
    BY <1>10, <1>11, <1>12, <1>13, <1>14, <1>15, <1>16, FourParts

LEMMA StepSucceededKeeps == ASSUME RunInv, KInv', NEW s \in Steps, StepSucceeded(s) PROVE RunInv'
  <1>1. /\ Answered(s) /\ Propagate(s, FALSE) /\ status' = [status EXCEPT ![s] = "completed"]
        /\ UNCHANGED <<ctx, attempt, retrying, outcome>> /\ failed' = failed
    BY DEF StepSucceeded, Answered, Propagate, ending
  <1>2. failed' = (failed \/ FALSE)
    BY <1>1, RunTypes
  <1>3. status' = [status EXCEPT ![s] = IF FALSE THEN "failed" ELSE "completed"]
    BY <1>1
  <1> QED
    BY <1>1, <1>2, <1>3, DecidedKeeps

LEMMA StepFailedKeeps == ASSUME RunInv, KInv', NEW s \in Steps, StepFailed(s) PROVE RunInv'
  <1>1. /\ Answered(s) /\ Propagate(s, TRUE) /\ status' = [status EXCEPT ![s] = "failed"] /\ ~CanRetry(s)
        /\ UNCHANGED <<ctx, attempt, retrying, outcome>> /\ failed' = TRUE
    BY DEF StepFailed, Answered, Propagate, ending
  <1>2. failed' = (failed \/ TRUE)
    BY <1>1, RunTypes
  <1>3. status' = [status EXCEPT ![s] = IF TRUE THEN "failed" ELSE "completed"]
    BY <1>1
  <1> QED
    BY <1>1, <1>2, <1>3, DecidedKeeps

(* A failure with attempts left: nothing is decided yet, and who waits for *)
(* the key now waits for the retry.                                        *)
LEMMA StepRetriedKeeps == ASSUME RunInv, KInv', NEW s \in Steps, StepRetried(s) PROVE RunInv'
  <1> USE DEF graph, loops
  <1>1. /\ Answered(s) /\ UNCHANGED <<job, ctx, graph, completed, failed, deferred, loops, waiting, outcome>>
        /\ status' = [status EXCEPT ![s] = "failed"] /\ attempt' = [attempt EXCEPT ![s] = @ + 1]
        /\ retrying' = [retrying EXCEPT ![s] = @ + 1]
    BY DEF StepRetried, Answered, ending
  <1>2. /\ \A t \in Steps : status'[t] = IF t = s THEN "failed" ELSE status[t]
        /\ \A t \in Steps : t # s => attempt'[t] = attempt[t]
        /\ \A t \in Steps : retrying'[t] = IF t = s THEN retrying[s] + 1 ELSE retrying[t]
    BY <1>1, RunTypes
  <1>3. /\ pc = "idle" /\ ctx = "live" /\ Going /\ outcome = <<>> /\ queue = <<>> /\ scan = <<>>
        /\ status[s] = "running" /\ ~Inherited(job, s) /\ retrying[s] = 0 /\ s \notin FinalSteps /\ Clear(s)
        /\ \A t \in Steps : Outstanding'[t] = IF t = s THEN 0 ELSE Outstanding[t]
    BY <1>1, AnsweredFacts
  <1>4. FinalSteps' = FinalSteps
    BY <1>1, <1>2, <1>3 DEF FinalSteps, Final, SettledAs, Inherited
  <1>5. \A u \in FinalSteps : status'[u] = status[u] /\ CanRetry(u)' = CanRetry(u)
    BY <1>1, <1>2, <1>3, FinalAre DEF CanRetry
  <1>6. \A t \in Steps : Clear(t) => Clear(t)'
    BY <1>1, <1>4, <1>5 DEF Clear, Upstream
  <1>7. Running' = Running \ {s}
    BY <1>1, <1>2 DEF Running, Inherited
  <1>8. \A t \in Steps : Upstream(job, t)' = Upstream(job, t) /\ Upstream(job, t) \subseteq Steps
    BY <1>1 DEF Upstream
  <1>9. \A t \in Steps : OpenEdges(t)' = OpenEdges(t)
    BY <1>1, <1>4, <1>8 DEF OpenEdges, Open, Queued, AtHand
  <1>10. GraphPart'
    <2>1. DegreesRight'
      BY <1>1, <1>3, <1>9 DEF RunInv, DegreesRight
    <2>2. FlagsTrue'
      BY <1>1, <1>4, <1>5, <1>8 DEF RunInv, FlagsTrue
    <2>3. FlagsWhole'
      <3>1. \A t \in Steps : \A u \in Upstream(job, t) \ OpenEdges(t) : u \in FinalSteps
        BY DEF OpenEdges, Open
      <3> QED
        BY <1>1, <1>3, <1>5, <1>8, <1>9, <3>1 DEF RunInv, FlagsWhole
    <2>4. NoFlagYet'
      BY <1>1, <1>3 DEF NoFlagYet
    <2> QED
      BY <2>1, <2>2, <2>3, <2>4 DEF GraphPart
  <1>11. StillPart'
    <2>1. LeftAlone'
      BY <1>1, <1>2, <1>3 DEF RunInv, LeftAlone, Inherited, Going
    <2>2. RunningKeys' /\ KeysHeld'
      BY <1>1, <1>7, ReleaseKeepsKeys
    <2>3. CountRight' /\ FailedWhole' /\ FailedTrue'
      BY <1>1, <1>3, <1>4, <1>5 DEF RunInv, CountRight, FailedWhole, FailedTrue
    <2> QED
      BY <2>1, <2>2, <2>3 DEF StillPart
  <1>12. LoopsRight'
    <2>1. Len(<<>>) = 0
      BY EmptySeq
    <2> QED
      BY <1>1, <1>3, <2>1 DEF LoopsRight
  <1>13. WantsAreClear'
    BY <1>1, <1>2, <1>3, <1>6 DEF RunInv, WantsAreClear, Wants, Deferred, Scanned
  <1>14. BeforeStart' /\ AfterOutcome'
    BY <1>1, <1>3 DEF RunInv, BeforeStart, AfterOutcome
  <1>15. DeferredAwait'
    <2>1. ASSUME NEW t \in Steps, Awaited(t), t # s PROVE Awaited(t)'
      <3>1. PICK u \in Steps \ {t} : job.key[u] = job.key[t] /\ Outstanding[u] + retrying[u] > 0
        BY <2>1 DEF Awaited
      <3>2. Outstanding'[u] + retrying'[u] > 0
        BY <1>2, <1>3, <3>1
      <3> QED
        BY <1>1, <3>1, <3>2 DEF Awaited
    <2> QED
      BY <1>1, <1>2, <1>3, <2>1 DEF RunInv, DeferredAwait, Deferred
  <1>16. PendingListed'
    BY <1>1, <1>2, <1>3 DEF RunInv, PendingListed, Deferred, Scanned
  <1> QED
    BY <1>10, <1>11, <1>12, <1>13, <1>14, <1>15, <1>16, FourParts

(* A failure that ends the run: the other steps are skipped or cancelled,  *)
(* and what was decided stays decided.                                     *)
LEMMA StepFailedRunKeeps == ASSUME RunInv, KInv', NEW s \in Steps, StepFailedRun(s) PROVE RunInv'
  <1> USE DEF graph, loops
  <1>1. /\ Answered(s) /\ ~CanRetry(s) /\ failed' = TRUE /\ ctx' = "cancelled" /\ outcome' = Append(outcome, "failed")
        /\ UNCHANGED <<job, attempt, graph, completed, deferred, loops, waiting, retrying>>
        /\ \A t \in Steps : status'[t] = CASE t = s -> "failed"
                                           [] t # s /\ status[t] = "pending" -> "skipped"
                                           [] t # s /\ status[t] = "running" -> "cancelled"
                                           [] OTHER -> status[t]
    BY DEF StepFailedRun, Answered
  <1>2. /\ pc = "idle" /\ outcome = <<>> /\ queue = <<>> /\ scan = <<>>
        /\ status[s] = "running" /\ ~Inherited(job, s) /\ retrying[s] = 0 /\ s \notin FinalSteps /\ Clear(s)
        /\ \A t \in Steps : Outstanding'[t] = IF t = s THEN 0 ELSE Outstanding[t]
    BY <1>1, AnsweredFacts
  <1>3. /\ status'[s] = "failed" /\ \A t \in Steps : status'[t] \notin {"pending", "running"}
        /\ \A t \in Steps : status[t] \in {"completed", "failed", "skipped"} => status'[t] = status[t]
    BY <1>1, <1>2
  <1>4. ~Going'
    BY <1>1, <1>2 DEF Going
  <1>5. \A u \in FinalSteps : u \in FinalSteps' /\ status'[u] = status[u]
    BY <1>1, <1>3, FinalAre DEF FinalSteps, Final, SettledAs, Inherited
  <1>6. s \in FinalSteps'
    BY <1>1, <1>2, <1>3 DEF FinalSteps, Final, SettledAs, Inherited
  <1>7. \A t \in Steps : Clear(t) => Clear(t)'
    BY <1>1, <1>5 DEF Clear, Upstream
  <1>8. GraphPart'
    <2>1. FlagsTrue'
      BY <1>1, <1>5 DEF RunInv, FlagsTrue, Upstream
    <2>2. NoFlagYet'
      BY <1>1, <1>2 DEF NoFlagYet
    <2> QED
      BY <1>4, <2>1, <2>2 DEF GraphPart, DegreesRight, FlagsWhole
  <1>9. StillPart'
    <2>1. LeftAlone'
      BY <1>1, <1>2, <1>3, <1>4 DEF RunInv, LeftAlone, Inherited
    <2>2. RunningKeys'
      <3>1. Running' = {}
        BY <1>3 DEF Running
      <3> QED
        BY <3>1 DEF RunningKeys, KeySafe
    <2>3. CountRight' /\ FailedWhole' /\ KeysHeld'
      BY <1>1, <1>4 DEF CountRight, FailedWhole, KeysHeld
    <2>4. FailedTrue'
      BY <1>1, <1>3, <1>6 DEF FailedTrue, CanRetry
    <2> QED
      BY <2>1, <2>2, <2>3, <2>4 DEF StillPart
  <1>10. LoopsRight'
    <2>1. Len(<<>>) = 0
      BY EmptySeq
    <2> QED
      BY <1>1, <1>2, <2>1 DEF LoopsRight
  <1>11. WantsAreClear'
    BY <1>1, <1>2, <1>3, <1>7 DEF RunInv, WantsAreClear, Wants
  <1>12. BeforeStart'
    BY <1>1 DEF BeforeStart
  <1>13. AfterOutcome'
    <2>1. outcome' = <<"failed">>
      BY <1>1, <1>2
    <2> QED
      BY <1>1, <1>2, <2>1 DEF AfterOutcome
  <1>14. DeferredAwait' /\ PendingListed'
    BY <1>1, <1>4 DEF DeferredAwait, PendingListed
  <1> QED
    BY <1>8, <1>9, <1>10, <1>11, <1>12, <1>13, <1>14, FourParts

(* A retry goroutine gets the mutex.                                       *)
Fired(s) == /\ retrying[s] > 0 /\ pc = "idle" /\ retrying' = [retrying EXCEPT ![s] = @ - 1]
            /\ UNCHANGED <<job, ctx, attempt, graph, completed, failed, loops, waiting, outcome>>

LEMMA FiredFacts ==
    ASSUME RunInv, NEW s \in Steps, Fired(s)
    PROVE  /\ status[s] = "failed" /\ ~Inherited(job, s) /\ s \notin FinalSteps /\ Clear(s)
           /\ Outstanding[s] = 0 /\ retrying[s] = 1 /\ ctx # "nil" /\ queue = <<>> /\ scan = <<>>
           /\ \A t \in Steps : retrying'[t] = IF t = s THEN 0 ELSE retrying[t]
           /\ ctx # "cancelled" => outcome = <<>> /\ Going
  <1>1. /\ status[s] = "failed" /\ ~Inherited(job, s) /\ s \notin FinalSteps /\ Outstanding[s] = 0 /\ retrying[s] = 1
    BY Executions DEF Fired
  <1>2. Clear(s) /\ ctx # "nil"
    BY <1>1 DEF RunInv, WantsAreClear, Wants, BeforeStart
  <1>3. queue = <<>> /\ scan = <<>>
    BY DEF RunInv, LoopsRight, Fired
  <1>4. \A t \in Steps : retrying'[t] = IF t = s THEN 0 ELSE retrying[t]
    BY <1>1, RunTypes DEF Fired
  <1>5. ctx # "cancelled" => outcome = <<>> /\ Going
    BY <1>1 DEF RunInv, AfterOutcome, Going
  <1> QED
    BY <1>1, <1>2, <1>3, <1>4, <1>5

(* The run was given up: the step stays failed, and nothing else happens.  *)
LEMMA RetryDropped ==
    ASSUME RunInv, KInv', NEW s \in Steps, Fired(s), ctx = "cancelled", UNCHANGED <<status, keys, executing>>
    PROVE  RunInv'
  <1> USE DEF graph, loops, keys
  <1>1. /\ pc = "idle" /\ UNCHANGED <<job, ctx, attempt, graph, completed, failed, loops, waiting, outcome, status, keys, executing>>
    BY DEF Fired
  <1>2. /\ status[s] = "failed" /\ ~Inherited(job, s) /\ retrying[s] = 1
        /\ \A t \in Steps : retrying'[t] = IF t = s THEN 0 ELSE retrying[t]
    BY FiredFacts
  <1>3. ~Going'
    BY <1>1 DEF Going
  <1>4. FinalSteps \subseteq FinalSteps'
    BY <1>1, <1>2 DEF FinalSteps, Final, SettledAs
  <1>5. \A t \in Steps : Clear(t) => Clear(t)'
    BY <1>1, <1>4 DEF Clear
  <1>6. \A t \in Steps : Outstanding'[t] = Outstanding[t]
    BY <1>1 DEF Outstanding
  <1>7. GraphPart'
    <2>1. FlagsTrue'
      BY <1>1, <1>4 DEF RunInv, FlagsTrue
    <2>2. NoFlagYet'
      BY <1>1 DEF NoFlagYet
    <2> QED
      BY <1>3, <2>1, <2>2 DEF GraphPart, DegreesRight, FlagsWhole
  <1>8. StillPart'
    <2>1. LeftAlone'
      BY <1>1, <1>2, <1>3, <1>6 DEF RunInv, LeftAlone
    <2>2. RunningKeys'
      BY <1>1 DEF RunInv, RunningKeys, Running
    <2>3. CountRight' /\ FailedWhole' /\ KeysHeld'
      BY <1>1, <1>3 DEF CountRight, FailedWhole, KeysHeld
    <2>4. FailedTrue'
      BY <1>1, <1>4 DEF RunInv, FailedTrue, CanRetry
    <2> QED
      BY <2>1, <2>2, <2>3, <2>4 DEF StillPart
  <1>9. LoopsRight'
    <2>1. Len(<<>>) = 0 /\ queue = <<>> /\ scan = <<>>
      BY EmptySeq, FiredFacts
    <2> QED
      BY <1>1, <2>1 DEF LoopsRight
  <1>10. WantsAreClear'
    BY <1>1, <1>2, <1>5, <1>6 DEF RunInv, WantsAreClear, Wants, Deferred, Scanned
  <1>11. BeforeStart' /\ AfterOutcome'
    BY <1>1 DEF RunInv, BeforeStart, AfterOutcome
  <1>12. DeferredAwait' /\ PendingListed'
    BY <1>1, <1>3 DEF DeferredAwait, PendingListed
  <1> QED
    BY <1>7, <1>8, <1>9, <1>10, <1>11, <1>12, FourParts

(* The retry runs, or waits for its key: decided steps stay as they are.   *)
RetryPart == /\ GraphPart /\ CountRight /\ FailedWhole /\ FailedTrue /\ LoopsRight /\ BeforeStart /\ AfterOutcome

LEMMA RetryKeeps ==
    ASSUME RunInv, NEW s \in Steps, Fired(s), ctx # "cancelled", NEW v \in {"pending", "running"},
           status' = [status EXCEPT ![s] = v]
    PROVE  /\ RetryPart' /\ \A t \in Steps : status'[t] = IF t = s THEN v ELSE status[t]
           /\ \A t \in Steps : Clear(t) => Clear(t)'
  <1> USE DEF graph, loops
  <1>1. /\ pc = "idle" /\ UNCHANGED <<job, ctx, attempt, graph, completed, failed, loops, waiting, outcome>>
    BY DEF Fired
  <1>2. \A t \in Steps : status'[t] = IF t = s THEN v ELSE status[t]
    BY RunTypes
  <1>3. /\ status[s] = "failed" /\ retrying[s] = 1 /\ s \notin FinalSteps /\ ctx # "nil"
        /\ \A t \in Steps : retrying'[t] = IF t = s THEN 0 ELSE retrying[t]
        /\ outcome = <<>> /\ Going /\ queue = <<>> /\ scan = <<>>
    BY FiredFacts
  <1>4. FinalSteps' = FinalSteps
    BY <1>1, <1>2, <1>3 DEF FinalSteps, Final, SettledAs
  <1>5. \A u \in FinalSteps : status'[u] = status[u]
    BY <1>2, <1>3, FinalAre
  <1>6. \A t \in Steps : Clear(t) => Clear(t)'
    BY <1>1, <1>4, <1>5 DEF Clear, Upstream
  <1>7. \A t \in Steps : Upstream(job, t)' = Upstream(job, t) /\ Upstream(job, t) \subseteq Steps
    BY <1>1 DEF Upstream
  <1>8. \A t \in Steps : OpenEdges(t)' = OpenEdges(t)
    BY <1>1, <1>4, <1>7 DEF OpenEdges, Open, Queued, AtHand
  <1>9. GraphPart'
    <2>1. DegreesRight'
      BY <1>1, <1>3, <1>8 DEF RunInv, DegreesRight
    <2>2. FlagsTrue'
      BY <1>1, <1>4, <1>5, <1>7 DEF RunInv, FlagsTrue
    <2>3. FlagsWhole'
      <3>1. \A t \in Steps : \A u \in Upstream(job, t) \ OpenEdges(t) : u \in FinalSteps
        BY DEF OpenEdges, Open
      <3> QED
        BY <1>1, <1>3, <1>5, <1>7, <1>8, <3>1 DEF RunInv, FlagsWhole
    <2>4. NoFlagYet'
      BY <1>1, <1>3 DEF NoFlagYet
    <2> QED
      BY <2>1, <2>2, <2>3, <2>4 DEF GraphPart
  <1>10. CountRight' /\ FailedWhole' /\ FailedTrue'
    BY <1>1, <1>3, <1>4, <1>5 DEF RunInv, CountRight, FailedWhole, FailedTrue, CanRetry
  <1>11. LoopsRight'
    <2>1. Len(<<>>) = 0
      BY EmptySeq
    <2> QED
      BY <1>1, <1>3, <2>1 DEF LoopsRight
  <1>12. BeforeStart' /\ AfterOutcome'
    BY <1>1, <1>3 DEF RunInv, BeforeStart, AfterOutcome
  <1> QED
    BY <1>2, <1>6, <1>9, <1>10, <1>11, <1>12 DEF RetryPart

LEMMA FiveParts ==
    KInv' /\ RetryPart' /\ LeftAlone' /\ RunningKeys' /\ WantsAreClear' /\ KeysHeld'
      /\ DeferredAwait' /\ PendingListed' => RunInv'
  BY DEF RunInv, RetryPart, GraphPart

LEMMA RetryPutOff ==
    ASSUME RunInv, KInv', NEW s \in Steps, Fired(s), ctx # "cancelled", ~canLaunch(s),
           status' = [status EXCEPT ![s] = "pending"], deferred' = Append(deferred, s),
           UNCHANGED <<activeKeys, executing>>
    PROVE  RunInv'
  <1> USE DEF graph, loops
  <1>1. /\ pc = "idle" /\ UNCHANGED <<job, ctx, attempt, graph, completed, failed, loops, waiting, outcome, activeKeys, executing>>
    BY DEF Fired
  <1>2. /\ RetryPart' /\ \A t \in Steps : status'[t] = IF t = s THEN "pending" ELSE status[t]
        /\ \A t \in Steps : Clear(t) => Clear(t)'
    BY RetryKeeps
  <1>3. /\ status[s] = "failed" /\ Outstanding[s] = 0 /\ retrying[s] = 1 /\ ~Inherited(job, s) /\ Clear(s)
        /\ \A t \in Steps : retrying'[t] = IF t = s THEN 0 ELSE retrying[t]
        /\ Going /\ ctx # "nil"
    BY FiredFacts
  <1>4. \A t \in Steps : Outstanding'[t] = Outstanding[t]
    BY <1>1 DEF Outstanding
  <1>5. \A t : Deferred(t)' <=> (Deferred(t) \/ t = s)
    BY DeferredMore
  <1>6. LeftAlone'
    BY <1>1, <1>2, <1>3, <1>4 DEF RunInv, LeftAlone, Inherited, Going
  <1>7. RunningKeys'
    <2>1. Running' = Running
      BY <1>1, <1>2, <1>3 DEF Running, Inherited
    <2> QED
      BY <1>1, <2>1 DEF RunInv, RunningKeys
  <1>8. WantsAreClear'
    BY <1>1, <1>2, <1>3, <1>4, <1>5 DEF RunInv, WantsAreClear, Wants, Scanned
  <1>9. KeysHeld'
    BY <1>1, <1>4 DEF RunInv, KeysHeld, Held
  <1>10. DeferredAwait'
    <2>1. PICK b \in Steps \ {s} : job.key[b] = job.key[s] /\ Outstanding[b] > 0
      BY <1>3, BlockedIsAwaited
    <2>2. Outstanding'[b] + retrying'[b] > 0
      BY <1>3, <1>4, <2>1, Executions
    <2>3. Awaited(s)'
      BY <1>1, <2>1, <2>2 DEF Awaited
    <2>4. ASSUME NEW t \in Steps, t # s, status[t] = "pending", Awaited(t) PROVE Awaited(t)'
      <3>1. PICK u \in Steps \ {t} : job.key[u] = job.key[t] /\ Outstanding[u] + retrying[u] > 0
        BY <2>4 DEF Awaited
      <3>2. CASE u = s
        <4>1. b # t
          BY <2>1, <2>4, Executions
        <4> QED
          BY <1>1, <2>1, <2>2, <3>1, <3>2, <4>1 DEF Awaited
      <3>3. CASE u # s
        BY <1>1, <1>3, <1>4, <3>1, <3>3 DEF Awaited
      <3> QED
        BY <3>2, <3>3
    <2> QED
      BY <1>1, <1>2, <1>5, <2>3, <2>4 DEF RunInv, DeferredAwait
  <1>11. PendingListed'
    BY <1>1, <1>2, <1>3, <1>5 DEF RunInv, PendingListed, Scanned
  <1> QED
    BY <1>2, <1>6, <1>7, <1>8, <1>9, <1>10, <1>11, FiveParts

LEMMA RetryRuns ==
    ASSUME RunInv, KInv', NEW s \in Steps, Fired(s), ctx # "cancelled", canLaunch(s), claimSessionKey(s),
           status' = [status EXCEPT ![s] = "running"], executing' = [executing EXCEPT ![s] = @ + 1],
           UNCHANGED deferred
    PROVE  RunInv'
  <1> USE DEF graph, loops
  <1>1. /\ pc = "idle" /\ UNCHANGED <<job, ctx, attempt, graph, completed, failed, loops, waiting, outcome, deferred>>
    BY DEF Fired
  <1>2. /\ RetryPart' /\ \A t \in Steps : status'[t] = IF t = s THEN "running" ELSE status[t]
        /\ \A t \in Steps : Clear(t) => Clear(t)'
    BY RetryKeeps
  <1>3. /\ status[s] = "failed" /\ Outstanding[s] = 0 /\ retrying[s] = 1 /\ ~Inherited(job, s) /\ Clear(s)
        /\ \A t \in Steps : retrying'[t] = IF t = s THEN 0 ELSE retrying[t]
        /\ Going /\ ctx # "nil"
    BY FiredFacts
  <1>4. \A t \in Steps : Outstanding'[t] = IF t = s THEN 1 ELSE Outstanding[t]
    <2>1. executing'[s] = executing[s] + 1 /\ \A t \in Steps : t # s => executing'[t] = executing[t]
      BY ProcTypes
    <2>2. Outstanding'[s] = Outstanding[s] + 1
      BY <1>1, <2>1, ProcTypes, OutstandingIs
    <2>3. \A t \in Steps : t # s => Outstanding'[t] = Outstanding[t]
      BY <1>1, <2>1, OutstandingIs
    <2> QED
      BY <1>3, <2>2, <2>3
  <1>5. activeKeys' = activeKeys \cup ({job.key[s]} \ {NoKey}) /\ (job.key[s] = NoKey \/ job.key[s] \notin activeKeys)
    BY DEF canLaunch, claimSessionKey
  <1>6. LeftAlone'
    BY <1>1, <1>2, <1>3, <1>4 DEF RunInv, LeftAlone, Inherited, Going
  <1>7. RunningKeys'
    <2>1. Running' = Running \cup {s}
      BY <1>1, <1>2, <1>3 DEF Running, Inherited
    <2>2. KeySafe(job.key, Running \cup {s}, activeKeys \cup ({job.key[s]} \ {NoKey}))
      BY <1>5, KeyClaim DEF RunInv, RunningKeys
    <2> QED
      BY <1>1, <1>5, <2>1, <2>2 DEF RunningKeys
  <1>8. WantsAreClear'
    BY <1>1, <1>2, <1>3, <1>4 DEF RunInv, WantsAreClear, Wants, Deferred, Scanned
  <1>9. KeysHeld'
    BY <1>1, <1>4, <1>5 DEF RunInv, KeysHeld, Held
  <1>10. DeferredAwait'
    <2>1. ASSUME NEW t \in Steps, Awaited(t) PROVE Awaited(t)'
      <3>1. PICK u \in Steps \ {t} : job.key[u] = job.key[t] /\ Outstanding[u] + retrying[u] > 0
        BY <2>1 DEF Awaited
      <3>2. Outstanding'[u] + retrying'[u] > 0
        BY <1>3, <1>4, <3>1
      <3> QED
        BY <1>1, <3>1, <3>2 DEF Awaited
    <2> QED
      BY <1>1, <1>2, <2>1 DEF RunInv, DeferredAwait, Deferred
  <1>11. PendingListed'
    BY <1>1, <1>2, <1>3 DEF RunInv, PendingListed, Deferred, Scanned
  <1> QED
    BY <1>2, <1>6, <1>7, <1>8, <1>9, <1>10, <1>11, FiveParts

LEMMA RetryFiresKeeps == ASSUME RunInv, KInv', NEW s \in Steps, RetryFires(s) PROVE RunInv'
  <1>1. Fired(s)
    BY DEF RetryFires, Fired, ending
  <1> QED
    BY <1>1, RetryDropped, RetryPutOff, RetryRuns DEF RetryFires

LEMMA RunInvInit == Init => RunInv
  <1> SUFFICES ASSUME Init PROVE RunInv
    OBVIOUS
  <1>1. /\ job \in Jobs /\ ctx = "nil" /\ status = job.prior /\ failed = FALSE /\ activeKeys = {} /\ pc = "idle"
        /\ queue = <<>> /\ scan = <<>> /\ deferred = <<>> /\ outcome = <<>> /\ toLaunch = {}
        /\ hasFailedUpstream = [s \in Steps |-> FALSE]
        /\ completed = Cardinality({s \in Steps : job.prior[s] = "completed"})
        /\ inDegree = [s \in Steps |-> Cardinality({u \in Upstream(job, s) : job.prior[u] # "completed"})]
    BY DEF Init
  <1>2. Len(<<>>) = 0
    BY EmptySeq
  <1>3. \A s \in Steps : Outstanding[s] = 0 /\ retrying[s] = 0
    BY DEF Init, Outstanding
  <1>4. FinalSteps = {s \in Steps : job.prior[s] = "completed"}
    BY <1>1, <1>3 DEF FinalSteps, Final, SettledAs, Inherited
  <1>5. \A s \in Steps : OpenEdges(s) = {u \in Upstream(job, s) : job.prior[u] # "completed"}
    BY <1>1, <1>2, <1>4 DEF OpenEdges, Open, Queued, AtHand, Upstream
  <1>6. LeftAlone
    BY <1>1, <1>3 DEF LeftAlone, Inherited
  <1>7. RunningKeys
    <2>1. Running = {}
      BY <1>1 DEF Running, Inherited
    <2> QED
      BY <2>1 DEF RunningKeys, KeySafe
  <1>8. LoopsRight
    BY <1>1, <1>2 DEF LoopsRight
  <1>9. DegreesRight /\ CountRight
    BY <1>1, <1>4, <1>5 DEF DegreesRight, CountRight
  <1>10. FlagsTrue /\ NoFlagYet
    BY <1>1 DEF FlagsTrue, NoFlagYet
  <1>11. FlagsWhole /\ FailedWhole /\ FailedTrue
    BY <1>1, <1>4, <1>5 DEF FlagsWhole, FailedWhole, FailedTrue
  <1>12. WantsAreClear
    BY <1>1, <1>2, <1>3 DEF WantsAreClear, Wants, Deferred, Scanned
  <1>13. BeforeStart /\ AfterOutcome
    BY <1>1, <1>2, <1>3 DEF BeforeStart, AfterOutcome
  <1>14. KeysHeld /\ PendingListed
    BY <1>1 DEF KeysHeld, PendingListed
  <1>15. DeferredAwait
    BY <1>1, <1>2 DEF DeferredAwait, Deferred
  <1> QED
    BY <1>6, <1>7, <1>8, <1>9, <1>10, <1>11, <1>12, <1>13, <1>14, <1>15, KInvInit DEF RunInv

LEMMA RunInvNext == RunInv /\ [Next]_vars => RunInv'
  <1> SUFFICES ASSUME RunInv, [Next]_vars PROVE RunInv'
    OBVIOUS
  <1>1. KInv'
    BY KInvNext DEF RunInv
  <1>2. CASE UNCHANGED vars
    BY <1>1, <1>2, Idle
  <1>3. CASE RunAction
    BY <1>1, <1>3, StartKeeps, StartUnlockKeeps, NextItemKeeps, BeginDeferredKeeps, DeferredStepKeeps,
       FinishRunKeeps, ContinueRunKeeps, CancelKeeps DEF RunAction
  <1>4. ASSUME NEW s \in Steps, StepAction(s) PROVE RunInv'
    BY <1>1, <1>4, StartRootKeeps, ExecuteStepKeeps, DelayCancelledKeeps, CompletionIgnoredKeeps,
       StepSucceededKeeps, StepRetriedKeeps, StepFailedRunKeeps, StepFailedKeeps, DependentKeeps,
       RetryFiresKeeps DEF StepAction
  <1> QED
    BY <1>2, <1>3, <1>4 DEF Next

LEMMA RunInvariant == Spec => []RunInv
  BY RunInvInit, RunInvNext, PTL DEF Spec

(* What the invariant says of the scheduling rules.                        *)
LEMMA RunInvSchedules ==
    RunInv => StartsAfterUpstream /\ DeferredNeverSkipped /\ NoLostWakeup /\ OutcomeSound
  <1> SUFFICES ASSUME RunInv PROVE StartsAfterUpstream /\ DeferredNeverSkipped /\ NoLostWakeup /\ OutcomeSound
    OBVIOUS
  <1>1. \A s \in Steps : Final(s) <=> s \in FinalSteps
    BY DEF FinalSteps
  <1>2. \A s \in Steps : Upstream(job, s) \subseteq Steps
    BY DEF Upstream
  <1>3. StartsAfterUpstream
    BY <1>1, <1>2 DEF StartsAfterUpstream, RunInv, WantsAreClear, Wants, Clear
  <1>4. DeferredNeverSkipped
    <2>1. ASSUME NEW i \in DOMAIN deferred, status[deferred[i]] = "pending", hasFailedUpstream[deferred[i]]
          PROVE  job.runIf[deferred[i]] = "all_done"
      <3>1. deferred \in Seq(Steps)
        BY RunTypes
      <3>2. i \in 1 .. Len(deferred) /\ deferred[i] \in Steps
        BY <2>1, <3>1
      <3>3. Clear(deferred[i])
        BY <2>1, <3>2 DEF RunInv, WantsAreClear, Wants, Deferred
      <3> QED
        BY <2>1, <3>2, <3>3 DEF RunInv, FlagsTrue, Clear
    <2> QED
      BY <2>1 DEF DeferredNeverSkipped
  <1>5. NoLostWakeup
    <2>1. ASSUME ctx = "live", pc = "idle", NEW s \in Steps, status[s] = "pending",
                 \A u \in Upstream(job, s) : Final(u)
          PROVE  /\ \E i \in DOMAIN deferred : deferred[i] = s
                 /\ \E t \in Steps \ {s} : job.key[t] = job.key[s] /\ Outstanding[t] + retrying[t] > 0
      <3>1. queue = <<>> /\ scan = <<>> /\ Going
        BY <2>1 DEF RunInv, LoopsRight, Going
      <3>2. Len(<<>>) = 0
        BY EmptySeq
      <3>3. OpenEdges(s) = {}
        BY <1>1, <1>2, <2>1, <3>1, <3>2 DEF OpenEdges, Open, Queued, AtHand
      <3>4. inDegree[s] = 0
        BY <3>1, <3>3, FS_EmptySet DEF RunInv, DegreesRight
      <3>5. Deferred(s)
        BY <2>1, <3>1, <3>2, <3>4 DEF RunInv, PendingListed, Scanned
      <3>6. Awaited(s)
        BY <2>1, <3>5 DEF RunInv, DeferredAwait
      <3>7. \E i \in DOMAIN deferred : deferred[i] = s
        <4>1. DOMAIN deferred = 1 .. Len(deferred)
          BY RunTypes
        <4> QED
          BY <3>5, <4>1 DEF Deferred
      <3> QED
        BY <3>6, <3>7 DEF Awaited
    <2> QED
      BY <2>1 DEF NoLostWakeup
  <1>6. OutcomeSound
    <2>1. Len(outcome) <= 1
      BY DEF RunInv, AfterOutcome
    <2>2. ASSUME outcome = <<"completed">> PROVE \A s \in Steps : status[s] = "completed"
      <3>1. outcome # <<>> /\ outcome[1] = "completed"
        BY <2>2
      <3> QED
        BY <3>1 DEF RunInv, AfterOutcome
    <2>3. ASSUME outcome = <<"failed">>
          PROVE  \E s \in Steps : status[s] = "failed" /\ retrying[s] = 0 /\ ~CanRetry(s)
      <3>1. outcome # <<>> /\ outcome[1] = "failed"
        BY <2>3
      <3>2. failed
        BY <3>1 DEF RunInv, AfterOutcome
      <3>3. PICK s \in FinalSteps : status[s] = "failed" /\ ~CanRetry(s)
        BY <3>2 DEF RunInv, FailedTrue
      <3> QED
        BY <3>3, Executions, FinalAre
    <2> QED
      BY <2>1, <2>2, <2>3 DEF OutcomeSound
  <1> QED
    BY <1>3, <1>4, <1>5, <1>6

(* A handler that would change a status finds the context cancelled, or    *)
(* needs a step that is still running, waiting or retried.                 *)
LEMMA ReportedStays == RunInv /\ [Next]_vars => ReportedIsFinal
  <1> SUFFICES ASSUME RunInv, [Next]_vars, outcome # <<>> PROVE status' = status
    BY DEF ReportedIsFinal
  <1>1. pc = "idle" /\ (ctx = "cancelled" \/ FinalSteps = Steps)
    BY DEF RunInv, AfterOutcome
  <1>2. \A s \in Steps : executing[s] > 0 => ctx = "cancelled"
    BY <1>1, Executions
  <1>3. \A s \in Steps : retrying[s] > 0 => ctx = "cancelled"
    BY <1>1, Executions
  <1>4. CASE RunAction \/ UNCHANGED vars
    BY <1>1, <1>4 DEF RunAction, Start, StartUnlock, NextItem, BeginDeferred, DeferredStep, FinishRun,
                      ContinueRun, Cancel, CancelContext, vars
  <1>5. ASSUME NEW s \in Steps, StepAction(s) PROVE status' = status
    BY <1>1, <1>2, <1>3, <1>5 DEF StepAction, StartRoot, ExecuteStep, DelayCancelled, CompletionIgnored,
       StepSucceeded, StepRetried, StepFailedRun, StepFailed, Dependent, RetryFires, Callback
  <1> QED
    BY <1>4, <1>5 DEF Next

(* The scheduling rules, for every job: a step starts only after its       *)
(* upstream steps are decided (and succeeded, unless run_if is all_done);  *)
(* a step that waits for a session key is never skipped silently and never *)
(* forgotten; onRunComplete is called at most once with an outcome that    *)
(* fits the steps, and no status changes after it (Start, OnStepCompleted, *)
(* processReadyDependents, processDeferredSteps, the retry goroutine).     *)
THEOREM SchedulingIsSound == Spec => SchedulingSound
  BY RunInvariant, RunInvSchedules, ReportedStays, PTL DEF Spec, SchedulingSound

-----------------------------------------------------------------------------
(* The steps of the runner as steps of the run contract.                   *)
LEMMA AbstractIs ==
    \A s \in Steps :
       /\ AbstractStatus[s] = IF retrying[s] > 0 THEN "retrying" ELSE status[s]
       /\ AbstractStatus'[s] = IF retrying'[s] > 0 THEN "retrying" ELSE status'[s]
  BY DEF AbstractStatus

(* The contract reads the job as the runner does.                          *)
LEMMA SameJob ==
    \A s : /\ Contract!Upstream(job, s) = Upstream(job, s)
           /\ Contract!Inherited(job, s) <=> Inherited(job, s)
  BY DEF Contract!Upstream, Upstream, Contract!Inherited, Inherited

LEMMA AbstractChange ==
    ASSUME NEW s \in Steps, NEW v, AbstractStatus'[s] = v,
           \A t \in Steps : t # s => AbstractStatus'[t] = AbstractStatus[t]
    PROVE  AbstractStatus' = [AbstractStatus EXCEPT ![s] = v]
  BY DEF AbstractStatus

LEMMA AbstractFinal ==
    ASSUME RunInv, NEW s \in FinalSteps
    PROVE  AbstractStatus[s] = status[s] /\ Contract!Settled(s)
  <1>1. s \in Steps /\ ~Inherited(job, s) /\ status[s] \in {"completed", "failed", "skipped"} /\ retrying[s] = 0
    BY FinalAre, Executions
  <1>2. AbstractStatus[s] = status[s]
    BY <1>1, AbstractIs
  <1> QED
    BY <1>1, <1>2, SameJob DEF Contract!Settled, Contract!SettledAs

LEMMA ClearIsReady ==
    ASSUME RunInv, NEW s \in Steps, Clear(s)
    PROVE  (\A u \in Upstream(job, s) : Contract!Settled(u)) /\ Contract!MayRun(s)
  BY AbstractFinal, SameJob DEF Clear, Contract!MayRun

(* The keys of the steps this run started are the active ones.             *)
LEMMA FreeKeys ==
    ASSUME RunInv, NEW s \in Steps, canLaunch(s)
    PROVE  Contract!KeyFree(s)
  <1>1. ASSUME NEW t \in Steps, AbstractStatus[t] = "running", ~Inherited(job, t) PROVE t \in Running
    BY <1>1, AbstractIs DEF Running
  <1>2. ASSUME job.key[s] # NoKey, NEW t \in Steps \ {s}, AbstractStatus[t] = "running", ~Inherited(job, t)
        PROVE  job.key[t] # job.key[s]
    BY <1>1, <1>2 DEF canLaunch, RunInv, RunningKeys, KeySafe
  <1> QED
    BY <1>2, SameJob DEF Contract!KeyFree

LEMMA ContractStutters ==
    ASSUME RunInv, UNCHANGED <<job, status, retrying, attempt, outcome>>, (ctx' = "cancelled") <=> (ctx = "cancelled")
    PROVE  UNCHANGED Contract!vars
  <1>1. AbstractStatus' = AbstractStatus
    BY DEF AbstractStatus
  <1>2. (ctx' = "cancelled") = (ctx = "cancelled")
    OBVIOUS
  <1> QED
    BY <1>1, <1>2 DEF Contract!vars

LEMMA LaunchRuns ==
    ASSUME RunInv, NEW s \in Steps, Launching(s)
    PROVE  Contract!Run(s)
  <1>1. status[s] = "pending" /\ retrying[s] = 0 /\ canLaunch(s) /\ Clear(s)
    BY LaunchFacts DEF Launching, Launch
  <1>2. UNCHANGED <<job, attempt, ctx, outcome, retrying>>
    BY DEF Launching
  <1>3. \A t \in Steps : status'[t] = IF t = s THEN "running" ELSE status[t]
    BY LaunchFacts
  <1>4. AbstractStatus[s] = "pending"
    BY <1>1, AbstractIs
  <1>5. AbstractStatus' = [AbstractStatus EXCEPT ![s] = "running"]
    BY <1>1, <1>2, <1>3, AbstractIs, AbstractChange
  <1>6. Contract!Ready(s) /\ Contract!MayRun(s) /\ Contract!KeyFree(s)
    BY <1>1, <1>4, ClearIsReady, FreeKeys, SameJob DEF Contract!Ready
  <1> QED
    BY <1>2, <1>5, <1>6 DEF Contract!Run

(* An action that starts a step, or leaves the contract's state alone.     *)
LEMMA StartRootRefines ==
    ASSUME RunInv, NEW s \in Steps, StartRoot(s) PROVE Contract!Run(s) \/ UNCHANGED Contract!vars
  <1> USE DEF procs, ending
  <1>1. pc = "start" /\ s \in todo /\ UNCHANGED <<job, ctx, attempt, completed, failed, pc, procs, ending>>
    BY DEF StartRoot
  <1>2. CASE status[s] = "pending" /\ Launch(s)
    <2>1. Launching(s)
      BY <1>1, <1>2, RootIsClear DEF Launching
    <2> QED
      BY <2>1, LaunchRuns
  <1>3. CASE status' = status
    BY <1>1, <1>3, ContractStutters
  <1> QED
    BY <1>2, <1>3 DEF StartRoot

LEMMA DeferredStepRefines ==
    ASSUME RunInv, DeferredStep PROVE (\E s \in Steps : Contract!Run(s)) \/ UNCHANGED Contract!vars
  <1> USE DEF procs, ending
  <1>1. /\ pc = "deferred" /\ scan # <<>> /\ scan' = Tail(scan)
        /\ UNCHANGED <<job, ctx, attempt, failed, pc, procs, ending>>
    BY DEF DeferredStep
  <1>2. PICK s \in Steps : s = Head(scan)
    BY <1>1, ScannedLess
  <1>3. Scanned(s)
    BY <1>1, <1>2, ScannedLess
  <1>4. status[s] = "pending" => Clear(s) /\ ~mustSkip(s, hasFailedUpstream[s])
    BY <1>3, ScannedIsNotSkipped DEF RunInv, WantsAreClear, Wants
  <1>5. CASE status[s] = "pending" /\ Launch(s) /\ completed' = completed
    <2>1. Launching(s)
      BY <1>1, <1>4, <1>5 DEF Launching
    <2> QED
      BY <2>1, LaunchRuns
  <1>6. CASE status' = status
    BY <1>1, <1>6, ContractStutters
  <1> QED
    BY <1>2, <1>4, <1>5, <1>6 DEF DeferredStep

LEMMA DependentRefines ==
    ASSUME RunInv, NEW d \in Steps, Dependent(d)
    PROVE  Contract!Run(d) \/ Contract!Skip(d) \/ UNCHANGED Contract!vars
  <1> USE DEF procs, ending
  <1>1. ItemDone(d) /\ UNCHANGED <<job, ctx, attempt, failed, pc, procs, ending>>
    BY DEF Dependent, ItemDone
  <1>2. CASE status' = status
    BY <1>1, <1>2, ContractStutters
  <1>3. ASSUME isReady(d, inDegree'[d])
        PROVE  status[d] = "pending" /\ \A u \in Upstream(job, d) : u \in FinalSteps /\ (status[u] # "completed" => hasFailedUpstream'[d])
    BY <1>1, <1>3, LastEdge DEF isReady
  <1>4. CASE isReady(d, inDegree'[d]) /\ ~mustSkip(d, hasFailedUpstream'[d]) /\ Launch(d) /\ completed' = completed
    <2>1. Clear(d)
      BY <1>3, <1>4 DEF mustSkip, Clear
    <2>2. Launching(d)
      BY <1>1, <1>3, <1>4, <2>1 DEF Launching, ItemDone
    <2> QED
      BY <2>2, LaunchRuns
  <1>5. CASE isReady(d, inDegree'[d]) /\ mustSkip(d, hasFailedUpstream'[d]) /\ SkipReady(d)
    <2>1. \A t \in Steps : status'[t] = IF t = d THEN "skipped" ELSE status[t]
      BY <1>5, RunTypes DEF SkipReady
    <2>2. status[d] = "pending" /\ retrying[d] = 0
      BY <1>3, <1>5, Executions
    <2>3. AbstractStatus[d] = "pending"
      BY <2>2, AbstractIs
    <2>4. Contract!Ready(d)
      BY <1>3, <1>5, <2>3, AbstractFinal, SameJob DEF Contract!Ready
    <2>5. PICK u \in Upstream(job, d) : u \in FinalSteps /\ status[u] # "completed"
      <3>1. hasFailedUpstream[d] \/ item.failed
        BY <1>1, <1>5, ItemFacts DEF mustSkip
      <3>2. CASE hasFailedUpstream[d]
        BY <3>2 DEF RunInv, FlagsTrue
      <3>3. CASE item.failed
        BY <1>1, <3>3, ItemFacts
      <3> QED
        BY <3>1, <3>2, <3>3
    <2>6. ~Contract!MayRun(d)
      BY <1>5, <2>5, AbstractFinal, SameJob DEF Contract!MayRun, mustSkip
    <2>7. AbstractStatus' = [AbstractStatus EXCEPT ![d] = "skipped"]
      BY <1>1, <2>1, <2>2, AbstractIs, AbstractChange
    <2> QED
      BY <1>1, <2>4, <2>6, <2>7 DEF Contract!Skip
  <1> QED
    BY <1>2, <1>4, <1>5 DEF Dependent

(* The answers of the executor.                                            *)
LEMMA AnswerRefines ==
    ASSUME RunInv, NEW s \in Steps, Answered(s), NEW v \in {"completed", "failed"},
           status' = [status EXCEPT ![s] = v]
    PROVE  /\ ctx # "cancelled" /\ AbstractStatus[s] = "running" /\ outcome = <<>>
           /\ retrying' = retrying => AbstractStatus' = [AbstractStatus EXCEPT ![s] = v]
           /\ retrying' = [retrying EXCEPT ![s] = @ + 1] => AbstractStatus' = [AbstractStatus EXCEPT ![s] = "retrying"]
  <1>1. ctx # "cancelled" /\ outcome = <<>> /\ status[s] = "running" /\ retrying[s] = 0
    BY AnsweredFacts
  <1>2. \A t \in Steps : status'[t] = IF t = s THEN v ELSE status[t]
    BY RunTypes
  <1>3. AbstractStatus[s] = "running"
    BY <1>1, AbstractIs
  <1>4. ASSUME retrying' = retrying PROVE AbstractStatus' = [AbstractStatus EXCEPT ![s] = v]
    BY <1>1, <1>2, <1>4, AbstractIs, AbstractChange
  <1>5. ASSUME retrying' = [retrying EXCEPT ![s] = @ + 1]
        PROVE  AbstractStatus' = [AbstractStatus EXCEPT ![s] = "retrying"]
    <2>1. \A t \in Steps : retrying'[t] = IF t = s THEN 1 ELSE retrying[t]
      BY <1>1, <1>5, ProcTypes
    <2> QED
      BY <1>2, <2>1, AbstractIs, AbstractChange
  <1> QED
    BY <1>1, <1>3, <1>4, <1>5

LEMMA StepSucceededRefines == ASSUME RunInv, NEW s \in Steps, StepSucceeded(s) PROVE Contract!Succeed(s)
  <1>1. /\ Answered(s) /\ status' = [status EXCEPT ![s] = "completed"]
        /\ UNCHANGED <<job, ctx, attempt, retrying, outcome>>
    BY DEF StepSucceeded, Answered, Propagate, ending
  <1> QED
    BY <1>1, AnswerRefines DEF Contract!Succeed

LEMMA StepRetriedRefines == ASSUME RunInv, NEW s \in Steps, StepRetried(s) PROVE Contract!Retry(s)
  <1>1. /\ Answered(s) /\ status' = [status EXCEPT ![s] = "failed"] /\ CanRetry(s)
        /\ retrying' = [retrying EXCEPT ![s] = @ + 1] /\ attempt' = [attempt EXCEPT ![s] = @ + 1]
        /\ UNCHANGED <<job, ctx, outcome>>
    BY DEF StepRetried, Answered, ending, loops
  <1> QED
    BY <1>1, AnswerRefines DEF Contract!Retry, Contract!Exhausted, CanRetry

LEMMA StepFailedRefines == ASSUME RunInv, NEW s \in Steps, StepFailed(s) PROVE Contract!Fail(s)
  <1>1. /\ Answered(s) /\ status' = [status EXCEPT ![s] = "failed"] /\ ~CanRetry(s) /\ job.onFailure[s] # "fail_run"
        /\ UNCHANGED <<job, ctx, attempt, retrying, outcome>>
    BY DEF StepFailed, Answered, Propagate, ending
  <1> QED
    BY <1>1, AnswerRefines DEF Contract!Fail, Contract!Exhausted, CanRetry

LEMMA StepFailedRunRefines == ASSUME RunInv, NEW s \in Steps, StepFailedRun(s) PROVE Contract!FailRun(s)
  <1>1. /\ Answered(s) /\ ~CanRetry(s) /\ job.onFailure[s] = "fail_run" /\ ctx' = "cancelled"
        /\ outcome' = Append(outcome, "failed") /\ UNCHANGED <<job, attempt, retrying>>
        /\ status' = [t \in Steps |-> CASE t = s -> "failed"
                                        [] t # s /\ status[t] = "pending" -> "skipped"
                                        [] t # s /\ status[t] = "running" -> "cancelled"
                                        [] OTHER -> status[t]]
    BY DEF StepFailedRun, Answered, loops
  <1>2. ctx # "cancelled" /\ outcome = <<>> /\ status[s] = "running" /\ retrying[s] = 0
    BY <1>1, AnsweredFacts
  <1>3. AbstractStatus[s] = "running"
    BY <1>2, AbstractIs
  <1>4. outcome' = <<"failed">>
    BY <1>1, <1>2
  <1>5. \A t \in Steps : retrying[t] > 0 => status[t] = "failed"
    BY Executions
  <1>6. ASSUME NEW t \in Steps
        PROVE  AbstractStatus'[t] = CASE t = s -> "failed"
                                      [] t # s /\ AbstractStatus[t] = "pending" -> "skipped"
                                      [] t # s /\ AbstractStatus[t] = "running" -> "cancelled"
                                      [] OTHER -> AbstractStatus[t]
    <2>1. CASE t = s
      BY <1>1, <1>2, <2>1, AbstractIs
    <2>2. CASE t # s /\ retrying[t] > 0
      <3>1. AbstractStatus[t] = "retrying" /\ AbstractStatus'[t] = "retrying"
        BY <1>1, <2>2, AbstractIs
      <3> QED
        BY <2>2, <3>1
    <2>3. CASE t # s /\ ~(retrying[t] > 0)
      <3>1. AbstractStatus[t] = status[t] /\ AbstractStatus'[t] = status'[t]
        BY <1>1, <2>3, AbstractIs
      <3> QED
        BY <1>1, <2>3, <3>1
    <2> QED
      BY <2>1, <2>2, <2>3
  <1>7. AbstractStatus' = [t \in Steps |-> CASE t = s -> "failed"
                                             [] t # s /\ AbstractStatus[t] = "pending" -> "skipped"
                                             [] t # s /\ AbstractStatus[t] = "running" -> "cancelled"
                                             [] OTHER -> AbstractStatus[t]]
    <2>1. AbstractStatus' = [t \in Steps |-> AbstractStatus'[t]]
      BY DEF AbstractStatus
    <2> QED
      BY <1>6, <2>1
  <1> QED
    BY <1>1, <1>2, <1>3, <1>4, <1>7 DEF Contract!FailRun, Contract!Exhausted, CanRetry

LEMMA RetryFiresRefines ==
    ASSUME RunInv, NEW s \in Steps, RetryFires(s) PROVE Contract!Rerun(s) \/ Contract!GiveUp(s)
  <1>1. Fired(s) /\ UNCHANGED <<job, ctx, attempt, outcome>>
    BY DEF RetryFires, Fired, ending
  <1>2. status[s] = "failed" /\ retrying[s] = 1 /\ \A t \in Steps : retrying'[t] = IF t = s THEN 0 ELSE retrying[t]
    BY <1>1, FiredFacts
  <1>3. AbstractStatus[s] = "retrying"
    BY <1>2, AbstractIs
  <1>4. CASE ctx = "cancelled" /\ status' = status
    <2>1. AbstractStatus' = [AbstractStatus EXCEPT ![s] = "failed"]
      BY <1>2, <1>4, AbstractIs, AbstractChange
    <2> QED
      BY <1>1, <1>3, <1>4, <2>1 DEF Contract!GiveUp
  <1>5. ASSUME NEW v \in {"pending", "running"}, status' = [status EXCEPT ![s] = v]
        PROVE  AbstractStatus' = [AbstractStatus EXCEPT ![s] = v]
    <2>1. \A t \in Steps : status'[t] = IF t = s THEN v ELSE status[t]
      BY <1>5, RunTypes
    <2> QED
      BY <1>2, <2>1, AbstractIs, AbstractChange
  <1>6. CASE ctx # "cancelled" /\ status' = [status EXCEPT ![s] = "pending"]
    BY <1>1, <1>3, <1>5, <1>6 DEF Contract!Rerun
  <1>7. CASE ctx # "cancelled" /\ canLaunch(s) /\ status' = [status EXCEPT ![s] = "running"]
    BY <1>1, <1>3, <1>5, <1>7, FreeKeys DEF Contract!Rerun
  <1> QED
    BY <1>4, <1>6, <1>7 DEF RetryFires

(* Every step is counted, and a failed one is on record.                   *)
LEMMA FinishRunRefines == ASSUME RunInv, FinishRun PROVE Contract!Finish
  <1> USE DEF procs
  <1>1. /\ pc = "deferred" /\ completed = Cardinality(Steps) /\ UNCHANGED <<job, ctx, status, attempt, procs>>
        /\ outcome' = Append(outcome, IF failed THEN "failed" ELSE "completed")
    BY DEF FinishRun
  <1>2. Going /\ FinalSteps = Steps /\ outcome = <<>>
    BY <1>1, AllCounted DEF Going, RunInv, AfterOutcome
  <1>3. \A s \in Steps : Contract!Settled(s) /\ AbstractStatus[s] = status[s]
    BY <1>2, AbstractFinal
  <1>4. failed <=> \E s \in Steps : AbstractStatus[s] = "failed"
    BY <1>2, <1>3 DEF RunInv, FailedWhole, FailedTrue
  <1>5. outcome' = IF \E s \in Steps : AbstractStatus[s] = "failed" THEN <<"failed">> ELSE <<"completed">>
    <2>1. CASE failed
      BY <1>1, <1>2, <1>4, <2>1
    <2>2. CASE ~failed
      BY <1>1, <1>2, <1>4, <2>2
    <2> QED
      BY <2>1, <2>2
  <1>6. AbstractStatus' = AbstractStatus
    BY <1>1 DEF AbstractStatus
  <1> QED
    BY <1>1, <1>2, <1>3, <1>5, <1>6 DEF Contract!Finish

LEMMA CancelContextRefines == ASSUME RunInv, CancelContext PROVE Contract!Stop \/ UNCHANGED Contract!vars
  <1>1. ctx' = "cancelled" /\ UNCHANGED <<job, status, attempt, retrying, outcome>>
    BY DEF CancelContext, procs
  <1>2. CASE ctx = "cancelled"
    BY <1>1, <1>2, ContractStutters
  <1>3. CASE ctx # "cancelled"
    <2>1. AbstractStatus' = AbstractStatus
      BY <1>1 DEF AbstractStatus
    <2> QED
      BY <1>1, <1>3, <2>1 DEF Contract!Stop
  <1> QED
    BY <1>2, <1>3

LEMMA OthersStutter ==
    ASSUME RunInv, Start \/ StartUnlock \/ NextItem \/ BeginDeferred \/ ContinueRun \/ Cancel
    PROVE  UNCHANGED Contract!vars
  <1>1. UNCHANGED <<job, status, retrying, attempt, outcome>> /\ ((ctx' = "cancelled") <=> (ctx = "cancelled"))
    BY DEF Start, StartUnlock, NextItem, BeginDeferred, ContinueRun, Cancel, procs, ending
  <1> QED
    BY <1>1, ContractStutters

LEMMA LaunchesStutter ==
    ASSUME RunInv, NEW s \in Steps, ExecuteStep(s) \/ DelayCancelled(s) \/ CompletionIgnored(s)
    PROVE  UNCHANGED Contract!vars
  <1>1. UNCHANGED <<job, status, retrying, attempt, outcome, ctx>>
    BY DEF ExecuteStep, DelayCancelled, CompletionIgnored, ending
  <1> QED
    BY <1>1, ContractStutters

LEMMA ContractInit == Init => Contract!Init
  <1> SUFFICES ASSUME Init PROVE Contract!Init
    OBVIOUS
  <1>1. job \in Jobs /\ job.prior \in [Steps -> StepStatus]
    BY JobFacts DEF Init
  <1>2. AbstractStatus = job.prior
    BY <1>1 DEF Init, AbstractStatus
  <1> QED
    BY <1>1, <1>2 DEF Init, Contract!Init

LEMMA ContractNext == RunInv /\ [Next]_vars => [Contract!Next]_(Contract!vars)
  <1> SUFFICES ASSUME RunInv, [Next]_vars PROVE Contract!Next \/ UNCHANGED Contract!vars
    OBVIOUS
  <1>1. CASE UNCHANGED vars
    BY <1>1, ContractStutters DEF vars, procs, ending
  <1>2. CASE RunAction
    BY <1>2, OthersStutter, DeferredStepRefines, FinishRunRefines, CancelContextRefines DEF RunAction, Contract!Next
  <1>3. ASSUME NEW s \in Steps, StepAction(s) PROVE Contract!Next \/ UNCHANGED Contract!vars
    BY <1>3, StartRootRefines, LaunchesStutter, StepSucceededRefines, StepRetriedRefines, StepFailedRunRefines,
       StepFailedRefines, DependentRefines, RetryFiresRefines DEF StepAction, Contract!Next
  <1> QED
    BY <1>1, <1>2, <1>3 DEF Next

(* The runner implements the run contract, for every job: its in-degree    *)
(* counters, flags, work queue, deferred list and key set start, skip,     *)
(* retry and finish exactly what the declarative rules of JobRun allow     *)
(* (dag_runner.go as a whole).                                             *)
THEOREM RunnerImplementsContract == Spec => ImplementsContract
  BY ContractInit, ContractNext, RunInvariant, PTL DEF Spec, ImplementsContract, Contract!Spec

=============================================================================
