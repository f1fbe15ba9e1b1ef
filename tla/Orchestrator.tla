---------------------------- MODULE Orchestrator ----------------------------
(***************************************************************************)
(* The runs of one job (internal/server/orchestrator/orchestrator.go):     *)
(* CreateRun, CancelRun, RetryStep and RepairRun as they interleave with   *)
(* each other, with the job timeout and with the runners they start.  A    *)
(* runner is what DAGRunner promises (see JobRun), without retries and     *)
(* session keys: its decisions are atomic, its report of the outcome is    *)
(* not, because onRunComplete runs after d.mu is released.                 *)
(*                                                                         *)
(* Every client call is a thread that runs once.  A runner is named after  *)
(* the thread that built it, Creator for CreateRun; the thread of a job    *)
(* timeout is named after its run.                                         *)
(***************************************************************************)
EXTENDS Integers, FiniteSets

CONSTANTS
    Runs,               \* the runs that CreateRun may be called for
    Steps, Deps,        \* the job's steps and the pairs <<step, dependsOn>>
    FailRun,            \* the steps with on_failure = fail_run
    MaxConcurrentRuns,  \* the job's limit, 0 for none
    Timeout,            \* the job has a timeout
    Calls,              \* client calls of CancelRun, RetryStep, RepairRun
    Ops,                \* which of "cancel", "retry", "repair" they make
    Patient,            \* clients wait for each other and for the run (below)
    Creator, None

ASSUME OrchestratorAssumption ==
    /\ IsFiniteSet(Runs) /\ IsFiniteSet(Steps)
    /\ Deps \subseteq Steps \X Steps
    /\ FailRun \subseteq Steps
    /\ MaxConcurrentRuns \in Nat
    /\ Timeout \in BOOLEAN /\ Patient \in BOOLEAN
    /\ Ops \subseteq {"cancel", "retry", "repair"}
    /\ Creator \notin Calls /\ None \notin Calls \cup {Creator}
    /\ Calls \cap Runs = {}

VARIABLES
    row,       \* runs.status
    stepRow,   \* run_steps.status
    reserved,  \* the "pending-" placeholders of activeRuns
    active,    \* activeRuns: the builder of the run's runner, or None
    create,    \* how far CreateRun has got for a run
    runner,    \* the DAGRunners, by run and builder
    call       \* the calls and timeouts in progress

vars == <<row, stepRow, reserved, active, create, runner, call>>

Builders == Calls \cup {Creator}
Threads  == Calls \cup Runs

(* "none" is a step without a row: it is not in the runner either. *)
StepStatus == {"none", "pending", "running", "completed", "failed", "skipped", "cancelled"}
Unfinished == {"failed", "skipped", "cancelled"}   \* what a rebuild resets

NoRunner == [ctx |-> "none"]
Runner == [ctx : {"nil", "live", "cancelled"}, steps : [Steps -> StepStatus],
           inherited : SUBSET Steps, done : BOOLEAN,
           report : {"none", "due", "written", "finished"},
           outcome : {"undecided", "completed", "failed"}]

Idle == [pc |-> "idle"]
Call == [pc : {"cancel", "runner", "context", "read", "steps", "mark",
               "retry", "reset", "running", "build", "swap", "start", "returned"},
         run : Runs, held : Builders \cup {None}, step : Steps \cup {None},
         snap : SUBSET Steps]

(* The types of run rows, step rows, reservations, runners and calls.      *)
TypeOK ==
    /\ row \in [Runs -> {"none", "pending", "running", "completed", "failed",
                         "cancelled"}]
    /\ stepRow \in [Runs -> [Steps -> StepStatus]]
    /\ reserved \subseteq Runs
    /\ active \in [Runs -> Builders \cup {None}]
    /\ create \in [Runs -> {"none", "refused", "reserved", "created", "failed",
                            "inserted", "built", "registered", "marked", "returned"}]
    /\ runner \in [Runs \X Builders -> Runner \cup {NoRunner}]
    /\ call \in [Threads -> Call \cup {Idle}]

Init ==
    /\ row = [r \in Runs |-> "none"]
    /\ stepRow = [r \in Runs |-> [s \in Steps |-> "none"]]
    /\ reserved = {}
    /\ active = [r \in Runs |-> None]
    /\ create = [r \in Runs |-> "none"]
    /\ runner = [q \in Runs \X Builders |-> NoRunner]
    /\ call = [t \in Threads |-> Idle]

-----------------------------------------------------------------------------
(* A runner, as far as the orchestrator sees it. *)

Upstream(s) == {u \in Steps : <<s, u>> \in Deps}

(* NewDAGRunner on the step rows.  A step that is neither pending nor      *)
(* completed is never launched and never counted.                          *)
NewDAGRunner(rows) ==
    [ctx |-> "nil", steps |-> rows,
     inherited |-> {s \in Steps : rows[s] \notin {"pending", "completed"}},
     done |-> FALSE, report |-> "none", outcome |-> "undecided"]

Mutant_Settled(k, s) ==
    s \notin k.inherited /\ k.steps[s] \in {"completed", "failed"}

Settled(k, s) ==
    s \notin k.inherited /\ k.steps[s] \in {"completed", "failed", "skipped"}

(* Ready steps are launched, or skipped if an upstream step did not        *)
(* complete; a skip may make further steps ready.                          *)
Decide(k) ==
    LET Ready(st, s) ==
            st[s] = "pending" /\ \A u \in Upstream(s) :
                                     Settled([k EXCEPT !.steps = st], u)
        Round(st) ==
            [s \in Steps |->
                IF ~Ready(st, s) THEN st[s]
                ELSE IF \A u \in Upstream(s) : st[u] = "completed"
                     THEN "running" ELSE "skipped"]
        after[n \in 0..Cardinality(Steps)] ==
            IF n = 0 THEN k.steps ELSE Round(after[n - 1])
    IN after[Cardinality(Steps)]

(* updateRunStepInDB for the steps whose status the runner changed. *)
WriteSteps(r, old, new) ==
    stepRow' = [stepRow EXCEPT ![r] =
                   [s \in Steps |-> IF new[s] # old[s] THEN new[s] ELSE @[s]]]

Start(q) ==
    LET k   == runner[q]
        new == Decide(k)
    IN /\ k.ctx = "nil"
       /\ runner' = [runner EXCEPT ![q].ctx = "live", ![q].steps = new]
       /\ WriteSteps(q[1], k.steps, new)

(* The outcome of a run whose last step has just been decided. *)
Outcome(new, exit) ==
    IF \E t \in Steps : new[t] = "failed" THEN "failed" ELSE "completed"

(* OnStepCompleted in a runner whose context is live. *)
StepCompleted(q, s) ==
    LET k == runner[q] IN
    /\ k.ctx = "live"
    /\ s \notin k.inherited
    /\ k.steps[s] = "running"
    /\ \E exit \in {"completed", "failed"} :
          LET failRun == exit = "failed" /\ s \in FailRun
              new == IF failRun
                     THEN [t \in Steps |-> CASE t = s -> "failed"
                             [] t # s /\ k.steps[t] = "pending" -> "skipped"
                             [] t # s /\ k.steps[t] = "running" -> "cancelled"
                             [] OTHER -> k.steps[t]]
                     ELSE Decide([k EXCEPT !.steps[s] = exit])
              over == failRun \/ \A t \in Steps : Settled([k EXCEPT !.steps = new], t)
          IN /\ WriteSteps(q[1], k.steps, new)
             /\ runner' = [runner EXCEPT ![q] =
                    [k EXCEPT !.ctx = IF failRun THEN "cancelled" ELSE @,
                              !.steps = new,
                              !.done = @ \/ over,
                              !.report = IF over THEN "due" ELSE @,
                              !.outcome = IF over THEN Outcome(new, exit) ELSE @]]
    /\ UNCHANGED <<row, reserved, active, create, call>>

(* onRunComplete: the outcome is written, then the entry of the run, which *)
(* need not be this runner's, is deleted.                                  *)
WriteOutcome(q) ==
    /\ runner[q].ctx # "none"
    /\ runner[q].report = "due"
    /\ row' = [row EXCEPT ![q[1]] = runner[q].outcome]
    /\ runner' = [runner EXCEPT ![q].report = "written"]
    /\ UNCHANGED <<stepRow, reserved, active, create, call>>

RemoveRunner(q) ==
    /\ runner[q].ctx # "none"
    /\ runner[q].report = "written"
    /\ active' = [active EXCEPT ![q[1]] = None]
    /\ runner' = [runner EXCEPT ![q].report = "finished"]
    /\ UNCHANGED <<row, stepRow, reserved, create, call>>

-----------------------------------------------------------------------------
(* CreateRun *)

countActiveRunsForJob ==
    Cardinality(reserved) + Cardinality({r \in Runs : active[r] # None})

AtLimit == MaxConcurrentRuns > 0 /\ countActiveRunsForJob >= MaxConcurrentRuns

Refuse(r) ==
    /\ create[r] = "none"
    /\ AtLimit
    /\ create' = [create EXCEPT ![r] = "refused"]
    /\ UNCHANGED <<row, stepRow, reserved, active, runner, call>>

Mutant_Reserve(r) ==
    /\ create[r] = "none"
    /\ ~AtLimit
    /\ create' = [create EXCEPT ![r] = "reserved"]
    /\ UNCHANGED <<row, stepRow, reserved, active, runner, call>>

Reserve(r) ==
    /\ create[r] = "none"
    /\ ~AtLimit
    /\ reserved' = reserved \cup {r}
    /\ create' = [create EXCEPT ![r] = "reserved"]
    /\ UNCHANGED <<row, stepRow, active, runner, call>>

CreateRow(r) ==
    /\ create[r] = "reserved"
    /\ row' = [row EXCEPT ![r] = "pending"]
    /\ create' = [create EXCEPT ![r] = "created"]
    /\ UNCHANGED <<stepRow, reserved, active, runner, call>>

InsertRunSteps(r) ==
    /\ create[r] = "created"
    /\ stepRow' = [stepRow EXCEPT ![r] = [s \in Steps |-> "pending"]]
    /\ create' = [create EXCEPT ![r] = "inserted"]
    /\ UNCHANGED <<row, reserved, active, runner, call>>

(* The run steps are read back for the runner. *)
BuildRunner(r) ==
    /\ create[r] = "inserted"
    /\ runner' = [runner EXCEPT ![<<r, Creator>>] = NewDAGRunner(stepRow[r])]
    /\ create' = [create EXCEPT ![r] = "built"]
    /\ UNCHANGED <<row, stepRow, reserved, active, call>>

(* The store or ValidateDAG returns an error: removeReservation.  A run    *)
(* row that exists stays pending.                                          *)
CreateFails(r) ==
    /\ create[r] \in {"reserved", "created", "inserted"}
    /\ reserved' = reserved \ {r}
    /\ create' = [create EXCEPT ![r] = "failed"]
    /\ UNCHANGED <<row, stepRow, active, runner, call>>

Register(r) ==
    /\ create[r] = "built"
    /\ reserved' = reserved \ {r}
    /\ active' = [active EXCEPT ![r] = Creator]
    /\ create' = [create EXCEPT ![r] = "registered"]
    /\ UNCHANGED <<row, stepRow, runner, call>>

MarkCreated(r) ==
    /\ create[r] = "registered"
    /\ row' = [row EXCEPT ![r] = "running"]
    /\ create' = [create EXCEPT ![r] = "marked"]
    /\ UNCHANGED <<stepRow, reserved, active, runner, call>>

StartCreated(r) ==
    /\ create[r] = "marked"
    /\ Start(<<r, Creator>>)
    /\ create' = [create EXCEPT ![r] = "returned"]
    /\ UNCHANGED <<row, reserved, active, call>>

-----------------------------------------------------------------------------
(* Client calls *)

(* Nothing of a run is in progress: each runner was cancelled before it    *)
(* had anything to report, or has reported.                                *)
Quiet(r) ==
    \A b \in Builders : LET k == runner[<<r, b>>] IN
        \/ k.ctx = "none"
        \/ k.ctx = "cancelled" /\ k.report = "none"
        \/ k.ctx \in {"live", "cancelled"} /\ k.report = "finished"

(* Any client may call at any time once the run has a row.  A patient one  *)
(* waits until CreateRun and the other calls have returned and, to rebuild *)
(* the run, until it is quiet.                                             *)
Begin(c, r, op) ==
    /\ call[c] = Idle
    /\ op \in Ops
    /\ row[r] # "none"
    /\ Patient => /\ create[r] = "returned"
                  /\ \A t \in Threads : call[t].pc \in {"idle", "returned"}
                  /\ op # "cancel" => Quiet(r)

Enter(t, pc, r, s, snap) ==
    call' = [call EXCEPT ![t] = [pc |-> pc, run |-> r, held |-> None, step |-> s,
                                 snap |-> snap]]

Goto(t, pc) == call' = [call EXCEPT ![t].pc = pc]

(* CancelRun *)
BeginCancel(c, r) ==
    /\ Begin(c, r, "cancel")
    /\ Enter(c, "cancel", r, None, {})
    /\ UNCHANGED <<row, stepRow, reserved, active, create, runner>>

(* The timer of CreateRun fires while its runner is not done. *)
TimeoutFires(r) ==
    /\ Timeout
    /\ create[r] = "returned"
    /\ call[r] = Idle
    /\ ~runner[<<r, Creator>>].done
    /\ Enter(r, "cancel", r, None, {})
    /\ UNCHANGED <<row, stepRow, reserved, active, create, runner>>

TakeRunner(t) ==
    /\ call[t].pc = "cancel"
    /\ LET r == call[t].run IN
       /\ call' = [call EXCEPT ![t].held = active[r],
                               ![t].pc = IF active[r] = None THEN "read" ELSE "runner"]
       /\ active' = [active EXCEPT ![r] = None]
    /\ UNCHANGED <<row, stepRow, reserved, create, runner>>

(* runner.Cancel(): under d.mu, then outside it. *)
CancelRunner(t) ==
    /\ call[t].pc = "runner"
    /\ LET q == <<call[t].run, call[t].held>> IN
       /\ runner' = [runner EXCEPT ![q].done = TRUE]
       /\ Goto(t, IF runner[q].ctx = "nil" THEN "read" ELSE "context")
    /\ UNCHANGED <<row, stepRow, reserved, active, create>>

CancelContext(t) ==
    /\ call[t].pc = "context"
    /\ runner' = [runner EXCEPT ![<<call[t].run, call[t].held>>].ctx = "cancelled"]
    /\ Goto(t, "read")
    /\ UNCHANGED <<row, stepRow, reserved, active, create>>

ReadSteps(t) ==
    /\ call[t].pc = "read"
    /\ call' = [call EXCEPT ![t].pc = "steps",
                    ![t].snap = {s \in Steps :
                        stepRow[call[t].run][s] \in {"pending", "running"}}]
    /\ UNCHANGED <<row, stepRow, reserved, active, create, runner>>

SetSteps(t, st) ==
    stepRow' = [stepRow EXCEPT ![call[t].run] =
                   [s \in Steps |-> IF s \in call[t].snap THEN st ELSE @[s]]]

CancelSteps(t) ==
    /\ call[t].pc = "steps"
    /\ SetSteps(t, "cancelled")
    /\ Goto(t, "mark")
    /\ UNCHANGED <<row, reserved, active, create, runner>>

MarkCancelled(t) ==
    /\ call[t].pc = "mark"
    /\ row' = [row EXCEPT ![call[t].run] = "cancelled"]
    /\ Goto(t, "returned")
    /\ UNCHANGED <<stepRow, reserved, active, create, runner>>

(* RepairRun and RetryStep decide what to reset. *)
RepairRun(c, r) ==
    /\ Begin(c, r, "repair")
    /\ row[r] \in {"failed", "cancelled"}
    /\ Enter(c, "reset", r, None, {s \in Steps : stepRow[r][s] \in Unfinished})
    /\ UNCHANGED <<row, stepRow, reserved, active, create, runner>>

(* The handler checks the step, RetryStep reads the run again. *)
BeginRetry(c, r, s) ==
    /\ Begin(c, r, "retry")
    /\ stepRow[r][s] \in Unfinished
    /\ Enter(c, "retry", r, s, {})
    /\ UNCHANGED <<row, stepRow, reserved, active, create, runner>>

(* The steps that s leads to: the least set that has s and the dependents  *)
(* of its members.                                                         *)
Downstream(s) ==
    {t \in Steps : \A D \in SUBSET Steps :
        (s \in D /\ \A e \in Deps : e[2] \in D => e[1] \in D) => t \in D}

RetryStep(c) ==
    /\ call[c].pc = "retry"
    /\ call' = [call EXCEPT ![c].pc = "reset",
                    ![c].snap = {s \in Downstream(call[c].step) :
                        stepRow[call[c].run][s] \in Unfinished}]
    /\ UNCHANGED <<row, stepRow, reserved, active, create, runner>>

ResetSteps(c) ==
    /\ call[c].pc = "reset"
    /\ SetSteps(c, "pending")
    /\ Goto(c, "running")
    /\ UNCHANGED <<row, reserved, active, create, runner>>

(* rebuildAndStartRun *)
MarkRunning(c) ==
    /\ call[c].pc = "running"
    /\ row' = [row EXCEPT ![call[c].run] = "running"]
    /\ Goto(c, "build")
    /\ UNCHANGED <<stepRow, reserved, active, create, runner>>

Rebuild(c) ==
    /\ call[c].pc = "build"
    /\ runner' = [runner EXCEPT ![<<call[c].run, c>>] =
                     NewDAGRunner(stepRow[call[c].run])]
    /\ Goto(c, "swap")
    /\ UNCHANGED <<row, stepRow, reserved, active, create>>

(* The existing runner is cancelled and replaced. *)
SwapRunner(c) ==
    /\ call[c].pc = "swap"
    /\ LET r == call[c].run
           q == <<r, active[r]>>
       IN /\ runner' = IF active[r] = None THEN runner
                       ELSE [runner EXCEPT ![q].done = TRUE,
                                ![q].ctx = IF @ = "nil" THEN "nil" ELSE "cancelled"]
          /\ active' = [active EXCEPT ![r] = c]
    /\ Goto(c, "start")
    /\ UNCHANGED <<row, stepRow, reserved, create>>

StartRebuilt(c) ==
    /\ call[c].pc = "start"
    /\ Start(<<call[c].run, c>>)
    /\ Goto(c, "returned")
    /\ UNCHANGED <<row, reserved, active, create>>

-----------------------------------------------------------------------------
Creating(r) ==
    \/ CreateRow(r) \/ InsertRunSteps(r) \/ BuildRunner(r) \/ CreateFails(r)
    \/ Register(r) \/ MarkCreated(r) \/ StartCreated(r)

Cancelling(t) ==
    \/ TakeRunner(t) \/ CancelRunner(t) \/ CancelContext(t) \/ ReadSteps(t)
    \/ CancelSteps(t) \/ MarkCancelled(t)

Rebuilding(c) ==
    \/ RetryStep(c) \/ ResetSteps(c) \/ MarkRunning(c) \/ Rebuild(c)
    \/ SwapRunner(c) \/ StartRebuilt(c)

Running(q) ==
    WriteOutcome(q) \/ RemoveRunner(q) \/ \E s \in Steps : StepCompleted(q, s)

Next ==
    \/ \E r \in Runs : Refuse(r) \/ Reserve(r) \/ Creating(r) \/ TimeoutFires(r)
    \/ \E q \in Runs \X Builders : Running(q)
    \/ \E c \in Calls : \/ Rebuilding(c)
                        \/ \E r \in Runs :
                              \/ BeginCancel(c, r) \/ RepairRun(c, r)
                              \/ \E s \in Steps : BeginRetry(c, r, s)
    \/ \E t \in Threads : Cancelling(t)

Spec == Init /\ [][Next]_vars

(* Calls that were made go on, and the executor answers every execution    *)
(* (SessionExecutor says when it does).                                    *)
Fairness ==
    /\ \A r \in Runs : WF_vars(Creating(r))
    /\ \A q \in Runs \X Builders : WF_vars(Running(q))
    /\ \A c \in Calls : WF_vars(Rebuilding(c))
    /\ \A t \in Threads : WF_vars(Cancelling(t))

FairSpec == Spec /\ Fairness

-----------------------------------------------------------------------------
(* Properties *)

(* A runner that may still launch steps or write step rows. *)
Live(q) == runner[q].ctx = "live" /\ runner[q].report = "none"

(* "Check max concurrent runs and reserve a slot atomically to prevent a   *)
(* TOCTOU race" (CreateRun): the job never has more entries in activeRuns  *)
(* than its limit.                                                         *)
RunLimit == MaxConcurrentRuns > 0 => countActiveRunsForJob <= MaxConcurrentRuns

(* A run's slot is given back: a finished runner is not in activeRuns and  *)
(* a placeholder belongs to a CreateRun in progress.                       *)
NoSlotLeak ==
    /\ \A r \in Runs : active[r] # None => runner[<<r, active[r]>>].report # "finished"
    /\ \A r \in reserved : create[r] \in {"reserved", "created", "inserted", "built"}

(* A run that is marked running ends: completed, failed or cancelled.      *)
EveryRunEnds ==
    \A r \in Runs : row[r] = "running"
                        ~> row[r] \in {"completed", "failed", "cancelled"}

(* A live runner can be cancelled: it is the one in activeRuns, or a       *)
(* CancelRun that has taken it out is about to cancel it.                  *)
LiveIsRegistered ==
    \A r \in Runs, b \in Builders : Live(<<r, b>>) =>
        \/ active[r] = b
        \/ \E t \in Threads : /\ call[t].pc \in {"runner", "context"}
                              /\ call[t].run = r /\ call[t].held = b

(* "Cancel stops the DAGRunner context.  Safe to call before Start() and   *)
(* concurrently with Start()": a runner that CancelRun has cancelled does  *)
(* not execute steps.                                                      *)
CancelTakesEffect ==
    \A t \in Threads :
        call[t].pc \in {"read", "steps", "mark", "returned"} /\ call[t].held # None
            => ~Live(<<call[t].run, call[t].held>>)

(* A completed run has only completed steps, over all its attempts. *)
CompletedRunRow ==
    \A r \in Runs : row[r] = "completed" => \A s \in Steps : stepRow[r][s] = "completed"

(* A completed step is never executed again or taken back. *)
CompletedStepStays ==
    \A r \in Runs, s \in Steps :
       stepRow[r][s] = "completed" => stepRow'[r][s] = "completed"

(* The runs of a job: the limit of concurrent runs is kept and no slot     *)
(* leaks on an error path of CreateRun, a live runner is registered, a     *)
(* cancelled run does not go on, and the rows of completed runs and steps  *)
(* are true and stay so, over cancellations, timeouts, retries and         *)
(* repairs.                                                                *)
RunsSafe ==
    /\ [](/\ TypeOK /\ NoSlotLeak /\ RunLimit /\ LiveIsRegistered
          /\ CancelTakesEffect /\ CompletedRunRow)
    /\ [][CompletedStepStays]_vars
=============================================================================
