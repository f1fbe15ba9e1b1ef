------------------------------- MODULE JobRun -------------------------------
(***************************************************************************)
(* What one run of a job promises, without in-degree counters, work        *)
(* queues, deferred lists or locks: which steps may start when, what a     *)
(* failure does to the rest of the run, and what is reported at the end.   *)
(* DAGRunner implements this specification.                                *)
(***************************************************************************)
EXTENDS Job

VARIABLES job,      \* the job this run executes
          st,       \* the state of each step
          tries,    \* the attempt each step is in, counted from 1
          stopped,  \* the run was cancelled or failed as a whole
          outcome   \* the statuses reported through onRunComplete

vars == <<job, st, tries, stopped, outcome>>

Settled(s) == SettledAs(job, st, s)

(* Every dependency of s is decided. *)
Ready(s) == st[s] = "pending" /\ \A u \in Upstream(job, s) : Settled(u)

(* run_if: all_done runs whatever happened upstream. *)
MayRun(s) ==
    \/ job.runIf[s] = "all_done"
    \/ \A u \in Upstream(job, s) : st[u] = "completed"

(* No other step that this run started uses the session key of s. *)
KeyFree(s) ==
    job.key[s] # NoKey =>
        \A t \in Steps \ {s} : st[t] = "running" /\ ~Inherited(job, t) => job.key[t] # job.key[s]

Exhausted(s) == ~(job.maxRetries[s] > 0 /\ tries[s] <= job.maxRetries[s])

Init == /\ job \in Jobs
        /\ st = job.prior
        /\ tries = [s \in Steps |-> 1]
        /\ stopped = FALSE
        /\ outcome = <<>>

Run(s) == /\ Ready(s) /\ MayRun(s) /\ KeyFree(s)
          /\ st' = [st EXCEPT ![s] = "running"]
          /\ UNCHANGED <<job, tries, stopped, outcome>>

Skip(s) == /\ Ready(s) /\ ~MayRun(s)
           /\ st' = [st EXCEPT ![s] = "skipped"]
           /\ UNCHANGED <<job, tries, stopped, outcome>>

Succeed(s) == /\ ~stopped /\ st[s] = "running"
              /\ st' = [st EXCEPT ![s] = "completed"]
              /\ UNCHANGED <<job, tries, stopped, outcome>>

Retry(s) == /\ ~stopped /\ st[s] = "running" /\ ~Exhausted(s)
            /\ st' = [st EXCEPT ![s] = "retrying"]
            /\ tries' = [tries EXCEPT ![s] = @ + 1]
            /\ UNCHANGED <<job, stopped, outcome>>

Fail(s) == /\ ~stopped /\ st[s] = "running" /\ Exhausted(s)
           /\ job.onFailure[s] # "fail_run"
           /\ st' = [st EXCEPT ![s] = "failed"]
           /\ UNCHANGED <<job, tries, stopped, outcome>>

FailRun(s) == /\ ~stopped /\ st[s] = "running" /\ Exhausted(s)
              /\ job.onFailure[s] = "fail_run"
              /\ outcome = <<>>
              /\ st' = [t \in Steps |-> CASE t = s -> "failed"
                                          [] t # s /\ st[t] = "pending" -> "skipped"
                                          [] t # s /\ st[t] = "running" -> "cancelled"
                                          [] OTHER -> st[t]]
              /\ stopped' = TRUE
              /\ outcome' = <<"failed">>
              /\ UNCHANGED <<job, tries>>

(* A retry starts, or goes back to waiting because its key was taken. *)
Rerun(s) == /\ ~stopped /\ st[s] = "retrying"
            /\ \/ KeyFree(s) /\ st' = [st EXCEPT ![s] = "running"]
               \/ st' = [st EXCEPT ![s] = "pending"]
            /\ UNCHANGED <<job, tries, stopped, outcome>>

(* The retry of a stopped run is dropped. *)
GiveUp(s) == /\ stopped /\ st[s] = "retrying"
             /\ st' = [st EXCEPT ![s] = "failed"]
             /\ UNCHANGED <<job, tries, stopped, outcome>>

Stop == /\ ~stopped
        /\ stopped' = TRUE
        /\ UNCHANGED <<job, st, tries, outcome>>

Finish == /\ outcome = <<>>
          /\ \A s \in Steps : Settled(s)
          /\ outcome' = IF \E s \in Steps : st[s] = "failed"
                        THEN <<"failed">> ELSE <<"completed">>
          /\ UNCHANGED <<job, st, tries, stopped>>

Next == \/ \E s \in Steps : \/ Run(s) \/ Skip(s) \/ Succeed(s) \/ Retry(s)
                            \/ Fail(s) \/ FailRun(s) \/ Rerun(s) \/ GiveUp(s)
        \/ Stop
        \/ Finish

Spec == Init /\ [][Next]_vars

=============================================================================
