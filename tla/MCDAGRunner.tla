---------------------------- MODULE MCDAGRunner ----------------------------
(***************************************************************************)
(* Instances of DAGRunner for TLC: sets of jobs over three steps.          *)
(***************************************************************************)
EXTENDS DAGRunner

CONSTANTS a, b, c, k

MCSteps == {a, b, c}

(* Every dependency graph on three steps, up to renaming the steps. *)
Graphs == SUBSET {<<b, a>>, <<c, a>>, <<c, b>>}

Bools == [MCSteps -> BOOLEAN]
Choose(f, yes, no) == [s \in MCSteps |-> IF f[s] THEN yes ELSE no]
Only(s) == [t \in MCSteps |-> t = s]
All  == [t \in MCSteps |-> TRUE]
None == [t \in MCSteps |-> FALSE]

MkJob(deps, keyed, retry, failRun, allDone, delayed, finished) ==
    [deps       |-> deps,
     key        |-> Choose(keyed, k, NoKey),
     maxRetries |-> Choose(retry, 1, 0),
     onFailure  |-> Choose(failRun, "fail_run", "continue"),
     runIf      |-> Choose(allDone, "all_done", "all_success"),
     delay      |-> Choose(delayed, TRUE, FALSE),
     prior      |-> Choose(finished, "completed", "pending")]

(* Fresh runs: every graph and every set of steps that share the session   *)
(* key, with no step or all steps allowed one retry, step b                *)
(* failing the run or not, and one step or none with run_if = all_done.    *)
(* Step b is launched with a delay.                                        *)
FreshJobs ==
    {MkJob(g, keyed, retry, failRun, allDone, Only(b), None) :
        g \in Graphs, keyed \in Bools, retry \in {None, All},
        failRun \in {None, Only(b)}, allDone \in {None, Only(c)}}

(* Runs rebuilt by RepairRun: some steps completed in an earlier attempt. *)
RepairedJobs ==
    {MkJob(g, keyed, Only(b), None, allDone, None, finished) :
        g \in Graphs, keyed \in {None, All}, allDone \in {None, Only(c)},
        finished \in {Only(a), Only(c)}}

MCJobs == FreshJobs \cup RepairedJobs
=============================================================================
