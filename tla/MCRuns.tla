------------------------------- MODULE MCRuns -------------------------------
(***************************************************************************)
(* The orchestrator's runs of a job with a chain of two steps and a third  *)
(* step on its own, and the validation that comes before a run:            *)
(*  - "create": two runs are created for one slot of the job, a timeout    *)
(*    may cancel them, no client interferes;                               *)
(*  - "rebuild": clients cancel, retry and repair one run without timeout; *)
(*  - "validate": ValidateDAG decides every dependency relation on four    *)
(*    steps in which only one step may depend on itself (8192 relations).  *)
(* The parts that part does not name stand still.                          *)
(***************************************************************************)
EXTENDS Orchestrator, ValidateDAG

CONSTANTS r1, r2, a, b, c, d, c1, c2, c3

Chain  == {<<b, a>>}

MCStepIds == {a, b, c, d}
MCGraphs  == SUBSET ({e \in MCStepIds \X MCStepIds : e[1] # e[2]} \cup {<<a, a>>})

VARIABLE part

runsVars == <<part, vars, validateVars>>

RunsInit ==
    /\ part \in {"create", "rebuild", "validate"}
    /\ Init /\ ValidateInit
    /\ part # "validate" => deps = {}

RunsNext ==
    /\ UNCHANGED part
    /\ \/ part # "validate" /\ Next /\ UNCHANGED validateVars
       \/ part = "validate" /\ ValidateNext /\ UNCHANGED vars

(* Client calls begin, runs are created and timeouts fire without being    *)
(* asked to by any fairness: leaving such steps out keeps the parts apart. *)
Apart ==
    /\ part = "create" => \A t \in Calls : call[t] = Idle
    /\ part = "rebuild" => /\ \A r \in Runs \ {r1} : create[r] = "none"
                           /\ \A r \in Runs : call[r] = Idle

Within(p, A) == part = p /\ A /\ UNCHANGED part

RunsFairness ==
    /\ \A r \in Runs :
          /\ WF_runsVars(Within("create", Creating(r) /\ UNCHANGED validateVars))
          /\ WF_runsVars(Within("create", Running(<<r, Creator>>) /\ UNCHANGED validateVars))
          /\ WF_runsVars(Within("create", Cancelling(r) /\ UNCHANGED validateVars))
    /\ WF_runsVars(Within("validate", ValidateNext /\ UNCHANGED vars))

RunsSpec == RunsInit /\ [][RunsNext]_runsVars /\ RunsFairness

(* A run that is marked running ends completed, failed or cancelled, if no *)
(* client retries it (EveryRunEnds is the same without this condition).    *)
CreatedRunEnds ==
    \A r \in Runs : part = "create" /\ row[r] = "running"
                        ~> row[r] \in {"completed", "failed", "cancelled"}

(* The loop of ValidateDAG ends, also on a graph with a cycle: an id is    *)
(* visited at most once, so a verdict is reached.                          *)
VerdictReached == part = "validate" ~> verdict # "none"

(* What begins ends: a created run, whatever its steps, failures and       *)
(* timeout do, and the validation of a graph with a cycle.                 *)
CallsEnd == CreatedRunEnds /\ VerdictReached
=============================================================================
