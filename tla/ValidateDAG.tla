---------------------------- MODULE ValidateDAG ----------------------------
(***************************************************************************)
(* ValidateDAG (internal/server/orchestrator/dag_runner.go): Kahn's        *)
(* algorithm, which CreateRun uses to refuse a job whose step dependencies *)
(* have a cycle.  One action per iteration of the outer loop.  The queue   *)
(* is a set: it is filled in the order of a Go map, so any order may be    *)
(* met, and an id is queued at most once, when its in-degree reaches zero. *)
(***************************************************************************)
EXTENDS Integers, FiniteSets

CONSTANTS StepIds,  \* the step ids of a job
          Graphs  \* the dependency relations to decide

ASSUME GraphAssumption == /\ IsFiniteSet(StepIds)
                          /\ Graphs \subseteq SUBSET (StepIds \X StepIds)

VARIABLES deps,      \* the pairs <<step, dependsOn>>
          inDegree,  \* per step, the dependencies not yet removed
          queue,     \* the ids that wait to be visited
          visited,   \* how many ids were visited
          verdict    \* what the function returns

validateVars == <<deps, inDegree, queue, visited, verdict>>

(* The types of the graph and of the counters of the visit.                *)
ValidateTypeOK ==
    /\ deps \in Graphs
    /\ inDegree \in [StepIds -> Nat]
    /\ queue \subseteq StepIds
    /\ visited \in Nat
    /\ verdict \in {"none", "ok", "cycle"}

DependsOn(s) == {u \in StepIds : <<s, u>> \in deps}

ValidateInit ==
    /\ deps \in Graphs
    /\ inDegree = [s \in StepIds |-> Cardinality(DependsOn(s))]
    /\ queue = {s \in StepIds : inDegree[s] = 0}
    /\ visited = 0
    /\ verdict = "none"

(* The inner loop: decrement the dependents of node, queue those at zero.  *)
Visit(node) ==
    /\ node \in queue
    /\ visited' = visited + 1
    /\ inDegree' = [s \in StepIds |->
           IF <<s, node>> \in deps THEN inDegree[s] - 1 ELSE inDegree[s]]
    /\ queue' = (queue \ {node})
                \cup {s \in StepIds : <<s, node>> \in deps /\ inDegree'[s] = 0}
    /\ UNCHANGED <<deps, verdict>>

Mutant_Return ==
    /\ queue = {}
    /\ verdict = "none"
    /\ verdict' = IF visited + 1 < Cardinality(StepIds) THEN "cycle" ELSE "ok"
    /\ UNCHANGED <<deps, inDegree, queue, visited>>

(* The loop is left when every id was visited, not when the queue is empty. *)
Return ==
    /\ queue = {}
    /\ verdict = "none"
    /\ verdict' = IF visited # Cardinality(StepIds) THEN "cycle" ELSE "ok"
    /\ UNCHANGED <<deps, inDegree, queue, visited>>

ValidateNext == Return \/ \E node \in StepIds : Visit(node)

ValidateSpec == /\ ValidateInit /\ [][ValidateNext]_validateVars
                /\ WF_validateVars(ValidateNext)

-----------------------------------------------------------------------------
(* A set of steps with a dependency inside the set for each of its members *)
(* keeps all of them waiting for ever: a finite graph has a cycle iff it   *)
(* has such a set that is not empty.                                       *)
Stuck(C) == \A s \in C : \E u \in C : <<s, u>> \in deps

Acyclic == \A C \in SUBSET StepIds : Stuck(C) => C = {}

(* The verdict is right both ways: a job is accepted exactly when its      *)
(* dependencies have no cycle, whatever order the ids are visited in       *)
(* (self-dependencies and disconnected parts included).                    *)
VerdictCorrect == /\ verdict = "ok" => Acyclic
                  /\ verdict = "cycle" => ~Acyclic

-----------------------------------------------------------------------------
(* The inductive invariant.  A step whose in-degree is zero is queued or   *)
(* was visited; every other step has exactly its unvisited dependencies    *)
(* left; and the members of a stuck set are never reached.                 *)
Visited == {s \in StepIds : inDegree[s] = 0} \ queue

KahnInv == /\ \A s \in queue : inDegree[s] = 0
           /\ \A s \in StepIds : inDegree[s] = Cardinality(DependsOn(s) \ Visited)
           /\ \A C \in SUBSET StepIds :
                  Stuck(C) => \A s \in C : inDegree[s] # 0
           /\ visited = Cardinality(Visited)
           /\ verdict # "none" => queue = {}
           /\ verdict = "ok" => visited = Cardinality(StepIds)
           /\ verdict = "cycle" => visited # Cardinality(StepIds)
=============================================================================
