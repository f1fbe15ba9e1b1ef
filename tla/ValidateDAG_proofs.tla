------------------------- MODULE ValidateDAG_proofs -------------------------
(***************************************************************************)
(* ValidateDAG decides acyclicity of every dependency relation on every    *)
(* finite set of steps.                                                    *)
(***************************************************************************)
EXTENDS ValidateDAG, FiniteSetTheorems, TLAPS

(* Everything counted is a set of steps: finite, with a natural size. *)
LEMMA StepSets ==
    ASSUME NEW S \in SUBSET StepIds
    PROVE  /\ IsFiniteSet(S)
           /\ Cardinality(S) \in Nat
           /\ Cardinality(S) = 0 <=> S = {}
           /\ Cardinality(S) <= Cardinality(StepIds)
           /\ Cardinality(S) = Cardinality(StepIds) => S = StepIds
<1>1. IsFiniteSet(S) /\ Cardinality(S) <= Cardinality(StepIds)
      /\ (Cardinality(S) = Cardinality(StepIds) => S = StepIds)
  BY FS_Subset, GraphAssumption
<1>2. QED
  BY <1>1, FS_CardinalityType, FS_EmptySet

(* Removing and adding one step moves the size by one. *)
LEMMA StepSetSizes ==
    ASSUME NEW S \in SUBSET StepIds, NEW x \in StepIds
    PROVE  /\ x \in S => Cardinality(S \ {x}) = Cardinality(S) - 1
           /\ x \notin S => Cardinality(S \cup {x}) = Cardinality(S) + 1
  BY StepSets, FS_RemoveElement, FS_AddElement

IInv == ValidateTypeOK /\ KahnInv

LEMMA KahnInit == ValidateInit => IInv
<1> SUFFICES ASSUME ValidateInit PROVE IInv
  OBVIOUS
<1>1. ValidateTypeOK
  <2>1. \A s \in StepIds : DependsOn(s) \in SUBSET StepIds
    BY DEF DependsOn
  <2>2. inDegree \in [StepIds -> Nat]
    BY <2>1, StepSets DEF ValidateInit
  <2>3. QED
    BY <2>2 DEF ValidateInit, ValidateTypeOK
<1>2. Visited = {}
  BY DEF Visited, ValidateInit
<1>3. Cardinality({}) = 0
  BY FS_EmptySet
<1>4. \A s \in StepIds : DependsOn(s) \ {} = DependsOn(s)
  OBVIOUS
<1>5. ASSUME NEW C \in SUBSET StepIds, Stuck(C), NEW s \in C
      PROVE  inDegree[s] # 0
  <2>1. DependsOn(s) # {} /\ DependsOn(s) \in SUBSET StepIds
    BY <1>5 DEF Stuck, DependsOn
  <2>2. inDegree[s] = Cardinality(DependsOn(s))
    BY DEF ValidateInit
  <2>3. QED
    BY <2>1, <2>2, StepSets
<1>6. QED
  BY <1>1, <1>2, <1>3, <1>4, <1>5 DEF IInv, KahnInv, ValidateInit

(* The step that matters: visiting a node takes it out of the dependencies *)
(* that are left, of every step and exactly once.                          *)
LEMMA KahnVisit ==
    ASSUME IInv, NEW node \in StepIds, Visit(node)
    PROVE  IInv'
<1> USE DEF IInv
<1>a. /\ deps' = deps /\ verdict' = verdict /\ visited' = visited + 1
      /\ node \in queue /\ inDegree[node] = 0
  BY DEF Visit, KahnInv
<1>b. \A s \in StepIds : inDegree'[s] = IF <<s, node>> \in deps
                                      THEN inDegree[s] - 1 ELSE inDegree[s]
  BY DEF Visit
<1>c. \A s \in StepIds : DependsOn(s) \in SUBSET StepIds /\ DependsOn(s)' = DependsOn(s)
  BY <1>a DEF DependsOn
<1>d. Visited \in SUBSET StepIds /\ node \notin Visited
  BY <1>a DEF Visited
<1>1. \A s \in StepIds : <<s, node>> \in deps => inDegree[s] > 0
  <2> SUFFICES ASSUME NEW s \in StepIds, <<s, node>> \in deps
               PROVE  inDegree[s] > 0
    OBVIOUS
  <2>1. node \in DependsOn(s) \ Visited
    BY <1>d DEF DependsOn
  <2>2. inDegree[s] = Cardinality(DependsOn(s) \ Visited)
    BY DEF KahnInv
  <2>3. QED
    BY <2>1, <2>2, <1>c, StepSets
<1>2. <<node, node>> \notin deps
  BY <1>1, <1>a
<1>3. Visited' = Visited \cup {node}
  <2>1. ASSUME NEW s \in StepIds PROVE s \in Visited' <=> s \in Visited \cup {node}
    <3>1. CASE <<s, node>> \in deps
      <4>1. s # node /\ inDegree[s] > 0 /\ s \notin Visited
        BY <3>1, <1>1, <1>2 DEF Visited
      <4>2. inDegree'[s] = 0 => s \in queue'
        BY <3>1 DEF Visit
      <4>3. QED
        BY <4>1, <4>2 DEF Visited
    <3>2. CASE <<s, node>> \notin deps
      <4>1. inDegree'[s] = inDegree[s] /\ (s \in queue' <=> s \in queue \ {node})
        BY <3>2, <1>b DEF Visit
      <4>2. QED
        BY <4>1, <1>a DEF Visited
    <3>3. QED
      BY <3>1, <3>2
  <2>2. Visited' \in SUBSET StepIds
    BY DEF Visited
  <2>3. QED
    BY <2>1, <2>2, <1>d
<1>4. ValidateTypeOK'
  <2>1. inDegree' \in [StepIds -> Nat]
    <3>1. \A s \in StepIds : (IF <<s, node>> \in deps
                            THEN inDegree[s] - 1 ELSE inDegree[s]) \in Nat
      BY <1>1 DEF ValidateTypeOK
    <3>2. QED
      BY <3>1 DEF Visit
  <2>2. QED
    BY <2>1, <1>a DEF ValidateTypeOK, Visit
<1>5. \A s \in queue' : inDegree'[s] = 0
  <2> SUFFICES ASSUME NEW s \in queue' PROVE inDegree'[s] = 0
    OBVIOUS
  <2>1. CASE s \in queue
    <3>1. inDegree[s] = 0 /\ s \in StepIds
      BY <2>1 DEF KahnInv, ValidateTypeOK
    <3>2. <<s, node>> \notin deps
      BY <3>1, <1>1
    <3>3. QED
      BY <3>1, <3>2, <1>b
  <2>2. CASE s \notin queue
    <3>1. queue' = (queue \ {node})
                   \cup {t \in StepIds : <<t, node>> \in deps /\ inDegree'[t] = 0}
      BY DEF Visit
    <3>2. QED
      BY <3>1, <2>2
  <2>3. QED
    BY <2>1, <2>2
<1>6. ASSUME NEW s \in StepIds
      PROVE  inDegree'[s] = Cardinality(DependsOn(s)' \ Visited')
  <2> DEFINE Left == DependsOn(s) \ Visited
  <2>0. Left \in SUBSET StepIds /\ inDegree[s] = Cardinality(Left)
    BY <1>c DEF KahnInv
  <2>1. DependsOn(s)' \ Visited' = Left \ {node}
    BY <1>3, <1>c
  <2>2. CASE <<s, node>> \in deps
    <3>1. node \in Left
      BY <2>2, <1>d DEF DependsOn
    <3>2. Cardinality(Left \ {node}) = Cardinality(Left) - 1
      BY <3>1, <2>0, StepSetSizes
    <3>3. QED
      BY <3>2, <2>0, <2>1, <2>2, <1>b
  <2>3. CASE <<s, node>> \notin deps
    <3>1. Left \ {node} = Left
      BY <2>3 DEF DependsOn
    <3>2. QED
      BY <3>1, <2>0, <2>1, <2>3, <1>b
  <2>4. QED
    BY <2>2, <2>3
<1>7. visited' = Cardinality(Visited')
  BY <1>3, <1>a, <1>d, StepSetSizes DEF KahnInv
<1>8. ASSUME NEW C \in SUBSET StepIds, Stuck(C)', NEW s \in C
      PROVE  inDegree'[s] # 0
  <2>1. Stuck(C)
    BY <1>8, <1>a DEF Stuck
  <2>2. PICK u \in C : <<s, u>> \in deps
    BY <2>1 DEF Stuck
  <2>3. inDegree[u] # 0
    BY <2>1 DEF KahnInv
  <2>4. u \in DependsOn(s)' \ Visited'
    BY <2>2, <2>3, <1>3, <1>a, <1>c DEF Visited, DependsOn
  <2>5. DependsOn(s)' \ Visited' \in SUBSET StepIds
    BY <1>c
  <2>6. Cardinality(DependsOn(s)' \ Visited') # 0
    BY <2>4, <2>5, StepSets
  <2>7. QED
    BY <2>6, <1>6
<1>9. verdict' = "none"
  <2>1. verdict = "none"
    BY <1>a DEF KahnInv, ValidateTypeOK
  <2>2. QED
    BY <2>1, <1>a
<1>10. QED
  BY <1>4, <1>5, <1>6, <1>7, <1>8, <1>9 DEF KahnInv

LEMMA KahnReturn ==
    ASSUME IInv, Return
    PROVE  IInv'
<1>1. deps' = deps /\ inDegree' = inDegree /\ queue' = queue /\ visited' = visited
  BY DEF Return
<1>2. ValidateTypeOK'
  BY <1>1 DEF IInv, ValidateTypeOK, Return
<1>3. Visited' = Visited /\ \A s \in StepIds : DependsOn(s)' = DependsOn(s)
  BY <1>1 DEF Visited, DependsOn
<1>4. \A C \in SUBSET StepIds : Stuck(C)' <=> Stuck(C)
  BY <1>1 DEF Stuck
<1>5. /\ verdict' # "none" => queue' = {}
      /\ verdict' = "ok" => visited' = Cardinality(StepIds)
      /\ verdict' = "cycle" => visited' # Cardinality(StepIds)
  BY DEF Return
<1>6. QED
  BY <1>1, <1>2, <1>3, <1>4, <1>5 DEF IInv, KahnInv

LEMMA KahnStutter ==
    ASSUME IInv, UNCHANGED validateVars
    PROVE  IInv'
<1>1. Visited' = Visited /\ \A s \in StepIds : DependsOn(s)' = DependsOn(s)
  BY DEF Visited, DependsOn, validateVars
<1>2. \A C \in SUBSET StepIds : Stuck(C)' <=> Stuck(C)
  BY DEF Stuck, validateVars
<1>3. QED
  BY <1>1, <1>2 DEF IInv, ValidateTypeOK, KahnInv, validateVars

(* An accepted graph has no stuck set: a member of one would wait for a    *)
(* dependency that was never visited.  A refused graph has one: the steps  *)
(* that were not visited.                                                  *)
LEMMA KahnDecides == IInv => VerdictCorrect
<1> SUFFICES ASSUME IInv PROVE VerdictCorrect
  OBVIOUS
<1>a. Visited \in SUBSET StepIds
  BY DEF Visited
<1>b. \A s \in StepIds : /\ DependsOn(s) \ Visited \in SUBSET StepIds
                       /\ inDegree[s] = Cardinality(DependsOn(s) \ Visited)
  BY DEF IInv, KahnInv, DependsOn
<1>1. ASSUME verdict = "ok" PROVE Acyclic
  <2>1. Visited = StepIds
    BY <1>1, <1>a, StepSets DEF IInv, KahnInv
  <2>2. \A s \in StepIds : inDegree[s] = 0
    BY <2>1 DEF Visited
  <2>3. QED
    BY <2>2 DEF Acyclic, IInv, KahnInv
<1>2. ASSUME verdict = "cycle" PROVE ~Acyclic
  <2> DEFINE C == StepIds \ Visited
  <2>1. C # {}
    BY <1>2, <1>a DEF IInv, KahnInv
  <2>2. Stuck(C)
    <3> SUFFICES ASSUME NEW s \in C PROVE \E u \in C : <<s, u>> \in deps
      BY DEF Stuck
    <3>1. inDegree[s] # 0
      BY <1>2 DEF IInv, KahnInv, Visited
    <3>2. DependsOn(s) \ Visited # {}
      BY <3>1, <1>b, StepSets
    <3>3. QED
      BY <3>2 DEF DependsOn
  <2>3. QED
    BY <2>1, <2>2 DEF Acyclic
<1>3. QED
  BY <1>1, <1>2 DEF VerdictCorrect

(* For every finite set of steps and every dependency relation, the        *)
(* verdict ValidateDAG returns is the right one: CreateRun starts a run    *)
(* only for a graph without cycles, and refuses no such graph.             *)
THEOREM ValidateDAGCorrect == ValidateSpec => []VerdictCorrect
<1>1. IInv /\ [ValidateNext]_validateVars => IInv'
  BY KahnVisit, KahnReturn, KahnStutter DEF ValidateNext
<1>2. QED
  BY <1>1, KahnInit, KahnDecides, PTL DEF ValidateSpec

=============================================================================
