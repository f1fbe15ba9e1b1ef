----------------------- MODULE SessionExecutor_proofs -----------------------
(***************************************************************************)
(* The bookkeeping of the step executor, for every set of steps, every     *)
(* choice of the steps that share the session key and every channel        *)
(* capacity: an execution is answered at most once, and stays tracked      *)
(* until it is.                                                            *)
(***************************************************************************)
EXTENDS SessionExecutor, SequenceTheorems, TLAPS

Phases == {"idle", "launched", "create", "register", "track", "reuse",
           "input", "returned"}

(* The types of the variables that decide who is answered. *)
CallsOK == /\ phase \in [Steps -> Phases]
           /\ target \in [Steps -> Steps \cup {NoStep}]
           /\ result \in [Steps -> Seq({"ok", "failed"})]
           /\ shared \in Shared \cup {NoStep}
           /\ track \in [Steps -> Steps \cup {NoStep}]

EInv == CallsOK /\ TrackingInv /\ CalledBackOnce /\ StaysTracked

(* What appending one answer to none gives. *)
LEMMA OneAnswer ==
    ASSUME NEW code \in {"ok", "failed"}
    PROVE  /\ Append(<<>>, code) \in Seq({"ok", "failed"})
           /\ Append(<<>>, code) # <<>>
           /\ Len(Append(<<>>, code)) = 1
           /\ Len(<<>>) = 0
  OBVIOUS

LEMMA EInit == Init => EInv
<1> SUFFICES ASSUME Init PROVE EInv
  OBVIOUS
<1>1. CallsOK
  <2>1. result \in [Steps -> Seq({"ok", "failed"})]
    BY DEF Init
  <2>2. QED
    BY <2>1 DEF Init, CallsOK, Phases
<1>2. TrackingInv
  BY ExecutorAssumption DEF Init, TrackingInv, Early, Outstanding
<1>3. CalledBackOnce /\ StaysTracked
  BY DEF Init, CalledBackOnce, StaysTracked
<1>4. QED
  BY <1>1, <1>2, <1>3 DEF EInv

(* Steps that touch none of these variables. *)
LEMMA Untouched ==
    ASSUME EInv, UNCHANGED <<phase, target, result, shared, track>>
    PROVE  EInv'
  BY DEF EInv, CallsOK, TrackingInv, CalledBackOnce, StaysTracked, Outstanding

(* A step moves between the phases before it is handed over. *)
LEMMA EarlyMove ==
    ASSUME EInv, NEW s \in Steps, NEW p \in Early \ {"idle"},
           phase[s] \in Early,
           Goto(s, p),
           target' \in [Steps -> Steps \cup {NoStep}],
           \A t \in Steps \ {s} : target'[t] = target[t],
           shared' \in Shared \cup {NoStep},
           UNCHANGED <<result, track>>,
           p = "register" => s \in Shared,
           p = "reuse" => s \in Shared /\ target'[s] \in Shared,
           phase[s] = "idle" /\ s \in Shared =>
               \A t \in Shared \ {s} : phase[t] = "idle" \/ result[t] # <<>>
    PROVE  EInv'
<1>1. CallsOK'
  BY DEF EInv, CallsOK, Goto, Phases, Early
<1>2. /\ \A t \in Steps : phase'[t] = IF t = s THEN p ELSE phase[t]
      /\ result' = result /\ track' = track
  BY DEF Goto, EInv, CallsOK
<1>3. TrackingInv'
  <2>1. \A t \in Steps : phase'[t] \in Early => result'[t] = <<>>
    BY <1>2 DEF EInv, TrackingInv
  <2>2. \A t \in Steps : phase'[t] = "register" => t \in Shared
    BY <1>2 DEF EInv, TrackingInv
  <2>3. \A t \in Steps : phase'[t] \in {"reuse", "input"} =>
            t \in Shared /\ target'[t] \in Shared
    BY <1>2 DEF EInv, TrackingInv, Early
  <2>4. \A x \in Steps : track'[x] # NoStep =>
            /\ result'[track'[x]] = <<>> /\ phase'[track'[x]] \notin Early
            /\ IF x \in Shared THEN track'[x] \in Shared ELSE track'[x] = x
    <3> SUFFICES ASSUME NEW x \in Steps, track[x] # NoStep
                 PROVE  /\ result'[track[x]] = <<>> /\ phase'[track[x]] \notin Early
                        /\ IF x \in Shared THEN track[x] \in Shared ELSE track[x] = x
      BY <1>2
    <3>1. /\ result[track[x]] = <<>> /\ phase[track[x]] \notin Early
          /\ IF x \in Shared THEN track[x] \in Shared ELSE track[x] = x
          /\ track[x] \in Steps
      BY DEF EInv, TrackingInv, CallsOK
    <3>2. QED
      BY <3>1, <1>2
  <2>5. \A x, y \in Steps : track'[x] = track'[y] /\ track'[x] # NoStep => x = y
    BY <1>2 DEF EInv, TrackingInv
  <2>6. \A t, u \in Shared :
            (phase'[t] # "idle" /\ result'[t] = <<>>)
            /\ (phase'[u] # "idle" /\ result'[u] = <<>>) => t = u
    BY <1>2, ExecutorAssumption DEF EInv, TrackingInv, Outstanding
  <2>7. QED
    BY <2>1, <2>2, <2>3, <2>4, <2>5, <2>6 DEF TrackingInv, Outstanding
<1>4. CalledBackOnce'
  BY <1>2 DEF EInv, CalledBackOnce
<1>5. StaysTracked'
  BY <1>2 DEF EInv, StaysTracked, Early
<1>6. QED
  BY <1>1, <1>3, <1>4, <1>5 DEF EInv

(* A step fails before it is handed over: nobody tracks it. *)
LEMMA EarlyFailure ==
    ASSUME EInv, NEW s \in Steps, phase[s] \in Early \ {"idle"}, FailStep(s),
           UNCHANGED <<target, shared, track>>
    PROVE  EInv'
<1>1. result[s] = <<>>
  BY DEF EInv, TrackingInv
<1>2. /\ \A t \in Steps : phase'[t] = IF t = s THEN "returned" ELSE phase[t]
      /\ \A t \in Steps : result'[t] = IF t = s THEN Append(<<>>, "failed") ELSE result[t]
      /\ track' = track /\ target' = target
  BY <1>1 DEF FailStep, Goto, EInv, CallsOK
<1>3. CallsOK'
  <2>1. result' \in [Steps -> Seq({"ok", "failed"})]
    BY <1>1, OneAnswer DEF FailStep, EInv, CallsOK
  <2>2. QED
    BY <2>1 DEF FailStep, Goto, EInv, CallsOK, Phases
<1>4. \A x \in Steps : track[x] # s
  BY ExecutorAssumption DEF EInv, TrackingInv
<1>5. Append(<<>>, "failed") # <<>> /\ Len(Append(<<>>, "failed")) <= 1
  BY OneAnswer
<1>6. TrackingInv'
  <2>1. \A t \in Steps : phase'[t] \in Early => result'[t] = <<>>
    BY <1>2 DEF EInv, TrackingInv, Early
  <2>2. \A t \in Steps : /\ phase'[t] = "register" => t \in Shared
                         /\ phase'[t] \in {"reuse", "input"} =>
                                t \in Shared /\ target'[t] \in Shared
    BY <1>2 DEF EInv, TrackingInv
  <2>3. \A x \in Steps : track'[x] # NoStep =>
            /\ result'[track'[x]] = <<>> /\ phase'[track'[x]] \notin Early
            /\ IF x \in Shared THEN track'[x] \in Shared ELSE track'[x] = x
    <3> SUFFICES ASSUME NEW x \in Steps, track[x] # NoStep
                 PROVE  /\ result'[track[x]] = <<>> /\ phase'[track[x]] \notin Early
                        /\ IF x \in Shared THEN track[x] \in Shared ELSE track[x] = x
      BY <1>2
    <3>1. /\ result[track[x]] = <<>> /\ phase[track[x]] \notin Early
          /\ IF x \in Shared THEN track[x] \in Shared ELSE track[x] = x
          /\ track[x] \in Steps
      BY DEF EInv, TrackingInv, CallsOK
    <3>2. QED
      BY <3>1, <1>2, <1>4
  <2>4. \A x, y \in Steps : track'[x] = track'[y] /\ track'[x] # NoStep => x = y
    BY <1>2 DEF EInv, TrackingInv
  <2>5. \A t, u \in Shared :
            (phase'[t] # "idle" /\ result'[t] = <<>>)
            /\ (phase'[u] # "idle" /\ result'[u] = <<>>) => t = u
    BY <1>2, <1>5, ExecutorAssumption DEF EInv, TrackingInv, Outstanding
  <2>6. QED
    BY <2>1, <2>2, <2>3, <2>4, <2>5 DEF TrackingInv, Outstanding
<1>7. CalledBackOnce'
  <2> SUFFICES ASSUME NEW t \in Steps PROVE Len(result'[t]) <= 1
    BY DEF CalledBackOnce
  <2>1. CASE t = s
    <3>1. result'[t] = Append(<<>>, "failed")
      BY <2>1, <1>2, Zenon
    <3>2. QED
      BY <3>1, <1>5, Zenon
  <2>2. CASE t # s
    <3>1. result'[t] = result[t]
      BY <2>2, <1>2
    <3>2. Len(result[t]) <= 1
      BY DEF EInv, CalledBackOnce
    <3>3. QED
      BY <3>1, <3>2
  <2>3. QED
    BY <2>1, <2>2
<1>8. StaysTracked'
  BY <1>2, <1>5 DEF EInv, StaysTracked
<1>9. QED
  BY <1>3, <1>6, <1>7, <1>8 DEF EInv

(* A step is handed over: an entry for it is written on a session that had *)
(* none.                                                                   *)
LEMMA HandOver ==
    ASSUME EInv, NEW s \in Steps, NEW x \in Steps, NEW p \in {"input", "returned"},
           phase[s] \in {"track", "reuse"},
           Goto(s, p),
           track' = [track EXCEPT ![x] = s],
           IF x \in Shared THEN s \in Shared ELSE s = x,
           p = "input" => s \in Shared /\ target[s] \in Shared,
           UNCHANGED <<target, result, shared>>
    PROVE  EInv'
<1>1. result[s] = <<>> /\ phase[s] \in Early /\ phase[s] # "idle"
  BY DEF EInv, TrackingInv, Early
<1>2. /\ \A t \in Steps : phase'[t] = IF t = s THEN p ELSE phase[t]
      /\ \A y \in Steps : track'[y] = IF y = x THEN s ELSE track[y]
      /\ result' = result /\ target' = target
  BY DEF Goto, EInv, CallsOK
<1>3. CallsOK'
  BY DEF Goto, EInv, CallsOK, Phases
<1>4. \A y \in Steps : track[y] # s
  BY <1>1, ExecutorAssumption DEF EInv, TrackingInv
(* The step the entry names would be outstanding too. *)
<1>5. track[x] = NoStep
  <2> SUFFICES ASSUME track[x] # NoStep PROVE FALSE
    OBVIOUS
  <2>1. /\ result[track[x]] = <<>> /\ phase[track[x]] \notin Early
        /\ IF x \in Shared THEN track[x] \in Shared ELSE track[x] = x
    BY DEF EInv, TrackingInv
  <2>2. phase[track[x]] # "idle" /\ track[x] # s
    BY <2>1, <1>1 DEF Early
  <2>3. CASE x \in Shared
    <3>1. s \in Shared /\ track[x] \in Shared
      BY <2>3, <2>1
    <3>2. Outstanding(s) /\ Outstanding(track[x])
      BY <2>1, <2>2, <1>1 DEF Outstanding
    <3>3. QED
      BY <3>1, <3>2, <2>2 DEF EInv, TrackingInv
  <2>4. CASE x \notin Shared
    BY <2>4, <2>1, <2>2
  <2>5. QED
    BY <2>3, <2>4
<1>6. TrackingInv'
  <2>1. \A t \in Steps : phase'[t] \in Early => result'[t] = <<>>
    BY <1>1, <1>2 DEF EInv, TrackingInv
  <2>2. \A t \in Steps : /\ phase'[t] = "register" => t \in Shared
                         /\ phase'[t] \in {"reuse", "input"} =>
                                t \in Shared /\ target'[t] \in Shared
    BY <1>2 DEF EInv, TrackingInv
  <2>3. ASSUME NEW y \in Steps, track'[y] # NoStep
        PROVE  /\ result'[track'[y]] = <<>> /\ phase'[track'[y]] \notin Early
               /\ IF y \in Shared THEN track'[y] \in Shared ELSE track'[y] = y
    <3>1. CASE y = x
      BY <3>1, <1>1, <1>2 DEF Early
    <3>2. CASE y # x
      <4>1. track'[y] = track[y] /\ track[y] \in Steps /\ track[y] # s
        BY <3>2, <2>3, <1>2, <1>4 DEF EInv, CallsOK
      <4>2. /\ result[track[y]] = <<>> /\ phase[track[y]] \notin Early
            /\ IF y \in Shared THEN track[y] \in Shared ELSE track[y] = y
        BY <4>1, <2>3 DEF EInv, TrackingInv
      <4>3. QED
        BY <4>1, <4>2, <1>2
    <3>3. QED
      BY <3>1, <3>2
  <2>4. \A y, z \in Steps : track'[y] = track'[z] /\ track'[y] # NoStep => y = z
    BY <1>2, <1>4 DEF EInv, TrackingInv
  <2>5. \A t, u \in Shared :
            (phase'[t] # "idle" /\ result'[t] = <<>>)
            /\ (phase'[u] # "idle" /\ result'[u] = <<>>) => t = u
    BY <1>2, <1>1, ExecutorAssumption DEF EInv, TrackingInv, Outstanding
  <2>6. QED
    BY <2>1, <2>2, <2>3, <2>4, <2>5 DEF TrackingInv, Outstanding
<1>7. CalledBackOnce'
  BY <1>2 DEF EInv, CalledBackOnce
<1>8. StaysTracked'
  <2> SUFFICES ASSUME NEW t \in Steps, phase'[t] \in {"input", "returned"},
                      result'[t] = <<>>
               PROVE  \E y \in Steps : track'[y] = t
    BY DEF StaysTracked
  <2>1. CASE t = s
    BY <2>1, <1>2
  <2>2. CASE t # s
    <3>1. PICK y \in Steps : track[y] = t
      BY <2>2, <1>2 DEF EInv, StaysTracked
    <3>2. QED
      BY <3>1, <1>2, <1>5, ExecutorAssumption
  <2>3. QED
    BY <2>1, <2>2
<1>9. QED
  BY <1>3, <1>6, <1>7, <1>8 DEF EInv

(* completeStep takes the entry out and answers its step, if there is one. *)
LEMMA Completion ==
    ASSUME EInv, NEW x \in Steps, NEW code \in {"ok", "failed"},
           completeStep(x, code),
           phase' \in [Steps -> Phases],
           \A s \in Steps : phase'[s] = phase[s]
                            \/ (phase[s] = "input" /\ phase'[s] = "returned"),
           UNCHANGED <<target, shared>>
    PROVE  EInv'
<1>1. CASE track[x] = NoStep
  <2>1. track' = track /\ result' = result
    BY <1>1 DEF completeStep, EInv, CallsOK
  <2>2. CallsOK'
    BY <2>1 DEF EInv, CallsOK
  <2>3. TrackingInv'
    <3>1. ASSUME NEW y \in Steps, track[y] # NoStep
          PROVE  /\ result[track[y]] = <<>> /\ phase'[track[y]] \notin Early
                 /\ IF y \in Shared THEN track[y] \in Shared ELSE track[y] = y
      BY <3>1 DEF EInv, TrackingInv, CallsOK, Early
    <3>2. \A s \in Steps : phase'[s] \in Early => phase[s] = phase'[s]
      BY DEF Early
    <3>3. \A s, t \in Shared :
            (phase'[s] # "idle" /\ result[s] = <<>>)
            /\ (phase'[t] # "idle" /\ result[t] = <<>>) => s = t
      BY ExecutorAssumption DEF EInv, TrackingInv, Outstanding
    <3>4. QED
      BY <2>1, <3>1, <3>2, <3>3 DEF EInv, TrackingInv, Outstanding
  <2>4. CalledBackOnce' /\ StaysTracked'
    BY <2>1 DEF EInv, CalledBackOnce, StaysTracked
  <2>5. QED
    BY <2>2, <2>3, <2>4 DEF EInv
<1>2. CASE track[x] # NoStep
  <2> DEFINE u == track[x]
  <2>1. u \in Steps /\ result[u] = <<>> /\ phase[u] \notin Early
    BY <1>2 DEF EInv, CallsOK, TrackingInv
  <2>2. /\ \A y \in Steps : track'[y] = IF y = x THEN NoStep ELSE track[y]
        /\ \A s \in Steps : result'[s] = IF s = u THEN Append(<<>>, code) ELSE result[s]
    BY <1>2, <2>1 DEF completeStep, EInv, CallsOK
  <2>3. Append(<<>>, code) # <<>> /\ Len(Append(<<>>, code)) <= 1
    BY OneAnswer
  <2>4. CallsOK'
    <3>1. result' \in [Steps -> Seq({"ok", "failed"})]
      BY <1>2, <2>1, OneAnswer DEF completeStep, EInv, CallsOK
    <3>2. QED
      BY <3>1 DEF completeStep, EInv, CallsOK
  <2>5. \A y \in Steps : y # x => track[y] # u
    BY <1>2 DEF EInv, TrackingInv
  <2>6. TrackingInv'
    <3>1. \A s \in Steps : phase'[s] \in Early => phase[s] = phase'[s] /\ s # u
      BY <2>1 DEF Early
    <3>2. \A s \in Steps : phase'[s] \in Early => result'[s] = <<>>
      BY <3>1, <2>2 DEF EInv, TrackingInv
    <3>3. \A s \in Steps : /\ phase'[s] = "register" => s \in Shared
                           /\ phase'[s] \in {"reuse", "input"} =>
                                  s \in Shared /\ target'[s] \in Shared
      BY DEF EInv, TrackingInv
    <3>4. ASSUME NEW y \in Steps, track'[y] # NoStep
          PROVE  /\ result'[track'[y]] = <<>> /\ phase'[track'[y]] \notin Early
                 /\ IF y \in Shared THEN track'[y] \in Shared ELSE track'[y] = y
      <4>1. y # x /\ track'[y] = track[y] /\ track[y] \in Steps /\ track[y] # u
        BY <3>4, <2>2, <2>5 DEF EInv, CallsOK
      <4>2. /\ result[track[y]] = <<>> /\ phase[track[y]] \notin Early
            /\ IF y \in Shared THEN track[y] \in Shared ELSE track[y] = y
        BY <4>1, <3>4 DEF EInv, TrackingInv
      <4>3. QED
        BY <4>1, <4>2, <2>2 DEF Early
    <3>5. \A y, z \in Steps : track'[y] = track'[z] /\ track'[y] # NoStep => y = z
      BY <2>2 DEF EInv, TrackingInv
    <3>6. \A s, t \in Shared :
            (phase'[s] # "idle" /\ result'[s] = <<>>)
            /\ (phase'[t] # "idle" /\ result'[t] = <<>>) => s = t
      BY <2>2, <2>3, ExecutorAssumption DEF EInv, TrackingInv, Outstanding
    <3>7. QED
      BY <3>2, <3>3, <3>4, <3>5, <3>6 DEF TrackingInv, Outstanding
  <2>7. CalledBackOnce'
    <3> SUFFICES ASSUME NEW s \in Steps PROVE Len(result'[s]) <= 1
      BY DEF CalledBackOnce
    <3>1. CASE s = u
      <4>1. result'[s] = Append(<<>>, code)
        BY <3>1, <2>2, Zenon
      <4>2. QED
        BY <4>1, <2>3, Zenon
    <3>2. CASE s # u
      <4>1. result'[s] = result[s]
        BY <3>2, <2>2
      <4>2. Len(result[s]) <= 1
        BY DEF EInv, CalledBackOnce
      <4>3. QED
        BY <4>1, <4>2
    <3>3. QED
      BY <3>1, <3>2
  <2>8. StaysTracked'
    <3> SUFFICES ASSUME NEW s \in Steps, phase'[s] \in {"input", "returned"},
                        result'[s] = <<>>
                 PROVE  \E y \in Steps : track'[y] = s
      BY DEF StaysTracked
    <3>1. s # u /\ result[s] = <<>> /\ phase[s] \in {"input", "returned"}
      BY <2>2, <2>3
    <3>2. PICK y \in Steps : track[y] = s
      BY <3>1 DEF EInv, StaysTracked
    <3>3. QED
      BY <3>1, <3>2, <2>2
  <2>9. QED
    BY <2>4, <2>6, <2>7, <2>8 DEF EInv
<1>3. QED
  BY <1>1, <1>2

LEMMA ENext == EInv /\ [Next]_vars => EInv'
<1> SUFFICES ASSUME EInv, [Next]_vars PROVE EInv'
  OBVIOUS
<1>t. CallsOK
  BY DEF EInv
<1>1. ASSUME NEW s \in Steps, LaunchStep(s) PROVE EInv'
  <2>1. target' = target /\ shared' = shared /\ UNCHANGED <<result, track>>
    BY <1>1 DEF LaunchStep, maps
  <2>2. phase[s] = "idle" /\ Goto(s, "launched")
    BY <1>1 DEF LaunchStep
  <2>3. s \in Shared => \A t \in Shared \ {s} : phase[t] = "idle" \/ result[t] # <<>>
    BY <1>1 DEF LaunchStep
  <2>4. "launched" \in Early \ {"idle"} /\ phase[s] \in Early
    BY <2>2 DEF Early
  <2>5. QED
    BY <2>1, <2>2, <2>3, <2>4, <1>t, EarlyMove DEF CallsOK
<1>2. ASSUME NEW s \in Steps, ExecuteStep(s) PROVE EInv'
  <2> DEFINE p == IF target'[s] = NoStep THEN "create" ELSE "reuse"
  <2>1. phase[s] = "launched" /\ shared' = shared /\ UNCHANGED <<result, track>>
    BY <1>2 DEF ExecuteStep, maps
  <2>2. target' = [target EXCEPT ![s] = IF s \in Shared THEN shared ELSE NoStep]
    BY <1>2 DEF ExecuteStep
  <2>3. /\ target' \in [Steps -> Steps \cup {NoStep}]
        /\ \A t \in Steps \ {s} : target'[t] = target[t]
        /\ target'[s] = IF s \in Shared THEN shared ELSE NoStep
    BY <2>2, <1>t, ExecutorAssumption DEF CallsOK
  <2>4. Goto(s, p)
    BY <1>2 DEF ExecuteStep
  <2>5. p \in Early \ {"idle"} /\ phase[s] \in Early /\ phase[s] # "idle"
        /\ p # "register" /\ (p = "reuse" => s \in Shared /\ target'[s] \in Shared)
    BY <2>1, <2>3, <1>t DEF Early, CallsOK
  <2>6. shared' \in Shared \cup {NoStep}
    BY <2>1, <1>t DEF CallsOK
  <2> HIDE DEF p
  <2>7. QED
    BY <2>1, <2>3, <2>4, <2>5, <2>6, EarlyMove
<1>3. ASSUME NEW s \in Steps, CreateFails(s) \/ SendFails(s) \/ ReuseFails(s)
      PROVE  EInv'
  <2>1. phase[s] \in {"create", "reuse"} /\ FailStep(s)
        /\ UNCHANGED <<target, shared, track>>
    BY <1>3 DEF CreateFails, SendFails, ReuseFails, maps
  <2>2. phase[s] \in Early \ {"idle"}
    BY <2>1 DEF Early
  <2>3. QED
    BY <2>1, <2>2, EarlyFailure
<1>4. ASSUME NEW s \in Steps, CreateSession(s) PROVE EInv'
  <2> DEFINE p == IF s \in Shared THEN "register" ELSE "track"
  <2>1. phase[s] = "create" /\ Goto(s, p)
        /\ UNCHANGED <<target, result, shared, track>>
    BY <1>4 DEF CreateSession, maps
  <2>2. p \in Early \ {"idle"} /\ phase[s] \in Early /\ phase[s] # "idle"
        /\ p # "reuse" /\ (p = "register" => s \in Shared)
    BY <2>1 DEF Early
  <2> HIDE DEF p
  <2>3. QED
    BY <2>1, <2>2, <1>t, EarlyMove DEF CallsOK
<1>5. ASSUME NEW s \in Steps, RegisterShared(s) PROVE EInv'
  <2>1. phase[s] = "register" /\ Goto(s, "track") /\ shared' = s
        /\ UNCHANGED <<target, result, track>>
    BY <1>5 DEF RegisterShared
  <2>2. s \in Shared
    BY <2>1 DEF EInv, TrackingInv
  <2>3. "track" \in Early \ {"idle"} /\ phase[s] \in Early /\ phase[s] # "idle"
    BY <2>1 DEF Early
  <2>4. QED
    BY <2>1, <2>2, <2>3, <1>t, EarlyMove DEF CallsOK
<1>6. ASSUME NEW s \in Steps, trackAndMonitor(s) PROVE EInv'
  BY <1>6, HandOver DEF trackAndMonitor
<1>7. ASSUME NEW s \in Steps, TrackReused(s) PROVE EInv'
  <2>1. phase[s] = "reuse" /\ Goto(s, "input")
        /\ track' = [track EXCEPT ![target[s]] = s]
        /\ UNCHANGED <<target, result, shared>>
    BY <1>7 DEF TrackReused
  <2>2. s \in Shared /\ target[s] \in Shared /\ target[s] \in Steps
    BY <2>1, ExecutorAssumption DEF EInv, TrackingInv
  <2>3. QED
    BY <2>1, <2>2, HandOver
<1>8. ASSUME NEW s \in Steps, SendPrompt(s) PROVE EInv'
  <2>1. phase[s] = "input" /\ Goto(s, "returned") /\ UNCHANGED <<target, shared>>
    BY <1>8 DEF SendPrompt
  <2>2. target[s] \in Steps
    BY <2>1, ExecutorAssumption DEF EInv, TrackingInv
  <2>3. /\ phase' \in [Steps -> Phases]
        /\ \A t \in Steps : phase'[t] = phase[t]
                            \/ (phase[t] = "input" /\ phase'[t] = "returned")
    <3>1. phase \in [Steps -> Phases] /\ phase' = [phase EXCEPT ![s] = "returned"]
      BY <2>1, <1>t DEF Goto, CallsOK
    <3>2. "returned" \in Phases
      BY DEF Phases
    <3>3. phase' \in [Steps -> Phases]
      BY <3>1, <3>2
    <3>4. \A t \in Steps : phase'[t] = IF t = s THEN "returned" ELSE phase[t]
      BY <3>1
    <3>5. QED
      BY <3>3, <3>4, <2>1
  <2>4. CASE completeStep(target[s], "failed")
    BY <2>1, <2>2, <2>3, <2>4, Completion
  <2>5. CASE UNCHANGED <<track, result>>
    <3>1. CallsOK'
      BY <2>1, <2>3, <2>5, <1>t DEF CallsOK
    <3>2. \A t \in Steps : phase'[t] \in Early => phase[t] = phase'[t]
      BY <2>3 DEF Early
    <3>3. ASSUME NEW y \in Steps, track[y] # NoStep
          PROVE  /\ result[track[y]] = <<>> /\ phase'[track[y]] \notin Early
                 /\ IF y \in Shared THEN track[y] \in Shared ELSE track[y] = y
      BY <3>3, <2>3 DEF EInv, TrackingInv, CallsOK, Early
    <3>4. \A t, u \in Shared :
            (phase'[t] # "idle" /\ result[t] = <<>>)
            /\ (phase'[u] # "idle" /\ result[u] = <<>>) => t = u
      BY <2>3, ExecutorAssumption DEF EInv, TrackingInv, Outstanding
    <3>5. TrackingInv'
      BY <2>1, <2>3, <2>5, <3>2, <3>3, <3>4 DEF EInv, TrackingInv, Outstanding
    <3>6. CalledBackOnce' /\ StaysTracked'
      BY <2>3, <2>5 DEF EInv, CalledBackOnce, StaysTracked
    <3>7. QED
      BY <3>1, <3>5, <3>6 DEF EInv
  <2>6. QED
    BY <1>8, <2>4, <2>5 DEF SendPrompt
<1>9. ASSUME NEW x \in Steps, Monitoring(x) \/ OnStepIdle(x) PROVE EInv'
  <2>1. UNCHANGED <<phase, target, shared>>
    BY <1>9 DEF Monitoring, MonitorCancelled, MonitorTimeout, MonitorPoll, OnStepIdle
  <2>2. completeStep(x, "ok") \/ completeStep(x, "failed")
    BY <1>9 DEF Monitoring, MonitorCancelled, MonitorTimeout, MonitorPoll, OnStepIdle
  <2>3. phase' \in [Steps -> Phases] /\ \A s \in Steps : phase'[s] = phase[s]
    BY <2>1, <1>t DEF CallsOK
  <2>4. PICK code \in {"ok", "failed"} : completeStep(x, code)
    BY <2>2
  <2>5. \A s \in Steps : phase'[s] = phase[s]
                          \/ (phase[s] = "input" /\ phase'[s] = "returned")
    BY <2>3
  <2>6. UNCHANGED <<target, shared>>
    BY <2>1
  <2>7. QED
    BY <2>3, <2>4, <2>5, <2>6, Completion, Zenon
<1>10. CASE CleanupRunSessions
  <2>1. shared' = NoStep /\ UNCHANGED <<phase, target, result, track>>
    BY <1>10 DEF CleanupRunSessions, calls
  <2>2. QED
    BY <2>1 DEF EInv, CallsOK, TrackingInv, CalledBackOnce, StaysTracked, Outstanding
<1>11. ASSUME NEW x \in Steps,
              \/ AgentStep(x) \/ SessionStatus(x) \/ onIdle(x)
              \/ ProcessExits(x) \/ TerminateSession(x)
       PROVE  EInv'
  <2>1. UNCHANGED <<phase, target, result, shared, track>>
    BY <1>11 DEF AgentStep, handleCreate, handleInput, handleKill, ReportExit,
                 SessionStatus, onIdle, ProcessExits, TerminateSession, calls, maps
  <2>2. QED
    BY <2>1, Untouched
<1>12. CASE CancelRun \/ FinishRun \/ Disconnect \/ Reconnect \/ UNCHANGED vars
  <2>1. UNCHANGED <<phase, target, result, shared, track>>
    BY <1>12 DEF CancelRun, FinishRun, Disconnect, Reconnect, vars, calls, maps
  <2>2. QED
    BY <2>1, Untouched
<1>13. QED
  BY <1>1, <1>2, <1>3, <1>4, <1>5, <1>6, <1>7, <1>8, <1>9, <1>10, <1>11, <1>12
     DEF Next, Execution, Handling

LEMMA ExecutorInvariant == Spec => []EInv
  BY EInit, ENext, PTL DEF Spec

(* Whatever combination of monitors, idle events, timeouts, failed sends,  *)
(* lost connections and run endings happens, onComplete is called at most  *)
(* once for each execution.                                                *)
THEOREM AnsweredAtMostOnce == Spec => []CalledBackOnce
<1>1. EInv => CalledBackOnce
  BY DEF EInv
<1>2. QED
  BY <1>1, ExecutorInvariant, PTL

(* An execution that was handed over keeps its tracking entry until it is  *)
(* answered: no later step of the same session overwrites it.              *)
THEOREM TrackedUntilAnswered == Spec => []StaysTracked
<1>1. EInv => StaysTracked
  BY DEF EInv
<1>2. QED
  BY <1>1, ExecutorInvariant, PTL

-----------------------------------------------------------------------------
(* The types of the other variables: the run, the monitors, the rows, the  *)
(* two channels of each session and its process.                           *)
Statuses  == {"none", "created", "running", "completed", "failed", "terminated"}
ProcState == {"none", "alive", "dying", "completed", "failed", "dead"}

RestOK == /\ run \in {"live", "finished", "cancelled"}
          /\ cleanup \in {"none", "due", "done"}
          /\ monitor \in [Steps -> {"none", "polling", "done"}]
          /\ row \in [Steps -> Statuses]
          /\ connected \in BOOLEAN
          /\ cmds \in [Steps -> Seq(Command)]
          /\ events \in [Steps -> Seq(Event)]
          /\ proc \in [Steps -> ProcState]
          /\ prompted \subseteq Steps

(* A command for a session is one more on its channel. *)
LEMMA SendType ==
    ASSUME cmds \in [Steps -> Seq(Command)], NEW x \in Steps, NEW s \in Steps,
           NEW op \in {"create", "input", "kill"}, Send(x, op, s)
    PROVE  cmds' \in [Steps -> Seq(Command)]
<1>1. [op |-> op, step |-> s] \in Command
  BY DEF Command
<1>2. Append(cmds[x], [op |-> op, step |-> s]) \in Seq(Command)
  BY <1>1, AppendProperties
<1>3. QED
  BY <1>2 DEF Send

LEMMA sendKillType ==
    ASSUME cmds \in [Steps -> Seq(Command)], NEW x \in Steps, sendKill(x)
    PROVE  cmds' \in [Steps -> Seq(Command)]
<1>1. CASE connected
  <2>1. Send(x, "kill", x)
    BY <1>1 DEF sendKill
  <2>2. QED
    BY <2>1, SendType
<1>2. CASE ~connected
  BY <1>2 DEF sendKill
<1>3. QED
  BY <1>1, <1>2

(* A command that is received was a command for a step. *)
LEMMA ReceiveType ==
    ASSUME cmds \in [Steps -> Seq(Command)], NEW x \in Steps,
           NEW op \in {"create", "input", "kill"}, Receive(x, op)
    PROVE  cmds' \in [Steps -> Seq(Command)] /\ Head(cmds[x]).step \in Steps
<1>1. cmds[x] \in Seq(Command) /\ cmds[x] # <<>>
  BY DEF Receive
<1>2. Head(cmds[x]) \in Command /\ Tail(cmds[x]) \in Seq(Command)
  BY <1>1, HeadTailProperties
<1>3. QED
  BY <1>2 DEF Receive, Command

LEMMA sendEventType ==
    ASSUME events \in [Steps -> Seq(Event)], NEW x \in Steps, NEW e \in Event,
           sendEvent(x, e)
    PROVE  events' \in [Steps -> Seq(Event)]
<1>1. Append(events[x], e) \in Seq(Event)
  BY AppendProperties
<1>2. QED
  BY <1>1 DEF sendEvent

LEMMA NextEventType ==
    ASSUME events \in [Steps -> Seq(Event)], NEW x \in Steps, NextEvent(x)
    PROVE  events' \in [Steps -> Seq(Event)] /\ Head(events[x]) \in Event
<1>1. events[x] \in Seq(Event) /\ events[x] # <<>>
  BY DEF NextEvent
<1>2. Head(events[x]) \in Event /\ Tail(events[x]) \in Seq(Event)
  BY <1>1, HeadTailProperties
<1>3. QED
  BY <1>2 DEF NextEvent

LEMMA RestInit == Init => RestOK
<1> SUFFICES ASSUME Init PROVE RestOK
  OBVIOUS
<1>1. cmds \in [Steps -> Seq(Command)] /\ events \in [Steps -> Seq(Event)]
  BY EmptySeq DEF Init
<1>2. QED
  BY <1>1 DEF Init, RestOK, Statuses, ProcState

LEMMA RestNext == EInv /\ RestOK /\ [Next]_vars => RestOK'
<1> SUFFICES ASSUME EInv, RestOK, [Next]_vars PROVE RestOK'
  OBVIOUS
<1>c. cmds \in [Steps -> Seq(Command)]
  BY DEF RestOK
<1>e. events \in [Steps -> Seq(Event)]
  BY DEF RestOK
<1>1. ASSUME NEW s \in Steps,
             \/ LaunchStep(s) \/ ExecuteStep(s) \/ CreateFails(s) \/ RegisterShared(s)
             \/ ReuseFails(s) \/ TrackReused(s)
      PROVE  RestOK'
  <2>1. UNCHANGED <<run, cleanup, monitor, row, connected, cmds, events, proc, prompted>>
    BY <1>1 DEF LaunchStep, ExecuteStep, CreateFails, RegisterShared, ReuseFails,
                TrackReused, maps, agent
  <2>2. QED
    BY <2>1 DEF RestOK
<1>2. ASSUME NEW s \in Steps, SendFails(s) PROVE RestOK'
  BY <1>2 DEF SendFails, RestOK, Statuses, maps, agent
<1>3. ASSUME NEW s \in Steps, CreateSession(s) PROVE RestOK'
  <2>1. cmds' \in [Steps -> Seq(Command)]
    BY <1>3, <1>c, SendType DEF CreateSession
  <2>2. row' \in [Steps -> Statuses]
    BY <1>3 DEF CreateSession, RestOK, Statuses
  <2>3. UNCHANGED <<run, cleanup, monitor, connected, events, proc, prompted>>
    BY <1>3 DEF CreateSession, maps, agent
  <2>4. QED
    BY <2>1, <2>2, <2>3 DEF RestOK
<1>4. ASSUME NEW s \in Steps, trackAndMonitor(s) PROVE RestOK'
  BY <1>4 DEF trackAndMonitor, RestOK, agent
(* The prompt goes to the session the step was told to use. *)
<1>5. ASSUME NEW s \in Steps, SendPrompt(s) PROVE RestOK'
  <2>1. target[s] \in Steps
    BY <1>5, ExecutorAssumption DEF EInv, TrackingInv, SendPrompt
  <2>2. CASE Send(target[s], "input", s)
    <3>1. cmds' \in [Steps -> Seq(Command)]
      BY <2>1, <2>2, <1>c, SendType
    <3>2. QED
      BY <3>1, <1>5 DEF SendPrompt, RestOK, agent
  <2>3. CASE UNCHANGED cmds
    BY <2>3, <1>5 DEF SendPrompt, RestOK, agent
  <2>4. QED
    BY <1>5, <2>2, <2>3 DEF SendPrompt
<1>6. ASSUME NEW x \in Steps, MonitorCancelled(x) \/ MonitorTimeout(x) PROVE RestOK'
  <2>1. cmds' \in [Steps -> Seq(Command)]
    BY <1>6, <1>c, sendKillType DEF MonitorCancelled, MonitorTimeout
  <2>2. monitor' = [monitor EXCEPT ![x] = "done"]
        /\ UNCHANGED <<run, cleanup, row, connected, events, proc, prompted>>
    BY <1>6 DEF MonitorCancelled, MonitorTimeout, agent
  <2>3. QED
    BY <2>1, <2>2 DEF RestOK
<1>7. ASSUME NEW x \in Steps, MonitorPoll(x) PROVE RestOK'
  BY <1>7 DEF MonitorPoll, RestOK, agent
<1>8. ASSUME NEW x \in Steps, handleCreate(x) PROVE RestOK'
  <2>1. cmds' \in [Steps -> Seq(Command)]
    BY <1>8, <1>c, ReceiveType DEF handleCreate
  <2>2. proc' \in [Steps -> ProcState]
    BY <1>8 DEF handleCreate, RestOK, ProcState
  <2>3. "running" \in Event
    BY DEF Event
  <2>4. sendEvent(x, "running") \/ events' = events
    BY <1>8 DEF handleCreate
  <2>5. events' \in [Steps -> Seq(Event)]
    BY <1>e, <2>3, <2>4, sendEventType
  <2>6. UNCHANGED <<run, cleanup, monitor, row, connected, prompted>>
    BY <1>8 DEF handleCreate, maps
  <2>7. QED
    BY <2>1, <2>2, <2>5, <2>6 DEF RestOK
<1>9. ASSUME NEW x \in Steps, handleInput(x) PROVE RestOK'
  <2>1. cmds' \in [Steps -> Seq(Command)] /\ Head(cmds[x]).step \in Steps
    BY <1>9, <1>c, ReceiveType DEF handleInput
  <2>2. prompted' \subseteq Steps
    BY <1>9, <2>1 DEF handleInput, RestOK
  <2>3. UNCHANGED <<run, cleanup, monitor, row, connected, events, proc>>
    BY <1>9 DEF handleInput, maps
  <2>4. QED
    BY <2>1, <2>2, <2>3 DEF RestOK
<1>10. ASSUME NEW x \in Steps, handleKill(x) PROVE RestOK'
  <2>1. cmds' \in [Steps -> Seq(Command)]
    BY <1>10, <1>c, ReceiveType DEF handleKill
  <2>2. proc' \in [Steps -> ProcState]
    BY <1>10 DEF handleKill, RestOK, ProcState
  <2>3. UNCHANGED <<run, cleanup, monitor, row, connected, events, prompted>>
    BY <1>10 DEF handleKill, maps
  <2>4. QED
    BY <2>1, <2>2, <2>3 DEF RestOK
<1>11. ASSUME NEW x \in Steps, ReportExit(x) PROVE RestOK'
  <2>1. proc[x] \in Event /\ sendEvent(x, proc[x])
    BY <1>11 DEF ReportExit, Event
  <2>2. events' \in [Steps -> Seq(Event)]
    BY <1>e, <2>1, sendEventType
  <2>3. proc' \in [Steps -> ProcState]
    BY <1>11 DEF ReportExit, RestOK, ProcState
  <2>4. UNCHANGED <<run, cleanup, monitor, row, connected, cmds, prompted>>
    BY <1>11 DEF ReportExit, maps
  <2>5. QED
    BY <2>2, <2>3, <2>4 DEF RestOK
<1>12. ASSUME NEW x \in Steps, onIdle(x) PROVE RestOK'
  <2>1. UNCHANGED <<run, cleanup, monitor, row, connected, cmds>>
    BY <1>12 DEF onIdle, maps
  <2>2. "idle" \in Event
    BY DEF Event
  <2>3. sendEvent(x, "idle") \/ events' = events
    BY <1>12 DEF onIdle
  <2>4. events' \in [Steps -> Seq(Event)]
    BY <1>e, <2>2, <2>3, sendEventType
  <2>5. proc' \in [Steps -> ProcState] /\ prompted' \subseteq Steps
    BY <1>12 DEF onIdle, RestOK, ProcState
  <2>6. QED
    BY <2>1, <2>4, <2>5 DEF RestOK
<1>13. ASSUME NEW x \in Steps, ProcessExits(x) PROVE RestOK'
  BY <1>13 DEF ProcessExits, RestOK, ProcState, maps
<1>14. ASSUME NEW x \in Steps, SessionStatus(x) PROVE RestOK'
  <2>1. events' \in [Steps -> Seq(Event)] /\ Head(events[x]) \in Event
    BY <1>14, <1>e, NextEventType DEF SessionStatus
  <2>2. Head(events[x]) \in Statuses
    BY <2>1, <1>14 DEF SessionStatus, Event, Statuses
  <2>3. row' \in [Steps -> Statuses]
    BY <2>2, <1>14 DEF SessionStatus, RestOK
  <2>4. UNCHANGED <<run, cleanup, monitor, connected, cmds, proc, prompted>>
    BY <1>14 DEF SessionStatus, maps, agent
  <2>5. QED
    BY <2>1, <2>3, <2>4 DEF RestOK
<1>15. ASSUME NEW x \in Steps, OnStepIdle(x) PROVE RestOK'
  <2>1. events' \in [Steps -> Seq(Event)]
    BY <1>15, <1>e, NextEventType DEF OnStepIdle
  <2>2. UNCHANGED <<run, cleanup, monitor, row, connected, cmds, proc, prompted>>
    BY <1>15 DEF OnStepIdle, agent
  <2>3. QED
    BY <2>1, <2>2 DEF RestOK
<1>16. ASSUME NEW x \in Steps, TerminateSession(x) PROVE RestOK'
  <2>1. cmds' \in [Steps -> Seq(Command)]
    BY <1>16, <1>c, sendKillType DEF TerminateSession
  <2>2. row' \in [Steps -> Statuses]
    BY <1>16 DEF TerminateSession, RestOK, Statuses
  <2>3. UNCHANGED <<run, cleanup, monitor, connected, events, proc, prompted>>
    BY <1>16 DEF TerminateSession, maps, agent
  <2>4. QED
    BY <2>1, <2>2, <2>3 DEF RestOK
<1>17. CASE CancelRun \/ FinishRun \/ Reconnect
  BY <1>17 DEF CancelRun, FinishRun, Reconnect, RestOK, maps, agent
<1>18. CASE CleanupRunSessions
  <2>1. cmds' \in [Steps -> Seq(Command)]
    <3>1. CASE shared = NoStep
      BY <3>1, <1>18, <1>c DEF CleanupRunSessions
    <3>2. CASE shared # NoStep
      <4>1. shared \in Steps
        BY <3>2, ExecutorAssumption DEF EInv, CallsOK
      <4>2. sendKill(shared)
        BY <3>2, <1>18 DEF CleanupRunSessions
      <4>3. QED
        BY <4>1, <4>2, <1>c, sendKillType
    <3>3. QED
      BY <3>1, <3>2
  <2>2. cleanup' = "done"
        /\ UNCHANGED <<run, monitor, row, connected, events, proc, prompted>>
    BY <1>18 DEF CleanupRunSessions, agent
  <2>3. QED
    BY <2>1, <2>2 DEF RestOK
<1>19. CASE Disconnect
  <2>1. cmds' \in [Steps -> Seq(Command)] /\ events' \in [Steps -> Seq(Event)]
    BY <1>19, EmptySeq DEF Disconnect
  <2>2. connected' = FALSE
        /\ UNCHANGED <<run, cleanup, monitor, row, proc, prompted>>
    BY <1>19 DEF Disconnect, maps, agent
  <2>3. QED
    BY <2>1, <2>2 DEF RestOK
<1>20. CASE UNCHANGED vars
  BY <1>20 DEF RestOK, vars, maps, agent
<1>21. QED
  BY <1>1, <1>2, <1>3, <1>4, <1>5, <1>6, <1>7, <1>8, <1>9, <1>10, <1>11, <1>12, <1>13,
     <1>14, <1>15, <1>16, <1>17, <1>18, <1>19, <1>20
     DEF Next, Execution, Monitoring, AgentStep, Handling

(* Every variable of the executor and of the agent keeps its type: above   *)
(* all a prompt or a kill is only ever sent to a session that exists, and  *)
(* the channels carry nothing but commands for steps and known events.     *)
THEOREM ExecutorTypeCorrect == Spec => []TypeOK
<1>1. EInv /\ RestOK => TypeOK
  BY DEF EInv, CallsOK, Phases, RestOK, Statuses, ProcState, TypeOK
<1>2. QED
  BY <1>1, EInit, ENext, RestInit, RestNext, PTL DEF Spec

=============================================================================
