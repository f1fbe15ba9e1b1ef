---------------------- MODULE ConnectionManager_proofs ----------------------
(***************************************************************************)
(* Proofs about an agent and its connections: for any number of            *)
(* connections, a live one is never removed from the connection manager by *)
(* another; for any number of processes, one agent at most manages a       *)
(* machine, and signals hit what they are meant for.                       *)
(***************************************************************************)
EXTENDS ConnectionManager, AgentLifecycle, FiniteSetTheorems, TLAPS

IInv == TypeOK /\ ReachInv

(* The four parts of ReachInv, for proofs of one at a time. *)
SweptIsDead   == sweep.conn # None => cancelled[sweep.conn]
SweepHasConn  == sweep.pc # "idle" => sweep.conn # None
ReplacerHasOld == \A c \in Conns : At(c, "replace") => old[c] # None

LEMMA ReachParts == ReachInv <=> /\ LiveIsReachable /\ SweptIsDead
                                 /\ SweepHasConn /\ ReplacerHasOld
  BY DEF ReachInv, SweptIsDead, SweepHasConn, ReplacerHasOld

(* NewConnectionManager: no connection yet. *)
LEMMA InitIInv == Init => IInv
  <1> SUFFICES ASSUME Init PROVE IInv
    OBVIOUS
  <1>1. TypeOK
    BY DEF Init, TypeOK
  <1>2. ReachInv
    BY DEF Init, ReachInv, LiveIsReachable, Connected, At
  <1> QED
    BY <1>1, <1>2 DEF IInv

(* The agent and the network touch neither the handlers nor the manager,   *)
(* except that a broken stream's context becomes done.                     *)
LEMMA LinkStep ==
    ASSUME IInv, NEW c \in Conns,
           Register(c) \/ OpenStream(c) \/ Break(c) \/ BreakDetected(c)
    PROVE  IInv'
  <1> USE ConnectionAssumption DEF IInv
  <1>1. CASE Register(c) \/ OpenStream(c) \/ Break(c)
    <2>1. TypeOK'
      BY <1>1 DEF TypeOK, Register, OpenStream, Break, server, delays
    <2>2. UNCHANGED <<handler, cancelled, agents, old, sweep>>
      BY <1>1 DEF Register, OpenStream, Break, server
    <2>3. ReachInv'
      BY <2>2 DEF ReachInv, LiveIsReachable, At
    <2> QED
      BY <2>1, <2>3
  <1>2. CASE BreakDetected(c)
    <2>1. TypeOK'
      BY <1>2 DEF TypeOK, BreakDetected, server, delays
    <2>2. /\ UNCHANGED <<handler, agents, old, sweep>>
          /\ cancelled' = [cancelled EXCEPT ![c] = TRUE]
      BY <1>2 DEF BreakDetected, server
    <2>3. ReachInv'
      BY <2>2 DEF ReachInv, LiveIsReachable, At, TypeOK
    <2> QED
      BY <2>1, <2>3
  <1> QED
    BY <1>1, <1>2

(* The types, one handler step at a time. *)
LEMMA HandlerType ==
    ASSUME TypeOK, NEW c \in Conns, CommandStream(c) \/ HandlerStep(c),
           ReplacerHasOld
    PROVE  TypeOK'
  <1> USE ConnectionAssumption DEF TypeOK, server, delays, At, Goto
  <1>1. CASE CommandStream(c)
    BY <1>1 DEF CommandStream
  <1>2. CASE cancelPendingDisconnect(c)
    <2>1. StopPending \in [Conns -> {"none", "set", "stopped", "fired", "publish", "done"}]
      BY DEF StopPending
    <2> QED
      BY <1>2, <2>1 DEF cancelPendingDisconnect
  <1>3. CASE PutAgent(c)
    BY <1>3 DEF PutAgent
  <1>4. CASE CancelOld(c)
    BY <1>4 DEF CancelOld
  <1>5. CASE UpsertMachine(c) \/ MarkConnected(c) \/ PublishConnected(c)
    BY <1>5 DEF UpsertMachine, MarkConnected, PublishConnected
  <1>6. CASE RegisterFails(c)
    BY <1>6 DEF RegisterFails
  <1>7. CASE RemoveIfToken(c) \/ DisconnectIfMatch(c)
    BY <1>7 DEF RemoveIfToken, DisconnectIfMatch
  <1>8. CASE MarkDisconnected(c)
    BY <1>8 DEF MarkDisconnected
  <1>9. CASE scheduleDisconnectEvent(c)
    <2>1. StopPending \in [Conns -> {"none", "set", "stopped", "fired", "publish", "done"}]
      BY DEF StopPending
    <2> QED
      BY <1>9, <2>1 DEF scheduleDisconnectEvent
  <1> QED
    BY <1>1, <1>2, <1>3, <1>4, <1>5, <1>6, <1>7, <1>8, <1>9 DEF HandlerStep

(* A handler that moves on without touching the map or a context: it must  *)
(* not enter the connected phases, nor leave the phase that excuses the    *)
(* connection it replaces.                                                 *)
LEMMA QuietStep ==
    ASSUME IInv, NEW c \in Conns, NEW p,
           handler' = [handler EXCEPT ![c] = p],
           UNCHANGED <<cancelled, agents, old, sweep>>,
           ~At(c, "replace"), p # "replace",
           p \in Connected => handler[c] \in Connected
    PROVE  ReachInv'
  BY DEF IInv, TypeOK, ReachInv, LiveIsReachable, At

(* The steps of CommandStream and of the connection manager it calls. *)
LEMMA HandlerReach ==
    ASSUME IInv, NEW c \in Conns, CommandStream(c) \/ HandlerStep(c)
    PROVE  ReachInv'
  <1> USE DEF server, delays
  <1>1. CASE CommandStream(c) \/ cancelPendingDisconnect(c)
    <2> PICK p \in {"called", "put"} : Goto(c, p)
      BY <1>1 DEF CommandStream, cancelPendingDisconnect
    <2>1. UNCHANGED <<cancelled, agents, old, sweep>> /\ ~At(c, "replace")
      BY <1>1 DEF CommandStream, cancelPendingDisconnect, At
    <2> QED
      BY <2>1, QuietStep DEF Goto, Connected
  <1>2. CASE PutAgent(c)
    <2>1. /\ agents' = c /\ UNCHANGED <<cancelled, sweep>>
          /\ old' = [old EXCEPT ![c] = agents]
          /\ handler' = [handler EXCEPT ![c] =
                            IF agents = None THEN "upsert" ELSE "replace"]
          /\ handler[c] = "put"
      BY <1>2 DEF PutAgent, At, Goto
    <2>2. LiveIsReachable'
      <3> SUFFICES ASSUME NEW b \in Conns,
                          handler'[b] \in Connected, ~cancelled'[b], b # c
                   PROVE  \E d \in Conns : At(d, "replace")' /\ old'[d] = b
        BY <2>1 DEF LiveIsReachable
      <3>1. handler[b] \in Connected /\ ~cancelled[b]
        BY <2>1 DEF IInv, TypeOK
      <3>2. CASE agents = b
        BY <2>1, <3>2, ConnectionAssumption DEF IInv, TypeOK, At, Conns
      <3>3. CASE agents # b
        <4> PICK d \in Conns : At(d, "replace") /\ old[d] = b
          BY <3>1, <3>3 DEF IInv, ReachInv, LiveIsReachable
        <4>1. d # c
          BY <2>1 DEF At
        <4>2. At(d, "replace")' /\ old'[d] = b
          BY <2>1, <4>1 DEF IInv, TypeOK, At
        <4> QED
          BY <4>2
      <3> QED
        BY <3>2, <3>3
    <2>3. (SweptIsDead /\ SweepHasConn)'
      BY <2>1, ReachParts DEF IInv, SweptIsDead, SweepHasConn
    <2>4. ReplacerHasOld'
      BY <2>1 DEF IInv, TypeOK, ReachInv, ReplacerHasOld, At
    <2> QED
      BY <2>2, <2>3, <2>4 DEF ReachInv, SweptIsDead, SweepHasConn, ReplacerHasOld
  <1>3. CASE CancelOld(c)
    <2>1. /\ UNCHANGED <<agents, old, sweep>> /\ handler[c] = "replace"
          /\ cancelled' = [cancelled EXCEPT ![old[c]] = TRUE]
          /\ handler' = [handler EXCEPT ![c] = "upsert"]
      BY <1>3 DEF CancelOld, At, Goto
    <2>2. old[c] \in Conns
      BY <2>1 DEF IInv, TypeOK, ReachInv, At
    <2>3. LiveIsReachable'
      <3> SUFFICES ASSUME NEW b \in Conns,
                          handler'[b] \in Connected, ~cancelled'[b], agents # b
                   PROVE  \E d \in Conns : At(d, "replace")' /\ old'[d] = b
        BY <2>1 DEF LiveIsReachable
      <3>1. handler[b] \in Connected
        BY <2>1 DEF IInv, TypeOK, Connected
      <3>2. ~cancelled[b] /\ b # old[c]
        BY <2>1, <2>2 DEF IInv, TypeOK
      <3>3. PICK d \in Conns : At(d, "replace") /\ old[d] = b
        BY <3>1, <3>2 DEF IInv, ReachInv, LiveIsReachable
      <3>4. d # c
        BY <3>2, <3>3
      <3> QED
        BY <2>1, <3>3, <3>4 DEF IInv, TypeOK, At
    <2>4. (SweptIsDead /\ SweepHasConn)'
      BY <2>1, <2>2, ReachParts DEF IInv, TypeOK, SweptIsDead, SweepHasConn
    <2>5. ReplacerHasOld'
      BY <2>1 DEF IInv, TypeOK, ReachInv, ReplacerHasOld, At
    <2> QED
      BY <2>3, <2>4, <2>5 DEF ReachInv, SweptIsDead, SweepHasConn, ReplacerHasOld
  <1>4. CASE UpsertMachine(c) \/ MarkConnected(c) \/ PublishConnected(c)
    <2> PICK p \in {"online", "announce", "serving"} : Goto(c, p)
      BY <1>4 DEF UpsertMachine, MarkConnected, PublishConnected
    <2>1. UNCHANGED <<cancelled, agents, old, sweep>>
      BY <1>4 DEF UpsertMachine, MarkConnected, PublishConnected
    <2>2. handler[c] \in {"upsert", "online", "announce"}
      BY <1>4 DEF UpsertMachine, MarkConnected, PublishConnected, At
    <2> QED
      BY <2>1, <2>2, QuietStep DEF Goto, Connected, At
  <1>5. CASE RegisterFails(c)
    <2>1. /\ agents' \in {agents, None} /\ (agents # c => agents' = agents)
          /\ UNCHANGED <<old, sweep>>
          /\ cancelled' = [cancelled EXCEPT ![c] = TRUE]
          /\ handler' = [handler EXCEPT ![c] = "done"]
          /\ handler[c] # "replace"
      BY <1>5 DEF RegisterFails, At, Goto
    <2> QED
      BY <2>1 DEF IInv, TypeOK, ReachInv, LiveIsReachable, Connected, At
  <1>6. CASE RemoveIfToken(c)
    <2>1. Goto(c, "match") /\ UNCHANGED <<cancelled, agents, old, sweep>>
          /\ handler[c] = "serving"
      BY <1>6 DEF RemoveIfToken, At
    <2> QED
      BY <2>1, QuietStep DEF Goto, Connected, At
  <1>7. CASE DisconnectIfMatch(c)
    <2>1. PICK p \in {"offline", "done"} : handler' = [handler EXCEPT ![c] = p]
      BY <1>7 DEF DisconnectIfMatch, Goto
    <2>2. /\ agents # c => agents' = agents
          /\ UNCHANGED <<old, sweep>> /\ handler[c] = "match"
      BY <1>7 DEF DisconnectIfMatch, At
    <2>3. \A b \in Conns : cancelled[b] => cancelled'[b]
      BY <1>7 DEF DisconnectIfMatch, IInv, TypeOK
    <2>4. \A b \in Conns : ~cancelled'[b] => ~cancelled[b]
      BY <2>3
    <2>5. LiveIsReachable'
      <3> SUFFICES ASSUME NEW b \in Conns,
                          handler'[b] \in Connected, ~cancelled'[b]
                   PROVE  \/ agents' = b
                          \/ \E d \in Conns : At(d, "replace")' /\ old'[d] = b
        BY DEF LiveIsReachable
      <3>1. b # c
        BY <2>1 DEF IInv, TypeOK, Connected
      <3>2. handler[b] \in Connected /\ ~cancelled[b]
        BY <2>1, <2>4, <3>1 DEF IInv, TypeOK
      <3>3. CASE agents = b
        BY <2>2, <3>1, <3>3
      <3>4. CASE agents # b
        <4>1. PICK d \in Conns : At(d, "replace") /\ old[d] = b
          BY <3>2, <3>4 DEF IInv, ReachInv, LiveIsReachable
        <4>2. d # c
          BY <2>2, <4>1 DEF At
        <4> QED
          BY <2>1, <2>2, <4>1, <4>2 DEF IInv, TypeOK, At
      <3> QED
        BY <3>3, <3>4
    <2>6. (SweptIsDead /\ SweepHasConn)'
      BY <2>2, <2>3, ReachParts DEF IInv, TypeOK, SweptIsDead, SweepHasConn
    <2>7. ReplacerHasOld'
      BY <2>1, <2>2 DEF IInv, TypeOK, ReachInv, ReplacerHasOld, At
    <2> QED
      BY <2>5, <2>6, <2>7 DEF ReachInv, SweptIsDead, SweepHasConn, ReplacerHasOld
  <1>8. CASE MarkDisconnected(c)
    <2>1. Goto(c, "schedule") /\ UNCHANGED <<cancelled, agents, old, sweep>>
          /\ handler[c] = "offline"
      BY <1>8 DEF MarkDisconnected, At
    <2> QED
      BY <2>1, QuietStep DEF Goto, Connected, At
  <1>9. CASE scheduleDisconnectEvent(c)
    <2>1. /\ UNCHANGED <<agents, old, sweep>> /\ handler[c] = "schedule"
          /\ cancelled' = [cancelled EXCEPT ![c] = TRUE]
          /\ handler' = [handler EXCEPT ![c] = "done"]
      BY <1>9 DEF scheduleDisconnectEvent, At, Goto
    <2> QED
      BY <2>1 DEF IInv, TypeOK, ReachInv, LiveIsReachable, Connected, At
  <1> QED
    BY <1>1, <1>2, <1>3, <1>4, <1>5, <1>6, <1>7, <1>8, <1>9 DEF HandlerStep

(* The disconnect timers only publish. *)
LEMMA TimerKeeps ==
    ASSUME IInv, NEW c \in Conns, TimerStep(c)
    PROVE  IInv'
  <1> USE DEF TimerStep, TimerFires, TimerRuns, PublishDisconnected, server
  <1>1. TypeOK'
    BY DEF IInv, TypeOK
  <1>2. UNCHANGED <<handler, cancelled, agents, old, sweep>>
    OBVIOUS
  <1>3. ReachInv'
    BY <1>2 DEF IInv, ReachInv, LiveIsReachable, At
  <1> QED
    BY <1>1, <1>3 DEF IInv

(* sweepStaleAgents removes only what it has seen dead. *)
LEMMA SweepKeeps ==
    ASSUME IInv, SweepStep
    PROVE  IInv'
  <1> USE ConnectionAssumption DEF SweepGoto, server, delays
  <1>1. CASE SweepLists
    <2>1. TypeOK'
      BY <1>1 DEF IInv, TypeOK, SweepLists
    <2>2. UNCHANGED <<handler, cancelled, agents, old>>
          /\ sweep' = [pc |-> "remove", conn |-> agents]
          /\ agents # None /\ cancelled[agents]
      BY <1>1 DEF SweepLists
    <2>3. ReachInv'
      BY <2>2 DEF IInv, ReachInv, LiveIsReachable, At
    <2> QED
      BY <2>1, <2>3 DEF IInv
  <1>2. CASE SweepRemoves
    <2>1. TypeOK'
      BY <1>2 DEF IInv, TypeOK, SweepRemoves
    <2>2. /\ UNCHANGED <<handler, cancelled, old>> /\ sweep.pc = "remove"
          /\ sweep'.conn = sweep.conn
          /\ agents # sweep.conn => agents' = agents
      BY <1>2 DEF IInv, TypeOK, SweepRemoves
    <2>3. sweep.conn # None /\ cancelled[sweep.conn]
      BY <2>2 DEF IInv, ReachInv
    <2>4. ReachInv'
      BY <2>2, <2>3 DEF IInv, ReachInv, LiveIsReachable, At
    <2> QED
      BY <2>1, <2>4 DEF IInv
  <1>3. CASE SweepMarks \/ SweepPublishes
    <2>1. TypeOK'
      BY <1>3 DEF IInv, TypeOK, SweepMarks, SweepPublishes
    <2>2. /\ UNCHANGED <<handler, cancelled, agents, old>>
          /\ sweep.pc # "idle" /\ sweep'.conn = sweep.conn
      BY <1>3 DEF IInv, TypeOK, SweepMarks, SweepPublishes
    <2>3. ReachInv'
      BY <2>2 DEF IInv, ReachInv, LiveIsReachable, At
    <2> QED
      BY <2>1, <2>3 DEF IInv
  <1> QED
    BY <1>1, <1>2, <1>3 DEF SweepStep

LEMMA StepIInv == IInv /\ [Next]_vars => IInv'
  <1> SUFFICES ASSUME IInv, [Next]_vars PROVE IInv'
    OBVIOUS
  <1>1. ASSUME NEW c \in Conns, CommandStream(c) \/ HandlerStep(c) PROVE IInv'
    <2>1. TypeOK'
      BY <1>1, HandlerType, ReachParts DEF IInv
    <2>2. ReachInv'
      BY <1>1, HandlerReach
    <2> QED
      BY <2>1, <2>2 DEF IInv
  <1>2. CASE UNCHANGED vars
    BY <1>2 DEF IInv, TypeOK, ReachInv, LiveIsReachable, At, vars, server, delays
  <1> QED
    BY <1>1, <1>2, LinkStep, TimerKeeps, SweepKeeps DEF Next

(* DisconnectIfMatch, the sweep and the rollback in Register take out only *)
(* their own entry: a live connection stays the one GetAgent returns until *)
(* it is replaced.                                                         *)
THEOREM LiveStaysReachable == Spec => []LiveIsReachable
  <1>1. IInv => LiveIsReachable
    BY DEF IInv, ReachInv
  <1> QED
    BY InitIInv, StepIInv, <1>1, PTL DEF Spec

-----------------------------------------------------------------------------
(* The agent as a process of its machine.                                  *)

LifecycleSpec == AgentLifecycleInit /\ [][AgentLifecycleNext]_procVars

Signals    == {"none", "term", "kill"}
AgentSteps == {"check", "remove", "truncate", "fill", "list", "reap", "client", "serving", "closing", "exit"}
AgentRecs  == [kind : {"agent"}, unit : BOOLEAN, at : AgentSteps, got : Signals,
               todo : SUBSET Pids, target : Pids \cup {NoPid}]
OtherRecs  == [kind : {"other"}, got : Signals]
ClaudeRecs == [kind : {"claude"}, got : Signals, parent : Pids \cup {NoPid}]
ProcRecs   == {NoProc} \cup AgentRecs \cup OtherRecs \cup ClaudeRecs
StopSteps  == {"idle", "service", "wait", "check", "find", "signal", "recheck", "remove",
               "scan", "signal all", "finish"}
StopRecs   == [at : StopSteps, by : {"join", "install", "uninstall", "purge"}, pid : Pids \cup {NoPid},
               todo : SUBSET Pids, target : Pids \cup {NoPid}]

LcTypes == /\ proc \in [Pids -> ProcRecs] /\ stop \in StopRecs
           /\ pidFile \in Pids \cup {NoPid, Empty}
           /\ service \in BOOLEAN /\ configured \in BOOLEAN /\ muddled \in BOOLEAN
           /\ upheavals \in 0 .. MaxUpheavals

(* A claude process has a living agent or init as its parent.              *)
Parents == \A p \in Claudes : proc[p].parent \in Agents \cup {NoPid}

OneMain == \A p \in Main : \A q \in Main : p = q

(* What somebody has listed, if it still lives, is what it was: an agent   *)
(* for a command, an orphaned claude process for an agent that reaps.      *)
Orphan(t)  == t \in Claudes /\ proc[t].parent = NoPid
ReapList   == \A p \in Agents : \A t \in proc[p].todo \cup {proc[p].target} : Alive(t) => Orphan(t)
StopList   == \A t \in stop.todo \cup {stop.target} : Alive(t) => t \in Agents

(* The agents that have found no other one in the pid file.                *)
Past == {p \in Agents : proc[p].at \in {"remove", "truncate", "fill", "list", "reap", "client", "serving", "closing"}}
StopDecides == stop.at \in {"find", "signal", "recheck", "remove"}

(* While nobody has looked at the pid file at the wrong moment, it names   *)
(* the one agent that holds the lock, and a command that acts on what it   *)
(* read knows this agent; when it removes the file there is none, unless   *)
(* it could not see the agent (purge, as root).                            *)
LockHeld == /\ \A p \in Past : \A q \in Past : p = q
            /\ \A p \in Holders : pidFile = p
            /\ StopDecides => \A p \in Past : p \in Holders /\ p = stop.pid
            /\ stop.at = "remove" /\ stop.by # "purge" => Past = {}
Lock == ~muddled => LockHeld

LcInd == LcTypes /\ Parents /\ OneMain /\ ReapList /\ StopList /\ Lock

(* What a process is follows from its kind. *)
LEMMA RecKinds ==
    ASSUME NEW r \in ProcRecs
    PROVE  /\ r.kind \in {"none", "agent", "other", "claude"}
           /\ r.kind = "none" => r = NoProc
           /\ r.kind = "agent" => r \in AgentRecs
           /\ r.kind = "other" => r \in OtherRecs
           /\ r.kind = "claude" => r \in ClaudeRecs
           /\ r.kind # "none" => r.got \in Signals
  BY DEF ProcRecs, NoProc, AgentRecs, OtherRecs, ClaudeRecs

LEMMA ProcKinds ==
    ASSUME LcTypes, NEW q \in Pids
    PROVE  /\ proc[q] \in ProcRecs
           /\ proc[q].kind \in {"none", "agent", "other", "claude"}
           /\ proc[q].kind = "none" => proc[q] = NoProc
           /\ q \in Agents => proc[q] \in AgentRecs /\ proc[q].kind = "agent"
           /\ q \in Claudes => proc[q] \in ClaudeRecs /\ proc[q].kind = "claude"
           /\ proc[q].kind = "other" => proc[q] \in OtherRecs
           /\ Alive(q) => proc[q].got \in Signals
           /\ Alive(q) <=> proc[q].kind # "none"
  <1>1. proc[q] \in ProcRecs
    BY DEF LcTypes
  <1> QED
    BY <1>1, RecKinds DEF Agents, Claudes, Alive

LEMMA NoPidFacts == NoPid \notin Pids /\ ~Alive(NoPid) /\ NoPid # Empty /\ Empty \notin Pids /\ ~Alive(NoPid)'
  BY LifecycleAssumption DEF Alive

(* A step in which processes end, and the rest stays what it is.           *)
Milder ==
    \A q \in Pids :
       \/ proc'[q].kind = "none"
       \/ /\ proc'[q].kind = proc[q].kind
          /\ q \in Agents => proc'[q].unit = proc[q].unit
          /\ q \in Claudes => \/ proc'[q].parent = NoPid
                              \/ proc'[q].parent = proc[q].parent /\ proc[q].parent \in Agents'

LEMMA MilderKeeps ==
    ASSUME Milder, Parents, OneMain
    PROVE  /\ Parents' /\ OneMain'
           /\ Agents' \subseteq Agents /\ Claudes' \subseteq Claudes
           /\ \A t : Alive(t)' => /\ Alive(t)
                                  /\ t \in Agents => t \in Agents'
                                  /\ Orphan(t) => Orphan(t)'
  <1>1. Agents' \subseteq Agents /\ Claudes' \subseteq Claudes
    BY DEF Milder, Agents, Claudes
  <1>2. Parents'
    BY <1>1 DEF Milder, Parents, Claudes, Agents
  <1>3. Main' \subseteq Main
    BY <1>1 DEF Milder, Main, Agents
  <1>4. OneMain'
    BY <1>3 DEF OneMain
  <1>5. ASSUME NEW t, Alive(t)'
        PROVE  Alive(t) /\ (t \in Agents => t \in Agents') /\ (Orphan(t) => Orphan(t)')
    <2>1. t \in Pids /\ proc'[t].kind # "none" /\ proc'[t].kind = proc[t].kind
      BY <1>5 DEF Alive, Milder
    <2>2. t \in Agents => t \in Agents'
      BY <2>1 DEF Agents
    <2>3. ASSUME Orphan(t) PROVE Orphan(t)'
      <3>1. t \in Claudes /\ proc[t].parent = NoPid /\ t \in Claudes'
        BY <2>1, <2>3 DEF Orphan, Claudes
      <3>2. proc'[t].parent = NoPid
        BY <2>1, <3>1 DEF Milder
      <3> QED
        BY <3>1, <3>2 DEF Orphan
    <2> QED
      BY <2>1, <2>2, <2>3 DEF Alive
  <1> QED
    BY <1>1, <1>2, <1>4, <1>5

(* Lists that are made shorter, or of what is listed rightly.              *)
LEMMA ListsKept ==
    ASSUME Milder, Parents, OneMain, ReapList, StopList,
           \A p \in Agents' : \A t \in proc'[p].todo \cup {proc'[p].target} :
              t \in proc[p].todo \cup {proc[p].target} \/ t = NoPid \/ Orphan(t),
           \A t \in stop'.todo \cup {stop'.target} :
              t \in stop.todo \cup {stop.target} \/ t = NoPid \/ t \in Agents
    PROVE  ReapList' /\ StopList'
  <1>1. /\ Agents' \subseteq Agents
        /\ \A t : Alive(t)' => Alive(t) /\ (t \in Agents => t \in Agents') /\ (Orphan(t) => Orphan(t)')
    BY MilderKeeps
  <1>2. ASSUME NEW p \in Agents', NEW t \in proc'[p].todo \cup {proc'[p].target}, Alive(t)'
        PROVE  Orphan(t)'
    <2>1. p \in Agents /\ Alive(t) /\ t # NoPid
      BY <1>1, <1>2, NoPidFacts
    <2>2. Orphan(t)
      BY <1>2, <2>1 DEF ReapList
    <2> QED
      BY <1>1, <1>2, <2>2
  <1>3. ASSUME NEW t \in stop'.todo \cup {stop'.target}, Alive(t)'
        PROVE  t \in Agents'
    <2>1. Alive(t) /\ t # NoPid
      BY <1>1, <1>3, NoPidFacts
    <2>2. t \in Agents
      BY <1>3, <2>1 DEF StopList
    <2> QED
      BY <1>1, <1>3, <2>2
  <1>4. ReapList'
    BY <1>2 DEF ReapList
  <1>5. StopList'
    BY <1>3 DEF StopList
  <1> QED
    BY <1>4, <1>5

(* The lock is not touched: nobody gets past the check, the file stays     *)
(* and a command decides nothing new.                                      *)
LEMMA LockKept ==
    ASSUME Lock, muddled \in BOOLEAN, muddled => muddled', pidFile' = pidFile,
           \A q \in Past' : q \in Past /\ (q \in Holders => q \in Holders'),
           \A q \in Holders' : q \in Holders,
           StopDecides' => StopDecides /\ stop'.pid = stop.pid
                           /\ (stop'.at = "remove" /\ stop'.by # "purge" => stop.at = "remove" /\ stop.by # "purge")
    PROVE  Lock'
  <1> SUFFICES ASSUME ~muddled' PROVE LockHeld'
    BY DEF Lock
  <1>1. LockHeld
    BY DEF Lock
  <1>2. (\A p \in Past : \A q \in Past : p = q)'
    BY <1>1 DEF LockHeld
  <1>3. (\A p \in Holders : pidFile = p)'
    BY <1>1 DEF LockHeld
  <1>4. (StopDecides => \A p \in Past : p \in Holders /\ p = stop.pid)'
    BY <1>1 DEF LockHeld
  <1>5. (stop.at = "remove" /\ stop.by # "purge" => Past = {})'
    BY <1>1 DEF LockHeld, StopDecides
  <1> QED
    BY <1>2, <1>3, <1>4, <1>5 DEF LockHeld

(* Agents keep their place and their lists. *)
Steady == \A q \in Agents' : proc'[q].at = proc[q].at /\ proc'[q].todo = proc[q].todo
                             /\ proc'[q].target = proc[q].target

LEMMA SteadySets ==
    ASSUME Milder, Parents, OneMain, Steady
    PROVE  /\ \A q \in Past' : q \in Past /\ (q \in Holders => q \in Holders')
           /\ \A q \in Holders' : q \in Holders
  <1>1. Agents' \subseteq Agents
    BY MilderKeeps
  <1> QED
    BY <1>1 DEF Steady, Past, Holders

(* Who gets a signal in a step. *)
OnlyGot(t) == \A q \in Pids \ {t} : Alive(q) /\ Alive(q)' => proc'[q].got = proc[q].got

LEMMA HitsTarget ==
    ASSUME NEW t, OnlyGot(t), Alive(t) => t \in Agents \/ Orphan(t)
    PROVE  SignalsHitTheirTargets
  BY DEF SignalsHitTheirTargets, OnlyGot, Orphan

(* A process ends: its claude processes end with it or become orphans.     *)
LEMMA EndsStep ==
    ASSUME LcTypes, Parents, OneMain, NEW p \in Pids, Ends(p)
    PROVE  /\ proc' \in [Pids -> ProcRecs] /\ Milder /\ Steady
           /\ OnlyGot(NoPid) /\ p \notin Agents'
           /\ \A q \in Agents' : q \in Agents /\ proc'[q] = proc[q]
  <1>1. PICK hungUp \in SUBSET {c \in Claudes : proc[c].parent = p} :
           proc' = [q \in Pids |-> IF q = p \/ q \in hungUp THEN NoProc
                                   ELSE IF q \in Claudes /\ proc[q].parent = p THEN [proc[q] EXCEPT !.parent = NoPid]
                                   ELSE proc[q]]
    BY DEF Ends
  <1>2. ASSUME NEW q \in Pids
        PROVE  /\ proc'[q] \in ProcRecs
               /\ \/ proc'[q] = NoProc /\ (q = p \/ q \in Claudes)
                  \/ proc'[q] = proc[q] /\ q # p /\ ~(q \in Claudes /\ proc[q].parent = p)
                  \/ /\ q \in Claudes /\ proc[q].parent = p /\ proc'[q].kind = "claude"
                     /\ proc'[q].parent = NoPid /\ proc'[q].got = proc[q].got
    <2>1. CASE q = p \/ q \in hungUp
      <3>1. proc'[q] = NoProc
        BY <1>1, <2>1
      <3> QED
        BY <2>1, <3>1 DEF ProcRecs
    <2>2. CASE ~(q = p \/ q \in hungUp) /\ q \in Claudes /\ proc[q].parent = p
      <3>1. proc'[q] = [proc[q] EXCEPT !.parent = NoPid]
        BY <1>1, <2>2
      <3>2. proc[q] \in ClaudeRecs
        BY <2>2, ProcKinds
      <3>3. proc'[q] \in ClaudeRecs /\ proc'[q].kind = "claude" /\ proc'[q].parent = NoPid /\ proc'[q].got = proc[q].got
        BY <3>1, <3>2 DEF ClaudeRecs
      <3> QED
        BY <2>2, <3>3 DEF ProcRecs
    <2>3. CASE ~(q = p \/ q \in hungUp) /\ ~(q \in Claudes /\ proc[q].parent = p)
      <3>1. proc'[q] = proc[q]
        BY <1>1, <2>3
      <3> QED
        BY <2>3, <3>1, ProcKinds
    <2> QED
      BY <2>1, <2>2, <2>3
  <1>3. proc' \in [Pids -> ProcRecs]
    <2>1. proc' = [q \in Pids |-> proc'[q]]
      BY <1>1
    <2> QED
      BY <1>2, <2>1
  <1>4. NoProc.kind = "none"
    BY DEF NoProc
  <1>5. \A q \in Agents' : q \in Agents /\ proc'[q] = proc[q] /\ q # p
    BY <1>2, <1>4 DEF Agents, Claudes
  <1>6. \A q \in Agents : q # p => q \in Agents'
    BY <1>2, <1>4 DEF Agents, Claudes
  <1>7. Milder
    <2> SUFFICES ASSUME NEW q \in Pids, proc'[q].kind # "none"
                 PROVE  /\ proc'[q].kind = proc[q].kind
                        /\ q \in Agents => proc'[q].unit = proc[q].unit
                        /\ q \in Claudes => \/ proc'[q].parent = NoPid
                                            \/ proc'[q].parent = proc[q].parent /\ proc[q].parent \in Agents'
      BY DEF Milder
    <2>1. CASE proc'[q] = proc[q] /\ ~(q \in Claudes /\ proc[q].parent = p)
      BY <2>1, <1>6 DEF Parents
    <2>2. CASE q \in Claudes /\ proc'[q].kind = "claude" /\ proc'[q].parent = NoPid
      BY <2>2 DEF Claudes, Agents
    <2> QED
      BY <1>2, <1>4, <2>1, <2>2
  <1>8. Steady
    BY <1>5 DEF Steady
  <1>9. OnlyGot(NoPid)
    BY <1>2, <1>4 DEF OnlyGot, Alive
  <1> QED
    BY <1>3, <1>5, <1>7, <1>8, <1>9

(* The steps that keep what processes there are. *)
LEMMA SameMilder ==
    ASSUME Parents,
           \A q \in Pids : /\ proc'[q].kind = proc[q].kind
                           /\ q \in Agents => proc'[q].unit = proc[q].unit
                           /\ q \in Claudes => proc'[q].parent = proc[q].parent
    PROVE  Milder /\ Agents' = Agents
  <1>1. Agents' = Agents
    BY DEF Agents
  <1> QED
    BY <1>1 DEF Milder, Parents

LEMMA SameProcs ==
    ASSUME Parents, UNCHANGED proc
    PROVE  Milder /\ Steady /\ OnlyGot(NoPid) /\ Agents' = Agents
  <1>1. Milder /\ Agents' = Agents
    BY SameMilder
  <1> QED
    BY <1>1 DEF Steady, OnlyGot

(* A signal is noted by its target and changes nothing else.               *)
SignalTo(was, new, t) ==
    /\ new \in [Pids -> ProcRecs]
    /\ \A q \in Pids : /\ new[q].kind = was[q].kind
                       /\ q # t => new[q] = was[q]
                       /\ was[q].kind = "agent" => /\ new[q].unit = was[q].unit /\ new[q].at = was[q].at
                                                   /\ new[q].todo = was[q].todo /\ new[q].target = was[q].target
                       /\ was[q].kind = "claude" => new[q].parent = was[q].parent

LEMMA SignalledValue ==
    ASSUME LcTypes, NEW t \in Pids, Alive(t), NEW sig \in {"term", "kill"}
    PROVE  SignalTo(proc, Signalled(t, sig), t)
  <1> DEFINE g == IF proc[t].got = "kill" THEN "kill" ELSE sig
             r == [proc[t] EXCEPT !.got = g]
  <1>1. g \in Signals
    BY DEF Signals
  <1>2. proc \in [Pids -> ProcRecs] /\ proc[t] \in ProcRecs /\ proc[t].kind # "none"
    BY DEF LcTypes, Alive
  <1>3. Signalled(t, sig) = [proc EXCEPT ![t] = r]
    BY <1>2 DEF Signalled
  <1>4. /\ r \in ProcRecs /\ r.kind = proc[t].kind
        /\ r.kind = "agent" => /\ r.unit = proc[t].unit /\ r.at = proc[t].at
                               /\ r.todo = proc[t].todo /\ r.target = proc[t].target
        /\ r.kind = "claude" => r.parent = proc[t].parent
    <2> HIDE DEF g
    <2>1. CASE proc[t] \in AgentRecs
      <3>1. r \in AgentRecs
        BY <1>1, <2>1 DEF AgentRecs
      <3> QED
        BY <2>1, <3>1 DEF AgentRecs, ProcRecs
    <2>2. CASE proc[t] \in OtherRecs
      <3>1. r \in OtherRecs
        BY <1>1, <2>2 DEF OtherRecs
      <3> QED
        BY <2>2, <3>1 DEF OtherRecs, ProcRecs
    <2>3. CASE proc[t] \in ClaudeRecs
      <3>1. r \in ClaudeRecs
        BY <1>1, <2>3 DEF ClaudeRecs
      <3> QED
        BY <2>3, <3>1 DEF ClaudeRecs, ProcRecs
    <2> QED
      BY <1>2, <2>1, <2>2, <2>3, RecKinds
  <1> HIDE DEF r
  <1>5. [proc EXCEPT ![t] = r] \in [Pids -> ProcRecs]
    BY <1>2, <1>4
  <1>6. \A q \in Pids : [proc EXCEPT ![t] = r][q] = IF q = t THEN r ELSE proc[q]
    BY <1>2
  <1> QED
    BY <1>3, <1>4, <1>5, <1>6 DEF SignalTo

LEMMA SignalStep ==
    ASSUME LcTypes, Parents, NEW t \in Pids, SignalTo(proc, proc', t)
    PROVE  proc' \in [Pids -> ProcRecs] /\ Milder /\ Steady /\ OnlyGot(t) /\ Agents' = Agents
  <1>1. Milder /\ Agents' = Agents
    BY SameMilder DEF SignalTo, Agents, Claudes
  <1>2. Steady
    BY <1>1 DEF Steady, SignalTo, Agents
  <1>3. OnlyGot(t)
    BY DEF OnlyGot, SignalTo
  <1> QED
    BY <1>1, <1>2, <1>3 DEF SignalTo

(* An agent moves on, with other lists perhaps. *)
LEMMA AgentStep ==
    ASSUME LcTypes, Parents, NEW p \in Agents, NEW r \in AgentRecs,
           r.unit = proc[p].unit, r.got = proc[p].got, proc' = [proc EXCEPT ![p] = r]
    PROVE  /\ proc' \in [Pids -> ProcRecs] /\ Milder /\ OnlyGot(NoPid) /\ Agents' = Agents
           /\ proc'[p] = r /\ \A q \in Agents : q # p => proc'[q] = proc[q]
  <1>1. p \in Pids /\ proc[p].kind = "agent" /\ r.kind = "agent" /\ r \in ProcRecs
    BY DEF Agents, AgentRecs, ProcRecs
  <1>2. proc \in [Pids -> ProcRecs]
    BY DEF LcTypes
  <1>3. /\ proc' \in [Pids -> ProcRecs] /\ proc'[p] = r
        /\ \A q \in Pids : q # p => proc'[q] = proc[q]
    BY <1>1, <1>2
  <1>4. Milder /\ Agents' = Agents
    <2>1. p \notin Claudes
      BY <1>1 DEF Claudes
    <2> QED
      BY <1>1, <1>3, <2>1, SameMilder
  <1>5. OnlyGot(NoPid)
    BY <1>3 DEF OnlyGot
  <1> QED
    BY <1>3, <1>4, <1>5 DEF Agents

(* Types of what the steps do not compute. *)
LEMMA UpheavalTypes == LcTypes /\ (Upheaval \/ UNCHANGED upheavals) => upheavals' \in 0 .. MaxUpheavals
  BY LifecycleAssumption DEF LcTypes, Upheaval

(* Steps that end processes, signal them or leave them, and in which a     *)
(* command comes to no new decision about the pid file.                    *)
LEMMA SteadyStep ==
    ASSUME LcInd, LcTypes', Milder, Steady, muddled => muddled', pidFile' = pidFile,
           \A t \in stop'.todo \cup {stop'.target} :
              t \in stop.todo \cup {stop.target} \/ t = NoPid \/ t \in Agents,
           StopDecides' => StopDecides /\ stop'.pid = stop.pid
                           /\ (stop'.at = "remove" /\ stop'.by # "purge" => stop.at = "remove" /\ stop.by # "purge")
    PROVE  LcInd'
  <1> USE DEF LcInd
  <1>1. Parents' /\ OneMain' /\ Agents' \subseteq Agents
    BY MilderKeeps
  <1>2. \A p \in Agents' : \A t \in proc'[p].todo \cup {proc'[p].target} : t \in proc[p].todo \cup {proc[p].target}
    BY DEF Steady
  <1>3. ReapList' /\ StopList'
    BY <1>2, ListsKept
  <1>4. muddled \in BOOLEAN
    BY DEF LcTypes
  <1>5. Lock'
    BY <1>4, SteadySets, LockKept
  <1> QED
    BY <1>1, <1>3, <1>5

LEMMA EndsKeep ==
    ASSUME LcInd, NEW p \in Pids, Ends(p), muddled' \in BOOLEAN, muddled => muddled',
           Upheaval \/ UNCHANGED upheavals, UNCHANGED <<pidFile, service, configured, stop>>
    PROVE  LcInd' /\ SignalsHitTheirTargets
  <1>1. /\ proc' \in [Pids -> ProcRecs] /\ Milder /\ Steady /\ OnlyGot(NoPid)
    BY EndsStep DEF LcInd
  <1>2. LcTypes'
    BY <1>1, UpheavalTypes DEF LcTypes, LcInd
  <1>3. LcInd'
    BY <1>1, <1>2, SteadyStep DEF StopDecides
  <1>4. SignalsHitTheirTargets
    BY <1>1, HitsTarget, NoPidFacts
  <1> QED
    BY <1>3, <1>4

LEMMA LcEnding ==
    ASSUME LcInd, NEW p \in Pids, Crash(p) \/ Dies(p) \/ Exit(p)
    PROVE  LcInd' /\ SignalsHitTheirTargets
  <1>1. Ends(p) /\ (Upheaval \/ UNCHANGED upheavals) /\ UNCHANGED <<pidFile, service, configured, stop, muddled>>
    BY DEF Crash, Dies, Exit
  <1>2. muddled' \in BOOLEAN /\ (muddled => muddled')
    BY <1>1 DEF LcInd, LcTypes
  <1> QED
    BY <1>1, <1>2, EndsKeep

(* A new process: nobody has listed its id, and it is not past the check.  *)
LEMMA ExecKeeps ==
    ASSUME LcInd, NEW p \in Pids, NEW new \in ProcRecs, Exec(p, new),
           new.kind = "agent" => /\ new.at = "check" /\ new.todo = {} /\ new.target = NoPid
                                 /\ new.unit => Main = {},
           new.kind = "claude" => new.parent \in Agents,
           Upheaval \/ UNCHANGED upheavals,
           UNCHANGED <<pidFile, service, configured, stop, muddled>>
    PROVE  LcInd' /\ SignalsHitTheirTargets
  <1> USE DEF LcInd
  <1>1. /\ proc \in [Pids -> ProcRecs] /\ ~Alive(p) /\ p \notin Awaited /\ proc' = [proc EXCEPT ![p] = new]
        /\ proc[p].kind = "none"
    BY DEF Exec, LcTypes, Alive
  <1>2. /\ proc' \in [Pids -> ProcRecs] /\ proc'[p] = new
        /\ \A q \in Pids : q # p => proc'[q] = proc[q]
    BY <1>1
  <1>3. LcTypes'
    BY <1>2, UpheavalTypes DEF LcTypes
  <1>4. /\ p \notin Agents /\ p \notin Claudes /\ Agents \subseteq Agents' /\ Agents' \subseteq Agents \cup {p}
        /\ Claudes' \subseteq Claudes \cup {p}
        /\ p \in Agents' => new.kind = "agent"
        /\ p \in Claudes' => new.kind = "claude"
        /\ \A q \in Agents : proc'[q] = proc[q]
        /\ \A q \in Claudes : proc'[q] = proc[q] /\ q \in Claudes'
    BY <1>1, <1>2 DEF Agents, Claudes
  <1>5. Parents'
    BY <1>2, <1>4 DEF Parents
  <1>6. OneMain'
    <2>1. CASE new.kind = "agent" /\ new.unit
      BY <1>2, <1>4, <2>1 DEF OneMain, Main
    <2>2. CASE ~(new.kind = "agent" /\ new.unit)
      BY <1>2, <1>4, <2>2 DEF OneMain, Main
    <2> QED
      BY <2>1, <2>2
  <1>7. /\ p \notin stop.todo \cup {stop.target}
        /\ \A q \in Agents : p \notin proc[q].todo \cup {proc[q].target}
    BY <1>1 DEF Awaited
  <1>8. \A t : Alive(t)' /\ t # p => Alive(t)
    BY <1>2 DEF Alive
  <1>9. StopList'
    BY <1>4, <1>7, <1>8 DEF StopList
  <1>10. ReapList'
    <2> SUFFICES ASSUME NEW q \in Agents', NEW t \in proc'[q].todo \cup {proc'[q].target}, Alive(t)'
                 PROVE  Orphan(t)'
      BY DEF ReapList
    <2>1. q # p
      BY <1>2, <1>4, NoPidFacts
    <2>2. q \in Agents /\ proc'[q] = proc[q]
      BY <1>4, <2>1
    <2>3. t # p /\ Orphan(t)
      BY <1>7, <1>8, <2>2 DEF ReapList
    <2> QED
      BY <1>4, <2>3 DEF Orphan
  <1>11. Past' = Past /\ Holders' = Holders
    BY <1>2, <1>4 DEF Past, Holders
  <1>12. Lock'
    BY <1>11 DEF Lock, LockHeld, StopDecides
  <1>13. SignalsHitTheirTargets
    <2>1. OnlyGot(NoPid)
      BY <1>1, <1>2 DEF OnlyGot
    <2> QED
      BY <2>1, HitsTarget, NoPidFacts
  <1> QED
    BY <1>3, <1>5, <1>6, <1>9, <1>10, <1>12, <1>13

LEMMA LcStarting ==
    ASSUME LcInd, NEW p \in Pids,
           RunAgent(p) \/ ServiceStarts(p) \/ OtherStarts(p) \/ \E c \in Pids : SessionStarts(p, c)
    PROVE  LcInd' /\ SignalsHitTheirTargets
  <1>1. \A u \in BOOLEAN : Agent(u) \in AgentRecs /\ Agent(u).kind = "agent" /\ Agent(u).at = "check"
                           /\ Agent(u).todo = {} /\ Agent(u).target = NoPid /\ Agent(u).unit = u
    BY DEF Agent, AgentRecs, AgentSteps, Signals
  <1>2. Other \in OtherRecs /\ Other.kind = "other"
    BY DEF Other, OtherRecs, Signals
  <1>3. Claude(p) \in ClaudeRecs /\ Claude(p).kind = "claude" /\ Claude(p).parent = p
    BY DEF Claude, ClaudeRecs, Signals
  <1>4. CASE RunAgent(p)
    <2> DEFINE new == Agent(FALSE)
    <2>1. new \in ProcRecs /\ new.kind = "agent" /\ new.at = "check" /\ new.todo = {} /\ new.target = NoPid /\ ~new.unit
      BY <1>1 DEF ProcRecs
    <2>2. Exec(p, new) /\ Upheaval /\ UNCHANGED <<pidFile, service, configured, stop, muddled>>
      BY <1>4 DEF RunAgent
    <2> HIDE DEF new
    <2> QED
      BY <2>1, <2>2, ExecKeeps
  <1>5. CASE ServiceStarts(p)
    <2> DEFINE new == Agent(TRUE)
    <2>1. new \in ProcRecs /\ new.kind = "agent" /\ new.at = "check" /\ new.todo = {} /\ new.target = NoPid
      BY <1>1 DEF ProcRecs
    <2>2. Exec(p, new) /\ Main = {} /\ UNCHANGED <<pidFile, service, configured, stop, upheavals, muddled>>
      BY <1>5 DEF ServiceStarts
    <2> HIDE DEF new
    <2> QED
      BY <2>1, <2>2, ExecKeeps
  <1>6. CASE OtherStarts(p)
    <2> DEFINE new == Other
    <2>1. new \in ProcRecs /\ new.kind = "other"
      BY <1>2 DEF ProcRecs
    <2>2. Exec(p, new) /\ Upheaval /\ UNCHANGED <<pidFile, service, configured, stop, muddled>>
      BY <1>6 DEF OtherStarts
    <2> HIDE DEF new
    <2> QED
      BY <2>1, <2>2, ExecKeeps
  <1>7. CASE \E c \in Pids : SessionStarts(p, c)
    <2>1. PICK c \in Pids : SessionStarts(p, c)
      BY <1>7
    <2> DEFINE new == Claude(p)
    <2>2. new \in ProcRecs /\ new.kind = "claude" /\ new.parent = p
      BY <1>3 DEF ProcRecs
    <2>3. p \in Agents /\ Exec(c, new) /\ Upheaval /\ UNCHANGED <<pidFile, service, configured, stop, muddled>>
      BY <2>1 DEF SessionStarts, ProcAt
    <2> HIDE DEF new
    <2> QED
      BY <2>2, <2>3, ExecKeeps
  <1> QED
    BY <1>4, <1>5, <1>6, <1>7

(* A step of the run command: all but the lock. *)
LEMMA GotoStep ==
    ASSUME LcInd, NEW p \in Agents, NEW s \in AgentSteps, ProcGoto(p, s), UNCHANGED stop
    PROVE  /\ proc' \in [Pids -> ProcRecs] /\ Agents' = Agents /\ proc'[p].at = s
           /\ \A q \in Agents : q # p => proc'[q] = proc[q]
           /\ Parents' /\ OneMain' /\ ReapList' /\ StopList' /\ SignalsHitTheirTargets
  <1> USE DEF LcInd
  <1> DEFINE r == [proc[p] EXCEPT !.at = s]
  <1>1. proc[p] \in AgentRecs /\ p \in Pids
    BY ProcKinds DEF Agents
  <1>2. /\ r \in AgentRecs /\ r.unit = proc[p].unit /\ r.got = proc[p].got /\ r.at = s
        /\ r.todo = proc[p].todo /\ r.target = proc[p].target
    BY <1>1 DEF AgentRecs
  <1>3. proc' = [proc EXCEPT ![p] = r]
    BY <1>1 DEF ProcGoto, LcTypes
  <1> HIDE DEF r
  <1>4. /\ proc' \in [Pids -> ProcRecs] /\ Milder /\ OnlyGot(NoPid) /\ Agents' = Agents
        /\ proc'[p] = r /\ \A q \in Agents : q # p => proc'[q] = proc[q]
    BY <1>2, <1>3, AgentStep
  <1>5. ReapList' /\ StopList'
    <2>1. \A q \in Agents' : proc'[q].todo = proc[q].todo /\ proc'[q].target = proc[q].target
      BY <1>2, <1>4
    <2> QED
      BY <1>4, <2>1, ListsKept
  <1>6. Parents' /\ OneMain'
    BY <1>4, MilderKeeps
  <1>7. SignalsHitTheirTargets
    BY <1>4, HitsTarget, NoPidFacts
  <1> QED
    BY <1>2, <1>4, <1>5, <1>6, <1>7

PastSteps   == {"remove", "truncate", "fill", "list", "reap", "client", "serving", "closing"}
HolderSteps == {"list", "reap", "client", "serving", "closing"}

LEMMA PastFacts ==
    /\ \A p : p \in Past <=> p \in Agents /\ proc[p].at \in PastSteps
    /\ \A p : p \in Holders <=> p \in Agents /\ proc[p].at \in HolderSteps
    /\ \A p : p \in Past' <=> p \in Agents' /\ proc'[p].at \in PastSteps
    /\ \A p : p \in Holders' <=> p \in Agents' /\ proc'[p].at \in HolderSteps
    /\ HolderSteps \subseteq PastSteps /\ PastSteps \subseteq AgentSteps
  BY DEF Past, Holders, PastSteps, HolderSteps, AgentSteps

(* The check of the pid file.  Who finds no agent there is alone: a        *)
(* holder is alive and named, and one on its way makes the moment wrong.   *)
LEMMA LcCheck ==
    ASSUME LcInd, NEW p \in Pids, PIDLock(p)
    PROVE  LcInd' /\ SignalsHitTheirTargets
  <1>1. /\ p \in Agents /\ proc[p].at = "check" /\ muddled' = (muddled \/ Deciding(p))
        /\ UNCHANGED <<pidFile, service, configured, stop, upheavals>>
    BY DEF PIDLock, ProcAt
  <1>2. muddled' \in BOOLEAN /\ (muddled => muddled') /\ muddled \in BOOLEAN
    BY <1>1 DEF LcInd, LcTypes
  <1>3. CASE Ends(p)
    BY <1>1, <1>2, <1>3, EndsKeep
  <1>4. CASE ~CheckPIDFile /\ ProcGoto(p, IF pidFile \in Pids THEN "remove" ELSE "truncate")
    <2> DEFINE s == IF pidFile \in Pids THEN "remove" ELSE "truncate"
    <2>1. s \in {"remove", "truncate"} /\ s \in AgentSteps
      BY DEF AgentSteps
    <2>2. ProcGoto(p, s)
      BY <1>4
    <2> HIDE DEF s
    <2>3. /\ proc' \in [Pids -> ProcRecs] /\ Agents' = Agents /\ proc'[p].at = s
          /\ \A q \in Agents : q # p => proc'[q] = proc[q]
          /\ Parents' /\ OneMain' /\ ReapList' /\ StopList' /\ SignalsHitTheirTargets
      BY <1>1, <2>1, <2>2, GotoStep
    <2>4. LcTypes'
      BY <1>1, <1>2, <2>3 DEF LcTypes, LcInd
    <2>5. Lock'
      <3> SUFFICES ASSUME ~muddled' PROVE LockHeld'
        BY DEF Lock
      <3>1. LockHeld /\ ~Deciding(p) /\ p # NoPid
        BY <1>1, <1>2, NoPidFacts DEF Lock, LcInd
      <3>2. ASSUME NEW q \in Past PROVE FALSE
        <4>1. q \in Agents /\ q # p /\ proc[q].at \in PastSteps
          BY <1>1, PastFacts DEF PastSteps
        <4>2. proc[q].at \notin {"remove", "truncate", "fill"}
          BY <3>1, <4>1 DEF Deciding
        <4>3. q \in Holders
          BY <4>1, <4>2, PastFacts DEF PastSteps, HolderSteps
        <4>4. pidFile = q /\ q \in Pids /\ Alive(q)
          BY <3>1, <4>1, <4>3 DEF LockHeld, Agents, Alive
        <4> QED
          BY <1>4, <4>4 DEF CheckPIDFile
      <3>3. \A q \in Past' : q = p
        BY <2>3, <3>2, PastFacts
      <3>4. Holders' = {}
        <4>1. p \notin Holders'
          BY <2>1, <2>3, PastFacts DEF HolderSteps
        <4> QED
          BY <3>3, <4>1, PastFacts
      <3>5. ~StopDecides'
        BY <1>1, <3>1 DEF Deciding, StopDecides
      <3> QED
        BY <3>3, <3>4, <3>5 DEF LockHeld, StopDecides
    <2> QED
      BY <2>3, <2>4, <2>5 DEF LcInd
  <1> QED
    BY <1>3, <1>4 DEF PIDLock

(* The steps to the lock and with it.  Before it is held no command acts   *)
(* on the file and no other agent is past the check.                       *)
LEMMA LcRunning ==
    ASSUME LcInd, NEW p \in Pids,
           \/ RemoveStale(p) \/ Truncate(p) \/ Fill(p) \/ StartClient(p)
           \/ ClientFails(p) \/ ClientReturns(p) \/ PidCleanup(p)
    PROVE  LcInd' /\ SignalsHitTheirTargets
  <1>1. PICK s \in AgentSteps :
          /\ p \in Agents /\ ProcGoto(p, s) /\ UNCHANGED <<service, configured, stop, muddled>>
          /\ Upheaval \/ UNCHANGED upheavals
          /\ proc[p].at \in PastSteps
          /\ \/ proc[p].at \in {"remove", "truncate"} /\ s \in {"truncate", "fill"} /\ pidFile' \in {NoPid, Empty}
             \/ proc[p].at = "fill" /\ s = "list" /\ pidFile' = p
             \/ proc[p].at \in HolderSteps /\ s \in HolderSteps /\ pidFile' = pidFile
             \/ proc[p].at \in HolderSteps /\ s = "exit" /\ pidFile' = NoPid
    <2> USE DEF RunStep, ProcAt, RemovePIDFile, AgentSteps, PastSteps, HolderSteps
    <2>1. CASE RemoveStale(p)
      BY <2>1 DEF RemoveStale
    <2>2. CASE Truncate(p)
      BY <2>2 DEF Truncate
    <2>3. CASE Fill(p)
      BY <2>3 DEF Fill
    <2>4. CASE StartClient(p)
      BY <2>4 DEF StartClient
    <2>5. CASE ClientFails(p)
      BY <2>5 DEF ClientFails
    <2>6. CASE ClientReturns(p)
      BY <2>6 DEF ClientReturns
    <2>7. CASE PidCleanup(p)
      BY <2>7 DEF PidCleanup
    <2> QED
      BY <2>1, <2>2, <2>3, <2>4, <2>5, <2>6, <2>7
  <1>2. /\ proc' \in [Pids -> ProcRecs] /\ Agents' = Agents /\ proc'[p].at = s
        /\ \A q \in Agents : q # p => proc'[q] = proc[q]
        /\ Parents' /\ OneMain' /\ ReapList' /\ StopList' /\ SignalsHitTheirTargets
    BY <1>1, GotoStep
  <1>3. LcTypes'
    BY <1>1, <1>2, UpheavalTypes DEF LcTypes, LcInd
  <1>4. Lock'
    <2> SUFFICES ASSUME ~muddled' PROVE LockHeld'
      BY DEF Lock
    <2>1. LockHeld
      BY <1>1 DEF Lock, LcInd
    <2>2. p \in Past /\ \A q \in Past : q = p
      BY <1>1, <2>1, PastFacts DEF LockHeld
    <2>3. \A q \in Past' : q = p
      BY <1>2, <2>2, PastFacts
    <2>4. CASE proc[p].at \notin HolderSteps
      <3>1. p \notin Holders /\ ~StopDecides
        BY <2>1, <2>2, <2>4, PastFacts DEF LockHeld
      <3>2. ~StopDecides' /\ stop'.at # "remove"
        BY <1>1, <3>1 DEF StopDecides
      <3>3. p \in Holders' => pidFile' = p
        BY <1>1, <1>2, <2>4, PastFacts DEF HolderSteps
      <3>4. \A q \in Holders' : q = p
        BY <2>3, PastFacts
      <3> QED
        BY <2>3, <3>2, <3>3, <3>4 DEF LockHeld
    <2>5. CASE proc[p].at \in HolderSteps
      <3>1. p \in Holders /\ pidFile = p
        BY <1>1, <2>1, <2>5, PastFacts DEF LockHeld
      <3>2. stop' = stop /\ (StopDecides' <=> StopDecides)
        BY <1>1 DEF StopDecides
      <3>3. CASE s \in HolderSteps /\ pidFile' = pidFile
        <4>1. p \in Holders'
          BY <1>1, <1>2, <3>3, PastFacts
        <4>2. \A q \in Holders' : q = p
          BY <2>3, PastFacts
        <4>3. StopDecides' => \A q \in Past' : q \in Holders' /\ q = stop'.pid
          BY <2>1, <2>2, <2>3, <3>2, <4>1 DEF LockHeld
        <4>4. ~(stop'.at = "remove" /\ stop'.by # "purge")
          BY <2>1, <2>2, <3>2 DEF LockHeld
        <4> QED
          BY <2>3, <3>1, <3>3, <4>2, <4>3, <4>4 DEF LockHeld
      <3>4. CASE s = "exit"
        <4>1. p \notin Past'
          BY <1>2, <3>4, PastFacts DEF PastSteps
        <4>2. Past' = {} /\ Holders' = {}
          BY <2>3, <4>1, PastFacts
        <4> QED
          BY <4>2 DEF LockHeld
      <3> QED
        BY <1>1, <2>5, <3>3, <3>4 DEF HolderSteps
    <2> QED
      BY <2>4, <2>5
  <1> QED
    BY <1>2, <1>3, <1>4 DEF LcInd

(* An agent that holds the lock signals t, or nobody, and goes on with     *)
(* lists of orphans.                                                       *)
LEMMA ReapStep ==
    ASSUME LcInd, NEW p \in Agents, NEW t, t = NoPid \/ Orphan(t),
           NEW base, SignalTo(proc, base, t), NEW r \in AgentRecs, proc' = [base EXCEPT ![p] = r],
           r.unit = proc[p].unit, r.got = proc[p].got, proc[p].at \in HolderSteps, r.at \in HolderSteps,
           \A x \in r.todo \cup {r.target} : x \in proc[p].todo \cup {proc[p].target} \/ x = NoPid \/ Orphan(x),
           UNCHANGED <<pidFile, service, configured, stop, upheavals, muddled>>
    PROVE  LcInd' /\ SignalsHitTheirTargets
  <1> USE DEF LcInd
  <1>1. /\ p \in Pids /\ proc[p].kind = "agent" /\ p \notin Claudes /\ p # t
        /\ r.kind = "agent" /\ r \in ProcRecs
    BY NoPidFacts DEF Agents, Claudes, Orphan, AgentRecs, ProcRecs
  <1>2. base \in [Pids -> ProcRecs]
    BY DEF SignalTo
  <1>3. /\ proc' \in [Pids -> ProcRecs] /\ proc'[p] = r
        /\ \A q \in Pids : q # p => proc'[q] = base[q]
    BY <1>1, <1>2
  <1>4. \A q \in Pids : /\ proc'[q].kind = proc[q].kind
                        /\ q \in Agents => proc'[q].unit = proc[q].unit
                        /\ q \in Claudes => proc'[q].parent = proc[q].parent
    BY <1>1, <1>3 DEF SignalTo, Agents, Claudes
  <1>5. Milder /\ Agents' = Agents
    BY <1>4, SameMilder
  <1>6. \A q \in Agents : q # p => /\ proc'[q].at = proc[q].at /\ proc'[q].todo = proc[q].todo
                                   /\ proc'[q].target = proc[q].target
    BY <1>3 DEF SignalTo, Agents
  <1>7. LcTypes'
    BY <1>3 DEF LcTypes
  <1>8. Parents' /\ OneMain'
    BY <1>5, MilderKeeps
  <1>9. \A q \in Agents' : \A x \in proc'[q].todo \cup {proc'[q].target} :
           x \in proc[q].todo \cup {proc[q].target} \/ x = NoPid \/ Orphan(x)
    BY <1>3, <1>5, <1>6
  <1>10. ReapList' /\ StopList'
    BY <1>5, <1>9, ListsKept
  <1>11. Lock'
    <2>1. /\ \A q \in Past' : q \in Past /\ (q \in Holders => q \in Holders')
          /\ \A q \in Holders' : q \in Holders
      BY <1>3, <1>5, <1>6, PastFacts
    <2>2. muddled \in BOOLEAN
      BY DEF LcTypes
    <2> QED
      BY <2>1, <2>2, LockKept DEF StopDecides
  <1>12. SignalsHitTheirTargets
    <2>1. OnlyGot(t)
      BY <1>1, <1>3 DEF OnlyGot, SignalTo
    <2> QED
      BY <2>1, HitsTarget, NoPidFacts
  <1> QED
    BY <1>7, <1>8, <1>10, <1>11, <1>12

LEMMA NobodySignalled == LcTypes => SignalTo(proc, proc, NoPid)
  BY DEF LcTypes, SignalTo

LEMMA LcReaping ==
    ASSUME LcInd, NEW p \in Pids, ReapOrphanedProcesses(p) \/ ReapSignals(p)
    PROVE  LcInd' /\ SignalsHitTheirTargets
  <1> USE DEF LcInd
  <1>1. /\ p \in Agents /\ proc[p].at \in {"list", "reap"} /\ proc[p].at \in HolderSteps
        /\ UNCHANGED <<pidFile, service, configured, stop, upheavals, muddled>>
    BY DEF ReapOrphanedProcesses, ReapSignals, ProcAt, HolderSteps
  <1>2. proc[p] \in AgentRecs /\ proc \in [Pids -> ProcRecs]
    BY <1>1, ProcKinds DEF LcTypes
  <1>3. SignalTo(proc, proc, NoPid)
    BY NobodySignalled
  <1>4. {"reap", "client"} \subseteq HolderSteps /\ HolderSteps \subseteq AgentSteps
    BY DEF HolderSteps, AgentSteps
  <1>5. CASE ReapOrphanedProcesses(p)
    <2> DEFINE r == [proc[p] EXCEPT !.at = "reap", !.todo = FindOrphanedClaudeProcesses]
    <2>1. FindOrphanedClaudeProcesses \subseteq Pids /\ \A x \in FindOrphanedClaudeProcesses : Orphan(x)
      BY DEF FindOrphanedClaudeProcesses, Orphan, Claudes
    <2>2. /\ r \in AgentRecs /\ r.unit = proc[p].unit /\ r.got = proc[p].got /\ r.at \in HolderSteps
          /\ r.todo = FindOrphanedClaudeProcesses /\ r.target = proc[p].target
      BY <1>2, <1>4, <2>1 DEF AgentRecs
    <2>3. proc' = [proc EXCEPT ![p] = r]
      BY <1>2, <1>5 DEF ReapOrphanedProcesses
    <2> HIDE DEF r
    <2> QED
      BY <1>1, <1>3, <2>1, <2>2, <2>3, ReapStep
  <1>6. ASSUME NEW t \in proc[p].todo, SignalNext(proc[p], t),
               proc' = [IF Alive(t) THEN Signalled(t, "term") ELSE proc EXCEPT ![p] = AfterSignal(proc[p], t)]
        PROVE  LcInd' /\ SignalsHitTheirTargets
    <2> DEFINE r == AfterSignal(proc[p], t)
               base == IF Alive(t) THEN Signalled(t, "term") ELSE proc
               u == IF Alive(t) THEN t ELSE NoPid
    <2>1. t \in Pids /\ (Alive(t) => Orphan(t))
      BY <1>1, <1>2 DEF ReapList, AgentRecs
    <2>2. /\ r \in AgentRecs /\ r.unit = proc[p].unit /\ r.got = proc[p].got /\ r.at = proc[p].at
          /\ r.todo \subseteq proc[p].todo /\ r.target \in {t, NoPid}
      BY <1>2, <2>1 DEF AfterSignal, AgentRecs
    <2>3. SignalTo(proc, base, u)
      <3>1. CASE Alive(t)
        BY <2>1, <3>1, SignalledValue
      <3>2. CASE ~Alive(t)
        BY <1>3, <3>2
      <3> QED
        BY <3>1, <3>2
    <2>4. u = NoPid \/ Orphan(u)
      BY <2>1
    <2>5. proc' = [base EXCEPT ![p] = r]
      BY <1>6
    <2>6. \A x \in r.todo \cup {r.target} : x \in proc[p].todo \cup {proc[p].target} \/ x = NoPid
      BY <2>2
    <2> HIDE DEF r, base, u
    <2> QED
      BY <1>1, <2>2, <2>3, <2>4, <2>5, <2>6, ReapStep
  <1>7. ASSUME proc' = [proc EXCEPT ![p].target = NoPid]
        PROVE  LcInd' /\ SignalsHitTheirTargets
    <2> DEFINE r == [proc[p] EXCEPT !.target = NoPid]
    <2>1. /\ r \in AgentRecs /\ r.unit = proc[p].unit /\ r.got = proc[p].got /\ r.at = proc[p].at
          /\ r.todo = proc[p].todo /\ r.target = NoPid
      BY <1>2 DEF AgentRecs
    <2>2. proc' = [proc EXCEPT ![p] = r]
      BY <1>2, <1>7
    <2> HIDE DEF r
    <2> QED
      BY <1>1, <1>3, <2>1, <2>2, ReapStep
  <1>8. ASSUME Alive(proc[p].target), proc' = [Signalled(proc[p].target, "kill") EXCEPT ![p].target = NoPid]
        PROVE  LcInd' /\ SignalsHitTheirTargets
    <2> DEFINE t == proc[p].target
               base == Signalled(t, "kill")
               r == [proc[p] EXCEPT !.target = NoPid]
    <2>1. t \in Pids /\ Orphan(t)
      BY <1>1, <1>8 DEF ReapList, Alive
    <2>2. SignalTo(proc, base, t)
      BY <1>8, <2>1, SignalledValue
    <2>3. t # p /\ base[p] = proc[p]
      BY <1>1, <2>1, <2>2 DEF Orphan, Agents, Claudes, SignalTo
    <2>4. base \in [Pids -> ProcRecs]
      BY <2>2 DEF SignalTo
    <2>5. proc' = [base EXCEPT ![p] = [base[p] EXCEPT !.target = NoPid]]
      BY <1>8
    <2>6. proc' = [base EXCEPT ![p] = r]
      BY <2>3, <2>5
    <2>7. /\ r \in AgentRecs /\ r.unit = proc[p].unit /\ r.got = proc[p].got /\ r.at = proc[p].at
          /\ r.todo = proc[p].todo /\ r.target = NoPid
      BY <1>2 DEF AgentRecs
    <2> HIDE DEF r, base, t
    <2> QED
      BY <1>1, <2>1, <2>2, <2>6, <2>7, ReapStep
  <1>9. ASSUME ProcGoto(p, "client")
        PROVE  LcInd' /\ SignalsHitTheirTargets
    <2> DEFINE r == [proc[p] EXCEPT !.at = "client"]
    <2>1. /\ r \in AgentRecs /\ r.unit = proc[p].unit /\ r.got = proc[p].got /\ r.at = "client"
          /\ r.todo = proc[p].todo /\ r.target = proc[p].target
      BY <1>2, <1>4 DEF AgentRecs
    <2>2. proc' = [proc EXCEPT ![p] = r]
      BY <1>2, <1>9 DEF ProcGoto
    <2> HIDE DEF r
    <2> QED
      BY <1>1, <1>3, <1>4, <2>1, <2>2, ReapStep
  <1> QED
    BY <1>5, <1>6, <1>7, <1>8, <1>9 DEF ReapSignals

(* Steps of a command that come to no decision about the pid file.         *)
LEMMA StopStep ==
    ASSUME LcInd, NEW t, Alive(t) => t \in Agents, SignalTo(proc, proc', t),
           stop' \in StopRecs, service' \in BOOLEAN, configured' \in BOOLEAN,
           Upheaval \/ UNCHANGED upheavals, UNCHANGED <<pidFile, muddled>>,
           \A x \in stop'.todo \cup {stop'.target} : x \in stop.todo \cup {stop.target} \/ x = NoPid \/ x \in Agents,
           StopDecides' => StopDecides /\ stop'.pid = stop.pid
                           /\ (stop'.at = "remove" /\ stop'.by # "purge" => stop.at = "remove" /\ stop.by # "purge")
    PROVE  LcInd' /\ SignalsHitTheirTargets
  <1>1. proc' \in [Pids -> ProcRecs] /\ Milder /\ Steady /\ OnlyGot(t)
    <2>1. Milder /\ Agents' = Agents
      BY SameMilder DEF SignalTo, Agents, Claudes, LcInd
    <2>2. Steady
      BY <2>1 DEF Steady, SignalTo, Agents
    <2> QED
      BY <2>1, <2>2 DEF OnlyGot, SignalTo
  <1>2. LcTypes'
    BY <1>1, UpheavalTypes DEF LcTypes, LcInd
  <1>3. LcInd'
    BY <1>1, <1>2, SteadyStep
  <1>4. SignalsHitTheirTargets
    BY <1>1, HitsTarget
  <1> QED
    BY <1>3, <1>4

LEMMA StopFacts ==
    ASSUME LcInd
    PROVE  /\ stop \in StopRecs /\ stop.at \in StopSteps /\ stop.pid \in Pids \cup {NoPid}
           /\ stop.by \in {"join", "install", "uninstall", "purge"}
           /\ stop.todo \subseteq Pids /\ stop.target \in Pids \cup {NoPid}
           /\ IdleStop \in StopRecs /\ IdleStop.at = "idle" /\ IdleStop.todo = {} /\ IdleStop.target = NoPid
           /\ \A s \in StopSteps : LET n == [stop EXCEPT !.at = s] IN
                 n \in StopRecs /\ n.at = s /\ n.todo = stop.todo /\ n.target = stop.target
                 /\ n.pid = stop.pid /\ n.by = stop.by
           /\ service \in BOOLEAN /\ configured \in BOOLEAN /\ muddled \in BOOLEAN
           /\ SignalTo(proc, proc, NoPid) /\ ~Alive(NoPid)
           /\ AfterService \in {"check", "finish"} /\ AfterService \in StopSteps
  <1>1. stop \in StopRecs
    BY DEF LcInd, LcTypes
  <1>2. SignalTo(proc, proc, NoPid) /\ ~Alive(NoPid)
    BY NobodySignalled, NoPidFacts DEF LcInd
  <1>3. AfterService \in {"check", "finish"} /\ AfterService \in StopSteps
    BY DEF AfterService, StopSteps
  <1>4. IdleStop \in StopRecs /\ IdleStop.at = "idle" /\ IdleStop.todo = {} /\ IdleStop.target = NoPid
    BY DEF IdleStop, StopRecs, StopSteps
  <1> QED
    BY <1>1, <1>2, <1>3, <1>4 DEF StopRecs, LcInd, LcTypes

LEMMA StopNames == /\ {"wait", "signal", "remove", "scan"} \subseteq StopSteps
                   /\ "signal all" \in StopSteps
  BY DEF StopSteps

LEMMA LcBegin ==
    ASSUME LcInd, NEW by \in {"join", "install", "uninstall", "purge"}, BeginCommand(by)
    PROVE  LcInd' /\ SignalsHitTheirTargets
  <1> DEFINE n == [IdleStop EXCEPT !.at = "service", !.by = by]
  <1>1. /\ stop' = n /\ UNCHANGED <<proc, pidFile, service, configured, muddled>> /\ Upheaval
    BY DEF BeginCommand
  <1>2. n \in StopRecs /\ n.at = "service" /\ n.todo = {} /\ n.target = NoPid
    BY DEF IdleStop, StopRecs, StopSteps
  <1> HIDE DEF n
  <1>3. SignalTo(proc, proc', NoPid) /\ ~Alive(NoPid)
    BY <1>1, StopFacts
  <1>4. ~StopDecides'
    BY <1>1, <1>2 DEF StopDecides
  <1>5. service' \in BOOLEAN /\ configured' \in BOOLEAN
    BY <1>1, StopFacts
  <1> QED
    BY <1>1, <1>2, <1>3, <1>4, <1>5, StopStep

(* Layer 1: the service. *)
LEMMA LcService ==
    ASSUME LcInd, StopServiceIfActive \/ ServiceStopped
    PROVE  LcInd' /\ SignalsHitTheirTargets
  <1>1. UNCHANGED <<pidFile, muddled, configured, upheavals>>
    BY DEF StopServiceIfActive, ServiceStopped, StopKeeps
  <1>2. configured' \in BOOLEAN
    BY <1>1, StopFacts
  <1>3. ASSUME NEW p \in Main, service' = FALSE, proc' = Signalled(p, "term"),
               stop' = [stop EXCEPT !.at = "wait", !.target = p]
        PROVE  LcInd' /\ SignalsHitTheirTargets
    <2>1. p \in Agents /\ p \in Pids /\ Alive(p)
      BY DEF Main, Agents, Alive
    <2>2. SignalTo(proc, proc', p)
      BY <1>3, <2>1, SignalledValue DEF LcInd
    <2>3. stop' \in StopRecs /\ stop'.at = "wait" /\ stop'.todo = stop.todo /\ stop'.target = p
      <3>1. stop \in StopRecs /\ "wait" \in StopSteps
        BY StopFacts, StopNames
      <3> QED
        BY <1>3, <2>1, <3>1 DEF StopRecs
    <2>4. ~StopDecides'
      BY <2>3 DEF StopDecides
    <2> QED
      BY <1>1, <1>2, <1>3, <2>1, <2>2, <2>3, <2>4, StopStep
  <1>4. ASSUME StopGoto(AfterService), service' = (service /\ stop.by \in {"join", "install"}), UNCHANGED proc
        PROVE  LcInd' /\ SignalsHitTheirTargets
    <2>1. SignalTo(proc, proc', NoPid) /\ ~Alive(NoPid)
      BY <1>4, StopFacts
    <2>2. stop' \in StopRecs /\ stop'.at = AfterService /\ stop'.todo = stop.todo /\ stop'.target = stop.target
      BY <1>4, StopFacts DEF StopGoto
    <2>3. ~StopDecides'
      BY <2>2, StopFacts DEF StopDecides
    <2>4. service' \in BOOLEAN
      BY <1>4
    <2> QED
      BY <1>1, <1>2, <2>1, <2>2, <2>3, <2>4, StopStep
  <1>5. ASSUME stop' = [stop EXCEPT !.at = AfterService, !.target = NoPid], UNCHANGED <<proc, service>>
        PROVE  LcInd' /\ SignalsHitTheirTargets
    <2>1. SignalTo(proc, proc', NoPid) /\ ~Alive(NoPid) /\ service' \in BOOLEAN
      BY <1>5, StopFacts
    <2>2. stop' \in StopRecs /\ stop'.at = AfterService /\ stop'.todo = stop.todo /\ stop'.target = NoPid
      BY <1>5, StopFacts DEF StopRecs
    <2>3. ~StopDecides'
      BY <2>2, StopFacts DEF StopDecides
    <2> QED
      BY <1>1, <1>2, <2>1, <2>2, <2>3, StopStep
  <1>6. ASSUME Alive(stop.target), proc' = Signalled(stop.target, "kill"), UNCHANGED <<stop, service>>
        PROVE  LcInd' /\ SignalsHitTheirTargets
    <2>1. stop.target \in Pids /\ stop.target \in Agents
      BY <1>6 DEF Alive, StopList, LcInd
    <2>2. SignalTo(proc, proc', stop.target)
      BY <1>6, <2>1, SignalledValue DEF LcInd
    <2>3. stop' \in StopRecs /\ service' \in BOOLEAN
      BY <1>6, StopFacts
    <2> QED
      BY <1>1, <1>2, <1>6, <2>1, <2>2, <2>3, StopStep DEF StopDecides
  <1>7. CASE StopServiceIfActive
    BY <1>3, <1>4, <1>7 DEF StopServiceIfActive
  <1>8. CASE ServiceStopped
    BY <1>5, <1>6, <1>8 DEF ServiceStopped
  <1> QED
    BY <1>7, <1>8

(* A signal of a command, to what it has listed. *)
LEMMA LcStopSignals ==
    ASSUME LcInd, StopSignals
    PROVE  LcInd' /\ SignalsHitTheirTargets
  <1>1. /\ UNCHANGED <<pidFile, service, muddled, configured, upheavals>>
        /\ stop.at \in {"signal", "signal all"}
    BY DEF StopSignals, StopKeeps
  <1>2. service' \in BOOLEAN /\ configured' \in BOOLEAN
    BY <1>1, StopFacts
  <1>3. ASSUME NEW t \in stop.todo, SignalNext(stop, t),
               proc' = IF Alive(t) THEN Signalled(t, "term") ELSE proc, stop' = AfterSignal(stop, t)
        PROVE  LcInd' /\ SignalsHitTheirTargets
    <2> DEFINE u == IF Alive(t) THEN t ELSE NoPid
    <2>1. t \in Pids /\ (Alive(t) => t \in Agents)
      BY StopFacts DEF StopList, LcInd
    <2>2. SignalTo(proc, proc', u) /\ (Alive(u) => u \in Agents)
      <3>1. CASE Alive(t)
        BY <1>3, <2>1, <3>1, SignalledValue DEF LcInd
      <3>2. CASE ~Alive(t)
        BY <1>3, <3>2, StopFacts
      <3> QED
        BY <3>1, <3>2
    <2>3. /\ stop' \in StopRecs /\ stop'.at = stop.at /\ stop'.pid = stop.pid
          /\ stop'.todo \subseteq stop.todo /\ stop'.target \in {t, NoPid}
      BY <1>3, <2>1, StopFacts DEF AfterSignal, StopRecs
    <2>4. \A x \in stop'.todo \cup {stop'.target} : x \in stop.todo \cup {stop.target} \/ x = NoPid
      BY <2>3
    <2> HIDE DEF u
    <2> QED
      BY <1>1, <1>2, <2>2, <2>3, <2>4, StopStep DEF StopDecides
  <1>4. ASSUME stop' = [stop EXCEPT !.target = NoPid], NEW t, SignalTo(proc, proc', t), Alive(t) => t \in Agents
        PROVE  LcInd' /\ SignalsHitTheirTargets
    <2>1. /\ stop' \in StopRecs /\ stop'.at = stop.at /\ stop'.pid = stop.pid
          /\ stop'.todo = stop.todo /\ stop'.target = NoPid
      BY <1>4, StopFacts DEF StopRecs
    <2> QED
      BY <1>1, <1>2, <1>4, <2>1, StopStep DEF StopDecides
  <1>5. ASSUME stop' = [stop EXCEPT !.target = NoPid], UNCHANGED proc
        PROVE  LcInd' /\ SignalsHitTheirTargets
    <2>1. SignalTo(proc, proc', NoPid) /\ ~Alive(NoPid)
      BY <1>5, StopFacts
    <2> QED
      BY <1>4, <1>5, <2>1
  <1>6. ASSUME stop' = [stop EXCEPT !.target = NoPid], Alive(stop.target), proc' = Signalled(stop.target, "kill")
        PROVE  LcInd' /\ SignalsHitTheirTargets
    <2>1. stop.target \in Pids /\ stop.target \in Agents
      BY <1>6 DEF Alive, StopList, LcInd
    <2>2. SignalTo(proc, proc', stop.target)
      BY <1>6, <2>1, SignalledValue DEF LcInd
    <2> QED
      BY <1>4, <1>6, <2>1, <2>2
  <1>7. ASSUME StopGoto(IF stop.at = "signal" THEN "recheck" ELSE "finish"), UNCHANGED proc
        PROVE  LcInd' /\ SignalsHitTheirTargets
    <2> DEFINE s == IF stop.at = "signal" THEN "recheck" ELSE "finish"
    <2>1. s \in StopSteps /\ (s = "recheck" => stop.at = "signal") /\ s \in {"recheck", "finish"}
      BY DEF StopSteps
    <2>2. stop' = [stop EXCEPT !.at = s]
      BY <1>7 DEF StopGoto
    <2> HIDE DEF s
    <2>3. /\ stop' \in StopRecs /\ stop'.at = s /\ stop'.pid = stop.pid
          /\ stop'.todo = stop.todo /\ stop'.target = stop.target
      BY <2>1, <2>2, StopFacts
    <2>4. SignalTo(proc, proc', NoPid) /\ ~Alive(NoPid)
      BY <1>7, StopFacts
    <2> QED
      BY <1>1, <1>2, <2>1, <2>3, <2>4, StopStep DEF StopDecides
  <1> QED
    BY <1>3, <1>5, <1>6, <1>7 DEF StopSignals

(* Steps of a command that only look, or write the file.                   *)
LEMMA DecisionStep ==
    ASSUME LcInd, UNCHANGED proc, LcTypes', Lock',
           \A x \in stop'.todo \cup {stop'.target} : x \in stop.todo \cup {stop.target} \/ x = NoPid \/ x \in Agents
    PROVE  LcInd' /\ SignalsHitTheirTargets
  <1> USE DEF LcInd
  <1>1. Milder /\ Steady /\ OnlyGot(NoPid) /\ Agents' = Agents
    BY SameProcs
  <1>2. Parents' /\ OneMain'
    BY <1>1, MilderKeeps
  <1>3. \A p \in Agents' : \A t \in proc'[p].todo \cup {proc'[p].target} : t \in proc[p].todo \cup {proc[p].target}
    BY <1>1 DEF Steady
  <1>4. ReapList' /\ StopList'
    BY <1>1, <1>3, ListsKept
  <1>5. SignalsHitTheirTargets
    BY <1>1, HitsTarget, NoPidFacts
  <1> QED
    BY <1>2, <1>4, <1>5

LEMMA SameAgents == UNCHANGED proc => Past' = Past /\ Holders' = Holders /\ Agents' = Agents
  BY DEF Past, Holders, Agents

(* Layer 2.  A command that finds a live id in the file, and nobody on the *)
(* way to the lock, knows the holder; if the id is dead there is none.     *)
LEMMA LcStopChecks ==
    ASSUME LcInd, StopChecks
    PROVE  LcInd' /\ SignalsHitTheirTargets
  <1> DEFINE s == IF CheckPIDFile THEN "find" ELSE IF pidFile \in Pids THEN "remove" ELSE "scan"
             d == IF pidFile \in Pids THEN pidFile ELSE NoPid
  <1>1. /\ stop' = [stop EXCEPT !.at = s, !.pid = d] /\ muddled' = (muddled \/ Deciding(NoPid))
        /\ UNCHANGED <<proc, pidFile, service, configured, upheavals>>
    BY DEF StopChecks, StopKeeps
  <1>2. s \in StopSteps /\ d \in Pids \cup {NoPid} /\ (CheckPIDFile => s = "find" /\ d = pidFile)
        /\ (~CheckPIDFile => s # "find") /\ s \in {"find", "remove", "scan"}
    BY DEF StopSteps, CheckPIDFile
  <1> HIDE DEF s, d
  <1>3. /\ stop' \in StopRecs /\ stop'.at = s /\ stop'.pid = d
        /\ stop'.todo = stop.todo /\ stop'.target = stop.target
    BY <1>1, <1>2, StopFacts DEF StopRecs
  <1>4. LcTypes'
    BY <1>1, <1>3, StopFacts DEF LcTypes, LcInd
  <1>5. Lock'
    <2> SUFFICES ASSUME ~muddled' PROVE LockHeld'
      BY DEF Lock
    <2>1. LockHeld /\ ~Deciding(NoPid)
      BY <1>1, StopFacts DEF Lock, LcInd
    <2>2. \A q \in Past : q \in Holders /\ pidFile = q /\ q \in Pids /\ Alive(q)
      <3> SUFFICES ASSUME NEW q \in Past PROVE q \in Holders /\ pidFile = q /\ q \in Pids /\ Alive(q)
        OBVIOUS
      <3>1. q \in Agents /\ q \in Pids /\ Alive(q) /\ proc[q].at \in PastSteps /\ q # NoPid
        BY PastFacts, NoPidFacts DEF Agents, Alive
      <3>2. q \in Holders
        BY <2>1, <3>1, PastFacts DEF Deciding, PastSteps, HolderSteps
      <3> QED
        BY <2>1, <3>1, <3>2 DEF LockHeld
    <2>3. Past' = Past /\ Holders' = Holders
      BY <1>1, SameAgents
    <2>4. ~CheckPIDFile => Past = {}
      BY <2>2 DEF CheckPIDFile
    <2>5. CheckPIDFile => \A q \in Past : q = d
      BY <1>2, <2>2
    <2>6. \A q \in Past : q = d
      BY <2>4, <2>5
    <2>7. s = "remove" => Past = {}
      BY <1>2, <2>4
    <2> QED
      BY <1>1, <1>3, <2>1, <2>2, <2>3, <2>6, <2>7 DEF LockHeld
  <1> QED
    BY <1>1, <1>3, <1>4, <1>5, DecisionStep

LEMMA LcDeciding ==
    ASSUME LcInd, VerifyAgent \/ Recheck \/ StopScans
    PROVE  LcInd' /\ SignalsHitTheirTargets
  <1>1. UNCHANGED <<proc, pidFile, service, muddled, configured, upheavals>>
    BY DEF VerifyAgent, Recheck, StopScans, StopKeeps
  <1>2. Past' = Past /\ Holders' = Holders
    BY <1>1, SameAgents
  <1>3. Past \subseteq Agents /\ Holders \subseteq Agents
    BY DEF Past, Holders
  <1>4. CASE VerifyAgent
    <2>1. StopDecides /\ stop.at = "find"
      BY <1>4 DEF VerifyAgent, StopDecides
    <2>2. /\ stop' \in StopRecs /\ stop'.pid = stop.pid /\ stop'.by = stop.by /\ stop'.target = stop.target
          /\ \/ stop'.at = "signal" /\ stop'.todo = {stop.pid} /\ stop.pid \in Agents
             \/ stop'.at = "remove" /\ stop'.todo = stop.todo /\ stop.pid \notin FindAgentProcesses
      <3>1. CASE stop.pid \in FindAgentProcesses /\ stop' = [stop EXCEPT !.at = "signal", !.todo = {stop.pid}]
        <4>1. stop.pid \in Agents /\ stop.pid \in Pids
          BY <3>1 DEF FindAgentProcesses, Agents
        <4>2. stop \in StopRecs /\ "signal" \in StopSteps
          BY StopFacts, StopNames
        <4> QED
          BY <3>1, <4>1, <4>2 DEF StopRecs
      <3>2. CASE stop.pid \notin FindAgentProcesses /\ StopGoto("remove")
        <4>1. stop \in StopRecs /\ "remove" \in StopSteps
          BY StopFacts, StopNames
        <4> QED
          BY <3>2, <4>1 DEF StopRecs, StopGoto
      <3> QED
        BY <1>4, <3>1, <3>2 DEF VerifyAgent
    <2>3. LcTypes'
      BY <1>1, <2>2, StopFacts DEF LcTypes, LcInd
    <2>4. Lock'
      <3> SUFFICES ASSUME ~muddled' PROVE LockHeld'
        BY DEF Lock
      <3>1. LockHeld
        BY <1>1 DEF Lock, LcInd
      <3>2. \A q \in Past : q \in Holders /\ q = stop.pid
        BY <2>1, <3>1 DEF LockHeld
      <3>3. stop'.at = "remove" /\ stop'.by # "purge" => Past = {}
        BY <1>3, <2>2, <3>2 DEF FindAgentProcesses
      <3> QED
        BY <1>1, <1>2, <2>2, <3>1, <3>2, <3>3 DEF LockHeld
    <2> QED
      BY <1>1, <2>2, <2>3, <2>4, DecisionStep
  <1>5. CASE Recheck
    <2> DEFINE s == IF CheckPIDFile THEN "scan" ELSE "remove"
    <2>1. s \in StopSteps /\ s \in {"scan", "remove"} /\ (s = "remove" => ~CheckPIDFile)
      BY DEF StopSteps
    <2>2. StopDecides /\ stop' = [stop EXCEPT !.at = s]
      BY <1>5 DEF Recheck, StopDecides, StopGoto
    <2> HIDE DEF s
    <2>3. /\ stop' \in StopRecs /\ stop'.pid = stop.pid /\ stop'.at = s
          /\ stop'.target = stop.target /\ stop'.todo = stop.todo
      BY <2>1, <2>2, StopFacts
    <2>4. LcTypes'
      BY <1>1, <2>3, StopFacts DEF LcTypes, LcInd
    <2>5. Lock'
      <3> SUFFICES ASSUME ~muddled' PROVE LockHeld'
        BY DEF Lock
      <3>1. LockHeld
        BY <1>1 DEF Lock, LcInd
      <3>2. \A q \in Past : q \in Holders /\ q = stop.pid /\ pidFile = q
        BY <2>2, <3>1 DEF LockHeld
      <3>3. \A q \in Past : CheckPIDFile
        BY <1>3, <3>2 DEF CheckPIDFile, Alive, Agents
      <3>4. s = "remove" => Past = {}
        BY <2>1, <3>3
      <3> QED
        BY <1>1, <1>2, <2>3, <3>1, <3>2, <3>4 DEF LockHeld
    <2> QED
      BY <1>1, <2>3, <2>4, <2>5, DecisionStep
  <1>6. CASE StopScans
    <2>1. FindAgentProcesses \subseteq Agents /\ Agents \subseteq Pids
      BY DEF FindAgentProcesses, Agents
    <2> DEFINE all == "signal all"
    <2>2. stop' = [stop EXCEPT !.at = all, !.todo = FindAgentProcesses]
      BY <1>6 DEF StopScans
    <2>3. stop \in StopRecs /\ all \in StopSteps /\ all \notin {"find", "signal", "recheck", "remove"}
      BY StopFacts, StopNames
    <2> HIDE DEF all
    <2>4. /\ stop' \in StopRecs /\ stop'.at = all /\ stop'.todo = FindAgentProcesses
          /\ stop'.target = stop.target
      BY <2>1, <2>2, <2>3 DEF StopRecs
    <2>5. LcTypes'
      BY <1>1, <2>4 DEF LcTypes, LcInd
    <2>6. Lock'
      BY <1>1, <1>2, <2>3, <2>4 DEF Lock, LockHeld, StopDecides, LcInd
    <2> QED
      BY <1>1, <2>1, <2>4, <2>5, <2>6, DecisionStep
  <1> QED
    BY <1>4, <1>5, <1>6

(* The file is removed when there is no agent it could name, or the moment *)
(* was wrong.                                                              *)
LEMMA LcRemoving ==
    ASSUME LcInd, StopRemoves \/ JoinEnds \/ InstallEnds \/ UninstallEnds \/ PurgeEnds
    PROVE  LcInd' /\ SignalsHitTheirTargets
  <1>1. Past \subseteq Agents /\ Holders \subseteq Agents /\ Holders \subseteq Past
    BY DEF Past, Holders
  <1>2. CASE StopRemoves
    <2>1. /\ stop.at = "remove" /\ StopDecides /\ pidFile' = NoPid /\ stop' = [stop EXCEPT !.at = "scan"]
          /\ muddled' = (muddled \/ (stop.by = "purge" /\ stop.pid \in Agents))
          /\ UNCHANGED <<proc, service, configured, upheavals>>
      BY <1>2 DEF StopRemoves, StopKeeps, RemovePIDFile, StopGoto, StopDecides
    <2>2. "scan" \in StopSteps
      BY DEF StopSteps
    <2>3. stop' \in StopRecs /\ stop'.at = "scan" /\ stop'.todo = stop.todo /\ stop'.target = stop.target
      BY <2>1, <2>2, StopFacts
    <2>4. LcTypes'
      BY <2>1, <2>3, StopFacts DEF LcTypes, LcInd
    <2>5. Lock'
      <3> SUFFICES ASSUME ~muddled' PROVE LockHeld'
        BY DEF Lock
      <3>1. LockHeld /\ ~(stop.by = "purge" /\ stop.pid \in Agents)
        BY <2>1, StopFacts DEF Lock, LcInd
      <3>2. Past = {}
        BY <1>1, <2>1, <3>1 DEF LockHeld
      <3>3. Past' = {} /\ Holders' = {}
        BY <1>1, <2>1, <3>2, SameAgents
      <3> QED
        BY <3>3 DEF LockHeld
    <2> QED
      BY <2>1, <2>3, <2>4, <2>5, DecisionStep
  <1>3. CASE PurgeEnds
    <2>1. /\ stop' = IdleStop /\ configured' = FALSE /\ pidFile' = NoPid
          /\ muddled' = (muddled \/ pidFile \in Agents)
          /\ UNCHANGED <<proc, service, upheavals>>
      BY <1>3 DEF PurgeEnds, EndsBy, RemovePIDFile
    <2>2. LcTypes'
      BY <2>1, StopFacts DEF LcTypes, LcInd
    <2>3. ~StopDecides' /\ stop'.at # "remove"
      BY <2>1, StopFacts DEF StopDecides
    <2>4. Lock'
      <3> SUFFICES ASSUME ~muddled' PROVE LockHeld'
        BY DEF Lock
      <3>1. LockHeld /\ pidFile \notin Agents
        BY <2>1, StopFacts DEF Lock, LcInd
      <3>2. Holders = {}
        BY <1>1, <3>1 DEF LockHeld
      <3>3. Past' = Past /\ Holders' = {}
        BY <2>1, <3>2, SameAgents
      <3> QED
        BY <2>3, <3>1, <3>3 DEF LockHeld
    <2> QED
      BY <2>1, <2>2, <2>4, DecisionStep, StopFacts
  <1>4. CASE JoinEnds \/ InstallEnds \/ UninstallEnds
    <2>1. /\ stop' = IdleStop /\ UNCHANGED <<proc, pidFile, upheavals, muddled>>
          /\ configured' \in {configured, TRUE} /\ service' \in {service, TRUE}
      BY <1>4 DEF JoinEnds, InstallEnds, UninstallEnds, EndsBy
    <2>2. LcTypes'
      BY <2>1, StopFacts DEF LcTypes, LcInd
    <2>3. ~StopDecides' /\ stop'.at # "remove"
      BY <2>1, StopFacts DEF StopDecides
    <2>4. Past' = Past /\ Holders' = Holders
      BY <2>1, SameAgents
    <2>5. Lock'
      BY <2>1, <2>3, <2>4 DEF Lock, LockHeld, LcInd
    <2> QED
      BY <2>1, <2>2, <2>5, DecisionStep, StopFacts
  <1> QED
    BY <1>2, <1>3, <1>4

(* Before the first process: a pid file may be left of an earlier crash.   *)
LEMMA LcInit == AgentLifecycleInit => LcInd
  <1> SUFFICES ASSUME AgentLifecycleInit PROVE LcInd
    OBVIOUS
  <1>1. proc = [p \in Pids |-> NoProc] /\ NoProc \in ProcRecs /\ NoProc.kind = "none"
    BY DEF AgentLifecycleInit, NoProc, ProcRecs
  <1>2. IdleStop \in StopRecs /\ IdleStop.todo = {} /\ IdleStop.target = NoPid /\ IdleStop.at = "idle"
    BY DEF IdleStop, StopRecs, StopSteps
  <1>3. LcTypes
    <2>1. proc \in [Pids -> ProcRecs]
      BY <1>1
    <2>2. upheavals \in 0 .. MaxUpheavals
      BY LifecycleAssumption DEF AgentLifecycleInit
    <2> QED
      BY <1>2, <2>1, <2>2 DEF AgentLifecycleInit, LcTypes
  <1>4. Agents = {} /\ Claudes = {}
    BY <1>1 DEF Agents, Claudes
  <1>5. Past = {} /\ Holders = {} /\ Main = {}
    BY <1>4 DEF Past, Holders, Main
  <1>6. StopList
    BY <1>2, NoPidFacts DEF StopList, AgentLifecycleInit
  <1>7. ~StopDecides /\ stop.at # "remove"
    BY <1>2 DEF StopDecides, AgentLifecycleInit
  <1> QED
    BY <1>3, <1>4, <1>5, <1>6, <1>7 DEF LcInd, Parents, OneMain, ReapList, Lock, LockHeld

LEMMA LcNext == LcInd /\ [AgentLifecycleNext]_procVars => LcInd' /\ [SignalsHitTheirTargets]_procVars
  <1> SUFFICES ASSUME LcInd, [AgentLifecycleNext]_procVars
               PROVE  LcInd' /\ [SignalsHitTheirTargets]_procVars
    OBVIOUS
  <1>1. CASE UNCHANGED procVars
    <2>1. UNCHANGED <<proc, pidFile, service, configured, stop, upheavals, muddled>>
      BY <1>1 DEF procVars
    <2>2. LcTypes'
      BY <2>1 DEF LcInd, LcTypes
    <2>3. Lock'
      BY <2>1, SameAgents DEF LcInd, Lock, LockHeld, StopDecides
    <2> QED
      BY <1>1, <2>1, <2>2, <2>3, DecisionStep
  <1>2. CASE AgentLifecycleNext
    <2>1. ASSUME NEW p \in Pids, \/ RunAgent(p) \/ ServiceStarts(p) \/ OtherStarts(p)
                                 \/ \E c \in Pids : SessionStarts(p, c)
          PROVE  LcInd' /\ SignalsHitTheirTargets
      BY <2>1, LcStarting
    <2>2. ASSUME NEW p \in Pids, Crash(p) \/ Dies(p) \/ Exit(p)
          PROVE  LcInd' /\ SignalsHitTheirTargets
      BY <2>2, LcEnding
    <2>3. ASSUME NEW p \in Pids, ClientFails(p) \/ RunSteps(p)
          PROVE  LcInd' /\ SignalsHitTheirTargets
      BY <2>3, LcCheck, LcRunning, LcReaping, LcEnding DEF RunSteps
    <2>4. ASSUME CommandSteps PROVE LcInd' /\ SignalsHitTheirTargets
      BY <2>4, LcService, LcStopSignals, LcStopChecks, LcDeciding, LcRemoving DEF CommandSteps
    <2>5. LcInd' /\ SignalsHitTheirTargets
      BY <1>2, <2>1, <2>2, <2>3, <2>4, LcBegin DEF AgentLifecycleNext
    <2> QED
      BY <2>5
  <1> QED
    BY <1>1, <1>2

LEMMA AtMostOne ==
    ASSUME NEW S, \A p \in S : \A q \in S : p = q
    PROVE  Cardinality(S) <= 1
  <1>1. CASE S = {}
    BY <1>1, FS_EmptySet
  <1>2. CASE S # {}
    <2>1. PICK p \in S : S = {p}
      BY <1>2
    <2>2. Cardinality({p}) = 1
      BY FS_Singleton
    <2> QED
      BY <2>1, <2>2
  <1> QED
    BY <1>1, <1>2

LEMMA LcStrong == LcInd => AgentLifecycleTypeOK /\ OneAgent
  <1> SUFFICES ASSUME LcInd PROVE AgentLifecycleTypeOK /\ OneAgent
    OBVIOUS
  <1> USE DEF LcInd
  <1>1. \A p \in Agents : proc[p].at \in AgentSteps /\ proc[p].todo \subseteq Pids /\ proc[p].target \in Pids \cup {NoPid}
    BY ProcKinds DEF AgentRecs, Agents
  <1>2. \A p \in Pids : Alive(p) => proc[p].got \in Signals
    BY ProcKinds
  <1>3. Cardinality(Main) <= 1
    BY AtMostOne DEF OneMain
  <1>4. ~muddled => \A p \in Holders : \A q \in Holders : p = q
    BY DEF Lock, LockHeld
  <1>5. OneAgent
    BY <1>4, AtMostOne DEF OneAgent
  <1>6. AgentLifecycleTypeOK
    BY <1>1, <1>2, <1>3, StopFacts DEF AgentLifecycleTypeOK, LcTypes, Parents, AgentSteps, Signals, StopSteps
  <1> QED
    BY <1>5, <1>6

(* One agent at most manages a machine, as long as nobody looks at the pid *)
(* file while another one is about to change it, and signals hit agents    *)
(* and orphaned claude processes only: for any number of processes, over   *)
(* crashes, restarts, stale pid files, reused ids and commands             *)
(* (CheckPIDFile, StopExisting, ReapOrphanedProcesses).                    *)
THEOREM LifecycleIsSound == LifecycleSpec => LifecycleSafe
  BY LcInit, LcNext, LcStrong, PTL DEF LifecycleSpec, LifecycleSafe

=============================================================================
