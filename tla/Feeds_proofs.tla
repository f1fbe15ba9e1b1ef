--------------------------- MODULE Feeds_proofs -----------------------------
(***************************************************************************)
(* Proofs about what travels between the server, its agents, its bridge    *)
(* and its browsers: directory listings, Telegram commands, the feed of    *)
(* events, log records, the connectors that the bridge runs, and the       *)
(* content of sessions.  Each part states the specification of its         *)
(* component alone, with any number of requests, connections, messages and *)
(* viewers, its inductive invariant, one lemma per action, and the         *)
(* theorem.                                                                *)
(***************************************************************************)
EXTENDS Browsing, TelegramCommands, EventsFeed, Logging, Connectors, SessionContent, FiniteSetTheorems, SequenceTheorems, TLAPS

(* Browsing.                                                               *)

BrowsingSpec == BrowsingInit /\ [][BrowsingNext]_browseVars

ReqSteps  == {[at |-> "none"], [at |-> "ended"]} \cup [at : {"send", "wait"}, g : Streams]
LoopSteps == {LoopOff, LoopIdle} \cup [at : {"deliver"}, r : BrowseReqs]

(* The agent's sender works for a connection that exists. *)
BwTypes ==
    /\ bwReq \in [BrowseReqs -> ReqSteps] /\ bwPending \subseteq BrowseReqs /\ bwChan \subseteq BrowseReqs
    /\ bwLoop \in [Streams -> LoopSteps] /\ bwCmd \in [Streams -> SUBSET BrowseReqs]
    /\ bwWire \in [Streams -> Seq(Events)]
    /\ agAt \in {"off", "up", "closing", "draining", "crashed"} /\ agGen \in 0 .. MaxStreams
    /\ agSender \in BOOLEAN /\ agQueue \in Seq(Events) /\ Len(agQueue) <= SendCap
    /\ agHealth \in {"gone", "wait", "emit"} /\ agLists \subseteq BrowseReqs \X Streams
    /\ agSender \/ agAt = "up" => agGen \in Streams

(* An answer that was taken out of the table for a request is on its way   *)
(* to a request that was made, and that is in the table no more.           *)
Answers(g, r) == bwLoop[g].at = "deliver" /\ bwLoop[g].r = r
TakenOut == \A r \in BrowseReqs :
               r \in bwChan \/ (\E g \in Streams : Answers(g, r)) => bwReq[r].at # "none" /\ r \notin bwPending

BwInd == BwTypes /\ NoOrphanEntry /\ TakenOut

LEMMA BwFacts ==
    /\ SendCap \in Nat /\ MaxStreams \in Nat /\ Streams \subseteq 0 .. MaxStreams
    /\ LoopOff \in LoopSteps /\ LoopIdle \in LoopSteps /\ LoopOff.at = "off" /\ LoopIdle.at = "recv"
    /\ [at |-> "none"] \in ReqSteps /\ [at |-> "ended"] \in ReqSteps
    /\ Report \in Events /\ Report.is = "health"
    /\ \A r \in BrowseReqs : Listing(r) \in Events /\ Listing(r).r = r
    /\ <<>> \in Seq(Events) /\ Len(<<>>) = 0
  <1>1. SendCap \in Nat /\ MaxStreams \in Nat /\ Streams \subseteq 0 .. MaxStreams
    BY BrowsingAssumption DEF Streams
  <1>2. /\ LoopOff \in LoopSteps /\ LoopIdle \in LoopSteps /\ LoopOff.at = "off" /\ LoopIdle.at = "recv"
        /\ [at |-> "none"] \in ReqSteps /\ [at |-> "ended"] \in ReqSteps
    BY DEF LoopOff, LoopIdle, LoopSteps, ReqSteps
  <1>3. Report \in Events /\ Report.is = "health" /\ \A r \in BrowseReqs : Listing(r) \in Events /\ Listing(r).r = r
    BY DEF Report, Events, Listing
  <1>4. <<>> \in Seq(Events) /\ Len(<<>>) = 0
    BY EmptySeq
  <1> QED
    BY <1>1, <1>2, <1>3, <1>4

LEMMA ReqValue == ASSUME BwTypes, NEW r \in BrowseReqs, bwReq[r].at \in {"send", "wait"}
                  PROVE  bwReq[r] \in [at : {"send", "wait"}, g : Streams] /\ bwReq[r].g \in Streams
  <1>1. bwReq[r] \in ReqSteps
    BY DEF BwTypes
  <1>2. CASE bwReq[r] \in {[at |-> "none"], [at |-> "ended"]}
    BY <1>2
  <1>3. CASE bwReq[r] \in [at : {"send", "wait"}, g : Streams]
    BY <1>3
  <1> QED
    BY <1>1, <1>2, <1>3 DEF ReqSteps

LEMMA LoopValue == ASSUME BwTypes, NEW g \in Streams, bwLoop[g].at = "deliver" PROVE bwLoop[g].r \in BrowseReqs
  <1>1. bwLoop[g] \in LoopSteps
    BY DEF BwTypes
  <1>2. CASE bwLoop[g] \in {LoopOff, LoopIdle}
    BY <1>2, BwFacts
  <1>3. CASE bwLoop[g] \in [at : {"deliver"}, r : BrowseReqs]
    BY <1>3
  <1> QED
    BY <1>1, <1>2, <1>3 DEF LoopSteps

LEMMA BwIndInit == BrowsingInit => BwInd
  <1> SUFFICES ASSUME BrowsingInit PROVE BwInd
    OBVIOUS
  <1>1. BwTypes
    <2>1. 0 \in 0 .. MaxStreams /\ Len(<<>>) <= SendCap
      BY BwFacts
    <2>2. bwReq \in [BrowseReqs -> ReqSteps] /\ bwLoop \in [Streams -> LoopSteps]
      BY BwFacts DEF BrowsingInit
    <2>3. bwCmd \in [Streams -> SUBSET BrowseReqs] /\ bwWire \in [Streams -> Seq(Events)] /\ agQueue \in Seq(Events)
      BY BwFacts DEF BrowsingInit
    <2> QED
      BY <2>1, <2>2, <2>3 DEF BrowsingInit, BwTypes
  <1>2. NoOrphanEntry /\ TakenOut
    BY BwFacts DEF BrowsingInit, NoOrphanEntry, TakenOut, Answers
  <1> QED
    BY <1>1, <1>2 DEF BwInd

-----------------------------------------------------------------------------
(* The server. *)

(* A request moves on.                                                     *)
LEMMA ReqMoves ==
    ASSUME BwTypes, NEW r \in BrowseReqs, NEW to \in ReqSteps, ReqTo(r, to)
    PROVE  /\ bwReq' \in [BrowseReqs -> ReqSteps] /\ bwReq'[r] = to
           /\ \A q \in BrowseReqs : q # r => bwReq'[q] = bwReq[q]
  BY DEF BwTypes, ReqTo

LEMMA BrowseKeeps ==
    ASSUME BwInd, NEW r \in BrowseReqs, BrowseDirectory(r) \/ SendListCommand(r) \/ Answered(r) \/ GivesUp(r)
    PROVE  BwInd'
  <1> USE DEF BwInd
  <1>0. UNCHANGED <<bwLoop, bwWire, bwBroken>> /\ UNCHANGED agentVars
    BY DEF BrowseDirectory, SendListCommand, Answered, GivesUp
  <1>1. ASSUME NEW to \in ReqSteps, ReqTo(r, to), to.at # "none", bwCmd' \in [Streams -> SUBSET BrowseReqs],
               bwPending' \subseteq bwPending \cup {r}, bwChan' \subseteq bwChan,
               r \in bwPending' => to.at \in {"send", "wait"} /\ r \notin bwChan /\ \A g \in Streams : ~Answers(g, r)
        PROVE  BwInd'
    <2>1. /\ bwReq' \in [BrowseReqs -> ReqSteps] /\ bwReq'[r] = to
          /\ \A q \in BrowseReqs : q # r => bwReq'[q] = bwReq[q]
      BY <1>1, ReqMoves
    <2>2. BwTypes'
      BY <1>0, <1>1, <2>1 DEF BwTypes, agentVars
    <2>3. NoOrphanEntry'
      BY <1>1, <2>1, <2>2 DEF NoOrphanEntry, BwTypes
    <2>4. \A g \in Streams, q \in BrowseReqs : Answers(g, q)' <=> Answers(g, q)
      BY <1>0 DEF Answers
    <2>5. TakenOut'
      BY <1>1, <2>1, <2>4 DEF TakenOut
    <2> QED
      BY <2>2, <2>3, <2>5
  <1>2. CASE BrowseDirectory(r)
    <2>1. PICK g \in Streams : ReqTo(r, [at |-> "send", g |-> g])
      BY <1>2 DEF BrowseDirectory
    <2> DEFINE to == [at |-> "send", g |-> g]
    <2>2. to \in ReqSteps /\ to.at = "send"
      BY DEF ReqSteps
    <2>3. bwReq[r].at = "none" /\ bwPending' = bwPending \cup {r} /\ UNCHANGED <<bwChan, bwCmd>>
      BY <1>2 DEF BrowseDirectory, RegisterRequest
    <2>4. r \notin bwChan /\ \A h \in Streams : ~Answers(h, r)
      BY <2>3 DEF TakenOut
    <2>5. bwCmd' \in [Streams -> SUBSET BrowseReqs]
      BY <2>3 DEF BwTypes
    <2>6. ReqTo(r, to)
      BY <2>1
    <2> HIDE DEF to
    <2> QED
      BY <1>1, <2>2, <2>3, <2>4, <2>5, <2>6
  <1>3. CASE SendListCommand(r)
    <2>1. bwReq[r].at = "send" /\ bwChan' = bwChan
      BY <1>3 DEF SendListCommand
    <2>2. bwReq[r] \in [at : {"send", "wait"}, g : Streams] /\ bwReq[r].g \in Streams
      BY <2>1, ReqValue
    <2>3. CASE bwPending' = bwPending \ {r} /\ ReqTo(r, [at |-> "ended"]) /\ bwCmd' = bwCmd
      <3>1. bwCmd' \in [Streams -> SUBSET BrowseReqs]
        BY <2>3 DEF BwTypes
      <3> QED
        BY <1>1, <2>1, <2>3, <3>1, BwFacts
    <2>4. CASE /\ bwCmd' = [bwCmd EXCEPT ![bwReq[r].g] = @ \cup {r}]
               /\ ReqTo(r, [bwReq[r] EXCEPT !.at = "wait"]) /\ bwPending' = bwPending
      <3> DEFINE to == [bwReq[r] EXCEPT !.at = "wait"]
      <3>1. to \in [at : {"send", "wait"}, g : Streams] /\ to.at = "wait"
        BY <2>2
      <3>2. ReqTo(r, to) /\ bwPending' = bwPending
        BY <2>4
      <3> HIDE DEF to
      <3>3. to \in ReqSteps
        BY <3>1 DEF ReqSteps
      <3>4. bwCmd' \in [Streams -> SUBSET BrowseReqs]
        BY <2>2, <2>4 DEF BwTypes
      <3>5. r \in bwPending => r \notin bwChan /\ \A g \in Streams : ~Answers(g, r)
        BY DEF TakenOut
      <3> QED
        BY <1>1, <2>1, <3>1, <3>2, <3>3, <3>4, <3>5
    <2> QED
      BY <1>3, <2>3, <2>4 DEF SendListCommand, Cancel, ReqEnds
  <1>4. CASE Answered(r)
    <2>1. r \in bwChan /\ bwChan' = bwChan \ {r} /\ ReqTo(r, [at |-> "ended"]) /\ UNCHANGED <<bwPending, bwCmd>>
      BY <1>4 DEF Answered, ReqEnds
    <2>2. r \notin bwPending
      BY <2>1 DEF TakenOut
    <2>3. bwCmd' \in [Streams -> SUBSET BrowseReqs]
      BY <2>1 DEF BwTypes
    <2> QED
      BY <1>1, <2>1, <2>2, <2>3, BwFacts
  <1>5. CASE GivesUp(r)
    <2>1. bwPending' = bwPending \ {r} /\ ReqTo(r, [at |-> "ended"]) /\ UNCHANGED <<bwChan, bwCmd>>
      BY <1>5 DEF GivesUp, Cancel, ReqEnds
    <2>2. bwCmd' \in [Streams -> SUBSET BrowseReqs]
      BY <2>1 DEF BwTypes
    <2> QED
      BY <1>1, <2>1, <2>2, BwFacts
  <1> QED
    BY <1>2, <1>3, <1>4, <1>5

LEMMA LoopKeeps == ASSUME BwInd, NEW g \in Streams, LoopStep(g) PROVE BwInd'
  <1> USE DEF BwInd
  <1>0. UNCHANGED <<bwReq, bwBroken>> /\ UNCHANGED agentVars
    BY DEF LoopStep, Resolve, Deliver, LoopEnds
  <1>1. ASSUME NEW to \in LoopSteps, bwLoop' = [bwLoop EXCEPT ![g] = to] \/ bwLoop' = bwLoop,
               bwWire' \in [Streams -> Seq(Events)], bwCmd' \in [Streams -> SUBSET BrowseReqs],
               bwPending' \subseteq bwPending, bwChan' \subseteq BrowseReqs,
               bwLoop' # bwLoop /\ to.at = "deliver" => bwReq[to.r].at # "none" /\ to.r \notin bwPending',
               \A r \in bwChan' : r \in bwChan \/ Answers(g, r)
        PROVE  BwInd'
    <2>1. /\ bwLoop' \in [Streams -> LoopSteps]
          /\ \A h \in Streams : bwLoop'[h] = bwLoop[h] \/ (bwLoop' # bwLoop /\ bwLoop'[h] = to)
      BY <1>1 DEF BwTypes
    <2>2. BwTypes'
      BY <1>0, <1>1, <2>1 DEF BwTypes, agentVars
    <2>3. NoOrphanEntry'
      BY <1>0, <1>1 DEF NoOrphanEntry
    <2>4. TakenOut'
      <3> SUFFICES ASSUME NEW r \in BrowseReqs, r \in bwChan' \/ \E h \in Streams : Answers(h, r)'
                   PROVE  bwReq[r].at # "none" /\ r \notin bwPending'
        BY <1>0 DEF TakenOut
      <3>1. CASE r \in bwChan'
        BY <1>1, <3>1 DEF TakenOut
      <3>2. ASSUME NEW h \in Streams, Answers(h, r)' PROVE bwReq[r].at # "none" /\ r \notin bwPending'
        <4>1. CASE bwLoop'[h] = bwLoop[h]
          BY <1>1, <3>2, <4>1 DEF Answers, TakenOut
        <4>2. CASE bwLoop' # bwLoop /\ bwLoop'[h] = to
          BY <1>1, <3>2, <4>2 DEF Answers
        <4> QED
          BY <2>1, <4>1, <4>2
      <3> QED
        BY <3>1, <3>2
    <2> QED
      BY <2>2, <2>3, <2>4
  <1>2. CASE Resolve(g)
    <2>1. /\ bwWire[g] # <<>> /\ bwWire' = [bwWire EXCEPT ![g] = Tail(bwWire[g])] /\ UNCHANGED <<bwChan, bwCmd>>
      BY <1>2 DEF Resolve
    <2>2. bwWire[g] \in Seq(Events)
      BY DEF BwTypes
    <2>3. Tail(bwWire[g]) \in Seq(Events)
      BY <2>1, <2>2, HeadTailProperties
    <2>4. bwWire' \in [Streams -> Seq(Events)]
      BY <2>1, <2>3 DEF BwTypes
    <2>5. bwCmd' \in [Streams -> SUBSET BrowseReqs] /\ bwChan' \subseteq BrowseReqs
      BY <2>1 DEF BwTypes
    <2>6. CASE UNCHANGED <<bwPending, bwLoop>>
      BY <1>1, <2>1, <2>4, <2>5, <2>6, BwFacts
    <2>7. ASSUME NEW r \in bwPending, bwPending' = bwPending \ {r},
                 bwLoop' = [bwLoop EXCEPT ![g] = [at |-> "deliver", r |-> r]]
          PROVE  BwInd'
      <3> DEFINE to == [at |-> "deliver", r |-> r]
      <3>1. to \in LoopSteps /\ to.r = r
        BY DEF LoopSteps, BwTypes
      <3>2. bwReq[r].at # "none"
        BY DEF NoOrphanEntry
      <3>3. bwLoop' = [bwLoop EXCEPT ![g] = to]
        BY <2>7
      <3> HIDE DEF to
      <3> QED
        BY <1>1, <2>1, <2>4, <2>5, <2>7, <3>1, <3>2, <3>3
    <2>8. UNCHANGED <<bwPending, bwLoop>>
          \/ \E r \in bwPending : bwPending' = bwPending \ {r} /\ bwLoop' = [bwLoop EXCEPT ![g] = [at |-> "deliver", r |-> r]]
      <3>1. \A r \in bwPending : Listing(r).r = r
        BY BwFacts DEF BwTypes
      <3> QED
        BY <1>2, <3>1 DEF Resolve, Cancel
    <2> QED
      BY <2>6, <2>7, <2>8
  <1>3. CASE Deliver(g)
    <2>1. /\ bwLoop[g].at = "deliver" /\ bwChan' = bwChan \cup {bwLoop[g].r} /\ bwLoop' = [bwLoop EXCEPT ![g] = LoopIdle]
          /\ UNCHANGED <<bwPending, bwCmd, bwWire>>
      BY <1>3 DEF Deliver
    <2>2. bwLoop[g].r \in BrowseReqs
      BY <2>1, LoopValue
    <2>3. /\ bwWire' \in [Streams -> Seq(Events)] /\ bwCmd' \in [Streams -> SUBSET BrowseReqs] /\ bwChan' \subseteq BrowseReqs
          /\ \A r \in bwChan' : r \in bwChan \/ Answers(g, r)
      BY <2>1, <2>2 DEF BwTypes, Answers
    <2> QED
      BY <1>1, <2>1, <2>3, BwFacts
  <1>4. CASE LoopEnds(g)
    <2>1. /\ bwLoop' = [bwLoop EXCEPT ![g] = LoopOff] /\ UNCHANGED <<bwPending, bwChan>>
          /\ bwWire' = [bwWire EXCEPT ![g] = <<>>] /\ bwCmd' = [bwCmd EXCEPT ![g] = {}]
      BY <1>4 DEF LoopEnds
    <2>2. bwWire' \in [Streams -> Seq(Events)] /\ bwCmd' \in [Streams -> SUBSET BrowseReqs] /\ bwChan' \subseteq BrowseReqs
      BY <2>1, BwFacts DEF BwTypes
    <2> QED
      BY <1>1, <2>1, <2>2, BwFacts
  <1> QED
    BY <1>2, <1>3, <1>4 DEF LoopStep

-----------------------------------------------------------------------------
(* The agent. *)

ServerStill == UNCHANGED <<bwReq, bwPending, bwChan, bwLoop>>

LEMMA ServerStillKeeps == ASSUME BwInd, ServerStill, BwTypes' PROVE BwInd'
  BY DEF BwInd, ServerStill, NoOrphanEntry, TakenOut, Answers

(* sendCh keeps to its capacity.                                           *)
LEMMA TrySendKeeps ==
    ASSUME BwTypes, NEW g, NEW e \in Events, TrySend(g, e), agAt # "crashed"
    PROVE  /\ agQueue' \in Seq(Events) /\ Len(agQueue') <= SendCap
           /\ agAt' \in {"off", "up", "closing", "draining", "crashed"} /\ (agAt' = "up" => agAt = "up")
  <1>1. agQueue \in Seq(Events) /\ Len(agQueue) <= SendCap /\ Len(agQueue) \in Nat
    BY LenProperties DEF BwTypes
  <1>2. Append(agQueue, e) \in Seq(Events) /\ Len(Append(agQueue, e)) = Len(agQueue) + 1
    BY <1>1, AppendProperties
  <1>3. agQueue' = agQueue \/ (Len(agQueue) < SendCap /\ agQueue' = Append(agQueue, e))
    BY DEF TrySend
  <1>4. agAt' = agAt \/ agAt' = "crashed"
    BY DEF TrySend
  <1>5. agQueue' \in Seq(Events) /\ Len(agQueue') <= SendCap
    BY <1>1, <1>2, <1>3, BwFacts
  <1> QED
    BY <1>4, <1>5 DEF BwTypes

LEMMA ConnectKeeps == ASSUME BwInd, connectAndServe PROVE BwInd'
  <1> USE DEF BwInd
  <1>1. /\ agGen < MaxStreams /\ agGen' = agGen + 1 /\ agAt' = "up" /\ agQueue' = <<>> /\ agSender' = TRUE /\ agHealth' = "emit"
        /\ UNCHANGED <<bwReq, bwPending, bwChan, bwCmd, bwWire, agLists>>
        /\ bwLoop' = [bwLoop EXCEPT ![agGen + 1] = LoopIdle]
    BY DEF connectAndServe, Run
  <1>2. agGen' \in Streams /\ agGen' \in 0 .. MaxStreams
    BY <1>1, BwFacts DEF BwTypes, Streams
  <1>3. /\ bwLoop' \in [Streams -> LoopSteps]
        /\ \A g \in Streams : bwLoop'[g] = bwLoop[g] \/ bwLoop'[g] = LoopIdle
    BY <1>1, BwFacts DEF BwTypes
  <1>4. BwTypes'
    BY <1>1, <1>2, <1>3, BwFacts DEF BwTypes
  <1>5. \A g \in Streams, r \in BrowseReqs : Answers(g, r)' => Answers(g, r)
    BY <1>3, BwFacts DEF Answers
  <1>6. NoOrphanEntry' /\ TakenOut'
    BY <1>1, <1>5 DEF NoOrphanEntry, TakenOut
  <1> QED
    BY <1>4, <1>6

LEMMA AgentKeeps ==
    ASSUME BwInd, \/ \E r \in BrowseReqs : AgentReceives(r)
                  \/ \E l \in agLists : handleListDirectory(l)
                  \/ SenderStep \/ emitHealthEvent \/ sendHealthEvents \/ CleanUp \/ AgentRestarts
    PROVE  BwInd'
  <1> USE DEF BwInd
  <1>0. ServerStill
    BY DEF ServerStill, serverVars, AgentReceives, handleListDirectory, SenderStep, emitHealthEvent, sendHealthEvents, CleanUp,
           ReceiveEnds, CloseSendCh, WaitReturns, AgentRestarts
  <1>1. ASSUME NEW r \in BrowseReqs, AgentReceives(r) PROVE BwTypes'
    <2>1. /\ agAt = "up" /\ agGen \in Streams /\ bwCmd' = [bwCmd EXCEPT ![agGen] = bwCmd[agGen] \ {r}]
          /\ agLists' = agLists \cup {<<r, agGen>>}
          /\ UNCHANGED <<bwWire, agAt, agGen, agQueue, agSender, agHealth>>
      BY <1>1 DEF AgentReceives, BwTypes
    <2>2. bwCmd' \in [Streams -> SUBSET BrowseReqs] /\ agLists' \subseteq BrowseReqs \X Streams
      BY <2>1 DEF BwTypes
    <2> QED
      BY <1>0, <2>1, <2>2 DEF BwTypes, ServerStill
  <1>2. ASSUME NEW l \in agLists, handleListDirectory(l) PROVE BwTypes'
    <2>1. /\ agAt # "crashed" /\ TrySend(l[2], Listing(l[1])) /\ agLists' = agLists \ {l}
          /\ UNCHANGED <<bwCmd, bwWire, agGen, agSender, agHealth>>
      BY <1>2 DEF handleListDirectory
    <2>2. Listing(l[1]) \in Events
      BY BwFacts DEF BwTypes
    <2>3. /\ agQueue' \in Seq(Events) /\ Len(agQueue') <= SendCap
          /\ agAt' \in {"off", "up", "closing", "draining", "crashed"} /\ (agAt' = "up" => agAt = "up")
      BY <2>1, <2>2, TrySendKeeps
    <2> QED
      BY <1>0, <2>1, <2>3 DEF BwTypes, ServerStill
  <1>3. ASSUME emitHealthEvent PROVE BwTypes'
    <2>1. /\ agAt # "crashed" /\ TrySend(agGen, Report) /\ agHealth' = "wait"
          /\ UNCHANGED <<bwCmd, bwWire, agGen, agSender, agLists>>
      BY <1>3 DEF emitHealthEvent
    <2>2. Report \in Events
      BY BwFacts
    <2>3. /\ agQueue' \in Seq(Events) /\ Len(agQueue') <= SendCap
          /\ agAt' \in {"off", "up", "closing", "draining", "crashed"} /\ (agAt' = "up" => agAt = "up")
      BY <2>1, <2>2, TrySendKeeps
    <2> QED
      BY <1>0, <2>1, <2>3 DEF BwTypes, ServerStill
  <1>4. ASSUME SenderStep PROVE BwTypes'
    <2>1. /\ agSender /\ agGen \in Streams /\ agSender' \in BOOLEAN /\ (agSender' => agSender)
          /\ UNCHANGED <<bwCmd, agAt, agGen, agHealth, agLists>>
      BY <1>4 DEF SenderStep, BwTypes
    <2>2. CASE UNCHANGED <<agQueue, bwWire>>
      BY <1>0, <2>1, <2>2 DEF BwTypes, ServerStill
    <2>3. CASE /\ agQueue # <<>> /\ agQueue' = Tail(agQueue)
               /\ bwWire' = bwWire \/ bwWire' = [bwWire EXCEPT ![agGen] = Append(bwWire[agGen], Head(agQueue))]
      <3>1. agQueue \in Seq(Events) /\ bwWire[agGen] \in Seq(Events) /\ Len(agQueue) <= SendCap
        BY <2>1 DEF BwTypes
      <3>2. Head(agQueue) \in Events /\ Tail(agQueue) \in Seq(Events) /\ Len(Tail(agQueue)) = Len(agQueue) - 1
        BY <2>3, <3>1, HeadTailProperties
      <3>3. Append(bwWire[agGen], Head(agQueue)) \in Seq(Events)
        BY <3>1, <3>2, AppendProperties
      <3>4. bwWire' \in [Streams -> Seq(Events)]
        BY <2>1, <2>3, <3>3 DEF BwTypes
      <3>5. agQueue' \in Seq(Events) /\ Len(agQueue') <= SendCap
        BY <2>3, <3>1, <3>2, LenProperties, BwFacts
      <3> QED
        BY <1>0, <2>1, <3>4, <3>5 DEF BwTypes, ServerStill
    <2> QED
      BY <1>4, <2>2, <2>3 DEF SenderStep
  <1>5. ASSUME sendHealthEvents \/ CleanUp PROVE BwTypes'
    BY <1>0, <1>5 DEF sendHealthEvents, CleanUp, ReceiveEnds, CloseSendCh, WaitReturns, BwTypes, ServerStill
  <1>6. ASSUME AgentRestarts PROVE BwTypes'
    <2>1. /\ agAt' = "off" /\ agLists' = {} /\ agSender' = FALSE /\ agHealth' = "gone" /\ agQueue' = <<>>
          /\ UNCHANGED <<bwCmd, bwWire, agGen>>
      BY <1>6 DEF AgentRestarts
    <2>2. agQueue' \in Seq(Events) /\ Len(agQueue') <= SendCap
      BY <2>1, BwFacts
    <2> QED
      BY <1>0, <2>1, <2>2 DEF BwTypes, ServerStill
  <1>7. BwTypes'
    BY <1>1, <1>2, <1>3, <1>4, <1>5, <1>6
  <1> QED
    BY <1>0, <1>7, ServerStillKeeps

LEMMA BwIndNext == BwInd /\ [BrowsingNext]_browseVars => BwInd'
  <1> SUFFICES ASSUME BwInd, [BrowsingNext]_browseVars PROVE BwInd'
    OBVIOUS
  <1>1. ASSUME NEW r \in BrowseReqs, BrowseDirectory(r) \/ SendListCommand(r) \/ Answered(r) \/ GivesUp(r) PROVE BwInd'
    BY <1>1, BrowseKeeps
  <1>2. ASSUME NEW g \in Streams, LoopStep(g) PROVE BwInd'
    BY <1>2, LoopKeeps
  <1>3. ASSUME NEW g \in Streams, StreamBreaks(g) PROVE BwInd'
    BY <1>3 DEF StreamBreaks, serverVars, agentVars, BwInd, BwTypes, NoOrphanEntry, TakenOut, Answers
  <1>4. CASE connectAndServe
    BY <1>4, ConnectKeeps
  <1>5. CASE \/ \E r \in BrowseReqs : AgentReceives(r)
             \/ \E l \in agLists : handleListDirectory(l)
             \/ SenderStep \/ emitHealthEvent \/ sendHealthEvents \/ CleanUp \/ AgentRestarts
    BY <1>5, AgentKeeps
  <1>6. CASE UNCHANGED browseVars
    BY <1>6 DEF browseVars, BwInd, BwTypes, NoOrphanEntry, TakenOut, Answers
  <1> QED
    BY <1>1, <1>2, <1>3, <1>4, <1>5, <1>6 DEF BrowsingNext

(* Browsing is sound: with any number of requests and connections, and     *)
(* whichever of an answer, a timeout, a failed send or a new connection    *)
(* comes first, the broker keeps no request whose handler has returned,    *)
(* and sendCh keeps to its capacity.                                       *)
THEOREM BrowsingIsSound == BrowsingSpec => []BrowsingInv
  <1>1. BwInd => BrowsingInv
    BY DEF BwInd, BwTypes, BrowsingInv, BrowsingTypeOK, ReqSteps, LoopSteps
  <1> QED
    BY <1>1, BwIndInit, BwIndNext, PTL DEF BrowsingSpec

-----------------------------------------------------------------------------
(* Telegram commands.                                                      *)

TelegramSpec == TelegramInit /\ [][TelegramNext]_tgVars

TgAts     == {"down", "poll", "polling", "backoff", "batch", "call", "reply"}
TgPollers == [at : TgAts, offset : Nat, batch : Seq(Nat)]
InBatch   == {"batch", "call", "reply"}

(* A batch is a run of consecutive updates.                                *)
Consecutive(b) == \A i \in 1 .. Len(b) : b[i] \in 1 .. Len(tgSent) /\ b[i] = b[1] + (i - 1)

TgTypes ==
    /\ tgSent \in Seq(TgSorts) /\ Len(tgSent) <= MaxUpdates /\ tgConfirmed \in 0 .. Len(tgSent)
    /\ tgPoller \in TgPollers /\ tgPoller.offset <= Len(tgSent) + 1
    /\ Consecutive(tgPoller.batch) /\ (tgPoller.at \in InBatch => tgPoller.batch # <<>>)
    /\ tgCancelled \in BOOLEAN /\ tgHandled \subseteq 1 .. Len(tgSent)
    /\ tgRuns \in [TgIds -> Nat] /\ tgFaults \in 0 .. MaxTgFaults

(* Every command up to an update was dealt with.                           *)
DoneTo(n) == \A u \in 1 .. n : Command(u) => u \in tgHandled

(* What is forgotten, and what precedes an update that was dealt with, was *)
(* dealt with; so was what precedes the offset and the batch of a poller   *)
(* whose context is not cancelled.                                         *)
InOrder ==
    /\ DoneTo(tgConfirmed) /\ \A v \in tgHandled : DoneTo(v)
    /\ ~tgCancelled /\ tgPoller.at \in {"poll", "polling", "backoff"} => DoneTo(tgPoller.offset - 1)
    /\ ~tgCancelled /\ tgPoller.at \in InBatch => DoneTo(TgCurrent - 1)

(* What the poller has still to do, in this life of the bridge, was not    *)
(* done yet.                                                               *)
AheadIsFresh ==
    /\ \A u \in TgIds : tgRuns[u] <= 1
    /\ tgPoller.at # "down" => \A u \in TgIds : u >= tgPoller.offset => tgRuns[u] = 0
    /\ tgPoller.at = "polling" => tgPoller.offset <= tgConfirmed + 1
    /\ tgPoller.at = "batch" => TgCurrent >= tgPoller.offset
    /\ tgPoller.at \in {"call", "reply"} => tgPoller.offset = TgCurrent + 1
    /\ tgPoller.at = "call" => tgRuns[TgCurrent] = 0

TgInd == TgTypes /\ InOrder /\ AheadIsFresh

LEMMA TgDownIs == /\ TgDown \in TgPollers /\ TgDown.at = "down" /\ TgDown.offset = 0 /\ TgDown.batch = <<>>
                  /\ Consecutive(<<>>) /\ Consecutive(<<>>)'
  <1>1. <<>> \in Seq(Nat) /\ Len(<<>>) = 0
    BY EmptySeq
  <1> QED
    BY <1>1 DEF TgDown, TgPollers, TgAts, Consecutive

(* The update at hand, and what is left after it.                          *)
LEMMA BatchAtHand ==
    ASSUME NEW b \in Seq(Nat), b # <<>>, Consecutive(b)
    PROVE  /\ Head(b) = b[1] /\ Head(b) \in 1 .. Len(tgSent) /\ Tail(b) \in Seq(Nat) /\ Consecutive(Tail(b))
           /\ Len(b) # 1 => Tail(b) # <<>> /\ Head(Tail(b)) = Head(b) + 1
  <1>1. /\ Head(b) = b[1] /\ Head(b) \in Nat /\ Tail(b) \in Seq(Nat) /\ Len(Tail(b)) = Len(b) - 1 /\ Len(b) \in Nat /\ Len(b) >= 1
        /\ \A i \in 1 .. Len(Tail(b)) : Tail(b)[i] = b[i + 1]
    BY HeadTailProperties, LenProperties, EmptySeq
  <1>2. b[1] \in 1 .. Len(tgSent)
    BY <1>1 DEF Consecutive
  <1>3. Consecutive(Tail(b))
    <2> SUFFICES ASSUME NEW i \in 1 .. Len(Tail(b))
                 PROVE  Tail(b)[i] \in 1 .. Len(tgSent) /\ Tail(b)[i] = Tail(b)[1] + (i - 1)
      BY DEF Consecutive
    <2>1. i + 1 \in 1 .. Len(b) /\ 2 \in 1 .. Len(b) /\ 1 \in 1 .. Len(Tail(b))
      BY <1>1
    <2>2. b[i + 1] \in 1 .. Len(tgSent) /\ b[i + 1] = b[1] + i /\ b[2] = b[1] + 1
      BY <2>1 DEF Consecutive
    <2> QED
      BY <1>1, <2>1, <2>2
  <1>4. ASSUME Len(b) # 1 PROVE Tail(b) # <<>> /\ Head(Tail(b)) = Head(b) + 1
    <2>1. Len(Tail(b)) >= 1
      BY <1>1, <1>4
    <2>2. Tail(b) # <<>>
      <3>1. Len(<<>>) = 0
        BY EmptySeq
      <3>2. Tail(b) = <<>> => Len(Tail(b)) = 0
        BY <3>1
      <3>3. Len(Tail(b)) # 0
        BY <1>1, <2>1
      <3> QED
        BY <3>2, <3>3, Zenon
    <2>3. Head(Tail(b)) = Tail(b)[1] /\ 1 \in 1 .. Len(Tail(b)) /\ 2 \in 1 .. Len(b)
      BY <1>1, <2>1, <2>2, HeadTailProperties
    <2>4. b[2] = b[1] + 1
      BY <2>3 DEF Consecutive
    <2> QED
      BY <1>1, <2>2, <2>3, <2>4
  <1> QED
    BY <1>1, <1>2, <1>3, <1>4

LEMMA TgIndInit == TelegramInit => TgInd
  <1> SUFFICES ASSUME TelegramInit PROVE TgInd
    OBVIOUS
  <1>1. /\ tgSent \in Seq(TgSorts) /\ Len(tgSent) = 0 /\ tgPoller = TgDown /\ tgRuns \in [TgIds -> Nat]
        /\ tgConfirmed = 0 /\ tgHandled = {} /\ tgCancelled = FALSE /\ tgFaults = 0
    BY EmptySeq DEF TelegramInit
  <1>2. TgTypes
    <2>1. Len(tgSent) <= MaxUpdates /\ tgConfirmed \in 0 .. Len(tgSent) /\ tgFaults \in 0 .. MaxTgFaults
      BY <1>1, TelegramAssumption
    <2>2. /\ tgPoller \in TgPollers /\ tgPoller.offset <= Len(tgSent) + 1 /\ Consecutive(tgPoller.batch)
          /\ tgPoller.at \notin InBatch
      BY <1>1, TgDownIs DEF InBatch
    <2> QED
      BY <1>1, <2>1, <2>2 DEF TgTypes
  <1>3. InOrder
    BY <1>1, TgDownIs DEF InOrder, DoneTo, InBatch
  <1>4. AheadIsFresh
    BY <1>1, TgDownIs DEF AheadIsFresh, TelegramInit
  <1> QED
    BY <1>2, <1>3, <1>4 DEF TgInd

-----------------------------------------------------------------------------

LEMMA UserSendsKeeps == ASSUME TgInd, NEW s \in TgSorts, UserSends(s) PROVE TgInd'
  <1> USE DEF TgInd
  <1>1. /\ tgSent' = Append(tgSent, s) /\ Len(tgSent) < MaxUpdates
        /\ UNCHANGED <<tgConfirmed, tgPoller, tgCancelled, tgHandled, tgRuns, tgFaults>>
    BY DEF UserSends
  <1>2. /\ tgSent' \in Seq(TgSorts) /\ Len(tgSent') = Len(tgSent) + 1 /\ Len(tgSent) \in Nat
        /\ \A u \in 1 .. Len(tgSent) : tgSent'[u] = tgSent[u]
    BY <1>1, AppendProperties, LenProperties DEF TgTypes
  <1>3. TgTypes'
    <2>1. Consecutive(tgPoller.batch)'
      BY <1>1, <1>2 DEF TgTypes, Consecutive
    <2> QED
      BY <1>1, <1>2, <2>1, TelegramAssumption DEF TgTypes, TgPollers
  <1>4. \A n \in Int : n <= Len(tgSent) /\ DoneTo(n) => DoneTo(n)'
    BY <1>1, <1>2 DEF DoneTo, Command
  <1>5. tgPoller.at \in InBatch => TgCurrent \in 1 .. Len(tgSent)
    BY BatchAtHand DEF TgCurrent, TgTypes, TgPollers
  <1>6. DoneTo(tgConfirmed)' /\ \A v \in tgHandled : DoneTo(v)'
    BY <1>1, <1>4 DEF InOrder, TgTypes
  <1>7. InOrder'
    BY <1>1, <1>2, <1>4, <1>5, <1>6 DEF InOrder, TgCurrent, TgTypes, TgPollers
  <1>8. AheadIsFresh'
    BY <1>1 DEF AheadIsFresh, TgCurrent
  <1> QED
    BY <1>3, <1>7, <1>8

(* What holds of the poller after a step that leaves the rest alone.       *)
TgOthersStill == UNCHANGED <<tgSent, tgConfirmed, tgCancelled, tgHandled, tgRuns>>

(* Done commands stay done while no user writes.                           *)
LEMMA DoneStays == ASSUME tgSent' = tgSent, tgHandled \subseteq tgHandled', NEW n, DoneTo(n)
                   PROVE  DoneTo(n)'
  BY DEF DoneTo, Command

(* A step that only moves the poller.                                      *)
LEMMA PollerMoves ==
    ASSUME TgInd, TgOthersStill, tgFaults' \in 0 .. MaxTgFaults,
           tgPoller' \in TgPollers, tgPoller'.offset = tgPoller.offset, tgPoller'.batch = tgPoller.batch,
           \/ tgPoller.at \in {"polling", "backoff"} /\ tgPoller'.at \in {"poll", "backoff"}
    PROVE  TgInd'
  <1> USE DEF TgInd
  <1>1. TgTypes'
    BY DEF TgTypes, TgOthersStill, Consecutive, InBatch
  <1>2. \A n : DoneTo(n) => DoneTo(n)'
    BY DEF DoneTo, Command, TgOthersStill
  <1>3. DoneTo(tgConfirmed)' /\ (\A v \in tgHandled : DoneTo(v)') /\ (~tgCancelled => DoneTo(tgPoller.offset - 1)')
    BY <1>2 DEF InOrder, TgOthersStill
  <1>4. InOrder'
    BY <1>3 DEF InOrder, TgOthersStill, InBatch
  <1>5. AheadIsFresh'
    BY DEF AheadIsFresh, TgOthersStill
  <1> QED
    BY <1>1, <1>4, <1>5

LEMMA WaitingKeeps == ASSUME TgInd, PollFails \/ BackedOff PROVE TgInd'
  <1>1. /\ tgPoller.at \in {"polling", "backoff"} /\ TgOthersStill /\ tgFaults' \in 0 .. MaxTgFaults
        /\ tgPoller' = [tgPoller EXCEPT !.at = "backoff"] \/ tgPoller' = [tgPoller EXCEPT !.at = "poll"]
    BY TelegramAssumption DEF PollFails, BackedOff, TgFault, TgInd, TgTypes, TgOthersStill
  <1>2. /\ tgPoller' \in TgPollers /\ tgPoller'.offset = tgPoller.offset /\ tgPoller'.batch = tgPoller.batch
        /\ tgPoller'.at \in {"poll", "backoff"}
    BY <1>1 DEF TgInd, TgTypes, TgPollers, TgAts
  <1> QED
    BY <1>1, <1>2, PollerMoves

(* The bridge starts, cancels and ends.                                    *)
LEMMA LifeKeeps == ASSUME TgInd, StartTelegram \/ CancelTelegram \/ BridgeProcessEnds \/ BridgeProcessDies PROVE TgInd'
  <1> USE DEF TgInd
  <1>0. UNCHANGED <<tgSent, tgConfirmed, tgHandled>> /\ tgFaults' \in 0 .. MaxTgFaults
    BY TelegramAssumption DEF StartTelegram, CancelTelegram, BridgeProcessEnds, BridgeProcessDies, TgFault, TgTypes
  <1>1. DoneTo(tgConfirmed)' /\ \A v \in tgHandled : DoneTo(v)'
    BY <1>0 DEF InOrder, DoneTo, Command
  <1>2. CASE CancelTelegram
    <2>1. tgCancelled' = TRUE /\ UNCHANGED <<tgPoller, tgRuns>>
      BY <1>2 DEF CancelTelegram
    <2>2. TgTypes' /\ AheadIsFresh'
      BY <1>0, <2>1 DEF TgTypes, AheadIsFresh, Consecutive, TgCurrent
    <2> QED
      BY <1>0, <1>1, <2>1, <2>2 DEF InOrder
  <1>3. CASE StartTelegram
    <2>1. tgPoller' = [TgDown EXCEPT !.at = "poll"] /\ tgCancelled' = FALSE /\ tgRuns' = [u \in TgIds |-> 0]
      BY <1>3 DEF StartTelegram
    <2>2. /\ tgPoller' \in TgPollers /\ tgPoller'.at = "poll" /\ tgPoller'.offset = 0 /\ tgPoller'.batch = <<>>
      BY <2>1, TgDownIs DEF TgPollers, TgAts
    <2>3. tgRuns' \in [TgIds -> Nat] /\ \A u \in TgIds : tgRuns'[u] = 0
      BY <2>1
    <2>4. TgTypes'
      <3>1. Consecutive(tgPoller.batch)' /\ tgPoller'.offset <= Len(tgSent') + 1 /\ tgPoller'.at \notin InBatch
        BY <1>0, <2>2, TgDownIs, LenProperties DEF InBatch, TgTypes
      <3> QED
        BY <1>0, <2>1, <2>2, <2>3, <3>1 DEF TgTypes
    <2>5. DoneTo(tgPoller.offset - 1)'
      BY <2>2 DEF DoneTo
    <2>6. InOrder'
      BY <1>0, <1>1, <2>2, <2>5 DEF InOrder, InBatch
    <2>7. AheadIsFresh'
      BY <2>2, <2>3 DEF AheadIsFresh
    <2> QED
      BY <2>4, <2>6, <2>7
  <1>4. CASE BridgeProcessEnds \/ BridgeProcessDies
    <2>1. tgPoller' = TgDown /\ UNCHANGED <<tgCancelled, tgRuns>>
      BY <1>4 DEF BridgeProcessEnds, BridgeProcessDies
    <2>2. TgTypes'
      BY <1>0, <2>1, TgDownIs, LenProperties DEF TgTypes, InBatch
    <2>3. InOrder'
      BY <1>0, <1>1, <2>1, TgDownIs DEF InOrder, InBatch
    <2>4. AheadIsFresh'
      BY <2>1, TgDownIs DEF AheadIsFresh
    <2> QED
      BY <2>2, <2>3, <2>4
  <1> QED
    BY <1>2, <1>3, <1>4

(* A poll forgets only what was dealt with ...                             *)
LEMMA GetUpdatesKeeps == ASSUME TgInd, getUpdates PROVE TgInd'
  <1> USE DEF TgInd
  <1>1. /\ tgPoller.at = "poll" /\ ~tgCancelled /\ tgConfirmed' = Confirm /\ tgPoller' = [tgPoller EXCEPT !.at = "polling"]
        /\ UNCHANGED <<tgSent, tgCancelled, tgHandled, tgRuns, tgFaults>>
    BY DEF getUpdates
  <1>2. /\ tgPoller' \in TgPollers /\ tgPoller'.at = "polling" /\ tgPoller'.offset = tgPoller.offset /\ tgPoller'.batch = tgPoller.batch
        /\ tgPoller.offset \in Nat
    BY <1>1 DEF TgTypes, TgPollers, TgAts
  <1>3. /\ tgConfirmed' \in 0 .. Len(tgSent) /\ tgPoller.offset <= tgConfirmed' + 1
        /\ tgConfirmed' = tgConfirmed \/ tgConfirmed' = tgPoller.offset - 1
    BY <1>1, <1>2, LenProperties DEF Confirm, TgTypes
  <1>4. TgTypes'
    BY <1>1, <1>2, <1>3 DEF TgTypes, Consecutive, InBatch
  <1>5. \A n : DoneTo(n) => DoneTo(n)'
    BY <1>1 DEF DoneTo, Command
  <1>6. DoneTo(tgConfirmed)' /\ (\A v \in tgHandled : DoneTo(v)') /\ DoneTo(tgPoller.offset - 1)'
    BY <1>1, <1>2, <1>3, <1>5 DEF InOrder
  <1>7. InOrder'
    BY <1>1, <1>2, <1>6 DEF InOrder, InBatch
  <1>8. AheadIsFresh'
    BY <1>1, <1>2, <1>3 DEF AheadIsFresh
  <1> QED
    BY <1>4, <1>7, <1>8

(* ... and its answer is what comes after that.                            *)
LEMMA UpdatesArriveKeeps == ASSUME TgInd, UpdatesArrive PROVE TgInd'
  <1> USE DEF TgInd
  <1> DEFINE n == Cardinality(Pending)
             b == [i \in 1 .. n |-> tgConfirmed + i]
             a == IF Pending = {} THEN "poll" ELSE "batch"
  <1>1. /\ tgPoller.at = "polling" /\ ~tgCancelled /\ tgPoller' = [tgPoller EXCEPT !.at = a, !.batch = b]
        /\ UNCHANGED <<tgSent, tgConfirmed, tgCancelled, tgHandled, tgRuns, tgFaults>>
    BY DEF UpdatesArrive
  <1>2. Len(tgSent) \in Nat /\ tgConfirmed \in Nat /\ tgConfirmed <= Len(tgSent)
    BY LenProperties DEF TgTypes
  <1>3. Pending = tgConfirmed + 1 .. Len(tgSent)
    BY <1>2 DEF Pending
  <1>4. n = IF tgConfirmed + 1 > Len(tgSent) THEN 0 ELSE Len(tgSent) - (tgConfirmed + 1) + 1
    <2>1. tgConfirmed + 1 \in Int /\ Len(tgSent) \in Int
      BY <1>2
    <2>2. Cardinality(tgConfirmed + 1 .. Len(tgSent))
             = IF tgConfirmed + 1 > Len(tgSent) THEN 0 ELSE Len(tgSent) - (tgConfirmed + 1) + 1
      BY <2>1, FS_Interval
    <2> QED
      BY <1>3, <2>2
  <1>5. n \in Nat /\ tgConfirmed + n = Len(tgSent) /\ (Pending # {} => n >= 1)
    BY <1>2, <1>3, <1>4
  <1> HIDE DEF n
  <1>6. b \in Seq(Nat) /\ Len(b) = n /\ \A i \in 1 .. n : b[i] = tgConfirmed + i
    <2>1. b \in [1 .. n -> Nat]
      BY <1>2, <1>5
    <2>2. b \in Seq(Nat)
      BY <1>5, <2>1 DEF Seq
    <2> QED
      BY <1>5, <2>1, <2>2, LenProperties
  <1> HIDE DEF b, a
  <1>7. Consecutive(b)
    BY <1>2, <1>5, <1>6 DEF Consecutive
  <1>8. a \in {"poll", "batch"} /\ (a = "batch" => b # <<>> /\ Head(b) = tgConfirmed + 1)
    <2>1. a \in {"poll", "batch"} /\ (a = "batch" => n >= 1)
      BY <1>5 DEF a
    <2>2. Len(<<>>) = 0
      BY EmptySeq
    <2>3. a = "batch" => b # <<>>
      BY <1>5, <1>6, <2>1, <2>2
    <2>4. a = "batch" => Head(b) = b[1] /\ 1 \in 1 .. n
      BY <1>5, <1>6, <2>1, <2>3, HeadTailProperties
    <2> QED
      BY <1>6, <2>1, <2>3, <2>4
  <1>9. tgPoller' \in TgPollers /\ tgPoller'.at = a /\ tgPoller'.offset = tgPoller.offset /\ tgPoller'.batch = b
    BY <1>1, <1>6, <1>8 DEF TgTypes, TgPollers, TgAts
  <1>10. TgTypes'
    BY <1>1, <1>7, <1>8, <1>9 DEF TgTypes, Consecutive, InBatch
  <1>11. \A m : DoneTo(m) => DoneTo(m)'
    BY <1>1 DEF DoneTo, Command
  <1>12. DoneTo(tgConfirmed)' /\ (\A v \in tgHandled : DoneTo(v)') /\ DoneTo(tgPoller.offset - 1)'
    BY <1>1, <1>9, <1>11 DEF InOrder
  <1>13. a = "batch" => DoneTo(TgCurrent - 1)'
    <2>1. a = "batch" => TgCurrent' - 1 = tgConfirmed
      BY <1>2, <1>8, <1>9 DEF TgCurrent
    <2> QED
      BY <1>1, <2>1, <1>11 DEF InOrder
  <1>14. InOrder'
    BY <1>1, <1>8, <1>9, <1>12, <1>13 DEF InOrder, InBatch
  <1>15. AheadIsFresh'
    BY <1>1, <1>2, <1>8, <1>9 DEF AheadIsFresh, TgCurrent
  <1> QED
    BY <1>10, <1>14, <1>15

LEMMA UpdateAtHand ==
    ASSUME TgInd, tgPoller.at \in InBatch
    PROVE  /\ TgCurrent \in 1 .. Len(tgSent) /\ TgCurrent \in TgIds /\ TgCurrent \in Nat
           /\ Tail(tgPoller.batch) \in Seq(Nat) /\ Consecutive(Tail(tgPoller.batch))
           /\ Len(tgPoller.batch) # 1 => Tail(tgPoller.batch) # <<>> /\ Head(Tail(tgPoller.batch)) = TgCurrent + 1
           /\ Len(tgSent) \in Nat
  <1>1. tgPoller.batch \in Seq(Nat) /\ tgPoller.batch # <<>> /\ Consecutive(tgPoller.batch)
    BY DEF TgInd, TgTypes, TgPollers
  <1>2. Len(tgSent) \in Nat /\ Len(tgSent) <= MaxUpdates
    BY LenProperties DEF TgInd, TgTypes
  <1>3. /\ Head(tgPoller.batch) \in 1 .. Len(tgSent) /\ Tail(tgPoller.batch) \in Seq(Nat) /\ Consecutive(Tail(tgPoller.batch))
        /\ Len(tgPoller.batch) # 1 =>
              Tail(tgPoller.batch) # <<>> /\ Head(Tail(tgPoller.batch)) = Head(tgPoller.batch) + 1
    BY <1>1, BatchAtHand
  <1> QED
    BY <1>2, <1>3, TelegramAssumption DEF TgCurrent, TgIds

(* The poller is done with the update at hand and goes to the next.        *)
LEMMA MovesOn ==
    ASSUME TgInd, tgPoller.at \in InBatch, UNCHANGED <<tgSent, tgConfirmed, tgCancelled, tgRuns, tgFaults>>,
           tgPoller' \in TgPollers, tgPoller'.batch = Tail(tgPoller.batch), tgPoller'.offset = TgCurrent + 1,
           tgPoller'.at = IF Len(tgPoller.batch) = 1 THEN "poll" ELSE "batch",
           tgHandled' = tgHandled \/ (~tgCancelled /\ tgHandled' = tgHandled \cup {TgCurrent}),
           ~tgCancelled /\ Command(TgCurrent) => TgCurrent \in tgHandled',
           tgPoller.offset <= TgCurrent + 1
    PROVE  TgInd'
  <1> USE DEF TgInd
  <1>1. PICK c \in 1 .. Len(tgSent) : c = TgCurrent
    BY UpdateAtHand
  <1>2. /\ c \in TgIds /\ c \in Nat /\ Tail(tgPoller.batch) \in Seq(Nat) /\ Consecutive(Tail(tgPoller.batch))
        /\ Len(tgPoller.batch) # 1 => Tail(tgPoller.batch) # <<>> /\ Head(Tail(tgPoller.batch)) = c + 1
        /\ Len(tgSent) \in Nat
    BY <1>1, UpdateAtHand
  <1>3. tgHandled \subseteq tgHandled' /\ (tgHandled' = tgHandled \/ (~tgCancelled /\ tgHandled' = tgHandled \cup {c}))
    BY <1>1
  <1>4. \A n : DoneTo(n) => DoneTo(n)'
    BY <1>3 DEF DoneTo, Command
  <1>5. ~tgCancelled => DoneTo(c)'
    <2> SUFFICES ASSUME ~tgCancelled, NEW u \in 1 .. c, Command(u)' PROVE u \in tgHandled'
      BY DEF DoneTo
    <2>1. CASE u = c
      BY <1>1, <2>1 DEF Command
    <2>2. CASE u # c
      <3>1. DoneTo(c - 1) /\ u \in 1 .. c - 1
        BY <1>1, <1>2, <2>2 DEF InOrder
      <3> QED
        BY <1>3, <3>1 DEF DoneTo, Command
    <2> QED
      BY <2>1, <2>2
  <1>6. tgPoller'.at \in {"poll", "batch"} /\ (tgPoller'.at = "batch" => Len(tgPoller.batch) # 1)
    OBVIOUS
  <1>7. tgPoller'.at = "batch" => TgCurrent' = c + 1 /\ tgPoller'.batch # <<>>
    BY <1>2, <1>6 DEF TgCurrent
  <1>8. TgTypes'
    <2>1. tgPoller'.offset <= Len(tgSent') + 1 /\ tgHandled' \subseteq 1 .. Len(tgSent')
      <3>1. tgSent' = tgSent /\ tgPoller'.offset = c + 1 /\ tgHandled \subseteq 1 .. Len(tgSent)
        BY <1>1 DEF TgTypes
      <3>2. c + 1 <= Len(tgSent) + 1
        BY <1>2
      <3>3. tgHandled' \subseteq 1 .. Len(tgSent)
        BY <1>3, <3>1
      <3> QED
        BY <3>1, <3>2, <3>3
    <2>2. Consecutive(tgPoller.batch)' /\ (tgPoller'.at \in InBatch => tgPoller'.batch # <<>>)
      BY <1>2, <1>6, <1>7 DEF Consecutive, InBatch
    <2> QED
      BY <2>1, <2>2 DEF TgTypes
  <1>9. InOrder'
    <2>1. DoneTo(tgConfirmed)'
      BY <1>4 DEF InOrder
    <2>2. ASSUME NEW v \in tgHandled' PROVE DoneTo(v)'
      BY <1>3, <1>4, <1>5 DEF InOrder
    <2>3. ~tgCancelled => DoneTo(tgPoller.offset - 1)'
      BY <1>1, <1>2, <1>5
    <2>4. ~tgCancelled /\ tgPoller'.at = "batch" => DoneTo(TgCurrent - 1)'
      BY <1>2, <1>5, <1>7
    <2> QED
      BY <1>6, <2>1, <2>2, <2>3, <2>4 DEF InOrder, InBatch
  <1>10. AheadIsFresh'
    <2>1. tgPoller.at # "down" /\ tgPoller.offset \in Nat
      BY DEF InBatch, TgTypes, TgPollers
    <2>2. \A u \in TgIds : u >= tgPoller'.offset => tgRuns[u] = 0
      BY <1>1, <1>2, <2>1, TelegramAssumption DEF AheadIsFresh, TgIds
    <2> QED
      BY <1>1, <1>2, <1>6, <1>7, <2>2 DEF AheadIsFresh
  <1> QED
    BY <1>8, <1>9, <1>10

LEMMA NextUpdateKeeps == ASSUME TgInd, NextUpdate PROVE TgInd'
  <1> USE DEF TgInd
  <1>0. tgPoller.at = "batch" /\ UNCHANGED <<tgSent, tgConfirmed, tgCancelled, tgHandled, tgRuns, tgFaults>>
    BY DEF NextUpdate
  <1>1. tgPoller.at \in InBatch /\ tgPoller \in TgPollers /\ TgCurrent >= tgPoller.offset
    BY <1>0 DEF InBatch, TgTypes, AheadIsFresh
  <1>2. PICK c \in 1 .. Len(tgSent) : c = TgCurrent
    BY <1>1, UpdateAtHand
  <1>3. c \in TgIds /\ c \in Nat /\ Tail(tgPoller.batch) \in Seq(Nat) /\ Len(tgSent) \in Nat
    BY <1>1, <1>2, UpdateAtHand
  <1> DEFINE p == [tgPoller EXCEPT !.offset = c + 1]
  <1>4. /\ p \in TgPollers /\ p.at = "batch" /\ p.offset = c + 1 /\ p.batch = tgPoller.batch
    BY <1>0, <1>1, <1>3 DEF TgPollers
  <1>5. \/ ~Command(c) /\ tgPoller' = Rest(p)
        \/ Command(c) /\ \E a \in {"reply", "call"} : tgPoller' = [p EXCEPT !.at = a]
    BY <1>2 DEF NextUpdate, OffsetAfter
  <1> HIDE DEF p
  <1>6. CASE ~Command(c) /\ tgPoller' = Rest(p)
    <2>1. /\ tgPoller' \in TgPollers /\ tgPoller'.batch = Tail(tgPoller.batch) /\ tgPoller'.offset = c + 1
          /\ tgPoller'.at = IF Len(tgPoller.batch) = 1 THEN "poll" ELSE "batch"
      BY <1>3, <1>4, <1>6 DEF Rest, TgPollers, TgAts
    <2> QED
      BY <1>0, <1>1, <1>2, <1>3, <1>6, <2>1, MovesOn DEF TgPollers
  <1>7. ASSUME NEW a \in {"reply", "call"}, tgPoller' = [p EXCEPT !.at = a] PROVE TgInd'
    <2>1. tgPoller' \in TgPollers /\ tgPoller'.batch = tgPoller.batch /\ tgPoller'.offset = c + 1 /\ tgPoller'.at = a
      BY <1>4, <1>7 DEF TgPollers, TgAts
    <2>2. TgCurrent' = c
      BY <1>2, <2>1 DEF TgCurrent
    <2>3. TgTypes'
      <3>1. tgSent' = tgSent /\ (tgPoller.batch # <<>>) /\ Consecutive(tgPoller.batch)
        BY <1>0, <1>1 DEF TgTypes, InBatch
      <3>2. Consecutive(tgPoller.batch)'
        BY <2>1, <3>1 DEF Consecutive
      <3>3. tgPoller'.offset <= Len(tgSent') + 1
        BY <1>2, <1>3, <2>1, <3>1
      <3> QED
        BY <1>0, <2>1, <3>1, <3>2, <3>3 DEF TgTypes
    <2>4. \A n : DoneTo(n) => DoneTo(n)'
      BY <1>0 DEF DoneTo, Command
    <2>5. DoneTo(tgConfirmed)' /\ (\A v \in tgHandled : DoneTo(v)') /\ (~tgCancelled => DoneTo(TgCurrent - 1)')
      BY <1>0, <1>1, <1>2, <2>2, <2>4 DEF InOrder
    <2>6. InOrder'
      BY <1>0, <2>1, <2>5 DEF InOrder
    <2>7. tgRuns[c] = 0 /\ \A u \in TgIds : u >= c + 1 => tgRuns[u] = 0
      BY <1>0, <1>1, <1>2, <1>3, TelegramAssumption DEF AheadIsFresh, TgIds, TgPollers
    <2>8. AheadIsFresh'
      BY <1>0, <2>1, <2>2, <2>7 DEF AheadIsFresh
    <2> QED
      BY <2>3, <2>6, <2>8
  <1> QED
    BY <1>5, <1>6, <1>7

LEMMA CallKeeps == ASSUME TgInd, CallFails \/ handleCommand PROVE TgInd'
  <1> USE DEF TgInd
  <1>0. /\ tgPoller.at = "call" /\ UNCHANGED <<tgSent, tgConfirmed, tgCancelled, tgHandled>>
        /\ tgFaults' \in 0 .. MaxTgFaults /\ tgPoller' = [tgPoller EXCEPT !.at = "reply"]
    BY TelegramAssumption DEF CallFails, handleCommand, TgFault, TgTypes
  <1>1. PICK c \in TgIds : c = TgCurrent
    BY <1>0, UpdateAtHand DEF InBatch
  <1>2. tgRuns' = tgRuns \/ \E d \in {0, 1} : tgRuns' = [tgRuns EXCEPT ![c] = tgRuns[c] + d]
    BY <1>1 DEF CallFails, handleCommand
  <1>3. tgRuns[c] = 0 /\ tgPoller.offset = c + 1
    BY <1>0, <1>1 DEF AheadIsFresh
  <1>4. /\ tgRuns' \in [TgIds -> Nat] /\ tgRuns'[c] <= 1
        /\ \A u \in TgIds : u # c => tgRuns'[u] = tgRuns[u]
    BY <1>2, <1>3 DEF TgTypes
  <1>5. /\ tgPoller' \in TgPollers /\ tgPoller'.at = "reply" /\ tgPoller'.batch = tgPoller.batch
        /\ tgPoller'.offset = tgPoller.offset /\ TgCurrent' = c
    BY <1>0, <1>1 DEF TgTypes, TgPollers, TgAts, TgCurrent
  <1>6. TgTypes'
    BY <1>0, <1>4, <1>5 DEF TgTypes, Consecutive, InBatch
  <1>7. \A n : DoneTo(n) => DoneTo(n)'
    BY <1>0 DEF DoneTo, Command
  <1>8. DoneTo(tgConfirmed)' /\ (\A v \in tgHandled : DoneTo(v)') /\ (~tgCancelled => DoneTo(TgCurrent - 1)')
    BY <1>0, <1>1, <1>5, <1>7 DEF InOrder, InBatch
  <1>9. InOrder'
    BY <1>0, <1>5, <1>8 DEF InOrder
  <1>10. AheadIsFresh'
    <2>1. \A u \in TgIds : tgRuns'[u] <= 1
      BY <1>4 DEF AheadIsFresh
    <2>2. \A u \in TgIds : u >= tgPoller'.offset => tgRuns'[u] = 0
      BY <1>0, <1>3, <1>4, <1>5, TelegramAssumption DEF AheadIsFresh, TgIds
    <2> QED
      BY <1>3, <1>5, <2>1, <2>2 DEF AheadIsFresh
  <1> QED
    BY <1>6, <1>9, <1>10

LEMMA SendMessageKeeps == ASSUME TgInd, sendMessage PROVE TgInd'
  <1>1. /\ tgPoller.at = "reply" /\ tgPoller' = Rest(tgPoller) /\ Handled(TgCurrent)
        /\ UNCHANGED <<tgSent, tgConfirmed, tgCancelled, tgRuns, tgFaults>>
    BY DEF sendMessage
  <1>2. tgPoller.at \in InBatch /\ tgPoller \in TgPollers /\ tgPoller.offset = TgCurrent + 1
    BY <1>1 DEF InBatch, TgInd, TgTypes, AheadIsFresh
  <1>3. TgCurrent \in Nat /\ Tail(tgPoller.batch) \in Seq(Nat)
    BY <1>2, UpdateAtHand
  <1>4. /\ tgPoller' \in TgPollers /\ tgPoller'.batch = Tail(tgPoller.batch) /\ tgPoller'.offset = TgCurrent + 1
        /\ tgPoller'.at = IF Len(tgPoller.batch) = 1 THEN "poll" ELSE "batch"
    BY <1>1, <1>2, <1>3 DEF Rest, TgPollers, TgAts
  <1>5. /\ tgHandled' = tgHandled \/ (~tgCancelled /\ tgHandled' = tgHandled \cup {TgCurrent})
        /\ ~tgCancelled => TgCurrent \in tgHandled'
    BY <1>1 DEF Handled
  <1> QED
    BY <1>1, <1>2, <1>3, <1>4, <1>5, MovesOn

LEMMA TgIndNext == TgInd /\ [TelegramNext]_tgVars => TgInd'
  <1> SUFFICES ASSUME TgInd, [TelegramNext]_tgVars PROVE TgInd'
    OBVIOUS
  <1>1. CASE \E s \in TgSorts : UserSends(s)
    BY <1>1, UserSendsKeeps
  <1>2. CASE StartTelegram \/ CancelTelegram \/ BridgeProcessEnds \/ BridgeProcessDies
    BY <1>2, LifeKeeps
  <1>3. CASE PollFails \/ BackedOff
    BY <1>3, WaitingKeeps
  <1>4. CASE CallFails \/ handleCommand
    BY <1>4, CallKeeps
  <1>5. CASE getUpdates \/ UpdatesArrive \/ NextUpdate \/ sendMessage
    BY <1>5, GetUpdatesKeeps, UpdatesArriveKeeps, NextUpdateKeeps, SendMessageKeeps
  <1>6. CASE UNCHANGED tgVars
    BY <1>6 DEF tgVars, TgInd, TgTypes, InOrder, AheadIsFresh, DoneTo, Command, TgCurrent, Consecutive
  <1> QED
    BY <1>1, <1>2, <1>3, <1>4, <1>5, <1>6 DEF TelegramNext, PollerSteps

LEMMA TgIndStrong == TgInd => TelegramInv
  <1> SUFFICES ASSUME TgInd PROVE TelegramInv
    OBVIOUS
  <1> USE DEF TgInd
  <1>0. Len(tgSent) \in Nat
    BY LenProperties DEF TgTypes
  <1>1. TelegramTypeOK
    <2>1. \A i \in 1 .. Len(tgPoller.batch) : /\ tgPoller.batch[i] \in 1 .. Len(tgSent)
                                              /\ i > 1 => tgPoller.batch[i] = tgPoller.batch[i - 1] + 1
      <3> SUFFICES ASSUME NEW i \in 1 .. Len(tgPoller.batch), i > 1
                   PROVE  tgPoller.batch[i] = tgPoller.batch[i - 1] + 1
        BY DEF TgTypes, Consecutive
      <3>1. Len(tgPoller.batch) \in Nat
        BY LenProperties DEF TgTypes, TgPollers
      <3>2. i - 1 \in 1 .. Len(tgPoller.batch) /\ 1 \in 1 .. Len(tgPoller.batch)
        BY <3>1
      <3>3. \A j \in 1 .. Len(tgPoller.batch) : tgPoller.batch[j] \in 1 .. Len(tgSent) /\ tgPoller.batch[j] = tgPoller.batch[1] + (j - 1)
        BY DEF TgTypes, Consecutive
      <3>4. tgPoller.batch[i] = tgPoller.batch[1] + (i - 1) /\ tgPoller.batch[i - 1] = tgPoller.batch[1] + ((i - 1) - 1)
        BY <3>2, <3>3
      <3>5. tgPoller.batch[1] \in Int
        BY <3>2, <3>3, <1>0
      <3>6. \A a, n \in Int : a + (n - 1) = (a + ((n - 1) - 1)) + 1
        OBVIOUS
      <3>7. i \in Int
        OBVIOUS
      <3> QED
        BY <3>4, <3>5, <3>6, <3>7
    <2>2. tgHandled \subseteq TgIds /\ tgPoller.offset \in 0 .. Len(tgSent) + 1
      BY <1>0, TelegramAssumption DEF TgTypes, TgIds, TgPollers
    <2> QED
      BY <2>1, <2>2 DEF TgTypes, TelegramTypeOK, TgPollers, TgAts
  <1>2. NoCommandSkipped
    BY <1>0 DEF NoCommandSkipped, InOrder, DoneTo, TgTypes
  <1>3. RunsOncePerLife
    BY DEF RunsOncePerLife, AheadIsFresh
  <1> QED
    BY <1>1, <1>2, <1>3 DEF TelegramInv

(* Telegram's commands are dealt with soundly: whatever users send, and    *)
(* however often polls and calls fail and the bridge is stopped, dies and  *)
(* starts again, a command that Telegram forgot, or that a later handled   *)
(* one overtook, was dealt with, and the server carries out a command at   *)
(* most once in one life of the bridge.                                    *)
THEOREM CommandsAreSound == TelegramSpec => []TelegramInv
  BY TgIndInit, TgIndNext, TgIndStrong, PTL DEF TelegramSpec

-----------------------------------------------------------------------------
(* The feed of events.                                                     *)

EventsFeedSpec == EventsFeedInit /\ [][EventsFeedNext]_feedVars

WsStates == {"off", "ask", "add", "loop", "gone"}
Handles  == {HandleIdle} \cup [at : {"write"}, ev : Nat, todo : SUBSET WsClients]

FdTypes ==
    /\ fdMade \in 0 .. MaxFeedEvents /\ fdQueue \in Seq(1 .. MaxFeedEvents) /\ Len(fdQueue) <= FeedCap
    /\ fdHandle \in Handles /\ fdDone \subseteq Nat /\ fdClients \subseteq WsClients
    /\ fdWs \in [WsClients -> WsStates] /\ fdAsked \in [WsClients -> (SUBSET FeedTypes) \ {{}}]
    /\ fdGot \in [WsClients -> Seq(Nat)] /\ fdSince \in [WsClients -> SUBSET Nat]

Seen == fdDone \cup AtHand

(* Events are handled in the order in which they were made: what waits is  *)
(* ascending and later than what was handled or is at hand.                *)
HandledInOrder ==
    /\ Ascending(fdQueue) /\ \A i \in 1 .. Len(fdQueue) : fdQueue[i] <= fdMade /\ \A e \in Seen : e < fdQueue[i]
    /\ \A e \in Seen : e <= fdMade
    /\ \A e \in fdDone, f \in AtHand : e < f

(* A browser that is not added yet has nothing, and is not written to; one *)
(* that is still to be written to was added before the event at hand.      *)
NotYetAdded(c) == fdWs[c] \in {"off", "ask", "add"}
AddedFirst ==
    /\ \A c \in WsClients : fdSince[c] \subseteq Seen
    /\ \A c \in WsClients : NotYetAdded(c) => fdGot[c] = <<>> /\ (fdHandle.at = "write" => c \notin fdHandle.todo)
    /\ fdHandle.at = "write" => \A c \in fdHandle.todo : fdHandle.ev \notin fdSince[c]
    /\ \A c \in fdClients : fdWs[c] = "loop"

(* What a connected browser received are events that were handled or are   *)
(* at hand.                                                                *)
FdInd == FdTypes /\ HandledInOrder /\ AddedFirst /\ FeedWithoutGaps

LEMMA FdFacts == /\ FeedCap \in Nat /\ MaxFeedEvents \in Nat /\ HandleIdle \in Handles /\ HandleIdle.at = "idle"
                 /\ AllTypes \in (SUBSET FeedTypes) \ {{}}
  BY EventsFeedAssumption DEF HandleIdle, Handles, AllTypes, FeedTypes

LEMMA NothingYet == <<>> \in Seq(Nat) /\ <<>> \in Seq(1 .. MaxFeedEvents) /\ Len(<<>>) = 0 /\ Ascending(<<>>) /\ Range(<<>>) = {}
  <1>1. <<>> \in Seq(Nat) /\ <<>> \in Seq(1 .. MaxFeedEvents) /\ Len(<<>>) = 0
    BY EmptySeq
  <1> QED
    BY <1>1 DEF Ascending, Range

LEMMA HandleValue ==
    ASSUME FdTypes
    PROVE  /\ fdHandle = HandleIdle \/ fdHandle.at = "write"
           /\ fdHandle.at = "write" => /\ fdHandle \in [at : {"write"}, ev : Nat, todo : SUBSET WsClients]
                                       /\ fdHandle # HandleIdle /\ AtHand = {fdHandle.ev}
           /\ fdHandle = HandleIdle => AtHand = {} /\ fdHandle.at # "write"
  <1>1. fdHandle \in Handles
    BY DEF FdTypes
  <1>2. fdHandle.at = "write" => fdHandle # HandleIdle /\ fdHandle \in [at : {"write"}, ev : Nat, todo : SUBSET WsClients]
    BY <1>1, FdFacts DEF Handles
  <1>3. fdHandle = HandleIdle \/ fdHandle.at = "write"
    BY <1>1 DEF Handles
  <1> QED
    BY <1>2, <1>3, FdFacts DEF AtHand

(* A sequence with one more event.                                         *)
LEMMA OneMore ==
    ASSUME NEW q \in Seq(Nat), NEW e \in Nat, Ascending(q), \A x \in Range(q) : x < e
    PROVE  /\ Append(q, e) \in Seq(Nat) /\ Range(Append(q, e)) = Range(q) \cup {e} /\ Ascending(Append(q, e))
  <1>1. /\ Append(q, e) \in Seq(Nat) /\ Len(Append(q, e)) = Len(q) + 1 /\ Len(q) \in Nat
        /\ \A i \in 1 .. Len(q) : Append(q, e)[i] = q[i]
        /\ Append(q, e)[Len(q) + 1] = e
    BY AppendProperties, LenProperties
  <1>2. DOMAIN q = 1 .. Len(q) /\ DOMAIN Append(q, e) = 1 .. Len(q) + 1
    BY <1>1, LenProperties
  <1>3. Range(Append(q, e)) = Range(q) \cup {e}
    <2>1. \A i \in 1 .. Len(q) + 1 : i \in 1 .. Len(q) \/ i = Len(q) + 1
      BY <1>1
    <2>2. 1 .. Len(q) \subseteq 1 .. Len(q) + 1 /\ Len(q) + 1 \in 1 .. Len(q) + 1
      BY <1>1
    <2> QED
      BY <1>1, <1>2, <2>1, <2>2, Zenon DEF Range
  <1>4. Ascending(Append(q, e))
    <2> SUFFICES ASSUME NEW i \in 1 .. Len(q) + 1, NEW j \in 1 .. Len(q) + 1, i < j PROVE Append(q, e)[i] < Append(q, e)[j]
      BY <1>1 DEF Ascending
    <2>1. i \in 1 .. Len(q) /\ q[i] \in Range(q)
      BY <1>1, <1>2 DEF Range
    <2>2. CASE j = Len(q) + 1
      BY <1>1, <2>1, <2>2
    <2>3. CASE j \in 1 .. Len(q)
      BY <1>1, <2>1, <2>3 DEF Ascending
    <2> QED
      BY <1>1, <2>2, <2>3
  <1> QED
    BY <1>1, <1>3, <1>4

LEMMA FdIndInit == EventsFeedInit => FdInd
  <1> SUFFICES ASSUME EventsFeedInit PROVE FdInd
    OBVIOUS
  <1>1. /\ fdQueue = <<>> /\ fdHandle = HandleIdle /\ fdDone = {} /\ fdClients = {} /\ fdMade = 0
        /\ fdWs \in [WsClients -> WsStates] /\ fdAsked \in [WsClients -> (SUBSET FeedTypes) \ {{}}]
        /\ fdGot \in [WsClients -> Seq(Nat)] /\ fdSince \in [WsClients -> SUBSET Nat]
        /\ \A c \in WsClients : fdGot[c] = <<>> /\ fdSince[c] = {}
    BY FdFacts, NothingYet DEF EventsFeedInit, WsStates
  <1>2. FdTypes
    BY <1>1, FdFacts, NothingYet DEF FdTypes
  <1>3. Seen = {} /\ AtHand = {} /\ fdHandle.at # "write"
    BY <1>1, <1>2, HandleValue DEF Seen
  <1>4. HandledInOrder /\ AddedFirst /\ FeedWithoutGaps
    BY <1>1, <1>3, NothingYet DEF HandledInOrder, AddedFirst, FeedWithoutGaps
  <1> QED
    BY <1>2, <1>4 DEF FdInd

-----------------------------------------------------------------------------
(* The browsers' connections. *)

(* A step of one browser's handler.                                        *)
LEMMA BrowserStep ==
    ASSUME FdInd, NEW c \in WsClients, UNCHANGED queueVars, UNCHANGED fdGot, FdTypes',
           \A d \in WsClients : d # c => fdWs'[d] = fdWs[d] /\ fdAsked'[d] = fdAsked[d] /\ fdSince'[d] = fdSince[d],
           \A d \in fdClients' : d # c => d \in fdClients,  fdCut \subseteq fdCut',
           c \in fdClients' => fdWs'[c] = "loop",
           fdSince'[c] = fdSince[c] \/ (NotYetAdded(c) /\ fdSince'[c] = Seen),
           NotYetAdded(c)' => NotYetAdded(c),
           c \in fdClients' \ fdCut' =>
              ((c \in fdClients /\ fdAsked'[c] = fdAsked[c] /\ fdSince'[c] = fdSince[c]) \/ (NotYetAdded(c) /\ fdSince'[c] = Seen))
    PROVE  FdInd'
  <1> USE DEF FdInd
  <1>1. UNCHANGED <<fdMade, fdQueue, fdHandle, fdDone>>
    BY DEF queueVars
  <1>2. Seen' = Seen /\ AtHand' = AtHand
    BY <1>1 DEF Seen, AtHand
  <1>3. HandledInOrder'
    BY <1>1, <1>2 DEF HandledInOrder, Ascending
  <1>4. AddedFirst'
    <2>1. \A d \in WsClients : fdSince'[d] \subseteq Seen
      BY DEF AddedFirst
    <2>2. \A d \in WsClients : NotYetAdded(d)' => NotYetAdded(d)
      BY DEF NotYetAdded
    <2>3. fdHandle.at = "write" => \A d \in fdHandle.todo : fdSince'[d] = fdSince[d]
      BY HandleValue DEF AddedFirst
    <2>4. \A d \in fdClients' : fdWs'[d] = "loop"
      BY DEF AddedFirst, FdTypes
    <2> QED
      BY <1>1, <1>2, <2>1, <2>2, <2>3, <2>4 DEF AddedFirst
  <1>5. FeedWithoutGaps'
    <2> SUFFICES ASSUME NEW d \in fdClients', d \notin fdCut' PROVE Range(fdGot[d]) = Due(d)' /\ Ascending(fdGot[d])
      BY DEF FeedWithoutGaps, Ascending
    <2>0. d \in WsClients
      BY DEF FdTypes
    <2>1. CASE d \in fdClients /\ fdAsked'[d] = fdAsked[d] /\ fdSince'[d] = fdSince[d]
      <3>1. Due(d)' = Due(d)
        BY <1>1, <1>2, <2>1 DEF Due, clientMatchesEvent
      <3> QED
        BY <2>1, <3>1 DEF FeedWithoutGaps
    <2>2. CASE d = c /\ NotYetAdded(c) /\ fdSince'[c] = Seen
      <3>1. Due(d)' = {}
        BY <1>1, <1>2, <2>2 DEF Due, Seen
      <3>2. fdGot[d] = <<>>
        BY <2>2 DEF AddedFirst
      <3> QED
        BY <3>1, <3>2, NothingYet
    <2> QED
      BY <2>0, <2>1, <2>2
  <1> QED
    BY <1>3, <1>4, <1>5

LEMMA WsKeeps ==
    ASSUME FdInd, NEW c \in WsClients,
           \/ HandleEventsWS(c) \/ EventsLoop(c) \/ runEventsLoop(c) \/ WsBreaks(c)
           \/ \E S \in SUBSET FeedTypes : Negotiated(c, S)
    PROVE  FdInd'
  <1> USE DEF FdInd
  <1>0. UNCHANGED queueVars /\ UNCHANGED fdGot /\ UNCHANGED <<fdMade, fdQueue, fdHandle, fdDone>>
    BY DEF HandleEventsWS, EventsLoop, runEventsLoop, WsBreaks, Negotiated, queueVars
  <1>1. ASSUME NEW w \in WsStates, fdWs' = [fdWs EXCEPT ![c] = w]
        PROVE  fdWs' \in [WsClients -> WsStates] /\ fdWs'[c] = w /\ \A d \in WsClients : d # c => fdWs'[d] = fdWs[d]
    BY <1>1 DEF FdTypes
  <1>2. CASE HandleEventsWS(c)
    <2>1. fdWs[c] = "off" /\ fdWs' = [fdWs EXCEPT ![c] = "ask"] /\ UNCHANGED <<fdClients, fdAsked, fdCut, fdSince>>
      BY <1>2 DEF HandleEventsWS
    <2>2. fdWs' \in [WsClients -> WsStates] /\ fdWs'[c] = "ask" /\ \A d \in WsClients : d # c => fdWs'[d] = fdWs[d]
      BY <1>1, <2>1 DEF WsStates
    <2>3. c \notin fdClients /\ NotYetAdded(c)
      BY <2>1 DEF AddedFirst, NotYetAdded
    <2>4. FdTypes'
      BY <1>0, <2>1, <2>2 DEF FdTypes
    <2> QED
      BY <1>0, <2>1, <2>2, <2>3, <2>4, BrowserStep
  <1>3. CASE \E S \in SUBSET FeedTypes : Negotiated(c, S)
    <2>1. PICK S \in SUBSET FeedTypes : Negotiated(c, S)
      BY <1>3
    <2>2. /\ fdWs[c] = "ask" /\ fdWs' = [fdWs EXCEPT ![c] = "add"]
          /\ fdAsked' = [fdAsked EXCEPT ![c] = negotiatePatterns(S)] /\ UNCHANGED <<fdClients, fdCut, fdSince>>
      BY <2>1 DEF Negotiated
    <2>3. fdWs' \in [WsClients -> WsStates] /\ fdWs'[c] = "add" /\ \A d \in WsClients : d # c => fdWs'[d] = fdWs[d]
      BY <1>1, <2>2 DEF WsStates
    <2>4. c \notin fdClients /\ NotYetAdded(c)
      BY <2>2 DEF AddedFirst, NotYetAdded
    <2>5. negotiatePatterns(S) \in (SUBSET FeedTypes) \ {{}}
      BY FdFacts DEF negotiatePatterns
    <2>6. fdAsked' \in [WsClients -> (SUBSET FeedTypes) \ {{}}] /\ \A d \in WsClients : d # c => fdAsked'[d] = fdAsked[d]
      BY <2>2, <2>5 DEF FdTypes
    <2>7. FdTypes'
      BY <1>0, <2>2, <2>3, <2>6 DEF FdTypes
    <2> QED
      BY <1>0, <2>2, <2>3, <2>4, <2>6, <2>7, BrowserStep
  <1>4. CASE EventsLoop(c)
    <2>1. /\ fdWs[c] = "add" /\ fdWs' = [fdWs EXCEPT ![c] = "loop"] /\ fdClients' = fdClients \cup {c}
          /\ fdSince' = [fdSince EXCEPT ![c] = Seen] /\ UNCHANGED <<fdAsked, fdCut>>
      BY <1>4 DEF EventsLoop, AddClient, Seen
    <2>2. fdWs' \in [WsClients -> WsStates] /\ fdWs'[c] = "loop" /\ \A d \in WsClients : d # c => fdWs'[d] = fdWs[d]
      BY <1>1, <2>1 DEF WsStates
    <2>3. NotYetAdded(c)
      BY <2>1 DEF NotYetAdded
    <2>4. Seen \subseteq Nat
      BY HandleValue DEF Seen, FdTypes
    <2>5. /\ fdSince' \in [WsClients -> SUBSET Nat] /\ fdSince'[c] = Seen
          /\ \A d \in WsClients : d # c => fdSince'[d] = fdSince[d]
      BY <2>1, <2>4 DEF FdTypes
    <2>6. FdTypes'
      BY <1>0, <2>1, <2>2, <2>5 DEF FdTypes
    <2>7. ~NotYetAdded(c)'
      BY <2>2 DEF NotYetAdded
    <2> QED
      BY <1>0, <2>1, <2>2, <2>3, <2>5, <2>6, <2>7, BrowserStep
  <1>5. CASE runEventsLoop(c)
    <2>1. fdWs' = [fdWs EXCEPT ![c] = "gone"] /\ fdClients' = fdClients \ {c} /\ UNCHANGED <<fdAsked, fdCut, fdSince>>
      BY <1>5 DEF runEventsLoop, RemoveClient
    <2>2. fdWs' \in [WsClients -> WsStates] /\ fdWs'[c] = "gone" /\ \A d \in WsClients : d # c => fdWs'[d] = fdWs[d]
      BY <1>1, <2>1 DEF WsStates
    <2>3. FdTypes'
      BY <1>0, <2>1, <2>2 DEF FdTypes
    <2>4. ~NotYetAdded(c)'
      BY <2>2 DEF NotYetAdded
    <2> QED
      BY <1>0, <2>1, <2>2, <2>3, <2>4, BrowserStep
  <1>6. CASE WsBreaks(c)
    <2>1. fdCut' = fdCut \cup {c} /\ UNCHANGED <<fdClients, fdWs, fdAsked, fdSince>>
      BY <1>6 DEF WsBreaks
    <2>2. FdTypes'
      BY <1>0, <2>1 DEF FdTypes
    <2>3. NotYetAdded(c)' = NotYetAdded(c) /\ (c \in fdClients => fdWs[c] = "loop")
      BY <2>1 DEF NotYetAdded, AddedFirst
    <2> QED
      BY <1>0, <2>1, <2>2, <2>3, BrowserStep
  <1> QED
    BY <1>2, <1>3, <1>4, <1>5, <1>6

-----------------------------------------------------------------------------
(* The fan-out. *)

LEMMA QueueElements == ASSUME FdTypes PROVE \A i \in 1 .. Len(fdQueue) : fdQueue[i] \in Nat
  <1>1. \A i \in 1 .. Len(fdQueue) : fdQueue[i] \in 1 .. MaxFeedEvents
    BY ElementOfSeq DEF FdTypes
  <1> QED
    BY <1>1

(* The first event of a queue and the rest.                                *)
LEMMA FirstAndRest ==
    ASSUME NEW S, NEW q \in Seq(S), q # <<>>
    PROVE  /\ Head(q) = q[1] /\ Head(q) \in S /\ Tail(q) \in Seq(S)
           /\ Len(Tail(q)) = Len(q) - 1 /\ Len(q) \in Nat /\ 1 \in 1 .. Len(q)
           /\ \A i \in 1 .. Len(Tail(q)) : Tail(q)[i] = q[i + 1] /\ i + 1 \in 1 .. Len(q)
  <1>1. Head(q) \in S /\ Tail(q) \in Seq(S) /\ Len(Tail(q)) = Len(q) - 1
    BY HeadTailProperties
  <1>2. Len(q) \in Nat /\ Len(q) # 0
    BY LenProperties, EmptySeq
  <1>3. Head(q) = q[1] /\ \A i \in 1 .. Len(Tail(q)) : Tail(q)[i] = q[i + 1]
    BY <1>1, <1>2, HeadTailProperties
  <1> QED
    BY <1>1, <1>2, <1>3

LEMMA FeedPublishKeeps == ASSUME FdInd, FeedPublish PROVE FdInd'
  <1> USE DEF FdInd
  <1>0. /\ fdMade < MaxFeedEvents /\ fdMade' = fdMade + 1
        /\ fdQueue' = fdQueue \/ (Len(fdQueue) < FeedCap /\ fdQueue' = Append(fdQueue, fdMade + 1))
        /\ UNCHANGED <<fdHandle, fdDone, fdClients, fdWs, fdAsked, fdCut, fdGot, fdSince>>
    BY DEF FeedPublish, wsVars
  <1>1. Seen' = Seen /\ AtHand' = AtHand
    BY <1>0 DEF Seen, AtHand
  <1>2. fdMade \in Nat /\ fdMade + 1 \in 1 .. MaxFeedEvents /\ Len(fdQueue) \in Nat
    BY <1>0, FdFacts, LenProperties DEF FdTypes
  <1>3. /\ Append(fdQueue, fdMade + 1) \in Seq(1 .. MaxFeedEvents) /\ Len(Append(fdQueue, fdMade + 1)) = Len(fdQueue) + 1
        /\ \A i \in 1 .. Len(fdQueue) : Append(fdQueue, fdMade + 1)[i] = fdQueue[i]
        /\ Append(fdQueue, fdMade + 1)[Len(fdQueue) + 1] = fdMade + 1
    BY <1>2, AppendProperties DEF FdTypes
  <1>4. FdTypes'
    <2>1. fdQueue' \in Seq(1 .. MaxFeedEvents) /\ Len(fdQueue') <= FeedCap
      <3>1. CASE fdQueue' = fdQueue
        BY <3>1 DEF FdTypes
      <3>2. CASE Len(fdQueue) < FeedCap /\ fdQueue' = Append(fdQueue, fdMade + 1)
        <4>1. fdQueue' \in Seq(1 .. MaxFeedEvents) /\ Len(fdQueue') = Len(fdQueue) + 1
          BY <1>3, <3>2
        <4>2. Len(fdQueue) + 1 <= FeedCap
          BY <1>2, <3>2, FdFacts
        <4> QED
          BY <4>1, <4>2
      <3> QED
        BY <1>0, <3>1, <3>2
    <2>2. fdMade' \in 0 .. MaxFeedEvents
      BY <1>0, <1>2
    <2> QED
      BY <1>0, <2>1, <2>2 DEF FdTypes
  <1>5. HandledInOrder'
    <2>0. Seen \subseteq Nat
      BY HandleValue DEF Seen, FdTypes
    <2>1. ASSUME fdQueue' = fdQueue PROVE HandledInOrder'
      <3>1. \A i \in 1 .. Len(fdQueue) : fdQueue[i] \in Nat
        BY QueueElements
      <3> QED
        BY <1>0, <1>1, <1>2, <2>0, <2>1, <3>1 DEF HandledInOrder, Ascending
    <2>2. ASSUME fdQueue' = Append(fdQueue, fdMade + 1) PROVE HandledInOrder'
      <3>1. \A i \in 1 .. Len(fdQueue) : fdQueue[i] \in Nat
        BY QueueElements
      <3>2. \A i \in 1 .. Len(fdQueue') : (i \in 1 .. Len(fdQueue) /\ fdQueue'[i] = fdQueue[i]) \/ (i = Len(fdQueue) + 1 /\ fdQueue'[i] = fdMade + 1)
        BY <1>2, <1>3, <2>2
      <3>3. Ascending(fdQueue)'
        BY <1>2, <3>1, <3>2 DEF HandledInOrder, Ascending
      <3>4. \A i \in 1 .. Len(fdQueue') : fdQueue'[i] <= fdMade' /\ \A e \in Seen : e < fdQueue'[i]
        BY <1>0, <1>2, <2>0, <3>1, <3>2 DEF HandledInOrder
      <3> QED
        BY <1>0, <1>1, <1>2, <2>0, <3>3, <3>4 DEF HandledInOrder
    <2> QED
      BY <1>0, <2>1, <2>2
  <1>6. AddedFirst'
    BY <1>0, <1>1 DEF AddedFirst, NotYetAdded
  <1>7. FeedWithoutGaps'
    BY <1>0, <1>1 DEF FeedWithoutGaps, Due, clientMatchesEvent, Ascending
  <1> QED
    BY <1>4, <1>5, <1>6, <1>7

LEMMA HandleEventKeeps == ASSUME FdInd, handleEvent PROVE FdInd'
  <1> USE DEF FdInd
  <1> DEFINE e == Head(fdQueue)
  <1>0. /\ fdHandle = HandleIdle /\ fdQueue # <<>> /\ fdHandle' = [at |-> "write", ev |-> e, todo |-> fdClients]
        /\ fdQueue' = Tail(fdQueue) /\ UNCHANGED <<fdMade, fdDone, fdClients, fdWs, fdAsked, fdCut, fdGot, fdSince>>
    BY DEF handleEvent, wsVars
  <1>1. /\ e = fdQueue[1] /\ e \in 1 .. MaxFeedEvents /\ Tail(fdQueue) \in Seq(1 .. MaxFeedEvents)
        /\ Len(Tail(fdQueue)) = Len(fdQueue) - 1 /\ Len(fdQueue) \in Nat /\ 1 \in 1 .. Len(fdQueue)
        /\ \A i \in 1 .. Len(Tail(fdQueue)) : Tail(fdQueue)[i] = fdQueue[i + 1] /\ i + 1 \in 1 .. Len(fdQueue)
    <2>1. fdQueue \in Seq(1 .. MaxFeedEvents)
      BY DEF FdTypes
    <2> QED
      BY <1>0, <2>1, FirstAndRest
  <1> HIDE DEF e
  <1>2. /\ fdHandle' \in [at : {"write"}, ev : Nat, todo : SUBSET WsClients]
        /\ fdHandle'.at = "write" /\ fdHandle'.ev = e /\ fdHandle'.todo = fdClients
    BY <1>0, <1>1 DEF FdTypes
  <1>3. FdTypes'
    <2>1. fdQueue' \in Seq(1 .. MaxFeedEvents) /\ Len(fdQueue') <= FeedCap
      BY <1>0, <1>1, FdFacts DEF FdTypes
    <2>2. fdHandle' \in Handles
      BY <1>2 DEF Handles
    <2> QED
      BY <1>0, <2>1, <2>2 DEF FdTypes
  <1>4. AtHand = {} /\ Seen = fdDone /\ AtHand' = {e} /\ Seen' = fdDone \cup {e}
    <2>1. AtHand = {}
      BY <1>0, HandleValue
    <2>2. fdHandle' # HandleIdle
      BY <1>2, FdFacts
    <2> QED
      BY <1>0, <1>2, <2>1, <2>2 DEF AtHand, Seen
  <1>5. e \in Nat /\ e <= fdMade /\ \A x \in fdDone : x < e
    BY <1>1, <1>4 DEF HandledInOrder
  <1>6. HandledInOrder'
    <2>1. Ascending(fdQueue)'
      <3> SUFFICES ASSUME NEW i \in 1 .. Len(Tail(fdQueue)), NEW j \in 1 .. Len(Tail(fdQueue)), i < j
                   PROVE  Tail(fdQueue)[i] < Tail(fdQueue)[j]
        BY <1>0 DEF Ascending
      <3> QED
        BY <1>1 DEF HandledInOrder, Ascending
    <2>2. \A i \in 1 .. Len(fdQueue') : fdQueue'[i] <= fdMade /\ \A x \in Seen' : x < fdQueue'[i]
      <3> SUFFICES ASSUME NEW i \in 1 .. Len(Tail(fdQueue))
                   PROVE  fdQueue[i + 1] <= fdMade /\ \A x \in fdDone \cup {e} : x < fdQueue[i + 1]
        BY <1>0, <1>1, <1>4
      <3>1. i + 1 \in 1 .. Len(fdQueue) /\ 1 < i + 1
        BY <1>1
      <3> QED
        BY <1>1, <1>4, <3>1 DEF HandledInOrder, Ascending
    <2> QED
      BY <1>0, <1>4, <1>5, <2>1, <2>2 DEF HandledInOrder
  <1>7. AddedFirst'
    <2>1. \A c \in WsClients : NotYetAdded(c)' => fdGot[c] = <<>> /\ c \notin fdClients
      BY <1>0 DEF AddedFirst, NotYetAdded
    <2>2. \A c \in WsClients : fdSince[c] \subseteq fdDone
      BY <1>4 DEF AddedFirst
    <2>3. \A c \in fdClients : e \notin fdSince[c]
      BY <1>5, <2>2 DEF FdTypes
    <2> QED
      BY <1>0, <1>2, <1>4, <2>1, <2>2, <2>3 DEF AddedFirst
  <1>8. FeedWithoutGaps'
    <2> SUFFICES ASSUME NEW c \in fdClients, c \notin fdCut PROVE Range(fdGot[c]) = Due(c)' /\ Ascending(fdGot[c])
      BY <1>0 DEF FeedWithoutGaps, Ascending
    <2>1. fdHandle.at # "write"
      BY <1>0, FdFacts
    <2>2. Due(c)' = Due(c)
      BY <1>0, <1>2, <1>4, <2>1 DEF Due, clientMatchesEvent
    <2> QED
      BY <2>2 DEF FeedWithoutGaps
  <1> QED
    BY <1>3, <1>6, <1>7, <1>8

(* A browser that is written to has received only earlier events.          *)
LEMMA GotEarlier ==
    ASSUME FdInd, fdHandle.at = "write", NEW c \in fdClients, c \notin fdCut, c \in fdHandle.todo
    PROVE  \A x \in Range(fdGot[c]) : x < fdHandle.ev
  <1>1. Range(fdGot[c]) = Due(c) /\ AtHand = {fdHandle.ev}
    BY HandleValue DEF FdInd, FeedWithoutGaps
  <1>2. Due(c) \subseteq fdDone
    BY DEF Due
  <1> QED
    BY <1>1, <1>2 DEF FdInd, HandledInOrder

LEMMA WriteEventKeeps == ASSUME FdInd, NEW c \in WsClients, WriteEvent(c) PROVE FdInd'
  <1> USE DEF FdInd
  <1> DEFINE e == fdHandle.ev
             rest == fdHandle.todo \ {c}
  <1>0. /\ fdHandle.at = "write" /\ c \in fdHandle.todo /\ fdHandle' = [fdHandle EXCEPT !.todo = rest]
        /\ UNCHANGED <<fdMade, fdQueue, fdDone, fdWs, fdAsked, fdCut, fdSince>>
    BY DEF WriteEvent
  <1>1. /\ fdHandle \in [at : {"write"}, ev : Nat, todo : SUBSET WsClients] /\ AtHand = {e} /\ e \in Nat
    BY <1>0, HandleValue
  <1>2. /\ fdHandle' \in [at : {"write"}, ev : Nat, todo : SUBSET WsClients]
        /\ fdHandle'.at = "write" /\ fdHandle'.ev = e /\ fdHandle'.todo = rest
    BY <1>0, <1>1
  <1>3. \/ ~clientMatchesEvent(c, e) /\ UNCHANGED <<fdGot, fdClients>>
        \/ c \in fdCut /\ fdClients' = fdClients \ {c} /\ fdGot' = fdGot
        \/ c \notin fdCut /\ clientMatchesEvent(c, e) /\ fdGot' = [fdGot EXCEPT ![c] = Append(fdGot[c], e)] /\ fdClients' = fdClients
    BY DEF WriteEvent, RemoveClient
  <1>4. AtHand' = {e} /\ Seen' = Seen /\ AtHand' = AtHand
    <2>1. fdHandle' # HandleIdle
      BY <1>2, FdFacts
    <2> QED
      BY <1>0, <1>1, <1>2, <2>1 DEF AtHand, Seen
  <1>5. fdGot[c] \in Seq(Nat) /\ Append(fdGot[c], e) \in Seq(Nat)
    BY <1>1, AppendProperties DEF FdTypes
  <1>6. /\ fdGot' \in [WsClients -> Seq(Nat)] /\ fdClients' \subseteq fdClients
        /\ \A d \in WsClients : d # c => fdGot'[d] = fdGot[d]
    BY <1>3, <1>5 DEF FdTypes
  <1>7. FdTypes'
    <2>1. fdHandle' \in Handles
      BY <1>2 DEF Handles
    <2> QED
      BY <1>0, <1>6, <2>1 DEF FdTypes
  <1>8. HandledInOrder'
    BY <1>0, <1>4 DEF HandledInOrder, Ascending
  <1>9. AddedFirst'
    <2>1. ~NotYetAdded(c)
      BY <1>0 DEF AddedFirst
    <2>2. \A d \in WsClients : NotYetAdded(d)' => NotYetAdded(d) /\ d # c
      BY <1>0, <2>1 DEF NotYetAdded
    <2>3. \A d \in WsClients : NotYetAdded(d)' => fdGot'[d] = <<>> /\ d \notin rest
      BY <1>0, <1>6, <2>2 DEF AddedFirst
    <2>4. \A d \in rest : e \notin fdSince[d]
      BY <1>0 DEF AddedFirst
    <2> QED
      BY <1>0, <1>2, <1>4, <1>6, <2>3, <2>4 DEF AddedFirst
  <1>10. FeedWithoutGaps'
    <2> SUFFICES ASSUME NEW d \in fdClients', d \notin fdCut PROVE Range(fdGot'[d]) = Due(d)' /\ Ascending(fdGot'[d])
      BY <1>0 DEF FeedWithoutGaps, Ascending
    <2>0. d \in fdClients /\ d \in WsClients /\ Range(fdGot[d]) = Due(d) /\ Ascending(fdGot[d])
      BY <1>6 DEF FeedWithoutGaps, FdTypes
    <2>1. CASE d # c
      <3>1. Due(d)' = Due(d)
        BY <1>0, <1>2, <1>4, <2>1 DEF Due, clientMatchesEvent
      <3> QED
        BY <1>6, <2>0, <2>1, <3>1
    <2>2. CASE d = c
      <3>1. e \notin fdSince[c]
        BY <1>0 DEF AddedFirst
      <3>2. Due(c) = {x \in fdDone \ fdSince[c] : clientMatchesEvent(c, x)}
        BY <1>0 DEF Due
      <3>3. Due(c)' = Due(c) \cup (IF clientMatchesEvent(c, e) THEN {e} ELSE {})
        BY <1>0, <1>2, <1>4, <3>1, <3>2 DEF Due, clientMatchesEvent
      <3>4. CASE ~clientMatchesEvent(c, e) /\ fdGot' = fdGot
        BY <2>0, <2>2, <3>3, <3>4
      <3>5. CASE clientMatchesEvent(c, e) /\ fdGot' = [fdGot EXCEPT ![c] = Append(fdGot[c], e)]
        <4>1. fdGot'[c] = Append(fdGot[c], e)
          BY <3>5 DEF FdTypes
        <4>2. \A x \in Range(fdGot[c]) : x < e
          BY <1>0, <2>0, <2>2, GotEarlier
        <4>3. Range(Append(fdGot[c], e)) = Range(fdGot[c]) \cup {e} /\ Ascending(Append(fdGot[c], e))
          BY <1>1, <1>5, <2>0, <2>2, <4>2, OneMore
        <4> QED
          BY <2>0, <2>2, <3>3, <3>5, <4>1, <4>3
      <3> QED
        BY <1>3, <2>2, <3>4, <3>5
    <2> QED
      BY <2>1, <2>2
  <1> QED
    BY <1>7, <1>8, <1>9, <1>10

LEMMA HandleReturnsKeeps == ASSUME FdInd, handleReturns PROVE FdInd'
  <1> USE DEF FdInd
  <1>0. /\ fdHandle.at = "write" /\ fdHandle.todo = {} /\ fdHandle' = HandleIdle /\ fdDone' = fdDone \cup {fdHandle.ev}
        /\ UNCHANGED <<fdMade, fdQueue, fdClients, fdWs, fdAsked, fdCut, fdGot, fdSince>>
    BY DEF handleReturns, wsVars
  <1>1. AtHand = {fdHandle.ev} /\ fdHandle.ev \in Nat
    BY <1>0, HandleValue
  <1>2. AtHand' = {} /\ Seen' = Seen
    BY <1>0, <1>1 DEF AtHand, Seen
  <1>3. FdTypes'
    BY <1>0, <1>1, FdFacts DEF FdTypes
  <1>4. HandledInOrder'
    BY <1>0, <1>2 DEF HandledInOrder, Ascending
  <1>5. fdHandle'.at # "write"
    BY <1>0, FdFacts
  <1>6. AddedFirst'
    BY <1>0, <1>2, <1>5 DEF AddedFirst, NotYetAdded
  <1>7. FeedWithoutGaps'
    <2> SUFFICES ASSUME NEW c \in fdClients, c \notin fdCut PROVE Range(fdGot[c]) = Due(c)' /\ Ascending(fdGot[c])
      BY <1>0 DEF FeedWithoutGaps, Ascending
    <2>1. Due(c)' = Due(c)
      BY <1>0, <1>1, <1>5 DEF Due, clientMatchesEvent
    <2> QED
      BY <2>1 DEF FeedWithoutGaps
  <1> QED
    BY <1>3, <1>4, <1>6, <1>7

LEMMA CloseFeedKeeps == ASSUME FdInd, CloseFeed PROVE FdInd'
  <1> USE DEF FdInd
  <1>0. /\ fdQueue' = <<>> /\ fdClients' = {} /\ UNCHANGED <<fdMade, fdHandle, fdDone, fdWs, fdAsked, fdGot, fdSince>>
    BY DEF CloseFeed
  <1>1. AtHand' = AtHand /\ Seen' = Seen
    BY <1>0 DEF AtHand, Seen
  <1>2. FdTypes'
    BY <1>0, FdFacts, NothingYet DEF FdTypes
  <1>3. HandledInOrder'
    <2>1. Ascending(fdQueue)' /\ 1 .. Len(fdQueue') = {}
      BY <1>0, NothingYet DEF Ascending
    <2> QED
      BY <1>0, <1>1, <2>1 DEF HandledInOrder
  <1>4. AddedFirst' /\ FeedWithoutGaps'
    BY <1>0, <1>1 DEF AddedFirst, NotYetAdded, FeedWithoutGaps
  <1> QED
    BY <1>2, <1>3, <1>4

LEMMA FdIndNext == FdInd /\ [EventsFeedNext]_feedVars => FdInd'
  <1> SUFFICES ASSUME FdInd, [EventsFeedNext]_feedVars PROVE FdInd'
    OBVIOUS
  <1>1. CASE FeedPublish \/ CloseFeed \/ handleEvent \/ handleReturns
    BY <1>1, FeedPublishKeeps, CloseFeedKeeps, HandleEventKeeps, HandleReturnsKeeps
  <1>2. ASSUME NEW c \in WsClients, WriteEvent(c) PROVE FdInd'
    BY <1>2, WriteEventKeeps
  <1>3. ASSUME NEW c \in WsClients,
               \/ HandleEventsWS(c) \/ EventsLoop(c) \/ runEventsLoop(c) \/ WsBreaks(c)
               \/ \E S \in SUBSET FeedTypes : Negotiated(c, S)
        PROVE  FdInd'
    BY <1>3, WsKeeps
  <1>4. CASE UNCHANGED feedVars
    BY <1>4 DEF feedVars, FdInd, FdTypes, HandledInOrder, AddedFirst, NotYetAdded, FeedWithoutGaps, Due, Seen, AtHand,
                clientMatchesEvent, Ascending
  <1>5. {} \in SUBSET FeedTypes
    OBVIOUS
  <1> QED
    BY <1>1, <1>2, <1>3, <1>4, <1>5 DEF EventsFeedNext, FanoutGoesOn, WsGoesOn

(* The events feed is sound: with any number of browsers and events, a     *)
(* connected browser has received, in their order and without a gap, the   *)
(* events it asked for that were handled since it was added, whatever      *)
(* happens to the connections of the others, and the queue of the fan-out  *)
(* keeps to its capacity.                                                  *)
THEOREM FeedIsSound == EventsFeedSpec => []EventsFeedInv
  <1>1. FdInd => EventsFeedInv
    BY DEF FdInd, FdTypes, AddedFirst, EventsFeedInv, EventsFeedTypeOK, WsStates
  <1> QED
    BY <1>1, FdIndInit, FdIndNext, PTL DEF EventsFeedSpec

-----------------------------------------------------------------------------
(* Logging.                                                                *)

LoggingSpec == LoggingInit /\ [][LoggingNext]_logVars

FlushSteps == {NoFlush, [at |-> "due"], [at |-> "post"]} \cup [at : {"taken"}, batch : Seq(LogRecs)]
PostSteps  == [todo : Seq(LogRecs), stored : BOOLEAN]

LgTypes ==
    /\ lgMade \in 0 .. MaxRecords /\ lgSink \in Seq(LogRecs) /\ Len(lgSink) <= SinkCap
    /\ lgBuf \in Seq(LogRecs) /\ fwBuf \in Seq(LogRecs) /\ lgWriter \in {"run", "drain", "gone"}
    /\ lgRows \subseteq LogRecs
    /\ fwFlush \in [Flushers -> FlushSteps] /\ fwPosts \subseteq PostSteps /\ \A p \in fwPosts : p.todo # <<>>
    /\ \A f \in Flushers : fwFlush[f].at = "taken" => fwFlush[f].batch # <<>>
    /\ vwChan \in [Viewers -> Seq(LogRecs)] /\ \A v \in Viewers : Len(vwChan[v]) <= ViewCap
    /\ vwAt \in [Viewers -> {"off", "wait", "loop", "ending"}]
    /\ IsFiniteSet(lgSubs) /\ Cardinality(lgSubs) <= MaxSubs /\ SubscribersOpen

(* Record r is in place x of kind k: a buffer, the table, the dropped, the *)
(* batch of a flusher, or a post that is not stored yet.                   *)
At(r, k, x) ==
    \/ k = "sink" /\ x = "one" /\ r \in Range(lgSink)
    \/ k = "buf" /\ x = "one" /\ r \in Range(lgBuf)
    \/ k = "fwbuf" /\ x = "one" /\ r \in Range(fwBuf)
    \/ k = "rows" /\ x = "one" /\ r \in lgRows
    \/ k = "dropped" /\ x = "one" /\ r \in lgDropped
    \/ k = "taken" /\ x \in Flushers /\ fwFlush[x].at = "taken" /\ r \in Range(fwFlush[x].batch)
    \/ k = "posts" /\ x \in fwPosts /\ ~x.stored /\ r \in Range(x.todo)

(* Every record that was made is in exactly one place, and no other is.    *)
OnePlace ==
    /\ \A r \in 1 .. lgMade : \E k, x : \A j, y : At(r, j, y) <=> (j = k /\ y = x)
    /\ \A r, k, x : At(r, k, x) => r \in 1 .. lgMade

NoTwins(q) == \A i, j \in 1 .. Len(q) : q[i] = q[j] => i = j

(* The sink holds no record twice, so that one that is taken from it is    *)
(* there no more.                                                          *)
LgInd == LgTypes /\ OnePlace /\ NoTwins(lgSink)

-----------------------------------------------------------------------------
(* Sequences of records. *)

LEMMA NoRecords == <<>> \in Seq(LogRecs) /\ Len(<<>>) = 0 /\ Range(<<>>) = {} /\ NoTwins(<<>>)
  <1>1. <<>> \in Seq(LogRecs) /\ Len(<<>>) = 0
    BY EmptySeq
  <1> QED
    BY <1>1 DEF NoTwins, Range

LEMMA RecordAdded ==
    ASSUME NEW q \in Seq(LogRecs), NEW r \in LogRecs
    PROVE  /\ Append(q, r) \in Seq(LogRecs) /\ Len(Append(q, r)) = Len(q) + 1 /\ Len(q) \in Nat
           /\ Range(Append(q, r)) = Range(q) \cup {r} /\ (NoTwins(q) /\ r \notin Range(q) => NoTwins(Append(q, r)))
  <1>1. /\ Append(q, r) \in Seq(LogRecs) /\ Len(Append(q, r)) = Len(q) + 1 /\ Len(q) \in Nat
        /\ \A i \in 1 .. Len(q) : Append(q, r)[i] = q[i]
        /\ Append(q, r)[Len(q) + 1] = r
    BY AppendProperties, LenProperties
  <1>2. DOMAIN q = 1 .. Len(q) /\ DOMAIN Append(q, r) = 1 .. Len(q) + 1
    BY <1>1, LenProperties
  <1>3. /\ \A i \in 1 .. Len(q) + 1 : i \in 1 .. Len(q) \/ i = Len(q) + 1
        /\ 1 .. Len(q) \subseteq 1 .. Len(q) + 1 /\ Len(q) + 1 \in 1 .. Len(q) + 1
    BY <1>1
  <1>4. Range(Append(q, r)) = Range(q) \cup {r}
    BY <1>1, <1>2, <1>3, Zenon DEF Range
  <1>5. ASSUME NoTwins(q), r \notin Range(q) PROVE NoTwins(Append(q, r))
    <2> SUFFICES ASSUME NEW i \in 1 .. Len(q) + 1, NEW j \in 1 .. Len(q) + 1, Append(q, r)[i] = Append(q, r)[j] PROVE i = j
      BY <1>1 DEF NoTwins
    <2>1. \A h \in 1 .. Len(q) : q[h] # r
      BY <1>2, <1>5 DEF Range
    <2> QED
      BY <1>1, <1>3, <1>5, <2>1 DEF NoTwins
  <1> QED
    BY <1>1, <1>4, <1>5

LEMMA RecordTaken ==
    ASSUME NEW q \in Seq(LogRecs), q # <<>>
    PROVE  /\ Head(q) \in LogRecs /\ Tail(q) \in Seq(LogRecs) /\ Len(Tail(q)) = Len(q) - 1 /\ Len(q) \in Nat
           /\ Head(q) \in Range(q)
           /\ NoTwins(q) => NoTwins(Tail(q)) /\ Range(Tail(q)) = Range(q) \ {Head(q)}
  <1>1. Head(q) \in LogRecs /\ Tail(q) \in Seq(LogRecs) /\ Len(Tail(q)) = Len(q) - 1
    BY HeadTailProperties
  <1>2. Len(q) \in Nat /\ Len(q) # 0
    BY LenProperties, EmptySeq
  <1>3. Head(q) = q[1] /\ \A i \in 1 .. Len(Tail(q)) : Tail(q)[i] = q[i + 1]
    BY <1>1, <1>2, HeadTailProperties
  <1>4. DOMAIN q = 1 .. Len(q) /\ DOMAIN Tail(q) = 1 .. Len(q) - 1 /\ 1 \in 1 .. Len(q)
    BY <1>1, <1>2, LenProperties
  <1>5. Head(q) \in Range(q)
    BY <1>3, <1>4 DEF Range
  <1>6. ASSUME NoTwins(q) PROVE NoTwins(Tail(q)) /\ Range(Tail(q)) = Range(q) \ {Head(q)}
    <2>1. \A i \in 1 .. Len(q) - 1 : i + 1 \in 1 .. Len(q) /\ i + 1 # 1 /\ Tail(q)[i] = q[i + 1]
      BY <1>1, <1>2, <1>3
    <2>2. \A i \in 1 .. Len(q) : i = 1 \/ (i - 1 \in 1 .. Len(q) - 1 /\ i - 1 + 1 = i)
      BY <1>2
    <2>3. NoTwins(Tail(q))
      BY <1>1, <1>2, <1>6, <2>1 DEF NoTwins
    <2>4. \A i \in 1 .. Len(q) - 1 : Tail(q)[i] \in Range(q) \ {Head(q)}
      BY <1>3, <1>4, <1>6, <2>1 DEF NoTwins, Range
    <2>5. ASSUME NEW i \in 1 .. Len(q), q[i] # Head(q) PROVE \E h \in 1 .. Len(q) - 1 : Tail(q)[h] = q[i]
      <3>1. i - 1 \in 1 .. Len(q) - 1 /\ i - 1 + 1 = i
        BY <1>3, <2>2, <2>5
      <3> QED
        BY <2>1, <3>1
    <2>6. Range(Tail(q)) = Range(q) \ {Head(q)}
      <3>1. Range(Tail(q)) = {Tail(q)[i] : i \in 1 .. Len(q) - 1} /\ Range(q) = {q[i] : i \in 1 .. Len(q)}
        BY <1>4 DEF Range
      <3>2. ASSUME NEW x \in Range(q), x # Head(q) PROVE x \in Range(Tail(q))
        <4>1. PICK i \in 1 .. Len(q) : x = q[i]
          BY <3>1
        <4> QED
          BY <2>5, <3>1, <3>2, <4>1
      <3>3. Range(Tail(q)) \subseteq Range(q) \ {Head(q)}
        BY <2>4, <3>1
      <3> QED
        BY <3>2, <3>3
    <2> QED
      BY <2>3, <2>6
  <1> QED
    BY <1>1, <1>2, <1>5, <1>6

LEMMA RangeIn == ASSUME NEW q \in Seq(LogRecs) PROVE Range(q) \subseteq LogRecs /\ (q # <<>> => Range(q) # {})
  <1>1. \A i \in 1 .. Len(q) : q[i] \in LogRecs
    BY ElementOfSeq
  <1>2. DOMAIN q = 1 .. Len(q)
    BY LenProperties
  <1>3. q # <<>> => Range(q) # {}
    BY RecordTaken
  <1> QED
    BY <1>1, <1>2, <1>3 DEF Range

-----------------------------------------------------------------------------
LEMMA LgFacts ==
    /\ {SinkCap, ViewCap, MaxBatch, MaxSubs, MaxRecords, MaxLogFaults} \subseteq Nat
    /\ NoFlush \in FlushSteps /\ [at |-> "due"] \in FlushSteps /\ [at |-> "post"] \in FlushSteps
    /\ NoFlush.at = "none" /\ [at |-> "due"].at = "due" /\ [at |-> "post"].at = "post"
  BY LoggingAssumption DEF NoFlush, FlushSteps

LEMMA LgIndInit == LoggingInit => LgInd
  <1> SUFFICES ASSUME LoggingInit PROVE LgInd
    OBVIOUS
  <1>1. /\ lgMade = 0 /\ lgSink = <<>> /\ lgBuf = <<>> /\ fwBuf = <<>> /\ lgRows = {} /\ lgDropped = {} /\ fwPosts = {}
        /\ lgSubs = {} /\ vwClosed = {} /\ lgWriter = "run" /\ fwFlush \in [Flushers -> FlushSteps]
        /\ \A f \in Flushers : fwFlush[f].at = "none"
        /\ vwAt \in [Viewers -> {"off", "wait", "loop", "ending"}]
    BY LgFacts DEF LoggingInit
  <1>2. vwChan \in [Viewers -> Seq(LogRecs)] /\ \A v \in Viewers : Len(vwChan[v]) <= ViewCap
    BY NoRecords, LgFacts DEF LoggingInit
  <1>3. IsFiniteSet(lgSubs) /\ Cardinality(lgSubs) <= MaxSubs /\ SubscribersOpen
    <2>1. IsFiniteSet({}) /\ Cardinality({}) = 0
      BY FS_EmptySet
    <2> QED
      BY <1>1, <2>1, LgFacts DEF SubscribersOpen
  <1>4. /\ lgMade \in 0 .. MaxRecords /\ lgSink \in Seq(LogRecs) /\ Len(lgSink) <= SinkCap
        /\ lgBuf \in Seq(LogRecs) /\ fwBuf \in Seq(LogRecs)
    BY <1>1, NoRecords, LgFacts
  <1>5. LgTypes
    BY <1>1, <1>2, <1>3, <1>4 DEF LgTypes
  <1>6. OnePlace
    BY <1>1, NoRecords DEF OnePlace, At
  <1> QED
    BY <1>1, <1>5, <1>6, NoRecords DEF LgInd

(* A step that brings the records S to one place, and leaves the others    *)
(* where they are.                                                         *)
BroughtTo(S, k, x) ==
    \A r, j, y : At(r, j, y)' <=> IF r \in S THEN j = k /\ y = x ELSE At(r, j, y)

LEMMA OnePlaceKept ==
    ASSUME OnePlace, NEW S, NEW k, NEW x, S \subseteq 1 .. lgMade', 1 .. lgMade \subseteq 1 .. lgMade',
           1 .. lgMade' \subseteq 1 .. lgMade \cup S, BroughtTo(S, k, x)
    PROVE  OnePlace'
  <1>1. ASSUME NEW r \in 1 .. lgMade' PROVE \E i, z : \A j, y : At(r, j, y)' <=> (j = i /\ y = z)
    <2>1. CASE r \in S
      BY <2>1 DEF BroughtTo
    <2>2. CASE r \notin S
      <3>1. PICK i, z : \A j, y : At(r, j, y) <=> (j = i /\ y = z)
        BY <2>2 DEF OnePlace
      <3> QED
        BY <2>2, <3>1 DEF BroughtTo
    <2> QED
      BY <2>1, <2>2
  <1>2. ASSUME NEW r, NEW j, NEW y, At(r, j, y)' PROVE r \in 1 .. lgMade'
    BY <1>2 DEF OnePlace, BroughtTo
  <1> QED
    BY <1>1, <1>2 DEF OnePlace

(* A record in one place is in no other.                                   *)
LEMMA NowhereElse ==
    ASSUME OnePlace, NEW r, NEW k, NEW x, At(r, k, x)
    PROVE  \A j, y : At(r, j, y) => j = k /\ y = x
  <1>1. r \in 1 .. lgMade
    BY DEF OnePlace
  <1>2. PICK i, z : \A j, y : At(r, j, y) <=> (j = i /\ y = z)
    BY <1>1 DEF OnePlace
  <1> QED
    BY <1>2

(* The places stay as they are.                                            *)
PlacesStill == UNCHANGED <<lgMade, lgSink, lgBuf, fwBuf, lgRows, lgDropped, fwFlush, fwPosts>>

LEMMA PlacesStillKeep == ASSUME LgInd, PlacesStill PROVE OnePlace' /\ NoTwins(lgSink)'
  BY DEF LgInd, PlacesStill, OnePlace, At, NoTwins

-----------------------------------------------------------------------------
(* Viewers and broadcasts. *)

LEMMA BroadcastKeeps ==
    ASSUME LgTypes, NEW r \in LogRecs, Broadcast(r)
    PROVE  vwChan' \in [Viewers -> Seq(LogRecs)] /\ \A v \in Viewers : Len(vwChan'[v]) <= ViewCap
  <1>1. ASSUME NEW v \in Viewers PROVE vwChan'[v] \in Seq(LogRecs) /\ Len(vwChan'[v]) <= ViewCap
    <2>1. vwChan[v] \in Seq(LogRecs) /\ Len(vwChan[v]) <= ViewCap
      BY DEF LgTypes
    <2>2. Append(vwChan[v], r) \in Seq(LogRecs) /\ Len(Append(vwChan[v], r)) = Len(vwChan[v]) + 1 /\ Len(vwChan[v]) \in Nat
      BY <2>1, RecordAdded
    <2>3. vwChan'[v] = vwChan[v] \/ (Len(vwChan[v]) < ViewCap /\ vwChan'[v] = Append(vwChan[v], r))
      BY DEF Broadcast
    <2>4. CASE Len(vwChan[v]) < ViewCap /\ vwChan'[v] = Append(vwChan[v], r)
      <3>1. Len(vwChan[v]) + 1 <= ViewCap
        BY <2>2, <2>4, LgFacts
      <3> QED
        BY <2>2, <2>4, <3>1
    <2> QED
      BY <2>1, <2>3, <2>4
  <1>2. vwChan' = [v \in Viewers |-> vwChan'[v]]
    BY DEF Broadcast
  <1> QED
    BY <1>1, <1>2

LEMMA ViewersKeep ==
    ASSUME LgInd, NEW v \in Viewers,
           \/ HandleLogsWS(v) \/ FilterTimeout(v) \/ ViewRecord(v) \/ ViewerBreaks(v) \/ ViewerEnds(v)
           \/ \E low \in {0, 1} : UpdateFilter(v, low)
    PROVE  LgInd'
  <1> USE DEF LgInd
  <1>0. PlacesStill /\ lgWriter' = lgWriter
    BY DEF HandleLogsWS, FilterTimeout, ViewRecord, ViewerBreaks, ViewerEnds, UpdateFilter, PlacesStill, teeVars, fwVars
  <1>1. OnePlace' /\ NoTwins(lgSink)'
    BY <1>0, PlacesStillKeep
  <1>2. ASSUME vwChan' \in [Viewers -> Seq(LogRecs)] /\ \A u \in Viewers : Len(vwChan'[u]) <= ViewCap,
               vwAt' \in [Viewers -> {"off", "wait", "loop", "ending"}],
               IsFiniteSet(lgSubs') /\ Cardinality(lgSubs') <= MaxSubs /\ SubscribersOpen'
        PROVE  LgInd'
    BY <1>0, <1>1, <1>2 DEF LgTypes, PlacesStill
  <1>3. ASSUME NEW q \in Seq(LogRecs), Len(q) <= ViewCap, vwChan' = [vwChan EXCEPT ![v] = q] \/ vwChan' = vwChan
        PROVE  vwChan' \in [Viewers -> Seq(LogRecs)] /\ \A u \in Viewers : Len(vwChan'[u]) <= ViewCap
    BY <1>3 DEF LgTypes
  <1>4. ASSUME NEW a \in {"off", "wait", "loop", "ending"}, vwAt' = [vwAt EXCEPT ![v] = a] \/ vwAt' = vwAt
        PROVE  vwAt' \in [Viewers -> {"off", "wait", "loop", "ending"}]
    BY <1>4 DEF LgTypes
  <1>5. ASSUME UNCHANGED <<lgSubs, vwClosed>>
        PROVE  IsFiniteSet(lgSubs') /\ Cardinality(lgSubs') <= MaxSubs /\ SubscribersOpen'
    BY <1>5 DEF LgTypes, SubscribersOpen
  <1>6. <<>> \in Seq(LogRecs) /\ Len(<<>>) <= ViewCap
    BY NoRecords, LgFacts
  <1>7. CASE HandleLogsWS(v)
    <2>1. /\ Cardinality(lgSubs) < MaxSubs /\ lgSubs' = lgSubs \cup {v} /\ vwClosed' = vwClosed \ {v}
          /\ vwAt' = [vwAt EXCEPT ![v] = "wait"] /\ vwChan' = [vwChan EXCEPT ![v] = <<>>]
      BY <1>7 DEF HandleLogsWS, Subscribe
    <2>2. IsFiniteSet(lgSubs) /\ Cardinality(lgSubs) \in Nat
      BY FS_CardinalityType DEF LgTypes
    <2>3. IsFiniteSet(lgSubs \cup {v}) /\ Cardinality(lgSubs \cup {v}) <= Cardinality(lgSubs) + 1
      BY <2>2, FS_AddElement
    <2>4. IsFiniteSet(lgSubs') /\ Cardinality(lgSubs') <= MaxSubs
      BY <2>1, <2>2, <2>3, FS_CardinalityType, LgFacts
    <2>5. SubscribersOpen'
      BY <2>1 DEF LgTypes, SubscribersOpen
    <2> QED
      BY <1>2, <1>3, <1>4, <1>6, <2>1, <2>4, <2>5
  <1>8. CASE ViewerEnds(v)
    <2>1. /\ lgSubs' = lgSubs \ {v} /\ vwClosed' = vwClosed \cup {v}
          /\ vwAt' = [vwAt EXCEPT ![v] = "off"] /\ vwChan' = [vwChan EXCEPT ![v] = <<>>]
      BY <1>8 DEF ViewerEnds, Unsubscribe
    <2>2. IsFiniteSet(lgSubs) /\ Cardinality(lgSubs) \in Nat /\ Cardinality(lgSubs) <= MaxSubs
      BY FS_CardinalityType DEF LgTypes
    <2>3. IsFiniteSet(lgSubs \ {v}) /\ Cardinality(lgSubs \ {v}) <= Cardinality(lgSubs)
      BY <2>2, FS_Subset
    <2>4. IsFiniteSet(lgSubs') /\ Cardinality(lgSubs') <= MaxSubs
      BY <2>1, <2>2, <2>3, FS_CardinalityType, LgFacts
    <2>5. SubscribersOpen'
      BY <2>1 DEF LgTypes, SubscribersOpen
    <2> QED
      BY <1>2, <1>3, <1>4, <1>6, <2>1, <2>4, <2>5
  <1>9. CASE ViewRecord(v)
    <2>1. /\ vwChan[v] # <<>> /\ vwChan' = [vwChan EXCEPT ![v] = Tail(vwChan[v])] /\ UNCHANGED <<lgSubs, vwClosed>>
          /\ vwAt' = [vwAt EXCEPT ![v] = "ending"] \/ vwAt' = vwAt
      BY <1>9 DEF ViewRecord
    <2>2. vwChan[v] \in Seq(LogRecs) /\ Len(vwChan[v]) <= ViewCap
      BY DEF LgTypes
    <2>3. Tail(vwChan[v]) \in Seq(LogRecs) /\ Len(Tail(vwChan[v])) = Len(vwChan[v]) - 1 /\ Len(vwChan[v]) \in Nat
      BY <2>1, <2>2, RecordTaken
    <2>4. Len(Tail(vwChan[v])) <= ViewCap
      BY <2>2, <2>3, LgFacts
    <2> QED
      BY <1>2, <1>3, <1>4, <1>5, <2>1, <2>3, <2>4
  <1>10. CASE FilterTimeout(v) \/ ViewerBreaks(v) \/ \E low \in {0, 1} : UpdateFilter(v, low)
    <2>1. vwChan' = vwChan /\ UNCHANGED <<lgSubs, vwClosed>> /\ (vwAt' = [vwAt EXCEPT ![v] = "loop"] \/ vwAt' = vwAt)
      BY <1>10 DEF FilterTimeout, ViewerBreaks, UpdateFilter
    <2> QED
      BY <1>2, <1>3, <1>4, <1>5, <1>6, <2>1
  <1> QED
    BY <1>7, <1>8, <1>9, <1>10

(* Only the channels of the viewers change.                                *)
ViewersStill == UNCHANGED <<vwAt, lgSubs, vwClosed>>

LEMMA HandleBroadcastsKeeps == ASSUME LgInd, NEW r \in LogRecs, HandleBroadcasts(r) PROVE LgInd'
  <1>1. PlacesStill /\ ViewersStill /\ lgWriter' = lgWriter /\ Broadcast(r)
    BY DEF HandleBroadcasts, PlacesStill, ViewersStill, fwVars
  <1>2. vwChan' \in [Viewers -> Seq(LogRecs)] /\ \A v \in Viewers : Len(vwChan'[v]) <= ViewCap
    BY <1>1, BroadcastKeeps DEF LgInd
  <1>3. OnePlace' /\ NoTwins(lgSink)'
    BY <1>1, PlacesStillKeep
  <1>4. LgTypes'
    BY <1>1, <1>2 DEF LgInd, LgTypes, PlacesStill, ViewersStill, SubscribersOpen
  <1> QED
    BY <1>3, <1>4 DEF LgInd

-----------------------------------------------------------------------------
(* The server's own records. *)

(* A new record is nowhere yet.                                            *)
LEMMA NewRecordIsNew ==
    ASSUME LgInd, NewRecord
    PROVE  /\ lgMade' = lgMade + 1 /\ lgMade' \in 0 .. MaxRecords /\ lgMade' \in LogRecs
           /\ (\A k, x : ~At(lgMade', k, x)) /\ {lgMade'} \subseteq 1 .. lgMade' /\ 1 .. lgMade \subseteq 1 .. lgMade'
           /\ 1 .. lgMade' \subseteq 1 .. lgMade \cup {lgMade'}
  <1>1. lgMade < MaxRecords /\ lgMade' = lgMade + 1 /\ lgMade \in 0 .. MaxRecords /\ MaxRecords \in Nat
    BY LgFacts DEF NewRecord, LgInd, LgTypes
  <1>2. lgMade' \notin 1 .. lgMade
    BY <1>1
  <1>3. \A k, x : ~At(lgMade', k, x)
    BY <1>2 DEF LgInd, OnePlace
  <1> QED
    BY <1>1, <1>3 DEF LogRecs

(* A record in one place is in none of the others.                         *)
OnlyAt(r, k, x) ==
    /\ r \in 1 .. lgMade
    /\ r \in Range(lgSink) => k = "sink"
    /\ r \in Range(lgBuf) => k = "buf"
    /\ r \in Range(fwBuf) => k = "fwbuf"
    /\ r \in lgRows => k = "rows"
    /\ r \in lgDropped => k = "dropped"
    /\ \A f \in Flushers : fwFlush[f].at = "taken" /\ r \in Range(fwFlush[f].batch) => k = "taken" /\ x = f
    /\ \A p \in fwPosts : ~p.stored /\ r \in Range(p.todo) => k = "posts" /\ x = p

LEMMA ThenOnlyAt == ASSUME OnePlace, NEW r, NEW k, NEW x, At(r, k, x) PROVE OnlyAt(r, k, x)
  <1>1. r \in 1 .. lgMade
    BY DEF OnePlace
  <1>2. \A j, y : At(r, j, y) => j = k /\ y = x
    BY NowhereElse
  <1>3. ASSUME NEW f \in Flushers, fwFlush[f].at = "taken", r \in Range(fwFlush[f].batch) PROVE k = "taken" /\ x = f
    <2>1. At(r, "taken", f)
      BY <1>3 DEF At
    <2> QED
      BY <1>2, <2>1
  <1>4. ASSUME NEW p \in fwPosts, ~p.stored, r \in Range(p.todo) PROVE k = "posts" /\ x = p
    <2>1. At(r, "posts", p)
      BY <1>4 DEF At
    <2> QED
      BY <1>2, <2>1
  <1>5. /\ r \in Range(lgSink) => At(r, "sink", "one")
        /\ r \in Range(lgBuf) => At(r, "buf", "one")
        /\ r \in Range(fwBuf) => At(r, "fwbuf", "one")
        /\ r \in lgRows => At(r, "rows", "one")
        /\ r \in lgDropped => At(r, "dropped", "one")
    BY DEF At
  <1> QED
    BY <1>1, <1>2, <1>3, <1>4, <1>5 DEF OnlyAt

(* What the server's records leave alone.                                  *)
ForwarderStill == UNCHANGED <<fwBuf, fwFlush, fwPosts>> /\ UNCHANGED <<vwChan, vwAt, lgSubs, vwClosed>>

LEMMA HandleRecordKeeps == ASSUME LgInd, HandleRecord PROVE LgInd'
  <1> USE DEF LgInd
  <1>0. ForwarderStill /\ UNCHANGED <<lgBuf, lgWriter, lgRows>> /\ NewRecord
    BY DEF HandleRecord, ForwarderStill, fwVars, vwVars
  <1>1. /\ lgMade' = lgMade + 1 /\ lgMade' \in 0 .. MaxRecords /\ lgMade' \in LogRecs
        /\ (\A k, x : ~At(lgMade', k, x)) /\ {lgMade'} \subseteq 1 .. lgMade' /\ 1 .. lgMade \subseteq 1 .. lgMade'
        /\ 1 .. lgMade' \subseteq 1 .. lgMade \cup {lgMade'}
    BY <1>0, NewRecordIsNew
  <1>2. PICK n \in LogRecs : n = lgMade'
    BY <1>1
  <1>3. lgMade' \in 0 .. MaxRecords
    BY <1>1
  <1>4. CASE Len(lgSink) < SinkCap /\ lgSink' = Append(lgSink, n) /\ lgDropped' = lgDropped
    <2>1. lgSink \in Seq(LogRecs)
      BY DEF LgTypes
    <2>2. n \notin Range(lgSink)
      BY <1>1, <1>2 DEF At
    <2>3. /\ Append(lgSink, n) \in Seq(LogRecs) /\ Len(Append(lgSink, n)) = Len(lgSink) + 1 /\ Len(lgSink) \in Nat
          /\ Range(Append(lgSink, n)) = Range(lgSink) \cup {n} /\ NoTwins(Append(lgSink, n))
      BY <2>1, <2>2, RecordAdded
    <2>4. Len(lgSink) + 1 <= SinkCap
      BY <1>4, <2>3, LgFacts
    <2>5. LgTypes'
      BY <1>0, <1>3, <1>4, <2>3, <2>4 DEF LgTypes, ForwarderStill, SubscribersOpen
    <2>6. BroughtTo({n}, "sink", "one")
      BY <1>0, <1>1, <1>2, <1>4, <2>3 DEF BroughtTo, At, ForwarderStill
    <2>7. OnePlace'
      BY <1>1, <1>2, <2>6, OnePlaceKept
    <2>8. NoTwins(lgSink)'
      BY <1>4, <2>3 DEF NoTwins
    <2> QED
      BY <2>5, <2>7, <2>8
  <1>5. CASE lgSink' = lgSink /\ lgDropped' = lgDropped \cup {n}
    <2>1. LgTypes'
      BY <1>0, <1>3, <1>5 DEF LgTypes, ForwarderStill, SubscribersOpen
    <2>2. BroughtTo({n}, "dropped", "one")
      BY <1>0, <1>1, <1>2, <1>5 DEF BroughtTo, At, ForwarderStill
    <2>3. OnePlace'
      BY <1>1, <1>2, <2>2, OnePlaceKept
    <2>4. NoTwins(lgSink)'
      BY <1>5 DEF NoTwins
    <2> QED
      BY <2>1, <2>3, <2>4
  <1> QED
    BY <1>2, <1>4, <1>5 DEF HandleRecord

LEMMA WriterTakesKeeps == ASSUME LgInd, WriterTakes PROVE LgInd'
  <1> USE DEF LgInd
  <1>0. /\ lgSink # <<>> /\ lgBuf' = Append(lgBuf, Head(lgSink)) /\ lgSink' = Tail(lgSink)
        /\ ForwarderStill /\ UNCHANGED <<lgMade, lgWriter, lgRows, lgDropped>>
    BY DEF WriterTakes, ForwarderStill, fwVars, vwVars
  <1>1. lgSink \in Seq(LogRecs) /\ lgBuf \in Seq(LogRecs) /\ Len(lgSink) <= SinkCap
    BY DEF LgTypes
  <1>2. PICK n \in LogRecs : n = Head(lgSink)
    BY <1>0, <1>1, RecordTaken
  <1>3. /\ Tail(lgSink) \in Seq(LogRecs) /\ Len(Tail(lgSink)) = Len(lgSink) - 1 /\ Len(lgSink) \in Nat /\ n \in Range(lgSink)
        /\ NoTwins(Tail(lgSink)) /\ Range(Tail(lgSink)) = Range(lgSink) \ {n}
    BY <1>0, <1>1, <1>2, RecordTaken
  <1>4. Append(lgBuf, n) \in Seq(LogRecs) /\ Range(Append(lgBuf, n)) = Range(lgBuf) \cup {n}
    BY <1>1, RecordAdded
  <1>5. Len(Tail(lgSink)) <= SinkCap
    BY <1>1, <1>3, LgFacts
  <1>6. LgTypes'
    BY <1>0, <1>2, <1>3, <1>4, <1>5 DEF LgTypes, ForwarderStill, SubscribersOpen
  <1>7. At(n, "sink", "one")
    BY <1>3 DEF At
  <1>8. OnlyAt(n, "sink", "one") /\ n \in 1 .. lgMade
    BY <1>7, ThenOnlyAt DEF OnePlace
  <1>9. BroughtTo({n}, "buf", "one")
    BY <1>0, <1>2, <1>3, <1>4, <1>8 DEF BroughtTo, At, OnlyAt, ForwarderStill
  <1>10. OnePlace'
    BY <1>0, <1>8, <1>9, OnePlaceKept
  <1>11. NoTwins(lgSink)'
    BY <1>0, <1>3 DEF NoTwins
  <1> QED
    BY <1>6, <1>10, <1>11

(* The writer's buffer goes to the table or is dropped.                    *)
LEMMA WriterFlushesKeeps == ASSUME LgInd, WriterFlushes \/ backgroundWriter \/ CloseTee PROVE LgInd'
  <1> USE DEF LgInd
  <1>0. ForwarderStill /\ UNCHANGED <<lgMade, lgSink>> /\ lgWriter' \in {"run", "drain", "gone"}
    BY DEF WriterFlushes, backgroundWriter, CloseTee, ForwarderStill, fwVars, vwVars, LgTypes
  <1>1. NoTwins(lgSink)'
    BY <1>0 DEF NoTwins
  <1>2. CASE UNCHANGED <<lgBuf, lgRows, lgDropped>>
    <2>1. LgTypes'
      BY <1>0, <1>2 DEF LgTypes, ForwarderStill, SubscribersOpen
    <2>2. OnePlace'
      BY <1>0, <1>2 DEF OnePlace, At, ForwarderStill
    <2> QED
      BY <1>1, <2>1, <2>2
  <1>3. CASE /\ lgBuf' = <<>>
             /\ \/ lgRows' = lgRows \cup Range(lgBuf) /\ lgDropped' = lgDropped
                \/ lgDropped' = lgDropped \cup Range(lgBuf) /\ lgRows' = lgRows
    <2>1. lgBuf' \in Seq(LogRecs) /\ Range(lgBuf) \subseteq LogRecs /\ Range(lgBuf') = {}
      BY <1>3, NoRecords, RangeIn DEF LgTypes
    <2>2. LgTypes'
      BY <1>0, <1>3, <2>1 DEF LgTypes, ForwarderStill, SubscribersOpen
    <2>3. \A r \in Range(lgBuf) : r \in 1 .. lgMade /\ OnlyAt(r, "buf", "one")
      <3> SUFFICES ASSUME NEW r \in Range(lgBuf) PROVE r \in 1 .. lgMade /\ OnlyAt(r, "buf", "one")
        OBVIOUS
      <3>1. At(r, "buf", "one")
        BY DEF At
      <3> QED
        BY <3>1, ThenOnlyAt DEF OnePlace
    <2>4. \E k : BroughtTo(Range(lgBuf), k, "one")
      <3>1. CASE lgRows' = lgRows \cup Range(lgBuf) /\ lgDropped' = lgDropped
        <4>1. BroughtTo(Range(lgBuf), "rows", "one")
          BY <1>0, <2>1, <2>3, <3>1 DEF BroughtTo, At, OnlyAt, ForwarderStill
        <4> QED
          BY <4>1
      <3>2. CASE lgDropped' = lgDropped \cup Range(lgBuf) /\ lgRows' = lgRows
        <4>1. BroughtTo(Range(lgBuf), "dropped", "one")
          BY <1>0, <2>1, <2>3, <3>2 DEF BroughtTo, At, OnlyAt, ForwarderStill
        <4> QED
          BY <4>1
      <3> QED
        BY <1>3, <3>1, <3>2
    <2>5. OnePlace'
      BY <1>0, <2>3, <2>4, OnePlaceKept
    <2> QED
      BY <1>1, <2>2, <2>5
  <1> QED
    BY <1>2, <1>3 DEF WriterFlushes, backgroundWriter, CloseTee, InsertBatch

-----------------------------------------------------------------------------
(* The bridge's records. *)

TeeStill == UNCHANGED <<lgSink, lgBuf, lgWriter>> /\ UNCHANGED <<vwAt, lgSubs, vwClosed>>

LEMMA FlushValue ==
    ASSUME LgTypes, NEW f \in Flushers, fwFlush[f].at = "taken"
    PROVE  fwFlush[f].batch \in Seq(LogRecs) /\ fwFlush[f].batch # <<>>
  <1>1. fwFlush[f] \in FlushSteps
    BY DEF LgTypes
  <1>2. CASE fwFlush[f] \in {NoFlush, [at |-> "due"], [at |-> "post"]}
    BY <1>2, LgFacts
  <1>3. CASE fwFlush[f] \in [at : {"taken"}, batch : Seq(LogRecs)]
    BY <1>3 DEF LgTypes
  <1> QED
    BY <1>1, <1>2, <1>3 DEF FlushSteps

(* A flusher goes to a step.                                               *)
LEMMA FlusherTo ==
    ASSUME LgTypes, NEW f \in Flushers, NEW st \in FlushSteps, fwFlush' = [fwFlush EXCEPT ![f] = st],
           st.at = "taken" => st.batch # <<>>
    PROVE  /\ fwFlush' \in [Flushers -> FlushSteps] /\ fwFlush'[f] = st
           /\ \A g \in Flushers : g # f => fwFlush'[g] = fwFlush[g]
           /\ \A g \in Flushers : fwFlush'[g].at = "taken" => fwFlush'[g].batch # <<>>
  BY DEF LgTypes

LEMMA HandleForwardKeeps == ASSUME LgInd, NEW f \in Flushers, HandleForward(f) PROVE LgInd'
  <1> USE DEF LgInd
  <1>0. /\ TeeStill /\ UNCHANGED <<lgRows, fwPosts, vwChan>> /\ NewRecord /\ fwFlush[f] = NoFlush
        /\ fwFlush' = [fwFlush EXCEPT ![f] = [at |-> "due"]] \/ fwFlush' = fwFlush
    BY DEF HandleForward, TeeStill, teeVars, vwVars
  <1>1. /\ lgMade' = lgMade + 1 /\ lgMade' \in 0 .. MaxRecords /\ lgMade' \in LogRecs
        /\ (\A k, x : ~At(lgMade', k, x)) /\ {lgMade'} \subseteq 1 .. lgMade' /\ 1 .. lgMade \subseteq 1 .. lgMade'
        /\ 1 .. lgMade' \subseteq 1 .. lgMade \cup {lgMade'}
    BY <1>0, NewRecordIsNew
  <1>2. PICK n \in LogRecs : n = lgMade'
    BY <1>1
  <1>3. /\ fwFlush' \in [Flushers -> FlushSteps]
        /\ \A g \in Flushers : fwFlush'[g].at = "taken" <=> fwFlush[g].at = "taken"
        /\ \A g \in Flushers : fwFlush[g].at = "taken" => fwFlush'[g] = fwFlush[g]
    <2> DEFINE due == [at |-> "due"]
    <2>1. due \in FlushSteps /\ due.at = "due" /\ NoFlush.at = "none"
      BY LgFacts
    <2>2. fwFlush' = [fwFlush EXCEPT ![f] = due] \/ fwFlush' = fwFlush
      BY <1>0
    <2> HIDE DEF due
    <2> QED
      BY <1>0, <2>1, <2>2 DEF LgTypes
  <1>4. NoTwins(lgSink)'
    BY <1>0 DEF NoTwins, TeeStill
  <1>5. fwBuf \in Seq(LogRecs)
    BY DEF LgTypes
  <1>6. Append(fwBuf, n) \in Seq(LogRecs) /\ Range(Append(fwBuf, n)) = Range(fwBuf) \cup {n}
    BY <1>5, RecordAdded
  <1>7. fwBuf' \in Seq(LogRecs)
    BY <1>2, <1>5, <1>6 DEF HandleForward
  <1>8. LgTypes'
    <2>1. lgMade' \in 0 .. MaxRecords
      BY <1>1
    <2>2. \A g \in Flushers : fwFlush'[g].at = "taken" => fwFlush'[g].batch # <<>>
      BY <1>3 DEF LgTypes
    <2> QED
      BY <1>0, <1>3, <1>7, <2>1, <2>2 DEF LgTypes, TeeStill, SubscribersOpen
  <1>9. \E k : BroughtTo({n}, k, "one")
    <2>1. CASE lgDropped' = lgDropped \cup {n} /\ fwBuf' = fwBuf
      <3>1. BroughtTo({n}, "dropped", "one")
        BY <1>0, <1>1, <1>2, <1>3, <2>1 DEF BroughtTo, At, TeeStill
      <3> QED
        BY <3>1
    <2>2. CASE lgDropped' = lgDropped /\ fwBuf' = Append(fwBuf, n)
      <3>1. BroughtTo({n}, "fwbuf", "one")
        BY <1>0, <1>1, <1>2, <1>3, <1>6, <2>2 DEF BroughtTo, At, TeeStill
      <3> QED
        BY <3>1
    <2> QED
      BY <1>2, <2>1, <2>2 DEF HandleForward
  <1>10. OnePlace'
    BY <1>1, <1>2, <1>9, OnePlaceKept
  <1> QED
    BY <1>4, <1>8, <1>10

(* A flush takes the whole buffer of the bridge.                           *)
LEMMA FlushKeeps == ASSUME LgInd, NEW f \in Flushers, FlushDue(f) \/ flushLoop(f) PROVE LgInd'
  <1> USE DEF LgInd
  <1>0. TeeStill /\ UNCHANGED <<lgMade, lgRows, lgDropped, fwPosts, vwChan>> /\ fwFlush[f].at \in {"due", "none"} /\ fwBuf' = <<>>
    BY LgFacts DEF FlushDue, flushLoop, flush, TeeStill, teeVars, vwVars
  <1>1. NoTwins(lgSink)'
    BY <1>0 DEF NoTwins, TeeStill
  <1>2. fwBuf \in Seq(LogRecs) /\ fwBuf' \in Seq(LogRecs) /\ Range(fwBuf') = {}
    BY <1>0, NoRecords DEF LgTypes
  <1>3. CASE fwBuf = <<>> /\ fwFlush' = [fwFlush EXCEPT ![f] = NoFlush]
    <2>1. /\ fwFlush' \in [Flushers -> FlushSteps] /\ fwFlush'[f] = NoFlush
          /\ \A g \in Flushers : g # f => fwFlush'[g] = fwFlush[g]
          /\ \A g \in Flushers : fwFlush'[g].at = "taken" => fwFlush'[g].batch # <<>>
      BY <1>3, LgFacts, FlusherTo
    <2>2. LgTypes'
      BY <1>0, <1>2, <2>1 DEF LgTypes, TeeStill, SubscribersOpen
    <2>3. BroughtTo({}, "rows", "one")
      BY <1>0, <1>3, <2>1, LgFacts DEF BroughtTo, At, TeeStill
    <2>4. OnePlace'
      BY <1>0, <2>3, OnePlaceKept
    <2> QED
      BY <1>1, <2>2, <2>4
  <1>4. CASE fwBuf # <<>> /\ fwFlush' = [fwFlush EXCEPT ![f] = [at |-> "taken", batch |-> fwBuf]]
    <2> DEFINE st == [at |-> "taken", batch |-> fwBuf]
    <2>1. st \in FlushSteps /\ st.at = "taken" /\ st.batch = fwBuf
      BY <1>2 DEF FlushSteps
    <2>2. fwFlush' = [fwFlush EXCEPT ![f] = st]
      BY <1>4
    <2> HIDE DEF st
    <2>3. /\ fwFlush' \in [Flushers -> FlushSteps] /\ fwFlush'[f] = st
          /\ \A g \in Flushers : g # f => fwFlush'[g] = fwFlush[g]
          /\ \A g \in Flushers : fwFlush'[g].at = "taken" => fwFlush'[g].batch # <<>>
      BY <1>4, <2>1, <2>2, FlusherTo
    <2>4. LgTypes'
      BY <1>0, <1>2, <2>3 DEF LgTypes, TeeStill, SubscribersOpen
    <2>5. \A r \in Range(fwBuf) : r \in 1 .. lgMade /\ OnlyAt(r, "fwbuf", "one")
      <3> SUFFICES ASSUME NEW r \in Range(fwBuf) PROVE r \in 1 .. lgMade /\ OnlyAt(r, "fwbuf", "one")
        OBVIOUS
      <3>1. At(r, "fwbuf", "one")
        BY DEF At
      <3> QED
        BY <3>1, ThenOnlyAt DEF OnePlace
    <2>6. BroughtTo(Range(fwBuf), "taken", f)
      BY <1>0, <1>2, <2>1, <2>3, <2>5 DEF BroughtTo, At, OnlyAt, TeeStill
    <2>7. OnePlace'
      BY <1>0, <2>5, <2>6, OnePlaceKept
    <2> QED
      BY <1>1, <2>4, <2>7
  <1> QED
    BY <1>3, <1>4 DEF FlushDue, flushLoop, flush

(* A batch is posted, or dropped when the post fails.                      *)
LEMMA PostLogsKeeps == ASSUME LgInd, NEW f \in Flushers, PostLogs(f) PROVE LgInd'
  <1> USE DEF LgInd
  <1> DEFINE b == fwFlush[f].batch
             post == [todo |-> b, stored |-> FALSE]
             st == [at |-> "post"]
  <1>0. /\ TeeStill /\ UNCHANGED <<lgMade, lgRows, fwBuf, vwChan>> /\ fwFlush[f].at = "taken" /\ fwFlush' = [fwFlush EXCEPT ![f] = st]
        /\ \/ fwPosts' = fwPosts \cup {post} /\ lgDropped' = lgDropped
           \/ lgDropped' = lgDropped \cup Range(b) /\ fwPosts' = fwPosts
    BY DEF PostLogs, TeeStill, teeVars, vwVars
  <1>1. NoTwins(lgSink)'
    BY <1>0 DEF NoTwins, TeeStill
  <1>2. b \in Seq(LogRecs) /\ b # <<>>
    BY <1>0, FlushValue
  <1>3. post \in PostSteps /\ post.todo = b /\ post.stored = FALSE
    BY <1>2 DEF PostSteps
  <1>4. st \in FlushSteps /\ st.at = "post"
    BY LgFacts
  <1> HIDE DEF post, st
  <1>5. /\ fwFlush' \in [Flushers -> FlushSteps] /\ fwFlush'[f] = st
        /\ \A g \in Flushers : g # f => fwFlush'[g] = fwFlush[g]
        /\ \A g \in Flushers : fwFlush'[g].at = "taken" => fwFlush'[g].batch # <<>>
    BY <1>0, <1>4, FlusherTo
  <1>6. \A r \in Range(b) : r \in 1 .. lgMade /\ OnlyAt(r, "taken", f)
    <2> SUFFICES ASSUME NEW r \in Range(b) PROVE r \in 1 .. lgMade /\ OnlyAt(r, "taken", f)
      OBVIOUS
    <2>1. At(r, "taken", f)
      BY <1>0 DEF At
    <2> QED
      BY <2>1, ThenOnlyAt DEF OnePlace
  <1>7. fwPosts' \subseteq PostSteps /\ \A p \in fwPosts' : p.todo # <<>>
    BY <1>0, <1>2, <1>3 DEF LgTypes
  <1>8. LgTypes'
    BY <1>0, <1>5, <1>7 DEF LgTypes, TeeStill, SubscribersOpen
  <1>9. \A g \in Flushers : fwFlush'[g].at = "taken" => g # f /\ fwFlush'[g] = fwFlush[g]
    BY <1>4, <1>5
  <1>10. \A g \in Flushers : fwFlush[g].at = "taken" /\ g # f => fwFlush'[g] = fwFlush[g]
    BY <1>5
  <1>11. \E k, x : BroughtTo(Range(b), k, x)
    <2>1. CASE fwPosts' = fwPosts \cup {post} /\ lgDropped' = lgDropped
      <3>1. BroughtTo(Range(b), "posts", post)
        BY <1>0, <1>3, <1>6, <1>9, <1>10, <2>1 DEF BroughtTo, At, OnlyAt, TeeStill
      <3> QED
        BY <3>1
    <2>2. CASE lgDropped' = lgDropped \cup Range(b) /\ fwPosts' = fwPosts
      <3>1. BroughtTo(Range(b), "dropped", "one")
        BY <1>0, <1>6, <1>9, <1>10, <2>2 DEF BroughtTo, At, OnlyAt, TeeStill
      <3> QED
        BY <3>1
    <2> QED
      BY <1>0, <2>1, <2>2
  <1>12. OnePlace'
    BY <1>0, <1>6, <1>11, OnePlaceKept
  <1> QED
    BY <1>1, <1>8, <1>12

LEMMA PostReturnsKeeps == ASSUME LgInd, NEW f \in Flushers, PostReturns(f) PROVE LgInd'
  <1> USE DEF LgInd
  <1>0. /\ TeeStill /\ UNCHANGED <<lgMade, lgRows, lgDropped, fwBuf, fwPosts, vwChan>>
        /\ fwFlush[f].at = "post" /\ fwFlush' = [fwFlush EXCEPT ![f] = NoFlush]
    BY DEF PostReturns, TeeStill, teeVars, vwVars
  <1>1. NoTwins(lgSink)'
    BY <1>0 DEF NoTwins, TeeStill
  <1>2. /\ fwFlush' \in [Flushers -> FlushSteps] /\ fwFlush'[f] = NoFlush
        /\ \A g \in Flushers : g # f => fwFlush'[g] = fwFlush[g]
        /\ \A g \in Flushers : fwFlush'[g].at = "taken" => fwFlush'[g].batch # <<>>
    BY <1>0, LgFacts, FlusherTo
  <1>3. LgTypes'
    BY <1>0, <1>2 DEF LgTypes, TeeStill, SubscribersOpen
  <1>4. BroughtTo({}, "rows", "one")
    BY <1>0, <1>2, LgFacts DEF BroughtTo, At, TeeStill
  <1>5. OnePlace'
    BY <1>0, <1>4, OnePlaceKept
  <1> QED
    BY <1>1, <1>3, <1>5

(* The server stores a post, or drops it.                                  *)
LEMMA HandleLogsKeeps == ASSUME LgInd, NEW p \in fwPosts, HandleLogs(p) PROVE LgInd'
  <1> USE DEF LgInd
  <1> DEFINE b == p.todo
             done == [p EXCEPT !.stored = TRUE]
  <1>0. /\ TeeStill /\ UNCHANGED <<lgMade, fwBuf, fwFlush, vwChan>> /\ ~p.stored
        /\ fwPosts' = fwPosts \ {p} \/ fwPosts' = (fwPosts \ {p}) \cup {done}
        /\ \/ lgRows' = lgRows \cup Range(b) /\ lgDropped' = lgDropped
           \/ lgDropped' = lgDropped \cup Range(b) /\ lgRows' = lgRows
    BY DEF HandleLogs, InsertBatch, TeeStill, teeVars, vwVars
  <1>1. NoTwins(lgSink)'
    BY <1>0 DEF NoTwins, TeeStill
  <1>2. p \in PostSteps /\ b \in Seq(LogRecs) /\ b # <<>>
    BY DEF LgTypes, PostSteps
  <1>3. done \in PostSteps /\ done.stored = TRUE /\ done.todo = b
    BY <1>2 DEF PostSteps
  <1> HIDE DEF done
  <1>4. Range(b) \subseteq LogRecs
    BY <1>2, RangeIn
  <1>5. \A r \in Range(b) : r \in 1 .. lgMade /\ OnlyAt(r, "posts", p)
    <2> SUFFICES ASSUME NEW r \in Range(b) PROVE r \in 1 .. lgMade /\ OnlyAt(r, "posts", p)
      OBVIOUS
    <2>1. At(r, "posts", p)
      BY <1>0 DEF At
    <2> QED
      BY <2>1, ThenOnlyAt DEF OnePlace
  <1>6. fwPosts' \subseteq PostSteps /\ \A q \in fwPosts' : q.todo # <<>>
    BY <1>0, <1>2, <1>3 DEF LgTypes
  <1>7. lgRows' \subseteq LogRecs
    BY <1>0, <1>4 DEF LgTypes
  <1>8. LgTypes'
    BY <1>0, <1>6, <1>7 DEF LgTypes, TeeStill, SubscribersOpen
  <1>9. \A q : (q \in fwPosts' /\ ~q.stored) <=> (q \in fwPosts /\ ~q.stored /\ q # p)
    BY <1>0, <1>3
  <1>10. \E k : BroughtTo(Range(b), k, "one")
    <2>1. CASE lgRows' = lgRows \cup Range(b) /\ lgDropped' = lgDropped
      <3>1. BroughtTo(Range(b), "rows", "one")
        BY <1>0, <1>5, <1>9, <2>1 DEF BroughtTo, At, OnlyAt, TeeStill
      <3> QED
        BY <3>1
    <2>2. CASE lgDropped' = lgDropped \cup Range(b) /\ lgRows' = lgRows
      <3>1. BroughtTo(Range(b), "dropped", "one")
        BY <1>0, <1>5, <1>9, <2>2 DEF BroughtTo, At, OnlyAt, TeeStill
      <3> QED
        BY <3>1
    <2> QED
      BY <1>0, <2>1, <2>2
  <1>11. OnePlace'
    BY <1>0, <1>5, <1>10, OnePlaceKept
  <1> QED
    BY <1>1, <1>8, <1>11

LEMMA HandleLogsBroadcastsKeeps == ASSUME LgInd, NEW p \in fwPosts, HandleLogsBroadcasts(p) PROVE LgInd'
  <1> USE DEF LgInd
  <1> DEFINE left == [p EXCEPT !.todo = Tail(p.todo)]
  <1>0. /\ TeeStill /\ UNCHANGED <<lgMade, lgRows, lgDropped, fwBuf, fwFlush>> /\ p.stored /\ Broadcast(Head(p.todo))
        /\ fwPosts' = (fwPosts \ {p}) \cup (IF Len(p.todo) = 1 THEN {} ELSE {left})
    BY DEF HandleLogsBroadcasts, TeeStill, teeVars
  <1>1. NoTwins(lgSink)'
    BY <1>0 DEF NoTwins, TeeStill
  <1>2. p \in PostSteps /\ p.todo \in Seq(LogRecs) /\ p.todo # <<>>
    BY DEF LgTypes, PostSteps
  <1>3. Head(p.todo) \in LogRecs /\ Tail(p.todo) \in Seq(LogRecs) /\ Len(Tail(p.todo)) = Len(p.todo) - 1 /\ Len(p.todo) \in Nat
    BY <1>2, RecordTaken
  <1>4. left \in PostSteps /\ left.stored = p.stored /\ left.todo = Tail(p.todo)
    BY <1>2, <1>3 DEF PostSteps
  <1> HIDE DEF left
  <1>5. Len(p.todo) # 1 => Tail(p.todo) # <<>>
    <2>1. Tail(p.todo) = <<>> => Len(Tail(p.todo)) = 0
      BY NoRecords
    <2>2. Len(Tail(p.todo)) = 0 => Len(p.todo) = 1
      BY <1>3
    <2> QED
      BY <2>1, <2>2
  <1>6. vwChan' \in [Viewers -> Seq(LogRecs)] /\ \A v \in Viewers : Len(vwChan'[v]) <= ViewCap
    BY <1>0, <1>3, BroadcastKeeps
  <1>7. fwPosts' \subseteq PostSteps /\ \A q \in fwPosts' : q.todo # <<>>
    BY <1>0, <1>4, <1>5 DEF LgTypes
  <1>8. LgTypes'
    BY <1>0, <1>6, <1>7 DEF LgTypes, TeeStill, SubscribersOpen
  <1>9. \A q : (q \in fwPosts' /\ ~q.stored) <=> (q \in fwPosts /\ ~q.stored)
    BY <1>0, <1>4
  <1>10. BroughtTo({}, "rows", "one")
    BY <1>0, <1>9 DEF BroughtTo, At, TeeStill
  <1>11. OnePlace'
    BY <1>0, <1>10, OnePlaceKept
  <1> QED
    BY <1>1, <1>8, <1>11

LEMMA LgIndNext == LgInd /\ [LoggingNext]_logVars => LgInd'
  <1> SUFFICES ASSUME LgInd, [LoggingNext]_logVars PROVE LgInd'
    OBVIOUS
  <1>1. CASE HandleRecord \/ CloseTee \/ Writer
    BY <1>1, HandleRecordKeeps, WriterTakesKeeps, WriterFlushesKeeps DEF Writer
  <1>2. CASE Forward
    BY <1>2, FlushKeeps, PostLogsKeeps, PostReturnsKeeps DEF Forward
  <1>3. CASE ServePost
    BY <1>3, HandleLogsKeeps, HandleLogsBroadcastsKeeps DEF ServePost
  <1>4. CASE \E r \in LogRecs : HandleBroadcasts(r)
    BY <1>4, HandleBroadcastsKeeps
  <1>5. CASE \E f \in Flushers : HandleForward(f)
    BY <1>5, HandleForwardKeeps
  <1>6. ASSUME NEW v \in Viewers,
               \/ HandleLogsWS(v) \/ FilterTimeout(v) \/ ViewRecord(v) \/ ViewerBreaks(v) \/ ViewerEnds(v)
               \/ \E low \in {0, 1} : UpdateFilter(v, low)
        PROVE  LgInd'
    BY <1>6, ViewersKeep
  <1>7. CASE UNCHANGED logVars
    BY <1>7 DEF logVars, LgInd, LgTypes, SubscribersOpen, OnePlace, At, NoTwins
  <1> QED
    BY <1>1, <1>2, <1>3, <1>4, <1>5, <1>6, <1>7 DEF LoggingNext

LEMMA OnePlaceCounts == ASSUME LgInd PROVE RecordInOnePlace
  <1> SUFFICES ASSUME NEW r \in 1 .. lgMade
               PROVE  (IF r \in Range(lgSink) THEN 1 ELSE 0) + (IF r \in Range(lgBuf) THEN 1 ELSE 0)
                      + (IF r \in Range(fwBuf) THEN 1 ELSE 0) + (IF r \in lgRows THEN 1 ELSE 0)
                      + (IF r \in lgDropped THEN 1 ELSE 0)
                      + Cardinality({f \in Flushers : fwFlush[f].at = "taken" /\ r \in Range(fwFlush[f].batch)})
                      + Cardinality({p \in fwPosts : ~p.stored /\ r \in Range(p.todo)}) = 1
    BY DEF RecordInOnePlace
  <1> DEFINE taken == {f \in Flushers : fwFlush[f].at = "taken" /\ r \in Range(fwFlush[f].batch)}
             posts == {p \in fwPosts : ~p.stored /\ r \in Range(p.todo)}
  <1>1. PICK k, x : \A j, y : At(r, j, y) <=> (j = k /\ y = x)
    BY DEF LgInd, OnePlace
  <1>2. At(r, k, x) /\ OnlyAt(r, k, x)
    BY <1>1, ThenOnlyAt DEF LgInd
  <1>3. IF k = "taken" THEN taken = {x} ELSE taken = {}
    BY <1>2 DEF At, OnlyAt
  <1>4. IF k = "posts" THEN posts = {x} ELSE posts = {}
    BY <1>2 DEF At, OnlyAt
  <1>5. Cardinality({x}) = 1 /\ Cardinality({}) = 0
    BY FS_Singleton, FS_EmptySet, Zenon
  <1>6. Cardinality(taken) = (IF k = "taken" THEN 1 ELSE 0) /\ Cardinality(posts) = (IF k = "posts" THEN 1 ELSE 0)
    BY <1>3, <1>4, <1>5
  <1> HIDE DEF taken, posts
  <1>7. /\ (IF r \in Range(lgSink) THEN 1 ELSE 0) = (IF k = "sink" THEN 1 ELSE 0)
        /\ (IF r \in Range(lgBuf) THEN 1 ELSE 0) = (IF k = "buf" THEN 1 ELSE 0)
        /\ (IF r \in Range(fwBuf) THEN 1 ELSE 0) = (IF k = "fwbuf" THEN 1 ELSE 0)
        /\ (IF r \in lgRows THEN 1 ELSE 0) = (IF k = "rows" THEN 1 ELSE 0)
        /\ (IF r \in lgDropped THEN 1 ELSE 0) = (IF k = "dropped" THEN 1 ELSE 0)
    BY <1>2 DEF At, OnlyAt
  <1>8. k \in {"sink", "buf", "fwbuf", "rows", "dropped", "taken", "posts"}
    BY <1>2 DEF At
  <1>9. (IF r \in Range(lgSink) THEN 1 ELSE 0) + (IF r \in Range(lgBuf) THEN 1 ELSE 0)
        + (IF r \in Range(fwBuf) THEN 1 ELSE 0) + (IF r \in lgRows THEN 1 ELSE 0)
        + (IF r \in lgDropped THEN 1 ELSE 0) + Cardinality(taken) + Cardinality(posts) = 1
    BY <1>6, <1>7, <1>8
  <1> QED
    BY <1>9 DEF taken, posts

(* Logging is sound: with any number of records, flushers and viewers,     *)
(* every record that was made is in exactly one of the buffers, a batch    *)
(* that was taken, a post under way, the table and the dropped, however    *)
(* flushes overlap and fail; channels keep to their                        *)
(* capacities, subscribers to their limit, and broadcasts to open          *)
(* channels.                                                               *)
THEOREM LoggingIsSound == LoggingSpec => []LoggingInv
  <1>1. LgInd => LoggingInv
    <2> SUFFICES ASSUME LgInd PROVE LoggingInv
      OBVIOUS
    <2>1. RecordInOnePlace
      BY OnePlaceCounts
    <2> QED
      BY <2>1 DEF LgInd, LgTypes, LoggingInv, LoggingTypeOK
  <1> QED
    BY <1>1, LgIndInit, LgIndNext, PTL DEF LoggingSpec

-----------------------------------------------------------------------------

(* Connectors and the bridge.                                              *)

ConnectorsSpec == ConnectorsInit /\ [][ConnectorsNext]_connVars

ConnRows  == [is : {"row"}, kind : ConnKinds, config : 0 .. MaxConnEdits, enabled : BOOLEAN]
ConnChans == [is : {"chan"}, config : 0 .. MaxConnEdits, enabled : BOOLEAN]
ConnReqs  == {Served}
             \cup [at : {"createChannel", "write", "lookChannel", "updateChannel"}, c : ConnectorIds, row : ConnRows]
             \cup [at : {"reread", "deleteChannel", "deleteRow"}, c : ConnectorIds]
BridgeStates == {Down, [at |-> "stopping"]}
                \cup [at : {"reading"}, todo : SUBSET ConnectorIds, got : SUBSET [c : ConnectorIds, row : ConnRows]]
                \cup [at : {"up"}, boot : 0 .. MaxHalfSeconds, runs : SUBSET [c : ConnectorIds, row : ConnRows]]

CnTypes == /\ conRow \in [ConnectorIds -> {NoConnector} \cup ConnRows]
           /\ conChan \in [ConnectorIds -> {NoConnector} \cup ConnChans]
           /\ conReq \in [Admins -> ConnReqs] /\ conEdits \in 0 .. MaxConnEdits

(* The channel that a row asks for.                                        *)
Asked(row) == IF row # NoConnector /\ row.kind = "telegram" THEN buildTelegramChannelConfig(row) ELSE NoConnector

(* How far the request of a has brought its connector.                     *)
StageOK(a) ==
    LET r == conReq[a]
        c == r.c IN
    /\ r.at = "createChannel" => conRow[c] = r.row /\ conChan[c] = NoConnector
    /\ r.at = "write" => conChan[c] = Asked(conRow[c])
    /\ r.at = "reread" => conRow[c] # NoConnector /\ (conChan[c] # NoConnector <=> conRow[c].kind = "telegram")
    /\ r.at \in {"lookChannel", "updateChannel"} =>
          conRow[c] = r.row /\ r.row.kind = "telegram" /\ conChan[c] # NoConnector
    /\ r.at = "deleteRow" => conChan[c] = NoConnector

(* A connector that is not mixed up has at most one request, which has     *)
(* brought row and channel as far as it has got.                           *)
InOrderAt(c) ==
    c \notin conMixed =>
       /\ Serving(c) = {} => conChan[c] = Asked(conRow[c])
       /\ \A a, b \in Serving(c) : a = b
       /\ \A a \in Serving(c) : StageOK(a)
InOrderAll == \A c \in ConnectorIds : InOrderAt(c)

(* The stored time of a request to restart is not later than the request.  *)
BridgeInd == /\ brNow \in 0 .. MaxHalfSeconds /\ brAsked \in -1 .. MaxHalfSeconds /\ brControl \in -1 .. MaxHalfSeconds
             /\ brControl <= brAsked /\ (brControl >= 0 => brControl % 2 = 0)
             /\ brRun \in BridgeStates

CnInd == CnTypes /\ InOrderAll /\ BridgeInd

LEMMA CnBounds == /\ MaxConnEdits \in Nat /\ MaxHalfSeconds \in Nat
  BY ConnectorsAssumption

LEMMA ServedIs == Served \in ConnReqs /\ Served.at = "none"
  BY DEF ConnReqs, Served

(* What a request can be.                                                  *)
LEMMA ReqCases ==
    ASSUME CnTypes, NEW a \in Admins
    PROVE  /\ conReq[a] \in ConnReqs
           /\ conReq[a].at # "none" => conReq[a].c \in ConnectorIds
           /\ conReq[a].at \in {"createChannel", "write", "lookChannel", "updateChannel"} => conReq[a].row \in ConnRows
  BY DEF CnTypes, ConnReqs, Served

LEMMA CnInit == ConnectorsInit => CnInd
  <1> SUFFICES ASSUME ConnectorsInit PROVE CnInd
    OBVIOUS
  <1>1. PICK old \in SUBSET ConnectorIds, k \in ConnKinds :
          /\ conRow = [c \in ConnectorIds |-> IF c \in old THEN [is |-> "row", kind |-> k, config |-> 0, enabled |-> TRUE]
                                              ELSE NoConnector]
          /\ conChan = [c \in ConnectorIds |-> IF c \in old /\ k = "telegram"
                                               THEN [is |-> "chan", config |-> 0, enabled |-> TRUE] ELSE NoConnector]
    BY DEF ConnectorsInit
  <1>2. 0 \in 0 .. MaxConnEdits /\ 0 \in 0 .. MaxHalfSeconds /\ -1 \in -1 .. MaxHalfSeconds
    BY CnBounds
  <1>3. [is |-> "row", kind |-> k, config |-> 0, enabled |-> TRUE] \in ConnRows
    BY <1>2 DEF ConnRows
  <1>4. [is |-> "chan", config |-> 0, enabled |-> TRUE] \in ConnChans
    BY <1>2 DEF ConnChans
  <1>5. CnTypes
    BY <1>1, <1>2, <1>3, <1>4, ServedIs DEF CnTypes, ConnectorsInit
  <1>6. \A c \in ConnectorIds : Serving(c) = {}
    BY ServedIs DEF ConnectorsInit, Serving
  <1>7. \A c \in ConnectorIds : conChan[c] = Asked(conRow[c])
    BY <1>1 DEF Asked, buildTelegramChannelConfig, NoConnector
  <1>8. InOrderAll
    BY <1>6, <1>7 DEF InOrderAll, InOrderAt
  <1>9. BridgeInd
    BY <1>2 DEF BridgeInd, ConnectorsInit, BridgeStates
  <1> QED
    BY <1>5, <1>8, <1>9 DEF CnInd

(* A step of the request of a, on connector c: the others are left alone.  *)
StepOf(a, c) ==
    /\ \A b \in Admins \ {a} : conReq'[b] = conReq[b]
    /\ conReq[a].at # "none" => conReq[a].c = c
    /\ conReq'[a].at # "none" => conReq'[a].c = c
    /\ \A d \in ConnectorIds \ {c} : conRow'[d] = conRow[d] /\ conChan'[d] = conChan[d]
    /\ conMixed \subseteq conMixed' /\ conMixed' \subseteq conMixed \cup {c}

LEMMA OthersInOrder ==
    ASSUME NEW a \in Admins, NEW c \in ConnectorIds, StepOf(a, c), NEW d \in ConnectorIds \ {c}, InOrderAt(d)
    PROVE  InOrderAt(d)'
  <1>1. Serving(d)' = Serving(d)
    BY DEF Serving, StepOf
  <1>2. \A b \in Serving(d) : b # a /\ b \in Admins /\ conReq[b].c = d
    BY DEF Serving, StepOf
  <1>3. \A b \in Serving(d) : StageOK(b) => StageOK(b)'
    BY <1>2 DEF StageOK, StepOf
  <1> QED
    BY <1>1, <1>3 DEF InOrderAt, StepOf

(* The connector of the request itself.                                    *)
LEMMA OwnInOrder ==
    ASSUME NEW a \in Admins, NEW c \in ConnectorIds, StepOf(a, c), InOrderAt(c),
           c \notin conMixed' => /\ conReq[a].at # "none" \/ Serving(c) = {}
                                 /\ conReq'[a].at = "none" => conChan'[c] = Asked(conRow'[c])
                                 /\ conReq'[a].at # "none" => StageOK(a)'
    PROVE  InOrderAt(c)'
  <1> SUFFICES ASSUME c \notin conMixed'
               PROVE  /\ Serving(c)' = {} => conChan'[c] = Asked(conRow'[c])
                      /\ \A b, d \in Serving(c)' : b = d
                      /\ \A b \in Serving(c)' : StageOK(b)'
    BY DEF InOrderAt
  <1>1. c \notin conMixed
    BY DEF StepOf
  <1>2. \A b \in Serving(c) : b = a
    BY <1>1 DEF InOrderAt, Serving, StepOf
  <1>3. \A b \in Serving(c)' : b = a
    BY <1>2 DEF Serving, StepOf
  <1>4. a \in Serving(c)' <=> conReq'[a].at # "none"
    BY DEF Serving, StepOf
  <1> QED
    BY <1>3, <1>4

LEMMA StepInOrder ==
    ASSUME CnInd, NEW a \in Admins, NEW c \in ConnectorIds, StepOf(a, c), CnTypes', UNCHANGED bridgeVars,
           c \notin conMixed' => /\ conReq[a].at # "none" \/ Serving(c) = {}
                                 /\ conReq'[a].at = "none" => conChan'[c] = Asked(conRow'[c])
                                 /\ conReq'[a].at # "none" => StageOK(a)'
    PROVE  CnInd'
  <1>1. \A d \in ConnectorIds : InOrderAt(d)'
    BY OthersInOrder, OwnInOrder DEF CnInd, InOrderAll
  <1>2. BridgeInd'
    BY DEF CnInd, BridgeInd, bridgeVars
  <1> QED
    BY <1>1, <1>2 DEF CnInd, InOrderAll

(* A request that is under way owns its connector, unless it is mixed up.  *)
LEMMA OwnStage ==
    ASSUME CnInd, NEW a \in Admins, conReq[a].at # "none"
    PROVE  /\ conReq[a].c \in ConnectorIds
           /\ conReq[a].c \notin conMixed => StageOK(a)
  <1>1. conReq[a].c \in ConnectorIds
    BY ReqCases DEF CnInd
  <1> QED
    BY <1>1 DEF CnInd, InOrderAll, InOrderAt, Serving

LEMMA GotoIs ==
    ASSUME CnTypes, NEW a \in Admins, NEW r \in ConnReqs, ReqGoto(a, r)
    PROVE  conReq' \in [Admins -> ConnReqs] /\ conReq'[a] = r /\ \A b \in Admins \ {a} : conReq'[b] = conReq[b]
  BY DEF CnTypes, ReqGoto

LEMMA WriteFailsKeeps ==
    ASSUME CnInd, NEW a \in Admins, conReq[a].at # "none", NEW r \in ConnReqs,
           r.at # "none" => r.c = conReq[a].c, WriteFails(a, r)
    PROVE  CnInd'
  <1>1. conReq[a].c \in ConnectorIds /\ CnTypes
    BY OwnStage DEF CnInd
  <1>2. conReq' \in [Admins -> ConnReqs] /\ conReq'[a] = r /\ \A b \in Admins \ {a} : conReq'[b] = conReq[b]
    BY <1>1, GotoIs DEF WriteFails
  <1>3. StepOf(a, conReq[a].c) /\ conReq[a].c \in conMixed'
    BY <1>2 DEF StepOf, WriteFails
  <1>4. CnTypes' /\ UNCHANGED bridgeVars
    BY <1>1, <1>2 DEF CnTypes, WriteFails
  <1> QED
    BY <1>1, <1>3, <1>4, StepInOrder

LEMMA BeginsIs ==
    ASSUME CnInd, NEW a \in Admins, NEW c \in ConnectorIds, NEW r \in ConnReqs, ReqBegins(a, c, r)
    PROVE  /\ conReq' \in [Admins -> ConnReqs] /\ conReq'[a] = r /\ \A b \in Admins \ {a} : conReq'[b] = conReq[b]
           /\ conReq[a].at = "none" /\ conEdits' \in 0 .. MaxConnEdits
           /\ conMixed \subseteq conMixed' /\ conMixed' \subseteq conMixed \cup {c}
           /\ c \notin conMixed' => Serving(c) = {} /\ conChan[c] = Asked(conRow[c])
  <1>1. conReq' \in [Admins -> ConnReqs] /\ conReq'[a] = r /\ \A b \in Admins \ {a} : conReq'[b] = conReq[b]
    BY GotoIs DEF ReqBegins, CnInd
  <1>2. conEdits' \in 0 .. MaxConnEdits
    BY CnBounds DEF ReqBegins, CnInd, CnTypes
  <1>3. c \notin conMixed' => Serving(c) = {} /\ c \notin conMixed
    BY DEF ReqBegins
  <1>4. c \notin conMixed' => conChan[c] = Asked(conRow[c])
    BY <1>3 DEF CnInd, InOrderAll, InOrderAt
  <1>5. conMixed \subseteq conMixed' /\ conMixed' \subseteq conMixed \cup {c} /\ conReq[a].at = "none"
    BY DEF ReqBegins, AtReq
  <1> QED
    BY <1>1, <1>2, <1>3, <1>4, <1>5

LEMMA NewRow ==
    ASSUME CnInd, conEdits < MaxConnEdits, NEW k \in ConnKinds, NEW e \in BOOLEAN
    PROVE  [is |-> "row", kind |-> k, config |-> conEdits + 1, enabled |-> e] \in ConnRows
  <1>1. conEdits + 1 \in 0 .. MaxConnEdits
    BY CnBounds DEF CnInd, CnTypes
  <1> QED
    BY <1>1 DEF ConnRows

LEMMA CreateConnectorKeeps ==
    ASSUME CnInd, NEW a \in Admins, NEW c \in ConnectorIds, CreateConnector(a, c) PROVE CnInd'
  <1>1. conRow[c] = NoConnector /\ conChan[c] = NoConnector /\ UNCHANGED <<conChan, bridgeVars>> /\ conEdits < MaxConnEdits
    BY DEF CreateConnector, ReqBegins
  <1>2. PICK row \in ConnRows : /\ conRow' = [conRow EXCEPT ![c] = row]
                                /\ ReqBegins(a, c, [at |-> "createChannel", c |-> c, row |-> row])
    BY <1>1, NewRow DEF CreateConnector, InsertConnector
  <1> DEFINE r == [at |-> "createChannel", c |-> c, row |-> row]
  <1>3. r \in ConnReqs
    BY DEF ConnReqs
  <1>4. r.at = "createChannel" /\ r.c = c /\ r.row = row
    OBVIOUS
  <1> HIDE DEF r
  <1>5. /\ conReq' \in [Admins -> ConnReqs] /\ conReq'[a] = r /\ \A b \in Admins \ {a} : conReq'[b] = conReq[b]
        /\ conReq[a].at = "none" /\ conEdits' \in 0 .. MaxConnEdits
        /\ conMixed \subseteq conMixed' /\ conMixed' \subseteq conMixed \cup {c}
        /\ c \notin conMixed' => Serving(c) = {} /\ conChan[c] = Asked(conRow[c])
    BY <1>2, <1>3, BeginsIs DEF r
  <1>6. conRow' \in [ConnectorIds -> {NoConnector} \cup ConnRows] /\ conRow'[c] = row
        /\ \A d \in ConnectorIds \ {c} : conRow'[d] = conRow[d]
    BY <1>2 DEF CnInd, CnTypes
  <1>7. CnTypes'
    BY <1>1, <1>5, <1>6 DEF CnInd, CnTypes
  <1>8. StepOf(a, c)
    BY <1>1, <1>4, <1>5, <1>6 DEF StepOf
  <1>9. StageOK(a)'
    BY <1>1, <1>4, <1>5, <1>6 DEF StageOK
  <1> QED
    BY <1>1, <1>4, <1>5, <1>7, <1>8, <1>9, StepInOrder

LEMMA UpdateConnectorKeeps ==
    ASSUME CnInd, NEW a \in Admins, NEW c \in ConnectorIds, UpdateConnector(a, c) PROVE CnInd'
  <1>1. conRow[c] # NoConnector /\ UNCHANGED <<conRow, conChan, bridgeVars>> /\ conEdits < MaxConnEdits
    BY DEF UpdateConnector, ReqBegins
  <1>2. PICK row \in ConnRows : ReqBegins(a, c, [at |-> "write", c |-> c, row |-> row])
    BY <1>1, NewRow DEF UpdateConnector
  <1> DEFINE r == [at |-> "write", c |-> c, row |-> row]
  <1>3. r \in ConnReqs
    BY DEF ConnReqs
  <1>4. r.at = "write" /\ r.c = c
    OBVIOUS
  <1> HIDE DEF r
  <1>5. /\ conReq' \in [Admins -> ConnReqs] /\ conReq'[a] = r /\ \A b \in Admins \ {a} : conReq'[b] = conReq[b]
        /\ conReq[a].at = "none" /\ conEdits' \in 0 .. MaxConnEdits
        /\ conMixed \subseteq conMixed' /\ conMixed' \subseteq conMixed \cup {c}
        /\ c \notin conMixed' => Serving(c) = {} /\ conChan[c] = Asked(conRow[c])
    BY <1>2, <1>3, BeginsIs DEF r
  <1>6. CnTypes'
    BY <1>1, <1>5 DEF CnInd, CnTypes
  <1>7. StepOf(a, c)
    BY <1>1, <1>4, <1>5 DEF StepOf
  <1>8. c \notin conMixed' => StageOK(a)'
    BY <1>1, <1>4, <1>5 DEF StageOK, Asked
  <1> QED
    BY <1>1, <1>4, <1>5, <1>6, <1>7, <1>8, StepInOrder

LEMMA DeleteConnectorKeeps ==
    ASSUME CnInd, NEW a \in Admins, NEW c \in ConnectorIds, DeleteConnector(a, c) PROVE CnInd'
  <1> DEFINE r == [at |-> "deleteChannel", c |-> c]
  <1>1. ReqBegins(a, c, r) /\ UNCHANGED <<conRow, conChan, bridgeVars>>
    BY DEF DeleteConnector
  <1>3. r \in ConnReqs
    BY DEF ConnReqs
  <1>4. r.at = "deleteChannel" /\ r.c = c
    OBVIOUS
  <1> HIDE DEF r
  <1>5. /\ conReq' \in [Admins -> ConnReqs] /\ conReq'[a] = r /\ \A b \in Admins \ {a} : conReq'[b] = conReq[b]
        /\ conReq[a].at = "none" /\ conEdits' \in 0 .. MaxConnEdits
        /\ conMixed \subseteq conMixed' /\ conMixed' \subseteq conMixed \cup {c}
        /\ c \notin conMixed' => Serving(c) = {} /\ conChan[c] = Asked(conRow[c])
    BY <1>1, <1>3, BeginsIs
  <1>6. CnTypes'
    BY <1>1, <1>5 DEF CnInd, CnTypes
  <1>7. StepOf(a, c)
    BY <1>1, <1>4, <1>5 DEF StepOf
  <1>8. StageOK(a)'
    BY <1>4, <1>5 DEF StageOK
  <1> QED
    BY <1>1, <1>4, <1>5, <1>6, <1>7, <1>8, StepInOrder

(* A request that goes on, with its connector written or not.              *)
LEMMA GoesOn ==
    ASSUME CnInd, NEW a \in Admins, conReq[a].at # "none", NEW r \in ConnReqs, ReqGoto(a, r),
           r.at # "none" => r.c = conReq[a].c,
           NEW row \in {NoConnector} \cup ConnRows, NEW ch \in {NoConnector} \cup ConnChans,
           conRow' = [conRow EXCEPT ![conReq[a].c] = row], conChan' = [conChan EXCEPT ![conReq[a].c] = ch],
           conMixed' = conMixed \/ conMixed' = conMixed \cup {conReq[a].c}, UNCHANGED <<conEdits, bridgeVars>>,
           conReq[a].c \notin conMixed' /\ StageOK(a) =>
              /\ r.at = "none" => ch = Asked(row)
              /\ r.at = "createChannel" => row = r.row /\ ch = NoConnector
              /\ r.at = "write" => ch = Asked(row)
              /\ r.at = "reread" => row # NoConnector /\ (ch # NoConnector <=> row.kind = "telegram")
              /\ r.at \in {"lookChannel", "updateChannel"} => row = r.row /\ r.row.kind = "telegram" /\ ch # NoConnector
              /\ r.at = "deleteRow" => ch = NoConnector
    PROVE  CnInd'
  <1>1. PICK c \in ConnectorIds : c = conReq[a].c
    BY OwnStage
  <1>2. conReq' \in [Admins -> ConnReqs] /\ conReq'[a] = r /\ \A b \in Admins \ {a} : conReq'[b] = conReq[b]
    BY GotoIs DEF CnInd
  <1>3. /\ conRow' \in [ConnectorIds -> {NoConnector} \cup ConnRows] /\ conRow'[c] = row
        /\ conChan' \in [ConnectorIds -> {NoConnector} \cup ConnChans] /\ conChan'[c] = ch
        /\ \A d \in ConnectorIds \ {c} : conRow'[d] = conRow[d] /\ conChan'[d] = conChan[d]
    BY <1>1 DEF CnInd, CnTypes
  <1>4. CnTypes'
    BY <1>2, <1>3 DEF CnInd, CnTypes
  <1>5. StepOf(a, c)
    BY <1>1, <1>2, <1>3 DEF StepOf
  <1>6. ASSUME c \notin conMixed' PROVE StageOK(a)
    BY <1>1, <1>6, OwnStage
  <1>7. ASSUME c \notin conMixed'
        PROVE  /\ r.at = "none" => conChan'[c] = Asked(conRow'[c])
               /\ r.at # "none" => StageOK(a)'
    BY <1>1, <1>2, <1>3, <1>6, <1>7 DEF StageOK
  <1> QED
    BY <1>1, <1>2, <1>4, <1>5, <1>7, StepInOrder

LEMMA Unwritten ==
    ASSUME CnInd, NEW c \in ConnectorIds
    PROVE  /\ conRow = [conRow EXCEPT ![c] = conRow[c]] /\ conRow[c] \in {NoConnector} \cup ConnRows
           /\ conChan = [conChan EXCEPT ![c] = conChan[c]] /\ conChan[c] \in {NoConnector} \cup ConnChans
  BY DEF CnInd, CnTypes

LEMMA BuiltChannel ==
    ASSUME NEW row \in ConnRows
    PROVE  /\ buildTelegramChannelConfig(row) \in ConnChans /\ row # NoConnector
           /\ row.kind = "telegram" => Asked(row) = buildTelegramChannelConfig(row)
           /\ row.kind # "telegram" => Asked(row) = NoConnector
           /\ buildTelegramChannelConfig(row) # NoConnector
  BY DEF buildTelegramChannelConfig, ConnRows, ConnChans, Asked, NoConnector

LEMMA NothingAsked == Asked(NoConnector) = NoConnector
  BY DEF Asked

LEMMA AtIs ==
    ASSUME CnInd, NEW a \in Admins, conReq[a].at # "none"
    PROVE  /\ conReq[a].c \in ConnectorIds
           /\ conReq[a].at \in {"createChannel", "write", "lookChannel", "updateChannel"} => conReq[a].row \in ConnRows
  BY ReqCases DEF CnInd

LEMMA CreateSyncKeeps == ASSUME CnInd, NEW a \in Admins, syncNotifChannelCreate(a) PROVE CnInd'
  <1>1. conReq[a].at = "createChannel" /\ conReq[a].c \in ConnectorIds /\ conReq[a].row \in ConnRows
    BY AtIs DEF syncNotifChannelCreate, AtReq
  <1>2. CASE WriteFails(a, Served)
    BY <1>1, <1>2, WriteFailsKeeps, ServedIs
  <1>3. CASE ReqGoto(a, Served) /\ UNCHANGED <<conRow, conMixed, conEdits, bridgeVars>> /\ conReq[a].row.kind = "telegram"
             /\ conChan' = [conChan EXCEPT ![conReq[a].c] = buildTelegramChannelConfig(conReq[a].row)]
    BY <1>1, <1>3, GoesOn, Unwritten, BuiltChannel, ServedIs DEF StageOK
  <1>4. CASE ReqGoto(a, Served) /\ UNCHANGED <<conRow, conChan, conMixed, conEdits, bridgeVars>> /\ conReq[a].row.kind # "telegram"
    <2>1. ASSUME StageOK(a) PROVE conChan[conReq[a].c] = Asked(conRow[conReq[a].c])
      BY <1>1, <1>4, <2>1, BuiltChannel DEF StageOK
    <2> QED
      BY <1>1, <1>4, <2>1, GoesOn, Unwritten, ServedIs
  <1> QED
    BY <1>2, <1>3, <1>4 DEF syncNotifChannelCreate, CreateNotificationChannel

LEMMA StoreKeeps == ASSUME CnInd, NEW a \in Admins, StoreConnector(a) PROVE CnInd'
  <1>1. conReq[a].at = "write" /\ conReq[a].c \in ConnectorIds /\ conReq[a].row \in ConnRows
    BY AtIs DEF StoreConnector, AtReq
  <1>2. PICK c \in ConnectorIds : c = conReq[a].c
    BY <1>1
  <1>3. UNCHANGED <<conChan, conEdits, bridgeVars>>
    BY DEF StoreConnector
  <1>4. CASE conRow[c] = NoConnector
    <2>1. ReqGoto(a, Served) /\ UNCHANGED <<conRow, conMixed>>
      BY <1>2, <1>4 DEF StoreConnector
    <2>2. /\ conRow' = [conRow EXCEPT ![conReq[a].c] = conRow[c]] /\ conRow[c] \in {NoConnector} \cup ConnRows
          /\ conChan' = [conChan EXCEPT ![conReq[a].c] = conChan[c]] /\ conChan[c] \in {NoConnector} \cup ConnChans
      BY <1>2, <1>3, <2>1, Unwritten
    <2>3. StageOK(a) => conChan[c] = Asked(conRow[c])
      BY <1>1, <1>2 DEF StageOK
    <2>4. Served \in ConnReqs /\ Served.at = "none" /\ conReq[a].at # "none"
      BY <1>1, ServedIs
    <2> QED
      BY <1>3, <2>1, <2>2, <2>3, <2>4, GoesOn
  <1>5. CASE conRow[c] # NoConnector
    <2> DEFINE r == [at |-> "reread", c |-> c]
    <2>1. /\ conRow' = [conRow EXCEPT ![c] = conReq[a].row] /\ ReqGoto(a, r)
          /\ conMixed' = IF conRow[c].kind = conReq[a].row.kind THEN conMixed ELSE conMixed \cup {c}
      BY <1>2, <1>5 DEF StoreConnector
    <2>2. r \in ConnReqs /\ r.at = "reread" /\ r.c = c
      BY DEF ConnReqs
    <2> HIDE DEF r
    <2>3. conRow[c] \in ConnRows
      BY <1>5, Unwritten
    <2>4. ASSUME c \notin conMixed', StageOK(a)
          PROVE  conReq[a].row # NoConnector /\ (conChan[c] # NoConnector <=> conReq[a].row.kind = "telegram")
      <3>1. conRow[c].kind = conReq[a].row.kind
        BY <2>1, <2>4
      <3>2. conChan[c] = Asked(conRow[c])
        BY <1>1, <1>2, <2>4 DEF StageOK
      <3> QED
        BY <1>1, <2>3, <3>1, <3>2, BuiltChannel
    <2>5. /\ conRow' = [conRow EXCEPT ![conReq[a].c] = conReq[a].row] /\ conReq[a].row \in {NoConnector} \cup ConnRows
          /\ conChan' = [conChan EXCEPT ![conReq[a].c] = conChan[c]] /\ conChan[c] \in {NoConnector} \cup ConnChans
      BY <1>1, <1>2, <1>3, <2>1, Unwritten
    <2>6. conReq[a].at # "none" /\ r.c = conReq[a].c
          /\ (conMixed' = conMixed \/ conMixed' = conMixed \cup {conReq[a].c})
      BY <1>1, <1>2, <2>1, <2>2
    <2> QED
      BY <1>2, <1>3, <2>1, <2>2, <2>4, <2>5, <2>6, GoesOn
  <1> QED
    BY <1>4, <1>5

LEMMA RereadKeeps == ASSUME CnInd, NEW a \in Admins, RereadConnector(a) PROVE CnInd'
  <1>1. conReq[a].at = "reread" /\ conReq[a].c \in ConnectorIds
    BY AtIs DEF RereadConnector, AtReq
  <1>2. PICK c \in ConnectorIds : c = conReq[a].c
    BY <1>1
  <1>3. UNCHANGED <<conRow, conChan, conMixed, conEdits, bridgeVars>>
    BY DEF RereadConnector
  <1>4. CASE conRow[c] = NoConnector \/ conRow[c].kind # "telegram"
    <2>1. ReqGoto(a, Served)
      BY <1>2, <1>4 DEF RereadConnector
    <2>2. ASSUME StageOK(a) PROVE conChan[c] = Asked(conRow[c])
      BY <1>1, <1>2, <1>4, <2>2, Unwritten DEF StageOK, Asked
    <2> QED
      BY <1>1, <1>2, <1>3, <2>1, <2>2, GoesOn, Unwritten, ServedIs
  <1>5. CASE ~(conRow[c] = NoConnector \/ conRow[c].kind # "telegram")
    <2> DEFINE r == [at |-> "lookChannel", c |-> c, row |-> conRow[c]]
    <2>1. ReqGoto(a, r)
      BY <1>2, <1>5 DEF RereadConnector
    <2>2. conRow[c] \in ConnRows
      BY <1>5, Unwritten
    <2>3. r \in ConnReqs /\ r.at = "lookChannel" /\ r.c = c /\ r.row = conRow[c]
      BY <2>2 DEF ConnReqs
    <2> HIDE DEF r
    <2>4. ASSUME StageOK(a) PROVE conChan[c] # NoConnector
      BY <1>1, <1>2, <1>5, <2>4 DEF StageOK
    <2> QED
      BY <1>1, <1>2, <1>3, <1>5, <2>1, <2>3, <2>4, GoesOn, Unwritten
  <1> QED
    BY <1>4, <1>5

LEMMA LooksKeeps == ASSUME CnInd, NEW a \in Admins, SyncLooks(a) PROVE CnInd'
  <1>1. conReq[a].at = "lookChannel" /\ conReq[a].c \in ConnectorIds /\ conReq[a].row \in ConnRows
    BY AtIs DEF SyncLooks, AtReq
  <1>2. PICK c \in ConnectorIds : c = conReq[a].c
    BY <1>1
  <1>3. UNCHANGED <<conRow, conChan, conMixed, conEdits, bridgeVars>>
    BY DEF SyncLooks
  <1>4. CASE conChan[c] = NoConnector
    <2>1. ReqGoto(a, Served)
      BY <1>2, <1>4 DEF SyncLooks, GetChannelByConnectorID
    <2>2. ~StageOK(a)
      BY <1>1, <1>2, <1>4 DEF StageOK
    <2> QED
      BY <1>1, <1>2, <1>3, <2>1, <2>2, GoesOn, Unwritten, ServedIs
  <1>5. CASE conChan[c] # NoConnector
    <2> DEFINE r == [at |-> "updateChannel", c |-> c, row |-> conReq[a].row]
    <2>1. ReqGoto(a, r)
      BY <1>2, <1>5 DEF SyncLooks, GetChannelByConnectorID
    <2>2. r \in ConnReqs /\ r.at = "updateChannel" /\ r.c = c /\ r.row = conReq[a].row
      BY <1>1 DEF ConnReqs
    <2> HIDE DEF r
    <2> QED
      BY <1>1, <1>2, <1>3, <1>5, <2>1, <2>2, GoesOn, Unwritten DEF StageOK
  <1> QED
    BY <1>4, <1>5

LEMMA UpdateSyncKeeps == ASSUME CnInd, NEW a \in Admins, syncNotifChannelUpdate(a) PROVE CnInd'
  <1>1. conReq[a].at = "updateChannel" /\ conReq[a].c \in ConnectorIds /\ conReq[a].row \in ConnRows
    BY AtIs DEF syncNotifChannelUpdate, AtReq
  <1>2. CASE WriteFails(a, Served)
    BY <1>1, <1>2, WriteFailsKeeps, ServedIs
  <1>3. CASE ~WriteFails(a, Served)
    <2>1. PICK c \in ConnectorIds : c = conReq[a].c
      BY <1>1
    <2>2. ReqGoto(a, Served) /\ UNCHANGED <<conRow, conMixed, conEdits, bridgeVars>>
      BY <1>3 DEF syncNotifChannelUpdate
    <2>3. CASE conChan[c] = NoConnector
      <3>1. conChan' = conChan
        BY <1>3, <2>1, <2>3 DEF syncNotifChannelUpdate, UpdateNotificationChannel
      <3>2. ~StageOK(a)
        BY <1>1, <2>1, <2>3 DEF StageOK
      <3> QED
        BY <1>1, <2>1, <2>2, <3>1, <3>2, GoesOn, Unwritten, ServedIs
    <2>4. CASE conChan[c] # NoConnector
      <3>1. conChan' = [conChan EXCEPT ![c] = buildTelegramChannelConfig(conReq[a].row)]
        BY <1>3, <2>1, <2>4 DEF syncNotifChannelUpdate, UpdateNotificationChannel
      <3> QED
        <4>1. ASSUME StageOK(a) PROVE buildTelegramChannelConfig(conReq[a].row) = Asked(conRow[c])
          BY <1>1, <2>1, <4>1, BuiltChannel DEF StageOK
        <4>2. buildTelegramChannelConfig(conReq[a].row) \in {NoConnector} \cup ConnChans
          BY <1>1, BuiltChannel
        <4>3. conRow' = [conRow EXCEPT ![conReq[a].c] = conRow[c]] /\ conRow[c] \in {NoConnector} \cup ConnRows
          BY <2>1, <2>2, Unwritten
        <4>4. Served \in ConnReqs /\ Served.at = "none" /\ conReq[a].at # "none"
          BY <1>1, ServedIs
        <4> QED
          BY <2>1, <2>2, <3>1, <4>1, <4>2, <4>3, <4>4, GoesOn
    <2> QED
      BY <2>3, <2>4
  <1> QED
    BY <1>2, <1>3

LEMMA DeleteSyncKeeps == ASSUME CnInd, NEW a \in Admins, syncNotifChannelDelete(a) PROVE CnInd'
  <1>1. conReq[a].at = "deleteChannel" /\ conReq[a].c \in ConnectorIds
    BY AtIs DEF syncNotifChannelDelete, AtReq
  <1> DEFINE r == [at |-> "deleteRow", c |-> conReq[a].c]
  <1>2. \/ WriteFails(a, r)
        \/ /\ conChan' = [conChan EXCEPT ![conReq[a].c] = NoConnector] /\ ReqGoto(a, r)
           /\ UNCHANGED <<conRow, conMixed, conEdits, bridgeVars>>
    BY DEF syncNotifChannelDelete, DeleteNotificationChannel
  <1>3. r \in ConnReqs /\ r.at = "deleteRow" /\ r.c = conReq[a].c
    BY <1>1 DEF ConnReqs
  <1> HIDE DEF r
  <1>4. CASE WriteFails(a, r)
    BY <1>1, <1>3, <1>4, WriteFailsKeeps
  <1>5. CASE /\ conChan' = [conChan EXCEPT ![conReq[a].c] = NoConnector] /\ ReqGoto(a, r)
             /\ UNCHANGED <<conRow, conMixed, conEdits, bridgeVars>>
    BY <1>1, <1>3, <1>5, GoesOn, Unwritten
  <1> QED
    BY <1>2, <1>4, <1>5

LEMMA RemoveKeeps == ASSUME CnInd, NEW a \in Admins, RemoveConnector(a) PROVE CnInd'
  <1>1. conReq[a].at = "deleteRow" /\ conReq[a].c \in ConnectorIds
    BY AtIs DEF RemoveConnector, AtReq
  <1>2. CASE WriteFails(a, Served)
    BY <1>1, <1>2, WriteFailsKeeps, ServedIs
  <1>3. CASE /\ conRow' = [conRow EXCEPT ![conReq[a].c] = NoConnector] /\ ReqGoto(a, Served)
             /\ UNCHANGED <<conChan, conMixed, conEdits, bridgeVars>>
    BY <1>1, <1>3, GoesOn, Unwritten, NothingAsked, ServedIs DEF StageOK
  <1> QED
    BY <1>2, <1>3 DEF RemoveConnector

(* The bridge: it reads rows that are there, and what it is told to do was *)
(* stored no later than it was asked.                                      *)
LEMMA BridgeKeeps ==
    ASSUME CnInd, UNCHANGED <<conRow, conChan, conReq, conMixed, conEdits>>, BridgeInd'
    PROVE  CnInd'
  BY DEF CnInd, CnTypes, InOrderAll, InOrderAt, Serving, StageOK

LEMMA ReadKeeps == ASSUME CnInd, NEW c \in ConnectorIds, ReadConnector(c) PROVE BridgeInd'
  <1>1. brRun.at = "reading" /\ brRun \in BridgeStates
    BY DEF ReadConnector, CnInd, BridgeInd
  <1>2. brRun \in [at : {"reading"}, todo : SUBSET ConnectorIds, got : SUBSET [c : ConnectorIds, row : ConnRows]]
    BY <1>1 DEF BridgeStates, Down
  <1>3. CASE conRow[c] = NoConnector
    BY <1>3 DEF ReadConnector, GetConnectorWithSecret, CnInd, BridgeInd, BridgeStates
  <1>4. CASE conRow[c] # NoConnector
    <2>1. conRow[c] \in ConnRows
      BY <1>4, Unwritten
    <2>2. [c |-> c, row |-> conRow[c]] \in [c : ConnectorIds, row : ConnRows]
      BY <2>1
    <2>3. brRun' = [brRun EXCEPT !.todo = @ \ {c}, !.got = @ \cup {[c |-> c, row |-> conRow[c]]}]
      BY <1>4 DEF ReadConnector, GetConnectorWithSecret
    <2>4. brRun' \in [at : {"reading"}, todo : SUBSET ConnectorIds, got : SUBSET [c : ConnectorIds, row : ConnRows]]
      BY <1>2, <2>2, <2>3
    <2> QED
      BY <2>4 DEF ReadConnector, CnInd, BridgeInd, BridgeStates
  <1> QED
    BY <1>3, <1>4

LEMMA BootKeeps == ASSUME CnInd, BridgeBoots PROVE BridgeInd'
  <1>1. brRun.at = "reading" /\ brRun \in BridgeStates /\ brNow \in 0 .. MaxHalfSeconds
    BY DEF BridgeBoots, CnInd, BridgeInd
  <1>2. brRun \in [at : {"reading"}, todo : SUBSET ConnectorIds, got : SUBSET [c : ConnectorIds, row : ConnRows]]
    BY <1>1 DEF BridgeStates, Down
  <1>3. Registered(brRun.got) \subseteq [c : ConnectorIds, row : ConnRows]
    BY <1>2 DEF Registered
  <1>4. brRun' \in [at : {"up"}, boot : 0 .. MaxHalfSeconds, runs : SUBSET [c : ConnectorIds, row : ConnRows]]
    BY <1>1, <1>3 DEF BridgeBoots
  <1> QED
    BY <1>4 DEF BridgeBoots, CnInd, BridgeInd, BridgeStates

LEMMA WholeSeconds ==
    ASSUME NEW n \in Nat
    PROVE  (n \div 2) * 2 \in 0 .. n /\ ((n \div 2) * 2) % 2 = 0
  OBVIOUS

LEMMA RestartKeeps == ASSUME CnInd, RestartBridge PROVE BridgeInd'
  <1>1. brNow \in 0 .. MaxHalfSeconds /\ brNow \in Nat
    BY CnBounds DEF CnInd, BridgeInd
  <1>2. (brNow \div 2) * 2 \in 0 .. brNow /\ ((brNow \div 2) * 2) % 2 = 0
    BY <1>1, WholeSeconds
  <1>3. brControl' = (brNow \div 2) * 2 /\ brAsked' = brNow /\ UNCHANGED <<brNow, brRun>>
    BY DEF RestartBridge, SetBridgeControl
  <1>4. brControl' \in -1 .. MaxHalfSeconds /\ brAsked' \in -1 .. MaxHalfSeconds /\ brControl' <= brAsked'
    BY <1>1, <1>2, <1>3, CnBounds
  <1> QED
    BY <1>1, <1>2, <1>3, <1>4 DEF CnInd, BridgeInd

LEMMA OtherBridgeKeeps ==
    ASSUME CnInd, BridgeStarts \/ PollRestart \/ BridgeStops \/ BridgeCrash \/ ConnTick
    PROVE  BridgeInd'
  <1>1. CASE BridgeStarts
    <2>1. brRun' \in [at : {"reading"}, todo : SUBSET ConnectorIds, got : SUBSET [c : ConnectorIds, row : ConnRows]]
      BY <1>1 DEF BridgeStarts, ListConnectors
    <2> QED
      BY <1>1, <2>1 DEF BridgeStarts, CnInd, BridgeInd, BridgeStates
  <1>2. CASE PollRestart \/ BridgeStops \/ BridgeCrash
    BY <1>2 DEF PollRestart, BridgeStops, BridgeCrash, CnInd, BridgeInd, BridgeStates
  <1>3. CASE ConnTick
    <2>1. brNow' \in 0 .. MaxHalfSeconds
      BY <1>3, CnBounds DEF ConnTick, CnInd, BridgeInd
    <2> QED
      BY <1>3, <2>1 DEF ConnTick, CnInd, BridgeInd
  <1> QED
    BY <1>1, <1>2, <1>3

LEMMA CnNext == CnInd /\ [ConnectorsNext]_connVars => CnInd'
  <1> SUFFICES ASSUME CnInd, [ConnectorsNext]_connVars PROVE CnInd'
    OBVIOUS
  <1>1. CASE UNCHANGED connVars
    <2>1. BridgeInd'
      BY <1>1 DEF connVars, CnInd, BridgeInd
    <2> QED
      BY <1>1, <2>1, BridgeKeeps DEF connVars
  <1>2. ASSUME NEW a \in Admins, ReqGoesOn(a) PROVE CnInd'
    BY <1>2, CreateSyncKeeps, StoreKeeps, RereadKeeps, LooksKeeps, UpdateSyncKeeps, DeleteSyncKeeps, RemoveKeeps
    DEF ReqGoesOn
  <1>3. ASSUME NEW a \in Admins, NEW c \in ConnectorIds, CreateConnector(a, c) \/ UpdateConnector(a, c) \/ DeleteConnector(a, c)
        PROVE  CnInd'
    BY <1>3, CreateConnectorKeeps, UpdateConnectorKeeps, DeleteConnectorKeeps
  <1>4. CASE RestartBridge \/ BridgeGoesOn \/ BridgeCrash \/ ConnTick
    <2>1. BridgeInd'
      BY <1>4, RestartKeeps, ReadKeeps, BootKeeps, OtherBridgeKeeps DEF BridgeGoesOn
    <2>2. UNCHANGED <<conRow, conChan, conReq, conMixed, conEdits>>
      BY <1>4 DEF RestartBridge, BridgeGoesOn, BridgeStarts, ReadConnector, BridgeBoots, PollRestart, BridgeStops,
                  BridgeCrash, ConnTick
    <2> QED
      BY <2>1, <2>2, BridgeKeeps
  <1> QED
    BY <1>1, <1>2, <1>3, <1>4 DEF ConnectorsNext

LEMMA CnStrong == CnInd => ConnectorsTypeOK /\ ChannelFollows
  <1> SUFFICES ASSUME CnInd PROVE ConnectorsTypeOK /\ ChannelFollows
    OBVIOUS
  <1>1. brRun.at \in {"down", "reading", "up", "stopping"}
    BY DEF CnInd, BridgeInd, BridgeStates, Down
  <1>2. ConnectorsTypeOK
    BY <1>1 DEF CnInd, CnTypes, BridgeInd, ConnectorsTypeOK, ConnRows, ConnChans
  <1>3. ChannelFollows
    BY DEF CnInd, InOrderAll, InOrderAt, ChannelFollows, Asked
  <1> QED
    BY <1>2, <1>3

LEMMA CnStops == CnInd /\ [ConnectorsNext]_connVars => StopsOncePerRequest
  <1> SUFFICES ASSUME CnInd, [ConnectorsNext]_connVars, brRun.at = "up", brRun'.at = "stopping"
               PROVE  brAsked > brRun.boot
    BY DEF StopsOncePerRequest
  <1>1. CASE PollRestart
    <2>1. brControl > brRun.boot /\ brRun.at = "up"
      BY <1>1 DEF PollRestart, CheckRestartSignal, GetBridgeControl
    <2>2. brRun \in [at : {"up"}, boot : 0 .. MaxHalfSeconds, runs : SUBSET [c : ConnectorIds, row : ConnRows]]
      BY <2>1 DEF CnInd, BridgeInd, BridgeStates, Down
    <2>3. brRun.boot \in 0 .. MaxHalfSeconds /\ brControl \in -1 .. MaxHalfSeconds /\ brAsked \in -1 .. MaxHalfSeconds
          /\ brControl <= brAsked
      BY <2>2 DEF CnInd, BridgeInd
    <2> QED
      BY <2>1, <2>3, CnBounds
  <1>2. CASE ~PollRestart
    <2>1. ASSUME NEW a \in Admins, ReqGoesOn(a) PROVE brRun' = brRun
      BY <2>1 DEF ReqGoesOn, syncNotifChannelCreate, StoreConnector, RereadConnector, SyncLooks, syncNotifChannelUpdate,
         syncNotifChannelDelete, RemoveConnector, WriteFails, bridgeVars
    <2>2. ASSUME NEW a \in Admins, NEW c \in ConnectorIds, CreateConnector(a, c) \/ UpdateConnector(a, c) \/ DeleteConnector(a, c)
          PROVE  brRun' = brRun
      BY <2>2 DEF CreateConnector, UpdateConnector, DeleteConnector, bridgeVars
    <2>3. BridgeGoesOn => brRun.at # "up" \/ PollRestart
      BY DEF BridgeGoesOn, BridgeStarts, ReadConnector, BridgeBoots, BridgeStops
    <2>4. BridgeCrash => brRun'.at = "down"
      BY DEF BridgeCrash, Down
    <2>5. RestartBridge \/ ConnTick \/ UNCHANGED connVars => brRun' = brRun
      BY DEF RestartBridge, ConnTick, connVars
    <2> QED
      BY <1>2, <2>1, <2>2, <2>3, <2>4, <2>5 DEF ConnectorsNext
  <1> QED
    BY <1>1, <1>2

(* The channel of a connector follows it, and one request restarts the     *)
(* bridge once, for any number of admins, connectors and requests and      *)
(* every failure between two writes (bridge.go: syncNotifChannelCreate,    *)
(* -Update and -Delete, CheckRestartSignal).                               *)
THEOREM ConnectorsAreSound == ConnectorsSpec => ConnectorsSafe
  BY CnInit, CnNext, CnStrong, CnStops, PTL DEF ConnectorsSpec, ConnectorsSafe

-----------------------------------------------------------------------------
(* The content of sessions.                                                *)

ContentSpec == ContentInit /\ [][ContentNext]_contentVars

Counts   == 0 .. MaxLines
Buffers  == [count : Counts, partial : BOOLEAN, batch : SUBSET Lines]
CtEvents == [kind : {"output"}, s : CtSessions, k : 0 .. 1, tail : BOOLEAN] \cup [kind : {"exit"}, s : CtSessions]
ToMeta   == [at : {"meta"}, s : CtSessions, n : Counts]
HdlSteps == {Idle, Gone} \cup [at : {"got"}, ev : CtEvents]
            \cup [at : {"write"}, s : CtSessions, lines : SUBSET Lines, then : {Idle} \cup ToMeta]
            \cup ToMeta \cup [at : {"forget"}, s : CtSessions]
Cleanings == [at : {"rest", "next"}, todo : SUBSET CtSessions] \cup [at : {"tell"}, todo : SUBSET CtSessions, s : CtSessions]

Dispatches == {Idle, [at |-> "list"]} \cup [at : {"send"}, todo : SUBSET CtSessions, all : SUBSET CtSessions]

CtTypes ==
    /\ ctBuf \in [CtSessions -> Buffers] /\ ctGen \in [CtSessions -> Nat]
    /\ ctLoop \subseteq Lines /\ ctLost \subseteq Lines /\ ctRows \in [Lines -> Nat]
    /\ ctHdl \in [Handlers -> HdlSteps] /\ ctMeta \in [CtSessions -> Counts]
    /\ ctHeard \in [CtSessions -> [lines : Nat, tail : BOOLEAN]]
    /\ ctOld \subseteq CtSessions /\ ctLive \subseteq CtSessions
    /\ ctConn \in Handlers \cup {NoHandler} /\ ctClean \in Cleanings /\ ctPending \subseteq CtSessions
    /\ ctDisp \in [Handlers -> Dispatches]
    /\ ctFaults \in 0 .. MaxCtFaults

(* What a handler is doing for a session. *)
WorksFor(h, s) == \/ ctHdl[h].at = "got" /\ ctHdl[h].ev.s = s
                  \/ ctHdl[h].at \in {"write", "meta", "forget"} /\ ctHdl[h].s = s
HasExit(h, s)  == ctHdl[h].at = "got" /\ ctHdl[h].ev.s = s /\ ctHdl[h].ev.kind = "exit"
Flushes(h, s)  == /\ ctHdl[h].at \in {"write", "meta", "forget"} /\ ctHdl[h].s = s
                  /\ ctHdl[h].at = "write" => ctHdl[h].then # Idle
Leaves(h, s)    == HasExit(h, s) \/ Flushes(h, s)
HeldBy(h)      == IF ctHdl[h].at = "write" THEN ctHdl[h].lines ELSE {}

(* A session ends once: its exit is with one handler.                      *)
OneExit ==
    \A h \in Handlers : \A s \in CtSessions :
       Leaves(h, s) => s \notin ctLive /\ \A i \in Handlers : Leaves(i, s) => i = h

(* Nobody works for a session that is old; what the sweep has listed has   *)
(* content.                                                                *)
OldIsQuiet == /\ ctOld \cap ctLive = {}
              /\ \A s \in ctOld : \A h \in Handlers : ~WorksFor(h, s)
SweepList  == /\ ctClean.todo \subseteq ctOld
              /\ \A s \in ctClean.todo : ctMeta[s] > 0 \/ (ctClean.at = "tell" /\ ctClean.s = s)

(* What a flush has counted is in the buffer; before it there is room for  *)
(* the open line.                                                          *)
FlushCounts ==
    \A h \in Handlers : \A s \in CtSessions : Flushes(h, s) =>
       /\ ctBuf[s].count > 0
       /\ ctHdl[h].at = "write" => ctHdl[h].then.s = s /\ ctHdl[h].then.n <= ctBuf[s].count
       /\ ctHdl[h].at = "meta" => ctHdl[h].n <= ctBuf[s].count
LineRoom == \A s \in CtSessions : ctBuf[s].count < MaxLines \/ \E h \in Handlers : Flushes(h, s)

(* Buffers are numbered; one more than there were faults is the most.      *)
Unflushed(s) == s \in ctLive \/ \E h \in Handlers : Leaves(h, s)
GenBound == \A s \in CtSessions : /\ ctGen[s] <= ctFaults + 1
                                  /\ Unflushed(s) => ctGen[s] <= ctFaults

(* A line is numbered once, and is in one place.                           *)
Known(l) == l.g < ctGen[l.s] \/ (l.g = ctGen[l.s] /\ l.n <= ctBuf[l.s].count)
Numbers  == /\ \A l \in Stored \cup ctLoop : Known(l)
            /\ \A s \in CtSessions : \A l \in ctBuf[s].batch : l.s = s /\ l.g = ctGen[s] /\ Known(l)
            /\ \A h \in Handlers : \A l \in HeldBy(h) : l.s = ctHdl[h].s /\ Known(l)
Places   == /\ RowsDistinct /\ Stored \cap ctLoop = {}
            /\ \A s \in CtSessions : ctBuf[s].batch \cap (Stored \cup ctLoop) = {}
            /\ \A h \in Handlers : HeldBy(h) \cap (Stored \cup ctLoop) = {}
            /\ \A h \in Handlers : \A s \in CtSessions : HeldBy(h) \cap ctBuf[s].batch = {}
            /\ \A h \in Handlers : \A i \in Handlers : i # h => HeldBy(h) \cap HeldBy(i) = {}

(* The lines of s, wherever they are, and their numbers.                   *)
LinesOf(s) == {l \in Lines : /\ l.s = s
                             /\ \/ l \in Stored \cup ctLoop \cup ctBuf[s].batch
                                \/ \E h \in Handlers : l \in HeldBy(h)}
Nums(S)    == {l.n : l \in S}
HeardIn(s) == IF ctHeard[s].tail THEN ctHeard[s].lines + 1 ELSE ctHeard[s].lines
Whole(s)   == s \notin ctLate /\ \A l \in ctLost : l.s # s
Bare(s)    == ctBuf[s].count = 0 /\ ~ctBuf[s].partial

(* The first buffer of a session, before its flush and during it, and what *)
(* is left when it is gone.                                                *)
BeforeFlush(s) == ctMeta[s] = 0 /\ ctBuf[s].count = ctHeard[s].lines /\ ctBuf[s].partial = ctHeard[s].tail
InFlush(h, s)  == /\ ctBuf[s].count = HeardIn(s) /\ ctBuf[s].batch = {} /\ ~ctBuf[s].partial
                  /\ ctHdl[h].at = "write" => ctHdl[h].then.n = ctBuf[s].count
                  /\ ctHdl[h].at = "meta" => ctHdl[h].n = ctBuf[s].count
                  /\ ctMeta[s] \in {0, ctBuf[s].count}
FirstBuffer(s) ==
    Whole(s) /\ ctGen[s] = 0 =>
       /\ Nums(LinesOf(s)) = 1 .. ctBuf[s].count
       /\ (\A h \in Handlers : ~Flushes(h, s)) => BeforeFlush(s)
       /\ \A h \in Handlers : Flushes(h, s) => InFlush(h, s)
AfterFirst(s) ==
    Whole(s) /\ ctGen[s] = 1 /\ ctMeta[s] > 0 /\ Bare(s) =>
       Nums(LinesOf(s)) = 1 .. ctMeta[s] /\ ctMeta[s] = HeardIn(s)
Gapless == \A s \in CtSessions : FirstBuffer(s) /\ AfterFirst(s)

(* A dispatch has sent what it has listed and has not ahead of it.         *)
DispatchSent == \A h \in Handlers : ctDisp[h].at = "send" => ctDisp[h].all \ ctDisp[h].todo \subseteq ctTold

CtCore == OneExit /\ FlushCounts /\ LineRoom /\ GenBound /\ Numbers /\ Places /\ Gapless
CtInd  == CtTypes /\ CtCore /\ OldIsQuiet /\ SweepList /\ DispatchSent /\ CleanedIsTold

LEMMA CtFacts ==
    /\ BatchSize \in Nat /\ MaxLines \in Nat /\ MaxLines > 0 /\ MaxCtFaults \in Nat /\ NoHandler \notin Handlers
    /\ Idle.at = "idle" /\ Gone.at = "gone" /\ Idle \in HdlSteps /\ Gone \in HdlSteps
    /\ NoBuffer \in Buffers /\ NoBuffer.count = 0 /\ NoBuffer.partial = FALSE /\ NoBuffer.batch = {}
    /\ Resting \in Cleanings /\ Resting.at = "rest" /\ Resting.todo = {}
  BY ContentAssumption DEF Idle, Gone, HdlSteps, NoBuffer, Buffers, Counts, Resting, Cleanings

(* What a step of a handler is follows from its name.                      *)
LEMMA StepCases ==
    ASSUME NEW r \in HdlSteps
    PROVE  /\ r.at \in {"idle", "gone", "got", "write", "meta", "forget"}
           /\ r.at = "idle" => r = Idle
           /\ r.at = "gone" => r = Gone
           /\ r.at = "got" => /\ r.ev \in CtEvents /\ r.ev.s \in CtSessions /\ r.ev.kind \in {"output", "exit"}
                              /\ r.ev.kind = "output" => r.ev.k \in 0 .. 1 /\ r.ev.tail \in BOOLEAN
           /\ r.at = "write" => /\ r.s \in CtSessions /\ r.lines \subseteq Lines
                                /\ r.then \in HdlSteps
                                /\ r.then = Idle \/ (r.then \in ToMeta /\ r.then # Idle /\ r.then.at = "meta"
                                                     /\ r.then.s \in CtSessions /\ r.then.n \in Counts)
           /\ r.at = "meta" => r.s \in CtSessions /\ r.n \in Counts
           /\ r.at = "forget" => r.s \in CtSessions
  <1>1. CASE r \in {Idle, Gone}
    BY <1>1 DEF Idle, Gone
  <1>2. CASE r \in [at : {"got"}, ev : CtEvents]
    <2>1. r.at = "got" /\ r.ev \in CtEvents
      BY <1>2
    <2>2. /\ r.ev.s \in CtSessions /\ r.ev.kind \in {"output", "exit"}
          /\ r.ev.kind = "output" => r.ev.k \in 0 .. 1 /\ r.ev.tail \in BOOLEAN
      BY <2>1 DEF CtEvents
    <2> QED
      BY <2>1, <2>2
  <1>3. CASE r \in [at : {"write"}, s : CtSessions, lines : SUBSET Lines, then : {Idle} \cup ToMeta]
    <2>1. r.at = "write" /\ r.s \in CtSessions /\ r.lines \subseteq Lines /\ r.then \in {Idle} \cup ToMeta
      BY <1>3
    <2>2. ASSUME r.then \in ToMeta
          PROVE  r.then # Idle /\ r.then.at = "meta" /\ r.then.s \in CtSessions /\ r.then.n \in Counts
      BY <2>2, CtFacts DEF ToMeta
    <2>3. r.then \in HdlSteps
      BY <2>1, CtFacts DEF HdlSteps
    <2> QED
      BY <2>1, <2>2, <2>3
  <1>4. CASE r \in ToMeta \cup [at : {"forget"}, s : CtSessions]
    BY <1>4 DEF ToMeta
  <1> QED
    BY <1>1, <1>2, <1>3, <1>4 DEF HdlSteps

LEMMA HdlCases ==
    ASSUME CtTypes, NEW h \in Handlers
    PROVE  /\ ctHdl[h] \in HdlSteps
           /\ HeldBy(h) \subseteq Lines
           /\ \A s : Flushes(h, s) => s \in CtSessions /\ ctHdl[h].at \in {"write", "meta", "forget"}
           /\ \A s : WorksFor(h, s) => s \in CtSessions
           /\ \A s : Leaves(h, s) => WorksFor(h, s)
  <1>1. ctHdl[h] \in HdlSteps
    BY DEF CtTypes
  <1>2. HeldBy(h) \subseteq Lines
    BY <1>1, StepCases DEF HeldBy
  <1>3. \A s : WorksFor(h, s) => s \in CtSessions
    BY <1>1, StepCases DEF WorksFor
  <1>4. \A s : Leaves(h, s) => WorksFor(h, s)
    BY DEF Leaves, HasExit, Flushes, WorksFor
  <1>5. \A s : Flushes(h, s) => s \in CtSessions /\ ctHdl[h].at \in {"write", "meta", "forget"}
    BY <1>1, StepCases DEF Flushes
  <1> QED
    BY <1>1, <1>2, <1>3, <1>4, <1>5

LEMMA BufCases ==
    ASSUME CtTypes, NEW s \in CtSessions
    PROVE  /\ ctBuf[s] \in Buffers /\ ctBuf[s].count \in Nat /\ ctBuf[s].count <= MaxLines
           /\ ctBuf[s].partial \in BOOLEAN /\ ctBuf[s].batch \subseteq Lines
           /\ ctGen[s] \in Nat /\ ctMeta[s] \in Nat /\ ctMeta[s] <= MaxLines
           /\ ctHeard[s].lines \in Nat /\ ctHeard[s].tail \in BOOLEAN /\ HeardIn(s) \in Nat
           /\ ctBuf[s] = NoBuffer => Bare(s) /\ ctBuf[s].batch = {}
           /\ Bare(s) /\ ctBuf[s].batch = {} => ctBuf[s] = NoBuffer
  <1>1. ctBuf[s] \in Buffers /\ ctGen[s] \in Nat /\ ctMeta[s] \in Counts /\ ctHeard[s] \in [lines : Nat, tail : BOOLEAN]
    BY DEF CtTypes
  <1>2. ctBuf[s].count \in Counts /\ ctBuf[s].partial \in BOOLEAN /\ ctBuf[s].batch \subseteq Lines
    BY <1>1 DEF Buffers
  <1>3. ctBuf[s] = [count |-> ctBuf[s].count, partial |-> ctBuf[s].partial, batch |-> ctBuf[s].batch]
    BY <1>1 DEF Buffers
  <1>4. Bare(s) /\ ctBuf[s].batch = {} => ctBuf[s] = NoBuffer
    BY <1>2, <1>3 DEF Bare, NoBuffer
  <1>5. ctBuf[s] = NoBuffer => Bare(s) /\ ctBuf[s].batch = {}
    BY CtFacts DEF Bare
  <1>6. HeardIn(s) \in Nat
    BY <1>1 DEF HeardIn
  <1> QED
    BY <1>1, <1>2, <1>4, <1>5, <1>6, CtFacts DEF Counts

(* Steps in which no session begins or ends, and handlers take up nothing  *)
(* new.                                                                    *)
LEMMA ExitsKept ==
    ASSUME OneExit, OldIsQuiet, ctLive' \subseteq ctLive, ctOld' = ctOld,
           \A h \in Handlers : \A s \in CtSessions : Leaves(h, s)' => Leaves(h, s),
           \A h \in Handlers : \A s \in ctOld : WorksFor(h, s)' => WorksFor(h, s)
    PROVE  OneExit' /\ OldIsQuiet'
  <1>1. OneExit'
    BY DEF OneExit
  <1>2. OldIsQuiet'
    BY DEF OldIsQuiet
  <1> QED
    BY <1>1, <1>2

LEMMA GensKept ==
    ASSUME GenBound, CtTypes, ctFaults' \in Nat, ctFaults' >= ctFaults, ctGen' = ctGen, ctLive' \subseteq ctLive,
           \A h \in Handlers : \A s \in CtSessions : Leaves(h, s)' => Leaves(h, s)
    PROVE  GenBound'
  <1>1. \A s \in CtSessions : Unflushed(s)' => Unflushed(s)
    BY DEF Unflushed
  <1>2. \A s \in CtSessions : ctGen[s] \in Nat
    BY BufCases
  <1>3. ctFaults \in Nat
    BY DEF CtTypes
  <1> QED
    BY <1>1, <1>2, <1>3 DEF GenBound

(* What a step leaves alone for a session.                                 *)
SameFor(s) ==
    /\ ctGen'[s] = ctGen[s] /\ ctBuf'[s].count = ctBuf[s].count /\ ctBuf'[s].partial = ctBuf[s].partial
    /\ ctMeta'[s] = ctMeta[s] /\ ctHeard'[s] = ctHeard[s]
    /\ ctBuf[s].batch = {} => ctBuf'[s].batch = {}
    /\ Whole(s)' => Whole(s) /\ LinesOf(s)' = LinesOf(s)
    /\ \A h \in Handlers : /\ Flushes(h, s)' <=> Flushes(h, s)
                           /\ Flushes(h, s) => \/ ctHdl'[h] = ctHdl[h]
                                               \/ ctHdl'[h].at = "forget"
                                               \/ ctHdl[h].at = "write" /\ ctHdl'[h] = ctHdl[h].then /\ ctHdl'[h].at = "meta"

LEMMA GaplessFor ==
    ASSUME NEW s \in CtSessions, SameFor(s), FirstBuffer(s), AfterFirst(s)
    PROVE  FirstBuffer(s)' /\ AfterFirst(s)'
  <1>1. /\ ctGen'[s] = ctGen[s] /\ ctBuf'[s].count = ctBuf[s].count /\ ctBuf'[s].partial = ctBuf[s].partial
        /\ ctMeta'[s] = ctMeta[s] /\ ctHeard'[s] = ctHeard[s] /\ (ctBuf[s].batch = {} => ctBuf'[s].batch = {})
        /\ Whole(s)' => Whole(s) /\ LinesOf(s)' = LinesOf(s)
    BY DEF SameFor
  <1>2. HeardIn(s)' = HeardIn(s) /\ (Bare(s)' <=> Bare(s)) /\ (BeforeFlush(s)' <=> BeforeFlush(s))
    BY <1>1 DEF HeardIn, Bare, BeforeFlush
  <1>3. AfterFirst(s)'
    BY <1>1, <1>2 DEF AfterFirst
  <1>4. \A h \in Handlers : Flushes(h, s)' <=> Flushes(h, s)
    BY DEF SameFor
  <1>5. ASSUME NEW h \in Handlers, Flushes(h, s), InFlush(h, s) PROVE InFlush(h, s)'
    <2>1. \/ ctHdl'[h] = ctHdl[h]
          \/ ctHdl'[h].at = "forget"
          \/ ctHdl[h].at = "write" /\ ctHdl'[h] = ctHdl[h].then /\ ctHdl'[h].at = "meta"
      BY <1>5 DEF SameFor
    <2> QED
      BY <1>1, <1>2, <1>5, <2>1 DEF InFlush
  <1>6. FirstBuffer(s)'
    <2> SUFFICES ASSUME Whole(s)', ctGen'[s] = 0
                 PROVE  /\ Nums(LinesOf(s)') = 1 .. ctBuf'[s].count
                        /\ (\A h \in Handlers : ~Flushes(h, s)') => BeforeFlush(s)'
                        /\ \A h \in Handlers : Flushes(h, s)' => InFlush(h, s)'
      BY DEF FirstBuffer
    <2>1. /\ Nums(LinesOf(s)) = 1 .. ctBuf[s].count
          /\ (\A h \in Handlers : ~Flushes(h, s)) => BeforeFlush(s)
          /\ \A h \in Handlers : Flushes(h, s) => InFlush(h, s)
      BY <1>1 DEF FirstBuffer
    <2> QED
      BY <1>1, <1>2, <1>4, <1>5, <2>1
  <1> QED
    BY <1>3, <1>6

(* A handler that does nothing in a step. *)
LEMMA SameHandler ==
    ASSUME NEW h, ctHdl'[h] = ctHdl[h]
    PROVE  /\ HeldBy(h)' = HeldBy(h)
           /\ \A s : /\ WorksFor(h, s)' <=> WorksFor(h, s)
                     /\ Leaves(h, s)' <=> Leaves(h, s)
                     /\ Flushes(h, s)' <=> Flushes(h, s)
  BY DEF HeldBy, WorksFor, HasExit, Flushes, Leaves

LEMMA SameLines ==
    ASSUME ctRows' = ctRows, ctLoop' = ctLoop, NEW s, ctBuf'[s].batch = ctBuf[s].batch,
           \A h \in Handlers : HeldBy(h)' = HeldBy(h)
    PROVE  LinesOf(s)' = LinesOf(s) /\ Stored' = Stored
  <1>1. Stored' = Stored
    BY DEF Stored
  <1> QED
    BY <1>1 DEF LinesOf

(* Handlers change, but no line moves and no flush goes on.                *)
LEMMA HandlersOnly ==
    ASSUME CtInd, UNCHANGED <<ctBuf, ctGen, ctLoop, ctRows, ctMeta, ctHeard, ctLost, ctLate>>,
           \A h \in Handlers : /\ HeldBy(h)' = HeldBy(h)
                               /\ \A s \in CtSessions : Flushes(h, s)' <=> Flushes(h, s)
                               /\ ctHdl'[h] = ctHdl[h] \/ (HeldBy(h) = {} /\ \A s \in CtSessions : ~Flushes(h, s))
    PROVE  FlushCounts' /\ LineRoom' /\ Numbers' /\ Places' /\ Gapless'
  <1> USE DEF CtInd, CtCore
  <1>1. Stored' = Stored
    BY DEF Stored
  <1>2. FlushCounts'
    BY DEF FlushCounts
  <1>3. LineRoom'
    BY DEF LineRoom
  <1>4. Numbers'
    <2>1. \A l : Known(l)' <=> Known(l)
      BY DEF Known
    <2>2. ASSUME NEW h \in Handlers, NEW l \in HeldBy(h)' PROVE l.s = ctHdl'[h].s /\ Known(l)'
      <3>1. l \in HeldBy(h) /\ ctHdl'[h] = ctHdl[h]
        BY <2>2
      <3> QED
        BY <2>1, <3>1 DEF Numbers
    <2> QED
      BY <1>1, <2>1, <2>2 DEF Numbers
  <1>5. Places'
    BY <1>1 DEF Places, RowsDistinct
  <1>6. Gapless'
    <2> SUFFICES ASSUME NEW s \in CtSessions PROVE FirstBuffer(s)' /\ AfterFirst(s)'
      BY DEF Gapless
    <2>1. LinesOf(s)' = LinesOf(s)
      BY SameLines
    <2>2. SameFor(s)
      BY <2>1 DEF SameFor, Whole
    <2> QED
      BY <2>2, GaplessFor DEF Gapless
  <1> QED
    BY <1>2, <1>3, <1>4, <1>5, <1>6

LEMMA CoreSame ==
    ASSUME CtInd, ctFaults' \in Nat, ctFaults' >= ctFaults,
           UNCHANGED <<ctBuf, ctGen, ctLoop, ctHdl, ctRows, ctMeta, ctLive, ctHeard, ctLost, ctLate>>
    PROVE  CtCore'
  <1> USE DEF CtInd, CtCore
  <1>1. \A h \in Handlers : /\ HeldBy(h)' = HeldBy(h)
                            /\ \A s : /\ WorksFor(h, s)' <=> WorksFor(h, s)
                                      /\ Leaves(h, s)' <=> Leaves(h, s)
                                      /\ Flushes(h, s)' <=> Flushes(h, s)
    BY SameHandler
  <1>2. FlushCounts' /\ LineRoom' /\ Numbers' /\ Places' /\ Gapless'
    BY <1>1, HandlersOnly
  <1>3. OneExit'
    BY <1>1 DEF OneExit
  <1>4. GenBound'
    BY <1>1, GensKept
  <1> QED
    BY <1>2, <1>3, <1>4

LEMMA FaultCounts ==
    ASSUME CtTypes, CtFault \/ UNCHANGED ctFaults
    PROVE  ctFaults' \in 0 .. MaxCtFaults /\ ctFaults' \in Nat /\ ctFaults' >= ctFaults
  BY CtFacts DEF CtTypes, CtFault

LEMMA OldSame ==
    ASSUME CtInd, UNCHANGED <<ctHdl, ctLive, ctOld>>
    PROVE  OldIsQuiet'
  BY DEF CtInd, OldIsQuiet, WorksFor

(* The dispatch of pending cleanups: those it removes were sent, or are    *)
(* excused.                                                                *)
LEMMA CtDispatch ==
    ASSUME CtInd, NEW h \in Handlers,
           DispatchLists(h) \/ DeletePendingCleanups(h) \/ \E s \in CtSessions : DispatchSends(h, s)
    PROVE  CtInd'
  <1> USE DEF CtInd
  <1>1. PICK d \in Dispatches :
          /\ UNCHANGED <<ctBuf, ctGen, ctLoop, ctHdl, ctRows, ctMeta, ctLive, ctHeard, ctLost, ctLate>>
          /\ UNCHANGED <<ctOld, ctConn, ctReg, ctClean, ctCleaned, ctFaults>>
          /\ ctDisp' = [ctDisp EXCEPT ![h] = d] /\ ctTold \subseteq ctTold'
          /\ d.at = "send" => d.all \ d.todo \subseteq ctTold'
          /\ \/ UNCHANGED <<ctPending, ctExcused>>
             \/ /\ ctPending' = {} /\ ctExcused' = ctExcused \cup (ctPending \ ctDisp[h].all)
                /\ ctDisp[h].at = "send" /\ ctDisp[h].todo = {}
    <2> USE DEF ingestVars, DispTo
    <2>0. Idle \in Dispatches /\ Idle.at = "idle"
      BY CtFacts DEF Dispatches
    <2>1. CASE DispatchLists(h)
      <3> DEFINE n == [at |-> "send", todo |-> ListPendingCleanups, all |-> ListPendingCleanups]
      <3>1. n \in Dispatches /\ n.all \ n.todo = {}
        BY DEF Dispatches, ListPendingCleanups, CtTypes
      <3>2. ctDisp' = [ctDisp EXCEPT ![h] = IF ctHdl[h] = Gone \/ ListPendingCleanups = {} THEN Idle ELSE n]
        BY <2>1 DEF DispatchLists
      <3>3. UNCHANGED <<ingestVars, ctHdl, ctLive, ctOld, ctConn, ctReg, ctClean, ctPending, ctTold, ctCleaned, ctExcused, ctFaults>>
        BY <2>1 DEF DispatchLists
      <3> HIDE DEF n
      <3>4. CASE ctHdl[h] = Gone \/ ListPendingCleanups = {}
        BY <2>0, <3>2, <3>3, <3>4
      <3>5. CASE ~(ctHdl[h] = Gone \/ ListPendingCleanups = {})
        BY <3>1, <3>2, <3>3, <3>5
      <3> QED
        BY <3>4, <3>5
    <2>2. CASE DeletePendingCleanups(h)
      BY <2>0, <2>2 DEF DeletePendingCleanups
    <2>3. CASE \E s \in CtSessions : DispatchSends(h, s)
      <3>1. PICK s \in CtSessions : DispatchSends(h, s)
        BY <2>3
      <3>2. /\ ctDisp[h].at = "send"
            /\ UNCHANGED <<ingestVars, ctHdl, ctLive, ctOld, ctConn, ctReg, ctClean, ctPending, ctCleaned, ctExcused, ctFaults>>
        BY <3>1 DEF DispatchSends
      <3>3. CASE UNCHANGED ctTold /\ DispTo(h, Idle)
        BY <2>0, <3>2, <3>3
      <3>4. CASE ctTold' = ctTold \cup {s} /\ DispTo(h, [ctDisp[h] EXCEPT !.todo = @ \ {s}])
        <4> DEFINE n == [ctDisp[h] EXCEPT !.todo = @ \ {s}]
        <4>1. ctDisp[h] \in [at : {"send"}, todo : SUBSET CtSessions, all : SUBSET CtSessions]
          BY <2>0, <3>2 DEF CtTypes, Dispatches
        <4>2. n \in Dispatches /\ n.all = ctDisp[h].all /\ n.todo = ctDisp[h].todo \ {s}
          BY <4>1 DEF Dispatches
        <4>3. n.all \ n.todo \subseteq ctTold'
          BY <3>2, <3>4, <4>2 DEF DispatchSent
        <4>4. ctDisp' = [ctDisp EXCEPT ![h] = n] /\ ctTold \subseteq ctTold'
          BY <3>4
        <4> HIDE DEF n
        <4> QED
          BY <3>2, <4>2, <4>3, <4>4
      <3> QED
        BY <3>1, <3>3, <3>4 DEF DispatchSends
    <2> QED
      BY <2>1, <2>2, <2>3
  <1>2. CtTypes'
    BY <1>1 DEF CtTypes
  <1>3. CtCore'
    BY <1>1, CoreSame, FaultCounts
  <1>4. OldIsQuiet'
    BY <1>1, OldSame
  <1>5. SweepList'
    BY <1>1 DEF SweepList
  <1>6. DispatchSent'
    <2>1. \A i \in Handlers : ctDisp'[i] = IF i = h THEN d ELSE ctDisp[i]
      BY <1>1 DEF CtTypes
    <2> QED
      BY <1>1, <2>1 DEF DispatchSent
  <1>7. ctTold \cup ctPending \cup ctExcused \subseteq ctTold' \cup ctPending' \cup ctExcused'
    BY <1>1 DEF DispatchSent
  <1>8. CleanedIsTold'
    BY <1>1, <1>7 DEF CleanedIsTold
  <1> QED
    BY <1>2, <1>3, <1>4, <1>5, <1>6, <1>8

(* The retention sweep: its list is of old sessions with content, each of  *)
(* which it leaves once it has told, or noted, or failed.                  *)
LEMMA CtAges ==
    ASSUME CtInd, NEW s \in CtSessions, ContentAges(s)
    PROVE  CtInd'
  <1> USE DEF CtInd
  <1>1. /\ UNCHANGED <<ctBuf, ctGen, ctLoop, ctHdl, ctRows, ctMeta, ctLive, ctHeard, ctLost, ctLate>>
        /\ UNCHANGED <<ctConn, ctReg, ctClean, ctPending, ctDisp, ctTold, ctCleaned, ctExcused, ctFaults>>
        /\ s \notin ctLive /\ ctOld' = ctOld \cup {s}
        /\ \A h \in Handlers : ctHdl[h].at \in {"gone", "idle"}
    BY DEF ContentAges, ingestVars, cleanupVars
  <1>2. CtTypes'
    BY <1>1 DEF CtTypes
  <1>3. CtCore'
    BY <1>1, CoreSame, FaultCounts
  <1>4. OldIsQuiet'
    BY <1>1 DEF OldIsQuiet, WorksFor
  <1>5. SweepList'
    BY <1>1 DEF SweepList
  <1>6. DispatchSent' /\ CleanedIsTold'
    BY <1>1 DEF DispatchSent, CleanedIsTold
  <1> QED
    BY <1>2, <1>3, <1>4, <1>5, <1>6

LEMMA CleanerMoves ==
    ASSUME NEW S \in SUBSET CtSessions, CleanerTo("next", S)
    PROVE  ctClean' \in Cleanings /\ ctClean'.todo = S /\ ctClean'.at # "tell"
  <1>1. CASE S = {}
    BY <1>1, CtFacts DEF CleanerTo
  <1>2. CASE S # {}
    <2>1. ctClean' = [at |-> "next", todo |-> S]
      BY <1>2 DEF CleanerTo
    <2> QED
      BY <2>1 DEF Cleanings
  <1> QED
    BY <1>1, <1>2

LEMMA CleanCases ==
    ASSUME CtTypes
    PROVE  /\ ctClean.todo \subseteq CtSessions /\ ctClean.at \in {"rest", "next", "tell"}
           /\ ctClean.at = "tell" => ctClean.s \in CtSessions
  BY DEF CtTypes, Cleanings

LEMMA CtSweep == ASSUME CtInd, sweep \/ TellAgent \/ ConnBreaks PROVE CtInd'
  <1> USE DEF CtInd
  <1>1. /\ UNCHANGED <<ctBuf, ctGen, ctLoop, ctHdl, ctRows, ctMeta, ctLive, ctHeard, ctLost, ctLate>>
        /\ UNCHANGED <<ctOld, ctDisp, ctCleaned>> /\ (CtFault \/ UNCHANGED ctFaults)
        /\ ctConn' \in Handlers \cup {NoHandler} /\ ctTold \subseteq ctTold'
    <2> USE DEF ingestVars, cleanupVars, CtTypes
    <2>1. CASE sweep
      BY <2>1 DEF sweep
    <2>2. CASE TellAgent
      BY <2>2 DEF TellAgent, AddPendingCleanup
    <2>3. CASE ConnBreaks
      BY <2>3 DEF ConnBreaks
    <2> QED
      BY <2>1, <2>2, <2>3
  <1>2. CtCore' /\ ctFaults' \in 0 .. MaxCtFaults
    BY <1>1, CoreSame, FaultCounts
  <1>3. OldIsQuiet'
    BY <1>1, OldSame
  <1>4. DispatchSent'
    BY <1>1 DEF DispatchSent
  <1>5. ctClean' \in Cleanings /\ ctPending' \subseteq CtSessions /\ SweepList' /\ CleanedIsTold'
    <2>1. CASE sweep
      <3>1. /\ ctClean' = [at |-> "next", todo |-> ListExpiredContentSessions] /\ ctClean.at = "rest"
            /\ UNCHANGED <<ctPending, ctTold, ctCleaned, ctExcused>>
        BY <2>1 DEF sweep
      <3>2. ListExpiredContentSessions \subseteq ctOld /\ \A s \in ListExpiredContentSessions : ctMeta[s] > 0
        BY DEF ListExpiredContentSessions
      <3>3. ctClean' \in Cleanings /\ ctClean'.todo = ListExpiredContentSessions
        BY <3>1, <3>2 DEF Cleanings, CtTypes
      <3>4. SweepList'
        BY <1>1, <3>2, <3>3 DEF SweepList
      <3> QED
        BY <3>1, <3>3, <3>4 DEF CleanedIsTold, CtTypes
    <2>2. CASE TellAgent
      <3>1. PICK s \in CtSessions : s = ctClean.s
        BY <2>2, CleanCases DEF TellAgent
      <3>2. ctClean.at = "tell" /\ CleanerTo("next", ctClean.todo \ {s})
        BY <2>2, <3>1 DEF TellAgent
      <3>3. ctClean' \in Cleanings /\ ctClean'.todo = ctClean.todo \ {s} /\ ctClean'.at # "tell"
        BY <3>2, CleanerMoves, CleanCases
      <3>4. /\ s \in ctTold' \cup ctPending' \cup ctExcused'
            /\ ctTold \subseteq ctTold' /\ ctPending \subseteq ctPending' /\ ctExcused \subseteq ctExcused'
            /\ ctPending' \subseteq ctPending \cup {s}
        BY <2>2, <3>1 DEF TellAgent, AddPendingCleanup
      <3>5. SweepList'
        BY <1>1, <3>1, <3>3 DEF SweepList
      <3>6. CleanedIsTold'
        BY <1>1, <3>1, <3>2, <3>3, <3>4 DEF CleanedIsTold
      <3> QED
        BY <3>3, <3>4, <3>5, <3>6 DEF CtTypes
    <2>3. CASE ConnBreaks
      BY <1>1, <2>3 DEF ConnBreaks, cleanupVars, SweepList, CleanedIsTold, CtTypes
    <2> QED
      BY <2>1, <2>2, <2>3
  <1>6. CtTypes'
    BY <1>1, <1>2, <1>5 DEF CtTypes
  <1> QED
    BY <1>2, <1>3, <1>4, <1>5, <1>6

(* The content of an old session goes.  It has content, so that its first  *)
(* buffer is not the one it has.                                           *)
LEMMA CtDelete ==
    ASSUME CtInd, NEW s \in CtSessions, DeleteSessionContent(s)
    PROVE  CtInd'
  <1> USE DEF CtInd
  <1>1. /\ UNCHANGED <<ctBuf, ctGen, ctLoop, ctHdl, ctLive, ctHeard, ctLost, ctLate, ctOld, ctConn, ctReg>>
        /\ UNCHANGED <<ctPending, ctDisp, ctTold, ctExcused>>
        /\ ctClean.at = "next" /\ s \in ctClean.todo
    BY DEF DeleteSessionContent
  <1>2. /\ s \in ctOld /\ ctMeta[s] > 0 /\ \A h \in Handlers : ~WorksFor(h, s) /\ ~Flushes(h, s)
    BY <1>1, HdlCases DEF SweepList, OldIsQuiet, Leaves
  <1>3. OldIsQuiet'
    BY <1>1, OldSame
  <1>4. DispatchSent'
    BY <1>1 DEF DispatchSent
  <1>5. CASE CtFault /\ CleanerTo("next", ctClean.todo \ {s}) /\ UNCHANGED <<ctRows, ctMeta, ctCleaned>>
    <2>1. CtCore' /\ ctFaults' \in 0 .. MaxCtFaults
      BY <1>1, <1>5, CoreSame, FaultCounts
    <2>2. ctClean' \in Cleanings /\ ctClean'.todo = ctClean.todo \ {s} /\ ctClean'.at # "tell"
      BY <1>5, CleanerMoves, CleanCases
    <2>3. SweepList'
      BY <1>1, <1>5, <2>2 DEF SweepList
    <2>4. CleanedIsTold'
      BY <1>1, <1>5, <2>2 DEF CleanedIsTold
    <2>5. CtTypes'
      BY <1>1, <1>5, <2>1, <2>2 DEF CtTypes
    <2> QED
      BY <1>3, <1>4, <2>1, <2>3, <2>4, <2>5
  <1>6. CASE /\ ctRows' = [l \in Lines |-> IF l.s = s THEN 0 ELSE ctRows[l]] /\ ctMeta' = [ctMeta EXCEPT ![s] = 0]
             /\ ctCleaned' = ctCleaned \cup {s} /\ UNCHANGED ctFaults
             /\ ctClean' = [at |-> "tell", todo |-> ctClean.todo, s |-> s]
    <2>1. ctClean' \in Cleanings /\ ctClean'.todo = ctClean.todo /\ ctClean'.at = "tell" /\ ctClean'.s = s
      BY <1>6, CleanCases DEF Cleanings
    <2>2. /\ ctRows' \in [Lines -> Nat] /\ ctMeta' \in [CtSessions -> Counts] /\ ctMeta'[s] = 0
          /\ \A t \in CtSessions : t # s => ctMeta'[t] = ctMeta[t]
      BY <1>6, CtFacts DEF CtTypes, Counts
    <2>3. CtTypes'
      BY <1>1, <1>6, <2>1, <2>2 DEF CtTypes
    <2>4. SweepList'
      BY <1>1, <2>1, <2>2, CleanCases DEF SweepList
    <2>5. CleanedIsTold'
      BY <1>1, <1>6, <2>1 DEF CleanedIsTold
    <2>6. Stored' = {l \in Stored : l.s # s} /\ (\A l \in Lines : ctRows'[l] = ctRows[l] \/ ctRows'[l] = 0)
      BY <1>6 DEF Stored
    <2>7. \A h \in Handlers : /\ HeldBy(h)' = HeldBy(h)
                              /\ \A t : (Leaves(h, t)' <=> Leaves(h, t)) /\ (Flushes(h, t)' <=> Flushes(h, t))
      BY <1>1, SameHandler
    <2>8. OneExit'
      BY <1>1, <2>7 DEF OneExit, CtCore
    <2>9. FlushCounts' /\ LineRoom'
      BY <1>1, <2>7 DEF FlushCounts, LineRoom, CtCore
    <2>10. GenBound'
      BY <1>1, <1>6, <2>7, GensKept, FaultCounts DEF CtCore
    <2>11. Numbers'
      BY <1>1, <2>6, <2>7 DEF Numbers, Known, CtCore
    <2>12. Places'
      BY <1>1, <2>6, <2>7 DEF Places, RowsDistinct, CtCore
    <2>13. Gapless'
      <3> SUFFICES ASSUME NEW t \in CtSessions PROVE FirstBuffer(t)' /\ AfterFirst(t)'
        BY DEF Gapless
      <3>1. CASE t = s
        <4>1. Whole(s)' <=> Whole(s)
          BY <1>1 DEF Whole
        <4>2. ~(Whole(s) /\ ctGen[s] = 0)
          BY <1>2 DEF Gapless, FirstBuffer, BeforeFlush, CtCore
        <4> QED
          BY <1>1, <2>2, <3>1, <4>1, <4>2 DEF FirstBuffer, AfterFirst
      <3>2. CASE t # s
        <4>1. LinesOf(t)' = LinesOf(t)
          BY <1>1, <2>6, <2>7, <3>2 DEF LinesOf
        <4>2. SameFor(t)
          BY <1>1, <2>2, <2>7, <3>2, <4>1 DEF SameFor, Whole
        <4> QED
          BY <4>2, GaplessFor DEF Gapless, CtCore
      <3> QED
        BY <3>1, <3>2
    <2> QED
      BY <1>3, <1>4, <2>3, <2>4, <2>5, <2>8, <2>9, <2>10, <2>11, <2>12, <2>13 DEF CtCore
  <1> QED
    BY <1>5, <1>6 DEF DeleteSessionContent

(* A handler goes between waiting, an event and its end.                   *)
LEMMA HandlerTakes ==
    ASSUME CtInd, NEW h \in Handlers, NEW st \in HdlSteps, HdlTo(h, st),
           ctHdl[h].at \in {"idle", "gone", "got"}, st.at \in {"idle", "gone", "got"},
           ctLive' \subseteq ctLive, UNCHANGED <<ingestVars, ctOld, ctFaults, ctClean>>,
           st.at = "got" => /\ st.ev.s \in ctLive
                            /\ st.ev.kind = "exit" => st.ev.s \notin ctLive'
    PROVE  CtCore' /\ OldIsQuiet' /\ SweepList' /\ ctHdl' \in [Handlers -> HdlSteps]
  <1> USE DEF CtInd, CtCore
  <1>1. UNCHANGED <<ctBuf, ctGen, ctLoop, ctRows, ctMeta, ctHeard, ctLost, ctLate>>
    BY DEF ingestVars
  <1>2. /\ ctHdl' \in [Handlers -> HdlSteps] /\ ctHdl'[h] = st
        /\ \A i \in Handlers : i # h => ctHdl'[i] = ctHdl[i]
    BY DEF HdlTo, CtTypes
  <1>3. \A i \in Handlers : i # h => /\ HeldBy(i)' = HeldBy(i)
                                     /\ \A s : /\ WorksFor(i, s)' <=> WorksFor(i, s)
                                               /\ Leaves(i, s)' <=> Leaves(i, s)
                                               /\ Flushes(i, s)' <=> Flushes(i, s)
    BY <1>2, SameHandler
  <1>4. /\ HeldBy(h)' = {} /\ HeldBy(h) = {}
        /\ \A s : /\ ~Flushes(h, s) /\ ~Flushes(h, s)'
                  /\ WorksFor(h, s)' => s \in ctLive
                  /\ Leaves(h, s)' => s \in ctLive /\ s \notin ctLive'
    BY <1>2 DEF HeldBy, Flushes, WorksFor, Leaves, HasExit
  <1>5. FlushCounts' /\ LineRoom' /\ Numbers' /\ Places' /\ Gapless'
    BY <1>1, <1>2, <1>3, <1>4, HandlersOnly
  <1>6. OneExit'
    BY <1>3, <1>4 DEF OneExit
  <1>7. OldIsQuiet'
    BY <1>3, <1>4 DEF OldIsQuiet
  <1>8. GenBound'
    <2>1. \A s \in CtSessions : Unflushed(s)' => Unflushed(s)
      BY <1>3, <1>4 DEF Unflushed
    <2> QED
      BY <1>1, <2>1 DEF GenBound
  <1>9. SweepList'
    BY <1>1 DEF SweepList
  <1> QED
    BY <1>2, <1>5, <1>6, <1>7, <1>8, <1>9

LEMMA CtConnection ==
    ASSUME CtInd, NEW h \in Handlers, MachineConnects(h) \/ HandlerEnds(h)
    PROVE  CtInd'
  <1> USE DEF CtInd
  <1>1. CASE MachineConnects(h)
    <2>1. /\ ctHdl[h] = Gone /\ HdlTo(h, Idle) /\ ctConn' = h
          /\ ctDisp' = [ctDisp EXCEPT ![h] = [at |-> "list"]]
          /\ UNCHANGED <<ingestVars, ctLive, ctOld, ctClean, ctPending, ctTold, ctCleaned, ctExcused, ctFaults>>
      BY <1>1 DEF MachineConnects
    <2>2. CtCore' /\ OldIsQuiet' /\ SweepList' /\ ctHdl' \in [Handlers -> HdlSteps]
      BY <2>1, HandlerTakes, CtFacts
    <2>3. CtTypes'
      BY <2>1, <2>2 DEF CtTypes, ingestVars, Dispatches
    <2>4. DispatchSent'
      <3>1. \A i \in Handlers : ctDisp'[i] = IF i = h THEN [at |-> "list"] ELSE ctDisp[i]
        BY <2>1 DEF CtTypes
      <3> QED
        BY <2>1, <3>1 DEF DispatchSent
    <2>5. CleanedIsTold'
      BY <2>1 DEF CleanedIsTold
    <2> QED
      BY <2>2, <2>3, <2>4, <2>5
  <1>2. CASE HandlerEnds(h)
    <2>1. /\ ctHdl[h].at \in {"idle", "got"} /\ HdlTo(h, Gone)
          /\ UNCHANGED <<ingestVars, ctLive, ctOld, ctConn, ctClean, ctPending, ctDisp, ctTold, ctCleaned, ctExcused, ctFaults>>
      BY <1>2 DEF HandlerEnds, cleanupVars
    <2>2. CtCore' /\ OldIsQuiet' /\ SweepList' /\ ctHdl' \in [Handlers -> HdlSteps]
      BY <2>1, HandlerTakes, CtFacts
    <2>3. CtTypes'
      BY <2>1, <2>2 DEF CtTypes, ingestVars
    <2> QED
      BY <2>1, <2>2, <2>3 DEF DispatchSent, CleanedIsTold
  <1> QED
    BY <1>1, <1>2

(* An event is received: output of a live session, or its exit.            *)
LEMMA CtReceive ==
    ASSUME CtInd, NEW h \in Handlers, NEW ev \in CtEvents, Receive(h, ev)
    PROVE  CtInd'
  <1> USE DEF CtInd
  <1> DEFINE st == [at |-> "got", ev |-> ev]
  <1>1. st \in HdlSteps /\ st.at = "got" /\ st.ev = ev
    BY DEF HdlSteps
  <1>2. /\ ctHdl[h] = Idle /\ ev.s \in ctLive /\ HdlTo(h, st)
        /\ ctLive' = IF ev.kind = "exit" THEN ctLive \ {ev.s} ELSE ctLive
        /\ UNCHANGED <<ingestVars, ctOld, ctConn, ctClean, ctPending, ctDisp, ctTold, ctCleaned, ctExcused, ctFaults>>
    BY DEF Receive, cleanupVars
  <1> HIDE DEF st
  <1>3. ctLive' \subseteq ctLive /\ (ev.kind = "exit" => ev.s \notin ctLive')
    BY <1>2
  <1>4. CtCore' /\ OldIsQuiet' /\ SweepList' /\ ctHdl' \in [Handlers -> HdlSteps]
    BY <1>1, <1>2, <1>3, HandlerTakes, CtFacts
  <1>5. CtTypes'
    BY <1>2, <1>3, <1>4 DEF CtTypes, ingestVars
  <1> QED
    BY <1>2, <1>4, <1>5 DEF DispatchSent, CleanedIsTold

(* One transaction: the lines are stored, or they are lost.                *)
LEMMA Insert ==
    ASSUME CtTypes, RowsDistinct, NEW S \in SUBSET Lines, S \cap Stored = {}, InsertContentLines(S)
    PROVE  /\ ctRows' \in [Lines -> Nat] /\ RowsDistinct' /\ ctLost \subseteq ctLost' /\ ctLost' \subseteq Lines
           /\ Stored \subseteq Stored' /\ Stored' \subseteq Stored \cup S
           /\ S \subseteq Stored' \/ S \subseteq ctLost'
           /\ CtFault \/ UNCHANGED ctFaults
  <1>1. CASE ctRows' = AddRows(S) /\ UNCHANGED <<ctLost, ctFaults>>
    <2>1. \A l \in Lines : ctRows'[l] = IF l \in S THEN ctRows[l] + 1 ELSE ctRows[l]
      BY <1>1 DEF AddRows
    <2>2. ctRows' \in [Lines -> Nat]
      BY <1>1 DEF AddRows, CtTypes
    <2>3. \A l \in S : ctRows[l] = 0
      BY DEF Stored, CtTypes
    <2>4. RowsDistinct'
      BY <2>1, <2>3 DEF RowsDistinct
    <2>5. Stored' = Stored \cup S
      BY <2>1, <2>3 DEF Stored, CtTypes
    <2> QED
      BY <1>1, <2>2, <2>4, <2>5 DEF CtTypes
  <1>2. CASE CtFault /\ ctLost' = ctLost \cup S /\ UNCHANGED ctRows
    BY <1>2 DEF CtTypes, RowsDistinct, Stored
  <1> QED
    BY <1>1, <1>2 DEF InsertContentLines

(* The flush loop takes a batch.                                           *)
LEMMA CtFlushTakes ==
    ASSUME CtInd, NEW s \in CtSessions, flushContent(s)
    PROVE  CtInd'
  <1> USE DEF CtInd, CtCore
  <1>1. /\ ctLoop = {} /\ ctLoop' = ctBuf[s].batch /\ ctBuf' = [ctBuf EXCEPT ![s].batch = {}]
        /\ UNCHANGED <<ctGen, ctHdl, ctRows, ctMeta, ctLive, ctHeard, ctLost, ctLate, ctOld, ctConn, ctReg, ctFaults>>
        /\ UNCHANGED <<ctClean, ctPending, ctDisp, ctTold, ctCleaned, ctExcused>>
    BY DEF flushContent, TakeBatch, cleanupVars
  <1> DEFINE b == [ctBuf[s] EXCEPT !.batch = {}]
  <1>2. b \in Buffers /\ b.count = ctBuf[s].count /\ b.partial = ctBuf[s].partial /\ b.batch = {}
    BY BufCases DEF Buffers
  <1>3. ctBuf' = [ctBuf EXCEPT ![s] = b]
    BY <1>1
  <1> HIDE DEF b
  <1>4. /\ ctBuf' \in [CtSessions -> Buffers]
        /\ \A t \in CtSessions : /\ ctBuf'[t].count = ctBuf[t].count /\ ctBuf'[t].partial = ctBuf[t].partial
                                 /\ ctBuf'[t].batch = IF t = s THEN {} ELSE ctBuf[t].batch
    BY <1>2, <1>3 DEF CtTypes
  <1>5. CtTypes'
    BY <1>1, <1>4, BufCases DEF CtTypes
  <1>6. \A h \in Handlers : /\ HeldBy(h)' = HeldBy(h)
                            /\ \A t : (Leaves(h, t)' <=> Leaves(h, t)) /\ (Flushes(h, t)' <=> Flushes(h, t))
    BY <1>1, SameHandler
  <1>7. Stored' = Stored
    BY <1>1 DEF Stored
  <1>8. OneExit'
    BY <1>1, <1>6 DEF OneExit
  <1>9. FlushCounts' /\ LineRoom'
    BY <1>1, <1>4, <1>6 DEF FlushCounts, LineRoom
  <1>10. GenBound'
    BY <1>1, <1>6, GensKept, FaultCounts
  <1>11. \A l \in Lines : Known(l)' <=> Known(l)
    BY <1>1, <1>4 DEF Known, Lines
  <1>12. Numbers'
    <2>1. Stored \subseteq Lines /\ ctBuf[s].batch \subseteq Lines /\ \A h \in Handlers : HeldBy(h) \subseteq Lines
      BY BufCases, HdlCases DEF Stored
    <2>2. \A l \in Stored' \cup ctLoop' : Known(l)'
      BY <1>1, <1>7, <1>11, <2>1 DEF Numbers
    <2>3. \A t \in CtSessions : \A l \in ctBuf'[t].batch : l.s = t /\ l.g = ctGen'[t] /\ Known(l)'
      BY <1>1, <1>4, <1>11, BufCases DEF Numbers
    <2>4. \A h \in Handlers : \A l \in HeldBy(h)' : l.s = ctHdl'[h].s /\ Known(l)'
      BY <1>1, <1>6, <1>11, <2>1 DEF Numbers
    <2> QED
      BY <2>2, <2>3, <2>4 DEF Numbers
  <1>13. Places'
    <2>1. RowsDistinct'
      BY <1>1 DEF RowsDistinct, Places
    <2>2. \A t \in CtSessions : t # s => ctBuf[t].batch \cap ctBuf[s].batch = {}
      BY DEF Numbers
    <2> QED
      BY <1>1, <1>4, <1>6, <1>7, <2>1, <2>2 DEF Places
  <1>14. Gapless'
    <2> SUFFICES ASSUME NEW t \in CtSessions PROVE FirstBuffer(t)' /\ AfterFirst(t)'
      BY DEF Gapless
    <2>1. LinesOf(t)' = LinesOf(t)
      BY <1>1, <1>4, <1>6, <1>7 DEF LinesOf, Numbers
    <2>2. SameFor(t)
      BY <1>1, <1>4, <1>6, <2>1 DEF SameFor, Whole
    <2> QED
      BY <2>2, GaplessFor DEF Gapless
  <1>15. OldIsQuiet'
    BY <1>1, OldSame
  <1>16. SweepList' /\ DispatchSent' /\ CleanedIsTold'
    BY <1>1 DEF SweepList, DispatchSent, CleanedIsTold
  <1> QED
    BY <1>5, <1>8, <1>9, <1>10, <1>12, <1>13, <1>14, <1>15, <1>16

(* The flush loop writes its batch.                                        *)
LEMMA CtFlushWrites == ASSUME CtInd, flushContentWrites PROVE CtInd'
  <1> USE DEF CtInd, CtCore
  <1>1. /\ InsertContentLines(ctLoop) /\ ctLoop' = {}
        /\ UNCHANGED <<ctBuf, ctGen, ctHdl, ctMeta, ctLive, ctHeard, ctLate, ctOld, ctConn, ctReg>>
        /\ UNCHANGED <<ctClean, ctPending, ctDisp, ctTold, ctCleaned, ctExcused>>
    BY DEF flushContentWrites, cleanupVars
  <1>2. ctLoop \in SUBSET Lines /\ ctLoop \cap Stored = {} /\ RowsDistinct
    BY DEF CtTypes, Places
  <1>3. /\ ctRows' \in [Lines -> Nat] /\ RowsDistinct' /\ ctLost \subseteq ctLost' /\ ctLost' \subseteq Lines
        /\ Stored \subseteq Stored' /\ Stored' \subseteq Stored \cup ctLoop
        /\ ctLoop \subseteq Stored' \/ ctLoop \subseteq ctLost'
        /\ CtFault \/ UNCHANGED ctFaults
    BY <1>1, <1>2, Insert
  <1>4. ctFaults' \in 0 .. MaxCtFaults /\ ctFaults' \in Nat /\ ctFaults' >= ctFaults
    BY <1>3, FaultCounts
  <1>5. CtTypes'
    BY <1>1, <1>3, <1>4 DEF CtTypes
  <1>6. \A h \in Handlers : /\ HeldBy(h)' = HeldBy(h)
                            /\ \A t : (Leaves(h, t)' <=> Leaves(h, t)) /\ (Flushes(h, t)' <=> Flushes(h, t))
    BY <1>1, SameHandler
  <1>7. OneExit'
    BY <1>1, <1>6 DEF OneExit
  <1>8. FlushCounts' /\ LineRoom'
    BY <1>1, <1>6 DEF FlushCounts, LineRoom
  <1>9. GenBound'
    BY <1>1, <1>4, <1>6, GensKept
  <1>10. Numbers'
    BY <1>1, <1>3, <1>6 DEF Numbers, Known
  <1>11. Places'
    BY <1>1, <1>3, <1>6 DEF Places
  <1>12. Gapless'
    <2> SUFFICES ASSUME NEW t \in CtSessions PROVE FirstBuffer(t)' /\ AfterFirst(t)'
      BY DEF Gapless
    <2>1. ASSUME Whole(t)' PROVE Whole(t) /\ LinesOf(t)' = LinesOf(t)
      <3>1. Whole(t)
        BY <1>1, <1>3, <2>1 DEF Whole
      <3>2. \A l \in ctLoop : l.s = t => l \in Stored'
        BY <1>3, <2>1 DEF Whole
      <3> QED
        BY <1>1, <1>2, <1>3, <1>6, <3>1, <3>2 DEF LinesOf
    <2>2. SameFor(t)
      BY <1>1, <1>6, <2>1 DEF SameFor
    <2> QED
      BY <2>2, GaplessFor DEF Gapless
  <1>13. OldIsQuiet'
    BY <1>1, OldSame
  <1>14. SweepList' /\ DispatchSent' /\ CleanedIsTold'
    BY <1>1 DEF SweepList, DispatchSent, CleanedIsTold
  <1> QED
    BY <1>5, <1>7, <1>8, <1>9, <1>10, <1>11, <1>12, <1>13, <1>14

(* What a handler writes was in no other place.  A flush goes on to the    *)
(* count, which is the one it has taken.                                   *)
LEMMA CtWrites ==
    ASSUME CtInd, NEW h \in Handlers, writeBatch(h)
    PROVE  CtInd'
  <1> USE DEF CtInd, CtCore
  <1>1. PICK s \in CtSessions, S \in SUBSET Lines, st \in HdlSteps :
           s = ctHdl[h].s /\ S = ctHdl[h].lines /\ st = ctHdl[h].then
    BY HdlCases, StepCases DEF writeBatch
  <1>2. /\ ctHdl[h].at = "write" /\ InsertContentLines(S) /\ HdlTo(h, st)
        /\ UNCHANGED <<ctBuf, ctGen, ctLoop, ctMeta, ctLive, ctHeard, ctLate, ctOld, ctConn, ctReg>>
        /\ UNCHANGED <<ctClean, ctPending, ctDisp, ctTold, ctCleaned, ctExcused>>
    BY <1>1 DEF writeBatch, cleanupVars
  <1>3. st = Idle \/ (st # Idle /\ st.at = "meta")
    BY <1>1, <1>2, HdlCases, StepCases
  <1>4. HeldBy(h) = S /\ S \cap Stored = {} /\ RowsDistinct
    BY <1>1, <1>2 DEF HeldBy, Places
  <1>5. /\ ctRows' \in [Lines -> Nat] /\ RowsDistinct' /\ ctLost \subseteq ctLost' /\ ctLost' \subseteq Lines
        /\ Stored \subseteq Stored' /\ Stored' \subseteq Stored \cup S
        /\ S \subseteq Stored' \/ S \subseteq ctLost'
        /\ CtFault \/ UNCHANGED ctFaults
    BY <1>2, <1>4, Insert
  <1>6. ctFaults' \in 0 .. MaxCtFaults /\ ctFaults' \in Nat /\ ctFaults' >= ctFaults
    BY <1>5, FaultCounts
  <1>7. /\ ctHdl' \in [Handlers -> HdlSteps] /\ ctHdl'[h] = st
        /\ \A i \in Handlers : i # h => ctHdl'[i] = ctHdl[i]
    BY <1>2 DEF HdlTo, CtTypes
  <1>8. CtTypes'
    BY <1>2, <1>5, <1>6, <1>7 DEF CtTypes
  <1>9. \A i \in Handlers : i # h => /\ HeldBy(i)' = HeldBy(i)
                                     /\ \A t : /\ WorksFor(i, t)' <=> WorksFor(i, t)
                                               /\ Leaves(i, t)' <=> Leaves(i, t)
                                               /\ Flushes(i, t)' <=> Flushes(i, t)
    BY <1>7, SameHandler
  <1>10. st # Idle => Flushes(h, s) /\ st.s = s /\ st.n <= ctBuf[s].count /\ ctBuf[s].count > 0
    BY <1>1, <1>2 DEF Flushes, FlushCounts
  <1>11. HeldBy(h)' = {} /\ \A t : ~HasExit(h, t) /\ ~HasExit(h, t)'
    BY <1>2, <1>3, <1>7, CtFacts DEF HeldBy, HasExit
  <1>12. \A t : /\ Flushes(h, t)' <=> (st # Idle /\ t = s)
                /\ Flushes(h, t) <=> (st # Idle /\ t = s)
                /\ WorksFor(h, t)' => t = s
                /\ WorksFor(h, s)
    BY <1>1, <1>2, <1>3, <1>7, <1>10, CtFacts DEF Flushes, WorksFor
  <1>13. \A i \in Handlers : \A t : /\ Flushes(i, t)' <=> Flushes(i, t)
                                    /\ Leaves(i, t)' <=> Leaves(i, t)
                                    /\ WorksFor(i, t)' => WorksFor(i, t)
    BY <1>9, <1>11, <1>12 DEF Leaves
  <1>14. OneExit' /\ OldIsQuiet'
    BY <1>2, <1>13, ExitsKept
  <1>15. FlushCounts'
    <2> SUFFICES ASSUME NEW i \in Handlers, NEW t \in CtSessions, Flushes(i, t)'
                 PROVE  /\ ctBuf'[t].count > 0
                        /\ ctHdl'[i].at = "write" => ctHdl'[i].then.s = t /\ ctHdl'[i].then.n <= ctBuf'[t].count
                        /\ ctHdl'[i].at = "meta" => ctHdl'[i].n <= ctBuf'[t].count
      BY DEF FlushCounts
    <2>1. CASE i = h
      BY <1>2, <1>3, <1>7, <1>10, <1>12, <2>1
    <2>2. CASE i # h
      BY <1>2, <1>7, <1>13, <2>2 DEF FlushCounts
    <2> QED
      BY <2>1, <2>2
  <1>16. LineRoom'
    BY <1>2, <1>13 DEF LineRoom
  <1>17. GenBound'
    BY <1>2, <1>6, <1>13, GensKept
  <1>18. Numbers'
    <2>1. \A l : Known(l)' <=> Known(l)
      BY <1>2 DEF Known
    <2>2. \A l \in Stored' \cup ctLoop' : Known(l)'
      BY <1>2, <1>4, <1>5, <2>1 DEF Numbers
    <2>3. \A i \in Handlers : \A l \in HeldBy(i)' : l.s = ctHdl'[i].s /\ Known(l)'
      BY <1>7, <1>9, <1>11, <2>1 DEF Numbers
    <2> QED
      BY <1>2, <2>1, <2>2, <2>3 DEF Numbers
  <1>19. Places'
    <2>1. \A i \in Handlers : HeldBy(i)' \subseteq HeldBy(i) /\ HeldBy(i)' \cap S = {}
      BY <1>4, <1>9, <1>11 DEF Places
    <2>2. \A t \in CtSessions : ctBuf[t].batch \cap S = {}
      BY <1>4 DEF Places
    <2>3. ctLoop \cap S = {}
      BY <1>4 DEF Places
    <2> QED
      BY <1>2, <1>5, <2>1, <2>2, <2>3 DEF Places
  <1>20. Gapless'
    <2> SUFFICES ASSUME NEW t \in CtSessions PROVE FirstBuffer(t)' /\ AfterFirst(t)'
      BY DEF Gapless
    <2>1. ASSUME Whole(t)' PROVE Whole(t) /\ LinesOf(t)' = LinesOf(t)
      <3>1. Whole(t)
        BY <1>2, <1>5, <2>1 DEF Whole
      <3>2. \A l \in S : l.s = t => l \in Stored'
        BY <1>5, <2>1 DEF Whole
      <3>3. \A l : (\E i \in Handlers : l \in HeldBy(i)) <=> l \in S \/ (\E i \in Handlers : l \in HeldBy(i)')
        BY <1>4, <1>9, <1>11
      <3> QED
        BY <1>2, <1>5, <3>1, <3>2, <3>3 DEF LinesOf
    <2>2. ASSUME NEW i \in Handlers, Flushes(i, t)
          PROVE  \/ ctHdl'[i] = ctHdl[i]
                 \/ ctHdl[i].at = "write" /\ ctHdl'[i] = ctHdl[i].then /\ ctHdl'[i].at = "meta"
      BY <1>1, <1>2, <1>3, <1>7, <1>12, <2>2
    <2>3. SameFor(t)
      BY <1>2, <1>13, <2>1, <2>2 DEF SameFor
    <2> QED
      BY <2>3, GaplessFor DEF Gapless
  <1>21. SweepList' /\ DispatchSent' /\ CleanedIsTold'
    BY <1>2 DEF SweepList, DispatchSent, CleanedIsTold
  <1> QED
    BY <1>8, <1>14, <1>15, <1>16, <1>17, <1>18, <1>19, <1>20, <1>21

(* line_count is written, or is left to the next flush.                    *)
LEMMA CtMeta ==
    ASSUME CtInd, NEW h \in Handlers, FlushWritesMeta(h)
    PROVE  CtInd'
  <1> USE DEF CtInd, CtCore
  <1>1. PICK s \in CtSessions, n \in Counts : s = ctHdl[h].s /\ n = ctHdl[h].n
    BY HdlCases, StepCases DEF FlushWritesMeta
  <1> DEFINE st == [at |-> "forget", s |-> s]
  <1>2. /\ ctHdl[h].at = "meta" /\ HdlTo(h, st)
        /\ UNCHANGED <<ctBuf, ctGen, ctLoop, ctRows, ctLive, ctHeard, ctLost, ctLate, ctOld, ctConn, ctReg>>
        /\ UNCHANGED <<ctClean, ctPending, ctDisp, ctTold, ctCleaned, ctExcused>>
        /\ CtFault \/ UNCHANGED ctFaults
        /\ ctMeta' = ctMeta \/ ctMeta' = [ctMeta EXCEPT ![s] = n]
    BY <1>1 DEF FlushWritesMeta, UpsertContentMeta, cleanupVars
  <1>3. st \in HdlSteps /\ st.at = "forget" /\ st.s = s
    BY DEF HdlSteps
  <1> HIDE DEF st
  <1>4. ctFaults' \in 0 .. MaxCtFaults /\ ctFaults' \in Nat /\ ctFaults' >= ctFaults
    BY <1>2, FaultCounts
  <1>5. /\ ctHdl' \in [Handlers -> HdlSteps] /\ ctHdl'[h] = st
        /\ \A i \in Handlers : i # h => ctHdl'[i] = ctHdl[i]
    BY <1>2, <1>3 DEF HdlTo, CtTypes
  <1>6. /\ ctMeta' \in [CtSessions -> Counts] /\ ctMeta'[s] \in {n, ctMeta[s]}
        /\ \A t \in CtSessions : t # s => ctMeta'[t] = ctMeta[t]
    BY <1>2 DEF CtTypes
  <1>7. CtTypes'
    BY <1>2, <1>4, <1>5, <1>6 DEF CtTypes
  <1>8. /\ HeldBy(h)' = {} /\ HeldBy(h) = {} /\ WorksFor(h, s) /\ Flushes(h, s)
        /\ \A t : /\ WorksFor(h, t)' <=> WorksFor(h, t)
                  /\ Leaves(h, t)' <=> Leaves(h, t)
                  /\ Flushes(h, t)' <=> Flushes(h, t)
    BY <1>1, <1>2, <1>3, <1>5 DEF HeldBy, WorksFor, Leaves, HasExit, Flushes
  <1>9. \A i \in Handlers : /\ HeldBy(i)' = HeldBy(i)
                            /\ \A t : /\ WorksFor(i, t)' <=> WorksFor(i, t)
                                      /\ Leaves(i, t)' <=> Leaves(i, t)
                                      /\ Flushes(i, t)' <=> Flushes(i, t)
    BY <1>5, <1>8, SameHandler
  <1>10. OneExit' /\ OldIsQuiet'
    BY <1>2, <1>9, ExitsKept
  <1>11. FlushCounts' /\ LineRoom'
    <2>1. \A i \in Handlers : ctHdl'[i] = ctHdl[i] \/ ctHdl'[i].at = "forget"
      BY <1>3, <1>5
    <2>2. FlushCounts'
      BY <1>2, <1>9, <2>1 DEF FlushCounts
    <2>3. LineRoom'
      BY <1>2, <1>9 DEF LineRoom
    <2> QED
      BY <2>2, <2>3
  <1>12. GenBound'
    BY <1>2, <1>4, <1>9, GensKept
  <1>13. Stored' = Stored
    BY <1>2 DEF Stored
  <1>14. Numbers'
    <2>1. \A l : Known(l)' <=> Known(l)
      BY <1>2 DEF Known
    <2>2. \A i \in Handlers : \A l \in HeldBy(i)' : l.s = ctHdl'[i].s /\ Known(l)'
      BY <1>5, <1>8, <1>9, <2>1 DEF Numbers
    <2> QED
      BY <1>2, <1>13, <2>1, <2>2 DEF Numbers
  <1>15. Places'
    BY <1>2, <1>9, <1>13 DEF Places, RowsDistinct
  <1>16. Gapless'
    <2> SUFFICES ASSUME NEW t \in CtSessions PROVE FirstBuffer(t)' /\ AfterFirst(t)'
      BY DEF Gapless
    <2>1. LinesOf(t)' = LinesOf(t)
      BY <1>2, <1>9, SameLines
    <2>2. CASE t # s
      <3>1. \A i \in Handlers : Flushes(i, t) => i # h
        BY <1>1, <1>2, <2>2 DEF Flushes
      <3>2. SameFor(t)
        BY <1>2, <1>5, <1>6, <1>9, <2>1, <2>2, <3>1 DEF SameFor, Whole
      <3> QED
        BY <3>2, GaplessFor DEF Gapless
    <2>3. CASE t = s
      <3>1. (Whole(s)' <=> Whole(s)) /\ HeardIn(s)' = HeardIn(s) /\ ctBuf'[s] = ctBuf[s] /\ ctGen'[s] = ctGen[s]
        BY <1>2 DEF Whole, HeardIn
      <3>2. ~Bare(s)'
        BY <1>8, <3>1, BufCases DEF Bare, FlushCounts
      <3>3. ASSUME Whole(s)', ctGen'[s] = 0, NEW i \in Handlers, Flushes(i, s)'
            PROVE  InFlush(i, s)'
        <4>1. i = h
          BY <1>8, <1>9, <3>3 DEF OneExit, Leaves
        <4>2. InFlush(h, s)
          BY <1>2, <1>8, <3>1, <3>3 DEF Gapless, FirstBuffer
        <4>3. ctMeta'[s] \in {0, ctBuf[s].count}
          BY <1>1, <1>2, <1>6, <4>2 DEF InFlush
        <4> QED
          BY <1>3, <1>5, <3>1, <4>1, <4>2, <4>3 DEF InFlush
      <3>4. FirstBuffer(s)'
        <4>1. Flushes(h, s)'
          BY <1>8
        <4>2. Whole(s) /\ ctGen[s] = 0 => Nums(LinesOf(s)) = 1 .. ctBuf[s].count
          BY DEF Gapless, FirstBuffer
        <4> QED
          BY <2>1, <2>3, <3>1, <3>3, <4>1, <4>2 DEF FirstBuffer
      <3> QED
        BY <2>3, <3>2, <3>4 DEF AfterFirst
    <2> QED
      BY <2>2, <2>3
  <1>17. SweepList'
    <2>1. s \notin ctClean.todo
      BY <1>8 DEF SweepList, OldIsQuiet
    <2> QED
      BY <1>2, <1>6, <2>1, CleanCases DEF SweepList
  <1>18. DispatchSent' /\ CleanedIsTold'
    BY <1>2 DEF DispatchSent, CleanedIsTold
  <1> QED
    BY <1>7, <1>10, <1>11, <1>12, <1>14, <1>15, <1>16, <1>17, <1>18

(* The buffer goes when its flush is over.  It was the first one only if   *)
(* no fault came before, and then line_count is what was heard.            *)
LEMMA CtForgets ==
    ASSUME CtInd, NEW h \in Handlers, FlushForgets(h)
    PROVE  CtInd'
  <1> USE DEF CtInd, CtCore
  <1>1. PICK s \in CtSessions : s = ctHdl[h].s
    BY HdlCases, StepCases DEF FlushForgets
  <1>2. /\ ctHdl[h].at = "forget" /\ HdlTo(h, Idle)
        /\ ctBuf' = [ctBuf EXCEPT ![s] = NoBuffer] /\ ctGen' = [ctGen EXCEPT ![s] = @ + 1]
        /\ ctLost' = ctLost \cup ctBuf[s].batch
        /\ UNCHANGED <<ctLoop, ctRows, ctMeta, ctLive, ctHeard, ctLate, ctOld, ctConn, ctReg, ctFaults>>
        /\ UNCHANGED <<ctClean, ctPending, ctDisp, ctTold, ctCleaned, ctExcused>>
    BY <1>1 DEF FlushForgets, cleanupVars
  <1>3. /\ ctHdl' \in [Handlers -> HdlSteps] /\ ctHdl'[h] = Idle
        /\ \A i \in Handlers : i # h => ctHdl'[i] = ctHdl[i]
    BY <1>2, CtFacts DEF HdlTo, CtTypes
  <1>4. /\ ctBuf' \in [CtSessions -> Buffers] /\ ctBuf'[s] = NoBuffer
        /\ ctGen' \in [CtSessions -> Nat] /\ ctGen'[s] = ctGen[s] + 1
        /\ \A t \in CtSessions : t # s => ctBuf'[t] = ctBuf[t] /\ ctGen'[t] = ctGen[t]
    BY <1>2, CtFacts DEF CtTypes
  <1>5. CtTypes'
    BY <1>2, <1>3, <1>4, BufCases DEF CtTypes
  <1>6. /\ HeldBy(h) = {} /\ HeldBy(h)' = {} /\ Flushes(h, s)
        /\ \A t : ~WorksFor(h, t)' /\ ~Leaves(h, t)' /\ ~Flushes(h, t)' /\ (Flushes(h, t) => t = s)
    BY <1>1, <1>2, <1>3, CtFacts DEF HeldBy, WorksFor, Leaves, HasExit, Flushes
  <1>7. \A i \in Handlers : i # h => /\ HeldBy(i)' = HeldBy(i)
                                     /\ \A t : /\ WorksFor(i, t)' <=> WorksFor(i, t)
                                               /\ Leaves(i, t)' <=> Leaves(i, t)
                                               /\ Flushes(i, t)' <=> Flushes(i, t)
    BY <1>3, SameHandler
  <1>8. \A i \in Handlers : HeldBy(i)' = HeldBy(i)
    BY <1>6, <1>7
  <1>9. s \notin ctLive /\ \A i \in Handlers : ~Leaves(i, s)' /\ ~Flushes(i, s)'
    BY <1>6, <1>7 DEF OneExit, Leaves
  <1>10. OneExit' /\ OldIsQuiet'
    BY <1>2, <1>6, <1>7, ExitsKept
  <1>11. FlushCounts'
    <2> SUFFICES ASSUME NEW i \in Handlers, NEW t \in CtSessions, Flushes(i, t)'
                 PROVE  /\ ctBuf'[t].count > 0
                        /\ ctHdl'[i].at = "write" => ctHdl'[i].then.s = t /\ ctHdl'[i].then.n <= ctBuf'[t].count
                        /\ ctHdl'[i].at = "meta" => ctHdl'[i].n <= ctBuf'[t].count
      BY DEF FlushCounts
    <2>1. i # h /\ t # s
      BY <1>6, <1>9
    <2> QED
      BY <1>3, <1>4, <1>7, <2>1 DEF FlushCounts
  <1>12. LineRoom'
    BY <1>4, <1>6, <1>7, CtFacts DEF LineRoom
  <1>13. GenBound'
    <2>1. ctGen[s] <= ctFaults
      BY <1>6 DEF GenBound, Unflushed, Leaves
    <2>2. ~Unflushed(s)'
      BY <1>2, <1>9 DEF Unflushed
    <2>3. \A t \in CtSessions : Unflushed(t)' => Unflushed(t)
      BY <1>2, <1>6, <1>7 DEF Unflushed
    <2>4. ctFaults \in Nat /\ ctGen[s] \in Nat
      BY BufCases DEF CtTypes
    <2> QED
      BY <1>2, <1>4, <2>1, <2>2, <2>3, <2>4 DEF GenBound
  <1>14. Stored' = Stored
    BY <1>2 DEF Stored
  <1>15. Numbers'
    <2>1. ASSUME NEW l \in Lines, Known(l) PROVE Known(l)'
      <3>1. l.s \in CtSessions /\ l.g \in Nat
        BY DEF Lines
      <3>2. CASE l.s = s
        BY <1>4, <2>1, <3>1, <3>2, BufCases DEF Known
      <3>3. CASE l.s # s
        BY <1>4, <2>1, <3>1, <3>3 DEF Known
      <3> QED
        BY <3>2, <3>3
    <2>2. Stored \cup ctLoop \subseteq Lines
      BY DEF Stored, CtTypes
    <2>3. \A l \in Stored' \cup ctLoop' : Known(l)'
      BY <1>2, <1>14, <2>1, <2>2 DEF Numbers
    <2>4. ASSUME NEW t \in CtSessions, NEW l \in ctBuf'[t].batch PROVE l.s = t /\ l.g = ctGen'[t] /\ Known(l)'
      <3>1. t # s
        BY <1>4, <2>4, CtFacts
      <3>2. l \in ctBuf[t].batch /\ l \in Lines
        BY <1>4, <2>4, <3>1, BufCases
      <3> QED
        BY <1>4, <2>1, <3>1, <3>2 DEF Numbers
    <2>5. \A i \in Handlers : \A l \in HeldBy(i)' : l.s = ctHdl'[i].s /\ Known(l)'
      BY <1>3, <1>6, <1>7, <2>1, HdlCases DEF Numbers
    <2> QED
      BY <2>3, <2>4, <2>5 DEF Numbers
  <1>16. Places'
    <2>1. \A t \in CtSessions : ctBuf'[t].batch \subseteq ctBuf[t].batch
      BY <1>4, CtFacts
    <2>2. RowsDistinct'
      BY <1>2 DEF RowsDistinct, Places
    <2> QED
      BY <1>2, <1>8, <1>14, <2>1, <2>2 DEF Places
  <1>17. Gapless'
    <2> SUFFICES ASSUME NEW t \in CtSessions PROVE FirstBuffer(t)' /\ AfterFirst(t)'
      BY DEF Gapless
    <2>1. CASE t # s
      <3>1. LinesOf(t)' = LinesOf(t)
        BY <1>2, <1>4, <1>8, <2>1, SameLines
      <3>2. Whole(t)' <=> Whole(t)
        <4>1. \A l \in ctBuf[s].batch : l.s = s
          BY DEF Numbers
        <4> QED
          BY <1>2, <2>1, <4>1 DEF Whole
      <3>3. \A i \in Handlers : (Flushes(i, t)' <=> Flushes(i, t)) /\ (Flushes(i, t) => ctHdl'[i] = ctHdl[i])
        BY <1>3, <1>6, <1>7, <2>1
      <3>4. SameFor(t)
        BY <1>2, <1>4, <2>1, <3>1, <3>2, <3>3 DEF SameFor
      <3> QED
        BY <3>4, GaplessFor DEF Gapless
    <2>2. CASE t = s
      <3>1. FirstBuffer(s)'
        BY <1>4, BufCases DEF FirstBuffer
      <3>2. ASSUME Whole(s)', ctGen'[s] = 1, ctMeta'[s] > 0
            PROVE  Nums(LinesOf(s)') = 1 .. ctMeta'[s] /\ ctMeta'[s] = HeardIn(s)'
        <4>1. Whole(s) /\ ctGen[s] = 0
          BY <1>2, <1>4, <3>2, BufCases DEF Whole
        <4>2. InFlush(h, s) /\ Nums(LinesOf(s)) = 1 .. ctBuf[s].count
          BY <1>6, <4>1 DEF Gapless, FirstBuffer
        <4>3. LinesOf(s)' = LinesOf(s)
          <5>1. ctBuf'[s].batch = ctBuf[s].batch
            BY <1>4, <4>2, CtFacts DEF InFlush
          <5> QED
            BY <1>2, <1>8, <5>1, SameLines
        <4>4. ctMeta[s] = ctBuf[s].count /\ HeardIn(s)' = HeardIn(s) /\ ctBuf[s].count = HeardIn(s)
          BY <1>2, <3>2, <4>2 DEF InFlush, HeardIn
        <4> QED
          BY <1>2, <4>2, <4>3, <4>4
      <3> QED
        BY <2>2, <3>1, <3>2 DEF AfterFirst
    <2> QED
      BY <2>1, <2>2
  <1>18. SweepList' /\ DispatchSent' /\ CleanedIsTold'
    BY <1>2 DEF SweepList, DispatchSent, CleanedIsTold
  <1> QED
    BY <1>5, <1>10, <1>11, <1>12, <1>13, <1>15, <1>16, <1>17, <1>18

(* The lines that are cut off next follow the last one, and are new.       *)
LEMMA NextLines ==
    ASSUME CtInd, NEW s \in CtSessions, NEW k \in 0 .. 1, ctBuf[s].count + k <= MaxLines
    PROVE  /\ Numbered(s, k) \subseteq Lines
           /\ \A l \in Numbered(s, k) : l.s = s /\ l.g = ctGen[s] /\ l.n = ctBuf[s].count + 1 /\ k = 1 /\ ~Known(l)
           /\ k = 1 => \E l \in Numbered(s, k) : l.n = ctBuf[s].count + 1
  <1>1. ctBuf[s].count \in Nat /\ ctGen[s] \in Nat /\ ctGen[s] <= ctFaults + 1 /\ ctFaults <= MaxCtFaults /\ ctFaults \in Nat
    BY BufCases DEF CtInd, CtCore, GenBound, CtTypes
  <1>2. CASE k = 0
    BY <1>2 DEF Numbered
  <1>3. CASE k = 1
    <2> DEFINE l == [s |-> s, n |-> ctBuf[s].count + 1, g |-> ctGen[s]]
    <2>1. Numbered(s, k) = {l}
      BY <1>3 DEF Numbered
    <2>2. l \in Lines
      BY <1>1, <1>3, CtFacts DEF Lines
    <2>3. ~Known(l)
      BY <1>1 DEF Known
    <2> QED
      BY <1>3, <2>1, <2>2, <2>3
  <1> QED
    BY <1>2, <1>3

(* New lines are cut off, and the buffer's lines are with the handler or   *)
(* still in it: every line keeps to one place.                             *)
LEMMA TakesLines ==
    ASSUME CtInd, NEW h \in Handlers, NEW s \in CtSessions, NEW k \in 0 .. 1, ctBuf[s].count + k <= MaxLines,
           NEW B, NEW H, B \cup H = ctBuf[s].batch \cup Numbered(s, k), B = {} \/ H = {},
           ctBuf'[s].count = ctBuf[s].count + k, ctBuf'[s].batch = B,
           \A t \in CtSessions : t # s => ctBuf'[t] = ctBuf[t],
           HeldBy(h) = {}, HeldBy(h)' = H, H # {} => ctHdl'[h].s = s,
           \A i \in Handlers : i # h => ctHdl'[i] = ctHdl[i],
           ctRows' = ctRows, ctLoop' = ctLoop, ctGen' = ctGen
    PROVE  /\ Numbers' /\ Places'
           /\ \A t \in CtSessions : t # s => LinesOf(t)' = LinesOf(t)
           /\ LinesOf(s)' = LinesOf(s) \cup Numbered(s, k)
           /\ Nums(LinesOf(s)) = 1 .. ctBuf[s].count => Nums(LinesOf(s)') = 1 .. ctBuf'[s].count
  <1> USE DEF CtInd, CtCore
  <1> DEFINE F == Numbered(s, k)
  <1>1. /\ F \subseteq Lines
        /\ \A l \in F : l.s = s /\ l.g = ctGen[s] /\ l.n = ctBuf[s].count + 1 /\ k = 1 /\ ~Known(l)
        /\ k = 1 => \E l \in F : l.n = ctBuf[s].count + 1
    BY NextLines
  <1>2. Stored' = Stored
    BY DEF Stored
  <1>3. \A i \in Handlers : i # h => HeldBy(i)' = HeldBy(i)
    BY SameHandler
  <1>4. ctBuf[s].count \in Nat /\ ctBuf[s].batch \subseteq Lines /\ \A t \in CtSessions : ctBuf[t].batch \subseteq Lines
    BY BufCases
  <1>5. \A l \in ctBuf[s].batch \cup F : l \in Lines /\ l.s = s /\ l.g = ctGen[s]
    BY <1>1, <1>4 DEF Numbers
  <1>6. ASSUME NEW l \in Lines, Known(l) \/ l \in F PROVE Known(l)'
    <2>1. l.s \in CtSessions /\ l.g \in Nat /\ l.n \in Nat
      BY DEF Lines
    <2>2. CASE Known(l) /\ l.s # s
      BY <2>1, <2>2 DEF Known
    <2>3. CASE Known(l) /\ l.s = s
      BY <1>4, <2>1, <2>3 DEF Known
    <2>4. CASE l \in F
      BY <1>1, <1>4, <2>4 DEF Known
    <2> QED
      BY <1>6, <2>2, <2>3, <2>4
  <1> HIDE DEF F
  <1>7. \A i \in Handlers : HeldBy(i) \subseteq Lines
    BY HdlCases
  <1>8. Stored \cup ctLoop \subseteq Lines
    BY DEF Stored, CtTypes
  <1>9. Numbers'
    <2>1. \A l \in Stored' \cup ctLoop' : Known(l)'
      BY <1>2, <1>6, <1>8 DEF Numbers
    <2>2. \A l \in B \cup H : Known(l)' /\ l.s = s /\ l.g = ctGen[s]
      BY <1>5, <1>6 DEF Numbers, F
    <2>3. ASSUME NEW t \in CtSessions, NEW l \in ctBuf'[t].batch PROVE l.s = t /\ l.g = ctGen'[t] /\ Known(l)'
      <3>1. CASE t = s
        BY <2>2, <2>3, <3>1
      <3>2. CASE t # s
        BY <1>4, <1>6, <2>3, <3>2 DEF Numbers
      <3> QED
        BY <3>1, <3>2
    <2>4. ASSUME NEW i \in Handlers, NEW l \in HeldBy(i)' PROVE l.s = ctHdl'[i].s /\ Known(l)'
      <3>1. CASE i = h
        BY <2>2, <2>4, <3>1
      <3>2. CASE i # h
        BY <1>3, <1>6, <1>7, <2>4, <3>2 DEF Numbers
      <3> QED
        BY <3>1, <3>2
    <2> QED
      BY <2>1, <2>3, <2>4 DEF Numbers
  <1>10. Places'
    <2>1. RowsDistinct'
      BY DEF RowsDistinct, Places
    <2>2. F \cap (Stored \cup ctLoop) = {} /\ \A i \in Handlers : F \cap HeldBy(i) = {}
      BY <1>1 DEF Numbers
    <2>3. \A t \in CtSessions : t # s => ctBuf[t].batch \cap (ctBuf[s].batch \cup F) = {}
      BY <1>5 DEF Numbers
    <2>4. B \cup H = ctBuf[s].batch \cup F
      BY DEF F
    <2>5. \A t \in CtSessions : ctBuf'[t].batch \cap (Stored' \cup ctLoop') = {}
      BY <1>2, <2>2, <2>4 DEF Places
    <2>6. \A i \in Handlers : HeldBy(i)' \cap (Stored' \cup ctLoop') = {}
      BY <1>2, <1>3, <2>2, <2>4 DEF Places
    <2>7. ASSUME NEW i \in Handlers, NEW t \in CtSessions PROVE HeldBy(i)' \cap ctBuf'[t].batch = {}
      <3>1. CASE i = h
        BY <2>3, <2>4, <3>1
      <3>2. CASE i # h
        BY <1>3, <2>2, <2>4, <3>2 DEF Places
      <3> QED
        BY <3>1, <3>2
    <2>8. ASSUME NEW i \in Handlers, i # h PROVE HeldBy(i)' \cap HeldBy(h)' = {}
      BY <1>3, <2>2, <2>4, <2>8 DEF Places
    <2>9. ASSUME NEW i \in Handlers, NEW j \in Handlers, i # j PROVE HeldBy(i)' \cap HeldBy(j)' = {}
      <3>1. CASE i # h /\ j # h
        BY <1>3, <2>9, <3>1 DEF Places
      <3> QED
        BY <2>8, <2>9, <3>1
    <2>10. Stored' \cap ctLoop' = {}
      BY <1>2 DEF Places
    <2> QED
      BY <2>1, <2>5, <2>6, <2>7, <2>9, <2>10 DEF Places
  <1>11. \A l : (\E i \in Handlers : l \in HeldBy(i)') <=> l \in H \/ (\E i \in Handlers : l \in HeldBy(i))
    BY <1>3
  <1>12. \A t \in CtSessions : t # s => LinesOf(t)' = LinesOf(t)
    <2>1. \A l \in H : l.s = s
      BY <1>5 DEF F
    <2> QED
      BY <1>2, <1>11, <2>1 DEF LinesOf
  <1>13. LinesOf(s)' = LinesOf(s) \cup F
    <2>1. B \cup H = ctBuf[s].batch \cup F /\ F \subseteq Lines /\ \A l \in F : l.s = s
      BY <1>1 DEF F
    <2> QED
      BY <1>2, <1>11, <2>1 DEF LinesOf
  <1>14. ASSUME Nums(LinesOf(s)) = 1 .. ctBuf[s].count PROVE Nums(LinesOf(s)') = 1 .. ctBuf'[s].count
    <2>1. Nums(LinesOf(s)') = Nums(LinesOf(s)) \cup Nums(F)
      BY <1>13 DEF Nums
    <2>2. Nums(F) = IF k = 1 THEN {ctBuf[s].count + 1} ELSE {}
      BY <1>1 DEF Nums
    <2>3. 1 .. ctBuf'[s].count = (1 .. ctBuf[s].count) \cup (IF k = 1 THEN {ctBuf[s].count + 1} ELSE {})
      BY <1>4
    <2> QED
      BY <1>14, <2>1, <2>2, <2>3
  <1> QED
    BY <1>9, <1>10, <1>12, <1>13, <1>14 DEF F

(* Output is cut into lines.                                               *)
LEMMA CtIngest ==
    ASSUME CtInd, NEW h \in Handlers, Ingest(h)
    PROVE  CtInd'
  <1> USE DEF CtInd, CtCore
  <1>1. PICK s \in CtSessions, k \in 0 .. 1, tail \in BOOLEAN :
           s = ctHdl[h].ev.s /\ k = ctHdl[h].ev.k /\ tail = ctHdl[h].ev.tail
    BY HdlCases, StepCases DEF Ingest
  <1>2. PICK b : b = Cut(s, k, tail)
    OBVIOUS
  <1>3. /\ b.count = ctBuf[s].count + k /\ b.partial = (tail \/ (k = 0 /\ ctBuf[s].partial))
        /\ b.batch = ctBuf[s].batch \cup Numbered(s, k)
        /\ b = [count |-> b.count, partial |-> b.partial, batch |-> b.batch]
    BY <1>2 DEF Cut
  <1>4. /\ ctHdl[h].at = "got" /\ ctHdl[h].ev.kind = "output" /\ b.count < MaxLines
        /\ \/ /\ ctBuf' = [ctBuf EXCEPT ![s] = [b EXCEPT !.batch = {}]]
              /\ HdlTo(h, [at |-> "write", s |-> s, lines |-> b.batch, then |-> Idle])
           \/ ctBuf' = [ctBuf EXCEPT ![s] = b] /\ HdlTo(h, Idle)
        /\ ctHeard' = [ctHeard EXCEPT ![s] = [lines |-> @.lines + k, tail |-> tail \/ (k = 0 /\ @.tail)]]
        /\ ctLate' = IF Ending(s) THEN ctLate \cup {s} ELSE ctLate
        /\ UNCHANGED <<ctGen, ctLoop, ctRows, ctMeta, ctLive, ctLost, ctOld, ctConn, ctReg, ctFaults>>
        /\ UNCHANGED <<ctClean, ctPending, ctDisp, ctTold, ctCleaned, ctExcused>>
    BY <1>1, <1>2 DEF Ingest, cleanupVars
  <1>5. ctBuf[s].count \in Nat /\ ctBuf[s].batch \subseteq Lines /\ ctBuf[s].partial \in BOOLEAN
    BY BufCases
  <1>6. ctBuf[s].count + k <= MaxLines /\ Numbered(s, k) \subseteq Lines
    BY <1>3, <1>4, <1>5, NextLines, CtFacts
  <1>7. PICK d \in Buffers, st \in HdlSteps :
          /\ ctBuf' = [ctBuf EXCEPT ![s] = d] /\ HdlTo(h, st)
          /\ d.count = b.count /\ d.partial = b.partial
          /\ \/ d.batch = b.batch /\ st = Idle
             \/ d.batch = {} /\ st.at = "write" /\ st.s = s /\ st.lines = b.batch /\ st.then = Idle
    <2>1. b \in Buffers
      BY <1>3, <1>4, <1>5, <1>6, CtFacts DEF Buffers, Counts
    <2>2. CASE ctBuf' = [ctBuf EXCEPT ![s] = b] /\ HdlTo(h, Idle)
      BY <2>1, <2>2, CtFacts
    <2>3. CASE /\ ctBuf' = [ctBuf EXCEPT ![s] = [b EXCEPT !.batch = {}]]
               /\ HdlTo(h, [at |-> "write", s |-> s, lines |-> b.batch, then |-> Idle])
      <3> DEFINE d == [b EXCEPT !.batch = {}]
                 st == [at |-> "write", s |-> s, lines |-> b.batch, then |-> Idle]
      <3>1. d \in Buffers /\ d.count = b.count /\ d.partial = b.partial /\ d.batch = {}
        BY <2>1 DEF Buffers
      <3>2. st \in HdlSteps /\ st.at = "write" /\ st.s = s /\ st.lines = b.batch /\ st.then = Idle
        BY <1>3, <1>5, <1>6 DEF HdlSteps
      <3>3. ctBuf' = [ctBuf EXCEPT ![s] = d] /\ HdlTo(h, st)
        BY <2>3
      <3> HIDE DEF d, st
      <3> QED
        BY <3>1, <3>2, <3>3
    <2> QED
      BY <1>4, <2>2, <2>3
  <1>8. /\ ctHdl' \in [Handlers -> HdlSteps] /\ ctHdl'[h] = st
        /\ \A i \in Handlers : i # h => ctHdl'[i] = ctHdl[i]
    BY <1>7 DEF HdlTo, CtTypes
  <1>9. /\ ctBuf' \in [CtSessions -> Buffers] /\ ctBuf'[s] = d
        /\ \A t \in CtSessions : t # s => ctBuf'[t] = ctBuf[t]
    BY <1>7 DEF CtTypes
  <1>10. /\ ctHeard' \in [CtSessions -> [lines : Nat, tail : BOOLEAN]]
         /\ ctHeard'[s].lines = ctHeard[s].lines + k /\ ctHeard'[s].tail = (tail \/ (k = 0 /\ ctHeard[s].tail))
         /\ \A t \in CtSessions : t # s => ctHeard'[t] = ctHeard[t]
    <2> DEFINE r == [lines |-> ctHeard[s].lines + k, tail |-> tail \/ (k = 0 /\ ctHeard[s].tail)]
    <2>1. r \in [lines : Nat, tail : BOOLEAN]
      BY BufCases
    <2>2. r.lines = ctHeard[s].lines + k /\ r.tail = (tail \/ (k = 0 /\ ctHeard[s].tail))
      OBVIOUS
    <2>3. ctHeard' = [ctHeard EXCEPT ![s] = r] /\ ctHeard \in [CtSessions -> [lines : Nat, tail : BOOLEAN]]
      BY <1>4 DEF CtTypes
    <2> HIDE DEF r
    <2> QED
      BY <2>1, <2>2, <2>3
  <1>11. CtTypes'
    BY <1>4, <1>8, <1>9, <1>10 DEF CtTypes
  <1>12. /\ HeldBy(h) = {} /\ HeldBy(h)' = (IF st.at = "write" THEN b.batch ELSE {})
         /\ \A t : ~Flushes(h, t) /\ ~Flushes(h, t)' /\ ~Leaves(h, t) /\ ~Leaves(h, t)'
         /\ \A t : WorksFor(h, t)' => WorksFor(h, t)
    BY <1>1, <1>4, <1>7, <1>8, CtFacts DEF HeldBy, WorksFor, Leaves, HasExit, Flushes
  <1>13. \A i \in Handlers : \A t : /\ WorksFor(i, t)' => WorksFor(i, t)
                                    /\ Leaves(i, t)' <=> Leaves(i, t)
                                    /\ Flushes(i, t)' <=> Flushes(i, t)
    BY <1>8, <1>12, SameHandler
  <1>14. OneExit' /\ OldIsQuiet'
    BY <1>4, <1>13, ExitsKept
  <1>15. ctBuf'[s].count = ctBuf[s].count + k /\ ctBuf'[s].count < MaxLines /\ ctBuf'[s].partial = b.partial
    BY <1>3, <1>4, <1>7, <1>9
  <1>16. FlushCounts'
    <2> SUFFICES ASSUME NEW i \in Handlers, NEW t \in CtSessions, Flushes(i, t)'
                 PROVE  /\ ctBuf'[t].count > 0
                        /\ ctHdl'[i].at = "write" => ctHdl'[i].then.s = t /\ ctHdl'[i].then.n <= ctBuf'[t].count
                        /\ ctHdl'[i].at = "meta" => ctHdl'[i].n <= ctBuf'[t].count
      BY DEF FlushCounts
    <2>1. i # h /\ Flushes(i, t) /\ ctHdl'[i] = ctHdl[i]
      BY <1>8, <1>12, <1>13
    <2>2. /\ ctBuf[t].count > 0
          /\ ctHdl[i].at = "write" => ctHdl[i].then.s = t /\ ctHdl[i].then.n <= ctBuf[t].count
          /\ ctHdl[i].at = "meta" => ctHdl[i].n <= ctBuf[t].count
      BY <2>1 DEF FlushCounts
    <2>3. ctBuf[t].count \in Nat /\ ctBuf'[t].count \in Nat /\ ctBuf'[t].count >= ctBuf[t].count
      BY <1>5, <1>9, <1>15, BufCases
    <2>4. ctHdl[i].at = "write" => ctHdl[i].then.n \in Nat
      BY <2>1, HdlCases, StepCases DEF Flushes, Counts
    <2>5. ctHdl[i].at = "meta" => ctHdl[i].n \in Nat
      BY <2>1, HdlCases, StepCases DEF Counts
    <2> QED
      BY <2>1, <2>2, <2>3, <2>4, <2>5
  <1>17. LineRoom'
    BY <1>9, <1>13, <1>15 DEF LineRoom
  <1>18. GenBound'
    BY <1>4, <1>13, GensKept, FaultCounts
  <1>19. /\ Numbers' /\ Places'
         /\ \A t \in CtSessions : t # s => LinesOf(t)' = LinesOf(t)
         /\ LinesOf(s)' = LinesOf(s) \cup Numbered(s, k)
         /\ Nums(LinesOf(s)) = 1 .. ctBuf[s].count => Nums(LinesOf(s)') = 1 .. ctBuf'[s].count
    <2>1. PICK B, H : B = d.batch /\ H = HeldBy(h)'
      OBVIOUS
    <2>2. B \cup H = ctBuf[s].batch \cup Numbered(s, k) /\ (B = {} \/ H = {}) /\ (H # {} => ctHdl'[h].s = s)
      BY <1>3, <1>7, <1>8, <1>12, <2>1, CtFacts
    <2>3. ctRows' = ctRows /\ ctLoop' = ctLoop /\ ctGen' = ctGen
      BY <1>4
    <2>4. ctBuf'[s].batch = B /\ HeldBy(h)' = H /\ HeldBy(h) = {}
      BY <1>9, <1>12, <2>1
    <2> QED
      BY <1>6, <1>8, <1>9, <1>15, <2>2, <2>3, <2>4, TakesLines
  <1>20. Gapless'
    <2> SUFFICES ASSUME NEW t \in CtSessions PROVE FirstBuffer(t)' /\ AfterFirst(t)'
      BY DEF Gapless
    <2>1. CASE t # s
      <3>1. Whole(t)' <=> Whole(t)
        BY <1>4, <2>1 DEF Whole
      <3>2. \A i \in Handlers : Flushes(i, t) => ctHdl'[i] = ctHdl[i]
        BY <1>8, <1>12
      <3>3. SameFor(t)
        BY <1>4, <1>9, <1>10, <1>13, <1>19, <2>1, <3>1, <3>2 DEF SameFor
      <3> QED
        BY <3>3, GaplessFor DEF Gapless
    <2>2. CASE t = s
      <3>1. Whole(s)' => Whole(s) /\ \A i \in Handlers : ~Flushes(i, s)
        BY <1>4 DEF Whole, Ending, Flushes
      <3>2. FirstBuffer(s)'
        <4> SUFFICES ASSUME Whole(s)', ctGen'[s] = 0
                     PROVE  Nums(LinesOf(s)') = 1 .. ctBuf'[s].count /\ BeforeFlush(s)' /\ \A i \in Handlers : ~Flushes(i, s)'
          BY DEF FirstBuffer
        <4>1. Nums(LinesOf(s)) = 1 .. ctBuf[s].count /\ BeforeFlush(s)
          BY <1>4, <3>1 DEF Gapless, FirstBuffer
        <4>2. BeforeFlush(s)'
          BY <1>3, <1>4, <1>10, <1>15, <4>1 DEF BeforeFlush
        <4> QED
          BY <1>13, <1>19, <3>1, <4>1, <4>2
      <3>3. ASSUME Bare(s)' PROVE Bare(s) /\ k = 0 /\ HeardIn(s)' = HeardIn(s)
        <4>1. k = 0 /\ ctBuf[s].count = 0 /\ ~tail /\ ~ctBuf[s].partial
          BY <1>3, <1>5, <1>15, <3>3 DEF Bare
        <4>2. ctHeard'[s].lines = ctHeard[s].lines /\ ctHeard'[s].tail = ctHeard[s].tail
          BY <1>10, <4>1, BufCases
        <4> QED
          BY <4>1, <4>2 DEF Bare, HeardIn
      <3>4. k = 0 => LinesOf(s)' = LinesOf(s)
        BY <1>19, <1>6, NextLines
      <3>5. AfterFirst(s)'
        <4> SUFFICES ASSUME Whole(s)', ctGen'[s] = 1, ctMeta'[s] > 0, Bare(s)'
                     PROVE  Nums(LinesOf(s)') = 1 .. ctMeta'[s] /\ ctMeta'[s] = HeardIn(s)'
          BY DEF AfterFirst
        <4>1. Nums(LinesOf(s)) = 1 .. ctMeta[s] /\ ctMeta[s] = HeardIn(s)
          BY <1>4, <3>1, <3>3 DEF Gapless, AfterFirst
        <4> QED
          BY <1>4, <3>3, <3>4, <4>1
      <3> QED
        BY <2>2, <3>2, <3>5
    <2> QED
      BY <2>1, <2>2
  <1>21. SweepList' /\ DispatchSent' /\ CleanedIsTold'
    BY <1>4 DEF SweepList, DispatchSent, CleanedIsTold
  <1> QED
    BY <1>11, <1>14, <1>16, <1>17, <1>18, <1>19, <1>20, <1>21

(* A session's last lines are taken, the open one with them; there was     *)
(* room for it, because nobody else flushes the session.                   *)
LEMMA CtFlushSession ==
    ASSUME CtInd, NEW h \in Handlers, FlushSession(h)
    PROVE  CtInd'
  <1> USE DEF CtInd, CtCore
  <1>1. PICK s \in CtSessions : s = ctHdl[h].ev.s
    BY HdlCases, StepCases DEF FlushSession
  <1>2. /\ ctHdl[h].at = "got" /\ ctHdl[h].ev.kind = "exit"
        /\ UNCHANGED <<ctGen, ctLoop, ctRows, ctMeta, ctLive, ctHeard, ctLost, ctLate, ctOld, ctConn, ctReg, ctFaults>>
        /\ UNCHANGED <<ctClean, ctPending, ctDisp, ctTold, ctCleaned, ctExcused>>
    BY DEF FlushSession, cleanupVars
  <1>3. CASE ctBuf[s] = NoBuffer
    <2>1. HdlTo(h, Idle) /\ UNCHANGED ctBuf
      BY <1>1, <1>3 DEF FlushSession
    <2>2. UNCHANGED <<ingestVars, ctOld, ctFaults, ctClean>>
      BY <1>2, <2>1 DEF ingestVars
    <2>3. CtCore' /\ OldIsQuiet' /\ SweepList' /\ ctHdl' \in [Handlers -> HdlSteps]
      BY <1>2, <2>1, <2>2, HandlerTakes, CtFacts
    <2>4. CtTypes'
      BY <1>2, <2>1, <2>3 DEF CtTypes
    <2> QED
      BY <1>2, <2>3, <2>4 DEF DispatchSent, CleanedIsTold
  <1>4. CASE ctBuf[s] # NoBuffer
    <2>1. PICK k \in 0 .. 1 : k = IF ctBuf[s].partial THEN 1 ELSE 0
      OBVIOUS
    <2>2. PICK n, S : n = ctBuf[s].count + k /\ S = ctBuf[s].batch \cup Numbered(s, k)
      OBVIOUS
    <2>3. ctBuf[s].count \in Nat /\ ctBuf[s].batch \subseteq Lines /\ ctBuf[s].partial \in BOOLEAN
      BY BufCases
    <2>4. Remaining(s).lines = S /\ Remaining(s).count = n
      <3>1. k = 0 => Numbered(s, k) = {}
        BY DEF Numbered
      <3> QED
        BY <2>1, <2>2, <2>3, <3>1 DEF Remaining
    <2>5. HasExit(h, s) /\ \A i \in Handlers : ~Flushes(i, s)
      BY <1>1, <1>2 DEF HasExit, OneExit, Leaves, Flushes
    <2>6. n \in Nat /\ n <= MaxLines /\ S \subseteq Lines
      <3>1. ctBuf[s].count < MaxLines
        BY <2>5 DEF LineRoom
      <3>2. ctBuf[s].count + k <= MaxLines
        BY <2>3, <3>1, CtFacts
      <3> QED
        BY <2>2, <2>3, <3>2, NextLines
    <2>7. n > 0
      <3>1. ctBuf[s].batch # {} => ctBuf[s].count > 0
        <4>1. \A l \in ctBuf[s].batch : l.n \in Nat /\ l.n >= 1 /\ l.n <= ctBuf[s].count
          BY <2>3, BufCases DEF Numbers, Known, Lines
        <4> QED
          BY <2>3, <4>1
      <3>2. ctBuf[s].count > 0 \/ ctBuf[s].partial
        BY <1>4, <2>3, <3>1, BufCases DEF Bare
      <3> QED
        BY <2>1, <2>2, <2>3, <3>2
    <2> DEFINE d0  == [count |-> n, partial |-> FALSE, batch |-> {}]
               m0  == [at |-> "meta", s |-> s, n |-> n]
               st0 == [at |-> "write", s |-> s, lines |-> S, then |-> m0]
    <2>8. ctBuf' = [ctBuf EXCEPT ![s] = d0] /\ HdlTo(h, st0)
      BY <1>1, <1>4, <2>4 DEF FlushSession
    <2>9. d0 \in Buffers /\ d0.count = n /\ d0.partial = FALSE /\ d0.batch = {}
      BY <2>6, CtFacts DEF Buffers, Counts
    <2>10. m0 \in ToMeta /\ m0.s = s /\ m0.n = n /\ m0 # Idle
      <3>1. m0 \in ToMeta /\ m0.s = s /\ m0.n = n /\ m0.at = "meta"
        BY <2>6, CtFacts DEF ToMeta, Counts
      <3> QED
        BY <3>1, CtFacts
    <2>11. st0 \in HdlSteps /\ st0.at = "write" /\ st0.s = s /\ st0.lines = S /\ st0.then = m0
      BY <2>6, <2>10 DEF HdlSteps
    <2>12. PICK d \in Buffers, m \in ToMeta, st \in HdlSteps :
             /\ ctBuf' = [ctBuf EXCEPT ![s] = d] /\ HdlTo(h, st)
             /\ d.count = n /\ d.partial = FALSE /\ d.batch = {}
             /\ m.s = s /\ m.n = n /\ m # Idle
             /\ st.at = "write" /\ st.s = s /\ st.lines = S /\ st.then = m
      <3> HIDE DEF d0, m0, st0
      <3> QED
        BY <2>8, <2>9, <2>10, <2>11
    <2> HIDE DEF d0, m0, st0
    <2>13. /\ ctHdl' \in [Handlers -> HdlSteps] /\ ctHdl'[h] = st
           /\ \A i \in Handlers : i # h => ctHdl'[i] = ctHdl[i]
      BY <2>12 DEF HdlTo, CtTypes
    <2>14. /\ ctBuf' \in [CtSessions -> Buffers] /\ ctBuf'[s] = d
           /\ \A t \in CtSessions : t # s => ctBuf'[t] = ctBuf[t]
      BY <2>12 DEF CtTypes
    <2>15. CtTypes'
      BY <1>2, <2>13, <2>14 DEF CtTypes
    <2>16. /\ HeldBy(h) = {} /\ HeldBy(h)' = S
           /\ \A t : /\ ~Flushes(h, t) /\ (Flushes(h, t)' <=> t = s)
                     /\ Leaves(h, t)' <=> t = s
                     /\ Leaves(h, t) <=> t = s
                     /\ WorksFor(h, t)' <=> t = s
                     /\ WorksFor(h, t) <=> t = s
      BY <1>1, <1>2, <2>12, <2>13, CtFacts DEF HeldBy, WorksFor, Leaves, HasExit, Flushes
    <2>17. \A i \in Handlers : i # h => \A t : Flushes(i, t)' <=> Flushes(i, t)
      BY <2>13, SameHandler
    <2>18. \A i \in Handlers : \A t : /\ WorksFor(i, t)' <=> WorksFor(i, t)
                                      /\ Leaves(i, t)' <=> Leaves(i, t)
      BY <2>13, <2>16, SameHandler
    <2>19. OneExit' /\ OldIsQuiet'
      BY <1>2, <2>18, ExitsKept
    <2>20. FlushCounts'
      <3> SUFFICES ASSUME NEW i \in Handlers, NEW t \in CtSessions, Flushes(i, t)'
                   PROVE  /\ ctBuf'[t].count > 0
                          /\ ctHdl'[i].at = "write" => ctHdl'[i].then.s = t /\ ctHdl'[i].then.n <= ctBuf'[t].count
                          /\ ctHdl'[i].at = "meta" => ctHdl'[i].n <= ctBuf'[t].count
        BY DEF FlushCounts
      <3>1. CASE i = h
        BY <2>6, <2>7, <2>12, <2>13, <2>14, <2>16, <3>1
      <3>2. CASE i # h
        <4>1. Flushes(i, t) /\ t # s
          BY <2>5, <2>17, <3>2
        <4> QED
          BY <2>13, <2>14, <3>2, <4>1 DEF FlushCounts
      <3> QED
        BY <3>1, <3>2
    <2>21. LineRoom'
      <3> SUFFICES ASSUME NEW t \in CtSessions PROVE ctBuf'[t].count < MaxLines \/ \E i \in Handlers : Flushes(i, t)'
        BY DEF LineRoom
      <3>1. CASE t = s
        BY <2>16, <3>1
      <3>2. CASE t # s
        BY <2>14, <2>16, <2>17, <3>2 DEF LineRoom
      <3> QED
        BY <3>1, <3>2
    <2>22. GenBound'
      BY <1>2, <2>18, GensKept, FaultCounts
    <2>23. /\ Numbers' /\ Places'
           /\ \A t \in CtSessions : t # s => LinesOf(t)' = LinesOf(t)
           /\ Nums(LinesOf(s)) = 1 .. ctBuf[s].count => Nums(LinesOf(s)') = 1 .. ctBuf'[s].count
      <3>1. PICK B : B = {}
        OBVIOUS
      <3>2. B \cup S = ctBuf[s].batch \cup Numbered(s, k) /\ (B = {} \/ S = {})
        BY <2>2, <3>1
      <3>3. ctBuf'[s].count = ctBuf[s].count + k /\ ctBuf'[s].batch = B /\ ctBuf[s].count + k <= MaxLines
        BY <2>2, <2>6, <2>12, <2>14, <3>1
      <3>4. HeldBy(h) = {} /\ HeldBy(h)' = S /\ (S # {} => ctHdl'[h].s = s)
        BY <2>12, <2>13, <2>16
      <3>5. ctRows' = ctRows /\ ctLoop' = ctLoop /\ ctGen' = ctGen
        BY <1>2
      <3> QED
        BY <2>13, <2>14, <3>2, <3>3, <3>4, <3>5, TakesLines
    <2>24. Gapless'
      <3> SUFFICES ASSUME NEW t \in CtSessions PROVE FirstBuffer(t)' /\ AfterFirst(t)'
        BY DEF Gapless
      <3>1. Whole(t)' <=> Whole(t)
        BY <1>2 DEF Whole
      <3>2. CASE t # s
        <4>1. \A i \in Handlers : (Flushes(i, t)' <=> Flushes(i, t)) /\ (Flushes(i, t) => ctHdl'[i] = ctHdl[i])
          BY <2>13, <2>16, <2>17, <3>2
        <4>2. SameFor(t)
          BY <1>2, <2>14, <2>23, <3>1, <3>2, <4>1 DEF SameFor
        <4> QED
          BY <4>2, GaplessFor DEF Gapless
      <3>3. CASE t = s
        <4>1. ~Bare(s)'
          BY <2>7, <2>12, <2>14 DEF Bare
        <4>2. FirstBuffer(s)'
          <5> SUFFICES ASSUME Whole(s)', ctGen'[s] = 0
                       PROVE  /\ Nums(LinesOf(s)') = 1 .. ctBuf'[s].count
                              /\ Flushes(h, s)'
                              /\ \A i \in Handlers : Flushes(i, s)' => InFlush(i, s)'
            BY DEF FirstBuffer
          <5>1. Nums(LinesOf(s)) = 1 .. ctBuf[s].count /\ BeforeFlush(s)
            BY <1>2, <2>5, <3>1, <3>3 DEF Gapless, FirstBuffer
          <5>2. HeardIn(s)' = HeardIn(s) /\ n = HeardIn(s)
            BY <1>2, <2>1, <2>2, <5>1, BufCases DEF HeardIn, BeforeFlush
          <5>3. InFlush(h, s)'
            BY <1>2, <2>12, <2>13, <2>14, <5>1, <5>2 DEF InFlush, BeforeFlush
          <5>4. \A i \in Handlers : Flushes(i, s)' => i = h
            BY <2>5, <2>17
          <5> QED
            BY <2>16, <2>23, <5>1, <5>3, <5>4
        <4> QED
          BY <3>3, <4>1, <4>2 DEF AfterFirst
      <3> QED
        BY <3>2, <3>3
    <2>25. SweepList' /\ DispatchSent' /\ CleanedIsTold'
      BY <1>2 DEF SweepList, DispatchSent, CleanedIsTold
    <2> QED
      BY <2>15, <2>19, <2>20, <2>21, <2>22, <2>23, <2>24, <2>25
  <1> QED
    BY <1>3, <1>4

(* The server stops: what is in memory is written or lost, and the next    *)
(* one numbers from 1 in another buffer.                                   *)
LEMMA CtStops == ASSUME CtInd, CloseIngestor \/ ContentCrash PROVE CtInd'
  <1> USE DEF CtInd, CtCore
  <1>1. /\ ctBuf' = [s \in CtSessions |-> NoBuffer]
        /\ ctGen' = [s \in CtSessions |-> IF ctBuf[s] = NoBuffer THEN ctGen[s] ELSE ctGen[s] + 1]
        /\ ctHdl' = [h \in Handlers |-> Gone] /\ ctLoop' = {} /\ ctConn' = NoHandler /\ ctReg' = NoHandler
        /\ ctClean' = Resting /\ ctDisp' = [h \in Handlers |-> Idle]
        /\ ctExcused' = ctExcused \cup ctCleaned /\ CtFault
        /\ UNCHANGED <<ctMeta, ctLive, ctHeard, ctLate, ctOld, ctPending, ctTold, ctCleaned>>
    BY DEF CloseIngestor, ContentCrash, NewServer
  <1> DEFINE Batches == UNION {ctBuf[s].batch : s \in CtSessions}
  <1>2. Batches \subseteq Lines /\ Batches \cap Stored = {} /\ \A l \in Batches : l \in ctBuf[l.s].batch /\ l.s \in CtSessions /\ Known(l)
    BY BufCases DEF Numbers, Places
  <1>3. Held \subseteq Lines /\ \A h \in Handlers : HeldBy(h) \subseteq Held
    BY HdlCases DEF Held, HeldBy
  <1>4. /\ ctRows' \in [Lines -> Nat] /\ RowsDistinct' /\ ctLost \subseteq ctLost' /\ ctLost' \subseteq Lines
        /\ Stored \subseteq Stored' /\ Stored' \subseteq Stored \cup Batches
        /\ ctLoop \cup Batches \cup Held \subseteq Stored' \cup ctLost'
    <2>1. CASE CloseIngestor
      <3>1. ctLoop = {} /\ ctRows' = AddRows(Batches) /\ ctLost' = ctLost \cup Held
        BY <2>1 DEF CloseIngestor
      <3> HIDE DEF Batches
      <3>2. \A l \in Lines : ctRows'[l] = IF l \in Batches THEN ctRows[l] + 1 ELSE ctRows[l]
        BY <3>1 DEF AddRows
      <3>3. ctRows' \in [Lines -> Nat]
        BY <3>1 DEF AddRows, CtTypes
      <3>4. \A l \in Batches : ctRows[l] = 0
        BY <1>2 DEF Stored, CtTypes
      <3>5. RowsDistinct'
        BY <3>2, <3>4 DEF RowsDistinct, Places
      <3>6. Stored' = Stored \cup Batches
        BY <1>2, <3>2, <3>4 DEF Stored, CtTypes
      <3> QED
        BY <1>3, <3>1, <3>3, <3>5, <3>6 DEF CtTypes
    <2>2. CASE ContentCrash
      <3>1. ctRows' = ctRows /\ ctLost' = ctLost \cup Held \cup ctLoop \cup Batches
        BY <2>2 DEF ContentCrash
      <3> HIDE DEF Batches
      <3> QED
        BY <1>2, <1>3, <3>1 DEF CtTypes, RowsDistinct, Stored, Places
    <2> QED
      BY <2>1, <2>2
  <1> HIDE DEF Batches
  <1>5. ctFaults \in Nat /\ ctFaults' = ctFaults + 1 /\ ctFaults' \in 0 .. MaxCtFaults
    BY <1>1, FaultCounts DEF CtFault, CtTypes
  <1>6. /\ \A s \in CtSessions : ctBuf'[s] = NoBuffer /\ ctBuf'[s].count = 0 /\ ctBuf'[s].batch = {}
        /\ \A s \in CtSessions : /\ ctBuf[s] = NoBuffer => ctGen'[s] = ctGen[s]
                                 /\ ctBuf[s] # NoBuffer => ctGen'[s] = ctGen[s] + 1
        /\ ctGen' \in [CtSessions -> Nat] /\ ctBuf' \in [CtSessions -> Buffers]
    BY <1>1, CtFacts DEF CtTypes
  <1>7. \A h \in Handlers : /\ ctHdl'[h] = Gone /\ ctDisp'[h] = Idle /\ HeldBy(h)' = {}
                            /\ \A s : ~WorksFor(h, s)' /\ ~Leaves(h, s)' /\ ~Flushes(h, s)'
    BY <1>1, CtFacts DEF HeldBy, WorksFor, Leaves, HasExit, Flushes
  <1>8. CtTypes'
    <2>1. ctHdl' \in [Handlers -> HdlSteps] /\ ctDisp' \in [Handlers -> Dispatches]
      BY <1>1, CtFacts DEF Dispatches
    <2> QED
      BY <1>1, <1>4, <1>5, <1>6, <2>1, CtFacts DEF CtTypes
  <1>9. OneExit' /\ OldIsQuiet' /\ FlushCounts'
    BY <1>1, <1>7 DEF OneExit, OldIsQuiet, FlushCounts
  <1>10. LineRoom'
    BY <1>6, CtFacts DEF LineRoom
  <1>11. GenBound'
    <2>1. \A s \in CtSessions : Unflushed(s)' => Unflushed(s)
      BY <1>1, <1>7 DEF Unflushed
    <2>2. \A s \in CtSessions : ctGen[s] \in Nat
      BY BufCases
    <2> QED
      BY <1>5, <1>6, <2>1, <2>2 DEF GenBound
  <1>12. Numbers'
    <2>1. ASSUME NEW l \in Lines, Known(l) PROVE Known(l)'
      <3>1. l.s \in CtSessions /\ l.g \in Nat /\ l.n \in Nat /\ l.n > 0 /\ ctGen[l.s] \in Nat
        BY BufCases DEF Lines
      <3>2. CASE ctBuf[l.s] = NoBuffer
        BY <1>6, <2>1, <3>1, <3>2, CtFacts DEF Known
      <3>3. CASE ctBuf[l.s] # NoBuffer
        BY <1>6, <2>1, <3>1, <3>3 DEF Known
      <3> QED
        BY <3>2, <3>3
    <2>2. \A l \in Stored' : Known(l)'
      BY <1>2, <1>4, <2>1 DEF Numbers, Stored
    <2> QED
      BY <1>1, <1>6, <1>7, <2>2 DEF Numbers
  <1>13. Places'
    BY <1>1, <1>4, <1>6, <1>7 DEF Places
  <1>14. Gapless'
    <2> SUFFICES ASSUME NEW s \in CtSessions PROVE FirstBuffer(s)' /\ AfterFirst(s)'
      BY DEF Gapless
    <2>1. Whole(s)' => Whole(s)
      BY <1>1, <1>4 DEF Whole
    <2>2. ASSUME Whole(s)' PROVE LinesOf(s)' = LinesOf(s)
      <3>1. LinesOf(s)' = {l \in Lines : l.s = s /\ l \in Stored'}
        BY <1>1, <1>6, <1>7 DEF LinesOf
      <3>2. \A l \in ctLoop \cup Batches \cup Held : l.s = s => l \in Stored'
        BY <1>4, <2>2 DEF Whole
      <3>3. ctBuf[s].batch \subseteq Batches
        BY DEF Batches
      <3>4. LinesOf(s) \subseteq LinesOf(s)'
        BY <1>3, <1>4, <3>1, <3>2, <3>3 DEF LinesOf
      <3>5. LinesOf(s)' \subseteq LinesOf(s)
        BY <1>2, <1>4, <3>1 DEF LinesOf
      <3> QED
        BY <3>4, <3>5
    <2>3. HeardIn(s)' = HeardIn(s) /\ ctMeta'[s] = ctMeta[s] /\ ctHeard'[s] = ctHeard[s] /\ ctGen[s] \in Nat
      BY <1>1, BufCases DEF HeardIn
    <2>4. FirstBuffer(s)'
      <3> SUFFICES ASSUME Whole(s)', ctGen'[s] = 0
                   PROVE  Nums(LinesOf(s)') = 1 .. ctBuf'[s].count /\ BeforeFlush(s)'
        BY <1>7 DEF FirstBuffer
      <3>1. ctBuf[s] = NoBuffer /\ ctGen[s] = 0
        BY <1>6, <2>3
      <3>2. \A h \in Handlers : ~Flushes(h, s)
        BY <3>1, CtFacts DEF FlushCounts
      <3>3. Nums(LinesOf(s)) = 1 .. ctBuf[s].count /\ BeforeFlush(s)
        BY <2>1, <3>1, <3>2 DEF Gapless, FirstBuffer
      <3> QED
        BY <1>6, <2>2, <2>3, <3>1, <3>3 DEF BeforeFlush
    <2>5. AfterFirst(s)'
      <3> SUFFICES ASSUME Whole(s)', ctGen'[s] = 1, ctMeta'[s] > 0
                   PROVE  Nums(LinesOf(s)) = 1 .. ctMeta[s] /\ ctMeta[s] = HeardIn(s)
        BY <2>2, <2>3 DEF AfterFirst
      <3>1. CASE ctBuf[s] = NoBuffer
        BY <1>6, <2>1, <2>3, <3>1, BufCases DEF Gapless, AfterFirst
      <3>2. CASE ctBuf[s] # NoBuffer
        <4>1. ctGen[s] = 0 /\ Whole(s) /\ ctMeta[s] > 0
          BY <1>6, <2>1, <2>3, <3>2
        <4>2. PICK h \in Handlers : Flushes(h, s)
          BY <4>1 DEF Gapless, FirstBuffer, BeforeFlush
        <4>3. InFlush(h, s) /\ Nums(LinesOf(s)) = 1 .. ctBuf[s].count
          BY <4>1, <4>2 DEF Gapless, FirstBuffer
        <4> QED
          BY <4>1, <4>3 DEF InFlush
      <3> QED
        BY <3>1, <3>2
    <2> QED
      BY <2>4, <2>5
  <1>15. SweepList' /\ DispatchSent' /\ CleanedIsTold'
    BY <1>1, <1>7, CtFacts DEF SweepList, DispatchSent, CleanedIsTold
  <1> QED
    BY <1>8, <1>9, <1>10, <1>11, <1>12, <1>13, <1>14, <1>15

LEMMA CtInit == ContentInit => CtInd
  <1> SUFFICES ASSUME ContentInit PROVE CtInd
    OBVIOUS
  <1>1. /\ ctBuf = [s \in CtSessions |-> NoBuffer] /\ ctLoop = {} /\ ctHdl = [h \in Handlers |-> Gone]
        /\ ctLive \in SUBSET CtSessions /\ ctGen = [s \in CtSessions |-> IF s \in ctLive THEN 0 ELSE 1]
        /\ ctRows = [l \in Lines |-> IF l.s \notin ctLive /\ l.n = 1 /\ l.g = 0 THEN 1 ELSE 0]
        /\ ctMeta = [s \in CtSessions |-> IF s \in ctLive THEN 0 ELSE 1]
        /\ ctHeard = [s \in CtSessions |-> [lines |-> ctMeta[s], tail |-> FALSE]] /\ ctLost = {} /\ ctLate = {}
        /\ ctOld = {} /\ ctConn = NoHandler /\ ctReg = NoHandler /\ ctClean = Resting /\ ctPending = {}
        /\ ctDisp = [h \in Handlers |-> Idle] /\ ctTold = {} /\ ctCleaned = {} /\ ctExcused = {} /\ ctFaults = 0
    BY DEF ContentInit
  <1>2. \A s \in CtSessions : /\ ctBuf[s] = NoBuffer /\ ctBuf[s].count = 0 /\ ctBuf[s].batch = {} /\ ctBuf[s].partial = FALSE
                              /\ ctHeard[s].lines = ctMeta[s] /\ ctHeard[s].tail = FALSE
                              /\ ctGen[s] = ctMeta[s] /\ ctMeta[s] = IF s \in ctLive THEN 0 ELSE 1
    BY <1>1, CtFacts
  <1>3. \A h \in Handlers : /\ ctHdl[h] = Gone /\ HeldBy(h) = {} /\ ctDisp[h].at # "send"
                            /\ \A s : ~WorksFor(h, s) /\ ~Leaves(h, s) /\ ~Flushes(h, s)
    BY <1>1, CtFacts DEF HeldBy, WorksFor, Leaves, HasExit, Flushes
  <1>4. CtTypes
    <2>1. ctHdl \in [Handlers -> HdlSteps] /\ ctDisp \in [Handlers -> Dispatches]
      BY <1>1, CtFacts DEF Dispatches
    <2>2. ctMeta \in [CtSessions -> Counts] /\ ctGen \in [CtSessions -> Nat] /\ ctRows \in [Lines -> Nat]
      BY <1>1, CtFacts DEF Counts
    <2>3. ctHeard \in [CtSessions -> [lines : Nat, tail : BOOLEAN]]
      BY <1>1, <2>2 DEF Counts
    <2>4. ctBuf \in [CtSessions -> Buffers]
      BY <1>1, CtFacts
    <2> QED
      BY <1>1, <2>1, <2>2, <2>3, <2>4, CtFacts DEF CtTypes
  <1>5. Stored = {l \in Lines : l.s \notin ctLive /\ l.n = 1 /\ l.g = 0}
    BY <1>1 DEF Stored
  <1>6. OneExit /\ FlushCounts /\ OldIsQuiet
    BY <1>1, <1>3 DEF OneExit, FlushCounts, OldIsQuiet
  <1>7. LineRoom
    BY <1>2, CtFacts DEF LineRoom
  <1>8. GenBound
    BY <1>1, <1>2, <1>3 DEF GenBound, Unflushed
  <1>9. Numbers
    <2>1. \A l \in Stored : Known(l)
      BY <1>2, <1>5 DEF Known, Lines
    <2> QED
      BY <1>1, <1>2, <1>3, <2>1 DEF Numbers
  <1>10. Places
    <2>1. RowsDistinct
      BY <1>1 DEF RowsDistinct
    <2> QED
      BY <1>1, <1>2, <1>3, <2>1 DEF Places
  <1>11. Gapless
    <2> SUFFICES ASSUME NEW s \in CtSessions PROVE FirstBuffer(s) /\ AfterFirst(s)
      BY DEF Gapless
    <2>1. LinesOf(s) = {l \in Lines : l.s = s /\ l \in Stored}
      BY <1>1, <1>2, <1>3 DEF LinesOf
    <2>2. CASE s \in ctLive
      <3>1. Nums(LinesOf(s)) = {}
        BY <1>5, <2>1, <2>2 DEF Nums
      <3>2. ctBuf[s].count = 0 /\ ctMeta[s] = 0 /\ ctHeard[s].lines = 0 /\ ctBuf[s].partial = ctHeard[s].tail
        BY <1>2, <2>2
      <3>3. 1 .. ctBuf[s].count = {}
        BY <3>2
      <3>4. BeforeFlush(s)
        BY <3>2 DEF BeforeFlush
      <3> QED
        BY <1>2, <1>3, <2>2, <3>1, <3>3, <3>4 DEF FirstBuffer, AfterFirst
    <2>3. CASE s \notin ctLive
      <3> DEFINE l == [s |-> s, n |-> 1, g |-> 0]
      <3>1. l \in Lines
        BY CtFacts DEF Lines
      <3>2. l \in LinesOf(s) /\ l.n = 1
        BY <1>5, <2>1, <2>3, <3>1
      <3>3. Nums(LinesOf(s)) = {1}
        BY <1>5, <2>1, <3>2 DEF Nums
      <3>4. 1 .. ctMeta[s] = {1} /\ ctMeta[s] = HeardIn(s)
        BY <1>2, <2>3 DEF HeardIn
      <3> QED
        BY <1>2, <2>3, <3>3, <3>4 DEF FirstBuffer, AfterFirst
    <2> QED
      BY <2>2, <2>3
  <1>12. SweepList /\ DispatchSent /\ CleanedIsTold
    BY <1>1, <1>3, CtFacts DEF SweepList, DispatchSent, CleanedIsTold
  <1> QED
    BY <1>4, <1>6, <1>7, <1>8, <1>9, <1>10, <1>11, <1>12 DEF CtInd, CtCore

LEMMA CtNext == CtInd /\ [ContentNext]_contentVars => CtInd'
  <1> SUFFICES ASSUME CtInd, [ContentNext]_contentVars PROVE CtInd'
    OBVIOUS
  <1>1. CASE FlushLoop
    BY <1>1, CtFlushTakes, CtFlushWrites DEF FlushLoop
  <1>2. CASE CloseIngestor \/ ContentCrash
    BY <1>2, CtStops
  <1>3. CASE ConnBreaks \/ sweep \/ TellAgent
    BY <1>3, CtSweep
  <1>4. ASSUME NEW h \in Handlers, HandlerGoesOn(h) PROVE CtInd'
    BY <1>4, CtIngest, CtWrites, CtFlushSession, CtMeta, CtForgets DEF HandlerGoesOn
  <1>5. ASSUME NEW h \in Handlers, MachineConnects(h) \/ HandlerEnds(h) PROVE CtInd'
    BY <1>5, CtConnection
  <1>6. ASSUME NEW h \in Handlers, DispatchLists(h) \/ DeletePendingCleanups(h) \/ \E s \in CtSessions : DispatchSends(h, s)
        PROVE  CtInd'
    BY <1>6, CtDispatch
  <1>7. ASSUME NEW h \in Handlers, NEW s \in CtSessions, Receive(h, [kind |-> "exit", s |-> s]) PROVE CtInd'
    <2>1. [kind |-> "exit", s |-> s] \in CtEvents
      BY DEF CtEvents
    <2> QED
      BY <1>7, <2>1, CtReceive
  <1>8. ASSUME NEW h \in Handlers, NEW s \in CtSessions, NEW k \in 0 .. 1, NEW tail \in BOOLEAN, Receive(h, Output(s, k, tail))
        PROVE  CtInd'
    <2>1. Output(s, k, tail) \in CtEvents
      BY DEF CtEvents, Output
    <2> QED
      BY <1>8, <2>1, CtReceive
  <1>9. CASE \E s \in CtSessions : ContentAges(s) \/ DeleteSessionContent(s)
    BY <1>9, CtAges, CtDelete
  <1>10. CASE UNCHANGED contentVars
    <2>1. /\ UNCHANGED <<ctBuf, ctGen, ctLoop, ctHdl, ctRows, ctMeta, ctLive, ctHeard, ctLost, ctLate>>
          /\ UNCHANGED <<ctOld, ctConn, ctReg, ctClean, ctPending, ctDisp, ctTold, ctCleaned, ctExcused, ctFaults>>
      BY <1>10 DEF contentVars
    <2>2. CtCore'
      BY <2>1, CoreSame, FaultCounts DEF CtInd
    <2>3. OldIsQuiet'
      BY <2>1, OldSame
    <2> QED
      BY <2>1, <2>2, <2>3 DEF CtInd, CtTypes, SweepList, DispatchSent, CleanedIsTold
  <1> QED
    BY <1>1, <1>2, <1>3, <1>4, <1>5, <1>6, <1>7, <1>8, <1>9, <1>10 DEF ContentNext

LEMMA CtStrong == CtInd => ContentInv
  <1> SUFFICES ASSUME CtInd PROVE ContentInv
    OBVIOUS
  <1> USE DEF CtInd, CtCore
  <1>1. ContentTypeOK
    <2>1. \A h \in Handlers : ctHdl[h].at \in {"gone", "idle", "got", "write", "meta", "forget"}
      BY HdlCases, StepCases
    <2>2. \A s \in CtSessions : /\ ctBuf[s].count \in 0 .. MaxLines /\ ctBuf[s].batch \subseteq Lines
                                /\ ctMeta[s] \in 0 .. MaxLines
      BY BufCases
    <2> QED
      BY <2>1, <2>2 DEF ContentTypeOK, CtTypes
  <1>2. ContentWhole
    <2> SUFFICES ASSUME NEW s \in CtSessions, ctMeta[s] > 0, ctGen[s] = 1, s \notin ctLive \cup ctLate,
                        ctBuf[s] = NoBuffer, ~\E l \in ctLost : l.s = s
                 PROVE  /\ {l.n : l \in {x \in Stored \cup ctLoop \cup Held : x.s = s}} = 1 .. ctMeta[s]
                        /\ ctMeta[s] = ctHeard[s].lines + (IF ctHeard[s].tail THEN 1 ELSE 0)
      BY DEF ContentWhole
    <2>1. Whole(s) /\ Bare(s) /\ ctBuf[s].batch = {}
      BY BufCases DEF Whole
    <2>2. Nums(LinesOf(s)) = 1 .. ctMeta[s] /\ ctMeta[s] = HeardIn(s)
      BY <2>1 DEF Gapless, AfterFirst
    <2>3. \A l : l \in Held <=> \E h \in Handlers : l \in HeldBy(h)
      BY DEF Held, HeldBy
    <2>4. Stored \cup ctLoop \cup Held \subseteq Lines
      BY <2>3, HdlCases DEF Stored, CtTypes
    <2>5. LinesOf(s) = {x \in Stored \cup ctLoop \cup Held : x.s = s}
      BY <2>1, <2>3, <2>4 DEF LinesOf
    <2> QED
      BY <2>2, <2>5, BufCases DEF Nums, HeardIn
  <1> QED
    BY <1>1, <1>2 DEF ContentInv, Places

(* The lines of a session are stored once, without gaps and up to          *)
(* line_count, whoever of the flush loop, Ingest, FlushSession and Close   *)
(* takes them, however many connections, failed writes and restarts there  *)
(* are; and every cleanup of content is told to the agent or queued for it *)
(* (ingest/content.go, store/content.go, retention/cleaner.go).            *)
THEOREM ContentIsSound == ContentSpec => []ContentInv
  BY CtInit, CtNext, CtStrong, PTL DEF ContentSpec

=============================================================================
