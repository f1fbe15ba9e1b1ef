----------------------------- MODULE EventsFeed -----------------------------
(***************************************************************************)
(* The events that browsers see: the fan-out that subscribes to the bus    *)
(* (internal/server/event/ws_fanout.go) and the WebSocket of one browser   *)
(* (internal/server/session/events_ws.go).                                 *)
(*                                                                         *)
(* The bus hands the fan-out events in the order in which they were        *)
(* published, one at a time, and drops what its queue cannot hold.  Events *)
(* are numbered; their type is the parity of the number.                   *)
(***************************************************************************)
EXTENDS Integers, Sequences, FiniteSets, SequencesExt

CONSTANTS WsClients,
          FeedCap,       \* capacity of the fan-out's queue (512)
          MaxPatterns,   \* patterns a browser may ask for (20)
          MaxFeedEvents, \* bound: events
          MaxFeedBreaks  \* bound: connections that break

ASSUME EventsFeedAssumption == {FeedCap, MaxPatterns, MaxFeedEvents, MaxFeedBreaks} \subseteq Nat

VARIABLES
    fdMade,     \* events published
    fdQueue,    \* the queue of the subscription
    fdOpen,     \* the subscription exists
    fdHandle,   \* handle: the event at hand and the clients still to be written to
    fdDone,     \* history: events handled
    fdClients,  \* WSFanout.clients
    fdWs,       \* per browser: its handler
    fdAsked,    \* per browser: patterns
    fdCut,      \* browsers whose connection broke or was closed
    fdGot,      \* per browser: events received
    fdSince,    \* history: per browser, the events that were handled or at hand when it was added
    fdBreaks

feedVars  == <<fdMade, fdQueue, fdOpen, fdHandle, fdDone, fdClients, fdWs, fdAsked, fdCut, fdGot, fdSince, fdBreaks>>
wsVars    == <<fdWs, fdAsked, fdCut, fdGot, fdSince>>
queueVars == <<fdMade, fdQueue, fdOpen, fdHandle, fdDone>>

FeedTypes  == {0, 1}
TypeOf(e)  == e % 2
AllTypes   == FeedTypes
HandleIdle == [at |-> "idle"]

(* The types of the feed; every client in the map is in its loop and asked *)
(* for something.                                                          *)
EventsFeedTypeOK ==
    /\ fdQueue \in Seq(1 .. MaxFeedEvents) /\ Len(fdQueue) <= FeedCap
    /\ fdWs \in [WsClients -> {"off", "ask", "add", "loop", "gone"}]
    /\ \A c \in WsClients : fdAsked[c] \in (SUBSET FeedTypes) \ {{}}
    /\ \A c \in fdClients : fdWs[c] = "loop"

EventsFeedInit ==
    /\ fdMade = 0 /\ fdQueue = <<>> /\ fdOpen = TRUE /\ fdHandle = HandleIdle /\ fdDone = {}
    /\ fdClients = {} /\ fdWs = [c \in WsClients |-> "off"] /\ fdAsked = [c \in WsClients |-> AllTypes]
    /\ fdCut = {} /\ fdGot = [c \in WsClients |-> <<>>] /\ fdSince = [c \in WsClients |-> {}] /\ fdBreaks = 0

AtHand == IF fdHandle = HandleIdle THEN {} ELSE {fdHandle.ev}

-----------------------------------------------------------------------------
(* The fan-out. *)

(* An event is published while the queue has room.                         *)
FeedPublish ==
    /\ fdOpen /\ fdMade < MaxFeedEvents /\ fdMade' = fdMade + 1
    /\ fdQueue' = IF Len(fdQueue) < FeedCap THEN Append(fdQueue, fdMade') ELSE fdQueue
    /\ UNCHANGED <<fdOpen, fdHandle, fdDone, fdClients, wsVars, fdBreaks>>

(* The clients of this moment are the ones that get the event.             *)
handleEvent ==
    /\ fdHandle = HandleIdle /\ fdQueue # <<>>
    /\ fdHandle' = [at |-> "write", ev |-> Head(fdQueue), todo |-> fdClients] /\ fdQueue' = Tail(fdQueue)
    /\ UNCHANGED <<fdMade, fdOpen, fdDone, fdClients, wsVars, fdBreaks>>

clientMatchesEvent(c, e) == TypeOf(e) \in fdAsked[c]

RemoveClient(c) == fdClients' = fdClients \ {c}

Mutant_WriteEvent(c) ==
    /\ fdHandle.at = "write" /\ c \in fdHandle.todo
    /\ fdHandle' = [fdHandle EXCEPT !.todo = IF c \in fdCut THEN {} ELSE @ \ {c}]
    /\ IF ~clientMatchesEvent(c, fdHandle.ev) THEN UNCHANGED <<fdGot, fdClients>>
       ELSE IF c \in fdCut THEN RemoveClient(c) /\ UNCHANGED fdGot
       ELSE fdGot' = [fdGot EXCEPT ![c] = Append(@, fdHandle.ev)] /\ UNCHANGED fdClients
    /\ UNCHANGED <<fdMade, fdQueue, fdOpen, fdDone, fdWs, fdAsked, fdCut, fdSince, fdBreaks>>

(* In the order of the map.  A write that fails or takes five seconds      *)
(* removes the client; the others get the event all the same.              *)
WriteEvent(c) ==
    /\ fdHandle.at = "write" /\ c \in fdHandle.todo
    /\ fdHandle' = [fdHandle EXCEPT !.todo = @ \ {c}]
    /\ IF ~clientMatchesEvent(c, fdHandle.ev) THEN UNCHANGED <<fdGot, fdClients>>
       ELSE IF c \in fdCut THEN RemoveClient(c) /\ UNCHANGED fdGot
       ELSE fdGot' = [fdGot EXCEPT ![c] = Append(@, fdHandle.ev)] /\ UNCHANGED fdClients
    /\ UNCHANGED <<fdMade, fdQueue, fdOpen, fdDone, fdWs, fdAsked, fdCut, fdSince, fdBreaks>>

handleReturns ==
    /\ fdHandle.at = "write" /\ fdHandle.todo = {}
    /\ fdHandle' = HandleIdle /\ fdDone' = fdDone \cup {fdHandle.ev}
    /\ UNCHANGED <<fdMade, fdQueue, fdOpen, fdClients, wsVars, fdBreaks>>

AddClient(c) ==
    /\ fdClients' = fdClients \cup {c} /\ fdSince' = [fdSince EXCEPT ![c] = fdDone \cup AtHand]

(* Close unsubscribes, which drops the queue, forgets the clients and      *)
(* closes their connections.                                               *)
CloseFeed ==
    /\ fdOpen /\ fdOpen' = FALSE /\ fdQueue' = <<>> /\ fdClients' = {} /\ fdCut' = fdCut \cup fdClients
    /\ UNCHANGED <<fdMade, fdHandle, fdDone, fdWs, fdAsked, fdGot, fdSince, fdBreaks>>

-----------------------------------------------------------------------------
(* A browser's connection. *)

(* The token is valid and the reader runs.                                 *)
HandleEventsWS(c) ==
    /\ fdWs[c] = "off" /\ fdWs' = [fdWs EXCEPT ![c] = "ask"]
    /\ UNCHANGED <<queueVars, fdClients, fdAsked, fdCut, fdGot, fdSince, fdBreaks>>

(* Too many patterns, or none, mean all.                                   *)
negotiatePatterns(S) == IF S = {} \/ Cardinality(S) > MaxPatterns THEN AllTypes ELSE S

(* A first message came; or none in five seconds, or the reader failed.    *)
Negotiated(c, S) ==
    /\ fdWs[c] = "ask" /\ (c \in fdCut => S = {})
    /\ fdAsked' = [fdAsked EXCEPT ![c] = negotiatePatterns(S)] /\ fdWs' = [fdWs EXCEPT ![c] = "add"]
    /\ UNCHANGED <<queueVars, fdClients, fdCut, fdGot, fdSince, fdBreaks>>

EventsLoop(c) ==
    /\ fdWs[c] = "add" /\ AddClient(c) /\ fdWs' = [fdWs EXCEPT ![c] = "loop"]
    /\ UNCHANGED <<queueVars, fdAsked, fdCut, fdGot, fdBreaks>>

(* The browser goes away, or a write of the fan-out times out and closes   *)
(* the connection.                                                         *)
WsBreaks(c) ==
    /\ fdWs[c] \in {"ask", "add", "loop"} /\ c \notin fdCut /\ fdBreaks < MaxFeedBreaks
    /\ fdCut' = fdCut \cup {c} /\ fdBreaks' = fdBreaks + 1
    /\ UNCHANGED <<queueVars, fdClients, fdWs, fdAsked, fdGot, fdSince>>

(* The reader's error or a failed ping ends the loop, and the deferred     *)
(* call removes the client.                                                *)
runEventsLoop(c) ==
    /\ fdWs[c] = "loop" /\ c \in fdCut /\ fdWs' = [fdWs EXCEPT ![c] = "gone"]
    /\ RemoveClient(c)
    /\ UNCHANGED <<queueVars, fdAsked, fdCut, fdGot, fdSince, fdBreaks>>

-----------------------------------------------------------------------------
FanoutGoesOn == handleEvent \/ handleReturns \/ \E c \in WsClients : WriteEvent(c)
WsGoesOn(c)  == EventsLoop(c) \/ runEventsLoop(c) \/ Negotiated(c, {})

EventsFeedNext ==
    \/ FeedPublish \/ FanoutGoesOn \/ CloseFeed
    \/ \E c \in WsClients :
          \/ HandleEventsWS(c) \/ WsGoesOn(c) \/ WsBreaks(c)
          \/ \E S \in (SUBSET FeedTypes) \ {{}} : Negotiated(c, S)

(* The worker of the subscription runs; a browser's handler has its        *)
(* timers.                                                                 *)
EventsFeedFairness == WF_feedVars(FanoutGoesOn) /\ \A c \in WsClients : WF_feedVars(WsGoesOn(c))

-----------------------------------------------------------------------------
(* Properties. *)

(* What a browser is to have: the events it asked for that were handled    *)
(* since it was added, and the one at hand once it is written.             *)
Due(c) ==
    {e \in fdDone \ fdSince[c] : clientMatchesEvent(c, e)}
    \cup IF fdHandle.at = "write" /\ c \notin fdHandle.todo
         THEN {e \in AtHand \ fdSince[c] : clientMatchesEvent(c, e)} ELSE {}

Ascending(q) == \A i, j \in 1 .. Len(q) : i < j => q[i] < q[j]

(* A browser that is connected has received exactly the events it asked    *)
(* for that were handled since it was added, in their order: a failed      *)
(* write to another browser costs it nothing.                              *)
FeedWithoutGaps == \A c \in fdClients \ fdCut : Range(fdGot[c]) = Due(c) /\ Ascending(fdGot[c])

(* A browser whose connection broke is forgotten, when it broke during the *)
(* negotiation too, and its handler returns: the map of clients does not   *)
(* grow with the dead.                                                     *)
DeadAreForgotten == \A c \in WsClients : c \in fdCut ~> (c \notin fdClients /\ fdWs[c] = "gone")

(* The feed of a connected browser has no gaps, and the queue keeps to its *)
(* capacity.                                                               *)
EventsFeedInv == EventsFeedTypeOK /\ FeedWithoutGaps
=============================================================================
