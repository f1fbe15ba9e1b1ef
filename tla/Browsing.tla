------------------------------ MODULE Browsing ------------------------------
(***************************************************************************)
(* Browsing the directories of a machine: the handler that asks            *)
(* (internal/server/api/machine_handler.go), the broker that matches the   *)
(* answer with the request (server/broker/broker.go), and the agent's side *)
(* of the stream (internal/agent/client.go, directory.go): a receive loop, *)
(* a sender, a health reporter, and a goroutine per listing, all of which  *)
(* write to the channel sendCh of the connection they were started for.    *)
(*                                                                         *)
(* There is one machine.  Its connections are numbered; the stream of one  *)
(* may break at any moment, and then the agent shuts it down and connects  *)
(* again.  A write to a closed channel ends the agent's process.           *)
(***************************************************************************)
EXTENDS Integers, Sequences

CONSTANTS BrowseReqs,
          SendCap,     \* capacity of sendCh (64)
          MaxStreams,  \* bound: connections
          MaxHealth    \* bound: health reports

ASSUME BrowsingAssumption == {SendCap, MaxStreams, MaxHealth} \subseteq Nat

VARIABLES
    bwReq,      \* per request: where its handler is
    bwPending,  \* RequestBroker.pending
    bwChan,     \* requests whose channel holds an answer
    bwLoop,     \* per connection: the server's receive loop
    bwCmd,      \* per connection: commands on their way
    bwWire,     \* per connection: events on their way
    bwBroken,   \* connections whose stream broke
    agAt,       \* the agent's connectAndServe
    agGen,      \* its connection
    agQueue,    \* sendCh of that connection
    agClosed,   \* it is closed
    agSender,   \* the sender runs
    agHealth,   \* the health reporter
    agLists,    \* listings under way: <<request, connection>>
    agReports   \* health reports made

browseVars == <<bwReq, bwPending, bwChan, bwLoop, bwCmd, bwWire, bwBroken,
                agAt, agGen, agQueue, agClosed, agSender, agHealth, agLists, agReports>>
serverVars == <<bwReq, bwPending, bwChan, bwLoop>>
agentVars  == <<agAt, agGen, agQueue, agClosed, agSender, agHealth, agLists, agReports>>

Streams == 1 .. MaxStreams
Report  == [is |-> "health"]
Listing(r) == [is |-> "listing", r |-> r]
Events  == {Report} \cup {Listing(r) : r \in BrowseReqs}
LoopOff  == [at |-> "off"]
LoopIdle == [at |-> "recv"]

(* The types of requests, receive loops and the agent; its send channel    *)
(* holds at most SendCap events.                                           *)
BrowsingTypeOK ==
    /\ bwReq \in [BrowseReqs -> {[at |-> "none"], [at |-> "ended"]} \cup [at : {"send", "wait"}, g : Streams]]
    /\ bwPending \subseteq BrowseReqs /\ bwChan \subseteq BrowseReqs
    /\ bwLoop \in [Streams -> {LoopOff, LoopIdle} \cup [at : {"deliver"}, r : BrowseReqs]]
    /\ agQueue \in Seq(Events) /\ Len(agQueue) <= SendCap
    /\ agAt \in {"off", "up", "closing", "draining", "crashed"} /\ agGen \in 0 .. MaxStreams
    /\ agHealth \in {"gone", "wait", "emit"} /\ agLists \subseteq BrowseReqs \X Streams

BrowsingInit ==
    /\ bwReq = [r \in BrowseReqs |-> [at |-> "none"]] /\ bwPending = {} /\ bwChan = {}
    /\ bwLoop = [g \in Streams |-> LoopOff] /\ bwCmd = [g \in Streams |-> {}]
    /\ bwWire = [g \in Streams |-> <<>>] /\ bwBroken = {}
    /\ agAt = "off" /\ agGen = 0 /\ agQueue = <<>> /\ agClosed = FALSE /\ agSender = FALSE
    /\ agHealth = "gone" /\ agLists = {} /\ agReports = 0

-----------------------------------------------------------------------------
(* The server. *)

RegisterRequest(r) == bwPending' = bwPending \cup {r}
Cancel(r)   == bwPending' = bwPending \ {r}

ReqTo(r, to) == bwReq' = [bwReq EXCEPT ![r] = to]
ReqEnds(r)   == ReqTo(r, [at |-> "ended"])

(* GET .../browse: 404 without a connection, else the request is           *)
(* registered ...                                                          *)
BrowseDirectory(r) ==
    /\ bwReq[r].at = "none"
    /\ \E g \in Streams : bwLoop[g] # LoopOff /\ RegisterRequest(r) /\ ReqTo(r, [at |-> "send", g |-> g])
    /\ UNCHANGED <<bwChan, bwLoop, bwCmd, bwWire, bwBroken, agentVars>>

(* ... and the command sent, or the stream is broken.                      *)
Mutant_SendListCommand(r) ==
    /\ bwReq[r].at = "send"
    /\ IF bwReq[r].g \in bwBroken
       THEN ReqEnds(r) /\ UNCHANGED <<bwCmd, bwPending>>
       ELSE /\ bwCmd' = [bwCmd EXCEPT ![bwReq[r].g] = @ \cup {r}]
            /\ ReqTo(r, [bwReq[r] EXCEPT !.at = "wait"]) /\ UNCHANGED bwPending
    /\ UNCHANGED <<bwChan, bwLoop, bwWire, bwBroken, agentVars>>

SendListCommand(r) ==
    /\ bwReq[r].at = "send"
    /\ IF bwReq[r].g \in bwBroken
       THEN Cancel(r) /\ ReqEnds(r) /\ UNCHANGED bwCmd
       ELSE /\ bwCmd' = [bwCmd EXCEPT ![bwReq[r].g] = @ \cup {r}]
            /\ ReqTo(r, [bwReq[r] EXCEPT !.at = "wait"]) /\ UNCHANGED bwPending
    /\ UNCHANGED <<bwChan, bwLoop, bwWire, bwBroken, agentVars>>

Answered(r) ==
    /\ bwReq[r].at = "wait" /\ r \in bwChan
    /\ bwChan' = bwChan \ {r} /\ ReqEnds(r)
    /\ UNCHANGED <<bwPending, bwLoop, bwCmd, bwWire, bwBroken, agentVars>>

(* Ten seconds have passed, or the browser has gone.                       *)
GivesUp(r) ==
    /\ bwReq[r].at = "wait" /\ Cancel(r) /\ ReqEnds(r)
    /\ UNCHANGED <<bwChan, bwLoop, bwCmd, bwWire, bwBroken, agentVars>>

(* The receive loop takes an event; Resolve takes the request out of the   *)
(* table when it is still there ...                                        *)
Resolve(g) ==
    /\ bwLoop[g] = LoopIdle /\ bwWire[g] # <<>>
    /\ bwWire' = [bwWire EXCEPT ![g] = Tail(@)]
    /\ LET e == Head(bwWire[g]) IN
       IF e.is = "listing" /\ (\E r \in bwPending : e = Listing(r))
       THEN Cancel(e.r) /\ bwLoop' = [bwLoop EXCEPT ![g] = [at |-> "deliver", r |-> e.r]]
       ELSE UNCHANGED <<bwPending, bwLoop>>
    /\ UNCHANGED <<bwReq, bwChan, bwCmd, bwBroken, agentVars>>

(* The channel has a place for one answer.                                 *)
Mutant_Room(r) == bwReq[r].at = "wait"

Room(r) == r \notin bwChan

(* ... and, without the lock, puts the answer in the channel.              *)
Deliver(g) ==
    /\ bwLoop[g].at = "deliver" /\ Room(bwLoop[g].r)
    /\ bwChan' = bwChan \cup {bwLoop[g].r} /\ bwLoop' = [bwLoop EXCEPT ![g] = LoopIdle]
    /\ UNCHANGED <<bwReq, bwPending, bwCmd, bwWire, bwBroken, agentVars>>

(* The loop sees the end of its stream.                                    *)
LoopEnds(g) ==
    /\ bwLoop[g] = LoopIdle /\ g \in bwBroken
    /\ bwLoop' = [bwLoop EXCEPT ![g] = LoopOff]
    /\ bwWire' = [bwWire EXCEPT ![g] = <<>>] /\ bwCmd' = [bwCmd EXCEPT ![g] = {}]
    /\ UNCHANGED <<bwReq, bwPending, bwChan, bwBroken, agentVars>>

StreamBreaks(g) ==
    /\ bwLoop[g] # LoopOff /\ g \notin bwBroken
    /\ bwBroken' = bwBroken \cup {g}
    /\ UNCHANGED <<serverVars, bwCmd, bwWire, agentVars>>

-----------------------------------------------------------------------------
(* The agent. *)

(* Run connects again after a wait.                                        *)
Run == agAt = "off" /\ agGen < MaxStreams

(* A new connection with its own channel and its own goroutines.           *)
connectAndServe ==
    /\ Run
    /\ agGen' = agGen + 1 /\ agAt' = "up" /\ agQueue' = <<>> /\ agClosed' = FALSE
    /\ agSender' = TRUE /\ agHealth' = "emit"
    /\ bwLoop' = [bwLoop EXCEPT ![agGen'] = LoopIdle]
    /\ UNCHANGED <<bwReq, bwPending, bwChan, bwCmd, bwWire, bwBroken, agLists, agReports>>

(* The receive loop starts a listing.                                      *)
AgentReceives(r) ==
    /\ agAt = "up" /\ agGen \notin bwBroken /\ r \in bwCmd[agGen]
    /\ bwCmd' = [bwCmd EXCEPT ![agGen] = @ \ {r}]
    /\ agLists' = agLists \cup {<<r, agGen>>}
    /\ UNCHANGED <<serverVars, bwWire, bwBroken, agAt, agGen, agQueue, agClosed, agSender, agHealth, agReports>>

(* select { case sendCh <- evt: default: }: a full channel drops the       *)
(* event, a closed one panics.                                             *)
TrySend(g, e) ==
    IF g # agGen \/ agClosed
    THEN agAt' = "crashed" /\ UNCHANGED agQueue
    ELSE UNCHANGED agAt /\ agQueue' = IF Len(agQueue) < SendCap THEN Append(agQueue, e) ELSE agQueue

(* The listing, or the error, is sent to the channel of the connection it  *)
(* was asked on.                                                           *)
handleListDirectory(l) ==
    /\ l \in agLists /\ agAt # "crashed"
    /\ TrySend(l[2], Listing(l[1])) /\ agLists' = agLists \ {l}
    /\ UNCHANGED <<serverVars, bwCmd, bwWire, bwBroken, agGen, agClosed, agSender, agHealth, agReports>>

(* The sender: an event goes out, or the stream is broken and it returns;  *)
(* it also returns when the channel is closed and empty.                   *)
SenderStep ==
    /\ agSender /\ agAt # "crashed"
    /\ \/ /\ agQueue # <<>> /\ agQueue' = Tail(agQueue)
          /\ IF agGen \in bwBroken
             THEN agSender' = FALSE /\ UNCHANGED bwWire
             ELSE UNCHANGED agSender /\ bwWire' = [bwWire EXCEPT ![agGen] = Append(@, Head(agQueue))]
       \/ agQueue = <<>> /\ agClosed /\ agSender' = FALSE /\ UNCHANGED <<agQueue, bwWire>>
    /\ UNCHANGED <<serverVars, bwCmd, bwBroken, agAt, agGen, agClosed, agHealth, agLists, agReports>>

emitHealthEvent ==
    /\ agHealth = "emit" /\ agAt # "crashed"
    /\ TrySend(agGen, Report) /\ agHealth' = "wait"
    /\ UNCHANGED <<serverVars, bwCmd, bwWire, bwBroken, agGen, agClosed, agSender, agLists, agReports>>

(* The ticker, or the end of the context.                                  *)
sendHealthEvents ==
    /\ agHealth = "wait" /\ agAt # "crashed"
    /\ \/ agAt = "up" /\ agReports < MaxHealth /\ agHealth' = "emit" /\ agReports' = agReports + 1
       \/ agAt \in {"closing", "draining"} /\ agHealth' = "gone" /\ UNCHANGED agReports
    /\ UNCHANGED <<serverVars, bwCmd, bwWire, bwBroken, agAt, agGen, agQueue, agClosed, agSender, agLists>>

(* The receive loop ends: the health context is cancelled and the session  *)
(* relay stopped ...                                                       *)
ReceiveEnds ==
    /\ agAt = "up" /\ agGen \in bwBroken /\ agAt' = "closing"
    /\ UNCHANGED <<serverVars, bwCmd, bwWire, bwBroken, agGen, agQueue, agClosed, agSender, agHealth, agLists, agReports>>

(* ... the channel closed ...                                              *)
CloseSendCh ==
    /\ agAt = "closing" /\ agAt' = "draining" /\ agClosed' = TRUE
    /\ UNCHANGED <<serverVars, bwCmd, bwWire, bwBroken, agGen, agQueue, agSender, agHealth, agLists, agReports>>

(* ... and the sender and the health reporter, but no listing, waited for. *)
WaitReturns ==
    /\ agAt = "draining" /\ ~agSender /\ agHealth = "gone" /\ agAt' = "off"
    /\ UNCHANGED <<serverVars, bwCmd, bwWire, bwBroken, agGen, agQueue, agClosed, agSender, agHealth, agLists, agReports>>

(* After a panic the service manager starts the agent again.               *)
AgentRestarts ==
    /\ agAt = "crashed" /\ agAt' = "off" /\ agLists' = {} /\ agSender' = FALSE /\ agHealth' = "gone"
    /\ agQueue' = <<>> /\ agClosed' = TRUE /\ bwBroken' = bwBroken \cup {agGen}
    /\ UNCHANGED <<serverVars, bwCmd, bwWire, agGen, agReports>>

LoopStep(g) == Resolve(g) \/ Deliver(g) \/ LoopEnds(g)
CleanUp     == ReceiveEnds \/ CloseSendCh \/ WaitReturns

BrowsingNext ==
    \/ \E r \in BrowseReqs :
          BrowseDirectory(r) \/ SendListCommand(r) \/ Answered(r) \/ GivesUp(r) \/ AgentReceives(r)
    \/ \E g \in Streams : LoopStep(g) \/ StreamBreaks(g)
    \/ \E l \in agLists : handleListDirectory(l)
    \/ connectAndServe \/ SenderStep \/ emitHealthEvent \/ sendHealthEvents \/ CleanUp \/ AgentRestarts

(* Goroutines that can go on do; a request may be given up, a stream may   *)
(* last, an agent may not come back.                                       *)
BrowsingFairness ==
    /\ \A g \in Streams : WF_browseVars(LoopStep(g))
    /\ WF_browseVars(CleanUp) /\ WF_browseVars(SenderStep)
    /\ WF_browseVars(emitHealthEvent) /\ WF_browseVars(sendHealthEvents)

-----------------------------------------------------------------------------
(* Properties. *)

(* The broker keeps no request whose handler has returned, whichever of    *)
(* the answer, the timeout, a failed send or a new connection came first:  *)
(* its table cannot grow.                                                  *)
NoOrphanEntry == \A r \in bwPending : bwReq[r].at \in {"send", "wait"}

(* The receive loop of a stream, which serves every session of a machine,  *)
(* never hangs on an answer whose handler gave up between the look in the  *)
(* table and the delivery.                                                 *)
LoopNeverHangs == \A g \in Streams : bwLoop[g].at = "deliver" ~> bwLoop[g].at # "deliver"

(* Once the shutdown of a connection has begun it ends, so that the agent  *)
(* can connect again, or the process has ended.                            *)
ShutdownEnds == agAt \in {"closing", "draining"} ~> agAt \in {"off", "crashed"}

(* The broker's table holds only requests that a handler waits for, and    *)
(* sendCh keeps to its capacity.                                           *)
BrowsingInv == BrowsingTypeOK /\ NoOrphanEntry

(* Receive loops are not held up by an answer nobody waits for, and the    *)
(* shutdown of a connection ends.                                          *)
StreamsServed == LoopNeverHangs /\ ShutdownEnds
=============================================================================
