------------------------------ MODULE EventBus ------------------------------
(***************************************************************************)
(* The event bus of internal/server/event/bus.go: publishers, subscribers  *)
(* with a bounded channel and a worker each, and Close.                    *)
(*                                                                         *)
(* Publish reads the closed flag, persists without the lock, and fans out  *)
(* under the read lock, one subscriber after the other.  Subscribe, the    *)
(* unsubscribe function and Close change the list under the write lock and *)
(* close channels after they have released it.  A send on a closed channel *)
(* panics in Go, and closing waits for the workers, so the order of these  *)
(* steps matters.                                                          *)
(***************************************************************************)
EXTENDS Integers, Sequences, FiniteSets

CONSTANTS Publishers, Subscribers,
          BusWorkers,   \* goroutines a subscriber could have
          BusBuffer,    \* BufferSize
          MaxPublish    \* bound: events per publisher

ASSUME EventBusAssumption == BusBuffer \in Nat \ {0} /\ MaxPublish \in Nat /\ BusWorkers # {}

VARIABLES
    busClosed,   \* Bus.closed
    busSubs,     \* Bus.subscribers
    busChan,     \* per subscriber: its channel, and whether it is closed
    busWork,     \* per subscriber and worker: off, idle, left, or busy with an event
    busHandled,  \* per subscriber: events whose handler has returned, in order
    pubAt,       \* per publisher: where its Publish is
    pubCount,    \* per publisher: events published so far
    persisted,   \* events that reached InsertEvent
    subAt,       \* per subscriber: where its owner is
    closeAt,     \* where the caller of Close is
    closeList    \* subs: the subscribers it took off the list

busVars == <<busClosed, busSubs, busChan, busWork, busHandled, pubAt, pubCount,
             persisted, subAt, closeAt, closeList>>

BusEvents   == Publishers \X (1 .. MaxPublish)
IdlePub     == [at |-> "idle"]
EmptyChan   == [buf |-> <<>>, closed |-> FALSE]
Readers     == {p \in Publishers : pubAt[p].at = "fanout"}   \* hold the read lock
Left(s)     == \A w \in BusWorkers : busWork[s][w].at \in {"off", "left"}

(* The types of channels, workers and callers; no channel holds more than  *)
(* its capacity.                                                           *)
EventBusTypeOK ==
    /\ busClosed \in BOOLEAN /\ busSubs \subseteq Subscribers
    /\ \A s \in Subscribers : /\ busChan[s].buf \in Seq(BusEvents) /\ Len(busChan[s].buf) <= BusBuffer
                              /\ busChan[s].closed \in BOOLEAN
    /\ \A s \in Subscribers, w \in BusWorkers :
          busWork[s][w].at \in {"off", "idle", "left"} \/ busWork[s][w].ev \in BusEvents
    /\ \A p \in Publishers :
          pubAt[p] # IdlePub => pubAt[p].at \in {"persist", "lock", "fanout"} /\ pubAt[p].ev \in BusEvents
    /\ pubCount \in [Publishers -> 0 .. MaxPublish] /\ persisted \subseteq BusEvents
    /\ subAt \in [Subscribers -> {"new", "started", "refused", "on", "removed", "wait", "off"}]
    /\ closeAt \in {"no", "closing", "wait", "done"} /\ closeList \subseteq Subscribers

EventBusInit ==
    /\ busClosed = FALSE /\ busSubs = {} /\ persisted = {} /\ closeAt = "no" /\ closeList = {}
    /\ busChan = [s \in Subscribers |-> EmptyChan]
    /\ busWork = [s \in Subscribers |-> [w \in BusWorkers |-> [at |-> "off"]]]
    /\ busHandled = [s \in Subscribers |-> <<>>]
    /\ pubAt = [p \in Publishers |-> IdlePub] /\ pubCount = [p \in Publishers |-> 0]
    /\ subAt = [s \in Subscribers |-> "new"]

-----------------------------------------------------------------------------
(* Publish. *)

PubGoto(p, to) == pubAt' = [pubAt EXCEPT ![p] = to]

(* It reads the closed flag.                                               *)
PublishBegin(p) ==
    /\ pubAt[p] = IdlePub /\ pubCount[p] < MaxPublish
    /\ pubCount' = [pubCount EXCEPT ![p] = @ + 1]
    /\ PubGoto(p, IF busClosed THEN IdlePub ELSE [at |-> "persist", ev |-> <<p, pubCount[p] + 1>>])
    /\ UNCHANGED <<busClosed, busSubs, busChan, busWork, busHandled, persisted, subAt, closeAt, closeList>>

(* persistFn; a failed insertion is logged, and counts here as well.       *)
Persist(p) ==
    /\ pubAt[p].at = "persist"
    /\ persisted' = persisted \cup {pubAt[p].ev}
    /\ PubGoto(p, [pubAt[p] EXCEPT !.at = "lock"])
    /\ UNCHANGED <<busClosed, busSubs, busChan, busWork, busHandled, pubCount, subAt, closeAt, closeList>>

(* The read lock is taken, the closed flag read again.                     *)
FanOutBegin(p) ==
    /\ pubAt[p].at = "lock"
    /\ PubGoto(p, IF busClosed THEN IdlePub
                  ELSE [at |-> "fanout", ev |-> pubAt[p].ev, todo |-> busSubs])
    /\ UNCHANGED <<busClosed, busSubs, busChan, busWork, busHandled, pubCount, persisted, subAt, closeAt, closeList>>

(* One subscriber: a full channel drops the event.                         *)
FanOut(p, s) ==
    /\ pubAt[p].at = "fanout" /\ s \in pubAt[p].todo
    /\ PubGoto(p, [pubAt[p] EXCEPT !.todo = @ \ {s}])
    /\ busChan' = IF Len(busChan[s].buf) < BusBuffer
                  THEN [busChan EXCEPT ![s].buf = Append(@, pubAt[p].ev)] ELSE busChan
    /\ UNCHANGED <<busClosed, busSubs, busWork, busHandled, pubCount, persisted, subAt, closeAt, closeList>>

FanOutEnd(p) ==
    /\ pubAt[p].at = "fanout" /\ pubAt[p].todo = {}
    /\ PubGoto(p, IdlePub)
    /\ UNCHANGED <<busClosed, busSubs, busChan, busWork, busHandled, pubCount, persisted, subAt, closeAt, closeList>>

-----------------------------------------------------------------------------
(* The worker of a subscriber: drain. *)

SetWork(s, w, to) == busWork' = [busWork EXCEPT ![s][w] = to]

TakeFromBus(s, w) ==
    /\ busWork[s][w].at = "idle" /\ busChan[s].buf # <<>>
    /\ SetWork(s, w, [at |-> "busy", ev |-> Head(busChan[s].buf)])
    /\ busChan' = [busChan EXCEPT ![s].buf = Tail(@)]
    /\ UNCHANGED <<busClosed, busSubs, busHandled, pubAt, pubCount, persisted, subAt, closeAt, closeList>>

(* The handler returns, with an error or not.                              *)
Handled(s, w) ==
    /\ busWork[s][w].at = "busy"
    /\ busHandled' = [busHandled EXCEPT ![s] = Append(@, busWork[s][w].ev)]
    /\ SetWork(s, w, [at |-> "idle"])
    /\ UNCHANGED <<busClosed, busSubs, busChan, pubAt, pubCount, persisted, subAt, closeAt, closeList>>

(* A closed channel ends the loop once it is empty.                        *)
WorkerLeaves(s, w) ==
    /\ busWork[s][w].at = "idle" /\ busChan[s].closed /\ busChan[s].buf = <<>>
    /\ SetWork(s, w, [at |-> "left"])
    /\ UNCHANGED <<busClosed, busSubs, busChan, busHandled, pubAt, pubCount, persisted, subAt, closeAt, closeList>>

BusWorker(s, w) == TakeFromBus(s, w) \/ Handled(s, w) \/ WorkerLeaves(s, w)

-----------------------------------------------------------------------------
(* Subscribe and the function it returns. *)

SubGoto(s, from, to) == subAt[s] = from /\ subAt' = [subAt EXCEPT ![s] = to]

(* The workers start before the subscriber is registered; Concurrency is 1 *)
(* for all but the trigger subscriber.                                     *)
SubscribeStart(s) ==
    /\ SubGoto(s, "new", "started")
    /\ SetWork(s, CHOOSE w \in BusWorkers : TRUE, [at |-> "idle"])
    /\ UNCHANGED <<busClosed, busSubs, busChan, busHandled, pubAt, pubCount, persisted, closeAt, closeList>>

(* A bus closed meanwhile refuses: the channel is closed, the worker ends. *)
SubscribeRegister(s) ==
    /\ Readers = {}
    /\ IF busClosed
       THEN SubGoto(s, "started", "refused") /\ UNCHANGED busSubs
       ELSE SubGoto(s, "started", "on") /\ busSubs' = busSubs \cup {s}
    /\ UNCHANGED <<busClosed, busChan, busWork, busHandled, pubAt, pubCount, persisted, closeAt, closeList>>

(* unsubscribe takes itself off the list ...                               *)
Mutant_UnsubscribeRemove(s) ==
    /\ Readers = {} /\ SubGoto(s, "on", "removed")
    /\ UNCHANGED <<busClosed, busSubs, busChan, busWork, busHandled, pubAt, pubCount, persisted, closeAt, closeList>>

UnsubscribeRemove(s) ==
    /\ Readers = {} /\ SubGoto(s, "on", "removed")
    /\ busSubs' = busSubs \ {s}
    /\ UNCHANGED <<busClosed, busChan, busWork, busHandled, pubAt, pubCount, persisted, closeAt, closeList>>

(* ... then closes its channel, once, ...                                  *)
Mutant_UnsubscribeClose(s) ==
    /\ SubGoto(s, "removed", "wait") \/ SubGoto(s, "refused", "wait")
    /\ UNCHANGED <<busClosed, busSubs, busChan, busWork, busHandled, pubAt, pubCount, persisted, closeAt, closeList>>

UnsubscribeClose(s) ==
    /\ SubGoto(s, "removed", "wait") \/ SubGoto(s, "refused", "wait")
    /\ busChan' = [busChan EXCEPT ![s].closed = TRUE]
    /\ UNCHANGED <<busClosed, busSubs, busWork, busHandled, pubAt, pubCount, persisted, closeAt, closeList>>

(* ... and waits for the worker.                                           *)
UnsubscribeReturns(s) ==
    /\ SubGoto(s, "wait", "off") /\ Left(s)
    /\ UNCHANGED <<busClosed, busSubs, busChan, busWork, busHandled, pubAt, pubCount, persisted, closeAt, closeList>>

-----------------------------------------------------------------------------
(* Close. *)

CloseBegin ==
    /\ closeAt = "no" /\ Readers = {}
    /\ busClosed' = TRUE /\ busSubs' = {} /\ closeList' = busSubs
    /\ closeAt' = "closing"
    /\ UNCHANGED <<busChan, busWork, busHandled, pubAt, pubCount, persisted, subAt>>

(* The channels of the list it took are closed one after the other, each   *)
(* once.                                                                   *)
CloseChannel(s) ==
    /\ closeAt = "closing" /\ s \in closeList /\ ~busChan[s].closed
    /\ busChan' = [busChan EXCEPT ![s].closed = TRUE]
    /\ UNCHANGED <<busClosed, busSubs, busWork, busHandled, pubAt, pubCount, persisted, subAt, closeAt, closeList>>

CloseWaits ==
    /\ closeAt = "closing" /\ \A s \in closeList : busChan[s].closed
    /\ closeAt' = "wait"
    /\ UNCHANGED <<busClosed, busSubs, busChan, busWork, busHandled, pubAt, pubCount, persisted, subAt, closeList>>

CloseReturns ==
    /\ closeAt = "wait" /\ \A s \in closeList : Left(s)
    /\ closeAt' = "done"
    /\ UNCHANGED <<busClosed, busSubs, busChan, busWork, busHandled, pubAt, pubCount, persisted, subAt, closeList>>

PublishGoesOn(p)  == Persist(p) \/ FanOutBegin(p) \/ (\E s \in Subscribers : FanOut(p, s)) \/ FanOutEnd(p)
SubscriberCall(s) == SubscribeRegister(s) \/ UnsubscribeClose(s) \/ UnsubscribeReturns(s)
CloseCall == (\E s \in Subscribers : CloseChannel(s)) \/ CloseWaits \/ CloseReturns

EventBusNext ==
    \/ \E p \in Publishers : PublishBegin(p) \/ PublishGoesOn(p)
    \/ \E s \in Subscribers : SubscribeStart(s) \/ SubscriberCall(s) \/ UnsubscribeRemove(s)
    \/ \E s \in Subscribers, w \in BusWorkers : BusWorker(s, w)
    \/ CloseBegin \/ CloseCall

(* Nobody has to call the bus, but every goroutine that can go on does;    *)
(* the write lock is taken in the end although publishers hold the read    *)
(* lock again and again (Go's RWMutex lets no reader overtake a waiting    *)
(* writer).                                                                *)
EventBusFairness ==
    /\ \A p \in Publishers : WF_busVars(PublishGoesOn(p))
    /\ \A s \in Subscribers : SF_busVars(SubscriberCall(s))
    /\ \A s \in Subscribers, w \in BusWorkers : WF_busVars(BusWorker(s, w))
    /\ WF_busVars(CloseCall)

-----------------------------------------------------------------------------
(* Properties. *)

(* A publisher never sends to a closed channel (which would bring the      *)
(* server down): while it fans out, the subscribers left are open, however *)
(* unsubscribe and Close are timed.                                        *)
NoSendOnClosed ==
    \A p \in Readers : \A s \in pubAt[p].todo : ~busChan[s].closed

(* Whatever a subscriber holds or has handled was persisted before, so     *)
(* that readers of the table see at least what subscribers acted on.       *)
DeliveredIsPersisted ==
    \A s \in Subscribers :
       /\ \A i \in 1 .. Len(busChan[s].buf) : busChan[s].buf[i] \in persisted
       /\ \A i \in 1 .. Len(busHandled[s]) : busHandled[s][i] \in persisted

(* A subscriber with one worker handles the events of a publisher at most  *)
(* once and in the order of their publication, with gaps where the channel *)
(* was full.                                                               *)
HandledInOrder ==
    \A s \in Subscribers : \A i, k \in 1 .. Len(busHandled[s]) :
       i < k /\ busHandled[s][i][1] = busHandled[s][k][1] => busHandled[s][i][2] < busHandled[s][k][2]

(* When the unsubscribe function or Close has returned, no handler of the  *)
(* subscriber runs or will run, and nothing it accepted is left behind.    *)
QuietAfterReturn ==
    \A s \in Subscribers :
       subAt[s] = "off" \/ (closeAt = "done" /\ s \in closeList) =>
          Left(s) /\ busChan[s].buf = <<>> /\ \A p \in Readers : s \notin pubAt[p].todo

(* Subscribe, unsubscribe and Close return, also when they overlap with    *)
(* each other and with publishers.                                         *)
BusCallsReturn ==
    /\ \A s \in Subscribers : subAt[s] \in {"started", "refused", "removed", "wait"} ~> subAt[s] \in {"on", "off"}
    /\ (closeAt = "closing") ~> (closeAt = "done")

(* The bus under overlapping Publish, unsubscribe and Close: no send on a  *)
(* closed channel, nothing handled that is not persisted, order per        *)
(* publisher, and silence once a subscriber is gone.                       *)
EventBusInv ==
    /\ EventBusTypeOK /\ NoSendOnClosed /\ DeliveredIsPersisted
    /\ HandledInOrder /\ QuietAfterReturn
=============================================================================
