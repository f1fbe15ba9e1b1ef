------------------------------- MODULE Logging -------------------------------
(***************************************************************************)
(* Log records: the server's own handler with its background writer        *)
(* (internal/server/logging/tee_handler.go), the bridge's forwarder        *)
(* (internal/bridge/log_forwarder.go) with the endpoint that takes its     *)
(* batches (server/handler/bridge_ingest.go), the log table, and the       *)
(* broadcaster with its live viewers (server/session/logs_ws.go).          *)
(*                                                                         *)
(* A record is a number and a level.  Channels have a capacity, and what   *)
(* does not fit is dropped.  The bridge logs from several goroutines; any  *)
(* of them flushes when the buffer is long enough, next to the ticker.     *)
(***************************************************************************)
EXTENDS Integers, Sequences, FiniteSets, SequencesExt

CONSTANTS Viewers, Flushers,
          SinkCap,      \* capacity of dbSink
          ViewCap,      \* capacity of a viewer's channel (256)
          MaxBatch,     \* records that make the forwarder flush (50)
          MaxSubs,      \* viewers the broadcaster admits (100)
          MaxRecords,   \* bound: records
          MaxLogFaults  \* bound: failed inserts and posts

ASSUME LoggingAssumption == {SinkCap, ViewCap, MaxBatch, MaxSubs, MaxRecords, MaxLogFaults} \subseteq Nat

VARIABLES
    lgMade,     \* records made
    lgSink,     \* TeeHandler.dbSink
    lgBuf,      \* the writer's buffer
    lgWriter,   \* the writer: running, draining or gone
    lgHand,     \* records handed to the sink and not yet broadcast
    lgRows,     \* server_logs
    lgDropped,  \* history: records dropped for a full channel, a failed write,
                \*          a flush under way or a closed writer
    fwBuf,      \* logForwarderState.buf
    fwSending,  \* logForwarderState.sending
    fwFlush,    \* per flusher: its flush
    fwPosts,    \* batches the server is working on
    vwAt,       \* per viewer: its loop
    vwBroken,   \* viewers whose connection broke
    vwChan,     \* per viewer: LogSubscriber.Ch
    vwFilter,   \* per viewer: the lowest level shown
    lgSubs,     \* LogBroadcaster.subscribers
    vwClosed,   \* viewers whose channel is closed
    lgFaults

logVars == <<lgMade, lgSink, lgBuf, lgWriter, lgHand, lgRows, lgDropped, fwBuf, fwSending, fwFlush, fwPosts,
             vwAt, vwBroken, vwChan, vwFilter, lgSubs, vwClosed, lgFaults>>
teeVars == <<lgSink, lgBuf, lgWriter, lgHand>>
fwVars  == <<fwBuf, fwSending, fwFlush, fwPosts>>
vwVars  == <<vwAt, vwBroken, vwChan, vwFilter, lgSubs, vwClosed>>

LogRecs == 1 .. MaxRecords
Level(r) == r % 2
NoFlush == [at |-> "none"]

(* The types of buffers and viewers; no channel is over its capacity and   *)
(* there are at most MaxSubs subscribers.                                  *)
LoggingTypeOK ==
    /\ lgSink \in Seq(LogRecs) /\ Len(lgSink) <= SinkCap /\ lgBuf \in Seq(LogRecs) /\ lgRows \subseteq LogRecs
    /\ fwBuf \in Seq(LogRecs) /\ lgWriter \in {"run", "drain", "gone"}
    /\ \A v \in Viewers : vwChan[v] \in Seq(LogRecs) /\ Len(vwChan[v]) <= ViewCap
    /\ vwAt \in [Viewers -> {"off", "wait", "loop", "ending"}] /\ Cardinality(lgSubs) <= MaxSubs

LoggingInit ==
    /\ lgMade = 0 /\ lgSink = <<>> /\ lgBuf = <<>> /\ lgWriter = "run" /\ lgHand = {} /\ lgRows = {} /\ lgDropped = {}
    /\ fwBuf = <<>> /\ fwSending = FALSE /\ fwFlush = [f \in Flushers |-> NoFlush] /\ fwPosts = {}
    /\ vwAt = [v \in Viewers |-> "off"] /\ vwBroken = {} /\ vwChan = [v \in Viewers |-> <<>>]
    /\ vwFilter = [v \in Viewers |-> 0] /\ lgSubs = {} /\ vwClosed = {} /\ lgFaults = 0

Fails == lgFaults < MaxLogFaults /\ lgFaults' = lgFaults + 1
NewRecord == lgMade < MaxRecords /\ lgMade' = lgMade + 1

-----------------------------------------------------------------------------
(* The broadcaster. *)

matches(v, r) == Level(r) >= vwFilter[v]

(* Under the read lock: every subscriber whose filter matches and whose    *)
(* channel has room.                                                       *)
Broadcast(r) ==
    vwChan' = [v \in Viewers |-> IF v \in lgSubs /\ matches(v, r) /\ Len(vwChan[v]) < ViewCap
                                 THEN Append(vwChan[v], r) ELSE vwChan[v]]

Subscribe(v) ==
    /\ Cardinality(lgSubs) < MaxSubs /\ lgSubs' = lgSubs \cup {v} /\ vwClosed' = vwClosed \ {v}

Unsubscribe(v) == lgSubs' = lgSubs \ {v} /\ vwClosed' = vwClosed \cup {v}

(* An admin's browser connects; over the limit it is turned away.          *)
HandleLogsWS(v) ==
    /\ vwAt[v] = "off" /\ v \notin vwBroken /\ Subscribe(v)
    /\ vwAt' = [vwAt EXCEPT ![v] = "wait"] /\ vwChan' = [vwChan EXCEPT ![v] = <<>>]
    /\ vwFilter' = [vwFilter EXCEPT ![v] = 0]
    /\ UNCHANGED <<lgMade, teeVars, lgRows, lgDropped, fwVars, vwBroken, lgFaults>>

(* The reader takes a filter, at first or later, and acknowledges it.      *)
UpdateFilter(v, low) ==
    /\ vwAt[v] \in {"wait", "loop"} /\ v \notin vwBroken /\ low # vwFilter[v]
    /\ vwFilter' = [vwFilter EXCEPT ![v] = low] /\ vwAt' = [vwAt EXCEPT ![v] = "loop"]
    /\ UNCHANGED <<lgMade, teeVars, lgRows, lgDropped, fwVars, vwBroken, vwChan, lgSubs, vwClosed, lgFaults>>

(* No filter came in time.                                                 *)
FilterTimeout(v) ==
    /\ vwAt[v] = "wait" /\ vwAt' = [vwAt EXCEPT ![v] = "loop"]
    /\ UNCHANGED <<lgMade, teeVars, lgRows, lgDropped, fwVars, vwBroken, vwChan, vwFilter, lgSubs, vwClosed, lgFaults>>

ViewRecord(v) ==
    /\ vwAt[v] = "loop" /\ vwChan[v] # <<>>
    /\ vwChan' = [vwChan EXCEPT ![v] = Tail(@)]
    /\ vwAt' = IF v \in vwBroken THEN [vwAt EXCEPT ![v] = "ending"] ELSE vwAt
    /\ UNCHANGED <<lgMade, teeVars, lgRows, lgDropped, fwVars, vwBroken, vwFilter, lgSubs, vwClosed, lgFaults>>

ViewerBreaks(v) ==
    /\ vwAt[v] # "off" /\ v \notin vwBroken /\ vwBroken' = vwBroken \cup {v}
    /\ UNCHANGED <<lgMade, teeVars, lgRows, lgDropped, fwVars, vwAt, vwChan, vwFilter, lgSubs, vwClosed, lgFaults>>

(* The context is done, in the wait for the filter or in the loop, and the *)
(* deferred calls run.                                                     *)
Mutant_ViewerEnds(v) ==
    /\ v \in vwBroken /\ vwAt[v] # "off"
    /\ IF vwAt[v] = "wait" THEN UNCHANGED <<lgSubs, vwClosed>> ELSE Unsubscribe(v)
    /\ vwAt' = [vwAt EXCEPT ![v] = "off"] /\ vwChan' = [vwChan EXCEPT ![v] = <<>>]
    /\ UNCHANGED <<lgMade, teeVars, lgRows, lgDropped, fwVars, vwBroken, vwFilter, lgFaults>>

ViewerEnds(v) ==
    /\ v \in vwBroken /\ vwAt[v] # "off" /\ Unsubscribe(v)
    /\ vwAt' = [vwAt EXCEPT ![v] = "off"] /\ vwChan' = [vwChan EXCEPT ![v] = <<>>]
    /\ UNCHANGED <<lgMade, teeVars, lgRows, lgDropped, fwVars, vwBroken, vwFilter, lgFaults>>

-----------------------------------------------------------------------------
(* The server's own records. *)

(* Handle: the record goes to the sink if it has room ...                  *)
HandleRecord ==
    /\ NewRecord /\ lgHand' = lgHand \cup {lgMade'}
    /\ IF Len(lgSink) < SinkCap /\ lgWriter # "gone"
       THEN lgSink' = Append(lgSink, lgMade') /\ UNCHANGED lgDropped
       ELSE lgDropped' = lgDropped \cup {lgMade'} /\ UNCHANGED lgSink
    /\ UNCHANGED <<lgBuf, lgWriter, lgRows, fwVars, vwVars, lgFaults>>

(* ... and to the viewers.                                                 *)
HandleBroadcasts(r) ==
    /\ r \in lgHand /\ lgHand' = lgHand \ {r} /\ Broadcast(r)
    /\ UNCHANGED <<lgMade, lgSink, lgBuf, lgWriter, lgRows, lgDropped, fwVars, vwAt, vwBroken, vwFilter, lgSubs, vwClosed, lgFaults>>

WriterTakes ==
    /\ lgWriter \in {"run", "drain"} /\ lgSink # <<>>
    /\ lgBuf' = Append(lgBuf, Head(lgSink)) /\ lgSink' = Tail(lgSink)
    /\ UNCHANGED <<lgMade, lgWriter, lgHand, lgRows, lgDropped, fwVars, vwVars, lgFaults>>

(* One transaction: all records or none.                                   *)
InsertBatch(S) ==
    \/ lgRows' = lgRows \cup S /\ UNCHANGED <<lgDropped, lgFaults>>
    \/ Fails /\ lgDropped' = lgDropped \cup S /\ UNCHANGED lgRows

(* flush, for a long buffer, the ticker, or at the end.                    *)
WriterFlushes ==
    /\ lgWriter = "run" /\ lgBuf # <<>>
    /\ InsertBatch(Range(lgBuf)) /\ lgBuf' = <<>>
    /\ UNCHANGED <<lgMade, lgSink, lgWriter, lgHand, fwVars, vwVars>>

(* Close.                                                                  *)
CloseTee ==
    /\ lgWriter = "run" /\ lgWriter' = "drain"
    /\ UNCHANGED <<lgMade, lgSink, lgBuf, lgHand, lgRows, lgDropped, fwVars, vwVars, lgFaults>>

(* The writer drains the sink, flushes and is gone; what comes after finds *)
(* no writer.                                                              *)
backgroundWriter ==
    /\ lgWriter = "drain" /\ lgSink = <<>> /\ lgWriter' = "gone"
    /\ InsertBatch(Range(lgBuf)) /\ lgBuf' = <<>>
    /\ UNCHANGED <<lgMade, lgSink, lgHand, fwVars, vwVars>>

-----------------------------------------------------------------------------
(* The bridge's records. *)

Mutant_flush(f) ==
    /\ IF fwBuf = <<>> THEN fwFlush' = [fwFlush EXCEPT ![f] = NoFlush]
       ELSE fwFlush' = [fwFlush EXCEPT ![f] = [at |-> "taken", batch |-> fwBuf]]
    /\ UNCHANGED fwBuf

(* flush: the buffer is taken under the lock; sending is set after it.     *)
flush(f) ==
    /\ IF fwBuf = <<>> THEN fwFlush' = [fwFlush EXCEPT ![f] = NoFlush]
       ELSE fwFlush' = [fwFlush EXCEPT ![f] = [at |-> "taken", batch |-> fwBuf]]
    /\ fwBuf' = <<>>

(* Handle: dropped during a flush, else buffered; when there are enough,   *)
(* this goroutine flushes.                                                 *)
HandleForward(f) ==
    /\ fwFlush[f] = NoFlush /\ NewRecord
    /\ IF fwSending
       THEN lgDropped' = lgDropped \cup {lgMade'} /\ UNCHANGED <<fwBuf, fwFlush>>
       ELSE /\ UNCHANGED lgDropped /\ fwBuf' = Append(fwBuf, lgMade')
            /\ fwFlush' = IF Len(fwBuf') >= MaxBatch THEN [fwFlush EXCEPT ![f] = [at |-> "due"]] ELSE fwFlush
    /\ UNCHANGED <<teeVars, lgRows, fwSending, fwPosts, vwVars, lgFaults>>

FlushDue(f) ==
    /\ fwFlush[f].at = "due" /\ flush(f)
    /\ UNCHANGED <<lgMade, teeVars, lgRows, lgDropped, fwSending, fwPosts, vwVars, lgFaults>>

(* The ticker of flushLoop, or Close.                                      *)
flushLoop(f) ==
    /\ fwFlush[f] = NoFlush /\ fwBuf # <<>> /\ flush(f)
    /\ UNCHANGED <<lgMade, teeVars, lgRows, lgDropped, fwSending, fwPosts, vwVars, lgFaults>>

(* The post leaves, or fails.                                              *)
PostLogs(f) ==
    /\ fwFlush[f].at = "taken" /\ fwSending' = TRUE
    /\ fwFlush' = [fwFlush EXCEPT ![f] = [at |-> "post"]]
    /\ \/ fwPosts' = fwPosts \cup {[todo |-> fwFlush[f].batch, stored |-> FALSE]} /\ UNCHANGED <<lgDropped, lgFaults>>
       \/ Fails /\ lgDropped' = lgDropped \cup Range(fwFlush[f].batch) /\ UNCHANGED fwPosts
    /\ UNCHANGED <<lgMade, teeVars, lgRows, fwBuf, vwVars>>

(* The answer comes, or five seconds pass.                                 *)
PostReturns(f) ==
    /\ fwFlush[f].at = "post" /\ fwSending' = FALSE
    /\ fwFlush' = [fwFlush EXCEPT ![f] = NoFlush]
    /\ UNCHANGED <<lgMade, teeVars, lgRows, lgDropped, fwBuf, fwPosts, vwVars, lgFaults>>

(* HandleLogs stores the batch; if that fails nothing is broadcast.        *)
HandleLogs(p) ==
    /\ p \in fwPosts /\ ~p.stored /\ InsertBatch(Range(p.todo))
    /\ fwPosts' = IF lgRows' = lgRows THEN fwPosts \ {p} ELSE (fwPosts \ {p}) \cup {[p EXCEPT !.stored = TRUE]}
    /\ UNCHANGED <<lgMade, teeVars, fwBuf, fwSending, fwFlush, vwVars>>

HandleLogsBroadcasts(p) ==
    /\ p \in fwPosts /\ p.stored /\ Broadcast(Head(p.todo))
    /\ fwPosts' = (fwPosts \ {p}) \cup (IF Len(p.todo) = 1 THEN {} ELSE {[p EXCEPT !.todo = Tail(@)]})
    /\ UNCHANGED <<lgMade, teeVars, lgRows, lgDropped, fwBuf, fwSending, fwFlush,
                   vwAt, vwBroken, vwFilter, lgSubs, vwClosed, lgFaults>>

ServePost == \E p \in fwPosts : HandleLogs(p) \/ HandleLogsBroadcasts(p)
Forward   == \E f \in Flushers : flushLoop(f) \/ FlushDue(f) \/ PostLogs(f) \/ PostReturns(f)
Writer    == WriterTakes \/ WriterFlushes \/ backgroundWriter

LoggingNext ==
    \/ HandleRecord \/ CloseTee \/ Writer \/ Forward \/ ServePost
    \/ \E r \in LogRecs : HandleBroadcasts(r)
    \/ \E f \in Flushers : HandleForward(f)
    \/ \E v \in Viewers :
          \/ HandleLogsWS(v) \/ FilterTimeout(v) \/ ViewRecord(v) \/ ViewerBreaks(v) \/ ViewerEnds(v)
          \/ \E low \in {0, 1} : UpdateFilter(v, low)

(* The writer, the ticker of the forwarder, the server's handler and the   *)
(* loop of a viewer run on.                                                *)
LoggingFairness ==
    /\ WF_logVars(Writer) /\ WF_logVars(Forward) /\ WF_logVars(ServePost)
    /\ \A v \in Viewers : WF_logVars(ViewerEnds(v))

-----------------------------------------------------------------------------
(* Properties. *)

(* A record is in one place: a buffer, a batch on its way, the table or    *)
(* among the dropped; flushes that overlap neither store one twice nor     *)
(* lose one.                                                               *)
RecordInOnePlace ==
    \A r \in 1 .. lgMade :
       LET Holds(S) == IF r \in S THEN 1 ELSE 0
           taken == {f \in Flushers : fwFlush[f].at = "taken" /\ r \in Range(fwFlush[f].batch)}
           posts == {p \in fwPosts : ~p.stored /\ r \in Range(p.todo)}
       IN  Holds(Range(lgSink)) + Holds(Range(lgBuf)) + Holds(Range(fwBuf)) + Holds(lgRows) + Holds(lgDropped)
           + Cardinality(taken) + Cardinality(posts) = 1

(* What is in a buffer when the server still writes logs, or in that of    *)
(* the bridge, gets into the table unless a write or a post fails: Close   *)
(* loses nothing that was handed over before it.                           *)
LogsAreStored ==
    /\ \A r \in LogRecs : (r \in Range(lgSink) /\ lgWriter = "run") ~> (r \in lgRows \cup lgDropped)
    /\ \A r \in LogRecs : r \in Range(fwBuf) ~> r \in lgRows \cup lgDropped

(* The channel of a subscriber is open: a broadcast never writes to one    *)
(* that was closed.                                                        *)
SubscribersOpen == lgSubs \cap vwClosed = {}

(* A viewer whose connection broke gives its place back, in the wait for   *)
(* the first filter too: the limit counts the living.                      *)
PlacesGivenBack == \A v \in Viewers : v \in vwBroken ~> v \notin lgSubs

(* Overlapping flushes neither store a record twice nor lose one, and      *)
(* broadcasts write to open channels only.                                 *)
LoggingInv == LoggingTypeOK /\ RecordInOnePlace /\ SubscribersOpen
=============================================================================
