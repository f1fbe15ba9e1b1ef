--------------------------- MODULE SessionContent ---------------------------
(***************************************************************************)
(* The searchable content of sessions: the ingestor that cuts output into  *)
(* numbered lines (internal/server/ingest/content.go), its tables          *)
(* (server/store/content.go), the retention sweep                          *)
(* (server/retention/cleaner.go) and the cleanups queued for an agent that *)
(* is away (server/grpc/server.go).                                        *)
(*                                                                         *)
(* Output is a number of newlines and whether text follows the last one.   *)
(* All sessions run on one machine; a handler serves one connection of it, *)
(* and an event it received is still handled when its connection broke and *)
(* the next one is already served.                                         *)
(***************************************************************************)
EXTENDS Integers, FiniteSets

CONSTANTS CtSessions, Handlers,
          NoHandler,
          BatchSize,    \* lines that make Ingest write at once (100)
          MaxLines,     \* bound: lines of a session
          MaxCtFaults   \* bound: failed writes, broken streams and server restarts

ASSUME ContentAssumption == /\ {BatchSize, MaxLines, MaxCtFaults} \subseteq Nat /\ MaxLines > 0
                            /\ NoHandler \notin Handlers

VARIABLES
    ctBuf,     \* ContentIngestor.buffers
    ctGen,     \* history: per session, the buffers it had
    ctLoop,    \* batches flushLoop has taken and not written
    ctHdl,     \* per handler: what it is doing
    ctRows,    \* session_lines: how many rows a line has
    ctMeta,    \* session_content_meta.line_count, 0 for no row
    ctLive,    \* sessions that run on the agent
    ctHeard,   \* history: per session, lines heard and whether text followed
    ctLost,    \* history: lines that were lost
    ctLate,    \* history: sessions with output handled while their end was
    ctOld,     \* sessions that ended longer ago than the retention time
    ctConn,    \* the handler of the agent's connection
    ctReg,     \* the handler of the registered connection
    ctClean,   \* the sweep: sessions still to be cleaned, and the one at hand
    ctPending, \* pending_cleanups
    ctDisp,    \* per handler: the dispatch of pending cleanups
    ctTold,    \* sessions whose cleanup was sent
    ctCleaned, \* history: sessions whose content was deleted
    ctExcused, \* history: cleanups that a failed write or another dispatch removed
    ctFaults

contentVars == <<ctBuf, ctGen, ctLoop, ctHdl, ctRows, ctMeta, ctLive, ctHeard, ctLost, ctLate, ctOld, ctConn, ctReg,
                 ctClean, ctPending, ctDisp, ctTold, ctCleaned, ctExcused, ctFaults>>
ingestVars  == <<ctBuf, ctGen, ctLoop, ctRows, ctMeta, ctHeard, ctLost, ctLate>>
cleanupVars == <<ctClean, ctPending, ctDisp, ctTold, ctCleaned, ctExcused>>

Idle     == [at |-> "idle"]
Gone     == [at |-> "gone"]
NoBuffer == [count |-> 0, partial |-> FALSE, batch |-> {}]
Resting  == [at |-> "rest", todo |-> {}]

(* A line has its number and the buffer that numbered it.                  *)
Lines  == [s : CtSessions, n : 1 .. MaxLines, g : 0 .. MaxCtFaults + 1]
Stored == {l \in Lines : ctRows[l] > 0}

(* The types of buffers, rows and handlers; line numbers stay within the   *)
(* lines that were heard.                                                  *)
ContentTypeOK ==
    /\ \A s \in CtSessions : /\ ctBuf[s].count \in 0 .. MaxLines /\ ctBuf[s].batch \subseteq Lines
                             /\ ctMeta[s] \in 0 .. MaxLines
    /\ ctRows \in [Lines -> Nat] /\ ctLoop \subseteq Lines /\ ctLost \subseteq Lines
    /\ \A h \in Handlers : ctHdl[h].at \in {"gone", "idle", "got", "write", "meta", "forget"}
    /\ ctPending \subseteq CtSessions /\ ctConn \in Handlers \cup {NoHandler}

(* Some sessions run; the others have ended with a line each, which is     *)
(* stored.                                                                 *)
ContentInit ==
    /\ ctBuf = [s \in CtSessions |-> NoBuffer] /\ ctLoop = {} /\ ctHdl = [h \in Handlers |-> Gone]
    /\ ctLive \in SUBSET CtSessions /\ ctGen = [s \in CtSessions |-> IF s \in ctLive THEN 0 ELSE 1]
    /\ ctRows = [l \in Lines |-> IF l.s \notin ctLive /\ l.n = 1 /\ l.g = 0 THEN 1 ELSE 0]
    /\ ctMeta = [s \in CtSessions |-> IF s \in ctLive THEN 0 ELSE 1]
    /\ ctHeard = [s \in CtSessions |-> [lines |-> ctMeta[s], tail |-> FALSE]] /\ ctLost = {} /\ ctLate = {}
    /\ ctOld = {} /\ ctConn = NoHandler /\ ctReg = NoHandler /\ ctClean = Resting /\ ctPending = {}
    /\ ctDisp = [h \in Handlers |-> Idle] /\ ctTold = {} /\ ctCleaned = {} /\ ctExcused = {} /\ ctFaults = 0

CtFault == ctFaults < MaxCtFaults /\ ctFaults' = ctFaults + 1
HdlTo(h, st) == ctHdl' = [ctHdl EXCEPT ![h] = st]

-----------------------------------------------------------------------------
(* The lines. *)

AddRows(S) == [l \in Lines |-> IF l \in S THEN ctRows[l] + 1 ELSE ctRows[l]]

(* One transaction.                                                        *)
InsertContentLines(S) ==
    \/ ctRows' = AddRows(S) /\ UNCHANGED <<ctLost, ctFaults>>
    \/ S # {} /\ CtFault /\ ctLost' = ctLost \cup S /\ UNCHANGED ctRows

UpsertContentMeta(s, n) ==
    \/ ctMeta' = [ctMeta EXCEPT ![s] = n] /\ UNCHANGED ctFaults
    \/ CtFault /\ UNCHANGED ctMeta

(* The agent sends output or an exit, which the handler receives.  A       *)
(* session's exit follows its output.                                      *)
Receive(h, ev) ==
    /\ ctConn = h /\ ctHdl[h] = Idle /\ ev.s \in ctLive
    /\ HdlTo(h, [at |-> "got", ev |-> ev])
    /\ ctLive' = IF ev.kind = "exit" THEN ctLive \ {ev.s} ELSE ctLive
    /\ UNCHANGED <<ingestVars, ctOld, ctConn, ctReg, cleanupVars, ctFaults>>

Numbered(s, k) == {[s |-> s, n |-> ctBuf[s].count + i, g |-> ctGen[s]] : i \in 1 .. k}

(* Text without a newline waits for the rest of its line.                  *)
Cut(s, k, tail) ==
    [count |-> ctBuf[s].count + k, partial |-> tail \/ (k = 0 /\ ctBuf[s].partial),
     batch |-> ctBuf[s].batch \cup Numbered(s, k)]

(* A handler is in FlushSession, past the lock.                            *)
Ending(s) ==
    \E h \in Handlers : /\ ctHdl[h].at \in {"write", "meta", "forget"} /\ ctHdl[h].s = s
                        /\ ctHdl[h].at = "write" => ctHdl[h].then # Idle

(* Under the buffer's lock; a full batch is taken, to be written outside   *)
(* it.                                                                     *)
Ingest(h) ==
    /\ ctHdl[h].at = "got" /\ ctHdl[h].ev.kind = "output"
    /\ LET ev == ctHdl[h].ev  buf == Cut(ev.s, ev.k, ev.tail) IN
       /\ buf.count < MaxLines
       /\ IF Cardinality(buf.batch) >= BatchSize
          THEN ctBuf' = [ctBuf EXCEPT ![ev.s] = [buf EXCEPT !.batch = {}]]
               /\ HdlTo(h, [at |-> "write", s |-> ev.s, lines |-> buf.batch, then |-> Idle])
          ELSE ctBuf' = [ctBuf EXCEPT ![ev.s] = buf] /\ HdlTo(h, Idle)
       /\ ctHeard' = [ctHeard EXCEPT ![ev.s] = [lines |-> @.lines + ev.k, tail |-> ev.tail \/ (ev.k = 0 /\ @.tail)]]
       /\ ctLate' = IF Ending(ev.s) THEN ctLate \cup {ev.s} ELSE ctLate
    /\ UNCHANGED <<ctGen, ctLoop, ctRows, ctMeta, ctLive, ctLost, ctOld, ctConn, ctReg, cleanupVars, ctFaults>>

writeBatch(h) ==
    /\ ctHdl[h].at = "write" /\ InsertContentLines(ctHdl[h].lines) /\ HdlTo(h, ctHdl[h].then)
    /\ UNCHANGED <<ctBuf, ctGen, ctLoop, ctMeta, ctLive, ctHeard, ctLate, ctOld, ctConn, ctReg, cleanupVars>>

(* What a session that ends has left: the open line becomes one.           *)
Remaining(s) ==
    IF ctBuf[s].partial THEN [lines |-> ctBuf[s].batch \cup Numbered(s, 1), count |-> ctBuf[s].count + 1]
    ELSE [lines |-> ctBuf[s].batch, count |-> ctBuf[s].count]

(* The last batch is taken under the lock.                                 *)
FlushSession(h) ==
    /\ ctHdl[h].at = "got" /\ ctHdl[h].ev.kind = "exit"
    /\ LET s == ctHdl[h].ev.s  rest == Remaining(s) IN
       IF ctBuf[s] = NoBuffer THEN HdlTo(h, Idle) /\ UNCHANGED ctBuf
       ELSE /\ ctBuf' = [ctBuf EXCEPT ![s] = [count |-> rest.count, partial |-> FALSE, batch |-> {}]]
            /\ HdlTo(h, [at |-> "write", s |-> s, lines |-> rest.lines, then |-> [at |-> "meta", s |-> s, n |-> rest.count]])
    /\ UNCHANGED <<ctGen, ctLoop, ctRows, ctMeta, ctLive, ctHeard, ctLost, ctLate, ctOld, ctConn, ctReg, cleanupVars, ctFaults>>

FlushWritesMeta(h) ==
    /\ ctHdl[h].at = "meta" /\ HdlTo(h, [at |-> "forget", s |-> ctHdl[h].s])
    /\ IF ctHdl[h].n > 0 THEN UpsertContentMeta(ctHdl[h].s, ctHdl[h].n) ELSE UNCHANGED <<ctMeta, ctFaults>>
    /\ UNCHANGED <<ctBuf, ctGen, ctLoop, ctRows, ctLive, ctHeard, ctLost, ctLate, ctOld, ctConn, ctReg, cleanupVars>>

(* The buffer is dropped with what came into it since; later output opens  *)
(* another, numbered from 1.                                               *)
FlushForgets(h) ==
    /\ ctHdl[h].at = "forget" /\ HdlTo(h, Idle)
    /\ LET s == ctHdl[h].s IN
       /\ ctBuf' = [ctBuf EXCEPT ![s] = NoBuffer] /\ ctGen' = [ctGen EXCEPT ![s] = @ + 1]
       /\ ctLost' = ctLost \cup ctBuf[s].batch
    /\ UNCHANGED <<ctLoop, ctRows, ctMeta, ctLive, ctHeard, ctLate, ctOld, ctConn, ctReg, cleanupVars, ctFaults>>

Mutant_TakeBatch(s) == ctLoop' = ctBuf[s].batch /\ UNCHANGED ctBuf

TakeBatch(s) == ctLoop' = ctBuf[s].batch /\ ctBuf' = [ctBuf EXCEPT ![s].batch = {}]

(* flushLoop, every half second: it takes a batch ...                      *)
flushContent(s) ==
    /\ ctLoop = {} /\ ctBuf[s].batch # {} /\ TakeBatch(s)
    /\ UNCHANGED <<ctGen, ctHdl, ctRows, ctMeta, ctLive, ctHeard, ctLost, ctLate, ctOld, ctConn, ctReg, cleanupVars, ctFaults>>

(* ... and writes it.                                                      *)
flushContentWrites ==
    /\ ctLoop # {} /\ InsertContentLines(ctLoop) /\ ctLoop' = {}
    /\ UNCHANGED <<ctBuf, ctGen, ctHdl, ctMeta, ctLive, ctHeard, ctLate, ctOld, ctConn, ctReg, cleanupVars>>

(* What a process that ends leaves in memory is gone, and the next one     *)
(* counts from 1.                                                          *)
NewServer ==
    /\ ctBuf' = [s \in CtSessions |-> NoBuffer]
    /\ ctGen' = [s \in CtSessions |-> IF ctBuf[s] = NoBuffer THEN ctGen[s] ELSE ctGen[s] + 1]
    /\ ctHdl' = [h \in Handlers |-> Gone] /\ ctLoop' = {} /\ ctConn' = NoHandler /\ ctReg' = NoHandler
    /\ ctClean' = Resting /\ ctDisp' = [h \in Handlers |-> Idle]
    /\ ctExcused' = ctExcused \cup ctCleaned
    /\ CtFault /\ UNCHANGED <<ctMeta, ctLive, ctHeard, ctLate, ctOld, ctPending, ctTold, ctCleaned>>

Held == UNION {ctHdl[h].lines : h \in {g \in Handlers : ctHdl[g].at = "write"}}

(* Close, after the last tick: full lines are written, an open one is not. *)
CloseIngestor ==
    /\ ctLoop = {} /\ ctRows' = AddRows(UNION {ctBuf[s].batch : s \in CtSessions})
    /\ ctLost' = ctLost \cup Held /\ NewServer

ContentCrash ==
    /\ ctLost' = ctLost \cup Held \cup ctLoop \cup UNION {ctBuf[s].batch : s \in CtSessions}
    /\ NewServer /\ UNCHANGED ctRows

-----------------------------------------------------------------------------
(* The agent's connection. *)

MachineConnects(h) ==
    /\ ctConn = NoHandler /\ ctHdl[h] = Gone /\ ctDisp[h] = Idle
    /\ ctConn' = h /\ ctReg' = h /\ HdlTo(h, Idle) /\ ctDisp' = [ctDisp EXCEPT ![h] = [at |-> "list"]]
    /\ UNCHANGED <<ingestVars, ctLive, ctOld, ctClean, ctPending, ctTold, ctCleaned, ctExcused, ctFaults>>

ConnBreaks ==
    /\ ctConn # NoHandler /\ ctConn' = NoHandler /\ CtFault
    /\ UNCHANGED <<ingestVars, ctHdl, ctLive, ctOld, ctReg, cleanupVars>>

(* The handler notices, with or without the event it has received.         *)
HandlerEnds(h) ==
    /\ ctConn # h /\ ctHdl[h].at \in {"idle", "got"} /\ HdlTo(h, Gone)
    /\ ctReg' = IF ctReg = h THEN NoHandler ELSE ctReg
    /\ UNCHANGED <<ingestVars, ctLive, ctOld, ctConn, cleanupVars, ctFaults>>

ListPendingCleanups == ctPending

DispTo(h, st) == ctDisp' = [ctDisp EXCEPT ![h] = st]

(* The goroutine of a new connection; its context ends with the handler.   *)
DispatchLists(h) ==
    /\ ctDisp[h].at = "list"
    /\ DispTo(h, IF ctHdl[h] = Gone \/ ListPendingCleanups = {} THEN Idle
                 ELSE [at |-> "send", todo |-> ListPendingCleanups, all |-> ListPendingCleanups])
    /\ UNCHANGED <<ingestVars, ctHdl, ctLive, ctOld, ctConn, ctReg, ctClean, ctPending, ctTold, ctCleaned, ctExcused, ctFaults>>

(* SendCommand, which fails on a stream that is known to be broken.        *)
DispatchSends(h, s) ==
    /\ ctDisp[h].at = "send" /\ s \in ctDisp[h].todo
    /\ \/ ctTold' = ctTold \cup {s} /\ DispTo(h, [ctDisp[h] EXCEPT !.todo = @ \ {s}])
       \/ ctConn # h /\ UNCHANGED ctTold /\ DispTo(h, Idle)
    /\ UNCHANGED <<ingestVars, ctHdl, ctLive, ctOld, ctConn, ctReg, ctClean, ctPending, ctCleaned, ctExcused, ctFaults>>

(* Every cleanup of the machine goes, those queued since the list too.     *)
DeletePendingCleanups(h) ==
    /\ ctDisp[h].at = "send" /\ ctDisp[h].todo = {} /\ DispTo(h, Idle)
    /\ IF ctHdl[h] = Gone THEN UNCHANGED <<ctPending, ctExcused>>
       ELSE ctPending' = {} /\ ctExcused' = ctExcused \cup (ctPending \ ctDisp[h].all)
    /\ UNCHANGED <<ingestVars, ctHdl, ctLive, ctOld, ctConn, ctReg, ctClean, ctTold, ctCleaned, ctFaults>>

-----------------------------------------------------------------------------
(* Retention. *)

(* Days pass for a session that ended, and for every handler.              *)
ContentAges(s) ==
    /\ s \notin ctLive \cup ctOld /\ ctOld' = ctOld \cup {s} /\ ctLoop = {}
    /\ \A h \in Handlers : ctHdl[h].at \in {"gone", "idle"}
    /\ \A t \in CtSessions : ctBuf[t].batch = {}
    /\ UNCHANGED <<ingestVars, ctHdl, ctLive, ctConn, ctReg, cleanupVars, ctFaults>>

ListExpiredContentSessions == {s \in ctOld : ctMeta[s] > 0}

sweep ==
    /\ ctClean.at = "rest" /\ ListExpiredContentSessions # {}
    /\ ctClean' = [at |-> "next", todo |-> ListExpiredContentSessions]
    /\ UNCHANGED <<ingestVars, ctHdl, ctLive, ctOld, ctConn, ctReg, ctPending, ctDisp, ctTold, ctCleaned, ctExcused, ctFaults>>

CleanerTo(at, S) == ctClean' = IF at = "next" /\ S = {} THEN Resting ELSE [at |-> at, todo |-> S]

(* One transaction; the session is left for the next sweep if it fails.    *)
DeleteSessionContent(s) ==
    /\ ctClean.at = "next" /\ s \in ctClean.todo
    /\ \/ /\ ctRows' = [l \in Lines |-> IF l.s = s THEN 0 ELSE ctRows[l]] /\ ctMeta' = [ctMeta EXCEPT ![s] = 0]
          /\ ctCleaned' = ctCleaned \cup {s} /\ UNCHANGED ctFaults
          /\ ctClean' = [at |-> "tell", todo |-> ctClean.todo, s |-> s]
       \/ CtFault /\ CleanerTo("next", ctClean.todo \ {s}) /\ UNCHANGED <<ctRows, ctMeta, ctCleaned>>
    /\ UNCHANGED <<ctBuf, ctGen, ctLoop, ctHdl, ctLive, ctHeard, ctLost, ctLate, ctOld, ctConn, ctReg, ctPending, ctDisp, ctTold, ctExcused>>

AddPendingCleanup(s) ==
    \/ ctPending' = ctPending \cup {s} /\ UNCHANGED <<ctExcused, ctFaults>>
    \/ CtFault /\ ctExcused' = ctExcused \cup {s} /\ UNCHANGED ctPending

(* The agent is told, or the cleanup queued if it is away or the send      *)
(* fails.                                                                  *)
TellAgent ==
    /\ ctClean.at = "tell" /\ CleanerTo("next", ctClean.todo \ {ctClean.s})
    /\ \/ ctReg # NoHandler /\ ctTold' = ctTold \cup {ctClean.s} /\ UNCHANGED <<ctPending, ctExcused, ctFaults>>
       \/ ctReg = NoHandler /\ AddPendingCleanup(ctClean.s) /\ UNCHANGED ctTold
       \/ ctReg # NoHandler /\ ctConn # ctReg /\ AddPendingCleanup(ctClean.s) /\ UNCHANGED ctTold
    /\ UNCHANGED <<ingestVars, ctHdl, ctLive, ctOld, ctConn, ctReg, ctDisp, ctCleaned>>

-----------------------------------------------------------------------------
Output(s, k, tail) == [kind |-> "output", s |-> s, k |-> k, tail |-> tail]

FlushLoop == flushContentWrites \/ \E s \in CtSessions : flushContent(s)
HandlerGoesOn(h) == Ingest(h) \/ writeBatch(h) \/ FlushSession(h) \/ FlushWritesMeta(h) \/ FlushForgets(h)

ContentNext ==
    \/ FlushLoop \/ CloseIngestor \/ ContentCrash \/ ConnBreaks \/ sweep \/ TellAgent
    \/ \E h \in Handlers :
          \/ HandlerGoesOn(h) \/ MachineConnects(h) \/ HandlerEnds(h) \/ DispatchLists(h) \/ DeletePendingCleanups(h)
          \/ \E s \in CtSessions :
                \/ DispatchSends(h, s) \/ Receive(h, [kind |-> "exit", s |-> s])
                \/ \E k \in 0 .. 1, tail \in BOOLEAN :
                      (k > 0 \/ tail) /\ ctHeard[s].lines + k < MaxLines /\ Receive(h, Output(s, k, tail))
    \/ \E s \in CtSessions : ContentAges(s) \/ DeleteSessionContent(s)

(* The flush loop has its ticker, and a handler that has an event finishes *)
(* with it.                                                                *)
ContentFairness == WF_contentVars(FlushLoop)

-----------------------------------------------------------------------------
(* Properties. *)

(* No line of a buffer is stored twice, whoever of the flush loop, Ingest  *)
(* and FlushSession takes it.                                              *)
RowsDistinct == \A l \in Lines : ctRows[l] <= 1

(* When a session's only buffer has been flushed, no line was lost and no  *)
(* output of an older connection came in between, its lines are numbered 1 *)
(* to line_count, all are stored or in the hands of the flush loop, and    *)
(* they are all the lines heard, the last one also when no newline ended   *)
(* it.                                                                     *)
ContentWhole ==
    \A s \in CtSessions :
       (ctMeta[s] > 0 /\ ctGen[s] = 1 /\ s \notin ctLive \cup ctLate /\ ctBuf[s] = NoBuffer /\ ~\E l \in ctLost : l.s = s)
       => /\ {l.n : l \in {x \in Stored \cup ctLoop \cup Held : x.s = s}} = 1 .. ctMeta[s]
          /\ ctMeta[s] = ctHeard[s].lines + (IF ctHeard[s].tail THEN 1 ELSE 0)

(* The agent learns of every session whose content was deleted: the        *)
(* cleanup was sent or is queued, unless the queueing failed, the server   *)
(* stopped in between, or a dispatch removed it with the ones it had sent. *)
CleanedIsTold ==
    ctCleaned \subseteq ctTold \cup ctPending \cup ctExcused
                        \cup (IF ctClean.at = "tell" THEN {ctClean.s} ELSE {})

(* A complete line gets into the table, or is lost with a failed write or  *)
(* a server that stops: none waits in memory for good.                     *)
LinesAreStored ==
    \A s \in CtSessions : ctBuf[s].batch # {} ~> ctBuf[s].batch = {}

(* The lines of a session are stored once, without gaps and up to          *)
(* line_count, and agents are told which content was deleted.              *)
ContentInv == ContentTypeOK /\ RowsDistinct /\ ContentWhole /\ CleanedIsTold
=============================================================================
