------------------------------ MODULE Sessions ------------------------------
(***************************************************************************)
(* One standalone terminal session, from the request that creates it to    *)
(* the row that records its end: the REST handlers and the terminal        *)
(* WebSocket (internal/server/session), the reaper                         *)
(* (internal/server/reaper), the event loop of the gRPC server             *)
(* (internal/server/grpc/server.go) and, on the agent, the session         *)
(* manager, the PTY session and its idle detector (internal/agent).        *)
(*                                                                         *)
(* Commands and events travel on one stream that keeps their order.  The   *)
(* agent's send channel is bounded and drops what does not fit; a stream   *)
(* that breaks takes everything on it away.  The history variable lost     *)
(* records that something the two sides rely on was dropped.               *)
(***************************************************************************)
EXTENDS Integers, Sequences

CONSTANTS Tabs,       \* browser tabs that may view the session
          MaxEvents,  \* capacity of the agent's send channel (sendCh)
          MaxCmds,    \* bound: commands on the way
          MaxBreaks,  \* bound: stream breaks
          MaxOutput,  \* bound: chunks of output of the process
          Timeouts    \* what the owner may have chosen as stale timeout

ASSUME SessionsAssumption == /\ {MaxEvents, MaxCmds, MaxBreaks, MaxOutput} \subseteq Nat
                              /\ Timeouts \subseteq {"on", "off"}

VARIABLES
    row,        \* sessions.status in the database, "none" before the insert
    creating,   \* CreateSession has written the row and not yet sent
    reaper,     \* the reaper has listed the session as stale
    timeout,    \* the owner's session_stale_timeout: "on" or "off"
    stream,     \* "up", "broken" (not yet noticed), "down"
    cmds,       \* commands on their way to the agent
    events,     \* sendCh and the stream behind it
    proc,       \* the session on the agent
    code,       \* the status its process exited with
    dying,      \* SIGTERM was sent, the escalation to SIGKILL is armed
    attached,   \* the agent relays live output
    timer,      \* the idle detector's startup or silence timer is armed
    idle,       \* isIdle of the detector
    firing,     \* a timer callback left the detector's lock, onIdle is next
    lastStatus, \* the last status the detector reported
    outputs,    \* chunks of output so far
    tabs,       \* per tab: its handler and what the browser shows
    breaks,     \* stream breaks so far
    lost,       \* history: a command, status or control message was dropped
    late        \* history: an attach found a session that had reported its end

server == <<row, creating, reaper, timeout>>
detector == <<timer, idle, firing, lastStatus>>
process == <<proc, code, dying, outputs>>
sessionVars == <<server, stream, cmds, events, process, attached, detector, tabs,
                 breaks, lost, late>>

Terminal == {"completed", "failed", "terminated"}
Live     == {"running", "waiting_for_input"}
InMemory == proc \in {"alive", "exited", "reported"}

Ev(type, st) == [type |-> type, status |-> st]
NoStatus     == "-"
ClosedTab    == [at |-> "closed", shows |-> "connecting"]

(* The types of row, stream, channels, process and tabs; the channels hold *)
(* at most their capacity.                                                 *)
SessionsTypeOK ==
    /\ row \in {"none", "created"} \cup Live \cup Terminal
    /\ creating \in BOOLEAN /\ reaper \in BOOLEAN /\ timeout \in {"on", "off"}
    /\ stream \in {"up", "broken", "down"}
    /\ cmds \in Seq({"create", "kill", "attach", "detach"}) /\ Len(cmds) <= MaxCmds
    /\ events \in Seq([type : {"status", "exit", "output", "final"},
                       status : Live \cup Terminal \cup {NoStatus}])
    /\ Len(events) <= MaxEvents
    /\ proc \in {"none", "alive", "exited", "reported", "gone"}
    /\ code \in {NoStatus, "completed", "failed"}
    /\ dying \in BOOLEAN /\ attached \in BOOLEAN
    /\ timer \in BOOLEAN /\ idle \in BOOLEAN /\ firing \in BOOLEAN
    /\ lastStatus \in Live \cup {NoStatus}
    /\ outputs \in 0..MaxOutput
    /\ tabs \in [Tabs -> [at : {"closed", "attaching", "open"},
                          shows : {"connecting", "live", "ended"}]]
    /\ breaks \in 0..MaxBreaks
    /\ lost \in BOOLEAN /\ late \in BOOLEAN

SessionsInit ==
    /\ row = "none" /\ creating = FALSE /\ reaper = FALSE
    /\ timeout \in Timeouts
    /\ stream = "up" /\ cmds = <<>> /\ events = <<>>
    /\ proc = "none" /\ code = NoStatus /\ dying = FALSE /\ attached = FALSE
    /\ timer = FALSE /\ idle = FALSE /\ firing = FALSE /\ lastStatus = NoStatus
    /\ outputs = 0
    /\ tabs = [t \in Tabs |-> ClosedTab]
    /\ breaks = 0 /\ lost = FALSE /\ late = FALSE

-----------------------------------------------------------------------------
(* Sending. *)

(* SendCommand of the connected agent: an error on a broken stream. *)
SendCommand(c) ==
    /\ Len(cmds) < MaxCmds
    /\ cmds' = IF stream = "up" THEN Append(cmds, c) ELSE cmds

(* sendEvent, once per element of es: without a relay nothing is sent, and *)
(* what does not fit into the channel is dropped.                          *)
sendEvents(es) ==
    LET room == IF stream = "down" THEN 0 ELSE MaxEvents - Len(events)
        kept == SubSeq(es, 1, IF Len(es) < room THEN Len(es) ELSE room)
    IN  /\ events' = events \o kept
        /\ lost' = (lost \/ \E i \in Len(kept) + 1 .. Len(es) : es[i].type # "output")

(* sendEventBlocking, once per element: waits for room, and gives up after *)
(* ten seconds, after which the caller goes on.                            *)
sendEventsBlocking(es) ==
    \/ /\ Len(events) + Len(es) <= MaxEvents
       /\ events' = events \o es
       /\ UNCHANGED lost
    \/ /\ Len(events) + Len(es) > MaxEvents
       /\ events' = events \o SubSeq(es, 1, MaxEvents - Len(events))
       /\ lost' = TRUE

(* What the browser shows after a control message.                         *)
After(shows, m) == IF m = "session_ended" \/ shows = "ended" THEN "ended" ELSE "live"

Shown(ts, m, Gets) ==
    [t \in Tabs |-> IF t \in Gets /\ ts[t].at # "closed"
                    THEN [ts[t] EXCEPT !.shows = After(@, m)] ELSE ts[t]]

(* PublishControl of the registry and the writer goroutines behind it: to  *)
(* every subscriber of the session; dropped for one whose channel is full. *)
PublishControl(m) ==
    \/ /\ tabs' = Shown(tabs, m, Tabs)
       /\ UNCHANGED lost
    \/ \E t \in Tabs : /\ tabs[t].at # "closed"
                       /\ tabs' = Shown(tabs, m, Tabs \ {t})
                       /\ lost' = TRUE

-----------------------------------------------------------------------------
(* REST handlers and the reaper. *)

(* CreateSession: the agent must be connected; the row is inserted before  *)
(* the command is sent.                                                    *)
CreateSession ==
    /\ row = "none"
    /\ stream # "down"
    /\ row' = "created" /\ creating' = TRUE
    /\ UNCHANGED <<late, reaper, timeout, stream, cmds, events, process, attached, detector,
                   tabs, breaks, lost>>

DispatchCreate ==
    /\ creating
    /\ creating' = FALSE
    /\ SendCommand("create")
    /\ row' = IF stream = "up" THEN row ELSE "failed"
    /\ UNCHANGED <<late, reaper, timeout, stream, events, process, attached, detector, tabs,
                   breaks, lost>>

(* The kill command and the row update that TerminateSession and the       *)
(* reaper share.  A kill that is not sent is not sent again.               *)
Terminate ==
    /\ SendCommand("kill")
    /\ row' = "terminated"
    /\ lost' = (lost \/ stream # "up")

TerminateSession ==
    /\ row # "none"
    /\ Terminate
    /\ UNCHANGED <<late, creating, reaper, timeout, stream, events, process, attached,
                   detector, tabs, breaks>>

(* sweepIdleSessions and sweepStaleSessions list, then act on the list. *)
ListStale ==
    /\ \/ row = "waiting_for_input" /\ timeout = "on"
       \/ row = "created"
    /\ ~reaper
    /\ reaper' = TRUE
    /\ UNCHANGED <<late, row, creating, timeout, stream, cmds, events, process, attached,
                   detector, tabs, breaks, lost>>

ReapSession ==
    /\ reaper
    /\ reaper' = FALSE
    /\ Terminate
    /\ UNCHANGED <<late, creating, timeout, stream, events, process, attached, detector,
                   tabs, breaks>>

-----------------------------------------------------------------------------
(* The terminal WebSocket (runSession), after authentication. *)

(* The session exists and the user may see it; the handler subscribes.     *)
OpenTab(t) ==
    /\ tabs[t].at = "closed"
    /\ row # "none"
    /\ tabs' = [tabs EXCEPT ![t] = [ClosedTab EXCEPT !.at = "attaching"]]
    /\ UNCHANGED <<late, server, stream, cmds, events, process, attached, detector, breaks, lost>>

AttachTab(t) ==
    /\ tabs[t].at = "attaching"
    /\ stream = "up"
    /\ SendCommand("attach")
    /\ tabs' = [tabs EXCEPT ![t].at = "open"]
    /\ UNCHANGED <<late, server, stream, events, process, attached, detector, breaks, lost>>

(* Without an agent the handler tells every subscriber of the session that *)
(* it ended and returns, which closes its own channel.                     *)
AttachFails(t) ==
    /\ tabs[t].at = "attaching"
    /\ stream # "up"
    /\ tabs' = Shown([tabs EXCEPT ![t] = ClosedTab], "session_ended", Tabs)
    /\ UNCHANGED <<late, server, stream, cmds, events, process, attached, detector, breaks, lost>>

(* The reader loop ends when the browser goes away. *)
CloseTab(t) ==
    /\ tabs[t].at = "open"
    /\ SendCommand("detach")
    /\ tabs' = [tabs EXCEPT ![t] = ClosedTab]
    /\ UNCHANGED <<late, server, stream, events, process, attached, detector, breaks, lost>>

-----------------------------------------------------------------------------
(* The agent: HandleCommand, one action per command. *)
Receive(c) == /\ cmds # <<>> /\ Head(cmds) = c
              /\ stream # "down"
              /\ cmds' = Tail(cmds)

(* handleCreate: the process starts attached, the detector waits for its   *)
(* first output, and the status is reported ...                            *)
handleCreate ==
    /\ Receive("create")
    /\ proc' = "alive" /\ attached' = TRUE
    /\ timer' = TRUE /\ idle' = FALSE
    /\ sendEvents(<<Ev("status", "running")>>)
    /\ UNCHANGED <<late, server, stream, code, dying, outputs, firing, lastStatus,
                   tabs, breaks>>

(* ... or NewSession fails, which is only logged. *)
handleCreateFails ==
    /\ Receive("create")
    /\ UNCHANGED <<late, server, stream, events, process, attached, detector, tabs, breaks, lost>>

handleKill ==
    /\ Receive("kill")
    /\ dying' = (dying \/ proc = "alive")
    /\ UNCHANGED <<late, server, stream, events, proc, code, outputs, attached, detector, tabs,
                   breaks, lost>>

(* sendScrollbackChunks: "final" stands for the chunks of the recording    *)
(* and the final marker after them, which is also sent when there is no    *)
(* recording.                                                              *)
sendScrollbackChunks == <<Ev("final", NoStatus)>>

(* handleAttach: the recording is replayed; then live relay is on, or, for *)
(* a session that is no longer in memory, the server is told that it is    *)
(* terminated.                                                             *)
Mutant_handleAttach ==
    /\ Receive("attach")
    /\ sendEventsBlocking(sendScrollbackChunks)
    /\ attached' = (attached \/ InMemory)
    /\ late' = (late \/ proc = "reported")
    /\ UNCHANGED <<server, stream, process, detector, tabs, breaks>>

handleAttach ==
    /\ Receive("attach")
    /\ sendEventsBlocking(sendScrollbackChunks
                          \o IF InMemory THEN <<>> ELSE <<Ev("status", "terminated")>>)
    /\ attached' = (attached \/ InMemory)
    /\ late' = (late \/ proc = "reported")
    /\ UNCHANGED <<server, stream, process, detector, tabs, breaks>>

handleDetach ==
    /\ Receive("detach")
    /\ attached' = (attached /\ ~InMemory)
    /\ UNCHANGED <<late, server, stream, events, process, detector, tabs, breaks, lost>>

-----------------------------------------------------------------------------
(* The agent: PTY output and the idle detector. *)

(* onActive: reported once per change. *)
onActive == IF lastStatus # "running"
            THEN <<Ev("status", "running")>> ELSE <<>>

(* Feed of the detector: real output re-arms the silence timer and ends    *)
(* idleness; cursor movements and short chunks are ignored.                *)
Feed(real) ==
    /\ timer' = (timer \/ real)
    /\ idle' = (idle /\ ~real)
    /\ lastStatus' = IF real /\ idle THEN "running" ELSE lastStatus

(* readLoop: the chunk is recorded, fed to the detector when it is real    *)
(* output, and relayed while attached.                                     *)
Output(real) ==
    /\ proc = "alive"
    /\ outputs < MaxOutput
    /\ outputs' = outputs + 1
    /\ Feed(real)
    /\ sendEvents((IF real /\ idle THEN onActive ELSE <<>>)
                  \o IF attached THEN <<Ev("output", NoStatus)>> ELSE <<>>)
    /\ UNCHANGED <<late, server, stream, cmds, proc, code, dying, attached, firing,
                   tabs, breaks>>

(* The silence or the startup timer fires; the callback checks stopped     *)
(* under the lock and calls onIdle after it.                               *)
TimerFires ==
    /\ timer
    /\ ~firing
    /\ timer' = FALSE /\ idle' = TRUE /\ firing' = TRUE
    /\ UNCHANGED <<late, server, stream, cmds, events, process, attached, lastStatus,
                   tabs, breaks, lost>>

(* onIdle of a standalone session: reported once per change. *)
onIdle ==
    /\ firing
    /\ firing' = FALSE
    /\ lastStatus' = "waiting_for_input"
    /\ sendEvents(IF lastStatus = "waiting_for_input" THEN <<>>
                  ELSE <<Ev("status", "waiting_for_input")>>)
    /\ UNCHANGED <<late, server, stream, cmds, process, attached, timer, idle, tabs, breaks>>

-----------------------------------------------------------------------------
(* The agent: exit. *)
ProcessExits(st) ==
    /\ proc = "alive"
    /\ proc' = "exited" /\ code' = st
    /\ UNCHANGED <<late, server, stream, cmds, events, dying, outputs, attached, detector, tabs,
                   breaks, lost>>

(* The goroutine of Kill: SIGKILL if the process still runs. *)
Mutant_Escalate ==
    /\ dying /\ proc # "alive"
    /\ ProcessExits("failed")

Escalate ==
    /\ dying
    /\ ProcessExits("failed")

(* startSessionRelay, the output channel is closed: final status and exit. *)
RelayExit ==
    /\ proc = "exited"
    /\ stream # "down"
    /\ proc' = "reported"
    /\ sendEvents(<<Ev("status", code), Ev("exit", code)>>)
    /\ UNCHANGED <<late, server, stream, cmds, code, dying, outputs, attached, detector, tabs,
                   breaks>>

(* removeSession stops the detector, but not a callback that is past its   *)
(* check.                                                                  *)
removeSession ==
    /\ proc = "reported"
    /\ proc' = "gone" /\ attached' = FALSE /\ timer' = FALSE
    /\ lastStatus' = NoStatus
    /\ UNCHANGED <<late, server, stream, cmds, events, code, dying, outputs, idle,
                   firing, tabs, breaks, lost>>

-----------------------------------------------------------------------------
(* The server's event loop (CommandStream). *)
Recv(type) == /\ stream # "down"
              /\ events # <<>> /\ Head(events).type = type
              /\ events' = Tail(events)

(* UpdateSessionStatus is unconditional; a terminal status is shown to the *)
(* open tabs.                                                              *)
OnSessionStatus ==
    /\ Recv("status")
    /\ row' = Head(events).status
    /\ IF row' \in Terminal THEN PublishControl("session_ended") ELSE UNCHANGED <<tabs, lost>>
    /\ UNCHANGED <<late, creating, reaper, timeout, stream, cmds, process, attached, detector,
                   breaks>>

(* UpdateSessionStatusIfNotTerminal. *)
OnSessionExit ==
    /\ Recv("exit")
    /\ row' = IF row \in Terminal THEN row ELSE Head(events).status
    /\ UNCHANGED <<late, creating, reaper, timeout, stream, cmds, process, attached, detector,
                   tabs, breaks, lost>>

OnSessionOutput ==
    /\ Recv("output")
    /\ UNCHANGED <<late, server, stream, cmds, process, attached, detector, tabs, breaks, lost>>

OnScrollbackEnd ==
    /\ Recv("final")
    /\ PublishControl("scrollback_end")
    /\ UNCHANGED <<late, server, stream, cmds, process, attached, detector, breaks>>

-----------------------------------------------------------------------------
(* The stream breaks; both sides notice (StopRelay, the deferred cleanup   *)
(* of CommandStream) and the agent connects again (StartRelay).            *)
StreamBreaks ==
    /\ stream = "up" /\ breaks < MaxBreaks
    /\ stream' = "broken" /\ breaks' = breaks + 1
    /\ UNCHANGED <<late, server, cmds, events, process, attached, detector, tabs, lost>>

BreakNoticed ==
    /\ stream = "broken"
    /\ stream' = "down" /\ cmds' = <<>> /\ events' = <<>>
    /\ lost' = (lost \/ cmds # <<>> \/ events # <<>>)
    /\ UNCHANGED <<late, server, process, attached, detector, tabs, breaks>>

Reconnect ==
    /\ stream = "down"
    /\ stream' = "up"
    /\ UNCHANGED <<late, server, cmds, events, process, attached, detector, tabs, breaks, lost>>

-----------------------------------------------------------------------------
AgentStep  == \/ handleCreate \/ handleCreateFails \/ handleKill \/ handleAttach
              \/ handleDetach
RelayStep  == RelayExit \/ removeSession \/ onIdle
ServerStep == OnSessionStatus \/ OnSessionExit \/ OnSessionOutput \/ OnScrollbackEnd
TabStep    == \E t \in Tabs : AttachTab(t) \/ AttachFails(t)
ReaperStep == ListStale \/ ReapSession
LinkStep   == BreakNoticed \/ Reconnect

SessionsNext ==
    \/ CreateSession \/ DispatchCreate \/ TerminateSession \/ ReaperStep
    \/ TabStep \/ \E t \in Tabs : OpenTab(t) \/ CloseTab(t)
    \/ AgentStep \/ RelayStep \/ ServerStep
    \/ \E real \in BOOLEAN : Output(real)
    \/ TimerFires
    \/ \E st \in {"completed", "failed"} : ProcessExits(st)
    \/ Escalate
    \/ StreamBreaks \/ LinkStep

(* Goroutines run, timers pass, a broken stream is noticed and the agent   *)
(* connects again.  Nothing is assumed of users, of the process or of      *)
(* breaks.                                                                 *)
SessionsFairness ==
    /\ WF_sessionVars(DispatchCreate) /\ WF_sessionVars(AgentStep)
    /\ WF_sessionVars(RelayStep) /\ WF_sessionVars(ServerStep)
    /\ WF_sessionVars(TabStep) /\ WF_sessionVars(ReaperStep)
    /\ WF_sessionVars(Escalate) /\ WF_sessionVars(LinkStep)

-----------------------------------------------------------------------------
(* Nothing is under way between server and agent, and nothing was lost.    *)
Settled == /\ stream = "up" /\ cmds = <<>> /\ events = <<>>
           /\ ~creating /\ ~firing /\ ~lost

(* A session that is shown as ended has no process, or one that is being   *)
(* killed: whatever order terminations, late status events, attaches and   *)
(* reaper sweeps come in, the row never hides a process nobody will stop   *)
(* (TerminateSession, handleKill, the SessionStatus branch).               *)
EndedHasNoProcess == Settled /\ row \in Terminal => proc # "alive" \/ dying

(* A session whose process is gone is not shown as created or running: its *)
(* exit was recorded, also when the exit happened between two streams or   *)
(* a silence was reported after it (then the row waits for the reaper).    *)
DeadIsNotShownLive == Settled /\ proc = "gone" => row \notin {"created", "running"}

(* A tab that is open on a session that is gone was told that it ended,    *)
(* whether it attached before the exit or after it (handleAttach, the      *)
(* SessionStatus branch, PublishControl), except for the window in which   *)
(* the session has reported its end and is still in memory.                *)
OpenTabLearnsEnd ==
    \A t \in Tabs : Settled /\ ~late /\ proc = "gone" /\ tabs[t].at = "open"
                    => tabs[t].shows = "ended"

(* Once the process is gone the row ends up terminal for good: exit and    *)
(* status events, and the reaper for a silence that was reported late      *)
(* (sweepIdleSessions), unless something was lost or the owner opted out.  *)
EndIsShownForGood ==
    [](~lost) /\ timeout = "on" => (proc = "gone" ~> [](row \in Terminal))

(* A process is never hidden for good behind a row that says it ended:     *)
(* Kill escalates to SIGKILL when the process ignores SIGTERM, and a       *)
(* process that a kill missed, because it overtook the create command,     *)
(* reports itself as running.                                              *)
EndedProcessDies == [](~lost) => ~<>[](row \in Terminal /\ proc = "alive")

(* Once nothing is under way, row, process and open tabs agree: no process *)
(* behind an ended row, no live row without a process, no open tab that    *)
(* still shows a session that is gone.                                     *)
SessionsInv ==
    SessionsTypeOK /\ EndedHasNoProcess /\ DeadIsNotShownLive /\ OpenTabLearnsEnd

(* The end of a session is shown for good, and no process outlives for     *)
(* good a row that says it ended.                                          *)
SessionsSettle == EndIsShownForGood /\ EndedProcessDies
=============================================================================
