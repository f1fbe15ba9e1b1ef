-------------------------- MODULE SessionExecutor --------------------------
(***************************************************************************)
(* The step executor of one run and the agent it drives                    *)
(* (internal/server/executor/session_executor.go, with the session manager *)
(* of internal/agent/session_manager.go and the event loop of              *)
(* internal/server/grpc/server.go as far as step execution sees them).     *)
(*                                                                         *)
(* A step runs in a session of its own, or, for the steps of Shared, which *)
(* carry the same session key, in the session that the first of them       *)
(* created.  A session is named after the step that created it.  The DAG   *)
(* runner calls ExecuteStep and never has two steps with the same key      *)
(* outstanding (DAGRunner!SessionKeyExclusive).                            *)
(*                                                                         *)
(* Server and agent exchange commands and events over a stream that keeps  *)
(* their order; both are lost when the agent disconnects.                  *)
(***************************************************************************)
EXTENDS Integers, Sequences

CONSTANTS Steps,          \* the steps of the run
          Shared,         \* those with the session key
          NoStep,
          AgentMayLeave,  \* the agent's stream may break and come back, and
                          \* session rows may fail to be written
          MaxEvents       \* capacity of the agent's send channel

ASSUME ExecutorAssumption == /\ Shared \subseteq Steps
                             /\ NoStep \notin Steps
                             /\ AgentMayLeave \in BOOLEAN
                             /\ MaxEvents \in Nat

VARIABLES
    run,        \* "live", then "finished" or "cancelled" (the run context)
    cleanup,    \* CleanupRunSessions: "none", "due", "done"
    phase,      \* how far ExecuteStep has got for each step
    target,     \* the session a step was told to use
    result,     \* the onComplete calls made for each step
    shared,     \* sharedSessions: the session of the key, or NoStep
    track,      \* sessionToStep: the step tracked on each session
    monitor,    \* monitorSessionExit, per session
    row,        \* the session's status in the database
    connected,  \* the agent's stream is up
    cmds,       \* per session, commands on their way to the agent
    events,     \* per session, events on their way to the server
    proc,       \* the session's process on the agent
    prompted    \* steps whose prompt was written to their session

calls  == <<phase, target, result>>
maps   == <<shared, track, monitor>>
agent  == <<proc, prompted>>
vars   == <<run, cleanup, calls, maps, row, connected, cmds, events, agent>>

Command == [op : {"create", "input", "kill"}, step : Steps]
Event   == {"running", "idle", "completed", "failed"}

(* The types of phases, tracking, rows, the channels to and from the       *)
(* agent, and processes.                                                   *)
TypeOK ==
    /\ run \in {"live", "finished", "cancelled"}
    /\ cleanup \in {"none", "due", "done"}
    /\ phase \in [Steps -> {"idle", "launched", "create", "register", "track",
                            "reuse", "input", "returned"}]
    /\ target \in [Steps -> Steps \cup {NoStep}]
    /\ result \in [Steps -> Seq({"ok", "failed"})]
    /\ shared \in Shared \cup {NoStep}
    /\ track \in [Steps -> Steps \cup {NoStep}]
    /\ monitor \in [Steps -> {"none", "polling", "done"}]
    /\ row \in [Steps -> {"none", "created", "running", "completed", "failed",
                          "terminated"}]
    /\ connected \in BOOLEAN
    /\ cmds \in [Steps -> Seq(Command)]
    /\ events \in [Steps -> Seq(Event)]
    /\ proc \in [Steps -> {"none", "alive", "dying", "completed", "failed", "dead"}]
    /\ prompted \subseteq Steps

Init ==
    /\ run = "live"
    /\ cleanup = "none"
    /\ phase = [s \in Steps |-> "idle"]
    /\ target = [s \in Steps |-> NoStep]
    /\ result = [s \in Steps |-> <<>>]
    /\ shared = NoStep
    /\ track = [s \in Steps |-> NoStep]
    /\ monitor = [s \in Steps |-> "none"]
    /\ row = [s \in Steps |-> "none"]
    /\ connected = TRUE
    /\ cmds = [s \in Steps |-> <<>>]
    /\ events = [s \in Steps |-> <<>>]
    /\ proc = [s \in Steps |-> "none"]
    /\ prompted = {}

-----------------------------------------------------------------------------
(* Commands to the agent; without a connected agent none is sent. *)
Send(x, op, s) == cmds' = [cmds EXCEPT ![x] = Append(@, [op |-> op, step |-> s])]

sendKill(x) == IF connected THEN Send(x, "kill", x) ELSE UNCHANGED cmds

Goto(s, p) == phase' = [phase EXCEPT ![s] = p]

(* A call of onComplete that did not go through sessionToStep. *)
FailStep(s) == /\ result' = [result EXCEPT ![s] = Append(@, "failed")]
               /\ Goto(s, "returned")

(* completeStep and completeSharedStep: the tracking entry is taken out    *)
(* under the lock, and its step's onComplete called.                       *)
Mutant_completeStep(x, code) ==
    /\ track' = track
    /\ result' = IF track[x] = NoStep THEN result
                 ELSE [result EXCEPT ![track[x]] = Append(@, code)]

completeStep(x, code) ==
    /\ track' = [track EXCEPT ![x] = NoStep]
    /\ result' = IF track[x] = NoStep THEN result
                 ELSE [result EXCEPT ![track[x]] = Append(@, code)]

-----------------------------------------------------------------------------
(* ExecuteStep, in the pieces its locks and sends separate it into. *)

(* launchStep of the DAG runner starts the goroutine: only in a live run,  *)
(* and the steps with the session key one at a time.                       *)
LaunchStep(s) ==
    /\ phase[s] = "idle"
    /\ run = "live"
    /\ s \in Shared => \A t \in Shared \ {s} : phase[t] = "idle" \/ result[t] # <<>>
    /\ Goto(s, "launched")
    /\ UNCHANGED <<run, cleanup, target, result, maps, row, connected, cmds, events,
                   agent>>

(* executeSharedSession looks the key up in sharedSessions. *)
ExecuteStep(s) ==
    /\ phase[s] = "launched"
    /\ target' = [target EXCEPT ![s] = IF s \in Shared THEN shared ELSE NoStep]
    /\ Goto(s, IF target'[s] = NoStep THEN "create" ELSE "reuse")
    /\ UNCHANGED <<run, cleanup, result, maps, row, connected, cmds, events, agent>>

(* No connected agent, or the session row cannot be created. *)
CreateFails(s) ==
    /\ phase[s] = "create"
    /\ AgentMayLeave
    /\ FailStep(s)
    /\ UNCHANGED <<run, cleanup, target, maps, row, connected, cmds, events, agent>>

(* The session row is created and linked, but the command is not sent: the *)
(* stream found by GetAgent broke or was replaced.                         *)
SendFails(s) ==
    /\ phase[s] = "create"
    /\ AgentMayLeave
    /\ FailStep(s)
    /\ row' = [row EXCEPT ![s] = "failed"]
    /\ UNCHANGED <<run, cleanup, target, maps, connected, cmds, events, agent>>

CreateSession(s) ==
    /\ phase[s] = "create"
    /\ connected
    /\ row' = [row EXCEPT ![s] = "created"]
    /\ Send(s, "create", s)
    /\ Goto(s, IF s \in Shared THEN "register" ELSE "track")
    /\ UNCHANGED <<run, cleanup, target, result, maps, connected, events, agent>>

(* executeSharedFirstStep puts the session into sharedSessions. *)
RegisterShared(s) ==
    /\ phase[s] = "register"
    /\ shared' = s
    /\ Goto(s, "track")
    /\ UNCHANGED <<run, cleanup, target, result, track, monitor, row, connected,
                   cmds, events, agent>>

Mutant_trackAndMonitor(s) ==
    /\ phase[s] = "track"
    /\ monitor' = [monitor EXCEPT ![s] = "polling"]
    /\ Goto(s, "returned")
    /\ UNCHANGED <<run, cleanup, target, result, shared, track, row, connected, cmds,
                   events, agent>>

trackAndMonitor(s) ==
    /\ phase[s] = "track"
    /\ track' = [track EXCEPT ![s] = s]
    /\ monitor' = [monitor EXCEPT ![s] = "polling"]
    /\ Goto(s, "returned")
    /\ UNCHANGED <<run, cleanup, target, result, shared, row, connected, cmds,
                   events, agent>>

(* executeSharedSubsequentStep. *)
ReuseFails(s) ==
    /\ phase[s] = "reuse"
    /\ ~connected
    /\ FailStep(s)
    /\ UNCHANGED <<run, cleanup, target, maps, row, connected, cmds, events, agent>>

TrackReused(s) ==
    /\ phase[s] = "reuse"
    /\ connected
    /\ track' = [track EXCEPT ![target[s]] = s]
    /\ Goto(s, "input")
    /\ UNCHANGED <<run, cleanup, target, result, shared, monitor, row, connected,
                   cmds, events, agent>>

SendPrompt(s) ==
    /\ phase[s] = "input"
    /\ Goto(s, "returned")
    /\ \/ /\ connected
          /\ Send(target[s], "input", s)
          /\ UNCHANGED <<track, result>>
       \/ /\ AgentMayLeave
          /\ completeStep(target[s], "failed")
          /\ UNCHANGED cmds
    /\ UNCHANGED <<run, cleanup, target, shared, monitor, row, connected, events,
                   agent>>

-----------------------------------------------------------------------------
(* monitorSessionExit: one goroutine per created session. *)

(* The run's context ended: kill, and fail whichever step is tracked. *)
MonitorCancelled(x) ==
    /\ monitor[x] = "polling"
    /\ run = "cancelled"
    /\ monitor' = [monitor EXCEPT ![x] = "done"]
    /\ sendKill(x)
    /\ completeStep(x, "failed")
    /\ UNCHANGED <<run, cleanup, phase, target, shared, row, connected, events, agent>>

(* The deadline of the step that created the session passed. *)
Mutant_MonitorTimeout(x) ==
    /\ monitor[x] = "polling"
    /\ monitor' = [monitor EXCEPT ![x] = "done"]
    /\ sendKill(x)
    /\ UNCHANGED <<run, cleanup, calls, shared, track, row, connected, events, agent>>

MonitorTimeout(x) ==
    /\ monitor[x] = "polling"
    /\ monitor' = [monitor EXCEPT ![x] = "done"]
    /\ sendKill(x)
    /\ completeStep(x, "failed")
    /\ UNCHANGED <<run, cleanup, phase, target, shared, row, connected, events, agent>>

(* A poll finds the session ended. *)
MonitorPoll(x) ==
    /\ monitor[x] = "polling"
    /\ row[x] \in {"completed", "failed", "terminated"}
    /\ monitor' = [monitor EXCEPT ![x] = "done"]
    /\ completeStep(x, IF row[x] = "completed" THEN "ok" ELSE "failed")
    /\ UNCHANGED <<run, cleanup, phase, target, shared, row, connected, cmds,
                   events, agent>>

-----------------------------------------------------------------------------
(* The end of the run: the context is cancelled (CancelRun, fail_run) or   *)
(* every execution has been answered, and then CleanupRunSessions.         *)
CancelRun ==
    /\ run = "live"
    /\ run' = "cancelled"
    /\ cleanup' = "due"
    /\ UNCHANGED <<calls, maps, row, connected, cmds, events, agent>>

FinishRun ==
    /\ run = "live"
    /\ \A s \in Steps : phase[s] = "idle" \/ result[s] # <<>>
    /\ run' = "finished"
    /\ cleanup' = "due"
    /\ UNCHANGED <<calls, maps, row, connected, cmds, events, agent>>

Mutant_CleanupRunSessions ==
    /\ cleanup = "due"
    /\ cleanup' = "done"
    /\ shared' = NoStep
    /\ UNCHANGED <<run, calls, track, monitor, row, connected, cmds, events, agent>>

CleanupRunSessions ==
    /\ cleanup = "due"
    /\ cleanup' = "done"
    /\ shared' = NoStep
    /\ IF shared # NoStep THEN sendKill(shared) ELSE UNCHANGED cmds
    /\ UNCHANGED <<run, calls, track, monitor, row, connected, events, agent>>

-----------------------------------------------------------------------------
(* The agent: session_manager.go. *)

(* sendEvent drops the event when nobody is connected or the channel is    *)
(* full.                                                                   *)
sendEvent(x, e) ==
    events' = IF connected /\ Len(events[x]) < MaxEvents
              THEN [events EXCEPT ![x] = Append(@, e)] ELSE events

Receive(x, op) ==
    /\ cmds[x] # <<>>
    /\ Head(cmds[x]).op = op
    /\ cmds' = [cmds EXCEPT ![x] = Tail(@)]

handleCreate(x) ==
    /\ Receive(x, "create")
    /\ \/ /\ proc' = [proc EXCEPT ![x] = "alive"]
          /\ sendEvent(x, "running")
       \/ /\ proc' = [proc EXCEPT ![x] = "dead"]
          /\ UNCHANGED events
    /\ UNCHANGED <<run, cleanup, calls, maps, row, connected, prompted>>

handleInput(x) ==
    /\ Receive(x, "input")
    /\ prompted' = IF proc[x] = "alive" THEN prompted \cup {Head(cmds[x]).step}
                                        ELSE prompted
    /\ UNCHANGED <<run, cleanup, calls, maps, row, connected, events, proc>>

handleKill(x) ==
    /\ Receive(x, "kill")
    /\ proc' = [proc EXCEPT ![x] = IF @ = "alive" THEN "dying" ELSE @]
    /\ UNCHANGED <<run, cleanup, calls, maps, row, connected, events, prompted>>

(* Silence on the terminal.  A keep-alive session reports it; a session of *)
(* its own gets its prompt the first time and is told to exit after that.  *)
onIdle(x) ==
    /\ proc[x] = "alive"
    /\ \/ /\ x \in Shared
          /\ Len(events[x]) < MaxEvents
          /\ sendEvent(x, "idle")
          /\ UNCHANGED <<proc, prompted>>
       \/ /\ x \notin Shared
          /\ x \notin prompted
          /\ prompted' = prompted \cup {x}
          /\ UNCHANGED <<proc, events>>
       \/ /\ x \notin Shared
          /\ x \in prompted
          /\ proc' = [proc EXCEPT ![x] = "dying"]
          /\ UNCHANGED <<events, prompted>>
    /\ UNCHANGED <<run, cleanup, calls, maps, row, connected, cmds>>

(* The process exits, by itself or because it was told to; its relay       *)
(* goroutine, which runs while the stream is up, reports how and forgets   *)
(* the session.  The SessionExit event that follows the status repeats it, *)
(* so one event stands for both.                                           *)
ProcessExits(x) ==
    /\ proc[x] \in {"alive", "dying"}
    /\ \E e \in {"completed", "failed"} : proc' = [proc EXCEPT ![x] = e]
    /\ UNCHANGED <<run, cleanup, calls, maps, row, connected, cmds, events, prompted>>

Mutant_ReportExit(x) ==
    /\ proc[x] \in {"completed", "failed"}
    /\ connected
    /\ proc' = [proc EXCEPT ![x] = "dead"]
    /\ sendEvent(x, proc'[x])
    /\ UNCHANGED <<run, cleanup, calls, maps, row, connected, cmds, prompted>>

ReportExit(x) ==
    /\ proc[x] \in {"completed", "failed"}
    /\ connected
    /\ proc' = [proc EXCEPT ![x] = "dead"]
    /\ sendEvent(x, proc[x])
    /\ UNCHANGED <<run, cleanup, calls, maps, row, connected, cmds, prompted>>

Disconnect ==
    /\ AgentMayLeave
    /\ connected
    /\ connected' = FALSE
    /\ cmds' = [s \in Steps |-> <<>>]
    /\ events' = [s \in Steps |-> <<>>]
    /\ UNCHANGED <<run, cleanup, calls, maps, row, agent>>

Reconnect ==
    /\ ~connected
    /\ connected' = TRUE
    /\ UNCHANGED <<run, cleanup, calls, maps, row, cmds, events, agent>>

-----------------------------------------------------------------------------
(* The server's event loop: a status is written to the session's row, an   *)
(* idle event completes the tracked step (OnStepIdle).                     *)
NextEvent(x) == /\ events[x] # <<>>
                /\ events' = [events EXCEPT ![x] = Tail(@)]

SessionStatus(x) ==
    /\ NextEvent(x)
    /\ Head(events[x]) # "idle"
    /\ row' = [row EXCEPT ![x] = Head(events[x])]
    /\ UNCHANGED <<run, cleanup, calls, maps, connected, cmds, agent>>

OnStepIdle(x) ==
    /\ NextEvent(x)
    /\ Head(events[x]) = "idle"
    /\ completeStep(x, "ok")
    /\ UNCHANGED <<run, cleanup, phase, target, shared, monitor, row, connected,
                   cmds, agent>>

(* A user terminates a session of the run, whatever its status (a second   *)
(* request for a terminated one would only send another kill).             *)
TerminateSession(x) ==
    /\ row[x] \notin {"none", "terminated"}
    /\ row' = [row EXCEPT ![x] = "terminated"]
    /\ sendKill(x)
    /\ UNCHANGED <<run, cleanup, calls, maps, connected, events, agent>>

-----------------------------------------------------------------------------
Execution(s) ==
    \/ ExecuteStep(s) \/ CreateFails(s) \/ SendFails(s) \/ CreateSession(s)
    \/ RegisterShared(s) \/ trackAndMonitor(s) \/ ReuseFails(s)
    \/ TrackReused(s) \/ SendPrompt(s)

Monitoring(x) == MonitorCancelled(x) \/ MonitorTimeout(x) \/ MonitorPoll(x)

AgentStep(x) == handleCreate(x) \/ handleInput(x) \/ handleKill(x) \/ ReportExit(x)

Handling(x) == SessionStatus(x) \/ OnStepIdle(x)

Next ==
    \/ \E s \in Steps :
          \/ LaunchStep(s) \/ Execution(s) \/ Monitoring(s) \/ AgentStep(s)
          \/ Handling(s) \/ onIdle(s) \/ ProcessExits(s) \/ TerminateSession(s)
    \/ CancelRun \/ FinishRun \/ CleanupRunSessions \/ Disconnect \/ Reconnect

Spec == Init /\ [][Next]_vars

(* Goroutines run, the stream delivers, and a process that was told to     *)
(* exit exits (Kill escalates to SIGKILL).  Nothing forces a step to be    *)
(* executed, a user to act, or a process to fall silent.                   *)
Fairness ==
    /\ WF_vars(CleanupRunSessions)
    /\ \A s \in Steps :
          /\ WF_vars(Execution(s))
          /\ WF_vars(MonitorCancelled(s) \/ MonitorPoll(s))
          /\ WF_vars(AgentStep(s))
          /\ WF_vars(Handling(s))
          /\ WF_vars(proc[s] = "dying" /\ ProcessExits(s))

(* The deadline of a monitor, an hour away unless the step sets another    *)
(* one, passes in the end.                                                 *)
DeadlinesPass == \A s \in Steps : WF_vars(Monitoring(s))

FairSpec    == Spec /\ Fairness
PatientSpec == FairSpec /\ DeadlinesPass

-----------------------------------------------------------------------------
(* Properties *)

Outstanding(s) == phase[s] # "idle" /\ result[s] = <<>>

(* onComplete is called at most once for an execution, although a monitor, *)
(* an idle event, a timeout, a failed send and the end of the run may all  *)
(* complete it (sessionToStep decides which one does).                     *)
CalledBackOnce == \A s \in Steps : Len(result[s]) <= 1

(* "This overwrites any previous tracking entry for the session, which is  *)
(* correct because the previous step already completed"                    *)
(* (executeSharedSubsequentStep): an execution that ExecuteStep has handed *)
(* over stays tracked until it is answered.                                *)
StaysTracked ==
    \A s \in Steps : phase[s] \in {"input", "returned"} /\ result[s] = <<>>
        => \E x \in Steps : track[x] = s

(* Why: before it is handed over a step has no tracking entry and no       *)
(* answer; a tracked step has no answer and one entry; an entry of a       *)
(* shared session names a step of the key, of which one at most is         *)
(* outstanding, so no entry is ever overwritten.                           *)
Early == {"idle", "launched", "create", "register", "track", "reuse"}

TrackingInv ==
    /\ \A s \in Steps : phase[s] \in Early => result[s] = <<>>
    /\ \A s \in Steps : phase[s] = "register" => s \in Shared
    /\ \A s \in Steps : phase[s] \in {"reuse", "input"} =>
          s \in Shared /\ target[s] \in Shared
    /\ \A x \in Steps : track[x] # NoStep =>
          /\ result[track[x]] = <<>> /\ phase[track[x]] \notin Early
          /\ IF x \in Shared THEN track[x] \in Shared ELSE track[x] = x
    /\ \A x, y \in Steps : track[x] = track[y] /\ track[x] # NoStep => x = y
    /\ \A s, t \in Shared : Outstanding(s) /\ Outstanding(t) => s = t

(* A step in a session of its own is always answered: the monitor's        *)
(* deadline bounds it whatever happens to the agent.                       *)
OwnSessionAnswered ==
    \A s \in Steps \ Shared : [](Outstanding(s) => <>~Outstanding(s))

(* No session outlives its run: once it was cancelled or finished, every   *)
(* process it started dies, also one whose session is created after        *)
(* CleanupRunSessions, without waiting for a deadline, if the stream stays *)
(* up: a kill that is lost is not sent again.                              *)
NoSessionLeaks ==
    []connected => (run # "live" ~> \A x \in Steps :
                        /\ proc[x] \notin {"alive", "dying"}
                        /\ cmds[x] = <<>>)

(* "It is non-blocking; completion is signalled via onComplete"            *)
(* (ExecuteStep): every execution of a live run is answered.               *)
EveryStepAnswered ==
    \A s \in Steps : [](Outstanding(s) => <>(~Outstanding(s) \/ run # "live"))

(* "OnStepIdle handles StepIdleEvent from the agent, indicating a shared   *)
(* session step has completed (the CLI returned to its prompt)": a step    *)
(* that succeeds had its prompt submitted.                                 *)
SuccessWasPrompted ==
    \A s \in Shared : result[s] = <<"ok">> => s \in prompted
=============================================================================
