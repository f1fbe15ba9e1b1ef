--------------------------- MODULE AgentLifecycle ---------------------------
(***************************************************************************)
(* The agent as a process of a worker machine: the pid file that keeps a   *)
(* second agent from starting (internal/agent/lifecycle/pidfile.go and the *)
(* run command of cmd/agent/main.go), the service manager that restarts    *)
(* it, the three-layer stop that join and uninstall-service --purge make   *)
(* (stop.go, service.go, process.go), and the claude processes that a dead *)
(* agent leaves behind.                                                    *)
(*                                                                         *)
(* The operating system gives out process ids again.  It does not give out *)
(* one that somebody has listed and is about to signal, or still waits for *)
(* after a signal (a few seconds).                                         *)
(***************************************************************************)
EXTENDS Integers, FiniteSets

CONSTANTS Pids,          \* process ids
          NoPid,         \* no id, no file, the init process
          Empty,         \* what the pid file holds while it is written
          PidReuse,      \* the id in a stale pid file may be given out again
          MaxUpheavals   \* bound: crashes, commands, processes that users start

ASSUME LifecycleAssumption == /\ {NoPid, Empty} \cap Pids = {} /\ NoPid # Empty
                              /\ PidReuse \in BOOLEAN
                              /\ MaxUpheavals \in Nat

VARIABLES
    proc,        \* per id, the process that has it
    pidFile,     \* agent.pid: an id, NoPid if there is no file, or Empty
    service,     \* the service is started (it may wait for its restart)
    configured,  \* agent.toml and the certificates are there
    stop,        \* the install, uninstall or join command that is running
    upheavals,   \* how many of the bounded events have happened
    muddled      \* history: somebody checked the pid file while another one
                 \* was between its check and its write, or it was removed
                 \* under a running agent
procVars == <<proc, pidFile, service, configured, stop, upheavals, muddled>>

NoProc  == [kind |-> "none"]
Agent(unit) == [kind |-> "agent", unit |-> unit, at |-> "check", got |-> "none",
                todo |-> {}, target |-> NoPid]      \* unit: started by the service manager
Other   == [kind |-> "other", got |-> "none"]
Claude(parent) == [kind |-> "claude", got |-> "none", parent |-> parent]
IdleStop == [at |-> "idle", by |-> "join", pid |-> NoPid, todo |-> {}, target |-> NoPid]

Alive(p)  == p \in Pids /\ proc[p].kind # "none"
Agents    == {p \in Pids : proc[p].kind = "agent"}
Main      == {p \in Agents : proc[p].unit}
Claudes   == {p \in Pids : proc[p].kind = "claude"}
ProcAt(p, s) == p \in Agents /\ proc[p].at = s
Awaited   == UNION {{s.target} \cup s.todo : s \in {stop} \cup {proc[p] : p \in Agents}}

(* The types of processes, pid file and commands; the service has at most  *)
(* one main process, and a claude process has a living agent or init as    *)
(* its parent.                                                             *)
AgentLifecycleTypeOK ==
    /\ \A p \in Agents : /\ proc[p].at \in {"check", "remove", "truncate", "fill", "list",
                                            "reap", "client", "serving", "closing", "exit"}
                         /\ proc[p].todo \subseteq Pids /\ proc[p].target \in Pids \cup {NoPid}
    /\ \A p \in Claudes : proc[p].parent \in Agents \cup {NoPid}
    /\ \A p \in Pids : Alive(p) => proc[p].got \in {"none", "term", "kill"}
    /\ pidFile \in Pids \cup {NoPid, Empty}
    /\ service \in BOOLEAN /\ Cardinality(Main) <= 1
    /\ configured \in BOOLEAN /\ muddled \in BOOLEAN /\ upheavals \in 0 .. MaxUpheavals
    /\ stop.at \in {"idle", "service", "wait", "check", "find", "signal", "recheck", "remove",
                    "scan", "signal all", "finish"}
    /\ stop.by \in {"join", "install", "uninstall", "purge"}

AgentLifecycleInit ==
    /\ proc = [p \in Pids |-> NoProc]
    /\ pidFile \in Pids \cup {NoPid, Empty}      \* of an agent that has crashed
    /\ service = FALSE
    /\ configured = TRUE
    /\ stop = IdleStop
    /\ upheavals = 0 /\ muddled = FALSE

Upheaval == upheavals < MaxUpheavals /\ upheavals' = upheavals + 1

-----------------------------------------------------------------------------
(* Processes begin and end. *)

Exec(p, new) ==
    /\ ~Alive(p) /\ p \notin Awaited
    /\ PidReuse \/ p # pidFile
    /\ proc' = [proc EXCEPT ![p] = new]

(* What is left when p is gone: its claude processes lose their terminal   *)
(* and end, or go on as orphans.                                           *)
Ends(p) ==
    \E hungUp \in SUBSET {c \in Claudes : proc[c].parent = p} :
       proc' = [q \in Pids |->
                  IF q = p \/ q \in hungUp THEN NoProc
                  ELSE IF q \in Claudes /\ proc[q].parent = p THEN [proc[q] EXCEPT !.parent = NoPid]
                  ELSE proc[q]]

RunAgent(p) ==
    /\ Upheaval /\ configured /\ Exec(p, Agent(FALSE))
    /\ UNCHANGED <<pidFile, service, configured, stop, muddled>>

(* Restart=always: the service manager starts the agent again.             *)
ServiceStarts(p) ==
    /\ service /\ configured /\ Main = {}
    /\ Exec(p, Agent(TRUE))
    /\ UNCHANGED <<pidFile, service, configured, stop, upheavals, muddled>>

OtherStarts(p) ==
    /\ Upheaval /\ Exec(p, Other)
    /\ UNCHANGED <<pidFile, service, configured, stop, muddled>>

SessionStarts(p, c) ==
    /\ ProcAt(p, "serving") /\ Upheaval
    /\ Exec(c, Claude(p))
    /\ UNCHANGED <<pidFile, service, configured, stop, muddled>>

(* A crash of an agent leaves the pid file.                                *)
Crash(p) ==
    /\ p \in Agents /\ Upheaval /\ Ends(p)
    /\ UNCHANGED <<pidFile, service, configured, stop, muddled>>

(* SIGKILL cannot be ignored, but takes its time; claude and unrelated     *)
(* processes may end on SIGTERM.                                           *)
Dies(p) ==
    /\ Alive(p)
    /\ proc[p].got = "kill" \/ (p \notin Agents /\ proc[p].got = "term")
    /\ Ends(p)
    /\ UNCHANGED <<pidFile, service, configured, stop, upheavals, muddled>>

-----------------------------------------------------------------------------
(* SignalAndWait, by an agent or by a command: the signaller's record has  *)
(* the processes it will signal and the one it waits for.                  *)

Signalled(p, sig) == [proc EXCEPT ![p].got = IF @ = "kill" THEN "kill" ELSE sig]

SignalNext(s, t)     == s.target = NoPid /\ t \in s.todo
AfterSignal(s, t)    == [s EXCEPT !.todo = @ \ {t}, !.target = IF Alive(t) THEN t ELSE NoPid]
SignalDone(s)        == s.target = NoPid /\ s.todo = {}

-----------------------------------------------------------------------------
(* The run command. *)

ProcGoto(p, s) == proc' = [proc EXCEPT ![p].at = s]

(* Somebody else has looked at the pid file and not acted on it yet.       *)
Deciding(p) == \/ \E q \in Agents \ {p} : proc[q].at \in {"remove", "truncate", "fill"}
               \/ p # NoPid /\ stop.at \in {"find", "signal", "recheck", "remove"}

(* CheckPIDFile: is there a process with the id in the file?               *)
Mutant_CheckPIDFile == pidFile \in Pids

CheckPIDFile == pidFile \in Pids /\ Alive(pidFile)

PIDLock(p) ==
    /\ ProcAt(p, "check")
    /\ \/ CheckPIDFile /\ Ends(p)
       \/ ~CheckPIDFile /\ ProcGoto(p, IF pidFile \in Pids THEN "remove" ELSE "truncate")
    /\ muddled' = (muddled \/ Deciding(p))
    /\ UNCHANGED <<pidFile, service, configured, stop, upheavals>>

RemovePIDFile == pidFile' = NoPid

RunStep(p, from, to) ==
    /\ ProcAt(p, from) /\ ProcGoto(p, to)
    /\ UNCHANGED <<service, configured, stop, upheavals, muddled>>

RemoveStale(p) == RunStep(p, "remove", "truncate") /\ RemovePIDFile

(* WritePIDFile truncates the file, then writes the id.                    *)
Truncate(p) == RunStep(p, "truncate", "fill") /\ pidFile' = Empty
Fill(p)     == RunStep(p, "fill", "list") /\ pidFile' = p

(* FindOrphanedClaudeProcesses: claude processes whose parent is init.     *)
FindOrphanedClaudeProcesses == {c \in Claudes : proc[c].parent = NoPid}

ReapOrphanedProcesses(p) ==
    /\ ProcAt(p, "list")
    /\ proc' = [proc EXCEPT ![p].at = "reap", ![p].todo = FindOrphanedClaudeProcesses]
    /\ UNCHANGED <<pidFile, service, configured, stop, upheavals, muddled>>

ReapSignals(p) ==
    /\ ProcAt(p, "reap")
    /\ \/ \E t \in proc[p].todo :
             /\ SignalNext(proc[p], t)
             /\ proc' = [IF Alive(t) THEN Signalled(t, "term") ELSE proc
                         EXCEPT ![p] = AfterSignal(proc[p], t)]
       \/ /\ proc[p].target # NoPid /\ ~Alive(proc[p].target)
          /\ proc' = [proc EXCEPT ![p].target = NoPid]
       \/ /\ Alive(proc[p].target)                         \* the deadline has passed
          /\ proc' = [Signalled(proc[p].target, "kill") EXCEPT ![p].target = NoPid]
       \/ SignalDone(proc[p]) /\ ProcGoto(p, "client")
    /\ UNCHANGED <<pidFile, service, configured, stop, upheavals, muddled>>

(* NewAgentClient may fail; client.Run returns when a signal has come.     *)
StartClient(p) == RunStep(p, "client", "serving") /\ UNCHANGED pidFile

ClientFails(p) ==
    /\ ProcAt(p, "client") /\ Upheaval /\ ProcGoto(p, "closing")
    /\ UNCHANGED <<pidFile, service, configured, stop, muddled>>

ClientReturns(p) ==
    /\ ProcAt(p, "serving") /\ proc[p].got = "term"
    /\ RunStep(p, "serving", "closing") /\ UNCHANGED pidFile

(* The deferred pidCleanup removes the file, whosever it is.               *)
PidCleanup(p) == RunStep(p, "closing", "exit") /\ RemovePIDFile

Exit(p) ==
    /\ ProcAt(p, "exit") /\ Ends(p)
    /\ UNCHANGED <<pidFile, service, configured, stop, upheavals, muddled>>

-----------------------------------------------------------------------------
(* The commands.  Each begins with the service; join and purge go on with  *)
(* StopExisting.                                                           *)
StopGoto(s) == stop' = [stop EXCEPT !.at = s]

AfterService == IF stop.by \in {"join", "purge"} THEN "check" ELSE "finish"

StopKeeps == UNCHANGED <<configured, upheavals>>

BeginCommand(by) ==
    /\ stop.at = "idle" /\ Upheaval
    /\ by = "install" => configured
    /\ stop' = [IdleStop EXCEPT !.at = "service", !.by = by]
    /\ UNCHANGED <<proc, pidFile, service, configured, muddled>>

(* systemctl is-active knows a service that waits for its restart as not   *)
(* active; uninstall-service stops it without asking.  A join is made      *)
(* without root: its systemctl stop may fail.                              *)
StopServiceIfActive ==
    /\ stop.at = "service"
    /\ \/ \E p \in Main :
             /\ service' = FALSE
             /\ proc' = Signalled(p, "term")
             /\ stop' = [stop EXCEPT !.at = "wait", !.target = p]
       \/ /\ Main = {} \/ stop.by = "join"
          /\ StopGoto(AfterService)
          /\ service' = (service /\ stop.by \in {"join", "install"})
          /\ UNCHANGED proc
    /\ UNCHANGED <<pidFile, muddled>> /\ StopKeeps

(* The service manager waits for the process and kills it in the end.      *)
ServiceStopped ==
    /\ stop.at = "wait"
    /\ \/ /\ ~Alive(stop.target)
          /\ stop' = [stop EXCEPT !.at = AfterService, !.target = NoPid]
          /\ UNCHANGED proc
       \/ /\ Alive(stop.target) /\ proc[stop.target].got # "kill"
          /\ proc' = Signalled(stop.target, "kill")
          /\ UNCHANGED stop
    /\ UNCHANGED <<pidFile, service, muddled>> /\ StopKeeps

(* Layer 2: what the pid file says.                                        *)
StopChecks ==
    /\ stop.at = "check"
    /\ stop' = [stop EXCEPT !.at = IF CheckPIDFile THEN "find"
                                   ELSE IF pidFile \in Pids THEN "remove" ELSE "scan",
                            !.pid = IF pidFile \in Pids THEN pidFile ELSE NoPid]
    /\ muddled' = (muddled \/ Deciding(NoPid))
    /\ UNCHANGED <<proc, pidFile, service>> /\ StopKeeps

(* FindAgentProcesses sees processes of the user who runs the command:     *)
(* the agent does not run as root, uninstall-service does.                 *)
FindAgentProcesses == IF stop.by = "purge" THEN {} ELSE Agents

Mutant_VerifyAgent ==
    /\ stop.at = "find"
    /\ stop' = [stop EXCEPT !.at = "signal", !.todo = {stop.pid}]
    /\ UNCHANGED <<proc, pidFile, service, muddled>> /\ StopKeeps

(* "If the OS reused the PID for an unrelated process, treat as stale."    *)
VerifyAgent ==
    /\ stop.at = "find"
    /\ \/ /\ stop.pid \in FindAgentProcesses
          /\ stop' = [stop EXCEPT !.at = "signal", !.todo = {stop.pid}]
       \/ /\ stop.pid \notin FindAgentProcesses
          /\ StopGoto("remove")
    /\ UNCHANGED <<proc, pidFile, service, muddled>> /\ StopKeeps

StopSignals ==
    /\ stop.at \in {"signal", "signal all"}
    /\ \/ \E t \in stop.todo :
             /\ SignalNext(stop, t)
             /\ proc' = IF Alive(t) THEN Signalled(t, "term") ELSE proc
             /\ stop' = AfterSignal(stop, t)
       \/ /\ stop.target # NoPid /\ ~Alive(stop.target)
          /\ stop' = [stop EXCEPT !.target = NoPid] /\ UNCHANGED proc
       \/ /\ Alive(stop.target)                            \* the deadline has passed
          /\ stop' = [stop EXCEPT !.target = NoPid] /\ proc' = Signalled(stop.target, "kill")
       \/ /\ SignalDone(stop)
          /\ StopGoto(IF stop.at = "signal" THEN "recheck" ELSE "finish") /\ UNCHANGED proc
    /\ UNCHANGED <<pidFile, service, muddled>> /\ StopKeeps

(* "Re-check liveness before removing - don't clear lock if still alive."  *)
Recheck ==
    /\ stop.at = "recheck"
    /\ StopGoto(IF CheckPIDFile THEN "scan" ELSE "remove")
    /\ UNCHANGED <<proc, pidFile, service, muddled>> /\ StopKeeps

StopRemoves ==
    /\ stop.at = "remove" /\ RemovePIDFile /\ StopGoto("scan")
    /\ muddled' = (muddled \/ (stop.by = "purge" /\ stop.pid \in Agents))
    /\ UNCHANGED <<proc, service>> /\ StopKeeps

(* Layer 3: every other agent process that can be found.                   *)
StopScans ==
    /\ stop.at = "scan"
    /\ stop' = [stop EXCEPT !.at = "signal all", !.todo = FindAgentProcesses]
    /\ UNCHANGED <<proc, pidFile, service, muddled>> /\ StopKeeps

(* What the command is for.  A join configures the agent, or fails.        *)
EndsBy(by) == stop.at = "finish" /\ stop.by = by /\ stop' = IdleStop

JoinEnds ==
    /\ EndsBy("join") /\ configured' \in {configured, TRUE}
    /\ UNCHANGED <<proc, pidFile, service, upheavals, muddled>>

InstallEnds ==
    /\ EndsBy("install") /\ service' = TRUE
    /\ UNCHANGED <<proc, pidFile, configured, upheavals, muddled>>

UninstallEnds ==
    /\ EndsBy("uninstall")
    /\ UNCHANGED <<proc, pidFile, service, configured, upheavals, muddled>>

(* The data directory is in the one that is removed.                       *)
PurgeEnds ==
    /\ EndsBy("purge") /\ configured' = FALSE /\ RemovePIDFile
    /\ muddled' = (muddled \/ pidFile \in Agents)
    /\ UNCHANGED <<proc, service, upheavals>>

-----------------------------------------------------------------------------
RunSteps(p) ==
    \/ PIDLock(p) \/ RemoveStale(p) \/ Truncate(p) \/ Fill(p) \/ ReapOrphanedProcesses(p)
    \/ ReapSignals(p) \/ StartClient(p) \/ ClientReturns(p) \/ PidCleanup(p) \/ Exit(p)

CommandSteps ==
    \/ StopServiceIfActive \/ ServiceStopped \/ StopChecks \/ VerifyAgent \/ StopSignals
    \/ Recheck \/ StopRemoves \/ StopScans
    \/ JoinEnds \/ InstallEnds \/ UninstallEnds \/ PurgeEnds

AgentLifecycleNext ==
    \/ \E p \in Pids : \/ RunAgent(p) \/ ServiceStarts(p) \/ OtherStarts(p)
                       \/ Crash(p) \/ ClientFails(p) \/ Dies(p) \/ RunSteps(p)
                       \/ \E c \in Pids : SessionStarts(p, c)
    \/ \E by \in {"join", "install", "uninstall", "purge"} : BeginCommand(by)
    \/ CommandSteps

(* Processes run on, the service manager restarts, SIGKILL works.          *)
AgentLifecycleFairness ==
    /\ \A p \in Pids : WF_procVars(RunSteps(p)) /\ WF_procVars(Dies(p))
    /\ WF_procVars(\E p \in Pids : ServiceStarts(p))
    /\ WF_procVars(CommandSteps)

-----------------------------------------------------------------------------
(* Properties. *)

(* The agents that believe they hold the lock. *)
Holders == {p \in Agents : proc[p].at \in {"list", "reap", "client", "serving", "closing"}}

(* "agent already running": as long as nobody looks at the pid file while  *)
(* another one is about to change it, at most one agent manages the        *)
(* machine, over crashes, restarts of the service, joins and reused ids.   *)
OneAgent == ~muddled => Cardinality(Holders) <= 1

(* A signal hits an agent or an orphaned claude process, never a session   *)
(* of a living agent, nor a stranger that got the id in a stale pid file   *)
(* (StopExisting, FindOrphanedClaudeProcesses).                            *)
SignalsHitTheirTargets ==
    \A p \in Pids :
       /\ Alive(p) /\ Alive(p)' /\ proc[p].kind = proc'[p].kind
       /\ proc[p].got = "none" /\ proc'[p].got # "none"
       => p \in Agents \/ (p \in Claudes /\ proc[p].parent = NoPid)

(* "restarts automatically if it crashes" (install-service): while the     *)
(* service is on, an agent serves again, also with the pid file and the    *)
(* orphans of the one that crashed.                                        *)
AgentComesBack ==
    (service /\ configured)
       ~> (~service \/ ~configured \/ \E p \in Pids : ProcAt(p, "serving"))

(* One agent manages the machine, and signals hit what they are meant for, *)
(* over crashes, stale pid files and reused ids.                           *)
LifecycleSafe ==
    /\ [](AgentLifecycleTypeOK /\ OneAgent)
    /\ [][SignalsHitTheirTargets]_procVars
=============================================================================
