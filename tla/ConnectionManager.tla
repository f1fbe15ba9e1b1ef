------------------------- MODULE ConnectionManager -------------------------
(***************************************************************************)
(* The connections of one agent machine, as the server sees them: the      *)
(* stream registry and the CommandStream handlers of                       *)
(* internal/server/grpc/server.go, and the connection manager of           *)
(* internal/server/connmgr/manager.go with its row in the machines table,  *)
(* its delayed disconnect events and its sweep of dead transports.         *)
(*                                                                         *)
(* The agent (internal/agent/client.go) makes one connection after the     *)
(* other: it calls Register, opens the command stream, serves it until it  *)
(* breaks, and starts again.  The server may notice a break much later, so *)
(* the handlers of several connections overlap.  A handler is a sequence   *)
(* of steps separated by its locks and database writes.  Machines share    *)
(* nothing but the maps, so one machine is enough.                         *)
(***************************************************************************)
EXTENDS Integers

CONSTANTS MaxConns,  \* connections the agent makes
          None,
          DbFails,   \* writes of the machines table may fail
          Sweeps,    \* sweepStaleAgents runs
          Prompt     \* the handler of a lost connection has registered
                     \* before the agent reconnects (it waits 0.8 s or more)

ASSUME ConnectionAssumption == /\ MaxConns \in Nat
                               /\ None \notin 1..MaxConns
                               /\ DbFails \in BOOLEAN
                               /\ Sweeps \in BOOLEAN
                               /\ Prompt \in BOOLEAN

Conns == 1..MaxConns

VARIABLES
    link,       \* per connection, how far the agent has got with it
    handler,    \* per connection, the step its CommandStream handler is at
    cancelled,  \* the handler's context is done
    entry,      \* StreamRegistry: the connection whose token is registered
    token,      \* per handler, the token it captured
    agents,     \* ConnectionManager.agents: the registered connection
    old,        \* per handler, the connection its Register replaced
    db,         \* the machine's status in the database
    pending,    \* pendingDisconnects: the handler that set the timer
    timer,      \* the timers, named after the handlers that set them
    sweep,      \* the sweep in progress
    event       \* the last machine event published

server == <<entry, token, agents, old, db>>
delays == <<pending, timer>>
vars   == <<link, handler, cancelled, server, delays, sweep, event>>

(* The types of links, handlers, registry, database row, timers and sweep. *)
TypeOK ==
    /\ link \in [Conns -> {"none", "registered", "open", "failed", "broken"}]
    /\ handler \in [Conns -> {"none", "called", "put", "replace", "upsert",
                              "online", "announce", "serving", "match",
                              "offline", "schedule", "done"}]
    /\ cancelled \in [Conns -> BOOLEAN]
    /\ entry \in Conns \cup {None}
    /\ token \in [Conns -> Conns \cup {None}]
    /\ agents \in Conns \cup {None}
    /\ old \in [Conns -> Conns \cup {None}]
    /\ db \in {"none", "connected", "disconnected"}
    /\ pending \in Conns \cup {None}
    /\ timer \in [Conns -> {"none", "set", "stopped", "fired", "publish", "done"}]
    /\ sweep \in [pc : {"idle", "remove", "offline", "publish"},
                  conn : Conns \cup {None}]
    /\ event \in {"none", "connected", "disconnected", "stale"}

Init ==
    /\ link = [c \in Conns |-> "none"]
    /\ handler = [c \in Conns |-> "none"]
    /\ cancelled = [c \in Conns |-> FALSE]
    /\ entry = None
    /\ token = [c \in Conns |-> None]
    /\ agents = None
    /\ old = [c \in Conns |-> None]
    /\ db = "none"
    /\ pending = None
    /\ timer = [c \in Conns |-> "none"]
    /\ sweep = [pc |-> "idle", conn |-> None]
    /\ event = "none"

(* The phases after ConnectionManager.Register has returned. *)
Registered == {"serving", "match", "offline", "schedule", "done"}

At(c, p)   == handler[c] = p
Goto(c, p) == handler' = [handler EXCEPT ![c] = p]

-----------------------------------------------------------------------------
(* The agent and the network. *)

(* The next connection, once the previous one is lost: Register adds the   *)
(* machine to the stream registry under a fresh token.                     *)
Register(c) ==
    /\ link[c] = "none"
    /\ \A b \in Conns : b < c =>
          /\ link[b] \in {"failed", "broken"}
          /\ Prompt /\ link[b] = "broken" => handler[b] \in Registered
    /\ link' = [link EXCEPT ![c] = "registered"]
    /\ entry' = c
    /\ UNCHANGED <<handler, cancelled, token, agents, old, db, delays, sweep, event>>

OpenStream(c) ==
    /\ link[c] = "registered"
    /\ \E l \in {"open", "failed"} : link' = [link EXCEPT ![c] = l]
    /\ UNCHANGED <<handler, cancelled, server, delays, sweep, event>>

Break(c) ==
    /\ link[c] = "open"
    /\ link' = [link EXCEPT ![c] = "broken"]
    /\ UNCHANGED <<handler, cancelled, server, delays, sweep, event>>

(* The server's transport notices: the stream's context is done. *)
BreakDetected(c) ==
    /\ link[c] = "broken"
    /\ ~At(c, "none")
    /\ ~cancelled[c]
    /\ cancelled' = [cancelled EXCEPT ![c] = TRUE]
    /\ UNCHANGED <<link, handler, server, delays, sweep, event>>

-----------------------------------------------------------------------------
(* The start of CommandStream, which captures the current token, and       *)
(* ConnectionManager.Register.                                             *)

CommandStream(c) ==
    /\ At(c, "none")
    /\ link[c] \in {"open", "broken"}
    /\ token' = [token EXCEPT ![c] = entry]
    /\ Goto(c, "called")
    /\ UNCHANGED <<link, cancelled, entry, agents, old, db, delays, sweep, event>>

(* t.Stop() of the timer in pendingDisconnects, if there is one: no effect *)
(* on a timer that has fired.                                              *)
StopPending ==
    IF pending # None /\ timer[pending] = "set"
    THEN [timer EXCEPT ![pending] = "stopped"] ELSE timer

cancelPendingDisconnect(c) ==
    /\ At(c, "called")
    /\ Goto(c, "put")
    /\ timer' = StopPending
    /\ pending' = None
    /\ UNCHANGED <<link, cancelled, server, sweep, event>>

PutAgent(c) ==
    /\ At(c, "put")
    /\ agents' = c
    /\ old' = [old EXCEPT ![c] = agents]
    /\ Goto(c, IF agents = None THEN "upsert" ELSE "replace")
    /\ UNCHANGED <<link, cancelled, entry, token, db, delays, sweep, event>>

Mutant_CancelOld(c) ==
    /\ At(c, "replace")
    /\ Goto(c, "upsert")
    /\ UNCHANGED <<link, cancelled, server, delays, sweep, event>>

(* oldCancel() *)
CancelOld(c) ==
    /\ At(c, "replace")
    /\ cancelled' = [cancelled EXCEPT ![old[c]] = TRUE]
    /\ Goto(c, "upsert")
    /\ UNCHANGED <<link, server, delays, sweep, event>>

UpsertMachine(c) ==
    /\ At(c, "upsert")
    /\ Goto(c, "online")
    /\ UNCHANGED <<link, cancelled, server, delays, sweep, event>>

MarkConnected(c) ==
    /\ At(c, "online")
    /\ db' = "connected"
    /\ Goto(c, "announce")
    /\ UNCHANGED <<link, cancelled, entry, token, agents, old, delays, sweep, event>>

(* A database write fails: Register rolls back its own entry only, and     *)
(* CommandStream returns before it has installed its deferred cleanup.     *)
RegisterFails(c) ==
    /\ At(c, "upsert") \/ At(c, "online")
    /\ DbFails
    /\ agents' = IF agents = c THEN None ELSE agents
    /\ cancelled' = [cancelled EXCEPT ![c] = TRUE]
    /\ Goto(c, "done")
    /\ UNCHANGED <<link, entry, token, old, db, delays, sweep, event>>

PublishConnected(c) ==
    /\ At(c, "announce")
    /\ event' = "connected"
    /\ Goto(c, "serving")
    /\ UNCHANGED <<link, cancelled, server, delays, sweep>>

-----------------------------------------------------------------------------
(* The end of CommandStream. *)

(* The receive loop ends and the deferred RemoveIfToken runs. *)
RemoveIfToken(c) ==
    /\ At(c, "serving")
    /\ cancelled[c] \/ link[c] = "broken"
    /\ entry' = IF entry = token[c] THEN None ELSE entry
    /\ Goto(c, "match")
    /\ UNCHANGED <<link, cancelled, token, agents, old, db, delays, sweep, event>>

Mutant_DisconnectIfMatch(c) ==
    /\ At(c, "match")
    /\ agents' = None
    /\ Goto(c, "offline")
    /\ UNCHANGED <<link, cancelled, entry, token, old, db, delays, sweep, event>>

DisconnectIfMatch(c) ==
    /\ At(c, "match")
    /\ \/ /\ agents = c
          /\ agents' = None
          /\ Goto(c, "offline")
          /\ UNCHANGED cancelled
       \/ /\ agents # c
          /\ Goto(c, "done")
          /\ cancelled' = [cancelled EXCEPT ![c] = TRUE]
          /\ UNCHANGED agents
    /\ UNCHANGED <<link, entry, token, old, db, delays, sweep, event>>

(* A failure of this write is only logged. *)
MarkDisconnected(c) ==
    /\ At(c, "offline")
    /\ \/ db' = "disconnected"
       \/ DbFails /\ UNCHANGED db
    /\ Goto(c, "schedule")
    /\ UNCHANGED <<link, cancelled, entry, token, agents, old, delays, sweep, event>>

scheduleDisconnectEvent(c) ==
    /\ At(c, "schedule")
    /\ timer' = [StopPending EXCEPT ![c] = "set"]
    /\ pending' = c
    /\ cancelled' = [cancelled EXCEPT ![c] = TRUE]
    /\ Goto(c, "done")
    /\ UNCHANGED <<link, server, sweep, event>>

-----------------------------------------------------------------------------
(* The disconnect timer: it fires, its callback takes the map entry out,   *)
(* whosever it is, and publishes.                                          *)
TimerFires(c) ==
    /\ timer[c] = "set"
    /\ timer' = [timer EXCEPT ![c] = "fired"]
    /\ UNCHANGED <<link, handler, cancelled, server, pending, sweep, event>>

TimerRuns(c) ==
    /\ timer[c] = "fired"
    /\ timer' = [timer EXCEPT ![c] = "publish"]
    /\ pending' = None
    /\ UNCHANGED <<link, handler, cancelled, server, sweep, event>>

PublishDisconnected(c) ==
    /\ timer[c] = "publish"
    /\ timer' = [timer EXCEPT ![c] = "done"]
    /\ event' = "disconnected"
    /\ UNCHANGED <<link, handler, cancelled, server, pending, sweep>>

-----------------------------------------------------------------------------
(* sweepStaleAgents *)
SweepGoto(p) == sweep' = [sweep EXCEPT !.pc = p]

SweepLists ==
    /\ Sweeps
    /\ sweep.pc = "idle"
    /\ agents # None
    /\ cancelled[agents]
    /\ sweep' = [pc |-> "remove", conn |-> agents]
    /\ UNCHANGED <<link, handler, cancelled, server, delays, event>>

(* The entry is removed if it is still the one that was listed. *)
SweepRemoves ==
    /\ sweep.pc = "remove"
    /\ \/ /\ agents = sweep.conn
          /\ agents' = None
          /\ SweepGoto("offline")
       \/ /\ agents # sweep.conn
          /\ SweepGoto("idle")
          /\ UNCHANGED agents
    /\ UNCHANGED <<link, handler, cancelled, entry, token, old, db, delays, event>>

SweepMarks ==
    /\ sweep.pc = "offline"
    /\ \/ db' = "disconnected"
       \/ DbFails /\ UNCHANGED db
    /\ SweepGoto("publish")
    /\ UNCHANGED <<link, handler, cancelled, entry, token, agents, old, delays, event>>

SweepPublishes ==
    /\ sweep.pc = "publish"
    /\ event' = "stale"
    /\ SweepGoto("idle")
    /\ UNCHANGED <<link, handler, cancelled, server, delays>>

-----------------------------------------------------------------------------
HandlerStep(c) ==
    \/ cancelPendingDisconnect(c) \/ PutAgent(c) \/ CancelOld(c)
    \/ UpsertMachine(c) \/ MarkConnected(c) \/ RegisterFails(c)
    \/ PublishConnected(c) \/ RemoveIfToken(c) \/ DisconnectIfMatch(c)
    \/ MarkDisconnected(c) \/ scheduleDisconnectEvent(c)

TimerStep(c) == TimerFires(c) \/ TimerRuns(c) \/ PublishDisconnected(c)

SweepStep == SweepLists \/ SweepRemoves \/ SweepMarks \/ SweepPublishes

Next ==
    \/ \E c \in Conns :
          \/ Register(c) \/ OpenStream(c) \/ Break(c) \/ BreakDetected(c)
          \/ CommandStream(c) \/ HandlerStep(c) \/ TimerStep(c)
    \/ SweepStep

Spec == Init /\ [][Next]_vars

(* Handlers that have started run on, and timers fire.  Nothing makes the  *)
(* agent connect, the network break, or the server notice that it broke.   *)
Fairness == \A c \in Conns :
                /\ WF_vars(cancelled[c] /\ RemoveIfToken(c))
                /\ WF_vars(HandlerStep(c) /\ ~At(c, "serving"))
                /\ WF_vars(TimerStep(c))

FairSpec == Spec /\ Fairness

-----------------------------------------------------------------------------
(* Properties *)

(* The phases in which a handler counts as connected. *)
Connected == {"replace", "upsert", "online", "announce", "serving", "match"}

(* "This prevents a closing stream from removing a newer replacement       *)
(* connection" (DisconnectIfMatch; the sweep and the rollback in Register  *)
(* make the same check): a connection whose context is live is the one     *)
(* GetAgent returns, or is just being replaced.                            *)
LiveIsReachable ==
    \A c \in Conns : handler[c] \in Connected /\ ~cancelled[c]
        => agents = c \/ \E d \in Conns : At(d, "replace") /\ old[d] = c

(* What makes it inductive: what the sweep has listed stays dead, and a    *)
(* handler that replaces has something to replace.                         *)
ReachInv ==
    /\ LiveIsReachable
    /\ sweep.conn # None => cancelled[sweep.conn]
    /\ sweep.pc # "idle" => sweep.conn # None
    /\ \A c \in Conns : At(c, "replace") => old[c] # None

(* A stream that a newer connection replaced ends, also when the server    *)
(* never notices that its transport is dead ("its Cancel function is       *)
(* called before replacement", Register).                                  *)
ReplacedEnds ==
    \A c, d \in Conns :
        (old[d] = c /\ At(d, "serving")) ~> At(c, "done")

(* No handler is registering or closing and no sweep is under way. *)
Quiet == /\ \A c \in Conns : handler[c] \in {"none", "serving", "done"}
         /\ sweep.pc = "idle"
         /\ \A c \in Conns : At(c, "serving") => ~cancelled[c]

(* "The DB is updated immediately" (Disconnect, DisconnectIfMatch): a      *)
(* machine without a connection is not shown as connected, provided that   *)
(* no write fails, no sweep hits a connection that is still registering,   *)
(* and registrations do not overlap.                                       *)
GoneIsShown == Quiet /\ agents = None => db # "connected"

=============================================================================
