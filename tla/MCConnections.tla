---------------------------- MODULE MCConnections ----------------------------
(***************************************************************************)
(* The connections of one agent in two settings: "rough", two connections  *)
(* with failing writes, sweeps and registrations that overlap, and "calm", *)
(* three connections without any of these; and the process of the agent,   *)
(* which makes them, with its service.                                     *)
(***************************************************************************)
EXTENDS ConnectionManager, AgentLifecycle

VARIABLE part

Calm == INSTANCE ConnectionManager WITH DbFails <- FALSE, Sweeps <- FALSE, Prompt <- TRUE

mcVars == <<part, vars, procVars>>

(* Process ids are alike: one will do for the file of an earlier crash. *)
StalePid == CHOOSE p \in Pids : TRUE

MCInit == /\ part \in {"rough", "calm", "process"}
          /\ Init /\ AgentLifecycleInit
          /\ IF part = "process" THEN pidFile \in {NoPid, Empty, StalePid} ELSE pidFile = NoPid

MCNext == /\ UNCHANGED part
          /\ \/ part = "rough" /\ Next /\ UNCHANGED procVars
             \/ part = "calm" /\ Calm!Next /\ UNCHANGED procVars
             \/ part = "process" /\ AgentLifecycleNext /\ UNCHANGED vars

MCSpec == MCInit /\ [][MCNext]_mcVars /\ Fairness /\ AgentLifecycleFairness

(* The third connection is made in the calm setting only; no fairness asks *)
(* the agent to connect.                                                   *)
TwoIfRough == part = "rough" => \A c \in Conns : c > 2 => link[c] = "none"

(* "The DB is updated immediately" (Disconnect, DisconnectIfMatch): where  *)
(* no write fails, no sweep hits a connection that is still registering    *)
(* and registrations do not overlap, a machine without a connection is not *)
(* shown as connected.                                                     *)
CalmGoneIsShown == part = "calm" => GoneIsShown

(* The delayed disconnect event is suppressed only by a reconnection: in   *)
(* the calm setting a machine announced as connected and no longer         *)
(* registered is announced as gone, or registered again                    *)
(* (scheduleDisconnectEvent).                                              *)
CalmLossIsAnnounced ==
    (part = "calm" /\ agents = None /\ event = "connected")
        ~> (agents # None \/ event # "connected")

(* The handlers of replaced connections end, and a machine that is lost is *)
(* shown and announced as lost (DisconnectIfMatch,                         *)
(* scheduleDisconnectEvent).                                               *)
ConnectionsSettle ==
    /\ [](TypeOK /\ CalmGoneIsShown)
    /\ ReplacedEnds /\ CalmLossIsAnnounced
=============================================================================
