----------------------------- MODULE Connectors -----------------------------
(***************************************************************************)
(* Bridge connectors (internal/server/handler/bridge.go and                *)
(* store/bridge.go), the notification channel the server keeps for each    *)
(* Telegram connector, and the bridge process that reads the connectors    *)
(* once when it starts and then polls for a request to restart             *)
(* (cmd/bridge/main.go, internal/bridge/bridge.go, client.go).             *)
(*                                                                         *)
(* A handler makes several database calls, and those of other requests may *)
(* fall between any two of them.  The clock counts half seconds: a request *)
(* to restart is stored in whole seconds, the boot time is exact.          *)
(***************************************************************************)
EXTENDS Integers, FiniteSets

CONSTANTS Admins, ConnectorIds,
          MaxConnEdits,  \* bound: requests that change a connector
          MaxConnFaults, \* bound: failed writes, failed polls and crashes
          MaxHalfSeconds \* bound: the clock

ASSUME ConnectorsAssumption == {MaxConnEdits, MaxConnFaults, MaxHalfSeconds} \subseteq Nat

VARIABLES
    conRow,      \* bridge_connectors
    conChan,     \* notification_channels, by connector_id
    conReq,      \* per admin: the request being served
    conMixed,    \* history: connectors whose requests overlapped or failed in part
    conEdits,
    conFaults,
    brNow,       \* the clock
    brControl,   \* bridge_control: restart_requested_at, -1 when there is none
    brRun,       \* the bridge process
    brOwed,      \* history: a restart was requested that the bridge can still see
    brAsked      \* history: the exact time of the last request

connVars == <<conRow, conChan, conReq, conMixed, conEdits, conFaults, brNow, brControl, brRun, brOwed, brAsked>>
bridgeVars == <<brNow, brControl, brRun, brOwed, brAsked>>

NoConnector == [is |-> "none"]
Served      == [at |-> "none"]
Down        == [at |-> "down"]
ConnKinds   == {"telegram", "github"}

(* The types of connector rows, channels and bridge; the time of a restart *)
(* request is stored in whole seconds.                                     *)
ConnectorsTypeOK ==
    /\ \A c \in ConnectorIds :
          /\ conRow[c] \in {NoConnector} \cup
                [is : {"row"}, kind : ConnKinds, config : 0 .. MaxConnEdits, enabled : BOOLEAN]
          /\ conChan[c] \in {NoConnector} \cup [is : {"chan"}, config : 0 .. MaxConnEdits, enabled : BOOLEAN]
    /\ brControl \in -1 .. MaxHalfSeconds /\ (brControl >= 0 => brControl % 2 = 0)
    /\ brRun.at \in {"down", "reading", "up", "stopping"}

(* A connector may be there from before, with its channel.                 *)
ConnectorsInit ==
    /\ \E old \in SUBSET ConnectorIds, k \in ConnKinds :
          /\ conRow = [c \in ConnectorIds |-> IF c \in old THEN [is |-> "row", kind |-> k, config |-> 0, enabled |-> TRUE]
                                              ELSE NoConnector]
          /\ conChan = [c \in ConnectorIds |-> IF c \in old /\ k = "telegram"
                                               THEN [is |-> "chan", config |-> 0, enabled |-> TRUE] ELSE NoConnector]
    /\ conReq = [a \in Admins |-> Served] /\ conMixed = {} /\ conEdits = 0 /\ conFaults = 0
    /\ brNow = 0 /\ brControl = -1 /\ brRun = Down /\ brOwed = FALSE /\ brAsked = -1

-----------------------------------------------------------------------------
(* Requests. *)

ReqGoto(a, to) == conReq' = [conReq EXCEPT ![a] = to]
AtReq(a, at)   == conReq[a].at = at
Serving(c)     == {a \in Admins : conReq[a].at # "none" /\ conReq[a].c = c}

(* A request of an admin begins (authorizeAdmin); c is mixed up from now   *)
(* on when another one is being served.                                    *)
ReqBegins(a, c, to) ==
    /\ AtReq(a, "none") /\ conEdits < MaxConnEdits
    /\ conEdits' = conEdits + 1 /\ ReqGoto(a, to)
    /\ conMixed' = IF Serving(c) = {} THEN conMixed ELSE conMixed \cup {c}

(* A write to the channels fails: it is logged and the request goes on.    *)
WriteFails(a, next) ==
    /\ conFaults < MaxConnFaults /\ conFaults' = conFaults + 1
    /\ conMixed' = conMixed \cup {conReq[a].c} /\ ReqGoto(a, next)
    /\ UNCHANGED <<conRow, conChan, conEdits, bridgeVars>>

(* The channel's part of a connector's configuration.                      *)
buildTelegramChannelConfig(row) == [is |-> "chan", config |-> row.config, enabled |-> row.enabled]

InsertConnector(c, row)  == conRow' = [conRow EXCEPT ![c] = row]

(* POST: the row, with a new id, then the channel.                         *)
CreateConnector(a, c) ==
    /\ conRow[c] = NoConnector /\ conChan[c] = NoConnector /\ Serving(c) = {}
    /\ \E k \in ConnKinds, e \in BOOLEAN :
          LET row == [is |-> "row", kind |-> k, config |-> conEdits + 1, enabled |-> e] IN
          /\ InsertConnector(c, row)
          /\ ReqBegins(a, c, [at |-> "createChannel", c |-> c, row |-> row])
    /\ UNCHANGED <<conChan, conFaults, bridgeVars>>

CreateNotificationChannel(c, ch) == conChan' = [conChan EXCEPT ![c] = ch]

syncNotifChannelCreate(a) ==
    /\ AtReq(a, "createChannel")
    /\ \/ /\ IF conReq[a].row.kind = "telegram"
             THEN CreateNotificationChannel(conReq[a].c, buildTelegramChannelConfig(conReq[a].row))
             ELSE UNCHANGED conChan
          /\ ReqGoto(a, Served)
          /\ UNCHANGED <<conRow, conMixed, conEdits, conFaults, bridgeVars>>
       \/ conReq[a].row.kind = "telegram" /\ WriteFails(a, Served)

(* PUT: the row is read, for the enabled flag a request may leave out ...  *)
UpdateConnector(a, c) ==
    /\ conRow[c] # NoConnector
    /\ \E k \in ConnKinds, e \in BOOLEAN :
          ReqBegins(a, c, [at |-> "write", c |-> c,
                           row |-> [is |-> "row", kind |-> k, config |-> conEdits + 1, enabled |-> e]])
    /\ UNCHANGED <<conRow, conChan, conFaults, bridgeVars>>

(* ... written, 404 when it is gone ...  A changed type leaves the channel *)
(* as it is.                                                               *)
StoreConnector(a) ==
    /\ AtReq(a, "write")
    /\ LET c == conReq[a].c IN
       IF conRow[c] = NoConnector
       THEN ReqGoto(a, Served) /\ UNCHANGED <<conRow, conMixed>>
       ELSE /\ conRow' = [conRow EXCEPT ![c] = conReq[a].row]
            /\ conMixed' = IF conRow[c].kind = conReq[a].row.kind THEN conMixed ELSE conMixed \cup {c}
            /\ ReqGoto(a, [at |-> "reread", c |-> c])
    /\ UNCHANGED <<conChan, conEdits, conFaults, bridgeVars>>

(* ... read back, with what another request has written since ...          *)
RereadConnector(a) ==
    /\ AtReq(a, "reread")
    /\ LET c == conReq[a].c IN
       ReqGoto(a, IF conRow[c] = NoConnector \/ conRow[c].kind # "telegram" THEN Served
                  ELSE [at |-> "lookChannel", c |-> c, row |-> conRow[c]])
    /\ UNCHANGED <<conRow, conChan, conMixed, conEdits, conFaults, bridgeVars>>

GetChannelByConnectorID(c) == conChan[c]

(* ... and the channel, when there is one, follows.                        *)
SyncLooks(a) ==
    /\ AtReq(a, "lookChannel")
    /\ ReqGoto(a, IF GetChannelByConnectorID(conReq[a].c) = NoConnector THEN Served
                  ELSE [at |-> "updateChannel", c |-> conReq[a].c, row |-> conReq[a].row])
    /\ UNCHANGED <<conRow, conChan, conMixed, conEdits, conFaults, bridgeVars>>

UpdateNotificationChannel(c, ch) ==
    conChan' = IF conChan[c] = NoConnector THEN conChan ELSE [conChan EXCEPT ![c] = ch]

syncNotifChannelUpdate(a) ==
    /\ AtReq(a, "updateChannel")
    /\ \/ /\ UpdateNotificationChannel(conReq[a].c, buildTelegramChannelConfig(conReq[a].row))
          /\ ReqGoto(a, Served)
          /\ UNCHANGED <<conRow, conMixed, conEdits, conFaults, bridgeVars>>
       \/ WriteFails(a, Served)

(* DELETE: the channel first, then the row.                                *)
DeleteConnector(a, c) ==
    /\ conRow[c] # NoConnector
    /\ ReqBegins(a, c, [at |-> "deleteChannel", c |-> c])
    /\ UNCHANGED <<conRow, conChan, conFaults, bridgeVars>>

DeleteNotificationChannel(c) == conChan' = [conChan EXCEPT ![c] = NoConnector]

syncNotifChannelDelete(a) ==
    /\ AtReq(a, "deleteChannel")
    /\ LET next == [at |-> "deleteRow", c |-> conReq[a].c] IN
       \/ /\ DeleteNotificationChannel(conReq[a].c) /\ ReqGoto(a, next)
          /\ UNCHANGED <<conRow, conMixed, conEdits, conFaults, bridgeVars>>
       \/ WriteFails(a, next)

(* The row goes, or that fails (500) and the connector stays without its   *)
(* channel.                                                                *)
RemoveConnector(a) ==
    /\ AtReq(a, "deleteRow")
    /\ \/ /\ conRow' = [conRow EXCEPT ![conReq[a].c] = NoConnector] /\ ReqGoto(a, Served)
          /\ UNCHANGED <<conChan, conMixed, conEdits, conFaults, bridgeVars>>
       \/ WriteFails(a, Served)

SetBridgeControl(val) == brControl' = val

(* POST /bridge/restart.  The bridge can see a request made while it is    *)
(* down or in a later second than the one it booted in.                    *)
Mutant_RestartBridge ==
    /\ SetBridgeControl(IF brControl = -1 THEN (brNow \div 2) * 2 ELSE brControl)
    /\ brAsked' = brNow
    /\ brOwed' = (brOwed \/ brRun.at = "down" \/ (brRun.at = "up" /\ brNow \div 2 > brRun.boot \div 2))
    /\ UNCHANGED <<conRow, conChan, conReq, conMixed, conEdits, conFaults, brNow, brRun>>

RestartBridge ==
    /\ SetBridgeControl((brNow \div 2) * 2) /\ brAsked' = brNow
    /\ brOwed' = (brOwed \/ brRun.at = "down" \/ (brRun.at = "up" /\ brNow \div 2 > brRun.boot \div 2))
    /\ UNCHANGED <<conRow, conChan, conReq, conMixed, conEdits, conFaults, brNow, brRun>>

-----------------------------------------------------------------------------
(* The bridge. *)

GetBridgeControl == brControl
ListConnectors   == {c \in ConnectorIds : conRow[c] # NoConnector}
GetConnectorWithSecret(c) == conRow[c]

(* serve: GetConnectorConfigs lists the connectors ...                     *)
BridgeStarts ==
    /\ brRun.at = "down"
    /\ brRun' = [at |-> "reading", todo |-> ListConnectors, got |-> {}]
    /\ brOwed' = FALSE
    /\ UNCHANGED <<conRow, conChan, conReq, conMixed, conEdits, conFaults, brNow, brControl, brAsked>>

(* ... and gets each with its secret; one that is gone by then fails the   *)
(* request and ends the process.                                           *)
ReadConnector(c) ==
    /\ brRun.at = "reading" /\ c \in brRun.todo
    /\ brRun' = IF GetConnectorWithSecret(c) = NoConnector THEN Down
                ELSE [brRun EXCEPT !.todo = @ \ {c}, !.got = @ \cup {[c |-> c, row |-> GetConnectorWithSecret(c)]}]
    /\ UNCHANGED <<conRow, conChan, conReq, conMixed, conEdits, conFaults, brNow, brControl, brOwed, brAsked>>

(* Connectors that are not enabled are not started.                        *)
Registered(got) == {g \in got : g.row.enabled}

(* Run: the boot time is taken and the connectors start.                   *)
BridgeBoots ==
    /\ brRun.at = "reading" /\ brRun.todo = {}
    /\ brRun' = [at |-> "up", boot |-> brNow, runs |-> Registered(brRun.got)]
    /\ UNCHANGED <<conRow, conChan, conReq, conMixed, conEdits, conFaults, brNow, brControl, brOwed, brAsked>>

Mutant_CheckRestartSignal == GetBridgeControl \div 2 >= brRun.boot \div 2

CheckRestartSignal == GetBridgeControl > brRun.boot

(* The ticker of RunWithInterval; an error is logged and the next tick     *)
(* asks again.                                                             *)
PollRestart ==
    /\ brRun.at = "up" /\ CheckRestartSignal
    /\ brRun' = [at |-> "stopping"]
    /\ UNCHANGED <<conRow, conChan, conReq, conMixed, conEdits, conFaults, brNow, brControl, brOwed, brAsked>>

(* The connectors have stopped, or ten seconds have passed.                *)
BridgeStops ==
    /\ brRun.at = "stopping" /\ brRun' = Down
    /\ UNCHANGED <<conRow, conChan, conReq, conMixed, conEdits, conFaults, brNow, brControl, brOwed, brAsked>>

BridgeCrash ==
    /\ brRun.at # "down" /\ conFaults < MaxConnFaults /\ conFaults' = conFaults + 1
    /\ brRun' = Down
    /\ UNCHANGED <<conRow, conChan, conReq, conMixed, conEdits, brNow, brControl, brOwed, brAsked>>

ConnTick ==
    /\ brNow < MaxHalfSeconds /\ brNow' = brNow + 1
    /\ UNCHANGED <<conRow, conChan, conReq, conMixed, conEdits, conFaults, brControl, brRun, brOwed, brAsked>>

ReqGoesOn(a) ==
    \/ syncNotifChannelCreate(a) \/ StoreConnector(a) \/ RereadConnector(a) \/ SyncLooks(a)
    \/ syncNotifChannelUpdate(a) \/ syncNotifChannelDelete(a) \/ RemoveConnector(a)

BridgeGoesOn == BridgeStarts \/ (\E c \in ConnectorIds : ReadConnector(c)) \/ BridgeBoots \/ PollRestart \/ BridgeStops

ConnectorsNext ==
    \/ \E a \in Admins :
          \/ ReqGoesOn(a)
          \/ \E c \in ConnectorIds : CreateConnector(a, c) \/ UpdateConnector(a, c) \/ DeleteConnector(a, c)
    \/ RestartBridge \/ BridgeGoesOn \/ BridgeCrash \/ ConnTick

-----------------------------------------------------------------------------
(* Properties. *)

(* Once its requests are served, and none overlapped another, failed half  *)
(* way or changed its type, a Telegram connector has a channel with its    *)
(* configuration and its enabled flag, and no other connector and no       *)
(* deleted one has a channel.                                              *)
ChannelFollows ==
    \A c \in ConnectorIds \ conMixed :
       Serving(c) = {} =>
          conChan[c] = IF conRow[c] # NoConnector /\ conRow[c].kind = "telegram"
                       THEN buildTelegramChannelConfig(conRow[c]) ELSE NoConnector

(* The bridge stops for a request only if it was made after the bridge     *)
(* booted: a request never makes it restart twice.                         *)
StopsOncePerRequest ==
    brRun.at = "up" /\ brRun'.at = "stopping" => brAsked > brRun.boot

(* A request to restart, made while the bridge is down or in a later       *)
(* second than the one it booted in, is followed by a bridge that reads    *)
(* the connectors anew, whatever further requests, edits and crashes come. *)
RestartHonoured == brOwed ~> ~brOwed

(* The channel of a connector follows it, and a request restarts the       *)
(* bridge once.                                                            *)
ConnectorsSafe ==
    /\ [](ConnectorsTypeOK /\ ChannelFollows)
    /\ [][StopsOncePerRequest]_connVars
=============================================================================
