------------------------------- MODULE MCFeeds ------------------------------
(***************************************************************************)
(* Connectors and their bridge, directory browsing, logging, session       *)
(* content, the events feed, the agent's process and the Telegram commands *)
(* in one run: components that do not interact.  The variable part says    *)
(* which of them a behaviour is about; the others stand still, so that the *)
(* state spaces add up instead of multiplying.                             *)
(***************************************************************************)
EXTENDS Connectors, Browsing, Logging, SessionContent, EventsFeed, AgentLifecycle, TelegramCommands

CONSTANT s1

VARIABLE part

vars == <<part, connVars, browseVars, logVars, contentVars, feedVars, procVars, tgVars>>

(* Process ids are alike: one will do for the file of an earlier crash. *)
StalePid == CHOOSE p \in Pids : TRUE

Init == /\ part \in {"connectors", "browsing", "logging", "content", "feed", "lifecycle", "telegram"}
        /\ ConnectorsInit /\ BrowsingInit /\ LoggingInit /\ ContentInit /\ EventsFeedInit
        /\ AgentLifecycleInit /\ TelegramInit
        /\ IF part = "lifecycle" THEN pidFile \in {NoPid, Empty, StalePid} ELSE pidFile = NoPid
        /\ part # "connectors" => \A c \in ConnectorIds : conRow[c] = NoConnector
        /\ ctLive = {} \/ (part = "content" /\ ctLive = {s1})

Next == /\ UNCHANGED part
        /\ \/ part = "connectors" /\ ConnectorsNext /\ UNCHANGED <<browseVars, logVars, contentVars, feedVars, procVars, tgVars>>
           \/ part = "browsing" /\ BrowsingNext /\ UNCHANGED <<connVars, logVars, contentVars, feedVars, procVars, tgVars>>
           \/ part = "logging" /\ LoggingNext /\ UNCHANGED <<connVars, browseVars, contentVars, feedVars, procVars, tgVars>>
           \/ part = "content" /\ ContentNext /\ UNCHANGED <<connVars, browseVars, logVars, feedVars, procVars, tgVars>>
           \/ part = "feed" /\ EventsFeedNext /\ UNCHANGED <<connVars, browseVars, logVars, contentVars, procVars, tgVars>>
           \/ part = "lifecycle" /\ AgentLifecycleNext /\ UNCHANGED <<connVars, browseVars, logVars, contentVars, feedVars, tgVars>>
           \/ part = "telegram" /\ TelegramNext /\ UNCHANGED <<connVars, browseVars, logVars, contentVars, feedVars, procVars>>

(* The bridge is started again by what supervises it and its ticker ticks. *)
(* It starts when the program does: it is owed a step only in the          *)
(* behaviours that are about it.  Nothing that is fair can happen in the   *)
(* initial states of the others.                                           *)
BridgeRuns == part = "connectors" /\ BridgeGoesOn /\ UNCHANGED <<part, browseVars, logVars, contentVars, feedVars, procVars, tgVars>>

Spec == Init /\ [][Next]_vars

FairSpec ==
    /\ Spec
    /\ WF_vars(BridgeRuns) /\ BrowsingFairness /\ LoggingFairness /\ ContentFairness /\ EventsFeedFairness
    /\ TelegramFairness

(* What users ask of the bridge is done in the end: a restart, and a       *)
(* command of the chat.                                                    *)
RequestsHonoured == RestartHonoured /\ CommandIsHandled

(* Records and lines get into their tables, and viewers and browsers whose *)
(* connection broke give their places back.                                *)
FeedsSettle == LogsAreStored /\ LinesAreStored /\ PlacesGivenBack /\ DeadAreForgotten
=============================================================================
