-------------------------- MODULE TelegramCommands --------------------------
(***************************************************************************)
(* The Telegram connector of the bridge (internal/bridge/connector/        *)
(* telegram): a poller that fetches updates from Telegram, carries out the *)
(* slash commands among them through the server's REST API and replies.    *)
(* Its offset is only in memory.  Telegram keeps an update until a poll    *)
(* asks for a later one, so what was handled since the last poll comes     *)
(* again after a restart of the bridge.                                    *)
(***************************************************************************)
EXTENDS Integers, Sequences, FiniteSets

CONSTANTS MaxUpdates,    \* bound: messages that users send
          MaxTgFaults    \* bound: failed calls, stops and crashes

ASSUME TelegramAssumption == MaxUpdates \in Nat /\ MaxTgFaults \in Nat

(* aside: no message, another topic or no slash.  look: a list, a status,  *)
(* a mistake.  change: kill and inject.  start: looks up its template      *)
(* first.                                                                  *)
TgSorts == {"aside", "look", "change", "start"}

VARIABLES
    tgSent,       \* the updates, in the order of their ids
    tgConfirmed,  \* Telegram has forgotten the updates up to this id
    tgPoller,     \* the poller: where it is, its offset, the rest of its batch
    tgCancelled,  \* the bridge has cancelled the context of the connector
    tgHandled,    \* history: the updates that were dealt with
    tgRuns,       \* history: how often the server did it, since the bridge's start
    tgFaults
tgVars == <<tgSent, tgConfirmed, tgPoller, tgCancelled, tgHandled, tgRuns, tgFaults>>

TgIds   == 1 .. MaxUpdates
TgDown  == [at |-> "down", offset |-> 0, batch |-> <<>>]
Pending == {u \in 1 .. Len(tgSent) : u > tgConfirmed}
Command(u)   == tgSent[u] # "aside"
TgCurrent    == Head(tgPoller.batch)

(* The types of updates and poller; a batch is a run of consecutive        *)
(* updates and the offset is at most one past the last update.             *)
TelegramTypeOK ==
    /\ Len(tgSent) <= MaxUpdates /\ tgConfirmed \in 0 .. Len(tgSent)
    /\ tgPoller.at \in {"down", "poll", "polling", "backoff", "batch", "call", "reply"}
    /\ tgPoller.offset \in 0 .. Len(tgSent) + 1
    /\ \A i \in 1 .. Len(tgPoller.batch) : /\ tgPoller.batch[i] \in 1 .. Len(tgSent)
                                           /\ i > 1 => tgPoller.batch[i] = tgPoller.batch[i - 1] + 1
    /\ tgCancelled \in BOOLEAN /\ tgHandled \subseteq TgIds
    /\ tgFaults \in 0 .. MaxTgFaults

TelegramInit ==
    /\ tgSent = <<>> /\ tgConfirmed = 0
    /\ tgPoller = TgDown /\ tgCancelled = FALSE
    /\ tgHandled = {} /\ tgRuns = [u \in TgIds |-> 0]
    /\ tgFaults = 0

TgFault == tgFaults < MaxTgFaults /\ tgFaults' = tgFaults + 1

UserSends(sort) ==
    /\ Len(tgSent) < MaxUpdates
    /\ tgSent' = Append(tgSent, sort)
    /\ UNCHANGED <<tgConfirmed, tgPoller, tgCancelled, tgHandled, tgRuns, tgFaults>>

-----------------------------------------------------------------------------
(* The bridge starts the connector, cancels its context and ends, or dies. *)
StartTelegram ==
    /\ tgPoller.at = "down"
    /\ tgPoller' = [TgDown EXCEPT !.at = "poll"]
    /\ tgCancelled' = FALSE /\ tgRuns' = [u \in TgIds |-> 0]
    /\ UNCHANGED <<tgSent, tgConfirmed, tgHandled, tgFaults>>

(* Start returns at once; the poller goes on until the process ends.       *)
CancelTelegram ==
    /\ tgPoller.at # "down" /\ ~tgCancelled /\ TgFault
    /\ tgCancelled' = TRUE
    /\ UNCHANGED <<tgSent, tgConfirmed, tgPoller, tgHandled, tgRuns>>

BridgeProcessEnds ==
    /\ tgPoller.at # "down" /\ tgCancelled
    /\ tgPoller' = TgDown
    /\ UNCHANGED <<tgSent, tgConfirmed, tgCancelled, tgHandled, tgRuns, tgFaults>>

BridgeProcessDies ==
    /\ tgPoller.at # "down" /\ TgFault
    /\ tgPoller' = TgDown
    /\ UNCHANGED <<tgSent, tgConfirmed, tgCancelled, tgHandled, tgRuns>>

-----------------------------------------------------------------------------
(* runCommandsPoller. *)

(* A poll with an offset tells Telegram to forget what is before it.       *)
Mutant_Confirm ==
    IF tgPoller.offset > tgConfirmed /\ tgPoller.offset <= Len(tgSent) THEN tgPoller.offset ELSE tgConfirmed

Confirm == IF tgPoller.offset - 1 > tgConfirmed THEN tgPoller.offset - 1 ELSE tgConfirmed

getUpdates ==
    /\ tgPoller.at = "poll" /\ ~tgCancelled
    /\ tgConfirmed' = Confirm
    /\ tgPoller' = [tgPoller EXCEPT !.at = "polling"]
    /\ UNCHANGED <<tgSent, tgCancelled, tgHandled, tgRuns, tgFaults>>

(* What is there, or nothing when the long poll runs out.                  *)
UpdatesArrive ==
    /\ tgPoller.at = "polling" /\ ~tgCancelled
    /\ tgPoller' = [tgPoller EXCEPT
                      !.at = IF Pending = {} THEN "poll" ELSE "batch",
                      !.batch = [i \in 1 .. Cardinality(Pending) |-> tgConfirmed + i]]
    /\ UNCHANGED <<tgSent, tgConfirmed, tgCancelled, tgHandled, tgRuns, tgFaults>>

(* No answer, no valid answer, or "rate limited": back off.                *)
PollFails ==
    /\ tgPoller.at = "polling" /\ ~tgCancelled /\ TgFault
    /\ tgPoller' = [tgPoller EXCEPT !.at = "backoff"]
    /\ UNCHANGED <<tgSent, tgConfirmed, tgCancelled, tgHandled, tgRuns>>

BackedOff ==
    /\ tgPoller.at = "backoff" /\ ~tgCancelled
    /\ tgPoller' = [tgPoller EXCEPT !.at = "poll"]
    /\ UNCHANGED <<tgSent, tgConfirmed, tgCancelled, tgHandled, tgRuns, tgFaults>>

OffsetAfter(u) == u + 1

(* The poller is done with the update at hand.                             *)
Rest(p)    == [p EXCEPT !.batch = Tail(@),
                        !.at = IF Len(p.batch) = 1 THEN "poll" ELSE "batch"]
Handled(u) == tgHandled' = IF tgCancelled THEN tgHandled ELSE tgHandled \cup {u}

NextUpdate ==
    /\ tgPoller.at = "batch" /\ tgPoller.batch # <<>>
    /\ LET p == [tgPoller EXCEPT !.offset = OffsetAfter(TgCurrent)]
       IN \/ ~Command(TgCurrent) /\ tgPoller' = Rest(p)
          \/ /\ Command(TgCurrent)
             /\ tgPoller' = [p EXCEPT !.at = IF tgSent[TgCurrent] = "look" \/ tgCancelled
                                              THEN "reply" ELSE "call"]
    /\ UNCHANGED <<tgSent, tgConfirmed, tgCancelled, tgHandled, tgRuns, tgFaults>>

(* The call fails: before the server did it, after it (the answer is       *)
(* lost), or because the context is cancelled meanwhile.  A start    *)
(* fails in the lookup of its template or in the call that creates the     *)
(* session.                                                                *)
CallFails ==
    /\ tgPoller.at = "call"
    /\ IF tgCancelled THEN UNCHANGED tgFaults ELSE TgFault
    /\ \E did \in {0, 1} : tgRuns' = [tgRuns EXCEPT ![TgCurrent] = @ + did]
    /\ tgPoller' = [tgPoller EXCEPT !.at = "reply"]
    /\ UNCHANGED <<tgSent, tgConfirmed, tgCancelled, tgHandled>>

handleCommand ==
    /\ tgPoller.at = "call" /\ ~tgCancelled
    /\ \/ tgRuns' = [tgRuns EXCEPT ![TgCurrent] = @ + 1]
       \/ tgSent[TgCurrent] = "start" /\ UNCHANGED tgRuns      \* no template, no machine
    /\ tgPoller' = [tgPoller EXCEPT !.at = "reply"]
    /\ UNCHANGED <<tgSent, tgConfirmed, tgCancelled, tgHandled, tgFaults>>

(* sendMessage; its failure is only logged.                                *)
sendMessage ==
    /\ tgPoller.at = "reply"
    /\ Handled(TgCurrent) /\ tgPoller' = Rest(tgPoller)
    /\ UNCHANGED <<tgSent, tgConfirmed, tgCancelled, tgRuns, tgFaults>>

-----------------------------------------------------------------------------
PollerSteps ==
    \/ getUpdates \/ UpdatesArrive \/ BackedOff \/ NextUpdate \/ handleCommand \/ sendMessage
    \/ BridgeProcessEnds

TelegramNext ==
    \/ \E sort \in TgSorts : UserSends(sort)
    \/ StartTelegram \/ CancelTelegram \/ BridgeProcessDies
    \/ PollFails \/ CallFails \/ PollerSteps

(* The bridge is restarted after its end; the poller runs on.              *)
TelegramFairness == WF_tgVars(PollerSteps) /\ WF_tgVars(tgSent # <<>> /\ StartTelegram)

-----------------------------------------------------------------------------
(* Properties. *)

(* A command that Telegram has forgotten, or that is older than one that   *)
(* was dealt with, was dealt with: polls that fail, stops in the middle of *)
(* a batch and crashes lose none and do not change their order.            *)
NoCommandSkipped ==
    \A u \in 1 .. Len(tgSent) :
       /\ Command(u)
       /\ u <= tgConfirmed \/ \E v \in tgHandled : v > u
       => u \in tgHandled

(* As long as the bridge runs, the server does what a command says at most *)
(* once, also when polls and replies fail and polls are made again (offset *)
(* = upd.UpdateID + 1).  After a restart it may do it again.               *)
RunsOncePerLife == \A u \in TgIds : tgRuns[u] <= 1

(* A command is dealt with in the end, over failed polls and restarts.     *)
CommandIsHandled ==
    \A u \in TgIds : (Len(tgSent) >= u /\ Command(u)) ~> (u \in tgHandled)

(* Failed polls, stops and crashes skip no command, and as long as the     *)
(* bridge runs none is carried out twice.                                  *)
TelegramInv == TelegramTypeOK /\ NoCommandSkipped /\ RunsOncePerLife
=============================================================================
