---------------------------- MODULE Notifications ----------------------------
(***************************************************************************)
(* Notification channels and their subscriptions                           *)
(* (internal/server/handler/notifications.go, store/notifications.go), and *)
(* the dispatcher that turns events into notices under a rate limit        *)
(* (internal/server/notify/dispatcher.go, ratelimit.go).                   *)
(*                                                                         *)
(* A channel's configuration is its secret (a password or a bot token),    *)
(* which the API shows as "***".  The dispatcher's handler runs on several *)
(* workers of the event bus; each takes the time before it waits for the   *)
(* lock of the limiter.                                                    *)
(***************************************************************************)
EXTENDS Integers, FiniteSets

CONSTANTS Channels, NotifAdmins, NotifUsers, Secrets, NotifTypes, NotifWorkers,
          Interval,      \* the limiter's interval
          LimiterCap,    \* entries above which Allow evicts (100)
          MaxStale,      \* bound: time between taking the time and the lock
          MaxNotifTime,  \* bound: the clock
          MaxNotifEdits, \* bound: changes of channels and subscriptions
          MaxNotices     \* bound: events

ASSUME NotificationsAssumption ==
    /\ {Interval, LimiterCap, MaxStale, MaxNotifTime, MaxNotifEdits, MaxNotices} \subseteq Nat
    /\ MaxStale < Interval

VARIABLES
    chRow,      \* notification_channels
    chSubs,     \* notification_subscriptions: <<user, channel, type>>
    chForm,     \* per admin: the form, then the request, being worked on
    chStripped, \* history: channels whose secret was removed while a form showed it
    chEdits,
    ntNow,      \* the clock
    ntSent,     \* RateLimiter.sent: key -> time, a set of <<channel, type, time>>
    ntWork,     \* per worker: the event it handles
    ntAllowed,  \* history: what the limiter let pass, with its time
    ntEvents

notifVars == <<chRow, chSubs, chForm, chStripped, chEdits, ntNow, ntSent, ntWork, ntAllowed, ntEvents>>
channelVars == <<chRow, chSubs, chForm, chStripped, chEdits>>

Sentinel  == "***"
Unset     == "unset"
Contents  == Secrets \cup {Sentinel, Unset}
NoChannel == [is |-> "none"]
NoForm    == [at |-> "none"]
IdleWork  == [at |-> "idle"]

(* Nobody's password or bot token is the mask the API shows for it.        *)
ASSUME SecretAssumption == Secrets # {} /\ Sentinel \notin Secrets

(* The types of channels; a subscription belongs to a channel that exists, *)
(* and the limiter has one time for a channel and a type.                  *)
NotificationsTypeOK ==
    /\ chRow \in [Channels -> {NoChannel} \cup [is : {"row"}, secret : Contents, enabled : BOOLEAN]]
    /\ chSubs \subseteq NotifUsers \X Channels \X NotifTypes
    /\ \A s \in chSubs : chRow[s[2]] # NoChannel
    /\ ntSent \subseteq Channels \X NotifTypes \X (0 .. MaxNotifTime)
    /\ \A x, y \in ntSent : <<x[1], x[2]>> = <<y[1], y[2]>> => x = y

(* Channels may be there from before, with all subscriptions.              *)
NotificationsInit ==
    /\ \E old \in SUBSET Channels :
          /\ \E s \in Secrets :
                chRow = [c \in Channels |-> IF c \in old THEN [is |-> "row", secret |-> s, enabled |-> TRUE] ELSE NoChannel]
          /\ chSubs = NotifUsers \X old \X NotifTypes
    /\ chForm = [a \in NotifAdmins |-> NoForm] /\ chStripped = {} /\ chEdits = 0
    /\ ntNow = 0 /\ ntSent = {} /\ ntWork = [w \in NotifWorkers |-> IdleWork] /\ ntAllowed = {} /\ ntEvents = 0

-----------------------------------------------------------------------------
(* Channels. *)

FormGoto(a, to) == chForm' = [chForm EXCEPT ![a] = to]

NotifEdit == chEdits < MaxNotifEdits /\ chEdits' = chEdits + 1

InsertChannel(c, row) == chRow' = [chRow EXCEPT ![c] = row]

(* With an id that no form and no channel has.                             *)
CreateChannel(c) ==
    /\ chRow[c] = NoChannel /\ c \notin chStripped /\ NotifEdit
    /\ \A a \in NotifAdmins : chForm[a] # NoForm => chForm[a].c # c
    /\ \E s \in Secrets \cup {Unset} : InsertChannel(c, [is |-> "row", secret |-> s, enabled |-> TRUE])
    /\ UNCHANGED <<chSubs, chForm, chStripped, ntNow, ntSent, ntWork, ntAllowed, ntEvents>>

redactConfig(secret) == IF secret = Unset THEN Unset ELSE Sentinel

(* The form is filled with what the API shows.                             *)
GetChannel(a, c) ==
    /\ chForm[a] = NoForm /\ chRow[c] # NoChannel
    /\ FormGoto(a, [at |-> "form", c |-> c, secret |-> redactConfig(chRow[c].secret)])
    /\ UNCHANGED <<chRow, chSubs, chStripped, chEdits, ntNow, ntSent, ntWork, ntAllowed, ntEvents>>

(* A sentinel is replaced by what is stored, when that has the key.        *)
mergeRedactedConfig(existing, incoming) ==
    IF incoming = Sentinel /\ existing.secret # Unset THEN existing.secret ELSE incoming

(* PUT: the stored channel is read and merged into the request ...         *)
UpdateChannel(a) ==
    /\ chForm[a].at = "form"
    /\ LET c == chForm[a].c IN
       IF chRow[c] = NoChannel
       THEN FormGoto(a, NoForm) /\ UNCHANGED chEdits
       ELSE /\ NotifEdit
            /\ \E s \in {chForm[a].secret, Unset} \cup Secrets, e \in BOOLEAN :
                  FormGoto(a, [at |-> "write", c |-> c,
                               row |-> [is |-> "row", secret |-> mergeRedactedConfig(chRow[c], s), enabled |-> e]])
    /\ UNCHANGED <<chRow, chSubs, chStripped, ntNow, ntSent, ntWork, ntAllowed, ntEvents>>

(* A form that shows c with a secret.                                      *)
ShowsSecret(a, c) == chForm[a].at = "form" /\ chForm[a].c = c /\ chForm[a].secret = Sentinel

(* ... and written.                                                        *)
StoreChannel(a) ==
    /\ chForm[a].at = "write"
    /\ LET c   == chForm[a].c
           row == chForm[a].row
       IN  IF chRow[c] = NoChannel
           THEN UNCHANGED <<chRow, chStripped>>
           ELSE /\ chRow' = [chRow EXCEPT ![c] = row]
                /\ chStripped' = IF row.secret = Unset /\ \E b \in NotifAdmins : ShowsSecret(b, c)
                                 THEN chStripped \cup {c} ELSE chStripped
    /\ FormGoto(a, NoForm)
    /\ UNCHANGED <<chSubs, chEdits, ntNow, ntSent, ntWork, ntAllowed, ntEvents>>

(* Subscriptions go with the channel (ON DELETE CASCADE).                  *)
RemoveChannel(c) ==
    /\ chRow' = [chRow EXCEPT ![c] = NoChannel]
    /\ chSubs' = {s \in chSubs : s[2] # c}

DeleteChannel(c) ==
    /\ chRow[c] # NoChannel /\ NotifEdit /\ RemoveChannel(c)
    /\ UNCHANGED <<chForm, chStripped, ntNow, ntSent, ntWork, ntAllowed, ntEvents>>

(* All subscriptions of the user are replaced in one transaction, or none  *)
(* when one names a channel that is gone.                                  *)
ReplaceSubscriptions(u, S) ==
    chSubs' = IF \E x \in S : chRow[x[1]] = NoChannel THEN chSubs
              ELSE {s \in chSubs : s[1] # u} \cup {<<u, x[1], x[2]>> : x \in S}

SetSubscriptions(u, S) ==
    /\ NotifEdit /\ ReplaceSubscriptions(u, S)
    /\ UNCHANGED <<chRow, chForm, chStripped, ntNow, ntSent, ntWork, ntAllowed, ntEvents>>

-----------------------------------------------------------------------------
(* The dispatcher. *)

WorkGoto(w, to) == ntWork' = [ntWork EXCEPT ![w] = to]

ListSubscriptionsForEvent(t) == {c \in Channels : chRow[c] # NoChannel /\ chRow[c].enabled
                                                  /\ \E u \in NotifUsers : <<u, c, t>> \in chSubs}

(* The handler takes an event and lists the channels.                      *)
Dispatch(w, t) ==
    /\ ntWork[w] = IdleWork /\ ntEvents < MaxNotices /\ ntEvents' = ntEvents + 1
    /\ ListSubscriptionsForEvent(t) # {}
    /\ WorkGoto(w, [at |-> "loop", t |-> t, todo |-> ListSubscriptionsForEvent(t)])
    /\ UNCHANGED <<channelVars, ntNow, ntSent, ntAllowed>>

(* Allow takes the time ...                                                *)
AllowStarts(w) ==
    /\ ntWork[w].at = "loop"
    /\ IF ntWork[w].todo = {} THEN WorkGoto(w, IdleWork)
       ELSE \E c \in ntWork[w].todo :
               WorkGoto(w, [at |-> "allow", t |-> ntWork[w].t, todo |-> ntWork[w].todo \ {c}, c |-> c, now |-> ntNow])
    /\ UNCHANGED <<channelVars, ntNow, ntSent, ntAllowed, ntEvents>>

(* The map after the eviction that a full one gets.                        *)
Mutant_Evicted(now) == IF Cardinality(ntSent) > LimiterCap THEN {} ELSE ntSent

Evicted(now) ==
    IF Cardinality(ntSent) > LimiterCap THEN {x \in ntSent : now - x[3] < Interval} ELSE ntSent

(* ... and then has the lock.                                              *)
Allow(w) ==
    /\ ntWork[w].at = "allow"
    /\ LET k    == ntWork[w]
           kept == Evicted(k.now)
           same == {x \in kept : x[1] = k.c /\ x[2] = k.t}
           loop == [at |-> "loop", t |-> k.t, todo |-> k.todo]
       IN  IF \E x \in same : k.now - x[3] < Interval
           THEN ntSent' = kept /\ WorkGoto(w, loop) /\ UNCHANGED ntAllowed
           ELSE /\ ntSent' = (kept \ same) \cup {<<k.c, k.t, k.now>>}
                /\ ntAllowed' = ntAllowed \cup {<<k.c, k.t, k.now, w, ntEvents>>}
                /\ WorkGoto(w, loop)
    /\ UNCHANGED <<channelVars, ntNow, ntEvents>>

NotifTick ==
    /\ ntNow < MaxNotifTime /\ ntNow' = ntNow + 1
    /\ \A w \in NotifWorkers : ntWork[w].at = "allow" => ntNow + 1 - ntWork[w].now <= MaxStale
    /\ UNCHANGED <<channelVars, ntSent, ntWork, ntAllowed, ntEvents>>

NotificationsNext ==
    \/ \E c \in Channels : CreateChannel(c) \/ DeleteChannel(c) \/ (\E a \in NotifAdmins : GetChannel(a, c))
    \/ \E a \in NotifAdmins : UpdateChannel(a) \/ StoreChannel(a)
    \/ \E u \in NotifUsers, S \in SUBSET (Channels \X NotifTypes) : SetSubscriptions(u, S)
    \/ \E w \in NotifWorkers : AllowStarts(w) \/ Allow(w) \/ (\E t \in NotifTypes : Dispatch(w, t))
    \/ NotifTick

-----------------------------------------------------------------------------
(* Properties. *)

(* The mask never replaces a channel's secret, in whatever order forms are *)
(* opened and saved, unless another admin took the secret out while the    *)
(* form was open.                                                          *)
SecretSurvives == \A c \in Channels \ chStripped : chRow[c] # NoChannel => chRow[c].secret # Sentinel

(* However the workers interleave and whatever is evicted, two notices of  *)
(* a type on a channel are at least an interval apart, less the time a     *)
(* worker waits for the lock.                                              *)
NoticesApart ==
    \A x, y \in ntAllowed :
       <<x[1], x[2]>> = <<y[1], y[2]>> /\ x # y =>
          x[3] - y[3] >= Interval - MaxStale \/ y[3] - x[3] >= Interval - MaxStale

(* Masked secrets survive the forms, and the limiter keeps notices apart.  *)
NotificationsInv == NotificationsTypeOK /\ SecretSurvives /\ NoticesApart
=============================================================================
