------------------------------ MODULE Webhooks ------------------------------
(***************************************************************************)
(* Outgoing webhooks: the tables webhooks and webhook_deliveries with      *)
(* their handlers (internal/server/handler/webhooks.go, store/webhooks.go) *)
(* and the deliverer (event/webhook_delivery.go), whose bus handler posts  *)
(* every event once while a retry loop posts whatever is still pending and *)
(* due.                                                                    *)
(*                                                                         *)
(* Each attempt works on a copy of the row, posts, and writes the copy     *)
(* back.  A row is due from its insertion, so the retry loop may post a    *)
(* delivery whose first attempt is still under way.                        *)
(***************************************************************************)
EXTENDS Integers, FiniteSets

CONSTANTS HookEvents,        \* events, each published once
          MaxAttempts,       \* maxDeliveryAttempts
          MaxHookEdits       \* bound: requests on the webhook

ASSUME WebhooksAssumption == MaxAttempts \in Nat \ {0} /\ MaxHookEdits \in Nat

VARIABLES
    hook,       \* the webhook: "none", "on", "off" or "deleted"
    hookEdits,  \* requests so far
    hookEvent,  \* per event: "new", "stored" (in events), "purged"
    delivery,   \* per event: its row, or that there is none
    first,      \* per event: the first attempt, a goroutine of the bus handler
    sweep,      \* the retry loop: what it has left to visit, and its attempt
    posts,      \* per event: requests sent to the endpoint
    overlapped  \* history: listed by the loop during the first attempt

hookVars == <<hook, hookEdits, hookEvent, delivery, first, sweep, posts, overlapped>>

NoRow(is)     == [is |-> is]
DeliveryRow   == [is : {"row"}, status : {"pending", "success", "failed"}, attempts : 0 .. MaxAttempts, due : BOOLEAN]
IsRow(e)      == delivery[e].is = "row"
NoAttempt     == [at |-> "none"]
IdleSweep     == [at |-> "idle"]

(* The types of webhook, events and deliveries; a row never counts more    *)
(* than MaxAttempts attempts.                                              *)
WebhooksTypeOK ==
    /\ hook \in {"none", "on", "off", "deleted"} /\ hookEdits \in 0 .. MaxHookEdits
    /\ hookEvent \in [HookEvents -> {"new", "stored", "purged"}]
    /\ delivery \in [HookEvents -> DeliveryRow \cup {NoRow("none"), NoRow("deleted")}]
    /\ posts \in [HookEvents -> Nat]

WebhooksInit ==
    /\ hook = "none" /\ hookEdits = 0
    /\ hookEvent = [e \in HookEvents |-> "new"]
    /\ delivery = [e \in HookEvents |-> NoRow("none")]
    /\ first = [e \in HookEvents |-> NoAttempt]
    /\ sweep = IdleSweep /\ posts = [e \in HookEvents |-> 0] /\ overlapped = {}

-----------------------------------------------------------------------------
(* The table of webhooks. *)

EditHook(row) ==
    /\ hookEdits < MaxHookEdits /\ hookEdits' = hookEdits + 1
    /\ hook' = row
    /\ UNCHANGED <<hookEvent, first, sweep, posts, overlapped>>

(* The store's statements.                                                 *)
InsertWebhook(to) == hook = "none" /\ EditHook(to) /\ UNCHANGED delivery
StoreWebhook(to)  == hook \in {"on", "off"} /\ EditHook(to) /\ UNCHANGED delivery

(* The handlers: every field may change, of which only enabled matters.    *)
CreateWebhook == \E to \in {"on", "off"} : InsertWebhook(to)
UpdateWebhook == \E to \in {"on", "off"} : StoreWebhook(to)

(* Rows go with what they refer to (ON DELETE CASCADE).                    *)
Cascade(E) == delivery' = [e \in HookEvents |-> IF e \in E /\ IsRow(e) THEN NoRow("deleted") ELSE delivery[e]]

RemoveWebhook == hook \in {"on", "off"} /\ EditHook("deleted") /\ Cascade(HookEvents)
DeleteWebhook == RemoveWebhook

(* The retention cleaner deletes an old event.                             *)
PurgeEvent(e) ==
    /\ hookEvent[e] = "stored" /\ hookEvent' = [hookEvent EXCEPT ![e] = "purged"]
    /\ Cascade({e})
    /\ UNCHANGED <<hook, hookEdits, first, sweep, posts, overlapped>>

-----------------------------------------------------------------------------
(* Attempts. *)

(* UpdateDelivery of a row that is gone is an error, logged.               *)
UpdateDelivery(e, row) == delivery' = IF IsRow(e) THEN [delivery EXCEPT ![e] = row] ELSE delivery

(* What deliver and recordFailure make of their copy: delivered, refused   *)
(* by the endpoint (stays pending, even at the last attempt), or no answer.*)
Outcome(row, answer) ==
    LET tried == [row EXCEPT !.attempts = @ + 1, !.due = FALSE] IN
    CASE answer = "2xx"     -> [tried EXCEPT !.status = "success"]
      [] answer = "refused" -> [tried EXCEPT !.status = "pending"]
      [] answer = "error"   -> [tried EXCEPT !.status = IF tried.attempts >= MaxAttempts THEN "failed" ELSE "pending"]

(* An attempt on the copy row is answered.                                 *)
Answered(e, row) == \E answer \in {"2xx", "refused", "error"} : UpdateDelivery(e, Outcome(row, answer))

Post(e) == posts' = [posts EXCEPT ![e] = @ + 1]

(* The row of a new delivery, due at once.                                 *)
CreateDelivery == [is |-> "row", status |-> "pending", attempts |-> 0, due |-> TRUE]

(* Handler: the event, which Publish has stored, meets an enabled webhook. *)
(* The row is inserted, unless the event is gone (foreign key), and the    *)
(* goroutine of the first attempt begins.                                  *)
HandleEvent(e) ==
    /\ hookEvent[e] = "new" /\ hookEvent' = [hookEvent EXCEPT ![e] = "stored"]
    /\ IF hook = "on"
       THEN /\ delivery' = [delivery EXCEPT ![e] = CreateDelivery]
            /\ first' = [first EXCEPT ![e] = [at |-> "start", row |-> delivery'[e]]]
       ELSE UNCHANGED <<delivery, first>>
    /\ UNCHANGED <<hook, hookEdits, sweep, posts, overlapped>>

FirstPosts(e) ==
    /\ first[e].at = "start"
    /\ first' = [first EXCEPT ![e].at = "posting"]
    /\ Post(e)
    /\ UNCHANGED <<hook, hookEdits, hookEvent, delivery, sweep, overlapped>>

FirstAnswered(e) ==
    /\ first[e].at = "posting"
    /\ Answered(e, first[e].row)
    /\ first' = [first EXCEPT ![e] = NoAttempt]
    /\ UNCHANGED <<hook, hookEdits, hookEvent, sweep, posts, overlapped>>

-----------------------------------------------------------------------------
(* The retry loop. *)

(* The time of the next retry comes.                                       *)
BecomesDue(e) ==
    /\ IsRow(e) /\ delivery[e].status = "pending" /\ ~delivery[e].due
    /\ delivery' = [delivery EXCEPT ![e].due = TRUE]
    /\ UNCHANGED <<hook, hookEdits, hookEvent, first, sweep, posts, overlapped>>

Mutant_PendingDeliveries == {e \in HookEvents : IsRow(e) /\ delivery[e].status # "failed"}

PendingDeliveries == {e \in HookEvents : IsRow(e) /\ delivery[e].status = "pending" /\ delivery[e].due}

(* retryPending reads the rows and the webhooks.                           *)
SweepLists ==
    /\ sweep = IdleSweep /\ PendingDeliveries # {}
    /\ sweep' = [at |-> "visit", rows |-> [e \in PendingDeliveries |-> delivery[e]],
                 known |-> hook \in {"on", "off"}]
    /\ overlapped' = overlapped \cup {e \in PendingDeliveries : first[e] # NoAttempt}
    /\ UNCHANGED <<hook, hookEdits, hookEvent, delivery, first, posts>>

SweepRest(e) ==
    IF DOMAIN sweep.rows = {e} THEN IdleSweep
    ELSE [at |-> "visit", rows |-> [f \in DOMAIN sweep.rows \ {e} |-> sweep.rows[f]], known |-> sweep.known]

(* A row that used up its attempts is marked failed.                       *)
SweepGivesUp(e) ==
    /\ sweep.at = "visit" /\ e \in DOMAIN sweep.rows /\ sweep.rows[e].attempts >= MaxAttempts
    /\ UpdateDelivery(e, [sweep.rows[e] EXCEPT !.status = "failed"])
    /\ sweep' = SweepRest(e)
    /\ UNCHANGED <<hook, hookEdits, hookEvent, first, posts, overlapped>>

(* A deleted webhook or event: nothing to post.                            *)
SweepSkips(e) ==
    /\ sweep.at = "visit" /\ e \in DOMAIN sweep.rows /\ sweep.rows[e].attempts < MaxAttempts
    /\ ~sweep.known \/ hookEvent[e] = "purged"
    /\ sweep' = SweepRest(e)
    /\ UNCHANGED <<hook, hookEdits, hookEvent, delivery, first, posts, overlapped>>

SweepPosts(e) ==
    /\ sweep.at = "visit" /\ e \in DOMAIN sweep.rows /\ sweep.rows[e].attempts < MaxAttempts
    /\ sweep.known /\ hookEvent[e] # "purged"
    /\ sweep' = [at |-> "posting", rows |-> sweep.rows, known |-> sweep.known, event |-> e]
    /\ Post(e)
    /\ UNCHANGED <<hook, hookEdits, hookEvent, delivery, first, overlapped>>

SweepAnswered ==
    /\ sweep.at = "posting"
    /\ Answered(sweep.event, sweep.rows[sweep.event])
    /\ sweep' = SweepRest(sweep.event)
    /\ UNCHANGED <<hook, hookEdits, hookEvent, first, posts, overlapped>>

Sweep == SweepLists \/ SweepAnswered \/ \E e \in HookEvents : SweepGivesUp(e) \/ SweepSkips(e) \/ SweepPosts(e)

WebhooksNext ==
    \/ CreateWebhook \/ UpdateWebhook \/ DeleteWebhook
    \/ \E e \in HookEvents : PurgeEvent(e) \/ HandleEvent(e) \/ FirstPosts(e) \/ FirstAnswered(e) \/ BecomesDue(e)
    \/ Sweep

(* Time passes, requests time out after ten seconds, the loop ticks.       *)
WebhooksFairness ==
    /\ \A e \in HookEvents : WF_hookVars(FirstPosts(e)) /\ WF_hookVars(FirstAnswered(e)) /\ WF_hookVars(BecomesDue(e))
    /\ WF_hookVars(Sweep)

-----------------------------------------------------------------------------
(* Properties. *)

(* A delivery whose attempts did not overlap and which is recorded as      *)
(* successful stays so: no retry posts it again or takes it back.          *)
SuccessIsFinal ==
    \A e \in HookEvents :
       IsRow(e) /\ delivery[e].status = "success" /\ e \notin overlapped
       => posts'[e] = posts[e] /\ (delivery'[e] = delivery[e] \/ delivery'[e].is # "row")

(* However the first attempt and the retry loop overwrite each other's     *)
(* count, an endpoint is asked at most twice the maximum of attempts, and  *)
(* not more than the maximum when they do not overlap.                     *)
PostsBounded ==
    \A e \in HookEvents : posts[e] <= IF e \in overlapped THEN 2 * MaxAttempts ELSE MaxAttempts

(* Every delivery comes to an end: a row that is still there is in the end *)
(* successful or failed, for good.                                         *)
DeliverySettles ==
    \A e \in HookEvents : <>[](IsRow(e) => delivery[e].status \in {"success", "failed"})

(* Deliveries while the first attempt and the retry loop write the same    *)
(* row: attempts are bounded, and a success is not posted again.           *)
WebhooksSafe ==
    /\ [](WebhooksTypeOK /\ PostsBounded)
    /\ [][SuccessIsFinal]_hookVars
=============================================================================
