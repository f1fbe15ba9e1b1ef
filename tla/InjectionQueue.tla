--------------------------- MODULE InjectionQueue ---------------------------
(***************************************************************************)
(* Text that the API injects into a running session: InjectSession of      *)
(* internal/server/session/handler.go and the per-session queue with its   *)
(* drainer goroutine of session/injection_queue.go, seen for one session.  *)
(*                                                                         *)
(* A drainer leaves when the session ends, when the server stops, or when  *)
(* nothing came for a while; the next injection then makes a new queue     *)
(* with a new drainer.  Enqueue takes the queue under the lock and puts    *)
(* the item without it, so a drainer may leave in between.                 *)
(***************************************************************************)
EXTENDS Integers, Sequences, FiniteSets

CONSTANTS Injections,
          QueueCapacity,   \* defaultQueueCapacity
          MaxQueues        \* bound: queues made for the session

ASSUME InjectionAssumption == QueueCapacity \in Nat \ {0} /\ MaxQueues \in Nat \ {0}

VARIABLES
    injEnded,    \* sessions.status is terminal
    injNotice,   \* a session.exited or session.terminated event is under way
    injAt,       \* per injection: where its request is
    injQueue,    \* per injection: the queue getOrCreateQueue returned
    injAudit,    \* injections table: "none", "open", "delivered" or "failed"
    queueOf,     \* queues[sessionID], 0 for none
    queues,      \* the queues made so far: items, done
    drainer,     \* per queue: where its drainer is
    injAccepted, \* history: items in the order they were put
    injSent,     \* InputDataCmds sent to the agent, in order
    injLost,     \* items dropped with a log line
    injRaced,    \* history: items put after the drainer had looked for the last time
    injClose     \* where Close is

injVars == <<injEnded, injNotice, injAt, injQueue, injAudit, queueOf, queues, drainer,
             injAccepted, injSent, injLost, injRaced, injClose>>

QueueIds   == 1 .. MaxQueues
Made       == DOMAIN queues
Active     == {q \in Made : drainer[q].at # "gone"}
NewDrainer == [at |-> "select"]
Items(s)   == {s[k] : k \in 1 .. Len(s)}

(* The types of injections, queues and drainers; no queue holds more than  *)
(* its capacity.                                                           *)
InjectionQueueTypeOK ==
    /\ injEnded \in BOOLEAN /\ injNotice \in BOOLEAN
    /\ injAt \in [Injections -> {"new", "read", "row", "get", "put", "accepted", "refused"}]
    /\ injAudit \in [Injections -> {"none", "open", "delivered", "failed"}]
    /\ Made = 1 .. Len(queues) /\ Len(queues) = Len(drainer) /\ Len(queues) <= MaxQueues
    /\ queueOf \in {0} \cup Made
    /\ injQueue \in [Injections -> {0} \cup Made]
    /\ \A q \in Made : /\ Items(queues[q].items) \subseteq Injections
                       /\ Len(queues[q].items) <= QueueCapacity /\ queues[q].done \in BOOLEAN
    /\ Items(injAccepted) \cup Items(injSent) \cup injLost \cup injRaced \subseteq Injections

InjectionQueueInit ==
    /\ injEnded = FALSE /\ injNotice = FALSE
    /\ injAt = [i \in Injections |-> "new"] /\ injQueue = [i \in Injections |-> 0]
    /\ injAudit = [i \in Injections |-> "none"]
    /\ queueOf = 0 /\ queues = <<>> /\ drainer = <<>>
    /\ injAccepted = <<>> /\ injSent = <<>> /\ injLost = {} /\ injRaced = {}
    /\ injClose = [at |-> "no"]

-----------------------------------------------------------------------------
(* The request. *)

InjGoto(i, from, to) == injAt[i] = from /\ injAt' = [injAt EXCEPT ![i] = to]

queueVars == <<queueOf, queues, drainer, injAccepted, injSent, injLost, injRaced, injClose>>

(* InjectSession reads a running session ...                               *)
InjectSession(i) ==
    /\ InjGoto(i, "new", IF injEnded THEN "refused" ELSE "read")
    /\ UNCHANGED <<injEnded, injNotice, injQueue, injAudit, queueVars>>

(* ... and writes the audit row before it queues.                          *)
CreateInjection(i) ==
    /\ InjGoto(i, "read", "row")
    /\ injAudit' = [injAudit EXCEPT ![i] = "open"]
    /\ UNCHANGED <<injEnded, injNotice, injQueue, queueVars>>

(* Enqueue reads the status once more; refused rows stay open.             *)
EnqueueCheck(i) ==
    /\ InjGoto(i, "row", IF injEnded THEN "refused" ELSE "get")
    /\ UNCHANGED <<injEnded, injNotice, injQueue, injAudit, queueVars>>

(* The queue of the map, or a new one with a drainer.                      *)
getOrCreateQueue(i) ==
    /\ InjGoto(i, "get", "put")
    /\ IF queueOf # 0
       THEN /\ injQueue' = [injQueue EXCEPT ![i] = queueOf]
            /\ UNCHANGED <<queueOf, queues, drainer>>
       ELSE /\ Len(queues) < MaxQueues
            /\ queueOf' = Len(queues) + 1
            /\ injQueue' = [injQueue EXCEPT ![i] = queueOf']
            /\ queues' = Append(queues, [items |-> <<>>, done |-> FALSE])
            /\ drainer' = Append(drainer, NewDrainer)
    /\ UNCHANGED <<injEnded, injNotice, injAudit, injAccepted, injSent, injLost, injRaced, injClose>>

(* The item is put, or the queue is full.                                  *)
Enqueue(i) ==
    LET q == injQueue[i] IN
    /\ injAt[i] = "put"
    /\ IF Len(queues[q].items) < QueueCapacity
       THEN /\ InjGoto(i, "put", "accepted")
            /\ queues' = [queues EXCEPT ![q].items = Append(@, i)]
            /\ injAccepted' = Append(injAccepted, i)
            /\ injRaced' = IF drainer[q].at \in {"leaving", "gone"} THEN injRaced \cup {i} ELSE injRaced
       ELSE /\ InjGoto(i, "put", "refused")
            /\ UNCHANGED <<queues, injAccepted, injRaced>>
    /\ UNCHANGED <<injEnded, injNotice, injQueue, injAudit, queueOf, drainer, injSent, injLost, injClose>>

-----------------------------------------------------------------------------
(* The drainer. *)

requestVars == <<injEnded, injNotice, injAt, injQueue, injAccepted, injRaced, injClose>>

DrainGoto(q, from, to) == drainer[q].at = from /\ drainer' = [drainer EXCEPT ![q] = to]
Holding(q, at)  == [at |-> at, item |-> drainer[q].item]
Select          == [at |-> "select"]
SetAudit(i, to) == injAudit' = [injAudit EXCEPT ![i] = IF @ = "none" THEN "none" ELSE to]

(* An item arrives: at the select, or when the idle timer has fired.       *)
TakeItem(q) ==
    /\ drainer[q].at \in {"select", "recheck"} /\ queues[q].items # <<>>
    /\ drainer' = [drainer EXCEPT ![q] = [at |-> "process", item |-> Head(queues[q].items)]]
    /\ queues' = [queues EXCEPT ![q].items = Tail(@)]
    /\ UNCHANGED <<requestVars, injAudit, queueOf, injSent, injLost>>

(* processItem: a stale item and a failed reading drop the item, ...       *)
ProcessDrops(q) ==
    /\ DrainGoto(q, "process", Select)
    /\ injLost' = injLost \cup {drainer[q].item}
    /\ UNCHANGED <<requestVars, injAudit, queueOf, queues, injSent>>

(* ... an ended session fails it, else its delay begins.                   *)
ProcessItem(q) ==
    /\ IF injEnded
       THEN DrainGoto(q, "process", Select) /\ SetAudit(drainer[q].item, "failed")
       ELSE DrainGoto(q, "process", Holding(q, "delay")) /\ UNCHANGED injAudit
    /\ UNCHANGED <<requestVars, queueOf, queues, injSent, injLost>>

(* The queue is shut down during the delay.                                *)
DelayShutDown(q) ==
    /\ queues[q].done
    /\ DrainGoto(q, "delay", Select)
    /\ SetAudit(drainer[q].item, "failed")
    /\ UNCHANGED <<requestVars, queueOf, queues, injSent, injLost>>

DelayElapses(q) ==
    /\ DrainGoto(q, "delay", Holding(q, "send"))
    /\ UNCHANGED <<requestVars, injAudit, queueOf, queues, injSent, injLost>>

(* The agent is gone or its command channel is full: the item is dropped.  *)
SendFails(q) ==
    /\ DrainGoto(q, "send", Select)
    /\ injLost' = injLost \cup {drainer[q].item}
    /\ UNCHANGED <<requestVars, injAudit, queueOf, queues, injSent>>

SendInput(q) ==
    /\ DrainGoto(q, "send", Holding(q, "sent"))
    /\ injSent' = Append(injSent, drainer[q].item)
    /\ UNCHANGED <<requestVars, injAudit, queueOf, queues, injLost>>

UpdateInjectionDelivered(q) ==
    /\ DrainGoto(q, "sent", Select)
    /\ SetAudit(drainer[q].item, "delivered")
    /\ UNCHANGED <<requestVars, queueOf, queues, injSent, injLost>>

(* The idle timer fires; it looks once more before it leaves.              *)
IdleTimer(q) ==
    /\ DrainGoto(q, "select", [at |-> "recheck"])
    /\ UNCHANGED <<requestVars, injAudit, queueOf, queues, injSent, injLost>>

TrulyIdle(q) ==
    /\ queues[q].items = <<>>
    /\ DrainGoto(q, "recheck", [at |-> "leaving"])
    /\ UNCHANGED <<requestVars, injAudit, queueOf, queues, injSent, injLost>>

(* done is closed: drainRemaining fails what is buffered.                  *)
SeeDone(q) ==
    /\ queues[q].done
    /\ DrainGoto(q, "select", [at |-> "remaining"])
    /\ UNCHANGED <<requestVars, injAudit, queueOf, queues, injSent, injLost>>

drainRemaining(q) ==
    /\ drainer[q].at = "remaining"
    /\ IF queues[q].items = <<>>
       THEN DrainGoto(q, "remaining", [at |-> "leaving"]) /\ UNCHANGED <<queues, injAudit>>
       ELSE /\ SetAudit(Head(queues[q].items), "failed")
            /\ queues' = [queues EXCEPT ![q].items = Tail(@)]
            /\ UNCHANGED drainer
    /\ UNCHANGED <<requestVars, queueOf, injSent, injLost>>

removeQueue(q) ==
    /\ DrainGoto(q, "leaving", [at |-> "gone"])
    /\ queueOf' = 0
    /\ UNCHANGED <<requestVars, injAudit, queues, injSent, injLost>>

DrainSession(q) ==
    \/ TakeItem(q) \/ ProcessDrops(q) \/ ProcessItem(q) \/ DelayShutDown(q) \/ DelayElapses(q)
    \/ SendFails(q) \/ SendInput(q) \/ UpdateInjectionDelivered(q)
    \/ TrulyIdle(q) \/ SeeDone(q) \/ drainRemaining(q) \/ removeQueue(q)

-----------------------------------------------------------------------------
(* The end of the session, and of the server. *)

SessionEnds ==
    /\ ~injEnded /\ injEnded' = TRUE /\ injNotice' = TRUE
    /\ UNCHANGED <<injAt, injQueue, injAudit, queueVars>>

(* The bus drops the event when the subscriber's buffer is full.           *)
NoticeDropped ==
    /\ injNotice /\ injNotice' = FALSE
    /\ UNCHANGED <<injEnded, injAt, injQueue, injAudit, queueVars>>

Mutant_handleSessionEvent ==
    /\ injClose.at = "no" /\ injNotice /\ injNotice' = FALSE
    /\ queues' = [q \in Made |-> IF q = queueOf THEN [queues[q] EXCEPT !.done = TRUE] ELSE queues[q]]
    /\ queueOf' = 0
    /\ UNCHANGED <<injEnded, injAt, injQueue, injAudit, drainer, injAccepted, injSent, injLost, injRaced, injClose>>

handleSessionEvent ==
    /\ injClose.at = "no" /\ injNotice /\ injNotice' = FALSE
    /\ queues' = [q \in Made |-> IF q = queueOf THEN [queues[q] EXCEPT !.done = TRUE] ELSE queues[q]]
    /\ UNCHANGED <<injEnded, injAt, injQueue, injAudit, queueOf, drainer, injAccepted, injSent, injLost, injRaced, injClose>>

(* Close unsubscribes, takes the queue from the map, shuts it down and     *)
(* waits.                                                                  *)
CloseTakes ==
    /\ injClose.at = "no"
    /\ injClose' = [at |-> "shut", queue |-> queueOf]
    /\ UNCHANGED <<injEnded, injNotice, injAt, injQueue, injAudit, queueOf, queues, drainer, injAccepted, injSent, injLost, injRaced>>

CloseShuts ==
    /\ injClose.at = "shut" /\ injClose' = [at |-> "wait"]
    /\ queues' = [q \in Made |-> IF q = injClose.queue THEN [queues[q] EXCEPT !.done = TRUE] ELSE queues[q]]
    /\ UNCHANGED <<injEnded, injNotice, injAt, injQueue, injAudit, queueOf, drainer, injAccepted, injSent, injLost, injRaced>>

QueueClosed ==
    /\ injClose.at = "wait" /\ Active = {}
    /\ injClose' = [at |-> "done"]
    /\ UNCHANGED <<injEnded, injNotice, injAt, injQueue, injAudit, queueOf, queues, drainer, injAccepted, injSent, injLost, injRaced>>

InjectionQueueNext ==
    \/ \E i \in Injections : InjectSession(i) \/ CreateInjection(i) \/ EnqueueCheck(i) \/ getOrCreateQueue(i) \/ Enqueue(i)
    \/ \E q \in Made : DrainSession(q) \/ IdleTimer(q)
    \/ SessionEnds \/ NoticeDropped \/ handleSessionEvent
    \/ CloseTakes \/ CloseShuts \/ QueueClosed

(* The drainers go on, and an idle timer fires in the end.                 *)
InjectionQueueFairness ==
    /\ \A q \in QueueIds : WF_injVars(q \in Made /\ DrainSession(q)) /\ WF_injVars(q \in Made /\ IdleTimer(q))
    /\ WF_injVars(CloseShuts) /\ WF_injVars(QueueClosed)

-----------------------------------------------------------------------------
(* Properties. *)

(* The session never has two drainers, so that two injections are never    *)
(* typed at the same time, although queues come and go.                    *)
OneDrainer == Cardinality(Active) <= 1

(* Injections reach the agent at most once and in the order in which they  *)
(* were accepted.                                                          *)
SentInOrder ==
    \A k, l \in 1 .. Len(injSent) : k < l =>
       \E a, b \in 1 .. Len(injAccepted) :
          a < b /\ injAccepted[a] = injSent[k] /\ injAccepted[b] = injSent[l]

(* The audit row tells the truth: "failed" and never sent, or "delivered"  *)
(* and sent; and whatever is accepted has a row, so that the drainer's     *)
(* update does not miss it.                                                *)
AuditTells ==
    \A i \in Injections :
       /\ injAudit[i] = "failed" => i \notin Items(injSent)
       /\ injAudit[i] = "delivered" => i \in Items(injSent)
       /\ i \in Items(injAccepted) => injAudit[i] # "none"

(* An accepted injection is sent, failed in its row, or dropped with a log *)
(* line, unless it was put after the drainer had looked for the last time. *)
InjectionSettled ==
    \A i \in Injections :
       (injAt[i] = "accepted") ~> (i \in Items(injSent) \cup injLost \cup injRaced \/ injAudit[i] = "failed")

(* Once the server closes the queue, or the session has ended and its      *)
(* requests are answered, no drainer is left, even if the event was        *)
(* dropped.                                                                *)
DrainersLeave ==
    (injEnded \/ injClose.at # "no")
       ~> (\/ Active = {}
           \/ ~injEnded /\ \E i \in Injections : injAt[i] \in {"new", "read", "row", "get"})

(* Injections while drainers come and go: one drainer types, once and in   *)
(* order, and the audit rows tell the truth.                               *)
InjectionQueueInv == InjectionQueueTypeOK /\ OneDrainer /\ SentInOrder /\ AuditTells
=============================================================================
