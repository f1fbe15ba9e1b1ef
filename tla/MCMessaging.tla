----------------------------- MODULE MCMessaging -----------------------------
(***************************************************************************)
(* What carries messages through the server, in one run: the event bus,    *)
(* the event triggers, the webhook deliverer and the injection queue.  The *)
(* variable part says which of them a behaviour is about; the others stand *)
(* still, so that the state spaces add up instead of multiplying.          *)
(***************************************************************************)
EXTENDS EventBus, InjectionQueue, Webhooks, Triggers

VARIABLE part

vars == <<part, busVars, injVars, hookVars, trigVars>>

Init == /\ part \in {"bus", "injections", "webhooks", "triggers"}
        /\ EventBusInit /\ InjectionQueueInit /\ WebhooksInit /\ TriggersInit

Next == /\ UNCHANGED part
        /\ \/ part = "bus" /\ EventBusNext /\ UNCHANGED <<injVars, hookVars, trigVars>>
           \/ part = "injections" /\ InjectionQueueNext /\ UNCHANGED <<busVars, hookVars, trigVars>>
           \/ part = "webhooks" /\ WebhooksNext /\ UNCHANGED <<busVars, injVars, trigVars>>
           \/ part = "triggers" /\ TriggersNext /\ UNCHANGED <<busVars, injVars, hookVars>>

(* In its initial state a component has nothing to be fair about, so the   *)
(* fairness of those that stand still says nothing.                        *)
Spec == /\ Init /\ [][Next]_vars
        /\ EventBusFairness /\ InjectionQueueFairness /\ WebhooksFairness /\ TriggersFairness

(* What carries messages comes to rest: calls of the bus return,           *)
(* injections are sent or given up and their drainers leave, deliveries    *)
(* succeed or fail.                                                        *)
MessagesSettle == BusCallsReturn /\ InjectionSettled /\ DrainersLeave /\ DeliverySettles
=============================================================================
