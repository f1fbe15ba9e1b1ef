----------------------------- MODULE MCSessions -----------------------------
EXTENDS Sessions

Spec == SessionsInit /\ [][SessionsNext]_sessionVars /\ SessionsFairness

(* Every property speaks of behaviours in which nothing was lost; a step   *)
(* that loses something is taken and not followed any further.             *)
Undisturbed == ~lost
=============================================================================
