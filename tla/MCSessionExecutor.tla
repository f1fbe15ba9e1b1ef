------------------------- MODULE MCSessionExecutor -------------------------
(***************************************************************************)
(* Two steps that share a session, and for liveness also one with a        *)
(* session of its own.                                                     *)
(***************************************************************************)
EXTENDS SessionExecutor

CONSTANTS a, b, c

(* The step with its own session runs without the two others, and the two  *)
(* others run while the stream stays up: no property relates them.  The    *)
(* steps this leaves out, launching a step and losing the stream, are ones *)
(* that no fairness asks for.                                              *)
Apart == \/ phase[a] = "idle" /\ phase[b] = "idle"
         \/ phase[c] = "idle" /\ connected

(* Only for the step with its own session does a deadline have to pass.    *)
LiveSpec == FairSpec /\ WF_vars(Monitoring(c))
=============================================================================
