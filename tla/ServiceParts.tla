---------------------------- MODULE ServiceParts ----------------------------
(***************************************************************************)
(* ServiceExposure and ServiceConsumer side by side, the two ends of a     *)
(* forwarded service.  They have no state in common: a behaviour is one of *)
(* the first or one of the second, chosen in the initial state, and the    *)
(* other's variables stay as they were.                                    *)
(***************************************************************************)
EXTENDS ServiceExposure, ServiceConsumer

VARIABLE part   \* "exposure" or "consumer"

PartsInit == part \in {"exposure", "consumer"} /\ Init /\ ConsumerInit

ExposurePart == part = "exposure" /\ Next /\ UNCHANGED <<part, consumerVars>>

ConsumerPart == part = "consumer" /\ ConsumerNext /\ UNCHANGED <<part, vars>>

PartsSpec == PartsInit /\ [][ExposurePart \/ ConsumerPart]_<<part, vars, consumerVars>> /\ Fairness

=============================================================================
