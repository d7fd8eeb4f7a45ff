----------------------------- MODULE MCServices -----------------------------
(* An instance of ServiceExposure and ServiceConsumer for TLC. *)
EXTENDS ServiceParts

=============================================================================
