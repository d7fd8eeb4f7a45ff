------------------------------ MODULE MCClient ------------------------------
(* An instance of ClientDaemon and ClientProcess for TLC. *)
EXTENDS ClientParts

=============================================================================
