-------------------------- MODULE MCMediationServer --------------------------
(* Instances of MediationServer for TLC. *)
EXTENDS MediationServer, TLC

\* Connections are alike, and so are clients and networks: safety only.
Symmetry == Permutations(Conns) \cup Permutations(Clients) \cup Permutations(Networks)

=============================================================================
