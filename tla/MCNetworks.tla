----------------------------- MODULE MCNetworks -----------------------------
(* An instance of NetworkManager and Relay for TLC. *)
EXTENDS NetworkParts, TLC

\* Clients are alike, and so are network ids and handlers; the senders differ in
\* whether an iterator reads their frames.
Symmetry == Permutations(Clients) \cup Permutations(NetIds) \cup Permutations(Handlers)

=============================================================================
