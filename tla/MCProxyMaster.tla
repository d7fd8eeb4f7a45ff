--------------------------- MODULE MCProxyMaster ----------------------------
(* Instances of ProxyMaster and WebSocketRelay for TLC. *)
EXTENDS MasterParts

\* The client sends more frames than the upstream server.
TwoAndOne == [s \in Sides |-> IF s = "client" THEN 2 ELSE 1]

=============================================================================
