---------------------------- MODULE NetworkParts ----------------------------
(***************************************************************************)
(* NetworkManager and Relay side by side.  The two have no state in        *)
(* common: a behaviour is one of the first or one of the second, chosen in *)
(* the initial state, and the other's variables stay as they were.         *)
(***************************************************************************)
EXTENDS NetworkManager, Relay

VARIABLE part   \* "networks" or "relay"

PartsInit == part \in {"networks", "relay"} /\ Init /\ RelayInit

NetworksPart == part = "networks" /\ Next /\ UNCHANGED <<part, relayVars>>

RelayPart == part = "relay" /\ RelayNext /\ UNCHANGED <<part, vars>>

PartsSpec == PartsInit /\ [][NetworksPart \/ RelayPart]_<<part, vars, relayVars>>

=============================================================================
