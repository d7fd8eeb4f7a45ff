-------------------------- MODULE MCServerAnnounce --------------------------
(***************************************************************************)
(* An instance of MediationServer for TLC with a liveness property.  In a  *)
(* behaviour the clients either ask for relays or leave networks, besides  *)
(* creating and joining them: a path is not affected by leave_network.     *)
(***************************************************************************)
EXTENDS MediationServer

CONSTANT LeaveRequests   \* the requests of the behaviours without relays

VARIABLE mix             \* "relay" or "leave"

Leaving == INSTANCE MediationServer WITH Requests <- LeaveRequests

MCInit == mix \in {"relay", "leave"} /\ Init

RelayNext == mix = "relay" /\ Next /\ UNCHANGED mix

LeaveNext == mix = "leave" /\ Leaving!Next /\ UNCHANGED mix

MCSpec ==
    /\ MCInit
    /\ [][RelayNext \/ LeaveNext]_<<mix, vars>>
    /\ Fairness

=============================================================================
