---------------------------- MODULE MasterParts -----------------------------
(***************************************************************************)
(* ProxyMaster and WebSocketRelay side by side: the processes of the       *)
(* proxy, and a WebSocket one of them relays.  They have no state in       *)
(* common: a behaviour is one of the first or one of the second, chosen in *)
(* the initial state, and the other's variables stay as they were.         *)
(***************************************************************************)
EXTENDS ProxyMaster, WebSocketRelay

VARIABLE part   \* "master" or "websocket"

PartsInit == part \in {"master", "websocket"} /\ Init /\ SocketInit

MasterPart == part = "master" /\ Next /\ UNCHANGED <<part, socketVars>>

SocketPart == part = "websocket" /\ SocketNext /\ UNCHANGED <<part, vars>>

PartsSpec == PartsInit /\ [][MasterPart \/ SocketPart]_<<part, vars, socketVars>>

\* Master alone is enabled in the initial state: its fairness is that of its part.
FairPartsSpec ==
    /\ PartsSpec
    /\ WF_<<part, vars, socketVars>>(part = "master" /\ Master /\ UNCHANGED <<part, socketVars>>)
    /\ \A p \in Procs : WF_vars(HandleTerm(p))
    /\ SocketFairness

-----------------------------------------------------------------------------

\* A master that keeps running has all its workers up again and again, once
\* signals and crashes stop (_reap_workers): Heals of ProxyMaster, in its part.
MasterHeals == part = "master" => Heals

=============================================================================
