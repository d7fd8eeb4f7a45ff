---------------------------- MODULE ClientParts -----------------------------
(***************************************************************************)
(* ClientDaemon and ClientProcess side by side.  The two have no state in  *)
(* common: a behaviour is one of the first or one of the second, chosen in *)
(* the initial state, and the other's variables stay as they were.         *)
(***************************************************************************)
EXTENDS ClientDaemon, ClientProcess

VARIABLE part   \* "daemon" or "process"

partsVars == <<part, vars, processVars>>

PartsInit == part \in {"daemon", "process"} /\ Init /\ ProcessInit

DaemonPart == part = "daemon" /\ Next /\ UNCHANGED <<part, processVars>>

ProcessPart == part = "process" /\ ProcessNext /\ UNCHANGED <<part, vars>>

\* The fairness of FairProcessSpec: its main task runs.
PartsSpec ==
    /\ PartsInit /\ [][DaemonPart \/ ProcessPart]_partsVars
    /\ WF_partsVars(part = "process" /\ MainTask /\ UNCHANGED <<part, vars>>)

=============================================================================
