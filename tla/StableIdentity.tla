--------------------------- MODULE StableIdentity ---------------------------
(***************************************************************************)
(* What the client's identity promises: the first session the server       *)
(* accepts settles the client's id, and every later session, after any     *)
(* crash or restart, is held under that id.                                *)
(***************************************************************************)
EXTENDS Naturals

VARIABLES
    id,       \* the client's id, 0 before the first session
    session   \* the id of the session that is open, 0 when there is none

vars == <<id, session>>

Init == id = 0 /\ session = 0

Enroll ==
    /\ id = 0
    /\ id' \in Nat \ {0}
    /\ session' = id'

Begin == id # 0 /\ session' = id /\ UNCHANGED id

End == session' = 0 /\ UNCHANGED id

Next == Enroll \/ Begin \/ End

Spec == Init /\ [][Next]_vars

=============================================================================
