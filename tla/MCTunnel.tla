------------------------------ MODULE MCTunnel ------------------------------
(* Instances of Tunnel for TLC. *)
EXTENDS Tunnel

\* Both ends punch, one of them without a control channel; or one accepts.
PunchAndAccept ==
    {[a |-> "create", b |-> "direct"], [a |-> "create", b |-> "accept"]}

\* One end comes back after it has gone.
TwoOfOne == [a |-> 2, b |-> 1]

=============================================================================
