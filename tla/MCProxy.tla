------------------------------ MODULE MCProxy -------------------------------
(* An instance of the parts of a proxy worker for TLC. *)
EXTENDS ProxyParts, TLC

CONSTANTS s1, s2, c1, c2   \* servers and connections

Two == <<s1, s2>>
Weights == (s1 :> 2) @@ (s2 :> 1)
TwoAndOne == (c1 :> 2) @@ (c2 :> 1)
Hashes == (c1 :> 1) @@ (c2 :> 2)

Plain(kind) == [kind |-> kind, keepalive |-> FALSE, body |-> FALSE]
Kept(kind) == [kind |-> kind, keepalive |-> TRUE, body |-> FALSE]
Posted(kind) == [kind |-> kind, keepalive |-> TRUE, body |-> TRUE]
Mixed ==
    {Posted("http"), Kept("http"), Kept("static"), Plain("unrouted"), Kept("unserved"),
     Plain("websocket"), Plain("keyless")}

=============================================================================
