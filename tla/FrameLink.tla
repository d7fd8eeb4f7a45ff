------------------------------ MODULE FrameLink ------------------------------
(***************************************************************************)
(* What the relay promises of the frames it is given: each is delivered on *)
(* at most one connection and at most once, the frames of one sender reach *)
(* a connection in the order they were sent, and any of them may be lost.  *)
(***************************************************************************)
EXTENDS Naturals, Sequences

CONSTANTS Clients, Handlers

VARIABLES
    sent,      \* per client: the number of frames it has sent
    transit,   \* the frames that may still be delivered
    out        \* per connection: the frames delivered on it

vars == <<sent, transit, out>>

Init ==
    /\ sent = [i \in Clients |-> 0]
    /\ transit = {}
    /\ out = [h \in Handlers |-> <<>>]

Send(i) ==
    /\ sent' = [sent EXCEPT ![i] = @ + 1]
    /\ transit' \in {transit, transit \cup {[src |-> i, num |-> sent[i] + 1]}}
    /\ UNCHANGED out

Deliver(h, f) ==
    /\ \A k \in DOMAIN out[h] : out[h][k].src = f.src => out[h][k].num < f.num
    /\ transit' = transit \ {f}
    /\ out' = [out EXCEPT ![h] = Append(@, f)]
    /\ UNCHANGED sent

Lose == transit' \subseteq transit /\ UNCHANGED <<sent, out>>

Next ==
    \/ \E i \in Clients : Send(i)
    \/ \E h \in Handlers, f \in transit : Deliver(h, f)
    \/ Lose

Spec == Init /\ [][Next]_vars

=============================================================================
