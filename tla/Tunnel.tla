------------------------------- MODULE Tunnel -------------------------------
(***************************************************************************)
(* One tunnel between two clients, at both ends: the punch exchange of     *)
(* client/nat_traversal.py, the frames, states and ciphers of              *)
(* client/tunnel_manager.py and the ticks of client/keepalive.py.          *)
(*                                                                         *)
(* Datagrams are lost, duplicated and reordered.  The endpoints a punch is *)
(* sent to are taken to lead to the socket the peer has at the time.  A    *)
(* NAT may give a socket another outer address; what is sent to the old    *)
(* one is lost.  Sequence numbers are carried in the frames and compared   *)
(* by nobody; they are left out.                                           *)
(***************************************************************************)
EXTENDS Naturals, FiniteSets

CONSTANTS
    NoAddr,       \* Python's None
    Modes,        \* how the ends may start: functions from Ends to ModeNames
    MaxTunnels,   \* bound, per end: the tunnels it makes
    MaxRebinds,   \* bound: changes of NAT mappings in use
    MaxDups,      \* bound: datagrams received again
    MaxFlight,    \* bound: datagrams on their way; the network drops what is more
    StaleTicks    \* ticks without a frame a tunnel survives

Ends == {"a", "b"}
Other(e) == IF e = "a" THEN "b" ELSE "a"

\* create_tunnel with the control channel, create_tunnel without it, accept_tunnel.
ModeNames == {"create", "direct", "accept"}

ASSUME TunnelAssumption ==
    /\ Modes \subseteq [Ends -> ModeNames]
    /\ MaxTunnels \in [Ends -> Nat] /\ MaxRebinds \in Nat /\ MaxDups \in Nat /\ MaxFlight \in Nat
    /\ StaleTicks \in Nat

VARIABLES
    mode,     \* per end: how it makes its tunnels
    gen,      \* per end: the tunnels made; each has its own socket and ECDH key
    nat,      \* per end: the changes of the NAT mapping of its current socket
    state,    \* per end: PeerTunnel.state, "none" while _tunnels has no entry
    busy,     \* per end: punch_peer or accept_punch is running
    cipher,   \* per end: the two keys the session key was derived from; {} without a cipher
    remote,   \* per end: remote_addr
    relay,    \* per end: fallback_relay
    age,      \* per end: keepalive ticks since last_rx
    net,      \* the datagrams on their way
    dups      \* datagrams received again so far

tunnel == <<state, busy, cipher, remote, relay, age>>
world == <<mode, gen, nat>>
tunnelVars == <<world, tunnel, net, dups>>

Keys == UNION {{e} \X (1 .. MaxTunnels[e]) : e \in Ends}
Addrs == {<<k[1], k[2], m>> : k \in Keys, m \in 0 .. MaxRebinds}
Key(e) == <<e, gen[e]>>
Addr(e) == <<e, gen[e], nat[e]>>

TunnelInit ==
    /\ mode \in Modes
    /\ gen = [e \in Ends |-> 0]
    /\ nat = [e \in Ends |-> 0]
    /\ state = [e \in Ends |-> "none"]
    /\ busy = [e \in Ends |-> FALSE]
    /\ cipher = [e \in Ends |-> {}]
    /\ remote = [e \in Ends |-> NoAddr]
    /\ relay = [e \in Ends |-> FALSE]
    /\ age = [e \in Ends |-> 0]
    /\ net = {}
    /\ dups = 0

\* `load` is the key in a PUNCH, or the cipher of a DATA frame.
Datagram(kind, from, to, load) == [kind |-> kind, from |-> from, to |-> to, load |-> load]

Carried(flying, sent) ==
    IF Cardinality(flying \cup sent) <= MaxFlight THEN flying \cup sent ELSE flying

\* The PUNCH frame of end e for the socket of its peer, if that has one.
Punches(e) ==
    IF state[Other(e)] = "none" THEN {}
    ELSE {Datagram("PUNCH", Addr(e), Addr(Other(e)), {Key(e)})}

-----------------------------------------------------------------------------
(* Making a tunnel                                                          *)

\* create_tunnel or accept_tunnel: the daemon calls it when there is no entry.
Make(e) ==
    /\ state[e] = "none" /\ gen[e] < MaxTunnels[e]
    /\ gen' = [gen EXCEPT ![e] = @ + 1]
    /\ nat' = [nat EXCEPT ![e] = 0]
    /\ state' = [state EXCEPT ![e] = "PUNCHING"]
    /\ busy' = [busy EXCEPT ![e] = TRUE]
    /\ cipher' = [cipher EXCEPT ![e] = {}]
    /\ remote' = [remote EXCEPT ![e] = NoAddr]
    /\ relay' = [relay EXCEPT ![e] = FALSE]
    /\ age' = [age EXCEPT ![e] = 0]
    /\ UNCHANGED <<mode, net, dups>>

\* _send_to_all at the start of punch_peer, and again in every cycle.
SendPunches(e) ==
    /\ busy[e] /\ mode[e] # "accept"
    /\ net' = Carried(net, Punches(e))
    /\ UNCHANGED <<world, tunnel, dups>>

\* The deadline passes: FAILED, or with the control channel request_relay,
\* whose reply makes it a relay tunnel and whose exception leaves it PUNCHING.
Deadline(e) ==
    /\ busy[e]
    /\ busy' = [busy EXCEPT ![e] = FALSE]
    /\ \/ /\ mode[e] # "create"
          /\ state' = [state EXCEPT ![e] = "FAILED"]
          /\ UNCHANGED <<relay, age>>
       \/ /\ mode[e] = "create"
          /\ state' = [state EXCEPT ![e] = "CONNECTED"]
          /\ relay' = [relay EXCEPT ![e] = TRUE]
          /\ age' = [age EXCEPT ![e] = 0]
       \/ /\ mode[e] = "create"
          /\ UNCHANGED <<state, relay, age>>
    /\ UNCHANGED <<world, cipher, remote, net, dups>>

-----------------------------------------------------------------------------
(* Receiving datagram d; `rest` is what stays on its way.                   *)

\* punch_peer or accept_punch returns, and the tunnel is connected; an empty
\* payload gives no cipher.
Connected(e, d) ==
    /\ state' = [state EXCEPT ![e] = "CONNECTED"]
    /\ busy' = [busy EXCEPT ![e] = FALSE]
    /\ cipher' = [cipher EXCEPT ![e] = IF d.load = {} THEN {} ELSE {Key(e)} \cup d.load]
    /\ remote' = [remote EXCEPT ![e] = d.from]
    /\ age' = [age EXCEPT ![e] = 0]
    /\ UNCHANGED relay

Ack(e, d, load) ==
    IF d.from # Addr(Other(e)) \/ state[Other(e)] = "none" THEN {}
    ELSE {Datagram("PUNCH_ACK", Addr(e), d.from, load)}

\* The loop of punch_peer: its own acknowledgement carries no key.
PunchReceives(e, d, rest) ==
    /\ mode[e] # "accept" /\ d.kind \in {"PUNCH", "PUNCH_ACK"}
    /\ net' = Carried(rest, IF d.kind = "PUNCH" THEN Ack(e, d, {}) ELSE {})
    /\ Connected(e, d)

\* The loop of accept_punch.
AcceptReceives(e, d, rest) ==
    /\ mode[e] = "accept" /\ d.kind = "PUNCH"
    /\ net' = Carried(rest, Ack(e, d, {Key(e)}))
    /\ Connected(e, d)

\* Both loops pass over every other frame.
Skips(e, d, rest) ==
    /\ d.kind \notin (IF mode[e] = "accept" THEN {"PUNCH"} ELSE {"PUNCH", "PUNCH_ACK"})
    /\ net' = rest
    /\ UNCHANGED tunnel

\* DataReceived, if the address were taken over before the frame is decrypted,
\* and if it were kept.
DataReceivedEarly(e, d, rest) ==
    /\ d.kind = "DATA" /\ net' = rest
    /\ remote' = [remote EXCEPT ![e] = d.from]
    /\ age' = [age EXCEPT ![e] = 0]
    /\ UNCHANGED <<state, busy, cipher, relay>>

DataReceivedHere(e, d, rest) ==
    /\ d.kind = "DATA" /\ net' = rest
    /\ \/ /\ cipher[e] \in {{}, d.load}
          /\ age' = [age EXCEPT ![e] = 0]
       \/ /\ cipher[e] \notin {{}, d.load}
          /\ UNCHANGED age
    /\ UNCHANGED <<state, busy, cipher, relay, remote>>

\* A DATA frame: decrypted if there is a cipher, else taken as it is.  What
\* does not decrypt is dropped; what does tells the peer's address.
DataReceived(e, d, rest) ==
    /\ d.kind = "DATA" /\ net' = rest
    /\ \/ /\ cipher[e] \in {{}, d.load}
          /\ remote' = [remote EXCEPT ![e] = d.from]
          /\ age' = [age EXCEPT ![e] = 0]
       \/ /\ cipher[e] \notin {{}, d.load}
          /\ UNCHANGED <<remote, age>>
    /\ UNCHANGED <<state, busy, cipher, relay>>

\* The other branches of _handle_frame.  A late PUNCH is acknowledged without a key.
ControlReceived(e, d, rest) ==
    \/ /\ d.kind \in {"KEEPALIVE", "PUNCH_ACK"} /\ net' = rest
       /\ age' = [age EXCEPT ![e] = 0]
       /\ UNCHANGED <<state, busy, cipher, remote, relay>>
    \/ /\ d.kind = "CLOSE" /\ net' = rest
       /\ state' = [state EXCEPT ![e] = "CLOSED"]
       /\ UNCHANGED <<busy, cipher, remote, relay, age>>
    \/ /\ d.kind = "PUNCH" /\ net' = Carried(rest, Ack(e, d, {}))
       /\ UNCHANGED tunnel

\* A socket is read while punching and, by recv_loop, while connected.
Reads(e, d, rest) ==
    \/ busy[e] /\ (PunchReceives(e, d, rest) \/ AcceptReceives(e, d, rest) \/ Skips(e, d, rest))
    \/ state[e] = "CONNECTED" /\ (DataReceived(e, d, rest) \/ ControlReceived(e, d, rest))

Receive(e, d) ==
    /\ d.to = Addr(e)
    /\ \/ Reads(e, d, net \ {d}) /\ UNCHANGED dups
       \/ dups < MaxDups /\ Reads(e, d, net) /\ dups' = dups + 1
    /\ UNCHANGED world

-----------------------------------------------------------------------------
(* Sending and closing                                                      *)

\* A frame to the tunnel's remote address.  A relay tunnel has none, and what
\* is sent to an address that is no longer in use is lost.
Frame(e, kind, load) ==
    IF remote[e] # Addr(Other(e)) \/ state[Other(e)] = "none" THEN {}
    ELSE {Datagram(kind, Addr(e), remote[e], load)}

SendData(e) ==
    /\ state[e] = "CONNECTED"
    /\ net' = Carried(net, Frame(e, "DATA", cipher[e]))
    /\ UNCHANGED <<world, tunnel, dups>>

\* What is on its way when the address of e is no longer in use.
Gone(e) == {d \in net : d.to # Addr(e)}

\* close_tunnel: the CLOSE frame goes out before the socket is closed.
Closed(e, sent) ==
    /\ net' = Carried(Carried(Gone(e), sent), Frame(e, "CLOSE", {}))
    /\ state' = [state EXCEPT ![e] = "none"]
    /\ cipher' = [cipher EXCEPT ![e] = {}]
    /\ remote' = [remote EXCEPT ![e] = NoAddr]
    /\ relay' = [relay EXCEPT ![e] = FALSE]
    /\ age' = [age EXCEPT ![e] = 0]
    /\ UNCHANGED busy

\* The daemon closes a tunnel when the peer goes offline; its event task does
\* not run while it waits for the punch.
Close(e) ==
    /\ state[e] # "none" /\ ~busy[e]
    /\ Closed(e, {})
    /\ UNCHANGED <<world, dups>>

\* Tick, if a stale tunnel were given more time.
TickForgives(e) ==
    /\ state[e] = "CONNECTED"
    /\ net' = Carried(net, Frame(e, "KEEPALIVE", {}))
    /\ age' = [age EXCEPT ![e] = IF @ + 1 > StaleTicks THEN 0 ELSE @ + 1]
    /\ UNCHANGED <<world, state, busy, cipher, remote, relay, dups>>

\* KeepAliveManager._tick; the mark of a suspect peer is only shown and left out.
Tick(e) ==
    /\ state[e] = "CONNECTED"
    /\ \/ /\ age[e] + 1 > StaleTicks
          /\ Closed(e, Frame(e, "KEEPALIVE", {}))
       \/ /\ age[e] + 1 <= StaleTicks
          /\ net' = Carried(net, Frame(e, "KEEPALIVE", {}))
          /\ age' = [age EXCEPT ![e] = @ + 1]
          /\ UNCHANGED <<state, busy, cipher, remote, relay>>
    /\ UNCHANGED <<world, dups>>

Lose(d) ==
    /\ net' = net \ {d}
    /\ UNCHANGED <<world, tunnel, dups>>

\* The NAT forgets the mapping of a socket and makes another one.
Rebind(e) ==
    /\ state[e] = "CONNECTED" /\ nat["a"] + nat["b"] < MaxRebinds
    /\ nat' = [nat EXCEPT ![e] = @ + 1]
    /\ net' = Gone(e)
    /\ UNCHANGED <<mode, gen, tunnel, dups>>

TunnelNext ==
    \/ \E e \in Ends :
         \/ Make(e) \/ SendPunches(e) \/ Deadline(e)
         \/ \E d \in net : Receive(e, d)
         \/ SendData(e) \/ Close(e) \/ Tick(e) \/ Rebind(e)
    \/ \E d \in net : Lose(d)

TunnelSpec == TunnelInit /\ [][TunnelNext]_tunnelVars

\* Packets are sent as long as there are connected tunnels, no datagram is on
\* its way for ever, and not all data is lost.
FairTunnelSpec ==
    /\ TunnelSpec
    /\ WF_tunnelVars(\E d \in net : Lose(d))
    /\ \A e \in Ends :
         /\ SF_tunnelVars(SendData(e))
         /\ SF_tunnelVars(\E d \in net : d.kind = "DATA" /\ Receive(e, d))

-----------------------------------------------------------------------------
(* Properties                                                               *)

\* With a cipher, packets go only to addresses of the very tunnel the key was
\* agreed with, whatever old datagrams arrive (create_tunnel, _handle_frame).
KeyedRemote ==
    \A e \in Ends :
        cipher[e] # {} =>
            /\ Key(e) \in cipher[e]
            /\ <<remote[e][1], remote[e][2]>> \in cipher[e] \ {Key(e)}

\* "every 60s: close tunnel" (keepalive.py): the keepalive task does not go on
\* ticking for a connected tunnel whose peer is gone for good.
HalfOpenCloses ==
    \A e \in Ends :
        []<><<Tick(e)>>_tunnelVars =>
            []<>(state[Other(e)] # "none") \/ []<>(state[e] # "CONNECTED")

\* Both ends connected, with the same cipher, and e sends to its peer's address.
Paired(e) ==
    /\ state[e] = "CONNECTED" /\ state[Other(e)] = "CONNECTED"
    /\ cipher[e] = cipher[Other(e)] /\ remote[e] = Addr(Other(e))

\* "Update remote address in case the NAT mapping changed" (_handle_frame): an
\* end whose packets arrive is answered at its new address.
NatRecovers ==
    \A e \in Ends :
        Paired(e) ~> remote[Other(e)] = Addr(e) \/ ~Paired(e)

\* "Yields (peer_id, decrypted_ip_packet) for each valid data frame"
\* (recv_loop): no ciphertext reaches an end that would hand it on as it is.
DeliversPackets ==
    \A e \in Ends, d \in net :
        d.kind = "DATA" /\ d.to = Addr(e) /\ state[e] = "CONNECTED" /\ cipher[e] = {} => d.load = {}

=============================================================================
