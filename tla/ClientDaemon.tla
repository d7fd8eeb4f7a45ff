---------------------------- MODULE ClientDaemon ----------------------------
(***************************************************************************)
(* The client daemon of client/main.py: the task that handles the server's *)
(* PEER_ONLINE and PEER_OFFLINE events one after the other, the mesh       *)
(* topology of client/topology.py that every network is given, and the     *)
(* table of client/tunnel_manager.py, which the keepalive task and the     *)
(* receive loop change while the event task waits.                         *)
(*                                                                         *)
(* How a punch goes is module Tunnel's subject: here it succeeds or fails. *)
(* The events are those of module MediationServer: they arrive in order.   *)
(* They carry no peer_ip, so the address tables stay empty and are left    *)
(* out with the packets of the TUN interface.                              *)
(***************************************************************************)
EXTENDS Naturals, Sequences

CONSTANTS
    Peers,       \* the other clients
    Networks,    \* the networks this client is in
    None,        \* no peer
    MaxEvents,   \* bound: events not yet handled
    Faults       \* what may go wrong in this instance

ASSUME DaemonAssumption ==
    /\ None \notin Peers /\ MaxEvents \in Nat
    /\ Faults \subseteq {"refused", "unpunched", "norelay", "closed", "stale", "shutdown"}

VARIABLES
    present,     \* at the server: <<n, p>> such that peer p is online in network n
    events,      \* the channel's event queue
    handler,     \* where the event task waits, and for which peer
    topology,    \* per network: MeshTopology._peers
    tunnels,     \* per peer: the state of its entry in _tunnels, or "none"
    sockets,     \* per peer: open UDP sockets of tunnels to it
    down         \* _shutdown_daemon has run

vars == <<present, events, handler, topology, tunnels, sockets, down>>

Idle == [at |-> "idle", peer |-> None]

Init ==
    /\ present = {}
    /\ events = <<>>
    /\ handler = Idle
    /\ topology = [n \in Networks |-> {}]
    /\ tunnels = [p \in Peers |-> "none"]
    /\ sockets = [p \in Peers |-> 0]
    /\ down = FALSE

-----------------------------------------------------------------------------
(* The server's announcements                                               *)

\* A peer comes online in a network, or authenticates again (external).
Announce(n, p) ==
    /\ Len(events) < MaxEvents
    /\ present' = present \cup {<<n, p>>}
    /\ events' = Append(events, [kind |-> "online", net |-> n, peer |-> p])
    /\ UNCHANGED <<handler, topology, tunnels, sockets, down>>

\* A peer leaves a network or disconnects (external).
Withdraw(n, p) ==
    /\ Len(events) < MaxEvents /\ <<n, p>> \in present
    /\ present' = present \ {<<n, p>>}
    /\ events' = Append(events, [kind |-> "offline", net |-> n, peer |-> p])
    /\ UNCHANGED <<handler, topology, tunnels, sockets, down>>

-----------------------------------------------------------------------------
(* The event task                                                           *)

\* close_tunnel, for a peer that has an entry.
CloseTunnel(p) ==
    /\ tunnels' = [tunnels EXCEPT ![p] = "none"]
    /\ sockets' = [sockets EXCEPT ![p] = IF tunnels[p] = "none" THEN @ ELSE @ - 1]

\* HasTunnel, if only a connected one counted.
HasConnected(p) == tunnels[p] = "CONNECTED"

\* get_tunnel: an entry in any state counts.
HasTunnel(p) == tunnels[p] # "none"

\* MeshTopology.on_peer_online: it always wants a tunnel.
MeshWith(n, p) == [topology EXCEPT ![n] = @ \cup {p}]

\* MeshTopology.on_peer_offline.
MeshWithout(n, p) == [topology EXCEPT ![n] = @ \ {p}]

\* Ready, if every event had a task of its own.
ReadyForNext == TRUE

\* _handle_events awaits _dispatch_event before it takes the next event.
Ready == handler.at = "idle"

\* _on_peer_online and _create_tunnel_to_peer: the endpoints are asked for
\* unless there is an entry for the peer.
OnPeerOnline ==
    /\ ~down /\ Ready /\ events # <<>> /\ Head(events).kind = "online"
    /\ LET n == Head(events).net
           p == Head(events).peer
       IN  /\ topology' = MeshWith(n, p)
           /\ handler' = IF HasTunnel(p) THEN Idle ELSE [at |-> "endpoints", peer |-> p]
    /\ events' = Tail(events)
    /\ UNCHANGED <<present, tunnels, sockets, down>>

\* OnPeerOffline, if the topology were not told.
OnPeerOfflineUntold ==
    /\ ~down /\ Ready /\ events # <<>> /\ Head(events).kind = "offline"
    /\ CloseTunnel(Head(events).peer)
    /\ events' = Tail(events)
    /\ UNCHANGED <<present, handler, topology, down>>

\* _on_peer_offline: the tunnel goes, whichever network the event is about.
OnPeerOffline ==
    /\ ~down /\ Ready /\ events # <<>> /\ Head(events).kind = "offline"
    /\ CloseTunnel(Head(events).peer)
    /\ topology' = MeshWithout(Head(events).net, Head(events).peer)
    /\ events' = Tail(events)
    /\ UNCHANGED <<present, handler, down>>

\* request_peer_endpoints returns some: create_tunnel drops an entry the peer
\* may have, without closing it, and starts to punch.
CreateTunnel ==
    /\ handler.at = "endpoints"
    /\ tunnels' = [tunnels EXCEPT ![handler.peer] = "PUNCHING"]
    /\ sockets' = [sockets EXCEPT ![handler.peer] = @ + 1]
    /\ handler' = [handler EXCEPT !.at = "punch"]
    /\ UNCHANGED <<present, events, topology, down>>

\* It returns none or raises, or no UDP port is free.
Refused ==
    /\ "refused" \in Faults /\ handler.at = "endpoints"
    /\ handler' = Idle
    /\ UNCHANGED <<present, events, topology, tunnels, sockets, down>>

Punched ==
    /\ handler.at = "punch"
    /\ tunnels' = [tunnels EXCEPT ![handler.peer] = "CONNECTED"]
    /\ handler' = Idle
    /\ UNCHANGED <<present, events, topology, sockets, down>>

\* The punch fails: a relay is asked for.
Unpunched ==
    /\ "unpunched" \in Faults /\ handler.at = "punch"
    /\ handler' = [handler EXCEPT !.at = "relay"]
    /\ UNCHANGED <<present, events, topology, tunnels, sockets, down>>

\* request_relay returns, or raises and leaves the entry as it is.
RelayAnswered ==
    /\ handler.at = "relay"
    /\ \/ tunnels' = [tunnels EXCEPT ![handler.peer] = "CONNECTED"]
       \/ "norelay" \in Faults /\ UNCHANGED tunnels
    /\ handler' = Idle
    /\ UNCHANGED <<present, events, topology, sockets, down>>

-----------------------------------------------------------------------------
(* The other tasks                                                          *)

\* The receive loop reads a CLOSE frame: the entry stays.
PeerCloses(p) ==
    /\ "closed" \in Faults /\ tunnels[p] = "CONNECTED"
    /\ tunnels' = [tunnels EXCEPT ![p] = "CLOSED"]
    /\ UNCHANGED <<present, events, handler, topology, sockets, down>>

\* The keepalive task closes a silent tunnel.
Stale(p) ==
    /\ "stale" \in Faults /\ tunnels[p] = "CONNECTED"
    /\ CloseTunnel(p)
    /\ UNCHANGED <<present, events, handler, topology, down>>

\* _shutdown_daemon: the tasks are cancelled, then every tunnel is closed.
Shutdown ==
    /\ "shutdown" \in Faults /\ ~down
    /\ down' = TRUE
    /\ handler' = Idle
    /\ tunnels' = [p \in Peers |-> "none"]
    /\ sockets' = [p \in Peers |-> IF tunnels[p] = "none" THEN sockets[p] ELSE sockets[p] - 1]
    /\ UNCHANGED <<present, events, topology>>

-----------------------------------------------------------------------------

EventTask ==
    \/ OnPeerOnline \/ OnPeerOffline \/ CreateTunnel \/ Refused
    \/ Punched \/ Unpunched \/ RelayAnswered

Next ==
    \/ \E n \in Networks, p \in Peers : Announce(n, p) \/ Withdraw(n, p)
    \/ EventTask
    \/ \E p \in Peers : PeerCloses(p) \/ Stale(p)
    \/ Shutdown

Spec == Init /\ [][Next]_vars

-----------------------------------------------------------------------------
(* Properties                                                               *)

\* There is one open socket for every entry and no other: create_tunnel never
\* drops an entry whose socket is open, and after _shutdown_daemon none is left.
OneSocket ==
    /\ \A p \in Peers : sockets[p] = IF tunnels[p] = "none" THEN 0 ELSE 1
    /\ down => \A p \in Peers : tunnels[p] = "none"

\* The event task makes a tunnel, over several awaits, only to a peer that is
\* online, or whose PEER_OFFLINE it has still to handle and will close it.
TunnelJustified ==
    \A p \in Peers :
        tunnels[p] # "none" =>
            \/ \E n \in Networks : <<n, p>> \in present
            \/ \E k \in DOMAIN events : events[k].kind = "offline" /\ events[k].peer = p

\* The queued events about peer p in network n.
About(n, p) == {k \in DOMAIN events : events[k].net = n /\ events[k].peer = p}

\* The topology of n will know p once the queued events are handled: the last of
\* them about p says that it is online, or it is known and there is none.
WillKnow(n, p) ==
    \/ About(n, p) = {} /\ p \in topology[n]
    \/ \E k \in About(n, p) : events[k].kind = "online" /\ \A j \in About(n, p) : j <= k

\* Over any interleaving of announcements the topologies lag behind the server
\* by exactly the queued events (_on_peer_online, _on_peer_offline).
TopologyFollows ==
    ~down => \A n \in Networks, p \in Peers : WillKnow(n, p) <=> <<n, p>> \in present

=============================================================================
