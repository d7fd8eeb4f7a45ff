---------------------------- MODULE ClientProofs ----------------------------
(***************************************************************************)
(* Proofs about the client, for every set of peers, networks and           *)
(* connections, any number of queued events, of keys and of devices and    *)
(* without the bounds on faults: OneSocket, TunnelJustified and            *)
(* TopologyFollows hold of ClientDaemon, TunAccounted of ClientProcess,    *)
(* LockedWaiter and OneReader of ControlChannel, and ClientProcess         *)
(* implements StableIdentity.                                              *)
(***************************************************************************)
EXTENDS ClientDaemon, ClientProcess, ControlChannel, TLAPS

\* The provers to try on a leaf that names none, and how long.
USE SMTT(30), ZenonT(30)

(***************************************************************************)
(* The daemon. OneSocket needs to know which entry the event task left     *)
(* behind when it began to wait; TunnelJustified and TopologyFollows what  *)
(* the queue still has to say about the peer.                              *)
(***************************************************************************)

Events == [kind : {"online", "offline"}, net : Networks, peer : Peers]

States == {"none", "PUNCHING", "CONNECTED", "CLOSED"}

Waits == {"endpoints", "punch", "relay"}

Handlers == [at : Waits, peer : Peers] \cup {Idle}

Typed ==
    /\ events \in Seq(Events)
    /\ handler \in Handlers
    /\ tunnels \in [Peers -> States]
    /\ sockets \in [Peers -> Nat]
    /\ down \in BOOLEAN

\* Until the task of the peer it waits for goes on, nobody else changes the
\* peer's entry: the keepalive task and the receive loop touch connected ones.
Waiting ==
    /\ handler.at = "endpoints" => tunnels[handler.peer] = "none"
    /\ handler.at \in {"punch", "relay"} => tunnels[handler.peer] = "PUNCHING"
    /\ down => handler = Idle

SocketInv == Typed /\ Waiting /\ OneSocket

-----------------------------------------------------------------------------
(* OneSocket                                                                *)

\* The idle event task is a state of it that waits for no peer.
LEMMA IdleHandler == Idle.at = "idle" /\ Idle.peer = None /\ Idle \in Handlers
BY DEF Idle, Handlers

\* There are no tunnels at first.
LEMMA InitSocket == Init => SocketInv
<1> SUFFICES ASSUME Init PROVE SocketInv
  OBVIOUS
<1>1. Typed
  <2>1. events \in Seq(Events)
    BY DEF Init
  <2>3. handler \in Handlers /\ down \in BOOLEAN
    BY IdleHandler, Zenon DEF Init
  <2>2. tunnels \in [Peers -> States] /\ sockets \in [Peers -> Nat]
    BY DEF Init, States
  <2> QED  BY <2>1, <2>2, <2>3 DEF Typed
<1>2. Waiting
  BY IdleHandler DEF Init, Waiting
<1>3. OneSocket
  BY DEF Init, OneSocket
<1> QED  BY <1>1, <1>2, <1>3 DEF SocketInv

\* An announcement only appends to the queue.
LEMMA AnnouncedSocket ==
    ASSUME SocketInv, NEW n \in Networks, NEW p \in Peers, Announce(n, p) \/ Withdraw(n, p)
    PROVE  SocketInv'
<1>1. /\ [kind |-> "online", net |-> n, peer |-> p] \in Events
      /\ [kind |-> "offline", net |-> n, peer |-> p] \in Events
  BY DEF Events
<1>2. events' \in Seq(Events)
  <2>1. events \in Seq(Events)
    BY DEF SocketInv, Typed
  <2>2. \E e \in Events : events' = Append(events, e)
    BY <1>1 DEF Announce, Withdraw
  <2> QED  BY <2>1, <2>2
<1>3. Typed'
  BY <1>2 DEF SocketInv, Typed, Announce, Withdraw
<1> QED  BY <1>3 DEF SocketInv, Waiting, OneSocket, Announce, Withdraw

\* What the event task does when it takes an event.
LEMMA EventSocket ==
    ASSUME SocketInv, OnPeerOnline \/ OnPeerOffline
    PROVE  SocketInv'
<1>1. /\ events # <<>> /\ Head(events) \in Events /\ events' = Tail(events)
      /\ Tail(events) \in Seq(Events) /\ handler.at = "idle" /\ ~down /\ down' = down
  BY DEF SocketInv, Typed, OnPeerOnline, OnPeerOffline, Ready
<1> DEFINE n == Head(events).net
           p == Head(events).peer
<1>2. n \in Networks /\ p \in Peers
  BY <1>1 DEF Events
<1>3. CASE OnPeerOnline
  <2>1. CASE tunnels[p] = "none"
    <3>1. /\ handler' = [at |-> "endpoints", peer |-> p]
          /\ UNCHANGED <<present, tunnels, sockets, down>>
      BY <1>3, <2>1 DEF OnPeerOnline, HasTunnel
    <3>2. handler'.at = "endpoints" /\ handler'.peer = p /\ handler' \in Handlers
      BY <1>2, <3>1 DEF Handlers, Waits
    <3>3. Typed'
      BY <1>1, <1>2, <3>1, <3>2 DEF SocketInv, Typed
    <3> QED  BY <1>1, <2>1, <3>1, <3>2, <3>3 DEF SocketInv, Waiting, OneSocket
  <2>2. CASE tunnels[p] # "none"
    <3>1. /\ handler' = Idle
          /\ UNCHANGED <<present, tunnels, sockets, down>>
      BY <1>3, <2>2 DEF OnPeerOnline, HasTunnel
    <3>2. Typed'
      BY <1>1, <1>2, <3>1, IdleHandler DEF SocketInv, Typed
    <3> QED  BY <3>1, <3>2, IdleHandler DEF SocketInv, Waiting, OneSocket
  <2> QED  BY <2>1, <2>2
<1>4. CASE OnPeerOffline
  <2>1. /\ tunnels' = [tunnels EXCEPT ![p] = "none"]
        /\ sockets' = [sockets EXCEPT ![p] = IF tunnels[p] = "none" THEN @ ELSE @ - 1]
        /\ UNCHANGED <<present, handler, down>>
    BY <1>4 DEF OnPeerOffline, CloseTunnel
  <2>2. \A q \in Peers : sockets'[q] = IF tunnels'[q] = "none" THEN 0 ELSE 1
    BY <1>2, <2>1 DEF SocketInv, Typed, OneSocket
  <2>3. sockets' \in [Peers -> Nat]
    BY <1>2, <2>1, <2>2 DEF SocketInv, Typed
  <2>4. Typed'
    BY <1>1, <1>2, <2>1, <2>3 DEF SocketInv, Typed, States
  <2> QED  BY <1>1, <2>1, <2>2, <2>4 DEF SocketInv, Waiting, OneSocket
<1> QED  BY <1>3, <1>4

\* The steps after its awaits, and those of the other tasks.
LEMMA AwaitSocket ==
    ASSUME SocketInv,
           CreateTunnel \/ Refused \/ Punched \/ Unpunched \/ RelayAnswered
    PROVE  SocketInv'
<1> DEFINE p == handler.peer
<1>1. handler.at \in Waits /\ p \in Peers /\ handler # Idle
  BY IdleHandler
  DEF SocketInv, Typed, Handlers, Waits, CreateTunnel, Refused, Punched, Unpunched, RelayAnswered
<1>2. ~down
  BY <1>1 DEF SocketInv, Waiting
<1>3. CASE CreateTunnel
  <2>1. tunnels[p] = "none" /\ sockets[p] = 0
    BY <1>1, <1>3 DEF SocketInv, Waiting, OneSocket, CreateTunnel
  <2>2. handler' \in Handlers /\ handler'.at = "punch" /\ handler'.peer = p
    BY <1>1, <1>3 DEF SocketInv, Typed, CreateTunnel, Handlers, Waits
  <2>3. Typed'
    BY <1>1, <1>3, <2>1, <2>2 DEF SocketInv, Typed, CreateTunnel, States
  <2>4. OneSocket'
    BY <1>1, <1>2, <1>3, <2>1 DEF SocketInv, Typed, OneSocket, CreateTunnel
  <2> QED
    BY <1>1, <1>2, <1>3, <2>2, <2>3, <2>4 DEF SocketInv, Typed, Waiting, CreateTunnel
<1>4. CASE Unpunched
  <2>1. handler' \in Handlers /\ handler'.at = "relay" /\ handler'.peer = p
    BY <1>1, <1>4 DEF SocketInv, Typed, Unpunched, Handlers, Waits
  <2> QED
    BY <1>1, <1>2, <1>4, <2>1 DEF SocketInv, Typed, Waiting, OneSocket, Unpunched
<1>5. CASE Refused \/ Punched \/ RelayAnswered
  <2>1. handler' = Idle /\ UNCHANGED <<events, sockets, down>>
    BY <1>5 DEF Refused, Punched, RelayAnswered
  <2>2. \/ UNCHANGED tunnels
        \/ tunnels[p] = "PUNCHING" /\ tunnels' = [tunnels EXCEPT ![p] = "CONNECTED"]
    BY <1>1, <1>5 DEF SocketInv, Waiting, Refused, Punched, RelayAnswered
  <2>3. Typed'
    BY <1>1, <2>1, <2>2, IdleHandler DEF SocketInv, Typed, States
  <2>4. OneSocket'
    BY <1>1, <1>2, <2>1, <2>2 DEF SocketInv, Typed, OneSocket
  <2> QED  BY <2>1, <2>3, <2>4, IdleHandler DEF SocketInv, Waiting
<1> QED  BY <1>3, <1>4, <1>5

\* The keepalive task and the receive loop close a connected tunnel with its socket.
LEMMA OtherSocket ==
    ASSUME SocketInv, NEW p \in Peers, PeerCloses(p) \/ Stale(p)
    PROVE  SocketInv'
<1>1. tunnels[p] = "CONNECTED" /\ sockets[p] = 1
  BY DEF SocketInv, OneSocket, PeerCloses, Stale
<1>2. Typed' /\ OneSocket'
  <2>1. CASE PeerCloses(p)
    BY <1>1, <2>1 DEF SocketInv, Typed, States, OneSocket, PeerCloses
  <2>2. CASE Stale(p)
    <3>1. /\ tunnels' = [tunnels EXCEPT ![p] = "none"]
          /\ sockets' = [sockets EXCEPT ![p] = @ - 1]
          /\ UNCHANGED <<events, handler, down>>
      BY <1>1, <2>2 DEF Stale, CloseTunnel
    <3>2. sockets' = [sockets EXCEPT ![p] = 0]
      BY <1>1, <3>1
    <3>3. Typed'
      BY <3>1, <3>2 DEF SocketInv, Typed, States
    <3>4. OneSocket'
      BY <3>1, <3>2 DEF SocketInv, Typed, OneSocket
    <3> QED  BY <3>3, <3>4
  <2> QED  BY <2>1, <2>2
<1>3. handler' = handler /\ down' = down /\ \A q \in Peers \ {p} : tunnels'[q] = tunnels[q]
  BY DEF SocketInv, Typed, PeerCloses, Stale, CloseTunnel
<1>4. handler.at \in Waits => handler.peer \in Peers \ {p}
  BY <1>1, IdleHandler DEF SocketInv, Typed, Handlers, Waiting, Waits
<1> QED  BY <1>2, <1>3, <1>4 DEF SocketInv, Waiting, Waits

\* The shutdown closes every socket and empties the table.
LEMMA ShutdownSocket ==
    ASSUME SocketInv, Shutdown
    PROVE  SocketInv'
<1>1. \A p \in Peers : sockets'[p] = 0 /\ tunnels'[p] = "none"
  BY DEF SocketInv, Typed, OneSocket, Shutdown
<1>2. Typed'
  BY <1>1, IdleHandler DEF SocketInv, Typed, States, Shutdown
<1> QED  BY <1>1, <1>2, IdleHandler DEF SocketInv, Waiting, OneSocket, Shutdown

\* Every step preserves SocketInv.
LEMMA NextSocket ==
    ASSUME SocketInv, [Next]_vars
    PROVE  SocketInv'
<1>1. CASE UNCHANGED vars
  BY <1>1 DEF vars, SocketInv, Typed, Waiting, OneSocket
<1> QED
  BY <1>1, AnnouncedSocket, EventSocket, AwaitSocket, OtherSocket, ShutdownSocket
  DEF Next, EventTask

\* OneSocket, for every set of peers and networks: no entry of _tunnels is ever
\* replaced or dropped with its socket open, over all awaits of the event task
\* (_create_tunnel_to_peer, create_tunnel, close_tunnel, _shutdown_daemon).
THEOREM AlwaysOneSocket == Spec => []OneSocket
<1>1. SocketInv /\ [Next]_vars => SocketInv'
  BY NextSocket
<1>2. SocketInv => OneSocket
  BY DEF SocketInv
<1> QED  BY InitSocket, <1>1, <1>2, PTL DEF Spec

-----------------------------------------------------------------------------
(* TunnelJustified                                                          *)

Online(p) == \E n \in Networks : <<n, p>> \in present

\* The queue has a PEER_OFFLINE for p at position k or later.
OfflineFrom(p, k) ==
    \E j \in DOMAIN events : j >= k /\ events[j].kind = "offline" /\ events[j].peer = p

\* The peer is online, or the queue says at k or later that it is not.
Justified(p, k) == Online(p) \/ OfflineFrom(p, k)

\* Every entry, the peer the event task waits for, and every PEER_ONLINE in the
\* queue with what comes after it.
JustifiedInv ==
    /\ SocketInv
    /\ \A p \in Peers : tunnels[p] # "none" => Justified(p, 1)
    /\ \A p \in Peers : handler.at \in Waits /\ handler.peer = p => Justified(p, 1)
    /\ \A p \in Peers, k \in Nat :
         k \in DOMAIN events /\ events[k].kind = "online" /\ events[k].peer = p => Justified(p, k)

\* There are no tunnels and no events at first.
LEMMA InitJustified == Init => JustifiedInv
BY InitSocket, IdleHandler DEF Init, JustifiedInv, Waits

\* A PEER_ONLINE is queued when the peer is online, and a peer leaves only with
\* a PEER_OFFLINE queued behind everything else.
LEMMA AnnouncedJustified ==
    ASSUME JustifiedInv, NEW n \in Networks, NEW p \in Peers,
           Announce(n, p) \/ Withdraw(n, p)
    PROVE  JustifiedInv'
<1>1. SocketInv'
  BY AnnouncedSocket DEF JustifiedInv
<1>2. PICK e \in Events : events' = Append(events, e) /\ e.peer = p /\ e.net = n
                         /\ e.kind = IF Announce(n, p) THEN "online" ELSE "offline"
  <2>1. CASE Announce(n, p)
    BY <2>1 DEF Announce, Events
  <2>2. CASE ~Announce(n, p)
    BY <2>2 DEF Withdraw, Events
  <2> QED  BY <2>1, <2>2
<1>3. events \in Seq(Events)
  BY DEF JustifiedInv, SocketInv, Typed
<1>4. /\ Len(events') = Len(events) + 1 /\ DOMAIN events' = 1 .. Len(events) + 1
      /\ DOMAIN events = 1 .. Len(events) /\ Len(events) \in Nat
      /\ events'[Len(events) + 1] = e
      /\ \A k \in DOMAIN events : events'[k] = events[k]
  BY <1>2, <1>3
<1>5. \A q \in Peers, k \in 1 .. Len(events) + 1 : Justified(q, k) => Justified(q, k)'
  <2> SUFFICES ASSUME NEW q \in Peers, NEW k \in 1 .. Len(events) + 1, Justified(q, k)
               PROVE  Justified(q, k)'
    OBVIOUS
  <2>1. CASE OfflineFrom(q, k)
    BY <1>4, <2>1 DEF OfflineFrom, Justified
  <2>2. CASE Online(q) /\ Announce(n, p)
    BY <2>2 DEF Online, Justified, Announce
  <2>3. CASE Online(q) /\ ~Announce(n, p) /\ q # p
    BY <2>3 DEF Online, Justified, Withdraw
  <2>4. CASE ~Announce(n, p) /\ q = p
    BY <1>2, <1>4, <2>4 DEF OfflineFrom, Justified
  <2> QED  BY <2>1, <2>2, <2>3, <2>4 DEF Justified
<1>6. e.kind = "online" => Online(p)'
  BY <1>2 DEF Announce, Online
<1>7. UNCHANGED <<handler, tunnels>>
  BY DEF Announce, Withdraw
<1>8. \A q \in Peers : tunnels'[q] # "none" => Justified(q, 1)'
  BY <1>4, <1>5, <1>7 DEF JustifiedInv
<1>9. \A q \in Peers : handler'.at \in Waits /\ handler'.peer = q => Justified(q, 1)'
  BY <1>4, <1>5, <1>7 DEF JustifiedInv
<1>10. ASSUME NEW q \in Peers, NEW k \in Nat,
              k \in DOMAIN events', events'[k].kind = "online", events'[k].peer = q
       PROVE  Justified(q, k)'
  <2>1. CASE k = Len(events) + 1
    BY <1>2, <1>4, <1>6, <1>10, <2>1 DEF Justified
  <2>2. CASE k \in DOMAIN events
    BY <1>4, <1>5, <1>10, <2>2 DEF JustifiedInv
  <2> QED  BY <1>4, <1>10, <2>1, <2>2
<1> QED  BY <1>1, <1>8, <1>9, <1>10 DEF JustifiedInv

\* The event taken off the queue is not what justifies a tunnel afterwards: a
\* PEER_ONLINE never does, and a PEER_OFFLINE closes the tunnel it is about.
LEMMA EventJustified ==
    ASSUME JustifiedInv, OnPeerOnline \/ OnPeerOffline
    PROVE  JustifiedInv'
<1>1. SocketInv'
  BY EventSocket DEF JustifiedInv
<1>2. events \in Seq(Events) /\ events # <<>> /\ events' = Tail(events) /\ present' = present
  BY DEF JustifiedInv, SocketInv, Typed, OnPeerOnline, OnPeerOffline
<1>3. /\ Len(events) \in Nat /\ Len(events) >= 1
      /\ DOMAIN events = 1 .. Len(events) /\ DOMAIN events' = 1 .. Len(events) - 1
      /\ \A k \in 1 .. Len(events) - 1 : events'[k] = events[k + 1]
      /\ Head(events) = events[1] /\ events[1] \in Events
  BY <1>2
<1>4. \A q \in Peers, k \in Nat : k >= 1 /\ Justified(q, k + 1) => Justified(q, k)'
  <2> SUFFICES ASSUME NEW q \in Peers, NEW k \in Nat, k >= 1, Justified(q, k + 1)
               PROVE  Justified(q, k)'
    OBVIOUS
  <2>1. CASE Online(q)
    BY <1>2, <2>1 DEF Online, Justified
  <2>2. CASE OfflineFrom(q, k + 1)
    <3>1. PICK j \in DOMAIN events : j >= k + 1 /\ events[j].kind = "offline" /\ events[j].peer = q
      BY <2>2 DEF OfflineFrom
    <3>2. j - 1 \in DOMAIN events' /\ j - 1 >= k /\ events'[j - 1] = events[j]
      BY <1>3, <3>1
    <3> QED  BY <3>1, <3>2 DEF OfflineFrom, Justified
  <2> QED  BY <2>1, <2>2 DEF Justified
<1>5. \A q \in Peers :
        Justified(q, 1) /\ ~(events[1].kind = "offline" /\ events[1].peer = q) => Justified(q, 2)
  BY <1>3 DEF Justified, OfflineFrom
<1>6. \A q \in Peers, k \in Nat :
        k \in DOMAIN events' /\ events'[k].kind = "online" /\ events'[k].peer = q => Justified(q, k)'
  <2> SUFFICES ASSUME NEW q \in Peers, NEW k \in Nat, k \in DOMAIN events',
                      events'[k].kind = "online", events'[k].peer = q
               PROVE  Justified(q, k)'
    OBVIOUS
  <2>1. k >= 1 /\ k + 1 \in DOMAIN events /\ events'[k] = events[k + 1] /\ k + 1 \in Nat
    BY <1>3
  <2>2. Justified(q, k + 1)
    BY <2>1 DEF JustifiedInv
  <2> QED  BY <1>4, <2>1, <2>2
<1>7. \A q \in Peers : Justified(q, 2) => Justified(q, 1)'
  BY <1>4
<1>8. CASE OnPeerOnline
  <2>1. events[1].kind = "online" /\ tunnels' = tunnels
    BY <1>3, <1>8 DEF OnPeerOnline
  <2>2. \A q \in Peers : tunnels'[q] # "none" => Justified(q, 1)'
    BY <1>5, <1>7, <2>1 DEF JustifiedInv
  <2>3. \A q \in Peers : handler'.at \in Waits /\ handler'.peer = q => q = events[1].peer
    BY <1>3, <1>8, IdleHandler DEF OnPeerOnline, Waits
  <2>4. Justified(events[1].peer, 1)
    BY <1>3, <2>1 DEF JustifiedInv, Events
  <2>5. \A q \in Peers : handler'.at \in Waits /\ handler'.peer = q => Justified(q, 1)'
    BY <1>5, <1>7, <2>1, <2>3, <2>4
  <2> QED  BY <1>1, <1>6, <2>2, <2>5 DEF JustifiedInv
<1>9. CASE OnPeerOffline
  <2>1. handler' = handler /\ handler.at = "idle" /\ tunnels' = [tunnels EXCEPT ![events[1].peer] = "none"]
    BY <1>3, <1>9 DEF OnPeerOffline, CloseTunnel, Ready
  <2>2. \A q \in Peers : tunnels'[q] # "none" => tunnels[q] # "none" /\ q # events[1].peer
    BY <2>1 DEF JustifiedInv, SocketInv, Typed
  <2>3. \A q \in Peers : tunnels'[q] # "none" => Justified(q, 1)'
    BY <1>5, <1>7, <2>2 DEF JustifiedInv
  <2> QED  BY <1>1, <1>6, <2>1, <2>3 DEF JustifiedInv, Waits
<1> QED  BY <1>8, <1>9

\* All other steps leave the queue alone, and make an entry for nobody but the
\* peer the event task waits for.
LEMMA QuietJustified ==
    ASSUME JustifiedInv, SocketInv', UNCHANGED <<present, events>>,
           handler'.at \in Waits => handler.at \in Waits /\ handler'.peer = handler.peer,
           \A q \in Peers : tunnels'[q] # "none" =>
               tunnels[q] # "none" \/ (handler.at \in Waits /\ handler.peer = q)
    PROVE  JustifiedInv'
<1>1. \A q \in Peers, k \in Nat : Justified(q, k) => Justified(q, k)'
  BY DEF Justified, Online, OfflineFrom
<1> QED  BY <1>1 DEF JustifiedInv

\* Every step preserves JustifiedInv.
LEMMA NextJustified ==
    ASSUME JustifiedInv, [Next]_vars
    PROVE  JustifiedInv'
<1>1. SocketInv'
  BY NextSocket DEF JustifiedInv
<1>2. tunnels \in [Peers -> States]
  BY DEF JustifiedInv, SocketInv, Typed
<1>3. CASE CreateTunnel \/ Refused \/ Punched \/ Unpunched \/ RelayAnswered
  <2>1. handler.at \in Waits /\ UNCHANGED <<present, events>>
    BY <1>3 DEF Waits, CreateTunnel, Refused, Punched, Unpunched, RelayAnswered
  <2>2. handler'.at \in Waits => handler'.peer = handler.peer
    BY <1>3, IdleHandler DEF JustifiedInv, SocketInv, Typed, Handlers, Waits,
                             CreateTunnel, Refused, Punched, Unpunched, RelayAnswered
  <2>3. \A q \in Peers : tunnels'[q] # "none" => tunnels[q] # "none" \/ handler.peer = q
    BY <1>2, <1>3 DEF CreateTunnel, Refused, Punched, Unpunched, RelayAnswered
  <2> QED  BY <1>1, <2>1, <2>2, <2>3, QuietJustified
<1>4. CASE \E p \in Peers : PeerCloses(p) \/ Stale(p)
  <2>1. UNCHANGED <<present, events, handler>>
    BY <1>4 DEF PeerCloses, Stale
  <2>2. \A q \in Peers : tunnels'[q] # "none" => tunnels[q] # "none"
    BY <1>2, <1>4 DEF PeerCloses, Stale, CloseTunnel
  <2> QED  BY <1>1, <2>1, <2>2, QuietJustified
<1>5. CASE Shutdown \/ UNCHANGED vars
  <2>1. UNCHANGED <<present, events>> /\ (handler'.at \in Waits => handler' = handler)
    BY <1>5, IdleHandler DEF Shutdown, vars, Waits
  <2>2. \A q \in Peers : tunnels'[q] # "none" => tunnels[q] # "none"
    BY <1>5 DEF Shutdown, vars
  <2> QED  BY <1>1, <2>1, <2>2, QuietJustified
<1> QED
  BY <1>3, <1>4, <1>5, AnnouncedJustified, EventJustified DEF Next, EventTask

\* TunnelJustified, for every set of peers and networks and any queue: however
\* long the event task's awaits take, it leaves no tunnel to a peer that is gone
\* and whose PEER_OFFLINE it has handled (_dispatch_event, _create_tunnel_to_peer).
THEOREM TunnelsAlwaysJustified == Spec => []TunnelJustified
<1>1. JustifiedInv /\ [Next]_vars => JustifiedInv'
  BY NextJustified
<1>2. JustifiedInv => TunnelJustified
  BY DEF JustifiedInv, TunnelJustified, Justified, Online, OfflineFrom
<1> QED  BY InitJustified, <1>1, <1>2, PTL DEF Spec

-----------------------------------------------------------------------------
(* TopologyFollows                                                          *)

FollowsInv ==
    /\ SocketInv /\ TopologyFollows
    /\ topology \in [Networks -> SUBSET Peers]

\* A queued announcement is the last word on the peer it is about, and no word
\* on another.
LEMMA AnnouncedFollows ==
    ASSUME FollowsInv, NEW n \in Networks, NEW p \in Peers,
           Announce(n, p) \/ Withdraw(n, p)
    PROVE  TopologyFollows' /\ topology' \in [Networks -> SUBSET Peers]
<1>1. PICK e \in Events : /\ events' = Append(events, e) /\ e.peer = p /\ e.net = n
                          /\ \/ e.kind = "online" /\ present' = present \cup {<<n, p>>}
                             \/ e.kind = "offline" /\ present' = present \ {<<n, p>>}
  <2>1. CASE Announce(n, p)
    BY <2>1 DEF Announce, Events
  <2>2. CASE Withdraw(n, p)
    BY <2>2 DEF Withdraw, Events
  <2> QED  BY <2>1, <2>2
<1>2. down' = down /\ topology' = topology
  BY DEF Announce, Withdraw
<1>3. events \in Seq(Events)
  BY DEF FollowsInv, SocketInv, Typed
<1>4. /\ DOMAIN events' = 1 .. Len(events) + 1 /\ DOMAIN events = 1 .. Len(events)
      /\ Len(events) \in Nat /\ events'[Len(events) + 1] = e
      /\ \A k \in DOMAIN events : events'[k] = events[k]
  BY <1>1, <1>3
<1>5. ASSUME NEW m \in Networks, NEW q \in Peers, <<m, q>> # <<n, p>>
      PROVE  WillKnow(m, q)' <=> WillKnow(m, q)
  <2>1. About(m, q)' = About(m, q)
    BY <1>1, <1>4, <1>5 DEF About
  <2> QED  BY <1>2, <1>4, <2>1 DEF WillKnow, About
<1>6. WillKnow(n, p)' <=> e.kind = "online"
  <2>1. About(n, p)' = About(n, p) \cup {Len(events) + 1}
    BY <1>1, <1>4 DEF About
  <2>2. \A j \in About(n, p) : j \in 1 .. Len(events)
    BY <1>4 DEF About
  <2>3. \A k \in About(n, p)' : (\A j \in About(n, p)' : j <= k) <=> k = Len(events) + 1
    BY <1>4, <2>1, <2>2
  <2> QED  BY <1>4, <2>1, <2>3 DEF WillKnow
<1>7. \A m \in Networks, q \in Peers :
        <<m, q>> # <<n, p>> => (<<m, q>> \in present' <=> <<m, q>> \in present)
  BY <1>1
<1>8. <<n, p>> \in present' <=> e.kind = "online"
  BY <1>1
<1> QED  BY <1>2, <1>5, <1>6, <1>7, <1>8 DEF FollowsInv, TopologyFollows

\* The event taken off the queue is told to the topology; what is still queued
\* about the peer overrides it.
LEMMA EventFollows ==
    ASSUME FollowsInv, OnPeerOnline \/ OnPeerOffline
    PROVE  TopologyFollows' /\ topology' \in [Networks -> SUBSET Peers]
<1>1. /\ events \in Seq(Events) /\ events # <<>> /\ events' = Tail(events)
      /\ present' = present /\ down' = down /\ topology \in [Networks -> SUBSET Peers]
  BY DEF FollowsInv, SocketInv, Typed, OnPeerOnline, OnPeerOffline
<1>2. /\ Len(events) \in Nat /\ Len(events) >= 1
      /\ DOMAIN events = 1 .. Len(events) /\ DOMAIN events' = 1 .. Len(events) - 1
      /\ \A k \in 1 .. Len(events) - 1 : events'[k] = events[k + 1]
      /\ Head(events) = events[1] /\ events[1] \in Events
  BY <1>1
<1>3. /\ events[1].kind \in {"online", "offline"} /\ events[1].net \in Networks
      /\ topology' = [topology EXCEPT ![events[1].net] =
                        IF events[1].kind = "online" THEN @ \cup {events[1].peer}
                        ELSE @ \ {events[1].peer}]
  BY <1>2, Zenon DEF OnPeerOnline, OnPeerOffline, MeshWith, MeshWithout, Events
<1>4. ASSUME NEW n \in Networks, NEW p \in Peers
      PROVE  WillKnow(n, p)' <=> WillKnow(n, p)
  <2>1. \A k \in Nat : k \in About(n, p)' <=> k >= 1 /\ k + 1 \in About(n, p)
    BY <1>2 DEF About
  <2>2. About(n, p) \subseteq 1 .. Len(events) /\ About(n, p)' \subseteq 1 .. Len(events) - 1
    BY <1>2 DEF About
  <2>3. 1 \in About(n, p) <=> events[1].net = n /\ events[1].peer = p
    BY <1>2 DEF About
  <2>4. CASE About(n, p)' # {}
    <3>1. About(n, p) # {} /\ \E k \in About(n, p) : k > 1
      BY <1>2, <2>1, <2>2, <2>4
    <3>2. ASSUME NEW k \in About(n, p)', events'[k].kind = "online",
                 \A j \in About(n, p)' : j <= k
          PROVE  WillKnow(n, p)
      <4>1. k + 1 \in About(n, p) /\ events[k + 1].kind = "online" /\ k \in Nat
        BY <1>2, <2>1, <2>2, <3>2
      <4>2. ASSUME NEW j \in About(n, p) PROVE j <= k + 1
        <5>1. j = 1 \/ (j - 1 \in Nat /\ j - 1 >= 1 /\ (j - 1) + 1 = j)
          BY <1>2, <2>2
        <5>2. j = 1 \/ j - 1 \in About(n, p)'
          BY <2>1, <5>1
        <5> QED  BY <1>2, <2>2, <3>2, <4>1, <5>2
      <4> QED  BY <4>1, <4>2 DEF WillKnow
    <3>3. ASSUME NEW k \in About(n, p), events[k].kind = "online",
                 \A j \in About(n, p) : j <= k
          PROVE  WillKnow(n, p)'
      <4>1. k > 1 /\ k \in 1 .. Len(events)
        BY <2>2, <3>1, <3>3
      <4>2. k - 1 \in Nat /\ k - 1 >= 1 /\ (k - 1) + 1 = k /\ k - 1 \in 1 .. Len(events) - 1
        BY <1>2, <4>1
      <4>3. k - 1 \in About(n, p)' /\ events'[k - 1].kind = "online"
        BY <1>2, <2>1, <3>3, <4>2
      <4>4. ASSUME NEW j \in About(n, p)' PROVE j <= k - 1
        <5>1. j \in Nat /\ j + 1 \in About(n, p)
          BY <1>2, <2>1, <2>2
        <5> QED  BY <3>3, <4>1, <5>1
      <4> QED  BY <4>3, <4>4 DEF WillKnow
    <3> QED  BY <2>4, <3>1, <3>2, <3>3 DEF WillKnow
  <2>5. CASE About(n, p)' = {}
    <3>1. About(n, p) \subseteq {1}
      <4>1. ASSUME NEW k \in About(n, p), k # 1 PROVE FALSE
        <5>1. k - 1 \in Nat /\ k - 1 >= 1 /\ (k - 1) + 1 = k
          BY <1>2, <2>2, <4>1
        <5> QED  BY <2>1, <2>5, <5>1
      <4> QED  BY <4>1
    <3>2. WillKnow(n, p)' <=> p \in topology'[n]
      BY <2>5 DEF WillKnow
    <3>3. CASE About(n, p) = {}
      BY <1>1, <1>3, <2>3, <3>2, <3>3, Zenon DEF WillKnow
    <3>4. CASE About(n, p) = {1}
      <4>1. WillKnow(n, p) <=> events[1].kind = "online"
        BY <3>4 DEF WillKnow
      <4> QED  BY <1>1, <1>3, <2>3, <3>2, <3>4, <4>1
    <3> QED  BY <3>1, <3>3, <3>4
  <2> QED  BY <2>4, <2>5
<1>5. topology' \in [Networks -> SUBSET Peers]
  BY <1>1, <1>2, <1>3 DEF Events
<1> QED  BY <1>1, <1>4, <1>5 DEF FollowsInv, TopologyFollows

\* TopologyFollows, for every set of peers and networks and any queue: once the
\* queued events are handled, every network's topology knows exactly the peers
\* that are online in it (_handle_events, on_peer_online, on_peer_offline).
THEOREM TopologyAlwaysFollows == Spec => []TopologyFollows
<1>1. Init => FollowsInv
  <2> SUFFICES ASSUME Init PROVE FollowsInv
    OBVIOUS
  <2>0. events = <<>> /\ topology = [n \in Networks |-> {}] /\ present = {}
    BY DEF Init
  <2>1. \A n \in Networks, p \in Peers : About(n, p) = {} /\ topology[n] = {} /\ present = {}
    BY <2>0, DOMAIN events = {} DEF About
  <2>2. topology \in [Networks -> SUBSET Peers]
    BY DEF Init
  <2> QED  BY <2>1, <2>2, InitSocket DEF FollowsInv, TopologyFollows, WillKnow
<1>2. FollowsInv /\ [Next]_vars => FollowsInv'
  <2> SUFFICES ASSUME FollowsInv, [Next]_vars PROVE FollowsInv'
    OBVIOUS
  <2>1. SocketInv'
    BY NextSocket DEF FollowsInv
  <2>2. CASE UNCHANGED <<present, events, topology, down>>
    <3>1. \A n \in Networks, p \in Peers : WillKnow(n, p)' <=> WillKnow(n, p)
      BY <2>2 DEF WillKnow, About
    <3> QED  BY <2>1, <2>2, <3>1 DEF FollowsInv, TopologyFollows
  <2>3. CASE Shutdown
    BY <2>1, <2>3 DEF Shutdown, FollowsInv, TopologyFollows
  <2>4. CASE \/ CreateTunnel \/ Refused \/ Punched \/ Unpunched \/ RelayAnswered
             \/ UNCHANGED vars \/ \E p \in Peers : PeerCloses(p) \/ Stale(p)
    BY <2>2, <2>4 DEF CreateTunnel, Refused, Punched, Unpunched, RelayAnswered, vars,
                      PeerCloses, Stale
  <2>5. CASE \E n \in Networks, p \in Peers : Announce(n, p) \/ Withdraw(n, p)
    BY <2>1, <2>5, AnnouncedFollows DEF FollowsInv
  <2>6. CASE OnPeerOnline \/ OnPeerOffline
    BY <2>1, <2>6, EventFollows DEF FollowsInv
  <2> QED  BY <2>3, <2>4, <2>5, <2>6 DEF Next, EventTask
<1>3. FollowsInv => TopologyFollows
  BY DEF FollowsInv
<1> QED  BY <1>1, <1>2, <1>3, PTL DEF Spec

-----------------------------------------------------------------------------
(***************************************************************************)
(* The process. The refinement rests on the order in which save_identity   *)
(* writes the two files: a public key that is on the disk is that of the   *)
(* private key, because it is written last and nothing is written while it *)
(* is there.                                                               *)
(***************************************************************************)

Saving == {"truncate private", "write private", "truncate public", "write public"}

\* The phases in which the key pair is that of the files.
Loaded == {"connect", "auth", "exit"} \cup Sessions

\* The files, the key pair in memory and the id at the server fit together.
Files ==
    /\ private \in Nat /\ public \in Nat /\ known \in Nat
    /\ keys \in [private : Nat, public : Nat]
    /\ public # 0 => private = public
    /\ known # 0 => public = known
    /\ phase \in Saving =>
         keys.private = keys.public /\ keys.public # 0 /\ public = 0
    /\ phase \in {"truncate public", "write public"} => private = keys.private
    /\ phase \in Loaded => keys.private = private /\ keys.public = public /\ public # 0
    /\ phase \in Sessions => known = keys.public

-----------------------------------------------------------------------------

\* The first start finds no key files.
LEMMA InitFiles == ProcessInit => Files
BY DEF ProcessInit, Files, NoKeys, Saving, Loaded, Sessions

\* ensure_identity and save_identity: a crash before the public key is written
\* leaves none, so the next start writes a new pair, under which no session was held.
LEMMA IdentityFiles ==
    ASSUME MaxKeys \in Nat, Files, EnsureIdentity \/ SaveIdentity
    PROVE  Files'
<1>1. CASE EnsureIdentity
  <2>1. CASE private # 0 /\ public # 0
    <3>0. keys' = [private |-> private, public |-> public]
      BY <1>1, <2>1, Zenon DEF EnsureIdentity, Loadable
    <3>1. /\ keys' \in [private : Nat, public : Nat]
          /\ keys'.private = private /\ keys'.public = public
      <4>1. private \in Nat /\ public \in Nat
        BY Zenon DEF Files
      <4> QED  BY <3>0, <4>1
    <3>2. phase' = "connect" /\ UNCHANGED <<private, public, known>>
      BY <1>1, <2>1, Zenon DEF EnsureIdentity, Loadable, identity
    <3> QED  BY <2>1, <3>1, <3>2, Zenon DEF Files, Saving, Loaded, Sessions
  <2>2. CASE private = 0 \/ public = 0
    <3>1. PICK k \in Fresh : keys' = [private |-> k, public |-> k]
      BY <1>1, <2>2, Zenon DEF EnsureIdentity, Loadable
    <3>2. k \in Nat /\ k # 0
      BY <3>1 DEF Fresh
    <3>3. public = 0
      BY <2>2, Zenon DEF Files
    <3>4. /\ keys' \in [private : Nat, public : Nat]
          /\ keys'.private = k /\ keys'.public = k
      BY <3>1, <3>2
    <3>5. phase' = "truncate private" /\ UNCHANGED <<private, public, known>>
      BY <1>1, <2>2, Zenon DEF EnsureIdentity, Loadable, identity
    <3> QED  BY <3>2, <3>3, <3>4, <3>5, Zenon DEF Files, Saving, Loaded, Sessions
  <2> QED  BY <2>1, <2>2, Zenon DEF Files
<1>2. CASE SaveIdentity
  BY <1>2, ZenonT(30) DEF Files, SaveIdentity, Saving, Loaded, Sessions
<1> QED  BY <1>1, <1>2

\* Every step, a crash included, preserves Files.
LEMMA NextFiles ==
    ASSUME MaxKeys \in Nat, Files, [ProcessNext]_processVars
    PROVE  Files'
<1> USE DEF Files, identity, Saving, Loaded, Sessions
<1>1. CASE EnsureIdentity \/ SaveIdentity
  BY <1>1, IdentityFiles, Zenon
<1>2. CASE Start \/ Connect \/ Authenticate
  BY <1>2, Zenon DEF Start, Connect, Authenticate
<1>3. CASE Fails \/ Exit \/ Crash
  <2>1. keys' = NoKeys /\ phase' = "off" /\ UNCHANGED <<private, public, known>>
    BY <1>3, Zenon DEF Fails, Exit, Crash, Volatile
  <2>2. NoKeys \in [private : Nat, public : Nat]
    BY Zenon DEF NoKeys
  <2> QED  BY <2>1, <2>2, Zenon
<1>4. CASE StartTasks \/ ShutdownDaemon \/ CloseLoop
  BY <1>4, ZenonT(30) DEF StartTasks, ShutdownDaemon, CloseLoop
<1>5. CASE RequestShutdown \/ ReadStarts \/ ReadReturns \/ Receive
  BY <1>5, ZenonT(30) DEF RequestShutdown, ReadStarts, ReadReturns, Receive
<1>6. CASE PanelStartTun \/ PanelStopTun \/ Dashboard
  BY <1>6, Zenon DEF PanelStartTun, PanelStopTun, Dashboard
<1>7. CASE UNCHANGED processVars
  BY <1>7, ZenonT(30) DEF processVars
<1> QED  BY <1>1, <1>2, <1>3, <1>4, <1>5, <1>6, <1>7, Zenon DEF ProcessNext, MainTask

-----------------------------------------------------------------------------

\* authenticate() enrols the client or begins a session, the ends of a process
\* end one, and nothing else is seen.
LEMMA StepIsStable ==
    ASSUME Files, [ProcessNext]_processVars
    PROVE  [Stable!Next]_(Stable!vars)
<1> USE DEF Stable!Next, Stable!Enroll, Stable!Begin, Stable!End, Stable!vars, Sessions, identity
<1>1. CASE Authenticate
  <2>1. keys.public \in Nat \ {0} /\ keys' = keys /\ known' = keys.public /\ phase' = "setup"
    BY <1>1 DEF Authenticate, Files, Loaded
  <2>2. known # 0 => known = keys.public
    BY <1>1 DEF Authenticate, Files, Loaded
  <2> QED  BY <2>1, <2>2, Zenon DEF Files
<1>2. CASE Start \/ EnsureIdentity \/ SaveIdentity \/ Connect
  BY <1>2, Zenon DEF Start, EnsureIdentity, SaveIdentity, Connect
<1>3. CASE Fails \/ Exit \/ Crash \/ CloseLoop
  BY <1>3, Zenon DEF Fails, Exit, Crash, CloseLoop
<1>4. CASE StartTasks \/ ShutdownDaemon
  BY <1>4 DEF StartTasks, ShutdownDaemon
<1>5. CASE RequestShutdown \/ ReadStarts \/ ReadReturns \/ Receive
  BY <1>5 DEF RequestShutdown, ReadStarts, ReadReturns, Receive
<1>6. CASE PanelStartTun \/ PanelStopTun \/ Dashboard
  BY <1>6 DEF PanelStartTun, PanelStopTun, Dashboard
<1>7. CASE UNCHANGED processVars
  BY <1>7 DEF processVars
<1> QED  BY <1>1, <1>2, <1>3, <1>4, <1>5, <1>6, <1>7, Zenon DEF ProcessNext, MainTask

\* KeepsIdentity, for any number of keys: a client that is killed at any step,
\* also between the writes of its two key files, holds all its sessions under
\* the id of the first (ensure_identity, save_identity, authenticate).
THEOREM IdentityIsStable ==
    ASSUME MaxKeys \in Nat
    PROVE  ProcessSpec => KeepsIdentity
<1>1. ProcessInit => Stable!Init
  BY DEF ProcessInit, Stable!Init, Sessions
<1>2. Files /\ [ProcessNext]_processVars => Files'
  BY NextFiles
<1>3. Files /\ [ProcessNext]_processVars => [Stable!Next]_(Stable!vars)
  BY StepIsStable
<1> QED
  BY InitFiles, <1>1, <1>2, <1>3, PTL DEF ProcessSpec, KeepsIdentity, Stable!Spec

-----------------------------------------------------------------------------

\* Every step preserves TunAccounted.
LEMMA NextTun ==
    ASSUME TunAccounted, [ProcessNext]_processVars
    PROVE  TunAccounted'
<1> USE DEF TunAccounted
<1>1. CASE StartTasks \/ PanelStartTun
  <2>1. SetupTun => TunAccounted'
    BY DEF SetupTun, OpenDevice
  <2> QED  BY <1>1, <2>1 DEF StartTasks, PanelStartTun
<1>2. CASE Fails \/ Exit \/ Crash
  BY <1>2, Zenon DEF Fails, Exit, Crash, Volatile
<1>3. CASE PanelStopTun \/ ShutdownDaemon
  BY <1>3 DEF PanelStopTun, ShutdownDaemon, CloseDevice
<1>4. CASE \/ Start \/ EnsureIdentity \/ SaveIdentity \/ Connect \/ Authenticate
           \/ RequestShutdown \/ CloseLoop \/ UNCHANGED processVars
  BY <1>4, Zenon
  DEF Start, EnsureIdentity, SaveIdentity, Connect, Authenticate, RequestShutdown, CloseLoop,
      processVars, device
<1>5. CASE ReadStarts \/ ReadReturns \/ Receive \/ Dashboard
  BY <1>5 DEF ReadStarts, ReadReturns, Receive, Dashboard
<1> QED  BY <1>1, <1>2, <1>3, <1>4, <1>5 DEF ProcessNext, MainTask

\* TunAccounted, for any number of devices: an open TUN device is daemon.tun or
\* one that a second start or a failed route has dropped (_setup_tun,
\* api_feature_stop, _shutdown_daemon).
THEOREM TunAlwaysAccounted == ProcessSpec => []TunAccounted
<1>1. ProcessInit => TunAccounted
  BY DEF ProcessInit, TunAccounted
<1>2. TunAccounted /\ [ProcessNext]_processVars => TunAccounted'
  BY NextTun
<1> QED  BY <1>1, <1>2, PTL DEF ProcessSpec

-----------------------------------------------------------------------------
(***************************************************************************)
(* The control channel. LockedWaiter needs to know who makes which         *)
(* request; OneReader that a request reads the stream itself only while    *)
(* there is no reader task at all.                                         *)
(***************************************************************************)

ChannelTyped ==
    /\ cur \in Conns \cup {Nil}
    /\ lock \in Callers \cup {Nil}
    /\ call \in [Callers -> {"off", "idle", "want", "wait"}]
    /\ kind \in [Callers -> Kinds \cup {Nil}]
    /\ via \in [Callers -> Conns \cup {"queue", Nil}]

\* Only the reconnect task registers and authenticates.
OwnKinds ==
    /\ kind["user"] \in {"list", Nil}
    /\ kind["heartbeat"] \in {"beat", Nil}

LockInv == ChannelTyped /\ OwnKinds /\ LockedWaiter

-----------------------------------------------------------------------------
(* LockedWaiter                                                             *)

\* Nobody holds the lock or waits.
LEMMA InitLock == ChannelInit => LockInv
BY ChannelAssumption DEF ChannelInit, LockInv, ChannelTyped, OwnKinds, LockedWaiter, Callers, Kinds

\* A caller in request() may have the lock or be about to get it.
InRequest(t) == call[t] = "wait" \/ (call[t] = "want" /\ lock = Nil)

\* _on_connection_lost adds a task that does not wait.
LEMMA LostCalls ==
    ASSUME NEW lk, NEW ex, NEW rs, NEW calls \in [Callers -> {"off", "idle", "want", "wait"}],
           Lost(lk, ex, rs, calls)
    PROVE  /\ lock' = lk /\ expected' = ex /\ cur' \in {cur, Nil}
           /\ call' \in [Callers -> {"off", "idle", "want", "wait"}]
           /\ \A t \in Callers : call'[t] = "wait" <=> calls[t] = "wait"
BY DEF Lost, Callers

\* An exception ends the request and gives the lock back.
LEMMA FailedLock ==
    ASSUME LockInv, NEW t \in Callers, NEW rs, InRequest(t), Failed(t, rs)
    PROVE  LockInv'
<1>1. \A u \in Callers \ {t} : call[u] # "wait"
  BY ChannelAssumption DEF LockInv, LockedWaiter, InRequest
<1>2. /\ lock' = Nil /\ expected' = Nil /\ cur' \in {cur, Nil}
      /\ call' \in [Callers -> {"off", "idle", "want", "wait"}]
      /\ \A u \in Callers : call'[u] # "wait"
  <2>1. CASE t = "heartbeat"
    <3> DEFINE calls == [call EXCEPT ![t] = "off"]
    <3>1. Lost(Nil, Nil, rs, calls)
      BY <2>1 DEF Failed
    <3>2. calls \in [Callers -> {"off", "idle", "want", "wait"}]
      BY DEF LockInv, ChannelTyped
    <3>3. \A u \in Callers : calls[u] # "wait"
      BY <1>1 DEF LockInv, ChannelTyped
    <3> HIDE DEF calls
    <3> QED  BY <3>1, <3>2, <3>3, LostCalls
  <2>2. CASE t # "heartbeat"
    BY <1>1, <2>2 DEF Failed, LockInv, ChannelTyped
  <2> QED  BY <2>1, <2>2
<1>3. /\ kind' = [kind EXCEPT ![t] = Nil] /\ via' = [via EXCEPT ![t] = Nil]
  BY DEF Failed
<1>4. ChannelTyped' /\ OwnKinds'
  BY <1>2, <1>3 DEF LockInv, ChannelTyped, OwnKinds, Callers
<1>5. LockedWaiter'
  BY <1>2, ChannelAssumption DEF LockedWaiter
<1> QED  BY <1>4, <1>5 DEF LockInv

\* A reply ends the request, or is the first of the two of authenticate().
LEMMA ReturnedLock ==
    ASSUME LockInv, NEW t \in Callers, call[t] = "wait", Returned(t)
    PROVE  LockInv'
<1>1. \A u \in Callers \ {t} : call[u] # "wait"
  BY DEF LockInv, LockedWaiter
<1>2. lock' = Nil /\ expected' = Nil /\ via' = [via EXCEPT ![t] = Nil] /\ cur' = cur
  BY DEF Returned
<1>3. kind[t] \in {"auth", "register"} => t = "reconnect"
  BY ChannelAssumption DEF LockInv, OwnKinds, Callers, Kinds
<1>4. /\ call' \in [Callers -> {"off", "idle", "want", "wait"}]
      /\ kind' \in [Callers -> Kinds \cup {Nil}] /\ OwnKinds'
      /\ \A u \in Callers : call'[u] # "wait"
  <2>1. CASE kind[t] = "auth"
    BY <1>1, <1>3, <2>1 DEF Returned, Authenticated, LockInv, ChannelTyped, OwnKinds, Callers
  <2>2. CASE kind[t] = "register"
    BY <1>1, <1>3, <2>2 DEF Returned, LockInv, ChannelTyped, OwnKinds, Callers, Kinds
  <2>3. CASE kind[t] \notin {"auth", "register"}
    BY <1>1, <2>3 DEF Returned, LockInv, ChannelTyped, OwnKinds, Callers
  <2> QED  BY <2>1, <2>2, <2>3
<1>5. ChannelTyped'
  BY <1>2, <1>4, Zenon DEF LockInv, ChannelTyped
<1>6. LockedWaiter'
  BY <1>2, <1>4, ChannelAssumption DEF LockedWaiter
<1> QED  BY <1>4, <1>5, <1>6 DEF LockInv

\* A reply of another kind changes nothing but where the holder looks next.
LEMMA PassedOverLock ==
    ASSUME LockInv, NEW t \in Callers, PassedOver(t)
    PROVE  LockInv'
BY DEF LockInv, ChannelTyped, OwnKinds, LockedWaiter, PassedOver

\* A step of request() passes the lock and the wait on together.
LEMMA RequestLock ==
    ASSUME LockInv, NEW t \in Callers, RequestStep(t)
    PROVE  LockInv'
<1>1. CASE Acquire(t)
  <2>1. ChannelTyped' /\ OwnKinds'
    BY <1>1 DEF Acquire, LockInv, ChannelTyped, OwnKinds
  <2>2. \A u \in Callers : call[u] # "wait"
    BY <1>1, ChannelAssumption DEF Acquire, LockInv, LockedWaiter
  <2>3. LockedWaiter'
    BY <1>1, <2>2, ChannelAssumption DEF Acquire, LockInv, ChannelTyped, LockedWaiter
  <2> QED  BY <2>1, <2>3 DEF LockInv
<1>2. CASE AcquireFails(t)
  BY <1>2, FailedLock DEF AcquireFails, InRequest
<1>3. CASE TakeResponse(t)
  <2>1. call[t] = "wait"
        /\ (Failed(t, Tail(responses)) \/ Returned(t) \/ PassedOver(t))
    BY <1>3 DEF TakeResponse
  <2> QED  BY <2>1, FailedLock, ReturnedLock, PassedOverLock DEF InRequest
<1>4. CASE ReadDirectly(t)
  <2>1. call[t] = "wait" /\ (Failed(t, responses) \/ Returned(t) \/ PassedOver(t))
    BY <1>4, ZenonT(30) DEF ReadDirectly
  <2> QED  BY <2>1, FailedLock, ReturnedLock, PassedOverLock DEF InRequest
<1>5. CASE ReadFails(t)
  BY <1>5, FailedLock DEF ReadFails, InRequest
<1> QED  BY <1>1, <1>2, <1>3, <1>4, <1>5 DEF RequestStep

\* A caller that begins wants the lock and does not have it yet.
LEMMA BeginLock ==
    ASSUME LockInv, Begin("user", "list") \/ Begin("heartbeat", "beat") \/ HeartbeatEnds
    PROVE  LockInv'
<1>1. ChannelTyped' /\ OwnKinds'
  BY DEF Begin, HeartbeatEnds, chan, LockInv, ChannelTyped, OwnKinds, Callers, Kinds
<1>2. LockedWaiter'
  <2>1. CASE Begin("user", "list")
    BY <2>1, ChannelAssumption DEF Begin, chan, LockInv, ChannelTyped, LockedWaiter, Callers
  <2>2. CASE Begin("heartbeat", "beat")
    BY <2>2, ChannelAssumption DEF Begin, chan, LockInv, ChannelTyped, LockedWaiter, Callers
  <2>3. CASE HeartbeatEnds
    BY <2>3, ChannelAssumption DEF HeartbeatEnds, chan, LockInv, ChannelTyped, LockedWaiter, Callers
  <2> QED  BY <2>1, <2>2, <2>3
<1> QED  BY <1>1, <1>2 DEF LockInv

\* The end of the reader task changes neither the lock nor who waits for a reply.
LEMMA ReaderEndsLock ==
    ASSUME LockInv, ReaderEnds
    PROVE  LockInv'
<1>1. call \in [Callers -> {"off", "idle", "want", "wait"}]
  BY DEF LockInv, ChannelTyped
<1>2. /\ lock' = lock /\ expected' = expected /\ cur' \in {cur, Nil}
      /\ call' \in [Callers -> {"off", "idle", "want", "wait"}]
      /\ \A t \in Callers : call'[t] = "wait" <=> call[t] = "wait"
  BY <1>1, LostCalls, Zenon DEF ReaderEnds
<1>3. UNCHANGED <<kind, via>>
  BY Zenon DEF ReaderEnds
<1> QED  BY <1>2, <1>3 DEF LockInv, ChannelTyped, OwnKinds, LockedWaiter

\* connect() replaces the stream and leaves the lock alone.
LEMMA ReconnectLock ==
    ASSUME LockInv, NEW c \in Conns, Reconnect(c)
    PROVE  LockInv'
<1>1. ChannelTyped' /\ OwnKinds'
  BY DEF Reconnect, LockInv, ChannelTyped, OwnKinds, Callers, Kinds
<1>2. LockedWaiter'
  BY ChannelAssumption DEF Reconnect, LockInv, ChannelTyped, LockedWaiter, Callers
<1> QED  BY <1>1, <1>2 DEF LockInv

\* close() cancels two of the three callers, and the third keeps the lock.
LEMMA CloseLock ==
    ASSUME LockInv, Close
    PROVE  LockInv'
<1>1. ChannelTyped' /\ OwnKinds'
  BY DEF Close, LockInv, ChannelTyped, OwnKinds, Callers
<1>2. LockedWaiter'
  BY ChannelAssumption DEF Close, LockInv, ChannelTyped, LockedWaiter, Callers
<1> QED  BY <1>1, <1>2 DEF LockInv

\* Every step preserves LockInv.
LEMMA NextLock ==
    ASSUME LockInv, [ChannelNext]_channelVars
    PROVE  LockInv'
<1>1. CASE Timeout \/ LateAnswer
  BY <1>1, FailedLock DEF Timeout, LateAnswer, InRequest, Callers
<1>2. CASE ReaderMessage \/ UNCHANGED channelVars
  BY <1>2 DEF ReaderMessage, channelVars, chan, tasks, LockInv, ChannelTyped, OwnKinds, LockedWaiter
<1>3. CASE \E c \in Conns : ConnStep(c) \/ Break(c)
  BY <1>3 DEF ConnStep, ServerStep, ServerCloses, Recycle, Break, chan, tasks,
              LockInv, ChannelTyped, OwnKinds, LockedWaiter
<1> QED
  BY <1>1, <1>2, <1>3, RequestLock, BeginLock, ReaderEndsLock, ReconnectLock, CloseLock DEF ChannelNext

\* LockedWaiter, for every set of connections and any number of faults: exactly
\* the holder of _network_lock waits for a reply, and the reader task routes the
\* replies to its request (request, _event_loop, _on_connection_lost, close).
THEOREM AlwaysLockedWaiter == ChannelSpec => []LockedWaiter
<1>1. LockInv /\ [ChannelNext]_channelVars => LockInv'
  BY NextLock
<1>2. LockInv => LockedWaiter
  BY DEF LockInv
<1> QED  BY InitLock, <1>1, <1>2, PTL DEF ChannelSpec

-----------------------------------------------------------------------------
(* OneReader                                                                *)

\* While a request reads a stream itself there is no reader task, because there
\* is none as long as _reader_owned is false.
ReaderInv ==
    /\ LockInv
    /\ ~owned => reader = Nil
    /\ \A t \in Callers : via[t] \in Conns => lock = t /\ reader = Nil

\* The reader task runs and the lock is free.
LEMMA InitReader == ChannelInit => ReaderInv
BY InitLock, ChannelAssumption DEF ChannelInit, ReaderInv

\* A request that fails gives the lock back and reads no more.
LEMMA FailedReader ==
    ASSUME ReaderInv, NEW t \in Callers, NEW rs, InRequest(t), Failed(t, rs),
           UNCHANGED <<owned, reader>>
    PROVE  ReaderInv'
<1>1. LockInv'
  BY FailedLock DEF ReaderInv
<1>2. via' = [via EXCEPT ![t] = Nil]
  BY DEF Failed
<1>3. \A u \in Callers : via'[u] \notin Conns
  BY <1>2, ChannelAssumption DEF ReaderInv, LockInv, ChannelTyped, LockedWaiter, InRequest
<1> QED  BY <1>1, <1>3 DEF ReaderInv

\* A request that returns starts the reader task if it was authenticate().
LEMMA ReturnedReader ==
    ASSUME ReaderInv, NEW t \in Callers, call[t] = "wait", Returned(t)
    PROVE  ReaderInv'
<1>1. LockInv'
  BY ReturnedLock DEF ReaderInv
<1>2. via' = [via EXCEPT ![t] = Nil]
  BY DEF Returned
<1>3. \A u \in Callers : via'[u] \notin Conns
  BY <1>2, ChannelAssumption DEF ReaderInv, LockInv, ChannelTyped, LockedWaiter
<1>4. ~owned' => reader' = Nil
  BY DEF ReaderInv, Returned, Authenticated
<1> QED  BY <1>1, <1>3, <1>4, Zenon DEF ReaderInv

\* A request that passes a message over keeps the lock and reads on.
LEMMA PassedOverReader ==
    ASSUME ReaderInv, NEW t \in Callers, call[t] = "wait", PassedOver(t)
    PROVE  ReaderInv'
<1>1. LockInv' /\ lock = t
  BY PassedOverLock, ZenonT(30) DEF ReaderInv, LockInv, LockedWaiter
<1> QED
  BY <1>1, ChannelAssumption DEF ReaderInv, LockInv, ChannelTyped, PassedOver

\* A step of request() reads the stream only while there is no reader task.
LEMMA RequestReader ==
    ASSUME ReaderInv, NEW t \in Callers, RequestStep(t)
    PROVE  ReaderInv'
<1>1. CASE Acquire(t)
  <2>1. LockInv'
    BY RequestLock DEF ReaderInv
  <2> QED  BY <1>1, <2>1, ChannelAssumption DEF Acquire, ReaderInv, LockInv, ChannelTyped, LockedWaiter
<1>2. CASE AcquireFails(t)
  BY <1>2, FailedReader DEF AcquireFails, InRequest
<1>3. CASE TakeResponse(t)
  <2>1. call[t] = "wait"
        /\ \/ Failed(t, Tail(responses)) /\ UNCHANGED <<owned, reader>>
           \/ Returned(t) \/ PassedOver(t)
    BY <1>3 DEF TakeResponse
  <2> QED  BY <2>1, FailedReader, ReturnedReader, PassedOverReader DEF InRequest
<1>4. CASE ReadDirectly(t)
  <2>1. call[t] = "wait"
        /\ \/ Failed(t, responses) /\ UNCHANGED <<owned, reader>>
           \/ Returned(t) \/ PassedOver(t)
    BY <1>4, ZenonT(30) DEF ReadDirectly
  <2> QED  BY <2>1, FailedReader, ReturnedReader, PassedOverReader DEF InRequest
<1>5. CASE ReadFails(t)
  BY <1>5, FailedReader DEF ReadFails, InRequest
<1> QED  BY <1>1, <1>2, <1>3, <1>4, <1>5 DEF RequestStep

\* Every step preserves ReaderInv.
LEMMA NextReader ==
    ASSUME ReaderInv, [ChannelNext]_channelVars
    PROVE  ReaderInv'
<1>1. LockInv'
  BY NextLock DEF ReaderInv
<1>2. CASE Timeout \/ LateAnswer
  BY <1>2, FailedReader DEF Timeout, LateAnswer, InRequest, Callers
<1>3. CASE Begin("user", "list") \/ Begin("heartbeat", "beat") \/ HeartbeatEnds
  BY <1>1, <1>3 DEF Begin, HeartbeatEnds, chan, ReaderInv
<1>4. CASE ReaderMessage
  BY <1>1, <1>4 DEF ReaderMessage, ReaderInv
<1>5. CASE ReaderEnds
  <2>1. lock' = lock
    BY <1>5, LostCalls DEF ReaderEnds, ReaderInv, LockInv, ChannelTyped
  <2> QED  BY <1>1, <1>5, <2>1 DEF ReaderEnds, ReaderInv
<1>6. CASE \E c \in Conns : Reconnect(c)
  BY <1>1, <1>6 DEF Reconnect, ReaderInv
<1>7. CASE \E c \in Conns : ConnStep(c) \/ Break(c)
  BY <1>1, <1>7 DEF ConnStep, ServerStep, ServerCloses, Recycle, Break, chan, tasks, ReaderInv
<1>8. CASE Close
  BY <1>1, <1>8, ChannelAssumption DEF Close, ReaderInv, LockInv, ChannelTyped, Callers
<1>9. CASE UNCHANGED channelVars
  BY <1>1, <1>9 DEF channelVars, chan, tasks, ReaderInv
<1> QED
  BY <1>2, <1>3, <1>4, <1>5, <1>6, <1>7, <1>8, <1>9, RequestReader DEF ChannelNext

\* OneReader, for every set of connections and any number of faults: a stream has
\* one reader at a time, the lock's holder before authentication and the reader
\* task after it (request, _start_background_tasks, _event_loop, close).
THEOREM AlwaysOneReader == ChannelSpec => []OneReader
<1>1. ReaderInv /\ [ChannelNext]_channelVars => ReaderInv'
  BY NextReader
<1>2. ReaderInv => OneReader
  BY ChannelAssumption DEF ReaderInv, OneReader
<1> QED  BY InitReader, <1>1, <1>2, PTL DEF ChannelSpec

=============================================================================
