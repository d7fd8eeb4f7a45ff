--------------------------- MODULE ServiceConsumer ---------------------------
(***************************************************************************)
(* The consumer's side of a forwarded service, client/service_consumer.py: *)
(* map_service chooses a local port and starts a listener on it, several   *)
(* calls at a time, while other programs take ports too; unmap_service     *)
(* closes the listener; every connection a listener accepts has a task     *)
(* with one loop per direction.                                            *)
(*                                                                         *)
(* TCP and UDP listeners differ in the table they are kept in and in what  *)
(* they accept; a UDP listener has no connections.  wait_closed returns at *)
(* once, as in the Python of the Dockerfile.  Calls come from the          *)
(* interface: the user's, and feed_stream_data from the tunnel's dispatch. *)
(***************************************************************************)
EXTENDS Naturals

CONSTANTS
    Maps,         \* identifiers map_service may give out
    UdpMaps,      \* those of them that are for UDP services
    AutoPorts,    \* AUTO_PORT_START .. AUTO_PORT_END
    OtherPorts,   \* ports outside of the range
    Conns,        \* connections of local clients
    NoMap,        \* no port, no mapping
    MaxPending    \* bound: data waiting in a queue

Ports == AutoPorts \cup OtherPorts

ASSUME ConsumerAssumption ==
    /\ AutoPorts \subseteq Nat
    /\ NoMap \notin [port : Ports, strategy : {"auto", "same", "manual"}]

VARIABLES
    call,       \* per identifier: where the map_service call is
    mapped,     \* _mapped: per identifier the local port and strategy, or NoMap
    port,       \* per identifier: the port its listener was asked for
    listener,   \* per identifier: its listener: "none", "open" or "closed"
    known,      \* _servers and _udp_transports
    foreign,    \* ports other programs have bound
    conn,       \* per connection: "none", "open" or "closed"
    queues,     \* _stream_queues: connections that have a queue in it
    pending,    \* per connection: data in its queue
    toPeer,     \* connections whose forward_local_to_peer runs
    toLocal,    \* connections whose forward_peer_to_local runs
    early       \* mappings removed before their listener was there

listeners == <<call, mapped, port, listener, known, early>>
connections == <<conn, queues, pending, toPeer, toLocal>>
consumerVars == <<listeners, foreign, connections>>

ConsumerInit ==
    /\ call = [m \in Maps |-> "none"]
    /\ mapped = [m \in Maps |-> NoMap]
    /\ port = [m \in Maps |-> NoMap]
    /\ listener = [m \in Maps |-> "none"]
    /\ known = {} /\ foreign = {} /\ early = {}
    /\ conn = [k \in Conns |-> "none"]
    /\ pending = [k \in Conns |-> 0]
    /\ queues = {} /\ toPeer = {} /\ toLocal = {}

-----------------------------------------------------------------------------
(* Ports                                                                    *)

\* What the operating system has bound, for TCP or for UDP (external).
Bound(udp) == foreign \cup {port[m] : m \in {n \in Maps : listener[n] = "open" /\ (n \in UdpMaps) = udp}}

\* _port_is_free: a TCP socket is bound, whatever the mapping is for.
PortIsFree(p) == p \notin Bound(FALSE)

\* The ports _find_auto_port passes over.
Used == {mapped[m].port : m \in {n \in Maps : mapped[n] # NoMap}}

AutoFree == {p \in AutoPorts : p \notin Used /\ PortIsFree(p)}

\* The port _find_auto_port returns; none if it raises OSError.
FirstFree(p) == p \in AutoFree /\ \A q \in AutoFree : p <= q

\* Another program binds or frees a port (external).
Foreign(p) ==
    /\ \/ p \notin Bound(FALSE) \cup Bound(TRUE) /\ foreign' = foreign \cup {p}
       \/ p \in foreign /\ foreign' = foreign \ {p}
    /\ UNCHANGED <<listeners, connections>>

-----------------------------------------------------------------------------
(* map_service and unmap_service                                            *)

\* The call up to the await of the listener: the record is made first.
Map(m, p, strategy) ==
    /\ call[m] = "none"
    /\ call' = [call EXCEPT ![m] = "start"]
    /\ mapped' = [mapped EXCEPT ![m] = [port |-> p, strategy |-> strategy]]
    /\ port' = [port EXCEPT ![m] = p]
    /\ UNCHANGED <<listener, known, early, foreign, connections>>

\* Strategy "auto": the first free port.
MapAuto(m) == \E p \in AutoPorts : FirstFree(p) /\ Map(m, p, "auto")

\* Strategy "same": the remote port if it is free, else as "auto".
MapSame(m, p) ==
    \/ PortIsFree(p) /\ Map(m, p, "same")
    \/ ~PortIsFree(p) /\ \E q \in AutoPorts : FirstFree(q) /\ Map(m, q, "same")

\* Strategy "manual": the port is taken as it is.
MapManual(m, p) == Map(m, p, "manual")

\* The listener is there.
Listen(m) ==
    /\ call[m] = "start" /\ port[m] \notin Bound(m \in UdpMaps)
    /\ call' = [call EXCEPT ![m] = "done"]
    /\ listener' = [listener EXCEPT ![m] = "open"]
    /\ known' = known \cup {m}
    /\ UNCHANGED <<mapped, port, early, foreign, connections>>

\* The port cannot be bound: the call raises and leaves its record.
ListenFails(m) ==
    /\ call[m] = "start" /\ port[m] \in Bound(m \in UdpMaps)
    /\ call' = [call EXCEPT ![m] = "failed"]
    /\ UNCHANGED <<mapped, port, listener, known, early, foreign, connections>>

\* UnmapService, if the listener went on.
UnmapServiceKeepsListener(m) ==
    /\ mapped[m] # NoMap
    /\ mapped' = [mapped EXCEPT ![m] = NoMap]
    /\ early' = IF call[m] = "start" THEN early \cup {m} ELSE early
    /\ known' = known \ {m}
    /\ UNCHANGED <<call, port, listener, foreign, connections>>

\* unmap_service, and shutdown, which calls it for one mapping after the other.
UnmapService(m) ==
    /\ mapped[m] # NoMap
    /\ mapped' = [mapped EXCEPT ![m] = NoMap]
    /\ early' = IF call[m] = "start" THEN early \cup {m} ELSE early
    /\ known' = known \ {m}
    /\ listener' = [listener EXCEPT ![m] = IF m \in known THEN "closed" ELSE @]
    /\ UNCHANGED <<call, port, foreign, connections>>

-----------------------------------------------------------------------------
(* Connections                                                              *)

\* handle_connection: without a tunnel to the provider it is closed again.
HandleConnection(k, m) ==
    /\ conn[k] = "none" /\ listener[m] = "open" /\ m \notin UdpMaps
    /\ \/ /\ conn' = [conn EXCEPT ![k] = "closed"]
          /\ UNCHANGED <<queues, toPeer, toLocal>>
       \/ /\ conn' = [conn EXCEPT ![k] = "open"]
          /\ queues' = queues \cup {k}
          /\ toPeer' = toPeer \cup {k}
          /\ toLocal' = toLocal \cup {k}
    /\ UNCHANGED <<listeners, foreign, pending>>

\* feed_stream_data: without a queue the data is dropped.
FeedLocal(k) ==
    /\ k \in queues /\ pending[k] < MaxPending
    /\ pending' = [pending EXCEPT ![k] = @ + 1]
    /\ UNCHANGED <<listeners, foreign, conn, queues, toPeer, toLocal>>

\* forward_peer_to_local writes, and ends if the client is gone.
ForwardPeerToLocal(k) ==
    /\ k \in toLocal /\ pending[k] > 0
    /\ pending' = [pending EXCEPT ![k] = @ - 1]
    /\ toLocal' \in {toLocal, toLocal \ {k}}
    /\ UNCHANGED <<listeners, foreign, conn, queues, toPeer>>

\* forward_local_to_peer ends: the client has closed its side.
LocalClientEnds(k) ==
    /\ k \in toPeer
    /\ toPeer' = toPeer \ {k}
    /\ UNCHANGED <<listeners, foreign, conn, queues, pending, toLocal>>

\* Both loops have ended: the finally clause.
FinishConn(k) ==
    /\ conn[k] = "open" /\ k \notin toPeer \cup toLocal
    /\ conn' = [conn EXCEPT ![k] = "closed"]
    /\ queues' = queues \ {k}
    /\ UNCHANGED <<listeners, foreign, pending, toPeer, toLocal>>

ConsumerNext ==
    \/ \E m \in Maps :
         \/ MapAuto(m)
         \/ \E p \in Ports : MapSame(m, p) \/ MapManual(m, p)
         \/ Listen(m) \/ ListenFails(m) \/ UnmapService(m)
    \/ \E p \in Ports : Foreign(p)
    \/ \E k \in Conns :
         \/ \E m \in Maps : HandleConnection(k, m)
         \/ FeedLocal(k) \/ ForwardPeerToLocal(k) \/ LocalClientEnds(k) \/ FinishConn(k)

ConsumerSpec == ConsumerInit /\ [][ConsumerNext]_consumerVars

-----------------------------------------------------------------------------
(* Properties                                                               *)

\* Calls of map_service that overlap never choose one port with strategy "auto",
\* although _port_is_free still finds it free; and after "Unmap a service and
\* close its local listener" (unmap_service) an open listener is one of a
\* mapping, or was not yet there when its mapping was removed.
MappingsSound ==
    \A m \in Maps :
        /\ listener[m] = "open" => (m \in known /\ mapped[m] # NoMap) \/ m \in early
        /\ mapped[m] # NoMap /\ mapped[m].strategy = "auto" =>
             \A n \in Maps \ {m} :
                 mapped[n] = NoMap \/ mapped[n].strategy # "auto" \/ mapped[n].port # mapped[m].port

=============================================================================
