--------------------------- MODULE ServiceExposure ---------------------------
(***************************************************************************)
(* The provider's side of a forwarded service, client/service_exposure.py: *)
(* services come and go while streams from peers are connected to them.    *)
(* A TCP stream has a task of its own, which connects to the local service *)
(* and then runs one loop per direction; a UDP stream's task only opens    *)
(* the socket its service's streams share.                                 *)
(*                                                                         *)
(* Data is what a peer sends on a stream, numbered; what the local service *)
(* sends changes no state and is left out.  The calls on the manager, of   *)
(* the tunnel's dispatch and of the user, are taken from its interface.    *)
(***************************************************************************)
EXTENDS Naturals, Sequences

CONSTANTS
    Services,    \* identifiers expose() may give out
    Udp,         \* those of them that are UDP services
    Streams,     \* identifiers of streams, chosen by peers
    None,        \* no service
    MaxData      \* bound: data per stream

ASSUME ExposureAssumption ==
    Udp \subseteq Services /\ None \notin Services /\ MaxData \in Nat

VARIABLES
    offered,     \* identifiers not given out yet
    services,    \* _services
    streams,     \* per stream: its service while it is in _streams, or None
    target,      \* per stream: ActiveStream.service_id, None before the stream came
    task,        \* per stream: where its task is
    local,       \* per stream: the connection to the local service
    listed,      \* per stream: its queue is in _stream_queues
    queue,       \* per stream: the data in the queue, which its task also holds
    reading,     \* per stream: forward_from_local runs
    writing,     \* per stream: forward_from_peer runs
    sockets,     \* _udp_sockets
    closers,     \* streams that shutdown() has left to a task
    sent,        \* per stream: the data the peer has sent
    written,     \* per stream: the data the local service was given
    missed       \* streams that were not connected when they should have been closed

stream == <<task, local, listed, queue, reading, writing, written>>
tables == <<offered, services, streams, sockets, closers>>
vars == <<tables, stream, target, sent, missed>>

Init ==
    /\ offered = Services /\ services = {}
    /\ streams = [s \in Streams |-> None] /\ target = [s \in Streams |-> None]
    /\ task = [s \in Streams |-> "none"] /\ local = [s \in Streams |-> "none"]
    /\ listed = [s \in Streams |-> FALSE] /\ queue = [s \in Streams |-> <<>>]
    /\ reading = [s \in Streams |-> FALSE] /\ writing = [s \in Streams |-> FALSE]
    /\ sockets = {} /\ closers = {}
    /\ sent = [s \in Streams |-> 0] /\ written = [s \in Streams |-> <<>>]
    /\ missed = {}

-----------------------------------------------------------------------------
(* Services                                                                 *)

\* expose: the record is made whether or not the server can be told.
Expose(v) ==
    /\ v \in offered
    /\ offered' = offered \ {v}
    /\ services' = services \cup {v}
    /\ UNCHANGED <<streams, sockets, closers, stream, target, sent, missed>>

\* _close_stream, which waits for nothing, for each of the streams: a stream
\* that has no connection yet has none to close.
CloseStreams(closed) ==
    /\ streams' = [s \in Streams |-> IF s \in closed THEN None ELSE streams[s]]
    /\ listed' = [s \in Streams |-> listed[s] /\ s \notin closed]
    /\ local' = [s \in Streams |-> IF s \in closed /\ local[s] = "open" THEN "closed" ELSE local[s]]

\* Those of the streams that have still to connect.
Connecting(closed) == {s \in closed : task[s] \in {"start", "connect"}}

\* Unexpose, if only the record were removed.
UnexposeKeepsStreams(v) ==
    /\ v \in services
    /\ services' = services \ {v}
    /\ sockets' = sockets \ {v}
    /\ UNCHANGED <<offered, closers, streams, stream, target, sent, missed>>

\* unexpose, up to the message to the server.
Unexpose(v) ==
    /\ v \in services
    /\ services' = services \ {v}
    /\ LET closed == {s \in Streams : streams[s] = v} IN
       /\ CloseStreams(closed)
       /\ missed' = missed \cup Connecting(closed)
    /\ sockets' = sockets \ {v}
    /\ UNCHANGED <<offered, closers, task, queue, reading, writing, written, target, sent>>

\* Shutdown, if the streams were only forgotten.
ShutdownForgets ==
    /\ services # {}
    /\ services' = {} /\ sockets' = {}
    /\ streams' = [s \in Streams |-> None]
    /\ UNCHANGED <<offered, closers, stream, target, sent, missed>>

\* shutdown: the tables are cleared at once, the streams closed by tasks.
Shutdown ==
    /\ services # {}
    /\ services' = {} /\ sockets' = {}
    /\ closers' = closers \cup {s \in Streams : streams[s] # None}
    /\ streams' = [s \in Streams |-> None]
    /\ UNCHANGED <<offered, stream, target, sent, missed>>

\* One of these tasks runs.
CloseLater(s) ==
    /\ s \in closers
    /\ closers' = closers \ {s}
    /\ CloseStreams({s})
    /\ missed' = missed \cup Connecting({s})
    /\ UNCHANGED <<offered, services, sockets, task, queue, reading, writing, written, target, sent>>

-----------------------------------------------------------------------------
(* Streams                                                                  *)

\* handle_incoming_stream, with an identifier the peer has not used before.
HandleIncomingStream(v, s) ==
    /\ v \in services /\ target[s] = None
    /\ streams' = [streams EXCEPT ![s] = v]
    /\ target' = [target EXCEPT ![s] = v]
    /\ task' = [task EXCEPT ![s] = "start"]
    /\ UNCHANGED <<offered, services, sockets, closers, local, listed, queue, reading, writing, written,
                   sent, missed>>

\* The task starts: _handle_tcp_stream waits for the connection, while
\* _handle_udp_stream finds or opens the socket of the service.
Start(s) ==
    /\ task[s] = "start"
    /\ IF target[s] \in Udp
       THEN task' = [task EXCEPT ![s] = "done"] /\ sockets' = sockets \cup {target[s]}
       ELSE task' = [task EXCEPT ![s] = "connect"] /\ UNCHANGED sockets
    /\ UNCHANGED <<offered, services, streams, closers, local, listed, queue, reading, writing, written,
                   target, sent, missed>>

\* The connection is there, and a tunnel to the peer.
Connect(s) ==
    /\ task[s] = "connect"
    /\ task' = [task EXCEPT ![s] = "pipe"]
    /\ local' = [local EXCEPT ![s] = "open"]
    /\ listed' = [listed EXCEPT ![s] = TRUE]
    /\ reading' = [reading EXCEPT ![s] = TRUE]
    /\ writing' = [writing EXCEPT ![s] = TRUE]
    /\ UNCHANGED <<tables, queue, written, target, sent, missed>>

\* The connection is refused, or there is no tunnel and it is closed again:
\* the stream stays in _streams.
ConnectFails(s) ==
    /\ task[s] = "connect"
    /\ task' = [task EXCEPT ![s] = "done"]
    /\ UNCHANGED <<tables, local, listed, queue, reading, writing, written, target, sent, missed>>

\* FeedStreamData, if data were kept only while nothing else waits.
FeedStreamDataOne(s) ==
    /\ target[s] # None /\ sent[s] < MaxData
    /\ sent' = [sent EXCEPT ![s] = @ + 1]
    /\ queue' = [queue EXCEPT ![s] = IF listed[s] /\ @ = <<>> THEN Append(@, sent[s] + 1) ELSE @]
    /\ UNCHANGED <<tables, task, local, listed, reading, writing, written, target, missed>>

\* feed_stream_data: without a queue the data is dropped.
FeedStreamData(s) ==
    /\ target[s] # None /\ sent[s] < MaxData
    /\ sent' = [sent EXCEPT ![s] = @ + 1]
    /\ queue' = [queue EXCEPT ![s] = IF listed[s] THEN Append(@, sent[s] + 1) ELSE @]
    /\ UNCHANGED <<tables, task, local, listed, reading, writing, written, target, missed>>

\* forward_from_peer writes what it takes from the queue; writing to a closed
\* or broken connection ends it.
Write(s) ==
    /\ writing[s] /\ queue[s] # <<>>
    /\ queue' = [queue EXCEPT ![s] = Tail(@)]
    /\ \/ /\ local[s] = "open"
          /\ written' = [written EXCEPT ![s] = Append(@, Head(queue[s]))]
          /\ UNCHANGED writing
       \/ /\ writing' = [writing EXCEPT ![s] = FALSE]
          /\ UNCHANGED written
    /\ UNCHANGED <<tables, task, local, listed, reading, target, sent, missed>>

\* forward_from_local reads the end of the stream: the local service closes it,
\* or the manager has.
LocalEnds(s) ==
    /\ reading[s]
    /\ reading' = [reading EXCEPT ![s] = FALSE]
    /\ UNCHANGED <<tables, task, local, listed, queue, writing, written, target, sent, missed>>

\* Both loops have ended: the finally clause of _handle_tcp_stream.
Finish(s) ==
    /\ task[s] = "pipe" /\ ~reading[s] /\ ~writing[s]
    /\ task' = [task EXCEPT ![s] = "done"]
    /\ CloseStreams({s})
    /\ UNCHANGED <<offered, services, sockets, closers, queue, reading, writing, written, target, sent, missed>>

Next ==
    \/ \E v \in Services : Expose(v) \/ Unexpose(v)
    \/ Shutdown
    \/ \E s \in Streams :
         \/ \E v \in Services : HandleIncomingStream(v, s)
         \/ CloseLater(s) \/ Start(s) \/ Connect(s) \/ ConnectFails(s)
         \/ FeedStreamData(s) \/ Write(s) \/ LocalEnds(s) \/ Finish(s)

Spec == Init /\ [][Next]_vars

\* The tasks run, connections come about or fail, and a closed connection ends.
Fairness ==
    \A s \in Streams :
        /\ WF_vars(CloseLater(s)) /\ WF_vars(Start(s)) /\ WF_vars(Connect(s) \/ ConnectFails(s))
        /\ WF_vars(Write(s)) /\ WF_vars(Finish(s))
        /\ WF_vars(local[s] = "closed" /\ LocalEnds(s))

FairSpec == Spec /\ Fairness

-----------------------------------------------------------------------------
(* Properties                                                               *)

\* The local service gets the data of a stream in order and without gaps: what
\* is dropped is dropped before the connection was there, or after its end.
NoGaps ==
    \A s \in Streams :
        \A k \in 1 .. Len(written[s]) - 1 : written[s][k + 1] = written[s][k] + 1

\* "Unregister a service and close all active streams" (unexpose): an open
\* connection is one of an exposed service, or one that unexpose or shutdown
\* passed over because its task had still to connect.
OpenIsExposed ==
    \A s \in Streams :
        local[s] = "open" => target[s] \in services \/ s \in missed \/ s \in closers

\* What shutdown leaves to tasks is done: the connection of a stream whose
\* service is gone is closed in the end, unless it was passed over.
ShutdownCloses ==
    \A s \in Streams :
        target[s] # None /\ target[s] \notin services ~> local[s] # "open" \/ s \in missed

=============================================================================
