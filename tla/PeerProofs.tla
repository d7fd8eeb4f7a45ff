----------------------------- MODULE PeerProofs -----------------------------
(***************************************************************************)
(* Proofs about what two peers are to each other, for every set of         *)
(* services, streams and ports and any amount of data, and for any number  *)
(* of tunnels, rebinds, duplicates and datagrams on their way:             *)
(* OpenIsExposed and NoGaps hold of ServiceExposure, MappingsSound of      *)
(* ServiceConsumer, KeyedRemote of Tunnel.                                 *)
(***************************************************************************)
EXTENDS Tunnel, ServiceExposure, ServiceConsumer, Integers, TLAPS

\* The provers to try on a leaf that names none, and how long.
USE SMTT(30), ZenonT(30)

(***************************************************************************)
(* The exposing end.                                                       *)
(***************************************************************************)

Tasks == {"none", "start", "connect", "pipe", "done"}

Typed ==
    /\ services \subseteq Services
    /\ streams \in [Streams -> Services \cup {None}]
    /\ target \in [Streams -> Services \cup {None}]
    /\ task \in [Streams -> Tasks]
    /\ local \in [Streams -> {"none", "open", "closed"}]
    /\ listed \in [Streams -> BOOLEAN]

\* A stream has a connection only once its task has connected, and is listed
\* while the connection is open.
OnTarget(s) ==
    /\ local[s] = "open" => task[s] = "pipe" /\ listed[s]
    /\ target[s] = None => task[s] = "none"
    /\ streams[s] # None => streams[s] = target[s] /\ streams[s] \in services

\* The connection is open or may still come about.
MayBeOpen(s) == local[s] = "open" \/ task[s] \in {"start", "connect"}

\* Such a stream is one the next unexpose or shutdown finds in _streams, or one
\* that a call of theirs has already come across.
Found(s) == streams[s] # None \/ s \in missed \/ s \in closers

ExposedInv ==
    /\ Typed
    /\ \A s \in Streams : OnTarget(s) /\ (MayBeOpen(s) => Found(s))

-----------------------------------------------------------------------------
(* OpenIsExposed                                                            *)

\* There are no streams at first.
LEMMA InitExposed == Init => ExposedInv
BY ExposureAssumption DEF Init, ExposedInv, Typed, Tasks, OnTarget, MayBeOpen, Found

\* unexpose takes the streams it finds off _streams and closes or records them.
LEMMA ServiceExposed ==
    ASSUME ExposedInv, NEW v \in Services, Expose(v) \/ Unexpose(v)
    PROVE  ExposedInv'
<1>1. CASE Expose(v)
  BY <1>1 DEF Expose, stream, ExposedInv, Typed, OnTarget, MayBeOpen, Found
<1>2. CASE Unexpose(v)
  <2>1. Typed'
    BY <1>2, ExposureAssumption DEF Unexpose, CloseStreams, ExposedInv, Typed
  <2>2. ASSUME NEW s \in Streams
        PROVE  OnTarget(s)' /\ (MayBeOpen(s) => Found(s))'
    <3>1. CASE streams[s] = v
      BY <1>2, <3>1, ExposureAssumption
      DEF Unexpose, CloseStreams, Connecting, ExposedInv, Typed, OnTarget, MayBeOpen, Found
    <3>2. CASE streams[s] # v
      BY <1>2, <3>2, ExposureAssumption
      DEF Unexpose, CloseStreams, Connecting, ExposedInv, Typed, OnTarget, MayBeOpen, Found
    <3> QED  BY <3>1, <3>2
  <2> QED  BY <2>1, <2>2 DEF ExposedInv
<1> QED  BY <1>1, <1>2

\* shutdown leaves every stream it removes to a task.
LEMMA ShutdownExposed ==
    ASSUME ExposedInv, Shutdown
    PROVE  ExposedInv'
<1>1. Typed'
  BY ExposureAssumption DEF Shutdown, stream, ExposedInv, Typed
<1>2. ASSUME NEW s \in Streams
      PROVE  OnTarget(s)' /\ (MayBeOpen(s) => Found(s))'
  BY ExposureAssumption DEF Shutdown, stream, ExposedInv, Typed, OnTarget, MayBeOpen, Found
<1> QED  BY <1>1, <1>2 DEF ExposedInv

\* A stream that is closed has no open connection left.
LEMMA ClosedExposed ==
    ASSUME ExposedInv, NEW s \in Streams, CloseLater(s) \/ Finish(s)
    PROVE  ExposedInv'
<1>1. Typed'
  <2>1. CASE CloseLater(s)
    BY <2>1, ExposureAssumption DEF CloseLater, CloseStreams, ExposedInv, Typed
  <2>2. CASE Finish(s)
    BY <2>2, ExposureAssumption DEF Finish, CloseStreams, ExposedInv, Typed, Tasks
  <2> QED  BY <2>1, <2>2
<1>2. ASSUME NEW r \in Streams
      PROVE  OnTarget(r)' /\ (MayBeOpen(r) => Found(r))'
  <2>1. CASE CloseLater(s)
    BY <2>1, ExposureAssumption
    DEF CloseLater, CloseStreams, Connecting, ExposedInv, Typed, OnTarget, MayBeOpen, Found
  <2>2. CASE Finish(s)
    BY <2>2, ExposureAssumption
    DEF Finish, CloseStreams, ExposedInv, Typed, OnTarget, MayBeOpen, Found
  <2> QED  BY <2>1, <2>2
<1> QED  BY <1>1, <1>2 DEF ExposedInv

\* A stream is in _streams before its task connects.
LEMMA StreamExposed ==
    ASSUME ExposedInv, NEW s \in Streams,
           \/ \E v \in Services : HandleIncomingStream(v, s)
           \/ Start(s) \/ Connect(s) \/ ConnectFails(s)
    PROVE  ExposedInv'
<1>1. Typed'
  <2>1. CASE \E v \in Services : HandleIncomingStream(v, s)
    BY <2>1 DEF HandleIncomingStream, ExposedInv, Typed, Tasks
  <2>2. CASE Start(s)
    BY <2>2 DEF Start, ExposedInv, Typed, Tasks
  <2>3. CASE Connect(s) \/ ConnectFails(s)
    BY <2>3, ZenonT(30) DEF Connect, ConnectFails, tables, ExposedInv, Typed, Tasks
  <2> QED  BY <2>1, <2>2, <2>3
<1>2. ASSUME NEW r \in Streams
      PROVE  OnTarget(r)' /\ (MayBeOpen(r) => Found(r))'
  <2>1. CASE \E v \in Services : HandleIncomingStream(v, s)
    BY <2>1, ExposureAssumption
    DEF HandleIncomingStream, ExposedInv, Typed, OnTarget, MayBeOpen, Found
  <2>2. CASE Start(s)
    BY <2>2 DEF Start, ExposedInv, Typed, OnTarget, MayBeOpen, Found
  <2>3. CASE Connect(s) \/ ConnectFails(s)
    BY <2>3 DEF Connect, ConnectFails, tables, ExposedInv, Typed, OnTarget, MayBeOpen, Found
  <2> QED  BY <2>1, <2>2, <2>3
<1> QED  BY <1>1, <1>2 DEF ExposedInv

\* Every step preserves ExposedInv.
LEMMA NextExposed ==
    ASSUME ExposedInv, [Next]_vars
    PROVE  ExposedInv'
<1>1. CASE \E s \in Streams : FeedStreamData(s) \/ Write(s) \/ LocalEnds(s)
  BY <1>1 DEF FeedStreamData, Write, LocalEnds, tables, ExposedInv, Typed, OnTarget, MayBeOpen, Found
<1>2. CASE UNCHANGED vars
  BY <1>2 DEF vars, tables, stream, ExposedInv, Typed, OnTarget, MayBeOpen, Found
<1> QED
  BY <1>1, <1>2, ServiceExposed, ShutdownExposed, ClosedExposed, StreamExposed DEF Next

\* OpenIsExposed, for every set of services and streams: an open connection is
\* one of an exposed service, or one that unexpose or shutdown passed over or
\* has left to a task (handle_incoming_stream, _handle_tcp_stream, unexpose, shutdown).
THEOREM OpenAlwaysExposed == Spec => []OpenIsExposed
<1>1. ExposedInv /\ [Next]_vars => ExposedInv'
  BY NextExposed
<1>2. ExposedInv => OpenIsExposed
  BY DEF ExposedInv, OpenIsExposed, OnTarget, MayBeOpen, Found
<1> QED  BY InitExposed, <1>1, <1>2, PTL DEF Spec

-----------------------------------------------------------------------------
(* NoGaps                                                                   *)

\* Before its task has connected a stream has no queue that data could go to;
\* while its connection is open and its loop runs, what is written and what
\* waits in the queue are the last data of the peer.
Flow(s) ==
    /\ sent[s] \in Nat /\ queue[s] \in Seq(Int) /\ written[s] \in Seq(Int)
    /\ task[s] \in {"none", "start", "connect"} =>
         ~listed[s] /\ ~writing[s] /\ queue[s] = <<>> /\ written[s] = <<>>
    /\ writing[s] /\ local[s] = "open" =>
         /\ \A k \in 1 .. Len(queue[s]) : queue[s][k] = sent[s] - Len(queue[s]) + k
         /\ written[s] # <<>> => written[s][Len(written[s])] = sent[s] - Len(queue[s])
    /\ \A k \in 1 .. Len(written[s]) - 1 : written[s][k + 1] = written[s][k] + 1

Functions ==
    /\ sent \in [Streams -> Nat] /\ writing \in [Streams -> BOOLEAN]
    /\ queue \in [Streams -> Seq(Int)] /\ written \in [Streams -> Seq(Int)]

FlowInv == ExposedInv /\ Functions /\ \A s \in Streams : Flow(s)

\* Nothing is sent, queued or written at first.
LEMMA InitFlow == Init => FlowInv
BY InitExposed DEF Init, FlowInv, Functions, Flow

\* A step that leaves the data alone, lists no stream, opens no connection and
\* takes no task back.
LEMMA QuietFlow ==
    ASSUME FlowInv, ExposedInv', UNCHANGED <<sent, queue, written, writing>>,
           \A s \in Streams :
               /\ task'[s] \in {"none", "start", "connect"} =>
                    task[s] \in {"none", "start", "connect"} /\ (listed'[s] => listed[s])
               /\ local'[s] = "open" => local[s] = "open"
    PROVE  FlowInv'
BY ZenonT(30) DEF FlowInv, Functions, Flow

\* feed_stream_data appends behind what waits.
LEMMA FeedFlow ==
    ASSUME FlowInv, ExposedInv', NEW s \in Streams, FeedStreamData(s)
    PROVE  FlowInv'
<1>1. /\ sent' = [sent EXCEPT ![s] = @ + 1]
      /\ queue' = [queue EXCEPT ![s] = IF listed[s] THEN Append(@, sent[s] + 1) ELSE @]
      /\ UNCHANGED <<task, local, listed, writing, written>>
  BY DEF FeedStreamData
<1>2. Functions'
  BY <1>1 DEF FlowInv, Functions
<1>3. Flow(s)'
  <2>1. CASE ~listed[s]
    <3>1. ~(writing[s] /\ local[s] = "open")
      BY <2>1, ZenonT(30) DEF FlowInv, ExposedInv, OnTarget
    <3> QED  BY <1>1, <2>1, <3>1 DEF FlowInv, Functions, Flow
  <2>2. CASE listed[s]
    <3>1. /\ sent'[s] = sent[s] + 1 /\ queue'[s] = Append(queue[s], sent[s] + 1)
          /\ sent[s] \in Nat /\ queue[s] \in Seq(Int) /\ Flow(s)
      BY <1>1, <2>2 DEF FlowInv, Functions
    <3>2. /\ Len(queue'[s]) = Len(queue[s]) + 1 /\ queue'[s] \in Seq(Int)
          /\ Len(queue[s]) \in Nat
          /\ \A k \in 1 .. Len(queue[s]) : queue'[s][k] = queue[s][k]
          /\ queue'[s][Len(queue[s]) + 1] = sent[s] + 1
      BY <3>1
    <3>3. sent'[s] - Len(queue'[s]) = sent[s] - Len(queue[s])
      <4>1. \A a, b \in Int : (a + 1) - (b + 1) = a - b
        OBVIOUS
      <4>2. sent[s] \in Int /\ Len(queue[s]) \in Int
        BY <3>1, <3>2
      <4>3. sent'[s] = sent[s] + 1 /\ Len(queue'[s]) = Len(queue[s]) + 1
        BY <3>1, <3>2
      <4> QED  BY <4>1, <4>2, <4>3, Zenon
    <3>4. ASSUME writing[s], local[s] = "open"
          PROVE  \A k \in 1 .. Len(queue'[s]) : queue'[s][k] = sent'[s] - Len(queue'[s]) + k
      <4>1. \A k \in 1 .. Len(queue[s]) : queue[s][k] = sent[s] - Len(queue[s]) + k
        BY <3>1, <3>4 DEF Flow
      <4> TAKE k \in 1 .. Len(queue'[s])
      <4>2. CASE k = Len(queue[s]) + 1
        BY <3>1, <3>2, <4>2
      <4>3. CASE k # Len(queue[s]) + 1
        <5>1. k \in 1 .. Len(queue[s])
          BY <3>2, <4>3
        <5>2. queue'[s][k] = sent[s] - Len(queue[s]) + k
          BY <3>2, <4>1, <5>1
        <5> QED  BY <3>1, <3>2, <5>1, <5>2
      <4> QED  BY <4>2, <4>3
    <3>5. task[s] \notin {"none", "start", "connect"}
      BY <2>2, <3>1 DEF Flow
    <3>6. /\ sent'[s] \in Nat /\ written'[s] = written[s] /\ written[s] \in Seq(Int)
          /\ task'[s] = task[s] /\ writing'[s] = writing[s] /\ local'[s] = local[s]
          /\ \A k \in 1 .. Len(written[s]) - 1 : written[s][k + 1] = written[s][k] + 1
          /\ writing[s] /\ local[s] = "open" /\ written[s] # <<>> =>
               written[s][Len(written[s])] = sent[s] - Len(queue[s])
      BY <1>1, <3>1 DEF Flow
    <3> QED  BY <3>2, <3>3, <3>5, <3>6, <3>4, Zenon DEF Flow
  <2> QED  BY <2>1, <2>2
<1>4. \A r \in Streams \ {s} : Flow(r)'
  BY <1>1 DEF FlowInv, Functions, Flow
<1> QED  BY <1>2, <1>3, <1>4 DEF FlowInv

\* forward_from_peer writes the next one, or ends.
LEMMA WriteFlow ==
    ASSUME FlowInv, ExposedInv', NEW s \in Streams, Write(s)
    PROVE  FlowInv'
<1>1. /\ writing[s] /\ queue[s] # <<>> /\ queue' = [queue EXCEPT ![s] = Tail(@)]
      /\ UNCHANGED <<task, local, listed, sent>>
  BY DEF Write, tables
<1>2. /\ queue[s] \in Seq(Int) /\ Tail(queue[s]) \in Seq(Int) /\ Head(queue[s]) \in Int
      /\ Head(queue[s]) = queue[s][1] /\ Len(queue[s]) \in Nat /\ Len(queue[s]) >= 1
      /\ Len(Tail(queue[s])) = Len(queue[s]) - 1
      /\ \A k \in 1 .. Len(queue[s]) - 1 : Tail(queue[s])[k] = queue[s][k + 1]
  BY <1>1 DEF FlowInv, Functions
<1>3. task[s] \notin {"none", "start", "connect"} /\ Flow(s) /\ sent[s] \in Nat
  BY <1>1 DEF FlowInv, Flow
<1>4. CASE local[s] = "open" /\ written' = [written EXCEPT ![s] = Append(@, Head(queue[s]))]
           /\ writing' = writing
  <2>1. Functions'
    BY <1>1, <1>2, <1>4 DEF FlowInv, Functions
  <2>2. /\ written[s] \in Seq(Int) /\ Len(written[s]) \in Nat
        /\ written'[s] = Append(written[s], Head(queue[s])) /\ queue'[s] = Tail(queue[s])
    BY <1>1, <1>4 DEF FlowInv, Functions
  <2>3. /\ Len(written'[s]) = Len(written[s]) + 1 /\ written'[s] \in Seq(Int)
        /\ \A k \in 1 .. Len(written[s]) : written'[s][k] = written[s][k]
        /\ written'[s][Len(written[s]) + 1] = Head(queue[s])
    BY <1>2, <2>2
  <2>4. Head(queue[s]) = sent[s] - Len(queue[s]) + 1
    BY <1>1, <1>2, <1>3, <1>4 DEF Flow
  <2>5. written[s] # <<>> => Head(queue[s]) = written[s][Len(written[s])] + 1
    BY <1>1, <1>2, <1>3, <1>4, <2>4 DEF Flow
  <2>6. \A k \in 1 .. Len(written'[s]) - 1 : written'[s][k + 1] = written'[s][k] + 1
    <3> SUFFICES ASSUME NEW k \in 1 .. Len(written'[s]) - 1
                 PROVE  written'[s][k + 1] = written'[s][k] + 1
      OBVIOUS
    <3>1. CASE k = Len(written[s])
      BY <2>2, <2>3, <2>5, <3>1
    <3>2. CASE k # Len(written[s])
      BY <1>3, <2>2, <2>3, <3>2 DEF Flow
    <3> QED  BY <3>1, <3>2
  <2>7. \A k \in 1 .. Len(queue'[s]) : queue'[s][k] = sent[s] - Len(queue'[s]) + k
    <3>1. \A k \in 1 .. Len(queue[s]) : queue[s][k] = sent[s] - Len(queue[s]) + k
      BY <1>1, <1>3, <1>4 DEF Flow
    <3> TAKE k \in 1 .. Len(queue'[s])
    <3>2. k + 1 \in 1 .. Len(queue[s]) /\ k \in 1 .. Len(queue[s]) - 1
      BY <1>2, <2>2
    <3>3. queue'[s][k] = sent[s] - Len(queue[s]) + (k + 1)
      BY <1>2, <2>2, <3>1, <3>2
    <3>4. Len(queue'[s]) = Len(queue[s]) - 1 /\ Len(queue[s]) \in Int /\ sent[s] \in Int /\ k \in Int
      BY <1>2, <1>3, <2>2
    <3>5. \A a, b \in Int : a - b + (k + 1) = a - (b - 1) + k
      BY <3>4
    <3> QED  BY <3>3, <3>4, <3>5, Zenon
  <2>8. written'[s][Len(written'[s])] = sent[s] - Len(queue'[s])
    BY <1>2, <1>3, <2>2, <2>3, <2>4
  <2>9. Flow(s)'
    BY <1>1, <1>2, <1>3, <1>4, <2>2, <2>3, <2>6, <2>7, <2>8, ZenonT(30) DEF Flow
  <2>10. \A r \in Streams \ {s} : Flow(r)'
    BY <1>1, <1>4, ZenonT(30) DEF FlowInv, Functions, Flow
  <2> QED  BY <2>1, <2>9, <2>10 DEF FlowInv
<1>5. CASE writing' = [writing EXCEPT ![s] = FALSE] /\ written' = written
  <2>1. Functions'
    BY <1>1, <1>2, <1>5 DEF FlowInv, Functions
  <2>2. Flow(s)'
    BY <1>1, <1>2, <1>3, <1>5, ZenonT(30) DEF FlowInv, Functions, Flow
  <2>3. \A r \in Streams \ {s} : Flow(r)'
    BY <1>1, <1>5 DEF FlowInv, Functions, Flow
  <2> QED  BY <2>1, <2>2, <2>3 DEF FlowInv
<1> QED  BY <1>4, <1>5 DEF Write

\* A stream connects with an empty queue and nothing written.
LEMMA ConnectFlow ==
    ASSUME FlowInv, ExposedInv', NEW s \in Streams, Connect(s)
    PROVE  FlowInv'
BY DEF Connect, FlowInv, Functions, Flow, ExposedInv, Typed, Tasks

\* Every step preserves FlowInv.
LEMMA NextFlow ==
    ASSUME FlowInv, [Next]_vars
    PROVE  FlowInv'
<1>1. ExposedInv' /\ Typed
  BY NextExposed DEF FlowInv, ExposedInv
<1>2. CASE (\E v \in Services : Expose(v) \/ Unexpose(v)) \/ Shutdown
  BY <1>1, <1>2, QuietFlow DEF Expose, Unexpose, Shutdown, CloseStreams, stream, Typed
<1>3. CASE \E s \in Streams : CloseLater(s) \/ Finish(s)
  BY <1>1, <1>3, QuietFlow DEF CloseLater, Finish, CloseStreams, Typed
<1>4. CASE \E s \in Streams : \E v \in Services : HandleIncomingStream(v, s)
  <2>1. PICK s \in Streams : \E v \in Services : HandleIncomingStream(v, s)
    BY <1>4
  <2>2. task[s] = "none"
    BY <2>1 DEF HandleIncomingStream, FlowInv, ExposedInv, OnTarget
  <2> QED  BY <1>1, <2>1, <2>2, QuietFlow DEF HandleIncomingStream, Typed
<1>5. CASE \E s \in Streams : Start(s) \/ ConnectFails(s) \/ LocalEnds(s)
  BY <1>1, <1>5, QuietFlow DEF Start, ConnectFails, LocalEnds, tables, Typed
<1>6. CASE UNCHANGED vars
  BY <1>1, <1>6, QuietFlow, ZenonT(30) DEF vars, tables, stream
<1> QED
  BY <1>1, <1>2, <1>3, <1>4, <1>5, <1>6, FeedFlow, WriteFlow, ConnectFlow DEF Next

\* NoGaps, for any number of streams and any amount of data: the local service
\* gets an unbroken run of what the peer sends, whenever the stream is connected,
\* closed or broken (feed_stream_data, forward_from_peer, _close_stream).
THEOREM NeverGaps == Spec => []NoGaps
<1>1. FlowInv /\ [Next]_vars => FlowInv'
  BY NextFlow
<1>2. FlowInv => NoGaps
  BY Zenon DEF FlowInv, Flow, NoGaps
<1> QED  BY InitFlow, <1>1, <1>2, PTL DEF Spec

-----------------------------------------------------------------------------
(***************************************************************************)
(* The consuming end.                                                      *)
(***************************************************************************)

Mapping == [port : Ports, strategy : {"auto", "same", "manual"}]

\* A mapping that has no listener yet is still there or was removed early; one
\* that was not asked for has neither.
MapInv ==
    /\ call \in [Maps -> {"none", "start", "done", "failed"}]
    /\ mapped \in [Maps -> Mapping \cup {NoMap}]
    /\ listener \in [Maps -> {"none", "open", "closed"}]
    /\ \A m \in Maps :
         /\ call[m] = "none" => mapped[m] = NoMap
         /\ call[m] = "start" => mapped[m] # NoMap \/ m \in early
    /\ MappingsSound

\* Nothing is mapped at first.
LEMMA InitMap == ConsumerInit => MapInv
BY DEF ConsumerInit, MapInv, MappingsSound

\* A port chosen automatically is of no other mapping.
LEMMA AutoPortUnused ==
    ASSUME NEW p \in AutoPorts, FirstFree(p)
    PROVE  p \in Ports /\ \A m \in Maps : mapped[m] # NoMap => mapped[m].port # p
BY DEF FirstFree, AutoFree, Used, Ports

\* map_service up to its await: only with "auto" must the port be unused.
LEMMA MapsMap ==
    ASSUME MapInv, NEW m \in Maps, NEW p \in Ports,
           NEW strategy \in {"auto", "same", "manual"}, Map(m, p, strategy),
           strategy = "auto" => \A n \in Maps : mapped[n] # NoMap => mapped[n].port # p
    PROVE  MapInv'
<1>1. [port |-> p, strategy |-> strategy] \in Mapping
  BY DEF Mapping
<1>2. [port |-> p, strategy |-> strategy] # NoMap
  BY <1>1, ConsumerAssumption DEF Mapping
<1>3. /\ mapped' \in [Maps -> Mapping \cup {NoMap}]
      /\ mapped'[m] = [port |-> p, strategy |-> strategy]
      /\ \A n \in Maps \ {m} : mapped'[n] = mapped[n]
      /\ listener' = listener /\ known' = known /\ early' = early
      /\ call' = [call EXCEPT ![m] = "start"] /\ mapped[m] = NoMap
  BY <1>1 DEF MapInv, Map
<1>4. MappingsSound'
  BY <1>2, <1>3 DEF MapInv, MappingsSound
<1> QED  BY <1>2, <1>3, <1>4 DEF MapInv

\* The listener opens for a mapping that is there, or was removed early.
LEMMA ListenMap ==
    ASSUME MapInv, NEW m \in Maps, Listen(m) \/ ListenFails(m) \/ UnmapService(m)
    PROVE  MapInv'
<1>1. CASE Listen(m)
  BY <1>1 DEF Listen, MapInv, MappingsSound
<1>2. CASE ListenFails(m)
  BY <1>2 DEF ListenFails, MapInv, MappingsSound
<1>3. CASE UnmapService(m)
  BY <1>3 DEF UnmapService, MapInv, MappingsSound
<1> QED  BY <1>1, <1>2, <1>3

\* MappingsSound, for every set of ports and any number of overlapping calls:
\* two mappings made with "auto" have different ports, and an open listener can
\* be found by unmap_service or came too early for it (map_service,
\* _find_auto_port, unmap_service).
THEOREM AlwaysMappingsSound == ConsumerSpec => []MappingsSound
<1>1. MapInv /\ [ConsumerNext]_consumerVars => MapInv'
  <2> SUFFICES ASSUME MapInv, [ConsumerNext]_consumerVars PROVE MapInv'
    OBVIOUS
  <2>1. CASE UNCHANGED listeners
    BY <2>1 DEF listeners, MapInv, MappingsSound
  <2>2. ASSUME NEW m \in Maps, MapAuto(m) PROVE MapInv'
    BY <2>2, AutoPortUnused, MapsMap DEF MapAuto
  <2>3. ASSUME NEW m \in Maps, NEW p \in Ports, MapSame(m, p) \/ MapManual(m, p)
        PROVE  MapInv'
    BY <2>3, AutoPortUnused, MapsMap DEF MapSame, MapManual
  <2>4. UNCHANGED consumerVars => UNCHANGED listeners
    BY DEF consumerVars
  <2>5. ASSUME NEW p \in Ports, Foreign(p) PROVE UNCHANGED listeners
    BY <2>5 DEF Foreign
  <2>6. ASSUME NEW k \in Conns, \/ \E m \in Maps : HandleConnection(k, m)
                                \/ FeedLocal(k) \/ ForwardPeerToLocal(k)
                                \/ LocalClientEnds(k) \/ FinishConn(k)
        PROVE  UNCHANGED listeners
    BY <2>6 DEF HandleConnection, FeedLocal, ForwardPeerToLocal, LocalClientEnds, FinishConn
  <2> QED  BY <2>1, <2>2, <2>3, <2>4, <2>5, <2>6, ListenMap DEF ConsumerNext
<1>2. MapInv => MappingsSound
  BY DEF MapInv
<1> QED  BY InitMap, <1>1, <1>2, PTL DEF ConsumerSpec

-----------------------------------------------------------------------------

(***************************************************************************)
(* The tunnel. That a packet is sent only to the tunnel its key was agreed *)
(* with is inductive once it is known what a datagram can carry: the key   *)
(* of the socket it came from, or a cipher with that key.                  *)
(***************************************************************************)

Addresses == Ends \X Nat \X Nat

KeyOf(addr) == <<addr[1], addr[2]>>

AllKeys == Ends \X Nat

Datagrams ==
    [kind : {"PUNCH", "PUNCH_ACK", "DATA", "KEEPALIVE", "CLOSE"}, from : Addresses,
     to : Addresses, load : SUBSET AllKeys]

TunnelTyped ==
    /\ gen \in [Ends -> Nat] /\ nat \in [Ends -> Nat]
    /\ cipher \in [Ends -> SUBSET AllKeys]
    /\ remote \in [Ends -> Addresses \cup {NoAddr}]
    /\ net \subseteq Datagrams

\* A datagram goes from one end to the other, and tells at most the key of the
\* socket it was sent from; data is encrypted with that key or not at all.
Honest(d) ==
    /\ d.to[1] = Other(d.from[1])
    /\ d.kind = "PUNCH" => d.load = {KeyOf(d.from)}
    /\ d.kind = "PUNCH_ACK" => d.load \in {{}, {KeyOf(d.from)}}
    /\ d.kind = "DATA" => d.load = {} \/ KeyOf(d.from) \in d.load

KeyedInv == TunnelTyped /\ (\A d \in net : Honest(d)) /\ KeyedRemote

\* The two ends are each other's other end.
LEMMA OtherEnd == \A e \in Ends : Other(e) \in Ends /\ Other(e) # e /\ Other(Other(e)) = e
BY DEF Ends, Other

\* Addr and Key are of the types they should be.
LEMMA AddrTypes ==
    ASSUME TunnelTyped, NEW e \in Ends
    PROVE  /\ Addr(e) \in Addresses /\ Addr(e)[1] = e
           /\ KeyOf(Addr(e)) = Key(e) /\ Key(e) \in AllKeys /\ Key(e)[1] = e
BY DEF TunnelTyped, Addr, Key, KeyOf, Addresses, AllKeys

\* A datagram comes from the other end, whose key is not the end's own.
LEMMA FromOther ==
    ASSUME KeyedInv, NEW e \in Ends, NEW d \in net, d.to = Addr(e)
    PROVE  /\ d \in Datagrams /\ Honest(d) /\ d.from \in Addresses
           /\ d.from[1] = Other(e) /\ KeyOf(d.from) # Key(e)
<1>1. d \in Datagrams /\ Honest(d) /\ d.from \in Addresses
  BY DEF KeyedInv, TunnelTyped, Datagrams
<1>2. d.to[1] = Other(d.from[1]) /\ d.from[1] \in Ends
  BY <1>1 DEF Honest, Addresses
<1>3. d.to[1] = e
  BY AddrTypes DEF KeyedInv
<1>4. d.from[1] = Other(e) /\ Other(e) # e
  BY <1>2, <1>3, OtherEnd, Zenon
<1>5. KeyOf(d.from) # Key(e)
  BY <1>4 DEF KeyOf, Key
<1> QED  BY <1>1, <1>4, <1>5

\* No tunnel has a cipher at first.
LEMMA InitKeyed == TunnelInit => KeyedInv
BY DEF TunnelInit, KeyedInv, TunnelTyped, KeyedRemote

\* What the network carries is what flew and what was sent.
LEMMA CarriedHonest ==
    ASSUME NEW flying \in SUBSET Datagrams, NEW more \in SUBSET Datagrams,
           \A d \in flying \cup more : Honest(d)
    PROVE  Carried(flying, more) \in SUBSET Datagrams /\ \A d \in Carried(flying, more) : Honest(d)
BY DEF Carried

\* A datagram from the socket of e to that of its peer, with a permitted load.
LEMMA SentHonest ==
    ASSUME TunnelTyped, NEW e \in Ends, NEW load \in SUBSET AllKeys,
           NEW kind \in {"PUNCH", "PUNCH_ACK", "DATA", "KEEPALIVE", "CLOSE"},
           \/ kind = "PUNCH" /\ load = {Key(e)}
           \/ kind = "PUNCH_ACK" /\ load \in {{}, {Key(e)}}
           \/ kind = "DATA" /\ (load = {} \/ Key(e) \in load)
           \/ kind \in {"KEEPALIVE", "CLOSE"}
    PROVE  /\ Datagram(kind, Addr(e), Addr(Other(e)), load) \in Datagrams
           /\ Honest(Datagram(kind, Addr(e), Addr(Other(e)), load))
BY OtherEnd, AddrTypes DEF Datagram, Datagrams, Honest

\* The frames the ends send.
LEMMA FramesHonest ==
    ASSUME KeyedInv, NEW e \in Ends
    PROVE  /\ Punches(e) \in SUBSET Datagrams /\ \A d \in Punches(e) : Honest(d)
           /\ \A d, load : load \in {{}, {Key(e)}} =>
                /\ Ack(e, d, load) \in SUBSET Datagrams
                /\ \A f \in Ack(e, d, load) : Honest(f)
           /\ \A kind, load :
                \/ kind \in {"KEEPALIVE", "CLOSE"} /\ load = {}
                \/ kind = "DATA" /\ load = cipher[e]
                => /\ Frame(e, kind, load) \in SUBSET Datagrams
                   /\ \A f \in Frame(e, kind, load) : Honest(f)
<1>0. TunnelTyped /\ Key(e) \in AllKeys
  BY AddrTypes DEF KeyedInv
<1>1. Punches(e) \in SUBSET Datagrams /\ \A d \in Punches(e) : Honest(d)
  BY <1>0, SentHonest DEF Punches
<1>2. ASSUME NEW d, NEW load, load \in {{}, {Key(e)}}
      PROVE  Ack(e, d, load) \in SUBSET Datagrams /\ \A f \in Ack(e, d, load) : Honest(f)
  <2>1. load \in SUBSET AllKeys
    BY <1>0, <1>2
  <2> QED  BY <1>0, <1>2, <2>1, SentHonest DEF Ack
<1>3. ASSUME NEW kind, NEW load,
             \/ kind \in {"KEEPALIVE", "CLOSE"} /\ load = {}
             \/ kind = "DATA" /\ load = cipher[e]
      PROVE  Frame(e, kind, load) \in SUBSET Datagrams /\ \A f \in Frame(e, kind, load) : Honest(f)
  <2>1. load \in SUBSET AllKeys /\ (load = {} \/ (kind = "DATA" /\ Key(e) \in load))
    BY <1>3, Zenon DEF KeyedInv, TunnelTyped, KeyedRemote
  <2> QED  BY <1>0, <1>3, <2>1, SentHonest, Zenon DEF Frame
<1> QED  BY <1>1, <1>2, <1>3, Zenon

\* Steps that leave ciphers, addresses and sockets alone, and add honest datagrams.
LEMMA QuietKeyed ==
    ASSUME KeyedInv, UNCHANGED <<gen, nat, cipher, remote>>,
           net' \in SUBSET Datagrams, \A d \in net' : Honest(d)
    PROVE  KeyedInv'
BY DEF KeyedInv, TunnelTyped, KeyedRemote, Key

\* A tunnel that is made or closed has no cipher.
LEMMA ResetKeyed ==
    ASSUME KeyedInv, NEW e \in Ends,
           cipher' = [cipher EXCEPT ![e] = {}], remote' = [remote EXCEPT ![e] = NoAddr],
           gen' \in [Ends -> Nat], nat' \in [Ends -> Nat],
           \A r \in Ends \ {e} : gen'[r] = gen[r],
           net' \in SUBSET Datagrams, \A d \in net' : Honest(d)
    PROVE  KeyedInv'
<1>1. TunnelTyped'
  BY Zenon DEF KeyedInv, TunnelTyped
<1>2. KeyedRemote'
  BY DEF KeyedInv, TunnelTyped, KeyedRemote, Key
<1> QED  BY <1>1, <1>2 DEF KeyedInv

\* The punch is answered by the peer's tunnel whose key is in the answer.
LEMMA ConnectedKeyed ==
    ASSUME KeyedInv, NEW e \in Ends, NEW d \in net, d.to = Addr(e),
           d.kind \in {"PUNCH", "PUNCH_ACK"}, Connected(e, d),
           UNCHANGED <<gen, nat>>, net' \in SUBSET Datagrams, \A f \in net' : Honest(f)
    PROVE  KeyedInv'
<1>1. d \in Datagrams /\ Honest(d) /\ d.from \in Addresses
  BY FromOther
<1>2. /\ Honest(d) /\ d.from \in Addresses /\ d.load \in SUBSET AllKeys
      /\ Key(e) \in AllKeys /\ KeyOf(d.from) \in AllKeys
  BY <1>1, AddrTypes DEF KeyedInv, Datagrams, KeyOf, Addresses, AllKeys
<1>3. KeyOf(d.from) # Key(e)
  BY FromOther
<1>4. /\ remote' = [remote EXCEPT ![e] = d.from]
      /\ cipher' = [cipher EXCEPT ![e] = IF d.load = {} THEN {} ELSE {Key(e)} \cup d.load]
      /\ d.load = {} \/ d.load = {KeyOf(d.from)}
  BY <1>2, ZenonT(30) DEF Connected, Honest
<1>5. TunnelTyped'
  BY <1>2, <1>4, Zenon DEF KeyedInv, TunnelTyped
<1>6. \A r \in Ends : Key(r)' = Key(r)
  BY DEF Key
<1>7. KeyedRemote'
  BY <1>2, <1>3, <1>4, <1>6, ZenonT(30) DEF KeyedInv, TunnelTyped, KeyedRemote, KeyOf
<1> QED  BY <1>5, <1>7 DEF KeyedInv

\* Data that decrypts was sent by a socket whose key is in the cipher.
LEMMA DataKeyed ==
    ASSUME KeyedInv, NEW e \in Ends, NEW d \in net, d.to = Addr(e),
           NEW rest \in SUBSET net, DataReceived(e, d, rest), UNCHANGED <<gen, nat>>
    PROVE  KeyedInv'
<1>1. d \in Datagrams /\ Honest(d) /\ d.from \in Addresses /\ KeyOf(d.from) # Key(e)
  BY FromOther
<1>4. net' \in SUBSET Datagrams /\ \A f \in net' : Honest(f)
  BY DEF DataReceived, KeyedInv, TunnelTyped
<1>5. CASE remote' = remote
  BY <1>4, <1>5, QuietKeyed, Zenon DEF DataReceived
<1>6. CASE cipher[e] \in {{}, d.load} /\ remote' = [remote EXCEPT ![e] = d.from]
  <2>1. cipher' = cipher /\ d.kind = "DATA"
    BY ZenonT(30) DEF DataReceived
  <2>2. TunnelTyped'
    BY <1>1, <1>4, <1>6, <2>1 DEF KeyedInv, TunnelTyped
  <2>3. cipher[e] # {} => KeyOf(d.from) \in cipher[e] \ {Key(e)}
    BY <1>1, <1>6, <2>1 DEF Honest
  <2>4. \A r \in Ends : Key(r)' = Key(r)
    BY DEF Key
  <2>5. KeyedRemote'
    BY <1>6, <2>1, <2>3, <2>4, Zenon DEF KeyedInv, TunnelTyped, KeyedRemote, KeyOf
  <2> QED  BY <1>4, <2>2, <2>5 DEF KeyedInv
<1> QED  BY <1>5, <1>6 DEF DataReceived

\* Receiving a datagram, which may stay on its way.
LEMMA ReceiveKeyed ==
    ASSUME KeyedInv, NEW e \in Ends, NEW d \in net, Receive(e, d)
    PROVE  KeyedInv'
<1>0. d.to = Addr(e) /\ UNCHANGED <<gen, nat>>
  BY DEF Receive, world
<1>1. PICK rest \in SUBSET net : Reads(e, d, rest)
  BY DEF Receive
<1>2. \A load \in {{}, {Key(e)}} :
        /\ Carried(rest, Ack(e, d, load)) \in SUBSET Datagrams
        /\ \A f \in Carried(rest, Ack(e, d, load)) : Honest(f)
  BY FramesHonest, CarriedHonest DEF KeyedInv, TunnelTyped
<1>3. /\ rest \in SUBSET Datagrams /\ Carried(rest, {}) \in SUBSET Datagrams
      /\ \A f \in rest \cup Carried(rest, {}) : Honest(f)
  BY CarriedHonest DEF KeyedInv, TunnelTyped
<1>4. CASE PunchReceives(e, d, rest)
  BY <1>0, <1>2, <1>3, <1>4, ConnectedKeyed DEF PunchReceives
<1>5. CASE AcceptReceives(e, d, rest)
  BY <1>0, <1>2, <1>5, ConnectedKeyed DEF AcceptReceives
<1>6. CASE Skips(e, d, rest)
  BY <1>0, <1>3, <1>6, QuietKeyed DEF Skips, tunnel
<1>7. CASE DataReceived(e, d, rest)
  BY <1>0, <1>7, DataKeyed
<1>8. CASE ControlReceived(e, d, rest)
  BY <1>0, <1>2, <1>3, <1>8, QuietKeyed DEF ControlReceived, tunnel
<1> QED  BY <1>1, <1>4, <1>5, <1>6, <1>7, <1>8 DEF Reads

\* close_tunnel, with what was sent before it.
LEMMA ClosedKeyed ==
    ASSUME KeyedInv, NEW e \in Ends, NEW more \in SUBSET Datagrams, \A d \in more : Honest(d),
           Closed(e, more), UNCHANGED <<gen, nat>>
    PROVE  KeyedInv'
<1>1. Gone(e) \in SUBSET Datagrams /\ \A d \in Gone(e) : Honest(d)
  BY DEF KeyedInv, TunnelTyped, Gone
<1>2. /\ Carried(Gone(e), more) \in SUBSET Datagrams
      /\ \A d \in Carried(Gone(e), more) : Honest(d)
  BY <1>1, CarriedHonest
<1>3. /\ Frame(e, "CLOSE", {}) \in SUBSET Datagrams
      /\ \A d \in Frame(e, "CLOSE", {}) : Honest(d)
  BY FramesHonest, Zenon
<1>4. net' \in SUBSET Datagrams /\ \A d \in net' : Honest(d)
  BY <1>2, <1>3, CarriedHonest DEF Closed
<1> QED  BY <1>4, ResetKeyed, Zenon DEF Closed, KeyedInv, TunnelTyped

\* What an end does of itself.
LEMMA EndKeyed ==
    ASSUME KeyedInv, NEW e \in Ends,
           \/ Make(e) \/ SendPunches(e) \/ Deadline(e) \/ SendData(e)
           \/ Close(e) \/ Tick(e) \/ Rebind(e)
    PROVE  KeyedInv'
<1>0. /\ net \in SUBSET Datagrams /\ \A d \in net : Honest(d)
      /\ gen \in [Ends -> Nat] /\ nat \in [Ends -> Nat]
  BY DEF KeyedInv, TunnelTyped
<1>1. CASE Make(e)
  <2>1. /\ gen' = [gen EXCEPT ![e] = @ + 1] /\ nat' = [nat EXCEPT ![e] = 0] /\ net' = net
        /\ cipher' = [cipher EXCEPT ![e] = {}] /\ remote' = [remote EXCEPT ![e] = NoAddr]
    BY <1>1, Zenon DEF Make
  <2>2. /\ gen' \in [Ends -> Nat] /\ nat' \in [Ends -> Nat]
        /\ \A r \in Ends \ {e} : gen'[r] = gen[r]
    BY <1>0, <2>1
  <2> QED  BY <1>0, <2>1, <2>2, ResetKeyed, Zenon
<1>2. CASE SendPunches(e)
  BY <1>0, <1>2, FramesHonest, CarriedHonest, QuietKeyed, ZenonT(30) DEF SendPunches, world, tunnel
<1>3. CASE Deadline(e)
  BY <1>0, <1>3, QuietKeyed DEF Deadline, world
<1>4. CASE SendData(e)
  BY <1>0, <1>4, FramesHonest, CarriedHonest, QuietKeyed, Zenon DEF SendData, world, tunnel
<1>5. CASE Close(e)
  <2>1. Closed(e, {}) /\ UNCHANGED <<gen, nat>>
    BY <1>5 DEF Close, world
  <2> QED  BY <2>1, ClosedKeyed
<1>6. CASE Tick(e)
  <2>1. /\ Frame(e, "KEEPALIVE", {}) \in SUBSET Datagrams
        /\ \A d \in Frame(e, "KEEPALIVE", {}) : Honest(d)
    BY FramesHonest, Zenon
  <2>2. /\ Carried(net, Frame(e, "KEEPALIVE", {})) \in SUBSET Datagrams
        /\ \A d \in Carried(net, Frame(e, "KEEPALIVE", {})) : Honest(d)
    BY <1>0, <2>1, CarriedHonest
  <2> QED  BY <1>6, <2>1, <2>2, ClosedKeyed, QuietKeyed DEF Tick, world
<1>7. CASE Rebind(e)
  <2>1. /\ Gone(e) \in SUBSET Datagrams /\ \A d \in Gone(e) : Honest(d)
        /\ nat' \in [Ends -> Nat] /\ UNCHANGED <<gen, cipher, remote>> /\ net' = Gone(e)
    BY <1>0, <1>7 DEF Rebind, Gone, tunnel
  <2> QED  BY <2>1 DEF KeyedInv, TunnelTyped, KeyedRemote, Key
<1> QED  BY <1>1, <1>2, <1>3, <1>4, <1>5, <1>6, <1>7

\* KeyedRemote, for any number of tunnels and of datagrams, whatever is lost,
\* duplicated, reordered or left over from an earlier tunnel: a tunnel with a
\* cipher sends only to the tunnel the key was agreed with (create_tunnel,
\* accept_tunnel, _handle_frame, close_tunnel).
THEOREM AlwaysKeyedRemote == TunnelSpec => []KeyedRemote
<1>1. KeyedInv /\ [TunnelNext]_tunnelVars => KeyedInv'
  <2> SUFFICES ASSUME KeyedInv, [TunnelNext]_tunnelVars PROVE KeyedInv'
    OBVIOUS
  <2>1. CASE UNCHANGED tunnelVars
    BY <2>1, QuietKeyed DEF tunnelVars, world, tunnel, KeyedInv, TunnelTyped
  <2>2. ASSUME NEW d \in net, Lose(d) PROVE KeyedInv'
    BY <2>2, QuietKeyed DEF Lose, world, tunnel, KeyedInv, TunnelTyped
  <2> QED  BY <2>1, <2>2, ReceiveKeyed, EndKeyed DEF TunnelNext
<1>2. KeyedInv => KeyedRemote
  BY DEF KeyedInv
<1> QED  BY InitKeyed, <1>1, <1>2, PTL DEF TunnelSpec

=============================================================================
