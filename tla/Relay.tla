-------------------------------- MODULE Relay --------------------------------
(***************************************************************************)
(* The relay of server/relay.py: paths between clients, one bounded queue  *)
(* of frames per destination, and two ways out of a queue.  A handler task *)
(* drains the queue into a list and sends the list frame by frame, with an *)
(* await after each (deliver_relayed); a consume_frames iterator keeps the *)
(* queue object it started with.  Everything else runs without an await.   *)
(***************************************************************************)
EXTENDS Naturals, Sequences

CONSTANTS
    Senders,     \* client ids
    Handlers,    \* handler tasks (connections) of the server
    Absent,      \* Python's None, and a key a dict does not hold
    MaxQueue,    \* MAX_RELAY_QUEUE
    MaxFrames,   \* bound: the frames each client sends
    Iterators    \* the clients whose frames are also read by consume_frames

\* Python's None is not a queue.
ASSUME RelayAssumption == Absent \notin Seq([src : Senders, num : Nat])

VARIABLES
    paths,    \* _paths
    queues,   \* _queues: a sequence of frames, or Absent
    sent,     \* per client: the number of frames it has sent
    serves,   \* per handler: the client whose frames it delivers, or Absent
    held,     \* per handler: what deliver_relayed has still to send
    orphan,   \* per client: the queue object its iterator kept when drop_client
              \* replaced it; Absent while it reads the current one
    out       \* history: per handler, the frames sent on its connection

relayVars == <<paths, queues, sent, serves, held, orphan, out>>

RelayInit ==
    /\ paths = {}
    /\ queues = [i \in Senders |-> Absent]
    /\ sent = [i \in Senders |-> 0]
    /\ serves = [h \in Handlers |-> Absent]
    /\ held = [h \in Handlers |-> <<>>]
    /\ orphan = [i \in Senders |-> Absent]
    /\ out = [h \in Handlers |-> <<>>]

\* A handler authenticates as client i.
Serve(h, i) ==
    /\ serves[h] = Absent /\ out[h] = <<>>
    /\ serves' = [serves EXCEPT ![h] = i]
    /\ UNCHANGED <<paths, queues, sent, held, orphan, out>>

\* register_relay_path, with _queue_for both clients.
RegisterRelayPath(i, j) ==
    /\ paths' = paths \cup {<<i, j>>, <<j, i>>}
    /\ queues' = [k \in Senders |->
                    IF k \in {i, j} /\ queues[k] = Absent THEN <<>> ELSE queues[k]]
    /\ UNCHANGED <<sent, serves, held, orphan, out>>

\* relay_frame: without a path, or with the queue full, the frame is dropped.
Accepts(i, j) ==
    /\ queues[j] # Absent /\ <<i, j>> \in paths
    /\ Len(queues[j]) < MaxQueue

RelayFrame(i, j) ==
    /\ sent[i] < MaxFrames
    /\ sent' = [sent EXCEPT ![i] = @ + 1]
    /\ queues' = IF Accepts(i, j)
                 THEN [queues EXCEPT ![j] = Append(@, [src |-> i, num |-> sent'[i]])]
                 ELSE queues
    /\ UNCHANGED <<paths, serves, held, orphan, out>>

\* StartDelivery, if pending_frames copied the queue and did not clear it.
StartDeliveryKeepsQueue(h) ==
    LET d == serves[h] IN
    /\ d # Absent /\ held[h] = <<>>
    /\ queues[d] # Absent /\ queues[d] # <<>>
    /\ held' = [held EXCEPT ![h] = Tail(queues[d])]
    /\ out' = [out EXCEPT ![h] = Append(@, Head(queues[d]))]
    /\ UNCHANGED <<paths, queues, sent, serves, orphan>>

\* deliver_relayed after a command: pending_frames empties the queue, and the
\* first frame is written.
StartDelivery(h) ==
    LET d == serves[h] IN
    /\ d # Absent /\ held[h] = <<>>
    /\ queues[d] # Absent /\ queues[d] # <<>>
    /\ held' = [held EXCEPT ![h] = Tail(queues[d])]
    /\ out' = [out EXCEPT ![h] = Append(@, Head(queues[d]))]
    /\ queues' = [queues EXCEPT ![d] = <<>>]
    /\ UNCHANGED <<paths, sent, serves, orphan>>

\* drain() returns and the next frame is written.
ContinueDelivery(h) ==
    /\ held[h] # <<>>
    /\ out' = [out EXCEPT ![h] = Append(@, Head(held[h]))]
    /\ held' = [held EXCEPT ![h] = Tail(@)]
    /\ UNCHANGED <<paths, queues, sent, serves, orphan>>

\* consume_frames yields the next frame of the queue object it holds.
Consume(i) ==
    /\ i \in Iterators
    /\ \/ /\ orphan[i] = Absent /\ queues[i] # Absent /\ queues[i] # <<>>
          /\ queues' = [queues EXCEPT ![i] = Tail(@)]
          /\ UNCHANGED orphan
       \/ /\ orphan[i] # Absent /\ orphan[i] # <<>>
          /\ orphan' = [orphan EXCEPT ![i] = Tail(@)]
          /\ UNCHANGED queues
    /\ UNCHANGED <<paths, sent, serves, held, out>>

\* The queue without the frames of client i, in their order.
WithoutSender(queue, i) ==
    LET kept[n \in 0 .. Len(queue)] ==
            IF n = 0 THEN <<>>
            ELSE IF queue[n].src # i THEN Append(kept[n - 1], queue[n]) ELSE kept[n - 1]
    IN  kept[Len(queue)]

\* The client's connection ends: drop_client, and what was held is lost.
DropClient(h) ==
    LET i == serves[h] IN
    /\ i # Absent
    /\ queues' = [d \in Senders |->
                    IF d = i THEN Absent
                    ELSE IF queues[d] = Absent THEN Absent
                    ELSE WithoutSender(queues[d], i)]
    /\ orphan' = [d \in Senders |->
                    IF d \in Iterators /\ orphan[d] = Absent /\ queues[d] # Absent
                    THEN queues[d] ELSE orphan[d]]
    /\ paths' = {p \in paths : p[1] # i /\ p[2] # i}
    /\ serves' = [serves EXCEPT ![h] = Absent]
    /\ held' = [held EXCEPT ![h] = <<>>]
    /\ UNCHANGED <<sent, out>>

RelayNext ==
    \/ \E i, j \in Senders : RegisterRelayPath(i, j) \/ RelayFrame(i, j)
    \/ \E i \in Senders : Consume(i)
    \/ \E h \in Handlers :
         \/ \E i \in Senders : Serve(h, i)
         \/ StartDelivery(h) \/ ContinueDelivery(h) \/ DropClient(h)

RelaySpec == RelayInit /\ [][RelayNext]_relayVars

-----------------------------------------------------------------------------
(* Properties                                                               *)

\* The frames that may still be delivered: those queued and those held.
FramesOf(queue) == {queue[k] : k \in DOMAIN queue}

InTransit ==
    UNION ({FramesOf(queues[d]) : d \in {i \in Senders : queues[i] # Absent}}
             \cup {FramesOf(held[h]) : h \in Handlers})

Link == INSTANCE FrameLink WITH Clients <- Senders, transit <- InTransit

\* Over new paths, drops, two connections of one client and iterators, no frame
\* is delivered twice and none of a sender's overtakes another on a connection
\* (relay_frame, pending_frames, deliver_relayed, consume_frames, drop_client).
KeepsOrder == Link!Spec

=============================================================================
