--------------------------- MODULE ControlChannel ---------------------------
(***************************************************************************)
(* The client's link to the mediation server, client/control_channel.py,   *)
(* from the first successful authenticate() on.  Four tasks share it:      *)
(*   "user"       a command of the daemon, a call of request()             *)
(*   "heartbeat"  _heartbeat_loop, whose request() has a timeout           *)
(*   "reconnect"  _reconnect_loop, which registers and authenticates       *)
(*   the reader   _event_loop, which owns the stream after authentication. *)
(* An action is what a task runs between two awaits.  The server is        *)
(* abstract: it answers in order, and closes a client's older connection   *)
(* when the client registers on another one.  Backoff times are left out.  *)
(***************************************************************************)
EXTENDS Naturals, Sequences

CONSTANTS
    Conns,       \* TCP connections; an id is used again once nothing refers to it
    Nil,         \* Python's None
    MaxStale,    \* bound: a Nil is not added to as many items of _responses
    MaxBreaks,   \* bound: connections the network breaks, and answers it delays too long
    Closes       \* whether the daemon may call close()

Callers == {"user", "heartbeat", "reconnect"}
Kinds == {"list", "beat", "register", "auth"}

ASSUME ChannelAssumption ==
    /\ Nil \notin Conns \cup Callers \cup Kinds \cup {"queue"} /\ "queue" \notin Conns
    /\ MaxStale \in Nat \ {0} /\ MaxBreaks \in Nat /\ Closes \in BOOLEAN

VARIABLES
    cur,         \* _reader and _writer, which are set and cleared together
    connected,   \* _connected
    auth,        \* _authenticated
    owned,       \* _reader_owned
    expected,    \* _expected_type: the kind whose reply is awaited
    lock,        \* _network_lock: its holder
    responses,   \* _responses: replies, "error", and Nil for a lost connection
    stopped,     \* _stopped
    call,        \* per caller: "off" (no task), "idle", "want" (the lock), "wait"
    kind,        \* per caller: the request it makes
    via,         \* per waiting caller: "queue", or the connection it reads itself
    reader,      \* the connection _event_loop reads, Nil when there is no such task
    server,      \* per connection, at the server: "free", "open", "registered", "authed", "gone"
    shut,        \* per connection: closed at the client's end
    up,          \* per connection: requests on their way
    dn,          \* per connection: replies on their way
    breaks       \* faults so far

chan == <<cur, connected, auth, owned, expected, lock, responses, stopped>>
tasks == <<call, kind, via, reader>>
net == <<server, shut, up, dn, breaks>>
channelVars == <<chan, tasks, net>>

\* After the first authenticate(): the reader and the heartbeat are running.
ChannelInit ==
    \E c \in Conns :
        /\ cur = c /\ connected = TRUE /\ auth = TRUE /\ owned = TRUE
        /\ expected = Nil /\ lock = Nil /\ responses = <<>> /\ stopped = FALSE
        /\ call = [t \in Callers |-> IF t = "reconnect" THEN "off" ELSE "idle"]
        /\ kind = [t \in Callers |-> Nil]
        /\ via = [t \in Callers |-> Nil]
        /\ reader = c
        /\ server = [d \in Conns |-> IF d = c THEN "authed" ELSE "free"]
        /\ shut = [d \in Conns |-> FALSE]
        /\ up = [d \in Conns |-> <<>>]
        /\ dn = [d \in Conns |-> <<>>]
        /\ breaks = 0

\* At the client, connection c has ended: closed here, or by the other side.
Ended(c) == shut[c] \/ server[c] = "gone"

-----------------------------------------------------------------------------
(* _on_connection_lost                                                      *)

\* Lost, if no waiter were woken.
LostSilently(lk, ex, rs, calls) ==
    IF stopped \/ ~connected
    THEN /\ lock' = lk /\ expected' = ex /\ responses' = rs /\ call' = calls
         /\ UNCHANGED <<cur, connected, auth, shut>>
    ELSE /\ lock' = lk /\ expected' = ex /\ responses' = rs
         /\ connected' = FALSE /\ auth' = FALSE /\ cur' = Nil
         /\ shut' = [c \in Conns |-> shut[c] \/ c = cur]
         /\ call' = [calls EXCEPT !["reconnect"] = IF @ = "off" THEN "idle" ELSE @]

\* The state after it, for a caller that has left the lock and the queue as
\* lk, ex and rs.  `calls` is the callers' state, to which the reconnect task is added.
Lost(lk, ex, rs, calls) ==
    IF stopped \/ ~connected
    THEN /\ lock' = lk /\ expected' = ex /\ responses' = rs /\ call' = calls
         /\ UNCHANGED <<cur, connected, auth, shut>>
    ELSE /\ lock' = lk /\ expected' = ex
         /\ responses' = IF Len(rs) < MaxStale THEN Append(rs, Nil) ELSE rs
         /\ connected' = FALSE /\ auth' = FALSE /\ cur' = Nil
         /\ shut' = [c \in Conns |-> shut[c] \/ c = cur]
         /\ call' = [calls EXCEPT !["reconnect"] = IF @ = "off" THEN "idle" ELSE @]

-----------------------------------------------------------------------------
(* request()                                                                *)

\* A command of the daemon, and the heartbeat's turn.  The lock is taken at
\* once if it is free, so nobody starts between the two requests of authenticate().
Begin(t, k) ==
    /\ call[t] = "idle" /\ ~stopped
    /\ call["reconnect"] = "want" => lock # Nil
    /\ t = "heartbeat" => connected
    /\ call' = [call EXCEPT ![t] = "want"]
    /\ kind' = [kind EXCEPT ![t] = k]
    /\ UNCHANGED <<chan, via, reader, net>>

\* _heartbeat_loop wakes up to a lost connection and ends.
HeartbeatEnds ==
    /\ call["heartbeat"] = "idle" /\ ~connected
    /\ call' = [call EXCEPT !["heartbeat"] = "off"]
    /\ UNCHANGED <<chan, kind, via, reader, net>>

\* Failed, if an exception ended the reconnect loop.
FailedEndsLoop(t, rs) ==
    /\ via' = [via EXCEPT ![t] = Nil]
    /\ kind' = [kind EXCEPT ![t] = Nil]
    /\ \/ /\ t = "heartbeat"
          /\ Lost(Nil, Nil, rs, [call EXCEPT ![t] = "off"])
       \/ /\ t # "heartbeat"
          /\ call' = [call EXCEPT ![t] = IF t = "reconnect" THEN "off" ELSE "idle"]
          /\ lock' = Nil /\ expected' = Nil /\ responses' = rs
          /\ UNCHANGED <<cur, connected, auth, shut>>

\* What an exception in request() leads to in its caller.  The heartbeat
\* gives the connection up, after which its loop's condition is false.
Failed(t, rs) ==
    /\ via' = [via EXCEPT ![t] = Nil]
    /\ kind' = [kind EXCEPT ![t] = Nil]
    /\ \/ /\ t = "heartbeat"
          /\ Lost(Nil, Nil, rs,
                  [call EXCEPT ![t] = "off"])
       \/ /\ t # "heartbeat"
          /\ call' = [call EXCEPT ![t] = "idle"]
          /\ lock' = Nil /\ expected' = Nil /\ responses' = rs
          /\ UNCHANGED <<cur, connected, auth, shut>>

\* The lock is acquired and the message sent, perhaps to a peer that is gone.
Acquire(t) ==
    /\ call[t] = "want" /\ lock = Nil
    /\ cur # Nil
    /\ lock' = t
    /\ expected' = kind[t]
    /\ up' = [up EXCEPT ![cur] = IF server[cur] = "gone" THEN @ ELSE Append(@, kind[t])]
    /\ call' = [call EXCEPT ![t] = "wait"]
    /\ via' = [via EXCEPT ![t] = IF owned THEN "queue" ELSE cur]
    /\ UNCHANGED <<cur, connected, auth, owned, responses, stopped, kind, reader, server, shut,
                   dn, breaks>>

\* ... or cannot be: there is no writer, or drain() raises.
AcquireFails(t) ==
    /\ call[t] = "want" /\ lock = Nil
    /\ IF cur = Nil THEN TRUE ELSE Ended(cur)
    /\ Failed(t, responses)
    /\ UNCHANGED <<owned, stopped, reader, server, up, dn, breaks>>

\* Authenticated, if the ownership of the stream were left to the reader task.
AuthenticatedUnowned ==
    /\ auth' = TRUE
    /\ reader' = IF reader = Nil THEN cur ELSE reader
    /\ call' = [call EXCEPT !["reconnect"] = "idle",
                            !["heartbeat"] = IF @ = "off" THEN "idle" ELSE @]
    /\ kind' = [kind EXCEPT !["reconnect"] = Nil]
    /\ UNCHANGED owned

\* After the successful authenticate() of the reconnect task: the reader and
\* the heartbeat are started unless they are still running.
Authenticated ==
    /\ auth' = TRUE /\ owned' = TRUE
    /\ reader' = IF reader = Nil THEN cur ELSE reader
    /\ call' = [call EXCEPT !["reconnect"] = "idle",
                            !["heartbeat"] = IF @ = "off" THEN "idle" ELSE @]
    /\ kind' = [kind EXCEPT !["reconnect"] = Nil]

\* A reply of the expected kind returns from request().
Returned(t) ==
    /\ lock' = Nil /\ expected' = Nil
    /\ via' = [via EXCEPT ![t] = Nil]
    /\ \/ /\ kind[t] = "auth"
          /\ Authenticated
       \/ /\ kind[t] = "register"
          /\ call' = [call EXCEPT ![t] = "want"]
          /\ kind' = [kind EXCEPT ![t] = "auth"]
          /\ UNCHANGED <<auth, owned, reader>>
       \/ /\ kind[t] \notin {"auth", "register"}
          /\ call' = [call EXCEPT ![t] = "idle"]
          /\ kind' = [kind EXCEPT ![t] = Nil]
          /\ UNCHANGED <<auth, owned, reader>>
    /\ UNCHANGED <<cur, connected, shut>>

\* request() raises on m: the connection is lost, the server reports an error,
\* or m is passed over and there is no stream to go on with.
Raises(t, m) ==
    \/ m \in {Nil, "error"}
    \/ m # kind[t] /\ ~owned /\ cur = Nil

\* A reply of another kind is passed over, and the loop looks again where to read.
PassedOver(t) ==
    /\ via' = [via EXCEPT ![t] = IF owned THEN "queue" ELSE cur]
    /\ UNCHANGED <<cur, connected, auth, owned, expected, lock, call, kind, reader, shut>>

\* request() takes the next item of _responses.
TakeResponse(t) ==
    /\ call[t] = "wait" /\ via[t] = "queue" /\ responses # <<>>
    /\ \/ /\ Raises(t, Head(responses))
          /\ Failed(t, Tail(responses))
          /\ UNCHANGED <<owned, reader>>
       \/ /\ Head(responses) = kind[t]
          /\ Returned(t)
          /\ responses' = Tail(responses)
       \/ /\ Head(responses) # kind[t] /\ ~Raises(t, Head(responses))
          /\ PassedOver(t)
          /\ responses' = Tail(responses)
    /\ UNCHANGED <<stopped, server, up, dn, breaks>>

\* Before the reader task owns the stream, request() reads it itself.
ReadDirectly(t) ==
    LET c == via[t] IN
    /\ call[t] = "wait" /\ c \in Conns /\ dn[c] # <<>>
    /\ dn' = [dn EXCEPT ![c] = Tail(@)]
    /\ \/ /\ Raises(t, Head(dn[c]))
          /\ Failed(t, responses)
          /\ UNCHANGED <<owned, reader>>
       \/ /\ Head(dn[c]) = kind[t]
          /\ Returned(t)
          /\ UNCHANGED responses
       \/ /\ Head(dn[c]) # kind[t] /\ ~Raises(t, Head(dn[c]))
          /\ PassedOver(t)
          /\ UNCHANGED responses
    /\ UNCHANGED <<stopped, server, up, breaks>>

\* ... up to the end of the stream.
ReadFails(t) ==
    LET c == via[t] IN
    /\ call[t] = "wait" /\ c \in Conns /\ Ended(c) /\ (dn[c] = <<>> \/ shut[c])
    /\ Failed(t, responses)
    /\ UNCHANGED <<owned, stopped, reader, server, up, dn, breaks>>

\* The heartbeat's five seconds are over and there is nothing on its way to the reader,
Timeout ==
    /\ call["heartbeat"] = "wait" /\ via["heartbeat"] = "queue" /\ responses = <<>>
    /\ reader # Nil => up[reader] = <<>> /\ dn[reader] = <<>>
    /\ Failed("heartbeat", responses)
    /\ UNCHANGED <<owned, stopped, reader, server, up, dn, breaks>>

\* ... or the answer is late, one of the faults MaxBreaks counts.
LateAnswer ==
    /\ call["heartbeat"] = "wait" /\ breaks < MaxBreaks
    /\ breaks' = breaks + 1
    /\ Failed("heartbeat", responses)
    /\ UNCHANGED <<owned, stopped, reader, server, up, dn>>

-----------------------------------------------------------------------------
(* The reader and the reconnect task                                        *)

\* _event_loop classifies a message and goes on with the current stream.
ReaderMessage ==
    /\ reader # Nil /\ dn[reader] # <<>>
    /\ dn' = [dn EXCEPT ![reader] = Tail(@)]
    /\ responses' = IF expected # Nil /\ Head(dn[reader]) \in {expected, "error"}
                    THEN Append(responses, Head(dn[reader])) ELSE responses
    /\ reader' = IF connected THEN cur ELSE Nil
    /\ owned' = connected
    /\ UNCHANGED <<cur, connected, auth, expected, lock, stopped, call, kind, via, server, shut,
                   up, breaks>>

\* The end of its stream: the reader gives up whatever connection is current.
ReaderEnds ==
    /\ reader # Nil /\ Ended(reader) /\ (dn[reader] = <<>> \/ shut[reader])
    /\ Lost(lock, expected, responses, call)
    /\ reader' = Nil /\ owned' = FALSE
    /\ UNCHANGED <<stopped, kind, via, server, up, dn, breaks>>

\* Tasks that are ready to run: the reader of a stream the client itself has
\* closed, whoever waits for a lock that is free, or for a queue that is not empty.
ChannelReady ==
    \/ responses # <<>> /\ \E t \in Callers : via[t] = "queue"
    \/ reader # Nil /\ shut[reader]
    \/ lock = Nil /\ \E t \in Callers : call[t] = "want"

\* The reconnect loop's sleep, a second or more, is over: what was ready has
\* run; and connect() succeeds.  The loop has no other exit than close(), so
\* this is also what follows a success.
Reconnect(c) ==
    /\ call["reconnect"] = "idle" /\ ~stopped /\ ~ChannelReady
    /\ server[c] = "free"
    /\ cur' = c /\ connected' = TRUE
    /\ server' = [server EXCEPT ![c] = "open"]
    /\ call' = [call EXCEPT !["reconnect"] = "want"]
    /\ kind' = [kind EXCEPT !["reconnect"] = "register"]
    /\ UNCHANGED <<auth, owned, expected, lock, responses, stopped, via, reader, shut, up, dn,
                   breaks>>

\* Close, if a cancelled request kept the lock.
CloseKeepsLock ==
    /\ Closes /\ ~stopped
    /\ stopped' = TRUE
    /\ shut' = [c \in Conns |-> shut[c] \/ c = cur]
    /\ cur' = Nil /\ connected' = FALSE /\ auth' = FALSE /\ owned' = FALSE
    /\ reader' = Nil
    /\ call' = [call EXCEPT !["heartbeat"] = "off", !["reconnect"] = "off"]
    /\ via' = [via EXCEPT !["heartbeat"] = Nil, !["reconnect"] = Nil]
    /\ kind' = [kind EXCEPT !["heartbeat"] = Nil, !["reconnect"] = Nil]
    /\ UNCHANGED <<lock, expected, responses, server, up, dn, breaks>>

\* close(): the tasks are cancelled; a command that waits is not.
Close ==
    /\ Closes /\ ~stopped
    /\ stopped' = TRUE
    /\ shut' = [c \in Conns |-> shut[c] \/ c = cur]
    /\ cur' = Nil /\ connected' = FALSE /\ auth' = FALSE /\ owned' = FALSE
    /\ reader' = Nil
    /\ call' = [call EXCEPT !["heartbeat"] = "off", !["reconnect"] = "off"]
    /\ via' = [via EXCEPT !["heartbeat"] = Nil, !["reconnect"] = Nil]
    /\ kind' = [kind EXCEPT !["heartbeat"] = Nil, !["reconnect"] = Nil]
    /\ lock' = IF lock = "user" THEN lock ELSE Nil
    /\ expected' = IF lock = "user" THEN expected ELSE Nil
    /\ UNCHANGED <<responses, server, up, dn, breaks>>

-----------------------------------------------------------------------------
(* The server and the network                                               *)

\* The server's answer to request k on a connection in state s.
Answer(s, k) ==
    CASE k = "register" /\ s = "open" -> "register"
      [] k = "auth" /\ s = "registered" -> "auth"
      [] k \in {"list", "beat"} /\ s = "authed" -> k
      [] OTHER -> "error"

ServerStep(c) ==
    LET a == Answer(server[c], Head(up[c])) IN
    /\ up[c] # <<>> /\ server[c] \in {"open", "registered", "authed"}
    /\ server' = [d \in Conns |->
                    IF d = c THEN CASE a = "register" -> "registered"
                                    [] a = "auth" -> "authed"
                                    [] OTHER -> server[c]
                    ELSE IF a = "register" /\ server[d] \in {"registered", "authed"} THEN "gone"
                    ELSE server[d]]
    /\ up' = [up EXCEPT ![c] = Tail(@)]
    /\ dn' = [dn EXCEPT ![c] = Append(@, a)]
    /\ UNCHANGED <<chan, tasks, shut, breaks>>

\* The network breaks a connection.
Break(c) ==
    /\ breaks < MaxBreaks /\ server[c] \in {"open", "registered", "authed"}
    /\ breaks' = breaks + 1
    /\ server' = [server EXCEPT ![c] = "gone"]
    /\ UNCHANGED <<chan, tasks, shut, up, dn>>

\* Nothing at the client refers to connection c any more.
Forgotten(c) == cur # c /\ reader # c /\ \A t \in Callers : via[t] # c

\* The server sees the client's close, or that of a forgotten stream's
\* finaliser, after what was sent before it.
ServerCloses(c) ==
    /\ (shut[c] \/ Forgotten(c)) /\ up[c] = <<>>
    /\ server[c] \in {"open", "registered", "authed"}
    /\ server' = [server EXCEPT ![c] = "gone"]
    /\ UNCHANGED <<chan, tasks, shut, up, dn, breaks>>

\* The id of a connection that is over may be used again.
Recycle(c) ==
    /\ server[c] = "gone" /\ Forgotten(c)
    /\ server' = [server EXCEPT ![c] = "free"]
    /\ shut' = [shut EXCEPT ![c] = FALSE]
    /\ up' = [up EXCEPT ![c] = <<>>]
    /\ dn' = [dn EXCEPT ![c] = <<>>]
    /\ UNCHANGED <<chan, tasks, breaks>>

-----------------------------------------------------------------------------

RequestStep(t) ==
    Acquire(t) \/ AcquireFails(t) \/ TakeResponse(t) \/ ReadDirectly(t) \/ ReadFails(t)

ConnStep(c) == ServerStep(c) \/ ServerCloses(c) \/ Recycle(c)

ChannelNext ==
    \/ Begin("user", "list") \/ Begin("heartbeat", "beat")
    \/ HeartbeatEnds \/ Timeout \/ LateAnswer
    \/ \E t \in Callers : RequestStep(t)
    \/ ReaderMessage \/ ReaderEnds
    \/ \E c \in Conns : Reconnect(c) \/ ConnStep(c) \/ Break(c)
    \/ Close

ChannelSpec == ChannelInit /\ [][ChannelNext]_channelVars

\* Tasks run, sleeps end, a lock passed on goes to everyone who waits in turn,
\* and the server answers.
FairChannelSpec ==
    /\ ChannelSpec
    /\ \A t \in Callers : WF_channelVars(TakeResponse(t) \/ ReadDirectly(t) \/ ReadFails(t))
    /\ \A t \in Callers : SF_channelVars(Acquire(t) \/ AcquireFails(t))
    /\ WF_channelVars(ReaderMessage) /\ WF_channelVars(ReaderEnds) /\ WF_channelVars(Timeout)
    /\ WF_channelVars(HeartbeatEnds) /\ WF_channelVars(Begin("heartbeat", "beat"))
    /\ SF_channelVars(\E c \in Conns : Reconnect(c))
    /\ \A c \in Conns : WF_channelVars(ConnStep(c))

-----------------------------------------------------------------------------
(* Properties                                                               *)

\* "Transfer stream ownership ... so no request() call can race it with a
\* direct readexactly() afterwards" (_start_background_tasks): a stream never
\* has two readers, and request() reads one itself only under the lock.
OneReader ==
    \A t \in Callers : via[t] \in Conns => lock = t /\ reader # via[t]

\* The lock serialises requests: exactly its holder waits, and the reader
\* routes replies for the holder's request (request(), _event_loop).
LockedWaiter ==
    /\ \A t \in Callers : call[t] = "wait" <=> lock = t
    /\ expected = IF lock = Nil THEN Nil ELSE kind[lock]

\* No lost connection leaves the channel without a task that connects again
\* (_on_connection_lost, _reconnect_loop), unless close() is called.
Reconnects == ~connected ~> connected \/ stopped

\* The reconnect loop has taken the stream from under the command whose reply
\* it now waits behind.
Stranded == lock = "user" /\ call["reconnect"] = "want"

\* A command of the daemon, which has no timeout, returns or raises whatever
\* happens to its connection, except that close() and the reconnect loop can
\* leave it waiting: neither puts anything into _responses (request(), close()).
CommandsEnd == call["user"] # "idle" ~> call["user"] = "idle" \/ stopped \/ Stranded

\* "Wake any waiter blocked on a response" (_on_connection_lost), and request()
\* returns or raises: no command waits for ever on a channel that is not closed.
CommandsReturn == call["user"] # "idle" ~> call["user"] = "idle" \/ stopped

=============================================================================
