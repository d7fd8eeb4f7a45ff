----------------------------- MODULE ProxyWorker -----------------------------
(***************************************************************************)
(* A worker of the reverse proxy: the connections of proxy/connection.py,  *)
(* one task each, and what they share: the balancer of                     *)
(* proxy/load_balancer.py, the health monitor of proxy/health_check.py and *)
(* the counters of proxy/status.py.  WebSocket upgrades are those of       *)
(* proxy/websocket.py up to the relay, which goes on until it ends.        *)
(*                                                                         *)
(* `at` is the await a task is in.  A request is what the code asks of it: *)
(* the kind of location it is routed to, whether the connection is kept    *)
(* and whether it has a body.  Responses are told apart by the request     *)
(* they answer.  Totals that only grow, of accepted connections, requests  *)
(* and failures, and the access log are left out.                          *)
(***************************************************************************)
EXTENDS Integers, Sequences, FiniteSets

CONSTANTS
    Conns,         \* client connections
    ServerList,    \* UpstreamBlock.servers, without those marked down
    Weight,        \* per server
    Backup,        \* servers with the backup flag
    Hash,          \* per connection: the hash of the client's address
    Algorithms,    \* algorithms the upstream may be configured with
    Requests,      \* requests a client may send
    MaxRequests,   \* bound, per connection: requests
    MaxFailures,   \* HealthMonitor.max_failures; failures are counted up to it
    None

Servers == {ServerList[k] : k \in DOMAIN ServerList}

\* What handle() makes of a request: the outcomes of _match_route and the branches after it.
Kinds == {"http", "static", "unrouted", "unserved", "websocket", "keyless"}

\* Is it kept alive (is_keepalive), has it a body (content_length, is_chunked)?
HttpRequest == [kind : Kinds, keepalive : BOOLEAN, body : BOOLEAN]

ASSUME ProxyAssumption ==
    /\ IsFiniteSet(Conns) /\ Weight \in [Servers -> Nat \ {0}] /\ Hash \in [Conns -> Nat]
    /\ Algorithms \subseteq {"round_robin", "least_conn", "ip_hash", "random"}
    /\ Requests \subseteq HttpRequest
    /\ MaxRequests \in [Conns -> Nat] /\ MaxFailures \in Nat \ {0} /\ None \notin Servers

VARIABLES
    algorithm,   \* which balancer this is
    index,       \* RoundRobinBalancer._index
    conns,       \* LeastConnBalancer._active_conns
    health,      \* per server: ServerHealth.failures and .unavailable
    stats,       \* the StatusCollector
    at,          \* per connection: where its task waits
    state,       \* per connection: Connection.state
    request,     \* per connection: the request being handled
    server,      \* per connection: the server selected for it
    sent,        \* per connection: the requests the client has sent
    wire,        \* per connection: those not read yet
    buffer,      \* per connection: HttpParser._buffer
    answered,    \* per connection: the requests answered
    leaked       \* per server: increments that were never taken back

client == <<sent, wire>>
shared == <<index, conns, health, leaked>>
vars == <<algorithm, shared, stats, at, state, request, server, client, buffer, answered>>

-----------------------------------------------------------------------------
(* proxy/status.py                                                          *)

\* _STATE_CATEGORY
Category(s) ==
    CASE s = "READ_REQUEST" -> "reading"
      [] s \in {"MATCH_ROUTE", "CONNECT_UPSTREAM", "FORWARD"} -> "waiting"
      [] s = "RESPOND" -> "writing"
      [] OTHER -> "none"

Dec(n) == IF n > 0 THEN n - 1 ELSE 0

\* transition_state, if the old category were left only for another one.
TransitionEntersOnly(st, old, new) ==
    [k \in DOMAIN st |-> IF old # new /\ k = new THEN st[k] + 1
                         ELSE IF old # new /\ new # "none" /\ k = old THEN Dec(st[k])
                         ELSE st[k]]

\* _set_state calls transition_state when the category changes.
Transition(st, old, new) ==
    [k \in DOMAIN st |-> IF old # new /\ k = new THEN st[k] + 1
                         ELSE IF old # new /\ k = old THEN Dec(st[k])
                         ELSE st[k]]

\* _set_state
SetState(c, new) ==
    /\ state' = [state EXCEPT ![c] = new]
    /\ stats' = Transition(stats, Category(state[c]), Category(new))

\* _set_state to MATCH_ROUTE and then on to `new`, without an await between them.
RoutedTo(c, new) ==
    LET matched == Transition(stats, Category(state[c]), Category("MATCH_ROUTE")) IN
    /\ state' = [state EXCEPT ![c] = new]
    /\ stats' = Transition(matched, Category("MATCH_ROUTE"), Category(new))

-----------------------------------------------------------------------------
(* proxy/load_balancer.py and proxy/health_check.py                         *)

Available ==
    LET regular == SelectSeq(ServerList, LAMBDA s : s \notin Backup)
    IN  IF algorithm = "round_robin" /\ regular # <<>> THEN regular ELSE ServerList

\* The available servers, each as often as its weight says.
Weighted ==
    LET upTo[k \in 0 .. Len(Available)] ==
            IF k = 0 THEN <<>>
            ELSE upTo[k - 1] \o [j \in 1 .. Weight[Available[k]] |-> Available[k]]
    IN  upTo[Len(Available)]

\* The server with the fewest connections for its weight; the first of several.
Fewest(s) ==
    \E k \in DOMAIN ServerList :
        /\ ServerList[k] = s
        /\ \A j \in DOMAIN ServerList :
             LET t == ServerList[j] IN
             IF j < k THEN conns[s] * Weight[t] < conns[t] * Weight[s]
             ELSE conns[s] * Weight[t] <= conns[t] * Weight[s]

\* select, of the four balancers.
Select(c, s) ==
    CASE algorithm = "round_robin" -> s = Weighted[index + 1] /\ index' = (index + 1) % Len(Weighted)
      [] algorithm = "least_conn"  -> Fewest(s) /\ UNCHANGED index
      [] algorithm = "ip_hash"     -> s = Weighted[(Hash[c] % Len(Weighted)) + 1] /\ UNCHANGED index
      [] algorithm = "random"      -> s \in Servers /\ UNCHANGED index

\* Only LeastConnBalancer has increment and decrement.
Increment(s) ==
    conns' = IF algorithm = "least_conn" THEN [conns EXCEPT ![s] = @ + 1] ELSE conns

Decrement(s) ==
    conns' = IF algorithm = "least_conn" THEN [conns EXCEPT ![s] = Dec(@)] ELSE conns

\* record_success
RecordSuccess(s) ==
    health' = [health EXCEPT ![s] = [failures |-> 0, unavailable |-> FALSE]]

\* record_failure, inside or outside of the time window of the last failure.
RecordFailure(s) ==
    \E before \in {0, health[s].failures} :
        LET n == IF before < MaxFailures THEN before + 1 ELSE before IN
        health' = [health EXCEPT ![s] = [failures    |-> n,
                                         unavailable |-> @.unavailable \/ n = MaxFailures]]

-----------------------------------------------------------------------------

Init ==
    /\ algorithm \in Algorithms
    /\ index = 0
    /\ conns = [s \in Servers |-> 0]
    /\ health = [s \in Servers |-> [failures |-> 0, unavailable |-> FALSE]]
    /\ stats = [k \in {"active", "reading", "waiting", "writing"} |-> 0]
    /\ at = [c \in Conns |-> "new"]
    /\ state = [c \in Conns |-> "none"]
    /\ request = [c \in Conns |-> None]
    /\ server = [c \in Conns |-> None]
    /\ sent = [c \in Conns |-> 0]
    /\ wire = [c \in Conns |-> <<>>]
    /\ buffer = [c \in Conns |-> <<>>]
    /\ answered = [c \in Conns |-> <<>>]
    /\ leaked = [s \in Servers |-> 0]

\* handle() starts: accepted, and reading.
Accept(c) ==
    /\ at[c] = "new"
    /\ at' = [at EXCEPT ![c] = "read"]
    /\ state' = [state EXCEPT ![c] = "READ_REQUEST"]
    /\ stats' = Transition([stats EXCEPT !["active"] = @ + 1], "none", "reading")
    /\ UNCHANGED <<algorithm, shared, request, server, client, buffer, answered>>

\* The client sends a request, without waiting for an answer if it likes (external).
ClientSends(c, r) ==
    /\ at[c] \notin {"new", "done", "relay"} /\ sent[c] < MaxRequests[c]
    /\ sent' = [sent EXCEPT ![c] = @ + 1]
    /\ wire' = [wire EXCEPT ![c] = Append(@, [id |-> sent[c] + 1, what |-> r])]
    /\ UNCHANGED <<algorithm, shared, stats, at, state, request, server, buffer, answered>>

-----------------------------------------------------------------------------
(* The end of a request                                                     *)

\* _close, whatever ended the loop; `st` are the counters at the time.
Closing(c, st) ==
    /\ at' = [at EXCEPT ![c] = "done"]
    /\ state' = [state EXCEPT ![c] = "CLOSED"]
    /\ stats' = [Transition(st, Category(state[c]), "none") EXCEPT !["active"] = Dec(@)]
    /\ request' = [request EXCEPT ![c] = None]
    /\ server' = [server EXCEPT ![c] = None]

\* The next round of the loop, or its end.
Continue(c) ==
    IF request[c].what.keepalive
    THEN /\ SetState(c, "READ_REQUEST")
         /\ at' = [at EXCEPT ![c] = "read"]
         /\ request' = [request EXCEPT ![c] = None]
         /\ server' = [server EXCEPT ![c] = None]
    ELSE Closing(c, stats)

Answer(c, r) == answered' = [answered EXCEPT ![c] = Append(@, r.id)]

-----------------------------------------------------------------------------
(* Reading and routing                                                      *)

\* Rest, if the parser did not take the request out of its buffer.
RestUnconsumed(requests) ==
    IF Head(requests).what.body THEN requests ELSE <<>>

\* What _try_parse leaves in the buffer: all that follows a body, and nothing
\* after a request without one.
Rest(requests) ==
    IF Head(requests).what.body THEN Tail(requests) ELSE <<>>

\* _match_route and the branches up to the next await.
Route(c, r) ==
    \/ /\ r.what.kind = "unrouted"
       /\ SetState(c, "MATCH_ROUTE") /\ Answer(c, r)
       /\ at' = [at EXCEPT ![c] = "error"]
       /\ UNCHANGED <<index, server>>
    \/ /\ r.what.kind = "static"
       /\ RoutedTo(c, "RESPOND") /\ Answer(c, r)
       /\ at' = [at EXCEPT ![c] = "respond"]
       /\ UNCHANGED <<index, server>>
    \/ /\ r.what.kind = "unserved"
       /\ RoutedTo(c, "CONNECT_UPSTREAM") /\ Answer(c, r)
       /\ at' = [at EXCEPT ![c] = "error"]
       /\ UNCHANGED <<index, server>>
    \/ /\ r.what.kind \in {"http", "websocket", "keyless"}
       /\ RoutedTo(c, "CONNECT_UPSTREAM")
       /\ \E s \in Servers : Select(c, s) /\ server' = [server EXCEPT ![c] = s]
       /\ at' = [at EXCEPT ![c] = "connect"]
       /\ UNCHANGED answered

\* read() returns some of what has arrived; a request is parsed only then.
Read(c) ==
    /\ at[c] = "read"
    /\ \E k \in 1 .. Len(wire[c]) :
         LET requests == buffer[c] \o SubSeq(wire[c], 1, k) IN
         /\ wire' = [wire EXCEPT ![c] = SubSeq(@, k + 1, Len(@))]
         /\ buffer' = [buffer EXCEPT ![c] = Rest(requests)]
         /\ request' = [request EXCEPT ![c] = Head(requests)]
         /\ Route(c, Head(requests))
    /\ UNCHANGED <<algorithm, conns, health, leaked, sent>>

\* End of stream, the timeout, or what is no request.
ReadEnds(c) ==
    /\ at[c] = "read"
    /\ Closing(c, stats)
    /\ UNCHANGED <<algorithm, shared, client, buffer, answered>>

-----------------------------------------------------------------------------
(* The upstream                                                             *)

\* open_connection returns.  A WebSocket request without its key is refused at once.
ConnectOk(c) ==
    /\ at[c] = "connect"
    /\ RecordSuccess(server[c]) /\ Increment(server[c])
    /\ \/ /\ request[c].what.kind = "http"
          /\ SetState(c, "FORWARD")
          /\ at' = [at EXCEPT ![c] = "forward"]
          /\ UNCHANGED <<leaked, answered>>
       \/ /\ request[c].what.kind = "websocket"
          /\ at' = [at EXCEPT ![c] = "upgrade"]
          /\ leaked' = [leaked EXCEPT ![server[c]] = @ + 1]
          /\ UNCHANGED <<state, stats, answered>>
       \/ /\ request[c].what.kind = "keyless"
          /\ Answer(c, request[c])
          /\ at' = [at EXCEPT ![c] = "refuse"]
          /\ leaked' = [leaked EXCEPT ![server[c]] = @ + 1]
          /\ UNCHANGED <<state, stats>>
    /\ UNCHANGED <<algorithm, index, request, server, client, buffer>>

\* It raises or takes more than five seconds.
ConnectFails(c) ==
    /\ at[c] = "connect"
    /\ RecordFailure(server[c])
    /\ Answer(c, request[c])
    /\ at' = [at EXCEPT ![c] = "error"]
    /\ UNCHANGED <<algorithm, index, conns, leaked, stats, state, request, server, client, buffer>>

\* _forward_request returns the response, after its finally clause.
Forwarded(c) ==
    /\ at[c] = "forward"
    /\ Decrement(server[c])
    /\ SetState(c, "RESPOND") /\ Answer(c, request[c])
    /\ at' = [at EXCEPT ![c] = "respond"]
    /\ UNCHANGED <<algorithm, index, health, leaked, request, server, client, buffer>>

\* ForwardFails, if a silent server were given up only when it is known to be down.
ForwardFailsWhenDown(c) ==
    /\ at[c] = "forward" /\ health[server[c]].unavailable
    /\ Decrement(server[c])
    /\ Closing(c, stats)
    /\ UNCHANGED <<algorithm, index, health, leaked, client, buffer, answered>>

\* It raises, or a timeout does: the connection is closed without an answer.
ForwardFails(c) ==
    /\ at[c] = "forward"
    /\ Decrement(server[c])
    /\ Closing(c, stats)
    /\ UNCHANGED <<algorithm, index, health, leaked, client, buffer, answered>>

\* drain() returns: the response, or an error, is out.
Sent(c) ==
    /\ at[c] \in {"respond", "error"}
    /\ Continue(c)
    /\ UNCHANGED <<algorithm, shared, client, buffer, answered>>

\* drain() raises.
SendFails(c) ==
    /\ at[c] \in {"respond", "error"}
    /\ Closing(c, stats)
    /\ UNCHANGED <<algorithm, shared, client, buffer, answered>>

-----------------------------------------------------------------------------
(* proxy/websocket.py                                                       *)

\* Upstream answers 101, and the client is told.
Upgraded(c) ==
    /\ at[c] = "upgrade"
    /\ Answer(c, request[c])
    /\ at' = [at EXCEPT ![c] = "relay"]
    /\ UNCHANGED <<algorithm, shared, stats, state, request, server, client, buffer>>

\* It does not answer in time or closes: an error is sent.
UpgradeRefused(c) ==
    /\ at[c] = "upgrade"
    /\ Answer(c, request[c])
    /\ at' = [at EXCEPT ![c] = "refuse"]
    /\ UNCHANGED <<algorithm, shared, stats, state, request, server, client, buffer>>

\* A connection breaks, or upstream answers otherwise: that answer is passed
\* on and the await of write() raises.
UpgradeRaises(c) ==
    /\ at[c] \in {"upgrade", "refuse", "relay"}
    /\ Closing(c, stats)
    /\ \/ at[c] = "upgrade" /\ Answer(c, request[c])
       \/ UNCHANGED answered
    /\ UNCHANGED <<algorithm, shared, client, buffer>>

\* The relay ends or the error is out.
UpgradeEnds(c) ==
    /\ at[c] \in {"relay", "refuse"}
    /\ Closing(c, stats)
    /\ UNCHANGED <<algorithm, shared, client, buffer, answered>>

-----------------------------------------------------------------------------

Step(c) ==
    \/ Accept(c) \/ Read(c) \/ ReadEnds(c)
    \/ ConnectOk(c) \/ ConnectFails(c) \/ Forwarded(c) \/ ForwardFails(c) \/ Sent(c) \/ SendFails(c)
    \/ Upgraded(c) \/ UpgradeRefused(c) \/ UpgradeRaises(c) \/ UpgradeEnds(c)

Next == \E c \in Conns : Step(c) \/ \E r \in Requests : ClientSends(c, r)

Spec == Init /\ [][Next]_vars

\* The timeouts of connecting, forwarding and upgrading expire, and a client
\* takes what is sent to it or goes away.  An upstream need not answer.
Fairness ==
    \A c \in Conns :
        /\ WF_vars(ConnectFails(c)) /\ WF_vars(ForwardFails(c)) /\ WF_vars(UpgradeRefused(c))
        /\ WF_vars(Sent(c) \/ SendFails(c)) /\ WF_vars(at[c] = "refuse" /\ UpgradeEnds(c))

FairSpec == Spec /\ Fairness

-----------------------------------------------------------------------------
(* Properties                                                               *)

In(category) == {c \in Conns : Category(state[c]) = category}

\* The counters of the status page, which the tasks move one by one with a
\* clamping at zero, show exactly the connections there are, on every path
\* through handle(); LeastConnBalancer counts the requests being forwarded to a
\* server and, since handle() has no decrement on that path, every WebSocket
\* connection it ever had, but nothing else.
CountersExact ==
    /\ stats["active"] = Cardinality({c \in Conns : at[c] \notin {"new", "done"}})
    /\ \A k \in {"reading", "waiting", "writing"} : stats[k] = Cardinality(In(k))
    /\ algorithm = "least_conn" =>
         \A s \in Servers :
             conns[s] = Cardinality({c \in Conns : at[c] = "forward" /\ server[c] = s}) + leaked[s]

\* However requests are cut into reads, a connection answers each request at
\* most once and in the order they were sent (HttpParser's buffer).
AnswersInOrder ==
    \A c \in Conns :
        \A j, k \in DOMAIN answered[c] : j < k => answered[c][j] < answered[c][k]

\* A request does not keep its connection for ever, even if the upstream
\* never answers: the loop comes back to reading, ends or relays.
RequestsEnd ==
    \A c \in Conns :
        at[c] \notin {"new", "read", "relay", "done"} ~> at[c] \in {"read", "relay", "done"}

=============================================================================
