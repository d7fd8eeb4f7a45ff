--------------------------- MODULE MediationServer ---------------------------
(***************************************************************************)
(* The mediation server of server/main.py: one handler task per TCP        *)
(* connection (handle_client), the pruning task (_prune_loop), and the     *)
(* state they share: the writers, the client registry, the pending         *)
(* challenges, the memberships and the relay paths.                        *)
(*                                                                         *)
(* The server is single-threaded asyncio.  An action is the code a task    *)
(* runs between two awaits.  A task that has written a message waits in    *)
(* writer.drain(): it is resumed with success (Resume) while the           *)
(* connection lives, or with ConnectionResetError (Raise) once it is lost. *)
(***************************************************************************)
EXTENDS Naturals, FiniteSets

CONSTANTS
    Clients,       \* client ids
    Conns,         \* TCP connections; each is used once, so their number is the bound
    Networks,      \* network ids
    Pruner,        \* the task running _prune_loop
    None,          \* Python's None, and a key a dict does not hold
    MaxClients,    \* config.max_clients
    MaxAttempts,   \* config.auth_max_attempts
    Requests,      \* the commands the clients of this instance send
    Faults         \* the environment's events in this instance

ASSUME ConstantsAssumption ==
    /\ IsFiniteSet(Clients)
    /\ Pruner \notin Conns
    /\ None \notin Clients \cup Conns \cup Networks
    /\ MaxClients \in Nat
    /\ MaxAttempts \in Nat \ {0}
    /\ Requests \subseteq {"heartbeat", "create", "join", "leave", "relay", "query"}
    /\ Faults \subseteq {"drop", "garbage", "silence", "expiry", "shutdown"}

VARIABLES
    link,          \* per connection: "free", "open", "ending" (EOF, reset or close()), "closed"
    cid,           \* handle_client's local client_id
    authed,        \* handle_client's local authenticated
    task,          \* where each task waits, and what it still has to announce
    stale,         \* _prune_loop's local stale list, less the id being handled
    down,          \* _shutting_down
    writers,       \* _writers
    authenticated, \* _authenticated: the ids mapped to True
    pending,       \* AuthSession._pending
    online,        \* ClientRecord.online
    fresh,         \* last_heartbeat is within heartbeat_timeout
    endpoint,      \* ClientRecord.public_endpoint, as the connection it belongs to
    networks,      \* ClientRecord.networks (and NetworkRecord.members)
    created,       \* the networks that exist
    paths,         \* RelayForwarder._paths
    roster,        \* per connection: the peers announced online on it and not offline since
    latest,        \* history: the connection that last registered as the client
    met            \* history: <<n, i, j>> such that i was in network n together with j or after it

handlers == <<link, cid, authed, task, roster>>
registry == <<writers, authenticated, online, endpoint, paths>>
vars == <<handlers, registry, stale, down, pending, fresh, networks, created, latest, met>>

Tasks == Conns \cup {Pruner}

\* What a task waits for: drain() of connection `on`, in phase `at`, with the
\* rest of its announcements about client `who`: `peers` of network `net`, then `nets`.
Phases ==
    {"read", "register", "reply", "error", "welcome", "goodbye", "grant",
     "online", "offline", "final", "done", "sleep", "sweep", "dead"}

TaskRecord ==
    [at : Phases, on : Conns \cup {None}, who : Clients \cup {None},
     net : Networks \cup {None}, peers : SUBSET Clients, nets : SUBSET Networks]

Waiting(phase) ==
    [at |-> phase, on |-> None, who |-> None, net |-> None, peers |-> {}, nets |-> {}]

Init ==
    /\ link = [c \in Conns |-> "free"]
    /\ cid = [c \in Conns |-> None]
    /\ authed = [c \in Conns |-> FALSE]
    /\ task = [t \in Tasks |-> Waiting(IF t = Pruner THEN "sleep" ELSE "read")]
    /\ stale = {}
    /\ down = FALSE
    /\ writers = [i \in Clients |-> None]
    /\ authenticated = {}
    /\ pending = [i \in Clients |-> None]
    /\ online = [i \in Clients |-> FALSE]
    /\ fresh = [i \in Clients |-> FALSE]
    /\ endpoint = [i \in Clients |-> None]
    /\ networks = [i \in Clients |-> {}]
    /\ created = {}
    /\ paths = {}
    /\ roster = [c \in Conns |-> {}]
    /\ latest = [i \in Clients |-> None]
    /\ met = {}

-----------------------------------------------------------------------------
(* Announcements: _announce_peer_online, _announce_peer_offline             *)

\* Members, if the network were not looked at.
MembersOfAny(n, i, onl) == {p \in Clients \ {i} : onl[p]}

\* registry.members_in_networks([n]) without the client announced.
Members(n, i, onl) == {p \in Clients \ {i} : onl[p] /\ n \in networks[p]}

\* The members the loop finds in _writers.
Reachable(peers) == {p \in peers : writers[p] # None}

\* The loop over `peers` writes to the next member that has a writer, having
\* passed over some that have none, and waits in drain().
Notify(t, phase, i, n, peers, nets) ==
    \E p \in Reachable(peers), passed \in SUBSET (peers \ Reachable(peers)) :
        /\ task' = [task EXCEPT ![t] =
                      [at |-> phase, on |-> writers[p], who |-> i, net |-> n,
                       peers |-> peers \ (passed \cup {p}), nets |-> nets]]
        /\ roster' = [roster EXCEPT ![writers[p]] =
                        IF link[writers[p]] = "closed" THEN @
                        ELSE IF phase = "online" THEN @ \cup {<<n, i>>}
                        ELSE @ \ {<<n, i>>}]
        /\ UNCHANGED <<link, cid, authed>>

\* The end of handle_client: writer.close(), and the locals are gone.
Closed(c) ==
    /\ link' = [link EXCEPT ![c] = "closed"]
    /\ task' = [task EXCEPT ![c] = Waiting("done")]
    /\ cid' = [cid EXCEPT ![c] = None]
    /\ authed' = [authed EXCEPT ![c] = FALSE]
    /\ roster' = [roster EXCEPT ![c] = {}]

\* The announcing call returns.  Only now does handle_client set its local
\* `authenticated`; a command's handler already has it.
Announced(t, phase) ==
    \/ /\ t = Pruner
       /\ task' = [task EXCEPT ![t] = Waiting(IF stale' = {} THEN "sleep" ELSE "sweep")]
       /\ UNCHANGED <<link, cid, authed, roster>>
    \/ /\ t # Pruner /\ phase = "final"
       /\ Closed(t)
    \/ /\ t # Pruner /\ phase # "final"
       /\ task' = [task EXCEPT ![t] = Waiting("read")]
       /\ authed' = [authed EXCEPT ![t] = TRUE]
       /\ UNCHANGED <<link, cid, roster>>

\* From one await of an announcing task to the next: the rest of the current
\* network's snapshot, else the snapshot of the next network in which
\* somebody can be written to, else the end.
Announce(t, phase, i, n, peers, nets, onl) ==
    \/ Notify(t, phase, i, n, peers, nets)
    \/ /\ Reachable(peers) = {}
       /\ \E m \in nets : \E empty \in SUBSET (nets \ {m}) :
             /\ \A e \in empty : Reachable(Members(e, i, onl)) = {}
             /\ Notify(t, phase, i, m, Members(m, i, onl), nets \ (empty \cup {m}))
    \/ /\ Reachable(peers) = {}
       /\ \A m \in nets : Reachable(Members(m, i, onl)) = {}
       /\ Announced(t, phase)

\* _handle_disconnect, if it left the writer, the endpoint or the relay paths behind.
DisconnectKeepsWriter(t, i, onl) ==
    /\ authenticated' = authenticated \ {i}
    /\ online' = [onl EXCEPT ![i] = FALSE]
    /\ endpoint' = [endpoint EXCEPT ![i] = None]
    /\ paths' = {p \in paths : p[1] # i /\ p[2] # i}
    /\ Announce(t, "final", i, None, {}, networks[i], onl)
    /\ UNCHANGED writers

DisconnectKeepsEndpoint(t, i, onl) ==
    /\ writers' = [writers EXCEPT ![i] = None]
    /\ authenticated' = authenticated \ {i}
    /\ online' = [onl EXCEPT ![i] = FALSE]
    /\ paths' = {p \in paths : p[1] # i /\ p[2] # i}
    /\ Announce(t, "final", i, None, {}, networks[i], onl)
    /\ UNCHANGED endpoint

DisconnectKeepsPaths(t, i, onl) ==
    /\ writers' = [writers EXCEPT ![i] = None]
    /\ authenticated' = authenticated \ {i}
    /\ online' = [onl EXCEPT ![i] = FALSE]
    /\ endpoint' = [endpoint EXCEPT ![i] = None]
    /\ Announce(t, "final", i, None, {}, networks[i], onl)
    /\ UNCHANGED paths

\* _handle_disconnect(i) up to its first await.
Disconnect(t, i, onl) ==
    /\ writers' = [writers EXCEPT ![i] = None]
    /\ authenticated' = authenticated \ {i}
    /\ online' = [onl EXCEPT ![i] = FALSE]
    /\ endpoint' = [endpoint EXCEPT ![i] = None]
    /\ paths' = {p \in paths : p[1] # i /\ p[2] # i}
    /\ Announce(t, "final", i, None, {}, networks[i], onl)

\* The finally clause of handle_client.
Finally(c) ==
    \/ /\ cid[c] # None /\ authed[c]
       /\ Disconnect(c, cid[c], online)
    \/ /\ ~(cid[c] # None /\ authed[c])
       /\ Closed(c)
       /\ UNCHANGED registry

-----------------------------------------------------------------------------
(* Connections: what the network does to them                               *)

Accept(c) ==
    /\ ~down /\ link[c] = "free"
    /\ link' = [link EXCEPT ![c] = "open"]
    /\ UNCHANGED <<cid, authed, task, roster, registry, stale, down, pending, fresh,
                   networks, created, latest, met>>

\* The peer closes or resets the connection.  Data already received can
\* still be read, and a write may or may not be refused from now on.
Drop(c) ==
    /\ "drop" \in Faults /\ link[c] = "open"
    /\ link' = [link EXCEPT ![c] = "ending"]
    /\ UNCHANGED <<cid, authed, task, roster, registry, stale, down, pending, fresh,
                   networks, created, latest, met>>

Reading(c) == link[c] \in {"open", "ending"} /\ task[c].at = "read"

\* readexactly() fails at the end of the stream.
EndOfStream(c) ==
    /\ Reading(c) /\ link[c] = "ending"
    /\ Finally(c)
    /\ UNCHANGED <<stale, down, pending, fresh, networks, created, latest, met>>

\* An oversized frame, or one parse_message rejects, ends the loop.
Garbage(c) ==
    /\ "garbage" \in Faults /\ Reading(c)
    /\ Finally(c)
    /\ UNCHANGED <<stale, down, pending, fresh, networks, created, latest, met>>

-----------------------------------------------------------------------------
(* Registration and authentication                                          *)

\* The handler has written a message to its own client and waits in drain().
Sent(c, phase, i, n) ==
    task' = [task EXCEPT ![c] =
               [at |-> phase, on |-> c, who |-> i, net |-> n, peers |-> {}, nets |-> {}]]

Unchanged == UNCHANGED <<cid, authed, roster, stale, down, created>>

\* Messages answered without a change of state before authentication:
\* REGISTER_REQUIRED, INVALID_REGISTER, AUTH_REQUIRED, an invalid AUTH_RESPONSE.
NotReady(c) ==
    /\ "query" \in Requests /\ Reading(c) /\ ~authed[c]
    /\ Sent(c, "reply", None, None)
    /\ UNCHANGED <<link, registry, pending, fresh, networks, latest, met>> /\ Unchanged

\* The capacity check, off by one.
FullOffByOne(i) ==
    /\ Cardinality({j \in Clients : writers[j] # None}) > MaxClients
    /\ writers[i] = None

Full(i) ==
    /\ Cardinality({j \in Clients : writers[j] # None}) >= MaxClients
    /\ writers[i] = None

ServerFull(c, i) ==
    /\ Reading(c) /\ cid[c] = None /\ Full(i)
    /\ Sent(c, "reply", None, None)
    /\ UNCHANGED <<link, registry, pending, fresh, networks, latest, met>> /\ Unchanged

\* AuthSession.issue: a fresh nonce, known by the connection it is sent on.
Issued(c) == [nonce |-> c, attempts |-> 0, seen |-> link[c] = "open"]

\* _on_register: the local client_id is assigned only when the challenge has
\* been drained (phase "register").
Register(c, i) ==
    /\ Reading(c) /\ cid[c] = None /\ ~Full(i)
    /\ link' = [d \in Conns |->
                  IF d = writers[i] /\ d # c /\ link[d] = "open" THEN "ending" ELSE link[d]]
    /\ endpoint' = [endpoint EXCEPT ![i] = c]
    /\ online' = [online EXCEPT ![i] = TRUE]
    /\ fresh' = [fresh EXCEPT ![i] = TRUE]
    /\ writers' = [writers EXCEPT ![i] = c]
    /\ authenticated' = authenticated \ {i}
    /\ pending' = [pending EXCEPT ![i] = Issued(c)]
    /\ latest' = [latest EXCEPT ![i] = c]
    /\ Sent(c, "register", i, None)
    /\ UNCHANGED <<paths, networks, met>> /\ Unchanged

\* AuthSession.verify on a signature: "good" signs the nonce sent on this
\* connection with the registered key, "bad" does not, "malformed" is not hex.
\* A peer that was gone when the challenge was written has not seen the nonce.
Verified(c, sig) ==
    /\ pending[cid[c]] # None
    /\ sig = "good" /\ pending[cid[c]].nonce = c /\ pending[cid[c]].seen

\* A failed signature is put back with one attempt more, up to the limit;
\* a malformed one, or none pending, leaves no challenge.
Requeued(c, sig) ==
    LET p == pending[cid[c]] IN
    IF p = None \/ sig = "malformed" \/ p.attempts + 1 >= MaxAttempts
    THEN None
    ELSE [p EXCEPT !.attempts = @ + 1]

AuthFail(c, sig) ==
    /\ Reading(c) /\ cid[c] # None /\ ~authed[c] /\ ~Verified(c, sig)
    /\ pending' = [pending EXCEPT ![cid[c]] = Requeued(c, sig)]
    /\ Sent(c, "reply", None, None)
    /\ UNCHANGED <<link, registry, fresh, networks, latest, met>> /\ Unchanged

AuthOk(c) ==
    /\ Reading(c) /\ cid[c] # None /\ ~authed[c] /\ Verified(c, "good")
    /\ pending' = [pending EXCEPT ![cid[c]] = None]
    /\ authenticated' = authenticated \cup {cid[c]}
    /\ Sent(c, "welcome", cid[c], None)
    /\ UNCHANGED <<link, writers, online, endpoint, paths, fresh, networks, latest, met>>
    /\ Unchanged

\* A challenge older than the TTL: consume() drops it, and so does expire_stale().
ChallengeExpires(i) ==
    /\ "expiry" \in Faults /\ pending[i] # None
    /\ pending' = [pending EXCEPT ![i] = None]
    /\ UNCHANGED <<link, task, registry, fresh, networks, latest, met>> /\ Unchanged

-----------------------------------------------------------------------------
(* Commands: _dispatch                                                      *)

Commanded(c, req) == req \in Requests /\ Reading(c) /\ authed[c]

Heartbeat(c) ==
    /\ Commanded(c, "heartbeat")
    /\ fresh' = [fresh EXCEPT ![cid[c]] = TRUE]
    /\ online' = [online EXCEPT ![cid[c]] = TRUE]
    /\ Sent(c, "reply", None, None)
    /\ UNCHANGED <<link, writers, authenticated, endpoint, paths, pending, networks, latest, met>>
    /\ Unchanged

\* Requests that only answer: LIST_NETWORKS, REQUEST_PEER_CONN, unknown and
\* invalid messages, and every request refused with an ERROR.
Query(c) ==
    /\ Commanded(c, "query")
    /\ Sent(c, "reply", None, None)
    /\ UNCHANGED <<link, registry, pending, fresh, networks, latest, met>> /\ Unchanged

\* Membership of client i in network n, with the meetings it brings about.
Enter(i, n) ==
    /\ networks' = [networks EXCEPT ![i] = @ \cup {n}]
    /\ met' = met \cup {<<n, i, i>>}
                  \cup {<<n, j, i>> : j \in {j \in Clients : n \in networks[j]}}
                  \cup {<<n, i, j>> : j \in {j \in Clients : <<n, j, j>> \in met}}

CreateNetwork(c, n) ==
    /\ Commanded(c, "create") /\ n \notin created
    /\ created' = created \cup {n}
    /\ Enter(cid[c], n)
    /\ Sent(c, "welcome", cid[c], None)
    /\ UNCHANGED <<link, registry, pending, fresh, latest, cid, authed, roster, stale, down>>

JoinNetwork(c, n) ==
    /\ Commanded(c, "join") /\ n \in created
    /\ Enter(cid[c], n)
    /\ Sent(c, "welcome", cid[c], None)
    /\ UNCHANGED <<link, registry, pending, fresh, latest>> /\ Unchanged

LeaveNetwork(c, n) ==
    /\ Commanded(c, "leave") /\ n \in networks[cid[c]]
    /\ networks' = [networks EXCEPT ![cid[c]] = @ \ {n}]
    /\ Sent(c, "goodbye", cid[c], n)
    /\ UNCHANGED <<link, registry, pending, fresh, latest, met>> /\ Unchanged

\* handle_relay_request: both directions of the path at once, then the grants.
RelayRequest(c, j) ==
    /\ Commanded(c, "relay")
    /\ online[cid[c]] /\ online[j] /\ networks[cid[c]] \cap networks[j] # {}
    /\ paths' = paths \cup {<<cid[c], j>>, <<j, cid[c]>>}
    /\ Sent(c, "grant", j, None)
    /\ UNCHANGED <<link, writers, authenticated, online, endpoint, pending, fresh, networks,
                   latest, met>>
    /\ Unchanged

-----------------------------------------------------------------------------
(* Resuming from drain()                                                    *)

\* drain() returns.
Drained(t, phase) ==
    /\ task[t].at = phase
    /\ task[t].on # None /\ link[task[t].on] \in {"open", "ending"}

Others == <<stale, down, pending, fresh, networks, created, latest, met>>

ResumeRegister(c) ==
    /\ Drained(c, "register")
    /\ cid' = [cid EXCEPT ![c] = task[c].who]
    /\ task' = [task EXCEPT ![c] = Waiting("read")]
    /\ UNCHANGED <<link, authed, roster, registry, Others>>

ResumeReply(c) ==
    /\ Drained(c, "reply") \/ Drained(c, "error")
    /\ task' = [task EXCEPT ![c] = Waiting("read")]
    /\ UNCHANGED <<link, cid, authed, roster, registry, Others>>

\* AUTH_RESULT, NETWORK_CREATED or NETWORK_JOINED is out: _announce_peer_online.
ResumeWelcome(c) ==
    /\ Drained(c, "welcome")
    /\ Announce(c, "online", task[c].who, None, {}, networks[task[c].who], online)
    /\ UNCHANGED <<registry, Others>>

\* NETWORK_LEFT is out: _announce_peer_offline in the network left.
ResumeGoodbye(c) ==
    /\ Drained(c, "goodbye")
    /\ Announce(c, "offline", task[c].who, task[c].net,
                Members(task[c].net, task[c].who, online), {}, online)
    /\ UNCHANGED <<registry, Others>>

\* The requester's RELAY_GRANTED is out: the other side's, if it has a writer.
ResumeGrant(c) ==
    /\ Drained(c, "grant")
    /\ LET w == writers[task[c].who] IN
       task' = [task EXCEPT ![c] =
                  IF w = None THEN Waiting("read") ELSE [Waiting("reply") EXCEPT !.on = w]]
    /\ UNCHANGED <<link, cid, authed, roster, registry, Others>>

ResumeAnnounce(t) ==
    /\ \E phase \in {"online", "offline", "final"} : Drained(t, phase)
    /\ UNCHANGED <<registry, Others>>
    /\ Announce(t, task[t].at, task[t].who, task[t].net, task[t].peers, task[t].nets, online)

\* Raised, if a task already waiting did not notice that the connection was lost.
RaisedWhileEnding(t) == task[t].on # None /\ link[task[t].on] = "ending"

\* drain() raises ConnectionResetError.
Raised(t) == task[t].on # None /\ link[task[t].on] \in {"ending", "closed"}

\* Within a command _dispatch catches the exception and writes an INTERNAL error.
RaiseInDispatch(c) ==
    /\ Raised(c) /\ authed[c] /\ task[c].at \notin {"error", "final"}
    /\ task' = [task EXCEPT ![c] = [Waiting("error") EXCEPT !.on = c]]
    /\ UNCHANGED <<link, cid, authed, roster, registry, Others>>

\* Before authentication, or writing that error: the exception ends the loop.
RaiseInLoop(c) ==
    /\ Raised(c) /\ (~authed[c] \/ task[c].at = "error") /\ task[c].at # "final"
    /\ Finally(c)
    /\ UNCHANGED Others

\* In the finally clause: the task ends and writer.close() is never reached.
RaiseInFinally(c) ==
    /\ Raised(c) /\ task[c].at = "final"
    /\ task' = [task EXCEPT ![c] = Waiting("done")]
    /\ cid' = [cid EXCEPT ![c] = None]
    /\ authed' = [authed EXCEPT ![c] = FALSE]
    /\ UNCHANGED <<link, roster, registry, Others>>

\* In the pruning task nothing catches it: the task is over, its list lost.
RaiseInPrune ==
    /\ Raised(Pruner)
    /\ task' = [task EXCEPT ![Pruner] = Waiting("dead")]
    /\ stale' = {}
    /\ UNCHANGED <<link, cid, authed, roster, registry, down, pending, fresh, networks, created,
                   latest, met>>

-----------------------------------------------------------------------------
(* The pruning task and shutdown                                            *)

\* heartbeat_timeout passes without a heartbeat.
Silence(i) ==
    /\ "silence" \in Faults /\ online[i] /\ fresh[i]
    /\ fresh' = [fresh EXCEPT ![i] = FALSE]
    /\ UNCHANGED <<handlers, registry, stale, down, pending, networks, created, latest, met>>

\* registry.prune_stale marks every silent client offline; the first one is
\* disconnected in the same stretch of code.
Prune ==
    LET silent == {i \in Clients : online[i] /\ ~fresh[i]}
    IN  /\ task[Pruner].at = "sleep"
        /\ \E i \in silent :
             /\ stale' = silent \ {i}
             /\ Disconnect(Pruner, i, [j \in Clients |-> online[j] /\ j \notin silent])
        /\ UNCHANGED <<down, pending, fresh, networks, created, latest, met>>

\* The loop goes on to the next id of its list.
PruneNext ==
    /\ task[Pruner].at = "sweep"
    /\ \E i \in stale :
         /\ stale' = stale \ {i}
         /\ Disconnect(Pruner, i, online)
    /\ UNCHANGED <<down, pending, fresh, networks, created, latest, met>>

\* Every writer is closed, _writers is cleared and the pruning task cancelled.
Shutdown ==
    /\ "shutdown" \in Faults /\ ~down
    /\ down' = TRUE
    /\ link' = [c \in Conns |->
                  IF link[c] = "open" /\ \E i \in Clients : writers[i] = c
                  THEN "ending" ELSE link[c]]
    /\ writers' = [i \in Clients |-> None]
    /\ task' = [task EXCEPT ![Pruner] = Waiting("dead")]
    /\ stale' = {}
    /\ UNCHANGED <<cid, authed, roster, authenticated, online, endpoint, paths, pending,
                   fresh, networks, created, latest, met>>

-----------------------------------------------------------------------------

ResumeStep(c) ==
    \/ ResumeRegister(c) \/ ResumeReply(c) \/ ResumeWelcome(c) \/ ResumeGoodbye(c)
    \/ ResumeGrant(c) \/ RaiseInDispatch(c) \/ RaiseInLoop(c) \/ RaiseInFinally(c)

MessageStep(c) ==
    \/ NotReady(c)
    \/ \E i \in Clients : ServerFull(c, i) \/ Register(c, i)
    \/ \E sig \in {"good", "bad", "malformed"} : AuthFail(c, sig)
    \/ AuthOk(c) \/ Heartbeat(c) \/ Query(c)
    \/ \E n \in Networks : CreateNetwork(c, n) \/ JoinNetwork(c, n) \/ LeaveNetwork(c, n)
    \/ \E j \in Clients : RelayRequest(c, j)

TaskStep ==
    \/ \E c \in Conns :
         Accept(c) \/ Drop(c) \/ EndOfStream(c) \/ Garbage(c) \/ MessageStep(c) \/ ResumeStep(c)
    \/ \E t \in Tasks : ResumeAnnounce(t)
    \/ \E i \in Clients : ChallengeExpires(i) \/ Silence(i)
    \/ Prune \/ RaiseInPrune \/ Shutdown

\* There is no await between two ids of the pruner's list.
Next == PruneNext \/ (task[Pruner].at # "sweep" /\ TaskStep)

Spec == Init /\ [][Next]_vars

\* Every suspended task is resumed: the peers read what they are sent, or the
\* connection breaks.  A connection that ended holds finitely many unread messages.
Fairness ==
    /\ \A c \in Conns : WF_vars(ResumeStep(c)) /\ SF_vars(EndOfStream(c))
    /\ \A t \in Tasks : WF_vars(ResumeAnnounce(t))
    /\ WF_vars(Prune) /\ WF_vars(PruneNext) /\ WF_vars(RaiseInPrune)

FairSpec == Spec /\ Fairness

-----------------------------------------------------------------------------
(* Properties                                                               *)

\* Type invariant.
TypeOK ==
    /\ link \in [Conns -> {"free", "open", "ending", "closed"}]
    /\ cid \in [Conns -> Clients \cup {None}]
    /\ authed \in [Conns -> BOOLEAN]
    /\ task \in [Tasks -> TaskRecord]
    /\ stale \subseteq Clients
    /\ down \in BOOLEAN
    /\ writers \in [Clients -> Conns \cup {None}]
    /\ authenticated \subseteq Clients
    /\ pending \in [Clients -> [nonce : Conns, attempts : 0 .. MaxAttempts - 1, seen : BOOLEAN]
                              \cup {None}]
    /\ online \in [Clients -> BOOLEAN]
    /\ fresh \in [Clients -> BOOLEAN]
    /\ endpoint \in [Clients -> Conns \cup {None}]
    /\ networks \in [Clients -> SUBSET Networks]
    /\ created \subseteq Networks
    /\ paths \subseteq Clients \X Clients
    /\ roster \in [Conns -> SUBSET (Networks \X Clients)]
    /\ latest \in [Clients -> Conns \cup {None}]
    /\ met \subseteq Networks \X Clients \X Clients

\* _on_register's check keeps _writers within max_clients, although entries
\* are added and removed by handlers, their finally clauses and the pruner.
Capacity == Cardinality({i \in Clients : writers[i] # None}) <= MaxClients

\* The endpoint handed to peers (REQUEST_PEER_CONN) belongs to the connection
\* the server writes to, which is the client's newest: _on_register and
\* _handle_disconnect keep _writers and public_endpoint in step.
EndpointIsWriter ==
    \A i \in Clients :
        /\ writers[i] # None => endpoint[i] = writers[i] /\ writers[i] = latest[i]
        /\ endpoint[i] # None => down \/ writers[i] = endpoint[i]

\* The pruner has marked i offline and not yet disconnected it, or never will.
Unswept(i) == i \in stale \/ task[Pruner].at = "dead"

\* A client with a writer is online in the registry, so announcements reach
\* it, except between prune_stale and its _handle_disconnect.
WritableIsOnline ==
    \A i \in Clients : writers[i] # None => online[i] \/ Unswept(i)

\* Relay paths come in both directions and join clients that are online:
\* drop_client leaves no path of a client that was disconnected.
PathsAreLive ==
    \A p \in paths :
        /\ <<p[2], p[1]>> \in paths
        /\ online[p[1]] \/ Unswept(p[1])

\* A client is told only about peers of a network that it was in together with
\* them or after them, although an announcement goes on over awaits in which
\* members leave and register again on other connections.
RosterJustified ==
    \A i \in Clients :
        writers[i] # None =>
            \A e \in roster[writers[i]] : <<e[1], i, e[2]>> \in met

\* A handler whose connection has ended runs to its end, whatever the
\* connections it was announcing to do meanwhile.
HandlersReturn == \A c \in Conns : link[c] = "ending" ~> task[c].at = "done"

=============================================================================
