----------------------- MODULE MediationServerProofs ------------------------
(***************************************************************************)
(* Proofs about MediationServer, for every set of clients, connections and *)
(* networks and every capacity. The handlers' part of the state (HInv) and *)
(* the registry's part (RInv) are shown inductive together.                *)
(***************************************************************************)
EXTENDS MediationServer, FiniteSetTheorems, TLAPS

\* The provers to try on a leaf that names none, and how long.
USE SMTT(30), ZenonT(30)

AnnouncePhases == {"online", "offline", "final"}

\* The types of the handlers' variables.
HandlersType ==
    /\ link \in [Conns -> {"free", "open", "ending", "closed"}]
    /\ cid \in [Conns -> Clients \cup {None}]
    /\ authed \in [Conns -> BOOLEAN]
    /\ task \in [Tasks -> TaskRecord]
    /\ roster \in [Conns -> SUBSET (Networks \X Clients)]

\* What a phase says about the locals of its task: the client announced and
\* the network are known where they are used, an authenticated handler has a client_id.
TaskShape ==
    /\ \A c \in Conns :
         /\ task[c].at \notin {"sleep", "sweep", "dead"}
         /\ authed[c] => cid[c] # None
         /\ task[c].at \in {"welcome", "goodbye", "online", "offline"} => cid[c] # None
    /\ task[Pruner].at \in {"sleep", "sweep", "final", "dead"}
    /\ \A t \in Tasks :
         /\ task[t].at \in {"register", "welcome", "goodbye", "grant"} \cup AnnouncePhases
              => task[t].who # None
         /\ task[t].at \in {"goodbye"} \cup AnnouncePhases => task[t].net # None

HInv == HandlersType /\ TaskShape

\* The pruner sleeps only with its list exhausted.
SleepsEmpty == task[Pruner].at = "sleep" => stale = {}

SharedType ==
    /\ stale \subseteq Clients
    /\ down \in BOOLEAN
    /\ writers \in [Clients -> Conns \cup {None}]
    /\ authenticated \subseteq Clients
    /\ pending \in [Clients -> [nonce : Conns, attempts : 0 .. MaxAttempts - 1, seen : BOOLEAN]
                              \cup {None}]
    /\ online \in [Clients -> BOOLEAN]
    /\ fresh \in [Clients -> BOOLEAN]
    /\ endpoint \in [Clients -> Conns \cup {None}]
    /\ networks \in [Clients -> SUBSET Networks]
    /\ created \subseteq Networks
    /\ paths \subseteq Clients \X Clients
    /\ latest \in [Clients -> Conns \cup {None}]
    /\ met \subseteq Networks \X Clients \X Clients

\* The inductive invariant.
IInv ==
    /\ HInv /\ SharedType /\ SleepsEmpty
    /\ Capacity /\ EndpointIsWriter /\ WritableIsOnline /\ PathsAreLive

-----------------------------------------------------------------------------
(* The handlers' steps                                                      *)

\* Record r suits task t, whose locals are cid'[t] and authed'[t].
Suits(t, r) ==
    /\ r \in TaskRecord
    /\ t \in Conns =>
         /\ r.at \notin {"sleep", "sweep", "dead"}
         /\ authed'[t] => cid'[t] # None
         /\ r.at \in {"welcome", "goodbye", "online", "offline"} => cid'[t] # None
    /\ t = Pruner => r.at \in {"sleep", "sweep", "final", "dead"}
    /\ r.at \in {"register", "welcome", "goodbye", "grant"} \cup AnnouncePhases => r.who # None
    /\ r.at \in {"goodbye"} \cup AnnouncePhases => r.net # None

\* The types of the handlers' variables other than task, after a step of
\* task t, which leaves the locals of the other handlers alone.
LocalsType(t) ==
    /\ link' \in [Conns -> {"free", "open", "ending", "closed"}]
    /\ cid' \in [Conns -> Clients \cup {None}]
    /\ authed' \in [Conns -> BOOLEAN]
    /\ roster' \in [Conns -> SUBSET (Networks \X Clients)]
    /\ \A c \in Conns : c # t => cid'[c] = cid[c] /\ authed'[c] = authed[c]

\* Replacing one task's record by a suitable one keeps HInv.
LEMMA TaskChange ==
    ASSUME HInv, NEW t \in Tasks, NEW r, Suits(t, r), LocalsType(t),
           task' = [task EXCEPT ![t] = r]
    PROVE  HInv'
<1>1. \A u \in Tasks : task'[u] = IF u = t THEN r ELSE task[u]
  BY DEF HInv, HandlersType
<1>2. HandlersType'
  BY DEF HInv, HandlersType, Suits, LocalsType
<1>3. \A c \in Conns :
         /\ task'[c].at \notin {"sleep", "sweep", "dead"}
         /\ authed'[c] => cid'[c] # None
         /\ task'[c].at \in {"welcome", "goodbye", "online", "offline"} => cid'[c] # None
  <2> TAKE c \in Conns
  <2>1. CASE c = t  BY <2>1, <1>1 DEF Suits
  <2>2. CASE c # t  BY <2>2, <1>1 DEF HInv, TaskShape, Tasks, LocalsType
  <2> QED  BY <2>1, <2>2
<1>4. task'[Pruner].at \in {"sleep", "sweep", "final", "dead"}
  BY <1>1 DEF HInv, TaskShape, Tasks, Suits
<1>5. \A u \in Tasks :
         /\ task'[u].at \in {"register", "welcome", "goodbye", "grant"} \cup AnnouncePhases
              => task'[u].who # None
         /\ task'[u].at \in {"goodbye"} \cup AnnouncePhases => task'[u].net # None
  <2> TAKE u \in Tasks
  <2>1. CASE u = t  BY <2>1, <1>1 DEF Suits
  <2>2. CASE u # t  BY <2>2, <1>1 DEF HInv, TaskShape
  <2> QED  BY <2>1, <2>2
<1> QED  BY <1>2, <1>3, <1>4, <1>5 DEF HInv, TaskShape

\* A record without announcements is a task record.
LEMMA WaitingType ==
    ASSUME NEW phase \in Phases
    PROVE  Waiting(phase) \in TaskRecord /\ Waiting(phase).at = phase
BY DEF Waiting, TaskRecord

\* handle_client's last statements keep HInv.
LEMMA ClosedKeeps ==
    ASSUME HInv, NEW c \in Conns, Closed(c)
    PROVE  HInv' /\ task'[Pruner] = task[Pruner]
<1>1. Waiting("done") \in TaskRecord /\ Waiting("done").at = "done"
  BY WaitingType DEF Phases
<1>2. c \in Tasks /\ c # Pruner /\ Pruner \in Tasks
  BY ConstantsAssumption DEF Tasks
<1>3. LocalsType(c) /\ ~authed'[c]
  BY DEF Closed, HInv, HandlersType, LocalsType
<1>4. Suits(c, Waiting("done"))
  BY <1>1, <1>2, <1>3 DEF Suits, AnnouncePhases
<1>5. HInv'
  BY <1>2, <1>3, <1>4, TaskChange, Zenon DEF Closed
<1> QED  BY <1>2, <1>5 DEF Closed, HInv, HandlersType

\* One announcement keeps HInv, and leaves the announcing task in its phase.
LEMMA NotifyKeeps ==
    ASSUME HInv, writers \in [Clients -> Conns \cup {None}],
           NEW t \in Tasks, NEW phase \in AnnouncePhases, NEW i \in Clients,
           NEW n \in Networks \cup {None}, NEW peers \in SUBSET Clients,
           NEW nets \in SUBSET Networks,
           peers # {} => n # None,
           t = Pruner => phase = "final",
           t # Pruner /\ phase # "final" => cid[t] # None,
           Notify(t, phase, i, n, peers, nets)
    PROVE  /\ HInv'
           /\ t # Pruner => task'[Pruner] = task[Pruner]
           /\ t = Pruner => task'[Pruner].at = "final"
<1>1. PICK p \in Reachable(peers), passed \in SUBSET (peers \ Reachable(peers)) :
        /\ task' = [task EXCEPT ![t] =
                      [at |-> phase, on |-> writers[p], who |-> i, net |-> n,
                       peers |-> peers \ (passed \cup {p}), nets |-> nets]]
        /\ roster' = [roster EXCEPT ![writers[p]] =
                        IF link[writers[p]] = "closed" THEN @
                        ELSE IF phase = "online" THEN @ \cup {<<n, i>>}
                        ELSE @ \ {<<n, i>>}]
        /\ UNCHANGED <<link, cid, authed>>
  BY Zenon DEF Notify
<1> DEFINE new == [at |-> phase, on |-> writers[p], who |-> i, net |-> n,
                   peers |-> peers \ (passed \cup {p}), nets |-> nets]
<1>2. p \in Clients /\ p \in peers /\ writers[p] \in Conns /\ n \in Networks
  BY DEF Reachable
<1>3. phase \in Phases
  BY DEF AnnouncePhases, Phases
<1>4. PICK r \in TaskRecord : /\ r.at = phase /\ r.who = i /\ r.net = n
                              /\ task' = [task EXCEPT ![t] = r]
  <2>1. new \in TaskRecord /\ new.at = phase /\ new.who = i /\ new.net = n
    BY <1>2, <1>3 DEF TaskRecord
  <2>2. task' = [task EXCEPT ![t] = new]  BY <1>1
  <2> QED  BY <2>1, <2>2, Zenon
<1>5. roster' \in [Conns -> SUBSET (Networks \X Clients)]
  <2>1. roster \in [Conns -> SUBSET (Networks \X Clients)]  BY DEF HInv, HandlersType
  <2>2. <<n, i>> \in Networks \X Clients  BY <1>2
  <2> DEFINE row == IF link[writers[p]] = "closed" THEN roster[writers[p]]
                    ELSE IF phase = "online" THEN roster[writers[p]] \cup {<<n, i>>}
                    ELSE roster[writers[p]] \ {<<n, i>>}
  <2>3. roster' = [roster EXCEPT ![writers[p]] = row]  BY <1>1
  <2>4. row \in SUBSET (Networks \X Clients)  BY <1>2, <2>1, <2>2
  <2> HIDE DEF row
  <2> QED  BY <1>2, <2>1, <2>3, <2>4
<1>7. Pruner \in Tasks /\ i # None /\ n # None
  BY <1>2, ConstantsAssumption DEF Tasks
<1>8. task \in [Tasks -> TaskRecord]  BY DEF HInv, HandlersType
<1>9. HInv'
  <2>1. LocalsType(t) /\ cid' = cid /\ authed' = authed
    BY <1>1, <1>5 DEF HInv, HandlersType, LocalsType
  <2>2. t \in Conns => t # Pruner /\ (authed[t] => cid[t] # None)
    BY ConstantsAssumption DEF HInv, TaskShape
  <2>3. Suits(t, r)
    BY <1>4, <1>7, <2>1, <2>2 DEF Suits, AnnouncePhases
  <2> QED  BY <1>4, <2>1, <2>3, TaskChange, Zenon
<1> QED  BY <1>4, <1>7, <1>8, <1>9

\* The end of the announcements keeps HInv.
LEMMA AnnouncedKeeps ==
    ASSUME HInv, NEW t \in Tasks, NEW phase \in AnnouncePhases,
           t # Pruner /\ phase # "final" => cid[t] # None,
           Announced(t, phase)
    PROVE  /\ HInv'
           /\ t # Pruner => task'[Pruner] = task[Pruner]
           /\ t = Pruner => /\ task'[Pruner].at \in {"sleep", "sweep"}
                            /\ task'[Pruner].at = "sleep" => stale' = {}
<1>1. task \in [Tasks -> TaskRecord] /\ Pruner \in Tasks  BY DEF HInv, HandlersType, Tasks
<1>2. CASE t = Pruner
  <2> DEFINE r == Waiting(IF stale' = {} THEN "sleep" ELSE "sweep")
  <2>1. /\ r \in TaskRecord /\ r.at \in {"sleep", "sweep"}
        /\ r.at = "sleep" => stale' = {}
    BY WaitingType DEF Phases
  <2>2. task' = [task EXCEPT ![t] = r] /\ UNCHANGED <<link, cid, authed, roster>>
    BY <1>2 DEF Announced
  <2>3. t \notin Conns  BY <1>2, ConstantsAssumption
  <2> HIDE DEF r
  <2>4. HInv'
    <3>1. LocalsType(t)  BY <2>2 DEF HInv, HandlersType, LocalsType
    <3>2. Suits(t, r)  BY <2>1, <2>3 DEF Suits, AnnouncePhases
    <3> QED  BY <2>2, <3>1, <3>2, TaskChange, Zenon
  <2> QED  BY <1>1, <1>2, <2>1, <2>2, <2>4
<1>3. CASE t # Pruner /\ phase = "final"
  BY <1>3, ClosedKeeps DEF Announced, Tasks
<1>4. CASE t # Pruner /\ phase # "final"
  <2> DEFINE r == Waiting("read")
  <2>1. r \in TaskRecord /\ r.at = "read"  BY WaitingType DEF Phases
  <2>2. /\ task' = [task EXCEPT ![t] = r]
        /\ authed' = [authed EXCEPT ![t] = TRUE]
        /\ UNCHANGED <<link, cid, roster>>
    BY <1>4 DEF Announced
  <2> HIDE DEF r
  <2>3. HInv'
    <3>1. LocalsType(t)  BY <2>2, Zenon DEF HInv, HandlersType, LocalsType
    <3>2. Suits(t, r)  BY <1>4, <2>1, <2>2 DEF Suits, AnnouncePhases
    <3> QED  BY <2>2, <3>1, <3>2, TaskChange, Zenon
  <2> QED  BY <1>1, <1>4, <2>2, <2>3
<1> QED  BY <1>2, <1>3, <1>4

\* A stretch of announcements keeps HInv, whatever it does.
LEMMA AnnounceKeeps ==
    ASSUME HInv, writers \in [Clients -> Conns \cup {None}],
           NEW t \in Tasks, NEW phase \in AnnouncePhases, NEW i \in Clients,
           NEW n \in Networks \cup {None}, NEW peers \in SUBSET Clients,
           NEW nets \in SUBSET Networks, NEW onl,
           peers # {} => n # None,
           t = Pruner => phase = "final",
           t # Pruner /\ phase # "final" => cid[t] # None,
           Announce(t, phase, i, n, peers, nets, onl)
    PROVE  /\ HInv'
           /\ t # Pruner => task'[Pruner] = task[Pruner]
           /\ t = Pruner => /\ task'[Pruner].at \in {"final", "sleep", "sweep"}
                            /\ task'[Pruner].at = "sleep" => stale' = {}
<1>1. CASE Notify(t, phase, i, n, peers, nets)
  BY <1>1, NotifyKeeps
<1>2. ASSUME NEW m \in nets, NEW empty \in SUBSET (nets \ {m}),
             Notify(t, phase, i, m, Members(m, i, onl), nets \ (empty \cup {m}))
      PROVE  /\ HInv'
             /\ t # Pruner => task'[Pruner] = task[Pruner]
             /\ t = Pruner => task'[Pruner].at = "final"
  <2>1. m \in Networks /\ m # None  BY ConstantsAssumption
  <2>2. Members(m, i, onl) \in SUBSET Clients  BY DEF Members
  <2>3. nets \ (empty \cup {m}) \in SUBSET Networks  OBVIOUS
  <2> DEFINE ps == Members(m, i, onl)
             ns == nets \ (empty \cup {m})
  <2>4. Notify(t, phase, i, m, ps, ns) /\ ps \in SUBSET Clients /\ ns \in SUBSET Networks
    BY <1>2, <2>2, <2>3
  <2> HIDE DEF ps, ns
  <2> QED  BY <2>1, <2>4, NotifyKeeps
<1>3. CASE Announced(t, phase)
  BY <1>3, AnnouncedKeeps
<1> QED  BY <1>1, <1>2, <1>3, Zenon DEF Announce

\* A message to the handler's own client keeps HInv.
LEMMA SentKeeps ==
    ASSUME HInv, NEW c \in Conns,
           NEW phase \in {"reply", "register", "welcome", "goodbye", "grant"},
           NEW i \in Clients \cup {None}, NEW n \in Networks \cup {None},
           phase # "reply" => i # None,
           phase = "goodbye" => n # None,
           phase \in {"welcome", "goodbye"} => cid[c] # None,
           Sent(c, phase, i, n),
           link' \in [Conns -> {"free", "open", "ending", "closed"}],
           UNCHANGED <<cid, authed, roster>>
    PROVE  HInv' /\ task'[Pruner] = task[Pruner]
<1> DEFINE r == [at |-> phase, on |-> c, who |-> i, net |-> n, peers |-> {}, nets |-> {}]
<1>1. r \in TaskRecord /\ r.at = phase /\ r.who = i /\ r.net = n
  BY DEF TaskRecord, Phases
<1>2. task' = [task EXCEPT ![c] = r]
  BY DEF Sent
<1> HIDE DEF r
<1>3. c \in Tasks /\ c # Pruner /\ Pruner \in Tasks
  BY ConstantsAssumption DEF Tasks
<1>4. LocalsType(c)
  BY DEF HInv, HandlersType, LocalsType
<1>5. authed[c] => cid[c] # None
  BY DEF HInv, TaskShape
<1>6. Suits(c, r)
  BY <1>1, <1>3, <1>5 DEF Suits, AnnouncePhases
<1>7. HInv'
  BY <1>2, <1>3, <1>4, <1>6, TaskChange, Zenon
<1> QED  BY <1>2, <1>3, <1>7 DEF HInv, HandlersType

\* Going back to reading, ending, or writing an error or a grant keeps HInv.
LEMMA RestKeeps ==
    ASSUME HInv, NEW c \in Conns, NEW r \in TaskRecord,
           r.at \in {"read", "reply", "error", "done"},
           task' = [task EXCEPT ![c] = r],
           LocalsType(c),
           authed'[c] => cid'[c] # None
    PROVE  HInv' /\ task'[Pruner] = task[Pruner]
<1>1. c \in Tasks /\ c # Pruner /\ Pruner \in Tasks
  BY ConstantsAssumption DEF Tasks
<1>2. Suits(c, r)
  BY <1>1 DEF Suits, AnnouncePhases
<1>3. HInv'
  BY <1>1, <1>2, TaskChange, Zenon
<1> QED  BY <1>1, <1>3 DEF HInv, HandlersType

\* _handle_disconnect keeps HInv, in a finally clause and in the pruner.
LEMMA DisconnectHandlers ==
    ASSUME HInv, SharedType, NEW t \in Tasks, NEW i \in Clients, NEW onl,
           Disconnect(t, i, onl)
    PROVE  /\ HInv'
           /\ t # Pruner => task'[Pruner] = task[Pruner]
           /\ t = Pruner => /\ task'[Pruner].at \in {"final", "sleep", "sweep"}
                            /\ task'[Pruner].at = "sleep" => stale' = {}
<1>1. Announce(t, "final", i, None, {}, networks[i], onl)
  BY DEF Disconnect
<1>2. networks[i] \in SUBSET Networks /\ writers \in [Clients -> Conns \cup {None}]
  BY DEF SharedType
<1>3. "final" \in AnnouncePhases
  BY DEF AnnouncePhases
<1> DEFINE nets == networks[i]
<1>4. Announce(t, "final", i, None, {}, nets, onl) /\ nets \in SUBSET Networks
  BY <1>1, <1>2
<1> HIDE DEF nets
<1> QED  BY <1>2, <1>3, <1>4, AnnounceKeeps

\* So does the finally clause of handle_client.
LEMMA FinallyHandlers ==
    ASSUME HInv, SharedType, NEW c \in Conns, Finally(c)
    PROVE  HInv' /\ task'[Pruner] = task[Pruner]
<1>1. c \in Tasks /\ c # Pruner
  BY ConstantsAssumption DEF Tasks
<1>2. CASE cid[c] # None /\ authed[c] /\ Disconnect(c, cid[c], online)
  <2>1. PICK i \in Clients, onl \in {online} : i = cid[c]
    BY <1>2 DEF HInv, HandlersType
  <2>2. Disconnect(c, i, onl)  BY <1>2, <2>1
  <2> QED  BY <1>1, <2>2, DisconnectHandlers
<1>3. CASE Closed(c)
  BY <1>3, ClosedKeeps
<1> QED  BY <1>2, <1>3 DEF Finally

\* What every step does to the tasks: HInv stays, a dead pruner stays dead,
\* and the pruner goes to sleep only with an empty list.
TasksKept ==
    /\ HInv'
    /\ task[Pruner].at = "dead" => task'[Pruner].at = "dead"
    /\ SleepsEmpty'

\* A step of a handler that leaves the pruner and its list alone.
LEMMA PrunerAlone ==
    ASSUME SleepsEmpty, HInv', task'[Pruner] = task[Pruner], stale' = stale
    PROVE  TasksKept
BY DEF TasksKept, SleepsEmpty

\* The messages of a client.
LEMMA MessageTasks ==
    ASSUME HInv, SharedType, SleepsEmpty, NEW c \in Conns, MessageStep(c)
    PROVE  TasksKept
<1> USE DEF Unchanged
<1>0. /\ link \in [Conns -> {"free", "open", "ending", "closed"}]
      /\ cid[c] \in Clients \cup {None}
      /\ authed[c] => cid[c] # None
      /\ None \in Clients \cup {None} /\ None \in Networks \cup {None}
      /\ \A n \in Networks : n # None
      /\ \A i \in Clients : i # None
  BY ConstantsAssumption DEF HInv, HandlersType, TaskShape
<1>1. CASE NotReady(c)
  BY <1>0, <1>1, SentKeeps, PrunerAlone DEF NotReady
<1>2. ASSUME NEW i \in Clients, ServerFull(c, i)  PROVE TasksKept
  BY <1>0, <1>2, SentKeeps, PrunerAlone DEF ServerFull
<1>3. ASSUME NEW i \in Clients, Register(c, i)  PROVE TasksKept
  <2>1. link' \in [Conns -> {"free", "open", "ending", "closed"}]
    BY <1>0, <1>3 DEF Register
  <2>2. Sent(c, "register", i, None) /\ UNCHANGED <<cid, authed, roster, stale>>
    BY <1>3 DEF Register
  <2> QED  BY <1>0, <2>1, <2>2, SentKeeps, PrunerAlone
<1>4. ASSUME NEW sig \in {"good", "bad", "malformed"}, AuthFail(c, sig)  PROVE TasksKept
  BY <1>0, <1>4, SentKeeps, PrunerAlone DEF AuthFail
<1>5. CASE AuthOk(c)
  BY <1>0, <1>5, SentKeeps, PrunerAlone DEF AuthOk
<1>6. CASE Heartbeat(c)
  BY <1>0, <1>6, SentKeeps, PrunerAlone DEF Heartbeat
<1>7. CASE Query(c)
  BY <1>0, <1>7, SentKeeps, PrunerAlone DEF Query
<1>8. ASSUME NEW n \in Networks, CreateNetwork(c, n)  PROVE TasksKept
  BY <1>0, <1>8, SentKeeps, PrunerAlone DEF CreateNetwork, Commanded
<1>9. ASSUME NEW n \in Networks, JoinNetwork(c, n)  PROVE TasksKept
  BY <1>0, <1>9, SentKeeps, PrunerAlone DEF JoinNetwork, Commanded
<1>10. ASSUME NEW n \in Networks, LeaveNetwork(c, n)  PROVE TasksKept
  BY <1>0, <1>10, SentKeeps, PrunerAlone DEF LeaveNetwork, Commanded
<1>11. ASSUME NEW j \in Clients, RelayRequest(c, j)  PROVE TasksKept
  BY <1>0, <1>11, SentKeeps, PrunerAlone DEF RelayRequest
<1> QED
  BY <1>1, <1>2, <1>3, <1>4, <1>5, <1>6, <1>7, <1>8, <1>9, <1>10, <1>11 DEF MessageStep

\* The returns from drain() in a handler.
LEMMA ResumeTasks ==
    ASSUME HInv, SharedType, SleepsEmpty, NEW c \in Conns, ResumeStep(c)
    PROVE  TasksKept
<1> USE DEF Others
<1>0. /\ c \in Tasks /\ c # Pruner
      /\ authed[c] => cid[c] # None
      /\ task[c] \in TaskRecord
      /\ writers \in [Clients -> Conns \cup {None}]
      /\ networks \in [Clients -> SUBSET Networks]
  BY ConstantsAssumption DEF HInv, HandlersType, TaskShape, SharedType, Tasks
<1>1. Waiting("read") \in TaskRecord /\ Waiting("read").at = "read"
  BY WaitingType DEF Phases
<1>2. ASSUME UNCHANGED <<link, cid, authed, roster>>  PROVE LocalsType(c)
  BY <1>2 DEF HInv, HandlersType, LocalsType
<1>3. CASE ResumeRegister(c)
  <2>1. task[c].who \in Clients
    BY <1>0, <1>3 DEF ResumeRegister, Drained, HInv, TaskShape, TaskRecord
  <2>2. LocalsType(c) /\ cid'[c] # None
    BY <1>3, <2>1, ConstantsAssumption DEF ResumeRegister, HInv, HandlersType, LocalsType
  <2> QED  BY <1>1, <1>3, <2>2, RestKeeps, PrunerAlone, Zenon DEF ResumeRegister
<1>4. CASE ResumeReply(c)
  BY <1>0, <1>1, <1>2, <1>4, RestKeeps, PrunerAlone, ZenonT(30) DEF ResumeReply
<1>5. CASE ResumeWelcome(c)
  <2>1. task[c].who \in Clients /\ cid[c] # None
    BY <1>0, <1>5 DEF ResumeWelcome, Drained, HInv, TaskShape, TaskRecord
  <2>2. PICK i \in Clients, nets \in SUBSET Networks, onl \in {online} :
          Announce(c, "online", i, None, {}, nets, onl)
    BY <1>0, <1>5, <2>1 DEF ResumeWelcome
  <2>3. "online" \in AnnouncePhases  BY DEF AnnouncePhases
  <2>4. HInv' /\ task'[Pruner] = task[Pruner]
    BY <1>0, <2>1, <2>2, <2>3, AnnounceKeeps, Zenon
  <2> QED  BY <1>5, <2>4, PrunerAlone DEF ResumeWelcome
<1>6. CASE ResumeGoodbye(c)
  <2>1. task[c].who \in Clients /\ cid[c] # None /\ task[c].net \in Networks
    BY <1>0, <1>6 DEF ResumeGoodbye, Drained, HInv, TaskShape, TaskRecord
  <2>2. PICK i \in Clients, n \in Networks, peers \in SUBSET Clients, onl \in {online} :
          Announce(c, "offline", i, n, peers, {}, onl)
    BY <1>0, <1>6, <2>1 DEF ResumeGoodbye, Members
  <2>3. "offline" \in AnnouncePhases /\ n # None  BY ConstantsAssumption DEF AnnouncePhases
  <2>4. HInv' /\ task'[Pruner] = task[Pruner]
    BY <1>0, <2>1, <2>2, <2>3, AnnounceKeeps, Zenon
  <2> QED  BY <1>6, <2>4, PrunerAlone DEF ResumeGoodbye
<1>7. CASE ResumeGrant(c)
  <2>1. task[c].who \in Clients
    BY <1>0, <1>7 DEF ResumeGrant, Drained, HInv, TaskShape, TaskRecord
  <2> DEFINE w == writers[task[c].who]
             r == IF w = None THEN Waiting("read") ELSE [Waiting("reply") EXCEPT !.on = w]
  <2>2. w \in Conns \cup {None}  BY <1>0, <2>1
  <2>3. r \in TaskRecord /\ r.at \in {"read", "reply"}
    BY <2>2 DEF Waiting, TaskRecord, Phases
  <2>4. task' = [task EXCEPT ![c] = r] /\ UNCHANGED <<link, cid, authed, roster, stale>>
    BY <1>7 DEF ResumeGrant
  <2> HIDE DEF r
  <2> QED  BY <1>0, <1>2, <2>3, <2>4, RestKeeps, PrunerAlone, Zenon
<1>8. CASE RaiseInDispatch(c)
  <2> DEFINE r == [Waiting("error") EXCEPT !.on = c]
  <2>1. r \in TaskRecord /\ r.at = "error"  BY DEF Waiting, TaskRecord, Phases
  <2>2. task' = [task EXCEPT ![c] = r] /\ UNCHANGED <<link, cid, authed, roster, stale>>
    BY <1>8 DEF RaiseInDispatch
  <2> HIDE DEF r
  <2> QED  BY <1>0, <1>2, <2>1, <2>2, RestKeeps, PrunerAlone, Zenon
<1>9. CASE RaiseInLoop(c)
  BY <1>9, FinallyHandlers, PrunerAlone DEF RaiseInLoop
<1>10. CASE RaiseInFinally(c)
  <2>1. Waiting("done") \in TaskRecord /\ Waiting("done").at = "done"
    BY WaitingType DEF Phases
  <2>2. LocalsType(c) /\ ~authed'[c]
    BY <1>10 DEF RaiseInFinally, HInv, HandlersType, LocalsType
  <2> QED  BY <1>10, <2>1, <2>2, RestKeeps, PrunerAlone, Zenon DEF RaiseInFinally
<1> QED
  BY <1>3, <1>4, <1>5, <1>6, <1>7, <1>8, <1>9, <1>10 DEF ResumeStep

\* A step that touches no task and no local.
LEMMA LinksOnly ==
    ASSUME HInv, SleepsEmpty, UNCHANGED <<cid, authed, task, roster, stale>>,
           link' \in [Conns -> {"free", "open", "ending", "closed"}]
    PROVE  TasksKept
BY DEF TasksKept, HInv, HandlersType, TaskShape, SleepsEmpty

\* The pruner's _handle_disconnect.
LEMMA PrunerDisconnects ==
    ASSUME HInv, SharedType, NEW i \in Clients, NEW onl, Disconnect(Pruner, i, onl),
           task[Pruner].at # "dead"
    PROVE  TasksKept
<1>1. Pruner \in Tasks  BY DEF Tasks
<1> QED  BY <1>1, DisconnectHandlers DEF TasksKept, SleepsEmpty

\* Replacing the pruner by a dead task, its list lost.
LEMMA PrunerDies ==
    ASSUME HInv, task' = [task EXCEPT ![Pruner] = Waiting("dead")],
           link' \in [Conns -> {"free", "open", "ending", "closed"}],
           UNCHANGED <<cid, authed, roster>>
    PROVE  TasksKept /\ task'[Pruner].at = "dead"
<1>1. Waiting("dead") \in TaskRecord /\ Waiting("dead").at = "dead"
  BY WaitingType DEF Phases
<1>2. Pruner \in Tasks /\ Pruner \notin Conns
  BY ConstantsAssumption DEF Tasks
<1>3. LocalsType(Pruner)
  BY DEF HInv, HandlersType, LocalsType
<1>4. Suits(Pruner, Waiting("dead"))
  BY <1>1, <1>2 DEF Suits, AnnouncePhases
<1>5. HInv'
  BY <1>2, <1>3, <1>4, TaskChange, Zenon
<1>6. task'[Pruner].at = "dead"
  BY <1>1, <1>2 DEF HInv, HandlersType
<1> QED  BY <1>5, <1>6 DEF TasksKept, SleepsEmpty

\* Every step keeps the handlers' part of the invariant.
LEMMA TasksStep ==
    ASSUME HInv, SharedType, SleepsEmpty, Next
    PROVE  TasksKept
<1> USE DEF Others
<1>1. ASSUME NEW c \in Conns, Accept(c) \/ Drop(c)  PROVE TasksKept
  <2>1. link' \in [Conns -> {"free", "open", "ending", "closed"}]
    BY <1>1 DEF Accept, Drop, HInv, HandlersType
  <2> QED  BY <1>1, <2>1, LinksOnly DEF Accept, Drop
<1>2. ASSUME NEW c \in Conns, EndOfStream(c) \/ Garbage(c)  PROVE TasksKept
  BY <1>2, FinallyHandlers, PrunerAlone DEF EndOfStream, Garbage
<1>3. ASSUME NEW c \in Conns, MessageStep(c)  PROVE TasksKept
  BY <1>3, MessageTasks
<1>4. ASSUME NEW c \in Conns, ResumeStep(c)  PROVE TasksKept
  BY <1>4, ResumeTasks
<1>5. ASSUME NEW t \in Tasks, ResumeAnnounce(t)  PROVE TasksKept
  <2>1. /\ task[t].at \in AnnouncePhases
        /\ Announce(t, task[t].at, task[t].who, task[t].net, task[t].peers, task[t].nets, online)
        /\ stale' = stale
    BY <1>5 DEF ResumeAnnounce, Drained, AnnouncePhases
  <2>2. task[t] \in TaskRecord /\ writers \in [Clients -> Conns \cup {None}]
    BY DEF HInv, HandlersType, SharedType
  <2>3. PICK phase \in AnnouncePhases, i \in Clients, n \in Networks,
             peers \in SUBSET Clients, nets \in SUBSET Networks, onl \in {online} :
          /\ phase = task[t].at
          /\ Announce(t, phase, i, n, peers, nets, onl)
    BY <2>1, <2>2 DEF HInv, TaskShape, TaskRecord
  <2>4. n # None  BY ConstantsAssumption
  <2>5. t = Pruner => phase = "final"
    BY <2>3 DEF HInv, TaskShape, AnnouncePhases
  <2>6. t # Pruner /\ phase # "final" => cid[t] # None
    BY <2>3 DEF HInv, TaskShape, AnnouncePhases, Tasks
  <2>7. /\ HInv'
        /\ t # Pruner => task'[Pruner] = task[Pruner]
        /\ t = Pruner => /\ task'[Pruner].at \in {"final", "sleep", "sweep"}
                         /\ task'[Pruner].at = "sleep" => stale' = {}
    BY <2>2, <2>3, <2>4, <2>5, <2>6, AnnounceKeeps, Zenon
  <2>8. CASE t # Pruner  BY <2>1, <2>7, <2>8, PrunerAlone
  <2>9. CASE t = Pruner  BY <2>1, <2>7, <2>9 DEF TasksKept, SleepsEmpty, AnnouncePhases
  <2> QED  BY <2>8, <2>9
<1>6. ASSUME NEW i \in Clients, ChallengeExpires(i) \/ Silence(i)  PROVE TasksKept
  <2>1. UNCHANGED <<link, cid, authed, task, roster, stale>>
    BY <1>6 DEF ChallengeExpires, Silence, Unchanged, handlers
  <2> QED  BY <2>1, LinksOnly DEF HInv, HandlersType
<1>7. CASE Prune
  <2> DEFINE silent == {j \in Clients : online[j] /\ ~fresh[j]}
  <2>1. PICK i \in Clients, onl \in {[j \in Clients |-> online[j] /\ j \notin silent]} :
          Disconnect(Pruner, i, onl)
    BY <1>7 DEF Prune
  <2>2. task[Pruner].at # "dead"  BY <1>7 DEF Prune
  <2> QED  BY <2>1, <2>2, PrunerDisconnects
<1>8. CASE PruneNext
  <2>1. PICK i \in Clients, onl \in {online} : Disconnect(Pruner, i, onl)
    BY <1>8 DEF PruneNext, SharedType
  <2>2. task[Pruner].at # "dead"  BY <1>8 DEF PruneNext
  <2> QED  BY <2>1, <2>2, PrunerDisconnects
<1>9. CASE RaiseInPrune
  BY <1>9, PrunerDies DEF RaiseInPrune, HInv, HandlersType
<1>10. CASE Shutdown
  <2>1. link' \in [Conns -> {"free", "open", "ending", "closed"}]
    BY <1>10 DEF Shutdown, HInv, HandlersType
  <2> QED  BY <1>10, <2>1, PrunerDies DEF Shutdown
<1> QED
  BY <1>1, <1>2, <1>3, <1>4, <1>5, <1>6, <1>7, <1>8, <1>9, <1>10 DEF Next, TaskStep

-----------------------------------------------------------------------------
(* The registry's steps                                                     *)

RInv == Capacity /\ EndpointIsWriter /\ WritableIsOnline /\ PathsAreLive

\* The set Capacity counts.
Written == {i \in Clients : writers[i] # None}

\* Fewer writers than before stay within the capacity.
LEMMA FewerWriters ==
    ASSUME Capacity, Written' \subseteq Written
    PROVE  Capacity'
<1>1. IsFiniteSet(Written)
  BY FS_Subset, ConstantsAssumption DEF Written
<1>2. /\ IsFiniteSet(Written')
      /\ Cardinality(Written') <= Cardinality(Written)
  BY <1>1, FS_Subset
<1>3. Cardinality(Written) \in Nat /\ Cardinality(Written') \in Nat
  BY <1>1, <1>2, FS_CardinalityType
<1> QED
  BY <1>2, <1>3, ConstantsAssumption DEF Capacity, Written

\* A registration that _on_register admits stays within the capacity.
LEMMA OneMoreWriter ==
    ASSUME Capacity, NEW i \in Clients, ~Full(i), Written' \subseteq Written \cup {i}
    PROVE  Capacity'
<1>1. IsFiniteSet(Written)
  BY FS_Subset, ConstantsAssumption DEF Written
<1>2. CASE writers[i] # None
  BY <1>2, FewerWriters DEF Written
<1>3. CASE writers[i] = None
  <2>1. Cardinality(Written) < MaxClients
    BY <1>1, <1>3, FS_CardinalityType, ConstantsAssumption DEF Full, Written
  <2>2. /\ IsFiniteSet(Written \cup {i})
        /\ Cardinality(Written \cup {i}) = Cardinality(Written) + 1
    BY <1>1, <1>3, FS_AddElement, Zenon DEF Written
  <2>3. IsFiniteSet(Written') /\ Cardinality(Written') <= Cardinality(Written \cup {i})
    BY <2>2, FS_Subset
  <2>4. Cardinality(Written) \in Nat /\ Cardinality(Written') \in Nat
    BY <1>1, <2>3, FS_CardinalityType
  <2> QED
    BY <2>1, <2>2, <2>3, <2>4, ConstantsAssumption DEF Capacity, Written
<1> QED  BY <1>2, <1>3

\* A client whose offline mark is excused stays excused while the list stays.
LEMMA UnsweptStays ==
    ASSUME TasksKept, stale' = stale, NEW i \in Clients, Unswept(i)
    PROVE  Unswept(i)'
BY DEF Unswept, TasksKept

\* Steps that leave the registry alone.
LEMMA RegistryAlone ==
    ASSUME RInv, TasksKept, UNCHANGED <<writers, online, endpoint, paths, stale, down, latest>>,
           paths \subseteq Clients \X Clients
    PROVE  RInv'
<1>1. Capacity'  BY FewerWriters DEF Written, RInv
<1>2. EndpointIsWriter'  BY DEF RInv, EndpointIsWriter
<1>3. WritableIsOnline'  BY UnsweptStays DEF RInv, WritableIsOnline
<1>4. PathsAreLive'
  <2>1. \A p \in paths : p[1] \in Clients  OBVIOUS
  <2> QED  BY <2>1, UnsweptStays, Zenon DEF RInv, PathsAreLive
<1> QED  BY <1>1, <1>2, <1>3, <1>4 DEF RInv

\* _handle_disconnect, where marking more clients offline is excused.
LEMMA DisconnectRegistry ==
    ASSUME RInv, SharedType, TasksKept, NEW t, NEW i \in Clients,
           NEW onl \in [Clients -> BOOLEAN], Disconnect(t, i, onl),
           UNCHANGED <<down, latest>>,
           \A j \in Clients : j # i /\ (online[j] \/ Unswept(j)) => onl[j] \/ Unswept(j)'
    PROVE  RInv'
<1>1. /\ writers' = [writers EXCEPT ![i] = None]
      /\ online' = [onl EXCEPT ![i] = FALSE]
      /\ endpoint' = [endpoint EXCEPT ![i] = None]
      /\ paths' = {p \in paths : p[1] # i /\ p[2] # i}
  BY DEF Disconnect
<1>2. /\ writers \in [Clients -> Conns \cup {None}]
      /\ endpoint \in [Clients -> Conns \cup {None}]
      /\ paths \subseteq Clients \X Clients
  BY DEF SharedType
<1>3. Capacity'
  <2>1. Written' \subseteq Written  BY <1>1, <1>2 DEF Written
  <2> QED  BY <2>1, FewerWriters DEF RInv
<1>4. EndpointIsWriter'
  BY <1>1, <1>2 DEF RInv, EndpointIsWriter
<1>5. WritableIsOnline'
  <2> SUFFICES ASSUME NEW j \in Clients, writers'[j] # None
               PROVE  online'[j] \/ Unswept(j)'
    BY DEF WritableIsOnline
  <2>1. j # i /\ writers[j] # None  BY <1>1, <1>2
  <2>2. online[j] \/ Unswept(j)  BY <2>1 DEF RInv, WritableIsOnline
  <2>3. onl[j] \/ Unswept(j)'  BY <2>1, <2>2
  <2> QED  BY <1>1, <2>1, <2>3
<1>6. PathsAreLive'
  <2> SUFFICES ASSUME NEW p \in paths'
               PROVE  <<p[2], p[1]>> \in paths' /\ (online'[p[1]] \/ Unswept(p[1])')
    BY Zenon DEF PathsAreLive
  <2>1. p \in paths /\ p[1] # i /\ p[2] # i /\ p[1] \in Clients  BY <1>1, <1>2
  <2>2. <<p[2], p[1]>> \in paths /\ (online[p[1]] \/ Unswept(p[1]))
    BY <2>1 DEF RInv, PathsAreLive
  <2>3. onl[p[1]] \/ Unswept(p[1])'  BY <2>1, <2>2
  <2> QED  BY <1>1, <2>1, <2>2, <2>3
<1> QED  BY <1>3, <1>4, <1>5, <1>6 DEF RInv

\* The same for a finally clause.
LEMMA FinallyRegistry ==
    ASSUME RInv, SharedType, HInv, TasksKept, NEW c \in Conns, Finally(c),
           UNCHANGED <<stale, down, latest>>
    PROVE  RInv'
<1>1. CASE cid[c] # None /\ Disconnect(c, cid[c], online)
  <2>1. PICK i \in Clients, onl \in [Clients -> BOOLEAN] : i = cid[c] /\ onl = online
    BY <1>1 DEF HInv, HandlersType, SharedType
  <2>2. Disconnect(c, i, onl)  BY <1>1, <2>1
  <2>3. \A j \in Clients : j # i /\ (online[j] \/ Unswept(j)) => onl[j] \/ Unswept(j)'
    BY <2>1, UnsweptStays
  <2> QED  BY <2>2, <2>3, DisconnectRegistry
<1>2. CASE UNCHANGED registry
  BY <1>2, RegistryAlone DEF registry, SharedType
<1> QED  BY <1>1, <1>2 DEF Finally

\* The messages of a client.
LEMMA MessageRegistry ==
    ASSUME RInv, SharedType, HInv, TasksKept, NEW c \in Conns, MessageStep(c)
    PROVE  RInv'
<1> USE DEF Unchanged
<1>0. /\ writers \in [Clients -> Conns \cup {None}]
      /\ endpoint \in [Clients -> Conns \cup {None}]
      /\ latest \in [Clients -> Conns \cup {None}]
      /\ online \in [Clients -> BOOLEAN]
      /\ paths \subseteq Clients \X Clients
      /\ authed[c] => cid[c] \in Clients
  BY DEF SharedType, HInv, HandlersType, TaskShape
<1>1. ASSUME UNCHANGED <<writers, online, endpoint, paths, stale, down, latest>>  PROVE RInv'
  BY <1>0, <1>1, RegistryAlone
<1>2. ASSUME NEW i \in Clients, Register(c, i)  PROVE RInv'
  <2>1. /\ writers' = [writers EXCEPT ![i] = c]
        /\ endpoint' = [endpoint EXCEPT ![i] = c]
        /\ online' = [online EXCEPT ![i] = TRUE]
        /\ latest' = [latest EXCEPT ![i] = c]
        /\ UNCHANGED <<paths, stale, down>> /\ ~Full(i)
    BY <1>2, Zenon DEF Register
  <2>2. Capacity'
    <3>1. Written' \subseteq Written \cup {i}  BY <1>0, <2>1, ZenonT(30) DEF Written
    <3> QED  BY <2>1, <3>1, OneMoreWriter DEF RInv
  <2>3. EndpointIsWriter'
    BY <1>0, <2>1 DEF RInv, EndpointIsWriter
  <2>4. WritableIsOnline'
    BY <1>0, <2>1, UnsweptStays DEF RInv, WritableIsOnline
  <2>5. PathsAreLive'
    BY <1>0, <2>1, UnsweptStays, Zenon DEF RInv, PathsAreLive
  <2> QED  BY <2>2, <2>3, <2>4, <2>5 DEF RInv
<1>3. CASE Heartbeat(c)
  <2>1. /\ online' = [online EXCEPT ![cid[c]] = TRUE]
        /\ cid[c] \in Clients
        /\ UNCHANGED <<writers, endpoint, paths, stale, down, latest>>
    BY <1>0, <1>3, ZenonT(30) DEF Heartbeat, Commanded
  <2>2. Capacity'  BY <2>1, FewerWriters, ZenonT(30) DEF RInv, Written
  <2>3. EndpointIsWriter'  BY <2>1, ZenonT(30) DEF RInv, EndpointIsWriter
  <2>4. WritableIsOnline'
    BY <1>0, <2>1, UnsweptStays, ZenonT(30) DEF RInv, WritableIsOnline
  <2>5. PathsAreLive'
    BY <1>0, <2>1, UnsweptStays, ZenonT(30) DEF RInv, PathsAreLive
  <2> QED  BY <2>2, <2>3, <2>4, <2>5 DEF RInv
<1>4. ASSUME NEW j \in Clients, RelayRequest(c, j)  PROVE RInv'
  <2>1. /\ paths' = paths \cup {<<cid[c], j>>, <<j, cid[c]>>}
        /\ cid[c] \in Clients /\ online[cid[c]] /\ online[j]
        /\ UNCHANGED <<writers, online, endpoint, stale, down, latest>>
    BY <1>0, <1>4, Zenon DEF RelayRequest, Commanded
  <2>2. Capacity'  BY <2>1, FewerWriters DEF RInv, Written
  <2>3. EndpointIsWriter'  BY <2>1 DEF RInv, EndpointIsWriter
  <2>4. WritableIsOnline'  BY <2>1, UnsweptStays, Zenon DEF RInv, WritableIsOnline
  <2>5. PathsAreLive'
    <3> SUFFICES ASSUME NEW p \in paths'
                 PROVE  <<p[2], p[1]>> \in paths' /\ (online'[p[1]] \/ Unswept(p[1])')
      BY ZenonT(30) DEF PathsAreLive
    <3>1. CASE p \in paths
      BY <1>0, <2>1, <3>1, UnsweptStays DEF RInv, PathsAreLive
    <3>2. CASE p \in {<<cid[c], j>>, <<j, cid[c]>>}
      BY <2>1, <3>2
    <3> QED  BY <2>1, <3>1, <3>2
  <2> QED  BY <2>2, <2>3, <2>4, <2>5 DEF RInv
<1>5. CASE NotReady(c)  BY <1>1, <1>5 DEF NotReady, registry
<1>6. ASSUME NEW i \in Clients, ServerFull(c, i)  PROVE RInv'
  BY <1>1, <1>6 DEF ServerFull, registry
<1>7. ASSUME NEW sig \in {"good", "bad", "malformed"}, AuthFail(c, sig)  PROVE RInv'
  BY <1>1, <1>7 DEF AuthFail, registry
<1>8. CASE AuthOk(c)  BY <1>1, <1>8 DEF AuthOk
<1>9. CASE Query(c)  BY <1>1, <1>9 DEF Query, registry
<1>10. ASSUME NEW n \in Networks, CreateNetwork(c, n) \/ JoinNetwork(c, n) \/ LeaveNetwork(c, n)
       PROVE  RInv'
  BY <1>1, <1>10 DEF CreateNetwork, JoinNetwork, LeaveNetwork, registry
<1> QED
  BY <1>2, <1>3, <1>4, <1>5, <1>6, <1>7, <1>8, <1>9, <1>10 DEF MessageStep

\* Every step keeps the registry's part of the invariant.
LEMMA RegistryStep ==
    ASSUME IInv, TasksKept, Next
    PROVE  RInv'
<1> USE DEF Others
<1>0. /\ RInv /\ SharedType /\ HInv /\ SleepsEmpty
      /\ online \in [Clients -> BOOLEAN] /\ paths \subseteq Clients \X Clients
  BY DEF IInv, RInv, SharedType
<1>1. ASSUME UNCHANGED <<registry, stale, down, latest>>  PROVE RInv'
  BY <1>0, <1>1, RegistryAlone DEF registry
<1>2. ASSUME NEW c \in Conns, Accept(c) \/ Drop(c)  PROVE RInv'
  BY <1>1, <1>2 DEF Accept, Drop
<1>3. ASSUME NEW c \in Conns, EndOfStream(c) \/ Garbage(c) \/ RaiseInLoop(c)  PROVE RInv'
  BY <1>0, <1>3, FinallyRegistry DEF EndOfStream, Garbage, RaiseInLoop
<1>4. ASSUME NEW c \in Conns, MessageStep(c)  PROVE RInv'
  BY <1>0, <1>4, MessageRegistry
<1>5. ASSUME NEW c \in Conns, ResumeStep(c)  PROVE RInv'
  BY <1>1, <1>3, <1>5 DEF ResumeStep, ResumeRegister, ResumeReply, ResumeWelcome, ResumeGoodbye,
     ResumeGrant, RaiseInDispatch, RaiseInFinally
<1>6. ASSUME NEW t \in Tasks, ResumeAnnounce(t)  PROVE RInv'
  BY <1>1, <1>6 DEF ResumeAnnounce
<1>7. ASSUME NEW i \in Clients, ChallengeExpires(i) \/ Silence(i)  PROVE RInv'
  BY <1>1, <1>7 DEF ChallengeExpires, Silence, Unchanged
<1>8. CASE Prune
  <2> DEFINE silent == {i \in Clients : online[i] /\ ~fresh[i]}
  <2>1. PICK i \in silent :
          /\ stale' = silent \ {i}
          /\ Disconnect(Pruner, i, [j \in Clients |-> online[j] /\ j \notin silent])
    BY <1>8 DEF Prune
  <2>2. PICK onl \in [Clients -> BOOLEAN] :
          onl = [j \in Clients |-> online[j] /\ j \notin silent]
    BY <1>0, ZenonT(30)
  <2>3. i \in Clients /\ Disconnect(Pruner, i, onl)  BY <2>1, <2>2
  <2>4. \A j \in Clients : ~Unswept(j)
    BY <1>0, <1>8 DEF Prune, Unswept, SleepsEmpty
  <2>5. \A j \in Clients : j # i /\ (online[j] \/ Unswept(j)) => onl[j] \/ Unswept(j)'
    BY <2>1, <2>2, <2>4, Zenon DEF Unswept
  <2>6. UNCHANGED <<down, latest>>  BY <1>8 DEF Prune
  <2> QED  BY <1>0, <2>3, <2>5, <2>6, DisconnectRegistry
<1>9. CASE PruneNext
  <2>1. PICK i \in stale : stale' = stale \ {i} /\ Disconnect(Pruner, i, online)
    BY <1>9 DEF PruneNext
  <2>2. PICK onl \in [Clients -> BOOLEAN] : onl = online  BY <1>0
  <2>3. i \in Clients /\ Disconnect(Pruner, i, onl)  BY <1>0, <2>1, <2>2 DEF SharedType
  <2>4. \A j \in Clients : j # i /\ (online[j] \/ Unswept(j)) => onl[j] \/ Unswept(j)'
    BY <2>1, <2>2 DEF Unswept, TasksKept
  <2>5. UNCHANGED <<down, latest>>  BY <1>9 DEF PruneNext
  <2> QED  BY <1>0, <2>3, <2>4, <2>5, DisconnectRegistry
<1>10. ASSUME RaiseInPrune \/ Shutdown  PROVE RInv'
  <2>1. task'[Pruner].at = "dead"
    <3>1. link' \in [Conns -> {"free", "open", "ending", "closed"}]
      BY <1>0, <1>10 DEF RaiseInPrune, Shutdown, HInv, HandlersType
    <3> QED  BY <1>0, <1>10, <3>1, PrunerDies DEF RaiseInPrune, Shutdown
  <2>2. /\ Written' \subseteq Written
        /\ UNCHANGED <<online, endpoint, paths, latest>>
        /\ \/ UNCHANGED <<writers, down>>
           \/ down' /\ writers' = [i \in Clients |-> None]
    BY <1>10 DEF RaiseInPrune, Shutdown, registry, Written
  <2>3. Capacity'  BY <1>0, <2>2, FewerWriters DEF RInv
  <2>4. EndpointIsWriter'  BY <1>0, <2>2 DEF RInv, EndpointIsWriter
  <2>5. WritableIsOnline'  BY <2>1 DEF WritableIsOnline, Unswept
  <2>6. PathsAreLive'  BY <1>0, <2>1, <2>2, Zenon DEF RInv, PathsAreLive, Unswept
  <2> QED  BY <2>3, <2>4, <2>5, <2>6 DEF RInv
<1> QED
  BY <1>2, <1>3, <1>4, <1>5, <1>6, <1>7, <1>8, <1>9, <1>10, ZenonT(30) DEF Next, TaskStep

\* A failed signature leaves a challenge within the attempt limit, or none.
LEMMA RequeuedType ==
    ASSUME SharedType, NEW c, cid[c] \in Clients, NEW sig
    PROVE  Requeued(c, sig) \in
             [nonce : Conns, attempts : 0 .. MaxAttempts - 1, seen : BOOLEAN] \cup {None}
<1> DEFINE p == pending[cid[c]]
<1>1. p \in [nonce : Conns, attempts : 0 .. MaxAttempts - 1, seen : BOOLEAN] \cup {None}
  BY DEF SharedType
<1>2. CASE p = None \/ sig = "malformed" \/ p.attempts + 1 >= MaxAttempts
  BY <1>2 DEF Requeued
<1>3. CASE ~(p = None \/ sig = "malformed" \/ p.attempts + 1 >= MaxAttempts)
  <2>1. Requeued(c, sig) = [p EXCEPT !.attempts = @ + 1]  BY <1>3 DEF Requeued
  <2>2. p.attempts + 1 \in 0 .. MaxAttempts - 1
    BY <1>1, <1>3, ConstantsAssumption
  <2> HIDE DEF p
  <2> QED  BY <1>1, <1>3, <2>1, <2>2
<1> QED  BY <1>2, <1>3

\* Every step keeps the types of the shared state.
LEMMA SharedStep ==
    ASSUME HInv, SharedType, Next
    PROVE  SharedType'
<1> USE DEF Others, Unchanged, registry
<1>1. ASSUME UNCHANGED <<stale, down, writers, authenticated, pending, online, fresh, endpoint,
                         networks, created, paths, latest, met>>
      PROVE SharedType'
  BY <1>1 DEF SharedType
<1>2. ASSUME NEW t, NEW i \in Clients, NEW onl \in [Clients -> BOOLEAN], Disconnect(t, i, onl),
             stale' \subseteq Clients,
             UNCHANGED <<down, pending, fresh, networks, created, latest, met>>
      PROVE  SharedType'
  BY <1>2 DEF Disconnect, SharedType
<1>3. ASSUME NEW c \in Conns, Finally(c),
             UNCHANGED <<stale, down, pending, fresh, networks, created, latest, met>>
      PROVE  SharedType'
  <2>1. CASE cid[c] # None /\ Disconnect(c, cid[c], online)
    <3>1. PICK i \in Clients, onl \in [Clients -> BOOLEAN] : i = cid[c] /\ onl = online
      BY <2>1 DEF HInv, HandlersType, SharedType
    <3>2. Disconnect(c, i, onl)  BY <2>1, <3>1
    <3>3. stale' \subseteq Clients  BY <1>3 DEF SharedType
    <3> QED  BY <1>2, <1>3, <3>2, <3>3
  <2>2. CASE UNCHANGED registry
    BY <1>1, <1>3, <2>2
  <2> QED  BY <1>3, <2>1, <2>2 DEF Finally
<1>4. ASSUME NEW c \in Conns, MessageStep(c)  PROVE SharedType'
  <2>0. cid[c] \in Clients \cup {None} /\ (authed[c] => cid[c] \in Clients)
    BY DEF HInv, HandlersType, TaskShape
  <2>1. CASE NotReady(c)  BY <1>1, <2>1 DEF NotReady
  <2>2. ASSUME NEW i \in Clients, ServerFull(c, i)  PROVE SharedType'
    BY <1>1, <2>2 DEF ServerFull
  <2>3. ASSUME NEW i \in Clients, Register(c, i)  PROVE SharedType'
    <3>1. [nonce |-> c, attempts |-> 0, seen |-> link[c] = "open"] \in
             [nonce : Conns, attempts : 0 .. MaxAttempts - 1, seen : BOOLEAN]
      BY ConstantsAssumption
    <3>2. pending' \in [Clients ->
             [nonce : Conns, attempts : 0 .. MaxAttempts - 1, seen : BOOLEAN] \cup {None}]
      BY <2>3, <3>1, ZenonT(30) DEF Register, Issued, SharedType
    <3> QED  BY <2>3, <3>2, ZenonT(30) DEF Register, SharedType
  <2>4. ASSUME NEW sig \in {"good", "bad", "malformed"}, AuthFail(c, sig)  PROVE SharedType'
    <3>1. pending' \in [Clients ->
             [nonce : Conns, attempts : 0 .. MaxAttempts - 1, seen : BOOLEAN] \cup {None}]
      BY <2>0, <2>4, RequeuedType, ZenonT(30) DEF AuthFail, SharedType
    <3> QED  BY <2>4, <3>1, ZenonT(30) DEF AuthFail, SharedType
  <2>5. CASE AuthOk(c)  BY <2>0, <2>5, ZenonT(30) DEF AuthOk, SharedType
  <2>6. CASE Heartbeat(c)  BY <2>0, <2>6 DEF Heartbeat, SharedType, Commanded
  <2>7. CASE Query(c)  BY <1>1, <2>7 DEF Query
  <2>8. ASSUME NEW n \in Networks, Enter(cid[c], n), cid[c] \in Clients
        PROVE  /\ networks' \in [Clients -> SUBSET Networks]
               /\ met' \subseteq Networks \X Clients \X Clients
    <3>1. networks' \in [Clients -> SUBSET Networks]
      BY <2>8 DEF Enter, SharedType
    <3>2. ASSUME NEW x \in met'  PROVE x \in Networks \X Clients \X Clients
      <4>1. CASE x \in met
        BY <4>1 DEF SharedType
      <4>2. CASE \E j \in Clients : x \in {<<n, j, cid[c]>>, <<n, cid[c], j>>}
        BY <2>8, <4>2
      <4> QED  BY <2>8, <3>2, <4>1, <4>2, Zenon DEF Enter
    <3> QED  BY <3>1, <3>2
  <2>9. ASSUME NEW n \in Networks, CreateNetwork(c, n) \/ JoinNetwork(c, n)  PROVE SharedType'
    <3>1. Enter(cid[c], n) /\ cid[c] \in Clients
      BY <2>0, <2>9, Zenon DEF CreateNetwork, JoinNetwork, Commanded
    <3>2. /\ networks' \in [Clients -> SUBSET Networks]
          /\ met' \subseteq Networks \X Clients \X Clients
      BY <2>8, <3>1
    <3> QED  BY <2>9, <3>2, Zenon DEF CreateNetwork, JoinNetwork, SharedType
  <2>10. ASSUME NEW n \in Networks, LeaveNetwork(c, n)  PROVE SharedType'
    BY <2>0, <2>10 DEF LeaveNetwork, SharedType, Commanded
  <2>11. ASSUME NEW j \in Clients, RelayRequest(c, j)  PROVE SharedType'
    BY <2>0, <2>11 DEF RelayRequest, SharedType, Commanded
  <2> QED
    BY <1>4, <2>1, <2>2, <2>3, <2>4, <2>5, <2>6, <2>7, <2>9, <2>10, <2>11 DEF MessageStep
<1>5. ASSUME NEW c \in Conns,
             Accept(c) \/ Drop(c) \/ EndOfStream(c) \/ Garbage(c) \/ ResumeStep(c)
      PROVE  SharedType'
  BY <1>1, <1>3, <1>5 DEF Accept, Drop, EndOfStream, Garbage, ResumeStep, ResumeRegister,
     ResumeReply, ResumeWelcome, ResumeGoodbye, ResumeGrant, RaiseInDispatch, RaiseInLoop,
     RaiseInFinally
<1>6. ASSUME NEW t \in Tasks, ResumeAnnounce(t)  PROVE SharedType'
  BY <1>1, <1>6 DEF ResumeAnnounce
<1>7. ASSUME NEW i \in Clients, ChallengeExpires(i) \/ Silence(i)  PROVE SharedType'
  BY <1>7, ZenonT(30) DEF ChallengeExpires, Silence, SharedType
<1>8. CASE Prune
  <2> DEFINE silent == {i \in Clients : online[i] /\ ~fresh[i]}
             marked == [j \in Clients |-> online[j] /\ j \notin silent]
  <2>1. PICK i \in silent : stale' = silent \ {i} /\ Disconnect(Pruner, i, marked)
    BY <1>8 DEF Prune
  <2>2. marked \in [Clients -> BOOLEAN] /\ i \in Clients /\ stale' \subseteq Clients
    BY <2>1 DEF SharedType
  <2>3. UNCHANGED <<down, pending, fresh, networks, created, latest, met>>
    BY <1>8 DEF Prune
  <2> HIDE DEF silent, marked
  <2> QED  BY <1>2, <2>1, <2>2, <2>3
<1>9. CASE PruneNext
  <2>1. PICK i \in stale : stale' = stale \ {i} /\ Disconnect(Pruner, i, online)
    BY <1>9 DEF PruneNext
  <2>2. online \in [Clients -> BOOLEAN] /\ i \in Clients /\ stale' \subseteq Clients
    BY <2>1 DEF SharedType
  <2>3. UNCHANGED <<down, pending, fresh, networks, created, latest, met>>
    BY <1>9 DEF PruneNext
  <2> QED  BY <1>2, <2>1, <2>2, <2>3
<1>10. ASSUME RaiseInPrune \/ Shutdown  PROVE SharedType'
  BY <1>10, Zenon DEF RaiseInPrune, Shutdown, SharedType
<1> QED
  BY <1>4, <1>5, <1>6, <1>7, <1>8, <1>9, <1>10 DEF Next, TaskStep

-----------------------------------------------------------------------------
(* The theorems                                                             *)

\* The invariant holds when the server starts.
LEMMA InitIInv ==
    ASSUME Init
    PROVE  IInv
<1>1. \A phase \in Phases : Waiting(phase) \in TaskRecord /\ Waiting(phase).at = phase
  BY WaitingType
<1>2. /\ \A c \in Conns : task[c] = Waiting("read")
      /\ task[Pruner] = Waiting("sleep")
      /\ task \in [Tasks -> TaskRecord]
  BY <1>1, ConstantsAssumption DEF Init, Tasks, Phases
<1>3. HandlersType
  BY <1>2 DEF Init, HandlersType
<1>4. TaskShape
  BY <1>1, <1>2, ZenonT(30) DEF Init, TaskShape, Tasks, Phases, AnnouncePhases
<1>5. SharedType
  BY Zenon DEF Init, SharedType
<1>6. SleepsEmpty
  BY DEF Init, SleepsEmpty
<1>7. Capacity
  <2>1. {i \in Clients : writers[i] # None} = {}  BY DEF Init
  <2> QED  BY <2>1, FS_EmptySet, ConstantsAssumption DEF Capacity
<1>8. EndpointIsWriter /\ WritableIsOnline /\ PathsAreLive
  BY DEF Init, EndpointIsWriter, WritableIsOnline, PathsAreLive
<1> QED  BY <1>3, <1>4, <1>5, <1>6, <1>7, <1>8 DEF IInv, HInv

\* Every step of every task keeps it.
LEMMA NextIInv ==
    ASSUME IInv, [Next]_vars
    PROVE  IInv'
<1>1. CASE Next
  <2>1. HInv /\ SharedType /\ SleepsEmpty  BY DEF IInv
  <2>2. TasksKept  BY <1>1, <2>1, TasksStep
  <2>3. SharedType'  BY <1>1, <2>1, SharedStep
  <2>4. RInv'  BY <1>1, <2>2, RegistryStep
  <2> QED  BY <2>2, <2>3, <2>4 DEF IInv, RInv, TasksKept
<1>2. CASE UNCHANGED vars
  BY <1>2, Zenon DEF vars, handlers, registry, IInv, HInv, HandlersType, TaskShape, SharedType,
     SleepsEmpty, Capacity, EndpointIsWriter, WritableIsOnline, PathsAreLive, Unswept
<1> QED  BY <1>1, <1>2

\* The invariant holds of every reachable state of the server.
THEOREM Invariance == Spec => []IInv
<1>1. Init => IInv  BY InitIInv
<1>2. IInv /\ [Next]_vars => IInv'  BY NextIInv
<1> QED  BY <1>1, <1>2, PTL DEF Spec

\* Every variable keeps its type, whatever the clients send and lose.
THEOREM TypeCorrect == Spec => []TypeOK
<1>1. IInv => TypeOK
  BY DEF IInv, HInv, HandlersType, SharedType, TypeOK
<1> QED  BY <1>1, Invariance, PTL

\* _on_register never lets more than max_clients identities hold a writer.
THEOREM CapacityHolds == Spec => []Capacity
<1>1. IInv => Capacity  BY DEF IInv
<1> QED  BY <1>1, Invariance, PTL

\* The endpoint shared with peers is that of the connection written to.
THEOREM EndpointsHold == Spec => []EndpointIsWriter
<1>1. IInv => EndpointIsWriter  BY DEF IInv
<1> QED  BY <1>1, Invariance, PTL

\* A client that can be written to is online, or the pruner owes its disconnection.
THEOREM WritersHold == Spec => []WritableIsOnline
<1>1. IInv => WritableIsOnline  BY DEF IInv
<1> QED  BY <1>1, Invariance, PTL

\* Relay paths are symmetric and join online clients.
THEOREM PathsHold == Spec => []PathsAreLive
<1>1. IInv => PathsAreLive  BY DEF IInv
<1> QED  BY <1>1, Invariance, PTL

=============================================================================
