---------------------------- MODULE RosterProofs ----------------------------
(***************************************************************************)
(* Proof that RosterJustified holds of MediationServer, for every set of   *)
(* clients, connections and networks: what the clients have been told      *)
(* (RosterInv) is inductive on top of the invariants of                    *)
(* MediationServerProofs. An announcement names only clients that the task *)
(* that makes it has seen in the network (Promises), and a connection gets *)
(* it only while it is that of the client it was meant for, or once its    *)
(* handler has ended.                                                      *)
(***************************************************************************)
EXTENDS MediationServerProofs, TLAPS

\* The provers to try on a leaf that names none, and how long.
USE SMTT(30), ZenonT(30)

\* Connection c is, or is about to be, the one of client i.
Owner(c, i) == cid[c] = i \/ (task[c].at = "register" /\ task[c].who = i)

\* handle_client of c has ended, with close().
Gone(c) == task[c].at = "done" /\ link[c] = "closed" /\ roster[c] = {}

\* A member was in its network together with, or after, whoever has been in it.
MetInv ==
    \A n \in Networks, j \in Clients :
        n \in networks[j] => /\ <<n, j, j>> \in met
                             /\ \A i \in Clients : <<n, i, i>> \in met => <<n, j, i>> \in met

\* What was announced on c is justified for the client c belongs to.
Told(c) ==
    \A e \in roster[c] :
        task[c].at = "done" \/ \E i \in Clients : Owner(c, i) /\ <<e[1], i, e[2]>> \in met

\* client_id is assigned after registering and gone with the handler; in the
\* finally clause the handler's writer is gone.
Unnamed(c) ==
    /\ task[c].at \in {"register", "done"} => cid[c] = None
    /\ task[c].at = "final" => \A i \in Clients : writers[i] # c

\* The writer of a client is its connection, or closed.
Wrote(i) == writers[i] # None => Owner(writers[i], i) \/ Gone(writers[i])

\* What task t still has to announce as online is justified.
Promises(r) ==
    r.at = "online" => /\ \A p \in r.peers : <<r.net, p, r.who>> \in met
                       /\ \A m \in r.nets : <<m, r.who, r.who>> \in met

RosterInv ==
    /\ MetInv
    /\ \A c \in Conns : Told(c) /\ Unnamed(c)
    /\ \A i \in Clients : Wrote(i)
    /\ \A t \in Tasks : Promises(task[t])

\* A step of task t that adds only justified entries to the others' rosters.
LEMMA RosterStep ==
    ASSUME HInv, SharedType, RosterInv, NEW t \in Tasks, NEW r, task' = [task EXCEPT ![t] = r],
           met \subseteq met', MetInv', Promises(r)',
           \A d \in Conns \ {t} : cid'[d] = cid[d],
           \A d \in Conns : link[d] = "closed" => link'[d] = "closed",
           \A d \in Conns \ {t} : \A e \in roster'[d] \ roster[d] :
               link[d] # "closed" /\ \E p \in Clients : writers[p] = d /\ <<e[1], p, e[2]>> \in met,
           \A i \in Clients : writers'[i] \in {writers[i], None} \cup ({t} \cap Conns),
           t \in Conns => Told(t)' /\ Unnamed(t)',
           t \in Conns => \A i \in Clients : writers'[i] = t => Owner(t, i)' \/ Gone(t)'
    PROVE  RosterInv'
<1>0. /\ \A u \in Tasks : task'[u] = IF u = t THEN r ELSE task[u]
      /\ Conns \subseteq Tasks /\ None \notin Conns
      /\ writers \in [Clients -> Conns \cup {None}]
  BY ConstantsAssumption DEF HInv, HandlersType, Tasks, SharedType
<1>1. ASSUME NEW d \in Conns \ {t} PROVE Told(d)' /\ Unnamed(d)'
  <2>1. task'[d] = task[d] /\ cid'[d] = cid[d] /\ Told(d) /\ Unnamed(d)
    BY <1>0 DEF RosterInv
  <2>2. \A i : Owner(d, i) => Owner(d, i)'
    BY <2>1 DEF Owner
  <2>3. ASSUME NEW e \in roster'[d]
        PROVE  task'[d].at = "done" \/ \E i \in Clients : Owner(d, i)' /\ <<e[1], i, e[2]>> \in met'
    <3>1. CASE e \in roster[d]
      BY <2>1, <2>2, <3>1 DEF Told
    <3>2. CASE e \notin roster[d]
      <4>1. PICK p \in Clients : writers[p] = d /\ <<e[1], p, e[2]>> \in met
        BY <3>2
      <4>2. link[d] # "closed"
        BY <3>2
      <4>3. Owner(d, p)
        BY <1>0, <4>1, <4>2 DEF RosterInv, Wrote, Gone
      <4> QED  BY <2>2, <4>1, <4>3
    <3> QED  BY <3>1, <3>2
  <2>4. \A i \in Clients : writers'[i] = d => writers[i] = d
    BY <1>0
  <2>5. Unnamed(d)'
    BY <2>1, <2>4 DEF Unnamed
  <2> QED  BY <2>1, <2>3, <2>5 DEF Told
<1>2. ASSUME NEW i \in Clients PROVE Wrote(i)'
  <2>1. CASE writers'[i] = t /\ t \in Conns
    BY <2>1 DEF Wrote
  <2>2. CASE writers'[i] = None
    BY <2>2 DEF Wrote
  <2>3. CASE writers'[i] = writers[i] /\ writers[i] # None /\ writers[i] # t
    <3> DEFINE d == writers[i]
    <3>1. d \in Conns \ {t} /\ task'[d] = task[d] /\ cid'[d] = cid[d] /\ writers'[i] = d
      BY <1>0, <2>3
    <3>2. Owner(d, i) \/ Gone(d)
      BY <2>3 DEF RosterInv, Wrote
    <3> HIDE DEF d
    <3>3. CASE Owner(d, i)
      <4>1. cid'[d] = i \/ (task'[d].at = "register" /\ task'[d].who = i)
        BY <3>1, <3>3 DEF Owner
      <4> QED  BY <3>1, <4>1 DEF Wrote, Owner
    <3>4. CASE Gone(d)
      <4>1. task'[d].at = "done" /\ link'[d] = "closed" /\ roster'[d] = {}
        BY <3>1, <3>4 DEF Gone
      <4> QED  BY <3>1, <4>1 DEF Wrote, Gone
    <3> QED  BY <3>2, <3>3, <3>4
  <2> QED  BY <1>0, <2>1, <2>2, <2>3
<1>3. ASSUME NEW u \in Tasks PROVE Promises(task[u])'
  <2>1. CASE u = t
    <3>1. task'[u] = r
      BY <1>0, <2>1
    <3> QED  BY <3>1 DEF Promises
  <2>2. CASE u # t
    <3>1. task'[u] = task[u] /\ Promises(task[u])
      BY <1>0, <2>2 DEF RosterInv
    <3> QED  BY <3>1 DEF Promises
  <2> QED  BY <2>1, <2>2
<1> QED  BY <1>1, <1>2, <1>3 DEF RosterInv

\* Where membership and history stay, or members leave, so does MetInv.
LEMMA MetKept ==
    ASSUME MetInv, met' = met, \A j \in Clients : networks'[j] \subseteq networks[j]
    PROVE  MetInv'
BY DEF MetInv

\* A step of task t that tells nobody anything and keeps its client_id.
LEMMA QuietRoster ==
    ASSUME HInv, SharedType, RosterInv, NEW t \in Tasks, NEW r, task' = [task EXCEPT ![t] = r],
           met \subseteq met', MetInv', r.at \notin {"online", "register", "final", "done"},
           UNCHANGED <<cid, roster>>,
           \A d \in Conns : link[d] = "closed" => link'[d] = "closed",
           \A i \in Clients : writers'[i] \in {writers[i], None},
           t \in Conns => task[t].at \notin {"register", "done"}
    PROVE  RosterInv'
<1>0. None \notin Conns /\ t \in Tasks /\ task'[t] = r
  BY ConstantsAssumption DEF HInv, HandlersType
<1>1. Promises(r)'
  BY DEF Promises
<1>2. ASSUME t \in Conns PROVE Told(t)' /\ Unnamed(t)'
  <2>1. Told(t) /\ task[t].at \notin {"register", "done"}
    BY <1>2 DEF RosterInv
  <2>2. \A i : Owner(t, i) => Owner(t, i)'
    BY <2>1 DEF Owner
  <2> QED  BY <1>0, <2>1, <2>2 DEF Told, Unnamed
<1>3. ASSUME t \in Conns, NEW i \in Clients, writers'[i] = t PROVE Owner(t, i)' \/ Gone(t)'
  <2>1. writers[i] = t /\ writers[i] # None
    BY <1>0, <1>3
  <2>2. cid[t] = i
    BY <1>3, <2>1 DEF RosterInv, Wrote, Owner, Gone
  <2> QED  BY <2>2 DEF Owner
<1> QED  BY <1>0, <1>1, <1>2, <1>3, RosterStep, Zenon

\* One announcement, of a task that keeps to what it promised.
LEMMA NotifyRoster ==
    ASSUME HInv, SharedType, RosterInv, NEW t \in Tasks, NEW phase \in AnnouncePhases,
           NEW i \in Clients, NEW n \in Networks \cup {None}, NEW peers \in SUBSET Clients,
           NEW nets \in SUBSET Networks, Notify(t, phase, i, n, peers, nets),
           phase = "online" => /\ \A p \in peers : <<n, p, i>> \in met
                               /\ \A m \in nets : <<m, i, i>> \in met,
           t \in Conns => task[t].at \notin {"register", "done"},
           t \in Conns /\ phase = "final" => \A j \in Clients : writers'[j] # t,
           UNCHANGED <<networks, met>>,
           \A j \in Clients : writers'[j] \in {writers[j], None}
    PROVE  RosterInv'
<1>1. PICK p \in Reachable(peers), passed \in SUBSET (peers \ Reachable(peers)) :
        /\ task' = [task EXCEPT ![t] =
                      [at |-> phase, on |-> writers[p], who |-> i, net |-> n,
                       peers |-> peers \ (passed \cup {p}), nets |-> nets]]
        /\ roster' = [roster EXCEPT ![writers[p]] =
                        IF link[writers[p]] = "closed" THEN @
                        ELSE IF phase = "online" THEN @ \cup {<<n, i>>}
                        ELSE @ \ {<<n, i>>}]
        /\ UNCHANGED <<link, cid, authed>>
  BY Zenon DEF Notify
<1>0. /\ None \notin Conns /\ p \in Clients /\ p \in peers /\ writers[p] \in Conns
      /\ roster \in [Conns -> SUBSET (Networks \X Clients)] /\ task \in [Tasks -> TaskRecord]
  BY ConstantsAssumption DEF HInv, HandlersType, SharedType, Reachable
<1>2a. PICK r : r = [at |-> phase, on |-> writers[p], who |-> i, net |-> n,
                     peers |-> peers \ (passed \cup {p}), nets |-> nets]
  BY Zenon
<1>2. /\ task' = [task EXCEPT ![t] = r] /\ task'[t] = r
      /\ r.at = phase /\ r.who = i /\ r.net = n /\ r.peers \subseteq peers /\ r.nets = nets
  BY <1>0, <1>1, <1>2a
<1>3. Promises(r)'
  BY <1>2 DEF Promises
<1>4. MetInv'
  BY MetKept DEF RosterInv
<1>5. \A d \in Conns : \A e \in roster'[d] \ roster[d] :
        d = writers[p] /\ link[d] # "closed" /\ e = <<n, i>> /\ <<e[1], p, e[2]>> \in met
  <2>1. \A d \in Conns : d # writers[p] => roster'[d] = roster[d]
    BY <1>0, <1>1
  <2>2. \A e \in roster'[writers[p]] \ roster[writers[p]] :
          link[writers[p]] # "closed" /\ phase = "online" /\ e = <<n, i>>
    BY <1>0, <1>1
  <2> QED  BY <1>0, <2>1, <2>2
<1>6. ASSUME t \in Conns PROVE Told(t)' /\ Unnamed(t)'
  <2>1. Told(t) /\ task[t].at \notin {"register", "done"} /\ phase \notin {"register", "done"}
    BY <1>6 DEF RosterInv, AnnouncePhases
  <2>2. \A j : Owner(t, j) => Owner(t, j)'
    BY <1>1, <2>1 DEF Owner
  <2>3. ASSUME NEW e \in roster'[t]
        PROVE  \E j \in Clients : Owner(t, j)' /\ <<e[1], j, e[2]>> \in met'
    <3>1. CASE e \in roster[t]
      BY <2>1, <2>2, <3>1 DEF Told
    <3>2. CASE e \notin roster[t]
      <4>1. t = writers[p] /\ link[t] # "closed" /\ <<e[1], p, e[2]>> \in met
        BY <1>5, <1>6, <3>2
      <4>2. Owner(t, p)
        BY <1>0, <4>1 DEF RosterInv, Wrote, Gone
      <4> QED  BY <1>0, <2>2, <4>1, <4>2
    <3> QED  BY <3>1, <3>2
  <2>4. Unnamed(t)'
    BY <1>2, <1>6, <2>1 DEF Unnamed
  <2> QED  BY <2>3, <2>4 DEF Told
<1>7. ASSUME t \in Conns, NEW j \in Clients, writers'[j] = t PROVE Owner(t, j)' \/ Gone(t)'
  <2>1. writers[j] = t /\ writers[j] # None
    BY <1>0, <1>7
  <2>2. cid[t] = j
    BY <1>7, <2>1 DEF RosterInv, Wrote, Owner, Gone
  <2> QED  BY <1>1, <2>2 DEF Owner
<1>8. \A d \in Conns \ {t} : \A e \in roster'[d] \ roster[d] :
        link[d] # "closed" /\ \E q \in Clients : writers[q] = d /\ <<e[1], q, e[2]>> \in met
  BY <1>0, <1>5, Zenon
<1>9. met \subseteq met' /\ cid' = cid /\ link' = link
  BY <1>1
<1> QED  BY <1>2, <1>3, <1>4, <1>6, <1>7, <1>8, <1>9, RosterStep, Zenon

\* The end of handle_client, with close().
LEMMA ClosedRoster ==
    ASSUME HInv, SharedType, RosterInv, NEW c \in Conns, Closed(c), UNCHANGED <<networks, met>>,
           \A j \in Clients : writers'[j] \in {writers[j], None}
    PROVE  RosterInv'
<1>0. /\ roster \in [Conns -> SUBSET (Networks \X Clients)] /\ task \in [Tasks -> TaskRecord]
      /\ link \in [Conns -> {"free", "open", "ending", "closed"}]
      /\ cid \in [Conns -> Clients \cup {None}] /\ c \in Tasks
  BY DEF HInv, HandlersType, Tasks
<1>1. Waiting("done").at = "done"
  BY DEF Waiting
<1> DEFINE r == Waiting("done")
<1>2. task' = [task EXCEPT ![c] = r] /\ task'[c] = r /\ r.at = "done"
  BY <1>0, <1>1 DEF Closed
<1> HIDE DEF r
<1>3. /\ link' = [link EXCEPT ![c] = "closed"] /\ cid' = [cid EXCEPT ![c] = None]
      /\ roster' = [roster EXCEPT ![c] = {}]
  BY DEF Closed
<1>4. Told(c)' /\ Unnamed(c)' /\ Gone(c)'
  BY <1>0, <1>2, <1>3 DEF Told, Unnamed, Gone
<1>5. MetInv' /\ Promises(r)'
  BY <1>2, MetKept DEF RosterInv, Promises
<1>6. /\ \A d \in Conns \ {c} : cid'[d] = cid[d]
      /\ \A d \in Conns : link[d] = "closed" => link'[d] = "closed"
      /\ \A d \in Conns \ {c} : roster'[d] = roster[d]
      /\ met \subseteq met'
  BY <1>0, <1>3
<1> QED  BY <1>0, <1>2, <1>4, <1>5, <1>6, RosterStep, Zenon

\* A stretch of announcements.
LEMMA AnnounceRoster ==
    ASSUME HInv, SharedType, RosterInv, NEW t \in Tasks, NEW phase \in AnnouncePhases,
           NEW i \in Clients, NEW n \in Networks \cup {None}, NEW peers \in SUBSET Clients,
           NEW nets \in SUBSET Networks, NEW onl, Announce(t, phase, i, n, peers, nets, onl),
           phase = "online" => /\ \A p \in peers : <<n, p, i>> \in met
                               /\ \A m \in nets : <<m, i, i>> \in met,
           t \in Conns => task[t].at \notin {"register", "done"},
           t \in Conns /\ phase = "final" => \A j \in Clients : writers'[j] # t,
           UNCHANGED <<networks, met>>,
           \A j \in Clients : writers'[j] \in {writers[j], None}
    PROVE  RosterInv'
<1>1. CASE Notify(t, phase, i, n, peers, nets)
  BY <1>1, NotifyRoster
<1>2. ASSUME NEW m \in nets, NEW empty \in SUBSET (nets \ {m}),
             Notify(t, phase, i, m, Members(m, i, onl), nets \ (empty \cup {m}))
      PROVE  RosterInv'
  <2> DEFINE ps == Members(m, i, onl)
             ns == nets \ (empty \cup {m})
  <2>1. /\ ps \in SUBSET Clients /\ ns \in SUBSET Networks /\ m \in Networks
        /\ \A p \in ps : m \in networks[p]
    BY DEF Members
  <2>2. phase = "online" => (\A p \in ps : <<m, p, i>> \in met) /\ \A k \in ns : <<k, i, i>> \in met
    BY <2>1, Zenon DEF RosterInv, MetInv
  <2>3. Notify(t, phase, i, m, ps, ns)
    BY <1>2
  <2> HIDE DEF ps, ns
  <2> QED  BY <2>1, <2>2, <2>3, NotifyRoster
<1>3. CASE Announced(t, phase)
  <2>1. CASE Closed(t) /\ t \in Conns
    BY <2>1, ClosedRoster
  <2>2. CASE /\ UNCHANGED <<link, cid, roster>>
             /\ \E ph \in {"sleep", "sweep", "read"} : task' = [task EXCEPT ![t] = Waiting(ph)]
    <3>1. PICK ph \in {"sleep", "sweep", "read"} : task' = [task EXCEPT ![t] = Waiting(ph)]
      BY <2>2, ZenonT(30)
    <3>2. Waiting(ph).at = ph
      BY DEF Waiting
    <3>3. MetInv' /\ met \subseteq met'
      BY MetKept DEF RosterInv
    <3> QED  BY <2>2, <3>1, <3>2, <3>3, QuietRoster, Zenon
  <2> QED  BY <1>3, <2>1, <2>2 DEF Announced, Tasks
<1> QED  BY <1>1, <1>2, <1>3, Zenon DEF Announce

\* handle_client's finally clause.
LEMMA FinallyRoster ==
    ASSUME HInv, SharedType, RosterInv, NEW c \in Conns, Finally(c),
           UNCHANGED <<networks, met>>
    PROVE  RosterInv'
<1>0. /\ c \in Tasks /\ cid[c] \in Clients \cup {None} /\ c # None
      /\ writers \in [Clients -> Conns \cup {None}] /\ "final" \in AnnouncePhases
  BY ConstantsAssumption DEF HInv, HandlersType, SharedType, Tasks, AnnouncePhases
<1>1. CASE cid[c] # None /\ Disconnect(c, cid[c], online)
  <2> DEFINE i == cid[c]
             N == networks[i]
  <2>1. /\ i \in Clients /\ task[c].at \notin {"register", "done"} /\ N \in SUBSET Networks
        /\ writers' = [writers EXCEPT ![i] = None]
        /\ Announce(c, "final", i, None, {}, N, online)
    BY <1>0, <1>1 DEF RosterInv, Unnamed, SharedType, Disconnect
  <2>2. \A j \in Clients : writers[j] = c => j = i
    BY <1>0, <2>1 DEF RosterInv, Wrote, Owner, Gone
  <2>3. \A j \in Clients : writers'[j] # c /\ writers'[j] \in {writers[j], None}
    BY <1>0, <2>1, <2>2
  <2> HIDE DEF i, N
  <2> QED  BY <1>0, <2>1, <2>3, AnnounceRoster
<1>2. CASE Closed(c) /\ UNCHANGED registry
  BY <1>2, ClosedRoster DEF registry
<1> QED  BY <1>1, <1>2 DEF Finally

\* The pruner's disconnection of a client.
LEMMA PrunerRoster ==
    ASSUME HInv, SharedType, RosterInv, NEW i \in Clients, NEW onl, Disconnect(Pruner, i, onl),
           UNCHANGED <<networks, met>>
    PROVE  RosterInv'
<1> DEFINE N == networks[i]
<1>1. /\ Pruner \in Tasks /\ Pruner \notin Conns /\ N \in SUBSET Networks
      /\ "final" \in AnnouncePhases /\ "final" # "online"
  BY ConstantsAssumption DEF Tasks, SharedType, AnnouncePhases
<1>2. writers' = [writers EXCEPT ![i] = None] /\ Announce(Pruner, "final", i, None, {}, N, onl)
  BY DEF Disconnect
<1>3. \A j \in Clients : writers'[j] \in {writers[j], None}
  BY <1>2 DEF SharedType
<1> HIDE DEF N
<1> QED  BY <1>1, <1>2, <1>3, AnnounceRoster

\* The handler of c answers its own client.
LEMMA SentRoster ==
    ASSUME HInv, SharedType, RosterInv, NEW c \in Conns, NEW phase, NEW i, NEW n,
           Sent(c, phase, i, n), task[c].at = "read",
           phase \notin {"online", "register", "final", "done"},
           met \subseteq met', MetInv', UNCHANGED <<cid, link, roster>>,
           UNCHANGED writers
    PROVE  RosterInv'
<1>1. PICK r : r = [at |-> phase, on |-> c, who |-> i, net |-> n, peers |-> {}, nets |-> {}]
  BY ZenonT(30)
<1>2. task' = [task EXCEPT ![c] = r] /\ r.at = phase /\ c \in Tasks
  BY <1>1 DEF Sent, Tasks
<1> QED  BY <1>2, QuietRoster, Zenon

\* _on_register.
LEMMA RegisterRoster ==
    ASSUME HInv, SharedType, RosterInv, NEW c \in Conns, NEW i \in Clients, Register(c, i)
    PROVE  RosterInv'
<1>1. PICK r : r = [at |-> "register", on |-> c, who |-> i, net |-> None,
                    peers |-> {}, nets |-> {}]
  BY Zenon
<1>2. /\ task' = [task EXCEPT ![c] = r] /\ r.at = "register" /\ r.who = i
      /\ task[c].at = "read" /\ cid[c] = None /\ UNCHANGED <<networks, met, cid, roster>>
      /\ writers' = [writers EXCEPT ![i] = c]
  BY <1>1 DEF Register, Reading, Sent, Unchanged
<1>3. /\ c \in Tasks /\ task'[c] = r /\ None \notin Clients
      /\ writers \in [Clients -> Conns \cup {None}] /\ None \notin Conns
  BY <1>2, ConstantsAssumption DEF Tasks, HInv, HandlersType, SharedType
<1>4. \A d \in Conns : link[d] = "closed" => link'[d] = "closed"
  BY DEF Register
<1>5. MetInv' /\ Promises(r)'
  BY <1>2, MetKept DEF RosterInv, Promises
<1>6. roster[c] = {}
  <2>1. \A j \in Clients : ~Owner(c, j)
    BY <1>2, <1>3 DEF Owner
  <2> QED  BY <1>2, <2>1, Zenon DEF RosterInv, Told
<1>7. Told(c)' /\ Unnamed(c)'
  BY <1>2, <1>3, <1>6 DEF Told, Unnamed
<1>8. ASSUME NEW j \in Clients, writers'[j] = c PROVE Owner(c, j)' \/ Gone(c)'
  <2>1. CASE j = i
    BY <1>2, <1>3, <2>1 DEF Owner
  <2>2. CASE j # i
    <3>1. writers[j] = c /\ writers[j] # None
      BY <1>2, <1>3, <1>8, <2>2
    <3> QED  BY <1>2, <1>3, <3>1 DEF RosterInv, Wrote, Owner, Gone
  <2> QED  BY <2>1, <2>2
<1>9. \A j \in Clients : writers'[j] \in {writers[j], None} \cup ({c} \cap Conns)
  BY <1>2, <1>3
<1> QED  BY <1>2, <1>3, <1>4, <1>5, <1>7, <1>8, <1>9, RosterStep, Zenon

\* CREATE_NETWORK and JOIN_NETWORK record whom the client meets.
LEMMA EnterMet ==
    ASSUME SharedType, MetInv, NEW i \in Clients, NEW n \in Networks, Enter(i, n)
    PROVE  met \subseteq met' /\ MetInv'
<1>1. /\ met \subseteq met' /\ <<n, i, i>> \in met'
      /\ \A j \in Clients : n \in networks[j] => <<n, j, i>> \in met'
      /\ \A j \in Clients : <<n, j, j>> \in met => <<n, i, j>> \in met'
  BY DEF Enter
<1>2. \A m \in Networks, j \in Clients : m \in networks'[j] => m \in networks[j] \/ (m = n /\ j = i)
  BY DEF Enter, SharedType
<1>3. \A m \in Networks, k \in Clients :
        <<m, k, k>> \in met' => <<m, k, k>> \in met \/ (m = n /\ k = i)
  BY Zenon DEF Enter
<1>4. ASSUME NEW m \in Networks, NEW j \in Clients, m \in networks'[j]
      PROVE  /\ <<m, j, j>> \in met'
             /\ \A k \in Clients : <<m, k, k>> \in met' => <<m, j, k>> \in met'
  <2>1. <<m, j, j>> \in met'
    BY <1>1, <1>2, <1>4 DEF MetInv
  <2>2. ASSUME NEW k \in Clients, <<m, k, k>> \in met' PROVE <<m, j, k>> \in met'
    BY <1>1, <1>2, <1>3, <1>4, <2>2, ZenonT(30) DEF MetInv
  <2> QED  BY <2>1, <2>2
<1> QED  BY <1>1, <1>4 DEF MetInv

\* The messages of a client.
LEMMA MessageRoster ==
    ASSUME HInv, SharedType, RosterInv, NEW c \in Conns, MessageStep(c)
    PROVE  RosterInv'
<1>0. /\ cid \in [Conns -> Clients \cup {None}]
      /\ \A d \in Conns : authed[d] => cid[d] \in Clients
      /\ MetInv
  BY DEF HInv, HandlersType, TaskShape, RosterInv
<1>1. ASSUME UNCHANGED <<networks, met>> PROVE met \subseteq met' /\ MetInv'
  BY <1>0, <1>1, MetKept
<1>2. CASE NotReady(c)
  BY <1>1, <1>2, SentRoster DEF NotReady, Reading, registry, Unchanged
<1>3. ASSUME NEW i \in Clients, ServerFull(c, i) PROVE RosterInv'
  BY <1>1, <1>3, SentRoster DEF ServerFull, Reading, registry, Unchanged
<1>4. ASSUME NEW i \in Clients, Register(c, i) PROVE RosterInv'
  BY <1>4, RegisterRoster
<1>5. ASSUME NEW sig, AuthFail(c, sig) PROVE RosterInv'
  BY <1>1, <1>5, SentRoster DEF AuthFail, Reading, registry, Unchanged
<1>6. CASE AuthOk(c)
  BY <1>1, <1>6, SentRoster DEF AuthOk, Reading, Unchanged
<1>7. CASE Heartbeat(c)
  BY <1>1, <1>7, SentRoster DEF Heartbeat, Commanded, Reading, Unchanged
<1>8. CASE Query(c)
  BY <1>1, <1>8, SentRoster DEF Query, Commanded, Reading, registry, Unchanged
<1>9. ASSUME NEW n \in Networks, CreateNetwork(c, n) PROVE RosterInv'
  <2>1. met \subseteq met' /\ MetInv'
    BY <1>0, <1>9, EnterMet DEF CreateNetwork, Commanded
  <2> QED  BY <1>9, <2>1, SentRoster DEF CreateNetwork, Commanded, Reading, registry
<1>10. ASSUME NEW n \in Networks, JoinNetwork(c, n) PROVE RosterInv'
  <2>1. met \subseteq met' /\ MetInv'
    BY <1>0, <1>10, EnterMet DEF JoinNetwork, Commanded
  <2> QED  BY <1>10, <2>1, SentRoster, Zenon DEF JoinNetwork, Commanded, Reading, registry, Unchanged
<1>11. ASSUME NEW n \in Networks, LeaveNetwork(c, n) PROVE RosterInv'
  <2>1. met' = met /\ \A j \in Clients : networks'[j] \subseteq networks[j]
    BY <1>11 DEF LeaveNetwork, SharedType
  <2>2. met \subseteq met' /\ MetInv'
    BY <1>0, <2>1, MetKept
  <2> QED  BY <1>11, <2>2, SentRoster DEF LeaveNetwork, Commanded, Reading, registry, Unchanged
<1>12. ASSUME NEW j \in Clients, RelayRequest(c, j) PROVE RosterInv'
  BY <1>1, <1>12, SentRoster DEF RelayRequest, Commanded, Reading, Unchanged
<1> QED  BY <1>2, <1>3, <1>4, <1>5, <1>6, <1>7, <1>8, <1>9, <1>10, <1>11, <1>12 DEF MessageStep

\* A handler resumed, or failing, in drain().
LEMMA ResumeRoster ==
    ASSUME HInv, SharedType, RosterInv, NEW c \in Conns, ResumeStep(c)
    PROVE  RosterInv'
<1>0. /\ c \in Tasks /\ task \in [Tasks -> TaskRecord] /\ None \notin Conns
      /\ cid \in [Conns -> Clients \cup {None}] /\ MetInv
      /\ writers \in [Clients -> Conns \cup {None}] /\ networks \in [Clients -> SUBSET Networks]
      /\ "online" \in AnnouncePhases /\ "offline" \in AnnouncePhases
  BY ConstantsAssumption DEF Tasks, HInv, HandlersType, SharedType, RosterInv, AnnouncePhases
<1>1. ASSUME UNCHANGED <<networks, met>> PROVE met \subseteq met' /\ MetInv'
  BY <1>0, <1>1, MetKept
<1>2. \A phase : Waiting(phase).at = phase
  BY DEF Waiting
<1>3. CASE ResumeRegister(c)
  <2> DEFINE r == Waiting("read")
  <2>1. /\ task' = [task EXCEPT ![c] = r] /\ task'[c] = r /\ r.at = "read"
        /\ cid' = [cid EXCEPT ![c] = task[c].who] /\ task[c].at = "register"
        /\ UNCHANGED <<link, roster, writers, networks, met>>
    BY <1>0, <1>2, <1>3, ZenonT(30) DEF ResumeRegister, Drained, registry, Others
  <2>2. \A j \in Clients : Owner(c, j) => cid'[c] = j
    BY <1>0, <2>1, ConstantsAssumption DEF RosterInv, Unnamed, Owner
  <2>3. Told(c)
    BY DEF RosterInv
  <2> HIDE DEF r
  <2>4. Told(c)' /\ Unnamed(c)'
    BY <2>1, <2>2, <2>3, Zenon DEF Told, Unnamed, Owner
  <2>5. ASSUME NEW j \in Clients, writers'[j] = c PROVE Owner(c, j)' \/ Gone(c)'
    <3>1. Owner(c, j) \/ Gone(c)
      BY <1>0, <2>1, <2>5 DEF RosterInv, Wrote
    <3>2. Owner(c, j) => Owner(c, j)'
      BY <2>1, <2>2 DEF Owner
    <3>3. ~Gone(c)
      BY <1>0, <2>1 DEF Gone
    <3> QED  BY <3>1, <3>2, <3>3
  <2>6. MetInv' /\ Promises(r)' /\ met \subseteq met'
    BY <1>1, <2>1, Zenon DEF Promises
  <2>7. /\ \A d \in Conns \ {c} : cid'[d] = cid[d]
        /\ \A d \in Conns : link[d] = "closed" => link'[d] = "closed"
        /\ \A d \in Conns \ {c} : roster'[d] = roster[d]
        /\ \A j \in Clients : writers'[j] \in {writers[j], None} \cup ({c} \cap Conns)
    BY <1>0, <2>1
  <2> QED  BY <1>0, <2>1, <2>4, <2>5, <2>6, <2>7, RosterStep, ZenonT(30)
<1>4. CASE ResumeReply(c)
  <2>1. /\ task' = [task EXCEPT ![c] = Waiting("read")] /\ task[c].at \in {"reply", "error"}
        /\ UNCHANGED <<cid, roster, link, writers, networks, met>>
    BY <1>4, Zenon DEF ResumeReply, Drained, registry, Others
  <2> QED  BY <1>0, <1>1, <1>2, <2>1, QuietRoster, Zenon
<1>5. CASE ResumeWelcome(c)
  <2> DEFINE i == task[c].who
             N == networks[i]
  <2>1. /\ task[c].at = "welcome" /\ Announce(c, "online", i, None, {}, N, online)
        /\ UNCHANGED <<writers, networks, met>>
    BY <1>5 DEF ResumeWelcome, Drained, registry, Others
  <2>2. i \in Clients /\ N \in SUBSET Networks
    BY <1>0, <2>1 DEF HInv, TaskShape, TaskRecord
  <2>3. \A m \in N : <<m, i, i>> \in met
    BY <1>0, <2>2 DEF MetInv
  <2> HIDE DEF i, N
  <2> QED  BY <1>0, <2>1, <2>2, <2>3, AnnounceRoster, Zenon
<1>6. CASE ResumeGoodbye(c)
  <2> DEFINE i == task[c].who
             n == task[c].net
             P == Members(n, i, online)
  <2>1. /\ task[c].at = "goodbye" /\ Announce(c, "offline", i, n, P, {}, online)
        /\ UNCHANGED <<writers, networks, met>>
    BY <1>6, ZenonT(30) DEF ResumeGoodbye, Drained, registry, Others
  <2>2. i \in Clients /\ n \in Networks \cup {None} /\ P \in SUBSET Clients
    BY <1>0, <2>1 DEF HInv, TaskShape, TaskRecord, Members
  <2> HIDE DEF i, n, P
  <2> QED  BY <1>0, <2>1, <2>2, AnnounceRoster
<1>7. CASE ResumeGrant(c)
  <2>1. PICK r : r = IF writers[task[c].who] = None THEN Waiting("read")
                     ELSE [Waiting("reply") EXCEPT !.on = writers[task[c].who]]
    BY ZenonT(30)
  <2>2. r.at \in {"read", "reply"}
    BY <2>1 DEF Waiting
  <2>3. /\ task' = [task EXCEPT ![c] = r] /\ task[c].at = "grant"
        /\ UNCHANGED <<cid, roster, link, writers, networks, met>>
    BY <1>7, <2>1 DEF ResumeGrant, Drained, registry, Others
  <2> QED  BY <1>0, <1>1, <2>2, <2>3, QuietRoster, Zenon
<1>8. CASE RaiseInDispatch(c)
  <2>1. PICK r : r = [Waiting("error") EXCEPT !.on = c]
    BY Zenon
  <2>2. r.at = "error"
    BY <2>1 DEF Waiting
  <2>3. /\ task' = [task EXCEPT ![c] = r] /\ authed[c]
        /\ UNCHANGED <<cid, roster, link, writers, networks, met>>
    BY <1>8, <2>1 DEF RaiseInDispatch, registry, Others
  <2>4. task[c].at \notin {"register", "done"}
    BY <2>3 DEF HInv, TaskShape, RosterInv, Unnamed
  <2> QED  BY <1>0, <1>1, <2>2, <2>3, <2>4, QuietRoster, Zenon
<1>9. CASE RaiseInLoop(c)
  <2>1. Finally(c) /\ UNCHANGED <<networks, met>>
    BY <1>9 DEF RaiseInLoop, Others
  <2> QED  BY <2>1, FinallyRoster
<1>10. CASE RaiseInFinally(c)
  <2> DEFINE r == Waiting("done")
  <2>1. /\ task' = [task EXCEPT ![c] = r] /\ task'[c] = r /\ r.at = "done"
        /\ cid' = [cid EXCEPT ![c] = None] /\ task[c].at = "final"
        /\ UNCHANGED <<link, roster, writers, networks, met>>
    BY <1>0, <1>2, <1>10 DEF RaiseInFinally, registry, Others
  <2>2. \A j \in Clients : writers'[j] # c
    BY <2>1 DEF RosterInv, Unnamed
  <2> HIDE DEF r
  <2>3. Told(c)' /\ Unnamed(c)'
    BY <1>0, <2>1 DEF Told, Unnamed
  <2>4. MetInv' /\ Promises(r)' /\ met \subseteq met'
    BY <1>1, <2>1 DEF Promises
  <2>5. /\ \A d \in Conns \ {c} : cid'[d] = cid[d]
        /\ \A d \in Conns : link[d] = "closed" => link'[d] = "closed"
        /\ \A d \in Conns \ {c} : roster'[d] = roster[d]
        /\ \A j \in Clients : writers'[j] \in {writers[j], None} \cup ({c} \cap Conns)
    BY <1>0, <2>1
  <2> QED  BY <1>0, <2>1, <2>2, <2>3, <2>4, <2>5, RosterStep, ZenonT(30)
<1> QED  BY <1>3, <1>4, <1>5, <1>6, <1>7, <1>8, <1>9, <1>10 DEF ResumeStep

\* A task that goes on announcing.
LEMMA ResumeAnnounceRoster ==
    ASSUME HInv, SharedType, RosterInv, NEW t \in Tasks, ResumeAnnounce(t)
    PROVE  RosterInv'
<1> DEFINE r == task[t]
<1>1. /\ r.at \in AnnouncePhases /\ UNCHANGED <<writers, networks, met>>
      /\ Announce(t, r.at, r.who, r.net, r.peers, r.nets, online)
  BY Zenon DEF ResumeAnnounce, Drained, AnnouncePhases, registry, Others
<1>2. /\ r.who \in Clients /\ r.net \in Networks \cup {None}
      /\ r.peers \in SUBSET Clients /\ r.nets \in SUBSET Networks
  BY <1>1 DEF HInv, HandlersType, TaskShape, TaskRecord
<1>3. r.at = "online" => /\ \A p \in r.peers : <<r.net, p, r.who>> \in met
                         /\ \A m \in r.nets : <<m, r.who, r.who>> \in met
  BY DEF RosterInv, Promises
<1>4. /\ t \in Conns => r.at \notin {"register", "done"}
      /\ t \in Conns /\ r.at = "final" => \A j \in Clients : writers'[j] # t
  BY <1>1 DEF RosterInv, Unnamed, AnnouncePhases
<1>5. \A j \in Clients : writers'[j] \in {writers[j], None}
  BY <1>1
<1> HIDE DEF r
<1>6. task[t] = r
  BY DEF r
<1> QED  BY <1>1, <1>2, <1>3, <1>4, <1>5, <1>6, AnnounceRoster

\* A step that leaves the handlers, the writers and the memberships alone.
LEMMA StillRoster ==
    ASSUME SharedType, RosterInv, UNCHANGED <<cid, task, roster, writers, networks, met>>,
           \A d \in Conns : link[d] = "closed" => link'[d] = "closed"
    PROVE  RosterInv'
<1>1. /\ MetInv /\ \A c \in Conns : Told(c) /\ Unnamed(c)
      /\ \A i \in Clients : Wrote(i)
      /\ \A t \in Tasks : Promises(task[t])
  BY ZenonT(30) DEF RosterInv
<1>2. MetInv'
  BY <1>1, MetKept, ZenonT(30)
<1>3. ASSUME NEW c \in Conns PROVE Told(c)' /\ Unnamed(c)'
  BY <1>1 DEF Told, Unnamed, Owner
<1>4. ASSUME NEW i \in Clients PROVE Wrote(i)'
  BY <1>1, ConstantsAssumption, ZenonT(30) DEF Wrote, Owner, Gone, SharedType
<1>5. \A t \in Tasks : Promises(task[t])'
  BY <1>1, ZenonT(30) DEF Promises
<1> QED  BY <1>2, <1>3, <1>4, <1>5 DEF RosterInv

\* Every step keeps RosterInv.
LEMMA NextRoster ==
    ASSUME HInv, SharedType, RosterInv, [Next]_vars
    PROVE  RosterInv'
<1>0. /\ link \in [Conns -> {"free", "open", "ending", "closed"}] /\ Pruner \in Tasks
      /\ Pruner \notin Conns /\ MetInv /\ Waiting("dead").at = "dead"
  BY ConstantsAssumption DEF HInv, HandlersType, Tasks, RosterInv, Waiting
<1>1. ASSUME NEW c \in Conns, Accept(c) \/ Drop(c) PROVE RosterInv'
  <2>1. /\ UNCHANGED <<cid, task, roster, writers, networks, met>>
        /\ link[c] # "closed"
        /\ \A d \in Conns : link[d] = "closed" => link'[d] = "closed"
    BY <1>0, <1>1 DEF Accept, Drop, registry
  <2> QED  BY <2>1, StillRoster
<1>2. ASSUME NEW c \in Conns, EndOfStream(c) \/ Garbage(c) PROVE RosterInv'
  <2>1. Finally(c) /\ UNCHANGED <<networks, met>>
    BY <1>2 DEF EndOfStream, Garbage
  <2> QED  BY <2>1, FinallyRoster
<1>3. ASSUME NEW i \in Clients, ChallengeExpires(i) \/ Silence(i) PROVE RosterInv'
  <2>1. UNCHANGED <<cid, task, roster, writers, networks, met, link>>
    BY <1>3 DEF ChallengeExpires, Silence, handlers, registry, Unchanged
  <2> QED  BY <2>1, StillRoster
<1>4. CASE Prune
  <2>1. PICK i \in Clients : \E onl : Disconnect(Pruner, i, onl)
    BY <1>4 DEF Prune
  <2>2. UNCHANGED <<networks, met>>
    BY <1>4 DEF Prune
  <2> QED  BY <2>1, <2>2, PrunerRoster
<1>5. CASE PruneNext
  <2>1. PICK i \in Clients : Disconnect(Pruner, i, online)
    BY <1>5 DEF PruneNext, SharedType
  <2>2. UNCHANGED <<networks, met>>
    BY <1>5, Zenon DEF PruneNext
  <2> QED  BY <2>1, <2>2, PrunerRoster
<1>6. CASE RaiseInPrune \/ Shutdown
  <2>1. /\ task' = [task EXCEPT ![Pruner] = Waiting("dead")]
        /\ UNCHANGED <<cid, roster, networks, met>>
        /\ \A d \in Conns : link[d] = "closed" => link'[d] = "closed"
        /\ \A i \in Clients : writers'[i] \in {writers[i], None}
    BY <1>6 DEF RaiseInPrune, Shutdown, registry
  <2>2. met \subseteq met' /\ MetInv'
    BY <1>0, <2>1, MetKept
  <2> QED  BY <1>0, <2>1, <2>2, QuietRoster, Zenon
<1>7. CASE UNCHANGED vars
  <2>1. UNCHANGED <<cid, task, roster, writers, networks, met, link>>
    BY <1>7 DEF vars, handlers, registry
  <2> QED  BY <2>1, StillRoster
<1> QED  BY <1>1, <1>2, <1>3, <1>4, <1>5, <1>6, <1>7, MessageRoster, ResumeRoster,
            ResumeAnnounceRoster, ZenonT(30) DEF Next, TaskStep

\* RosterInv holds at the start.
LEMMA InitRoster == Init => RosterInv
<1> SUFFICES ASSUME Init PROVE RosterInv
  OBVIOUS
<1>1. /\ \A c \in Conns : roster[c] = {} /\ task[c] = Waiting("read") /\ c \in Tasks
      /\ \A i \in Clients : writers[i] = None /\ networks[i] = {}
      /\ \A t \in Tasks : task[t].at \in {"sleep", "read"}
  BY ConstantsAssumption, Zenon DEF Init, Tasks, Waiting
<1>2. \A c \in Conns : Told(c) /\ Unnamed(c)
  BY <1>1, Zenon DEF Told, Unnamed, Waiting
<1> QED  BY <1>1, <1>2 DEF RosterInv, MetInv, Wrote, Promises

\* A client is told only about peers of a network that it was in together with
\* them or after them: what _announce_peer_online still has to say, and to
\* whom, is justified whenever its task runs again (RosterInv).
THEOREM RosterHolds == Spec => []RosterJustified
<1>1. IInv => HInv /\ SharedType
  BY DEF IInv
<1>2. IInv /\ RosterInv => RosterJustified
  <2> SUFFICES ASSUME SharedType, RosterInv, NEW i \in Clients, writers[i] # None,
                      NEW e \in roster[writers[i]]
               PROVE  <<e[1], i, e[2]>> \in met
    BY DEF IInv, RosterJustified
  <2> DEFINE c == writers[i]
  <2>1. c \in Conns /\ None \notin Clients
    BY ConstantsAssumption DEF SharedType
  <2>2. Owner(c, i) /\ task[c].at # "done"
    BY <2>1, ConstantsAssumption DEF RosterInv, Wrote, Gone, Unnamed, Owner
  <2>3. PICK j \in Clients : Owner(c, j) /\ <<e[1], j, e[2]>> \in met
    BY <2>1, <2>2 DEF RosterInv, Told
  <2>4. j = i
    BY <2>1, <2>2, <2>3 DEF RosterInv, Unnamed, Owner
  <2> QED  BY <2>3, <2>4
<1>3. RosterInv /\ IInv /\ [Next]_vars => RosterInv'
  BY <1>1, NextRoster
<1> QED  BY Invariance, InitRoster, <1>2, <1>3, PTL DEF Spec

=============================================================================
