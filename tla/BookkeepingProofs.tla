------------------------- MODULE BookkeepingProofs --------------------------
(***************************************************************************)
(* Proofs about the tables that are kept in step by hand, for any sets of  *)
(* clients, networks, codes, services, borrowers, connections and keys:    *)
(* MembershipAgrees, CodesResolve and SpokesLearnHubOnly hold of           *)
(* NetworkManager, PoolExact of UpstreamPool, AnswersCurrent and           *)
(* MemorySound of DiskCache.                                               *)
(***************************************************************************)
EXTENDS NetworkManager, UpstreamPool, DiskCache, FiniteSetTheorems, TLAPS

\* The provers to try on a leaf that names none, and how long.
USE SMTT(30), ZenonT(30)

(***************************************************************************)
(* The network manager. The invariants are inductive together: an id that  *)
(* was never used (spent) belongs to no record, because CodesResolve leads *)
(* from a live network over its code to spent.                             *)
(***************************************************************************)

\* The inductive invariant.
IInv == TypeOK /\ MembershipAgrees /\ CodesResolve /\ RolesHeldByMembers

\* A live network's id has been used, so create() overwrites no record.
LEMMA LiveIsSpent ==
    ASSUME TypeOK, CodesResolve, NEW n \in NetIds, networks[n] # None
    PROVE  n \in spent
<1>1. inviteOf[n] \in Codes /\ netOf[inviteOf[n]] = n
  BY DEF TypeOK, CodesResolve, Live
<1>2. None \notin NetIds
  BY NoneAssumption
<1> QED
  BY <1>1, <1>2 DEF CodesResolve

\* The operations that touch neither networks, memberships nor codes.
Bookkeeping == <<networks, memberOf, inviteOf, netOf>>

\* The services and endpoint updates, which leave those four alone, keep the
\* agreement of the copies.
LEMMA OthersKeep ==
    ASSUME IInv, UNCHANGED Bookkeeping, spent \subseteq spent'
    PROVE  MembershipAgrees' /\ CodesResolve' /\ RolesHeldByMembers'
<1>1. MembershipAgrees'
  BY DEF IInv, MembershipAgrees, Bookkeeping
<1>2. CodesResolve'
  BY DEF IInv, CodesResolve, Bookkeeping, Live
<1>3. RolesHeldByMembers'
  BY DEF IInv, RolesHeldByMembers, Bookkeeping, Live
<1> QED
  BY <1>1, <1>2, <1>3

\* create() keeps the invariant: the new id is fresh, so no record, membership
\* or code refers to it yet.
LEMMA CreateKeeps ==
    ASSUME IInv, NEW i \in Clients, NEW n \in NetIds, NEW top \in Topologies, NEW k \in Codes,
           Create(i, n, top, k)
    PROVE  IInv'
<1> DEFINE r == [owner |-> i, topology |-> top, members |-> {i},
                 hub |-> IF top = "hub_and_spoke" THEN i ELSE None,
                 gateway |-> IF top = "gateway" THEN i ELSE None]
<1>1. None \notin Clients \cup NetIds \cup Codes
  BY NoneAssumption
<1>2. r \in NetworkRecord /\ r # None
  <2>1. r \in NetworkRecord
    BY <1>1 DEF NetworkRecord
  <2> QED
    BY <2>1, NoneIsNoRecord
<1>3. networks[n] = None
  BY LiveIsSpent DEF IInv, Create
<1>4. networks' = [networks EXCEPT ![n] = r]
  BY DEF Create
<1>5. TypeOK'
  BY <1>2, <1>4 DEF IInv, TypeOK, Create
<1>6. MembershipAgrees'
  <2>1. \A m \in NetIds : m # n => networks'[m] = networks[m]
    BY <1>4 DEF IInv, TypeOK
  <2>2. networks'[n] = r
    BY <1>4 DEF IInv, TypeOK
  <2>3. \A j \in Clients : n \notin memberOf[j]
    BY <1>3 DEF IInv, MembershipAgrees
  <2>4. \A j \in Clients :
          memberOf'[j] = IF j = i THEN memberOf[j] \cup {n} ELSE memberOf[j]
    BY Zenon DEF Create, IInv, TypeOK
  <2>5. r.members = {i}
    OBVIOUS
  <2> HIDE DEF r
  <2> SUFFICES ASSUME NEW j \in Clients, NEW m \in NetIds
               PROVE  m \in memberOf'[j] <=> networks'[m] # None /\ j \in networks'[m].members
    BY DEF MembershipAgrees
  <2>6. CASE m = n
    BY <1>2, <2>2, <2>3, <2>4, <2>5, <2>6, Zenon
  <2>7. CASE m # n
    <3>1. m \in memberOf'[j] <=> m \in memberOf[j]
      BY <2>4, <2>7, Zenon
    <3>2. networks'[m] = networks[m]
      BY <2>1, <2>7
    <3> QED
      BY <3>1, <3>2 DEF IInv, MembershipAgrees
  <2> QED
    BY <2>6, <2>7
<1>7. CodesResolve'
  BY <1>1, <1>2, <1>4 DEF IInv, CodesResolve, Create, Unused, TypeOK, Live
<1>8. RolesHeldByMembers'
  BY <1>1, <1>4 DEF IInv, RolesHeldByMembers, Live, TypeOK
<1> QED
  BY <1>5, <1>6, <1>7, <1>8 DEF IInv

\* What a record becomes without a client.
LEMMA WithoutFields ==
    ASSUME NEW r \in NetworkRecord, NEW i \in Clients
    PROVE  LET w == Without(r, i) IN
           /\ w \in NetworkRecord /\ w # None
           /\ w.members = r.members \ {i}
           /\ w.owner = r.owner /\ w.topology = r.topology
           /\ w.hub = IF r.hub = i THEN None ELSE r.hub
           /\ w.gateway = IF r.gateway = i THEN None ELSE r.gateway
<1>1. Without(r, i) \in NetworkRecord
  BY Zenon DEF Without, NetworkRecord
<1> QED
  BY <1>1, NoneIsNoRecord, Zenon DEF Without, NetworkRecord

\* join() adds the client to both copies of the membership.
LEMMA JoinKeeps ==
    ASSUME IInv, NEW i \in Clients, NEW n \in NetIds, Join(i, n)
    PROVE  IInv'
<1>1. networks[n] \in NetworkRecord
  BY DEF IInv, TypeOK, Join
<1> DEFINE r == [networks[n] EXCEPT !.members = @ \cup {i}]
<1>2. r \in NetworkRecord /\ r # None
  <2>1. r \in NetworkRecord
    BY <1>1 DEF NetworkRecord
  <2> QED
    BY <2>1, NoneIsNoRecord
<1>3. /\ r.members = networks[n].members \cup {i} /\ r.owner = networks[n].owner
      /\ r.topology = networks[n].topology /\ r.hub = networks[n].hub
      /\ r.gateway = networks[n].gateway
  BY <1>1 DEF NetworkRecord
<1>4. networks' = [networks EXCEPT ![n] = r]
  BY DEF Join
<1> HIDE DEF r
<1>5. networks'[n] = r /\ \A m \in NetIds : m # n => networks'[m] = networks[m]
  BY <1>4 DEF IInv, TypeOK
<1>6. TypeOK'
  BY <1>2, <1>4, ZenonT(30) DEF IInv, TypeOK, Join
<1>7. MembershipAgrees'
  <2>1. \A j \in Clients :
          memberOf'[j] = IF j = i THEN memberOf[j] \cup {n} ELSE memberOf[j]
    BY Zenon DEF Join, IInv, TypeOK
  <2> SUFFICES ASSUME NEW j \in Clients, NEW m \in NetIds
               PROVE  m \in memberOf'[j] <=> networks'[m] # None /\ j \in networks'[m].members
    BY DEF MembershipAgrees
  <2>2. m \in memberOf[j] <=> networks[m] # None /\ j \in networks[m].members
    BY DEF IInv, MembershipAgrees
  <2>3. CASE m = n
    BY <1>2, <1>3, <1>5, <2>1, <2>2, <2>3 DEF Join
  <2>4. CASE m # n
    BY <1>5, <2>1, <2>2, <2>4, Zenon
  <2> QED
    BY <2>3, <2>4
<1>8. CodesResolve'
  BY <1>2, <1>5 DEF IInv, CodesResolve, Join, Live
<1>9. RolesHeldByMembers'
  BY <1>2, <1>3, <1>5 DEF IInv, RolesHeldByMembers, Live, Join
<1> QED
  BY <1>6, <1>7, <1>8, <1>9 DEF IInv

\* leave() takes the client out of both copies and out of its role.
LEMMA LeaveKeeps ==
    ASSUME IInv, NEW i \in Clients, NEW n \in NetIds, Leave(i, n)
    PROVE  IInv'
<1>1. networks[n] \in NetworkRecord
  BY DEF IInv, TypeOK, Leave
<1> DEFINE w == Without(networks[n], i)
<1>2. /\ w \in NetworkRecord /\ w # None
      /\ w.members = networks[n].members \ {i}
      /\ w.owner = networks[n].owner /\ w.topology = networks[n].topology
      /\ w.hub = IF networks[n].hub = i THEN None ELSE networks[n].hub
      /\ w.gateway = IF networks[n].gateway = i THEN None ELSE networks[n].gateway
  BY <1>1, WithoutFields
<1>3. networks' = [networks EXCEPT ![n] = w]
  BY DEF Leave
<1> HIDE DEF w
<1>4. networks'[n] = w /\ \A m \in NetIds : m # n => networks'[m] = networks[m]
  BY <1>3 DEF IInv, TypeOK
<1>5. TypeOK'
  BY <1>2, <1>3 DEF IInv, TypeOK, Leave
<1>6. MembershipAgrees'
  <2>1. \A j \in Clients :
          memberOf'[j] = IF j = i THEN memberOf[j] \ {n} ELSE memberOf[j]
    BY Zenon DEF Leave, IInv, TypeOK
  <2> SUFFICES ASSUME NEW j \in Clients, NEW m \in NetIds
               PROVE  m \in memberOf'[j] <=> networks'[m] # None /\ j \in networks'[m].members
    BY DEF MembershipAgrees
  <2>2. m \in memberOf[j] <=> networks[m] # None /\ j \in networks[m].members
    BY DEF IInv, MembershipAgrees
  <2>3. CASE m = n
    BY <1>2, <1>4, <2>1, <2>2, <2>3 DEF Leave
  <2>4. CASE m # n
    BY <1>4, <2>1, <2>2, <2>4, Zenon
  <2> QED
    BY <2>3, <2>4
<1>7. CodesResolve'
  BY <1>2, <1>4 DEF IInv, CodesResolve, Leave, Live
<1>8. RolesHeldByMembers'
  BY <1>2, <1>4 DEF IInv, RolesHeldByMembers, Live, Leave
<1> QED
  BY <1>5, <1>6, <1>7, <1>8 DEF IInv

\* delete() takes the network from its members' records and its code from both
\* tables.
LEMMA DeleteKeeps ==
    ASSUME IInv, NEW i \in Clients, NEW n \in NetIds, Delete(i, n)
    PROVE  IInv'
<1>1. networks'[n] = None /\ \A m \in NetIds : m # n => networks'[m] = networks[m]
  BY DEF IInv, TypeOK, Delete
<1>2. TypeOK'
  BY DEF IInv, TypeOK, Delete
<1>3. MembershipAgrees'
  <2> SUFFICES ASSUME NEW j \in Clients, NEW m \in NetIds
               PROVE  m \in memberOf'[j] <=> networks'[m] # None /\ j \in networks'[m].members
    BY DEF MembershipAgrees
  <2>1. memberOf'[j] = IF j \in networks[n].members THEN memberOf[j] \ {n} ELSE memberOf[j]
    BY DEF Delete
  <2>2. m \in memberOf[j] <=> networks[m] # None /\ j \in networks[m].members
    BY DEF IInv, MembershipAgrees
  <2>3. CASE m = n
    BY <1>1, <2>1, <2>2, <2>3
  <2>4. CASE m # n
    BY <1>1, <2>1, <2>2, <2>4
  <2> QED
    BY <2>3, <2>4
<1>4. CodesResolve'
  <2>1. inviteOf[n] \in Codes /\ netOf[inviteOf[n]] = n
    BY DEF IInv, TypeOK, CodesResolve, Delete, Live
  <2>2. inviteOf'[n] = None /\ \A m \in NetIds : m # n => inviteOf'[m] = inviteOf[m]
    BY DEF IInv, TypeOK, Delete
  <2>3. \A k \in Codes : netOf'[k] = IF k = inviteOf[n] THEN None ELSE netOf[k]
    BY DEF Delete
  <2>4. \A m \in Live' : inviteOf'[m] # None /\ netOf'[inviteOf'[m]] = m
    BY <1>1, <2>1, <2>2, <2>3 DEF IInv, TypeOK, CodesResolve, Live
  <2>5. \A k \in Codes : netOf'[k] # None => netOf'[k] \in spent' /\ inviteOf'[netOf'[k]] = k
    BY <2>1, <2>2, <2>3 DEF IInv, TypeOK, CodesResolve, Delete
  <2> QED
    BY <2>4, <2>5 DEF CodesResolve
<1>5. RolesHeldByMembers'
  BY <1>1 DEF IInv, RolesHeldByMembers, Live
<1> QED
  BY <1>2, <1>3, <1>4, <1>5 DEF IInv

\* purge_client() does what leave() does for every network at once; a network
\* it empties goes, and its code stays in both tables.
LEMMA PurgeKeeps ==
    ASSUME IInv, NEW i \in Clients, PurgeClient(i)
    PROVE  IInv'
<1>1. \A m \in NetIds : networks[m] # None => networks[m] \in NetworkRecord
  BY DEF IInv, TypeOK
<1>2. \A m \in NetIds :
        \/ networks'[m] = networks[m] /\ (networks[m] = None \/ i \notin networks[m].members)
        \/ networks[m] # None /\ networks[m].members = {i} /\ networks'[m] = None
        \/ /\ networks[m] # None /\ i \in networks[m].members
           /\ networks'[m] = Without(networks[m], i)
  BY DEF PurgeClient
<1>3. TypeOK'
  <2>1. networks' \in [NetIds -> NetworkRecord \cup {None}]
    <3>1. networks' = [m \in NetIds |-> networks'[m]]
      BY DEF PurgeClient
    <3>2. \A m \in NetIds : networks'[m] \in NetworkRecord \cup {None}
      BY <1>1, <1>2, WithoutFields
    <3> QED
      BY <3>1, <3>2
  <2>2. memberOf' \in [Clients -> SUBSET NetIds]
    BY DEF IInv, TypeOK, PurgeClient
  <2>3. services' \in [ServiceIds -> ServiceRecord \cup {None}]
    BY DEF IInv, TypeOK, PurgeClient
  <2> QED
    BY <2>1, <2>2, <2>3 DEF IInv, TypeOK, PurgeClient
<1>4. MembershipAgrees'
  <2> SUFFICES ASSUME NEW j \in Clients, NEW m \in NetIds
               PROVE  m \in memberOf'[j] <=> networks'[m] # None /\ j \in networks'[m].members
    BY DEF MembershipAgrees
  <2>1. m \in memberOf[j] <=> networks[m] # None /\ j \in networks[m].members
    BY DEF IInv, MembershipAgrees
  <2>2. m \in memberOf'[j] <=> m \in memberOf[j] /\ j # i
    BY <2>1 DEF IInv, TypeOK, PurgeClient, Live
  <2>3. CASE networks'[m] = networks[m] /\ (networks[m] = None \/ i \notin networks[m].members)
    BY <2>1, <2>2, <2>3
  <2>4. CASE networks[m] # None /\ networks[m].members = {i} /\ networks'[m] = None
    BY <2>1, <2>2, <2>4
  <2>5. CASE /\ networks[m] # None /\ i \in networks[m].members
             /\ networks'[m] = Without(networks[m], i)
    <3>1. networks'[m] # None /\ networks'[m].members = networks[m].members \ {i}
      BY <1>1, <2>5, WithoutFields
    <3> QED
      BY <2>1, <2>2, <2>5, <3>1
  <2> QED
    BY <1>2, <2>3, <2>4, <2>5
<1>5. CodesResolve'
  <2>1. Live' \subseteq Live
    BY <1>2 DEF Live
  <2> QED
    BY <2>1 DEF IInv, CodesResolve, PurgeClient
<1>6. RolesHeldByMembers'
  <2> SUFFICES ASSUME NEW m \in NetIds, networks'[m] # None
               PROVE  LET r == networks'[m] IN
                      /\ r.hub # None => /\ r.topology = "hub_and_spoke"
                                         /\ r.hub = r.owner /\ r.hub \in r.members
                      /\ r.gateway # None => /\ r.topology = "gateway"
                                             /\ r.gateway = r.owner /\ r.gateway \in r.members
    BY DEF RolesHeldByMembers, Live
  <2>1. CASE networks'[m] = networks[m]
    BY <2>1 DEF IInv, RolesHeldByMembers, Live
  <2>2. CASE networks[m] # None /\ networks'[m] = Without(networks[m], i)
    BY <1>1, <2>2, WithoutFields DEF IInv, RolesHeldByMembers, Live
  <2> QED
    BY <1>2, <2>1, <2>2
<1> QED
  BY <1>3, <1>4, <1>5, <1>6 DEF IInv

-----------------------------------------------------------------------------

\* The empty manager satisfies the invariant.
LEMMA InitIInv == Init => IInv
  BY NoneAssumption DEF Init, IInv, TypeOK, MembershipAgrees, CodesResolve, RolesHeldByMembers, Live

\* Every operation keeps the invariant.
LEMMA NextIInv ==
    ASSUME IInv, [Next]_vars
    PROVE  IInv'
<1>1. ASSUME NEW i \in Clients, NEW n \in NetIds, NEW top \in Topologies, NEW k \in Codes,
             Create(i, n, top, k)
      PROVE  IInv'
  BY <1>1, CreateKeeps
<1>2. ASSUME NEW i \in Clients, NEW n \in NetIds, Join(i, n)
      PROVE  IInv'
  BY <1>2, JoinKeeps
<1>3. ASSUME NEW i \in Clients, NEW k \in Codes, JoinByInviteCode(i, k)
      PROVE  IInv'
  <2>1. PICK n \in NetIds : n = netOf[k] /\ Join(i, n)
    BY <1>3 DEF JoinByInviteCode, IInv, TypeOK
  <2> QED
    BY <2>1, JoinKeeps
<1>4. ASSUME NEW i \in Clients, NEW n \in NetIds, Leave(i, n)
      PROVE  IInv'
  BY <1>4, LeaveKeeps
<1>5. ASSUME NEW i \in Clients, NEW n \in NetIds, Delete(i, n)
      PROVE  IInv'
  BY <1>5, DeleteKeeps
<1>6. ASSUME NEW i \in Clients, PurgeClient(i)
      PROVE  IInv'
  BY <1>6, PurgeKeeps
<1>7. ASSUME NEW i \in Clients, NEW n \in NetIds, NEW s \in ServiceIds, ExposeService(i, n, s)
      PROVE  IInv'
  <2>1. TypeOK'
    BY <1>7 DEF IInv, TypeOK, ExposeService, Exposed, ServiceRecord
  <2> QED
    BY <1>7, <2>1, OthersKeep DEF IInv, ExposeService, Bookkeeping
<1>8. ASSUME NEW i \in Clients, NEW s \in ServiceIds, UnexposeService(i, s)
      PROVE  IInv'
  <2>1. TypeOK'
    BY <1>8 DEF IInv, TypeOK, UnexposeService
  <2> QED
    BY <1>8, <2>1, OthersKeep DEF IInv, UnexposeService, Bookkeeping
<1>9. ASSUME NEW n \in NetIds, NEW s \in ServiceIds, RemoveService(n, s)
      PROVE  IInv'
  <2>1. TypeOK'
    BY <1>9 DEF IInv, TypeOK, RemoveService
  <2> QED
    BY <1>9, <2>1, OthersKeep DEF IInv, RemoveService, Bookkeeping
<1>10. ASSUME NEW i \in Clients, PurgeClientServices(i)
       PROVE  IInv'
  <2>1. TypeOK'
    BY <1>10 DEF IInv, TypeOK, PurgeClientServices
  <2> QED
    BY <1>10, <2>1, OthersKeep DEF IInv, PurgeClientServices, Bookkeeping
<1>11. ASSUME NEW i \in Clients, ComesUp(i) \/ GoesDown(i)
       PROVE  IInv'
  <2>1. TypeOK'
    BY <1>11 DEF IInv, TypeOK, ComesUp, GoesDown
  <2> QED
    BY <1>11, <2>1, OthersKeep DEF IInv, ComesUp, GoesDown, Bookkeeping
<1>12. CASE UNCHANGED vars
  <2>1. TypeOK'
    BY <1>12 DEF IInv, TypeOK, vars
  <2> QED
    BY <1>12, <2>1, OthersKeep DEF IInv, vars, Bookkeeping
<1> QED
  BY <1>1, <1>2, <1>3, <1>4, <1>5, <1>6, <1>7, <1>8, <1>9, <1>10, <1>11, <1>12 DEF Next

\* The invariant holds in every state of the network manager, for every
\* sequence of operations.
THEOREM Invariance == Spec => []IInv
<1>1. Init => IInv
  BY InitIInv
<1>2. IInv /\ [Next]_vars => IInv'
  BY NextIInv
<1> QED
  BY <1>1, <1>2, PTL DEF Spec

\* The two copies of the membership, in the networks' records and in the
\* registry, agree whatever clients create, join, leave, delete and purge.
THEOREM MembershipHolds == Spec => []MembershipAgrees
<1>1. IInv => MembershipAgrees
  BY DEF IInv
<1> QED
  BY <1>1, Invariance, PTL

\* Every network is reached by its invite code and by no other network's,
\* although purge_client leaves codes of deleted networks behind.
THEOREM CodesHold == Spec => []CodesResolve
<1>1. IInv => CodesResolve
  BY DEF IInv
<1> QED
  BY <1>1, Invariance, PTL

\* In hub-and-spoke networks _on_request_peer_conn hands out the endpoint of
\* the owner only, over any changes of membership and role.
THEOREM SpokesHold == Spec => []SpokesLearnHubOnly
<1>1. IInv => SpokesLearnHubOnly
  <2> SUFFICES ASSUME IInv, NEW i \in Clients, NEW j \in Clients,
                      \A n \in Candidates(i, j) : networks[n].topology = "hub_and_spoke",
                      TRUE \in PeerConnAnswers(i, j)
               PROVE  \E n \in memberOf[i] \cap memberOf[j] : networks[n].owner = j
    BY Zenon DEF SpokesLearnHubOnly
  <2>1. PICK n \in Candidates(i, j) : SharedEndpoint(n, i, j) = TRUE
    BY Zenon DEF PeerConnAnswers
  <2>2. n \in NetIds /\ n \in memberOf[i] /\ networks[n] # None /\ j \in networks[n].members
    BY DEF Candidates, IInv, TypeOK
  <2>3. networks[n].topology = "hub_and_spoke" /\ networks[n].hub = j
    BY <2>1 DEF SharedEndpoint
  <2>4. networks[n].owner = j
    BY <2>2, <2>3, NoneAssumption DEF IInv, RolesHeldByMembers, Live
  <2>5. n \in memberOf[j]
    BY <2>2 DEF IInv, MembershipAgrees
  <2> QED
    BY <2>2, <2>4, <2>5
<1> QED
  BY <1>1, Invariance, PTL

-----------------------------------------------------------------------------
(***************************************************************************)
(* The pool. PoolExact is inductive only together with what the pool and   *)
(* the borrowers can refer to: a connection just opened is one nobody has  *)
(* held and the pool has not had.                                          *)
(***************************************************************************)

\* The pool and the borrowers know only connections that were opened, and a
\* borrower holds none while it waits for one.
PoolKnown ==
    /\ holds \in [Borrowers -> Pooled \cup {NoConn}]
    /\ opened \subseteq Pooled
    /\ pool \subseteq opened
    /\ \A b \in Borrowers : holds[b] # NoConn => holds[b] \in opened
    /\ opening \subseteq Borrowers /\ \A b \in opening : holds[b] = NoConn

PoolInv == PoolKnown /\ PoolExact

-----------------------------------------------------------------------------

\* The pool starts empty.
LEMMA InitPool == PoolInit => PoolInv
BY DEF PoolInit, PoolInv, PoolKnown, PoolExact

\* get_connection with an idle connection: in_use of it is false, so nobody holds it.
LEMMA ReusePool ==
    ASSUME NoConn \notin Pooled, PoolInv, NEW b \in Borrowers, NEW c \in Pooled, Reuse(b, c)
    PROVE  PoolInv'
<1>1. PoolKnown'
  BY DEF PoolInv, PoolKnown, Reuse, Idle
<1>2. \A d \in Borrowers : holds[d] # c
  BY DEF PoolInv, PoolKnown, PoolExact, Reuse, Idle
<1>3. PoolExact'
  BY <1>2 DEF PoolInv, PoolKnown, PoolExact, Reuse, Idle
<1> QED  BY <1>1, <1>3 DEF PoolInv

\* get_connection with a new one, whatever happened to the pool since it was begun.
LEMMA OpenedPool ==
    ASSUME NoConn \notin Pooled, PoolInv, NEW b \in Borrowers, NEW c \in Pooled, Opened(b, c)
    PROVE  PoolInv'
<1>1. PoolKnown'
  BY DEF PoolInv, PoolKnown, Opened
<1>2. \A d \in Borrowers : holds[d] # c
  BY DEF PoolInv, PoolKnown, Opened
<1>3. PoolExact'
  BY <1>2 DEF PoolInv, PoolKnown, PoolExact, Opened
<1> QED  BY <1>1, <1>3 DEF PoolInv

\* release and close_connection: nobody else holds the connection given back.
LEMMA GiveBackPool ==
    ASSUME NoConn \notin Pooled, PoolInv, NEW b \in Borrowers, Release(b) \/ CloseConnection(b)
    PROVE  PoolInv'
<1>1. PoolKnown'
  BY DEF PoolInv, PoolKnown, Release, CloseConnection
<1>2. \A d \in Borrowers : d # b => holds[d] # holds[b]
  BY DEF PoolInv, PoolExact, Release, CloseConnection
<1>3. CASE Release(b)
  <2>1. holds[b] \notin pool => live' = live /\ inUse' = inUse
    BY <1>3 DEF PoolInv, PoolKnown, PoolExact, Release
  <2>2. live' = pool'
    BY <1>3, <2>1 DEF PoolInv, PoolExact, Release
  <2>3. inUse' = inUse \ {holds[b]}
    BY <1>3, <2>1 DEF PoolInv, PoolExact, Release
  <2>4. inUse' = {c \in pool' : \E d \in Borrowers : holds'[d] = c}
    BY <1>2, <1>3, <2>3 DEF PoolInv, PoolKnown, PoolExact, Release
  <2>5. PoolExact'
    BY <1>3, <2>2, <2>4 DEF PoolInv, PoolKnown, PoolExact, Release
  <2> QED  BY <1>1, <2>5 DEF PoolInv
<1>4. CASE CloseConnection(b)
  <2>1. inUse' = {c \in pool' : \E d \in Borrowers : holds'[d] = c}
    BY <1>2, <1>4 DEF PoolInv, PoolKnown, PoolExact, CloseConnection
  <2>2. PoolExact'
    BY <1>4, <2>1 DEF PoolInv, PoolKnown, PoolExact, CloseConnection
  <2> QED  BY <1>1, <2>2 DEF PoolInv
<1> QED  BY <1>3, <1>4

\* prune_idle takes only connections nobody holds; shutdown takes all of them
\* from the pool, and leaves to their borrowers connections it does not know.
LEMMA CleanUpPool ==
    ASSUME PoolInv, PruneIdle \/ Shutdown
    PROVE  PoolInv'
<1>1. PoolKnown'
  BY DEF PoolInv, PoolKnown, PruneIdle, Shutdown
<1>2. CASE PruneIdle
  BY <1>1, <1>2 DEF PoolInv, PoolExact, PruneIdle, Idle
<1>3. CASE Shutdown
  BY <1>1, <1>3 DEF PoolInv, PoolExact, Shutdown
<1> QED  BY <1>2, <1>3

\* Every step keeps the inductive invariant.
LEMMA NextPool ==
    ASSUME NoConn \notin Pooled, PoolInv, [PoolNext]_poolVars
    PROVE  PoolInv'
<1>1. CASE \E b \in Borrowers : Open(b) \/ OpenFails(b)
  BY <1>1 DEF PoolInv, PoolKnown, PoolExact, Open, OpenFails
<1>2. CASE \E c \in Pooled : Ages(c)
  BY <1>2 DEF PoolInv, PoolKnown, PoolExact, Ages
<1>3. CASE UNCHANGED poolVars
  BY <1>3 DEF PoolInv, PoolKnown, PoolExact, poolVars
<1> QED
  BY <1>1, <1>2, <1>3, ReusePool, OpenedPool, GiveBackPool, CleanUpPool DEF PoolNext

-----------------------------------------------------------------------------

\* PoolExact, for every set of borrowers and of connections: a connection has one
\* borrower, in_use marks exactly the borrowed ones, and no open connection is
\* outside the pool (get_connection, release, close_connection, prune_idle, shutdown).
THEOREM PoolAlwaysExact == PoolSpec => []PoolExact
<1>1. PoolInv /\ [PoolNext]_poolVars => PoolInv'
  BY NextPool, PoolAssumption
<1>2. PoolInv => PoolExact
  BY DEF PoolInv
<1> QED  BY InitPool, <1>1, <1>2, PTL DEF PoolSpec

-----------------------------------------------------------------------------
(***************************************************************************)
(* The cache. AnswersCurrent needs to know how the memory index and the    *)
(* files move together when a write is torn; MemorySound that eviction     *)
(* stops only when what is left fits, which is counted over the entries    *)
(* that remain.                                                            *)
(***************************************************************************)

Responses == [key : Keys, size : Sizes]
Written == {"whole", "none", "torn", "short"}

CacheTyped ==
    /\ stored \in Seq(Responses)
    /\ entries \in [Keys -> Nat] /\ completed \in [Keys -> Nat]
    /\ disk \in [Keys -> [id : Nat, part : Written]]

\* The entry of a key is the last response stored without an error, and has a
\* file; the file is of that response or of a later one, later if it is cut.
InStep(k) ==
    /\ entries[k] # 0 => entries[k] = completed[k] /\ disk[k].part # "none"
    /\ completed[k] # 0 => completed[k] \in 1 .. Len(stored) /\ stored[completed[k]].key = k
    /\ disk[k].part # "none" =>
         disk[k].id \in 1 .. Len(stored) /\ stored[disk[k].id].key = k /\ disk[k].id >= completed[k]
    /\ disk[k].part \in {"torn", "short"} => disk[k].id > completed[k]

CacheInv == CacheTyped /\ (\A k \in Keys : InStep(k)) /\ AnswersCurrent

\* Nothing is stored at first.
LEMMA InitCache == CacheInit => CacheInv
BY DEF CacheInit, CacheInv, CacheTyped, InStep, AnswersCurrent, NoFile, Written

\* A key whose response stays the last one may lose its entry, and without the entry its file.
LEMMA StaysInStep ==
    ASSUME NEW j \in Keys, InStep(j), completed[j] \in Nat, disk[j].id \in Nat,
           \A n \in 1 .. Len(stored) : n \in 1 .. Len(stored') /\ stored'[n] = stored[n],
           completed'[j] = completed[j], entries'[j] \in {0, entries[j]},
           disk'[j] = disk[j] \/ (disk'[j] = NoFile /\ entries'[j] = 0)
    PROVE  InStep(j)'
<1>1. CASE disk'[j] = disk[j]
  BY <1>1 DEF InStep
<1>2. CASE disk'[j] = NoFile /\ entries'[j] = 0
  BY <1>2 DEF InStep, NoFile
<1> QED  BY <1>1, <1>2

\* A key whose file is of a later response: the last one stored, if that is the entry's too.
LEMMA NewInStep ==
    ASSUME NEW j \in Keys, NEW n \in Nat \ {0}, NEW m \in Nat, NEW c \in Nat, Len(stored') = m,
           n <= m, stored'[n].key = j, disk'[j].id = n, disk'[j].part # "none", completed'[j] = c,
           c # 0 => stored'[c].key = j, entries'[j] \in {0, c}, c < n \/ (c = n /\ disk'[j].part = "whole")
    PROVE  InStep(j)'
<1>1. c # 0 => c \in 1 .. Len(stored')
  OBVIOUS
<1>2. n \in 1 .. Len(stored') /\ n >= c
  OBVIOUS
<1>3. disk'[j].part \in {"torn", "short"} => n > c
  OBVIOUS
<1> QED  BY <1>1, <1>2, <1>3 DEF InStep

\* store(): the new response is later than any other.
LEMMA StoreCache ==
    ASSUME CacheInv, NEW k \in Keys, NEW sz \in Sizes, NEW part \in Written,
           NEW gone \in SUBSET Keys, NEW stuck \in SUBSET Keys,
           Store(k, sz, part, gone, stuck)
    PROVE  CacheInv'
<1> DEFINE id == Len(stored) + 1
           r == [key |-> k, size |-> sz]
<1>1. /\ stored' = Append(stored, r) /\ r \in Responses /\ stored \in Seq(Responses)
      /\ entries' = [j \in Keys |-> IF j = k /\ part = "whole" THEN id
                                    ELSE IF j \in gone THEN 0 ELSE entries[j]]
      /\ completed' = [j \in Keys |-> IF j = k /\ part = "whole" THEN id ELSE completed[j]]
      /\ disk' = [j \in Keys |-> IF j = k /\ part # "none" THEN [id |-> id, part |-> part]
                                 ELSE IF j \in gone \ stuck THEN NoFile ELSE disk[j]]
      /\ answer' = NoAnswer
  BY Zenon DEF Store, Forgotten, CacheInv, CacheTyped, Responses, Written
<1>2. /\ Len(stored) \in Nat /\ id \in Nat /\ Len(stored') = id /\ stored' \in Seq(Responses)
      /\ stored'[id] = r /\ r.key = k
      /\ \A n \in 1 .. Len(stored) : stored'[n] = stored[n] /\ n \in 1 .. id /\ n < id
      /\ id \in 1 .. id
  BY <1>1
<1>3. CacheTyped'
  BY <1>1, <1>2 DEF CacheInv, CacheTyped, NoFile, Written
<1> HIDE DEF id, r
<1>4. ASSUME NEW j \in Keys PROVE InStep(j)'
  <2>0. InStep(j) /\ completed[j] \in Nat /\ entries[j] \in Nat /\ disk[j].id \in Nat
    BY DEF CacheInv, CacheTyped
  <2>1. CASE j # k \/ part = "none"
    <3>1. /\ entries'[j] = IF j \in gone THEN 0 ELSE entries[j]
          /\ completed'[j] = completed[j]
          /\ disk'[j] = IF j \in gone \ stuck THEN NoFile ELSE disk[j]
      BY <1>1, <2>1
    <3>2. \A n \in 1 .. Len(stored) : n \in 1 .. Len(stored') /\ stored'[n] = stored[n]
      BY <1>2
    <3> QED  BY <2>0, <3>1, <3>2, StaysInStep, Zenon
  <2>2. CASE j = k /\ part = "whole"
    <3>1. entries'[j] = id /\ completed'[j] = id /\ disk'[j] = [id |-> id, part |-> "whole"]
      BY <1>1, <2>2
    <3>2. disk'[j].id = id /\ disk'[j].part = "whole" /\ id # 0 /\ id <= id /\ stored'[id].key = j
      BY <1>2, <2>2, <3>1
    <3>3. id \in Nat \ {0} /\ id \in Nat /\ Len(stored') = id
      BY <1>2, <3>2
    <3> QED  BY <3>1, <3>2, <3>3, NewInStep, ZenonT(30)
  <2>3. CASE j = k /\ part \in {"torn", "short"}
    <3>1. /\ entries'[j] = IF j \in gone THEN 0 ELSE entries[j]
          /\ completed'[j] = completed[j]
          /\ disk'[j].id = id /\ disk'[j].part = part
      BY <1>1, <2>3
    <3>2. id # 0 /\ id <= id /\ stored'[id].key = j /\ disk'[j].part # "none"
      BY <1>2, <2>3, <3>1
    <3>3. entries'[j] \in {0, completed[j]}
      BY <2>0, <3>1 DEF InStep
    <3>4. completed[j] # 0 => completed[j] < id /\ stored'[completed[j]].key = j
      BY <1>2, <2>0 DEF InStep
    <3>5. completed[j] < id
      BY <1>2, <3>4
    <3>6. id \in Nat \ {0} /\ id \in Nat /\ Len(stored') = id /\ completed[j] \in Nat
      BY <1>2, <2>0, <3>2
    <3> QED  BY <3>1, <3>2, <3>3, <3>4, <3>5, <3>6, NewInStep, ZenonT(30)
  <2> QED  BY <2>1, <2>2, <2>3 DEF Written
<1>5. AnswersCurrent'
  BY <1>1 DEF AnswersCurrent
<1> QED  BY <1>3, <1>4, <1>5 DEF CacheInv

\* _remove: the entry goes, and then or not the file.
LEMMA RemovedCache ==
    ASSUME CacheInv, NEW keys \in SUBSET Keys, NEW stuck \in SUBSET Keys, Removed(keys, stuck),
           answer' = NoAnswer, UNCHANGED <<stored, expired, completed>>
    PROVE  CacheInv'
<1>1. \A j \in Keys : /\ entries'[j] = IF j \in keys THEN 0 ELSE entries[j]
                      /\ disk'[j] = IF j \in keys \ stuck THEN NoFile ELSE disk[j]
  BY DEF Removed, Forgotten
<1>2. CacheTyped'
  BY DEF CacheInv, CacheTyped, Removed, Forgotten, NoFile, Written
<1>3. ASSUME NEW j \in Keys PROVE InStep(j)'
  <2>1. InStep(j) /\ completed[j] \in Nat /\ disk[j].id \in Nat
    BY DEF CacheInv, CacheTyped
  <2> QED  BY <1>1, <2>1, StaysInStep
<1> QED  BY <1>2, <1>3 DEF CacheInv, AnswersCurrent

\* retrieve(): from memory, the last response stored; from the disk, that or a later one.
LEMMA RetrieveCache ==
    ASSUME CacheInv, NEW k \in Keys, RetrieveEntry(k) \/ RetrieveFile(k)
    PROVE  CacheInv'
<1>0. InStep(k) /\ CacheTyped
  BY DEF CacheInv
<1>1. CASE RetrieveEntry(k)
  <2>1. CASE entries[k] \in expired
    <3>1. PICK stuck \in SUBSET {k} : Removed({k}, stuck)
      BY <1>1, <2>1 DEF RetrieveEntry
    <3> QED  BY <1>1, <2>1, <3>1, RemovedCache DEF RetrieveEntry
  <2>2. CASE entries[k] \notin expired
    <3>1. /\ answer' = [key |-> k, id |-> entries[k], part |-> "whole"]
          /\ UNCHANGED <<entries, disk, stored, expired, completed>> /\ entries[k] # 0
      BY <1>1, <2>2 DEF RetrieveEntry
    <3>2. AnswersCurrent'
      BY <1>0, <2>2, <3>1 DEF AnswersCurrent, InStep, CacheTyped
    <3> QED  BY <3>1, <3>2 DEF CacheInv, CacheTyped, InStep
  <2> QED  BY <2>1, <2>2
<1>2. CASE RetrieveFile(k)
  <2>1. UNCHANGED <<entries, stored, expired, completed>> /\ entries[k] = 0
    BY <1>2 DEF RetrieveFile
  <2>2. disk' = disk \/ disk' = [disk EXCEPT ![k] = NoFile]
    BY <1>2 DEF RetrieveFile
  <2>3. CacheTyped'
    <3>1. NoFile \in [id : Nat, part : Written]
      BY DEF NoFile, Written
    <3> QED  BY <2>1, <2>2, <3>1, Zenon DEF CacheInv, CacheTyped
  <2>4. ASSUME NEW j \in Keys PROVE InStep(j)'
    <3>1. InStep(j) /\ completed[j] \in Nat /\ disk[j].id \in Nat
      BY DEF CacheInv, CacheTyped
    <3>2. disk'[j] = disk[j] \/ (disk'[j] = NoFile /\ entries'[j] = 0)
      BY <2>1, <2>2 DEF CacheInv, CacheTyped
    <3> QED  BY <2>1, <3>1, <3>2, StaysInStep
  <2>5. AnswersCurrent'
    <3>1. CASE answer' = NoAnswer
      BY <3>1 DEF AnswersCurrent
    <3>2. CASE answer' # NoAnswer
      <4>1. /\ disk[k].part \in {"short", "whole"} /\ disk[k].id \notin expired
            /\ answer' = [key |-> k, id |-> disk[k].id, part |-> disk[k].part]
        BY <1>2, <3>2 DEF RetrieveFile
      <4> QED  BY <1>0, <2>1, <4>1 DEF AnswersCurrent, InStep
    <3> QED  BY <3>1, <3>2
  <2> QED  BY <2>3, <2>4, <2>5 DEF CacheInv
<1> QED  BY <1>1, <1>2

\* The other steps forget entries or pass time.
LEMMA OtherCache ==
    ASSUME CacheInv, \/ \E keys \in SUBSET Keys : Purge(keys)
                     \/ \E id \in 1 .. MaxStores : Expire(id)
                     \/ Restart
    PROVE  CacheInv'
<1>1. ASSUME NEW keys \in SUBSET Keys, Purge(keys) PROVE CacheInv'
  <2>1. PICK stuck \in SUBSET {k \in keys : entries[k] # 0} :
          Removed({k \in keys : entries[k] # 0}, stuck)
    BY <1>1, Zenon DEF Purge
  <2> QED  BY <1>1, <2>1, RemovedCache DEF Purge
<1>2. ASSUME NEW id \in 1 .. MaxStores, Expire(id) PROVE CacheInv'
  BY <1>2 DEF Expire, CacheInv, CacheTyped, InStep, AnswersCurrent
<1>3. CASE Restart
  <2>1. /\ entries' = [k \in Keys |-> 0] /\ answer' = NoAnswer
        /\ UNCHANGED <<stored, disk, expired, completed>>
    BY <1>3 DEF Restart
  <2>2. \A j \in Keys : InStep(j)'
    BY <2>1 DEF CacheInv, InStep
  <2> QED  BY <2>1, <2>2 DEF CacheInv, CacheTyped, AnswersCurrent
<1> QED  BY <1>1, <1>2, <1>3

\* Every step keeps the inductive invariant.
LEMMA NextCache == CacheInv /\ [CacheNext]_cacheVars => CacheInv'
<1>1. CacheInv /\ UNCHANGED cacheVars => CacheInv'
  BY DEF cacheVars, CacheInv, CacheTyped, InStep, AnswersCurrent
<1> QED  BY <1>1, StoreCache, RetrieveCache, OtherCache DEF CacheNext, Written

\* AnswersCurrent, for any number of keys, sizes and calls, failed writes, stuck
\* files and restarts: retrieve() answers with a response of that key in its ttl
\* and not older than the last one stored (store, retrieve, _remove).
THEOREM AnswersAlwaysCurrent == CacheSpec => []AnswersCurrent
<1>1. CacheInv => AnswersCurrent
  BY DEF CacheInv
<1> QED  BY InitCache, NextCache, <1>1, PTL DEF CacheSpec

-----------------------------------------------------------------------------

\* _current_size is not below the bytes in memory, and these fit, or are one body's.
SizeInv ==
    /\ IsFiniteSet(Bytes(Held)) /\ size \in Nat
    /\ Total <= size
    /\ Total <= MaxSize \/ Cardinality(Held) = 1

\* The bytes of some keys, one by one.
LEMMA InBytes ==
    ASSUME NEW keys, NEW x
    PROVE  x \in Bytes(keys) <=> \E k \in keys \cap Held : x \in {k} \X (1 .. SizeOf(entries[k]))
BY DEF Bytes

\* What keys give up and what the others keep are the bytes there were.
LEMMA BytesKept ==
    ASSUME SizeInv, NEW keys \in SUBSET Keys
    PROVE  /\ IsFiniteSet(Bytes(Held \ keys))
           /\ Cardinality(Bytes(Held \ keys)) \in Nat
           /\ Cardinality(Bytes(Held \ keys)) <= Total
           /\ Cardinality(Bytes(Held \ keys)) <= SizeWithout(keys)
           /\ SizeWithout(keys) \in Nat
<1> DEFINE A == Bytes(keys)
           B == Bytes(Held \ keys)
<1>1. Bytes(Held) = A \cup B
  BY InBytes
<1>2. A \cap B = {}
  BY InBytes
<1>3. IsFiniteSet(A) /\ IsFiniteSet(B)
  BY <1>1, FS_Subset, Zenon DEF SizeInv
<1>4. Total = Cardinality(A) + Cardinality(B) /\ Cardinality(A) \in Nat /\ Cardinality(B) \in Nat
  <2>1. Cardinality(A \cup B) = Cardinality(A) + Cardinality(B) - Cardinality(A \cap B)
    BY <1>3, FS_Union
  <2>2. Cardinality(A \cap B) = 0
    BY <1>2, FS_EmptySet
  <2> QED  BY <1>1, <1>3, <2>1, <2>2, FS_CardinalityType DEF Total
<1> HIDE DEF A, B
<1>5. Total <= size /\ size \in Nat
  BY DEF SizeInv
<1>6. SizeWithout(keys) = IF size > Cardinality(A) THEN size - Cardinality(A) ELSE 0
  BY DEF SizeWithout, A
<1>7. SizeWithout(keys) \in Nat /\ Cardinality(B) <= SizeWithout(keys) /\ Cardinality(B) <= Total
  BY <1>4, <1>5, <1>6
<1> QED  BY <1>3, <1>4, <1>7 DEF B

\* The response of an entry stays the same when another is stored.
LEMMA SameSize ==
    ASSUME CacheInv, NEW keys \in SUBSET Keys, NEW k \in Held \ keys, Held' \subseteq Keys,
           \/ stored' = stored
           \/ \E r \in Responses : stored' = Append(stored, r),
           entries'[k] = entries[k]
    PROVE  SizeOf(entries[k])' = SizeOf(entries[k])
<1>1. k \in Keys /\ entries[k] \in 1 .. Len(stored) /\ stored \in Seq(Responses)
  BY DEF CacheInv, CacheTyped, InStep, Held
<1>2. stored'[entries[k]] = stored[entries[k]]
  BY <1>1
<1> QED  BY <1>2 DEF SizeOf

\* Removing keys, and nothing more, keeps the sizes sound.
LEMMA RemovedSize ==
    ASSUME CacheInv, SizeInv, NEW keys \in SUBSET Keys,
           entries' = Forgotten(entries, keys, 0), size' = SizeWithout(keys),
           \/ stored' = stored
           \/ \E r \in Responses : stored' = Append(stored, r)
    PROVE  SizeInv'
<1>1. Held' = Held \ keys
  BY DEF Held, Forgotten
<1>2. \A k \in Held \ keys : entries'[k] = entries[k] /\ SizeOf(entries[k])' = SizeOf(entries[k])
  BY <1>1, SameSize DEF Held, Forgotten
<1>3. Bytes(Held)' = Bytes(Held \ keys)
  BY <1>1, <1>2 DEF Bytes
<1>4. IsFiniteSet(Bytes(Held)') /\ size' \in Nat /\ Total' <= size' /\ Total' <= Total /\ Total' \in Nat
  BY <1>3, BytesKept DEF Total
<1>5. ASSUME Cardinality(Held) = 1 PROVE Total' <= MaxSize \/ Cardinality(Held)' = 1
  <2>1. IsFiniteSet(Held)
    BY CacheAssumption, FS_Subset DEF Held
  <2>2. PICK x : Held = {x}
    BY <1>5, <2>1, FS_Singleton, ZenonT(30)
  <2>3. CASE Held' = Held
    BY <1>5, <2>3
  <2>4. CASE Held' = {}
    <3>1. Bytes(Held)' = {}
      BY <2>4 DEF Bytes
    <3>2. Total' = 0
      BY <3>1, FS_EmptySet DEF Total
    <3> QED  BY <3>2, CacheAssumption
  <2> QED  BY <1>1, <2>2, <2>3, <2>4
<1>6. Total' <= MaxSize \/ Cardinality(Held)' = 1
  <2>1. Total \in Nat
    BY FS_CardinalityType DEF SizeInv, Total
  <2> QED  BY <1>4, <1>5, <2>1, CacheAssumption DEF SizeInv
<1> QED  BY <1>4, <1>6 DEF SizeInv

\* A response entered: what was evicted is gone, what it replaces is no longer
\* held but stays counted.
LEMMA EnteredSize ==
    ASSUME CacheInv, SizeInv, NEW k \in Keys, NEW sz \in Sizes,
           NEW gone \in SUBSET Keys, NEW stuck \in SUBSET Keys,
           Store(k, sz, "whole", gone, stuck)
    PROVE  SizeInv'
<1> DEFINE id == Len(stored) + 1
           r == [key |-> k, size |-> sz]
           rest == Held \ (gone \cup {k})
           body == {k} \X (1 .. sz)
<1>1. /\ stored' = Append(stored, r) /\ r \in Responses /\ stored \in Seq(Responses)
      /\ entries' = [j \in Keys |-> IF j = k THEN id ELSE IF j \in gone THEN 0 ELSE entries[j]]
      /\ size' = SizeWithout(gone) + sz /\ sz \in Nat
      /\ gone = Held \/ SizeWithout(gone) + sz <= MaxSize
  BY CacheAssumption, Zenon DEF Store, Forgotten, CacheInv, CacheTyped, Responses, Evicts, Fits
<1>2. id \in Nat /\ id # 0 /\ stored'[id] = r /\ r.size = sz
  BY <1>1
<1>3. Held' = rest \cup {k}
  BY <1>1, <1>2 DEF Held
<1>4. \A j \in rest : entries'[j] = entries[j] /\ SizeOf(entries[j])' = SizeOf(entries[j])
  <2> SUFFICES ASSUME NEW j \in rest
               PROVE  entries'[j] = entries[j] /\ SizeOf(entries[j])' = SizeOf(entries[j])
    OBVIOUS
  <2>1. j \in Held \ (gone \cup {k}) /\ j \in Keys /\ gone \cup {k} \in SUBSET Keys
    BY DEF Held
  <2>2. entries'[j] = entries[j]
    BY <1>1, <2>1
  <2>3. Held' \subseteq Keys
    BY DEF Held
  <2> QED  BY <1>1, <2>1, <2>2, <2>3, SameSize, Zenon
<1>5. entries'[k] = id /\ stored'[id].size = sz
  BY <1>1, <1>2
<1>6. Bytes(Held)' = Bytes(rest) \cup body
  <2>1. rest \subseteq Held /\ k \notin rest
    OBVIOUS
  <2>2. \A x : x \in Bytes(Held)' <=> \E j \in Held' : x \in {j} \X (1 .. SizeOf(entries[j])')
    BY DEF Bytes
  <2>3. \A x : x \in Bytes(rest) <=> \E j \in rest : x \in {j} \X (1 .. SizeOf(entries[j]))
    BY <2>1, InBytes
  <2>4. SizeOf(entries[k])' = sz
    BY <1>5 DEF SizeOf
  <2>5. \A j \in rest : SizeOf(entries[j])' = SizeOf(entries[j])
    BY <1>4 DEF SizeOf
  <2> HIDE DEF rest
  <2> QED  BY <1>3, <2>2, <2>3, <2>4, <2>5
<1>7. IsFiniteSet(body) /\ Cardinality(body) = sz
  <2>1. IsFiniteSet({k}) /\ Cardinality({k}) = 1
    BY FS_Singleton, Zenon
  <2>2. IsFiniteSet(1 .. sz) /\ Cardinality(1 .. sz) = sz
    BY <1>1, FS_Interval
  <2>3. IsFiniteSet(body) /\ Cardinality(body) = Cardinality({k}) * Cardinality(1 .. sz)
    <3> HIDE DEF body
    <3>1. body = {k} \X (1 .. sz)
      BY DEF body
    <3> QED  BY <2>1, <2>2, <3>1, FS_Product, Zenon
  <2>4. 1 * sz = sz
    BY <1>1
  <2> QED  BY <2>1, <2>2, <2>3, <2>4, Zenon
<1>8. /\ IsFiniteSet(Bytes(rest)) /\ Cardinality(Bytes(rest)) \in Nat
      /\ Cardinality(Bytes(rest)) <= SizeWithout(gone) /\ SizeWithout(gone) \in Nat
  <2>1. /\ IsFiniteSet(Bytes(Held \ gone)) /\ Cardinality(Bytes(Held \ gone)) \in Nat
        /\ Cardinality(Bytes(Held \ gone)) <= SizeWithout(gone) /\ SizeWithout(gone) \in Nat
    BY BytesKept
  <2>2. Bytes(rest) \subseteq Bytes(Held \ gone)
    BY InBytes
  <2>3. /\ IsFiniteSet(Bytes(rest)) /\ Cardinality(Bytes(rest)) \in Nat
        /\ Cardinality(Bytes(rest)) <= Cardinality(Bytes(Held \ gone))
    BY <2>1, <2>2, FS_Subset, FS_CardinalityType, Zenon
  <2> HIDE DEF rest
  <2> QED  BY <2>1, <2>3
<1>9. IsFiniteSet(Bytes(Held)') /\ Total' \in Nat /\ Total' <= size'
  <2>1. Bytes(rest) \cap body = {}
    BY InBytes
  <2>2. Cardinality(Bytes(rest) \cap body) = 0
    BY <2>1, FS_EmptySet
  <2>3. /\ IsFiniteSet(Bytes(rest) \cup body)
        /\ Cardinality(Bytes(rest) \cup body)
             = Cardinality(Bytes(rest)) + Cardinality(body) - Cardinality(Bytes(rest) \cap body)
    BY <1>7, <1>8, FS_Union, Zenon
  <2>4. Total' = Cardinality(Bytes(rest)) + sz
    <3>1. Total' = Cardinality(Bytes(rest) \cup body)
      BY <1>6 DEF Total
    <3> HIDE DEF rest, body
    <3> QED  BY <1>1, <1>7, <1>8, <2>2, <2>3, <3>1
  <2> HIDE DEF rest
  <2> QED  BY <1>1, <1>6, <1>8, <2>3, <2>4
<1>10. Total' <= MaxSize \/ Cardinality(Held)' = 1
  <2>1. CASE gone = Held
    <3>1. Held' = {k}
      BY <1>3, <2>1
    <3> QED  BY <3>1, FS_Singleton
  <2>2. CASE SizeWithout(gone) + sz <= MaxSize
    BY <1>1, <1>8, <1>9, <2>2, CacheAssumption
  <2> QED  BY <1>1, <2>1, <2>2
<1>11. size' \in Nat
  BY <1>1, <1>8
<1> QED  BY <1>9, <1>10, <1>11 DEF SizeInv

\* Every step keeps the sizes sound.
LEMMA NextSize == CacheInv /\ SizeInv /\ [CacheNext]_cacheVars => SizeInv'
<1> SUFFICES ASSUME CacheInv, SizeInv, [CacheNext]_cacheVars PROVE SizeInv'
  OBVIOUS
<1>1. ASSUME NEW k \in Keys, NEW sz \in Sizes, NEW part \in Written,
             NEW gone \in SUBSET Keys, NEW stuck \in SUBSET Keys,
             Store(k, sz, part, gone, stuck)
      PROVE  SizeInv'
  <2>1. CASE part = "whole"
    BY <1>1, <2>1, EnteredSize
  <2>2. CASE part # "whole"
    <3>1. /\ entries' = Forgotten(entries, gone, 0) /\ size' = SizeWithout(gone)
          /\ stored' = Append(stored, [key |-> k, size |-> sz])
          /\ [key |-> k, size |-> sz] \in Responses
      BY <1>1, <2>2 DEF Store, Responses
    <3> QED  BY <3>1, RemovedSize
  <2> QED  BY <2>1, <2>2
<1>2. ASSUME NEW keys \in SUBSET Keys, NEW stuck, Removed(keys, stuck), stored' = stored
      PROVE  SizeInv'
  BY <1>2, RemovedSize DEF Removed
<1>3. ASSUME entries' = entries, stored' = stored, size' = size PROVE SizeInv'
  BY <1>3 DEF SizeInv, Total, Bytes, Held, SizeOf
<1>4. ASSUME NEW k \in Keys, RetrieveEntry(k) PROVE SizeInv'
  <2>1. \/ \E stuck \in SUBSET {k} : Removed({k}, stuck)
        \/ entries' = entries /\ size' = size
    BY <1>4 DEF RetrieveEntry
  <2>2. stored' = stored
    BY <1>4 DEF RetrieveEntry
  <2> QED  BY <1>2, <1>3, <2>1, <2>2
<1>5. ASSUME NEW keys \in SUBSET Keys, Purge(keys) PROVE SizeInv'
  <2>1. PICK stuck : Removed({k \in keys : entries[k] # 0}, stuck)
    BY <1>5 DEF Purge
  <2>2. stored' = stored /\ {k \in keys : entries[k] # 0} \in SUBSET Keys
    BY <1>5 DEF Purge
  <2> QED  BY <1>2, <2>1, <2>2
<1>6. CASE Restart
  <2>1. Held' = {} /\ size' = 0
    BY <1>6 DEF Restart, Held
  <2>2. Bytes(Held)' = {}
    BY <2>1 DEF Bytes
  <2>3. IsFiniteSet(Bytes(Held)') /\ Total' = 0
    BY <2>2, FS_EmptySet DEF Total
  <2> QED  BY <2>1, <2>3, CacheAssumption DEF SizeInv
<1>7. ASSUME NEW k \in Keys, RetrieveFile(k) PROVE SizeInv'
  BY <1>3, <1>7 DEF RetrieveFile
<1>8. ASSUME NEW id \in 1 .. MaxStores, Expire(id) PROVE SizeInv'
  BY <1>3, <1>8 DEF Expire
<1>9. CASE UNCHANGED cacheVars
  BY <1>3, <1>9 DEF cacheVars
<1> QED  BY <1>1, <1>4, <1>5, <1>6, <1>7, <1>8, <1>9 DEF CacheNext, Written

\* MemorySound, for any keys, sizes and calls: the bodies in memory never take
\* more than max_size, a single one excepted, _current_size never falls below
\* them, and each has its file or a later one on the disk (store, _remove).
THEOREM MemoryAlwaysSound == CacheSpec => []MemorySound
<1>1. CacheInit => SizeInv
  <2> SUFFICES ASSUME CacheInit PROVE SizeInv
    OBVIOUS
  <2>1. Held = {} /\ size = 0
    BY DEF CacheInit, Held
  <2>2. Bytes(Held) = {}
    BY <2>1 DEF Bytes
  <2> QED  BY <2>1, <2>2, FS_EmptySet, CacheAssumption DEF SizeInv, Total
<1>2. CacheInv /\ SizeInv => MemorySound
  <2> SUFFICES ASSUME CacheInv, SizeInv PROVE MemorySound
    OBVIOUS
  <2>1. ASSUME NEW k \in Held
        PROVE  /\ disk[k].part # "none" /\ disk[k].id >= entries[k]
               /\ disk[k].id = entries[k] => disk[k].part = "whole"
    <3>1. /\ k \in Keys /\ InStep(k) /\ entries[k] # 0 /\ completed[k] \in Nat
          /\ disk[k].part \in Written /\ disk[k].id \in Nat
      BY DEF CacheInv, CacheTyped, Held
    <3> QED  BY <3>1 DEF InStep, Written
  <2> QED  BY <2>1 DEF SizeInv, MemorySound
<1> QED  BY InitCache, NextCache, <1>1, NextSize, <1>2, PTL DEF CacheSpec

=============================================================================
