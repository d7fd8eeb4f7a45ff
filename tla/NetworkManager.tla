--------------------------- MODULE NetworkManager ---------------------------
(***************************************************************************)
(* The networks of server/network_manager.py: membership, which is kept    *)
(* twice (NetworkRecord.members and ClientRecord.networks), invite codes,  *)
(* which are kept twice (by code and by network), exposed services, and    *)
(* the endpoints the server shares.  Every operation runs without an await *)
(* and is one action.  Passwords are checked by bcrypt: an attempt with    *)
(* the wrong one changes nothing and is left out.                          *)
(***************************************************************************)
EXTENDS Naturals, FiniteSets

CONSTANTS
    Clients,      \* registered client ids
    NetIds,       \* network ids: uuid4, each used once, so their number is the bound
    Codes,        \* invite codes
    ServiceIds,   \* service ids: uuid4, each used once
    None          \* Python's None, and a key a dict does not hold

ASSUME NoneAssumption ==
    None \notin Clients \cup NetIds \cup Codes \cup ServiceIds

VARIABLES
    networks,     \* _networks: network id -> record
    memberOf,     \* ClientRecord.networks
    inviteOf,     \* _network_invite_codes
    netOf,        \* _invite_codes
    services,     \* _services, by service id
    up,           \* clients online with a public endpoint
    spent         \* uuids used so far

vars == <<networks, memberOf, inviteOf, netOf, services, up, spent>>

Topologies == {"mesh", "hub_and_spoke", "gateway"}

NetworkRecord ==
    [owner : Clients, topology : Topologies, members : SUBSET Clients,
     hub : Clients \cup {None}, gateway : Clients \cup {None}]

ServiceRecord == [network : NetIds, provider : Clients]

ASSUME NoneIsNoRecord == None \notin NetworkRecord

Live == {n \in NetIds : networks[n] # None}

Init ==
    /\ networks = [n \in NetIds |-> None]
    /\ memberOf = [i \in Clients |-> {}]
    /\ inviteOf = [n \in NetIds |-> None]
    /\ netOf = [k \in Codes |-> None]
    /\ services = [s \in ServiceIds |-> None]
    /\ up = {}
    /\ spent = {}

-----------------------------------------------------------------------------

\* A code generate_invite_code may give to a network: one is drawn until it is
\* unused, and the fallback after ten draws, with a part of a uuid, is one, too.
Unused(k) == netOf[k] = None

\* create, and generate_invite_code in the same handler.
Create(i, n, top, k) ==
    /\ n \notin spent /\ Unused(k)
    /\ networks' = [networks EXCEPT ![n] =
                      [owner |-> i, topology |-> top, members |-> {i},
                       hub |-> IF top = "hub_and_spoke" THEN i ELSE None,
                       gateway |-> IF top = "gateway" THEN i ELSE None]]
    /\ memberOf' = [memberOf EXCEPT ![i] = @ \cup {n}]
    /\ inviteOf' = [inviteOf EXCEPT ![n] = k]
    /\ netOf' = [netOf EXCEPT ![k] = n]
    /\ spent' = spent \cup {n}
    /\ UNCHANGED <<services, up>>

\* join, with the right password.
Join(i, n) ==
    /\ networks[n] # None
    /\ networks' = [networks EXCEPT ![n].members = @ \cup {i}]
    /\ memberOf' = [memberOf EXCEPT ![i] = @ \cup {n}]
    /\ UNCHANGED <<inviteOf, netOf, services, up, spent>>

\* join_by_invite_code: a code may outlive its network.
JoinByInviteCode(i, k) ==
    /\ netOf[k] # None
    /\ Join(i, netOf[k])

\* A record without client i: a hub or gateway that goes leaves the role empty.
Without(r, i) ==
    [r EXCEPT !.members = @ \ {i},
              !.hub = IF @ = i THEN None ELSE @,
              !.gateway = IF @ = i THEN None ELSE @]

\* Leave, if the registry's copy were left alone.
LeaveKeepsRegistry(i, n) ==
    /\ networks[n] # None /\ i \in networks[n].members
    /\ networks' = [networks EXCEPT ![n] = Without(@, i)]
    /\ UNCHANGED <<memberOf, inviteOf, netOf, services, up, spent>>

Leave(i, n) ==
    /\ networks[n] # None /\ i \in networks[n].members
    /\ networks' = [networks EXCEPT ![n] = Without(@, i)]
    /\ memberOf' = [memberOf EXCEPT ![i] = @ \ {n}]
    /\ UNCHANGED <<inviteOf, netOf, services, up, spent>>

\* Delete, if it popped the code by network only.
DeleteKeepsCode(i, n) ==
    /\ networks[n] # None /\ networks[n].owner = i
    /\ memberOf' = [j \in Clients |->
                      IF j \in networks[n].members THEN memberOf[j] \ {n} ELSE memberOf[j]]
    /\ networks' = [networks EXCEPT ![n] = None]
    /\ inviteOf' = [inviteOf EXCEPT ![n] = None]
    /\ UNCHANGED <<netOf, services, up, spent>>

\* delete, by the owner, who need not be a member any more.
Delete(i, n) ==
    /\ networks[n] # None /\ networks[n].owner = i
    /\ memberOf' = [j \in Clients |->
                      IF j \in networks[n].members THEN memberOf[j] \ {n} ELSE memberOf[j]]
    /\ networks' = [networks EXCEPT ![n] = None]
    /\ inviteOf' = [inviteOf EXCEPT ![n] = None]
    /\ netOf' = [k \in Codes |-> IF k = inviteOf[n] THEN None ELSE netOf[k]]
    /\ UNCHANGED <<services, up, spent>>

\* The services of a client, which it may take back (unexpose_service_owner).
Provides(i, s) == services[s] # None /\ services[s].provider = i

\* purge_client: networks left empty are deleted, their invite codes are not.
PurgeClient(i) ==
    /\ networks' = [n \in NetIds |->
                      IF networks[n] = None \/ i \notin networks[n].members THEN networks[n]
                      ELSE IF networks[n].members = {i} THEN None
                      ELSE Without(networks[n], i)]
    /\ memberOf' = [memberOf EXCEPT ![i] =
                      @ \ {n \in Live : i \in networks[n].members}]
    /\ services' = [s \in ServiceIds |->
                      IF Provides(i, s) THEN None ELSE services[s]]
    /\ UNCHANGED <<inviteOf, netOf, up, spent>>

-----------------------------------------------------------------------------
(* Services                                                                 *)

\* What expose_service stores.
Exposed(i, n) == [network |-> n, provider |-> i]

\* _on_expose_service: the service is stored; expose_service returns its id,
\* the handler takes it for a record, and the AttributeError that follows is
\* answered with INTERNAL before the reply and the broadcast (SERVICE_ADDED).
ExposeService(i, n, s) ==
    /\ s \notin spent /\ networks[n] # None /\ i \in networks[n].members
    /\ services' = [services EXCEPT ![s] = Exposed(i, n)]
    /\ spent' = spent \cup {s}
    /\ UNCHANGED <<networks, memberOf, inviteOf, netOf, up>>

\* _on_unexpose_service: SERVICE_REMOVED goes to the network's online members.
UnexposeService(i, s) ==
    /\ Provides(i, s)
    /\ services' = [services EXCEPT ![s] = None]
    /\ UNCHANGED <<networks, memberOf, inviteOf, netOf, up, spent>>

\* unexpose_service, which does not ask for the provider.
RemoveService(n, s) ==
    /\ services[s] # None /\ services[s].network = n
    /\ services' = [services EXCEPT ![s] = None]
    /\ UNCHANGED <<networks, memberOf, inviteOf, netOf, up, spent>>

PurgeClientServices(i) ==
    /\ services' = [s \in ServiceIds |->
                      IF Provides(i, s) THEN None ELSE services[s]]
    /\ UNCHANGED <<networks, memberOf, inviteOf, netOf, up, spent>>

-----------------------------------------------------------------------------
(* Endpoints                                                                *)

\* registry.update_endpoint and set_online, unregister.
ComesUp(i) ==
    /\ up' = up \cup {i}
    /\ UNCHANGED <<networks, memberOf, inviteOf, netOf, services, spent>>

GoesDown(i) ==
    /\ up' = up \ {i}
    /\ UNCHANGED <<networks, memberOf, inviteOf, netOf, services, spent>>

\* SharedEndpoint, if the topology were not looked at.
SharedEndpointInMesh(n, i, j) ==
    /\ networks[n] # None /\ i # j
    /\ i \in networks[n].members /\ j \in networks[n].members
    /\ j \in up

\* shared_endpoints_for: whether the server gives i the endpoint of j.
SharedEndpoint(n, i, j) ==
    /\ networks[n] # None /\ i # j
    /\ i \in networks[n].members /\ j \in networks[n].members
    /\ j \in up
    /\ networks[n].topology = "hub_and_spoke" => networks[n].hub = j

\* _on_request_peer_conn asks about the first network of networks_for(i) that
\* j is a member of.  The set's order is arbitrary: any of these may come first.
Candidates(i, j) == {n \in memberOf[i] : networks[n] # None /\ j \in networks[n].members}

PeerConnAnswers(i, j) == {SharedEndpoint(n, i, j) : n \in Candidates(i, j)}

-----------------------------------------------------------------------------

Next ==
    \/ \E i \in Clients :
         \/ \E n \in NetIds, top \in Topologies, k \in Codes : Create(i, n, top, k)
         \/ \E n \in NetIds : Join(i, n) \/ Leave(i, n) \/ Delete(i, n)
         \/ \E k \in Codes : JoinByInviteCode(i, k)
         \/ PurgeClient(i) \/ PurgeClientServices(i)
         \/ \E s \in ServiceIds : UnexposeService(i, s)
         \/ \E n \in NetIds, s \in ServiceIds : ExposeService(i, n, s)
         \/ ComesUp(i) \/ GoesDown(i)
    \/ \E n \in NetIds, s \in ServiceIds : RemoveService(n, s)

Spec == Init /\ [][Next]_vars

-----------------------------------------------------------------------------
(* Properties                                                               *)

\* Type invariant.
TypeOK ==
    /\ networks \in [NetIds -> NetworkRecord \cup {None}]
    /\ memberOf \in [Clients -> SUBSET NetIds]
    /\ inviteOf \in [NetIds -> Codes \cup {None}]
    /\ netOf \in [Codes -> NetIds \cup {None}]
    /\ services \in [ServiceIds -> ServiceRecord \cup {None}]
    /\ up \subseteq Clients
    /\ spent \subseteq NetIds \cup ServiceIds

\* The two copies of the membership agree: the networks a client's record
\* lists are those whose records list the client (NetworkManager and registry).
MembershipAgrees ==
    \A i \in Clients, n \in NetIds :
        n \in memberOf[i] <=> networks[n] # None /\ i \in networks[n].members

\* The invite code of a network leads to it, so no two networks share one;
\* the two tables stay inverse for a code that outlives its network, too
\* (purge_client), and such a code never leads to a network created later.
CodesResolve ==
    /\ \A n \in Live : inviteOf[n] # None /\ netOf[inviteOf[n]] = n
    /\ \A k \in Codes : netOf[k] # None => netOf[k] \in spent /\ inviteOf[netOf[k]] = k

\* A hub or gateway is the owner, still a member, of a network of that
\* topology; leave and purge_client clear the role with the membership.
RolesHeldByMembers ==
    \A n \in Live :
        LET r == networks[n] IN
        /\ r.hub # None => r.topology = "hub_and_spoke" /\ r.hub = r.owner /\ r.hub \in r.members
        /\ r.gateway # None =>
             r.topology = "gateway" /\ r.gateway = r.owner /\ r.gateway \in r.members

\* "In hub-and-spoke mode, spokes only learn the hub's endpoint"
\* (shared_endpoints_for): two clients whose common networks are all of that
\* kind learn an endpoint only where one owns a network they are both in now.
SpokesLearnHubOnly ==
    \A i, j \in Clients :
        (\A n \in Candidates(i, j) : networks[n].topology = "hub_and_spoke")
            => (TRUE \in PeerConnAnswers(i, j) =>
                  \E n \in memberOf[i] \cap memberOf[j] : networks[n].owner = j)

=============================================================================
