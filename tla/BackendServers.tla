--------------------------- MODULE BackendServers ---------------------------
(***************************************************************************)
(* The servers of the backends (k8s/gate/haproxy/servers.go): the ready    *)
(* endpoints of the backend's service, on the target port of the service   *)
(* port the backend is for.                                                *)
(*                                                                         *)
(* The servers of a service's backends are computed again in a batch that  *)
(* has an update of one of its EndpointSlices, or that created or changed  *)
(* one of its backends.  Slices are read from the client's cache, which    *)
(* may be ahead of the updates of the batch; the service is read from the  *)
(* store, as the batch leaves it.  What becomes of the servers afterwards  *)
(* is the subject of ConfSync.                                             *)
(***************************************************************************)
EXTENDS BackendOwners, Naturals, Sequences, FiniteSetsExt, Functions

CONSTANTS Services, Slices,  \* object keys
          ServiceOf,         \* backend or slice -> its service
          PortOf,            \* backend -> the service port it is for
          ServicePorts,      \* the ports a service may have: port -> target
          SliceVersions,     \* slice -> what it may hold
          StartServices, StartSlices,  \* the cluster at the start
          DisabledFamilies,  \* DisableIPv4, DisableIPv6
          MaxRoutes,         \* bound: routes a batch may have updates of
          MaxChanges         \* bound: changes of services and slices

ASSUME ServiceAssumption == /\ ServiceOf \in [Backends \cup Slices -> Services]
                            /\ DOMAIN PortOf = Backends
                            /\ DOMAIN SliceVersions = Slices
                            /\ DOMAIN StartSlices \subseteq Slices
                            /\ \A e \in DOMAIN StartSlices : StartSlices[e] \in SliceVersions[e]

(* The ports of a slice have different names and are not 0; the API server *)
(* sees to it.                                                             *)
ASSUME PortNamesAssumption ==
    \A e \in Slices : \A v \in SliceVersions[e] :
        /\ v.ports \in Seq([name : STRING, number : Nat \ {0}])
        /\ \A i, j \in DOMAIN v.ports : v.ports[i].name = v.ports[j].name => i = j

VARIABLES services,  \* ClusterStore.Services: service -> port -> target
          slices,    \* the EndpointSlices in the client's cache
          queued,    \* slices whose last change has not reached a batch
          servers,   \* the servers of each backend of structured
          outdated,  \* history: backends whose servers were not computed since
                     \* their service changed, or since the start
          changes

clusterVars == <<services, slices, queued, changes>>
serverVars  == <<vars, clusterVars, servers, outdated>>
-----------------------------------------------------------------------------
(* The slices the cache lists for a service, of one address family         *)
getSvcEndpoints(s, family) ==
    {e \in DOMAIN slices : ServiceOf[e] = s /\ slices[e].family = family}

(* A target port is the number or the name of an endpoint port.            *)
Targets(target, port) == IF target.byName THEN port.name = target.name
                         ELSE port.number = target.number

MatchingPorts(e, target) == {i \in DOMAIN slices[e].ports : Targets(target, slices[e].ports[i])}

HasService(svcs, b) == ServiceOf[b] \in DOMAIN svcs

(* The target of the backend's port.  If the service has no such port it   *)
(* is a zero IntOrString, which is the number 0: this is not the error     *)
(* "no TargetPort found", for which it would have to be an empty string.   *)
TargetPort(svcs, b) ==
    IF PortOf[b] \in DOMAIN svcs[ServiceOf[b]] THEN svcs[ServiceOf[b]][PortOf[b]]
    ELSE [byName |-> FALSE, name |-> "", number |-> 0]

(* The first port that matches, by the place of its slice in the list      *)
serverPort(listed, target, place) ==
    LET matching == {e \in listed : MatchingPorts(e, target) # {}}
        first    == CHOOSE e \in matching : \A d \in matching : place[e] <= place[d]
    IN  slices[first].ports[Min(MatchingPorts(first, target))].number

(* That port serves for all the ready addresses of the family.             *)
getServersForBackend(svcs, b, place) ==
    LET target   == TargetPort(svcs, b)
        Of(f)    == getSvcEndpoints(ServiceOf[b], f)
        families == {slices[e].family : e \in DOMAIN slices} \ DisabledFamilies
    IN  UNION {[address : UNION {slices[e].ready : e \in Of(f)}, port : {serverPort(Of(f), target, place)}] :
                 f \in {g \in families : \E e \in Of(g) : MatchingPorts(e, target) # {}}}

(* The backends that have owners, by service                               *)
backendsByService(o, s) == {b \in Backends : ServiceOf[b] = s /\ HasOwner(o, b)}

endpointSliceUpdatedByService(seen) == {ServiceOf[e] : e \in seen}

(* What a pass of ComputeDiffs reports as created or updated: a backend    *)
(* that is new or differs, or that lost an owner                           *)
Reported(be, o, imp, b) ==
    LET upserted == b \in imp.upserted /\ HasOwner(o, b)
    IN  \/ upserted /\ NewBackend(o, b) # be
        \/ b \in imp.unreferenced /\ HasOwner(o, b) /\ (upserted \/ be # Absent)

(* The sets of backends a batch may report: those, and any backend of a    *)
(* route of the batch, whose generation is part of the metadata            *)
CreatedOrUpdated(batch) ==
    LET http == HandleRoutes(owners, HTTP, batch)
        o1   == NewOwners(owners, HTTP, http)
        imp1 == Impact(NoImpact, owners, HTTP, http)
        tls  == HandleRoutes(o1, TLS, batch)
        o2   == NewOwners(o1, TLS, tls)
        imp2 == Impact(imp1, o1, TLS, tls)
        differ == {b \in Backends :
                     \/ Reported(structured[b], o1, imp1, b)
                     \/ Reported(ProcessBackend(structured[b], o1, imp1, b), o2, imp2, b)}
    IN  {differ \cup S : S \in SUBSET (imp2.upserted \ differ)}

(* A variant of ImpactedBackends: only updates of slices count.            *)
ImpactedByEndpoints(o, reported, seen) ==
    UNION {backendsByService(o, s) : s \in endpointSliceUpdatedByService(seen)}

(* The backends whose servers a batch computes: those of the services with *)
(* a slice that was updated, or with a backend that was created or updated *)
ImpactedBackends(o, reported, seen) ==
    UNION {backendsByService(o, s) :
             s \in {x \in Services : \/ x \in endpointSliceUpdatedByService(seen)
                                     \/ backendsByService(o, x) \cap reported # {}}}

(* The services that the updates of the batch changed                      *)
ChangedServices ==
    {s \in Services : \/ (s \in DOMAIN services) # (s \in DOMAIN services')
                      \/ s \in DOMAIN services /\ services'[s] # services[s]}

(* processEndpointSlices, after the backends of the batch.  A backend that *)
(* is not in structured, or whose service is not in the store, is an error *)
(* that leaves the servers as they are: none for a new backend.  A service *)
(* without the backend's port leaves it without servers.                   *)
processEndpointSlices(reported, seen, place) ==
    LET computed    == {b \in ImpactedBackends(owners', reported, seen) :
                           structured'[b] # Absent /\ HasService(services', b)}
        Previous(b) == IF structured[b] = Absent \/ structured'[b] = Absent THEN {} ELSE servers[b]
    IN  /\ servers' = [b \in Backends |->
                          IF b \in computed THEN getServersForBackend(services', b, place)
                          ELSE Previous(b)]
        /\ outdated' = (outdated \cup {b \in Backends : ServiceOf[b] \in ChangedServices}) \ computed

(* The order in which the cache lists slices: their places, in any order   *)
Listings == Injection(DOMAIN slices, 1..Cardinality(DOMAIN slices))

(* Services come, change their ports and go: the store with the updates of *)
(* the batch                                                               *)
StoreServices ==
    /\ services' \in UNION {[known -> ServicePorts] : known \in SUBSET Services}
    /\ changes' = IF services' = services THEN changes ELSE changes + 1
    /\ changes' <= MaxChanges

(* A batch with updates of services, of routes and of some of the slices   *)
HandleBatch ==
    \E batch \in Batch :
        /\ Cardinality({r \in Routes : batch[r] # Unchanged}) <= MaxRoutes
        /\ ComputeDiffs(batch)
        /\ \E reported \in CreatedOrUpdated(batch), seen \in SUBSET queued, place \in Listings :
              /\ StoreServices
              /\ processEndpointSlices(reported, seen, place)
              /\ queued' = queued \ seen
        /\ UNCHANGED slices
-----------------------------------------------------------------------------
(* The cluster: a slice that comes, changes or goes is queued for its      *)
(* reconciler.                                                             *)
Put(f, k, v) == [x \in DOMAIN f \cup {k} |-> IF x = k THEN v ELSE f[x]]
Drop(f, k)   == [x \in DOMAIN f \ {k} |-> f[x]]

SliceChange(e) ==
    /\ changes < MaxChanges
    /\ changes' = changes + 1
    /\ \/ \E v \in SliceVersions[e] : slices' = Put(slices, e, v)
       \/ e \in DOMAIN slices /\ slices' = Drop(slices, e)
    /\ slices' # slices
    /\ queued' = queued \cup {e}
    /\ UNCHANGED <<vars, services, servers, outdated>>

Leftover == [address |-> "leftover", port |-> 0]

ServersInit == /\ Init
               /\ services = StartServices /\ slices = StartSlices
               /\ queued = DOMAIN StartSlices
               /\ servers = [b \in Backends |-> IF b \in StartupBackends THEN {Leftover} ELSE {}]
               /\ outdated = StartupBackends
               /\ changes = 0

ServersNext == \/ HandleBatch
               \/ \E e \in Slices : SliceChange(e)

ServersSpec == ServersInit /\ [][ServersNext]_serverVars
-----------------------------------------------------------------------------
(* The slices of a service agree on the ports of a family, as they do      *)
(* unless a named port has different numbers on different pods.            *)
Agree(s) ==
    \A d, e \in DOMAIN slices :
        ServiceOf[d] = s /\ ServiceOf[e] = s /\ slices[d].family = slices[e].family
            => slices[d].ports = slices[e].ports

(* What a backend should have: every ready address of every slice of its   *)
(* service, on the port of the slice that its target names, and nothing if *)
(* the service does not have the backend's port                            *)
Wanted(svcs, b) ==
    LET ports == svcs[ServiceOf[b]]
    IN  UNION {{[address |-> a, port |-> slices[e].ports[i].number] :
                    a \in slices[e].ready, i \in MatchingPorts(e, ports[PortOf[b]])} :
                 e \in {d \in DOMAIN slices : /\ PortOf[b] \in DOMAIN ports
                                              /\ ServiceOf[d] = ServiceOf[b]
                                              /\ slices[d].family \notin DisabledFamilies}}

(* Once no change of a slice of its service is queued, a backend has the   *)
(* servers the cluster has now, whichever of route, backend and slices     *)
(* came first and however many batches looked at only some of them.  It is *)
(* said of services in the store whose slices agree on their ports, and    *)
(* not of a backend whose service changed after its servers were last      *)
(* computed: a change of the service alone computes nothing.               *)
ServersExact ==
    \A b \in Backends \ outdated :
        /\ structured[b] # Absent
        /\ HasService(services, b) /\ Agree(ServiceOf[b])
        /\ \A e \in queued : ServiceOf[e] # ServiceOf[b]
        => servers[b] = Wanted(services, b)
=============================================================================
