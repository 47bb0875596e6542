------------------------ MODULE BackendServersProofs ------------------------
(***************************************************************************)
(* The servers of a backend are those of its service, whichever of routes, *)
(* backends and slices came first, for any sets of routes, backends,       *)
(* services and slices, and any sequence of changes and batches.           *)
(***************************************************************************)
EXTENDS BackendServers, BackendOwnersProofs, WellFoundedInduction

(* What the servers are added to is the bookkeeping of backends: computing *)
(* the servers leaves it alone.                                            *)
THEOREM ServersImplementOwners == ServersSpec => Spec
<1>1. ServersInit => Init
  BY DEF ServersInit
<1>2. [ServersNext]_serverVars => [Next]_vars
  BY DEF ServersNext, HandleBatch, SliceChange, Next, serverVars
<1>. QED BY <1>1, <1>2, PTL DEF ServersSpec, Spec

(* So what is proved of the bookkeeping holds of batches with servers too: *)
(* no orphans, exact metadata.                                             *)
THEOREM BookkeepingHolds == ServersSpec => [](NoOrphanBackends /\ MetadataExact)
BY ServersImplementOwners, NoOrphans, MetadataIsExact, PTL
-----------------------------------------------------------------------------
(* A set of numbers that is not empty has a least element, which is Min.   *)
LEMMA LeastNumber ==
    ASSUME NEW S \in SUBSET Nat, S # {}
    PROVE  Min(S) \in S /\ \A n \in S : Min(S) <= n
<1>1. \E n \in S : \A m \in S : <<m, n>> \notin OpToRel(<, Nat)
  BY WFMin, NatLessThanWellFounded
<1>2. \A m, n \in Nat : <<m, n>> \notin OpToRel(<, Nat) => n <= m
  BY DEF OpToRel
<1>3. \E n \in S : \A m \in S : n <= m
  BY <1>1, <1>2
<1>. QED BY <1>3 DEF Min

(* The cache holds versions of slices that the cluster may have.           *)
SlicesTyped == /\ DOMAIN slices \subseteq Slices
               /\ \A e \in DOMAIN slices : slices[e] \in SliceVersions[e]

LEMMA SlicesAreTyped == ServersSpec => []SlicesTyped
<1>1. ServersInit => SlicesTyped
  BY ServiceAssumption DEF ServersInit, SlicesTyped
<1>2. SlicesTyped /\ [ServersNext]_serverVars => SlicesTyped'
  <2> SUFFICES ASSUME SlicesTyped, [ServersNext]_serverVars PROVE SlicesTyped'
      OBVIOUS
  <2>1. CASE UNCHANGED serverVars
    BY <2>1 DEF serverVars, clusterVars, SlicesTyped
  <2>2. CASE HandleBatch
    BY <2>2 DEF HandleBatch, SlicesTyped
  <2>3. ASSUME NEW e \in Slices, SliceChange(e) PROVE SlicesTyped'
    BY <2>3 DEF SliceChange, Put, Drop, SlicesTyped
  <2>. QED BY <2>1, <2>2, <2>3 DEF ServersNext
<1>. QED BY <1>1, <1>2, PTL DEF ServersSpec
-----------------------------------------------------------------------------
(* All ports of a slice that a target matches have the same number: it is  *)
(* the number of the target, or they are one port.                         *)
LEMMA OneNumber ==
    ASSUME SlicesTyped, NEW e \in DOMAIN slices, NEW target,
           NEW i \in MatchingPorts(e, target), NEW j \in MatchingPorts(e, target)
    PROVE  slices[e].ports[i].number = slices[e].ports[j].number
<1>1. \A k, l \in DOMAIN slices[e].ports :
        slices[e].ports[k].name = slices[e].ports[l].name => k = l
  BY PortNamesAssumption DEF SlicesTyped
<1>. QED BY <1>1 DEF MatchingPorts, Targets

(* If the slices of a service agree on the ports of a family, it makes no  *)
(* difference which of them is listed first.                               *)
LEMMA AnyPortServes ==
    ASSUME SlicesTyped, NEW s, Agree(s), NEW f, NEW target, NEW place \in Listings,
           NEW e \in getSvcEndpoints(s, f), NEW i \in MatchingPorts(e, target)
    PROVE  serverPort(getSvcEndpoints(s, f), target, place) = slices[e].ports[i].number
<1> DEFINE matching == {d \in getSvcEndpoints(s, f) : MatchingPorts(d, target) # {}}
           first    == CHOOSE d \in matching : \A c \in matching : place[d] <= place[c]
           places   == {place[d] : d \in matching}
<1>1. /\ matching \subseteq DOMAIN slices
      /\ \A d \in DOMAIN slices : place[d] \in Nat
  BY DEF getSvcEndpoints, Listings, Injection
<1>2. places \in SUBSET Nat /\ places # {}
  BY <1>1
<1>3. \E d \in matching : \A c \in matching : place[d] <= place[c]
  <2>1. PICK d \in matching : place[d] = Min(places)
    BY <1>2, LeastNumber
  <2>2. \A c \in matching : Min(places) <= place[c]
    BY <1>2, LeastNumber
  <2>. QED BY <2>1, <2>2
<1>4. first \in matching
  BY <1>3
<1>5. slices[first].ports = slices[e].ports
  BY <1>4 DEF Agree, getSvcEndpoints
<1>6. MatchingPorts(first, target) = MatchingPorts(e, target)
  BY <1>5 DEF MatchingPorts
<1>7. MatchingPorts(first, target) \subseteq Nat
  <2>1. slices[e].ports \in Seq([name : STRING, number : Nat \ {0}])
    BY PortNamesAssumption DEF SlicesTyped, getSvcEndpoints
  <2>2. DOMAIN slices[e].ports \subseteq Nat
    BY <2>1
  <2>3. MatchingPorts(e, target) \subseteq DOMAIN slices[e].ports
    BY DEF MatchingPorts
  <2>. QED BY <1>6, <2>2, <2>3
<1>8. Min(MatchingPorts(first, target)) \in MatchingPorts(e, target)
  BY <1>6, <1>7, LeastNumber
<1>9. serverPort(getSvcEndpoints(s, f), target, place) =
        slices[e].ports[Min(MatchingPorts(first, target))].number
  BY <1>5 DEF serverPort
<1>. QED BY <1>8, <1>9, OneNumber DEF getSvcEndpoints

(* No port of an endpoint is the zero target, which a missing port has.     *)
LEMMA NothingOnZero ==
    ASSUME SlicesTyped, NEW e \in DOMAIN slices
    PROVE  MatchingPorts(e, [byName |-> FALSE, name |-> "", number |-> 0]) = {}
<1>1. slices[e].ports \in Seq([name : STRING, number : Nat \ {0}])
  BY PortNamesAssumption DEF SlicesTyped
<1>2. ASSUME NEW i \in DOMAIN slices[e].ports PROVE slices[e].ports[i].number # 0
  <2> DEFINE PortSet == [name : STRING, number : Nat \ {0}]
  <2> HIDE DEF PortSet
  <2>1. \A q \in Seq(PortSet) : \A k \in DOMAIN q : q[k] \in PortSet
    OBVIOUS
  <2>2. slices[e].ports[i] \in PortSet
    BY <1>1, <2>1 DEF PortSet
  <2>. QED BY <2>2 DEF PortSet
<1>. QED BY <1>2 DEF MatchingPorts, Targets

(* What a batch computes for a backend are the servers it should have,     *)
(* whatever the order in which the cache lists the slices.                 *)
LEMMA ServersComputed ==
    ASSUME SlicesTyped, NEW svcs, NEW b \in Backends, Agree(ServiceOf[b]), NEW place \in Listings
    PROVE  getServersForBackend(svcs, b, place) = Wanted(svcs, b)
<1> DEFINE ports    == svcs[ServiceOf[b]]
           target   == TargetPort(svcs, b)
           Of(f)    == getSvcEndpoints(ServiceOf[b], f)
           families == {slices[e].family : e \in DOMAIN slices} \ DisabledFamilies
           Found(f) == \E e \in Of(f) : MatchingPorts(e, target) # {}
<1>1. ASSUME NEW f, NEW d \in Of(f), NEW e \in Of(f)
      PROVE  MatchingPorts(d, target) = MatchingPorts(e, target)
  BY DEF Agree, getSvcEndpoints, MatchingPorts
<1>0. /\ PortOf[b] \in DOMAIN ports => target = ports[PortOf[b]]
      /\ \A e \in DOMAIN slices : MatchingPorts(e, target) # {} => PortOf[b] \in DOMAIN ports
  BY NothingOnZero DEF TargetPort
<1> HIDE DEF target
<1>2. ASSUME NEW x \in getServersForBackend(svcs, b, place) PROVE x \in Wanted(svcs, b)
  <2>1. PICK f \in families :
          /\ Found(f)
          /\ x \in [address : UNION {slices[e].ready : e \in Of(f)},
                    port : {serverPort(Of(f), target, place)}]
    BY <1>2 DEF getServersForBackend, target
  <2>2. PICK e \in Of(f) : x.address \in slices[e].ready
    BY <2>1
  <2>3. PICK i \in MatchingPorts(e, target) : TRUE
    BY <1>1, <2>1, <2>2
  <2>4. serverPort(Of(f), target, place) = slices[e].ports[i].number
    BY <2>2, <2>3, AnyPortServes
  <2>5. x = [address |-> x.address, port |-> slices[e].ports[i].number]
    BY <2>1, <2>4
  <2>6. e \in DOMAIN slices /\ PortOf[b] \in DOMAIN ports /\ target = ports[PortOf[b]]
    BY <1>0, <2>2, <2>3 DEF getSvcEndpoints
  <2>7. e \in {d \in DOMAIN slices : /\ PortOf[b] \in DOMAIN ports
                                    /\ ServiceOf[d] = ServiceOf[b]
                                    /\ slices[d].family \notin DisabledFamilies}
    BY <2>1, <2>2, <2>6 DEF getSvcEndpoints
  <2>. QED BY <2>2, <2>3, <2>5, <2>6, <2>7 DEF Wanted
<1>3. ASSUME NEW x \in Wanted(svcs, b) PROVE x \in getServersForBackend(svcs, b, place)
  <2>1. PICK e \in DOMAIN slices :
          /\ ServiceOf[e] = ServiceOf[b] /\ slices[e].family \notin DisabledFamilies
          /\ x \in {[address |-> a, port |-> slices[e].ports[i].number] :
                      a \in slices[e].ready, i \in MatchingPorts(e, target)}
    BY <1>0, <1>3 DEF Wanted
  <2>2. PICK a \in slices[e].ready, i \in MatchingPorts(e, target) :
          x = [address |-> a, port |-> slices[e].ports[i].number]
    BY <2>1
  <2> DEFINE f == slices[e].family
  <2>3. e \in Of(f) /\ f \in families
    BY <2>1 DEF getSvcEndpoints
  <2>4. serverPort(Of(f), target, place) = slices[e].ports[i].number
    BY <2>3, AnyPortServes
  <2>5. x \in [address : UNION {slices[d].ready : d \in Of(f)},
               port : {serverPort(Of(f), target, place)}]
    BY <2>2, <2>3, <2>4
  <2>6. f \in {g \in families : Found(g)}
    BY <2>3
  <2> HIDE DEF f
  <2>. QED BY <2>5, <2>6 DEF getServersForBackend, target
<1>. QED BY <1>2, <1>3
-----------------------------------------------------------------------------
(* What a backend should have, and whether its slices agree, depends on    *)
(* its service and on the slices of that service only.                     *)
LEMMA WantedUnaffected ==
    ASSUME NEW b \in Backends, NEW S,
           S = {d \in DOMAIN slices : ServiceOf[d] = ServiceOf[b]},
           S = {d \in DOMAIN slices' : ServiceOf[d] = ServiceOf[b]},
           \A d \in S : slices'[d] = slices[d],
           services'[ServiceOf[b]] = services[ServiceOf[b]]
    PROVE  Wanted(services, b)' = Wanted(services, b) /\ Agree(ServiceOf[b])' = Agree(ServiceOf[b])
<1>1. Agree(ServiceOf[b])' = Agree(ServiceOf[b])
  BY DEF Agree
<1> DEFINE ports  == services[ServiceOf[b]]
           target == ports[PortOf[b]]
           Of(sl, e) == {[address |-> a, port |-> sl[e].ports[i].number] :
                           a \in sl[e].ready,
                           i \in {j \in DOMAIN sl[e].ports : Targets(target, sl[e].ports[j])}}
           Enabled(sl) == {d \in DOMAIN sl : /\ PortOf[b] \in DOMAIN ports
                                             /\ ServiceOf[d] = ServiceOf[b]
                                             /\ sl[d].family \notin DisabledFamilies}
<1>2. Wanted(services, b) = UNION {Of(slices, e) : e \in Enabled(slices)}
  BY DEF Wanted, MatchingPorts
<1>3. Wanted(services, b)' = UNION {Of(slices', e) : e \in Enabled(slices')}
  BY DEF Wanted, MatchingPorts
<1>4. Enabled(slices') = Enabled(slices)
  OBVIOUS
<1>5. \A e \in Enabled(slices) : Of(slices', e) = Of(slices, e)
  OBVIOUS
<1> HIDE DEF Of, Enabled
<1>. QED BY <1>1, <1>2, <1>3, <1>4, <1>5

(* The backends found in the file at the start have servers that nobody    *)
(* has computed.                                                           *)
StartOutdated == firstSync => \A b \in Backends : structured[b] # Absent => b \in outdated

LEMMA StartIsOutdated == ServersSpec => []StartOutdated
<1>1. ServersInit => StartOutdated
  BY DEF ServersInit, Init, StartOutdated
<1>2. StartOutdated /\ [ServersNext]_serverVars => StartOutdated'
  <2> SUFFICES ASSUME StartOutdated, [ServersNext]_serverVars PROVE StartOutdated'
      OBVIOUS
  <2>1. CASE UNCHANGED serverVars
    BY <2>1 DEF serverVars, vars, StartOutdated
  <2>2. CASE HandleBatch
    BY <2>2 DEF HandleBatch, ComputeDiffs, StartOutdated
  <2>3. ASSUME NEW e \in Slices, SliceChange(e) PROVE StartOutdated'
    BY <2>3 DEF SliceChange, vars, StartOutdated
  <2>. QED BY <2>1, <2>2, <2>3 DEF ServersNext
<1>. QED BY <1>1, <1>2, PTL DEF ServersSpec

(* A backend that a batch adds to the configuration is reported, and so    *)
(* its servers are computed.                                               *)
LEMMA NewBackendReported ==
    ASSUME NEW batch \in Batch, ComputeDiffs(batch), NEW reported \in CreatedOrUpdated(batch),
           NEW b \in Backends, structured[b] = Absent, structured'[b] # Absent
    PROVE  b \in reported
<1> DEFINE http == HandleRoutes(owners, HTTP, batch)
           o1   == NewOwners(owners, HTTP, http)
           imp1 == Impact(NoImpact, owners, HTTP, http)
           tls  == HandleRoutes(o1, TLS, batch)
           o2   == NewOwners(o1, TLS, tls)
           imp2 == Impact(imp1, o1, TLS, tls)
           p1   == ProcessBackend(structured[b], o1, imp1, b)
           differ == {c \in Backends :
                        \/ Reported(structured[c], o1, imp1, c)
                        \/ Reported(ProcessBackend(structured[c], o1, imp1, c), o2, imp2, c)}
<1>1. structured'[b] = ProcessBackend(p1, o2, imp2, b)
  BY DEF ComputeDiffs
<1>2. \A o : NewBackend(o, b) # Absent
  BY DEF NewBackend, Absent
<1>3. CASE p1 # Absent
  <2>1. b \in imp1.upserted /\ HasOwner(o1, b)
    BY <1>3 DEF ProcessBackend
  <2>2. Reported(structured[b], o1, imp1, b)
    BY <1>2, <2>1 DEF Reported
  <2>. QED BY <2>2 DEF CreatedOrUpdated
<1>4. CASE p1 = Absent
  <2>1. b \in imp2.upserted /\ HasOwner(o2, b)
    BY <1>1, <1>4 DEF ProcessBackend
  <2>2. Reported(p1, o2, imp2, b)
    BY <1>2, <1>4, <2>1 DEF Reported
  <2>. QED BY <2>2 DEF CreatedOrUpdated
<1>. QED BY <1>3, <1>4

(* Once no change of its slices is queued a backend has exactly the        *)
(* servers of the cluster, none if its service does not have its port: a   *)
(* batch that leaves the servers of a backend alone found it in the        *)
(* configuration and saw no change of its slices.  It is said of services  *)
(* whose slices agree on their ports, and not of a backend whose service   *)
(* changed after its servers were computed.                                *)
THEOREM ServersAreExact == ServersSpec => []ServersExact
<1> DEFINE Inv == SlicesTyped /\ StartOutdated /\ AllOwned
<1>1. ServersInit => ServersExact
  BY DEF ServersInit, Init, ServersExact
<1>2. Inv /\ Inv' /\ ServersExact /\ [ServersNext]_serverVars => ServersExact'
  <2> SUFFICES ASSUME Inv, Inv', ServersExact, [ServersNext]_serverVars,
                      NEW b \in Backends, b \notin outdated', structured'[b] # Absent,
                      HasService(services', b), Agree(ServiceOf[b])',
                      \A e \in queued' : ServiceOf[e] # ServiceOf[b]
               PROVE  servers'[b] = Wanted(services, b)'
      BY DEF ServersExact, HasService
  <2> DEFINE S == {d \in DOMAIN slices : ServiceOf[d] = ServiceOf[b]}
  <2>1. CASE UNCHANGED serverVars
    BY <2>1 DEF serverVars, vars, clusterVars, ServersExact, HasService,
                Agree, Wanted, MatchingPorts
  <2>2. ASSUME NEW e \in Slices, SliceChange(e) PROVE servers'[b] = Wanted(services, b)'
    <3>1. /\ UNCHANGED <<vars, services, servers, outdated>>
          /\ queued' = queued \cup {e}
          /\ DOMAIN slices' \ {e} = DOMAIN slices \ {e}
          /\ \A d \in DOMAIN slices \ {e} : slices'[d] = slices[d]
      BY <2>2 DEF SliceChange, Put, Drop
    <3>2. ServiceOf[e] # ServiceOf[b] /\ HasService(services, b)
      BY <3>1
    <3>3. /\ S = {d \in DOMAIN slices' : ServiceOf[d] = ServiceOf[b]}
          /\ \A d \in S : slices'[d] = slices[d]
      BY <3>1, <3>2
    <3>4. Wanted(services, b)' = Wanted(services, b) /\ Agree(ServiceOf[b])
      BY <3>1, <3>2, <3>3, WantedUnaffected
    <3>. QED BY <3>1, <3>2, <3>4 DEF vars, ServersExact
  <2>3. CASE HandleBatch
    <3>1. PICK batch \in Batch :
            /\ ComputeDiffs(batch)
            /\ \E reported \in CreatedOrUpdated(batch), seen \in SUBSET queued, place \in Listings :
                  /\ StoreServices
                  /\ processEndpointSlices(reported, seen, place)
                  /\ queued' = queued \ seen
            /\ UNCHANGED slices
      BY <2>3 DEF HandleBatch
    <3>2. PICK reported \in CreatedOrUpdated(batch), seen \in SUBSET queued, place \in Listings :
            /\ processEndpointSlices(reported, seen, place)
            /\ queued' = queued \ seen
      BY <3>1
    <3> DEFINE computed == {c \in ImpactedBackends(owners', reported, seen) :
                              structured'[c] # Absent /\ HasService(services', c)}
    <3>3. CASE b \in computed
      <4>1. servers'[b] = getServersForBackend(services', b, place)
        BY <3>2, <3>3 DEF processEndpointSlices
      <4>2. getServersForBackend(services', b, place) = Wanted(services, b)'
        <5>1. Agree(ServiceOf[b])
          BY <3>1 DEF Agree
        <5>2. getServersForBackend(services', b, place) = Wanted(services', b)
          BY <5>1, ServersComputed
        <5>. QED BY <3>1, <5>2 DEF Wanted, MatchingPorts
      <4>. QED BY <4>1, <4>2
    <3>4. CASE b \notin computed
      <4>1. b \notin outdated /\ ServiceOf[b] \notin ChangedServices
        BY <3>2, <3>4 DEF processEndpointSlices
      <4>2. firstSync' = FALSE
        BY <3>1 DEF ComputeDiffs
      <4>3. HasOwner(owners', b)
        BY <4>2 DEF AllOwned, HasOwner
      <4>4. b \in backendsByService(owners', ServiceOf[b]) /\ ServiceOf[b] \in Services
        BY <4>3, ServiceAssumption DEF backendsByService
      <4>5. ServiceOf[b] \notin endpointSliceUpdatedByService(seen) /\ b \notin reported
        BY <3>4, <4>4 DEF ImpactedBackends
      <4>6. \A e \in queued : ServiceOf[e] # ServiceOf[b]
        BY <3>2, <4>5 DEF endpointSliceUpdatedByService
      <4>7. structured[b] # Absent
        BY <3>1, <4>5, NewBackendReported
      <4>8. servers'[b] = servers[b]
        BY <3>2, <3>4, <4>7 DEF processEndpointSlices
      <4>9. HasService(services, b) /\ services'[ServiceOf[b]] = services[ServiceOf[b]]
        BY <4>1, <4>4 DEF ChangedServices, HasService
      <4>10. Wanted(services, b)' = Wanted(services, b) /\ Agree(ServiceOf[b])
        BY <3>1, <4>9, WantedUnaffected
      <4>. QED BY <4>1, <4>6, <4>7, <4>8, <4>9, <4>10 DEF ServersExact
    <3>. QED BY <3>3, <3>4
  <2>. QED BY <2>1, <2>2, <2>3 DEF ServersNext
<1>3. ServersSpec => []AllOwned
  BY ServersImplementOwners, AllAreOwned, PTL
<1>. QED BY <1>1, <1>2, <1>3, SlicesAreTyped, StartIsOutdated, PTL DEF ServersSpec
=============================================================================
