------------------------------ MODULE GateTree ------------------------------
(***************************************************************************)
(* The gate tree (k8s/gate/tree, k8s/gate/handler/tree.go) and the watches *)
(* that feed it (k8s/gate/controller.go, k8s/gate/enqueuefor.go).          *)
(*                                                                         *)
(* A change in the cluster enqueues the object's key for its own           *)
(* reconciler and, through the watches, the keys of the objects that refer *)
(* to it for theirs.  Each kind of object has a reconciler of its own, so  *)
(* the keys of one change may reach the store in any order and in          *)
(* different batches.  A batch rebuilds the part of the tree its keys      *)
(* name: secrets, classes, gateways with their listeners and port          *)
(* conflicts, services, HTTPRoutes, TLSRoutes; it ends with the status of  *)
(* the gateways it touched.  A status that differs from the published one  *)
(* changes the gateway's resource version, which enqueues its routes.      *)
(*                                                                         *)
(* A Go map is a function whose domain is the set of its keys.             *)
(***************************************************************************)
EXTENDS Naturals, Sequences, FiniteSets, SequencesExt

CONSTANTS Classes, Gateways, HTTPRoutes, TLSRoutes,
          Services, Secrets, HugGates,  \* object keys, by kind
          Versions,    \* the specs an object of each key may have
          StartClusters,  \* what the cluster may hold when the program starts
          Namesake,    \* the gateways with a route's namespace and name
          MaxChanges   \* bound: changes of the cluster after the start

Routes == HTTPRoutes \cup TLSRoutes
Keys   == UNION {Classes, Gateways, Routes, Services, Secrets, HugGates}

ASSUME KeysAssumption ==
    /\ LET kinds == <<Classes, Gateways, HTTPRoutes, TLSRoutes, Services, Secrets, HugGates>>
       IN  \A i, j \in 1..7 : i # j => kinds[i] \cap kinds[j] = {}
    /\ DOMAIN Versions = Keys
    /\ Namesake \in [Routes -> SUBSET Gateways]
    /\ MaxChanges \in Nat

(* The cluster starts with specs it may have.  A gateway has a listener at *)
(* least, as its CRD demands, and the lists of a spec are finite.          *)
ASSUME SpecsAssumption ==
    /\ \A start \in StartClusters :
          DOMAIN start \subseteq Keys /\ \A k \in DOMAIN start : start[k] \in Versions[k]
    /\ \A g \in Gateways : \A spec \in Versions[g] :
          DOMAIN spec.listeners # {} /\ IsFiniteSet(DOMAIN spec.listeners)
    /\ \A r \in Routes : \A spec \in Versions[r] :
          /\ IsFiniteSet(spec.parents) /\ IsFiniteSet(spec.hostnames)
          /\ spec.rules \in Seq(ToSet(spec.rules))
          /\ \A i \in DOMAIN spec.rules : spec.rules[i].backends \in Seq(Services)

VARIABLES cluster,      \* the API server: key -> spec
          changes,      \* number of changes so far
          pending,      \* the keys queued for the reconcilers
          store,        \* store.ClusterStore: key -> spec
          updates,      \* the keys of ClusterStore.Updates
          tree,         \* the managed and the unmanaged GateTree
          conflicting,  \* gateways of portsWithMutipleListeners
          published,    \* gateway statuses in the cluster
          behind        \* history: objects a batch passed over although
                        \* it changed what they depend on

inputVars == <<cluster, changes, pending, store, updates>>
treeVars  == <<tree, conflicting, published, behind>>
gateVars  == <<inputVars, treeVars>>
-----------------------------------------------------------------------------
(* Specs.  A class and a gateway may have parameters; a listener has a     *)
(* port, a protocol, a hostname, certificates, allowed route kinds and a   *)
(* TLS mode; a route has parents, hostnames and rules, each with a path    *)
(* and backends.  A hostname is its sequence of labels, <<>> if not set.   *)
NoParams    == "none"
Unsupported == "unsupported"
AnySection  == "any"
Upserted    == "UPSERTED"
Deleted     == "DELETED"
Untouched   == ""

(* DOMAIN f without S, and f overridden by g                               *)
Without(f, S) == [k \in DOMAIN f \ S |-> f[k]]
Override(f, g) == [k \in DOMAIN f \cup DOMAIN g |-> IF k \in DOMAIN g THEN g[k] ELSE f[k]]
-----------------------------------------------------------------------------
(* The watches: whose keys a change of object k enqueues besides its own   *)
Known(K) == K \cap DOMAIN cluster'

enqueueGatewayClassForHugGate(k) == {c \in Known(Classes) : cluster'[c].params = k}

enqueueGatewayForHugGate(k) ==
    {g \in Known(Gateways) :
        \/ cluster'[g].params = k
        \/ \E c \in Known(Classes) : c = cluster'[g].class /\ cluster'[c].params = k}

enqueueGatewayForGatewayClass(k) == {g \in Known(Gateways) : cluster'[g].class = k}

enqueueGatewayForSecret(k) ==
    {g \in Known(Gateways) :
        \E l \in DOMAIN cluster'[g].listeners : k \in cluster'[g].listeners[l].certs}

(* A variant of enqueueHTTPRouteForGateway: routes do not watch gateways.  *)
enqueueNoHTTPRoute(k) == {}

enqueueHTTPRouteForGateway(k) ==
    {r \in Known(HTTPRoutes) : \E p \in cluster'[r].parents : p.gateway = k}

enqueueTLSRouteForGateway(k) ==
    {r \in Known(TLSRoutes) : \E p \in cluster'[r].parents : p.gateway = k}

Backends(spec) == UNION {ToSet(rule.backends) : rule \in ToSet(spec.rules)}

enqueueHTTPRouteForService(k) == {r \in Known(HTTPRoutes) : k \in Backends(cluster'[r])}

enqueueTLSRouteForService(k) == {r \in Known(TLSRoutes) : k \in Backends(cluster'[r])}

(* registerControllers: what each reconciler watches besides its own kind  *)
When(cond, S) == IF cond THEN S ELSE {}

GatewayClassWatches(k) == When(k \in HugGates, enqueueGatewayClassForHugGate(k))

GatewayWatches(k) == UNION {When(k \in HugGates, enqueueGatewayForHugGate(k)),
                            When(k \in Classes, enqueueGatewayForGatewayClass(k)),
                            When(k \in Secrets, enqueueGatewayForSecret(k))}

HTTPRouteWatches(k) == When(k \in Gateways, enqueueHTTPRouteForGateway(k))
                         \cup When(k \in Services, enqueueHTTPRouteForService(k))

TLSRouteWatches(k) == When(k \in Gateways, enqueueTLSRouteForGateway(k))
                        \cup When(k \in Services, enqueueTLSRouteForService(k))

Watchers(k) == UNION {GatewayClassWatches(k), GatewayWatches(k),
                      HTTPRouteWatches(k), TLSRouteWatches(k)}

(* A user creates or changes object k, or deletes it.  A gateway that is   *)
(* deleted takes its status along.                                         *)
Change(k) ==
    /\ changes < MaxChanges
    /\ changes' = changes + 1
    /\ \/ \E spec \in Versions[k] :
            /\ k \in DOMAIN cluster => cluster[k] # spec
            /\ cluster' = Override(cluster, [x \in {k} |-> spec])
            /\ UNCHANGED published
       \/ /\ k \in DOMAIN cluster
          /\ cluster' = Without(cluster, {k})
          /\ published' = Without(published, {k})
    /\ pending' = pending \cup {k} \cup Watchers(k)
    /\ UNCHANGED <<store, updates, tree, conflicting, behind>>

(* A reconciler reads object k and the store takes note of it              *)
Reconcile(k) ==
    /\ k \in pending
    /\ pending' = pending \ {k}
    /\ store' = IF k \in DOMAIN cluster THEN Override(store, [x \in {k} |-> cluster[k]])
                ELSE Without(store, {k})
    /\ updates' = updates \cup {k}
    /\ UNCHANGED <<cluster, changes, treeVars>>
-----------------------------------------------------------------------------
(* cleanTreeUpdates: what the last batch deleted leaves the tree           *)
Cleaned(nodes) == [k \in {x \in DOMAIN nodes : nodes[x].status # Deleted} |->
                     [nodes[k] EXCEPT !.status = Untouched]]

cleanTreeUpdates(t) == [kind \in DOMAIN t |-> Cleaned(t[kind])]

InStore(K) == K \cap updates \cap DOMAIN store
Gone(K)    == (K \cap updates) \ DOMAIN store

(* Secrets and services: only whether they exist                           *)
UpdatedNodes(nodes, K) ==
    Override([s \in DOMAIN nodes |-> IF s \in Gone(K) THEN [status |-> Deleted] ELSE nodes[s]],
             [s \in InStore(K) |-> [status |-> Upserted]])

computeTreeSecretUpdate(t) ==
    [t EXCEPT !.secrets = UpdatedNodes(t.secrets, Secrets)]

computeTreeServiceUpdate(t) ==
    [t EXCEPT !.services = UpdatedNodes(t.services, Services)]

Live(nodes, k) == k \in DOMAIN nodes /\ nodes[k].status # Deleted

(* HugGateParamsRefChecker                                                 *)
CheckParamsRef(params) == params = NoParams \/ params \in HugGates \cap DOMAIN store

UpsertedClass(spec) == [status |-> Upserted, valid |-> CheckParamsRef(spec.params)]
DeletedClass        == [status |-> Deleted, valid |-> FALSE]

(* A deleted class stays, invalid, until the next batch.                   *)
computeTreeGatewayClassUpdate(t) ==
    [t EXCEPT !.classes =
        Override([c \in DOMAIN t.classes |-> IF c \in Gone(Classes) THEN DeletedClass ELSE t.classes[c]],
                 [c \in InStore(Classes) |-> UpsertedClass(store[c])])]
-----------------------------------------------------------------------------
(* Gateways.  A node says in which tree it is, the spec and the status of  *)
(* its last update, the outcome of its checks, and its listeners.          *)
Reset(spec, in) == [in |-> in, status |-> Upserted, spec |-> spec,
                    managed |-> FALSE, valid |-> FALSE, listeners |-> <<>>]

checkGatewayClassIsValid(t, spec) == t.classes[spec.class].valid

(* The parameters of the gateway itself; merging them with those of its    *)
(* class has no effect outside the node.                                   *)
checkParametersRef(spec) == CheckParamsRef(spec.params)

(* processManagementChecks of a gateway that was just reset: one whose     *)
(* class is not in the tree stays where it was, or nowhere.                *)
processManagementChecks(t, g, spec) ==
    IF spec.class \notin DOMAIN t.classes THEN Reset(spec, t.gateways[g].in)
    ELSE LET managed == checkGatewayClassIsValid(t, spec)
         IN  [in |-> IF managed THEN "managed" ELSE "unmanaged", status |-> Upserted, spec |-> spec,
              managed |-> managed, valid |-> managed /\ checkParametersRef(spec), listeners |-> <<>>]

computeTreeGatewayUpdate(t) ==
    [t EXCEPT !.gateways =
        Override([g \in DOMAIN t.gateways |->
                     IF g \in Gone(Gateways)
                     THEN [Reset(t.gateways[g].spec, t.gateways[g].in) EXCEPT !.status = Deleted]
                     ELSE t.gateways[g]],
                 [g \in {x \in InStore(Gateways) : x \in DOMAIN t.gateways
                                                   \/ store[x].class \in DOMAIN t.classes} |->
                     processManagementChecks(t, g, store[g])])]

ManagedGateways(t) == {g \in DOMAIN t.gateways : t.gateways[g].in = "managed"}
LiveGateways(t)    == {g \in ManagedGateways(t) : t.gateways[g].status # Deleted}

(* listenersByPort, of the gateways of the managed tree that are not       *)
(* deleted, whatever the outcome of their checks                           *)
listenersByPort(t, port) ==
    {gl \in UNION {{g} \X DOMAIN t.gateways[g].spec.listeners : g \in LiveGateways(t)} :
        t.gateways[gl[1]].spec.listeners[gl[2]].port = port}

portsWithMultipleListeners(t) ==
    {port \in UNION {{l.port : l \in Range(t.gateways[g].spec.listeners)} : g \in LiveGateways(t)} :
        \E one, other \in listenersByPort(t, port) : one # other}

gatewaysWithPortConflicts(t) ==
    {g \in LiveGateways(t) : \E l \in Range(t.gateways[g].spec.listeners) :
        l.port \in portsWithMultipleListeners(t)}

(* A variant of Rechecked: conflicts that are over are forgotten.          *)
RecheckedConflicts(t) == {g \in gatewaysWithPortConflicts(t) : t.gateways[g].status = Untouched}

(* The gateways that are in conflict now or were in the last batch and     *)
(* that this batch did not touch are checked again.                        *)
Rechecked(t) == {g \in (conflicting \cup gatewaysWithPortConflicts(t)) \cap ManagedGateways(t) :
                   t.gateways[g].status = Untouched}

recheckConflicting(t) ==
    [t EXCEPT !.gateways =
        Override(t.gateways,
                 [g \in Rechecked(t) |-> processManagementChecks(t, g, t.gateways[g].spec)])]

SupportedKinds(protocol) == CASE protocol \in {"HTTP", "HTTPS"} -> {"HTTPRoute"}
                              [] protocol = "TLS"               -> {"TLSRoute"}
                              [] OTHER                          -> {}

(* supportedKinds of a listener                                            *)
AllowedRouteKinds(l) == IF l.kinds = {} THEN SupportedKinds(l.protocol)
                        ELSE l.kinds \cap SupportedKinds(l.protocol)

(* The reasons why a listener is not programmed.  Only its protocol is     *)
(* checked if its gateway is not valid; kinds and certificates are not     *)
(* checked for a TLS listener.                                             *)
checkProtocol(l) == IF SupportedKinds(l.protocol) = {} THEN {"UnsupportedProtocol"} ELSE {}

checkRouteGroupKind(l) ==
    IF l.protocol \in {"HTTP", "HTTPS"} /\ ~ l.kinds \subseteq SupportedKinds(l.protocol)
    THEN {"InvalidRouteKinds"} ELSE {}

checkCertificateRefs(t, l) ==
    IF l.protocol = "HTTPS" /\ \E s \in l.certs : ~ Live(t.secrets, s)
    THEN {"InvalidCertificateRef"} ELSE {}

(* A variant of checkConflict: conflicts are only reported.                *)
checkNoConflict(l, ports) == {}

checkConflict(l, ports) == IF l.port \in ports THEN {"Conflicted"} ELSE {}

ListenerConditions(t, node, l, ports) ==
    checkProtocol(l) \cup IF node.valid THEN UNION {checkRouteGroupKind(l), checkCertificateRefs(t, l),
                                                    checkConflict(l, ports)}
                          ELSE {}

buildListener(t, node, l, ports) ==
    LET reasons == ListenerConditions(t, node, l, ports)
    IN  [spec |-> l, reasons |-> reasons, valid |-> reasons = {},
         rivals |-> IF "Conflicted" \in reasons THEN listenersByPort(t, l.port) ELSE {},
         attached |-> {}]

(* A gateway with a conflict is valid if one of its ports has a single     *)
(* listener.                                                               *)
checkListenerConflicts(listeners, ports) ==
    (\E l \in Range(listeners) : "Conflicted" \in l.reasons)
        => \E l \in Range(listeners) : l.spec.port \notin ports

(* Fresh listeners for a managed gateway                                   *)
buildListeners(t, node, ports) ==
    LET ls        == node.spec.listeners
        listeners == [n \in DOMAIN ls |-> buildListener(t, node, ls[n], ports)]
    IN  [in |-> node.in, status |-> node.status, spec |-> node.spec, managed |-> node.managed,
         valid |-> node.valid /\ checkListenerConflicts(listeners, ports), listeners |-> listeners]

(* A route holds pointers to the listeners it is attached to.  Once its    *)
(* gateway has built new listeners, or left the tree, a reference is not   *)
(* current.                                                                *)
Detach(routes, S) ==
    [r \in DOMAIN routes |-> [routes[r] EXCEPT !.refs =
        {[ref EXCEPT !.current = @ /\ ref.gateway \notin S] : ref \in @}]]

(* Tree t with other gateways and routes                                   *)
Rebuilt(t, gateways, routes) ==
    [secrets |-> t.secrets, services |-> t.services, classes |-> t.classes,
     gateways |-> gateways, routes |-> routes]

(* computeGateTreeUpdates of the gateway builder                           *)
computeGateways(t) ==
    LET updated   == computeTreeGatewayUpdate(t)
        ports     == portsWithMultipleListeners(updated)
        checked   == recheckConflicting(updated)
        processed == {g \in ManagedGateways(checked) :
                        checked.gateways[g].status = Upserted /\ checked.gateways[g].managed}
    IN  Rebuilt(checked,
                Override(checked.gateways,
                         [g \in processed |-> buildListeners(updated, checked.gateways[g], ports)]),
                Detach(checked.routes, (Gateways \cap updates) \cup Rechecked(updated)))
-----------------------------------------------------------------------------
(* Hostnames.  "*" is a label; a wildcard matches one label or more.       *)
Wildcard(h)  == h # <<>> /\ Head(h) = "*"
Covers(w, h) == /\ Wildcard(w)
                /\ Len(h) >= Len(w)
                /\ SubSeq(h, Len(h) - Len(w) + 2, Len(h)) = Tail(w)

match(route, listener) == \/ route = listener
                          \/ Covers(listener, route)
                          \/ Covers(route, listener)

matchHostname(hostnames, listener) ==
    \/ listener = <<>>
    \/ hostnames = {}
    \/ \E h \in hostnames : h = <<>> \/ match(h, listener)
-----------------------------------------------------------------------------
(* Routes.  A node says in which trees it is, which may be both, and which *)
(* listeners the route is attached to.                                     *)
isAllowedRouteKind(kind, l) == kind \in AllowedRouteKinds(l)

(* The listeners of a gateway that a parent reference of the route names   *)
(* and that take it                                                        *)
ListenersOf(t, p) ==
    IF p.gateway \notin LiveGateways(t) THEN {}
    ELSE LET node == t.gateways[p.gateway]
         IN  {[gateway |-> p.gateway, listener |-> n, spec |-> node.listeners[n].spec,
               current |-> TRUE] :
                 n \in {x \in DOMAIN node.listeners :
                           node.listeners[x].valid /\ (p.section = AnySection \/ x = p.section)}}

checkHTTPParentRef(t, spec, p) ==
    {ref \in ListenersOf(t, p) :
        /\ matchHostname(spec.hostnames, ref.spec.hostname)
        /\ isAllowedRouteKind("HTTPRoute", ref.spec)}

(* A TLSRoute that names a listener needs it to pass TLS through; one that *)
(* names none may end up on a listener that does not.                      *)
checkTLSParentRef(t, spec, p) ==
    {ref \in ListenersOf(t, p) :
        /\ p.section # AnySection => ref.spec.mode = "Passthrough"
        /\ matchHostname(spec.hostnames, ref.spec.hostname)
        /\ isAllowedRouteKind("TLSRoute", ref.spec)}

checkHTTPParentRefs(t, spec) == UNION {checkHTTPParentRef(t, spec, p) : p \in spec.parents}
checkTLSParentRefs(t, spec)  == UNION {checkTLSParentRef(t, spec, p) : p \in spec.parents}

(* addAttachedRoute and deleteAttachedRoute: a gateway that gains or loses *)
(* a route is upserted, its checks are not run again.                      *)
Attach(l, routes) == [spec |-> l.spec, reasons |-> l.reasons, valid |-> l.valid, rivals |-> l.rivals,
                      attached |-> routes]

Touched(node, listeners) ==
    [in |-> node.in, status |-> Upserted, spec |-> node.spec, managed |-> node.managed,
     valid |-> node.valid, listeners |-> listeners]

addAttachedRoute(gs, r, refs) ==
    [g \in DOMAIN gs |->
        IF \E ref \in refs : ref.gateway = g
        THEN Touched(gs[g],
                [n \in DOMAIN gs[g].listeners |->
                    IF \E ref \in refs : ref.gateway = g /\ ref.listener = n
                    THEN Attach(gs[g].listeners[n], gs[g].listeners[n].attached \cup {r})
                    ELSE gs[g].listeners[n]])
        ELSE gs[g]]

deleteAttachedRoute(t, r) ==
    LET gs   == t.gateways
        refs == t.routes[r].refs
    IN  [g \in DOMAIN gs |->
            IF g \in LiveGateways(t) /\ \E ref \in refs : ref.gateway = g
            THEN Touched(gs[g],
                    [n \in DOMAIN gs[g].listeners |->
                        IF \E ref \in refs : ref.gateway = g /\ ref.listener = n /\ ref.current
                        THEN Attach(gs[g].listeners[n], gs[g].listeners[n].attached \ {r})
                        ELSE gs[g].listeners[n]])
            ELSE gs[g]]

(* SetAsManaged and SetAsUnmanaged of a route: it joins a tree and leaves  *)
(* none; it is a gateway of the same name that leaves the other tree.      *)
Joins(routes, r, in) == Override(routes, [x \in {r} |-> [routes[r] EXCEPT !.in = @ \cup {in}]])

Lost(t, r, in) == {g \in Namesake[r] \cap DOMAIN t.gateways : t.gateways[g].in = in}

SetAsManaged(t, r) ==
    Rebuilt(t, Without(t.gateways, Lost(t, r, "unmanaged")), Joins(t.routes, r, "managed"))

SetAsUnmanaged(t, r) ==
    LET lost == Lost(t, r, "managed")
    IN  Rebuilt(t, Without(t.gateways, lost), Detach(Joins(t.routes, r, "unmanaged"), lost))

(* An upserted route with the listeners it found                           *)
UpsertRoute(t, r, refs) ==
    LET spec  == store[r]
        known == r \in DOMAIN t.routes
        node  == [in |-> IF known THEN t.routes[r].in ELSE {}, status |-> Upserted, spec |-> spec,
                  valid |-> refs # {}, refs |-> refs,
                  rules |-> IF known THEN t.routes[r].rules ELSE <<>>]
        built == Rebuilt(t, addAttachedRoute(t.gateways, r, refs),
                         Override(t.routes, [x \in {r} |-> node]))
    IN  IF refs # {} THEN SetAsManaged(built, r) ELSE SetAsUnmanaged(built, r)

DeletedRoute(node) == [in |-> node.in, status |-> Deleted, spec |-> node.spec, valid |-> node.valid,
                       refs |-> {}, rules |-> node.rules]

DeleteRoute(t, r) ==
    IF r \in DOMAIN t.routes
    THEN Rebuilt(t, deleteAttachedRoute(t, r),
                 Override(t.routes, [x \in {r} |-> DeletedRoute(t.routes[r])]))
    ELSE t

computeTreeHTTPRouteUpdate(t, r) ==
    IF r \in DOMAIN store THEN UpsertRoute(t, r, checkHTTPParentRefs(t, store[r])) ELSE DeleteRoute(t, r)

computeTreeTLSRouteUpdate(t, r) ==
    IF r \in DOMAIN store THEN UpsertRoute(t, r, checkTLSParentRefs(t, store[r])) ELSE DeleteRoute(t, r)

(* checkBackendRef: a rule is valid if its last reference to a service     *)
(* that exists has no other reference before it.                           *)
checkBackendRef(t, backends) ==
    \E last \in DOMAIN backends : \A i \in DOMAIN backends :
        Live(t.services, backends[i]) <=> i <= last

(* The references that pass the check, in their order                      *)
CheckedRefs(t, backends) ==
    LET passed[i \in 0..Len(backends)] ==
          IF i = 0 THEN <<>>
          ELSE passed[i - 1] \o IF Live(t.services, backends[i]) THEN <<backends[i]>> ELSE <<>>
    IN  passed[Len(backends)]

(* The rules of a route; a rule keeps the references that passed the check *)
buildRules(t, rules) ==
    [i \in DOMAIN rules |->
        [path     |-> rules[i].path,
         valid    |-> checkBackendRef(t, rules[i].backends),
         backends |-> CheckedRefs(t, rules[i].backends)]]

(* computeGateTreeUpdates of the two route builders: the routes of a kind  *)
(* in some order, then the rules of those that are upserted and managed    *)
computeTreeRouteUpdate(t, r) == IF r \in HTTPRoutes THEN computeTreeHTTPRouteUpdate(t, r)
                                ELSE computeTreeTLSRouteUpdate(t, r)

computeTreeRouteUpdates(t, routes) ==
    LET built[i \in 0..Len(routes)] == IF i = 0 THEN t
                                       ELSE computeTreeRouteUpdate(built[i - 1], routes[i])
    IN  built[Len(routes)]

WithRules(t, K) ==
    LET managed == {r \in K \cap DOMAIN t.routes : t.routes[r].status = Upserted /\ t.routes[r].valid}
    IN  Rebuilt(t, t.gateways,
                Override(t.routes, [r \in managed |-> [t.routes[r] EXCEPT
                                       !.rules = buildRules(t, t.routes[r].spec.rules)]]))

computeHTTPRoutes(t, routes) == WithRules(computeTreeRouteUpdates(t, routes), HTTPRoutes)
computeTLSRoutes(t, routes)  == WithRules(computeTreeRouteUpdates(t, routes), TLSRoutes)

(* buildGateTree: the builders, in their order.  The routes of a kind are  *)
(* taken in any order.                                                     *)
buildGateTree(http, tls) ==
    LET cleaned  == cleanTreeUpdates(tree)
        classes  == computeTreeGatewayClassUpdate(computeTreeSecretUpdate(cleaned))
        services == computeTreeServiceUpdate(computeGateways(classes))
    IN  computeTLSRoutes(computeHTTPRoutes(services, http), tls)

(* The tree as the gateway builder leaves it before the conflicts          *)
BeforeConflicts ==
    computeTreeGatewayUpdate(computeTreeGatewayClassUpdate(computeTreeSecretUpdate(
        cleanTreeUpdates(tree))))
-----------------------------------------------------------------------------
(* The status of a gateway: BuildConditions, newGatewayStatusPatcher       *)
GatewayConditions(node) ==
    LET conflicted == \E l \in Range(node.listeners) : "Conflicted" \in l.reasons
    IN  IF ~ node.managed THEN {}
        ELSE {CASE node.valid /\ ~ conflicted -> "Accepted"
                [] node.valid /\ conflicted   -> "SomeListenersNotValid"
                [] ~ node.valid /\ conflicted -> "ListenersNotValid"
                [] OTHER                      -> "InvalidParameters"}

GatewayStatus(node) ==
    [conditions |-> GatewayConditions(node),
     observed   |-> IF node.managed THEN {node.spec} ELSE {},
     listeners  |-> IF node.valid
                    THEN [n \in DOMAIN node.listeners |->
                            LET l == node.listeners[n]
                            IN  [reasons |-> l.reasons, rivals |-> l.rivals,
                                 kinds |-> AllowedRouteKinds(l.spec),
                                 attachedRoutes |-> Cardinality(l.attached)]]
                    ELSE <<>>]

(* A variant of Republished: statuses are written without a comparison.    *)
RepublishedAlways(t) == {g \in ManagedGateways(t) \cap DOMAIN cluster : t.gateways[g].status = Upserted}

(* The gateways whose status a batch that built tree t changes             *)
Republished(t) ==
    {g \in ManagedGateways(t) \cap DOMAIN cluster :
        /\ t.gateways[g].status = Upserted
        /\ g \in DOMAIN published => published[g] # GatewayStatus(t.gateways[g])}

(* What the verdict on an object depends on.  The change that enqueued a   *)
(* dependency enqueued the object too, but its key may have been taken in  *)
(* an earlier batch: then nothing queues it again, and it is behind until  *)
(* it is an update for another reason.  A route is told of a change of its *)
(* gateway by the status, but not when the gateway changes trees.          *)
(* A gateway that is checked again and leaves the managed tree does so     *)
(* after the conflicts were looked for.                                    *)
Dependencies(k) ==
    CASE k \in Classes  -> {store[k].params}
      [] k \in Gateways -> {store[k].class, store[k].params}
                              \cup UNION {l.certs : l \in Range(store[k].listeners)}
      [] k \in Routes   -> Backends(store[k]) \cup {p.gateway : p \in store[k].parents}
      [] OTHER          -> {}

Moved(t) == {g \in Gateways : (g \in LiveGateways(tree)) # (g \in LiveGateways(t))}

Missed(t) ==
    {k \in DOMAIN store \ (updates \cup (Rechecked(BeforeConflicts) \cap LiveGateways(t))) :
        k \in behind \/ Dependencies(k) \cap ((updates \ Gateways) \cup Moved(t)) # {}}

(* HandleEventBatch, as far as the tree and the gateways' statuses go      *)
Batch ==
    /\ updates # {}
    /\ \E http \in SetToSeqs(HTTPRoutes \cap updates), tls \in SetToSeqs(TLSRoutes \cap updates) :
          tree' = buildGateTree(http, tls)
    /\ conflicting' = gatewaysWithPortConflicts(BeforeConflicts)
    /\ published' = Override(published,
                      [g \in Republished(tree') |-> GatewayStatus(tree'.gateways[g])])
    /\ UNCHANGED <<cluster, changes, store>>
    /\ pending' = pending \cup UNION {Watchers(g) : g \in Republished(tree')}
    /\ updates' = {}
    /\ behind' = Missed(tree')

EmptyTree == [kind \in {"secrets", "services", "classes", "gateways", "routes"} |-> <<>>]

GateInit ==
    /\ cluster \in StartClusters
    /\ changes = 0
    /\ pending = DOMAIN cluster
    /\ store = <<>> /\ updates = {}
    /\ tree = EmptyTree
    /\ conflicting = {} /\ published = <<>> /\ behind = {}

Input == \E k \in Keys : Change(k) \/ Reconcile(k)
-----------------------------------------------------------------------------
(* Verdicts, from the objects of the store                                 *)
ValidClass(c) == c \in Classes \cap DOMAIN store /\ CheckParamsRef(store[c].params)

Managed == {g \in Gateways \cap DOMAIN store : ValidClass(store[g].class)}

(* A gateway that was managed when its class left the tree keeps its place *)
(* there, and its ports.                                                   *)
Lingering == {g \in LiveGateways(tree) \cap DOMAIN store : store[g].class \notin Classes \cap DOMAIN store}

SharedPort(port) ==
    \E g, h \in Managed \cup Lingering :
        \E n \in DOMAIN store[g].listeners, m \in DOMAIN store[h].listeners :
            /\ <<g, n>> # <<h, m>>
            /\ store[g].listeners[n].port = port
            /\ store[h].listeners[m].port = port

ServedListeners(g) ==
    {n \in DOMAIN store[g].listeners :
        LET l == store[g].listeners[n]
        IN  /\ l.protocol \in {"HTTP", "HTTPS", "TLS"}
            /\ l.protocol \in {"HTTP", "HTTPS"} => l.kinds \subseteq {"HTTPRoute"}
            /\ l.protocol = "HTTPS" => l.certs \subseteq Secrets \cap DOMAIN store
            /\ ~ SharedPort(l.port)}

(* Gateway g is served, with these listeners, as the store asks            *)
ServedAsStored(g) ==
    LET node   == tree.gateways[g]
        served == g \in LiveGateways(tree) /\ node.valid
    IN  IF g \in Managed /\ CheckParamsRef(store[g].params) /\ ServedListeners(g) # {}
        THEN served /\ {n \in DOMAIN node.listeners : node.listeners[n].valid} = ServedListeners(g)
        ELSE served => {n \in DOMAIN node.listeners : node.listeners[n].valid} = {}

(* Between batches, if every batch had the objects that depend on what it  *)
(* changed, the gateways that are served, and their listeners, are those   *)
(* the objects of the store ask for, whatever changed in which order: the  *)
(* listener conflicts are those between the gateways as they are now.      *)
GatewaysCurrent == updates = {} /\ behind = {} => \A g \in Gateways : ServedAsStored(g)
=============================================================================
