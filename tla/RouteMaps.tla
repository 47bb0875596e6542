------------------------------ MODULE RouteMaps ------------------------------
(***************************************************************************)
(* The maps HAProxy routes with (k8s/gate/haproxy/routes.go,               *)
(* routes-maps.go, storage/maps.go, storage/maps/maps.go) on top of the    *)
(* tree and the frontends.                                                 *)
(*                                                                         *)
(* A batch that upserts a route writes entries into the maps of the        *)
(* frontends the route is attached to, in memory and on disk, and repeats  *)
(* the changes on the running process.  A command the process refuses cuts *)
(* the rest of them short; a reload loads the maps from disk.              *)
(***************************************************************************)
EXTENDS Frontends

CONSTANT StartupMaps  \* the entries of the map files found at startup

VARIABLES maps,     \* MapsStorage.Maps: entry -> value, in memory and on disk
          process,  \* the running process: the frontends and maps it loaded
          cut       \* history: a sync was cut short since the last reload

mapVars == <<maps, process, cut>>
vars    == <<servingVars, mapVars>>
-----------------------------------------------------------------------------
(* An entry is a key in one of the maps of a frontend.                     *)
Entry(fe, map, host, path) == [frontend |-> fe, map |-> map, host |-> host, path |-> path]

MapOf(e) == <<e.frontend, e.map>>

(* GetHostnamesForRouteWithListener                                        *)
hostnamesMatchingRouteAndListener(pattern, hostname) ==
    IF Wildcard(pattern) THEN Covers(pattern, hostname) ELSE pattern = hostname

GetHostnamesForRouteWithListener(listener, hostnames) ==
    CASE listener = <<>>  -> hostnames
      [] hostnames = {}   -> {listener}
      [] OTHER -> {listener : h \in {x \in hostnames :
                                       hostnamesMatchingRouteAndListener(x, listener)}}
                    \cup {h \in hostnames :
                            /\ ~ hostnamesMatchingRouteAndListener(h, listener)
                            /\ hostnamesMatchingRouteAndListener(listener, h)}

(* The maps with the commands for the process: MapData, DynamicMapUpdates. *)
(* Delete lists the keys deleted from each map.                            *)
NoUpdates(data) == [data |-> data, Add |-> <<>>, Update |-> <<>>, Delete |-> <<>>]

AddData(m, e, value) ==
    LET put(f) == Override(f, [x \in {e} |-> value])
        exists == e \in DOMAIN m.data
    IN  [data |-> put(m.data), Delete |-> m.Delete,
         Add |-> IF exists THEN m.Add ELSE put(m.Add),
         Update |-> IF exists THEN put(m.Update) ELSE m.Update]

DeleteList(m, x) == IF x \in DOMAIN m.Delete THEN m.Delete[x] ELSE <<>>

DeleteData(m, e) ==
    [data |-> Without(m.data, {e}), Add |-> m.Add, Update |-> m.Update,
     Delete |-> Override(m.Delete, [x \in {MapOf(e)} |-> Append(DeleteList(m, x), e)])]

(* onValidHTTPRouteUpserted and onValidTLSRouteUpserted, for one listener: *)
(* the entries of each rule, in order.  An HTTPRoute takes every hostname  *)
(* of the route and then those it shares with the listener.                *)
PathMap(path, host) == CASE path.type = "Exact" /\ Wildcard(host)  -> "domain_wildcard_path_exact"
                         [] path.type = "Exact" /\ ~Wildcard(host) -> "path_exact"
                         [] path.type = "Prefix"                   -> "path_prefix"
                         [] OTHER                                  -> "path_regex"

SNIMap(host) == IF Wildcard(host) THEN "domain_wildcard_sni" ELSE "sni"

onValidHTTPRouteUpserted(node, ref) ==
    LET hosts == SetToSeq(node.spec.hostnames)
                   \o SetToSeq(GetHostnamesForRouteWithListener(ref.spec.hostname, node.spec.hostnames))
        Step(rule) == [j \in DOMAIN hosts |->
                          [rule |-> rule,
                           entry |-> Entry(<<ref.gateway, ref.listener>>,
                                           PathMap(rule.path, hosts[j]), hosts[j], rule.path.value)]]
    IN  FlattenSeq([i \in DOMAIN node.rules |-> Step(node.rules[i])])

(* An invalid rule of a TLSRoute deletes from the map of exact names only. *)
onValidTLSRouteUpserted(node, ref) ==
    LET hosts == SetToSeq(GetHostnamesForRouteWithListener(ref.spec.hostname, node.spec.hostnames))
        Step(rule) == [j \in DOMAIN hosts |->
                          [rule |-> rule,
                           entry |-> Entry(<<ref.gateway, ref.listener>>,
                                           IF rule.valid THEN SNIMap(hosts[j]) ELSE "sni",
                                           hosts[j], <<>>)]]
    IN  FlattenSeq([i \in DOMAIN node.rules |-> Step(node.rules[i])])

ApplyRule(m, step) == IF step.rule.valid THEN AddData(m, step.entry, step.rule.backends)
                      ELSE DeleteData(m, step.entry)

ApplyRules(m, steps) ==
    LET applied[i \in 0..Len(steps)] == IF i = 0 THEN m ELSE ApplyRule(applied[i - 1], steps[i])
    IN  applied[Len(steps)]

(* onDeletedHTTPRoute and onDeletedTLSRoute: every entry of every hostname *)
Deletion(entry) == [rule |-> [path |-> <<>>, valid |-> FALSE, backends |-> <<>>], entry |-> entry]

onDeletedHTTPRoute(node, ref) ==
    LET hosts == SetToSeq(node.spec.hostnames)
        Step(path) == [j \in DOMAIN hosts |->
                          Deletion(Entry(<<ref.gateway, ref.listener>>, PathMap(path, hosts[j]),
                                         hosts[j], path.value))]
    IN  FlattenSeq([i \in DOMAIN node.rules |-> Step(node.rules[i].path)])

onDeletedTLSRoute(node, ref) ==
    LET hosts == SetToSeq(node.spec.hostnames)
    IN  [j \in DOMAIN hosts |->
            Deletion(Entry(<<ref.gateway, ref.listener>>, SNIMap(hosts[j]), hosts[j], <<>>))]

(* onUpsertedHTTPRoute and onUpsertedTLSRoute: a route that is not valid   *)
(* is left alone                                                           *)
onUpsertedHTTPRoute(node, ref) == IF node.valid THEN onValidHTTPRouteUpserted(node, ref) ELSE <<>>
onUpsertedTLSRoute(node, ref)  == IF node.valid THEN onValidTLSRouteUpserted(node, ref) ELSE <<>>

(* What the route was before the batch, as setResourceStatus keeps it: its *)
(* listeners are in a KeyMap, whose DeepCopy leaves out values that have   *)
(* no DeepCopy of their own, and slices of listeners have none.            *)
DeepCopy(node) == [node EXCEPT !.refs = {}]

OldTreeResource(r) == IF r \in DOMAIN tree.routes THEN DeepCopy(tree.routes[r]) ELSE [refs |-> {}]

(* The routes of the managed tree that the batch touched                   *)
FilledRoutes(t) == {r \in DOMAIN t.routes : /\ "managed" \in t.routes[r].in
                                            /\ t.routes[r].status # Untouched}

PerListener(Steps(_, _), node) == LET refs == SetToSeq(node.refs)
                                  IN  FlattenSeq([i \in DOMAIN refs |-> Steps(node, refs[i])])
PerRoute(Steps(_), routes) == FlattenSeq([i \in DOMAIN routes |-> Steps(routes[i])])

(* First the entries of the routes as they were are deleted, then those of *)
(* the routes as they are are written, or deleted, listener by listener.   *)
fillMapsForHTTPRoutes(t, m, routes) ==
    LET Touch(node, ref) == IF node.status = Deleted THEN onDeletedHTTPRoute(node, ref)
                            ELSE onUpsertedHTTPRoute(node, ref)
        Clean(r) == PerListener(onDeletedHTTPRoute, OldTreeResource(r))
        Fill(r)  == PerListener(Touch, t.routes[r])
    IN  ApplyRules(m, PerRoute(Clean, routes) \o PerRoute(Fill, routes))

fillMapsForTLSRoutes(t, m, routes) ==
    LET Touch(node, ref) == IF node.status = Deleted THEN onDeletedTLSRoute(node, ref)
                            ELSE onUpsertedTLSRoute(node, ref)
        Clean(r) == PerListener(onDeletedTLSRoute, OldTreeResource(r))
        Fill(r)  == PerListener(Touch, t.routes[r])
    IN  ApplyRules(m, PerRoute(Clean, routes) \o PerRoute(Fill, routes))

(* fillMaps: HTTPRoutes, then TLSRoutes, those of a kind in any order      *)
fillMaps(t, http, tls) ==
    fillMapsForTLSRoutes(t, fillMapsForHTTPRoutes(t, NoUpdates(maps), http), tls)
-----------------------------------------------------------------------------
(* The process (external).  It refuses to delete or to set a key it has    *)
(* not; adding a key it has is "already exists" and changes nothing.       *)
Commands(f, S) == [e \in {y \in DOMAIN f : MapOf(y) \in S} |-> f[e]]

(* The deletions of map x, the last one first; is the i-th one refused?    *)
DeletesOf(m, x) == Reverse(DeleteList(m, x))

DeleteRefused(m, x, i) == \/ DeletesOf(m, x)[i] \notin DOMAIN process.maps
                          \/ \E j \in 1..(i - 1) : DeletesOf(m, x)[j] = DeletesOf(m, x)[i]

DeletesRefused(m, x) == \E i \in 1..Len(DeletesOf(m, x)) : DeleteRefused(m, x, i)

DeletedKeys(m, S) == UNION {ToSet(DeleteList(m, x)) : x \in S}

Remaining(m, x) == DOMAIN process.maps \ DeletedKeys(m, {x})

(* A command on map x is refused: the process does not know the map, a key *)
(* to delete or to set is not there.                                       *)
Refuses(m, x) == \/ x[1] \notin process.known
                 \/ DeletesRefused(m, x)
                 \/ ~ DOMAIN Commands(m.Update, {x}) \subseteq Remaining(m, x)

(* A variant of SyncMaps: deletions come last.                             *)
SyncMapsDeletingLast(m, pm, S) ==
    Without(Override(Commands(m.Add, S), Override(pm, Commands(m.Update, S))), DeletedKeys(m, S))

(* The maps of the process after the commands on the maps in S: for each   *)
(* of them, deletions, then updates, then additions                        *)
SyncMaps(m, pm, S) ==
    LET deleted == Without(pm, DeletedKeys(m, S))
    IN  Override(Commands(m.Add, S), Override(deleted, Commands(m.Update, S)))

(* ... after the commands on map x before the one that is refused; updates *)
(* are sent in any order                                                   *)
CutMaps(m, pm, x) ==
    LET ds   == DeletesOf(m, x)
        sets == Commands(m.Update, {x})
    IN  CASE x[1] \notin process.known -> {pm}
          [] x[1] \in process.known /\ DeletesRefused(m, x) ->
                {Without(pm, {ds[j] : j \in 1..(i - 1)}) :
                    i \in {n \in 1..Len(ds) : DeleteRefused(m, x, n)
                                             /\ \A j \in 1..(n - 1) : ~ DeleteRefused(m, x, j)}}
          [] OTHER -> {Override(Without(pm, DeletedKeys(m, {x})), [e \in S |-> sets[e]]) :
                          S \in SUBSET (DOMAIN sets \cap Remaining(m, x))}

(* runtimeMapSync: the maps in any order, up to the first refusal, which   *)
(* is logged and nothing else                                              *)
runtimeMapSync(m) ==
    LET touched == {MapOf(e) : e \in DOMAIN m.Add \cup DOMAIN m.Update} \cup DOMAIN m.Delete
        refused == {x \in touched : Refuses(m, x)}
        Synced(done) == SyncMaps(m, process.maps, done)
    IN  IF refused = {}
        THEN /\ process' = [known |-> process.known, maps |-> Synced(touched)]
             /\ UNCHANGED cut
        ELSE /\ \E x \in refused, done \in SUBSET (touched \ refused) :
                  \E pm \in CutMaps(m, Synced(done), x) :
                     process' = [known |-> process.known, maps |-> pm]
             /\ cut' = TRUE

(* writeMaps: the files hold what is in memory                             *)
WriteOnDisk(m) == m.data

(* processRoutes, as a part of ComputeDiffs                                *)
processRoutes(t) ==
    \E http \in SetToSeqs(HTTPRoutes \cap FilledRoutes(t)),
       tls \in SetToSeqs(TLSRoutes \cap FilledRoutes(t)) :
          LET m == fillMaps(t, http, tls)
          IN  maps' = WriteOnDisk(m) /\ runtimeMapSync(m)

(* A reload, asked for by a batch or for any other reason, is over.        *)
Reload ==
    /\ process' = [known |-> DOMAIN frontends,
                   maps  |-> [e \in {x \in DOMAIN maps : x.frontend \in DOMAIN frontends} |-> maps[e]]]
    /\ cut' = FALSE
    /\ UNCHANGED <<servingVars, maps>>
-----------------------------------------------------------------------------
Init == /\ FrontendsInit
        /\ maps = StartupMaps
        /\ process = [known |-> StartupFrontends,
                      maps  |-> [e \in {x \in DOMAIN maps : x.frontend \in StartupFrontends} |-> maps[e]]]
        /\ cut = FALSE

Next == \/ Input /\ UNCHANGED <<frontVars, certVars, mapVars>>
        \/ HandleEventBatch /\ processRoutes(tree')
        \/ Reload

Spec == Init /\ [][Next]_vars

(* A reconciler takes every key that is queued, and the event loop handles *)
(* every batch (EventLoop shows that it does).  Only Reconcile takes a key *)
(* out of the queue and only a batch empties the updates.                  *)
Taken(k) == k \in pending /\ pending' = pending \ {k}
Handled  == updates # {} /\ updates' = {}

FairSpec == Spec /\ (\A k \in Keys : WF_pending(Taken(k))) /\ WF_updates(Handled)
-----------------------------------------------------------------------------
(* The process routes with the maps as they are in memory and on disk,     *)
(* unless it refused a command since it was last loaded: replaying the     *)
(* additions, updates and deletions of a batch, whatever order routes and  *)
(* rules made them in, is the same as loading the result.                  *)
MapsInSync ==
    ~ cut => process.maps = [e \in {x \in DOMAIN maps : x.frontend \in process.known} |-> maps[e]]

(* The listeners that should serve route r, from the specs alone           *)
Attachable(r, g, n) ==
    LET l    == tree.gateways[g].listeners[n]
        kind == IF r \in HTTPRoutes THEN "HTTPRoute" ELSE "TLSRoute"
    IN  /\ l.valid
        /\ \E p \in store[r].parents : p.gateway = g /\ p.section \in {AnySection, n}
        /\ l.spec.kinds = {} \/ kind \in l.spec.kinds
        /\ IF r \in HTTPRoutes THEN l.spec.protocol \in {"HTTP", "HTTPS"}
           ELSE l.spec.protocol = "TLS" /\ l.spec.mode = "Passthrough"

(* The entries rule i of a route with this spec needs on a listener with   *)
(* frontend fe and this hostname                                           *)
RouteEntries(r, spec, i, fe, hostname) ==
    LET path == spec.rules[i].path
    IN  {IF r \in HTTPRoutes THEN Entry(fe, PathMap(path, h), h, path.value)
         ELSE Entry(fe, SNIMap(h), h, <<>>) :
            h \in GetHostnamesForRouteWithListener(hostname, spec.hostnames)}

NeededEntries(r, i, g, n) ==
    RouteEntries(r, store[r], i, <<g, n>>, store[g].listeners[n].hostname)

(* ... and those it may write or delete there                              *)
Reaches(r, spec, i, hostname, e) ==
    /\ e.host \in spec.hostnames \cup GetHostnamesForRouteWithListener(hostname, spec.hostnames)
    /\ IF r \in HTTPRoutes THEN /\ e.map = PathMap(spec.rules[i].path, e.host)
                                /\ e.path = spec.rules[i].path.value
       ELSE e.map \in {"sni", "domain_wildcard_sni"}

(* No later rule of the route and no other route writes to the same entry. *)
WritesTo(r, i, e) ==
    Reaches(r, store[r], i, store[e.frontend[1]].listeners[e.frontend[2]].hostname, e)

Alone(e, r, i) ==
    \A x \in Routes \cap DOMAIN store : \A j \in DOMAIN store[x].rules :
        x # r \/ j > i => ~ WritesTo(x, j, e)

(* The entries that have to lead to the backends of rule i of route r      *)
DueEntries(r, i, g, n) ==
    LET backends == store[r].rules[i].backends
    IN  IF Attachable(r, g, n) /\ backends # <<>> /\ ToSet(backends) \subseteq DOMAIN store
        THEN {e \in NeededEntries(r, i, g, n) : Alone(e, r, i)}
        ELSE {}

(* The routes that have nothing queued and are not behind: no batch passed *)
(* them over since they were last built when it changed one of their       *)
(* services, or moved one of their gateways between the trees.  Nothing    *)
(* brings a route that is behind up to date.  The gateways that still      *)
(* exist                                                                   *)
QuietRoutes   == (Routes \cap DOMAIN store) \ (pending \cup behind)
QuietGateways == LiveGateways(tree) \cap DOMAIN store \cap DOMAIN cluster

(* Route r is in the maps of every listener that accepts it, with its      *)
(* backends                                                                *)
InItsMaps(r) ==
    \A g \in QuietGateways :
        \A i \in DOMAIN store[r].rules, n \in DOMAIN tree.gateways[g].listeners :
            \A e \in DueEntries(r, i, g, n) :
                e \in DOMAIN maps /\ maps[e] = store[r].rules[i].backends

(* A route with nothing queued that is not behind is in its maps: of new,  *)
(* changed and cured listeners of a gateway that stays in its tree, routes *)
(* need no more than what the gateway's status tells them.                 *)
RoutesServed == updates = {} => \A r \in QuietRoutes : InItsMaps(r)

(* Where HAProxy sends a request with this host and path: to the value of  *)
(* the first map that has an answer, for prefixes the longest.  A key with *)
(* a wildcard is compared as it stands.  Regular expressions are left out. *)
Answers(fe, rule, host, path) ==
    {e \in DOMAIN maps :
        /\ MapOf(e) = <<fe, rule.map>>
        /\ CASE rule.how = "map"     -> e.path = path /\ e.host = (IF rule.by = "path" THEN <<>> ELSE host)
             [] rule.how = "map_beg" -> /\ IsPrefix(e.path, path)
                                        /\ e.host = (IF rule.by = "path" THEN <<>> ELSE host)
             [] rule.how = "map_end" -> e.path = path /\ IsSuffix(e.host, host)
             [] OTHER                -> FALSE}

Routed(fe, host, path) ==
    LET answering == SelectSeq(frontends[fe].routing, LAMBDA rule : Answers(fe, rule, host, path) # {})
        answers   == Answers(fe, Head(answering), host, path)
    IN  IF answering = <<>> THEN <<>>
        ELSE maps[CHOOSE e \in answers : \A other \in answers : Len(other.path) <= Len(e.path)]

(* A request for a name that is not a wildcard gets to the backends of the *)
(* route: the frontend looks it up in the map that has the entry, and no   *)
(* map it asks before has another answer.                                  *)
RequestsRouted ==
    updates = {} =>
        \A r \in QuietRoutes, g \in QuietGateways :
            \A i \in DOMAIN store[r].rules, n \in DOMAIN tree.gateways[g].listeners :
                \A e \in DueEntries(r, i, g, n) :
                    tree.gateways[g].valid /\ ~ Wildcard(e.host) =>
                        Routed(<<g, n>>, e.host, e.path) = store[r].rules[i].backends

(* Statuses are published because routes attach, and routes are looked at  *)
(* again because a status was published: this comes to an end.             *)
Settles == <>[](pending = {} /\ updates = {})

(* Once nothing is queued, every entry of the maps is one that a rule of a *)
(* route of the store asks for, on some listener: fillMapsForHTTPRoutes    *)
(* and fillMapsForTLSRoutes say they clean up after the route as it was.   *)
NoStaleEntries ==
    updates = {} /\ pending = {} =>
        \A e \in DOMAIN maps :
            \E r \in Routes \cap DOMAIN store :
                /\ store[r].hostnames = {} \/ e.host \in store[r].hostnames
                /\ \E i \in DOMAIN store[r].rules :
                      r \in HTTPRoutes => store[r].rules[i].path.value = e.path
=============================================================================
