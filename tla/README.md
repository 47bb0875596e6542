# Verification of the HAProxy Unified Gateway

TLA+ models of the control path of the HAProxy Unified Gateway (HUG): from a
change of a Kubernetes object to the HAProxy process that serves it, and back to
the status of the object. The models are checked with TLC on small instances;
all but one of the safety properties that hold (`RequestsRouted`) are proved with TLAPS
for every value of the constants.
`PROJECT.json` maps definitions to source lines and lists runs, mutants,
hazards, findings and theorems.

## The system

HUG is a Kubernetes Gateway API controller that runs beside one HAProxy.

| Component (source) | State it keeps | Operations |
|---|---|---|
| Reconcilers (`k8s/gate/reconciler.go`, `register.go`, `controller.go`, `enqueuefor.go`) | none; the informer cache and work queues are controller-runtime's | map a change to the keys of the objects it concerns; Reconcile: Get an object, send an upsert or delete event |
| Event loop (`k8s/gate/handler/monitor.go`) | two batches, timer, `handling`, `isStartup` | receive an event, timer, swap batches, handler done, shutdown |
| Object store (`k8s/gate/store`) | objects and the updates of the current batch, per kind | upsert, delete, resetUpdates |
| Batch handler (`k8s/gate/handler/batch.go`, `tree.go`) | owns all of the below | one pass per batch: store, tree, configuration, send, status |
| Gate tree (`k8s/gate/tree`) | GatewayClasses, Gateways, listeners, routes, Services and Secrets with a tree status, in a managed and an unmanaged tree | one builder per kind: clean up, compute tree updates |
| Configuration manager (`k8s/gate/haproxy`) | `structured` (the wanted configuration), `diffs`, backend owners, frontends per gateway, first-sync sets | ComputeDiffs: gateways, certificates, routes, maps, cleanup, servers |
| Certificates (`haproxy/certificates.go`, `tree/certificate_builder.go`, `references`, `haproxy/storage`) | referenced secrets, PEM files, crt-lists | write files, update the process through its socket |
| Route maps (`haproxy/routes.go`, `routes-maps.go`, `storage/maps.go`) | map files and their dynamic updates | fill, write, synchronise with the process |
| Reload manager (`hug/reload`) | flags reload, attempted, failed (a singleton without lock) | SetReload, Attempt..., Set...Failure, Reset, NeedReload |
| AppManager (`hug/haproxy/main.go`) | the diff in hand | receive, apply in a transaction, commit, reload |
| Configuration client (`hug/haproxy/api`) | active transaction | create, edit, delete sections; start, commit, dispose |
| Process control (`hug/haproxy/process`) | none; signals a supervisor | start, stop, reload |
| Startup (`hug/startup`) | none | parse the file into `structured` |
| Status updater (`k8s/gate/status`) | none | read, compare, update or patch with retries |

Interaction: a change enqueues the object and, through the watches, the objects
that refer to it, each for the reconciler of its kind; reconcilers send events on
an unbuffered channel to the loop; the loop starts at most one handler goroutine
and hands it a slice; the handler sends diffs on a channel of capacity 100 to the
AppManager goroutine; handler and AppManager share the reload manager and,
through pointers, parts of the diffs; both talk to HAProxy, one through the
runtime socket, the other through the file and reloads. A status the handler
publishes changes the object and so comes back as an event.

Hard behaviours: the loop goes on while a batch is handled (interleaving, slice
reuse); updates of one object collapse within a batch; the objects one change
concerns arrive in any order and in different batches; batches go on while
earlier diffs wait (shared pointers, a reset reload flag); calls of the
configuration client, of the runtime socket and of the API server fail in the
middle; caches are behind or ahead; after a restart the files hold what nothing
asks for any more.

What makes each part correct:

* reconcilers and loop: no change is lost or applied out of order, nothing
  waits for ever, shutdown ends;
* object store: updates are the difference between two snapshots;
* gate tree: what is served is a function of the objects, whatever order they
  came in; no port is served twice; the feedback through statuses ends;
* frontends, certificates, maps: exactly what the tree asks for, in the
  configuration, on disk and in the process;
* backends and servers: no orphan, nothing deleted that is in use, mode and
  metadata of today's routes, the servers of today's endpoints;
* configuration manager and AppManager: the file becomes the wanted
  configuration, a commit is whole, the process serves what the file says;
* status updater: a success is a success, other controllers' entries survive,
  it always ends.

## Modules

| Module | Models | Extends |
|---|---|---|
| `ObjectStore` | `objectStoreImpl`: upsert, delete, resetUpdates | |
| `BatchDiff` | the abstract promise of the store: base snapshot, current objects, touched keys | |
| `EventLoop` | reconcilers, loop and the store part of the handler | `ObjectStore` |
| `GateTree` | watches, store, tree builders, listener conflicts, attachment, gateway statuses | |
| `Frontends` | frontends per gateway, references, certificate files, crt-lists, runtime certificate commands | `GateTree` |
| `RouteMaps` | map entries, dynamic updates, runtime synchronisation, routing of a request | `Frontends` |
| `BackendOwners` | which backends the routes ask for (`backends.go`) | |
| `BackendServers` | which servers the backends get (`servers.go`) | `BackendOwners` |
| `ConfSync` | batch handler phases, channel, AppManager, reload manager, HAProxy | |
| `StatusUpdate` | the status updater against a cache, the API server and other writers | |
| `MC*` | instances for TLC | |
| `ObjectStoreProofs`, `EventLoopProofs`, `BackendOwnersProofs`, `BackendServersProofs`, `FrontendsProofs` (also on `GateTree`), `ConfSyncProofs`, `StatusUpdateProofs` | theorems about the module of that name | that module |
| `RouteMapsProofs` | theorems about `RouteMaps` | `RouteMaps`, `FrontendsProofs` |

`EventLoop` looks at how events travel, `GateTree` and the modules on it at what
they do: there a reconcile and a batch are single steps, which `EventLoop`
justifies (batches are isolated, every key's last state arrives, in order).
`Frontends` and `RouteMaps` take the reload a batch asks for to be over, sooner
or later; what goes wrong on the way is the subject of `ConfSync`.

**ObjectStore.** The maps become total functions: an object that is not `live`
is a missing key, an update of status `""` a missing entry. `ver` is a ghost
number of the object's state; no action reads it.

**EventLoop.** One action per case of the select of `Start`, per outcome of the
select of `Reconcile`, and per step of `HandleEventBatch` that touches the store;
the rest of `HandleEventBatch` is the one step `HandleRest`. The two slices are
`buf`, and `nextBuf` tells which one belongs to `nextBatch`. A Get that fails
puts the key back into the queue and is not an action. The environment
(`CacheChange`, `Cancel`, one worker per kind) is external.

**GateTree.** A Go map is a function whose domain is the set of its keys.
`Change` is a user's create, update or delete with the enqueue functions of all
watches; `Reconcile` copies one object into the store; `Batch` runs the builders
in the order of `Build` on the keys that were updated, publishes the gateway
statuses that differ, and enqueues the routes of those gateways. The nodes of the
managed and the unmanaged tree of a kind are one function with a field `in`; a
route may be in both, as in the code, and it is a gateway of the same name
(`Namesake`) that a route throws out of the other tree. Routes keep references to
listener objects: `current` says whether the gateway still has that object. The
status of a gateway keeps of its conditions what tells two statuses apart.
`behind` is a history variable: the objects whose dependencies changed in a batch
that did not have them, and the gateways whose ports such a batch computed
although they left the tree in it. A change enqueues the objects that depend on
it, but through another reconciler: the dependent may be handled in an earlier
batch than what it depends on. Then it is wrong, nothing is queued, and it stays
so until some later event of its own. The properties leave objects in `behind` out;
"What the conditions hide" below says what TLC finds without this.

**Frontends.** A frontend is its bind, mode and the order in which it looks
maps up. Names of frontends and crt-lists are the listener's key. A secret is a
function from the types of its key pairs to their contents; the last type in the
order of `NewCertificateData` is the certificate. A file is known by its secret and
type: crt-lists and deletions use the path of type tls (`CertPath`), the certificate
itself the path of its own type (`DataPath`), and only where both are the same is
there a directory to write to (`Writable`). The error of the write is dropped, so
that crt-lists and runtime commands go on. HAProxy's
runtime commands on certificates and crt-lists are external and refuse what
HAProxy refuses; a refused command leaves any part of the batch's commands done.

**RouteMaps.** A hostname is its labels, a path its segments; an entry is a key
of one of the maps of a frontend. `MapData` with its three lists of dynamic
updates, the two passes of `fillMaps` (old state, new state) and the early
returns of `runtimeMapSync` are as in the code. The old state has no listeners,
because `KeyMap.DeepCopy` skips values without a `DeepCopy` method (`DeepCopy`).
`cut` remembers that a command was refused since the last reload. Two properties
say that routes work: `RoutesServed` that their entries are in the maps with
their backends, `RequestsRouted` that a request with the host and path of such
an entry ends at these backends, through HAProxy's lookups (`Answers`,
`Routed`).

**BackendOwners.** A batch says of every route: unchanged, upserted with the
backends of its valid references, invalid, or deleted. `HandleRoute` makes the
code's calls for it: `add` for what it names, `remove` for what it is an owner of
and no longer names (`upsertRouteBackends`), or `remove` for all (`onDeletedRoute`),
with the impacted backends of each. A call reads and writes the entries of its
own route only, so that the loop over the routes is one set of results. `refs`, what
the routes of the cluster refer to, is a ghost: no action reads it, and the
properties compare the configuration with it. `ComputeDiffs`
is the pass over HTTPRoutes, the pass over TLSRoutes and the first-sync
cleanup; the impacted sets carry over from one pass to the other, as in the
code. HTTPRoutes and TLSRoutes never name the same backend: with the default
name template the filter hash is `_` or a digest for an HTTPRoute and empty for
a TLSRoute (`NamesAssumption`). Merging Backend custom resources
(`mergeWithBackendCRs`) only touches settings, and `mergo.Merge` of two values
of one struct type does not fail.

**BackendServers.** A batch also brings updates of services and of some of the
queued slices; slices are listed from the cache, in any order, and services read
from the store. A service that is missing is an error that keeps the servers; a
service without the backend's port is none: its target is a zero `IntOrString`,
no endpoint has port 0, and the backend is emptied (`TargetPort`). `outdated`
marks the backends whose service changed after their servers were computed:
nothing in the code computes them then. Because the metadata of a backend hold
the generations of its routes, any backend of a route of the batch may count as
updated.

**ConfSync.** `hpc` follows the handler through `HandleEventBatch`
and `ComputeDiffs` in their order, `apc` the AppManager through
`applyCfgUpdates`. A section is its settings and its set of servers. Go keeps
pointers: an entry of a diff has a flag `shared` that says whether
`structured` holds the same pointer, and a write in place then shows in the
diff, in the channel too. Reading a section is one step, although the real race
may even tear it. Calls of the configuration client may fail at once or after the
section was written; runtime commands may fail after any of them. What the
objects of the cluster ask for is an input: any call on any section. The batch
of the model may skip servers where the code computes them again; with
`NoOrphanBackends` and `MetadataExact` it never computes servers for a backend
that the code would not look at. The context is not in this module.

**StatusUpdate.** A batch gives any conditions to any of the objects it upserted.
The updater takes them kind by kind; each attempt reads from the cache, compares,
and writes: an update with optimistic locking for classes and gateways, a merge
patch for routes. `done` and `stale` record what was reported as a success, and
which of these were skipped for a copy that was behind. An object that is deleted
does not come back.

## Runs

| Run | Bounds | States | Shows |
|---|---|---|---|
| `loop` | 2 objects of two kinds, 2 changes each, shutdown at any time | 34 thousand | type invariant; nothing stuck, lost, reordered; batches isolated; `BatchDiff` implemented; the store converges; shutdown completes |
| `loop_deleted` (violation) | as `loop` | | a DELETED update may have no old object |
| `gateways` | 2 gateways of two classes sharing a port, one class with parameters, a secret both refer to, a second one with a tls pair, a tls and an ecdsa pair, or none; 2 changes after the start | 736 thousand | gateways current, no port twice, frontends, certificate files and crt-lists exact, process follows the disk |
| `routes` | 1 gateway with 2 listeners, 1 HTTPRoute, 1 TLSRoute, 2 services; 2 changes after the start | 374 thousand | routes served, requests routed, maps in sync, status feedback ends |
| `maps_stale` (violation) | as `routes`, empty map files | | entries of a route that is gone |
| `owners` | 2 HTTPRoutes on 2 backends, 1 TLSRoute, 1 service with 2 slices, 2 changes of services and slices, at most 2 routes in a batch | 8.3 thousand | no orphans, mode and metadata exact, servers exact |
| `owners_shared` (violation) | 3 HTTPRoutes on 2 backends, 1 TLSRoute | | a backend in use is deleted |
| `conf` | 1 frontend, 1 backend, 2 servers, 3 batches, 3 calls, channel of 1, 1 failure, overlap | 1.5 million | file converges, no diff is rejected, a commit is whole, both goroutines get through |
| `conf_spaced` | 2 backends, 3 batches, 3 calls, certificates, no overlap | | settings and certificates loaded, removed servers stop |
| `conf_servers` (violation) | no overlap | | a replaced server never serves |
| `conf_reset` (violation) | overlap, certificates | | a reload is lost |
| `status` | 1 class, 1 route, 1 other controller, 2 batches, 2 changes | 220 thousand | successes true, other entries kept, nothing overwritten, the updater ends |

Why the bounds are enough.

* `loop`: two changes per object give every collapse within a batch
  (create+delete, update+update, delete+create) and let a batch be overtaken by
  a second and third one, the point where slices are reused.
* `gateways`: the start is either a collision of ports between gateways of two
  classes whose secret does not exist yet, or one gateway with a secret of its own
  and the parameters of its class. Two changes make the collision begin, end, move, come
  back or end by a deletion, a class go away under its gateway, get missing
  parameters, lose and regain them, a gateway take the class of another
  controller, a secret come, change, gain an ecdsa pair, lose its pairs and go;
  every subset of the queued keys may form a batch. Two classes are needed: only then can the
  class of one of two colliding gateways go. `MaxChanges` bounds the
  changes after the start, `StartupFrontends` has a wanted and an unwanted one.
* `routes`: one route of each kind, so that no other route competes for its map
  entries (the code lets the last writer win). One version of the HTTPRoute has two
  hostnames and a prefix path, the other a wildcard and two rules for the same entry
  of which the first lacks its service; the TLSRoute has the same two rules. Two
  changes let a listener change its name under an attached route, services and
  gateways go and come back, and a route move.
* `owners`: two routes share two backends; the HTTPRoutes are interchangeable
  (symmetry: no property tells them apart, and the start treats them alike).
  One slice exists at the start, one may appear; one may change its address
  family, one of which is disabled; one service port leads to a number and one to
  a name, and one may vanish.
* `conf`: three batches fill the channel while one diff is being applied, three
  calls suffice for create, update and delete of one section in different
  batches; `conf_spaced` has two backends because the reload manager is shared
  between them. `ChanCap` stands for 100. `Overlap` is FALSE in the runs that ask
  what holds when batches are further apart than an application takes (sync
  periods of seconds): the three properties of `conf_spaced` fail without it, as
  `conf_reset` shows for one.
* `status`: one object with optimistic locking and one with merge patches, an
  entry of another controller, four attempts each (the code's number).

Deadlock checking is off where the system may stop: after a shutdown, or when
the batches or changes of a behaviour are used up. In `owners` it is on.

Fairness. `EventLoop`: the Go scheduler runs every goroutine that can run; a
select picks among its ready cases at random, so that a case that stays ready is
taken (weak fairness); a work queue hands out its keys in turn, hence strong
fairness of `Reconcile(k)`, whose worker is busy now and then. Nothing forces an
object to change or the context to end. `ShutdownCompletes` assumes that
`HandleRest` ends, which the send on a full channel may prevent once the
AppManager is gone (listed as a hazard). `ConfSync`: both goroutines go on;
no batch has to begin. `RouteMaps`: a queued key is taken and a batch with
updates is handled (`Taken`, `Handled`), which is what `Converges` of `EventLoop`
shows. `StatusUpdate`: the updater goes on; the cache need not.

Conditions of the properties that are not obvious, and why they are needed:

* `GatewaysCurrent`, `RoutesServed`, `RequestsRouted`: not for objects in `behind`,
  and for routes not while one of their own events is queued. A gateway without any
  listener that can be served may or may not count as valid. A gateway whose class
  left the tree stays there with its ports (`Lingering`, `gateway_builder.go:130`):
  it still collides with others, until its own next event.
* `RoutesServed`, `RequestsRouted`: TLSRoutes on listeners that pass TLS through;
  gateways that exist in the cluster, not only in the store (a gateway that is gone
  no longer tells its routes of anything); entries that no later rule and no other
  route writes to. `RequestsRouted`: names that are not wildcards, because a
  wildcard's key is compared with its asterisk.
* `MapsInSync`: up to the first refusal after a reload.
* `CertificateFilesExact`: the content is claimed for secrets whose pair is of
  type tls; others have no file of their own, at most an old one.
* `ProcessFollowsDisk`: unless HAProxy could not start with the files, as with
  a crt-list that names a secret without key pair or file.
* `ServersExact`: slices of a service agree on their ports; not after a change of
  the service alone; the service is in the store.
* `StatusPublished`: not for an update that was skipped for a copy that was
  behind. `OthersKept`: entries that were there when the route was read.

## What the violations say

1. `loop_deleted`: an EndpointSlice created and deleted between two batches
   gives `OldObject == nil`, which `endpointSliceUpdatedByService` dereferences.
2. `maps_stale`: nothing is ever deleted from the maps for a route as it was,
   because the copy that is kept of it has no listeners: `KeyMap.DeepCopy` skips
   `[]*Listener`, which has no `DeepCopy` method.
3. `conf_servers`: `BackendEdit` skips the reload if some server was set to
   maintenance with success, although an added server needs one.
4. `conf_reset`: `startBuild` resets the reload flag that an earlier diff,
   still in the channel, relies on.
5. `owners_shared`: deleting or invalidating a route deletes all its backends,
   also those other routes refer to, until one of these routes changes.

## What the conditions hide

Some conditions above leave out what the code gets wrong. With the condition
dropped, in an instance that has the case (for `Agree` slices with different
numbers, for `outdated` a service that moves a port), TLC finds each of these within
seconds; they are listed as hazards.

* `behind`: a gateway handled one batch before its class, parameters or secret, or
  a route handled one batch before its service, is not built again, because the
  builders go through the updates of their own kind (`gateway_builder.go:67`,
  `HTTPRoute-builder.go:62`). Nothing is queued, and the gateway or route is not
  served until it changes for another reason.
* `Writable`: an rsa, ecdsa or dsa pair gets a path below a directory that does not
  exist (`storage/cert.go:112`). The write fails, its error is dropped, and the
  crt-list names a file that is missing or old.
* `Agree`: the first port that matches, of any slice of the family, serves for the
  addresses of all of them (`servers.go:207`).
* `outdated`: an update of a Service alone computes no servers, although the
  target ports are the service's (`servers.go:83`).
* `cut`: a refused map command is logged and nothing follows from it
  (`routes-maps.go:213`).

## Proofs

Everything below holds for every value of the constants: any sets of objects,
any number of batches, changes and failures.

### What is proved

| Property | Theorem | Hypothesis |
|---|---|---|
| `UpdatesDescribeStore`, `ImplementsBatchDiff` | `UpdatesDescribe`, `StoreImplementsBatchDiff`; in the loop `LoopImplementsStore`, `LoopKeepsPromises` | |
| `TypeOK`, `NoStuckBatch`, `BatchIsolation` of `EventLoop` | `TypeCorrect`, `NothingStuck`, `BatchesIsolated` | |
| `StoreMonotonic`, `NoChangeLost` | `StoreNeverGoesBack`, `NothingLost` | |
| `NoOrphanBackends`, `MetadataExact` | `NoOrphans`, `MetadataIsExact`; with servers `BookkeepingHolds` | |
| `ServersExact` | `ServersAreExact` | |
| `CertificateFilesExact`, `CrtListsExact`, `ProcessFollowsDisk` | `CertificateFilesAreExact`, `CrtListsAreExact`, `ProcessKeepsUp` | |
| `FrontendsExact`, `NoPortServedTwice`, `GatewaysCurrent` | `FrontendsAreExact`, `PortsServedOnce`, `GatewaysAreCurrent` | `NoNamesakes` |
| `MapsInSync` | `MapsStayInSync`; `MapsImplementFrontends` carries the two rows above over to `RouteMaps` | |
| `RoutesServed` | `RoutesAreServed` | `NoSharedEntries` |
| `TypeOK`, `CommitIsWholeDiff`, `NoApplyError`, `FileConverges` of `ConfSync` | `TypeCorrect`, `CommitsAreWhole`, `DiffsApply`, `FileFollows` | |
| `SettingsLoaded`, `RemovedServersStop`, `CertificatesLoaded` | `SettingsAreLoaded`, `RemovedServersAreStopped`, `CertificatesAreLoaded` | `Overlap = FALSE` |
| `StatusPublished`, `OthersKept`, `NothingOverwritten` | `SuccessIsPublished`, `OthersAreKept`, `NoUpdateLost` | |

The three hypotheses cannot be dropped. `Overlap = FALSE`: the three properties fail
without it (`conf_reset`). `NoNamesakes`: a route that has the namespace and name
of a gateway takes the gateway out of the tree while its frontends stay
(`HTTPRoute-builder.go:161`, listed as a hazard). `NoSharedEntries`: no two routes,
in any of their versions, ask for the same key of a map of a frontend. Where two
do, a rule of one that becomes invalid deletes the entry
(`onValidHTTPRouteUpserted`, `haproxy/routes.go:220`), and the other route, which
the batch does not touch, does not write it again. `RoutesServed` itself
leaves out only entries that two routes of the store want at the same time; the
hypothesis also excludes that one of them wanted it earlier.

Assumptions on the constants, all evaluated by TLC on every run:
`MaxVer \in Nat`; HTTPRoutes and TLSRoutes are different objects and never name
one backend (`RoutesAssumption`, `NamesAssumption`); a backend and a slice have
a service (`ServiceAssumption`) and the ports of a slice have different names,
which the API server enforces (`PortNamesAssumption`); the sections are finitely
many, no setting is the value that stands for an absent section, the channel has
a capacity above 0 (`ConfAssumption`); objects of different kinds are different
(`KeysAssumption`, `StatusAssumption`); a gateway has a listener, as its CRD
demands, listeners, parents and hostnames are finitely many, rules and backends
are lists (`SpecsAssumption`).

### Along which argument

* **ObjectStore.** `UpdatesDescribeStore` is inductive given the types. Each call
  maps to a step of `BatchDiff`, with `base` and `touched` read off the updates.
* **EventLoop.** `NoStuckBatch` is not inductive: when a handler ends or a batch is
  swapped out one has to know that a timer or handler exists even while
  `nextBatch` is empty (`Armed`), and that `handling` is exact
  (`HandlingExact`). For the order, `OrderInv` says that a kind has one worker
  and that along store, the handler's rest of its batch, `nextBatch`, worker and
  cache the states of one object never get older. `NothingLost` follows what is
  the last state of an object on that way.
* **BackendOwners, BackendServers.** `OwnersAfterBatch` computes what the two passes
  do to one set of owners, call by call (`HandledRoute`, `NewOwnersAre`); it gives
  that owners are the routes that refer to a backend (`OwnersExact`), on which the
  two theorems rest. That no backend stays an orphan needs that a backend
  without owner before and after a batch was absent and stays so; the metadata
  need that owners of a kind name backends of that kind (`OwnersNamed`).
  `BackendServers` implements `BackendOwners`, which carries all of this over. The
  servers need the types of the slices in the cache, that no slice has port 0
  (`NothingOnZero`, for services without the backend's port), and that until the first
  sync the backends found at the start count as outdated (`StartOutdated`).
* **GateTree, Frontends.** A batch is followed through the stages of the
  builder, `Listed`, `BeforeConflicts`, `CheckedTree`, `WithGateways`, with a lemma
  each on what it makes of one gateway. The route builders that come after are
  recursive functions over the routes of the batch; that they leave the gateways'
  verdicts alone (`BatchTree`) is an induction over this one function, by the least
  number for which it fails. Four invariants rest on it: `ServingInv` (the
  secrets of the tree, the files and the crt-lists follow the store; a file that is
  not one of type tls never exists, so that the runtime commands of a batch with such
  a certificate are refused, which asks for a reload, `OthersAreRefused`),
  `GatewaysInv` (valid listeners of live gateways share no port),
  `FrontendsInv` (the frontends are those of the tree, `owned` has them under
  their gateway) and `CurrentInv` (classes, gateways and some set of shared ports
  follow the store, for all that are not behind).
* **RouteMaps, in sync.** `Replays`: whatever list of calls of `AddData` and
  `DeleteData` filled the maps, the commands it leaves, if they are accepted, lead
  from the data before to the data after. It is kept by each of the two calls, one
  entry at a time, and so by a list of them, by the least prefix for which it
  fails. That the calls of a batch are such a list needs finite sets of
  listeners, hostnames and references all along (`RoutesInv`, `ListenersInv`).
* **RouteMaps, served.** `ServedInv` has three parts. `FollowInv`: the gateways,
  services and routes of the tree follow the store, the store follows the cluster
  but for what is queued, and what is published is the status of the gateway in the
  tree. `Attached`: a route refers to every valid listener that takes it.
  `MapsFollow`: the rules of a route are in the maps of the listeners it refers to.
  The crux of `Attached` is a route that a batch does not touch although the batch
  rebuilds its gateway: if the status does not change nobody queues the route, but
  two gateways of equal status have the same valid listeners with the same specs
  (`StatusTells`), so its references are still right. For `MapsFollow`,
  `BatchRoute` says what a batch makes of one route and `FillMapsLeave` what its
  calls leave in one entry: a value that was there or was written, if no later call
  disagrees. With `NoSharedEntries` only rules of the route itself could.
* **ConfSync.** `HandlerInv`: an entry that shares a pointer with `structured` has
  the value `structured` has now, and calls on a section come in the order of the
  phases. `Progress`: a transaction holds the file and what the loops have done
  so far; it gives whole commits. `SyncInv`, for `NoApplyError` and
  `FileConverges`: there is a path of sets of sections, from the file through
  every diff in the channel to `structured`, on which each diff creates what is
  missing, updates and deletes what is there; and for every section the last
  diff on the way that has it leads to what `structured` holds. What the
  handler's calls may do to one section is `Legal`, proved call by call.
  `SpacedInv` adds, for batches that do not overlap, that a difference between
  process and wanted configuration always has a reload ahead of it.
* **StatusUpdate.** A copy is the server's object or has an older version, or the
  object is gone (`CopiesOld`); so a write that passes the version check
  was computed from what the server holds.

### What the proofs showed about the model

* `GatewaysCurrent` was not provable as first stated. A gateway whose class left
  the tree keeps its ports (now `Lingering`), and a gateway that is
  rechecked for a conflict and leaves the tree in the same batch is behind
  afterwards (`Missed`). With one class `gateways` met neither case; it has
  two now and finds the property violated when either is left out.
* `RoutesServed` was about requests at first; it is now about entries, for every
  kind of entry (wildcards and regular expressions too), and `RequestsRouted`
  about requests. It was false for a gateway that is deleted in the cluster and
  still in the store and for listeners that restrict the kinds of routes, which no
  version in `routes` does.
* `KeysAssumption` allowed two kinds to be the same set of objects.
* A gateway without any listener would stay what it was before; its CRD excludes
  it, now as an assumption.

### Only model-checked

Liveness, out of the prover's reach: `Converges` and `ShutdownCompletes` of
`EventLoop`, `Settles` of `ConfSync` and of `RouteMaps`, `UpdateEnds` of
`StatusUpdate`.

`RequestsRouted` of `RouteMaps`. It compares what `RoutesServed` gives with what
HAProxy finds by prefix and suffix in several maps, one after the other, and is not
true for all constants: an exact entry of one route wins over a prefix entry of
another for the same host and path, and so does an entry that stayed behind
(`maps_stale`). The instance of `routes` is one where nothing competes.

## Not modelled

* Conditions of routes and classes, the wording of all conditions, and the number
  of attached routes as a property: no decision of the program depends on them.
* Installed CRD versions, HugConf and log settings: counters and values for the
  logger.
* The Backend and HugGate custom resources beyond their existence: merged into
  settings, which are opaque here.
* Predicates that filter objects by namespace and controller name: constant
  filters in front of the watches.
* Regular expressions and the text of map keys: entries are compared by host and
  path.
* File system errors other than the missing directory of a certificate bundle,
  start and stop of the HAProxy process, parsing of the file
  at startup.
* A shutdown that meets a full channel; slices that move to another service; an
  object that is deleted and recreated while its status is written.
* A route and a gateway of one name: the model has it (`Namesake`), no run does.

Left out for good: options, logging, CRD types, developer tools, formatting of
names and configuration lines.
