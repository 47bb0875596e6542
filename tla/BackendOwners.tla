--------------------------- MODULE BackendOwners ---------------------------
(***************************************************************************)
(* Which backends the wanted configuration has (k8s/gate/haproxy/          *)
(* backends.go).  Routes refer to services; every valid reference names a  *)
(* backend, and a backend is shared by the routes that refer to the same   *)
(* service, port and filters.  Batch by batch the manager keeps the owners *)
(* of each backend and derives which backends to upsert, to give new       *)
(* metadata, and to delete.                                                *)
(*                                                                         *)
(* Only the routes that changed in a batch are looked at.  processHTTP-    *)
(* Routes and processTLSRoutes are the same code for two owner types, and  *)
(* use the same impacted sets one after the other.                         *)
(***************************************************************************)
EXTENDS FiniteSets

CONSTANTS HTTPRoutes, TLSRoutes,  \* route keys
          Backends,               \* backend names
          NamesOf,                \* those a route of each type can name
          StartupBackends         \* backends found in the file at startup

Routes == HTTPRoutes \cup TLSRoutes

ASSUME RoutesAssumption == /\ HTTPRoutes \cap TLSRoutes = {}
                           /\ StartupBackends \subseteq Backends

HTTP == "HTTPRoute"
TLS  == "TLSRoute"
BackendOwnerType == {HTTP, TLS}

(* HTTPRoutes and TLSRoutes never name the same backend: the name template *)
(* ends with the hash of the filters, which is empty for a TLSRoute only.  *)
ASSUME NamesAssumption == /\ NamesOf \in [BackendOwnerType -> SUBSET Backends]
                          /\ NamesOf[HTTP] \cap NamesOf[TLS] = {}

RoutesOf(t) == IF t = HTTP THEN HTTPRoutes ELSE TLSRoutes

VARIABLES owners,      \* BackendReferencedBy.owners; {} for a missing key
          structured,  \* the backends of Configuration.structured
          firstSync,   \* FirstSync.flag
          refs         \* ghost: what each route of the cluster refers to

vars == <<owners, structured, firstSync, refs>>

(* A backend: its mode and the owners its metadata names.                  *)
Mode    == {"http", "tcp", "startup"}
Backend == [mode : Mode, metadata : SUBSET Routes]
Absent  == [mode |-> "absent", metadata |-> {}]
Startup == [mode |-> "startup", metadata |-> {}]

TypeOK == /\ owners \in [Backends -> [BackendOwnerType -> SUBSET Routes]]
          /\ structured \in [Backends -> Backend \cup {Absent}]
          /\ firstSync \in BOOLEAN
          /\ refs \in [Routes -> SUBSET Backends]

Init == /\ owners = [b \in Backends |-> [t \in BackendOwnerType |-> {}]]
        /\ structured = [b \in Backends |-> IF b \in StartupBackends THEN Startup
                                            ELSE Absent]
        /\ firstSync = TRUE
        /\ refs = [r \in Routes |-> {}]
-----------------------------------------------------------------------------
(* What a batch says of a route: the tree has it unchanged, upserted with  *)
(* valid references, upserted but invalid, or deleted.                     *)
Unchanged   == [status |-> "unchanged", refs |-> {}]
Invalid     == [status |-> "invalid", refs |-> {}]
Gone        == [status |-> "deleted", refs |-> {}]
RouteUpdate == {Unchanged, Invalid, Gone}
                 \cup [status : {"upserted"}, refs : SUBSET Backends]

HasOwner(o, b) == \E t \in BackendOwnerType : o[b][t] # {}

(* getBackendsReferencedBy                                                 *)
ReferencedBy(o, t, r) == {b \in Backends : r \in o[b][t]}

(* The backends a cycle has to look at                                     *)
NoImpact == [upserted |-> {}, unreferenced |-> {}, deleted |-> {}]

(* A variant of upsertRouteBackends: what the route left is not cleaned up.*)
upsertRouteBackendsAdding(owned, names) ==
    [owned |-> owned \cup names, impact |-> [NoImpact EXCEPT !.upserted = names]]

(* upsertHTTPRouteBackends, upsertTLSRouteBackends, for a route that is an *)
(* owner of the backends in owned: add for each backend it names, then     *)
(* remove for those it is an owner of and does not name.                   *)
upsertRouteBackends(owned, names) ==
    LET added        == owned \cup names
        unreferenced == added \ names
    IN  [owned  |-> added \ unreferenced,
         impact |-> [NoImpact EXCEPT !.upserted = names, !.unreferenced = unreferenced]]

(* onDeletedHTTPRoute, onInvalidHTTPRouteUpserted, and those of TLSRoutes: *)
(* remove for each backend the route is an owner of                        *)
onDeletedRoute(owned) ==
    [owned |-> owned \ owned, impact |-> [NoImpact EXCEPT !.deleted = owned]]

HandleRoute(owned, update) ==
    CASE update.status = "upserted"               -> upsertRouteBackends(owned, update.refs)
      [] update.status \in {"deleted", "invalid"} -> onDeletedRoute(owned)
      [] OTHER                                    -> [owned |-> owned, impact |-> NoImpact]

(* The loop over the routes of a type.  The calls for a route read and     *)
(* write the entries of that route only, so that in any order the entries  *)
(* of each route become what its own calls make of them.                   *)
HandleRoutes(o, t, batch) ==
    {[route |-> r, result |-> HandleRoute(ReferencedBy(o, t, r), batch[r])] : r \in RoutesOf(t)}

NewOwners(o, t, done) ==
    [b \in Backends |->
        [o[b] EXCEPT ![t] = {x.route : x \in {y \in done : b \in y.result.owned}}]]

(* A variant of Orphans: backends that lost their last owner are left.     *)
OrphansKept(before, after) == {}

(* cleanupUnreferencedBackends: backends whose last owner went             *)
Orphans(before, after) == {b \in Backends : HasOwner(before, b) /\ ~HasOwner(after, b)}

(* backendsImpactedInCycle after the loop and the cleanup                  *)
Impact(imp, o, t, done) ==
    LET impacts == {x.result.impact : x \in done}
    IN  [upserted     |-> imp.upserted \cup UNION {x.upserted : x \in impacts},
         unreferenced |-> imp.unreferenced \cup UNION {x.unreferenced : x \in impacts},
         deleted      |-> imp.deleted \cup (UNION {x.deleted : x \in impacts})
                            \cup Orphans(o, NewOwners(o, t, done))]

(* The owners that count: those of HTTPRoutes if there are any.            *)
OwnersForRoute(o, b) == IF o[b][HTTP] # {} THEN o[b][HTTP] ELSE o[b][TLS]

NewBackend(o, b) == [mode     |-> IF o[b][HTTP] # {} THEN "http" ELSE "tcp",
                     metadata |-> OwnersForRoute(o, b)]

(* processBackendsModifiedInCycle, for one backend: upserted, then         *)
(* unreferenced, then deleted.                                             *)
ProcessBackend(be, o, imp, b) ==
    LET upserted == IF b \in imp.upserted /\ HasOwner(o, b) THEN NewBackend(o, b) ELSE be
        remarked == IF b \in imp.unreferenced /\ HasOwner(o, b) /\ upserted # Absent
                    THEN [upserted EXCEPT !.metadata = OwnersForRoute(o, b)]
                    ELSE upserted
    IN  IF b \in imp.deleted THEN Absent ELSE remarked

(* firstSync.backends after the same calls                                 *)
Kept(o, imp) ==
    {b \in (imp.upserted \cup imp.unreferenced) \ imp.deleted : HasOwner(o, b)}

(* ComputeDiffs: processHTTPRoutes, processTLSRoutes, and the cleanup of   *)
(* the first sync.                                                         *)
ComputeDiffs(batch) ==
    LET http == HandleRoutes(owners, HTTP, batch)
        o1   == NewOwners(owners, HTTP, http)
        imp1 == Impact(NoImpact, owners, HTTP, http)
        tls  == HandleRoutes(o1, TLS, batch)
        o2   == NewOwners(o1, TLS, tls)
        imp2 == Impact(imp1, o1, TLS, tls)
        Processed(b) == ProcessBackend(ProcessBackend(structured[b], o1, imp1, b),
                                       o2, imp2, b)
    IN  /\ owners' = o2
        /\ structured' = [b \in Backends |->
                            IF firstSync /\ b \notin Kept(o2, imp2) THEN Absent
                            ELSE Processed(b)]
        /\ firstSync' = FALSE
        /\ refs' = [r \in Routes |-> IF batch[r] = Unchanged THEN refs[r]
                                     ELSE batch[r].refs]

Batch == {u \in [Routes -> RouteUpdate] :
            \A t \in BackendOwnerType :
              \A r \in RoutesOf(t) : u[r].refs \subseteq NamesOf[t]}

Next == \E batch \in Batch : ComputeDiffs(batch)

Spec == Init /\ [][Next]_vars
-----------------------------------------------------------------------------
(* The routes of the cluster that refer to a backend now                   *)
Referring(b) == {r \in Routes : b \in refs[r]}

(* After the first sync the configuration has no backend that no route     *)
(* refers to, whatever HAProxy was started with and whatever the routes    *)
(* referred to in between (cleanupUnreferencedBackends, first sync).       *)
NoOrphanBackends ==
    ~firstSync => \A b \in Backends : structured[b] # Absent => Referring(b) # {}

(* A backend of the configuration has the mode of the routes that refer to *)
(* it now, and metadata that name exactly those, although a batch looks at *)
(* the backends of the routes that changed only: also if some of its       *)
(* routes left it, became invalid or were deleted.                         *)
MetadataExact ==
    ~firstSync => \A b \in Backends :
        structured[b] # Absent =>
            structured[b] = [mode     |-> IF Referring(b) \cap HTTPRoutes # {} THEN "http" ELSE "tcp",
                             metadata |-> Referring(b)]

(* A backend some route refers to is in the configuration: a backend goes  *)
(* only when no route references it any more.                              *)
ReferencedBackendsExist ==
    \A b \in Backends : Referring(b) # {} => structured[b] # Absent
=============================================================================
