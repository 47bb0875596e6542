------------------------- MODULE BackendOwnersProofs -------------------------
(***************************************************************************)
(* The bookkeeping of backend owners is exact and leaves no orphan, for    *)
(* any sets of routes and backends and any sequence of batches.            *)
(***************************************************************************)
EXTENDS BackendOwners, TLAPS

OwnerFcn == [Backends -> [BackendOwnerType -> SUBSET Routes]]

(* The calls for one route: it ends as an owner of what it names, or stays *)
(* what it was.                                                            *)
LEMMA HandledRoute ==
    ASSUME NEW owned, NEW u \in RouteUpdate
    PROVE  /\ HandleRoute(owned, u).owned = IF u = Unchanged THEN owned ELSE u.refs
           /\ u.status = "upserted" =>
                 /\ HandleRoute(owned, u).impact.upserted = u.refs
                 /\ HandleRoute(owned, u).impact.unreferenced = owned \ u.refs
           /\ u \in {Invalid, Gone} => HandleRoute(owned, u).impact.deleted = owned
<1>1. CASE u.status = "upserted"
  <2>1. u # Unchanged /\ u \notin {Invalid, Gone}
    BY <1>1 DEF Unchanged, Invalid, Gone
  <2>2. HandleRoute(owned, u) = upsertRouteBackends(owned, u.refs)
    BY <1>1 DEF HandleRoute
  <2>3. /\ (owned \cup u.refs) \ ((owned \cup u.refs) \ u.refs) = u.refs
        /\ (owned \cup u.refs) \ u.refs = owned \ u.refs
    OBVIOUS
  <2>4. /\ upsertRouteBackends(owned, u.refs).owned = u.refs
        /\ upsertRouteBackends(owned, u.refs).impact.upserted = u.refs
        /\ upsertRouteBackends(owned, u.refs).impact.unreferenced = owned \ u.refs
    BY <2>3 DEF upsertRouteBackends, NoImpact
  <2>. QED BY <2>1, <2>2, <2>4
<1>2. CASE u \in {Invalid, Gone}
  <2>1. u # Unchanged /\ u.refs = {} /\ u.status \in {"deleted", "invalid"} /\ u.status # "upserted"
    BY <1>2 DEF Unchanged, Invalid, Gone
  <2>2. HandleRoute(owned, u) = onDeletedRoute(owned)
    BY <2>1 DEF HandleRoute
  <2>3. owned \ owned = {}
    OBVIOUS
  <2>4. onDeletedRoute(owned).owned = {} /\ onDeletedRoute(owned).impact.deleted = owned
    BY <2>3 DEF onDeletedRoute, NoImpact
  <2>. QED BY <2>1, <2>2, <2>4
<1>3. CASE u = Unchanged
  <2>1. u.status \notin {"upserted", "deleted", "invalid"} /\ u \notin {Invalid, Gone}
    BY <1>3 DEF Unchanged, Invalid, Gone
  <2>2. HandleRoute(owned, u).owned = owned
    BY <2>1 DEF HandleRoute
  <2>. QED BY <1>3, <2>1, <2>2
<1>. QED BY <1>1, <1>2, <1>3 DEF RouteUpdate

(* The loop over the routes of a type, for the owners of that type         *)
LEMMA NewOwnersAre ==
    ASSUME NEW o \in OwnerFcn, NEW t \in BackendOwnerType, NEW batch \in Batch,
           NEW b \in Backends
    PROVE  NewOwners(o, t, HandleRoutes(o, t, batch))[b] =
             [o[b] EXCEPT ![t] = {r \in RoutesOf(t) : IF batch[r] = Unchanged THEN r \in o[b][t]
                                                      ELSE b \in batch[r].refs}]
<1> DEFINE done == HandleRoutes(o, t, batch)
           Owned(r) == HandleRoute(ReferencedBy(o, t, r), batch[r]).owned
<1>1. \A r \in RoutesOf(t) : batch[r] \in RouteUpdate
  BY DEF Batch, RoutesOf, Routes
<1>2. \A r \in RoutesOf(t) : b \in Owned(r) <=> IF batch[r] = Unchanged THEN r \in o[b][t]
                                                ELSE b \in batch[r].refs
  BY <1>1, HandledRoute DEF ReferencedBy
<1>3. {x.route : x \in {y \in done : b \in y.result.owned}} = {r \in RoutesOf(t) : b \in Owned(r)}
  <2> DEFINE Result(r) == HandleRoute(ReferencedBy(o, t, r), batch[r])
             Entry(r)  == [route |-> r, result |-> Result(r)]
  <2>1. done = {Entry(r) : r \in RoutesOf(t)}
    BY DEF HandleRoutes
  <2>2. \A r : Entry(r).route = r /\ Entry(r).result = Result(r)
    OBVIOUS
  <2> HIDE DEF Result, Entry, done
  <2>. QED BY <2>1, <2>2 DEF Result
<1> HIDE DEF Owned
<1>. QED BY <1>2, <1>3 DEF NewOwners

(* What the operations make of owners and backends has their types.       *)
LEMMA NewOwnersType ==
    ASSUME NEW o \in OwnerFcn, NEW t \in BackendOwnerType, NEW batch \in Batch
    PROVE  NewOwners(o, t, HandleRoutes(o, t, batch)) \in OwnerFcn
BY DEF NewOwners, HandleRoutes, RoutesOf, Routes, OwnerFcn

(* The backends a pass adds to the impacted sets                           *)
LEMMA ImpactOfRoute ==
    ASSUME NEW o, NEW t \in BackendOwnerType, NEW batch \in Batch, NEW imp,
           NEW r \in RoutesOf(t)
    PROVE  LET new == Impact(imp, o, t, HandleRoutes(o, t, batch))
           IN  /\ batch[r].status = "upserted" =>
                     /\ batch[r].refs \subseteq new.upserted
                     /\ ReferencedBy(o, t, r) \ batch[r].refs \subseteq new.unreferenced
               /\ batch[r] \in {Invalid, Gone} => ReferencedBy(o, t, r) \subseteq new.deleted
<1> DEFINE done    == HandleRoutes(o, t, batch)
           impacts == {x.result.impact : x \in done}
           mine    == HandleRoute(ReferencedBy(o, t, r), batch[r])
           new     == Impact(imp, o, t, done)
<1>1. batch[r] \in RouteUpdate
  BY DEF Batch, RoutesOf, Routes
<1>2. mine.impact \in impacts
  <2>1. [route |-> r, result |-> mine] \in done
    BY DEF HandleRoutes
  <2>2. [route |-> r, result |-> mine].result.impact = mine.impact
    OBVIOUS
  <2>. QED BY <2>1, <2>2
<1>3. /\ new.upserted = imp.upserted \cup UNION {x.upserted : x \in impacts}
      /\ new.unreferenced = imp.unreferenced \cup UNION {x.unreferenced : x \in impacts}
      /\ new.deleted = imp.deleted \cup (UNION {x.deleted : x \in impacts})
                          \cup Orphans(o, NewOwners(o, t, done))
  BY DEF Impact
<1>4. /\ mine.impact.upserted \subseteq new.upserted
      /\ mine.impact.unreferenced \subseteq new.unreferenced
      /\ mine.impact.deleted \subseteq new.deleted
  <2> HIDE DEF mine, impacts, new
  <2>. QED BY <1>2, <1>3
<1>. QED BY <1>1, <1>4, HandledRoute

(* A pass adds to the impacted sets, and orphans are deleted.              *)
LEMMA ImpactGrows ==
    ASSUME NEW imp, NEW o, NEW t, NEW done
    PROVE  LET new == Impact(imp, o, t, done)
           IN  /\ imp.upserted \subseteq new.upserted
               /\ imp.unreferenced \subseteq new.unreferenced
               /\ imp.deleted \cup Orphans(o, NewOwners(o, t, done)) \subseteq new.deleted
<1> DEFINE new == Impact(imp, o, t, done)
           impacts == {x.result.impact : x \in done}
<1>1. /\ new.upserted = imp.upserted \cup UNION {x.upserted : x \in impacts}
      /\ new.unreferenced = imp.unreferenced \cup UNION {x.unreferenced : x \in impacts}
      /\ new.deleted = imp.deleted \cup (UNION {x.deleted : x \in impacts})
                          \cup Orphans(o, NewOwners(o, t, done))
  BY DEF Impact
<1> HIDE DEF new, impacts
<1>2. /\ imp.upserted \subseteq new.upserted
      /\ imp.unreferenced \subseteq new.unreferenced
      /\ imp.deleted \cup Orphans(o, NewOwners(o, t, done)) \subseteq new.deleted
  BY <1>1
<1>. QED BY <1>2 DEF new

LEMMA ProcessBackendType ==
    ASSUME NEW o \in OwnerFcn, NEW imp, NEW b \in Backends, NEW be \in Backend \cup {Absent}
    PROVE  ProcessBackend(be, o, imp, b) \in Backend \cup {Absent}
<1>1. OwnersForRoute(o, b) \in SUBSET Routes
  BY DEF OwnersForRoute, BackendOwnerType, OwnerFcn
<1>2. NewBackend(o, b) \in Backend
  BY <1>1 DEF NewBackend, Backend, Mode
<1>3. \A x \in Backend : [x EXCEPT !.metadata = OwnersForRoute(o, b)] \in Backend
  BY <1>1 DEF Backend
<1>. QED BY <1>2, <1>3 DEF ProcessBackend

(* Every batch keeps the types of the bookkeeping.                         *)
THEOREM TypeCorrect == Spec => []TypeOK
<1>1. Init => TypeOK
  BY RoutesAssumption
     DEF Init, TypeOK, Startup, Absent, Backend, Mode, BackendOwnerType
<1>2. TypeOK /\ [Next]_vars => TypeOK'
  <2> SUFFICES ASSUME TypeOK, [Next]_vars PROVE TypeOK'
      OBVIOUS
  <2>1. CASE UNCHANGED vars
    BY <2>1 DEF vars, TypeOK
  <2>2. ASSUME NEW batch \in Batch, ComputeDiffs(batch) PROVE TypeOK'
    <3> DEFINE o1 == NewOwners(owners, HTTP, HandleRoutes(owners, HTTP, batch))
               o2 == NewOwners(o1, TLS, HandleRoutes(o1, TLS, batch))
    <3>1. owners \in OwnerFcn /\ HTTP \in BackendOwnerType /\ TLS \in BackendOwnerType
      BY DEF TypeOK, OwnerFcn, BackendOwnerType
    <3>2. o1 \in OwnerFcn
      BY <3>1, NewOwnersType
    <3>3. o2 \in OwnerFcn
      BY <3>1, <3>2, NewOwnersType
    <3>5. structured' \in [Backends -> Backend \cup {Absent}]
      BY <2>2, <3>2, <3>3, ProcessBackendType DEF ComputeDiffs, TypeOK
    <3>6. \A r \in Routes : batch[r].refs \in SUBSET Backends
      BY DEF Batch, RouteUpdate, Unchanged, Invalid, Gone
    <3>7. refs' \in [Routes -> SUBSET Backends]
      BY <2>2, <3>6 DEF ComputeDiffs, TypeOK
    <3>. QED BY <2>2, <3>3, <3>5, <3>7 DEF ComputeDiffs, TypeOK, OwnerFcn
  <2>. QED BY <2>1, <2>2 DEF Next
<1>. QED BY <1>1, <1>2, PTL DEF Spec
-----------------------------------------------------------------------------
(* What the two passes do to the owners: those of each type follow the     *)
(* batch, the pass of the other type leaves them.                          *)
LEMMA OwnersAfterBatch ==
    ASSUME TypeOK, NEW batch \in Batch, ComputeDiffs(batch),
           NEW b \in Backends, NEW t \in BackendOwnerType
    PROVE  owners'[b][t] = {r \in RoutesOf(t) : IF batch[r] = Unchanged
                                                THEN r \in owners[b][t]
                                                ELSE b \in batch[r].refs}
<1> DEFINE http == HandleRoutes(owners, HTTP, batch)
           o1   == NewOwners(owners, HTTP, http)
           tls  == HandleRoutes(o1, TLS, batch)
           Of(o, u) == {r \in RoutesOf(u) : IF batch[r] = Unchanged THEN r \in o[b][u]
                                            ELSE b \in batch[r].refs}
<1>1. owners \in OwnerFcn
  BY DEF TypeOK, OwnerFcn
<1>2. HTTP \in BackendOwnerType /\ TLS \in BackendOwnerType /\ HTTP # TLS
  BY DEF BackendOwnerType, HTTP, TLS
<1>3. o1 \in OwnerFcn
  BY <1>1, <1>2, NewOwnersType
<1>4. owners' = NewOwners(o1, TLS, tls)
  BY DEF ComputeDiffs
<1>5. o1[b] = [owners[b] EXCEPT ![HTTP] = Of(owners, HTTP)]
  BY <1>1, <1>2, NewOwnersAre
<1>6. owners'[b] = [o1[b] EXCEPT ![TLS] = Of(o1, TLS)]
  BY <1>2, <1>3, <1>4, NewOwnersAre
<1>7. owners[b] \in [BackendOwnerType -> SUBSET Routes] /\ o1[b] \in [BackendOwnerType -> SUBSET Routes]
  BY <1>1, <1>3 DEF OwnerFcn
<1>8. CASE t = HTTP
  <2>1. owners'[b][t] = o1[b][t] /\ o1[b][t] = Of(owners, t)
    <3> HIDE DEF o1, Of
    <3>. QED BY <1>2, <1>5, <1>6, <1>7, <1>8
  <2>. QED BY <2>1
<1>9. CASE t = TLS
  <2>1. owners'[b][t] = Of(o1, t) /\ o1[b][t] = owners[b][t]
    <3> HIDE DEF o1, Of
    <3>. QED BY <1>2, <1>5, <1>6, <1>7, <1>9
  <2> HIDE DEF o1
  <2>. QED BY <2>1
<1>. QED BY <1>8, <1>9 DEF BackendOwnerType

(* The owners of a backend are exactly the routes that refer to it.        *)
OwnersExact ==
    \A b \in Backends, t \in BackendOwnerType :
        owners[b][t] = {r \in RoutesOf(t) : b \in refs[r]}

LEMMA OwnersAreExact == Spec => []OwnersExact
<1>1. Init => OwnersExact
  BY DEF Init, OwnersExact, RoutesOf, Routes, BackendOwnerType
<1>2. TypeOK /\ OwnersExact /\ [Next]_vars => OwnersExact'
  <2> SUFFICES ASSUME TypeOK, OwnersExact, [Next]_vars PROVE OwnersExact'
      OBVIOUS
  <2>1. CASE UNCHANGED vars
    BY <2>1 DEF vars, OwnersExact
  <2>2. ASSUME NEW batch \in Batch, ComputeDiffs(batch) PROVE OwnersExact'
    <3> SUFFICES ASSUME NEW b \in Backends, NEW t \in BackendOwnerType
                 PROVE  owners'[b][t] = {r \in RoutesOf(t) : b \in refs'[r]}
        BY DEF OwnersExact
    <3>1. \A r \in RoutesOf(t) : refs'[r] = IF batch[r] = Unchanged THEN refs[r]
                                            ELSE batch[r].refs
      BY <2>2 DEF ComputeDiffs, RoutesOf, Routes
    <3>2. \A r \in RoutesOf(t) : r \in owners[b][t] <=> b \in refs[r]
      BY DEF OwnersExact
    <3>. QED BY <2>2, <3>1, <3>2, OwnersAfterBatch
  <2>. QED BY <2>1, <2>2 DEF Next
<1>. QED BY <1>1, <1>2, TypeCorrect, PTL DEF Spec

(* A backend that had no owner before a batch and has none after it stays  *)
(* out of the configuration; one that lost its last owner is deleted.      *)
AllOwned == ~firstSync => \A b \in Backends : structured[b] # Absent => HasOwner(owners, b)

LEMMA AllAreOwned == Spec => []AllOwned
<1>1. Init => AllOwned
  BY DEF Init, AllOwned
<1>2. TypeOK /\ AllOwned /\ [Next]_vars => AllOwned'
  <2> SUFFICES ASSUME TypeOK, AllOwned, [Next]_vars PROVE AllOwned'
      OBVIOUS
  <2>1. CASE UNCHANGED vars
    BY <2>1 DEF vars, AllOwned, HasOwner
  <2>2. ASSUME NEW batch \in Batch, ComputeDiffs(batch), NEW b \in Backends,
               structured'[b] # Absent
        PROVE  HasOwner(owners', b)
    <3> DEFINE http == HandleRoutes(owners, HTTP, batch)
               o1   == NewOwners(owners, HTTP, http)
               imp1 == Impact(NoImpact, owners, HTTP, http)
               tls  == HandleRoutes(o1, TLS, batch)
               o2   == NewOwners(o1, TLS, tls)
               imp2 == Impact(imp1, o1, TLS, tls)
               p1   == ProcessBackend(structured[b], o1, imp1, b)
    <3>1. owners' = o2
      BY <2>2 DEF ComputeDiffs
    <3>2. structured'[b] = IF firstSync /\ b \notin Kept(o2, imp2) THEN Absent
                           ELSE ProcessBackend(p1, o2, imp2, b)
      BY <2>2 DEF ComputeDiffs
    <3>3. CASE firstSync
      BY <2>2, <3>1, <3>2, <3>3 DEF Kept
    <3>4. CASE ~firstSync
      <4> SUFFICES ASSUME ~HasOwner(o2, b) PROVE FALSE
          BY <3>1
      <4>1. b \notin imp2.deleted
        BY <2>2, <3>2, <3>4 DEF ProcessBackend
      <4>2. ~HasOwner(o1, b) /\ b \notin imp1.deleted
        <5>1. imp1.deleted \cup Orphans(o1, o2) \subseteq imp2.deleted
          BY ImpactGrows
        <5>. QED BY <4>1, <5>1 DEF Orphans
      <4>3. ~HasOwner(owners, b)
        <5>1. Orphans(owners, o1) \subseteq imp1.deleted
          BY ImpactGrows
        <5>. QED BY <4>2, <5>1 DEF Orphans
      <4>4. structured[b] = Absent
        BY <3>4, <4>3 DEF AllOwned
      <4>5. p1 = Absent
        BY <4>2, <4>4 DEF ProcessBackend
      <4>6. ProcessBackend(p1, o2, imp2, b) = Absent
        BY <4>5 DEF ProcessBackend
      <4>. QED BY <2>2, <3>2, <3>4, <4>6
    <3>. QED BY <3>3, <3>4
  <2>. QED BY <2>1, <2>2 DEF Next, AllOwned
<1>. QED BY <1>1, <1>2, TypeCorrect, PTL DEF Spec

(* After the first sync every backend of the configuration has a route     *)
(* that refers to it: every batch leaves only backends with owners, and    *)
(* the owners follow the routes through all calls of add and remove.       *)
THEOREM NoOrphans == Spec => []NoOrphanBackends
<1>1. OwnersExact /\ AllOwned => NoOrphanBackends
  <2> SUFFICES ASSUME OwnersExact, AllOwned, ~firstSync,
                      NEW b \in Backends, structured[b] # Absent
               PROVE  Referring(b) # {}
      BY DEF NoOrphanBackends
  <2>1. PICK t \in BackendOwnerType : owners[b][t] # {}
    BY DEF AllOwned, HasOwner
  <2>2. PICK r \in RoutesOf(t) : b \in refs[r]
    BY <2>1 DEF OwnersExact
  <2>. QED BY <2>2 DEF Referring, RoutesOf, Routes
<1>. QED BY <1>1, OwnersAreExact, AllAreOwned, PTL
-----------------------------------------------------------------------------
(* Before the first batch no backend has owners; a backend has owners of   *)
(* the one type whose routes can name it.                                  *)
OwnersNamed ==
    \A b \in Backends, t \in BackendOwnerType :
        owners[b][t] # {} => b \in NamesOf[t] /\ ~firstSync

LEMMA OwnersAreNamed == Spec => []OwnersNamed
<1>1. Init => OwnersNamed
  BY DEF Init, OwnersNamed
<1>2. TypeOK /\ OwnersNamed /\ [Next]_vars => OwnersNamed'
  <2> SUFFICES ASSUME TypeOK, OwnersNamed, [Next]_vars PROVE OwnersNamed'
      OBVIOUS
  <2>1. CASE UNCHANGED vars
    BY <2>1 DEF vars, OwnersNamed
  <2>2. ASSUME NEW batch \in Batch, ComputeDiffs(batch),
               NEW b \in Backends, NEW t \in BackendOwnerType, owners'[b][t] # {}
        PROVE  b \in NamesOf[t] /\ ~firstSync'
    <3>1. PICK r \in RoutesOf(t) : r \in owners[b][t] \/ b \in batch[r].refs
      BY <2>2, OwnersAfterBatch
    <3>2. b \in NamesOf[t]
      BY <3>1 DEF OwnersNamed, Batch
    <3>. QED BY <2>2, <3>2 DEF ComputeDiffs
  <2>. QED BY <2>1, <2>2 DEF Next, OwnersNamed
<1>. QED BY <1>1, <1>2, TypeCorrect, PTL DEF Spec

(* A backend that no route of the batch names, left or dropped keeps its   *)
(* owners.                                                                 *)
LEMMA OwnersUntouched ==
    ASSUME NEW o \in OwnerFcn,
           NEW t \in BackendOwnerType, NEW b \in Backends, NEW batch \in Batch,
           o[b][t] \subseteq RoutesOf(t), NEW imp,
           LET new == Impact(imp, o, t, HandleRoutes(o, t, batch))
           IN  b \notin new.upserted \cup new.unreferenced \cup new.deleted
    PROVE  NewOwners(o, t, HandleRoutes(o, t, batch))[b] = o[b]
<1>1. ASSUME NEW r \in RoutesOf(t), batch[r] # Unchanged
      PROVE  r \notin o[b][t] /\ b \notin batch[r].refs
  <2>1. batch[r] \in RouteUpdate
    BY DEF Batch, Routes, RoutesOf
  <2>2. CASE batch[r].status = "upserted"
    <3>1. b \notin batch[r].refs /\ b \notin ReferencedBy(o, t, r) \ batch[r].refs
      BY <2>2, ImpactOfRoute
    <3>. QED BY <3>1 DEF ReferencedBy
  <2>3. CASE batch[r] \in {Invalid, Gone}
    <3>1. b \notin ReferencedBy(o, t, r)
      BY <2>3, ImpactOfRoute
    <3>. QED BY <2>3, <3>1 DEF ReferencedBy, Invalid, Gone
  <2>. QED BY <1>1, <2>1, <2>2, <2>3 DEF RouteUpdate
<1>2. {r \in RoutesOf(t) : IF batch[r] = Unchanged THEN r \in o[b][t]
                           ELSE b \in batch[r].refs} = o[b][t]
  BY <1>1
<1>3. NewOwners(o, t, HandleRoutes(o, t, batch))[b] = [o[b] EXCEPT ![t] = o[b][t]]
  BY <1>2, NewOwnersAre
<1>. QED BY <1>3 DEF OwnerFcn

(* A backend of the configuration is what its owners of today make of it:  *)
(* one the batch names is built again, one that a route left gets new      *)
(* metadata, and any other has the owners it had.  Its mode cannot become  *)
(* outdated, since a backend has owners of one type.                       *)
MadeByOwners ==
    ~firstSync => \A b \in Backends :
        structured[b] # Absent => structured[b] = NewBackend(owners, b)

LEMMA AllMadeByOwners == Spec => []MadeByOwners
<1> DEFINE Inv == TypeOK /\ OwnersExact /\ OwnersNamed /\ AllOwned
<1>1. Init => MadeByOwners
  BY DEF Init, MadeByOwners
<1>2. Inv /\ Inv' /\ MadeByOwners /\ [Next]_vars => MadeByOwners'
  <2> SUFFICES ASSUME Inv, Inv', MadeByOwners, [Next]_vars PROVE MadeByOwners'
      OBVIOUS
  <2>1. CASE UNCHANGED vars
    BY <2>1 DEF vars, MadeByOwners, NewBackend, OwnersForRoute
  <2>2. ASSUME NEW batch \in Batch, ComputeDiffs(batch), NEW b \in Backends,
               structured'[b] # Absent
        PROVE  structured'[b] = NewBackend(owners', b)
    <3> DEFINE http == HandleRoutes(owners, HTTP, batch)
               o1   == NewOwners(owners, HTTP, http)
               imp1 == Impact(NoImpact, owners, HTTP, http)
               tls  == HandleRoutes(o1, TLS, batch)
               o2   == NewOwners(o1, TLS, tls)
               imp2 == Impact(imp1, o1, TLS, tls)
               p1   == ProcessBackend(structured[b], o1, imp1, b)
               p2   == ProcessBackend(p1, o2, imp2, b)
    <3>1. owners' = o2 /\ owners \in OwnerFcn /\ o2 \in OwnerFcn
      BY <2>2 DEF ComputeDiffs, TypeOK, OwnerFcn
    <3>2. structured'[b] = p2 /\ b \notin imp2.deleted
      BY <2>2 DEF ComputeDiffs, ProcessBackend
    <3>3. HasOwner(o2, b)
      BY <2>2, <3>1 DEF AllOwned, ComputeDiffs
    <3>4. /\ imp1.upserted \subseteq imp2.upserted
          /\ imp1.unreferenced \subseteq imp2.unreferenced
          /\ imp1.deleted \subseteq imp2.deleted
      BY ImpactGrows
    <3>5. HTTP \in BackendOwnerType /\ TLS \in BackendOwnerType /\ HTTP # TLS
      BY DEF BackendOwnerType, HTTP, TLS
    <3>6. CASE b \in imp2.upserted
      <4>1. /\ NewBackend(o2, b).metadata = OwnersForRoute(o2, b)
            /\ [NewBackend(o2, b) EXCEPT !.metadata = OwnersForRoute(o2, b)] = NewBackend(o2, b)
        BY DEF NewBackend
      <4>2. p2 = NewBackend(o2, b)
        BY <3>2, <3>3, <3>6, <4>1 DEF ProcessBackend
      <4>. QED BY <3>1, <3>2, <4>2
    <3>7. CASE b \notin imp2.upserted
      <4>1. structured[b] # Absent
        BY <2>2, <3>2, <3>4, <3>7 DEF ProcessBackend
      <4>2. ~firstSync
        <5> SUFFICES ASSUME firstSync PROVE FALSE
            OBVIOUS
        <5>1. \A c \in Backends, t \in BackendOwnerType : owners[c][t] = {}
          BY DEF OwnersNamed
        <5>2. PICK t \in BackendOwnerType, r \in Routes : r \in RoutesOf(t) /\ r \in o2[b][t]
          BY <2>2, <3>1, <3>3, OwnersAfterBatch DEF HasOwner, Routes, RoutesOf
        <5>3. batch[r] # Unchanged /\ b \in batch[r].refs
          BY <2>2, <3>1, <5>1, <5>2, OwnersAfterBatch
        <5>4. r \in Routes /\ batch[r] \in RouteUpdate /\ batch[r].status = "upserted"
          BY <5>2, <5>3 DEF Batch, Routes, RoutesOf, RouteUpdate, Invalid, Gone
        <5>5. CASE t = HTTP
          BY <3>4, <3>5, <3>7, <5>2, <5>3, <5>4, <5>5, ImpactOfRoute
        <5>6. CASE t = TLS
          BY <3>5, <3>7, <5>2, <5>3, <5>4, <5>6, ImpactOfRoute
        <5>. QED BY <5>5, <5>6 DEF BackendOwnerType
      <4>3. structured[b] = NewBackend(owners, b) /\ HasOwner(owners, b)
        BY <4>1, <4>2 DEF MadeByOwners, AllOwned
      <4>4. p1.mode = structured[b].mode /\ p1 # Absent
        BY <3>2, <3>4, <3>7, <4>1, <4>3 DEF ProcessBackend, NewBackend, Absent
      <4>5. CASE b \in imp2.unreferenced
        <5>1. p2 = [p1 EXCEPT !.metadata = OwnersForRoute(o2, b)]
          BY <3>2, <3>3, <3>7, <4>4, <4>5 DEF ProcessBackend
        <5>2. p1 \in Backend
          BY <3>1, <3>5, <4>4, NewOwnersType, ProcessBackendType DEF TypeOK
        <5>3. owners[b][HTTP] # {} <=> o2[b][HTTP] # {}
          BY <3>1, <3>3, <3>5, <4>3, NamesAssumption DEF OwnersNamed, HasOwner, BackendOwnerType
        <5>4. p1.mode = NewBackend(o2, b).mode
          BY <4>3, <4>4, <5>3 DEF NewBackend
        <5>5. p2 = [mode |-> p1.mode, metadata |-> OwnersForRoute(o2, b)]
          BY <5>1, <5>2 DEF Backend
        <5>. QED BY <3>1, <3>2, <5>4, <5>5 DEF NewBackend
      <4>6. CASE b \notin imp2.unreferenced
        <5>1. p2 = structured[b]
          BY <3>2, <3>4, <3>7, <4>6 DEF ProcessBackend
        <5>2. \A t \in BackendOwnerType : owners[b][t] \subseteq RoutesOf(t)
          BY DEF OwnersExact
        <5>3. o1[b] = owners[b]
          BY <3>1, <3>2, <3>4, <3>5, <3>7, <4>6, <5>2, OwnersUntouched
        <5>4. o1 \in OwnerFcn
          BY <3>1, <3>5, NewOwnersType
        <5>5. o2[b] = o1[b]
          BY <3>2, <3>5, <3>7, <4>6, <5>2, <5>3, <5>4, OwnersUntouched
        <5>6. NewBackend(o2, b) = NewBackend(owners, b)
          BY <5>3, <5>5 DEF NewBackend, OwnersForRoute
        <5>. QED BY <3>1, <3>2, <4>3, <5>1, <5>6
      <4>. QED BY <4>5, <4>6
    <3>. QED BY <3>6, <3>7
  <2>. QED BY <2>1, <2>2 DEF Next, MadeByOwners
<1>. QED BY <1>1, <1>2, TypeCorrect, OwnersAreExact, OwnersAreNamed, AllAreOwned, PTL DEF Spec

(* A backend of the configuration has the mode of the routes that refer to *)
(* it now and metadata that name exactly those.                            *)
THEOREM MetadataIsExact == Spec => []MetadataExact
<1> DEFINE Inv == OwnersExact /\ OwnersNamed /\ AllOwned /\ MadeByOwners
<1>1. Inv => MetadataExact
  <2> SUFFICES ASSUME Inv, ~firstSync, NEW b \in Backends, structured[b] # Absent
               PROVE  structured[b] = [mode     |-> IF Referring(b) \cap HTTPRoutes # {}
                                                    THEN "http" ELSE "tcp",
                                       metadata |-> Referring(b)]
      BY DEF MetadataExact
  <2>1. HTTP \in BackendOwnerType /\ TLS \in BackendOwnerType /\ HTTP # TLS
    BY DEF BackendOwnerType, HTTP, TLS
  <2>2. /\ owners[b][HTTP] = {r \in HTTPRoutes : b \in refs[r]}
        /\ owners[b][TLS] = {r \in TLSRoutes : b \in refs[r]}
    BY <2>1 DEF OwnersExact, RoutesOf
  <2>3. owners[b][HTTP] = {} \/ owners[b][TLS] = {}
    BY <2>1, NamesAssumption DEF OwnersNamed
  <2>4. Referring(b) \cap HTTPRoutes = owners[b][HTTP]
    BY <2>2 DEF Referring, Routes
  <2>5. OwnersForRoute(owners, b) = Referring(b)
    BY <2>2, <2>3 DEF OwnersForRoute, Referring, Routes
  <2>. QED BY <2>4, <2>5 DEF MadeByOwners, NewBackend
<1>. QED BY <1>1, OwnersAreExact, OwnersAreNamed, AllAreOwned, AllMadeByOwners, PTL
=============================================================================
