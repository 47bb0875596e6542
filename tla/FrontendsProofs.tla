--------------------------- MODULE FrontendsProofs ---------------------------
(***************************************************************************)
(* What Frontends promises of certificates, crt-lists, frontends and       *)
(* gateways, for all objects and all batches.                              *)
(*                                                                         *)
(* The proofs follow a batch through the stages of the tree builder:       *)
(* Listed, BeforeConflicts, CheckedTree, WithGateways, and tree', which    *)
(* the route builders leave with the gateways of WithGateways (BatchTree,  *)
(* by induction over the routes of the batch).  Each stage has a lemma on  *)
(* what it makes of one gateway.  On top of them come four inductive       *)
(* invariants: ServingInv for the files, GatewaysInv for the ports,        *)
(* FrontendsInv for the configuration, CurrentInv for the verdicts.        *)
(***************************************************************************)
EXTENDS Frontends, FiniteSetTheorems, WellFoundedInduction, TLAPS

Kinds      == {"secrets", "services", "classes", "gateways", "routes"}
NodeFields == {"in", "status", "spec", "managed", "valid", "listeners"}

(* No route has the namespace and the name of a gateway.  Such a route     *)
(* takes the gateway out of the tree (HTTPRoute-builder.go, SetAsManaged   *)
(* and SetAsUnmanaged), and its frontends stay.                            *)
NoNamesakes == \A r \in Routes : Namesake[r] = {}

SameListeners(ls, ms) ==
    /\ DOMAIN ms = DOMAIN ls
    /\ \A n \in DOMAIN ls : /\ ms[n].spec = ls[n].spec
                          /\ ms[n].reasons = ls[n].reasons
                          /\ ms[n].valid = ls[n].valid

(* A gateway that gains and loses routes keeps what its checks found.      *)
SameGateway(node, other) ==
    /\ DOMAIN other = DOMAIN node
    /\ other.in = node.in
    /\ other.spec = node.spec
    /\ other.managed = node.managed
    /\ other.valid = node.valid
    /\ other = node \/ (node.status # Deleted /\ other.status = Upserted)
    /\ SameListeners(node.listeners, other.listeners)

(* What the route builders leave alone                                     *)
GatewaysKept(t, u) ==
    /\ DOMAIN u = Kinds
    /\ u.secrets = t.secrets
    /\ u.classes = t.classes
    /\ DOMAIN u.gateways \subseteq DOMAIN t.gateways
    /\ NoNamesakes => DOMAIN u.gateways = DOMAIN t.gateways
    /\ \A g \in DOMAIN u.gateways : SameGateway(t.gateways[g], u.gateways[g])

NodesHaveFields(t) == \A g \in DOMAIN t.gateways : DOMAIN t.gateways[g] = NodeFields
-----------------------------------------------------------------------------
(* Every set of naturals that is not empty has a least element.            *)
LEMMA LeastNatural ==
    ASSUME NEW T \in SUBSET Nat, T # {}
    PROVE  \E n \in T : \A m \in T : n <= m
<1>1. PICK n \in T : \A m \in T : <<m, n>> \notin OpToRel(<, Nat)
  BY NatLessThanWellFounded, WFMin, Zenon
<1>2. \A m \in T : ~ (m < n)
  BY <1>1 DEF OpToRel
<1>. QED BY <1>2

(* computeTreeRouteUpdates goes through the trees of its recursion.        *)
LEMMA RouteUpdatesUnfold ==
    ASSUME NEW t, NEW routes, Len(routes) \in Nat
    PROVE  \E built : /\ built = [i \in 0..Len(routes) |->
                                     IF i = 0 THEN t ELSE computeTreeRouteUpdate(built[i - 1], routes[i])]
                      /\ computeTreeRouteUpdates(t, routes) = built[Len(routes)]
<1> DEFINE Def(g, n) == g = [i \in 0..n |-> IF i = 0 THEN t ELSE computeTreeRouteUpdate(g[i - 1], routes[i])]
           T == {n \in 0..Len(routes) : ~ \E g : Def(g, n)}
<1>1. T = {}
  <2> SUFFICES ASSUME T # {} PROVE FALSE
      OBVIOUS
  <2>1. T \in SUBSET Nat
    OBVIOUS
  <2>2. PICK n \in T : \A m \in T : n <= m
    BY ONLY <2>1, T # {}, LeastNatural
  <2>3. n # 0
    <3>1. Def([i \in 0..0 |-> t], 0)
      OBVIOUS
    <3>. QED BY <3>1
  <2>4. n - 1 \notin T /\ n - 1 \in 0..Len(routes) /\ n \in Nat
    <3>1. n \in 0..Len(routes)
      OBVIOUS
    <3>2. n \in Nat /\ n - 1 \in 0..Len(routes) /\ ~ (n <= n - 1)
      BY <2>3, <3>1
    <3> HIDE DEF T
    <3>. QED BY <2>2, <3>2
  <2>5. PICK g : Def(g, n - 1)
    BY <2>4
  <2>6. Def([i \in 0..n |-> IF i = n THEN computeTreeRouteUpdate(g[n - 1], routes[n]) ELSE g[i]], n)
    BY <2>3, <2>4, <2>5
  <2>. QED BY <2>6
<1>2. \E g : Def(g, Len(routes))
  BY <1>1
<1> DEFINE built == CHOOSE g : Def(g, Len(routes))
<1>3. Def(built, Len(routes))
  BY <1>2
<1>4. computeTreeRouteUpdates(t, routes) = built[Len(routes)]
  BY DEF computeTreeRouteUpdates
<1>. QED BY <1>3, <1>4
-----------------------------------------------------------------------------
LEMMA KeptAttach ==
    ASSUME NEW t, DOMAIN t = Kinds, NodesHaveFields(t), NEW r, NEW refs, NEW routes,
           \A ref \in refs : ref.gateway \in LiveGateways(t)
    PROVE  GatewaysKept(t, Rebuilt(t, addAttachedRoute(t.gateways, r, refs), routes))
<1> DEFINE u == Rebuilt(t, addAttachedRoute(t.gateways, r, refs), routes)
<1>1. u.gateways = addAttachedRoute(t.gateways, r, refs) /\ DOMAIN u = Kinds
      /\ u.secrets = t.secrets /\ u.classes = t.classes
  BY DEF Rebuilt, Kinds
<1>2. DOMAIN u.gateways = DOMAIN t.gateways
  BY <1>1 DEF addAttachedRoute
<1>3. ASSUME NEW g \in DOMAIN t.gateways PROVE SameGateway(t.gateways[g], u.gateways[g])
  <2>1. CASE ~ \E ref \in refs : ref.gateway = g
    <3>1. u.gateways[g] = t.gateways[g]
      BY <1>1, <2>1 DEF addAttachedRoute
    <3>. QED BY <3>1 DEF SameGateway, SameListeners
  <2>2. CASE \E ref \in refs : ref.gateway = g
    <3>1. t.gateways[g].status # Deleted
      BY <2>2 DEF LiveGateways
    <3> DEFINE ls == t.gateways[g].listeners
               ms == [n \in DOMAIN ls |->
                        IF \E ref \in refs : ref.gateway = g /\ ref.listener = n
                        THEN Attach(ls[n], ls[n].attached \cup {r})
                        ELSE ls[n]]
    <3>2. u.gateways[g] = Touched(t.gateways[g], ms)
      BY <1>1, <2>2 DEF addAttachedRoute
    <3>3. SameListeners(ls, ms)
      BY DEF SameListeners, Attach
    <3> HIDE DEF ms
    <3>. QED BY <3>1, <3>2, <3>3 DEF SameGateway, Touched, NodesHaveFields, NodeFields
  <2>. QED BY <2>1, <2>2
<1>. QED BY <1>1, <1>2, <1>3 DEF GatewaysKept

LEMMA KeptDelete ==
    ASSUME NEW t, DOMAIN t = Kinds, NodesHaveFields(t), NEW r, NEW routes
    PROVE  GatewaysKept(t, Rebuilt(t, deleteAttachedRoute(t, r), routes))
<1> DEFINE u == Rebuilt(t, deleteAttachedRoute(t, r), routes)
           refs == t.routes[r].refs
<1>1. u.gateways = deleteAttachedRoute(t, r) /\ DOMAIN u = Kinds
      /\ u.secrets = t.secrets /\ u.classes = t.classes
  BY DEF Rebuilt, Kinds
<1>2. DOMAIN u.gateways = DOMAIN t.gateways
  BY <1>1 DEF deleteAttachedRoute
<1>3. ASSUME NEW g \in DOMAIN t.gateways PROVE SameGateway(t.gateways[g], u.gateways[g])
  <2>1. CASE ~ (g \in LiveGateways(t) /\ \E ref \in refs : ref.gateway = g)
    <3>1. u.gateways[g] = t.gateways[g]
      BY <1>1, <2>1 DEF deleteAttachedRoute
    <3>. QED BY <3>1 DEF SameGateway, SameListeners
  <2>2. CASE g \in LiveGateways(t) /\ \E ref \in refs : ref.gateway = g
    <3>1. t.gateways[g].status # Deleted
      BY <2>2 DEF LiveGateways
    <3> DEFINE ls == t.gateways[g].listeners
               ms == [n \in DOMAIN ls |->
                        IF \E ref \in refs : ref.gateway = g /\ ref.listener = n /\ ref.current
                        THEN Attach(ls[n], ls[n].attached \ {r})
                        ELSE ls[n]]
    <3>2. u.gateways[g] = Touched(t.gateways[g], ms)
      BY <1>1, <2>2 DEF deleteAttachedRoute
    <3>3. SameListeners(ls, ms)
      BY DEF SameListeners, Attach
    <3> HIDE DEF ms
    <3>. QED BY <3>1, <3>2, <3>3 DEF SameGateway, Touched, NodesHaveFields, NodeFields
  <2>. QED BY <2>1, <2>2
<1>. QED BY <1>1, <1>2, <1>3 DEF GatewaysKept

LEMMA KeptLost ==
    ASSUME NEW t, DOMAIN t = Kinds, NEW r \in Routes, NEW in, NEW routes
    PROVE  GatewaysKept(t, Rebuilt(t, Without(t.gateways, Lost(t, r, in)), routes))
<1> DEFINE u == Rebuilt(t, Without(t.gateways, Lost(t, r, in)), routes)
<1>1. u.gateways = Without(t.gateways, Lost(t, r, in)) /\ DOMAIN u = Kinds
      /\ u.secrets = t.secrets /\ u.classes = t.classes
  BY DEF Rebuilt, Kinds
<1>2. DOMAIN u.gateways \subseteq DOMAIN t.gateways /\ \A g \in DOMAIN u.gateways : u.gateways[g] = t.gateways[g]
  BY <1>1 DEF Without
<1>3. NoNamesakes => DOMAIN u.gateways = DOMAIN t.gateways
  BY <1>1 DEF Without, Lost, NoNamesakes
<1>4. \A g \in DOMAIN u.gateways : SameGateway(t.gateways[g], u.gateways[g])
  BY <1>2 DEF SameGateway, SameListeners
<1>. QED BY <1>1, <1>2, <1>3, <1>4 DEF GatewaysKept

LEMMA KeptFields ==
    ASSUME NEW t, NodesHaveFields(t), NEW u, GatewaysKept(t, u)
    PROVE  NodesHaveFields(u)
BY DEF NodesHaveFields, GatewaysKept, SameGateway

LEMMA KeptReflexive ==
    ASSUME NEW t, DOMAIN t = Kinds
    PROVE  GatewaysKept(t, t)
BY DEF GatewaysKept, SameGateway, SameListeners

LEMMA KeptTransitive ==
    ASSUME NEW t, NEW u, NEW w, GatewaysKept(t, u), GatewaysKept(u, w)
    PROVE  GatewaysKept(t, w)
<1>1. DOMAIN w = Kinds /\ w.secrets = t.secrets /\ w.classes = t.classes
      /\ DOMAIN w.gateways \subseteq DOMAIN t.gateways
  BY DEF GatewaysKept
<1>2. NoNamesakes => DOMAIN w.gateways = DOMAIN t.gateways
  BY DEF GatewaysKept
<1>3. ASSUME NEW g \in DOMAIN w.gateways PROVE SameGateway(t.gateways[g], w.gateways[g])
  <2>1. g \in DOMAIN u.gateways /\ SameGateway(u.gateways[g], w.gateways[g])
        /\ SameGateway(t.gateways[g], u.gateways[g])
    BY DEF GatewaysKept
  <2>2. SameListeners(t.gateways[g].listeners, w.gateways[g].listeners)
    BY <2>1 DEF SameGateway, SameListeners
  <2>. QED BY <2>1, <2>2 DEF SameGateway
<1>. QED BY <1>1, <1>2, <1>3 DEF GatewaysKept

LEMMA KeptUpsert ==
    ASSUME NEW t, DOMAIN t = Kinds, NodesHaveFields(t), NEW r \in Routes, NEW refs,
           \A ref \in refs : ref.gateway \in LiveGateways(t)
    PROVE  GatewaysKept(t, UpsertRoute(t, r, refs))
<1> DEFINE known == r \in DOMAIN t.routes
           node  == [in |-> IF known THEN t.routes[r].in ELSE {}, status |-> Upserted, spec |-> store[r],
                     valid |-> refs # {}, refs |-> refs,
                     rules |-> IF known THEN t.routes[r].rules ELSE <<>>]
           routes == Override(t.routes, [x \in {r} |-> node])
           built == Rebuilt(t, addAttachedRoute(t.gateways, r, refs), routes)
<1>1. UpsertRoute(t, r, refs) = IF refs # {} THEN SetAsManaged(built, r) ELSE SetAsUnmanaged(built, r)
  BY DEF UpsertRoute
<1> HIDE DEF routes
<1>2. GatewaysKept(t, built)
  BY KeptAttach
<1> HIDE DEF built
<1>3. DOMAIN built = Kinds
  BY <1>2 DEF GatewaysKept
<1>4. GatewaysKept(built, SetAsManaged(built, r))
  BY <1>3, KeptLost DEF SetAsManaged
<1>5. GatewaysKept(built, SetAsUnmanaged(built, r))
  BY <1>3, KeptLost DEF SetAsUnmanaged
<1>. QED BY <1>1, <1>2, <1>4, <1>5, KeptTransitive

(* One route's update: its listeners are of gateways that are not deleted. *)
LEMMA KeptUpdate ==
    ASSUME NEW t, DOMAIN t = Kinds, NodesHaveFields(t), NEW r \in Routes
    PROVE  GatewaysKept(t, computeTreeRouteUpdate(t, r))
<1>1. \A p : \A ref \in ListenersOf(t, p) : ref.gateway \in LiveGateways(t)
  BY DEF ListenersOf
<1>2. \A ref \in checkHTTPParentRefs(t, store[r]) : ref.gateway \in LiveGateways(t)
  BY <1>1 DEF checkHTTPParentRefs, checkHTTPParentRef
<1>3. \A ref \in checkTLSParentRefs(t, store[r]) : ref.gateway \in LiveGateways(t)
  BY <1>1 DEF checkTLSParentRefs, checkTLSParentRef
<1>4. GatewaysKept(t, DeleteRoute(t, r))
  BY KeptDelete, KeptReflexive DEF DeleteRoute
<1>5. GatewaysKept(t, UpsertRoute(t, r, checkHTTPParentRefs(t, store[r])))
  BY <1>2, KeptUpsert
<1>6. GatewaysKept(t, UpsertRoute(t, r, checkTLSParentRefs(t, store[r])))
  BY <1>3, KeptUpsert
<1>. QED BY <1>4, <1>5, <1>6 DEF computeTreeRouteUpdate, computeTreeHTTPRouteUpdate, computeTreeTLSRouteUpdate

LEMMA KeptUpdates ==
    ASSUME NEW t, DOMAIN t = Kinds, NodesHaveFields(t), NEW routes \in Seq(Routes)
    PROVE  GatewaysKept(t, computeTreeRouteUpdates(t, routes))
<1>1. Len(routes) \in Nat
  OBVIOUS
<1>2. PICK built : /\ built = [i \in 0..Len(routes) |->
                                  IF i = 0 THEN t ELSE computeTreeRouteUpdate(built[i - 1], routes[i])]
                   /\ computeTreeRouteUpdates(t, routes) = built[Len(routes)]
  BY <1>1, RouteUpdatesUnfold
<1> DEFINE T == {n \in 0..Len(routes) : ~ GatewaysKept(t, built[n])}
<1>3. T = {}
  <2> SUFFICES ASSUME T # {} PROVE FALSE
      OBVIOUS
  <2>1. T \in SUBSET Nat
    OBVIOUS
  <2>2. PICK n \in T : \A m \in T : n <= m
    BY ONLY <2>1, T # {}, LeastNatural
  <2>3. n # 0
    BY <1>1, <1>2, KeptReflexive
  <2>4. n - 1 \notin T /\ n - 1 \in 0..Len(routes) /\ n \in 1..Len(routes)
    BY <1>1, <2>2, <2>3
  <2>5. GatewaysKept(t, built[n - 1])
    BY <2>4
  <2>6. routes[n] \in Routes
    BY <2>4
  <2>7. built[n] = computeTreeRouteUpdate(built[n - 1], routes[n])
    BY <1>2, <2>3, <2>4
  <2>8. DOMAIN built[n - 1] = Kinds /\ NodesHaveFields(built[n - 1])
    BY <2>5, KeptFields DEF GatewaysKept
  <2>9. GatewaysKept(built[n - 1], built[n])
    BY <2>6, <2>7, <2>8, KeptUpdate
  <2>. QED BY <2>2, <2>5, <2>9, KeptTransitive
<1>. QED BY <1>1, <1>2, <1>3

-----------------------------------------------------------------------------
(* Specs are specs of their keys, and a batch has finitely many keys.      *)
InputsSound ==
    /\ DOMAIN cluster \subseteq Keys
    /\ \A k \in DOMAIN cluster : cluster[k] \in Versions[k]
    /\ DOMAIN store \subseteq Keys
    /\ \A k \in DOMAIN store : store[k] \in Versions[k]
    /\ updates \subseteq Keys
    /\ IsFiniteSet(updates)

(* The fields of the tree and of its nodes                                 *)
TreeShape ==
    /\ DOMAIN tree = Kinds
    /\ NodesHaveFields(tree)
    /\ DOMAIN tree.secrets \subseteq Secrets
    /\ \A s \in DOMAIN tree.secrets : DOMAIN tree.secrets[s] = {"status"}
    /\ DOMAIN tree.classes \subseteq Classes
    /\ \A c \in DOMAIN tree.classes : DOMAIN tree.classes[c] = {"status", "valid"}

(* The tree before its gateways are looked at, and once they have been     *)
Listed      == computeTreeGatewayClassUpdate(computeTreeSecretUpdate(cleanTreeUpdates(tree)))
WithGateways == computeGateways(Listed)

LEMMA CleanedTree ==
    ASSUME TreeShape
    PROVE  LET t == cleanTreeUpdates(tree)
           IN  /\ DOMAIN t = Kinds
               /\ t.secrets = Cleaned(tree.secrets)
               /\ t.classes = Cleaned(tree.classes)
               /\ t.gateways = Cleaned(tree.gateways)
BY DEF TreeShape, cleanTreeUpdates, Kinds

LEMMA ListedTree ==
    ASSUME TreeShape
    PROVE  /\ DOMAIN Listed = Kinds
           /\ Listed.secrets = UpdatedNodes(Cleaned(tree.secrets), Secrets)
           /\ Listed.gateways = Cleaned(tree.gateways)
           /\ Listed.classes = Override([c \in DOMAIN Cleaned(tree.classes) |->
                                            IF c \in Gone(Classes) THEN DeletedClass
                                            ELSE Cleaned(tree.classes)[c]],
                                        [c \in InStore(Classes) |-> UpsertedClass(store[c])])
<1> DEFINE t == cleanTreeUpdates(tree)
           u == computeTreeSecretUpdate(t)
<1>1. DOMAIN t = Kinds /\ t.secrets = Cleaned(tree.secrets) /\ t.classes = Cleaned(tree.classes)
      /\ t.gateways = Cleaned(tree.gateways)
  BY CleanedTree
<1> HIDE DEF t
<1>2. DOMAIN u = Kinds /\ u.secrets = UpdatedNodes(t.secrets, Secrets) /\ u.classes = t.classes
      /\ u.gateways = t.gateways
  BY <1>1 DEF computeTreeSecretUpdate, Kinds
<1> HIDE DEF u
<1>3. Listed = computeTreeGatewayClassUpdate(u)
  BY DEF Listed, u, t
<1>. QED BY <1>1, <1>2, <1>3 DEF computeTreeGatewayClassUpdate, Kinds

(* The gateways of the three stages of the gateway builder                 *)
LEMMA UpdatedTree ==
    ASSUME TreeShape
    PROVE  /\ BeforeConflicts = computeTreeGatewayUpdate(Listed)
           /\ DOMAIN BeforeConflicts = Kinds
           /\ BeforeConflicts.secrets = Listed.secrets
           /\ BeforeConflicts.classes = Listed.classes
           /\ BeforeConflicts.gateways =
                Override([g \in DOMAIN Listed.gateways |->
                             IF g \in Gone(Gateways)
                             THEN [Reset(Listed.gateways[g].spec, Listed.gateways[g].in) EXCEPT !.status = Deleted]
                             ELSE Listed.gateways[g]],
                         [g \in {x \in InStore(Gateways) : x \in DOMAIN Listed.gateways
                                                           \/ store[x].class \in DOMAIN Listed.classes} |->
                             processManagementChecks(Listed, g, store[g])])
<1>1. BeforeConflicts = computeTreeGatewayUpdate(Listed)
  BY DEF BeforeConflicts, Listed
<1>2. DOMAIN Listed = Kinds
  BY ListedTree
<1>. QED BY <1>1, <1>2 DEF computeTreeGatewayUpdate, Kinds

CheckedTree == recheckConflicting(BeforeConflicts)
ProcessedGateways == {g \in ManagedGateways(CheckedTree) :
                        /\ CheckedTree.gateways[g].status = Upserted
                        /\ CheckedTree.gateways[g].managed}

LEMMA RecheckedTree ==
    ASSUME TreeShape
    PROVE  /\ DOMAIN CheckedTree = Kinds
           /\ CheckedTree.secrets = Listed.secrets
           /\ CheckedTree.classes = Listed.classes
           /\ CheckedTree.gateways =
                Override(BeforeConflicts.gateways,
                         [g \in Rechecked(BeforeConflicts) |->
                             processManagementChecks(BeforeConflicts, g, BeforeConflicts.gateways[g].spec)])
<1>1. DOMAIN BeforeConflicts = Kinds /\ BeforeConflicts.secrets = Listed.secrets
      /\ BeforeConflicts.classes = Listed.classes
  BY UpdatedTree
<1>. QED BY <1>1 DEF CheckedTree, recheckConflicting, Kinds

LEMMA GatewaysTree ==
    ASSUME TreeShape
    PROVE  /\ DOMAIN WithGateways = Kinds
           /\ WithGateways.secrets = Listed.secrets
           /\ WithGateways.classes = Listed.classes
           /\ WithGateways.gateways =
                Override(CheckedTree.gateways,
                         [g \in ProcessedGateways |->
                             buildListeners(BeforeConflicts, CheckedTree.gateways[g],
                                            portsWithMultipleListeners(BeforeConflicts))])
<1>1. BeforeConflicts = computeTreeGatewayUpdate(Listed)
  BY UpdatedTree
<1>2. \E routes :
        WithGateways = Rebuilt(CheckedTree,
                Override(CheckedTree.gateways,
                         [g \in ProcessedGateways |->
                             buildListeners(BeforeConflicts, CheckedTree.gateways[g],
                                            portsWithMultipleListeners(BeforeConflicts))]), routes)
  BY <1>1 DEF WithGateways, computeGateways, CheckedTree, ProcessedGateways
<1>3. CheckedTree.secrets = Listed.secrets /\ CheckedTree.classes = Listed.classes
  BY RecheckedTree
<1>. QED BY <1>2, <1>3 DEF Rebuilt, Kinds

(* What each stage makes of one gateway                                    *)
LEMMA CleanedGateway ==
    ASSUME TreeShape, NEW g
    PROVE  /\ g \in DOMAIN Listed.gateways <=> g \in DOMAIN tree.gateways /\ tree.gateways[g].status # Deleted
           /\ g \in DOMAIN Listed.gateways =>
                 LET node == tree.gateways[g]
                     now  == Listed.gateways[g]
                 IN  /\ DOMAIN now = NodeFields
                     /\ now.status = Untouched
                     /\ now.in = node.in
                     /\ now.spec = node.spec
                     /\ now.managed = node.managed
                     /\ now.valid = node.valid
                     /\ now.listeners = node.listeners
<1>1. Listed.gateways = Cleaned(tree.gateways)
  BY ListedTree
<1>2. g \in DOMAIN Listed.gateways <=> g \in DOMAIN tree.gateways /\ tree.gateways[g].status # Deleted
  BY <1>1 DEF Cleaned
<1>3. ASSUME g \in DOMAIN Listed.gateways
      PROVE  /\ Listed.gateways[g] = [tree.gateways[g] EXCEPT !.status = Untouched]
             /\ DOMAIN tree.gateways[g] = NodeFields
  BY <1>1, <1>2, <1>3 DEF Cleaned, TreeShape, NodesHaveFields
<1>. QED BY <1>2, <1>3 DEF NodeFields

LEMMA CheckedNode ==
    ASSUME NEW t, NEW g, NEW spec
    PROVE  LET node == processManagementChecks(t, g, spec)
           IN  /\ DOMAIN node = NodeFields
               /\ node.status = Upserted
               /\ node.spec = spec
               /\ node.listeners = <<>>
               /\ spec.class \notin DOMAIN t.classes =>
                     node.in = t.gateways[g].in /\ node.managed = FALSE /\ node.valid = FALSE
               /\ spec.class \in DOMAIN t.classes =>
                     /\ node.in = IF t.classes[spec.class].valid THEN "managed" ELSE "unmanaged"
                     /\ node.managed = t.classes[spec.class].valid
                     /\ node.valid = (t.classes[spec.class].valid /\ CheckParamsRef(spec.params))
<1>1. CASE spec.class \notin DOMAIN t.classes
  BY <1>1 DEF processManagementChecks, Reset, NodeFields
<1>2. CASE spec.class \in DOMAIN t.classes
  BY <1>2 DEF processManagementChecks, NodeFields, checkGatewayClassIsValid, checkParametersRef
<1>. QED BY <1>1, <1>2

LEMMA CheckedValid ==
    ASSUME NEW t, NEW g, NEW spec
    PROVE  LET node == processManagementChecks(t, g, spec)
           IN  node.status = Upserted /\ node.spec = spec /\ (node.valid => node.managed /\ node.in = "managed")
<1> DEFINE node == processManagementChecks(t, g, spec)
<1>1. CASE spec.class \notin DOMAIN t.classes
  BY <1>1 DEF processManagementChecks, Reset
<1>2. CASE spec.class \in DOMAIN t.classes
  BY <1>2 DEF processManagementChecks, checkGatewayClassIsValid
<1>. QED BY <1>1, <1>2

LEMMA UpdatedGateway ==
    ASSUME TreeShape, NEW g
    PROVE  LET now == BeforeConflicts.gateways[g]
           IN  /\ g \in DOMAIN BeforeConflicts.gateways <=>
                    \/ g \in DOMAIN Listed.gateways
                    \/ g \in InStore(Gateways) /\ store[g].class \in DOMAIN Listed.classes
               /\ g \in DOMAIN BeforeConflicts.gateways /\ g \in InStore(Gateways) =>
                    now = processManagementChecks(Listed, g, store[g])
               /\ g \in DOMAIN Listed.gateways /\ g \in Gone(Gateways) =>
                    /\ DOMAIN now = NodeFields
                    /\ now.status = Deleted
                    /\ now.in = Listed.gateways[g].in
                    /\ now.spec = Listed.gateways[g].spec
                    /\ now.managed = FALSE
                    /\ now.valid = FALSE
                    /\ now.listeners = <<>>
               /\ g \in DOMAIN Listed.gateways /\ g \notin updates =>
                    now = Listed.gateways[g]
               /\ g \in DOMAIN Listed.gateways /\ g \notin Gateways =>
                    now = Listed.gateways[g]
<1> DEFINE kept == [x \in DOMAIN Listed.gateways |->
                      IF x \in Gone(Gateways)
                      THEN [Reset(Listed.gateways[x].spec, Listed.gateways[x].in) EXCEPT !.status = Deleted]
                      ELSE Listed.gateways[x]]
           changed == {x \in InStore(Gateways) : x \in DOMAIN Listed.gateways
                                                 \/ store[x].class \in DOMAIN Listed.classes}
           new == [x \in changed |-> processManagementChecks(Listed, x, store[x])]
<1>1. BeforeConflicts.gateways = Override(kept, new)
  BY UpdatedTree
<1>2. DOMAIN kept = DOMAIN Listed.gateways /\ DOMAIN new = changed
  OBVIOUS
<1>3. g \in changed => BeforeConflicts.gateways[g] = processManagementChecks(Listed, g, store[g])
  BY <1>1, <1>2 DEF Override
<1>4. g \in DOMAIN Listed.gateways /\ g \in Gone(Gateways) =>
         BeforeConflicts.gateways[g] = [Reset(Listed.gateways[g].spec, Listed.gateways[g].in) EXCEPT !.status = Deleted]
  BY <1>1, <1>2 DEF Override, Gone, InStore
<1>5. g \in DOMAIN Listed.gateways /\ (g \notin updates \/ g \notin Gateways) =>
         BeforeConflicts.gateways[g] = Listed.gateways[g]
  BY <1>1, <1>2 DEF Override, Gone, InStore
<1>6. DOMAIN BeforeConflicts.gateways = DOMAIN Listed.gateways \cup changed
  BY <1>1, <1>2 DEF Override
<1>. QED BY <1>3, <1>4, <1>5, <1>6 DEF Reset, NodeFields

LEMMA RecheckedGateway ==
    ASSUME TreeShape, NEW g
    PROVE  /\ DOMAIN CheckedTree.gateways = DOMAIN BeforeConflicts.gateways
           /\ g \in Rechecked(BeforeConflicts) =>
                CheckedTree.gateways[g] = processManagementChecks(BeforeConflicts, g, BeforeConflicts.gateways[g].spec)
           /\ g \in DOMAIN BeforeConflicts.gateways \ Rechecked(BeforeConflicts) =>
                CheckedTree.gateways[g] = BeforeConflicts.gateways[g]
<1>1. Rechecked(BeforeConflicts) \subseteq DOMAIN BeforeConflicts.gateways
  BY DEF Rechecked, ManagedGateways
<1>. QED BY <1>1, RecheckedTree DEF Override

LEMMA BuiltGateway ==
    ASSUME TreeShape, NEW g
    PROVE  /\ DOMAIN WithGateways.gateways = DOMAIN CheckedTree.gateways
           /\ g \in ProcessedGateways =>
                WithGateways.gateways[g] = buildListeners(BeforeConflicts, CheckedTree.gateways[g],
                                                          portsWithMultipleListeners(BeforeConflicts))
           /\ g \in DOMAIN CheckedTree.gateways \ ProcessedGateways =>
                WithGateways.gateways[g] = CheckedTree.gateways[g]
<1>1. ProcessedGateways \subseteq DOMAIN CheckedTree.gateways
  BY DEF ProcessedGateways, ManagedGateways
<1>. QED BY <1>1, GatewaysTree DEF Override

LEMMA BuiltFields ==
    ASSUME TreeShape
    PROVE  NodesHaveFields(WithGateways)
<1> SUFFICES ASSUME NEW g \in DOMAIN WithGateways.gateways PROVE DOMAIN WithGateways.gateways[g] = NodeFields
    BY DEF NodesHaveFields
<1>1. g \in DOMAIN BeforeConflicts.gateways
  BY BuiltGateway, RecheckedGateway
<1>2. DOMAIN BeforeConflicts.gateways[g] = NodeFields
  <2>1. CASE g \in InStore(Gateways)
    <3>1. BeforeConflicts.gateways[g] = processManagementChecks(Listed, g, store[g])
      BY <1>1, <2>1, UpdatedGateway
    <3>2. DOMAIN processManagementChecks(Listed, g, store[g]) = NodeFields
      BY CheckedNode
    <3>. QED BY <3>1, <3>2
  <2>2. CASE g \notin InStore(Gateways)
    BY <1>1, <2>2, UpdatedGateway, CleanedGateway DEF InStore, Gone
  <2>. QED BY <2>1, <2>2
<1>3. DOMAIN CheckedTree.gateways[g] = NodeFields
  <2>1. DOMAIN processManagementChecks(BeforeConflicts, g, BeforeConflicts.gateways[g].spec) = NodeFields
    BY CheckedNode
  <2>. QED BY <1>1, <1>2, <2>1, RecheckedGateway
<1>. QED BY <1>1, <1>3, RecheckedGateway, BuiltGateway DEF buildListeners, NodeFields

(* The route builders keep the gateways of the tree.                       *)
LEMMA KeptRules ==
    ASSUME NEW t, DOMAIN t = Kinds, NEW K
    PROVE  GatewaysKept(t, WithRules(t, K))
<1>1. PICK routes : WithRules(t, K) = Rebuilt(t, t.gateways, routes)
  BY DEF WithRules
<1>2. DOMAIN Rebuilt(t, t.gateways, routes) = Kinds /\ Rebuilt(t, t.gateways, routes).gateways = t.gateways
      /\ Rebuilt(t, t.gateways, routes).secrets = t.secrets
      /\ Rebuilt(t, t.gateways, routes).classes = t.classes
  BY DEF Rebuilt, Kinds
<1>. QED BY <1>1, <1>2 DEF GatewaysKept, SameGateway, SameListeners

LEMMA RoutesInSequence ==
    ASSUME NEW S, IsFiniteSet(S), NEW routes \in SetToSeqs(S), S \subseteq Routes
    PROVE  routes \in Seq(Routes)
<1>1. Cardinality(S) \in Nat
  BY FS_CardinalityType
<1>2. routes \in [1..Cardinality(S) -> S]
  BY DEF SetToSeqs
<1>. QED BY <1>1, <1>2

LEMMA BatchTree ==
    ASSUME TreeShape, InputsSound, Batch
    PROVE  GatewaysKept(WithGateways, tree')
<1>1. PICK http \in SetToSeqs(HTTPRoutes \cap updates), tls \in SetToSeqs(TLSRoutes \cap updates) :
        tree' = buildGateTree(http, tls)
  BY DEF Batch
<1>2. http \in Seq(Routes) /\ tls \in Seq(Routes)
  <2>1. IsFiniteSet(HTTPRoutes \cap updates) /\ IsFiniteSet(TLSRoutes \cap updates)
    BY FS_Intersection DEF InputsSound
  <2>. QED BY <2>1, RoutesInSequence DEF Routes
<1> DEFINE t0 == computeTreeServiceUpdate(WithGateways)
           t1 == computeTreeRouteUpdates(t0, http)
           t2 == WithRules(t1, HTTPRoutes)
           t3 == computeTreeRouteUpdates(t2, tls)
<1>3. tree' = WithRules(t3, TLSRoutes)
  BY <1>1 DEF buildGateTree, computeHTTPRoutes, computeTLSRoutes, WithGateways, Listed
<1>4. GatewaysKept(WithGateways, t0)
  <2>1. DOMAIN WithGateways = Kinds
    BY GatewaysTree
  <2>2. DOMAIN t0 = Kinds /\ t0.gateways = WithGateways.gateways
        /\ t0.secrets = WithGateways.secrets /\ t0.classes = WithGateways.classes
    BY <2>1 DEF computeTreeServiceUpdate, Kinds
  <2> HIDE DEF t0
  <2>. QED BY <2>2 DEF GatewaysKept, SameGateway, SameListeners
<1> HIDE DEF t0
<1>5. DOMAIN t0 = Kinds /\ NodesHaveFields(t0)
  BY <1>4, BuiltFields, KeptFields DEF GatewaysKept
<1>6. GatewaysKept(t0, t1)
  BY <1>2, <1>5, KeptUpdates
<1> HIDE DEF t1
<1>7. DOMAIN t1 = Kinds /\ NodesHaveFields(t1)
  BY <1>5, <1>6, KeptFields DEF GatewaysKept
<1>8. GatewaysKept(t1, t2)
  BY <1>7, KeptRules
<1> HIDE DEF t2
<1>9. DOMAIN t2 = Kinds /\ NodesHaveFields(t2)
  BY <1>7, <1>8, KeptFields DEF GatewaysKept
<1>10. GatewaysKept(t2, t3)
  BY <1>2, <1>9, KeptUpdates
<1> HIDE DEF t3
<1>11. DOMAIN t3 = Kinds
  BY <1>10 DEF GatewaysKept
<1>12. GatewaysKept(t3, tree')
  BY <1>3, <1>11, KeptRules
<1>. QED BY <1>4, <1>6, <1>8, <1>10, <1>12, KeptTransitive

-----------------------------------------------------------------------------
LEMMA InputsStep == InputsSound /\ [FrontendsNext]_servingVars => InputsSound'
<1> SUFFICES ASSUME InputsSound, [FrontendsNext]_servingVars PROVE InputsSound'
    OBVIOUS
<1> USE DEF InputsSound
<1>1. ASSUME NEW k \in Keys, Change(k) PROVE InputsSound'
  <2>1. DOMAIN cluster' \subseteq Keys /\ \A x \in DOMAIN cluster' : cluster'[x] \in Versions[x]
    <3>1. CASE \E spec \in Versions[k] : cluster' = Override(cluster, [x \in {k} |-> spec])
      BY <3>1 DEF Override
    <3>2. CASE cluster' = Without(cluster, {k})
      BY <3>2 DEF Without
    <3>. QED BY <1>1, <3>1, <3>2 DEF Change
  <2>2. store' = store /\ updates' = updates
    BY <1>1 DEF Change
  <2>. QED BY <2>1, <2>2
<1>2. ASSUME NEW k \in Keys, Reconcile(k) PROVE InputsSound'
  <2>1. DOMAIN store' \subseteq Keys /\ \A x \in DOMAIN store' : store'[x] \in Versions[x]
    <3>1. CASE k \in DOMAIN cluster
      <4>1. store' = Override(store, [x \in {k} |-> cluster[k]])
        BY <1>2, <3>1 DEF Reconcile
      <4>. QED BY <3>1, <4>1 DEF Override
    <3>2. CASE k \notin DOMAIN cluster
      <4>1. store' = Without(store, {k})
        BY <1>2, <3>2 DEF Reconcile
      <4>. QED BY <4>1 DEF Without
    <3>. QED BY <3>1, <3>2
  <2>2. cluster' = cluster /\ updates' = updates \cup {k}
    BY <1>2 DEF Reconcile
  <2>3. IsFiniteSet(updates')
    BY <2>2, FS_AddElement
  <2>. QED BY <2>1, <2>2, <2>3
<1>3. CASE Batch
  <2>1. cluster' = cluster /\ store' = store /\ updates' = {}
    BY <1>3 DEF Batch
  <2>2. IsFiniteSet(updates')
    BY <2>1, FS_EmptySet
  <2>. QED BY <2>1, <2>2
<1>4. CASE UNCHANGED servingVars
  BY <1>4 DEF servingVars, gateVars, inputVars
<1>. QED BY <1>1, <1>2, <1>3, <1>4 DEF FrontendsNext, Input, HandleEventBatch

(* The secrets of the tree a batch builds                                  *)
LEMMA BatchSecrets ==
    ASSUME TreeShape, InputsSound, Batch, NEW s
    PROVE  /\ s \in LiveSecrets(tree') <=> IF s \in Secrets \cap updates THEN s \in DOMAIN store
                                           ELSE s \in LiveSecrets(tree)
           /\ s \in LiveSecrets(tree) => s \in DOMAIN tree'.secrets
           /\ s \in DOMAIN tree'.secrets /\ tree'.secrets[s].status = Untouched => s \in LiveSecrets(tree)
           /\ s \in DOMAIN tree'.secrets => s \in Secrets /\ DOMAIN tree'.secrets[s] = {"status"}
           /\ s \in DOMAIN tree'.secrets /\ s \in LiveSecrets(tree) /\ tree'.secrets[s].status = Untouched
                 => s \in LiveSecrets(tree')
<1> DEFINE kept == Cleaned(tree.secrets)
           new  == UpdatedNodes(kept, Secrets)
<1>1. tree'.secrets = new
  BY BatchTree, GatewaysTree, ListedTree DEF GatewaysKept
<1>2. s \in DOMAIN kept <=> s \in LiveSecrets(tree)
  BY DEF Cleaned, LiveSecrets
<1>3. s \in DOMAIN kept => s \in Secrets /\ DOMAIN kept[s] = {"status"} /\ kept[s].status = Untouched
  BY DEF Cleaned, TreeShape
<1> HIDE DEF kept
<1>4. s \in DOMAIN new <=> s \in DOMAIN kept \/ s \in InStore(Secrets)
  BY DEF UpdatedNodes, Override
<1>5. s \in InStore(Secrets) => new[s] = [status |-> Upserted]
  BY DEF UpdatedNodes, Override
<1>6. s \in DOMAIN kept /\ s \notin InStore(Secrets) =>
         new[s] = IF s \in Gone(Secrets) THEN [status |-> Deleted] ELSE kept[s]
  BY DEF UpdatedNodes, Override
<1> HIDE DEF new
<1>7. s \in LiveSecrets(tree') <=> s \in DOMAIN new /\ new[s].status # Deleted
  BY <1>1 DEF LiveSecrets
<1> USE DEF Upserted, Deleted, Untouched
<1>8. CASE s \in InStore(Secrets)
  <2>1. new[s].status = Upserted /\ DOMAIN new[s] = {"status"}
    BY <1>5, <1>8
  <2>. QED BY <1>1, <1>2, <1>3, <1>4, <1>7, <1>8, <2>1 DEF InStore
<1>9. CASE s \in Gone(Secrets)
  <2>1. s \in DOMAIN kept => new[s].status = Deleted /\ DOMAIN new[s] = {"status"}
    BY <1>6, <1>9 DEF Gone, InStore
  <2>. QED BY <1>1, <1>2, <1>3, <1>4, <1>7, <1>9, <2>1 DEF Gone, InStore
<1>10. CASE s \notin Secrets \cap updates
  <2>1. s \in DOMAIN kept => new[s] = kept[s]
    BY <1>6, <1>10 DEF Gone, InStore
  <2>2. s \notin InStore(Secrets)
    BY <1>10 DEF InStore
  <2>. QED BY <1>1, <1>2, <1>3, <1>4, <1>7, <1>10, <2>1, <2>2
<1>. QED BY <1>8, <1>9, <1>10 DEF Gone, InStore

LEMMA ShapeStep == TreeShape /\ InputsSound /\ [FrontendsNext]_servingVars => TreeShape'
<1> SUFFICES ASSUME TreeShape, InputsSound, [FrontendsNext]_servingVars PROVE TreeShape'
    OBVIOUS
<1>1. CASE tree' = tree
  BY <1>1 DEF TreeShape, NodesHaveFields
<1>2. CASE Batch
  <2>1. GatewaysKept(WithGateways, tree')
    BY <1>2, BatchTree
  <2>2. DOMAIN tree' = Kinds /\ NodesHaveFields(tree')
    BY <2>1, BuiltFields, KeptFields DEF GatewaysKept
  <2>3. \A s \in DOMAIN tree'.secrets : s \in Secrets /\ DOMAIN tree'.secrets[s] = {"status"}
    BY <1>2, BatchSecrets
  <2>4. \A c \in DOMAIN tree'.classes : c \in Classes /\ DOMAIN tree'.classes[c] = {"status", "valid"}
    <3> SUFFICES ASSUME NEW c \in DOMAIN tree'.classes
                 PROVE  c \in Classes /\ DOMAIN tree'.classes[c] = {"status", "valid"}
        OBVIOUS
    <3> DEFINE kept == Cleaned(tree.classes)
    <3>1. tree'.classes = Override([x \in DOMAIN kept |-> IF x \in Gone(Classes) THEN DeletedClass ELSE kept[x]],
                                   [x \in InStore(Classes) |-> UpsertedClass(store[x])])
      BY <2>1, GatewaysTree, ListedTree DEF GatewaysKept
    <3>2. c \in DOMAIN kept => c \in Classes /\ DOMAIN kept[c] = {"status", "valid"}
      BY DEF Cleaned, TreeShape
    <3>. QED BY <3>1, <3>2 DEF Override, DeletedClass, UpsertedClass, InStore
  <2>. QED BY <2>2, <2>3, <2>4 DEF TreeShape, NodesHaveFields
<1>. QED BY <1>1, <1>2 DEF FrontendsNext, Input, Change, Reconcile, HandleEventBatch, servingVars, gateVars, treeVars

(* A secret the batch does not name is in the tree if it is in the store.  *)
SecretsFollow == \A s \in Secrets \ updates : s \in LiveSecrets(tree) <=> s \in DOMAIN store

LEMMA SecretsStep ==
    TreeShape /\ InputsSound /\ SecretsFollow /\ [FrontendsNext]_servingVars => SecretsFollow'
<1> SUFFICES ASSUME TreeShape, InputsSound, SecretsFollow, [FrontendsNext]_servingVars PROVE SecretsFollow'
    OBVIOUS
<1>1. ASSUME NEW k \in Keys, Change(k) PROVE SecretsFollow'
  BY <1>1 DEF Change, SecretsFollow, LiveSecrets
<1>2. ASSUME NEW k \in Keys, Reconcile(k) PROVE SecretsFollow'
  <2>1. tree' = tree /\ updates' = updates \cup {k}
    BY <1>2 DEF Reconcile, treeVars
  <2>2. \A s : s # k => (s \in DOMAIN store' <=> s \in DOMAIN store)
    BY <1>2 DEF Reconcile, Override, Without
  <2>. QED BY <2>1, <2>2 DEF SecretsFollow, LiveSecrets
<1>3. CASE Batch
  <2>1. store' = store
    BY <1>3 DEF Batch
  <2>2. \A s \in Secrets : s \in LiveSecrets(tree') <=> s \in DOMAIN store
    BY <1>3, BatchSecrets DEF SecretsFollow
  <2>. QED BY <2>1, <2>2 DEF SecretsFollow, LiveSecrets
<1>4. CASE UNCHANGED servingVars
  BY <1>4 DEF servingVars, gateVars, inputVars, treeVars, SecretsFollow, LiveSecrets
<1>. QED BY <1>1, <1>2, <1>3, <1>4 DEF FrontendsNext, Input, HandleEventBatch

-----------------------------------------------------------------------------
(* A secret whose certificate can be written                               *)
Tls(s) == PairsOf(s) # {} /\ KeyPair(s) = "tls"

LEMMA PathsDiffer == \A s, x : CertPath(s) = CertPath(x) => s = x
BY DEF CertPath

LEMMA SamePairs == ASSUME NEW s, store'[s] = store[s] PROVE Tls(s)' <=> Tls(s)
<1>1. PairsOf(s)' = PairsOf(s)
  BY DEF PairsOf
<1>. QED BY <1>1 DEF Tls, KeyPair

(* The references are those of the gateways the batch does not touch, and  *)
(* the files those of the secrets it does not touch.  Every file is of a   *)
(* secret of the tree.                                                     *)
CertsFollow ==
    /\ ReferencedSecrets(referenced) \subseteq Secrets
    /\ Gateways \cap updates = {} => referenced = buildSecretReferences
    /\ \A path \in DOMAIN certs :
          \E s \in ReferencedSecrets(referenced) \cap LiveSecrets(tree) : path = CertPath(s)
    /\ \A s \in (ReferencedSecrets(referenced) \cap DOMAIN store) \ updates :
          Tls(s) => CertPath(s) \in DOMAIN certs /\ certs[CertPath(s)] = store[s]["tls"]

(* The secrets references name are secrets.                                *)
LEMMA ReferencesType == ReferencedSecrets(buildSecretReferences) \subseteq Secrets
BY DEF ReferencedSecrets, buildSecretReferences

(* No gateway, no change of the references                                 *)
LEMMA ReferencesKept ==
    ASSUME NEW k \in Keys \ Gateways, Reconcile(k)
    PROVE  buildSecretReferences' = buildSecretReferences
<1>1. \A g \in Gateways : g \in DOMAIN store' <=> g \in DOMAIN store
  BY DEF Reconcile, Override, Without
<1>2. \A g \in Gateways \cap DOMAIN store : store'[g] = store[g]
  BY DEF Reconcile, Override, Without
<1>3. Gateways \cap DOMAIN store' = Gateways \cap DOMAIN store
  BY <1>1
<1> DEFINE of(st) == UNION {ListenerKeys(g, DOMAIN st[g].listeners) : g \in Gateways \cap DOMAIN st}
<1>4. of(store') = of(store)
  BY <1>2, <1>3
<1>5. \A key \in of(store) : key[1] \in Gateways \cap DOMAIN store
  BY DEF ListenerKeys
<1>6. \A key \in of(store) : store'[key[1]] = store[key[1]]
  BY <1>2, <1>5
<1> HIDE DEF of
<1>7. \A ref \in Secrets \X of(store) : ref[2] \in of(store)
  OBVIOUS
<1>8. {ref \in Secrets \X of(store) : ref[1] \in store'[ref[2][1]].listeners[ref[2][2]].certs}
        = {ref \in Secrets \X of(store) : ref[1] \in store[ref[2][1]].listeners[ref[2][2]].certs}
  BY <1>6, <1>7
<1>9. buildSecretReferences' = {ref \in Secrets \X of(store') : ref[1] \in store'[ref[2][1]].listeners[ref[2][2]].certs}
  BY DEF buildSecretReferences, of
<1>10. buildSecretReferences = {ref \in Secrets \X of(store) : ref[1] \in store[ref[2][1]].listeners[ref[2][2]].certs}
  BY DEF buildSecretReferences, of
<1>. QED BY <1>4, <1>8, <1>9, <1>10

LEMMA CertsStep ==
    /\ TreeShape /\ InputsSound /\ SecretsFollow /\ CertsFollow
    /\ [FrontendsNext]_servingVars
    => CertsFollow'
<1> SUFFICES ASSUME TreeShape, InputsSound, SecretsFollow, CertsFollow, [FrontendsNext]_servingVars
             PROVE  CertsFollow'
    OBVIOUS
<1>1. CASE UNCHANGED <<store, updates, tree, certVars>>
  <2>1. \A s : Tls(s)' <=> Tls(s)
    BY <1>1, SamePairs
  <2>. QED BY <1>1, <2>1 DEF CertsFollow, certVars, buildSecretReferences, ReferencedSecrets, LiveSecrets, CertPath
<1>2. ASSUME NEW k \in Keys, Change(k), UNCHANGED certVars PROVE CertsFollow'
  BY <1>1, <1>2 DEF Change, treeVars
<1>3. ASSUME NEW k \in Keys, Reconcile(k), UNCHANGED certVars PROVE CertsFollow'
  <2>1. referenced' = referenced /\ certs' = certs /\ tree' = tree /\ updates' = updates \cup {k}
    BY <1>3 DEF Reconcile, certVars, treeVars
  <2>2. \A s : s # k => (s \in DOMAIN store' <=> s \in DOMAIN store)
    BY <1>3 DEF Reconcile, Override, Without
  <2>3. \A s \in DOMAIN store : s # k => store'[s] = store[s]
    BY <1>3 DEF Reconcile, Override, Without
  <2>4. Gateways \cap updates' = {} => referenced' = buildSecretReferences'
    BY <1>3, <2>1, ReferencesKept DEF CertsFollow
  <2>5. \A s \in DOMAIN store : s # k => (Tls(s)' <=> Tls(s))
    BY <2>3, SamePairs
  <2>. QED BY <2>1, <2>2, <2>3, <2>4, <2>5 DEF CertsFollow, ReferencedSecrets, LiveSecrets, CertPath
<1>4. CASE HandleEventBatch
  <2> DEFINE now == buildSecretReferences
             was == ReferencedSecrets(referenced)
             is  == ReferencedSecrets(now)
             gone == CertsDeleted(now)
             written == CertsWritten(tree', now)
  <2>1. store' = store /\ updates' = {} /\ Batch
    BY <1>4 DEF HandleEventBatch, Batch
  <2>2. UpdateReferences = now
    BY DEF UpdateReferences, CertsFollow
  <2>3. /\ referenced' = now
        /\ certs' = Override(Without(certs, CertPaths(gone)), CertificateData(Writable(written)))
    BY <1>4, <2>2 DEF HandleEventBatch, ensureCertificatesStorage
  <2>4. \A s \in Secrets : s \in LiveSecrets(tree') <=> s \in DOMAIN store
    BY <2>1, BatchSecrets DEF SecretsFollow
  <2>5. is \subseteq Secrets /\ was \subseteq Secrets
    BY ReferencesType DEF CertsFollow
  <2>6. \A s : s \in written <=> /\ s \in is \cap DOMAIN store
                                 /\ s \in was => s \in updates
                                 /\ PairsOf(s) # {}
    <3>1. \A s : s \in handleNewReferencedSecrets(tree', now) <=>
                   s \in (is \ was) \cap DOMAIN store /\ PairsOf(s) # {}
      BY <2>4, <2>5 DEF handleNewReferencedSecrets, WithPair
    <3>2. \A s : s \in handleUpdatedSecrets(now) <=>
                   s \in (is \cap was) \cap updates \cap DOMAIN store /\ PairsOf(s) # {}
      BY DEF handleUpdatedSecrets, SameSecrets, WithPair
    <3>3. written = handleNewReferencedSecrets(tree', now) \cup handleUpdatedSecrets(now)
      BY DEF CertsWritten, CertsCreated, CertsUpdated
    <3>. QED BY <3>1, <3>2, <3>3
  <2>7. \A s : s \in gone <=> s \in was /\ (s \notin is \/ (s \in updates /\ s \notin DOMAIN store))
    BY DEF CertsDeleted, handleDeReferencedSecrets, SameSecrets
  <2> HIDE DEF gone, written, now
  <2>8. \A s : s \in Writable(written) <=> s \in written /\ Tls(s)
    BY <2>6 DEF Writable, DataPath, CertPath, Tls
  <2>9. /\ DOMAIN CertificateData(Writable(written)) = CertPaths(Writable(written))
        /\ \A s \in Writable(written) : CertificateData(Writable(written))[CertPath(s)] = store[s]["tls"]
    <3>1. DataPaths(Writable(written)) = CertPaths(Writable(written))
      BY DEF DataPaths, CertPaths, Writable
    <3>. QED BY <3>1 DEF CertificateData, CertPaths, CertPath
  <2> DEFINE data == CertificateData(Writable(written))
  <2> HIDE DEF data
  <2>10. \A path \in DOMAIN certs' : \/ path \in DOMAIN certs /\ path \notin CertPaths(gone)
                                    \/ \E s \in written : path = CertPath(s)
    BY <2>3, <2>8, <2>9 DEF Override, Without, CertPaths, data
  <2>11. ReferencedSecrets(referenced)' = is
    BY <2>3 DEF ReferencedSecrets
  <2>12. ASSUME NEW path \in DOMAIN certs' PROVE \E s \in is \cap LiveSecrets(tree') : path = CertPath(s)
    <3>1. CASE \E s \in written : path = CertPath(s)
      BY <2>4, <2>5, <2>6, <3>1
    <3>2. CASE path \in DOMAIN certs /\ path \notin CertPaths(gone)
      <4>1. PICK s \in was \cap LiveSecrets(tree) : path = CertPath(s)
        BY <3>2 DEF CertsFollow
      <4>2. s \notin gone
        BY <3>2, <4>1 DEF CertPaths
      <4>3. s \in is /\ (s \in updates => s \in DOMAIN store)
        BY <2>7, <4>1, <4>2
      <4>4. s \in LiveSecrets(tree')
        BY <2>4, <2>5, <4>1, <4>3 DEF SecretsFollow
      <4>. QED BY <4>1, <4>3, <4>4
    <3>. QED BY <2>10, <3>1, <3>2
  <2>13. ASSUME NEW s \in is \cap DOMAIN store, Tls(s)
         PROVE  CertPath(s) \in DOMAIN certs' /\ certs'[CertPath(s)] = store[s]["tls"]
    <3>1. CASE s \in written
      <4>1. s \in Writable(written) /\ CertPath(s) \in CertPaths(Writable(written))
        BY <2>8, <2>13, <3>1 DEF CertPaths
      <4>2. CertPath(s) \in DOMAIN data /\ data[CertPath(s)] = store[s]["tls"]
        BY <2>9, <4>1 DEF data
      <4>. QED BY <2>3, <4>2 DEF Override, data
    <3>2. CASE s \notin written
      <4>1. s \in was /\ s \notin updates
        BY <2>6, <2>13, <3>2 DEF Tls
      <4>2. CertPath(s) \in DOMAIN certs /\ certs[CertPath(s)] = store[s]["tls"] /\ s \notin gone
        BY <2>7, <2>13, <4>1 DEF CertsFollow
      <4>3. CertPath(s) \notin CertPaths(gone) /\ CertPath(s) \notin CertPaths(Writable(written))
        BY <2>8, <3>2, <4>2, PathsDiffer DEF CertPaths
      <4>4. CertPath(s) \notin DOMAIN data
        BY <2>9, <4>3 DEF data
      <4>. QED BY <2>3, <4>2, <4>3, <4>4 DEF Override, Without, data
    <3>. QED BY <3>1, <3>2
  <2>14. \A s : Tls(s)' <=> Tls(s)
    BY <2>1, SamePairs
  <2>15. referenced' = buildSecretReferences'
    BY <2>1, <2>3 DEF buildSecretReferences, now
  <2>. QED BY <2>1, <2>5, <2>11, <2>12, <2>13, <2>14, <2>15 DEF CertsFollow, LiveSecrets, CertPath
<1>. QED BY <1>1, <1>2, <1>3, <1>4 DEF FrontendsNext, Input, servingVars, gateVars, inputVars, treeVars

(* The crt-list of a listener names the secrets it refers to in the tree.  *)
ListOf(key) == IF key \in DOMAIN crtLists THEN crtLists[key] ELSE {}

CrtListsFollow ==
    /\ DOMAIN crtLists \subseteq ReferencedListeners(referenced)
    /\ \A key \in ReferencedListeners(referenced) :
          ListOf(key) = SecretsOf(referenced, key) \cap LiveSecrets(tree)

LEMMA CrtListsStep ==
    /\ TreeShape /\ InputsSound /\ CrtListsFollow
    /\ [FrontendsNext]_servingVars
    => CrtListsFollow'
<1> SUFFICES ASSUME TreeShape, InputsSound, CrtListsFollow, [FrontendsNext]_servingVars
             PROVE  CrtListsFollow'
    OBVIOUS
<1>1. CASE UNCHANGED <<tree, certVars>>
  BY <1>1 DEF CrtListsFollow, certVars, ReferencedListeners, SecretsOf, LiveSecrets, ListOf
<1>2. CASE HandleEventBatch
  <2> DEFINE now == UpdateReferences
             updated == handleUpdatedCrtList(tree', now)
             deleted == CrtListsDeleted(tree', now)
             written == CrtListsCreated(now) \cup updated
             was(key) == SecretsOf(referenced, key)
             is(key)  == SecretsOf(now, key)
             content(key) == is(key) \cap LiveSecrets(tree')
  <2>1. /\ referenced' = now
        /\ crtLists' = Without(Override(crtLists, [key \in written |-> content(key)]), deleted)
    BY <1>2 DEF HandleEventBatch, ensureCertificatesStorage, CrtListContent, keepOnlyExistingSecrets
  <2>2. \A key : key \in deleted <=>
           \/ key \in ReferencedListeners(referenced) /\ key \notin ReferencedListeners(now)
           \/ key \in updated /\ content(key) = {}
    BY DEF CrtListsDeleted, CrtListsEmptied, CrtListContent, keepOnlyExistingSecrets
  <2>3. \A key : key \in CrtListsCreated(now) <=>
           key \in ReferencedListeners(now) /\ key \notin ReferencedListeners(referenced)
    BY DEF CrtListsCreated
  <2>4. updated \subseteq ReferencedListeners(now) \cap ReferencedListeners(referenced)
    BY DEF handleUpdatedCrtList
  <2>5. ASSUME NEW key \in (ReferencedListeners(now) \cap ReferencedListeners(referenced)) \ updated
        PROVE  content(key) = was(key) \cap LiveSecrets(tree)
    <3>1. /\ keepOnlyExistingSecrets(tree', is(key) \ was(key)) = {}
          /\ \A s \in (is(key) \cap was(key)) \cap DOMAIN tree'.secrets : tree'.secrets[s].status = Untouched
          /\ was(key) \ is(key) = {}
      BY <2>5 DEF handleUpdatedCrtList
    <3>2. \A s \in is(key) \cap LiveSecrets(tree') : s \in was(key)
      BY <3>1 DEF keepOnlyExistingSecrets
    <3>3. \A s \in is(key) \cap was(key) : s \in LiveSecrets(tree') <=> s \in LiveSecrets(tree)
      <4> SUFFICES ASSUME NEW s \in is(key) \cap was(key)
                   PROVE  s \in LiveSecrets(tree') <=> s \in LiveSecrets(tree)
          OBVIOUS
      <4>1. s \in LiveSecrets(tree') => s \in DOMAIN tree'.secrets
        BY DEF LiveSecrets
      <4>2. s \in DOMAIN tree'.secrets => tree'.secrets[s].status = Untouched
        BY <3>1
      <4>3. Batch
        BY <1>2 DEF HandleEventBatch
      <4>. QED BY <4>1, <4>2, <4>3, BatchSecrets
    <3>4. was(key) \subseteq is(key)
      BY <3>1
    <3>. QED BY <3>2, <3>3, <3>4
  <2> HIDE DEF now, updated, deleted, content
  <2>6. \A key : key \in DOMAIN crtLists' <=> (key \in DOMAIN crtLists \/ key \in written) /\ key \notin deleted
    BY <2>1 DEF Override, Without
  <2>7. \A key \in DOMAIN crtLists' : crtLists'[key] = IF key \in written THEN content(key) ELSE crtLists[key]
    BY <2>1 DEF Override, Without
  <2>8. DOMAIN crtLists' \subseteq ReferencedListeners(now)
    BY <2>2, <2>3, <2>4, <2>6 DEF CrtListsFollow
  <2>9. ASSUME NEW key \in ReferencedListeners(now)
        PROVE  (IF key \in DOMAIN crtLists' THEN crtLists'[key] ELSE {}) = content(key)
    <3>1. CASE key \in written
      BY <2>2, <2>3, <2>4, <2>6, <2>7, <2>9, <3>1
    <3>2. CASE key \notin written
      <4>1. key \in ReferencedListeners(referenced) /\ key \notin updated /\ key \notin deleted
        BY <2>2, <2>3, <2>9, <3>2
      <4>2. content(key) = ListOf(key)
        BY <2>5, <2>9, <4>1 DEF CrtListsFollow
      <4>. QED BY <2>6, <2>7, <3>2, <4>1, <4>2 DEF ListOf
    <3>. QED BY <3>1, <3>2
  <2>10. ReferencedListeners(referenced)' = ReferencedListeners(now)
    BY <2>1 DEF ReferencedListeners
  <2>11. \A key : SecretsOf(referenced', key) \cap LiveSecrets(tree') = content(key)
    BY <2>1 DEF content
  <2>. QED BY <2>8, <2>9, <2>10, <2>11 DEF CrtListsFollow, ListOf, SecretsOf, LiveSecrets
<1>. QED BY <1>1, <1>2 DEF FrontendsNext, Input, Change, Reconcile, servingVars, gateVars, treeVars

ServingInv == InputsSound /\ TreeShape /\ SecretsFollow /\ CertsFollow /\ CrtListsFollow

LEMMA ServingInvHolds == FrontendsSpec => []ServingInv
<1>1. FrontendsInit => ServingInv
  <2> SUFFICES ASSUME FrontendsInit PROVE ServingInv
      OBVIOUS
  <2> USE DEF FrontendsInit, GateInit
  <2>1. InputsSound
    BY SpecsAssumption, FS_EmptySet DEF InputsSound
  <2>2. DOMAIN tree = Kinds /\ \A kind \in Kinds : tree[kind] = <<>>
    BY DEF EmptyTree, Kinds
  <2>3. tree.gateways = <<>> /\ tree.secrets = <<>> /\ tree.classes = <<>>
    BY <2>2 DEF Kinds
  <2>4. TreeShape
    BY <2>2, <2>3 DEF TreeShape, NodesHaveFields
  <2>5. SecretsFollow
    BY <2>3 DEF SecretsFollow, LiveSecrets
  <2>6. CertsFollow
    <3>1. ReferencedSecrets(referenced) = {}
      BY DEF ReferencedSecrets
    <3>2. buildSecretReferences = {}
      BY DEF buildSecretReferences
    <3>. QED BY <3>1, <3>2 DEF CertsFollow
  <2>7. CrtListsFollow
    <3>1. ReferencedListeners(referenced) = {}
      BY DEF ReferencedListeners
    <3>. QED BY <3>1 DEF CrtListsFollow
  <2>. QED BY <2>1, <2>4, <2>5, <2>6, <2>7 DEF ServingInv
<1>2. ServingInv /\ [FrontendsNext]_servingVars => ServingInv'
  BY InputsStep, ShapeStep, SecretsStep, CertsStep, CrtListsStep DEF ServingInv
<1>. QED BY <1>1, <1>2, PTL DEF FrontendsSpec

(* The certificate files are those of the secrets that listeners refer to, *)
(* current if the certificate is a tls pair: the new, updated and          *)
(* dereferenced secrets that certificate_builder.go finds in a batch are   *)
(* all that the batch changed.                                             *)
THEOREM CertificateFilesAreExact == FrontendsSpec => []CertificateFilesExact
<1>1. ServingInv => CertificateFilesExact
  <2> SUFFICES ASSUME ServingInv, updates = {} PROVE CertificateFilesExact
      BY DEF CertificateFilesExact
  <2>1. referenced = buildSecretReferences
    BY DEF ServingInv, CertsFollow
  <2>2. ReferencedSecrets(referenced) \cap LiveSecrets(tree) = WantedSecrets
    BY <2>1 DEF ServingInv, CertsFollow, SecretsFollow, WantedSecrets
  <2>3. DOMAIN certs \subseteq CertPaths(WantedSecrets)
    BY <2>2 DEF ServingInv, CertsFollow, CertPaths
  <2>4. \A s \in Writable(WithPair(WantedSecrets)) : s \in WantedSecrets /\ Tls(s)
    BY DEF Writable, WithPair, DataPath, CertPath, Tls
  <2>5. \A s \in WantedSecrets : Tls(s) => CertPath(s) \in DOMAIN certs /\ certs[CertPath(s)] = store[s]["tls"]
    BY <2>1 DEF ServingInv, CertsFollow, WantedSecrets
  <2>. QED BY <2>3, <2>4, <2>5 DEF CertificateFilesExact
<1>. QED BY <1>1, ServingInvHolds, PTL

(* The crt-lists name the secrets that listeners refer to and that exist:  *)
(* handleUpdatedCrtList misses no list that a secret's coming or going     *)
(* concerns.                                                               *)
THEOREM CrtListsAreExact == FrontendsSpec => []CrtListsExact
<1>1. ServingInv => CrtListsExact
  <2> SUFFICES ASSUME ServingInv, updates = {},
                      NEW key \in DOMAIN crtLists \cup ReferencedListeners(buildSecretReferences)
               PROVE  (IF key \in DOMAIN crtLists THEN crtLists[key] ELSE {}) =
                         SecretsOf(buildSecretReferences, key) \cap DOMAIN store
      BY DEF CrtListsExact
  <2>1. referenced = buildSecretReferences
    BY DEF ServingInv, CertsFollow
  <2>2. key \in ReferencedListeners(referenced)
    BY <2>1 DEF ServingInv, CrtListsFollow
  <2>3. ListOf(key) = SecretsOf(referenced, key) \cap LiveSecrets(tree)
    BY <2>2 DEF ServingInv, CrtListsFollow
  <2>4. SecretsOf(referenced, key) \subseteq Secrets
    BY DEF ServingInv, CertsFollow, SecretsOf, ReferencedSecrets
  <2>5. SecretsOf(referenced, key) \cap LiveSecrets(tree) = SecretsOf(referenced, key) \cap DOMAIN store
    BY <2>4 DEF ServingInv, SecretsFollow
  <2>. QED BY <2>1, <2>3, <2>5 DEF ListOf
<1>. QED BY <1>1, ServingInvHolds, PTL

(* A process that follows the disk refuses the commands of a batch with a  *)
(* certificate that was not written: there is none of that path to update, *)
(* and none of the path a crt-list names to put on the list.               *)
LEMMA OthersAreRefused ==
    ASSUME ServingInv, Batch, NEW now, loaded = Disk(certs, crtLists), CrtListsCreated(now) = {},
           ReferencedSecrets(now) \subseteq Secrets,
           NEW p1 \in runtimeCreateCert(loaded, CertsCreated(tree', now)),
           NEW p2 \in runtimeUpdateCert(p1, CertsUpdated(now)),
           NEW p3 \in runtimeUpdateCrtList(p2, tree', now, handleUpdatedCrtList(tree', now)),
           NEW s \in CertsWritten(tree', now)
    PROVE  DataPath(s) = CertPath(s)
<1> DEFINE made  == CertsCreated(tree', now)
           fresh == CertsUpdated(now)
           keys  == handleUpdatedCrtList(tree', now)
<1>1. \A path \in DOMAIN certs :
        \E x \in ReferencedSecrets(referenced) \cap LiveSecrets(tree) : path = CertPath(x)
  BY DEF ServingInv, CertsFollow
<1>2. DOMAIN p1.certs = DOMAIN certs \cup DataPaths(made)
  BY DEF runtimeCreateCert, SetCerts, Disk, Override, CertificateData
<1>3. DOMAIN p2.certs = DOMAIN certs \cup DataPaths(made) \cup DataPaths(fresh) /\ DataPaths(fresh) \subseteq DOMAIN p1.certs
  <2>1. DataPaths(fresh) \subseteq DOMAIN p1.certs /\ p2 = SetCerts(p1, fresh)
    BY DEF runtimeUpdateCert
  <2>2. DOMAIN p1 = {"certs", "crtLists"}
    BY DEF runtimeCreateCert, SetCerts, Disk
  <2>3. DOMAIN p2.certs = DOMAIN p1.certs \cup DataPaths(fresh)
    BY <2>1, <2>2 DEF SetCerts, Override, CertificateData
  <2>. QED BY <1>2, <2>1, <2>3
<1>4. \A key \in keys : CertPaths(CrtListContent(tree', now, key)) \subseteq DOMAIN p2.certs
  BY DEF runtimeUpdateCrtList
<1>5. \A x : DataPath(x) = CertPath(s) \/ DataPath(x) = DataPath(s) => x = s
  BY DEF DataPath, CertPath
<1>6. CASE s \in fresh
  <2>1. s \notin made
    BY <1>6 DEF CertsCreated, CertsUpdated, handleNewReferencedSecrets, handleUpdatedSecrets, SameSecrets, WithPair
  <2>2. DataPath(s) \notin DataPaths(made)
    BY <1>5, <2>1 DEF DataPaths
  <2>3. DataPath(s) \in DOMAIN certs
    BY <1>2, <1>3, <1>6, <2>2 DEF DataPaths
  <2>4. PICK x : DataPath(s) = CertPath(x)
    BY <1>1, <2>3
  <2>. QED BY <2>4 DEF DataPath, CertPath
<1>7. CASE s \in made
  <2> SUFFICES ASSUME DataPath(s) # CertPath(s) PROVE FALSE
      OBVIOUS
  <2>1. /\ s \in ReferencedSecrets(now) /\ s \in Secrets
        /\ s \notin ReferencedSecrets(referenced) \cap LiveSecrets(tree)
        /\ s \in ReferencedSecrets(referenced) => s \in updates /\ s \in DOMAIN store
    BY <1>7 DEF CertsCreated, handleNewReferencedSecrets, handleUpdatedSecrets, SameSecrets, WithPair
  <2>2. s \in LiveSecrets(tree')
    <3>1. CASE s \in ReferencedSecrets(referenced)
      BY <2>1, <3>1, BatchSecrets DEF ServingInv
    <3>2. CASE s \notin ReferencedSecrets(referenced)
      BY <1>7, <3>2 DEF CertsCreated, handleNewReferencedSecrets, handleUpdatedSecrets, SameSecrets, WithPair
    <3>. QED BY <3>1, <3>2
  <2>3. CertPath(s) \notin DOMAIN p2.certs
    <3>1. CertPath(s) \notin DOMAIN certs
      BY <1>1, <2>1, PathsDiffer
    <3>2. CertPath(s) \notin DataPaths(made) /\ CertPath(s) \notin DataPaths(fresh)
      BY <1>5 DEF DataPaths
    <3>. QED BY <1>3, <3>1, <3>2
  <2>4. PICK ref \in now : ref[1] = s
    BY <2>1 DEF ReferencedSecrets
  <2> DEFINE key == ref[2]
  <2>5. /\ key \in ReferencedListeners(now) \cap ReferencedListeners(referenced)
        /\ s \in SecretsOf(now, key)
    BY <2>4 DEF CrtListsCreated, ReferencedListeners, SecretsOf
  <2>6. key \in keys
    <3>1. CASE s \in SecretsOf(referenced, key)
      <4>1. s \in ReferencedSecrets(referenced)
        BY <3>1 DEF SecretsOf, ReferencedSecrets
      <4>2. s \in DOMAIN tree'.secrets /\ tree'.secrets[s].status # Untouched
        BY <2>1, <2>2, <4>1, BatchSecrets DEF LiveSecrets, ServingInv
      <4>. QED BY <2>5, <3>1, <4>2 DEF handleUpdatedCrtList
    <3>2. CASE s \notin SecretsOf(referenced, key)
      <4>1. s \in keepOnlyExistingSecrets(tree', SecretsOf(now, key) \ SecretsOf(referenced, key))
        BY <2>2, <2>5, <3>2 DEF keepOnlyExistingSecrets
      <4>. QED BY <2>5, <4>1 DEF handleUpdatedCrtList
    <3>. QED BY <3>1, <3>2
  <2>7. s \in CrtListContent(tree', now, key)
    BY <2>2, <2>5 DEF CrtListContent, keepOnlyExistingSecrets
  <2>. QED BY <1>4, <2>3, <2>6, <2>7 DEF CertPaths
<1>. QED BY <1>6, <1>7 DEF CertsWritten

(* The runtime commands of a batch, if the process takes them all, lead to *)
(* what the batch left on disk.                                            *)
LEMMA CommandsFollowDisk ==
    ASSUME ServingInv, Batch, NEW now, ReferencedSecrets(now) \subseteq Secrets,
           ensureCertificatesStorage(tree', now),
           loaded = Disk(certs, crtLists), ~ runtimeCertificatesPrechecks(tree', now),
           NEW p \in executeRuntimeCertCommands(tree', now)
    PROVE  p = Disk(certs', crtLists')
<1> DEFINE t == tree'
           made  == CertsCreated(t, now)
           fresh == CertsUpdated(now)
           gone  == CertsDeleted(now)
           keys  == handleUpdatedCrtList(t, now)
           lists == [key \in keys |-> CrtListContent(t, now, key)]
           c1 == Override(certs, CertificateData(made))
           c2 == Override(c1, CertificateData(fresh))
           l1 == Override(crtLists, lists)
<1>1. p = Disk(Without(c2, CertPaths(gone)), l1) /\ \A s \in made \cup fresh : DataPath(s) = CertPath(s)
  <2>1. PICK p3 \in UNION {runtimeUpdateCrtList(q, t, now, keys) :
                             q \in UNION {runtimeUpdateCert(x, fresh) : x \in runtimeCreateCert(loaded, made)}} :
          p \in runtimeDeleteCert(p3, gone)
    BY DEF executeRuntimeCertCommands
  <2>2. PICK p2 \in UNION {runtimeUpdateCert(x, fresh) : x \in runtimeCreateCert(loaded, made)} :
          p3 \in runtimeUpdateCrtList(p2, t, now, keys)
    BY <2>1
  <2>3. PICK p1 \in runtimeCreateCert(loaded, made) : p2 \in runtimeUpdateCert(p1, fresh)
    BY <2>2
  <2>4. p1 = Disk(c1, crtLists)
    BY <2>3 DEF runtimeCreateCert, SetCerts, Disk
  <2> HIDE DEF c1
  <2>5. p2 = Disk(c2, crtLists)
    BY <2>3, <2>4 DEF runtimeUpdateCert, SetCerts, Disk
  <2> HIDE DEF c2
  <2>6. p3 = Disk(c2, l1)
    BY <2>2, <2>5 DEF runtimeUpdateCrtList, Disk
  <2> HIDE DEF l1
  <2>7. p = Disk(Without(c2, CertPaths(gone)), l1)
    BY <2>1, <2>6 DEF runtimeDeleteCert, Disk
  <2>8. CrtListsCreated(now) = {}
    BY DEF runtimeCertificatesPrechecks
  <2>9. \A s \in CertsWritten(tree', now) : DataPath(s) = CertPath(s)
    BY <2>2, <2>3, <2>8, OthersAreRefused
  <2>. QED BY <2>7, <2>9 DEF CertsWritten
<1>2. Without(c2, CertPaths(gone)) = certs'
  <2>1. Writable(CertsWritten(tree', now)) = made \cup fresh
    BY <1>1 DEF Writable, CertsWritten
  <2>2. (made \cup fresh) \cap gone = {}
    BY DEF CertsCreated, CertsUpdated, CertsDeleted, handleNewReferencedSecrets, handleUpdatedSecrets,
           handleDeReferencedSecrets, SameSecrets, WithPair
  <2>3. certs' = Override(Without(certs, CertPaths(gone)), CertificateData(made \cup fresh))
    BY <2>1 DEF ensureCertificatesStorage
  <2> HIDE DEF made, fresh, gone
  <2>4. DataPaths(made) \cup DataPaths(fresh) = DataPaths(made \cup fresh)
    BY DEF DataPaths
  <2>5. DataPaths(made \cup fresh) \cap CertPaths(gone) = {}
    BY <2>2 DEF DataPaths, CertPaths, DataPath, CertPath
  <2>6. \A S : DOMAIN CertificateData(S) = DataPaths(S) /\ \A path \in DataPaths(S) : CertificateData(S)[path] = store[path[1]][path[2]]
    BY DEF CertificateData
  <2>7. DOMAIN Without(c2, CertPaths(gone)) = DOMAIN certs'
    BY <2>3, <2>4, <2>5, <2>6 DEF Override, Without
  <2>8. ASSUME NEW path \in DOMAIN certs' PROVE Without(c2, CertPaths(gone))[path] = certs'[path]
    <3>1. path \notin CertPaths(gone) /\ path \in DOMAIN c2 /\ Without(c2, CertPaths(gone))[path] = c2[path]
      BY <2>7 DEF Without
    <3>2. certs'[path] = IF path \in DataPaths(made \cup fresh) THEN store[path[1]][path[2]] ELSE certs[path]
      BY <2>3, <2>6, <3>1 DEF Override, Without
    <3>3. path \notin DataPaths(fresh) =>
            c1[path] = IF path \in DataPaths(made) THEN store[path[1]][path[2]] ELSE certs[path]
      BY <2>6, <3>1 DEF Override
    <3> HIDE DEF c1
    <3>4. c2[path] = IF path \in DataPaths(fresh) THEN store[path[1]][path[2]] ELSE c1[path]
      BY <2>6, <3>1 DEF Override
    <3>. QED BY <2>4, <3>1, <3>2, <3>3, <3>4
  <2>. QED BY <2>3, <2>7, <2>8 DEF Override, Without
<1>3. l1 = crtLists'
  <2>1. CrtListsCreated(now) = {} /\ CrtListsDeleted(t, now) = {}
    BY DEF runtimeCertificatesPrechecks
  <2>2. crtLists' = Without(l1, {})
    BY <2>1 DEF ensureCertificatesStorage
  <2>. QED BY <2>2 DEF Without, Override
<1>. QED BY <1>1, <1>2, <1>3

(* A batch that finds the process with what is on disk leaves it so: what  *)
(* executeRuntimeCertCommands sends is what was written or is refused, and *)
(* the prechecks ask for a reload wherever commands would not do.          *)
THEOREM ProcessKeepsUp == FrontendsSpec => ProcessFollowsDisk
<1> DEFINE Step == loaded = Disk(certs, crtLists) /\ Loadable(certs', crtLists')
                      => loaded' = Disk(certs', crtLists')
<1>1. ServingInv /\ [FrontendsNext]_servingVars => [Step]_servingVars
  <2> SUFFICES ASSUME ServingInv, FrontendsNext PROVE Step
      OBVIOUS
  <2>1. CASE UNCHANGED certVars
    BY <2>1 DEF certVars
  <2>2. CASE HandleEventBatch
    <3> SUFFICES ASSUME loaded = Disk(certs, crtLists), Loadable(certs', crtLists')
                 PROVE  loaded' = Disk(certs', crtLists')
        OBVIOUS
    <3> DEFINE now == UpdateReferences
    <3>1. ensureCertificatesStorage(tree', now) /\ Batch
      BY <2>2 DEF HandleEventBatch
    <3>2. \/ loaded' = Disk(certs', crtLists')
          \/ /\ ~ runtimeCertificatesPrechecks(tree', now)
             /\ loaded' \in executeRuntimeCertCommands(tree', now)
      BY <2>2 DEF HandleEventBatch, processCertificates
    <3>3. ReferencedSecrets(now) \subseteq Secrets
      BY ReferencesType DEF UpdateReferences, ServingInv, CertsFollow
    <3> HIDE DEF now
    <3>. QED BY <3>1, <3>2, <3>3, CommandsFollowDisk
  <2>. QED BY <2>1, <2>2 DEF FrontendsNext
<1>. QED BY <1>1, ServingInvHolds, PTL DEF FrontendsSpec, ProcessFollowsDisk

-----------------------------------------------------------------------------
(* A gateway is valid only if it is managed and has the listeners of its   *)
(* spec.                                                                   *)
SoundGateway(g, node) ==
    /\ g \in Gateways
    /\ node.spec \in Versions[g]
    /\ node.status \in {Upserted, Deleted, Untouched}
    /\ node.valid =>
          /\ node.status # Deleted
          /\ node.managed
          /\ node.in = "managed"
          /\ DOMAIN node.listeners = DOMAIN node.spec.listeners
          /\ \A n \in DOMAIN node.listeners : node.listeners[n].spec = node.spec.listeners[n]

SoundGateways(t) == \A g \in DOMAIN t.gateways : SoundGateway(g, t.gateways[g])

(* The listeners of gateway g that have a frontend                         *)
Valid(t, g) == IF g \in LiveGateways(t) /\ t.gateways[g].valid
               THEN {n \in DOMAIN t.gateways[g].listeners : t.gateways[g].listeners[n].valid}
               ELSE {}

(* No two of them have a port in common.                                   *)
NoSharedPort(t) ==
    \A g, h \in DOMAIN t.gateways : \A n \in Valid(t, g), m \in Valid(t, h) :
        t.gateways[g].spec.listeners[n].port = t.gateways[h].spec.listeners[m].port => g = h /\ n = m

LEMMA KeptSound ==
    ASSUME NEW t, NEW u, GatewaysKept(t, u), SoundGateways(t)
    PROVE  SoundGateways(u)
<1> SUFFICES ASSUME NEW g \in DOMAIN u.gateways PROVE SoundGateway(g, u.gateways[g])
    BY DEF SoundGateways
<1>1. g \in DOMAIN t.gateways /\ SameGateway(t.gateways[g], u.gateways[g]) /\ SoundGateway(g, t.gateways[g])
  BY DEF GatewaysKept, SoundGateways
<1>. QED BY <1>1 DEF SameGateway, SameListeners, SoundGateway, Upserted, Deleted

LEMMA KeptValid ==
    ASSUME NEW t, NEW u, GatewaysKept(t, u), NEW g \in DOMAIN u.gateways
    PROVE  Valid(u, g) = Valid(t, g)
<1>1. g \in DOMAIN t.gateways /\ SameGateway(t.gateways[g], u.gateways[g])
  BY DEF GatewaysKept
<1>2. g \in LiveGateways(t) <=> g \in LiveGateways(u)
  BY <1>1 DEF SameGateway, LiveGateways, ManagedGateways, Upserted, Deleted
<1>. QED BY <1>1, <1>2 DEF SameGateway, SameListeners, Valid

LEMMA KeptPorts ==
    ASSUME NEW t, NEW u, GatewaysKept(t, u), NoSharedPort(t)
    PROVE  NoSharedPort(u)
<1> SUFFICES ASSUME NEW g \in DOMAIN u.gateways, NEW h \in DOMAIN u.gateways,
                    NEW n \in Valid(u, g), NEW m \in Valid(u, h),
                    u.gateways[g].spec.listeners[n].port = u.gateways[h].spec.listeners[m].port
             PROVE  g = h /\ n = m
    BY DEF NoSharedPort
<1>1. n \in Valid(t, g) /\ m \in Valid(t, h)
  BY KeptValid
<1>2. u.gateways[g].spec = t.gateways[g].spec /\ u.gateways[h].spec = t.gateways[h].spec
  BY DEF GatewaysKept, SameGateway
<1>3. g \in DOMAIN t.gateways /\ h \in DOMAIN t.gateways
  BY DEF GatewaysKept
<1>. QED BY <1>1, <1>2, <1>3 DEF NoSharedPort

(* A gateway before the conflicts are looked at, and after                 *)
LEMMA StageBefore ==
    ASSUME TreeShape, InputsSound, SoundGateways(tree), NEW g \in DOMAIN BeforeConflicts.gateways
    PROVE  LET node == BeforeConflicts.gateways[g]
           IN  /\ g \in Gateways
               /\ node.spec \in Versions[g]
               /\ \/ g \in DOMAIN Listed.gateways /\ node = Listed.gateways[g] /\ node.status = Untouched
                  \/ node.status = Upserted /\ (node.valid => node.managed /\ node.in = "managed")
                  \/ node.status = Deleted /\ node.valid = FALSE
<1>1. CASE g \in InStore(Gateways)
  <2> DEFINE node == processManagementChecks(Listed, g, store[g])
  <2>1. BeforeConflicts.gateways[g] = node
    BY <1>1, UpdatedGateway
  <2>2. node.status = Upserted /\ node.spec = store[g] /\ (node.valid => node.managed /\ node.in = "managed")
    BY CheckedValid
  <2>3. g \in Gateways /\ store[g] \in Versions[g]
    BY <1>1 DEF InputsSound, InStore
  <2> HIDE DEF node
  <2>. QED BY <2>1, <2>2, <2>3
<1>2. CASE g \in DOMAIN Listed.gateways /\ g \notin InStore(Gateways)
  <2>1. g \in DOMAIN tree.gateways /\ SoundGateway(g, tree.gateways[g])
    BY <1>2, CleanedGateway DEF SoundGateways
  <2>2. Listed.gateways[g].spec = tree.gateways[g].spec /\ Listed.gateways[g].status = Untouched
    BY <1>2, CleanedGateway
  <2>3. CASE g \in Gone(Gateways)
    BY <1>2, <2>1, <2>2, <2>3, UpdatedGateway DEF SoundGateway
  <2>4. CASE g \notin Gone(Gateways)
    <3>1. BeforeConflicts.gateways[g] = Listed.gateways[g]
      BY <1>2, <2>4, UpdatedGateway DEF Gone, InStore
    <3>. QED BY <1>2, <2>1, <2>2, <3>1 DEF SoundGateway
  <2>. QED BY <2>3, <2>4
<1>. QED BY <1>1, <1>2, UpdatedGateway

LEMMA StageChecked ==
    ASSUME TreeShape, InputsSound, SoundGateways(tree), NEW g \in DOMAIN CheckedTree.gateways
    PROVE  LET node == CheckedTree.gateways[g]
           IN  /\ g \in Gateways
               /\ node.spec \in Versions[g]
               /\ node.spec = BeforeConflicts.gateways[g].spec
               /\ \/ /\ g \in DOMAIN Listed.gateways /\ node = Listed.gateways[g] /\ node.status = Untouched
                     /\ node = BeforeConflicts.gateways[g] /\ g \notin Rechecked(BeforeConflicts)
                  \/ node.status = Upserted /\ (node.valid => node.managed /\ node.in = "managed")
                  \/ node.status = Deleted /\ node.valid = FALSE
<1>1. g \in DOMAIN BeforeConflicts.gateways
  BY RecheckedGateway
<1>2. CASE g \in Rechecked(BeforeConflicts)
  <2> DEFINE spec == BeforeConflicts.gateways[g].spec
             node == processManagementChecks(BeforeConflicts, g, spec)
  <2>1. CheckedTree.gateways[g] = node
    BY <1>2, RecheckedGateway
  <2>2. node.status = Upserted /\ node.spec = spec /\ (node.valid => node.managed /\ node.in = "managed")
    BY CheckedValid
  <2>3. g \in Gateways /\ spec \in Versions[g]
    BY <1>1, StageBefore
  <2> HIDE DEF node
  <2>. QED BY <2>1, <2>2, <2>3
<1>3. CASE g \notin Rechecked(BeforeConflicts)
  <2>1. CheckedTree.gateways[g] = BeforeConflicts.gateways[g]
    BY <1>1, <1>3, RecheckedGateway
  <2>. QED BY <1>1, <1>3, <2>1, StageBefore
<1>. QED BY <1>2, <1>3

LEMMA StageBuilt ==
    ASSUME TreeShape, InputsSound, SoundGateways(tree)
    PROVE  SoundGateways(WithGateways)
<1> SUFFICES ASSUME NEW g \in DOMAIN WithGateways.gateways PROVE SoundGateway(g, WithGateways.gateways[g])
    BY DEF SoundGateways
<1> DEFINE node == CheckedTree.gateways[g]
           built == buildListeners(BeforeConflicts, node, portsWithMultipleListeners(BeforeConflicts))
<1> USE DEF Upserted, Deleted, Untouched
<1>1. g \in DOMAIN CheckedTree.gateways
  BY BuiltGateway
<1>2. /\ g \in Gateways
      /\ node.spec \in Versions[g]
      /\ \/ g \in DOMAIN Listed.gateways /\ node = Listed.gateways[g] /\ node.status = Untouched
         \/ node.status = Upserted /\ (node.valid => node.managed /\ node.in = "managed")
         \/ node.status = Deleted /\ node.valid = FALSE
  BY <1>1, StageChecked
<1>3. CASE g \in ProcessedGateways
  <2>1. WithGateways.gateways[g] = built
    BY <1>3, BuiltGateway
  <2>2. node.status = Upserted /\ node.managed /\ node.in = "managed"
    BY <1>3 DEF ProcessedGateways, ManagedGateways
  <2> HIDE DEF node
  <2>3. built.spec = node.spec /\ built.status = node.status /\ built.managed = node.managed /\ built.in = node.in
        /\ DOMAIN built.listeners = DOMAIN node.spec.listeners
    BY DEF buildListeners
  <2>4. \A n \in DOMAIN node.spec.listeners : built.listeners[n].spec = node.spec.listeners[n]
    BY DEF buildListeners, buildListener
  <2>. QED BY <1>2, <2>1, <2>2, <2>3, <2>4 DEF SoundGateway
<1>4. CASE g \notin ProcessedGateways
  <2>1. WithGateways.gateways[g] = node
    BY <1>1, <1>4, BuiltGateway
  <2>2. CASE g \in DOMAIN Listed.gateways /\ node = Listed.gateways[g] /\ node.status = Untouched
    <3>1. g \in DOMAIN tree.gateways /\ SoundGateway(g, tree.gateways[g])
      BY <2>2, CleanedGateway DEF SoundGateways
    <3>2. node.spec = tree.gateways[g].spec /\ node.managed = tree.gateways[g].managed
          /\ node.in = tree.gateways[g].in /\ node.valid = tree.gateways[g].valid
          /\ node.listeners = tree.gateways[g].listeners
      BY <2>2, CleanedGateway
    <3> HIDE DEF node
    <3>3. g \in Gateways /\ node.spec \in Versions[g] /\ node.status \in {Upserted, Deleted, Untouched}
          /\ node.status # Deleted
      BY <1>2, <2>2
    <3>4. node.valid => node.managed /\ node.in = "managed"
      BY <3>1, <3>2 DEF SoundGateway
    <3>5. node.valid => DOMAIN node.listeners = DOMAIN node.spec.listeners
      BY <3>1, <3>2 DEF SoundGateway
    <3>6. node.valid => \A n \in DOMAIN node.listeners : node.listeners[n].spec = node.spec.listeners[n]
      BY <3>1, <3>2 DEF SoundGateway
    <3>. QED BY <2>1, <3>3, <3>4, <3>5, <3>6 DEF SoundGateway
  <2>3. CASE node.status = Upserted /\ (node.valid => node.managed /\ node.in = "managed")
    <3>1. ~ node.valid
      BY <1>1, <1>4, <2>3 DEF ProcessedGateways, ManagedGateways
    <3>. QED BY <1>2, <2>1, <2>3, <3>1 DEF SoundGateway
  <2>4. CASE node.status = Deleted /\ node.valid = FALSE
    BY <1>2, <2>1, <2>4 DEF SoundGateway
  <2>. QED BY <1>2, <2>2, <2>3, <2>4
<1>. QED BY <1>3, <1>4

(* Of the listeners of one port, a batch accepts one at most.              *)
LEMMA StagePorts ==
    ASSUME TreeShape, InputsSound, SoundGateways(tree)
    PROVE  NoSharedPort(WithGateways)
<1> DEFINE U == BeforeConflicts
           ports == portsWithMultipleListeners(U)
           spec(g) == U.gateways[g].spec
<1> USE DEF Upserted, Deleted, Untouched
(* A gateway with a frontend is one of those that may conflict.            *)
<1>1. ASSUME NEW g \in DOMAIN WithGateways.gateways, NEW n \in Valid(WithGateways, g)
      PROVE  /\ g \in LiveGateways(U)
             /\ n \in DOMAIN spec(g).listeners
             /\ WithGateways.gateways[g].spec = spec(g)
             /\ spec(g).listeners[n].port \notin ports
  <2> DEFINE node == CheckedTree.gateways[g]
             built == buildListeners(U, node, ports)
             last == WithGateways.gateways[g]
  <2>1. g \in DOMAIN CheckedTree.gateways /\ g \in DOMAIN U.gateways
    BY BuiltGateway, RecheckedGateway
  <2>2. /\ node.spec = spec(g)
        /\ \/ node.status = Untouched /\ node = U.gateways[g] /\ g \notin Rechecked(U)
           \/ node.status = Upserted /\ (node.valid => node.managed /\ node.in = "managed")
           \/ node.status = Deleted /\ node.valid = FALSE
    BY <2>1, StageChecked
  <2>3. last.status # Deleted /\ last.in = "managed" /\ last.valid /\ n \in DOMAIN last.listeners
        /\ last.listeners[n].valid
    BY <1>1 DEF Valid, LiveGateways, ManagedGateways
  <2>4. SoundGateway(g, last)
    BY StageBuilt DEF SoundGateways
  <2>5. n \in DOMAIN last.spec.listeners
    BY <2>3, <2>4 DEF SoundGateway
  <2>6. CASE g \in ProcessedGateways
    <3>1. last = built
      BY <2>6, BuiltGateway
    <3>2. node.status = Upserted /\ node.in = "managed"
      BY <2>6 DEF ProcessedGateways, ManagedGateways
    <3>3. g \in LiveGateways(U)
      <4>1. CASE g \in Rechecked(U)
        BY <4>1 DEF Rechecked, LiveGateways
      <4>2. CASE g \notin Rechecked(U)
        <5>1. node = U.gateways[g]
          BY <2>1, <4>2, RecheckedGateway
        <5>. QED BY <2>1, <3>2, <5>1 DEF LiveGateways, ManagedGateways
      <4>. QED BY <4>1, <4>2
    <3> HIDE DEF node
    <3>4. built.spec = node.spec /\ (built.valid => node.valid)
          /\ built.listeners = [x \in DOMAIN node.spec.listeners |->
                                  buildListener(U, node, node.spec.listeners[x], ports)]
      BY DEF buildListeners
    <3>5. node.valid /\ n \in DOMAIN node.spec.listeners
      BY <2>3, <2>5, <3>1, <3>4
    <3>6. last.listeners[n] = buildListener(U, node, node.spec.listeners[n], ports)
      BY <3>1, <3>4, <3>5
    <3>7. ListenerConditions(U, node, node.spec.listeners[n], ports) = {}
      <4> DEFINE l == node.spec.listeners[n]
      <4>1. buildListener(U, node, l, ports).valid = (ListenerConditions(U, node, l, ports) = {})
        BY DEF buildListener
      <4>2. buildListener(U, node, l, ports).valid
        BY <2>3, <3>6
      <4>. QED BY <4>1, <4>2
    <3>8. node.spec.listeners[n].port \notin ports
      BY <3>5, <3>7 DEF ListenerConditions, checkConflict
    <3>. QED BY <2>2, <3>1, <3>3, <3>4, <3>5, <3>8
  <2>7. CASE g \notin ProcessedGateways
    <3>1. last = node
      BY <2>1, <2>7, BuiltGateway
    <3>2. node.status = Untouched /\ node = U.gateways[g] /\ g \notin Rechecked(U)
      BY <2>1, <2>2, <2>3, <2>7, <3>1 DEF ProcessedGateways, ManagedGateways
    <3>3. g \in LiveGateways(U)
      BY <2>1, <2>3, <3>1, <3>2 DEF LiveGateways, ManagedGateways
    <3>4. g \notin gatewaysWithPortConflicts(U)
      BY <3>2, <3>3 DEF Rechecked, LiveGateways
    <3>5. spec(g).listeners[n] \in Range(spec(g).listeners)
      BY <2>5, <3>1, <3>2 DEF Range
    <3>6. spec(g).listeners[n].port \notin ports
      BY <3>3, <3>4, <3>5 DEF gatewaysWithPortConflicts
    <3>. QED BY <2>2, <2>5, <3>1, <3>3, <3>6
  <2>. QED BY <2>6, <2>7
<1> SUFFICES ASSUME NEW g \in DOMAIN WithGateways.gateways, NEW h \in DOMAIN WithGateways.gateways,
                    NEW n \in Valid(WithGateways, g), NEW m \in Valid(WithGateways, h),
                    WithGateways.gateways[g].spec.listeners[n].port
                      = WithGateways.gateways[h].spec.listeners[m].port,
                    ~ (g = h /\ n = m)
             PROVE  FALSE
    BY DEF NoSharedPort
<1> HIDE DEF U
<1>2. /\ g \in LiveGateways(U) /\ n \in DOMAIN spec(g).listeners
      /\ WithGateways.gateways[g].spec = spec(g) /\ spec(g).listeners[n].port \notin ports
  BY <1>1
<1>3. /\ h \in LiveGateways(U) /\ m \in DOMAIN spec(h).listeners
      /\ WithGateways.gateways[h].spec = spec(h)
  BY <1>1
<1> DEFINE port == spec(g).listeners[n].port
<1>4. <<g, n>> \in listenersByPort(U, port) /\ <<h, m>> \in listenersByPort(U, port)
  <2>1. ASSUME NEW x \in LiveGateways(U), NEW l \in DOMAIN spec(x).listeners
        PROVE  <<x, l>> \in UNION {{y} \X DOMAIN U.gateways[y].spec.listeners : y \in LiveGateways(U)}
    <3>1. <<x, l>> \in {x} \X DOMAIN U.gateways[x].spec.listeners
      OBVIOUS
    <3>. QED BY <3>1
  <2>2. port = spec(h).listeners[m].port
    BY <1>2, <1>3
  <2>3. <<g, n>> \in listenersByPort(U, port)
    BY <1>2, <2>1 DEF listenersByPort
  <2>4. <<h, m>> \in listenersByPort(U, port)
    BY <1>3, <2>1, <2>2 DEF listenersByPort
  <2>. QED BY <2>3, <2>4
<1>5. <<g, n>> # <<h, m>>
  OBVIOUS
<1>6. port \in UNION {{l.port : l \in Range(U.gateways[x].spec.listeners)} : x \in LiveGateways(U)}
  <2>1. spec(g).listeners[n] \in Range(U.gateways[g].spec.listeners)
    BY <1>2 DEF Range
  <2>2. port \in {l.port : l \in Range(U.gateways[g].spec.listeners)}
    BY <2>1
  <2>. QED BY <1>2, <2>2
<1>7. port \in ports
  BY <1>4, <1>5, <1>6 DEF portsWithMultipleListeners
<1>. QED BY <1>2, <1>7
-----------------------------------------------------------------------------
(* The tree's gateways are sound and share no port between batches.        *)
GatewaysInv == SoundGateways(tree) /\ NoSharedPort(tree)

LEMMA GatewaysStep ==
    InputsSound /\ TreeShape /\ GatewaysInv /\ [FrontendsNext]_servingVars => GatewaysInv'
<1> SUFFICES ASSUME InputsSound, TreeShape, GatewaysInv, [FrontendsNext]_servingVars PROVE GatewaysInv'
    OBVIOUS
<1>1. CASE tree' = tree
  BY <1>1 DEF GatewaysInv, SoundGateways, NoSharedPort, Valid, LiveGateways, ManagedGateways
<1>2. CASE Batch
  <2>1. SoundGateways(tree') /\ NoSharedPort(tree')
    BY <1>2, BatchTree, StageBuilt, StagePorts, KeptSound, KeptPorts DEF GatewaysInv
  <2>. QED BY <2>1 DEF GatewaysInv, SoundGateways, NoSharedPort, Valid, LiveGateways, ManagedGateways
<1>. QED BY <1>1, <1>2 DEF FrontendsNext, Input, Change, Reconcile, HandleEventBatch, servingVars, gateVars, treeVars

(* A gateway that a batch does not register is as it was.                  *)
LEMMA NotRegistered ==
    ASSUME InputsSound, TreeShape, SoundGateways(tree), Batch, NEW g \in DOMAIN tree'.gateways,
           tree'.gateways[g].status = Untouched
    PROVE  /\ g \in DOMAIN tree.gateways
           /\ tree'.gateways[g].spec = tree.gateways[g].spec
           /\ Valid(tree', g) = Valid(tree, g)
<1> USE DEF Upserted, Deleted, Untouched
<1> DEFINE node == WithGateways.gateways[g]
<1>1. GatewaysKept(WithGateways, tree')
  BY BatchTree
<1>2. g \in DOMAIN WithGateways.gateways /\ SameGateway(node, tree'.gateways[g])
  BY <1>1 DEF GatewaysKept
<1>3. node.status = Untouched /\ tree'.gateways[g].spec = node.spec
  BY <1>2 DEF SameGateway
<1>4. g \in DOMAIN CheckedTree.gateways
  BY <1>2, BuiltGateway
<1>5. g \notin ProcessedGateways
  <2> SUFFICES ASSUME g \in ProcessedGateways PROVE FALSE
      OBVIOUS
  <2>1. node.status = CheckedTree.gateways[g].status
    <3> DEFINE c == CheckedTree.gateways[g]
               ports == portsWithMultipleListeners(BeforeConflicts)
    <3>1. node = buildListeners(BeforeConflicts, c, ports)
      BY BuiltGateway
    <3> HIDE DEF c, ports
    <3>2. buildListeners(BeforeConflicts, c, ports).status = c.status
      BY DEF buildListeners
    <3>. QED BY <3>1, <3>2 DEF c
  <2>. QED BY <1>3, <2>1 DEF ProcessedGateways
<1>6. node = CheckedTree.gateways[g]
  BY <1>4, <1>5, BuiltGateway
<1>7. g \in DOMAIN Listed.gateways /\ node = Listed.gateways[g]
  BY <1>3, <1>4, <1>6, StageChecked
<1>8. Valid(tree', g) = Valid(WithGateways, g)
  BY <1>1, KeptValid
<1>9. /\ g \in DOMAIN tree.gateways /\ tree.gateways[g].status # Deleted
      /\ node.in = tree.gateways[g].in /\ node.spec = tree.gateways[g].spec
      /\ node.valid = tree.gateways[g].valid /\ node.listeners = tree.gateways[g].listeners
  BY <1>7, CleanedGateway
<1>10. g \in LiveGateways(WithGateways) <=> g \in LiveGateways(tree)
  BY <1>2, <1>3, <1>9 DEF LiveGateways, ManagedGateways
<1>11. Valid(WithGateways, g) = Valid(tree, g)
  <2>1. CASE g \in LiveGateways(tree) /\ tree.gateways[g].valid
    BY <1>9, <1>10, <2>1 DEF Valid
  <2>2. CASE ~ (g \in LiveGateways(tree) /\ tree.gateways[g].valid)
    BY <1>9, <1>10, <2>2 DEF Valid
  <2>. QED BY <2>1, <2>2
<1>. QED BY <1>3, <1>8, <1>9, <1>11

LEMMA KeyOf ==
    ASSUME NEW g, NEW names, NEW fe
    PROVE  fe \in ListenerKeys(g, names) <=> fe = <<g, fe[2]>> /\ fe[2] \in names
BY DEF ListenerKeys

LEMMA KeyIn ==
    ASSUME NEW g, NEW names, NEW n \in names
    PROVE  <<g, n>> \in ListenerKeys(g, names)
BY DEF ListenerKeys

(* A gateway that a batch registers gets the frontends of its listeners.   *)
LEMMA Registered ==
    ASSUME NEW t, SoundGateways(t), NEW g \in DOMAIN t.gateways
    PROVE  /\ t.gateways[g].status = Untouched /\ t.gateways[g].in = "managed"
                 => UpsertedFrontends(t, g) = {} /\ DeletedFrontends(t, g) = {}
           /\ ~ (t.gateways[g].status = Untouched /\ t.gateways[g].in = "managed") =>
                 /\ UpsertedFrontends(t, g) = ListenerKeys(g, Valid(t, g))
                 /\ UpsertedFrontends(t, g) \cup DeletedFrontends(t, g) # {}
           /\ \A fe \in UpsertedFrontends(t, g) \cup DeletedFrontends(t, g) : fe[1] = g
           /\ UpsertedFrontends(t, g) \cap DeletedFrontends(t, g) = {}
<1> USE DEF Upserted, Deleted, Untouched
<1> DEFINE node == t.gateways[g]
           ok   == {n \in DOMAIN node.listeners : node.listeners[n].valid}
           bad  == {n \in DOMAIN node.listeners : ~ node.listeners[n].valid}
<1>1. SoundGateway(g, node)
  BY DEF SoundGateways
<1>2. DOMAIN node.spec.listeners # {}
  BY <1>1, SpecsAssumption DEF SoundGateway
<1>3. CASE node.status = Untouched /\ node.in = "managed"
  BY <1>3 DEF UpsertedFrontends, DeletedFrontends
<1>4. CASE node.in = "managed" /\ node.status = Upserted /\ node.valid
  <2>1. UpsertedFrontends(t, g) = ListenerKeys(g, ok)
    BY <1>4 DEF UpsertedFrontends
  <2>2. DeletedFrontends(t, g) = ListenerKeys(g, bad)
    BY <1>4 DEF DeletedFrontends
  <2>3. Valid(t, g) = ok
    BY <1>4 DEF Valid, LiveGateways, ManagedGateways
  <2>4. ok \cup bad # {} /\ ok \cap bad = {}
    BY <1>1, <1>2, <1>4 DEF SoundGateway
  <2> HIDE DEF ok, bad
  <2>5. UpsertedFrontends(t, g) \cup DeletedFrontends(t, g) # {}
    <3>1. PICK n : n \in ok \cup bad
      BY <2>4
    <3>. QED BY <2>1, <2>2, <3>1, KeyIn
  <2>6. \A fe \in UpsertedFrontends(t, g) \cup DeletedFrontends(t, g) : fe = <<g, fe[2]>>
    BY <2>1, <2>2, KeyOf
  <2>7. \A fe \in UpsertedFrontends(t, g) : fe \notin DeletedFrontends(t, g)
    BY <2>1, <2>2, <2>4, KeyOf
  <2>. QED BY <1>4, <2>1, <2>3, <2>5, <2>6, <2>7
<1>5. CASE ~ (node.status = Untouched /\ node.in = "managed") /\ ~ (node.in = "managed" /\ node.status = Upserted /\ node.valid)
  <2>1. UpsertedFrontends(t, g) = {}
    BY <1>5 DEF UpsertedFrontends
  <2>2. DeletedFrontends(t, g) = ListenerKeys(g, DOMAIN node.spec.listeners)
    BY <1>5 DEF DeletedFrontends
  <2>3. Valid(t, g) = {}
    BY <1>1, <1>5 DEF Valid, LiveGateways, ManagedGateways, SoundGateway
  <2>4. DeletedFrontends(t, g) # {}
    <3>1. PICK n : n \in DOMAIN node.spec.listeners
      BY <1>2
    <3>. QED BY <2>2, <3>1, KeyIn
  <2>5. \A fe \in DeletedFrontends(t, g) : fe = <<g, fe[2]>>
    BY <2>2, KeyOf
  <2>6. ListenerKeys(g, Valid(t, g)) = {}
    BY <2>3, KeyOf
  <2>7. /\ \A fe \in UpsertedFrontends(t, g) \cup DeletedFrontends(t, g) : fe[1] = g
        /\ UpsertedFrontends(t, g) \cap DeletedFrontends(t, g) = {}
        /\ UpsertedFrontends(t, g) \cup DeletedFrontends(t, g) # {}
    BY <2>1, <2>4, <2>5
  <2>8. UpsertedFrontends(t, g) = ListenerKeys(g, Valid(t, g))
    BY <2>1, <2>6
  <2>9. ~ (node.status = Untouched /\ node.in = "managed")
    BY <1>5
  <2>. QED BY <2>7, <2>8, <2>9
<1>. QED BY <1>3, <1>4, <1>5

(* The frontends are those of the valid listeners, and each is on the list *)
(* of its gateway.                                                         *)
FrontendKeys(t) == UNION {ListenerKeys(g, Valid(t, g)) : g \in DOMAIN t.gateways}

FrontendsInv ==
    /\ firstSync \in BOOLEAN
    /\ firstSync => DOMAIN tree.gateways = {}
    /\ \A g \in DOMAIN owned : \A fe \in owned[g] : fe[1] = g
    /\ ~ firstSync =>
          /\ frontends = [fe \in FrontendKeys(tree) |-> newFrontend(tree.gateways[fe[1]].spec.listeners[fe[2]])]
          /\ \A fe \in FrontendKeys(tree) : fe[1] \in DOMAIN owned /\ fe \in owned[fe[1]]

LEMMA FrontendKey ==
    ASSUME NEW t, NEW fe
    PROVE  fe \in FrontendKeys(t) <=> /\ fe = <<fe[1], fe[2]>>
                                      /\ fe[1] \in DOMAIN t.gateways
                                      /\ fe[2] \in Valid(t, fe[1])
BY DEF FrontendKeys, ListenerKeys

LEMMA FrontendsStep ==
    ASSUME NoNamesakes, InputsSound, TreeShape, GatewaysInv, FrontendsInv, [FrontendsNext]_servingVars
    PROVE  FrontendsInv'
<1> USE DEF Upserted, Deleted, Untouched
<1>1. CASE UNCHANGED <<tree, frontVars>>
  <2>1. FrontendKeys(tree)' = FrontendKeys(tree)
    BY <1>1 DEF FrontendKeys, Valid, LiveGateways, ManagedGateways
  <2>. QED BY <1>1, <2>1 DEF FrontendsInv, frontVars
<1>2. CASE HandleEventBatch
  <2> DEFINE t == tree'
             updated  == byUpdatedGateways(t)
             upserted == UNION {updated[g] : g \in DOMAIN updated}
             deleted  == UNION {DeletedFrontends(t, g) : g \in DOMAIN updated}
             old      == cleanupFrontendsForGateways(updated)
             first    == cleanupAfterFirstSync(upserted)
             removed  == UNION {deleted, old, first}
             new      == [fe \in upserted |-> newFrontend(t.gateways[fe[1]].listeners[fe[2]].spec)]
             known(g) == t.gateways[g].status = Untouched /\ t.gateways[g].in = "managed"
  <2>1. Batch /\ frontends' = Override(Without(frontends, removed), new) /\ owned' = Override(owned, updated)
        /\ firstSync' = FALSE
    BY <1>2 DEF HandleEventBatch, processGateways
  <2>2. SoundGateways(t)
    BY <2>1, BatchTree, StageBuilt, KeptSound DEF GatewaysInv
  <2>3. DOMAIN updated = {g \in DOMAIN t.gateways : ~ known(g)}
    BY <2>2, Registered DEF byUpdatedGateways
  <2>4. \A g \in DOMAIN updated : updated[g] = ListenerKeys(g, Valid(t, g))
    <3>1. \A g \in DOMAIN updated : updated[g] = UpsertedFrontends(t, g)
      BY DEF byUpdatedGateways
    <3>. QED BY <2>2, <2>3, <3>1, Registered
  <2>5. \A fe : fe \in upserted <=> fe \in FrontendKeys(t) /\ ~ known(fe[1])
    <3> SUFFICES ASSUME NEW fe PROVE fe \in upserted <=> fe \in FrontendKeys(t) /\ ~ known(fe[1])
        OBVIOUS
    <3> HIDE DEF updated, known, t
    <3>1. fe \in upserted <=> \E g \in DOMAIN updated : fe \in ListenerKeys(g, Valid(t, g))
      BY <2>4
    <3>2. fe \in upserted <=> \E g \in DOMAIN updated : fe = <<g, fe[2]>> /\ fe[2] \in Valid(t, g)
      BY <3>1, KeyOf
    <3>. QED BY <2>3, <3>2, FrontendKey
  <2>6. \A g \in DOMAIN updated : \A fe \in DeletedFrontends(t, g) : fe[1] = g
    BY <2>2, <2>3, Registered
  <2>7. \A g \in DOMAIN t.gateways : known(g) =>
           /\ g \in DOMAIN tree.gateways
           /\ t.gateways[g].spec = tree.gateways[g].spec
           /\ Valid(t, g) = Valid(tree, g)
    BY <2>1, NotRegistered DEF GatewaysInv
  <2>8. \A g \in DOMAIN tree.gateways : g \notin DOMAIN t.gateways => Valid(tree, g) = {}
    <3> SUFFICES ASSUME NEW g \in DOMAIN tree.gateways, g \notin DOMAIN t.gateways PROVE Valid(tree, g) = {}
        OBVIOUS
    <3>1. g \notin DOMAIN WithGateways.gateways
      BY <2>1, BatchTree DEF GatewaysKept
    <3>2. g \notin DOMAIN Listed.gateways
      BY <3>1, BuiltGateway, RecheckedGateway, UpdatedGateway
    <3>3. tree.gateways[g].status = Deleted
      BY <3>2, CleanedGateway
    <3>. QED BY <3>3 DEF Valid, LiveGateways
  <2> HIDE DEF updated, deleted, old, first, new, known, upserted, t
  <2>9. \A fe \in old : \E g \in DOMAIN updated : g \in DOMAIN owned /\ fe \in owned[g] \ updated[g] /\ fe[1] = g
    BY DEF old, cleanupFrontendsForGateways, OwnedBy, FrontendsInv
  <2>10. \A g \in DOMAIN updated \cap DOMAIN owned : owned[g] \ updated[g] \subseteq old
    BY DEF old, cleanupFrontendsForGateways, OwnedBy
  <2>11. first = IF firstSync THEN DOMAIN frontends \ upserted ELSE {}
    BY DEF first, cleanupAfterFirstSync
  <2>12. \A fe \in deleted : fe[1] \in DOMAIN updated
    BY <2>6 DEF deleted
  <2>13. \A fe : fe \in DOMAIN frontends' <=> (fe \in DOMAIN frontends /\ fe \notin removed) \/ fe \in upserted
    BY <2>1 DEF Override, Without, new
  <2>14. \A fe \in DOMAIN frontends' :
           frontends'[fe] = IF fe \in upserted THEN newFrontend(t.gateways[fe[1]].listeners[fe[2]].spec)
                            ELSE frontends[fe]
    BY <2>1 DEF Override, Without, new
  <2>15. \A fe : fe \in removed <=> fe \in deleted \/ fe \in old \/ fe \in first
    OBVIOUS
  <2> HIDE DEF removed
  (* A frontend that is kept is that of a gateway the batch left alone.    *)
  <2>16. ASSUME NEW fe \in FrontendKeys(t), fe \notin upserted
         PROVE  /\ fe \in DOMAIN frontends /\ fe \notin removed /\ ~ firstSync
                /\ fe \in FrontendKeys(tree) /\ fe[1] \notin DOMAIN updated
                /\ t.gateways[fe[1]].spec = tree.gateways[fe[1]].spec
    <3>1. fe = <<fe[1], fe[2]>> /\ fe[1] \in DOMAIN t.gateways /\ fe[2] \in Valid(t, fe[1]) /\ known(fe[1])
      BY <2>5, <2>16, FrontendKey
    <3>2. fe[1] \in DOMAIN tree.gateways /\ fe[2] \in Valid(tree, fe[1])
          /\ t.gateways[fe[1]].spec = tree.gateways[fe[1]].spec
      BY <2>7, <3>1
    <3>3. fe \in FrontendKeys(tree)
      BY <3>1, <3>2, FrontendKey
    <3>4. ~ firstSync /\ fe \in DOMAIN frontends
      BY <3>2, <3>3 DEF FrontendsInv
    <3>5. fe[1] \notin DOMAIN updated
      BY <2>3, <3>1
    <3>6. fe \notin removed
      BY <2>9, <2>11, <2>12, <2>15, <3>4, <3>5
    <3>. QED BY <3>2, <3>3, <3>4, <3>5, <3>6
  <2>17. ASSUME NEW fe \in DOMAIN frontends, fe \notin removed
         PROVE  fe \in FrontendKeys(t)
    <3>1. CASE fe \in upserted
      BY <2>5, <3>1
    <3>2. CASE fe \notin upserted
      <4>1. ~ firstSync
        BY <2>11, <2>15, <2>17, <3>2 DEF FrontendsInv
      <4>2. fe \in FrontendKeys(tree) /\ fe[1] \in DOMAIN owned /\ fe \in owned[fe[1]]
        BY <4>1 DEF FrontendsInv
      <4>3. fe = <<fe[1], fe[2]>> /\ fe[1] \in DOMAIN tree.gateways /\ fe[2] \in Valid(tree, fe[1])
        BY <4>2, FrontendKey
      <4>4. fe[1] \in DOMAIN t.gateways
        BY <2>8, <4>3
      <4>5. CASE fe[1] \in DOMAIN updated
        <5>1. fe \in updated[fe[1]]
          BY <2>10, <2>15, <2>17, <4>2, <4>5
        <5>. QED BY <3>2, <4>5, <5>1 DEF upserted
      <4>6. CASE fe[1] \notin DOMAIN updated
        <5>1. known(fe[1])
          BY <2>3, <4>4, <4>6
        <5>2. fe[2] \in Valid(t, fe[1])
          BY <2>7, <4>3, <4>4, <5>1
        <5>. QED BY <4>3, <4>4, <5>2, FrontendKey
      <4>. QED BY <4>5, <4>6
    <3>. QED BY <3>1, <3>2
  <2>18. DOMAIN frontends' = FrontendKeys(t)
    BY <2>5, <2>13, <2>16, <2>17
  <2>19. ASSUME NEW fe \in FrontendKeys(t)
         PROVE  frontends'[fe] = newFrontend(t.gateways[fe[1]].spec.listeners[fe[2]])
    <3>1. CASE fe \in upserted
      <4>1. fe[1] \in DOMAIN t.gateways /\ fe[2] \in Valid(t, fe[1])
        BY FrontendKey
      <4>2. t.gateways[fe[1]].listeners[fe[2]].spec = t.gateways[fe[1]].spec.listeners[fe[2]]
        BY <2>2, <4>1 DEF Valid, SoundGateways, SoundGateway
      <4>. QED BY <2>14, <2>18, <3>1, <4>2
    <3>2. CASE fe \notin upserted
      BY <2>14, <2>16, <2>18, <3>2 DEF FrontendsInv
    <3>. QED BY <3>1, <3>2
  <2>20. frontends' = [fe \in FrontendKeys(t) |-> newFrontend(t.gateways[fe[1]].spec.listeners[fe[2]])]
    <3>1. frontends' = [fe \in DOMAIN frontends' |-> frontends'[fe]]
      BY <2>1 DEF Override
    <3>. QED BY <2>18, <2>19, <3>1
  <2>21. \A fe \in FrontendKeys(t) : fe[1] \in DOMAIN owned' /\ fe \in owned'[fe[1]]
    <3> SUFFICES ASSUME NEW fe \in FrontendKeys(t) PROVE fe[1] \in DOMAIN owned' /\ fe \in owned'[fe[1]]
        OBVIOUS
    <3>1. CASE fe \in upserted
      <4>1. fe[1] \in DOMAIN updated /\ fe \in updated[fe[1]]
        <5>1. fe = <<fe[1], fe[2]>> /\ fe[1] \in DOMAIN t.gateways /\ fe[2] \in Valid(t, fe[1]) /\ ~ known(fe[1])
          BY <2>5, <3>1, FrontendKey
        <5>. QED BY <2>3, <2>4, <5>1 DEF ListenerKeys
      <4>. QED BY <2>1, <4>1 DEF Override
    <3>2. CASE fe \notin upserted
      <4>1. fe[1] \notin DOMAIN updated /\ fe[1] \in DOMAIN owned /\ fe \in owned[fe[1]]
        BY <2>16, <3>2 DEF FrontendsInv
      <4>. QED BY <2>1, <4>1 DEF Override
    <3>. QED BY <3>1, <3>2
  <2>22. \A g \in DOMAIN owned' : \A fe \in owned'[g] : fe[1] = g
    <3>1. \A g \in DOMAIN updated : \A fe \in updated[g] : fe[1] = g
      BY <2>4 DEF ListenerKeys
    <3>. QED BY <2>1, <3>1 DEF Override, FrontendsInv
  <2>23. FrontendKeys(tree)' = FrontendKeys(t)
    BY DEF FrontendKeys, Valid, LiveGateways, ManagedGateways, t
  <2>. QED BY <2>1, <2>20, <2>21, <2>22, <2>23 DEF FrontendsInv, t
<1>. QED BY <1>1, <1>2 DEF FrontendsNext, Input, Change, Reconcile, servingVars, gateVars, treeVars

ListenersInv == InputsSound /\ TreeShape /\ GatewaysInv

LEMMA ListenersInvHolds == FrontendsSpec => []ListenersInv
<1>1. FrontendsInit => GatewaysInv
  <2> SUFFICES ASSUME FrontendsInit PROVE GatewaysInv
      OBVIOUS
  <2>1. tree.gateways = <<>>
    BY DEF FrontendsInit, GateInit, EmptyTree
  <2>. QED BY <2>1 DEF GatewaysInv, SoundGateways, NoSharedPort
<1>2. ServingInv /\ GatewaysInv /\ [FrontendsNext]_servingVars => GatewaysInv'
  BY GatewaysStep DEF ServingInv
<1>3. ServingInv /\ GatewaysInv => ListenersInv
  BY DEF ServingInv, ListenersInv
<1>. QED BY <1>1, <1>2, <1>3, ServingInvHolds, PTL DEF FrontendsSpec

LEMMA FrontendsInvHolds == ASSUME NoNamesakes PROVE FrontendsSpec => [](ListenersInv /\ FrontendsInv)
<1>1. FrontendsInit => FrontendsInv
  <2> SUFFICES ASSUME FrontendsInit PROVE FrontendsInv
      OBVIOUS
  <2>1. tree.gateways = <<>> /\ owned = <<>> /\ firstSync = TRUE
    BY DEF FrontendsInit, GateInit, EmptyTree
  <2>. QED BY <2>1 DEF FrontendsInv
<1>2. ListenersInv /\ FrontendsInv /\ [FrontendsNext]_servingVars => FrontendsInv'
  BY FrontendsStep DEF ListenersInv
<1>. QED BY <1>1, <1>2, ListenersInvHolds, PTL DEF FrontendsSpec

(* The configuration has the frontends of the valid listeners, after any   *)
(* changes in any batches: processGateways upserts, deletes and cleans up  *)
(* whatever the tree builder changed, and the first sync the rest.         *)
THEOREM FrontendsAreExact == ASSUME NoNamesakes PROVE FrontendsSpec => []FrontendsExact
<1>1. FrontendsInv => FrontendsExact
  <2> SUFFICES ASSUME FrontendsInv, ~ firstSync PROVE FrontendsExact
      BY DEF FrontendsExact
  <2> DEFINE valid == {g \in LiveGateways(tree) : tree.gateways[g].valid}
             names(g) == {n \in DOMAIN tree.gateways[g].listeners : tree.gateways[g].listeners[n].valid}
             keys  == UNION {ListenerKeys(g, names(g)) : g \in valid}
  <2>1. \A g \in valid : g \in DOMAIN tree.gateways /\ Valid(tree, g) = names(g)
    BY DEF Valid, LiveGateways, ManagedGateways
  <2>2. \A g \in DOMAIN tree.gateways \ valid : Valid(tree, g) = {}
    BY DEF Valid
  <2> HIDE DEF valid, names
  <2>3. ASSUME NEW fe PROVE fe \in keys <=> fe \in FrontendKeys(tree)
    <3>1. fe \in keys <=> \E g \in valid : fe = <<g, fe[2]>> /\ fe[2] \in names(g)
      BY KeyOf
    <3>. QED BY <2>1, <2>2, <3>1, FrontendKey
  <2>4. keys = FrontendKeys(tree)
    BY <2>3
  <2>5. frontends = [fe \in keys |-> newFrontend(tree.gateways[fe[1]].spec.listeners[fe[2]])]
    BY <2>4 DEF FrontendsInv
  <2>. QED BY <2>5 DEF FrontendsExact, valid, names
<1>. QED BY <1>1, FrontendsInvHolds, PTL

(* No two frontends of the configuration bind the same port: the gateways  *)
(* that checkListenerConflicts checks again are all that a new conflict    *)
(* concerns.                                                               *)
THEOREM PortsServedOnce == ASSUME NoNamesakes PROVE FrontendsSpec => []NoPortServedTwice
<1>1. ListenersInv /\ FrontendsInv => NoPortServedTwice
  <2> SUFFICES ASSUME ListenersInv, FrontendsInv, ~ firstSync,
                      NEW fe \in DOMAIN frontends, NEW other \in DOMAIN frontends,
                      frontends[fe].bind.port = frontends[other].bind.port
               PROVE  fe = other
      BY DEF NoPortServedTwice
  <2> DEFINE Of(x) == tree.gateways[x[1]].spec.listeners[x[2]]
  <2>1. fe \in FrontendKeys(tree) /\ frontends[fe] = newFrontend(Of(fe))
    BY DEF FrontendsInv
  <2>2. other \in FrontendKeys(tree) /\ frontends[other] = newFrontend(Of(other))
    BY DEF FrontendsInv
  <2>3. \A l : newFrontend(l).bind.port = l.port
    BY DEF newFrontend, bindParams
  <2>4. Of(fe).port = Of(other).port
    BY <2>1, <2>2, <2>3
  <2>5. /\ fe = <<fe[1], fe[2]>> /\ fe[1] \in DOMAIN tree.gateways /\ fe[2] \in Valid(tree, fe[1])
        /\ other = <<other[1], other[2]>> /\ other[1] \in DOMAIN tree.gateways /\ other[2] \in Valid(tree, other[1])
    BY <2>1, <2>2, FrontendKey
  <2>6. fe[1] = other[1] /\ fe[2] = other[2]
    BY <2>4, <2>5 DEF ListenersInv, GatewaysInv, NoSharedPort
  <2>. QED BY <2>5, <2>6
<1>. QED BY <1>1, FrontendsInvHolds, PTL

-----------------------------------------------------------------------------
(* What a batch finds of a gateway's class and of one of its listeners     *)
Accepts(t, c) == c \in DOMAIN t.classes /\ t.classes[c].valid

Fine(t, l) == /\ SupportedKinds(l.protocol) # {}
              /\ checkRouteGroupKind(l) = {}
              /\ checkCertificateRefs(t, l) = {}

Passes(t, spec) == Accepts(t, spec.class) /\ CheckParamsRef(spec.params)

(* A gateway of the tree is what its spec asks for, next to listeners that *)
(* share the given ports.                                                  *)
AgreesNode(t, node, spec, ports) ==
    /\ node.managed <=> Accepts(t, spec.class)
    /\ node.managed => node.in = "managed"
    /\ node.in = "managed" /\ ~ node.managed => spec.class \notin DOMAIN t.classes
    /\ node.valid <=> Passes(t, spec) /\ \E n \in DOMAIN spec.listeners : spec.listeners[n].port \notin ports
    /\ Passes(t, spec) =>
          /\ DOMAIN node.listeners = DOMAIN spec.listeners
          /\ \A n \in DOMAIN spec.listeners :
                node.listeners[n].valid <=> Fine(t, spec.listeners[n]) /\ spec.listeners[n].port \notin ports

Agrees(t, g, spec, ports) ==
    IF g \in DOMAIN t.gateways THEN AgreesNode(t, t.gateways[g], spec, ports)
    ELSE spec.class \notin DOMAIN t.classes

Changing(params) == params \in HugGates \cap updates

ClassesFollow ==
    /\ \A c \in DOMAIN tree.classes : tree.classes[c].status = Deleted => ~ tree.classes[c].valid
    /\ \A c \in Classes \ updates : c \in DOMAIN store <=> Live(tree.classes, c)
    /\ \A c \in (Classes \cap DOMAIN store) \ (updates \cup behind) :
          ~ Changing(store[c].params) => (tree.classes[c].valid <=> CheckParamsRef(store[c].params))

GatewaysFollow ==
    \A g \in DOMAIN tree.gateways \ updates :
        IF g \in DOMAIN store THEN tree.gateways[g].spec = store[g] /\ tree.gateways[g].status # Deleted
        ELSE tree.gateways[g].status = Deleted

PortsFollow(ports) ==
    /\ \A g \in LiveGateways(tree) \ conflicting :
          \A l \in Range(tree.gateways[g].spec.listeners) : l.port \notin ports
    /\ Gateways \cap behind = {} => ports = portsWithMultipleListeners(tree)
    /\ \A g \in (Gateways \cap DOMAIN store) \ (updates \cup behind) :
          ~ Changing(store[g].params) => Agrees(tree, g, store[g], ports)

LEMMA KindsApart == /\ Classes \cap Gateways = {} /\ HugGates \cap Gateways = {}
                    /\ Secrets \cap Gateways = {} /\ Routes \cap Gateways = {} /\ Routes \cap Classes = {}
<1> DEFINE kinds == <<Classes, Gateways, HTTPRoutes, TLSRoutes, Services, Secrets, HugGates>>
<1>1. \A i, j \in 1..7 : i # j => kinds[i] \cap kinds[j] = {}
  BY KeysAssumption
<1>. QED BY <1>1 DEF Routes

(* The classes of the tree once a batch has listed them                    *)
LEMMA ListedClass ==
    ASSUME TreeShape, NEW c
    PROVE  /\ c \in DOMAIN Listed.classes => c \in Classes
           /\ c \in Classes \cap updates => (Live(Listed.classes, c) <=> c \in DOMAIN store)
           /\ c \in InStore(Classes) => (Listed.classes[c].valid <=> CheckParamsRef(store[c].params))
           /\ c \notin updates => /\ c \in DOMAIN Listed.classes <=> Live(tree.classes, c)
                                  /\ Live(Listed.classes, c) <=> Live(tree.classes, c)
           /\ c \notin updates /\ c \in DOMAIN Listed.classes => (Listed.classes[c].valid <=> tree.classes[c].valid)
           /\ c \in DOMAIN Listed.classes /\ Listed.classes[c].status = Deleted => ~ Listed.classes[c].valid
<1> USE DEF Upserted, Deleted, Untouched
<1> DEFINE kept == Cleaned(tree.classes)
           all  == Override([x \in DOMAIN kept |-> IF x \in Gone(Classes) THEN DeletedClass ELSE kept[x]],
                            [x \in InStore(Classes) |-> UpsertedClass(store[x])])
<1>1. Listed.classes = all
  BY ListedTree
<1>2. /\ c \in DOMAIN kept <=> Live(tree.classes, c)
      /\ c \in DOMAIN kept => /\ c \in Classes /\ kept[c].status = Untouched
                              /\ kept[c].valid = tree.classes[c].valid
  BY DEF Cleaned, Live, TreeShape
<1> HIDE DEF kept
<1>3. /\ c \in DOMAIN all <=> c \in DOMAIN kept \/ c \in InStore(Classes)
      /\ c \in InStore(Classes) => all[c] = UpsertedClass(store[c])
      /\ c \in DOMAIN kept /\ c \notin InStore(Classes) =>
            all[c] = IF c \in Gone(Classes) THEN DeletedClass ELSE kept[c]
  BY DEF Override
<1>4. UpsertedClass(store[c]).status = Upserted
      /\ UpsertedClass(store[c]).valid = CheckParamsRef(store[c].params)
      /\ DeletedClass.status = Deleted /\ DeletedClass.valid = FALSE
  BY DEF UpsertedClass, DeletedClass
<1> HIDE DEF all
<1>5. CASE c \in InStore(Classes)
  <2>1. all[c].status = Upserted /\ all[c].valid = CheckParamsRef(store[c].params) /\ c \in DOMAIN all
    BY <1>3, <1>4, <1>5
  <2>. QED BY <1>1, <1>5, <2>1 DEF InStore, Live
<1>6. CASE c \in Gone(Classes)
  <2>1. c \notin InStore(Classes) /\ (c \in DOMAIN all => all[c].status = Deleted /\ all[c].valid = FALSE)
    BY <1>3, <1>4, <1>6 DEF Gone, InStore
  <2>. QED BY <1>1, <1>6, <2>1 DEF Gone, Live
<1>7. CASE c \notin Classes \cap updates
  <2>1. c \notin InStore(Classes) /\ c \notin Gone(Classes)
    BY <1>7 DEF Gone, InStore
  <2>2. (c \in DOMAIN all <=> c \in DOMAIN kept) /\ (c \in DOMAIN kept => all[c] = kept[c])
    BY <1>3, <2>1
  <2>. QED BY <1>1, <1>2, <1>7, <2>1, <2>2 DEF Live
<1>. QED BY <1>5, <1>6, <1>7 DEF Gone, InStore

(* The ports that two listeners of live gateways have in common            *)
LEMMA PortShared ==
    ASSUME NEW t, NEW port
    PROVE  port \in portsWithMultipleListeners(t) <=>
             \E g, h \in LiveGateways(t) :
                 \E n \in DOMAIN t.gateways[g].spec.listeners, m \in DOMAIN t.gateways[h].spec.listeners :
                     /\ <<g, n>> # <<h, m>>
                     /\ t.gateways[g].spec.listeners[n].port = port
                     /\ t.gateways[h].spec.listeners[m].port = port
<1> DEFINE names(g) == DOMAIN t.gateways[g].spec.listeners
           at(g, n) == t.gateways[g].spec.listeners[n].port
           all == UNION {{g} \X names(g) : g \in LiveGateways(t)}
<1>1. ASSUME NEW gl
      PROVE  gl \in listenersByPort(t, port) <=>
               \E g \in LiveGateways(t) : \E n \in names(g) : gl = <<g, n>> /\ at(g, n) = port
  <2>1. gl \in all <=> \E g \in LiveGateways(t) : \E n \in names(g) : gl = <<g, n>>
    <3>1. gl \in all <=> \E g \in LiveGateways(t) : gl \in {g} \X names(g)
      OBVIOUS
    <3>2. \A g : gl \in {g} \X names(g) <=> \E n \in names(g) : gl = <<g, n>>
      OBVIOUS
    <3>. QED BY <3>1, <3>2
  <2>2. gl \in listenersByPort(t, port) <=> gl \in all /\ at(gl[1], gl[2]) = port
    BY DEF listenersByPort
  <2> HIDE DEF all, names, at
  <2>. QED BY <2>1, <2>2
<1>2. port \in portsWithMultipleListeners(t) <=>
        \E one, other \in listenersByPort(t, port) : one # other
  <2>1. ASSUME NEW one \in listenersByPort(t, port)
        PROVE  port \in UNION {{l.port : l \in Range(t.gateways[g].spec.listeners)} : g \in LiveGateways(t)}
    <3>1. PICK g, n : g \in LiveGateways(t) /\ n \in names(g) /\ at(g, n) = port
      BY <1>1
    <3>2. t.gateways[g].spec.listeners[n] \in Range(t.gateways[g].spec.listeners)
      BY <3>1 DEF Range
    <3>3. port \in {l.port : l \in Range(t.gateways[g].spec.listeners)}
      BY <3>1, <3>2
    <3>. QED BY <3>1, <3>3
  <2>. QED BY <2>1 DEF portsWithMultipleListeners
<1> HIDE DEF names, at
<1>3. (\E one, other \in listenersByPort(t, port) : one # other) <=>
        \E g, h \in LiveGateways(t) : \E n \in names(g), m \in names(h) :
            <<g, n>> # <<h, m>> /\ at(g, n) = port /\ at(h, m) = port
  <2>1. ASSUME NEW one \in listenersByPort(t, port), NEW other \in listenersByPort(t, port), one # other
        PROVE  \E g, h \in LiveGateways(t) : \E n \in names(g), m \in names(h) :
                  <<g, n>> # <<h, m>> /\ at(g, n) = port /\ at(h, m) = port
    <3>1. PICK g, n : g \in LiveGateways(t) /\ n \in names(g) /\ one = <<g, n>> /\ at(g, n) = port
      BY <1>1
    <3>2. PICK h, m : h \in LiveGateways(t) /\ m \in names(h) /\ other = <<h, m>> /\ at(h, m) = port
      BY <1>1
    <3>. QED BY <2>1, <3>1, <3>2
  <2>2. ASSUME NEW g \in LiveGateways(t), NEW h \in LiveGateways(t), NEW n \in names(g), NEW m \in names(h),
               <<g, n>> # <<h, m>>, at(g, n) = port, at(h, m) = port
        PROVE  \E one, other \in listenersByPort(t, port) : one # other
    <3>1. <<g, n>> \in listenersByPort(t, port) /\ <<h, m>> \in listenersByPort(t, port)
      BY <1>1, <2>2
    <3>. QED BY <2>2, <3>1
  <2>. QED BY <2>1, <2>2
<1>. QED BY <1>2, <1>3 DEF names, at

(* Trees with the same live gateways have the same conflicts.              *)
LEMMA SamePorts ==
    ASSUME NEW t, NEW u, LiveGateways(u) = LiveGateways(t),
           \A g \in LiveGateways(t) : u.gateways[g].spec = t.gateways[g].spec
    PROVE  portsWithMultipleListeners(u) = portsWithMultipleListeners(t)
<1>1. \A port : port \in portsWithMultipleListeners(u) <=> port \in portsWithMultipleListeners(t)
  BY PortShared
<1>. QED BY <1>1 DEF portsWithMultipleListeners

LEMMA KeptAgrees ==
    ASSUME NEW t, NEW u, GatewaysKept(t, u), NEW g \in DOMAIN u.gateways, NEW spec, NEW ports,
           AgreesNode(t, t.gateways[g], spec, ports)
    PROVE  AgreesNode(u, u.gateways[g], spec, ports)
<1>1. u.secrets = t.secrets /\ u.classes = t.classes /\ SameGateway(t.gateways[g], u.gateways[g])
  BY DEF GatewaysKept
<1>2. \A l : Fine(u, l) <=> Fine(t, l)
  BY <1>1 DEF Fine, checkCertificateRefs, Live
<1>3. Passes(u, spec) <=> Passes(t, spec)
  BY <1>1 DEF Passes, Accepts
<1>4. Accepts(u, spec.class) <=> Accepts(t, spec.class)
  BY <1>1 DEF Accepts
<1> USE DEF AgreesNode, SameGateway, SameListeners
<1>5. u.gateways[g].managed <=> Accepts(u, spec.class)
  BY <1>1, <1>4
<1>6. u.gateways[g].managed => u.gateways[g].in = "managed"
  BY <1>1
<1>7. u.gateways[g].in = "managed" /\ ~ u.gateways[g].managed => spec.class \notin DOMAIN u.classes
  BY <1>1
<1>8. u.gateways[g].valid <=> Passes(u, spec) /\ \E n \in DOMAIN spec.listeners : spec.listeners[n].port \notin ports
  BY <1>1, <1>3
<1>9. Passes(u, spec) => DOMAIN u.gateways[g].listeners = DOMAIN spec.listeners
  BY <1>1, <1>3
<1>10. Passes(u, spec) => \A n \in DOMAIN spec.listeners :
          u.gateways[g].listeners[n].valid <=> Fine(u, spec.listeners[n]) /\ spec.listeners[n].port \notin ports
  BY <1>1, <1>2, <1>3
<1>. QED BY <1>5, <1>6, <1>7, <1>8, <1>9, <1>10

(* What a gateway gets whose checks the batch has run                      *)
LEMMA FreshAgrees ==
    ASSUME TreeShape, InputsSound, NEW g \in Gateways \cap DOMAIN store, g \in DOMAIN CheckedTree.gateways,
           NEW t, t.classes = Listed.classes,
           CheckedTree.gateways[g] = processManagementChecks(t, g, store[g])
    PROVE  AgreesNode(WithGateways, WithGateways.gateways[g], store[g],
                      portsWithMultipleListeners(BeforeConflicts))
<1> DEFINE spec == store[g]
           U == BeforeConflicts
           W == WithGateways
           ports == portsWithMultipleListeners(U)
           node == CheckedTree.gateways[g]
           last == W.gateways[g]
           accepts == Accepts(W, spec.class)
<1>1. W.classes = Listed.classes /\ W.secrets = U.secrets
  BY GatewaysTree, UpdatedTree
<1>2. /\ DOMAIN node = NodeFields /\ node.status = Upserted /\ node.spec = spec /\ node.listeners = <<>>
      /\ spec.class \notin DOMAIN W.classes => node.managed = FALSE /\ node.valid = FALSE
      /\ spec.class \in DOMAIN W.classes =>
            /\ node.in = IF W.classes[spec.class].valid THEN "managed" ELSE "unmanaged"
            /\ node.managed = W.classes[spec.class].valid
            /\ node.valid = (W.classes[spec.class].valid /\ CheckParamsRef(spec.params))
  <2>1. node = processManagementChecks(t, g, store[g]) /\ W.classes = t.classes
    BY <1>1
  <2> DEFINE checked == processManagementChecks(t, g, spec)
  <2>2. /\ DOMAIN checked = NodeFields /\ checked.status = Upserted /\ checked.spec = spec /\ checked.listeners = <<>>
        /\ spec.class \notin DOMAIN t.classes => checked.managed = FALSE /\ checked.valid = FALSE
        /\ spec.class \in DOMAIN t.classes =>
              /\ checked.in = IF t.classes[spec.class].valid THEN "managed" ELSE "unmanaged"
              /\ checked.managed = t.classes[spec.class].valid
              /\ checked.valid = (t.classes[spec.class].valid /\ CheckParamsRef(spec.params))
    <3>1. CASE spec.class \notin DOMAIN t.classes
      BY <3>1 DEF processManagementChecks, Reset, NodeFields
    <3>2. CASE spec.class \in DOMAIN t.classes
      BY <3>2 DEF processManagementChecks, NodeFields, checkGatewayClassIsValid, checkParametersRef
    <3>. QED BY <3>1, <3>2
  <2>3. node = checked
    BY <2>1
  <2> HIDE DEF checked, node, spec, W
  <2>. QED BY <2>1, <2>2, <2>3
<1>3. (node.managed <=> accepts) /\ (node.valid <=> Passes(W, spec)) /\ (accepts => node.in = "managed")
  BY <1>2 DEF Accepts, Passes
<1>4. g \in ProcessedGateways <=> accepts
  BY <1>2, <1>3 DEF ProcessedGateways, ManagedGateways
<1>5. \A l : Fine(W, l) <=> Fine(U, l)
  BY <1>1 DEF Fine, checkCertificateRefs, Live
<1>6. CASE accepts
  <2> DEFINE built(n) == buildListener(U, node, spec.listeners[n], ports)
  <2>1. last = buildListeners(U, node, ports)
    BY <1>4, <1>6, BuiltGateway
  <2>2. /\ last.in = node.in /\ last.managed = node.managed
        /\ last.listeners = [n \in DOMAIN spec.listeners |-> built(n)]
        /\ last.valid = (node.valid /\ checkListenerConflicts([n \in DOMAIN spec.listeners |-> built(n)], ports))
    <3> HIDE DEF node
    <3>. QED BY <1>2, <2>1 DEF buildListeners
  <2>3. \A n : /\ built(n).spec = spec.listeners[n]
               /\ built(n).reasons = ListenerConditions(U, node, spec.listeners[n], ports)
               /\ built(n).valid <=> built(n).reasons = {}
    BY DEF buildListener
  <2>4. node.valid => \A n : /\ built(n).valid <=> Fine(U, spec.listeners[n]) /\ spec.listeners[n].port \notin ports
                             /\ "Conflicted" \in built(n).reasons <=> spec.listeners[n].port \in ports
    <3> HIDE DEF built, node, spec, ports, U
    <3> SUFFICES ASSUME node.valid, NEW n
                 PROVE  /\ built(n).valid <=> Fine(U, spec.listeners[n]) /\ spec.listeners[n].port \notin ports
                        /\ "Conflicted" \in built(n).reasons <=> spec.listeners[n].port \in ports
        OBVIOUS
    <3> DEFINE l == spec.listeners[n]
    <3>1. built(n).reasons = checkProtocol(l) \cup checkRouteGroupKind(l) \cup checkCertificateRefs(U, l)
                               \cup checkConflict(l, ports)
      BY <2>3 DEF ListenerConditions
    <3>2. checkProtocol(l) = {} <=> SupportedKinds(l.protocol) # {}
      BY DEF checkProtocol
    <3>3. checkConflict(l, ports) = {} <=> l.port \notin ports
      BY DEF checkConflict
    <3>4. "Conflicted" \notin checkProtocol(l) \cup checkRouteGroupKind(l) \cup checkCertificateRefs(U, l)
      BY DEF checkProtocol, checkRouteGroupKind, checkCertificateRefs
    <3>5. "Conflicted" \in checkConflict(l, ports) <=> l.port \in ports
      BY DEF checkConflict
    <3> HIDE DEF l
    <3>6. built(n).valid <=> Fine(U, l) /\ l.port \notin ports
      BY <2>3, <3>1, <3>2, <3>3 DEF Fine
    <3>7. "Conflicted" \in built(n).reasons <=> l.port \in ports
      BY <3>1, <3>4, <3>5
    <3>. QED BY <3>6, <3>7 DEF l
  <2>5. last.valid <=> Passes(W, spec) /\ \E n \in DOMAIN spec.listeners : spec.listeners[n].port \notin ports
    <3>1. DOMAIN spec.listeners # {}
      BY SpecsAssumption DEF InputsSound
    <3> DEFINE ls == [n \in DOMAIN spec.listeners |-> built(n)]
    <3>2. Range(ls) = {built(n) : n \in DOMAIN spec.listeners}
      BY DEF Range
    <3>3. ASSUME node.valid
          PROVE  checkListenerConflicts(ls, ports)
                   <=> \E n \in DOMAIN spec.listeners : spec.listeners[n].port \notin ports
      <4> HIDE DEF built, node, spec, ports, U
      <4>1. checkListenerConflicts(ls, ports) <=>
              ((\E n \in DOMAIN spec.listeners : "Conflicted" \in built(n).reasons)
                  => \E n \in DOMAIN spec.listeners : built(n).spec.port \notin ports)
        BY <3>2 DEF checkListenerConflicts
      <4>. QED BY <2>3, <2>4, <3>1, <3>3, <4>1
    <3>. QED BY <1>3, <2>2, <3>3
  <2>6. Passes(W, spec) =>
          /\ DOMAIN last.listeners = DOMAIN spec.listeners
          /\ \A n \in DOMAIN spec.listeners :
                last.listeners[n].valid <=> Fine(W, spec.listeners[n]) /\ spec.listeners[n].port \notin ports
    BY <1>3, <1>5, <2>2, <2>4
  <2>7. (last.managed <=> accepts) /\ last.in = "managed" /\ last.managed
    BY <1>3, <1>6, <2>2
  <2> HIDE DEF last, spec, ports, W
  <2>. QED BY <1>6, <2>5, <2>6, <2>7 DEF AgreesNode, last, spec, ports, W
<1>7. CASE ~ accepts
  <2>1. last = node
    BY <1>4, <1>7, BuiltGateway
  <2>2. ~ Passes(W, spec) /\ ~ last.valid /\ ~ last.managed
    BY <1>3, <1>7, <2>1 DEF Passes
  <2>3. last.in = "managed" => spec.class \notin DOMAIN W.classes
    BY <1>2, <1>7, <2>1 DEF Accepts
  <2> HIDE DEF last, spec, ports, W
  <2>. QED BY <1>7, <2>2, <2>3 DEF AgreesNode, last, spec, ports, W
<1>. QED BY <1>6, <1>7

(* A gateway that a batch has no part in, and nothing it depends on, keeps *)
(* what it was: a conflict of its ports, old or new, would have had it     *)
(* checked.                                                                *)
LEMMA UntouchedAgrees ==
    ASSUME InputsSound, TreeShape, ClassesFollow, GatewaysFollow, NEW old, PortsFollow(old), Batch,
           NEW g \in (Gateways \cap DOMAIN store) \ (updates \cup behind \cup Rechecked(BeforeConflicts)),
           Dependencies(g) \cap (updates \ Gateways) = {}
    PROVE  Agrees(WithGateways, g, store[g], portsWithMultipleListeners(BeforeConflicts))
<1> USE DEF Upserted, Deleted, Untouched
<1> DEFINE spec == store[g]
           U == BeforeConflicts
           W == WithGateways
           ports == portsWithMultipleListeners(U)
<1>1. /\ spec.class \notin Classes \cap updates
      /\ ~ Changing(spec.params)
      /\ \A n \in DOMAIN spec.listeners : spec.listeners[n].certs \cap (Secrets \cap updates) = {}
  <2>1. Dependencies(g) = {spec.class, spec.params} \cup UNION {l.certs : l \in Range(spec.listeners)}
    <3>1. g \notin Classes /\ g \notin Routes
      BY KindsApart
    <3>. QED BY <3>1 DEF Dependencies
  <2>2. Classes \cap Gateways = {} /\ HugGates \cap Gateways = {} /\ Secrets \cap Gateways = {}
    BY KindsApart
  <2>3. ASSUME NEW n \in DOMAIN spec.listeners, NEW s \in spec.listeners[n].certs PROVE s \in Dependencies(g)
    <3>1. spec.listeners[n] \in Range(spec.listeners)
      BY DEF Range
    <3>. QED BY <2>1, <3>1
  <2>. QED BY <2>1, <2>2, <2>3 DEF Changing
<1>2. Agrees(tree, g, spec, old)
  BY <1>1 DEF PortsFollow
<1>3. W.classes = Listed.classes /\ W.secrets = tree'.secrets
  BY GatewaysTree, BatchTree DEF GatewaysKept
<1>4. Accepts(W, spec.class) <=> Accepts(tree, spec.class)
  <2>1. CASE spec.class \in Classes
    BY <1>1, <1>3, <2>1, ListedClass DEF Accepts, ClassesFollow, Live
  <2>2. CASE spec.class \notin Classes
    BY <1>3, <2>2, ListedClass DEF Accepts, TreeShape
  <2>. QED BY <2>1, <2>2
<1>5. spec.class \notin DOMAIN tree.classes => spec.class \notin DOMAIN W.classes
  BY <1>1, <1>3, ListedClass DEF Live
<1>6. Passes(W, spec) <=> Passes(tree, spec)
  BY <1>4 DEF Passes
<1>7. \A n \in DOMAIN spec.listeners : Fine(W, spec.listeners[n]) <=> Fine(tree, spec.listeners[n])
  <2> SUFFICES ASSUME NEW n \in DOMAIN spec.listeners
               PROVE  \A s \in spec.listeners[n].certs : Live(W.secrets, s) <=> Live(tree.secrets, s)
      BY DEF Fine, checkCertificateRefs
  <2> SUFFICES ASSUME NEW s \in spec.listeners[n].certs PROVE Live(W.secrets, s) <=> Live(tree.secrets, s)
      OBVIOUS
  <2>1. s \notin Secrets \cap updates
    BY <1>1
  <2>2. s \in LiveSecrets(tree') <=> s \in LiveSecrets(tree)
    BY <2>1, BatchSecrets
  <2>. QED BY <1>3, <2>2 DEF LiveSecrets, Live
<1>8. CASE g \notin DOMAIN tree.gateways
  <2>1. spec.class \notin DOMAIN W.classes
    BY <1>2, <1>5, <1>8 DEF Agrees
  <2>2. g \notin DOMAIN W.gateways
    BY <1>8, BuiltGateway, RecheckedGateway, UpdatedGateway, CleanedGateway DEF InStore
  <2>. QED BY <2>1, <2>2 DEF Agrees
<1>9. CASE g \in DOMAIN tree.gateways
  <2> DEFINE node == tree.gateways[g]
             last == W.gateways[g]
  <2>1. node.spec = spec /\ node.status # Deleted
    BY <1>9 DEF GatewaysFollow
  <2>2. g \in DOMAIN U.gateways /\ U.gateways[g] = Listed.gateways[g]
    BY <1>9, <2>1, CleanedGateway, UpdatedGateway
  <2>3. /\ U.gateways[g].status = Untouched /\ U.gateways[g].in = node.in /\ U.gateways[g].spec = spec
        /\ U.gateways[g].managed = node.managed /\ U.gateways[g].valid = node.valid
        /\ U.gateways[g].listeners = node.listeners
    BY <1>9, <2>1, <2>2, CleanedGateway
  <2>4. g \in DOMAIN W.gateways /\ last = U.gateways[g]
    <3>1. g \in DOMAIN CheckedTree.gateways /\ CheckedTree.gateways[g] = U.gateways[g]
      BY <2>2, RecheckedGateway
    <3>2. g \notin ProcessedGateways
      BY <2>3, <3>1 DEF ProcessedGateways
    <3>. QED BY <3>1, <3>2, BuiltGateway
  <2>5. AgreesNode(tree, node, spec, old)
    BY <1>2, <1>9 DEF Agrees
  <2>6. Passes(W, spec) => \A n \in DOMAIN spec.listeners :
          spec.listeners[n].port \notin old /\ spec.listeners[n].port \notin ports
    <3> SUFFICES ASSUME Passes(W, spec), NEW n \in DOMAIN spec.listeners
                 PROVE  spec.listeners[n].port \notin old /\ spec.listeners[n].port \notin ports
        OBVIOUS
    <3>1. node.in = "managed"
      BY <1>6, <2>5 DEF AgreesNode, Passes
    <3>2. g \in LiveGateways(tree) /\ g \in LiveGateways(U)
      BY <1>9, <2>1, <2>2, <2>3, <3>1 DEF LiveGateways, ManagedGateways
    <3>3. g \notin conflicting /\ g \notin gatewaysWithPortConflicts(U)
      BY <2>3, <3>2 DEF Rechecked, LiveGateways
    <3>4. spec.listeners[n] \in Range(spec.listeners)
      BY DEF Range
    <3>5. spec.listeners[n].port \notin old
      BY <2>1, <3>2, <3>3, <3>4 DEF PortsFollow
    <3>6. spec.listeners[n].port \notin ports
      BY <2>3, <3>2, <3>3, <3>4 DEF gatewaysWithPortConflicts
    <3>. QED BY <3>5, <3>6
  <2> HIDE DEF node, last, spec, ports, W
  <2>7. (last.managed <=> Accepts(W, spec.class)) /\ (last.managed => last.in = "managed")
    BY <1>4, <2>3, <2>4, <2>5 DEF AgreesNode
  <2>8. last.in = "managed" /\ ~ last.managed => spec.class \notin DOMAIN W.classes
    BY <1>5, <2>3, <2>4, <2>5 DEF AgreesNode
  <2>9. last.valid <=> Passes(W, spec) /\ \E n \in DOMAIN spec.listeners : spec.listeners[n].port \notin ports
    BY <1>6, <2>3, <2>4, <2>5, <2>6 DEF AgreesNode
  <2>10. Passes(W, spec) =>
          /\ DOMAIN last.listeners = DOMAIN spec.listeners
          /\ \A n \in DOMAIN spec.listeners :
                last.listeners[n].valid <=> Fine(W, spec.listeners[n]) /\ spec.listeners[n].port \notin ports
    BY <1>6, <1>7, <2>3, <2>4, <2>5, <2>6 DEF AgreesNode
  <2>11. AgreesNode(W, last, spec, ports)
    BY <2>7, <2>8, <2>9, <2>10 DEF AgreesNode
  <2>. QED BY <2>4, <2>11 DEF Agrees, last, spec, ports, W
<1>. QED BY <1>8, <1>9

(* Building its listeners leaves a gateway where it is.                    *)
LEMMA BuiltKeeps ==
    ASSUME TreeShape, NEW g \in DOMAIN WithGateways.gateways
    PROVE  /\ WithGateways.gateways[g].spec = CheckedTree.gateways[g].spec
           /\ WithGateways.gateways[g].status = CheckedTree.gateways[g].status
           /\ WithGateways.gateways[g].in = CheckedTree.gateways[g].in
<1>1. g \in DOMAIN CheckedTree.gateways
  BY BuiltGateway
<1>2. CASE g \in ProcessedGateways
  <2> DEFINE ports == portsWithMultipleListeners(BeforeConflicts)
             built == buildListeners(BeforeConflicts, CheckedTree.gateways[g], ports)
  <2>1. WithGateways.gateways[g] = built
    BY <1>2, BuiltGateway
  <2>2. /\ built.spec = CheckedTree.gateways[g].spec
        /\ built.status = CheckedTree.gateways[g].status
        /\ built.in = CheckedTree.gateways[g].in
    BY DEF buildListeners
  <2> HIDE DEF built
  <2>. QED BY <2>1, <2>2
<1>3. CASE g \notin ProcessedGateways
  BY <1>1, <1>3, BuiltGateway
<1>. QED BY <1>2, <1>3

(* The gateways a batch leaves in the tree are those of the store.         *)
LEMMA BatchGateway ==
    ASSUME InputsSound, TreeShape, SoundGateways(tree), GatewaysFollow, NEW g \in DOMAIN WithGateways.gateways
    PROVE  /\ g \in DOMAIN BeforeConflicts.gateways
           /\ WithGateways.gateways[g].spec = BeforeConflicts.gateways[g].spec
           /\ g \in DOMAIN store => /\ WithGateways.gateways[g].spec = store[g]
                                    /\ WithGateways.gateways[g].status # Deleted
           /\ g \notin DOMAIN store => WithGateways.gateways[g].status = Deleted
           /\ g \in LiveGateways(WithGateways) => g \in LiveGateways(BeforeConflicts)
           /\ g \in LiveGateways(BeforeConflicts) \ Rechecked(BeforeConflicts) => g \in LiveGateways(WithGateways)
<1> USE DEF Upserted, Deleted, Untouched
<1> DEFINE U == BeforeConflicts
           node == CheckedTree.gateways[g]
           last == WithGateways.gateways[g]
<1>1. g \in DOMAIN CheckedTree.gateways /\ g \in DOMAIN U.gateways
  BY BuiltGateway, RecheckedGateway
<1>2. g \in Gateways /\ node.spec = U.gateways[g].spec
  BY <1>1, StageChecked
<1>3. last.spec = node.spec /\ last.status = node.status /\ last.in = node.in
  BY BuiltKeeps
<1>4. g \notin Rechecked(U) => node = U.gateways[g]
  BY <1>1, RecheckedGateway
<1>5. g \in Rechecked(U) => node.status = Upserted /\ U.gateways[g].status = Untouched /\ g \in LiveGateways(U)
  <2>1. ASSUME g \in Rechecked(U) PROVE node.status = Upserted
    <3> DEFINE checked == processManagementChecks(U, g, U.gateways[g].spec)
    <3>1. checked.status = Upserted
      BY CheckedValid
    <3>2. node = checked
      BY <2>1, RecheckedGateway
    <3> HIDE DEF checked
    <3>. QED BY <3>1, <3>2
  <2>. QED BY <2>1 DEF Rechecked, LiveGateways
<1>6. g \in LiveGateways(WithGateways) => g \in LiveGateways(U)
  BY <1>1, <1>3, <1>4, <1>5 DEF LiveGateways, ManagedGateways
<1>7. g \in LiveGateways(U) \ Rechecked(U) => g \in LiveGateways(WithGateways)
  BY <1>1, <1>3, <1>4 DEF LiveGateways, ManagedGateways
<1>8. /\ g \in DOMAIN store => U.gateways[g].spec = store[g] /\ U.gateways[g].status # Deleted
      /\ g \notin DOMAIN store => U.gateways[g].status = Deleted
  <2>1. CASE g \in InStore(Gateways)
    <3> DEFINE checked == processManagementChecks(Listed, g, store[g])
    <3>1. checked.spec = store[g] /\ checked.status = Upserted
      BY CheckedValid
    <3>2. U.gateways[g] = checked
      BY <1>1, <2>1, UpdatedGateway
    <3> HIDE DEF checked
    <3>. QED BY <2>1, <3>1, <3>2 DEF InStore
  <2>2. CASE g \in Gone(Gateways)
    <3>1. g \in DOMAIN Listed.gateways
      BY <1>1, <2>2, UpdatedGateway DEF InStore, Gone
    <3>. QED BY <2>2, <3>1, UpdatedGateway DEF Gone
  <2>3. CASE g \notin updates
    <3>1. g \in DOMAIN Listed.gateways /\ U.gateways[g] = Listed.gateways[g]
      BY <1>1, <2>3, UpdatedGateway DEF InStore
    <3>. QED BY <2>3, <3>1, CleanedGateway DEF GatewaysFollow
  <2>. QED BY <1>2, <2>1, <2>2, <2>3 DEF InStore, Gone
<1>9. g \in DOMAIN store => last.spec = store[g] /\ last.status # Deleted
  BY <1>2, <1>3, <1>4, <1>5, <1>8
<1>10. g \notin DOMAIN store => last.status = Deleted
  BY <1>2, <1>3, <1>4, <1>5, <1>8
<1>. QED BY <1>1, <1>2, <1>3, <1>6, <1>7, <1>9, <1>10

(* A gateway that leaves the managed tree after the conflicts were looked  *)
(* for had no part in the batch that changed its class.                    *)
LEMMA LeaverIsBehind ==
    ASSUME InputsSound, TreeShape, SoundGateways(tree), ClassesFollow, GatewaysFollow,
           NEW old, PortsFollow(old), Batch,
           NEW g \in Rechecked(BeforeConflicts), g \notin LiveGateways(tree'),
           g \in DOMAIN WithGateways.gateways, g \notin LiveGateways(WithGateways)
    PROVE  g \in Gateways \cap Missed(tree')
<1> USE DEF Upserted, Deleted, Untouched
<1> DEFINE U == BeforeConflicts
           spec == store[g]
           node == CheckedTree.gateways[g]
           last == WithGateways.gateways[g]
<1>1. g \in DOMAIN U.gateways /\ U.gateways[g].status = Untouched /\ U.gateways[g].in = "managed"
  BY DEF Rechecked, ManagedGateways
<1>2. g \notin updates /\ g \in DOMAIN Listed.gateways /\ U.gateways[g] = Listed.gateways[g] /\ g \in Gateways
  <2>1. g \in Gateways
    BY <1>1, StageBefore
  <2>2. g \notin InStore(Gateways)
    <3> DEFINE checked == processManagementChecks(Listed, g, store[g])
    <3>1. checked.status = Upserted
      BY CheckedValid
    <3>2. g \in InStore(Gateways) => U.gateways[g] = checked
      BY <1>1, UpdatedGateway
    <3> HIDE DEF checked
    <3>. QED BY <1>1, <3>1, <3>2
  <2>3. g \in DOMAIN Listed.gateways
    BY <1>1, <2>2, UpdatedGateway
  <2>4. g \notin Gone(Gateways)
    BY <1>1, <2>3, UpdatedGateway
  <2>. QED BY <2>1, <2>2, <2>3, <2>4, UpdatedGateway DEF InStore, Gone
<1>3. /\ g \in DOMAIN tree.gateways /\ tree.gateways[g].status # Deleted /\ tree.gateways[g].in = "managed"
      /\ U.gateways[g].spec = tree.gateways[g].spec
  BY <1>1, <1>2, CleanedGateway
<1>4. g \in DOMAIN store /\ U.gateways[g].spec = spec
  BY <1>2, <1>3 DEF GatewaysFollow
<1>5. spec.class \in DOMAIN Listed.classes /\ ~ Listed.classes[spec.class].valid
  <2> DEFINE checked == processManagementChecks(U, g, spec)
  <2>1. node = checked
    BY <1>4, RecheckedGateway
  <2>2. U.classes = Listed.classes
    BY UpdatedTree
  <2>3. checked.status = Upserted
    BY CheckedValid
  <2>4. spec.class \notin DOMAIN U.classes => checked.in = "managed"
    BY <1>1 DEF processManagementChecks, Reset
  <2>5. spec.class \in DOMAIN U.classes /\ U.classes[spec.class].valid => checked.in = "managed"
    BY DEF processManagementChecks, checkGatewayClassIsValid
  <2>6. last.in = node.in /\ last.status = node.status
    BY BuiltKeeps
  <2>7. checked.in # "managed"
    BY <2>1, <2>3, <2>6 DEF LiveGateways, ManagedGateways
  <2>. QED BY <2>2, <2>4, <2>5, <2>7
<1>6. SUFFICES ASSUME g \notin behind, Dependencies(g) \cap (updates \ Gateways) = {} PROVE FALSE
  BY <1>2, <1>4 DEF Missed
<1>7. spec.class \notin updates /\ ~ Changing(spec.params)
  <2>1. Dependencies(g) = {spec.class, spec.params} \cup UNION {l.certs : l \in Range(spec.listeners)}
    <3>1. g \notin Classes /\ g \notin Routes
      BY <1>2, KindsApart
    <3>. QED BY <1>2, <3>1 DEF Dependencies
  <2>2. spec.class \in Classes
    BY <1>5, ListedClass
  <2>. QED BY <1>6, <2>1, <2>2, KindsApart DEF Changing
<1>8. AgreesNode(tree, tree.gateways[g], spec, old)
  BY <1>2, <1>3, <1>4, <1>6, <1>7 DEF PortsFollow, Agrees
<1>9. spec.class \in DOMAIN tree.classes /\ ~ tree.classes[spec.class].valid
  BY <1>5, <1>7, ListedClass DEF Live
<1>. QED BY <1>3, <1>8, <1>9 DEF AgreesNode, Accepts

(* Between a batch and the next the tree knows the classes and gateways    *)
(* that have not changed since, and some ports were found to be shared.    *)
CurrentInv == ClassesFollow /\ GatewaysFollow /\ \E ports : PortsFollow(ports)

LEMMA CurrentReconcile ==
    ASSUME CurrentInv, NEW k \in Keys, Reconcile(k)
    PROVE  CurrentInv'
<1>1. tree' = tree /\ conflicting' = conflicting /\ behind' = behind /\ updates' = updates \cup {k}
  BY DEF Reconcile, treeVars
<1>2. \A x : x # k => (x \in DOMAIN store' <=> x \in DOMAIN store) /\ (x \in DOMAIN store => store'[x] = store[x])
  BY DEF Reconcile, Override, Without
<1>3. \A params : ~ Changing(params)' => /\ ~ Changing(params)
                                         /\ CheckParamsRef(params)' <=> CheckParamsRef(params)
  BY <1>1, <1>2 DEF Changing, CheckParamsRef
<1>4. ClassesFollow'
  <2>1. ASSUME NEW c \in Classes \ updates' PROVE c \in DOMAIN store' <=> Live(tree'.classes, c)
    BY <1>1, <1>2, <2>1 DEF CurrentInv, ClassesFollow
  <2>2. ASSUME NEW c \in (Classes \cap DOMAIN store') \ (updates' \cup behind'), ~ Changing(store[c].params)'
        PROVE  tree'.classes[c].valid <=> CheckParamsRef(store[c].params)'
    <3>1. c \in (Classes \cap DOMAIN store) \ (updates \cup behind) /\ store'[c] = store[c]
      BY <1>1, <1>2
    <3>2. ~ Changing(store[c].params) /\ (CheckParamsRef(store[c].params) <=> CheckParamsRef(store[c].params)')
      BY <1>3, <2>2, <3>1 DEF Changing, CheckParamsRef
    <3>. QED BY <1>1, <3>1, <3>2 DEF CurrentInv, ClassesFollow
  <2>3. \A c \in DOMAIN tree'.classes : tree'.classes[c].status = Deleted => ~ tree'.classes[c].valid
    BY <1>1 DEF CurrentInv, ClassesFollow
  <2>. QED BY <2>1, <2>2, <2>3 DEF ClassesFollow
<1>5. GatewaysFollow'
  BY <1>1, <1>2 DEF CurrentInv, GatewaysFollow
<1>6. ASSUME NEW ports, PortsFollow(ports) PROVE PortsFollow(ports)'
  <2>1. \A g \in LiveGateways(tree') \ conflicting' :
          \A l \in Range(tree'.gateways[g].spec.listeners) : l.port \notin ports
    BY <1>1, <1>6 DEF PortsFollow
  <2>2. Gateways \cap behind' = {} => ports = portsWithMultipleListeners(tree')
    BY <1>1, <1>6 DEF PortsFollow
  <2>3. ASSUME NEW g \in (Gateways \cap DOMAIN store') \ (updates' \cup behind'), ~ Changing(store[g].params)'
        PROVE  Agrees(tree, g, store[g], ports)'
    <3>1. g \in (Gateways \cap DOMAIN store) \ (updates \cup behind) /\ store'[g] = store[g]
      BY <1>1, <1>2
    <3>2. ~ Changing(store[g].params) /\ (CheckParamsRef(store[g].params)' <=> CheckParamsRef(store[g].params))
      BY <1>3, <2>3, <3>1 DEF Changing, CheckParamsRef
    <3>3. Agrees(tree, g, store[g], ports)
      BY <1>6, <3>1, <3>2 DEF PortsFollow
    <3>4. Passes(tree, store[g])' <=> Passes(tree, store[g])
      BY <1>1, <3>1, <3>2 DEF Passes
    <3>. QED BY <1>1, <3>1, <3>3, <3>4 DEF Agrees, AgreesNode
  <2>. QED BY <2>1, <2>2, <2>3 DEF PortsFollow
<1>. QED BY <1>4, <1>5, <1>6 DEF CurrentInv

LEMMA CurrentBatch ==
    ASSUME NoNamesakes, InputsSound, TreeShape, GatewaysInv, CurrentInv, Batch
    PROVE  CurrentInv'
<1> USE DEF Upserted, Deleted, Untouched
<1> DEFINE U == BeforeConflicts
           W == WithGateways
           ports == portsWithMultipleListeners(U)
<1>1. PICK old : PortsFollow(old)
  BY DEF CurrentInv
<1>2. ClassesFollow /\ GatewaysFollow /\ SoundGateways(tree)
  BY DEF CurrentInv, GatewaysInv
<1>3. store' = store /\ updates' = {} /\ behind' = Missed(tree') /\ conflicting' = gatewaysWithPortConflicts(U)
  BY DEF Batch
<1>4. /\ GatewaysKept(W, tree')
      /\ DOMAIN tree'.gateways = DOMAIN W.gateways
      /\ tree'.classes = Listed.classes /\ W.classes = Listed.classes
      /\ \A g \in DOMAIN tree'.gateways : SameGateway(W.gateways[g], tree'.gateways[g])
  BY BatchTree, GatewaysTree DEF GatewaysKept
<1>5. \A g : g \in LiveGateways(tree') <=> g \in LiveGateways(W)
  BY <1>4 DEF LiveGateways, ManagedGateways, SameGateway
<1>6. ClassesFollow'
  <2>1. ASSUME NEW c \in Classes PROVE c \in DOMAIN store <=> Live(tree'.classes, c)
    <3>1. CASE c \in updates
      BY <1>4, <3>1, ListedClass
    <3>2. CASE c \notin updates
      BY <1>2, <1>4, <3>2, ListedClass DEF ClassesFollow
    <3>. QED BY <3>1, <3>2
  <2>2. ASSUME NEW c \in (Classes \cap DOMAIN store) \ Missed(tree')
        PROVE  tree'.classes[c].valid <=> CheckParamsRef(store[c].params)
    <3>1. CASE c \in updates
      BY <1>4, <3>1, ListedClass DEF InStore
    <3>2. CASE c \notin updates
      <4>1. c \notin Gateways
        BY KindsApart
      <4>2. c \notin Rechecked(U)
        <5>1. \A g \in Rechecked(U) : g \in Gateways
          BY <1>2, StageBefore DEF Rechecked, ManagedGateways
        <5>. QED BY <4>1, <5>1
      <4>3. c \notin behind /\ Dependencies(c) \cap (updates \ Gateways) = {}
        BY <3>2, <4>2 DEF Missed
      <4>4. store[c].params \in Dependencies(c)
        <5>1. c \notin Routes
          BY KindsApart
        <5>. QED BY <4>1, <5>1 DEF Dependencies
      <4>5. ~ Changing(store[c].params)
        BY <4>3, <4>4, KindsApart DEF Changing
      <4>6. c \in DOMAIN tree'.classes /\ (tree'.classes[c].valid <=> tree.classes[c].valid)
        BY <1>2, <1>4, <3>2, ListedClass DEF ClassesFollow
      <4>. QED BY <1>2, <3>2, <4>3, <4>5, <4>6 DEF ClassesFollow
    <3>. QED BY <3>1, <3>2
  <2>3. \A c \in DOMAIN tree'.classes : tree'.classes[c].status = Deleted => ~ tree'.classes[c].valid
    BY <1>4, ListedClass
  <2>. QED BY <1>3, <2>1, <2>2, <2>3 DEF ClassesFollow, Live, CheckParamsRef
<1>7. GatewaysFollow'
  <2> SUFFICES ASSUME NEW g \in DOMAIN tree'.gateways
               PROVE  IF g \in DOMAIN store THEN tree'.gateways[g].spec = store[g] /\ tree'.gateways[g].status # Deleted
                      ELSE tree'.gateways[g].status = Deleted
      BY <1>3 DEF GatewaysFollow
  <2>. QED BY <1>2, <1>4, BatchGateway DEF SameGateway
<1>8. \A g \in LiveGateways(tree') : g \in LiveGateways(U) /\ tree'.gateways[g].spec = U.gateways[g].spec
  <2> SUFFICES ASSUME NEW g \in LiveGateways(tree')
               PROVE  g \in LiveGateways(U) /\ tree'.gateways[g].spec = U.gateways[g].spec
      OBVIOUS
  <2>1. g \in DOMAIN W.gateways /\ g \in LiveGateways(W)
    BY <1>4, <1>5 DEF LiveGateways, ManagedGateways
  <2>. QED BY <1>2, <1>4, <2>1, BatchGateway DEF SameGateway
<1>9. \A g \in LiveGateways(tree') \ conflicting' :
        \A l \in Range(tree'.gateways[g].spec.listeners) : l.port \notin ports
  BY <1>3, <1>8 DEF gatewaysWithPortConflicts
<1>10. Gateways \cap behind' = {} => ports = portsWithMultipleListeners(tree')
  <2> SUFFICES ASSUME Gateways \cap behind' = {} PROVE ports = portsWithMultipleListeners(tree')
      OBVIOUS
  <2>1. ASSUME NEW g \in LiveGateways(U) PROVE g \in LiveGateways(tree')
    <3>1. g \in DOMAIN W.gateways
      BY BuiltGateway, RecheckedGateway DEF LiveGateways, ManagedGateways
    <3>2. CASE g \notin Rechecked(U)
      BY <1>2, <1>5, <3>1, <3>2, BatchGateway
    <3>3. CASE g \in Rechecked(U)
      BY <1>1, <1>2, <1>3, <1>5, <3>1, <3>3, LeaverIsBehind
    <3>. QED BY <3>2, <3>3
  <2>2. LiveGateways(tree') = LiveGateways(U)
    BY <1>8, <2>1
  <2>. QED BY <1>8, <2>2, SamePorts
<1>11. ASSUME NEW g \in (Gateways \cap DOMAIN store) \ behind' PROVE Agrees(tree', g, store[g], ports)
  <2>1. SUFFICES Agrees(W, g, store[g], ports)
    <3>1. CASE g \in DOMAIN W.gateways
      BY <1>4, <2>1, <3>1, KeptAgrees DEF Agrees
    <3>2. CASE g \notin DOMAIN W.gateways
      BY <1>4, <2>1, <3>2 DEF Agrees
    <3>. QED BY <3>1, <3>2
  <2>2. CASE g \in updates
    <3>1. CASE g \in DOMAIN U.gateways
      <4> DEFINE checked == processManagementChecks(Listed, g, store[g])
      <4>1. U.gateways[g] = checked
        BY <2>2, <3>1, UpdatedGateway DEF InStore
      <4>2. checked.status = Upserted
        BY CheckedValid
      <4>3. g \notin Rechecked(U)
        <5> HIDE DEF checked
        <5>. QED BY <4>1, <4>2 DEF Rechecked
      <4>4. g \in DOMAIN CheckedTree.gateways /\ CheckedTree.gateways[g] = checked
        BY <3>1, <4>1, <4>3, RecheckedGateway
      <4>5. AgreesNode(W, W.gateways[g], store[g], ports)
        BY <4>4, FreshAgrees
      <4>. QED BY <4>4, <4>5, BuiltGateway DEF Agrees
    <3>2. CASE g \notin DOMAIN U.gateways
      <4>1. g \notin DOMAIN W.gateways
        BY <3>2, RecheckedGateway, BuiltGateway
      <4>2. store[g].class \notin DOMAIN W.classes
        BY <1>4, <2>2, <3>2, UpdatedGateway DEF InStore
      <4>. QED BY <4>1, <4>2 DEF Agrees
    <3>. QED BY <3>1, <3>2
  <2>3. CASE g \in Rechecked(U)
    <3>1. g \in DOMAIN CheckedTree.gateways /\ g \in DOMAIN W.gateways
      BY <2>3, RecheckedGateway, BuiltGateway DEF Rechecked, ManagedGateways
    <3>2. U.gateways[g].spec = store[g]
      BY <1>2, <3>1, BatchGateway
    <3>3. CheckedTree.gateways[g] = processManagementChecks(U, g, store[g]) /\ U.classes = Listed.classes
      BY <2>3, <3>2, RecheckedGateway, UpdatedTree
    <3>4. AgreesNode(W, W.gateways[g], store[g], ports)
      BY <3>1, <3>3, FreshAgrees
    <3>. QED BY <3>1, <3>4 DEF Agrees
  <2>4. CASE g \notin updates /\ g \notin Rechecked(U)
    <3>1. g \notin behind /\ Dependencies(g) \cap (updates \ Gateways) = {}
      BY <1>3, <2>4 DEF Missed
    <3>. QED BY <1>1, <1>2, <2>4, <3>1, UntouchedAgrees
  <2>. QED BY <2>2, <2>3, <2>4
<1>12. PICK new : new = ports
  OBVIOUS
<1>13. PortsFollow(new)'
  <2> HIDE DEF ports
  <2>1. ASSUME NEW g \in (Gateways \cap DOMAIN store) \ behind' PROVE Agrees(tree, g, store[g], new)'
    BY <1>3, <1>11, <1>12 DEF Agrees, AgreesNode, Passes, CheckParamsRef
  <2>. QED BY <1>3, <1>9, <1>10, <1>12, <2>1 DEF PortsFollow
<1>. QED BY <1>6, <1>7, <1>13 DEF CurrentInv

(* The served gateways and listeners are those the store asks for.         *)
LEMMA CurrentSuffices == ServingInv /\ GatewaysInv /\ CurrentInv => GatewaysCurrent
<1> SUFFICES ASSUME ServingInv, GatewaysInv, CurrentInv, updates = {}, behind = {}, NEW g \in Gateways
             PROVE  ServedAsStored(g)
    BY DEF GatewaysCurrent
<1> USE DEF Upserted, Deleted, Untouched
<1>1. PICK ports : PortsFollow(ports)
  BY DEF CurrentInv
<1>2. \A x \in Gateways \cap DOMAIN store : Agrees(tree, x, store[x], ports)
  BY <1>1 DEF PortsFollow, Changing
<1>3. \A x \in DOMAIN tree.gateways \cap DOMAIN store :
        tree.gateways[x].spec = store[x] /\ tree.gateways[x].status # Deleted
  BY DEF CurrentInv, GatewaysFollow
<1>4. \A x \in LiveGateways(tree) : x \in Gateways \cap DOMAIN store
  BY DEF CurrentInv, GatewaysFollow, GatewaysInv, SoundGateways, SoundGateway, LiveGateways, ManagedGateways
<1>5. \A c : ValidClass(c) <=> Accepts(tree, c)
  <2> SUFFICES ASSUME NEW c PROVE ValidClass(c) <=> Accepts(tree, c)
      OBVIOUS
  <2>1. CASE c \in Classes \cap DOMAIN store
    <3>1. c \in DOMAIN tree.classes /\ (tree.classes[c].valid <=> CheckParamsRef(store[c].params))
      BY <2>1 DEF CurrentInv, ClassesFollow, Changing, Live
    <3>. QED BY <2>1, <3>1 DEF ValidClass, Accepts
  <2>2. CASE c \notin Classes \cap DOMAIN store
    BY <2>2 DEF CurrentInv, ClassesFollow, ServingInv, TreeShape, Live, ValidClass, Accepts
  <2>. QED BY <2>1, <2>2
<1>6. \A x \in Gateways \cap DOMAIN store :
        x \in Managed => x \in LiveGateways(tree) /\ tree.gateways[x].managed
  <2> SUFFICES ASSUME NEW x \in Managed PROVE x \in LiveGateways(tree) /\ tree.gateways[x].managed
      OBVIOUS
  <2>1. x \in Gateways \cap DOMAIN store /\ Accepts(tree, store[x].class)
    BY <1>5 DEF Managed
  <2>2. x \in DOMAIN tree.gateways /\ AgreesNode(tree, tree.gateways[x], store[x], ports)
    BY <1>2, <2>1 DEF Agrees, Accepts
  <2>3. tree.gateways[x].managed /\ tree.gateways[x].in = "managed"
    BY <2>1, <2>2 DEF AgreesNode
  <2>. QED BY <1>3, <2>1, <2>2, <2>3 DEF LiveGateways, ManagedGateways
<1>7. Managed \cup Lingering = LiveGateways(tree)
  <2>1. ASSUME NEW x \in LiveGateways(tree) PROVE x \in Managed \/ x \in Lingering
    <3>1. x \in Gateways \cap DOMAIN store /\ x \in DOMAIN tree.gateways /\ tree.gateways[x].in = "managed"
      BY <1>4, <2>1 DEF LiveGateways, ManagedGateways
    <3>2. AgreesNode(tree, tree.gateways[x], store[x], ports)
      BY <1>2, <3>1 DEF Agrees
    <3>3. CASE tree.gateways[x].managed
      BY <1>5, <3>1, <3>2, <3>3 DEF AgreesNode, Managed
    <3>4. CASE ~ tree.gateways[x].managed
      <4>1. store[x].class \notin DOMAIN tree.classes
        BY <3>1, <3>2, <3>4 DEF AgreesNode
      <4>2. store[x].class \notin Classes \cap DOMAIN store
        BY <4>1 DEF CurrentInv, ClassesFollow, Live
      <4>. QED BY <2>1, <3>1, <4>2 DEF Lingering
    <3>. QED BY <3>3, <3>4
  <2>2. Managed \subseteq Gateways \cap DOMAIN store
    BY DEF Managed
  <2>. QED BY <1>6, <2>1, <2>2 DEF Lingering
<1>8. \A port : SharedPort(port) <=> port \in ports
  <2>1. ports = portsWithMultipleListeners(tree)
    BY <1>1 DEF PortsFollow
  <2>2. \A x \in LiveGateways(tree) : tree.gateways[x].spec = store[x]
    BY <1>3, <1>4 DEF LiveGateways, ManagedGateways
  <2>. QED BY <1>7, <2>1, <2>2, PortShared DEF SharedPort
<1>9. \A s : Live(tree.secrets, s) <=> s \in Secrets \cap DOMAIN store
  BY DEF ServingInv, SecretsFollow, LiveSecrets, Live, TreeShape
<1>10. \A l : Fine(tree, l) <=> /\ l.protocol \in {"HTTP", "HTTPS", "TLS"}
                                /\ l.protocol \in {"HTTP", "HTTPS"} => l.kinds \subseteq {"HTTPRoute"}
                                /\ l.protocol = "HTTPS" => l.certs \subseteq Secrets \cap DOMAIN store
  <2> SUFFICES ASSUME NEW l
               PROVE  Fine(tree, l) <=> /\ l.protocol \in {"HTTP", "HTTPS", "TLS"}
                                        /\ l.protocol \in {"HTTP", "HTTPS"} => l.kinds \subseteq {"HTTPRoute"}
                                        /\ l.protocol = "HTTPS" => l.certs \subseteq Secrets \cap DOMAIN store
      OBVIOUS
  <2>1. SupportedKinds(l.protocol) # {} <=> l.protocol \in {"HTTP", "HTTPS", "TLS"}
    BY DEF SupportedKinds
  <2>2. checkRouteGroupKind(l) = {} <=> (l.protocol \in {"HTTP", "HTTPS"} => l.kinds \subseteq {"HTTPRoute"})
    <3>1. l.protocol \in {"HTTP", "HTTPS"} => SupportedKinds(l.protocol) = {"HTTPRoute"}
      BY DEF SupportedKinds
    <3>. QED BY <3>1 DEF checkRouteGroupKind
  <2>3. checkCertificateRefs(tree, l) = {} <=> (l.protocol = "HTTPS" => l.certs \subseteq Secrets \cap DOMAIN store)
    BY <1>9 DEF checkCertificateRefs
  <2>. QED BY <2>1, <2>2, <2>3 DEF Fine
<1>11. ServedListeners(g) = {n \in DOMAIN store[g].listeners :
          Fine(tree, store[g].listeners[n]) /\ store[g].listeners[n].port \notin ports}
  BY <1>8, <1>10 DEF ServedListeners
<1> DEFINE node == tree.gateways[g]
           valid == {n \in DOMAIN node.listeners : node.listeners[n].valid}
<1>12. ASSUME g \in Managed, CheckParamsRef(store[g].params)
       PROVE  /\ g \in LiveGateways(tree)
              /\ valid = ServedListeners(g)
              /\ ServedListeners(g) # {} => node.valid
  <2>1. g \in Gateways \cap DOMAIN store /\ Passes(tree, store[g]) /\ g \in LiveGateways(tree)
    BY <1>5, <1>6, <1>12 DEF Managed, Passes
  <2>2. AgreesNode(tree, node, store[g], ports)
    BY <1>2, <2>1 DEF Agrees, LiveGateways, ManagedGateways
  <2> HIDE DEF node
  <2>. QED BY <1>11, <2>1, <2>2 DEF AgreesNode
<1>13. ASSUME g \in LiveGateways(tree), node.valid
       PROVE  g \in Managed /\ CheckParamsRef(store[g].params)
  <2>1. g \in Gateways \cap DOMAIN store /\ g \in DOMAIN tree.gateways
    BY <1>4, <1>13 DEF LiveGateways, ManagedGateways
  <2>2. AgreesNode(tree, node, store[g], ports)
    BY <1>2, <2>1 DEF Agrees
  <2>3. Passes(tree, store[g])
    BY <1>13, <2>2 DEF AgreesNode
  <2>. QED BY <1>5, <2>1, <2>3 DEF Passes, Managed
<1> HIDE DEF node
<1>. QED BY <1>12, <1>13 DEF node, ServedAsStored

(* Between batches that missed no dependency, the gateways that are served *)
(* are those the store asks for: together with what the watches enqueue,   *)
(* the gateways that checkListenerConflicts checks again, for a conflict   *)
(* that is new or over, are all whose verdict may change.                  *)
THEOREM GatewaysAreCurrent == ASSUME NoNamesakes PROVE FrontendsSpec => []GatewaysCurrent
<1>1. FrontendsInit => CurrentInv
  <2> SUFFICES ASSUME FrontendsInit PROVE CurrentInv
      OBVIOUS
  <2>1. /\ tree.gateways = <<>> /\ tree.classes = <<>> /\ store = <<>>
        /\ updates = {} /\ behind = {} /\ conflicting = {}
    BY DEF FrontendsInit, GateInit, EmptyTree
  <2>2. ClassesFollow /\ GatewaysFollow
    BY <2>1 DEF ClassesFollow, GatewaysFollow, Live
  <2>3. PortsFollow(portsWithMultipleListeners(tree))
    <3>1. LiveGateways(tree) = {}
      BY <2>1 DEF LiveGateways, ManagedGateways
    <3>. QED BY <2>1, <3>1 DEF PortsFollow
  <2>. QED BY <2>2, <2>3 DEF CurrentInv
<1>2. ListenersInv /\ CurrentInv /\ [FrontendsNext]_servingVars => CurrentInv'
  <2> SUFFICES ASSUME ListenersInv, CurrentInv, [FrontendsNext]_servingVars PROVE CurrentInv'
      OBVIOUS
  <2> USE DEF ListenersInv
  <2>1. CASE UNCHANGED <<store, updates, tree, conflicting, behind>>
    <3>1. ClassesFollow' /\ GatewaysFollow'
      BY <2>1 DEF CurrentInv, ClassesFollow, GatewaysFollow, CheckParamsRef, Changing
    <3>2. ASSUME NEW ports, PortsFollow(ports) PROVE PortsFollow(ports)'
      BY <2>1, <3>2 DEF PortsFollow, Agrees, AgreesNode, Passes, CheckParamsRef, Changing
    <3>. QED BY <3>1, <3>2 DEF CurrentInv
  <2>2. ASSUME NEW k \in Keys, Reconcile(k) PROVE CurrentInv'
    BY <2>2, CurrentReconcile
  <2>3. CASE Batch
    BY <2>3, CurrentBatch
  <2>. QED BY <2>1, <2>2, <2>3 DEF FrontendsNext, Input, Change, HandleEventBatch, servingVars, gateVars, inputVars, treeVars
<1>3. ServingInv /\ ListenersInv /\ CurrentInv => GatewaysCurrent
  BY CurrentSuffices DEF ListenersInv
<1>. QED BY <1>1, <1>2, <1>3, ServingInvHolds, ListenersInvHolds, PTL DEF FrontendsSpec
=============================================================================
