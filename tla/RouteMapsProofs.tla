--------------------------- MODULE RouteMapsProofs ---------------------------
(***************************************************************************)
(* What RouteMaps promises, for any objects and any batches.               *)
(*                                                                         *)
(* The process follows the maps: replaying the additions, updates and      *)
(* deletions of a batch is the same as loading the maps they lead to       *)
(* (Replays, for one list of calls whatever is in it).                     *)
(*                                                                         *)
(* Routes are served.  Three arguments meet in ServedInv: what a list of   *)
(* calls leaves in one entry (Silent, Leaves, up to FillMapsLeave), what a *)
(* batch makes of one route (BatchRoute), and why a route that a batch has *)
(* no part in needs none: what it depends on would have queued it, since   *)
(* the status of a gateway tells which of its listeners are valid          *)
(* (StatusTells).                                                          *)
(***************************************************************************)
EXTENDS RouteMaps, FrontendsProofs

(* The positions of entry e in the list of deletions of its map            *)
Positions(m, e) == {i \in 1..Len(DeleteList(m, MapOf(e))) : DeleteList(m, MapOf(e))[i] = e}

IsSequence(s) == s \in Seq(ToSet(s))

(* The list of a map holds keys of that map.                               *)
ListsSound(m) ==
    \A x \in DOMAIN m.Delete : /\ IsSequence(m.Delete[x])
                               /\ \A i \in 1..Len(m.Delete[x]) : MapOf(m.Delete[x][i]) = x

(* What the process accepts of the commands on entry e if it has data      *)
Acceptable(m, data, e) ==
    /\ \A i, j \in Positions(m, e) : i = j
    /\ Positions(m, e) # {} => e \in DOMAIN data
    /\ e \in DOMAIN m.Update => e \in DOMAIN data /\ Positions(m, e) = {}

Stays(m, data, e) == e \in DOMAIN data /\ Positions(m, e) = {}

(* Commands on entry e that are accepted lead from data to m.data.         *)
Leads(m, data, e) ==
    IF Stays(m, data, e)
    THEN /\ e \notin DOMAIN m.Add /\ e \in DOMAIN m.data
         /\ m.data[e] = IF e \in DOMAIN m.Update THEN m.Update[e] ELSE data[e]
    ELSE /\ e \in DOMAIN m.data <=> e \in DOMAIN m.Add
         /\ e \in DOMAIN m.data => m.data[e] = m.Add[e]

Replays(m, data) == ListsSound(m) /\ \A e : Acceptable(m, data, e) => Leads(m, data, e)
-----------------------------------------------------------------------------
LEMMA AppendList ==
    ASSUME NEW s, IsSequence(s), NEW e
    PROVE  /\ IsSequence(Append(s, e))
           /\ Len(s) \in Nat /\ Len(Append(s, e)) = Len(s) + 1
           /\ \A i \in 1..Len(s) : Append(s, e)[i] = s[i]
           /\ Append(s, e)[Len(s) + 1] = e
<1> DEFINE t == Append(s, e)
<1>1. s \in Seq(ToSet(s) \cup {e})
  BY DEF IsSequence
<1>2. /\ t \in Seq(ToSet(s) \cup {e}) /\ Len(s) \in Nat /\ Len(t) = Len(s) + 1
      /\ \A i \in 1..Len(s) : t[i] = s[i]
      /\ t[Len(s) + 1] = e
  BY <1>1
<1> HIDE DEF t
<1>3. t \in Seq(ToSet(t))
  BY <1>2 DEF ToSet
<1>. QED BY <1>2, <1>3 DEF t, IsSequence

LEMMA ListIsSequence ==
    ASSUME NEW m, ListsSound(m), NEW x
    PROVE  /\ IsSequence(DeleteList(m, x))
           /\ \A i \in 1..Len(DeleteList(m, x)) : MapOf(DeleteList(m, x)[i]) = x
<1>1. IsSequence(<<>>) /\ Len(<<>>) = 0
  BY DEF IsSequence
<1>. QED BY <1>1 DEF ListsSound, DeleteList

(* What DeleteData does to the lists and to the positions of an entry      *)
LEMMA DeleteLists ==
    ASSUME NEW m, ListsSound(m), NEW d
    PROVE  /\ ListsSound(DeleteData(m, d))
           /\ \A e : e # d => Positions(DeleteData(m, d), e) = Positions(m, e)
           /\ Positions(DeleteData(m, d), d) = Positions(m, d) \cup {Len(DeleteList(m, MapOf(d))) + 1}
           /\ Len(DeleteList(m, MapOf(d))) + 1 \notin Positions(m, d)
<1> DEFINE n == DeleteData(m, d)
           s == DeleteList(m, MapOf(d))
<1>1. /\ DOMAIN n.Delete = DOMAIN m.Delete \cup {MapOf(d)}
      /\ n.Delete[MapOf(d)] = Append(s, d)
      /\ \A x \in DOMAIN m.Delete : x # MapOf(d) => n.Delete[x] = m.Delete[x]
  BY DEF DeleteData, Override
<1>2. IsSequence(s) /\ \A i \in 1..Len(s) : MapOf(s[i]) = MapOf(d)
  BY ListIsSequence
<1>3. /\ DeleteList(n, MapOf(d)) = Append(s, d)
      /\ \A x : x # MapOf(d) => DeleteList(n, x) = DeleteList(m, x)
  BY <1>1 DEF DeleteList
<1> HIDE DEF n, s
<1>4. /\ IsSequence(Append(s, d)) /\ Len(s) \in Nat /\ Len(Append(s, d)) = Len(s) + 1
      /\ \A i \in 1..Len(s) : Append(s, d)[i] = s[i]
      /\ Append(s, d)[Len(s) + 1] = d
  BY <1>2, AppendList
<1>5. \A i \in 1..Len(Append(s, d)) : MapOf(Append(s, d)[i]) = MapOf(d)
  BY <1>2, <1>4
<1>6. ListsSound(n)
  BY <1>1, <1>4, <1>5 DEF ListsSound
<1>7. ASSUME NEW e, e # d PROVE Positions(n, e) = Positions(m, e)
  <2>1. CASE MapOf(e) # MapOf(d)
    BY <1>3, <2>1 DEF Positions
  <2>2. CASE MapOf(e) = MapOf(d)
    BY <1>3, <1>4, <1>7, <2>2 DEF Positions, s
  <2>. QED BY <2>1, <2>2
<1>8. Positions(n, d) = Positions(m, d) \cup {Len(s) + 1} /\ Len(s) + 1 \notin Positions(m, d)
  BY <1>3, <1>4 DEF Positions, s
<1>. QED BY <1>6, <1>7, <1>8 DEF n, s

(* One call keeps the promise.                                             *)
LEMMA ReplaysDelete ==
    ASSUME NEW m, NEW data, Replays(m, data), NEW d
    PROVE  Replays(DeleteData(m, d), data)
<1> DEFINE n == DeleteData(m, d)
<1>1. /\ n.Add = m.Add /\ n.Update = m.Update
      /\ DOMAIN n.data = DOMAIN m.data \ {d}
      /\ \A e \in DOMAIN n.data : n.data[e] = m.data[e]
  BY DEF DeleteData, Without
<1>2. /\ ListsSound(n)
      /\ \A e : e # d => Positions(n, e) = Positions(m, e)
      /\ Positions(n, d) = Positions(m, d) \cup {Len(DeleteList(m, MapOf(d))) + 1}
      /\ Len(DeleteList(m, MapOf(d))) + 1 \notin Positions(m, d)
  BY DeleteLists DEF Replays
<1> HIDE DEF n
<1>3. ASSUME NEW e, Acceptable(n, data, e) PROVE Leads(n, data, e)
  <2>1. CASE e # d
    <3>1. Acceptable(m, data, e)
      BY <1>1, <1>2, <1>3, <2>1 DEF Acceptable
    <3>2. Leads(m, data, e)
      BY <3>1 DEF Replays
    <3>. QED BY <1>1, <1>2, <2>1, <3>2 DEF Leads, Stays
  <2>2. CASE e = d
    <3>1. Positions(m, e) = {}
      BY <1>2, <1>3, <2>2 DEF Acceptable
    <3>2. Positions(n, e) # {}
      BY <1>2, <2>2
    <3>3. e \in DOMAIN data /\ e \notin DOMAIN n.Update
      BY <1>3, <3>2 DEF Acceptable
    <3>4. Acceptable(m, data, e) /\ Stays(m, data, e)
      BY <1>1, <3>1, <3>3 DEF Acceptable, Stays
    <3>5. e \notin DOMAIN m.Add
      BY <3>4 DEF Replays, Leads
    <3>. QED BY <1>1, <2>2, <3>2, <3>5 DEF Leads, Stays
  <2>. QED BY <2>1, <2>2
<1>. QED BY <1>2, <1>3 DEF Replays, n

LEMMA ReplaysAdd ==
    ASSUME NEW m, NEW data, Replays(m, data), NEW d, NEW value
    PROVE  Replays(AddData(m, d, value), data)
<1> DEFINE n == AddData(m, d, value)
<1>1. /\ n.Delete = m.Delete
      /\ DOMAIN n.data = DOMAIN m.data \cup {d}
      /\ n.data[d] = value
      /\ \A e \in DOMAIN m.data : e # d => n.data[e] = m.data[e]
  BY DEF AddData, Override
<1>2. CASE d \in DOMAIN m.data
  <2>1. /\ n.Add = m.Add
        /\ DOMAIN n.Update = DOMAIN m.Update \cup {d}
        /\ n.Update[d] = value
        /\ \A e \in DOMAIN m.Update : e # d => n.Update[e] = m.Update[e]
    BY <1>2 DEF AddData, Override
  <2> HIDE DEF n
  <2>2. \A e : Positions(n, e) = Positions(m, e)
    BY <1>1 DEF Positions, DeleteList
  <2>3. ASSUME NEW e, Acceptable(n, data, e) PROVE Leads(n, data, e)
    <3>1. Acceptable(m, data, e)
      BY <2>1, <2>2, <2>3 DEF Acceptable
    <3>2. Leads(m, data, e)
      BY <3>1 DEF Replays
    <3>3. CASE e # d
      BY <1>1, <2>1, <2>2, <3>2, <3>3 DEF Leads, Stays
    <3>4. CASE e = d
      <4>1. Stays(n, data, e) /\ Stays(m, data, e)
        BY <2>1, <2>2, <2>3, <3>4 DEF Acceptable, Stays
      <4>. QED BY <1>1, <2>1, <3>2, <3>4, <4>1 DEF Leads
    <3>. QED BY <3>3, <3>4
  <2>. QED BY <1>1, <2>3 DEF Replays, ListsSound, n
<1>3. CASE d \notin DOMAIN m.data
  <2>1. /\ n.Update = m.Update
        /\ DOMAIN n.Add = DOMAIN m.Add \cup {d}
        /\ n.Add[d] = value
        /\ \A e \in DOMAIN m.Add : e # d => n.Add[e] = m.Add[e]
    BY <1>3 DEF AddData, Override
  <2> HIDE DEF n
  <2>2. \A e : Positions(n, e) = Positions(m, e)
    BY <1>1 DEF Positions, DeleteList
  <2>3. ASSUME NEW e, Acceptable(n, data, e) PROVE Leads(n, data, e)
    <3>1. Acceptable(m, data, e)
      BY <2>1, <2>2, <2>3 DEF Acceptable
    <3>2. Leads(m, data, e)
      BY <3>1 DEF Replays
    <3>3. CASE e # d
      BY <1>1, <2>1, <2>2, <3>2, <3>3 DEF Leads, Stays
    <3>4. CASE e = d
      <4>1. ~ Stays(m, data, e)
        BY <1>3, <3>2, <3>4 DEF Leads
      <4>2. ~ Stays(n, data, e)
        BY <2>2, <4>1 DEF Stays
      <4>. QED BY <1>1, <2>1, <3>4, <4>2 DEF Leads
    <3>. QED BY <3>3, <3>4
  <2>. QED BY <1>1, <2>3 DEF Replays, ListsSound, n
<1>. QED BY <1>2, <1>3

LEMMA ReplaysRule ==
    ASSUME NEW m, NEW data, Replays(m, data), NEW step
    PROVE  Replays(ApplyRule(m, step), data)
BY ReplaysAdd, ReplaysDelete DEF ApplyRule

LEMMA ReplaysNothing == ASSUME NEW data PROVE Replays(NoUpdates(data), data)
<1> DEFINE m == NoUpdates(data)
<1>1. /\ m.data = data /\ DOMAIN m.Add = {} /\ DOMAIN m.Update = {} /\ DOMAIN m.Delete = {}
  BY DEF NoUpdates
<1> HIDE DEF m
<1>2. \A e : Positions(m, e) = {}
  BY <1>1 DEF Positions, DeleteList
<1>3. ListsSound(m)
  BY <1>1 DEF ListsSound
<1>. QED BY <1>1, <1>2, <1>3 DEF Replays, Leads, Stays, m

(* ApplyRules goes through the updates of its recursion.                   *)
LEMMA ApplyRulesUnfold ==
    ASSUME NEW m, NEW steps, Len(steps) \in Nat
    PROVE  \E applied : /\ applied = [i \in 0..Len(steps) |->
                                         IF i = 0 THEN m ELSE ApplyRule(applied[i - 1], steps[i])]
                        /\ ApplyRules(m, steps) = applied[Len(steps)]
<1> DEFINE Def(g, n) == g = [i \in 0..n |-> IF i = 0 THEN m ELSE ApplyRule(g[i - 1], steps[i])]
           T == {n \in 0..Len(steps) : ~ \E g : Def(g, n)}
<1>1. T = {}
  <2> SUFFICES ASSUME T # {} PROVE FALSE
      OBVIOUS
  <2>1. T \in SUBSET Nat
    OBVIOUS
  <2>2. PICK n \in T : \A k \in T : n <= k
    BY ONLY <2>1, T # {}, LeastNatural
  <2>3. n # 0
    <3>1. Def([i \in 0..0 |-> m], 0)
      OBVIOUS
    <3>. QED BY <3>1
  <2>4. n - 1 \notin T /\ n - 1 \in 0..Len(steps) /\ n \in Nat
    <3>1. n \in 0..Len(steps)
      OBVIOUS
    <3>2. n \in Nat /\ n - 1 \in 0..Len(steps) /\ ~ (n <= n - 1)
      BY <2>3, <3>1
    <3> HIDE DEF T
    <3>. QED BY <2>2, <3>2
  <2>5. PICK g : Def(g, n - 1)
    BY <2>4
  <2>6. Def([i \in 0..n |-> IF i = n THEN ApplyRule(g[n - 1], steps[n]) ELSE g[i]], n)
    BY <2>3, <2>4, <2>5
  <2>. QED BY <2>6
<1>2. \E g : Def(g, Len(steps))
  BY <1>1
<1> DEFINE applied == CHOOSE g : Def(g, Len(steps))
<1>3. Def(applied, Len(steps))
  BY <1>2
<1>4. ApplyRules(m, steps) = applied[Len(steps)]
  BY DEF ApplyRules
<1>. QED BY <1>3, <1>4

(* The calls of a batch, in whatever order they come, keep the promise.    *)
LEMMA ReplaysRules ==
    ASSUME NEW m, NEW data, Replays(m, data), NEW steps, Len(steps) \in Nat
    PROVE  Replays(ApplyRules(m, steps), data)
<1>1. PICK applied : /\ applied = [i \in 0..Len(steps) |->
                                      IF i = 0 THEN m ELSE ApplyRule(applied[i - 1], steps[i])]
                     /\ ApplyRules(m, steps) = applied[Len(steps)]
  BY ApplyRulesUnfold
<1> DEFINE T == {n \in 0..Len(steps) : ~ Replays(applied[n], data)}
<1>2. T = {}
  <2> SUFFICES ASSUME T # {} PROVE FALSE
      OBVIOUS
  <2>1. T \in SUBSET Nat
    OBVIOUS
  <2>2. PICK n \in T : \A k \in T : n <= k
    BY ONLY <2>1, T # {}, LeastNatural
  <2>3. n # 0
    BY <1>1
  <2>4. n - 1 \notin T /\ n - 1 \in 0..Len(steps) /\ n \in 1..Len(steps)
    BY <2>2, <2>3
  <2>5. Replays(applied[n - 1], data)
    BY <2>4
  <2>6. applied[n] = ApplyRule(applied[n - 1], steps[n])
    BY <1>1, <2>3, <2>4
  <2>. QED BY <2>2, <2>5, <2>6, ReplaysRule
<1>. QED BY <1>1, <1>2
-----------------------------------------------------------------------------
(* The lists of calls are finite: sequences made of finite sets and rules. *)
LEMMA SequenceLength ==
    ASSUME NEW s, IsSequence(s)
    PROVE  Len(s) \in Nat /\ DOMAIN s = 1..Len(s)
BY DEF IsSequence

LEMMA FunctionIsSequence ==
    ASSUME NEW s, NEW n \in Nat, NEW S, s \in [1..n -> S]
    PROVE  IsSequence(s) /\ Len(s) = n
<1>1. s \in [1..n -> ToSet(s)]
  BY DEF ToSet
<1>2. s \in Seq(ToSet(s)) /\ Len(s) = n
  BY <1>1
<1>. QED BY <1>2 DEF IsSequence

LEMMA ConcatSequence ==
    ASSUME NEW s, IsSequence(s), NEW t, IsSequence(t)
    PROVE  IsSequence(s \o t)
<1> DEFINE S == ToSet(s) \cup ToSet(t)
           u == s \o t
<1>1. s \in Seq(S) /\ t \in Seq(S)
  BY DEF IsSequence
<1> HIDE DEF S
<1>2. u \in Seq(S)
  BY <1>1
<1> HIDE DEF u
<1>3. Len(u) \in Nat /\ u \in [1..Len(u) -> S]
  BY <1>2
<1>. QED BY <1>3, FunctionIsSequence DEF u

LEMMA SetToSeqIsSequence ==
    ASSUME NEW S, IsFiniteSet(S)
    PROVE  IsSequence(SetToSeq(S)) /\ SetToSeq(S) \in [1..Cardinality(S) -> S]
<1>1. Cardinality(S) \in Nat
  BY FS_CardinalityType
<1>2. ExistsBijection(1..Cardinality(S), S)
  BY FS_CardinalityType
<1>3. PICK f \in [1..Cardinality(S) -> S] : IsInjective(f)
  BY <1>2 DEF ExistsBijection, Bijection, Injection, IsInjective
<1>4. SetToSeq(S) \in [1..Cardinality(S) -> S]
  BY <1>3 DEF SetToSeq
<1>. QED BY <1>1, <1>4, FunctionIsSequence

LEMMA FlattenUnfold ==
    ASSUME NEW seqs, Len(seqs) \in Nat, Len(seqs) # 0
    PROVE  \E flat : /\ flat = [i \in 1..Len(seqs) |-> IF i = 1 THEN seqs[i] ELSE flat[i - 1] \o seqs[i]]
                     /\ FlattenSeq(seqs) = flat[Len(seqs)]
<1> DEFINE Add(x, i) == IF i = 1 THEN seqs[i] ELSE x \o seqs[i]
           Def(g, n) == g = [i \in 1..n |-> Add(g[i - 1], i)]
           T == {n \in 0..Len(seqs) : ~ \E g : Def(g, n)}
<1>1. \A x, y : Add(x, 1) = Add(y, 1)
  OBVIOUS
<1> HIDE DEF Add
<1>2. T = {}
  <2> SUFFICES ASSUME T # {} PROVE FALSE
      OBVIOUS
  <2>1. T \in SUBSET Nat
    OBVIOUS
  <2>2. PICK n \in T : \A k \in T : n <= k
    BY ONLY <2>1, T # {}, LeastNatural
  <2>3. n # 0
    <3>1. Def([i \in 1..0 |-> <<>>], 0)
      OBVIOUS
    <3>. QED BY <3>1
  <2>4. n - 1 \notin T /\ n - 1 \in 0..Len(seqs) /\ n \in Nat
    <3>1. n \in 0..Len(seqs)
      OBVIOUS
    <3>2. n \in Nat /\ n - 1 \in 0..Len(seqs) /\ ~ (n <= n - 1)
      BY <2>3, <3>1
    <3> HIDE DEF T
    <3>. QED BY <2>2, <3>2
  <2>5. PICK g : Def(g, n - 1)
    BY <2>4
  <2>6. Def([i \in 1..n |-> IF i = n THEN Add(g[n - 1], n) ELSE g[i]], n)
    <3> DEFINE f == [i \in 1..n |-> IF i = n THEN Add(g[n - 1], n) ELSE g[i]]
    <3>1. ASSUME NEW i \in 1..n PROVE f[i] = Add(f[i - 1], i)
      <4>1. CASE i = 1
        BY <1>1, <2>3, <2>4, <2>5, <4>1
      <4>2. CASE i # 1 /\ i = n
        BY <2>3, <2>4, <2>5, <4>2
      <4>3. CASE i # 1 /\ i # n
        BY <2>3, <2>4, <2>5, <4>3
      <4>. QED BY <4>1, <4>2, <4>3
    <3>. QED BY <3>1
  <2>. QED BY <2>6
<1>3. \E g : Def(g, Len(seqs))
  BY <1>2
<1> DEFINE flat == CHOOSE g : Def(g, Len(seqs))
<1>4. Def(flat, Len(seqs))
  BY <1>3
<1>5. FlattenSeq(seqs) = flat[Len(seqs)]
  BY DEF FlattenSeq, Add
<1>. QED BY <1>4, <1>5 DEF Add

LEMMA FlattenIsSequence ==
    ASSUME NEW seqs, IsSequence(seqs), \A i \in 1..Len(seqs) : IsSequence(seqs[i])
    PROVE  IsSequence(FlattenSeq(seqs))
<1>1. Len(seqs) \in Nat
  BY SequenceLength
<1>2. CASE Len(seqs) = 0
  BY <1>2 DEF FlattenSeq
<1>3. CASE Len(seqs) # 0
  <2>1. PICK flat : /\ flat = [i \in 1..Len(seqs) |-> IF i = 1 THEN seqs[i] ELSE flat[i - 1] \o seqs[i]]
                    /\ FlattenSeq(seqs) = flat[Len(seqs)]
    BY <1>1, <1>3, FlattenUnfold
  <2> DEFINE T == {n \in 1..Len(seqs) : ~ IsSequence(flat[n])}
  <2>2. T = {}
    <3> SUFFICES ASSUME T # {} PROVE FALSE
        OBVIOUS
    <3>1. T \in SUBSET Nat
      BY <1>1
    <3>2. PICK n \in T : \A k \in T : n <= k
      BY ONLY <3>1, T # {}, LeastNatural
    <3>3. n \in 1..Len(seqs) /\ ~ IsSequence(flat[n])
      OBVIOUS
    <3>4. n # 1
      BY <1>1, <2>1, <3>3
    <3>5. n - 1 \in 1..Len(seqs) /\ ~ (n <= n - 1)
      BY <1>1, <3>3, <3>4
    <3>6. IsSequence(flat[n - 1])
      BY <3>2, <3>5
    <3>7. flat[n] = flat[n - 1] \o seqs[n]
      BY <1>1, <2>1, <3>3, <3>4
    <3>. QED BY <3>3, <3>6, <3>7, ConcatSequence
  <2>3. Len(seqs) \in 1..Len(seqs)
    BY <1>1, <1>3
  <2>. QED BY <2>1, <2>2, <2>3
<1>. QED BY <1>2, <1>3

LEMMA DomainIsSequence ==
    ASSUME NEW f, NEW n \in Nat, DOMAIN f = 1..n, f = [i \in 1..n |-> f[i]]
    PROVE  IsSequence(f) /\ Len(f) = n
<1>1. f \in [1..n -> ToSet(f)]
  BY DEF ToSet
<1>. QED BY <1>1, FunctionIsSequence

LEMMA FlattenSteps ==
    ASSUME NEW f, NEW n \in Nat, DOMAIN f = 1..n, f = [i \in 1..n |-> f[i]],
           \A i \in 1..n : IsSequence(f[i])
    PROVE  IsSequence(FlattenSeq(f))
BY DomainIsSequence, FlattenIsSequence

RouteFields == {"in", "status", "spec", "valid", "refs", "rules"}

RefFields == {"gateway", "listener", "spec", "current"}
Marked(refs) == \A ref \in refs : DOMAIN ref = RefFields

(* What a route's entries are made of is finite.                           *)
SoundRoute(node) ==
    /\ DOMAIN node = RouteFields
    /\ IsFiniteSet(node.refs) /\ Marked(node.refs)
    /\ IsFiniteSet(node.spec.hostnames)
    /\ IsSequence(node.spec.rules)
    /\ IsSequence(node.rules)

SoundRoutes(routes) == IsFiniteSet(DOMAIN routes) /\ \A r \in DOMAIN routes : SoundRoute(routes[r])

LEMMA HostnamesFinite ==
    ASSUME NEW listener, NEW hostnames, IsFiniteSet(hostnames)
    PROVE  IsFiniteSet(GetHostnamesForRouteWithListener(listener, hostnames))
<1> DEFINE S == GetHostnamesForRouteWithListener(listener, hostnames)
<1>1. S \subseteq hostnames \cup {listener}
  <2>1. CASE listener = <<>>
    BY <2>1 DEF GetHostnamesForRouteWithListener
  <2>2. CASE listener # <<>> /\ hostnames = {}
    BY <2>2 DEF GetHostnamesForRouteWithListener
  <2>3. CASE listener # <<>> /\ hostnames # {}
    BY <2>3 DEF GetHostnamesForRouteWithListener
  <2>. QED BY <2>1, <2>2, <2>3
<1>2. IsFiniteSet(hostnames \cup {listener})
  BY FS_AddElement
<1> HIDE DEF S
<1>3. IsFiniteSet(S)
  BY <1>1, <1>2, FS_Subset
<1>. QED BY <1>3 DEF S

LEMMA ValidHTTPRouteCalls ==
    ASSUME NEW node, SoundRoute(node), NEW ref
    PROVE  IsSequence(onValidHTTPRouteUpserted(node, ref))
<1> DEFINE some  == SetToSeq(node.spec.hostnames)
           other == SetToSeq(GetHostnamesForRouteWithListener(ref.spec.hostname, node.spec.hostnames))
           hosts == some \o other
           Step(rule) == [j \in DOMAIN hosts |->
                            [rule |-> rule,
                             entry |-> Entry(<<ref.gateway, ref.listener>>,
                                             PathMap(rule.path, hosts[j]), hosts[j], rule.path.value)]]
           calls == [i \in DOMAIN node.rules |-> Step(node.rules[i])]
<1>1. onValidHTTPRouteUpserted(node, ref) = FlattenSeq(calls)
  BY DEF onValidHTTPRouteUpserted
<1>2. IsSequence(some) /\ IsSequence(other)
  BY SetToSeqIsSequence, HostnamesFinite DEF SoundRoute
<1> HIDE DEF some, other
<1>3. IsSequence(hosts)
  BY <1>2, ConcatSequence
<1>4. Len(hosts) \in Nat /\ DOMAIN hosts = 1..Len(hosts)
  BY <1>3, SequenceLength
<1> HIDE DEF hosts
<1>5. ASSUME NEW rule PROVE IsSequence(Step(rule))
  BY <1>4, DomainIsSequence
<1>6. Len(node.rules) \in Nat /\ DOMAIN node.rules = 1..Len(node.rules)
  BY SequenceLength DEF SoundRoute
<1> HIDE DEF Step
<1>7. IsSequence(FlattenSeq(calls))
  BY <1>5, <1>6, FlattenSteps
<1>. QED BY <1>1, <1>7

LEMMA ValidTLSRouteCalls ==
    ASSUME NEW node, SoundRoute(node), NEW ref
    PROVE  IsSequence(onValidTLSRouteUpserted(node, ref))
<1> DEFINE hosts == SetToSeq(GetHostnamesForRouteWithListener(ref.spec.hostname, node.spec.hostnames))
           Step(rule) == [j \in DOMAIN hosts |->
                            [rule |-> rule,
                             entry |-> Entry(<<ref.gateway, ref.listener>>,
                                             IF rule.valid THEN SNIMap(hosts[j]) ELSE "sni",
                                             hosts[j], <<>>)]]
           calls == [i \in DOMAIN node.rules |-> Step(node.rules[i])]
<1>1. onValidTLSRouteUpserted(node, ref) = FlattenSeq(calls)
  BY DEF onValidTLSRouteUpserted
<1>2. IsSequence(hosts)
  BY SetToSeqIsSequence, HostnamesFinite DEF SoundRoute
<1>3. Len(hosts) \in Nat /\ DOMAIN hosts = 1..Len(hosts)
  BY <1>2, SequenceLength
<1> HIDE DEF hosts
<1>4. ASSUME NEW rule PROVE IsSequence(Step(rule))
  BY <1>3, DomainIsSequence
<1>5. Len(node.rules) \in Nat /\ DOMAIN node.rules = 1..Len(node.rules)
  BY SequenceLength DEF SoundRoute
<1> HIDE DEF Step
<1>6. IsSequence(FlattenSeq(calls))
  BY <1>4, <1>5, FlattenSteps
<1>. QED BY <1>1, <1>6

LEMMA DeletedRouteCalls ==
    ASSUME NEW node, SoundRoute(node), NEW ref
    PROVE  /\ IsSequence(onDeletedHTTPRoute(node, ref))
           /\ IsSequence(onDeletedTLSRoute(node, ref))
<1> DEFINE hosts == SetToSeq(node.spec.hostnames)
           Step(path) == [j \in DOMAIN hosts |->
                            Deletion(Entry(<<ref.gateway, ref.listener>>, PathMap(path, hosts[j]),
                                           hosts[j], path.value))]
           calls == [i \in DOMAIN node.rules |-> Step(node.rules[i].path)]
           names == [j \in DOMAIN hosts |->
                       Deletion(Entry(<<ref.gateway, ref.listener>>, SNIMap(hosts[j]), hosts[j], <<>>))]
<1>1. onDeletedHTTPRoute(node, ref) = FlattenSeq(calls) /\ onDeletedTLSRoute(node, ref) = names
  BY DEF onDeletedHTTPRoute, onDeletedTLSRoute
<1>2. IsSequence(hosts)
  BY SetToSeqIsSequence DEF SoundRoute
<1>3. Len(hosts) \in Nat /\ DOMAIN hosts = 1..Len(hosts)
  BY <1>2, SequenceLength
<1> HIDE DEF hosts
<1>4. IsSequence(names)
  BY <1>3, DomainIsSequence
<1>5. ASSUME NEW path PROVE IsSequence(Step(path))
  BY <1>3, DomainIsSequence
<1>6. Len(node.rules) \in Nat /\ DOMAIN node.rules = 1..Len(node.rules)
  BY SequenceLength DEF SoundRoute
<1> HIDE DEF Step, names
<1>7. IsSequence(FlattenSeq(calls))
  BY <1>5, <1>6, FlattenSteps
<1>. QED BY <1>1, <1>4, <1>7

(* A route as it was before the batch has no listeners left, and so        *)
(* nothing is deleted for it.                                              *)
LEMMA OldRouteCalls ==
    ASSUME SoundRoutes(tree.routes), NEW r
    PROVE  /\ IsSequence(PerListener(onDeletedHTTPRoute, OldTreeResource(r)))
           /\ IsSequence(PerListener(onDeletedTLSRoute, OldTreeResource(r)))
<1> DEFINE old  == OldTreeResource(r)
           refs == SetToSeq(old.refs)
<1>1. old.refs = {}
  BY DEF OldTreeResource, DeepCopy, SoundRoutes, SoundRoute, RouteFields
<1>2. IsFiniteSet({}) /\ Cardinality({}) = 0
  BY FS_EmptySet
<1>3. DOMAIN refs = 1..0
  BY <1>1, <1>2, SetToSeqIsSequence
<1> HIDE DEF refs, old
<1>4. ASSUME NEW f, DOMAIN f = 1..0, f = [i \in 1..0 |-> f[i]] PROVE IsSequence(FlattenSeq(f))
  <2>1. 0 \in Nat /\ \A i \in 1..0 : IsSequence(f[i])
    OBVIOUS
  <2>. QED BY <1>4, <2>1, FlattenSteps
<1> DEFINE http == [i \in DOMAIN refs |-> onDeletedHTTPRoute(old, refs[i])]
           tls  == [i \in DOMAIN refs |-> onDeletedTLSRoute(old, refs[i])]
<1>5. DOMAIN http = 1..0 /\ http = [i \in 1..0 |-> http[i]] /\ DOMAIN tls = 1..0 /\ tls = [i \in 1..0 |-> tls[i]]
  BY <1>3
<1>6. PerListener(onDeletedHTTPRoute, old) = FlattenSeq(http) /\ PerListener(onDeletedTLSRoute, old) = FlattenSeq(tls)
  BY DEF PerListener, refs
<1> HIDE DEF http, tls
<1>. QED BY <1>4, <1>5, <1>6 DEF old

LEMMA ReplaysHTTPRoutes ==
    ASSUME SoundRoutes(tree.routes), NEW t, SoundRoutes(t.routes), NEW routes, IsSequence(routes),
           \A i \in 1..Len(routes) : routes[i] \in DOMAIN t.routes,
           NEW m, NEW data, Replays(m, data)
    PROVE  Replays(fillMapsForHTTPRoutes(t, m, routes), data)
<1> DEFINE Touch(node, ref) == IF node.status = Deleted THEN onDeletedHTTPRoute(node, ref)
                               ELSE onUpsertedHTTPRoute(node, ref)
           Clean(r) == PerListener(onDeletedHTTPRoute, OldTreeResource(r))
           Fill(r)  == PerListener(Touch, t.routes[r])
           first  == PerRoute(Clean, routes)
           second == PerRoute(Fill, routes)
<1>1. fillMapsForHTTPRoutes(t, m, routes) = ApplyRules(m, first \o second)
  BY DEF fillMapsForHTTPRoutes
<1>2. Len(routes) \in Nat /\ DOMAIN routes = 1..Len(routes)
  BY SequenceLength
<1>3. IsSequence(first)
  <2>1. \A r : IsSequence(Clean(r))
    BY OldRouteCalls
  <2> HIDE DEF Clean
  <2>2. IsSequence(FlattenSeq([i \in DOMAIN routes |-> Clean(routes[i])]))
    BY <1>2, <2>1, FlattenSteps
  <2>. QED BY <2>2 DEF PerRoute
<1>4. IsSequence(second)
  <2>1. ASSUME NEW r \in DOMAIN t.routes PROVE IsSequence(Fill(r))
    <3> DEFINE node == t.routes[r]
               refs == SetToSeq(node.refs)
    <3>1. SoundRoute(node)
      BY DEF SoundRoutes
    <3> HIDE DEF node
    <3>2. IsSequence(<<>>)
      BY DEF IsSequence
    <3>3. ASSUME NEW ref PROVE IsSequence(Touch(node, ref))
      BY <3>1, <3>2, DeletedRouteCalls, ValidHTTPRouteCalls DEF onUpsertedHTTPRoute
    <3>4. IsSequence(refs)
      BY <3>1, SetToSeqIsSequence DEF SoundRoute
    <3>5. Len(refs) \in Nat /\ DOMAIN refs = 1..Len(refs)
      BY <3>4, SequenceLength
    <3> HIDE DEF refs, Touch
    <3>6. IsSequence(FlattenSeq([i \in DOMAIN refs |-> Touch(node, refs[i])]))
      BY <3>3, <3>5, FlattenSteps
    <3>. QED BY <3>6 DEF PerListener, refs, node
  <2> HIDE DEF Fill
  <2>2. IsSequence(FlattenSeq([i \in DOMAIN routes |-> Fill(routes[i])]))
    BY <1>2, <2>1, FlattenSteps
  <2>. QED BY <2>2 DEF PerRoute
<1> HIDE DEF first, second
<1>5. Len(first \o second) \in Nat
  BY <1>3, <1>4, ConcatSequence, SequenceLength
<1>. QED BY <1>1, <1>5, ReplaysRules

LEMMA ReplaysTLSRoutes ==
    ASSUME SoundRoutes(tree.routes), NEW t, SoundRoutes(t.routes), NEW routes, IsSequence(routes),
           \A i \in 1..Len(routes) : routes[i] \in DOMAIN t.routes,
           NEW m, NEW data, Replays(m, data)
    PROVE  Replays(fillMapsForTLSRoutes(t, m, routes), data)
<1> DEFINE Touch(node, ref) == IF node.status = Deleted THEN onDeletedTLSRoute(node, ref)
                               ELSE onUpsertedTLSRoute(node, ref)
           Clean(r) == PerListener(onDeletedTLSRoute, OldTreeResource(r))
           Fill(r)  == PerListener(Touch, t.routes[r])
           first  == PerRoute(Clean, routes)
           second == PerRoute(Fill, routes)
<1>1. fillMapsForTLSRoutes(t, m, routes) = ApplyRules(m, first \o second)
  BY DEF fillMapsForTLSRoutes
<1>2. Len(routes) \in Nat /\ DOMAIN routes = 1..Len(routes)
  BY SequenceLength
<1>3. IsSequence(first)
  <2>1. \A r : IsSequence(Clean(r))
    BY OldRouteCalls
  <2> HIDE DEF Clean
  <2>2. IsSequence(FlattenSeq([i \in DOMAIN routes |-> Clean(routes[i])]))
    BY <1>2, <2>1, FlattenSteps
  <2>. QED BY <2>2 DEF PerRoute
<1>4. IsSequence(second)
  <2>1. ASSUME NEW r \in DOMAIN t.routes PROVE IsSequence(Fill(r))
    <3> DEFINE node == t.routes[r]
               refs == SetToSeq(node.refs)
    <3>1. SoundRoute(node)
      BY DEF SoundRoutes
    <3> HIDE DEF node
    <3>2. IsSequence(<<>>)
      BY DEF IsSequence
    <3>3. ASSUME NEW ref PROVE IsSequence(Touch(node, ref))
      BY <3>1, <3>2, DeletedRouteCalls, ValidTLSRouteCalls DEF onUpsertedTLSRoute
    <3>4. IsSequence(refs)
      BY <3>1, SetToSeqIsSequence DEF SoundRoute
    <3>5. Len(refs) \in Nat /\ DOMAIN refs = 1..Len(refs)
      BY <3>4, SequenceLength
    <3> HIDE DEF refs, Touch
    <3>6. IsSequence(FlattenSeq([i \in DOMAIN refs |-> Touch(node, refs[i])]))
      BY <3>3, <3>5, FlattenSteps
    <3>. QED BY <3>6 DEF PerListener, refs, node
  <2> HIDE DEF Fill
  <2>2. IsSequence(FlattenSeq([i \in DOMAIN routes |-> Fill(routes[i])]))
    BY <1>2, <2>1, FlattenSteps
  <2>. QED BY <2>2 DEF PerRoute
<1> HIDE DEF first, second
<1>5. Len(first \o second) \in Nat
  BY <1>3, <1>4, ConcatSequence, SequenceLength
<1>. QED BY <1>1, <1>5, ReplaysRules

(* fillMaps: the commands of a batch, replayed, lead from the maps of      *)
(* before to the maps it leaves.                                           *)
LEMMA ReplaysBatch ==
    ASSUME SoundRoutes(tree.routes), NEW t, SoundRoutes(t.routes),
           NEW http \in SetToSeqs(HTTPRoutes \cap FilledRoutes(t)),
           NEW tls \in SetToSeqs(TLSRoutes \cap FilledRoutes(t))
    PROVE  Replays(fillMaps(t, http, tls), maps)
<1>1. ASSUME NEW K, NEW routes \in SetToSeqs(K \cap FilledRoutes(t))
      PROVE  IsSequence(routes) /\ \A i \in 1..Len(routes) : routes[i] \in DOMAIN t.routes
  <2> DEFINE S == K \cap FilledRoutes(t)
  <2>1. S \subseteq DOMAIN t.routes
    BY DEF FilledRoutes
  <2>2. IsFiniteSet(S)
    BY <2>1, FS_Subset DEF SoundRoutes
  <2>3. Cardinality(S) \in Nat
    BY <2>2, FS_CardinalityType
  <2>4. routes \in [1..Cardinality(S) -> S]
    BY DEF SetToSeqs
  <2> HIDE DEF S
  <2>5. IsSequence(routes) /\ Len(routes) = Cardinality(S)
    BY <2>3, <2>4, FunctionIsSequence
  <2>. QED BY <2>1, <2>4, <2>5
<1> DEFINE m == fillMapsForHTTPRoutes(t, NoUpdates(maps), http)
<1>2. Replays(m, maps)
  BY <1>1, ReplaysNothing, ReplaysHTTPRoutes
<1> HIDE DEF m
<1>3. Replays(fillMapsForTLSRoutes(t, m, tls), maps)
  BY <1>1, <1>2, ReplaysTLSRoutes
<1>. QED BY <1>3 DEF fillMaps, m

-----------------------------------------------------------------------------
(* The process and the lists of deletions                                  *)
TouchedMaps(m) == {MapOf(e) : e \in DOMAIN m.Add \cup DOMAIN m.Update} \cup DOMAIN m.Delete

LEMMA DeletedKey ==
    ASSUME NEW m, ListsSound(m), NEW e, NEW S
    PROVE  e \in DeletedKeys(m, S) <=> MapOf(e) \in S /\ Positions(m, e) # {}
<1>1. ASSUME NEW x PROVE e \in ToSet(DeleteList(m, x)) <=> x = MapOf(e) /\ Positions(m, e) # {}
  <2> DEFINE s == DeleteList(m, x)
  <2>1. IsSequence(s) /\ \A i \in 1..Len(s) : MapOf(s[i]) = x
    BY ListIsSequence
  <2>2. DOMAIN s = 1..Len(s)
    BY <2>1, SequenceLength
  <2>3. e \in ToSet(s) <=> \E i \in 1..Len(s) : s[i] = e
    BY <2>2 DEF ToSet
  <2> HIDE DEF s
  <2>. QED BY <2>1, <2>3 DEF Positions, s
<1>. QED BY <1>1 DEF DeletedKeys

(* What the process did not refuse was acceptable.                         *)
LEMMA AcceptedCommands ==
    ASSUME NEW m, ListsSound(m), NEW e, ~ Refuses(m, MapOf(e))
    PROVE  Acceptable(m, process.maps, e)
<1> DEFINE x == MapOf(e)
           s == DeleteList(m, x)
           d == DeletesOf(m, x)
<1>1. Len(s) \in Nat
  BY ListIsSequence, SequenceLength
<1>2. Len(d) = Len(s) /\ \A i \in 1..Len(s) : Len(s) - i + 1 \in 1..Len(s) /\ d[Len(s) - i + 1] = s[i]
  <2>1. d = [i \in 1..Len(s) |-> s[(Len(s) - i) + 1]]
    BY DEF DeletesOf, Reverse
  <2> HIDE DEF s, d
  <2>2. Len(d) = Len(s)
    BY <1>1, <2>1
  <2>3. ASSUME NEW i \in 1..Len(s) PROVE Len(s) - i + 1 \in 1..Len(s) /\ d[Len(s) - i + 1] = s[i]
    <3>1. Len(s) - i + 1 \in 1..Len(s) /\ (Len(s) - (Len(s) - i + 1)) + 1 = i
      BY <1>1
    <3>. QED BY <2>1, <3>1
  <2>. QED BY <2>2, <2>3
<1>3. ASSUME NEW i \in 1..Len(d)
      PROVE  d[i] \in DOMAIN process.maps /\ \A j \in 1..(i - 1) : d[j] # d[i]
  BY DEF Refuses, DeletesRefused, DeleteRefused
<1>4. \A i \in Positions(m, e) : i \in 1..Len(s) /\ s[i] = e
  BY DEF Positions
<1> HIDE DEF s, d
<1>5. Positions(m, e) # {} => e \in DOMAIN process.maps
  <2> SUFFICES ASSUME NEW i \in Positions(m, e) PROVE e \in DOMAIN process.maps
      OBVIOUS
  <2>1. Len(s) - i + 1 \in 1..Len(d) /\ d[Len(s) - i + 1] = e
    BY <1>2, <1>4
  <2>. QED BY <1>3, <2>1
<1>6. ASSUME NEW i \in Positions(m, e), NEW j \in Positions(m, e), i < j PROVE FALSE
  <2>1. /\ i \in 1..Len(s) /\ j \in 1..Len(s)
        /\ Len(s) - i + 1 \in 1..Len(d) /\ d[Len(s) - i + 1] = e
        /\ Len(s) - j + 1 \in 1..Len(d) /\ d[Len(s) - j + 1] = e
    BY <1>2, <1>4
  <2>2. Len(s) - j + 1 \in 1..((Len(s) - i + 1) - 1)
    BY <1>1, <1>6, <2>1
  <2>. QED BY <1>3, <2>1, <2>2
<1>7. \A i, j \in Positions(m, e) : i = j
  <2> SUFFICES ASSUME NEW i \in Positions(m, e), NEW j \in Positions(m, e) PROVE i = j
      OBVIOUS
  <2>1. i \in Nat /\ j \in Nat
    BY <1>4
  <2>. QED BY <1>6, <2>1
<1>8. e \in DOMAIN m.Update => e \in DOMAIN process.maps /\ Positions(m, e) = {}
  <2> SUFFICES ASSUME e \in DOMAIN m.Update PROVE e \in DOMAIN process.maps /\ Positions(m, e) = {}
      OBVIOUS
  <2>1. e \in DOMAIN Commands(m.Update, {x})
    BY DEF Commands
  <2>2. e \in Remaining(m, x)
    BY <2>1 DEF Refuses
  <2>. QED BY <2>2, DeletedKey DEF Remaining
<1>. QED BY <1>5, <1>7, <1>8 DEF Acceptable

(* Commands that are all accepted: the process ends with what is loaded    *)
(* from disk.                                                              *)
LEMMA AcceptedSync ==
    ASSUME NEW m, Replays(m, maps), \A x \in TouchedMaps(m) : ~ Refuses(m, x),
           process.maps = [e \in {x \in DOMAIN maps : x.frontend \in process.known} |-> maps[e]]
    PROVE  SyncMaps(m, process.maps, TouchedMaps(m)) =
             [e \in {x \in DOMAIN m.data : x.frontend \in process.known} |-> m.data[e]]
<1> DEFINE S == TouchedMaps(m)
           pm == process.maps
           known == process.known
           deleted == Without(pm, DeletedKeys(m, S))
           updated == Override(deleted, Commands(m.Update, S))
           new == SyncMaps(m, pm, S)
           wanted == [e \in {x \in DOMAIN m.data : x.frontend \in known} |-> m.data[e]]
<1>1. ListsSound(m)
  BY DEF Replays
<1>2. /\ new = Override(Commands(m.Add, S), updated)
      /\ \A e : e \in DOMAIN deleted <=> e \in DOMAIN pm /\ e \notin DeletedKeys(m, S)
      /\ \A e \in DOMAIN deleted : deleted[e] = pm[e]
  BY DEF SyncMaps, Without
<1>3. /\ \A e : e \in DOMAIN pm <=> e \in DOMAIN maps /\ e.frontend \in known
      /\ \A e \in DOMAIN pm : pm[e] = maps[e]
  OBVIOUS
<1> HIDE DEF pm, known, deleted
<1>4. /\ \A e : e \in DOMAIN updated <=> e \in DOMAIN deleted \/ (e \in DOMAIN m.Update /\ MapOf(e) \in S)
      /\ \A e \in DOMAIN updated : updated[e] = IF e \in DOMAIN m.Update /\ MapOf(e) \in S THEN m.Update[e]
                                                ELSE deleted[e]
  BY DEF Override, Commands
<1> HIDE DEF updated
<1>5. /\ DOMAIN new = DOMAIN updated \cup DOMAIN Commands(m.Add, S)
      /\ \A e : e \in DOMAIN new <=> e \in DOMAIN updated \/ (e \in DOMAIN m.Add /\ MapOf(e) \in S)
      /\ \A e \in DOMAIN new : new[e] = IF e \in DOMAIN updated THEN updated[e] ELSE m.Add[e]
      /\ new = [e \in DOMAIN new |-> new[e]]
  BY <1>2 DEF Override, Commands
<1> HIDE DEF new
<1>6. ASSUME NEW e
      PROVE  /\ e \in DOMAIN new <=> e \in DOMAIN m.data /\ e.frontend \in known
             /\ e \in DOMAIN new => new[e] = m.data[e]
  <2>1. e \in DeletedKeys(m, S) <=> MapOf(e) \in S /\ Positions(m, e) # {}
    BY <1>1, DeletedKey
  <2>2. MapOf(e) \notin S => e \notin DOMAIN m.Add /\ e \notin DOMAIN m.Update /\ Positions(m, e) = {}
    BY DEF TouchedMaps, Positions, DeleteList
  <2>3. MapOf(e) \in S => Acceptable(m, pm, e) /\ e.frontend \in known
    <3> SUFFICES ASSUME MapOf(e) \in S PROVE Acceptable(m, pm, e) /\ e.frontend \in known
        OBVIOUS
    <3>1. ~ Refuses(m, MapOf(e))
      OBVIOUS
    <3>2. Acceptable(m, pm, e)
      BY <1>1, <3>1, AcceptedCommands DEF pm
    <3>3. MapOf(e)[1] \in known
      BY <3>1 DEF Refuses, known
    <3>. QED BY <3>2, <3>3 DEF MapOf
  <2>4. Acceptable(m, maps, e)
    BY <1>3, <2>2, <2>3 DEF Acceptable
  <2>5. Leads(m, maps, e)
    BY <2>4 DEF Replays
  <2> HIDE DEF S
  <2>6. CASE MapOf(e) \notin S
    <3>1. e \in DOMAIN new <=> e \in DOMAIN maps /\ e.frontend \in known
      BY <1>2, <1>3, <1>4, <1>5, <2>1, <2>2, <2>6
    <3>2. e \in DOMAIN new => new[e] = maps[e]
      BY <1>2, <1>3, <1>4, <1>5, <2>1, <2>2, <2>6
    <3>3. (e \in DOMAIN m.data <=> e \in DOMAIN maps) /\ (e \in DOMAIN maps => m.data[e] = maps[e])
      BY <2>2, <2>5, <2>6 DEF Leads, Stays
    <3>. QED BY <3>1, <3>2, <3>3
  <2>7. CASE MapOf(e) \in S
    <3>1. CASE Stays(m, maps, e)
      <4>1. e \in DOMAIN deleted /\ deleted[e] = maps[e]
        BY <1>2, <1>3, <2>1, <2>3, <2>7, <3>1 DEF Stays
      <4>2. e \in DOMAIN updated /\ updated[e] = IF e \in DOMAIN m.Update THEN m.Update[e] ELSE maps[e]
        BY <1>4, <2>7, <4>1
      <4>3. e \in DOMAIN m.data /\ m.data[e] = IF e \in DOMAIN m.Update THEN m.Update[e] ELSE maps[e]
        BY <2>5, <3>1 DEF Leads
      <4>. QED BY <1>5, <2>3, <2>7, <4>2, <4>3
    <3>2. CASE ~ Stays(m, maps, e)
      <4>1. e \notin DOMAIN deleted
        BY <1>2, <1>3, <2>1, <2>7, <3>2 DEF Stays
      <4>2. e \notin DOMAIN m.Update
        BY <2>4, <3>2 DEF Acceptable, Stays
      <4>3. e \notin DOMAIN updated
        BY <1>4, <4>1, <4>2
      <4>4. (e \in DOMAIN m.data <=> e \in DOMAIN m.Add) /\ (e \in DOMAIN m.data => m.data[e] = m.Add[e])
        BY <2>5, <3>2 DEF Leads
      <4>. QED BY <1>5, <2>3, <2>7, <4>3, <4>4
    <3>. QED BY <3>1, <3>2
  <2>. QED BY <2>6, <2>7
<1>7. new = wanted
  <2>1. DOMAIN new = DOMAIN wanted
    BY <1>6
  <2>2. \A e \in DOMAIN new : new[e] = wanted[e]
    BY <1>6
  <2>3. wanted = [e \in DOMAIN wanted |-> wanted[e]]
    OBVIOUS
  <2> HIDE DEF wanted
  <2>. QED BY <1>5, <2>1, <2>2, <2>3
<1>. QED BY <1>7 DEF new, pm, known

-----------------------------------------------------------------------------
(* The routes of the tree stay sound through the stages of a batch.        *)
ListenersFinite(t) == \A g \in DOMAIN t.gateways : IsFiniteSet(DOMAIN t.gateways[g].listeners)

LEMMA FiniteImage ==
    ASSUME NEW f, IsFiniteSet(DOMAIN f)
    PROVE  IsFiniteSet({f[x] : x \in DOMAIN f})
<1> DEFINE S == DOMAIN f
           T == {f[x] : x \in S}
           h == [x \in S |-> f[x]]
<1>1. h \in [S -> T] /\ \A y \in T : \E x \in S : h[x] = y
  OBVIOUS
<1>2. h \in Surjection(S, T)
  BY <1>1 DEF Surjection
<1> HIDE DEF T, h
<1>3. IsFiniteSet(T)
  BY <1>2, FS_Surjection
<1>. QED BY <1>3 DEF T

LEMMA FiniteKept ==
    ASSUME NEW t, NEW u, GatewaysKept(t, u), ListenersFinite(t)
    PROVE  ListenersFinite(u)
BY DEF GatewaysKept, SameGateway, SameListeners, ListenersFinite

LEMMA FreshListeners ==
    ASSUME NEW t, NEW g, NEW spec
    PROVE  processManagementChecks(t, g, spec).listeners = <<>>
<1>1. CASE spec.class \notin DOMAIN t.classes
  BY <1>1 DEF processManagementChecks, Reset
<1>2. CASE spec.class \in DOMAIN t.classes
  BY <1>2 DEF processManagementChecks
<1>. QED BY <1>1, <1>2

LEMMA FiniteBuilt ==
    ASSUME TreeShape, InputsSound, SoundGateways(tree), ListenersFinite(tree)
    PROVE  ListenersFinite(WithGateways)
<1> SUFFICES ASSUME NEW g \in DOMAIN WithGateways.gateways
             PROVE  IsFiniteSet(DOMAIN WithGateways.gateways[g].listeners)
    BY DEF ListenersFinite
<1>1. g \in DOMAIN CheckedTree.gateways /\ g \in DOMAIN BeforeConflicts.gateways
  BY BuiltGateway, RecheckedGateway
<1>2. DOMAIN <<>> = {} /\ IsFiniteSet({})
  BY FS_EmptySet
<1>3. IsFiniteSet(DOMAIN BeforeConflicts.gateways[g].listeners)
  <2>1. CASE g \in InStore(Gateways)
    <3>1. BeforeConflicts.gateways[g] = processManagementChecks(Listed, g, store[g])
      BY <1>1, <2>1, UpdatedGateway
    <3>2. processManagementChecks(Listed, g, store[g]).listeners = <<>>
      BY FreshListeners
    <3>. QED BY <1>2, <3>1, <3>2
  <2>2. CASE g \in Gone(Gateways)
    BY <1>1, <1>2, <2>2, UpdatedGateway DEF Gone, InStore
  <2>3. CASE g \notin InStore(Gateways) /\ g \notin Gone(Gateways)
    <3>1. g \in DOMAIN Listed.gateways /\ BeforeConflicts.gateways[g] = Listed.gateways[g]
      BY <1>1, <2>3, UpdatedGateway DEF Gone, InStore
    <3>. QED BY <3>1, CleanedGateway DEF ListenersFinite
  <2>. QED BY <2>1, <2>2, <2>3
<1>4. IsFiniteSet(DOMAIN CheckedTree.gateways[g].listeners)
  <2> DEFINE spec == BeforeConflicts.gateways[g].spec
  <2>1. processManagementChecks(BeforeConflicts, g, spec).listeners = <<>>
    BY FreshListeners
  <2>2. CASE g \in Rechecked(BeforeConflicts)
    <3>1. CheckedTree.gateways[g] = processManagementChecks(BeforeConflicts, g, spec)
      BY <2>2, RecheckedGateway
    <3>. QED BY <1>2, <2>1, <3>1
  <2>3. CASE g \notin Rechecked(BeforeConflicts)
    BY <1>1, <1>3, <2>3, RecheckedGateway
  <2>. QED BY <2>2, <2>3
<1>5. CASE g \in ProcessedGateways
  <2> DEFINE node == CheckedTree.gateways[g]
  <2>1. WithGateways.gateways[g] = buildListeners(BeforeConflicts, node, portsWithMultipleListeners(BeforeConflicts))
    BY <1>5, BuiltGateway
  <2>2. g \in Gateways /\ node.spec \in Versions[g]
    BY <1>1, StageChecked
  <2> HIDE DEF node
  <2>3. IsFiniteSet(DOMAIN node.spec.listeners)
    BY <2>2, SpecsAssumption
  <2>. QED BY <2>1, <2>3 DEF buildListeners
<1>6. CASE g \notin ProcessedGateways
  BY <1>1, <1>4, <1>6, BuiltGateway
<1>. QED BY <1>5, <1>6

LEMMA CleanedRoutes ==
    ASSUME NEW routes, SoundRoutes(routes)
    PROVE  SoundRoutes(Cleaned(routes))
<1> DEFINE new == Cleaned(routes)
<1>1. DOMAIN new \subseteq DOMAIN routes /\ \A r \in DOMAIN new : new[r] = [routes[r] EXCEPT !.status = Untouched]
  BY DEF Cleaned
<1> HIDE DEF new
<1>2. IsFiniteSet(DOMAIN new)
  BY <1>1, FS_Subset DEF SoundRoutes
<1>3. ASSUME NEW r \in DOMAIN new PROVE SoundRoute(new[r])
  <2>1. SoundRoute(routes[r])
    BY <1>1 DEF SoundRoutes
  <2>. QED BY <1>1, <2>1 DEF SoundRoute, RouteFields
<1>. QED BY <1>2, <1>3 DEF SoundRoutes, new

LEMMA DetachedRoutes ==
    ASSUME NEW routes, SoundRoutes(routes), NEW S
    PROVE  SoundRoutes(Detach(routes, S))
<1> DEFINE new == Detach(routes, S)
           Mark(ref) == [ref EXCEPT !.current = @ /\ ref.gateway \notin S]
<1>1. DOMAIN new = DOMAIN routes
  BY DEF Detach
<1>2. ASSUME NEW r \in DOMAIN routes PROVE SoundRoute(new[r])
  <2> DEFINE refs == routes[r].refs
             f == [ref \in refs |-> Mark(ref)]
  <2>1. new[r] = [routes[r] EXCEPT !.refs = {Mark(ref) : ref \in refs}]
    BY DEF Detach
  <2> HIDE DEF Mark, new
  <2>2. SoundRoute(routes[r])
    BY DEF SoundRoutes
  <2>3. {f[x] : x \in DOMAIN f} = {Mark(ref) : ref \in refs} /\ DOMAIN f = refs
    OBVIOUS
  <2> HIDE DEF f
  <2>4. IsFiniteSet({f[x] : x \in DOMAIN f})
    BY <2>2, <2>3, FiniteImage DEF SoundRoute
  <2>5. IsFiniteSet({Mark(ref) : ref \in refs})
    BY <2>3, <2>4
  <2>6. Marked({Mark(ref) : ref \in refs})
    BY <2>2 DEF SoundRoute, Marked, Mark
  <2>. QED BY <2>1, <2>2, <2>5, <2>6 DEF SoundRoute, RouteFields
<1>. QED BY <1>1, <1>2 DEF SoundRoutes

LEMMA OverriddenRoutes ==
    ASSUME NEW routes, SoundRoutes(routes), NEW f, SoundRoutes(f)
    PROVE  SoundRoutes(Override(routes, f))
<1>1. IsFiniteSet(DOMAIN routes \cup DOMAIN f)
  BY FS_Union DEF SoundRoutes
<1>. QED BY <1>1 DEF SoundRoutes, Override

LEMMA OneRoute ==
    ASSUME NEW routes, SoundRoutes(routes), NEW r, NEW node, SoundRoute(node)
    PROVE  SoundRoutes(Override(routes, [x \in {r} |-> node]))
<1>1. IsFiniteSet({r})
  BY FS_Singleton
<1>2. SoundRoutes([x \in {r} |-> node])
  BY <1>1 DEF SoundRoutes
<1>. QED BY <1>2, OverriddenRoutes

LEMMA JoinedRoutes ==
    ASSUME NEW routes, SoundRoutes(routes), NEW r \in DOMAIN routes, NEW in
    PROVE  SoundRoutes(Joins(routes, r, in))
<1> DEFINE node == [routes[r] EXCEPT !.in = @ \cup {in}]
<1>1. SoundRoute(routes[r])
  BY DEF SoundRoutes
<1>2. SoundRoute(node)
  BY <1>1 DEF SoundRoute, RouteFields
<1> HIDE DEF node
<1>3. SoundRoutes(Override(routes, [x \in {r} |-> node]))
  BY <1>2, OneRoute
<1>. QED BY <1>3 DEF Joins, node

LEMMA UpsertedRoutes ==
    ASSUME NEW t, SoundRoutes(t.routes), InputsSound, NEW r \in Routes \cap DOMAIN store,
           NEW refs, IsFiniteSet(refs), Marked(refs)
    PROVE  SoundRoutes(UpsertRoute(t, r, refs).routes)
<1> DEFINE known == r \in DOMAIN t.routes
           node  == [in |-> IF known THEN t.routes[r].in ELSE {}, status |-> Upserted, spec |-> store[r],
                     valid |-> refs # {}, refs |-> refs,
                     rules |-> IF known THEN t.routes[r].rules ELSE <<>>]
           routes == Override(t.routes, [x \in {r} |-> node])
           built == Rebuilt(t, addAttachedRoute(t.gateways, r, refs), routes)
<1>1. UpsertRoute(t, r, refs) = IF refs # {} THEN SetAsManaged(built, r) ELSE SetAsUnmanaged(built, r)
  BY DEF UpsertRoute
<1>2. SoundRoute(node)
  <2>1. IsSequence(<<>>)
    BY DEF IsSequence
  <2>2. IsSequence(node.rules)
    BY <2>1 DEF SoundRoutes, SoundRoute
  <2>3. store[r] \in Versions[r]
    BY DEF InputsSound
  <2>4. IsFiniteSet(store[r].hostnames) /\ IsSequence(store[r].rules)
    BY <2>3, SpecsAssumption DEF IsSequence
  <2>. QED BY <2>2, <2>4 DEF SoundRoute, RouteFields
<1>3. r \in DOMAIN routes
  BY DEF Override
<1> HIDE DEF node
<1>4. SoundRoutes(routes)
  BY <1>2, OneRoute
<1>5. built.routes = routes
  BY DEF Rebuilt
<1> HIDE DEF routes, built
<1>6. SoundRoutes(Joins(routes, r, "managed"))
  BY <1>3, <1>4, JoinedRoutes
<1>7. \A S : SoundRoutes(Detach(Joins(routes, r, "unmanaged"), S))
  BY <1>3, <1>4, JoinedRoutes, DetachedRoutes
<1>8. SetAsManaged(built, r).routes = Joins(routes, r, "managed")
  BY <1>5 DEF SetAsManaged, Rebuilt
<1>9. \E S : SetAsUnmanaged(built, r).routes = Detach(Joins(routes, r, "unmanaged"), S)
  BY <1>5 DEF SetAsUnmanaged, Rebuilt
<1>. QED BY <1>1, <1>6, <1>7, <1>8, <1>9

LEMMA FoundListeners ==
    ASSUME NEW t, ListenersFinite(t), NEW spec, IsFiniteSet(spec.parents)
    PROVE  /\ IsFiniteSet(checkHTTPParentRefs(t, spec)) /\ Marked(checkHTTPParentRefs(t, spec))
           /\ IsFiniteSet(checkTLSParentRefs(t, spec)) /\ Marked(checkTLSParentRefs(t, spec))
<1>1. ASSUME NEW p PROVE IsFiniteSet(ListenersOf(t, p))
  <2>1. CASE p.gateway \notin LiveGateways(t)
    BY <2>1, FS_EmptySet DEF ListenersOf
  <2>2. CASE p.gateway \in LiveGateways(t)
    <3> DEFINE node == t.gateways[p.gateway]
               S == {x \in DOMAIN node.listeners :
                       node.listeners[x].valid /\ (p.section = AnySection \/ x = p.section)}
               f == [n \in S |-> [gateway |-> p.gateway, listener |-> n, spec |-> node.listeners[n].spec,
                                  current |-> TRUE]]
    <3>1. ListenersOf(t, p) = {f[n] : n \in DOMAIN f}
      BY <2>2 DEF ListenersOf
    <3>2. IsFiniteSet(DOMAIN node.listeners)
      BY <2>2 DEF ListenersFinite, LiveGateways, ManagedGateways
    <3>3. DOMAIN f = S /\ S \subseteq DOMAIN node.listeners
      OBVIOUS
    <3>4. IsFiniteSet(DOMAIN f)
      BY <3>2, <3>3, FS_Subset
    <3> HIDE DEF f
    <3>. QED BY <3>1, <3>4, FiniteImage
  <2>. QED BY <2>1, <2>2
<1>2. ASSUME NEW p PROVE IsFiniteSet(checkHTTPParentRef(t, spec, p)) /\ IsFiniteSet(checkTLSParentRef(t, spec, p))
  <2>1. checkHTTPParentRef(t, spec, p) \subseteq ListenersOf(t, p)
        /\ checkTLSParentRef(t, spec, p) \subseteq ListenersOf(t, p)
    BY DEF checkHTTPParentRef, checkTLSParentRef
  <2>. QED BY <1>1, <2>1, FS_Subset
<1> DEFINE http == [p \in spec.parents |-> checkHTTPParentRef(t, spec, p)]
           tls  == [p \in spec.parents |-> checkTLSParentRef(t, spec, p)]
<1>3. /\ checkHTTPParentRefs(t, spec) = UNION {http[p] : p \in DOMAIN http}
      /\ checkTLSParentRefs(t, spec) = UNION {tls[p] : p \in DOMAIN tls}
      /\ DOMAIN http = spec.parents /\ DOMAIN tls = spec.parents
  BY DEF checkHTTPParentRefs, checkTLSParentRefs
<1>4. (\A p \in spec.parents : IsFiniteSet(http[p])) /\ (\A p \in spec.parents : IsFiniteSet(tls[p]))
  BY <1>2
<1> HIDE DEF http, tls
<1>5. IsFiniteSet({http[p] : p \in DOMAIN http}) /\ IsFiniteSet({tls[p] : p \in DOMAIN tls})
  BY <1>3, FiniteImage
<1>6. /\ \A T \in {http[p] : p \in DOMAIN http} : IsFiniteSet(T)
      /\ \A T \in {tls[p] : p \in DOMAIN tls} : IsFiniteSet(T)
  BY <1>3, <1>4
<1>7. \A p : Marked(ListenersOf(t, p))
  BY DEF ListenersOf, Marked, RefFields
<1>8. Marked(checkHTTPParentRefs(t, spec)) /\ Marked(checkTLSParentRefs(t, spec))
  BY <1>7 DEF Marked, checkHTTPParentRefs, checkHTTPParentRef, checkTLSParentRefs, checkTLSParentRef
<1>. QED BY <1>3, <1>5, <1>6, <1>8, FS_UNION

LEMMA UpdatedRoutes ==
    ASSUME NEW t, SoundRoutes(t.routes), ListenersFinite(t), InputsSound, NEW r \in Routes
    PROVE  SoundRoutes(computeTreeRouteUpdate(t, r).routes)
<1>1. SoundRoutes(DeleteRoute(t, r).routes)
  <2>1. CASE r \in DOMAIN t.routes
    <3> DEFINE node == DeletedRoute(t.routes[r])
    <3>1. SoundRoute(t.routes[r])
      BY <2>1 DEF SoundRoutes
    <3>2. SoundRoute(node)
      BY <3>1, FS_EmptySet DEF DeletedRoute, SoundRoute, RouteFields, Marked
    <3> HIDE DEF node
    <3>3. SoundRoutes(Override(t.routes, [x \in {r} |-> node]))
      BY <3>2, OneRoute
    <3>. QED BY <2>1, <3>3 DEF DeleteRoute, Rebuilt, node
  <2>2. CASE r \notin DOMAIN t.routes
    BY <2>2 DEF DeleteRoute
  <2>. QED BY <2>1, <2>2
<1>2. ASSUME r \in DOMAIN store
      PROVE  /\ SoundRoutes(UpsertRoute(t, r, checkHTTPParentRefs(t, store[r])).routes)
             /\ SoundRoutes(UpsertRoute(t, r, checkTLSParentRefs(t, store[r])).routes)
  <2>1. IsFiniteSet(store[r].parents)
    BY <1>2, SpecsAssumption DEF InputsSound
  <2>2. /\ IsFiniteSet(checkHTTPParentRefs(t, store[r])) /\ Marked(checkHTTPParentRefs(t, store[r]))
        /\ IsFiniteSet(checkTLSParentRefs(t, store[r])) /\ Marked(checkTLSParentRefs(t, store[r]))
    BY <2>1, FoundListeners
  <2>. QED BY <1>2, <2>2, UpsertedRoutes
<1>. QED BY <1>1, <1>2 DEF computeTreeRouteUpdate, computeTreeHTTPRouteUpdate, computeTreeTLSRouteUpdate

LEMMA RoutesUpdated ==
    ASSUME NEW t, DOMAIN t = Kinds, NodesHaveFields(t), SoundRoutes(t.routes), ListenersFinite(t), InputsSound,
           NEW routes \in Seq(Routes)
    PROVE  SoundRoutes(computeTreeRouteUpdates(t, routes).routes)
<1>1. Len(routes) \in Nat
  OBVIOUS
<1>2. PICK built : /\ built = [i \in 0..Len(routes) |->
                                  IF i = 0 THEN t ELSE computeTreeRouteUpdate(built[i - 1], routes[i])]
                   /\ computeTreeRouteUpdates(t, routes) = built[Len(routes)]
  BY <1>1, RouteUpdatesUnfold
<1> DEFINE Kept(n) == GatewaysKept(t, built[n]) /\ SoundRoutes(built[n].routes)
           T == {n \in 0..Len(routes) : ~ Kept(n)}
<1>3. T = {}
  <2> SUFFICES ASSUME T # {} PROVE FALSE
      OBVIOUS
  <2>1. T \in SUBSET Nat
    BY <1>1
  <2>2. PICK n \in T : \A m \in T : n <= m
    BY ONLY <2>1, T # {}, LeastNatural
  <2>3. n # 0
    BY <1>1, <1>2, KeptReflexive
  <2>4. n - 1 \notin T /\ n - 1 \in 0..Len(routes) /\ n \in 1..Len(routes)
    <3>1. n \in 0..Len(routes)
      OBVIOUS
    <3>2. n - 1 \in 0..Len(routes) /\ ~ (n <= n - 1) /\ n \in 1..Len(routes)
      BY <1>1, <2>3, <3>1
    <3> HIDE DEF T
    <3>. QED BY <2>2, <3>2
  <2>5. Kept(n - 1)
    BY <2>4
  <2>6. routes[n] \in Routes
    BY <2>4
  <2>7. built[n] = computeTreeRouteUpdate(built[n - 1], routes[n])
    BY <1>2, <2>3, <2>4
  <2>8. DOMAIN built[n - 1] = Kinds /\ NodesHaveFields(built[n - 1]) /\ ListenersFinite(built[n - 1])
    BY <2>5, KeptFields, FiniteKept DEF GatewaysKept
  <2>9. GatewaysKept(built[n - 1], built[n])
    BY <2>6, <2>7, <2>8, KeptUpdate
  <2>10. GatewaysKept(t, built[n])
    BY <2>5, <2>9, KeptTransitive
  <2>11. SoundRoutes(built[n].routes)
    BY <2>5, <2>6, <2>7, <2>8, UpdatedRoutes
  <2>. QED BY <2>2, <2>10, <2>11
<1>4. Kept(Len(routes))
  BY <1>1, <1>3
<1>. QED BY <1>2, <1>4

LEMMA RuledRoutes ==
    ASSUME NEW t, SoundRoutes(t.routes), NEW K
    PROVE  SoundRoutes(WithRules(t, K).routes)
<1> DEFINE managed == {r \in K \cap DOMAIN t.routes : t.routes[r].status = Upserted /\ t.routes[r].valid}
           f == [r \in managed |-> [t.routes[r] EXCEPT !.rules = buildRules(t, t.routes[r].spec.rules)]]
<1>1. WithRules(t, K).routes = Override(t.routes, f)
  BY DEF WithRules, Rebuilt
<1>2. DOMAIN f = managed /\ managed \subseteq DOMAIN t.routes
  OBVIOUS
<1>3. IsFiniteSet(DOMAIN f)
  BY <1>2, FS_Subset DEF SoundRoutes
<1>4. ASSUME NEW r \in DOMAIN f PROVE SoundRoute(f[r])
  <2> DEFINE rules == t.routes[r].spec.rules
  <2>1. f[r] = [t.routes[r] EXCEPT !.rules = buildRules(t, rules)]
    OBVIOUS
  <2>2. SoundRoute(t.routes[r])
    BY <1>2 DEF SoundRoutes
  <2>3. Len(rules) \in Nat /\ DOMAIN rules = 1..Len(rules)
    BY <2>2, SequenceLength DEF SoundRoute
  <2>4. DOMAIN buildRules(t, rules) = 1..Len(rules)
        /\ buildRules(t, rules) = [i \in 1..Len(rules) |-> buildRules(t, rules)[i]]
    BY <2>3 DEF buildRules
  <2>5. IsSequence(buildRules(t, rules))
    BY <2>3, <2>4, DomainIsSequence
  <2> HIDE DEF f
  <2>. QED BY <2>1, <2>2, <2>5 DEF SoundRoute, RouteFields
<1>5. SoundRoutes(f)
  BY <1>3, <1>4 DEF SoundRoutes
<1> HIDE DEF f
<1>. QED BY <1>1, <1>5, OverriddenRoutes

(* The gateway builder leaves the routes of the tree, detached from the    *)
(* gateways it built anew.                                                 *)
LEMMA DetachedTree ==
    ASSUME TreeShape
    PROVE  \E S : WithGateways.routes = Detach(Cleaned(tree.routes), S)
<1> DEFINE t == cleanTreeUpdates(tree)
           u == computeTreeSecretUpdate(t)
<1>1. DOMAIN t = Kinds /\ t.routes = Cleaned(tree.routes)
  BY DEF TreeShape, cleanTreeUpdates, Kinds
<1> HIDE DEF t
<1>2. DOMAIN u = Kinds /\ u.routes = t.routes
  BY <1>1 DEF computeTreeSecretUpdate, Kinds
<1> HIDE DEF u
<1>3. Listed = computeTreeGatewayClassUpdate(u)
  BY DEF Listed, u, t
<1>4. DOMAIN Listed = Kinds /\ Listed.routes = u.routes
  BY <1>2, <1>3 DEF computeTreeGatewayClassUpdate, Kinds
<1>5. DOMAIN BeforeConflicts = Kinds /\ BeforeConflicts.routes = Listed.routes
  <2>1. BeforeConflicts = computeTreeGatewayUpdate(Listed)
    BY UpdatedTree
  <2>. QED BY <1>4, <2>1 DEF computeTreeGatewayUpdate, Kinds
<1>6. CheckedTree.routes = BeforeConflicts.routes
  BY <1>5 DEF CheckedTree, recheckConflicting, Kinds
<1>7. \E S : WithGateways.routes = Detach(CheckedTree.routes, S)
  <2>1. BeforeConflicts = computeTreeGatewayUpdate(Listed)
    BY UpdatedTree
  <2>2. \E gateways, S : WithGateways = Rebuilt(CheckedTree, gateways, Detach(CheckedTree.routes, S))
    BY <2>1 DEF WithGateways, computeGateways, CheckedTree
  <2>. QED BY <2>2 DEF Rebuilt
<1>. QED BY <1>1, <1>2, <1>4, <1>5, <1>6, <1>7

LEMMA BatchRoutes ==
    ASSUME TreeShape, InputsSound, SoundGateways(tree), ListenersFinite(tree), SoundRoutes(tree.routes), Batch
    PROVE  SoundRoutes(tree'.routes) /\ ListenersFinite(tree')
<1>1. PICK http \in SetToSeqs(HTTPRoutes \cap updates), tls \in SetToSeqs(TLSRoutes \cap updates) :
        tree' = buildGateTree(http, tls)
  BY DEF Batch
<1>2. http \in Seq(Routes) /\ tls \in Seq(Routes)
  <2>1. IsFiniteSet(HTTPRoutes \cap updates) /\ IsFiniteSet(TLSRoutes \cap updates)
    BY FS_Intersection DEF InputsSound
  <2>. QED BY <2>1, RoutesInSequence DEF Routes
<1> DEFINE t0 == computeTreeServiceUpdate(WithGateways)
           t1 == computeTreeRouteUpdates(t0, http)
           t2 == WithRules(t1, HTTPRoutes)
           t3 == computeTreeRouteUpdates(t2, tls)
<1>3. tree' = WithRules(t3, TLSRoutes)
  BY <1>1 DEF buildGateTree, computeHTTPRoutes, computeTLSRoutes, WithGateways, Listed
<1>4. DOMAIN t0 = Kinds /\ NodesHaveFields(t0) /\ ListenersFinite(t0) /\ SoundRoutes(t0.routes)
  <2>1. DOMAIN WithGateways = Kinds
    BY GatewaysTree
  <2>2. DOMAIN t0 = Kinds /\ t0.gateways = WithGateways.gateways /\ t0.routes = WithGateways.routes
    BY <2>1 DEF computeTreeServiceUpdate, Kinds
  <2> HIDE DEF t0
  <2>3. NodesHaveFields(t0)
    BY <2>2, BuiltFields DEF NodesHaveFields
  <2>4. ListenersFinite(t0)
    BY <2>2, FiniteBuilt DEF ListenersFinite
  <2>5. SoundRoutes(WithGateways.routes)
    BY DetachedTree, CleanedRoutes, DetachedRoutes
  <2>. QED BY <2>2, <2>3, <2>4, <2>5
<1> HIDE DEF t0
<1>5. GatewaysKept(t0, t1) /\ SoundRoutes(t1.routes)
  BY <1>2, <1>4, KeptUpdates, RoutesUpdated
<1> HIDE DEF t1
<1>6. DOMAIN t1 = Kinds /\ NodesHaveFields(t1) /\ ListenersFinite(t1)
  BY <1>4, <1>5, KeptFields, FiniteKept DEF GatewaysKept
<1>7. GatewaysKept(t1, t2) /\ SoundRoutes(t2.routes)
  BY <1>5, <1>6, KeptRules, RuledRoutes
<1> HIDE DEF t2
<1>8. DOMAIN t2 = Kinds /\ NodesHaveFields(t2) /\ ListenersFinite(t2)
  BY <1>6, <1>7, KeptFields, FiniteKept DEF GatewaysKept
<1>9. GatewaysKept(t2, t3) /\ SoundRoutes(t3.routes)
  BY <1>2, <1>7, <1>8, KeptUpdates, RoutesUpdated
<1> HIDE DEF t3
<1>10. DOMAIN t3 = Kinds /\ ListenersFinite(t3)
  BY <1>8, <1>9, FiniteKept DEF GatewaysKept
<1>11. GatewaysKept(t3, WithRules(t3, TLSRoutes)) /\ SoundRoutes(WithRules(t3, TLSRoutes).routes)
  BY <1>9, <1>10, KeptRules, RuledRoutes
<1>. QED BY <1>3, <1>10, <1>11, FiniteKept

RoutesInv == ListenersFinite(tree) /\ SoundRoutes(tree.routes)

LEMMA RoutesInvHolds == FrontendsSpec => [](ListenersInv /\ RoutesInv)
<1>1. FrontendsInit => RoutesInv
  <2> SUFFICES ASSUME FrontendsInit PROVE RoutesInv
      OBVIOUS
  <2>1. tree.gateways = <<>> /\ tree.routes = <<>>
    BY DEF FrontendsInit, GateInit, EmptyTree
  <2>2. DOMAIN tree.gateways = {} /\ DOMAIN tree.routes = {} /\ IsFiniteSet({})
    BY <2>1, FS_EmptySet
  <2>. QED BY <2>2 DEF RoutesInv, ListenersFinite, SoundRoutes
<1>2. ListenersInv /\ RoutesInv /\ [FrontendsNext]_servingVars => RoutesInv'
  <2> SUFFICES ASSUME ListenersInv, RoutesInv, [FrontendsNext]_servingVars PROVE RoutesInv'
      OBVIOUS
  <2>1. CASE tree' = tree
    BY <2>1 DEF RoutesInv, ListenersFinite, SoundRoutes, SoundRoute
  <2>2. CASE Batch
    <3>1. SoundRoutes(tree'.routes) /\ ListenersFinite(tree')
      BY <2>2, BatchRoutes DEF ListenersInv, GatewaysInv, RoutesInv
    <3>. QED BY <3>1 DEF RoutesInv, ListenersFinite, SoundRoutes, SoundRoute
  <2>. QED BY <2>1, <2>2 DEF FrontendsNext, Input, Change, Reconcile, HandleEventBatch, servingVars,
                             gateVars, treeVars
<1>. QED BY <1>1, <1>2, ListenersInvHolds, PTL DEF FrontendsSpec
-----------------------------------------------------------------------------
(* The maps come on top of the frontends: a batch and a reload do to the   *)
(* tree, the certificates and the configuration what Frontends says, so    *)
(* what is proved of Frontends is true here.                               *)
THEOREM MapsImplementFrontends == Spec => FrontendsSpec
<1>1. Init => FrontendsInit
  BY DEF Init
<1>2. [Next]_vars => [FrontendsNext]_servingVars
  <2> SUFFICES ASSUME [Next]_vars PROVE [FrontendsNext]_servingVars
      OBVIOUS
  <2>1. CASE Input /\ UNCHANGED <<frontVars, certVars, mapVars>>
    BY <2>1 DEF FrontendsNext
  <2>2. CASE HandleEventBatch /\ processRoutes(tree')
    BY <2>2 DEF FrontendsNext
  <2>3. CASE Reload
    BY <2>3 DEF Reload
  <2>4. CASE UNCHANGED vars
    BY <2>4 DEF vars
  <2>. QED BY <2>1, <2>2, <2>3, <2>4 DEF Next
<1>. QED BY <1>1, <1>2, PTL DEF Spec, FrontendsSpec

LEMMA SyncStep == ListenersInv /\ RoutesInv /\ RoutesInv' /\ MapsInSync /\ [Next]_vars => MapsInSync'
<1> SUFFICES ASSUME ListenersInv, RoutesInv, RoutesInv', MapsInSync, [Next]_vars PROVE MapsInSync'
    OBVIOUS
<1>1. CASE UNCHANGED mapVars
  BY <1>1 DEF mapVars, MapsInSync
<1>2. CASE processRoutes(tree')
  <2>1. PICK http \in SetToSeqs(HTTPRoutes \cap FilledRoutes(tree')),
             tls \in SetToSeqs(TLSRoutes \cap FilledRoutes(tree')) :
          LET m == fillMaps(tree', http, tls)
          IN  maps' = WriteOnDisk(m) /\ runtimeMapSync(m)
    BY <1>2 DEF processRoutes
  <2> DEFINE m == fillMaps(tree', http, tls)
             refused == {x \in TouchedMaps(m) : Refuses(m, x)}
  <2>2. maps' = m.data /\ runtimeMapSync(m)
    BY <2>1 DEF WriteOnDisk
  <2>3. SoundRoutes(tree.routes) /\ SoundRoutes(tree'.routes)
    BY DEF RoutesInv, SoundRoutes, SoundRoute
  <2>4. Replays(m, maps)
    BY <2>3, ReplaysBatch
  <2> HIDE DEF m
  <2>5. CASE refused # {}
    <3>1. cut' = TRUE
      BY <2>2, <2>5 DEF runtimeMapSync, TouchedMaps
    <3>. QED BY <3>1 DEF MapsInSync
  <2>6. CASE refused = {} /\ ~ cut
    <3>1. /\ process' = [known |-> process.known, maps |-> SyncMaps(m, process.maps, TouchedMaps(m))]
          /\ cut' = cut
      BY <2>2, <2>6 DEF runtimeMapSync, TouchedMaps
    <3>2. process.maps = [e \in {x \in DOMAIN maps : x.frontend \in process.known} |-> maps[e]]
      BY <2>6 DEF MapsInSync
    <3>3. SyncMaps(m, process.maps, TouchedMaps(m)) =
            [e \in {x \in DOMAIN m.data : x.frontend \in process.known} |-> m.data[e]]
      BY <2>4, <2>6, <3>2, AcceptedSync
    <3>4. process'.known = process.known
          /\ process'.maps = [e \in {x \in DOMAIN m.data : x.frontend \in process.known} |-> m.data[e]]
      BY <3>1, <3>3
    <3>5. process'.maps = [e \in {x \in DOMAIN maps' : x.frontend \in process'.known} |-> maps'[e]]
      BY <2>2, <3>4
    <3>. QED BY <3>5 DEF MapsInSync
  <2>7. CASE refused = {} /\ cut
    <3>1. cut' = cut
      BY <2>2, <2>7 DEF runtimeMapSync, TouchedMaps
    <3>. QED BY <2>7, <3>1 DEF MapsInSync
  <2>. QED BY <2>5, <2>6, <2>7
<1>3. CASE Reload
  BY <1>3 DEF Reload, MapsInSync
<1>. QED BY <1>1, <1>2, <1>3 DEF Next, vars

(* The running process has the maps of the files, after any batches and    *)
(* reloads, unless it refused a command since the last reload: the lists   *)
(* of additions, updates and deletions that AddData and DeleteData keep    *)
(* replay to what the maps became, whichever order the routes and their    *)
(* rules came in and however often they touched the same key.              *)
THEOREM MapsStayInSync == Spec => []MapsInSync
<1>1. Init => MapsInSync
  BY DEF Init, MapsInSync
<1>2. Spec => [](ListenersInv /\ RoutesInv)
  BY MapsImplementFrontends, RoutesInvHolds, PTL
<1>. QED BY <1>1, <1>2, SyncStep, PTL DEF Spec
-----------------------------------------------------------------------------
(* What a list of calls leaves in entry e: nothing of its own, or value v, *)
(* which the last calls on e put there.                                    *)
Silent(steps, e) == \A i \in 1..Len(steps) : steps[i].entry # e

Puts(step, v) == step.rule.valid /\ step.rule.backends = v

Leaves(steps, e, v) ==
    \E k \in 1..Len(steps) :
        /\ steps[k].entry = e
        /\ \A i \in k..Len(steps) : steps[i].entry = e => Puts(steps[i], v)

Has(data, e, v) == e \in DOMAIN data /\ data[e] = v

LEMMA RuleElsewhere ==
    ASSUME NEW m, NEW step, NEW e, step.entry # e, NEW v, Has(m.data, e, v)
    PROVE  Has(ApplyRule(m, step).data, e, v)
BY DEF ApplyRule, AddData, DeleteData, Override, Without, Has

LEMMA RulePuts ==
    ASSUME NEW m, NEW step, NEW e, step.entry = e, NEW v, Puts(step, v)
    PROVE  Has(ApplyRule(m, step).data, e, v)
BY DEF ApplyRule, AddData, Override, Has, Puts

LEMMA RulesFrom ==
    ASSUME NEW m, NEW steps, Len(steps) \in Nat, NEW e, NEW v, NEW k \in 0..Len(steps),
           \A i \in (k + 1)..Len(steps) : steps[i].entry = e => Puts(steps[i], v),
           IF k = 0 THEN Has(m.data, e, v) ELSE steps[k].entry = e /\ Puts(steps[k], v)
    PROVE  Has(ApplyRules(m, steps).data, e, v)
<1>1. PICK applied : /\ applied = [i \in 0..Len(steps) |->
                                      IF i = 0 THEN m ELSE ApplyRule(applied[i - 1], steps[i])]
                     /\ ApplyRules(m, steps) = applied[Len(steps)]
  BY ApplyRulesUnfold
<1> DEFINE Good(n) == Has(applied[n].data, e, v)
           T == {n \in k..Len(steps) : ~ Good(n)}
<1>2. Good(k)
  <2>1. CASE k = 0
    BY <1>1, <2>1
  <2>2. CASE k # 0
    <3>1. applied[k] = ApplyRule(applied[k - 1], steps[k])
      BY <1>1, <2>2
    <3>. QED BY <2>2, <3>1, RulePuts
  <2>. QED BY <2>1, <2>2
<1>3. ASSUME NEW n \in (k + 1)..Len(steps), Good(n - 1) PROVE Good(n)
  <2>1. applied[n] = ApplyRule(applied[n - 1], steps[n])
    BY <1>1
  <2>. QED BY <1>3, <2>1, RuleElsewhere, RulePuts
<1> HIDE DEF Good
<1>4. T = {}
  <2> SUFFICES ASSUME T # {} PROVE FALSE
      OBVIOUS
  <2>1. T \in SUBSET Nat
    OBVIOUS
  <2>2. PICK n \in T : \A j \in T : n <= j
    BY ONLY <2>1, T # {}, LeastNatural
  <2>3. n \in k..Len(steps) /\ ~ Good(n)
    OBVIOUS
  <2>4. n # k
    BY <1>2, <2>3
  <2>5. n \in (k + 1)..Len(steps) /\ n - 1 \in k..Len(steps) /\ ~ (n <= n - 1)
    BY <2>3, <2>4
  <2>6. Good(n - 1)
    BY <2>2, <2>5
  <2>. QED BY <1>3, <2>3, <2>5, <2>6
<1>5. Good(Len(steps))
  BY <1>4
<1>. QED BY <1>1, <1>5 DEF Good

LEMMA RulesLeave ==
    ASSUME NEW m, NEW steps, Len(steps) \in Nat, NEW e, NEW v,
           Leaves(steps, e, v) \/ (Silent(steps, e) /\ Has(m.data, e, v))
    PROVE  Has(ApplyRules(m, steps).data, e, v)
<1>1. CASE Leaves(steps, e, v)
  <2>1. PICK k \in 1..Len(steps) : /\ steps[k].entry = e
                                   /\ \A i \in k..Len(steps) : steps[i].entry = e => Puts(steps[i], v)
    BY <1>1 DEF Leaves
  <2>2. k \in 0..Len(steps) /\ k # 0 /\ Puts(steps[k], v)
    BY <2>1
  <2>3. \A i \in (k + 1)..Len(steps) : steps[i].entry = e => Puts(steps[i], v)
    BY <2>1
  <2>. QED BY <2>1, <2>2, <2>3, RulesFrom
<1>2. CASE Silent(steps, e) /\ Has(m.data, e, v)
  <2>1. 0 \in 0..Len(steps)
    OBVIOUS
  <2>2. \A i \in (0 + 1)..Len(steps) : steps[i].entry = e => Puts(steps[i], v)
    BY <1>2 DEF Silent
  <2>. QED BY <1>2, <2>1, <2>2, RulesFrom
<1>. QED BY <1>1, <1>2

LEMMA Concatenation ==
    ASSUME NEW s, IsSequence(s), NEW t, IsSequence(t)
    PROVE  /\ Len(s) \in Nat /\ Len(t) \in Nat /\ Len(s \o t) = Len(s) + Len(t)
           /\ \A i \in 1..Len(s) : (s \o t)[i] = s[i]
           /\ \A i \in 1..Len(t) : (s \o t)[Len(s) + i] = t[i]
<1> DEFINE S == ToSet(s) \cup ToSet(t)
<1>1. s \in Seq(S) /\ t \in Seq(S)
  BY DEF IsSequence
<1> HIDE DEF S
<1>2. Len(s) \in Nat /\ Len(t) \in Nat /\ Len(s \o t) = Len(s) + Len(t)
  BY <1>1
<1>3. ASSUME NEW i \in 1..Len(s) PROVE (s \o t)[i] = s[i]
  BY <1>1, <1>2
<1>4. ASSUME NEW i \in 1..Len(t) PROVE (s \o t)[Len(s) + i] = t[i]
  <2>1. Len(s) + i \in 1..(Len(s) + Len(t)) /\ ~ (Len(s) + i <= Len(s)) /\ (Len(s) + i) - Len(s) = i
    BY <1>2
  <2>. QED BY <1>1, <1>2, <2>1
<1>. QED BY <1>2, <1>3, <1>4

LEMMA SilentConcat ==
    ASSUME NEW s, IsSequence(s), NEW t, IsSequence(t), NEW e, Silent(s, e), Silent(t, e)
    PROVE  Silent(s \o t, e)
<1> DEFINE u == s \o t
<1>1. /\ Len(s) \in Nat /\ Len(t) \in Nat /\ Len(u) = Len(s) + Len(t)
      /\ \A i \in 1..Len(s) : u[i] = s[i]
      /\ \A i \in 1..Len(t) : u[Len(s) + i] = t[i]
  BY Concatenation
<1> HIDE DEF u
<1>2. ASSUME NEW i \in 1..Len(u) PROVE u[i].entry # e
  <2>1. CASE i <= Len(s)
    BY <1>1, <2>1 DEF Silent
  <2>2. CASE i > Len(s)
    <3>1. i - Len(s) \in 1..Len(t) /\ Len(s) + (i - Len(s)) = i
      BY <1>1, <2>2
    <3>. QED BY <1>1, <3>1 DEF Silent
  <2>. QED BY <1>1, <2>1, <2>2
<1>. QED BY <1>2 DEF Silent, u

LEMMA LeavesConcat ==
    ASSUME NEW s, IsSequence(s), NEW t, IsSequence(t), NEW e, NEW v,
           Leaves(t, e, v) \/ (Leaves(s, e, v) /\ Silent(t, e))
    PROVE  Leaves(s \o t, e, v)
<1> DEFINE u == s \o t
<1>1. /\ Len(s) \in Nat /\ Len(t) \in Nat /\ Len(u) = Len(s) + Len(t)
      /\ \A i \in 1..Len(s) : u[i] = s[i]
      /\ \A i \in 1..Len(t) : u[Len(s) + i] = t[i]
  BY Concatenation
<1> HIDE DEF u
<1>2. ASSUME NEW i \in 1..Len(u), i > Len(s) PROVE i - Len(s) \in 1..Len(t) /\ u[i] = t[i - Len(s)]
  <2>1. i - Len(s) \in 1..Len(t) /\ Len(s) + (i - Len(s)) = i
    BY <1>1, <1>2
  <2>. QED BY <1>1, <2>1
<1>3. CASE Leaves(t, e, v)
  <2>1. PICK k \in 1..Len(t) : /\ t[k].entry = e
                               /\ \A i \in k..Len(t) : t[i].entry = e => Puts(t[i], v)
    BY <1>3 DEF Leaves
  <2> DEFINE n == Len(s) + k
  <2>2. n \in 1..Len(u) /\ u[n].entry = e
    BY <1>1, <2>1
  <2>3. ASSUME NEW i \in n..Len(u), u[i].entry = e PROVE Puts(u[i], v)
    <3>1. i \in 1..Len(u) /\ i > Len(s)
      BY <1>1, <2>1
    <3>2. i - Len(s) \in 1..Len(t) /\ u[i] = t[i - Len(s)]
      BY <1>2, <3>1
    <3>3. i - Len(s) \in k..Len(t)
      BY <1>1, <2>1, <3>2
    <3>. QED BY <2>1, <2>3, <3>2, <3>3
  <2> HIDE DEF n
  <2>. QED BY <2>2, <2>3 DEF Leaves, u
<1>4. CASE Leaves(s, e, v) /\ Silent(t, e)
  <2>1. PICK k \in 1..Len(s) : /\ s[k].entry = e
                               /\ \A i \in k..Len(s) : s[i].entry = e => Puts(s[i], v)
    BY <1>4 DEF Leaves
  <2>2. k \in 1..Len(u) /\ u[k].entry = e
    BY <1>1, <2>1
  <2>3. ASSUME NEW i \in k..Len(u), u[i].entry = e PROVE Puts(u[i], v)
    <3>1. CASE i <= Len(s)
      <4>1. i \in k..Len(s) /\ u[i] = s[i]
        BY <1>1, <2>1, <3>1
      <4>. QED BY <2>1, <2>3, <4>1
    <3>2. CASE i > Len(s)
      <4>1. i \in 1..Len(u)
        BY <2>2
      <4>2. i - Len(s) \in 1..Len(t) /\ u[i] = t[i - Len(s)]
        BY <1>2, <3>2, <4>1
      <4>. QED BY <1>4, <2>3, <4>2 DEF Silent
    <3>. QED BY <1>1, <2>1, <3>1, <3>2
  <2>. QED BY <2>2, <2>3 DEF Leaves, u
<1>. QED BY <1>3, <1>4

(* The prefixes of a flattened list                                        *)
LEMMA FlattenPrefixes ==
    ASSUME NEW f, NEW n \in Nat, n # 0, DOMAIN f = 1..n, f = [i \in 1..n |-> f[i]],
           \A i \in 1..n : IsSequence(f[i])
    PROVE  \E flat : /\ FlattenSeq(f) = flat[n]
                     /\ flat[1] = f[1]
                     /\ \A i \in 2..n : flat[i] = flat[i - 1] \o f[i]
                     /\ \A i \in 1..n : IsSequence(flat[i])
<1>1. IsSequence(f) /\ Len(f) = n
  BY DomainIsSequence
<1>2. PICK flat : /\ flat = [i \in 1..Len(f) |-> IF i = 1 THEN f[i] ELSE flat[i - 1] \o f[i]]
                  /\ FlattenSeq(f) = flat[Len(f)]
  BY <1>1, FlattenUnfold
<1>3. flat[1] = f[1] /\ \A i \in 2..n : flat[i] = flat[i - 1] \o f[i]
  <2>1. 1 \in 1..Len(f) /\ \A i \in 2..n : i \in 1..Len(f) /\ i # 1
    BY <1>1
  <2>2. \A i \in 1..Len(f) : flat[i] = IF i = 1 THEN f[i] ELSE flat[i - 1] \o f[i]
    BY <1>2
  <2>. QED BY <2>1, <2>2
<1> DEFINE T == {i \in 1..n : ~ IsSequence(flat[i])}
<1>4. T = {}
  <2> SUFFICES ASSUME T # {} PROVE FALSE
      OBVIOUS
  <2>1. T \in SUBSET Nat
    OBVIOUS
  <2>2. PICK i \in T : \A k \in T : i <= k
    BY ONLY <2>1, T # {}, LeastNatural
  <2>3. i \in 1..n /\ ~ IsSequence(flat[i])
    OBVIOUS
  <2>4. i # 1
    BY <1>3, <2>3
  <2>5. i \in 2..n /\ i - 1 \in 1..n /\ ~ (i <= i - 1)
    BY <2>3, <2>4
  <2>6. IsSequence(flat[i - 1])
    BY <2>2, <2>5
  <2>7. flat[i] = flat[i - 1] \o f[i]
    BY <1>3, <2>5
  <2>8. IsSequence(f[i])
    BY <2>3
  <2>9. IsSequence(flat[i - 1] \o f[i])
    BY ONLY <2>6, <2>8, ConcatSequence
  <2>. QED BY ONLY <2>3, <2>7, <2>9
<1>. QED BY <1>1, <1>2, <1>3, <1>4

LEMMA FlattenSilent ==
    ASSUME NEW f, NEW n \in Nat, DOMAIN f = 1..n, f = [i \in 1..n |-> f[i]],
           \A i \in 1..n : IsSequence(f[i]), NEW e, \A i \in 1..n : Silent(f[i], e)
    PROVE  Silent(FlattenSeq(f), e)
<1>1. CASE n = 0
  <2>1. Len(f) = 0
    BY <1>1, DomainIsSequence
  <2>2. FlattenSeq(f) = <<>>
    BY <2>1 DEF FlattenSeq
  <2>. QED BY <2>2 DEF Silent
<1>2. CASE n # 0
  <2>1. PICK flat : /\ FlattenSeq(f) = flat[n]
                    /\ flat[1] = f[1]
                    /\ \A i \in 2..n : flat[i] = flat[i - 1] \o f[i]
                    /\ \A i \in 1..n : IsSequence(flat[i])
    BY <1>2, FlattenPrefixes
  <2> DEFINE T == {i \in 1..n : ~ Silent(flat[i], e)}
  <2>2. T = {}
    <3> SUFFICES ASSUME T # {} PROVE FALSE
        OBVIOUS
    <3>1. T \in SUBSET Nat
      OBVIOUS
    <3>2. PICK i \in T : \A k \in T : i <= k
      BY ONLY <3>1, T # {}, LeastNatural
    <3>3. i \in 1..n /\ ~ Silent(flat[i], e)
      OBVIOUS
    <3>4. i # 1
      BY <2>1, <3>3
    <3>5. i \in 2..n /\ i - 1 \in 1..n /\ ~ (i <= i - 1)
      BY <3>3, <3>4
    <3>6. Silent(flat[i - 1], e)
      BY <3>2, <3>5
    <3>7. flat[i] = flat[i - 1] \o f[i] /\ IsSequence(flat[i - 1]) /\ IsSequence(f[i]) /\ Silent(f[i], e)
      BY <2>1, <3>3, <3>5
    <3>8. Silent(flat[i - 1] \o f[i], e)
      BY <3>6, <3>7, SilentConcat
    <3>. QED BY <3>3, <3>7, <3>8
  <2>. QED BY <1>2, <2>1, <2>2
<1>. QED BY <1>1, <1>2

LEMMA FlattenLeaves ==
    ASSUME NEW f, NEW n \in Nat, DOMAIN f = 1..n, f = [i \in 1..n |-> f[i]],
           \A i \in 1..n : IsSequence(f[i]), NEW e, NEW v,
           NEW k \in 1..n, Leaves(f[k], e, v),
           \A i \in 1..n : i > k => Silent(f[i], e) \/ Leaves(f[i], e, v)
    PROVE  Leaves(FlattenSeq(f), e, v)
<1>1. n # 0
  OBVIOUS
<1>2. PICK flat : /\ FlattenSeq(f) = flat[n]
                  /\ flat[1] = f[1]
                  /\ \A i \in 2..n : flat[i] = flat[i - 1] \o f[i]
                  /\ \A i \in 1..n : IsSequence(flat[i])
  BY <1>1, FlattenPrefixes
<1> DEFINE T == {i \in k..n : ~ Leaves(flat[i], e, v)}
<1>3. Leaves(flat[k], e, v)
  <2>1. CASE k = 1
    BY <1>2, <2>1
  <2>2. CASE k # 1
    <3>1. k \in 2..n /\ k - 1 \in 1..n
      BY <2>2
    <3>2. flat[k] = flat[k - 1] \o f[k] /\ IsSequence(flat[k - 1]) /\ IsSequence(f[k])
      BY <1>2, <3>1
    <3>3. Leaves(flat[k - 1] \o f[k], e, v)
      BY <3>2, LeavesConcat
    <3>. QED BY <3>2, <3>3
  <2>. QED BY <2>1, <2>2
<1>4. T = {}
  <2> SUFFICES ASSUME T # {} PROVE FALSE
      OBVIOUS
  <2>1. T \in SUBSET Nat
    OBVIOUS
  <2>2. PICK i \in T : \A j \in T : i <= j
    BY ONLY <2>1, T # {}, LeastNatural
  <2>3. i \in k..n /\ ~ Leaves(flat[i], e, v)
    OBVIOUS
  <2>4. i # k
    BY <1>3, <2>3
  <2>5. i \in 2..n /\ i - 1 \in k..n /\ i - 1 \in 1..n /\ i > k /\ i \in 1..n /\ ~ (i <= i - 1)
    BY <2>3, <2>4
  <2>6. Leaves(flat[i - 1], e, v)
    BY <2>2, <2>5
  <2>7. Silent(f[i], e) \/ Leaves(f[i], e, v)
    BY <2>5
  <2>8. flat[i] = flat[i - 1] \o f[i] /\ IsSequence(flat[i - 1]) /\ IsSequence(f[i])
    BY <1>2, <2>5
  <2>9. Leaves(flat[i - 1] \o f[i], e, v)
    BY <2>6, <2>7, <2>8, LeavesConcat
  <2>. QED BY <2>3, <2>8, <2>9
<1>5. Leaves(flat[n], e, v)
  BY <1>4
<1>. QED BY <1>2, <1>5
-----------------------------------------------------------------------------
(* A list of a finite set has all of it.                                   *)
LEMMA AllListed ==
    ASSUME NEW S, IsFiniteSet(S), NEW f \in [1..Cardinality(S) -> S],
           \A i, j \in 1..Cardinality(S) : i # j => f[i] # f[j]
    PROVE  IsSequence(f) /\ Len(f) = Cardinality(S) /\ \A x : x \in S <=> \E i \in 1..Len(f) : f[i] = x
<1> DEFINE n == Cardinality(S)
           D == 1..n
<1>1. n \in Nat
  BY FS_CardinalityType
<1>2. IsFiniteSet(D) /\ Cardinality(D) = n
  BY <1>1, FS_Interval
<1>3. f \in Injection(D, S)
  BY DEF Injection, IsInjective
<1>4. f \in Surjection(D, S)
  BY <1>2, <1>3, FS_Injection
<1>5. IsSequence(f) /\ Len(f) = n
  BY <1>1, FunctionIsSequence
<1>6. \A x \in S : \E i \in D : f[i] = x
  BY <1>4 DEF Surjection
<1>. QED BY <1>5, <1>6

LEMMA SetListed ==
    ASSUME NEW S, IsFiniteSet(S)
    PROVE  /\ IsSequence(SetToSeq(S))
           /\ \A x : x \in S <=> \E i \in 1..Len(SetToSeq(S)) : SetToSeq(S)[i] = x
<1>1. ExistsBijection(1..Cardinality(S), S)
  BY FS_CardinalityType
<1>2. PICK f \in [1..Cardinality(S) -> S] : IsInjective(f)
  BY <1>1 DEF ExistsBijection, Bijection, Injection, IsInjective
<1>3. SetToSeq(S) \in [1..Cardinality(S) -> S] /\ IsInjective(SetToSeq(S))
  BY <1>2 DEF SetToSeq
<1>4. \A i, j \in 1..Cardinality(S) : i # j => SetToSeq(S)[i] # SetToSeq(S)[j]
  BY <1>3 DEF IsInjective
<1>. QED BY <1>3, <1>4, AllListed

LEMMA SetsListed ==
    ASSUME NEW S, IsFiniteSet(S), NEW s \in SetToSeqs(S)
    PROVE  /\ IsSequence(s)
           /\ \A x : x \in S <=> \E i \in 1..Len(s) : s[i] = x
           /\ \A i, j \in 1..Len(s) : i # j => s[i] # s[j]
<1>1. s \in [1..Cardinality(S) -> S] /\ \A i, j \in 1..Cardinality(S) : i # j => s[i] # s[j]
  BY DEF SetToSeqs
<1>2. IsSequence(s) /\ Len(s) = Cardinality(S) /\ \A x : x \in S <=> \E i \in 1..Len(s) : s[i] = x
  BY <1>1, AllListed
<1>. QED BY <1>1, <1>2

Among(x, s) == \E i \in 1..Len(s) : s[i] = x

LEMMA BothListed ==
    ASSUME NEW s, IsSequence(s), NEW t, IsSequence(t), NEW x
    PROVE  Among(x, s \o t) <=> Among(x, s) \/ Among(x, t)
<1> DEFINE u == s \o t
<1>1. /\ Len(s) \in Nat /\ Len(t) \in Nat /\ Len(u) = Len(s) + Len(t)
      /\ \A i \in 1..Len(s) : u[i] = s[i]
      /\ \A i \in 1..Len(t) : u[Len(s) + i] = t[i]
  BY Concatenation
<1> HIDE DEF u
<1>2. ASSUME NEW i \in 1..Len(u) PROVE (\E j \in 1..Len(s) : s[j] = u[i]) \/ (\E j \in 1..Len(t) : t[j] = u[i])
  <2>1. CASE i <= Len(s)
    BY <1>1, <2>1
  <2>2. CASE i > Len(s)
    <3>1. i - Len(s) \in 1..Len(t) /\ Len(s) + (i - Len(s)) = i
      BY <1>1, <2>2
    <3>. QED BY <1>1, <3>1
  <2>. QED BY <1>1, <2>1, <2>2
<1>3. ASSUME NEW i \in 1..Len(s) PROVE i \in 1..Len(u) /\ u[i] = s[i]
  BY <1>1
<1>4. ASSUME NEW i \in 1..Len(t) PROVE Len(s) + i \in 1..Len(u) /\ u[Len(s) + i] = t[i]
  BY <1>1
<1>5. Among(x, u) <=> Among(x, s) \/ Among(x, t)
  BY <1>2, <1>3, <1>4 DEF Among
<1>. QED BY <1>5 DEF u
-----------------------------------------------------------------------------
(* The calls of a rule on a listener, host by host                         *)
Frontend(ref) == <<ref.gateway, ref.listener>>

HTTPCalls(rule, ref, hosts) ==
    [j \in DOMAIN hosts |-> [rule |-> rule,
                             entry |-> Entry(Frontend(ref), PathMap(rule.path, hosts[j]), hosts[j],
                                             rule.path.value)]]

TLSCalls(rule, ref, hosts) ==
    [j \in DOMAIN hosts |-> [rule |-> rule,
                             entry |-> Entry(Frontend(ref), IF rule.valid THEN SNIMap(hosts[j]) ELSE "sni",
                                             hosts[j], <<>>)]]

Lists(hosts, S) == IsSequence(hosts) /\ \A h : h \in S <=> Among(h, hosts)

LEMMA ListsJoin ==
    ASSUME NEW s, NEW S, Lists(s, S), NEW t, NEW T, Lists(t, T)
    PROVE  Lists(s \o t, S \cup T)
<1>1. IsSequence(s) /\ IsSequence(t)
  BY DEF Lists
<1>2. IsSequence(s \o t)
  BY <1>1, ConcatSequence
<1>3. ASSUME NEW h PROVE h \in S \cup T <=> Among(h, s \o t)
  BY <1>1, BothListed DEF Lists
<1>. QED BY <1>2, <1>3 DEF Lists

LEMMA HTTPHosts ==
    ASSUME NEW node, SoundRoute(node), NEW ref
    PROVE  \E hosts :
              /\ Lists(hosts, node.spec.hostnames
                                \cup GetHostnamesForRouteWithListener(ref.spec.hostname, node.spec.hostnames))
              /\ onValidHTTPRouteUpserted(node, ref) =
                   FlattenSeq([i \in DOMAIN node.rules |-> HTTPCalls(node.rules[i], ref, hosts)])
<1> DEFINE S == node.spec.hostnames
           T == GetHostnamesForRouteWithListener(ref.spec.hostname, node.spec.hostnames)
           hosts == SetToSeq(S) \o SetToSeq(T)
<1>1. onValidHTTPRouteUpserted(node, ref) =
        FlattenSeq([i \in DOMAIN node.rules |-> HTTPCalls(node.rules[i], ref, hosts)])
  BY DEF onValidHTTPRouteUpserted, HTTPCalls, Frontend
<1>2. IsFiniteSet(S) /\ IsFiniteSet(T)
  BY HostnamesFinite DEF SoundRoute
<1>3. Lists(SetToSeq(S), S) /\ Lists(SetToSeq(T), T)
  BY <1>2, SetListed DEF Lists, Among
<1> HIDE DEF S, T
<1>4. Lists(hosts, S \cup T)
  BY <1>3, ListsJoin
<1>. QED BY <1>1, <1>4 DEF S, T

LEMMA TLSHosts ==
    ASSUME NEW node, SoundRoute(node), NEW ref
    PROVE  \E hosts :
              /\ Lists(hosts, GetHostnamesForRouteWithListener(ref.spec.hostname, node.spec.hostnames))
              /\ onValidTLSRouteUpserted(node, ref) =
                   FlattenSeq([i \in DOMAIN node.rules |-> TLSCalls(node.rules[i], ref, hosts)])
<1> DEFINE T == GetHostnamesForRouteWithListener(ref.spec.hostname, node.spec.hostnames)
           hosts == SetToSeq(T)
<1>1. onValidTLSRouteUpserted(node, ref) =
        FlattenSeq([i \in DOMAIN node.rules |-> TLSCalls(node.rules[i], ref, hosts)])
  BY DEF onValidTLSRouteUpserted, TLSCalls, Frontend
<1>2. IsFiniteSet(T)
  BY HostnamesFinite DEF SoundRoute
<1> HIDE DEF T
<1>3. Lists(hosts, T)
  BY <1>2, SetListed DEF Lists, Among
<1>. QED BY <1>1, <1>3 DEF T

(* A route whose rules are those of its spec, as far as paths go           *)
PathsKept(node) ==
    /\ DOMAIN node.rules = DOMAIN node.spec.rules
    /\ \A i \in DOMAIN node.rules : node.rules[i].path = node.spec.rules[i].path

(* No rule of the route reaches entry e through this listener.             *)
Misses(r, node, ref, e) ==
    \/ e.frontend # Frontend(ref)
    \/ \A i \in DOMAIN node.spec.rules : ~ Reaches(r, node.spec, i, ref.spec.hostname, e)

(* Rule i does, with backends v, and no rule after it.                     *)
Serves(r, node, ref, i, e, v) ==
    /\ i \in DOMAIN node.spec.rules
    /\ node.rules[i].valid
    /\ node.rules[i].backends = v
    /\ e \in RouteEntries(r, node.spec, i, Frontend(ref), ref.spec.hostname)
    /\ \A j \in DOMAIN node.spec.rules : j > i => ~ Reaches(r, node.spec, j, ref.spec.hostname, e)

LEMMA RoutesApart == HTTPRoutes \cap TLSRoutes = {}
<1> DEFINE kinds == <<Classes, Gateways, HTTPRoutes, TLSRoutes, Services, Secrets, HugGates>>
<1>1. \A i, j \in 1..7 : i # j => kinds[i] \cap kinds[j] = {}
  BY KeysAssumption
<1>2. kinds[3] \cap kinds[4] = {}
  BY <1>1
<1>. QED BY <1>2

LEMMA CallsShape ==
    ASSUME NEW hosts, IsSequence(hosts), NEW rule, NEW ref
    PROVE  /\ IsSequence(HTTPCalls(rule, ref, hosts)) /\ Len(HTTPCalls(rule, ref, hosts)) = Len(hosts)
           /\ IsSequence(TLSCalls(rule, ref, hosts)) /\ Len(TLSCalls(rule, ref, hosts)) = Len(hosts)
<1>1. Len(hosts) \in Nat /\ DOMAIN hosts = 1..Len(hosts)
  BY SequenceLength
<1>. QED BY <1>1, DomainIsSequence DEF HTTPCalls, TLSCalls

LEMMA HTTPCallsSilent ==
    ASSUME NEW r \in HTTPRoutes, NEW spec, NEW hosts, NEW ref, NEW e, NEW i, NEW rule, rule.path = spec.rules[i].path,
           Lists(hosts, spec.hostnames \cup GetHostnamesForRouteWithListener(ref.spec.hostname, spec.hostnames)),
           e.frontend # Frontend(ref) \/ ~ Reaches(r, spec, i, ref.spec.hostname, e)
    PROVE  Silent(HTTPCalls(rule, ref, hosts), e)
<1> DEFINE s == HTTPCalls(rule, ref, hosts)
<1>1. IsSequence(hosts)
  BY DEF Lists
<1>2. Len(s) = Len(hosts) /\ DOMAIN hosts = 1..Len(hosts)
  BY <1>1, CallsShape, SequenceLength
<1>3. SUFFICES ASSUME NEW j \in 1..Len(hosts), s[j].entry = e PROVE FALSE
  BY <1>2 DEF Silent
<1>4. s[j].entry = Entry(Frontend(ref), PathMap(rule.path, hosts[j]), hosts[j], rule.path.value)
  BY <1>2 DEF HTTPCalls
<1>5. /\ e.frontend = Frontend(ref) /\ e.map = PathMap(rule.path, hosts[j])
      /\ e.host = hosts[j] /\ e.path = rule.path.value
  BY <1>3, <1>4 DEF Entry
<1>6. hosts[j] \in spec.hostnames \cup GetHostnamesForRouteWithListener(ref.spec.hostname, spec.hostnames)
  BY DEF Lists, Among
<1>. QED BY <1>5, <1>6 DEF Reaches

LEMMA TLSCallsSilent ==
    ASSUME NEW r \in TLSRoutes, NEW spec, NEW hosts, NEW ref, NEW e, NEW i, NEW rule,
           Lists(hosts, GetHostnamesForRouteWithListener(ref.spec.hostname, spec.hostnames)),
           e.frontend # Frontend(ref) \/ ~ Reaches(r, spec, i, ref.spec.hostname, e)
    PROVE  Silent(TLSCalls(rule, ref, hosts), e)
<1> DEFINE s == TLSCalls(rule, ref, hosts)
<1>1. IsSequence(hosts)
  BY DEF Lists
<1>2. Len(s) = Len(hosts) /\ DOMAIN hosts = 1..Len(hosts)
  BY <1>1, CallsShape, SequenceLength
<1>3. SUFFICES ASSUME NEW j \in 1..Len(hosts), s[j].entry = e PROVE FALSE
  BY <1>2 DEF Silent
<1> DEFINE map == IF rule.valid THEN SNIMap(hosts[j]) ELSE "sni"
<1>4. s[j].entry = Entry(Frontend(ref), map, hosts[j], <<>>)
  BY <1>2 DEF TLSCalls
<1>5. map \in {"sni", "domain_wildcard_sni"}
  BY DEF SNIMap
<1> HIDE DEF map
<1>6. e.frontend = Frontend(ref) /\ e.map = map /\ e.host = hosts[j]
  BY <1>3, <1>4 DEF Entry
<1>7. hosts[j] \in GetHostnamesForRouteWithListener(ref.spec.hostname, spec.hostnames)
  BY DEF Lists, Among
<1>8. r \notin HTTPRoutes
  BY RoutesApart
<1>. QED BY <1>5, <1>6, <1>7, <1>8 DEF Reaches

LEMMA HTTPCallsLeave ==
    ASSUME NEW r \in HTTPRoutes, NEW spec, NEW hosts, NEW ref, NEW e, NEW i, NEW rule, NEW v,
           rule.path = spec.rules[i].path, rule.valid, rule.backends = v,
           Lists(hosts, spec.hostnames \cup GetHostnamesForRouteWithListener(ref.spec.hostname, spec.hostnames)),
           e \in RouteEntries(r, spec, i, Frontend(ref), ref.spec.hostname)
    PROVE  Leaves(HTTPCalls(rule, ref, hosts), e, v)
<1> DEFINE s == HTTPCalls(rule, ref, hosts)
<1>1. IsSequence(hosts)
  BY DEF Lists
<1>2. Len(s) = Len(hosts) /\ DOMAIN hosts = 1..Len(hosts) /\ Len(hosts) \in Nat
  BY <1>1, CallsShape, SequenceLength
<1>3. \A j \in 1..Len(hosts) :
          /\ s[j].entry = Entry(Frontend(ref), PathMap(rule.path, hosts[j]), hosts[j], rule.path.value)
          /\ Puts(s[j], v)
  BY <1>2 DEF HTTPCalls, Puts
<1>4. PICK h \in GetHostnamesForRouteWithListener(ref.spec.hostname, spec.hostnames) :
        e = Entry(Frontend(ref), PathMap(rule.path, h), h, rule.path.value)
  BY DEF RouteEntries
<1>5. PICK k \in 1..Len(hosts) : hosts[k] = h
  BY DEF Lists, Among
<1>6. s[k].entry = e
  BY <1>3, <1>4, <1>5
<1> HIDE DEF s
<1>7. Leaves(s, e, v)
  BY <1>2, <1>3, <1>6 DEF Leaves
<1>. QED BY <1>7 DEF s

LEMMA TLSCallsLeave ==
    ASSUME NEW r \in TLSRoutes, NEW spec, NEW hosts, NEW ref, NEW e, NEW i, NEW rule, NEW v,
           rule.valid, rule.backends = v,
           Lists(hosts, GetHostnamesForRouteWithListener(ref.spec.hostname, spec.hostnames)),
           e \in RouteEntries(r, spec, i, Frontend(ref), ref.spec.hostname)
    PROVE  Leaves(TLSCalls(rule, ref, hosts), e, v)
<1> DEFINE s == TLSCalls(rule, ref, hosts)
<1>1. IsSequence(hosts)
  BY DEF Lists
<1>2. Len(s) = Len(hosts) /\ DOMAIN hosts = 1..Len(hosts) /\ Len(hosts) \in Nat
  BY <1>1, CallsShape, SequenceLength
<1>3. \A j \in 1..Len(hosts) : /\ s[j].entry = Entry(Frontend(ref), SNIMap(hosts[j]), hosts[j], <<>>)
                               /\ Puts(s[j], v)
  BY <1>2 DEF TLSCalls, Puts
<1>4. r \notin HTTPRoutes
  BY RoutesApart
<1>5. PICK h \in GetHostnamesForRouteWithListener(ref.spec.hostname, spec.hostnames) :
        e = Entry(Frontend(ref), SNIMap(h), h, <<>>)
  BY <1>4 DEF RouteEntries
<1>6. PICK k \in 1..Len(hosts) : hosts[k] = h
  BY DEF Lists, Among
<1>7. s[k].entry = e
  BY <1>3, <1>5, <1>6
<1> HIDE DEF s
<1>8. Leaves(s, e, v)
  BY <1>2, <1>3, <1>7 DEF Leaves
<1>. QED BY <1>8 DEF s
-----------------------------------------------------------------------------
LEMMA HTTPListener ==
    ASSUME NEW r \in HTTPRoutes, NEW node, SoundRoute(node), PathsKept(node), NEW ref, NEW e
    PROVE  /\ Misses(r, node, ref, e) => Silent(onValidHTTPRouteUpserted(node, ref), e)
           /\ \A i, v : Serves(r, node, ref, i, e, v) => Leaves(onValidHTTPRouteUpserted(node, ref), e, v)
<1>1. PICK hosts : /\ Lists(hosts, node.spec.hostnames
                              \cup GetHostnamesForRouteWithListener(ref.spec.hostname, node.spec.hostnames))
                   /\ onValidHTTPRouteUpserted(node, ref) =
                        FlattenSeq([i \in DOMAIN node.rules |-> HTTPCalls(node.rules[i], ref, hosts)])
  BY HTTPHosts
<1>2. IsSequence(node.rules) /\ IsSequence(hosts)
  BY <1>1 DEF SoundRoute, Lists
<1> DEFINE n == Len(node.rules)
           f == [i \in DOMAIN node.rules |-> HTTPCalls(node.rules[i], ref, hosts)]
<1>3. n \in Nat /\ DOMAIN node.rules = 1..n /\ DOMAIN node.spec.rules = 1..n
  BY <1>2, SequenceLength DEF PathsKept
<1> HIDE DEF n
<1>4. /\ DOMAIN f = 1..n /\ f = [i \in 1..n |-> f[i]]
      /\ \A i \in 1..n : f[i] = HTTPCalls(node.rules[i], ref, hosts) /\ IsSequence(f[i])
  BY <1>2, <1>3, CallsShape
<1> HIDE DEF f
<1>5. Lists(hosts, node.spec.hostnames
                     \cup GetHostnamesForRouteWithListener(ref.spec.hostname, node.spec.hostnames))
  BY <1>1
<1>6. ASSUME NEW i \in 1..n, e.frontend # Frontend(ref) \/ ~ Reaches(r, node.spec, i, ref.spec.hostname, e)
      PROVE  Silent(f[i], e)
  <2>1. node.rules[i].path = node.spec.rules[i].path
    BY <1>3 DEF PathsKept
  <2> DEFINE rule == node.rules[i]
  <2>2. f[i] = HTTPCalls(rule, ref, hosts) /\ rule.path = node.spec.rules[i].path
    BY <1>4, <2>1
  <2> HIDE DEF rule
  <2>3. Silent(HTTPCalls(rule, ref, hosts), e)
    BY <1>6, <1>5, <2>2, HTTPCallsSilent
  <2>. QED BY <2>2, <2>3
<1>7. ASSUME Misses(r, node, ref, e) PROVE Silent(FlattenSeq(f), e)
  <2>1. \A i \in 1..n : Silent(f[i], e)
    BY <1>3, <1>6, <1>7 DEF Misses
  <2>. QED BY <1>3, <1>4, <2>1, FlattenSilent
<1>8. ASSUME NEW i, NEW v, Serves(r, node, ref, i, e, v) PROVE Leaves(FlattenSeq(f), e, v)
  <2>1. i \in 1..n /\ node.rules[i].path = node.spec.rules[i].path
    BY <1>3, <1>8 DEF PathsKept, Serves
  <2>2. Leaves(f[i], e, v)
    <3> DEFINE rule == node.rules[i]
    <3>1. rule.valid /\ rule.backends = v /\ e \in RouteEntries(r, node.spec, i, Frontend(ref), ref.spec.hostname)
      BY <1>8 DEF Serves
    <3>2. rule.path = node.spec.rules[i].path
      BY <1>4, <2>1
    <3>3. f[i] = HTTPCalls(rule, ref, hosts)
      BY <1>4, <2>1
    <3> HIDE DEF rule
    <3>4. Leaves(HTTPCalls(rule, ref, hosts), e, v)
      BY <1>5, <3>1, <3>2, HTTPCallsLeave
    <3>. QED BY <3>3, <3>4
  <2>3. \A j \in 1..n : j > i => Silent(f[j], e)
    BY <1>3, <1>6, <1>8 DEF Serves
  <2>. QED BY <1>3, <1>4, <2>1, <2>2, <2>3, FlattenLeaves
<1>. QED BY <1>1, <1>7, <1>8 DEF f

LEMMA TLSListener ==
    ASSUME NEW r \in TLSRoutes, NEW node, SoundRoute(node), PathsKept(node), NEW ref, NEW e
    PROVE  /\ Misses(r, node, ref, e) => Silent(onValidTLSRouteUpserted(node, ref), e)
           /\ \A i, v : Serves(r, node, ref, i, e, v) => Leaves(onValidTLSRouteUpserted(node, ref), e, v)
<1>1. PICK hosts : /\ Lists(hosts, GetHostnamesForRouteWithListener(ref.spec.hostname, node.spec.hostnames))
                   /\ onValidTLSRouteUpserted(node, ref) =
                        FlattenSeq([i \in DOMAIN node.rules |-> TLSCalls(node.rules[i], ref, hosts)])
  BY TLSHosts
<1>2. IsSequence(node.rules) /\ IsSequence(hosts)
  BY <1>1 DEF SoundRoute, Lists
<1> DEFINE n == Len(node.rules)
           f == [i \in DOMAIN node.rules |-> TLSCalls(node.rules[i], ref, hosts)]
<1>3. n \in Nat /\ DOMAIN node.rules = 1..n /\ DOMAIN node.spec.rules = 1..n
  BY <1>2, SequenceLength DEF PathsKept
<1> HIDE DEF n
<1>4. /\ DOMAIN f = 1..n /\ f = [i \in 1..n |-> f[i]]
      /\ \A i \in 1..n : f[i] = TLSCalls(node.rules[i], ref, hosts) /\ IsSequence(f[i])
  BY <1>2, <1>3, CallsShape
<1> HIDE DEF f
<1>5. Lists(hosts, GetHostnamesForRouteWithListener(ref.spec.hostname, node.spec.hostnames))
  BY <1>1
<1>6. ASSUME NEW i \in 1..n, e.frontend # Frontend(ref) \/ ~ Reaches(r, node.spec, i, ref.spec.hostname, e)
      PROVE  Silent(f[i], e)
  BY <1>1, <1>4, <1>6, TLSCallsSilent
<1>7. ASSUME Misses(r, node, ref, e) PROVE Silent(FlattenSeq(f), e)
  <2>1. \A i \in 1..n : Silent(f[i], e)
    BY <1>3, <1>6, <1>7 DEF Misses
  <2>. QED BY <1>3, <1>4, <2>1, FlattenSilent
<1>8. ASSUME NEW i, NEW v, Serves(r, node, ref, i, e, v) PROVE Leaves(FlattenSeq(f), e, v)
  <2>1. i \in 1..n
    BY <1>3, <1>8 DEF Serves
  <2>2. Leaves(f[i], e, v)
    <3> DEFINE rule == node.rules[i]
    <3>1. rule.valid /\ rule.backends = v /\ e \in RouteEntries(r, node.spec, i, Frontend(ref), ref.spec.hostname)
      BY <1>8 DEF Serves
    <3>2. f[i] = TLSCalls(rule, ref, hosts)
      BY <1>4, <2>1
    <3> HIDE DEF rule
    <3>3. Leaves(TLSCalls(rule, ref, hosts), e, v)
      BY <1>5, <3>1, TLSCallsLeave
    <3>. QED BY <3>2, <3>3
  <2>3. \A j \in 1..n : j > i => Silent(f[j], e)
    BY <1>3, <1>6, <1>8 DEF Serves
  <2>. QED BY <1>3, <1>4, <2>1, <2>2, <2>3, FlattenLeaves
<1>. QED BY <1>1, <1>7, <1>8 DEF f
-----------------------------------------------------------------------------
(* What a batch does to entry e for one route: the calls of its listeners  *)
(* one after the other                                                     *)
Touch(r, node, ref) ==
    IF r \in HTTPRoutes
    THEN IF node.status = Deleted THEN onDeletedHTTPRoute(node, ref) ELSE onUpsertedHTTPRoute(node, ref)
    ELSE IF node.status = Deleted THEN onDeletedTLSRoute(node, ref) ELSE onUpsertedTLSRoute(node, ref)

Fill(r, node) == LET refs == SetToSeq(node.refs)
                 IN  FlattenSeq([i \in DOMAIN refs |-> Touch(r, node, refs[i])])

LEMMA TouchIsSequence ==
    ASSUME NEW r \in Routes, NEW node, SoundRoute(node), NEW ref
    PROVE  IsSequence(Touch(r, node, ref))
<1>1. IsSequence(<<>>)
  BY DEF IsSequence
<1>2. IsSequence(onUpsertedHTTPRoute(node, ref)) /\ IsSequence(onUpsertedTLSRoute(node, ref))
  BY <1>1, ValidHTTPRouteCalls, ValidTLSRouteCalls DEF onUpsertedHTTPRoute, onUpsertedTLSRoute
<1>. QED BY <1>2, DeletedRouteCalls DEF Touch

(* An upserted route writes what Serves says, and nothing where it misses. *)
LEMMA TouchEffect ==
    ASSUME NEW r \in Routes, NEW node, SoundRoute(node), node.status = Upserted, NEW ref, NEW e,
           node.valid => PathsKept(node)
    PROVE  /\ ~ node.valid \/ Misses(r, node, ref, e) => Silent(Touch(r, node, ref), e)
           /\ \A i, v : node.valid /\ Serves(r, node, ref, i, e, v) => Leaves(Touch(r, node, ref), e, v)
<1>1. node.status # Deleted
  BY DEF Upserted, Deleted
<1>2. CASE ~ node.valid
  <2>1. Touch(r, node, ref) = <<>>
    BY <1>1, <1>2 DEF Touch, onUpsertedHTTPRoute, onUpsertedTLSRoute
  <2>2. Silent(<<>>, e)
    BY DEF Silent
  <2>. QED BY <1>2, <2>1, <2>2
<1>3. CASE node.valid /\ r \in HTTPRoutes
  <2>1. Touch(r, node, ref) = onValidHTTPRouteUpserted(node, ref)
    BY <1>1, <1>3 DEF Touch, onUpsertedHTTPRoute
  <2>. QED BY <1>3, <2>1, HTTPListener
<1>4. CASE node.valid /\ r \notin HTTPRoutes
  <2>1. Touch(r, node, ref) = onValidTLSRouteUpserted(node, ref) /\ r \in TLSRoutes
    BY <1>1, <1>4 DEF Touch, onUpsertedTLSRoute, Routes
  <2>. QED BY <1>4, <2>1, TLSListener
<1>. QED BY <1>2, <1>3, <1>4

LEMMA FillIsSequence ==
    ASSUME NEW r \in Routes, NEW node, SoundRoute(node)
    PROVE  IsSequence(Fill(r, node))
<1> DEFINE refs == SetToSeq(node.refs)
<1>1. IsSequence(refs)
  BY SetListed DEF SoundRoute
<1>2. Len(refs) \in Nat /\ DOMAIN refs = 1..Len(refs)
  BY <1>1, SequenceLength
<1> HIDE DEF refs
<1>3. IsSequence(FlattenSeq([i \in DOMAIN refs |-> Touch(r, node, refs[i])]))
  BY <1>2, TouchIsSequence, FlattenSteps
<1>. QED BY <1>3 DEF Fill, refs

LEMMA FillSilent ==
    ASSUME NEW r \in Routes, NEW node, SoundRoute(node), NEW e,
           \A ref \in node.refs : Silent(Touch(r, node, ref), e)
    PROVE  Silent(Fill(r, node), e)
<1> DEFINE refs == SetToSeq(node.refs)
           n == Len(refs)
           f == [i \in DOMAIN refs |-> Touch(r, node, refs[i])]
<1>1. IsSequence(refs) /\ \A i \in 1..n : refs[i] \in node.refs
  BY SetListed DEF SoundRoute
<1>2. n \in Nat /\ DOMAIN refs = 1..n
  BY <1>1, SequenceLength
<1>3. Fill(r, node) = FlattenSeq(f)
  BY DEF Fill
<1> HIDE DEF refs, n
<1>4. /\ DOMAIN f = 1..n /\ f = [i \in 1..n |-> f[i]]
      /\ \A i \in 1..n : IsSequence(f[i]) /\ Silent(f[i], e)
  BY <1>1, <1>2, TouchIsSequence
<1> HIDE DEF f
<1>5. Silent(FlattenSeq(f), e)
  BY <1>2, <1>4, FlattenSilent
<1>. QED BY <1>3, <1>5

LEMMA FillLeaves ==
    ASSUME NEW r \in Routes, NEW node, SoundRoute(node), NEW e, NEW v,
           NEW ref \in node.refs, Leaves(Touch(r, node, ref), e, v),
           \A x \in node.refs : Silent(Touch(r, node, x), e) \/ Leaves(Touch(r, node, x), e, v)
    PROVE  Leaves(Fill(r, node), e, v)
<1> DEFINE refs == SetToSeq(node.refs)
           n == Len(refs)
           f == [i \in DOMAIN refs |-> Touch(r, node, refs[i])]
<1>1. /\ IsSequence(refs) /\ \A i \in 1..n : refs[i] \in node.refs
      /\ \E i \in 1..n : refs[i] = ref
  BY SetListed DEF SoundRoute
<1>2. n \in Nat /\ DOMAIN refs = 1..n
  BY <1>1, SequenceLength
<1>3. Fill(r, node) = FlattenSeq(f)
  BY DEF Fill
<1> HIDE DEF refs, n
<1>4. PICK k \in 1..n : refs[k] = ref
  BY <1>1
<1>5. /\ DOMAIN f = 1..n /\ f = [i \in 1..n |-> f[i]]
      /\ \A i \in 1..n : f[i] = Touch(r, node, refs[i]) /\ IsSequence(f[i])
  BY <1>2, TouchIsSequence
<1> HIDE DEF f
<1>6. Leaves(f[k], e, v) /\ \A i \in 1..n : Silent(f[i], e) \/ Leaves(f[i], e, v)
  BY <1>1, <1>4, <1>5
<1>7. Leaves(FlattenSeq(f), e, v)
  BY <1>2, <1>5, <1>6, FlattenLeaves
<1>. QED BY <1>3, <1>7
-----------------------------------------------------------------------------
LEMMA OldRouteSilent ==
    ASSUME SoundRoutes(tree.routes), NEW r, NEW e
    PROVE  /\ Silent(PerListener(onDeletedHTTPRoute, OldTreeResource(r)), e)
           /\ Silent(PerListener(onDeletedTLSRoute, OldTreeResource(r)), e)
<1> DEFINE old  == OldTreeResource(r)
           refs == SetToSeq(old.refs)
<1>1. old.refs = {}
  BY DEF OldTreeResource, DeepCopy, SoundRoutes, SoundRoute, RouteFields
<1>2. IsFiniteSet({}) /\ Cardinality({}) = 0
  BY FS_EmptySet
<1>3. DOMAIN refs = 1..0
  BY <1>1, <1>2, SetToSeqIsSequence
<1> HIDE DEF refs, old
<1>4. ASSUME NEW f, DOMAIN f = 1..0, f = [i \in 1..0 |-> f[i]] PROVE Silent(FlattenSeq(f), e)
  <2>1. 0 \in Nat /\ \A i \in 1..0 : IsSequence(f[i]) /\ Silent(f[i], e)
    OBVIOUS
  <2>. QED BY <1>4, <2>1, FlattenSilent
<1> DEFINE http == [i \in DOMAIN refs |-> onDeletedHTTPRoute(old, refs[i])]
           tls  == [i \in DOMAIN refs |-> onDeletedTLSRoute(old, refs[i])]
<1>5. DOMAIN http = 1..0 /\ http = [i \in 1..0 |-> http[i]] /\ DOMAIN tls = 1..0 /\ tls = [i \in 1..0 |-> tls[i]]
  BY <1>3
<1>6. PerListener(onDeletedHTTPRoute, old) = FlattenSeq(http) /\ PerListener(onDeletedTLSRoute, old) = FlattenSeq(tls)
  BY DEF PerListener, refs
<1> HIDE DEF http, tls
<1>. QED BY <1>4, <1>5, <1>6 DEF old

(* The calls for the routes of a kind, one route after the other           *)
Agreeing(t, S, e, v) ==
    \A x \in S : Silent(Fill(x, t.routes[x]), e) \/ Leaves(Fill(x, t.routes[x]), e, v)

Written(t, S, e, v) == \E x \in S : Leaves(Fill(x, t.routes[x]), e, v)

LEMMA FillAll ==
    ASSUME NEW t, SoundRoutes(t.routes), NEW S, S \subseteq Routes \cap DOMAIN t.routes,
           NEW routes \in SetToSeqs(S), NEW e, NEW v, Agreeing(t, S, e, v)
    PROVE  LET calls == FlattenSeq([i \in DOMAIN routes |-> Fill(routes[i], t.routes[routes[i]])])
           IN  /\ IsSequence(calls)
               /\ Silent(calls, e) \/ Leaves(calls, e, v)
               /\ Written(t, S, e, v) => Leaves(calls, e, v)
<1>1. IsFiniteSet(S)
  BY FS_Subset DEF SoundRoutes
<1>2. IsSequence(routes) /\ \A x : x \in S <=> \E i \in 1..Len(routes) : routes[i] = x
  BY <1>1, SetsListed
<1> DEFINE n == Len(routes)
           f == [i \in DOMAIN routes |-> Fill(routes[i], t.routes[routes[i]])]
<1>3. n \in Nat /\ DOMAIN routes = 1..n
  BY <1>2, SequenceLength
<1>4. \A x \in S : IsSequence(Fill(x, t.routes[x]))
  BY FillIsSequence DEF SoundRoutes
<1>5. /\ DOMAIN f = 1..n /\ f = [i \in 1..n |-> f[i]]
      /\ \A i \in 1..n : f[i] = Fill(routes[i], t.routes[routes[i]]) /\ routes[i] \in S
  BY <1>2, <1>3
<1> HIDE DEF f, n
<1>6. \A i \in 1..n : IsSequence(f[i]) /\ (Silent(f[i], e) \/ Leaves(f[i], e, v))
  BY <1>4, <1>5 DEF Agreeing
<1>7. IsSequence(FlattenSeq(f))
  BY <1>3, <1>5, <1>6, FlattenSteps
<1>8. ASSUME NEW k \in 1..n, Leaves(f[k], e, v) PROVE Leaves(FlattenSeq(f), e, v)
  BY <1>3, <1>5, <1>6, <1>8, FlattenLeaves
<1>9. ASSUME \A i \in 1..n : Silent(f[i], e) PROVE Silent(FlattenSeq(f), e)
  BY <1>3, <1>5, <1>6, <1>9, FlattenSilent
<1>10. Silent(FlattenSeq(f), e) \/ Leaves(FlattenSeq(f), e, v)
  BY <1>6, <1>8, <1>9
<1>11. ASSUME Written(t, S, e, v) PROVE Leaves(FlattenSeq(f), e, v)
  <2>1. PICK x \in S : Leaves(Fill(x, t.routes[x]), e, v)
    BY <1>11 DEF Written
  <2>2. PICK k \in 1..Len(routes) : routes[k] = x
    BY <1>2
  <2>3. k \in 1..n /\ Leaves(f[k], e, v)
    BY <1>5, <2>1, <2>2 DEF n
  <2>. QED BY <1>8, <2>3
<1>. QED BY <1>7, <1>10, <1>11 DEF f

LEMMA CleanAll ==
    ASSUME NEW routes, IsSequence(routes), NEW calls, calls = [i \in DOMAIN routes |-> calls[i]], NEW e,
           \A i \in DOMAIN routes : IsSequence(calls[i]) /\ Silent(calls[i], e)
    PROVE  IsSequence(FlattenSeq(calls)) /\ Silent(FlattenSeq(calls), e)
<1>1. Len(routes) \in Nat /\ DOMAIN routes = 1..Len(routes)
  BY SequenceLength
<1>. QED BY <1>1, FlattenSteps, FlattenSilent

LEMMA FillHTTPRoutes ==
    ASSUME SoundRoutes(tree.routes), NEW t, SoundRoutes(t.routes),
           NEW routes \in SetToSeqs(HTTPRoutes \cap FilledRoutes(t)),
           NEW m, NEW e, NEW v, Agreeing(t, HTTPRoutes \cap FilledRoutes(t), e, v),
           Has(m.data, e, v) \/ Written(t, HTTPRoutes \cap FilledRoutes(t), e, v)
    PROVE  Has(fillMapsForHTTPRoutes(t, m, routes).data, e, v)
<1> DEFINE TouchHTTP(node, ref) == IF node.status = Deleted THEN onDeletedHTTPRoute(node, ref)
                                   ELSE onUpsertedHTTPRoute(node, ref)
           CleanHTTP(r) == PerListener(onDeletedHTTPRoute, OldTreeResource(r))
           FillHTTP(r)  == PerListener(TouchHTTP, t.routes[r])
           S      == HTTPRoutes \cap FilledRoutes(t)
           first  == FlattenSeq([i \in DOMAIN routes |-> CleanHTTP(routes[i])])
           second == FlattenSeq([i \in DOMAIN routes |-> Fill(routes[i], t.routes[routes[i]])])
<1>1. S \subseteq Routes \cap DOMAIN t.routes /\ S \subseteq HTTPRoutes
  BY DEF FilledRoutes, Routes
<1>2. IsFiniteSet(S)
  BY <1>1, FS_Subset DEF SoundRoutes
<1>3. IsSequence(routes) /\ \A i \in DOMAIN routes : routes[i] \in S
  <2>1. IsSequence(routes) /\ \A x : x \in S <=> \E i \in 1..Len(routes) : routes[i] = x
    BY <1>2, SetsListed
  <2>. QED BY <2>1, SequenceLength
<1>4. fillMapsForHTTPRoutes(t, m, routes) = ApplyRules(m, first \o second)
  <2>1. \A r \in S : FillHTTP(r) = Fill(r, t.routes[r])
    BY <1>1 DEF PerListener, Fill, Touch
  <2>2. fillMapsForHTTPRoutes(t, m, routes) = ApplyRules(m, PerRoute(CleanHTTP, routes) \o PerRoute(FillHTTP, routes))
    BY DEF fillMapsForHTTPRoutes
  <2> HIDE DEF FillHTTP, CleanHTTP
  <2>3. PerRoute(FillHTTP, routes) = second /\ PerRoute(CleanHTTP, routes) = first
    BY <1>3, <2>1 DEF PerRoute
  <2>. QED BY <2>2, <2>3
<1>5. IsSequence(first) /\ Silent(first, e)
  <2>1. \A r : IsSequence(CleanHTTP(r)) /\ Silent(CleanHTTP(r), e)
    BY OldRouteCalls, OldRouteSilent
  <2> HIDE DEF CleanHTTP
  <2>. QED BY <1>3, <2>1, CleanAll
<1>6. /\ IsSequence(second) /\ (Silent(second, e) \/ Leaves(second, e, v))
      /\ Written(t, S, e, v) => Leaves(second, e, v)
  BY <1>1, FillAll
<1> HIDE DEF first, second, S
<1>7. Leaves(first \o second, e, v) \/ (Silent(first \o second, e) /\ Has(m.data, e, v))
  BY <1>5, <1>6, LeavesConcat, SilentConcat DEF S
<1>8. Len(first \o second) \in Nat
  BY <1>5, <1>6, ConcatSequence, SequenceLength
<1>. QED BY <1>4, <1>7, <1>8, RulesLeave

LEMMA FillTLSRoutes ==
    ASSUME SoundRoutes(tree.routes), NEW t, SoundRoutes(t.routes),
           NEW routes \in SetToSeqs(TLSRoutes \cap FilledRoutes(t)),
           NEW m, NEW e, NEW v, Agreeing(t, TLSRoutes \cap FilledRoutes(t), e, v),
           Has(m.data, e, v) \/ Written(t, TLSRoutes \cap FilledRoutes(t), e, v)
    PROVE  Has(fillMapsForTLSRoutes(t, m, routes).data, e, v)
<1> DEFINE TouchTLS(node, ref) == IF node.status = Deleted THEN onDeletedTLSRoute(node, ref)
                                  ELSE onUpsertedTLSRoute(node, ref)
           CleanTLS(r) == PerListener(onDeletedTLSRoute, OldTreeResource(r))
           FillTLS(r)  == PerListener(TouchTLS, t.routes[r])
           S      == TLSRoutes \cap FilledRoutes(t)
           first  == FlattenSeq([i \in DOMAIN routes |-> CleanTLS(routes[i])])
           second == FlattenSeq([i \in DOMAIN routes |-> Fill(routes[i], t.routes[routes[i]])])
<1>1. S \subseteq Routes \cap DOMAIN t.routes /\ S \cap HTTPRoutes = {}
  BY RoutesApart DEF FilledRoutes, Routes
<1>2. IsFiniteSet(S)
  BY <1>1, FS_Subset DEF SoundRoutes
<1>3. IsSequence(routes) /\ \A i \in DOMAIN routes : routes[i] \in S
  <2>1. IsSequence(routes) /\ \A x : x \in S <=> \E i \in 1..Len(routes) : routes[i] = x
    BY <1>2, SetsListed
  <2>. QED BY <2>1, SequenceLength
<1>4. fillMapsForTLSRoutes(t, m, routes) = ApplyRules(m, first \o second)
  <2>1. \A r \in S : FillTLS(r) = Fill(r, t.routes[r])
    <3>1. \A r \in S : r \notin HTTPRoutes
      BY <1>1
    <3>. QED BY <3>1 DEF PerListener, Fill, Touch
  <2>2. fillMapsForTLSRoutes(t, m, routes) = ApplyRules(m, PerRoute(CleanTLS, routes) \o PerRoute(FillTLS, routes))
    BY DEF fillMapsForTLSRoutes
  <2> HIDE DEF FillTLS, CleanTLS
  <2>3. PerRoute(FillTLS, routes) = second /\ PerRoute(CleanTLS, routes) = first
    BY <1>3, <2>1 DEF PerRoute
  <2>. QED BY <2>2, <2>3
<1>5. IsSequence(first) /\ Silent(first, e)
  <2>1. \A r : IsSequence(CleanTLS(r)) /\ Silent(CleanTLS(r), e)
    BY OldRouteCalls, OldRouteSilent
  <2> HIDE DEF CleanTLS
  <2>. QED BY <1>3, <2>1, CleanAll
<1>6. /\ IsSequence(second) /\ (Silent(second, e) \/ Leaves(second, e, v))
      /\ Written(t, S, e, v) => Leaves(second, e, v)
  BY <1>1, FillAll
<1> HIDE DEF first, second, S
<1>7. Leaves(first \o second, e, v) \/ (Silent(first \o second, e) /\ Has(m.data, e, v))
  BY <1>5, <1>6, LeavesConcat, SilentConcat DEF S
<1>8. Len(first \o second) \in Nat
  BY <1>5, <1>6, ConcatSequence, SequenceLength
<1>. QED BY <1>4, <1>7, <1>8, RulesLeave

(* fillMaps: an entry on which the routes of a batch agree ends up with    *)
(* what they agree on, or keeps what it has.                               *)
LEMMA FillMapsLeave ==
    ASSUME SoundRoutes(tree.routes), NEW t, SoundRoutes(t.routes),
           NEW http \in SetToSeqs(HTTPRoutes \cap FilledRoutes(t)),
           NEW tls \in SetToSeqs(TLSRoutes \cap FilledRoutes(t)),
           NEW e, NEW v, Agreeing(t, Routes \cap FilledRoutes(t), e, v),
           Has(maps, e, v) \/ Written(t, Routes \cap FilledRoutes(t), e, v)
    PROVE  Has(fillMaps(t, http, tls).data, e, v)
<1> DEFINE m == fillMapsForHTTPRoutes(t, NoUpdates(maps), http)
           H == HTTPRoutes \cap FilledRoutes(t)
           T == TLSRoutes \cap FilledRoutes(t)
<1>1. Agreeing(t, H, e, v) /\ Agreeing(t, T, e, v)
  BY DEF Agreeing, Routes
<1>2. Has(maps, e, v) \/ Written(t, H, e, v) \/ Written(t, T, e, v)
  BY DEF Written, Routes
<1>3. NoUpdates(maps).data = maps
  BY DEF NoUpdates
<1>4. Has(m.data, e, v) \/ Written(t, T, e, v)
  BY <1>1, <1>2, <1>3, FillHTTPRoutes
<1> HIDE DEF m
<1>5. Has(fillMapsForTLSRoutes(t, m, tls).data, e, v)
  BY <1>1, <1>4, FillTLSRoutes
<1>. QED BY <1>5 DEF fillMaps, m
-----------------------------------------------------------------------------
LEMMA PrefixGrows ==
    ASSUME NEW S, NEW b \in Seq(S), NEW i \in 1..Len(b)
    PROVE  [j \in 1..(i - 1) |-> b[j]] \o <<b[i]>> = [j \in 1..i |-> b[j]]
<1> DEFINE s == [j \in 1..(i - 1) |-> b[j]]
           u == [j \in 1..i |-> b[j]]
<1>1. i \in Nat /\ i - 1 \in Nat /\ \A j \in 1..Len(b) : b[j] \in S
  OBVIOUS
<1>2. s \in Seq(S) /\ Len(s) = i - 1
  BY <1>1
<1>3. u \in Seq(S) /\ Len(u) = i
  BY <1>1
<1>4. (s \o <<b[i]>>) \in Seq(S) /\ Len((s \o <<b[i]>>)) = i
  BY <1>1, <1>2
<1>5. ASSUME NEW j \in 1..i PROVE (s \o <<b[i]>>)[j] = u[j]
  BY <1>1, <1>2
<1> HIDE DEF s, u
<1>6. (s \o <<b[i]>>) = u
  BY <1>3, <1>4, <1>5
<1>. QED BY <1>6 DEF s, u

(* A rule whose backends all exist is valid, and keeps them all.           *)
LEMMA AllRefsPass ==
    ASSUME NEW t, NEW S, NEW b \in Seq(S), b # <<>>, \A i \in DOMAIN b : Live(t.services, b[i])
    PROVE  checkBackendRef(t, b) /\ CheckedRefs(t, b) = b
<1> DEFINE N == Len(b)
           Prefix(i) == [j \in 1..i |-> b[j]]
           Def(g) == g = [i \in 0..N |->
                            IF i = 0 THEN <<>>
                            ELSE g[i - 1] \o IF Live(t.services, b[i]) THEN <<b[i]>> ELSE <<>>]
           w == [i \in 0..N |-> Prefix(i)]
           passed == CHOOSE g : Def(g)
<1>1. N \in Nat /\ N # 0 /\ DOMAIN b = 1..N
  OBVIOUS
<1>2. checkBackendRef(t, b)
  <2>1. N \in DOMAIN b /\ \A i \in DOMAIN b : Live(t.services, b[i]) <=> i <= N
    BY <1>1
  <2>. QED BY <2>1 DEF checkBackendRef
<1>3. CheckedRefs(t, b) = passed[N]
  BY DEF CheckedRefs
<1>4. \A i \in 1..N : Prefix(i - 1) \o <<b[i]>> = Prefix(i) /\ i # 0 /\ i - 1 \in 0..N
  BY <1>1, PrefixGrows
<1>5. Prefix(0) = <<>>
  OBVIOUS
<1>6. Prefix(N) = b
  BY <1>1
<1>7. Def(w)
  <2> HIDE DEF Prefix
  <2> SUFFICES ASSUME NEW i \in 0..N
               PROVE w[i] = IF i = 0 THEN <<>>
                            ELSE w[i - 1] \o IF Live(t.services, b[i]) THEN <<b[i]>> ELSE <<>>
      OBVIOUS
  <2>1. CASE i = 0
    BY <1>5, <2>1
  <2>2. CASE i # 0
    <3>1. i \in 1..N /\ Live(t.services, b[i])
      BY <1>1, <2>2
    <3>. QED BY <1>4, <2>2, <3>1
  <2>. QED BY <2>1, <2>2
<1> HIDE DEF w
<1>8. Def(passed)
  BY <1>7
<1> HIDE DEF passed
<1>9. passed[0] = <<>> /\ \A i \in 1..N : passed[i] = passed[i - 1] \o <<b[i]>>
  <2>1. passed[0] = <<>>
    BY <1>1, <1>8
  <2>2. ASSUME NEW i \in 1..N PROVE passed[i] = passed[i - 1] \o <<b[i]>>
    <3>1. i # 0 /\ i \in 0..N /\ Live(t.services, b[i])
      BY <1>1
    <3>. QED BY <1>8, <3>1
  <2>. QED BY <2>1, <2>2
<1> HIDE DEF Prefix, Def
<1> DEFINE T == {n \in 0..N : passed[n] # Prefix(n)}
<1>10. T = {}
  <2> SUFFICES ASSUME T # {} PROVE FALSE
      OBVIOUS
  <2>1. T \in SUBSET Nat
    BY <1>1
  <2>2. PICK n \in T : \A k \in T : n <= k
    BY ONLY <2>1, T # {}, LeastNatural
  <2>3. n # 0
    BY <1>5, <1>9
  <2>4. n - 1 \notin T /\ n - 1 \in 0..N /\ n \in 1..N
    <3>1. n \in 0..N
      OBVIOUS
    <3>2. n \in 1..N /\ n - 1 \in 0..N /\ ~ (n <= n - 1)
      BY <1>1, <2>3, <3>1
    <3> HIDE DEF T
    <3>. QED BY <2>2, <3>2
  <2>5. passed[n - 1] = Prefix(n - 1)
    BY <2>4
  <2>. QED BY <1>4, <1>9, <2>2, <2>4, <2>5
<1>11. passed[N] = Prefix(N)
  BY <1>1, <1>10
<1>. QED BY <1>2, <1>3, <1>6, <1>11
-----------------------------------------------------------------------------
(* A route as the tree has it.  Building a gateway anew and taking a route *)
(* of the same name into account change the references' marks alone.       *)
Target(ref)   == [gateway |-> ref.gateway, listener |-> ref.listener, spec |-> ref.spec]
Targets(refs) == {Target(ref) : ref \in refs}

Alike(node, other) ==
    /\ DOMAIN node = RouteFields /\ DOMAIN other = RouteFields
    /\ other.in = node.in /\ other.status = node.status /\ other.spec = node.spec
    /\ other.valid = node.valid /\ other.rules = node.rules
    /\ Targets(other.refs) = Targets(node.refs)

LEMMA DetachAlike ==
    ASSUME NEW routes, NEW r \in DOMAIN routes, SoundRoute(routes[r]), NEW S
    PROVE  r \in DOMAIN Detach(routes, S) /\ Alike(routes[r], Detach(routes, S)[r])
<1> DEFINE refs == routes[r].refs
           Mark(ref) == [ref EXCEPT !.current = @ /\ ref.gateway \notin S]
           new == Detach(routes, S)[r]
<1>1. new = [routes[r] EXCEPT !.refs = {Mark(ref) : ref \in refs}] /\ r \in DOMAIN Detach(routes, S)
  BY DEF Detach
<1>2. \A ref \in refs : Target(Mark(ref)) = Target(ref)
  BY DEF SoundRoute, Marked, RefFields, Target
<1> HIDE DEF Mark, new
<1>3. DOMAIN new = RouteFields /\ new.refs = {Mark(ref) : ref \in refs}
      /\ new.in = routes[r].in /\ new.status = routes[r].status /\ new.spec = routes[r].spec
      /\ new.valid = routes[r].valid /\ new.rules = routes[r].rules
  BY <1>1 DEF SoundRoute, RouteFields
<1>4. Targets(new.refs) = Targets(refs)
  BY <1>2, <1>3 DEF Targets
<1>. QED BY <1>1, <1>3, <1>4 DEF Alike, SoundRoute, new

LEMMA AlikeReflexive ==
    ASSUME NEW node, SoundRoute(node)
    PROVE  Alike(node, node)
BY DEF Alike, SoundRoute

LEMMA AlikeTransitive ==
    ASSUME NEW one, NEW other, NEW last, Alike(one, other), Alike(other, last)
    PROVE  Alike(one, last)
BY DEF Alike

(* The listeners a route of the store finds in tree t                      *)
ParentRefs(t, r) == IF r \in HTTPRoutes THEN checkHTTPParentRefs(t, store[r])
                    ELSE checkTLSParentRefs(t, store[r])

(* Route r, upserted with the listeners it found in tree t                 *)
Found(t, r, node) ==
    /\ DOMAIN node = RouteFields
    /\ node.status = Upserted
    /\ node.spec = store[r]
    /\ Targets(node.refs) = Targets(ParentRefs(t, r))
    /\ node.valid <=> node.refs # {}
    /\ node.refs # {} => "managed" \in node.in

LEMMA FoundAlike ==
    ASSUME NEW t, NEW r, NEW node, Found(t, r, node), NEW other, Alike(node, other)
    PROVE  Found(t, r, other)
<1>1. \A refs : refs = {} <=> Targets(refs) = {}
  BY DEF Targets
<1>2. other.refs = {} <=> node.refs = {}
  BY <1>1 DEF Alike
<1>3. other.valid = node.valid
  BY DEF Alike
<1>4. other.valid <=> other.refs # {}
  BY <1>2, <1>3 DEF Found
<1>. QED BY <1>2, <1>4 DEF Found, Alike

LEMMA JoinsRoute ==
    ASSUME NEW routes, NEW r \in DOMAIN routes, DOMAIN routes[r] = RouteFields, NEW in
    PROVE  /\ DOMAIN Joins(routes, r, in) = DOMAIN routes
           /\ \A x \in DOMAIN routes : x # r => Joins(routes, r, in)[x] = routes[x]
           /\ LET node == Joins(routes, r, in)[r]
              IN  /\ DOMAIN node = RouteFields
                  /\ node.in = routes[r].in \cup {in} /\ node.status = routes[r].status
                  /\ node.spec = routes[r].spec /\ node.valid = routes[r].valid
                  /\ node.refs = routes[r].refs /\ node.rules = routes[r].rules
<1> DEFINE node == [routes[r] EXCEPT !.in = @ \cup {in}]
<1>1. /\ DOMAIN node = RouteFields
      /\ node.in = routes[r].in \cup {in} /\ node.status = routes[r].status
      /\ node.spec = routes[r].spec /\ node.valid = routes[r].valid
      /\ node.refs = routes[r].refs /\ node.rules = routes[r].rules
  BY DEF RouteFields
<1>2. Joins(routes, r, in) = Override(routes, [x \in {r} |-> node])
  BY DEF Joins
<1> HIDE DEF node
<1>3. /\ DOMAIN Joins(routes, r, in) = DOMAIN routes
      /\ \A x \in DOMAIN routes : x # r => Joins(routes, r, in)[x] = routes[x]
      /\ Joins(routes, r, in)[r] = node
  BY <1>2 DEF Override
<1>. QED BY <1>1, <1>3

(* The other routes stay as they are.                                      *)
OthersAlike(t, r, u) ==
    /\ u.services = t.services
    /\ \A x : x # r => (x \in DOMAIN u.routes <=> x \in DOMAIN t.routes)
    /\ \A x \in DOMAIN t.routes : x # r => Alike(t.routes[x], u.routes[x])

LEMMA UpsertedRoute ==
    ASSUME NEW t, SoundRoutes(t.routes), InputsSound, NEW r \in Routes \cap DOMAIN store,
           NEW refs, IsFiniteSet(refs), Marked(refs), refs = ParentRefs(t, r)
    PROVE  LET u == UpsertRoute(t, r, refs)
           IN  /\ OthersAlike(t, r, u)
               /\ r \in DOMAIN u.routes /\ Found(t, r, u.routes[r])
<1> DEFINE known == r \in DOMAIN t.routes
           node  == [in |-> IF known THEN t.routes[r].in ELSE {}, status |-> Upserted, spec |-> store[r],
                     valid |-> refs # {}, refs |-> refs,
                     rules |-> IF known THEN t.routes[r].rules ELSE <<>>]
           routes == Override(t.routes, [x \in {r} |-> node])
           built == Rebuilt(t, addAttachedRoute(t.gateways, r, refs), routes)
           u == UpsertRoute(t, r, refs)
           in == IF refs # {} THEN "managed" ELSE "unmanaged"
<1>1. u = IF refs # {} THEN SetAsManaged(built, r) ELSE SetAsUnmanaged(built, r)
  BY DEF UpsertRoute
<1>2. /\ DOMAIN node = RouteFields /\ node.status = Upserted /\ node.spec = store[r]
      /\ (node.valid <=> refs # {}) /\ node.refs = refs
  BY DEF RouteFields
<1>3. SoundRoute(node)
  <2>1. IsSequence(<<>>)
    BY DEF IsSequence
  <2>2. IsSequence(node.rules)
    BY <2>1 DEF SoundRoutes, SoundRoute
  <2>3. store[r] \in Versions[r]
    BY DEF InputsSound
  <2>4. IsFiniteSet(store[r].hostnames) /\ IsSequence(store[r].rules)
    BY <2>3, SpecsAssumption DEF IsSequence
  <2>. QED BY <2>2, <2>4 DEF SoundRoute, RouteFields
<1> HIDE DEF node
<1>4. /\ DOMAIN routes = DOMAIN t.routes \cup {r} /\ routes[r] = node
      /\ \A x \in DOMAIN t.routes : x # r => routes[x] = t.routes[x]
  BY DEF Override
<1>5. built.routes = routes /\ built.services = t.services
  BY DEF Rebuilt
<1> HIDE DEF routes, built
<1> DEFINE joined == Joins(routes, r, in)
<1>6. /\ DOMAIN joined = DOMAIN routes /\ \A x \in DOMAIN routes : x # r => joined[x] = routes[x]
      /\ DOMAIN joined[r] = RouteFields /\ joined[r].in = node.in \cup {in}
      /\ joined[r].status = node.status /\ joined[r].spec = node.spec /\ joined[r].valid = node.valid
      /\ joined[r].refs = node.refs /\ joined[r].rules = node.rules
  BY <1>2, <1>4, JoinsRoute
<1>7. Found(t, r, joined[r])
  <2>1. joined[r].valid <=> joined[r].refs # {}
    BY <1>2, <1>6
  <2>2. joined[r].refs # {} => "managed" \in joined[r].in
    BY <1>2, <1>6
  <2>3. Targets(joined[r].refs) = Targets(ParentRefs(t, r))
    BY <1>2, <1>6
  <2>. QED BY <1>2, <1>6, <2>1, <2>2, <2>3 DEF Found
<1>8. SoundRoute(joined[r])
  BY <1>3, <1>6 DEF SoundRoute
<1>9. \A x \in DOMAIN joined : SoundRoute(joined[x])
  BY <1>4, <1>6, <1>8 DEF SoundRoutes
<1>10. /\ \A x : x # r => (x \in DOMAIN joined <=> x \in DOMAIN t.routes)
       /\ r \in DOMAIN joined
       /\ \A x \in DOMAIN t.routes : x # r => joined[x] = t.routes[x]
  BY <1>4, <1>6
<1> HIDE DEF joined, u
<1>11. CASE refs # {}
  <2>1. u.routes = joined /\ u.services = t.services
    BY <1>1, <1>5, <1>11 DEF SetAsManaged, Rebuilt, joined
  <2>2. \A x \in DOMAIN t.routes : x # r => Alike(t.routes[x], u.routes[x])
    BY <1>10, <2>1, AlikeReflexive DEF SoundRoutes
  <2>. QED BY <1>7, <1>10, <2>1, <2>2 DEF OthersAlike, u
<1>12. CASE refs = {}
  <2>1. PICK S : u.routes = Detach(joined, S) /\ u.services = t.services
    BY <1>1, <1>5, <1>12 DEF SetAsUnmanaged, Rebuilt, joined
  <2>2. DOMAIN u.routes = DOMAIN joined
    BY <2>1 DEF Detach
  <2>3. \A x \in DOMAIN joined : Alike(joined[x], u.routes[x])
    BY <1>9, <2>1, DetachAlike
  <2>4. \A x \in DOMAIN t.routes : x # r => Alike(t.routes[x], u.routes[x])
    BY <1>10, <2>3
  <2>5. Found(t, r, u.routes[r])
    BY <1>7, <1>10, <2>3, FoundAlike
  <2>. QED BY <1>10, <2>1, <2>2, <2>4, <2>5 DEF OthersAlike, u
<1>. QED BY <1>11, <1>12

LEMMA UpdatedRoute ==
    ASSUME NEW t, SoundRoutes(t.routes), ListenersFinite(t), InputsSound, NEW r \in Routes
    PROVE  LET u == computeTreeRouteUpdate(t, r)
           IN  /\ OthersAlike(t, r, u)
               /\ r \in DOMAIN store => r \in DOMAIN u.routes /\ Found(t, r, u.routes[r])
               /\ r \notin DOMAIN store /\ r \in DOMAIN u.routes =>
                     u.routes[r].status = Deleted /\ u.routes[r].refs = {}
<1> DEFINE u == computeTreeRouteUpdate(t, r)
<1>1. CASE r \in DOMAIN store
  <2>1. u = UpsertRoute(t, r, ParentRefs(t, r))
    BY <1>1 DEF computeTreeRouteUpdate, computeTreeHTTPRouteUpdate, computeTreeTLSRouteUpdate, ParentRefs
  <2>2. IsFiniteSet(store[r].parents)
    BY <1>1, SpecsAssumption DEF InputsSound
  <2>3. IsFiniteSet(ParentRefs(t, r)) /\ Marked(ParentRefs(t, r))
    BY <2>2, FoundListeners DEF ParentRefs
  <2> HIDE DEF u
  <2>4. OthersAlike(t, r, u) /\ r \in DOMAIN u.routes /\ Found(t, r, u.routes[r])
    BY <1>1, <2>1, <2>3, UpsertedRoute
  <2>. QED BY <1>1, <2>4 DEF u
<1>2. CASE r \notin DOMAIN store
  <2>1. u = DeleteRoute(t, r)
    BY <1>2 DEF computeTreeRouteUpdate, computeTreeHTTPRouteUpdate, computeTreeTLSRouteUpdate
  <2> HIDE DEF u
  <2>2. \A x \in DOMAIN t.routes : Alike(t.routes[x], t.routes[x])
    BY AlikeReflexive DEF SoundRoutes
  <2>3. CASE r \in DOMAIN t.routes
    <3>1. u.services = t.services /\ u.routes = Override(t.routes, [x \in {r} |-> DeletedRoute(t.routes[r])])
      BY <2>1, <2>3 DEF DeleteRoute, Rebuilt
    <3>2. /\ DOMAIN u.routes = DOMAIN t.routes /\ u.routes[r] = DeletedRoute(t.routes[r])
          /\ \A x \in DOMAIN t.routes : x # r => u.routes[x] = t.routes[x]
      BY <2>3, <3>1 DEF Override
    <3>3. OthersAlike(t, r, u)
      BY <2>2, <3>1, <3>2 DEF OthersAlike
    <3>4. u.routes[r].status = Deleted /\ u.routes[r].refs = {}
      BY <3>2 DEF DeletedRoute
    <3>. QED BY <1>2, <3>3, <3>4 DEF u
  <2>4. CASE r \notin DOMAIN t.routes
    <3>1. u = t
      BY <2>1, <2>4 DEF DeleteRoute
    <3>2. OthersAlike(t, r, u)
      BY <2>2, <3>1 DEF OthersAlike
    <3>. QED BY <1>2, <2>4, <3>1, <3>2 DEF u
  <2>. QED BY <2>3, <2>4
<1>. QED BY <1>1, <1>2
-----------------------------------------------------------------------------
(* The routes of tree u, built from tree t by updating the routes in S     *)
Fresh(t, x, u) == \E w : GatewaysKept(t, w) /\ GatewaysKept(w, u) /\ Found(w, x, u.routes[x])

RoutesSettled(t, S, u) ==
    /\ u.services = t.services
    /\ \A x : x \notin S => (x \in DOMAIN u.routes <=> x \in DOMAIN t.routes)
    /\ \A x \in DOMAIN t.routes \ S : Alike(t.routes[x], u.routes[x])
    /\ \A x \in S \cap DOMAIN store : x \in DOMAIN u.routes /\ Fresh(t, x, u)
    /\ \A x \in (S \cap DOMAIN u.routes) \ DOMAIN store : u.routes[x].status = Deleted /\ u.routes[x].refs = {}

LEMMA NothingSettled ==
    ASSUME NEW t, SoundRoutes(t.routes)
    PROVE  RoutesSettled(t, {}, t)
BY AlikeReflexive DEF RoutesSettled, SoundRoutes

LEMMA OneMoreSettled ==
    ASSUME NEW t, NEW S, NEW w, RoutesSettled(t, S, w), GatewaysKept(t, w), SoundRoutes(w.routes),
           ListenersFinite(w), InputsSound, DOMAIN w = Kinds, NodesHaveFields(w),
           NEW r \in Routes, NEW u, u = computeTreeRouteUpdate(w, r)
    PROVE  RoutesSettled(t, S \cup {r}, u)
<1>1. /\ OthersAlike(w, r, u)
      /\ r \in DOMAIN store => r \in DOMAIN u.routes /\ Found(w, r, u.routes[r])
      /\ r \notin DOMAIN store /\ r \in DOMAIN u.routes => u.routes[r].status = Deleted /\ u.routes[r].refs = {}
  BY UpdatedRoute
<1>2. GatewaysKept(w, u)
  BY KeptUpdate
<1>3. u.services = t.services
  BY <1>1 DEF OthersAlike, RoutesSettled
<1>4. ASSUME NEW x, x \notin S \cup {r} PROVE x \in DOMAIN u.routes <=> x \in DOMAIN t.routes
  BY <1>1, <1>4 DEF OthersAlike, RoutesSettled
<1>5. ASSUME NEW x \in DOMAIN t.routes \ (S \cup {r}) PROVE Alike(t.routes[x], u.routes[x])
  <2>1. x \in DOMAIN w.routes /\ Alike(t.routes[x], w.routes[x])
    BY DEF RoutesSettled
  <2>2. Alike(w.routes[x], u.routes[x])
    BY <1>1, <2>1 DEF OthersAlike
  <2>. QED BY <2>1, <2>2, AlikeTransitive
<1>6. ASSUME NEW x \in (S \cup {r}) \cap DOMAIN store PROVE x \in DOMAIN u.routes /\ Fresh(t, x, u)
  <2>1. CASE x = r
    BY <1>1, <1>2, <2>1 DEF Fresh
  <2>2. CASE x # r
    <3>1. x \in DOMAIN w.routes /\ Fresh(t, x, w)
      BY <2>2 DEF RoutesSettled
    <3>2. PICK v : GatewaysKept(t, v) /\ GatewaysKept(v, w) /\ Found(v, x, w.routes[x])
      BY <3>1 DEF Fresh
    <3>3. x \in DOMAIN u.routes /\ Alike(w.routes[x], u.routes[x])
      BY <1>1, <2>2, <3>1 DEF OthersAlike
    <3>4. GatewaysKept(v, u) /\ Found(v, x, u.routes[x])
      BY <1>2, <3>2, <3>3, KeptTransitive, FoundAlike
    <3>. QED BY <3>2, <3>3, <3>4 DEF Fresh
  <2>. QED BY <2>1, <2>2
<1>7. ASSUME NEW x \in ((S \cup {r}) \cap DOMAIN u.routes) \ DOMAIN store
      PROVE  u.routes[x].status = Deleted /\ u.routes[x].refs = {}
  <2>1. CASE x = r
    BY <1>1, <2>1
  <2>2. CASE x # r
    <3>1. x \in DOMAIN w.routes /\ Alike(w.routes[x], u.routes[x])
      BY <1>1, <2>2 DEF OthersAlike
    <3>2. w.routes[x].status = Deleted /\ w.routes[x].refs = {}
      BY <2>2, <3>1 DEF RoutesSettled
    <3>. QED BY <3>1, <3>2 DEF Alike, Targets
  <2>. QED BY <2>1, <2>2
<1>. QED BY <1>3, <1>4, <1>5, <1>6, <1>7 DEF RoutesSettled

LEMMA AllSettled ==
    ASSUME NEW t, DOMAIN t = Kinds, NodesHaveFields(t), SoundRoutes(t.routes), ListenersFinite(t), InputsSound,
           NEW routes \in Seq(Routes)
    PROVE  RoutesSettled(t, {routes[i] : i \in 1..Len(routes)}, computeTreeRouteUpdates(t, routes))
<1>1. Len(routes) \in Nat
  OBVIOUS
<1>2. PICK built : /\ built = [i \in 0..Len(routes) |->
                                  IF i = 0 THEN t ELSE computeTreeRouteUpdate(built[i - 1], routes[i])]
                   /\ computeTreeRouteUpdates(t, routes) = built[Len(routes)]
  BY <1>1, RouteUpdatesUnfold
<1> DEFINE Done(n) == {routes[i] : i \in 1..n}
           Kept(n) == /\ GatewaysKept(t, built[n]) /\ SoundRoutes(built[n].routes)
                      /\ RoutesSettled(t, Done(n), built[n])
           T == {n \in 0..Len(routes) : ~ Kept(n)}
<1>3. T = {}
  <2> SUFFICES ASSUME T # {} PROVE FALSE
      OBVIOUS
  <2>1. T \in SUBSET Nat
    BY <1>1
  <2>2. PICK n \in T : \A m \in T : n <= m
    BY ONLY <2>1, T # {}, LeastNatural
  <2>3. n # 0
    <3>1. Done(0) = {}
      OBVIOUS
    <3>2. built[0] = t
      BY <1>1, <1>2
    <3>3. Kept(0)
      BY <3>1, <3>2, KeptReflexive, NothingSettled
    <3> HIDE DEF Kept
    <3>. QED BY <3>3
  <2>4. n - 1 \notin T /\ n - 1 \in 0..Len(routes) /\ n \in 1..Len(routes)
    <3>1. n \in 0..Len(routes)
      OBVIOUS
    <3>2. n - 1 \in 0..Len(routes) /\ ~ (n <= n - 1) /\ n \in 1..Len(routes)
      BY <1>1, <2>3, <3>1
    <3> HIDE DEF T
    <3>. QED BY <2>2, <3>2
  <2>5. Kept(n - 1)
    BY <2>4
  <2>6. routes[n] \in Routes
    BY <2>4
  <2>7. built[n] = computeTreeRouteUpdate(built[n - 1], routes[n])
    BY <1>2, <2>3, <2>4
  <2>8. DOMAIN built[n - 1] = Kinds /\ NodesHaveFields(built[n - 1]) /\ ListenersFinite(built[n - 1])
    BY <2>5, KeptFields, FiniteKept DEF GatewaysKept
  <2>9. GatewaysKept(built[n - 1], built[n])
    BY <2>6, <2>7, <2>8, KeptUpdate
  <2>10. GatewaysKept(t, built[n])
    BY <2>5, <2>9, KeptTransitive
  <2>11. SoundRoutes(built[n].routes)
    BY <2>5, <2>6, <2>7, <2>8, UpdatedRoutes
  <2>12. Done(n) = Done(n - 1) \cup {routes[n]}
    <3>1. 1..n = 1..(n - 1) \cup {n}
      BY <2>4
    <3>. QED BY <3>1
  <2> HIDE DEF Done
  <2>13. RoutesSettled(t, Done(n), built[n])
    BY <2>5, <2>6, <2>7, <2>8, <2>12, OneMoreSettled
  <2>14. Kept(n)
    BY <2>10, <2>11, <2>13
  <2> HIDE DEF Kept
  <2>. QED BY <2>2, <2>14
<1>4. Kept(Len(routes))
  <2>1. Len(routes) \in 0..Len(routes)
    BY <1>1
  <2> HIDE DEF Kept
  <2>. QED BY <1>3, <2>1
<1>. QED BY <1>2, <1>4

LEMMA BuiltRules ==
    ASSUME NEW t, NEW u, u.services = t.services, NEW rules
    PROVE  buildRules(u, rules) = buildRules(t, rules)
BY DEF buildRules, checkBackendRef, CheckedRefs

LEMMA RuledRoute ==
    ASSUME NEW t, SoundRoutes(t.routes), NEW K, NEW u, u = WithRules(t, K)
    PROVE  /\ u.services = t.services /\ DOMAIN u.routes = DOMAIN t.routes
           /\ \A x \in DOMAIN t.routes :
                 /\ x \notin K \/ t.routes[x].status # Upserted \/ ~ t.routes[x].valid
                       => u.routes[x] = t.routes[x]
                 /\ x \in K /\ t.routes[x].status = Upserted /\ t.routes[x].valid
                       => /\ u.routes[x].rules = buildRules(u, t.routes[x].spec.rules)
                          /\ DOMAIN u.routes[x] = RouteFields /\ u.routes[x].in = t.routes[x].in
                          /\ u.routes[x].status = t.routes[x].status /\ u.routes[x].spec = t.routes[x].spec
                          /\ u.routes[x].valid = t.routes[x].valid /\ u.routes[x].refs = t.routes[x].refs
<1> DEFINE managed == {r \in K \cap DOMAIN t.routes : t.routes[r].status = Upserted /\ t.routes[r].valid}
           f == [r \in managed |-> [t.routes[r] EXCEPT !.rules = buildRules(t, t.routes[r].spec.rules)]]
<1>1. u.routes = Override(t.routes, f) /\ u.services = t.services
  BY DEF WithRules, Rebuilt
<1>2. DOMAIN u.routes = DOMAIN t.routes
  BY <1>1 DEF Override
<1>3. ASSUME NEW x \in DOMAIN t.routes, x \notin managed PROVE u.routes[x] = t.routes[x]
  BY <1>1, <1>3 DEF Override
<1>4. ASSUME NEW x \in managed
      PROVE  /\ u.routes[x].rules = buildRules(u, t.routes[x].spec.rules)
             /\ DOMAIN u.routes[x] = RouteFields /\ u.routes[x].in = t.routes[x].in
             /\ u.routes[x].status = t.routes[x].status /\ u.routes[x].spec = t.routes[x].spec
             /\ u.routes[x].valid = t.routes[x].valid /\ u.routes[x].refs = t.routes[x].refs
  <2> DEFINE rules == buildRules(t, t.routes[x].spec.rules)
  <2>1. u.routes[x] = [t.routes[x] EXCEPT !.rules = rules]
    BY <1>1 DEF Override
  <2>2. DOMAIN t.routes[x] = RouteFields
    BY DEF SoundRoutes, SoundRoute
  <2>3. rules = buildRules(u, t.routes[x].spec.rules)
    BY <1>1, BuiltRules
  <2> HIDE DEF rules
  <2>. QED BY <2>1, <2>2, <2>3 DEF RouteFields
<1>. QED BY <1>1, <1>2, <1>3, <1>4

(* The routes of a kind                                                    *)
Ruled(u, x) == u.routes[x].valid => u.routes[x].rules = buildRules(u, store[x].rules)

KindSettled(t, K, S, u) ==
    /\ u.services = t.services
    /\ \A x : x \notin S => (x \in DOMAIN u.routes <=> x \in DOMAIN t.routes)
    /\ \A x \in DOMAIN t.routes \ S : x \notin K \/ t.routes[x].status # Upserted => Alike(t.routes[x], u.routes[x])
    /\ \A x \in S \cap DOMAIN store : x \in DOMAIN u.routes /\ Fresh(t, x, u) /\ Ruled(u, x)
    /\ \A x \in (S \cap DOMAIN u.routes) \ DOMAIN store : u.routes[x].status = Deleted /\ u.routes[x].refs = {}

LEMMA KindSettles ==
    ASSUME NEW t, NEW K, NEW S, S \subseteq K, NEW w, RoutesSettled(t, S, w), SoundRoutes(w.routes),
           DOMAIN w = Kinds, NEW u, u = WithRules(w, K)
    PROVE  KindSettled(t, K, S, u)
<1> USE DEF Upserted, Deleted
<1>1. /\ u.services = w.services /\ DOMAIN u.routes = DOMAIN w.routes
      /\ \A x \in DOMAIN w.routes :
            /\ x \notin K \/ w.routes[x].status # Upserted \/ ~ w.routes[x].valid => u.routes[x] = w.routes[x]
            /\ x \in K /\ w.routes[x].status = Upserted /\ w.routes[x].valid
                  => /\ u.routes[x].rules = buildRules(u, w.routes[x].spec.rules)
                     /\ DOMAIN u.routes[x] = RouteFields /\ u.routes[x].in = w.routes[x].in
                     /\ u.routes[x].status = w.routes[x].status /\ u.routes[x].spec = w.routes[x].spec
                     /\ u.routes[x].valid = w.routes[x].valid /\ u.routes[x].refs = w.routes[x].refs
  BY RuledRoute
<1>2. GatewaysKept(w, u)
  BY KeptRules
<1>3. u.services = t.services
  BY <1>1 DEF RoutesSettled
<1>4. \A x : x \notin S => (x \in DOMAIN u.routes <=> x \in DOMAIN t.routes)
  BY <1>1 DEF RoutesSettled
<1>5. ASSUME NEW x \in DOMAIN t.routes \ S, x \notin K \/ t.routes[x].status # Upserted
      PROVE  Alike(t.routes[x], u.routes[x])
  <2>1. x \in DOMAIN w.routes /\ Alike(t.routes[x], w.routes[x])
    BY DEF RoutesSettled
  <2>2. x \notin K \/ w.routes[x].status # Upserted
    BY <1>5, <2>1 DEF Alike
  <2>. QED BY <1>1, <2>1, <2>2
<1>6. ASSUME NEW x \in S \cap DOMAIN store PROVE x \in DOMAIN u.routes /\ Fresh(t, x, u) /\ Ruled(u, x)
  <2>1. x \in DOMAIN w.routes /\ Fresh(t, x, w) /\ x \in K
    BY DEF RoutesSettled
  <2>2. PICK v : GatewaysKept(t, v) /\ GatewaysKept(v, w) /\ Found(v, x, w.routes[x])
    BY <2>1 DEF Fresh
  <2>3. w.routes[x].status = Upserted /\ w.routes[x].spec = store[x]
    BY <2>2 DEF Found
  <2>4. CASE w.routes[x].valid
    <3>1. /\ u.routes[x].rules = buildRules(u, w.routes[x].spec.rules)
          /\ DOMAIN u.routes[x] = RouteFields /\ u.routes[x].in = w.routes[x].in
          /\ u.routes[x].status = w.routes[x].status /\ u.routes[x].spec = w.routes[x].spec
          /\ u.routes[x].valid = w.routes[x].valid /\ u.routes[x].refs = w.routes[x].refs
      BY <1>1, <2>1, <2>3, <2>4
    <3>2. Found(v, x, u.routes[x])
      <4>1. u.routes[x].valid <=> u.routes[x].refs # {}
        BY <2>2, <3>1 DEF Found
      <4>. QED BY <2>2, <3>1, <4>1 DEF Found
    <3>3. Ruled(u, x)
      BY <2>3, <3>1 DEF Ruled
    <3>4. GatewaysKept(v, u)
      BY <1>2, <2>2, KeptTransitive
    <3>. QED BY <1>1, <2>1, <2>2, <3>2, <3>3, <3>4 DEF Fresh
  <2>5. CASE ~ w.routes[x].valid
    <3>1. u.routes[x] = w.routes[x]
      BY <1>1, <2>1, <2>5
    <3>2. Found(v, x, u.routes[x])
      BY <2>2, <3>1
    <3>3. Ruled(u, x)
      BY <2>5, <3>1 DEF Ruled
    <3>4. GatewaysKept(v, u)
      BY <1>2, <2>2, KeptTransitive
    <3>. QED BY <1>1, <2>1, <2>2, <3>2, <3>3, <3>4 DEF Fresh
  <2>. QED BY <2>4, <2>5
<1>7. ASSUME NEW x \in (S \cap DOMAIN u.routes) \ DOMAIN store
      PROVE  u.routes[x].status = Deleted /\ u.routes[x].refs = {}
  <2>1. x \in DOMAIN w.routes /\ w.routes[x].status = Deleted /\ w.routes[x].refs = {}
    BY <1>1 DEF RoutesSettled
  <2>. QED BY <1>1, <2>1
<1>. QED BY <1>3, <1>4, <1>5, <1>6, <1>7 DEF KindSettled

(* The services of the tree the gateway builder leaves                     *)
LEMMA BuiltServices ==
    ASSUME TreeShape
    PROVE  WithGateways.services = Cleaned(tree.services)
<1> DEFINE t == cleanTreeUpdates(tree)
           u == computeTreeSecretUpdate(t)
<1>1. DOMAIN t = Kinds /\ t.services = Cleaned(tree.services)
  BY DEF TreeShape, cleanTreeUpdates, Kinds
<1> HIDE DEF t
<1>2. DOMAIN u = Kinds /\ u.services = t.services
  BY <1>1 DEF computeTreeSecretUpdate, Kinds
<1> HIDE DEF u
<1>3. Listed = computeTreeGatewayClassUpdate(u)
  BY DEF Listed, u, t
<1>4. DOMAIN Listed = Kinds /\ Listed.services = u.services
  BY <1>2, <1>3 DEF computeTreeGatewayClassUpdate, Kinds
<1>5. BeforeConflicts = computeTreeGatewayUpdate(Listed)
  BY UpdatedTree
<1>6. DOMAIN BeforeConflicts = Kinds /\ BeforeConflicts.services = Listed.services
  BY <1>4, <1>5 DEF computeTreeGatewayUpdate, Kinds
<1>7. CheckedTree.services = BeforeConflicts.services
  BY <1>6 DEF CheckedTree, recheckConflicting, Kinds
<1>8. \E gateways, routes : WithGateways = Rebuilt(CheckedTree, gateways, routes)
  BY <1>5 DEF WithGateways, computeGateways, CheckedTree
<1>9. WithGateways.services = CheckedTree.services
  BY <1>8 DEF Rebuilt
<1>. QED BY <1>1, <1>2, <1>4, <1>6, <1>7, <1>9

LEMMA CleanedRoute ==
    ASSUME TreeShape, SoundRoutes(tree.routes), NEW r
    PROVE  /\ r \in DOMAIN WithGateways.routes <=> r \in DOMAIN tree.routes /\ tree.routes[r].status # Deleted
           /\ r \in DOMAIN WithGateways.routes =>
                 /\ WithGateways.routes[r].status = Untouched
                 /\ Targets(WithGateways.routes[r].refs) = Targets(tree.routes[r].refs)
<1> DEFINE kept == Cleaned(tree.routes)
<1>1. PICK S : WithGateways.routes = Detach(kept, S)
  BY DetachedTree
<1>2. r \in DOMAIN kept <=> r \in DOMAIN tree.routes /\ tree.routes[r].status # Deleted
  BY DEF Cleaned
<1>3. ASSUME r \in DOMAIN kept PROVE kept[r].status = Untouched /\ kept[r].refs = tree.routes[r].refs
  <2>1. DOMAIN tree.routes[r] = RouteFields /\ kept[r] = [tree.routes[r] EXCEPT !.status = Untouched]
    BY <1>2, <1>3 DEF Cleaned, SoundRoutes, SoundRoute
  <2> HIDE DEF kept
  <2>. QED BY <2>1 DEF RouteFields
<1>4. SoundRoutes(kept)
  BY CleanedRoutes
<1> HIDE DEF kept
<1>5. DOMAIN WithGateways.routes = DOMAIN kept
  BY <1>1 DEF Detach
<1>6. ASSUME r \in DOMAIN kept PROVE Alike(kept[r], WithGateways.routes[r])
  BY <1>1, <1>4, <1>6, DetachAlike DEF SoundRoutes
<1>. QED BY <1>2, <1>3, <1>5, <1>6 DEF Alike

LEMMA SequenceOf ==
    ASSUME NEW S, IsFiniteSet(S), NEW routes \in SetToSeqs(S)
    PROVE  {routes[i] : i \in 1..Len(routes)} = S
BY SetsListed

(* What a batch makes of one route                                         *)
LEMMA BatchRoute ==
    ASSUME TreeShape, InputsSound, SoundGateways(tree), ListenersFinite(tree), SoundRoutes(tree.routes), Batch, NEW r
    PROVE  /\ tree'.services = UpdatedNodes(Cleaned(tree.services), Services)
           /\ r \notin updates =>
                 (r \in DOMAIN tree'.routes <=> r \in DOMAIN tree.routes /\ tree.routes[r].status # Deleted)
           /\ r \notin updates /\ r \in DOMAIN tree'.routes =>
                 /\ tree'.routes[r].status = Untouched
                 /\ Targets(tree'.routes[r].refs) = Targets(tree.routes[r].refs)
           /\ r \in Routes \cap updates \cap DOMAIN store =>
                 r \in DOMAIN tree'.routes /\ Fresh(WithGateways, r, tree') /\ Ruled(tree', r)
           /\ r \in (Routes \cap updates \cap DOMAIN tree'.routes) \ DOMAIN store =>
                 tree'.routes[r].status = Deleted /\ tree'.routes[r].refs = {}
<1> USE DEF Upserted, Deleted, Untouched
<1>1. PICK http \in SetToSeqs(HTTPRoutes \cap updates), tls \in SetToSeqs(TLSRoutes \cap updates) :
        tree' = buildGateTree(http, tls)
  BY DEF Batch
<1> DEFINE H == HTTPRoutes \cap updates
           T == TLSRoutes \cap updates
<1>2. IsFiniteSet(H) /\ IsFiniteSet(T)
  BY FS_Intersection DEF InputsSound
<1>3. /\ http \in Seq(Routes) /\ tls \in Seq(Routes)
      /\ {http[i] : i \in 1..Len(http)} = H /\ {tls[i] : i \in 1..Len(tls)} = T
  BY <1>2, RoutesInSequence, SequenceOf DEF Routes
<1> HIDE DEF H, T
<1> DEFINE t0 == computeTreeServiceUpdate(WithGateways)
           t1 == computeTreeRouteUpdates(t0, http)
           t2 == WithRules(t1, HTTPRoutes)
           t3 == computeTreeRouteUpdates(t2, tls)
<1>4. tree' = WithRules(t3, TLSRoutes)
  BY <1>1 DEF buildGateTree, computeHTTPRoutes, computeTLSRoutes, WithGateways, Listed
<1>5. /\ DOMAIN t0 = Kinds /\ NodesHaveFields(t0) /\ ListenersFinite(t0) /\ SoundRoutes(t0.routes)
      /\ t0.routes = WithGateways.routes /\ GatewaysKept(WithGateways, t0)
      /\ t0.services = UpdatedNodes(Cleaned(tree.services), Services)
  <2>1. DOMAIN WithGateways = Kinds
    BY GatewaysTree
  <2>2. /\ DOMAIN t0 = Kinds /\ t0.gateways = WithGateways.gateways /\ t0.routes = WithGateways.routes
        /\ t0.secrets = WithGateways.secrets /\ t0.classes = WithGateways.classes
        /\ t0.services = UpdatedNodes(WithGateways.services, Services)
    BY <2>1 DEF computeTreeServiceUpdate, Kinds
  <2> HIDE DEF t0
  <2>3. NodesHaveFields(t0)
    BY <2>2, BuiltFields DEF NodesHaveFields
  <2>4. ListenersFinite(t0)
    BY <2>2, FiniteBuilt DEF ListenersFinite
  <2>5. SoundRoutes(WithGateways.routes)
    BY DetachedTree, CleanedRoutes, DetachedRoutes
  <2>6. GatewaysKept(WithGateways, t0)
    BY <2>2 DEF GatewaysKept, SameGateway, SameListeners
  <2>. QED BY <2>2, <2>3, <2>4, <2>5, <2>6, BuiltServices
<1> HIDE DEF t0
<1>6. GatewaysKept(t0, t1) /\ SoundRoutes(t1.routes) /\ RoutesSettled(t0, H, t1)
  BY <1>3, <1>5, KeptUpdates, RoutesUpdated, AllSettled
<1> HIDE DEF t1
<1>7. DOMAIN t1 = Kinds /\ NodesHaveFields(t1) /\ ListenersFinite(t1)
  BY <1>5, <1>6, KeptFields, FiniteKept DEF GatewaysKept
<1>8. GatewaysKept(t1, t2) /\ SoundRoutes(t2.routes)
  BY <1>6, <1>7, KeptRules, RuledRoutes
<1>9. KindSettled(t0, HTTPRoutes, H, t2)
  BY <1>6, <1>7, KindSettles DEF H
<1> HIDE DEF t2
<1>10. DOMAIN t2 = Kinds /\ NodesHaveFields(t2) /\ ListenersFinite(t2)
  BY <1>7, <1>8, KeptFields, FiniteKept DEF GatewaysKept
<1>11. GatewaysKept(t2, t3) /\ SoundRoutes(t3.routes) /\ RoutesSettled(t2, T, t3)
  BY <1>3, <1>8, <1>10, KeptUpdates, RoutesUpdated, AllSettled
<1> HIDE DEF t3
<1>12. DOMAIN t3 = Kinds /\ NodesHaveFields(t3)
  BY <1>10, <1>11, KeptFields DEF GatewaysKept
<1>13. GatewaysKept(t3, tree')
  BY <1>4, <1>12, KeptRules
<1>14. KindSettled(t2, TLSRoutes, T, tree')
  BY <1>4, <1>11, <1>12, KindSettles DEF T
<1>15. GatewaysKept(WithGateways, t2) /\ GatewaysKept(t2, tree')
  BY <1>5, <1>6, <1>8, <1>11, <1>13, KeptTransitive
<1>16. tree'.services = t2.services /\ t2.services = t0.services
  BY <1>9, <1>14 DEF KindSettled
<1>17. r \notin updates => r \notin H /\ r \notin T
  BY DEF H, T
<1>18. r \in Routes \cap updates => r \in H \/ r \in T
  BY DEF H, T, Routes
<1>19. r \in H => r \in updates /\ r \notin T /\ r \notin TLSRoutes
  BY RoutesApart DEF H, T
<1>20. r \in T => r \in updates /\ r \notin H /\ r \notin HTTPRoutes
  BY RoutesApart DEF H, T
<1>21. CASE r \notin updates
  <2>1. r \in DOMAIN tree'.routes <=> r \in DOMAIN t0.routes
    BY <1>9, <1>14, <1>17, <1>21 DEF KindSettled
  <2>2. r \in DOMAIN t0.routes <=> r \in DOMAIN tree.routes /\ tree.routes[r].status # Deleted
    BY <1>5, CleanedRoute
  <2>3. ASSUME r \in DOMAIN tree'.routes
        PROVE  tree'.routes[r].status = Untouched /\ Targets(tree'.routes[r].refs) = Targets(tree.routes[r].refs)
    <3>1. /\ r \in DOMAIN t0.routes /\ t0.routes[r].status = Untouched
          /\ Targets(t0.routes[r].refs) = Targets(tree.routes[r].refs)
      BY <1>5, <2>1, <2>3, CleanedRoute
    <3>2. r \in DOMAIN t2.routes /\ Alike(t0.routes[r], t2.routes[r])
      BY <1>9, <1>17, <1>21, <3>1 DEF KindSettled
    <3>3. t2.routes[r].status = Untouched
      BY <3>1, <3>2 DEF Alike
    <3>4. Alike(t2.routes[r], tree'.routes[r])
      BY <1>14, <1>17, <1>21, <3>2, <3>3 DEF KindSettled
    <3>. QED BY <3>1, <3>2, <3>3, <3>4 DEF Alike
  <2>. QED BY <1>5, <1>16, <1>21, <2>1, <2>2, <2>3
<1>22. CASE r \in Routes \cap updates \cap DOMAIN store
  <2>1. CASE r \in H
    <3>1. r \in DOMAIN t2.routes /\ Fresh(t0, r, t2) /\ Ruled(t2, r)
      BY <1>9, <1>22, <2>1 DEF KindSettled
    <3>2. r \in DOMAIN tree'.routes /\ Alike(t2.routes[r], tree'.routes[r])
      BY <1>14, <1>19, <2>1, <3>1 DEF KindSettled
    <3>3. PICK w : GatewaysKept(t0, w) /\ GatewaysKept(w, t2) /\ Found(w, r, t2.routes[r])
      BY <3>1 DEF Fresh
    <3>4. GatewaysKept(WithGateways, w) /\ GatewaysKept(w, tree') /\ Found(w, r, tree'.routes[r])
      BY <1>5, <1>15, <3>2, <3>3, KeptTransitive, FoundAlike
    <3>5. Fresh(WithGateways, r, tree')
      BY <3>4 DEF Fresh
    <3>6. tree'.routes[r].valid = t2.routes[r].valid /\ tree'.routes[r].rules = t2.routes[r].rules
      BY <3>2 DEF Alike
    <3>7. buildRules(tree', store[r].rules) = buildRules(t2, store[r].rules)
      BY <1>16, BuiltRules
    <3>8. Ruled(tree', r)
      BY <3>1, <3>6, <3>7 DEF Ruled
    <3>. QED BY <1>5, <1>16, <1>22, <3>2, <3>5, <3>8
  <2>2. CASE r \in T
    <3>1. r \in DOMAIN tree'.routes /\ Fresh(t2, r, tree') /\ Ruled(tree', r)
      BY <1>14, <1>22, <2>2 DEF KindSettled
    <3>2. PICK w : GatewaysKept(t2, w) /\ GatewaysKept(w, tree') /\ Found(w, r, tree'.routes[r])
      BY <3>1 DEF Fresh
    <3>3. GatewaysKept(WithGateways, w)
      BY <1>15, <3>2, KeptTransitive
    <3>4. Fresh(WithGateways, r, tree')
      BY <3>2, <3>3 DEF Fresh
    <3>. QED BY <1>5, <1>16, <1>22, <3>1, <3>4
  <2>. QED BY <1>18, <1>22, <2>1, <2>2
<1>23. CASE r \in (Routes \cap updates) \ DOMAIN store
  <2>1. ASSUME r \in DOMAIN tree'.routes PROVE tree'.routes[r].status = Deleted /\ tree'.routes[r].refs = {}
    <3>1. CASE r \in H
      <4>1. r \in DOMAIN t2.routes
        BY <1>14, <1>19, <2>1, <3>1 DEF KindSettled
      <4>2. t2.routes[r].status = Deleted /\ t2.routes[r].refs = {}
        BY <1>9, <1>23, <3>1, <4>1 DEF KindSettled
      <4>3. Alike(t2.routes[r], tree'.routes[r])
        BY <1>14, <1>19, <3>1, <4>1 DEF KindSettled
      <4>. QED BY <4>2, <4>3 DEF Alike, Targets
    <3>2. CASE r \in T
      BY <1>14, <1>23, <2>1, <3>2 DEF KindSettled
    <3>. QED BY <1>18, <1>23, <3>1, <3>2
  <2>. QED BY <1>5, <1>16, <1>23, <2>1
<1>. QED BY <1>5, <1>16, <1>21, <1>22, <1>23
-----------------------------------------------------------------------------
(* The listeners of a gateway: none unless it is managed, then those of    *)
(* its spec, valid if there is nothing against them; a managed gateway     *)
(* that is not valid has only conflicts, or listeners with no check but    *)
(* that of the protocol.                                                   *)
SoundListener(spec, l) == l.spec = spec /\ (l.valid <=> l.reasons = {})

AllConflict(node)   == \A n \in DOMAIN node.listeners : "Conflicted" \in node.listeners[n].reasons
OnlyProtocol(node)  == \A n \in DOMAIN node.listeners :
                          node.listeners[n].reasons = checkProtocol(node.spec.listeners[n])

SoundListeners(node) ==
    /\ ~ node.managed => DOMAIN node.listeners = {}
    /\ node.managed =>
          /\ DOMAIN node.listeners = DOMAIN node.spec.listeners
          /\ \A n \in DOMAIN node.listeners : SoundListener(node.spec.listeners[n], node.listeners[n])
          /\ node.valid \/ AllConflict(node) \/ OnlyProtocol(node)

ListenersSound(t) == \A g \in DOMAIN t.gateways : SoundListeners(t.gateways[g])

LEMMA KeptListeners ==
    ASSUME NEW t, NEW u, GatewaysKept(t, u), ListenersSound(t)
    PROVE  ListenersSound(u)
<1> SUFFICES ASSUME NEW g \in DOMAIN u.gateways PROVE SoundListeners(u.gateways[g])
  BY DEF ListenersSound
<1> DEFINE node  == t.gateways[g]
           other == u.gateways[g]
<1>1. SameGateway(node, other) /\ SoundListeners(node)
  BY DEF GatewaysKept, ListenersSound
<1> HIDE DEF node, other
<1>2. /\ other.spec = node.spec /\ other.managed = node.managed /\ other.valid = node.valid
      /\ DOMAIN other.listeners = DOMAIN node.listeners
      /\ \A n \in DOMAIN node.listeners : /\ other.listeners[n].spec = node.listeners[n].spec
                                          /\ other.listeners[n].reasons = node.listeners[n].reasons
                                          /\ other.listeners[n].valid = node.listeners[n].valid
  BY <1>1 DEF SameGateway, SameListeners
<1>3. AllConflict(node) => AllConflict(other)
  BY <1>2 DEF AllConflict
<1>4. OnlyProtocol(node) => OnlyProtocol(other)
  BY <1>2 DEF OnlyProtocol
<1>5. ASSUME NEW spec, NEW n \in DOMAIN node.listeners, SoundListener(spec, node.listeners[n])
      PROVE  SoundListener(spec, other.listeners[n])
  BY <1>2, <1>5 DEF SoundListener
<1>6. SoundListeners(other)
  BY <1>1, <1>2, <1>3, <1>4, <1>5 DEF SoundListeners
<1>. QED BY <1>6 DEF other

(* Where a gateway that has been checked comes from                        *)
LEMMA CheckedFrom ==
    ASSUME TreeShape, NEW g \in DOMAIN CheckedTree.gateways
    PROVE  \/ \E t, spec : CheckedTree.gateways[g] = processManagementChecks(t, g, spec)
           \/ CheckedTree.gateways[g].managed = FALSE /\ CheckedTree.gateways[g].listeners = <<>>
           \/ g \in DOMAIN Listed.gateways /\ CheckedTree.gateways[g] = Listed.gateways[g]
<1>1. DOMAIN CheckedTree.gateways = DOMAIN BeforeConflicts.gateways
  BY RecheckedGateway
<1>2. CASE g \in Rechecked(BeforeConflicts)
  BY <1>2, RecheckedGateway
<1>3. CASE g \notin Rechecked(BeforeConflicts)
  <2>1. CheckedTree.gateways[g] = BeforeConflicts.gateways[g]
    BY <1>1, <1>3, RecheckedGateway
  <2>2. CASE g \in InStore(Gateways)
    <3>1. BeforeConflicts.gateways[g] = processManagementChecks(Listed, g, store[g])
      BY <1>1, <2>2, UpdatedGateway
    <3>. QED BY <2>1, <3>1
  <2>3. CASE g \notin InStore(Gateways)
    <3>1. g \in DOMAIN Listed.gateways
      BY <1>1, <2>3, UpdatedGateway
    <3>2. CASE g \in Gone(Gateways)
      BY <2>1, <3>1, <3>2, UpdatedGateway
    <3>3. CASE g \notin Gone(Gateways)
      <4>1. g \notin updates \/ g \notin Gateways
        BY <2>3, <3>3 DEF InStore, Gone
      <4>2. BeforeConflicts.gateways[g] = Listed.gateways[g]
        BY <3>1, <4>1, UpdatedGateway
      <4>. QED BY <2>1, <3>1, <4>2
    <3>. QED BY <3>2, <3>3
  <2>. QED BY <2>2, <2>3
<1>. QED BY <1>2, <1>3

LEMMA NewListeners ==
    ASSUME NEW t, NEW node, NEW ports, NEW built, built = buildListeners(t, node, ports), node.managed
    PROVE  SoundListeners(built)
<1> DEFINE ls == [n \in DOMAIN node.spec.listeners |-> buildListener(t, node, node.spec.listeners[n], ports)]
<1>1. /\ built.spec = node.spec /\ built.managed = node.managed /\ built.listeners = ls
      /\ built.valid <=> node.valid /\ checkListenerConflicts(ls, ports)
  BY DEF buildListeners
<1>2. \A n \in DOMAIN node.spec.listeners :
         ls[n].reasons = ListenerConditions(t, node, node.spec.listeners[n], ports)
  BY DEF buildListener
<1>3. \A n \in DOMAIN node.spec.listeners : SoundListener(node.spec.listeners[n], ls[n])
  BY DEF buildListener, SoundListener
<1>4. \A n \in DOMAIN node.spec.listeners : ls[n].spec = node.spec.listeners[n]
  BY <1>3 DEF SoundListener
<1>5. DOMAIN ls = DOMAIN node.spec.listeners
  OBVIOUS
<1> HIDE DEF ls
<1>6. CASE ~ node.valid
  <2>1. OnlyProtocol(built)
    BY <1>1, <1>2, <1>5, <1>6 DEF OnlyProtocol, ListenerConditions
  <2>. QED BY <1>1, <1>3, <1>5, <2>1 DEF SoundListeners
<1>7. CASE node.valid /\ ~ checkListenerConflicts(ls, ports)
  <2>1. \A n \in DOMAIN ls : ls[n].spec.port \in ports
    BY <1>7 DEF checkListenerConflicts, Range
  <2>2. \A n \in DOMAIN ls : "Conflicted" \in ls[n].reasons
    BY <1>2, <1>4, <1>5, <1>7, <2>1 DEF ListenerConditions, checkConflict
  <2>3. AllConflict(built)
    BY <1>1, <2>2 DEF AllConflict
  <2>. QED BY <1>1, <1>3, <1>5, <2>3 DEF SoundListeners
<1>8. CASE node.valid /\ checkListenerConflicts(ls, ports)
  BY <1>1, <1>3, <1>5, <1>8 DEF SoundListeners
<1>. QED BY <1>6, <1>7, <1>8

LEMMA ManagedNode ==
    ASSUME NEW t, NEW g, NEW spec, NEW node, node = processManagementChecks(t, g, spec)
    PROVE  node.status = Upserted /\ (node.managed => node.in = "managed")
<1>1. CASE spec.class \notin DOMAIN t.classes
  BY <1>1 DEF processManagementChecks, Reset
<1>2. CASE spec.class \in DOMAIN t.classes
  BY <1>2 DEF processManagementChecks, checkGatewayClassIsValid
<1>. QED BY <1>1, <1>2

LEMMA BuiltSound ==
    ASSUME TreeShape, ListenersSound(tree)
    PROVE  ListenersSound(WithGateways)
<1> SUFFICES ASSUME NEW g \in DOMAIN WithGateways.gateways PROVE SoundListeners(WithGateways.gateways[g])
  BY DEF ListenersSound
<1>1. g \in DOMAIN CheckedTree.gateways
  BY BuiltGateway
<1> DEFINE node == CheckedTree.gateways[g]
<1>2. CASE g \in ProcessedGateways
  <2>1. WithGateways.gateways[g] = buildListeners(BeforeConflicts, node, portsWithMultipleListeners(BeforeConflicts))
    BY <1>2, BuiltGateway
  <2>2. node.managed
    BY <1>2 DEF ProcessedGateways
  <2> HIDE DEF node
  <2>. QED BY <2>1, <2>2, NewListeners
<1>3. CASE g \notin ProcessedGateways
  <2>1. WithGateways.gateways[g] = node
    BY <1>1, <1>3, BuiltGateway
  <2>2. ASSUME NEW t, NEW spec, node = processManagementChecks(t, g, spec) PROVE SoundListeners(node)
    <3>1. node.status = Upserted /\ (node.managed => node.in = "managed")
      BY <2>2, ManagedNode
    <3>2. node.listeners = <<>>
      BY <2>2, FreshListeners
    <3>3. ~ node.managed
      BY <1>1, <1>3, <3>1 DEF ProcessedGateways, ManagedGateways
    <3>. QED BY <3>3, <3>2 DEF SoundListeners
  <2>3. ASSUME node.managed = FALSE, node.listeners = <<>> PROVE SoundListeners(node)
    BY <2>3 DEF SoundListeners
  <2>4. ASSUME g \in DOMAIN Listed.gateways, node = Listed.gateways[g] PROVE SoundListeners(node)
    <3> DEFINE old == tree.gateways[g]
    <3>1. SoundListeners(old)
      BY <2>4, CleanedGateway DEF ListenersSound
    <3>2. /\ node.spec = old.spec /\ node.managed = old.managed /\ node.valid = old.valid
          /\ node.listeners = old.listeners
      BY <2>4, CleanedGateway
    <3> HIDE DEF node, old
    <3>. QED BY <3>1, <3>2 DEF SoundListeners, AllConflict, OnlyProtocol
  <2>. QED BY <1>1, <2>1, <2>2, <2>3, <2>4, CheckedFrom
<1>. QED BY <1>2, <1>3
-----------------------------------------------------------------------------
(* Between a batch and the next the tree knows what the updates do not     *)
(* name, the store what the queues do not, and the published statuses are  *)
(* those of the gateways that are not deleted.                             *)
ServicesFollow ==
    /\ \A s \in DOMAIN tree.services : DOMAIN tree.services[s] = {"status"}
    /\ \A s \in Services \ updates : Live(tree.services, s) <=> s \in DOMAIN store

RoutesFollow ==
    \A x \in (Routes \cap DOMAIN store) \ updates : x \in DOMAIN tree.routes /\ tree.routes[x].status # Deleted

ClusterFollows ==
    \A k \in Keys \ pending : /\ k \in DOMAIN store <=> k \in DOMAIN cluster
                              /\ k \in DOMAIN cluster => store[k] = cluster[k]

StatusFollows ==
    /\ DOMAIN published \subseteq DOMAIN cluster
    /\ \A g \in LiveGateways(tree) \cap DOMAIN published : published[g] = GatewayStatus(tree.gateways[g])

FollowInv == /\ GatewaysFollow /\ ServicesFollow /\ RoutesFollow
             /\ ClusterFollows /\ StatusFollows /\ ListenersSound(tree)

LEMMA ReconcileKeeps ==
    ASSUME NEW k \in Keys, Reconcile(k)
    PROVE  /\ tree' = tree /\ behind' = behind /\ updates' = updates \cup {k} /\ pending' = pending \ {k}
           /\ cluster' = cluster /\ published' = published
           /\ \A x : x # k => /\ x \in DOMAIN store' <=> x \in DOMAIN store
                              /\ x \in DOMAIN store => store'[x] = store[x]
           /\ k \in DOMAIN store' <=> k \in DOMAIN cluster
           /\ k \in DOMAIN cluster => store'[k] = cluster[k]
<1>1. /\ tree' = tree /\ behind' = behind /\ updates' = updates \cup {k} /\ pending' = pending \ {k}
      /\ cluster' = cluster /\ published' = published
  BY DEF Reconcile, treeVars
<1>2. store' = IF k \in DOMAIN cluster THEN Override(store, [x \in {k} |-> cluster[k]]) ELSE Without(store, {k})
  BY DEF Reconcile
<1>3. CASE k \in DOMAIN cluster
  BY <1>1, <1>2, <1>3 DEF Override
<1>4. CASE k \notin DOMAIN cluster
  BY <1>1, <1>2, <1>4 DEF Without
<1>. QED BY <1>3, <1>4

LEMMA ChangeKeeps ==
    ASSUME NEW k \in Keys, Change(k)
    PROVE  /\ tree' = tree /\ behind' = behind /\ updates' = updates /\ store' = store
           /\ pending' = pending \cup {k} \cup Watchers(k)
           /\ \A x : x # k => /\ x \in DOMAIN cluster' <=> x \in DOMAIN cluster
                              /\ x \in DOMAIN cluster => cluster'[x] = cluster[x]
<1>1. /\ tree' = tree /\ behind' = behind /\ updates' = updates /\ store' = store
      /\ pending' = pending \cup {k} \cup Watchers(k)
  BY DEF Change
<1>2. \/ \E spec \in Versions[k] : cluster' = Override(cluster, [x \in {k} |-> spec])
      \/ cluster' = Without(cluster, {k})
  BY DEF Change
<1>3. CASE \E spec \in Versions[k] : cluster' = Override(cluster, [x \in {k} |-> spec])
  <2>1. PICK spec \in Versions[k] : cluster' = Override(cluster, [x \in {k} |-> spec])
    BY <1>3
  <2>. QED BY <1>1, <2>1 DEF Override
<1>4. CASE cluster' = Without(cluster, {k})
  BY <1>1, <1>4 DEF Without
<1>. QED BY <1>2, <1>3, <1>4

LEMMA SameTree ==
    ASSUME ListenersSound(tree), tree' = tree
    PROVE  ListenersSound(tree)'
BY DEF ListenersSound, SoundListeners, SoundListener, AllConflict, OnlyProtocol

LEMMA FollowChange ==
    ASSUME FollowInv, NEW k \in Keys, Change(k)
    PROVE  FollowInv'
<1>1. /\ tree' = tree /\ updates' = updates /\ store' = store
      /\ pending' = pending \cup {k} \cup Watchers(k)
      /\ \A x : x # k => /\ x \in DOMAIN cluster' <=> x \in DOMAIN cluster
                         /\ x \in DOMAIN cluster => cluster'[x] = cluster[x]
  BY ChangeKeeps
<1>2. GatewaysFollow' /\ ServicesFollow' /\ RoutesFollow'
  BY <1>1 DEF FollowInv, GatewaysFollow, ServicesFollow, RoutesFollow, Live
<1>3. ClusterFollows'
  BY <1>1 DEF FollowInv, ClusterFollows
<1>4. \/ published' = published /\ DOMAIN cluster \subseteq DOMAIN cluster'
      \/ published' = Without(published, {k}) /\ cluster' = Without(cluster, {k})
  BY DEF Change, Override
<1>5. DOMAIN published \subseteq DOMAIN cluster => DOMAIN published' \subseteq DOMAIN cluster'
  BY <1>4 DEF Without
<1>6. \A g \in DOMAIN published' : g \in DOMAIN published /\ published'[g] = published[g]
  BY <1>4 DEF Without
<1>7. StatusFollows'
  BY <1>1, <1>5, <1>6 DEF FollowInv, StatusFollows, GatewayStatus, GatewayConditions, LiveGateways, ManagedGateways
<1>. QED BY <1>1, <1>2, <1>3, <1>7, SameTree DEF FollowInv

LEMMA FollowReconcile ==
    ASSUME FollowInv, NEW k \in Keys, Reconcile(k)
    PROVE  FollowInv'
<1>1. /\ tree' = tree /\ updates' = updates \cup {k} /\ pending' = pending \ {k}
      /\ cluster' = cluster /\ published' = published
      /\ \A x : x # k => /\ x \in DOMAIN store' <=> x \in DOMAIN store
                         /\ x \in DOMAIN store => store'[x] = store[x]
      /\ k \in DOMAIN store' <=> k \in DOMAIN cluster
      /\ k \in DOMAIN cluster => store'[k] = cluster[k]
  BY ReconcileKeeps
<1>2. GatewaysFollow' /\ ServicesFollow' /\ RoutesFollow'
  BY <1>1 DEF FollowInv, GatewaysFollow, ServicesFollow, RoutesFollow, Live
<1>3. ClusterFollows'
  BY <1>1 DEF FollowInv, ClusterFollows
<1>4. StatusFollows'
  BY <1>1 DEF FollowInv, StatusFollows, GatewayStatus, GatewayConditions, LiveGateways, ManagedGateways
<1>. QED BY <1>1, <1>2, <1>3, <1>4, SameTree DEF FollowInv

(* A gateway that a batch does not touch is what it was.                   *)
LEMMA UntouchedGateway ==
    ASSUME InputsSound, TreeShape, SoundGateways(tree), Batch, NEW g \in DOMAIN tree'.gateways,
           tree'.gateways[g].status = Untouched
    PROVE  /\ g \in DOMAIN tree.gateways /\ tree.gateways[g].status # Deleted
           /\ tree'.gateways[g].in = tree.gateways[g].in
           /\ tree'.gateways[g].spec = tree.gateways[g].spec
           /\ tree'.gateways[g].managed = tree.gateways[g].managed
           /\ tree'.gateways[g].valid = tree.gateways[g].valid
           /\ tree'.gateways[g].listeners = tree.gateways[g].listeners
<1> USE DEF Upserted, Deleted, Untouched
<1> DEFINE node == WithGateways.gateways[g]
<1>1. g \in DOMAIN WithGateways.gateways /\ SameGateway(node, tree'.gateways[g])
  BY BatchTree DEF GatewaysKept
<1>2. tree'.gateways[g] = node /\ node.status = Untouched
  BY <1>1 DEF SameGateway
<1>3. g \in DOMAIN CheckedTree.gateways /\ CheckedTree.gateways[g].status = Untouched
  BY <1>1, <1>2, BuiltGateway, BuiltKeeps
<1>4. g \notin ProcessedGateways
  BY <1>3 DEF ProcessedGateways
<1>5. node = CheckedTree.gateways[g]
  BY <1>3, <1>4, BuiltGateway
<1>6. g \in DOMAIN Listed.gateways /\ node = Listed.gateways[g]
  BY <1>3, <1>5, StageChecked
<1> HIDE DEF node
<1>. QED BY <1>2, <1>6, CleanedGateway

LEMMA SameStatus ==
    ASSUME NEW node, NEW other, other.spec = node.spec, other.managed = node.managed,
           other.valid = node.valid, other.listeners = node.listeners
    PROVE  GatewayStatus(other) = GatewayStatus(node)
BY DEF GatewayStatus, GatewayConditions

LEMMA GatewaysBatch ==
    ASSUME InputsSound, TreeShape, SoundGateways(tree), GatewaysFollow, Batch
    PROVE  GatewaysFollow'
<1> USE DEF Upserted, Deleted
<1>1. store' = store
  BY DEF Batch
<1> SUFFICES ASSUME NEW g \in DOMAIN tree'.gateways
             PROVE  IF g \in DOMAIN store
                    THEN tree'.gateways[g].spec = store[g] /\ tree'.gateways[g].status # Deleted
                    ELSE tree'.gateways[g].status = Deleted
  BY <1>1 DEF GatewaysFollow
<1>2. g \in DOMAIN WithGateways.gateways /\ SameGateway(WithGateways.gateways[g], tree'.gateways[g])
  BY BatchTree DEF GatewaysKept
<1>3. /\ g \in DOMAIN store => /\ WithGateways.gateways[g].spec = store[g]
                               /\ WithGateways.gateways[g].status # Deleted
      /\ g \notin DOMAIN store => WithGateways.gateways[g].status = Deleted
  BY <1>2, BatchGateway
<1>. QED BY <1>2, <1>3 DEF SameGateway

LEMMA ServicesBatch ==
    ASSUME ServicesFollow, Batch, tree'.services = UpdatedNodes(Cleaned(tree.services), Services)
    PROVE  ServicesFollow'
<1> USE DEF Upserted, Deleted, Untouched
<1>1. store' = store /\ updates' = {}
  BY DEF Batch
<1> SUFFICES ASSUME NEW s
             PROVE  /\ s \in DOMAIN tree'.services => DOMAIN tree'.services[s] = {"status"}
                    /\ s \in Services => (Live(tree'.services, s) <=> s \in DOMAIN store)
  BY <1>1 DEF ServicesFollow, Live
<1> DEFINE kept == Cleaned(tree.services)
           new  == UpdatedNodes(kept, Services)
<1>2. s \in DOMAIN kept <=> Live(tree.services, s)
  BY DEF Cleaned, Live
<1>3. s \in DOMAIN kept => DOMAIN kept[s] = {"status"} /\ kept[s].status = Untouched
  BY DEF Cleaned, ServicesFollow
<1> HIDE DEF kept
<1>4. s \in DOMAIN new <=> s \in DOMAIN kept \/ s \in InStore(Services)
  BY DEF UpdatedNodes, Override
<1>5. s \in InStore(Services) => new[s] = [status |-> Upserted]
  BY DEF UpdatedNodes, Override
<1>6. s \in DOMAIN kept /\ s \notin InStore(Services) =>
         new[s] = IF s \in Gone(Services) THEN [status |-> Deleted] ELSE kept[s]
  BY DEF UpdatedNodes, Override
<1>7. tree'.services = new
  BY DEF kept
<1> HIDE DEF new
<1>8. CASE s \in InStore(Services)
  <2>1. new[s].status = Upserted /\ DOMAIN new[s] = {"status"}
    BY <1>5, <1>8
  <2>. QED BY <1>4, <1>7, <1>8, <2>1 DEF InStore, Live
<1>9. CASE s \in Gone(Services)
  <2>1. s \in DOMAIN kept => new[s].status = Deleted /\ DOMAIN new[s] = {"status"}
    BY <1>6, <1>9 DEF Gone, InStore
  <2>. QED BY <1>4, <1>7, <1>9, <2>1 DEF Gone, InStore, Live
<1>10. CASE s \notin Services \cap updates
  <2>1. s \notin InStore(Services) /\ s \notin Gone(Services)
    BY <1>10 DEF InStore, Gone
  <2>2. s \in DOMAIN new <=> s \in DOMAIN kept
    BY <1>4, <2>1
  <2>3. s \in DOMAIN kept => new[s] = kept[s]
    BY <1>6, <2>1
  <2>4. Live(new, s) <=> Live(tree.services, s)
    BY <1>2, <1>3, <2>2, <2>3 DEF Live
  <2>. QED BY <1>3, <1>7, <1>10, <2>2, <2>3, <2>4 DEF ServicesFollow
<1>. QED BY <1>8, <1>9, <1>10 DEF Gone, InStore

LEMMA StatusBatch ==
    ASSUME InputsSound, TreeShape, SoundGateways(tree), StatusFollows, Batch, SoundGateways(tree')
    PROVE  StatusFollows'
<1> USE DEF Upserted, Deleted, Untouched
<1> DEFINE new == [g \in Republished(tree') |-> GatewayStatus(tree'.gateways[g])]
<1>1. published' = Override(published, new) /\ cluster' = cluster
  BY DEF Batch
<1>2. DOMAIN published' \subseteq DOMAIN cluster
  BY <1>1 DEF Override, Republished, StatusFollows
<1>3. ASSUME NEW g \in LiveGateways(tree') \cap DOMAIN published'
      PROVE  published'[g] = GatewayStatus(tree'.gateways[g])
  <2>1. CASE g \in Republished(tree')
    BY <1>1, <2>1 DEF Override
  <2>2. CASE g \notin Republished(tree')
    <3>1. g \in DOMAIN published /\ published'[g] = published[g]
      BY <1>1, <2>2 DEF Override
    <3>2. CASE tree'.gateways[g].status = Upserted
      BY <1>2, <2>2, <3>1, <3>2 DEF Republished, LiveGateways
    <3>3. CASE tree'.gateways[g].status # Upserted
      <4>1. g \in DOMAIN tree'.gateways /\ tree'.gateways[g].in = "managed" /\ tree'.gateways[g].status = Untouched
        BY <3>3 DEF LiveGateways, ManagedGateways, SoundGateways, SoundGateway
      <4>2. g \in LiveGateways(tree)
        BY <4>1, UntouchedGateway DEF LiveGateways, ManagedGateways
      <4>3. published[g] = GatewayStatus(tree.gateways[g])
        BY <3>1, <4>2 DEF StatusFollows
      <4>4. GatewayStatus(tree'.gateways[g]) = GatewayStatus(tree.gateways[g])
        BY <4>1, UntouchedGateway, SameStatus
      <4>. QED BY <3>1, <4>3, <4>4
    <3>. QED BY <3>2, <3>3
  <2>. QED BY <2>1, <2>2
<1>. QED BY <1>1, <1>2, <1>3 DEF StatusFollows, GatewayStatus, GatewayConditions, LiveGateways, ManagedGateways

LEMMA FollowBatch ==
    ASSUME ListenersInv, RoutesInv, FollowInv, Batch
    PROVE  FollowInv'
<1> USE DEF Deleted, Untouched
<1>1. store' = store /\ cluster' = cluster /\ pending \subseteq pending'
  BY DEF Batch
<1>2. /\ InputsSound /\ TreeShape /\ SoundGateways(tree) /\ ListenersFinite(tree) /\ SoundRoutes(tree.routes)
      /\ GatewaysFollow /\ ServicesFollow /\ RoutesFollow /\ ClusterFollows /\ StatusFollows /\ ListenersSound(tree)
  BY DEF ListenersInv, GatewaysInv, RoutesInv, FollowInv
<1>3. GatewaysKept(WithGateways, tree')
  BY <1>2, BatchTree
<1>4. GatewaysFollow'
  BY <1>2, GatewaysBatch
<1>5. ServicesFollow'
  <2>1. tree'.services = UpdatedNodes(Cleaned(tree.services), Services)
    BY <1>2, BatchRoute
  <2>. QED BY <1>2, <2>1, ServicesBatch
<1>6. RoutesFollow'
  <2> SUFFICES ASSUME NEW x \in Routes \cap DOMAIN store
               PROVE  x \in DOMAIN tree'.routes /\ tree'.routes[x].status # Deleted
    BY <1>1 DEF RoutesFollow
  <2>1. CASE x \in updates
    <3>1. x \in DOMAIN tree'.routes /\ Fresh(WithGateways, x, tree')
      BY <1>2, <2>1, BatchRoute
    <3>2. tree'.routes[x].status = Upserted
      BY <3>1 DEF Fresh, Found
    <3>. QED BY <3>1, <3>2 DEF Upserted
  <2>2. CASE x \notin updates
    <3>1. x \in DOMAIN tree.routes /\ tree.routes[x].status # Deleted
      BY <1>2, <2>2 DEF RoutesFollow
    <3>. QED BY <1>2, <2>2, <3>1, BatchRoute
  <2>. QED BY <2>1, <2>2
<1>7. ClusterFollows'
  BY <1>1, <1>2 DEF ClusterFollows
<1>8. StatusFollows'
  <2>1. SoundGateways(tree')
    BY <1>2, <1>3, StageBuilt, KeptSound
  <2>. QED BY <1>2, <2>1, StatusBatch
<1>9. ListenersSound(tree')
  BY <1>2, <1>3, BuiltSound, KeptListeners
<1>10. ListenersSound(tree)'
  BY <1>9 DEF ListenersSound, SoundListeners, SoundListener, AllConflict, OnlyProtocol
<1>. QED BY <1>4, <1>5, <1>6, <1>7, <1>8, <1>10 DEF FollowInv
-----------------------------------------------------------------------------
(* A listener l of gateway g, named n, that should take a route with this  *)
(* spec, and the routes that are attached to all of them                   *)
Takes(r, spec, g, n, l) ==
    /\ l.valid
    /\ \E p \in spec.parents : p.gateway = g /\ p.section \in {AnySection, n}
    /\ l.spec.kinds = {} \/ (IF r \in HTTPRoutes THEN "HTTPRoute" ELSE "TLSRoute") \in l.spec.kinds
    /\ IF r \in HTTPRoutes THEN l.spec.protocol \in {"HTTP", "HTTPS"}
       ELSE l.spec.protocol = "TLS" /\ l.spec.mode = "Passthrough"
    /\ matchHostname(spec.hostnames, l.spec.hostname)

Goal(g, n, spec) == [gateway |-> g, listener |-> n, spec |-> spec]

AttachedTo(t, r, spec, g) ==
    \A n \in DOMAIN t.gateways[g].listeners :
        Takes(r, spec, g, n, t.gateways[g].listeners[n]) =>
            Goal(g, n, t.gateways[g].listeners[n].spec) \in Targets(t.routes[r].refs)

Attached ==
    \A r \in (Routes \cap DOMAIN store) \ (pending \cup updates \cup behind) :
        \A g \in LiveGateways(tree) \cap DOMAIN cluster : AttachedTo(tree, r, store[r], g)

LEMMA KindTaken ==
    ASSUME NEW r, NEW spec, NEW g, NEW n, NEW l, Takes(r, spec, g, n, l)
    PROVE  isAllowedRouteKind(IF r \in HTTPRoutes THEN "HTTPRoute" ELSE "TLSRoute", l.spec)
<1>1. CASE r \in HTTPRoutes
  <2>1. SupportedKinds(l.spec.protocol) = {"HTTPRoute"}
    BY <1>1 DEF Takes, SupportedKinds
  <2>. QED BY <1>1, <2>1 DEF Takes, isAllowedRouteKind, AllowedRouteKinds
<1>2. CASE r \notin HTTPRoutes
  <2>1. SupportedKinds(l.spec.protocol) = {"TLSRoute"}
    BY <1>2 DEF Takes, SupportedKinds
  <2>. QED BY <1>2, <2>1 DEF Takes, isAllowedRouteKind, AllowedRouteKinds
<1>. QED BY <1>1, <1>2

(* A route that looks for its listeners finds them.                        *)
LEMMA TakenFound ==
    ASSUME NEW t, NEW r \in Routes, NEW g \in LiveGateways(t), NEW n \in DOMAIN t.gateways[g].listeners,
           Takes(r, store[r], g, n, t.gateways[g].listeners[n])
    PROVE  Goal(g, n, t.gateways[g].listeners[n].spec) \in Targets(ParentRefs(t, r))
<1> DEFINE l   == t.gateways[g].listeners[n]
           ref == [gateway |-> g, listener |-> n, spec |-> l.spec, current |-> TRUE]
<1>1. PICK p \in store[r].parents : p.gateway = g /\ p.section \in {AnySection, n}
  BY DEF Takes
<1>2. l.valid /\ matchHostname(store[r].hostnames, l.spec.hostname)
  BY DEF Takes
<1>3. isAllowedRouteKind(IF r \in HTTPRoutes THEN "HTTPRoute" ELSE "TLSRoute", l.spec)
  BY KindTaken
<1>4. ref \in ListenersOf(t, p)
  BY <1>1, <1>2 DEF ListenersOf
<1>5. ref.spec = l.spec /\ Target(ref) = Goal(g, n, l.spec)
  BY DEF Target, Goal
<1>6. r \notin HTTPRoutes => l.spec.mode = "Passthrough"
  BY DEF Takes
<1> HIDE DEF ref, l
<1>7. CASE r \in HTTPRoutes
  <2>1. ref \in checkHTTPParentRef(t, store[r], p)
    BY <1>2, <1>3, <1>4, <1>5, <1>7 DEF checkHTTPParentRef
  <2>2. ref \in ParentRefs(t, r)
    BY <1>1, <1>7, <2>1 DEF ParentRefs, checkHTTPParentRefs
  <2>. QED BY <1>5, <2>2 DEF Targets, l
<1>8. CASE r \notin HTTPRoutes
  <2>1. ref \in checkTLSParentRef(t, store[r], p)
    BY <1>2, <1>3, <1>4, <1>5, <1>6, <1>8 DEF checkTLSParentRef
  <2>2. ref \in ParentRefs(t, r)
    BY <1>1, <1>8, <2>1 DEF ParentRefs, checkTLSParentRefs
  <2>. QED BY <1>5, <2>2 DEF Targets, l
<1>. QED BY <1>7, <1>8

LEMMA SameTaken ==
    ASSUME NEW r, NEW spec, NEW g, NEW n, NEW l, NEW m, m.spec = l.spec, m.valid = l.valid,
           Takes(r, spec, g, n, l)
    PROVE  Takes(r, spec, g, n, m)
BY DEF Takes

LEMMA FreshAttached ==
    ASSUME NEW t, NEW u, NEW r \in Routes, Fresh(t, r, u), NEW g \in LiveGateways(u)
    PROVE  AttachedTo(u, r, store[r], g)
<1>1. PICK w : GatewaysKept(w, u) /\ Found(w, r, u.routes[r])
  BY DEF Fresh
<1>2. SameGateway(w.gateways[g], u.gateways[g]) /\ g \in DOMAIN w.gateways
  BY <1>1 DEF GatewaysKept, LiveGateways, ManagedGateways
<1>3. g \in LiveGateways(w)
  BY <1>2 DEF SameGateway, LiveGateways, ManagedGateways
<1>4. SUFFICES ASSUME NEW n \in DOMAIN u.gateways[g].listeners,
                      Takes(r, store[r], g, n, u.gateways[g].listeners[n])
               PROVE  Goal(g, n, u.gateways[g].listeners[n].spec) \in Targets(u.routes[r].refs)
  BY DEF AttachedTo
<1>5. /\ n \in DOMAIN w.gateways[g].listeners
      /\ w.gateways[g].listeners[n].spec = u.gateways[g].listeners[n].spec
      /\ w.gateways[g].listeners[n].valid = u.gateways[g].listeners[n].valid
  BY <1>2 DEF SameGateway, SameListeners
<1>6. Takes(r, store[r], g, n, w.gateways[g].listeners[n])
  BY <1>4, <1>5, SameTaken
<1>7. Goal(g, n, w.gateways[g].listeners[n].spec) \in Targets(ParentRefs(w, r))
  BY <1>3, <1>5, <1>6, TakenFound
<1>. QED BY <1>1, <1>5, <1>7 DEF Found

(* Two managed gateways with the same status have the same valid           *)
(* listeners.                                                              *)
LEMMA StatusTells ==
    ASSUME NEW node, SoundListeners(node), NEW other, SoundListeners(other),
           GatewayStatus(node) = GatewayStatus(other),
           NEW n \in DOMAIN node.listeners, node.listeners[n].valid
    PROVE  /\ n \in DOMAIN other.listeners /\ other.listeners[n].valid
           /\ other.listeners[n].spec = node.listeners[n].spec
<1>1. node.managed
  BY DEF SoundListeners
<1> DEFINE one == GatewayStatus(node)
           two == GatewayStatus(other)
<1>2. /\ one.observed = {node.spec}
      /\ two.observed = IF other.managed THEN {other.spec} ELSE {}
  BY <1>1 DEF GatewayStatus
<1>3. one = two
  OBVIOUS
<1>4. other.managed /\ other.spec = node.spec
  BY <1>2, <1>3
<1>5. /\ DOMAIN node.listeners = DOMAIN node.spec.listeners /\ DOMAIN other.listeners = DOMAIN node.listeners
      /\ SoundListener(node.spec.listeners[n], node.listeners[n])
      /\ SoundListener(node.spec.listeners[n], other.listeners[n])
      /\ node.valid \/ AllConflict(node) \/ OnlyProtocol(node)
      /\ other.valid \/ AllConflict(other) \/ OnlyProtocol(other)
  BY <1>1, <1>4 DEF SoundListeners
<1>6. node.listeners[n].reasons = {}
  BY <1>5 DEF SoundListener
<1>7. other.listeners[n].reasons = {} => other.listeners[n].valid /\ other.listeners[n].spec = node.listeners[n].spec
  BY <1>5 DEF SoundListener
<1>8. /\ node.valid => /\ DOMAIN one.listeners = DOMAIN node.listeners
                    /\ one.listeners[n].reasons = node.listeners[n].reasons
      /\ ~ node.valid => DOMAIN one.listeners = {}
  BY DEF GatewayStatus
<1>9. /\ other.valid => /\ DOMAIN two.listeners = DOMAIN other.listeners
                     /\ two.listeners[n].reasons = other.listeners[n].reasons
      /\ ~ other.valid => DOMAIN two.listeners = {}
  BY <1>5 DEF GatewayStatus
<1>10. one.conditions = GatewayConditions(node) /\ two.conditions = GatewayConditions(other)
  BY DEF GatewayStatus
<1> HIDE DEF one, two
<1>11. CASE node.valid
  BY <1>3, <1>5, <1>6, <1>7, <1>8, <1>9, <1>11
<1>12. CASE ~ node.valid
  <2>1. ~ other.valid
    BY <1>3, <1>5, <1>8, <1>9, <1>12
  <2>2. ~ AllConflict(node)
    BY <1>6 DEF AllConflict
  <2>3. OnlyProtocol(node)
    BY <1>5, <1>12, <2>2
  <2>4. checkProtocol(node.spec.listeners[n]) = {}
    BY <1>6, <2>3 DEF OnlyProtocol
  <2>5. \A m \in DOMAIN node.listeners : "Conflicted" \notin node.listeners[m].reasons
    BY <2>3 DEF OnlyProtocol, checkProtocol
  <2>6. GatewayConditions(node) = {"InvalidParameters"}
    BY <1>1, <1>12, <2>5 DEF GatewayConditions, Range
  <2>7. ASSUME AllConflict(other) PROVE FALSE
    <3>1. \E l \in Range(other.listeners) : "Conflicted" \in l.reasons
      BY <1>5, <2>7 DEF AllConflict, Range
    <3>2. GatewayConditions(other) = {"ListenersNotValid"}
      BY <1>4, <2>1, <3>1 DEF GatewayConditions
    <3>. QED BY <1>3, <1>10, <2>6, <3>2
  <2>8. OnlyProtocol(other)
    BY <1>5, <2>1, <2>7
  <2>9. other.listeners[n].reasons = {}
    BY <1>4, <1>5, <2>4, <2>8 DEF OnlyProtocol
  <2>. QED BY <1>5, <1>7, <2>9
<1>. QED BY <1>11, <1>12

(* The routes of a gateway hear of it.                                     *)
LEMMA RouteWatches ==
    ASSUME NEW g \in Gateways, NEW r \in Routes, r \in DOMAIN cluster',
           \E p \in cluster'[r].parents : p.gateway = g
    PROVE  r \in Watchers(g)
<1>1. r \in HTTPRoutes => r \in HTTPRouteWatches(g)
  BY DEF HTTPRouteWatches, When, enqueueHTTPRouteForGateway, Known
<1>2. r \in TLSRoutes => r \in TLSRouteWatches(g)
  BY DEF TLSRouteWatches, When, enqueueTLSRouteForGateway, Known
<1>. QED BY <1>1, <1>2 DEF Watchers, Routes

LEMMA AttachedChange ==
    ASSUME SoundGateways(tree), ClusterFollows, Attached, NEW k \in Keys, Change(k)
    PROVE  Attached'
<1>1. /\ tree' = tree /\ behind' = behind /\ updates' = updates /\ store' = store
      /\ pending' = pending \cup {k} \cup Watchers(k)
      /\ \A x : x # k => /\ x \in DOMAIN cluster' <=> x \in DOMAIN cluster
                         /\ x \in DOMAIN cluster => cluster'[x] = cluster[x]
  BY ChangeKeeps
<1>2. ASSUME NEW r \in (Routes \cap DOMAIN store) \ (pending' \cup updates \cup behind),
             NEW g \in LiveGateways(tree) \cap DOMAIN cluster'
      PROVE  AttachedTo(tree, r, store[r], g)
  <2>1. CASE g \in DOMAIN cluster
    BY <1>1, <2>1 DEF Attached
  <2>2. CASE g \notin DOMAIN cluster
    <3>1. g = k /\ g \in Gateways
      BY <1>1, <2>2 DEF SoundGateways, SoundGateway, LiveGateways, ManagedGateways
    <3>2. r # k /\ r \notin pending /\ r \in Keys
      BY <1>1 DEF Keys
    <3>3. r \in DOMAIN cluster' /\ cluster'[r] = store[r]
      BY <1>1, <3>2 DEF ClusterFollows
    <3>4. ~ \E p \in cluster'[r].parents : p.gateway = g
      BY <1>1, <3>1, <3>3, RouteWatches
    <3>5. \A n, l : ~ Takes(r, store[r], g, n, l)
      BY <3>3, <3>4 DEF Takes
    <3>. QED BY <3>5 DEF AttachedTo
  <2>. QED BY <2>1, <2>2
<1>3. ASSUME NEW r, NEW g, AttachedTo(tree, r, store[r], g) PROVE AttachedTo(tree', r, store'[r], g)
  BY <1>1, <1>3
<1>4. ASSUME NEW r, NEW g, AttachedTo(tree', r, store'[r], g) PROVE AttachedTo(tree, r, store[r], g)'
  BY <1>4 DEF AttachedTo, Takes, matchHostname, match, Covers, Wildcard, Goal, Targets, Target
<1>5. LiveGateways(tree)' = LiveGateways(tree)
  BY <1>1 DEF LiveGateways, ManagedGateways
<1>. QED BY <1>1, <1>2, <1>3, <1>4, <1>5 DEF Attached

LEMMA AttachedReconcile ==
    ASSUME Attached, NEW k \in Keys, Reconcile(k)
    PROVE  Attached'
<1>1. /\ tree' = tree /\ behind' = behind /\ updates' = updates \cup {k} /\ pending' = pending \ {k}
      /\ cluster' = cluster
      /\ \A x : x # k => /\ x \in DOMAIN store' <=> x \in DOMAIN store
                         /\ x \in DOMAIN store => store'[x] = store[x]
  BY ReconcileKeeps
<1>2. ASSUME NEW r \in (Routes \cap DOMAIN store') \ (pending' \cup updates' \cup behind'),
             NEW g \in LiveGateways(tree) \cap DOMAIN cluster
      PROVE  AttachedTo(tree', r, store'[r], g)
  <2>1. r \in (Routes \cap DOMAIN store) \ (pending \cup updates \cup behind) /\ store'[r] = store[r]
    BY <1>1
  <2>2. AttachedTo(tree, r, store[r], g)
    BY <2>1 DEF Attached
  <2>. QED BY <1>1, <2>1, <2>2
<1>3. ASSUME NEW r, NEW g, AttachedTo(tree', r, store'[r], g) PROVE AttachedTo(tree, r, store[r], g)'
  BY <1>3 DEF AttachedTo, Takes, matchHostname, match, Covers, Wildcard, Goal, Targets, Target
<1>4. LiveGateways(tree)' = LiveGateways(tree)
  BY <1>1 DEF LiveGateways, ManagedGateways
<1>. QED BY <1>1, <1>2, <1>3, <1>4 DEF Attached

LEMMA RouteDependencies ==
    ASSUME NEW r \in Routes
    PROVE  Dependencies(r) = Backends(store[r]) \cup {p.gateway : p \in store[r].parents}
BY KindsApart DEF Dependencies

(* What a batch that a route has no part in changes of its dependencies    *)
LEMMA NotMissed ==
    ASSUME SoundGateways(tree'), NEW r \in (Routes \cap DOMAIN store) \ updates, r \notin Missed(tree')
    PROVE  /\ r \notin behind
           /\ Backends(store[r]) \cap updates \subseteq Gateways
           /\ \A p \in store[r].parents : p.gateway \notin Moved(tree')
<1>1. r \notin LiveGateways(tree')
  BY KindsApart DEF LiveGateways, ManagedGateways, SoundGateways, SoundGateway
<1>2. r \notin behind /\ Dependencies(r) \cap ((updates \ Gateways) \cup Moved(tree')) = {}
  BY <1>1 DEF Missed
<1>. QED BY <1>2, RouteDependencies

LEMMA AttachedBatch ==
    ASSUME ListenersInv, RoutesInv, FollowInv, Attached, Batch
    PROVE  Attached'
<1> USE DEF Upserted, Deleted, Untouched
<1>1. /\ store' = store /\ cluster' = cluster /\ updates' = {} /\ behind' = Missed(tree')
      /\ pending' = pending \cup UNION {Watchers(g) : g \in Republished(tree')}
  BY DEF Batch
<1>2. /\ InputsSound /\ TreeShape /\ SoundGateways(tree) /\ ListenersFinite(tree) /\ SoundRoutes(tree.routes)
      /\ RoutesFollow /\ ClusterFollows /\ StatusFollows /\ ListenersSound(tree)
  BY DEF ListenersInv, GatewaysInv, RoutesInv, FollowInv
<1>3. GatewaysKept(WithGateways, tree')
  BY <1>2, BatchTree
<1>4. SoundGateways(tree') /\ ListenersSound(tree')
  BY <1>2, <1>3, StageBuilt, KeptSound, BuiltSound, KeptListeners
<1>5. ASSUME NEW r \in (Routes \cap DOMAIN store) \ (pending' \cup behind'),
             NEW g \in LiveGateways(tree') \cap DOMAIN cluster
      PROVE  AttachedTo(tree', r, store[r], g)
  <2>1. CASE r \in updates
    <3>1. Fresh(WithGateways, r, tree')
      BY <1>2, <2>1, BatchRoute
    <3>. QED BY <3>1, FreshAttached
  <2>2. CASE r \notin updates
    <3>1. r \notin behind /\ \A p \in store[r].parents : p.gateway \notin Moved(tree')
      BY <1>1, <1>4, <2>2, NotMissed
    <3>2. /\ Targets(tree'.routes[r].refs) = Targets(tree.routes[r].refs)
      <4>1. r \in DOMAIN tree.routes /\ tree.routes[r].status # Deleted
        BY <1>2, <2>2 DEF RoutesFollow
      <4>. QED BY <1>2, <2>2, <4>1, BatchRoute
    <3>3. SUFFICES ASSUME NEW n \in DOMAIN tree'.gateways[g].listeners,
                          Takes(r, store[r], g, n, tree'.gateways[g].listeners[n])
                   PROVE  Goal(g, n, tree'.gateways[g].listeners[n].spec) \in Targets(tree'.routes[r].refs)
      BY DEF AttachedTo
    <3> DEFINE node == tree'.gateways[g]
               old  == tree.gateways[g]
    <3>4. PICK p \in store[r].parents : p.gateway = g
      BY <3>3 DEF Takes
    <3>5. g \in Gateways /\ g \in DOMAIN tree'.gateways
      BY <1>4 DEF LiveGateways, ManagedGateways, SoundGateways, SoundGateway
    <3>6. g \in LiveGateways(tree)
      BY <3>1, <3>4, <3>5 DEF Moved
    <3>7. r \in DOMAIN cluster /\ cluster[r] = store[r]
      BY <1>1, <1>2 DEF ClusterFollows, Keys
    <3>8. g \notin Republished(tree')
      <4>1. r \in Watchers(g)
        BY <1>1, <3>4, <3>5, <3>7, RouteWatches
      <4>. QED BY <1>1, <4>1
    <3>9. SoundListeners(node) /\ SoundListeners(old)
      BY <1>2, <1>4, <3>5, <3>6 DEF ListenersSound, LiveGateways, ManagedGateways
    <3>10. GatewayStatus(node) = GatewayStatus(old)
      <4>1. CASE node.status = Upserted
        <5>1. g \in DOMAIN published /\ published[g] = GatewayStatus(node)
          BY <3>8, <4>1 DEF Republished, LiveGateways
        <5>2. published[g] = GatewayStatus(old)
          BY <1>2, <3>6, <5>1 DEF StatusFollows
        <5>. QED BY <5>1, <5>2
      <4>2. CASE node.status # Upserted
        <5>1. node.status = Untouched
          BY <1>4, <3>5, <4>2 DEF SoundGateways, SoundGateway, LiveGateways
        <5>. QED BY <1>2, <3>5, <5>1, UntouchedGateway, SameStatus
      <4>. QED BY <4>1, <4>2
    <3>11. node.listeners[n].valid
      BY <3>3 DEF Takes
    <3> HIDE DEF node, old
    <3>12. /\ n \in DOMAIN old.listeners /\ old.listeners[n].valid
           /\ old.listeners[n].spec = node.listeners[n].spec
      BY <3>3, <3>9, <3>10, <3>11, StatusTells DEF node
    <3>13. Takes(r, store[r], g, n, old.listeners[n])
      BY <3>3, <3>12 DEF node, Takes
    <3>14. AttachedTo(tree, r, store[r], g)
      BY <1>1, <2>2, <3>1, <3>6 DEF Attached
    <3>15. Goal(g, n, old.listeners[n].spec) \in Targets(tree.routes[r].refs)
      BY <3>12, <3>13, <3>14 DEF AttachedTo, old
    <3>. QED BY <3>2, <3>12, <3>15 DEF node
  <2>. QED BY <2>1, <2>2
<1>6. ASSUME NEW r, NEW g, AttachedTo(tree', r, store'[r], g) PROVE AttachedTo(tree, r, store[r], g)'
  BY <1>6 DEF AttachedTo, Takes, matchHostname, match, Covers, Wildcard, Goal, Targets, Target
<1>7. LiveGateways(tree)' = LiveGateways(tree')
  BY DEF LiveGateways, ManagedGateways
<1>. QED BY <1>1, <1>5, <1>6, <1>7 DEF Attached
-----------------------------------------------------------------------------
LEMMA ServicesApart == Services \cap Gateways = {}
<1> DEFINE kinds == <<Classes, Gateways, HTTPRoutes, TLSRoutes, Services, Secrets, HugGates>>
<1>1. \A i, j \in 1..7 : i # j => kinds[i] \cap kinds[j] = {}
  BY KeysAssumption
<1>2. kinds[5] \cap kinds[2] = {}
  BY <1>1
<1>. QED BY <1>2

(* An entry that some version of the route may write through some version  *)
(* of a gateway, and entries that a rule has to lead to its backends       *)
MayReach(r, e) ==
    /\ e.frontend[1] \in Gateways
    /\ \E spec \in Versions[r], gateway \in Versions[e.frontend[1]] :
          /\ \E p \in spec.parents : p.gateway = e.frontend[1]
          /\ e.frontend[2] \in DOMAIN gateway.listeners
          /\ \E i \in DOMAIN spec.rules : Reaches(r, spec, i, gateway.listeners[e.frontend[2]].hostname, e)

Wanted(r, spec, i, ref) ==
    {e \in RouteEntries(r, spec, i, Frontend(ref), ref.spec.hostname) :
        /\ MayReach(r, e)
        /\ \A j \in DOMAIN spec.rules : j > i => ~ Reaches(r, spec, j, ref.spec.hostname, e)}

(* No two routes ask for the same key of the same map of a frontend,       *)
(* whatever version they and the gateways have.  Where two do, the one     *)
(* that loses it deletes the entry of the other.                           *)
NoSharedEntries == \A r, x \in Routes : r # x => \A e : ~ (MayReach(r, e) /\ MayReach(x, e))

Backed(spec, i, S) == spec.rules[i].backends # <<>> /\ ToSet(spec.rules[i].backends) \subseteq S

Mapped(data, r, spec, i, targets) ==
    \A ref \in targets : \A e \in Wanted(r, spec, i, ref) : Has(data, e, spec.rules[i].backends)

MapsFollow ==
    \A r \in (Routes \cap DOMAIN store) \ (updates \cup behind) : \A i \in DOMAIN store[r].rules :
        Backed(store[r], i, DOMAIN store \ updates) =>
            Mapped(maps, r, store[r], i, Targets(tree.routes[r].refs))

(* What a route that looked for its listeners found                        *)
LEMMA FoundTarget ==
    ASSUME NEW w, NEW r, NEW target \in Targets(ParentRefs(w, r))
    PROVE  /\ \E p \in store[r].parents : p.gateway = target.gateway
           /\ target.gateway \in LiveGateways(w)
           /\ target.listener \in DOMAIN w.gateways[target.gateway].listeners
           /\ target.spec = w.gateways[target.gateway].listeners[target.listener].spec
<1>1. PICK ref \in ParentRefs(w, r) : target = Target(ref)
  BY DEF Targets
<1>2. \E p \in store[r].parents : ref \in ListenersOf(w, p)
  <2>1. CASE r \in HTTPRoutes
    BY <1>1, <2>1 DEF ParentRefs, checkHTTPParentRefs, checkHTTPParentRef
  <2>2. CASE r \notin HTTPRoutes
    BY <1>1, <2>2 DEF ParentRefs, checkTLSParentRefs, checkTLSParentRef
  <2>. QED BY <2>1, <2>2
<1>3. PICK p \in store[r].parents : ref \in ListenersOf(w, p)
  BY <1>2
<1>4. p.gateway \in LiveGateways(w)
  BY <1>3 DEF ListenersOf
<1>5. PICK n \in DOMAIN w.gateways[p.gateway].listeners :
        ref = [gateway |-> p.gateway, listener |-> n, spec |-> w.gateways[p.gateway].listeners[n].spec,
               current |-> TRUE]
  BY <1>3, <1>4 DEF ListenersOf
<1>6. target.gateway = p.gateway /\ target.listener = n /\ target.spec = w.gateways[p.gateway].listeners[n].spec
  BY <1>1, <1>5 DEF Target
<1>. QED BY <1>4, <1>5, <1>6

(* The tree in which a route of a batch found its listeners                *)
LEMMA FoundTree ==
    ASSUME NEW t, NEW u, NEW r, SoundGateways(t), ListenersSound(t), Fresh(t, r, u)
    PROVE  \E w : SoundGateways(w) /\ ListenersSound(w) /\ Found(w, r, u.routes[r])
<1>1. PICK w : GatewaysKept(t, w) /\ Found(w, r, u.routes[r])
  BY DEF Fresh
<1>. QED BY <1>1, KeptSound, KeptListeners

(* A route writes what it may reach.                                       *)
LEMMA FoundReach ==
    ASSUME NEW w, SoundGateways(w), ListenersSound(w), InputsSound, NEW r \in Routes \cap DOMAIN store,
           NEW target \in Targets(ParentRefs(w, r)), NEW e, e.frontend = Frontend(target),
           NEW i \in DOMAIN store[r].rules, Reaches(r, store[r], i, target.spec.hostname, e)
    PROVE  MayReach(r, e)
<1> DEFINE g == target.gateway
           n == target.listener
           node == w.gateways[g]
<1>1. /\ \E p \in store[r].parents : p.gateway = g
      /\ g \in DOMAIN w.gateways /\ n \in DOMAIN node.listeners /\ target.spec = node.listeners[n].spec
  BY FoundTarget DEF LiveGateways, ManagedGateways
<1>2. SoundListeners(node) /\ SoundGateway(g, node)
  BY <1>1 DEF ListenersSound, SoundGateways
<1>3. g \in Gateways /\ node.spec \in Versions[g]
  BY <1>2 DEF SoundGateway
<1> HIDE DEF node
<1>4. node.managed
  BY <1>1, <1>2 DEF SoundListeners
<1>5. n \in DOMAIN node.spec.listeners /\ target.spec = node.spec.listeners[n]
  BY <1>1, <1>2, <1>4 DEF SoundListeners, SoundListener
<1>6. e.frontend[1] = g /\ e.frontend[2] = n
  BY DEF Frontend
<1>7. store[r] \in Versions[r]
  BY DEF InputsSound
<1>8. Reaches(r, store[r], i, node.spec.listeners[n].hostname, e)
  BY <1>5
<1>. QED BY <1>1, <1>3, <1>5, <1>6, <1>7, <1>8 DEF MayReach

LEMMA PathsBuilt ==
    ASSUME NEW t, NEW node, node.rules = buildRules(t, node.spec.rules)
    PROVE  PathsKept(node)
BY DEF buildRules, PathsKept

LEMMA EntryFrontend ==
    ASSUME NEW r, NEW spec, NEW i, NEW fe, NEW hostname, NEW e \in RouteEntries(r, spec, i, fe, hostname)
    PROVE  e.frontend = fe
BY DEF RouteEntries, Entry

(* A batch, and the entries of one route                                   *)
BatchInv == ListenersInv /\ RoutesInv /\ FollowInv

LEMMA BatchFacts ==
    ASSUME BatchInv, Batch
    PROVE  /\ InputsSound /\ TreeShape /\ SoundGateways(tree) /\ ListenersFinite(tree) /\ SoundRoutes(tree.routes)
           /\ SoundRoutes(tree'.routes) /\ SoundGateways(tree')
           /\ SoundGateways(WithGateways) /\ ListenersSound(WithGateways)
<1>1. /\ InputsSound /\ TreeShape /\ SoundGateways(tree) /\ ListenersFinite(tree) /\ SoundRoutes(tree.routes)
      /\ ListenersSound(tree)
  BY DEF BatchInv, ListenersInv, GatewaysInv, RoutesInv, FollowInv
<1>. QED BY <1>1, BatchRoutes, BatchTree, StageBuilt, KeptSound, BuiltSound

(* Other routes leave the entries of a route alone.                        *)
LEMMA OthersSilent ==
    ASSUME BatchInv, Batch, NoSharedEntries, NEW r \in Routes, NEW x \in Routes \cap FilledRoutes(tree'), x # r,
           NEW e, MayReach(r, e)
    PROVE  Silent(Fill(x, tree'.routes[x]), e)
<1> USE DEF Upserted, Deleted, Untouched
<1> DEFINE node == tree'.routes[x]
<1>1. x \in DOMAIN tree'.routes /\ node.status # Untouched
  BY DEF FilledRoutes
<1>2. SoundRoute(node)
  BY <1>1, BatchFacts DEF SoundRoutes
<1>3. x \in updates
  BY <1>1, BatchFacts, BatchRoute
<1>4. CASE x \notin DOMAIN store
  <2>1. node.refs = {}
    BY <1>1, <1>3, <1>4, BatchFacts, BatchRoute
  <2> HIDE DEF node
  <2>. QED BY <1>2, <2>1, FillSilent DEF node
<1>5. CASE x \in DOMAIN store
  <2>1. Fresh(WithGateways, x, tree') /\ Ruled(tree', x)
    BY <1>3, <1>5, BatchFacts, BatchRoute
  <2>2. PICK w : SoundGateways(w) /\ ListenersSound(w) /\ Found(w, x, node)
    BY <2>1, BatchFacts, FoundTree
  <2>3. node.status = Upserted /\ node.spec = store[x] /\ Targets(node.refs) = Targets(ParentRefs(w, x))
    BY <2>2 DEF Found
  <2>4. node.valid => PathsKept(node)
    BY <2>1, <2>3, PathsBuilt DEF Ruled
  <2> HIDE DEF node
  <2>5. ASSUME NEW ref \in node.refs PROVE Silent(Touch(x, node, ref), e)
    <3>1. Misses(x, node, ref, e)
      <4> SUFFICES ASSUME e.frontend = Frontend(ref), NEW i \in DOMAIN store[x].rules,
                          Reaches(x, store[x], i, ref.spec.hostname, e)
                   PROVE  FALSE
        BY <2>3 DEF Misses
      <4>1. Target(ref) \in Targets(ParentRefs(w, x))
        BY <2>3 DEF Targets
      <4>2. Frontend(Target(ref)) = Frontend(ref) /\ Target(ref).spec = ref.spec
        BY DEF Target, Frontend
      <4>3. MayReach(x, e)
        BY <1>5, <2>2, <4>1, <4>2, BatchFacts, FoundReach
      <4>. QED BY <4>3 DEF NoSharedEntries
    <3>. QED BY <1>2, <2>3, <2>4, <3>1, TouchEffect
  <2>. QED BY <1>2, <2>5, FillSilent DEF node
<1>. QED BY <1>4, <1>5

(* A route of the batch writes its entries.                                *)
LEMMA RouteWrites ==
    ASSUME BatchInv, ServicesFollow', Batch, NEW r \in Routes \cap updates \cap DOMAIN store,
           NEW i \in DOMAIN store[r].rules, Backed(store[r], i, DOMAIN store),
           NEW target \in Targets(tree'.routes[r].refs), NEW e \in Wanted(r, store[r], i, target)
    PROVE  r \in FilledRoutes(tree') /\ Leaves(Fill(r, tree'.routes[r]), e, store[r].rules[i].backends)
<1> USE DEF Upserted, Untouched
<1> DEFINE node == tree'.routes[r]
           bs   == store[r].rules[i].backends
<1>1. r \in DOMAIN tree'.routes /\ Fresh(WithGateways, r, tree') /\ Ruled(tree', r)
  BY BatchFacts, BatchRoute
<1>2. SoundRoute(node)
  BY <1>1, BatchFacts DEF SoundRoutes
<1>3. PICK w : SoundGateways(w) /\ ListenersSound(w) /\ Found(w, r, node)
  BY <1>1, BatchFacts, FoundTree
<1>4. /\ node.status = Upserted /\ node.spec = store[r] /\ Targets(node.refs) = Targets(ParentRefs(w, r))
      /\ node.valid <=> node.refs # {}
      /\ node.refs # {} => "managed" \in node.in
  BY <1>3 DEF Found
<1>5. PICK ref \in node.refs : target = Target(ref)
  BY DEF Targets
<1>6. node.valid /\ r \in FilledRoutes(tree')
  <2>1. node.refs # {}
    BY <1>5
  <2>2. node.valid /\ "managed" \in node.in
    BY <1>4, <2>1
  <2>. QED BY <1>1, <1>4, <2>2 DEF FilledRoutes
<1>7. node.rules = buildRules(tree', store[r].rules)
  BY <1>1, <1>6 DEF Ruled
<1>8. PathsKept(node)
  BY <1>4, <1>7, PathsBuilt
<1>9. bs \in Seq(Services)
  <2>1. store[r] \in Versions[r]
    BY BatchFacts DEF InputsSound
  <2>. QED BY <2>1, SpecsAssumption
<1>10. \A j \in DOMAIN bs : Live(tree'.services, bs[j])
  <2>1. store' = store /\ updates' = {}
    BY DEF Batch
  <2>2. \A s \in Services : s \in DOMAIN store => Live(tree'.services, s)
    BY <2>1 DEF ServicesFollow, Live
  <2>3. \A j \in DOMAIN bs : bs[j] \in Services /\ bs[j] \in DOMAIN store
    BY <1>9 DEF Backed, ToSet
  <2>. QED BY <2>2, <2>3
<1>11. bs # <<>>
  BY DEF Backed
<1>12. checkBackendRef(tree', bs) /\ CheckedRefs(tree', bs) = bs
  BY <1>9, <1>10, <1>11, AllRefsPass
<1>13. node.rules[i].valid /\ node.rules[i].backends = bs
  BY <1>7, <1>12 DEF buildRules
<1>14. /\ e \in RouteEntries(r, store[r], i, Frontend(target), target.spec.hostname)
       /\ \A j \in DOMAIN store[r].rules : j > i => ~ Reaches(r, store[r], j, target.spec.hostname, e)
  BY DEF Wanted
<1>15. e.frontend = Frontend(target)
  BY <1>14, EntryFrontend
<1> HIDE DEF node, bs
<1>16. ASSUME NEW x \in node.refs, Frontend(x) = Frontend(target)
       PROVE  Leaves(Touch(r, node, x), e, bs)
  <2>1. Target(x) \in Targets(ParentRefs(w, r)) /\ target \in Targets(ParentRefs(w, r))
    BY <1>4, <1>5 DEF Targets
  <2>2. Target(x).gateway = target.gateway /\ Target(x).listener = target.listener
    BY <1>16 DEF Frontend, Target
  <2>3. Target(x).spec = target.spec
    BY <2>1, <2>2, FoundTarget
  <2>4. x.spec = target.spec
    BY <2>3 DEF Target
  <2>5. Serves(r, node, x, i, e, bs)
    BY <1>4, <1>13, <1>14, <1>16, <2>4 DEF Serves
  <2>. QED BY <1>2, <1>4, <1>6, <1>8, <2>5, TouchEffect
<1>17. Frontend(ref) = Frontend(target)
  BY <1>5 DEF Frontend, Target
<1>18. Leaves(Touch(r, node, ref), e, bs)
  BY <1>5, <1>16, <1>17
<1>19. ASSUME NEW x \in node.refs, Frontend(x) # Frontend(target) PROVE Silent(Touch(r, node, x), e)
  <2>1. Misses(r, node, x, e)
    BY <1>15, <1>19 DEF Misses
  <2>. QED BY <1>2, <1>4, <1>8, <2>1, TouchEffect
<1>20. Leaves(Fill(r, node), e, bs)
  BY <1>2, <1>5, <1>16, <1>18, <1>19, FillLeaves
<1>. QED BY <1>6, <1>20 DEF node, bs

(* A route that the batch has no part in has its entries.                  *)
LEMMA RouteKept ==
    ASSUME BatchInv, MapsFollow, Batch, NEW r \in (Routes \cap DOMAIN store) \ (updates \cup Missed(tree')),
           NEW i \in DOMAIN store[r].rules, Backed(store[r], i, DOMAIN store),
           NEW target \in Targets(tree'.routes[r].refs), NEW e \in Wanted(r, store[r], i, target)
    PROVE  r \notin FilledRoutes(tree') /\ Has(maps, e, store[r].rules[i].backends)
<1> USE DEF Untouched
<1> DEFINE bs == store[r].rules[i].backends
<1>1. r \notin behind /\ Backends(store[r]) \cap updates \subseteq Gateways
  BY BatchFacts, NotMissed
<1>2. r \in DOMAIN tree.routes /\ tree.routes[r].status # Deleted
  BY DEF BatchInv, FollowInv, RoutesFollow
<1>3. /\ r \in DOMAIN tree'.routes /\ tree'.routes[r].status = Untouched
      /\ Targets(tree'.routes[r].refs) = Targets(tree.routes[r].refs)
  BY <1>2, BatchFacts, BatchRoute
<1>4. bs \in Seq(Services) /\ store[r].rules \in Seq(ToSet(store[r].rules))
  <2>1. store[r] \in Versions[r]
    BY BatchFacts DEF InputsSound
  <2>. QED BY <2>1, SpecsAssumption
<1>5. ToSet(bs) \subseteq Services
  BY <1>4 DEF ToSet
<1>6. ToSet(bs) \subseteq Backends(store[r])
  <2>1. store[r].rules[i] \in ToSet(store[r].rules)
    BY <1>4 DEF ToSet
  <2>. QED BY <2>1 DEF Backends
<1>7. Backed(store[r], i, DOMAIN store \ updates)
  BY <1>1, <1>5, <1>6, ServicesApart DEF Backed
<1>8. Mapped(maps, r, store[r], i, Targets(tree.routes[r].refs))
  BY <1>1, <1>7 DEF MapsFollow
<1>9. Has(maps, e, bs)
  BY <1>3, <1>8 DEF Mapped
<1>. QED BY <1>3, <1>9 DEF FilledRoutes

LEMMA MapsBatch ==
    ASSUME BatchInv, ServicesFollow', MapsFollow, NoSharedEntries, Batch, processRoutes(tree'),
           NEW r \in (Routes \cap DOMAIN store) \ Missed(tree'), NEW i \in DOMAIN store[r].rules,
           Backed(store[r], i, DOMAIN store)
    PROVE  Mapped(maps', r, store[r], i, Targets(tree'.routes[r].refs))
<1> DEFINE bs == store[r].rules[i].backends
<1> SUFFICES ASSUME NEW target \in Targets(tree'.routes[r].refs), NEW e \in Wanted(r, store[r], i, target)
             PROVE  Has(maps', e, bs)
  BY DEF Mapped
<1>1. PICK http \in SetToSeqs(HTTPRoutes \cap FilledRoutes(tree')),
           tls \in SetToSeqs(TLSRoutes \cap FilledRoutes(tree')) :
        LET m == fillMaps(tree', http, tls)
        IN  maps' = WriteOnDisk(m) /\ runtimeMapSync(m)
  BY DEF processRoutes
<1>2. maps' = fillMaps(tree', http, tls).data
  BY <1>1 DEF WriteOnDisk
<1>3. MayReach(r, e)
  BY DEF Wanted
<1>4. \A x \in Routes \cap FilledRoutes(tree') : x # r => Silent(Fill(x, tree'.routes[x]), e)
  BY <1>3, OthersSilent
<1> DEFINE filled == Routes \cap FilledRoutes(tree')
<1>5. Agreeing(tree', filled, e, bs) /\ (Has(maps, e, bs) \/ Written(tree', filled, e, bs))
  <2>1. CASE r \in updates
    <3>1. r \in filled /\ Leaves(Fill(r, tree'.routes[r]), e, bs)
      BY <2>1, RouteWrites
    <3> HIDE DEF bs
    <3>. QED BY <1>4, <3>1 DEF Agreeing, Written
  <2>2. CASE r \notin updates
    <3>1. r \notin filled /\ Has(maps, e, bs)
      BY <2>2, RouteKept
    <3> HIDE DEF bs
    <3>. QED BY <1>4, <3>1 DEF Agreeing
  <2>. QED BY <2>1, <2>2
<1> HIDE DEF bs
<1>. QED BY <1>1, <1>2, <1>5, BatchFacts, FillMapsLeave

ServedInv == FollowInv /\ Attached /\ MapsFollow

LEMMA ServedStep ==
    ASSUME ListenersInv, RoutesInv, ServedInv, NoSharedEntries, [Next]_vars
    PROVE  ServedInv'
<1> USE DEF ServedInv
<1>1. ASSUME UNCHANGED <<inputVars, treeVars, maps>> PROVE ServedInv'
  <2>1. /\ cluster' = cluster /\ pending' = pending /\ store' = store /\ updates' = updates /\ tree' = tree
        /\ published' = published /\ behind' = behind /\ maps' = maps
    BY <1>1 DEF inputVars, treeVars
  <2>2. FollowInv'
    <3>1. GatewaysFollow' /\ ServicesFollow' /\ RoutesFollow' /\ ClusterFollows'
      BY <2>1 DEF FollowInv, GatewaysFollow, ServicesFollow, RoutesFollow, ClusterFollows, Live
    <3>2. StatusFollows'
      BY <2>1 DEF FollowInv, StatusFollows, GatewayStatus, GatewayConditions, LiveGateways, ManagedGateways
    <3>. QED BY <2>1, <3>1, <3>2, SameTree DEF FollowInv
  <2>3. Attached'
    BY <2>1 DEF Attached
  <2>4. MapsFollow'
    BY <2>1 DEF MapsFollow
  <2>. QED BY <2>2, <2>3, <2>4
<1>2. ASSUME NEW k \in Keys, Change(k), UNCHANGED mapVars PROVE ServedInv'
  <2>1. FollowInv'
    BY <1>2, FollowChange
  <2>2. Attached'
    BY <1>2, AttachedChange DEF FollowInv, ListenersInv, GatewaysInv
  <2>3. tree' = tree /\ behind' = behind /\ updates' = updates /\ store' = store /\ maps' = maps
    BY <1>2, ChangeKeeps DEF mapVars
  <2>4. MapsFollow'
    BY <2>3 DEF MapsFollow
  <2>. QED BY <2>1, <2>2, <2>4
<1>3. ASSUME NEW k \in Keys, Reconcile(k), UNCHANGED mapVars PROVE ServedInv'
  <2>1. FollowInv'
    BY <1>3, FollowReconcile
  <2>2. Attached'
    BY <1>3, AttachedReconcile
  <2>3. /\ tree' = tree /\ behind' = behind /\ updates' = updates \cup {k} /\ maps' = maps
        /\ \A x : x # k => /\ x \in DOMAIN store' <=> x \in DOMAIN store
                           /\ x \in DOMAIN store => store'[x] = store[x]
    BY <1>3, ReconcileKeeps DEF mapVars
  <2>4. ASSUME NEW r \in (Routes \cap DOMAIN store') \ (updates' \cup behind'), NEW i \in DOMAIN store'[r].rules,
               Backed(store'[r], i, DOMAIN store' \ updates')
        PROVE  Mapped(maps', r, store'[r], i, Targets(tree'.routes[r].refs))
    <3>1. r \in (Routes \cap DOMAIN store) \ (updates \cup behind) /\ store'[r] = store[r]
      BY <2>3
    <3>2. DOMAIN store' \ updates' \subseteq DOMAIN store \ updates
      BY <2>3
    <3>3. Backed(store[r], i, DOMAIN store \ updates)
      BY <2>4, <3>1, <3>2 DEF Backed
    <3>4. Mapped(maps, r, store[r], i, Targets(tree.routes[r].refs))
      BY <2>4, <3>1, <3>3 DEF MapsFollow
    <3>. QED BY <2>3, <3>1, <3>4
  <2>5. MapsFollow'
    BY <2>4 DEF MapsFollow
  <2>. QED BY <2>1, <2>2, <2>5
<1>4. ASSUME Batch, processRoutes(tree') PROVE ServedInv'
  <2>1. FollowInv' /\ Attached'
    BY <1>4, FollowBatch, AttachedBatch
  <2>2. store' = store /\ updates' = {} /\ behind' = Missed(tree')
    BY <1>4 DEF Batch
  <2>3. ASSUME NEW r \in (Routes \cap DOMAIN store') \ (updates' \cup behind'), NEW i \in DOMAIN store'[r].rules,
               Backed(store'[r], i, DOMAIN store' \ updates')
        PROVE  Mapped(maps', r, store'[r], i, Targets(tree'.routes[r].refs))
    <3>1. r \in (Routes \cap DOMAIN store) \ Missed(tree') /\ i \in DOMAIN store[r].rules
          /\ Backed(store[r], i, DOMAIN store)
      BY <2>2, <2>3 DEF Backed
    <3>2. BatchInv /\ ServicesFollow'
      BY <2>1 DEF BatchInv, FollowInv
    <3>3. Mapped(maps', r, store[r], i, Targets(tree'.routes[r].refs))
      BY <1>4, <3>1, <3>2, MapsBatch
    <3>. QED BY <2>2, <3>3
  <2>4. MapsFollow'
    BY <2>3 DEF MapsFollow
  <2>. QED BY <2>1, <2>4
<1>5. CASE Reload
  BY <1>1, <1>5 DEF Reload, servingVars, gateVars
<1>6. CASE UNCHANGED vars
  BY <1>1, <1>6 DEF vars, servingVars, gateVars, mapVars
<1>. QED BY <1>2, <1>3, <1>4, <1>5, <1>6 DEF Next, Input, HandleEventBatch
-----------------------------------------------------------------------------
LEMMA EntryMatches ==
    ASSUME NEW r, NEW spec, NEW i, NEW fe, NEW hostname, NEW e \in RouteEntries(r, spec, i, fe, hostname)
    PROVE  matchHostname(spec.hostnames, hostname) /\ Reaches(r, spec, i, hostname, e)
<1> DEFINE hosts == GetHostnamesForRouteWithListener(hostname, spec.hostnames)
           path  == spec.rules[i].path
<1>1. PICK h \in hosts : e = IF r \in HTTPRoutes THEN Entry(fe, PathMap(path, h), h, path.value)
                             ELSE Entry(fe, SNIMap(h), h, <<>>)
  BY DEF RouteEntries
<1>2. matchHostname(spec.hostnames, hostname)
  <2>1. CASE hostname = <<>> \/ spec.hostnames = {}
    BY <2>1 DEF matchHostname
  <2>2. CASE hostname # <<>> /\ spec.hostnames # {}
    <3>1. h \in {hostname : x \in {y \in spec.hostnames : hostnamesMatchingRouteAndListener(y, hostname)}}
                  \cup {y \in spec.hostnames : /\ ~ hostnamesMatchingRouteAndListener(y, hostname)
                                               /\ hostnamesMatchingRouteAndListener(hostname, y)}
      BY <2>2 DEF GetHostnamesForRouteWithListener
    <3>2. PICK x \in spec.hostnames : \/ hostnamesMatchingRouteAndListener(x, hostname)
                                      \/ hostnamesMatchingRouteAndListener(hostname, x)
      BY <3>1
    <3>3. match(x, hostname)
      BY <3>2 DEF hostnamesMatchingRouteAndListener, match
    <3>. QED BY <3>3 DEF matchHostname
  <2>. QED BY <2>1, <2>2
<1> HIDE DEF hosts
<1>3. CASE r \in HTTPRoutes
  <2>1. e.host = h /\ e.map = PathMap(path, h) /\ e.path = path.value
    BY <1>1, <1>3 DEF Entry
  <2>. QED BY <1>2, <1>3, <2>1 DEF Reaches, hosts
<1>4. CASE r \notin HTTPRoutes
  <2>1. e.host = h /\ e.map = SNIMap(h)
    BY <1>1, <1>4 DEF Entry
  <2>2. SNIMap(h) \in {"sni", "domain_wildcard_sni"}
    BY DEF SNIMap
  <2>. QED BY <1>2, <1>4, <2>1, <2>2 DEF Reaches, hosts
<1>. QED BY <1>3, <1>4

(* What has no rival and is due is in the maps.                            *)
LEMMA ServedSuffices ==
    ASSUME ListenersInv, ServedInv, updates = {},
           NEW r \in QuietRoutes, NEW g \in QuietGateways,
           NEW i \in DOMAIN store[r].rules, NEW n \in DOMAIN tree.gateways[g].listeners,
           NEW e \in DueEntries(r, i, g, n)
    PROVE  e \in DOMAIN maps /\ maps[e] = store[r].rules[i].backends
<1> DEFINE node == tree.gateways[g]
           l    == node.listeners[n]
           spec == store[r]
           goal == Goal(g, n, l.spec)
<1>1. /\ r \in Routes \cap DOMAIN store /\ r \notin pending /\ r \notin behind
      /\ g \in LiveGateways(tree) \cap DOMAIN cluster /\ g \in DOMAIN store
  BY DEF QuietRoutes, QuietGateways
<1>2. /\ Attachable(r, g, n) /\ Backed(spec, i, DOMAIN store)
      /\ e \in NeededEntries(r, i, g, n) /\ Alone(e, r, i)
  BY DEF DueEntries, Backed
<1>3. g \in DOMAIN tree.gateways /\ g \in Gateways /\ node.spec = store[g] /\ SoundListeners(node)
  BY <1>1 DEF ListenersInv, GatewaysInv, SoundGateways, SoundGateway, ServedInv, FollowInv, GatewaysFollow,
              ListenersSound, LiveGateways, ManagedGateways
<1>4. n \in DOMAIN store[g].listeners /\ l.spec = store[g].listeners[n]
  <2> HIDE DEF node
  <2>1. node.managed
    BY <1>3 DEF SoundListeners, node
  <2>. QED BY <1>3, <2>1 DEF SoundListeners, SoundListener, node
<1>5. e \in RouteEntries(r, spec, i, <<g, n>>, l.spec.hostname)
  BY <1>2, <1>4 DEF NeededEntries
<1>6. e.frontend = <<g, n>>
  BY <1>5, EntryFrontend
<1>7. matchHostname(spec.hostnames, l.spec.hostname) /\ Reaches(r, spec, i, l.spec.hostname, e)
  BY <1>5, EntryMatches
<1>8. Takes(r, spec, g, n, l)
  BY <1>2, <1>7 DEF Attachable, Takes
<1>9. goal \in Targets(tree.routes[r].refs)
  BY <1>1, <1>8 DEF ServedInv, Attached, AttachedTo
<1>10. MayReach(r, e)
  <2>1. spec \in Versions[r] /\ store[g] \in Versions[g]
    BY <1>1 DEF ListenersInv, InputsSound
  <2>2. \E p \in spec.parents : p.gateway = g
    BY <1>2 DEF Attachable
  <2>. QED BY <1>3, <1>4, <1>6, <1>7, <2>1, <2>2 DEF MayReach
<1>11. \A j \in DOMAIN spec.rules : j > i => ~ Reaches(r, spec, j, l.spec.hostname, e)
  BY <1>1, <1>2, <1>4, <1>6 DEF Alone, WritesTo
<1>12. Frontend(goal) = <<g, n>> /\ goal.spec = l.spec
  BY DEF Frontend, Goal
<1>13. e \in Wanted(r, spec, i, goal)
  BY <1>5, <1>10, <1>11, <1>12 DEF Wanted
<1>14. Mapped(maps, r, spec, i, Targets(tree.routes[r].refs))
  BY <1>1, <1>2 DEF ServedInv, MapsFollow, Backed
<1>. QED BY <1>9, <1>13, <1>14 DEF Mapped, Has

(* A route with nothing queued is in the maps of every listener that       *)
(* accepts it, with its backends, unless it is behind, that is, was passed *)
(* over by a batch that changed one of its services or moved one of its    *)
(* gateways.  The status of a gateway tells its routes all they have to    *)
(* know about its listeners, in whatever batches it is published.          *)
THEOREM RoutesAreServed == ASSUME NoSharedEntries PROVE Spec => []RoutesServed
<1>1. Init => ServedInv
  <2> SUFFICES ASSUME Init PROVE ServedInv
      OBVIOUS
  <2>1. /\ store = <<>> /\ pending = DOMAIN cluster /\ published = <<>>
        /\ tree = EmptyTree
    BY DEF Init, FrontendsInit, GateInit
  <2>2. tree.gateways = <<>> /\ tree.services = <<>>
    BY <2>1 DEF EmptyTree
  <2>3. DOMAIN tree.gateways = {} /\ DOMAIN tree.services = {} /\ DOMAIN store = {} /\ DOMAIN published = {}
    BY <2>1, <2>2
  <2>4. FollowInv
    BY <2>1, <2>3 DEF FollowInv, GatewaysFollow, ServicesFollow, RoutesFollow, ClusterFollows, StatusFollows,
                      ListenersSound, Live
  <2>. QED BY <2>3, <2>4 DEF ServedInv, Attached, MapsFollow
<1>2. ListenersInv /\ RoutesInv /\ ServedInv /\ [Next]_vars => ServedInv'
  BY ServedStep
<1>3. ListenersInv /\ ServedInv => RoutesServed
  BY ServedSuffices DEF RoutesServed, InItsMaps
<1>4. Spec => [](ListenersInv /\ RoutesInv)
  BY MapsImplementFrontends, RoutesInvHolds, PTL
<1>. QED BY <1>1, <1>2, <1>3, <1>4, PTL DEF Spec
=============================================================================
