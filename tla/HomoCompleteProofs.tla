-------------------------- MODULE HomoCompleteProofs --------------------------
(***************************************************************************)
(* No map is missed: what a search of homos.c that was not stopped has       *)
(* reported holds, up to the group, every map that was asked for.            *)
(*                                                                         *)
(* NothingMissed is the invariant.  A wanted map is Reached, that is, one    *)
(* found before is equivalent to it; or some map the group takes it to is    *)
(* ahead of an active call: it agrees with what was assigned when this call  *)
(* began, and its value at the vertex of the call is still to come.  A value *)
(* that is to come is in the cell, because a wanted map fits what is         *)
(* assigned (WantedFits).  A value that is not tried, since a smaller one is *)
(* in its orbit under the stabiliser, is why the map may change: the element *)
(* that takes the value to the least of its orbit fixes what is assigned and *)
(* takes the map to one that is still ahead (TakenToTried).                  *)
(***************************************************************************)
EXTENDS HomoResultsProofs

------------------------------------------------------------------------------
(* The group, and the maps it takes to each other.                           *)

(* The elements given for the group are automorphisms of digraph2, and with  *)
(* two of them there is their product.                                       *)
ClosedGroup(a) ==
  /\ a.aut_grp \subseteq Automorphisms(a.digraph2, a.colors2)
  /\ \A p, q \in a.aut_grp : [w \in Vertices(a.digraph2) |-> p[q[w]]] \in a.aut_grp

(* Complete speaks of these arguments only.                                  *)
WholeImage(a) ==
  a.image = Vertices(a.digraph2) \/ Group(a) = {Identity(a.digraph2.n)}

Moved(p, f) == [v \in DOMAIN f |-> p[f[v]]]

LEMMA GroupFacts ==
  ASSUME NEW a \in Arguments, ClosedGroup(a)
  PROVE  /\ Group(a) \subseteq Automorphisms(a.digraph2, a.colors2)
         /\ \A p, q \in Group(a) : [w \in Vertices(a.digraph2) |-> p[q[w]]] \in Group(a)
<1>1. CASE a.aut_grp # {}  BY <1>1 DEF Group, ClosedGroup
<1>2. CASE a.aut_grp = {}
  <2>1. PICK D, c, V : D = a.digraph2 /\ c = a.colors2 /\ V = Vertices(D)  OBVIOUS
  <2>2. Group(a) = Automorphisms(D, c)  BY <1>2, <2>1 DEF Group
  <2>3. ASSUME NEW p \in Automorphisms(D, c), NEW q \in Automorphisms(D, c),
               NEW r, r = [w \in V |-> p[q[w]]]
        PROVE  r \in Automorphisms(D, c)
    <3>1. \A s \in Automorphisms(D, c) :
            /\ s \in [V -> V]
            /\ \A u, v \in V : s[u] = s[v] => u = v
            /\ \A w \in V : \E u \in V : s[u] = w
            /\ \A u, v \in V : IsAdjacent(D, u, v) <=> IsAdjacent(D, s[u], s[v])
            /\ \A v \in V : ColorOf(c, v) = ColorOf(c, s[v])
      <4> TAKE s \in Automorphisms(D, c)
      <4> QED  BY <2>1 DEF Automorphisms, Bijection, Injection, IsInjective, Surjection
    <3>2. \A w \in V : q[w] \in V /\ p[w] \in V /\ r[w] = p[q[w]]  BY <2>3, <3>1
    <3>3. r \in [V -> V]  BY <2>3, <3>2
    <3>4. \A u, v \in V : r[u] = r[v] => u = v  BY <3>1, <3>2
    <3>5. \A w \in V : \E u \in V : r[u] = w
      <4> SUFFICES ASSUME NEW w \in V  PROVE \E u \in V : r[u] = w
        OBVIOUS
      <4>1. PICK x \in V : p[x] = w  BY <3>1
      <4>2. PICK u \in V : q[u] = x  BY <3>1
      <4> QED  BY <3>2, <4>1, <4>2
    <3>6. r \in Bijection(V, V)
      BY <3>3, <3>4, <3>5 DEF Bijection, Injection, IsInjective, Surjection
    <3>7. ASSUME NEW u \in V, NEW v \in V
          PROVE  IsAdjacent(D, u, v) <=> IsAdjacent(D, r[u], r[v])
      <4>1. IsAdjacent(D, u, v) <=> IsAdjacent(D, q[u], q[v])  BY <3>1
      <4>2. IsAdjacent(D, q[u], q[v]) <=> IsAdjacent(D, p[q[u]], p[q[v]])
        BY <3>1, <3>2
      <4> QED  BY <3>2, <4>1, <4>2
    <3>8. ASSUME NEW v \in V  PROVE ColorOf(c, v) = ColorOf(c, r[v])
      <4>1. ColorOf(c, v) = ColorOf(c, q[v])  BY <3>1
      <4>2. ColorOf(c, q[v]) = ColorOf(c, p[q[v]])  BY <3>1, <3>2
      <4> QED  BY <3>2, <4>1, <4>2
    <3> QED  BY <2>1, <3>6, <3>7, <3>8 DEF Automorphisms
  <2> QED  BY <2>1, <2>2, <2>3
<1> QED  BY <1>1, <1>2

(* What an element of the group is.                                          *)
LEMMA GroupElement ==
  ASSUME NEW a \in Arguments, ClosedGroup(a), NEW p \in Group(a)
  PROVE  /\ p \in [Vertices(a.digraph2) -> Vertices(a.digraph2)]
         /\ \A u, v \in Vertices(a.digraph2) : p[u] = p[v] => u = v
         /\ \A u, v \in Vertices(a.digraph2) :
              IsAdjacent(a.digraph2, u, v) <=> IsAdjacent(a.digraph2, p[u], p[v])
         /\ \A v \in Vertices(a.digraph2) :
              ColorOf(a.colors2, v) = ColorOf(a.colors2, p[v])
  BY GroupFacts DEF Automorphisms, Bijection, Injection, IsInjective

LEMMA GroupIdentity ==
  ASSUME NEW a \in Arguments, ClosedGroup(a)
  PROVE  \E i \in Group(a) : \A w \in Vertices(a.digraph2) : i[w] = w
<1>1. PICK V : V = Vertices(a.digraph2)  OBVIOUS
<1>2. PICK p \in Group(a) : TRUE
  <2>1. CASE a.aut_grp # {}  BY <2>1 DEF Group
  <2>2. CASE a.aut_grp = {}
    <3>1. PICK id : id = [w \in V |-> w]  OBVIOUS
    <3>2. id \in [V -> V] /\ \A w \in V : id[w] = w  BY <3>1
    <3>3. id \in Bijection(V, V)
      BY <3>2 DEF Bijection, Injection, IsInjective, Surjection
    <3>4. id \in Automorphisms(a.digraph2, a.colors2)
      BY <1>1, <3>2, <3>3 DEF Automorphisms
    <3> QED  BY <2>2, <3>4 DEF Group
  <2> QED  BY <2>1, <2>2
<1>3. PICK q \in Group(a) : \A w \in V : q[p[w]] = w  BY <1>1, GroupInverses
<1>4. PICK i : i = [w \in V |-> q[p[w]]]  OBVIOUS
<1>5. i \in Group(a)  BY <1>1, <1>4, GroupFacts
<1>6. \A w \in V : i[w] = w  BY <1>3, <1>4
<1> QED  BY <1>1, <1>5, <1>6

(* A map that the group takes to another one takes its place: what is         *)
(* equivalent to the one is equivalent to the other.                         *)
LEMMA MovedEquivalent ==
  ASSUME NEW a \in Arguments, ClosedGroup(a),
         NEW h \in [Vertices(a.digraph1) -> Vertices(a.digraph2)], NEW p \in Group(a),
         NEW f, Equivalent(a, h, f)
  PROVE  Equivalent(a, Moved(p, h), f)
<1>1. PICK W, V : W = Vertices(a.digraph1) /\ V = Vertices(a.digraph2)  OBVIOUS
<1>2. DOMAIN h = W /\ \A v \in W : h[v] \in V  BY <1>1
<1>3. PICK r \in Group(a) : f = [v \in W |-> r[h[v]]]  BY <1>2 DEF Equivalent
<1>4. PICK q \in Group(a) : \A w \in V : q[p[w]] = w  BY <1>1, GroupInverses
<1>5. PICK s : s = [w \in V |-> r[q[w]]]  OBVIOUS
<1>6. s \in Group(a)  BY <1>1, <1>5, GroupFacts
<1>7. PICK g : g = Moved(p, h)  OBVIOUS
<1>8. DOMAIN g = W /\ \A v \in W : g[v] = p[h[v]]  BY <1>2, <1>7 DEF Moved
<1>9. \A w \in V : p[w] \in V  BY <1>1, GroupElement
<1>10. \A v \in W : s[g[v]] = r[h[v]]
  <2> SUFFICES ASSUME NEW v \in W  PROVE s[g[v]] = r[h[v]]
    OBVIOUS
  <2>1. g[v] = p[h[v]] /\ p[h[v]] \in V  BY <1>2, <1>8, <1>9
  <2>2. s[g[v]] = r[q[p[h[v]]]]  BY <1>5, <2>1
  <2> QED  BY <1>2, <1>4, <2>2
<1>11. f = [v \in DOMAIN g |-> s[g[v]]]  BY <1>3, <1>8, <1>10
<1> QED  BY <1>6, <1>7, <1>11 DEF Equivalent

(* As many values before as after.                                           *)
LEMMA MovedRank ==
  ASSUME NEW W, NEW V, IsFiniteSet(V), NEW h \in [W -> V], NEW p \in [V -> V],
         \A u, v \in V : p[u] = p[v] => u = v
  PROVE  Cardinality(Range(Moved(p, h))) = Cardinality(Range(h))
<1>1. PICK S, T : S = Range(h) /\ T = Range(Moved(p, h))  OBVIOUS
<1>2. S \subseteq V  BY <1>1 DEF Range
<1>3. IsFiniteSet(S)  BY <1>2, FS_Subset
<1>4. S = { h[v] : v \in W }  BY <1>1 DEF Range
<1>5. T = { p[h[v]] : v \in W }  BY <1>1 DEF Range, Moved
<1>6. PICK b : b = [w \in S |-> p[w]]  OBVIOUS
<1>7. b \in [S -> T]  BY <1>4, <1>5, <1>6
<1>8. \A t \in T : \E s \in S : b[s] = t  BY <1>4, <1>5, <1>6
<1>9. \A s, t \in S : b[s] = b[t] => s = t  BY <1>2, <1>6
<1>10. b \in Bijection(S, T)
  BY <1>7, <1>8, <1>9 DEF Bijection, Injection, IsInjective, Surjection
<1>11. ExistsBijection(S, T)  BY <1>10 DEF ExistsBijection
<1> QED  BY <1>1, <1>3, <1>11, FS_Bijection

(* The group takes a wanted map to a wanted map, if it leaves the values of  *)
(* the partial map alone.                                                    *)
LEMMA MovedWanted ==
  ASSUME NEW a \in Arguments, ClosedGroup(a), WholeImage(a), NEW h \in WantedMaps(a),
         NEW p \in Group(a), \A x \in DOMAIN a.partial_map : p[h[x]] = h[x]
  PROVE  Moved(p, h) \in WantedMaps(a)
<1>1. PICK W, V, g : W = Vertices(a.digraph1) /\ V = Vertices(a.digraph2) /\ g = Moved(p, h)
  OBVIOUS
<1>2. h \in [W -> V] /\ Wanted(a, h)  BY <1>1 DEF WantedMaps
<1>3. DOMAIN h = W /\ \A v \in W : h[v] \in V  BY <1>2
<1>4. /\ p \in [V -> V] /\ \A u, v \in V : p[u] = p[v] => u = v
      /\ \A u, v \in V :
           IsAdjacent(a.digraph2, u, v) <=> IsAdjacent(a.digraph2, p[u], p[v])
      /\ \A v \in V : ColorOf(a.colors2, v) = ColorOf(a.colors2, p[v])
  BY <1>1, GroupElement
<1>5. g = [v \in W |-> p[h[v]]]  BY <1>1, <1>3 DEF Moved
<1>6. g \in [W -> V]  BY <1>3, <1>4, <1>5
<1>7. Homomorphism(a, g)
  <2> SUFFICES ASSUME NEW e \in a.digraph1.edges
               PROVE  IsAdjacent(a.digraph2, g[e[1]], g[e[2]])
    BY DEF Homomorphism
  <2>1. e[1] \in W /\ e[2] \in W  BY <1>1, DigraphsAssumption
  <2>2. IsAdjacent(a.digraph2, h[e[1]], h[e[2]])  BY <1>2 DEF Wanted, Homomorphism
  <2>3. IsAdjacent(a.digraph2, p[h[e[1]]], p[h[e[2]]])  BY <1>3, <1>4, <2>1, <2>2
  <2> QED  BY <1>5, <2>1, <2>3
<1>8. a.injective > 0 => IsInjective(g)
  <2> SUFFICES ASSUME a.injective > 0, NEW u \in W, NEW v \in W, g[u] = g[v]
               PROVE  u = v
    BY <1>5 DEF IsInjective
  <2>1. p[h[u]] = p[h[v]]  BY <1>5
  <2>2. h[u] = h[v]  BY <1>3, <1>4, <2>1
  <2> QED  BY <1>2, <1>3, <2>2 DEF Wanted, IsInjective
<1>9. a.injective = 2 => Embedding(a, g)
  <2> SUFFICES ASSUME a.injective = 2, NEW u \in W, NEW v \in W
               PROVE  IsAdjacent(a.digraph1, u, v) <=> IsAdjacent(a.digraph2, g[u], g[v])
    BY <1>1 DEF Embedding
  <2>1. IsAdjacent(a.digraph1, u, v) <=> IsAdjacent(a.digraph2, h[u], h[v])
    BY <1>1, <1>2 DEF Wanted, Embedding
  <2>2. IsAdjacent(a.digraph2, h[u], h[v]) <=> IsAdjacent(a.digraph2, p[h[u]], p[h[v]])
    BY <1>3, <1>4
  <2> QED  BY <1>5, <2>1, <2>2
<1>10. Cardinality(Range(g)) = Cardinality(Range(h))
  <2>1. a.digraph2.n \in Nat  BY ArgumentFacts
  <2>2. IsFiniteSet(V)  BY <1>1, <2>1, IntervalFinite DEF Vertices
  <2>3. h \in [W -> V] /\ p \in [V -> V] /\ \A u, v \in V : p[u] = p[v] => u = v
    BY <1>2, <1>4
  <2>4. Cardinality(Range(Moved(p, h))) = Cardinality(Range(h))
    BY <2>2, <2>3, MovedRank
  <2> QED  BY <1>1, <2>4
<1>11. Range(g) \subseteq a.image
  <2>1. CASE a.image = V  BY <1>6, <2>1 DEF Range
  <2>2. CASE Group(a) = {Identity(a.digraph2.n)}
    <3>1. \A w \in V : p[w] = w  BY <1>1, <2>2 DEF Identity, Vertices
    <3>2. \A v \in W : g[v] = h[v]  BY <1>3, <1>5, <3>1
    <3>3. \A v \in W : h[v] \in a.image  BY <1>2, <1>3 DEF Wanted, Range
    <3> QED  BY <1>5, <3>2, <3>3 DEF Range
  <2> QED  BY <1>1, <2>1, <2>2 DEF WholeImage
<1>12. \A v \in DOMAIN a.partial_map : g[v] = a.partial_map[v]
  <2>1. \A v \in DOMAIN a.partial_map : v \in W /\ h[v] = a.partial_map[v]
    BY <1>1, <1>2, ArgumentsAssumption DEF Wanted
  <2> QED  BY <1>5, <2>1
<1>13. \A v \in DOMAIN g : ColorOf(a.colors1, v) = ColorOf(a.colors2, g[v])
  <2> SUFFICES ASSUME NEW v \in W  PROVE ColorOf(a.colors1, v) = ColorOf(a.colors2, g[v])
    BY <1>5
  <2>1. ColorOf(a.colors1, v) = ColorOf(a.colors2, h[v])  BY <1>2, <1>3 DEF Wanted
  <2> QED  BY <1>3, <1>4, <1>5, <2>1
<1>14. a.hint # UNDEFINED => Cardinality(Range(g)) = a.hint  BY <1>2, <1>10 DEF Wanted
<1>15. Wanted(a, g)
  BY <1>7, <1>8, <1>9, <1>11, <1>12, <1>13, <1>14 DEF Wanted
<1> QED  BY <1>1, <1>6, <1>15 DEF WantedMaps

(* The group that fixes what there is takes every other value of the image    *)
(* to one of those that are tried.                                           *)
LEMMA Representative ==
  ASSUME NEW a \in Arguments, ClosedGroup(a), WholeImage(a),
         NEW vals \in SUBSET Vertices(a.digraph2), NEW y \in a.image, y \notin vals
  PROVE  \E p \in Fixing(Group(a), vals) : p[y] \in Classes(a, vals) /\ p[y] \notin vals
<1>1. PICK V, S : V = Vertices(a.digraph2) /\ S = Fixing(Group(a), vals)  OBVIOUS
<1>2. y \in V /\ V \subseteq Nat /\ a.image \subseteq V
  <2>1. a.digraph2.n \in Nat  BY ArgumentFacts
  <2> QED  BY <1>1, <2>1, ArgumentsAssumption DEF Vertices
<1>3. PICK i \in S : \A w \in V : i[w] = w
  <2>1. PICK i \in Group(a) : \A w \in V : i[w] = w  BY <1>1, GroupIdentity
  <2>2. i \in S  BY <1>1, <2>1 DEF Fixing
  <2> QED  BY <2>1, <2>2
<1>4. \A p \in S : p \in Group(a) /\ \A w \in vals : p[w] = w  BY <1>1 DEF Fixing
<1>5. \A p \in S : /\ \A w \in V : p[w] \in V
                   /\ \A u, v \in V : p[u] = p[v] => u = v
  BY <1>1, <1>4, GroupElement
<1>6. PICK T : T = { p[y] : p \in S }  OBVIOUS
<1>7. T \subseteq Nat /\ T # {}
  <2>1. i[y] \in T  BY <1>6
  <2>2. \A q \in S : q[y] \in Nat  BY <1>2, <1>5
  <2> QED  BY <1>6, <2>1, <2>2
<1>8. PICK x \in T : \A z \in T : x <= z  BY <1>7, LeastNatural
<1>9. PICK p \in S : x = p[y]  BY <1>6, <1>8
<1>10. x \notin vals
  <2> SUFFICES ASSUME x \in vals  PROVE FALSE
    OBVIOUS
  <2>1. p[x] = x  BY <1>4
  <2>2. p[x] = p[y] /\ x \in V  BY <1>1, <1>9, <2>1
  <2> QED  BY <1>2, <1>5, <2>2
<1>11. x \in a.image
  <2>1. CASE a.image = V  BY <1>2, <1>5, <1>9, <2>1
  <2>2. CASE Group(a) = {Identity(a.digraph2.n)}
    <3>1. p = Identity(a.digraph2.n)  BY <1>4, <2>2
    <3>2. p[y] = y  BY <1>1, <1>2, <3>1 DEF Identity, Vertices
    <3> QED  BY <1>9, <3>2
  <2> QED  BY <1>1, <2>1, <2>2 DEF WholeImage
<1>12. ASSUME NEW q \in S  PROVE x <= q[x]
  <2>1. PICK r : r = [w \in V |-> q[p[w]]]  OBVIOUS
  <2>2. r \in Group(a)  BY <1>1, <1>4, <2>1, GroupFacts
  <2>3. \A w \in vals : r[w] = w  BY <1>1, <1>4, <2>1
  <2>4. r \in S  BY <1>1, <2>2, <2>3 DEF Fixing
  <2>5. r[y] = q[x]  BY <1>2, <1>9, <2>1
  <2> QED  BY <1>6, <1>8, <2>4, <2>5
<1>13. x \in Classes(a, vals)
  BY <1>1, <1>10, <1>11, <1>12 DEF Classes, OrbitReps
<1> QED  BY <1>1, <1>9, <1>10, <1>13

------------------------------------------------------------------------------
(* What a wanted map is, in the numbers of the search.                       *)

LEMMA WantedEntries ==
  ASSUME NEW a \in Arguments, NEW h \in WantedMaps(a), NEW m,
         \A v \in Vertices(a.digraph1) : m[v] = h[a.order[v]]
  PROVE  /\ \A v \in Vertices(a.digraph1) :
              m[v] \in Vertices(a.digraph2) /\ m[v] \in a.image
         /\ a.injective > 0 => \A u, v \in Vertices(a.digraph1) : m[u] = m[v] => u = v
         /\ \A x \in DOMAIN a.partial_map :
              h[x] = a.partial_map[x] /\ m[InverseOrder(a)[x]] = a.partial_map[x]
<1>1. PICK V, V2a, I : V = Vertices(a.digraph1) /\ V2a = Vertices(a.digraph2)
                       /\ I = InverseOrder(a)
  OBVIOUS
<1>2. h \in [V -> V2a] /\ Wanted(a, h)  BY <1>1 DEF WantedMaps
<1>3. \A v \in V : a.order[v] \in V /\ m[v] = h[a.order[v]]  BY <1>1, Renumbered
<1>4. \A v \in V : h[v] \in V2a /\ h[v] \in a.image  BY <1>2 DEF Wanted, Range
<1>5. \A v \in V : m[v] \in V2a /\ m[v] \in a.image  BY <1>3, <1>4
<1>6. ASSUME a.injective > 0, NEW u \in V, NEW v \in V, m[u] = m[v]  PROVE u = v
  <2>1. \A x, y \in V : h[x] = h[y] => x = y  BY <1>2, <1>6 DEF Wanted, IsInjective
  <2>2. a.order[u] = a.order[v]  BY <1>3, <1>6, <2>1
  <2>3. I[a.order[u]] = u /\ I[a.order[v]] = v  BY <1>1, Renumbered
  <2> QED  BY <2>2, <2>3
<1>7. ASSUME NEW x \in DOMAIN a.partial_map
      PROVE  h[x] = a.partial_map[x] /\ m[I[x]] = a.partial_map[x]
  <2>1. x \in V  BY <1>1, ArgumentsAssumption
  <2>2. I[x] \in V /\ a.order[I[x]] = x  BY <1>1, <2>1, InverseOrderFacts
  <2>3. h[x] = a.partial_map[x]  BY <1>2 DEF Wanted
  <2> QED  BY <1>3, <2>2, <2>3
<1> QED  BY <1>1, <1>5, <1>6, <1>7

LEMMA WantedInBase ==
  ASSUME NEW a \in Arguments, NEW h \in WantedMaps(a), NEW v \in Vertices(a.digraph1)
  PROVE  h[a.order[v]] \in BaseRow(a)[v]
<1>1. PICK V, x, w : V = Vertices(a.digraph1) /\ x = a.order[v] /\ w = h[x]  OBVIOUS
<1>2. h \in [V -> Vertices(a.digraph2)] /\ Wanted(a, h)  BY <1>1 DEF WantedMaps
<1>3. x \in V /\ InverseOrder(a)[x] = v  BY <1>1, Renumbered
<1>4. w \in a.image /\ w \in Vertices(a.digraph2) /\ w \in Bits
  <2>1. w \in Vertices(a.digraph2)  BY <1>1, <1>2, <1>3
  <2>2. w \in a.image  BY <1>1, <1>2, <1>3 DEF Wanted, Range
  <2> QED  BY <2>1, <2>2, ArgumentFacts
<1>5. PICK len : len = IF DOMAIN a.partial_map = {} THEN 0 ELSE Max(DOMAIN a.partial_map) + 1
  OBVIOUS
<1>6. PICK row : row = PartialBase(a, len)  OBVIOUS
<1>7. v \in DOMAIN row  BY <1>6 DEF PartialBase, Vertices
<1>8. w \in row[v]
  <2>1. v \in 0 .. a.digraph1.n - 1  BY DEF Vertices
  <2>2. row[v] = (IF x \in DOMAIN a.partial_map /\ x < len THEN {a.partial_map[x]} ELSE Bits)
                   \cap (IF v < len THEN a.image ELSE Bits)
    BY <1>1, <1>6, <2>1 DEF PartialBase
  <2>3. x \in DOMAIN a.partial_map => w = a.partial_map[x]  BY <1>1, <1>2 DEF Wanted
  <2> QED  BY <1>4, <2>2, <2>3
<1>9. << v, v >> \in InternalEdges(a) => w \in Loops(a.digraph2)
  <2> SUFFICES ASSUME << v, v >> \in InternalEdges(a)  PROVE w \in Loops(a.digraph2)
    OBVIOUS
  <2>1. IsAdjacent(a.digraph1, x, x)  BY <1>1, <1>3, Renumbered
  <2>2. PICK e \in a.digraph1.edges : e = << x, x >>  BY <2>1 DEF IsAdjacent
  <2>3. IsAdjacent(a.digraph2, h[e[1]], h[e[2]])  BY <1>2 DEF Wanted, Homomorphism
  <2>4. IsAdjacent(a.digraph2, w, w)  BY <1>1, <2>2, <2>3
  <2> QED  BY <1>4, <2>4 DEF Loops
<1>10. a.colors1 # << >> => w \in SameColor(a, x)
  <2> SUFFICES ASSUME a.colors1 # << >>  PROVE w \in SameColor(a, x)
    OBVIOUS
  <2>1. a.colors2 # << >>  BY DigraphsAssumption
  <2>2. ColorOf(a.colors1, x) = ColorOf(a.colors2, w)  BY <1>1, <1>2, <1>3 DEF Wanted
  <2>3. a.colors1[x] = a.colors2[w]  BY <2>1, <2>2 DEF ColorOf
  <2> QED  BY <1>4, <2>3 DEF SameColor
<1>11. BaseRow(a) = [j \in DOMAIN row |->
         row[j]
         \cap (IF << j, j >> \in InternalEdges(a) THEN Loops(a.digraph2) ELSE Bits)
         \cap (IF a.colors1 = << >> THEN Bits ELSE SameColor(a, a.order[j]))]
  BY <1>5, <1>6 DEF BaseRow
<1>12. BaseRow(a)[v]
        = row[v] \cap (IF << v, v >> \in InternalEdges(a) THEN Loops(a.digraph2) ELSE Bits)
          \cap (IF a.colors1 = << >> THEN Bits ELSE SameColor(a, a.order[v]))
  BY <1>7, <1>11
<1> QED  BY <1>1, <1>4, <1>8, <1>9, <1>10, <1>12

(* The value of a wanted map fits all the other ones.                        *)
LEMMA WantedFits ==
  ASSUME NEW a \in Arguments, NEW h \in WantedMaps(a), NEW m,
         \A v \in Vertices(a.digraph1) : m[v] = h[a.order[v]],
         NEW u \in Vertices(a.digraph1), NEW v \in Vertices(a.digraph1)
  PROVE  Fits(a, m, u, v, m[v])
<1>1. PICK V, x, y : V = Vertices(a.digraph1) /\ x = a.order[u] /\ y = a.order[v]  OBVIOUS
<1>2. h \in [V -> Vertices(a.digraph2)] /\ Wanted(a, h)  BY <1>1 DEF WantedMaps
<1>3. /\ x \in V /\ y \in V /\ m[u] = h[x] /\ m[v] = h[y]
      /\ InverseOrder(a)[x] = u /\ InverseOrder(a)[y] = v
  BY <1>1, Renumbered
<1>4. /\ << u, v >> \in InternalEdges(a) <=> IsAdjacent(a.digraph1, x, y)
      /\ << v, u >> \in InternalEdges(a) <=> IsAdjacent(a.digraph1, y, x)
  <2>1. \A s, t \in V : << InverseOrder(a)[s], InverseOrder(a)[t] >> \in InternalEdges(a)
                          <=> IsAdjacent(a.digraph1, s, t)
    BY <1>1, Renumbered
  <2>2. /\ << InverseOrder(a)[x], InverseOrder(a)[y] >> \in InternalEdges(a)
              <=> IsAdjacent(a.digraph1, x, y)
        /\ << InverseOrder(a)[y], InverseOrder(a)[x] >> \in InternalEdges(a)
              <=> IsAdjacent(a.digraph1, y, x)
    BY <1>3, <2>1
  <2> QED  BY <1>3, <2>2
<1>5. \A s, t \in V : IsAdjacent(a.digraph1, s, t) => IsAdjacent(a.digraph2, h[s], h[t])
  <2> SUFFICES ASSUME NEW s \in V, NEW t \in V, << s, t >> \in a.digraph1.edges
               PROVE  IsAdjacent(a.digraph2, h[s], h[t])
    BY DEF IsAdjacent
  <2>1. PICK e \in a.digraph1.edges : e = << s, t >>  OBVIOUS
  <2>2. IsAdjacent(a.digraph2, h[e[1]], h[e[2]])  BY <1>2 DEF Wanted, Homomorphism
  <2> QED  BY <2>1, <2>2
<1>6. a.injective = 2 => \A s, t \in V :
        IsAdjacent(a.digraph1, s, t) <=> IsAdjacent(a.digraph2, h[s], h[t])
  BY <1>1, <1>2 DEF Wanted, Embedding
<1>7. /\ << u, v >> \in InternalEdges(a) => IsAdjacent(a.digraph2, m[u], m[v])
      /\ << v, u >> \in InternalEdges(a) => IsAdjacent(a.digraph2, m[v], m[u])
  BY <1>3, <1>4, <1>5
<1>8. a.injective = 2 =>
        /\ << u, v >> \in InternalEdges(a) <=> IsAdjacent(a.digraph2, m[u], m[v])
        /\ << v, u >> \in InternalEdges(a) <=> IsAdjacent(a.digraph2, m[v], m[u])
  BY <1>3, <1>4, <1>6
<1>9. a.injective = 2 =>
        /\ (<< u, v >> \in InternalEdges(a)) = IsAdjacent(a.digraph2, m[u], m[v])
        /\ (<< v, u >> \in InternalEdges(a)) = IsAdjacent(a.digraph2, m[v], m[u])
  BY <1>8 DEF IsAdjacent
<1> QED  BY <1>7, <1>9, Zenon DEF Fits

(* So the value is among those a cell holds, whatever is assigned so far.    *)
LEMMA WantedGood ==
  ASSUME NEW a \in Arguments, NEW h \in WantedMaps(a), NEW m,
         \A v \in Vertices(a.digraph1) : m[v] = h[a.order[v]],
         NEW A \in SUBSET Vertices(a.digraph1), NEW M, \A u \in A : m[u] = M[u],
         NEW v \in Vertices(a.digraph1)
  PROVE  m[v] \in Good(a, M, A, v)
<1>1. m[v] \in BaseRow(a)[v]  BY WantedInBase
<1>2. m[v] \in 0 .. a.digraph2.n - 1  BY WantedEntries DEF Vertices
<1>3. m[v] \in SetBits(BaseRow(a)[v], a.digraph2.n)  BY <1>1, <1>2 DEF SetBits, Meant
<1>4. \A u \in A : Fits(a, m, u, v, m[v])  BY WantedFits
<1>5. \A u \in A : Fits(a, M, u, v, m[v])  BY <1>4 DEF Fits
<1> QED  BY <1>3, <1>5 DEF Good

------------------------------------------------------------------------------
(* What the arguments alone rule out.                                        *)

(* The image is not so large that ImageTooSmall refuses it by mistake.       *)
ImageCounted(a) ==
  a.injective > 0 /\ ImageTooSmall(a) => Cardinality(a.image) < a.digraph1.n

LEMMA WantedRank ==
  ASSUME NEW a \in Arguments, NEW h \in WantedMaps(a)
  PROVE  /\ Cardinality(Range(h)) \in Nat
         /\ Cardinality(Range(h)) <= a.digraph1.n
         /\ Cardinality(Range(h)) <= a.digraph2.n
         /\ Cardinality(Range(h)) <= Cardinality(a.image)
         /\ a.injective > 0 => Cardinality(Range(h)) = a.digraph1.n
         /\ a.hint # UNDEFINED => Cardinality(Range(h)) = a.hint
         /\ IsFiniteSet(Range(h)) /\ Cardinality(a.image) \in Nat
<1>1. PICK W, V, S : W = Vertices(a.digraph1) /\ V = Vertices(a.digraph2) /\ S = Range(h)
  OBVIOUS
<1>2. h \in [W -> V] /\ Wanted(a, h)  BY <1>1 DEF WantedMaps
<1>3. a.digraph1.n \in Nat /\ a.digraph2.n \in Nat  BY ArgumentFacts
<1>4. /\ IsFiniteSet(W) /\ Cardinality(W) = a.digraph1.n
      /\ IsFiniteSet(V) /\ Cardinality(V) = a.digraph2.n
  BY <1>1, <1>3, IntervalFinite DEF Vertices
<1>5. a.image \subseteq V /\ S \subseteq a.image
  BY <1>1, <1>2, ArgumentsAssumption DEF Wanted
<1>6. IsFiniteSet(a.image) /\ Cardinality(a.image) <= a.digraph2.n
  BY <1>4, <1>5, FS_Subset
<1>7. IsFiniteSet(S) /\ Cardinality(S) <= Cardinality(a.image)
  BY <1>5, <1>6, FS_Subset
<1>8. Cardinality(S) \in Nat /\ Cardinality(a.image) \in Nat
  BY <1>6, <1>7, FS_CardinalityType
<1>9. h \in Surjection(W, S)  BY <1>1, <1>2 DEF Surjection, Range
<1>10. Cardinality(S) <= Cardinality(W)  BY <1>4, <1>9, FS_Surjection
<1>11. ASSUME a.injective > 0  PROVE Cardinality(S) = a.digraph1.n
  <2>1. IsInjective(h)  BY <1>2, <1>11 DEF Wanted
  <2>2. h \in Injection(W, S)  BY <1>9, <2>1 DEF Surjection, Injection
  <2> QED  BY <1>4, <1>9, <2>2, FS_Surjection
<1>12. a.hint # UNDEFINED => Cardinality(S) = a.hint  BY <1>1, <1>2 DEF Wanted
<1> QED  BY <1>1, <1>3, <1>4, <1>6, <1>7, <1>8, <1>10, <1>11, <1>12

(* A refused call has nothing to find.                                       *)
LEMMA RefusedRightly ==
  ASSUME NEW a \in Arguments, ImageCounted(a),
         RuledOut(a) \/ ImageTooSmall(a) \/ Clashes(a) # {}
  PROVE  WantedMaps(a) = {}
<1> SUFFICES ASSUME NEW h \in WantedMaps(a)  PROVE FALSE
  OBVIOUS
<1>1. PICK c, m1, m2, i : c = Cardinality(Range(h)) /\ m1 = a.digraph1.n
                          /\ m2 = a.digraph2.n /\ i = Cardinality(a.image)
  OBVIOUS
<1>2. /\ c \in Nat /\ i \in Nat /\ m1 \in Nat /\ m2 \in Nat /\ m1 >= 1
      /\ c <= m1 /\ c <= m2 /\ c <= i
      /\ a.injective > 0 => c = m1
      /\ a.hint # UNDEFINED => c = a.hint
  <2>1. m1 \in Nat /\ m2 \in Nat /\ m1 >= 1  BY <1>1, ArgumentFacts
  <2> QED  BY <1>1, <2>1, WantedRank
<1>3. h \in [Vertices(a.digraph1) -> Vertices(a.digraph2)] /\ Wanted(a, h)
  BY DEF WantedMaps
<1>4. CASE RuledOut(a)
  <2>1. ~ (a.injective > 0 /\ (m1 > m2 \/ (a.hint # UNDEFINED /\ a.hint # m1)))  BY <1>2
  <2>2. ~ (a.hint # UNDEFINED /\ (a.hint > m1 \/ a.hint > m2 \/ a.hint > i))  BY <1>2
  <2>3. a.image # {}
    <3>1. 0 \in Vertices(a.digraph1)  BY <1>1, <1>2 DEF Vertices
    <3>2. h[0] \in a.image  BY <1>3, <3>1 DEF Wanted, Range
    <3> QED  BY <3>2
  <2> QED  BY <1>1, <1>4, <2>1, <2>2, <2>3 DEF RuledOut
<1>5. CASE ImageTooSmall(a)
  <2>1. a.injective > 0  BY <1>5 DEF ImageTooSmall
  <2> QED  BY <1>1, <1>2, <1>5, <2>1 DEF ImageCounted
<1>6. CASE Clashes(a) # {}
  <2>1. a.injective # 0  BY <1>6 DEF Clashes
  <2>2. a.injective > 0  BY <2>1, ArgumentsAssumption
  <2>3. PICK u \in DOMAIN a.partial_map, v \in DOMAIN a.partial_map :
          u < v /\ a.partial_map[u] = a.partial_map[v]
    BY <1>6, <2>1 DEF Clashes
  <2>4. u \in Nat /\ v \in Nat /\ u # v
    <3>1. DOMAIN a.partial_map \in SUBSET Nat  BY ArgumentFacts
    <3> QED  BY <2>3, <3>1
  <2>5. u \in DOMAIN h /\ v \in DOMAIN h /\ h[u] = h[v]
    BY <1>3, <2>3, ArgumentsAssumption DEF Wanted
  <2> QED  BY <1>3, <2>2, <2>4, <2>5 DEF Wanted, IsInjective
<1> QED  BY <1>4, <1>5, <1>6

------------------------------------------------------------------------------
(* What the search still has before it.                                      *)

(* Will the value x have its turn in call k?                                 *)
ToCome(k, x) ==
  \/ x \in SetBits(ToChoose(k), n2) /\ x > stack[k].at
  \/ stack[k].stage = "new" /\ args.injective = 0 /\ x \in ValuesAt(k)

(* The map m is ahead of call k: it agrees with what was assigned when the    *)
(* call began, and the value it has at the vertex of the call is to come.     *)
Ahead(k, m) ==
  /\ stack[k].stage # "leave"
  /\ \A u \in AssignedAt(k) : m[u] = MAP[u]
  /\ stack[k].stage = "pick" => stack[k].at = -1
  /\ stack[k].stage \in { "new", "old" } => ToCome(k, m[stack[k].next])

(* The entries of the partial map are assigned as long as the search runs.   *)
EntriesKept ==
  status = "search" =>
    \A x \in DOMAIN args.partial_map : INVERSE_ORDER[x] \in AssignedAt(1)

(* The maps of which Complete speaks: those of a whole image or for no group. *)
Asked(a) == ClosedGroup(a) /\ WholeImage(a) /\ ImageCounted(a)

Reached(f) == \E i \in 1 .. Len(results) : Equivalent(args, results[i], f)

Pending(h) == \E k \in 1 .. Height : Ahead(k, Internal(h))

(* Every wanted map has been found, up to the group, or one of the maps the   *)
(* group takes to it is ahead of one of the active calls.                     *)
NothingMissed ==
  Asked(args) /\ status \notin { "idle", "jumped" } =>
    \A f \in WantedMaps(args) :
      Reached(f) \/ \E h \in WantedMaps(args) : Equivalent(args, h, f) /\ Pending(h)

LEMMA SoughtValues ==
  ASSUME HInv, Active, NEW h \in WantedMaps(args), NEW m, m = Internal(h)
  PROVE  /\ args \in Arguments
         /\ V1 = Vertices(args.digraph1) /\ V2 = Vertices(args.digraph2)
         /\ \A v \in Vertices(args.digraph1) : m[v] = h[args.order[v]]
         /\ \A v \in V1 : m[v] \in V2 /\ m[v] \in Nat
<1>1. /\ args \in Arguments
      /\ V1 = Vertices(args.digraph1) /\ V2 = Vertices(args.digraph2)
  BY DEF HInv, ActiveRight, ArgsRight, V1, n1, V2, n2, Vertices
<1>2. \A v \in V1 : m[v] = h[args.order[v]]  BY DEF Internal, ORDER
<1>3. \A v \in V1 : m[v] \in V2  BY <1>1, <1>2, WantedEntries
<1>4. V2 \subseteq Nat  BY ActiveFacts
<1> QED  BY <1>1, <1>2, <1>3, <1>4

LEMMA StaysAhead ==
  ASSUME NEW k, NEW m, Ahead(k, m), stack'[k] = stack[k], args' = args, n2' = n2,
         AssignedAt(k)' = AssignedAt(k), ValuesAt(k)' = ValuesAt(k),
         \A u \in AssignedAt(k) : MAP'[u] = MAP[u],
         ToChoose(k)' = ToChoose(k)
  PROVE  Ahead(k, m)'
<1>1. PICK f, A, vals, T, x :
        /\ f = stack[k] /\ A = AssignedAt(k) /\ vals = ValuesAt(k)
        /\ T = SetBits(ToChoose(k), n2) /\ x = m[f.next]
  OBVIOUS
<1>2. /\ f.stage # "leave" /\ \A u \in A : m[u] = MAP[u]
      /\ f.stage = "pick" => f.at = -1
      /\ f.stage \in { "new", "old" } =>
           \/ x \in T /\ x > f.at
           \/ f.stage = "new" /\ args.injective = 0 /\ x \in vals
  BY <1>1 DEF Ahead, ToCome
<1>3. /\ stack'[k] = f /\ AssignedAt(k)' = A /\ ValuesAt(k)' = vals
      /\ \A u \in A : m[u] = MAP'[u]
      /\ SetBits(ToChoose(k)', n2') = T
  BY <1>1, <1>2
<1> QED  BY <1>1, <1>2, <1>3 DEF Ahead, ToCome

(* The steps that stay in a call leave its callers alone ...                 *)
LEMMA OnwardCallers ==
  ASSUME HInv, Active, NEW G, Onward(G), NEW m, NEW k \in 1 .. Height - 1, Ahead(k, m)
  PROVE  k \in 1 .. Height' /\ Ahead(k, m)'
<1>0. PICK h : h = Height  OBVIOUS
<1>1. /\ Height' = h /\ \A j \in 1 .. h - 1 : stack'[j] = stack[j]
      /\ InPlace' = InPlace /\ n2' = n2
      /\ \A j \in 1 .. h : /\ AssignedAt(j)' = AssignedAt(j)
                           /\ ValuesAt(j)' = ValuesAt(j)
                           /\ FrameDepth(j)' = FrameDepth(j)
  BY <1>0, StayEffect DEF Onward
<1>2. /\ h \in Nat \ {0} /\ k \in 1 .. h - 1 /\ k \in 1 .. h /\ h # 1
      /\ FrameDepth(k) \in 0 .. depth - 1
  BY <1>0, ActiveFacts
<1>3. args' = args /\ MAP' = MAP  BY DEF Onward
<1>4. status = "search"
  BY <1>0, <1>2 DEF HInv, ActiveRight, FramesRight, Active
<1>5. ToChoose(k)' = ToChoose(k)
  BY <1>0, <1>1, <1>2, <1>4 DEF ToChoose, Onward
<1>6. Ahead(k, m)'  BY <1>1, <1>2, <1>3, <1>5, StaysAhead
<1> QED  BY <1>1, <1>2, <1>6

(* ... and what they do to the running call is all that has to be looked at. *)
LEMMA OnwardTop ==
  ASSUME HInv, Active, NEW G, Onward(G), NEW m, \A u \in Assigned : m[u] = MAP[u],
         G.stage # "leave", G.stage = "pick" => G.at = -1,
         NEW T, T = IF InPlace THEN get_conditions(conditions', G.next)
                    ELSE BIT_ARRAY_BUFFER'[depth],
         NEW x, x = m[G.next],
         G.stage \in { "new", "old" } =>
           \/ x \in SetBits(T, n2) /\ x > G.at
           \/ G.stage = "new" /\ args.injective = 0 /\ x \in ValuesAt(Height)
  PROVE  \E j \in 1 .. Height' : Ahead(j, m)'
<1>0. PICK h, vals : h = Height /\ vals = ValuesAt(h)  OBVIOUS
<1>1. /\ Height' = h /\ stack'[h] = G /\ InPlace' = InPlace /\ n2' = n2
      /\ AssignedAt(h)' = AssignedAt(h) /\ ValuesAt(h)' = vals
      /\ FrameDepth(h)' = FrameDepth(h)
  <2>1. h \in 1 .. h  BY <1>0, ActiveFacts
  <2> QED  BY <1>0, <2>1, StayEffect DEF Onward
<1>2. h \in 1 .. h /\ FrameDepth(h) = depth /\ AssignedAt(h) = Assigned
  BY <1>0, ActiveFacts
<1>3. args' = args /\ MAP' = MAP  BY DEF Onward
<1>4. ToChoose(h)' = T  BY <1>1, <1>2 DEF ToChoose
<1>5. ToCome(h, x)' <=> \/ x \in SetBits(T, n2) /\ x > G.at
                        \/ G.stage = "new" /\ args.injective = 0 /\ x \in vals
  BY <1>1, <1>3, <1>4 DEF ToCome
<1>6. /\ stack'[h] = G /\ \A u \in AssignedAt(h)' : m[u] = MAP'[u]
      /\ G.stage \in { "new", "old" } => ToCome(h, m[G.next])'
  BY <1>0, <1>1, <1>2, <1>3, <1>5
<1>7. Ahead(h, m)'  BY <1>6 DEF Ahead
<1> QED  BY <1>1, <1>2, <1>7

LEMMA HeightCases ==
  ASSUME HInv, Active, NEW k \in 1 .. Height
  PROVE  /\ k = Height \/ (k \in 1 .. Height - 1 /\ k < Height)
         /\ F = stack[Height] /\ AssignedAt(Height) = Assigned /\ FrameDepth(Height) = depth
         /\ Height \in Nat \ {0} /\ Height \in 1 .. Height
<1>1. Height \in Nat \ {0}  BY ActiveFacts
<1> QED  BY <1>1, ActiveFacts

LEMMA MoveAhead ==
  ASSUME HInv, Enter \/ NarrowOthers \/ Narrowed,
         NEW m, NEW k \in 1 .. Height, Ahead(k, m)
  PROVE  \E j \in 1 .. Height' : Ahead(j, m)'
<1>1. Active
  BY DEF Enter, NarrowOthers, Narrowed, InSearch, Active
<1>2. PICK G : /\ Onward(G) /\ G.stage \notin { "new", "old", "leave" }
               /\ G.stage = "pick" => G.at = -1
  BY MoveOnward
<1>3. CASE k = Height
  <2>1. \A u \in Assigned : m[u] = MAP[u]  BY <1>1, <1>3, HeightCases DEF Ahead
  <2> QED  BY <1>1, <1>2, <2>1, OnwardTop
<1>4. CASE k # Height
  <2>1. k \in 1 .. Height - 1  BY <1>1, <1>4, HeightCases
  <2>2. k \in 1 .. Height' /\ Ahead(k, m)'  BY <1>1, <1>2, <2>1, OnwardCallers
  <2> QED  BY <2>2
<1> QED  BY <1>3, <1>4

(* A vertex that is narrowed keeps the value of a map that is ahead.          *)
LEMMA NarrowLeavesSome ==
  ASSUME CP!IInv, HInv, Active, CellsRight, F.stage \in { "narrow", "narrow2" },
         ToNarrow(Buffer) # {}, NEW v, v = Min(ToNarrow(Buffer)),
         NEW h \in WantedMaps(args), NEW m, m = Internal(h),
         \A u \in Assigned : m[u] = MAP[u]
  PROVE  size_conditions(PartialUpdate(v), v) # 0
<1>1. /\ v \in Left /\ v \notin Pushed /\ Left \subseteq V1 /\ depth \in 1 .. n1 - 1
      /\ n2 \in Nat /\ v \in V1 /\ Assigned \subseteq V1
  BY NextToNarrow, LeftFacts, ActiveFacts
<1>2. /\ args \in Arguments
      /\ V1 = Vertices(args.digraph1) /\ V2 = Vertices(args.digraph2)
      /\ \A u \in Vertices(args.digraph1) : m[u] = h[args.order[u]]
      /\ m[v] \in V2
  BY <1>1, SoughtValues
<1>3. F.pos \in Assigned /\ F.pos \in V1  BY <1>1 DEF CellsRight, PosAssigned
<1>4. PICK A : A = Assigned \ {F.pos}  OBVIOUS
<1>5. m[v] \in Good(args, MAP, A, v)
  <2>1. A \in SUBSET Vertices(args.digraph1) /\ v \in Vertices(args.digraph1)
    BY <1>1, <1>2, <1>4
  <2>2. \A u \in A : m[u] = MAP[u]  BY <1>4
  <2> QED  BY <1>2, <2>1, <2>2, WantedGood
<1>6. m[v] \in SetBits(get_conditions(conditions, v), n2)
      /\ size_conditions(conditions, v) = size_bit_array(get_conditions(conditions, v), n2)
  <2>1. CellRight(args, MAP, CP!CellAt(v, depth), CP!SizeAt(v, depth), v,
                  Known(F, Assigned, v))
    BY <1>1, ColumnsNow DEF Untouched
  <2>2. PICK G : G = [stage |-> F.stage, pos |-> F.pos, at |-> v]  OBVIOUS
  <2>3. Known(F, Assigned, v) = A  BY <1>4, <2>2, OneSettled
  <2>4. /\ CP!CellAt(v, depth) = get_conditions(conditions, v)
        /\ CP!SizeAt(v, depth) = size_conditions(conditions, v)
    BY <1>1, CellNow
  <2> QED  BY <1>5, <2>1, <2>3, <2>4 DEF CellRight, n2
<1>7. Fits(args, MAP, F.pos, v, m[v])
  <2>1. F.pos \in Vertices(args.digraph1) /\ v \in Vertices(args.digraph1)
    BY <1>1, <1>2, <1>3
  <2>2. Fits(args, m, F.pos, v, m[v])  BY <1>2, <2>1, WantedFits
  <2>3. m[F.pos] = MAP[F.pos]  BY <1>3
  <2> QED  BY <2>2, <2>3 DEF Fits
<1>8. \A S : m[v] \in SetBits(S, n2) => size_bit_array(S, n2) # 0
  <2> SUFFICES ASSUME NEW S, m[v] \in SetBits(S, n2)  PROVE size_bit_array(S, n2) # 0
    OBVIOUS
  <2>1. m[v] \in S \cap Covered(n2)  BY <1>1, MeantInCovered DEF SetBits
  <2>2. IsFiniteSet(Covered(n2))
    <3>1. number_of_blocks(n2) \in Nat  BY <1>1, BlocksMonotone
    <3>2. PICK e : e = BlockBits * number_of_blocks(n2)  OBVIOUS
    <3>3. e \in Nat  BY <3>1, <3>2, BlockBitsAssumption
    <3>4. Covered(n2) = 0 .. e - 1  BY <3>2 DEF Covered
    <3> QED  BY <3>3, <3>4, IntervalFinite
  <2>3. IsFiniteSet(S \cap Covered(n2))  BY <2>2, FS_Subset
  <2>4. Cardinality(S \cap Covered(n2)) # 0  BY <2>1, <2>3, FS_EmptySet
  <2> QED  BY <2>4 DEF size_bit_array
<1>9. PICK p : p = PartialUpdate(v)  OBVIOUS
<1>10. CASE p = conditions  BY <1>6, <1>8, <1>9, <1>10
<1>11. CASE \E b \in SUBSET Bits : /\ p = PushedWith(conditions, depth, v, b)
                                   /\ \A w \in V2 : w \in b <=> Fits(args, MAP, F.pos, v, w)
  <2>1. PICK b \in SUBSET Bits : /\ p = PushedWith(conditions, depth, v, b)
                                 /\ \A w \in V2 : w \in b <=> Fits(args, MAP, F.pos, v, w)
    BY <1>11
  <2>2. /\ get_conditions(p, v) = intersect_bit_arrays(get_conditions(conditions, v), b, n2)
        /\ size_conditions(p, v) = size_bit_array(get_conditions(p, v), n2)
    BY <1>1, <2>1, PushedTop
  <2>3. SetBits(get_conditions(p, v), n2) = SetBits(get_conditions(conditions, v), n2) \cap b
    BY <1>1, <2>2, BitsMeant
  <2>4. m[v] \in SetBits(get_conditions(p, v), n2)  BY <1>2, <1>6, <1>7, <2>1, <2>3
  <2> QED  BY <1>8, <1>9, <2>2, <2>4
<1> QED  BY <1>9, <1>10, <1>11, UpdateFits

LEMMA NarrowAhead ==
  ASSUME CP!IInv, HInv, CellsRight, NEW v, NarrowTo(PartialUpdate(v), v),
         NEW h \in WantedMaps(args), NEW m, m = Internal(h),
         NEW k \in 1 .. Height, Ahead(k, m)
  PROVE  \E j \in 1 .. Height' : Ahead(j, m)'
<1>1. /\ Active /\ status = "search" /\ F.stage \in { "narrow", "narrow2" }
      /\ ToNarrow(Buffer) # {} /\ v = Min(ToNarrow(Buffer))
  BY DEF NarrowTo, InSearch, Active, Buffer
<1>2. PICK G : /\ Onward(G) /\ G.stage \notin { "new", "old" }
               /\ G.stage = IF size_conditions(PartialUpdate(v), v) = 0 THEN "leave"
                            ELSE F.stage
  BY NarrowOnward
<1>3. CASE k = Height
  <2>1. \A u \in Assigned : m[u] = MAP[u]  BY <1>1, <1>3, HeightCases DEF Ahead
  <2>2. size_conditions(PartialUpdate(v), v) # 0  BY <1>1, <2>1, NarrowLeavesSome
  <2>3. G.stage \notin { "new", "old", "leave", "pick" }  BY <1>1, <1>2, <2>2
  <2> QED  BY <1>1, <1>2, <2>1, <2>3, OnwardTop
<1>4. CASE k # Height
  <2>1. k \in 1 .. Height - 1  BY <1>1, <1>4, HeightCases
  <2>2. k \in 1 .. Height' /\ Ahead(k, m)'  BY <1>1, <1>2, <2>1, OnwardCallers
  <2> QED  BY <2>2
<1> QED  BY <1>3, <1>4

------------------------------------------------------------------------------
(* A vertex is picked.                                                       *)

(* The map g may take the place of h: it is wanted, and what is equivalent   *)
(* to h is equivalent to g.                                                  *)
Replaces(g, h) ==
  g \in WantedMaps(args) /\ \A f : Equivalent(args, h, f) => Equivalent(args, g, f)

LEMMA CellHoldsValue ==
  ASSUME CP!IInv, HInv, CellsRight, status = "search", F.stage \in { "pick", "new" },
         NEW v \in Left, Untouched(F, v),
         NEW h \in WantedMaps(args), NEW m, m = Internal(h), \A u \in Assigned : m[u] = MAP[u]
  PROVE  m[v] \in SetBits(get_conditions(conditions, v), n2)
<1>0. Active  BY DEF Active
<1>1. v \in V1 /\ Assigned \subseteq V1  BY <1>0, ActiveFacts DEF Left
<1>2. /\ args \in Arguments /\ V1 = Vertices(args.digraph1)
      /\ \A u \in Vertices(args.digraph1) : m[u] = h[args.order[u]]
  BY <1>0, SoughtValues
<1>3. PICK A : A = Assigned  OBVIOUS
<1>4. m[v] \in Good(args, MAP, A, v)
  <2>1. A \in SUBSET Vertices(args.digraph1) /\ v \in Vertices(args.digraph1)
    BY <1>1, <1>2, <1>3
  <2>2. \A u \in A : m[u] = MAP[u]  BY <1>3
  <2> QED  BY <1>2, <2>1, <2>2, WantedGood
<1>5. CellRight(args, MAP, CP!CellAt(v, depth), CP!SizeAt(v, depth), v,
                Known(F, Assigned, v))
  BY <1>0, ColumnsNow
<1>6. Known(F, Assigned, v) = A  BY <1>3 DEF Known, Settled
<1>7. CP!CellAt(v, depth) = get_conditions(conditions, v)  BY <1>0, <1>1, CellNow
<1> QED  BY <1>4, <1>5, <1>6, <1>7 DEF CellRight, n2

(* A value that is not taken is taken by the group to one that is tried.      *)
LEMMA TakenToTried ==
  ASSUME CP!IInv, HInv, StabsRight, CellsRight, EntriesKept, Asked(args),
         status = "search", F.stage \in { "pick", "new" },
         NEW v \in Left, Untouched(F, v),
         NEW h \in WantedMaps(args), NEW m, m = Internal(h), \A u \in Assigned : m[u] = MAP[u],
         m[v] \notin ValuesAt(Height)
  PROVE  \E g, mg :
           /\ Replaces(g, h) /\ mg = Internal(g) /\ \A u \in Assigned : mg[u] = MAP[u]
           /\ mg[v] \in SetBits(get_conditions(conditions, v), n2)
           /\ mg[v] \in REPS[F.rep_depth] /\ mg[v] \notin VALS
<1>0. Active  BY DEF Active
<1>1. /\ v \in V1 /\ Assigned \subseteq V1 /\ Height \in 1 .. Height /\ F = stack[Height]
      /\ FrameDepth(Height) = depth /\ depth < n1
  BY <1>0, ActiveFacts DEF Left, HInv, ActiveRight, FramesRight
<1>2. /\ args \in Arguments
      /\ V1 = Vertices(args.digraph1) /\ V2 = Vertices(args.digraph2)
      /\ \A u \in Vertices(args.digraph1) : m[u] = h[args.order[u]]
      /\ \A u \in V1 : m[u] \in V2
  BY <1>0, SoughtValues
<1>3. PICK a, vals, y : a = args /\ vals = ValuesAt(Height) /\ y = m[v]  OBVIOUS
<1>4. /\ a \in Arguments /\ ClosedGroup(a) /\ WholeImage(a)
      /\ V1 = Vertices(a.digraph1) /\ V2 = Vertices(a.digraph2) /\ h \in WantedMaps(a)
      /\ \A u \in Vertices(a.digraph1) : m[u] = h[a.order[u]]
  BY <1>2, <1>3 DEF Asked
<1>5. vals \in SUBSET Vertices(a.digraph2) /\ y \in a.image /\ y \notin vals
  <2>1. vals \subseteq V2  BY <1>0, <1>3, ValuesFinite
  <2>2. v \in Vertices(a.digraph1)  BY <1>1, <1>4
  <2>3. m[v] \in a.image  BY <1>4, <2>2, WantedEntries
  <2> QED  BY <1>3, <1>4, <2>1, <2>3
<1>6. PICK p \in Fixing(Group(a), vals) : p[y] \in Classes(a, vals) /\ p[y] \notin vals
  BY <1>4, <1>5, Representative
<1>7. p \in Group(a) /\ \A w \in vals : p[w] = w  BY <1>6 DEF Fixing
<1>8. \A u \in Assigned : p[MAP[u]] = MAP[u]
  <2>1. vals = { MAP[u] : u \in Assigned }
    BY <1>0, <1>1, <1>3, ActiveFacts DEF ValuesAt
  <2> QED  BY <1>7, <2>1
<1>9. \A x \in DOMAIN a.partial_map : p[h[x]] = h[x]
  <2> SUFFICES ASSUME NEW x \in DOMAIN a.partial_map  PROVE p[h[x]] = h[x]
    OBVIOUS
  <2>1. PICK u : u = InverseOrder(a)[x]  OBVIOUS
  <2>2. u \in Assigned  BY <1>3, <2>1 DEF EntriesKept, INVERSE_ORDER, AssignedAt
  <2>3. h[x] = a.partial_map[x] /\ m[u] = a.partial_map[x]
    BY <1>4, <2>1, WantedEntries
  <2>4. h[x] = MAP[u]  BY <2>2, <2>3
  <2> QED  BY <1>8, <2>2, <2>4
<1>10. PICK g : g = Moved(p, h)  OBVIOUS
<1>11. h \in [Vertices(a.digraph1) -> Vertices(a.digraph2)]  BY <1>4 DEF WantedMaps
<1>12. g \in WantedMaps(a)  BY <1>4, <1>7, <1>9, <1>10, MovedWanted
<1>13. \A f : Equivalent(a, h, f) => Equivalent(a, g, f)
  BY <1>4, <1>7, <1>10, <1>11, MovedEquivalent
<1>14. Replaces(g, h)  BY <1>3, <1>12, <1>13 DEF Replaces
<1>15. PICK mg : mg = Internal(g)  OBVIOUS
<1>16. \A u \in V1 : mg[u] = p[m[u]]
  <2> SUFFICES ASSUME NEW u \in V1  PROVE mg[u] = p[m[u]]
    OBVIOUS
  <2>1. PICK x : x = a.order[u]  OBVIOUS
  <2>2. x \in DOMAIN h  BY <1>4, <1>11, <2>1, Renumbered
  <2>3. mg[u] = g[x]  BY <1>3, <1>15, <2>1 DEF Internal, ORDER
  <2>4. g[x] = p[h[x]]  BY <1>10, <2>2 DEF Moved
  <2>5. m[u] = h[x]  BY <1>4, <2>1
  <2> QED  BY <2>3, <2>4, <2>5
<1>17. \A u \in Assigned : mg[u] = MAP[u]  BY <1>1, <1>8, <1>16
<1>18. mg[v] = p[y]  BY <1>1, <1>3, <1>16
<1>19. mg[v] \in SetBits(get_conditions(conditions, v), n2)
  <2>1. g \in WantedMaps(args)  BY <1>3, <1>12
  <2> QED  BY <1>15, <1>17, <2>1, CellHoldsValue
<1>20. mg[v] \in REPS[F.rep_depth]
  <2>1. LevelRight(Height)  BY <1>0, <1>1 DEF StabsRight
  <2>2. SetBits(REPS[F.rep_depth], n2) \ vals = Classes(a, vals)
    BY <1>1, <1>3, <2>1 DEF LevelRight, LevelOf, Classes, n2
  <2> QED  BY <1>6, <1>18, <2>2 DEF SetBits
<1>21. mg[v] \notin VALS
  <2>1. SetBits(VALS, n2) = vals  BY <1>0, <1>3 DEF HInv, ActiveRight, MapRight
  <2>2. mg[v] \in Meant(n2)  BY <1>19 DEF SetBits
  <2> QED  BY <1>6, <1>18, <2>1, <2>2 DEF SetBits
<1> QED  BY <1>14, <1>15, <1>17, <1>19, <1>20, <1>21

(* An injective map has no value twice.                                      *)
LEMMA ValueTakenOnce ==
  ASSUME HInv, Active, args.injective > 0, NEW v \in Left,
         NEW h \in WantedMaps(args), NEW m, m = Internal(h), \A u \in Assigned : m[u] = MAP[u]
  PROVE  m[v] \notin ValuesAt(Height)
<1> SUFFICES ASSUME m[v] \in ValuesAt(Height)  PROVE FALSE
  OBVIOUS
<1>1. v \in V1 /\ v \notin Assigned /\ Assigned \subseteq V1 /\ AssignedAt(Height) = Assigned
  BY ActiveFacts DEF Left
<1>2. PICK u \in Assigned : m[v] = MAP[u]  BY <1>1 DEF ValuesAt
<1>3. m[u] = m[v]  BY <1>2
<1>4. /\ args \in Arguments /\ V1 = Vertices(args.digraph1)
      /\ \A x \in Vertices(args.digraph1) : m[x] = h[args.order[x]]
  BY SoughtValues
<1>5. \A s, t \in Vertices(args.digraph1) : m[s] = m[t] => s = t  BY <1>4, WantedEntries
<1> QED  BY <1>1, <1>3, <1>4, <1>5

LEMMA PickedStage ==
  ASSUME CP!IInv, HInv, status = "search", F.stage = "pick", NEW s,
         Running([Chosen EXCEPT !.stage = s]), UNCHANGED << depth, MAP, args >>
  PROVE  F'.stage = s
<1>1. Active  BY DEF Active
<1>2. Chosen \in FrameType  BY <1>1, ChosenRight
<1>3. PICK G : G = [Chosen EXCEPT !.stage = s]  OBVIOUS
<1>4. stack' = Append(Front(stack), G) /\ UNCHANGED << depth, MAP, args >>
  BY <1>3 DEF Running
<1>5. F' = G  BY <1>1, <1>4, StayEffect
<1>6. G.stage = s  BY <1>2, <1>3 DEF FrameType
<1> QED  BY <1>5, <1>6

(* The loop over the new values has the value before it, or a representative  *)
(* of it, or leaves it to the loop over the old ones.                         *)
LEMMA NewTop ==
  ASSUME CP!IInv, HInv, StabsRight, CellsRight, EntriesKept, Asked(args),
         status = "search", F.stage = "pick",
         NEW G, Onward(G), G.stage = "new", G.next \in Left, G.at = F.at, F.at = -1,
         NEW T, T = IF InPlace THEN get_conditions(conditions', G.next)
                    ELSE BIT_ARRAY_BUFFER'[depth],
         SetBits(T, n2) = (SetBits(get_conditions(conditions, G.next), n2) \ VALS)
                            \cap REPS[F.rep_depth],
         NEW h \in WantedMaps(args), NEW m, m = Internal(h), \A u \in Assigned : m[u] = MAP[u]
  PROVE  \E g, mg : /\ Replaces(g, h) /\ mg = Internal(g)
                    /\ \E j \in 1 .. Height' : Ahead(j, mg)'
<1>0. Active  BY DEF Active
<1>1. PICK v : v = G.next  OBVIOUS
<1>2. v \in Left /\ Untouched(F, v)  BY <1>1 DEF Untouched
<1>3. CASE m[v] \in ValuesAt(Height)
  <2>1. args.injective = 0
    <3>1. args.injective \in 0 .. 2
      BY <1>0, ArgumentsAssumption DEF HInv, ActiveRight, ArgsRight
    <3>2. ~ (args.injective > 0)  BY <1>0, <1>2, <1>3, ValueTakenOnce
    <3> QED  BY <3>1, <3>2
  <2>2. PICK x : x = m[G.next]  OBVIOUS
  <2>3. G.stage = "new" /\ args.injective = 0 /\ x \in ValuesAt(Height)
    BY <1>1, <1>3, <2>1, <2>2
  <2>4. \E j \in 1 .. Height' : Ahead(j, m)'  BY <1>0, <2>2, <2>3, OnwardTop
  <2>5. Replaces(h, h)  BY DEF Replaces
  <2> QED  BY <2>4, <2>5
<1>4. CASE m[v] \notin ValuesAt(Height)
  <2>1. PICK g, mg :
           /\ Replaces(g, h) /\ mg = Internal(g) /\ \A u \in Assigned : mg[u] = MAP[u]
           /\ mg[v] \in SetBits(get_conditions(conditions, v), n2)
           /\ mg[v] \in REPS[F.rep_depth] /\ mg[v] \notin VALS
    BY <1>2, <1>4, TakenToTried
  <2>2. PICK x : x = mg[G.next]  OBVIOUS
  <2>3. x \in SetBits(T, n2)  BY <1>1, <2>1, <2>2
  <2>4. x > G.at
    <3>1. x \in 0 .. n2 - 1 /\ n2 \in Nat  BY <1>0, <2>3, ActiveFacts DEF SetBits, Meant
    <3> QED  BY <3>1
  <2>5. G.stage # "leave" /\ (G.stage = "pick" => G.at = -1)  OBVIOUS
  <2>6. \E j \in 1 .. Height' : Ahead(j, mg)'  BY <1>0, <2>1, <2>2, <2>3, <2>4, <2>5, OnwardTop
  <2> QED  BY <2>1, <2>6
<1> QED  BY <1>3, <1>4

LEMMA PickNewAhead ==
  ASSUME CP!IInv, HInv, StabsRight, CellsRight, EntriesKept, Asked(args), ~ InPlace,
         Pick("new", NewValues),
         NEW h \in WantedMaps(args), NEW m, m = Internal(h), NEW k \in 1 .. Height, Ahead(k, m)
  PROVE  \E g, mg : /\ Replaces(g, h) /\ mg = Internal(g)
                    /\ \E j \in 1 .. Height' : Ahead(j, mg)'
<1>1. status = "search" /\ F.stage = "pick" /\ Active  BY DEF Pick, InSearch, Active
<1>2. PICK G, x :
        /\ Onward(G) /\ G.next \in Left /\ BIT_ARRAY_BUFFER'[depth] = x
        /\ \/ /\ F.stage = "pick" /\ G.stage = "new" /\ x = NewValues(G.next)
              /\ G.at = F.at
           \/ G.stage = "old"
  BY PickOnward
<1>3. F' = G  BY <1>1, <1>2, StayEffect DEF Onward
<1>4. F'.stage = "new"
  <2>1. Running([Chosen EXCEPT !.stage = "new"]) /\ UNCHANGED << depth, MAP, args >>
    BY DEF Pick
  <2> QED  BY <1>1, <2>1, PickedStage
<1>5. G.stage = "new" /\ x = NewValues(G.next) /\ G.at = F.at  BY <1>2, <1>3, <1>4
<1>6. CASE k = Height
  <2>1. F = stack[k] /\ AssignedAt(k) = Assigned  BY <1>1, <1>6, HeightCases
  <2>2. F.at = -1 /\ \A u \in Assigned : m[u] = MAP[u]  BY <1>1, <2>1 DEF Ahead
  <2>3. SetBits(x, n2) = (SetBits(get_conditions(conditions, G.next), n2) \ VALS)
                           \cap REPS[F.rep_depth]
    BY <1>1, <1>5, NewValuesMeant
  <2>4. PICK T : T = IF InPlace THEN get_conditions(conditions', G.next)
                     ELSE BIT_ARRAY_BUFFER'[depth]
    OBVIOUS
  <2>5. T = x  BY <1>2, <2>4
  <2> QED  BY <1>1, <1>2, <1>5, <2>2, <2>3, <2>4, <2>5, NewTop
<1>7. CASE k # Height
  <2>1. k \in 1 .. Height - 1  BY <1>1, <1>7, HeightCases
  <2>2. k \in 1 .. Height' /\ Ahead(k, m)'  BY <1>1, <1>2, <2>1, OnwardCallers
  <2>3. Replaces(h, h)  BY DEF Replaces
  <2> QED  BY <2>2, <2>3
<1> QED  BY <1>6, <1>7

LEMMA PickInPlaceAhead ==
  ASSUME CP!IInv, HInv, StabsRight, CellsRight, EntriesKept, Asked(args), InPlace,
         PickInPlace,
         NEW h \in WantedMaps(args), NEW m, m = Internal(h), NEW k \in 1 .. Height, Ahead(k, m)
  PROVE  \E g, mg : /\ Replaces(g, h) /\ mg = Internal(g)
                    /\ \E j \in 1 .. Height' : Ahead(j, mg)'
<1>1. PICK G :
        /\ Onward(G) /\ G.stage = "new" /\ G.next \in Left /\ G.at = F.at
        /\ status = "search" /\ Active /\ F.stage = "pick"
        /\ SetBits(get_conditions(conditions', G.next), n2)
             = SetBits(get_conditions(conditions, G.next), n2)
                 \cap (REPS[F.rep_depth] \cap (Bits \ VALS))
  BY PickInPlaceOnward
<1>2. CASE k = Height
  <2>1. F = stack[k] /\ AssignedAt(k) = Assigned  BY <1>1, <1>2, HeightCases
  <2>2. F.at = -1 /\ \A u \in Assigned : m[u] = MAP[u]  BY <1>1, <2>1 DEF Ahead
  <2>3. PICK T : T = IF InPlace THEN get_conditions(conditions', G.next)
                     ELSE BIT_ARRAY_BUFFER'[depth]
    OBVIOUS
  <2>4. PICK c, r : c = SetBits(get_conditions(conditions, G.next), n2)
                    /\ r = REPS[F.rep_depth]
    OBVIOUS
  <2>5. SetBits(T, n2) = c \cap (r \cap (Bits \ VALS))  BY <1>1, <2>3, <2>4
  <2>6. c \subseteq Bits
    <3>1. Meant(n2) \subseteq Bits  BY <1>1, ActiveFacts DEF V2, Meant
    <3> QED  BY <2>4, <3>1 DEF SetBits
  <2>7. SetBits(T, n2) = (c \ VALS) \cap r  BY <2>5, <2>6
  <2>8. SetBits(T, n2) = (SetBits(get_conditions(conditions, G.next), n2) \ VALS)
                           \cap REPS[F.rep_depth]
    BY <2>4, <2>7
  <2> QED  BY <1>1, <2>2, <2>3, <2>8, NewTop
<1>3. CASE k # Height
  <2>1. k \in 1 .. Height - 1  BY <1>1, <1>3, HeightCases
  <2>2. k \in 1 .. Height' /\ Ahead(k, m)'  BY <1>1, <2>1, OnwardCallers
  <2>3. Replaces(h, h)  BY DEF Replaces
  <2> QED  BY <2>2, <2>3
<1> QED  BY <1>2, <1>3

(* When as many values are taken as the rank allows, a wanted map has no      *)
(* others.                                                                   *)
LEMMA ValuesAreAll ==
  ASSUME HInv, Active, F.rank >= args.hint,
         NEW h \in WantedMaps(args), NEW m, m = Internal(h), \A u \in Assigned : m[u] = MAP[u],
         NEW v \in V1
  PROVE  m[v] \in ValuesAt(Height)
<1>1. /\ args \in Arguments /\ V1 = Vertices(args.digraph1) /\ V2 = Vertices(args.digraph2)
      /\ \A x \in Vertices(args.digraph1) : m[x] = h[args.order[x]]
      /\ Assigned \subseteq V1 /\ AssignedAt(Height) = Assigned
      /\ n2 \in Nat /\ n2 < UNDEFINED
  BY SoughtValues, ActiveFacts DEF UNDEFINED
<1>2. PICK S, vals : S = Range(h) /\ vals = ValuesAt(Height)  OBVIOUS
<1>3. h \in [V1 -> V2]  BY <1>1 DEF WantedMaps
<1>4. \A u \in V1 : m[u] \in S
  <2> SUFFICES ASSUME NEW u \in V1  PROVE m[u] \in S
    OBVIOUS
  <2>1. args.order[u] \in V1  BY <1>1, Renumbered
  <2> QED  BY <1>1, <1>2, <1>3, <2>1 DEF Range
<1>5. vals \subseteq S
  <2>1. \A u \in Assigned : MAP[u] \in S  BY <1>1, <1>4
  <2> QED  BY <1>1, <1>2, <2>1 DEF ValuesAt
<1>6. IsFiniteSet(S) /\ Cardinality(S) \in Nat  BY <1>1, <1>2, WantedRank
<1>7. IsFiniteSet(vals) /\ Cardinality(vals) \in Nat /\ Cardinality(vals) <= Cardinality(S)
  BY <1>5, <1>6, FS_Subset, FS_CardinalityType
<1>8. F.rank = Cardinality(vals)  BY <1>2, ValuesFinite
<1>9. Cardinality(S) <= n2  BY <1>1, <1>2, WantedRank DEF n2
<1>10. args.hint = Cardinality(S)
  <2>1. CASE args.hint = UNDEFINED
    <3>1. Cardinality(vals) >= UNDEFINED /\ UNDEFINED \in Nat  BY <1>8, <2>1 DEF UNDEFINED
    <3> QED  BY <1>1, <1>6, <1>7, <1>9, <3>1
  <2>2. CASE args.hint # UNDEFINED  BY <1>1, <1>2, <2>2, WantedRank
  <2> QED  BY <2>1, <2>2
<1>11. Cardinality(vals) = Cardinality(S)  BY <1>6, <1>7, <1>8, <1>10
<1>12. vals = S  BY <1>5, <1>6, <1>11, FS_Subset
<1> QED  BY <1>2, <1>4, <1>12

LEMMA OldValuesMeant ==
  ASSUME HInv, Active, NEW v
  PROVE  SetBits(OldValues(v), n2) = SetBits(get_conditions(conditions, v), n2) \cap VALS
<1>1. PICK b, cell, n, V :
        /\ b = BIT_ARRAY_BUFFER[depth] /\ cell = get_conditions(conditions, v) /\ n = n2
        /\ V = VALS /\ n \in Nat
  BY ActiveFacts
<1>2. PICK y, S : y = copy_bit_array(b, cell, n) /\ S = intersect_bit_arrays(y, V, n)
  OBVIOUS
<1>3. SetBits(S, n) = SetBits(cell, n) \cap V  BY <1>1, <1>2, BitsMeant
<1>4. OldValues(v) = S  BY <1>1, <1>2 DEF OldValues, Among
<1> QED  BY <1>1, <1>3, <1>4

(* The loop over the old values has the value before it.                     *)
LEMMA OldTop ==
  ASSUME CP!IInv, HInv, CellsRight, status = "search", F.stage \in { "pick", "new" }, ~ InPlace,
         NEW G, Onward(G), G.stage = "old", G.next \in Left, G.at = -1,
         BIT_ARRAY_BUFFER'[depth] = OldValues(G.next),
         NEW h \in WantedMaps(args), NEW m, m = Internal(h), \A u \in Assigned : m[u] = MAP[u],
         m[G.next] \in ValuesAt(Height)
  PROVE  \E j \in 1 .. Height' : Ahead(j, m)'
<1>0. Active  BY DEF Active
<1>1. PICK v, x, T : v = G.next /\ x = m[v] /\ T = OldValues(v)  OBVIOUS
<1>2. v \in Left /\ Untouched(F, v)  BY <1>1 DEF Untouched
<1>3. x \in SetBits(get_conditions(conditions, v), n2)  BY <1>1, <1>2, CellHoldsValue
<1>4. x \in VALS
  <2>1. SetBits(VALS, n2) = ValuesAt(Height)  BY <1>0 DEF HInv, ActiveRight, MapRight
  <2> QED  BY <1>1, <2>1 DEF SetBits
<1>5. x \in SetBits(T, n2)  BY <1>0, <1>1, <1>3, <1>4, OldValuesMeant
<1>6. x > G.at
  <2>1. x \in 0 .. n2 - 1 /\ n2 \in Nat  BY <1>0, <1>3, ActiveFacts DEF SetBits, Meant
  <2> QED  BY <2>1
<1>7. T = IF InPlace THEN get_conditions(conditions', G.next) ELSE BIT_ARRAY_BUFFER'[depth]
  BY <1>1
<1>8. G.stage # "leave" /\ (G.stage = "pick" => G.at = -1)  OBVIOUS
<1>9. x = m[G.next]  BY <1>1
<1> QED  BY <1>0, <1>5, <1>6, <1>7, <1>8, <1>9, OnwardTop

LEMMA PickOldAhead ==
  ASSUME CP!IInv, HInv, CellsRight, ~ InPlace, F.rank >= args.hint, Pick("old", OldValues),
         NEW h \in WantedMaps(args), NEW m, m = Internal(h), NEW k \in 1 .. Height, Ahead(k, m)
  PROVE  \E j \in 1 .. Height' : Ahead(j, m)'
<1>1. status = "search" /\ F.stage = "pick" /\ Active  BY DEF Pick, InSearch, Active
<1>2. PICK G, x :
        /\ Onward(G) /\ G.next \in Left /\ BIT_ARRAY_BUFFER'[depth] = x
        /\ \/ G.stage = "new"
           \/ /\ F.stage = "pick" /\ G.stage = "old" /\ x = OldValues(G.next)
              /\ G.at = F.at
           \/ F.stage = "new"
  BY PickOnward
<1>3. F' = G  BY <1>1, <1>2, StayEffect DEF Onward
<1>4. F'.stage = "old"
  <2>1. Running([Chosen EXCEPT !.stage = "old"]) /\ UNCHANGED << depth, MAP, args >>
    BY DEF Pick
  <2> QED  BY <1>1, <2>1, PickedStage
<1>5. G.stage = "old" /\ x = OldValues(G.next) /\ G.at = F.at  BY <1>1, <1>2, <1>3, <1>4
<1>6. CASE k = Height
  <2>1. F = stack[k] /\ AssignedAt(k) = Assigned  BY <1>1, <1>6, HeightCases
  <2>2. F.at = -1 /\ \A u \in Assigned : m[u] = MAP[u]  BY <1>1, <2>1 DEF Ahead
  <2>3. G.next \in V1  BY <1>2 DEF Left
  <2>4. m[G.next] \in ValuesAt(Height)  BY <1>1, <2>2, <2>3, ValuesAreAll
  <2> QED  BY <1>1, <1>2, <1>5, <2>2, <2>4, OldTop
<1>7. CASE k # Height
  <2>1. k \in 1 .. Height - 1  BY <1>1, <1>7, HeightCases
  <2>2. k \in 1 .. Height' /\ Ahead(k, m)'  BY <1>1, <1>2, <2>1, OnwardCallers
  <2> QED  BY <2>2
<1> QED  BY <1>6, <1>7

LEMMA TurnAhead ==
  ASSUME CP!IInv, HInv, CellsRight, ~ InPlace, TurnToOld,
         NEW h \in WantedMaps(args), NEW m, m = Internal(h), NEW k \in 1 .. Height, Ahead(k, m)
  PROVE  \E j \in 1 .. Height' : Ahead(j, m)'
<1>1. status = "search" /\ F.stage = "new" /\ Active /\ ToTry(BIT_ARRAY_BUFFER[depth]) = {}
  BY DEF TurnToOld, InSearch, Active
<1>2. PICK G, x :
        /\ Onward(G) /\ G.next \in Left /\ BIT_ARRAY_BUFFER'[depth] = x
        /\ \/ F.stage = "pick"
           \/ /\ F.stage = "new" /\ G.stage = "old" /\ x = OldValues(G.next)
              /\ G.next = F.next /\ G.at = -1
  BY PickOnward
<1>3. G.stage = "old" /\ x = OldValues(G.next) /\ G.next = F.next /\ G.at = -1
  BY <1>1, <1>2
<1>4. CASE k = Height
  <2>1. F = stack[k] /\ AssignedAt(k) = Assigned /\ FrameDepth(k) = depth
    BY <1>1, <1>4, HeightCases
  <2>2. ToCome(k, m[F.next]) /\ \A u \in Assigned : m[u] = MAP[u]
    BY <1>1, <2>1 DEF Ahead
  <2>3. ToChoose(k) = BIT_ARRAY_BUFFER[depth]  BY <2>1 DEF ToChoose
  <2>4. ~ (m[F.next] \in SetBits(ToChoose(k), n2) /\ m[F.next] > F.at)
    BY <1>1, <2>3 DEF ToTry, Above
  <2>5. m[G.next] \in ValuesAt(Height)  BY <1>3, <1>4, <2>1, <2>2, <2>4 DEF ToCome
  <2> QED  BY <1>1, <1>2, <1>3, <2>2, <2>5, OldTop
<1>5. CASE k # Height
  <2>1. k \in 1 .. Height - 1  BY <1>1, <1>5, HeightCases
  <2>2. k \in 1 .. Height' /\ Ahead(k, m)'  BY <1>1, <1>2, <2>1, OnwardCallers
  <2> QED  BY <2>2
<1> QED  BY <1>4, <1>5

------------------------------------------------------------------------------
(* A value is tried: the least one that is to come.                          *)

LEMMA LeastIsTried ==
  ASSUME HInv, Active, F.next \in Left, NEW possible, ToTry(possible) # {},
         NEW x, x = Min(ToTry(possible)), MAP' = [MAP EXCEPT ![F.next] = x],
         NEW w, MAP' = [MAP EXCEPT ![F.next] = w]
  PROVE  \A y \in ToTry(possible) : w <= y
<1>1. F.next \in DOMAIN MAP
  <2>1. F.next \in 0 .. Size - 1  BY ActiveFacts DEF Left
  <2> QED  BY <2>1 DEF HInv, Fields
<1>2. PICK v, M : v = F.next /\ M = MAP  OBVIOUS
<1>3. x = w
  <2>1. MAP'[v] = x  BY <1>1, <1>2
  <2>2. MAP'[v] = w  BY <1>1, <1>2
  <2> QED  BY <2>1, <2>2
<1>4. PICK T : T = ToTry(possible)  OBVIOUS
<1>5. T \in SUBSET Nat
  <2>1. n2 \in Nat  BY ActiveFacts
  <2> QED  BY <1>4, <2>1 DEF ToTry, Above, SetBits, Meant
<1>6. \A y \in T : Min(T) <= y  BY <1>4, <1>5, MinIsLeast
<1> QED  BY <1>3, <1>4, <1>6

LEMMA CallAhead ==
  ASSUME HInv, status = "search", depth < n1, F.stage \in { "new", "old" },
         NEW G, NEW H, NEW w \in V2, w \in SetBits(ToChoose(Height), n2),
         CallStep(G, H, F.next, w), \A y \in ToTry(ToChoose(Height)) : w <= y,
         NEW h \in WantedMaps(args), NEW m, m = Internal(h), NEW k \in 1 .. Height, Ahead(k, m)
  PROVE  \E j \in 1 .. Height' : Ahead(j, m)'
<1>0. Active  BY DEF Active
<1>1. PICK e, vals, T, x : /\ e = Height /\ vals = ValuesAt(e) /\ T = SetBits(ToChoose(e), n2)
                           /\ x = m[F.next]
  OBVIOUS
<1>2. /\ e \in Nat \ {0} /\ e \in 1 .. e /\ F = stack[e] /\ AssignedAt(e) = Assigned
      /\ k = e \/ (k \in 1 .. e - 1 /\ k < e)
      /\ k \in 1 .. e + 1 /\ e + 1 \in 1 .. e + 1
      /\ F.at \in Int /\ V2 \subseteq Nat /\ w \in Nat
  BY <1>0, <1>1, ActiveFacts DEF FrameType
<1>3. F.next \in Left /\ SetBits(MAP_UNDEFINED[depth], n1) = Left
  BY <1>0, LeftFacts DEF HInv, ActiveRight, TopRight, TriesOf
<1>4. /\ MAP' = [MAP EXCEPT ![F.next] = w] /\ VALS' = set_bit_array(VALS, w, TRUE)
      /\ MAP_UNDEFINED' = [MAP_UNDEFINED EXCEPT ![depth] = set_bit_array(@, F.next, FALSE)]
      /\ UNCHANGED << conditions, BIT_ARRAY_BUFFER, args, status >>
      /\ G.stage = F.stage /\ G.next = F.next /\ G.at = w /\ H.stage = "enter"
  BY DEF CallStep
<1>5. /\ n2' = n2 /\ \A u \in Assigned : MAP'[u] = MAP[u]
      /\ Assigned' = Assigned \cup {F.next} /\ MAP'[F.next] = w
  BY <1>0, <1>3, <1>4, AssignEffect
<1>6. /\ Height' = e + 1 /\ stack'[e + 1] = H /\ stack'[e] = G
      /\ \A j \in 1 .. e - 1 : stack'[j] = stack[j]
      /\ InPlace' = InPlace
      /\ \A j \in 1 .. e : /\ AssignedAt(j)' = AssignedAt(j)
                           /\ ValuesAt(j)' = ValuesAt(j)
                           /\ FrameDepth(j)' = FrameDepth(j)
      /\ AssignedAt(Height)' = Assigned'
  BY <1>1, CallFrames
<1>7. CASE k = e /\ x = w
  <2>1. \A u \in Assigned : m[u] = MAP[u]  BY <1>2, <1>7 DEF Ahead
  <2>2. \A u \in Assigned' : m[u] = MAP'[u]  BY <1>1, <1>5, <1>7, <2>1
  <2>3. AssignedAt(e + 1)' = Assigned'  BY <1>6
  <2>4. Ahead(e + 1, m)'  BY <1>4, <1>6, <2>2, <2>3 DEF Ahead
  <2> QED  BY <1>2, <1>6, <2>4
<1>8. CASE k = e /\ x # w
  <2>1. ToCome(e, x) /\ \A u \in Assigned : m[u] = MAP[u]
    BY <1>1, <1>2, <1>8 DEF Ahead
  <2>2. \/ x \in T /\ x > F.at
        \/ F.stage = "new" /\ args.injective = 0 /\ x \in vals
    BY <1>1, <1>2, <2>1 DEF ToCome
  <2>3. x \in T /\ x > F.at => x > w
    <3> SUFFICES ASSUME x \in T, x > F.at  PROVE x > w
      OBVIOUS
    <3>1. w <= x  BY <1>1 DEF ToTry, Above
    <3>2. x \in Nat
      <4>1. n2 \in Nat  BY <1>0, ActiveFacts
      <4> QED  BY <1>1, <4>1 DEF SetBits, Meant
    <3> QED  BY <1>2, <1>8, <3>1, <3>2
  <2>4. ToChoose(e)' = ToChoose(e)  BY <1>2, <1>4, <1>6 DEF ToChoose
  <2>5. /\ stack'[e] = G /\ AssignedAt(e)' = Assigned /\ ValuesAt(e)' = vals
        /\ SetBits(ToChoose(e)', n2') = T /\ args' = args
    BY <1>1, <1>2, <1>4, <1>5, <1>6, <2>4
  <2>6. ToCome(e, x)'  BY <1>4, <2>2, <2>3, <2>5 DEF ToCome
  <2>7. \A u \in Assigned : m[u] = MAP'[u]  BY <1>5, <2>1
  <2>8. Ahead(e, m)'  BY <1>1, <1>4, <2>5, <2>6, <2>7 DEF Ahead
  <2> QED  BY <1>2, <1>6, <1>8, <2>8
<1>9. CASE k # e
  <2>1. k \in 1 .. e - 1 /\ k \in 1 .. e  BY <1>1, <1>2, <1>9
  <2>2. /\ stack'[k] = stack[k] /\ AssignedAt(k)' = AssignedAt(k)
        /\ ValuesAt(k)' = ValuesAt(k) /\ FrameDepth(k)' = FrameDepth(k)
    BY <1>6, <2>1
  <2>3. ToChoose(k)' = ToChoose(k)  BY <1>4, <1>6, <2>2 DEF ToChoose
  <2>4. \A u \in AssignedAt(k) : MAP'[u] = MAP[u]  BY <1>5 DEF AssignedAt
  <2>5. Ahead(k, m)'  BY <1>4, <1>5, <2>2, <2>3, <2>4, StaysAhead
  <2> QED  BY <1>2, <1>6, <2>5
<1> QED  BY <1>7, <1>8, <1>9

LEMMA NewAhead ==
  ASSUME HInv, NEW possible, possible = ToChoose(Height), TryNew(possible),
         NEW h \in WantedMaps(args), NEW m, m = Internal(h), NEW k \in 1 .. Height, Ahead(k, m)
  PROVE  \E j \in 1 .. Height' : Ahead(j, m)'
<1>1. status = "search" /\ F.stage = "new" /\ Active  BY DEF TryNew, InSearch, Active
<1>2. depth < n1  BY <1>1 DEF HInv, ActiveRight, FramesRight
<1>3. PICK w, G, H : /\ w \in V2 /\ w \in SetBits(ToChoose(Height), n2)
                     /\ CallStep(G, H, F.next, w)
  BY NewIsCalled
<1>4. \A y \in ToTry(ToChoose(Height)) : w <= y
  <2>1. F.next \in Left  BY <1>1 DEF HInv, ActiveRight, TopRight, TriesOf
  <2>2. PICK x : x = Min(ToTry(possible))  OBVIOUS
  <2>3. ToTry(possible) # {} /\ MAP' = [MAP EXCEPT ![F.next] = x]
    BY <2>2 DEF TryNew, Assign
  <2>4. MAP' = [MAP EXCEPT ![F.next] = w]  BY <1>3 DEF CallStep
  <2>5. \A y \in ToTry(possible) : w <= y  BY <1>1, <2>1, <2>2, <2>3, <2>4, LeastIsTried
  <2> QED  BY <2>5
<1> QED  BY <1>1, <1>2, <1>3, <1>4, CallAhead

LEMMA OldAhead ==
  ASSUME HInv, TryOld, ~ InPlace,
         NEW h \in WantedMaps(args), NEW m, m = Internal(h), NEW k \in 1 .. Height, Ahead(k, m)
  PROVE  \E j \in 1 .. Height' : Ahead(j, m)'
<1>1. status = "search" /\ F.stage = "old" /\ Active  BY DEF TryOld, InSearch, Active
<1>2. depth < n1  BY <1>1 DEF HInv, ActiveRight, FramesRight
<1>3. PICK w, G, H : /\ w \in V2 /\ w \in SetBits(ToChoose(Height), n2)
                     /\ CallStep(G, H, F.next, w)
  BY OldIsCalled
<1>4. \A y \in ToTry(ToChoose(Height)) : w <= y
  <2>1. F.next \in Left  BY <1>1 DEF HInv, ActiveRight, TopRight, TriesOf
  <2>2. ToChoose(Height) = BIT_ARRAY_BUFFER[depth]  BY <1>1, ActiveFacts DEF ToChoose
  <2>3. PICK S, x : S = ToChoose(Height) /\ x = Min(ToTry(S))  OBVIOUS
  <2>4. ToTry(S) # {} /\ MAP' = [MAP EXCEPT ![F.next] = x]
    BY <2>2, <2>3 DEF TryOld, Assign
  <2>5. MAP' = [MAP EXCEPT ![F.next] = w]  BY <1>3 DEF CallStep
  <2>6. \A y \in ToTry(S) : w <= y  BY <1>1, <2>1, <2>3, <2>4, <2>5, LeastIsTried
  <2> QED  BY <2>3, <2>6
<1> QED  BY <1>1, <1>2, <1>3, <1>4, CallAhead

------------------------------------------------------------------------------
(* A call returns: nothing is ahead of it any more.                          *)

LEMMA LeaveAhead ==
  ASSUME CP!IInv, HInv, status = "search", Leave, NEW m, NEW k \in 1 .. Height - 1, Ahead(k, m)
  PROVE  \E j \in 1 .. Height' : Ahead(j, m)'
<1>0. Active  BY DEF Active
<1>1. PICK h : h = Height - 1  OBVIOUS
<1>2. Height \in Nat \ {0} /\ Height # 1 /\ k \in 1 .. h
  <2>1. Height \in Nat \ {0}  BY <1>0, ActiveFacts
  <2> QED  BY <1>1, <2>1
<1>3. PICK v : v = stack[h].next  OBVIOUS
<1>4. /\ Height' = h /\ stack'[k] = stack[k] /\ AssignedAt(k)' = AssignedAt(k)
      /\ ValuesAt(k)' = ValuesAt(k) /\ v \notin AssignedAt(k)
  BY <1>1, <1>2, <1>3, LeaveFrames
<1>5. \A u \in AssignedAt(k) : MAP'[u] = MAP[u]
  <2>1. AssignedAt(k) \subseteq Assigned  BY DEF AssignedAt
  <2>2. \A u \in Assigned : u # v => MAP'[u] = MAP[u]  BY <1>1, <1>2, <1>3, LeaveEffect
  <2> QED  BY <1>4, <2>1, <2>2
<1>6. ToChoose(k)' = ToChoose(k)  BY <1>1, <1>2, <1>3, LeaveCalls
<1>7. args' = args /\ n2' = n2  BY DEF Leave, n2
<1>8. Ahead(k, m)'  BY <1>4, <1>5, <1>6, <1>7, StaysAhead
<1> QED  BY <1>2, <1>4, <1>8

LEMMA SpentNothing ==
  ASSUME HInv, Active, Spent, NEW m
  PROVE  ~ Ahead(Height, m)
<1> SUFFICES ASSUME Ahead(Height, m)  PROVE FALSE
  OBVIOUS
<1>1. F = stack[Height]  BY ActiveFacts
<1>2. PICK x, T : x = m[F.next] /\ T = SetBits(ToChoose(Height), n2)  OBVIOUS
<1>3. F.stage # "leave"  BY <1>1 DEF Ahead
<1>4. /\ F.stage = (IF args.injective = 0 THEN "old" ELSE "new")
      /\ ToTry(ToChoose(Height)) = {}
  BY <1>3 DEF Spent
<1>5. ToCome(Height, x)  BY <1>1, <1>2, <1>4 DEF Ahead
<1>6. x \in T /\ x > F.at  BY <1>1, <1>2, <1>4, <1>5 DEF ToCome
<1> QED  BY <1>2, <1>4, <1>6 DEF ToTry, Above

------------------------------------------------------------------------------
(* A map is reported: the one that was ahead of the running call.             *)

LEMMA WholeSought ==
  ASSUME HInv, Active, depth = n1,
         NEW h \in WantedMaps(args), NEW m, m = Internal(h), \A u \in Assigned : m[u] = MAP[u]
  PROVE  ExternalMap = h /\ ValuesAt(Height) = Range(h)
<1>1. /\ args \in Arguments /\ V1 = Vertices(args.digraph1)
      /\ \A v \in Vertices(args.digraph1) : m[v] = h[args.order[v]]
  BY SoughtValues
<1>2. PICK a, I : a = args /\ I = INVERSE_ORDER  OBVIOUS
<1>3. \A v \in V1 : I[v] \in V1 /\ a.order[I[v]] = v
  BY <1>1, <1>2, InverseOrderFacts DEF INVERSE_ORDER
<1>4. \A v \in V1 : a.order[v] \in V1  BY <1>1, <1>2, Renumbered
<1>5. h \in [V1 -> V2]
  BY <1>1 DEF WantedMaps, V2, n2, Vertices
<1>6. Assigned = V1 /\ AssignedAt(Height) = Assigned  BY WholeMap, ActiveFacts
<1>7. \A v \in V1 : MAP[v] = h[a.order[v]]  BY <1>1, <1>2, <1>6
<1>8. \A v \in V1 : MAP[I[v]] = h[v]  BY <1>3, <1>7
<1>9. ExternalMap = h
  <2>1. ExternalMap = [v \in V1 |-> MAP[I[v]]]  BY <1>2 DEF ExternalMap, V1
  <2> QED  BY <1>5, <1>8, <2>1
<1>10. ValuesAt(Height) = Range(h)
  <2>1. ValuesAt(Height) = { MAP[v] : v \in V1 }  BY <1>6 DEF ValuesAt
  <2>2. Range(h) = { h[v] : v \in V1 }  BY <1>5 DEF Range
  <2>3. \A v \in V1 : \E u \in V1 : MAP[v] = h[u]  BY <1>4, <1>7
  <2>4. \A v \in V1 : \E u \in V1 : h[v] = MAP[u]  BY <1>3, <1>8
  <2> QED  BY <2>1, <2>2, <2>3, <2>4
<1> QED  BY <1>9, <1>10

LEMMA ReportAhead ==
  ASSUME CP!IInv, HInv, ResultsRight, status = "search",
         NEW r \in BOOLEAN, Report(r),
         NEW h \in WantedMaps(args), NEW m, m = Internal(h), NEW k \in 1 .. Height, Ahead(k, m)
  PROVE  \/ status' = "jumped"
         \/ \E i \in 1 .. Len(results') : results'[i] = h
         \/ \E j \in 1 .. Height' : Ahead(j, m)'
<1>0. Active /\ depth = n1  BY DEF Report, Active
<1>1. CASE k # Height
  <2>1. k \in 1 .. Height - 1  BY <1>0, <1>1, HeightCases
  <2>2. status' = "jumped" \/ Leave  BY DEF Report
  <2> QED  BY <2>1, <2>2, LeaveAhead
<1>2. CASE k = Height
  <2>1. \A u \in Assigned : m[u] = MAP[u]  BY <1>0, <1>2, HeightCases DEF Ahead
  <2>2. ExternalMap = h /\ ValuesAt(Height) = Range(h)  BY <1>0, <2>1, WholeSought
  <2>3. ~ (r /\ args.hint # UNDEFINED /\ F.rank # args.hint)
    <3> SUFFICES ASSUME args.hint # UNDEFINED  PROVE F.rank = args.hint
      OBVIOUS
    <3>1. F.rank = Cardinality(ValuesAt(Height))  BY <1>0, ValuesFinite
    <3>2. args \in Arguments  BY <1>0, SoughtValues
    <3>3. Cardinality(Range(h)) = args.hint  BY <3>2, WantedRank
    <3> QED  BY <2>2, <3>1, <3>3
  <2>4. results' = Append(results, ExternalMap)  BY <2>3 DEF Report
  <2>5. PICK S : results \in Seq(S) /\ h \in S
    <3>1. ExternalMap \in [Vertices(args.digraph1) -> Vertices(args.digraph2)]
      BY <1>0, WholeMap
    <3> QED  BY <2>2, <3>1 DEF ResultsRight
  <2>6. PICK L : L = Len(results)  OBVIOUS
  <2>7. L \in Nat /\ Len(results') = L + 1 /\ results'[L + 1] = h
    BY <2>2, <2>4, <2>5, <2>6, AppendProperties, LenProperties
  <2> QED  BY <2>7
<1> QED  BY <1>1, <1>2

LEMMA SpentAhead ==
  ASSUME CP!IInv, HInv, status = "search", Spent, Leave,
         NEW m, NEW k \in 1 .. Height, Ahead(k, m)
  PROVE  \E j \in 1 .. Height' : Ahead(j, m)'
<1>1. Active  BY DEF Active
<1>2. k # Height  BY <1>1, SpentNothing
<1>3. k \in 1 .. Height - 1  BY <1>1, <1>2, HeightCases
<1> QED  BY <1>3, LeaveAhead

(* What every step of the recursion does to a map that is ahead.              *)
LEMMA SearchAhead ==
  ASSUME CP!IInv, HInv, ResultsRight, StabsRight, CellsRight, EntriesKept, Asked(args),
         status = "search", SearchStep,
         NEW h \in WantedMaps(args), NEW m, m = Internal(h), NEW k \in 1 .. Height, Ahead(k, m)
  PROVE  \/ status' = "jumped"
         \/ \E i \in 1 .. Len(results') : results'[i] = h
         \/ \E g, mg : /\ Replaces(g, h) /\ mg = Internal(g)
                       /\ \E j \in 1 .. Height' : Ahead(j, mg)'
<1>0. Replaces(h, h)  BY DEF Replaces
<1>1. CASE \E r \in BOOLEAN : Report(r) /\ r = (args.injective = 0)
  <2>1. PICK r \in BOOLEAN : Report(r)  BY <1>1
  <2> QED  BY <1>0, <2>1, ReportAhead
<1>2. CASE Enter \/ NarrowOthers \/ Narrowed  BY <1>0, <1>2, MoveAhead
<1>3. CASE \E v : NarrowTo(PartialUpdate(v), v)  BY <1>0, <1>3, NarrowAhead
<1>4. CASE ~ InPlace /\ Pick("new", NewValues)  BY <1>4, PickNewAhead
<1>5. CASE ~ InPlace /\ args.injective = 0 /\ F.rank >= args.hint /\ Pick("old", OldValues)
  BY <1>0, <1>5, PickOldAhead
<1>6. CASE InPlace /\ PickInPlace  BY <1>6, PickInPlaceAhead
<1>7. CASE \E possible : possible = ToChoose(Height) /\ TryNew(possible)
  BY <1>0, <1>7, NewAhead
<1>8. CASE ~ InPlace /\ args.injective = 0 /\ TurnToOld  BY <1>0, <1>8, TurnAhead
<1>9. CASE ~ InPlace /\ args.injective = 0 /\ TryOld  BY <1>0, <1>9, OldAhead
<1>10. CASE Spent /\ Leave /\ UNCHANGED results  BY <1>0, <1>10, SpentAhead
<1> QED  BY <1>1, <1>2, <1>3, <1>4, <1>5, <1>6, <1>7, <1>8, <1>9, <1>10 DEF SearchStep

------------------------------------------------------------------------------
(* The entries of the partial map: every wanted map has them.                 *)

LEMMA OnlyCallAhead ==
  ASSUME HInv, status = "partial", NEW G, stack' = Append(Front(stack), G),
         UNCHANGED << depth, MAP, args >>, G.stage \in { "enter", "narrow", "narrow2", "install" },
         NEW m, \A u \in Assigned : m[u] = MAP[u]
  PROVE  \E j \in 1 .. Height' : Ahead(j, m)'
<1>1. Active /\ Height = 1  BY DEF Active, HInv, ActiveRight, FramesRight
<1>2. Onward(G)  BY <1>1 DEF Onward
<1>3. G.stage \notin { "pick", "new", "old", "leave" }  OBVIOUS
<1> QED  BY <1>1, <1>2, <1>3, OnwardTop

LEMMA PartialNarrowAhead ==
  ASSUME CP!IInv, HInv, CellsRight, PartialNarrow,
         NEW h \in WantedMaps(args), NEW m, m = Internal(h), \A u \in Assigned : m[u] = MAP[u]
  PROVE  \E j \in 1 .. Height' : Ahead(j, m)'
<1>1. PICK v : v = Min(ToNarrow(BIT_ARRAY_BUFFER[0]))  OBVIOUS
<1>2. /\ status = "partial" /\ Active /\ F.stage \in { "narrow", "narrow2" }
      /\ ToNarrow(BIT_ARRAY_BUFFER[0]) # {}
  BY DEF PartialNarrow, InPartial, Active
<1>3. ToNarrow(Buffer) # {} /\ v = Min(ToNarrow(Buffer))  BY <1>1, <1>2 DEF Buffer
<1>4. size_conditions(PartialUpdate(v), v) # 0  BY <1>2, <1>3, NarrowLeavesSome
<1>5. Running([F EXCEPT !.at = v]) /\ UNCHANGED << depth, MAP, args >>
  BY <1>1, <1>4 DEF PartialNarrow, globals
<1>6. PICK G : G = [F EXCEPT !.at = v]  OBVIOUS
<1>7. stack' = Append(Front(stack), G)  BY <1>5, <1>6 DEF Running
<1>8. F \in FrameType  BY <1>2, ActiveFacts
<1>9. G.stage = F.stage  BY <1>6, <1>8 DEF FrameType
<1>10. G.stage \in { "enter", "narrow", "narrow2", "install" }  BY <1>2, <1>9
<1> QED  BY <1>2, <1>5, <1>7, <1>10, OnlyCallAhead

LEMMA PartialEntryAhead ==
  ASSUME HInv, PartialEntry, NEW m, \A u \in Assigned : m[u] = MAP[u]
  PROVE  \E j \in 1 .. Height' : Ahead(j, m)'
<1>1. /\ Active /\ F.stage = "enter" /\ status = "partial" /\ Remaining # {}
      /\ UNCHANGED << depth, MAP, args >>
  BY DEF PartialEntry, InPartial, Active
<1>2. F \in FrameType  BY <1>1, ActiveFacts
<1>3. PICK x, s : x = Min(Remaining) /\ s = IF depth > 0 THEN "narrow" ELSE "install"
  OBVIOUS
<1>4. PICK G : G = [F EXCEPT !.next = x, !.at = -1, !.stage = s]  OBVIOUS
<1>5. stack' = Append(Front(stack), G)  BY <1>3, <1>4 DEF PartialEntry, Running
<1>6. G.stage = s
  <2>1. x \in Int  BY <1>1, <1>3, NextEntry
  <2>2. s \in Stages /\ -1 \in Int  BY <1>3 DEF Stages
  <2>3. EnteredAt(G, F, s, -1, x)  BY <1>2, <1>4, <2>1, <2>2, FrameEntered
  <2> QED  BY <2>3 DEF EnteredAt
<1>7. G.stage \in { "enter", "narrow", "narrow2", "install" }  BY <1>3, <1>6
<1> QED  BY <1>1, <1>5, <1>7, OnlyCallAhead

LEMMA PartialNarrowedAhead ==
  ASSUME HInv, PartialNarrowed, NEW m, \A u \in Assigned : m[u] = MAP[u]
  PROVE  \E j \in 1 .. Height' : Ahead(j, m)'
<1>1. /\ Active /\ status = "partial" /\ UNCHANGED << depth, MAP, args >>
  BY DEF PartialNarrowed, InPartial, Active
<1>2. F \in FrameType  BY <1>1, ActiveFacts
<1>3. PICK G : stack' = Append(Front(stack), G) /\ G.stage \in { "narrow2", "install" }
  <2>1. CASE SecondPass /\ F.stage = "narrow"
    <3>1. PICK G : G = [F EXCEPT !.at = -1, !.stage = "narrow2"]  OBVIOUS
    <3>2. stack' = Append(Front(stack), G)  BY <2>1, <3>1 DEF PartialNarrowed, Running
    <3>3. "narrow2" \in Stages /\ -1 \in Int  BY DEF Stages
    <3>4. MovedTo(G, F, "narrow2", -1)  BY <1>2, <3>1, <3>3, FrameMoved
    <3> QED  BY <3>2, <3>4 DEF MovedTo
  <2>2. CASE ~ (SecondPass /\ F.stage = "narrow")
    <3>1. PICK G : G = [F EXCEPT !.stage = "install"]  OBVIOUS
    <3>2. stack' = Append(Front(stack), G)  BY <2>2, <3>1 DEF PartialNarrowed, Running
    <3>3. G.stage = "install"  BY <1>2, <3>1, FrameStaged
    <3> QED  BY <3>2, <3>3
  <2> QED  BY <2>1, <2>2
<1> QED  BY <1>1, <1>3, OnlyCallAhead

LEMMA PartialDoneAhead ==
  ASSUME HInv, PartialDone, NEW m, \A u \in Assigned : m[u] = MAP[u]
  PROVE  \E j \in 1 .. Height' : Ahead(j, m)'
<1>1. status = "partial" /\ UNCHANGED << depth, MAP, args >>
  BY DEF PartialDone, InPartial, globals
<1>2. PICK G : G = Frame(F.pos, F.rep_depth, F.has_trivial_stab, F.rank)  OBVIOUS
<1>3. stack' = Append(Front(stack), G)  BY <1>2 DEF PartialDone, Running
<1>4. G.stage = "enter"  BY <1>2 DEF Frame
<1> QED  BY <1>1, <1>3, <1>4, OnlyCallAhead

(* The values of a wanted map are not too many for the rank.                 *)
LEMMA SoughtRank ==
  ASSUME HInv, Active,
         NEW h \in WantedMaps(args), NEW m, m = Internal(h), \A u \in Assigned : m[u] = MAP[u]
  PROVE  /\ ValuesAt(Height) \subseteq Range(h)
         /\ \A v \in V1 : m[v] \in Range(h)
         /\ \A X \in SUBSET Range(h) : IsFiniteSet(X) /\ ~ (Cardinality(X) > args.hint)
<1>1. /\ args \in Arguments /\ V1 = Vertices(args.digraph1) /\ V2 = Vertices(args.digraph2)
      /\ \A x \in Vertices(args.digraph1) : m[x] = h[args.order[x]]
      /\ Assigned \subseteq V1 /\ AssignedAt(Height) = Assigned
      /\ n2 \in Nat /\ n2 < UNDEFINED
  BY SoughtValues, ActiveFacts DEF UNDEFINED
<1>2. PICK S : S = Range(h)  OBVIOUS
<1>3. h \in [V1 -> V2]  BY <1>1 DEF WantedMaps
<1>4. \A u \in V1 : m[u] \in S
  <2> SUFFICES ASSUME NEW u \in V1  PROVE m[u] \in S
    OBVIOUS
  <2>1. args.order[u] \in V1  BY <1>1, Renumbered
  <2> QED  BY <1>1, <1>2, <1>3, <2>1 DEF Range
<1>5. ValuesAt(Height) \subseteq S
  <2>1. \A u \in Assigned : MAP[u] \in S  BY <1>1, <1>4
  <2> QED  BY <1>1, <2>1 DEF ValuesAt
<1>6. IsFiniteSet(S) /\ Cardinality(S) \in Nat /\ Cardinality(S) <= n2
  BY <1>1, <1>2, WantedRank DEF n2
<1>7. ASSUME NEW X \in SUBSET S  PROVE IsFiniteSet(X) /\ ~ (Cardinality(X) > args.hint)
  <2>1. IsFiniteSet(X) /\ Cardinality(X) <= Cardinality(S) /\ Cardinality(X) \in Nat
    BY <1>6, FS_Subset, FS_CardinalityType
  <2>2. CASE args.hint = UNDEFINED
    <3>1. UNDEFINED \in Nat  BY DEF UNDEFINED
    <3> QED  BY <1>1, <1>6, <2>1, <2>2, <3>1
  <2>3. CASE args.hint # UNDEFINED
    <3>1. Cardinality(S) = args.hint  BY <1>1, <1>2, <2>3, WantedRank
    <3> QED  BY <1>6, <2>1, <3>1
  <2> QED  BY <2>2, <2>3
<1> QED  BY <1>2, <1>4, <1>5, <1>7

LEMMA InstallAhead ==
  ASSUME CP!IInv, HInv, PartialInstall,
         NEW h \in WantedMaps(args), NEW m, m = Internal(h), \A u \in Assigned : m[u] = MAP[u]
  PROVE  \E j \in 1 .. Height' : Ahead(j, m)'
<1> DEFINE w    == args.partial_map[F.next]
           rank == IF w \in VALS THEN F.rank ELSE F.rank + 1
<1>0. status = "partial" /\ F.stage = "install" /\ Active /\ args \in Arguments
  BY DEF PartialInstall, InPartial, Active, HInv, ActiveRight, ArgsRight
<1>1. w = args.partial_map[F.next] /\ rank = IF w \in VALS THEN F.rank ELSE F.rank + 1
  OBVIOUS
<1> HIDE DEF w, rank
<1>2. PICK x, u : x = F.next /\ u = INVERSE_ORDER[x]  OBVIOUS
<1>3. x \in DOMAIN args.partial_map /\ u \in Left /\ w \in V2
  BY <1>0, <1>1, <1>2, EntryInstalled
<1>4. u \in V1 /\ n2 \in Nat  BY <1>0, <1>3, ActiveFacts DEF Left
<1>5. m[u] = w
  <2>1. \A v \in Vertices(args.digraph1) : m[v] = h[args.order[v]]  BY <1>0, SoughtValues
  <2>2. m[InverseOrder(args)[x]] = args.partial_map[x]  BY <1>0, <1>3, <2>1, WantedEntries
  <2> QED  BY <1>1, <1>2, <2>2 DEF INVERSE_ORDER
<1>6. ~ (rank > F.rank /\ rank > args.hint)
  <2> SUFFICES ASSUME rank > F.rank, rank > args.hint  PROVE FALSE
    OBVIOUS
  <2>1. PICK vals, X : vals = ValuesAt(Height) /\ X = vals \cup {w}  OBVIOUS
  <2>2. vals \subseteq Range(h) /\ w \in Range(h)  BY <1>0, <1>4, <1>5, <2>1, SoughtRank
  <2>3. ~ (Cardinality(X) > args.hint)  BY <1>0, <2>1, <2>2, SoughtRank
  <2>4. IsFiniteSet(vals) /\ F.rank = Cardinality(vals)  BY <1>0, <2>1, ValuesFinite
  <2>5. F.rank \in Nat  BY <2>4, FS_CardinalityType
  <2>6. w \notin VALS /\ rank = F.rank + 1  BY <1>1, <2>5
  <2>7. SetBits(VALS, n2) = vals  BY <1>0, <2>1 DEF HInv, ActiveRight, MapRight
  <2>8. w \notin vals  BY <2>6, <2>7 DEF SetBits
  <2>9. Cardinality(X) = F.rank + 1  BY <2>1, <2>4, <2>8, OneMore
  <2> QED  BY <2>3, <2>6, <2>9
<1>7. PICK G, v : Installs(G, v, w)  BY <1>1, <1>6, EntryIsInstalled
<1>8. v = u  BY <1>2, <1>7 DEF Installs, Entry
<1>9. /\ G \in FrameType /\ stack' = Append(Front(stack), G) /\ depth' = depth + 1
      /\ G.stage = "enter"
      /\ MAP' = [MAP EXCEPT ![u] = w]
      /\ VALS' = set_bit_array(VALS, w, TRUE)
      /\ MAP_UNDEFINED' = [MAP_UNDEFINED EXCEPT ![depth] = set_bit_array(@, u, FALSE)]
      /\ args' = args
  BY <1>7, <1>8 DEF Installs, InstalledAt
<1>10. depth < n1 /\ SetBits(MAP_UNDEFINED[depth], n1) = Left
  BY <1>0 DEF HInv, ActiveRight, FramesRight, MapRight, Left
<1>11. /\ Assigned' = Assigned \cup {u} /\ MAP'[u] = w
       /\ \A y \in Assigned : MAP'[y] = MAP[y]
  BY <1>0, <1>3, <1>9, <1>10, AssignEffect
<1>12. /\ Height = 1 /\ Height' = 1 /\ stack'[1] = G
       /\ AssignedAt(Height)' = Assigned'
  BY <1>0, <1>9, InstallFrames
<1>13. \A y \in Assigned' : m[y] = MAP'[y]  BY <1>5, <1>11
<1>14. AssignedAt(1)' = Assigned'  BY <1>12
<1>15. Ahead(1, m)'  BY <1>9, <1>12, <1>13, <1>14 DEF Ahead
<1> QED  BY <1>12, <1>15

LEMMA PartialAhead ==
  ASSUME CP!IInv, HInv, CellsRight, init_partial_map_and_find,
         NEW h \in WantedMaps(args), NEW m, m = Internal(h), NEW k \in 1 .. Height, Ahead(k, m)
  PROVE  \E j \in 1 .. Height' : Ahead(j, m)'
<1>1. status = "partial" /\ Active
  BY DEF init_partial_map_and_find, PartialEntry, PartialNarrow, PartialNarrowed,
         PartialInstall, PartialDone, InPartial, Active
<1>2. Height = 1  BY <1>1 DEF HInv, ActiveRight, FramesRight
<1>3. k = Height  BY <1>2
<1>4. \A u \in Assigned : m[u] = MAP[u]  BY <1>1, <1>3, HeightCases DEF Ahead
<1> QED
  BY <1>4, PartialEntryAhead, PartialNarrowAhead, PartialNarrowedAhead, InstallAhead,
     PartialDoneAhead DEF init_partial_map_and_find

(* What the first call was called with stays assigned.                       *)
LEMMA OnwardEntries ==
  ASSUME HInv, Active, EntriesKept, status = "search", NEW G, Onward(G)
  PROVE  EntriesKept'
<1>1. 1 \in 1 .. Height  BY ActiveFacts
<1>2. AssignedAt(1)' = AssignedAt(1)  BY <1>1, StayEffect DEF Onward
<1>3. args' = args /\ INVERSE_ORDER' = INVERSE_ORDER  BY DEF Onward, INVERSE_ORDER
<1> QED  BY <1>2, <1>3 DEF EntriesKept

LEMMA CallEntries ==
  ASSUME HInv, EntriesKept, status = "search", depth < n1, F.stage \in { "new", "old" },
         NEW G, NEW H, NEW w \in V2, CallStep(G, H, F.next, w)
  PROVE  EntriesKept'
<1>1. 1 \in 1 .. Height  BY ActiveFacts DEF Active
<1>2. AssignedAt(1)' = AssignedAt(1)  BY <1>1, CallFrames
<1>3. args' = args /\ INVERSE_ORDER' = INVERSE_ORDER  BY DEF CallStep, INVERSE_ORDER
<1> QED  BY <1>2, <1>3 DEF EntriesKept

LEMMA LeaveEntries ==
  ASSUME CP!IInv, HInv, EntriesKept, status = "search", Leave
  PROVE  EntriesKept'
<1>0. Active  BY DEF Active
<1>1. CASE Height = 1  BY <1>1 DEF Leave, Height, EntriesKept
<1>2. CASE Height # 1
  <2>1. PICK h, v : h = Height - 1 /\ v = stack[h].next  OBVIOUS
  <2>2. 1 \in 1 .. h  BY <1>0, <1>2, <2>1, ActiveFacts
  <2>3. AssignedAt(1)' = AssignedAt(1)  BY <1>2, <2>1, <2>2, LeaveFrames
  <2>4. args' = args /\ INVERSE_ORDER' = INVERSE_ORDER  BY DEF Leave, INVERSE_ORDER
  <2> QED  BY <2>3, <2>4 DEF EntriesKept
<1> QED  BY <1>1, <1>2

LEMMA SearchEntries ==
  ASSUME CP!IInv, HInv, EntriesKept, status = "search", SearchStep
  PROVE  EntriesKept'
<1>0. Active  BY DEF Active
<1>1. CASE \E r \in BOOLEAN : Report(r)
  <2>1. status' = "jumped" \/ Leave  BY <1>1 DEF Report
  <2>2. status' = "jumped" => EntriesKept'  BY DEF EntriesKept
  <2> QED  BY <2>1, <2>2, LeaveEntries
<1>2. CASE Leave  BY <1>2, LeaveEntries
<1>3. CASE Enter \/ NarrowOthers \/ Narrowed
  <2>1. PICK G : Onward(G)  BY <1>3, MoveOnward
  <2> QED  BY <1>0, <2>1, OnwardEntries
<1>4. CASE \E v : NarrowTo(PartialUpdate(v), v)
  <2>1. PICK G : Onward(G)  BY <1>4, NarrowOnward
  <2> QED  BY <1>0, <2>1, OnwardEntries
<1>5. CASE Pick("new", NewValues) \/ Pick("old", OldValues) \/ TurnToOld
  <2>1. PICK G : Onward(G)  BY <1>5, PickOnward
  <2> QED  BY <1>0, <2>1, OnwardEntries
<1>6. CASE InPlace /\ PickInPlace
  <2>1. PICK G : Onward(G)  BY <1>6, PickInPlaceOnward
  <2> QED  BY <1>0, <2>1, OnwardEntries
<1>7. CASE \E possible : possible = ToChoose(Height) /\ TryNew(possible)
  <2>1. PICK possible : possible = ToChoose(Height) /\ TryNew(possible)  BY <1>7
  <2>2. F.stage = "new" /\ depth < n1
    BY <1>0, <2>1 DEF TryNew, InSearch, HInv, ActiveRight, FramesRight
  <2>3. PICK w, G, H : w \in V2 /\ CallStep(G, H, F.next, w)  BY <2>1, NewIsCalled
  <2> QED  BY <2>2, <2>3, CallEntries
<1>8. CASE ~ InPlace /\ TryOld
  <2>1. F.stage = "old" /\ depth < n1
    BY <1>0, <1>8 DEF TryOld, InSearch, HInv, ActiveRight, FramesRight
  <2>2. PICK w, G, H : w \in V2 /\ CallStep(G, H, F.next, w)  BY <1>8, OldIsCalled
  <2> QED  BY <2>1, <2>2, CallEntries
<1> QED
  BY <1>1, <1>2, <1>3, <1>4, <1>5, <1>6, <1>7, <1>8 DEF SearchStep

LEMMA PartialEntries ==
  ASSUME HInv, init_partial_map_and_find
  PROVE  EntriesKept'
<1>1. status = "partial" /\ Active /\ (PartialDone \/ status' # "search")
  BY DEF init_partial_map_and_find, PartialEntry, PartialNarrow, PartialNarrowed,
         PartialInstall, PartialDone, InPartial, Active
<1>2. CASE status' # "search"  BY <1>2 DEF EntriesKept
<1>3. CASE PartialDone
  <2>1. /\ F.stage = "enter" /\ Remaining = {} /\ UNCHANGED << depth, MAP, args >>
    BY <1>3 DEF PartialDone, InPartial, globals
  <2>2. Height = 1  BY <1>1 DEF HInv, ActiveRight, FramesRight
  <2>3. AssignedAt(1)' = Assigned
    <3>1. PICK G : G = Frame(F.pos, F.rep_depth, F.has_trivial_stab, F.rank)  OBVIOUS
    <3>2. stack' = Append(Front(stack), G)  BY <1>3, <3>1 DEF PartialDone, Running
    <3>3. AssignedAt(Height)' = AssignedAt(Height)
      <4>1. Height \in 1 .. Height  BY <2>2
      <4> QED  BY <1>1, <2>1, <3>2, <4>1, StayEffect
    <3>4. AssignedAt(Height) = Assigned  BY <1>1, ActiveFacts
    <3>5. Height' = 1  BY <1>1, <2>1, <2>2, <3>2, StayEffect
    <3> QED  BY <2>2, <3>3, <3>4, <3>5
  <2>4. ASSUME NEW x \in DOMAIN args.partial_map  PROVE INVERSE_ORDER[x] \in Assigned
    <3>1. Assigned = { INVERSE_ORDER[u] : u \in Before(F) }
      BY <1>1 DEF HInv, ActiveRight, TopRight, PartialOf
    <3>2. x \in Int /\ F.next \in Int
      <4>1. DOMAIN args.partial_map \in SUBSET Nat
        BY <1>1, ArgumentFacts DEF HInv, ActiveRight, ArgsRight
      <4>2. F.next \in Int  BY <1>1, ActiveFacts DEF FrameType
      <4> QED  BY <4>1, <4>2
    <3>3. ~ (x > F.next)  BY <2>1 DEF Remaining, Above
    <3>4. x \in Before(F)  BY <2>1, <3>2, <3>3 DEF Before
    <3> QED  BY <3>1, <3>4
  <2>5. args' = args /\ INVERSE_ORDER' = INVERSE_ORDER  BY <2>1 DEF INVERSE_ORDER
  <2> QED  BY <2>3, <2>4, <2>5 DEF EntriesKept
<1> QED  BY <1>1, <1>2, <1>3

LEMMA NextEntriesKept ==
  ASSUME CP!IInv, HInv, EntriesKept, [Next]_vars
  PROVE  EntriesKept'
<1>1. CASE \E a \in Arguments : Call(a)
  <2>1. status' # "search"  BY <1>1 DEF Call, RefuseAtOnce, RefuseInInit, Begin
  <2> QED  BY <2>1 DEF EntriesKept
<1>2. CASE Run  BY <1>2, RunSteps, PartialEntries, SearchEntries
<1>3. CASE UNCHANGED vars
  <2>1. UNCHANGED << args, stack, MAP, status >>  BY <1>3 DEF vars, globals
  <2>2. AssignedAt(1)' = AssignedAt(1)
    BY <2>1 DEF AssignedAt, Assigned, Tried, Height, n1
  <2> QED  BY <2>1, <2>2 DEF EntriesKept, INVERSE_ORDER
<1> QED  BY <1>1, <1>2, <1>3 DEF Next

------------------------------------------------------------------------------
(* The steps together.                                                       *)

LEMMA EquivalentItself ==
  ASSUME NEW a \in Arguments, ClosedGroup(a), WholeImage(a), NEW f \in WantedMaps(a)
  PROVE  Equivalent(a, f, f)
<1>1. PICK W, V : W = Vertices(a.digraph1) /\ V = Vertices(a.digraph2)  OBVIOUS
<1>2. f \in [W -> V]  BY <1>1 DEF WantedMaps
<1>3. PICK i \in Group(a) : \A w \in V : i[w] = w  BY <1>1, GroupIdentity
<1>4. f = [v \in DOMAIN f |-> i[f[v]]]  BY <1>2, <1>3
<1> QED  BY <1>4 DEF Equivalent

(* Results are added to, never taken away.                                   *)
LEMMA StaysReached ==
  ASSUME HInv, Run, ResultsRight, NEW f, Reached(f)
  PROVE  Reached(f)'
<1>1. args' = args
      /\ (results' = results \/ \E r \in BOOLEAN : Report(r) /\ status = "search")
  BY OthersReportNothing
<1>2. CASE results' = results  BY <1>1, <1>2 DEF Reached
<1>3. CASE results' # results
  <2>1. PICK r \in BOOLEAN : Report(r) /\ status = "search"  BY <1>1, <1>3
  <2>2. results' = Append(results, ExternalMap) /\ depth = n1 /\ Active
    BY <1>3, <2>1 DEF Report, Active
  <2>3. PICK T, L : /\ T = [Vertices(args.digraph1) -> Vertices(args.digraph2)]
                    /\ L = Len(results)
    OBVIOUS
  <2>4. results \in Seq(T) /\ ExternalMap \in T  BY <2>2, <2>3, WholeMap DEF ResultsRight
  <2>5. /\ L \in Nat /\ Len(results') = L + 1
        /\ \A i \in 1 .. L : results'[i] = results[i]
    BY <2>2, <2>3, <2>4, AppendProperties, LenProperties
  <2>6. PICK i \in 1 .. L : Equivalent(args, results[i], f)  BY <2>3 DEF Reached
  <2>7. i \in 1 .. Len(results') /\ results'[i] = results[i]  BY <2>5
  <2>8. Equivalent(args', results'[i], f)  BY <1>1, <2>6, <2>7
  <2> QED  BY <2>7, <2>8 DEF Reached, Equivalent
<1> QED  BY <1>2, <1>3

LEMMA RunMissesNothing ==
  ASSUME CP!IInv, HInv, ResultsRight, StabsRight, CellsRight, EntriesKept, NothingMissed, Run
  PROVE  NothingMissed'
<1>1. args' = args /\ status \in { "partial", "search" }
  <2>1. init_partial_map_and_find => status = "partial"
    BY DEF init_partial_map_and_find, PartialEntry, PartialNarrow, PartialNarrowed,
           PartialInstall, PartialDone, InPartial
  <2> QED  BY <2>1, RunSteps, OthersReportNothing
<1> SUFFICES ASSUME Asked(args), status' # "jumped", NEW f \in WantedMaps(args)
             PROVE  \/ Reached(f)'
                    \/ \E g \in WantedMaps(args) : Equivalent(args, g, f) /\ Pending(g)'
  BY <1>1 DEF NothingMissed, Asked, ClosedGroup, WholeImage, ImageCounted
<1>2. CASE Reached(f)  BY <1>2, StaysReached
<1>3. CASE \E h \in WantedMaps(args) : Equivalent(args, h, f) /\ Pending(h)
  <2>1. PICK h \in WantedMaps(args) : Equivalent(args, h, f) /\ Pending(h)  BY <1>3
  <2>2. PICK m : m = Internal(h)  OBVIOUS
  <2>3. PICK k \in 1 .. Height : Ahead(k, m)  BY <2>1, <2>2 DEF Pending
  <2>4. \/ \E i \in 1 .. Len(results') : results'[i] = h
        \/ \E g, mg : /\ Replaces(g, h) /\ mg = Internal(g)
                      /\ \E j \in 1 .. Height' : Ahead(j, mg)'
    <3>1. CASE init_partial_map_and_find
      <4>1. \E j \in 1 .. Height' : Ahead(j, m)'  BY <2>2, <2>3, <3>1, PartialAhead
      <4>2. Replaces(h, h)  BY DEF Replaces
      <4> QED  BY <2>2, <4>1, <4>2
    <3>2. CASE status = "search" /\ SearchStep  BY <2>2, <2>3, <3>2, SearchAhead
    <3> QED  BY <3>1, <3>2, RunSteps
  <2>5. CASE \E i \in 1 .. Len(results') : results'[i] = h
    <3>1. PICK i \in 1 .. Len(results') : results'[i] = h  BY <2>5
    <3>2. Equivalent(args', results'[i], f)  BY <1>1, <2>1, <3>1
    <3> QED  BY <3>1, <3>2 DEF Reached, Equivalent
  <2>6. CASE \E g, mg : /\ Replaces(g, h) /\ mg = Internal(g)
                        /\ \E j \in 1 .. Height' : Ahead(j, mg)'
    <3>1. PICK g, mg : /\ Replaces(g, h) /\ mg = Internal(g)
                       /\ \E j \in 1 .. Height' : Ahead(j, mg)'
      BY <2>6
    <3>2. PICK j \in 1 .. Height' : Ahead(j, mg)'  BY <3>1
    <3>3. Internal(g)' = mg  BY <1>1, <3>1 DEF Internal, ORDER, V1, n1
    <3>4. Pending(g)'  BY <3>2, <3>3 DEF Pending, Ahead, ToCome
    <3>5. g \in WantedMaps(args) /\ Equivalent(args, g, f)  BY <2>1, <3>1 DEF Replaces
    <3> QED  BY <3>4, <3>5
  <2> QED  BY <2>4, <2>5, <2>6
<1> QED  BY <1>1, <1>2, <1>3 DEF NothingMissed

LEMMA CallMissesNothing ==
  ASSUME CP!IInv, HInv, NEW a \in Arguments, Call(a)
  PROVE  NothingMissed'
<1>1. args' = a  BY DEF Call, RefuseAtOnce, RefuseInInit, Begin, NewCall
<1> SUFFICES ASSUME Asked(a), NEW f \in WantedMaps(a)
             PROVE  \E h \in WantedMaps(a) : Equivalent(a, h, f) /\ Pending(h)'
  BY <1>1 DEF NothingMissed, Asked, ClosedGroup, WholeImage, ImageCounted, Equivalent
<1>2. CASE RefuseAtOnce(a) \/ RefuseInInit(a)
  <2>1. RuledOut(a) \/ ImageTooSmall(a) \/ Clashes(a) # {}
    BY <1>2 DEF RefuseAtOnce, RefuseInInit
  <2> QED  BY <2>1, RefusedRightly DEF Asked
<1>3. CASE Begin(a)
  <2>1. PICK G : G = Frame(UNDEFINED, 0, Group(a) = {Identity(a.digraph2.n)}, 0)  OBVIOUS
  <2>2. stack' = << G >> /\ G.stage = "enter"  BY <1>3, <2>1 DEF Begin, Frame
  <2>3. Assigned' = {}
    <3>1. /\ n1' = a.digraph1.n /\ a.digraph1.n \in 1 .. Size - 1 /\ Size \in Nat \ {0}
      BY <1>1, ArgumentFacts, SizeFacts DEF n1
    <3>2. MAP' = [i \in DOMAIN MAP |-> IF i < a.digraph1.n THEN UNDEFINED
                                       ELSE IF i < a.digraph2.n THEN i ELSE MAP[i]]
      BY <1>3 DEF Begin
    <3>3. MAP \in [0 .. Size - 1 -> 0 .. Size - 1 \cup { UNDEFINED }]  BY DEF HInv, Fields
    <3>4. \A v \in 0 .. a.digraph1.n - 1 : v \in DOMAIN MAP /\ v < a.digraph1.n
      BY <3>1, <3>3
    <3>5. \A v \in 0 .. a.digraph1.n - 1 : MAP'[v] = UNDEFINED  BY <3>2, <3>4
    <3> QED  BY <3>1, <3>5 DEF Assigned
  <2>4. Height' = 1 /\ stack'[1] = G /\ AssignedAt(1)' = {}
    BY <2>2, <2>3 DEF Height, AssignedAt
  <2>5. PICK m : m = Internal(f)'  OBVIOUS
  <2>6. Ahead(1, m)'  BY <2>2, <2>4 DEF Ahead
  <2>7. Pending(f)'  BY <2>4, <2>5, <2>6 DEF Pending, Ahead, ToCome
  <2>8. Equivalent(a, f, f)  BY EquivalentItself DEF Asked
  <2> QED  BY <2>7, <2>8
<1> QED  BY <1>2, <1>3 DEF Call

LEMMA NextMissesNothing ==
  ASSUME CP!IInv, HInv, ResultsRight, StabsRight, CellsRight, EntriesKept, NothingMissed,
         [Next]_vars
  PROVE  NothingMissed'
<1>1. CASE \E a \in Arguments : Call(a)  BY <1>1, CallMissesNothing
<1>2. CASE Run  BY <1>2, RunMissesNothing
<1>3. CASE UNCHANGED vars
  <2>1. UNCHANGED << args, conditions, stack, depth, MAP, BIT_ARRAY_BUFFER, status, results >>
    BY <1>3 DEF vars, globals
  <2>2. /\ Height' = Height /\ InPlace' = InPlace /\ n2' = n2 /\ V1' = V1
        /\ Assigned' = Assigned
    BY <2>1 DEF Height, InPlace, n1, n2, V1, Assigned
  <2>3. \A k : /\ AssignedAt(k)' = AssignedAt(k) /\ ValuesAt(k)' = ValuesAt(k)
               /\ ToChoose(k)' = ToChoose(k)
    BY <2>1, <2>2 DEF AssignedAt, ValuesAt, Tried, ToChoose, FrameDepth
  <2>4. \A k, m : Ahead(k, m) => Ahead(k, m)'
    BY <2>1, <2>2, <2>3 DEF Ahead, ToCome
  <2>5. \A h : Internal(h)' = Internal(h)  BY <2>1, <2>2 DEF Internal, ORDER
  <2>6. ASSUME NEW h, Pending(h)  PROVE Pending(h)'
    <3>1. PICK k \in 1 .. Height : Ahead(k, Internal(h))  BY <2>6 DEF Pending
    <3>2. PICK m : m = Internal(h)  OBVIOUS
    <3>3. k \in 1 .. Height' /\ Ahead(k, m)' /\ Internal(h)' = m
      BY <2>2, <2>4, <2>5, <3>1, <3>2
    <3> QED  BY <3>3 DEF Pending, Ahead, ToCome
  <2>7. \A f : Reached(f) => Reached(f)'  BY <2>1 DEF Reached
  <2>8. Asked(args)' => Asked(args)
    BY <2>1 DEF Asked, ClosedGroup, WholeImage, ImageCounted
  <2> SUFFICES ASSUME Asked(args)', status' \notin { "idle", "jumped" },
                      NEW f \in WantedMaps(args')
               PROVE  Reached(f)' \/ \E h \in WantedMaps(args') :
                                       Equivalent(args', h, f) /\ Pending(h)'
    BY DEF NothingMissed
  <2> QED  BY <2>1, <2>6, <2>7, <2>8 DEF NothingMissed
<1> QED  BY <1>1, <1>2, <1>3 DEF Next

(* A search that was not stopped has found every map asked for, up to the     *)
(* group, and a call that was refused had none to find; for all digraphs,     *)
(* orders, images, partial maps and groups, after any calls before.  The      *)
(* elements given for the group have to be a group of automorphisms, and the  *)
(* image must not be miscounted.                                             *)
THEOREM SearchesComplete ==
  Spec => [](ClosedGroup(args) /\ ImageCounted(args) => Complete)
<1>1. SearchInv => CP!IInv /\ HInv  BY DEF SearchInv
<1>2. Init => ResultsRight /\ StabsRight /\ CellsRight /\ EntriesKept /\ NothingMissed
  BY InitResultsRight DEF Init, StabsRight, CellsRight, Active, EntriesKept, NothingMissed
<1>3. SearchInv /\ ResultsRight /\ [Next]_vars => ResultsRight'
  BY <1>1, NextResultsRight
<1>4. SearchInv /\ StabsRight /\ [Next]_vars => StabsRight'
  BY <1>1, NextStabsRight
<1>5. SearchInv /\ CellsRight /\ [Next]_vars => CellsRight'
  BY <1>1, NextCellsRight
<1>6. SearchInv /\ EntriesKept /\ [Next]_vars => EntriesKept'
  BY <1>1, NextEntriesKept
<1>7. SearchInv /\ ResultsRight /\ StabsRight /\ CellsRight /\ EntriesKept /\ NothingMissed
        /\ [Next]_vars => NothingMissed'
  BY <1>1, NextMissesNothing
<1>8. SearchInv /\ NothingMissed => (ClosedGroup(args) /\ ImageCounted(args) => Complete)
  <2> SUFFICES ASSUME HInv, NothingMissed, ClosedGroup(args), ImageCounted(args),
                      status \in { "ended", "refused" }, WholeImage(args),
                      NEW f \in WantedMaps(args)
               PROVE  \E k \in 1 .. Len(results) : Equivalent(args, results[k], f)
    BY <1>1 DEF Complete, WholeImage, n2
  <2>1. Asked(args)  BY DEF Asked
  <2>2. Height = 0
    <3>1. stack = << >>  BY DEF HInv, Fields, Active
    <3> QED  BY <3>1 DEF Height
  <2>3. \A h : ~ Pending(h)  BY <2>2 DEF Pending
  <2>4. Reached(f)  BY <2>1, <2>3 DEF NothingMissed
  <2> QED  BY <2>4 DEF Reached
<1> QED
  BY <1>2, <1>3, <1>4, <1>5, <1>6, <1>7, <1>8, SearchesInductive, PTL DEF Spec
==============================================================================
