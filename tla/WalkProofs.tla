------------------------------ MODULE WalkProofs ------------------------------
(***************************************************************************)
(* Lemmas about walks in a digraph; FLOYD_WARSHALL, which finds what they    *)
(* join and how many edges they need; and, in the second part, the           *)
(* depth-first searches, whose stack is a walk.                              *)
(*                                                                         *)
(* Walks(adj) is defined by recursion, and the library's induction theorems  *)
(* have an operator as a parameter, which no prover here can instantiate.    *)
(* Both are got from WFMin, which says it of sets: a set of natural numbers  *)
(* that is not empty has a least element, so a set that holds 0 and n + 1    *)
(* for every n in it holds all; and the set of the n up to which a function  *)
(* can be defined by recursion is such a set.                                *)
(*                                                                         *)
(* What the graph algorithms need is then one fact.  A walk joins u to v,    *)
(* with no more edges than there are vertices, exactly if v is in every set  *)
(* that has u in it and that no edge leaves.                                 *)
(***************************************************************************)
EXTENDS DigraphKernels, FiniteSetTheorems, WellFoundedInduction, TLAPS

(* Every set of natural numbers but the empty one has a least element.       *)
LEMMA LeastNatural ==
  ASSUME NEW T \in SUBSET Nat, T # {}
  PROVE  \E m \in T : \A n \in T : m <= n
<1> DEFINE R == OpToRel(<, Nat)
<1>1. IsWellFoundedOn(R, Nat)  BY NatLessThanWellFounded
<1>2. PICK x \in T : \A y \in T : ~ (<<y, x>> \in R)
  <2> HIDE DEF R
  <2> QED BY <1>1, WFMin
<1>3. \A y \in T : ~ (y < x)
  BY <1>2 DEF OpToRel
<1> QED BY <1>3

(* A set of numbers with a bound has a largest.                              *)
LEMMA LargestBelow ==
  ASSUME NEW n \in Nat, NEW S \in SUBSET (0 .. n), S # {}
  PROVE  \E m \in S : \A x \in S : x <= m
<1> DEFINE T == { n - x : x \in S }
<1>1. T \in SUBSET Nat /\ T # {}
  <2>1. \A x \in S : n - x \in Nat
    OBVIOUS
  <2>2. PICK x \in S : TRUE
    OBVIOUS
  <2>3. n - x \in T
    OBVIOUS
  <2> QED  BY <2>1, <2>3
<1>2. PICK t \in T : \A y \in T : t <= y
  <2> HIDE DEF T
  <2> QED  BY <1>1, LeastNatural
<1>3. PICK m \in S : t = n - m
  OBVIOUS
<1>4. \A x \in S : x <= m
  BY <1>2, <1>3
<1> QED  BY <1>4

(* Induction, over a set and not over a property.                            *)
LEMMA Induction ==
  ASSUME NEW T \in SUBSET Nat, 0 \in T, \A n \in T : n + 1 \in T
  PROVE  T = Nat
<1> SUFFICES ASSUME Nat \ T # {} PROVE FALSE
  OBVIOUS
<1>1. PICK m \in Nat \ T : \A n \in Nat \ T : m <= n
  BY LeastNatural
<1>2. m # 0 /\ m - 1 \in Nat /\ m - 1 \in T
  BY <1>1
<1> QED BY <1>2, <1>1

(* The values of g are got from e step by step.                              *)
Iterates(g, e, n, step) ==
  g[0] = e /\ \A k \in 1 .. n : g[k] = step[<< g[k - 1], k >>]

(* A function on 0 .. n can be defined by recursion.                         *)
LEMMA Recursion ==
  ASSUME NEW S, NEW e \in S, NEW n \in Nat, NEW step \in [S \X Nat -> S]
  PROVE  \E g \in [0 .. n -> S] : Iterates(g, e, n, step)
<1> DEFINE T == { m \in Nat : \E g \in [0 .. m -> S] : Iterates(g, e, m, step) }
<1>1. 0 \in T
  <2>1. /\ [k \in 0 .. 0 |-> e] \in [0 .. 0 -> S]
        /\ Iterates([k \in 0 .. 0 |-> e], e, 0, step)
    BY DEF Iterates
  <2> QED  BY <2>1
<1>2. ASSUME NEW m \in T PROVE m + 1 \in T
  <2>1. m \in Nat  OBVIOUS
  <2>2. PICK g \in [0 .. m -> S] : Iterates(g, e, m, step)  OBVIOUS
  <2> DEFINE h == [k \in 0 .. m + 1 |-> IF k <= m THEN g[k] ELSE step[<< g[m], m + 1 >>]]
  <2>3. \A k \in 0 .. m : h[k] = g[k] /\ g[k] \in S  BY <2>1, <2>2
  <2>4. h[m + 1] = step[<< g[m], m + 1 >>] /\ g[m] \in S  BY <2>1, <2>2
  <2>5. h \in [0 .. m + 1 -> S]
    <3>1. step[<< g[m], m + 1 >>] \in S  BY <2>1, <2>4
    <3> QED  BY <2>1, <2>3, <3>1
  <2> HIDE DEF h
  <2>6. \A k \in 1 .. m + 1 : h[k] = step[<< h[k - 1], k >>]
    <3> TAKE k \in 1 .. m + 1
    <3>1. CASE k <= m  BY <2>1, <2>2, <2>3, <3>1 DEF Iterates
    <3>2. CASE k = m + 1  BY <2>1, <2>3, <2>4, <3>2
    <3> QED  BY <2>1, <3>1, <3>2
  <2>7. Iterates(h, e, m + 1, step)  BY <2>1, <2>2, <2>3, <2>6 DEF Iterates
  <2> QED  BY <2>1, <2>5, <2>7
<1>3. n \in T
  <2> HIDE DEF T
  <2>1. T \in SUBSET Nat  BY DEF T
  <2> QED  BY <1>1, <1>2, <2>1, Induction
<1> QED  BY <1>3

(* The first k numbers are k.                                                *)
LEMMA CountTo ==
  ASSUME NEW k \in Nat
  PROVE  IsFiniteSet(1 .. k) /\ Cardinality(1 .. k) = k
<1>1. Cardinality(1 .. k) = (IF 1 > k THEN 0 ELSE k - 1 + 1) /\ IsFiniteSet(1 .. k)
  BY FS_Interval
<1> QED  BY <1>1

(* The defining equations of Walks.                                          *)
LEMMA WalksDef ==
  ASSUME NEW adj, Len(adj) \in Nat
  PROVE  LET Vs == 1 .. Len(adj)
             W == Walks(adj)
         IN  /\ W \in [0 .. Len(adj) -> SUBSET (Vs \X Vs)]
             /\ W[0] = { << v, v >> : v \in Vs }
             /\ \A len \in 1 .. Len(adj) :
                  W[len] = { p \in Vs \X Vs : \E w \in Vs : << p[1], w >> \in W[len - 1] /\ Adjacent(adj, w, p[2]) }
<1> DEFINE n == Len(adj)
           Vs == 1 .. n
           E == { p \in Vs \X Vs : Adjacent(adj, p[1], p[2]) }
           S == SUBSET (Vs \X Vs)
           Longer(R) == { p \in Vs \X Vs : \E w \in Vs : << p[1], w >> \in R /\ << w, p[2] >> \in E }
           step == [q \in S \X Nat |-> Longer(q[1])]
           body(g) == [len \in 0 .. n |-> IF len = 0 THEN { << v, v >> : v \in Vs } ELSE Longer(g[len - 1])]
<1>0. n \in Nat  OBVIOUS
<1>1. step \in [S \X Nat -> S]
  <2>1. \A R : Longer(R) \in S  OBVIOUS
  <2> QED  BY <2>1
<1>2. { << v, v >> : v \in Vs } \in S  OBVIOUS
<1>3. PICK g \in [0 .. n -> S] : Iterates(g, { << v, v >> : v \in Vs }, n, step)
  <2> HIDE DEF step, S, n
  <2> QED  BY <1>0, <1>1, <1>2, Recursion
<1>4. \A k \in 1 .. n : g[k] = Longer(g[k - 1])
  <2> TAKE k \in 1 .. n
  <2>1. k - 1 \in 0 .. n /\ k \in Nat  BY <1>0
  <2>2. g[k - 1] \in S  BY <2>1
  <2>3. g[k] = step[<< g[k - 1], k >>]  BY <1>3 DEF Iterates
  <2> HIDE DEF Longer, S
  <2> QED  BY <2>1, <2>2, <2>3
<1>5. g = body(g)
  <2> HIDE DEF Longer
  <2>1. \A k \in 0 .. n : g[k] = IF k = 0 THEN { << v, v >> : v \in Vs } ELSE Longer(g[k - 1])
    BY <1>0, <1>3, <1>4 DEF Iterates
  <2> QED  BY <2>1
<1>6. Walks(adj) = CHOOSE f : f = body(f)
  BY DEF Walks, Vertices
<1>7. Walks(adj) = body(Walks(adj))
  <2> HIDE DEF body
  <2> QED  BY <1>5, <1>6
<1>8. /\ Walks(adj)[0] = { << v, v >> : v \in Vs }
      /\ \A len \in 1 .. n : Walks(adj)[len] = Longer(Walks(adj)[len - 1])
  <2> HIDE DEF Longer
  <2> QED  BY <1>0, <1>7
<1>9. Walks(adj) \in [0 .. n -> S]
  <2>1. \A R : Longer(R) \in S  OBVIOUS
  <2> HIDE DEF Longer, S
  <2>2. \A len \in 0 .. n : body(Walks(adj))[len] \in S  BY <1>2, <2>1
  <2> QED  BY <1>7, <2>2
<1>10. \A R : Longer(R) = { p \in Vs \X Vs : \E w \in Vs : << p[1], w >> \in R /\ Adjacent(adj, w, p[2]) }
  OBVIOUS
<1> HIDE DEF Longer
<1> QED  BY <1>8, <1>9, <1>10

(* A walk of no edges stays where it is, and one more edge makes a walk longer. *)
LEMMA WalkSteps ==
  ASSUME NEW adj, Len(adj) \in Nat, NEW u, NEW v
  PROVE  LET Vs == 1 .. Len(adj)
             W == Walks(adj)
         IN  /\ << u, v >> \in W[0] <=> u \in Vs /\ u = v
             /\ \A len \in 1 .. Len(adj) :
                  << u, v >> \in W[len] <=>
                    u \in Vs /\ v \in Vs /\ \E w \in Vs : << u, w >> \in W[len - 1] /\ Adjacent(adj, w, v)
BY WalksDef

------------------------------------------------------------------------------
(* No edge leaves C.                                                         *)
NoEdgeLeaves(adj, C) ==
  \A w \in C : \A v \in 1 .. Len(adj) : Adjacent(adj, w, v) => v \in C

(* The vertices that walks of at most len edges from u come to.              *)
Within(adj, u, len) ==
  { v \in 1 .. Len(adj) : \E l \in 0 .. len : << u, v >> \in Walks(adj)[l] }

(* A walk stays in a set that no edge leaves.                                *)
LEMMA WalkStays ==
  ASSUME NEW adj, Len(adj) \in Nat, NEW C \in SUBSET (1 .. Len(adj)), NoEdgeLeaves(adj, C),
         NEW u \in C, NEW len \in 0 .. Len(adj)
  PROVE  \A v : << u, v >> \in Walks(adj)[len] => v \in C
<1> DEFINE W == Walks(adj)
           T == { l \in Nat : l <= Len(adj) => \A v : << u, v >> \in W[l] => v \in C }
<1>1. 0 \in T
  BY WalkSteps
<1>2. ASSUME NEW l \in T PROVE l + 1 \in T
  <2> SUFFICES ASSUME l + 1 <= Len(adj), NEW v, << u, v >> \in W[l + 1] PROVE v \in C
    OBVIOUS
  <2>1. l + 1 \in 1 .. Len(adj) /\ (l + 1) - 1 = l  OBVIOUS
  <2>2. v \in 1 .. Len(adj) /\ \E w \in 1 .. Len(adj) : << u, w >> \in W[l] /\ Adjacent(adj, w, v)
    <3> HIDE DEF W
    <3> QED  BY <2>1, WalkSteps DEF W
  <2> QED  BY <2>1, <2>2 DEF NoEdgeLeaves
<1>3. T = Nat
  <2> HIDE DEF T
  <2>1. T \in SUBSET Nat  BY DEF T
  <2> QED  BY <1>1, <1>2, <2>1, Induction
<1> QED  BY <1>3

(* Longer walks come to all that shorter ones do, and to what edges lead to. *)
LEMMA WithinGrows ==
  ASSUME NEW adj, Len(adj) \in Nat, NEW u \in 1 .. Len(adj), NEW len \in 0 .. Len(adj)
  PROVE  /\ u \in Within(adj, u, len)
         /\ Within(adj, u, len) \in SUBSET (1 .. Len(adj))
         /\ len < Len(adj) =>
              /\ Within(adj, u, len) \subseteq Within(adj, u, len + 1)
              /\ \A w \in Within(adj, u, len) : \A v \in 1 .. Len(adj) :
                   Adjacent(adj, w, v) => v \in Within(adj, u, len + 1)
<1>1. u \in Within(adj, u, len)
  BY WalkSteps DEF Within
<1>2. ASSUME len < Len(adj), NEW w \in Within(adj, u, len), NEW v \in 1 .. Len(adj),
             Adjacent(adj, w, v)
      PROVE  v \in Within(adj, u, len + 1)
  <2>1. PICK l \in 0 .. len : << u, w >> \in Walks(adj)[l]  BY <1>2 DEF Within
  <2>2. l + 1 \in 1 .. Len(adj) /\ (l + 1) - 1 = l /\ l + 1 \in 0 .. len + 1  BY <1>2
  <2>3. w \in 1 .. Len(adj)  BY DEF Within
  <2> DEFINE k == l + 1
  <2>4. << u, v >> \in Walks(adj)[k]
    <3>1. k \in 1 .. Len(adj) /\ k - 1 = l  BY <2>2
    <3> HIDE DEF k
    <3> QED  BY <1>2, <2>1, <2>3, <3>1, WalkSteps
  <2> QED  BY <2>2, <2>4 DEF Within
<1> QED  BY <1>1, <1>2 DEF Within

(* Every vertex a walk comes to, a walk with fewer edges than there are      *)
(* vertices comes to: as long as one more edge comes to a new vertex there   *)
(* are more and more of them.                                                *)
LEMMA ShortWalksReach ==
  ASSUME NEW adj, Len(adj) \in Nat, NEW u \in 1 .. Len(adj)
  PROVE  NoEdgeLeaves(adj, Within(adj, u, Len(adj) - 1))
<1> DEFINE n == Len(adj)
           A(len) == Within(adj, u, len)
           T == { l \in Nat : l < n => Cardinality(A(l)) > l }
<1>1. n \in Nat /\ n - 1 \in 0 .. n /\ n - 1 < n  OBVIOUS
<1>2. \A l : IsFiniteSet(A(l)) /\ Cardinality(A(l)) \in Nat /\ Cardinality(A(l)) <= n
  <2> TAKE l
  <2>1. A(l) \subseteq 1 .. n  BY DEF Within
  <2>2. IsFiniteSet(1 .. n) /\ Cardinality(1 .. n) = n  BY <1>1, CountTo
  <2> QED  BY <2>1, <2>2, FS_Subset, FS_CardinalityType
<1> SUFFICES ASSUME ~NoEdgeLeaves(adj, A(n - 1)) PROVE FALSE
  OBVIOUS
<1>3. 0 \in T
  <2>1. u \in A(0)  BY WithinGrows, <1>1
  <2>2. Cardinality(A(0)) # 0  BY <1>2, <2>1, FS_EmptySet
  <2> QED  BY <1>2, <2>2
<1>4. ASSUME NEW l \in T PROVE l + 1 \in T
  <2> SUFFICES ASSUME l + 1 < n PROVE Cardinality(A(l + 1)) > l + 1
    OBVIOUS
  <2>1. l \in Nat /\ l \in 0 .. n /\ l < n /\ Cardinality(A(l)) > l  BY <1>1
  <2>2. A(l) \subseteq A(l + 1) /\ \A w \in A(l) : \A v \in 1 .. n : Adjacent(adj, w, v) => v \in A(l + 1)
    BY <2>1, WithinGrows
  <2>3. A(l) # A(l + 1)
    <3> SUFFICES ASSUME A(l) = A(l + 1) PROVE FALSE
      OBVIOUS
    <3>1. NoEdgeLeaves(adj, A(l))  BY <2>2 DEF NoEdgeLeaves
    <3>2. A(n - 1) \subseteq A(l)
      <4>1. u \in A(l) /\ A(l) \in SUBSET (1 .. n)  BY <2>1, WithinGrows
      <4>2. \A k \in 0 .. n : \A v : << u, v >> \in Walks(adj)[k] => v \in A(l)
        BY <1>1, <3>1, <4>1, WalkStays
      <4> QED  BY <1>1, <4>2 DEF Within
    <3>3. A(l) \subseteq A(n - 1)
      BY <1>1, <2>1 DEF Within
    <3>4. A(l) = A(n - 1)  BY <3>2, <3>3
    <3> HIDE DEF A
    <3> QED  BY <3>1, <3>4
  <2>4. PICK x \in A(l + 1) : x \notin A(l)  BY <2>2, <2>3
  <2>5. Cardinality(A(l) \cup {x}) = Cardinality(A(l)) + 1  BY <1>2, <2>4, FS_AddElement
  <2>6. Cardinality(A(l) \cup {x}) <= Cardinality(A(l + 1))  BY <1>2, <2>2, <2>4, FS_Subset
  <2> HIDE DEF A
  <2> QED  BY <1>2, <2>1, <2>5, <2>6
<1>5. T = Nat
  <2> HIDE DEF T
  <2>1. T \in SUBSET Nat  BY DEF T
  <2> QED  BY <1>3, <1>4, <2>1, Induction
<1>6. Cardinality(A(n - 1)) = n
  <2>1. n - 1 \in T  BY <1>1, <1>5
  <2> HIDE DEF A
  <2> QED  BY <1>1, <1>2, <2>1
<1>7. A(n - 1) = 1 .. n
  <2>1. A(n - 1) \subseteq 1 .. n  BY DEF Within
  <2>2. IsFiniteSet(1 .. n) /\ Cardinality(1 .. n) = n  BY <1>1, CountTo
  <2> QED  BY <1>6, <2>1, <2>2, FS_Subset
<1> QED  BY <1>7 DEF NoEdgeLeaves

(* u is joined to v by a walk, perhaps of no edges, exactly if v is in every *)
(* set with u that no edge leaves.                                           *)
LEMMA ReachesOrIsClosed ==
  ASSUME NEW adj, Len(adj) \in Nat, NEW u \in 1 .. Len(adj), NEW v \in 1 .. Len(adj)
  PROVE  ReachesOrIs(adj, u, v) <=>
           \A C \in SUBSET (1 .. Len(adj)) : u \in C /\ NoEdgeLeaves(adj, C) => v \in C
<1>1. ReachesOrIs(adj, u, v) <=> \E len \in 0 .. Len(adj) : << u, v >> \in Walks(adj)[len]
  <2>1. << u, v >> \in Walks(adj)[0] <=> u = v  BY WalkSteps
  <2> QED  BY <2>1 DEF ReachesOrIs, Reaches
<1>2. ASSUME NEW len \in 0 .. Len(adj), << u, v >> \in Walks(adj)[len],
             NEW C \in SUBSET (1 .. Len(adj)), u \in C, NoEdgeLeaves(adj, C)
      PROVE  v \in C
  BY <1>2, WalkStays
<1>3. ASSUME \A C \in SUBSET (1 .. Len(adj)) : u \in C /\ NoEdgeLeaves(adj, C) => v \in C
      PROVE  \E len \in 0 .. Len(adj) : << u, v >> \in Walks(adj)[len]
  <2> DEFINE C == Within(adj, u, Len(adj) - 1)
  <2>1. C \in SUBSET (1 .. Len(adj)) /\ u \in C  BY WithinGrows
  <2>2. v \in C  BY <1>3, <2>1, ShortWalksReach
  <2> QED  BY <2>2 DEF Within
<1> QED  BY <1>1, <1>2, <1>3

(* u is joined to v by a walk of at least one edge exactly if it is joined,  *)
(* perhaps by none, to a vertex that an edge joins to v.                     *)
LEMMA ReachesByLastEdge ==
  ASSUME NEW adj, Len(adj) \in Nat, NEW u \in 1 .. Len(adj), NEW v \in 1 .. Len(adj)
  PROVE  Reaches(adj, u, v) <=>
           \E w \in 1 .. Len(adj) : ReachesOrIs(adj, u, w) /\ Adjacent(adj, w, v)
<1>1. ASSUME Reaches(adj, u, v)
      PROVE  \E w \in 1 .. Len(adj) : ReachesOrIs(adj, u, w) /\ Adjacent(adj, w, v)
  <2>1. PICK len \in 1 .. Len(adj) : << u, v >> \in Walks(adj)[len]  BY <1>1 DEF Reaches
  <2>2. PICK w \in 1 .. Len(adj) : << u, w >> \in Walks(adj)[len - 1] /\ Adjacent(adj, w, v)
    BY <2>1, WalkSteps
  <2>3. len - 1 \in 0 .. Len(adj)  OBVIOUS
  <2>4. ReachesOrIs(adj, u, w)
    <3>1. CASE len - 1 = 0  BY <2>2, <3>1, WalkSteps DEF ReachesOrIs
    <3>2. CASE len - 1 # 0  BY <2>2, <2>3, <3>2 DEF ReachesOrIs, Reaches
    <3> QED  BY <3>1, <3>2
  <2> QED  BY <2>2, <2>4
<1>2. ASSUME NEW w \in 1 .. Len(adj), ReachesOrIs(adj, u, w), Adjacent(adj, w, v)
      PROVE  Reaches(adj, u, v)
  <2> DEFINE C == Within(adj, u, Len(adj) - 1)
  <2>1. C \in SUBSET (1 .. Len(adj)) /\ u \in C  BY WithinGrows
  <2>2. w \in C  BY <1>2, <2>1, ShortWalksReach, ReachesOrIsClosed
  <2>3. PICK len \in 0 .. Len(adj) - 1 : << u, w >> \in Walks(adj)[len]  BY <2>2 DEF Within
  <2>4. len + 1 \in 1 .. Len(adj) /\ (len + 1) - 1 = len  BY <2>3
  <2>5. << u, v >> \in Walks(adj)[len + 1]  BY <1>2, <2>3, <2>4, WalkSteps
  <2> QED  BY <2>4, <2>5 DEF Reaches
<1> QED  BY <1>1, <1>2

(* Being joined is transitive, and an edge joins.                            *)
LEMMA ReachesOrIsFacts ==
  ASSUME NEW adj, Len(adj) \in Nat
  PROVE  LET Vs == 1 .. Len(adj)
         IN  /\ \A u \in Vs : ReachesOrIs(adj, u, u)
             /\ \A u, v \in Vs : Adjacent(adj, u, v) => ReachesOrIs(adj, u, v)
             /\ \A u, v, w \in Vs :
                  ReachesOrIs(adj, u, v) /\ ReachesOrIs(adj, v, w) => ReachesOrIs(adj, u, w)
<1>1. \A u \in 1 .. Len(adj) : ReachesOrIs(adj, u, u)
  BY DEF ReachesOrIs
<1>2. \A u, v \in 1 .. Len(adj) : Adjacent(adj, u, v) => ReachesOrIs(adj, u, v)
  BY <1>1, ReachesByLastEdge DEF ReachesOrIs
<1>3. \A u, v, w \in 1 .. Len(adj) :
        ReachesOrIs(adj, u, v) /\ ReachesOrIs(adj, v, w) => ReachesOrIs(adj, u, w)
  BY ReachesOrIsClosed
<1> QED  BY <1>1, <1>2, <1>3
------------------------------------------------------------------------------
(* No set of vertices of S has an edge to each of its members from another   *)
(* or the same one.                                                          *)
NoCycleIn(adj, S) ==
  \A C \in SUBSET S : C # {} => \E v \in C : \A w \in C : ~Adjacent(adj, w, v)

(* Where walks of len edges end.                                             *)
Ends(adj, len) ==
  { v \in 1 .. Len(adj) : \E u \in 1 .. Len(adj) : << u, v >> \in Walks(adj)[len] }

LEMMA EndsStep ==
  ASSUME NEW adj, Len(adj) \in Nat, NEW len \in Nat
  PROVE  /\ Ends(adj, 0) = 1 .. Len(adj)
         /\ len < Len(adj) =>
              Ends(adj, len + 1) =
                { v \in 1 .. Len(adj) : \E w \in Ends(adj, len) : Adjacent(adj, w, v) }
<1>1. Ends(adj, 0) = 1 .. Len(adj)
  BY WalkSteps DEF Ends
<1>2. ASSUME len < Len(adj), NEW v \in 1 .. Len(adj)
      PROVE  v \in Ends(adj, len + 1) <=> \E w \in Ends(adj, len) : Adjacent(adj, w, v)
  <2> DEFINE k == len + 1
  <2>1. k \in 1 .. Len(adj) /\ k - 1 = len  BY <1>2
  <2> HIDE DEF k
  <2>2. \A u : << u, v >> \in Walks(adj)[k] <=>
                u \in 1 .. Len(adj) /\ \E w \in 1 .. Len(adj) :
                  << u, w >> \in Walks(adj)[len] /\ Adjacent(adj, w, v)
    <3> TAKE u
    <3> QED  BY <1>2, <2>1, WalkSteps
  <2>3. v \in Ends(adj, k) <=> \E u \in 1 .. Len(adj) : << u, v >> \in Walks(adj)[k]
    BY DEF Ends
  <2>4. \A w : w \in Ends(adj, len) <=>
                w \in 1 .. Len(adj) /\ \E u \in 1 .. Len(adj) : << u, w >> \in Walks(adj)[len]
    BY DEF Ends
  <2>5. v \in Ends(adj, k) <=> \E w \in Ends(adj, len) : Adjacent(adj, w, v)
    BY <2>2, <2>3, <2>4
  <2> QED  BY <2>5 DEF k
<1>3. Ends(adj, len + 1) \subseteq 1 .. Len(adj)
  BY DEF Ends
<1> QED  BY <1>1, <1>2, <1>3

(* In a cycle there are walks of any length.                                 *)
LEMMA CycleHasWalks ==
  ASSUME NEW adj, Len(adj) \in Nat, NEW C \in SUBSET (1 .. Len(adj)),
         \A v \in C : \E w \in C : Adjacent(adj, w, v)
  PROVE  \A len \in 0 .. Len(adj) : C \subseteq Ends(adj, len)
<1> DEFINE T == { l \in Nat : l <= Len(adj) => C \subseteq Ends(adj, l) }
<1>1. 0 \in T
  BY EndsStep
<1>2. ASSUME NEW l \in T PROVE l + 1 \in T
  <2> SUFFICES ASSUME l + 1 <= Len(adj) PROVE C \subseteq Ends(adj, l + 1)
    OBVIOUS
  <2>1. C \subseteq Ends(adj, l)  OBVIOUS
  <2>2. Ends(adj, l + 1) = { v \in 1 .. Len(adj) : \E w \in Ends(adj, l) : Adjacent(adj, w, v) }
    <3>1. l \in Nat /\ l < Len(adj)  OBVIOUS
    <3> QED  BY <3>1, EndsStep
  <2> QED  BY <2>1, <2>2
<1>3. T = Nat
  <2> HIDE DEF T
  <2>1. T \in SUBSET Nat  BY DEF T
  <2> QED  BY <1>1, <1>2, <2>1, Induction
<1> QED  BY <1>3

(* Without a cycle there are ever fewer ends of longer walks.                *)
LEMMA EndsShrink ==
  ASSUME NEW adj, Len(adj) \in Nat, NoCycleIn(adj, 1 .. Len(adj))
  PROVE  \A len \in 0 .. Len(adj) : Cardinality(Ends(adj, len)) <= Len(adj) - len
<1> DEFINE n == Len(adj)
           B(l) == Ends(adj, l)
           T == { l \in Nat : l <= n => Cardinality(B(l)) <= n - l /\ (l < n => B(l + 1) \subseteq B(l)) }
<1>0. IsFiniteSet(1 .. n) /\ Cardinality(1 .. n) = n
  BY CountTo
<1>1. \A l : B(l) \subseteq 1 .. n /\ IsFiniteSet(B(l)) /\ Cardinality(B(l)) \in Nat
  <2> TAKE l
  <2>1. B(l) \subseteq 1 .. n  BY DEF Ends
  <2> HIDE DEF B
  <2> QED  BY <1>0, <2>1, FS_Subset, FS_CardinalityType
<1>2. 0 \in T
  <2>1. B(0) = 1 .. n  BY EndsStep
  <2>2. B(0 + 1) \subseteq B(0)  BY <1>1, <2>1
  <2> HIDE DEF B
  <2> QED  BY <1>0, <2>1, <2>2
<1>3. ASSUME NEW l \in T PROVE l + 1 \in T
  <2> DEFINE k == l + 1
  <2> SUFFICES ASSUME k <= n PROVE Cardinality(B(k)) <= n - k /\ (k < n => B(k + 1) \subseteq B(k))
    OBVIOUS
  <2>1. l \in Nat /\ l < n /\ Cardinality(B(l)) <= n - l /\ B(k) \subseteq B(l)
    OBVIOUS
  <2>2. B(k) = { v \in 1 .. n : \E w \in B(l) : Adjacent(adj, w, v) }
    BY <2>1, EndsStep
  <2>3. k < n => B(k + 1) = { v \in 1 .. n : \E w \in B(k) : Adjacent(adj, w, v) }
    BY <2>1, EndsStep
  <2>4. k < n => B(k + 1) \subseteq B(k)
    <3> HIDE DEF B, k
    <3> QED  BY <2>1, <2>2, <2>3
  <2>5. CASE B(l) = {}
    <3>1. B(k) = {}  BY <2>2, <2>5
    <3>2. Cardinality(B(k)) = 0  BY <3>1, FS_EmptySet
    <3> HIDE DEF B
    <3> QED  BY <2>1, <2>4, <3>2
  <2>6. CASE B(l) # {}
    <3>1. PICK v \in B(l) : \A w \in B(l) : ~Adjacent(adj, w, v)
      BY <1>1, <2>6 DEF NoCycleIn
    <3>2. v \notin B(k)  BY <2>2, <3>1
    <3> HIDE DEF B
    <3>3. Cardinality(B(k)) < Cardinality(B(l))
      BY <1>1, <2>1, <3>1, <3>2, FS_Subset
    <3> QED  BY <1>1, <2>1, <2>4, <3>3
  <2> QED  BY <2>5, <2>6
<1>4. T = Nat
  <2> HIDE DEF T
  <2>1. T \in SUBSET Nat  BY DEF T
  <2> QED  BY <1>2, <1>3, <2>1, Induction
<1>5. ASSUME NEW len \in 0 .. n PROVE Cardinality(B(len)) <= n - len
  <2>1. len \in T  BY <1>4
  <2> HIDE DEF B
  <2> QED  BY <2>1
<1> QED  BY <1>5

(* A digraph is acyclic, by its walks, exactly if it has no cycle.           *)
LEMMA AcyclicMeans ==
  ASSUME NEW adj, Len(adj) \in Nat
  PROVE  IsAcyclic(adj) <=> NoCycleIn(adj, 1 .. Len(adj))
<1> DEFINE n == Len(adj)
           Vs == 1 .. n
           W == Walks(adj)
<1>1. W[n] = {} <=> Ends(adj, n) = {}
  <2>1. n \in 0 .. n  OBVIOUS
  <2>2. W[n] \in SUBSET (Vs \X Vs)
    <3>1. W \in [0 .. n -> SUBSET (Vs \X Vs)]  BY WalksDef
    <3> HIDE DEF W
    <3> QED  BY <2>1, <3>1
  <2>3. \A v : v \in Ends(adj, n) <=> v \in Vs /\ \E u \in Vs : << u, v >> \in W[n]
    BY DEF Ends
  <2>4. \A p \in W[n] : p[1] \in Vs /\ p[2] \in Vs /\ p = << p[1], p[2] >>
    BY <2>2
  <2> HIDE DEF W
  <2> QED  BY <2>3, <2>4
<1>2. ASSUME ~NoCycleIn(adj, Vs) PROVE Ends(adj, n) # {} /\ adj # << >>
  <2>1. PICK C \in SUBSET Vs : C # {} /\ \A v \in C : \E w \in C : Adjacent(adj, w, v)
    BY <1>2 DEF NoCycleIn
  <2>2. n \in 0 .. n  OBVIOUS
  <2>3. C \subseteq Ends(adj, n)  BY <2>1, <2>2, CycleHasWalks
  <2>4. PICK v \in C : TRUE  BY <2>1
  <2>5. v \in 1 .. n  BY <2>4
  <2>6. n # 0  BY <2>5
  <2> QED  BY <2>3, <2>4, <2>6
<1>3. ASSUME NoCycleIn(adj, Vs) PROVE Ends(adj, n) = {}
  <2>1. Cardinality(Ends(adj, n)) <= 0  BY <1>3, EndsShrink
  <2>2. Ends(adj, n) \subseteq Vs  BY DEF Ends
  <2>3. IsFiniteSet(Vs)  BY CountTo
  <2>4. IsFiniteSet(Ends(adj, n)) /\ Cardinality(Ends(adj, n)) \in Nat
    BY <2>2, <2>3, FS_Subset, FS_CardinalityType
  <2>5. Cardinality(Ends(adj, n)) = 0  BY <2>1, <2>4
  <2> QED  BY <2>4, <2>5, FS_EmptySet
<1> HIDE DEF W
<1> QED  BY <1>1, <1>2, <1>3 DEF IsAcyclic, W

------------------------------------------------------------------------------
(* What every call starts from, and keeps.                                   *)
LEMMA DigraphFacts ==
  ASSUME call \in Calls
  PROVE  /\ N \in Nat /\ V = 1 .. N
         /\ D \in [V -> Seq(V)]
         /\ \A v \in V : Len(D[v]) \in Nat
         /\ \A v \in V : \A e \in 1 .. Len(D[v]) : D[v][e] \in V
<1>1. D \in Seq(Seq(1 .. Len(D)))
  BY CallsAssumption DEF D, IsDigraph
<1>2. Len(D) \in Nat /\ D \in [1 .. Len(D) -> Seq(1 .. Len(D))]
  BY <1>1
<1> QED  BY <1>2 DEF V, N, Vertices

LEMMA CallKept ==
  ASSUME Next
  PROVE  call' = call
BY DEF Next, Running, CONNECTED_COMPONENTS, TakeEdge, UF_FIND, UF_COMBINE_CLASSES,
       AllEdgesTaken, NumberNext, Name, AllNamed, InStage, FLOYD_WARSHALL,
       GABOW_SCC, IS_STRONGLY_CONNECTED, IS_ACYCLIC, LONGEST_DIST, TRANS_REDUCTION, PATH,
       IS_ANTISYMMETRIC, TOPO_SORT, SPANNING_FOREST, EQUALS, LT, EdgeLoop, FROM_SOURCE_RANGE

------------------------------------------------------------------------------
(***************************************************************************)
(* FLOYD_WARSHALL.  After the passes for the vertices below k the matrix of  *)
(* a closure is closed under going by way of any of them.  In the middle of  *)
(* the pass for k it need not be: an entry just made may lead on to one that *)
(* this pass has not come to yet.  But what is missing is always an entry    *)
(* that goes by way of k, the row and the column of k themselves are not     *)
(* changed by their own pass, and all that goes by way of k is there when    *)
(* the pass ends.                                                            *)
(***************************************************************************)

Known(d, u, v) == d[<< u, v >>] # 0
LexBefore(u, v, i, j) == u < i \/ (u = i /\ v < j)

ClosedBelow(W, d, k) ==
  \A m \in W : m < k =>
    \A u, v \in W : Known(d, u, m) /\ Known(d, m, v) =>
      \/ Known(d, u, v)
      \/ k \in W /\ Known(d, u, k) /\ Known(d, k, v)

ClosedSoFar(W, d, k, i, j) ==
  k \in W => \A u, v \in W :
    LexBefore(u, v, i, j) /\ Known(d, u, k) /\ Known(d, k, v) => Known(d, u, v)

DiagonalSoFar(W, d, k, i, j) ==
  \A v \in W : k > 1 \/ LexBefore(v, v, i, j) => Known(d, v, v)

(* One entry, as FW_FUNC_TRANS_CLOSURE (or, with reflexive, the other one)   *)
(* leaves it.                                                                *)
Entered(d, e, reflexive, i, j, k) ==
  e = [d EXCEPT ![<< i, j >>] =
         IF (reflexive /\ i = j) \/ (Known(d, i, k) /\ Known(d, k, j)) THEN 1 ELSE @]

(* What that means for the pairs that are known.                             *)
OneMore(W, d, e, reflexive, i, j, k) ==
  \A u, v \in W :
    Known(e, u, v) <=>
      \/ Known(d, u, v)
      \/ /\ u = i /\ v = j
         /\ (reflexive /\ i = j) \/ (Known(d, i, k) /\ Known(d, k, j))

LEMMA EntryKnown ==
  ASSUME NEW W, NEW d \in [W \X W -> {0, 1}], NEW e, NEW reflexive \in BOOLEAN,
         NEW i \in W, NEW j \in W, NEW k \in W,
         Entered(d, e, reflexive, i, j, k)
  PROVE  e \in [W \X W -> {0, 1}] /\ OneMore(W, d, e, reflexive, i, j, k)
<1>1. e \in [W \X W -> {0, 1}]
  BY DEF Entered
<1>2. ASSUME NEW u \in W, NEW v \in W
      PROVE  Known(e, u, v) <=>
                \/ Known(d, u, v)
                \/ /\ u = i /\ v = j
                   /\ (reflexive /\ i = j) \/ (Known(d, i, k) /\ Known(d, k, j))
  <2>1. CASE u = i /\ v = j
    BY <2>1 DEF Entered, Known
  <2>2. CASE ~(u = i /\ v = j)
    <3>1. << u, v >> # << i, j >> /\ << u, v >> \in W \X W
      BY <2>2
    <3>2. e[<< u, v >>] = d[<< u, v >>]
      BY <3>1 DEF Entered
    <3> QED  BY <2>2, <3>2 DEF Known
  <2> QED  BY <2>1, <2>2
<1> QED  BY <1>1, <1>2 DEF OneMore

(* The entry keeps what the middle of the pass is about.                     *)
LEMMA EntryKeeps ==
  ASSUME NEW W, W \subseteq Nat, NEW d, NEW e, NEW reflexive \in BOOLEAN,
         NEW i \in W, NEW j \in W, NEW k \in W,
         OneMore(W, d, e, reflexive, i, j, k),
         ClosedBelow(W, d, k), ClosedSoFar(W, d, k, i, j)
  PROVE  /\ ClosedBelow(W, e, k)
         /\ ClosedSoFar(W, e, k, i, j)
         /\ Known(e, i, k) /\ Known(e, k, j) => Known(e, i, j)
<1>0. \A u, v \in W :
        Known(e, u, v) <=>
          \/ Known(d, u, v)
          \/ /\ u = i /\ v = j
             /\ (reflexive /\ i = j) \/ (Known(d, i, k) /\ Known(d, k, j))
  BY DEF OneMore
<1> DEFINE kn(u, v) == Known(d, u, v)
           new(u, v) == Known(e, u, v)
<1>1. ASSUME NEW m \in W, m < k, NEW u \in W, NEW v \in W, new(u, m), new(m, v)
      PROVE  new(u, v) \/ (new(u, k) /\ new(k, v))
  <2>1. kn(u, m) /\ kn(m, v) => kn(u, v) \/ (kn(u, k) /\ kn(k, v))
    BY <1>1 DEF ClosedBelow
  <2>2. kn(k, m) /\ kn(m, v) => kn(k, v)
    BY <1>1 DEF ClosedBelow
  <2>3. kn(u, m) /\ kn(m, k) => kn(u, k)
    BY <1>1 DEF ClosedBelow
  <2> QED  BY <1>0, <1>1, <2>1, <2>2, <2>3
<1>2. ASSUME NEW u \in W, NEW v \in W, LexBefore(u, v, i, j), new(u, k), new(k, v)
      PROVE  new(u, v)
  <2>1. kn(u, k) /\ kn(k, v) => kn(u, v)
    BY <1>2 DEF ClosedSoFar
  <2> QED  BY <1>0, <1>2, <2>1
<1>3. new(i, k) /\ new(k, j) => new(i, j)
  BY <1>0
<1> QED  BY <1>1, <1>2, <1>3 DEF ClosedBelow, ClosedSoFar

(* What the pass ends with.                                                  *)
LEMMA PassEnds ==
  ASSUME NEW n \in Nat, NEW W, W = 1 .. n, NEW d, NEW k \in W,
         ClosedBelow(W, d, k), ClosedSoFar(W, d, k, n, n),
         Known(d, n, k) /\ Known(d, k, n) => Known(d, n, n)
  PROVE  /\ ClosedBelow(W, d, k + 1)
         /\ ClosedSoFar(W, d, k + 1, 1, 1)
<1>1. ASSUME NEW u \in W, NEW v \in W, Known(d, u, k), Known(d, k, v)
      PROVE  Known(d, u, v)
  <2>1. LexBefore(u, v, n, n) \/ (u = n /\ v = n)
    BY DEF LexBefore
  <2> QED  BY <1>1, <2>1 DEF ClosedSoFar
<1>2. ASSUME NEW m \in W, m < k + 1, NEW u \in W, NEW v \in W, Known(d, u, m), Known(d, m, v)
      PROVE  Known(d, u, v)
  <2>1. m < k \/ m = k
    BY <1>2
  <2> QED  BY <1>1, <1>2, <2>1 DEF ClosedBelow
<1>3. \A u, v \in W : ~LexBefore(u, v, 1, 1)
  BY DEF LexBefore
<1> QED  BY <1>2, <1>3 DEF ClosedBelow, ClosedSoFar

(* What the pass has done before the next position is what it had done before*)
(* this one, and this one.                                                   *)
LEMMA PassGoesOn ==
  ASSUME NEW W, W \subseteq Nat, NEW d, NEW k, NEW i \in W, NEW j \in W, NEW i2, NEW j2,
         \A u, v \in W : LexBefore(u, v, i2, j2) => LexBefore(u, v, i, j) \/ (u = i /\ v = j),
         ClosedSoFar(W, d, k, i, j),
         Known(d, i, k) /\ Known(d, k, j) => Known(d, i, j)
  PROVE  ClosedSoFar(W, d, k, i2, j2)
BY DEF ClosedSoFar

------------------------------------------------------------------------------
FWLocType ==
  [ k : Nat, i : Nat, j : Nat,
    dist : [V \X V -> {0, 1}], adj : [V \X V -> {0, 1}] ]

FWTypeOK ==
  /\ loc \in FWLocType
  /\ loc.k \in 1 .. N + 1
  /\ loc.k <= N => loc.i \in V /\ loc.j \in V

(* The matrix lies between the edges and every relation that is sought.      *)
Between ==
  /\ \A p \in V \X V : loc.adj[p] # 0 <=> p \in Edges
  /\ \A p \in Edges : loc.dist[p] # 0
  /\ \A R \in SUBSET (V \X V) : Sought(call.fn, R) =>
       \A p \in V \X V : loc.dist[p] # 0 => p \in R

PassesRight ==
  /\ ClosedBelow(V, loc.dist, loc.k)
  /\ ClosedSoFar(V, loc.dist, loc.k, loc.i, loc.j)
  /\ call.fn = "REFLEX_TRANS_CLOSURE" => DiagonalSoFar(V, loc.dist, loc.k, loc.i, loc.j)

FWInv ==
  /\ call \in Calls
  /\ call.fn \in Closures =>
       /\ FWTypeOK
       /\ Between
       /\ PassesRight
       /\ answer # << >> =>
            /\ loc.k = N + 1
            /\ Result = IF call.fn = "IS_TRANSITIVE"
                        THEN \A p \in V \X V : loc.adj[p] = loc.dist[p] ELSE loc.dist

(* After the last pass the matrix is what is sought, and the least such.     *)
LEMMA PassesGiveClosure ==
  ASSUME FWInv
  PROVE  ClosureRight
<1> SUFFICES ASSUME call.fn \in Closures, answer # << >>
             PROVE  ClosureRight
  BY DEF ClosureRight, Answered, Closures
<1>1. N \in Nat /\ V = 1 .. N
  BY DigraphFacts DEF FWInv
<1>2. FWTypeOK /\ Between /\ PassesRight /\ loc.k = N + 1
  BY DEF FWInv
<1> DEFINE closure == { p \in V \X V : loc.dist[p] # 0 }
<1>3. Edges \subseteq closure
  BY <1>2 DEF Between, Edges
<1>4. TransitiveRel(closure)
  <2> SUFFICES ASSUME NEW u \in V, NEW v \in V, NEW w \in V,
                      << u, v >> \in closure, << v, w >> \in closure
               PROVE  << u, w >> \in closure
    BY DEF TransitiveRel
  <2>1. v < loc.k /\ loc.k \notin V
    BY <1>1, <1>2
  <2>2. Known(loc.dist, u, v) /\ Known(loc.dist, v, w)
    BY DEF Known
  <2>3. Known(loc.dist, u, w)
    BY <1>2, <2>1, <2>2 DEF PassesRight, ClosedBelow
  <2> QED  BY <2>3 DEF Known
<1>5. call.fn = "REFLEX_TRANS_CLOSURE" => ReflexiveRel(closure)
  <2> SUFFICES ASSUME call.fn = "REFLEX_TRANS_CLOSURE", NEW v \in V
               PROVE  << v, v >> \in closure
    BY DEF ReflexiveRel
  <2>1. loc.k > 1
    BY <1>1, <1>2
  <2>2. Known(loc.dist, v, v)
    BY <1>2, <2>1 DEF PassesRight, DiagonalSoFar
  <2> QED  BY <2>2 DEF Known
<1>6. \A R \in SUBSET (V \X V) : Sought(call.fn, R) => closure \subseteq R
  BY <1>2 DEF Between
<1>7. CASE call.fn \in { "TRANS_CLOSURE", "REFLEX_TRANS_CLOSURE" }
  <2>1. Result = loc.dist
    BY <1>7 DEF FWInv
  <2>2. Sought(call.fn, closure)
    BY <1>3, <1>4, <1>5 DEF Sought
  <2> QED  BY <1>6, <1>7, <2>1, <2>2 DEF ClosureRight, Answered
<1>8. CASE call.fn = "IS_TRANSITIVE"
  <2>1. Result = (\A p \in V \X V : loc.adj[p] = loc.dist[p])
    BY <1>8 DEF FWInv
  <2>2. ASSUME \A p \in V \X V : loc.adj[p] = loc.dist[p]
        PROVE  TransitiveRel(Edges)
    <3>1. \A p \in V \X V : p \in closure <=> p \in Edges
      BY <1>2, <2>2 DEF Between
    <3>2. Edges \subseteq V \X V
      BY DEF Edges
    <3>3. closure = Edges
      BY <3>1, <3>2
    <3> QED  BY <1>4, <3>3
  <2>3. ASSUME TransitiveRel(Edges)
        PROVE  \A p \in V \X V : loc.adj[p] = loc.dist[p]
    <3>1. Edges \in SUBSET (V \X V) /\ Sought(call.fn, Edges)
      BY <1>8, <2>3 DEF Edges, Sought
    <3>2. closure \subseteq Edges
      BY <1>6, <3>1
    <3> SUFFICES ASSUME NEW p \in V \X V PROVE loc.adj[p] = loc.dist[p]
      OBVIOUS
    <3>3. loc.adj[p] \in {0, 1} /\ loc.dist[p] \in {0, 1}
      BY <1>2 DEF FWTypeOK, FWLocType
    <3>4. loc.dist[p] # 0 <=> p \in Edges
      BY <1>3, <3>2
    <3>5. loc.adj[p] # 0 <=> p \in Edges
      BY <1>2 DEF Between
    <3> QED  BY <3>3, <3>4, <3>5
  <2>4. Result = TransitiveRel(Edges)
    BY <2>1, <2>2, <2>3 DEF TransitiveRel
  <2> QED  BY <1>8, <2>4 DEF ClosureRight, Answered
<1> QED  BY <1>7, <1>8 DEF Closures

LEMMA FWInitial == Init => FWInv
<1> SUFFICES ASSUME Init PROVE FWInv
  OBVIOUS
<1>0. call \in Calls /\ answer = << >>
  BY DEF Init
<1> SUFFICES ASSUME call.fn \in Closures PROVE FWTypeOK /\ Between /\ PassesRight
  BY <1>0 DEF FWInv
<1>1. N \in Nat /\ V = 1 .. N
  BY <1>0, DigraphFacts
<1>2. loc = MatrixLocals
  BY DEF Init, InitialLocals, Closures, MatrixFunctions, Distances, Searches, Rooted, FromOne,
         LoopFunctions, Counts
<1>3. call.fn \notin Distances
  BY DEF Closures, Distances
<1>4. InitialDist = [p \in V \X V |-> IF Adjacent(D, p[1], p[2]) THEN 1 ELSE 0]
  BY <1>3 DEF InitialDist, NoEntry
<1>5. InitialDist \in [V \X V -> {0, 1}]
  BY <1>4
<1>6. \A p \in V \X V : InitialDist[p] # 0 <=> p \in Edges
  BY <1>4 DEF Edges
<1>7. loc.k = 1 /\ loc.i = 1 /\ loc.j = 1 /\ loc.dist = InitialDist /\ loc.adj = InitialDist
  BY <1>2 DEF MatrixLocals
<1>8. FWTypeOK
  <2>1. loc \in FWLocType
    BY <1>2, <1>5 DEF FWLocType, MatrixLocals
  <2> QED  BY <1>1, <1>7, <2>1 DEF FWTypeOK
<1>9. Between
  <2>1. Edges \subseteq V \X V
    BY DEF Edges
  <2> QED  BY <1>6, <1>7, <2>1 DEF Between, Sought
<1>10. PassesRight
  <2>1. \A u, v \in V : ~LexBefore(u, v, 1, 1)
    BY <1>1 DEF LexBefore
  <2>2. \A m \in V : ~(m < 1)
    BY <1>1
  <2> QED  BY <1>7, <2>1, <2>2 DEF PassesRight, ClosedBelow, ClosedSoFar, DiagonalSoFar
<1> QED  BY <1>8, <1>9, <1>10

------------------------------------------------------------------------------
FWStepFacts ==
  /\ call' = call /\ call \in Calls /\ call.fn \in Closures
  /\ FWTypeOK /\ Between /\ PassesRight
  /\ answer = << >>

FWReflexive == call.fn = "REFLEX_TRANS_CLOSURE"

(* The entry made by a step of Relax.                                        *)
LEMMA RelaxEntry ==
  ASSUME FWStepFacts, Relax
  PROVE  /\ loc.i \in V /\ loc.j \in V /\ loc.k \in V
         /\ Entered(loc.dist, loc'.dist, FWReflexive, loc.i, loc.j, loc.k)
         /\ loc'.adj = loc.adj
         /\ answer' = answer
<1>1. N \in Nat /\ V = 1 .. N
  BY DigraphFacts DEF FWStepFacts
<1>2. loc \in FWLocType /\ loc.k \in 1 .. N + 1 /\ loc.k <= N /\ loc.i \in V /\ loc.j \in V
  BY DEF FWStepFacts, FWTypeOK, Relax
<1>3. loc.k \in V
  BY <1>1, <1>2
<1>4. /\ loc'.dist = [loc.dist EXCEPT ![<< loc.i, loc.j >>] = NewEntry(loc.dist, loc.i, loc.j, loc.k)]
      /\ loc'.adj = loc.adj
      /\ answer' = answer
  BY <1>2 DEF Relax, Continue, FWLocType
<1>5. NewEntry(loc.dist, loc.i, loc.j, loc.k) =
        IF (FWReflexive /\ loc.i = loc.j) \/ (Known(loc.dist, loc.i, loc.k) /\ Known(loc.dist, loc.k, loc.j))
        THEN 1 ELSE loc.dist[<< loc.i, loc.j >>]
  <2>1. call.fn \in Closures
    BY DEF FWStepFacts
  <2> QED  BY <2>1 DEF NewEntry, FW_FUNC_TRANS_CLOSURE, FW_FUNC_REFLEX_TRANS_CLOSURE, Known,
                      FWReflexive, Closures, Distances
<1>6. << loc.i, loc.j >> \in V \X V /\ loc.dist \in [V \X V -> {0, 1}]
  BY <1>2 DEF FWLocType
<1>7. Entered(loc.dist, loc'.dist, FWReflexive, loc.i, loc.j, loc.k)
  BY <1>4, <1>5, <1>6 DEF Entered
<1> QED  BY <1>2, <1>3, <1>4, <1>7

LEMMA RelaxStep ==
  ASSUME FWStepFacts, Relax
  PROVE  FWTypeOK' /\ Between' /\ PassesRight' /\ answer' = answer
<1>1. N \in Nat /\ V = 1 .. N /\ V \subseteq Nat
  BY DigraphFacts DEF FWStepFacts
<1>2. D' = D /\ V' = V /\ N' = N /\ Edges' = Edges /\ FWLocType' = FWLocType
  BY DEF FWStepFacts, D, V, N, Edges, FWLocType
<1>3. /\ loc \in FWLocType /\ loc.k \in 1 .. N + 1 /\ loc.k <= N
      /\ loc.i \in V /\ loc.j \in V /\ loc.k \in V
  BY RelaxEntry DEF FWStepFacts, FWTypeOK, Relax
<1>4. loc.dist \in [V \X V -> {0, 1}]
  BY <1>3 DEF FWLocType
<1>5. Entered(loc.dist, loc'.dist, FWReflexive, loc.i, loc.j, loc.k)
  BY RelaxEntry
<1>6. /\ loc'.dist \in [V \X V -> {0, 1}]
      /\ OneMore(V, loc.dist, loc'.dist, FWReflexive, loc.i, loc.j, loc.k)
  <2>1. FWReflexive \in BOOLEAN
    BY DEF FWReflexive
  <2> QED  BY <1>3, <1>4, <1>5, <2>1, EntryKnown
<1>7. /\ ClosedBelow(V, loc'.dist, loc.k)
      /\ ClosedSoFar(V, loc'.dist, loc.k, loc.i, loc.j)
      /\ Known(loc'.dist, loc.i, loc.k) /\ Known(loc'.dist, loc.k, loc.j) => Known(loc'.dist, loc.i, loc.j)
  <2>1. FWReflexive \in BOOLEAN
    BY DEF FWReflexive
  <2>2. ClosedBelow(V, loc.dist, loc.k) /\ ClosedSoFar(V, loc.dist, loc.k, loc.i, loc.j)
    BY DEF FWStepFacts, PassesRight
  <2> QED  BY <1>1, <1>3, <1>6, <2>1, <2>2, EntryKeeps
<1>8. ASSUME FWReflexive
      PROVE  /\ DiagonalSoFar(V, loc'.dist, loc.k, loc.i, loc.j)
             /\ loc.i = loc.j => Known(loc'.dist, loc.i, loc.i)
  <2>1. DiagonalSoFar(V, loc.dist, loc.k, loc.i, loc.j)
    BY <1>8 DEF FWStepFacts, PassesRight, FWReflexive
  <2> QED  BY <1>3, <1>6, <1>8, <2>1 DEF DiagonalSoFar, OneMore
<1>9. Between'
  <2>1. loc'.adj = loc.adj
    BY RelaxEntry
  <2>2. \A p \in Edges : loc'.dist[p] # 0
    <3> SUFFICES ASSUME NEW p \in Edges PROVE loc'.dist[p] # 0
      OBVIOUS
    <3>1. PICK u \in V, v \in V : p = << u, v >>
      BY DEF Edges
    <3>2. Known(loc.dist, u, v)
      BY <3>1 DEF FWStepFacts, Between, Known
    <3> QED  BY <1>6, <3>1, <3>2 DEF OneMore, Known
  <2>3. ASSUME NEW R \in SUBSET (V \X V), Sought(call.fn, R), NEW p \in V \X V, loc'.dist[p] # 0
        PROVE  p \in R
    <3>1. PICK u \in V, v \in V : p = << u, v >>
      OBVIOUS
    <3>2. \A x, y \in V : Known(loc.dist, x, y) => << x, y >> \in R
      BY <2>3 DEF FWStepFacts, Between, Known
    <3>3. Known(loc'.dist, u, v)
      BY <2>3, <3>1 DEF Known
    <3>4. \/ Known(loc.dist, u, v)
          \/ FWReflexive /\ u = v
          \/ Known(loc.dist, u, loc.k) /\ Known(loc.dist, loc.k, v)
      BY <1>6, <3>1, <3>3 DEF OneMore
    <3> QED  BY <1>3, <2>3, <3>1, <3>2, <3>4 DEF Sought, TransitiveRel, ReflexiveRel, FWReflexive
  <2>4. \A p \in V \X V : loc'.adj[p] # 0 <=> p \in Edges
    BY <2>1 DEF FWStepFacts, Between
  <2>5. \A R : Sought(call.fn, R)' <=> Sought(call.fn, R)
    BY <1>2 DEF FWStepFacts, Sought, TransitiveRel, ReflexiveRel
  <2> QED  BY <1>2, <2>2, <2>3, <2>4, <2>5 DEF Between, FWStepFacts
<1>a. CASE loc.j < N
  <2>1. loc' = [loc EXCEPT !.dist = loc'.dist, !.j = loc.j + 1]
    BY <1>3, <1>a DEF Relax, Continue, FWLocType
  <2>2. loc'.k = loc.k /\ loc'.i = loc.i /\ loc'.j = loc.j + 1
    BY <1>3, <2>1 DEF FWLocType
  <2>3. FWTypeOK'
    <3>1. loc.j + 1 \in Nat /\ loc.j + 1 \in V
      BY <1>1, <1>3, <1>a
    <3>2. loc' \in FWLocType
      BY <1>3, <1>6, <2>1, <3>1 DEF FWLocType
    <3> QED  BY <1>2, <1>3, <2>2, <3>1, <3>2 DEF FWTypeOK
  <2>4. \A u, v \in V : LexBefore(u, v, loc'.i, loc'.j) =>
          LexBefore(u, v, loc.i, loc.j) \/ (u = loc.i /\ v = loc.j)
    BY <1>1, <1>3, <2>2 DEF LexBefore
  <2>5. ClosedSoFar(V, loc'.dist, loc.k, loc'.i, loc'.j)
    BY <1>1, <1>3, <1>7, <2>4, PassGoesOn
  <2>6. FWReflexive => DiagonalSoFar(V, loc'.dist, loc.k, loc'.i, loc'.j)
    BY <1>8, <2>4 DEF DiagonalSoFar
  <2> QED  BY <1>2, <1>7, <1>9, <2>2, <2>3, <2>5, <2>6, RelaxEntry
           DEF PassesRight, FWReflexive, FWStepFacts
<1>b. CASE loc.j = N /\ loc.i < N
  <2>1. loc' = [loc EXCEPT !.dist = loc'.dist, !.j = 1, !.i = loc.i + 1]
    <3>1. ~(loc.j < N)
      BY <1>1, <1>b
    <3> QED  BY <1>3, <1>b, <3>1 DEF Relax, Continue, FWLocType
  <2>2. loc'.k = loc.k /\ loc'.i = loc.i + 1 /\ loc'.j = 1
    BY <1>3, <2>1 DEF FWLocType
  <2>3. FWTypeOK'
    <3>1. loc.i + 1 \in Nat /\ loc.i + 1 \in V /\ 1 \in V /\ 1 \in Nat
      BY <1>1, <1>3, <1>b
    <3>2. loc' \in FWLocType
      BY <1>3, <1>6, <2>1, <3>1 DEF FWLocType
    <3> QED  BY <1>2, <1>3, <2>2, <3>1, <3>2 DEF FWTypeOK
  <2>4. \A u, v \in V : LexBefore(u, v, loc'.i, loc'.j) =>
          LexBefore(u, v, loc.i, loc.j) \/ (u = loc.i /\ v = loc.j)
    BY <1>1, <1>3, <1>b, <2>2 DEF LexBefore
  <2>5. ClosedSoFar(V, loc'.dist, loc.k, loc'.i, loc'.j)
    BY <1>1, <1>3, <1>7, <2>4, PassGoesOn
  <2>6. FWReflexive => DiagonalSoFar(V, loc'.dist, loc.k, loc'.i, loc'.j)
    BY <1>8, <2>4 DEF DiagonalSoFar
  <2> QED  BY <1>2, <1>7, <1>9, <2>2, <2>3, <2>5, <2>6, RelaxEntry
           DEF PassesRight, FWReflexive, FWStepFacts
<1>c. CASE loc.j = N /\ loc.i = N
  <2>1. loc' = [loc EXCEPT !.dist = loc'.dist, !.j = 1, !.i = 1, !.k = loc.k + 1]
    <3>1. ~(loc.j < N) /\ ~(loc.i < N)
      BY <1>1, <1>c
    <3> QED  BY <1>3, <3>1 DEF Relax, Continue, FWLocType
  <2>2. loc'.k = loc.k + 1 /\ loc'.i = 1 /\ loc'.j = 1
    BY <1>3, <2>1 DEF FWLocType
  <2>3. FWTypeOK'
    <3>1. 1 \in Nat /\ 1 \in V /\ loc.k + 1 \in 1 .. N + 1 /\ loc.k + 1 \in Nat
      BY <1>1, <1>3
    <3>2. loc' \in FWLocType
      BY <1>3, <1>6, <2>1, <3>1 DEF FWLocType
    <3> QED  BY <1>2, <1>3, <2>2, <3>1, <3>2 DEF FWTypeOK
  <2>4. ClosedBelow(V, loc'.dist, loc.k + 1) /\ ClosedSoFar(V, loc'.dist, loc.k + 1, 1, 1)
    BY <1>1, <1>3, <1>7, <1>c, PassEnds
  <2>5. FWReflexive => DiagonalSoFar(V, loc'.dist, loc'.k, loc'.i, loc'.j)
    <3> SUFFICES ASSUME FWReflexive, NEW v \in V PROVE Known(loc'.dist, v, v)
      BY DEF DiagonalSoFar
    <3>1. LexBefore(v, v, N, N) \/ v = N
      BY <1>1 DEF LexBefore
    <3> QED  BY <1>8, <1>c, <3>1 DEF DiagonalSoFar
  <2> QED  BY <1>2, <1>9, <2>2, <2>3, <2>4, <2>5, RelaxEntry
           DEF PassesRight, FWReflexive, FWStepFacts
<1>d. loc.j <= N /\ loc.i <= N /\ loc.j \in Nat /\ loc.i \in Nat
  BY <1>1, <1>3
<1> QED  BY <1>1, <1>a, <1>b, <1>c, <1>d

(* The calls of these functions take steps of FLOYD_WARSHALL only.           *)
LEMMA MatrixSteps ==
  ASSUME Next, call.fn \in MatrixFunctions
  PROVE  /\ call' = call /\ answer = << >>
         /\ Relax \/ PassesDone
BY DEF Next, MatrixFunctions, Distances, Closures, CONNECTED_COMPONENTS, TakeEdge, UF_FIND, UF_COMBINE_CLASSES,
       AllEdgesTaken, NumberNext, Name, AllNamed, InStage, FLOYD_WARSHALL, GABOW_SCC, IS_STRONGLY_CONNECTED,
       IS_ACYCLIC, LONGEST_DIST, TRANS_REDUCTION, PATH, IS_ANTISYMMETRIC, TOPO_SORT,
       SPANNING_FOREST, EQUALS, LT, EdgeLoop, FROM_SOURCE_RANGE, Running,
       LoopFunctions, Counts

LEMMA FWStep == FWInv /\ [Next]_vars => FWInv'
<1> SUFFICES ASSUME FWInv, [Next]_vars PROVE FWInv'
  OBVIOUS
<1>1. CASE UNCHANGED vars
  BY <1>1 DEF vars, FWInv, FWTypeOK, FWLocType, Between, PassesRight, Sought, TransitiveRel,
              ReflexiveRel, Edges, D, V, N, Result
<1>2. CASE Next
  <2>1. call' = call /\ call' \in Calls
    BY <1>2, CallKept DEF FWInv
  <2> SUFFICES ASSUME call.fn \in Closures
               PROVE  /\ FWTypeOK' /\ Between' /\ PassesRight'
                      /\ answer' # << >> =>
                           /\ loc'.k = N' + 1
                           /\ Result' = IF call.fn = "IS_TRANSITIVE"
                                        THEN \A p \in V' \X V' : loc'.adj[p] = loc'.dist[p]
                                        ELSE loc'.dist
    BY <2>1 DEF FWInv
  <2>2. answer = << >> /\ (Relax \/ PassesDone)
    BY <1>2, MatrixSteps DEF MatrixFunctions
  <2>3. FWStepFacts
    BY <2>1, <2>2 DEF FWStepFacts, FWInv
  <2>4. CASE Relax
    BY <2>2, <2>3, <2>4, RelaxStep
  <2>5. CASE PassesDone
    <3>1. V' = V /\ N' = N /\ Edges' = Edges
      BY <2>1 DEF D, V, N, Edges
    <3>2. /\ loc' = loc /\ loc.k > N
          /\ answer' = << "value", IF call.fn = "IS_TRANSITIVE"
                                   THEN \A p \in V \X V : loc.adj[p] = loc.dist[p]
                                   ELSE loc.dist >>
      BY <2>5 DEF PassesDone, Answer, Closures
    <3>3. FWTypeOK' /\ Between' /\ PassesRight'
      BY <2>1, <2>3, <3>1, <3>2 DEF FWStepFacts, FWTypeOK, FWLocType, Between, PassesRight, Sought,
                                    TransitiveRel, ReflexiveRel
    <3>4. loc.k = N + 1
      <4>1. N \in Nat /\ loc.k \in 1 .. N + 1
        BY <2>3, DigraphFacts DEF FWStepFacts, FWTypeOK
      <4> QED  BY <3>2, <4>1
    <3> QED  BY <3>1, <3>2, <3>3, <3>4 DEF Result
  <2> QED  BY <2>2, <2>4, <2>5
<1> QED  BY <1>1, <1>2

(* Whatever digraph they are called with, DIGRAPH_TRANS_CLOSURE and          *)
(* DIGRAPH_REFLEX_TRANS_CLOSURE answer with the least relation that holds of *)
(* every edge and is transitive (and reflexive), and IS_TRANSITIVE_DIGRAPH   *)
(* with whether the edges are transitive: a single matrix, gone through once *)
(* for every vertex and changed in place, is enough.                         *)
THEOREM ClosuresCorrect == Spec => []ClosureRight
<1>1. Init => FWInv
  BY FWInitial
<1>2. FWInv /\ [Next]_vars => FWInv'
  BY FWStep
<1>3. FWInv => ClosureRight
  BY PassesGiveClosure
<1> QED  BY <1>1, <1>2, <1>3, PTL DEF Spec

------------------------------------------------------------------------------
(* The distances.  What holds of the closures in the middle of a pass holds  *)
(* of the distances too, with lengths: where a way by one of the vertices    *)
(* below k is shorter than the entry, a way by k is as short as that one.    *)
Linked(d, u, v) == d[<< u, v >>] # -1
NoLonger(d, u, v, len) == Linked(d, u, v) /\ d[<< u, v >>] <= len
ByWayOf(d, u, m, v, len) ==
  Linked(d, u, m) /\ Linked(d, m, v) /\ d[<< u, m >>] + d[<< m, v >>] <= len

DistMatrix(W, d) ==
  /\ d \in [W \X W -> Nat \cup {-1}]
  /\ \A v \in W : d[<< v, v >>] = 0

ShortBelow(W, d, k) ==
  \A m \in W : m < k =>
    \A u, v \in W : \A len \in Nat :
      ByWayOf(d, u, m, v, len) =>
        NoLonger(d, u, v, len) \/ (k \in W /\ ByWayOf(d, u, k, v, len))

ShortSoFar(W, d, k, i, j) ==
  k \in W => \A u, v \in W : \A len \in Nat :
    LexBefore(u, v, i, j) /\ ByWayOf(d, u, k, v, len) => NoLonger(d, u, v, len)

(* One entry, as FW_FUNC_SHORTEST_DIST leaves it.                            *)
Shortened(d, e, i, j, k) ==
  e = [d EXCEPT ![<< i, j >>] =
         IF /\ Linked(d, i, k) /\ Linked(d, k, j)
            /\ ~NoLonger(d, i, j, d[<< i, k >>] + d[<< k, j >>])
         THEN d[<< i, k >>] + d[<< k, j >>] ELSE @]

(* What that means: one pair is perhaps joined by a way that is as long as   *)
(* the way by k.                                                             *)
OneShorter(W, d, e, i, j, k) ==
  \A u, v \in W : \A len \in Nat :
    NoLonger(e, u, v, len) <=>
      \/ NoLonger(d, u, v, len)
      \/ u = i /\ v = j /\ ByWayOf(d, i, k, j, len)

LEMMA ShortenedEntry ==
  ASSUME NEW W, NEW d, DistMatrix(W, d), NEW e,
         NEW i \in W, NEW j \in W, NEW k \in W,
         Shortened(d, e, i, j, k)
  PROVE  DistMatrix(W, e) /\ OneShorter(W, d, e, i, j, k)
<1> DEFINE way == d[<< i, k >>] + d[<< k, j >>]
           shorter == Linked(d, i, k) /\ Linked(d, k, j) /\ ~NoLonger(d, i, j, way)
<1>1. \A u, v \in W : d[<< u, v >>] \in Nat \cup {-1}
  BY DEF DistMatrix
<1>2. shorter => way \in Nat
  BY <1>1 DEF Linked
<1>3. e \in [W \X W -> Nat \cup {-1}]
  <2>1. d \in [W \X W -> Nat \cup {-1}] /\ << i, j >> \in W \X W
    BY DEF DistMatrix
  <2>2. e = [d EXCEPT ![<< i, j >>] = IF shorter THEN way ELSE @]
    BY DEF Shortened
  <2> HIDE DEF shorter, way
  <2> QED  BY <1>2, <2>1, <2>2
<1>4. \A u, v \in W : e[<< u, v >>] = IF u = i /\ v = j /\ shorter THEN way ELSE d[<< u, v >>]
  <2>1. d \in [W \X W -> Nat \cup {-1}] /\ << i, j >> \in W \X W
    BY DEF DistMatrix
  <2>2. e = [d EXCEPT ![<< i, j >>] = IF shorter THEN way ELSE @]
    BY DEF Shortened
  <2> HIDE DEF shorter, way
  <2> SUFFICES ASSUME NEW u \in W, NEW v \in W
               PROVE  e[<< u, v >>] = IF u = i /\ v = j /\ shorter THEN way ELSE d[<< u, v >>]
    OBVIOUS
  <2>3. << u, v >> \in W \X W /\ (<< u, v >> = << i, j >> <=> u = i /\ v = j)
    OBVIOUS
  <2> QED  BY <2>1, <2>2, <2>3
<1>5. \A v \in W : e[<< v, v >>] = 0
  <2> SUFFICES ASSUME NEW v \in W, v = i, v = j, shorter PROVE FALSE
    BY <1>4 DEF DistMatrix
  <2>1. d[<< i, j >>] = 0
    BY DEF DistMatrix
  <2> QED  BY <1>2, <2>1 DEF NoLonger, Linked
<1>6. ASSUME NEW u \in W, NEW v \in W, NEW len \in Nat
      PROVE  NoLonger(e, u, v, len) <=>
               \/ NoLonger(d, u, v, len)
               \/ u = i /\ v = j /\ ByWayOf(d, i, k, j, len)
  <2>1. CASE ~(u = i /\ v = j)
    BY <1>4, <2>1 DEF NoLonger, Linked
  <2>2. CASE u = i /\ v = j
    <3>1. CASE shorter
      <4>1. e[<< u, v >>] = way /\ way # -1
        BY <1>2, <1>4, <2>2, <3>1
      <4>2. NoLonger(e, u, v, len) <=> way <= len
        BY <4>1 DEF NoLonger, Linked
      <4>3. ByWayOf(d, i, k, j, len) <=> way <= len
        BY <3>1 DEF ByWayOf
      <4>4. NoLonger(d, i, j, len) => way <= len
        BY <1>1, <1>2, <3>1 DEF NoLonger, Linked
      <4> QED  BY <2>2, <4>2, <4>3, <4>4
    <3>2. CASE ~shorter
      <4>1. e[<< u, v >>] = d[<< u, v >>]
        BY <1>4, <3>2
      <4>2. ByWayOf(d, i, k, j, len) => NoLonger(d, i, j, len)
        <5> SUFFICES ASSUME ByWayOf(d, i, k, j, len) PROVE NoLonger(d, i, j, len)
          OBVIOUS
        <5>1. NoLonger(d, i, j, way) /\ way <= len /\ way \in Nat
          BY <1>1, <3>2 DEF ByWayOf, Linked
        <5> HIDE DEF way
        <5> QED  BY <1>1, <5>1 DEF NoLonger
      <4> QED  BY <2>2, <4>1, <4>2 DEF NoLonger, Linked
    <3> QED  BY <3>1, <3>2
  <2> QED  BY <2>1, <2>2
<1> QED  BY <1>3, <1>5, <1>6 DEF DistMatrix, OneShorter

(* A way by m is a way to m and one from there.                              *)
LEMMA WayInTwo ==
  ASSUME NEW W, NEW d, DistMatrix(W, d), NEW u \in W, NEW m \in W, NEW v \in W, NEW len \in Nat
  PROVE  /\ ByWayOf(d, u, m, v, len) =>
              \E a, b \in Nat : NoLonger(d, u, m, a) /\ NoLonger(d, m, v, b) /\ a + b <= len
         /\ \A a, b \in Nat :
              NoLonger(d, u, m, a) /\ NoLonger(d, m, v, b) /\ a + b <= len => ByWayOf(d, u, m, v, len)
<1>1. d[<< u, m >>] \in Nat \cup {-1} /\ d[<< m, v >>] \in Nat \cup {-1}
  BY DEF DistMatrix
<1>2. ASSUME ByWayOf(d, u, m, v, len)
      PROVE  \E a, b \in Nat : NoLonger(d, u, m, a) /\ NoLonger(d, m, v, b) /\ a + b <= len
  <2>1. d[<< u, m >>] \in Nat /\ d[<< m, v >>] \in Nat
    BY <1>1, <1>2 DEF ByWayOf, Linked
  <2>2. NoLonger(d, u, m, d[<< u, m >>]) /\ NoLonger(d, m, v, d[<< m, v >>])
    BY <1>2, <2>1 DEF ByWayOf, NoLonger
  <2> QED  BY <1>2, <2>1, <2>2 DEF ByWayOf
<1>3. ASSUME NEW a \in Nat, NEW b \in Nat,
             NoLonger(d, u, m, a), NoLonger(d, m, v, b), a + b <= len
      PROVE  ByWayOf(d, u, m, v, len)
  BY <1>1, <1>3 DEF ByWayOf, NoLonger
<1> QED  BY <1>2, <1>3

(* The entry keeps what the middle of the pass is about.                     *)
LEMMA ShortenedKeeps ==
  ASSUME NEW W, W \subseteq Nat, NEW d, NEW e, DistMatrix(W, d), DistMatrix(W, e),
         NEW i \in W, NEW j \in W, NEW k \in W,
         OneShorter(W, d, e, i, j, k),
         ShortBelow(W, d, k), ShortSoFar(W, d, k, i, j)
  PROVE  /\ ShortBelow(W, e, k)
         /\ ShortSoFar(W, e, k, i, j)
         /\ \A len \in Nat : ByWayOf(e, i, k, j, len) => NoLonger(e, i, j, len)
<1> DEFINE old(u, v, len) == NoLonger(d, u, v, len)
           new(u, v, len) == NoLonger(e, u, v, len)
<1>1. \A u, v \in W : \A len \in Nat : old(u, v, len) => new(u, v, len)
  BY DEF OneShorter
<1>2. \A u, v \in W : \A len \in Nat :
        new(u, v, len) => \/ old(u, v, len)
                          \/ u = i /\ v = j /\ \E a, b \in Nat : old(i, k, a) /\ old(k, j, b) /\ a + b <= len
  BY WayInTwo DEF OneShorter
<1>3. \A v \in W : \A len \in Nat : old(v, v, len) /\ new(v, v, len)
  BY DEF DistMatrix, NoLonger, Linked
<1>4. \A u, v \in W : \A len \in Nat : ByWayOf(d, u, k, v, len) => ByWayOf(e, u, k, v, len)
  BY <1>1, WayInTwo
<1>5. \A u \in W : \A len \in Nat :
        /\ new(u, k, len) => old(u, k, len)
        /\ new(k, u, len) => old(k, u, len)
  <2> SUFFICES ASSUME NEW u \in W, NEW len \in Nat
               PROVE  /\ new(u, k, len) => old(u, k, len)
                      /\ new(k, u, len) => old(k, u, len)
    OBVIOUS
  <2>1. \A a, b \in Nat : a + b <= len => a <= len /\ b <= len
    OBVIOUS
  <2>2. \A x, y \in W : \A a \in Nat : a <= len /\ old(x, y, a) => old(x, y, len)
    BY DEF NoLonger, DistMatrix
  <2> HIDE DEF old, new
  <2> QED  BY <1>2, <2>1, <2>2
<1>6. ASSUME NEW m \in W, m < k, NEW u \in W, NEW v \in W, NEW a \in Nat, NEW b \in Nat,
             NEW len \in Nat, a + b <= len, new(u, m, a), new(m, v, b)
      PROVE  new(u, v, len) \/ ByWayOf(e, u, k, v, len)
  <2>1. \A x, y \in W : \A p, q, r \in Nat :
          old(x, m, p) /\ old(m, y, q) /\ p + q <= r => old(x, y, r) \/ ByWayOf(d, x, k, y, r)
    BY <1>6, WayInTwo DEF ShortBelow
  <2>2. \A y \in W : \A r \in Nat :
          /\ ByWayOf(d, k, k, y, r) => old(k, y, r)
          /\ ByWayOf(d, y, k, k, r) => old(y, k, r)
    BY DEF ByWayOf, NoLonger, DistMatrix
  <2>3. CASE old(u, m, a) /\ old(m, v, b)
    <3>1. old(u, v, len) \/ ByWayOf(d, u, k, v, len)
      BY <1>6, <2>1, <2>3
    <3> QED  BY <1>1, <1>4, <3>1
  <2>4. CASE ~old(u, m, a) /\ old(m, v, b)
    <3>1. PICK p \in Nat, q \in Nat : old(u, k, p) /\ old(k, m, q) /\ p + q <= a
      BY <1>2, <1>6, <2>4
    <3>2. old(k, v, q + b)
      <4>1. q + b \in Nat /\ q + b <= q + b
        OBVIOUS
      <4> HIDE DEF old
      <4> QED  BY <2>1, <2>2, <2>4, <3>1, <4>1
    <3>3. p + (q + b) <= len /\ q + b \in Nat
      BY <1>6, <3>1
    <3>4. ByWayOf(d, u, k, v, len)
      BY <3>1, <3>2, <3>3, WayInTwo
    <3> QED  BY <1>4, <3>4
  <2>5. CASE old(u, m, a) /\ ~old(m, v, b)
    <3>1. PICK p \in Nat, q \in Nat : old(m, k, p) /\ old(k, v, q) /\ p + q <= b
      BY <1>2, <1>6, <2>5
    <3>2. old(u, k, a + p)
      <4>1. a + p \in Nat /\ a + p <= a + p
        OBVIOUS
      <4> HIDE DEF old
      <4> QED  BY <2>1, <2>2, <2>5, <3>1, <4>1
    <3>3. (a + p) + q <= len /\ a + p \in Nat
      BY <1>6, <3>1
    <3>4. ByWayOf(d, u, k, v, len)
      BY <3>1, <3>2, <3>3, WayInTwo
    <3> QED  BY <1>4, <3>4
  <2>6. CASE ~old(u, m, a) /\ ~old(m, v, b)
    <3>1. u = i /\ m = j /\ m = i /\ v = j
      BY <1>2, <1>6, <2>6
    <3> QED  BY <1>3, <3>1
  <2> QED  BY <2>3, <2>4, <2>5, <2>6
<1>7. ASSUME NEW u \in W, NEW v \in W, NEW len \in Nat, ByWayOf(e, u, k, v, len)
      PROVE  ByWayOf(d, u, k, v, len)
  BY <1>5, <1>7, WayInTwo
<1>8. ShortBelow(W, e, k)
  <2> SUFFICES ASSUME NEW m \in W, m < k, NEW u \in W, NEW v \in W, NEW len \in Nat,
                      ByWayOf(e, u, m, v, len)
               PROVE  NoLonger(e, u, v, len) \/ ByWayOf(e, u, k, v, len)
    BY DEF ShortBelow
  <2>1. PICK a \in Nat, b \in Nat : new(u, m, a) /\ new(m, v, b) /\ a + b <= len
    BY WayInTwo
  <2> QED  BY <1>6, <2>1
<1>9. ShortSoFar(W, e, k, i, j)
  BY <1>1, <1>7 DEF ShortSoFar
<1>10. \A len \in Nat : ByWayOf(e, i, k, j, len) => NoLonger(e, i, j, len)
  BY <1>7 DEF OneShorter
<1> QED  BY <1>8, <1>9, <1>10

(* What the pass ends with.                                                  *)
LEMMA ShortPassEnds ==
  ASSUME NEW n \in Nat, NEW W, W = 1 .. n, NEW d, NEW k \in W,
         ShortBelow(W, d, k), ShortSoFar(W, d, k, n, n),
         \A len \in Nat : ByWayOf(d, n, k, n, len) => NoLonger(d, n, n, len)
  PROVE  ShortBelow(W, d, k + 1) /\ ShortSoFar(W, d, k + 1, 1, 1)
<1>1. ASSUME NEW u \in W, NEW v \in W, NEW len \in Nat, ByWayOf(d, u, k, v, len)
      PROVE  NoLonger(d, u, v, len)
  <2>1. LexBefore(u, v, n, n) \/ (u = n /\ v = n)
    BY DEF LexBefore
  <2> QED  BY <1>1, <2>1 DEF ShortSoFar
<1>2. ASSUME NEW m \in W, m < k + 1, NEW u \in W, NEW v \in W, NEW len \in Nat,
             ByWayOf(d, u, m, v, len)
      PROVE  NoLonger(d, u, v, len)
  <2>1. m < k \/ m = k
    BY <1>2
  <2> QED  BY <1>1, <1>2, <2>1 DEF ShortBelow
<1>3. \A u, v \in W : ~LexBefore(u, v, 1, 1)
  BY DEF LexBefore
<1> QED  BY <1>2, <1>3 DEF ShortBelow, ShortSoFar

LEMMA ShortPassGoesOn ==
  ASSUME NEW W, W \subseteq Nat, NEW d, NEW k, NEW i \in W, NEW j \in W, NEW i2, NEW j2,
         \A u, v \in W : LexBefore(u, v, i2, j2) => LexBefore(u, v, i, j) \/ (u = i /\ v = j),
         ShortSoFar(W, d, k, i, j),
         \A len \in Nat : ByWayOf(d, i, k, j, len) => NoLonger(d, i, j, len)
  PROVE  ShortSoFar(W, d, k, i2, j2)
BY DEF ShortSoFar

------------------------------------------------------------------------------
(* A walk goes on where another ends.                                        *)
LEMMA WalksJoin ==
  ASSUME NEW adj, Len(adj) \in Nat, NEW u, NEW v, NEW a \in 0 .. Len(adj),
         << u, v >> \in Walks(adj)[a]
  PROVE  \A b \in Nat : a + b <= Len(adj) =>
           \A w : << v, w >> \in Walks(adj)[b] => << u, w >> \in Walks(adj)[a + b]
<1> DEFINE n == Len(adj)
           W == Walks(adj)
           T == { b \in Nat : a + b <= n => \A w : << v, w >> \in W[b] => << u, w >> \in W[a + b] }
<1>1. 0 \in T
  <2>1. a + 0 = a  OBVIOUS
  <2>2. \A w : << v, w >> \in W[0] => w = v  BY WalkSteps
  <2> HIDE DEF W
  <2> QED  BY <2>1, <2>2 DEF W
<1>2. ASSUME NEW b \in T PROVE b + 1 \in T
  <2> SUFFICES ASSUME a + (b + 1) <= n, NEW w, << v, w >> \in W[b + 1]
               PROVE  << u, w >> \in W[a + (b + 1)]
    OBVIOUS
  <2> DEFINE c == b + 1
             l == a + c
  <2>1. c \in 1 .. n /\ c - 1 = b /\ l \in 1 .. n /\ l - 1 = a + b /\ a + b <= n
    OBVIOUS
  <2>2. \A x : << v, x >> \in W[b] => << u, x >> \in W[l - 1]
    BY <2>1
  <2>3. << v, w >> \in W[c]
    OBVIOUS
  <2> HIDE DEF c, l, W
  <2>4. w \in 1 .. n /\ \E x \in 1 .. n : << v, x >> \in W[c - 1] /\ Adjacent(adj, x, w)
    BY <2>1, <2>3, WalkSteps DEF W
  <2>5. PICK x \in 1 .. n : << v, x >> \in W[b] /\ Adjacent(adj, x, w)
    BY <2>1, <2>4
  <2>6. << u, x >> \in W[l - 1]
    BY <2>2, <2>5
  <2>7. u \in 1 .. n
    <3>1. W \in [0 .. n -> SUBSET ((1 .. n) \X (1 .. n))]
      BY WalksDef DEF W
    <3> QED  BY <3>1 DEF W
  <2>8. << u, w >> \in W[l]
    BY <2>1, <2>4, <2>5, <2>6, <2>7, WalkSteps DEF W
  <2> QED  BY <2>8 DEF l, c
<1>3. T = Nat
  <2> HIDE DEF T
  <2>1. T \in SUBSET Nat  BY DEF T
  <2> QED  BY <1>1, <1>2, <2>1, Induction
<1> QED  BY <1>3

(* A matrix of lengths that bounds every edge and every way of two bounds the*)
(* walks.                                                                    *)
LEMMA MatrixBoundsWalks ==
  ASSUME NEW adj, Len(adj) \in Nat, NEW d, DistMatrix(1 .. Len(adj), d),
         \A u, v \in 1 .. Len(adj) : Adjacent(adj, u, v) => NoLonger(d, u, v, 1),
         \A u, m, v \in 1 .. Len(adj) : \A len \in Nat :
           ByWayOf(d, u, m, v, len) => NoLonger(d, u, v, len),
         NEW u \in 1 .. Len(adj)
  PROVE  \A len \in 0 .. Len(adj) : \A v \in 1 .. Len(adj) :
           << u, v >> \in Walks(adj)[len] => NoLonger(d, u, v, len)
<1> DEFINE n == Len(adj)
           W == Walks(adj)
           T == { l \in Nat : l <= n =>
                    \A v \in 1 .. n : << u, v >> \in W[l] => NoLonger(d, u, v, l) }
<1>1. 0 \in T
  <2>1. \A v : << u, v >> \in W[0] => v = u  BY WalkSteps
  <2>2. NoLonger(d, u, u, 0)  BY DEF DistMatrix, NoLonger, Linked
  <2> HIDE DEF W
  <2> QED  BY <2>1, <2>2
<1>2. ASSUME NEW l \in T PROVE l + 1 \in T
  <2> DEFINE k == l + 1
  <2> SUFFICES ASSUME k <= n, NEW v \in 1 .. n, << u, v >> \in W[k]
               PROVE  NoLonger(d, u, v, k)
    OBVIOUS
  <2>1. l \in Nat /\ k \in Nat /\ k \in 1 .. n /\ k - 1 = l /\ l <= n /\ l + 1 <= k
    OBVIOUS
  <2>2. \A x \in 1 .. n : << u, x >> \in W[l] => NoLonger(d, u, x, l)
    BY <2>1
  <2> HIDE DEF k, W
  <2>3. PICK x \in 1 .. n : << u, x >> \in W[l] /\ Adjacent(adj, x, v)
    BY <2>1, WalkSteps DEF W
  <2>4. ByWayOf(d, u, x, v, k)
    <3>1. NoLonger(d, u, x, l) /\ NoLonger(d, x, v, 1)
      BY <2>2, <2>3
    <3>2. \A a, b \in Nat :
            NoLonger(d, u, x, a) /\ NoLonger(d, x, v, b) /\ a + b <= k => ByWayOf(d, u, x, v, k)
      BY <2>1, WayInTwo
    <3> QED  BY <2>1, <3>1, <3>2
  <2> QED  BY <2>1, <2>4
<1>3. T = Nat
  <2> HIDE DEF T
  <2>1. T \in SUBSET Nat  BY DEF T
  <2> QED  BY <1>1, <1>2, <2>1, Induction
<1> QED  BY <1>3

(* What Distance(u, v) is.                                                   *)
LEMMA DistanceIs ==
  ASSUME N \in Nat, NEW u, NEW v
  PROVE  \/ /\ Distance(u, v) = -1
            /\ \A len \in 0 .. N : << u, v >> \notin Walks(D)[len]
         \/ /\ Distance(u, v) \in 0 .. N
            /\ << u, v >> \in Walks(D)[Distance(u, v)]
            /\ \A len \in 0 .. N : << u, v >> \in Walks(D)[len] => Distance(u, v) <= len
<1> DEFINE lens == { len \in 0 .. N : << u, v >> \in Walks(D)[len] }
<1>1. Distance(u, v) = IF lens = {} THEN -1 ELSE CHOOSE len \in lens : \A l \in lens : len <= l
  BY DEF Distance
<1>2. CASE lens = {}
  BY <1>1, <1>2
<1>3. CASE lens # {}
  <2>1. \E len \in lens : \A l \in lens : len <= l
    <3>1. lens \in SUBSET Nat  OBVIOUS
    <3> HIDE DEF lens
    <3> QED  BY <1>3, <3>1, LeastNatural
  <2>2. Distance(u, v) \in lens /\ \A l \in lens : Distance(u, v) <= l
    <3> HIDE DEF lens
    <3> QED  BY <1>1, <1>3, <2>1
  <2> QED  BY <2>2
<1> QED  BY <1>2, <1>3

(* A walk of any number of edges shows that there is a distance, at most it. *)
LEMMA DistanceAtMost ==
  ASSUME N \in Nat, NEW u, NEW v, NEW len \in 0 .. N, << u, v >> \in Walks(D)[len]
  PROVE  Distance(u, v) \in 0 .. N /\ Distance(u, v) <= len
BY DistanceIs

LEMMA DistanceTriangle ==
  ASSUME N \in Nat, NEW u \in 1 .. N, NEW v \in 1 .. N, NEW w \in 1 .. N,
         Distance(u, v) # -1, Distance(v, w) # -1
  PROVE  Distance(u, w) \in 0 .. N /\ Distance(u, w) <= Distance(u, v) + Distance(v, w)
<1> DEFINE W == Walks(D)
<1>1. PICK a \in 0 .. N : a = Distance(u, v) /\ << u, v >> \in W[a]
  BY DistanceIs
<1>2. PICK b \in 0 .. N : b = Distance(v, w) /\ << v, w >> \in W[b]
  BY DistanceIs
<1>3. CASE a + b <= N
  <2>1. << u, w >> \in W[a + b]
    <3>1. Len(D) \in Nat /\ a \in 0 .. Len(D) /\ b \in Nat /\ a + b <= Len(D)
      BY <1>3 DEF N
    <3> QED  BY <1>1, <1>2, <3>1, WalksJoin
  <2>2. a + b \in 0 .. N
    BY <1>3
  <2> QED  BY <1>1, <1>2, <2>1, <2>2, DistanceAtMost
<1>4. CASE a + b > N
  <2>1. N - 1 \in 0 .. N
    OBVIOUS
  <2>2. ReachesOrIs(D, u, w)
    <3>1. ReachesOrIs(D, u, v) /\ ReachesOrIs(D, v, w)
      <4>1. \A x, y \in 1 .. N : \A len \in 0 .. N : << x, y >> \in W[len] => ReachesOrIs(D, x, y)
        <5> SUFFICES ASSUME NEW x \in 1 .. N, NEW y \in 1 .. N, NEW len \in 0 .. N,
                            << x, y >> \in W[len]
                     PROVE  ReachesOrIs(D, x, y)
          OBVIOUS
        <5>1. CASE len = 0
          BY <5>1, WalkSteps DEF ReachesOrIs, N
        <5>2. CASE len # 0
          BY <5>2 DEF ReachesOrIs, Reaches, N
        <5> QED  BY <5>1, <5>2
      <4> HIDE DEF W
      <4> QED  BY <1>1, <1>2, <4>1
    <3> QED  BY <3>1, ReachesOrIsFacts DEF N
  <2>3. w \in Within(D, u, N - 1)
    <3>1. /\ NoEdgeLeaves(D, Within(D, u, N - 1))
          /\ u \in Within(D, u, N - 1)
          /\ Within(D, u, N - 1) \in SUBSET (1 .. N)
      BY <2>1, ShortWalksReach, WithinGrows DEF N
    <3> QED  BY <2>2, <3>1, ReachesOrIsClosed DEF N
  <2>4. PICK len \in 0 .. N - 1 : << u, w >> \in W[len]
    BY <2>3 DEF Within
  <2>5. len \in 0 .. N
    OBVIOUS
  <2> HIDE DEF W
  <2>6. Distance(u, w) \in 0 .. N /\ Distance(u, w) <= len
    BY <2>4, <2>5, DistanceAtMost DEF W
  <2> QED  BY <1>1, <1>2, <1>4, <2>6
<1> QED  BY <1>3, <1>4

------------------------------------------------------------------------------
DistLocType ==
  [ k : Nat, i : Nat, j : Nat,
    dist : [V \X V -> Nat \cup {-1}], adj : [V \X V -> Nat \cup {-1}] ]

DistTypeOK ==
  /\ loc \in DistLocType
  /\ loc.k \in 1 .. N + 1
  /\ loc.k <= N => loc.i \in V /\ loc.j \in V

(* An edge is a way of length 1, and an entry the length of some way.        *)
DistBetween ==
  /\ DistMatrix(V, loc.dist)
  /\ \A u, v \in V : Adjacent(D, u, v) => NoLonger(loc.dist, u, v, 1)
  /\ \A u, v \in V : Linked(loc.dist, u, v) =>
       Distance(u, v) # -1 /\ Distance(u, v) <= loc.dist[<< u, v >>]

DistPassesRight ==
  /\ ShortBelow(V, loc.dist, loc.k)
  /\ ShortSoFar(V, loc.dist, loc.k, loc.i, loc.j)

DistInv ==
  /\ call \in Calls
  /\ call.fn \in Distances =>
       /\ DistTypeOK
       /\ DistBetween
       /\ DistPassesRight
       /\ answer # << >> =>
            /\ loc.k = N + 1
            /\ answer = IF call.fn = "SHORTEST_DIST" THEN << "value", loc.dist >>
                        ELSE IF NoDiameter THEN << "fail" >> ELSE << "value", Largest >>

(* After the last pass every entry is a distance.                            *)
LEMMA PassesGiveDistances ==
  ASSUME N \in Nat, V = 1 .. N, DistTypeOK, DistBetween, DistPassesRight, loc.k = N + 1
  PROVE  \A u, v \in V : loc.dist[<< u, v >>] = Distance(u, v)
<1>1. \A u, v \in V : \A len \in 0 .. N : << u, v >> \in Walks(D)[len] => NoLonger(loc.dist, u, v, len)
  <2> DEFINE d == loc.dist
  <2>1. DistMatrix(1 .. Len(D), d) /\ Len(D) \in Nat
    BY DEF DistBetween, N
  <2>2. \A u, v \in 1 .. Len(D) : Adjacent(D, u, v) => NoLonger(d, u, v, 1)
    BY DEF DistBetween, N
  <2>3. \A u, m, v \in 1 .. Len(D) : \A len \in Nat :
          ByWayOf(d, u, m, v, len) => NoLonger(d, u, v, len)
    <3>1. loc.k \notin V /\ \A m \in V : m < loc.k
      OBVIOUS
    <3> QED  BY <3>1 DEF DistPassesRight, ShortBelow, N
  <2> HIDE DEF d
  <2>4. \A u \in 1 .. Len(D) : \A len \in 0 .. Len(D) : \A v \in 1 .. Len(D) :
          << u, v >> \in Walks(D)[len] => NoLonger(d, u, v, len)
    BY <2>1, <2>2, <2>3, MatrixBoundsWalks
  <2> QED  BY <2>4 DEF d, N
<1> SUFFICES ASSUME NEW u \in V, NEW v \in V PROVE loc.dist[<< u, v >>] = Distance(u, v)
  OBVIOUS
<1>2. loc.dist[<< u, v >>] \in Nat \cup {-1}
  BY DEF DistTypeOK, DistLocType
<1>3. CASE Distance(u, v) = -1
  BY <1>3 DEF DistBetween, Linked
<1>4. CASE Distance(u, v) # -1
  <2>1. Distance(u, v) \in 0 .. N /\ << u, v >> \in Walks(D)[Distance(u, v)]
    BY <1>4, DistanceIs
  <2>2. NoLonger(loc.dist, u, v, Distance(u, v))
    BY <1>1, <2>1
  <2>3. Distance(u, v) <= loc.dist[<< u, v >>]
    BY <2>2 DEF NoLonger, DistBetween
  <2> QED  BY <1>2, <2>1, <2>2, <2>3 DEF NoLonger
<1> QED  BY <1>3, <1>4

LEMMA PassesGiveDiameter ==
  ASSUME DistInv
  PROVE  DistancesRight
<1> SUFFICES ASSUME call.fn \in Distances, answer # << >>
             PROVE  DistancesRight
  BY DEF DistancesRight, Answered, Distances
<1>1. N \in Nat /\ V = 1 .. N
  BY DigraphFacts DEF DistInv
<1>2. \A u, v \in V : loc.dist[<< u, v >>] = Distance(u, v)
  BY <1>1, PassesGiveDistances DEF DistInv
<1>3. CASE call.fn = "SHORTEST_DIST"
  <2>1. Result = loc.dist
    BY <1>3 DEF DistInv, Result
  <2> QED  BY <1>2, <1>3, <2>1 DEF DistancesRight, Answered
<1>4. CASE call.fn = "DIAMETER"
  <2> DEFINE all == { Distance(p[1], p[2]) : p \in V \X V }
  <2>1. \A p \in V \X V : loc.dist[p] = Distance(p[1], p[2])
    <3> SUFFICES ASSUME NEW p \in V \X V PROVE loc.dist[p] = Distance(p[1], p[2])
      OBVIOUS
    <3>1. PICK u \in V, v \in V : p = << u, v >>
      OBVIOUS
    <3> QED  BY <1>2, <3>1
  <2>2. all = {} <=> N = 0
    <3>1. N # 0 => << 1, 1 >> \in V \X V
      BY <1>1
    <3>2. N = 0 => V \X V = {}
      BY <1>1
    <3> QED  BY <3>1, <3>2
  <2>3. NoDiameter <=> all = {} \/ -1 \in all
    BY <2>1, <2>2 DEF NoDiameter
  <2>4. answer = IF NoDiameter THEN << "fail" >> ELSE << "value", Largest >>
    BY <1>4 DEF DistInv
  <2>5. ASSUME ~NoDiameter
        PROVE  Largest \in all /\ \A d \in all : d <= Largest
    <3>1. { loc.dist[p] : p \in V \X V } = all
      BY <2>1
    <3>2. all \in SUBSET (0 .. N) /\ all # {}
      <4>1. \A p \in V \X V : Distance(p[1], p[2]) \in 0 .. N
        <5> SUFFICES ASSUME NEW p \in V \X V PROVE Distance(p[1], p[2]) \in 0 .. N
          OBVIOUS
        <5>1. Distance(p[1], p[2]) # -1
          BY <2>3, <2>5
        <5> QED  BY <1>1, <5>1, DistanceIs
      <4> QED  BY <2>3, <2>5, <4>1
    <3> HIDE DEF all
    <3>3. PICK m \in all : \A x \in all : x <= m
      BY <1>1, <3>2, LargestBelow
    <3>4. \A m2 : (\A p \in V \X V : loc.dist[p] <= m2) <=> \A x \in all : x <= m2
      BY <3>1
    <3>5. Largest = CHOOSE m2 \in all : \A x \in all : x <= m2
      BY <3>1, <3>4 DEF Largest
    <3> QED  BY <3>3, <3>5
  <2>6. CASE NoDiameter
    <3> HIDE DEF all
    <3> QED  BY <1>4, <2>3, <2>4, <2>6 DEF DistancesRight, Answered, all
  <2>7. CASE ~NoDiameter
    <3>1. Result = Largest
      BY <2>4, <2>7 DEF Result
    <3>2. Result \in all /\ \A d \in all : d <= Result
      BY <2>5, <2>7, <3>1
    <3>3. ~(all = {} \/ -1 \in all)
      BY <2>3, <2>7
    <3> HIDE DEF all
    <3> QED  BY <1>4, <3>2, <3>3 DEF DistancesRight, Answered, all
  <2> QED  BY <2>6, <2>7
<1> QED  BY <1>3, <1>4 DEF Distances

LEMMA DistInitial == Init => DistInv
<1> SUFFICES ASSUME Init PROVE DistInv
  OBVIOUS
<1>0. call \in Calls /\ answer = << >>
  BY DEF Init
<1> SUFFICES ASSUME call.fn \in Distances PROVE DistTypeOK /\ DistBetween /\ DistPassesRight
  BY <1>0 DEF DistInv
<1>1. N \in Nat /\ V = 1 .. N
  BY <1>0, DigraphFacts
<1>2. loc = MatrixLocals
  BY DEF Init, InitialLocals, Closures, MatrixFunctions, Distances, Searches, Rooted, FromOne,
         LoopFunctions, Counts
<1>3. InitialDist = [p \in V \X V |-> IF p[1] = p[2] THEN 0
                                      ELSE IF Adjacent(D, p[1], p[2]) THEN 1 ELSE -1]
  BY DEF InitialDist, NoEntry
<1>4. InitialDist \in [V \X V -> Nat \cup {-1}]
  BY <1>3
<1>5. \A u, v \in V : InitialDist[<< u, v >>] = IF u = v THEN 0 ELSE IF Adjacent(D, u, v) THEN 1 ELSE -1
  BY <1>3
<1>6. loc.k = 1 /\ loc.i = 1 /\ loc.j = 1 /\ loc.dist = InitialDist /\ loc.adj = InitialDist
  BY <1>2 DEF MatrixLocals
<1>7. DistTypeOK
  <2>1. loc \in DistLocType
    BY <1>2, <1>4 DEF DistLocType, MatrixLocals
  <2> QED  BY <1>1, <1>6, <2>1 DEF DistTypeOK
<1>8. DistBetween
  <2>1. DistMatrix(V, loc.dist)
    BY <1>4, <1>5, <1>6 DEF DistMatrix
  <2>2. \A u, v \in V : Adjacent(D, u, v) => NoLonger(loc.dist, u, v, 1)
    BY <1>5, <1>6 DEF NoLonger, Linked
  <2>3. ASSUME NEW u \in V, NEW v \in V, Linked(loc.dist, u, v)
        PROVE  Distance(u, v) # -1 /\ Distance(u, v) <= loc.dist[<< u, v >>]
    <3>1. CASE u = v
      <4>1. 0 \in 0 .. N /\ << u, v >> \in Walks(D)[0]
        BY <1>1, <3>1, WalkSteps DEF N
      <4>2. Distance(u, v) \in 0 .. N /\ Distance(u, v) <= 0
        BY <1>1, <4>1, DistanceAtMost
      <4> QED  BY <1>1, <1>5, <1>6, <3>1, <4>2
    <3>2. CASE u # v
      <4>1. Adjacent(D, u, v) /\ loc.dist[<< u, v >>] = 1
        BY <1>5, <1>6, <2>3, <3>2 DEF Linked
      <4>2. << u, u >> \in Walks(D)[0]
        BY <1>1, WalkSteps DEF N
      <4>3. 1 \in 1 .. N /\ 1 - 1 = 0 /\ 1 \in 0 .. N
        BY <1>1
      <4>4. << u, v >> \in Walks(D)[1]
        BY <1>1, <4>1, <4>2, <4>3, WalkSteps DEF N
      <4>5. Distance(u, v) \in 0 .. N /\ Distance(u, v) <= 1
        BY <1>1, <4>3, <4>4, DistanceAtMost
      <4> QED  BY <1>1, <4>1, <4>5
    <3> QED  BY <3>1, <3>2
  <2> QED  BY <2>1, <2>2, <2>3 DEF DistBetween
<1>9. DistPassesRight
  <2>1. \A u, v \in V : ~LexBefore(u, v, 1, 1)
    BY <1>1 DEF LexBefore
  <2>2. \A m \in V : ~(m < 1)
    BY <1>1
  <2> QED  BY <1>6, <2>1, <2>2 DEF DistPassesRight, ShortBelow, ShortSoFar
<1> QED  BY <1>7, <1>8, <1>9

------------------------------------------------------------------------------
DistStepFacts ==
  /\ call' = call /\ call \in Calls /\ call.fn \in Distances
  /\ DistTypeOK /\ DistBetween /\ DistPassesRight

(* What a step of Relax makes of the matrix, and where it goes on.           *)
LEMMA RelaxDistance ==
  ASSUME DistStepFacts, Relax
  PROVE  /\ loc.i \in V /\ loc.j \in V /\ loc.k \in V
         /\ Shortened(loc.dist, loc'.dist, loc.i, loc.j, loc.k)
         /\ answer' = answer
         /\ loc' = [loc EXCEPT !.dist = loc'.dist, !.k = loc'.k, !.i = loc'.i, !.j = loc'.j]
         /\ \/ /\ loc'.k = loc.k /\ loc'.i \in V /\ loc'.j \in V
               /\ \A u, v \in V : LexBefore(u, v, loc'.i, loc'.j) =>
                    LexBefore(u, v, loc.i, loc.j) \/ (u = loc.i /\ v = loc.j)
            \/ /\ loc.i = N /\ loc.j = N
               /\ loc'.k = loc.k + 1 /\ loc'.i = 1 /\ loc'.j = 1
<1>1. N \in Nat /\ V = 1 .. N
  BY DigraphFacts DEF DistStepFacts
<1>2. loc \in DistLocType /\ loc.k \in 1 .. N + 1 /\ loc.k <= N /\ loc.i \in V /\ loc.j \in V
  BY DEF DistStepFacts, DistTypeOK, Relax
<1>3. loc.k \in V
  BY <1>1, <1>2
<1>4. /\ loc'.dist = [loc.dist EXCEPT ![<< loc.i, loc.j >>] = NewEntry(loc.dist, loc.i, loc.j, loc.k)]
      /\ loc'.j = IF loc.j < N THEN loc.j + 1 ELSE 1
      /\ loc'.i = IF loc.j < N THEN loc.i ELSE IF loc.i < N THEN loc.i + 1 ELSE 1
      /\ loc'.k = IF loc.j < N \/ loc.i < N THEN loc.k ELSE loc.k + 1
      /\ loc' = [loc EXCEPT !.dist = loc'.dist, !.k = loc'.k, !.i = loc'.i, !.j = loc'.j]
      /\ answer' = answer
  BY <1>2 DEF Relax, Continue, DistLocType
<1>5. Shortened(loc.dist, loc'.dist, loc.i, loc.j, loc.k)
  <2>1. NewEntry(loc.dist, loc.i, loc.j, loc.k) = FW_FUNC_SHORTEST_DIST(loc.dist, loc.i, loc.j, loc.k)
    <3>1. call.fn \in Distances
      BY DEF DistStepFacts
    <3> QED  BY <3>1 DEF NewEntry, Distances
  <2>2. /\ loc.dist[<< loc.i, loc.j >>] \in Nat \cup {-1}
        /\ loc.dist[<< loc.i, loc.k >>] \in Nat \cup {-1}
        /\ loc.dist[<< loc.k, loc.j >>] \in Nat \cup {-1}
        /\ << loc.i, loc.j >> \in V \X V
    BY <1>2, <1>3 DEF DistLocType
  <2>3. NewEntry(loc.dist, loc.i, loc.j, loc.k) =
          IF /\ Linked(loc.dist, loc.i, loc.k) /\ Linked(loc.dist, loc.k, loc.j)
             /\ ~NoLonger(loc.dist, loc.i, loc.j,
                          loc.dist[<< loc.i, loc.k >>] + loc.dist[<< loc.k, loc.j >>])
          THEN loc.dist[<< loc.i, loc.k >>] + loc.dist[<< loc.k, loc.j >>]
          ELSE loc.dist[<< loc.i, loc.j >>]
    <3>1. PICK d : d = loc.dist
      OBVIOUS
    <3>2. PICK i \in V, j \in V, k \in V : i = loc.i /\ j = loc.j /\ k = loc.k
      BY <1>2, <1>3
    <3>3. d[<< i, j >>] \in Int /\ d[<< i, k >>] \in Int /\ d[<< k, j >>] \in Int
      BY <2>2, <3>1, <3>2
    <3>4. FW_FUNC_SHORTEST_DIST(d, i, j, k) =
            IF /\ Linked(d, i, k) /\ Linked(d, k, j)
               /\ ~NoLonger(d, i, j, d[<< i, k >>] + d[<< k, j >>])
            THEN d[<< i, k >>] + d[<< k, j >>] ELSE d[<< i, j >>]
      <4>1. PICK x \in Int, y \in Int, z \in Int :
              x = d[<< i, j >>] /\ y = d[<< i, k >>] /\ z = d[<< k, j >>]
        BY <3>3
      <4>2. FW_FUNC_SHORTEST_DIST(d, i, j, k) =
              IF y # -1 /\ z # -1 /\ (x = -1 \/ x > y + z) THEN y + z ELSE x
        BY <4>1 DEF FW_FUNC_SHORTEST_DIST
      <4>3. (x = -1 \/ x > y + z) <=> ~(x # -1 /\ x <= y + z)
        OBVIOUS
      <4> QED  BY <4>1, <4>2, <4>3 DEF Linked, NoLonger
    <3> QED  BY <2>1, <3>1, <3>2, <3>4
  <2>4. loc.dist \in [V \X V -> Nat \cup {-1}]
    BY <1>2 DEF DistLocType
  <2> QED  BY <1>4, <2>2, <2>3, <2>4 DEF Shortened
<1>6. \/ /\ loc'.k = loc.k /\ loc'.i \in V /\ loc'.j \in V
         /\ \A u, v \in V : LexBefore(u, v, loc'.i, loc'.j) =>
              LexBefore(u, v, loc.i, loc.j) \/ (u = loc.i /\ v = loc.j)
      \/ /\ loc.i = N /\ loc.j = N
         /\ loc'.k = loc.k + 1 /\ loc'.i = 1 /\ loc'.j = 1
  <2>1. CASE loc.j < N
    BY <1>1, <1>2, <1>4, <2>1 DEF LexBefore
  <2>2. CASE ~(loc.j < N) /\ loc.i < N
    BY <1>1, <1>2, <1>4, <2>2 DEF LexBefore
  <2>3. CASE ~(loc.j < N) /\ ~(loc.i < N)
    BY <1>1, <1>2, <1>4, <2>3
  <2> QED  BY <2>1, <2>2, <2>3
<1> QED  BY <1>2, <1>3, <1>4, <1>5, <1>6

LEMMA RelaxDistanceStep ==
  ASSUME DistStepFacts, Relax
  PROVE  DistTypeOK' /\ DistBetween' /\ DistPassesRight' /\ answer' = answer
<1>1. N \in Nat /\ V = 1 .. N /\ V \subseteq Nat
  BY DigraphFacts DEF DistStepFacts
<1>2. /\ D' = D /\ V' = V /\ N' = N /\ DistLocType' = DistLocType
      /\ \A u, v : Distance(u, v)' = Distance(u, v)
  BY DEF DistStepFacts, D, V, N, DistLocType, Distance
<1>3. loc.i \in V /\ loc.j \in V /\ loc.k \in V
  BY RelaxDistance
<1>4. /\ DistMatrix(V, loc'.dist)
      /\ OneShorter(V, loc.dist, loc'.dist, loc.i, loc.j, loc.k)
  <2>1. Shortened(loc.dist, loc'.dist, loc.i, loc.j, loc.k) /\ DistMatrix(V, loc.dist)
    BY RelaxDistance DEF DistStepFacts, DistBetween
  <2> QED  BY <1>3, <2>1, ShortenedEntry
<1>5. /\ ShortBelow(V, loc'.dist, loc.k)
      /\ ShortSoFar(V, loc'.dist, loc.k, loc.i, loc.j)
      /\ \A len \in Nat : ByWayOf(loc'.dist, loc.i, loc.k, loc.j, len) => NoLonger(loc'.dist, loc.i, loc.j, len)
  <2>1. DistMatrix(V, loc.dist) /\ ShortBelow(V, loc.dist, loc.k) /\ ShortSoFar(V, loc.dist, loc.k, loc.i, loc.j)
    BY DEF DistStepFacts, DistBetween, DistPassesRight
  <2> QED  BY <1>1, <1>3, <1>4, <2>1, ShortenedKeeps
<1>6. DistTypeOK'
  <2>1. loc'.dist \in [V \X V -> Nat \cup {-1}]
    BY <1>4 DEF DistMatrix
  <2>2. /\ loc' = [loc EXCEPT !.dist = loc'.dist, !.k = loc'.k, !.i = loc'.i, !.j = loc'.j]
        /\ loc \in DistLocType /\ loc.k \in 1 .. N + 1
    BY RelaxDistance DEF DistStepFacts, DistTypeOK
  <2>3. /\ loc'.k \in 1 .. N + 1 /\ loc'.i \in Nat /\ loc'.j \in Nat
        /\ loc'.k <= N => loc'.i \in V /\ loc'.j \in V
    BY <1>1, <1>3, RelaxDistance
  <2>4. loc'.k \in Nat
    BY <1>1, <2>3
  <2>5. loc' \in DistLocType
    BY <2>1, <2>2, <2>3, <2>4 DEF DistLocType
  <2> QED  BY <1>2, <2>3, <2>5 DEF DistTypeOK
<1>7. DistBetween'
  <2>1. \A u, v \in V : Adjacent(D, u, v) => NoLonger(loc'.dist, u, v, 1)
    BY <1>4 DEF DistStepFacts, DistBetween, OneShorter
  <2>2. ASSUME NEW u \in V, NEW v \in V, Linked(loc'.dist, u, v)
        PROVE  Distance(u, v) # -1 /\ Distance(u, v) <= loc'.dist[<< u, v >>]
    <3> DEFINE len == loc'.dist[<< u, v >>]
    <3>1. len \in Nat /\ NoLonger(loc'.dist, u, v, len)
      BY <1>4, <2>2 DEF DistMatrix, Linked, NoLonger
    <3>2. \A x, y \in V : Distance(x, y) \in 0 .. N \/ Distance(x, y) = -1
      BY <1>1, DistanceIs
    <3>3. \A x, y \in V : \A l \in Nat : NoLonger(loc.dist, x, y, l) =>
            Distance(x, y) # -1 /\ Distance(x, y) <= l
      <4> SUFFICES ASSUME NEW x \in V, NEW y \in V, NEW l \in Nat, NoLonger(loc.dist, x, y, l)
                   PROVE  Distance(x, y) # -1 /\ Distance(x, y) <= l
        OBVIOUS
      <4>1. loc.dist[<< x, y >>] \in Nat \cup {-1}
        BY DEF DistStepFacts, DistBetween, DistMatrix
      <4>2. /\ loc.dist[<< x, y >>] <= l
            /\ Distance(x, y) # -1 /\ Distance(x, y) <= loc.dist[<< x, y >>]
        BY DEF DistStepFacts, DistBetween, NoLonger
      <4> QED  BY <1>1, <3>2, <4>1, <4>2
    <3> HIDE DEF len
    <3>4. CASE NoLonger(loc.dist, u, v, len)
      BY <3>1, <3>3, <3>4 DEF len
    <3>5. CASE u = loc.i /\ v = loc.j /\ ByWayOf(loc.dist, loc.i, loc.k, loc.j, len)
      <4>1. PICK a \in Nat, b \in Nat :
              NoLonger(loc.dist, u, loc.k, a) /\ NoLonger(loc.dist, loc.k, v, b) /\ a + b <= len
        <5>1. DistMatrix(V, loc.dist)
          BY DEF DistStepFacts, DistBetween
        <5> QED  BY <1>3, <3>1, <3>5, <5>1, WayInTwo
      <4>2. /\ Distance(u, loc.k) # -1 /\ Distance(u, loc.k) <= a
            /\ Distance(loc.k, v) # -1 /\ Distance(loc.k, v) <= b
        BY <1>3, <3>3, <4>1
      <4>3. Distance(u, v) \in 0 .. N /\ Distance(u, v) <= Distance(u, loc.k) + Distance(loc.k, v)
        BY <1>1, <1>3, <4>2, DistanceTriangle
      <4>4. Distance(u, loc.k) \in Nat /\ Distance(loc.k, v) \in Nat /\ Distance(u, v) \in Nat
        BY <1>1, <1>3, <3>2, <4>2, <4>3
      <4>5. Distance(u, v) <= len
        BY <3>1, <4>1, <4>2, <4>3, <4>4
      <4> QED  BY <4>4, <4>5 DEF len
    <3> QED  BY <1>4, <3>1, <3>4, <3>5 DEF OneShorter
  <2> QED  BY <1>2, <1>4, <2>1, <2>2 DEF DistBetween
<1>8. DistPassesRight'
  <2>1. CASE /\ loc'.k = loc.k /\ loc'.i \in V /\ loc'.j \in V
             /\ \A u, v \in V : LexBefore(u, v, loc'.i, loc'.j) =>
                  LexBefore(u, v, loc.i, loc.j) \/ (u = loc.i /\ v = loc.j)
    <3>1. ShortSoFar(V, loc'.dist, loc.k, loc'.i, loc'.j)
      BY <1>1, <1>3, <1>5, <2>1, ShortPassGoesOn
    <3> QED  BY <1>2, <1>5, <2>1, <3>1 DEF DistPassesRight
  <2>2. CASE loc.i = N /\ loc.j = N /\ loc'.k = loc.k + 1 /\ loc'.i = 1 /\ loc'.j = 1
    <3>1. ShortBelow(V, loc'.dist, loc.k + 1) /\ ShortSoFar(V, loc'.dist, loc.k + 1, 1, 1)
      BY <1>1, <1>3, <1>5, <2>2, ShortPassEnds
    <3> QED  BY <1>2, <2>2, <3>1 DEF DistPassesRight
  <2> QED  BY <2>1, <2>2, RelaxDistance
<1> QED  BY <1>6, <1>7, <1>8, RelaxDistance

LEMMA DistStep == DistInv /\ [Next]_vars => DistInv'
<1> SUFFICES ASSUME DistInv, [Next]_vars PROVE DistInv'
  OBVIOUS
<1>1. CASE UNCHANGED vars
  <2>1. call' = call /\ loc' = loc /\ answer' = answer
    BY <1>1 DEF vars
  <2>2. D' = D /\ V' = V /\ N' = N /\ \A u, v : Distance(u, v)' = Distance(u, v)
    BY <2>1 DEF D, V, N, Distance
  <2>3. NoDiameter' = NoDiameter /\ Largest' = Largest
    BY <2>1, <2>2 DEF NoDiameter, Largest
  <2>4. DistTypeOK => DistTypeOK'
    BY <2>1, <2>2 DEF DistTypeOK, DistLocType
  <2>5. DistBetween => DistBetween'
    BY <2>1, <2>2 DEF DistBetween
  <2>6. DistPassesRight => DistPassesRight'
    BY <2>1, <2>2 DEF DistPassesRight
  <2> QED  BY <2>1, <2>2, <2>3, <2>4, <2>5, <2>6 DEF DistInv
<1>2. CASE Next
  <2>1. call' = call /\ call' \in Calls
    BY <1>2, CallKept DEF DistInv
  <2> SUFFICES ASSUME call.fn \in Distances
               PROVE  /\ DistTypeOK' /\ DistBetween' /\ DistPassesRight'
                      /\ answer' # << >> =>
                           /\ loc'.k = N' + 1
                           /\ answer' = IF call.fn = "SHORTEST_DIST" THEN << "value", loc'.dist >>
                                        ELSE IF NoDiameter' THEN << "fail" >> ELSE << "value", Largest' >>
    BY <2>1 DEF DistInv
  <2>2. answer = << >> /\ (Relax \/ PassesDone)
    BY <1>2, MatrixSteps DEF MatrixFunctions
  <2>3. DistStepFacts
    BY <2>1 DEF DistStepFacts, DistInv
  <2>4. CASE Relax
    BY <2>2, <2>3, <2>4, RelaxDistanceStep
  <2>5. CASE PassesDone
    <3>1. V' = V /\ N' = N /\ \A u, v : Distance(u, v)' = Distance(u, v)
      BY <2>1 DEF D, V, N, Distance
    <3>2. /\ loc' = loc /\ loc.k > N
          /\ answer' = IF call.fn = "SHORTEST_DIST" THEN << "value", loc.dist >>
                       ELSE IF NoDiameter THEN << "fail" >> ELSE << "value", Largest >>
      BY <2>5 DEF PassesDone, Answer, Fail, Distances
    <3>3. DistTypeOK' /\ DistBetween' /\ DistPassesRight'
      BY <2>1, <2>3, <3>1, <3>2 DEF DistStepFacts, DistTypeOK, DistLocType, DistBetween, DistPassesRight, D
    <3>4. loc.k = N + 1
      <4>1. N \in Nat /\ loc.k \in 1 .. N + 1
        BY <2>3, DigraphFacts DEF DistStepFacts, DistTypeOK
      <4> QED  BY <3>2, <4>1
    <3>5. NoDiameter' = NoDiameter /\ Largest' = Largest
      BY <3>1, <3>2 DEF NoDiameter, Largest
    <3> QED  BY <3>1, <3>2, <3>3, <3>4, <3>5
  <2> QED  BY <2>2, <2>4, <2>5
<1> QED  BY <1>1, <1>2

(* Whatever digraph they are called with, every entry of the matrix that     *)
(* DIGRAPH_SHORTEST_DIST answers with is the least number of edges of a walk *)
(* between the two vertices, -1 (fail) exactly where there is none, and      *)
(* DIGRAPH_DIAMETER answers with the largest of them, or with fail if there  *)
(* are no vertices or two that no walk joins.                                *)
THEOREM DistancesCorrect == Spec => []DistancesRight
<1>1. Init => DistInv
  BY DistInitial
<1>2. DistInv /\ [Next]_vars => DistInv'
  BY DistStep
<1>3. DistInv => DistancesRight
  BY PassesGiveDiameter
<1> QED  BY <1>1, <1>2, <1>3, PTL DEF Spec

------------------------------------------------------------------------------
(***************************************************************************)
(* The stack of the depth-first searches.                                    *)
(*                                                                         *)
(* PathMarked is not inductive alone: IS_ANTISYMMETRIC_DIGRAPH marks a vertex*)
(* done with when its list ends, whatever mark it has, and would take an open*)
(* one off the path but that a vertex which is open below cannot be at the   *)
(* end of its list.  So Good also says that the vertex on top has mark 0     *)
(* unless it was just come to.                                               *)
(***************************************************************************)
LocalNames ==
  { "i", "frames", "ptr", "out", "depth", "prev", "backtracking", "mat" }

HasLocals(l) == l = [f \in LocalNames |-> l[f]]

Frames == [ v : V, k : Nat \ {0} ]

LocType(l) ==
  /\ HasLocals(l)
  /\ l.i \in Nat \ {0}
  /\ l.frames \in Seq(Frames)
  /\ l.ptr \in [V -> 0 .. 2]

(* The parts of PathMarked, of any values l of the local variables.          *)
OpenAlong(l) == \A q \in 1 .. Level(l) - 1 : l.ptr[l.frames[q].v] \in OpenMarks
EdgesAlong(l) ==
  \A q \in 1 .. Level(l) - 1 :
    /\ l.frames[q].k \in 1 .. Len(Nbs[l.frames[q].v])
    /\ Nbs[l.frames[q].v][l.frames[q].k] = l.frames[q + 1].v
NoneTwiceOn(l) ==
  \A p, q \in 1 .. Level(l) - 1 : l.frames[p].v = l.frames[q].v => p = q
OpenOnPath(l) ==
  \A v \in V : l.ptr[v] = 2 => \E q \in 1 .. Level(l) - 1 : l.frames[q].v = v

TopFresh(l) == l.frames # << >> => TopFrame(l).k = 1 \/ l.ptr[TopFrame(l).v] = 0

OnPath(l) == LocType(l) /\ OpenAlong(l) /\ EdgesAlong(l) /\ NoneTwiceOn(l) /\ OpenOnPath(l)
Good(l) == OnPath(l) /\ TopFresh(l)

PathInv == call \in Calls /\ (call.fn \in Searches => Good(loc))

------------------------------------------------------------------------------
LEMMA InNeighboursType ==
  ASSUME call \in Calls
  PROVE  InNeighbours \in [V -> Seq(V)]
<1>0. N \in Nat /\ V = 1 .. N
  BY DigraphFacts
<1> SUFFICES ASSUME NEW w \in V PROVE InNeighbours[w] \in Seq(V)
  BY Zenon DEF InNeighbours
<1> DEFINE S == Seq(V)
           Longer(s, v) == IF Adjacent(D, v, w) THEN Append(s, v) ELSE s
           step == [q \in S \X Nat |-> IF q[2] \in V THEN Longer(q[1], q[2]) ELSE << >>]
           body(g) == [v \in 0 .. N |-> IF v = 0 THEN << >> ELSE Longer(g[v - 1], v)]
           nbs == CHOOSE f : f = body(f)
<1>1. \A s \in S : \A v \in V : Longer(s, v) \in S
  OBVIOUS
<1>2. step \in [S \X Nat -> S] /\ << >> \in S
  <2> HIDE DEF Longer
  <2>1. << >> \in S  OBVIOUS
  <2> HIDE DEF S
  <2> QED  BY <1>1, <2>1
<1>3. PICK g \in [0 .. N -> S] : Iterates(g, << >>, N, step)
  <2> HIDE DEF step, S
  <2> QED  BY <1>0, <1>2, Recursion
<1>4. \A v \in 1 .. N : g[v] = Longer(g[v - 1], v)
  <2> TAKE v \in 1 .. N
  <2>1. v - 1 \in 0 .. N /\ v \in Nat /\ v \in V  BY <1>0
  <2>2. g[v - 1] \in S  BY <2>1
  <2>3. g[v] = step[<< g[v - 1], v >>]  BY <1>3 DEF Iterates
  <2> HIDE DEF Longer, S
  <2> QED  BY <2>1, <2>2, <2>3
<1>5. g = body(g)
  <2> HIDE DEF Longer
  <2>1. \A v \in 0 .. N : g[v] = IF v = 0 THEN << >> ELSE Longer(g[v - 1], v)
    BY <1>0, <1>3, <1>4 DEF Iterates
  <2> QED  BY <2>1
<1>6. nbs = body(nbs)
  <2> HIDE DEF body
  <2> QED  BY <1>5
<1> DEFINE T == { v \in Nat : v <= N => nbs[v] \in S }
<1>7. 0 \in T
  <2> HIDE DEF Longer, nbs
  <2> QED  BY <1>0, <1>2, <1>6
<1>8. ASSUME NEW v \in T PROVE v + 1 \in T
  <2> SUFFICES ASSUME v + 1 <= N PROVE nbs[v + 1] \in S
    OBVIOUS
  <2>1. v \in Nat /\ v + 1 \in V /\ v + 1 \in 0 .. N /\ v + 1 # 0 /\ (v + 1) - 1 = v /\ nbs[v] \in S
    BY <1>0
  <2>2. nbs[v + 1] = Longer(nbs[v], v + 1)
    <3> HIDE DEF Longer, nbs
    <3> QED  BY <1>6, <2>1
  <2> HIDE DEF nbs, Longer
  <2> QED  BY <1>1, <2>1, <2>2
<1>9. N \in T
  <2> HIDE DEF T
  <2>1. T \in SUBSET Nat  BY DEF T
  <2> QED  BY <1>0, <1>7, <1>8, <2>1, Induction
<1>10. nbs[N] \in S
  <2> HIDE DEF nbs, S
  <2> QED  BY <1>0, <1>9
<1>11. InNeighbours[w] = nbs[N]
  BY DEF InNeighbours
<1> QED  BY <1>10, <1>11

LEMMA NbsType ==
  ASSUME call \in Calls
  PROVE  /\ Nbs \in [V -> Seq(V)]
         /\ \A v \in V : Len(Nbs[v]) \in Nat
         /\ \A v \in V : \A e \in 1 .. Len(Nbs[v]) : Nbs[v][e] \in V
<1>1. Nbs \in [V -> Seq(V)]
  BY DigraphFacts, InNeighboursType DEF Nbs
<1> QED  BY <1>1

------------------------------------------------------------------------------
(* What the operations of the searches do to the local variables.            *)
LEMMA FramesFacts ==
  ASSUME NEW l, LocType(l), l.frames # << >>
  PROVE  /\ Level(l) \in Nat \ {0}
         /\ \A q \in 1 .. Level(l) : l.frames[q] \in Frames
         /\ \A q \in 1 .. Level(l) : l.frames[q].v \in V /\ l.frames[q].k \in Nat \ {0}
         /\ TopFrame(l) = l.frames[Level(l)]
         /\ TopFrame(l).v \in V /\ TopFrame(l).k \in Nat \ {0}
<1>1. l.frames \in Seq(Frames) /\ Len(l.frames) \in Nat
  BY DEF LocType
<1>2. Len(l.frames) # 0
  BY <1>1
<1>3. \A q \in 1 .. Len(l.frames) : l.frames[q] \in Frames
  BY <1>1
<1>4. \A q \in 1 .. Len(l.frames) : l.frames[q].v \in V /\ l.frames[q].k \in Nat \ {0}
  BY <1>3 DEF Frames
<1> QED  BY <1>1, <1>2, <1>3, <1>4 DEF Level, TopFrame

(* Other variables than these three are of no importance.                    *)
LEMMA GoodSame ==
  ASSUME NEW l, NEW m, Good(l),
         HasLocals(m), m.i \in Nat \ {0}, m.frames = l.frames, m.ptr = l.ptr
  PROVE  Good(m)
BY DEF Good, OnPath, LocType, OpenAlong, EdgesAlong, NoneTwiceOn, OpenOnPath, TopFresh, Level, TopFrame

(* Between searches a vertex may be marked done with.                        *)
LEMMA GoodPassed ==
  ASSUME NEW l, Good(l), l.frames = << >>, NEW v \in V
  PROVE  Good(NextI(Marked(l, v, 1))) /\ Good(NextI(l))
<1> DEFINE m == NextI(Marked(l, v, 1))
<1>1. /\ HasLocals(m) /\ m.i = l.i + 1 /\ m.frames = << >>
      /\ m.ptr = [l.ptr EXCEPT ![v] = 1]
  BY DEF Good, OnPath, LocType, NextI, Marked, HasLocals, LocalNames
<1>2. LocType(m)
  <2>1. l.i + 1 \in Nat \ {0} /\ << >> \in Seq(Frames) /\ [l.ptr EXCEPT ![v] = 1] \in [V -> 0 .. 2]
    BY DEF Good, OnPath, LocType
  <2> HIDE DEF m
  <2> QED  BY <1>1, <2>1 DEF LocType
<1>3. \A w \in V : l.ptr[w] # 2 /\ m.ptr[w] # 2
  BY <1>1 DEF Good, OnPath, LocType, OpenOnPath, Level
<1>4. Good(m)
  <2> HIDE DEF m
  <2> QED  BY <1>1, <1>2, <1>3 DEF Good, OnPath, OpenAlong, EdgesAlong, NoneTwiceOn, OpenOnPath, TopFresh, Level
<1>5. Good(NextI(l))
  <2> DEFINE n == NextI(l)
  <2>1. HasLocals(n) /\ n.i = l.i + 1 /\ n.frames = l.frames /\ n.ptr = l.ptr /\ l.i \in Nat
    BY DEF Good, OnPath, LocType, NextI, HasLocals, LocalNames
  <2> HIDE DEF n
  <2>2. n.i \in Nat \ {0}  BY <2>1
  <2>3. Good(n)  BY <2>1, <2>2, GoodSame
  <2> QED  BY <2>3 DEF n
<1> QED  BY <1>4, <1>5

LEMMA GoodPush ==
  ASSUME NEW l, Good(l), l.frames = << >>, NEW v \in V
  PROVE  Good(Push(l, v))
<1> DEFINE m == Push(l, v)
           f == [ v |-> v, k |-> 1 ]
<1>1. HasLocals(m) /\ m.i = l.i /\ m.frames = Append(l.frames, f) /\ m.ptr = l.ptr
  BY DEF Good, OnPath, LocType, Push, Frame, HasLocals, LocalNames
<1>2. f \in Frames /\ f.k = 1  BY DEF Frames
<1>3. m.frames \in Seq(Frames) /\ Len(m.frames) = 1 /\ m.frames[1] = f
  <2> HIDE DEF f, m
  <2> QED  BY <1>1, <1>2 DEF Good, OnPath, LocType
<1> HIDE DEF m, f
<1>4. LocType(m)
  BY <1>1, <1>3 DEF Good, OnPath, LocType
<1>5. Level(m) = 1 /\ TopFrame(m).k = 1
  BY <1>2, <1>3 DEF Level, TopFrame
<1>6. \A w \in V : m.ptr[w] # 2
  BY <1>1 DEF Good, OnPath, LocType, OpenOnPath, Level
<1>7. Good(m)
  BY <1>1, <1>4, <1>5, <1>6 DEF Good, OnPath, OpenAlong, EdgesAlong, NoneTwiceOn, OpenOnPath, TopFresh
<1> QED  BY <1>7 DEF m

(* A vertex is marked and another put on top.                                *)
LEMMA DescendEffect ==
  ASSUME NEW l, LocType(l), NEW j \in V, NEW mark, NEW w \in V
  PROVE  LET t == Level(l)
             m == Push(Marked(l, j, mark), w)
         IN  /\ HasLocals(m) /\ m.i = l.i /\ m.out = l.out /\ m.ptr = [l.ptr EXCEPT ![j] = mark]
             /\ m.frames \in Seq(Frames)
             /\ Level(m) = t + 1
             /\ \A q \in 1 .. t : m.frames[q] = l.frames[q]
             /\ m.frames[t + 1] = [ v |-> w, k |-> 1 ]
<1> DEFINE t == Level(l)
           f == [ v |-> w, k |-> 1 ]
           m == Push(Marked(l, j, mark), w)
<1>1. /\ HasLocals(m) /\ m.i = l.i /\ m.out = l.out
      /\ m.frames = Append(l.frames, f) /\ m.ptr = [l.ptr EXCEPT ![j] = mark]
  BY DEF LocType, Push, Marked, Frame, HasLocals, LocalNames
<1>2. f \in Frames  BY DEF Frames
<1>3. l.frames \in Seq(Frames) /\ Len(l.frames) = t /\ t \in Nat
  BY DEF LocType, Level
<1> HIDE DEF m, f, t
<1>4. /\ m.frames \in Seq(Frames) /\ Level(m) = t + 1
      /\ \A q \in 1 .. t : m.frames[q] = l.frames[q]
      /\ m.frames[t + 1] = f
  BY <1>1, <1>2, <1>3 DEF Level
<1> QED  BY <1>1, <1>4 DEF m, f, t

(* From a vertex that is not open, along one of its edges.                   *)
LEMMA GoodDescend ==
  ASSUME call \in Calls, NEW l, Good(l), l.frames # << >>,
         l.ptr[TopFrame(l).v] = 0, TopFrame(l).k <= Len(Nbs[TopFrame(l).v]),
         NEW mark \in OpenMarks
  PROVE  Good(Push(Marked(l, TopFrame(l).v, mark), Nbs[TopFrame(l).v][TopFrame(l).k]))
<1> DEFINE j == TopFrame(l).v
           k == TopFrame(l).k
           w == Nbs[j][k]
           t == Level(l)
           m == Push(Marked(l, j, mark), w)
<1>0. /\ t \in Nat \ {0} /\ j \in V /\ k \in 1 .. Len(Nbs[j]) /\ w \in V
      /\ \A q \in 1 .. t : l.frames[q].v \in V
      /\ l.frames[t].v = j /\ l.frames[t].k = k
      /\ mark \in 0 .. 2 /\ mark # 0
  <2>1. mark \in 0 .. 2 /\ mark # 0  BY DEF OpenMarks
  <2> QED  BY <2>1, FramesFacts, NbsType DEF Good, OnPath
<1>1. /\ HasLocals(m) /\ m.i = l.i /\ m.ptr = [l.ptr EXCEPT ![j] = mark] /\ m.frames \in Seq(Frames)
      /\ Level(m) = t + 1
      /\ \A q \in 1 .. t : m.frames[q] = l.frames[q]
      /\ m.frames[t + 1] = [ v |-> w, k |-> 1 ]
  <2>1. LocType(l)  BY DEF Good, OnPath
  <2> HIDE DEF j, w
  <2> QED  BY <1>0, <2>1, DescendEffect
<1>2. l.ptr \in [V -> 0 .. 2] /\ l.i \in Nat \ {0}
  BY DEF Good, OnPath, LocType
<1>3. m.ptr \in [V -> 0 .. 2]
  BY <1>0, <1>1, <1>2
<1>4. LocType(m)
  BY <1>1, <1>2, <1>3 DEF LocType
<1>5. /\ Level(m) = t + 1
      /\ \A q \in 1 .. t : m.frames[q] = l.frames[q]
      /\ m.frames[t + 1] = [ v |-> w, k |-> 1 ]
  BY <1>1
<1>6. \A q \in 1 .. t - 1 : l.frames[q].v # j
  BY <1>0 DEF Good, OnPath, OpenAlong, OpenMarks
<1> HIDE DEF m, w, t, j, k
<1>7. OpenAlong(m)
  <2> SUFFICES ASSUME NEW q \in 1 .. t PROVE m.ptr[m.frames[q].v] \in OpenMarks
    BY <1>0, <1>5 DEF OpenAlong
  <2>1. CASE q = t  BY <1>0, <1>1, <1>2, <1>5, <2>1
  <2>2. CASE q \in 1 .. t - 1
    <3>1. l.ptr[l.frames[q].v] \in OpenMarks  BY <2>2 DEF Good, OnPath, OpenAlong, t
    <3>2. m.ptr[l.frames[q].v] = l.ptr[l.frames[q].v]  BY <1>0, <1>1, <1>2, <1>6, <2>2
    <3> QED  BY <1>5, <3>1, <3>2
  <2> QED  BY <1>0, <2>1, <2>2
<1>8. EdgesAlong(m)
  <2> SUFFICES ASSUME NEW q \in 1 .. t
               PROVE  /\ m.frames[q].k \in 1 .. Len(Nbs[m.frames[q].v])
                      /\ Nbs[m.frames[q].v][m.frames[q].k] = m.frames[q + 1].v
    BY <1>0, <1>5 DEF EdgesAlong
  <2>1. CASE q = t  BY <1>0, <1>5, <2>1 DEF w
  <2>2. CASE q \in 1 .. t - 1
    <3>1. m.frames[q + 1] = l.frames[q + 1]  BY <1>0, <1>5, <2>2
    <3> QED  BY <1>5, <2>2, <3>1 DEF Good, OnPath, EdgesAlong, t
  <2> QED  BY <1>0, <2>1, <2>2
<1>9. NoneTwiceOn(m)
  <2> SUFFICES ASSUME NEW p \in 1 .. t, NEW q \in 1 .. t, l.frames[p].v = l.frames[q].v
               PROVE  p = q
    BY <1>0, <1>5 DEF NoneTwiceOn
  <2>1. CASE p \in 1 .. t - 1 /\ q \in 1 .. t - 1  BY <2>1 DEF Good, OnPath, NoneTwiceOn, t
  <2>2. CASE p = t \/ q = t  BY <1>0, <1>6, <2>2
  <2> QED  BY <1>0, <2>1, <2>2
<1>10. OpenOnPath(m)
  <2> SUFFICES ASSUME NEW v \in V, m.ptr[v] = 2 PROVE \E q \in 1 .. t : l.frames[q].v = v
    BY <1>0, <1>5 DEF OpenOnPath
  <2>1. CASE v = j  BY <1>0, <2>1
  <2>2. CASE v # j
    <3>1. l.ptr[v] = 2  BY <1>1, <1>2, <2>2
    <3> QED  BY <1>0, <3>1 DEF Good, OnPath, OpenOnPath, t
  <2> QED  BY <2>1, <2>2
<1>11. TopFresh(m)
  BY <1>0, <1>5 DEF TopFresh, TopFrame
<1> QED  BY <1>4, <1>7, <1>8, <1>9, <1>10, <1>11 DEF Good, OnPath, m, w, j, k

(* Back to the frame below, or the end of the search.                        *)
LEMMA BacktrackEffect ==
  ASSUME NEW l, LocType(l), l.frames # << >>
  PROVE  LET t == Level(l)
             m == Backtrack(l)
             b == t - 1
         IN  /\ HasLocals(m) /\ m.out = l.out
             /\ t = 1 => m.i = l.i + 1 /\ m.frames = << >> /\ m.ptr = l.ptr
             /\ t # 1 => /\ m.i = l.i /\ m.ptr = [l.ptr EXCEPT ![l.frames[b].v] = 0]
                         /\ m.frames \in Seq(Frames) /\ Len(m.frames) = b
                         /\ \A q \in 1 .. b - 1 : m.frames[q] = l.frames[q]
                         /\ m.frames[b] = [ v |-> l.frames[b].v, k |-> l.frames[b].k + 1 ]
<1> DEFINE t == Level(l)
           m == Backtrack(l)
<1>0. /\ t \in Nat \ {0}
      /\ \A q \in 1 .. t : l.frames[q].v \in V /\ l.frames[q].k \in Nat \ {0}
  BY FramesFacts
<1>1. l.frames \in Seq(Frames) /\ Len(l.frames) = t
  BY DEF LocType, Level
<1>a. CASE t = 1
  <2>1. HasLocals(m) /\ m.out = l.out /\ m.i = l.i + 1 /\ m.frames = << >> /\ m.ptr = l.ptr
    BY <1>a DEF LocType, Backtrack, NextI, HasLocals, LocalNames
  <2> QED  BY <1>a, <2>1
<1>b. CASE t # 1
  <2> DEFINE b == t - 1
             w == l.frames[b].v
             s == SubSeq(l.frames, 1, b)
             left == [s EXCEPT ![b].k = @ + 1]
             ptr == [l.ptr EXCEPT ![w] = 0]
  <2>0. b \in Nat \ {0} /\ b \in 1 .. t /\ w \in V /\ l.frames[b].k \in Nat \ {0}
    BY <1>0, <1>b
  <2>1. HasLocals(m) /\ m.out = l.out /\ m.i = l.i /\ m.frames = left /\ m.ptr = ptr
    <3>1. m = [l EXCEPT !.frames = left, !.ptr = ptr]
      BY <1>b, Zenon DEF Backtrack
    <3> HIDE DEF m, left, ptr
    <3> QED  BY <3>1 DEF LocType, HasLocals, LocalNames
  <2>2. s \in Seq(Frames) /\ Len(s) = b /\ \A q \in 1 .. b : s[q] = l.frames[q]
    BY <1>0, <1>1, <2>0
  <2>3. l.frames[b] \in Frames  BY <1>1, <2>0
  <2>4. [l.frames[b] EXCEPT !.k = @ + 1] = [ v |-> w, k |-> l.frames[b].k + 1 ]
    BY <2>0, <2>3 DEF Frames
  <2>5. [ v |-> w, k |-> l.frames[b].k + 1 ] \in Frames
    BY <2>0 DEF Frames
  <2>6. /\ m.frames \in Seq(Frames) /\ Len(m.frames) = b
        /\ \A q \in 1 .. b - 1 : m.frames[q] = l.frames[q]
        /\ m.frames[b] = [ v |-> w, k |-> l.frames[b].k + 1 ]
    <3> DEFINE f == [ v |-> w, k |-> l.frames[b].k + 1 ]
    <3>0. b \in 1 .. b  BY <2>0
    <3> HIDE DEF m, b, w, s
    <3>1. s[b] = l.frames[b]  BY <2>2, <3>0
    <3>2. m.frames = [s EXCEPT ![b] = f]
      BY <2>1, <2>4, <3>1
    <3>3. f \in Frames  BY <2>5
    <3> HIDE DEF f
    <3>4. m.frames \in Seq(Frames) /\ Len(m.frames) = b /\ m.frames[b] = f
      BY <2>2, <3>0, <3>2, <3>3
    <3>5. \A q \in 1 .. b - 1 : m.frames[q] = l.frames[q]
      BY <2>0, <2>2, <3>2
    <3> QED  BY <3>4, <3>5 DEF f
  <2> QED  BY <1>b, <2>1, <2>6
<1> QED  BY <1>a, <1>b

LEMMA GoodBacktrack ==
  ASSUME call \in Calls, NEW l, OnPath(l), l.frames # << >>
  PROVE  Good(Backtrack(l))
<1> DEFINE t == Level(l)
           m == Backtrack(l)
<1>0. /\ t \in Nat \ {0}
      /\ \A q \in 1 .. t : l.frames[q].v \in V /\ l.frames[q].k \in Nat \ {0}
  BY FramesFacts DEF OnPath
<1>1. l.ptr \in [V -> 0 .. 2] /\ l.frames \in Seq(Frames) /\ l.i \in Nat \ {0} /\ Len(l.frames) = t
  BY DEF OnPath, LocType, Level
<1>2. HasLocals(m)
  BY BacktrackEffect DEF OnPath
<1>a. CASE t = 1
  <2>1. m.i = l.i + 1 /\ m.frames = << >> /\ m.ptr = l.ptr
    BY <1>a, BacktrackEffect DEF OnPath
  <2> HIDE DEF m
  <2>2. LocType(m)
    BY <1>1, <1>2, <2>1 DEF LocType
  <2>3. \A w \in V : m.ptr[w] # 2
    BY <1>a, <2>1 DEF OnPath, OpenOnPath
  <2>4. Good(m)
    BY <2>1, <2>2, <2>3 DEF Good, OnPath, OpenAlong, EdgesAlong, NoneTwiceOn, OpenOnPath, TopFresh, Level
  <2> QED  BY <2>4 DEF m
<1>b. CASE t # 1
  <2> DEFINE b == t - 1
             w == l.frames[b].v
  <2>0. b \in Nat \ {0} /\ b \in 1 .. t /\ w \in V /\ l.frames[b].k \in Nat \ {0}
    BY <1>0, <1>b
  <2>1. /\ m.i = l.i /\ m.ptr = [l.ptr EXCEPT ![w] = 0]
        /\ m.frames \in Seq(Frames) /\ Len(m.frames) = b
        /\ \A q \in 1 .. b - 1 : m.frames[q] = l.frames[q]
        /\ m.frames[b] = [ v |-> w, k |-> l.frames[b].k + 1 ]
    BY <1>b, BacktrackEffect DEF OnPath
  <2>7. LocType(m)
    <3> HIDE DEF m, w
    <3>1. m.ptr \in [V -> 0 .. 2]  BY <1>1, <2>0, <2>1
    <3> QED  BY <1>1, <1>2, <2>1, <3>1 DEF LocType, Frames
  <2>8. Level(m) = b /\ \A q \in 1 .. b - 1 : q \in 1 .. t - 1 /\ q # b
    BY <1>0, <2>1 DEF Level
  <2>9. b \in 1 .. t - 1  BY <1>0, <2>0
  <2>10. \A q \in 1 .. b : m.frames[q].v = l.frames[q].v
    BY <2>0, <2>1
  <2> HIDE DEF m, b, w, t
  <2>11. \A q \in 1 .. b - 1 : l.frames[q].v # w
    BY <2>8, <2>9 DEF OnPath, NoneTwiceOn, t, w
  <2>12. OpenAlong(m)
    <3> SUFFICES ASSUME NEW q \in 1 .. b - 1 PROVE m.ptr[m.frames[q].v] \in OpenMarks
      BY <2>8 DEF OpenAlong
    <3>1. l.ptr[l.frames[q].v] \in OpenMarks  BY <2>8 DEF OnPath, OpenAlong, t
    <3>2. l.frames[q].v \in V  BY <1>0, <2>8
    <3>3. m.ptr[l.frames[q].v] = l.ptr[l.frames[q].v]  BY <1>1, <2>1, <2>11, <3>2
    <3> QED  BY <2>1, <3>1, <3>3
  <2>13. EdgesAlong(m)
    <3> SUFFICES ASSUME NEW q \in 1 .. b - 1
                 PROVE  /\ m.frames[q].k \in 1 .. Len(Nbs[m.frames[q].v])
                        /\ Nbs[m.frames[q].v][m.frames[q].k] = m.frames[q + 1].v
      BY <2>8 DEF EdgesAlong
    <3>1. q + 1 \in 1 .. b  BY <2>0
    <3>2. m.frames[q + 1].v = l.frames[q + 1].v  BY <2>10, <3>1
    <3> QED  BY <2>1, <2>8, <3>2 DEF OnPath, EdgesAlong, t
  <2>14. NoneTwiceOn(m)
    BY <2>8, <2>1 DEF OnPath, NoneTwiceOn, t
  <2>15. OpenOnPath(m)
    <3> SUFFICES ASSUME NEW v \in V, m.ptr[v] = 2 PROVE \E q \in 1 .. b - 1 : m.frames[q].v = v
      BY <2>8 DEF OpenOnPath
    <3>1. v # w /\ l.ptr[v] = 2  BY <1>1, <2>0, <2>1
    <3>2. PICK q \in 1 .. t - 1 : l.frames[q].v = v  BY <3>1 DEF OnPath, OpenOnPath, t
    <3>3. q \in 1 .. b - 1  BY <2>0, <3>1, <3>2 DEF w, b
    <3> QED  BY <2>1, <3>2, <3>3
  <2>16. TopFresh(m)
    BY <1>1, <2>0, <2>1, <2>8 DEF TopFresh, TopFrame
  <2>17. Good(m)
    BY <2>7, <2>12, <2>13, <2>14, <2>15, <2>16 DEF Good, OnPath
  <2> QED  BY <2>17 DEF m
<1> QED  BY <1>a, <1>b

(* The one on top is marked done with, and is not open below.                *)
LEMMA OnPathDone ==
  ASSUME call \in Calls, NEW l, Good(l), l.frames # << >>,
         \/ l.ptr[TopFrame(l).v] # 2
         \/ 1 \in OpenMarks
         \/ TopFrame(l).k > Len(Nbs[TopFrame(l).v])
  PROVE  OnPath(Marked(l, TopFrame(l).v, 1))
<1> DEFINE j == TopFrame(l).v
           t == Level(l)
           m == Marked(l, j, 1)
<1>0. /\ t \in Nat \ {0} /\ j \in V /\ TopFrame(l).k \in Nat \ {0} /\ Len(Nbs[j]) \in Nat
      /\ \A q \in 1 .. t : l.frames[q].v \in V /\ l.frames[q].k \in Nat \ {0}
  BY FramesFacts, NbsType DEF Good, OnPath
<1>1. /\ HasLocals(m) /\ m.i = l.i /\ m.frames = l.frames
      /\ m.ptr = [l.ptr EXCEPT ![j] = 1]
  BY DEF Good, OnPath, LocType, Marked, HasLocals, LocalNames
<1>2. l.ptr \in [V -> 0 .. 2]
  BY DEF Good, OnPath, LocType
<1>3. LocType(m)
  BY <1>0, <1>1, <1>2 DEF Good, OnPath, LocType
<1>4. \/ \A q \in 1 .. t - 1 : l.frames[q].v # j
      \/ 1 \in OpenMarks
  <2>1. CASE l.ptr[j] # 2
    <3>1. CASE 1 \in OpenMarks  BY <3>1
    <3>2. CASE 1 \notin OpenMarks
      <4>1. OpenMarks = {2}  BY <3>2 DEF OpenMarks
      <4> QED  BY <2>1, <4>1 DEF Good, OnPath, OpenAlong
    <3> QED  BY <3>1, <3>2
  <2>2. CASE l.ptr[j] = 2 /\ TopFrame(l).k > Len(Nbs[j])
    <3>1. TopFrame(l).k = 1  BY <2>2 DEF Good, TopFresh
    <3>2. Len(Nbs[j]) = 0  BY <1>0, <2>2, <3>1
    <3> QED  BY <3>2 DEF Good, OnPath, EdgesAlong
  <2> QED  BY <2>1, <2>2
<1>5. Level(m) = t  BY <1>1 DEF Level
<1> HIDE DEF m
<1>6. OpenAlong(m)
  <2> SUFFICES ASSUME NEW q \in 1 .. t - 1 PROVE m.ptr[l.frames[q].v] \in OpenMarks
    BY <1>1, <1>5 DEF OpenAlong
  <2>1. l.ptr[l.frames[q].v] \in OpenMarks /\ l.frames[q].v \in V
    BY <1>0 DEF Good, OnPath, OpenAlong
  <2> QED  BY <1>0, <1>1, <1>2, <1>4, <2>1
<1>7. EdgesAlong(m) /\ NoneTwiceOn(m)
  BY <1>1, <1>5 DEF Good, OnPath, EdgesAlong, NoneTwiceOn
<1>8. OpenOnPath(m)
  BY <1>0, <1>1, <1>2, <1>5 DEF Good, OnPath, OpenOnPath
<1> QED  BY <1>3, <1>6, <1>7, <1>8 DEF OnPath, m

------------------------------------------------------------------------------
(* What the searches have in common.                                         *)
LEMMA FinishGood ==
  ASSUME call \in Calls, Good(loc), Searching, loc.ptr[J] # 2 \/ 1 \in OpenMarks \/ Exhausted
  PROVE  Good(Finish)
<1>1. OnPath(Marked(loc, TopFrame(loc).v, 1))
  BY OnPathDone DEF Searching, J, K, Exhausted
<1>2. Marked(loc, J, 1).frames = loc.frames
  BY DEF Marked, Good, OnPath, LocType, HasLocals, LocalNames
<1> QED  BY <1>1, <1>2, GoodBacktrack DEF Finish, J, Searching

LEMMA DescendGood ==
  ASSUME call \in Calls, Good(loc), Searching, loc.ptr[J] = 0, ~Exhausted, NEW m \in OpenMarks
  PROVE  Good(Descend(m))
<1>1. K \in Nat /\ Len(Nbs[J]) \in Nat
  BY FramesFacts, NbsType DEF J, K, Good, OnPath, Searching
<1>2. K <= Len(Nbs[J])
  BY <1>1 DEF Exhausted
<1> QED  BY <1>2, GoodDescend DEF Descend, J, K, Searching

LEMMA BacktrackGood ==
  ASSUME call \in Calls, Good(loc), Searching
  PROVE  Good(Backtrack(loc))
BY GoodBacktrack DEF Good, Searching

LEMMA StartOrSkipGood ==
  ASSUME call \in Calls, Good(loc), StartOrSkip
  PROVE  Good(loc')
<1>1. loc.i \in V /\ loc.frames = << >>
  BY DigraphFacts DEF Good, OnPath, LocType, StartOrSkip, BetweenSearches
<1>2. /\ Good(NextI(Marked(loc, loc.i, 1)))
      /\ Good(Push(loc, loc.i))
      /\ Good(NextI(loc))
  BY <1>1, GoodPassed, GoodPush
<1> QED  BY <1>2 DEF StartOrSkip, Continue

(* The marks are 0, 1 and 2.                                                 *)
LEMMA MarkOfTop ==
  ASSUME Good(loc), Searching
  PROVE  loc.ptr[J] \in 0 .. 2
BY FramesFacts DEF Good, OnPath, LocType, Searching, J

LEMMA AcyclicGood ==
  ASSUME call \in Calls, Good(loc), IS_ACYCLIC
  PROVE  Good(loc')
<1>1. OpenMarks = {2}
  BY DEF IS_ACYCLIC, Running, OpenMarks
<1>2. CASE StartOrSkip
  BY <1>2, StartOrSkipGood
<1>3. CASE Searching /\ loc.ptr[J] # 2 /\ Continue(IF MustLeave THEN Finish ELSE Descend(2))
  <2>1. MustLeave => Good(Finish)  BY <1>3, FinishGood
  <2>2. ~MustLeave => Good(Descend(2))
    BY <1>1, <1>3, DescendGood, MarkOfTop DEF MustLeave
  <2> QED  BY <1>3, <2>1, <2>2 DEF Continue
<1> QED  BY <1>2, <1>3 DEF IS_ACYCLIC, Answer

LEMMA LongestGood ==
  ASSUME call \in Calls, Good(loc), LONGEST_DIST
  PROVE  Good(loc')
<1>1. OpenMarks = {2}
  BY DEF LONGEST_DIST, Running, OpenMarks
<1>2. CASE Searching /\ loc.ptr[J] # 2 /\ Nbs[call.start] # << >>
  <2>1. MustLeave => Good(Finish)  BY <1>2, FinishGood
  <2>2. ~MustLeave => Good(Descend(2))
    BY <1>1, <1>2, DescendGood, MarkOfTop DEF MustLeave
  <2>3. ASSUME NEW l, Good(l), NEW x, NEW y
        PROVE  Good([[l EXCEPT !.prev = x] EXCEPT !.depth[J] = y])
    <3> DEFINE m == [[l EXCEPT !.prev = x] EXCEPT !.depth[J] = y]
    <3>1. HasLocals(l) /\ l.i \in Nat \ {0}  BY <2>3 DEF Good, OnPath, LocType
    <3>2. HasLocals(m) /\ m.i = l.i /\ m.frames = l.frames /\ m.ptr = l.ptr
      BY <3>1 DEF HasLocals, LocalNames
    <3> HIDE DEF m
    <3>3. Good(m)  BY <2>3, <3>1, <3>2, GoodSame
    <3> QED  BY <3>3 DEF m
  <2>4. \E y, x, z :
          loc' = [(IF MustLeave THEN [Finish EXCEPT !.prev = x] ELSE [Descend(2) EXCEPT !.prev = z]) EXCEPT !.depth[J] = y]
    BY <1>2 DEF LONGEST_DIST, Continue, Searching
  <2>5. \/ MustLeave /\ \E x, y : loc' = [[Finish EXCEPT !.prev = x] EXCEPT !.depth[J] = y]
        \/ ~MustLeave /\ \E x, y : loc' = [[Descend(2) EXCEPT !.prev = x] EXCEPT !.depth[J] = y]
    BY <2>4
  <2>6. CASE MustLeave
    <3>1. PICK x, y : loc' = [[Finish EXCEPT !.prev = x] EXCEPT !.depth[J] = y]  BY <2>5, <2>6
    <3>2. Good([[Finish EXCEPT !.prev = x] EXCEPT !.depth[J] = y])  BY <2>1, <2>3, <2>6
    <3> QED  BY <3>1, <3>2
  <2>7. CASE ~MustLeave
    <3>1. PICK x, y : loc' = [[Descend(2) EXCEPT !.prev = x] EXCEPT !.depth[J] = y]  BY <2>5, <2>7
    <3>2. Good([[Descend(2) EXCEPT !.prev = x] EXCEPT !.depth[J] = y])  BY <2>2, <2>3, <2>7
    <3> QED  BY <3>1, <3>2
  <2> QED  BY <2>6, <2>7
<1> QED  BY <1>2 DEF LONGEST_DIST, Answer

LEMMA AntisymmetricGood ==
  ASSUME call \in Calls, Good(loc), IS_ANTISYMMETRIC
  PROVE  Good(loc')
<1>1. OpenMarks = {2}
  BY DEF IS_ANTISYMMETRIC, Running, OpenMarks
<1>2. CASE StartOrSkip
  BY <1>2, StartOrSkipGood
<1>3. CASE /\ Searching
           /\ Continue(IF Exhausted THEN Finish ELSE IF loc.ptr[J] >= 1 THEN Backtrack(loc) ELSE Descend(2))
  <2>1. Exhausted => Good(Finish)  BY <1>3, FinishGood
  <2>2. ~Exhausted /\ ~(loc.ptr[J] >= 1) => Good(Descend(2))
    BY <1>1, <1>3, DescendGood, MarkOfTop
  <2> QED  BY <1>3, <2>1, <2>2, BacktrackGood DEF Continue
<1> QED  BY <1>2, <1>3 DEF IS_ANTISYMMETRIC, Answer

LEMMA PathGood ==
  ASSUME call \in Calls, Good(loc), PATH
  PROVE  Good(loc')
<1>1. OpenMarks = {1, 2}
  BY DEF PATH, Running, OpenMarks
<1>2. CASE Searching /\ (loc.ptr[J] # 0 \/ Exhausted) /\ Continue(Finish)
  BY <1>1, <1>2, FinishGood DEF Continue
<1>3. CASE Searching /\ ~(loc.ptr[J] # 0 \/ Exhausted) /\ Continue(Descend(2))
  BY <1>1, <1>3, DescendGood DEF Continue
<1> QED  BY <1>2, <1>3 DEF PATH, Answer, Fail
(* Another list of the answer is of no importance.                           *)
LEMMA GoodOut ==
  ASSUME NEW l, Good(l), NEW x
  PROVE  Good([l EXCEPT !.out = x])
<1> DEFINE m == [l EXCEPT !.out = x]
<1>1. HasLocals(l) /\ l.i \in Nat \ {0}  BY DEF Good, OnPath, LocType
<1>2. HasLocals(m) /\ m.i = l.i /\ m.frames = l.frames /\ m.ptr = l.ptr
  BY <1>1 DEF HasLocals, LocalNames
<1> HIDE DEF m
<1>3. Good(m)  BY <1>1, <1>2, GoodSame
<1> QED  BY <1>3 DEF m

LEMMA TopoGood ==
  ASSUME call \in Calls, Good(loc), TOPO_SORT
  PROVE  Good(loc')
<1>1. OpenMarks = {2}
  BY DEF TOPO_SORT, Running, OpenMarks
<1>2. ASSUME NEW v PROVE Good(Listed(loc, v)) /\ Listed(loc, v).frames = loc.frames
                         /\ Listed(loc, v).ptr = loc.ptr
  <2>1. \E x : Listed(loc, v) = [loc EXCEPT !.out = x]  BY DEF Listed
  <2>2. HasLocals(loc)  BY DEF Good, OnPath, LocType
  <2> QED  BY <2>1, <2>2, GoodOut DEF HasLocals, LocalNames
<1>3. CASE TopoStart
  <2>1. loc.i \in V /\ loc.frames = << >>
    BY <1>3, DigraphFacts DEF Good, OnPath, LocType, TopoStart, BetweenSearches
  <2>2. Good(NextI(Marked(Listed(loc, loc.i), loc.i, 1)))
    BY <1>2, <2>1, GoodPassed
  <2>3. Good(Push(loc, loc.i)) /\ Good(NextI(loc))
    BY <2>1, GoodPassed, GoodPush
  <2> QED  BY <1>3, <2>2, <2>3 DEF TopoStart, Continue
<1>4. CASE Searching /\ loc.ptr[J] = 2 /\ Continue(SkipLoop)
  BY <1>4, BacktrackGood DEF SkipLoop, Continue
<1>5. CASE Searching /\ loc.ptr[J] # 2 /\ ~MustLeave /\ Continue(Descend(2))
  BY <1>1, <1>5, DescendGood, MarkOfTop DEF MustLeave, Continue
<1>6. CASE Searching /\ loc.ptr[J] # 2 /\ Continue(Backtrack(Marked(Listed(loc, J), J, 1)))
  <2> DEFINE l == Listed(loc, J)
  <2>1. TopFrame(l) = TopFrame(loc)  BY <1>2 DEF TopFrame, Level
  <2>2. OnPath(Marked(l, TopFrame(l).v, 1))
    BY <1>2, <1>6, <2>1, OnPathDone DEF J, Searching
  <2>3. Marked(l, J, 1).frames = loc.frames
    <3>1. HasLocals(l)  BY <1>2 DEF Good, OnPath, LocType
    <3> HIDE DEF l
    <3>2. Marked(l, J, 1).frames = l.frames  BY <3>1 DEF Marked, HasLocals, LocalNames
    <3> QED  BY <1>2, <3>2 DEF l
  <2> HIDE DEF l
  <2>4. Good(Backtrack(Marked(l, J, 1)))
    BY <1>6, <2>1, <2>2, <2>3, GoodBacktrack DEF J, Searching
  <2> QED  BY <1>6, <2>4 DEF Continue, l
<1> QED  BY <1>3, <1>4, <1>5, <1>6 DEF TOPO_SORT, TopoVisit, Answer, Fail

LEMMA ForestGood ==
  ASSUME call \in Calls, Good(loc), SPANNING_FOREST
  PROVE  Good(loc')
<1>1. OpenMarks = {1, 2}
  BY DEF SPANNING_FOREST, Running, OpenMarks
<1>2. CASE ForestStart
  <2>1. loc.i \in V /\ loc.frames = << >>
    BY <1>2, DigraphFacts DEF Good, OnPath, LocType, ForestStart, BetweenSearches
  <2>2. Good(Push(loc, loc.i)) /\ Good(NextI(loc))
    BY <2>1, GoodPassed, GoodPush
  <2> QED  BY <1>2, <2>2 DEF ForestStart, Continue
<1>3. CASE Searching /\ (loc.ptr[J] # 0 \/ Exhausted) /\ Continue(Finish)
  BY <1>1, <1>3, FinishGood DEF Continue
<1>4. CASE Searching /\ ~(loc.ptr[J] # 0 \/ Exhausted) /\ ForestVisit
  <2>1. Good(Descend(1))  BY <1>1, <1>4, DescendGood
  <2>2. \/ loc' = Descend(1)
        \/ \E x : loc' = [Descend(1) EXCEPT !.out = x]
    BY <1>4 DEF ForestVisit, Continue
  <2> QED  BY <2>1, <2>2, GoodOut
<1> QED  BY <1>2, <1>3, <1>4 DEF SPANNING_FOREST, ForestVisit, Answer

LEMMA ReductionGood ==
  ASSUME call \in Calls, Good(loc), TRANS_REDUCTION
  PROVE  Good(loc')
<1>1. OpenMarks = {2}
  BY DEF TRANS_REDUCTION, Running, OpenMarks
<1>0. HasLocals(loc) /\ loc.i \in Nat \ {0} /\ loc.ptr \in [V -> 0 .. 2]
  BY DEF Good, OnPath, LocType
<1>2. ASSUME NEW l, Good(l), NEW x, NEW y
      PROVE  /\ Good([l EXCEPT !.backtracking = x])
             /\ Good([[l EXCEPT !.backtracking = x] EXCEPT !.out = y])
             /\ Good([[l EXCEPT !.backtracking = x] EXCEPT !.mat = y])
  <2>1. HasLocals(l) /\ l.i \in Nat \ {0}  BY <1>2 DEF Good, OnPath, LocType
  <2> DEFINE m == [l EXCEPT !.backtracking = x]
  <2>2. Good(m)
    <3>1. HasLocals(m) /\ m.i = l.i /\ m.frames = l.frames /\ m.ptr = l.ptr
      BY <2>1 DEF HasLocals, LocalNames
    <3> HIDE DEF m
    <3> QED  BY <1>2, <2>1, <3>1, GoodSame
  <2>3. Good([m EXCEPT !.out = y])
    <3> HIDE DEF m
    <3> QED  BY <2>2, GoodOut
  <2> DEFINE n == [m EXCEPT !.mat = y]
  <2>4. Good(n)
    <3>0. HasLocals(m) /\ m.i \in Nat \ {0}  BY <2>2 DEF Good, OnPath, LocType
    <3>1. HasLocals(n) /\ n.i = m.i /\ n.frames = m.frames /\ n.ptr = m.ptr
      <4> HIDE DEF m
      <4> QED  BY <3>0 DEF HasLocals, LocalNames
    <3> HIDE DEF n, m
    <3> QED  BY <2>2, <3>0, <3>1, GoodSame
  <2> QED  BY <2>2, <2>3, <2>4
<1>3. CASE TransReductionStart
  <2>1. loc.i \in V /\ loc.frames = << >>
    BY <1>3, DigraphFacts DEF Good, OnPath, LocType, TransReductionStart, BetweenSearches
  <2>2. Good(Push(loc, loc.i)) /\ Good(NextI(loc))
    BY <2>1, GoodPassed, GoodPush
  <2> QED  BY <1>2, <1>3, <2>2 DEF TransReductionStart, Continue
<1>4. CASE StoreLoop
  <2>1. Good(SkipLoop)  BY <1>4, BacktrackGood DEF StoreLoop, SkipLoop
  <2>2. loc' = loc \/ \E y : loc' = [[SkipLoop EXCEPT !.backtracking = TRUE] EXCEPT !.out = y]
    BY <1>4 DEF StoreLoop, Continue, Error
  <2>3. CASE \E y : loc' = [[SkipLoop EXCEPT !.backtracking = TRUE] EXCEPT !.out = y]
    <3>1. PICK y : loc' = [[SkipLoop EXCEPT !.backtracking = TRUE] EXCEPT !.out = y]  BY <2>3
    <3>2. Good([[SkipLoop EXCEPT !.backtracking = TRUE] EXCEPT !.out = y])  BY <1>2, <2>1
    <3> QED  BY <3>1, <3>2
  <2> QED  BY <2>2, <2>3
<1>5. CASE VisitReduced
  <2>0. Searching /\ loc.ptr[J] # 2 /\ J \in V
    BY <1>5, FramesFacts DEF VisitReduced, J, Searching, Good, OnPath
  <2>1. CASE ~MustLeave
    <3>0. Good(Descend(2))
      BY <1>1, <2>0, <2>1, DescendGood, MarkOfTop DEF MustLeave
    <3>1. Good([Descend(2) EXCEPT !.backtracking = FALSE])
      BY <1>2, <3>0
    <3>2. loc' = [[Descend(2) EXCEPT !.backtracking = FALSE] EXCEPT !.out = NewOut]
      BY <1>5, <2>1 DEF VisitReduced, Continue
    <3> QED  BY <3>1, <3>2, GoodOut
  <2>2. CASE MustLeave
    <3>1. loc' = [LeaveReduced EXCEPT !.out = NewOut]
      BY <1>5, <2>2 DEF VisitReduced, Continue
    <3>2. CASE Level(loc) = 1
      <4>1. LeaveReduced = Backtrack(loc)  BY <3>2 DEF LeaveReduced, Backtrack
      <4> QED  BY <2>0, <3>1, <4>1, BacktrackGood, GoodOut
    <3>3. CASE Level(loc) # 1
      <4> DEFINE l == Marked(Backtrack(loc), J, 1)
      <4>1. Good(l)
        <5> DEFINE b == Level(loc) - 1
                   w == loc.frames[b].v
                   m == Backtrack(Marked(loc, J, 1))
        <5>1. b \in 1 .. Level(loc) - 1 /\ b \in 1 .. Level(loc) /\ w \in V
          BY <2>0, <3>3, FramesFacts DEF Good, OnPath, Searching
        <5>2. w # J
          BY <1>1, <2>0, <5>1 DEF Good, OnPath, OpenAlong
        <5>3. Good(m)
          BY <2>0, FinishGood DEF Finish
        <5>4. l = m
          <6> DEFINE s == [SubSeq(loc.frames, 1, b) EXCEPT ![b].k = @ + 1]
                     one == [loc.ptr EXCEPT ![J] = 1]
                     zero == [loc.ptr EXCEPT ![w] = 0]
          <6>1. Backtrack(loc) = [loc EXCEPT !.frames = s, !.ptr = zero]
            BY <3>3 DEF Backtrack
          <6>2. /\ Marked(loc, J, 1) = [loc EXCEPT !.ptr = one]
                /\ Marked(loc, J, 1).frames = loc.frames /\ Marked(loc, J, 1).ptr = one
            BY <1>0 DEF Marked, HasLocals, LocalNames
          <6>3. m = [Marked(loc, J, 1) EXCEPT !.frames = s, !.ptr = [one EXCEPT ![w] = 0]]
            <7> HIDE DEF one
            <7> QED  BY <3>3, <6>2 DEF Backtrack, Level
          <6>4. [one EXCEPT ![w] = 0] = [zero EXCEPT ![J] = 1]
            BY <1>0, <2>0, <5>1, <5>2
          <6> DEFINE zo == [zero EXCEPT ![J] = 1]
          <6>5. l = [Backtrack(loc) EXCEPT !.ptr = [Backtrack(loc).ptr EXCEPT ![J] = 1]]
            BY DEF Marked
          <6> HIDE DEF s, zero, one, l, m
          <6>6. Backtrack(loc).ptr = zero
            BY <1>0, <6>1 DEF HasLocals, LocalNames
          <6>7. l = [[loc EXCEPT !.frames = s, !.ptr = zero] EXCEPT !.ptr = zo]
            BY <6>1, <6>5, <6>6
          <6>8. m = [[loc EXCEPT !.ptr = one] EXCEPT !.frames = s, !.ptr = zo]
            BY <6>2, <6>3, <6>4
          <6> HIDE DEF zo
          <6> QED  BY <1>0, <6>7, <6>8 DEF HasLocals, LocalNames
        <5> QED  BY <5>3, <5>4
      <4>2. \E y : LeaveReduced = [[l EXCEPT !.backtracking = TRUE] EXCEPT !.mat = y]
        BY <3>3 DEF LeaveReduced
      <4>3. Good(LeaveReduced)
        <5> HIDE DEF l
        <5>1. PICK y : LeaveReduced = [[l EXCEPT !.backtracking = TRUE] EXCEPT !.mat = y]  BY <4>2
        <5>2. Good([[l EXCEPT !.backtracking = TRUE] EXCEPT !.mat = y])  BY <1>2, <4>1
        <5> QED  BY <5>1, <5>2
      <4> QED  BY <3>1, <4>3, GoodOut
    <3> QED  BY <3>2, <3>3
  <2> QED  BY <2>1, <2>2
<1> QED  BY <1>3, <1>4, <1>5 DEF TRANS_REDUCTION, Answer
------------------------------------------------------------------------------
LEMMA PathInit == Init => PathInv
<1> SUFFICES ASSUME Init, call.fn \in Searches PROVE Good(loc)
  BY DEF PathInv, Init
<1>0. call \in Calls
  BY DEF Init
<1>1. loc = SearchLocals
  BY DEF Init, InitialLocals, MatrixFunctions, Distances, Closures, Searches, Rooted,
         FromOne, LoopFunctions, Counts
<1>2. HasLocals(loc) /\ loc.i = 1 /\ loc.ptr = [v \in V |-> 0]
  BY <1>1 DEF SearchLocals, HasLocals, LocalNames
<1>3. loc.ptr \in [V -> 0 .. 2] /\ \A v \in V : loc.ptr[v] = 0
  BY <1>2
<1>a. CASE call.fn \in FromOne
  <2> DEFINE f == Frame(call.start)
  <2>1. loc.frames = << f >>
    BY <1>1, <1>a DEF SearchLocals
  <2>2. call.start \in V
    BY <1>0, <1>a, CallsAssumption DEF V, Vertices, D
  <2>3. f \in Frames /\ f.k = 1
    BY <2>2 DEF Frame, Frames
  <2>4. LocType(loc)
    <3>1. << f >> \in Seq(Frames)
      <4> HIDE DEF f
      <4> QED  BY <2>3
    <3> QED  BY <1>2, <1>3, <2>1, <3>1 DEF LocType
  <2> HIDE DEF f
  <2>5. Level(loc) = 1 /\ TopFrame(loc).k = 1
    BY <2>1, <2>3 DEF Level, TopFrame
  <2> QED  BY <1>3, <2>4, <2>5 DEF Good, OnPath, OpenAlong, EdgesAlong, NoneTwiceOn, OpenOnPath, TopFresh
<1>b. CASE call.fn \notin FromOne
  <2>1. loc.frames = << >>
    BY <1>1, <1>b DEF SearchLocals
  <2>2. LocType(loc)
    BY <1>2, <1>3, <2>1 DEF LocType
  <2> QED  BY <1>3, <2>1, <2>2 DEF Good, OnPath, OpenAlong, EdgesAlong, NoneTwiceOn, OpenOnPath, TopFresh, Level
<1> QED  BY <1>a, <1>b

LEMMA SearchesOnly ==
  ASSUME Next, call.fn \in Searches
  PROVE  \/ call.fn = "IS_ACYCLIC" /\ IS_ACYCLIC
         \/ call.fn = "LONGEST_DIST" /\ LONGEST_DIST
         \/ call.fn = "TRANS_REDUCTION" /\ TRANS_REDUCTION
         \/ call.fn = "PATH" /\ PATH
         \/ call.fn = "IS_ANTISYMMETRIC" /\ IS_ANTISYMMETRIC
         \/ call.fn = "TOPO_SORT" /\ TOPO_SORT
         \/ call.fn = "SPANNING_FOREST" /\ SPANNING_FOREST
BY DEF Next, Searches, Rooted, FromOne, Running, FLOYD_WARSHALL, MatrixFunctions, Distances,
       Closures, CONNECTED_COMPONENTS, TakeEdge, UF_FIND, UF_COMBINE_CLASSES, AllEdgesTaken,
       NumberNext, Name, AllNamed, InStage,
       GABOW_SCC, IS_STRONGLY_CONNECTED, IS_ACYCLIC, LONGEST_DIST, TRANS_REDUCTION, PATH,
       IS_ANTISYMMETRIC, TOPO_SORT, SPANNING_FOREST, EQUALS, LT, EdgeLoop, LoopFunctions,
       Counts, FROM_SOURCE_RANGE

(* As long as the call is the same one the primes may be taken to loc.       *)
LEMMA GoodPrime ==
  ASSUME call' = call
  PROVE  Good(loc)' <=> Good(loc')
<1>1. V' = V /\ N' = N /\ D' = D /\ Nbs' = Nbs /\ OpenMarks' = OpenMarks
  BY DEF V, N, D, Nbs, OpenMarks, InNeighbours
<1> QED
  BY <1>1 DEF Good, OnPath, LocType, Frames, OpenAlong, EdgesAlong, NoneTwiceOn, OpenOnPath, TopFresh,
              Level, TopFrame, HasLocals

LEMMA PathStep == PathInv /\ [Next]_vars => PathInv'
<1> SUFFICES ASSUME PathInv, [Next]_vars PROVE PathInv'
  OBVIOUS
<1>1. call' = call /\ call \in Calls
  BY CallKept DEF vars, PathInv
<1> SUFFICES ASSUME call.fn \in Searches PROVE Good(loc)'
  BY <1>1 DEF PathInv, Searches, Rooted, FromOne
<1>2. call \in Calls /\ call.fn \in Searches /\ Good(loc)
  BY <1>1 DEF PathInv
<1>3. Good(loc')
  <2>1. CASE UNCHANGED vars  BY <1>2, <2>1 DEF vars
  <2>2. CASE Next
    BY <1>2, <2>2, SearchesOnly, AcyclicGood, LongestGood, ReductionGood, PathGood,
       AntisymmetricGood, TopoGood, ForestGood
  <2> QED  BY <2>1, <2>2
<1> QED  BY <1>1, <1>2, <1>3, GoodPrime

(* There are no more frames than vertices and one: all but the top one are   *)
(* of different vertices.                                                    *)
LEMMA FramesFit ==
  ASSUME call \in Calls, Good(loc)
  PROVE  Level(loc) <= N + 1
<1> DEFINE S == 1 .. Level(loc) - 1
           f == [q \in S |-> loc.frames[q].v]
<1>0. N \in Nat /\ V = 1 .. N
  BY DigraphFacts
<1>1. CASE loc.frames = << >>
  BY <1>0, <1>1 DEF Level
<1>2. CASE loc.frames # << >>
  <2>1. Level(loc) \in Nat \ {0} /\ \A q \in 1 .. Level(loc) : loc.frames[q].v \in V
    BY <1>2, FramesFacts DEF Good, OnPath
  <2>2. f \in Injection(S, V)
    BY <2>1 DEF Injection, IsInjective, Good, OnPath, NoneTwiceOn
  <2>3. /\ IsFiniteSet(V) /\ Cardinality(V) = N
        /\ IsFiniteSet(S) /\ Cardinality(S) = Level(loc) - 1
    BY <1>0, <2>1, CountTo
  <2>4. Cardinality(S) <= Cardinality(V)
    <3> HIDE DEF S, f
    <3> QED  BY <2>2, <2>3, FS_Injection
  <2> QED  BY <1>0, <2>1, <2>3, <2>4
<1> QED  BY <1>1, <1>2

(* For every digraph, whichever search it is given to: the frames are a path *)
(* of open vertices, no others are marked open, and there is room for them.  *)
THEOREM StackIsThePath == Spec => []PathMarked
<1>1. PathInv => PathMarked
  <2> SUFFICES ASSUME PathInv, call.fn \in Searches PROVE PathMarked
    BY DEF PathMarked
  <2>1. Good(loc) /\ Level(loc) <= N + 1  BY FramesFit DEF PathInv
  <2> QED  BY <2>1 DEF PathMarked, Good, OnPath, OpenAlong, EdgesAlong, NoneTwiceOn, OpenOnPath
<1> QED  BY <1>1, PathInit, PathStep, PTL DEF Spec
------------------------------------------------------------------------------
(* What three of the searches answer.                                        *)
(*                                                                         *)
(* The search began at the lowest frame; the e-th edge of v has been taken   *)
(* up and come back from.                                                    *)
Root(l) == IF call.fn \in FromOne THEN call.start ELSE l.i
FromRoot(l) == Level(l) # 0 => l.frames[1].v = Root(l)
Passed(l, v, e) == \E q \in 1 .. Level(l) : l.frames[q].v = v /\ e < l.frames[q].k

LEMMA BacktrackPasses ==
  ASSUME call \in Calls, NEW l, OnPath(l), l.frames # << >>
  PROVE  LET t == Level(l)
             m == Backtrack(l)
         IN  /\ Level(m) = t - 1 /\ t \in Nat \ {0}
             /\ m.i = (IF t = 1 THEN l.i + 1 ELSE l.i)
             /\ \A q \in 1 .. t - 1 : m.frames[q].v = l.frames[q].v
             /\ t = 1 => m.ptr = l.ptr
             /\ t # 1 => m.ptr = [l.ptr EXCEPT ![l.frames[t - 1].v] = 0]
             /\ \A v : \A e \in Nat : Passed(m, v, e) =>
                  \/ Passed(l, v, e)
                  \/ t # 1 /\ v = l.frames[t - 1].v /\ Nbs[v][e] = TopFrame(l).v
<1> DEFINE t == Level(l)
           m == Backtrack(l)
           b == t - 1
<1>0. /\ LocType(l) /\ t \in Nat \ {0} /\ TopFrame(l) = l.frames[t]
      /\ \A q \in 1 .. t : l.frames[q].v \in V /\ l.frames[q].k \in Nat
  BY FramesFacts DEF OnPath
<1>1. CASE t = 1
  <2>1. m.i = l.i + 1 /\ m.frames = << >> /\ m.ptr = l.ptr
    BY <1>0, <1>1, BacktrackEffect
  <2>2. Level(m) = 0  BY <2>1 DEF Level
  <2> HIDE DEF m
  <2>3. \A v : \A e : ~Passed(m, v, e)  BY <2>2 DEF Passed
  <2> QED  BY <1>0, <1>1, <2>1, <2>2, <2>3 DEF m
<1>2. CASE t # 1
  <2>1. /\ m.i = l.i /\ m.ptr = [l.ptr EXCEPT ![l.frames[b].v] = 0]
        /\ Len(m.frames) = b
        /\ \A q \in 1 .. b - 1 : m.frames[q] = l.frames[q]
        /\ m.frames[b] = [ v |-> l.frames[b].v, k |-> l.frames[b].k + 1 ]
    BY <1>0, <1>2, BacktrackEffect
  <2>2. Level(m) = b  BY <2>1 DEF Level
  <2> HIDE DEF m, t
  <2>3. b \in 1 .. t /\ b \in 1 .. t - 1 /\ l.frames[b].k \in Nat  BY <1>0, <1>2
  <2>4. Nbs[l.frames[b].v][l.frames[b].k] = l.frames[b + 1].v
    BY <2>3 DEF OnPath, EdgesAlong, t
  <2>5. b + 1 = t  BY <1>0
  <2>6. ASSUME NEW v, NEW e \in Nat, Passed(m, v, e)
        PROVE  Passed(l, v, e) \/ (v = l.frames[b].v /\ Nbs[v][e] = TopFrame(l).v)
    <3>1. PICK q \in 1 .. b : m.frames[q].v = v /\ e < m.frames[q].k
      BY <2>2, <2>6 DEF Passed
    <3>2. q \in 1 .. t  BY <1>0, <3>1
    <3>3. CASE q # b
      <4>1. q \in 1 .. b - 1  BY <2>3, <3>3
      <4>2. m.frames[q] = l.frames[q]  BY <2>1, <4>1
      <4> QED  BY <3>1, <3>2, <4>2 DEF Passed, t
    <3>4. CASE q = b
      <4>1. v = l.frames[b].v /\ e < l.frames[b].k + 1  BY <2>1, <3>1, <3>4
      <4>2. CASE e < l.frames[b].k  BY <3>2, <3>4, <4>1, <4>2 DEF Passed, t
      <4>3. CASE e = l.frames[b].k  BY <1>0, <2>4, <2>5, <4>1, <4>3
      <4> QED  BY <2>3, <4>1, <4>2, <4>3
    <3> QED  BY <3>3, <3>4
  <2>7. \A q \in 1 .. t - 1 : m.frames[q].v = l.frames[q].v
    BY <2>1, <2>3
  <2> QED  BY <1>0, <1>2, <2>1, <2>2, <2>6, <2>7 DEF m, t
<1> QED  BY <1>1, <1>2

LEMMA DescendPasses ==
  ASSUME call \in Calls, Good(loc), Searching, ~Exhausted, NEW mark
  PROVE  LET t == Level(loc)
             m == Descend(mark)
         IN  /\ Level(m) = t + 1 /\ t \in Nat \ {0} /\ m.i = loc.i /\ m.out = loc.out
             /\ J \in V /\ K \in 1 .. Len(Nbs[J]) /\ Nbs[J][K] \in V
             /\ \A q \in 1 .. t : m.frames[q] = loc.frames[q]
             /\ m.frames[t + 1] = [ v |-> Nbs[J][K], k |-> 1 ]
             /\ m.ptr = [loc.ptr EXCEPT ![J] = mark]
             /\ \A v : \A e \in Nat \ {0} : Passed(m, v, e) <=> Passed(loc, v, e)
<1> DEFINE t == Level(loc)
           m == Descend(mark)
<1>1. LocType(loc) /\ t \in Nat \ {0} /\ J \in V /\ K \in Nat \ {0} /\ Len(Nbs[J]) \in Nat
  BY FramesFacts, NbsType DEF J, K, Searching, Good, OnPath
<1>2. K \in 1 .. Len(Nbs[J]) /\ Nbs[J][K] \in V
  BY <1>1, NbsType DEF Exhausted
<1>3. /\ Level(m) = t + 1 /\ m.i = loc.i /\ m.out = loc.out
      /\ m.ptr = [loc.ptr EXCEPT ![J] = mark]
      /\ \A q \in 1 .. t : m.frames[q] = loc.frames[q]
      /\ m.frames[t + 1] = [ v |-> Nbs[J][K], k |-> 1 ]
  BY <1>1, <1>2, DescendEffect DEF Descend
<1> HIDE DEF m, t
<1>4. ASSUME NEW v, NEW e \in Nat \ {0} PROVE Passed(m, v, e) <=> Passed(loc, v, e)
  <2>1. Passed(m, v, e) <=> \E q \in 1 .. t + 1 : m.frames[q].v = v /\ e < m.frames[q].k
    BY <1>3 DEF Passed
  <2>2. Passed(loc, v, e) <=> \E q \in 1 .. t : loc.frames[q].v = v /\ e < loc.frames[q].k
    BY DEF Passed, t
  <2>3. ~(e < m.frames[t + 1].k)  BY <1>3
  <2>4. \A q \in 1 .. t + 1 : q = t + 1 \/ q \in 1 .. t  BY <1>1
  <2>5. \A q \in 1 .. t : q \in 1 .. t + 1  BY <1>1
  <2> QED  BY <1>3, <2>1, <2>2, <2>3, <2>4, <2>5
<1> QED  BY <1>1, <1>2, <1>3, <1>4 DEF m, t
LEMMA FinishPasses ==
  ASSUME call \in Calls, Good(loc), Searching, loc.ptr[J] # 2 \/ 1 \in OpenMarks \/ Exhausted
  PROVE  LET t == Level(loc)
             m == Finish
         IN  /\ Level(m) = t - 1 /\ t \in Nat \ {0}
             /\ J \in V /\ J = loc.frames[t].v
             /\ m.i = (IF t = 1 THEN loc.i + 1 ELSE loc.i)
             /\ \A q \in 1 .. t - 1 : m.frames[q].v = loc.frames[q].v /\ loc.frames[q].v \in V
             /\ t = 1 => m.ptr = [loc.ptr EXCEPT ![J] = 1]
             /\ t # 1 => m.ptr = [[loc.ptr EXCEPT ![J] = 1] EXCEPT ![loc.frames[t - 1].v] = 0]
             /\ \A v : \A e \in Nat : Passed(m, v, e) =>
                  \/ Passed(loc, v, e)
                  \/ t # 1 /\ v = loc.frames[t - 1].v /\ Nbs[v][e] = J
<1> DEFINE l == Marked(loc, J, 1)
<1>1. l.frames = loc.frames /\ l.i = loc.i /\ l.ptr = [loc.ptr EXCEPT ![J] = 1]
  BY DEF Marked, Good, OnPath, LocType, HasLocals, LocalNames
<1>2. Level(l) = Level(loc) /\ TopFrame(l) = TopFrame(loc)
      /\ \A v, e : Passed(l, v, e) <=> Passed(loc, v, e)
  BY <1>1 DEF Level, TopFrame, Passed
<1>3. OnPath(l)
  BY OnPathDone DEF Searching, J, K, Exhausted
<1>4. J = TopFrame(loc).v /\ Finish = Backtrack(l) /\ loc.frames # << >>
  BY DEF J, Finish, Searching
<1>5. /\ J \in V /\ J = loc.frames[Level(loc)].v
      /\ \A q \in 1 .. Level(loc) - 1 : loc.frames[q].v \in V
  BY <1>4, FramesFacts DEF Good, OnPath
<1> HIDE DEF l
<1> DEFINE t == Level(l)
           m == Backtrack(l)
<1>6. /\ Level(m) = t - 1 /\ t \in Nat \ {0}
      /\ m.i = (IF t = 1 THEN l.i + 1 ELSE l.i)
      /\ \A q \in 1 .. t - 1 : m.frames[q].v = l.frames[q].v
      /\ t = 1 => m.ptr = l.ptr
      /\ t # 1 => m.ptr = [l.ptr EXCEPT ![l.frames[t - 1].v] = 0]
      /\ \A v : \A e \in Nat : Passed(m, v, e) =>
           \/ Passed(l, v, e)
           \/ t # 1 /\ v = l.frames[t - 1].v /\ Nbs[v][e] = TopFrame(l).v
  <2>1. l.frames # << >>  BY <1>1, <1>4
  <2> QED  BY <1>3, <2>1, BacktrackPasses
<1>7. t = Level(loc) /\ m = Finish  BY <1>2, <1>4
<1> HIDE DEF m, t
<1> QED  BY <1>1, <1>2, <1>4, <1>5, <1>6, <1>7

(* The same when the one on top is not marked.                               *)
LEMMA LeavePasses ==
  ASSUME call \in Calls, Good(loc), Searching
  PROVE  LET t == Level(loc)
             m == Backtrack(loc)
         IN  /\ Level(m) = t - 1 /\ t \in Nat \ {0}
             /\ J \in V /\ J = loc.frames[t].v
             /\ m.i = (IF t = 1 THEN loc.i + 1 ELSE loc.i)
             /\ \A q \in 1 .. t - 1 : m.frames[q].v = loc.frames[q].v /\ loc.frames[q].v \in V
             /\ t = 1 => m.ptr = loc.ptr
             /\ t # 1 => m.ptr = [loc.ptr EXCEPT ![loc.frames[t - 1].v] = 0]
             /\ \A v : \A e \in Nat : Passed(m, v, e) =>
                  \/ Passed(loc, v, e)
                  \/ t # 1 /\ v = loc.frames[t - 1].v /\ Nbs[v][e] = J
<1>1. OnPath(loc) /\ loc.frames # << >> /\ J = TopFrame(loc).v
  BY DEF Good, Searching, J
<1>2. /\ J \in V /\ J = loc.frames[Level(loc)].v
      /\ \A q \in 1 .. Level(loc) - 1 : loc.frames[q].v \in V
  BY <1>1, FramesFacts DEF OnPath
<1> DEFINE t == Level(loc)
           m == Backtrack(loc)
<1>3. /\ Level(m) = t - 1 /\ t \in Nat \ {0}
      /\ m.i = (IF t = 1 THEN loc.i + 1 ELSE loc.i)
      /\ \A q \in 1 .. t - 1 : m.frames[q].v = loc.frames[q].v
      /\ t = 1 => m.ptr = loc.ptr
      /\ t # 1 => m.ptr = [loc.ptr EXCEPT ![loc.frames[t - 1].v] = 0]
      /\ \A v : \A e \in Nat : Passed(m, v, e) =>
           \/ Passed(loc, v, e)
           \/ t # 1 /\ v = loc.frames[t - 1].v /\ Nbs[v][e] = TopFrame(loc).v
  BY <1>1, BacktrackPasses
<1> HIDE DEF m, t
<1> QED  BY <1>1, <1>2, <1>3 DEF m, t

(* A search that begins, or is found not to be needed.                       *)
LEMMA StartPasses ==
  ASSUME call \in Calls, Good(loc), BetweenSearches
  PROVE  /\ loc.i \in V /\ Level(loc) = 0
         /\ \A v, e : ~Passed(loc, v, e)
         /\ \A v \in V : loc.ptr[v] \in 0 .. 1
         /\ LET m == NextI(loc)
            IN  Level(m) = 0 /\ m.i = loc.i + 1 /\ m.ptr = loc.ptr /\ \A v, e : ~Passed(m, v, e)
         /\ LET m == NextI(Marked(loc, loc.i, 1))
            IN  Level(m) = 0 /\ m.i = loc.i + 1 /\ m.ptr = [loc.ptr EXCEPT ![loc.i] = 1]
                /\ \A v, e : ~Passed(m, v, e)
         /\ LET m == Push(loc, loc.i)
            IN  /\ Level(m) = 1 /\ m.i = loc.i /\ m.ptr = loc.ptr /\ m.frames[1].v = loc.i
                /\ \A v : \A e \in Nat \ {0} : ~Passed(m, v, e)
<1>1. /\ HasLocals(loc) /\ loc.frames = << >> /\ loc.i \in V /\ Level(loc) = 0
      /\ \A v \in V : loc.ptr[v] \in 0 .. 1
  BY DigraphFacts DEF BetweenSearches, Good, OnPath, LocType, Level, OpenOnPath
<1>2. ASSUME NEW l, Level(l) = 0 PROVE \A v, e : ~Passed(l, v, e)
  BY <1>2 DEF Passed
<1>3. LET m == NextI(loc)
      IN  Level(m) = 0 /\ m.i = loc.i + 1 /\ m.ptr = loc.ptr
  BY <1>1 DEF NextI, HasLocals, LocalNames, Level
<1>4. LET m == NextI(Marked(loc, loc.i, 1))
      IN  Level(m) = 0 /\ m.i = loc.i + 1 /\ m.ptr = [loc.ptr EXCEPT ![loc.i] = 1]
  BY <1>1 DEF NextI, Marked, HasLocals, LocalNames, Level
<1> DEFINE m == Push(loc, loc.i)
<1>5. m.i = loc.i /\ m.ptr = loc.ptr /\ m.frames = << [ v |-> loc.i, k |-> 1 ] >>
  <2> DEFINE f == [ v |-> loc.i, k |-> 1 ]
  <2>1. m.i = loc.i /\ m.ptr = loc.ptr /\ m.frames = Append(loc.frames, f)
    BY <1>1 DEF Push, Frame, HasLocals, LocalNames
  <2> HIDE DEF m, f
  <2>2. Append(<< >>, f) = << f >>  OBVIOUS
  <2> QED  BY <1>1, <2>1, <2>2 DEF f
<1>6. Level(m) = 1 /\ m.frames[1].v = loc.i /\ m.frames[1].k = 1
  BY <1>5 DEF Level
<1>7. \A v : \A e \in Nat \ {0} : ~Passed(m, v, e)
  <2> HIDE DEF m
  <2> QED  BY <1>6 DEF Passed
<1> QED  BY <1>1, <1>2, <1>3, <1>4, <1>5, <1>6, <1>7

(* What is known of marks and edges: no mark is wrong.                       *)
Done(l) == { v \in V : l.ptr[v] = 1 }
AllBefore(l) == \A v \in V : v < l.i => l.ptr[v] = 1

(* The searches that mark what is done with 1, and begin at each vertex that *)
(* is not.                                                                   *)
Marking == { "IS_ACYCLIC", "IS_ANTISYMMETRIC", "TOPO_SORT" }
RootedSoFar(l) == AllBefore(l) /\ FromRoot(l)

LEMMA MarkingFacts ==
  ASSUME call \in Calls, call.fn \in Marking, Good(loc)
  PROVE  /\ Nbs = D /\ OpenMarks = {2} /\ loc.ptr \in [V -> 0 .. 2] /\ loc.i \in Nat \ {0}
         /\ \A v \in V : v \in Nat /\ Len(D[v]) \in Nat /\ \A e \in 1 .. Len(D[v]) : D[v][e] \in V
         /\ \A l : Root(l) = l.i
BY DigraphFacts DEF Marking, Nbs, OpenMarks, Good, OnPath, LocType, Root, FromOne

LEMMA RootedFinish ==
  ASSUME call \in Calls, call.fn \in Marking, Good(loc), RootedSoFar(loc), Searching,
         loc.ptr[J] # 2 \/ Exhausted
  PROVE  RootedSoFar(Finish)
<1> DEFINE m == Finish
           t == Level(loc)
           w == loc.frames[t - 1].v
<1>1. /\ Level(m) = t - 1 /\ t \in Nat \ {0}
      /\ J \in V /\ J = loc.frames[t].v
      /\ m.i = (IF t = 1 THEN loc.i + 1 ELSE loc.i)
      /\ \A q \in 1 .. t - 1 : m.frames[q].v = loc.frames[q].v /\ loc.frames[q].v \in V
      /\ t = 1 => m.ptr = [loc.ptr EXCEPT ![J] = 1]
      /\ t # 1 => m.ptr = [[loc.ptr EXCEPT ![J] = 1] EXCEPT ![w] = 0]
  BY FinishPasses
<1>2. t # 1 => w \in V /\ loc.ptr[w] = 2
  BY <1>1, MarkingFacts DEF Good, OnPath, OpenAlong
<1> HIDE DEF m, t, w
<1>3. \A v \in V : loc.ptr[v] = 1 => m.ptr[v] = 1
  BY <1>1, <1>2, MarkingFacts
<1>4. CASE t = 1
  <2>1. J = loc.i /\ m.ptr[J] = 1
    BY <1>1, <1>4, MarkingFacts DEF RootedSoFar, FromRoot, t
  <2>2. AllBefore(m)
    BY <1>1, <1>3, <1>4, <2>1, MarkingFacts DEF AllBefore, RootedSoFar
  <2> QED  BY <1>1, <1>4, <2>2 DEF RootedSoFar, FromRoot, m
<1>5. CASE t # 1
  <2>1. 1 \in 1 .. t - 1  BY <1>1, <1>5
  <2>2. FromRoot(m)
    BY <1>1, <1>5, <2>1, MarkingFacts DEF FromRoot, RootedSoFar, t
  <2>3. AllBefore(m)
    BY <1>1, <1>3, <1>5 DEF AllBefore, RootedSoFar
  <2> QED  BY <2>2, <2>3 DEF RootedSoFar, m
<1> QED  BY <1>4, <1>5

LEMMA RootedLeave ==
  ASSUME call \in Calls, call.fn \in Marking, Good(loc), RootedSoFar(loc), Searching, loc.ptr[J] # 0
  PROVE  RootedSoFar(Backtrack(loc))
<1> DEFINE m == Backtrack(loc)
           t == Level(loc)
           w == loc.frames[t - 1].v
<1>1. /\ Level(m) = t - 1 /\ t \in Nat \ {0}
      /\ J \in V /\ J = loc.frames[t].v
      /\ m.i = (IF t = 1 THEN loc.i + 1 ELSE loc.i)
      /\ \A q \in 1 .. t - 1 : m.frames[q].v = loc.frames[q].v /\ loc.frames[q].v \in V
      /\ t = 1 => m.ptr = loc.ptr
      /\ t # 1 => m.ptr = [loc.ptr EXCEPT ![w] = 0]
  BY LeavePasses
<1>2. t # 1 => w \in V /\ loc.ptr[w] = 2
  BY <1>1, MarkingFacts DEF Good, OnPath, OpenAlong
<1>a. t = 1 => loc.ptr[J] # 2
  BY <1>1 DEF Good, OnPath, OpenOnPath
<1> HIDE DEF m, t, w
<1>3. \A v \in V : loc.ptr[v] = 1 => m.ptr[v] = 1
  BY <1>1, <1>2, MarkingFacts
<1>4. CASE t = 1
  <2>1. J = loc.i
    BY <1>1, <1>4, MarkingFacts DEF RootedSoFar, FromRoot, t
  <2>2. loc.ptr[J] = 1
    BY <1>a, <1>1, <1>4, MarkingFacts
  <2>3. AllBefore(m)
    BY <1>1, <1>3, <1>4, <2>1, <2>2, MarkingFacts DEF AllBefore, RootedSoFar
  <2> QED  BY <1>1, <1>4, <2>3 DEF RootedSoFar, FromRoot, m
<1>5. CASE t # 1
  <2>1. 1 \in 1 .. t - 1  BY <1>1, <1>5
  <2>2. FromRoot(m)
    BY <1>1, <1>5, <2>1, MarkingFacts DEF FromRoot, RootedSoFar, t
  <2>3. AllBefore(m)
    BY <1>1, <1>3, <1>5 DEF AllBefore, RootedSoFar
  <2> QED  BY <2>2, <2>3 DEF RootedSoFar, m
<1> QED  BY <1>4, <1>5

LEMMA RootedDescend ==
  ASSUME call \in Calls, call.fn \in Marking, Good(loc), RootedSoFar(loc), Searching,
         ~Exhausted, loc.ptr[J] = 0
  PROVE  RootedSoFar(Descend(2))
<1> DEFINE m == Descend(2)
           t == Level(loc)
<1>1. /\ Level(m) = t + 1 /\ t \in Nat \ {0} /\ m.i = loc.i /\ J \in V
      /\ \A q \in 1 .. t : m.frames[q] = loc.frames[q]
      /\ m.ptr = [loc.ptr EXCEPT ![J] = 2]
  BY DescendPasses
<1> HIDE DEF m, t
<1>2. AllBefore(m)
  BY <1>1, MarkingFacts DEF AllBefore, RootedSoFar
<1>3. FromRoot(m)
  <2>1. 1 \in 1 .. t /\ t # 0  BY <1>1
  <2> QED  BY <1>1, <2>1, MarkingFacts DEF FromRoot, RootedSoFar, t
<1> QED  BY <1>2, <1>3 DEF RootedSoFar, m

(* Between searches: a vertex is marked, begun with, or passed over.         *)
LEMMA RootedStart ==
  ASSUME call \in Calls, call.fn \in Marking, Good(loc), RootedSoFar(loc), BetweenSearches
  PROVE  /\ RootedSoFar(NextI(Marked(loc, loc.i, 1)))
         /\ RootedSoFar(Push(loc, loc.i))
         /\ loc.ptr[loc.i] # 0 => RootedSoFar(NextI(loc))
<1>1. loc.i \in V /\ \A v \in V : loc.ptr[v] \in 0 .. 1
  BY StartPasses
<1>2. RootedSoFar(NextI(Marked(loc, loc.i, 1)))
  <2> DEFINE m == NextI(Marked(loc, loc.i, 1))
  <2>1. Level(m) = 0 /\ m.i = loc.i + 1 /\ m.ptr = [loc.ptr EXCEPT ![loc.i] = 1]
    BY StartPasses
  <2> HIDE DEF m
  <2>2. AllBefore(m)  BY <1>1, <2>1, MarkingFacts DEF AllBefore, RootedSoFar
  <2>3. RootedSoFar(m)  BY <2>1, <2>2 DEF RootedSoFar, FromRoot
  <2> QED  BY <2>3 DEF m
<1>3. RootedSoFar(Push(loc, loc.i))
  <2> DEFINE m == Push(loc, loc.i)
  <2>1. Level(m) = 1 /\ m.i = loc.i /\ m.ptr = loc.ptr /\ m.frames[1].v = loc.i
    BY StartPasses
  <2> HIDE DEF m
  <2>2. RootedSoFar(m)  BY <2>1, MarkingFacts DEF RootedSoFar, FromRoot, AllBefore
  <2> QED  BY <2>2 DEF m
<1>4. ASSUME loc.ptr[loc.i] # 0 PROVE RootedSoFar(NextI(loc))
  <2> DEFINE m == NextI(loc)
  <2>1. Level(m) = 0 /\ m.i = loc.i + 1 /\ m.ptr = loc.ptr
    BY StartPasses
  <2> HIDE DEF m
  <2>2. AllBefore(m)  BY <1>1, <1>4, <2>1, MarkingFacts DEF AllBefore, RootedSoFar
  <2>3. RootedSoFar(m)  BY <2>1, <2>2 DEF RootedSoFar, FromRoot
  <2> QED  BY <2>3 DEF m
<1> QED  BY <1>2, <1>3, <1>4

(* When all have been begun with all are done with.                          *)
LEMMA AllDone ==
  ASSUME call \in Calls, call.fn \in Marking, Good(loc), RootedSoFar(loc), AllSearched
  PROVE  \A v \in V : loc.ptr[v] = 1
<1>1. N \in Nat /\ V = 1 .. N /\ loc.i \in Nat /\ loc.i > N
  BY DigraphFacts, MarkingFacts DEF AllSearched
<1> QED  BY <1>1 DEF RootedSoFar, AllBefore

(* The edges of a vertex that is left for good have all been passed.         *)
LEMMA ExhaustedPassed ==
  ASSUME call \in Calls, Good(loc), Searching, Exhausted
  PROVE  J \in V /\ \A e \in 1 .. Len(Nbs[J]) : Passed(loc, J, e)
<1>1. /\ K \in Nat /\ K = loc.frames[Level(loc)].k /\ J \in V /\ J = loc.frames[Level(loc)].v
      /\ Level(loc) \in Nat \ {0} /\ Len(Nbs[J]) \in Nat
  BY FramesFacts, NbsType DEF J, K, Good, OnPath, Searching
<1>2. \A e \in 1 .. Len(Nbs[J]) : e < K
  BY <1>1 DEF Exhausted
<1> QED  BY <1>1, <1>2 DEF Passed

------------------------------------------------------------------------------
(* IS_ACYCLIC_DIGRAPH: what is done with leads only to what is done with, and*)
(* has no cycle.                                                             *)
AcyclicSoFar(l) ==
  /\ \A v \in V : \A e \in 1 .. Len(D[v]) :
       l.ptr[v] = 1 \/ Passed(l, v, e) => l.ptr[D[v][e]] = 1
  /\ NoCycleIn(D, Done(l))
  /\ RootedSoFar(l)

LEMMA NoCycleWithOneMore ==
  ASSUME NEW adj, NEW S, NEW j, NoCycleIn(adj, S),
         \A v \in S \cup {j} : \A e \in 1 .. Len(adj[v]) : adj[v][e] \in S
  PROVE  NoCycleIn(adj, S \cup {j})
<1> SUFFICES ASSUME NEW C \in SUBSET (S \cup {j}), C # {}
             PROVE  \E v \in C : \A w \in C : ~Adjacent(adj, w, v)
  BY DEF NoCycleIn
<1>1. CASE C \subseteq S
  BY <1>1 DEF NoCycleIn
<1>2. CASE j \in C /\ j \notin S
  <2>1. \A w \in C : ~Adjacent(adj, w, j)  BY <1>2 DEF Adjacent
  <2> QED  BY <1>2, <2>1
<1> QED  BY <1>1, <1>2

LEMMA AcyclicFinish ==
  ASSUME call \in Calls, call.fn = "IS_ACYCLIC", Good(loc), AcyclicSoFar(loc), Searching,
         loc.ptr[J] # 2, MustLeave
  PROVE  AcyclicSoFar(Finish)
<1> DEFINE m == Finish
           t == Level(loc)
           w == loc.frames[t - 1].v
<1>0. Nbs = D /\ OpenMarks = {2} /\ loc.ptr \in [V -> 0 .. 2]
      /\ \A v \in V : Len(D[v]) \in Nat /\ \A e \in 1 .. Len(D[v]) : D[v][e] \in V
  BY DigraphFacts DEF Nbs, OpenMarks, Good, OnPath, LocType
<1>1. /\ Level(m) = t - 1 /\ t \in Nat \ {0}
      /\ J \in V /\ J = loc.frames[t].v
      /\ m.i = (IF t = 1 THEN loc.i + 1 ELSE loc.i)
      /\ \A q \in 1 .. t - 1 : m.frames[q].v = loc.frames[q].v /\ loc.frames[q].v \in V
      /\ t = 1 => m.ptr = [loc.ptr EXCEPT ![J] = 1]
      /\ t # 1 => m.ptr = [[loc.ptr EXCEPT ![J] = 1] EXCEPT ![w] = 0]
      /\ \A v : \A e \in Nat : Passed(m, v, e) =>
           Passed(loc, v, e) \/ (t # 1 /\ v = w /\ D[v][e] = J)
  BY <1>0, FinishPasses
<1>2. t # 1 => w \in V /\ loc.ptr[w] = 2 /\ w # J
  BY <1>0, <1>1 DEF Good, OnPath, OpenAlong
<1>3. \A e \in 1 .. Len(D[J]) : loc.ptr[D[J][e]] = 1
  <2>1. CASE loc.ptr[J] = 1  BY <1>1, <2>1 DEF AcyclicSoFar
  <2>2. CASE Exhausted
    <3>1. \A e \in 1 .. Len(D[J]) : Passed(loc, J, e)
      BY <1>0, <2>2, ExhaustedPassed
    <3> QED  BY <1>1, <3>1 DEF AcyclicSoFar
  <2> QED  BY <2>1, <2>2 DEF MustLeave
<1> HIDE DEF m, t, w
<1>4. \A v \in V : m.ptr[v] = 1 <=> loc.ptr[v] = 1 \/ v = J
  BY <1>0, <1>1, <1>2
<1>5. ASSUME NEW v \in V, NEW e \in 1 .. Len(D[v]), m.ptr[v] = 1 \/ Passed(m, v, e)
      PROVE  m.ptr[D[v][e]] = 1
  <2>1. e \in Nat /\ D[v][e] \in V  BY <1>0
  <2> QED  BY <1>1, <1>3, <1>4, <1>5, <2>1 DEF AcyclicSoFar
<1>6. NoCycleIn(D, Done(m))
  <2>1. Done(m) = Done(loc) \cup {J}  BY <1>1, <1>4 DEF Done
  <2>2. \A v \in Done(loc) \cup {J} : \A e \in 1 .. Len(D[v]) : D[v][e] \in Done(loc)
    BY <1>0, <1>1, <1>3 DEF Done, AcyclicSoFar
  <2>3. NoCycleIn(D, Done(loc))  BY DEF AcyclicSoFar
  <2> DEFINE S == Done(loc)
  <2> HIDE DEF S
  <2>4. NoCycleIn(D, S \cup {J})  BY <2>2, <2>3, NoCycleWithOneMore DEF S
  <2> QED  BY <2>1, <2>4 DEF S
<1>7. RootedSoFar(Finish)
  BY RootedFinish DEF AcyclicSoFar, Marking
<1> QED  BY <1>5, <1>6, <1>7 DEF AcyclicSoFar, m

(* The search goes on to another vertex: no mark 1 is set or taken back.     *)
LEMMA AcyclicDescend ==
  ASSUME call \in Calls, call.fn = "IS_ACYCLIC", Good(loc), AcyclicSoFar(loc), Searching,
         ~Exhausted, loc.ptr[J] = 0
  PROVE  AcyclicSoFar(Descend(2))
<1> DEFINE m == Descend(2)
           t == Level(loc)
<1>0. Nbs = D /\ loc.ptr \in [V -> 0 .. 2]
      /\ \A v \in V : Len(D[v]) \in Nat /\ \A e \in 1 .. Len(D[v]) : D[v][e] \in V
  BY DigraphFacts DEF Nbs, Good, OnPath, LocType
<1>1. /\ Level(m) = t + 1 /\ t \in Nat \ {0} /\ m.i = loc.i /\ J \in V
      /\ \A q \in 1 .. t : m.frames[q] = loc.frames[q]
      /\ m.ptr = [loc.ptr EXCEPT ![J] = 2]
      /\ \A v : \A e \in Nat \ {0} : Passed(m, v, e) <=> Passed(loc, v, e)
  BY DescendPasses
<1> HIDE DEF m, t
<1>2. \A v \in V : m.ptr[v] = 1 <=> loc.ptr[v] = 1
  BY <1>0, <1>1
<1>3. Done(m) = Done(loc)
  BY <1>2 DEF Done
<1>4. RootedSoFar(m)
  BY RootedDescend DEF AcyclicSoFar, Marking, m
<1>5. \A v \in V : \A e \in 1 .. Len(D[v]) :
        m.ptr[v] = 1 \/ Passed(m, v, e) => m.ptr[D[v][e]] = 1
  <2> TAKE v \in V
  <2> TAKE e \in 1 .. Len(D[v])
  <2>1. e \in Nat \ {0} /\ D[v][e] \in V  BY <1>0
  <2> QED  BY <1>1, <1>2, <2>1 DEF AcyclicSoFar
<1> QED  BY <1>3, <1>4, <1>5 DEF AcyclicSoFar, m

LEMMA AcyclicStart ==
  ASSUME call \in Calls, call.fn = "IS_ACYCLIC", Good(loc), AcyclicSoFar(loc), StartOrSkip
  PROVE  AcyclicSoFar(loc')
<1>0. /\ Nbs = D /\ loc.ptr \in [V -> 0 .. 2] /\ loc.i \in Nat
      /\ \A v \in V : v \in Nat /\ Len(D[v]) \in Nat /\ \A e \in 1 .. Len(D[v]) : D[v][e] \in V
      /\ BetweenSearches
  BY DigraphFacts DEF Nbs, Good, OnPath, LocType, StartOrSkip
<1>1. CASE Nbs[loc.i] = << >> /\ loc' = NextI(Marked(loc, loc.i, 1))
  <2> DEFINE m == NextI(Marked(loc, loc.i, 1))
  <2>1. /\ Level(m) = 0 /\ m.i = loc.i + 1 /\ m.ptr = [loc.ptr EXCEPT ![loc.i] = 1]
        /\ \A v, e : ~Passed(m, v, e)
        /\ loc.i \in V
    BY <1>0, StartPasses
  <2>2. Len(D[loc.i]) = 0  BY <1>0, <1>1
  <2> HIDE DEF m
  <2>3. \A v \in V : m.ptr[v] = 1 <=> loc.ptr[v] = 1 \/ v = loc.i
    BY <1>0, <2>1
  <2>4. Done(m) = Done(loc) \cup {loc.i}  BY <2>1, <2>3 DEF Done
  <2>5. NoCycleIn(D, Done(m))
    <3> DEFINE S == Done(loc)
    <3>1. NoCycleIn(D, S) /\ \A v \in S : \A e \in 1 .. Len(D[v]) : D[v][e] \in S
      BY <1>0 DEF AcyclicSoFar, Done
    <3>2. \A v \in S \cup {loc.i} : \A e \in 1 .. Len(D[v]) : D[v][e] \in S
      BY <2>2, <3>1
    <3> HIDE DEF S
    <3>3. NoCycleIn(D, S \cup {loc.i})  BY <3>1, <3>2, NoCycleWithOneMore
    <3> QED  BY <2>4, <3>3 DEF S
  <2>6. RootedSoFar(m)
    BY <1>0, RootedStart DEF AcyclicSoFar, Marking, m
  <2>7. \A v \in V : \A e \in 1 .. Len(D[v]) :
          m.ptr[v] = 1 \/ Passed(m, v, e) => m.ptr[D[v][e]] = 1
    BY <1>0, <2>1, <2>2, <2>3 DEF AcyclicSoFar
  <2>8. AcyclicSoFar(m)
    BY <2>5, <2>6, <2>7 DEF AcyclicSoFar
  <2> QED  BY <1>1, <2>8 DEF m
<1>2. CASE loc' = Push(loc, loc.i)
  <2> DEFINE m == Push(loc, loc.i)
  <2>1. /\ Level(m) = 1 /\ m.i = loc.i /\ m.ptr = loc.ptr /\ m.frames[1].v = loc.i
        /\ \A v : \A e \in Nat \ {0} : ~Passed(m, v, e)
    BY <1>0, StartPasses
  <2> HIDE DEF m
  <2>2. Done(m) = Done(loc)  BY <2>1 DEF Done
  <2>3. \A v \in V : \A e \in 1 .. Len(D[v]) : ~Passed(m, v, e)  BY <1>0, <2>1
  <2>4. RootedSoFar(m)
    BY <1>0, RootedStart DEF AcyclicSoFar, Marking, m
  <2>5. AcyclicSoFar(m)
    BY <2>1, <2>2, <2>3, <2>4 DEF AcyclicSoFar
  <2> QED  BY <1>2, <2>5 DEF m
<1>3. CASE loc.ptr[loc.i] # 0 /\ loc' = NextI(loc)
  <2> DEFINE m == NextI(loc)
  <2>1. /\ Level(m) = 0 /\ m.i = loc.i + 1 /\ m.ptr = loc.ptr
        /\ \A v, e : ~Passed(m, v, e)
        /\ loc.i \in V /\ loc.ptr[loc.i] = 1
    BY <1>0, <1>3, StartPasses
  <2> HIDE DEF m
  <2>2. Done(m) = Done(loc)  BY <2>1 DEF Done
  <2>3. RootedSoFar(m)
    BY <1>0, <1>3, RootedStart DEF AcyclicSoFar, Marking, m
  <2>4. AcyclicSoFar(m)
    BY <2>1, <2>2, <2>3 DEF AcyclicSoFar
  <2> QED  BY <1>3, <2>4 DEF m
<1> QED  BY <1>1, <1>2, <1>3 DEF StartOrSkip, Continue

(* An open vertex met again closes a cycle along the frames.                 *)
LEMMA OpenMeansCycle ==
  ASSUME call \in Calls, Nbs = D, Good(loc), Searching, loc.ptr[J] = 2
  PROVE  ~IsAcyclic(D)
<1> DEFINE t == Level(loc)
           F == loc.frames
<1>1. /\ t \in Nat /\ J = F[t].v /\ J \in V
      /\ \A p \in 1 .. t : F[p].v \in V
  BY FramesFacts DEF J, Good, OnPath, Searching
<1>2. PICK q \in 1 .. t - 1 : F[q].v = J
  BY <1>1 DEF Good, OnPath, OpenOnPath
<1> DEFINE C == { F[p].v : p \in q .. t - 1 }
<1>3. C \in SUBSET V /\ J \in C
  BY <1>1, <1>2
<1>4. ASSUME NEW p \in 1 .. t - 1 PROVE Adjacent(D, F[p].v, F[p + 1].v)
  BY DEF Good, OnPath, EdgesAlong, Adjacent
<1>5. ASSUME NEW v \in C PROVE \E w \in C : Adjacent(D, w, v)
  <2>1. PICK p \in q .. t - 1 : v = F[p].v  OBVIOUS
  <2>2. CASE p = q
    <3>1. t - 1 \in q .. t - 1 /\ t - 1 \in 1 .. t - 1 /\ (t - 1) + 1 = t  BY <1>1
    <3>2. Adjacent(D, F[t - 1].v, F[t].v)  BY <1>4, <3>1
    <3> QED  BY <1>1, <1>2, <2>1, <2>2, <3>1, <3>2
  <2>3. CASE p # q
    <3>1. p - 1 \in q .. t - 1 /\ p - 1 \in 1 .. t - 1 /\ (p - 1) + 1 = p  BY <1>1, <2>3
    <3>2. Adjacent(D, F[p - 1].v, F[p].v)  BY <1>4, <3>1
    <3> QED  BY <2>1, <3>1, <3>2
  <2> QED  BY <2>2, <2>3
<1> HIDE DEF C
<1>6. ~NoCycleIn(D, V)
  BY <1>3, <1>5 DEF NoCycleIn
<1>7. Len(D) \in Nat /\ V = 1 .. Len(D)
  BY DigraphFacts DEF N
<1> QED  BY <1>6, <1>7, AcyclicMeans

LEMMA AcyclicStep ==
  ASSUME call \in Calls, call.fn = "IS_ACYCLIC", Good(loc), AcyclicSoFar(loc), IS_ACYCLIC
  PROVE  /\ AcyclicSoFar(loc')
         /\ answer' # << >> => answer' = << "value", IsAcyclic(D) >>
<1>0. Nbs = D /\ answer = << >> /\ Len(D) \in Nat /\ V = 1 .. Len(D) /\ N = Len(D)
  BY DigraphFacts DEF Nbs, IS_ACYCLIC, Running, N
<1>1. CASE StartOrSkip
  BY <1>0, <1>1, AcyclicStart DEF StartOrSkip, Continue
<1>2. CASE AllSearched /\ Answer(TRUE)
  <2>3. Done(loc) = V
    BY <1>2, AllDone DEF AcyclicSoFar, Marking, Done
  <2>4. NoCycleIn(D, V)
    BY <2>3 DEF AcyclicSoFar
  <2>5. IsAcyclic(D) = TRUE
    BY <1>0, <2>4, AcyclicMeans DEF IsAcyclic
  <2> QED  BY <1>2, <2>5 DEF Answer
<1>3. CASE Searching /\ loc.ptr[J] = 2 /\ Answer(FALSE)
  <2>1. IsAcyclic(D) = FALSE
    BY <1>0, <1>3, OpenMeansCycle DEF IsAcyclic
  <2> QED  BY <1>3, <2>1 DEF Answer
<1>4. CASE Searching /\ loc.ptr[J] # 2 /\ Continue(IF MustLeave THEN Finish ELSE Descend(2))
  <2>1. MustLeave => AcyclicSoFar(Finish)  BY <1>4, AcyclicFinish
  <2>2. ~MustLeave => AcyclicSoFar(Descend(2))
    BY <1>4, AcyclicDescend, MarkOfTop DEF MustLeave
  <2> QED  BY <1>0, <1>4, <2>1, <2>2 DEF Continue
<1> QED  BY <1>1, <1>2, <1>3, <1>4 DEF IS_ACYCLIC
------------------------------------------------------------------------------
(* IS_ANTISYMMETRIC_DIGRAPH: an edge that was passed, and one of a vertex    *)
(* that is done with, has none back unless it is a loop.                     *)
OneWay(v, w) == v = w \/ ~Adjacent(D, w, v)

OneWaySoFar(l) ==
  /\ \A v \in V : \A e \in 1 .. Len(D[v]) :
       l.ptr[v] = 1 \/ Passed(l, v, e) => OneWay(v, D[v][e])
  /\ RootedSoFar(l)

LEMMA OneWayFinish ==
  ASSUME call \in Calls, call.fn = "IS_ANTISYMMETRIC", Good(loc), OneWaySoFar(loc), Searching,
         Exhausted
  PROVE  OneWaySoFar(Finish)
<1> DEFINE m == Finish
           t == Level(loc)
           w == loc.frames[t - 1].v
<1>0. call.fn \in Marking /\ RootedSoFar(loc)  BY DEF Marking, OneWaySoFar
<1>1. /\ J \in V
      /\ t = 1 => m.ptr = [loc.ptr EXCEPT ![J] = 1]
      /\ t # 1 => m.ptr = [[loc.ptr EXCEPT ![J] = 1] EXCEPT ![w] = 0]
      /\ \A v : \A e \in Nat : Passed(m, v, e) =>
           Passed(loc, v, e) \/ (t # 1 /\ v = w /\ D[v][e] = J)
  BY <1>0, FinishPasses, MarkingFacts
<1>2. \A e \in 1 .. Len(D[J]) : OneWay(J, D[J][e])
  BY <1>0, <1>1, ExhaustedPassed, MarkingFacts DEF OneWaySoFar
<1>3. RootedSoFar(m)
  BY <1>0, RootedFinish
<1> HIDE DEF m, t, w
<1>4. \A v \in V : m.ptr[v] = 1 => loc.ptr[v] = 1 \/ v = J
  BY <1>0, <1>1, MarkingFacts
<1>5. ASSUME NEW v \in V, NEW e \in 1 .. Len(D[v]), m.ptr[v] = 1 \/ Passed(m, v, e)
      PROVE  OneWay(v, D[v][e])
  <2>1. e \in Nat  BY <1>0, MarkingFacts
  <2>2. CASE v = J  BY <1>2, <2>2
  <2>3. CASE loc.ptr[v] = 1 \/ Passed(loc, v, e)  BY <2>3 DEF OneWaySoFar
  <2>4. CASE D[v][e] = J
    <3>1. Adjacent(D, J, v) => J = v
      BY <1>2, <2>4 DEF Adjacent, OneWay
    <3> QED  BY <2>4, <3>1 DEF OneWay
  <2> QED  BY <1>1, <1>4, <1>5, <2>1, <2>2, <2>3, <2>4
<1> QED  BY <1>3, <1>5 DEF OneWaySoFar, m

(* Back from a vertex that was met before: the edge to it has none back.     *)
LEMMA OneWayLeave ==
  ASSUME call \in Calls, call.fn = "IS_ANTISYMMETRIC", Good(loc), OneWaySoFar(loc), Searching,
         loc.ptr[J] # 0, ~BackEdge
  PROVE  OneWaySoFar(Backtrack(loc))
<1> DEFINE m == Backtrack(loc)
           t == Level(loc)
           w == loc.frames[t - 1].v
<1>0. call.fn \in Marking /\ RootedSoFar(loc)  BY DEF Marking, OneWaySoFar
<1>1. /\ J \in V /\ t \in Nat \ {0}
      /\ t # 1 => w \in V
      /\ t = 1 => m.ptr = loc.ptr
      /\ t # 1 => m.ptr = [loc.ptr EXCEPT ![w] = 0]
      /\ \A v : \A e \in Nat : Passed(m, v, e) =>
           Passed(loc, v, e) \/ (t # 1 /\ v = w /\ D[v][e] = J)
  BY <1>0, LeavePasses, MarkingFacts
<1>2. RootedSoFar(m)
  BY <1>0, RootedLeave
<1>3. t # 1 => Below(1).v = w
  BY <1>1 DEF Below
<1>4. t # 1 => OneWay(w, J)
  <2>1. CASE loc.ptr[J] = 2 /\ t # 1
    <3>1. w = J \/ ~\E e \in 1 .. Len(D[J]) : D[J][e] = w
      BY <1>0, <1>3, <2>1, MarkingFacts DEF BackEdge
    <3> QED  BY <3>1 DEF OneWay, Adjacent
  <2>2. CASE loc.ptr[J] = 1 /\ t # 1
    <3>1. \A e \in 1 .. Len(D[J]) : OneWay(J, D[J][e])
      BY <1>1, <2>2 DEF OneWaySoFar
    <3>2. Adjacent(D, J, w) => J = w \/ ~Adjacent(D, w, J)
      BY <3>1 DEF Adjacent, OneWay
    <3>3. Adjacent(D, w, J)
      <4>1. t - 1 \in 1 .. Level(loc) - 1 /\ (t - 1) + 1 = t  BY <1>1, <2>2
      <4>2. loc.frames[t].v = J  BY <1>0, LeavePasses
      <4> QED  BY <1>0, <4>1, <4>2, MarkingFacts DEF Good, OnPath, EdgesAlong, Adjacent
    <3> QED  BY <3>2, <3>3 DEF OneWay
  <2> QED  BY <1>0, <1>1, <2>1, <2>2, MarkingFacts
<1> HIDE DEF m, t, w
<1>5. \A v \in V : m.ptr[v] = 1 => loc.ptr[v] = 1
  BY <1>0, <1>1, MarkingFacts
<1>6. ASSUME NEW v \in V, NEW e \in 1 .. Len(D[v]), m.ptr[v] = 1 \/ Passed(m, v, e)
      PROVE  OneWay(v, D[v][e])
  <2>1. e \in Nat  BY <1>0, MarkingFacts
  <2> QED  BY <1>1, <1>4, <1>5, <1>6, <2>1 DEF OneWaySoFar
<1> QED  BY <1>2, <1>6 DEF OneWaySoFar, m

LEMMA OneWayOther ==
  ASSUME call \in Calls, call.fn = "IS_ANTISYMMETRIC", Good(loc), OneWaySoFar(loc)
  PROVE  /\ Searching /\ ~Exhausted /\ loc.ptr[J] = 0 => OneWaySoFar(Descend(2))
         /\ StartOrSkip => OneWaySoFar(loc')
<1>0. call.fn \in Marking /\ RootedSoFar(loc)  BY DEF Marking, OneWaySoFar
<1>1. ASSUME Searching, ~Exhausted, loc.ptr[J] = 0 PROVE OneWaySoFar(Descend(2))
  <2> DEFINE m == Descend(2)
  <2>1. /\ J \in V /\ m.ptr = [loc.ptr EXCEPT ![J] = 2]
        /\ \A v : \A e \in Nat \ {0} : Passed(m, v, e) <=> Passed(loc, v, e)
    BY <1>1, DescendPasses
  <2>2. RootedSoFar(m)  BY <1>0, <1>1, RootedDescend
  <2> HIDE DEF m
  <2>3. ASSUME NEW v \in V, NEW e \in 1 .. Len(D[v]), m.ptr[v] = 1 \/ Passed(m, v, e)
        PROVE  OneWay(v, D[v][e])
    <3>1. e \in Nat \ {0}  BY <1>0, MarkingFacts
    <3> QED  BY <1>0, <2>1, <2>3, <3>1, MarkingFacts DEF OneWaySoFar
  <2> QED  BY <2>2, <2>3 DEF OneWaySoFar, m
<1>2. ASSUME StartOrSkip PROVE OneWaySoFar(loc')
  <2>0. BetweenSearches  BY <1>2 DEF StartOrSkip
  <2>1. CASE Nbs[loc.i] = << >> /\ loc' = NextI(Marked(loc, loc.i, 1))
    <3> DEFINE m == NextI(Marked(loc, loc.i, 1))
    <3>1. /\ loc.i \in V /\ m.ptr = [loc.ptr EXCEPT ![loc.i] = 1] /\ \A v, e : ~Passed(m, v, e)
      BY <2>0, StartPasses
    <3>2. RootedSoFar(m)  BY <1>0, <2>0, RootedStart
    <3>3. Len(D[loc.i]) = 0  BY <1>0, <2>1, MarkingFacts
    <3> HIDE DEF m
    <3>4. ASSUME NEW v \in V, NEW e \in 1 .. Len(D[v]), m.ptr[v] = 1
          PROVE  OneWay(v, D[v][e])
      BY <1>0, <3>1, <3>3, <3>4, MarkingFacts DEF OneWaySoFar
    <3>5. OneWaySoFar(m)  BY <3>1, <3>2, <3>4 DEF OneWaySoFar
    <3> QED  BY <2>1, <3>5 DEF m
  <2>2. CASE loc' = Push(loc, loc.i)
    <3> DEFINE m == Push(loc, loc.i)
    <3>1. m.ptr = loc.ptr /\ \A v : \A e \in Nat \ {0} : ~Passed(m, v, e)
      BY <2>0, StartPasses
    <3>2. RootedSoFar(m)  BY <1>0, <2>0, RootedStart
    <3> HIDE DEF m
    <3>3. \A v \in V : \A e \in 1 .. Len(D[v]) : ~Passed(m, v, e)  BY <1>0, <3>1, MarkingFacts
    <3>4. OneWaySoFar(m)  BY <3>1, <3>2, <3>3 DEF OneWaySoFar
    <3> QED  BY <2>2, <3>4 DEF m
  <2>3. CASE loc.ptr[loc.i] # 0 /\ loc' = NextI(loc)
    <3> DEFINE m == NextI(loc)
    <3>1. m.ptr = loc.ptr /\ \A v, e : ~Passed(m, v, e)
      BY <2>0, StartPasses
    <3>2. RootedSoFar(m)  BY <1>0, <2>0, <2>3, RootedStart
    <3> HIDE DEF m
    <3>3. OneWaySoFar(m)  BY <3>1, <3>2 DEF OneWaySoFar
    <3> QED  BY <2>3, <3>3 DEF m
  <2> QED  BY <1>2, <2>1, <2>2, <2>3 DEF StartOrSkip, Continue
<1> QED  BY <1>1, <1>2

IsAntisymmetric == \A u, v \in V : Adjacent(D, u, v) /\ Adjacent(D, v, u) => u = v

(* FALSE is answered only when two edges go to and fro.                      *)
LEMMA ToAndFroFound ==
  ASSUME call \in Calls, call.fn = "IS_ANTISYMMETRIC", Good(loc), Searching, ToAndFro \/ BackEdge
  PROVE  ~IsAntisymmetric
<1> DEFINE t == Level(loc)
           F == loc.frames
<1>0. call.fn \in Marking  BY DEF Marking
<1>1. /\ t \in Nat \ {0} /\ J = F[t].v /\ J \in V
      /\ \A p \in 1 .. t : F[p].v \in V
  BY FramesFacts DEF J, Good, OnPath, Searching
<1>2. ASSUME NEW p \in 1 .. t - 1 PROVE Adjacent(D, F[p].v, F[p + 1].v)
  BY <1>0, MarkingFacts DEF Good, OnPath, EdgesAlong, Adjacent
<1>3. \A v \in V : v # 0  BY DigraphFacts
<1>4. CASE ToAndFro
  <2>1. t > 2  BY <1>1, <1>3, <1>4 DEF ToAndFro, Below
  <2>2. Below(2).v = F[t - 2].v /\ Below(1).v = F[t - 1].v  BY <1>1, <2>1 DEF Below
  <2>3. /\ t - 2 \in 1 .. t - 1 /\ t - 1 \in 1 .. t - 1 /\ t - 1 \in 1 .. t
        /\ (t - 2) + 1 = t - 1 /\ (t - 1) + 1 = t
    BY <1>1, <2>1
  <2>4. Adjacent(D, J, F[t - 1].v) /\ Adjacent(D, F[t - 1].v, J) /\ J # F[t - 1].v
    BY <1>1, <1>2, <1>4, <2>2, <2>3 DEF ToAndFro
  <2> QED  BY <1>1, <2>3, <2>4 DEF IsAntisymmetric
<1>5. CASE BackEdge
  <2>1. Below(1).v \in V /\ Below(1).v # J /\ Adjacent(D, J, Below(1).v)
    BY <1>0, <1>1, <1>5, MarkingFacts DEF BackEdge, Adjacent
  <2>2. t > 1  BY <1>1, <1>3, <2>1 DEF Below
  <2>3. Below(1).v = F[t - 1].v  BY <1>1, <2>2 DEF Below
  <2>4. t - 1 \in 1 .. t - 1 /\ (t - 1) + 1 = t  BY <1>1, <2>2
  <2>5. Adjacent(D, Below(1).v, J)  BY <1>1, <1>2, <2>3, <2>4
  <2> QED  BY <1>1, <2>1, <2>5 DEF IsAntisymmetric
<1> QED  BY <1>4, <1>5

LEMMA AntisymmetricStep ==
  ASSUME call \in Calls, call.fn = "IS_ANTISYMMETRIC", Good(loc), OneWaySoFar(loc), IS_ANTISYMMETRIC
  PROVE  /\ OneWaySoFar(loc')
         /\ answer' # << >> => answer' = << "value", IsAntisymmetric >>
<1>0. call.fn \in Marking /\ RootedSoFar(loc) /\ answer = << >>
  BY DEF Marking, OneWaySoFar, IS_ANTISYMMETRIC, Running
<1>1. CASE N <= 1 /\ Answer(TRUE)
  <2>1. IsAntisymmetric = TRUE  BY <1>1, DigraphFacts DEF IsAntisymmetric
  <2> QED  BY <1>1, <2>1 DEF Answer
<1>2. CASE StartOrSkip
  BY <1>0, <1>2, OneWayOther DEF StartOrSkip, Continue
<1>3. CASE AllSearched /\ Answer(TRUE)
  <2>1. \A v \in V : \A e \in 1 .. Len(D[v]) : OneWay(v, D[v][e])
    BY <1>0, <1>3, AllDone DEF OneWaySoFar
  <2>2. IsAntisymmetric = TRUE  BY <2>1 DEF OneWay, IsAntisymmetric, Adjacent
  <2> QED  BY <1>3, <2>2 DEF Answer
<1>4. CASE Searching /\ (ToAndFro \/ BackEdge) /\ Answer(FALSE)
  <2>1. IsAntisymmetric = FALSE  BY <1>4, ToAndFroFound DEF IsAntisymmetric
  <2> QED  BY <1>4, <2>1 DEF Answer
<1>5. CASE /\ Searching /\ ~BackEdge
           /\ Continue(IF Exhausted THEN Finish ELSE IF loc.ptr[J] >= 1 THEN Backtrack(loc) ELSE Descend(2))
  <2>1. Exhausted => OneWaySoFar(Finish)  BY <1>5, OneWayFinish
  <2>2. loc.ptr[J] >= 1 => OneWaySoFar(Backtrack(loc))  BY <1>5, OneWayLeave
  <2>3. ~Exhausted /\ ~(loc.ptr[J] >= 1) => OneWaySoFar(Descend(2))
    BY <1>5, OneWayOther, MarkOfTop
  <2> QED  BY <1>0, <1>5, <2>1, <2>2, <2>3 DEF Continue
<1> QED  BY <1>1, <1>2, <1>3, <1>4, <1>5 DEF IS_ANTISYMMETRIC
------------------------------------------------------------------------------
(* DIGRAPH_PATH: the edges of what was seen and is not on the path, and those*)
(* that were passed, lead to what was seen and not to the target.            *)
Seen(l, v) == l.ptr[v] # 0 \/ \E q \in 1 .. Level(l) : l.frames[q].v = v
OnWay(l, v) == \E q \in 1 .. Level(l) - 1 : l.frames[q].v = v
Leads(l, v, e) == Seen(l, D[v][e]) /\ D[v][e] # call.target

NotFoundSoFar(l) ==
  /\ Seen(l, call.start)
  /\ \A v \in V : \A e \in 1 .. Len(D[v]) :
       Passed(l, v, e) \/ (l.ptr[v] # 0 /\ ~OnWay(l, v)) => Leads(l, v, e)
  /\ \A q \in 2 .. Level(l) : l.frames[q].v # call.target
  /\ FromRoot(l)

LEMMA PathFacts ==
  ASSUME call \in Calls, call.fn = "PATH", Good(loc)
  PROVE  /\ Nbs = D /\ OpenMarks = {1, 2} /\ loc.ptr \in [V -> 0 .. 2]
         /\ \A v \in V : Len(D[v]) \in Nat /\ \A e \in 1 .. Len(D[v]) : D[v][e] \in V
         /\ \A l : Root(l) = call.start
         /\ call.start \in V /\ call.target \in V /\ ~Adjacent(D, call.start, call.target)
         /\ Len(D) \in Nat /\ V = 1 .. Len(D)
<1>1. /\ call.start \in 1 .. Len(call.adj) /\ call.target \in 1 .. Len(call.adj)
      /\ ~Adjacent(call.adj, call.start, call.target)
  BY CallsAssumption DEF FromOne
<1> QED  BY <1>1, DigraphFacts DEF Nbs, OpenMarks, Good, OnPath, LocType, Root, FromOne, V, D, Vertices, N

LEMMA NotFoundFinish ==
  ASSUME call \in Calls, call.fn = "PATH", Good(loc), NotFoundSoFar(loc), Searching,
         loc.ptr[J] # 0 \/ Exhausted
  PROVE  NotFoundSoFar(Finish)
<1> DEFINE m == Finish
           t == Level(loc)
           w == loc.frames[t - 1].v
<1>1. /\ Level(m) = t - 1 /\ t \in Nat \ {0}
      /\ J \in V /\ J = loc.frames[t].v
      /\ \A q \in 1 .. t - 1 : m.frames[q].v = loc.frames[q].v /\ loc.frames[q].v \in V
      /\ t = 1 => m.ptr = [loc.ptr EXCEPT ![J] = 1]
      /\ t # 1 => m.ptr = [[loc.ptr EXCEPT ![J] = 1] EXCEPT ![w] = 0]
      /\ \A v : \A e \in Nat : Passed(m, v, e) =>
           Passed(loc, v, e) \/ (t # 1 /\ v = w /\ D[v][e] = J)
  BY FinishPasses, PathFacts
<1>2. t # 1 => w \in V /\ t - 1 \in 1 .. t - 1
  BY <1>1
<1>3. Exhausted => \A e \in 1 .. Len(D[J]) : Passed(loc, J, e)
  BY ExhaustedPassed, PathFacts
<1>t. t = Level(loc)  OBVIOUS
<1>w. w = loc.frames[t - 1].v  OBVIOUS
<1> HIDE DEF m, t, w
<1>4. ASSUME NEW v \in V, Seen(loc, v) PROVE Seen(m, v)
  <2>1. CASE v = J
    <3>1. CASE t = 1
      <4>1. m.ptr[J] = 1  BY <1>1, <3>1, PathFacts
      <4> QED  BY <2>1, <4>1 DEF Seen
    <3>2. CASE t # 1
      <4>1. CASE w = J
        <5>1. t - 1 \in 1 .. Level(m) /\ m.frames[t - 1].v = w  BY <1>1, <1>2, <1>w, <3>2
        <5> QED  BY <2>1, <4>1, <5>1 DEF Seen
      <4>2. CASE w # J  BY <1>1, <1>2, <2>1, <3>2, <4>2, PathFacts DEF Seen
      <4> QED  BY <4>1, <4>2
    <3> QED  BY <3>1, <3>2
  <2>2. CASE v # J /\ \E q \in 1 .. t : loc.frames[q].v = v
    <3>1. PICK q \in 1 .. t : loc.frames[q].v = v  BY <2>2
    <3>2. q \in 1 .. t - 1  BY <1>1, <2>2, <3>1
    <3> QED  BY <1>1, <3>1, <3>2 DEF Seen
  <2>3. CASE v # J /\ loc.ptr[v] # 0
    <3>1. CASE t # 1 /\ v = w  BY <1>1, <1>2, <1>w, <3>1 DEF Seen
    <3>2. CASE t = 1 \/ v # w  BY <1>1, <1>2, <2>3, <3>2, PathFacts DEF Seen
    <3> QED  BY <3>1, <3>2
  <2> QED  BY <1>4, <1>t, <2>1, <2>2, <2>3 DEF Seen
<1>5. ASSUME NEW v \in V, NEW e \in 1 .. Len(D[v]), Leads(loc, v, e) PROVE Leads(m, v, e)
  BY <1>4, <1>5, PathFacts DEF Leads
<1>6. ASSUME NEW v \in V, NEW e \in 1 .. Len(D[v]), Passed(m, v, e) PROVE Leads(m, v, e)
  <2>1. e \in Nat  BY PathFacts
  <2>2. CASE Passed(loc, v, e)  BY <1>5, <2>2 DEF NotFoundSoFar
  <2>3. CASE t # 1 /\ D[v][e] = J
    <3>1. Seen(loc, J)  BY <1>1, <1>t DEF Seen
    <3>2. J # call.target
      <4>1. t \in 2 .. t  BY <1>1, <2>3
      <4> QED  BY <1>1, <1>t, <4>1 DEF NotFoundSoFar
    <3> QED  BY <1>1, <1>4, <2>3, <3>1, <3>2 DEF Leads
  <2> QED  BY <1>1, <1>6, <2>1, <2>2, <2>3
<1>7. ASSUME NEW v \in V, NEW e \in 1 .. Len(D[v]), m.ptr[v] # 0, ~OnWay(m, v)
      PROVE  Leads(m, v, e)
  <2>1. t # 1 => v # w
    BY <1>1, <1>2, <1>7, PathFacts
  <2>2. ~OnWay(loc, v)
    <3> SUFFICES ASSUME NEW q \in 1 .. t - 1, loc.frames[q].v = v PROVE FALSE
      BY <1>t DEF OnWay
    <3>1. q # t - 1  BY <1>1, <1>w, <2>1
    <3>2. q \in 1 .. (t - 1) - 1  BY <1>1, <3>1
    <3> QED  BY <1>1, <1>7, <3>2 DEF OnWay
  <2>3. CASE loc.ptr[v] # 0  BY <1>5, <2>2, <2>3 DEF NotFoundSoFar
  <2>4. CASE loc.ptr[v] = 0
    <3>1. v = J  BY <1>1, <1>2, <1>7, <2>1, <2>4, PathFacts
    <3>2. Passed(loc, v, e)  BY <1>3, <2>4, <3>1
    <3> QED  BY <1>5, <3>2 DEF NotFoundSoFar
  <2> QED  BY <2>3, <2>4
<1>8. \A q \in 2 .. Level(m) : m.frames[q].v # call.target
  BY <1>1, <1>t DEF NotFoundSoFar
<1>9. FromRoot(m)
  <2>1. CASE t = 1  BY <1>1, <2>1 DEF FromRoot
  <2>2. CASE t # 1
    <3>1. 1 \in 1 .. t - 1  BY <1>1, <2>2
    <3> QED  BY <1>1, <1>t, <2>2, <3>1, PathFacts DEF FromRoot, NotFoundSoFar
  <2> QED  BY <2>1, <2>2
<1>10. Seen(m, call.start)
  BY <1>4, PathFacts DEF NotFoundSoFar
<1> QED  BY <1>6, <1>7, <1>8, <1>9, <1>10 DEF NotFoundSoFar, m

LEMMA NotFoundDescend ==
  ASSUME call \in Calls, call.fn = "PATH", Good(loc), NotFoundSoFar(loc), Searching,
         loc.ptr[J] = 0, ~Exhausted, Nbs[J][K] # call.target
  PROVE  NotFoundSoFar(Descend(2))
<1> DEFINE m == Descend(2)
           t == Level(loc)
<1>1. /\ Level(m) = t + 1 /\ t \in Nat \ {0}
      /\ J \in V /\ Nbs[J][K] \in V
      /\ \A q \in 1 .. t : m.frames[q] = loc.frames[q]
      /\ m.frames[t + 1] = [ v |-> Nbs[J][K], k |-> 1 ]
      /\ m.ptr = [loc.ptr EXCEPT ![J] = 2]
      /\ \A v : \A e \in Nat \ {0} : Passed(m, v, e) <=> Passed(loc, v, e)
  BY DescendPasses
<1>2. J = loc.frames[t].v
  BY DEF J, TopFrame
<1>t. t = Level(loc)  OBVIOUS
<1> HIDE DEF m, t
<1>3. ASSUME NEW v \in V, Seen(loc, v) PROVE Seen(m, v)
  <2>1. CASE loc.ptr[v] # 0  BY <1>1, <2>1, PathFacts DEF Seen
  <2>2. CASE \E q \in 1 .. t : loc.frames[q].v = v
    <3>1. PICK q \in 1 .. t : loc.frames[q].v = v  BY <2>2
    <3>2. q \in 1 .. t + 1 /\ m.frames[q].v = v  BY <1>1, <3>1
    <3> QED  BY <1>1, <3>2 DEF Seen
  <2> QED  BY <1>3, <1>t, <2>1, <2>2 DEF Seen
<1>4. ASSUME NEW v \in V, NEW e \in 1 .. Len(D[v]),
             Passed(m, v, e) \/ (m.ptr[v] # 0 /\ ~OnWay(m, v))
      PROVE  Leads(m, v, e)
  <2>1. e \in Nat \ {0}  BY PathFacts
  <2>2. Leads(loc, v, e) => Leads(m, v, e)  BY <1>3, PathFacts DEF Leads
  <2>3. CASE Passed(m, v, e)  BY <1>1, <2>1, <2>2, <2>3 DEF NotFoundSoFar
  <2>4. CASE m.ptr[v] # 0 /\ ~OnWay(m, v)
    <3>1. v # J
      <4>1. t \in 1 .. (t + 1) - 1  BY <1>1
      <4> QED  BY <1>1, <1>2, <2>4, <4>1 DEF OnWay
    <3>2. loc.ptr[v] # 0  BY <1>1, <2>4, <3>1, PathFacts
    <3>3. ~OnWay(loc, v)
      <4> SUFFICES ASSUME NEW q \in 1 .. t - 1, loc.frames[q].v = v PROVE FALSE
        BY <1>t DEF OnWay
      <4>1. q \in 1 .. (t + 1) - 1 /\ q \in 1 .. t  BY <1>1
      <4> QED  BY <1>1, <2>4, <4>1 DEF OnWay
    <3> QED  BY <2>2, <3>2, <3>3 DEF NotFoundSoFar
  <2> QED  BY <1>4, <2>3, <2>4
<1>5. \A q \in 2 .. Level(m) : m.frames[q].v # call.target
  <2> TAKE q \in 2 .. Level(m)
  <2>1. CASE q = t + 1  BY <1>1, <2>1
  <2>2. CASE q # t + 1
    <3>1. q \in 2 .. t /\ q \in 1 .. t  BY <1>1, <2>2
    <3> QED  BY <1>1, <1>t, <3>1 DEF NotFoundSoFar
  <2> QED  BY <2>1, <2>2
<1>6. FromRoot(m)
  <2>1. 1 \in 1 .. t /\ t # 0  BY <1>1
  <2> QED  BY <1>1, <1>t, <2>1, PathFacts DEF FromRoot, NotFoundSoFar
<1>7. Seen(m, call.start)
  BY <1>3, PathFacts DEF NotFoundSoFar
<1> QED  BY <1>4, <1>5, <1>6, <1>7 DEF NotFoundSoFar, m

(* The answers.                                                              *)
LEMMA NoWayOut ==
  ASSUME call \in Calls, call.fn = "PATH", Good(loc), NotFoundSoFar(loc),
         Nbs[call.start] = << >> \/ ~Searching
  PROVE  ~Reaches(D, call.start, call.target)
<1> DEFINE C == IF Nbs[call.start] = << >> THEN { call.start } ELSE { v \in V : loc.ptr[v] # 0 }
<1>1. C \in SUBSET V /\ call.start \in C
      /\ \A v \in C : \A e \in 1 .. Len(D[v]) : D[v][e] \in C /\ D[v][e] # call.target
  <2>1. CASE Nbs[call.start] = << >>
    <3>1. C = { call.start } /\ Len(D[call.start]) = 0  BY <2>1, PathFacts
    <3> QED  BY <3>1, PathFacts
  <2>2. CASE Nbs[call.start] # << >> /\ ~Searching
    <3>1. Level(loc) = 0  BY <2>2 DEF Searching, Level
    <3>2. \A v : ~OnWay(loc, v) /\ (Seen(loc, v) <=> loc.ptr[v] # 0)  BY <3>1 DEF OnWay, Seen
    <3>3. C = { v \in V : loc.ptr[v] # 0 }  BY <2>2
    <3> HIDE DEF C
    <3> QED  BY <3>2, <3>3, PathFacts DEF NotFoundSoFar, Leads
  <2> QED  BY <2>1, <2>2
<1> HIDE DEF C
<1>2. NoEdgeLeaves(D, C)
  BY <1>1 DEF NoEdgeLeaves, Adjacent
<1> SUFFICES ASSUME Reaches(D, call.start, call.target) PROVE FALSE
  OBVIOUS
<1>3. PICK w \in V : ReachesOrIs(D, call.start, w) /\ Adjacent(D, w, call.target)
  BY ReachesByLastEdge, PathFacts
<1>4. w \in C
  BY <1>1, <1>2, <1>3, ReachesOrIsClosed, PathFacts
<1> QED  BY <1>1, <1>3, <1>4 DEF Adjacent

PathAnswer ==
  IF answer = << "fail" >> THEN ~Reaches(D, call.start, call.target)
  ELSE LET path == answer[2].path
           edge == answer[2].edge
       IN  /\ path[1] = call.start /\ path[Len(path)] = call.target
           /\ Len(edge) = Len(path) - 1
           /\ \A q \in 1 .. Len(edge) : D[path[q]][edge[q]] = path[q + 1]
           /\ \A p, q \in 1 .. Len(edge) : path[p] = path[q] => p = q

LEMMA PathAnswered ==
  ASSUME call \in Calls, call.fn = "PATH", Good(loc), NotFoundSoFar(loc), Searching,
         loc.ptr[J] = 0, ~Exhausted, Nbs[J][K] = call.target
  PROVE  LET path == FoundPath(Descend(2)).path
             edge == FoundPath(Descend(2)).edge
         IN  /\ path[1] = call.start /\ path[Len(path)] = call.target
             /\ Len(edge) = Len(path) - 1
             /\ \A q \in 1 .. Len(edge) : D[path[q]][edge[q]] = path[q + 1]
             /\ \A p, q \in 1 .. Len(edge) : path[p] = path[q] => p = q
<1> DEFINE m == Descend(2)
           t == Level(loc)
           path == FoundPath(m).path
           edge == FoundPath(m).edge
<1>1. /\ Level(m) = t + 1 /\ t \in Nat \ {0}
      /\ \A q \in 1 .. t : m.frames[q] = loc.frames[q]
      /\ m.frames[t + 1] = [ v |-> Nbs[J][K], k |-> 1 ]
  BY DescendPasses
<1>2. Good(m)
  BY DescendGood, PathFacts
<1>t. t = Level(loc)  OBVIOUS
<1> HIDE DEF m, t
<1>3. /\ path = [q \in 1 .. t + 1 |-> m.frames[q].v]
      /\ edge = [q \in 1 .. t |-> m.frames[q].k]
  <2>1. (t + 1) - 1 = t  BY <1>1
  <2> QED  BY <1>1, <2>1 DEF FoundPath
<1> HIDE DEF path, edge
<1>4. Len(path) = t + 1 /\ Len(edge) = t
  BY <1>1, <1>3
<1>5. \A q \in 1 .. t : q \in 1 .. t + 1 /\ q + 1 \in 1 .. t + 1 /\ (t + 1) - 1 = t
  BY <1>1
<1>6. path[1] = call.start
  <2>1. 1 \in 1 .. t /\ t # 0  BY <1>1
  <2> QED  BY <1>1, <1>3, <1>5, <1>t, <2>1, PathFacts DEF NotFoundSoFar, FromRoot
<1>7. path[t + 1] = call.target
  <2>1. t + 1 \in 1 .. t + 1  BY <1>1
  <2> QED  BY <1>1, <1>3, <2>1
<1>8. ASSUME NEW q \in 1 .. t PROVE D[path[q]][edge[q]] = path[q + 1]
  BY <1>1, <1>2, <1>3, <1>5, PathFacts DEF Good, OnPath, EdgesAlong
<1>9. ASSUME NEW p \in 1 .. t, NEW q \in 1 .. t, path[p] = path[q] PROVE p = q
  BY <1>1, <1>2, <1>3, <1>5, <1>9 DEF Good, OnPath, NoneTwiceOn
<1>10. (t + 1) - 1 = t  BY <1>1
<1> QED  BY <1>4, <1>6, <1>7, <1>8, <1>9, <1>10 DEF path, edge, m

LEMMA PathFindStep ==
  ASSUME call \in Calls, call.fn = "PATH", Good(loc), NotFoundSoFar(loc), PATH
  PROVE  /\ NotFoundSoFar(loc')
         /\ answer' # << >> =>
              \/ answer' = << "fail" >> /\ ~Reaches(D, call.start, call.target)
              \/ /\ answer' = << "value", FoundPath(Descend(2)) >>
                 /\ Searching /\ loc.ptr[J] = 0 /\ ~Exhausted /\ Nbs[J][K] = call.target
<1>0. answer = << >>  BY DEF PATH, Running
<1>1. CASE (Nbs[call.start] = << >> \/ ~Searching) /\ Fail
  BY <1>1, NoWayOut DEF Fail
<1>2. CASE Searching /\ (loc.ptr[J] # 0 \/ Exhausted) /\ Continue(Finish)
  BY <1>0, <1>2, NotFoundFinish DEF Continue
<1>3. CASE Searching /\ ~(loc.ptr[J] # 0 \/ Exhausted) /\ Nbs[J][K] = call.target
           /\ Answer(FoundPath(Descend(2)))
  BY <1>3 DEF Answer
<1>4. CASE Searching /\ ~(loc.ptr[J] # 0 \/ Exhausted) /\ Nbs[J][K] # call.target
           /\ Continue(Descend(2))
  BY <1>0, <1>4, NotFoundDescend DEF Continue
<1> QED  BY <1>1, <1>2, <1>3, <1>4 DEF PATH

------------------------------------------------------------------------------
(* The three together: what holds while one of them runs, and the answer.    *)
AnswersInv ==
  /\ PathInv
  /\ call.fn = "IS_ACYCLIC" =>
       AcyclicSoFar(loc) /\ (answer # << >> => answer = << "value", IsAcyclic(D) >>)
  /\ call.fn = "IS_ANTISYMMETRIC" =>
       OneWaySoFar(loc) /\ (answer # << >> => answer = << "value", IsAntisymmetric >>)
  /\ call.fn = "PATH" =>
       NotFoundSoFar(loc) /\ (answer # << >> => PathAnswer)

LEMMA AnswersInit == Init => AnswersInv
<1> SUFFICES ASSUME Init PROVE AnswersInv
  OBVIOUS
<1>1. PathInv /\ call \in Calls /\ answer = << >>
  BY PathInit DEF Init
<1> SUFFICES ASSUME call.fn \in { "IS_ACYCLIC", "IS_ANTISYMMETRIC", "PATH" }
             PROVE  /\ call.fn = "IS_ACYCLIC" => AcyclicSoFar(loc)
                    /\ call.fn = "IS_ANTISYMMETRIC" => OneWaySoFar(loc)
                    /\ call.fn = "PATH" => NotFoundSoFar(loc)
  BY <1>1 DEF AnswersInv
<1>2. loc = SearchLocals
  BY DEF Init, InitialLocals, MatrixFunctions, Distances, Closures, Searches, Rooted,
         FromOne, LoopFunctions, Counts
<1>3. loc.i = 1 /\ \A v \in V : loc.ptr[v] = 0
  BY <1>2 DEF SearchLocals
<1>4. V = 1 .. N /\ N \in Nat
  BY <1>1, DigraphFacts
<1>5. CASE call.fn \in { "IS_ACYCLIC", "IS_ANTISYMMETRIC" }
  <2>1. Level(loc) = 0  BY <1>2, <1>5 DEF SearchLocals, FromOne, Level
  <2>2. \A v : \A e : ~Passed(loc, v, e)  BY <2>1 DEF Passed
  <2>3. RootedSoFar(loc)  BY <1>3, <1>4, <2>1 DEF RootedSoFar, AllBefore, FromRoot
  <2>4. NoCycleIn(D, Done(loc))  BY <1>3 DEF Done, NoCycleIn
  <2> QED  BY <1>3, <1>5, <2>2, <2>3, <2>4 DEF AcyclicSoFar, OneWaySoFar
<1>6. CASE call.fn = "PATH"
  <2>1. loc.frames = << Frame(call.start) >>
    BY <1>2, <1>6 DEF SearchLocals, FromOne
  <2>2. Level(loc) = 1 /\ loc.frames[1] = Frame(call.start)  BY <2>1 DEF Level
  <2>3. loc.frames[1].v = call.start /\ loc.frames[1].k = 1  BY <2>2 DEF Frame
  <2>4. \A v \in V : \A e \in 1 .. Len(D[v]) : ~Passed(loc, v, e)
    BY <1>1, <2>2, <2>3, DigraphFacts DEF Passed
  <2>5. FromRoot(loc)  BY <1>6, <2>3 DEF FromRoot, Root, FromOne
  <2>6. Seen(loc, call.start)  BY <2>2, <2>3 DEF Seen
  <2> QED  BY <1>3, <1>6, <2>2, <2>4, <2>5, <2>6 DEF NotFoundSoFar
<1> QED  BY <1>5, <1>6

LEMMA AnswersPrime ==
  ASSUME call' = call
  PROVE  /\ AcyclicSoFar(loc)' <=> AcyclicSoFar(loc')
         /\ OneWaySoFar(loc)' <=> OneWaySoFar(loc')
         /\ NotFoundSoFar(loc)' <=> NotFoundSoFar(loc')
         /\ IsAcyclic(D)' = IsAcyclic(D)
         /\ IsAntisymmetric' = IsAntisymmetric
<1>1. V' = V /\ N' = N /\ D' = D
  BY DEF V, N, D
<1> QED
  BY <1>1 DEF AcyclicSoFar, OneWaySoFar, NotFoundSoFar, IsAntisymmetric, RootedSoFar, AllBefore,
              FromRoot, Root, Done, Passed, OneWay, Seen, OnWay, Leads, Level, NoCycleIn, Adjacent

LEMMA AnswersStep == AnswersInv /\ [Next]_vars => AnswersInv'
<1> SUFFICES ASSUME AnswersInv, [Next]_vars PROVE AnswersInv'
  OBVIOUS
<1>1. call' = call /\ call \in Calls /\ PathInv'
  BY CallKept, PathStep DEF vars, PathInv, AnswersInv
<1>2. CASE UNCHANGED vars
  <2>1. loc' = loc /\ answer' = answer  BY <1>2 DEF vars
  <2>2. PathAnswer' <=> PathAnswer  BY <1>1, <2>1 DEF PathAnswer, D
  <2> QED  BY <1>1, <2>1, <2>2, AnswersPrime DEF AnswersInv
<1>3. CASE Next
  <2>1. CASE call.fn = "IS_ACYCLIC"
    <3>1. Good(loc) /\ IS_ACYCLIC
      BY <1>3, <2>1, SearchesOnly DEF AnswersInv, PathInv, Searches, Rooted
    <3>2. AcyclicSoFar(loc') /\ (answer' # << >> => answer' = << "value", IsAcyclic(D) >>)
      BY <1>1, <2>1, <3>1, AcyclicStep DEF AnswersInv
    <3> QED  BY <1>1, <2>1, <3>2, AnswersPrime DEF AnswersInv
  <2>2. CASE call.fn = "IS_ANTISYMMETRIC"
    <3>1. Good(loc) /\ IS_ANTISYMMETRIC
      BY <1>3, <2>2, SearchesOnly DEF AnswersInv, PathInv, Searches, Rooted
    <3>2. OneWaySoFar(loc') /\ (answer' # << >> => answer' = << "value", IsAntisymmetric >>)
      BY <1>1, <2>2, <3>1, AntisymmetricStep DEF AnswersInv
    <3> QED  BY <1>1, <2>2, <3>2, AnswersPrime DEF AnswersInv
  <2>3. CASE call.fn = "PATH"
    <3>1. Good(loc) /\ PATH
      BY <1>3, <2>3, SearchesOnly DEF AnswersInv, PathInv, Searches, FromOne
    <3>2. NotFoundSoFar(loc')
      BY <1>1, <2>3, <3>1, PathFindStep DEF AnswersInv
    <3>3. answer' # << >> => PathAnswer'
      <4>1. CASE answer' = << "fail" >> /\ ~Reaches(D, call.start, call.target)
        BY <1>1, <4>1 DEF PathAnswer, D, Reaches
      <4>2. CASE /\ answer' = << "value", FoundPath(Descend(2)) >>
                 /\ Searching /\ loc.ptr[J] = 0 /\ ~Exhausted /\ Nbs[J][K] = call.target
        <5> DEFINE a == FoundPath(Descend(2))
        <5>1. LET path == a.path
                  edge == a.edge
              IN  /\ path[1] = call.start /\ path[Len(path)] = call.target
                  /\ Len(edge) = Len(path) - 1
                  /\ \A q \in 1 .. Len(edge) : D[path[q]][edge[q]] = path[q + 1]
                  /\ \A p, q \in 1 .. Len(edge) : path[p] = path[q] => p = q
          BY <1>1, <2>3, <3>1, <4>2, PathAnswered DEF AnswersInv
        <5>2. answer' = << "value", a >>  BY <4>2
        <5> HIDE DEF a
        <5>3. answer' # << "fail" >> /\ answer'[2] = a  BY <5>2
        <5> QED  BY <1>1, <5>1, <5>3 DEF PathAnswer, D
      <4> QED  BY <1>1, <2>3, <3>1, <4>1, <4>2, PathFindStep DEF AnswersInv
    <3> QED  BY <1>1, <2>3, <3>2, <3>3, AnswersPrime DEF AnswersInv
  <2> QED  BY <1>1, <2>1, <2>2, <2>3 DEF AnswersInv
<1> QED  BY <1>2, <1>3

(* For every digraph: IS_ACYCLIC_DIGRAPH says whether there is a cycle,      *)
(* IS_ANTISYMMETRIC_DIGRAPH whether there are edges to and fro, and          *)
(* DIGRAPH_PATH gives a path, or says rightly that there is none.            *)
THEOREM SearchesAnswer ==
  Spec => [](call.fn \in { "IS_ACYCLIC", "IS_ANTISYMMETRIC", "PATH" } => SearchesRight)
<1>1. AnswersInv => (call.fn \in { "IS_ACYCLIC", "IS_ANTISYMMETRIC", "PATH" } => SearchesRight)
  <2> SUFFICES ASSUME AnswersInv, answer # << >>,
                      call.fn \in { "IS_ACYCLIC", "IS_ANTISYMMETRIC", "PATH" }
               PROVE  SearchesRight
    BY DEF SearchesRight
  <2>0. \A x : << "value", x >>[2] = x  OBVIOUS
  <2>1. CASE call.fn = "IS_ACYCLIC"
    <3>1. answer = << "value", IsAcyclic(D) >>  BY <2>1 DEF AnswersInv
    <3>2. AcyclicRight  BY <2>0, <3>1 DEF AcyclicRight, Result
    <3> QED  BY <2>1, <3>2 DEF SearchesRight
  <2>2. CASE call.fn = "IS_ANTISYMMETRIC"
    <3>1. answer = << "value", IsAntisymmetric >>  BY <2>2 DEF AnswersInv
    <3>2. AntisymmetricRight
      BY <2>0, <3>1 DEF AntisymmetricRight, Result, IsAntisymmetric
    <3> QED  BY <2>2, <3>2 DEF SearchesRight
  <2>3. CASE call.fn = "PATH"
    BY <2>3 DEF AnswersInv, SearchesRight, PathRight, PathAnswer, Result
  <2> QED  BY <2>1, <2>2, <2>3
<1> QED  BY <1>1, AnswersInit, AnswersStep, PTL DEF Spec
==============================================================================
