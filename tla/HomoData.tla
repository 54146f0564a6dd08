------------------------------- MODULE HomoData -------------------------------
(***************************************************************************)
(* The arguments of HomomorphismDigraphsFinder and what its documentation   *)
(* says of them: digraphs, the maps that are sought, the groups they are    *)
(* sought up to.  Vertices count from 0, as they do in the kernel module.   *)
(*                                                                         *)
(* An argument record a has the names of the C function's arguments:        *)
(*   digraph1, digraph2   [n |-> number of vertices, edges |-> set of pairs] *)
(*   max_results          the most results to find                          *)
(*   hint                 the rank sought, UNDEFINED for fail               *)
(*   injective            0 any map, 1 injective, 2 embedding               *)
(*   image                the vertices of digraph2 allowed as values        *)
(*   partial_map          a function on some of the vertices of digraph1    *)
(*   colors1, colors2     functions, both << >> for fail                    *)
(*   order                a permutation, the identity if it is not given    *)
(*   aut_grp              a set of permutations, {} for fail                *)
(***************************************************************************)
EXTENDS Integers, Sequences, FiniteSets, Functions

UNDEFINED == 65535

Vertices(D) == 0 .. D.n - 1

IsAdjacent(D, u, v) == << u, v >> \in D.edges

IsSymmetricDigraph(D) == \A e \in D.edges : << e[2], e[1] >> \in D.edges

(* With colours absent every vertex has the same one.                       *)
ColorOf(colors, v) == IF colors = << >> THEN 0 ELSE colors[v]

Automorphisms(D, colors) ==
  { p \in Bijection(Vertices(D), Vertices(D)) :
      /\ \A u, v \in Vertices(D) :
           IsAdjacent(D, u, v) <=> IsAdjacent(D, p[u], p[v])
      /\ \A v \in Vertices(D) : ColorOf(colors, v) = ColorOf(colors, p[v]) }

(* The group of the search: aut_grp if given, else all automorphisms of     *)
(* digraph2 that preserve its colours.                                       *)
Group(a) == IF a.aut_grp = {} THEN Automorphisms(a.digraph2, a.colors2)
            ELSE a.aut_grp

Identity(n) == [v \in 0 .. n - 1 |-> v]

------------------------------------------------------------------------------
(* The maps the documentation of HomomorphismDigraphsFinder promises: one   *)
(* conjunct for every argument.                                              *)
Homomorphism(a, f) ==
  \A e \in a.digraph1.edges : IsAdjacent(a.digraph2, f[e[1]], f[e[2]])

Embedding(a, f) ==
  \A u, v \in Vertices(a.digraph1) :
    IsAdjacent(a.digraph1, u, v) <=> IsAdjacent(a.digraph2, f[u], f[v])

Wanted(a, f) ==
  /\ Homomorphism(a, f)
  /\ a.injective > 0 => IsInjective(f)
  /\ a.injective = 2 => Embedding(a, f)
  /\ a.hint # UNDEFINED => Cardinality(Range(f)) = a.hint
  /\ Range(f) \subseteq a.image
  /\ \A v \in DOMAIN a.partial_map : f[v] = a.partial_map[v]
  /\ \A v \in DOMAIN f : ColorOf(a.colors1, v) = ColorOf(a.colors2, f[v])

WantedMaps(a) ==
  { f \in [Vertices(a.digraph1) -> Vertices(a.digraph2)] : Wanted(a, f) }

(* Two maps the search treats as one: they differ by an element of the      *)
(* group applied to the values.                                              *)
Equivalent(a, f, g) ==
  \E p \in Group(a) : g = [v \in DOMAIN f |-> p[f[v]]]
==============================================================================
