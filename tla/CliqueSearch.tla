----------------------------- MODULE CliqueSearch -----------------------------
(***************************************************************************)
(* What CliquesFinder of gap/cliques.gi makes of its arguments, and the     *)
(* hook it hands to a search: DigraphsCliquesFinder of src/cliques.c for    *)
(* small digraphs (module KernelCliques), DIGRAPHS_BronKerbosch of          *)
(* gap/cliques.gi for others (GapCliques).                                  *)
(*                                                                         *)
(* An argument record a has the fields                                      *)
(*   digraph            see HomoData; vertices count from 0                 *)
(*   gens               the generators AutomorphismGroup(subgraph) has      *)
(*   limit              the most cliques to find                            *)
(*   include, exclude   sets of vertices                                    *)
(*   max, reps          Booleans                                            *)
(*   size               the size sought, 0 for fail                         *)
(***************************************************************************)
EXTENDS HomoData, PermGroups

VARIABLES
  args,             \* the arguments of the call
  group,            \* AutomorphismGroup(subgraph)
  frames,           \* the active calls of the recursive function
  status,           \* which search is running, if any
  results,          \* the set of cliques that each call of the hook added
  found_orbits      \* the orbits of the cliques the hook has been given

finder == << args, group, frames, status, results, found_orbits >>

StatusType == {"idle", "kernel", "gap", "done"}

nr == args.digraph.n

(* MaximalSymmetricSubdigraphWithoutLoops, by its edges.                     *)
Adjacent(a, v, w) ==
  v # w /\ IsAdjacent(a.digraph, v, w) /\ IsAdjacent(a.digraph, w, v)
Neighbours(a, v) == { w \in Vertices(a.digraph) : Adjacent(a, v, w) }
Isolated(a) == { v \in Vertices(a.digraph) : Neighbours(a, v) = {} }

Clique(a, c) == \A v, w \in c : v # w => Adjacent(a, v, w)

AutGroup(a) == Generated(a.gens, a.digraph.n)

(* The generators that a search keeps when it leaves out isolated vertices.  *)
KeptGens(a) == { g \in a.gens : Moved(g) = {} \/ Min(Moved(g)) \notin Isolated(a) }

(* include_invariant and exclude_invariant: the orbits that lie in S; and    *)
(* include_variant and exclude_variant: the rest of it.                      *)
InvariantPart(G, S) == { v \in S : Orbit(G, v) \subseteq S }
VariantPart(G, S) == S \ InvariantPart(G, S)

(* The easy cases: no clique can contain inc, avoid exc and have the size.   *)
Hopeless(a, inc, exc) ==
  \/ a.size # 0 /\ (Cardinality(inc) > a.size \/ a.size > a.digraph.n - Cardinality(exc))
  \/ inc \cap exc # {}
  \/ ~Clique(a, inc)

------------------------------------------------------------------------------
(* The hook.  For representatives every clique is one result.  Otherwise the *)
(* clique of a new orbit brings those of its orbit that include and exclude  *)
(* allow, up to the limit; they come in the order of GAP's orbits, of which  *)
(* nothing is assumed.                                                       *)
NumFound == FoldLeft(LAMBDA n, new : n + Cardinality(new), 0, results)

CliqueOrbit(c) == { OnSets(c, g) : g \in group }

Allowed(c) == /\ c \cap VariantPart(group, args.exclude) = {}
              /\ VariantPart(group, args.include) \subseteq c

(* A faulty variant: a clique of an orbit seen before is taken for a new one. *)
NewFound_again(c) ==
  IF args.reps THEN {{c}}
  ELSE LET valid == { x \in CliqueOrbit(c) : Allowed(x) }
       IN  kSubset(Min({args.limit - NumFound, Cardinality(valid)}), valid)

NewFound(c) ==
  IF args.reps THEN {{c}}
  ELSE IF c \in found_orbits THEN {{}}
  ELSE LET valid == { x \in CliqueOrbit(c) : Allowed(x) }
       IN  kSubset(Min({args.limit - NumFound, Cardinality(valid)}), valid)

Hook(c) ==
  /\ \E new \in NewFound(c) :
       results' = IF new = {} THEN results ELSE Append(results, new)
  /\ found_orbits' = IF args.reps THEN found_orbits ELSE found_orbits \cup CliqueOrbit(c)

F == Last(frames)
Running(frame) == frames' = Append(Front(frames), frame)
==============================================================================
