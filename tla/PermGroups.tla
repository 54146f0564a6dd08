------------------------------ MODULE PermGroups ------------------------------
(***************************************************************************)
(* Permutations of 0 .. n - 1, as src/perms.h has them, and the groups they *)
(* generate, which the code has from GAP or bliss by their generators.      *)
(***************************************************************************)
EXTENDS Integers, FiniteSets, FiniteSetsExt, SequencesExt

Perms(n) == { p \in [0 .. n - 1 -> 0 .. n - 1] : IsInjective(p) }
IdPerm(n) == [k \in 0 .. n - 1 |-> k]

prod_perms(x, y) == [k \in DOMAIN x |-> y[x[k]]]
invert_perm(x) == [k \in DOMAIN x |-> CHOOSE l \in DOMAIN x : x[l] = k]
Moved(x) == { k \in DOMAIN x : x[k] # k }

(* The group a set of permutations generates: the words of every length, up  *)
(* to one that nothing new is reached by.                                    *)
Generated(gens, n) ==
  LET words[S \in SUBSET Perms(n)] ==
        LET longer == S \cup { prod_perms(x, g) : x \in S, g \in gens }
        IN  IF longer = S THEN S ELSE words[longer]
  IN  words[{IdPerm(n)}]

(* Images and orbits of points, and of sets of them.                        *)
Orbit(group, v) == { g[v] : g \in group }
OnSets(c, g) == { g[v] : v \in c }
Stabilizer(group, v) == { g \in group : g[v] = v }
==============================================================================
