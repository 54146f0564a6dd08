----------------------------- MODULE SchreierSims -----------------------------
(***************************************************************************)
(* point_stabilizer of src/schreier-sims.c: a base and strong generators of *)
(* the group that the permutations src generate, with pt as its first base  *)
(* point; the generators of level 1 then generate the stabiliser of pt.     *)
(* homos.c keeps one SchreierSims object for all its calls, so that every    *)
(* call begins with what the calls before it, perhaps of another degree,    *)
(* left in the arrays.                                                       *)
(*                                                                         *)
(* A step is one generator looked at while the base is set up, one level     *)
(* set up, or one Schreier generator sifted.  The inverse of a transversal  *)
(* element is computed where the code reads it from the array inversal, and  *)
(* orb_lookup is what the sequence of the level's orbit holds.               *)
(***************************************************************************)
EXTENDS PermGroups

CONSTANTS
  HOMOS_STRUCTURE_SIZE,     \* levels, and capacity of the generators of a level
  Inputs,                   \* the calls: [degree, gens, pt] records
  MaxCalls                  \* how many of them are made

ASSUME SizeAssumption == HOMOS_STRUCTURE_SIZE \in Nat
ASSUME InputsAssumption ==
  \A in \in Inputs : /\ in.degree \in 2 .. HOMOS_STRUCTURE_SIZE - 1
                     /\ in.pt \in 0 .. in.degree - 1
                     /\ in.gens # << >>
                     /\ in.gens \in Seq(Perms(in.degree) \ {IdPerm(in.degree)})
ASSUME CallsAssumption == MaxCalls \in Nat

Levels == 0 .. HOMOS_STRUCTURE_SIZE - 1
None == << >>                   \* a transversal entry nothing was written to

VARIABLES
  strong_gens,     \* for every level a sequence of permutations
  transversal,     \* for every level and point the element that reaches it
  orbits,          \* for every level the orbit of its base point, in order
  base,            \* the base points
  degree,
  i, j, m,         \* the loop variables of run_ss
  phase,           \* where run_ss is
  dst,             \* the result
  src, pt,         \* the arguments of the call
  calls

chain == << strong_gens, transversal, orbits, base, degree >>
vars == << chain, i, j, m, phase, dst, src, pt, calls >>

Points(orbit) == Range(orbit)

------------------------------------------------------------------------------
(* A level under construction: its orbit and its transversal.                *)
Level(l) == [orbit |-> orbits[l], trans |-> transversal[l]]

(* The image of point p under generator x joins the orbit.                   *)
Reach(lev, p, x) ==
  IF x[p] \in Points(lev.orbit) THEN lev
  ELSE [orbit |-> Append(lev.orbit, x[p]),
        trans |-> [lev.trans EXCEPT ![x[p]] = prod_perms(lev.trans[p], x)]]

(* Every generator applied to one point; and one generator to the points     *)
(* there are.                                                                *)
ReachBy(lev, p, gens) ==
  LET reach[q \in 0 .. Len(gens)] ==
        IF q = 0 THEN lev ELSE Reach(reach[q - 1], p, gens[q])
  IN  reach[Len(gens)]

ReachFrom(lev, x) ==
  LET reach[q \in 0 .. Len(lev.orbit)] ==
        IF q = 0 THEN lev ELSE Reach(reach[q - 1], lev.orbit[q], x)
  IN  reach[Len(lev.orbit)]

(* Every generator applied to the points from position from on, also to      *)
(* those that join on the way.                                               *)
Spread(lev, from, gens) ==
  LET spread[k \in 0 .. degree] ==
        IF k < from THEN lev
        ELSE LET s == spread[k - 1]
             IN  IF k > Len(s.orbit) THEN s ELSE ReachBy(s, s.orbit[k], gens)
  IN  spread[degree]

orbit_ss(l, gens) == Spread(Level(l), 1, gens)

(* A faulty variant: the points that join get no generator applied.          *)
add_gen_orbit_ss_once(lev, gen, gens) == ReachFrom(lev, gen)

(* The new generator gen on the points there are, then all the generators,   *)
(* gen among them, on those that joined.                                     *)
add_gen_orbit_ss(lev, gen, gens) ==
  Spread(ReachFrom(lev, gen), Len(lev.orbit) + 1, gens)

(* add_base_point_ss: the next level has the point alone as its orbit.       *)
WithBasePoint(p) ==
  /\ base' = Append(base, p)
  /\ orbits' = [orbits EXCEPT ![Len(base)] = << p >>]
  /\ transversal' = [transversal EXCEPT ![Len(base)][p] = IdPerm(degree)]

(* A faulty variant: nothing is sifted.                                      *)
sift_ss_not_run(g) == [perm |-> g, depth |-> 1]

(* sift_ss: the residue of g and the level at which it stuck.                *)
sift_ss(g) ==
  LET sift[l \in 0 .. Len(base)] ==
        IF l = 0 THEN [perm |-> g, depth |-> 0]
        ELSE LET s == sift[l - 1]
                 beta == s.perm[base[l]]
             IN  IF s.depth < l - 1 \/ beta \notin Points(orbits[l - 1]) THEN s
                 ELSE [perm  |-> prod_perms(s.perm, invert_perm(transversal[l - 1][beta])),
                       depth |-> l]
  IN  sift[Len(base)]

------------------------------------------------------------------------------
(* point_stabilizer: init_ss clears the levels below the degree.             *)
point_stabilizer(in) ==
  /\ phase \in {"idle", "done"}
  /\ calls < MaxCalls
  /\ calls' = calls + 1
  /\ src' = in.gens
  /\ pt' = in.pt
  /\ degree' = in.degree
  /\ strong_gens' = [l \in Levels |-> IF l = 0 THEN in.gens
                                      ELSE IF l < in.degree THEN << >> ELSE strong_gens[l]]
  /\ orbits' = [l \in Levels |-> IF l = 0 THEN << in.pt >>
                                 ELSE IF l < in.degree THEN << >> ELSE orbits[l]]
  /\ transversal' = [transversal EXCEPT ![0][in.pt] = IdPerm(in.degree)]
  /\ base' = << in.pt >>
  /\ phase' = "base"
  /\ j' = 1
  /\ UNCHANGED << i, m, dst >>

(* A faulty variant: every generator gets a base point of its own.           *)
ExtendBase_always ==
  /\ phase = "base"
  /\ j <= Len(strong_gens[0])
  /\ WithBasePoint(Min(Moved(strong_gens[0][j])))
  /\ j' = j + 1
  /\ UNCHANGED << strong_gens, degree, i, m, phase, dst, src, pt, calls >>

(* Every generator has to move a base point.                                 *)
ExtendBase ==
  /\ phase = "base"
  /\ j <= Len(strong_gens[0])
  /\ LET x == strong_gens[0][j]
     IN  IF Moved(x) # {} /\ \A k \in 1 .. Len(base) : x[base[k]] = base[k]
         THEN WithBasePoint(Min(Moved(x)))
         ELSE UNCHANGED << base, orbits, transversal >>
  /\ j' = j + 1
  /\ UNCHANGED << strong_gens, degree, i, m, phase, dst, src, pt, calls >>

BaseDone ==
  /\ phase = "base"
  /\ j > Len(strong_gens[0])
  /\ phase' = "levels"
  /\ i' = 1
  /\ UNCHANGED << chain, j, m, dst, src, pt, calls >>

(* Those of the generators that fix a point.                                 *)
Fixing(gens, beta) ==
  LET kept[q \in 0 .. Len(gens)] ==
        IF q = 0 THEN << >>
        ELSE IF gens[q][beta] = beta THEN Append(kept[q - 1], gens[q]) ELSE kept[q - 1]
  IN  kept[Len(gens)]

(* The generators of a level that fix its base point go to the next one.     *)
SetUpLevel ==
  /\ phase = "levels"
  /\ i <= Len(base)
  /\ LET beta == base[i]
         lev == orbit_ss(i - 1, strong_gens[i - 1])
     IN  /\ strong_gens' = [strong_gens EXCEPT
                              ![i] = @ \o Fixing(strong_gens[i - 1], beta)]
         /\ orbits' = [orbits EXCEPT ![i - 1] = lev.orbit]
         /\ transversal' = [transversal EXCEPT ![i - 1] = lev.trans]
  /\ i' = i + 1
  /\ UNCHANGED << base, degree, j, m, phase, dst, src, pt, calls >>

(* A faulty variant: the levels above the first are not looked at.           *)
LevelsDone_bottom ==
  /\ phase = "levels"
  /\ i > Len(base)
  /\ phase' = "sift"
  /\ i' = 0
  /\ j' = 1
  /\ m' = 1
  /\ UNCHANGED << chain, dst, src, pt, calls >>

LevelsDone ==
  /\ phase = "levels"
  /\ i > Len(base)
  /\ phase' = "sift"
  /\ i' = Len(base) - 1
  /\ j' = 1
  /\ m' = 1
  /\ UNCHANGED << chain, dst, src, pt, calls >>

(* The Schreier generator of the j-th point and the m-th generator.          *)
ThisPoint == orbits[i][j]
ThisGen == strong_gens[i][m]
Product == prod_perms(transversal[i][ThisPoint], ThisGen)
Target == transversal[i][ThisGen[ThisPoint]]
Sifted == sift_ss(prod_perms(Product, invert_perm(Target)))

InLoop == phase = "sift" /\ i >= 0 /\ j <= Len(orbits[i]) /\ m <= Len(strong_gens[i])

(* A faulty variant: what passes all levels is taken for the identity.       *)
SiftsToOne_unchecked ==
  /\ InLoop
  /\ Product = Target \/ Sifted.depth = Len(base)
  /\ m' = m + 1
  /\ UNCHANGED << chain, i, j, phase, dst, src, pt, calls >>

(* It is in the chain already.                                               *)
SiftsToOne ==
  /\ InLoop
  /\ Product = Target \/ (Sifted.depth = Len(base) /\ Moved(Sifted.perm) = {})
  /\ m' = m + 1
  /\ UNCHANGED << chain, i, j, phase, dst, src, pt, calls >>

(* Levels i + 1 to the one it stuck at get the residue as a generator; if it *)
(* went through all levels, a base point it moves is added for it first.     *)
AddResidue ==
  /\ InLoop
  /\ Product # Target
  /\ LET h == Sifted.perm
         jj == Sifted.depth
         new == { l \in Levels : i < l /\ l <= jj }
         gens == [l \in Levels |-> IF l \in new THEN Append(strong_gens[l], h)
                                   ELSE strong_gens[l]]
         fresh == [orbit |-> << Min(Moved(h)) >>,
                   trans |-> [transversal[jj] EXCEPT ![Min(Moved(h))] = IdPerm(degree)]]
         lev == [l \in new |->
                   add_gen_orbit_ss(IF l < Len(base) THEN Level(l) ELSE fresh, h, gens[l])]
     IN  /\ jj < Len(base) \/ Moved(h) # {}
         /\ strong_gens' = gens
         /\ orbits' = [l \in Levels |-> IF l \in new THEN lev[l].orbit ELSE orbits[l]]
         /\ transversal' = [l \in Levels |-> IF l \in new THEN lev[l].trans ELSE transversal[l]]
         /\ base' = IF jj < Len(base) THEN base ELSE Append(base, Min(Moved(h)))
         /\ i' = jj
         /\ j' = 1
         /\ m' = 1
  /\ UNCHANGED << degree, phase, dst, src, pt, calls >>

NextPoint ==
  /\ phase = "sift"
  /\ i >= 0
  /\ j <= Len(orbits[i])
  /\ m > Len(strong_gens[i])
  /\ j' = j + 1
  /\ m' = 1
  /\ UNCHANGED << chain, i, phase, dst, src, pt, calls >>

NextLevel ==
  /\ phase = "sift"
  /\ i >= 0
  /\ j > Len(orbits[i])
  /\ i' = i - 1
  /\ j' = 1
  /\ m' = 1
  /\ UNCHANGED << chain, phase, dst, src, pt, calls >>

Finished ==
  /\ phase = "sift"
  /\ i < 0
  /\ dst' = strong_gens[1]
  /\ phase' = "done"
  /\ UNCHANGED << chain, i, j, m, src, pt, calls >>

run_ss ==
  \/ ExtendBase \/ BaseDone \/ SetUpLevel \/ LevelsDone
  \/ SiftsToOne \/ AddResidue \/ NextPoint \/ NextLevel \/ Finished

Init ==
  /\ strong_gens = [l \in Levels |-> << >>]
  /\ transversal = [l \in Levels |-> [p \in Levels |-> None]]
  /\ orbits = [l \in Levels |-> << >>]
  /\ base = << >>
  /\ degree = 0
  /\ i = 0 /\ j = 1 /\ m = 1
  /\ phase = "idle"
  /\ dst = << >>
  /\ src = << >> /\ pt = 0
  /\ calls = 0

Next == (\E in \in Inputs : point_stabilizer(in)) \/ run_ss

Spec == Init /\ [][Next]_vars

------------------------------------------------------------------------------
LevelGroup(l) == Generated(Range(strong_gens[l]), degree)

(* What the arrays hold, of this call or of one of another degree.           *)
AnyPerms == UNION { Perms(n) : n \in 0 .. HOMOS_STRUCTURE_SIZE }
Values == AnyPerms \cup {None}

Arrays ==
  /\ strong_gens \in [Levels -> Seq(AnyPerms)]
  /\ orbits \in [Levels -> Seq(Levels)]
  /\ transversal \in [Levels -> [Levels -> Values]]
  /\ phase \in {"idle", "base", "levels", "sift", "done"}

(* Every level the base and the loops of run_ss come to, and every point of   *)
(* an orbit, is one that the arrays have, whatever the calls before left; and *)
(* the level of the generators that fix the whole base is still one of those  *)
(* that init_ss has cleared for this degree.                                  *)
TypeOK ==
  /\ Arrays
  /\ phase # "idle" => Len(base) \in 1 .. degree - 1
  /\ Range(base) \subseteq 0 .. degree - 1
  /\ i \in -1 .. HOMOS_STRUCTURE_SIZE
  /\ calls \in 0 .. MaxCalls

(* The assertions of add_perm_coll (perms.h:103), which a release build does  *)
(* not make: a level has room for every generator that run_ss appends to it,  *)
(* those it starts from and all the residues that reach it.                  *)
GeneratorsFit == \A l \in 0 .. degree - 1 : Len(strong_gens[l]) <= degree

(* The stabiliser of pt in the group of src, whatever the object held.       *)
Stabilises ==
  phase = "done" =>
    Generated(Range(dst), degree) = { p \in Generated(Range(src), degree) : p[pt] = pt }

(* The generators of a level fix the base points of the levels below it, and *)
(* the transversal of a level reaches every point of its orbit from the base *)
(* point, by an element of the group of the level.  Stale entries of earlier *)
(* calls are in the same arrays.                                             *)
ChainConsistent ==
  phase = "sift" =>
    \A l \in 0 .. Len(base) - 1 :
      LET G == LevelGroup(l)
      IN  /\ \A x \in Range(strong_gens[l]) : \A k \in 1 .. l : x[base[k]] = base[k]
          /\ Points(orbits[l]) = { x[base[l + 1]] : x \in G }
          /\ Len(orbits[l]) = Cardinality(Points(orbits[l]))
          /\ \A p \in Points(orbits[l]) :
               transversal[l][p] \in G /\ transversal[l][p][base[l + 1]] = p

(* The loop of run_ss goes down: the levels above i are finished, that is    *)
(* the group of the next level is the whole stabiliser of the base point.    *)
HigherLevelsFinished ==
  phase \in {"sift", "done"} =>
    \A l \in 0 .. Len(base) - 1 :
      l > i => LevelGroup(l + 1) = { x \in LevelGroup(l) : x[base[l + 1]] = base[l + 1] }

(* A residue is new: it enlarges the group of every level it is added to.    *)
(* Every other step of the sifting moves the loop variables on, so the loop   *)
(* ends.                                                                     *)
ResiduesEnlarge ==
  [][ AddResidue =>
        \A l \in i + 1 .. i' :
          Last(strong_gens'[l]) \notin Generated(Range(strong_gens[l]), degree) ]_vars
==============================================================================
