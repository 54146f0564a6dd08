---------------------------- MODULE SchreierProofs ----------------------------
(***************************************************************************)
(* The algorithm of Schreier and Sims as point_stabilizer runs it, whatever  *)
(* the object held before: the generators it returns generate the stabiliser.*)
(*                                                                         *)
(* First permutations: they multiply and have inverses as they should, and   *)
(* Generated is what its name says, the least set with the identity that is  *)
(* closed under multiplication by the generators, which is a group.          *)
(*                                                                         *)
(* Then a level.  Spread makes its orbit that of its group (WholeOrbit), and *)
(* by SchreierLemma its Schreier generators generate the stabiliser of its   *)
(* base point.  What sift_ss leaves of such a generator differs from it by   *)
(* an element of the group of the next level (SiftFacts): nothing left means *)
(* that it is in that group, and what is left is in the group of no level    *)
(* that it passed, as these levels are done (ResidueIsNew).                  *)
(*                                                                         *)
(* SchreierInv says how far the loops have come.  A permutation that is not  *)
(* the identity moves two points (FixesAllButOne), so that there is always a *)
(* level left above the base.                                                *)
(***************************************************************************)
EXTENDS SchreierSims, FiniteSetTheorems, WellFoundedInduction, SequenceTheorems, TLAPS

(* A non-empty set of natural numbers has a least element.                   *)
LEMMA LeastNatural ==
  ASSUME NEW T \in SUBSET Nat, T # {}
  PROVE  \E r \in T : \A n \in T : r <= n
<1> DEFINE R == OpToRel(<, Nat)
<1>1. IsWellFoundedOn(R, Nat)  BY NatLessThanWellFounded
<1>2. PICK x \in T : \A y \in T : ~ (<<y, x>> \in R)
  <2> HIDE DEF R
  <2> QED BY <1>1, WFMin
<1>3. \A y \in T : ~ (y < x)
  BY <1>2 DEF OpToRel
<1> QED  BY <1>3

(* Induction, over a set and not over a property.                            *)
LEMMA Induction ==
  ASSUME NEW T \in SUBSET Nat, 0 \in T, \A n \in T : n + 1 \in T
  PROVE  T = Nat
<1> SUFFICES ASSUME Nat \ T # {} PROVE FALSE
  OBVIOUS
<1>1. PICK r \in Nat \ T : \A n \in Nat \ T : r <= n
  BY LeastNatural
<1>2. r # 0 /\ r - 1 \in Nat /\ r - 1 \in T
  BY <1>1
<1> QED BY <1>2, <1>1

------------------------------------------------------------------------------
(* Permutations.                                                             *)
LEMMA PermDef ==
  ASSUME NEW n, NEW p
  PROVE  p \in Perms(n) <=>
           /\ p \in [0 .. n - 1 -> 0 .. n - 1]
           /\ \A k, l \in 0 .. n - 1 : p[k] = p[l] => k = l
BY DEF Perms, IsInjective

LEMMA PermPoint ==
  ASSUME NEW n, NEW p \in Perms(n), NEW k \in 0 .. n - 1
  PROVE  p[k] \in 0 .. n - 1
<1>1. p \in [0 .. n - 1 -> 0 .. n - 1]
  BY PermDef
<1> QED  BY <1>1

LEMMA PermHits ==
  ASSUME NEW n \in Nat, NEW p \in Perms(n), NEW k \in 0 .. n - 1
  PROVE  \E l \in 0 .. n - 1 : p[l] = k
<1> DEFINE P == 0 .. n - 1
<1>1. p \in [P -> P] /\ \A a, b \in P : p[a] = p[b] => a = b
  BY PermDef
<1>2. p \in Injection(P, P)
  BY <1>1, Zenon DEF Injection, IsInjective
<1>3. IsFiniteSet(P)
  BY FS_Interval
<1>4. p \in Surjection(P, P)
  <2> HIDE DEF P
  <2> QED  BY <1>2, <1>3, FS_Injection
<1> QED  BY <1>4 DEF Surjection

LEMMA ProdPerms ==
  ASSUME NEW n \in Nat, NEW x \in Perms(n), NEW y \in Perms(n)
  PROVE  /\ prod_perms(x, y) \in Perms(n)
         /\ \A k \in 0 .. n - 1 : prod_perms(x, y)[k] = y[x[k]]
<1> DEFINE P == 0 .. n - 1
           f == [k \in P |-> y[x[k]]]
<1>1. /\ x \in [P -> P] /\ \A a, b \in P : x[a] = x[b] => a = b
      /\ y \in [P -> P] /\ \A a, b \in P : y[a] = y[b] => a = b
  BY PermDef
<1>2. f \in [P -> P]
  BY <1>1
<1>3. prod_perms(x, y) = f
  BY <1>1 DEF prod_perms
<1>4. \A a, b \in P : f[a] = f[b] => a = b
  BY <1>1
<1> QED
  <2> HIDE DEF f
  <2>1. f \in Perms(n)
    BY <1>2, <1>4, PermDef
  <2> QED  BY <1>3, <2>1 DEF f

LEMMA InvertPerm ==
  ASSUME NEW n \in Nat, NEW x \in Perms(n)
  PROVE  /\ invert_perm(x) \in Perms(n)
         /\ \A k \in 0 .. n - 1 : invert_perm(x)[x[k]] = k /\ x[invert_perm(x)[k]] = k
<1> DEFINE P == 0 .. n - 1
           f == [k \in P |-> CHOOSE l \in P : x[l] = k]
<1>1. /\ x \in [P -> P] /\ \A a, b \in P : x[a] = x[b] => a = b
  BY PermDef
<1>2. \A k \in P : f[k] \in P /\ x[f[k]] = k
  BY PermHits
<1>3. f \in [P -> P]
  BY <1>2
<1>4. invert_perm(x) = f
  BY <1>1 DEF invert_perm
<1> HIDE DEF f
<1>5. \A a, b \in P : f[a] = f[b] => a = b
  BY <1>2
<1>6. f \in Perms(n)
  BY <1>3, <1>5, PermDef
<1>7. \A k \in P : f[x[k]] = k
  <2> TAKE k \in P
  <2>1. x[k] \in P
    BY <1>1
  <2>2. x[f[x[k]]] = x[k] /\ f[x[k]] \in P
    BY <1>2, <2>1
  <2> QED  BY <1>1, <2>2
<1> QED  BY <1>2, <1>4, <1>6, <1>7

LEMMA IdentityPerm ==
  ASSUME NEW n \in Nat
  PROVE  IdPerm(n) \in Perms(n) /\ \A k \in 0 .. n - 1 : IdPerm(n)[k] = k
<1>1. IdPerm(n) \in [0 .. n - 1 -> 0 .. n - 1] /\ \A k \in 0 .. n - 1 : IdPerm(n)[k] = k
  BY DEF IdPerm
<1> QED  BY <1>1, PermDef

(* Two permutations are the same if they take every point to the same.       *)
LEMMA SamePerm ==
  ASSUME NEW n, NEW x \in Perms(n), NEW y \in Perms(n), \A k \in 0 .. n - 1 : x[k] = y[k]
  PROVE  x = y
<1>1. PICK P : P = 0 .. n - 1
  OBVIOUS
<1>2. x \in [P -> P] /\ y \in [P -> P]
  BY <1>1, PermDef
<1>3. x = [k \in P |-> x[k]] /\ y = [k \in P |-> y[k]]
  BY <1>2
<1> QED  BY <1>1, <1>3, Zenon

(* The laws of groups.                                                       *)
LEMMA ProdAssociative ==
  ASSUME NEW n \in Nat, NEW x \in Perms(n), NEW y \in Perms(n), NEW z \in Perms(n)
  PROVE  prod_perms(prod_perms(x, y), z) = prod_perms(x, prod_perms(y, z))
<1> DEFINE a == prod_perms(prod_perms(x, y), z)
           b == prod_perms(x, prod_perms(y, z))
<1>1. prod_perms(x, y) \in Perms(n) /\ prod_perms(y, z) \in Perms(n)
  BY ProdPerms
<1>2. a \in Perms(n) /\ b \in Perms(n)
  BY <1>1, ProdPerms
<1>3. ASSUME NEW k \in 0 .. n - 1 PROVE a[k] = b[k]
  <2>1. x[k] \in 0 .. n - 1
    <3>1. x \in [0 .. n - 1 -> 0 .. n - 1]
      BY PermDef
    <3> QED  BY <3>1
  <2>2. a[k] = z[prod_perms(x, y)[k]]
    BY <1>1, ProdPerms
  <2>3. b[k] = prod_perms(y, z)[x[k]]
    BY <1>1, ProdPerms
  <2> QED  BY <2>1, <2>2, <2>3, ProdPerms
<1> HIDE DEF a, b
<1>4. a = b
  BY <1>2, <1>3, SamePerm
<1> QED  BY <1>4 DEF a, b

LEMMA ProdIdentity ==
  ASSUME NEW n \in Nat, NEW x \in Perms(n)
  PROVE  prod_perms(IdPerm(n), x) = x /\ prod_perms(x, IdPerm(n)) = x
<1>1. IdPerm(n) \in Perms(n)
  BY IdentityPerm
<1>2. prod_perms(IdPerm(n), x) \in Perms(n) /\ prod_perms(x, IdPerm(n)) \in Perms(n)
  BY <1>1, ProdPerms
<1>3. ASSUME NEW k \in 0 .. n - 1
      PROVE  prod_perms(IdPerm(n), x)[k] = x[k] /\ prod_perms(x, IdPerm(n))[k] = x[k]
  <2>1. x[k] \in 0 .. n - 1
    BY PermDef
  <2> QED  BY <1>1, <2>1, ProdPerms, IdentityPerm
<1> QED  BY <1>2, <1>3, SamePerm

LEMMA ProdInverse ==
  ASSUME NEW n \in Nat, NEW x \in Perms(n)
  PROVE  /\ prod_perms(invert_perm(x), x) = IdPerm(n)
         /\ prod_perms(x, invert_perm(x)) = IdPerm(n)
<1> DEFINE y == invert_perm(x)
<1>1. IdPerm(n) \in Perms(n) /\ y \in Perms(n)
  BY IdentityPerm, InvertPerm
<1>2. prod_perms(y, x) \in Perms(n) /\ prod_perms(x, y) \in Perms(n)
  <2> HIDE DEF y
  <2> QED  BY <1>1, ProdPerms
<1>3. ASSUME NEW k \in 0 .. n - 1
      PROVE  prod_perms(y, x)[k] = IdPerm(n)[k] /\ prod_perms(x, y)[k] = IdPerm(n)[k]
  <2>1. prod_perms(y, x)[k] = x[y[k]] /\ prod_perms(x, y)[k] = y[x[k]]
    <3> HIDE DEF y
    <3> QED  BY <1>1, ProdPerms
  <2> QED  BY <2>1, InvertPerm, IdentityPerm
<1> QED  BY <1>1, <1>2, <1>3, SamePerm

------------------------------------------------------------------------------
(* There are finitely many permutations.                                     *)
LEMMA PermsFinite ==
  ASSUME NEW n \in Nat
  PROVE  IsFiniteSet(Perms(n))
<1> DEFINE P == 0 .. n - 1
           Graph(p) == { << k, p[k] >> : k \in P }
           f == [p \in Perms(n) |-> Graph(p)]
<1>1. IsFiniteSet(SUBSET (P \X P))
  <2>1. IsFiniteSet(P)
    BY FS_Interval
  <2> HIDE DEF P
  <2> QED  BY <2>1, FS_Product, FS_SUBSET
<1>2. \A p \in Perms(n) : p \in [P -> P]
  BY PermDef
<1>3. f \in [Perms(n) -> SUBSET (P \X P)]
  BY <1>2
<1>4. ASSUME NEW p \in Perms(n), NEW q \in Perms(n), f[p] = f[q]
      PROVE  p = q
  <2>1. Graph(p) = Graph(q)
    BY <1>4
  <2>2. ASSUME NEW k \in P PROVE p[k] = q[k]
    <3>1. << k, p[k] >> \in Graph(q)
      BY <2>1
    <3> QED  BY <3>1
  <2> QED  BY <2>2, SamePerm
<1>5. f \in Injection(Perms(n), SUBSET (P \X P))
  <2> HIDE DEF f
  <2> QED  BY <1>3, <1>4, Zenon DEF Injection, IsInjective
<1> HIDE DEF f
<1> QED  BY <1>1, <1>5, FS_Injection

(* The words of generators are closed under one more of them.                *)
ClosedUnder(S, gens) == \A x \in S : \A g \in gens : prod_perms(x, g) \in S

Least(n, gens, S) ==
  { p \in Perms(n) : \A T \in SUBSET Perms(n) : S \subseteq T /\ ClosedUnder(T, gens) => p \in T }

(* Generated as a least closed set.                                          *)
LEMMA GeneratedLeast ==
  ASSUME NEW n \in Nat, NEW gens \in SUBSET Perms(n)
  PROVE  Generated(gens, n) = Least(n, gens, {IdPerm(n)})
<1> DEFINE P == Perms(n)
           Longer(S) == S \cup { prod_perms(x, g) : x \in S, g \in gens }
           L(S) == Least(n, gens, S)
           body(w) == [S \in SUBSET P |-> IF Longer(S) = S THEN S ELSE w[Longer(S)]]
           least == [S \in SUBSET P |-> L(S)]
<1>1. \A S \in SUBSET P : Longer(S) \in SUBSET P
  BY ProdPerms
<1>2. ASSUME NEW S \in SUBSET P PROVE L(Longer(S)) = L(S)
  <2>1. \A T : ClosedUnder(T, gens) => (S \subseteq T <=> Longer(S) \subseteq T)
    BY DEF ClosedUnder
  <2> QED  BY <2>1 DEF Least
<1>3. ASSUME NEW S \in SUBSET P, Longer(S) = S PROVE L(S) = S
  <2>1. ClosedUnder(S, gens)
    BY <1>3 DEF ClosedUnder
  <2> QED  BY <2>1 DEF Least
<1> HIDE DEF Longer, L
<1>4. least = body(least)
  <2>1. \A S \in SUBSET P : least[S] = body(least)[S]
    BY <1>1, <1>2, <1>3
  <2> QED  BY <2>1, Zenon
<1>5. Generated(gens, n) = (CHOOSE w : w = body(w))[{IdPerm(n)}]
  BY DEF Generated, Longer
<1>6. PICK w : w = body(w) /\ Generated(gens, n) = w[{IdPerm(n)}]
  <2> HIDE DEF body
  <2> QED  BY <1>4, <1>5
<1>7. \A S \in SUBSET P : w[S] = IF Longer(S) = S THEN S ELSE w[Longer(S)]
  BY <1>6
<1> HIDE DEF body, least
<1> DEFINE T == { r \in Nat : \A S \in SUBSET P : Cardinality(P \ S) <= r => w[S] = L(S) }
<1>8. IsFiniteSet(P)
  BY PermsFinite
<1>9. \A S \in SUBSET P : IsFiniteSet(P \ S) /\ Cardinality(P \ S) \in Nat
  <2> TAKE S \in SUBSET P
  <2>1. IsFiniteSet(P \ S)
    <3> HIDE DEF P
    <3> QED  BY <1>8, FS_Subset
  <2> QED  BY <2>1, FS_CardinalityType
<1>10. ASSUME NEW S \in SUBSET P, Longer(S) # S
       PROVE  Cardinality(P \ Longer(S)) < Cardinality(P \ S)
  <2>1. S \subseteq Longer(S) /\ Longer(S) \in SUBSET P
    BY <1>1 DEF Longer
  <2>2. P \ Longer(S) \subseteq P \ S /\ P \ Longer(S) # P \ S
    BY <1>10, <2>1
  <2>3. IsFiniteSet(P \ S) /\ Cardinality(P \ S) \in Nat /\ Cardinality(P \ Longer(S)) \in Nat
    BY <1>9, <2>1
  <2>4. /\ Cardinality(P \ Longer(S)) <= Cardinality(P \ S)
        /\ Cardinality(P \ Longer(S)) # Cardinality(P \ S)
    BY <2>2, <2>3, FS_Subset
  <2> QED  BY <2>3, <2>4
<1>11. 0 \in T
  <2> SUFFICES ASSUME NEW S \in SUBSET P, Cardinality(P \ S) <= 0 PROVE w[S] = L(S)
    OBVIOUS
  <2>1. Longer(S) = S
    <3> SUFFICES ASSUME Longer(S) # S PROVE FALSE
      OBVIOUS
    <3>1. Cardinality(P \ Longer(S)) < Cardinality(P \ S)
      BY <1>10
    <3>2. Cardinality(P \ Longer(S)) \in Nat /\ Cardinality(P \ S) \in Nat
      BY <1>1, <1>9
    <3> QED  BY <3>1, <3>2
  <2> QED  BY <1>3, <1>7, <2>1
<1>12. ASSUME NEW r \in T PROVE r + 1 \in T
  <2> SUFFICES ASSUME NEW S \in SUBSET P, Cardinality(P \ S) <= r + 1 PROVE w[S] = L(S)
    OBVIOUS
  <2>1. CASE Longer(S) = S
    BY <1>3, <1>7, <2>1
  <2>2. CASE Longer(S) # S
    <3>1. Longer(S) \in SUBSET P /\ w[S] = w[Longer(S)]
      BY <1>1, <1>7, <2>2
    <3>2. Cardinality(P \ Longer(S)) <= r
      <4>1. Cardinality(P \ Longer(S)) < Cardinality(P \ S)
        BY <1>10, <2>2
      <4>2. Cardinality(P \ Longer(S)) \in Nat /\ Cardinality(P \ S) \in Nat
        BY <1>9, <3>1
      <4>3. r \in Nat
        OBVIOUS
      <4> QED  BY <4>1, <4>2, <4>3
    <3>3. w[Longer(S)] = L(Longer(S))
      BY <3>1, <3>2
    <3> QED  BY <1>2, <3>1, <3>3
  <2> QED  BY <2>1, <2>2
<1>13. T = Nat
  <2> HIDE DEF T
  <2>1. T \in SUBSET Nat  BY DEF T
  <2> QED  BY <1>11, <1>12, <2>1, Induction
<1>14. {IdPerm(n)} \in SUBSET P
  BY IdentityPerm
<1>15. w[{IdPerm(n)}] = L({IdPerm(n)})
  <2>1. PICK r \in Nat : r = Cardinality(P \ {IdPerm(n)})
    BY <1>9, <1>14
  <2>2. r \in T
    <3> HIDE DEF T
    <3> QED  BY <1>13
  <2>3. r <= r
    OBVIOUS
  <2> QED  BY <1>14, <2>1, <2>2, <2>3
<1> QED  BY <1>6, <1>15 DEF L

(* A group of permutations of 0 .. n - 1.                                    *)
IsGroup(G, n) ==
  /\ G \in SUBSET Perms(n)
  /\ IdPerm(n) \in G
  /\ \A x, y \in G : prod_perms(x, y) \in G
  /\ \A x \in G : invert_perm(x) \in G

(* What is closed under multiplication is closed under inversion, as it is   *)
(* finite.                                                                   *)
LEMMA ClosedIsGroup ==
  ASSUME NEW n \in Nat, NEW G \in SUBSET Perms(n), IdPerm(n) \in G,
         \A x, y \in G : prod_perms(x, y) \in G
  PROVE  IsGroup(G, n)
<1> SUFFICES ASSUME NEW x \in G PROVE invert_perm(x) \in G
  BY DEF IsGroup
<1> DEFINE f == [y \in G |-> prod_perms(y, x)]
           u == invert_perm(x)
<1>1. x \in Perms(n) /\ u \in Perms(n)
  BY InvertPerm
<1>2. f \in [G -> G]
  OBVIOUS
<1>3. ASSUME NEW y \in Perms(n) PROVE prod_perms(prod_perms(y, x), u) = y
  <2> HIDE DEF u
  <2>1. prod_perms(prod_perms(y, x), u) = prod_perms(y, prod_perms(x, u))
    BY <1>1, ProdAssociative
  <2>2. prod_perms(x, u) = IdPerm(n)
    BY <1>1, ProdInverse DEF u
  <2> QED  BY <2>1, <2>2, ProdIdentity
<1>4. \A y, z \in G : f[y] = f[z] => y = z
  <2> SUFFICES ASSUME NEW y \in G, NEW z \in G, prod_perms(y, x) = prod_perms(z, x) PROVE y = z
    OBVIOUS
  <2>1. y \in Perms(n) /\ z \in Perms(n)
    OBVIOUS
  <2> HIDE DEF u
  <2> QED  BY <1>3, <2>1
<1>5. f \in Injection(G, G)
  <2> HIDE DEF f
  <2> QED  BY <1>2, <1>4, Zenon DEF Injection, IsInjective
<1>6. IsFiniteSet(G)
  BY PermsFinite, FS_Subset
<1>7. f \in Surjection(G, G)
  <2> HIDE DEF f
  <2> QED  BY <1>5, <1>6, FS_Injection
<1>8. PICK y \in G : prod_perms(y, x) = IdPerm(n)
  BY <1>7 DEF Surjection
<1>9. y \in Perms(n)
  OBVIOUS
<1>10. prod_perms(IdPerm(n), u) = y
  BY <1>3, <1>8, <1>9
<1>11. prod_perms(IdPerm(n), u) = u
  <2> HIDE DEF u
  <2> QED  BY <1>1, ProdIdentity
<1> QED  BY <1>10, <1>11

LEMMA GeneratedFacts ==
  ASSUME NEW n \in Nat, NEW gens \in SUBSET Perms(n)
  PROVE  /\ IsGroup(Generated(gens, n), n)
         /\ gens \subseteq Generated(gens, n)
         /\ \A S \in SUBSET Perms(n) :
              IdPerm(n) \in S /\ ClosedUnder(S, gens) => Generated(gens, n) \subseteq S
         /\ \A H : IsGroup(H, n) /\ gens \subseteq H => Generated(gens, n) \subseteq H
<1> DEFINE G == Generated(gens, n)
<1>1. G = Least(n, gens, {IdPerm(n)})
  BY GeneratedLeast
<1> HIDE DEF G
<1>2. IdPerm(n) \in Perms(n)
  BY IdentityPerm
<1>3. G \in SUBSET Perms(n) /\ IdPerm(n) \in G
  BY <1>1, <1>2 DEF Least
<1>4. ASSUME NEW S \in SUBSET Perms(n), IdPerm(n) \in S, ClosedUnder(S, gens)
      PROVE  G \subseteq S
  BY <1>1, <1>4 DEF Least
<1>5. ClosedUnder(G, gens)
  <2> SUFFICES ASSUME NEW x \in G, NEW g \in gens,
                      NEW T \in SUBSET Perms(n), IdPerm(n) \in T, ClosedUnder(T, gens)
               PROVE  prod_perms(x, g) \in Perms(n) /\ prod_perms(x, g) \in T
    <3>1. \A x \in G : \A g \in gens : prod_perms(x, g) \in Perms(n)
      BY <1>3, ProdPerms
    <3> QED  BY <1>1, <3>1 DEF Least, ClosedUnder
  <2>1. x \in Perms(n) /\ g \in Perms(n)
    BY <1>3
  <2>2. prod_perms(x, g) \in Perms(n)
    BY <2>1, ProdPerms
  <2>3. x \in T
    BY <1>4
  <2> QED  BY <2>2, <2>3 DEF ClosedUnder
<1>6. gens \subseteq G
  <2> SUFFICES ASSUME NEW g \in gens PROVE g \in G
    OBVIOUS
  <2>1. prod_perms(IdPerm(n), g) \in G
    BY <1>3, <1>5 DEF ClosedUnder
  <2>2. prod_perms(IdPerm(n), g) = g
    BY ProdIdentity
  <2> QED  BY <2>1, <2>2
<1>7. ASSUME NEW x \in G PROVE \A y \in G : prod_perms(x, y) \in G
  <2> DEFINE S == { y \in Perms(n) : prod_perms(x, y) \in G }
  <2>1. x \in Perms(n)
    BY <1>3
  <2>2. IdPerm(n) \in S
    BY <1>2, <2>1, ProdIdentity
  <2>3. ClosedUnder(S, gens)
    <3> SUFFICES ASSUME NEW y \in S, NEW g \in gens
                 PROVE  prod_perms(y, g) \in Perms(n) /\ prod_perms(x, prod_perms(y, g)) \in G
      BY DEF ClosedUnder
    <3>1. y \in Perms(n) /\ g \in Perms(n)
      OBVIOUS
    <3>2. prod_perms(x, prod_perms(y, g)) = prod_perms(prod_perms(x, y), g)
      BY <2>1, <3>1, ProdAssociative
    <3>3. prod_perms(prod_perms(x, y), g) \in G
      BY <1>5 DEF ClosedUnder
    <3> QED  BY <3>1, <3>2, <3>3, ProdPerms
  <2>4. G \subseteq S
    <3>1. S \in SUBSET Perms(n)
      OBVIOUS
    <3> HIDE DEF S
    <3> QED  BY <1>4, <2>2, <2>3, <3>1
  <2> QED  BY <2>4
<1>8. IsGroup(G, n)
  BY <1>3, <1>7, ClosedIsGroup
<1>9. ASSUME NEW H, IsGroup(H, n), gens \subseteq H PROVE G \subseteq H
  <2>1. ClosedUnder(H, gens) /\ H \in SUBSET Perms(n) /\ IdPerm(n) \in H
    BY <1>9 DEF IsGroup, ClosedUnder
  <2> QED  BY <1>4, <2>1
<1> QED  BY <1>4, <1>6, <1>8, <1>9 DEF G

------------------------------------------------------------------------------

(* What holds at the beginning and is kept by every step holds to the end.   *)
LEMMA StaysIn ==
  ASSUME NEW k \in Nat, NEW S, NEW w, w[0] \in S[0],
         \A q \in 1 .. k : w[q - 1] \in S[q - 1] => w[q] \in S[q]
  PROVE  \A q \in 0 .. k : w[q] \in S[q]
<1> DEFINE T == { q \in Nat : q <= k => w[q] \in S[q] }
<1>1. 0 \in T
  OBVIOUS
<1>2. ASSUME NEW q \in T PROVE q + 1 \in T
  <2> SUFFICES ASSUME q + 1 <= k PROVE w[q + 1] \in S[q + 1]
    OBVIOUS
  <2>1. q \in Nat /\ q + 1 \in 1 .. k /\ (q + 1) - 1 = q
    OBVIOUS
  <2>2. w[q] \in S[q]
    OBVIOUS
  <2> QED  BY <2>1, <2>2
<1>3. T \in SUBSET Nat
  OBVIOUS
<1>4. T = Nat
  <2> HIDE DEF T
  <2> QED  BY <1>1, <1>2, <1>3, Induction
<1> QED
  <2> SUFFICES ASSUME NEW q \in 0 .. k PROVE w[q] \in S[q]
    OBVIOUS
  <2>1. q \in T
    <3> HIDE DEF T
    <3> QED  BY <1>4
  <2> QED  BY <2>1

(* g is got from e by taking k steps.                                        *)
Iterates(g, e, k, step) ==
  /\ g = [q \in 0 .. k |-> g[q]]
  /\ g[0] = e
  /\ \A q \in 1 .. k : g[q] = step[<< g[q - 1], q >>]

(* A definition by recursion, the steps of which lead from one set to the    *)
(* next.                                                                     *)
LEMMA Recursion ==
  ASSUME NEW k \in Nat, NEW S, NEW e \in S[0], NEW step,
         \A q \in 1 .. k : \A x \in S[q - 1] : step[<< x, q >>] \in S[q]
  PROVE  \E g : Iterates(g, e, k, step) /\ \A q \in 0 .. k : g[q] \in S[q]
<1> DEFINE Good(g, l) == Iterates(g, e, l, step) /\ \A q \in 0 .. l : g[q] \in S[q]
           T == { l \in Nat : l <= k => \E g : Good(g, l) }
<1>1. 0 \in T
  <2> DEFINE g == [q \in 0 .. 0 |-> e]
  <2>1. g[0] = e /\ g = [q \in 0 .. 0 |-> g[q]]
    OBVIOUS
  <2> HIDE DEF g
  <2>2. Good(g, 0)
    BY <2>1 DEF Iterates
  <2> QED  BY <2>2
<1>2. ASSUME NEW l \in T PROVE l + 1 \in T
  <2> SUFFICES ASSUME l + 1 <= k PROVE \E g : Good(g, l + 1)
    OBVIOUS
  <2>1. l \in Nat /\ l <= k /\ l + 1 \in 1 .. k
    OBVIOUS
  <2>2. PICK g : Good(g, l)
    BY <2>1
  <2> DEFINE h == [q \in 0 .. l + 1 |-> IF q <= l THEN g[q] ELSE step[<< g[l], l + 1 >>]]
  <2>3. /\ \A q \in 0 .. l : h[q] = g[q]
        /\ h[l + 1] = step[<< g[l], l + 1 >>]
        /\ h = [q \in 0 .. l + 1 |-> h[q]]
    BY <2>1
  <2> HIDE DEF h
  <2>4. \A q \in 1 .. l + 1 : h[q] = step[<< h[q - 1], q >>]
    <3> TAKE q \in 1 .. l + 1
    <3>1. CASE q <= l
      <4>1. q \in 1 .. l /\ q \in 0 .. l /\ q - 1 \in 0 .. l
        BY <2>1, <3>1
      <4>2. g[q] = step[<< g[q - 1], q >>]
        BY <2>2, <4>1 DEF Iterates
      <4> QED  BY <2>3, <4>1, <4>2
    <3>2. CASE q = l + 1
      <4>1. q - 1 = l /\ l \in 0 .. l
        BY <2>1, <3>2
      <4> QED  BY <2>3, <3>2, <4>1
    <3> QED  BY <2>1, <3>1, <3>2
  <2>5. h[0] = e
    BY <2>1, <2>2, <2>3 DEF Iterates
  <2>6. \A q \in 0 .. l + 1 : h[q] \in S[q]
    <3>1. g[l] \in S[(l + 1) - 1]
      <4>1. l \in 0 .. l /\ (l + 1) - 1 = l
        BY <2>1
      <4> QED  BY <2>2, <4>1
    <3>2. h[l + 1] \in S[l + 1]
      BY <2>1, <2>3, <3>1
    <3>3. \A q \in 0 .. l + 1 : q \in 0 .. l \/ q = l + 1
      BY <2>1
    <3>4. \A q \in 0 .. l : h[q] \in S[q]
      BY <2>2, <2>3
    <3> QED  BY <3>2, <3>3, <3>4
  <2> QED  BY <2>3, <2>4, <2>5, <2>6 DEF Iterates
<1>3. T \in SUBSET Nat
  OBVIOUS
<1>4. T = Nat
  <2> HIDE DEF T
  <2> QED  BY <1>1, <1>2, <1>3, Induction
<1>5. k \in T
  <2> HIDE DEF T
  <2> QED  BY <1>4
<1> QED  BY <1>5

------------------------------------------------------------------------------
LEMMA AppendFacts ==
  ASSUME NEW S, NEW s \in Seq(S), NEW x \in S
  PROVE  /\ Append(s, x) \in Seq(S)
         /\ Len(s) \in Nat
         /\ Len(Append(s, x)) = Len(s) + 1
         /\ \A q \in 1 .. Len(s) : Append(s, x)[q] = s[q]
         /\ Append(s, x)[Len(s) + 1] = x
         /\ Range(Append(s, x)) = Range(s) \cup {x}
<1>1. /\ Append(s, x) \in Seq(S)
      /\ Len(s) \in Nat
      /\ Len(Append(s, x)) = Len(s) + 1
      /\ \A q \in 1 .. Len(s) : Append(s, x)[q] = s[q]
      /\ Append(s, x)[Len(s) + 1] = x
  BY AppendProperties
<1>2. DOMAIN s = 1 .. Len(s) /\ DOMAIN Append(s, x) = 1 .. Len(s) + 1
  BY <1>1, LenProperties
<1>3. \A q \in 1 .. Len(s) + 1 : q \in 1 .. Len(s) \/ q = Len(s) + 1
  BY <1>1
<1>4. Range(Append(s, x)) = { Append(s, x)[q] : q \in 1 .. Len(s) + 1 }
  BY <1>2 DEF Range
<1>5. Range(s) = { s[q] : q \in 1 .. Len(s) }
  BY <1>2 DEF Range
<1>6. 1 .. Len(s) \subseteq 1 .. Len(s) + 1 /\ Len(s) + 1 \in 1 .. Len(s) + 1
  BY <1>1
<1> QED  BY <1>1, <1>3, <1>4, <1>5, <1>6

LEMMA RangeFacts ==
  ASSUME NEW S, NEW s \in Seq(S)
  PROVE  /\ Len(s) \in Nat
         /\ Range(s) = { s[q] : q \in 1 .. Len(s) }
         /\ Range(s) \subseteq S
         /\ \A x : x \in Range(s) <=> \E q \in 1 .. Len(s) : s[q] = x
         /\ s = << >> <=> Len(s) = 0
<1>1. Len(s) \in Nat /\ s \in [1 .. Len(s) -> S] /\ DOMAIN s = 1 .. Len(s)
  BY LenProperties
<1>2. s = << >> <=> Len(s) = 0
  BY EmptySeq, <1>1
<1>3. Range(s) = { s[q] : q \in 1 .. Len(s) }
  BY <1>1 DEF Range
<1> QED  BY <1>1, <1>2, <1>3

(* A sequence of different points is no longer than there are points.        *)
LEMMA DifferentPoints ==
  ASSUME NEW n \in Nat, NEW P, NEW s \in Seq(P), IsFiniteSet(P), Cardinality(P) <= n,
         \A p, q \in 1 .. Len(s) : s[p] = s[q] => p = q
  PROVE  Len(s) <= n
<1>1. Len(s) \in Nat /\ s \in [1 .. Len(s) -> P]
  BY LenProperties
<1>2. s \in Injection(1 .. Len(s), P)
  BY <1>1, Zenon DEF Injection, IsInjective
<1>3. Cardinality(1 .. Len(s)) = Len(s)
  <2>1. 1 \in Int /\ Len(s) \in Int
    BY <1>1
  <2>2. Cardinality(1 .. Len(s)) = IF 1 > Len(s) THEN 0 ELSE Len(s) - 1 + 1
    BY <2>1, FS_Interval
  <2> QED  BY <1>1, <2>2
<1>4. Cardinality(1 .. Len(s)) <= Cardinality(P)
  BY <1>2, FS_Injection
<1>5. Cardinality(P) \in Nat
  BY FS_CardinalityType
<1> QED  BY <1>1, <1>3, <1>4, <1>5

------------------------------------------------------------------------------
(* A level: its orbit begins with the base point b, has every point once,    *)
(* and the transversal has for each an element of the group that takes b to  *)
(* it.  The transversal may hold anything for other points.                  *)
Levs(n, b, G, values) ==
  { v \in [ orbit : Seq(0 .. n - 1), trans : [Levels -> values] ] :
      /\ \A p, q \in 1 .. Len(v.orbit) : v.orbit[p] = v.orbit[q] => p = q
      /\ b \in Points(v.orbit) /\ v.trans[b] = IdPerm(n)
      /\ \A p \in Points(v.orbit) : v.trans[p] \in G /\ v.trans[p][b] = p }

(* The setting: a group of the degree and room for its elements.             *)
Setting(n, b, G, values) ==
  /\ n \in Nat /\ n <= HOMOS_STRUCTURE_SIZE /\ b \in 0 .. n - 1
  /\ IsGroup(G, n) /\ Perms(n) \subseteq values

(* r is v with points added at the end of its orbit.                         *)
Extended(v, r) ==
  /\ Len(v.orbit) <= Len(r.orbit)
  /\ \A q \in 1 .. Len(v.orbit) : r.orbit[q] = v.orbit[q]

LEMMA ExtendedFacts ==
  ASSUME NEW n, NEW b, NEW G, NEW values
  PROVE  /\ \A v \in Levs(n, b, G, values) : Extended(v, v)
         /\ \A v, r, s \in Levs(n, b, G, values) :
              Extended(v, r) /\ Extended(r, s) => Extended(v, s)
         /\ \A v, r \in Levs(n, b, G, values) :
              Extended(v, r) => Points(v.orbit) \subseteq Points(r.orbit)
<1>1. \A v \in Levs(n, b, G, values) : v.orbit \in Seq(0 .. n - 1) /\ Len(v.orbit) \in Nat
  BY DEF Levs
<1>2. \A v \in Levs(n, b, G, values) : Extended(v, v)
  BY <1>1 DEF Extended
<1>3. ASSUME NEW v \in Levs(n, b, G, values), NEW r \in Levs(n, b, G, values),
             NEW s \in Levs(n, b, G, values), Extended(v, r), Extended(r, s)
      PROVE  Extended(v, s)
  BY <1>1, <1>3 DEF Extended
<1>4. ASSUME NEW v \in Levs(n, b, G, values), NEW r \in Levs(n, b, G, values), Extended(v, r)
      PROVE  Points(v.orbit) \subseteq Points(r.orbit)
  <2> SUFFICES ASSUME NEW x \in Points(v.orbit) PROVE x \in Points(r.orbit)
    OBVIOUS
  <2>1. PICK q \in 1 .. Len(v.orbit) : v.orbit[q] = x
    <3>1. v.orbit \in Seq(0 .. n - 1)
      BY <1>1
    <3> QED  BY <3>1, RangeFacts DEF Points
  <2>2. q \in 1 .. Len(r.orbit) /\ r.orbit[q] = x
    BY <1>1, <1>4, <2>1 DEF Extended
  <2>3. r.orbit \in Seq(0 .. n - 1)
    BY <1>1
  <2> QED  BY <2>2, <2>3, RangeFacts DEF Points
<1> QED  BY <1>2, <1>3, <1>4

LEMMA LevFacts ==
  ASSUME NEW n, NEW b, NEW G, NEW values, NEW v \in Levs(n, b, G, values)
  PROVE  /\ v = [orbit |-> v.orbit, trans |-> v.trans]
         /\ v.orbit \in Seq(0 .. n - 1) /\ Len(v.orbit) \in Nat
         /\ v.trans \in [Levels -> values]
         /\ \A p, q \in 1 .. Len(v.orbit) : v.orbit[p] = v.orbit[q] => p = q
         /\ b \in Points(v.orbit) /\ v.trans[b] = IdPerm(n)
         /\ \A p \in Points(v.orbit) : v.trans[p] \in G /\ v.trans[p][b] = p
         /\ Points(v.orbit) \subseteq 0 .. n - 1
         /\ \A p : p \in Points(v.orbit) <=> \E q \in 1 .. Len(v.orbit) : v.orbit[q] = p
<1>1. v \in [ orbit : Seq(0 .. n - 1), trans : [Levels -> values] ]
  BY DEF Levs
<1>2. v.orbit \in Seq(0 .. n - 1)
  BY <1>1
<1>3. /\ Points(v.orbit) \subseteq 0 .. n - 1
      /\ \A p : p \in Points(v.orbit) <=> \E q \in 1 .. Len(v.orbit) : v.orbit[q] = p
      /\ Len(v.orbit) \in Nat
  <2>1. PICK s \in Seq(0 .. n - 1) : s = v.orbit
    BY <1>2
  <2>2. /\ Len(s) \in Nat /\ Range(s) \subseteq 0 .. n - 1
        /\ \A p : p \in Range(s) <=> \E q \in 1 .. Len(s) : s[q] = p
    BY RangeFacts
  <2> QED  BY <2>1, <2>2 DEF Points
<1> QED  BY <1>1, <1>3 DEF Levs

(* One point reached.                                                        *)
LEMMA ReachFacts ==
  ASSUME NEW n, NEW b, NEW G, NEW values, Setting(n, b, G, values),
         NEW v \in Levs(n, b, G, values), NEW p \in Points(v.orbit), NEW x \in G
  PROVE  /\ Reach(v, p, x) \in Levs(n, b, G, values)
         /\ Extended(v, Reach(v, p, x))
         /\ x[p] \in Points(Reach(v, p, x).orbit)
<1>1. n \in Nat /\ x \in Perms(n) /\ p \in 0 .. n - 1 /\ 0 .. n - 1 \subseteq Levels
      /\ SizeAssumption
  BY LevFacts, SizeAssumption DEF Setting, IsGroup, Levels
<1>2. x[p] \in 0 .. n - 1
  <2>1. x \in [0 .. n - 1 -> 0 .. n - 1]
    BY <1>1, PermDef
  <2> QED  BY <1>1, <2>1
<1>3. CASE x[p] \in Points(v.orbit)
  BY <1>3, ExtendedFacts DEF Reach
<1>4. CASE x[p] \notin Points(v.orbit)
  <2> DEFINE o == Append(v.orbit, x[p])
             new == prod_perms(v.trans[p], x)
             t == [v.trans EXCEPT ![x[p]] = new]
             r == [orbit |-> o, trans |-> t]
  <2>1. Reach(v, p, x) = r
    BY <1>4 DEF Reach
  <2>2. /\ o \in Seq(0 .. n - 1) /\ Len(o) = Len(v.orbit) + 1
        /\ \A q \in 1 .. Len(v.orbit) : o[q] = v.orbit[q]
        /\ o[Len(v.orbit) + 1] = x[p]
        /\ Points(o) = Points(v.orbit) \cup {x[p]}
    <3>1. v.orbit \in Seq(0 .. n - 1)
      BY LevFacts
    <3>0. PICK P : P = 0 .. n - 1
      OBVIOUS
    <3>2. PICK s \in Seq(P) : s = v.orbit
      BY <3>0, <3>1
    <3>3. PICK y \in P : y = x[p]
      BY <1>2, <3>0
    <3>4. /\ Append(s, y) \in Seq(P) /\ Len(Append(s, y)) = Len(s) + 1
          /\ \A q \in 1 .. Len(s) : Append(s, y)[q] = s[q]
          /\ Append(s, y)[Len(s) + 1] = y
          /\ Range(Append(s, y)) = Range(s) \cup {y}
      BY AppendFacts
    <3> QED  BY <3>0, <3>2, <3>3, <3>4 DEF Points
  <2>3. v.trans[p] \in G /\ v.trans[p] \in Perms(n) /\ v.trans[p][b] = p
    BY LevFacts DEF Setting, IsGroup
  <2>4. new \in G /\ new \in values /\ new[b] = x[p]
    <3>1. new \in G
      BY <2>3 DEF Setting, IsGroup
    <3>2. new[b] = x[p]
      BY <1>1, <2>3, ProdPerms DEF Setting
    <3> QED  BY <3>1, <3>2 DEF Setting, IsGroup
  <2>5. /\ t \in [Levels -> values] /\ t[x[p]] = new
        /\ \A q \in Levels : q # x[p] => t[q] = v.trans[q]
    BY <1>1, <1>2, <2>4, LevFacts
  <2> HIDE DEF o, t, new
  <2>6. \A q, s \in 1 .. Len(o) : o[q] = o[s] => q = s
    <3>1. \A q \in 1 .. Len(v.orbit) : v.orbit[q] # x[p]
      <4>1. \A q : q \in Points(v.orbit) <=> \E l \in 1 .. Len(v.orbit) : v.orbit[l] = q
        BY LevFacts
      <4> QED  BY <1>4, <4>1
    <3>2. \A q, s \in 1 .. Len(v.orbit) : v.orbit[q] = v.orbit[s] => q = s
      BY LevFacts
    <3>3. Len(v.orbit) \in Nat
      BY LevFacts
    <3>4. \A q \in 1 .. Len(o) : q \in 1 .. Len(v.orbit) \/ q = Len(v.orbit) + 1
      BY <2>2, <3>3
    <3> QED  BY <2>2, <3>1, <3>2, <3>4
  <2>7. b \in Points(o) /\ t[b] = IdPerm(n)
    <3>1. b \in Points(v.orbit) /\ v.trans[b] = IdPerm(n)
      BY LevFacts
    <3>2. b # x[p]
      BY <1>4, <3>1
    <3>3. b \in Levels
      BY <1>1 DEF Setting
    <3> QED  BY <2>2, <2>5, <3>1, <3>2, <3>3
  <2>8. ASSUME NEW q \in Points(o) PROVE t[q] \in G /\ t[q][b] = q
    <3>1. CASE q = x[p]
      BY <2>4, <2>5, <3>1
    <3>2. CASE q # x[p]
      <4>1. q \in Points(v.orbit) /\ q \in Levels
        BY <1>1, <2>2, <3>2, LevFacts
      <4> QED  BY <2>5, <3>2, <4>1, LevFacts
    <3> QED  BY <3>1, <3>2
  <2>9. r.orbit = o /\ r.trans = t
    OBVIOUS
  <2>10. r \in Levs(n, b, G, values)
    <3>1. r \in [ orbit : Seq(0 .. n - 1), trans : [Levels -> values] ]
      BY <2>2, <2>5
    <3> QED  BY <2>6, <2>7, <2>8, <2>9, <3>1 DEF Levs
  <2>11. Extended(v, r)
    BY <2>2, <2>9, LevFacts DEF Extended
  <2> QED  BY <2>1, <2>2, <2>9, <2>10, <2>11
<1> QED  BY <1>3, <1>4

(* Several points reached one after the other, by an element of the group    *)
(* each from a point that is in the orbit from the start.                    *)
Reaches(w, v, k, P, X) ==
  /\ w = [q \in 0 .. k |-> w[q]]
  /\ w[0] = v
  /\ \A q \in 1 .. k : w[q] = Reach(w[q - 1], P[q], X[q])

LEMMA ReachesFacts ==
  ASSUME NEW n, NEW b, NEW G, NEW values, Setting(n, b, G, values),
         NEW v \in Levs(n, b, G, values), NEW k \in Nat,
         NEW P \in [1 .. k -> Points(v.orbit)], NEW X \in [1 .. k -> G]
  PROVE  /\ \E w : Reaches(w, v, k, P, X)
         /\ \A w : Reaches(w, v, k, P, X) =>
              /\ w[k] \in Levs(n, b, G, values)
              /\ Extended(v, w[k])
              /\ \A q \in 1 .. k : X[q][P[q]] \in Points(w[k].orbit)
<1> DEFINE L == Levs(n, b, G, values)
           A(q) == { r \in L : Extended(v, r) /\ \A l \in 1 .. q : X[l][P[l]] \in Points(r.orbit) }
           S == [q \in 0 .. k |-> A(q)]
           step == [z \in L \X (1 .. k) |-> Reach(z[1], P[z[2]], X[z[2]])]
<1>1. ASSUME NEW q \in 1 .. k, NEW r \in S[q - 1] PROVE Reach(r, P[q], X[q]) \in S[q]
  <2> DEFINE s == Reach(r, P[q], X[q])
  <2>1. q \in 0 .. k /\ q - 1 \in 0 .. k
    OBVIOUS
  <2>2. r \in A(q - 1)
    BY <1>1, <2>1
  <2>3. r \in L /\ Extended(v, r) /\ \A l \in 1 .. q - 1 : X[l][P[l]] \in Points(r.orbit)
    BY <2>2
  <2>4. P[q] \in Points(r.orbit) /\ X[q] \in G
    BY <2>3, ExtendedFacts
  <2>5. s \in L /\ Extended(r, s) /\ X[q][P[q]] \in Points(s.orbit)
    <3>1. PICK y \in Points(r.orbit), x \in G : y = P[q] /\ x = X[q]
      BY <2>4
    <3> QED  BY <2>3, <3>1, ReachFacts
  <2>6. Extended(v, s) /\ Points(r.orbit) \subseteq Points(s.orbit)
    <3> HIDE DEF S, s
    <3> QED  BY <2>3, <2>5, ExtendedFacts
  <2> HIDE DEF s, L
  <2>7. \A l \in 1 .. q : l \in 1 .. q - 1 \/ l = q
    OBVIOUS
  <2>8. s \in A(q)
    BY <2>3, <2>5, <2>6, <2>7
  <2> QED  BY <2>1, <2>8 DEF s
<1>2. v \in S[0]
  BY ExtendedFacts
<1>3. \A q \in 0 .. k : S[q] \subseteq L
  OBVIOUS
<1> HIDE DEF S, A
<1>4. \A q \in 1 .. k : \A r \in S[q - 1] : step[<< r, q >>] = Reach(r, P[q], X[q])
  <2> TAKE q \in 1 .. k
  <2> TAKE r \in S[q - 1]
  <2>1. q - 1 \in 0 .. k
    OBVIOUS
  <2>2. << r, q >> \in L \X (1 .. k)
    BY <1>3, <2>1
  <2> QED  BY <2>2
<1> HIDE DEF step
<1>5. PICK g : Iterates(g, v, k, step) /\ \A q \in 0 .. k : g[q] \in S[q]
  <2>1. \A q \in 1 .. k : \A r \in S[q - 1] : step[<< r, q >>] \in S[q]
    BY <1>1, <1>4
  <2> QED  BY <1>2, <2>1, Recursion
<1>6. Reaches(g, v, k, P, X)
  <2>1. \A q \in 1 .. k : g[q - 1] \in S[q - 1]
    BY <1>5
  <2> QED  BY <1>4, <1>5, <2>1 DEF Iterates, Reaches
<1>7. ASSUME NEW w, Reaches(w, v, k, P, X)
      PROVE  /\ w[k] \in L
             /\ Extended(v, w[k])
             /\ \A q \in 1 .. k : X[q][P[q]] \in Points(w[k].orbit)
  <2>1. \A q \in 1 .. k : w[q - 1] \in S[q - 1] => w[q] \in S[q]
    BY <1>1, <1>7 DEF Reaches
  <2>2. w[0] \in S[0]
    BY <1>2, <1>7 DEF Reaches
  <2>3. \A q \in 0 .. k : w[q] \in S[q]
    BY <2>1, <2>2, StaysIn
  <2>4. w[k] \in S[k] /\ k \in 0 .. k
    BY <2>3
  <2> QED  BY <2>4 DEF S, A
<1> QED  BY <1>6, <1>7

LEMMA ReachByFacts ==
  ASSUME NEW n, NEW b, NEW G, NEW values, Setting(n, b, G, values),
         NEW v \in Levs(n, b, G, values), NEW p \in Points(v.orbit), NEW gens \in Seq(G)
  PROVE  /\ ReachBy(v, p, gens) \in Levs(n, b, G, values)
         /\ Extended(v, ReachBy(v, p, gens))
         /\ \A q \in 1 .. Len(gens) : gens[q][p] \in Points(ReachBy(v, p, gens).orbit)
<1> DEFINE body(w) == [q \in 0 .. Len(gens) |->
                         IF q = 0 THEN v ELSE Reach(w[q - 1], p, gens[q])]
<1>1. PICK k \in Nat : k = Len(gens)
  BY LenProperties
<1>2. gens \in [1 .. k -> G]
  BY <1>1, LenProperties
<1>3. PICK P : P = [q \in 1 .. k |-> p]
  OBVIOUS
<1>4. P \in [1 .. k -> Points(v.orbit)]
  BY <1>3
<1>5. \A w : w = body(w) <=> Reaches(w, v, k, P, gens)
  <2> TAKE w
  <2>1. ASSUME w = body(w) PROVE Reaches(w, v, k, P, gens)
    <3>1. w = [q \in 0 .. k |-> w[q]]
      BY <1>1, <2>1
    <3>2. \A q \in 0 .. k : w[q] = IF q = 0 THEN v ELSE Reach(w[q - 1], p, gens[q])
      BY <1>1, <2>1
    <3>3. \A q \in 1 .. k : q \in 0 .. k /\ q # 0 /\ P[q] = p
      BY <1>3
    <3> QED  BY <3>1, <3>2, <3>3 DEF Reaches
  <2>2. ASSUME Reaches(w, v, k, P, gens) PROVE w = body(w)
    <3>1. \A q \in 0 .. k : q = 0 \/ (q \in 1 .. k /\ P[q] = p)
      BY <1>3
    <3>2. \A q \in 0 .. k : w[q] = IF q = 0 THEN v ELSE Reach(w[q - 1], p, gens[q])
      BY <2>2, <3>1 DEF Reaches
    <3>3. w = [q \in 0 .. k |-> w[q]]
      BY <2>2 DEF Reaches
    <3> QED  BY <1>1, <3>2, <3>3
  <2> QED  BY <2>1, <2>2
<1>6. ReachBy(v, p, gens) = (CHOOSE w : w = body(w))[Len(gens)]
  BY DEF ReachBy
<1> HIDE DEF body
<1>7. PICK w : w = body(w) /\ ReachBy(v, p, gens) = w[k]
  <2>1. \E w : w = body(w)
    BY <1>2, <1>4, <1>5, ReachesFacts
  <2> QED  BY <1>1, <1>6, <2>1
<1>8. /\ w[k] \in Levs(n, b, G, values)
      /\ Extended(v, w[k])
      /\ \A q \in 1 .. k : gens[q][P[q]] \in Points(w[k].orbit)
  BY <1>2, <1>4, <1>5, <1>7, ReachesFacts
<1> QED  BY <1>1, <1>3, <1>7, <1>8

LEMMA ReachFromFacts ==
  ASSUME NEW n, NEW b, NEW G, NEW values, Setting(n, b, G, values),
         NEW v \in Levs(n, b, G, values), NEW x \in G
  PROVE  /\ ReachFrom(v, x) \in Levs(n, b, G, values)
         /\ Extended(v, ReachFrom(v, x))
         /\ \A q \in 1 .. Len(v.orbit) : x[v.orbit[q]] \in Points(ReachFrom(v, x).orbit)
<1> DEFINE body(w) == [q \in 0 .. Len(v.orbit) |->
                         IF q = 0 THEN v ELSE Reach(w[q - 1], v.orbit[q], x)]
<1>1. PICK k \in Nat : k = Len(v.orbit)
  BY LevFacts
<1>2. PICK P : P = [q \in 1 .. k |-> v.orbit[q]]
  OBVIOUS
<1>3. PICK X : X = [q \in 1 .. k |-> x]
  OBVIOUS
<1>4. P \in [1 .. k -> Points(v.orbit)] /\ X \in [1 .. k -> G]
  <2>1. \A p : p \in Points(v.orbit) <=> \E q \in 1 .. Len(v.orbit) : v.orbit[q] = p
    BY LevFacts
  <2> QED  BY <1>1, <1>2, <1>3, <2>1
<1>5. \A w : w = body(w) <=> Reaches(w, v, k, P, X)
  <2> TAKE w
  <2>1. ASSUME w = body(w) PROVE Reaches(w, v, k, P, X)
    <3>1. w = [q \in 0 .. k |-> w[q]]
      BY <1>1, <2>1
    <3>2. \A q \in 0 .. k : w[q] = IF q = 0 THEN v ELSE Reach(w[q - 1], v.orbit[q], x)
      BY <1>1, <2>1
    <3>3. \A q \in 1 .. k : q \in 0 .. k /\ q # 0 /\ P[q] = v.orbit[q] /\ X[q] = x
      BY <1>2, <1>3
    <3>4. \A q \in 1 .. k : w[q] = Reach(w[q - 1], P[q], X[q])
      BY <3>2, <3>3
    <3>5. w[0] = v
      BY <3>2
    <3> QED  BY <3>1, <3>4, <3>5 DEF Reaches
  <2>2. ASSUME Reaches(w, v, k, P, X) PROVE w = body(w)
    <3>1. \A q \in 0 .. k : q = 0 \/ (q \in 1 .. k /\ P[q] = v.orbit[q] /\ X[q] = x)
      BY <1>2, <1>3
    <3>2. \A q \in 0 .. k : w[q] = IF q = 0 THEN v ELSE Reach(w[q - 1], v.orbit[q], x)
      BY <2>2, <3>1 DEF Reaches
    <3>3. w = [q \in 0 .. k |-> w[q]]
      BY <2>2 DEF Reaches
    <3> QED  BY <1>1, <3>2, <3>3
  <2> QED  BY <2>1, <2>2
<1>6. ReachFrom(v, x) = (CHOOSE w : w = body(w))[Len(v.orbit)]
  BY DEF ReachFrom
<1> HIDE DEF body
<1>7. PICK w : w = body(w) /\ ReachFrom(v, x) = w[k]
  <2>1. \E w : w = body(w)
    BY <1>4, <1>5, ReachesFacts
  <2> QED  BY <1>1, <1>6, <2>1
<1>8. /\ w[k] \in Levs(n, b, G, values)
      /\ Extended(v, w[k])
      /\ \A q \in 1 .. k : X[q][P[q]] \in Points(w[k].orbit)
  BY <1>4, <1>5, <1>7, ReachesFacts
<1> QED  BY <1>1, <1>2, <1>3, <1>7, <1>8

(* No generator leads out of the orbit from the points up to position k.     *)
ClosedTo(r, gens, k) ==
  \A q \in 1 .. Len(r.orbit) : q <= k =>
    \A l \in 1 .. Len(gens) : gens[l][r.orbit[q]] \in Points(r.orbit)

LEMMA SpreadFacts ==
  ASSUME NEW b, NEW G, NEW values, Setting(degree, b, G, values),
         NEW v \in Levs(degree, b, G, values), NEW gens \in Seq(G),
         NEW from \in Nat \ {0}, ClosedTo(v, gens, from - 1)
  PROVE  /\ Spread(v, from, gens) \in Levs(degree, b, G, values)
         /\ Extended(v, Spread(v, from, gens))
         /\ ClosedTo(Spread(v, from, gens), gens, degree)
<1> DEFINE L == Levs(degree, b, G, values)
           next(r, k) == IF k < from THEN v
                         ELSE IF k > Len(r.orbit) THEN r ELSE ReachBy(r, r.orbit[k], gens)
           body(w) == [k \in 0 .. degree |->
                         IF k < from THEN v
                         ELSE LET s == w[k - 1]
                              IN  IF k > Len(s.orbit) THEN s ELSE ReachBy(s, s.orbit[k], gens)]
           A(k) == { r \in L : Extended(v, r) /\ ClosedTo(r, gens, k) }
<1>1. PICK n \in Nat : n = degree
  BY DEF Setting
<1>2. PICK S : S = [k \in 0 .. n |-> A(k)]
  OBVIOUS
<1>3. PICK step : step = [z \in L \X (1 .. n) |-> next(z[1], z[2])]
  OBVIOUS
<1>4. \A k \in 0 .. n : S[k] = A(k)
  BY <1>2
<1>5. \A k \in Nat : k < from => v \in A(k)
  BY ExtendedFacts DEF ClosedTo
<1>6. ASSUME NEW k \in 1 .. n, NEW r \in A(k - 1) PROVE next(r, k) \in A(k)
  <2>1. CASE k < from
    BY <1>5, <2>1
  <2>2. CASE ~ (k < from) /\ k > Len(r.orbit)
    <3>1. r \in L /\ Extended(v, r) /\ ClosedTo(r, gens, k - 1)
      BY <1>6
    <3>2. Len(r.orbit) \in Nat
      BY <3>1, LevFacts
    <3>3. ClosedTo(r, gens, k)
      <4>1. \A q \in 1 .. Len(r.orbit) : q <= k - 1
        BY <2>2, <3>2
      <4> QED  BY <3>1, <4>1 DEF ClosedTo
    <3> HIDE DEF L
    <3> QED  BY <2>2, <3>1, <3>3
  <2>3. CASE ~ (k < from) /\ ~ (k > Len(r.orbit))
    <3>1. r \in L /\ Extended(v, r) /\ ClosedTo(r, gens, k - 1)
      BY <1>6
    <3>2. Len(r.orbit) \in Nat /\ k \in 1 .. Len(r.orbit)
      BY <2>3, <3>1, LevFacts
    <3>3. PICK p \in Points(r.orbit) : p = r.orbit[k]
      <4>1. \A p : p \in Points(r.orbit) <=> \E q \in 1 .. Len(r.orbit) : r.orbit[q] = p
        BY <3>1, LevFacts
      <4> QED  BY <3>2, <4>1
    <3>4. PICK s : s = ReachBy(r, p, gens)
      OBVIOUS
    <3>5. s \in L /\ Extended(r, s) /\ \A l \in 1 .. Len(gens) : gens[l][p] \in Points(s.orbit)
      BY <3>1, <3>4, ReachByFacts
    <3>6. Extended(v, s) /\ Points(r.orbit) \subseteq Points(s.orbit)
      BY <3>1, <3>5, ExtendedFacts
    <3>7. ClosedTo(s, gens, k)
      <4> SUFFICES ASSUME NEW q \in 1 .. Len(s.orbit), q <= k, NEW l \in 1 .. Len(gens)
                   PROVE  gens[l][s.orbit[q]] \in Points(s.orbit)
        BY DEF ClosedTo
      <4>1. Len(s.orbit) \in Nat
        BY <3>5, LevFacts
      <4>2. q \in 1 .. Len(r.orbit) /\ s.orbit[q] = r.orbit[q]
        BY <3>2, <3>5, <4>1 DEF Extended
      <4>3. CASE q = k
        BY <3>3, <3>5, <4>2, <4>3
      <4>4. CASE q # k
        <5>1. q <= k - 1
          BY <4>2, <4>4, <3>2
        <5> QED  BY <3>1, <3>6, <4>2, <5>1 DEF ClosedTo
      <4> QED  BY <4>3, <4>4
    <3>8. next(r, k) = s
      BY <2>3, <3>3, <3>4
    <3> HIDE DEF L, next
    <3> QED  BY <3>5, <3>6, <3>7, <3>8
  <2> QED  BY <2>1, <2>2, <2>3
<1>7. \A k \in 0 .. n : A(k) \subseteq L
  OBVIOUS
<1> HIDE DEF A
<1>8. \A k \in 1 .. n : \A r \in S[k - 1] : step[<< r, k >>] = next(r, k) /\ next(r, k) \in S[k]
  <2> TAKE k \in 1 .. n
  <2> TAKE r \in S[k - 1]
  <2>1. k \in 0 .. n /\ k - 1 \in 0 .. n
    OBVIOUS
  <2>2. r \in A(k - 1)
    BY <1>4, <2>1
  <2>3. << r, k >> \in L \X (1 .. n)
    BY <1>7, <2>1, <2>2
  <2> HIDE DEF next, L
  <2>4. step[<< r, k >>] = next(r, k)
    BY <1>3, <2>3
  <2>5. next(r, k) \in S[k]
    BY <1>4, <1>6, <2>1, <2>2
  <2> QED  BY <2>4, <2>5
<1>9. v \in S[0]
  BY <1>4, <1>5
<1>10. PICK g : Iterates(g, v, n, step) /\ \A k \in 0 .. n : g[k] \in S[k]
  BY <1>8, <1>9, Recursion
<1>11. \A w : w = body(w) <=>
                /\ w = [k \in 0 .. n |-> w[k]] /\ w[0] = v
                /\ \A k \in 1 .. n : w[k] = next(w[k - 1], k)
  <2> TAKE w
  <2>1. ASSUME w = body(w)
        PROVE  /\ w = [k \in 0 .. n |-> w[k]] /\ w[0] = v
               /\ \A k \in 1 .. n : w[k] = next(w[k - 1], k)
    <3>1. w = [k \in 0 .. n |-> w[k]]
      BY <1>1, <2>1
    <3>2. \A k \in 0 .. n : w[k] = body(w)[k]
      BY <2>1
    <3>3. w[0] = v
      BY <1>1, <3>2
    <3>4. \A k \in 1 .. n : body(w)[k] = next(w[k - 1], k)
      BY <1>1
    <3>5. \A k \in 1 .. n : k \in 0 .. n
      OBVIOUS
    <3> HIDE DEF next, body
    <3> QED  BY <3>1, <3>2, <3>3, <3>4, <3>5
  <2>2. ASSUME w = [k \in 0 .. n |-> w[k]], w[0] = v,
               \A k \in 1 .. n : w[k] = next(w[k - 1], k)
        PROVE  w = body(w)
    <3>1. \A k \in 0 .. n : w[k] = body(w)[k]
      <4> TAKE k \in 0 .. n
      <4>1. CASE k = 0
        BY <1>1, <2>2, <4>1
      <4>2. CASE k # 0
        <5>1. k \in 1 .. n
          BY <4>2
        <5>2. body(w)[k] = next(w[k - 1], k)
          BY <1>1, <5>1
        <5> QED  BY <2>2, <5>1, <5>2
      <4> QED  BY <4>1, <4>2
    <3>2. body(w) = [k \in 0 .. n |-> body(w)[k]]
      BY <1>1
    <3> HIDE DEF body
    <3> QED  BY <2>2, <3>1, <3>2
  <2> QED  BY <2>1, <2>2
<1>12. Spread(v, from, gens) = (CHOOSE w : w = body(w))[degree]
  BY DEF Spread
<1> HIDE DEF body, next
<1>13. g = body(g)
  <2>1. \A k \in 1 .. n : g[k - 1] \in S[k - 1]
    BY <1>10
  <2> QED  BY <1>8, <1>10, <1>11, <2>1 DEF Iterates
<1>14. PICK w : w = body(w) /\ Spread(v, from, gens) = w[n]
  BY <1>1, <1>12, <1>13
<1>15. \A k \in 1 .. n : w[k - 1] \in S[k - 1] => w[k] \in S[k]
  BY <1>8, <1>11, <1>14
<1>16. w[0] \in S[0]
  BY <1>9, <1>11, <1>14
<1>17. \A k \in 0 .. n : w[k] \in S[k]
  BY <1>15, <1>16, StaysIn
<1>18. w[n] \in A(n)
  BY <1>4, <1>17
<1> QED  BY <1>1, <1>14, <1>18 DEF A

(* A list of points of the orbit that is closed under the generators to its  *)
(* last possible position is the orbit of the group they generate.           *)
LEMMA WholeOrbit ==
  ASSUME NEW n \in Nat, NEW b \in 0 .. n - 1, NEW values, NEW gens \in Seq(Perms(n)),
         NEW v \in Levs(n, b, Generated(Range(gens), n), values), ClosedTo(v, gens, n)
  PROVE  /\ \A p \in Points(v.orbit) : \A l \in 1 .. Len(gens) : gens[l][p] \in Points(v.orbit)
         /\ Points(v.orbit) = { x[b] : x \in Generated(Range(gens), n) }
         /\ Len(v.orbit) <= n
         /\ Len(v.orbit) = Cardinality(Points(v.orbit))
<1> DEFINE G == Generated(Range(gens), n)
<1>1. PICK P : P = 0 .. n - 1
  OBVIOUS
<1>2. PICK s \in Seq(P) : s = v.orbit
  BY <1>1, LevFacts
<1>3. Len(s) \in Nat /\ \A p, q \in 1 .. Len(s) : s[p] = s[q] => p = q
  BY <1>2, LevFacts
<1>4. IsFiniteSet(P) /\ Cardinality(P) = n
  <2>1. 0 \in Int /\ n - 1 \in Int
    OBVIOUS
  <2>2. /\ IsFiniteSet(0 .. n - 1)
        /\ Cardinality(0 .. n - 1) = IF 0 > n - 1 THEN 0 ELSE (n - 1) - 0 + 1
    BY <2>1, FS_Interval
  <2> QED  BY <1>1, <2>2
<1>5. Len(s) <= n
  BY <1>3, <1>4, DifferentPoints
<1>6. /\ Points(s) = { s[q] : q \in 1 .. Len(s) }
      /\ \A p : p \in Points(s) <=> \E q \in 1 .. Len(s) : s[q] = p
  BY RangeFacts DEF Points
<1>7. ASSUME NEW p \in Points(s), NEW l \in 1 .. Len(gens) PROVE gens[l][p] \in Points(s)
  <2>1. PICK q \in 1 .. Len(s) : s[q] = p
    BY <1>6
  <2>2. q <= n
    BY <1>3, <1>5
  <2> QED  BY <1>2, <2>1, <2>2 DEF ClosedTo
<1>8. Range(gens) \in SUBSET Perms(n) /\ \A x \in Range(gens) : \E l \in 1 .. Len(gens) : gens[l] = x
  <2>1. PICK R : R = Perms(n)
    OBVIOUS
  <2>2. gens \in Seq(R)
    BY <2>1
  <2>3. Range(gens) \subseteq R /\ \A x : x \in Range(gens) <=> \E l \in 1 .. Len(gens) : gens[l] = x
    BY <2>2, RangeFacts
  <2> QED  BY <2>1, <2>3
<1>9. Points(s) = { x[b] : x \in G }
  <2> DEFINE T == { x \in Perms(n) : x[b] \in Points(s) }
  <2>1. G \subseteq T
    <3>1. IdPerm(n) \in T
      BY <1>2, IdentityPerm, LevFacts
    <3>2. ASSUME NEW x \in T, NEW g \in Range(gens) PROVE prod_perms(x, g) \in T
      <4>1. x \in Perms(n) /\ g \in Perms(n) /\ x[b] \in Points(s)
        BY <1>8
      <4>2. PICK l \in 1 .. Len(gens) : gens[l] = g
        BY <1>8
      <4>3. prod_perms(x, g) \in Perms(n) /\ prod_perms(x, g)[b] = g[x[b]]
        BY <4>1, ProdPerms
      <4> QED  BY <1>7, <4>1, <4>2, <4>3
    <3>3. T \in SUBSET Perms(n)
      OBVIOUS
    <3> HIDE DEF T
    <3>4. ClosedUnder(T, Range(gens))
      BY <3>2 DEF ClosedUnder
    <3> QED  BY <1>8, <3>1, <3>3, <3>4, GeneratedFacts
  <2>2. \A p \in Points(s) : v.trans[p] \in G /\ v.trans[p][b] = p
    BY <1>2, LevFacts
  <2> HIDE DEF G
  <2> QED  BY <2>1, <2>2
<1>10. Len(s) = Cardinality(Points(s))
  <2>1. PICK f : f = [q \in 1 .. Len(s) |-> s[q]]
    OBVIOUS
  <2>2. f \in Bijection(1 .. Len(s), Points(s))
    BY <1>3, <1>6, <2>1, Zenon DEF Bijection, Injection, Surjection, IsInjective
  <2>3. IsFiniteSet(1 .. Len(s)) /\ Cardinality(1 .. Len(s)) = Len(s)
    <3>1. 1 \in Int /\ Len(s) \in Int
      BY <1>3
    <3>2. /\ IsFiniteSet(1 .. Len(s))
          /\ Cardinality(1 .. Len(s)) = IF 1 > Len(s) THEN 0 ELSE Len(s) - 1 + 1
      BY <3>1, FS_Interval
    <3> QED  BY <1>3, <3>2
  <2>4. Cardinality(Points(s)) = Cardinality(1 .. Len(s))
    BY <2>2, <2>3, FS_Bijection DEF ExistsBijection
  <2> QED  BY <2>3, <2>4
<1> QED  BY <1>2, <1>5, <1>7, <1>9, <1>10

(* What is different stays different when something new is added.            *)
LEMMA DifferentAppend ==
  ASSUME NEW P, NEW s \in Seq(P), NEW y \in P, \A q \in 1 .. Len(s) : s[q] # y,
         \A p, q \in 1 .. Len(s) : s[p] = s[q] => p = q
  PROVE  \A p, q \in 1 .. Len(Append(s, y)) : Append(s, y)[p] = Append(s, y)[q] => p = q
<1> DEFINE t == Append(s, y)
<1>1. /\ Len(s) \in Nat /\ Len(t) = Len(s) + 1 /\ t[Len(s) + 1] = y
      /\ \A q \in 1 .. Len(s) : t[q] = s[q]
  BY AppendFacts
<1> HIDE DEF t
<1>2. \A q \in 1 .. Len(t) : q \in 1 .. Len(s) \/ q = Len(s) + 1
  BY <1>1
<1>3. \A p, q \in 1 .. Len(t) : t[p] = t[q] => p = q
  BY <1>1, <1>2
<1> QED  BY <1>3 DEF t

(* A permutation that fixes different points and moves another one moves     *)
(* two: there is room for one more.                                          *)
LEMMA FixesAllButOne ==
  ASSUME NEW n \in Nat, NEW bs \in Seq(0 .. n - 1), NEW x \in Perms(n), NEW p \in 0 .. n - 1,
         \A q, k \in 1 .. Len(bs) : bs[q] = bs[k] => q = k,
         \A k \in 1 .. Len(bs) : x[bs[k]] = bs[k], x[p] # p
  PROVE  /\ Len(bs) + 2 <= n
         /\ \A k \in 1 .. Len(bs) : bs[k] # p
<1>1. PICK P : P = 0 .. n - 1
  OBVIOUS
<1>2. PICK s \in Seq(P) : s = bs
  BY <1>1
<1>3. IsFiniteSet(P) /\ Cardinality(P) = n
  <2>1. 0 \in Int /\ n - 1 \in Int
    OBVIOUS
  <2>2. /\ IsFiniteSet(0 .. n - 1)
        /\ Cardinality(0 .. n - 1) = IF 0 > n - 1 THEN 0 ELSE (n - 1) - 0 + 1
    BY <2>1, FS_Interval
  <2> QED  BY <1>1, <2>2
<1>4. p \in P /\ x[p] \in P /\ \A k, l \in P : x[k] = x[l] => k = l
  <2>1. x \in [0 .. n - 1 -> 0 .. n - 1] /\ \A k, l \in 0 .. n - 1 : x[k] = x[l] => k = l
    BY PermDef
  <2> QED  BY <1>1, <2>1
<1>5. \A k \in 1 .. Len(s) : s[k] \in P /\ s[k] # p /\ s[k] # x[p]
  <2> TAKE k \in 1 .. Len(s)
  <2>1. s[k] \in P
    BY LenProperties
  <2>2. x[s[k]] = s[k]
    BY <1>2
  <2> QED  BY <1>4, <2>1, <2>2
<1>6. PICK t \in Seq(P) : t = Append(s, p)
  BY <1>4, AppendFacts
<1>7. /\ Len(s) \in Nat /\ Len(t) = Len(s) + 1 /\ t[Len(s) + 1] = p
      /\ \A q \in 1 .. Len(s) : t[q] = s[q]
  BY <1>4, <1>6, AppendFacts
<1>8. \A q, k \in 1 .. Len(t) : t[q] = t[k] => q = k
  BY <1>2, <1>4, <1>5, <1>6, DifferentAppend
<1>9. PICK y \in P : y = x[p]
  BY <1>4
<1>10. \A q \in 1 .. Len(t) : t[q] # y
  <2>1. \A q \in 1 .. Len(t) : q \in 1 .. Len(s) \/ q = Len(s) + 1
    BY <1>7
  <2> QED  BY <1>5, <1>7, <1>9, <2>1
<1>11. \A q, k \in 1 .. Len(Append(t, y)) : Append(t, y)[q] = Append(t, y)[k] => q = k
  BY <1>8, <1>10, DifferentAppend
<1>12. PICK z \in Seq(P) : z = Append(t, y)
  BY AppendFacts
<1>13. Len(z) = Len(t) + 1
  BY <1>12, AppendFacts
<1>14. Len(z) <= n
  <2>1. \A q, k \in 1 .. Len(z) : z[q] = z[k] => q = k
    BY <1>11, <1>12
  <2>2. Cardinality(P) <= n
    BY <1>3
  <2> QED  BY <1>3, <2>1, <2>2, DifferentPoints
<1> QED  BY <1>2, <1>5, <1>7, <1>13, <1>14

(* Schreier's lemma: a part of the stabiliser of the base point that has all *)
(* the Schreier generators of a level is the whole of it.                    *)
SchreierGen(v, p, x) == prod_perms(prod_perms(v.trans[p], x), invert_perm(v.trans[x[p]]))

LEMMA SchreierLemma ==
  ASSUME NEW n \in Nat, NEW b \in 0 .. n - 1, NEW values, NEW gens \in Seq(Perms(n)),
         NEW v \in Levs(n, b, Generated(Range(gens), n), values), ClosedTo(v, gens, n),
         NEW H, IsGroup(H, n),
         \A x \in H : x \in Generated(Range(gens), n) /\ x[b] = b,
         \A p \in Points(v.orbit) : \A l \in 1 .. Len(gens) : SchreierGen(v, p, gens[l]) \in H
  PROVE  H = { x \in Generated(Range(gens), n) : x[b] = b }
<1> DEFINE G == Generated(Range(gens), n)
           O == Points(v.orbit)
           t(p) == v.trans[p]
           T == { y \in Perms(n) : y[b] \in O /\ prod_perms(y, invert_perm(t(y[b]))) \in H }
<1>1. Range(gens) \in SUBSET Perms(n) /\ \A x \in Range(gens) : \E l \in 1 .. Len(gens) : gens[l] = x
  <2>1. PICK R : R = Perms(n)
    OBVIOUS
  <2>2. gens \in Seq(R)
    BY <2>1
  <2>3. Range(gens) \subseteq R /\ \A x : x \in Range(gens) <=> \E l \in 1 .. Len(gens) : gens[l] = x
    BY <2>2, RangeFacts
  <2> QED  BY <2>1, <2>3
<1>2. IsGroup(G, n)
  BY <1>1, GeneratedFacts
<1>3. /\ b \in O /\ t(b) = IdPerm(n) /\ O \subseteq 0 .. n - 1
      /\ \A p \in O : t(p) \in Perms(n)
  <2>1. /\ b \in O /\ t(b) = IdPerm(n) /\ O \subseteq 0 .. n - 1
        /\ \A p \in O : t(p) \in G
    BY LevFacts
  <2> QED  BY <1>2, <2>1 DEF IsGroup
<1>4. \A p \in O : \A l \in 1 .. Len(gens) : gens[l][p] \in O
  BY WholeOrbit
<1>5. H \in SUBSET Perms(n) /\ IdPerm(n) \in H /\ \A x, y \in H : prod_perms(x, y) \in H
  BY DEF IsGroup
<1> HIDE DEF O, t
<1>6. \A y \in Perms(n) : prod_perms(y, invert_perm(IdPerm(n))) = y
  <2> TAKE y \in Perms(n)
  <2> DEFINE e == IdPerm(n)
             f == invert_perm(e)
  <2>1. e \in Perms(n) /\ f \in Perms(n) /\ \A k \in 0 .. n - 1 : e[k] = k
    BY IdentityPerm, InvertPerm
  <2>2. \A k \in 0 .. n - 1 : f[k] = k
    <3>1. \A k \in 0 .. n - 1 : f[e[k]] = k
      BY <2>1, InvertPerm
    <3> QED  BY <2>1, <3>1
  <2>3. \A k \in 0 .. n - 1 : y[k] \in 0 .. n - 1
    BY PermPoint
  <2> HIDE DEF e, f
  <2>4. prod_perms(y, f) \in Perms(n) /\ \A k \in 0 .. n - 1 : prod_perms(y, f)[k] = y[k]
    BY <2>1, <2>2, <2>3, ProdPerms
  <2>5. prod_perms(y, f) = y
    BY <2>4, SamePerm
  <2> QED  BY <2>5 DEF e, f
<1>7. IdPerm(n) \in T
  BY <1>3, <1>5, <1>6, IdentityPerm
<1>8. ASSUME NEW y \in T, NEW x \in Range(gens) PROVE prod_perms(y, x) \in T
  <2>1. y \in Perms(n) /\ y[b] \in O /\ prod_perms(y, invert_perm(t(y[b]))) \in H
    OBVIOUS
  <2>2. x \in Perms(n)
    BY <1>1
  <2>3. PICK l \in 1 .. Len(gens) : gens[l] = x
    BY <1>1
  <2>4. PICK p \in O : p = y[b]
    BY <2>1
  <2>5. PICK q \in O : q = x[p]
    BY <1>4, <2>3
  <2>6. PICK z \in Perms(n) : z = prod_perms(y, x)
    BY <2>1, <2>2, ProdPerms
  <2>7. z[b] = q
    BY <2>1, <2>2, <2>4, <2>5, <2>6, ProdPerms
  <2>8. PICK tp \in Perms(n), tq \in Perms(n) : tp = t(p) /\ tq = t(q)
    BY <1>3
  <2>9. PICK ip \in Perms(n), iq \in Perms(n) : ip = invert_perm(tp) /\ iq = invert_perm(tq)
    BY InvertPerm
  <2>10. PICK s \in Perms(n) : s = prod_perms(prod_perms(tp, x), iq)
    BY <2>2, ProdPerms
  <2>11. s \in H
    BY <2>3, <2>5, <2>8, <2>9, <2>10 DEF SchreierGen, O, t
  <2>12. PICK r \in H : r = prod_perms(y, ip)
    BY <2>1, <2>4, <2>8, <2>9
  <2>13. prod_perms(r, s) \in H
    BY <1>5, <2>11
  <2>14. prod_perms(z, iq) = prod_perms(r, s)
    <3>1. r \in Perms(n) /\ prod_perms(r, s) \in Perms(n) /\ prod_perms(z, iq) \in Perms(n)
      BY <1>5, <2>13, ProdPerms
    <3>2. ASSUME NEW k \in 0 .. n - 1 PROVE prod_perms(z, iq)[k] = prod_perms(r, s)[k]
      <4>1. PICK a \in 0 .. n - 1 : a = y[k]
        BY <2>1, PermPoint
      <4>2. ip[a] \in 0 .. n - 1 /\ tp[ip[a]] = a
        BY <2>9, InvertPerm, PermPoint
      <4>3. r[k] = ip[a]
        BY <2>1, <2>12, <4>1, ProdPerms
      <4>4. prod_perms(tp, x)[ip[a]] = x[a]
        BY <2>2, <4>2, ProdPerms
      <4>5. prod_perms(tp, x) \in Perms(n)
        BY <2>2, ProdPerms
      <4>6. s[ip[a]] = iq[x[a]]
        BY <2>10, <4>2, <4>4, <4>5, ProdPerms
      <4>7. prod_perms(r, s)[k] = iq[x[a]]
        BY <3>1, <4>3, <4>6, ProdPerms
      <4>8. z[k] = x[a]
        BY <2>1, <2>2, <2>6, <4>1, ProdPerms
      <4>9. prod_perms(z, iq)[k] = iq[z[k]]
        BY ProdPerms
      <4> QED  BY <4>7, <4>8, <4>9
    <3> QED  BY <3>1, <3>2, SamePerm
  <2>15. z[b] \in O /\ prod_perms(z, invert_perm(t(z[b]))) \in H
    BY <2>7, <2>8, <2>9, <2>13, <2>14
  <2> QED  BY <2>6, <2>15
<1>9. T \in SUBSET Perms(n)
  OBVIOUS
<1>10. G \subseteq T
  <2> HIDE DEF T
  <2>1. ClosedUnder(T, Range(gens))
    BY <1>8 DEF ClosedUnder
  <2> QED  BY <1>1, <1>7, <1>9, <2>1, GeneratedFacts
<1>11. ASSUME NEW y \in G, y[b] = b PROVE y \in H
  <2>1. y \in Perms(n) /\ prod_perms(y, invert_perm(t(y[b]))) \in H
    BY <1>10
  <2> QED  BY <1>3, <1>6, <1>11, <2>1
<1>12. \A x : x \in H <=> x \in G /\ x[b] = b
  BY <1>11
<1> HIDE DEF G
<1> QED  BY <1>12 DEF G

(* The generators that fix a point.                                          *)
LEMMA FixingFacts ==
  ASSUME NEW P, NEW gens \in Seq(P), NEW beta
  PROVE  /\ Fixing(gens, beta) \in Seq(P)
         /\ \A x : x \in Range(Fixing(gens, beta)) <=> x \in Range(gens) /\ x[beta] = beta
<1> DEFINE next(s, q) == IF gens[q][beta] = beta THEN Append(s, gens[q]) ELSE s
           body(w) == [q \in 0 .. Len(gens) |->
                         IF q = 0 THEN << >>
                         ELSE IF gens[q][beta] = beta THEN Append(w[q - 1], gens[q]) ELSE w[q - 1]]
           A(q) == { s \in Seq(P) : \A x : x \in Range(s) <=>
                       \E l \in 1 .. q : gens[l] = x /\ x[beta] = beta }
<1>1. PICK n \in Nat : n = Len(gens)
  BY LenProperties
<1>2. PICK S : S = [q \in 0 .. n |-> A(q)]
  OBVIOUS
<1>3. PICK step : step = [z \in Seq(P) \X (1 .. n) |-> next(z[1], z[2])]
  OBVIOUS
<1>4. \A q \in 0 .. n : S[q] = A(q)
  BY <1>2
<1>5. << >> \in A(0)
  <2>1. PICK e \in Seq(P) : e = << >>
    BY EmptySeq
  <2>2. Len(e) = 0
    BY <2>1, EmptySeq
  <2>3. \A x : x \notin Range(e)
    <3>1. \A x : x \in Range(e) <=> \E q \in 1 .. Len(e) : e[q] = x
      BY RangeFacts
    <3>2. \A q : q \notin 1 .. Len(e)
      BY <2>2
    <3> QED  BY <3>1, <3>2
  <2> QED  BY <2>1, <2>3
<1>6. ASSUME NEW q \in 1 .. n, NEW s \in A(q - 1) PROVE next(s, q) \in A(q)
  <2>1. s \in Seq(P) /\ \A x : x \in Range(s) <=> \E l \in 1 .. q - 1 : gens[l] = x /\ x[beta] = beta
    OBVIOUS
  <2>2. PICK g \in P : g = gens[q]
    BY <1>1, ElementOfSeq
  <2>3. \A l : l \in 1 .. q <=> l \in 1 .. q - 1 \/ l = q
    OBVIOUS
  <2>4. CASE g[beta] = beta
    <3>1. Append(s, g) \in Seq(P) /\ Range(Append(s, g)) = Range(s) \cup {g}
      BY <2>1, AppendFacts
    <3>2. \A x : x \in Range(Append(s, g)) <=> \E l \in 1 .. q : gens[l] = x /\ x[beta] = beta
      BY <2>1, <2>2, <2>3, <2>4, <3>1
    <3>3. next(s, q) = Append(s, g)
      BY <2>2, <2>4
    <3> HIDE DEF next
    <3> QED  BY <3>1, <3>2, <3>3
  <2>5. CASE g[beta] # beta
    <3>1. \A x : x \in Range(s) <=> \E l \in 1 .. q : gens[l] = x /\ x[beta] = beta
      BY <2>1, <2>2, <2>3, <2>5
    <3>2. next(s, q) = s
      BY <2>2, <2>5
    <3> HIDE DEF next
    <3> QED  BY <2>1, <3>1, <3>2
  <2> QED  BY <2>4, <2>5
<1>7. \A q \in 0 .. n : A(q) \subseteq Seq(P)
  OBVIOUS
<1> HIDE DEF A
<1>8. \A q \in 1 .. n : \A s \in S[q - 1] : step[<< s, q >>] = next(s, q) /\ next(s, q) \in S[q]
  <2> TAKE q \in 1 .. n
  <2> TAKE s \in S[q - 1]
  <2>1. q \in 0 .. n /\ q - 1 \in 0 .. n
    OBVIOUS
  <2>2. s \in A(q - 1)
    BY <1>4, <2>1
  <2>3. << s, q >> \in Seq(P) \X (1 .. n)
    BY <1>7, <2>1, <2>2
  <2> HIDE DEF next
  <2>4. step[<< s, q >>] = next(s, q)
    BY <1>3, <2>3
  <2>5. next(s, q) \in S[q]
    BY <1>4, <1>6, <2>1, <2>2
  <2> QED  BY <2>4, <2>5
<1>9. << >> \in S[0]
  BY <1>4, <1>5
<1>10. PICK g : Iterates(g, << >>, n, step) /\ \A q \in 0 .. n : g[q] \in S[q]
  <2>1. PICK e \in S[0] : e = << >>
    BY <1>9
  <2>2. \A q \in 1 .. n : \A s \in S[q - 1] : step[<< s, q >>] \in S[q]
    BY <1>8
  <2>3. \E g : Iterates(g, e, n, step) /\ \A q \in 0 .. n : g[q] \in S[q]
    BY <2>2, Recursion
  <2> QED  BY <2>1, <2>3
<1>11. \A w : w = body(w) <=>
                /\ w = [q \in 0 .. n |-> w[q]] /\ w[0] = << >>
                /\ \A q \in 1 .. n : w[q] = next(w[q - 1], q)
  <2> TAKE w
  <2>1. ASSUME w = body(w)
        PROVE  /\ w = [q \in 0 .. n |-> w[q]] /\ w[0] = << >>
               /\ \A q \in 1 .. n : w[q] = next(w[q - 1], q)
    <3>1. w = [q \in 0 .. n |-> w[q]]
      BY <1>1, <2>1
    <3>2. \A q \in 0 .. n : w[q] = body(w)[q]
      BY <2>1
    <3>3. w[0] = << >>
      BY <1>1, <3>2
    <3>4. \A q \in 1 .. n : body(w)[q] = next(w[q - 1], q)
      BY <1>1
    <3>5. \A q \in 1 .. n : q \in 0 .. n
      OBVIOUS
    <3> HIDE DEF next, body
    <3> QED  BY <3>1, <3>2, <3>3, <3>4, <3>5
  <2>2. ASSUME w = [q \in 0 .. n |-> w[q]], w[0] = << >>,
               \A q \in 1 .. n : w[q] = next(w[q - 1], q)
        PROVE  w = body(w)
    <3>1. \A q \in 0 .. n : w[q] = body(w)[q]
      <4> TAKE q \in 0 .. n
      <4>1. CASE q = 0
        BY <1>1, <2>2, <4>1
      <4>2. CASE q # 0
        <5>1. q \in 1 .. n
          BY <4>2
        <5>2. body(w)[q] = next(w[q - 1], q)
          BY <1>1, <5>1
        <5> QED  BY <2>2, <5>1, <5>2
      <4> QED  BY <4>1, <4>2
    <3>2. body(w) = [q \in 0 .. n |-> body(w)[q]]
      BY <1>1
    <3> HIDE DEF body
    <3> QED  BY <2>2, <3>1, <3>2
  <2> QED  BY <2>1, <2>2
<1>12. Fixing(gens, beta) = (CHOOSE w : w = body(w))[Len(gens)]
  BY DEF Fixing
<1> HIDE DEF body, next
<1>13. g = body(g)
  <2>1. \A q \in 1 .. n : g[q - 1] \in S[q - 1]
    BY <1>10
  <2> QED  BY <1>8, <1>10, <1>11, <2>1 DEF Iterates
<1>14. PICK w : w = body(w) /\ Fixing(gens, beta) = w[n]
  BY <1>1, <1>12, <1>13
<1>15. \A q \in 1 .. n : w[q - 1] \in S[q - 1] => w[q] \in S[q]
  BY <1>8, <1>11, <1>14
<1>16. w[0] \in S[0]
  BY <1>9, <1>11, <1>14
<1>17. \A q \in 0 .. n : w[q] \in S[q]
  BY <1>15, <1>16, StaysIn
<1>18. w[n] \in A(n)
  BY <1>4, <1>17
<1>19. \A x : x \in Range(gens) <=> \E l \in 1 .. n : gens[l] = x
  BY <1>1, RangeFacts
<1> QED  BY <1>14, <1>18, <1>19 DEF A

------------------------------------------------------------------------------
(* The inductive invariant: besides the types of the arrays (Arrays), what    *)
(* they hold of the call.                                                    *)
(*                                                                           *)
(* The call, and the base: there is always a level left above it.            *)
Called ==
  /\ degree \in 2 .. HOMOS_STRUCTURE_SIZE - 1
  /\ pt \in 0 .. degree - 1
  /\ src \in Seq(Perms(degree) \ {IdPerm(degree)})
  /\ strong_gens[0] = src
  /\ base \in Seq(0 .. degree - 1)
  /\ Len(base) \in 1 .. degree - 1
  /\ base[1] = pt
  /\ \A p, q \in 1 .. Len(base) : base[p] = base[q] => p = q

(* The generators of a level fix the base points below it and are elements   *)
(* of the group of the level below; a level without a base point has none.   *)
Generators ==
  /\ \A l \in 0 .. degree - 1 : strong_gens[l] \in Seq(Perms(degree))
  /\ \A l \in 0 .. Len(base) - 1 : \A x \in Range(strong_gens[l]) :
       \A k \in 1 .. l : x[base[k]] = base[k]
  /\ \A l \in Len(base) .. degree - 1 : strong_gens[l] = << >>
  /\ \A l \in 0 .. degree - 2 : Range(strong_gens[l + 1]) \subseteq LevelGroup(l)

(* A level whose orbit has only its base point; one whose orbit is closed;   *)
(* and one above which there is the whole stabiliser of its base point.      *)
Fresh(l) ==
  /\ orbits[l] = << base[l + 1] >>
  /\ transversal[l][base[l + 1]] = IdPerm(degree)

Complete(l) ==
  /\ Level(l) \in Levs(degree, base[l + 1], LevelGroup(l), Values)
  /\ ClosedTo(Level(l), strong_gens[l], degree)

Done(l) == LevelGroup(l + 1) = { x \in LevelGroup(l) : x[base[l + 1]] = base[l + 1] }

MovesBase(x) == \E k \in 1 .. Len(base) : x[base[k]] # base[k]

InBase ==
  phase = "base" =>
    /\ j \in 1 .. Len(src) + 1
    /\ \A l \in 1 .. degree - 1 : strong_gens[l] = << >>
    /\ \A q \in 1 .. j - 1 : MovesBase(src[q])
    /\ \A l \in 0 .. Len(base) - 1 : Fresh(l)

InLevels ==
  phase = "levels" =>
    /\ i \in 1 .. Len(base) + 1
    /\ \A x \in Range(src) : MovesBase(x)
    /\ \A l \in 0 .. degree - 1 : Range(strong_gens[l]) \subseteq Range(src)
    /\ \A l \in i .. degree - 1 : strong_gens[l] = << >>
    /\ \A l \in 0 .. i - 2 : Complete(l)
    /\ \A l \in i - 1 .. Len(base) - 1 : Fresh(l)

(* The Schreier generators of level i looked at so far are in the group of   *)
(* the next level.                                                           *)
InSift ==
  phase \in {"sift", "done"} =>
    /\ i \in -1 .. Len(base) - 1
    /\ j \in Nat \ {0} /\ m \in Nat \ {0}
    /\ \A l \in 0 .. Len(base) - 1 : Complete(l)
    /\ \A l \in i + 1 .. Len(base) - 1 : Done(l)
    /\ i >= 0 =>
         \A q \in 1 .. Len(orbits[i]) : \A r \in 1 .. Len(strong_gens[i]) :
           q < j \/ (q = j /\ r < m) =>
             SchreierGen(Level(i), orbits[i][q], strong_gens[i][r]) \in LevelGroup(i + 1)
    /\ phase = "done" => i = -1 /\ dst = strong_gens[1]

SchreierInv ==
  /\ Arrays
  /\ phase # "idle" => Called /\ Generators
  /\ InBase /\ InLevels /\ InSift

------------------------------------------------------------------------------
(* Generated groups: a point that all generators fix, more generators, none. *)
LEMMA GeneratedFix ==
  ASSUME NEW n \in Nat, NEW gens \in SUBSET Perms(n), NEW p \in 0 .. n - 1,
         \A x \in gens : x[p] = p
  PROVE  \A x \in Generated(gens, n) : x[p] = p
<1> DEFINE T == { x \in Perms(n) : x[p] = p }
<1>1. IdPerm(n) \in T
  BY IdentityPerm
<1>2. ASSUME NEW x \in T, NEW g \in gens PROVE prod_perms(x, g) \in T
  <2>1. x \in Perms(n) /\ g \in Perms(n) /\ x[p] = p /\ g[p] = p
    OBVIOUS
  <2> QED  BY <2>1, ProdPerms
<1>3. T \in SUBSET Perms(n)
  OBVIOUS
<1>4. Generated(gens, n) \subseteq T
  <2> HIDE DEF T
  <2>1. ClosedUnder(T, gens)
    BY <1>2 DEF ClosedUnder
  <2> QED  BY <1>1, <1>3, <2>1, GeneratedFacts
<1> QED  BY <1>4

LEMMA GeneratedMore ==
  ASSUME NEW n \in Nat, NEW more \in SUBSET Perms(n), NEW gens \in SUBSET more
  PROVE  Generated(gens, n) \subseteq Generated(more, n)
<1>1. gens \in SUBSET Perms(n)
  OBVIOUS
<1>2. IsGroup(Generated(more, n), n) /\ gens \subseteq Generated(more, n)
  BY GeneratedFacts
<1> QED  BY <1>1, <1>2, GeneratedFacts

LEMMA GeneratedNone ==
  ASSUME NEW n \in Nat
  PROVE  Generated({}, n) = {IdPerm(n)}
<1>1. {} \in SUBSET Perms(n) /\ {IdPerm(n)} \in SUBSET Perms(n)
  BY IdentityPerm
<1>2. ClosedUnder({IdPerm(n)}, {})
  BY DEF ClosedUnder
<1>3. Generated({}, n) \subseteq {IdPerm(n)}
  BY <1>1, <1>2, GeneratedFacts
<1>4. IdPerm(n) \in Generated({}, n)
  BY <1>1, GeneratedFacts DEF IsGroup
<1> QED  BY <1>3, <1>4

(* The groups of the levels get smaller from level to level, and fix the     *)
(* base points of the levels below.                                          *)
LEMMA LevelGroups ==
  ASSUME Called, Generators
  PROVE  /\ \A l \in 0 .. degree - 1 :
              /\ Range(strong_gens[l]) \in SUBSET Perms(degree)
              /\ IsGroup(LevelGroup(l), degree)
              /\ Range(strong_gens[l]) \subseteq LevelGroup(l)
         /\ \A k, l \in 0 .. degree - 1 : k <= l => LevelGroup(l) \subseteq LevelGroup(k)
         /\ \A l \in 0 .. degree - 1 : \A x \in LevelGroup(l) :
              \A k \in 1 .. Len(base) : k <= l => x[base[k]] = base[k]
         /\ \A l \in Len(base) .. degree - 1 : LevelGroup(l) = {IdPerm(degree)}
<1>1. PICK n \in Nat : n = degree
  BY SizeAssumption DEF Called
<1>2. n \in 2 .. HOMOS_STRUCTURE_SIZE - 1 /\ Len(base) \in 1 .. n - 1
  BY <1>1 DEF Called
<1>3. \A l \in 0 .. n - 1 :
        /\ Range(strong_gens[l]) \in SUBSET Perms(n)
        /\ IsGroup(LevelGroup(l), n)
        /\ Range(strong_gens[l]) \subseteq LevelGroup(l)
  <2> TAKE l \in 0 .. n - 1
  <2>1. PICK P : P = Perms(n)
    OBVIOUS
  <2>2. PICK s \in Seq(P) : s = strong_gens[l]
    BY <1>1, <2>1 DEF Generators
  <2>3. Range(s) \subseteq P
    BY RangeFacts
  <2>4. PICK R \in SUBSET Perms(n) : R = Range(strong_gens[l])
    BY <2>1, <2>2, <2>3
  <2>5. LevelGroup(l) = Generated(R, n)
    BY <1>1, <2>4 DEF LevelGroup
  <2> QED  BY <2>4, <2>5, GeneratedFacts
<1>4. \A l \in 0 .. n - 2 : LevelGroup(l + 1) \subseteq LevelGroup(l)
  <2> TAKE l \in 0 .. n - 2
  <2>1. l \in 0 .. n - 1 /\ l + 1 \in 0 .. n - 1
    BY <1>2
  <2>2. Range(strong_gens[l + 1]) \subseteq LevelGroup(l)
    BY <1>1 DEF Generators
  <2>3. PICK R \in SUBSET Perms(n) : R = Range(strong_gens[l + 1])
    BY <1>3, <2>1
  <2>4. PICK H : H = LevelGroup(l)
    OBVIOUS
  <2>5. LevelGroup(l + 1) = Generated(R, n)
    BY <1>1, <2>3 DEF LevelGroup
  <2>6. Generated(R, n) \subseteq H
    BY <1>3, <2>1, <2>2, <2>3, <2>4, GeneratedFacts
  <2> QED  BY <2>4, <2>5, <2>6
<1>5. \A k, l \in 0 .. n - 1 : k <= l => LevelGroup(l) \subseteq LevelGroup(k)
  <2> DEFINE T == { d \in Nat : \A k \in 0 .. n - 1 : k + d <= n - 1 =>
                      LevelGroup(k + d) \subseteq LevelGroup(k) }
  <2>1. 0 \in T
    OBVIOUS
  <2>2. ASSUME NEW d \in T PROVE d + 1 \in T
    <3> SUFFICES ASSUME NEW k \in 0 .. n - 1, k + (d + 1) <= n - 1
                 PROVE  LevelGroup(k + (d + 1)) \subseteq LevelGroup(k)
      OBVIOUS
    <3>1. d \in Nat /\ k + d \in 0 .. n - 2 /\ k + d <= n - 1 /\ k + (d + 1) = (k + d) + 1
      OBVIOUS
    <3>2. LevelGroup(k + d) \subseteq LevelGroup(k)
      BY <3>1
    <3>3. LevelGroup((k + d) + 1) \subseteq LevelGroup(k + d)
      BY <1>4, <3>1
    <3> QED  BY <3>1, <3>2, <3>3
  <2>3. T \in SUBSET Nat
    OBVIOUS
  <2>4. T = Nat
    <3> HIDE DEF T
    <3> QED  BY <2>1, <2>2, <2>3, Induction
  <2> SUFFICES ASSUME NEW k \in 0 .. n - 1, NEW l \in 0 .. n - 1, k <= l
               PROVE  LevelGroup(l) \subseteq LevelGroup(k)
    OBVIOUS
  <2>5. PICK d \in Nat : l = k + d
    <3>1. l - k \in Nat /\ l = k + (l - k)
      OBVIOUS
    <3> QED  BY <3>1
  <2>6. d \in T
    <3> HIDE DEF T
    <3> QED  BY <2>4
  <2>7. k + d <= n - 1
    BY <2>5
  <2> QED  BY <2>5, <2>6, <2>7
<1>6. \A l \in Len(base) .. n - 1 : LevelGroup(l) = {IdPerm(n)}
  <2> TAKE l \in Len(base) .. n - 1
  <2>1. strong_gens[l] = << >>
    BY <1>1 DEF Generators
  <2>2. Range(<< >>) = {}
    BY DEF Range
  <2> QED  BY <1>1, <2>1, <2>2, GeneratedNone DEF LevelGroup
<1>7. ASSUME NEW l \in 0 .. n - 1, NEW x \in LevelGroup(l), NEW k \in 1 .. Len(base), k <= l
      PROVE  x[base[k]] = base[k]
  <2>1. PICK p \in 0 .. n - 1 : p = base[k]
    <3>1. base \in Seq(0 .. n - 1)
      BY <1>1 DEF Called
    <3> QED  BY <3>1, ElementOfSeq
  <2>2. CASE l < Len(base)
    <3>1. l \in 0 .. Len(base) - 1 /\ k \in 1 .. l
      BY <1>2, <1>7, <2>2
    <3>2. \A g \in Range(strong_gens[l]) : g[p] = p
      BY <2>1, <3>1 DEF Generators
    <3>3. PICK R \in SUBSET Perms(n) : R = Range(strong_gens[l])
      BY <1>3
    <3>4. x \in Generated(R, n)
      BY <1>1, <3>3 DEF LevelGroup
    <3> QED  BY <2>1, <3>2, <3>3, <3>4, GeneratedFix
  <2>3. CASE ~ (l < Len(base))
    <3>1. l \in Len(base) .. n - 1
      BY <1>2, <2>3
    <3>2. x = IdPerm(n)
      BY <1>6, <3>1
    <3> QED  BY <2>1, <3>2, IdentityPerm
  <2> QED  BY <2>2, <2>3
<1> QED  BY <1>1, <1>3, <1>5, <1>6, <1>7

(* The orbit and the transversal of a complete level.                        *)
LEMMA CompleteFacts ==
  ASSUME NEW l, Complete(l)
  PROVE  /\ orbits[l] \in Seq(0 .. degree - 1)
         /\ Points(orbits[l]) \subseteq 0 .. degree - 1
         /\ base[l + 1] \in Points(orbits[l])
         /\ transversal[l][base[l + 1]] = IdPerm(degree)
         /\ \A p \in Points(orbits[l]) :
              transversal[l][p] \in LevelGroup(l) /\ transversal[l][p][base[l + 1]] = p
         /\ \A p : p \in Points(orbits[l]) <=> \E q \in 1 .. Len(orbits[l]) : orbits[l][q] = p
<1>1. PICK v : v = Level(l)
  OBVIOUS
<1>2. v.orbit = orbits[l] /\ v.trans = transversal[l]
  BY <1>1 DEF Level
<1>3. v \in Levs(degree, base[l + 1], LevelGroup(l), Values)
  BY <1>1 DEF Complete
<1>4. PICK n, b, G, V : n = degree /\ b = base[l + 1] /\ G = LevelGroup(l) /\ V = Values
  OBVIOUS
<1>5. v \in Levs(n, b, G, V)
  BY <1>3, <1>4
<1>6. /\ v.orbit \in Seq(0 .. n - 1) /\ Points(v.orbit) \subseteq 0 .. n - 1
      /\ b \in Points(v.orbit) /\ v.trans[b] = IdPerm(n)
      /\ \A p \in Points(v.orbit) : v.trans[p] \in G /\ v.trans[p][b] = p
      /\ \A p : p \in Points(v.orbit) <=> \E q \in 1 .. Len(v.orbit) : v.orbit[q] = p
  <2>1. PICK s \in Levs(n, b, G, V) : s = v
    BY <1>5
  <2>2. s.orbit \in Seq(0 .. n - 1) /\ Points(s.orbit) \subseteq 0 .. n - 1
    BY LevFacts
  <2>3. b \in Points(s.orbit) /\ s.trans[b] = IdPerm(n)
    BY LevFacts
  <2>4. \A p \in Points(s.orbit) : s.trans[p] \in G /\ s.trans[p][b] = p
    BY LevFacts
  <2>5. \A p : p \in Points(s.orbit) <=> \E q \in 1 .. Len(s.orbit) : s.orbit[q] = p
    BY LevFacts
  <2> QED  BY <2>1, <2>2, <2>3, <2>4, <2>5
<1> QED  BY <1>2, <1>4, <1>6

(* What is left of a permutation that fixes the base points up to that of    *)
(* level c: it fixes those of all levels it passed, it differs from the      *)
(* permutation by an element of the group of the level after c, and if it    *)
(* stuck, then at a base point that it takes out of the orbit.               *)
Residue(c, g, s) ==
  /\ s.perm \in Perms(degree)
  /\ s.depth \in c + 1 .. Len(base)
  /\ \A k \in 1 .. s.depth : s.perm[base[k]] = base[k]
  /\ \E h \in LevelGroup(c + 1) : g = prod_perms(s.perm, h)
  /\ s.depth < Len(base) => s.perm[base[s.depth + 1]] \notin Points(orbits[s.depth])

LEMMA SiftFacts ==
  ASSUME Called, Generators, \A l \in 0 .. Len(base) - 1 : Complete(l),
         NEW c \in 0 .. Len(base) - 1, NEW g \in Perms(degree),
         \A k \in 1 .. c + 1 : g[base[k]] = base[k]
  PROVE  Residue(c, g, sift_ss(g))
<1> DEFINE next(s, l) ==
             IF s.depth < l - 1 \/ s.perm[base[l]] \notin Points(orbits[l - 1]) THEN s
             ELSE [perm  |-> prod_perms(s.perm,
                                        invert_perm(transversal[l - 1][s.perm[base[l]]])),
                   depth |-> l]
           start == [perm |-> g, depth |-> 0]
           body(w) == [l \in 0 .. Len(base) |->
                         IF l = 0 THEN [perm |-> g, depth |-> 0]
                         ELSE LET s == w[l - 1]
                                  beta == s.perm[base[l]]
                              IN  IF s.depth < l - 1 \/ beta \notin Points(orbits[l - 1]) THEN s
                                  ELSE [perm  |-> prod_perms(s.perm,
                                                    invert_perm(transversal[l - 1][beta])),
                                        depth |-> l]]
           R == [perm : Perms(degree), depth : Nat]
           B(s, l) ==
             /\ s.depth <= l /\ (l >= c + 1 => s.depth >= c + 1)
             /\ \A k \in 1 .. Len(base) : k <= s.depth \/ k <= c + 1 => s.perm[base[k]] = base[k]
             /\ \E h \in LevelGroup(c + 1) : g = prod_perms(s.perm, h)
             /\ l <= c + 1 => s.perm = g /\ s.depth = l
             /\ s.depth < l => s.perm[base[s.depth + 1]] \notin Points(orbits[s.depth])
           A(l) == { s \in R : B(s, l) }
<1>1. PICK n \in Nat : n = degree
  BY SizeAssumption DEF Called
<1>2. PICK d \in Nat : d = Len(base) /\ d <= n - 1 /\ c + 1 <= d /\ c \in Nat
  BY <1>1 DEF Called
<1>3. PICK S : S = [l \in 0 .. d |-> A(l)]
  OBVIOUS
<1>4. PICK step : step = [z \in R \X (1 .. d) |-> next(z[1], z[2])]
  OBVIOUS
<1>5. \A l \in 0 .. d : S[l] = A(l)
  BY <1>3
<1>6. /\ \A l \in 0 .. n - 1 : IsGroup(LevelGroup(l), n)
      /\ \A k, l \in 0 .. n - 1 : k <= l => LevelGroup(l) \subseteq LevelGroup(k)
      /\ \A l \in 0 .. n - 1 : \A x \in LevelGroup(l) :
           \A k \in 1 .. d : k <= l => x[base[k]] = base[k]
  BY <1>1, <1>2, LevelGroups
<1>7. \A k \in 1 .. d : base[k] \in 0 .. n - 1
  <2>1. base \in Seq(0 .. n - 1)
    BY <1>1 DEF Called
  <2> QED  BY <1>2, <2>1, ElementOfSeq
<1>8. \A l \in 0 .. d - 1 :
        /\ base[l + 1] \in Points(orbits[l])
        /\ transversal[l][base[l + 1]] = IdPerm(n)
        /\ \A p \in Points(orbits[l]) :
             transversal[l][p] \in LevelGroup(l) /\ transversal[l][p][base[l + 1]] = p
  BY <1>1, <1>2, CompleteFacts
<1>9. \A x \in Perms(n) : prod_perms(x, IdPerm(n)) = x /\ prod_perms(x, invert_perm(IdPerm(n))) = x
  <2> TAKE x \in Perms(n)
  <2>1. PICK e \in Perms(n) : e = IdPerm(n)
    BY IdentityPerm
  <2>2. PICK f \in Perms(n) : f = invert_perm(e)
    BY InvertPerm
  <2>3. prod_perms(e, f) = e /\ prod_perms(e, f) = f
    BY <2>1, <2>2, ProdInverse, ProdIdentity
  <2> QED  BY <2>1, <2>2, <2>3, ProdIdentity
<1>10. start \in A(0)
  <2>1. start.perm = g /\ start.depth = 0 /\ start \in R
    BY <1>1
  <2>2. \A k \in 1 .. Len(base) : k <= 0 \/ k <= c + 1 => g[base[k]] = base[k]
    BY <1>2
  <2>3. c + 1 \in 0 .. n - 1
    BY <1>2
  <2>4. IdPerm(n) \in LevelGroup(c + 1) /\ g = prod_perms(g, IdPerm(n))
    BY <1>1, <1>6, <1>9, <2>3 DEF IsGroup
  <2> HIDE DEF start
  <2>5. B(start, 0)
    BY <1>2, <2>1, <2>2, <2>4
  <2> HIDE DEF B
  <2> QED  BY <2>1, <2>5
<1>11. ASSUME NEW l \in 1 .. d, NEW s \in A(l - 1) PROVE next(s, l) \in A(l)
  <2>1. s \in R /\ B(s, l - 1)
    OBVIOUS
  <2>2. s.perm \in Perms(n) /\ s.depth \in Nat /\ l \in Nat /\ l - 1 \in 0 .. d - 1
    BY <1>1, <2>1
  <2>3. CASE s.depth < l - 1
    <3>1. next(s, l) = s
      BY <2>3
    <3>2. B(s, l)
      BY <1>2, <2>1, <2>2, <2>3
    <3> HIDE DEF next, B, R
    <3> QED  BY <2>1, <3>1, <3>2
  <2>4. CASE ~ (s.depth < l - 1) /\ s.perm[base[l]] \notin Points(orbits[l - 1])
    <3>1. next(s, l) = s
      BY <2>4
    <3>2. s.depth = l - 1 /\ s.depth + 1 = l
      <4>1. s.depth <= l - 1
        BY <2>1
      <4>2. ~ (s.depth < l - 1) /\ s.depth \in Nat /\ l \in Nat
        BY <2>2, <2>4
      <4> HIDE DEF next, B, R
      <4> QED  BY <4>1, <4>2
    <3>3. ~ (l <= c + 1)
      <4> SUFFICES ASSUME l <= c + 1 PROVE FALSE
        OBVIOUS
      <4>1. l \in 1 .. Len(base) /\ s.perm[base[l]] = base[l]
        BY <1>2, <2>1, <2>2
      <4>2. base[(l - 1) + 1] \in Points(orbits[l - 1]) /\ (l - 1) + 1 = l
        BY <1>8, <2>2
      <4> QED  BY <2>4, <4>1, <4>2
    <3>4. B(s, l)
      BY <1>2, <2>1, <2>2, <2>4, <3>2, <3>3
    <3> HIDE DEF next, B, R
    <3> QED  BY <2>1, <3>1, <3>4
  <2>5. CASE ~ (s.depth < l - 1) /\ s.perm[base[l]] \in Points(orbits[l - 1])
    <3>1. s.depth = l - 1
      BY <2>1, <2>2, <2>5
    <3>2. PICK x \in Perms(n) : x = s.perm
      BY <2>2
    <3>3. PICK beta \in Points(orbits[l - 1]) : beta = x[base[l]]
      BY <2>5, <3>2
    <3>4. PICK t \in LevelGroup(l - 1) : t = transversal[l - 1][beta] /\ t[base[l]] = beta
      BY <1>8, <2>2
    <3>5. t \in Perms(n) /\ l - 1 \in 0 .. n - 1
      BY <1>2, <1>6, <2>2 DEF IsGroup
    <3>6. PICK u \in Perms(n) : u = invert_perm(t)
      BY <3>5, InvertPerm
    <3>7. PICK y \in Perms(n) : y = prod_perms(x, u)
      BY ProdPerms
    <3>8. PICK r : r = [perm |-> y, depth |-> l]
      OBVIOUS
    <3>9. next(s, l) = r
      BY <2>5, <3>2, <3>3, <3>4, <3>6, <3>7, <3>8
    <3>10. r \in R /\ r.perm = y /\ r.depth = l
      BY <1>1, <2>2, <3>8
    <3>11. CASE l <= c + 1
      <4>1. x[base[l]] = base[l] /\ x = g
        BY <1>2, <2>1, <2>2, <3>2, <3>11
      <4>2. t = IdPerm(n)
        <5>1. (l - 1) + 1 = l
          BY <2>2
        <5> QED  BY <1>8, <2>2, <3>3, <3>4, <4>1, <5>1
      <4>3. y = x
        BY <1>9, <3>6, <3>7, <4>2
      <4>4. \E h \in LevelGroup(c + 1) : g = prod_perms(x, h)
        BY <2>1, <3>2
      <4>5. \A k \in 1 .. Len(base) : k <= l \/ k <= c + 1 => x[base[k]] = base[k]
        BY <1>2, <2>2, <3>11, <4>1
      <4>6. B(r, l)
        BY <1>2, <2>2, <3>10, <3>11, <4>1, <4>3, <4>4, <4>5
      <4> HIDE DEF next, B, R
      <4> QED  BY <3>9, <3>10, <4>6
    <3>12. CASE ~ (l <= c + 1)
      <4>1. l - 1 >= c + 1 /\ c + 1 \in 0 .. n - 1
        BY <1>2, <2>2, <3>12
      <4>2. t \in LevelGroup(c + 1)
        BY <1>6, <3>5, <4>1
      <4>3. PICK h \in LevelGroup(c + 1) : g = prod_perms(x, h)
        BY <2>1, <3>2
      <4>4. h \in Perms(n)
        BY <1>6, <4>1 DEF IsGroup
      <4>5. PICK z \in LevelGroup(c + 1) : z = prod_perms(t, h)
        BY <1>6, <4>1, <4>2 DEF IsGroup
      <4>6. g = prod_perms(y, z)
        <5>1. prod_perms(y, z) = prod_perms(prod_perms(y, t), h)
          BY <3>5, <4>4, <4>5, ProdAssociative
        <5>2. prod_perms(y, t) = prod_perms(x, prod_perms(u, t))
          BY <3>5, <3>7, ProdAssociative
        <5>3. prod_perms(u, t) = IdPerm(n)
          BY <3>5, <3>6, ProdInverse
        <5> QED  BY <1>9, <4>3, <5>1, <5>2, <5>3
      <4>7. ASSUME NEW k \in 1 .. Len(base), k <= l PROVE y[base[k]] = base[k]
        <5>1. PICK p \in 0 .. n - 1 : p = base[k]
          BY <1>2, <1>7
        <5>2. y[p] = u[x[p]]
          BY <3>7, <5>1, ProdPerms
        <5>3. u[t[p]] = p
          BY <3>5, <3>6, <5>1, InvertPerm
        <5>4. CASE k = l
          BY <3>3, <3>4, <5>1, <5>2, <5>3, <5>4
        <5>5. CASE k # l
          <6>1. k <= l - 1
            BY <2>2, <4>7, <5>5
          <6>2. x[p] = p
            BY <2>1, <3>1, <3>2, <5>1, <6>1
          <6>3. t[p] = p
            BY <1>2, <1>6, <3>5, <5>1, <6>1
          <6> QED  BY <5>1, <5>2, <5>3, <6>2, <6>3
        <5> QED  BY <5>4, <5>5
      <4>8. \A k \in 1 .. Len(base) : k <= l \/ k <= c + 1 => y[base[k]] = base[k]
        BY <1>2, <2>2, <4>1, <4>7
      <4>9. B(r, l)
        BY <1>2, <2>2, <3>10, <3>12, <4>1, <4>6, <4>8
      <4> HIDE DEF next, B, R
      <4> QED  BY <3>9, <3>10, <4>9
    <3> QED  BY <3>11, <3>12
  <2> QED  BY <2>3, <2>4, <2>5
<1>12. \A l \in 0 .. d : A(l) \subseteq R
  OBVIOUS
<1> HIDE DEF A
<1>13. \A l \in 1 .. d : \A s \in S[l - 1] : step[<< s, l >>] = next(s, l) /\ next(s, l) \in S[l]
  <2> TAKE l \in 1 .. d
  <2> TAKE s \in S[l - 1]
  <2>1. l \in 0 .. d /\ l - 1 \in 0 .. d
    OBVIOUS
  <2>2. s \in A(l - 1)
    BY <1>5, <2>1
  <2>3. << s, l >> \in R \X (1 .. d)
    BY <1>12, <2>1, <2>2
  <2> HIDE DEF next, R
  <2>4. step[<< s, l >>] = next(s, l)
    BY <1>4, <2>3
  <2>5. next(s, l) \in S[l]
    BY <1>5, <1>11, <2>1, <2>2
  <2> QED  BY <2>4, <2>5
<1>14. start \in S[0]
  BY <1>5, <1>10
<1>15. PICK f : Iterates(f, start, d, step) /\ \A l \in 0 .. d : f[l] \in S[l]
  <2>1. PICK e \in S[0] : e = start
    BY <1>14
  <2>2. \A l \in 1 .. d : \A s \in S[l - 1] : step[<< s, l >>] \in S[l]
    BY <1>13
  <2>3. \E f : Iterates(f, e, d, step) /\ \A l \in 0 .. d : f[l] \in S[l]
    BY <2>2, Recursion
  <2> QED  BY <2>1, <2>3
<1>16. \A w : w = body(w) <=>
                /\ w = [l \in 0 .. d |-> w[l]] /\ w[0] = start
                /\ \A l \in 1 .. d : w[l] = next(w[l - 1], l)
  <2> TAKE w
  <2>1. ASSUME w = body(w)
        PROVE  /\ w = [l \in 0 .. d |-> w[l]] /\ w[0] = start
               /\ \A l \in 1 .. d : w[l] = next(w[l - 1], l)
    <3>1. w = [l \in 0 .. d |-> w[l]]
      BY <1>2, <2>1
    <3>2. \A l \in 0 .. d : w[l] = body(w)[l]
      BY <2>1
    <3>3. w[0] = start
      <4>1. body(w)[0] = start
        BY <1>2
      <4>2. 0 \in 0 .. d
        OBVIOUS
      <4> HIDE DEF body, start
      <4> QED  BY <3>2, <4>1, <4>2
    <3>4. \A l \in 1 .. d : body(w)[l] = next(w[l - 1], l)
      BY <1>2
    <3>5. \A l \in 1 .. d : l \in 0 .. d
      OBVIOUS
    <3> HIDE DEF next, body, start
    <3> QED  BY <3>1, <3>2, <3>3, <3>4, <3>5
  <2>2. ASSUME w = [l \in 0 .. d |-> w[l]], w[0] = start,
               \A l \in 1 .. d : w[l] = next(w[l - 1], l)
        PROVE  w = body(w)
    <3>1. \A l \in 0 .. d : w[l] = body(w)[l]
      <4> TAKE l \in 0 .. d
      <4>1. CASE l = 0
        BY <1>2, <2>2, <4>1
      <4>2. CASE l # 0
        <5>1. l \in 1 .. d
          BY <4>2
        <5>2. body(w)[l] = next(w[l - 1], l)
          BY <1>2, <5>1
        <5> QED  BY <2>2, <5>1, <5>2
      <4> QED  BY <4>1, <4>2
    <3>2. body(w) = [l \in 0 .. d |-> body(w)[l]]
      BY <1>2
    <3> HIDE DEF body
    <3> QED  BY <2>2, <3>1, <3>2
  <2> QED  BY <2>1, <2>2
<1>17. sift_ss(g) = (CHOOSE w : w = body(w))[Len(base)]
  BY DEF sift_ss
<1> HIDE DEF body, next, start
<1>18. f = body(f)
  <2>1. \A l \in 1 .. d : f[l - 1] \in S[l - 1]
    BY <1>15
  <2> QED  BY <1>13, <1>15, <1>16, <2>1 DEF Iterates
<1>19. PICK w : w = body(w) /\ sift_ss(g) = w[d]
  BY <1>2, <1>17, <1>18
<1>20. \A l \in 1 .. d : w[l - 1] \in S[l - 1] => w[l] \in S[l]
  BY <1>13, <1>16, <1>19
<1>21. w[0] \in S[0]
  BY <1>14, <1>16, <1>19
<1>22. \A l \in 0 .. d : w[l] \in S[l]
  BY <1>20, <1>21, StaysIn
<1>23. PICK s \in A(d) : s = sift_ss(g)
  BY <1>5, <1>19, <1>22
<1>24. s \in R /\ B(s, d)
  BY DEF A
<1> QED  BY <1>2, <1>23, <1>24 DEF Residue

------------------------------------------------------------------------------
(* Sequences of one element, and of none.                                    *)
LEMMA OneElement ==
  ASSUME NEW P, NEW x \in P
  PROVE  << x >> \in Seq(P) /\ Len(<< x >>) = 1 /\ << x >>[1] = x /\ Range(<< x >>) = {x}
<1>1. << x >> \in Seq(P) /\ Len(<< x >>) = 1 /\ << x >>[1] = x
  OBVIOUS
<1>2. PICK s \in Seq(P) : s = << x >>
  BY <1>1
<1>3. Range(s) = { s[q] : q \in 1 .. Len(s) }
  BY RangeFacts
<1>4. \A q : q \in 1 .. Len(s) <=> q = 1
  BY <1>1, <1>2
<1>5. Range(s) = {x}
  BY <1>1, <1>2, <1>3, <1>4
<1> QED  BY <1>1, <1>2, <1>5

LEMMA NoElement ==
  ASSUME NEW P
  PROVE  << >> \in Seq(P) /\ Len(<< >>) = 0 /\ Range(<< >>) = {}
BY EmptySeq DEF Range

(* A level of one point, and a level in a larger group.                      *)
LEMMA OnePoint ==
  ASSUME NEW n, NEW b \in 0 .. n - 1, NEW G, IsGroup(G, n), n \in Nat, NEW values,
         NEW t \in [Levels -> values], t[b] = IdPerm(n), NEW v,
         v = [orbit |-> << b >>, trans |-> t]
  PROVE  v \in Levs(n, b, G, values)
<1>1. PICK P : P = 0 .. n - 1
  OBVIOUS
<1>2. PICK s \in Seq(P) : s = << b >>
  BY <1>1, OneElement
<1>3. Len(s) = 1 /\ Points(s) = {b}
  BY <1>1, <1>2, OneElement DEF Points
<1>4. v.orbit = s /\ v.trans = t
  BY <1>2
<1>5. v \in [ orbit : Seq(0 .. n - 1), trans : [Levels -> values] ]
  BY <1>1, <1>2
<1>6. \A p, q \in 1 .. Len(s) : s[p] = s[q] => p = q
  BY <1>3
<1>7. IdPerm(n) \in G /\ IdPerm(n)[b] = b
  BY IdentityPerm DEF IsGroup
<1>8. \A p \in Points(s) : t[p] \in G /\ t[p][b] = p
  BY <1>3, <1>7
<1> QED  BY <1>3, <1>4, <1>5, <1>6, <1>8 DEF Levs

LEMMA LargerGroup ==
  ASSUME NEW n, NEW b, NEW G, NEW H, G \subseteq H, NEW values, NEW v \in Levs(n, b, G, values)
  PROVE  v \in Levs(n, b, H, values)
<1>1. v \in [ orbit : Seq(0 .. n - 1), trans : [Levels -> values] ]
  BY DEF Levs
<1> QED  BY <1>1 DEF Levs

LEMMA LevLength ==
  ASSUME NEW n \in Nat, NEW b, NEW G, NEW values, NEW v \in Levs(n, b, G, values)
  PROVE  Len(v.orbit) \in Nat /\ Len(v.orbit) <= n
<1>1. PICK P : P = 0 .. n - 1
  OBVIOUS
<1>2. PICK s \in Seq(P) : s = v.orbit
  BY <1>1, LevFacts
<1>3. Len(s) \in Nat /\ \A p, q \in 1 .. Len(s) : s[p] = s[q] => p = q
  BY <1>2, LevFacts
<1>4. IsFiniteSet(P) /\ Cardinality(P) = n
  <2>1. 0 \in Int /\ n - 1 \in Int
    OBVIOUS
  <2>2. /\ IsFiniteSet(0 .. n - 1)
        /\ Cardinality(0 .. n - 1) = IF 0 > n - 1 THEN 0 ELSE (n - 1) - 0 + 1
    BY <2>1, FS_Interval
  <2> QED  BY <1>1, <2>2
<1> QED  BY <1>2, <1>3, <1>4, DifferentPoints

(* A generator more on a complete level.                                     *)
LEMMA AddGenFacts ==
  ASSUME NEW b, NEW G, NEW values, Setting(degree, b, G, values),
         NEW v \in Levs(degree, b, G, values), NEW old \in Seq(G), NEW x \in G,
         ClosedTo(v, old, degree), NEW gens, gens = Append(old, x)
  PROVE  /\ add_gen_orbit_ss(v, x, gens) \in Levs(degree, b, G, values)
         /\ ClosedTo(add_gen_orbit_ss(v, x, gens), gens, degree)
<1>1. PICK n \in Nat : n = degree
  BY DEF Setting
<1>2. PICK d \in Nat : d = Len(v.orbit) /\ d <= n
  BY <1>1, LevLength
<1>3. PICK r \in Levs(n, b, G, values) : r = ReachFrom(v, x)
  BY <1>1, ReachFromFacts
<1>4. Extended(v, r) /\ \A q \in 1 .. Len(v.orbit) : x[v.orbit[q]] \in Points(r.orbit)
  BY <1>1, <1>3, ReachFromFacts
<1>5. Points(v.orbit) \subseteq Points(r.orbit)
  BY <1>1, <1>3, <1>4, ExtendedFacts
<1>6. /\ gens \in Seq(G) /\ Len(old) \in Nat /\ Len(gens) = Len(old) + 1
      /\ gens[Len(old) + 1] = x /\ \A q \in 1 .. Len(old) : gens[q] = old[q]
  BY AppendFacts
<1>7. ClosedTo(r, gens, d)
  <2> SUFFICES ASSUME NEW q \in 1 .. Len(r.orbit), q <= d, NEW l \in 1 .. Len(gens)
               PROVE  gens[l][r.orbit[q]] \in Points(r.orbit)
    BY DEF ClosedTo
  <2>1. Len(r.orbit) \in Nat
    BY LevFacts
  <2>2. q \in 1 .. Len(v.orbit) /\ q <= n /\ r.orbit[q] = v.orbit[q]
    BY <1>2, <1>4, <2>1 DEF Extended
  <2>3. CASE l \in 1 .. Len(old)
    <3>1. old[l][v.orbit[q]] \in Points(v.orbit)
      BY <1>1, <2>2, <2>3 DEF ClosedTo
    <3> QED  BY <1>5, <1>6, <2>2, <2>3, <3>1
  <2>4. CASE l = Len(old) + 1
    BY <1>4, <1>6, <2>2, <2>4
  <2> QED  BY <1>6, <2>3, <2>4
<1>8. PICK from \in Nat \ {0} : from = d + 1
  OBVIOUS
<1>9. ClosedTo(r, gens, from - 1)
  BY <1>7, <1>8
<1>10. /\ Spread(r, from, gens) \in Levs(degree, b, G, values)
       /\ ClosedTo(Spread(r, from, gens), gens, degree)
  BY <1>1, <1>3, <1>6, <1>9, SpreadFacts
<1>11. add_gen_orbit_ss(v, x, gens) = Spread(r, from, gens)
  BY <1>2, <1>3, <1>8 DEF add_gen_orbit_ss
<1> QED  BY <1>10, <1>11

(* The least point that is moved is moved.                                   *)
LEMMA MinMoved ==
  ASSUME NEW n \in Nat, NEW x \in Perms(n)
  PROVE  /\ Moved(x) = { k \in 0 .. n - 1 : x[k] # k }
         /\ Moved(x) = {} <=> x = IdPerm(n)
         /\ Moved(x) # {} => Min(Moved(x)) \in Moved(x)
<1>1. x \in [0 .. n - 1 -> 0 .. n - 1]
  BY PermDef
<1>2. Moved(x) = { k \in 0 .. n - 1 : x[k] # k }
  BY <1>1 DEF Moved
<1>3. Moved(x) = {} <=> x = IdPerm(n)
  <2>1. ASSUME Moved(x) = {} PROVE x = IdPerm(n)
    BY <1>2, <2>1, IdentityPerm, SamePerm
  <2>2. ASSUME x = IdPerm(n) PROVE Moved(x) = {}
    BY <1>2, <2>2, IdentityPerm
  <2> QED  BY <2>1, <2>2
<1>4. ASSUME Moved(x) # {} PROVE Min(Moved(x)) \in Moved(x)
  <2>1. Moved(x) \in SUBSET Nat
    BY <1>2
  <2>2. \E p \in Moved(x) : \A q \in Moved(x) : p <= q
    BY <1>4, <2>1, LeastNatural
  <2> QED  BY <2>2 DEF Min
<1> QED  BY <1>2, <1>3, <1>4

------------------------------------------------------------------------------
(* The invariant at the start, and in a step that leaves all as it is.       *)
LEMMA PermsOfAll ==
  ASSUME NEW n \in 0 .. HOMOS_STRUCTURE_SIZE
  PROVE  Perms(n) \subseteq AnyPerms /\ Perms(n) \subseteq Values
BY SizeAssumption DEF AnyPerms, Values

LEMMA InitSchreier == Init => SchreierInv
<1> SUFFICES ASSUME Init PROVE SchreierInv
  OBVIOUS
<1>1. << >> \in Seq(AnyPerms) /\ << >> \in Seq(Levels) /\ None \in Values
  BY NoElement DEF Values
<1>2. Arrays
  BY <1>1 DEF Init, Arrays
<1>3. phase = "idle"
  BY DEF Init
<1> QED  BY <1>2, <1>3 DEF SchreierInv, InBase, InLevels, InSift

(* The parts that speak of the chain and the call only.                      *)
LEMMA ChainKept ==
  ASSUME UNCHANGED << strong_gens, transversal, orbits, base, degree, src, pt >>
  PROVE  /\ Called => Called'
         /\ Generators => Generators'
         /\ \A l : Complete(l) => Complete(l)'
         /\ \A l : Fresh(l) => Fresh(l)'
         /\ \A l : Done(l) => Done(l)'
         /\ \A x : MovesBase(x) => MovesBase(x)'
         /\ \A l : LevelGroup(l)' = LevelGroup(l) /\ Level(l)' = Level(l)
<1>1. \A l : LevelGroup(l)' = LevelGroup(l) /\ Level(l)' = Level(l)
  BY DEF LevelGroup, Level
<1>2. Called => Called'
  BY DEF Called
<1>3. Generators => Generators'
  BY <1>1 DEF Generators
<1>4. \A l : Complete(l) => Complete(l)'
  BY <1>1 DEF Complete
<1>5. \A l : Fresh(l) => Fresh(l)'
  BY DEF Fresh
<1>6. \A l : Done(l) => Done(l)'
  BY <1>1 DEF Done
<1>7. \A x : MovesBase(x) => MovesBase(x)'
  BY DEF MovesBase
<1> QED  BY <1>1, <1>2, <1>3, <1>4, <1>5, <1>6, <1>7

LEMMA StutterSchreier ==
  ASSUME SchreierInv, UNCHANGED vars
  PROVE  SchreierInv'
<1>1. UNCHANGED << strong_gens, transversal, orbits, base, degree, src, pt >>
  BY DEF vars, chain
<1>2. /\ Called => Called'
      /\ Generators => Generators'
      /\ \A l : Complete(l) => Complete(l)'
      /\ \A l : Fresh(l) => Fresh(l)'
      /\ \A l : Done(l) => Done(l)'
      /\ \A x : MovesBase(x) => MovesBase(x)'
      /\ \A l : LevelGroup(l)' = LevelGroup(l) /\ Level(l)' = Level(l)
  BY <1>1, ChainKept
<1>3. UNCHANGED << phase, i, j, m, dst >>
  BY DEF vars
<1>4. Arrays'
  BY <1>1, <1>3 DEF SchreierInv, Arrays
<1>5. phase' # "idle" => Called' /\ Generators'
  BY <1>2, <1>3 DEF SchreierInv
<1>6. InBase'
  BY <1>1, <1>2, <1>3 DEF SchreierInv, InBase
<1>7. InLevels'
  BY <1>1, <1>2, <1>3 DEF SchreierInv, InLevels
<1>8. InSift'
  BY <1>1, <1>2, <1>3 DEF SchreierInv, InSift
<1> QED  BY <1>4, <1>5, <1>6, <1>7, <1>8 DEF SchreierInv

(* A call begins, whatever the arrays held.                                  *)
LEMMA CallSchreier ==
  ASSUME SchreierInv, NEW in \in Inputs, point_stabilizer(in)
  PROVE  SchreierInv'
<1>1. PICK n \in 2 .. HOMOS_STRUCTURE_SIZE - 1 : n = in.degree
  BY InputsAssumption
<1>2. PICK p \in 0 .. n - 1 : p = in.pt
  BY <1>1, InputsAssumption
<1>3. PICK gs \in Seq(Perms(n) \ {IdPerm(n)}) : gs = in.gens
  BY <1>1, InputsAssumption
<1>4. /\ degree' = n /\ pt' = p /\ src' = gs /\ base' = << p >> /\ phase' = "base" /\ j' = 1
      /\ strong_gens' = [l \in Levels |-> IF l = 0 THEN gs
                                          ELSE IF l < n THEN << >> ELSE strong_gens[l]]
      /\ orbits' = [l \in Levels |-> IF l = 0 THEN << p >>
                                     ELSE IF l < n THEN << >> ELSE orbits[l]]
      /\ transversal' = [transversal EXCEPT ![0][p] = IdPerm(n)]
  BY <1>1, <1>2, <1>3 DEF point_stabilizer
<1>5. 0 \in Levels /\ p \in Levels /\ n \in 0 .. HOMOS_STRUCTURE_SIZE /\ 0 .. n - 1 \subseteq Levels
  BY SizeAssumption DEF Levels
<1>6. gs \in Seq(AnyPerms) /\ gs \in Seq(Perms(n))
  <2>1. PICK P : P = Perms(n) \ {IdPerm(n)}
    OBVIOUS
  <2>2. P \subseteq AnyPerms /\ P \subseteq Perms(n) /\ gs \in Seq(P)
    BY <1>5, <2>1, PermsOfAll
  <2> QED  BY <2>2, SeqMonotonic
<1>7. IdPerm(n) \in Values /\ << >> \in Seq(AnyPerms) /\ << >> \in Seq(Levels)
  BY <1>5, IdentityPerm, PermsOfAll, NoElement
<1>8. /\ << p >> \in Seq(Levels) /\ << p >> \in Seq(0 .. n - 1) /\ Len(<< p >>) = 1
      /\ << p >>[1] = p
  BY <1>5, OneElement
<1>9. /\ strong_gens'[0] = gs /\ \A l \in 1 .. n - 1 : strong_gens'[l] = << >>
      /\ orbits'[0] = << p >>
  BY <1>4, <1>5
<1>10. /\ strong_gens \in [Levels -> Seq(AnyPerms)]
       /\ orbits \in [Levels -> Seq(Levels)]
       /\ transversal \in [Levels -> [Levels -> Values]]
  BY DEF SchreierInv, Arrays
<1>11. transversal' \in [Levels -> [Levels -> Values]] /\ transversal'[0][p] = IdPerm(n)
  <2>1. transversal[0] \in [Levels -> Values]
    BY <1>5, <1>10
  <2> QED  BY <1>4, <1>5, <1>7, <1>10, <2>1
<1>12. Arrays'
  <2>1. strong_gens' \in [Levels -> Seq(AnyPerms)]
    BY <1>4, <1>6, <1>7, <1>10
  <2>2. orbits' \in [Levels -> Seq(Levels)]
    BY <1>4, <1>7, <1>8, <1>10
  <2> QED  BY <1>4, <1>11, <2>1, <2>2 DEF Arrays
<1>13. Called'
  BY <1>4, <1>8, <1>9 DEF Called
<1>14. Generators'
  <2>1. \A l \in 0 .. n - 1 : strong_gens'[l] \in Seq(Perms(n))
    <3>1. \A l \in 0 .. n - 1 : l = 0 \/ l \in 1 .. n - 1
      OBVIOUS
    <3>2. << >> \in Seq(Perms(n))
      BY NoElement
    <3> QED  BY <1>6, <1>9, <3>1, <3>2
  <2>2. \A l \in 0 .. 1 - 1 : \A k : k \notin 1 .. l
    OBVIOUS
  <2>3. \A l \in 0 .. n - 2 : Range(strong_gens'[l + 1]) = {}
    <3>1. Range(<< >>) = {}
      BY DEF Range
    <3>2. \A l \in 0 .. n - 2 : l + 1 \in 1 .. n - 1
      OBVIOUS
    <3> QED  BY <1>9, <3>1, <3>2
  <2> QED  BY <1>4, <1>8, <1>9, <2>1, <2>2, <2>3 DEF Generators
<1>15. InBase'
  <2>1. \A l \in 0 .. Len(base') - 1 : Fresh(l)'
    <3>1. \A l \in 0 .. Len(base') - 1 : l = 0
      BY <1>4, <1>8
    <3>2. orbits'[0] = << base'[0 + 1] >> /\ transversal'[0][base'[0 + 1]] = IdPerm(degree')
      BY <1>4, <1>8, <1>9, <1>11
    <3> QED  BY <3>1, <3>2 DEF Fresh
  <2>2. j' \in 1 .. Len(src') + 1 /\ \A q : q \notin 1 .. j' - 1
    <3>1. Len(gs) \in Nat
      BY LenProperties
    <3> QED  BY <1>4, <3>1
  <2> QED  BY <1>4, <1>9, <2>1, <2>2 DEF InBase
<1> QED  BY <1>4, <1>12, <1>13, <1>14, <1>15 DEF SchreierInv, InLevels, InSift

(* A base point more: what is said of levels and points stays.               *)
LEMMA BaseGrows ==
  ASSUME NEW n, NEW bs \in Seq(0 .. n - 1), NEW p \in 0 .. n - 1,
         \A k \in 1 .. Len(bs) : bs[k] # p,
         \A q, k \in 1 .. Len(bs) : bs[q] = bs[k] => q = k
  PROVE  /\ Append(bs, p) \in Seq(0 .. n - 1)
         /\ Len(bs) \in Nat /\ Len(Append(bs, p)) = Len(bs) + 1
         /\ \A k \in 1 .. Len(bs) : Append(bs, p)[k] = bs[k]
         /\ Append(bs, p)[Len(bs) + 1] = p
         /\ \A q, k \in 1 .. Len(Append(bs, p)) : Append(bs, p)[q] = Append(bs, p)[k] => q = k
<1>1. PICK P : P = 0 .. n - 1
  OBVIOUS
<1>2. PICK s \in Seq(P) : s = bs
  BY <1>1
<1>3. PICK y \in P : y = p
  BY <1>1
<1>4. /\ Append(s, y) \in Seq(P)
      /\ Len(s) \in Nat /\ Len(Append(s, y)) = Len(s) + 1
      /\ \A k \in 1 .. Len(s) : Append(s, y)[k] = s[k]
      /\ Append(s, y)[Len(s) + 1] = y
  BY AppendFacts
<1>5. \A q, k \in 1 .. Len(Append(s, y)) : Append(s, y)[q] = Append(s, y)[k] => q = k
  <2>1. \A k \in 1 .. Len(s) : s[k] # y
    BY <1>2, <1>3
  <2>2. \A q, k \in 1 .. Len(s) : s[q] = s[k] => q = k
    BY <1>2
  <2> QED  BY <2>1, <2>2, DifferentAppend
<1> QED  BY <1>1, <1>2, <1>3, <1>4, <1>5

LEMMA ExtendBaseSchreier ==
  ASSUME SchreierInv, ExtendBase
  PROVE  SchreierInv'
<1>1. /\ phase = "base" /\ phase' = "base" /\ j' = j + 1
      /\ strong_gens' = strong_gens /\ degree' = degree /\ src' = src /\ pt' = pt
  BY DEF ExtendBase
<1>2. Arrays /\ Called /\ Generators /\ InBase
  BY <1>1 DEF SchreierInv
<1>3. PICK n \in 2 .. HOMOS_STRUCTURE_SIZE - 1 : n = degree
  BY <1>2 DEF Called
<1>4. PICK d \in 1 .. n - 1 : d = Len(base)
  BY <1>2, <1>3 DEF Called
<1>5. src \in Seq(Perms(n) \ {IdPerm(n)}) /\ strong_gens[0] = src /\ Len(src) \in Nat
  BY <1>2, <1>3, LenProperties DEF Called
<1>6. j \in 1 .. Len(src)
  BY <1>1, <1>2, <1>5 DEF ExtendBase, InBase
<1>7. PICK x \in Perms(n) : x = src[j] /\ x # IdPerm(n)
  BY <1>5, <1>6, ElementOfSeq
<1>8. /\ base \in Seq(0 .. n - 1) /\ base[1] = pt
      /\ \A p, q \in 1 .. d : base[p] = base[q] => p = q
  BY <1>2, <1>3, <1>4 DEF Called
<1>9. j' \in 1 .. Len(src') + 1
  BY <1>1, <1>5, <1>6
<1>10. /\ \A l \in 1 .. n - 1 : strong_gens[l] = << >>
       /\ \A q \in 1 .. j - 1 : MovesBase(src[q])
       /\ \A l \in 0 .. d - 1 : Fresh(l)
  BY <1>1, <1>2, <1>3, <1>4 DEF InBase
<1>11. CASE \A k \in 1 .. d : x[base[k]] = base[k]
  <2>1. PICK p \in 0 .. n - 1 : p = Min(Moved(x)) /\ x[p] # p
    BY <1>7, MinMoved
  <2>2. /\ base' = Append(base, p)
        /\ orbits' = [orbits EXCEPT ![d] = << p >>]
        /\ transversal' = [transversal EXCEPT ![d][p] = IdPerm(n)]
    <3>1. Moved(x) # {}
      BY <1>7, MinMoved
    <3>2. WithBasePoint(Min(Moved(x)))
      BY <1>4, <1>5, <1>7, <1>11, <3>1 DEF ExtendBase
    <3> QED  BY <1>3, <1>4, <2>1, <3>2 DEF WithBasePoint
  <2>3. d + 2 <= n /\ \A k \in 1 .. d : base[k] # p
    <3>1. PICK bs \in Seq(0 .. n - 1) : bs = base
      BY <1>8
    <3>2. /\ \A q, k \in 1 .. Len(bs) : bs[q] = bs[k] => q = k
          /\ \A k \in 1 .. Len(bs) : x[bs[k]] = bs[k]
      BY <1>4, <1>8, <1>11, <3>1
    <3>3. Len(bs) + 2 <= n /\ \A k \in 1 .. Len(bs) : bs[k] # p
      BY <2>1, <3>2, FixesAllButOne
    <3> QED  BY <1>4, <3>1, <3>3
  <2>4. /\ base' \in Seq(0 .. n - 1) /\ Len(base') = d + 1
        /\ \A k \in 1 .. d : base'[k] = base[k]
        /\ base'[d + 1] = p
        /\ \A q, k \in 1 .. d + 1 : base'[q] = base'[k] => q = k
    <3>1. PICK bs \in Seq(0 .. n - 1) : bs = base
      BY <1>8
    <3>2. /\ \A k \in 1 .. Len(bs) : bs[k] # p
          /\ \A q, k \in 1 .. Len(bs) : bs[q] = bs[k] => q = k
      BY <1>4, <1>8, <2>3, <3>1
    <3>3. /\ Append(bs, p) \in Seq(0 .. n - 1)
          /\ Len(Append(bs, p)) = Len(bs) + 1
          /\ \A k \in 1 .. Len(bs) : Append(bs, p)[k] = bs[k]
          /\ Append(bs, p)[Len(bs) + 1] = p
      BY <3>2, BaseGrows
    <3>4. \A q, k \in 1 .. Len(Append(bs, p)) : Append(bs, p)[q] = Append(bs, p)[k] => q = k
      BY <3>2, BaseGrows
    <3> QED  BY <1>4, <2>2, <3>1, <3>3, <3>4
  <2>5. p \in Levels /\ d \in Levels /\ n \in 0 .. HOMOS_STRUCTURE_SIZE
    BY <2>3, SizeAssumption DEF Levels
  <2>6. << p >> \in Seq(Levels) /\ IdPerm(n) \in Values
    BY <2>5, OneElement, IdentityPerm, PermsOfAll
  <2>7. /\ strong_gens \in [Levels -> Seq(AnyPerms)]
        /\ orbits \in [Levels -> Seq(Levels)]
        /\ transversal \in [Levels -> [Levels -> Values]]
    BY <1>2 DEF Arrays
  <2>8. /\ transversal' \in [Levels -> [Levels -> Values]] /\ transversal'[d][p] = IdPerm(n)
        /\ \A l \in Levels : l # d => transversal'[l] = transversal[l]
    <3>1. transversal[d] \in [Levels -> Values]
      BY <2>5, <2>7
    <3> QED  BY <2>2, <2>5, <2>6, <2>7, <3>1
  <2>9. /\ orbits' \in [Levels -> Seq(Levels)] /\ orbits'[d] = << p >>
        /\ \A l \in Levels : l # d => orbits'[l] = orbits[l]
    BY <2>2, <2>5, <2>6, <2>7
  <2>10. Arrays'
    BY <1>1, <2>7, <2>8, <2>9 DEF Arrays
  <2>11. Called'
    <3>1. Len(base') \in 1 .. degree' - 1
      BY <1>1, <1>3, <2>3, <2>4
    <3>2. base'[1] = pt'
      BY <1>1, <1>8, <2>4
    <3>3. base' \in Seq(0 .. degree' - 1)
      BY <1>1, <1>3, <2>4
    <3>4. \A p_1, q \in 1 .. Len(base') : base'[p_1] = base'[q] => p_1 = q
      BY <2>4
    <3> QED  BY <1>1, <1>2, <3>1, <3>2, <3>3, <3>4 DEF Called
  <2>12. Generators'
    <3>1. \A l : LevelGroup(l)' = LevelGroup(l)
      BY <1>1 DEF LevelGroup
    <3>2. ASSUME NEW l \in 0 .. d, NEW y \in Range(strong_gens[l]), NEW k \in 1 .. l
          PROVE  y[base'[k]] = base'[k]
      <4>1. l \in 1 .. n - 1
        OBVIOUS
      <4>2. strong_gens[l] = << >>
        BY <1>10, <4>1
      <4> QED  BY <4>2, NoElement
    <3>3. \A l \in Len(base') .. degree' - 1 : strong_gens'[l] = << >>
      BY <1>1, <1>3, <1>10, <2>4
    <3>4. \A l \in 0 .. Len(base') - 1 : \A y \in Range(strong_gens'[l]) :
            \A k \in 1 .. l : y[base'[k]] = base'[k]
      BY <1>1, <2>4, <3>2
    <3> QED  BY <1>1, <1>2, <3>1, <3>3, <3>4 DEF Generators
  <2>13. \A q \in 1 .. j : MovesBase(src[q])'
    <3> TAKE q \in 1 .. j
    <3>1. CASE q = j
      BY <1>1, <1>7, <2>1, <2>4, <3>1 DEF MovesBase
    <3>2. CASE q # j
      <4>1. q \in 1 .. j - 1
        BY <3>2, <1>6
      <4>2. PICK k \in 1 .. d : src[q][base[k]] # base[k]
        BY <1>4, <1>10, <4>1 DEF MovesBase
      <4> QED  BY <1>1, <2>4, <4>2 DEF MovesBase
    <3> QED  BY <3>1, <3>2
  <2>14. \A l \in 0 .. d : Fresh(l)'
    <3> TAKE l \in 0 .. d
    <3>1. CASE l = d
      BY <1>1, <1>3, <2>4, <2>8, <2>9, <3>1 DEF Fresh
    <3>2. CASE l # d
      <4>1. l \in 0 .. d - 1 /\ l + 1 \in 1 .. d /\ l \in Levels
        BY <3>2, SizeAssumption DEF Levels
      <4> QED  BY <1>1, <1>3, <1>10, <2>4, <2>8, <2>9, <3>2, <4>1 DEF Fresh
    <3> QED  BY <3>1, <3>2
  <2>15. InBase'
    <3>1. \A q \in 1 .. j' - 1 : MovesBase(src[q])'
      BY <1>1, <1>6, <2>13
    <3>2. \A l \in 0 .. Len(base') - 1 : Fresh(l)'
      BY <2>4, <2>14
    <3> QED  BY <1>1, <1>3, <1>9, <1>10, <3>1, <3>2 DEF InBase
  <2> QED  BY <1>1, <2>10, <2>11, <2>12, <2>15 DEF SchreierInv, InLevels, InSift
<1>12. CASE ~ \A k \in 1 .. d : x[base[k]] = base[k]
  <2>1. UNCHANGED << base, orbits, transversal >>
    BY <1>4, <1>5, <1>7, <1>12 DEF ExtendBase
  <2>2. /\ Called => Called'
        /\ Generators => Generators'
        /\ \A l : Fresh(l) => Fresh(l)'
        /\ \A y : MovesBase(y) => MovesBase(y)'
    BY <1>1, <2>1, ChainKept
  <2>3. Arrays'
    BY <1>1, <1>2, <2>1 DEF Arrays
  <2>4. \A q \in 1 .. j : MovesBase(src[q])
    <3>1. MovesBase(x)
      BY <1>4, <1>12 DEF MovesBase
    <3>2. \A q \in 1 .. j : q = j \/ q \in 1 .. j - 1
      BY <1>6
    <3> QED  BY <1>7, <1>10, <3>1, <3>2
  <2>5. InBase'
    <3>1. \A q \in 1 .. j' - 1 : MovesBase(src[q])'
      BY <1>1, <1>6, <2>2, <2>4
    <3>2. \A l \in 0 .. Len(base') - 1 : Fresh(l)'
      BY <1>4, <1>10, <2>1, <2>2
    <3> QED  BY <1>1, <1>3, <1>9, <1>10, <3>1, <3>2 DEF InBase
  <2> QED  BY <1>1, <1>2, <2>2, <2>3, <2>5 DEF SchreierInv, InLevels, InSift
<1> QED  BY <1>11, <1>12

LEMMA BaseDoneSchreier ==
  ASSUME SchreierInv, BaseDone
  PROVE  SchreierInv'
<1>1. /\ phase = "base" /\ j > Len(strong_gens[0]) /\ phase' = "levels" /\ i' = 1
      /\ UNCHANGED << strong_gens, transversal, orbits, base, degree, src, pt >>
  BY DEF BaseDone, chain
<1>2. Arrays /\ Called /\ Generators /\ InBase
  BY <1>1 DEF SchreierInv
<1>3. PICK n \in 2 .. HOMOS_STRUCTURE_SIZE - 1 : n = degree
  BY <1>2 DEF Called
<1>4. PICK d \in 1 .. n - 1 : d = Len(base)
  BY <1>2, <1>3 DEF Called
<1>5. /\ Called => Called'
      /\ Generators => Generators'
      /\ \A l : Fresh(l) => Fresh(l)'
      /\ \A y : MovesBase(y) => MovesBase(y)'
  BY <1>1, ChainKept
<1>6. /\ \A l \in 1 .. n - 1 : strong_gens[l] = << >>
      /\ \A q \in 1 .. j - 1 : MovesBase(src[q])
      /\ \A l \in 0 .. d - 1 : Fresh(l)
      /\ j \in 1 .. Len(src) + 1
  BY <1>1, <1>2, <1>3, <1>4 DEF InBase
<1>7. /\ Len(src) \in Nat /\ strong_gens[0] = src
      /\ \A x : x \in Range(src) <=> \E q \in 1 .. Len(src) : src[q] = x
  <2>1. PICK P : P = Perms(n) \ {IdPerm(n)}
    OBVIOUS
  <2>2. src \in Seq(P) /\ strong_gens[0] = src
    BY <1>2, <1>3, <2>1 DEF Called
  <2> QED  BY <2>2, RangeFacts
<1>8. Arrays'
  BY <1>1, <1>2 DEF Arrays
<1>9. \A x \in Range(src) : MovesBase(x)
  <2>1. \A q \in 1 .. Len(src) : q \in 1 .. j - 1
    BY <1>1, <1>6, <1>7
  <2> QED  BY <1>6, <1>7, <2>1
<1>10. \A l \in 0 .. n - 1 : Range(strong_gens[l]) \subseteq Range(src)
  <2>1. \A l \in 0 .. n - 1 : l = 0 \/ l \in 1 .. n - 1
    OBVIOUS
  <2> QED  BY <1>6, <1>7, <2>1, NoElement
<1>11. InLevels'
  <2>1. i' \in 1 .. Len(base') + 1
    BY <1>1, <1>4
  <2>2. \A x \in Range(src') : MovesBase(x)'
    BY <1>1, <1>5, <1>9
  <2>3. \A l \in 0 .. degree' - 1 : Range(strong_gens'[l]) \subseteq Range(src')
    BY <1>1, <1>3, <1>10
  <2>4. \A l \in i' .. degree' - 1 : strong_gens'[l] = << >>
    BY <1>1, <1>3, <1>6
  <2>5. \A l : l \notin 0 .. i' - 2
    BY <1>1
  <2>6. \A l \in i' - 1 .. Len(base') - 1 : Fresh(l)'
    BY <1>1, <1>4, <1>5, <1>6
  <2> QED  BY <2>1, <2>2, <2>3, <2>4, <2>5, <2>6 DEF InLevels
<1> QED  BY <1>1, <1>2, <1>5, <1>8, <1>11 DEF SchreierInv, InBase, InSift

(* A sequence over the set of its elements.                                  *)
LEMMA OverElements ==
  ASSUME NEW P, NEW s \in Seq(P), NEW more, Range(s) \subseteq more
  PROVE  s \in Seq(more)
<1>1. Len(s) \in Nat /\ \A q \in 1 .. Len(s) : s[q] \in Range(s)
  <2>1. \A x : x \in Range(s) <=> \E q \in 1 .. Len(s) : s[q] = x
    BY RangeFacts
  <2> QED  BY <2>1, LenProperties
<1>2. s \in [1 .. Len(s) -> P]
  BY LenProperties
<1>3. s \in [1 .. Len(s) -> more]
  BY <1>1, <1>2
<1> QED  BY <1>1, <1>3, SeqDef

LEMMA EmptyRange ==
  ASSUME NEW P, NEW s \in Seq(P), Range(s) = {}
  PROVE  s = << >>
<1>1. /\ Len(s) \in Nat /\ \A q \in 1 .. Len(s) : s[q] \in Range(s)
      /\ s = << >> <=> Len(s) = 0
  <2>1. \A x : x \in Range(s) <=> \E q \in 1 .. Len(s) : s[q] = x
    BY RangeFacts
  <2> QED  BY <2>1, RangeFacts
<1>2. 1 \notin 1 .. Len(s)
  BY <1>1
<1> QED  BY <1>1, <1>2

(* The setting of a level of the chain.                                      *)
LEMMA LevelSetting ==
  ASSUME Called, Generators, NEW l \in 0 .. Len(base) - 1
  PROVE  /\ Setting(degree, base[l + 1], LevelGroup(l), Values)
         /\ l \in 0 .. degree - 1 /\ l \in Levels /\ l + 1 \in 0 .. degree - 1 /\ l + 1 \in Levels
         /\ strong_gens[l] \in Seq(LevelGroup(l)) /\ strong_gens[l] \in Seq(Perms(degree))
<1>1. PICK n \in 2 .. HOMOS_STRUCTURE_SIZE - 1 : n = degree
  BY DEF Called
<1>2. PICK d \in 1 .. n - 1 : d = Len(base)
  BY <1>1 DEF Called
<1>3. /\ l \in 0 .. n - 1 /\ l \in Levels /\ l + 1 \in 0 .. n - 1 /\ l + 1 \in Levels
      /\ n \in 0 .. HOMOS_STRUCTURE_SIZE /\ l + 1 \in 1 .. d
  BY <1>2, SizeAssumption DEF Levels
<1>4. base[l + 1] \in 0 .. n - 1
  <2>1. base \in Seq(0 .. n - 1)
    BY <1>1 DEF Called
  <2> QED  BY <1>2, <1>3, <2>1, ElementOfSeq
<1>5. IsGroup(LevelGroup(l), n) /\ Range(strong_gens[l]) \subseteq LevelGroup(l)
  BY <1>1, <1>3, LevelGroups
<1>6. Setting(degree, base[l + 1], LevelGroup(l), Values)
  BY <1>1, <1>3, <1>4, <1>5, PermsOfAll, SizeAssumption DEF Setting
<1>7. PICK P : P = Perms(n)
  OBVIOUS
<1>8. strong_gens[l] \in Seq(P)
  BY <1>1, <1>3, <1>7 DEF Generators
<1>9. strong_gens[l] \in Seq(LevelGroup(l))
  <2>1. PICK s \in Seq(P) : s = strong_gens[l]
    BY <1>8
  <2>2. PICK Q : Q = LevelGroup(l)
    OBVIOUS
  <2> QED  BY <1>5, <2>1, <2>2, OverElements
<1> QED  BY <1>1, <1>3, <1>6, <1>7, <1>8, <1>9

(* What a level in Levs is to the arrays.                                    *)
LEMMA LevInArrays ==
  ASSUME NEW n \in 0 .. HOMOS_STRUCTURE_SIZE, NEW b, NEW G, NEW v \in Levs(n, b, G, Values)
  PROVE  v.orbit \in Seq(Levels) /\ v.trans \in [Levels -> Values]
<1>1. PICK P : P = 0 .. n - 1
  OBVIOUS
<1>2. P \subseteq Levels
  BY <1>1, SizeAssumption DEF Levels
<1>3. v \in [ orbit : Seq(0 .. n - 1), trans : [Levels -> Values] ]
  BY DEF Levs
<1>4. v.orbit \in Seq(P)
  BY <1>1, <1>3
<1> QED  BY <1>2, <1>3, <1>4, SeqMonotonic

LEMMA SetUpLevelSchreier ==
  ASSUME SchreierInv, SetUpLevel
  PROVE  SchreierInv'
<1>1. /\ phase = "levels" /\ i <= Len(base) /\ phase' = "levels" /\ i' = i + 1
      /\ UNCHANGED << base, degree, src, pt >>
  BY DEF SetUpLevel
<1>2. Arrays /\ Called /\ Generators /\ InLevels
  BY <1>1 DEF SchreierInv
<1>3. PICK n \in 2 .. HOMOS_STRUCTURE_SIZE - 1 : n = degree
  BY <1>2 DEF Called
<1>4. PICK d \in 1 .. n - 1 : d = Len(base)
  BY <1>2, <1>3 DEF Called
<1>5. PICK c \in 0 .. d - 1 : i = c + 1 /\ i - 1 = c /\ i \in 1 .. d
  <2>1. i \in 1 .. d
    BY <1>1, <1>2, <1>4 DEF InLevels
  <2>2. i - 1 \in 0 .. d - 1 /\ i = (i - 1) + 1
    BY <2>1
  <2> QED  BY <2>1, <2>2
<1>6. /\ \A x \in Range(src) : MovesBase(x)
      /\ \A l \in 0 .. n - 1 : Range(strong_gens[l]) \subseteq Range(src)
      /\ \A l \in i .. n - 1 : strong_gens[l] = << >>
      /\ \A l \in 0 .. c - 1 : Complete(l)
      /\ \A l \in c .. d - 1 : Fresh(l)
  <2>1. i - 2 = c - 1
    BY <1>5
  <2> QED  BY <1>1, <1>2, <1>3, <1>4, <1>5, <2>1 DEF InLevels
<1>7. PICK b, G, gs : b = base[i] /\ G = LevelGroup(c) /\ gs = strong_gens[c]
  OBVIOUS
<1>8. /\ Setting(degree, b, G, Values) /\ c \in 0 .. n - 1 /\ c \in Levels
      /\ i \in 0 .. n - 1 /\ i \in Levels /\ n \in 0 .. HOMOS_STRUCTURE_SIZE
      /\ gs \in Seq(G) /\ gs \in Seq(Perms(n))
  BY <1>2, <1>3, <1>4, <1>5, <1>7, LevelSetting, SizeAssumption
<1>9. /\ strong_gens \in [Levels -> Seq(AnyPerms)]
      /\ orbits \in [Levels -> Seq(Levels)]
      /\ transversal \in [Levels -> [Levels -> Values]]
  BY <1>2 DEF Arrays
<1>10. PICK v \in Levs(degree, b, G, Values) : v = Level(c)
  <2>1. Fresh(c)
    BY <1>5, <1>6
  <2>2. orbits[c] = << b >> /\ transversal[c][b] = IdPerm(degree)
    BY <1>5, <1>7, <2>1 DEF Fresh
  <2>3. PICK t \in [Levels -> Values] : t = transversal[c]
    BY <1>8, <1>9
  <2>4. PICK V : V = Values
    OBVIOUS
  <2>5. degree \in Nat /\ b \in 0 .. degree - 1 /\ IsGroup(G, degree)
    BY <1>8 DEF Setting
  <2>6. PICK v : v = [orbit |-> << b >>, trans |-> t]
    OBVIOUS
  <2>7. v \in Levs(degree, b, G, V)
    BY <2>2, <2>3, <2>4, <2>5, <2>6, OnePoint
  <2> QED  BY <2>2, <2>3, <2>4, <2>6, <2>7 DEF Level
<1>11. PICK r \in Levs(degree, b, G, Values) : r = orbit_ss(c, gs) /\ ClosedTo(r, gs, degree)
  <2>1. \A q : q \in 1 .. Len(v.orbit) => ~ (q <= 1 - 1)
    OBVIOUS
  <2>2. ClosedTo(v, gs, 1 - 1)
    BY <2>1 DEF ClosedTo
  <2>3. PICK V : V = Values
    OBVIOUS
  <2>4. PICK from \in Nat \ {0} : from = 1
    OBVIOUS
  <2>5. PICK u \in Levs(degree, b, G, V) : u = v
    BY <2>3
  <2>6. Spread(u, from, gs) \in Levs(degree, b, G, V) /\ ClosedTo(Spread(u, from, gs), gs, degree)
    BY <1>8, <2>2, <2>3, <2>4, <2>5, SpreadFacts
  <2>7. orbit_ss(c, gs) = Spread(u, from, gs)
    BY <1>10, <2>4, <2>5 DEF orbit_ss
  <2> QED  BY <2>3, <2>6, <2>7
<1>12. PICK P : P = Perms(n)
  OBVIOUS
<1>13. PICK F \in Seq(P) : /\ F = Fixing(gs, b)
                           /\ \A x : x \in Range(F) <=> x \in Range(gs) /\ x[b] = b
  <2>1. PICK s \in Seq(P) : s = gs
    BY <1>8, <1>12
  <2>2. Fixing(s, b) \in Seq(P) /\ \A x : x \in Range(Fixing(s, b)) <=> x \in Range(s) /\ x[b] = b
    BY FixingFacts
  <2> QED  BY <2>1, <2>2
<1>14. /\ strong_gens' = [strong_gens EXCEPT ![i] = F]
       /\ orbits' = [orbits EXCEPT ![c] = r.orbit]
       /\ transversal' = [transversal EXCEPT ![c] = r.trans]
  <2>1. strong_gens[i] = << >>
    BY <1>5, <1>6, <1>8
  <2>2. << >> \o F = F
    BY ConcatEmptySeq
  <2>3. /\ strong_gens' = [strong_gens EXCEPT ![i] = strong_gens[i] \o Fixing(gs, b)]
        /\ orbits' = [orbits EXCEPT ![c] = orbit_ss(c, gs).orbit]
        /\ transversal' = [transversal EXCEPT ![c] = orbit_ss(c, gs).trans]
    BY <1>5, <1>7 DEF SetUpLevel
  <2> QED  BY <1>11, <1>13, <2>1, <2>2, <2>3
<1>15. F \in Seq(AnyPerms) /\ F \in Seq(Perms(n)) /\ r.orbit \in Seq(Levels)
       /\ r.trans \in [Levels -> Values]
  <2>1. P \subseteq AnyPerms
    BY <1>8, <1>12, PermsOfAll
  <2>2. F \in Seq(AnyPerms)
    BY <2>1, SeqMonotonic
  <2>3. r \in Levs(n, b, G, Values)
    BY <1>3
  <2> QED  BY <1>8, <1>12, <2>2, <2>3, LevInArrays
<1>16. Arrays'
  BY <1>1, <1>9, <1>14, <1>15 DEF Arrays
<1>17. /\ strong_gens'[i] = F /\ \A l \in Levels : l # i => strong_gens'[l] = strong_gens[l]
       /\ orbits'[c] = r.orbit /\ \A l \in Levels : l # c => orbits'[l] = orbits[l]
       /\ transversal'[c] = r.trans
       /\ \A l \in Levels : l # c => transversal'[l] = transversal[l]
  BY <1>8, <1>9, <1>14
<1>18. \A l \in Levels : l # i => LevelGroup(l)' = LevelGroup(l)
  BY <1>1, <1>17 DEF LevelGroup
<1>19. 0 .. n - 1 \subseteq Levels
  BY SizeAssumption DEF Levels
<1>20. Called'
  <2>1. strong_gens'[0] = strong_gens[0]
    BY <1>5, <1>17, <1>19
  <2> QED  BY <1>1, <1>2, <2>1 DEF Called
<1>21. \A x \in Range(gs) : \A k \in 1 .. c : x[base[k]] = base[k]
  BY <1>2, <1>4, <1>7 DEF Generators
<1>22. ASSUME i = d PROVE F = << >>
  <2>1. ASSUME NEW x \in Range(F) PROVE FALSE
    <3>1. x \in Range(gs) /\ x[base[d]] = base[d]
      BY <1>7, <1>13, <1>22
    <3>2. x \in Range(src)
      BY <1>6, <1>7, <1>8, <3>1
    <3>3. PICK k \in 1 .. d : x[base[k]] # base[k]
      BY <1>4, <1>6, <3>2 DEF MovesBase
    <3>4. k = d \/ k \in 1 .. c
      BY <1>5, <1>22
    <3> QED  BY <1>21, <3>1, <3>3, <3>4
  <2> QED  BY <2>1, EmptyRange
<1>23. Range(F) \subseteq Range(gs) /\ Range(gs) \subseteq LevelGroup(c)
  BY <1>2, <1>3, <1>7, <1>8, <1>13, LevelGroups
<1>24. Generators'
  <2>1. \A l \in 0 .. n - 1 : strong_gens'[l] \in Seq(Perms(n))
    <3>1. \A l \in 0 .. n - 1 : strong_gens[l] \in Seq(Perms(n))
      BY <1>2, <1>3 DEF Generators
    <3> QED  BY <1>15, <1>17, <1>19, <3>1
  <2>2. ASSUME NEW l \in 0 .. d - 1, NEW x \in Range(strong_gens'[l]), NEW k \in 1 .. l
        PROVE  x[base[k]] = base[k]
    <3>1. l \in Levels
      BY <1>19
    <3>2. CASE l # i
      BY <1>2, <1>4, <1>17, <2>2, <3>1, <3>2 DEF Generators
    <3>3. CASE l = i
      <4>1. x \in Range(gs) /\ x[base[i]] = base[i]
        BY <1>7, <1>13, <1>17, <2>2, <3>3
      <4>2. k = i \/ k \in 1 .. c
        BY <1>5, <3>3
      <4> QED  BY <1>21, <4>1, <4>2
    <3> QED  BY <3>2, <3>3
  <2>3. \A l \in d .. n - 1 : strong_gens'[l] = << >>
    <3> TAKE l \in d .. n - 1
    <3>1. l \in Levels
      BY <1>19
    <3>2. CASE l # i
      BY <1>2, <1>3, <1>4, <1>17, <3>1, <3>2 DEF Generators
    <3>3. CASE l = i
      <4>1. i = d
        BY <1>5, <3>3
      <4> QED  BY <1>17, <1>22, <3>3, <4>1
    <3> QED  BY <3>2, <3>3
  <2>4. \A l \in 0 .. n - 2 : Range(strong_gens'[l + 1]) \subseteq LevelGroup(l)'
    <3> TAKE l \in 0 .. n - 2
    <3>1. l \in Levels /\ l + 1 \in Levels
      BY <1>19
    <3>2. CASE l = c
      <4>1. l + 1 = i /\ l # i
        BY <1>5, <3>2
      <4> QED  BY <1>17, <1>18, <1>23, <3>1, <3>2, <4>1
    <3>3. CASE l = i
      <4>1. l + 1 # i /\ l + 1 \in i .. n - 1
        BY <1>5, <3>3
      <4>2. strong_gens'[l + 1] = << >>
        BY <1>6, <1>17, <3>1, <4>1
      <4> QED  BY <4>2, NoElement
    <3>4. CASE l # c /\ l # i
      <4>1. l + 1 # i
        BY <1>5, <3>4
      <4>2. Range(strong_gens[l + 1]) \subseteq LevelGroup(l)
        BY <1>2, <1>3 DEF Generators
      <4> QED  BY <1>17, <1>18, <3>1, <3>4, <4>1, <4>2
    <3> QED  BY <3>2, <3>3, <3>4
  <2> QED  BY <1>1, <1>3, <1>4, <2>1, <2>2, <2>3, <2>4 DEF Generators
<1>25. InLevels'
  <2>1. i' \in 1 .. Len(base') + 1
    BY <1>1, <1>4, <1>5
  <2>2. \A x \in Range(src') : MovesBase(x)'
    BY <1>1, <1>6 DEF MovesBase
  <2>3. \A l \in 0 .. n - 1 : Range(strong_gens'[l]) \subseteq Range(src)
    BY <1>6, <1>7, <1>8, <1>17, <1>19, <1>23
  <2>4. \A l \in i + 1 .. n - 1 : strong_gens'[l] = << >>
    <3>1. \A l \in i + 1 .. n - 1 : l \in i .. n - 1 /\ l # i /\ l \in 0 .. n - 1
      BY <1>5
    <3> QED  BY <1>6, <1>17, <1>19, <3>1
  <2>5. \A l \in 0 .. c : Complete(l)'
    <3> TAKE l \in 0 .. c
    <3>1. l \in Levels /\ l # i
      BY <1>5, <1>19
    <3>2. CASE l = c
      <4>1. Level(c)' = [orbit |-> r.orbit, trans |-> r.trans]
        BY <1>17 DEF Level
      <4>2. r = [orbit |-> r.orbit, trans |-> r.trans]
        BY LevFacts
      <4>3. strong_gens'[c] = gs /\ LevelGroup(c)' = G /\ base'[c + 1] = b
        BY <1>1, <1>5, <1>7, <1>17, <1>18, <3>1, <3>2
      <4> QED  BY <1>1, <1>11, <3>2, <4>1, <4>2, <4>3 DEF Complete
    <3>3. CASE l # c
      <4>1. l \in 0 .. c - 1
        BY <3>3
      <4>2. Complete(l)
        BY <1>6, <4>1
      <4>3. Level(l)' = Level(l) /\ strong_gens'[l] = strong_gens[l] /\ LevelGroup(l)' = LevelGroup(l)
        BY <1>17, <1>18, <3>1, <3>3 DEF Level
      <4> QED  BY <1>1, <4>2, <4>3 DEF Complete
    <3> QED  BY <3>2, <3>3
  <2>6. \A l \in i .. d - 1 : Fresh(l)'
    <3>1. \A l \in i .. d - 1 : l \in Levels /\ l # c /\ l \in c .. d - 1
      BY <1>5, <1>19
    <3> QED  BY <1>1, <1>6, <1>17, <3>1 DEF Fresh
  <2>7. i' - 2 = c /\ i' - 1 = i
    BY <1>1, <1>5
  <2> QED  BY <1>1, <1>3, <1>4, <2>1, <2>2, <2>3, <2>4, <2>5, <2>6, <2>7 DEF InLevels
<1> QED  BY <1>1, <1>2, <1>16, <1>20, <1>24, <1>25 DEF SchreierInv, InBase, InSift

(* The sifting begins, at the last level of the base.                        *)
LEMMA LevelsDoneSchreier ==
  ASSUME SchreierInv, LevelsDone
  PROVE  SchreierInv'
<1>1. /\ phase = "levels" /\ i > Len(base) /\ phase' = "sift"
      /\ i' = Len(base) - 1 /\ j' = 1 /\ m' = 1
      /\ UNCHANGED << strong_gens, transversal, orbits, base, degree, src, pt >>
  BY DEF LevelsDone, chain
<1>2. Arrays /\ Called /\ Generators /\ InLevels
  BY <1>1 DEF SchreierInv
<1>3. PICK d \in Nat \ {0} : d = Len(base)
  BY <1>2 DEF Called
<1>4. /\ Called => Called'
      /\ Generators => Generators'
      /\ \A l : Complete(l) => Complete(l)'
  BY <1>1, ChainKept
<1>5. \A l \in 0 .. d - 1 : Complete(l)
  <2>1. i = d + 1
    BY <1>1, <1>2, <1>3 DEF InLevels
  <2>2. i - 2 = d - 1
    BY <2>1
  <2> QED  BY <1>1, <1>2, <2>2 DEF InLevels
<1>6. Arrays'
  BY <1>1, <1>2 DEF Arrays
<1>7. InSift'
  <2>1. i' \in -1 .. Len(base') - 1 /\ j' \in Nat \ {0} /\ m' \in Nat \ {0}
    BY <1>1, <1>3
  <2>2. \A l \in 0 .. Len(base') - 1 : Complete(l)'
    BY <1>1, <1>3, <1>4, <1>5
  <2>3. \A l : l \notin i' + 1 .. Len(base') - 1
    BY <1>1, <1>3
  <2>4. \A q \in 1 .. Len(orbits'[i']) : \A r \in 1 .. Len(strong_gens'[i']) :
          ~ (q < j' \/ (q = j' /\ r < m'))
    BY <1>1
  <2>5. phase' # "done"
    BY <1>1
  <2> QED  BY <2>1, <2>2, <2>3, <2>4, <2>5 DEF InSift
<1> QED  BY <1>1, <1>2, <1>4, <1>6, <1>7 DEF SchreierInv, InBase, InLevels

(* What holds where the loop is: the Schreier generator.                     *)
LEMMA LoopFacts ==
  ASSUME SchreierInv, InLoop
  PROVE  /\ Arrays /\ Called /\ Generators
         /\ i \in 0 .. Len(base) - 1
         /\ j \in 1 .. Len(orbits[i]) /\ m \in 1 .. Len(strong_gens[i])
         /\ \A l \in 0 .. Len(base) - 1 : Complete(l)
         /\ \A l \in i + 1 .. Len(base) - 1 : Done(l)
         /\ \A q \in 1 .. Len(orbits[i]) : \A r \in 1 .. Len(strong_gens[i]) :
              q < j \/ (q = j /\ r < m) =>
                SchreierGen(Level(i), orbits[i][q], strong_gens[i][r]) \in LevelGroup(i + 1)
<1>1. phase = "sift" /\ i >= 0 /\ j <= Len(orbits[i]) /\ m <= Len(strong_gens[i])
  BY DEF InLoop
<1>2. Arrays /\ Called /\ Generators /\ InSift
  BY <1>1 DEF SchreierInv
<1>3. Len(base) \in Nat
  BY <1>2 DEF Called
<1>4. i \in 0 .. Len(base) - 1
  BY <1>1, <1>2, <1>3 DEF InSift
<1>5. Len(orbits[i]) \in Nat /\ Len(strong_gens[i]) \in Nat
  <2>1. Complete(i)
    BY <1>1, <1>2, <1>4 DEF InSift
  <2>2. orbits[i] \in Seq(0 .. degree - 1)
    BY <2>1, CompleteFacts
  <2>3. strong_gens[i] \in Seq(Perms(degree))
    BY <1>2, <1>4, LevelSetting
  <2> QED  BY <2>2, <2>3, LenProperties
<1>6. j \in 1 .. Len(orbits[i]) /\ m \in 1 .. Len(strong_gens[i])
  BY <1>1, <1>2, <1>5 DEF InSift
<1> QED  BY <1>1, <1>2, <1>4, <1>6 DEF InSift

(* The Schreier generator of a point and a generator of a level fixes the    *)
(* base points up to that of the level, and is an element of its group.      *)
LEMMA SchreierGenFacts ==
  ASSUME Called, Generators, NEW l \in 0 .. Len(base) - 1, Complete(l),
         NEW p \in Points(orbits[l]), NEW q \in 1 .. Len(strong_gens[l]), NEW x,
         x = strong_gens[l][q]
  PROVE  /\ x \in LevelGroup(l) /\ x[p] \in Points(orbits[l])
         /\ transversal[l][p] \in LevelGroup(l) /\ transversal[l][x[p]] \in LevelGroup(l)
         /\ SchreierGen(Level(l), p, x) \in LevelGroup(l)
         /\ SchreierGen(Level(l), p, x) \in Perms(degree)
         /\ \A k \in 1 .. l + 1 :
              SchreierGen(Level(l), p, x)[base[k]] = base[k]
<1>1. PICK n \in 2 .. HOMOS_STRUCTURE_SIZE - 1 : n = degree
  BY DEF Called
<1>2. PICK d \in 1 .. n - 1 : d = Len(base)
  BY <1>1 DEF Called
<1>3. /\ l \in 0 .. n - 1 /\ l + 1 \in 1 .. d
      /\ strong_gens[l] \in Seq(LevelGroup(l)) /\ strong_gens[l] \in Seq(Perms(n))
  BY <1>1, <1>2, LevelSetting
<1>4. PICK G : G = LevelGroup(l) /\ IsGroup(G, n)
  BY <1>1, <1>3, LevelGroups
<1>5. x \in G
  <2>1. strong_gens[l] \in Seq(G)
    BY <1>3, <1>4
  <2> QED  BY <2>1, ElementOfSeq
<1>6. PICK b \in 0 .. n - 1 : b = base[l + 1]
  <2>1. base \in Seq(0 .. n - 1)
    BY <1>1 DEF Called
  <2> QED  BY <1>2, <1>3, <2>1, ElementOfSeq
<1>7. x[p] \in Points(orbits[l])
  <2>1. PICK gens \in Seq(Perms(n)) : gens = strong_gens[l]
    BY <1>3
  <2>2. PICK V : V = Values
    OBVIOUS
  <2>3. LevelGroup(l) = Generated(Range(gens), n)
    BY <1>1, <2>1 DEF LevelGroup
  <2>4. PICK v \in Levs(n, b, Generated(Range(gens), n), V) : v = Level(l)
    BY <1>1, <1>6, <2>2, <2>3 DEF Complete
  <2>5. ClosedTo(v, gens, n)
    BY <1>1, <2>1, <2>4 DEF Complete
  <2>6. \A k \in Points(v.orbit) : \A r \in 1 .. Len(gens) : gens[r][k] \in Points(v.orbit)
    <3>1. n \in Nat
      OBVIOUS
    <3>2. \A k \in Points(v.orbit) : \A r \in 1 .. Len(gens) : gens[r][k] \in Points(v.orbit)
      BY <2>5, <3>1, WholeOrbit, Zenon
    <3> QED  BY <3>2
  <2>7. v.orbit = orbits[l]
    BY <2>4 DEF Level
  <2> QED  BY <2>1, <2>6, <2>7
<1>8. /\ \A k \in Points(orbits[l]) : transversal[l][k] \in G /\ transversal[l][k][b] = k
      /\ Points(orbits[l]) \subseteq 0 .. n - 1
  BY <1>1, <1>4, <1>6, CompleteFacts
<1>9. PICK t \in G : t = transversal[l][p] /\ t[b] = p
  BY <1>8
<1>10. PICK u \in G : u = transversal[l][x[p]] /\ u[b] = x[p]
  BY <1>7, <1>8
<1>11. PICK w \in G : w = invert_perm(u)
  BY <1>4 DEF IsGroup
<1>12. PICK y \in G : y = prod_perms(t, x)
  BY <1>4, <1>5 DEF IsGroup
<1>13. PICK z \in G : z = prod_perms(y, w)
  BY <1>4 DEF IsGroup
<1>14. z = SchreierGen(Level(l), p, x)
  BY <1>9, <1>10, <1>11, <1>12, <1>13 DEF SchreierGen, Level
<1>15. G \subseteq Perms(n)
  BY <1>4 DEF IsGroup
<1>16. ASSUME NEW k \in 1 .. l + 1 PROVE z[base[k]] = base[k]
  <2>1. CASE k = l + 1
    <3>1. z[b] = w[y[b]] /\ y[b] = x[t[b]]
      BY <1>5, <1>12, <1>13, <1>15, ProdPerms
    <3>2. w[u[b]] = b
      BY <1>11, <1>15, InvertPerm
    <3> QED  BY <1>6, <1>9, <1>10, <2>1, <3>1, <3>2
  <2>2. CASE k # l + 1
    <3>1. k \in 1 .. d /\ k <= l
      BY <1>3, <2>2
    <3>2. \A g \in LevelGroup(l) : g[base[k]] = base[k]
      BY <1>1, <1>2, <1>3, <3>1, LevelGroups
    <3> QED  BY <1>4, <3>2
  <2> QED  BY <2>1, <2>2
<1> QED  BY <1>1, <1>4, <1>5, <1>7, <1>9, <1>10, <1>13, <1>14, <1>15, <1>16

(* The Schreier generator that the loop is at.                               *)
LEMMA ThisSchreierGen ==
  ASSUME SchreierInv, InLoop
  PROVE  /\ prod_perms(Product, invert_perm(Target)) =
              SchreierGen(Level(i), orbits[i][j], strong_gens[i][m])
         /\ Product = Target =>
              SchreierGen(Level(i), orbits[i][j], strong_gens[i][m]) \in LevelGroup(i + 1)
         /\ SchreierGen(Level(i), orbits[i][j], strong_gens[i][m]) \in LevelGroup(i)
         /\ Residue(i, SchreierGen(Level(i), orbits[i][j], strong_gens[i][m]), Sifted)
<1>1. /\ Arrays /\ Called /\ Generators
      /\ i \in 0 .. Len(base) - 1
      /\ j \in 1 .. Len(orbits[i]) /\ m \in 1 .. Len(strong_gens[i])
      /\ \A l \in 0 .. Len(base) - 1 : Complete(l)
  BY LoopFacts
<1>2. PICK n \in 2 .. HOMOS_STRUCTURE_SIZE - 1 : n = degree
  BY <1>1 DEF Called
<1>3. PICK p \in Points(orbits[i]) : p = orbits[i][j]
  <2>1. \A p : p \in Points(orbits[i]) <=> \E q \in 1 .. Len(orbits[i]) : orbits[i][q] = p
    BY <1>1, CompleteFacts
  <2> QED  BY <1>1, <2>1
<1>4. PICK x : x = strong_gens[i][m]
  OBVIOUS
<1>5. PICK c \in 0 .. Len(base) - 1 : c = i
  BY <1>1
<1>6. PICK z : z = SchreierGen(Level(i), p, x)
  OBVIOUS
<1>7. prod_perms(Product, invert_perm(Target)) = z
  BY <1>3, <1>4, <1>6 DEF Product, Target, ThisGen, ThisPoint, SchreierGen, Level
<1>8. /\ x \in LevelGroup(i) /\ x[p] \in Points(orbits[i])
      /\ transversal[i][p] \in LevelGroup(i) /\ transversal[i][x[p]] \in LevelGroup(i)
      /\ z \in LevelGroup(i) /\ z \in Perms(n)
      /\ \A k \in 1 .. i + 1 : z[base[k]] = base[k]
  BY <1>1, <1>2, <1>3, <1>4, <1>6, SchreierGenFacts
<1>9. i \in 0 .. n - 1 /\ i + 1 \in 0 .. n - 1
  BY <1>1, <1>2, LevelSetting
<1>10. IsGroup(LevelGroup(i), n) /\ IsGroup(LevelGroup(i + 1), n)
  BY <1>1, <1>2, <1>9, LevelGroups
<1>11. ASSUME Product = Target PROVE z \in LevelGroup(i + 1)
  <2>1. transversal[i][x[p]] \in Perms(n)
    BY <1>8, <1>10 DEF IsGroup
  <2>2. PICK t \in Perms(n) : t = Target
    BY <1>3, <1>4, <2>1 DEF Target, ThisGen, ThisPoint
  <2>3. prod_perms(t, invert_perm(t)) = IdPerm(n)
    BY ProdInverse
  <2>4. z = IdPerm(n)
    BY <1>7, <1>11, <2>2, <2>3
  <2> QED  BY <1>10, <2>4 DEF IsGroup
<1>12. Residue(c, z, sift_ss(z))
  <2>1. z \in Perms(degree) /\ \A k \in 1 .. c + 1 : z[base[k]] = base[k]
    BY <1>2, <1>5, <1>8
  <2> QED  BY <1>1, <2>1, SiftFacts
<1>13. Sifted = sift_ss(z)
  BY <1>7 DEF Sifted
<1> QED  BY <1>3, <1>4, <1>5, <1>6, <1>7, <1>8, <1>11, <1>12, <1>13

LEMMA SiftsToOneSchreier ==
  ASSUME SchreierInv, SiftsToOne
  PROVE  SchreierInv'
<1>1. /\ InLoop /\ m' = m + 1 /\ phase = "sift"
      /\ Product = Target \/ (Sifted.depth = Len(base) /\ Moved(Sifted.perm) = {})
      /\ UNCHANGED << strong_gens, transversal, orbits, base, degree, src, pt, i, j, phase >>
  BY DEF SiftsToOne, InLoop, chain
<1>2. /\ Arrays /\ Called /\ Generators
      /\ i \in 0 .. Len(base) - 1
      /\ j \in 1 .. Len(orbits[i]) /\ m \in 1 .. Len(strong_gens[i])
      /\ \A l \in 0 .. Len(base) - 1 : Complete(l)
      /\ \A l \in i + 1 .. Len(base) - 1 : Done(l)
      /\ \A q \in 1 .. Len(orbits[i]) : \A r \in 1 .. Len(strong_gens[i]) :
           q < j \/ (q = j /\ r < m) =>
             SchreierGen(Level(i), orbits[i][q], strong_gens[i][r]) \in LevelGroup(i + 1)
  BY <1>1, LoopFacts
<1>3. /\ Called => Called'
      /\ Generators => Generators'
      /\ \A l : Complete(l) => Complete(l)'
      /\ \A l : Done(l) => Done(l)'
      /\ \A l : LevelGroup(l)' = LevelGroup(l) /\ Level(l)' = Level(l)
  BY <1>1, ChainKept
<1>4. PICK z : z = SchreierGen(Level(i), orbits[i][j], strong_gens[i][m])
  OBVIOUS
<1>5. /\ Product = Target => z \in LevelGroup(i + 1)
      /\ Residue(i, z, Sifted)
  BY <1>1, <1>4, ThisSchreierGen
<1>6. z \in LevelGroup(i + 1)
  <2>1. CASE Product = Target
    BY <1>5, <2>1
  <2>2. CASE Moved(Sifted.perm) = {}
    <3>1. PICK n \in Nat : n = degree
      BY <1>2, SizeAssumption DEF Called
    <3>2. PICK x \in Perms(n) : x = Sifted.perm
      BY <1>5, <3>1 DEF Residue
    <3>3. x = IdPerm(n)
      BY <2>2, <3>2, MinMoved
    <3>4. PICK h \in LevelGroup(i + 1) : z = prod_perms(x, h)
      BY <1>5, <3>2 DEF Residue
    <3>5. h \in Perms(n)
      <4>1. IsGroup(LevelGroup(i + 1), n)
        BY <1>2, <3>1, LevelSetting, LevelGroups
      <4> QED  BY <4>1 DEF IsGroup
    <3> QED  BY <3>3, <3>4, <3>5, ProdIdentity
  <2> QED  BY <1>1, <2>1, <2>2
<1>7. Arrays'
  BY <1>1, <1>2 DEF Arrays
<1>8. InSift'
  <2>1. ASSUME NEW q \in 1 .. Len(orbits[i]), NEW r \in 1 .. Len(strong_gens[i]),
               q < j \/ (q = j /\ r < m + 1)
        PROVE  SchreierGen(Level(i), orbits[i][q], strong_gens[i][r]) \in LevelGroup(i + 1)
    <3>1. CASE q = j /\ r = m
      BY <1>4, <1>6, <3>1
    <3>2. CASE ~ (q = j /\ r = m)
      <4>1. q < j \/ (q = j /\ r < m)
        BY <1>2, <2>1, <3>2
      <4> QED  BY <1>2, <4>1
    <3> QED  BY <3>1, <3>2
  <2>2. i' \in -1 .. Len(base') - 1 /\ j' \in Nat \ {0} /\ m' \in Nat \ {0}
    BY <1>1, <1>2
  <2>3. \A l \in 0 .. Len(base') - 1 : Complete(l)'
    BY <1>1, <1>2, <1>3
  <2>4. \A l \in i' + 1 .. Len(base') - 1 : Done(l)'
    BY <1>1, <1>2, <1>3
  <2>5. \A q \in 1 .. Len(orbits'[i']) : \A r \in 1 .. Len(strong_gens'[i']) :
          q < j' \/ (q = j' /\ r < m') =>
            SchreierGen(Level(i), orbits[i][q], strong_gens[i][r])' \in LevelGroup(i + 1)'
    <3>1. Level(i)' = Level(i) /\ LevelGroup(i + 1)' = LevelGroup(i + 1)
      BY <1>1 DEF Level, LevelGroup
    <3>2. \A q, r : SchreierGen(Level(i), orbits[i][q], strong_gens[i][r])' =
                    SchreierGen(Level(i), orbits[i][q], strong_gens[i][r])
      BY <1>1, <3>1 DEF SchreierGen
    <3> QED  BY <1>1, <2>1, <3>1, <3>2
  <2>6. phase' # "done"
    BY <1>1
  <2> QED  BY <2>2, <2>3, <2>4, <2>5, <2>6 DEF InSift
<1> QED  BY <1>1, <1>2, <1>3, <1>7, <1>8 DEF SchreierInv, InBase, InLevels

(* To the next point: all generators were looked at with this one.           *)
LEMMA NextPointSchreier ==
  ASSUME SchreierInv, NextPoint
  PROVE  SchreierInv'
<1>1. /\ phase = "sift" /\ i >= 0 /\ j <= Len(orbits[i]) /\ m > Len(strong_gens[i])
      /\ j' = j + 1 /\ m' = 1
      /\ UNCHANGED << strong_gens, transversal, orbits, base, degree, src, pt, i, phase >>
  BY DEF NextPoint, chain
<1>2. Arrays /\ Called /\ Generators /\ InSift
  BY <1>1 DEF SchreierInv
<1>3. /\ i \in 0 .. Len(base) - 1 /\ j \in Nat \ {0} /\ m \in Nat \ {0} /\ Len(base) \in Nat
      /\ \A l \in 0 .. Len(base) - 1 : Complete(l)
      /\ \A l \in i + 1 .. Len(base) - 1 : Done(l)
      /\ \A q \in 1 .. Len(orbits[i]) : \A r \in 1 .. Len(strong_gens[i]) :
           q < j \/ (q = j /\ r < m) =>
             SchreierGen(Level(i), orbits[i][q], strong_gens[i][r]) \in LevelGroup(i + 1)
  <2>1. i \in -1 .. Len(base) - 1 /\ Len(base) \in Nat
    BY <1>1, <1>2 DEF InSift, Called
  <2> QED  BY <1>1, <1>2, <2>1 DEF InSift
<1>4. /\ Called => Called'
      /\ Generators => Generators'
      /\ \A l : Complete(l) => Complete(l)'
      /\ \A l : Done(l) => Done(l)'
      /\ \A l : LevelGroup(l)' = LevelGroup(l) /\ Level(l)' = Level(l)
  BY <1>1, ChainKept
<1>5. Arrays'
  BY <1>1, <1>2 DEF Arrays
<1>6. Len(strong_gens[i]) \in Nat
  <2>1. strong_gens[i] \in Seq(Perms(degree))
    BY <1>2, <1>3, LevelSetting
  <2> QED  BY <2>1, LenProperties
<1>7. InSift'
  <2>1. ASSUME NEW q \in 1 .. Len(orbits[i]), NEW r \in 1 .. Len(strong_gens[i]),
               q < j + 1 \/ (q = j + 1 /\ r < 1)
        PROVE  SchreierGen(Level(i), orbits[i][q], strong_gens[i][r]) \in LevelGroup(i + 1)
    <3>1. q < j \/ (q = j /\ r < m)
      BY <1>1, <1>3, <1>6, <2>1
    <3> QED  BY <1>3, <3>1
  <2>2. i' \in -1 .. Len(base') - 1 /\ j' \in Nat \ {0} /\ m' \in Nat \ {0}
    BY <1>1, <1>3
  <2>3. \A l \in 0 .. Len(base') - 1 : Complete(l)'
    BY <1>1, <1>3, <1>4
  <2>4. \A l \in i' + 1 .. Len(base') - 1 : Done(l)'
    BY <1>1, <1>3, <1>4
  <2>5. \A q \in 1 .. Len(orbits'[i']) : \A r \in 1 .. Len(strong_gens'[i']) :
          q < j' \/ (q = j' /\ r < m') =>
            SchreierGen(Level(i), orbits[i][q], strong_gens[i][r])' \in LevelGroup(i + 1)'
    <3>1. Level(i)' = Level(i) /\ LevelGroup(i + 1)' = LevelGroup(i + 1)
      BY <1>1 DEF Level, LevelGroup
    <3>2. \A q, r : SchreierGen(Level(i), orbits[i][q], strong_gens[i][r])' =
                    SchreierGen(Level(i), orbits[i][q], strong_gens[i][r])
      BY <1>1, <3>1 DEF SchreierGen
    <3> QED  BY <1>1, <2>1, <3>1, <3>2
  <2>6. phase' # "done"
    BY <1>1
  <2> QED  BY <2>2, <2>3, <2>4, <2>5, <2>6 DEF InSift
<1> QED  BY <1>1, <1>2, <1>4, <1>5, <1>7 DEF SchreierInv, InBase, InLevels

(* To the level below: by Schreier's lemma this one is done.                 *)
LEMMA NextLevelSchreier ==
  ASSUME SchreierInv, NextLevel
  PROVE  SchreierInv'
<1>1. /\ phase = "sift" /\ i >= 0 /\ j > Len(orbits[i])
      /\ i' = i - 1 /\ j' = 1 /\ m' = 1
      /\ UNCHANGED << strong_gens, transversal, orbits, base, degree, src, pt, phase >>
  BY DEF NextLevel, chain
<1>2. Arrays /\ Called /\ Generators /\ InSift
  BY <1>1 DEF SchreierInv
<1>3. /\ i \in 0 .. Len(base) - 1 /\ j \in Nat \ {0} /\ Len(base) \in Nat
      /\ \A l \in 0 .. Len(base) - 1 : Complete(l)
      /\ \A l \in i + 1 .. Len(base) - 1 : Done(l)
      /\ \A q \in 1 .. Len(orbits[i]) : \A r \in 1 .. Len(strong_gens[i]) :
           q < j => SchreierGen(Level(i), orbits[i][q], strong_gens[i][r]) \in LevelGroup(i + 1)
  BY <1>1, <1>2 DEF InSift, Called
<1>4. /\ Called => Called'
      /\ Generators => Generators'
      /\ \A l : Complete(l) => Complete(l)'
      /\ \A l : Done(l) => Done(l)'
  BY <1>1, ChainKept
<1>5. Arrays'
  BY <1>1, <1>2 DEF Arrays
<1>6. Done(i)
  <2>1. PICK n \in 2 .. HOMOS_STRUCTURE_SIZE - 1 : n = degree
    BY <1>2 DEF Called
  <2>2. PICK d \in 1 .. n - 1 : d = Len(base)
    BY <1>2, <2>1 DEF Called
  <2>3. i \in 0 .. n - 1 /\ i + 1 \in 0 .. n - 1 /\ i + 1 \in 1 .. d
    BY <1>3, <2>2
  <2>4. PICK b \in 0 .. n - 1 : b = base[i + 1]
    <3>1. base \in Seq(0 .. n - 1)
      BY <1>2, <2>1 DEF Called
    <3> QED  BY <2>2, <2>3, <3>1, ElementOfSeq
  <2>5. PICK gens \in Seq(Perms(n)) : gens = strong_gens[i]
    BY <1>2, <2>1, <2>3 DEF Generators
  <2>6. PICK V, G, H : V = Values /\ G = LevelGroup(i) /\ H = LevelGroup(i + 1)
    OBVIOUS
  <2>7. G = Generated(Range(gens), n)
    BY <2>1, <2>5, <2>6 DEF LevelGroup
  <2>8. PICK v \in Levs(n, b, Generated(Range(gens), n), V) : v = Level(i) /\ ClosedTo(v, gens, n)
    BY <1>3, <2>1, <2>4, <2>5, <2>6, <2>7 DEF Complete
  <2>9. IsGroup(H, n) /\ H \subseteq G
    BY <1>2, <2>1, <2>3, <2>6, LevelGroups
  <2>10. \A x \in H : x \in Generated(Range(gens), n) /\ x[b] = b
    <3>1. \A x \in H : x[b] = b
      BY <1>2, <2>1, <2>2, <2>3, <2>4, <2>6, LevelGroups
    <3> QED  BY <2>7, <2>9, <3>1
  <2>11. \A p \in Points(v.orbit) : \A l \in 1 .. Len(gens) : SchreierGen(v, p, gens[l]) \in H
    <3> TAKE p \in Points(v.orbit)
    <3> TAKE l \in 1 .. Len(gens)
    <3>1. v.orbit = orbits[i]
      BY <2>8 DEF Level
    <3>2. PICK q \in 1 .. Len(orbits[i]) : orbits[i][q] = p
      BY <1>3, <3>1, CompleteFacts
    <3>3. Len(orbits[i]) \in Nat
      <4>1. orbits[i] \in Seq(0 .. degree - 1)
        BY <1>3, CompleteFacts
      <4> QED  BY <4>1, LenProperties
    <3>4. q < j
      BY <1>1, <1>3, <3>3
    <3> QED  BY <1>3, <2>5, <2>6, <2>8, <3>2, <3>4
  <2>12. n \in Nat
    OBVIOUS
  <2>13. H = { x \in Generated(Range(gens), n) : x[b] = b }
    BY <2>8, <2>9, <2>10, <2>11, <2>12, SchreierLemma
  <2> QED  BY <2>4, <2>6, <2>7, <2>13 DEF Done
<1>7. InSift'
  <2>1. i' \in -1 .. Len(base') - 1 /\ j' \in Nat \ {0} /\ m' \in Nat \ {0}
    BY <1>1, <1>3
  <2>2. \A l \in 0 .. Len(base') - 1 : Complete(l)'
    BY <1>1, <1>3, <1>4
  <2>3. \A l \in i' + 1 .. Len(base') - 1 : Done(l)'
    <3>1. \A l \in i .. Len(base) - 1 : l = i \/ l \in i + 1 .. Len(base) - 1
      BY <1>3
    <3>2. i' + 1 = i
      BY <1>1, <1>3
    <3> QED  BY <1>1, <1>3, <1>4, <1>6, <3>1, <3>2
  <2>4. \A q \in 1 .. Len(orbits'[i']) : \A r \in 1 .. Len(strong_gens'[i']) :
          ~ (q < j' \/ (q = j' /\ r < m'))
    BY <1>1
  <2>5. phase' # "done"
    BY <1>1
  <2> QED  BY <2>1, <2>2, <2>3, <2>4, <2>5 DEF InSift
<1> QED  BY <1>1, <1>2, <1>4, <1>5, <1>7 DEF SchreierInv, InBase, InLevels

LEMMA FinishedSchreier ==
  ASSUME SchreierInv, Finished
  PROVE  SchreierInv'
<1>1. /\ phase = "sift" /\ i < 0 /\ dst' = strong_gens[1] /\ phase' = "done"
      /\ UNCHANGED << strong_gens, transversal, orbits, base, degree, src, pt, i, j, m >>
  BY DEF Finished, chain
<1>2. Arrays /\ Called /\ Generators /\ InSift
  BY <1>1 DEF SchreierInv
<1>3. /\ Called => Called'
      /\ Generators => Generators'
      /\ \A l : Complete(l) => Complete(l)'
      /\ \A l : Done(l) => Done(l)'
  BY <1>1, ChainKept
<1>4. Arrays'
  BY <1>1, <1>2 DEF Arrays
<1>5. /\ i \in -1 .. Len(base) - 1 /\ j \in Nat \ {0} /\ m \in Nat \ {0}
      /\ \A l \in 0 .. Len(base) - 1 : Complete(l)
      /\ \A l \in i + 1 .. Len(base) - 1 : Done(l)
  BY <1>1, <1>2 DEF InSift
<1>6. i = -1
  BY <1>1, <1>5
<1>7. InSift'
  <2>1. i' \in -1 .. Len(base') - 1 /\ j' \in Nat \ {0} /\ m' \in Nat \ {0}
    BY <1>1, <1>5
  <2>2. \A l \in 0 .. Len(base') - 1 : Complete(l)'
    BY <1>1, <1>3, <1>5
  <2>3. \A l \in i' + 1 .. Len(base') - 1 : Done(l)'
    BY <1>1, <1>3, <1>5
  <2>4. ~ (i' >= 0) /\ i' = -1 /\ dst' = strong_gens'[1]
    BY <1>1, <1>6
  <2> QED  BY <2>1, <2>2, <2>3, <2>4 DEF InSift
<1> QED  BY <1>1, <1>2, <1>3, <1>4, <1>7 DEF SchreierInv, InBase, InLevels

(* The orbit of a complete level is that of its group.                       *)
LEMMA OrbitOfLevel ==
  ASSUME Called, Generators, NEW l \in 0 .. Len(base) - 1, Complete(l)
  PROVE  /\ Points(orbits[l]) = { x[base[l + 1]] : x \in LevelGroup(l) }
         /\ Len(orbits[l]) = Cardinality(Points(orbits[l]))
<1>1. PICK n \in 2 .. HOMOS_STRUCTURE_SIZE - 1 : n = degree
  BY DEF Called
<1>2. PICK b : b = base[l + 1] /\ Setting(n, b, LevelGroup(l), Values)
  BY <1>1, LevelSetting
<1>3. n \in Nat /\ b \in 0 .. n - 1
  BY <1>2 DEF Setting
<1>4. PICK gens \in Seq(Perms(n)) : gens = strong_gens[l]
  BY <1>1, LevelSetting
<1>5. PICK V : V = Values
  OBVIOUS
<1>6. LevelGroup(l) = Generated(Range(gens), n)
  BY <1>1, <1>4 DEF LevelGroup
<1>7. PICK v \in Levs(n, b, Generated(Range(gens), n), V) : v = Level(l)
  BY <1>1, <1>2, <1>4, <1>5, <1>6 DEF Complete
<1>8. ClosedTo(v, gens, n)
  BY <1>1, <1>4, <1>7 DEF Complete
<1>9. /\ \A p \in Points(v.orbit) : \A r \in 1 .. Len(gens) : gens[r][p] \in Points(v.orbit)
      /\ Points(v.orbit) = { x[b] : x \in Generated(Range(gens), n) }
      /\ Len(v.orbit) <= n
      /\ Len(v.orbit) = Cardinality(Points(v.orbit))
  BY <1>3, <1>8, WholeOrbit, Zenon
<1>10. v.orbit = orbits[l]
  BY <1>7 DEF Level
<1> QED  BY <1>2, <1>6, <1>9, <1>10

(* What is left is new to every level it is added to, as the levels above    *)
(* that of the loop are done.                                                *)
LEMMA ResidueIsNew ==
  ASSUME SchreierInv, AddResidue
  PROVE  /\ Sifted.depth \in i + 1 .. Len(base)
         /\ Sifted.perm \in Perms(degree) /\ Sifted.perm # IdPerm(degree)
         /\ \A k \in 1 .. Sifted.depth : Sifted.perm[base[k]] = base[k]
         /\ Sifted.perm \in LevelGroup(i)
         /\ \A l \in i + 1 .. Sifted.depth : Sifted.perm \notin LevelGroup(l)
<1>1. InLoop /\ (Sifted.depth < Len(base) \/ Moved(Sifted.perm) # {})
  BY DEF AddResidue
<1>2. /\ Called /\ Generators
      /\ i \in 0 .. Len(base) - 1
      /\ \A l \in 0 .. Len(base) - 1 : Complete(l)
      /\ \A l \in i + 1 .. Len(base) - 1 : Done(l)
  BY <1>1, LoopFacts
<1>3. PICK n \in 2 .. HOMOS_STRUCTURE_SIZE - 1 : n = degree
  BY <1>2 DEF Called
<1>4. PICK d \in 1 .. n - 1 : d = Len(base)
  BY <1>2, <1>3 DEF Called
<1>5. PICK c \in 0 .. d - 1 : c = i
  BY <1>2, <1>4
<1>6. PICK z \in LevelGroup(c) : Residue(c, z, Sifted)
  <2>1. PICK z : z = SchreierGen(Level(i), orbits[i][j], strong_gens[i][m])
    OBVIOUS
  <2>2. z \in LevelGroup(i) /\ Residue(i, z, Sifted)
    BY <1>1, <2>1, ThisSchreierGen
  <2> QED  BY <1>5, <2>2
<1>7. PICK h \in Perms(n), e \in c + 1 .. d :
        /\ h = Sifted.perm /\ e = Sifted.depth
        /\ \A k \in 1 .. e : h[base[k]] = base[k]
        /\ \E y \in LevelGroup(c + 1) : z = prod_perms(h, y)
        /\ e < d => h[base[e + 1]] \notin Points(orbits[e])
  BY <1>3, <1>4, <1>6 DEF Residue
<1>8. c \in 0 .. n - 1 /\ c + 1 \in 0 .. n - 1 /\ e \in 0 .. n - 1
  OBVIOUS
<1>9. /\ IsGroup(LevelGroup(c), n) /\ IsGroup(LevelGroup(c + 1), n)
      /\ LevelGroup(c + 1) \subseteq LevelGroup(c)
  BY <1>2, <1>3, <1>8, LevelGroups
<1>10. h \in LevelGroup(c)
  <2>1. PICK y \in LevelGroup(c) : z = prod_perms(h, y)
    BY <1>7, <1>9
  <2>2. PICK w \in LevelGroup(c) : w = invert_perm(y)
    BY <1>9 DEF IsGroup
  <2>3. y \in Perms(n) /\ w \in Perms(n)
    BY <1>9 DEF IsGroup
  <2>4. prod_perms(z, w) = prod_perms(h, prod_perms(y, w))
    BY <2>1, <2>3, ProdAssociative
  <2>5. prod_perms(y, w) = IdPerm(n)
    BY <2>2, <2>3, ProdInverse
  <2>6. prod_perms(z, w) = h
    BY <2>4, <2>5, ProdIdentity
  <2>7. prod_perms(z, w) \in LevelGroup(c)
    BY <1>9 DEF IsGroup
  <2> QED  BY <2>6, <2>7
<1>11. h # IdPerm(n)
  <2>1. CASE e < d
    <3>1. e \in 0 .. Len(base) - 1 /\ e + 1 \in 1 .. d
      BY <1>4, <2>1
    <3>2. base[e + 1] \in Points(orbits[e]) /\ Points(orbits[e]) \subseteq 0 .. n - 1
      BY <1>2, <1>3, <3>1, CompleteFacts
    <3> QED  BY <1>7, <2>1, <3>2, IdentityPerm
  <2>2. CASE ~ (e < d)
    <3>1. Moved(h) # {}
      BY <1>1, <1>4, <1>7, <2>2
    <3> QED  BY <3>1, MinMoved
  <2> QED  BY <2>1, <2>2
<1>12. ASSUME NEW l \in c + 1 .. e, h \in LevelGroup(l) PROVE FALSE
  <2> DEFINE T == { k \in Nat : l + k <= e => h \in LevelGroup(l + k) }
  <2>1. 0 \in T
    BY <1>12
  <2>2. ASSUME NEW k \in T PROVE k + 1 \in T
    <3> SUFFICES ASSUME l + (k + 1) <= e PROVE h \in LevelGroup(l + (k + 1))
      OBVIOUS
    <3>1. /\ k \in Nat /\ l + (k + 1) = (l + k) + 1 /\ l + k <= e
          /\ l + k \in i + 1 .. Len(base) - 1 /\ (l + k) + 1 \in 1 .. e
      BY <1>4, <1>5
    <3>2. h \in LevelGroup(l + k) /\ h[base[(l + k) + 1]] = base[(l + k) + 1]
      BY <1>7, <3>1
    <3>3. Done(l + k)
      BY <1>2, <3>1
    <3> QED  BY <3>1, <3>2, <3>3 DEF Done
  <2>3. T \in SUBSET Nat
    OBVIOUS
  <2>4. T = Nat
    <3> HIDE DEF T
    <3> QED  BY <2>1, <2>2, <2>3, Induction
  <2>5. PICK k \in Nat : l + k = e
    <3>1. e - l \in Nat /\ l + (e - l) = e
      OBVIOUS
    <3> QED  BY <3>1
  <2>6. k \in T
    <3> HIDE DEF T
    <3> QED  BY <2>4
  <2>7. h \in LevelGroup(e)
    BY <2>5, <2>6
  <2>8. CASE e < d
    <3>1. e \in 0 .. Len(base) - 1 /\ e + 1 \in 1 .. d
      BY <1>4, <2>8
    <3>2. Points(orbits[e]) = { x[base[e + 1]] : x \in LevelGroup(e) }
      BY <1>2, <3>1, OrbitOfLevel
    <3> QED  BY <1>7, <2>7, <2>8, <3>2
  <2>9. CASE ~ (e < d)
    <3>1. e \in Len(base) .. n - 1
      BY <1>4, <2>9
    <3>2. h = IdPerm(n)
      BY <1>2, <1>3, <2>7, <3>1, LevelGroups
    <3> QED  BY <1>11, <3>2
  <2> QED  BY <2>8, <2>9
<1> QED  BY <1>3, <1>4, <1>5, <1>7, <1>10, <1>11, <1>12

(* The base after a residue was added: its level has a base point.           *)
LEMMA ResidueBase ==
  ASSUME SchreierInv, AddResidue
  PROVE  /\ base' \in Seq(0 .. degree - 1) /\ Len(base') \in 1 .. degree - 1
         /\ Len(base) \in Nat /\ Len(base) <= Len(base') /\ Sifted.depth < Len(base')
         /\ \A k \in 1 .. Len(base) : base'[k] = base[k]
         /\ \A p, q \in 1 .. Len(base') : base'[p] = base'[q] => p = q
         /\ Sifted.depth < Len(base) => Len(base') = Len(base)
         /\ ~ (Sifted.depth < Len(base)) =>
              /\ Len(base') = Len(base) + 1 /\ Sifted.depth = Len(base)
              /\ base'[Len(base) + 1] = Min(Moved(Sifted.perm))
<1>1. /\ Called
      /\ base' = IF Sifted.depth < Len(base) THEN base ELSE Append(base, Min(Moved(Sifted.perm)))
  BY LoopFacts DEF AddResidue
<1>2. PICK n \in 2 .. HOMOS_STRUCTURE_SIZE - 1 : n = degree
  BY <1>1 DEF Called
<1>3. PICK d \in 1 .. n - 1 : d = Len(base)
  BY <1>1, <1>2 DEF Called
<1>4. /\ base \in Seq(0 .. n - 1)
      /\ \A p, q \in 1 .. d : base[p] = base[q] => p = q
  BY <1>1, <1>2, <1>3 DEF Called
<1>5. PICK h \in Perms(n), e \in Nat :
        /\ h = Sifted.perm /\ e = Sifted.depth /\ h # IdPerm(n) /\ e <= d
        /\ \A k \in 1 .. e : h[base[k]] = base[k]
  <2>1. i \in 0 .. Len(base) - 1
    BY LoopFacts DEF AddResidue
  <2>2. /\ Sifted.depth \in i + 1 .. Len(base)
        /\ Sifted.perm \in Perms(degree) /\ Sifted.perm # IdPerm(degree)
        /\ \A k \in 1 .. Sifted.depth : Sifted.perm[base[k]] = base[k]
    BY ResidueIsNew
  <2>3. Sifted.depth \in Nat /\ Sifted.depth <= d
    BY <1>3, <2>1, <2>2
  <2> QED  BY <1>2, <2>2, <2>3
<1>6. CASE e < d
  <2>1. base' = base
    BY <1>1, <1>3, <1>5, <1>6
  <2> QED  BY <1>2, <1>3, <1>4, <1>5, <1>6, <2>1
<1>7. CASE ~ (e < d)
  <2>1. e = d
    BY <1>5, <1>7
  <2>2. PICK p \in 0 .. n - 1 : p = Min(Moved(h)) /\ h[p] # p
    BY <1>5, MinMoved
  <2>3. base' = Append(base, p)
    BY <1>1, <1>3, <1>5, <1>7, <2>2
  <2>4. PICK bs \in Seq(0 .. n - 1) : bs = base
    BY <1>4
  <2>5. /\ \A q, k \in 1 .. Len(bs) : bs[q] = bs[k] => q = k
        /\ \A k \in 1 .. Len(bs) : h[bs[k]] = bs[k]
    BY <1>3, <1>4, <1>5, <2>1, <2>4
  <2>6. Len(bs) + 2 <= n /\ \A k \in 1 .. Len(bs) : bs[k] # p
    BY <2>2, <2>5, FixesAllButOne
  <2>7. /\ Append(bs, p) \in Seq(0 .. n - 1)
        /\ Len(Append(bs, p)) = Len(bs) + 1
        /\ \A k \in 1 .. Len(bs) : Append(bs, p)[k] = bs[k]
        /\ Append(bs, p)[Len(bs) + 1] = p
    BY <2>5, <2>6, BaseGrows
  <2>8. \A q, k \in 1 .. Len(Append(bs, p)) : Append(bs, p)[q] = Append(bs, p)[k] => q = k
    BY <2>5, <2>6, BaseGrows
  <2>9. /\ base' \in Seq(0 .. n - 1) /\ Len(base') = d + 1 /\ d + 2 <= n
        /\ \A k \in 1 .. d : base'[k] = base[k]
        /\ base'[d + 1] = p
        /\ \A q, k \in 1 .. Len(base') : base'[q] = base'[k] => q = k
    BY <1>3, <2>3, <2>4, <2>6, <2>7, <2>8
  <2>10. Len(base') \in 1 .. n - 1 /\ d <= Len(base') /\ e < Len(base')
    BY <2>1, <2>9
  <2>11. ~ (Sifted.depth < Len(base)) /\ Sifted.depth = Len(base)
    BY <1>3, <1>5, <1>7, <2>1
  <2> QED  BY <1>2, <1>3, <1>5, <2>1, <2>2, <2>9, <2>10, <2>11
<1> QED  BY <1>6, <1>7

(* The generators after a residue was added, and the groups: those of the    *)
(* levels it was added to are larger, all others are the same.               *)
LEMMA ResidueGenerators ==
  ASSUME SchreierInv, AddResidue,
         NEW h, h = Sifted.perm, NEW e, e = Sifted.depth, NEW c, c = i,
         NEW n, n = degree
  PROVE  /\ n \in 2 .. HOMOS_STRUCTURE_SIZE - 1 /\ degree' = n
         /\ h \in Perms(n) /\ c \in 0 .. Len(base) - 1
         /\ e \in c + 1 .. Len(base) /\ e \in 1 .. n - 1 /\ e <= n - 2 /\ e < Len(base')
         /\ strong_gens' \in [Levels -> Seq(AnyPerms)]
         /\ \A l \in Levels : strong_gens'[l] = IF c < l /\ l <= e THEN Append(strong_gens[l], h)
                                                ELSE strong_gens[l]
         /\ \A l \in 0 .. n - 1 :
              /\ strong_gens'[l] \in Seq(Perms(n))
              /\ Range(strong_gens'[l]) =
                   Range(strong_gens[l]) \cup (IF c < l /\ l <= e THEN {h} ELSE {})
              /\ IsGroup(LevelGroup(l)', n)
              /\ LevelGroup(l) \subseteq LevelGroup(l)'
              /\ Range(strong_gens'[l]) \subseteq LevelGroup(l)'
              /\ ~ (c < l /\ l <= e) => LevelGroup(l)' = LevelGroup(l)
<1>1. /\ Arrays /\ Called /\ Generators
      /\ i \in 0 .. Len(base) - 1
  BY LoopFacts DEF AddResidue
<1>2. n \in 2 .. HOMOS_STRUCTURE_SIZE - 1 /\ degree' = n
  BY <1>1 DEF Called, AddResidue
<1>3. PICK d \in 1 .. n - 1 : d = Len(base)
  BY <1>1 DEF Called
<1>4. /\ e \in c + 1 .. d
      /\ h \in Perms(n)
  BY <1>3, ResidueIsNew
<1>5. Len(base') \in 1 .. n - 1 /\ e < Len(base')
  BY ResidueBase
<1>6. c \in 0 .. d - 1 /\ e \in 1 .. n - 1 /\ e <= n - 2
  BY <1>1, <1>2, <1>3, <1>4, <1>5
<1>7. strong_gens' = [l \in Levels |-> IF c < l /\ l <= e THEN Append(strong_gens[l], h)
                                       ELSE strong_gens[l]]
  <2>1. PICK new : new = { l \in Levels : c < l /\ l <= e }
    OBVIOUS
  <2>2. strong_gens' = [l \in Levels |-> IF l \in new THEN Append(strong_gens[l], h)
                                         ELSE strong_gens[l]]
    BY <2>1 DEF AddResidue
  <2> QED  BY <2>1, <2>2
<1>8. strong_gens \in [Levels -> Seq(AnyPerms)]
  BY <1>1 DEF Arrays
<1>9. n \in 0 .. HOMOS_STRUCTURE_SIZE /\ 0 .. n - 1 \subseteq Levels
  BY <1>2, SizeAssumption DEF Levels
<1>10. h \in AnyPerms
  BY <1>4, <1>9, PermsOfAll
<1>11. strong_gens' \in [Levels -> Seq(AnyPerms)]
  <2>1. \A l \in Levels : Append(strong_gens[l], h) \in Seq(AnyPerms)
    BY <1>8, <1>10, AppendFacts
  <2> QED  BY <1>7, <1>8, <2>1
<1>12. ASSUME NEW l \in 0 .. n - 1
       PROVE  /\ strong_gens'[l] \in Seq(Perms(n))
              /\ Range(strong_gens'[l]) =
                   Range(strong_gens[l]) \cup (IF c < l /\ l <= e THEN {h} ELSE {})
              /\ IsGroup(LevelGroup(l)', n)
              /\ LevelGroup(l) \subseteq LevelGroup(l)'
              /\ Range(strong_gens'[l]) \subseteq LevelGroup(l)'
              /\ ~ (c < l /\ l <= e) => LevelGroup(l)' = LevelGroup(l)
  <2>1. PICK P : P = Perms(n)
    OBVIOUS
  <2>2. PICK s \in Seq(P) : s = strong_gens[l]
    BY <1>1, <2>1 DEF Generators
  <2>3. /\ Append(s, h) \in Seq(P)
        /\ Range(Append(s, h)) = Range(s) \cup {h}
    BY <1>4, <2>1, AppendFacts
  <2>4. PICK t \in Seq(P) : t = strong_gens'[l]
    BY <1>7, <1>9, <2>2, <2>3
  <2>5. Range(t) = Range(s) \cup (IF c < l /\ l <= e THEN {h} ELSE {})
    BY <1>7, <1>9, <2>2, <2>3, <2>4
  <2>6. PICK R, T : R = Range(s) /\ T = Range(t)
    OBVIOUS
  <2>7. R \in SUBSET Perms(n) /\ T \in SUBSET Perms(n) /\ R \in SUBSET T
    BY <2>1, <2>5, <2>6, RangeFacts
  <2>8. LevelGroup(l) = Generated(R, n) /\ LevelGroup(l)' = Generated(T, n)
    BY <1>2, <2>2, <2>4, <2>6 DEF LevelGroup
  <2>9. n \in Nat
    BY <1>2, SizeAssumption
  <2>10. IsGroup(Generated(T, n), n) /\ T \subseteq Generated(T, n)
    BY <2>7, <2>9, GeneratedFacts
  <2>11. Generated(R, n) \subseteq Generated(T, n)
    BY <2>7, <2>9, GeneratedMore
  <2>12. ~ (c < l /\ l <= e) => R = T
    BY <2>5, <2>6
  <2> QED  BY <2>1, <2>2, <2>4, <2>5, <2>6, <2>8, <2>10, <2>11, <2>12
<1>13. \A l \in Levels : strong_gens'[l] = IF c < l /\ l <= e THEN Append(strong_gens[l], h)
                                           ELSE strong_gens[l]
  BY <1>7
<1> QED  BY <1>2, <1>3, <1>4, <1>5, <1>6, <1>11, <1>12, <1>13

(* Every level the residue was added to is complete again, the new one too.  *)
LEMMA ResidueLevel ==
  ASSUME SchreierInv, AddResidue, NEW l \in i + 1 .. Sifted.depth
  PROVE  /\ Complete(l)'
         /\ orbits'[l] \in Seq(Levels) /\ transversal'[l] \in [Levels -> Values]
<1>1. PICK h, e, c, n : h = Sifted.perm /\ e = Sifted.depth /\ c = i /\ n = degree
  OBVIOUS
<1>2. /\ n \in 2 .. HOMOS_STRUCTURE_SIZE - 1 /\ degree' = n
      /\ h \in Perms(n) /\ c \in 0 .. Len(base) - 1
      /\ e \in c + 1 .. Len(base) /\ e \in 1 .. n - 1 /\ e <= n - 2 /\ e < Len(base')
      /\ \A q \in Levels : strong_gens'[q] = IF c < q /\ q <= e THEN Append(strong_gens[q], h)
                                             ELSE strong_gens[q]
      /\ \A q \in 0 .. n - 1 :
           /\ strong_gens'[q] \in Seq(Perms(n))
           /\ Range(strong_gens'[q]) =
                Range(strong_gens[q]) \cup (IF c < q /\ q <= e THEN {h} ELSE {})
           /\ IsGroup(LevelGroup(q)', n)
           /\ LevelGroup(q) \subseteq LevelGroup(q)'
           /\ Range(strong_gens'[q]) \subseteq LevelGroup(q)'
  BY <1>1, ResidueGenerators
<1>3. /\ Arrays /\ Called /\ Generators
      /\ \A q \in 0 .. Len(base) - 1 : Complete(q)
  BY LoopFacts DEF AddResidue
<1>4. PICK d \in 1 .. n - 1 : d = Len(base)
  BY <1>1, <1>3 DEF Called
<1>5. /\ base' \in Seq(0 .. n - 1) /\ Len(base') \in 1 .. n - 1
      /\ \A k \in 1 .. d : base'[k] = base[k]
      /\ ~ (e < d) => Len(base') = d + 1 /\ e = d /\ base'[d + 1] = Min(Moved(h))
  BY <1>1, <1>4, ResidueBase
<1>6. /\ l \in 1 .. n - 2 /\ c < l /\ l <= e /\ l \in 0 .. n - 1 /\ l \in Levels
      /\ l + 1 \in 1 .. Len(base') /\ n \in 0 .. HOMOS_STRUCTURE_SIZE /\ n \in Nat
  BY <1>1, <1>2, <1>4, <1>5, SizeAssumption DEF Levels
<1>7. PICK b \in 0 .. n - 1 : b = base'[l + 1]
  BY <1>5, <1>6, ElementOfSeq
<1>8. PICK G, V, gens : G = LevelGroup(l)' /\ V = Values /\ gens = strong_gens'[l]
  OBVIOUS
<1>9. PICK fresh : fresh = [orbit |-> << Min(Moved(h)) >>,
                            trans |-> [transversal[e] EXCEPT ![Min(Moved(h))] = IdPerm(n)]]
  OBVIOUS
<1>10. PICK v : v = IF l < d THEN Level(l) ELSE fresh
  OBVIOUS
<1>11. /\ orbits'[l] = add_gen_orbit_ss(v, h, gens).orbit
       /\ transversal'[l] = add_gen_orbit_ss(v, h, gens).trans
  <2>1. PICK new : new = { q \in Levels : c < q /\ q <= e }
    OBVIOUS
  <2>2. PICK gs : gs = [q \in Levels |-> IF q \in new THEN Append(strong_gens[q], h)
                                         ELSE strong_gens[q]]
    OBVIOUS
  <2>3. PICK lev : lev = [q \in new |->
                           add_gen_orbit_ss(IF q < Len(base) THEN Level(q) ELSE fresh, h, gs[q])]
    OBVIOUS
  <2>4. /\ orbits' = [q \in Levels |-> IF q \in new THEN lev[q].orbit ELSE orbits[q]]
        /\ transversal' = [q \in Levels |-> IF q \in new THEN lev[q].trans ELSE transversal[q]]
    BY <1>1, <1>9, <2>1, <2>2, <2>3 DEF AddResidue
  <2>5. l \in new
    BY <1>6, <2>1
  <2>6. gs[l] = gens
    BY <1>2, <1>6, <1>8, <2>2, <2>5
  <2>7. lev[l] = add_gen_orbit_ss(v, h, gens)
    BY <1>4, <1>10, <2>3, <2>5, <2>6
  <2> QED  BY <1>6, <2>4, <2>5, <2>7
<1>12. Setting(degree, b, G, V) /\ IsGroup(G, n)
  BY <1>1, <1>2, <1>6, <1>7, <1>8, PermsOfAll DEF Setting
<1>13. PICK P : P = Perms(n)
  OBVIOUS
<1>14. PICK old \in Seq(P) : old = strong_gens[l]
  BY <1>1, <1>3, <1>6, <1>13 DEF Generators
<1>15. gens = Append(old, h) /\ Range(old) \subseteq G /\ h \in G
  BY <1>2, <1>6, <1>8, <1>14
<1>16. PICK og \in Seq(G) : og = old
  BY <1>15, OverElements
<1>17. v \in Levs(degree, b, G, V) /\ ClosedTo(v, old, degree)
  <2>1. CASE l < d
    <3>1. l \in 0 .. d - 1 /\ l + 1 \in 1 .. d
      BY <1>6, <2>1
    <3>2. Complete(l) /\ base[l + 1] = b
      BY <1>3, <1>4, <1>5, <1>7, <3>1
    <3>3. PICK H : H = LevelGroup(l) /\ H \subseteq G
      BY <1>2, <1>6, <1>8
    <3>4. v \in Levs(degree, b, H, V) /\ ClosedTo(v, old, degree)
      BY <1>8, <1>10, <1>14, <2>1, <3>2, <3>3 DEF Complete
    <3>5. PICK k : k = degree
      OBVIOUS
    <3>6. v \in Levs(k, b, G, V)
      BY <3>3, <3>4, <3>5, LargerGroup
    <3> QED  BY <3>4, <3>5, <3>6
  <2>2. CASE ~ (l < d)
    <3>1. l = d /\ e = d /\ l \in d .. n - 1
      BY <1>2, <1>4, <1>6, <2>2
    <3>2. b = Min(Moved(h))
      BY <1>5, <1>7, <3>1
    <3>3. old = << >>
      BY <1>1, <1>3, <1>4, <1>14, <3>1 DEF Generators
    <3>4. PICK t \in [Levels -> V] : t = [transversal[e] EXCEPT ![b] = IdPerm(n)]
                                   /\ t[b] = IdPerm(n)
      <4>1. transversal[l] \in [Levels -> V]
        BY <1>3, <1>6, <1>8 DEF Arrays
      <4>2. b \in Levels /\ IdPerm(n) \in V
        BY <1>2, <1>6, <1>8, IdentityPerm, PermsOfAll, SizeAssumption DEF Levels
      <4>3. PICK t \in [Levels -> V] : t = transversal[e]
        BY <3>1, <4>1
      <4>4. PICK y \in V : y = IdPerm(n)
        BY <4>2
      <4>5. [t EXCEPT ![b] = y] \in [Levels -> V] /\ [t EXCEPT ![b] = y][b] = y
        BY <4>2
      <4> QED  BY <4>3, <4>4, <4>5
    <3>5. v = [orbit |-> << b >>, trans |-> t]
      BY <1>9, <1>10, <2>2, <3>2, <3>4
    <3>6. v \in Levs(n, b, G, V)
      BY <1>6, <1>12, <3>4, <3>5, OnePoint
    <3>7. \A q : q \notin 1 .. Len(old)
      BY <3>3
    <3> QED  BY <1>1, <3>6, <3>7 DEF ClosedTo
  <2> QED  BY <2>1, <2>2
<1>18. PICK r : r = add_gen_orbit_ss(v, h, gens)
  OBVIOUS
<1>19. r \in Levs(degree, b, G, V) /\ ClosedTo(r, gens, degree)
  <2>1. PICK u \in Levs(degree, b, G, V) : u = v /\ ClosedTo(u, og, degree)
    BY <1>16, <1>17
  <2>2. h \in G /\ gens = Append(og, h)
    BY <1>15, <1>16
  <2>3. /\ add_gen_orbit_ss(u, h, gens) \in Levs(degree, b, G, V)
        /\ ClosedTo(add_gen_orbit_ss(u, h, gens), gens, degree)
    BY <1>12, <2>1, <2>2, AddGenFacts
  <2> QED  BY <1>18, <2>1, <2>3
<1>20. r = [orbit |-> r.orbit, trans |-> r.trans]
  BY <1>19 DEF Levs
<1>21. Level(l)' = r
  BY <1>11, <1>18, <1>20 DEF Level
<1>22. Complete(l)'
  BY <1>1, <1>2, <1>7, <1>8, <1>19, <1>21 DEF Complete
<1>23. r.orbit \in Seq(Levels) /\ r.trans \in [Levels -> Values]
  BY <1>1, <1>6, <1>8, <1>19, LevInArrays
<1> QED  BY <1>11, <1>18, <1>22, <1>23

LEMMA AddResidueSchreier ==
  ASSUME SchreierInv, AddResidue
  PROVE  SchreierInv'
<1>1. PICK h, e, c, n : h = Sifted.perm /\ e = Sifted.depth /\ c = i /\ n = degree
  OBVIOUS
<1>2. /\ n \in 2 .. HOMOS_STRUCTURE_SIZE - 1 /\ degree' = n
      /\ h \in Perms(n) /\ c \in 0 .. Len(base) - 1
      /\ e \in c + 1 .. Len(base) /\ e \in 1 .. n - 1 /\ e <= n - 2 /\ e < Len(base')
      /\ strong_gens' \in [Levels -> Seq(AnyPerms)]
      /\ \A q \in Levels : strong_gens'[q] = IF c < q /\ q <= e THEN Append(strong_gens[q], h)
                                             ELSE strong_gens[q]
      /\ \A q \in 0 .. n - 1 :
           /\ strong_gens'[q] \in Seq(Perms(n))
           /\ Range(strong_gens'[q]) =
                Range(strong_gens[q]) \cup (IF c < q /\ q <= e THEN {h} ELSE {})
           /\ LevelGroup(q) \subseteq LevelGroup(q)'
           /\ Range(strong_gens'[q]) \subseteq LevelGroup(q)'
           /\ ~ (c < q /\ q <= e) => LevelGroup(q)' = LevelGroup(q)
  BY <1>1, ResidueGenerators
<1>3. /\ Arrays /\ Called /\ Generators
      /\ \A l \in 0 .. Len(base) - 1 : Complete(l)
      /\ \A l \in c + 1 .. Len(base) - 1 : Done(l)
  BY <1>1, LoopFacts DEF AddResidue
<1>4. PICK d \in 1 .. n - 1 : d = Len(base)
  BY <1>1, <1>3 DEF Called
<1>5. PICK d2 \in 1 .. n - 1 :
        /\ d2 = Len(base') /\ d <= d2 /\ e < d2
        /\ base' \in Seq(0 .. n - 1)
        /\ \A k \in 1 .. d : base'[k] = base[k]
        /\ \A p, q \in 1 .. d2 : base'[p] = base'[q] => p = q
        /\ e < d => d2 = d
        /\ ~ (e < d) => d2 = d + 1 /\ e = d
  BY <1>1, <1>4, ResidueBase
<1>6. /\ \A k \in 1 .. e : h[base[k]] = base[k]
      /\ h \in LevelGroup(c)
  BY <1>1, ResidueIsNew
<1>7. /\ phase = "sift" /\ phase' = "sift" /\ i' = e /\ j' = 1 /\ m' = 1
      /\ src' = src /\ pt' = pt
  BY <1>1 DEF AddResidue, InLoop
<1>8. /\ c \in 0 .. d - 1 /\ e \in c + 1 .. d /\ 0 .. n - 1 \subseteq Levels
      /\ n \in 0 .. HOMOS_STRUCTURE_SIZE
  BY <1>2, <1>4, SizeAssumption DEF Levels
<1>9. PICK new, lev :
        /\ new = { l \in Levels : c < l /\ l <= e }
        /\ orbits' = [l \in Levels |-> IF l \in new THEN lev[l].orbit ELSE orbits[l]]
        /\ transversal' = [l \in Levels |-> IF l \in new THEN lev[l].trans ELSE transversal[l]]
  <2>1. PICK new : new = { l \in Levels : c < l /\ l <= e }
    OBVIOUS
  <2>2. PICK fresh : fresh = [orbit |-> << Min(Moved(h)) >>,
                              trans |-> [transversal[e] EXCEPT ![Min(Moved(h))] = IdPerm(n)]]
    OBVIOUS
  <2>3. PICK gs : gs = [l \in Levels |-> IF l \in new THEN Append(strong_gens[l], h)
                                         ELSE strong_gens[l]]
    OBVIOUS
  <2>4. PICK lev : lev = [l \in new |->
                           add_gen_orbit_ss(IF l < Len(base) THEN Level(l) ELSE fresh, h, gs[l])]
    OBVIOUS
  <2>5. /\ orbits' = [l \in Levels |-> IF l \in new THEN lev[l].orbit ELSE orbits[l]]
        /\ transversal' = [l \in Levels |-> IF l \in new THEN lev[l].trans ELSE transversal[l]]
    BY <1>1, <2>1, <2>2, <2>3, <2>4 DEF AddResidue
  <2> QED  BY <2>1, <2>5
<1>10. \A l \in Levels : ~ (c < l /\ l <= e) =>
        /\ strong_gens'[l] = strong_gens[l]
        /\ orbits'[l] = orbits[l] /\ transversal'[l] = transversal[l]
  BY <1>2, <1>9
<1>11. Arrays'
  <2>1. \A l \in Levels : c < l /\ l <= e => l \in i + 1 .. Sifted.depth
    BY <1>1, <1>8 DEF Levels
  <2>2. \A l \in Levels : orbits'[l] \in Seq(Levels) /\ transversal'[l] \in [Levels -> Values]
    <3> TAKE l \in Levels
    <3>1. CASE c < l /\ l <= e
      BY <2>1, <3>1, ResidueLevel
    <3>2. CASE ~ (c < l /\ l <= e)
      BY <1>3, <1>10, <3>2 DEF Arrays
    <3> QED  BY <3>1, <3>2
  <2>3. orbits' \in [Levels -> Seq(Levels)] /\ transversal' \in [Levels -> [Levels -> Values]]
    BY <1>9, <2>2
  <2> QED  BY <1>2, <1>7, <2>3 DEF Arrays
<1>12. Called'
  <2>1. strong_gens'[0] = src
    BY <1>1, <1>3, <1>8, <1>10 DEF Called
  <2>2. base'[1] = pt /\ pt \in 0 .. n - 1
    BY <1>1, <1>3, <1>5 DEF Called
  <2>3. src \in Seq(Perms(n) \ {IdPerm(n)})
    BY <1>1, <1>3 DEF Called
  <2> QED  BY <1>2, <1>5, <1>7, <2>1, <2>2, <2>3 DEF Called
<1>13. Generators'
  <2>1. \A l \in 0 .. n - 1 : strong_gens'[l] \in Seq(Perms(n))
    BY <1>2
  <2>2. ASSUME NEW l \in 0 .. d2 - 1, NEW x \in Range(strong_gens'[l]), NEW k \in 1 .. l
        PROVE  x[base'[k]] = base'[k]
    <3>1. l \in 0 .. n - 1 /\ k \in 1 .. d /\ base'[k] = base[k]
      BY <1>5, <1>8
    <3>2. CASE x \in Range(strong_gens[l])
      <4>1. CASE l < d
        <5>1. l \in 0 .. d - 1
          BY <4>1
        <5> QED  BY <1>3, <1>4, <3>1, <3>2, <5>1 DEF Generators
      <4>2. CASE ~ (l < d)
        <5>1. l \in d .. n - 1
          BY <3>1, <4>2
        <5>2. strong_gens[l] = << >>
          BY <1>1, <1>3, <1>4, <5>1 DEF Generators
        <5> QED  BY <3>2, <5>2, NoElement
      <4> QED  BY <4>1, <4>2
    <3>3. CASE x \notin Range(strong_gens[l])
      <4>1. x = h /\ c < l /\ l <= e
        BY <1>2, <2>2, <3>1, <3>3
      <4>2. k \in 1 .. e
        BY <1>8, <4>1
      <4> QED  BY <1>6, <3>1, <4>1, <4>2
    <3> QED  BY <3>2, <3>3
  <2>3. \A l \in d2 .. n - 1 : strong_gens'[l] = << >>
    <3> TAKE l \in d2 .. n - 1
    <3>1. l \in d .. n - 1 /\ l \in Levels /\ ~ (c < l /\ l <= e)
      BY <1>5, <1>8
    <3> QED  BY <1>1, <1>3, <1>4, <1>10, <3>1 DEF Generators
  <2>4. \A l \in 0 .. n - 2 : Range(strong_gens'[l + 1]) \subseteq LevelGroup(l)'
    <3> TAKE l \in 0 .. n - 2
    <3>1. l \in 0 .. n - 1 /\ l + 1 \in 0 .. n - 1
      BY <1>2
    <3>2. Range(strong_gens[l + 1]) \subseteq LevelGroup(l)'
      BY <1>1, <1>2, <1>3, <3>1 DEF Generators
    <3>3. c < l + 1 /\ l + 1 <= e => h \in LevelGroup(l)'
      <4> SUFFICES ASSUME c < l + 1, l + 1 <= e PROVE h \in LevelGroup(l)'
        OBVIOUS
      <4>1. CASE l = c
        BY <1>2, <1>6, <3>1, <4>1
      <4>2. CASE l # c
        <5>1. c < l /\ l <= e
          BY <1>8, <4>2
        <5>2. h \in Range(strong_gens'[l])
          BY <1>2, <3>1, <5>1
        <5> QED  BY <1>2, <3>1, <5>2
      <4> QED  BY <4>1, <4>2
    <3> QED  BY <1>2, <3>1, <3>2, <3>3
  <2> QED  BY <1>2, <1>5, <2>1, <2>2, <2>3, <2>4 DEF Generators
<1>14. ASSUME NEW l \in 0 .. d2 - 1 PROVE Complete(l)'
  <2>1. CASE c < l /\ l <= e
    <3>1. l \in i + 1 .. Sifted.depth
      BY <1>1, <1>8, <2>1
    <3> QED  BY <3>1, ResidueLevel
  <2>2. CASE ~ (c < l /\ l <= e)
    <3>1. l \in 0 .. d - 1 /\ l + 1 \in 1 .. d /\ l \in Levels /\ l \in 0 .. n - 1
      BY <1>5, <1>8, <2>2
    <3>2. Complete(l)
      BY <1>3, <1>4, <3>1
    <3>3. /\ Level(l)' = Level(l) /\ LevelGroup(l)' = LevelGroup(l)
          /\ base'[l + 1] = base[l + 1] /\ strong_gens'[l] = strong_gens[l]
      BY <1>2, <1>5, <1>10, <2>2, <3>1 DEF Level
    <3> QED  BY <1>1, <1>2, <3>2, <3>3 DEF Complete
  <2> QED  BY <2>1, <2>2
<1>15. ASSUME NEW l \in e + 1 .. d2 - 1 PROVE Done(l)'
  <2>1. e < d /\ d2 = d /\ l \in c + 1 .. d - 1 /\ l + 1 \in 1 .. d
        /\ ~ (c < l /\ l <= e) /\ ~ (c < l + 1 /\ l + 1 <= e)
        /\ l \in 0 .. n - 1 /\ l + 1 \in 0 .. n - 1
    BY <1>5, <1>8
  <2>2. Done(l)
    BY <1>3, <1>4, <2>1
  <2>3. /\ LevelGroup(l)' = LevelGroup(l) /\ LevelGroup(l + 1)' = LevelGroup(l + 1)
        /\ base'[l + 1] = base[l + 1]
    BY <1>2, <1>5, <2>1
  <2> QED  BY <2>2, <2>3 DEF Done
<1>16. InSift'
  <2>1. i' \in -1 .. Len(base') - 1 /\ j' \in Nat \ {0} /\ m' \in Nat \ {0}
    BY <1>5, <1>7, <1>8
  <2>2. \A l \in 0 .. Len(base') - 1 : Complete(l)'
    BY <1>5, <1>14
  <2>3. \A l \in i' + 1 .. Len(base') - 1 : Done(l)'
    BY <1>5, <1>7, <1>15
  <2>4. \A q \in 1 .. Len(orbits'[i']) : \A r \in 1 .. Len(strong_gens'[i']) :
          ~ (q < j' \/ (q = j' /\ r < m'))
    BY <1>7
  <2>5. phase' # "done"
    BY <1>7
  <2> QED  BY <2>1, <2>2, <2>3, <2>4, <2>5 DEF InSift
<1> QED  BY <1>7, <1>11, <1>12, <1>13, <1>16 DEF SchreierInv, InBase, InLevels

(* Every step keeps the invariant.                                           *)
LEMMA SchreierStep == SchreierInv /\ [Next]_vars => SchreierInv'
<1> SUFFICES ASSUME SchreierInv, [Next]_vars PROVE SchreierInv'
  OBVIOUS
<1>1. CASE UNCHANGED vars
  BY <1>1, StutterSchreier
<1>2. ASSUME NEW in \in Inputs, point_stabilizer(in) PROVE SchreierInv'
  BY <1>2, CallSchreier
<1>3. CASE ExtendBase
  BY <1>3, ExtendBaseSchreier
<1>4. CASE BaseDone
  BY <1>4, BaseDoneSchreier
<1>5. CASE SetUpLevel
  BY <1>5, SetUpLevelSchreier
<1>6. CASE LevelsDone
  BY <1>6, LevelsDoneSchreier
<1>7. CASE SiftsToOne
  BY <1>7, SiftsToOneSchreier
<1>8. CASE AddResidue
  BY <1>8, AddResidueSchreier
<1>9. CASE NextPoint
  BY <1>9, NextPointSchreier
<1>10. CASE NextLevel
  BY <1>10, NextLevelSchreier
<1>11. CASE Finished
  BY <1>11, FinishedSchreier
<1> QED  BY <1>1, <1>2, <1>3, <1>4, <1>5, <1>6, <1>7, <1>8, <1>9, <1>10, <1>11 DEF Next, run_ss

LEMMA SchreierAlways == Spec => []SchreierInv
BY InitSchreier, SchreierStep, PTL DEF Spec

(* Outside the phases the invariant speaks of, the variables are as Init or  *)
(* the call before left them.                                                *)
Rest ==
  /\ calls \in 0 .. MaxCalls
  /\ i \in -1 .. HOMOS_STRUCTURE_SIZE
  /\ phase = "idle" => base = << >> /\ degree = 0

LEMMA RestStep == SchreierInv /\ SchreierInv' /\ Rest /\ [Next]_vars => Rest'
<1> SUFFICES ASSUME SchreierInv, SchreierInv', Rest, [Next]_vars
             PROVE  Rest'
  OBVIOUS
<1>1. CASE UNCHANGED vars
  BY <1>1 DEF Rest, vars, chain
<1>2. ASSUME NEW in \in Inputs, point_stabilizer(in)
      PROVE  Rest'
  <2>1. calls < MaxCalls /\ calls' = calls + 1 /\ i' = i /\ phase' = "base"
    BY <1>2 DEF point_stabilizer
  <2> QED  BY <2>1, CallsAssumption DEF Rest
<1>3. CASE run_ss
  <2>1. calls' = calls /\ phase' # "idle"
    BY <1>3 DEF run_ss, ExtendBase, BaseDone, SetUpLevel, LevelsDone, SiftsToOne, AddResidue,
                NextPoint, NextLevel, Finished, InLoop
  <2>2. i' \in -1 .. HOMOS_STRUCTURE_SIZE
    <3>1. CASE ExtendBase
      BY <3>1 DEF ExtendBase, Rest
    <3>2. CASE ~ ExtendBase
      <4>1. phase' \in {"levels", "sift", "done"}
        BY <1>3, <3>2 DEF run_ss, BaseDone, SetUpLevel, LevelsDone, SiftsToOne, AddResidue,
                          NextPoint, NextLevel, Finished, InLoop
      <4>2. Called' /\ InLevels' /\ InSift'
        BY <4>1 DEF SchreierInv
      <4>3. Len(base') \in 1 .. degree' - 1 /\ degree' \in 2 .. HOMOS_STRUCTURE_SIZE - 1
        BY <4>2 DEF Called
      <4>4. i' \in 1 .. Len(base') + 1 \/ i' \in -1 .. Len(base') - 1
        BY <4>1, <4>2 DEF InLevels, InSift
      <4> QED  BY <4>3, <4>4, SizeAssumption
    <3> QED  BY <3>1, <3>2
  <2> QED  BY <2>1, <2>2 DEF Rest
<1> QED  BY <1>1, <1>2, <1>3 DEF Next

(* The base never has as many points as the degree, so that the level above  *)
(* it, to which the generators that fix all of it go, is inside the arrays;  *)
(* and the loop variable is a level, one below or one above them.            *)
THEOREM ChainTypes == Spec => []TypeOK
<1>1. Init => Rest
  BY SizeAssumption, CallsAssumption DEF Init, Rest
<1>2. SchreierInv /\ SchreierInv' /\ Rest /\ [Next]_vars => Rest'
  BY RestStep
<1>3. SchreierInv /\ Rest => TypeOK
  <2> SUFFICES ASSUME SchreierInv, Rest
               PROVE  TypeOK
    OBVIOUS
  <2>1. Arrays
    BY DEF SchreierInv
  <2>2. CASE phase = "idle"
    <3>1. base = << >> /\ degree = 0
      BY <2>2 DEF Rest
    <3>2. Range(base) = {}
      BY <3>1 DEF Range
    <3> QED  BY <2>1, <2>2, <3>2 DEF TypeOK, Rest
  <2>3. CASE phase # "idle"
    <3>1. /\ base \in Seq(0 .. degree - 1) /\ Len(base) \in 1 .. degree - 1
          /\ degree \in 2 .. HOMOS_STRUCTURE_SIZE - 1
      BY <2>3 DEF SchreierInv, Called
    <3>2. \A q \in DOMAIN base : base[q] \in 0 .. degree - 1
      BY <3>1
    <3>3. Range(base) \subseteq 0 .. degree - 1
      BY <3>2 DEF Range
    <3> QED  BY <2>1, <3>1, <3>3 DEF TypeOK, Rest
  <2> QED  BY <2>2, <2>3
<1> QED  BY <1>1, <1>2, <1>3, SchreierAlways, PTL DEF Spec

------------------------------------------------------------------------------
(* The generators that a call of point_stabilizer answers with generate the  *)
(* stabiliser of the point in the group of the given ones: nothing that      *)
(* earlier calls left in the arrays gets into it, and nothing is missing.    *)
THEOREM StabiliserCorrect == Spec => []Stabilises
<1>1. SchreierInv => Stabilises
  <2> SUFFICES ASSUME SchreierInv, phase = "done"
               PROVE  Generated(Range(dst), degree) =
                        { p \in Generated(Range(src), degree) : p[pt] = pt }
    BY DEF Stabilises
  <2>1. Called /\ InSift
    BY DEF SchreierInv
  <2>2. /\ i = -1 /\ dst = strong_gens[1] /\ Len(base) \in Nat \ {0}
        /\ \A l \in i + 1 .. Len(base) - 1 : Done(l)
    BY <2>1 DEF InSift, Called
  <2>3. 0 \in i + 1 .. Len(base) - 1 /\ 0 + 1 = 1
    BY <2>2
  <2>4. LevelGroup(1) = { x \in LevelGroup(0) : x[base[1]] = base[1] }
    BY <2>2, <2>3 DEF Done
  <2>5. base[1] = pt /\ strong_gens[0] = src
    BY <2>1 DEF Called
  <2> QED  BY <2>2, <2>4, <2>5 DEF LevelGroup
<1> QED  BY <1>1, SchreierAlways, PTL

(* While a chain is sifted, and whatever was in its arrays before: the       *)
(* generators of a level fix the base points below it, its orbit is that of  *)
(* its group and holds no point twice, and the transversal has an element of *)
(* the group for every point of it.                                          *)
THEOREM ChainCorrect == Spec => []ChainConsistent
<1>1. SchreierInv => ChainConsistent
  <2> SUFFICES ASSUME SchreierInv, phase = "sift", NEW l \in 0 .. Len(base) - 1
               PROVE  /\ \A x \in Range(strong_gens[l]) :
                           \A k \in 1 .. l : x[base[k]] = base[k]
                      /\ Points(orbits[l]) = { x[base[l + 1]] : x \in LevelGroup(l) }
                      /\ Len(orbits[l]) = Cardinality(Points(orbits[l]))
                      /\ \A p \in Points(orbits[l]) :
                           /\ transversal[l][p] \in LevelGroup(l)
                           /\ transversal[l][p][base[l + 1]] = p
    BY DEF ChainConsistent
  <2>1. Called /\ Generators /\ Complete(l)
    BY DEF SchreierInv, InSift
  <2>2. \A x \in Range(strong_gens[l]) : \A k \in 1 .. l : x[base[k]] = base[k]
    BY <2>1 DEF Generators
  <2>3. /\ Points(orbits[l]) = { x[base[l + 1]] : x \in LevelGroup(l) }
        /\ Len(orbits[l]) = Cardinality(Points(orbits[l]))
    BY <2>1, OrbitOfLevel
  <2>4. \A p \in Points(orbits[l]) :
          transversal[l][p] \in LevelGroup(l) /\ transversal[l][p][base[l + 1]] = p
    BY <2>1, CompleteFacts
  <2> QED  BY <2>2, <2>3, <2>4
<1> QED  BY <1>1, SchreierAlways, PTL

(* The loop of run_ss leaves a level only when the next level's group is the *)
(* whole stabiliser of its base point, and a residue that is added later     *)
(* takes this from no level above the one the loop goes back to.             *)
THEOREM LevelsFinished == Spec => []HigherLevelsFinished
<1>1. SchreierInv => HigherLevelsFinished
  <2> SUFFICES ASSUME SchreierInv, phase \in {"sift", "done"},
                      NEW l \in 0 .. Len(base) - 1, l > i
               PROVE  LevelGroup(l + 1) = { x \in LevelGroup(l) : x[base[l + 1]] = base[l + 1] }
    BY DEF HigherLevelsFinished
  <2>1. Called /\ InSift
    BY DEF SchreierInv
  <2>2. i \in -1 .. Len(base) - 1 /\ Len(base) \in Nat
    BY <2>1 DEF InSift, Called
  <2>3. l \in i + 1 .. Len(base) - 1
    BY <2>2
  <2> QED  BY <2>1, <2>3 DEF InSift, Done
<1> QED  BY <1>1, SchreierAlways, PTL

(* A residue that the sifting leaves is in the group of none of the levels   *)
(* it is added to as a generator, so that each addition enlarges them all.   *)
THEOREM ResiduesNew == Spec => ResiduesEnlarge
<1> DEFINE Enlarges ==
      AddResidue =>
        \A l \in i + 1 .. i' :
          Last(strong_gens'[l]) \notin Generated(Range(strong_gens[l]), degree)
<1>1. SchreierInv /\ [Next]_vars => [Enlarges]_vars
  <2> SUFFICES ASSUME SchreierInv, AddResidue, NEW l \in i + 1 .. i'
               PROVE  Last(strong_gens'[l]) \notin Generated(Range(strong_gens[l]), degree)
    OBVIOUS
  <2>1. PICK h, e, c, n : h = Sifted.perm /\ e = Sifted.depth /\ c = i /\ n = degree
    OBVIOUS
  <2>2. /\ n \in 2 .. HOMOS_STRUCTURE_SIZE - 1 /\ h \in Perms(n)
        /\ c \in 0 .. Len(base) - 1 /\ e \in c + 1 .. Len(base) /\ e \in 1 .. n - 1
        /\ \A q \in Levels : strong_gens'[q] = IF c < q /\ q <= e THEN Append(strong_gens[q], h)
                                               ELSE strong_gens[q]
    BY <2>1, ResidueGenerators
  <2>3. i' = e
    BY <2>1 DEF AddResidue
  <2>4. Called /\ Generators
    BY LoopFacts DEF AddResidue
  <2>5. l \in i + 1 .. Sifted.depth
    BY <2>1, <2>3
  <2>6. c < l /\ l <= e /\ l \in 0 .. n - 1 /\ l \in Levels
    <3>1. Len(base) \in Nat
      BY <2>4 DEF Called
    <3> QED  BY <2>1, <2>2, <2>5, <3>1, SizeAssumption DEF Levels
  <2>7. strong_gens'[l] = Append(strong_gens[l], h)
    BY <2>2, <2>6
  <2>8. PICK P : P = Perms(n)
    OBVIOUS
  <2>9. PICK s \in Seq(P) : s = strong_gens[l]
    BY <2>1, <2>4, <2>6, <2>8 DEF Generators
  <2>10. Last(Append(s, h)) = h
    <3>1. Len(Append(s, h)) = Len(s) + 1 /\ Append(s, h)[Len(s) + 1] = h
      BY <2>2, <2>8, AppendFacts
    <3> QED  BY <3>1 DEF Last
  <2>11. h \notin LevelGroup(l)
    BY <2>1, <2>5, ResidueIsNew
  <2> QED  BY <2>7, <2>9, <2>10, <2>11 DEF LevelGroup
<1> QED  BY <1>1, SchreierAlways, PTL DEF Spec, ResiduesEnlarge
==============================================================================
