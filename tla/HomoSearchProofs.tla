--------------------------- MODULE HomoSearchProofs ---------------------------
(***************************************************************************)
(* The globals of homos.c agree at every moment of every search, for all     *)
(* arguments, all sizes and any number of calls, and the searches use the   *)
(* Conditions object as module Conditions says.                              *)
(*                                                                         *)
(* Neither TypeOK nor MapConsistent is inductive: a return restores what the *)
(* caller had only because of what the frames below say.  HInv therefore     *)
(* relates every frame k of the C stack to the depth it runs at              *)
(* (FrameDepth), to the vertices that were assigned when it was called       *)
(* (AssignedAt) and to their values (ValuesAt):                              *)
(*   - its rank counts these values and its row of MAP_UNDEFINED holds the   *)
(*     other vertices, so depth, VALS and MAP_UNDEFINED can be taken back;   *)
(*   - a caller is in the loop over the new or over the old values, and      *)
(*     clears the bit of its value exactly in the former (CallerRight);      *)
(*   - its row of pushed columns has no vertex that is assigned, so the      *)
(*     cell a caller tries the values of is left alone by the calls above it.*)
(* The running call (TopRight) also knows how far its loops have come, from  *)
(* which it follows that no column is pushed twice at one depth, that the    *)
(* vertex to be picked exists, and that a cell is narrowed in place only     *)
(* after a copy of it was pushed.                                            *)
(*                                                                         *)
(* HInv needs CP!IInv, the invariant of the Conditions object, and the steps *)
(* keep that because they are steps of module Conditions (Driven): the two   *)
(* are proved together, as SearchInv.                                        *)
(***************************************************************************)
EXTENDS HomoSearch, ConditionsDataProofs, WellFoundedInduction,
        SequenceTheorems

(* The discipline of the Conditions object and what is proved of it.         *)
CP == INSTANCE ConditionsProofs
        WITH Masks <- SUBSET Bits,
             Searches <- UNION { SearchesOf(a) : a \in Arguments }

------------------------------------------------------------------------------
(* Sets and numbers.                                                         *)

(* Every set of natural numbers but the empty one has a least element ...    *)
LEMMA LeastNatural ==
  ASSUME NEW T \in SUBSET Nat, T # {}
  PROVE  \E m \in T : \A n \in T : m <= n
<1> DEFINE R == OpToRel(<, Nat)
<1>1. IsWellFoundedOn(R, Nat)  BY NatLessThanWellFounded
<1>2. PICK x \in T : \A y \in T : ~ (<<y, x>> \in R)
  <2> HIDE DEF R
  <2> QED BY <1>1, WFMin
<1>3. \A y \in T : ~ (y < x)
  BY <1>2 DEF OpToRel
<1> QED BY <1>3

(* ... which is its Min.                                                     *)
LEMMA MinIsLeast ==
  ASSUME NEW T \in SUBSET Nat, T # {}
  PROVE  Min(T) \in T /\ \A n \in T : Min(T) <= n
BY LeastNatural DEF Min

(* Induction, over a set and not over a property.                            *)
LEMMA Induction ==
  ASSUME NEW T \in SUBSET Nat, 0 \in T, \A n \in T : n + 1 \in T
  PROVE  T = Nat
<1> SUFFICES ASSUME Nat \ T # {} PROVE FALSE
  OBVIOUS
<1>1. PICK m \in Nat \ T : \A n \in Nat \ T : m <= n
  BY LeastNatural
<1>2. m # 0 /\ m - 1 \in Nat /\ m - 1 \in T
  BY <1>1
<1> QED BY <1>2, <1>1

LEMMA SizeFacts ==
  /\ Size \in Nat \ {0}
  /\ Size <= BlockBits * number_of_blocks(Size)
  /\ BlockBits * number_of_blocks(Size) \in Nat
  /\ BlockBits * number_of_blocks(Size) < UNDEFINED
  /\ Size < UNDEFINED
  /\ 0 .. Size - 1 \subseteq Bits
<1>1. Size \in Nat \ {0}  BY StructureSizeAssumption DEF Size
<1>2. /\ Size <= BlockBits * number_of_blocks(Size)
      /\ number_of_blocks(Size) \in Nat
  BY <1>1, BlocksMonotone
<1>3. BlockBits * number_of_blocks(Size) \in Nat
  BY <1>2, BlockBitsAssumption
<1>4. BlockBits * number_of_blocks(Size) < UNDEFINED  BY SizesAssumption
<1>5. UNDEFINED \in Nat  BY DEF UNDEFINED
<1>6. 0 .. Size - 1 \subseteq Bits
  <2> DEFINE e == BlockBits * number_of_blocks(Size)
  <2>1. e \in Nat /\ Size <= e  BY <1>2, <1>3
  <2> HIDE DEF e
  <2>2. 0 .. Size - 1 \subseteq 0 .. e - 1  BY <1>1, <2>1
  <2> QED  BY <2>2 DEF Bits, Covered, e
<1> QED  BY <1>1, <1>2, <1>3, <1>4, <1>5, <1>6

(* The bits that the callers mean are in the blocks.                         *)
LEMMA MeantInCovered ==
  ASSUME NEW n \in Nat
  PROVE  Meant(n) \subseteq Covered(n)
<1>1. BlockBits * number_of_blocks(n) >= n /\ number_of_blocks(n) \in Nat
  BY BlocksMonotone
<1>2. BlockBits * number_of_blocks(n) \in Nat  BY <1>1, BlockBitsAssumption
<1> DEFINE e == BlockBits * number_of_blocks(n)
<1>3. e \in Nat /\ e >= n  BY <1>1, <1>2
<1> HIDE DEF e
<1>4. 0 .. n - 1 \subseteq 0 .. e - 1  BY <1>3
<1> QED  BY <1>4 DEF Meant, Covered, e

(* What the operations on whole blocks do to the bits that are meant.        *)
LEMMA BitsMeant ==
  ASSUME NEW n \in Nat, NEW a, NEW b
  PROVE  /\ SetBits(copy_bit_array(a, b, n), n) = SetBits(b, n)
         /\ SetBits(intersect_bit_arrays(a, b, n), n) = SetBits(a, n) \cap b
         /\ SetBits(complement_bit_arrays(a, b, n), n) = SetBits(a, n) \ b
BY MeantInCovered DEF SetBits, copy_bit_array, intersect_bit_arrays, complement_bit_arrays

(* Filled arrays hold all of them, emptied ones none.                        *)
LEMMA InitMeant ==
  ASSUME NEW n \in Nat, NEW a
  PROVE  /\ SetBits(init_bit_array(a, TRUE, n), n) = 0 .. n - 1
         /\ SetBits(init_bit_array(a, FALSE, n), n) = {}
BY MeantInCovered DEF SetBits, init_bit_array, Meant

(* They stay inside the bit arrays of the object.                            *)
LEMMA BitsTypes ==
  ASSUME NEW n \in 0 .. Size, NEW a \in SUBSET Bits, NEW b
  PROVE  /\ copy_bit_array(a, b, n) \in SUBSET Bits
         /\ intersect_bit_arrays(a, b, n) \in SUBSET Bits
         /\ complement_bit_arrays(a, b, n) \in SUBSET Bits
         /\ init_bit_array(a, TRUE, n) \in SUBSET Bits
         /\ init_bit_array(a, FALSE, n) \in SUBSET Bits
         /\ SetBits(a, n) \in SUBSET (0 .. n - 1)
BY CoveredInBits DEF copy_bit_array, intersect_bit_arrays, complement_bit_arrays,
   init_bit_array, SetBits, Meant

LEMMA SetBitMeant ==
  ASSUME NEW n \in Nat, NEW a, NEW x \in 0 .. n - 1
  PROVE  /\ SetBits(set_bit_array(a, x, TRUE), n) = SetBits(a, n) \cup {x}
         /\ SetBits(set_bit_array(a, x, FALSE), n) = SetBits(a, n) \ {x}
BY DEF SetBits, set_bit_array, Meant

(* The number of elements of a finite set that grows or shrinks by one.      *)
LEMMA OneMore ==
  ASSUME NEW S, IsFiniteSet(S), NEW x
  PROVE  /\ IsFiniteSet(S \cup {x}) /\ IsFiniteSet(S \ {x})
         /\ Cardinality(S) \in Nat
         /\ x \notin S => Cardinality(S \cup {x}) = Cardinality(S) + 1
         /\ x \in S => Cardinality(S \ {x}) = Cardinality(S) - 1
BY FS_AddElement, FS_RemoveElement, FS_CardinalityType

LEMMA IntervalFinite ==
  ASSUME NEW n \in Nat
  PROVE  IsFiniteSet(0 .. n - 1) /\ Cardinality(0 .. n - 1) = n
<1>1. IsFiniteSet(0 .. n - 1) /\ Cardinality(0 .. n - 1) = (IF 0 > n - 1 THEN 0 ELSE n - 1 - 0 + 1)
  BY FS_Interval
<1> QED  BY <1>1

(* A part of 0 .. n - 1 that has fewer than n elements leaves one out.       *)
LEMMA SomeLeft ==
  ASSUME NEW n \in Nat, NEW S \in SUBSET (0 .. n - 1), Cardinality(S) # n
  PROVE  (0 .. n - 1) \ S # {}
BY IntervalFinite

------------------------------------------------------------------------------
(* The stack of calls.                                                       *)

(* A step of the running call replaces its frame.                            *)
LEMMA StackStay ==
  ASSUME NEW T, NEW s \in Seq(T), Len(s) >= 1, NEW G \in T
  PROVE  LET t == Append(Front(s), G)
         IN  /\ t \in Seq(T) /\ Len(t) = Len(s)
             /\ \A k \in 1 .. Len(s) - 1 : t[k] = s[k]
             /\ t[Len(s)] = G
             /\ Last(t) = G
             /\ Last(s) = s[Len(s)]
<1> DEFINE f == SubSeq(s, 1, Len(s) - 1)
           t == Append(f, G)
<1>1. /\ f \in Seq(T) /\ Len(f) = Len(s) - 1 /\ Len(s) \in Nat
      /\ \A k \in 1 .. Len(s) - 1 : f[k] = s[k]
  <2>1. Len(s) \in Nat /\ Len(s) - 1 \in Nat /\ Len(s) - 1 <= Len(s)  OBVIOUS
  <2>2. \A k \in 1 .. Len(s) - 1 : s[k] \in T  OBVIOUS
  <2>3. \A k \in 1 .. Len(s) - 1 : 1 + k - 1 = k  OBVIOUS
  <2>4. Len(s) - 1 = (Len(s) - 1) - 1 + 1  BY <2>1
  <2> QED  BY <2>1, <2>2, <2>3, <2>4, SubSeqProperties
<1> HIDE DEF f
<1>2. t \in Seq(T) /\ Len(t) = Len(f) + 1 /\ t[Len(f) + 1] = G
  BY <1>1
<1>3. ASSUME NEW k \in 1 .. Len(f) PROVE t[k] = f[k]
  <2>1. k \in Int /\ 1 <= k /\ k <= Len(f) /\ Len(f) \in Nat  BY <1>1
  <2>2. k \in 1 .. Len(f) + 1 /\ k # Len(f) + 1  BY <2>1
  <2> QED  BY <2>2, <1>1
<1> HIDE DEF t
<1>4. Len(t) = Len(s) /\ t[Len(s)] = G  BY <1>1, <1>2
<1>5. \A k \in 1 .. Len(s) - 1 : t[k] = s[k]  BY <1>1, <1>3
<1> QED  BY <1>2, <1>4, <1>5 DEF t, f, Front, Last

(* A call is made.                                                           *)
LEMMA StackCall ==
  ASSUME NEW T, NEW s \in Seq(T), Len(s) >= 1, NEW G \in T, NEW H \in T
  PROVE  LET t == Append(Append(Front(s), G), H)
         IN  /\ t \in Seq(T) /\ Len(t) = Len(s) + 1
             /\ \A k \in 1 .. Len(s) - 1 : t[k] = s[k]
             /\ t[Len(s)] = G
             /\ t[Len(s) + 1] = H
             /\ Last(t) = H
             /\ Last(s) = s[Len(s)]
<1> DEFINE u == Append(Front(s), G)
           t == Append(u, H)
<1>1. /\ u \in Seq(T) /\ Len(u) = Len(s)
      /\ \A k \in 1 .. Len(s) - 1 : u[k] = s[k]
      /\ u[Len(s)] = G
      /\ Last(s) = s[Len(s)]
  BY StackStay
<1> HIDE DEF u
<1>2. t \in Seq(T) /\ Len(t) = Len(s) + 1 /\ t[Len(s) + 1] = H
  BY <1>1
<1>3. \A k \in 1 .. Len(s) : t[k] = u[k]
  BY <1>1
<1>4. Len(s) \in Nat  OBVIOUS
<1> HIDE DEF t
<1>5. \A k \in 1 .. Len(s) - 1 : t[k] = s[k]  BY <1>1, <1>3, <1>4
<1>6. t[Len(s)] = G  BY <1>1, <1>3, <1>4
<1> QED  BY <1>1, <1>2, <1>5, <1>6 DEF t, u, Last

(* A call returns.                                                           *)
LEMMA StackReturn ==
  ASSUME NEW T, NEW s \in Seq(T), Len(s) >= 2
  PROVE  LET t == Front(s)
         IN  /\ t \in Seq(T) /\ Len(t) = Len(s) - 1
             /\ \A k \in 1 .. Len(s) - 1 : t[k] = s[k]
             /\ Last(t) = s[Len(s) - 1]
             /\ Last(s) = s[Len(s)]
<1> DEFINE t == SubSeq(s, 1, Len(s) - 1)
<1>1. /\ t \in Seq(T) /\ Len(t) = Len(s) - 1 /\ Len(s) \in Nat
      /\ \A k \in 1 .. Len(s) - 1 : t[k] = s[k]
  <2>1. Len(s) \in Nat /\ Len(s) - 1 \in Nat /\ Len(s) - 1 <= Len(s)  OBVIOUS
  <2>2. \A k \in 1 .. Len(s) - 1 : s[k] \in T  OBVIOUS
  <2>3. \A k \in 1 .. Len(s) - 1 : 1 + k - 1 = k  OBVIOUS
  <2>4. Len(s) - 1 = (Len(s) - 1) - 1 + 1  BY <2>1
  <2> QED  BY <2>1, <2>2, <2>3, <2>4, SubSeqProperties
<1> HIDE DEF t
<1>2. t[Len(t)] = s[Len(s) - 1]  BY <1>1
<1> QED  BY <1>1, <1>2 DEF t, Front, Last

------------------------------------------------------------------------------
(* The operations of the Conditions object.                                  *)

(* Module Conditions has copies of them.                                     *)
LEMMA Copies ==
  /\ \A n, d : CP!RowStart(n, d) = RowStart(n, d)
  /\ \A c, d : CP!Row(c, d) = Row(c, d)
  /\ \A c : CP!Columns(c) = Columns(c)
  /\ \A c, i, b : CP!IntersectTop(c, i, b) = IntersectTop(c, i, b)
  /\ \A c, d, i, b : CP!push_conditions(c, d, i, b) = push_conditions(c, d, i, b)
  /\ \A c, i : CP!store_size_conditions(c, i) = store_size_conditions(c, i)
  /\ \A c, d : CP!pop_conditions(c, d) = pop_conditions(c, d)
<1>1. \A n, d : CP!RowStart(n, d) = RowStart(n, d)  BY DEF CP!RowStart, RowStart
<1>2. \A c, d : CP!Row(c, d) = Row(c, d)  BY <1>1 DEF CP!Row, Row
<1>3. \A c : CP!Columns(c) = Columns(c)  BY DEF CP!Columns, Columns
<1>4. \A n : CP!Covered(n) = Covered(n)
  BY DEF CP!Covered, Covered, CP!number_of_blocks, number_of_blocks
<1>5. \A a, b, n : CP!intersect_bit_arrays(a, b, n) = intersect_bit_arrays(a, b, n)
  BY <1>4 DEF CP!intersect_bit_arrays, intersect_bit_arrays
<1>6. \A c, i : CP!Top(c, i) = Top(c, i) /\ CP!get_conditions(c, i) = get_conditions(c, i)
  BY DEF CP!Top, Top, CP!Index, Index, CP!get_conditions, get_conditions
<1>7. \A c, i, cell : CP!SetTop(c, i, cell) = SetTop(c, i, cell)
  BY <1>6 DEF CP!SetTop, SetTop
<1>8. \A c, i, b : CP!IntersectTop(c, i, b) = IntersectTop(c, i, b)
  BY <1>5, <1>6, <1>7 DEF CP!IntersectTop, IntersectTop
<1>9. ASSUME NEW c, NEW d, NEW i  PROVE CP!PushCopy(c, d, i) = PushCopy(c, d, i)
  BY DEF CP!PushCopy, PushCopy, CP!Index, Index, CP!RowStart, RowStart,
     CP!Top, Top, CP!get_conditions, get_conditions
<1>10. \A c, d, i, b : CP!push_conditions(c, d, i, b) = push_conditions(c, d, i, b)
  BY <1>8, <1>9 DEF CP!push_conditions, push_conditions
<1>11. \A a, n : CP!size_bit_array(a, n) = size_bit_array(a, n)
  BY <1>4 DEF CP!size_bit_array, size_bit_array, Cardinality, CP!Cardinality
<1>12. \A c, i : CP!store_size_conditions(c, i) = store_size_conditions(c, i)
  BY <1>6, <1>11 DEF CP!store_size_conditions, store_size_conditions
<1>13. ASSUME NEW c, NEW d  PROVE CP!pop_conditions(c, d) = pop_conditions(c, d)
  BY DEF CP!pop_conditions, pop_conditions, CP!Places, Places, Cardinality, CP!Cardinality,
     CP!RowStart, RowStart
<1> QED  BY <1>1, <1>2, <1>3, <1>8, <1>10, <1>12, <1>13

(* INVERSE_ORDER takes vertices to vertices, no two to the same.             *)
LEMMA InverseOrderFacts ==
  ASSUME NEW a \in Arguments
  PROVE  \A u \in Vertices(a.digraph1) :
           /\ InverseOrder(a)[u] \in Vertices(a.digraph1)
           /\ a.order[InverseOrder(a)[u]] = u
<1> DEFINE V == Vertices(a.digraph1)
<1>1. /\ a.order \in [V -> V]
      /\ \A u \in V : \E s \in V : a.order[s] = u
  BY ArgumentsAssumption DEF Bijection, Injection, Surjection
<1> HIDE DEF V
<1>2. Range(a.order) = V  BY <1>1 DEF Range
<1>3. InverseOrder(a) = [t \in V |-> CHOOSE s \in V : t \in V => a.order[s] = t]
  BY <1>1, <1>2 DEF InverseOrder, AntiFunction, Inverse
<1>4. ASSUME NEW u \in V
      PROVE  InverseOrder(a)[u] \in V /\ a.order[InverseOrder(a)[u]] = u
  <2>1. InverseOrder(a)[u] = CHOOSE s \in V : u \in V => a.order[s] = u  BY <1>3
  <2>2. \E s \in V : u \in V => a.order[s] = u  BY <1>1
  <2> QED  BY <2>1, <2>2
<1> QED  BY <1>4 DEF V

(* The bottom rows fit the object.                                           *)
LEMMA BottomRows ==
  ASSUME NEW a \in Arguments
  PROVE  /\ BaseRow(a) \in [0 .. a.digraph1.n - 1 -> SUBSET Bits]
         /\ \A upto : PartialBase(a, upto) \in [0 .. a.digraph1.n - 1 -> SUBSET Bits]
<1>1. a.image \in SUBSET Bits
  BY ArgumentsAssumption, SizeFacts DEF Vertices
<1>2. \A v \in DOMAIN a.partial_map : a.partial_map[v] \in Bits
  BY <1>1, ArgumentsAssumption
<1>3. ASSUME NEW upto
      PROVE  PartialBase(a, upto) \in [0 .. a.digraph1.n - 1 -> SUBSET Bits]
  BY <1>1, <1>2 DEF PartialBase
<1>4. BaseRow(a) \in [0 .. a.digraph1.n - 1 -> SUBSET Bits]
  <2> DEFINE len == IF DOMAIN a.partial_map = {} THEN 0 ELSE Max(DOMAIN a.partial_map) + 1
             row == PartialBase(a, len)
  <2>1. row \in [0 .. a.digraph1.n - 1 -> SUBSET Bits]  BY <1>3
  <2> HIDE DEF row
  <2>2. BaseRow(a) = [i \in DOMAIN row |->
           row[i]
           \cap (IF << i, i >> \in InternalEdges(a) THEN Loops(a.digraph2) ELSE Bits)
           \cap (IF a.colors1 = << >> THEN Bits ELSE SameColor(a, a.order[i]))]
    BY DEF BaseRow, row
  <2> QED  BY <2>1, <2>2
<1> QED  BY <1>3, <1>4

LEMMA SearchesFit == CP!SearchesAssumption
<1>1. CP!Size = Size /\ CP!Bits = Bits
  BY DEF CP!Size, Size, CP!Bits, Bits, CP!Covered, Covered, CP!number_of_blocks, number_of_blocks
<1>2. ASSUME NEW a \in Arguments, NEW base \in [0 .. a.digraph1.n - 1 -> SUBSET Bits]
      PROVE  [nr1 |-> a.digraph1.n, nr2 |-> a.digraph2.n, base |-> base] \in CP!SearchType
  <2> DEFINE n == a.digraph1.n
             R == [nr1 : {n}, nr2 : 1 .. Size, base : [0 .. n - 1 -> SUBSET Bits]]
             r == [nr1 |-> n, nr2 |-> a.digraph2.n, base |-> base]
  <2>1. n \in 1 .. Size /\ a.digraph2.n \in 1 .. Size
    BY ArgumentsAssumption, SizeFacts
  <2>2. r \in R  BY <2>1
  <2>3. CP!SearchType = UNION { [nr1 : {m}, nr2 : 1 .. Size, base : [0 .. m - 1 -> SUBSET Bits]] :
                                  m \in 1 .. Size }
    BY <1>1 DEF CP!SearchType
  <2> QED  BY <2>1, <2>2, <2>3
<1>3. ASSUME NEW a \in Arguments  PROVE SearchesOf(a) \subseteq CP!SearchType
  <2>1. ASSUME NEW s \in SearchesOf(a) PROVE s \in CP!SearchType
    <3>1. PICK base \in [0 .. a.digraph1.n - 1 -> SUBSET Bits] :
            s = [nr1 |-> a.digraph1.n, nr2 |-> a.digraph2.n, base |-> base]
      BY BottomRows DEF SearchesOf
    <3> QED  BY <1>2, <3>1
  <2> QED  BY <2>1
<1> QED  BY <1>3 DEF CP!SearchesAssumption

LEMMA InstanceAssumptions ==
  /\ CP!SearchesAssumption /\ CP!MasksAssumption
  /\ CP!BlockBitsAssumption /\ CP!StructureSizeAssumption
<1>1. CP!Bits = Bits
  BY DEF CP!Size, Size, CP!Bits, Bits, CP!Covered, Covered, CP!number_of_blocks, number_of_blocks
<1> QED  BY <1>1, SearchesFit, BlockBitsAssumption, StructureSizeAssumption
         DEF CP!MasksAssumption, CP!BlockBitsAssumption, CP!StructureSizeAssumption

(* No size of a cell is as large as UNDEFINED.                               *)
SizesSmall == \A k \in 0 .. Size * Size - 1 : conditions.sizes[k] < UNDEFINED

LEMMA SizeSmall ==
  ASSUME NEW a \in SUBSET Bits, NEW n
  PROVE  size_bit_array(a, n) \in Nat /\ size_bit_array(a, n) < UNDEFINED
<1> DEFINE e == BlockBits * number_of_blocks(Size)
<1>1. e \in Nat /\ e < UNDEFINED  BY SizeFacts
<1> HIDE DEF e
<1>2. IsFiniteSet(0 .. e - 1) /\ Cardinality(0 .. e - 1) = e  BY <1>1, IntervalFinite
<1>3. a \cap Covered(n) \in SUBSET (0 .. e - 1)  BY DEF Bits, Covered, e
<1> HIDE DEF e
<1>4. /\ IsFiniteSet(a \cap Covered(n))
      /\ Cardinality(a \cap Covered(n)) <= e
  BY <1>2, <1>3, FS_Subset
<1>5. Cardinality(a \cap Covered(n)) \in Nat  BY <1>4, FS_CardinalityType
<1> QED  BY <1>1, <1>4, <1>5 DEF size_bit_array, UNDEFINED

(* What is proved of the object, in the words of this module.                *)
LEMMA ObjectFacts ==
  ASSUME CP!IInv
  PROVE  /\ conditions \in ConditionsType
         /\ conditions.nr1 \in 1 .. Size /\ conditions.nr2 \in 1 .. Size
         /\ depth \in 0 .. conditions.nr1
         /\ open =>
              /\ Row(conditions, 0) = Columns(conditions)
              /\ \A d \in 1 .. conditions.nr1 - 1 : d > depth => Row(conditions, d) = {}
              /\ \A v \in Columns(conditions) :
                   /\ conditions.height[v] \in 1 .. conditions.nr1
                   /\ depth \in 1 .. conditions.nr1 - 1 /\ v \notin Row(conditions, depth) =>
                        conditions.height[v] \in 1 .. conditions.nr1 - 1
              /\ \A d \in 0 .. conditions.nr1 - 1 :
                   conditions.changed[RowStart(conditions.nr1, d)] \in 0 .. conditions.nr1
<1>1. CP!ConditionsType = ConditionsType /\ CP!Size = Size
  BY DEF CP!ConditionsType, ConditionsType, CP!Size, Size, CP!Bits, Bits, CP!Covered, Covered,
     CP!number_of_blocks, number_of_blocks, CP!Unset, Unset
<1>2. CP!TypeOK  BY DEF CP!IInv
<1>3. /\ conditions \in ConditionsType
      /\ conditions.nr1 \in 1 .. Size /\ conditions.nr2 \in 1 .. Size
      /\ depth \in 0 .. conditions.nr1
  BY <1>1, <1>2, InstanceAssumptions, CP!TypeFacts
<1>4. ASSUME open
      PROVE  Row(conditions, 0) = Columns(conditions)
  <2>1. /\ conditions.changed[0] = conditions.nr1
        /\ \A j \in 1 .. conditions.nr1 : conditions.changed[j] = j - 1
    BY <1>4 DEF CP!IInv, CP!RowZeroComplete
  <2>2. conditions.nr1 \in Nat  BY <1>3
  <2>3. RowStart(conditions.nr1, 0) = 0  BY <2>2 DEF RowStart
  <2>4. Row(conditions, 0) = { conditions.changed[j] : j \in 1 .. conditions.nr1 }
    <3>1. \A j \in 1 .. conditions.nr1 : 0 + j = j  BY <2>2
    <3> QED  BY <2>1, <2>3, <3>1 DEF Row
  <2>5. \A x \in 0 .. conditions.nr1 - 1 :
          x + 1 \in 1 .. conditions.nr1 /\ conditions.changed[x + 1] = x
    BY <2>1, <2>2
  <2>6. \A j \in 1 .. conditions.nr1 : conditions.changed[j] \in 0 .. conditions.nr1 - 1
    BY <2>1, <2>2
  <2> QED  BY <2>4, <2>5, <2>6 DEF Columns
<1>5. ASSUME open, NEW d \in 1 .. conditions.nr1 - 1, d > depth
      PROVE  Row(conditions, d) = {}
  <2>1. conditions.changed[RowStart(conditions.nr1, d)] = 0
    BY <1>5, Copies DEF CP!IInv, CP!RowsAboveEmpty
  <2> QED  BY <2>1 DEF Row
<1>6. ASSUME open, NEW v \in Columns(conditions)
      PROVE  /\ conditions.height[v] \in 1 .. conditions.nr1
             /\ depth \in 1 .. conditions.nr1 - 1 /\ v \notin Row(conditions, depth) =>
                  conditions.height[v] \in 1 .. conditions.nr1 - 1
  BY <1>6, Copies, InstanceAssumptions, CP!HeightType, CP!HeightHasRoom
<1>7. ASSUME open, NEW d \in 0 .. conditions.nr1 - 1
      PROVE  conditions.changed[RowStart(conditions.nr1, d)] \in 0 .. conditions.nr1
  BY <1>7, Copies, InstanceAssumptions, CP!RowsFit
<1> QED  BY <1>3, <1>4, <1>5, <1>6, <1>7

(* A push adds one level to one column, and lists it in the row of the depth. *)
LEMMA PushEffect ==
  ASSUME CP!IInv, open, depth \in 1 .. conditions.nr1 - 1,
         NEW v \in Columns(conditions), v \notin Row(conditions, depth), NEW b
  PROVE  LET p == store_size_conditions(push_conditions(conditions, depth, v, b), v)
         IN  /\ p.nr1 = conditions.nr1 /\ p.nr2 = conditions.nr2
             /\ Row(p, depth) = Row(conditions, depth) \cup {v}
             /\ \A d \in 0 .. conditions.nr1 - 1 : d # depth => Row(p, d) = Row(conditions, d)
             /\ \A u \in Columns(conditions) :
                  u # v => get_conditions(p, u) = get_conditions(conditions, u)
             /\ SizesSmall => \A k \in 0 .. Size * Size - 1 : p.sizes[k] < UNDEFINED
             /\ size_conditions(p, v) \in Nat /\ size_conditions(p, v) < UNDEFINED
<1> DEFINE c == conditions
           n == c.nr1
           p == store_size_conditions(push_conditions(c, depth, v, b), v)
           start == RowStart(n, depth)
           count == c.changed[start] + 1
           place == Index(n, c.height[v] + 1, v)
           cell  == intersect_bit_arrays(get_conditions(c, v), b, c.nr2)
<1>0. /\ c \in ConditionsType /\ n \in 1 .. Size /\ n \in Nat /\ c.nr2 \in 0 .. Size
      /\ Size \in Nat \ {0}
      /\ \A u \in Columns(c) : c.height[u] \in 1 .. n
      /\ c.height[v] \in 1 .. n - 1
      /\ \A d \in 0 .. n - 1 : c.changed[RowStart(n, d)] \in 0 .. n
      /\ depth \in 1 .. n - 1
  BY ObjectFacts, SizeFacts
<1>1. /\ p = [ bit_array |-> [c.bit_array EXCEPT ![place] = cell],
               changed |-> [c.changed EXCEPT ![start] = count, ![start + count] = v],
               height |-> [c.height EXCEPT ![v] = @ + 1],
               sizes |-> [c.sizes EXCEPT ![place] = size_bit_array(cell, c.nr2)],
               nr1 |-> n, nr2 |-> c.nr2 ]
      /\ place \in 0 .. Size * Size - 1
      /\ get_conditions(c, v) \in SUBSET Bits
  BY <1>0, PushFields
<1>2. c.changed[start] \in 0 .. n - 1
  <2>1. CP!Columns(c) = Columns(c) /\ CP!Row(c, depth) = Row(c, depth)
        /\ CP!RowStart(n, depth) = start
    BY Copies
  <2> QED  BY <1>0, <2>1, InstanceAssumptions, CP!RowHasRoom
<1>3. /\ p.nr1 = n /\ p.nr2 = c.nr2
      /\ p.changed = [c.changed EXCEPT ![start] = count, ![start + count] = v]
      /\ p.bit_array = [c.bit_array EXCEPT ![place] = cell]
      /\ p.height = [c.height EXCEPT ![v] = @ + 1]
      /\ p.sizes = [c.sizes EXCEPT ![place] = size_bit_array(cell, c.nr2)]
  BY <1>1
<1> HIDE DEF p
<1>4. ASSUME NEW d \in 0 .. n - 1, NEW j \in 0 .. n
      PROVE  RowStart(n, d) + j \in DOMAIN c.changed
  <2>1. (n + 1) * d + j \in 0 .. Size * (Size + 1) - 1
    BY <1>0, RowInside
  <2> QED  BY <1>0, <2>1 DEF RowStart, ConditionsType
<1>5. ASSUME NEW d \in 0 .. n - 1, NEW j \in 0 .. n
      PROVE  p.changed[RowStart(n, d) + j]
               = IF d # depth THEN c.changed[RowStart(n, d) + j]
                 ELSE IF j = 0 THEN count
                 ELSE IF j = count THEN v
                 ELSE c.changed[RowStart(n, d) + j]
  <2>1. RowStart(n, d) + j \in DOMAIN c.changed
    BY <1>4
  <2>2. start + 0 = start /\ start \in Int  BY <1>0 DEF RowStart
  <2>a. n \in Nat /\ d \in Nat /\ depth \in Nat /\ 0 \in 0 .. n /\ count \in 1 .. n
    BY <1>0, <1>2
  <2> HIDE DEF count, n, start
  <2>3. RowStart(n, d) + j = start + 0 => d = depth /\ j = 0
    BY <2>a, RowApart DEF start
  <2>4. RowStart(n, d) + j = start + count => d = depth /\ j = count
    BY <2>a, RowApart DEF start
  <2>5. start # start + count  BY <2>a, <2>2
  <2>6. p.changed[RowStart(n, d) + j] = IF RowStart(n, d) + j = start + count THEN v
          ELSE IF RowStart(n, d) + j = start THEN count ELSE c.changed[RowStart(n, d) + j]
    BY <1>3, <2>1
  <2>7. d = depth => RowStart(n, d) = start  BY DEF start
  <2> QED  BY <2>a, <2>2, <2>3, <2>4, <2>5, <2>6, <2>7
<1>6. Row(p, depth) = Row(c, depth) \cup {v}
  <2>1. p.changed[start] = count
    <3>1. start + 0 = start  BY <1>0 DEF RowStart
    <3>2. 0 \in 0 .. n /\ depth \in 0 .. n - 1  BY <1>0
    <3> QED  BY <1>5, <3>1, <3>2
  <2>2. \A j \in 1 .. count - 1 : p.changed[start + j] = c.changed[start + j]
    <3>1. \A j \in 1 .. count - 1 : j \in 0 .. n /\ j # 0 /\ j # count
      <4>1. count \in 1 .. n /\ n \in Nat  BY <1>0, <1>2
      <4> HIDE DEF count, n
      <4> QED  BY <4>1
    <3>2. depth \in 0 .. n - 1  BY <1>0
    <3> QED  BY <1>5, <3>1, <3>2
  <2>3. p.changed[start + count] = v
    <3>1. count \in 0 .. n /\ count # 0 /\ depth \in 0 .. n - 1  BY <1>0, <1>2
    <3> QED  BY <1>5, <3>1
  <2>4. Row(p, depth) = { p.changed[start + j] : j \in 1 .. count }
    BY <1>3, <2>1 DEF Row
  <2>5. Row(c, depth) = { c.changed[start + j] : j \in 1 .. count - 1 }
    <3>1. count - 1 = c.changed[start]  BY <1>2
    <3> QED  BY <3>1 DEF Row
  <2>6. \A j : j \in 1 .. count <=> j \in 1 .. count - 1 \/ j = count
    BY <1>2
  <2> HIDE DEF count, start
  <2> QED  BY <2>2, <2>3, <2>4, <2>5, <2>6
<1>7. ASSUME NEW d \in 0 .. n - 1, d # depth
      PROVE  Row(p, d) = Row(c, d)
  <2>1. \A j \in 0 .. n : p.changed[RowStart(n, d) + j] = c.changed[RowStart(n, d) + j]
    BY <1>5, <1>7
  <2>2. RowStart(n, d) \in Nat  BY <1>0 DEF RowStart
  <2>3. c.changed[RowStart(n, d)] \in 0 .. n  BY <1>0
  <2>4. c.nr1 \in Nat /\ p.nr1 = c.nr1  BY <1>0, <1>3
  <2> QED  BY <2>1, <2>2, <2>3, <2>4, SameRow
<1>8. ASSUME NEW u \in Columns(c), u # v
      PROVE  get_conditions(p, u) = get_conditions(c, u)
  <2>1. p.height[u] = c.height[u]  BY <1>3, <1>8
  <2>2. Top(p, u) = Top(c, u)  BY <1>3, <2>1 DEF Top
  <2>3. Top(c, u) # place
    <3>1. c.height[u] \in Nat \ {0} /\ c.height[v] + 1 \in Nat \ {0}  BY <1>0
    <3>2. u \in 0 .. n - 1 /\ v \in 0 .. n - 1  BY DEF Columns
    <3> QED  BY <1>0, <1>8, <3>1, <3>2, CellApart DEF Top
  <2> QED  BY <1>3, <2>2, <2>3 DEF get_conditions
<1>9. ASSUME SizesSmall, NEW k \in 0 .. Size * Size - 1
      PROVE  p.sizes[k] < UNDEFINED
  <2>1. cell \in SUBSET Bits  BY <1>0, <1>1, BitArrayTypes
  <2>2. size_bit_array(cell, c.nr2) < UNDEFINED  BY <2>1, SizeSmall
  <2>3. k \in DOMAIN c.sizes  BY <1>0 DEF ConditionsType
  <2> HIDE DEF cell
  <2> QED  BY <1>3, <1>9, <2>2, <2>3 DEF SizesSmall
<1>10. size_conditions(p, v) \in Nat /\ size_conditions(p, v) < UNDEFINED
  <2>1. p.height[v] = c.height[v] + 1
    <3>1. v \in DOMAIN c.height  BY <1>0 DEF ConditionsType, Columns
    <3> QED  BY <1>3, <3>1
  <2>2. Top(p, v) = place  BY <1>3, <2>1 DEF Top
  <2>3. p.sizes[place] = size_bit_array(cell, c.nr2)
    <3>1. place \in DOMAIN c.sizes  BY <1>0, <1>1 DEF ConditionsType
    <3> QED  BY <1>3, <3>1
  <2>4. cell \in SUBSET Bits  BY <1>0, <1>1, BitArrayTypes
  <2> HIDE DEF cell, place
  <2> QED  BY <2>2, <2>3, <2>4, SizeSmall DEF size_conditions
<1> QED  BY <1>3, <1>6, <1>7, <1>8, <1>9, <1>10 DEF p

(* Narrowing in place lists nothing, and changes one cell.                   *)
LEMMA InPlaceEffect ==
  ASSUME CP!IInv, open, NEW v \in Columns(conditions), NEW b
  PROVE  LET p == IntersectTop(conditions, v, b)
         IN  /\ p.nr1 = conditions.nr1 /\ p.nr2 = conditions.nr2
             /\ \A d : Row(p, d) = Row(conditions, d)
             /\ \A u \in Columns(conditions) :
                  u # v => get_conditions(p, u) = get_conditions(conditions, u)
             /\ get_conditions(p, v)
                  = intersect_bit_arrays(get_conditions(conditions, v), b, conditions.nr2)
             /\ SizesSmall => \A k \in 0 .. Size * Size - 1 : p.sizes[k] < UNDEFINED
<1> DEFINE c == conditions
           p == IntersectTop(c, v, b)
           cell == intersect_bit_arrays(get_conditions(c, v), b, c.nr2)
<1>0. /\ c \in ConditionsType /\ c.nr1 \in Nat
      /\ \A u \in Columns(c) : c.height[u] \in 1 .. c.nr1
  BY ObjectFacts
<1>1. /\ p = [ bit_array |-> [c.bit_array EXCEPT ![Top(c, v)] = cell],
               changed |-> c.changed, height |-> c.height, sizes |-> c.sizes,
               nr1 |-> c.nr1, nr2 |-> c.nr2 ]
      /\ Top(c, v) \in 0 .. Size * Size - 1
  BY <1>0, IntersectFields
<1>2. /\ p.nr1 = c.nr1 /\ p.nr2 = c.nr2 /\ p.changed = c.changed /\ p.height = c.height
      /\ p.sizes = c.sizes
      /\ p.bit_array = [c.bit_array EXCEPT ![Top(c, v)] = cell]
  BY <1>1
<1> HIDE DEF p, cell
<1>3. \A u : Top(p, u) = Top(c, u)  BY <1>2 DEF Top
<1>4. ASSUME NEW u \in Columns(c), u # v
      PROVE  get_conditions(p, u) = get_conditions(c, u)
  <2>1. Top(c, u) # Top(c, v)
    <3>1. c.height[u] \in Nat \ {0} /\ c.height[v] \in Nat \ {0}  BY <1>0
    <3>2. u \in 0 .. c.nr1 - 1 /\ v \in 0 .. c.nr1 - 1  BY DEF Columns
    <3> QED  BY <1>0, <1>4, <3>1, <3>2, CellApart DEF Top
  <2> QED  BY <1>2, <1>3, <2>1 DEF get_conditions
<1>5. get_conditions(p, v) = cell
  <2>1. Top(c, v) \in DOMAIN c.bit_array  BY <1>0, <1>1 DEF ConditionsType
  <2> QED  BY <1>2, <1>3, <2>1 DEF get_conditions
<1>6. \A d : Row(p, d) = Row(c, d)  BY <1>2 DEF Row
<1> QED  BY <1>2, <1>4, <1>5, <1>6 DEF p, cell, SizesSmall

(* A pop empties the row of the depth, and takes its columns down.           *)
LEMMA PopEffect ==
  ASSUME CP!IInv, open, depth \in 0 .. conditions.nr1 - 1
  PROVE  LET p == pop_conditions(conditions, depth)
         IN  /\ p.nr1 = conditions.nr1 /\ p.nr2 = conditions.nr2
             /\ p.sizes = conditions.sizes
             /\ Row(p, depth) = {}
             /\ \A d \in 0 .. conditions.nr1 - 1 : d # depth => Row(p, d) = Row(conditions, d)
             /\ \A u \in Columns(conditions) :
                  u \notin Row(conditions, depth) =>
                    get_conditions(p, u) = get_conditions(conditions, u)
<1> DEFINE c == conditions
           n == c.nr1
           p == pop_conditions(c, depth)
<1>0. c \in ConditionsType /\ n \in Nat /\ depth \in Nat
      /\ \A u \in Columns(c) : c.height[u] \in 1 .. n
  BY ObjectFacts
<1>1. /\ p.nr1 = n /\ p.nr2 = c.nr2 /\ p.sizes = c.sizes
  BY <1>0, PopFields
<1>2. /\ p.bit_array = c.bit_array
      /\ \A i \in Columns(c) :
           p.height[i] = c.height[i] - (IF i \in Row(c, depth) THEN 1 ELSE 0)
      /\ p.changed[RowStart(n, depth)] = 0
      /\ \A d \in 0 .. n - 1 : d # depth => Row(p, d) = Row(c, d)
  BY Copies, InstanceAssumptions, CP!PopEffect
<1> HIDE DEF p
<1>3. Row(p, depth) = {}  BY <1>1, <1>2 DEF Row
<1>4. ASSUME NEW u \in Columns(c), u \notin Row(c, depth)
      PROVE  get_conditions(p, u) = get_conditions(c, u)
  <2>1. p.height[u] = c.height[u]
    <3>1. p.height[u] = c.height[u] - 0 /\ c.height[u] \in Int  BY <1>0, <1>2, <1>4
    <3> QED  BY <3>1
  <2>2. Top(p, u) = Top(c, u)  BY <1>1, <2>1 DEF Top
  <2> QED  BY <1>2, <2>2 DEF get_conditions
<1> QED  BY <1>1, <1>2, <1>3, <1>4 DEF p

(* The size of a column is the one stored for its top cell.                  *)
LEMMA SizeRead ==
  ASSUME CP!IInv, open, SizesSmall, NEW v \in Columns(conditions)
  PROVE  size_conditions(conditions, v) < UNDEFINED /\ size_conditions(conditions, v) \in Int
<1>1. /\ conditions \in ConditionsType /\ conditions.nr1 \in 1 .. Size
      /\ conditions.height[v] \in 1 .. conditions.nr1 /\ Size \in Nat \ {0}
  BY ObjectFacts, SizeFacts
<1>2. v \in 0 .. conditions.nr1 - 1  BY DEF Columns
<1>3. Top(conditions, v) \in 0 .. Size * Size - 1
  BY <1>1, <1>2, CellInside DEF Index, Top
<1>4. conditions.sizes[Top(conditions, v)] \in Nat \cup {Unset}
  BY <1>1, <1>3 DEF ConditionsType
<1> QED  BY <1>3, <1>4 DEF size_conditions, SizesSmall, Unset

------------------------------------------------------------------------------
(* The *_update_conditions helpers push, with one mask or another.           *)

(* The object is a record whose column v has a top cell.                     *)
HasTop(c, v) ==
  /\ c = [ bit_array |-> c.bit_array, changed |-> c.changed, height |-> c.height,
           sizes |-> c.sizes, nr1 |-> c.nr1, nr2 |-> c.nr2 ]
  /\ c.bit_array = [k \in DOMAIN c.bit_array |-> c.bit_array[k]]
  /\ Top(c, v) \in DOMAIN c.bit_array
  /\ get_conditions(c, v) \in SUBSET Bits
  /\ c.nr2 \in 0 .. Size

(* What is written to the top cell is read there, and overwrites the rest.   *)
LEMMA SetTopFacts ==
  ASSUME NEW c, NEW v, HasTop(c, v), NEW x \in SUBSET Bits
  PROVE  /\ HasTop(SetTop(c, v, x), v)
         /\ get_conditions(SetTop(c, v, x), v) = x
         /\ SetTop(c, v, x).nr2 = c.nr2
         /\ \A y : SetTop(SetTop(c, v, x), v, y) = SetTop(c, v, y)
         /\ SetTop(c, v, get_conditions(c, v)) = c
<1> DEFINE s == SetTop(c, v, x)
           ba == [c.bit_array EXCEPT ![Top(c, v)] = x]
<1>1. s = [ bit_array |-> ba, changed |-> c.changed, height |-> c.height,
            sizes |-> c.sizes, nr1 |-> c.nr1, nr2 |-> c.nr2 ]
  BY DEF SetTop, HasTop
<1>2. /\ DOMAIN ba = DOMAIN c.bit_array /\ ba[Top(c, v)] = x
      /\ ba = [k \in DOMAIN ba |-> ba[k]]
      /\ \A y : [ba EXCEPT ![Top(c, v)] = y] = [c.bit_array EXCEPT ![Top(c, v)] = y]
  BY DEF HasTop
<1> HIDE DEF s, ba
<1>3. s.bit_array = ba /\ s.height = c.height /\ s.nr1 = c.nr1 /\ s.nr2 = c.nr2
      /\ s.changed = c.changed /\ s.sizes = c.sizes
  BY <1>1
<1>4. Top(s, v) = Top(c, v)  BY <1>3 DEF Top
<1>5. get_conditions(s, v) = x  BY <1>2, <1>3, <1>4 DEF get_conditions
<1>6. HasTop(s, v)
  BY <1>1, <1>2, <1>3, <1>4, <1>5 DEF HasTop
<1>7. ASSUME NEW y  PROVE SetTop(s, v, y) = SetTop(c, v, y)
  <2> DEFINE by == [ba EXCEPT ![Top(c, v)] = y]
             bc == [c.bit_array EXCEPT ![Top(c, v)] = y]
  <2>1. by = bc  BY <1>2
  <2>2. SetTop(s, v, y) = [s EXCEPT !.bit_array = by]
    BY <1>3, <1>4 DEF SetTop
  <2>3. SetTop(c, v, y) = [c EXCEPT !.bit_array = bc]
    BY DEF SetTop
  <2> HIDE DEF by, bc
  <2>4. SetTop(s, v, y) = [ bit_array |-> by, changed |-> c.changed, height |-> c.height,
                            sizes |-> c.sizes, nr1 |-> c.nr1, nr2 |-> c.nr2 ]
    BY <1>1, <2>2
  <2>5. SetTop(c, v, y) = [ bit_array |-> bc, changed |-> c.changed, height |-> c.height,
                            sizes |-> c.sizes, nr1 |-> c.nr1, nr2 |-> c.nr2 ]
    BY <2>3 DEF HasTop
  <2> QED  BY <2>1, <2>4, <2>5
<1>8. SetTop(c, v, get_conditions(c, v)) = c
  <2> DEFINE same == [c.bit_array EXCEPT ![Top(c, v)] = c.bit_array[Top(c, v)]]
  <2>1. same = c.bit_array  BY DEF HasTop
  <2>2. SetTop(c, v, get_conditions(c, v)) = [c EXCEPT !.bit_array = same]
    BY DEF SetTop, get_conditions
  <2> HIDE DEF same
  <2> QED  BY <2>1, <2>2 DEF HasTop
<1> QED  BY <1>3, <1>5, <1>6, <1>7, <1>8 DEF s

(* So all the ways to narrow it are intersections with one mask.             *)
LEMMA OneMask ==
  ASSUME NEW c, NEW v, HasTop(c, v)
  PROVE  /\ IntersectTop(c, v, Bits) = c
         /\ \A b : ComplementTop(c, v, b) = IntersectTop(c, v, Bits \ b)
         /\ \A a, b : IntersectTop(IntersectTop(c, v, a), v, b) = IntersectTop(c, v, a \cap b)
         /\ \A b : HasTop(IntersectTop(c, v, b), v)
<1> DEFINE cell == get_conditions(c, v)
<1>0. cell \in SUBSET Bits /\ c.nr2 \in 0 .. Size /\ Covered(c.nr2) \subseteq Bits
  BY CoveredInBits DEF HasTop
<1>1. IntersectTop(c, v, Bits) = c
  <2>1. intersect_bit_arrays(cell, Bits, c.nr2) = cell  BY <1>0 DEF intersect_bit_arrays
  <2> QED  BY <2>1, <1>0, SetTopFacts DEF IntersectTop
<1>2. ASSUME NEW b  PROVE ComplementTop(c, v, b) = IntersectTop(c, v, Bits \ b)
  <2>1. complement_bit_arrays(cell, b, c.nr2) = intersect_bit_arrays(cell, Bits \ b, c.nr2)
    BY <1>0 DEF intersect_bit_arrays, complement_bit_arrays
  <2> QED  BY <2>1 DEF IntersectTop, ComplementTop
<1>3. ASSUME NEW a
      PROVE  /\ HasTop(IntersectTop(c, v, a), v)
             /\ \A b : IntersectTop(IntersectTop(c, v, a), v, b) = IntersectTop(c, v, a \cap b)
  <2> DEFINE x == intersect_bit_arrays(cell, a, c.nr2)
  <2>1. x \in SUBSET Bits  BY <1>0 DEF intersect_bit_arrays
  <2>2. IntersectTop(c, v, a) = SetTop(c, v, x)  BY DEF IntersectTop
  <2>3. \A b : intersect_bit_arrays(x, b, c.nr2) = intersect_bit_arrays(cell, a \cap b, c.nr2)
    BY DEF intersect_bit_arrays
  <2> HIDE DEF x
  <2>4. /\ HasTop(SetTop(c, v, x), v) /\ get_conditions(SetTop(c, v, x), v) = x
        /\ SetTop(c, v, x).nr2 = c.nr2
        /\ \A y : SetTop(SetTop(c, v, x), v, y) = SetTop(c, v, y)
    BY <2>1, SetTopFacts
  <2> QED  BY <2>2, <2>3, <2>4 DEF IntersectTop
<1> QED  BY <1>1, <1>2, <1>3

(* What a push with a mask does.                                             *)
PushedWith(c, d, v, b) == store_size_conditions(push_conditions(c, d, v, b), v)

LEMMA CopyHasTop ==
  ASSUME CP!IInv, open, depth \in 1 .. conditions.nr1 - 1,
         NEW v \in Columns(conditions), v \notin Row(conditions, depth)
  PROVE  HasTop(PushCopy(conditions, depth, v), v)
<1> DEFINE c == conditions
           n == c.nr1
           count == c.changed[RowStart(n, depth)] + 1
           place == Index(n, c.height[v] + 1, v)
           old   == get_conditions(c, v)
           ba    == [c.bit_array EXCEPT ![place] = old]
           p     == PushCopy(c, depth, v)
<1>0. /\ c \in ConditionsType /\ n \in 1 .. Size /\ c.nr2 \in 0 .. Size
      /\ Size \in Nat \ {0}
      /\ c.height[v] \in 1 .. n - 1
      /\ v \in 0 .. n - 1
  BY ObjectFacts, SizeFacts DEF Columns
<1>1. place \in 0 .. Size * Size - 1
  BY <1>0, CellInside DEF Index
<1>2. Top(c, v) \in 0 .. Size * Size - 1
  BY <1>0, CellInside DEF Index, Top
<1>3. old \in SUBSET Bits
  BY <1>0, <1>2 DEF ConditionsType, get_conditions
<1> DEFINE ch == [c.changed EXCEPT ![RowStart(n, depth)] = count,
                                     ![RowStart(n, depth) + count] = v]
           he == [c.height EXCEPT ![v] = @ + 1]
<1>a. p = [c EXCEPT !.bit_array = ba, !.changed = ch, !.height = he]
  BY DEF PushCopy, ConditionsType
<1>4. p = [ bit_array |-> ba, changed |-> ch, height |-> he,
            sizes |-> c.sizes, nr1 |-> n, nr2 |-> c.nr2 ]
  <2> HIDE DEF ba, ch, he
  <2> QED  BY <1>0, <1>a DEF ConditionsType
<1>5. p.bit_array = ba /\ p.height = [c.height EXCEPT ![v] = @ + 1] /\ p.nr1 = n /\ p.nr2 = c.nr2
  BY <1>4
<1>6. p.height[v] = c.height[v] + 1
  <2>1. v \in DOMAIN c.height  BY <1>0 DEF ConditionsType
  <2> QED  BY <1>5, <2>1
<1>7. Top(p, v) = place  BY <1>5, <1>6 DEF Top
<1>8. ba \in [0 .. Size * Size - 1 -> SUBSET Bits] /\ ba[place] = old
  BY <1>0, <1>1, <1>3 DEF ConditionsType
<1>9. p = [ bit_array |-> p.bit_array, changed |-> p.changed, height |-> p.height,
            sizes |-> p.sizes, nr1 |-> p.nr1, nr2 |-> p.nr2 ]
  BY <1>4
<1> HIDE DEF p, ba, place
<1> QED  BY <1>0, <1>1, <1>3, <1>5, <1>7, <1>8, <1>9 DEF HasTop, get_conditions, p

LEMMA UpdatesPush ==
  ASSUME CP!IInv, open, depth \in 1 .. conditions.nr1 - 1,
         NEW v \in Columns(conditions), v \notin Row(conditions, depth),
         args \in Arguments, NEW l
  PROVE  LET Pushes(p) == \E b \in SUBSET Bits : p = PushedWith(conditions, depth, v, b)
         IN  /\ Pushes(graph_homo_update_conditions(conditions, depth, l, v))
             /\ Pushes(graph_mono_update_conditions(conditions, depth, l, v))
             /\ Pushes(graph_embed_update_conditions(conditions, depth, l, v))
             /\ \/ Pushes(digraph_homo_update_conditions(conditions, depth, l, v))
                \/ digraph_homo_update_conditions(conditions, depth, l, v) = conditions
             /\ Pushes(digraph_mono_update_conditions(conditions, depth, l, v))
             /\ Pushes(digraph_embed_update_conditions(conditions, depth, l, v))
<1> DEFINE c == conditions
           d == depth
           pc == PushCopy(c, d, v)
           out == OutNeighbours2(MAP[l])
           in == InNeighbours2(MAP[l])
           Narrowed_(p) == \E b \in SUBSET Bits : p = IntersectTop(pc, v, b)
           Pushes(p) == \E b \in SUBSET Bits : p = PushedWith(c, d, v, b)
<1>1. HasTop(pc, v)  BY CopyHasTop
<1>2. out \in SUBSET Bits /\ in \in SUBSET Bits
  <2>1. 0 .. n2 - 1 \subseteq 0 .. Size - 1  BY ArgumentsAssumption, SizeFacts DEF n2
  <2> QED  BY <2>1, SizeFacts DEF OutNeighbours2, InNeighbours2
<1> HIDE DEF out, in, pc
<1>3. ASSUME NEW p, Narrowed_(p)  PROVE Pushes(store_size_conditions(p, v))
  BY <1>3 DEF PushedWith, push_conditions, pc
<1>4. Narrowed_(pc)
  BY <1>1, OneMask
<1>5. ASSUME NEW p, NEW b \in SUBSET Bits, Narrowed_(p)
      PROVE  Narrowed_(IntersectTop(p, v, b)) /\ Narrowed_(ComplementTop(p, v, b))
  <2>1. PICK a \in SUBSET Bits : p = IntersectTop(pc, v, a)  BY <1>5
  <2>2. HasTop(p, v)  BY <1>1, <2>1, OneMask
  <2>3. IntersectTop(p, v, b) = IntersectTop(pc, v, a \cap b)
    BY <1>1, <2>1, OneMask
  <2>4. ComplementTop(p, v, b) = IntersectTop(pc, v, a \cap (Bits \ b))
    <3>1. ComplementTop(p, v, b) = IntersectTop(p, v, Bits \ b)
      BY <2>2, OneMask
    <3>2. IntersectTop(p, v, Bits \ b) = IntersectTop(pc, v, a \cap (Bits \ b))
      BY <1>1, <2>1, OneMask
    <3> QED  BY <3>1, <3>2
  <2>5. a \cap b \in SUBSET Bits /\ a \cap (Bits \ b) \in SUBSET Bits  OBVIOUS
  <2> QED  BY <2>3, <2>4, <2>5
<1>6. \A b \in SUBSET Bits : push_conditions(c, d, v, b) = IntersectTop(pc, v, b)
  BY DEF push_conditions, pc
<1>7. \A b \in SUBSET Bits : Narrowed_(push_conditions(c, d, v, b))
  BY <1>6
<1> HIDE DEF Narrowed_, Pushes
<1>8. Pushes(graph_homo_update_conditions(c, d, l, v))
  BY <1>2, <1>3, <1>7 DEF graph_homo_update_conditions, out
<1>9. Pushes(graph_mono_update_conditions(c, d, l, v))
  BY <1>2, <1>3, <1>7 DEF graph_mono_update_conditions, out
<1>10. Pushes(graph_embed_update_conditions(c, d, l, v))
  BY <1>2, <1>3, <1>4, <1>5 DEF graph_embed_update_conditions, out, pc
<1>11. \/ Pushes(digraph_homo_update_conditions(c, d, l, v))
       \/ digraph_homo_update_conditions(c, d, l, v) = c
  BY <1>2, <1>3, <1>5, <1>7 DEF digraph_homo_update_conditions, out, in
<1>12. Pushes(digraph_mono_update_conditions(c, d, l, v))
  <2>1. Narrowed_(IF Adjacent1(l, v) THEN IntersectTop(pc, v, out) ELSE pc)
    BY <1>2, <1>4, <1>5
  <2> DEFINE q == IF Adjacent1(l, v) THEN IntersectTop(pc, v, out) ELSE pc
  <2>2. Narrowed_(IF Adjacent1(v, l) THEN IntersectTop(q, v, in) ELSE q)
    BY <1>2, <1>5, <2>1
  <2> QED  BY <1>3, <2>2 DEF digraph_mono_update_conditions, out, in, pc
<1>13. Pushes(digraph_embed_update_conditions(c, d, l, v))
  <2> DEFINE q == IF Adjacent1(l, v) THEN IntersectTop(pc, v, out) ELSE ComplementTop(pc, v, out)
             r == IF Adjacent1(v, l) THEN IntersectTop(q, v, in) ELSE ComplementTop(q, v, in)
  <2>1. Narrowed_(q)
    BY <1>2, <1>4, <1>5
  <2>2. Narrowed_(r)
    BY <1>2, <1>5, <2>1
  <2>3. digraph_embed_update_conditions(c, d, l, v) = store_size_conditions(r, v)
    BY DEF digraph_embed_update_conditions, out, in, pc
  <2> QED  BY <1>3, <2>2, <2>3
<1> QED  BY <1>8, <1>9, <1>10, <1>11, <1>12, <1>13 DEF Pushes

------------------------------------------------------------------------------
(* The invariant of the searches.                                            *)

(* The vertices of the two digraphs.                                         *)
V1 == 0 .. n1 - 1
V2 == 0 .. n2 - 1

Active == status \in { "partial", "search" }

(* The k-th of the calls on the stack runs at FrameDepth(k); those below the *)
(* top one have each assigned a vertex, and AssignedAt(k) was assigned when  *)
(* the k-th call was made.                                                   *)
Height == Len(stack)
FrameDepth(k) == depth - (Height - k)
Tried(k) == { stack[j].next : j \in k .. Height - 1 }
AssignedAt(k) == Assigned \ Tried(k)
ValuesAt(k) == { MAP[v] : v \in AssignedAt(k) }

(* find_digraph_embeddings tries the values of the cell itself.              *)
InPlace == ~ Undirected(args) /\ args.injective = 2

Stages == { "enter", "narrow", "narrow2", "install", "pick", "new", "old", "leave" }
FrameType ==
  [ pos : Nat, rep_depth : Nat, has_trivial_stab : BOOLEAN, rank : Nat, stage : Stages,
    at : Int, next : Int, min : Int ]

(* Every global stays in the array it was allocated as.                      *)
Fields ==
  /\ depth \in 0 .. Size - 1
  /\ open \in BOOLEAN
  /\ MAP \in [0 .. Size - 1 -> 0 .. Size - 1 \cup { UNDEFINED }]
  /\ VALS \in SUBSET Bits /\ IMAGE_RESTRICT \in SUBSET Bits
  /\ MAP_UNDEFINED \in [0 .. Size - 1 -> SUBSET Bits]
  /\ BIT_ARRAY_BUFFER \in [0 .. Size - 1 -> SUBSET Bits]
  /\ REPS \in [0 .. Size - 1 -> SUBSET Bits]
  /\ DOMAIN STAB_GENS = 0 .. Size - 1
  /\ status \in StatusType
  /\ (stack # << >>) <=> Active
  /\ calls \in 0 .. MaxCalls

(* The object and the globals are those of the call that is active.          *)
ArgsRight ==
  /\ args \in Arguments
  /\ open = TRUE
  /\ conditions.nr1 = n1 /\ conditions.nr2 = n2

FramesRight ==
  /\ stack \in Seq(FrameType)
  /\ Height >= 1
  /\ status = "partial" => Height = 1
  /\ depth \in 0 .. n1
  /\ Height - 1 <= depth
  /\ depth < n1 \/ F.stage = "enter"

(* The redundant globals agree.                                              *)
MapRight ==
  /\ Cardinality(Assigned) = depth
  /\ \A v \in Assigned : MAP[v] \in V2
  /\ SetBits(VALS, n2) = ValuesAt(Height)
  /\ F.stage # "enter" \/ depth = 0 => SetBits(MAP_UNDEFINED[depth], n1) = V1 \ Assigned

CallRight(k) ==
  /\ stack[k].rep_depth <= FrameDepth(k)
  /\ stack[k].rank = Cardinality(ValuesAt(k))
  /\ FrameDepth(k) > 0 =>
       /\ stack[k].pos \in V1
       /\ SetBits(MAP_UNDEFINED[FrameDepth(k) - 1], n1) = V1 \ AssignedAt(k)
  /\ FrameDepth(k) < n1 => Row(conditions, FrameDepth(k)) \cap AssignedAt(k) = {}

(* What a call that tries values has left to try.                            *)
ToChoose(k) ==
  IF InPlace THEN get_conditions(conditions, stack[k].next)
  ELSE BIT_ARRAY_BUFFER[FrameDepth(k)]

TriesRight(k) ==
  /\ stack[k].next \in V1 \ AssignedAt(k)
  /\ stack[k].stage = "new" => SetBits(ToChoose(k), n2) \cap ValuesAt(k) = {}
  /\ stack[k].stage = "old" => SetBits(ToChoose(k), n2) \subseteq ValuesAt(k) /\ ~ InPlace

CallerRight(k) ==
  /\ stack[k].stage \in { "new", "old" }
  /\ TriesRight(k)
  /\ stack[k].next \in AssignedAt(k + 1)
  /\ stack[k].at = MAP[stack[k].next]
  /\ stack[k].stage = "old" <=> stack[k].at \in ValuesAt(k)

CallsRight ==
  /\ \A k \in 1 .. Height : CallRight(k)
  /\ \A k \in 1 .. Height - 1 : CallerRight(k)

(* What the running call, with frame f, has pushed and has left to push.     *)
Left == V1 \ Assigned
NarrowingOf(f, pushed, buffer) ==
  /\ f.stage = "enter" /\ depth \in 1 .. n1 - 1 => pushed = {}
  /\ f.stage \in { "narrow", "narrow2" } =>
       /\ depth \in 1 .. n1 - 1
       /\ f.at \in -1 .. n1 - 1
       /\ InPlace => \A v \in Left : v <= f.at => v \in pushed
  /\ f.stage = "narrow" =>
       /\ Undirected(args) => SetBits(buffer, n1) = Left \cap Neighbours1(f.pos)
       /\ \A v \in pushed : v <= f.at /\ (Undirected(args) => v \in Neighbours1(f.pos))
  /\ f.stage = "narrow2" =>
       /\ SecondPass
       /\ SetBits(buffer, n1) = Left \ Neighbours1(f.pos)
       /\ \A v \in pushed : v <= f.at \/ v \in Neighbours1(f.pos)

(* The entries of the partial map are installed in increasing order.         *)
Before(f) ==
  { u \in DOMAIN args.partial_map : u < f.next \/ (f.stage = "enter" /\ u = f.next) }
PartialOf(f) ==
  /\ f.stage \in { "enter", "narrow", "narrow2", "install" }
  /\ f.next \in { -1 } \cup DOMAIN args.partial_map
  /\ f.stage # "enter" => f.next # -1
  /\ Assigned = { INVERSE_ORDER[u] : u \in Before(f) }

(* The vertex to be picked has been found, or will be.                       *)
PickOf(f, pushed) ==
  /\ f.stage # "install"
  /\ f.stage \in { "enter", "narrow", "narrow2", "pick" } =>
       \/ f.min = UNDEFINED /\ f.next = -1
       \/ f.min < UNDEFINED /\ f.next \in Left
  /\ f.stage = "enter" => f.min = UNDEFINED /\ f.at = -1
  /\ f.stage \in { "narrow", "narrow2" } /\ f.at >= 0 => f.min < UNDEFINED
  /\ f.stage = "narrow2" => f.min < UNDEFINED \/ Left \cap Neighbours1(f.pos) = {}
  /\ f.stage = "pick" =>
       /\ \/ depth = 0
          \/ f.min < UNDEFINED
          \/ Undirected(args) /\ args.injective < 2 /\ Left \cap Neighbours1(f.pos) = {}
       /\ InPlace /\ depth > 0 => Left \subseteq pushed

(* What it has left to try, out of these choices.                            *)
TriesOf(f, choices) ==
  f.stage \in { "new", "old" } =>
    /\ f.next \in Left
    /\ f.stage = "new" => SetBits(choices, n2) \cap ValuesAt(Height) = {}
    /\ f.stage = "old" => SetBits(choices, n2) \subseteq ValuesAt(Height) /\ ~ InPlace

Pushed == Row(conditions, depth)
Buffer == BIT_ARRAY_BUFFER[IF status = "partial" THEN 0 ELSE depth]

TopRight ==
  /\ NarrowingOf(F, Pushed, Buffer)
  /\ status = "partial" => PartialOf(F)
  /\ status = "search" => PickOf(F, Pushed)
  /\ TriesOf(F, ToChoose(Height))

ActiveRight == ArgsRight /\ FramesRight /\ MapRight /\ CallsRight /\ TopRight

HInv == SizesSmall /\ Fields /\ (Active => ActiveRight)

------------------------------------------------------------------------------
(* What every step of an active call can use.                                *)
LEMMA ActiveFacts ==
  ASSUME HInv, Active
  PROVE  /\ n1 \in 1 .. Size - 1 /\ n2 \in 1 .. Size - 1 /\ n1 \in Nat /\ n2 \in Nat
         /\ Size \in Nat /\ Size < UNDEFINED
         /\ Assigned \subseteq V1 /\ IsFiniteSet(Assigned)
         /\ V1 \subseteq 0 .. Size - 1 /\ V2 \subseteq 0 .. Size - 1
         /\ V1 \subseteq Nat /\ V2 \subseteq Nat /\ V2 \subseteq Bits
         /\ Height \in Nat \ {0} /\ depth \in Nat /\ depth <= n1 /\ Height - 1 <= depth
         /\ F = stack[Height] /\ F \in FrameType
         /\ \A k \in 1 .. Height : stack[k] \in FrameType
         /\ AssignedAt(Height) = Assigned
         /\ FrameDepth(Height) = depth
         /\ \A k \in 1 .. Height : FrameDepth(k) \in 0 .. depth
         /\ \A k \in 1 .. Height - 1 : FrameDepth(k) \in 0 .. depth - 1
         /\ Columns(conditions) = V1
<1>0. ArgsRight /\ FramesRight /\ SizesSmall /\ Fields
  BY DEF HInv, ActiveRight
<1>1. n1 \in 1 .. Size - 1 /\ n2 \in 1 .. Size - 1
  BY <1>0, ArgumentsAssumption DEF ArgsRight, n1, n2
<1>2. Size \in Nat /\ Size < UNDEFINED /\ UNDEFINED \in Nat /\ 0 .. Size - 1 \subseteq Bits
  BY SizeFacts DEF UNDEFINED
<1>3. n1 \in Nat /\ n2 \in Nat  BY <1>1, <1>2
<1>4. /\ Assigned \subseteq V1 /\ V1 \subseteq 0 .. Size - 1 /\ V2 \subseteq 0 .. Size - 1
      /\ V1 \subseteq Nat /\ V2 \subseteq Nat
  BY <1>1, <1>2, <1>3 DEF Assigned, V1, V2
<1>5. IsFiniteSet(Assigned)
  <2>1. IsFiniteSet(V1)  BY <1>3, IntervalFinite DEF V1
  <2> QED  BY <1>4, <2>1, FS_Subset
<1>6. Height \in Nat \ {0} /\ depth \in Nat /\ depth <= n1 /\ Height - 1 <= depth
  BY <1>0, <1>3 DEF FramesRight, Height
<1>7. F = stack[Height] /\ \A k \in 1 .. Height : stack[k] \in FrameType
  BY <1>0, <1>6 DEF FramesRight, Height, F, Last
<1>8. F \in FrameType  BY <1>6, <1>7
<1>9. AssignedAt(Height) = Assigned /\ FrameDepth(Height) = depth
  BY <1>6 DEF AssignedAt, Tried, FrameDepth
<1>10. /\ \A k \in 1 .. Height : FrameDepth(k) \in 0 .. depth
       /\ \A k \in 1 .. Height - 1 : FrameDepth(k) \in 0 .. depth - 1
  BY <1>6 DEF FrameDepth
<1>11. Columns(conditions) = V1  BY <1>0 DEF Columns, V1, ArgsRight
<1> QED  BY <1>1, <1>2, <1>3, <1>4, <1>5, <1>6, <1>7, <1>8, <1>9, <1>10, <1>11

(* A step that replaces the frame of the running call, and nothing that the  *)
(* calls below it rely on.                                                   *)
StayStep(G) ==
  /\ stack' = Append(Front(stack), G)
  /\ G \in FrameType
  /\ G.pos = F.pos /\ G.rank = F.rank /\ G.rep_depth = F.rep_depth
  /\ UNCHANGED << depth, open, MAP, VALS, args >>
  /\ Active' /\ (status = "search" => status' = "search")
  /\ \A d \in 0 .. depth - 1 : MAP_UNDEFINED'[d] = MAP_UNDEFINED[d]
  /\ \A d \in 0 .. depth - 1 :
       status = "search" => BIT_ARRAY_BUFFER'[d] = BIT_ARRAY_BUFFER[d]
  /\ conditions'.nr1 = conditions.nr1 /\ conditions'.nr2 = conditions.nr2
  /\ \A d \in 0 .. n1 - 1 :
       /\ d # depth => Row(conditions', d) = Row(conditions, d)
       /\ d = depth => Row(conditions', d) \cap Assigned = {}
  /\ \A k \in 1 .. Height - 1 :
       get_conditions(conditions', stack[k].next) = get_conditions(conditions, stack[k].next)

LEMMA StayFrames ==
  ASSUME HInv, Active, NEW G, StayStep(G)
  PROVE  /\ stack' \in Seq(FrameType) /\ Height' = Height
         /\ F' = G /\ stack'[Height] = G
         /\ \A k \in 1 .. Height - 1 : stack'[k] = stack[k]
         /\ Assigned' = Assigned /\ n1' = n1 /\ n2' = n2 /\ V1' = V1 /\ V2' = V2
         /\ \A k \in 1 .. Height : /\ AssignedAt(k)' = AssignedAt(k)
                                   /\ ValuesAt(k)' = ValuesAt(k)
                                   /\ FrameDepth(k)' = FrameDepth(k)
         /\ InPlace' = InPlace
<1>0. stack \in Seq(FrameType) /\ Len(stack) >= 1 /\ G \in FrameType
  BY DEF HInv, ActiveRight, FramesRight, Height, StayStep
<1>1. LET t == Append(Front(stack), G)
      IN  /\ t \in Seq(FrameType) /\ Len(t) = Len(stack)
          /\ \A k \in 1 .. Len(stack) - 1 : t[k] = stack[k]
          /\ t[Len(stack)] = G
          /\ Last(t) = G
  BY <1>0, StackStay
<1>2. stack' = Append(Front(stack), G)  BY DEF StayStep
<1>3. /\ stack' \in Seq(FrameType) /\ Height' = Height
      /\ F' = G /\ stack'[Height] = G
      /\ \A k \in 1 .. Height - 1 : stack'[k] = stack[k]
  BY <1>1, <1>2 DEF Height, F
<1>4. Assigned' = Assigned /\ n1' = n1 /\ n2' = n2 /\ V1' = V1 /\ V2' = V2 /\ InPlace' = InPlace
  BY DEF StayStep, Assigned, n1, n2, V1, V2, InPlace, Undirected
<1>5. ASSUME NEW k \in 1 .. Height
      PROVE  /\ AssignedAt(k)' = AssignedAt(k)
             /\ ValuesAt(k)' = ValuesAt(k)
             /\ FrameDepth(k)' = FrameDepth(k)
  <2>1. \A j \in k .. Height - 1 : stack'[j] = stack[j]
    <3>1. \A j \in k .. Height - 1 : j \in 1 .. Height - 1  BY ActiveFacts
    <3> QED  BY <1>3, <3>1
  <2>2. Tried(k)' = Tried(k)  BY <1>3, <2>1 DEF Tried
  <2>3. MAP' = MAP /\ depth' = depth  BY DEF StayStep
  <2> QED  BY <1>3, <1>4, <2>2, <2>3 DEF AssignedAt, ValuesAt, FrameDepth
<1> QED  BY <1>3, <1>4, <1>5

LEMMA StayCalls ==
  ASSUME HInv, Active, NEW G, StayStep(G)
  PROVE  ArgsRight' /\ CallsRight'
<1>0. /\ stack' \in Seq(FrameType) /\ Height' = Height
      /\ F' = G /\ stack'[Height] = G
      /\ \A k \in 1 .. Height - 1 : stack'[k] = stack[k]
      /\ Assigned' = Assigned /\ n1' = n1 /\ n2' = n2 /\ V1' = V1 /\ V2' = V2
      /\ \A k \in 1 .. Height : /\ AssignedAt(k)' = AssignedAt(k)
                                /\ ValuesAt(k)' = ValuesAt(k)
                                /\ FrameDepth(k)' = FrameDepth(k)
      /\ InPlace' = InPlace
  BY StayFrames
<1>1. /\ Height \in Nat \ {0} /\ depth \in Nat /\ n1 \in Nat
      /\ F = stack[Height] /\ AssignedAt(Height) = Assigned
      /\ FrameDepth(Height) = depth
      /\ \A k \in 1 .. Height : FrameDepth(k) \in 0 .. depth
      /\ \A k \in 1 .. Height - 1 : FrameDepth(k) \in 0 .. depth - 1
  BY ActiveFacts
<1>2. ArgsRight'
  BY <1>0 DEF StayStep, HInv, ActiveRight, ArgsRight
<1>3. ASSUME NEW k \in 1 .. Height  PROVE CallRight(k)'
  <2>1. CallRight(k)  BY DEF HInv, ActiveRight, CallsRight
  <2>2. stack'[k].rep_depth = stack[k].rep_depth /\ stack'[k].rank = stack[k].rank
        /\ stack'[k].pos = stack[k].pos
    <3>1. CASE k = Height
      BY <1>0, <1>1, <3>1 DEF StayStep
    <3>2. CASE k # Height
      <4>1. k \in 1 .. Height - 1  BY <1>1, <3>2
      <4> QED  BY <1>0, <4>1
    <3> QED  BY <3>1, <3>2
  <2>3. FrameDepth(k)' = FrameDepth(k) /\ AssignedAt(k)' = AssignedAt(k)
        /\ ValuesAt(k)' = ValuesAt(k)
    BY <1>0
  <2>4. FrameDepth(k) > 0 => MAP_UNDEFINED'[FrameDepth(k) - 1] = MAP_UNDEFINED[FrameDepth(k) - 1]
    <3>1. FrameDepth(k) > 0 => FrameDepth(k) - 1 \in 0 .. depth - 1  BY <1>1
    <3> QED  BY <3>1 DEF StayStep
  <2>5. FrameDepth(k) < n1 => Row(conditions', FrameDepth(k)) \cap AssignedAt(k) = {}
    <3>1. CASE k = Height
      <4>1. depth < n1 => depth \in 0 .. n1 - 1  BY <1>1
      <4> QED  BY <1>1, <3>1, <4>1 DEF StayStep
    <3>2. CASE k # Height
      <4>1. k \in 1 .. Height - 1  BY <1>1, <3>2
      <4>2. FrameDepth(k) < n1 => FrameDepth(k) \in 0 .. n1 - 1 /\ FrameDepth(k) # depth
        BY <1>1, <4>1
      <4>3. FrameDepth(k) < n1 => Row(conditions', FrameDepth(k)) = Row(conditions, FrameDepth(k))
        BY <4>2 DEF StayStep
      <4> QED  BY <2>1, <4>3 DEF CallRight
    <3> QED  BY <3>1, <3>2
  <2> QED  BY <1>0, <2>1, <2>2, <2>3, <2>4, <2>5 DEF CallRight
<1>4. ASSUME NEW k \in 1 .. Height - 1  PROVE CallerRight(k)'
  <2>1. CallerRight(k) /\ TriesRight(k)  BY DEF HInv, ActiveRight, CallsRight, CallerRight
  <2>2. k \in 1 .. Height /\ k + 1 \in 1 .. Height  BY <1>1
  <2>3. stack'[k] = stack[k] /\ FrameDepth(k)' = FrameDepth(k) /\ AssignedAt(k)' = AssignedAt(k)
        /\ ValuesAt(k)' = ValuesAt(k) /\ AssignedAt(k + 1)' = AssignedAt(k + 1)
    BY <1>0, <2>2
  <2>4. ToChoose(k)' = ToChoose(k)
    <3>1. get_conditions(conditions', stack[k].next) = get_conditions(conditions, stack[k].next)
      BY DEF StayStep
    <3>2. status = "search"
      <4>1. status = "partial" => Height = 1  BY DEF HInv, ActiveRight, FramesRight
      <4>2. Height # 1  BY <1>1
      <4> QED  BY <4>1, <4>2 DEF Active
    <3>3. BIT_ARRAY_BUFFER'[FrameDepth(k)] = BIT_ARRAY_BUFFER[FrameDepth(k)]
      BY <1>1, <3>2 DEF StayStep
    <3> QED  BY <1>0, <2>3, <3>1, <3>3 DEF ToChoose
  <2>5. MAP' = MAP  BY DEF StayStep
  <2>6. TriesRight(k)'
    BY <1>0, <2>1, <2>3, <2>4 DEF TriesRight
  <2> QED  BY <2>1, <2>3, <2>5, <2>6 DEF CallerRight
<1>5. CallsRight'
  BY <1>0, <1>3, <1>4 DEF CallsRight
<1> QED  BY <1>2, <1>5

(* What is left to show of such a step: that the new frame is right.         *)
LEMMA StayDone ==
  ASSUME HInv, Active, NEW G, StayStep(G),
         SizesSmall',
         MAP_UNDEFINED' \in [0 .. Size - 1 -> SUBSET Bits],
         BIT_ARRAY_BUFFER' \in [0 .. Size - 1 -> SUBSET Bits],
         UNCHANGED << IMAGE_RESTRICT, STAB_GENS, REPS, calls >>,
         status' = status \/ status' = "search",
         G.stage = "enter" \/ depth < n1,
         G.stage # "enter" \/ depth = 0 => SetBits(MAP_UNDEFINED'[depth], n1) = Left,
         NarrowingOf(G, Row(conditions', depth),
                     BIT_ARRAY_BUFFER'[IF status' = "partial" THEN 0 ELSE depth]),
         status' = "partial" => PartialOf(G),
         status' = "search" => PickOf(G, Row(conditions', depth)),
         TriesOf(G, IF InPlace THEN get_conditions(conditions', G.next)
                    ELSE BIT_ARRAY_BUFFER'[depth])
  PROVE  HInv'
<1>0. /\ stack' \in Seq(FrameType) /\ Height' = Height
      /\ F' = G /\ stack'[Height] = G
      /\ Assigned' = Assigned /\ n1' = n1 /\ n2' = n2 /\ V1' = V1 /\ V2' = V2
      /\ \A k \in 1 .. Height : /\ AssignedAt(k)' = AssignedAt(k)
                                /\ ValuesAt(k)' = ValuesAt(k)
                                /\ FrameDepth(k)' = FrameDepth(k)
      /\ InPlace' = InPlace
  BY StayFrames
<1>1. /\ Height \in Nat \ {0} /\ depth \in Nat /\ n1 \in Nat
      /\ FrameDepth(Height) = depth /\ Height \in 1 .. Height
  BY ActiveFacts
<1>2. /\ depth' = depth /\ open' = open /\ MAP' = MAP /\ VALS' = VALS /\ args' = args
      /\ Active'
  BY DEF StayStep
<1>3. ArgsRight' /\ CallsRight'  BY StayCalls
<1>4. ValuesAt(Height)' = ValuesAt(Height) /\ FrameDepth(Height)' = depth
  BY <1>0, <1>1
<1>5. Fields'
  <2>1. stack' # << >>  BY <1>0, <1>1 DEF Height
  <2>2. status' \in StatusType  BY <1>2 DEF Active, StatusType
  <2>3. Fields  BY DEF HInv
  <2> QED  BY <1>2, <2>1, <2>2, <2>3 DEF Fields
<1>6. FramesRight'
  <2>1. FramesRight  BY DEF HInv, ActiveRight
  <2>2. status' = "partial" => status = "partial"  OBVIOUS
  <2> QED  BY <1>0, <1>2, <2>1, <2>2 DEF FramesRight
<1>7. MapRight'
  <2>1. MapRight  BY DEF HInv, ActiveRight
  <2> QED  BY <1>0, <1>2, <1>4, <2>1 DEF MapRight, Left
<1>8. TopRight'
  <2>1. Left' = Left /\ Pushed' = Row(conditions', depth)
        /\ Buffer' = BIT_ARRAY_BUFFER'[IF status' = "partial" THEN 0 ELSE depth]
    BY <1>0, <1>2 DEF Left, Pushed, Buffer
  <2>2. Undirected(args)' = Undirected(args) /\ SecondPass' = SecondPass
        /\ args' = args /\ INVERSE_ORDER' = INVERSE_ORDER
        /\ Neighbours1(G.pos)' = Neighbours1(G.pos)
    BY <1>0, <1>2 DEF SecondPass, Neighbours1, Adjacent1, n1, INVERSE_ORDER
  <2>3. NarrowingOf(F, Pushed, Buffer)'
    BY <1>0, <1>2, <2>1, <2>2 DEF NarrowingOf
  <2>4. (status = "partial" => PartialOf(F))'
    BY <1>0, <1>2, <2>1, <2>2 DEF PartialOf, Before
  <2>5. (status = "search" => PickOf(F, Pushed))'
    BY <1>0, <1>2, <2>1, <2>2 DEF PickOf
  <2>6. ToChoose(Height)' = IF InPlace THEN get_conditions(conditions', G.next)
                            ELSE BIT_ARRAY_BUFFER'[depth]
    BY <1>0, <1>4 DEF ToChoose
  <2>7. TriesOf(F, ToChoose(Height))'
    BY <1>0, <1>2, <1>4, <2>1, <2>6 DEF TriesOf
  <2> QED  BY <2>3, <2>4, <2>5, <2>7 DEF TopRight
<1> QED  BY <1>3, <1>5, <1>6, <1>7, <1>8 DEF HInv, ActiveRight

------------------------------------------------------------------------------
(* A new call looks at what its caller left open.                            *)
LEMMA Copied ==
  ASSUME HInv, Active, depth > 0
  PROVE  /\ CopiedUndefined \in SUBSET Bits
         /\ SetBits(CopiedUndefined, n1) = Left
         /\ \A T, b : b \in SUBSET Bits =>
              /\ Among(CopiedUndefined, T, n1, b) \in SUBSET Bits
              /\ SetBits(Among(CopiedUndefined, T, n1, b), n1) = Left \cap T
<1>1. /\ depth \in Nat /\ depth <= n1 /\ n1 \in Nat /\ n1 \in 0 .. Size /\ n1 \in 1 .. Size - 1
      /\ Height \in 1 .. Height /\ FrameDepth(Height) = depth /\ AssignedAt(Height) = Assigned
      /\ Size \in Nat
  BY ActiveFacts
<1>2. depth \in 0 .. Size - 1 /\ depth - 1 \in 0 .. Size - 1  BY <1>1
<1>3. /\ MAP_UNDEFINED[depth] \in SUBSET Bits
      /\ MAP_UNDEFINED[depth - 1] \in SUBSET Bits
  BY <1>2 DEF HInv, Fields
<1>4. SetBits(MAP_UNDEFINED[depth - 1], n1) = Left
  <2>1. CallRight(Height)  BY <1>1 DEF HInv, ActiveRight, CallsRight
  <2> QED  BY <1>1, <2>1 DEF CallRight, Left
<1>5. /\ CopiedUndefined \in SUBSET Bits
      /\ SetBits(CopiedUndefined, n1) = Left
  <2>1. copy_bit_array(MAP_UNDEFINED[depth], MAP_UNDEFINED[depth - 1], n1) \in SUBSET Bits
    BY <1>1, <1>3, BitsTypes
  <2>2. SetBits(copy_bit_array(MAP_UNDEFINED[depth], MAP_UNDEFINED[depth - 1], n1), n1) = Left
    <3>1. n1 \in Nat  BY <1>1
    <3> QED  BY <3>1, <1>4, BitsMeant
  <2> QED  BY <2>1, <2>2 DEF CopiedUndefined
<1>6. ASSUME NEW T, NEW b \in SUBSET Bits
      PROVE  /\ Among(CopiedUndefined, T, n1, b) \in SUBSET Bits
             /\ SetBits(Among(CopiedUndefined, T, n1, b), n1) = Left \cap T
  <2> DEFINE x == copy_bit_array(b, CopiedUndefined, n1)
  <2>1. x \in SUBSET Bits /\ SetBits(x, n1) = Left
    <3>1. x \in SUBSET Bits  BY <1>1, BitsTypes
    <3>2. SetBits(x, n1) = SetBits(CopiedUndefined, n1)
      <4>1. n1 \in Nat  BY <1>1
      <4> QED  BY <4>1, BitsMeant
    <3> QED  BY <1>5, <3>1, <3>2
  <2> HIDE DEF x
  <2>2. /\ intersect_bit_arrays(x, T, n1) \in SUBSET Bits
        /\ SetBits(intersect_bit_arrays(x, T, n1), n1) = Left \cap T
    <3>1. intersect_bit_arrays(x, T, n1) \in SUBSET Bits  BY <1>1, <2>1, BitsTypes
    <3>2. SetBits(intersect_bit_arrays(x, T, n1), n1) = SetBits(x, n1) \cap T
      <4>1. n1 \in Nat  BY <1>1
      <4> QED  BY <4>1, BitsMeant
    <3> QED  BY <2>1, <3>1, <3>2
  <2> QED  BY <2>2 DEF Among, x
<1> QED  BY <1>5, <1>6

(* The columns that the running call has pushed are unassigned.              *)
LEMMA RowOpen ==
  ASSUME HInv, Active, depth < n1
  PROVE  Row(conditions, depth) \cap Assigned = {}
<1>1. Height \in 1 .. Height /\ FrameDepth(Height) = depth /\ AssignedAt(Height) = Assigned
  BY ActiveFacts
<1>2. CallRight(Height)  BY <1>1 DEF HInv, ActiveRight, CallsRight
<1> QED  BY <1>1, <1>2 DEF CallRight

(* The object is not touched, nor the arrays of other depths.                *)
LEMMA StayUnchanged ==
  ASSUME HInv, Active, NEW G \in FrameType,
         stack' = Append(Front(stack), G),
         G.pos = F.pos, G.rank = F.rank, G.rep_depth = F.rep_depth,
         UNCHANGED << conditions, depth, open, MAP, VALS, args >>,
         Active', status = "search" => status' = "search",
         \A d \in 0 .. depth - 1 : MAP_UNDEFINED'[d] = MAP_UNDEFINED[d],
         \A d \in 0 .. depth - 1 :
           status = "search" => BIT_ARRAY_BUFFER'[d] = BIT_ARRAY_BUFFER[d]
  PROVE  StayStep(G) /\ SizesSmall'
<1>1. \A d \in 0 .. n1 - 1 : d = depth => Row(conditions, d) \cap Assigned = {}
  BY RowOpen, ActiveFacts
<1> QED  BY <1>1 DEF StayStep, HInv, SizesSmall

LEMMA EnterStep ==
  ASSUME HInv, Enter
  PROVE  HInv'
<1>0. /\ Active /\ status = "search" /\ F.stage = "enter" /\ depth < n1
  BY DEF Enter, InSearch, Active
<1>1. /\ depth \in Nat /\ n1 \in Nat /\ n1 \in 1 .. Size - 1 /\ Size \in Nat /\ F \in FrameType
      /\ V1 \subseteq Nat
  BY <1>0, ActiveFacts
<1>2. depth \in 0 .. Size - 1  BY <1>0, <1>1
<1>3. Fields /\ MapRight /\ TopRight
  BY <1>0 DEF HInv, ActiveRight
<1>4. NarrowingOf(F, Pushed, Buffer) /\ PickOf(F, Pushed)
  BY <1>0, <1>3 DEF TopRight
<1>5. CASE depth = 0
  <2> DEFINE G == [F EXCEPT !.stage = "pick"]
  <2>1. /\ G \in FrameType /\ G.pos = F.pos /\ G.rank = F.rank /\ G.rep_depth = F.rep_depth
        /\ G.stage = "pick" /\ G.min = F.min /\ G.next = F.next /\ G.at = F.at
    BY <1>1 DEF FrameType, Stages
  <2>2. /\ stack' = Append(Front(stack), G)
        /\ UNCHANGED << conditions, depth, open, MAP, VALS, args, MAP_UNDEFINED,
                        BIT_ARRAY_BUFFER, IMAGE_RESTRICT, STAB_GENS, REPS, status, calls >>
    BY <1>5 DEF Enter, Running
  <2> HIDE DEF G
  <2>3. Active'  BY <1>0, <2>2 DEF Active
  <2>4. StayStep(G) /\ SizesSmall'
    BY <1>0, <2>1, <2>2, <2>3, StayUnchanged
  <2>5. SetBits(MAP_UNDEFINED'[depth], n1) = Left
    BY <1>3, <1>5, <2>2 DEF MapRight, Left
  <2>6. NarrowingOf(G, Row(conditions', depth),
                    BIT_ARRAY_BUFFER'[IF status' = "partial" THEN 0 ELSE depth])
    BY <2>1 DEF NarrowingOf
  <2>7. PickOf(G, Row(conditions', depth))
    BY <1>0, <1>4, <1>5, <2>1 DEF PickOf
  <2>8. \A choices : TriesOf(G, choices)  BY <2>1 DEF TriesOf
  <2>9. status' # "partial"  BY <1>0, <2>2
  <2>10. /\ MAP_UNDEFINED' \in [0 .. Size - 1 -> SUBSET Bits]
         /\ BIT_ARRAY_BUFFER' \in [0 .. Size - 1 -> SUBSET Bits]
    BY <1>3, <2>2 DEF Fields
  <2> QED  BY <1>0, <2>2, <2>4, <2>5, <2>6, <2>7, <2>8, <2>9, <2>10, StayDone
<1>6. CASE depth # 0
  <2> DEFINE G == [F EXCEPT !.stage = "narrow"]
             b == Among(CopiedUndefined, Neighbours1(F.pos), n1, BIT_ARRAY_BUFFER[depth])
  <2>1. /\ G \in FrameType /\ G.pos = F.pos /\ G.rank = F.rank /\ G.rep_depth = F.rep_depth
        /\ G.stage = "narrow" /\ G.min = F.min /\ G.next = F.next /\ G.at = F.at
    BY <1>1 DEF FrameType, Stages
  <2>2. /\ stack' = Append(Front(stack), G)
        /\ UNCHANGED << conditions, depth, open, MAP, VALS, args,
                        IMAGE_RESTRICT, STAB_GENS, REPS, status, calls >>
        /\ MAP_UNDEFINED' = [MAP_UNDEFINED EXCEPT ![depth] = CopiedUndefined]
        /\ BIT_ARRAY_BUFFER' = IF Undirected(args) THEN [BIT_ARRAY_BUFFER EXCEPT ![depth] = b]
                               ELSE BIT_ARRAY_BUFFER
    BY <1>6 DEF Enter, Running
  <2> HIDE DEF G
  <2>3. Active'  BY <1>0, <2>2 DEF Active
  <2>a. /\ CopiedUndefined \in SUBSET Bits
        /\ SetBits(CopiedUndefined, n1) = Left
        /\ b \in SUBSET Bits /\ SetBits(b, n1) = Left \cap Neighbours1(F.pos)
    <3>1. BIT_ARRAY_BUFFER[depth] \in SUBSET Bits  BY <1>2, <1>3 DEF Fields
    <3>2. depth > 0  BY <1>1, <1>6
    <3> QED  BY <1>0, <3>1, <3>2, Copied
  <2> HIDE DEF b
  <2>4. StayStep(G) /\ SizesSmall'
    BY <1>0, <1>1, <2>1, <2>2, <2>3, StayUnchanged
  <2>10. /\ MAP_UNDEFINED' \in [0 .. Size - 1 -> SUBSET Bits]
         /\ BIT_ARRAY_BUFFER' \in [0 .. Size - 1 -> SUBSET Bits]
    BY <1>3, <2>2, <2>a DEF Fields
  <2>5. SetBits(MAP_UNDEFINED'[depth], n1) = Left
    BY <1>2, <1>3, <2>2, <2>a DEF Fields
  <2>b. status' # "partial" /\ status' = "search"  BY <1>0, <2>2
  <2>6. NarrowingOf(G, Row(conditions', depth), BIT_ARRAY_BUFFER'[depth])
    <3>1. Row(conditions', depth) = {}
      BY <1>0, <1>1, <1>4, <1>6, <2>2 DEF NarrowingOf, Pushed
    <3>2. Undirected(args) => BIT_ARRAY_BUFFER'[depth] = b
      BY <1>2, <1>3, <2>2 DEF Fields
    <3>3. F.at = -1  BY <1>0, <1>4 DEF PickOf
    <3>4. \A v \in Left : ~ (v <= -1)  BY <1>1 DEF Left
    <3>5. depth \in 1 .. n1 - 1 /\ -1 \in -1 .. n1 - 1  BY <1>0, <1>1, <1>6
    <3> QED  BY <2>1, <2>a, <3>1, <3>2, <3>3, <3>4, <3>5 DEF NarrowingOf
  <2>7. PickOf(G, Row(conditions', depth))
    BY <1>0, <1>4, <2>1 DEF PickOf
  <2>8. \A choices : TriesOf(G, choices)  BY <2>1 DEF TriesOf
  <2> QED  BY <1>0, <2>2, <2>4, <2>5, <2>6, <2>7, <2>8, <2>b, <2>10, StayDone
<1> QED  BY <1>5, <1>6

------------------------------------------------------------------------------
(* The vertices that are narrowed.                                           *)
LEMMA LeftFacts ==
  ASSUME HInv, Active
  PROVE  /\ Left \subseteq V1 /\ Left \subseteq Nat
         /\ depth < n1 => Left # {}
         /\ F.stage \in { "narrow", "narrow2" } => depth \in 1 .. n1 - 1
         /\ F.stage # "enter" => SetBits(MAP_UNDEFINED[depth], n1) = Left
<1>1. /\ depth \in Nat /\ n1 \in Nat /\ Assigned \subseteq V1 /\ V1 \subseteq Nat
  BY ActiveFacts
<1>2. MapRight /\ TopRight  BY DEF HInv, ActiveRight
<1>3. depth < n1 => Left # {}
  <2>1. Cardinality(Assigned) = depth  BY <1>2 DEF MapRight
  <2>2. Assigned \in SUBSET (0 .. n1 - 1)  BY <1>1 DEF V1
  <2>3. depth < n1 => Cardinality(Assigned) # n1  BY <1>1, <2>1
  <2> QED  BY <1>1, <2>2, <2>3, SomeLeft DEF Left, V1
<1>4. F.stage \in { "narrow", "narrow2" } => depth \in 1 .. n1 - 1
  BY <1>2 DEF TopRight, NarrowingOf
<1>5. F.stage # "enter" => SetBits(MAP_UNDEFINED[depth], n1) = Left
  BY <1>2 DEF MapRight, Left
<1> QED  BY <1>1, <1>3, <1>4, <1>5 DEF Left

(* The loop takes them in increasing order, and none that has been pushed.   *)
LEMMA NextToNarrow ==
  ASSUME HInv, Active, F.stage \in { "narrow", "narrow2" }, ToNarrow(Buffer) # {},
         NEW v, v = Min(ToNarrow(Buffer))
  PROVE  /\ v \in Left /\ v \notin Pushed /\ v > F.at /\ v \in Nat
         /\ \A u \in ToNarrow(Buffer) : v <= u
         /\ Undirected(args) => v \in SetBits(Buffer, n1)
<1>1. /\ Left \subseteq V1 /\ Left \subseteq Nat
      /\ SetBits(MAP_UNDEFINED[depth], n1) = Left
  BY LeftFacts
<1>2. NarrowingOf(F, Pushed, Buffer)  BY DEF HInv, ActiveRight, TopRight
<1>3. F.at \in Int  BY <1>2, ActiveFacts DEF NarrowingOf, FrameType
<1>4. ToNarrow(Buffer) \subseteq Left
  BY <1>1, <1>2 DEF ToNarrow, Above, NarrowingOf, SecondPass
<1>5. v \in ToNarrow(Buffer) /\ \A u \in ToNarrow(Buffer) : v <= u
  BY <1>1, <1>4, MinIsLeast
<1>6. v \in Nat /\ v > F.at /\ (Undirected(args) => v \in SetBits(Buffer, n1))
  BY <1>1, <1>4, <1>5 DEF ToNarrow, Above
<1>7. v \notin Pushed
  <2>1. CASE F.stage = "narrow"
    BY <1>2, <1>3, <1>6, <2>1 DEF NarrowingOf
  <2>2. CASE F.stage = "narrow2"
    BY <1>2, <1>3, <1>6, <2>2 DEF NarrowingOf, SecondPass
  <2> QED  BY <2>1, <2>2
<1> QED  BY <1>4, <1>5, <1>6, <1>7

(* A row lists vertices of the first digraph.                                *)
LEMMA PushedVertices ==
  ASSUME CP!IInv, HInv, Active, depth \in 1 .. n1 - 1
  PROVE  Pushed \subseteq V1
<1>1. conditions.nr1 = n1 /\ open /\ Columns(conditions) = V1
  BY ActiveFacts DEF HInv, ActiveRight, ArgsRight
<1>2. CP!RowsInjective  BY DEF CP!IInv
<1>3. \A j \in 1 .. conditions.changed[RowStart(n1, depth)] :
        conditions.changed[RowStart(n1, depth) + j] \in V1
  <2>1. CP!RowStart(n1, depth) = RowStart(n1, depth) /\ CP!Columns(conditions) = V1
    BY <1>1, Copies
  <2> QED  BY <1>1, <1>2, <2>1 DEF CP!RowsInjective
<1> QED  BY <1>1, <1>3 DEF Pushed, Row

(* What a push leaves as it was, and what the loop has narrowed then.        *)
LEMMA NarrowEffect ==
  ASSUME CP!IInv, HInv, Active, F.stage \in { "narrow", "narrow2" }, ToNarrow(Buffer) # {},
         NEW v, v = Min(ToNarrow(Buffer)), NEW p,
         \/ \E b \in SUBSET Bits : p = PushedWith(conditions, depth, v, b)
         \/ p = conditions /\ ~ InPlace
  PROVE  /\ p.nr1 = conditions.nr1 /\ p.nr2 = conditions.nr2
         /\ \A d \in 0 .. n1 - 1 :
              /\ d # depth => Row(p, d) = Row(conditions, d)
              /\ d = depth => Row(p, d) \cap Assigned = {}
         /\ \A k \in 1 .. Height - 1 :
              get_conditions(p, stack[k].next) = get_conditions(conditions, stack[k].next)
         /\ \A k \in 0 .. Size * Size - 1 : p.sizes[k] < UNDEFINED
         /\ size_conditions(p, v) \in Int /\ size_conditions(p, v) < UNDEFINED
         /\ \A G : G.at = v /\ G.stage = F.stage /\ G.pos = F.pos
              => NarrowingOf(G, Row(p, depth), Buffer)
<1>1. /\ v \in Left /\ v \notin Pushed /\ v > F.at /\ v \in Nat
      /\ \A u \in ToNarrow(Buffer) : v <= u
      /\ Undirected(args) => v \in SetBits(Buffer, n1)
  BY NextToNarrow
<1>2. /\ Left \subseteq V1 /\ Left \subseteq Nat /\ depth \in 1 .. n1 - 1
      /\ SetBits(MAP_UNDEFINED[depth], n1) = Left
  BY LeftFacts
<1>3. /\ Columns(conditions) = V1 /\ n1 \in Nat /\ Height \in Nat \ {0}
      /\ V1 = 0 .. n1 - 1
  BY ActiveFacts DEF V1
<1>4. /\ conditions.nr1 = n1 /\ open /\ SizesSmall
      /\ NarrowingOf(F, Pushed, Buffer) /\ CallsRight
  BY DEF HInv, ActiveRight, ArgsRight, TopRight
<1>5. Row(conditions, depth) = Pushed /\ Pushed \cap Assigned = {}
  BY <1>2, <1>3, RowOpen DEF Pushed
<1>6. /\ p.nr1 = conditions.nr1 /\ p.nr2 = conditions.nr2
      /\ Row(p, depth) = Pushed \cup {v} \/ (Row(p, depth) = Pushed /\ ~ InPlace)
      /\ \A d \in 0 .. n1 - 1 : d # depth => Row(p, d) = Row(conditions, d)
      /\ \A u \in V1 : u # v => get_conditions(p, u) = get_conditions(conditions, u)
      /\ \A k \in 0 .. Size * Size - 1 : p.sizes[k] < UNDEFINED
      /\ size_conditions(p, v) \in Int /\ size_conditions(p, v) < UNDEFINED
  <2>1. CASE \E b \in SUBSET Bits : p = PushedWith(conditions, depth, v, b)
    <3>1. PICK b \in SUBSET Bits : p = PushedWith(conditions, depth, v, b)  BY <2>1
    <3>2. v \in Columns(conditions) /\ v \notin Row(conditions, depth)
          /\ depth \in 1 .. conditions.nr1 - 1
      BY <1>1, <1>2, <1>3, <1>4, <1>5
    <3> QED  BY <1>3, <1>4, <1>5, <3>1, <3>2, PushEffect DEF PushedWith
  <2>2. CASE p = conditions /\ ~ InPlace
    <3>1. v \in Columns(conditions)  BY <1>1, <1>2, <1>3
    <3> QED  BY <1>4, <1>5, <2>2, <3>1, SizeRead DEF SizesSmall
  <2> QED  BY <2>1, <2>2
<1>7. v \notin Assigned  BY <1>1 DEF Left
<1>8. Row(p, depth) \cap Assigned = {}  BY <1>5, <1>6, <1>7
<1>9. ASSUME NEW k \in 1 .. Height - 1
      PROVE  get_conditions(p, stack[k].next) = get_conditions(conditions, stack[k].next)
  <2>1. CallerRight(k)  BY <1>4 DEF CallsRight
  <2>2. stack[k].next \in V1 /\ stack[k].next \in Assigned
    BY <2>1, <1>3 DEF CallerRight, TriesRight, AssignedAt
  <2> QED  BY <1>6, <1>7, <2>2
<1>10. ASSUME NEW G, G.at = v, G.stage = F.stage, G.pos = F.pos
       PROVE  NarrowingOf(G, Row(p, depth), Buffer)
  <2>1. F.at \in Int /\ v \in Int /\ v \in -1 .. n1 - 1
    BY <1>1, <1>2, <1>3, <1>4, ActiveFacts DEF NarrowingOf, FrameType
  <2>2. ASSUME InPlace, NEW u \in Left, u <= v  PROVE u \in Row(p, depth)
    <3>1. CASE u = v  BY <1>6, <2>2, <3>1
    <3>2. CASE u # v
      <4>1. u \in Int  BY <1>2
      <4>2. u < v  BY <2>1, <2>2, <3>2, <4>1
      <4>3. u \notin ToNarrow(Buffer)  BY <1>1, <2>1, <4>1, <4>2
      <4>4. ~ (u > F.at)  BY <1>2, <2>2, <4>3 DEF ToNarrow, Above, InPlace
      <4>5. u \in Pushed  BY <1>4, <2>1, <2>2, <4>1, <4>4 DEF NarrowingOf
      <4> QED  BY <1>6, <4>5
    <3> QED  BY <3>1, <3>2
  <2>3. ASSUME F.stage = "narrow"
        PROVE  /\ Undirected(args) => SetBits(Buffer, n1) = Left \cap Neighbours1(F.pos)
               /\ \A u \in Row(p, depth) : u <= v /\ (Undirected(args) => u \in Neighbours1(F.pos))
    <3>1. \A u \in Pushed : u <= F.at /\ u \in Int
      <4>1. Pushed \subseteq Int
        BY <1>2, <1>3, PushedVertices
      <4> QED  BY <1>4, <2>3, <4>1 DEF NarrowingOf
    <3>2. \A u \in Pushed : u <= v  BY <1>1, <2>1, <3>1
    <3>3. /\ Undirected(args) => SetBits(Buffer, n1) = Left \cap Neighbours1(F.pos)
          /\ \A u \in Pushed : Undirected(args) => u \in Neighbours1(F.pos)
      BY <1>4, <2>3 DEF NarrowingOf
    <3>4. Undirected(args) => v \in Neighbours1(F.pos)  BY <1>1, <3>3
    <3> QED  BY <1>6, <2>1, <3>2, <3>3, <3>4
  <2>4. ASSUME F.stage = "narrow2"
        PROVE  /\ SecondPass /\ SetBits(Buffer, n1) = Left \ Neighbours1(F.pos)
               /\ \A u \in Row(p, depth) : u <= v \/ u \in Neighbours1(F.pos)
    <3>1. /\ SecondPass /\ SetBits(Buffer, n1) = Left \ Neighbours1(F.pos)
          /\ \A u \in Pushed : u <= F.at \/ u \in Neighbours1(F.pos)
      BY <1>4, <2>4 DEF NarrowingOf
    <3>2. \A u \in Pushed : u \in Int
      BY <1>2, <1>3, PushedVertices
    <3>3. \A u \in Pushed : u <= v \/ u \in Neighbours1(F.pos)
      BY <1>1, <2>1, <3>1, <3>2
    <3> QED  BY <1>6, <2>1, <3>1, <3>3
  <2>5. G.stage # "enter"  BY <1>10
  <2> QED  BY <1>2, <1>10, <2>1, <2>2, <2>3, <2>4, <2>5 DEF NarrowingOf
<1> QED  BY <1>6, <1>8, <1>9, <1>10

(* The search narrows one vertex ...                                         *)
LEMMA NarrowStep ==
  ASSUME CP!IInv, HInv, NEW p,
         InSearch("narrow") \/ InSearch("narrow2"),
         ToNarrow(BIT_ARRAY_BUFFER[depth]) # {},
         NEW v, v = Min(ToNarrow(BIT_ARRAY_BUFFER[depth])),
         \/ \E b \in SUBSET Bits : p = PushedWith(conditions, depth, v, b)
         \/ p = conditions /\ ~ InPlace,
         conditions' = p,
         Running(IF size_conditions(p, v) = 0 THEN [F EXCEPT !.stage = "leave"]
                 ELSE [STORE_MIN(F, size_conditions(p, v), v) EXCEPT !.at = v]),
         UNCHANGED << depth, open, globals, args, status, results, calls >>
  PROVE  HInv'
<1> DEFINE n == size_conditions(p, v)
<1>0. /\ Active /\ status = "search" /\ F.stage \in { "narrow", "narrow2" }
      /\ Buffer = BIT_ARRAY_BUFFER[depth] /\ BIT_ARRAY_BUFFER' = BIT_ARRAY_BUFFER
      /\ UNCHANGED << MAP, VALS, MAP_UNDEFINED, IMAGE_RESTRICT, STAB_GENS, REPS,
                      depth, open, args, status, calls >>
      /\ conditions' = p
  BY DEF InSearch, Active, Buffer, globals
<1>1. /\ p.nr1 = conditions.nr1 /\ p.nr2 = conditions.nr2
      /\ \A d \in 0 .. n1 - 1 :
           /\ d # depth => Row(p, d) = Row(conditions, d)
           /\ d = depth => Row(p, d) \cap Assigned = {}
      /\ \A k \in 1 .. Height - 1 :
           get_conditions(p, stack[k].next) = get_conditions(conditions, stack[k].next)
      /\ \A k \in 0 .. Size * Size - 1 : p.sizes[k] < UNDEFINED
      /\ n \in Int /\ n < UNDEFINED
      /\ \A G : G.at = v /\ G.stage = F.stage /\ G.pos = F.pos
           => NarrowingOf(G, Row(p, depth), Buffer)
  BY <1>0, NarrowEffect
<1>2. /\ v \in Left /\ v \in Nat
  BY <1>0, NextToNarrow
<1>3. /\ depth \in 1 .. n1 - 1 /\ SetBits(MAP_UNDEFINED[depth], n1) = Left
  BY <1>0, LeftFacts
<1>4. Fields /\ PickOf(F, Pushed) /\ F \in FrameType /\ n1 \in Nat
  BY <1>0, ActiveFacts DEF HInv, ActiveRight, TopRight
<1> HIDE DEF n
<1>5. ASSUME NEW G \in FrameType, stack' = Append(Front(stack), G),
             G.pos = F.pos, G.rank = F.rank, G.rep_depth = F.rep_depth,
             NarrowingOf(G, Row(p, depth), Buffer), PickOf(G, Row(p, depth)),
             G.stage \in { "narrow", "narrow2", "leave" }
      PROVE  HInv'
  <2>1. StayStep(G)
    BY <1>0, <1>1, <1>5 DEF StayStep, Active
  <2>2. SizesSmall'  BY <1>0, <1>1 DEF SizesSmall
  <2>3. \A choices : TriesOf(G, choices)  BY <1>5 DEF TriesOf
  <2>4. /\ MAP_UNDEFINED' \in [0 .. Size - 1 -> SUBSET Bits]
        /\ BIT_ARRAY_BUFFER' \in [0 .. Size - 1 -> SUBSET Bits]
    BY <1>0, <1>4 DEF Fields
  <2>5. depth < n1 /\ status' # "partial" /\ status' = status  BY <1>0, <1>3, <1>4
  <2>6. NarrowingOf(G, Row(conditions', depth),
                    BIT_ARRAY_BUFFER'[IF status' = "partial" THEN 0 ELSE depth])
    BY <1>0, <1>5, <2>5
  <2>7. PickOf(G, Row(conditions', depth))  BY <1>0, <1>5
  <2>8. SetBits(MAP_UNDEFINED'[depth], n1) = Left  BY <1>0, <1>3
  <2> QED  BY <1>0, <2>1, <2>2, <2>3, <2>4, <2>5, <2>6, <2>7, <2>8, StayDone
<1>6. CASE n = 0
  <2> DEFINE G == [F EXCEPT !.stage = "leave"]
  <2>1. /\ G \in FrameType /\ G.pos = F.pos /\ G.rank = F.rank /\ G.rep_depth = F.rep_depth
        /\ G.stage = "leave"
    BY <1>4 DEF FrameType, Stages
  <2>2. stack' = Append(Front(stack), G)  BY <1>6 DEF Running, n
  <2> HIDE DEF G
  <2>3. NarrowingOf(G, Row(p, depth), Buffer) /\ PickOf(G, Row(p, depth))
    BY <2>1 DEF NarrowingOf, PickOf
  <2> QED  BY <1>5, <2>1, <2>2, <2>3
<1>7. CASE n # 0
  <2> DEFINE H == STORE_MIN(F, n, v)
             G == [H EXCEPT !.at = v]
  <2>1. /\ H \in FrameType /\ H.pos = F.pos /\ H.rank = F.rank /\ H.rep_depth = F.rep_depth
        /\ H.stage = F.stage /\ H.min < UNDEFINED /\ H.next \in Left
    <3>1. CASE n < F.min
      <4>1. H = [F EXCEPT !.min = n, !.next = v]  BY <3>1 DEF STORE_MIN
      <4>2. H.min = n /\ H.next = v  BY <1>4, <4>1 DEF FrameType
      <4> HIDE DEF H
      <4>a. n \in Int /\ v \in Int  BY <1>1, <1>2
      <4>3. /\ H \in FrameType /\ H.pos = F.pos /\ H.rank = F.rank
            /\ H.rep_depth = F.rep_depth /\ H.stage = F.stage
        BY <1>4, <4>1, <4>a DEF FrameType
      <4> QED  BY <1>1, <1>2, <4>2, <4>3
    <3>2. CASE ~ (n < F.min)
      <4>1. H = F  BY <3>2 DEF STORE_MIN
      <4>2. F.min < UNDEFINED \/ F.min = UNDEFINED
        BY <1>0, <1>4 DEF PickOf
      <4>3. F.min < UNDEFINED
        BY <1>1, <3>2, <4>2 DEF UNDEFINED
      <4>4. F.next \in Left
        BY <1>0, <1>4, <4>3 DEF PickOf, UNDEFINED
      <4> QED  BY <1>4, <4>1, <4>3, <4>4
    <3> QED  BY <3>1, <3>2
  <2> HIDE DEF H
  <2>2. /\ G \in FrameType /\ G.pos = F.pos /\ G.rank = F.rank /\ G.rep_depth = F.rep_depth
        /\ G.stage = F.stage /\ G.min < UNDEFINED /\ G.next \in Left /\ G.at = v
    BY <1>2, <2>1 DEF FrameType
  <2>3. stack' = Append(Front(stack), G)  BY <1>7 DEF Running, n, H
  <2> HIDE DEF G
  <2>4. NarrowingOf(G, Row(p, depth), Buffer)  BY <1>1, <2>2
  <2>5. PickOf(G, Row(p, depth))
    BY <1>0, <2>2 DEF PickOf
  <2> QED  BY <1>0, <1>5, <2>2, <2>3, <2>4, <2>5
<1> QED  BY <1>6, <1>7

(* ... the partial map another, or it gives up ...                           *)
LEMMA PartialUpdatePushes ==
  ASSUME CP!IInv, HInv, Active, F.stage \in { "narrow", "narrow2" }, ToNarrow(Buffer) # {},
         NEW v, v = Min(ToNarrow(Buffer))
  PROVE  \/ \E b \in SUBSET Bits : PartialUpdate(v) = PushedWith(conditions, depth, v, b)
         \/ PartialUpdate(v) = conditions /\ ~ InPlace
<1>1. v \in Left /\ v \notin Pushed  BY NextToNarrow
<1>2. Left \subseteq V1 /\ depth \in 1 .. n1 - 1  BY LeftFacts
<1>3. /\ Columns(conditions) = V1 /\ conditions.nr1 = n1 /\ open /\ args \in Arguments
  BY ActiveFacts DEF HInv, ActiveRight, ArgsRight
<1>4. /\ v \in Columns(conditions) /\ v \notin Row(conditions, depth)
      /\ depth \in 1 .. conditions.nr1 - 1
  BY <1>1, <1>2, <1>3 DEF Pushed
<1>5. args.injective \in 0 .. 2  BY <1>3, ArgumentsAssumption
<1> DEFINE Pushes(p) == \E b \in SUBSET Bits : p = PushedWith(conditions, depth, v, b)
<1>6. /\ Pushes(graph_homo_update_conditions(conditions, depth, F.pos, v))
      /\ Pushes(graph_mono_update_conditions(conditions, depth, F.pos, v))
      /\ Pushes(graph_embed_update_conditions(conditions, depth, F.pos, v))
      /\ \/ Pushes(digraph_homo_update_conditions(conditions, depth, F.pos, v))
         \/ digraph_homo_update_conditions(conditions, depth, F.pos, v) = conditions
      /\ Pushes(digraph_mono_update_conditions(conditions, depth, F.pos, v))
      /\ Pushes(digraph_embed_update_conditions(conditions, depth, F.pos, v))
  BY <1>3, <1>4, UpdatesPush
<1> HIDE DEF Pushes
<1>7. Pushes(PartialUpdate(v)) \/ (PartialUpdate(v) = conditions /\ ~ InPlace)
  <2>1. CASE args.injective = 0  BY <1>6, <2>1 DEF PartialUpdate, InPlace
  <2>2. CASE args.injective = 1  BY <1>6, <2>2 DEF PartialUpdate, InPlace
  <2>3. CASE args.injective = 2  BY <1>6, <2>3 DEF PartialUpdate, InPlace
  <2> QED  BY <1>5, <2>1, <2>2, <2>3
<1> QED  BY <1>7 DEF Pushes

LEMMA PartialNarrowStep ==
  ASSUME CP!IInv, HInv, PartialNarrow
  PROVE  HInv'
<1>0. /\ Active /\ status = "partial" /\ F.stage \in { "narrow", "narrow2" }
      /\ Buffer = BIT_ARRAY_BUFFER[0] /\ BIT_ARRAY_BUFFER' = BIT_ARRAY_BUFFER
      /\ UNCHANGED << MAP, VALS, MAP_UNDEFINED, IMAGE_RESTRICT, STAB_GENS, REPS,
                      depth, open, args, calls >>
      /\ ToNarrow(Buffer) # {}
  BY DEF PartialNarrow, InPartial, Active, Buffer, globals
<1> DEFINE v == Min(ToNarrow(Buffer))
           p == PartialUpdate(v)
<1>1. \/ \E b \in SUBSET Bits : p = PushedWith(conditions, depth, v, b)
      \/ p = conditions /\ ~ InPlace
  BY <1>0, PartialUpdatePushes
<1>2. /\ conditions' = p
      /\ IF size_conditions(p, v) = 0
         THEN status' = "ended" /\ stack' = << >>
         ELSE Running([F EXCEPT !.at = v]) /\ UNCHANGED status
  BY <1>0 DEF PartialNarrow
<1>3. v \in Left /\ v \in Nat  BY <1>0, NextToNarrow
<1> HIDE DEF p, v
<1>a. v = Min(ToNarrow(Buffer))  BY DEF v
<1>4. /\ p.nr1 = conditions.nr1 /\ p.nr2 = conditions.nr2
      /\ \A d \in 0 .. n1 - 1 :
           /\ d # depth => Row(p, d) = Row(conditions, d)
           /\ d = depth => Row(p, d) \cap Assigned = {}
      /\ \A k \in 1 .. Height - 1 :
           get_conditions(p, stack[k].next) = get_conditions(conditions, stack[k].next)
      /\ \A k \in 0 .. Size * Size - 1 : p.sizes[k] < UNDEFINED
      /\ \A G : G.at = v /\ G.stage = F.stage /\ G.pos = F.pos
           => NarrowingOf(G, Row(p, depth), Buffer)
  BY <1>0, <1>1, <1>a, NarrowEffect
<1>5. SizesSmall'  BY <1>2, <1>4 DEF SizesSmall
<1>6. /\ depth \in 1 .. n1 - 1 /\ SetBits(MAP_UNDEFINED[depth], n1) = Left
  BY <1>0, LeftFacts
<1>7. Fields /\ PartialOf(F) /\ F \in FrameType /\ n1 \in Nat
  BY <1>0, ActiveFacts DEF HInv, ActiveRight, TopRight
<1>8. CASE size_conditions(p, v) = 0
  <2>1. status' = "ended" /\ stack' = << >>  BY <1>2, <1>8
  <2>2. Fields'  BY <1>0, <1>7, <2>1 DEF Fields, Active, StatusType
  <2>3. ~ Active'  BY <2>1 DEF Active
  <2> QED  BY <1>5, <2>2, <2>3 DEF HInv
<1>9. CASE size_conditions(p, v) # 0
  <2> DEFINE G == [F EXCEPT !.at = v]
  <2>1. /\ G \in FrameType /\ G.pos = F.pos /\ G.rank = F.rank /\ G.rep_depth = F.rep_depth
        /\ G.stage = F.stage /\ G.at = v /\ G.next = F.next
    BY <1>3, <1>7 DEF FrameType
  <2>2. stack' = Append(Front(stack), G) /\ status' = status
    BY <1>2, <1>9 DEF Running
  <2> HIDE DEF G
  <2>3. StayStep(G)
    BY <1>0, <1>2, <1>4, <2>1, <2>2 DEF StayStep, Active
  <2>4. NarrowingOf(G, Row(conditions', depth),
                    BIT_ARRAY_BUFFER'[IF status' = "partial" THEN 0 ELSE depth])
    BY <1>0, <1>2, <1>4, <2>1, <2>2
  <2>5. PartialOf(G)  BY <1>0, <1>7, <2>1 DEF PartialOf, Before
  <2>6. \A choices : TriesOf(G, choices)  BY <1>0, <2>1 DEF TriesOf
  <2>7. /\ MAP_UNDEFINED' \in [0 .. Size - 1 -> SUBSET Bits]
        /\ BIT_ARRAY_BUFFER' \in [0 .. Size - 1 -> SUBSET Bits]
    BY <1>0, <1>7 DEF Fields
  <2>8. depth < n1 /\ status' # "search"  BY <1>0, <1>6, <1>7, <2>2
  <2>9. SetBits(MAP_UNDEFINED'[depth], n1) = Left  BY <1>0, <1>6
  <2> QED  BY <1>0, <1>5, <2>2, <2>3, <2>4, <2>5, <2>6, <2>7, <2>8, <2>9, StayDone
<1> QED  BY <1>8, <1>9

(* A frame that moves on keeps what it was called with.                      *)
MovedTo(G, f, s, x) ==
  /\ G \in FrameType /\ G.pos = f.pos /\ G.rank = f.rank /\ G.rep_depth = f.rep_depth
  /\ G.stage = s /\ G.min = f.min /\ G.next = f.next /\ G.at = x

LEMMA FrameMoved ==
  ASSUME NEW f \in FrameType, NEW s \in Stages, NEW x \in Int,
         NEW G, G = [f EXCEPT !.at = x, !.stage = s]
  PROVE  MovedTo(G, f, s, x)
BY DEF FrameType, MovedTo

(* When the loop has come to its end, either it has met a vertex, or there   *)
(* was none for it.                                                          *)
LEMMA NothingToNarrow ==
  ASSUME HInv, Active, F.stage \in { "narrow", "narrow2" }, ToNarrow(Buffer) = {}
  PROVE  /\ InPlace => Left \subseteq Pushed
         /\ status = "search" /\ F.stage = (IF SecondPass THEN "narrow2" ELSE "narrow") =>
              \/ F.min < UNDEFINED
              \/ Undirected(args) /\ args.injective < 2 /\ Left \cap Neighbours1(F.pos) = {}
         /\ status = "search" /\ SecondPass /\ F.stage = "narrow" =>
              F.min < UNDEFINED \/ Left \cap Neighbours1(F.pos) = {}
<1>1. /\ Left \subseteq Nat /\ depth \in 1 .. n1 - 1 /\ Left # {}
      /\ SetBits(MAP_UNDEFINED[depth], n1) = Left
  BY LeftFacts, ActiveFacts
<1>2. /\ NarrowingOf(F, Pushed, Buffer) /\ (status = "search" => PickOf(F, Pushed))
      /\ args \in Arguments
  BY DEF HInv, ActiveRight, TopRight, ArgsRight
<1>3. F.at \in Int /\ n1 \in Nat /\ F.at \in -1 .. n1 - 1
  BY <1>2, ActiveFacts DEF NarrowingOf, FrameType
<1>4. args.injective \in 0 .. 2  BY <1>2, ArgumentsAssumption
<1>5. InPlace => Left \subseteq Pushed
  <2>1. ASSUME InPlace, NEW u \in Left  PROVE u \in Pushed
    <3>1. ~ (u > F.at)  BY <1>1, <2>1 DEF ToNarrow, Above, InPlace
    <3>2. u <= F.at  BY <1>1, <1>3, <3>1
    <3> QED  BY <1>2, <2>1, <3>2 DEF NarrowingOf
  <2> QED  BY <2>1
<1>6. ASSUME status = "search", ~ (F.min < UNDEFINED)
      PROVE  SetBits(IF Undirected(args) THEN Buffer ELSE MAP_UNDEFINED[depth], n1) = {}
  <2>1. ~ (F.at >= 0)  BY <1>2, <1>6 DEF PickOf
  <2>2. F.at = -1  BY <1>3, <2>1
  <2>3. SetBits(IF Undirected(args) THEN Buffer ELSE MAP_UNDEFINED[depth], n1) \subseteq Nat
    BY <1>3 DEF SetBits, Meant
  <2> QED  BY <2>2, <2>3 DEF ToNarrow, Above
<1>7. ASSUME status = "search", F.stage = (IF SecondPass THEN "narrow2" ELSE "narrow"),
             ~ (F.min < UNDEFINED)
      PROVE  Undirected(args) /\ args.injective < 2 /\ Left \cap Neighbours1(F.pos) = {}
  <2>1. Undirected(args)  BY <1>1, <1>6, <1>7
  <2>2. SetBits(Buffer, n1) = {}  BY <1>6, <1>7, <2>1
  <2>3. CASE SecondPass
    <3>1. Left \ Neighbours1(F.pos) = {}
      BY <1>2, <1>7, <2>2, <2>3 DEF NarrowingOf
    <3>2. Left \cap Neighbours1(F.pos) = {}
      BY <1>2, <1>7, <2>3 DEF PickOf
    <3> QED  BY <1>1, <3>1, <3>2
  <2>4. CASE ~ SecondPass
    <3>1. args.injective < 2  BY <1>4, <2>1, <2>4 DEF SecondPass
    <3>2. Left \cap Neighbours1(F.pos) = {}
      BY <1>2, <1>7, <2>1, <2>2, <2>4 DEF NarrowingOf
    <3> QED  BY <2>1, <3>1, <3>2
  <2> QED  BY <2>3, <2>4
<1>8. ASSUME status = "search", SecondPass, F.stage = "narrow", ~ (F.min < UNDEFINED)
      PROVE  Left \cap Neighbours1(F.pos) = {}
  BY <1>2, <1>6, <1>8 DEF NarrowingOf, SecondPass
<1> QED  BY <1>5, <1>7, <1>8

LEMMA NarrowedStep ==
  ASSUME HInv, Narrowed
  PROVE  HInv'
<1>0. /\ Active /\ status = "search" /\ F.stage \in { "narrow", "narrow2" }
      /\ F.stage = (IF SecondPass THEN "narrow2" ELSE "narrow")
      /\ Buffer = BIT_ARRAY_BUFFER[depth] /\ ToNarrow(Buffer) = {}
      /\ UNCHANGED << conditions, depth, open, MAP, VALS, args, MAP_UNDEFINED,
                      BIT_ARRAY_BUFFER, IMAGE_RESTRICT, STAB_GENS, REPS, status, calls >>
  BY DEF Narrowed, InSearch, Active, Buffer, globals
<1>1. /\ InPlace => Left \subseteq Pushed
      /\ \/ F.min < UNDEFINED
         \/ Undirected(args) /\ args.injective < 2 /\ Left \cap Neighbours1(F.pos) = {}
  BY <1>0, NothingToNarrow
<1>2. /\ depth \in 1 .. n1 - 1 /\ SetBits(MAP_UNDEFINED[depth], n1) = Left
  BY <1>0, LeftFacts
<1>3. Fields /\ PickOf(F, Pushed) /\ F \in FrameType /\ n1 \in Nat
  BY <1>0, ActiveFacts DEF HInv, ActiveRight, TopRight
<1> DEFINE G == [F EXCEPT !.at = -1, !.stage = "pick"]
<1>4. /\ G \in FrameType /\ G.pos = F.pos /\ G.rank = F.rank /\ G.rep_depth = F.rep_depth
      /\ G.stage = "pick" /\ G.min = F.min /\ G.next = F.next
  <2>1. F \in FrameType /\ -1 \in Int /\ "pick" \in Stages  BY <1>3 DEF Stages
  <2>2. G = [F EXCEPT !.at = -1, !.stage = "pick"]  BY DEF G
  <2> HIDE DEF G
  <2>3. MovedTo(G, F, "pick", -1)  BY <2>1, <2>2, FrameMoved, Zenon
  <2> QED  BY <2>3 DEF MovedTo
<1>5. stack' = Append(Front(stack), G)  BY DEF Narrowed, Running
<1> HIDE DEF G
<1>6. Active'  BY <1>0 DEF Active
<1>7. StayStep(G) /\ SizesSmall'
  BY <1>0, <1>4, <1>5, <1>6, StayUnchanged
<1>8. NarrowingOf(G, Row(conditions', depth), BIT_ARRAY_BUFFER'[IF status' = "partial" THEN 0 ELSE depth])
  BY <1>4 DEF NarrowingOf
<1>9. PickOf(G, Row(conditions', depth))
  BY <1>0, <1>1, <1>3, <1>4 DEF PickOf, Pushed
<1>10. \A choices : TriesOf(G, choices)  BY <1>4 DEF TriesOf
<1>11. /\ MAP_UNDEFINED' \in [0 .. Size - 1 -> SUBSET Bits]
       /\ BIT_ARRAY_BUFFER' \in [0 .. Size - 1 -> SUBSET Bits]
  BY <1>0, <1>3 DEF Fields
<1>12. depth < n1 /\ status' # "partial"  BY <1>0, <1>2, <1>3
<1>13. SetBits(MAP_UNDEFINED'[depth], n1) = Left  BY <1>0, <1>2
<1> QED  BY <1>0, <1>7, <1>8, <1>9, <1>10, <1>11, <1>12, <1>13, StayDone

(* The second loop of an embedding of graphs, over the vertices that are not *)
(* neighbours.                                                               *)
LEMMA OthersCopied ==
  ASSUME HInv, Active, F.stage # "enter", NEW b \in SUBSET Bits, NEW T
  PROVE  /\ NotAmong(MAP_UNDEFINED[depth], T, n1, b) \in SUBSET Bits
         /\ SetBits(NotAmong(MAP_UNDEFINED[depth], T, n1, b), n1) = Left \ T
<1> DEFINE x == copy_bit_array(b, MAP_UNDEFINED[depth], n1)
<1>1. n1 \in 0 .. Size /\ n1 \in Nat  BY ActiveFacts
<1>2. SetBits(MAP_UNDEFINED[depth], n1) = Left  BY LeftFacts
<1>3. x \in SUBSET Bits  BY <1>1, BitsTypes
<1>4. SetBits(x, n1) = Left  BY <1>1, <1>2, BitsMeant
<1> HIDE DEF x
<1>5. complement_bit_arrays(x, T, n1) \in SUBSET Bits  BY <1>1, <1>3, BitsTypes
<1>6. SetBits(complement_bit_arrays(x, T, n1), n1) = Left \ T
  BY <1>1, <1>4, BitsMeant
<1> QED  BY <1>5, <1>6 DEF NotAmong, x

LEMMA NarrowOthersStep ==
  ASSUME CP!IInv, HInv, NarrowOthers
  PROVE  HInv'
<1> DEFINE G == [F EXCEPT !.at = -1, !.stage = "narrow2"]
           b == NotAmong(MAP_UNDEFINED[depth], Neighbours1(F.pos), n1, BIT_ARRAY_BUFFER[depth])
<1>0. /\ Active /\ status = "search" /\ F.stage = "narrow" /\ SecondPass
      /\ Buffer = BIT_ARRAY_BUFFER[depth] /\ ToNarrow(Buffer) = {}
      /\ UNCHANGED << conditions, depth, open, MAP, VALS, args, MAP_UNDEFINED,
                      IMAGE_RESTRICT, STAB_GENS, REPS, status, calls >>
      /\ BIT_ARRAY_BUFFER' = [BIT_ARRAY_BUFFER EXCEPT ![depth] = b]
      /\ stack' = Append(Front(stack), G)
  BY DEF NarrowOthers, InSearch, Active, Buffer, Running
<1>1. F.min < UNDEFINED \/ Left \cap Neighbours1(F.pos) = {}
  BY <1>0, NothingToNarrow
<1>2. /\ depth \in 1 .. n1 - 1 /\ SetBits(MAP_UNDEFINED[depth], n1) = Left /\ Left \subseteq Nat
  BY <1>0, LeftFacts
<1>3. /\ Fields /\ PickOf(F, Pushed) /\ NarrowingOf(F, Pushed, Buffer)
      /\ F \in FrameType /\ n1 \in Nat /\ n1 \in 1 .. Size - 1 /\ Size \in Nat /\ depth \in Nat
  BY <1>0, ActiveFacts DEF HInv, ActiveRight, TopRight
<1>4. /\ G \in FrameType /\ G.pos = F.pos /\ G.rank = F.rank /\ G.rep_depth = F.rep_depth
      /\ G.stage = "narrow2" /\ G.min = F.min /\ G.next = F.next /\ G.at = -1
  <2>1. F \in FrameType /\ -1 \in Int /\ "narrow2" \in Stages  BY <1>3 DEF Stages
  <2>2. G = [F EXCEPT !.at = -1, !.stage = "narrow2"]  BY DEF G
  <2> HIDE DEF G
  <2>3. MovedTo(G, F, "narrow2", -1)  BY <2>1, <2>2, FrameMoved, Zenon
  <2> QED  BY <2>3 DEF MovedTo
<1> HIDE DEF G
<1>5. depth \in 0 .. Size - 1  BY <1>2, <1>3
<1>a. BIT_ARRAY_BUFFER[depth] \in SUBSET Bits  BY <1>3, <1>5 DEF Fields
<1>6. b \in SUBSET Bits /\ SetBits(b, n1) = Left \ Neighbours1(F.pos)
  BY <1>0, <1>a, OthersCopied
<1> HIDE DEF b
<1>7. Active'  BY <1>0 DEF Active
<1>8. StayStep(G) /\ SizesSmall'
  <2>1. \A d \in 0 .. depth - 1 : BIT_ARRAY_BUFFER'[d] = BIT_ARRAY_BUFFER[d]
    BY <1>0, <1>3
  <2> QED  BY <1>0, <1>4, <1>7, <2>1, StayUnchanged
<1>9. /\ MAP_UNDEFINED' \in [0 .. Size - 1 -> SUBSET Bits]
      /\ BIT_ARRAY_BUFFER' \in [0 .. Size - 1 -> SUBSET Bits]
      /\ BIT_ARRAY_BUFFER'[depth] = b
  BY <1>0, <1>3, <1>5, <1>6 DEF Fields
<1>10. depth < n1 /\ status' # "partial"  BY <1>0, <1>2, <1>3
<1>11. ASSUME NEW u \in Pushed  PROVE u \in Neighbours1(F.pos)
  BY <1>0, <1>3, <1>11 DEF NarrowingOf, SecondPass
<1>12. NarrowingOf(G, Row(conditions', depth), BIT_ARRAY_BUFFER'[depth])
  <2>1. ~ InPlace  BY <1>0 DEF InPlace, SecondPass
  <2>2. -1 \in -1 .. n1 - 1  BY <1>3
  <2> QED  BY <1>0, <1>2, <1>4, <1>6, <1>9, <1>11, <2>1, <2>2 DEF NarrowingOf, Pushed
<1>13. PickOf(G, Row(conditions', depth))
  BY <1>0, <1>1, <1>3, <1>4 DEF PickOf
<1>14. \A choices : TriesOf(G, choices)  BY <1>4 DEF TriesOf
<1>15. SetBits(MAP_UNDEFINED'[depth], n1) = Left  BY <1>0, <1>2
<1> QED  BY <1>0, <1>8, <1>9, <1>10, <1>12, <1>13, <1>14, <1>15, StayDone

------------------------------------------------------------------------------
(* The search for the vertex with the fewest candidates.                     *)

(* The values of g are got from e step by step.                              *)
Iterates(g, e, n, step) ==
  g[0] = e /\ \A k \in 1 .. n : g[k] = step[<< g[k - 1], k >>]

(* A function on 0 .. n can be defined by recursion.                         *)
LEMMA Recursion ==
  ASSUME NEW S, NEW e \in S, NEW n \in Nat, NEW step \in [S \X Nat -> S]
  PROVE  \E g \in [0 .. n -> S] : Iterates(g, e, n, step)
<1> DEFINE T == { m \in Nat : \E g \in [0 .. m -> S] : Iterates(g, e, m, step) }
<1>1. 0 \in T
  <2>1. /\ [k \in 0 .. 0 |-> e] \in [0 .. 0 -> S]
        /\ Iterates([k \in 0 .. 0 |-> e], e, 0, step)
    BY DEF Iterates
  <2> QED  BY <2>1
<1>2. ASSUME NEW m \in T PROVE m + 1 \in T
  <2>1. m \in Nat  OBVIOUS
  <2>2. PICK g \in [0 .. m -> S] : Iterates(g, e, m, step)  OBVIOUS
  <2> DEFINE h == [k \in 0 .. m + 1 |-> IF k <= m THEN g[k] ELSE step[<< g[m], m + 1 >>]]
  <2>3. \A k \in 0 .. m : h[k] = g[k] /\ g[k] \in S  BY <2>1, <2>2
  <2>4. h[m + 1] = step[<< g[m], m + 1 >>] /\ g[m] \in S  BY <2>1, <2>2
  <2>5. h \in [0 .. m + 1 -> S]
    <3>1. step[<< g[m], m + 1 >>] \in S  BY <2>1, <2>4
    <3> QED  BY <2>1, <2>3, <3>1
  <2> HIDE DEF h
  <2>6. \A k \in 1 .. m + 1 : h[k] = step[<< h[k - 1], k >>]
    <3> TAKE k \in 1 .. m + 1
    <3>1. CASE k <= m  BY <2>1, <2>2, <2>3, <3>1 DEF Iterates
    <3>2. CASE k = m + 1  BY <2>1, <2>3, <2>4, <3>2
    <3> QED  BY <2>1, <3>1, <3>2
  <2>7. Iterates(h, e, m + 1, step)  BY <2>1, <2>2, <2>3, <2>6 DEF Iterates
  <2> QED  BY <2>1, <2>5, <2>7
<1>3. n \in T
  <2> HIDE DEF T
  <2>1. T \in SUBSET Nat  BY DEF T
  <2> QED  BY <1>1, <1>2, <2>1, Induction
<1> QED  BY <1>3

(* One vertex of the loop, in block b.                                       *)
ScanStep(s, v, vertices, b) ==
  LET n == size_conditions(conditions, v)
  IN  IF v \notin vertices \/ s.left = b \/ n >= s.frame.min THEN s
      ELSE [frame |-> STORE_MIN(s.frame, n, v), left |-> IF n = 1 THEN b ELSE s.left]

ScanType == [frame : FrameType, left : Int]

LEMMA ScanStepType ==
  ASSUME CP!IInv, HInv, Active, NEW s \in ScanType, NEW v \in V1, NEW vertices, NEW b \in Int
  PROVE  ScanStep(s, v, vertices, b) \in ScanType
<1> DEFINE n == size_conditions(conditions, v)
<1>1. n \in Int /\ v \in Int
  <2>1. open /\ SizesSmall /\ v \in Columns(conditions) /\ v \in Nat
    BY ActiveFacts DEF HInv, ActiveRight, ArgsRight
  <2> QED  BY <2>1, SizeRead
<1> HIDE DEF n
<1>2. STORE_MIN(s.frame, n, v) \in FrameType
  <2>1. s.frame \in FrameType  BY DEF ScanType
  <2> DEFINE f == s.frame
  <2> HIDE DEF f
  <2>2. f \in FrameType  BY <2>1 DEF f
  <2>3. [f EXCEPT !.min = n, !.next = v] \in FrameType  BY <1>1, <2>2 DEF FrameType
  <2>4. STORE_MIN(f, n, v) \in FrameType  BY <2>2, <2>3 DEF STORE_MIN
  <2> QED  BY <2>4 DEF f
<1>3. s.left \in Int  BY DEF ScanType
<1> DEFINE r == [frame |-> STORE_MIN(s.frame, n, v), left |-> IF n = 1 THEN b ELSE s.left]
<1>4. r \in ScanType  BY <1>2, <1>3 DEF ScanType
<1>5. ScanStep(s, v, vertices, b) = s \/ ScanStep(s, v, vertices, b) = r
  BY DEF ScanStep, n
<1> HIDE DEF r
<1> QED  BY <1>4, <1>5

(* Such a loop can be run.                                                   *)
Scanned(s, vertices, blk) ==
  [v \in -1 .. n1 - 1 |-> IF v = -1 THEN [frame |-> F, left |-> -1]
                          ELSE ScanStep(s[v - 1], v, vertices, blk[v])]

LEMMA ScanExists ==
  ASSUME CP!IInv, HInv, Active, NEW vertices, NEW blk \in [V1 -> Nat]
  PROVE  \E s : s = Scanned(s, vertices, blk)
<1>1. n1 \in Nat /\ F \in FrameType /\ V1 = 0 .. n1 - 1  BY ActiveFacts DEF V1
<1> DEFINE e == [frame |-> F, left |-> -1]
           step == [q \in ScanType \X Nat |->
                      IF q[2] \in 1 .. n1 THEN ScanStep(q[1], q[2] - 1, vertices, blk[q[2] - 1])
                      ELSE q[1]]
<1>2. e \in ScanType
  <2>1. -1 \in Int  OBVIOUS
  <2> QED  BY <1>1, <2>1 DEF ScanType
<1>3. step \in [ScanType \X Nat -> ScanType]
  <2>1. ASSUME NEW s \in ScanType, NEW k \in 1 .. n1
        PROVE  ScanStep(s, k - 1, vertices, blk[k - 1]) \in ScanType
    <3>1. k - 1 \in V1 /\ blk[k - 1] \in Int  BY <1>1
    <3> QED  BY <3>1, ScanStepType
  <2>2. \A q \in ScanType \X Nat : q[1] \in ScanType /\ q[2] \in Nat  OBVIOUS
  <2> QED  BY <2>1, <2>2
<1>4. PICK g \in [0 .. n1 -> ScanType] : Iterates(g, e, n1, step)
  <2> HIDE DEF step, e
  <2> QED  BY <1>1, <1>2, <1>3, Recursion
<1> DEFINE s == [v \in -1 .. n1 - 1 |-> g[v + 1]]
<1>5. \A v \in 0 .. n1 - 1 : s[v] = ScanStep(s[v - 1], v, vertices, blk[v])
  <2> TAKE v \in 0 .. n1 - 1
  <2>1. v + 1 \in 1 .. n1 /\ v \in 0 .. n1 /\ (v + 1) - 1 = v /\ v + 1 \in Nat
        /\ v \in -1 .. n1 - 1 /\ v - 1 \in -1 .. n1 - 1 /\ (v - 1) + 1 = v
    BY <1>1
  <2>2. g[v] \in ScanType  BY <2>1
  <2>3. g[v + 1] = step[<< g[v], v + 1 >>]  BY <1>4, <2>1 DEF Iterates
  <2>4. << g[v], v + 1 >> \in ScanType \X Nat  BY <2>1, <2>2
  <2>5. step[<< g[v], v + 1 >>] = ScanStep(g[v], v, vertices, blk[v])
    BY <2>1, <2>4
  <2> HIDE DEF step
  <2> QED  BY <2>1, <2>3, <2>5
<1>6. s[-1] = e
  <2>1. -1 \in -1 .. n1 - 1 /\ -1 + 1 = 0  BY <1>1
  <2> QED  BY <1>4, <2>1 DEF Iterates
<1>7. s = Scanned(s, vertices, blk)
  <2>1. \A v \in -1 .. n1 - 1 : v # -1 => v \in 0 .. n1 - 1  BY <1>1
  <2>2. \A v \in -1 .. n1 - 1 : s[v] = IF v = -1 THEN e ELSE ScanStep(s[v - 1], v, vertices, blk[v])
    <3> HIDE DEF s, e
    <3> QED  BY <1>5, <1>6, <2>1
  <2>3. s = [v \in -1 .. n1 - 1 |-> s[v]]  OBVIOUS
  <2> HIDE DEF s
  <2> QED  BY <2>2, <2>3 DEF Scanned
<1> QED  BY <1>7

(* What has been found when the loop has come to v.                          *)
Found(s, v, vertices) ==
  /\ s.frame \in FrameType
  /\ s.frame.pos = F.pos /\ s.frame.rank = F.rank /\ s.frame.rep_depth = F.rep_depth
  /\ s.frame.has_trivial_stab = F.has_trivial_stab
  /\ s.frame.at = F.at /\ s.frame.stage = F.stage
  /\ \/ s.frame.min < UNDEFINED /\ s.frame.next \in Left
     \/ /\ F.min = UNDEFINED /\ s.frame.min = UNDEFINED /\ s.left = -1
        /\ \A u \in vertices : u > v

LEMMA FoundStep ==
  ASSUME CP!IInv, HInv, Active, NEW vertices \in SUBSET Left, NEW v \in V1, NEW b \in Nat,
         NEW s, Found(s, v - 1, vertices)
  PROVE  Found(ScanStep(s, v, vertices, b), v, vertices)
<1> DEFINE n == size_conditions(conditions, v)
           f == s.frame
<1>1. n \in Int /\ n < UNDEFINED /\ v \in Nat
  <2>1. open /\ SizesSmall /\ v \in Columns(conditions) /\ v \in Nat
    BY ActiveFacts DEF HInv, ActiveRight, ArgsRight
  <2> QED  BY <2>1, SizeRead
<1>2. Left \subseteq Nat  BY LeftFacts
<1>3. b # -1 /\ UNDEFINED \in Int  BY DEF UNDEFINED
<1>4. f \in FrameType /\ f.min \in Int  BY DEF Found, FrameType
<1> HIDE DEF n
<1>5. CASE v \notin vertices \/ s.left = b \/ n >= f.min
  <2>1. ScanStep(s, v, vertices, b) = s  BY <1>5 DEF ScanStep, n
  <2>2. ASSUME f.min = UNDEFINED, s.left = -1, NEW u \in vertices, u > v - 1  PROVE u > v
    <3>1. v \notin vertices  BY <1>1, <1>3, <1>5, <2>2
    <3>2. u # v /\ u \in Nat  BY <1>2, <3>1
    <3> QED  BY <1>1, <2>2, <3>2
  <2> QED  BY <2>1, <2>2 DEF Found
<1>6. CASE ~ (v \notin vertices \/ s.left = b \/ n >= f.min)
  <2> DEFINE g == [f EXCEPT !.min = n, !.next = v]
  <2>1. n < f.min  BY <1>1, <1>4, <1>6
  <2>2. ScanStep(s, v, vertices, b) = [frame |-> g, left |-> IF n = 1 THEN b ELSE s.left]
    BY <1>6, <2>1 DEF ScanStep, n, STORE_MIN
  <2>3. ScanStep(s, v, vertices, b).frame = g  BY <2>2
  <2>a. f.pos = F.pos /\ f.rank = F.rank /\ f.rep_depth = F.rep_depth
        /\ f.at = F.at /\ f.stage = F.stage
    BY DEF Found
  <2>b. f.has_trivial_stab = F.has_trivial_stab  BY DEF Found
  <2> HIDE DEF f
  <2>4. /\ g \in FrameType /\ g.pos = F.pos /\ g.rank = F.rank /\ g.rep_depth = F.rep_depth
        /\ g.at = F.at /\ g.stage = F.stage /\ g.min = n /\ g.next = v
    <3>1. g.min = n /\ g.next = v  BY <1>4 DEF FrameType
    <3>2. g.pos = f.pos /\ g.rank = f.rank /\ g.rep_depth = f.rep_depth
          /\ g.at = f.at /\ g.stage = f.stage
      BY <1>4 DEF FrameType
    <3>a. n \in Int /\ v \in Int  BY <1>1
    <3>3. g \in FrameType  BY <1>4, <3>a DEF FrameType
    <3> HIDE DEF g
    <3> QED  BY <2>a, <3>1, <3>2, <3>3
  <2>c. g.has_trivial_stab = F.has_trivial_stab  BY <1>4, <2>b DEF FrameType
  <2> HIDE DEF g
  <2>5. v \in Left  BY <1>6
  <2> QED  BY <1>1, <2>3, <2>4, <2>5, <2>c DEF Found
<1> QED  BY <1>5, <1>6

LEMMA ScanRight ==
  ASSUME CP!IInv, HInv, Active, NEW vertices \in SUBSET Left, NEW blk \in [V1 -> Nat],
         \/ F.min < UNDEFINED /\ F.next \in Left
         \/ F.min = UNDEFINED /\ vertices # {},
         NEW s, s = Scanned(s, vertices, blk)
  PROVE  LET G == s[n1 - 1].frame
         IN  /\ G \in FrameType /\ G.pos = F.pos /\ G.rank = F.rank /\ G.rep_depth = F.rep_depth
             /\ G.has_trivial_stab = F.has_trivial_stab
             /\ G.at = F.at /\ G.stage = F.stage /\ G.next \in Left
<1>1. n1 \in Nat /\ F \in FrameType /\ V1 = 0 .. n1 - 1  BY ActiveFacts DEF V1
<1>2. Left \subseteq Nat /\ Left \subseteq V1  BY LeftFacts
<1>3. s[-1] = [frame |-> F, left |-> -1]
      /\ \A v \in 0 .. n1 - 1 : s[v] = ScanStep(s[v - 1], v, vertices, blk[v])
  <2>1. -1 \in -1 .. n1 - 1 /\ \A v \in 0 .. n1 - 1 : v # -1 /\ v \in -1 .. n1 - 1
    BY <1>1
  <2> QED  BY <2>1 DEF Scanned
<1> DEFINE T == { k \in Nat : k <= n1 => Found(s[k - 1], k - 1, vertices) }
<1>4. 0 \in T
  <2>1. s[-1].frame = F /\ s[-1].left = -1  BY <1>3
  <2>2. \A u \in vertices : u > -1  BY <1>2
  <2>3. Found(s[-1], -1, vertices)
    BY <1>1, <2>1, <2>2 DEF Found
  <2>4. 0 - 1 = -1  OBVIOUS
  <2> QED  BY <2>3, <2>4
<1>5. ASSUME NEW k \in T  PROVE k + 1 \in T
  <2>1. k \in Nat /\ (k + 1) - 1 = k /\ k + 1 \in Nat  OBVIOUS
  <2>2. ASSUME k + 1 <= n1  PROVE Found(s[k], k, vertices)
    <3>1. k \in V1 /\ k <= n1 /\ k \in 0 .. n1 - 1  BY <1>1, <2>1, <2>2
    <3>2. Found(s[k - 1], k - 1, vertices)  BY <3>1
    <3>3. blk[k] \in Nat  BY <3>1
    <3> QED  BY <1>3, <3>1, <3>2, <3>3, FoundStep
  <2> QED  BY <2>1, <2>2
<1>6. n1 \in T
  <2>1. T \in SUBSET Nat  OBVIOUS
  <2> HIDE DEF T
  <2> QED  BY <1>1, <1>4, <1>5, <2>1, Induction
<1>7. Found(s[n1 - 1], n1 - 1, vertices)  BY <1>1, <1>6
<1>8. \A u \in vertices : ~ (u > n1 - 1)  BY <1>1, <1>2
<1>9. (s[n1 - 1].frame.min < UNDEFINED /\ s[n1 - 1].frame.next \in Left)
      \/ (F.min = UNDEFINED /\ vertices = {})
  BY <1>7, <1>8 DEF Found
<1>10. ~ (UNDEFINED < UNDEFINED)  BY DEF UNDEFINED
<1> QED  BY <1>7, <1>9, <1>10 DEF Found

(* The vertex that is chosen has no value yet.                               *)
LEMMA ChosenRight ==
  ASSUME CP!IInv, HInv, status = "search", F.stage = "pick"
  PROVE  /\ Chosen \in FrameType /\ Chosen.pos = F.pos /\ Chosen.rank = F.rank
         /\ Chosen.rep_depth = F.rep_depth /\ Chosen.stage = F.stage
         /\ Chosen.has_trivial_stab = F.has_trivial_stab /\ Chosen.at = F.at
         /\ Chosen.next \in Left
<1>0. Active  BY DEF Active
<1>1. /\ n1 \in Nat /\ F \in FrameType /\ depth \in Nat /\ depth <= n1 /\ V1 = 0 .. n1 - 1
      /\ IsFiniteSet(Assigned)
  BY <1>0, ActiveFacts DEF V1
<1>2. /\ PickOf(F, Pushed) /\ MapRight /\ depth < n1
  BY <1>0 DEF HInv, ActiveRight, TopRight, FramesRight
<1>3. Left # {} /\ Left \subseteq V1 /\ Left \subseteq Nat
      /\ SetBits(MAP_UNDEFINED[depth], n1) = Left
  BY <1>0, <1>2, LeftFacts
<1>4. (F.min < UNDEFINED /\ F.next \in Left) \/ F.min = UNDEFINED
  BY <1>2 DEF PickOf
<1>5. CASE depth = 0
  <2> DEFINE blk == [v \in V1 |-> 0]
  <2>1. Left = V1
    <3>1. Cardinality(Assigned) = 0  BY <1>2, <1>5 DEF MapRight
    <3>2. Assigned = {}  BY <1>1, <3>1, FS_EmptySet
    <3> QED  BY <3>2 DEF Left
  <2>2. blk \in [V1 -> Nat]  OBVIOUS
  <2>3. Chosen = (CHOOSE s : s = Scanned(s, V1, blk))[n1 - 1].frame
    BY <1>1, <1>5 DEF Chosen, Scan, Scanned, ScanStep
  <2> HIDE DEF blk
  <2> DEFINE s == CHOOSE s : s = Scanned(s, V1, blk)
  <2>4. s = Scanned(s, V1, blk)  BY <1>0, <2>2, ScanExists
  <2>5. Chosen = s[n1 - 1].frame  BY <2>3
  <2> HIDE DEF s
  <2> QED  BY <1>0, <1>3, <1>4, <2>1, <2>2, <2>4, <2>5, ScanRight
<1>6. CASE depth # 0 /\ Undirected(args) /\ args.injective < 2 /\ F.min > 1
  <2> DEFINE T == SetBits(MAP_UNDEFINED[depth] \ Neighbours1(F.pos), n1)
             blk == [v \in V1 |-> v \div BlockBits]
  <2>1. T = Left \ Neighbours1(F.pos)  BY <1>3 DEF SetBits
  <2>2. blk \in [V1 -> Nat]
    BY <1>1, BlockBitsAssumption
  <2>3. Chosen = (CHOOSE s : s = Scanned(s, T, blk))[n1 - 1].frame
    <3> DEFINE body(s) == [v \in -1 .. n1 - 1 |->
                             IF v = -1 THEN [frame |-> F, left |-> -1]
                             ELSE ScanStep(s[v - 1], v, T, v \div BlockBits)]
    <3>1. Chosen = (CHOOSE s : s = body(s))[n1 - 1].frame
      BY <1>6 DEF Chosen, Scan, ScanStep
    <3>2. \A v \in -1 .. n1 - 1 : v # -1 => v \in V1  BY <1>1
    <3>3. \A v \in V1 : blk[v] = v \div BlockBits  OBVIOUS
    <3> HIDE DEF T, blk
    <3>4. \A s : body(s) = Scanned(s, T, blk)  BY <3>2, <3>3 DEF Scanned
    <3> HIDE DEF body
    <3> QED  BY <3>1, <3>4
  <2> HIDE DEF blk, T
  <2> DEFINE s == CHOOSE s : s = Scanned(s, T, blk)
  <2>4. s = Scanned(s, T, blk)  BY <1>0, <2>2, ScanExists
  <2>5. Chosen = s[n1 - 1].frame  BY <2>3
  <2> HIDE DEF s
  <2>6. F.min = UNDEFINED => T # {}
    <3>1. ~ (UNDEFINED < UNDEFINED)  BY DEF UNDEFINED
    <3>2. F.min = UNDEFINED => Left \cap Neighbours1(F.pos) = {}
      BY <1>2, <1>6, <3>1 DEF PickOf
    <3> QED  BY <1>3, <2>1, <3>2
  <2>7. T \in SUBSET Left  BY <2>1
  <2> QED  BY <1>0, <1>4, <2>2, <2>4, <2>5, <2>6, <2>7, ScanRight
<1>7. CASE depth # 0 /\ ~ (Undirected(args) /\ args.injective < 2 /\ F.min > 1)
  <2>1. Chosen = F  BY <1>7 DEF Chosen
  <2>2. F.next \in Left
    <3>1. UNDEFINED > 1 /\ ~ (UNDEFINED < UNDEFINED)  BY DEF UNDEFINED
    <3> QED  BY <1>2, <1>4, <1>7, <3>1 DEF PickOf
  <2> QED  BY <1>1, <2>1, <2>2
<1> QED  BY <1>5, <1>6, <1>7

------------------------------------------------------------------------------
(* The values that are tried.                                                *)
LEMMA AmongMeant ==
  ASSUME NEW n \in 0 .. Size, NEW b \in SUBSET Bits, NEW S, NEW T
  PROVE  /\ Among(S, T, n, b) \in SUBSET Bits
         /\ SetBits(Among(S, T, n, b), n) = SetBits(S, n) \cap T
<1> DEFINE x == copy_bit_array(b, S, n)
<1>1. n \in Nat  BY SizeFacts
<1>2. x \in SUBSET Bits  BY BitsTypes
<1>3. SetBits(x, n) = SetBits(S, n)  BY <1>1, BitsMeant
<1> HIDE DEF x
<1>4. intersect_bit_arrays(x, T, n) \in SUBSET Bits
  BY <1>2, BitsTypes
<1>5. SetBits(intersect_bit_arrays(x, T, n), n) = SetBits(S, n) \cap T
  BY <1>1, <1>3, BitsMeant
<1> QED  BY <1>4, <1>5 DEF Among, x

LEMMA NotAmongMeant ==
  ASSUME NEW n \in 0 .. Size, NEW b \in SUBSET Bits, NEW S, NEW T
  PROVE  /\ NotAmong(S, T, n, b) \in SUBSET Bits
         /\ SetBits(NotAmong(S, T, n, b), n) = SetBits(S, n) \ T
<1> DEFINE x == copy_bit_array(b, S, n)
<1>1. n \in Nat  BY SizeFacts
<1>2. x \in SUBSET Bits  BY BitsTypes
<1>3. SetBits(x, n) = SetBits(S, n)  BY <1>1, BitsMeant
<1> HIDE DEF x
<1>4. complement_bit_arrays(x, T, n) \in SUBSET Bits
  BY <1>2, BitsTypes
<1>5. SetBits(complement_bit_arrays(x, T, n), n) = SetBits(S, n) \ T
  BY <1>1, <1>3, BitsMeant
<1> QED  BY <1>4, <1>5 DEF NotAmong, x

LEMMA ValuesRight ==
  ASSUME HInv, Active, depth < n1, NEW v
  PROVE  /\ NewValues(v) \in SUBSET Bits /\ OldValues(v) \in SUBSET Bits
         /\ SetBits(NewValues(v), n2) \cap ValuesAt(Height) = {}
         /\ SetBits(OldValues(v), n2) \subseteq ValuesAt(Height)
<1>1. /\ n2 \in 0 .. Size /\ n2 \in Nat /\ depth \in Nat /\ n1 \in 1 .. Size - 1 /\ Size \in Nat
  BY ActiveFacts
<1>2. depth \in 0 .. Size - 1  BY <1>1
<1>3. BIT_ARRAY_BUFFER[depth] \in SUBSET Bits  BY <1>2 DEF HInv, Fields
<1>4. ValuesAt(Height) = SetBits(VALS, n2)  BY DEF HInv, ActiveRight, MapRight
<1> DEFINE cell == get_conditions(conditions, v)
           x == NotAmong(cell, VALS, n2, BIT_ARRAY_BUFFER[depth])
           y == Among(cell, VALS, n2, BIT_ARRAY_BUFFER[depth])
<1>5. /\ x \in SUBSET Bits /\ SetBits(x, n2) = SetBits(cell, n2) \ VALS
      /\ y \in SUBSET Bits /\ SetBits(y, n2) = SetBits(cell, n2) \cap VALS
  <2> HIDE DEF cell
  <2> DEFINE buf == BIT_ARRAY_BUFFER[depth]
  <2>1. n2 \in 0 .. Size /\ buf \in SUBSET Bits  BY <1>1, <1>3
  <2> HIDE DEF buf
  <2>2. NotAmong(cell, VALS, n2, buf) \in SUBSET Bits  BY <2>1, NotAmongMeant
  <2>3. SetBits(NotAmong(cell, VALS, n2, buf), n2) = SetBits(cell, n2) \ VALS
    BY <2>1, NotAmongMeant
  <2>4. Among(cell, VALS, n2, buf) \in SUBSET Bits  BY <2>1, AmongMeant
  <2>5. SetBits(Among(cell, VALS, n2, buf), n2) = SetBits(cell, n2) \cap VALS
    <3> DEFINE z == copy_bit_array(buf, cell, n2)
    <3>1. n2 \in Nat  BY <1>1
    <3>2. SetBits(z, n2) = SetBits(cell, n2)  BY <3>1, BitsMeant
    <3>3. SetBits(intersect_bit_arrays(z, VALS, n2), n2) = SetBits(z, n2) \cap VALS
      BY <3>1, BitsMeant
    <3> QED  BY <3>2, <3>3 DEF Among
  <2> QED  BY <2>2, <2>3, <2>4, <2>5 DEF buf
<1> HIDE DEF x, y
<1>6. intersect_bit_arrays(x, REPS[F.rep_depth], n2) \in SUBSET Bits
  BY <1>1, <1>5, BitsTypes
<1>7. SetBits(intersect_bit_arrays(x, REPS[F.rep_depth], n2), n2)
        = (SetBits(cell, n2) \ VALS) \cap REPS[F.rep_depth]
  BY <1>1, <1>5, BitsMeant
<1>8. SetBits(VALS, n2) = VALS \cap Meant(n2) /\ SetBits(cell, n2) = cell \cap Meant(n2)
  BY DEF SetBits
<1> HIDE DEF cell
<1> QED  BY <1>4, <1>5, <1>6, <1>7, <1>8 DEF NewValues, OldValues, x, y, cell

LEMMA PickStep ==
  ASSUME CP!IInv, HInv, InSearch("pick"), ~ InPlace, NEW stage \in { "new", "old" },
         NEW x \in SUBSET Bits,
         stage = "new" => SetBits(x, n2) \cap ValuesAt(Height) = {},
         stage = "old" => SetBits(x, n2) \subseteq ValuesAt(Height),
         Running([Chosen EXCEPT !.stage = stage]),
         BIT_ARRAY_BUFFER' = [BIT_ARRAY_BUFFER EXCEPT ![depth] = x],
         UNCHANGED << conditions, depth, open, MAP, VALS, MAP_UNDEFINED, IMAGE_RESTRICT,
                      STAB_GENS, REPS, args, status, results, calls >>
  PROVE  HInv'
<1> DEFINE G == [Chosen EXCEPT !.stage = stage]
<1>0. /\ Active /\ status = "search" /\ F.stage = "pick"
      /\ UNCHANGED << conditions, depth, open, MAP, VALS, args, MAP_UNDEFINED,
                      IMAGE_RESTRICT, STAB_GENS, REPS, status, calls >>
      /\ stack' = Append(Front(stack), G)
  BY DEF InSearch, Active, Running
<1>1. /\ Chosen \in FrameType /\ Chosen.pos = F.pos /\ Chosen.rank = F.rank
      /\ Chosen.rep_depth = F.rep_depth /\ Chosen.next \in Left
  BY <1>0, ChosenRight
<1>2. /\ depth < n1 /\ Fields
  BY <1>0 DEF HInv, ActiveRight, FramesRight
<1>3. n1 \in 1 .. Size - 1 /\ Size \in Nat /\ depth \in Nat  BY <1>0, ActiveFacts
<1>4. SetBits(MAP_UNDEFINED[depth], n1) = Left  BY <1>0, LeftFacts
<1>5. /\ G \in FrameType /\ G.pos = F.pos /\ G.rank = F.rank /\ G.rep_depth = F.rep_depth
      /\ G.stage = stage /\ G.next \in Left
  <2> DEFINE f == Chosen
  <2>1. f \in FrameType /\ f.pos = F.pos /\ f.rank = F.rank /\ f.rep_depth = F.rep_depth
        /\ f.next \in Left
    BY <1>1
  <2> HIDE DEF f
  <2>2. LET g == [f EXCEPT !.stage = stage]
        IN  /\ g \in FrameType /\ g.pos = f.pos /\ g.rank = f.rank /\ g.rep_depth = f.rep_depth
            /\ g.stage = stage /\ g.next = f.next
    BY <2>1 DEF FrameType, Stages
  <2> QED  BY <2>1, <2>2 DEF f
<1> HIDE DEF G
<1>6. Active'  BY <1>0 DEF Active
<1>7. StayStep(G) /\ SizesSmall'
  <2>1. \A d \in 0 .. depth - 1 : BIT_ARRAY_BUFFER'[d] = BIT_ARRAY_BUFFER[d]
    BY <1>3
  <2> QED  BY <1>0, <1>5, <1>6, <2>1, StayUnchanged
<1>8. depth \in 0 .. Size - 1  BY <1>2, <1>3
<1>9. /\ MAP_UNDEFINED' \in [0 .. Size - 1 -> SUBSET Bits]
      /\ BIT_ARRAY_BUFFER' \in [0 .. Size - 1 -> SUBSET Bits]
      /\ BIT_ARRAY_BUFFER'[depth] = x
  BY <1>0, <1>2, <1>8 DEF Fields
<1>10. \A T, b : NarrowingOf(G, T, b) /\ PickOf(G, T)
  BY <1>5 DEF NarrowingOf, PickOf
<1>11. TriesOf(G, BIT_ARRAY_BUFFER'[depth])
  BY <1>5, <1>9 DEF TriesOf
<1>12. status' # "partial"  BY <1>0
<1>13. SetBits(MAP_UNDEFINED'[depth], n1) = Left  BY <1>0, <1>4
<1> QED  BY <1>0, <1>2, <1>7, <1>9, <1>10, <1>11, <1>12, <1>13, StayDone

LEMMA TurnToOldStep ==
  ASSUME CP!IInv, HInv, TurnToOld, ~ InPlace
  PROVE  HInv'
<1> DEFINE G == [F EXCEPT !.at = -1, !.stage = "old"]
           x == OldValues(F.next)
<1>0. /\ Active /\ status = "search" /\ F.stage = "new"
      /\ UNCHANGED << conditions, depth, open, MAP, VALS, args, MAP_UNDEFINED,
                      IMAGE_RESTRICT, STAB_GENS, REPS, status, calls >>
      /\ stack' = Append(Front(stack), G)
      /\ BIT_ARRAY_BUFFER' = [BIT_ARRAY_BUFFER EXCEPT ![depth] = x]
  BY DEF TurnToOld, InSearch, Active, Running
<1>1. F \in FrameType /\ n1 \in 1 .. Size - 1 /\ Size \in Nat /\ depth \in Nat
  BY <1>0, ActiveFacts
<1>2. /\ depth < n1 /\ Fields /\ TriesOf(F, ToChoose(Height))
  BY <1>0 DEF HInv, ActiveRight, FramesRight, TopRight
<1>3. F.next \in Left  BY <1>0, <1>2 DEF TriesOf
<1>4. SetBits(MAP_UNDEFINED[depth], n1) = Left  BY <1>0, LeftFacts
<1>5. MovedTo(G, F, "old", -1)
  <2>1. F \in FrameType /\ -1 \in Int /\ "old" \in Stages  BY <1>1 DEF Stages
  <2>2. G = [F EXCEPT !.at = -1, !.stage = "old"]  BY DEF G
  <2> HIDE DEF G
  <2> QED  BY <2>1, <2>2, FrameMoved, Zenon
<1> HIDE DEF G
<1>6. /\ G \in FrameType /\ G.pos = F.pos /\ G.rank = F.rank /\ G.rep_depth = F.rep_depth
      /\ G.stage = "old" /\ G.next \in Left
  BY <1>3, <1>5 DEF MovedTo
<1>7. x \in SUBSET Bits /\ SetBits(x, n2) \subseteq ValuesAt(Height)
  BY <1>0, <1>2, ValuesRight
<1> HIDE DEF x
<1>8. Active'  BY <1>0 DEF Active
<1>9. StayStep(G) /\ SizesSmall'
  <2>1. \A d \in 0 .. depth - 1 : BIT_ARRAY_BUFFER'[d] = BIT_ARRAY_BUFFER[d]
    BY <1>0, <1>1
  <2> QED  BY <1>0, <1>6, <1>8, <2>1, StayUnchanged
<1>10. depth \in 0 .. Size - 1  BY <1>1, <1>2
<1>11. /\ MAP_UNDEFINED' \in [0 .. Size - 1 -> SUBSET Bits]
       /\ BIT_ARRAY_BUFFER' \in [0 .. Size - 1 -> SUBSET Bits]
       /\ BIT_ARRAY_BUFFER'[depth] = x
  BY <1>0, <1>2, <1>7, <1>10 DEF Fields
<1>12. \A T, b : NarrowingOf(G, T, b) /\ PickOf(G, T)
  BY <1>6 DEF NarrowingOf, PickOf
<1>13. TriesOf(G, BIT_ARRAY_BUFFER'[depth])
  BY <1>6, <1>7, <1>11 DEF TriesOf
<1>14. status' # "partial"  BY <1>0
<1>15. SetBits(MAP_UNDEFINED'[depth], n1) = Left  BY <1>0, <1>4
<1> QED  BY <1>0, <1>2, <1>9, <1>11, <1>12, <1>13, <1>14, <1>15, StayDone

(* find_digraph_embeddings narrows the cell itself.                          *)
LEMMA ColumnHasTop ==
  ASSUME CP!IInv, open, NEW v \in Columns(conditions)
  PROVE  HasTop(conditions, v)
<1> DEFINE c == conditions
<1>0. /\ c \in ConditionsType /\ c.nr1 \in 1 .. Size /\ c.nr2 \in 1 .. Size
      /\ Size \in Nat \ {0}
      /\ c.height[v] \in 1 .. c.nr1
      /\ v \in 0 .. c.nr1 - 1
  BY ObjectFacts, SizeFacts DEF Columns
<1>1. Top(c, v) \in 0 .. Size * Size - 1
  BY <1>0, CellInside DEF Index, Top
<1>2. c.bit_array \in [0 .. Size * Size - 1 -> SUBSET Bits]
  BY <1>0 DEF ConditionsType
<1>3. c = [ bit_array |-> c.bit_array, changed |-> c.changed, height |-> c.height,
            sizes |-> c.sizes, nr1 |-> c.nr1, nr2 |-> c.nr2 ]
  BY <1>0 DEF ConditionsType
<1> QED  BY <1>0, <1>1, <1>2, <1>3 DEF HasTop, get_conditions

LEMMA InPlaceMask ==
  ASSUME CP!IInv, HInv, Active, NEW v \in V1, NEW a, NEW b
  PROVE  ComplementTop(IntersectTop(conditions, v, a), v, b)
           = IntersectTop(conditions, v, a \cap (Bits \ b))
<1>1. HasTop(conditions, v)
  <2>1. v \in Columns(conditions) /\ open
    BY ActiveFacts DEF HInv, ActiveRight, ArgsRight
  <2> QED  BY <2>1, ColumnHasTop
<1>2. HasTop(IntersectTop(conditions, v, a), v)  BY <1>1, OneMask
<1>3. ComplementTop(IntersectTop(conditions, v, a), v, b)
        = IntersectTop(IntersectTop(conditions, v, a), v, Bits \ b)
  BY <1>2, OneMask
<1>4. IntersectTop(IntersectTop(conditions, v, a), v, Bits \ b)
        = IntersectTop(conditions, v, a \cap (Bits \ b))
  BY <1>1, OneMask
<1> QED  BY <1>3, <1>4

LEMMA PickInPlaceStep ==
  ASSUME CP!IInv, HInv, PickInPlace, InPlace
  PROVE  HInv'
<1> DEFINE G == [Chosen EXCEPT !.stage = "new"]
           w == Chosen.next
           b == REPS[F.rep_depth] \cap (Bits \ VALS)
           p == IntersectTop(conditions, w, b)
<1>0. /\ Active /\ status = "search" /\ F.stage = "pick"
      /\ UNCHANGED << depth, open, MAP, VALS, args, MAP_UNDEFINED, BIT_ARRAY_BUFFER,
                      IMAGE_RESTRICT, STAB_GENS, REPS, status, calls >>
      /\ stack' = Append(Front(stack), G)
      /\ conditions' = ComplementTop(IntersectTop(conditions, w, REPS[F.rep_depth]), w, VALS)
  BY DEF PickInPlace, InSearch, Active, Running, globals
<1>1. /\ Chosen \in FrameType /\ Chosen.pos = F.pos /\ Chosen.rank = F.rank
      /\ Chosen.rep_depth = F.rep_depth /\ w \in Left
  BY <1>0, ChosenRight
<1>2. /\ depth < n1 /\ Fields /\ conditions.nr2 = n2 /\ open /\ SizesSmall /\ CallsRight
      /\ ValuesAt(Height) = SetBits(VALS, n2)
  BY <1>0 DEF HInv, ActiveRight, FramesRight, ArgsRight, MapRight
<1>3. /\ n1 \in 1 .. Size - 1 /\ Size \in Nat /\ depth \in Nat /\ n2 \in Nat
      /\ Height \in Nat /\ Columns(conditions) = V1
  BY <1>0, ActiveFacts
<1>4. SetBits(MAP_UNDEFINED[depth], n1) = Left /\ Left \subseteq V1
  BY <1>0, LeftFacts
<1>5. /\ G \in FrameType /\ G.pos = F.pos /\ G.rank = F.rank /\ G.rep_depth = F.rep_depth
      /\ G.stage = "new" /\ G.next = w
  <2> DEFINE f == Chosen
  <2>1. f \in FrameType /\ f.pos = F.pos /\ f.rank = F.rank /\ f.rep_depth = F.rep_depth
    BY <1>1
  <2> HIDE DEF f
  <2>2. LET g == [f EXCEPT !.stage = "new"]
        IN  /\ g \in FrameType /\ g.pos = f.pos /\ g.rank = f.rank /\ g.rep_depth = f.rep_depth
            /\ g.stage = "new" /\ g.next = f.next
    BY <2>1 DEF FrameType, Stages
  <2> QED  BY <2>1, <2>2 DEF f
<1> HIDE DEF G, w
<1>6. conditions' = p
  BY <1>0, <1>1, <1>4, InPlaceMask
<1> HIDE DEF b
<1>7. /\ p.nr1 = conditions.nr1 /\ p.nr2 = conditions.nr2
      /\ \A d : Row(p, d) = Row(conditions, d)
      /\ \A u \in V1 : u # w => get_conditions(p, u) = get_conditions(conditions, u)
      /\ get_conditions(p, w)
           = intersect_bit_arrays(get_conditions(conditions, w), b, n2)
      /\ \A k \in 0 .. Size * Size - 1 : p.sizes[k] < UNDEFINED
  BY <1>1, <1>2, <1>3, <1>4, InPlaceEffect
<1> HIDE DEF p
<1>8. w \notin Assigned  BY <1>1 DEF Left
<1>9. ASSUME NEW k \in 1 .. Height - 1
      PROVE  get_conditions(p, stack[k].next) = get_conditions(conditions, stack[k].next)
  <2>1. CallerRight(k)  BY <1>2 DEF CallsRight
  <2>2. stack[k].next \in V1 /\ stack[k].next \in Assigned
    BY <2>1 DEF CallerRight, TriesRight, AssignedAt
  <2> QED  BY <1>7, <1>8, <2>2
<1>10. Row(conditions, depth) \cap Assigned = {}  BY <1>0, <1>2, RowOpen
<1>11. StayStep(G)
  BY <1>0, <1>5, <1>6, <1>7, <1>9, <1>10 DEF StayStep, Active
<1>12. SizesSmall'  BY <1>6, <1>7 DEF SizesSmall
<1>13. /\ MAP_UNDEFINED' \in [0 .. Size - 1 -> SUBSET Bits]
       /\ BIT_ARRAY_BUFFER' \in [0 .. Size - 1 -> SUBSET Bits]
  BY <1>0, <1>2 DEF Fields
<1>14. \A T, x : NarrowingOf(G, T, x) /\ PickOf(G, T)
  BY <1>5 DEF NarrowingOf, PickOf
<1>15. TriesOf(G, get_conditions(conditions', G.next))
  <2>1. SetBits(get_conditions(p, w), n2) \subseteq b
    BY <1>3, <1>7, BitsMeant
  <2>2. ValuesAt(Height) \subseteq VALS  BY <1>2 DEF SetBits
  <2>3. SetBits(get_conditions(p, w), n2) \cap ValuesAt(Height) = {}
    BY <2>1, <2>2 DEF b
  <2> QED  BY <1>1, <1>5, <1>6, <2>3 DEF TriesOf
<1>16. status' # "partial"  BY <1>0
<1>17. SetBits(MAP_UNDEFINED'[depth], n1) = Left  BY <1>0, <1>4
<1> QED  BY <1>0, <1>2, <1>11, <1>12, <1>13, <1>14, <1>15, <1>16, <1>17, StayDone

------------------------------------------------------------------------------
(* The partial map is installed.                                             *)
EnteredAt(G, f, s, x, y) ==
  /\ G \in FrameType /\ G.pos = f.pos /\ G.rank = f.rank /\ G.rep_depth = f.rep_depth
  /\ G.stage = s /\ G.next = y /\ G.at = x

LEMMA FrameEntered ==
  ASSUME NEW f \in FrameType, NEW s \in Stages, NEW x \in Int, NEW y \in Int,
         NEW G, G = [f EXCEPT !.next = y, !.at = x, !.stage = s]
  PROVE  EnteredAt(G, f, s, x, y)
BY DEF FrameType, EnteredAt

LEMMA PartialNarrowedStep ==
  ASSUME CP!IInv, HInv, PartialNarrowed
  PROVE  HInv'
<1>0. /\ Active /\ status = "partial" /\ F.stage \in { "narrow", "narrow2" }
      /\ Buffer = BIT_ARRAY_BUFFER[0] /\ ToNarrow(Buffer) = {}
      /\ UNCHANGED << conditions, depth, open, MAP, VALS, args, MAP_UNDEFINED,
                      IMAGE_RESTRICT, STAB_GENS, REPS, status, calls >>
  BY DEF PartialNarrowed, InPartial, Active, Buffer
<1>1. F \in FrameType /\ n1 \in 1 .. Size - 1 /\ Size \in Nat /\ depth \in Nat
  BY <1>0, ActiveFacts
<1>2. /\ Fields /\ PartialOf(F) /\ NarrowingOf(F, Pushed, Buffer)
  BY <1>0 DEF HInv, ActiveRight, FramesRight, TopRight
<1>3. /\ depth \in 1 .. n1 - 1 /\ SetBits(MAP_UNDEFINED[depth], n1) = Left /\ depth < n1
      /\ Left \subseteq Nat
  BY <1>0, <1>1, LeftFacts
<1>4. Active' /\ status' = "partial"  BY <1>0 DEF Active
<1>5. SetBits(MAP_UNDEFINED'[depth], n1) = Left  BY <1>0, <1>3
<1>6. MAP_UNDEFINED' \in [0 .. Size - 1 -> SUBSET Bits]  BY <1>0, <1>2 DEF Fields
<1>7. CASE SecondPass /\ F.stage = "narrow"
  <2> DEFINE G == [F EXCEPT !.at = -1, !.stage = "narrow2"]
             b == NotAmong(MAP_UNDEFINED[depth], Neighbours1(F.pos), n1, BIT_ARRAY_BUFFER[0])
  <2>1. MovedTo(G, F, "narrow2", -1)
    <3>1. F \in FrameType /\ -1 \in Int /\ "narrow2" \in Stages  BY <1>1 DEF Stages
    <3>2. G = [F EXCEPT !.at = -1, !.stage = "narrow2"]  BY DEF G
    <3> HIDE DEF G
    <3> QED  BY <3>1, <3>2, FrameMoved, Zenon
  <2>2. stack' = Append(Front(stack), G) /\ BIT_ARRAY_BUFFER' = [BIT_ARRAY_BUFFER EXCEPT ![0] = b]
    BY <1>7 DEF PartialNarrowed, Running
  <2> HIDE DEF G
  <2>3. /\ G \in FrameType /\ G.pos = F.pos /\ G.rank = F.rank /\ G.rep_depth = F.rep_depth
        /\ G.stage = "narrow2" /\ G.next = F.next /\ G.at = -1
    BY <2>1 DEF MovedTo
  <2>4. b \in SUBSET Bits /\ SetBits(b, n1) = Left \ Neighbours1(F.pos)
    <3>1. 0 \in 0 .. Size - 1  BY <1>1
    <3>2. BIT_ARRAY_BUFFER[0] \in SUBSET Bits  BY <1>2, <3>1 DEF Fields
    <3> QED  BY <1>0, <3>2, OthersCopied
  <2> HIDE DEF b
  <2>5. StayStep(G) /\ SizesSmall'
    BY <1>0, <1>4, <2>2, <2>3, StayUnchanged
  <2>6. BIT_ARRAY_BUFFER' \in [0 .. Size - 1 -> SUBSET Bits] /\ BIT_ARRAY_BUFFER'[0] = b
    <3>1. 0 \in 0 .. Size - 1  BY <1>1
    <3> QED  BY <1>2, <2>2, <2>4, <3>1 DEF Fields
  <2>7. ASSUME NEW u \in Pushed  PROVE u \in Neighbours1(F.pos)
    BY <1>2, <1>7, <2>7 DEF NarrowingOf, SecondPass
  <2>8. NarrowingOf(G, Row(conditions', depth), BIT_ARRAY_BUFFER'[0])
    <3>1. ~ InPlace  BY <1>7 DEF InPlace, SecondPass
    <3>2. -1 \in -1 .. n1 - 1  BY <1>1
    <3> QED  BY <1>0, <1>3, <1>7, <2>3, <2>4, <2>6, <2>7, <3>1, <3>2 DEF NarrowingOf, Pushed
  <2>9. PartialOf(G)  BY <1>0, <1>2, <2>3 DEF PartialOf, Before
  <2>10. \A choices : TriesOf(G, choices)  BY <2>3 DEF TriesOf
  <2> QED  BY <1>0, <1>3, <1>4, <1>5, <1>6, <2>5, <2>6, <2>8, <2>9, <2>10, StayDone
<1>8. CASE ~ (SecondPass /\ F.stage = "narrow")
  <2> DEFINE G == [F EXCEPT !.stage = "install"]
  <2>1. /\ G \in FrameType /\ G.pos = F.pos /\ G.rank = F.rank /\ G.rep_depth = F.rep_depth
        /\ G.stage = "install" /\ G.next = F.next
    BY <1>1 DEF FrameType, Stages
  <2>2. stack' = Append(Front(stack), G) /\ BIT_ARRAY_BUFFER' = BIT_ARRAY_BUFFER
    BY <1>8 DEF PartialNarrowed, Running
  <2> HIDE DEF G
  <2>3. StayStep(G) /\ SizesSmall'
    BY <1>0, <1>4, <2>1, <2>2, StayUnchanged
  <2>4. BIT_ARRAY_BUFFER' \in [0 .. Size - 1 -> SUBSET Bits]  BY <1>2, <2>2 DEF Fields
  <2>5. \A T, b : NarrowingOf(G, T, b)  BY <2>1 DEF NarrowingOf
  <2>6. PartialOf(G)  BY <1>0, <1>2, <2>1 DEF PartialOf, Before
  <2>7. \A choices : TriesOf(G, choices)  BY <2>1 DEF TriesOf
  <2> QED  BY <1>0, <1>3, <1>4, <1>5, <1>6, <2>3, <2>4, <2>5, <2>6, <2>7, StayDone
<1> QED  BY <1>7, <1>8

(* The next entry of the partial map is of a vertex without a value.         *)
LEMMA NextEntry ==
  ASSUME HInv, status = "partial", F.stage = "enter", Remaining # {},
         NEW x, x = Min(Remaining)
  PROVE  /\ x \in DOMAIN args.partial_map /\ x \in Nat /\ depth < n1
         /\ INVERSE_ORDER[x] \in Left
         /\ Assigned = { INVERSE_ORDER[u] : u \in { u \in DOMAIN args.partial_map : u < x } }
<1>0. Active  BY DEF Active
<1>1. /\ n1 \in Nat /\ V1 \subseteq Nat /\ F \in FrameType /\ depth \in Nat /\ depth <= n1
      /\ IsFiniteSet(Assigned) /\ Assigned \subseteq V1
  BY <1>0, ActiveFacts
<1>2. PartialOf(F) /\ MapRight /\ args \in Arguments
  BY <1>0 DEF HInv, ActiveRight, TopRight, ArgsRight
<1>3. Vertices(args.digraph1) = V1  BY DEF Vertices, V1, n1
<1>4. DOMAIN args.partial_map \subseteq V1  BY <1>2, <1>3, ArgumentsAssumption
<1>5. \A u \in V1 : INVERSE_ORDER[u] \in V1 /\ args.order[INVERSE_ORDER[u]] = u
  BY <1>2, <1>3, InverseOrderFacts DEF INVERSE_ORDER
<1>6. x \in Remaining /\ \A u \in Remaining : x <= u
  <2>1. Remaining \in SUBSET Nat  BY <1>1, <1>4 DEF Remaining, Above
  <2> QED  BY <2>1, MinIsLeast
<1>7. x \in DOMAIN args.partial_map /\ x \in Nat /\ x > F.next
  BY <1>1, <1>4, <1>6 DEF Remaining, Above
<1>8. F.next \in Int  BY <1>1 DEF FrameType
<1>9. Before(F) = { u \in DOMAIN args.partial_map : u < x }
  <2>1. ASSUME NEW u \in DOMAIN args.partial_map
        PROVE  (u < F.next \/ u = F.next) <=> u < x
    <3>0. u \in Nat  BY <1>1, <1>4
    <3>1. u \in Int /\ x \in Int  BY <1>7, <3>0
    <3>2. u > F.next => x <= u  BY <1>6 DEF Remaining, Above
    <3>3. x > F.next  BY <1>7
    <3> QED  BY <1>8, <3>1, <3>2, <3>3
  <2>2. F.stage = "enter"  OBVIOUS
  <2>3. ASSUME NEW u  PROVE u \in Before(F) <=> u \in DOMAIN args.partial_map /\ u < x
    <3>1. u \in Before(F) <=> /\ u \in DOMAIN args.partial_map
                              /\ u < F.next \/ (F.stage = "enter" /\ u = F.next)
      BY Zenon DEF Before
    <3> QED  BY <2>1, <2>2, <3>1, Zenon
  <2> QED  BY <2>3
<1>10. INVERSE_ORDER[x] \in Left
  <2>1. INVERSE_ORDER[x] \in V1  BY <1>4, <1>5, <1>7
  <2>2. ASSUME INVERSE_ORDER[x] \in Assigned  PROVE FALSE
    <3>1. PICK u \in Before(F) : INVERSE_ORDER[x] = INVERSE_ORDER[u]
      BY <1>2, <2>2 DEF PartialOf
    <3>2. u = x  BY <1>4, <1>5, <1>7, <1>9, <3>1
    <3> QED  BY <1>7, <1>9, <3>1, <3>2
  <2> QED  BY <2>1, <2>2 DEF Left
<1>11. depth < n1
  <2>1. ASSUME depth = n1  PROVE FALSE
    <3>1. IsFiniteSet(V1) /\ Cardinality(V1) = n1  BY <1>1, IntervalFinite DEF V1
    <3>2. Cardinality(Assigned) = Cardinality(V1)  BY <1>2, <2>1, <3>1 DEF MapRight
    <3>3. Assigned = V1  BY <1>1, <3>1, <3>2, FS_Subset
    <3> QED  BY <1>10, <3>3 DEF Left
  <2> QED  BY <1>1, <2>1
<1> QED  BY <1>2, <1>7, <1>9, <1>10, <1>11 DEF PartialOf

LEMMA PartialEntryStep ==
  ASSUME CP!IInv, HInv, PartialEntry
  PROVE  HInv'
<1> DEFINE x == Min(Remaining)
           stage == IF depth > 0 THEN "narrow" ELSE "install"
           G == [F EXCEPT !.next = x, !.at = -1, !.stage = stage]
           b == Among(CopiedUndefined, Neighbours1(F.pos), n1, BIT_ARRAY_BUFFER[0])
<1>0. /\ Active /\ status = "partial" /\ F.stage = "enter" /\ Remaining # {}
      /\ UNCHANGED << conditions, depth, open, MAP, VALS, args,
                      IMAGE_RESTRICT, STAB_GENS, REPS, status, calls >>
      /\ stack' = Append(Front(stack), G)
      /\ IF depth = 0 THEN UNCHANGED << MAP_UNDEFINED, BIT_ARRAY_BUFFER >>
         ELSE /\ MAP_UNDEFINED' = [MAP_UNDEFINED EXCEPT ![depth] = CopiedUndefined]
              /\ BIT_ARRAY_BUFFER' = IF Undirected(args)
                                     THEN [BIT_ARRAY_BUFFER EXCEPT ![0] = b]
                                     ELSE BIT_ARRAY_BUFFER
  BY DEF PartialEntry, InPartial, Active, Running
<1>1. /\ F \in FrameType /\ n1 \in 1 .. Size - 1 /\ Size \in Nat /\ depth \in Nat /\ n1 \in Nat
      /\ V1 \subseteq Nat
  BY <1>0, ActiveFacts
<1>2. /\ Fields /\ PartialOf(F) /\ NarrowingOf(F, Pushed, Buffer) /\ MapRight
  BY <1>0 DEF HInv, ActiveRight, TopRight
<1>3. /\ x \in DOMAIN args.partial_map /\ x \in Nat /\ depth < n1
      /\ Assigned = { INVERSE_ORDER[u] : u \in { u \in DOMAIN args.partial_map : u < x } }
  BY <1>0, NextEntry
<1>4. /\ G \in FrameType /\ G.pos = F.pos /\ G.rank = F.rank /\ G.rep_depth = F.rep_depth
      /\ G.stage = stage /\ G.next = x /\ G.at = -1
  <2>1. stage \in Stages /\ x \in Int /\ -1 \in Int  BY <1>3 DEF Stages
  <2>2. G = [F EXCEPT !.next = x, !.at = -1, !.stage = stage]  BY DEF G
  <2>3. F \in FrameType  BY <1>1
  <2> HIDE DEF G, stage, x
  <2>4. EnteredAt(G, F, stage, -1, x)  BY <2>1, <2>2, <2>3, FrameEntered, Zenon
  <2> QED  BY <2>4 DEF EnteredAt
<1> HIDE DEF G, x, stage
<1>5. Active' /\ status' = "partial"  BY <1>0 DEF Active
<1>6. depth \in 0 .. Size - 1 /\ 0 \in 0 .. Size - 1  BY <1>1, <1>3
<1>7. depth > 0 =>
        /\ CopiedUndefined \in SUBSET Bits
        /\ SetBits(CopiedUndefined, n1) = Left
        /\ b \in SUBSET Bits /\ SetBits(b, n1) = Left \cap Neighbours1(F.pos)
  <2>1. BIT_ARRAY_BUFFER[0] \in SUBSET Bits  BY <1>2, <1>6 DEF Fields
  <2> QED  BY <1>0, <2>1, Copied
<1> HIDE DEF b
<1>8. /\ MAP_UNDEFINED' \in [0 .. Size - 1 -> SUBSET Bits]
      /\ BIT_ARRAY_BUFFER' \in [0 .. Size - 1 -> SUBSET Bits]
      /\ depth > 0 => /\ MAP_UNDEFINED'[depth] = CopiedUndefined
                      /\ Undirected(args) => BIT_ARRAY_BUFFER'[0] = b
      /\ \A d \in 0 .. depth - 1 : MAP_UNDEFINED'[d] = MAP_UNDEFINED[d]
  <2>1. CASE depth = 0  BY <1>0, <1>1, <1>2, <2>1 DEF Fields
  <2>2. CASE depth > 0
    <3>1. /\ MAP_UNDEFINED' = [MAP_UNDEFINED EXCEPT ![depth] = CopiedUndefined]
          /\ Undirected(args) => BIT_ARRAY_BUFFER' = [BIT_ARRAY_BUFFER EXCEPT ![0] = b]
          /\ ~ Undirected(args) => BIT_ARRAY_BUFFER' = BIT_ARRAY_BUFFER
      BY <1>0, <2>2
    <3>2. /\ MAP_UNDEFINED \in [0 .. Size - 1 -> SUBSET Bits]
          /\ BIT_ARRAY_BUFFER \in [0 .. Size - 1 -> SUBSET Bits]
      BY <1>2 DEF Fields
    <3>3. CopiedUndefined \in SUBSET Bits /\ b \in SUBSET Bits  BY <1>7, <2>2
    <3>4. MAP_UNDEFINED' \in [0 .. Size - 1 -> SUBSET Bits]  BY <3>1, <3>2, <3>3
    <3>5. BIT_ARRAY_BUFFER' \in [0 .. Size - 1 -> SUBSET Bits]  BY <3>1, <3>2, <3>3
    <3>6. MAP_UNDEFINED'[depth] = CopiedUndefined  BY <1>6, <3>1, <3>2
    <3>7. Undirected(args) => BIT_ARRAY_BUFFER'[0] = b  BY <1>6, <3>1, <3>2
    <3>8. \A d \in 0 .. depth - 1 : MAP_UNDEFINED'[d] = MAP_UNDEFINED[d]
      <4>1. \A d \in 0 .. depth - 1 : d \in 0 .. Size - 1 /\ d # depth  BY <1>1, <1>6
      <4> QED  BY <3>1, <3>2, <4>1
    <3> QED  BY <3>4, <3>5, <3>6, <3>7, <3>8
  <2> QED  BY <1>1, <2>1, <2>2
<1>9. StayStep(G) /\ SizesSmall'
  <2>1. status # "search"  BY <1>0
  <2> QED  BY <1>0, <1>4, <1>5, <1>8, <2>1, StayUnchanged
<1>10. SetBits(MAP_UNDEFINED'[depth], n1) = Left
  <2>1. CASE depth = 0  BY <1>0, <1>2, <2>1 DEF MapRight, Left
  <2>2. CASE depth > 0  BY <1>7, <1>8, <2>2
  <2> QED  BY <1>1, <2>1, <2>2
<1>11. NarrowingOf(G, Row(conditions', depth), BIT_ARRAY_BUFFER'[0])
  <2>1. CASE depth = 0  BY <1>4, <2>1 DEF NarrowingOf, stage
  <2>2. CASE depth > 0
    <3>1. depth \in 1 .. n1 - 1 /\ -1 \in -1 .. n1 - 1  BY <1>1, <1>3, <2>2
    <3>2. Row(conditions', depth) = {}
      BY <1>0, <1>2, <3>1 DEF NarrowingOf, Pushed
    <3>3. \A v \in Left : ~ (v <= -1)  BY <1>1 DEF Left
    <3>4. G.stage = "narrow"  BY <1>4, <2>2 DEF stage
    <3> QED  BY <1>4, <1>7, <1>8, <2>2, <3>1, <3>2, <3>3, <3>4 DEF NarrowingOf
  <2> QED  BY <1>1, <2>1, <2>2
<1>12. PartialOf(G)
  <2>1. G.stage \in { "narrow", "install" }  BY <1>4 DEF stage
  <2>2. Before(G) = { u \in DOMAIN args.partial_map : u < x }
    <3>1. G.next = x /\ G.stage # "enter"  BY <1>4, <2>1
    <3>2. ASSUME NEW u
          PROVE  u \in Before(G) <=> u \in DOMAIN args.partial_map /\ u < x
      <4>1. u \in Before(G) <=> /\ u \in DOMAIN args.partial_map
                                /\ u < G.next \/ (G.stage = "enter" /\ u = G.next)
        BY Zenon DEF Before
      <4> QED  BY <3>1, <4>1, Zenon
    <3> QED  BY <3>2
  <2>3. x # -1  BY <1>3
  <2> QED  BY <1>3, <1>4, <2>1, <2>2, <2>3 DEF PartialOf
<1>13. \A choices : TriesOf(G, choices)
  <2>1. G.stage \in { "narrow", "install" }  BY <1>4 DEF stage
  <2> QED  BY <2>1 DEF TriesOf
<1> QED  BY <1>0, <1>3, <1>5, <1>8, <1>9, <1>10, <1>11, <1>12, <1>13, StayDone

LEMMA PartialDoneStep ==
  ASSUME HInv, PartialDone
  PROVE  HInv'
<1> DEFINE G == Frame(F.pos, F.rep_depth, F.has_trivial_stab, F.rank)
<1>0. /\ Active /\ status = "partial" /\ F.stage = "enter" /\ status' = "search"
      /\ UNCHANGED << conditions, depth, open, MAP, VALS, args, MAP_UNDEFINED,
                      BIT_ARRAY_BUFFER, IMAGE_RESTRICT, STAB_GENS, REPS, calls >>
      /\ stack' = Append(Front(stack), G)
  BY DEF PartialDone, InPartial, Active, Running, globals
<1>1. F \in FrameType  BY <1>0, ActiveFacts
<1>2. /\ Fields /\ NarrowingOf(F, Pushed, Buffer) /\ MapRight
  BY <1>0 DEF HInv, ActiveRight, TopRight
<1>3. /\ G \in FrameType /\ G.pos = F.pos /\ G.rank = F.rank /\ G.rep_depth = F.rep_depth
      /\ G.stage = "enter" /\ G.next = -1 /\ G.at = -1 /\ G.min = UNDEFINED
  <2>1. -1 \in Int /\ UNDEFINED \in Int /\ "enter" \in Stages  BY DEF UNDEFINED, Stages
  <2> HIDE DEF G
  <2>2. G = [ pos |-> F.pos, rep_depth |-> F.rep_depth, has_trivial_stab |-> F.has_trivial_stab,
              rank |-> F.rank, stage |-> "enter", at |-> -1, next |-> -1, min |-> UNDEFINED ]
    BY DEF G, Frame
  <2> QED  BY <1>1, <2>1, <2>2 DEF FrameType
<1> HIDE DEF G
<1>4. Active'  BY <1>0 DEF Active
<1>5. StayStep(G) /\ SizesSmall'
  BY <1>0, <1>3, <1>4, StayUnchanged
<1>6. /\ MAP_UNDEFINED' \in [0 .. Size - 1 -> SUBSET Bits]
      /\ BIT_ARRAY_BUFFER' \in [0 .. Size - 1 -> SUBSET Bits]
  BY <1>0, <1>2 DEF Fields
<1>7. depth = 0 => SetBits(MAP_UNDEFINED'[depth], n1) = Left
  BY <1>0, <1>2 DEF MapRight, Left
<1>8. \A b : NarrowingOf(G, Row(conditions', depth), b)
  BY <1>0, <1>2, <1>3 DEF NarrowingOf, Pushed
<1>9. \A T : PickOf(G, T)  BY <1>3 DEF PickOf
<1>10. \A choices : TriesOf(G, choices)  BY <1>3 DEF TriesOf
<1> QED  BY <1>0, <1>3, <1>5, <1>6, <1>7, <1>8, <1>9, <1>10, StayDone

------------------------------------------------------------------------------
(* A vertex gets a value, and the recursion goes one deeper.                 *)
LEMMA AssignEffect ==
  ASSUME HInv, Active, depth < n1, NEW v \in Left, NEW w \in V2,
         SetBits(MAP_UNDEFINED[depth], n1) = Left,
         MAP' = [MAP EXCEPT ![v] = w],
         VALS' = set_bit_array(VALS, w, TRUE),
         MAP_UNDEFINED' = [MAP_UNDEFINED EXCEPT ![depth] = set_bit_array(@, v, FALSE)],
         args' = args
  PROVE  /\ n1' = n1 /\ n2' = n2 /\ V1' = V1 /\ V2' = V2
         /\ Assigned' = Assigned \cup {v} /\ Cardinality(Assigned') = depth + 1
         /\ MAP' \in [0 .. Size - 1 -> 0 .. Size - 1 \cup { UNDEFINED }]
         /\ MAP'[v] = w /\ \A u \in Assigned : MAP'[u] = MAP[u]
         /\ VALS' \in SUBSET Bits
         /\ SetBits(VALS', n2) = { MAP'[u] : u \in Assigned' }
         /\ SetBits(VALS', n2) = ValuesAt(Height) \cup {w}
         /\ MAP_UNDEFINED' \in [0 .. Size - 1 -> SUBSET Bits]
         /\ SetBits(MAP_UNDEFINED'[depth], n1) = V1 \ Assigned'
         /\ \A d \in 0 .. depth - 1 : MAP_UNDEFINED'[d] = MAP_UNDEFINED[d]
<1>1. /\ n1 \in 1 .. Size - 1 /\ n2 \in 1 .. Size - 1 /\ n1 \in Nat /\ n2 \in Nat
      /\ Size \in Nat /\ Size < UNDEFINED
      /\ Assigned \subseteq V1 /\ IsFiniteSet(Assigned)
      /\ V1 \subseteq 0 .. Size - 1 /\ V2 \subseteq 0 .. Size - 1 /\ V2 \subseteq Bits
      /\ depth \in Nat /\ depth <= n1 /\ AssignedAt(Height) = Assigned
  BY ActiveFacts
<1>2. Fields /\ MapRight  BY DEF HInv, ActiveRight
<1>3. n1' = n1 /\ n2' = n2 /\ V1' = V1 /\ V2' = V2  BY DEF n1, n2, V1, V2
<1>4. v \in V1 /\ v \notin Assigned /\ v \in 0 .. Size - 1 /\ w \in 0 .. Size - 1 /\ w # UNDEFINED
  <2>1. v \in V1 /\ v \notin Assigned  BY DEF Left
  <2>2. v \in 0 .. Size - 1 /\ w \in 0 .. Size - 1  BY <1>1, <2>1
  <2>3. UNDEFINED \in Nat  BY DEF UNDEFINED
  <2> QED  BY <1>1, <2>1, <2>2, <2>3
<1>5. /\ MAP' \in [0 .. Size - 1 -> 0 .. Size - 1 \cup { UNDEFINED }]
      /\ MAP'[v] = w /\ \A u \in 0 .. Size - 1 : u # v => MAP'[u] = MAP[u]
  BY <1>2, <1>4 DEF Fields
<1>6. \A u \in Assigned : MAP'[u] = MAP[u]  BY <1>1, <1>4, <1>5
<1>7. Assigned' = Assigned \cup {v}
  <2>1. Assigned = { u \in V1 : MAP[u] # UNDEFINED }  BY DEF Assigned, V1
  <2>2. Assigned' = { u \in V1 : MAP'[u] # UNDEFINED }  BY <1>3 DEF Assigned, V1
  <2> QED  BY <1>1, <1>4, <1>5, <2>1, <2>2
<1>8. Cardinality(Assigned') = depth + 1
  <2>1. Cardinality(Assigned \cup {v}) = Cardinality(Assigned) + 1  BY <1>1, <1>4, OneMore
  <2> QED  BY <1>2, <1>7, <2>1 DEF MapRight
<1>9. VALS' \in SUBSET Bits
  <2>1. VALS' = VALS \cup {w}  BY DEF set_bit_array
  <2>2. w \in Bits  BY <1>1
  <2> QED  BY <1>2, <2>1, <2>2 DEF Fields
<1>10. SetBits(VALS', n2) = ValuesAt(Height) \cup {w}
  <2>1. SetBits(set_bit_array(VALS, w, TRUE), n2) = SetBits(VALS, n2) \cup {w}
    <3>1. w \in 0 .. n2 - 1 /\ n2 \in Nat  BY <1>1 DEF V2
    <3> QED  BY <3>1, SetBitMeant
  <2> QED  BY <1>2, <2>1 DEF MapRight
<1>11. SetBits(VALS', n2) = { MAP'[u] : u \in Assigned' }
  <2>1. ValuesAt(Height) = { MAP[u] : u \in Assigned }  BY <1>1 DEF ValuesAt
  <2>2. { MAP'[u] : u \in Assigned' } = { MAP'[u] : u \in Assigned } \cup {w}  BY <1>5, <1>7
  <2>3. { MAP'[u] : u \in Assigned } = { MAP[u] : u \in Assigned }  BY <1>6
  <2> QED  BY <1>10, <2>1, <2>2, <2>3
<1>12. depth \in 0 .. Size - 1  BY <1>1
<1>13. MAP_UNDEFINED \in [0 .. Size - 1 -> SUBSET Bits]  BY <1>2 DEF Fields
<1>14. MAP_UNDEFINED' \in [0 .. Size - 1 -> SUBSET Bits]
       /\ MAP_UNDEFINED'[depth] = set_bit_array(MAP_UNDEFINED[depth], v, FALSE)
  <2>1. set_bit_array(MAP_UNDEFINED[depth], v, FALSE) \in SUBSET Bits
    BY <1>12, <1>13 DEF set_bit_array
  <2> QED  BY <1>12, <1>13, <2>1
<1>15. SetBits(MAP_UNDEFINED'[depth], n1) = V1 \ Assigned'
  <2>1. SetBits(set_bit_array(MAP_UNDEFINED[depth], v, FALSE), n1)
          = SetBits(MAP_UNDEFINED[depth], n1) \ {v}
    <3>1. v \in 0 .. n1 - 1 /\ n1 \in Nat  BY <1>1, <1>4 DEF V1
    <3> QED  BY <3>1, SetBitMeant
  <2> QED  BY <1>7, <1>14, <2>1 DEF Left
<1>16. \A d \in 0 .. depth - 1 : MAP_UNDEFINED'[d] = MAP_UNDEFINED[d]
  <2>1. \A d \in 0 .. depth - 1 : d \in 0 .. Size - 1 /\ d # depth  BY <1>1, <1>12
  <2> QED  BY <1>13, <2>1
<1> QED  BY <1>3, <1>5, <1>6, <1>7, <1>8, <1>9, <1>10, <1>11, <1>14, <1>15, <1>16

(* The values there are make a finite set.                                   *)
LEMMA ValuesFinite ==
  ASSUME HInv, Active
  PROVE  /\ ValuesAt(Height) \subseteq V2 /\ IsFiniteSet(ValuesAt(Height))
         /\ F.rank = Cardinality(ValuesAt(Height))
<1>1. n2 \in Nat /\ AssignedAt(Height) = Assigned /\ Height \in 1 .. Height /\ F = stack[Height]
  BY ActiveFacts
<1>2. \A v \in Assigned : MAP[v] \in V2  BY DEF HInv, ActiveRight, MapRight
<1>3. ValuesAt(Height) \subseteq V2  BY <1>1, <1>2 DEF ValuesAt
<1>4. IsFiniteSet(V2)  BY <1>1, IntervalFinite DEF V2
<1>5. IsFiniteSet(ValuesAt(Height))  BY <1>3, <1>4, FS_Subset
<1>6. CallRight(Height)  BY <1>1 DEF HInv, ActiveRight, CallsRight
<1> QED  BY <1>1, <1>3, <1>5, <1>6 DEF CallRight

(* No row above the running call is in use.                                  *)
LEMMA RowAboveEmpty ==
  ASSUME CP!IInv, HInv, Active, depth + 1 < n1
  PROVE  Row(conditions, depth + 1) = {}
<1>1. n1 \in Nat /\ depth \in Nat  BY ActiveFacts
<1>2. open /\ conditions.nr1 = n1  BY DEF HInv, ActiveRight, ArgsRight
<1>3. depth + 1 \in 1 .. conditions.nr1 - 1 /\ depth + 1 > depth  BY <1>1, <1>2
<1> QED  BY <1>2, <1>3, ObjectFacts

(* A call is made: the caller keeps its frame, but for the value it tries.   *)
CallStep(G, H, v, w) ==
  /\ stack' = Append(Append(Front(stack), G), H)
  /\ G \in FrameType /\ H \in FrameType
  /\ G.pos = F.pos /\ G.rank = F.rank /\ G.rep_depth = F.rep_depth
  /\ G.stage = F.stage /\ G.next = F.next /\ G.at = w
  /\ H.pos = v /\ H.rep_depth \in { F.rep_depth, F.rep_depth + 1 }
  /\ H.stage = "enter" /\ H.at = -1 /\ H.next = -1 /\ H.min = UNDEFINED
  /\ F.stage = "new" => H.rank = F.rank + 1
  /\ F.stage = "old" => H.rank = F.rank
  /\ MAP' = [MAP EXCEPT ![v] = w]
  /\ VALS' = set_bit_array(VALS, w, TRUE)
  /\ MAP_UNDEFINED' = [MAP_UNDEFINED EXCEPT ![depth] = set_bit_array(@, v, FALSE)]
  /\ depth' = depth + 1
  /\ REPS' \in [0 .. Size - 1 -> SUBSET Bits] /\ DOMAIN STAB_GENS' = 0 .. Size - 1
  /\ UNCHANGED << conditions, open, BIT_ARRAY_BUFFER, IMAGE_RESTRICT, args, status, calls >>

LEMMA CallFrames ==
  ASSUME HInv, status = "search", depth < n1, F.stage \in { "new", "old" },
         NEW G, NEW H, NEW w \in V2, CallStep(G, H, F.next, w)
  PROVE  /\ stack' \in Seq(FrameType) /\ Height' = Height + 1
         /\ F' = H /\ stack'[Height + 1] = H /\ stack'[Height] = G
         /\ \A k \in 1 .. Height - 1 : stack'[k] = stack[k]
         /\ InPlace' = InPlace
         /\ \A k \in 1 .. Height : /\ AssignedAt(k)' = AssignedAt(k)
                                   /\ ValuesAt(k)' = ValuesAt(k)
                                   /\ FrameDepth(k)' = FrameDepth(k)
         /\ AssignedAt(Height)' = Assigned'
         /\ FrameDepth(Height)' = depth + 1
         /\ ValuesAt(Height)' = SetBits(VALS', n2)
<1>0. Active /\ F.next \in Left
  <2>1. Active  BY DEF Active
  <2> QED  BY <2>1 DEF HInv, ActiveRight, TopRight, TriesOf
<1>1. /\ Height \in Nat \ {0} /\ depth \in Nat
      /\ stack \in Seq(FrameType) /\ Len(stack) >= 1
  BY <1>0, ActiveFacts DEF HInv, ActiveRight, FramesRight, Height
<1>2. LET t == Append(Append(Front(stack), G), H)
      IN  /\ t \in Seq(FrameType) /\ Len(t) = Len(stack) + 1
          /\ \A k \in 1 .. Len(stack) - 1 : t[k] = stack[k]
          /\ t[Len(stack)] = G
          /\ t[Len(stack) + 1] = H
          /\ Last(t) = H
          /\ Last(stack) = stack[Len(stack)]
  <2>1. G \in FrameType /\ H \in FrameType  BY DEF CallStep
  <2> QED  BY <1>1, <2>1, StackCall
<1>3. stack' = Append(Append(Front(stack), G), H)  BY DEF CallStep
<1>4. /\ stack' \in Seq(FrameType) /\ Height' = Height + 1
      /\ F' = H /\ stack'[Height + 1] = H /\ stack'[Height] = G
      /\ \A k \in 1 .. Height - 1 : stack'[k] = stack[k]
  BY <1>2, <1>3 DEF Height, F
<1>5. /\ MAP' = [MAP EXCEPT ![F.next] = w]
      /\ VALS' = set_bit_array(VALS, w, TRUE)
      /\ MAP_UNDEFINED' = [MAP_UNDEFINED EXCEPT ![depth] = set_bit_array(@, F.next, FALSE)]
      /\ args' = args /\ depth' = depth + 1 /\ G.next = F.next
  BY DEF CallStep
<1>6. SetBits(MAP_UNDEFINED[depth], n1) = Left
  BY DEF HInv, ActiveRight, MapRight, Left, Active
<1>7. /\ Assigned' = Assigned \cup {F.next}
      /\ \A u \in Assigned : MAP'[u] = MAP[u]
      /\ SetBits(VALS', n2) = { MAP'[u] : u \in Assigned' }
  BY <1>0, <1>5, <1>6, AssignEffect
<1>8. F.next \notin Assigned  BY <1>0 DEF Left
<1>9. ASSUME NEW k \in 1 .. Height
      PROVE  /\ AssignedAt(k)' = AssignedAt(k)
             /\ ValuesAt(k)' = ValuesAt(k)
             /\ FrameDepth(k)' = FrameDepth(k)
  <2>1. AssignedAt(k)' = AssignedAt(k)
    <3>1. Tried(k)' = { stack'[j].next : j \in k .. Height }
      <4>1. Height' - 1 = Height  BY <1>1, <1>4
      <4> QED  BY <4>1 DEF Tried
    <3>2. \A j \in k .. Height : j = Height \/ j \in k .. Height - 1
      BY <1>1
    <3>3. \A j \in k .. Height - 1 : stack'[j] = stack[j]
      <4>1. \A j \in k .. Height - 1 : j \in 1 .. Height - 1  BY <1>1
      <4> QED  BY <1>4, <4>1
    <3>4. Height \in k .. Height /\ \A j \in k .. Height - 1 : j \in k .. Height
      BY <1>1
    <3>5. Tried(k)' = Tried(k) \cup {F.next}
      BY <1>4, <1>5, <3>1, <3>2, <3>3, <3>4 DEF Tried
    <3> QED  BY <1>7, <1>8, <3>5 DEF AssignedAt
  <2>2. FrameDepth(k)' = FrameDepth(k)  BY <1>1, <1>4, <1>5 DEF FrameDepth
  <2>3. AssignedAt(k) \subseteq Assigned  BY DEF AssignedAt
  <2>4. ValuesAt(k)' = ValuesAt(k)  BY <1>7, <2>1, <2>3 DEF ValuesAt
  <2> QED  BY <2>1, <2>2, <2>4
<1>10. Tried(Height)' = {}
  <2>1. Height' .. Height' - 1 = {}  BY <1>1, <1>4
  <2> QED  BY <2>1 DEF Tried
<1>11. AssignedAt(Height)' = Assigned'  BY <1>10 DEF AssignedAt
<1>12. FrameDepth(Height)' = depth + 1  BY <1>1, <1>4, <1>5 DEF FrameDepth
<1>13. ValuesAt(Height)' = SetBits(VALS', n2)  BY <1>7, <1>11 DEF ValuesAt
<1>14. InPlace' = InPlace  BY <1>5 DEF InPlace, Undirected
<1> QED  BY <1>4, <1>9, <1>11, <1>12, <1>13, <1>14

LEMMA CallCalls ==
  ASSUME CP!IInv, HInv, status = "search", depth < n1, F.stage \in { "new", "old" },
         NEW G, NEW H, NEW w \in V2, w \in SetBits(ToChoose(Height), n2),
         CallStep(G, H, F.next, w)
  PROVE  CallsRight'
<1>0. Active /\ F.next \in Left /\ TriesOf(F, ToChoose(Height))
  <2>1. Active  BY DEF Active
  <2> QED  BY <2>1 DEF HInv, ActiveRight, TopRight, TriesOf
<1>1. /\ Height \in Nat \ {0} /\ depth \in Nat /\ n1 \in Nat /\ F = stack[Height]
      /\ AssignedAt(Height) = Assigned /\ FrameDepth(Height) = depth
      /\ \A k \in 1 .. Height : FrameDepth(k) \in 0 .. depth
      /\ \A k \in 1 .. Height - 1 : FrameDepth(k) \in 0 .. depth - 1
      /\ F \in FrameType
  BY <1>0, ActiveFacts
<1>2. /\ Height' = Height + 1
      /\ F' = H /\ stack'[Height + 1] = H /\ stack'[Height] = G
      /\ \A k \in 1 .. Height - 1 : stack'[k] = stack[k]
      /\ InPlace' = InPlace
      /\ \A k \in 1 .. Height : /\ AssignedAt(k)' = AssignedAt(k)
                                /\ ValuesAt(k)' = ValuesAt(k)
                                /\ FrameDepth(k)' = FrameDepth(k)
      /\ AssignedAt(Height)' = Assigned'
      /\ FrameDepth(Height)' = depth + 1
      /\ ValuesAt(Height)' = SetBits(VALS', n2)
  BY CallFrames
<1>3. SetBits(MAP_UNDEFINED[depth], n1) = Left
  BY DEF HInv, ActiveRight, MapRight, Left, Active
<1>4. /\ MAP' = [MAP EXCEPT ![F.next] = w]
      /\ VALS' = set_bit_array(VALS, w, TRUE)
      /\ MAP_UNDEFINED' = [MAP_UNDEFINED EXCEPT ![depth] = set_bit_array(@, F.next, FALSE)]
      /\ args' = args /\ depth' = depth + 1 /\ conditions' = conditions
      /\ BIT_ARRAY_BUFFER' = BIT_ARRAY_BUFFER
  BY DEF CallStep
<1>5. /\ n1' = n1 /\ n2' = n2 /\ V1' = V1 /\ V2' = V2
      /\ Assigned' = Assigned \cup {F.next}
      /\ MAP'[F.next] = w /\ \A u \in Assigned : MAP'[u] = MAP[u]
      /\ SetBits(VALS', n2) = ValuesAt(Height) \cup {w}
      /\ SetBits(MAP_UNDEFINED'[depth], n1) = V1 \ Assigned'
      /\ \A d \in 0 .. depth - 1 : MAP_UNDEFINED'[d] = MAP_UNDEFINED[d]
  BY <1>0, <1>3, <1>4, AssignEffect
<1>6. F.next \in V1 /\ F.next \notin Assigned  BY <1>0 DEF Left
<1>7. F.stage = "new" => w \notin ValuesAt(Height)
  BY <1>0 DEF TriesOf
<1>8. F.stage = "old" => w \in ValuesAt(Height) /\ ~ InPlace
  BY <1>0 DEF TriesOf
<1>9. H.rank = Cardinality(ValuesAt(Height) \cup {w})
  <2>1. /\ IsFiniteSet(ValuesAt(Height)) /\ F.rank = Cardinality(ValuesAt(Height))
    BY <1>0, ValuesFinite
  <2>2. CASE F.stage = "new"
    <3>1. Cardinality(ValuesAt(Height) \cup {w}) = Cardinality(ValuesAt(Height)) + 1
      BY <1>7, <2>1, <2>2, OneMore
    <3> QED  BY <2>1, <2>2, <3>1 DEF CallStep
  <2>3. CASE F.stage = "old"
    <3>1. ValuesAt(Height) \cup {w} = ValuesAt(Height)  BY <1>8, <2>3
    <3> QED  BY <2>1, <2>3, <3>1 DEF CallStep
  <2> QED  BY <2>2, <2>3
<1>10. ASSUME NEW k \in 1 .. Height  PROVE CallRight(k)'
  <2>1. CallRight(k)  BY <1>0 DEF HInv, ActiveRight, CallsRight
  <2>2. stack'[k].rep_depth = stack[k].rep_depth /\ stack'[k].rank = stack[k].rank
        /\ stack'[k].pos = stack[k].pos
    <3>1. CASE k = Height  BY <1>1, <1>2, <3>1 DEF CallStep
    <3>2. CASE k # Height
      <4>1. k \in 1 .. Height - 1  BY <1>1, <3>2
      <4> QED  BY <1>2, <4>1
    <3> QED  BY <3>1, <3>2
  <2>3. FrameDepth(k) > 0 => MAP_UNDEFINED'[FrameDepth(k) - 1] = MAP_UNDEFINED[FrameDepth(k) - 1]
    <3>1. FrameDepth(k) > 0 => FrameDepth(k) - 1 \in 0 .. depth - 1  BY <1>1
    <3> QED  BY <1>5, <3>1
  <2>4. FrameDepth(k)' = FrameDepth(k) /\ AssignedAt(k)' = AssignedAt(k)
        /\ ValuesAt(k)' = ValuesAt(k)
    BY <1>2
  <2> QED  BY <1>4, <1>5, <2>1, <2>2, <2>3, <2>4 DEF CallRight
<1>11. CallRight(Height)'
  <2>1. stack'[Height'] = H  BY <1>2
  <2>2. H.rep_depth <= depth + 1
    <3>1. F.rep_depth <= depth
      <4>1. CallRight(Height)  BY <1>0, <1>1 DEF HInv, ActiveRight, CallsRight
      <4> QED  BY <1>1, <4>1 DEF CallRight
    <3>2. F.rep_depth \in Nat  BY <1>1 DEF FrameType
    <3>3. H.rep_depth \in { F.rep_depth, F.rep_depth + 1 }  BY DEF CallStep
    <3> QED  BY <1>1, <3>1, <3>2, <3>3
  <2>3. H.pos = F.next  BY DEF CallStep
  <2>4. (depth + 1) - 1 = depth /\ depth + 1 > 0  BY <1>1
  <2>5. depth + 1 < n1 => Row(conditions', depth + 1) = {}
    BY <1>0, <1>4, RowAboveEmpty
  <2>6. SetBits(MAP_UNDEFINED'[(depth + 1) - 1], n1) = V1 \ Assigned'
    BY <1>5, <2>4, Zenon
  <2> QED  BY <1>2, <1>5, <1>6, <1>9, <2>1, <2>2, <2>3, <2>4, <2>5, <2>6 DEF CallRight
<1>12. ASSUME NEW k \in 1 .. Height - 1  PROVE CallerRight(k)'
  <2>1. CallerRight(k) /\ TriesRight(k)
    BY <1>0 DEF HInv, ActiveRight, CallsRight, CallerRight
  <2>2. k \in 1 .. Height /\ k + 1 \in 1 .. Height  BY <1>1
  <2>3. stack'[k] = stack[k] /\ FrameDepth(k)' = FrameDepth(k) /\ AssignedAt(k)' = AssignedAt(k)
        /\ ValuesAt(k)' = ValuesAt(k) /\ AssignedAt(k + 1)' = AssignedAt(k + 1)
    BY <1>2, <2>2
  <2>4. ToChoose(k)' = ToChoose(k)  BY <1>2, <1>4, <1>5, <2>3 DEF ToChoose
  <2>5. stack[k].next \in Assigned  BY <2>1 DEF CallerRight, AssignedAt
  <2>6. MAP'[stack[k].next] = MAP[stack[k].next]  BY <1>5, <2>5
  <2>7. TriesRight(k)'  BY <1>2, <1>5, <2>1, <2>3, <2>4 DEF TriesRight
  <2> QED  BY <2>1, <2>3, <2>6, <2>7 DEF CallerRight
<1>13. ASSUME NEW k, k = Height  PROVE CallerRight(k)'
  <2>1. /\ stack'[k] = G /\ FrameDepth(k)' = depth /\ AssignedAt(k)' = Assigned
        /\ ValuesAt(k)' = ValuesAt(Height) /\ AssignedAt(k + 1)' = Assigned'
    <3>1. k \in 1 .. Height  BY <1>1, <1>13
    <3>2. AssignedAt(k + 1)' = AssignedAt(Height)'  BY <1>2, <1>13
    <3> QED  BY <1>1, <1>2, <1>13, <3>1, <3>2
  <2>2. G.stage = F.stage /\ G.next = F.next /\ G.at = w  BY DEF CallStep
  <2>3. ToChoose(k)' = ToChoose(Height)
    BY <1>1, <1>2, <1>4, <1>5, <2>1, <2>2 DEF ToChoose
  <2>4. TriesRight(k)'
    BY <1>0, <1>2, <1>5, <1>6, <2>1, <2>2, <2>3 DEF TriesRight, TriesOf
  <2> QED  BY <1>5, <1>7, <1>8, <2>1, <2>2, <2>4 DEF CallerRight
<1>14. /\ \A k \in 1 .. Height' : k \in 1 .. Height \/ k = Height'
       /\ \A k \in 1 .. Height' - 1 : k \in 1 .. Height - 1 \/ k = Height
  BY <1>1, <1>2
<1>15. \A k \in 1 .. Height' : CallRight(k)'
  BY <1>10, <1>11, <1>14
<1> QED  BY <1>12, <1>13, <1>14, <1>15 DEF CallsRight

LEMMA CallDone ==
  ASSUME CP!IInv, HInv, status = "search", depth < n1, F.stage \in { "new", "old" },
         NEW G, NEW H, NEW w \in V2, w \in SetBits(ToChoose(Height), n2),
         CallStep(G, H, F.next, w)
  PROVE  HInv'
<1>0. Active /\ F.next \in Left
  <2>1. Active  BY DEF Active
  <2> QED  BY <2>1 DEF HInv, ActiveRight, TopRight, TriesOf
<1>1. /\ Height \in Nat \ {0} /\ depth \in Nat /\ n1 \in 1 .. Size - 1 /\ Size \in Nat
      /\ Height - 1 <= depth
  BY <1>0, ActiveFacts
<1>2. /\ stack' \in Seq(FrameType) /\ Height' = Height + 1 /\ F' = H
      /\ ValuesAt(Height)' = SetBits(VALS', n2)
  BY CallFrames
<1>3. SetBits(MAP_UNDEFINED[depth], n1) = Left
  BY DEF HInv, ActiveRight, MapRight, Left, Active
<1>4. /\ MAP' = [MAP EXCEPT ![F.next] = w]
      /\ VALS' = set_bit_array(VALS, w, TRUE)
      /\ MAP_UNDEFINED' = [MAP_UNDEFINED EXCEPT ![depth] = set_bit_array(@, F.next, FALSE)]
      /\ args' = args /\ depth' = depth + 1 /\ status' = "search"
      /\ UNCHANGED << conditions, open, BIT_ARRAY_BUFFER, IMAGE_RESTRICT, status, calls >>
      /\ REPS' \in [0 .. Size - 1 -> SUBSET Bits] /\ DOMAIN STAB_GENS' = 0 .. Size - 1
      /\ H.stage = "enter" /\ H.at = -1 /\ H.next = -1 /\ H.min = UNDEFINED
  BY DEF CallStep
<1>5. /\ n1' = n1 /\ n2' = n2 /\ V1' = V1 /\ V2' = V2
      /\ Assigned' = Assigned \cup {F.next} /\ Cardinality(Assigned') = depth + 1
      /\ MAP' \in [0 .. Size - 1 -> 0 .. Size - 1 \cup { UNDEFINED }]
      /\ MAP'[F.next] = w /\ \A u \in Assigned : MAP'[u] = MAP[u]
      /\ VALS' \in SUBSET Bits
      /\ MAP_UNDEFINED' \in [0 .. Size - 1 -> SUBSET Bits]
  BY <1>0, <1>3, <1>4, AssignEffect
<1>6. Active'  BY <1>4 DEF Active
<1>7. SizesSmall'  BY <1>4 DEF HInv, SizesSmall
<1>8. Fields'
  <2>1. stack' # << >>  BY <1>1, <1>2 DEF Height
  <2>2. depth' \in 0 .. Size - 1  BY <1>1, <1>4
  <2>3. Fields  BY DEF HInv
  <2> QED  BY <1>4, <1>5, <1>6, <2>1, <2>2, <2>3 DEF Fields
<1>9. ArgsRight'
  BY <1>0, <1>4, <1>5 DEF HInv, ActiveRight, ArgsRight
<1>10. FramesRight'
  BY <1>1, <1>2, <1>4, <1>5 DEF FramesRight
<1>11. MapRight'
  <2>1. \A u \in Assigned : MAP[u] \in V2  BY <1>0 DEF HInv, ActiveRight, MapRight
  <2>2. \A u \in Assigned' : MAP'[u] \in V2  BY <1>5, <2>1
  <2>3. F'.stage = "enter" /\ depth' # 0  BY <1>1, <1>2, <1>4
  <2>4. \A u \in Assigned' : MAP'[u] \in V2'  BY <1>5, <2>2
  <2>5. Cardinality(Assigned)' = depth'  BY <1>4, <1>5
  <2>6. SetBits(VALS, n2)' = ValuesAt(Height)'  BY <1>2, <1>5
  <2> QED  BY <2>3, <2>4, <2>5, <2>6 DEF MapRight
<1>12. CallsRight'  BY CallCalls
<1>13. TopRight'
  <2>1. depth' \in 1 .. n1 - 1 => Pushed' = {}
    <3>1. depth + 1 < n1 => Row(conditions, depth + 1) = {}  BY <1>0, RowAboveEmpty
    <3> QED  BY <1>1, <1>4, <3>1 DEF Pushed
  <2>2. NarrowingOf(F, Pushed, Buffer)'
    BY <1>2, <1>4, <1>5, <2>1 DEF NarrowingOf
  <2>3. PickOf(F, Pushed)'  BY <1>2, <1>4 DEF PickOf
  <2>4. TriesOf(F, ToChoose(Height))'  BY <1>2, <1>4 DEF TriesOf
  <2> QED  BY <1>4, <2>2, <2>3, <2>4 DEF TopRight
<1> QED  BY <1>7, <1>8, <1>9, <1>10, <1>11, <1>12, <1>13 DEF HInv, ActiveRight

(* The stabilisers and representatives stay in their arrays.                 *)
LEMMA StabsTypes ==
  ASSUME HInv, Active, NEW r, NEW d, NEW pt, NEW vals
  PROVE  LET stabs == compute_stabs_and_orbit_reps(r, d, pt, vals)
         IN  /\ stabs.REPS \in [0 .. Size - 1 -> SUBSET Bits]
             /\ DOMAIN stabs.STAB_GENS = 0 .. Size - 1
             /\ stabs.trivial \in BOOLEAN
<1> DEFINE stab == Stabiliser(STAB_GENS[r - 1], pt)
           reps == IF stab = {Identity(n2)}
                   THEN complement_bit_arrays(
                          copy_bit_array(REPS[r], IMAGE_RESTRICT, n2), vals, n2)
                   ELSE init_bit_array(REPS[r], FALSE, n2)
                          \cup OrbitReps(stab, IMAGE_RESTRICT, vals)
           stabs == compute_stabs_and_orbit_reps(r, d, pt, vals)
<1>1. /\ REPS \in [0 .. Size - 1 -> SUBSET Bits] /\ DOMAIN STAB_GENS = 0 .. Size - 1
      /\ IMAGE_RESTRICT \in SUBSET Bits
  BY DEF HInv, Fields
<1>2. n2 \in 0 .. Size
  <2>1. n2 \in 1 .. Size - 1 /\ Size \in Nat  BY ActiveFacts
  <2> QED  BY <2>1
<1>3. r \in 0 .. Size - 1 => reps \in SUBSET Bits
  <2> SUFFICES ASSUME r \in 0 .. Size - 1 PROVE reps \in SUBSET Bits  OBVIOUS
  <2>1. REPS[r] \in SUBSET Bits  BY <1>1
  <2>2. copy_bit_array(REPS[r], IMAGE_RESTRICT, n2) \in SUBSET Bits  BY <1>2, <2>1, BitsTypes
  <2>3. complement_bit_arrays(copy_bit_array(REPS[r], IMAGE_RESTRICT, n2), vals, n2) \in SUBSET Bits
    BY <1>2, <2>2, BitsTypes
  <2>4. init_bit_array(REPS[r], FALSE, n2) \in SUBSET Bits
    BY <2>1, <1>2, CoveredInBits DEF init_bit_array
  <2>5. OrbitReps(stab, IMAGE_RESTRICT, vals) \in SUBSET Bits  BY <1>1 DEF OrbitReps
  <2> QED  BY <2>3, <2>4, <2>5
<1> HIDE DEF reps
<1>4. stabs = IF d = n1 - 1
              THEN [STAB_GENS |-> STAB_GENS, REPS |-> REPS, trivial |-> FALSE]
              ELSE [STAB_GENS |-> [STAB_GENS EXCEPT ![r] = stab],
                    REPS      |-> [REPS EXCEPT ![r] = reps],
                    trivial   |-> stab = {Identity(n2)}]
  BY DEF compute_stabs_and_orbit_reps, reps
<1> HIDE DEF stabs, stab
<1>5. [REPS EXCEPT ![r] = reps] \in [0 .. Size - 1 -> SUBSET Bits]  BY <1>1, <1>3
<1>6. DOMAIN [STAB_GENS EXCEPT ![r] = stab] = 0 .. Size - 1  BY <1>1
<1>7. CASE d = n1 - 1
  <2>1. /\ stabs.REPS = REPS /\ stabs.STAB_GENS = STAB_GENS /\ stabs.trivial = FALSE
    BY <1>4, <1>7
  <2> QED  BY <1>1, <2>1 DEF stabs
<1>8. CASE d # n1 - 1
  <2>1. /\ stabs.REPS = [REPS EXCEPT ![r] = reps]
        /\ stabs.STAB_GENS = [STAB_GENS EXCEPT ![r] = stab]
    BY <1>4, <1>8
  <2>2. stabs.trivial = (stab = {Identity(n2)})  BY <1>4, <1>8
  <2>3. stabs.trivial \in BOOLEAN  BY <2>2
  <2> QED  BY <1>5, <1>6, <2>1, <2>3 DEF stabs
<1> QED  BY <1>7, <1>8

(* The frame of a caller, and the one of its call.                           *)
CallerOf(G, f, w) ==
  /\ G \in FrameType /\ G.pos = f.pos /\ G.rank = f.rank /\ G.rep_depth = f.rep_depth
  /\ G.stage = f.stage /\ G.next = f.next /\ G.at = w

LEMMA CallerFrame ==
  ASSUME NEW f \in FrameType, NEW w \in Int, NEW G, G = [f EXCEPT !.at = w]
  PROVE  CallerOf(G, f, w)
BY DEF FrameType, CallerOf

CalledOf(H, v, r, m) ==
  /\ H \in FrameType /\ H.pos = v /\ H.rank = m /\ H.rep_depth = r
  /\ H.stage = "enter" /\ H.at = -1 /\ H.next = -1 /\ H.min = UNDEFINED

LEMMA CalledFrame ==
  ASSUME NEW v \in Nat, NEW r \in Nat, NEW t \in BOOLEAN, NEW m \in Nat
  PROVE  CalledOf(Frame(v, r, t, m), v, r, m)
<1>1. -1 \in Int /\ UNDEFINED \in Int /\ "enter" \in Stages  BY DEF UNDEFINED, Stages
<1> QED  BY <1>1 DEF Frame, FrameType, CalledOf

(* A value that is tried is a vertex of the second digraph.                  *)
LEMMA TriedValue ==
  ASSUME HInv, Active, NEW possible, ToTry(possible) # {}
  PROVE  /\ Min(ToTry(possible)) \in V2 /\ Min(ToTry(possible)) \in SetBits(possible, n2)
         /\ Min(ToTry(possible)) \in Nat /\ Min(ToTry(possible)) > F.at
<1>1. V2 \subseteq Nat  BY ActiveFacts
<1>2. SetBits(possible, n2) \subseteq V2  BY DEF SetBits, Meant, V2
<1>3. ToTry(possible) \in SUBSET Nat  BY <1>1, <1>2 DEF ToTry, Above
<1>4. Min(ToTry(possible)) \in ToTry(possible)  BY <1>3, MinIsLeast
<1> QED  BY <1>1, <1>2, <1>4 DEF ToTry, Above

(* The stabiliser that a call which adds w to the values works with: the     *)
(* frame H of the call has the level below, unless it is trivial already.    *)
Stabilised(H, w) ==
  IF F.has_trivial_stab
  THEN /\ H.rep_depth = F.rep_depth /\ H.has_trivial_stab
       /\ UNCHANGED << STAB_GENS, REPS >>
  ELSE LET stabs == compute_stabs_and_orbit_reps(F.rep_depth + 1, depth, w, VALS \cup {w})
       IN  /\ H.rep_depth = F.rep_depth + 1 /\ H.has_trivial_stab = stabs.trivial
           /\ STAB_GENS' = stabs.STAB_GENS /\ REPS' = stabs.REPS

LEMMA NewIsCalled ==
  ASSUME HInv, NEW possible, possible = ToChoose(Height), TryNew(possible)
  PROVE  \E w, G, H :
           /\ w \in V2 /\ w \in SetBits(ToChoose(Height), n2) /\ w > F.at
           /\ CallStep(G, H, F.next, w)
           /\ G.has_trivial_stab = F.has_trivial_stab /\ Stabilised(H, w)
           /\ results' = results
<1> DEFINE v == Min(ToTry(possible))
           stabs == compute_stabs_and_orbit_reps(F.rep_depth + 1, depth, v, VALS \cup {v})
           G == [F EXCEPT !.at = v]
           r == IF F.has_trivial_stab THEN F.rep_depth ELSE F.rep_depth + 1
           t == IF F.has_trivial_stab THEN TRUE ELSE stabs.trivial
           H == Frame(F.next, r, t, F.rank + 1)
<1>0. /\ status = "search" /\ F.stage = "new" /\ Active /\ ToTry(possible) # {}
      /\ stack' = Append(Append(Front(stack), G), H)
      /\ MAP' = [MAP EXCEPT ![F.next] = v]
      /\ VALS' = set_bit_array(VALS, v, TRUE)
      /\ MAP_UNDEFINED' = [MAP_UNDEFINED EXCEPT ![depth] = set_bit_array(@, F.next, FALSE)]
      /\ depth' = depth + 1
      /\ IF F.has_trivial_stab THEN UNCHANGED << STAB_GENS, REPS >>
         ELSE STAB_GENS' = stabs.STAB_GENS /\ REPS' = stabs.REPS
      /\ UNCHANGED << conditions, open, BIT_ARRAY_BUFFER, IMAGE_RESTRICT, args, status,
                      results, calls >>
  BY DEF TryNew, InSearch, Assign, Active
<1>1. v \in V2 /\ v \in SetBits(ToChoose(Height), n2) /\ v \in Nat /\ v > F.at
  BY <1>0, TriedValue
<1>2. F \in FrameType /\ V1 \subseteq Nat  BY <1>0, ActiveFacts
<1>3. depth < n1 /\ F.next \in Left
  BY <1>0 DEF HInv, ActiveRight, FramesRight, TopRight, TriesOf
<1>4. /\ stabs.REPS \in [0 .. Size - 1 -> SUBSET Bits]
      /\ DOMAIN stabs.STAB_GENS = 0 .. Size - 1
      /\ stabs.trivial \in BOOLEAN
  BY <1>0, StabsTypes
<1>s. stabs = compute_stabs_and_orbit_reps(F.rep_depth + 1, depth, v, VALS \cup {v})
  OBVIOUS
<1> HIDE DEF stabs, v
<1>5. CallerOf(G, F, v)
  <2>1. v \in Int  BY <1>1
  <2> QED  BY <1>2, <2>1, CallerFrame
<1>6. F.next \in Nat /\ r \in Nat /\ t \in BOOLEAN /\ F.rank + 1 \in Nat
      /\ r \in { F.rep_depth, F.rep_depth + 1 }
  <2>1. F.next \in Nat  BY <1>2, <1>3 DEF Left
  <2>2. F.rank \in Nat /\ F.rep_depth \in Nat /\ F.has_trivial_stab \in BOOLEAN
    BY <1>2 DEF FrameType
  <2>3. t \in BOOLEAN  BY <1>4, Zenon
  <2>4. r \in { F.rep_depth, F.rep_depth + 1 }  OBVIOUS
  <2>5. r \in Nat  BY <2>2
  <2>6. F.rank + 1 \in Nat  BY <2>2
  <2> QED  BY <2>1, <2>3, <2>4, <2>5, <2>6
<1>g. G.has_trivial_stab = F.has_trivial_stab  BY <1>2 DEF FrameType
<1>r. IF F.has_trivial_stab THEN r = F.rep_depth /\ t
      ELSE r = F.rep_depth + 1 /\ t = stabs.trivial
  OBVIOUS
<1>h. H.rep_depth = r /\ H.has_trivial_stab = t  BY DEF Frame
<1> HIDE DEF r, t, G
<1>7. CalledOf(H, F.next, r, F.rank + 1)  BY <1>6, CalledFrame
<1> HIDE DEF H
<1>8. REPS' \in [0 .. Size - 1 -> SUBSET Bits] /\ DOMAIN STAB_GENS' = 0 .. Size - 1
  <2>1. Fields  BY DEF HInv
  <2>2. CASE F.has_trivial_stab  BY <1>0, <2>1, <2>2 DEF Fields
  <2>3. CASE ~ F.has_trivial_stab  BY <1>0, <1>4, <2>3
  <2> QED  BY <2>2, <2>3
<1>9. CallStep(G, H, F.next, v)
  BY <1>0, <1>5, <1>6, <1>7, <1>8 DEF CallStep, CallerOf, CalledOf
<1>10. Stabilised(H, v)
  <2>1. CASE F.has_trivial_stab
    BY <1>0, <1>r, <1>h, <2>1 DEF Stabilised
  <2>2. CASE ~ F.has_trivial_stab
    BY <1>0, <1>r, <1>h, <1>s, <2>2 DEF Stabilised
  <2> QED  BY <2>1, <2>2
<1> QED  BY <1>0, <1>1, <1>9, <1>10, <1>g

LEMMA TryNewStep ==
  ASSUME CP!IInv, HInv, NEW possible, possible = ToChoose(Height), TryNew(possible)
  PROVE  HInv'
<1>1. PICK w, G, H :
        w \in V2 /\ w \in SetBits(ToChoose(Height), n2) /\ CallStep(G, H, F.next, w)
  BY NewIsCalled
<1>2. status = "search" /\ F.stage = "new" /\ Active  BY DEF TryNew, InSearch, Active
<1>3. depth < n1  BY <1>2 DEF HInv, ActiveRight, FramesRight
<1> QED  BY <1>1, <1>2, <1>3, CallDone

LEMMA OldIsCalled ==
  ASSUME HInv, TryOld, ~ InPlace
  PROVE  \E w, G, H :
           /\ w \in V2 /\ w \in SetBits(ToChoose(Height), n2) /\ w > F.at
           /\ CallStep(G, H, F.next, w)
           /\ G.has_trivial_stab = F.has_trivial_stab
           /\ H.rep_depth = F.rep_depth /\ H.has_trivial_stab = F.has_trivial_stab
           /\ UNCHANGED << STAB_GENS, REPS, results >>
<1> DEFINE v == Min(ToTry(BIT_ARRAY_BUFFER[depth]))
           G == [F EXCEPT !.at = v]
           H == Frame(F.next, F.rep_depth, F.has_trivial_stab, F.rank)
<1>0. /\ status = "search" /\ F.stage = "old" /\ Active /\ ToTry(BIT_ARRAY_BUFFER[depth]) # {}
      /\ stack' = Append(Append(Front(stack), G), H)
      /\ MAP' = [MAP EXCEPT ![F.next] = v]
      /\ VALS' = set_bit_array(VALS, v, TRUE)
      /\ MAP_UNDEFINED' = [MAP_UNDEFINED EXCEPT ![depth] = set_bit_array(@, F.next, FALSE)]
      /\ depth' = depth + 1
      /\ UNCHANGED << conditions, open, BIT_ARRAY_BUFFER, IMAGE_RESTRICT, STAB_GENS, REPS,
                      args, status, results, calls >>
  BY DEF TryOld, InSearch, Assign, Active
<1>1. /\ v \in V2 /\ v \in SetBits(BIT_ARRAY_BUFFER[depth], n2)
      /\ v \in Nat /\ v > F.at
  BY <1>0, TriedValue
<1>2. F \in FrameType /\ V1 \subseteq Nat /\ FrameDepth(Height) = depth  BY <1>0, ActiveFacts
<1>3. depth < n1 /\ F.next \in Left
  BY <1>0 DEF HInv, ActiveRight, FramesRight, TopRight, TriesOf
<1>4. ToChoose(Height) = BIT_ARRAY_BUFFER[depth]  BY <1>2 DEF ToChoose
<1> HIDE DEF v
<1>5. CallerOf(G, F, v)
  <2>1. v \in Int  BY <1>1
  <2> QED  BY <1>2, <2>1, CallerFrame
<1>6. F.next \in Nat /\ F.rank \in Nat /\ F.rep_depth \in Nat /\ F.has_trivial_stab \in BOOLEAN
  <2>1. F.next \in Nat  BY <1>2, <1>3 DEF Left
  <2> QED  BY <1>2, <2>1 DEF FrameType
<1>g. G.has_trivial_stab = F.has_trivial_stab  BY <1>2 DEF FrameType
<1>h. H.rep_depth = F.rep_depth /\ H.has_trivial_stab = F.has_trivial_stab  BY DEF Frame
<1> HIDE DEF G
<1>7. CalledOf(H, F.next, F.rep_depth, F.rank)  BY <1>6, CalledFrame
<1> HIDE DEF H
<1>8. REPS' \in [0 .. Size - 1 -> SUBSET Bits] /\ DOMAIN STAB_GENS' = 0 .. Size - 1
  BY <1>0 DEF HInv, Fields
<1>9. CallStep(G, H, F.next, v)
  BY <1>0, <1>5, <1>7, <1>8 DEF CallStep, CallerOf, CalledOf
<1> QED  BY <1>0, <1>1, <1>4, <1>9, <1>g, <1>h

LEMMA TryOldStep ==
  ASSUME CP!IInv, HInv, TryOld, ~ InPlace
  PROVE  HInv'
<1>1. PICK w, G, H :
        w \in V2 /\ w \in SetBits(ToChoose(Height), n2) /\ CallStep(G, H, F.next, w)
  BY OldIsCalled
<1>2. status = "search" /\ F.stage = "old" /\ Active  BY DEF TryOld, InSearch, Active
<1>3. depth < n1  BY <1>2 DEF HInv, ActiveRight, FramesRight
<1> QED  BY <1>1, <1>2, <1>3, CallDone

------------------------------------------------------------------------------
(* A call returns, and its caller takes the value back.                      *)

(* What the return does to the object.                                       *)
LEMMA LeaveObject ==
  ASSUME CP!IInv, HInv, Active, Leave
  PROVE  /\ conditions'.nr1 = conditions.nr1 /\ conditions'.nr2 = conditions.nr2
         /\ SizesSmall'
         /\ \A d \in 0 .. depth - 1 : Row(conditions', d) = Row(conditions, d)
         /\ \A u \in Assigned : get_conditions(conditions', u) = get_conditions(conditions, u)
<1>1. /\ n1 \in Nat /\ depth \in Nat /\ depth <= n1 /\ Columns(conditions) = V1
      /\ Assigned \subseteq V1
  BY ActiveFacts
<1>2. open /\ conditions.nr1 = n1  BY DEF HInv, ActiveRight, ArgsRight
<1>3. CASE depth < n1
  <2>1. conditions' = pop_conditions(conditions, depth)  BY <1>3 DEF Leave
  <2>2. depth \in 0 .. conditions.nr1 - 1  BY <1>1, <1>2, <1>3
  <2> DEFINE p == pop_conditions(conditions, depth)
  <2>3. /\ p.nr1 = conditions.nr1 /\ p.nr2 = conditions.nr2
        /\ p.sizes = conditions.sizes
        /\ \A d \in 0 .. conditions.nr1 - 1 : d # depth => Row(p, d) = Row(conditions, d)
        /\ \A u \in Columns(conditions) :
             u \notin Row(conditions, depth) =>
               get_conditions(p, u) = get_conditions(conditions, u)
    BY <1>2, <2>2, PopEffect
  <2> HIDE DEF p
  <2>4. conditions' = p  BY <2>1 DEF p
  <2>5. \A d \in 0 .. depth - 1 : d \in 0 .. conditions.nr1 - 1 /\ d # depth  BY <1>1, <1>2
  <2>6. Row(conditions, depth) \cap Assigned = {}  BY <1>3, RowOpen
  <2>7. SizesSmall'  BY <2>3, <2>4 DEF HInv, SizesSmall
  <2> QED  BY <1>1, <2>3, <2>4, <2>5, <2>6, <2>7
<1>4. CASE ~ (depth < n1)
  <2>1. conditions' = conditions  BY <1>4 DEF Leave
  <2> QED  BY <2>1 DEF HInv, SizesSmall
<1> QED  BY <1>3, <1>4

(* The last call of all returns.                                             *)
LEMMA LastLeaves ==
  ASSUME CP!IInv, HInv, Active, Leave, Height = 1
  PROVE  HInv'
<1>1. depth \in Nat /\ depth \in 0 .. Size - 1 /\ Size \in Nat
  BY ActiveFacts DEF HInv, Fields
<1>2. SizesSmall'  BY LeaveObject
<1>3. /\ stack' = << >> /\ status' = "ended" /\ depth' \in 0 .. Size - 1 /\ open' \in BOOLEAN
      /\ UNCHANGED << MAP, VALS, MAP_UNDEFINED, BIT_ARRAY_BUFFER, IMAGE_RESTRICT, STAB_GENS,
                      REPS, calls >>
  BY <1>1 DEF Leave, Height
<1>4. ~ Active' /\ status' \in StatusType  BY <1>3 DEF Active, StatusType
<1>5. Fields'
  <2>1. Fields  BY DEF HInv
  <2> QED  BY <1>3, <1>4, <2>1 DEF Fields
<1> QED  BY <1>2, <1>4, <1>5 DEF HInv

(* Another returns to its caller, whose vertex is open again.                *)
LEMMA LeaveEffect ==
  ASSUME CP!IInv, HInv, status = "search", Leave, Height # 1,
         NEW h, h = Height - 1, NEW v, v = stack[h].next
  PROVE  /\ h \in 1 .. Height - 1 /\ FrameDepth(h) = depth - 1 /\ depth > 0
         /\ v \in V1 /\ v \in Assigned
         /\ n1' = n1 /\ n2' = n2 /\ V1' = V1 /\ V2' = V2 /\ InPlace' = InPlace
         /\ Assigned' = Assigned \ {v} /\ Assigned' = AssignedAt(h)
         /\ Cardinality(Assigned') = depth - 1
         /\ MAP' \in [0 .. Size - 1 -> 0 .. Size - 1 \cup { UNDEFINED }]
         /\ \A u \in Assigned : u # v => MAP'[u] = MAP[u]
         /\ VALS' \in SUBSET Bits
         /\ SetBits(VALS', n2) = ValuesAt(h)
         /\ MAP_UNDEFINED' \in [0 .. Size - 1 -> SUBSET Bits]
         /\ SetBits(MAP_UNDEFINED'[depth - 1], n1) = V1 \ Assigned'
         /\ \A d \in 0 .. depth - 2 : MAP_UNDEFINED'[d] = MAP_UNDEFINED[d]
<1>0. Active  BY DEF Active
<1>1. /\ n1 \in 1 .. Size - 1 /\ n2 \in Nat /\ n1 \in Nat /\ Size \in Nat
      /\ Assigned \subseteq V1 /\ IsFiniteSet(Assigned)
      /\ V1 \subseteq 0 .. Size - 1 /\ V2 \subseteq 0 .. Size - 1 /\ V2 \subseteq Bits
      /\ Height \in Nat \ {0} /\ depth \in Nat /\ depth <= n1 /\ Height - 1 <= depth
      /\ AssignedAt(Height) = Assigned /\ FrameDepth(Height) = depth
  BY <1>0, ActiveFacts
<1>2. Fields /\ MapRight  BY <1>0 DEF HInv, ActiveRight
<1>3. h \in 1 .. Height - 1 /\ depth > 0 /\ h + 1 = Height /\ h \in Nat
  BY <1>1
<1>4. FrameDepth(h) = depth - 1  BY <1>1, <1>3 DEF FrameDepth
<1>5. CallerRight(h) /\ TriesRight(h) /\ CallRight(Height)
  BY <1>0, <1>1, <1>3 DEF HInv, ActiveRight, CallsRight, CallerRight
<1>6. v \in Assigned /\ v \in V1 /\ v \in 0 .. Size - 1
  <2>1. v \in AssignedAt(h + 1)  BY <1>5 DEF CallerRight
  <2> QED  BY <1>1, <1>3, <2>1
<1>7. AssignedAt(h) = Assigned \ {v}
  <2>1. h .. Height - 1 = {h}  BY <1>1, <1>3
  <2> QED  BY <2>1 DEF AssignedAt, Tried
<1>8. /\ MAP' = [MAP EXCEPT ![v] = UNDEFINED]
      /\ VALS' = set_bit_array(VALS, stack[h].at, stack[h].stage = "old")
      /\ MAP_UNDEFINED' = [MAP_UNDEFINED EXCEPT ![depth - 1] = set_bit_array(@, v, TRUE)]
      /\ args' = args
  BY DEF Leave, Height
<1>9. n1' = n1 /\ n2' = n2 /\ V1' = V1 /\ V2' = V2 /\ InPlace' = InPlace
  BY <1>8 DEF n1, n2, V1, V2, InPlace, Undirected
<1>10. /\ MAP' \in [0 .. Size - 1 -> 0 .. Size - 1 \cup { UNDEFINED }]
       /\ MAP'[v] = UNDEFINED /\ \A u \in 0 .. Size - 1 : u # v => MAP'[u] = MAP[u]
  BY <1>2, <1>6, <1>8 DEF Fields
<1>11. Assigned' = Assigned \ {v}
  <2>1. Assigned = { u \in V1 : MAP[u] # UNDEFINED }  BY DEF Assigned, V1
  <2>2. Assigned' = { u \in V1 : MAP'[u] # UNDEFINED }  BY <1>9 DEF Assigned, V1
  <2> QED  BY <1>1, <1>6, <1>10, <2>1, <2>2
<1>12. Cardinality(Assigned') = depth - 1
  <2>1. Cardinality(Assigned \ {v}) = Cardinality(Assigned) - 1  BY <1>1, <1>6, OneMore
  <2> QED  BY <1>2, <1>11, <2>1 DEF MapRight
<1>13. \A u \in Assigned : u # v => MAP'[u] = MAP[u]  BY <1>1, <1>10
<1>14. stack[h].at = MAP[v] /\ stack[h].at \in V2
  <2>1. stack[h].at = MAP[v]  BY <1>5 DEF CallerRight
  <2>2. MAP[v] \in V2  BY <1>2, <1>6 DEF MapRight
  <2> QED  BY <2>1, <2>2
<1>15. SetBits(VALS, n2) = ValuesAt(h) \cup { stack[h].at }
  <2>1. SetBits(VALS, n2) = { MAP[u] : u \in Assigned }
    BY <1>1, <1>2 DEF MapRight, ValuesAt
  <2>2. ValuesAt(h) = { MAP[u] : u \in Assigned \ {v} }  BY <1>7 DEF ValuesAt
  <2> QED  BY <1>6, <1>14, <2>1, <2>2
<1>16. stack[h].stage = "old" <=> stack[h].at \in ValuesAt(h)  BY <1>5 DEF CallerRight
<1>17. SetBits(VALS', n2) = ValuesAt(h) /\ VALS' \in SUBSET Bits
  <2> DEFINE w == stack[h].at
  <2>1. w \in 0 .. n2 - 1 /\ n2 \in Nat /\ w \in Bits /\ VALS \in SUBSET Bits
    BY <1>1, <1>2, <1>14 DEF V2, Fields
  <2>2. CASE stack[h].stage = "old"
    <3>1. VALS' = VALS \cup {w}  BY <1>8, <2>2 DEF set_bit_array
    <3>2. SetBits(VALS \cup {w}, n2) = SetBits(VALS, n2) \cup {w}
      BY <2>1 DEF SetBits, Meant
    <3> QED  BY <1>15, <1>16, <2>1, <2>2, <3>1, <3>2
  <2>3. CASE stack[h].stage # "old"
    <3>1. VALS' = VALS \ {w}  BY <1>8, <2>3 DEF set_bit_array
    <3>2. SetBits(VALS \ {w}, n2) = SetBits(VALS, n2) \ {w}
      BY DEF SetBits
    <3> QED  BY <1>15, <1>16, <2>1, <2>3, <3>1, <3>2
  <2> QED  BY <2>2, <2>3
<1>18. depth - 1 \in 0 .. Size - 1  BY <1>1, <1>3
<1>19. MAP_UNDEFINED \in [0 .. Size - 1 -> SUBSET Bits]  BY <1>2 DEF Fields
<1>20. v \in Bits  BY <1>6, SizeFacts
<1>21. MAP_UNDEFINED' \in [0 .. Size - 1 -> SUBSET Bits]
       /\ MAP_UNDEFINED'[depth - 1] = MAP_UNDEFINED[depth - 1] \cup {v}
  <2>1. MAP_UNDEFINED[depth - 1] \cup {v} \in SUBSET Bits  BY <1>18, <1>19, <1>20
  <2>2. set_bit_array(MAP_UNDEFINED[depth - 1], v, TRUE) = MAP_UNDEFINED[depth - 1] \cup {v}
    BY DEF set_bit_array
  <2> QED  BY <1>8, <1>18, <1>19, <2>1, <2>2
<1>22. SetBits(MAP_UNDEFINED'[depth - 1], n1) = V1 \ Assigned'
  <2>1. SetBits(MAP_UNDEFINED[depth - 1], n1) = V1 \ Assigned
    BY <1>1, <1>3, <1>5 DEF CallRight
  <2>2. v \in Meant(n1)  BY <1>6 DEF Meant, V1
  <2>3. SetBits(MAP_UNDEFINED[depth - 1] \cup {v}, n1)
          = SetBits(MAP_UNDEFINED[depth - 1], n1) \cup {v}
    BY <2>2 DEF SetBits
  <2> QED  BY <1>6, <1>11, <1>21, <2>1, <2>3
<1>23. \A d \in 0 .. depth - 2 : MAP_UNDEFINED'[d] = MAP_UNDEFINED[d]
  <2>1. \A d \in 0 .. depth - 2 : d \in 0 .. Size - 1 /\ d # depth - 1  BY <1>1, <1>18
  <2> QED  BY <1>8, <1>19, <2>1
<1> QED  BY <1>3, <1>4, <1>6, <1>7, <1>9, <1>10, <1>11, <1>12, <1>13, <1>17, <1>21, <1>22, <1>23

LEMMA LeaveFrames ==
  ASSUME CP!IInv, HInv, status = "search", Leave, Height # 1,
         NEW h, h = Height - 1, NEW v, v = stack[h].next
  PROVE  /\ stack' \in Seq(FrameType) /\ Height' = h
         /\ F' = stack[h]
         /\ \A k \in 1 .. h : stack'[k] = stack[k]
         /\ \A k \in 1 .. h : /\ AssignedAt(k)' = AssignedAt(k)
                              /\ ValuesAt(k)' = ValuesAt(k)
                              /\ FrameDepth(k)' = FrameDepth(k)
         /\ \A k \in 1 .. h : v \notin AssignedAt(k)
<1>0. Active  BY DEF Active
<1>1. /\ Height \in Nat \ {0} /\ depth \in Nat
      /\ stack \in Seq(FrameType) /\ Len(stack) >= 2
  <2>1. Height \in Nat \ {0} /\ depth \in Nat  BY <1>0, ActiveFacts
  <2>2. stack \in Seq(FrameType)  BY <1>0 DEF HInv, ActiveRight, FramesRight
  <2> QED  BY <2>1, <2>2 DEF Height
<1>2. stack' = Front(stack) /\ depth' = depth - 1
  <2>1. depth > 0  BY LeaveEffect
  <2> QED  BY <1>1, <2>1 DEF Leave, Height
<1>3. /\ stack' \in Seq(FrameType) /\ Height' = h /\ F' = stack[h]
      /\ \A k \in 1 .. h : stack'[k] = stack[k]
  <2>1. LET t == Front(stack)
        IN  /\ t \in Seq(FrameType) /\ Len(t) = Len(stack) - 1
            /\ \A k \in 1 .. Len(stack) - 1 : t[k] = stack[k]
            /\ Last(t) = stack[Len(stack) - 1]
    BY <1>1, StackReturn
  <2> QED  BY <1>2, <2>1 DEF Height, F
<1>4. /\ h \in 1 .. Height - 1 /\ v \in Assigned
      /\ Assigned' = Assigned \ {v}
      /\ \A u \in Assigned : u # v => MAP'[u] = MAP[u]
  BY LeaveEffect
<1>5. ASSUME NEW k \in 1 .. h
      PROVE  /\ AssignedAt(k)' = AssignedAt(k)
             /\ ValuesAt(k)' = ValuesAt(k)
             /\ FrameDepth(k)' = FrameDepth(k)
             /\ v \notin AssignedAt(k)
  <2>1. Tried(k) = Tried(k)' \cup {v}
    <3>1. Tried(k)' = { stack'[j].next : j \in k .. h - 1 }  BY <1>3 DEF Tried
    <3>2. Tried(k) = { stack[j].next : j \in k .. h }  BY DEF Tried
    <3>3. h \in k .. h /\ \A j \in k .. h : j = h \/ j \in k .. h - 1
      BY <1>1, <1>4
    <3>4. \A j \in k .. h - 1 : j \in k .. h /\ stack'[j] = stack[j]
      <4>1. \A j \in k .. h - 1 : j \in k .. h /\ j \in 1 .. h  BY <1>1, <1>4
      <4> QED  BY <1>3, <4>1
    <3> QED  BY <3>1, <3>2, <3>3, <3>4
  <2>2. AssignedAt(k)' = AssignedAt(k) /\ v \notin AssignedAt(k)
    BY <1>4, <2>1 DEF AssignedAt
  <2>3. AssignedAt(k) \subseteq Assigned  BY DEF AssignedAt
  <2>4. ValuesAt(k)' = ValuesAt(k)  BY <1>4, <2>2, <2>3 DEF ValuesAt
  <2>5. FrameDepth(k)' = FrameDepth(k)  BY <1>1, <1>2, <1>3, <1>4 DEF FrameDepth
  <2> QED  BY <2>2, <2>4, <2>5
<1> QED  BY <1>3, <1>5

LEMMA LeaveCalls ==
  ASSUME CP!IInv, HInv, status = "search", Leave, Height # 1,
         NEW h, h = Height - 1, NEW v, v = stack[h].next
  PROVE  CallsRight' /\ (\A k \in 1 .. h : ToChoose(k)' = ToChoose(k))
<1>0. Active  BY DEF Active
<1>1. /\ Height \in Nat \ {0} /\ depth \in Nat /\ n1 \in Nat
      /\ \A k \in 1 .. Height - 1 : FrameDepth(k) \in 0 .. depth - 1
  BY <1>0, ActiveFacts
<1>2. /\ h \in 1 .. Height - 1 /\ FrameDepth(h) = depth - 1 /\ depth > 0
      /\ v \in V1 /\ v \in Assigned
      /\ n1' = n1 /\ n2' = n2 /\ V1' = V1 /\ V2' = V2 /\ InPlace' = InPlace
      /\ Assigned' = Assigned \ {v} /\ Assigned' = AssignedAt(h)
      /\ \A u \in Assigned : u # v => MAP'[u] = MAP[u]
      /\ SetBits(MAP_UNDEFINED'[depth - 1], n1) = V1 \ Assigned'
      /\ \A d \in 0 .. depth - 2 : MAP_UNDEFINED'[d] = MAP_UNDEFINED[d]
  BY LeaveEffect
<1>3. /\ Height' = h
      /\ \A k \in 1 .. h : stack'[k] = stack[k]
      /\ \A k \in 1 .. h : /\ AssignedAt(k)' = AssignedAt(k)
                           /\ ValuesAt(k)' = ValuesAt(k)
                           /\ FrameDepth(k)' = FrameDepth(k)
      /\ \A k \in 1 .. h : v \notin AssignedAt(k)
  BY LeaveFrames
<1>4. /\ \A d \in 0 .. depth - 1 : Row(conditions', d) = Row(conditions, d)
      /\ \A u \in Assigned : get_conditions(conditions', u) = get_conditions(conditions, u)
  BY <1>0, LeaveObject
<1>5. BIT_ARRAY_BUFFER' = BIT_ARRAY_BUFFER  BY DEF Leave
<1>6. ASSUME NEW k \in 1 .. h  PROVE CallRight(k)'
  <2>1. k \in 1 .. Height /\ k \in 1 .. Height - 1  BY <1>1, <1>2
  <2>2. CallRight(k)  BY <1>0, <2>1 DEF HInv, ActiveRight, CallsRight
  <2>3. FrameDepth(k) \in 0 .. depth - 1  BY <1>1, <2>1
  <2>4. FrameDepth(k) > 0 =>
          MAP_UNDEFINED'[FrameDepth(k) - 1] = MAP_UNDEFINED[FrameDepth(k) - 1]
    <3>1. FrameDepth(k) > 0 => FrameDepth(k) - 1 \in 0 .. depth - 2  BY <1>1, <2>3
    <3> QED  BY <1>2, <3>1
  <2>5. Row(conditions', FrameDepth(k)) = Row(conditions, FrameDepth(k))  BY <1>4, <2>3
  <2>6. /\ FrameDepth(k)' = FrameDepth(k) /\ AssignedAt(k)' = AssignedAt(k)
        /\ ValuesAt(k)' = ValuesAt(k) /\ stack'[k] = stack[k]
    BY <1>3
  <2> QED  BY <1>2, <2>2, <2>4, <2>5, <2>6 DEF CallRight
<1>7. ASSUME NEW k \in 1 .. h  PROVE ToChoose(k)' = ToChoose(k) /\ stack[k].next \in Assigned
  <2>1. k \in 1 .. Height - 1  BY <1>1, <1>2
  <2>2. CallerRight(k)  BY <1>0, <2>1 DEF HInv, ActiveRight, CallsRight
  <2>3. stack[k].next \in Assigned  BY <2>2 DEF CallerRight, AssignedAt
  <2>4. get_conditions(conditions', stack[k].next) = get_conditions(conditions, stack[k].next)
    BY <1>4, <2>3
  <2>5. FrameDepth(k)' = FrameDepth(k) /\ stack'[k] = stack[k]  BY <1>3
  <2> QED  BY <1>2, <1>5, <2>3, <2>4, <2>5 DEF ToChoose
<1>8. ASSUME NEW k \in 1 .. h - 1  PROVE CallerRight(k)'
  <2>1. k \in 1 .. Height - 1 /\ k \in 1 .. h /\ k + 1 \in 1 .. h  BY <1>1, <1>2
  <2>2. CallerRight(k) /\ TriesRight(k)
    BY <1>0, <2>1 DEF HInv, ActiveRight, CallsRight, CallerRight
  <2>3. stack'[k] = stack[k] /\ AssignedAt(k)' = AssignedAt(k)
        /\ ValuesAt(k)' = ValuesAt(k) /\ AssignedAt(k + 1)' = AssignedAt(k + 1)
        /\ v \notin AssignedAt(k + 1)
    BY <1>3, <2>1
  <2>4. stack[k].next # v /\ stack[k].next \in Assigned
    BY <1>7, <2>1, <2>2, <2>3 DEF CallerRight
  <2>5. MAP'[stack[k].next] = MAP[stack[k].next]  BY <1>2, <2>4
  <2>6. ToChoose(k)' = ToChoose(k)  BY <1>7, <2>1
  <2>7. TriesRight(k)'  BY <1>2, <2>2, <2>3, <2>6 DEF TriesRight
  <2> QED  BY <2>2, <2>3, <2>5, <2>7 DEF CallerRight
<1> QED  BY <1>3, <1>6, <1>7, <1>8 DEF CallsRight

LEMMA LeaveStep ==
  ASSUME CP!IInv, HInv, status = "search", Leave
  PROVE  HInv'
<1>0. Active  BY DEF Active
<1>1. CASE Height = 1  BY <1>0, <1>1, LastLeaves
<1>2. CASE Height # 1
  <2>0. PICK h : h = Height - 1  OBVIOUS
  <2>15. PICK v : v = stack[h].next  OBVIOUS
  <2>1. /\ h \in 1 .. Height - 1 /\ FrameDepth(h) = depth - 1 /\ depth > 0
        /\ v \in V1 /\ v \in Assigned
        /\ n1' = n1 /\ n2' = n2 /\ V1' = V1 /\ V2' = V2 /\ InPlace' = InPlace
        /\ Assigned' = Assigned \ {v} /\ Assigned' = AssignedAt(h)
        /\ Cardinality(Assigned') = depth - 1
        /\ MAP' \in [0 .. Size - 1 -> 0 .. Size - 1 \cup { UNDEFINED }]
        /\ \A u \in Assigned : u # v => MAP'[u] = MAP[u]
        /\ VALS' \in SUBSET Bits
        /\ SetBits(VALS', n2) = ValuesAt(h)
        /\ MAP_UNDEFINED' \in [0 .. Size - 1 -> SUBSET Bits]
        /\ SetBits(MAP_UNDEFINED'[depth - 1], n1) = V1 \ Assigned'
    BY <1>2, <2>0, <2>15, LeaveEffect
  <2>2. /\ stack' \in Seq(FrameType) /\ Height' = h /\ F' = stack[h]
        /\ \A k \in 1 .. h : AssignedAt(k)' = AssignedAt(k) /\ ValuesAt(k)' = ValuesAt(k)
    BY <1>2, <2>0, <2>15, LeaveFrames
  <2>3. CallsRight' /\ \A k \in 1 .. h : ToChoose(k)' = ToChoose(k)
    BY <1>2, <2>0, <2>15, LeaveCalls
  <2>4. /\ conditions'.nr1 = conditions.nr1 /\ conditions'.nr2 = conditions.nr2 /\ SizesSmall'
    BY <1>0, LeaveObject
  <2>5. /\ Height \in Nat \ {0} /\ depth \in Nat /\ n1 \in Nat /\ Size \in Nat
        /\ depth <= n1 /\ Height - 1 <= depth
    BY <1>0, ActiveFacts
  <2>6. CallerRight(h) /\ TriesRight(h)
    BY <1>0, <2>1 DEF HInv, ActiveRight, CallsRight, CallerRight
  <2>7. h \in Nat /\ h <= depth /\ h - 1 <= depth - 1 /\ h >= 1 /\ h \in 1 .. h
    BY <2>0, <2>1, <2>5
  <2>8. /\ depth' = depth - 1 /\ open' = TRUE /\ status' = "search"
        /\ UNCHANGED << BIT_ARRAY_BUFFER, IMAGE_RESTRICT, STAB_GENS, REPS, args, calls >>
    BY <1>2, <2>1, <2>5 DEF Leave, Height
  <2>9. Active'  BY <2>8 DEF Active
  <2>10. Fields'
    <3>1. stack' # << >>
      <4>1. Len(stack') = h  BY <2>2 DEF Height
      <4> QED  BY <2>7, <4>1
    <3>2. Fields  BY DEF HInv
    <3>3. depth' \in 0 .. Size - 1  BY <2>1, <2>5, <2>8, <3>2 DEF Fields
    <3> QED  BY <2>1, <2>8, <2>9, <3>1, <3>2, <3>3 DEF Fields, StatusType
  <2>11. ArgsRight'
    BY <1>0, <2>1, <2>4, <2>8 DEF HInv, ActiveRight, ArgsRight
  <2>12. FramesRight'
    <3>1. depth' \in 0 .. n1 /\ depth' < n1 /\ Height' >= 1 /\ Height' - 1 <= depth'
      BY <2>1, <2>2, <2>5, <2>7, <2>8
    <3> QED  BY <2>1, <2>2, <2>8, <3>1 DEF FramesRight
  <2>13. MapRight'
    <3>1. \A u \in Assigned : MAP[u] \in V2  BY <1>0 DEF HInv, ActiveRight, MapRight
    <3>2. \A u \in Assigned' : MAP'[u] \in V2'  BY <2>1, <3>1
    <3>3. Cardinality(Assigned)' = depth'  BY <2>1, <2>8
    <3>4. SetBits(VALS, n2)' = ValuesAt(Height)'
      <4>1. ValuesAt(Height)' = ValuesAt(h)'  BY <2>2 DEF ValuesAt, AssignedAt, Tried
      <4>2. ValuesAt(h)' = ValuesAt(h)  BY <2>2, <2>7
      <4> QED  BY <2>1, <4>1, <4>2
    <3>5. SetBits(MAP_UNDEFINED'[depth'], n1') = V1' \ Assigned'  BY <2>1, <2>8
    <3> QED  BY <3>2, <3>3, <3>4, <3>5 DEF MapRight
  <2>14. TopRight'
    <3>1. stack[h].stage \in { "new", "old" }  BY <2>6 DEF CallerRight
    <3>2. NarrowingOf(F, Pushed, Buffer)'  BY <2>2, <3>1 DEF NarrowingOf
    <3>3. PickOf(F, Pushed)'  BY <2>2, <3>1 DEF PickOf
    <3>4. TriesOf(F, ToChoose(Height))'
      <4>1. ToChoose(Height)' = ToChoose(h)  BY <2>2, <2>3, <2>7
      <4>2. ValuesAt(Height)' = ValuesAt(h)  BY <2>2, <2>7
      <4>3. Left' = V1 \ AssignedAt(h)  BY <2>1 DEF Left
      <4> QED  BY <2>1, <2>2, <2>6, <4>1, <4>2, <4>3 DEF TriesRight, TriesOf
    <3> QED  BY <2>8, <3>2, <3>3, <3>4 DEF TopRight
  <2> QED  BY <2>3, <2>4, <2>10, <2>11, <2>12, <2>13, <2>14 DEF HInv, ActiveRight
<1> QED  BY <1>1, <1>2

------------------------------------------------------------------------------
(* A search that ends touches no array out of its type.                      *)
LEMMA EndStep ==
  ASSUME HInv, stack' = << >>, status' \in { "ended", "jumped" },
         MAP' \in [0 .. Size - 1 -> 0 .. Size - 1 \cup { UNDEFINED }],
         UNCHANGED << conditions, depth, open, VALS, MAP_UNDEFINED, BIT_ARRAY_BUFFER,
                      IMAGE_RESTRICT, STAB_GENS, REPS, calls >>
  PROVE  HInv'
<1>1. SizesSmall'  BY DEF HInv, SizesSmall
<1>2. ~ Active' /\ status' \in StatusType  BY DEF Active, StatusType
<1>3. Fields'  BY <1>2 DEF HInv, Fields
<1> QED  BY <1>1, <1>2, <1>3 DEF HInv

LEMMA ReportStep ==
  ASSUME CP!IInv, HInv, NEW rank_matters \in BOOLEAN, Report(rank_matters)
  PROVE  HInv'
<1>1. status = "search"  BY DEF Report, InSearch
<1>2. CASE Leave  BY <1>1, <1>2, LeaveStep
<1>3. CASE ~ Leave
  <2>1. /\ status' = "jumped" /\ stack' = << >>
        /\ UNCHANGED << conditions, depth, open, globals, args, calls >>
    BY <1>3 DEF Report
  <2>2. MAP' = MAP /\ UNCHANGED << VALS, MAP_UNDEFINED, BIT_ARRAY_BUFFER, IMAGE_RESTRICT,
                                   STAB_GENS, REPS >>
    BY <2>1 DEF globals
  <2>3. MAP' \in [0 .. Size - 1 -> 0 .. Size - 1 \cup { UNDEFINED }]
    BY <2>2 DEF HInv, Fields
  <2> QED  BY <2>1, <2>2, <2>3, EndStep
<1> QED  BY <1>2, <1>3

------------------------------------------------------------------------------
(* An entry of the partial map is installed.                                 *)
InstalledAt(G, f, v, r) ==
  /\ G \in FrameType /\ G.pos = v /\ G.rank = r /\ G.stage = "enter" /\ G.next = f.next
  /\ G.rep_depth \in { f.rep_depth, f.rep_depth + 1 }

LEMMA FrameInstalled ==
  ASSUME NEW f \in FrameType, NEW v \in Nat, NEW r \in Nat, NEW t \in BOOLEAN,
         NEW frame, frame = [f EXCEPT !.pos = v, !.rank = r, !.stage = "enter"],
         NEW G, \/ G = frame
                \/ G = [frame EXCEPT !.rep_depth = @ + 1, !.has_trivial_stab = t]
  PROVE  InstalledAt(G, f, v, r)
<1>1. "enter" \in Stages  BY DEF Stages
<1>2. InstalledAt(frame, f, v, r) /\ frame.rep_depth = f.rep_depth
  BY <1>1 DEF FrameType, InstalledAt
<1>3. CASE G = frame  BY <1>2, <1>3
<1>4. CASE G = [frame EXCEPT !.rep_depth = @ + 1, !.has_trivial_stab = t]
  <2>1. frame \in FrameType /\ f.rep_depth + 1 \in Nat  BY <1>2 DEF InstalledAt, FrameType
  <2> QED  BY <1>2, <1>4, <2>1 DEF FrameType, InstalledAt
<1> QED  BY <1>3, <1>4

LEMMA EntryInstalled ==
  ASSUME HInv, status = "partial", F.stage = "install", NEW x, x = F.next
  PROVE  /\ x \in DOMAIN args.partial_map /\ x \in Nat
         /\ INVERSE_ORDER[x] \in Left /\ args.partial_map[x] \in V2
         /\ Assigned = { INVERSE_ORDER[u] : u \in { u \in DOMAIN args.partial_map : u < x } }
<1>0. Active  BY DEF Active
<1>1. n1 \in Nat /\ V1 \subseteq Nat  BY <1>0, ActiveFacts
<1>2. PartialOf(F) /\ args \in Arguments
  BY <1>0 DEF HInv, ActiveRight, TopRight, ArgsRight
<1>3. Vertices(args.digraph1) = V1 /\ Vertices(args.digraph2) = V2
  BY DEF Vertices, V1, V2, n1, n2
<1>4. /\ DOMAIN args.partial_map \subseteq V1
      /\ \A u \in DOMAIN args.partial_map : args.partial_map[u] \in V2
  BY <1>2, <1>3, ArgumentsAssumption
<1>5. \A u \in V1 : INVERSE_ORDER[u] \in V1 /\ args.order[INVERSE_ORDER[u]] = u
  BY <1>2, <1>3, InverseOrderFacts DEF INVERSE_ORDER
<1>6. x \in DOMAIN args.partial_map /\ x \in Nat
  <2>1. x \in DOMAIN args.partial_map  BY <1>2 DEF PartialOf
  <2> QED  BY <1>1, <1>4, <2>1
<1>7. Before(F) = { u \in DOMAIN args.partial_map : u < x }  BY DEF Before
<1>8. INVERSE_ORDER[x] \in Left
  <2>1. INVERSE_ORDER[x] \in V1  BY <1>4, <1>5, <1>6
  <2>2. ASSUME INVERSE_ORDER[x] \in Assigned  PROVE FALSE
    <3>1. PICK u \in Before(F) : INVERSE_ORDER[x] = INVERSE_ORDER[u]
      BY <1>2, <2>2 DEF PartialOf
    <3>2. u = x  BY <1>4, <1>5, <1>6, <1>7, <3>1
    <3> QED  BY <1>6, <1>7, <3>1, <3>2
  <2> QED  BY <2>1, <2>2 DEF Left
<1> QED  BY <1>2, <1>4, <1>6, <1>7, <1>8 DEF PartialOf

LEMMA InstallFrames ==
  ASSUME HInv, status = "partial", F.stage = "install",
         NEW G \in FrameType, stack' = Append(Front(stack), G), depth' = depth + 1
  PROVE  /\ stack' \in Seq(FrameType) /\ Height = 1 /\ Height' = 1 /\ F' = G /\ stack'[1] = G
         /\ AssignedAt(Height)' = Assigned'
         /\ ValuesAt(Height)' = { MAP'[u] : u \in Assigned' }
         /\ FrameDepth(Height)' = depth + 1
<1>0. Active  BY DEF Active
<1>1. stack \in Seq(FrameType) /\ Len(stack) = 1 /\ Height = 1
  <2>1. stack \in Seq(FrameType) /\ Height = 1
    BY <1>0 DEF HInv, ActiveRight, FramesRight
  <2> QED  BY <2>1 DEF Height
<1>2. LET t == Append(Front(stack), G)
      IN  /\ t \in Seq(FrameType) /\ Len(t) = Len(stack)
          /\ t[Len(stack)] = G
          /\ Last(t) = G
  <2>1. stack \in Seq(FrameType) /\ Len(stack) >= 1  BY <1>1
  <2> QED  BY <2>1, StackStay
<1>3. stack' \in Seq(FrameType) /\ Height' = 1 /\ F' = G /\ stack'[1] = G
  BY <1>1, <1>2 DEF Height, F
<1>4. Tried(Height)' = {}
  <2>1. Height' .. Height' - 1 = {}  BY <1>3
  <2> QED  BY <2>1 DEF Tried
<1>5. AssignedAt(Height)' = Assigned'  BY <1>4 DEF AssignedAt
<1>6. ValuesAt(Height)' = { MAP'[u] : u \in Assigned' }  BY <1>5 DEF ValuesAt
<1>7. FrameDepth(Height)' = depth + 1
  <2>1. depth \in Nat  BY <1>0, ActiveFacts
  <2> QED  BY <1>3, <2>1 DEF FrameDepth
<1> QED  BY <1>1, <1>3, <1>5, <1>6, <1>7

Entry(v, w) == v = INVERSE_ORDER[F.next] /\ w = args.partial_map[F.next]

LEMMA InstallDone ==
  ASSUME CP!IInv, HInv, status = "partial", F.stage = "install",
         NEW G, NEW v, NEW w, Entry(v, w),
         InstalledAt(G, F, v, IF w \in VALS THEN F.rank ELSE F.rank + 1),
         stack' = Append(Front(stack), G), depth' = depth + 1,
         MAP' = [MAP EXCEPT ![v] = w],
         VALS' = set_bit_array(VALS, w, TRUE),
         MAP_UNDEFINED' = [MAP_UNDEFINED EXCEPT ![depth] = set_bit_array(@, v, FALSE)],
         REPS' \in [0 .. Size - 1 -> SUBSET Bits], DOMAIN STAB_GENS' = 0 .. Size - 1,
         UNCHANGED << conditions, open, BIT_ARRAY_BUFFER, IMAGE_RESTRICT, args, status, calls >>
  PROVE  HInv'
<1>0. Active  BY DEF Active
<1>1. /\ depth \in Nat /\ n1 \in 1 .. Size - 1 /\ n2 \in Nat /\ Size \in Nat /\ V1 \subseteq Nat
      /\ F \in FrameType /\ F = stack[Height] /\ Height \in 1 .. Height /\ FrameDepth(Height) = depth
  BY <1>0, ActiveFacts
<1>2. /\ F.next \in DOMAIN args.partial_map /\ F.next \in Nat
      /\ v \in Left /\ w \in V2
      /\ Assigned = { INVERSE_ORDER[u] : u \in { u \in DOMAIN args.partial_map : u < F.next } }
  BY EntryInstalled DEF Entry
<1>3. depth < n1 /\ MapRight
  BY <1>0 DEF HInv, ActiveRight, FramesRight
<1>4. SetBits(MAP_UNDEFINED[depth], n1) = Left /\ args' = args  BY <1>3 DEF MapRight, Left
<1>5. /\ n1' = n1 /\ n2' = n2 /\ V1' = V1 /\ V2' = V2
      /\ Assigned' = Assigned \cup {v} /\ Cardinality(Assigned') = depth + 1
      /\ MAP' \in [0 .. Size - 1 -> 0 .. Size - 1 \cup { UNDEFINED }]
      /\ MAP'[v] = w /\ \A u \in Assigned : MAP'[u] = MAP[u]
      /\ VALS' \in SUBSET Bits
      /\ SetBits(VALS', n2) = { MAP'[u] : u \in Assigned' }
      /\ SetBits(VALS', n2) = ValuesAt(Height) \cup {w}
      /\ MAP_UNDEFINED' \in [0 .. Size - 1 -> SUBSET Bits]
      /\ SetBits(MAP_UNDEFINED'[depth], n1) = V1 \ Assigned'
  BY <1>0, <1>2, <1>3, <1>4, AssignEffect, Zenon
<1>6. /\ G \in FrameType /\ G.pos = v /\ G.stage = "enter" /\ G.next = F.next
      /\ G.rank = IF w \in VALS THEN F.rank ELSE F.rank + 1
      /\ G.rep_depth \in { F.rep_depth, F.rep_depth + 1 }
  BY DEF InstalledAt
<1>7. /\ stack' \in Seq(FrameType) /\ Height = 1 /\ Height' = 1 /\ F' = G /\ stack'[1] = G
      /\ AssignedAt(Height)' = Assigned'
      /\ ValuesAt(Height)' = SetBits(VALS', n2)
      /\ FrameDepth(Height)' = depth + 1
  <2>1. G \in FrameType  BY <1>6
  <2> QED  BY <1>5, <2>1, InstallFrames
<1>8. status' = "partial" /\ Active'  BY DEF Active
<1>9. SizesSmall'  BY DEF HInv, SizesSmall
<1>10. v \in V1 /\ v \notin Assigned  BY <1>2 DEF Left
<1>11. Fields'
  <2>1. stack' # << >>
    <3>1. Len(stack') = 1  BY <1>7 DEF Height
    <3> QED  BY <3>1
  <2>2. depth' \in 0 .. Size - 1  BY <1>1, <1>3
  <2>3. Fields  BY DEF HInv
  <2> QED  BY <1>5, <1>8, <2>1, <2>2, <2>3 DEF Fields
<1>12. ArgsRight'
  BY <1>0, <1>5 DEF HInv, ActiveRight, ArgsRight
<1>13. FramesRight'
  <2>1. depth' \in 0 .. n1 /\ Height' - 1 <= depth' /\ Height' >= 1  BY <1>1, <1>3, <1>7
  <2> QED  BY <1>5, <1>6, <1>7, <2>1 DEF FramesRight
<1>14. MapRight'
  <2>1. \A u \in Assigned' : MAP'[u] \in V2'  BY <1>2, <1>3, <1>5 DEF MapRight
  <2>2. F'.stage = "enter" /\ depth' # 0  BY <1>1, <1>6, <1>7
  <2>3. Cardinality(Assigned)' = depth'  BY <1>5
  <2>4. SetBits(VALS, n2)' = ValuesAt(Height)'  BY <1>5, <1>7
  <2> QED  BY <2>1, <2>2, <2>3, <2>4 DEF MapRight
<1>15. CallRight(Height)'
  <2>1. stack'[Height'] = G  BY <1>7
  <2>2. G.rep_depth <= depth + 1
    <3>1. CallRight(Height)  BY <1>0, <1>1 DEF HInv, ActiveRight, CallsRight
    <3>2. F.rep_depth <= depth  BY <1>1, <3>1 DEF CallRight
    <3>3. F.rep_depth \in Nat  BY <1>1 DEF FrameType
    <3> QED  BY <1>1, <1>6, <3>2, <3>3
  <2>3. G.rank = Cardinality(ValuesAt(Height) \cup {w})
    <3>1. /\ IsFiniteSet(ValuesAt(Height)) /\ F.rank = Cardinality(ValuesAt(Height))
      BY <1>0, ValuesFinite
    <3>2. w \in VALS <=> w \in ValuesAt(Height)
      <4>1. ValuesAt(Height) = SetBits(VALS, n2)  BY <1>3 DEF MapRight
      <4> QED  BY <1>2, <4>1 DEF SetBits, Meant, V2
    <3>3. CASE w \in VALS
      <4>1. ValuesAt(Height) \cup {w} = ValuesAt(Height)  BY <3>2, <3>3
      <4> QED  BY <1>6, <3>1, <3>3, <4>1
    <3>4. CASE w \notin VALS
      <4>1. Cardinality(ValuesAt(Height) \cup {w}) = Cardinality(ValuesAt(Height)) + 1
        BY <3>1, <3>2, <3>4, OneMore
      <4> QED  BY <1>6, <3>1, <3>4, <4>1
    <3> QED  BY <3>3, <3>4
  <2>4. G.rank = Cardinality(ValuesAt(Height)')  BY <1>5, <1>7, <2>3
  <2>5. depth + 1 < n1 => Row(conditions', depth + 1) = {}
    BY <1>0, RowAboveEmpty
  <2>6. (depth + 1) - 1 = depth  BY <1>1
  <2>7. SetBits(MAP_UNDEFINED'[(depth + 1) - 1], n1) = V1 \ Assigned'
    BY <1>5, <2>6, Zenon
  <2>8. stack'[Height'].rep_depth <= FrameDepth(Height)'  BY <1>7, <2>1, <2>2
  <2>9. stack'[Height'].rank = Cardinality(ValuesAt(Height)')  BY <2>1, <2>4
  <2>10. stack'[Height'].pos \in V1'  BY <1>5, <1>6, <1>10, <2>1
  <2>11. SetBits(MAP_UNDEFINED'[FrameDepth(Height)' - 1], n1') = V1' \ AssignedAt(Height)'
    BY <1>5, <1>7, <2>7
  <2>12. FrameDepth(Height)' < n1' => Row(conditions', FrameDepth(Height)') = {}
    BY <1>5, <1>7, <2>5
  <2> QED  BY <2>8, <2>9, <2>10, <2>11, <2>12 DEF CallRight
<1>16. CallsRight'
  <2>1. \A k \in 1 .. Height' : k = Height'  BY <1>7
  <2>2. 1 .. Height' - 1 = {}  BY <1>7
  <2>3. \A k \in 1 .. Height' : CallRight(k)'  BY <1>15, <2>1
  <2> QED  BY <2>2, <2>3 DEF CallsRight
<1>17. TopRight'
  <2>1. depth' \in 1 .. n1 - 1 => Pushed' = {}
    <3>1. depth + 1 < n1 => Row(conditions, depth + 1) = {}  BY <1>0, RowAboveEmpty
    <3> QED  BY <1>1, <3>1 DEF Pushed
  <2>2. NarrowingOf(F, Pushed, Buffer)'
    BY <1>5, <1>6, <1>7, <2>1 DEF NarrowingOf
  <2>3. PartialOf(F)'
    <3>1. INVERSE_ORDER' = INVERSE_ORDER  BY DEF INVERSE_ORDER
    <3>2. Before(F)' = { u \in DOMAIN args.partial_map : u < F.next } \cup { F.next }
      <4>1. Before(F)' = { u \in DOMAIN args.partial_map :
                             u < G.next \/ (G.stage = "enter" /\ u = G.next) }
        BY <1>7 DEF Before
      <4> QED  BY <1>2, <1>6, <4>1
    <3>3. Assigned' = { INVERSE_ORDER[u] : u \in Before(F)' }
      BY <1>2, <1>5, <3>2 DEF Entry
    <3> QED  BY <1>2, <1>6, <1>7, <3>1, <3>3 DEF PartialOf
  <2>4. TriesOf(F, ToChoose(Height))'  BY <1>6, <1>7 DEF TriesOf
  <2> QED  BY <1>8, <2>2, <2>3, <2>4 DEF TopRight
<1> QED  BY <1>9, <1>11, <1>12, <1>13, <1>14, <1>16, <1>17 DEF HInv, ActiveRight

(* A value that stays within the rank sought is installed.                   *)
Installs(G, v, w) ==
  /\ Entry(v, w) /\ InstalledAt(G, F, v, IF w \in VALS THEN F.rank ELSE F.rank + 1)
  /\ stack' = Append(Front(stack), G) /\ depth' = depth + 1
  /\ MAP' = [MAP EXCEPT ![v] = w]
  /\ VALS' = set_bit_array(VALS, w, TRUE)
  /\ MAP_UNDEFINED' = [MAP_UNDEFINED EXCEPT ![depth] = set_bit_array(@, v, FALSE)]
  /\ REPS' \in [0 .. Size - 1 -> SUBSET Bits] /\ DOMAIN STAB_GENS' = 0 .. Size - 1
  /\ UNCHANGED << conditions, open, BIT_ARRAY_BUFFER, IMAGE_RESTRICT, args, status, calls >>

LEMMA EntryIsInstalled ==
  ASSUME HInv, PartialInstall,
         NEW w, w = args.partial_map[F.next],
         NEW rank, rank = IF w \in VALS THEN F.rank ELSE F.rank + 1,
         ~ (rank > F.rank /\ rank > args.hint)
  PROVE  \E G, v : Installs(G, v, w) /\ Stabilised(G, w)
<1> DEFINE v == INVERSE_ORDER[F.next]
           stabs == compute_stabs_and_orbit_reps(F.rep_depth + 1, depth, w, VALS \cup {w})
           frame == [F EXCEPT !.pos = v, !.rank = rank, !.stage = "enter"]
           G == IF F.has_trivial_stab THEN frame
                ELSE [frame EXCEPT !.rep_depth = @ + 1, !.has_trivial_stab = stabs.trivial]
<1>0. status = "partial" /\ F.stage = "install" /\ Active
  BY DEF PartialInstall, InPartial, Active
<1>1. v \in Left /\ w \in V2  BY <1>0, EntryInstalled
<1>2. F \in FrameType /\ V1 \subseteq Nat  BY <1>0, ActiveFacts
<1>3. /\ MAP' = [MAP EXCEPT ![v] = w]
      /\ VALS' = set_bit_array(VALS, w, TRUE)
      /\ MAP_UNDEFINED' = [MAP_UNDEFINED EXCEPT ![depth] = set_bit_array(@, v, FALSE)]
      /\ depth' = depth + 1
      /\ F.has_trivial_stab => Running(frame) /\ UNCHANGED << STAB_GENS, REPS >>
      /\ ~ F.has_trivial_stab =>
           /\ Running([frame EXCEPT !.rep_depth = @ + 1, !.has_trivial_stab = stabs.trivial])
           /\ STAB_GENS' = stabs.STAB_GENS
           /\ REPS' = stabs.REPS
      /\ UNCHANGED << conditions, open, BIT_ARRAY_BUFFER, IMAGE_RESTRICT, args, status, calls >>
  BY DEF PartialInstall
<1>4. /\ stabs.REPS \in [0 .. Size - 1 -> SUBSET Bits]
      /\ DOMAIN stabs.STAB_GENS = 0 .. Size - 1
      /\ stabs.trivial \in BOOLEAN
  <2> DEFINE r == F.rep_depth + 1
             vals == VALS \cup {w}
  <2> HIDE DEF r, vals
  <2>1. LET s == compute_stabs_and_orbit_reps(r, depth, w, vals)
        IN  /\ s.REPS \in [0 .. Size - 1 -> SUBSET Bits]
            /\ DOMAIN s.STAB_GENS = 0 .. Size - 1
            /\ s.trivial \in BOOLEAN
    BY <1>0, StabsTypes
  <2> QED  BY <2>1 DEF r, vals
<1>s. stabs = compute_stabs_and_orbit_reps(F.rep_depth + 1, depth, w, VALS \cup {w})
  OBVIOUS
<1> HIDE DEF stabs
<1>5. REPS' \in [0 .. Size - 1 -> SUBSET Bits] /\ DOMAIN STAB_GENS' = 0 .. Size - 1
  <2>1. Fields  BY DEF HInv
  <2>2. CASE F.has_trivial_stab  BY <1>3, <2>1, <2>2 DEF Fields
  <2>3. CASE ~ F.has_trivial_stab  BY <1>3, <1>4, <2>3
  <2> QED  BY <2>2, <2>3
<1>6. stack' = Append(Front(stack), G)
  <2>1. CASE F.has_trivial_stab  BY <1>3, <2>1 DEF Running
  <2>2. CASE ~ F.has_trivial_stab  BY <1>3, <2>2 DEF Running
  <2> QED  BY <2>1, <2>2
<1>7. v \in Nat /\ rank \in Nat
  <2>1. v \in Nat  BY <1>1, <1>2 DEF Left
  <2>2. F.rank \in Nat  BY <1>2 DEF FrameType
  <2> QED  BY <2>1, <2>2
<1>8. InstalledAt(G, F, v, rank)
  <2> DEFINE t == stabs.trivial
  <2>1. t \in BOOLEAN /\ F \in FrameType  BY <1>2, <1>4
  <2>2. \/ G = frame
        \/ G = [frame EXCEPT !.rep_depth = @ + 1, !.has_trivial_stab = t]
    OBVIOUS
  <2>3. frame = [F EXCEPT !.pos = v, !.rank = rank, !.stage = "enter"]  OBVIOUS
  <2> HIDE DEF G, frame, v, t
  <2> QED  BY <1>7, <2>1, <2>2, <2>3, FrameInstalled
<1>9. Stabilised(G, w)
  <2>1. frame.rep_depth = F.rep_depth /\ frame.has_trivial_stab = F.has_trivial_stab
    BY <1>2 DEF FrameType
  <2>2. CASE F.has_trivial_stab
    <3>1. G = frame  BY <2>2
    <3> HIDE DEF G, frame
    <3> QED  BY <1>3, <2>1, <2>2, <3>1 DEF Stabilised
  <2>3. CASE ~ F.has_trivial_stab
    <3>1. G = [frame EXCEPT !.rep_depth = @ + 1, !.has_trivial_stab = stabs.trivial]
      BY <2>3
    <3>2. G.rep_depth = F.rep_depth + 1 /\ G.has_trivial_stab = stabs.trivial
      BY <1>2, <3>1 DEF FrameType
    <3> HIDE DEF G, frame
    <3> QED  BY <1>3, <1>s, <2>3, <3>2 DEF Stabilised
  <2> QED  BY <2>2, <2>3
<1>10. Entry(v, w)  BY DEF Entry
<1> HIDE DEF G, frame, v
<1>11. Installs(G, v, w)  BY <1>3, <1>5, <1>6, <1>8, <1>10 DEF Installs
<1> QED  BY <1>9, <1>11

LEMMA PartialInstallStep ==
  ASSUME CP!IInv, HInv, PartialInstall
  PROVE  HInv'
<1> DEFINE v == INVERSE_ORDER[F.next]
           w == args.partial_map[F.next]
           rank == IF w \in VALS THEN F.rank ELSE F.rank + 1
<1>0. status = "partial" /\ F.stage = "install" /\ Active
  BY DEF PartialInstall, InPartial, Active
<1>1. v \in Left /\ w \in V2  BY <1>0, EntryInstalled
<1>2. V2 \subseteq 0 .. Size - 1  BY <1>0, ActiveFacts
<1>3. MAP' = [MAP EXCEPT ![v] = w]
      /\ UNCHANGED << conditions, open, BIT_ARRAY_BUFFER, IMAGE_RESTRICT, args, calls >>
  BY DEF PartialInstall
<1>4. CASE rank > F.rank /\ rank > args.hint
  <2>1. /\ status' = "ended" /\ stack' = << >>
        /\ UNCHANGED << depth, VALS, MAP_UNDEFINED, STAB_GENS, REPS >>
    BY <1>4 DEF PartialInstall
  <2>2. MAP' \in [0 .. Size - 1 -> 0 .. Size - 1 \cup { UNDEFINED }]
    <3>1. w \in 0 .. Size - 1  BY <1>1, <1>2
    <3> QED  BY <1>3, <3>1 DEF HInv, Fields
  <2> QED  BY <1>3, <2>1, <2>2, EndStep
<1>5. CASE ~ (rank > F.rank /\ rank > args.hint)
  <2> HIDE DEF w, rank
  <2>1. w = args.partial_map[F.next] /\ rank = IF w \in VALS THEN F.rank ELSE F.rank + 1
    BY DEF w, rank
  <2>2. PICK G, x : Installs(G, x, w)  BY <1>5, <2>1, EntryIsInstalled
  <2> QED  BY <1>0, <2>2, InstallDone DEF Installs
<1> QED  BY <1>4, <1>5

------------------------------------------------------------------------------
(* What the steps of a call do to the Conditions object is what module        *)
(* Conditions says.                                                           *)
Driven == CP!Next \/ UNCHANGED << conditions, depth, open >>

LEMMA DrivenPush ==
  ASSUME CP!IInv, HInv, Active, depth \in 1 .. n1 - 1, NEW v \in V1, v \notin Pushed,
         NEW b \in SUBSET Bits, conditions' = PushedWith(conditions, depth, v, b),
         UNCHANGED << depth, open >>
  PROVE  Driven
<1>1. open = TRUE /\ conditions.nr1 = n1  BY DEF HInv, ActiveRight, ArgsRight
<1>2. CP!Columns(conditions) = V1  BY ActiveFacts, Copies
<1>3. v \notin CP!Row(conditions, depth)  BY Copies DEF Pushed
<1>4. conditions' =
        CP!store_size_conditions(CP!push_conditions(conditions, depth, v, b), v)
  BY Copies DEF PushedWith
<1>5. CP!Push(v, b)  BY <1>1, <1>3, <1>4 DEF CP!Push
<1> QED  BY <1>2, <1>5 DEF Driven, CP!Next

LEMMA DrivenDescend ==
  ASSUME HInv, Active, depth < n1, depth' = depth + 1, UNCHANGED << conditions, open >>
  PROVE  Driven
<1>1. open = TRUE /\ conditions.nr1 = n1  BY DEF HInv, ActiveRight, ArgsRight
<1> QED  BY <1>1 DEF Driven, CP!Next, CP!Descend

LEMMA DrivenLeave ==
  ASSUME HInv, Active, Leave
  PROVE  Driven
<1>1. open = TRUE /\ conditions.nr1 = n1  BY DEF HInv, ActiveRight, ArgsRight
<1>2. depth \in Nat /\ n1 \in Nat /\ n1 \in 1 .. Size - 1  BY ActiveFacts
<1>3. CP!pop_conditions(conditions, depth) = pop_conditions(conditions, depth)  BY Copies
<1>4. CASE depth > 0
  <2>1. open' = open /\ depth' = depth - 1  BY <1>1, <1>4 DEF Leave
  <2>2. conditions' = IF depth < conditions.nr1
                      THEN CP!pop_conditions(conditions, depth) ELSE conditions
    BY <1>1, <1>3 DEF Leave
  <2>3. CP!Return  BY <1>1, <1>4, <2>1, <2>2 DEF CP!Return
  <2> QED  BY <2>3 DEF Driven, CP!Next
<1>5. CASE depth = 0
  <2>3. open' = (depth > 0) /\ depth' = (IF depth > 0 THEN depth - 1 ELSE 0)  BY DEF Leave
  <2>4. (depth > 0) = FALSE  BY <1>5
  <2>1. open' = FALSE /\ depth' = depth  BY <1>5, <2>3, <2>4
  <2>2. conditions' = CP!pop_conditions(conditions, 0)
    BY <1>2, <1>3, <1>5 DEF Leave
  <2> QED  BY <1>1, <1>5, <2>1, <2>2 DEF Driven, CP!Next, CP!Finish
<1> QED  BY <1>2, <1>4, <1>5

LEMMA DrivenPickInPlace ==
  ASSUME CP!IInv, HInv, PickInPlace, InPlace
  PROVE  Driven
<1>0. Active /\ status = "search" /\ F.stage = "pick"  BY DEF PickInPlace, InSearch, Active
<1>1. open = TRUE /\ conditions.nr1 = n1  BY <1>0 DEF HInv, ActiveRight, ArgsRight
<1>2. depth \in Nat /\ n1 \in Nat /\ Columns(conditions) = V1 /\ depth < n1
  BY <1>0, ActiveFacts DEF HInv, ActiveRight, FramesRight
<1> DEFINE v == Chosen.next
           b == REPS[F.rep_depth] \cap (Bits \ VALS)
<1>3. v \in Left /\ v \in V1  BY <1>0, ChosenRight DEF Left
<1>4. v \in Row(conditions, depth)
  <2>1. CASE depth = 0  BY <1>1, <1>2, <1>3, <2>1, ObjectFacts
  <2>2. CASE depth # 0
    <3>1. PickOf(F, Pushed)  BY <1>0 DEF HInv, ActiveRight, TopRight
    <3>2. depth > 0  BY <1>2, <2>2
    <3>3. Left \subseteq Pushed  BY <1>0, <3>1, <3>2 DEF PickOf
    <3> QED  BY <1>3, <3>3 DEF Pushed
  <2> QED  BY <2>1, <2>2
<1>5. conditions' = IntersectTop(conditions, v, b)
  BY <1>0, <1>3, InPlaceMask DEF PickInPlace
<1>6. b \in SUBSET Bits  OBVIOUS
<1>7. UNCHANGED << depth, open >>  BY DEF PickInPlace
<1> HIDE DEF v, b
<1>8. CP!NarrowInPlace(v, b)
  BY <1>1, <1>2, <1>4, <1>5, <1>7, Copies DEF CP!NarrowInPlace
<1>9. v \in CP!Columns(conditions)  BY <1>2, <1>3, Copies
<1> QED  BY <1>6, <1>8, <1>9 DEF Driven, CP!Next

------------------------------------------------------------------------------
(* The six functions keep the invariant, and drive the object.               *)
Kept == HInv' /\ Driven

(* A narrowing that leaves the object as p.                                  *)
NarrowTo(p, v) ==
  /\ InSearch("narrow") \/ InSearch("narrow2")
  /\ ToNarrow(BIT_ARRAY_BUFFER[depth]) # {}
  /\ v = Min(ToNarrow(BIT_ARRAY_BUFFER[depth]))
  /\ conditions' = p
  /\ Running(IF size_conditions(p, v) = 0 THEN [F EXCEPT !.stage = "leave"]
             ELSE [STORE_MIN(F, size_conditions(p, v), v) EXCEPT !.at = v])
  /\ UNCHANGED << depth, open, globals, args, status, results, calls >>

PushesOrNot(p, v) ==
  \/ \E b \in SUBSET Bits : p = PushedWith(conditions, depth, v, b)
  \/ p = conditions /\ ~ InPlace

LEMMA NarrowKeeps ==
  ASSUME CP!IInv, HInv, NEW p, NEW v, NarrowTo(p, v), PushesOrNot(p, v)
  PROVE  Kept
<1>1. HInv'  BY NarrowStep DEF NarrowTo, PushesOrNot
<1>2. status = "search" /\ F.stage \in { "narrow", "narrow2" } /\ Active
  BY DEF NarrowTo, InSearch, Active
<1>3. Buffer = BIT_ARRAY_BUFFER[depth]  BY <1>2 DEF Buffer
<1>4. v \in Left /\ v \notin Pushed
  <2>1. ToNarrow(Buffer) # {} /\ v = Min(ToNarrow(Buffer))  BY <1>3 DEF NarrowTo
  <2> QED  BY <1>2, <2>1, NextToNarrow
<1>5. depth \in 1 .. n1 - 1 /\ v \in V1  BY <1>2, <1>4, LeftFacts
<1>6. conditions' = p /\ UNCHANGED << depth, open >>  BY DEF NarrowTo
<1>7. CASE \E b \in SUBSET Bits : p = PushedWith(conditions, depth, v, b)
  <2>1. PICK b \in SUBSET Bits : p = PushedWith(conditions, depth, v, b)  BY <1>7
  <2>2. conditions' = PushedWith(conditions, depth, v, b)  BY <1>6, <2>1
  <2>3. Driven  BY <1>2, <1>4, <1>5, <1>6, <2>2, DrivenPush
  <2> QED  BY <1>1, <2>3 DEF Kept
<1>8. CASE p = conditions
  BY <1>1, <1>6, <1>8 DEF Kept, Driven
<1> QED  BY <1>7, <1>8 DEF PushesOrNot

(* All six helpers push, but the one that may leave a column alone.          *)
LEMMA HelpersPush ==
  ASSUME CP!IInv, HInv, status = "search", F.stage \in { "narrow", "narrow2" },
         ToNarrow(BIT_ARRAY_BUFFER[depth]) # {},
         NEW v, v = Min(ToNarrow(BIT_ARRAY_BUFFER[depth]))
  PROVE  /\ PushesOrNot(graph_homo_update_conditions(conditions, depth, F.pos, v), v)
         /\ PushesOrNot(graph_mono_update_conditions(conditions, depth, F.pos, v), v)
         /\ PushesOrNot(graph_embed_update_conditions(conditions, depth, F.pos, v), v)
         /\ ~ InPlace =>
              PushesOrNot(digraph_homo_update_conditions(conditions, depth, F.pos, v), v)
         /\ PushesOrNot(digraph_mono_update_conditions(conditions, depth, F.pos, v), v)
         /\ PushesOrNot(digraph_embed_update_conditions(conditions, depth, F.pos, v), v)
<1>1. Active  BY DEF Active
<1>2. Buffer = BIT_ARRAY_BUFFER[depth]  BY DEF Buffer
<1>3. v \in Left /\ v \notin Pushed  BY <1>1, <1>2, NextToNarrow
<1>4. depth \in 1 .. n1 - 1 /\ v \in V1 /\ Columns(conditions) = V1
  BY <1>1, <1>3, LeftFacts, ActiveFacts
<1>5. open /\ conditions.nr1 = n1 /\ args \in Arguments
  BY <1>1 DEF HInv, ActiveRight, ArgsRight
<1>6. depth \in 1 .. conditions.nr1 - 1 /\ v \in Columns(conditions)
      /\ v \notin Row(conditions, depth)
  BY <1>3, <1>4, <1>5 DEF Pushed
<1> DEFINE Pushes(p) == \E b \in SUBSET Bits : p = PushedWith(conditions, depth, v, b)
           l == F.pos
<1> HIDE DEF l
<1>7. /\ Pushes(graph_homo_update_conditions(conditions, depth, l, v))
      /\ Pushes(graph_mono_update_conditions(conditions, depth, l, v))
      /\ Pushes(graph_embed_update_conditions(conditions, depth, l, v))
      /\ \/ Pushes(digraph_homo_update_conditions(conditions, depth, l, v))
         \/ digraph_homo_update_conditions(conditions, depth, l, v) = conditions
      /\ Pushes(digraph_mono_update_conditions(conditions, depth, l, v))
      /\ Pushes(digraph_embed_update_conditions(conditions, depth, l, v))
  BY <1>5, <1>6, UpdatesPush
<1> QED  BY <1>7 DEF PushesOrNot, l

LEMMA PickKeeps ==
  ASSUME CP!IInv, HInv, ~ InPlace,
         Pick("new", NewValues) \/ Pick("old", OldValues)
  PROVE  Kept
<1>1. Active /\ status = "search" /\ F.stage = "pick" /\ InSearch("pick")
  BY DEF Pick, InSearch, Active
<1>2. depth < n1  BY <1>1 DEF HInv, ActiveRight, FramesRight
<1>3. UNCHANGED << conditions, depth, open, MAP, VALS, MAP_UNDEFINED, IMAGE_RESTRICT,
                   STAB_GENS, REPS, args, status, results, calls >>
  BY DEF Pick
<1>4. Driven  BY <1>3 DEF Driven
<1>5. CASE Pick("new", NewValues)
  <2> DEFINE x == NewValues(Chosen.next)
  <2>1. x \in SUBSET Bits /\ SetBits(x, n2) \cap ValuesAt(Height) = {}
    BY <1>1, <1>2, ValuesRight
  <2>2. /\ Running([Chosen EXCEPT !.stage = "new"])
        /\ BIT_ARRAY_BUFFER' = [BIT_ARRAY_BUFFER EXCEPT ![depth] = x]
    BY <1>5 DEF Pick
  <2> HIDE DEF x
  <2>3. HInv'  BY <1>1, <1>3, <2>1, <2>2, PickStep
  <2> QED  BY <1>4, <2>3 DEF Kept
<1>6. CASE Pick("old", OldValues)
  <2> DEFINE x == OldValues(Chosen.next)
  <2>1. x \in SUBSET Bits /\ SetBits(x, n2) \subseteq ValuesAt(Height)
    BY <1>1, <1>2, ValuesRight
  <2>2. /\ Running([Chosen EXCEPT !.stage = "old"])
        /\ BIT_ARRAY_BUFFER' = [BIT_ARRAY_BUFFER EXCEPT ![depth] = x]
    BY <1>6 DEF Pick
  <2> HIDE DEF x
  <2>3. HInv'  BY <1>1, <1>3, <2>1, <2>2, PickStep
  <2> QED  BY <1>4, <2>3 DEF Kept
<1> QED  BY <1>5, <1>6

LEMMA CallKeeps ==
  ASSUME CP!IInv, HInv,
         \/ TryOld /\ ~ InPlace
         \/ \E possible : possible = ToChoose(Height) /\ TryNew(possible)
  PROVE  Kept
<1>1. Active /\ F.stage \in { "new", "old" }  BY DEF TryOld, TryNew, InSearch, Active
<1>2. depth < n1  BY <1>1 DEF HInv, ActiveRight, FramesRight
<1>3. HInv'  BY TryOldStep, TryNewStep
<1>4. depth' = depth + 1 /\ UNCHANGED << conditions, open >>
  BY DEF TryOld, TryNew, Assign
<1> QED  BY <1>1, <1>2, <1>3, <1>4, DrivenDescend DEF Kept

LEMMA ReturnKeeps ==
  ASSUME CP!IInv, HInv, status = "search", Leave
  PROVE  Kept
BY LeaveStep, DrivenLeave DEF Kept, Active

LEMMA ReportKeeps ==
  ASSUME CP!IInv, HInv, NEW rank_matters \in BOOLEAN, Report(rank_matters)
  PROVE  Kept
<1>1. HInv'  BY ReportStep
<1>2. status = "search" /\ Active  BY DEF Report, InSearch, Active
<1>3. CASE Leave  BY <1>2, <1>3, ReturnKeeps
<1>4. CASE ~ Leave
  <2>1. UNCHANGED << conditions, depth, open >>  BY <1>4 DEF Report
  <2> QED  BY <1>1, <2>1 DEF Kept, Driven
<1> QED  BY <1>3, <1>4

(* The steps that all the functions have.                                    *)
CommonStep == Report(TRUE) \/ Report(FALSE) \/ Enter \/ Narrowed \/ DeadEnd

LEMMA CommonKeeps ==
  ASSUME CP!IInv, HInv, CommonStep
  PROVE  Kept
<1>1. CASE Report(TRUE)
  <2>1. TRUE \in BOOLEAN  OBVIOUS
  <2> QED  BY <1>1, <2>1, ReportKeeps
<1>2. CASE Report(FALSE)
  <2>1. FALSE \in BOOLEAN  OBVIOUS
  <2> QED  BY <1>2, <2>1, ReportKeeps
<1>3. CASE Enter
  <2>1. UNCHANGED << conditions, depth, open >>  BY <1>3 DEF Enter
  <2>2. HInv'  BY <1>3, EnterStep
  <2> QED  BY <2>1, <2>2 DEF Kept, Driven
<1>4. CASE Narrowed
  <2>1. UNCHANGED << conditions, depth, open >>  BY <1>4 DEF Narrowed
  <2>2. HInv'  BY <1>4, NarrowedStep
  <2> QED  BY <2>1, <2>2 DEF Kept, Driven
<1>5. CASE DeadEnd
  BY <1>5, ReturnKeeps DEF DeadEnd, InSearch
<1> QED  BY <1>1, <1>2, <1>3, <1>4, <1>5 DEF CommonStep

LEMMA TurnKeeps ==
  ASSUME CP!IInv, HInv, TurnToOld, ~ InPlace
  PROVE  Kept
<1>1. UNCHANGED << conditions, depth, open >>  BY DEF TurnToOld
<1> QED  BY <1>1, TurnToOldStep DEF Kept, Driven

LEMMA OthersKeep ==
  ASSUME CP!IInv, HInv, NarrowOthers
  PROVE  Kept
<1>1. UNCHANGED << conditions, depth, open >>  BY DEF NarrowOthers
<1> QED  BY <1>1, NarrowOthersStep DEF Kept, Driven

LEMMA InPlaceKeeps ==
  ASSUME CP!IInv, HInv, PickInPlace, InPlace
  PROVE  Kept
BY PickInPlaceStep, DrivenPickInPlace DEF Kept

LEMMA GraphHomosKeep ==
  ASSUME CP!IInv, HInv, find_graph_homos
  PROVE  Kept
<1>1. Searching(TRUE, 0) /\ Homos(graph_homo_update_conditions)  BY DEF find_graph_homos
<1>2. status = "search" /\ ~ InPlace  BY <1>1 DEF Searching, InPlace
<1>3. ToChoose(Height) = BIT_ARRAY_BUFFER[depth]
  BY <1>2, ActiveFacts DEF ToChoose, Active
<1>4. CASE Narrow(graph_homo_update_conditions)
  <2> DEFINE v == Min(ToNarrow(BIT_ARRAY_BUFFER[depth]))
             p == graph_homo_update_conditions(conditions, depth, F.pos, v)
  <2>1. NarrowTo(p, v)  BY <1>4 DEF Narrow, NarrowTo
  <2>2. PushesOrNot(p, v)  BY <1>2, <2>1, HelpersPush DEF NarrowTo, InSearch
  <2> QED  BY <2>1, <2>2, NarrowKeeps
<1>5. CASE CommonStep  BY <1>5, CommonKeeps
<1>6. CASE Pick("new", NewValues) \/ Pick("old", OldValues)  BY <1>2, <1>6, PickKeeps
<1>7. CASE TryNew(BIT_ARRAY_BUFFER[depth]) \/ TryOld  BY <1>2, <1>3, <1>7, CallKeeps
<1>8. CASE TurnToOld  BY <1>2, <1>8, TurnKeeps
<1>9. CASE Exhausted("old", BIT_ARRAY_BUFFER[depth])
  BY <1>2, <1>9, ReturnKeeps DEF Exhausted
<1> QED  BY <1>1, <1>4, <1>5, <1>6, <1>7, <1>8, <1>9 DEF Homos, CommonStep

LEMMA DigraphHomosKeep ==
  ASSUME CP!IInv, HInv, find_digraph_homos
  PROVE  Kept
<1>1. Searching(FALSE, 0) /\ Homos(digraph_homo_update_conditions)  BY DEF find_digraph_homos
<1>2. status = "search" /\ ~ InPlace  BY <1>1 DEF Searching, InPlace
<1>3. ToChoose(Height) = BIT_ARRAY_BUFFER[depth]
  BY <1>2, ActiveFacts DEF ToChoose, Active
<1>4. CASE Narrow(digraph_homo_update_conditions)
  <2> DEFINE v == Min(ToNarrow(BIT_ARRAY_BUFFER[depth]))
             p == digraph_homo_update_conditions(conditions, depth, F.pos, v)
  <2>1. NarrowTo(p, v)  BY <1>4 DEF Narrow, NarrowTo
  <2>2. PushesOrNot(p, v)  BY <1>2, <2>1, HelpersPush DEF NarrowTo, InSearch
  <2> QED  BY <2>1, <2>2, NarrowKeeps
<1>5. CASE CommonStep  BY <1>5, CommonKeeps
<1>6. CASE Pick("new", NewValues) \/ Pick("old", OldValues)  BY <1>2, <1>6, PickKeeps
<1>7. CASE TryNew(BIT_ARRAY_BUFFER[depth]) \/ TryOld  BY <1>2, <1>3, <1>7, CallKeeps
<1>8. CASE TurnToOld  BY <1>2, <1>8, TurnKeeps
<1>9. CASE Exhausted("old", BIT_ARRAY_BUFFER[depth])
  BY <1>2, <1>9, ReturnKeeps DEF Exhausted
<1> QED  BY <1>1, <1>4, <1>5, <1>6, <1>7, <1>8, <1>9 DEF Homos, CommonStep

LEMMA GraphMonosKeep ==
  ASSUME CP!IInv, HInv, find_graph_monos
  PROVE  Kept
<1>1. Searching(TRUE, 1) /\ InjectiveMaps(graph_mono_update_conditions)
  BY DEF find_graph_monos
<1>2. status = "search" /\ ~ InPlace  BY <1>1 DEF Searching, InPlace
<1>3. ToChoose(Height) = BIT_ARRAY_BUFFER[depth]
  BY <1>2, ActiveFacts DEF ToChoose, Active
<1>4. CASE Narrow(graph_mono_update_conditions)
  <2> DEFINE v == Min(ToNarrow(BIT_ARRAY_BUFFER[depth]))
             p == graph_mono_update_conditions(conditions, depth, F.pos, v)
  <2>1. NarrowTo(p, v)  BY <1>4 DEF Narrow, NarrowTo
  <2>2. PushesOrNot(p, v)  BY <1>2, <2>1, HelpersPush DEF NarrowTo, InSearch
  <2> QED  BY <2>1, <2>2, NarrowKeeps
<1>5. CASE CommonStep  BY <1>5, CommonKeeps
<1>6. CASE Pick("new", NewValues)  BY <1>2, <1>6, PickKeeps
<1>7. CASE TryNew(BIT_ARRAY_BUFFER[depth])  BY <1>3, <1>7, CallKeeps
<1>8. CASE Exhausted("new", BIT_ARRAY_BUFFER[depth])
  BY <1>2, <1>8, ReturnKeeps DEF Exhausted
<1> QED  BY <1>1, <1>4, <1>5, <1>6, <1>7, <1>8 DEF InjectiveMaps, CommonStep

LEMMA DigraphMonosKeep ==
  ASSUME CP!IInv, HInv, find_digraph_monos
  PROVE  Kept
<1>1. Searching(FALSE, 1) /\ InjectiveMaps(digraph_mono_update_conditions)
  BY DEF find_digraph_monos
<1>2. status = "search" /\ ~ InPlace  BY <1>1 DEF Searching, InPlace
<1>3. ToChoose(Height) = BIT_ARRAY_BUFFER[depth]
  BY <1>2, ActiveFacts DEF ToChoose, Active
<1>4. CASE Narrow(digraph_mono_update_conditions)
  <2> DEFINE v == Min(ToNarrow(BIT_ARRAY_BUFFER[depth]))
             p == digraph_mono_update_conditions(conditions, depth, F.pos, v)
  <2>1. NarrowTo(p, v)  BY <1>4 DEF Narrow, NarrowTo
  <2>2. PushesOrNot(p, v)  BY <1>2, <2>1, HelpersPush DEF NarrowTo, InSearch
  <2> QED  BY <2>1, <2>2, NarrowKeeps
<1>5. CASE CommonStep  BY <1>5, CommonKeeps
<1>6. CASE Pick("new", NewValues)  BY <1>2, <1>6, PickKeeps
<1>7. CASE TryNew(BIT_ARRAY_BUFFER[depth])  BY <1>3, <1>7, CallKeeps
<1>8. CASE Exhausted("new", BIT_ARRAY_BUFFER[depth])
  BY <1>2, <1>8, ReturnKeeps DEF Exhausted
<1> QED  BY <1>1, <1>4, <1>5, <1>6, <1>7, <1>8 DEF InjectiveMaps, CommonStep

LEMMA GraphEmbeddingsKeep ==
  ASSUME CP!IInv, HInv, find_graph_embeddings
  PROVE  Kept
<1>1. Searching(TRUE, 2) /\ (NarrowOthers \/ InjectiveMaps(graph_embed_update_conditions))
  BY DEF find_graph_embeddings
<1>2. status = "search" /\ ~ InPlace  BY <1>1 DEF Searching, InPlace
<1>3. ToChoose(Height) = BIT_ARRAY_BUFFER[depth]
  BY <1>2, ActiveFacts DEF ToChoose, Active
<1>4. CASE Narrow(graph_embed_update_conditions)
  <2> DEFINE v == Min(ToNarrow(BIT_ARRAY_BUFFER[depth]))
             p == graph_embed_update_conditions(conditions, depth, F.pos, v)
  <2>1. NarrowTo(p, v)  BY <1>4 DEF Narrow, NarrowTo
  <2>2. PushesOrNot(p, v)  BY <1>2, <2>1, HelpersPush DEF NarrowTo, InSearch
  <2> QED  BY <2>1, <2>2, NarrowKeeps
<1>5. CASE CommonStep  BY <1>5, CommonKeeps
<1>6. CASE Pick("new", NewValues)  BY <1>2, <1>6, PickKeeps
<1>7. CASE TryNew(BIT_ARRAY_BUFFER[depth])  BY <1>3, <1>7, CallKeeps
<1>8. CASE Exhausted("new", BIT_ARRAY_BUFFER[depth])
  BY <1>2, <1>8, ReturnKeeps DEF Exhausted
<1>9. CASE NarrowOthers  BY <1>9, OthersKeep
<1> QED  BY <1>1, <1>4, <1>5, <1>6, <1>7, <1>8, <1>9 DEF InjectiveMaps, CommonStep

LEMMA DigraphEmbeddingsKeep ==
  ASSUME CP!IInv, HInv, find_digraph_embeddings
  PROVE  Kept
<1>1. Searching(FALSE, 2)  BY DEF find_digraph_embeddings
<1>2. status = "search" /\ InPlace  BY <1>1 DEF Searching, InPlace
<1>3. ToChoose(Height) = get_conditions(conditions, F.next)
  BY <1>2, ActiveFacts DEF ToChoose, Active
<1>4. CASE Narrow(digraph_embed_update_conditions)
  <2> DEFINE v == Min(ToNarrow(BIT_ARRAY_BUFFER[depth]))
             p == digraph_embed_update_conditions(conditions, depth, F.pos, v)
  <2>1. NarrowTo(p, v)  BY <1>4 DEF Narrow, NarrowTo
  <2>2. PushesOrNot(p, v)  BY <1>2, <2>1, HelpersPush DEF NarrowTo, InSearch
  <2> QED  BY <2>1, <2>2, NarrowKeeps
<1>5. CASE CommonStep  BY <1>5, CommonKeeps
<1>6. CASE PickInPlace  BY <1>2, <1>6, InPlaceKeeps
<1>7. CASE TryNew(get_conditions(conditions, F.next))  BY <1>3, <1>7, CallKeeps
<1>8. CASE Exhausted("new", get_conditions(conditions, F.next))
  BY <1>2, <1>8, ReturnKeeps DEF Exhausted
<1> QED  BY <1>4, <1>5, <1>6, <1>7, <1>8 DEF find_digraph_embeddings, CommonStep

(* So do the steps that install the partial map.                             *)
LEMMA PartialKeeps ==
  ASSUME CP!IInv, HInv, init_partial_map_and_find
  PROVE  Kept
<1>1. CASE PartialEntry
  <2>1. UNCHANGED << conditions, depth, open >>  BY <1>1 DEF PartialEntry
  <2> QED  BY <1>1, <2>1, PartialEntryStep DEF Kept, Driven
<1>2. CASE PartialNarrowed
  <2>1. UNCHANGED << conditions, depth, open >>  BY <1>2 DEF PartialNarrowed
  <2> QED  BY <1>2, <2>1, PartialNarrowedStep DEF Kept, Driven
<1>3. CASE PartialDone
  <2>1. UNCHANGED << conditions, depth, open >>  BY <1>3 DEF PartialDone
  <2> QED  BY <1>3, <2>1, PartialDoneStep DEF Kept, Driven
<1>4. CASE PartialInstall
  <2>1. HInv'  BY <1>4, PartialInstallStep
  <2>2. Active /\ F.stage = "install"  BY <1>4 DEF PartialInstall, InPartial, Active
  <2>3. depth < n1  BY <2>2 DEF HInv, ActiveRight, FramesRight
  <2>4. UNCHANGED << conditions, open >> /\ (depth' = depth + 1 \/ depth' = depth)
    BY <1>4 DEF PartialInstall
  <2>5. CASE depth' = depth + 1  BY <2>1, <2>2, <2>3, <2>4, <2>5, DrivenDescend DEF Kept
  <2>6. CASE depth' = depth  BY <2>1, <2>4, <2>6 DEF Kept, Driven
  <2> QED  BY <2>4, <2>5, <2>6
<1>5. CASE PartialNarrow
  <2>1. HInv'  BY <1>5, PartialNarrowStep
  <2>2. status = "partial" /\ Active /\ F.stage \in { "narrow", "narrow2" }
    BY <1>5 DEF PartialNarrow, InPartial, Active
  <2>3. Buffer = BIT_ARRAY_BUFFER[0]  BY <2>2 DEF Buffer
  <2>4. PICK v : v = Min(ToNarrow(Buffer))  OBVIOUS
  <2>5. ToNarrow(Buffer) # {} /\ conditions' = PartialUpdate(v) /\ UNCHANGED << depth, open >>
    BY <1>5, <2>3, <2>4 DEF PartialNarrow
  <2>6. v \in Left /\ v \notin Pushed  BY <2>2, <2>4, <2>5, NextToNarrow
  <2>7. depth \in 1 .. n1 - 1 /\ v \in V1  BY <2>2, <2>6, LeftFacts
  <2>8. \/ \E b \in SUBSET Bits : PartialUpdate(v) = PushedWith(conditions, depth, v, b)
        \/ PartialUpdate(v) = conditions /\ ~ InPlace
    BY <2>2, <2>4, <2>5, PartialUpdatePushes
  <2>9. CASE \E b \in SUBSET Bits : PartialUpdate(v) = PushedWith(conditions, depth, v, b)
    <3>1. PICK b \in SUBSET Bits : PartialUpdate(v) = PushedWith(conditions, depth, v, b)
      BY <2>9
    <3>2. conditions' = PushedWith(conditions, depth, v, b)  BY <2>5, <3>1
    <3> QED  BY <2>1, <2>2, <2>5, <2>6, <2>7, <3>2, DrivenPush DEF Kept
  <2>10. CASE PartialUpdate(v) = conditions
    BY <2>1, <2>5, <2>10 DEF Kept, Driven
  <2> QED  BY <2>8, <2>9, <2>10
<1> QED  BY <1>1, <1>2, <1>3, <1>4, <1>5 DEF init_partial_map_and_find

LEMMA RunKeeps ==
  ASSUME CP!IInv, HInv, Run
  PROVE  Kept
BY PartialKeeps, GraphHomosKeep, GraphMonosKeep, GraphEmbeddingsKeep, DigraphHomosKeep,
   DigraphMonosKeep, DigraphEmbeddingsKeep DEF Run

------------------------------------------------------------------------------
(* The beginning of a call.                                                  *)

(* Clearing the object and narrowing its bottom row is what module           *)
(* Conditions says.                                                          *)
LEMMA StartCopies ==
  /\ \A c, m1, m2, base : CP!NarrowBottom(c, m1, m2, base) = NarrowBottom(c, m1, m2, base)
  /\ \A c, m1, m2, base : CP!StartWith(c, m1, m2, base) = StartWith(c, m1, m2, base)
  /\ CP!new_conditions = new_conditions
<1>0. \A n : CP!Covered(n) = Covered(n)
  BY DEF CP!Covered, Covered, CP!number_of_blocks, number_of_blocks
<1>1. \A a, x, n : CP!init_bit_array(a, x, n) = init_bit_array(a, x, n)
  BY <1>0 DEF CP!init_bit_array, init_bit_array
<1>2. \A a, b, n : CP!intersect_bit_arrays(a, b, n) = intersect_bit_arrays(a, b, n)
  BY <1>0 DEF CP!intersect_bit_arrays, intersect_bit_arrays
<1>3. \A a, n : CP!size_bit_array(a, n) = size_bit_array(a, n)
  BY <1>0 DEF CP!size_bit_array, size_bit_array, Cardinality, CP!Cardinality
<1>4. \A old, m : CP!ClearedChanged(old, m) = ClearedChanged(old, m)
  BY DEF CP!ClearedChanged, ClearedChanged, CP!RowStart, RowStart
<1>5. ASSUME NEW c, NEW m1, NEW m2
      PROVE  CP!clear_conditions(c, m1, m2) = clear_conditions(c, m1, m2)
  BY <1>1, <1>4 DEF CP!clear_conditions, clear_conditions
<1>6. ASSUME NEW c, NEW m1, NEW m2, NEW base
      PROVE  CP!NarrowBottom(c, m1, m2, base) = NarrowBottom(c, m1, m2, base)
  BY <1>2, <1>5 DEF CP!NarrowBottom, NarrowBottom
<1>7. ASSUME NEW c, NEW m1, NEW m2, NEW base
      PROVE  CP!StartWith(c, m1, m2, base) = StartWith(c, m1, m2, base)
  BY <1>3, <1>6 DEF CP!StartWith, StartWith
<1>8. CP!new_conditions = new_conditions
  BY <1>1, <1>4 DEF CP!new_conditions, new_conditions, CP!Size, Size, CP!Unset, Unset
<1> QED  BY <1>6, <1>7, <1>8

(* The sizes a search starts with, and those an aborted start keeps.         *)
LEMMA StartSizes ==
  ASSUME CP!IInv, SizesSmall, NEW m1 \in 1 .. Size, NEW m2 \in 1 .. Size, NEW base
  PROVE  /\ \A k \in 0 .. Size * Size - 1 :
              StartWith(conditions, m1, m2, base).sizes[k] < UNDEFINED
         /\ \A k \in 0 .. Size * Size - 1 :
              NarrowBottom(conditions, m1, m2, base).sizes[k] < UNDEFINED
         /\ StartWith(conditions, m1, m2, base).nr1 = m1
         /\ StartWith(conditions, m1, m2, base).nr2 = m2
<1> DEFINE c == conditions
           narrowed == NarrowBottom(c, m1, m2, base)
           started == StartWith(c, m1, m2, base)
<1>1. c \in ConditionsType  BY ObjectFacts
<1>2. narrowed \in ConditionsType  BY <1>1, NarrowBottomType
<1>3. narrowed.sizes = c.sizes /\ narrowed.nr1 = m1 /\ narrowed.nr2 = m2
  BY <1>1 DEF NarrowBottom, clear_conditions, ConditionsType
<1> HIDE DEF narrowed
<1>4. started = [ narrowed EXCEPT
                    !.sizes = [k \in DOMAIN c.sizes |->
                                 IF k < m1 THEN size_bit_array(narrowed.bit_array[k], m2)
                                 ELSE c.sizes[k]] ]
  BY DEF StartWith, narrowed
<1> HIDE DEF started
<1>5. /\ started.sizes = [k \in DOMAIN c.sizes |->
                            IF k < m1 THEN size_bit_array(narrowed.bit_array[k], m2)
                            ELSE c.sizes[k]]
      /\ started.nr1 = m1 /\ started.nr2 = m2
  BY <1>2, <1>3, <1>4 DEF ConditionsType
<1>6. DOMAIN c.sizes = 0 .. Size * Size - 1  BY <1>1 DEF ConditionsType
<1>7. ASSUME NEW k \in 0 .. Size * Size - 1
      PROVE  started.sizes[k] < UNDEFINED /\ narrowed.sizes[k] < UNDEFINED
  <2>1. narrowed.bit_array[k] \in SUBSET Bits  BY <1>2 DEF ConditionsType
  <2>2. size_bit_array(narrowed.bit_array[k], m2) < UNDEFINED  BY <2>1, SizeSmall
  <2>3. c.sizes[k] < UNDEFINED  BY DEF SizesSmall
  <2> QED  BY <1>3, <1>5, <1>6, <2>2, <2>3
<1> QED  BY <1>5, <1>7 DEF narrowed, started

LEMMA ArgumentFacts ==
  ASSUME NEW a \in Arguments
  PROVE  /\ a.digraph1.n \in 1 .. Size - 1 /\ a.digraph2.n \in 1 .. Size - 1
         /\ a.digraph1.n \in 1 .. Size /\ a.digraph2.n \in 1 .. Size
         /\ a.digraph1.n \in Nat /\ a.digraph2.n \in Nat
         /\ a.digraph2.n \in 0 .. Size /\ a.digraph1.n \in 0 .. Size
         /\ a.image \in SUBSET Bits
         /\ DOMAIN a.partial_map \in SUBSET Nat
         /\ \A v \in DOMAIN a.partial_map : a.partial_map[v] \in Bits
         /\ Vertices(a.digraph2) \in SUBSET Bits
<1>1. Size \in Nat \ {0} /\ 0 .. Size - 1 \subseteq Bits  BY SizeFacts
<1>2. a.digraph1.n \in 1 .. Size - 1 /\ a.digraph2.n \in 1 .. Size - 1
  BY ArgumentsAssumption
<1>3. Vertices(a.digraph2) \in SUBSET Bits /\ Vertices(a.digraph1) \in SUBSET Nat
  BY <1>1, <1>2 DEF Vertices
<1>4. a.image \in SUBSET Bits /\ DOMAIN a.partial_map \in SUBSET Nat
  BY <1>3, ArgumentsAssumption
<1>5. \A v \in DOMAIN a.partial_map : a.partial_map[v] \in Bits
  BY <1>4, ArgumentsAssumption
<1> QED  BY <1>1, <1>2, <1>3, <1>4, <1>5

(* What ClearMaps leaves is in the types.                                    *)
LEMMA Cleared ==
  ASSUME HInv, NEW a \in Arguments, ClearMaps(a)
  PROVE  /\ MAP_UNDEFINED' \in [0 .. Size - 1 -> SUBSET Bits]
         /\ VALS' \in SUBSET Bits /\ IMAGE_RESTRICT' \in SUBSET Bits
         /\ SetBits(MAP_UNDEFINED'[0], a.digraph1.n) = 0 .. a.digraph1.n - 1
         /\ SetBits(VALS', a.digraph2.n) = {}
<1>1. /\ MAP_UNDEFINED \in [0 .. Size - 1 -> SUBSET Bits] /\ VALS \in SUBSET Bits
  BY DEF HInv, Fields
<1>2. 0 \in 0 .. Size - 1  BY SizeFacts
<1> DEFINE x == init_bit_array(MAP_UNDEFINED[0], TRUE, a.digraph1.n)
<1>3. x \in SUBSET Bits /\ SetBits(x, a.digraph1.n) = 0 .. a.digraph1.n - 1
  <2>1. MAP_UNDEFINED[0] \in SUBSET Bits  BY <1>1, <1>2
  <2> QED  BY <2>1, ArgumentFacts, BitsTypes, InitMeant
<1>4. MAP_UNDEFINED' = [MAP_UNDEFINED EXCEPT ![0] = x]  BY DEF ClearMaps
<1> HIDE DEF x
<1>5. /\ MAP_UNDEFINED' \in [0 .. Size - 1 -> SUBSET Bits]
      /\ MAP_UNDEFINED'[0] = x
  BY <1>1, <1>2, <1>3, <1>4
<1>6. VALS' = init_bit_array(VALS, FALSE, a.digraph2.n) /\ IMAGE_RESTRICT' = a.image
  BY DEF ClearMaps
<1>7. VALS' \in SUBSET Bits /\ SetBits(VALS', a.digraph2.n) = {}
  BY <1>1, <1>6, ArgumentFacts, BitsTypes, InitMeant
<1> QED  BY <1>3, <1>5, <1>6, <1>7, ArgumentFacts

LEMMA BeginStep ==
  ASSUME CP!IInv, HInv, NEW a \in Arguments, Begin(a)
  PROVE  Kept
<1> DEFINE m1 == a.digraph1.n
           m2 == a.digraph2.n
           G == Frame(UNDEFINED, 0, Group(a) = {Identity(m2)}, 0)
<1>1. /\ m1 \in 1 .. Size - 1 /\ m2 \in 1 .. Size - 1 /\ m1 \in 1 .. Size /\ m2 \in 1 .. Size
      /\ m1 \in Nat /\ m2 \in Nat /\ m2 \in 0 .. Size /\ Size \in Nat
  BY ArgumentFacts, SizeFacts
<1>2. /\ args' = a /\ status' = "partial" /\ depth' = 0 /\ open' = TRUE /\ calls' = calls + 1
      /\ calls < MaxCalls /\ ClearMaps(a) /\ stack' = << G >>
      /\ conditions' = StartWith(conditions, m1, m2, BaseRow(a))
      /\ MAP' = [i \in DOMAIN MAP |-> IF i < m1 THEN UNDEFINED
                                      ELSE IF i < m2 THEN i ELSE MAP[i]]
  BY DEF Begin, NewCall
<1>3. n1' = m1 /\ n2' = m2 /\ V1' = 0 .. m1 - 1 /\ V2' = 0 .. m2 - 1
  BY <1>2 DEF n1, n2, V1, V2
<1>4. CalledOf(G, UNDEFINED, 0, 0)
  <2>1. UNDEFINED \in Nat /\ 0 \in Nat  BY DEF UNDEFINED
  <2>2. (Group(a) = {Identity(m2)}) \in BOOLEAN  OBVIOUS
  <2> QED  BY <2>1, <2>2, CalledFrame
<1> HIDE DEF m1, m2, G
<1>5. stack' \in Seq(FrameType) /\ Height' = 1 /\ F' = G /\ stack'[1] = G
  BY <1>2, <1>4 DEF CalledOf, Height, F, Last
<1>6. /\ MAP' \in [0 .. Size - 1 -> 0 .. Size - 1 \cup { UNDEFINED }]
      /\ Assigned' = {}
  <2>1. MAP \in [0 .. Size - 1 -> 0 .. Size - 1 \cup { UNDEFINED }]  BY DEF HInv, Fields
  <2>2. MAP' \in [0 .. Size - 1 -> 0 .. Size - 1 \cup { UNDEFINED }]
    BY <1>1, <1>2, <2>1
  <2>3. \A v \in 0 .. m1 - 1 : MAP'[v] = UNDEFINED
    BY <1>1, <1>2, <2>1
  <2>4. Assigned' = { v \in 0 .. m1 - 1 : MAP'[v] # UNDEFINED }  BY <1>3 DEF Assigned
  <2> QED  BY <2>2, <2>3, <2>4
<1>7. /\ MAP_UNDEFINED' \in [0 .. Size - 1 -> SUBSET Bits]
      /\ VALS' \in SUBSET Bits /\ IMAGE_RESTRICT' \in SUBSET Bits
      /\ SetBits(MAP_UNDEFINED'[0], m1) = 0 .. m1 - 1
      /\ SetBits(VALS', m2) = {}
  BY <1>2, Cleared DEF m1, m2
<1>8. BIT_ARRAY_BUFFER' \in [0 .. Size - 1 -> SUBSET Bits]
  <2> DEFINE x == init_bit_array(BIT_ARRAY_BUFFER[0], FALSE, m2)
                   \cup (IF a.colors1 = << >> THEN Loops(a.digraph2)
                         ELSE SameColor(a, m1 - 1))
  <2>1. BIT_ARRAY_BUFFER \in [0 .. Size - 1 -> SUBSET Bits]  BY DEF HInv, Fields
  <2>2. BIT_ARRAY_BUFFER[0] \in SUBSET Bits  BY <2>1, SizeFacts
  <2>3. init_bit_array(BIT_ARRAY_BUFFER[0], FALSE, m2) \in SUBSET Bits
    BY <1>1, <2>2, BitsTypes
  <2>4. Loops(a.digraph2) \in SUBSET Bits /\ SameColor(a, m1 - 1) \in SUBSET Bits
    BY ArgumentFacts DEF Loops, SameColor
  <2>5. x \in SUBSET Bits  BY <2>3, <2>4
  <2>6. BIT_ARRAY_BUFFER' = [BIT_ARRAY_BUFFER EXCEPT ![0] = x]  BY DEF Begin, m1, m2
  <2> HIDE DEF x
  <2> QED  BY <2>1, <2>5, <2>6
<1>9. REPS' \in [0 .. Size - 1 -> SUBSET Bits] /\ DOMAIN STAB_GENS' = 0 .. Size - 1
  <2> DEFINE x == init_bit_array(REPS[0], FALSE, m2) \cup OrbitReps(Group(a), a.image, {})
  <2>1. REPS \in [0 .. Size - 1 -> SUBSET Bits] /\ DOMAIN STAB_GENS = 0 .. Size - 1
    BY DEF HInv, Fields
  <2>2. REPS[0] \in SUBSET Bits  BY <2>1, SizeFacts
  <2>3. init_bit_array(REPS[0], FALSE, m2) \in SUBSET Bits  BY <1>1, <2>2, BitsTypes
  <2>4. OrbitReps(Group(a), a.image, {}) \in SUBSET Bits  BY ArgumentFacts DEF OrbitReps
  <2>5. x \in SUBSET Bits  BY <2>3, <2>4
  <2>6. REPS' = [REPS EXCEPT ![0] = x]  BY DEF Begin, m2
  <2>7. DOMAIN STAB_GENS' = DOMAIN STAB_GENS  BY DEF Begin
  <2> HIDE DEF x
  <2> QED  BY <2>1, <2>5, <2>6, <2>7
<1>10. SizesSmall' /\ conditions'.nr1 = m1 /\ conditions'.nr2 = m2
  <2>1. SizesSmall  BY DEF HInv
  <2> QED  BY <1>1, <1>2, <2>1, StartSizes DEF SizesSmall
<1>11. Active'  BY <1>2 DEF Active
<1>12. Fields'
  <2>1. depth' \in 0 .. Size - 1 /\ open' \in BOOLEAN  BY <1>2, SizeFacts
  <2>2. status' \in StatusType /\ stack' # << >>  BY <1>2 DEF StatusType
  <2>3. calls' \in 0 .. MaxCalls
    <3>1. calls \in 0 .. MaxCalls  BY DEF HInv, Fields
    <3> QED  BY <1>2, <3>1, MaxCallsAssumption
  <2> QED  BY <1>6, <1>7, <1>8, <1>9, <1>11, <2>1, <2>2, <2>3 DEF Fields
<1>13. ArgsRight'  BY <1>2, <1>3, <1>10 DEF ArgsRight
<1>14. FramesRight'
  <2>1. depth' \in 0 .. n1' /\ Height' - 1 <= depth' /\ Height' >= 1
    BY <1>1, <1>2, <1>3, <1>5
  <2>2. F'.stage = "enter"  BY <1>4, <1>5 DEF CalledOf
  <2> QED  BY <1>5, <2>1, <2>2 DEF FramesRight
<1>15. ASSUME NEW k  PROVE AssignedAt(k)' = {} /\ ValuesAt(k)' = {}
  BY <1>6 DEF AssignedAt, ValuesAt
<1>16. Cardinality({}) = 0  BY FS_EmptySet
<1>17. MapRight'
  <2>1. SetBits(VALS, n2)' = {}  BY <1>3, <1>7
  <2>2. ValuesAt(Height)' = {}  BY <1>6 DEF AssignedAt, ValuesAt
  <2>3. SetBits(MAP_UNDEFINED[depth], n1)' = (V1 \ Assigned)'  BY <1>2, <1>3, <1>6, <1>7
  <2>4. Cardinality(Assigned)' = depth'  BY <1>2, <1>6, <1>16
  <2> QED  BY <1>6, <2>1, <2>2, <2>3, <2>4 DEF MapRight
<1>18. CallsRight'
  <2>1. FrameDepth(1)' = 0  BY <1>2, <1>5 DEF FrameDepth
  <2>2. CallRight(1)'
    <3>1. stack'[1].rep_depth = 0 /\ stack'[1].rank = 0  BY <1>4, <1>5 DEF CalledOf
    <3> QED  BY <1>15, <1>16, <2>1, <3>1 DEF CallRight
  <2>3. \A k \in 1 .. Height' : k = 1  BY <1>5
  <2>4. 1 .. Height' - 1 = {}  BY <1>5
  <2> QED  BY <2>2, <2>3, <2>4 DEF CallsRight
<1>19. TopRight'
  <2>1. F'.stage = "enter" /\ F'.next = -1  BY <1>4, <1>5 DEF CalledOf
  <2>2. NarrowingOf(F, Pushed, Buffer)'
    <3>1. ~ (depth' \in 1 .. n1' - 1)  BY <1>2
    <3> QED  BY <2>1, <3>1 DEF NarrowingOf
  <2>3. PartialOf(F)'
    <3>1. Before(F)' = { u \in DOMAIN a.partial_map : u < -1 \/ u = -1 }
      BY <1>2, <2>1 DEF Before
    <3>2. DOMAIN a.partial_map \subseteq Nat  BY ArgumentFacts
    <3>3. Before(F)' = {}  BY <3>1, <3>2
    <3>4. Assigned' = { INVERSE_ORDER'[u] : u \in Before(F)' }  BY <1>6, <3>3
    <3> QED  BY <2>1, <3>4 DEF PartialOf
  <2>4. TriesOf(F, ToChoose(Height))'  BY <2>1 DEF TriesOf
  <2> QED  BY <1>2, <2>2, <2>3, <2>4 DEF TopRight
<1>20. HInv'
  BY <1>10, <1>12, <1>13, <1>14, <1>17, <1>18, <1>19 DEF HInv, ActiveRight
<1>21. Driven
  <2> DEFINE s == [nr1 |-> m1, nr2 |-> m2, base |-> BaseRow(a)]
  <2>1. s \in SearchesOf(a)  BY DEF SearchesOf, m1, m2
  <2>2. s \in UNION { SearchesOf(b) : b \in Arguments }  BY <2>1
  <2>3. s.nr1 = m1 /\ s.nr2 = m2 /\ s.base = BaseRow(a)  OBVIOUS
  <2> HIDE DEF s
  <2>4. CP!Start(s)  BY <1>2, <2>3, StartCopies DEF CP!Start
  <2> QED  BY <2>2, <2>4 DEF Driven, CP!Next
<1> QED  BY <1>20, <1>21 DEF Kept

LEMMA RefuseStep ==
  ASSUME CP!IInv, HInv, NEW a \in Arguments, RefuseAtOnce(a) \/ RefuseInInit(a)
  PROVE  Kept
<1>1. /\ status' = "refused" /\ stack' = stack /\ calls' = calls + 1 /\ calls < MaxCalls
      /\ ~ Active
  BY DEF RefuseAtOnce, RefuseInInit, NewCall, Active
<1>2. ~ Active' /\ status' \in StatusType /\ stack' = << >>
  BY <1>1 DEF Active, StatusType, HInv, Fields
<1>3. calls' \in 0 .. MaxCalls
  <2>1. calls \in 0 .. MaxCalls  BY DEF HInv, Fields
  <2> QED  BY <1>1, <2>1, MaxCallsAssumption
<1>4. CASE RefuseAtOnce(a)
  <2>1. UNCHANGED << conditions, depth, open >> /\ UNCHANGED globals  BY <1>4 DEF RefuseAtOnce
  <2>2. SizesSmall'  BY <2>1 DEF HInv, SizesSmall
  <2>3. Fields'  BY <1>2, <1>3, <2>1 DEF HInv, Fields, globals
  <2> QED  BY <1>2, <2>1, <2>2, <2>3 DEF HInv, Kept, Driven
<1>5. CASE RefuseInInit(a)
  <2> DEFINE m1 == a.digraph1.n
             m2 == a.digraph2.n
             upto == IF ImageTooSmall(a) THEN 0 ELSE Min(Clashes(a))
             seen == { a.partial_map[v] : v \in {u \in DOMAIN a.partial_map : u < upto} }
             x == init_bit_array(BIT_ARRAY_BUFFER[0], FALSE, m2) \cup seen
             s == [nr1 |-> m1, nr2 |-> m2, base |-> PartialBase(a, upto)]
  <2>1. /\ m1 \in 1 .. Size /\ m2 \in 1 .. Size /\ m2 \in 0 .. Size
    BY ArgumentFacts
  <2>2. /\ conditions' = NarrowBottom(conditions, m1, m2, PartialBase(a, upto))
        /\ BIT_ARRAY_BUFFER' = IF ImageTooSmall(a) THEN BIT_ARRAY_BUFFER
                               ELSE [BIT_ARRAY_BUFFER EXCEPT ![0] = x]
        /\ ClearMaps(a) /\ depth' = 0 /\ open' = FALSE
        /\ UNCHANGED << MAP, STAB_GENS, REPS, stack >>
    BY <1>5 DEF RefuseInInit
  <2>3. upto \in {0} \cup Clashes(a)
    <3>1. CASE ImageTooSmall(a)  BY <3>1
    <3>2. CASE ~ ImageTooSmall(a)
      <4>1. Clashes(a) # {}  BY <1>5, <3>2 DEF RefuseInInit
      <4>2. Clashes(a) \in SUBSET Nat  BY ArgumentFacts DEF Clashes
      <4>3. Min(Clashes(a)) \in Clashes(a)  BY <4>1, <4>2, MinIsLeast
      <4> QED  BY <3>2, <4>3
    <3> QED  BY <3>1, <3>2
  <2>4. x \in SUBSET Bits
    <3>1. BIT_ARRAY_BUFFER[0] \in SUBSET Bits  BY SizeFacts DEF HInv, Fields
    <3>2. init_bit_array(BIT_ARRAY_BUFFER[0], FALSE, m2) \in SUBSET Bits
      BY <2>1, <3>1, BitsTypes
    <3>3. seen \in SUBSET Bits  BY ArgumentFacts
    <3> QED  BY <3>2, <3>3
  <2>5. s \in UNION { SearchesOf(b) : b \in Arguments }
    <3>1. s \in SearchesOf(a)  BY <2>3 DEF SearchesOf
    <3> QED  BY <3>1
  <2>6. s.nr1 = m1 /\ s.nr2 = m2 /\ s.base = PartialBase(a, upto)  OBVIOUS
  <2> HIDE DEF m1, m2, upto, x, s
  <2>7. CP!Refuse(s)  BY <2>2, <2>6, StartCopies DEF CP!Refuse
  <2>8. Driven  BY <2>5, <2>7 DEF Driven, CP!Next
  <2>9. SizesSmall'
    <3>1. SizesSmall  BY DEF HInv
    <3>2. PICK base : base = PartialBase(a, upto)  OBVIOUS
    <3>3. \A k \in 0 .. Size * Size - 1 :
            NarrowBottom(conditions, m1, m2, base).sizes[k] < UNDEFINED
      BY <2>1, <3>1, StartSizes
    <3> QED  BY <2>2, <3>2, <3>3 DEF SizesSmall
  <2>10. BIT_ARRAY_BUFFER' \in [0 .. Size - 1 -> SUBSET Bits]
    <3>1. BIT_ARRAY_BUFFER \in [0 .. Size - 1 -> SUBSET Bits]  BY DEF HInv, Fields
    <3> QED  BY <2>2, <2>4, <3>1
  <2>11. /\ MAP_UNDEFINED' \in [0 .. Size - 1 -> SUBSET Bits]
         /\ VALS' \in SUBSET Bits /\ IMAGE_RESTRICT' \in SUBSET Bits
    BY <2>2, Cleared
  <2>12. depth' \in 0 .. Size - 1 /\ open' \in BOOLEAN
    <3>1. depth' = 0 /\ open' = FALSE  BY <2>2
    <3>2. 0 \in 0 .. Size - 1  BY SizeFacts
    <3> QED  BY <3>1, <3>2
  <2>13. Fields'
    BY <1>2, <1>3, <2>2, <2>10, <2>11, <2>12 DEF HInv, Fields
  <2> QED  BY <1>2, <2>8, <2>9, <2>13 DEF HInv, Kept
<1> QED  BY <1>4, <1>5

LEMMA InitRight ==
  ASSUME Init
  PROVE  HInv /\ CP!Init
<1>1. Size \in Nat \ {0} /\ 0 .. Size - 1 \subseteq Bits  BY SizeFacts
<1>2. conditions = new_conditions  BY DEF Init
<1>3. SizesSmall
  <2>1. \A k \in 0 .. Size * Size - 1 : new_conditions.sizes[k] = -1
    BY DEF new_conditions, Unset
  <2> QED  BY <1>2, <2>1 DEF SizesSmall, UNDEFINED
<1>4. ~ Active  BY DEF Init, Active
<1>5. Fields
  <2>1. calls \in 0 .. MaxCalls  BY MaxCallsAssumption DEF Init
  <2>2. status \in StatusType  BY DEF Init, StatusType
  <2>3. MAP \in [0 .. Size - 1 -> 0 .. Size - 1 \cup { UNDEFINED }]  BY <1>1 DEF Init
  <2>4. depth \in 0 .. Size - 1 /\ open \in BOOLEAN
    <3>1. depth = 0 /\ open = FALSE  BY DEF Init
    <3>2. 0 \in 0 .. Size - 1  BY <1>1
    <3> QED  BY <3>1, <3>2
  <2> QED  BY <1>4, <2>1, <2>2, <2>3, <2>4 DEF Init, Fields
<1>6. CP!Init  BY StartCopies DEF Init, CP!Init
<1> QED  BY <1>3, <1>4, <1>5, <1>6 DEF HInv

------------------------------------------------------------------------------
(* The searches as they go on.                                               *)

(* Nothing changes: the invariant does not either.                           *)
LEMMA Stutters ==
  ASSUME HInv, UNCHANGED vars
  PROVE  HInv'
<1>1. /\ conditions' = conditions /\ depth' = depth /\ open' = open /\ MAP' = MAP
      /\ VALS' = VALS /\ MAP_UNDEFINED' = MAP_UNDEFINED
      /\ BIT_ARRAY_BUFFER' = BIT_ARRAY_BUFFER /\ IMAGE_RESTRICT' = IMAGE_RESTRICT
      /\ STAB_GENS' = STAB_GENS /\ REPS' = REPS /\ args' = args /\ stack' = stack
      /\ status' = status /\ calls' = calls
  BY DEF vars, globals
<1>2. SizesSmall'  BY <1>1 DEF HInv, SizesSmall
<1>3. Active' = Active  BY <1>1 DEF Active
<1>4. Fields'  BY <1>1, <1>3 DEF HInv, Fields
<1>5. ASSUME Active  PROVE ActiveRight'
  <2>1. /\ n1' = n1 /\ n2' = n2 /\ V1' = V1 /\ V2' = V2 /\ InPlace' = InPlace
        /\ Height' = Height /\ F' = F /\ Assigned' = Assigned /\ Left' = Left
        /\ Pushed' = Pushed /\ Buffer' = Buffer /\ SecondPass' = SecondPass
        /\ Undirected(args)' = Undirected(args) /\ INVERSE_ORDER' = INVERSE_ORDER
    BY <1>1 DEF n1, n2, V1, V2, InPlace, Height, F, Assigned, Left, Pushed, Buffer,
                SecondPass, Undirected, INVERSE_ORDER
  <2>2. ASSUME NEW k
        PROVE  /\ FrameDepth(k)' = FrameDepth(k) /\ AssignedAt(k)' = AssignedAt(k)
               /\ ValuesAt(k)' = ValuesAt(k) /\ ToChoose(k)' = ToChoose(k)
    BY <1>1, <2>1 DEF FrameDepth, Tried, AssignedAt, ValuesAt, ToChoose
  <2>3. ArgsRight' /\ FramesRight'
    BY <1>1, <1>5, <2>1 DEF HInv, ActiveRight, ArgsRight, FramesRight
  <2>4. MapRight'
    <3>1. ValuesAt(Height)' = ValuesAt(Height)
      BY <1>1, <2>1 DEF Tried, AssignedAt, ValuesAt
    <3> QED  BY <1>1, <1>5, <2>1, <3>1 DEF HInv, ActiveRight, MapRight
  <2>5. ASSUME NEW k \in 1 .. Height  PROVE CallRight(k)'
    <3>1. CallRight(k)  BY <1>5 DEF HInv, ActiveRight, CallsRight
    <3> QED  BY <1>1, <2>1, <2>2, <3>1 DEF CallRight
  <2>6. ASSUME NEW k \in 1 .. Height - 1  PROVE CallerRight(k)'
    <3>1. CallerRight(k) /\ TriesRight(k)
      BY <1>5 DEF HInv, ActiveRight, CallsRight, CallerRight
    <3>2. TriesRight(k)'  BY <1>1, <2>1, <2>2, <3>1 DEF TriesRight
    <3>3. AssignedAt(k + 1)' = AssignedAt(k + 1)  BY <2>2
    <3> QED  BY <1>1, <2>1, <2>2, <3>1, <3>2, <3>3 DEF CallerRight
  <2>7. CallsRight'  BY <2>1, <2>5, <2>6 DEF CallsRight
  <2>8. TopRight'
    <3>1. Neighbours1(F.pos)' = Neighbours1(F.pos)
      BY <1>1, <2>1 DEF Neighbours1, Adjacent1
    <3>2. NarrowingOf(F, Pushed, Buffer)'
      BY <1>1, <1>5, <2>1, <3>1 DEF HInv, ActiveRight, TopRight, NarrowingOf
    <3>3. (status = "partial" => PartialOf(F))'
      BY <1>1, <1>5, <2>1 DEF HInv, ActiveRight, TopRight, PartialOf, Before
    <3>4. (status = "search" => PickOf(F, Pushed))'
      BY <1>1, <1>5, <2>1, <3>1 DEF HInv, ActiveRight, TopRight, PickOf
    <3>5. TriesOf(F, ToChoose(Height))'
      <4>1. ValuesAt(Height)' = ValuesAt(Height) /\ ToChoose(Height)' = ToChoose(Height)
        BY <1>1, <2>1 DEF Tried, AssignedAt, ValuesAt, ToChoose, FrameDepth
      <4> QED  BY <1>1, <1>5, <2>1, <4>1 DEF HInv, ActiveRight, TopRight, TriesOf
    <3> QED  BY <3>2, <3>3, <3>4, <3>5 DEF TopRight
  <2> QED  BY <2>3, <2>4, <2>7, <2>8 DEF ActiveRight
<1> QED  BY <1>2, <1>3, <1>4, <1>5 DEF HInv

(* The invariant of the searches: that of the Conditions object, and their   *)
(* own.                                                                       *)
SearchInv == CP!IInv /\ HInv

LEMMA InitSearchInv == Init => SearchInv
<1> SUFFICES ASSUME Init PROVE SearchInv  OBVIOUS
<1>1. HInv /\ CP!Init  BY InitRight
<1>2. CP!IInv  BY <1>1, InstanceAssumptions, CP!InitIInv
<1> QED  BY <1>1, <1>2 DEF SearchInv

LEMMA NextDriven == SearchInv /\ [Next]_vars => HInv' /\ Driven
<1> SUFFICES ASSUME CP!IInv, HInv, [Next]_vars  PROVE HInv' /\ Driven
  BY DEF SearchInv
<1>1. CASE Run  BY <1>1, RunKeeps DEF Kept
<1>2. CASE \E a \in Arguments : Call(a)
  <2>1. PICK a \in Arguments : Call(a)  BY <1>2
  <2>2. CASE Begin(a)  BY <2>2, BeginStep DEF Kept
  <2>3. CASE RefuseAtOnce(a) \/ RefuseInInit(a)  BY <2>3, RefuseStep DEF Kept
  <2> QED  BY <2>1, <2>2, <2>3 DEF Call
<1>3. CASE UNCHANGED vars
  BY <1>3, Stutters DEF vars, Driven
<1> QED  BY <1>1, <1>2, <1>3 DEF Next

LEMMA NextSearchInv == SearchInv /\ [Next]_vars => SearchInv'
<1> SUFFICES ASSUME SearchInv, [Next]_vars  PROVE SearchInv'  OBVIOUS
<1>1. HInv' /\ Driven  BY NextDriven
<1>2. CP!IInv'
  <2>1. [CP!Next]_(CP!vars)  BY <1>1 DEF Driven, CP!vars
  <2>2. CP!IInv  BY DEF SearchInv
  <2> QED  BY <2>1, <2>2, InstanceAssumptions, CP!NextIInv
<1> QED  BY <1>1, <1>2 DEF SearchInv

(* Every state the searches of homos.c can come to, through the calls of     *)
(* FuncHomomorphismDigraphsFinder one after the other, left by a return or   *)
(* by the longjmp of the hook, satisfies the invariant.                      *)
THEOREM SearchesInductive == Spec => []SearchInv
BY InitSearchInv, NextSearchInv, PTL DEF Spec

(* The static globals of homos.c stay in the arrays they were allocated as:  *)
(* depth is an index of them, and no call has a rep_depth above its depth.   *)
THEOREM SearchTypes == Spec => []TypeOK
<1>1. SearchInv => TypeOK
  <2> SUFFICES ASSUME CP!IInv, HInv PROVE TypeOK  BY DEF SearchInv
  <2>1. conditions \in ConditionsType  BY ObjectFacts
  <2>2. \A k \in 1 .. Len(stack) : stack[k].rep_depth \in 0 .. depth
    <3>1. CASE Active
      <4> SUFFICES ASSUME NEW k \in 1 .. Height  PROVE stack[k].rep_depth \in 0 .. depth
        BY DEF Height
      <4>1. stack[k].rep_depth <= FrameDepth(k)
        BY <3>1 DEF HInv, ActiveRight, CallsRight, CallRight
      <4>2. FrameDepth(k) \in 0 .. depth /\ depth \in Nat /\ stack[k] \in FrameType
        BY <3>1, ActiveFacts
      <4>3. stack[k].rep_depth \in Nat  BY <4>2 DEF FrameType
      <4> QED  BY <4>1, <4>2, <4>3
    <3>2. CASE ~ Active
      <4>1. stack = << >>  BY <3>2 DEF HInv, Fields
      <4> QED  BY <4>1
    <3> QED  BY <3>1, <3>2
  <2>3. Fields  BY DEF HInv
  <2> QED  BY <2>1, <2>2, <2>3 DEF TypeOK, Fields, Active
<1> QED  BY <1>1, SearchesInductive, PTL

(* depth, MAP, VALS, MAP_UNDEFINED and the rank that the six functions pass  *)
(* down are each kept by hand, set before a recursive call and taken back    *)
(* after it.  They agree at every step of the recursion, in a call that      *)
(* follows one that ended in a longjmp too.                                  *)
THEOREM GlobalsAgree == Spec => []MapConsistent
<1>1. SearchInv => MapConsistent
  <2> SUFFICES ASSUME HInv, status = "search"
               PROVE  /\ Cardinality(Assigned) = depth
                      /\ SetBits(VALS, n2) = { MAP[v] : v \in Assigned }
                      /\ depth > 0 =>
                           SetBits(MAP_UNDEFINED[depth - 1], n1) = (0 .. n1 - 1) \ Assigned
                      /\ F.rank = Cardinality(SetBits(VALS, n2))
    BY DEF SearchInv, MapConsistent
  <2>1. Active  BY DEF Active
  <2>2. /\ Height \in 1 .. Height /\ F = stack[Height] /\ AssignedAt(Height) = Assigned
        /\ FrameDepth(Height) = depth
    BY <2>1, ActiveFacts
  <2>3. MapRight /\ CallRight(Height)
    BY <2>1, <2>2 DEF HInv, ActiveRight, CallsRight
  <2>4. SetBits(VALS, n2) = ValuesAt(Height) /\ Cardinality(Assigned) = depth
    BY <2>3 DEF MapRight
  <2>5. ValuesAt(Height) = { MAP[v] : v \in Assigned }  BY <2>2 DEF ValuesAt
  <2>6. /\ F.rank = Cardinality(ValuesAt(Height))
        /\ depth > 0 => SetBits(MAP_UNDEFINED[depth - 1], n1) = V1 \ Assigned
    BY <2>2, <2>3 DEF CallRight
  <2> QED  BY <2>4, <2>5, <2>6 DEF V1
<1> QED  BY <1>1, SearchesInductive, PTL

------------------------------------------------------------------------------
(* The searches implement module Conditions.                                 *)

LEMMA ProtocolCopies ==
  /\ \A n, d : Protocol!RowStart(n, d) = CP!RowStart(n, d)
  /\ \A c, d : Protocol!Row(c, d) = CP!Row(c, d)
  /\ \A c : Protocol!Columns(c) = CP!Columns(c)
  /\ \A c, i, b : Protocol!IntersectTop(c, i, b) = CP!IntersectTop(c, i, b)
  /\ \A c, d, i, b : Protocol!push_conditions(c, d, i, b) = CP!push_conditions(c, d, i, b)
  /\ \A c, i : Protocol!store_size_conditions(c, i) = CP!store_size_conditions(c, i)
  /\ \A c, d : Protocol!pop_conditions(c, d) = CP!pop_conditions(c, d)
  /\ \A c, m1, m2, base : Protocol!NarrowBottom(c, m1, m2, base) = CP!NarrowBottom(c, m1, m2, base)
  /\ \A c, m1, m2, base : Protocol!StartWith(c, m1, m2, base) = CP!StartWith(c, m1, m2, base)
  /\ Protocol!new_conditions = CP!new_conditions
<1>0. \A n : Protocol!Covered(n) = CP!Covered(n)
  BY DEF CP!Covered, Protocol!Covered, CP!number_of_blocks, Protocol!number_of_blocks
<1>1. \A n, d : Protocol!RowStart(n, d) = CP!RowStart(n, d)
  BY DEF CP!RowStart, Protocol!RowStart
<1>2. \A c, d : Protocol!Row(c, d) = CP!Row(c, d)  BY <1>1 DEF CP!Row, Protocol!Row
<1>3. \A c : Protocol!Columns(c) = CP!Columns(c)  BY DEF CP!Columns, Protocol!Columns
<1>4. \A a, b, n : Protocol!intersect_bit_arrays(a, b, n) = CP!intersect_bit_arrays(a, b, n)
  BY <1>0 DEF CP!intersect_bit_arrays, Protocol!intersect_bit_arrays
<1>5. \A c, i : /\ Protocol!Top(c, i) = CP!Top(c, i)
                /\ Protocol!get_conditions(c, i) = CP!get_conditions(c, i)
  BY DEF CP!Top, Protocol!Top, CP!Index, Protocol!Index, CP!get_conditions,
         Protocol!get_conditions
<1>6. \A c, i, cell : Protocol!SetTop(c, i, cell) = CP!SetTop(c, i, cell)
  BY <1>5 DEF CP!SetTop, Protocol!SetTop
<1>7. \A c, i, b : Protocol!IntersectTop(c, i, b) = CP!IntersectTop(c, i, b)
  BY <1>4, <1>5, <1>6 DEF CP!IntersectTop, Protocol!IntersectTop
<1>8. ASSUME NEW c, NEW d, NEW i  PROVE Protocol!PushCopy(c, d, i) = CP!PushCopy(c, d, i)
  BY DEF CP!PushCopy, Protocol!PushCopy, CP!Index, Protocol!Index, CP!RowStart,
     Protocol!RowStart, CP!Top, Protocol!Top, CP!get_conditions, Protocol!get_conditions
<1>9. \A c, d, i, b : Protocol!push_conditions(c, d, i, b) = CP!push_conditions(c, d, i, b)
  BY <1>7, <1>8 DEF CP!push_conditions, Protocol!push_conditions
<1>10. \A a, n : Protocol!size_bit_array(a, n) = CP!size_bit_array(a, n)
  BY <1>0 DEF CP!size_bit_array, Protocol!size_bit_array, Protocol!Cardinality, CP!Cardinality
<1>11. \A c, i : Protocol!store_size_conditions(c, i) = CP!store_size_conditions(c, i)
  BY <1>5, <1>10 DEF CP!store_size_conditions, Protocol!store_size_conditions
<1>12. ASSUME NEW c, NEW d  PROVE Protocol!pop_conditions(c, d) = CP!pop_conditions(c, d)
  BY DEF CP!pop_conditions, Protocol!pop_conditions, CP!Places, Protocol!Places,
     Protocol!Cardinality, CP!Cardinality, CP!RowStart, Protocol!RowStart
<1>13. \A a, x, n : Protocol!init_bit_array(a, x, n) = CP!init_bit_array(a, x, n)
  BY <1>0 DEF CP!init_bit_array, Protocol!init_bit_array
<1>14. \A old, m : Protocol!ClearedChanged(old, m) = CP!ClearedChanged(old, m)
  BY DEF CP!ClearedChanged, Protocol!ClearedChanged, CP!RowStart, Protocol!RowStart
<1>15. ASSUME NEW c, NEW m1, NEW m2
       PROVE  Protocol!clear_conditions(c, m1, m2) = CP!clear_conditions(c, m1, m2)
  BY <1>13, <1>14 DEF CP!clear_conditions, Protocol!clear_conditions
<1>16. ASSUME NEW c, NEW m1, NEW m2, NEW base
       PROVE  Protocol!NarrowBottom(c, m1, m2, base) = CP!NarrowBottom(c, m1, m2, base)
  BY <1>4, <1>15 DEF CP!NarrowBottom, Protocol!NarrowBottom
<1>17. ASSUME NEW c, NEW m1, NEW m2, NEW base
       PROVE  Protocol!StartWith(c, m1, m2, base) = CP!StartWith(c, m1, m2, base)
  BY <1>10, <1>16 DEF CP!StartWith, Protocol!StartWith
<1>18. Protocol!new_conditions = CP!new_conditions
  BY <1>13, <1>14 DEF CP!new_conditions, Protocol!new_conditions, CP!Size, Protocol!Size,
     CP!Unset, Protocol!Unset
<1> QED  BY <1>1, <1>2, <1>3, <1>7, <1>9, <1>11, <1>12, <1>16, <1>17, <1>18

LEMMA ProtocolSteps ==
  ASSUME Driven
  PROVE  [Protocol!Next]_(Protocol!vars)
<1>1. CASE UNCHANGED << conditions, depth, open >>  BY <1>1 DEF Protocol!vars
<1>2. CASE CP!Descend
  <2>1. Protocol!Descend  BY <1>2 DEF CP!Descend, Protocol!Descend
  <2> QED  BY <2>1 DEF Protocol!Next
<1>3. CASE CP!Return
  <2>1. Protocol!Return  BY <1>3, ProtocolCopies DEF CP!Return, Protocol!Return
  <2> QED  BY <2>1 DEF Protocol!Next
<1>4. CASE CP!Finish
  <2>1. Protocol!Finish  BY <1>4, ProtocolCopies DEF CP!Finish, Protocol!Finish
  <2> QED  BY <2>1 DEF Protocol!Next
<1>5. ASSUME NEW i \in CP!Columns(conditions), NEW b \in SUBSET Bits, CP!Push(i, b)
      PROVE  Protocol!Next
  <2>1. Protocol!Push(i, b)  BY <1>5, ProtocolCopies DEF CP!Push, Protocol!Push
  <2> QED  BY <2>1, ProtocolCopies DEF Protocol!Next
<1>6. ASSUME NEW i \in CP!Columns(conditions), NEW b \in SUBSET Bits, CP!NarrowInPlace(i, b)
      PROVE  Protocol!Next
  <2>1. Protocol!NarrowInPlace(i, b)
    BY <1>6, ProtocolCopies DEF CP!NarrowInPlace, Protocol!NarrowInPlace
  <2> QED  BY <2>1, ProtocolCopies DEF Protocol!Next
<1>7. ASSUME NEW s \in UNION { SearchesOf(a) : a \in Arguments }, CP!Start(s) \/ CP!Refuse(s)
      PROVE  Protocol!Next
  <2>1. Protocol!Start(s) \/ Protocol!Refuse(s)
    BY <1>7, ProtocolCopies DEF CP!Start, Protocol!Start, CP!Refuse, Protocol!Refuse
  <2> QED  BY <2>1 DEF Protocol!Next
<1> QED  BY <1>1, <1>2, <1>3, <1>4, <1>5, <1>6, <1>7 DEF Driven, CP!Next

(* Every search, whatever its arguments and wherever it is left, uses the    *)
(* Conditions object only as module Conditions says.                         *)
THEOREM SearchesDriveConditions == Spec => DrivesConditions
<1>1. Init => Protocol!Init
  <2> SUFFICES ASSUME Init PROVE Protocol!Init  OBVIOUS
  <2>1. CP!Init  BY InitRight
  <2> QED  BY <2>1, ProtocolCopies DEF CP!Init, Protocol!Init
<1>2. SearchInv /\ [Next]_vars => [Protocol!Next]_(Protocol!vars)
  BY NextDriven, ProtocolSteps
<1> QED  BY <1>1, <1>2, SearchesInductive, PTL DEF Spec, DrivesConditions, Protocol!Spec
==============================================================================
