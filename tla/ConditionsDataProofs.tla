------------------------- MODULE ConditionsDataProofs -------------------------
(***************************************************************************)
(* Lemmas about the operations of the Conditions object: where they write   *)
(* in the flat arrays, and that what they write is in range.                *)
(***************************************************************************)
EXTENDS ConditionsData, FiniteSetTheorems, TLAPS

(* A product grows with its second factor.                                    *)
LEMMA ProductMonotone ==
  ASSUME NEW a \in Nat, NEW b \in Nat, NEW k \in Nat, a <= b
  PROVE  k * a <= k * b
OBVIOUS

(* Positions in a flat array of rows of n cells: two of them are the same     *)
(* only for the same row and the same place in it.                            *)
LEMMA Stride ==
  ASSUME NEW n \in Nat, NEW d \in Nat, NEW e \in Nat,
         NEW i \in 0 .. n - 1, NEW j \in 0 .. n - 1,
         n * d + i = n * e + j
  PROVE  d = e /\ i = j
<1>1. ASSUME NEW x \in Nat, NEW y \in Nat, x < y PROVE n * x + n <= n * y
  <2>1. n * (x + 1) <= n * y  BY <1>1, ProductMonotone
  <2>2. n * (x + 1) = n * x + n  OBVIOUS
  <2> QED  BY <2>1, <2>2
<1>2. CASE d < e
  <2>1. n * d + n <= n * e  BY <1>1, <1>2
  <2>2. n * d \in Nat /\ n * e \in Nat  OBVIOUS
  <2> QED  BY <2>1, <2>2
<1>3. CASE e < d
  <2>1. n * e + n <= n * d  BY <1>1, <1>3
  <2>2. n * d \in Nat /\ n * e \in Nat  OBVIOUS
  <2> QED  BY <2>1, <2>2
<1>4. CASE d = e
  BY <1>4
<1> QED  BY <1>2, <1>3, <1>4

(* The rows of a search over n <= m columns, of stride n + 1, lie inside the  *)
(* array changed that new_conditions allocates for m columns.                 *)
LEMMA RowInside ==
  ASSUME NEW n \in Nat, NEW m \in Nat, NEW d \in Nat, NEW j \in 0 .. n,
         n <= m, d < n
  PROVE  (n + 1) * d + j \in 0 .. m * (m + 1) - 1
<1>1. (n + 1) * (d + 1) <= (n + 1) * n  BY ProductMonotone
<1>2. (n + 1) * (d + 1) = (n + 1) * d + n + 1  OBVIOUS
<1>3. (n + 1) * n <= (n + 1) * m  BY ProductMonotone
<1>4. m * (n + 1) <= m * (m + 1) BY ProductMonotone
<1>5. (n + 1) * m = m * (n + 1)  OBVIOUS
<1>6. (n + 1) * d \in Nat /\ (n + 1) * n \in Nat /\ m * (n + 1) \in Nat /\ m * (m + 1) \in Nat OBVIOUS
<1> QED  BY <1>1, <1>2, <1>3, <1>4, <1>5, <1>6

(* The levels of the columns lie inside the array bit_array of the object.    *)
LEMMA CellInside ==
  ASSUME NEW n \in Nat, NEW m \in Nat, NEW h \in 1 .. n, NEW i \in 0 .. n - 1, n <= m
  PROVE  n * (h - 1) + i \in 0 .. m * m - 1
<1>1. n * ((h - 1) + 1) <= n * n  BY ProductMonotone
<1>2. n * ((h - 1) + 1) = n * (h - 1) + n  OBVIOUS
<1>3. n * n <= n * m  BY ProductMonotone
<1>4. m * n <= m * m  BY ProductMonotone
<1>5. n * m = m * n  OBVIOUS
<1>6. n * (h - 1) \in Nat /\ n * n \in Nat /\ m * n \in Nat /\ m * m \in Nat  OBVIOUS
<1> QED  BY <1>1, <1>2, <1>3, <1>4, <1>5, <1>6

(* number_of_blocks rounds up and is monotone.                                *)
LEMMA BlocksMonotone ==
  ASSUME NEW a \in Nat, NEW b \in Nat, a <= b
  PROVE  /\ number_of_blocks(a) \in Nat
         /\ BlockBits * number_of_blocks(a) >= a
         /\ number_of_blocks(a) <= number_of_blocks(b)
BY BlockBitsAssumption DEF number_of_blocks

(* There are k numbers from 1 to k.                                           *)
LEMMA FirstNaturals ==
  ASSUME NEW k \in Nat
  PROVE  IsFiniteSet(1 .. k) /\ Cardinality(1 .. k) = k
<1>1. IsFiniteSet(1 .. k) /\ Cardinality(1 .. k) = (IF 1 > k THEN 0 ELSE k - 1 + 1)
  BY FS_Interval
<1> QED  BY <1>1

(* An operation on at most Size bits stays inside a bit array of the object,  *)
(* the trailing bits of its last block included.                              *)
LEMMA CoveredInBits ==
  ASSUME NEW k \in 0 .. Size
  PROVE  Covered(k) \subseteq Bits
<1>1. number_of_blocks(k) <= number_of_blocks(Size)
      /\ number_of_blocks(k) \in Nat /\ number_of_blocks(Size) \in Nat
  BY BlocksMonotone, StructureSizeAssumption DEF Size
<1>2. BlockBits * number_of_blocks(k) <= BlockBits * number_of_blocks(Size)
  BY <1>1, ProductMonotone, BlockBitsAssumption
<1>3. BlockBits * number_of_blocks(k) \in Int /\ BlockBits * number_of_blocks(Size) \in Int
  BY <1>1, BlockBitsAssumption
<1> QED  BY <1>2, <1>3 DEF Covered, Bits

(* size_bit_array counts a finite set.                                        *)
LEMMA SizeIsNatural ==
  ASSUME NEW a \in SUBSET Bits, NEW k \in 0 .. Size
  PROVE  size_bit_array(a, k) \in Nat
<1>1. BlockBits * number_of_blocks(Size) - 1 \in Int
  BY BlocksMonotone, StructureSizeAssumption, BlockBitsAssumption DEF Size
<1>2. IsFiniteSet(Bits)  BY <1>1, FS_Interval DEF Bits, Covered
<1>3. a \cap Covered(k) \in SUBSET Bits  OBVIOUS
<1>4. IsFiniteSet(a \cap Covered(k))  BY <1>2, <1>3, FS_Subset
<1> QED  BY <1>4, FS_CardinalityType DEF size_bit_array

(* Intersecting and complementing only take bits away.                        *)
LEMMA BitArrayTypes ==
  ASSUME NEW a \in SUBSET Bits, NEW b, NEW k \in 0 .. Size
  PROVE  /\ intersect_bit_arrays(a, b, k) \in SUBSET a
         /\ intersect_bit_arrays(a, b, k) \in SUBSET Bits
         /\ complement_bit_arrays(a, b, k) \in SUBSET a
BY CoveredInBits DEF init_bit_array, intersect_bit_arrays, complement_bit_arrays

(* clear_conditions keeps every field in its range.                           *)
LEMMA ClearType ==
  ASSUME NEW c \in ConditionsType, NEW m1 \in 1 .. Size, NEW m2 \in 1 .. Size
  PROVE  clear_conditions(c, m1, m2) \in ConditionsType
<1>1. Size \in Nat \ {0}  BY StructureSizeAssumption DEF Size
<1>2. ClearedChanged(c.changed, m1) \in [0 .. Size * (Size + 1) - 1 -> 0 .. Size]
  BY <1>1 DEF ClearedChanged, ConditionsType
<1>3. [k \in DOMAIN c.bit_array |->
         IF k < m1 * m1 THEN init_bit_array(c.bit_array[k], k < m1, m2)
         ELSE c.bit_array[k]] \in [0 .. Size * Size - 1 -> SUBSET Bits]
  BY <1>1, CoveredInBits DEF ConditionsType, init_bit_array
<1>4. [k \in DOMAIN c.height |-> IF k < m1 THEN 1 ELSE c.height[k]]
        \in [0 .. Size - 1 -> 0 .. Size]
  BY <1>1 DEF ConditionsType
<1> QED  BY <1>2, <1>3, <1>4 DEF clear_conditions, ConditionsType

(* So does init_data_from_args up to where it may return false ...            *)
LEMMA NarrowBottomType ==
  ASSUME NEW c \in ConditionsType, NEW m1 \in 1 .. Size, NEW m2 \in 1 .. Size,
         NEW base
  PROVE  NarrowBottom(c, m1, m2, base) \in ConditionsType
<1> DEFINE cleared == clear_conditions(c, m1, m2)
<1>0. Size \in Nat /\ m2 \in 0 .. Size
  BY StructureSizeAssumption DEF Size
<1>1. cleared \in ConditionsType  BY ClearType
<1> HIDE DEF cleared
<1>2. [k \in DOMAIN c.bit_array |->
         IF k < m1 THEN intersect_bit_arrays(cleared.bit_array[k], base[k], m2)
         ELSE cleared.bit_array[k]] \in [0 .. Size * Size - 1 -> SUBSET Bits]
  BY <1>0, <1>1, BitArrayTypes DEF ConditionsType
<1> QED  BY <1>1, <1>2 DEF NarrowBottom, ConditionsType, cleared

(* ... and to its end.                                                        *)
LEMMA StartWithType ==
  ASSUME NEW c \in ConditionsType, NEW m1 \in 1 .. Size, NEW m2 \in 1 .. Size,
         NEW base
  PROVE  StartWith(c, m1, m2, base) \in ConditionsType
<1> DEFINE narrowed == NarrowBottom(c, m1, m2, base)
<1>0. Size \in Nat /\ m2 \in 0 .. Size
  BY StructureSizeAssumption DEF Size
<1>1. narrowed \in ConditionsType  BY NarrowBottomType
<1> HIDE DEF narrowed
<1>2. \A k \in 0 .. Size * Size - 1 : size_bit_array(narrowed.bit_array[k], m2) \in Nat
  BY <1>0, <1>1, SizeIsNatural DEF ConditionsType
<1>3. [k \in DOMAIN c.sizes |-> IF k < m1 THEN size_bit_array(narrowed.bit_array[k], m2)
                                ELSE c.sizes[k]]
        \in [0 .. Size * Size - 1 -> Nat \cup {Unset}]
  BY <1>2 DEF ConditionsType
<1> QED  BY <1>1, <1>3 DEF StartWith, ConditionsType, narrowed

(* A new object is of the type too.                                           *)
LEMMA NewType == new_conditions \in ConditionsType
<1>1. Size \in Nat \ {0}  BY StructureSizeAssumption DEF Size
<1> DEFINE row   == ClearedChanged([k \in 0 .. Size * (Size + 1) - 1 |-> 0], Size)
           cells == [k \in 0 .. Size * Size - 1 |-> init_bit_array({}, k < Size, Size)]
<1>2. row \in [0 .. Size * (Size + 1) - 1 -> 0 .. Size]
  BY <1>1 DEF ClearedChanged
<1>3. cells \in [0 .. Size * Size - 1 -> SUBSET Bits]
  BY <1>1, CoveredInBits DEF init_bit_array
<1>4. new_conditions = [ bit_array |-> cells, changed |-> row,
                         height |-> [i \in 0 .. Size - 1 |-> 1],
                         sizes |-> [k \in 0 .. Size * Size - 1 |-> Unset],
                         nr1 |-> Size, nr2 |-> Size ]
  BY DEF new_conditions
<1> HIDE DEF row, cells
<1> QED  BY <1>1, <1>2, <1>3, <1>4 DEF ConditionsType

(* What a push does to the fields of the object. *)
LEMMA PushFields ==
  ASSUME NEW c \in ConditionsType, NEW d \in 1 .. c.nr1 - 1, NEW i \in Columns(c), NEW b,
         c.height[i] \in 1 .. c.nr1 - 1
  PROVE  LET count == c.changed[RowStart(c.nr1, d)] + 1
             place == Index(c.nr1, c.height[i] + 1, i)
             cell  == intersect_bit_arrays(get_conditions(c, i), b, c.nr2)
             p     == store_size_conditions(push_conditions(c, d, i, b), i)
         IN  /\ p = [ bit_array |-> [c.bit_array EXCEPT ![place] = cell],
                      changed |-> [c.changed EXCEPT ![RowStart(c.nr1, d)] = count,
                                                    ![RowStart(c.nr1, d) + count] = i],
                      height |-> [c.height EXCEPT ![i] = @ + 1],
                      sizes |-> [c.sizes EXCEPT ![place] = size_bit_array(cell, c.nr2)],
                      nr1 |-> c.nr1,
                      nr2 |-> c.nr2 ]
             /\ place \in 0 .. Size * Size - 1
             /\ get_conditions(c, i) \in SUBSET Bits
<1> DEFINE n     == c.nr1
           count == c.changed[RowStart(c.nr1, d)] + 1
           place == Index(c.nr1, c.height[i] + 1, i)
           old   == get_conditions(c, i)
           cell  == intersect_bit_arrays(old, b, c.nr2)
           pc    == PushCopy(c, d, i)
           pi    == push_conditions(c, d, i, b)
<1>0. n \in 1 .. Size /\ i \in 0 .. n - 1 /\ Size \in Nat \ {0}
  BY StructureSizeAssumption DEF ConditionsType, Columns, Size
<1>1. place \in 0 .. Size * Size - 1
  BY <1>0, CellInside DEF Index
<1>2. Top(c, i) \in 0 .. Size * Size - 1
  BY <1>0, CellInside DEF Index, Top
<1>3. old \in SUBSET Bits
  BY <1>2 DEF ConditionsType, get_conditions
<1>4. pc = [c EXCEPT !.bit_array = [c.bit_array EXCEPT ![place] = old],
                     !.changed = [c.changed EXCEPT ![RowStart(c.nr1, d)] = count,
                                                    ![RowStart(c.nr1, d) + count] = i],
                     !.height = [c.height EXCEPT ![i] = @ + 1]]
  BY DEF PushCopy, ConditionsType
<1>5. pc.nr1 = n /\ pc.nr2 = c.nr2 /\ Top(pc, i) = place /\ get_conditions(pc, i) = old
  BY <1>0, <1>1, <1>4 DEF ConditionsType, Top, get_conditions
<1>6. pi = [pc EXCEPT !.bit_array[place] = cell]
  BY <1>5 DEF push_conditions, IntersectTop, SetTop
<1>7. pi = [pc EXCEPT !.bit_array = [c.bit_array EXCEPT ![place] = cell]]
  BY <1>4, <1>6 DEF ConditionsType
<1>8. pi.nr1 = n /\ pi.nr2 = c.nr2 /\ Top(pi, i) = place /\ get_conditions(pi, i) = cell
  BY <1>0, <1>1, <1>4, <1>5, <1>7 DEF ConditionsType, Top, get_conditions
<1>9. store_size_conditions(pi, i) = [pi EXCEPT !.sizes[place] = size_bit_array(cell, c.nr2)]
  BY <1>8 DEF store_size_conditions
<1> QED  BY <1>1, <1>3, <1>4, <1>7, <1>9 DEF ConditionsType

(* Two entries of the array changed are the same only in the same row and at  *)
(* the same place.                                                            *)
LEMMA RowApart ==
  ASSUME NEW n \in Nat, NEW d \in Nat, NEW e \in Nat, NEW j \in 0 .. n, NEW k \in 0 .. n,
         RowStart(n, d) + j = RowStart(n, e) + k
  PROVE  d = e /\ j = k
BY Stride DEF RowStart

(* Two cells of the array bit_array are the same only at the same level of    *)
(* the same column.                                                           *)
LEMMA CellApart ==
  ASSUME NEW n \in Nat, NEW g \in Nat \ {0}, NEW h \in Nat \ {0},
         NEW i \in 0 .. n - 1, NEW j \in 0 .. n - 1,
         Index(n, g, i) = Index(n, h, j)
  PROVE  g = h /\ i = j
<1>1. g - 1 \in Nat /\ h - 1 \in Nat /\ n * (g - 1) + i = n * (h - 1) + j
  BY DEF Index
<1>2. g - 1 = h - 1 /\ i = j  BY <1>1, Stride
<1> QED  BY <1>2

(* A search starts with one level for each of its columns, every column in    *)
(* row 0 and nothing in the rows above, whatever the search before it left.   *)
LEMMA StartFields ==
  ASSUME NEW c \in ConditionsType, NEW m1 \in 1 .. Size, NEW m2 \in 1 .. Size, NEW base
  PROVE  LET s == StartWith(c, m1, m2, base)
         IN  /\ s.nr1 = m1
             /\ \A i \in 0 .. m1 - 1 : s.height[i] = 1
             /\ s.changed[0] = m1
             /\ \A j \in 1 .. m1 : s.changed[j] = j - 1
             /\ \A d \in 1 .. m1 - 1 : s.changed[RowStart(m1, d)] = 0
<1> DEFINE s == StartWith(c, m1, m2, base)
<1>0. Size \in Nat \ {0}  BY StructureSizeAssumption DEF Size
<1>1. /\ s.nr1 = m1
      /\ s.changed = ClearedChanged(c.changed, m1)
      /\ s.height = [k \in DOMAIN c.height |-> IF k < m1 THEN 1 ELSE c.height[k]]
  BY DEF StartWith, NarrowBottom, clear_conditions, ConditionsType
<1>2. DOMAIN c.changed = 0 .. Size * (Size + 1) - 1 /\ DOMAIN c.height = 0 .. Size - 1
  BY DEF ConditionsType
<1>3. \A j \in 0 .. m1 : j \in DOMAIN c.changed
  <2> TAKE j \in 0 .. m1
  <2>1. (m1 + 1) * 0 + j \in 0 .. Size * (Size + 1) - 1  BY <1>0, RowInside
  <2> QED  BY <1>2, <2>1
<1>4. ASSUME NEW d \in 1 .. m1 - 1
      PROVE  RowStart(m1, d) \in DOMAIN c.changed /\ RowStart(m1, d) > m1
  <2>1. (m1 + 1) * d + 0 \in 0 .. Size * (Size + 1) - 1  BY <1>0, RowInside
  <2>2. (m1 + 1) * 1 <= (m1 + 1) * d  BY ProductMonotone
  <2> QED  BY <1>2, <2>1, <2>2 DEF RowStart
<1> HIDE DEF s
<1>5. ASSUME NEW d \in 1 .. m1 - 1  PROVE  s.changed[RowStart(m1, d)] = 0
  <2>1. /\ RowStart(m1, d) \in DOMAIN c.changed
        /\ RowStart(m1, d) # 0
        /\ ~ (RowStart(m1, d) <= m1)
    BY <1>4, <1>0 DEF RowStart
  <2> QED  BY <1>1, <2>1 DEF ClearedChanged
<1>6. s.changed[0] = m1 /\ \A j \in 1 .. m1 : s.changed[j] = j - 1
  BY <1>1, <1>3 DEF ClearedChanged
<1>7. \A i \in 0 .. m1 - 1 : s.height[i] = 1
  BY <1>0, <1>1, <1>2
<1> QED  BY <1>1, <1>5, <1>6, <1>7 DEF s

(* What a pop does to the fields of the object.                               *)
LEMMA PopFields ==
  ASSUME NEW c \in ConditionsType, NEW d \in Nat
  PROVE  LET p == pop_conditions(c, d)
         IN  p = [ bit_array |-> c.bit_array,
                   changed   |-> [c.changed EXCEPT ![RowStart(c.nr1, d)] = 0],
                   height    |-> [i \in 0 .. Size - 1 |->
                                    c.height[i] - Cardinality(Places(c, d, i))],
                   sizes     |-> c.sizes,
                   nr1       |-> c.nr1,
                   nr2       |-> c.nr2 ]
<1> DEFINE h == [i \in 0 .. Size - 1 |-> c.height[i] - Cardinality(Places(c, d, i))]
           p == pop_conditions(c, d)
<1>1. DOMAIN c.height = 0 .. Size - 1  BY DEF ConditionsType
<1>2. h = [i \in DOMAIN c.height |-> c.height[i] - Cardinality(Places(c, d, i))]
  BY <1>1
<1> HIDE DEF h
<1>3. p = [c EXCEPT !.height = h, !.changed[RowStart(c.nr1, d)] = 0]
  BY <1>2 DEF pop_conditions
<1>4. p = [c EXCEPT !.height = h, !.changed = [c.changed EXCEPT ![RowStart(c.nr1, d)] = 0]]
  BY <1>3 DEF ConditionsType
<1> QED  BY <1>4 DEF ConditionsType, h

(* A row that lists no column twice has a column at one place, or nowhere. *)
LEMMA PlacesCount ==
  ASSUME NEW c, NEW d, NEW i,
         \A j, k \in 1 .. c.changed[RowStart(c.nr1, d)] :
           c.changed[RowStart(c.nr1, d) + j] = c.changed[RowStart(c.nr1, d) + k] => j = k
  PROVE  Cardinality(Places(c, d, i)) = IF i \in Row(c, d) THEN 1 ELSE 0
<1>1. CASE i \in Row(c, d)
  <2>1. PICK j \in 1 .. c.changed[RowStart(c.nr1, d)] : c.changed[RowStart(c.nr1, d) + j] = i
    BY <1>1 DEF Row
  <2>2. Places(c, d, i) = {j}  BY <2>1 DEF Places
  <2> QED  BY <1>1, <2>2, FS_Singleton
<1>2. CASE i \notin Row(c, d)
  <2>1. Places(c, d, i) = {}  BY <1>2 DEF Row, Places
  <2> QED  BY <1>2, <2>1, FS_EmptySet
<1> QED  BY <1>1, <1>2

(* Such a row has no more entries than there are columns to choose from. *)
LEMMA RowCount ==
  ASSUME NEW c, NEW start, c.changed[start] \in Nat, NEW T, IsFiniteSet(T),
         \A j, k \in 1 .. c.changed[start] :
           /\ c.changed[start + j] \in T
           /\ c.changed[start + j] = c.changed[start + k] => j = k
  PROVE  c.changed[start] <= Cardinality(T)
<1> DEFINE count == c.changed[start]
           f == [j \in 1 .. count |-> c.changed[start + j]]
<1>1. f \in Injection(1 .. count, T)
  BY DEF Injection, IsInjective
<1>2. Cardinality(1 .. count) <= Cardinality(T)
  BY <1>1, FS_Injection
<1>3. Cardinality(1 .. count) = count
  BY FirstNaturals
<1> QED  BY <1>2, <1>3

(* There are nr1 columns.                                                     *)
LEMMA ColumnsCount ==
  ASSUME NEW c, c.nr1 \in Nat \ {0}
  PROVE  IsFiniteSet(Columns(c)) /\ Cardinality(Columns(c)) = c.nr1
<1>1. IsFiniteSet(0 .. c.nr1 - 1)
      /\ Cardinality(0 .. c.nr1 - 1) = (IF 0 > c.nr1 - 1 THEN 0 ELSE c.nr1 - 1 - 0 + 1)
  <2>1. 0 \in Int /\ c.nr1 - 1 \in Int  OBVIOUS
  <2> QED  BY <2>1, FS_Interval
<1> QED  BY <1>1 DEF Columns

(* A row none of whose entries changed lists the same columns.                *)
LEMMA SameRow ==
  ASSUME NEW c, NEW p, NEW d, c.nr1 \in Nat, p.nr1 = c.nr1,
         RowStart(c.nr1, d) \in Nat,
         c.changed[RowStart(c.nr1, d)] \in 0 .. c.nr1,
         \A j \in 0 .. c.nr1 :
           p.changed[RowStart(c.nr1, d) + j] = c.changed[RowStart(c.nr1, d) + j]
  PROVE  /\ p.changed[RowStart(c.nr1, d)] = c.changed[RowStart(c.nr1, d)]
         /\ Row(p, d) = Row(c, d)
<1>1. RowStart(c.nr1, d) + 0 = RowStart(c.nr1, d)  OBVIOUS
<1>2. p.changed[RowStart(c.nr1, d)] = c.changed[RowStart(c.nr1, d)]  BY <1>1
<1> QED  BY <1>2 DEF Row

(* What narrowing the top of a column in place does to the object.            *)
LEMMA IntersectFields ==
  ASSUME NEW c \in ConditionsType, NEW i \in Columns(c), NEW b, c.height[i] \in 1 .. c.nr1
  PROVE  LET cell == intersect_bit_arrays(get_conditions(c, i), b, c.nr2)
         IN  /\ IntersectTop(c, i, b)
                  = [ bit_array |-> [c.bit_array EXCEPT ![Top(c, i)] = cell],
                      changed |-> c.changed, height |-> c.height, sizes |-> c.sizes,
                      nr1 |-> c.nr1, nr2 |-> c.nr2 ]
             /\ Top(c, i) \in 0 .. Size * Size - 1
             /\ cell \in SUBSET Bits
             /\ cell \subseteq get_conditions(c, i)
<1> DEFINE cell == intersect_bit_arrays(get_conditions(c, i), b, c.nr2)
<1>1. c.nr1 \in 1 .. Size /\ c.nr2 \in 0 .. Size /\ i \in 0 .. c.nr1 - 1 /\ Size \in Nat
  BY StructureSizeAssumption DEF ConditionsType, Columns, Size
<1>2. Top(c, i) \in 0 .. Size * Size - 1
  BY <1>1, CellInside DEF Index, Top
<1>3. get_conditions(c, i) \in SUBSET Bits
  BY <1>2 DEF ConditionsType, get_conditions
<1>4. cell \in SUBSET Bits /\ cell \subseteq get_conditions(c, i)
  BY <1>1, <1>3, BitArrayTypes
<1>5. IntersectTop(c, i, b) = [c EXCEPT !.bit_array = [c.bit_array EXCEPT ![Top(c, i)] = cell]]
  BY DEF IntersectTop, SetTop, ConditionsType
<1> QED  BY <1>2, <1>4, <1>5 DEF ConditionsType
==============================================================================
