--------------------------- MODULE ConditionsProofs ---------------------------
(***************************************************************************)
(* The Conditions object is used correctly whatever its size, whatever the  *)
(* dimensions of the searches and wherever each of them is left.            *)
(*                                                                         *)
(* The invariant IInv is inductive.  HeightCountsPushes is what makes the   *)
(* heights fit; it needs RowsInjective for the pop, which takes off one     *)
(* level per entry, RowsAboveEmpty for the call that opens a new depth,     *)
(* and RowZeroComplete for the pop of the root.                             *)
(*                                                                         *)
(* The last part shows that the flat arrays implement the stack of tables   *)
(* of module CandidateStack.  Table k is read off the arrays by counting:   *)
(* the cell of column i in it is at level 1 plus the number of depths up to *)
(* k that pushed i.  A push or a narrowing in place at depth k is at the    *)
(* top of its column, above every level a table below k reads.              *)
(***************************************************************************)
EXTENDS Conditions, ConditionsDataProofs, SequenceTheorems

(* The inductive invariant.                                                  *)
IInv == /\ TypeOK
        /\ RowZeroComplete
        /\ RowsInjective
        /\ RowsAboveEmpty
        /\ HeightCountsPushes

(* The depths that pushed column i. *)
PushedAt(i) == {d \in Depths : i \in Row(conditions, d)}

(* What the proofs need of TypeOK: the numbers are in their ranges and the    *)
(* rows of the search are inside the array.                                   *)
LEMMA TypeFacts ==
  ASSUME TypeOK
  PROVE  /\ conditions \in ConditionsType
         /\ Size \in Nat \ {0}
         /\ conditions.nr1 \in 1 .. Size
         /\ conditions.nr2 \in 1 .. Size
         /\ depth \in 0 .. conditions.nr1
         /\ DOMAIN conditions.height = 0 .. Size - 1
         /\ \A d \in 0 .. conditions.nr1 - 1 : \A j \in 0 .. conditions.nr1 :
              RowStart(conditions.nr1, d) + j \in DOMAIN conditions.changed
         /\ \A d \in 0 .. conditions.nr1 - 1 :
              /\ RowStart(conditions.nr1, d) \in DOMAIN conditions.changed
              /\ conditions.changed[RowStart(conditions.nr1, d)] \in Nat
<1>1. Size \in Nat \ {0}  BY StructureSizeAssumption DEF Size
<1>2. /\ conditions \in ConditionsType
      /\ conditions.nr1 \in 1 .. Size
      /\ conditions.nr2 \in 1 .. Size
      /\ depth \in 0 .. conditions.nr1
      /\ DOMAIN conditions.height = 0 .. Size - 1
  BY <1>1 DEF TypeOK, ConditionsType
<1>3. ASSUME NEW d \in 0 .. conditions.nr1 - 1, NEW j \in 0 .. conditions.nr1
      PROVE  RowStart(conditions.nr1, d) + j \in DOMAIN conditions.changed
  <2>0. /\ conditions.nr1 \in Nat /\ Size \in Nat /\ conditions.nr1 <= Size
        /\ d \in Nat /\ d < conditions.nr1
    BY <1>1, <1>2
  <2>1. (conditions.nr1 + 1) * d + j \in 0 .. Size * (Size + 1) - 1
    BY <2>0, RowInside
  <2> QED  BY <1>2, <2>1 DEF RowStart, ConditionsType
<1>4. ASSUME NEW d \in 0 .. conditions.nr1 - 1
      PROVE  /\ RowStart(conditions.nr1, d) \in DOMAIN conditions.changed
             /\ conditions.changed[RowStart(conditions.nr1, d)] \in Nat
  <2>1. RowStart(conditions.nr1, d) + 0 = RowStart(conditions.nr1, d)
    BY <1>1, <1>2 DEF RowStart
  <2>2. RowStart(conditions.nr1, d) \in DOMAIN conditions.changed
    BY <1>2, <1>3, <2>1
  <2> QED  BY <1>1, <1>2, <2>2 DEF ConditionsType
<1> QED  BY <1>1, <1>2, <1>3, <1>4

(* A column was pushed at fewer than nr1 depths ...                           *)
LEMMA PushedAtFinite ==
  ASSUME TypeOK, NEW i
  PROVE  IsFiniteSet(PushedAt(i)) /\ Cardinality(PushedAt(i)) \in 0 .. conditions.nr1 - 1
<1> DEFINE n == conditions.nr1
<1>1. n - 1 \in Nat  BY TypeFacts
<1>2. PushedAt(i) \in SUBSET (1 .. n - 1)  BY DEF PushedAt, Depths
<1> HIDE DEF n
<1>3. IsFiniteSet(1 .. n - 1) /\ Cardinality(1 .. n - 1) = n - 1
  BY <1>1, FirstNaturals
<1>4. IsFiniteSet(PushedAt(i)) /\ Cardinality(PushedAt(i)) <= n - 1
  BY <1>2, <1>3, FS_Subset
<1>5. Cardinality(PushedAt(i)) \in Nat  BY <1>4, FS_CardinalityType
<1> QED  BY <1>1, <1>4, <1>5 DEF n

(* ... so that its height is at most nr1.                                     *)
LEMMA HeightType ==
  ASSUME IInv, open, NEW i \in Columns(conditions)
  PROVE  conditions.height[i] \in 1 .. conditions.nr1
<1>1. conditions.height[i] = 1 + Cardinality(PushedAt(i))
  BY DEF IInv, HeightCountsPushes, PushedAt
<1>2. Cardinality(PushedAt(i)) \in 0 .. conditions.nr1 - 1 /\ conditions.nr1 \in Nat
  BY PushedAtFinite, TypeFacts DEF IInv
<1> QED  BY <1>1, <1>2

(* A column that the current depth has not pushed can still be pushed. *)
LEMMA HeightHasRoom ==
  ASSUME IInv, open, NEW i \in Columns(conditions), depth \in 1 .. conditions.nr1 - 1,
         i \notin Row(conditions, depth)
  PROVE  conditions.height[i] \in 1 .. conditions.nr1 - 1
<1> DEFINE n == conditions.nr1
           others == (1 .. n - 1) \ {depth}
<1>1. n - 1 \in Nat /\ TypeOK  BY TypeFacts DEF IInv
<1>2. PushedAt(i) \in SUBSET others  BY DEF PushedAt, Depths
<1>3. depth \in 1 .. n - 1  OBVIOUS
<1>4. conditions.height[i] = 1 + Cardinality(PushedAt(i))
  BY DEF IInv, HeightCountsPushes, PushedAt
<1>5. Cardinality(PushedAt(i)) \in 0 .. n - 1  BY <1>1, PushedAtFinite
<1> HIDE DEF n
<1>6. IsFiniteSet(1 .. n - 1) /\ Cardinality(1 .. n - 1) = n - 1
  BY <1>1, FirstNaturals
<1>7. IsFiniteSet(others) /\ Cardinality(others) = n - 1 - 1
  BY <1>3, <1>6, FS_RemoveElement
<1>8. Cardinality(PushedAt(i)) <= n - 1 - 1
  BY <1>2, <1>7, FS_Subset
<1> QED  BY <1>1, <1>4, <1>5, <1>8 DEF n

(* No row has more entries than there are columns ...                         *)
LEMMA RowsFit ==
  ASSUME IInv, open, NEW d \in 0 .. conditions.nr1 - 1
  PROVE  conditions.changed[RowStart(conditions.nr1, d)] \in 0 .. conditions.nr1
<1> DEFINE n == conditions.nr1
           start == RowStart(n, d)
<1>1. /\ TypeOK
      /\ n \in Nat \ {0}
      /\ conditions.changed[start] \in Nat
  BY TypeFacts DEF IInv
<1>2. CASE d = 0
  <2>1. start = 0  BY <1>1, <1>2 DEF RowStart
  <2> QED  BY <1>1, <2>1 DEF IInv, RowZeroComplete
<1>3. CASE d # 0
  <2>1. \A j, k \in 1 .. conditions.changed[start] :
          /\ conditions.changed[start + j] \in Columns(conditions)
          /\ conditions.changed[start + j] = conditions.changed[start + k] => j = k
    BY <1>3 DEF IInv, RowsInjective
  <2>2. conditions.changed[start] <= Cardinality(Columns(conditions))
    BY <1>1, <2>1, ColumnsCount, RowCount
  <2> QED  BY <1>1, <2>2, ColumnsCount
<1> QED  BY <1>2, <1>3

(* ... and fewer, if it leaves one out.                                       *)
LEMMA RowHasRoom ==
  ASSUME IInv, open, NEW d \in 1 .. conditions.nr1 - 1,
         NEW i \in Columns(conditions), i \notin Row(conditions, d)
  PROVE  conditions.changed[RowStart(conditions.nr1, d)] \in 0 .. conditions.nr1 - 1
<1> DEFINE n == conditions.nr1
           start == RowStart(n, d)
           T == Columns(conditions) \ {i}
<1>1. /\ TypeOK
      /\ n \in Nat \ {0}
      /\ conditions.changed[start] \in Nat
  BY TypeFacts DEF IInv
<1>2. \A j, k \in 1 .. conditions.changed[start] :
        /\ conditions.changed[start + j] \in T
        /\ conditions.changed[start + j] = conditions.changed[start + k] => j = k
  BY DEF IInv, RowsInjective, Row
<1>3. IsFiniteSet(Columns(conditions)) /\ Cardinality(Columns(conditions)) = n
  BY <1>1, ColumnsCount
<1>4. IsFiniteSet(T) /\ Cardinality(T) = n - 1
  BY <1>3, FS_RemoveElement
<1>5. conditions.changed[start] <= Cardinality(T)
  BY <1>1, <1>2, <1>4, RowCount
<1> QED  BY <1>1, <1>4, <1>5

------------------------------------------------------------------------------
(* The new object satisfies the invariant.                                    *)
LEMMA InitIInv == Init => IInv
<1> SUFFICES ASSUME Init PROVE IInv  OBVIOUS
<1>1. TypeOK
  <2>1. Size \in Nat  BY StructureSizeAssumption DEF Size
  <2>2. new_conditions.nr1 = Size  BY DEF new_conditions
  <2>3. /\ conditions \in ConditionsType
        /\ depth \in 0 .. Size
        /\ depth <= conditions.nr1
    BY <2>1, <2>2, NewType DEF Init
  <2>4. open \in BOOLEAN  BY DEF Init
  <2> QED  BY <2>3, <2>4 DEF TypeOK
<1> QED  BY <1>1 DEF Init, IInv, RowZeroComplete, RowsInjective, RowsAboveEmpty, HeightCountsPushes

(* A new search does not depend on what the one before left behind.           *)
LEMMA StartPreserves ==
  ASSUME NEW s \in Searches, IInv, Start(s)
  PROVE  IInv'
<1>0. /\ s.nr1 \in 1 .. Size /\ s.nr2 \in 1 .. Size
      /\ Size \in Nat \ {0}
      /\ conditions \in ConditionsType
      /\ conditions' = StartWith(conditions, s.nr1, s.nr2, s.base)
      /\ depth' = 0 /\ open' = TRUE
  BY SearchesAssumption, TypeFacts DEF SearchType, IInv, Start
<1>1. /\ conditions'.nr1 = s.nr1
      /\ \A i \in 0 .. s.nr1 - 1 : conditions'.height[i] = 1
      /\ conditions'.changed[0] = s.nr1
      /\ \A j \in 1 .. s.nr1 : conditions'.changed[j] = j - 1
      /\ \A d \in 1 .. s.nr1 - 1 : conditions'.changed[RowStart(s.nr1, d)] = 0
  BY <1>0, StartFields
<1>2. TypeOK'
  BY <1>0, <1>1, StartWithType DEF TypeOK
<1>3. RowZeroComplete' /\ RowsInjective' /\ RowsAboveEmpty'
  BY <1>0, <1>1 DEF RowZeroComplete, RowsInjective, RowsAboveEmpty
<1>4. HeightCountsPushes'
  <2>1. Depths' = {}  BY <1>0 DEF Depths
  <2>2. \A i : {d \in Depths' : i \in Row(conditions', d)} = {}  BY <2>1
  <2> QED  BY <1>1, <2>2, FS_EmptySet DEF HeightCountsPushes, Columns
<1> QED  BY <1>2, <1>3, <1>4 DEF IInv

(* init_data_from_args returns false: no search is on.                        *)
LEMMA RefusePreserves ==
  ASSUME NEW s \in Searches, IInv, Refuse(s)
  PROVE  IInv'
<1>1. TypeOK'
  <2>1. /\ s.nr1 \in 1 .. Size /\ s.nr2 \in 1 .. Size
        /\ Size \in Nat \ {0}
        /\ conditions \in ConditionsType
        /\ conditions' = NarrowBottom(conditions, s.nr1, s.nr2, s.base)
        /\ depth' = 0 /\ open' = FALSE
    BY SearchesAssumption, TypeFacts DEF SearchType, IInv, Refuse
  <2>2. conditions' \in ConditionsType  BY <2>1, NarrowBottomType
  <2>3. conditions'.nr1 \in 1 .. Size  BY <2>2 DEF ConditionsType
  <2>4. depth' \in 0 .. Size /\ depth' <= conditions'.nr1  BY <2>1, <2>3
  <2>5. open' \in BOOLEAN  BY <2>1
  <2> QED  BY <2>2, <2>4, <2>5 DEF TypeOK
<1> QED  BY <1>1 DEF Refuse, IInv, RowZeroComplete, RowsInjective, RowsAboveEmpty, HeightCountsPushes

(* The row of the new depth is empty, so no height is wrong.                  *)
LEMMA DescendPreserves ==
  ASSUME IInv, Descend
  PROVE  IInv'
<1>0. /\ open /\ open' /\ depth' = depth + 1 /\ conditions' = conditions
      /\ depth < conditions.nr1
      /\ conditions.nr1 \in 1 .. Size /\ depth \in Nat /\ Size \in Nat
  BY TypeFacts DEF Descend, IInv
<1>1. TypeOK'
  BY <1>0 DEF IInv, TypeOK
<1>2. RowZeroComplete' /\ RowsInjective' /\ RowsAboveEmpty'
  BY <1>0 DEF IInv, RowZeroComplete, RowsInjective, RowsAboveEmpty
<1>3. HeightCountsPushes'
  <2>1. ASSUME NEW i
        PROVE  {d \in Depths' : i \in Row(conditions', d)}
                 = {d \in Depths : i \in Row(conditions, d)}
    <3>1. depth + 1 \in 1 .. conditions.nr1 - 1 => Row(conditions, depth + 1) = {}
      BY <1>0 DEF IInv, RowsAboveEmpty, Row
    <3> QED  BY <1>0, <3>1 DEF Depths
  <2> QED  BY <1>0, <2>1 DEF IInv, HeightCountsPushes
<1> QED  BY <1>1, <1>2, <1>3 DEF IInv

(* The row of the current depth gets one entry, the column one level; the     *)
(* other rows are not reached.                                                *)
LEMMA PushEffect ==
  ASSUME NEW i \in Columns(conditions), NEW b, IInv, Push(i, b)
  PROVE  LET n     == conditions.nr1
             start == RowStart(n, depth)
             count == conditions.changed[start] + 1
             place == Index(n, conditions.height[i] + 1, i)
             cell  == intersect_bit_arrays(get_conditions(conditions, i), b, conditions.nr2)
         IN  /\ conditions.height[i] \in 1 .. n - 1
             /\ count \in 1 .. n /\ conditions.changed[start] = count - 1
             /\ conditions' = [ bit_array |-> [conditions.bit_array EXCEPT ![place] = cell],
                                changed |-> [conditions.changed EXCEPT ![start] = count,
                                                                       ![start + count] = i],
                                height |-> [conditions.height EXCEPT ![i] = @ + 1],
                                sizes |-> [conditions.sizes EXCEPT
                                             ![place] = size_bit_array(cell, conditions.nr2)],
                                nr1 |-> n,
                                nr2 |-> conditions.nr2 ]
             /\ place \in 0 .. Size * Size - 1
             /\ get_conditions(conditions, i) \in SUBSET Bits
             /\ \A d \in 0 .. n - 1, j \in 0 .. n :
                  conditions'.changed[RowStart(n, d) + j]
                    = IF d # depth THEN conditions.changed[RowStart(n, d) + j]
                      ELSE IF j = 0 THEN count
                      ELSE IF j = count THEN i
                      ELSE conditions.changed[RowStart(n, d) + j]
             /\ \A d \in 0 .. n - 1 : d # depth =>
                  /\ conditions'.changed[RowStart(n, d)] = conditions.changed[RowStart(n, d)]
                  /\ Row(conditions', d) = Row(conditions, d)
<1> DEFINE n     == conditions.nr1
           start == RowStart(n, depth)
           count == conditions.changed[start] + 1
           place == Index(n, conditions.height[i] + 1, i)
           cell  == intersect_bit_arrays(get_conditions(conditions, i), b, conditions.nr2)
<1>0. /\ open /\ open' = open /\ depth' = depth
      /\ depth \in 1 .. n - 1
      /\ i \notin Row(conditions, depth)
      /\ conditions' = store_size_conditions(push_conditions(conditions, depth, i, b), i)
  BY DEF Push
<1>1. /\ TypeOK
      /\ conditions \in ConditionsType
      /\ Size \in Nat \ {0}
      /\ n \in 1 .. Size
      /\ n \in Nat
      /\ conditions.nr2 \in 0 .. Size
      /\ i \in 0 .. n - 1
  BY TypeFacts DEF IInv, Columns
<1>2. conditions.height[i] \in 1 .. n - 1
  BY <1>0, HeightHasRoom
<1>3. count \in 1 .. n /\ conditions.changed[start] = count - 1
  <2>1. conditions.changed[start] \in 0 .. n - 1  BY <1>0, <1>1, RowHasRoom
  <2> QED  BY <1>1, <2>1
<1>4. /\ conditions' = [ bit_array |-> [conditions.bit_array EXCEPT ![place] = cell],
                         changed |-> [conditions.changed EXCEPT ![start] = count,
                                                                ![start + count] = i],
                         height |-> [conditions.height EXCEPT ![i] = @ + 1],
                         sizes |-> [conditions.sizes EXCEPT
                                      ![place] = size_bit_array(cell, conditions.nr2)],
                         nr1 |-> n,
                         nr2 |-> conditions.nr2 ]
      /\ place \in 0 .. Size * Size - 1
      /\ get_conditions(conditions, i) \in SUBSET Bits
  BY <1>0, <1>1, <1>2, PushFields
<1>5. /\ conditions'.nr1 = n
      /\ conditions'.changed = [conditions.changed EXCEPT ![start] = count, ![start + count] = i]
      /\ conditions'.height = [conditions.height EXCEPT ![i] = @ + 1]
  BY <1>4
<1>6. ASSUME NEW d \in 0 .. n - 1, NEW j \in 0 .. n
      PROVE  conditions'.changed[RowStart(n, d) + j]
               = IF d # depth THEN conditions.changed[RowStart(n, d) + j]
                 ELSE IF j = 0 THEN count
                 ELSE IF j = count THEN i
                 ELSE conditions.changed[RowStart(n, d) + j]
  <2>1. RowStart(n, d) + j \in DOMAIN conditions.changed
    BY <1>1, TypeFacts
  <2>2. start + 0 = start  BY <1>0, <1>1 DEF RowStart
  <2> HIDE DEF count, n
  <2>a. n \in Nat /\ d \in Nat /\ depth \in Nat /\ 0 \in 0 .. n /\ count \in 0 .. n
    BY <1>0, <1>1, <1>3
  <2>3. RowStart(n, d) + j = start + 0 => d = depth /\ j = 0
    BY <2>a, RowApart
  <2>4. RowStart(n, d) + j = start + count => d = depth /\ j = count
    BY <2>a, RowApart
  <2>5. CASE d # depth  BY <1>5, <2>1, <2>2, <2>3, <2>4, <2>5
  <2>6. CASE d = depth  BY <1>3, <1>5, <2>1, <2>2, <2>3, <2>4, <2>6
  <2> QED  BY <2>5, <2>6
<1>7. ASSUME NEW d \in 0 .. n - 1, d # depth
      PROVE  /\ conditions'.changed[RowStart(n, d)] = conditions.changed[RowStart(n, d)]
             /\ Row(conditions', d) = Row(conditions, d)
  <2>1. RowStart(n, d) \in Nat  BY <1>1 DEF RowStart
  <2>2. conditions.changed[RowStart(n, d)] \in 0 .. n  BY <1>0, RowsFit
  <2>3. \A j \in 0 .. n : conditions'.changed[RowStart(n, d) + j]
                             = conditions.changed[RowStart(n, d) + j]
    BY <1>6, <1>7
  <2>4. n \in Nat /\ conditions'.nr1 = n  BY <1>1, <1>5
  <2> QED  BY <2>1, <2>2, <2>3, <2>4, SameRow
<1> QED  BY <1>2, <1>3, <1>4, <1>6, <1>7

(* So the row still lists no column twice, and the heights still count.       *)
LEMMA PushPreserves ==
  ASSUME NEW i \in Columns(conditions), NEW b, IInv, Push(i, b)
  PROVE  IInv'
<1> DEFINE n     == conditions.nr1
           start == RowStart(n, depth)
           count == conditions.changed[start] + 1
           place == Index(n, conditions.height[i] + 1, i)
           cell  == intersect_bit_arrays(get_conditions(conditions, i), b, conditions.nr2)
<1>0. /\ open /\ open' = open /\ depth' = depth
      /\ depth \in 1 .. n - 1
      /\ i \notin Row(conditions, depth)
      /\ conditions' = store_size_conditions(push_conditions(conditions, depth, i, b), i)
  BY DEF Push
<1>1. /\ TypeOK
      /\ conditions \in ConditionsType
      /\ Size \in Nat \ {0}
      /\ n \in 1 .. Size
      /\ n \in Nat
      /\ conditions.nr2 \in 0 .. Size
      /\ i \in 0 .. n - 1
  BY TypeFacts DEF IInv, Columns
<1>2. conditions.height[i] \in 1 .. n - 1
  BY PushEffect
<1>3. count \in 1 .. n /\ conditions.changed[start] = count - 1
  BY PushEffect
<1>4. /\ conditions' = [ bit_array |-> [conditions.bit_array EXCEPT ![place] = cell],
                         changed |-> [conditions.changed EXCEPT ![start] = count,
                                                                ![start + count] = i],
                         height |-> [conditions.height EXCEPT ![i] = @ + 1],
                         sizes |-> [conditions.sizes EXCEPT
                                      ![place] = size_bit_array(cell, conditions.nr2)],
                         nr1 |-> n,
                         nr2 |-> conditions.nr2 ]
      /\ get_conditions(conditions, i) \in SUBSET Bits
  BY PushEffect
<1>5. /\ conditions'.nr1 = n
      /\ conditions'.changed = [conditions.changed EXCEPT ![start] = count, ![start + count] = i]
      /\ conditions'.height = [conditions.height EXCEPT ![i] = @ + 1]
  BY <1>4
<1>6. TypeOK'
  <2>1. cell \in SUBSET Bits  BY <1>1, <1>4, BitArrayTypes
  <2>2. size_bit_array(cell, conditions.nr2) \in Nat  BY <1>1, <2>1, SizeIsNatural
  <2> HIDE DEF cell, place, start, count
  <2>3. [conditions.bit_array EXCEPT ![place] = cell] \in [0 .. Size * Size - 1 -> SUBSET Bits]
    BY <1>1, <2>1 DEF ConditionsType
  <2>4. [conditions.changed EXCEPT ![start] = count, ![start + count] = i]
          \in [0 .. Size * (Size + 1) - 1 -> 0 .. Size]
    <3>1. count \in 0 .. Size /\ i \in 0 .. Size  BY <1>1, <1>3
    <3>2. conditions.changed \in [0 .. Size * (Size + 1) - 1 -> 0 .. Size]
      BY <1>1 DEF ConditionsType
    <3> QED  BY <3>1, <3>2
  <2>5. [conditions.height EXCEPT ![i] = @ + 1] \in [0 .. Size - 1 -> 0 .. Size]
    <3>1. conditions.height[i] + 1 \in 0 .. Size  BY <1>1, <1>2
    <3>2. conditions.height \in [0 .. Size - 1 -> 0 .. Size]
      BY <1>1 DEF ConditionsType
    <3> QED  BY <3>1, <3>2
  <2>6. [conditions.sizes EXCEPT ![place] = size_bit_array(cell, conditions.nr2)]
          \in [0 .. Size * Size - 1 -> Nat \cup {Unset}]
    BY <1>1, <2>2 DEF ConditionsType
  <2>7. conditions' \in ConditionsType
    BY <1>1, <1>4, <2>3, <2>4, <2>5, <2>6 DEF ConditionsType
  <2> QED  BY <1>0, <1>1, <1>5, <2>7 DEF TypeOK
<1>7. ASSUME NEW d \in 0 .. n - 1, NEW j \in 0 .. n
      PROVE  conditions'.changed[RowStart(n, d) + j]
               = IF d # depth THEN conditions.changed[RowStart(n, d) + j]
                 ELSE IF j = 0 THEN count
                 ELSE IF j = count THEN i
                 ELSE conditions.changed[RowStart(n, d) + j]
  BY PushEffect
<1>8. /\ conditions'.changed[start] = count
      /\ conditions'.changed[start + count] = i
      /\ \A j \in 1 .. count - 1 : conditions'.changed[start + j] = conditions.changed[start + j]
  <2>1. start + 0 = start  BY <1>0, <1>1 DEF RowStart
  <2> HIDE DEF start, count
  <2> QED  BY <1>0, <1>1, <1>3, <1>7, <2>1 DEF start
<1>9. ASSUME NEW d \in 0 .. n - 1, d # depth
      PROVE  /\ conditions'.changed[RowStart(n, d)] = conditions.changed[RowStart(n, d)]
             /\ Row(conditions', d) = Row(conditions, d)
  BY <1>9, PushEffect
<1>10. RowZeroComplete'
  <2>1. RowStart(n, 0) = 0  BY <1>1 DEF RowStart
  <2>2. \A j \in 0 .. n : conditions'.changed[j] = conditions.changed[j]
    BY <1>0, <1>1, <1>7, <2>1
  <2> QED  BY <1>0, <1>1, <1>5, <2>2 DEF IInv, RowZeroComplete
<1>11. RowsInjective'
  <2> SUFFICES ASSUME NEW d \in 1 .. n - 1,
                      NEW j \in 1 .. conditions'.changed[RowStart(n, d)],
                      NEW k \in 1 .. conditions'.changed[RowStart(n, d)]
               PROVE  /\ conditions'.changed[RowStart(n, d) + j] \in Columns(conditions)
                      /\ conditions'.changed[RowStart(n, d) + j]
                           = conditions'.changed[RowStart(n, d) + k] => j = k
    BY <1>5 DEF RowsInjective, Columns
  <2>1. CASE d # depth
    <3>1. conditions'.changed[RowStart(n, d)] = conditions.changed[RowStart(n, d)]
      BY <1>1, <1>9, <2>1
    <3>2. conditions.changed[RowStart(n, d)] \in 0 .. n  BY <1>0, <1>1, RowsFit
    <3>3. /\ conditions'.changed[RowStart(n, d) + j] = conditions.changed[RowStart(n, d) + j]
          /\ conditions'.changed[RowStart(n, d) + k] = conditions.changed[RowStart(n, d) + k]
      BY <1>1, <1>7, <2>1, <3>1, <3>2
    <3> QED  BY <1>0, <3>1, <3>3 DEF IInv, RowsInjective
  <2>2. CASE d = depth
    <3>0. /\ conditions.changed[RowStart(conditions.nr1, depth)] = count - 1
          /\ start = RowStart(conditions.nr1, depth)
          /\ depth \in 1 .. conditions.nr1 - 1 /\ open /\ i \notin Row(conditions, depth)
      BY <1>0, <1>3
    <3> HIDE DEF count, start
    <3>1. \A l \in 1 .. count - 1 : /\ conditions.changed[start + l] \in Columns(conditions)
                                   /\ conditions.changed[start + l] # i
      BY <3>0 DEF IInv, RowsInjective, Row
    <3>2. \A l, m \in 1 .. count - 1 :
            conditions.changed[start + l] = conditions.changed[start + m] => l = m
      BY <3>0 DEF IInv, RowsInjective
    <3>3. j \in 1 .. count /\ k \in 1 .. count /\ RowStart(n, d) = start
      BY <1>8, <2>2 DEF start
    <3> QED  BY <1>3, <1>8, <3>1, <3>2, <3>3
  <2> QED  BY <2>1, <2>2
<1>12. RowsAboveEmpty'
  BY <1>0, <1>1, <1>5, <1>9 DEF IInv, RowsAboveEmpty
<1>13. HeightCountsPushes'
  <2>1. Depths' = Depths  BY <1>0, <1>5 DEF Depths
  <2>2. Row(conditions', depth) = Row(conditions, depth) \cup {i}
    <3>1. /\ Row(conditions, depth) = {conditions.changed[start + j] : j \in 1 .. count - 1}
          /\ Row(conditions', depth) = {conditions'.changed[start + j] : j \in 1 .. count}
      BY <1>3, <1>5, <1>8 DEF Row
    <3> HIDE DEF count, start
    <3>2. 1 .. count = (1 .. count - 1) \cup {count}  BY <1>3
    <3> QED  BY <1>8, <3>1, <3>2
  <2>3. ASSUME NEW l \in Columns(conditions)
        PROVE  conditions'.height[l] = 1 + Cardinality({d \in Depths' : l \in Row(conditions', d)})
    <3> DEFINE after == {d \in Depths' : l \in Row(conditions', d)}
    <3>1. conditions.height[l] = 1 + Cardinality(PushedAt(l))
      BY <1>0 DEF IInv, HeightCountsPushes, PushedAt
    <3>2. CASE l # i
      <4>1. after = PushedAt(l)  BY <1>1, <1>9, <2>1, <2>2, <3>2 DEF PushedAt, Depths
      <4>2. conditions'.height[l] = conditions.height[l]  BY <1>5, <3>2
      <4> QED  BY <3>1, <4>1, <4>2
    <3>3. CASE l = i
      <4>1. after = PushedAt(l) \cup {depth}
        BY <1>0, <1>1, <1>9, <2>1, <2>2, <3>3 DEF PushedAt, Depths
      <4>2. depth \notin PushedAt(l)  BY <1>0, <3>3 DEF PushedAt
      <4>3. Cardinality(after) = Cardinality(PushedAt(l)) + 1
        BY <1>1, <4>1, <4>2, PushedAtFinite, FS_AddElement
      <4>4. conditions'.height[l] = conditions.height[l] + 1
        BY <1>1, <1>5, <3>3, TypeFacts
      <4>5. Cardinality(PushedAt(l)) \in Nat  BY <1>1, PushedAtFinite
      <4> QED  BY <3>1, <4>3, <4>4, <4>5
    <3> QED  BY <3>2, <3>3
  <2> QED  BY <1>5, <2>3 DEF HeightCountsPushes, Columns
<1> QED  BY <1>6, <1>10, <1>11, <1>12, <1>13 DEF IInv

(* Only the cell on top of a column changes.                                  *)
LEMMA NarrowInPlacePreserves ==
  ASSUME NEW i \in Columns(conditions), NEW b, IInv, NarrowInPlace(i, b)
  PROVE  IInv'
<1> DEFINE cell == intersect_bit_arrays(get_conditions(conditions, i), b, conditions.nr2)
           cells == [conditions.bit_array EXCEPT ![Top(conditions, i)] = cell]
<1>1. /\ TypeOK /\ open /\ open' = open /\ depth' = depth
      /\ conditions \in ConditionsType
      /\ conditions' = IntersectTop(conditions, i, b)
  BY TypeFacts DEF IInv, NarrowInPlace
<1>2. /\ conditions' = [ bit_array |-> cells, changed |-> conditions.changed,
                         height |-> conditions.height, sizes |-> conditions.sizes,
                         nr1 |-> conditions.nr1, nr2 |-> conditions.nr2 ]
      /\ cell \in SUBSET Bits
  BY <1>1, HeightType, IntersectFields
<1>3. cells \in [0 .. Size * Size - 1 -> SUBSET Bits]
  BY <1>1, <1>2 DEF ConditionsType
<1> HIDE DEF cells, cell
<1>4. /\ conditions'.nr1 = conditions.nr1
      /\ conditions'.changed = conditions.changed
      /\ conditions'.height = conditions.height
  BY <1>2
<1>5. conditions' \in ConditionsType
  BY <1>1, <1>2, <1>3 DEF ConditionsType
<1>6. TypeOK'
  BY <1>1, <1>4, <1>5 DEF TypeOK
<1>7. RowZeroComplete' /\ RowsInjective' /\ RowsAboveEmpty'
  BY <1>1, <1>4 DEF IInv, RowZeroComplete, RowsInjective, RowsAboveEmpty, Columns
<1>8. Depths' = Depths /\ \A d : Row(conditions', d) = Row(conditions, d)
  BY <1>1, <1>4 DEF Depths, Row
<1>9. HeightCountsPushes'
  BY <1>1, <1>4, <1>8 DEF IInv, HeightCountsPushes, Columns
<1> QED  BY <1>6, <1>7, <1>9 DEF IInv

(* What a pop below depth nr1 leaves of the heights and of the rows. *)
LEMMA PopEffect ==
  ASSUME IInv, open, depth \in 0 .. conditions.nr1 - 1
  PROVE  LET p == pop_conditions(conditions, depth)
             n == conditions.nr1
         IN  /\ p \in ConditionsType
             /\ p.nr1 = n
             /\ p.bit_array = conditions.bit_array
             /\ \A i \in Columns(conditions) :
                  p.height[i] = conditions.height[i]
                                - (IF i \in Row(conditions, depth) THEN 1 ELSE 0)
             /\ p.changed[RowStart(n, depth)] = 0
             /\ \A d \in 0 .. n - 1 : d # depth =>
                  /\ p.changed[RowStart(n, d)] = conditions.changed[RowStart(n, d)]
                  /\ \A j \in 0 .. n : p.changed[RowStart(n, d) + j]
                                         = conditions.changed[RowStart(n, d) + j]
                  /\ Row(p, d) = Row(conditions, d)
<1> DEFINE p     == pop_conditions(conditions, depth)
           n     == conditions.nr1
           start == RowStart(n, depth)
           Count(i) == Cardinality(Places(conditions, depth, i))
           h     == [i \in 0 .. Size - 1 |-> conditions.height[i] - Count(i)]
<1>0. /\ TypeOK
      /\ conditions \in ConditionsType
      /\ Size \in Nat \ {0}
      /\ n \in 1 .. Size
      /\ n \in Nat
      /\ start \in DOMAIN conditions.changed
      /\ depth \in Nat
  BY TypeFacts DEF IInv
<1>1. p = [ bit_array |-> conditions.bit_array,
            changed   |-> [conditions.changed EXCEPT ![start] = 0],
            height    |-> h,
            sizes     |-> conditions.sizes,
            nr1       |-> n,
            nr2       |-> conditions.nr2 ]
  BY <1>0, PopFields
<1>2. \A j, k \in 1 .. conditions.changed[start] :
        /\ conditions.changed[start + j] \in Columns(conditions)
        /\ conditions.changed[start + j] = conditions.changed[start + k] => j = k
  <2>1. CASE depth = 0
    <3>1. start = 0  BY <1>0, <2>1 DEF RowStart
    <3> HIDE DEF start
    <3> QED  BY <1>0, <3>1 DEF IInv, RowZeroComplete, Columns
  <2>2. CASE depth # 0
    BY <1>0, <2>2 DEF IInv, RowsInjective
  <2> QED  BY <2>1, <2>2
<1>3. \A i : Count(i) = IF i \in Row(conditions, depth) THEN 1 ELSE 0
  BY <1>2, PlacesCount
<1>4. Row(conditions, depth) \subseteq Columns(conditions)
  BY <1>2 DEF Row
<1> HIDE DEF Count, start
<1>5. h \in [0 .. Size - 1 -> 0 .. Size]
  <2> SUFFICES ASSUME NEW i \in 0 .. Size - 1  PROVE conditions.height[i] - Count(i) \in 0 .. Size
    OBVIOUS
  <2>1. conditions.height[i] \in 0 .. Size  BY <1>0 DEF ConditionsType
  <2>2. i \in Row(conditions, depth) => conditions.height[i] \in 1 .. n
    BY <1>4, HeightType
  <2> QED  BY <1>0, <1>3, <2>1, <2>2
<1>6. [conditions.changed EXCEPT ![start] = 0] \in [0 .. Size * (Size + 1) - 1 -> 0 .. Size]
  BY <1>0 DEF ConditionsType
<1>7. p \in ConditionsType
  <2> HIDE DEF h, p
  <2> QED  BY <1>0, <1>1, <1>5, <1>6 DEF ConditionsType
<1>8. ASSUME NEW i \in Columns(conditions)
      PROVE  p.height[i] = conditions.height[i] - (IF i \in Row(conditions, depth) THEN 1 ELSE 0)
  <2>1. i \in 0 .. Size - 1  BY <1>0 DEF Columns
  <2> HIDE DEF p
  <2> QED  BY <1>1, <1>3, <2>1
<1>9. p.changed[start] = 0
  BY <1>0, <1>1
<1>10. ASSUME NEW d \in 0 .. n - 1, d # depth
       PROVE  /\ p.changed[RowStart(n, d)] = conditions.changed[RowStart(n, d)]
              /\ \A j \in 0 .. n : p.changed[RowStart(n, d) + j]
                                     = conditions.changed[RowStart(n, d) + j]
              /\ Row(p, d) = Row(conditions, d)
  <2>1. ASSUME NEW j \in 0 .. n
        PROVE  p.changed[RowStart(n, d) + j] = conditions.changed[RowStart(n, d) + j]
    <3>1. RowStart(n, d) + j # start + 0
      BY <1>0, <1>10, RowApart DEF start
    <3>2. start + 0 = start  BY <1>0 DEF start, RowStart
    <3> HIDE DEF p
    <3> QED  BY <1>1, <3>1, <3>2
  <2>2. RowStart(n, d) \in Nat  BY <1>0 DEF RowStart
  <2>3. conditions.changed[RowStart(n, d)] \in 0 .. n  BY RowsFit
  <2>4. p.nr1 = n  BY <1>1
  <2> QED  BY <1>0, <2>1, <2>2, <2>3, <2>4, SameRow
<1> QED  BY <1>1, <1>7, <1>8, <1>9, <1>10 DEF start

(* A pop takes one level off the columns of the row, and off no other.        *)
LEMMA ReturnPreserves ==
  ASSUME IInv, Return
  PROVE  IInv'
<1> DEFINE n == conditions.nr1
           p == pop_conditions(conditions, depth)
<1>0. /\ TypeOK /\ open /\ open' /\ open' \in BOOLEAN
      /\ Size \in Nat \ {0}
      /\ n \in 1 .. Size
      /\ n \in Nat
      /\ depth \in 1 .. n
      /\ depth' = depth - 1
      /\ conditions \in ConditionsType
  BY TypeFacts DEF Return, IInv, TypeOK
<1>1. CASE depth = n
  <2>1. conditions' = conditions  BY <1>0, <1>1 DEF Return
  <2>2. TypeOK'  BY <1>0, <2>1 DEF TypeOK
  <2>3. RowZeroComplete' /\ RowsInjective' /\ RowsAboveEmpty'
    BY <1>0, <1>1, <2>1 DEF IInv, RowZeroComplete, RowsInjective, RowsAboveEmpty
  <2>4. Depths' = Depths  BY <1>0, <1>1, <2>1 DEF Depths
  <2>5. HeightCountsPushes'  BY <1>0, <2>1, <2>4 DEF IInv, HeightCountsPushes
  <2> QED  BY <2>2, <2>3, <2>5 DEF IInv
<1>2. CASE depth # n
  <2>1. conditions' = p  BY <1>0, <1>2 DEF Return
  <2>2. /\ p \in ConditionsType
        /\ p.nr1 = n
        /\ \A i \in Columns(conditions) :
             p.height[i] = conditions.height[i]
                           - (IF i \in Row(conditions, depth) THEN 1 ELSE 0)
        /\ p.changed[RowStart(n, depth)] = 0
        /\ \A d \in 0 .. n - 1 : d # depth =>
             /\ p.changed[RowStart(n, d)] = conditions.changed[RowStart(n, d)]
             /\ \A j \in 0 .. n : p.changed[RowStart(n, d) + j]
                                    = conditions.changed[RowStart(n, d) + j]
             /\ Row(p, d) = Row(conditions, d)
    BY <1>0, <1>2, PopEffect
  <2> HIDE DEF p
  <2>3. TypeOK'
    BY <1>0, <2>1, <2>2 DEF TypeOK
  <2>4. RowZeroComplete'
    <3>1. RowStart(n, 0) = 0  BY <1>0 DEF RowStart
    <3>2. \A j \in 0 .. n : p.changed[j] = conditions.changed[j]
      BY <1>0, <2>2, <3>1
    <3> QED  BY <1>0, <2>1, <2>2, <3>2 DEF IInv, RowZeroComplete
  <2>5. RowsInjective'
    <3> SUFFICES ASSUME NEW d \in 1 .. n - 1,
                        NEW j \in 1 .. p.changed[RowStart(n, d)],
                        NEW k \in 1 .. p.changed[RowStart(n, d)]
                 PROVE  /\ p.changed[RowStart(n, d) + j] \in Columns(conditions)
                        /\ p.changed[RowStart(n, d) + j] = p.changed[RowStart(n, d) + k] => j = k
      BY <2>1, <2>2 DEF RowsInjective, Columns
    <3>1. d # depth  BY <2>2
    <3>2. /\ p.changed[RowStart(n, d)] = conditions.changed[RowStart(n, d)]
          /\ conditions.changed[RowStart(n, d)] \in 0 .. n
      BY <1>0, <2>2, <3>1, RowsFit
    <3>3. j \in 0 .. n /\ k \in 0 .. n  BY <1>0, <3>2
    <3>4. /\ p.changed[RowStart(n, d) + j] = conditions.changed[RowStart(n, d) + j]
          /\ p.changed[RowStart(n, d) + k] = conditions.changed[RowStart(n, d) + k]
      BY <2>2, <3>1, <3>3
    <3> QED  BY <1>0, <3>2, <3>4 DEF IInv, RowsInjective
  <2>6. RowsAboveEmpty'
    <3> SUFFICES ASSUME NEW d \in 1 .. n - 1, d > depth - 1
                 PROVE  p.changed[RowStart(n, d)] = 0
      BY <1>0, <2>1, <2>2 DEF RowsAboveEmpty
    <3>1. CASE d = depth  BY <2>2, <3>1
    <3>2. CASE d # depth  BY <1>0, <2>2, <3>2 DEF IInv, RowsAboveEmpty
    <3> QED  BY <3>1, <3>2
  <2>7. HeightCountsPushes'
    <3>1. Depths' = Depths \ {depth} /\ depth \in Depths
      BY <1>0, <1>2, <2>1, <2>2 DEF Depths
    <3>2. ASSUME NEW i \in Columns(conditions)
          PROVE  p.height[i] = 1 + Cardinality({d \in Depths' : i \in Row(p, d)})
      <4> DEFINE after == {d \in Depths' : i \in Row(p, d)}
      <4>1. after = PushedAt(i) \ {depth}
        BY <1>0, <2>2, <3>1 DEF PushedAt, Depths
      <4>2. depth \in PushedAt(i) <=> i \in Row(conditions, depth)
        BY <3>1 DEF PushedAt
      <4>3. conditions.height[i] = 1 + Cardinality(PushedAt(i))
        BY <1>0 DEF IInv, HeightCountsPushes, PushedAt
      <4>4. IsFiniteSet(PushedAt(i)) /\ Cardinality(PushedAt(i)) \in Nat
        BY <1>0, PushedAtFinite
      <4>5. Cardinality(PushedAt(i) \ {depth})
              = IF depth \in PushedAt(i) THEN Cardinality(PushedAt(i)) - 1
                ELSE Cardinality(PushedAt(i))
        BY <4>4, FS_RemoveElement
      <4>6. p.height[i] = conditions.height[i]
                          - (IF i \in Row(conditions, depth) THEN 1 ELSE 0)
        BY <2>2
      <4> HIDE DEF after
      <4>7. p.height[i] = 1 + Cardinality(after)
        <5>1. CASE i \in Row(conditions, depth)
          <6>1. Cardinality(after) = Cardinality(PushedAt(i)) - 1
            BY <4>1, <4>2, <4>5, <5>1
          <6>2. p.height[i] = conditions.height[i] - 1  BY <4>6, <5>1
          <6> QED  BY <4>3, <4>4, <6>1, <6>2
        <5>2. CASE i \notin Row(conditions, depth)
          <6>1. Cardinality(after) = Cardinality(PushedAt(i))
            BY <4>1, <4>2, <4>5, <5>2
          <6>2. p.height[i] = conditions.height[i] - 0  BY <4>6, <5>2
          <6> QED  BY <4>3, <4>4, <6>1, <6>2
        <5> QED  BY <5>1, <5>2
      <4> QED  BY <4>7 DEF after
    <3> QED  BY <2>1, <2>2, <3>2 DEF HeightCountsPushes, Columns
  <2> QED  BY <2>3, <2>4, <2>5, <2>6, <2>7 DEF IInv
<1> QED  BY <1>1, <1>2

(* The root's pop leaves no search, and heights in their range.               *)
LEMMA FinishPreserves ==
  ASSUME IInv, Finish
  PROVE  IInv'
<1>1. TypeOK /\ open /\ depth = 0 /\ conditions' = pop_conditions(conditions, 0)
      /\ depth' = 0 /\ open' = FALSE /\ conditions.nr1 \in Nat \ {0} /\ Size \in Nat
  BY TypeFacts DEF IInv, Finish
<1>2. conditions' \in ConditionsType /\ conditions'.nr1 = conditions.nr1
  BY <1>1, PopEffect
<1>3. open' \in BOOLEAN  BY <1>1
<1>4. TypeOK'
  BY <1>1, <1>2, <1>3 DEF TypeOK
<1> QED  BY <1>1, <1>4 DEF IInv, RowZeroComplete, RowsInjective, RowsAboveEmpty, HeightCountsPushes

(* Every step preserves the invariant.                                        *)
LEMMA NextIInv == IInv /\ [Next]_vars => IInv'
<1> SUFFICES ASSUME IInv, [Next]_vars  PROVE IInv'  OBVIOUS
<1>1. CASE Descend  BY <1>1, DescendPreserves
<1>2. CASE Return  BY <1>2, ReturnPreserves
<1>3. CASE Finish  BY <1>3, FinishPreserves
<1>4. ASSUME NEW i \in Columns(conditions), NEW b \in Masks, Push(i, b)
      PROVE  IInv'
  BY <1>4, PushPreserves
<1>5. ASSUME NEW i \in Columns(conditions), NEW b \in Masks, NarrowInPlace(i, b)
      PROVE  IInv'
  BY <1>5, NarrowInPlacePreserves
<1>6. ASSUME NEW s \in Searches, Start(s)  PROVE  IInv'
  BY <1>6, StartPreserves
<1>7. ASSUME NEW s \in Searches, Refuse(s)  PROVE  IInv'
  BY <1>7, RefusePreserves
<1>8. CASE UNCHANGED vars
  BY <1>8 DEF vars, IInv, TypeOK, RowZeroComplete, RowsInjective, RowsAboveEmpty,
              HeightCountsPushes, Depths, Row, Columns
<1> QED  BY <1>1, <1>2, <1>3, <1>4, <1>5, <1>6, <1>7, <1>8 DEF Next

(* The invariant of the searches of homos.c on the Conditions object, for     *)
(* objects of every size and searches of every dimensions in any order,       *)
(* abandoned at any point.                                                    *)
THEOREM Inductive == Spec => []IInv
BY InitIInv, NextIInv, PTL DEF Spec

(* Every field stays in the range conditions.h allocates for it: no height    *)
(* exceeds the levels there are, no entry is written outside the arrays.      *)
THEOREM TypeCorrect == Spec => []TypeOK
<1>1. IInv => TypeOK  BY DEF IInv
<1> QED  BY <1>1, Inductive, PTL

(* The root's pop finds every column in row 0, as clear_conditions wrote it. *)
THEOREM RootRow == Spec => []RowZeroComplete
<1>1. IInv => RowZeroComplete  BY DEF IInv
<1> QED  BY <1>1, Inductive, PTL

(* No pop takes two levels off a column for one call that pushed it.        *)
THEOREM NoDoublePush == Spec => []RowsInjective
<1>1. IInv => RowsInjective  BY DEF IInv
<1> QED  BY <1>1, Inductive, PTL

(* No pop takes off what an abandoned search pushed: its entries are not     *)
(* read with the stride of the next search.                                  *)
THEOREM NothingLeftAbove == Spec => []RowsAboveEmpty
<1>1. IInv => RowsAboveEmpty  BY DEF IInv
<1> QED  BY <1>1, Inductive, PTL

(* height[i] is always the number of calls that pushed column i, plus one.   *)
THEOREM HeightsAreCounts == Spec => []HeightCountsPushes
<1>1. IInv => HeightCountsPushes  BY DEF IInv
<1> QED  BY <1>1, Inductive, PTL

------------------------------------------------------------------------------
(* The new level is part of the one below; the others are not reached.        *)
LEMMA PushNarrows ==
  ASSUME NEW i \in Columns(conditions), NEW b, IInv, LevelsNarrow, Push(i, b)
  PROVE  LevelsNarrow'
<1> DEFINE n     == conditions.nr1
           top   == conditions.height[i]
           cell  == intersect_bit_arrays(get_conditions(conditions, i), b, conditions.nr2)
<1>0. /\ open /\ depth \in 1 .. n - 1 /\ i \notin Row(conditions, depth)
      /\ conditions' = store_size_conditions(push_conditions(conditions, depth, i, b), i)
      /\ TypeOK
      /\ conditions \in ConditionsType
      /\ n \in Nat /\ conditions.nr2 \in 0 .. Size
      /\ DOMAIN conditions.height = 0 .. Size - 1
      /\ i \in 0 .. Size - 1
  BY TypeFacts DEF Push, IInv, Columns
<1>1. top \in 1 .. n - 1  BY <1>0, HeightHasRoom
<1>2. /\ conditions'.bit_array = [conditions.bit_array EXCEPT ![Index(n, top + 1, i)] = cell]
      /\ conditions'.height = [conditions.height EXCEPT ![i] = @ + 1]
      /\ conditions'.nr1 = n
      /\ Index(n, top + 1, i) \in DOMAIN conditions.bit_array
      /\ get_conditions(conditions, i) \in SUBSET Bits
  <2> DEFINE count == conditions.changed[RowStart(n, depth)] + 1
             place == Index(n, top + 1, i)
  <2>1. /\ conditions' = [ bit_array |-> [conditions.bit_array EXCEPT ![place] = cell],
                           changed |-> [conditions.changed EXCEPT
                                          ![RowStart(n, depth)] = count,
                                          ![RowStart(n, depth) + count] = i],
                           height |-> [conditions.height EXCEPT ![i] = @ + 1],
                           sizes |-> [conditions.sizes EXCEPT
                                        ![place] = size_bit_array(cell, conditions.nr2)],
                           nr1 |-> n,
                           nr2 |-> conditions.nr2 ]
        /\ place \in 0 .. Size * Size - 1
        /\ get_conditions(conditions, i) \in SUBSET Bits
    BY <1>0, <1>1, PushFields
  <2>2. DOMAIN conditions.bit_array = 0 .. Size * Size - 1
    BY <1>0 DEF ConditionsType
  <2> HIDE DEF place, cell, n, count
  <2> QED  BY <2>1, <2>2 DEF place
<1>3. cell \subseteq conditions.bit_array[Index(n, top, i)]
  BY <1>0, <1>2, BitArrayTypes DEF get_conditions, Top
<1> HIDE DEF n, cell
<1> SUFFICES ASSUME NEW l \in Columns(conditions), NEW h \in 1 .. conditions'.height[l] - 1
             PROVE  conditions'.bit_array[Index(n, h + 1, l)]
                      \subseteq conditions'.bit_array[Index(n, h, l)]
  BY <1>2 DEF LevelsNarrow, Columns, n
<1>4. /\ l \in 0 .. n - 1 /\ i \in 0 .. n - 1 /\ l \in 0 .. Size - 1
      /\ conditions.height[l] \in Nat
  BY <1>0, HeightType, TypeFacts DEF Columns, n
<1>5. /\ conditions'.height[i] = top + 1
      /\ l # i => conditions'.height[l] = conditions.height[l]
  <2>1. conditions'.height = [conditions.height EXCEPT ![i] = @ + 1]  BY <1>2
  <2> QED  BY <1>0, <1>4, <2>1
<1>6. h \in Nat \ {0} /\ h + 1 \in Nat \ {0} /\ top + 1 \in Nat \ {0}
  BY <1>1, <1>4, <1>5
<1>7. ASSUME NEW g \in {h, h + 1}, ~ (l = i /\ g = top + 1)
      PROVE  conditions'.bit_array[Index(n, g, l)] = conditions.bit_array[Index(n, g, l)]
  <2>1. Index(n, g, l) # Index(n, top + 1, i)
    BY <1>0, <1>4, <1>6, <1>7, CellApart
  <2> QED  BY <1>2, <2>1
<1>8. CASE l = i /\ h = top
  <2>1. conditions'.bit_array[Index(n, h + 1, l)] = cell  BY <1>2, <1>8
  <2>2. conditions'.bit_array[Index(n, h, l)] = conditions.bit_array[Index(n, top, i)]
    BY <1>1, <1>7, <1>8
  <2> QED  BY <1>3, <2>1, <2>2
<1>9. CASE ~ (l = i /\ h = top)
  <2>1. h \in 1 .. conditions.height[l] - 1
    BY <1>1, <1>4, <1>5, <1>6, <1>9
  <2>2. ~ (l = i /\ h = top + 1) /\ ~ (l = i /\ h + 1 = top + 1)
    BY <1>1, <1>4, <1>6, <1>9, <2>1
  <2>3. conditions.bit_array[Index(n, h + 1, l)] \subseteq conditions.bit_array[Index(n, h, l)]
    BY <1>0, <2>1 DEF LevelsNarrow, n
  <2> QED  BY <1>7, <2>2, <2>3
<1> QED  BY <1>8, <1>9

(* The top of a column loses bits: it has nothing above it.                   *)
LEMMA NarrowInPlaceNarrows ==
  ASSUME NEW i \in Columns(conditions), NEW b, IInv, LevelsNarrow, NarrowInPlace(i, b)
  PROVE  LevelsNarrow'
<1> DEFINE n     == conditions.nr1
           top   == conditions.height[i]
           cell  == intersect_bit_arrays(get_conditions(conditions, i), b, conditions.nr2)
<1>0. /\ open /\ conditions' = IntersectTop(conditions, i, b)
      /\ conditions \in ConditionsType
      /\ n \in Nat
  BY TypeFacts DEF NarrowInPlace, IInv
<1>1. top \in 1 .. n  BY <1>0, HeightType
<1>2. /\ conditions'.bit_array = [conditions.bit_array EXCEPT ![Index(n, top, i)] = cell]
      /\ conditions'.height = conditions.height
      /\ conditions'.nr1 = n
      /\ Index(n, top, i) \in DOMAIN conditions.bit_array
      /\ cell \subseteq conditions.bit_array[Index(n, top, i)]
  <2> DEFINE place == Index(n, top, i)
  <2>1. Top(conditions, i) = place  BY DEF Top
  <2>2. /\ conditions' = [ bit_array |-> [conditions.bit_array EXCEPT ![Top(conditions, i)] = cell],
                           changed |-> conditions.changed, height |-> conditions.height,
                           sizes |-> conditions.sizes,
                           nr1 |-> n, nr2 |-> conditions.nr2 ]
        /\ Top(conditions, i) \in 0 .. Size * Size - 1
        /\ cell \subseteq get_conditions(conditions, i)
    BY <1>0, <1>1, IntersectFields
  <2>3. DOMAIN conditions.bit_array = 0 .. Size * Size - 1
    BY <1>0 DEF ConditionsType
  <2>4. get_conditions(conditions, i) = conditions.bit_array[place]
    BY <2>1 DEF get_conditions
  <2> HIDE DEF place, cell, n
  <2> QED  BY <2>1, <2>2, <2>3, <2>4 DEF place
<1> HIDE DEF n, cell
<1> SUFFICES ASSUME NEW l \in Columns(conditions), NEW h \in 1 .. conditions.height[l] - 1
             PROVE  conditions'.bit_array[Index(n, h + 1, l)]
                      \subseteq conditions'.bit_array[Index(n, h, l)]
  BY <1>2 DEF LevelsNarrow, Columns, n
<1>3. /\ l \in 0 .. n - 1 /\ i \in 0 .. n - 1
      /\ conditions.height[l] \in Nat
      /\ h \in Nat \ {0}
  BY <1>0, HeightType DEF Columns, n
<1>4. conditions.bit_array[Index(n, h + 1, l)] \subseteq conditions.bit_array[Index(n, h, l)]
  BY <1>0 DEF LevelsNarrow, n
<1>5. ASSUME l = i  PROVE h # top
  BY <1>3, <1>5
<1>6. conditions'.bit_array[Index(n, h, l)] = conditions.bit_array[Index(n, h, l)]
  <2>1. Index(n, h, l) # Index(n, top, i)
    BY <1>0, <1>1, <1>3, <1>5, CellApart
  <2> QED  BY <1>2, <2>1
<1>7. conditions'.bit_array[Index(n, h + 1, l)] \subseteq conditions.bit_array[Index(n, h + 1, l)]
  BY <1>2
<1> QED  BY <1>4, <1>6, <1>7

(* No step breaks the order of the levels; a pop takes levels off the top.    *)
LEMMA NextNarrows == IInv /\ LevelsNarrow /\ [Next]_vars => LevelsNarrow'
<1> SUFFICES ASSUME IInv, LevelsNarrow, [Next]_vars  PROVE LevelsNarrow'  OBVIOUS
<1>1. CASE Descend  BY <1>1 DEF Descend, LevelsNarrow
<1>2. CASE Return
  <2>1. CASE depth = conditions.nr1
    <3>1. conditions' = conditions /\ open
      BY <1>2, <2>1, TypeFacts DEF Return, IInv
    <3> QED  BY <3>1 DEF LevelsNarrow
  <2>2. CASE depth # conditions.nr1
    <3>1. /\ open /\ conditions' = pop_conditions(conditions, depth)
          /\ depth \in 0 .. conditions.nr1 - 1
      BY <1>2, <2>2, TypeFacts DEF Return, IInv
    <3>2. /\ conditions'.bit_array = conditions.bit_array
          /\ conditions'.nr1 = conditions.nr1
          /\ \A i \in Columns(conditions) :
               conditions'.height[i] = conditions.height[i]
                                       - (IF i \in Row(conditions, depth) THEN 1 ELSE 0)
      BY <3>1, PopEffect
    <3>3. \A i \in Columns(conditions) : \A h \in 1 .. conditions'.height[i] - 1 :
            h \in 1 .. conditions.height[i] - 1
      BY <3>1, <3>2, HeightType, TypeFacts DEF IInv
    <3> QED  BY <3>1, <3>2, <3>3 DEF LevelsNarrow, Columns
  <2> QED  BY <2>1, <2>2
<1>3. CASE Finish  BY <1>3 DEF Finish, LevelsNarrow
<1>4. ASSUME NEW i \in Columns(conditions), NEW b \in Masks, Push(i, b)
      PROVE  LevelsNarrow'
  BY <1>4, PushNarrows
<1>5. ASSUME NEW i \in Columns(conditions), NEW b \in Masks, NarrowInPlace(i, b)
      PROVE  LevelsNarrow'
  BY <1>5, NarrowInPlaceNarrows
<1>6. ASSUME NEW s \in Searches, Start(s)  PROVE  LevelsNarrow'
  <2>1. conditions'.nr1 = s.nr1 /\ \A i \in 0 .. s.nr1 - 1 : conditions'.height[i] = 1
    <3>1. s.nr1 \in 1 .. Size /\ s.nr2 \in 1 .. Size /\ conditions \in ConditionsType
      BY SearchesAssumption, TypeFacts DEF SearchType, IInv
    <3> QED  BY <1>6, <3>1, StartFields DEF Start
  <2> QED  BY <2>1 DEF LevelsNarrow, Columns
<1>7. ASSUME NEW s \in Searches, Refuse(s)  PROVE  LevelsNarrow'
  BY <1>7 DEF Refuse, LevelsNarrow
<1>8. CASE UNCHANGED vars
  BY <1>8 DEF vars, LevelsNarrow, Columns
<1> QED  BY <1>1, <1>2, <1>3, <1>4, <1>5, <1>6, <1>7, <1>8 DEF Next

(* The levels of a column only narrow, as conditions.h says (line 42): the    *)
(* candidates a push leaves are among those of the level below.               *)
THEOREM Narrowing == Spec => []LevelsNarrow
<1>1. Init => LevelsNarrow  BY DEF Init, LevelsNarrow
<1> QED  BY <1>1, NextNarrows, Inductive, PTL DEF Spec

------------------------------------------------------------------------------
(* The tables the object stands for: the cell column i had on top at depth k, *)
(* and the size that is stored for it.                                        *)
CellAt(i, k) == conditions.bit_array[Index(conditions.nr1, LevelAt(i, k), i)]
SizeAt(i, k) == conditions.sizes[Index(conditions.nr1, LevelAt(i, k), i)]

PushedUpTo(i, k) == {d \in Depths : d <= k /\ i \in Row(conditions, d)}

LEMMA LevelFacts ==
  ASSUME IInv, open, NEW i \in Columns(conditions), NEW k \in Nat
  PROVE  /\ IsFiniteSet(PushedUpTo(i, k))
         /\ LevelAt(i, k) \in 1 .. conditions.height[i]
         /\ k >= depth => LevelAt(i, k) = conditions.height[i]
         /\ depth \in k + 1 .. conditions.nr1 - 1 /\ i \in Row(conditions, depth) =>
              LevelAt(i, k) < conditions.height[i]
<1>1. /\ TypeOK /\ depth \in Nat
      /\ IsFiniteSet(PushedAt(i)) /\ Cardinality(PushedAt(i)) \in Nat
  BY PushedAtFinite, TypeFacts DEF IInv
<1>2. /\ conditions.height[i] = 1 + Cardinality(PushedAt(i))
      /\ LevelAt(i, k) = 1 + Cardinality(PushedUpTo(i, k))
  BY DEF IInv, HeightCountsPushes, PushedAt, LevelAt, PushedUpTo
<1>3. PushedUpTo(i, k) \subseteq PushedAt(i)  BY DEF PushedUpTo, PushedAt
<1>4. /\ IsFiniteSet(PushedUpTo(i, k))
      /\ Cardinality(PushedUpTo(i, k)) <= Cardinality(PushedAt(i))
  BY <1>1, <1>3, FS_Subset
<1>5. Cardinality(PushedUpTo(i, k)) \in Nat  BY <1>4, FS_CardinalityType
<1>6. ASSUME k >= depth  PROVE LevelAt(i, k) = conditions.height[i]
  <2>1. PushedUpTo(i, k) = PushedAt(i)
    BY <1>1, <1>6, TypeFacts DEF PushedUpTo, PushedAt, Depths
  <2> QED  BY <1>2, <2>1
<1>7. ASSUME depth \in k + 1 .. conditions.nr1 - 1, i \in Row(conditions, depth)
      PROVE  LevelAt(i, k) < conditions.height[i]
  <2>1. depth \in PushedAt(i) /\ depth \notin PushedUpTo(i, k)
    BY <1>1, <1>7, TypeFacts DEF PushedUpTo, PushedAt, Depths
  <2>2. PushedUpTo(i, k) # PushedAt(i)  BY <2>1
  <2>3. Cardinality(PushedUpTo(i, k)) # Cardinality(PushedAt(i))
    BY <1>1, <1>3, <2>2, FS_Subset
  <2> QED  BY <1>1, <1>2, <1>4, <1>5, <2>3
<1> QED  BY <1>1, <1>2, <1>4, <1>5, <1>6, <1>7

(* A level counts rows of its own depth and below only.                       *)
LEMMA LevelKept ==
  ASSUME TypeOK, NEW i, NEW k \in Nat, conditions'.nr1 = conditions.nr1,
         k <= depth, depth' \in Nat, k <= depth',
         \A d \in 1 .. conditions.nr1 - 1 : d <= k => Row(conditions', d) = Row(conditions, d)
  PROVE  LevelAt(i, k)' = LevelAt(i, k)
<1>1. conditions.nr1 \in Nat /\ depth \in Nat  BY TypeFacts
<1>2. {d \in Depths' : d <= k /\ i \in Row(conditions', d)}
        = {d \in Depths : d <= k /\ i \in Row(conditions, d)}
  BY <1>1 DEF Depths
<1> QED  BY <1>2 DEF LevelAt

(* On top of its stack a column has the cell of the current depth.            *)
LEMMA TopCell ==
  ASSUME IInv, open, NEW i \in Columns(conditions), NEW k \in Nat, k >= depth
  PROVE  CellAt(i, k) = get_conditions(conditions, i) /\ SizeAt(i, k) = size_conditions(conditions, i)
BY LevelFacts DEF CellAt, SizeAt, get_conditions, size_conditions, Top

(* A push reaches the cell of its column at the current depth, no other.      *)
LEMMA PushCells ==
  ASSUME NEW i \in Columns(conditions), NEW b, IInv, Push(i, b),
         NEW j \in Columns(conditions), NEW k \in 0 .. depth
  PROVE  LET cell == intersect_bit_arrays(get_conditions(conditions, i), b, conditions.nr2)
         IN  /\ CellAt(j, k)' = IF j = i /\ k = depth THEN cell ELSE CellAt(j, k)
             /\ SizeAt(j, k)' = IF j = i /\ k = depth THEN size_bit_array(cell, conditions.nr2)
                               ELSE SizeAt(j, k)
<1> DEFINE n     == conditions.nr1
           top   == conditions.height[i]
           place == Index(n, top + 1, i)
           cell  == intersect_bit_arrays(get_conditions(conditions, i), b, conditions.nr2)
<1>0. /\ TypeOK /\ conditions \in ConditionsType
      /\ n \in Nat \ {0} /\ depth \in 1 .. n - 1 /\ depth \in Nat /\ k \in Nat
      /\ i \in 0 .. n - 1 /\ j \in 0 .. n - 1 /\ i \in 0 .. Size - 1 /\ j \in 0 .. Size - 1
      /\ open /\ open' /\ depth' = depth /\ i \notin Row(conditions, depth)
  BY TypeFacts DEF IInv, Push, Columns
<1>1. /\ top \in 1 .. n - 1
      /\ place \in DOMAIN conditions.bit_array /\ place \in DOMAIN conditions.sizes
      /\ conditions'.nr1 = n
      /\ conditions'.bit_array = [conditions.bit_array EXCEPT ![place] = cell]
      /\ conditions'.sizes = [conditions.sizes EXCEPT
                                 ![place] = size_bit_array(cell, conditions.nr2)]
      /\ conditions'.height = [conditions.height EXCEPT ![i] = @ + 1]
      /\ \A d \in 0 .. n - 1 : d # depth => Row(conditions', d) = Row(conditions, d)
  <2>1. /\ top \in 1 .. n - 1 /\ place \in 0 .. Size * Size - 1
        /\ conditions'.nr1 = n
        /\ conditions'.bit_array = [conditions.bit_array EXCEPT ![place] = cell]
        /\ conditions'.sizes = [conditions.sizes EXCEPT
                                   ![place] = size_bit_array(cell, conditions.nr2)]
        /\ conditions'.height = [conditions.height EXCEPT ![i] = @ + 1]
        /\ \A d \in 0 .. n - 1 : d # depth => Row(conditions', d) = Row(conditions, d)
    BY PushEffect
  <2>2. /\ DOMAIN conditions.bit_array = 0 .. Size * Size - 1
        /\ DOMAIN conditions.sizes = 0 .. Size * Size - 1
    BY <1>0 DEF ConditionsType
  <2> QED  BY <2>1, <2>2
<1>2. IInv' /\ j \in Columns(conditions)' /\ i \in Columns(conditions)'
  BY <1>0, <1>1, PushPreserves DEF Columns
<1>3. /\ conditions'.height[i] = top + 1
      /\ j # i => conditions'.height[j] = conditions.height[j]
  <2>1. DOMAIN conditions.height = 0 .. Size - 1  BY <1>0 DEF ConditionsType
  <2> HIDE DEF n
  <2> QED  BY <1>0, <1>1, <2>1
<1>4. LevelAt(j, k)' = IF k < depth THEN LevelAt(j, k) ELSE conditions'.height[j]
  <2>1. CASE k < depth
    <3>1. \A d \in 1 .. n - 1 : d <= k => Row(conditions', d) = Row(conditions, d)
      BY <1>0, <1>1, <2>1
    <3> QED  BY <1>0, <1>1, <2>1, <3>1, LevelKept
  <2>2. CASE ~ (k < depth)
    <3>1. {d \in Depths' : d <= k /\ j \in Row(conditions', d)}
            = {d \in Depths' : j \in Row(conditions', d)}
      BY <1>0, <2>2 DEF Depths
    <3>2. LevelAt(j, k)' = conditions'.height[j]
      BY <1>0, <1>2, <3>1 DEF IInv, HeightCountsPushes, LevelAt
    <3> QED  BY <2>2, <3>2
  <2> QED  BY <2>1, <2>2
<1>5. /\ LevelAt(j, k) \in 1 .. conditions.height[j]
      /\ ~ (k < depth) => LevelAt(j, k) = conditions.height[j]
      /\ conditions.height[j] \in 1 .. n
  <2>1. k >= depth <=> ~ (k < depth)  BY <1>0
  <2> QED  BY <1>0, <2>1, LevelFacts, HeightType
<1> HIDE DEF n, top, cell
<1>6. CASE j = i /\ k = depth
  <2>1. LevelAt(j, k)' = top + 1  BY <1>0, <1>3, <1>4, <1>6
  <2>2. Index(n, LevelAt(j, k)', j) = place  BY <1>6, <2>1
  <2> QED  BY <1>1, <1>6, <2>2 DEF CellAt, SizeAt, cell, n
<1>7. CASE ~ (j = i /\ k = depth)
  <2>1. LevelAt(j, k)' = LevelAt(j, k)  BY <1>0, <1>3, <1>4, <1>5, <1>7
  <2>2. LevelAt(j, k) \in Nat \ {0} /\ top + 1 \in Nat \ {0}
        /\ (j = i => LevelAt(j, k) # top + 1)
    BY <1>0, <1>1, <1>5 DEF top
  <2>3. Index(n, LevelAt(j, k), j) # place
    BY <1>0, <2>2, CellApart
  <2> QED  BY <1>1, <1>7, <2>1, <2>3 DEF CellAt, SizeAt, n
<1> QED  BY <1>6, <1>7 DEF cell

(* Narrowing in place reaches the cell of the current depth, no other: the    *)
(* column was pushed at this depth.                                           *)
LEMMA NarrowInPlaceCells ==
  ASSUME NEW i \in Columns(conditions), NEW b, IInv, NarrowInPlace(i, b),
         NEW j \in Columns(conditions), NEW k \in 0 .. depth
  PROVE  /\ CellAt(j, k)' =
              IF j = i /\ k = depth
              THEN intersect_bit_arrays(get_conditions(conditions, i), b, conditions.nr2)
              ELSE CellAt(j, k)
         /\ SizeAt(j, k)' = SizeAt(j, k)
<1> DEFINE n     == conditions.nr1
           top   == conditions.height[i]
           place == Index(n, top, i)
           cell  == intersect_bit_arrays(get_conditions(conditions, i), b, conditions.nr2)
<1>0. /\ TypeOK /\ conditions \in ConditionsType
      /\ n \in Nat \ {0} /\ depth \in Nat /\ k \in Nat /\ depth < n /\ k <= depth
      /\ i \in 0 .. n - 1 /\ j \in 0 .. n - 1
      /\ open /\ open' /\ depth' = depth /\ i \in Row(conditions, depth)
      /\ conditions' = IntersectTop(conditions, i, b)
  BY TypeFacts DEF IInv, NarrowInPlace, Columns
<1>1. /\ conditions'.nr1 = n
      /\ conditions'.bit_array = [conditions.bit_array EXCEPT ![place] = cell]
      /\ conditions'.changed = conditions.changed /\ conditions'.sizes = conditions.sizes
      /\ place \in DOMAIN conditions.bit_array
  <2>1. /\ conditions' = [ bit_array |-> [conditions.bit_array EXCEPT ![Top(conditions, i)] = cell],
                           changed |-> conditions.changed, height |-> conditions.height,
                           sizes |-> conditions.sizes, nr1 |-> n, nr2 |-> conditions.nr2 ]
        /\ Top(conditions, i) \in 0 .. Size * Size - 1
    BY <1>0, HeightType, IntersectFields
  <2>2. DOMAIN conditions.bit_array = 0 .. Size * Size - 1  BY <1>0 DEF ConditionsType
  <2>3. Top(conditions, i) = place  BY DEF Top
  <2> HIDE DEF place, cell, n
  <2> QED  BY <2>1, <2>2, <2>3
<1>2. LevelAt(j, k)' = LevelAt(j, k)
  <2>1. \A d \in 1 .. n - 1 : d <= k => Row(conditions', d) = Row(conditions, d)
    BY <1>1 DEF Row
  <2> QED  BY <1>0, <1>1, <2>1, LevelKept
<1>3. /\ LevelAt(j, k) \in 1 .. conditions.height[j]
      /\ k = depth => LevelAt(j, k) = conditions.height[j]
      /\ j = i /\ k # depth => LevelAt(j, k) < top
      /\ conditions.height[j] \in 1 .. n /\ top \in 1 .. n
  <2>1. k # depth => depth \in k + 1 .. n - 1  BY <1>0
  <2>2. k = depth => k >= depth  BY <1>0
  <2> QED  BY <1>0, <2>1, <2>2, LevelFacts, HeightType
<1> HIDE DEF n, top, cell
<1>4. CASE j = i /\ k = depth
  <2>1. Index(n, LevelAt(j, k)', j) = place  BY <1>2, <1>3, <1>4 DEF top
  <2> QED  BY <1>1, <1>2, <1>4, <2>1 DEF CellAt, SizeAt, cell, n
<1>5. CASE ~ (j = i /\ k = depth)
  <2>1. LevelAt(j, k) \in Nat \ {0} /\ top \in Nat \ {0} /\ (j = i => LevelAt(j, k) # top)
    BY <1>0, <1>3, <1>5 DEF top
  <2>2. Index(n, LevelAt(j, k), j) # place  BY <1>0, <2>1, CellApart
  <2> QED  BY <1>1, <1>2, <1>5, <2>2 DEF CellAt, SizeAt, n
<1> QED  BY <1>4, <1>5 DEF cell

(* A call opens a depth that has pushed nothing yet.                          *)
LEMMA DescendCells ==
  ASSUME IInv, Descend, NEW j \in Columns(conditions), NEW k \in 0 .. depth + 1
  PROVE  CellAt(j, k)' = CellAt(j, k) /\ SizeAt(j, k)' = SizeAt(j, k)
<1>1. /\ TypeOK /\ open /\ depth \in Nat /\ conditions.nr1 \in Nat /\ k \in Nat
      /\ depth' = depth + 1 /\ conditions' = conditions
  BY TypeFacts DEF IInv, Descend
<1>2. \A d \in 1 .. conditions.nr1 - 1 : d > depth => Row(conditions, d) = {}
  BY <1>1 DEF IInv, RowsAboveEmpty, Row
<1>3. {d \in Depths' : d <= k /\ j \in Row(conditions', d)}
        = {d \in Depths : d <= k /\ j \in Row(conditions, d)}
  BY <1>1, <1>2 DEF Depths
<1> QED  BY <1>1, <1>3 DEF CellAt, SizeAt, LevelAt

(* A return leaves the cells of the depths below.                             *)
LEMMA ReturnCells ==
  ASSUME IInv, Return, NEW j \in Columns(conditions), NEW k \in 0 .. depth - 1
  PROVE  CellAt(j, k)' = CellAt(j, k) /\ SizeAt(j, k)' = SizeAt(j, k)
<1>1. /\ TypeOK /\ open /\ depth \in Nat \ {0} /\ conditions.nr1 \in Nat /\ k \in Nat
      /\ depth' = depth - 1 /\ depth <= conditions.nr1
  BY TypeFacts DEF IInv, Return
<1>2. /\ conditions'.nr1 = conditions.nr1 /\ conditions'.bit_array = conditions.bit_array
      /\ conditions'.sizes = conditions.sizes
      /\ \A d \in 1 .. conditions.nr1 - 1 :
           d <= k => Row(conditions', d) = Row(conditions, d)
  <2>1. CASE depth = conditions.nr1
    <3>1. conditions' = conditions  BY <1>1, <2>1 DEF Return
    <3> QED  BY <3>1
  <2>2. CASE depth # conditions.nr1
    <3>1. conditions' = pop_conditions(conditions, depth) /\ depth \in 0 .. conditions.nr1 - 1
      BY <1>1, <2>2 DEF Return
    <3>2. conditions'.sizes = conditions.sizes  BY <1>1, <3>1, PopFields DEF TypeOK
    <3> QED  BY <1>1, <3>1, <3>2, PopEffect
  <2> QED  BY <2>1, <2>2
<1>3. LevelAt(j, k)' = LevelAt(j, k)
  BY <1>1, <1>2, LevelKept
<1> QED  BY <1>2, <1>3 DEF CellAt, SizeAt

(* The tables are a sequence, one for each depth.                             *)
Table(k) == [i \in Columns(conditions) |-> SetBits(CellAt(i, k), conditions.nr2)]

LEMMA IsASequence ==
  ASSUME NEW n \in Nat, NEW f, f = [k \in 1 .. n |-> f[k]]
  PROVE  f \in Seq({f[k] : k \in 1 .. n}) /\ Len(f) = n /\ DOMAIN f = 1 .. n
<1>1. f \in Seq({f[k] : k \in 1 .. n})  OBVIOUS
<1> QED  BY <1>1

LEMMA TablesAreIt ==
  open => AbstractTables = [k \in 1 .. depth + 1 |-> Table(k - 1)]
BY DEF AbstractTables, Table, CellAt

LEMMA TableFacts ==
  ASSUME TypeOK, open
  PROVE  /\ Len(AbstractTables) = depth + 1 /\ AbstractTables # << >>
         /\ DOMAIN AbstractTables = 1 .. depth + 1
         /\ \A k \in 0 .. depth : AbstractTables[k + 1] = Table(k)
         /\ AbstractTables \in Seq({AbstractTables[k] : k \in 1 .. depth + 1})
<1>1. depth \in Nat /\ depth + 1 \in Nat  BY TypeFacts
<1>2. AbstractTables = [k \in 1 .. depth + 1 |-> Table(k - 1)]  BY TablesAreIt
<1> DEFINE f == AbstractTables
           n == depth + 1
<1>3. f = [k \in 1 .. n |-> f[k]] /\ n \in Nat  BY <1>1, <1>2
<1>4. \A k \in 0 .. depth : k + 1 \in 1 .. depth + 1 /\ (k + 1) - 1 = k  BY <1>1
<1>5. \A k \in 0 .. depth : AbstractTables[k + 1] = Table(k)  BY <1>2, <1>4
<1> HIDE DEF f, n
<1>6. f \in Seq({f[k] : k \in 1 .. n}) /\ Len(f) = n /\ DOMAIN f = 1 .. n
  BY <1>3, IsASequence
<1>7. Len(AbstractTables) = depth + 1 /\ DOMAIN AbstractTables = 1 .. depth + 1
      /\ AbstractTables \in Seq({AbstractTables[k] : k \in 1 .. depth + 1})
  BY <1>6 DEF f, n
<1>8. AbstractTables # << >>  BY <1>1, <1>7
<1> QED  BY <1>5, <1>7, <1>8

(* Two tables of the same columns and values are given by their cells.        *)
LEMMA TableKept ==
  ASSUME NEW k, NEW l, conditions'.nr1 = conditions.nr1, conditions'.nr2 = conditions.nr2,
         \A j \in Columns(conditions) : CellAt(j, k)' = CellAt(j, l)
  PROVE  Table(k)' = Table(l)
BY DEF Table, Columns

(* Every step of the object is one of the stack of tables.                    *)
LEMMA StartTables ==
  ASSUME IInv, NEW s \in Searches, Start(s)
  PROVE  Stack!Start
<1>1. /\ s.nr1 \in 1 .. Size /\ s.nr2 \in 1 .. Size /\ conditions \in ConditionsType
      /\ Size \in Nat /\ open' /\ depth' = 0
      /\ conditions' = StartWith(conditions, s.nr1, s.nr2, s.base)
  BY SearchesAssumption, TypeFacts DEF SearchType, IInv, Start
<1>2. conditions'.nr1 = s.nr1 /\ conditions'.nr2 = s.nr2
  <2>1. conditions'.nr1 = s.nr1  BY <1>1, StartFields
  <2>2. conditions'.nr2 = s.nr2
    BY <1>1 DEF StartWith, NarrowBottom, clear_conditions, ConditionsType
  <2> QED  BY <2>1, <2>2
<1>3. AbstractTables' = [k \in {1} |-> Table(k - 1)']
  <2>1. 1 .. depth' + 1 = {1}  BY <1>1
  <2>2. AbstractTables' = [k \in 1 .. depth' + 1 |-> Table(k - 1)']
    BY <1>1 DEF AbstractTables, Table, CellAt
  <2> QED  BY <2>1, <2>2
<1>4. \A k : Table(k)' \in [0 .. s.nr1 - 1 -> SUBSET (0 .. Size - 1)]
  <2>1. Meant(s.nr2) \subseteq 0 .. Size - 1  BY <1>1 DEF Meant
  <2> QED  BY <1>2, <2>1 DEF Table, SetBits, Columns
<1>5. AbstractTables' \in [{1} -> [0 .. s.nr1 - 1 -> SUBSET (0 .. Size - 1)]]
  BY <1>3, <1>4
<1> QED  BY <1>1, <1>5 DEF Stack!Start

LEMMA DescendTables ==
  ASSUME IInv, Descend
  PROVE  Stack!Descend
<1>1. /\ TypeOK /\ open /\ open' /\ depth' = depth + 1 /\ conditions' = conditions
      /\ depth \in Nat /\ depth + 1 \in 0 .. depth + 1
  BY TypeFacts DEF IInv, Descend
<1>2. /\ Len(AbstractTables) = depth + 1 /\ AbstractTables # << >>
      /\ \A k \in 0 .. depth : AbstractTables[k + 1] = Table(k)
      /\ AbstractTables \in Seq({AbstractTables[k] : k \in 1 .. depth + 1})
  BY <1>1, TableFacts
<1>3. \A k \in 0 .. depth + 1 : Table(k)' = Table(k)
  BY <1>1, DescendCells, TableKept
<1>4. Table(depth + 1) = Table(depth)
  <2>1. \A j \in Columns(conditions) : CellAt(j, depth + 1) = CellAt(j, depth)
    BY <1>1, TopCell
  <2> QED  BY <2>1 DEF Table
<1>5. AbstractTables' = [k \in 1 .. depth + 2 |-> Table(k - 1)']
  <2>1. 1 .. depth' + 1 = 1 .. depth + 2  BY <1>1
  <2>2. AbstractTables' = [k \in 1 .. depth' + 1 |-> Table(k - 1)']
    BY <1>1 DEF AbstractTables, Table, CellAt
  <2> QED  BY <2>1, <2>2
<1>6. AbstractTables' = Append(AbstractTables, AbstractTables[depth + 1])
  <2> DEFINE T == AbstractTables
             e == AbstractTables[depth + 1]
             S == {T[k] : k \in 1 .. depth + 1}
             A == Append(T, e)
  <2>1. e \in S /\ T \in Seq(S) /\ Len(T) = depth + 1  BY <1>1, <1>2
  <2> HIDE DEF T, e, S
  <2>2. /\ Append(T, e) \in Seq(S) /\ Len(Append(T, e)) = depth + 2
        /\ \A k \in 1 .. depth + 1 : Append(T, e)[k] = T[k]
        /\ Append(T, e)[depth + 2] = e
    BY <1>1, <2>1, AppendProperties
  <2>5. A = [k \in 1 .. depth + 2 |-> A[k]]
    <3>1. A \in [1 .. depth + 2 -> S]  BY <2>2, LenProperties
    <3> HIDE DEF A
    <3> QED  BY <3>1
  <2>3. ASSUME NEW k \in 1 .. depth + 2  PROVE A[k] = Table(k - 1)'
    <3>1. CASE k \in 1 .. depth + 1
      <4>1. k - 1 \in 0 .. depth /\ k - 1 \in 0 .. depth + 1 /\ (k - 1) + 1 = k
        BY <1>1, <3>1
      <4>2. T[k] = Table(k - 1)  BY <1>2, <4>1 DEF T
      <4> QED  BY <1>3, <2>2, <3>1, <4>1, <4>2
    <3>2. CASE k = depth + 2
      <4>1. k - 1 = depth + 1 /\ depth \in 0 .. depth  BY <1>1, <3>2
      <4>2. e = Table(depth)  BY <1>2, <4>1 DEF e
      <4>3. Table(k - 1) = e  BY <1>4, <4>1, <4>2
      <4>4. Table(k - 1)' = Table(k - 1)  BY <1>1, <1>3, <4>1
      <4> QED  BY <2>2, <3>2, <4>3, <4>4
    <3>3. depth \in Nat  BY <1>1
    <3>4. k \in 1 .. depth + 1 \/ k = depth + 2  BY <3>3
    <3> QED  BY <3>1, <3>2, <3>4
  <2> HIDE DEF A
  <2>4. A = [k \in 1 .. depth + 2 |-> Table(k - 1)']  BY <2>5, <2>3
  <2> QED  BY <1>5, <2>4 DEF A, T, e
<1> QED  BY <1>2, <1>6 DEF Stack!Descend, Stack!TopTable

(* A narrowed cell is that of one column in the top table.                    *)
LEMMA NarrowTables ==
  ASSUME IInv, TypeOK', open, open', depth' = depth,
         conditions'.nr1 = conditions.nr1, conditions'.nr2 = conditions.nr2,
         NEW i \in Columns(conditions), NEW cell, cell \subseteq get_conditions(conditions, i),
         \A j \in Columns(conditions), k \in 0 .. depth :
           CellAt(j, k)' = IF j = i /\ k = depth THEN cell ELSE CellAt(j, k)
  PROVE  Stack!Narrow
<1> DEFINE T == AbstractTables
           n == depth + 1
           V == SetBits(cell, conditions.nr2)
<1>1. /\ TypeOK /\ depth \in Nat /\ n \in Nat /\ depth \in 0 .. depth /\ n \in 1 .. n
      /\ \A k \in 1 .. n : k - 1 \in 0 .. depth /\ (k - 1 = depth <=> k = n)
  BY TypeFacts DEF IInv
<1>2. /\ Len(T) = n /\ T # << >> /\ DOMAIN T = 1 .. n
      /\ T = [k \in 1 .. n |-> Table(k - 1)]
      /\ T[n] = Table(depth)
  BY <1>1, TableFacts, TablesAreIt
<1>3. i \in DOMAIN T[n] /\ V \in SUBSET T[n][i]
  <2>1. T[n][i] = SetBits(get_conditions(conditions, i), conditions.nr2)
    BY <1>1, <1>2, TopCell DEF Table
  <2>2. i \in DOMAIN T[n]  BY <1>2 DEF Table
  <2> QED  BY <2>1, <2>2 DEF SetBits
<1>4. T' = [k \in 1 .. n |-> Table(k - 1)']
  <2>1. 1 .. depth' + 1 = 1 .. n  OBVIOUS
  <2>2. AbstractTables' = [k \in 1 .. depth' + 1 |-> Table(k - 1)']
    BY DEF AbstractTables, Table, CellAt
  <2> QED  BY <2>1, <2>2
<1>5. ASSUME NEW k \in 1 .. n
      PROVE  Table(k - 1)' = IF k = n THEN [T[n] EXCEPT ![i] = V] ELSE T[k]
  <2>1. T[k] = Table(k - 1)  BY <1>2
  <2>2. Table(k - 1)' = [j \in Columns(conditions) |->
                           SetBits(IF j = i /\ k = n THEN cell ELSE CellAt(j, k - 1),
                                   conditions.nr2)]
    BY <1>1, <1>5 DEF Table, Columns
  <2>3. CASE k = n
    <3>1. k - 1 = depth  BY <1>1, <2>3
    <3>2. Table(k - 1)' = [j \in Columns(conditions) |->
                             IF j = i THEN V ELSE SetBits(CellAt(j, depth), conditions.nr2)]
      BY <2>2, <2>3, <3>1
    <3>3. T[n] = [j \in Columns(conditions) |-> SetBits(CellAt(j, depth), conditions.nr2)]
      BY <1>2 DEF Table
    <3> HIDE DEF T, V, n
    <3> QED  BY <2>3, <3>2, <3>3
  <2>4. CASE k # n
    <3>1. T[k] = [j \in Columns(conditions) |-> SetBits(CellAt(j, k - 1), conditions.nr2)]
      BY <2>1 DEF Table
    <3>2. Table(k - 1)' = [j \in Columns(conditions) |-> SetBits(CellAt(j, k - 1), conditions.nr2)]
      BY <2>2, <2>4
    <3> HIDE DEF T, V, n
    <3> QED  BY <2>4, <3>1, <3>2
  <2> QED  BY <2>3, <2>4
<1>6. T' = [T EXCEPT ![n][i] = V]
  <2>1. T' = [k \in 1 .. n |-> IF k = n THEN [T[n] EXCEPT ![i] = V] ELSE T[k]]
    BY <1>4, <1>5
  <2> HIDE DEF T, V, n
  <2> QED  BY <1>1, <1>2, <2>1
<1>7. /\ AbstractTables # << >>
      /\ i \in DOMAIN Stack!TopTable /\ V \in SUBSET Stack!TopTable[i]
      /\ AbstractTables' = [AbstractTables EXCEPT ![Len(AbstractTables)][i] = V]
  <2> HIDE DEF V, n
  <2> QED  BY <1>2, <1>3, <1>6 DEF Stack!TopTable
<1> HIDE DEF T, V, n
<1> QED  BY <1>7 DEF Stack!Narrow

LEMMA ReturnTables ==
  ASSUME IInv, Return
  PROVE  Stack!Return
<1> DEFINE T == AbstractTables
           S == {T[k] : k \in 1 .. depth + 1}
<1>1. /\ TypeOK /\ open /\ open' /\ depth \in Nat \ {0} /\ depth' = depth - 1
      /\ conditions'.nr1 = conditions.nr1 /\ conditions'.nr2 = conditions.nr2
  <2>1. /\ TypeOK /\ open /\ open' /\ depth \in Nat \ {0} /\ depth' = depth - 1
        /\ conditions' = IF depth < conditions.nr1
                         THEN pop_conditions(conditions, depth) ELSE conditions
    BY TypeFacts DEF IInv, Return
  <2>2. conditions \in ConditionsType /\ depth \in Nat  BY <2>1, TypeFacts
  <2> QED  BY <2>1, <2>2, PopFields
<1>2. /\ T # << >> /\ Len(T) = depth + 1 /\ T \in Seq(S)
      /\ T = [k \in 1 .. depth + 1 |-> Table(k - 1)]
  BY <1>1, TableFacts, TablesAreIt
<1>3. T' = [k \in 1 .. depth |-> Table(k - 1)']
  <2>1. 1 .. depth' + 1 = 1 .. depth  BY <1>1
  <2>2. AbstractTables' = [k \in 1 .. depth' + 1 |-> Table(k - 1)']
    BY <1>1 DEF AbstractTables, Table, CellAt
  <2> QED  BY <2>1, <2>2
<1>4. ASSUME NEW k \in 1 .. depth  PROVE Table(k - 1)' = T[k]
  <2>1. k - 1 \in 0 .. depth - 1 /\ k \in 1 .. depth + 1  BY <1>1
  <2>2. Table(k - 1)' = Table(k - 1)  BY <1>1, <2>1, ReturnCells, TableKept
  <2> QED  BY <1>2, <2>1, <2>2
<1>5. SubSeq(T, 1, depth) = [k \in 1 .. depth |-> T[k]]
  <2>0. depth \in Nat \ {0} /\ T \in Seq(S) /\ Len(T) = depth + 1  BY <1>1, <1>2
  <2> HIDE DEF T, S
  <2>1. \A k \in 1 .. depth : T[k] \in S  BY <2>0, ElementOfSeq
  <2>2. 1 \in Int /\ depth \in Int /\ depth - 1 + 1 = depth /\ 1 <= depth  BY <2>0
  <2>3. /\ SubSeq(T, 1, depth) \in Seq(S) /\ Len(SubSeq(T, 1, depth)) = depth
        /\ \A k \in 1 .. depth : SubSeq(T, 1, depth)[k] = T[k]
    <3>1. /\ SubSeq(T, 1, depth) \in Seq(S)
          /\ Len(SubSeq(T, 1, depth)) = IF 1 <= depth THEN depth - 1 + 1 ELSE 0
          /\ \A k \in 1 .. depth - 1 + 1 : SubSeq(T, 1, depth)[k] = T[1 + k - 1]
      BY <2>1, <2>2, SubSeqProperties
    <3>2. \A k \in 1 .. depth : 1 + k - 1 = k /\ k \in 1 .. depth - 1 + 1  BY <2>0
    <3> QED  BY <2>2, <3>1, <3>2
  <2>4. SubSeq(T, 1, depth) \in [1 .. depth -> S]  BY <2>3, LenProperties
  <2> QED  BY <2>3, <2>4
<1>6. T' = SubSeq(T, 1, Len(T) - 1)
  <2>1. Len(T) - 1 = depth  BY <1>1, <1>2
  <2> HIDE DEF T
  <2> QED  BY <1>3, <1>4, <1>5, <2>1
<1> HIDE DEF T
<1> QED  BY <1>2, <1>6 DEF Stack!Return, T

LEMMA StackSteps == IInv /\ [Next]_vars => [Stack!Next]_(AbstractTables)
<1> SUFFICES ASSUME IInv, [Next]_vars  PROVE [Stack!Next]_(AbstractTables)  OBVIOUS
<1>1. CASE Descend  BY <1>1, DescendTables DEF Stack!Next
<1>2. CASE Return  BY <1>2, ReturnTables DEF Stack!Next
<1>3. CASE Finish
  <2>1. AbstractTables' = << >>  BY <1>3 DEF Finish, AbstractTables
  <2> QED  BY <2>1 DEF Stack!Next, Stack!Refuse
<1>4. ASSUME NEW i \in Columns(conditions), NEW b \in Masks, Push(i, b)
      PROVE  Stack!Narrow
  <2> DEFINE cell == intersect_bit_arrays(get_conditions(conditions, i), b, conditions.nr2)
  <2>1. /\ IInv' /\ open /\ open' /\ depth' = depth
        /\ conditions'.nr1 = conditions.nr1 /\ conditions'.nr2 = conditions.nr2
    <3>1. open /\ open' /\ depth' = depth  BY <1>4 DEF Push
    <3>2. conditions'.nr1 = conditions.nr1 /\ conditions'.nr2 = conditions.nr2
      BY <1>4, PushEffect
    <3> QED  BY <1>4, <3>1, <3>2, PushPreserves
  <2>2. \A j \in Columns(conditions), k \in 0 .. depth :
          CellAt(j, k)' = IF j = i /\ k = depth THEN cell ELSE CellAt(j, k)
    BY <1>4, PushCells
  <2>3. cell \subseteq get_conditions(conditions, i)  BY DEF intersect_bit_arrays
  <2> HIDE DEF cell
  <2> QED  BY <2>1, <2>2, <2>3, NarrowTables DEF IInv
<1>5. ASSUME NEW i \in Columns(conditions), NEW b \in Masks, NarrowInPlace(i, b)
      PROVE  Stack!Narrow
  <2> DEFINE cell == intersect_bit_arrays(get_conditions(conditions, i), b, conditions.nr2)
  <2>1. /\ IInv' /\ open /\ open' /\ depth' = depth
        /\ conditions'.nr1 = conditions.nr1 /\ conditions'.nr2 = conditions.nr2
    <3>1. open /\ open' /\ depth' = depth  BY <1>5 DEF NarrowInPlace
    <3>2. conditions'.nr1 = conditions.nr1 /\ conditions'.nr2 = conditions.nr2
      <4>1. conditions' = IntersectTop(conditions, i, b) /\ conditions \in ConditionsType
        BY <1>5, TypeFacts DEF NarrowInPlace, IInv
      <4> QED  BY <3>1, <4>1, HeightType, IntersectFields
    <3> QED  BY <1>5, <3>1, <3>2, NarrowInPlacePreserves
  <2>2. \A j \in Columns(conditions), k \in 0 .. depth :
          CellAt(j, k)' = IF j = i /\ k = depth THEN cell ELSE CellAt(j, k)
    BY <1>5, NarrowInPlaceCells
  <2>3. cell \subseteq get_conditions(conditions, i)  BY DEF intersect_bit_arrays
  <2> HIDE DEF cell
  <2> QED  BY <2>1, <2>2, <2>3, NarrowTables DEF IInv
<1>6. ASSUME NEW s \in Searches, Start(s)  PROVE  Stack!Start
  BY <1>6, StartTables
<1>7. ASSUME NEW s \in Searches, Refuse(s)  PROVE  Stack!Refuse
  BY <1>7 DEF Refuse, AbstractTables, Stack!Refuse
<1>8. CASE UNCHANGED vars
  <2>1. AbstractTables' = AbstractTables
    BY <1>8 DEF vars, AbstractTables, LevelAt, Depths, Columns, Row
  <2> QED  BY <2>1
<1> QED  BY <1>1, <1>2, <1>3, <1>4, <1>5, <1>6, <1>7, <1>8 DEF Next, Stack!Next

(* conditions.h and conditions.c implement the stack of candidate tables: a   *)
(* push reaches only the top table, whatever was left in the flat arrays by   *)
(* earlier searches, and pop_conditions brings back the table below as it was.*)
THEOREM StackImplemented == Spec => ImplementsStack
<1>1. Init => Stack!Init  BY DEF Init, AbstractTables, Stack!Init
<1> QED  BY <1>1, StackSteps, Inductive, PTL DEF Spec, ImplementsStack, Stack!Spec
==============================================================================
