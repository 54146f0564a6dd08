---------------------------- MODULE ConditionsData ----------------------------
(***************************************************************************)
(* The Conditions object of src/conditions.h as a record, one field per     *)
(* member of the struct, and its operations as functions of that record.    *)
(* Every column (a vertex of the source digraph) has a stack of bit arrays  *)
(* (the vertices of the range digraph it may still be mapped to); all the   *)
(* stacks live in one flat array whose stride is the current nr1, and the   *)
(* columns pushed at each depth are listed in another one with stride       *)
(* nr1 + 1.                                                                  *)
(***************************************************************************)
EXTENDS BitArrays

CONSTANT HOMOS_STRUCTURE_SIZE     \* the nr1 and nr2 the object is made for

ASSUME StructureSizeAssumption == HOMOS_STRUCTURE_SIZE \in Nat \ {0}

Size == HOMOS_STRUCTURE_SIZE
Bits == Covered(Size)             \* every bit of one bit array

Unset == -1                       \* memory from malloc nothing has written yet

ConditionsType ==
  [ bit_array : [0 .. Size * Size - 1 -> SUBSET Bits],
    changed   : [0 .. Size * (Size + 1) - 1 -> 0 .. Size],
    height    : [0 .. Size - 1 -> 0 .. Size],
    sizes     : [0 .. Size * Size - 1 -> Nat \cup {Unset}],
    nr1       : 1 .. Size,
    nr2       : 1 .. Size ]

(* A depth's row of the flat array changed starts with its length.          *)
RowStart(n1, depth) == (n1 + 1) * depth

(* Faulty variants, for testing the properties: the last column is missing   *)
(* from row 0; the rows above it keep the lengths they had.                  *)
ClearedChanged_short(old, n1) ==
  [k \in DOMAIN old |->
     IF k = 0 THEN n1
     ELSE IF k < n1 THEN k - 1
     ELSE IF \E d \in 1 .. n1 - 1 : k = RowStart(n1, d) THEN 0
     ELSE old[k]]

ClearedChanged_kept(old, n1) ==
  [k \in DOMAIN old |-> IF k = 0 THEN n1 ELSE IF k <= n1 THEN k - 1 ELSE old[k]]

(* The entries of changed that a fresh or cleared object has: row 0 lists   *)
(* every column, the rows above it are empty.                               *)
ClearedChanged(old, n1) ==
  [k \in DOMAIN old |->
     IF k = 0 THEN n1
     ELSE IF k <= n1 THEN k - 1
     ELSE IF \E d \in 1 .. n1 - 1 : k = RowStart(n1, d) THEN 0
     ELSE old[k]]

(* malloc leaves the row entries arbitrary; they are not read before they   *)
(* are written, and stand as 0.  The first row is set with nr_bits = nr1.    *)
new_conditions ==
  [ bit_array |-> [k \in 0 .. Size * Size - 1 |->
                     init_bit_array({}, k < Size, Size)],
    changed   |-> ClearedChanged([k \in 0 .. Size * (Size + 1) - 1 |-> 0], Size),
    height    |-> [i \in 0 .. Size - 1 |-> 1],
    sizes     |-> [k \in 0 .. Size * Size - 1 |-> Unset],
    nr1       |-> Size,
    nr2       |-> Size ]

(* A faulty variant: the heights are those of the search before.             *)
clear_conditions_high(c, n1, n2) ==
  [ c EXCEPT
      !.bit_array = [k \in DOMAIN c.bit_array |->
                       IF k < n1 * n1
                       THEN init_bit_array(c.bit_array[k], k < n1, n2)
                       ELSE c.bit_array[k]],
      !.changed   = ClearedChanged(c.changed, n1),
      !.nr1       = n1,
      !.nr2       = n2 ]

(* Only the part of the object an n1 by n2 search uses is cleared, and the  *)
(* stride changes with n1.                                                   *)
clear_conditions(c, n1, n2) ==
  [ c EXCEPT
      !.bit_array = [k \in DOMAIN c.bit_array |->
                       IF k < n1 * n1
                       THEN init_bit_array(c.bit_array[k], k < n1, n2)
                       ELSE c.bit_array[k]],
      !.changed   = ClearedChanged(c.changed, n1),
      !.height    = [i \in DOMAIN c.height |->
                       IF i < n1 THEN 1 ELSE c.height[i]],
      !.nr1       = n1,
      !.nr2       = n2 ]

(* init_data_from_args: clear for n1 and n2, then intersect the bottom cell  *)
(* of every column i with base[i] ...                                        *)
NarrowBottom(c, n1, n2, base) ==
  LET cleared == clear_conditions(c, n1, n2)
  IN  [ cleared EXCEPT
          !.bit_array = [k \in DOMAIN c.bit_array |->
                           IF k < n1
                           THEN intersect_bit_arrays(cleared.bit_array[k], base[k], n2)
                           ELSE cleared.bit_array[k]] ]

(* ... and store the size of every column.                                   *)
StartWith(c, n1, n2, base) ==
  LET narrowed == NarrowBottom(c, n1, n2, base)
  IN  [ narrowed EXCEPT
          !.sizes = [k \in DOMAIN c.sizes |->
                       IF k < n1 THEN size_bit_array(narrowed.bit_array[k], n2)
                       ELSE c.sizes[k]] ]

(* The index of level h (from 1, the bottom) of column i.                   *)
Index(n1, h, i) == n1 * (h - 1) + i

Top(c, i) == Index(c.nr1, c.height[i], i)

get_conditions(c, i) == c.bit_array[Top(c, i)]

size_conditions(c, i) == c.sizes[Top(c, i)]

store_size_conditions(c, i) ==
  [c EXCEPT !.sizes[Top(c, i)] = size_bit_array(get_conditions(c, i), c.nr2)]

(* A faulty variant: the bottom cell is changed instead of the top one.      *)
SetTop_bottom(c, i, cell) == [c EXCEPT !.bit_array[Index(c.nr1, 1, i)] = cell]

(* get_conditions returns a pointer: the callers also change the top of a   *)
(* column in place.                                                          *)
SetTop(c, i, cell) == [c EXCEPT !.bit_array[Top(c, i)] = cell]

IntersectTop(c, i, b) ==
  SetTop(c, i, intersect_bit_arrays(get_conditions(c, i), b, c.nr2))

ComplementTop(c, i, b) ==
  SetTop(c, i, complement_bit_arrays(get_conditions(c, i), b, c.nr2))

(* push_conditions with bit_array == NULL: duplicate the top of column i,   *)
(* all blocks of it, and record the column in the row of the depth.          *)
PushCopy(c, depth, i) ==
  LET start == RowStart(c.nr1, depth)
      count == c.changed[start] + 1
  IN  [ c EXCEPT
          !.bit_array[Index(c.nr1, c.height[i] + 1, i)] = get_conditions(c, i),
          !.changed = [@ EXCEPT ![start] = count, ![start + count] = i],
          !.height[i] = @ + 1 ]

(* A faulty variant: the height is incremented last, so that the cell below  *)
(* is narrowed instead of the new one.                                       *)
push_conditions_late(c, depth, i, b) ==
  [ PushCopy(c, depth, i) EXCEPT
      !.bit_array[Top(c, i)] = intersect_bit_arrays(@, b, c.nr2) ]

push_conditions(c, depth, i, b) == IntersectTop(PushCopy(c, depth, i), i, b)

(* The places of depth's row that hold column i.                            *)
Places(c, depth, i) ==
  LET start == RowStart(c.nr1, depth)
  IN  {j \in 1 .. c.changed[start] : c.changed[start + j] = i}

(* A faulty variant: the column pushed last keeps its level.                 *)
pop_conditions_but_last(c, depth) ==
  [ c EXCEPT
      !.height = [i \in DOMAIN c.height |->
                    c.height[i] - Cardinality(Places(c, depth, i)
                                                \ {c.changed[RowStart(c.nr1, depth)]})],
      !.changed[RowStart(c.nr1, depth)] = 0 ]

pop_conditions(c, depth) ==
  [ c EXCEPT
      !.height = [i \in DOMAIN c.height |->
                    c.height[i] - Cardinality(Places(c, depth, i))],
      !.changed[RowStart(c.nr1, depth)] = 0 ]

(* The columns pushed at a depth.                                            *)
Row(c, depth) ==
  LET start == RowStart(c.nr1, depth)
  IN  {c.changed[start + j] : j \in 1 .. c.changed[start]}

Columns(c) == 0 .. c.nr1 - 1
==============================================================================
