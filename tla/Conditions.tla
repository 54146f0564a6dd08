------------------------------ MODULE Conditions ------------------------------
(***************************************************************************)
(* A Conditions object and the discipline under which the searches of       *)
(* src/homos.c drive it.  A search clears the object for its own nr1 and    *)
(* nr2, narrows the bottom row, and then moves between depths: at depth d   *)
(* it pushes some of the columns, each at most once, and before it goes     *)
(* back to depth d - 1 it pops everything pushed at d.  A search can also   *)
(* be left at any point (a longjmp when enough results are found, or the    *)
(* early return for an impossible partial map), without any pop: the next   *)
(* search starts by clearing the object, with other dimensions perhaps.     *)
(***************************************************************************)
EXTENDS ConditionsData

CONSTANTS
  Masks,          \* the bit arrays that cells are intersected with
  Searches        \* the dimensions and the bottom rows of the searches

(* A search over nr1 columns and nr2 values starts with base[i] as the      *)
(* candidates of column i.                                                   *)
SearchType ==
  UNION { [nr1 : {n}, nr2 : 1 .. Size, base : [0 .. n - 1 -> SUBSET Bits]] :
            n \in 1 .. Size }

ASSUME MasksAssumption == Masks \subseteq SUBSET Bits
ASSUME SearchesAssumption == Searches \subseteq SearchType

VARIABLES
  conditions,     \* the object
  depth,          \* the depth of the search using it
  open            \* is there such a search?

vars == << conditions, depth, open >>

Init == /\ conditions = new_conditions
        /\ depth = 0
        /\ open = FALSE

Start(s) ==
  /\ open' = TRUE
  /\ depth' = 0
  /\ conditions' = StartWith(conditions, s.nr1, s.nr2, s.base)

(* init_data_from_args finds, after it cleared the object, that there can be *)
(* no result: no size is stored and no search begins.                        *)
Refuse(s) ==
  /\ open' = FALSE
  /\ depth' = 0
  /\ conditions' = NarrowBottom(conditions, s.nr1, s.nr2, s.base)

(* A faulty variant: no end to the recursion.                                *)
Descend_past_end ==
  /\ open
  /\ depth' = depth + 1
  /\ UNCHANGED << conditions, open >>

(* A recursive call.  At depth nr1 every column is assigned: the call       *)
(* there reports and leaves the object alone.                                *)
Descend ==
  /\ open
  /\ depth < conditions.nr1
  /\ depth' = depth + 1
  /\ UNCHANGED << conditions, open >>

(* One of the *_update_conditions helpers: push column i, store its size.   *)
Push(i, b) ==
  /\ open
  /\ depth \in 1 .. conditions.nr1 - 1
  /\ i \notin Row(conditions, depth)
  /\ conditions' =
       store_size_conditions(push_conditions(conditions, depth, i, b), i)
  /\ UNCHANGED << depth, open >>

(* find_digraph_embeddings narrows the top of the column it is about to     *)
(* assign in place, and does not store the size.                             *)
NarrowInPlace(i, b) ==
  /\ open
  /\ depth < conditions.nr1
  /\ i \in Row(conditions, depth)
  /\ conditions' = IntersectTop(conditions, i, b)
  /\ UNCHANGED << depth, open >>

(* A call below the root returns.                                            *)
Return ==
  /\ open
  /\ depth > 0
  /\ conditions' = IF depth < conditions.nr1
                   THEN pop_conditions(conditions, depth) ELSE conditions
  /\ depth' = depth - 1
  /\ UNCHANGED open

(* The root call returns.  Its pop takes the bottom cells too: the object   *)
(* is of no use until it is cleared again.                                   *)
Finish ==
  /\ open
  /\ depth = 0
  /\ conditions' = pop_conditions(conditions, 0)
  /\ open' = FALSE
  /\ UNCHANGED depth

Next ==
  \/ Descend
  \/ Return
  \/ Finish
  \/ \E i \in Columns(conditions), b \in Masks :
       Push(i, b) \/ NarrowInPlace(i, b)
  \/ \E s \in Searches : Start(s) \/ Refuse(s)

Spec == Init /\ [][Next]_vars

------------------------------------------------------------------------------
(* Every field of the object stays in the range its array is allocated for. *)
TypeOK ==
  /\ conditions \in ConditionsType
  /\ depth \in 0 .. Size
  /\ open \in BOOLEAN
  /\ depth <= conditions.nr1

(* The depths that have a row: the deepest call has none.                   *)
Depths == {d \in 1 .. conditions.nr1 - 1 : d <= depth}

(* Row 0 lists every column once, so the root's pop takes them all.         *)
RowZeroComplete ==
  open => /\ conditions.changed[0] = conditions.nr1
          /\ \A j \in 1 .. conditions.nr1 : conditions.changed[j] = j - 1

(* A row lists no column twice: a second push of a column at one depth      *)
(* would make one pop take two levels off that column.                      *)
RowsInjective ==
  open => \A d \in 1 .. conditions.nr1 - 1 :
    LET start == RowStart(conditions.nr1, d)
    IN  \A j, k \in 1 .. conditions.changed[start] :
          /\ conditions.changed[start + j] \in Columns(conditions)
          /\ conditions.changed[start + j] = conditions.changed[start + k] => j = k

(* Nothing is listed above the current depth: a call that finds entries     *)
(* left in its row would pop columns it never pushed.  This has to survive  *)
(* searches abandoned half way and clears with another nr1, which read the  *)
(* same memory with another stride.                                          *)
RowsAboveEmpty ==
  open => \A d \in 1 .. conditions.nr1 - 1 :
            d > depth => conditions.changed[RowStart(conditions.nr1, d)] = 0

(* The levels of a column are its bottom cell and one for every depth that  *)
(* pushed it, no more: this is what makes a pop take off exactly what the   *)
(* returning call put on, and keeps height[i] <= nr1.                        *)
HeightCountsPushes ==
  open => \A i \in Columns(conditions) :
    conditions.height[i] =
      1 + Cardinality({d \in Depths : i \in Row(conditions, d)})

(* conditions.h, line 42: the cell above is the intersection of the cell    *)
(* below with something, in every column, over every sequence of searches.  *)
LevelsNarrow ==
  open => \A i \in Columns(conditions) :
    \A h \in 1 .. conditions.height[i] - 1 :
      conditions.bit_array[Index(conditions.nr1, h + 1, i)]
        \subseteq conditions.bit_array[Index(conditions.nr1, h, i)]

------------------------------------------------------------------------------
(* The abstract stack: the table of level k gives column i the cell that    *)
(* was on top of its stack when the search was at depth k.                   *)
LevelAt(i, k) ==
  1 + Cardinality({d \in Depths : d <= k /\ i \in Row(conditions, d)})

AbstractTables ==
  IF ~open THEN << >>
  ELSE [k \in 1 .. depth + 1 |->
          [i \in Columns(conditions) |->
             SetBits(conditions.bit_array[Index(conditions.nr1, LevelAt(i, k - 1), i)],
                     conditions.nr2)]]

Stack == INSTANCE CandidateStack
           WITH tables <- AbstractTables, MaxColumns <- Size, MaxValues <- Size

(* The flat arrays implement the stack of candidate tables: pushes reach    *)
(* only the top table, and a return brings back the table below as it was.  *)
ImplementsStack == Stack!Spec
==============================================================================
