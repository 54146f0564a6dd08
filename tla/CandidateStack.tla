---------------------------- MODULE CandidateStack ----------------------------
(***************************************************************************)
(* What a Conditions object promises the backtracking searches that use it: *)
(* a stack of candidate tables.  A table gives every column the set of      *)
(* values it may still take.  Descending copies the top table, narrowing    *)
(* removes values from the top table only, and returning brings back the    *)
(* table below exactly as it was.                                            *)
(***************************************************************************)
EXTENDS Integers, Sequences

CONSTANT MaxColumns, MaxValues

VARIABLE tables         \* the stack, bottom first; empty when no search is on

TopTable == tables[Len(tables)]

Init == tables = << >>

(* A new search, over n columns; whatever was there is gone.                *)
Start ==
  \E n \in 1 .. MaxColumns :
    tables' \in [{1} -> [0 .. n - 1 -> SUBSET (0 .. MaxValues - 1)]]

(* A new search that ends before it begins.                                 *)
Refuse == tables' = << >>

Descend == /\ tables # << >>
           /\ tables' = Append(tables, TopTable)

Narrow == /\ tables # << >>
          /\ \E i \in DOMAIN TopTable :
               \E S \in SUBSET TopTable[i] :
                 tables' = [tables EXCEPT ![Len(tables)][i] = S]

Return == /\ tables # << >>
          /\ tables' = SubSeq(tables, 1, Len(tables) - 1)

Next == Start \/ Refuse \/ Descend \/ Narrow \/ Return

Spec == Init /\ [][Next]_tables
==============================================================================
