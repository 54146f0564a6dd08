----------------------------- MODULE MCConditions -----------------------------
(* Conditions driven by at most MaxSearches searches of different           *)
(* dimensions, so that a search is abandoned anywhere and followed by one    *)
(* that reads what it left in the arrays with another stride.                *)
EXTENDS Conditions

CONSTANT MaxSearches

VARIABLE searches        \* the number of searches started

MCMasks == { {0, 1}, {1} }

Search(n1, n2, b) == [nr1 |-> n1, nr2 |-> n2, base |-> [i \in 0 .. n1 - 1 |-> b]]

MCSearches == { Search(3, 3, Bits), Search(2, 3, {1, 2}) }

MCInit == Init /\ searches = 0

MCStart == /\ searches < MaxSearches
           /\ \E s \in Searches : Start(s) \/ Refuse(s)
           /\ searches' = searches + 1

(* The searches push the columns of a depth in increasing order, and never   *)
(* the depth columns that are assigned already.                              *)
InOrder(i) == /\ depth < conditions.nr1
              /\ \A j \in Row(conditions, depth) : j < i
              /\ Cardinality(Row(conditions, depth)) < conditions.nr1 - depth

(* One mask at depth 1 and a smaller one at depth 2, so that the levels of   *)
(* a column differ; column 1 stands for those narrowed in place.             *)
MCUse == /\ \/ \E i \in Columns(conditions) :
                 \/ InOrder(i) /\ Push(i, IF depth = 1 THEN {0, 1} ELSE {1})
                 \/ i = 1 /\ NarrowInPlace(i, {1})
            \/ Descend
            \/ Return
            \/ Finish
         /\ UNCHANGED searches

MCSpec == MCInit /\ [][MCStart \/ MCUse]_<< vars, searches >>
==============================================================================
