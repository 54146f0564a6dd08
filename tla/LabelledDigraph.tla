---------------------------- MODULE LabelledDigraph ----------------------------
(***************************************************************************)
(* What the manual promises of a digraph that is changed in place: vertices  *)
(* and edges that carry their labels with them.  There are no lists: how     *)
(* many edges go from u to v is mult[u, v], their label is elabel[u, v],     *)
(* which is the default where there is no edge and in a multidigraph.        *)
(***************************************************************************)
EXTENDS Integers, Sequences, FiniteSets

VARIABLES
  vlabel,    \* the labels of the vertices 1, 2, ...
  mult,      \* how many edges there are from the one to the other
  elabel,    \* and how they are labelled
  called     \* the operation that was called last

lvars == << vlabel, mult, elabel, called >>

V == 1 .. Len(vlabel)
Default == << 1 >>
Plain == [p \in V \X V |-> Default]

IsEdge(u, v) == mult[u, v] > 0
Simple == \A p \in V \X V : mult[p] <= 1
Unlabelled == elabel = Plain

------------------------------------------------------------------------------
(* The vertices in list, in its order, with the edges among them.            *)
Keep(list) ==
  LET n == Len(list)
      On(f) == [p \in (1 .. n) \X (1 .. n) |-> f[<< list[p[1]], list[p[2]] >>]]
  IN  /\ vlabel' = [x \in 1 .. n |-> vlabel[list[x]]]
      /\ mult' = On(mult)
      /\ elabel' = On(elabel)

Without(S) == SelectSeq([v \in V |-> v], LAMBDA v : v \notin S)

AddVertex(label) ==
  LET W == 1 .. Len(vlabel) + 1
  IN  /\ vlabel' = Append(vlabel, label)
      /\ mult' = [p \in W \X W |-> IF p \in V \X V THEN mult[p] ELSE 0]
      /\ elabel' = [p \in W \X W |-> IF p \in V \X V THEN elabel[p] ELSE Default]

RemoveVertices(S) == Keep(Without(S))
InducedSubdigraph(list) == Keep(list)

SameVertices == vlabel' = vlabel

AddEdge(u, v) ==
  /\ SameVertices
  /\ mult' = [mult EXCEPT ![u, v] = @ + 1]
  /\ ~IsEdge(u, v) \/ Unlabelled
  /\ elabel' = elabel

RemoveEdge(u, v) ==
  /\ Simple /\ SameVertices
  /\ mult' = [mult EXCEPT ![u, v] = 0]
  /\ elabel' = [elabel EXCEPT ![u, v] = Default]

(* The edge takes its label with it, unless it comes to lie beside another.  *)
ReverseEdge(u, v) ==
  /\ Simple /\ IsEdge(u, v) /\ SameVertices
  /\ IF u = v THEN UNCHANGED << mult, elabel >>
     ELSE /\ mult' = [mult EXCEPT ![u, v] = 0, ![v, u] = @ + 1]
          /\ elabel' = IF IsEdge(v, u) THEN Plain
                      ELSE [elabel EXCEPT ![u, v] = Default, ![v, u] = elabel[u, v]]

(* The new vertex is the last one; every edge at u or at v becomes one at it,*)
(* and keeps its label, but for those between u and v.                       *)
ContractEdge(u, v) ==
  LET rest == Without({u, v})
      n == Len(rest) + 1
      From(x) == IF x = n THEN {u, v} ELSE { rest[x] }
      Old(p) == { q \in From(p[1]) \X From(p[2]) : q \notin { << u, v >>, << v, u >> } /\ mult[q] > 0 }
  IN  /\ Simple /\ IsEdge(u, v) /\ u # v
      /\ vlabel' = [x \in 1 .. n |-> IF x = n THEN vlabel[u] \o vlabel[v] ELSE vlabel[rest[x]]]
      /\ mult' = [p \in (1 .. n) \X (1 .. n) |-> IF Old(p) = {} THEN 0 ELSE 1]
      /\ elabel' = [p \in (1 .. n) \X (1 .. n) |->
            IF Old(p) = {} THEN Default
            ELSE IF Cardinality(Old(p)) = 1 THEN elabel[CHOOSE q \in Old(p) : TRUE]
            ELSE elabel[u, u] \o elabel[v, v]]

RemoveLoops ==
  /\ SameVertices
  /\ mult' = [p \in V \X V |-> IF p[1] = p[2] THEN 0 ELSE mult[p]]
  /\ elabel' = [p \in V \X V |-> IF p[1] = p[2] THEN Default ELSE elabel[p]]

RemoveAllMultipleEdges ==
  /\ SameVertices
  /\ mult' = [p \in V \X V |-> IF mult[p] > 1 THEN 1 ELSE mult[p]]
  /\ elabel' = elabel

(* Which loses the labels, if there is anything to reverse.                  *)
Reversed ==
  /\ SameVertices
  /\ mult' = [p \in V \X V |-> mult[p[2], p[1]]]
  /\ elabel' = IF mult' = mult THEN elabel ELSE Plain

SetVertexLabel(v, label) ==
  vlabel' = [vlabel EXCEPT ![v] = label] /\ UNCHANGED << mult, elabel >>

SetEdgeLabel(u, v, label) ==
  /\ Simple /\ IsEdge(u, v)
  /\ elabel' = [elabel EXCEPT ![u, v] = label] /\ UNCHANGED << vlabel, mult >>

SetEdgeLabels(f) ==
  /\ Simple
  /\ elabel' = [p \in V \X V |-> IF mult[p] > 0 THEN f[p] ELSE Default]
  /\ UNCHANGED << vlabel, mult >>

ClearVertexLabels ==
  vlabel' = [v \in V |-> << v >>] /\ UNCHANGED << mult, elabel >>

ClearEdgeLabels == elabel' = Plain /\ UNCHANGED << vlabel, mult >>

(* Looking at the labels, or taking a copy, changes nothing.                 *)
Look == UNCHANGED << vlabel, mult, elabel >>

------------------------------------------------------------------------------
Init ==
  /\ vlabel = [v \in V |-> << v >>]
  /\ mult \in [V \X V -> Nat]
  /\ Unlabelled \/ Simple
  /\ \A p \in V \X V : mult[p] = 0 => elabel[p] = Default
  /\ called = << "Digraph" >>

(* Every operation does what its name says with the arguments it is given.   *)
Next ==
  CASE called'[1] = "AddVertex" -> AddVertex(called'[2])
    [] called'[1] = "RemoveVertices" -> RemoveVertices(called'[2])
    [] called'[1] = "InducedSubdigraph" -> InducedSubdigraph(called'[2])
    [] called'[1] = "AddEdge" -> AddEdge(called'[2], called'[3])
    [] called'[1] = "RemoveEdge" -> RemoveEdge(called'[2], called'[3])
    [] called'[1] = "ReverseEdge" -> ReverseEdge(called'[2], called'[3])
    [] called'[1] = "ContractEdge" -> ContractEdge(called'[2], called'[3])
    [] called'[1] = "RemoveLoops" -> RemoveLoops
    [] called'[1] = "RemoveAllMultipleEdges" -> RemoveAllMultipleEdges
    [] called'[1] = "Reverse" -> Reversed
    [] called'[1] = "SetVertexLabel" -> SetVertexLabel(called'[2], called'[3])
    [] called'[1] = "SetEdgeLabel" -> SetEdgeLabel(called'[2], called'[3], called'[4])
    [] called'[1] = "SetEdgeLabels" -> SetEdgeLabels(called'[2])
    [] called'[1] = "ClearVertexLabels" -> ClearVertexLabels
    [] called'[1] = "ClearEdgeLabels" -> ClearEdgeLabels
    [] called'[1] = "Look" -> Look

Spec == Init /\ [][Next]_lvars
==============================================================================
