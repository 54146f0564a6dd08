--------------------------- MODULE MCMutableDigraph ---------------------------
EXTENDS MutableDigraph

(* Digraphs in which every operation has something to do: out of order, with *)
(* loops, with edges both ways, with multiple edges, and the smallest ones.  *)
MCDigraphs ==
  { << >>,
    << << 1 >> >>,
    << << 2, 1 >>, << 1 >> >>,
    << << 2, 2 >>, << 1, 2 >> >>,
    << << 3, 2 >>, << 2, 3 >>, << >> >>,
    << << 2 >>, << 3, 1 >>, << 3, 1 >> >> }

MCVertexLabels == { Label(7) }
MCEdgeLabels == { Label(8) }

(* Every edge with a label of its own.                                       *)
MCEdgeLabellings == { [p \in (1 .. MaxVertices) \X (1 .. MaxVertices) |-> Label(10 * p[1] + p[2])] }

------------------------------------------------------------------------------
(* What a careful caller avoids, one digraph for each run.                   *)

(* A loop before another edge in the list of vertex 1.                       *)
LoopFirst == { << << 1, 2 >>, << 1 >> >> }

(* Both ends of the edge (1, 2) have an edge to 3.  The edge is contracted,  *)
(* the vertex made of it gets another edge, and what is doubled goes.        *)
TriangleDown == { << << 2, 3 >>, << 3 >>, << >> >> }

CrowdedNext ==
  \/ ContractEdge /\ called' = << "ContractEdge", 1, 2 >>
  \/ AddEdge /\ called' = << "AddEdge", 4, 1 >>
  \/ RemoveAllMultipleEdges
CrowdedSpec == Init /\ Labelled /\ [][CrowdedNext]_vars
==============================================================================
