---------------------------- MODULE DigraphKernels ----------------------------
(***************************************************************************)
(* The graph algorithms of digraphs.c together: any one of them, called with *)
(* arguments its GAP caller may give it, up to its answer.                   *)
(***************************************************************************)
EXTENDS UnionFind, FloydWarshall, StrongComponents, DepthFirst, DigraphCompare, EdgeLoops

CONSTANT Calls

(* Every argument is a digraph, and the others are what the callers check.   *)
ASSUME CallsAssumption ==
  \A c \in Calls :
    /\ IsDigraph(c.adj)
    /\ c.fn \in FromOne => c.start \in 1 .. Len(c.adj)
    /\ c.fn = "PATH" => c.target \in 1 .. Len(c.adj) /\ ~Adjacent(c.adj, c.start, c.target)
    /\ c.fn = "TRANS_REDUCTION" =>
         /\ ~IsMultiDigraph(c.adj)
         /\ \A v \in 1 .. Len(c.adj) : \A e \in 1 .. Len(c.adj[v]) : c.adj[v][e] <= v
    /\ c.fn = "SPANNING_FOREST" =>
         \A u, v \in 1 .. Len(c.adj) : Adjacent(c.adj, u, v) => Adjacent(c.adj, v, u)
    /\ c.fn \in { "EQUALS", "LT" } => IsDigraph(c.other)
    /\ c.fn = "FROM_SOURCE_RANGE" =>
         Len(c.src) = Len(c.ran) /\ \A e \in 1 .. Len(c.src) : c.src[e] \in 1 .. Len(c.adj)

InitialLocals ==
  CASE call.fn = "CONNECTED_COMPONENTS" -> UnionFindLocals
    [] call.fn \in MatrixFunctions -> MatrixLocals
    [] call.fn \in { "GABOW_SCC", "IS_STRONGLY_CONNECTED" } -> GabowLocals
    [] call.fn \in Searches -> SearchLocals
    [] call.fn \in { "EQUALS", "LT" } -> CompareLocals
    [] call.fn \in LoopFunctions -> LoopLocals

Init ==
  /\ call \in Calls
  /\ loc = InitialLocals
  /\ answer = << >>

Next ==
  \/ CONNECTED_COMPONENTS
  \/ FLOYD_WARSHALL
  \/ GABOW_SCC \/ IS_STRONGLY_CONNECTED
  \/ IS_ACYCLIC \/ LONGEST_DIST \/ TRANS_REDUCTION \/ PATH
  \/ IS_ANTISYMMETRIC \/ TOPO_SORT \/ SPANNING_FOREST
  \/ EQUALS \/ LT
  \/ EdgeLoop \/ FROM_SOURCE_RANGE

Spec == Init /\ [][Next]_vars /\ WF_vars(Next)

(* Every call is answered: no loop of any of the functions goes on for ever, *)
(* is left without a step to take, or walks its pointers round in a circle.  *)
Terminates == <>(answer # << >>)
==============================================================================
