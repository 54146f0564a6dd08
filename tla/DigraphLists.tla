----------------------------- MODULE DigraphLists -----------------------------
(***************************************************************************)
(* Digraphs as the C functions of digraphs.c are given them, and the notions *)
(* their answers are about.  A digraph is its list OutNeighbours: adj[v] is  *)
(* the sequence of the vertices that edges from v go to, in any order, one   *)
(* twice where there are two edges.                                          *)
(***************************************************************************)
EXTENDS Integers, Sequences, FiniteSets

Vertices(adj) == 1 .. Len(adj)

IsDigraph(adj) == adj \in Seq(Seq(1 .. Len(adj)))

Adjacent(adj, u, v) == \E e \in 1 .. Len(adj[u]) : adj[u][e] = v

IsMultiDigraph(adj) ==
  \E v \in Vertices(adj) : \E d, e \in 1 .. Len(adj[v]) : d # e /\ adj[v][d] = adj[v][e]

------------------------------------------------------------------------------
(* The pairs (u, v) joined by a walk of exactly len edges, for len up to the *)
(* number of vertices.  Whether there is any walk, the shortest one, and, in *)
(* a digraph without cycles, the longest one can be read off it.             *)
Walks(adj) ==
  LET V == Vertices(adj)
      E == { p \in V \X V : Adjacent(adj, p[1], p[2]) }
      W[len \in 0 .. Len(adj)] ==
        IF len = 0
        THEN { << v, v >> : v \in V }
        ELSE { p \in V \X V : \E w \in V : << p[1], w >> \in W[len - 1] /\ << w, p[2] >> \in E }
  IN  W

(* There is a walk of at least one edge from u to v.                         *)
Reaches(adj, u, v) ==
  LET W == Walks(adj) IN \E len \in 1 .. Len(adj) : << u, v >> \in W[len]

ReachesOrIs(adj, u, v) == u = v \/ Reaches(adj, u, v)

(* A walk with as many edges as there are vertices comes by a vertex twice.  *)
IsAcyclic(adj) == Walks(adj)[Len(adj)] = {} \/ adj = << >>

WithoutLoops(adj) == [v \in Vertices(adj) |-> SelectSeq(adj[v], LAMBDA w : w # v)]
==============================================================================
