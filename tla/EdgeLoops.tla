------------------------------- MODULE EdgeLoops -------------------------------
(***************************************************************************)
(* The functions of digraphs.c that go once through the edges of a digraph,  *)
(* vertex by vertex, and collect something: the lists of sources and ranges, *)
(* the in-neighbours, the adjacency matrix, how many pairs are adjacent,     *)
(* whether an edge comes twice; and the way back from sources and ranges.    *)
(***************************************************************************)
EXTENDS KernelCalls

Counts == { "NR_ADJACENCIES", "NR_ADJACENCIES_WITHOUT_LOOPS", "NR_EDGES" }
LoopFunctions ==
  Counts \cup { "SOURCE_RANGE", "FROM_SOURCE_RANGE", "IN_OUT_NBS", "ADJACENCY_MATRIX",
                "IS_MULTI_DIGRAPH" }

LoopLocals ==
  [ i |-> 1, e |-> 1,
    nr |-> 0,
    src |-> << >>, ran |-> << >>,
    lists |-> [v \in V |-> << >>],             \* inn, or ret
    mat |-> [p \in V \X V |-> 0],
    seen |-> [v \in V |-> 0] ]                 \* the vertex at which v was seen last

(* The edge from i to k that is next, and what each function makes of it.    *)
EdgeRange == D[loc.i][loc.e]

CountsEdge(i, k) ==
  CASE call.fn = "NR_EDGES" -> TRUE
    [] call.fn = "NR_ADJACENCIES" -> i <= k \/ ~Adjacent(D, k, i)
    [] OTHER -> i < k \/ ~Adjacent(D, k, i)

Collected(l, i, k) ==
  CASE call.fn \in Counts -> [l EXCEPT !.nr = IF CountsEdge(i, k) THEN @ + 1 ELSE @]
    [] call.fn = "SOURCE_RANGE" -> [l EXCEPT !.src = Append(@, i), !.ran = Append(@, k)]
    [] call.fn = "IN_OUT_NBS" -> [l EXCEPT !.lists[k] = Append(@, i)]
    [] call.fn = "ADJACENCY_MATRIX" -> [l EXCEPT !.mat[<< i, k >>] = @ + 1]
    [] call.fn = "IS_MULTI_DIGRAPH" -> [l EXCEPT !.seen[k] = i]

(* A faulty variant, for testing the properties: at a vertex it has ever seen.*)
StopsAt_ever_seen ==
  /\ call.fn = "IS_MULTI_DIGRAPH"
  /\ \/ Len(D[loc.i]) > N
     \/ loc.e <= Len(D[loc.i]) /\ loc.seen[EdgeRange] # 0

(* IS_MULTI_DIGRAPH stops at a list longer than there are vertices, and at a *)
(* vertex it has seen since it came to i: seen is never cleared.             *)
StopsAt ==
  /\ call.fn = "IS_MULTI_DIGRAPH"
  /\ \/ Len(D[loc.i]) > N
     \/ loc.e <= Len(D[loc.i]) /\ loc.seen[EdgeRange] = loc.i

LoopResult ==
  CASE call.fn \in Counts -> loc.nr
    [] call.fn = "SOURCE_RANGE" -> [ src |-> loc.src, ran |-> loc.ran ]
    [] call.fn = "ADJACENCY_MATRIX" -> loc.mat
    [] call.fn = "IS_MULTI_DIGRAPH" -> FALSE
    [] OTHER -> loc.lists

EdgeLoop ==
  \E f \in LoopFunctions \ {"FROM_SOURCE_RANGE"} :
    /\ Running(f)
    /\ IF loc.i > N THEN Answer(LoopResult)
       ELSE IF StopsAt THEN Answer(TRUE)
       ELSE Continue(IF loc.e <= Len(D[loc.i])
                     THEN [Collected(loc, loc.i, EdgeRange) EXCEPT !.e = @ + 1]
                     ELSE [loc EXCEPT !.i = @ + 1, !.e = 1])

(* DIGRAPH_OUT_NEIGHBOURS_FROM_SOURCE_RANGE: each range to the list of its   *)
(* source, in the order given.                                               *)
FROM_SOURCE_RANGE ==
  /\ Running("FROM_SOURCE_RANGE")
  /\ IF N = 0 \/ loc.e > Len(call.src) THEN Answer(loc.lists)
     ELSE Continue([loc EXCEPT !.lists[call.src[loc.e]] = Append(@, call.ran[loc.e]),
                               !.e = @ + 1])

------------------------------------------------------------------------------
Times(s, x) == Cardinality({ q \in 1 .. Len(s) : s[q] = x })
RangesOf(src, ran, v) ==
  LET at == SelectSeq([q \in 1 .. Len(src) |-> q], LAMBDA q : src[q] = v)
  IN  [p \in 1 .. Len(at) |-> ran[at[p]]]

(* The edges are neither lost, made up nor put out of order: what is stored  *)
(* for a vertex among the sources and ranges is its list, and the lists made *)
(* of sources and ranges have what is stored for each vertex; the            *)
(* in-neighbours are sorted and have every edge as often as it is there, as  *)
(* has the matrix.  A multidigraph is told from one that has the same vertex *)
(* in several lists, and without multiple edges the number of adjacencies is *)
(* that of the pairs the manual counts.                                      *)
ListsRight ==
  answer # << >> =>
    CASE call.fn = "SOURCE_RANGE" ->
           /\ \A v \in V : RangesOf(Result.src, Result.ran, v) = D[v]
           /\ \A q \in 1 .. Len(Result.src) - 1 : Result.src[q] <= Result.src[q + 1]
      [] call.fn = "FROM_SOURCE_RANGE" ->
           \A v \in V : Result[v] = RangesOf(call.src, call.ran, v)
      [] call.fn = "IN_OUT_NBS" ->
           \A v, w \in V :
             /\ Times(Result[w], v) = Times(D[v], w)
             /\ \A q \in 1 .. Len(Result[w]) - 1 : Result[w][q] <= Result[w][q + 1]
      [] call.fn = "ADJACENCY_MATRIX" -> \A v, w \in V : Result[v, w] = Times(D[v], w)
      [] call.fn = "IS_MULTI_DIGRAPH" -> Result = IsMultiDigraph(D)
      [] call.fn = "NR_EDGES" ->
           Result = Cardinality(UNION { {v} \X (1 .. Len(D[v])) : v \in V })
      [] call.fn \in { "NR_ADJACENCIES", "NR_ADJACENCIES_WITHOUT_LOOPS" } ->
           ~IsMultiDigraph(D) =>
             Result = Cardinality({ s \in SUBSET V :
               \E u, v \in V : /\ s = {u, v} /\ Adjacent(D, u, v)
                               /\ call.fn = "NR_ADJACENCIES" \/ u # v })
      [] OTHER -> TRUE
==============================================================================
