----------------------------- MODULE FloydWarshall -----------------------------
(***************************************************************************)
(* FLOYD_WARSHALL and the five functions that call it: one n x n matrix dist,*)
(* gone through n times and changed in place by the function it is given, so *)
(* that a pass reads entries that it has itself written.                     *)
(***************************************************************************)
EXTENDS KernelCalls

Distances == { "SHORTEST_DIST", "DIAMETER" }
Closures == { "TRANS_CLOSURE", "REFLEX_TRANS_CLOSURE", "IS_TRANSITIVE" }
MatrixFunctions == Distances \cup Closures

NoEntry == IF call.fn \in Distances THEN -1 ELSE 0                      \* val1

(* The matrix of the edges, with an empty diagonal if it is for distances.   *)
InitialDist ==
  [p \in V \X V |->
     IF call.fn \in Distances /\ p[1] = p[2] THEN 0
     ELSE IF Adjacent(D, p[1], p[2]) THEN 1 ELSE NoEntry]

MatrixLocals == [ k |-> 1, i |-> 1, j |-> 1, dist |-> InitialDist, adj |-> InitialDist ]

------------------------------------------------------------------------------
(* Faulty variants, for testing the properties: -1 is added up as a distance; *)
(* and k is in the innermost loop.                                           *)
FW_FUNC_SHORTEST_DIST_blind(d, i, j, k) ==
  IF d[i, k] # -1 /\ (d[i, j] = -1 \/ d[i, j] > d[i, k] + d[k, j])
  THEN d[i, k] + d[k, j] ELSE d[i, j]

(* The three functions that change the entry of (i, j) by way of k.          *)
FW_FUNC_SHORTEST_DIST(d, i, j, k) ==
  IF /\ d[i, k] # -1 /\ d[k, j] # -1
     /\ d[i, j] = -1 \/ d[i, j] > d[i, k] + d[k, j]
  THEN d[i, k] + d[k, j] ELSE d[i, j]

FW_FUNC_TRANS_CLOSURE(d, i, j, k) ==
  IF d[i, k] # 0 /\ d[k, j] # 0 THEN 1 ELSE d[i, j]

FW_FUNC_REFLEX_TRANS_CLOSURE(d, i, j, k) ==
  IF i = j \/ (d[i, k] # 0 /\ d[k, j] # 0) THEN 1 ELSE d[i, j]

NewEntry(d, i, j, k) ==
  CASE call.fn \in Distances -> FW_FUNC_SHORTEST_DIST(d, i, j, k)
    [] call.fn = "REFLEX_TRANS_CLOSURE" -> FW_FUNC_REFLEX_TRANS_CLOSURE(d, i, j, k)
    [] OTHER -> FW_FUNC_TRANS_CLOSURE(d, i, j, k)

Relax_k_innermost ==
  /\ loc.k <= N
  /\ Continue([loc EXCEPT
       !.dist[<< loc.j, loc.i >>] = NewEntry(loc.dist, loc.j, loc.i, loc.k),
       !.k = IF loc.i = N /\ loc.j = N THEN loc.k + 1 ELSE IF loc.k < N THEN loc.k + 1 ELSE 1,
       !.i = IF loc.k < N THEN loc.i ELSE IF loc.i < N THEN loc.i + 1 ELSE 1,
       !.j = IF loc.k < N \/ loc.i < N THEN loc.j ELSE IF loc.j < N THEN loc.j + 1 ELSE N])

(* The innermost turn of the three loops.                                    *)
Relax ==
  /\ loc.k <= N
  /\ Continue([loc EXCEPT
       !.dist[<< loc.i, loc.j >>] = NewEntry(loc.dist, loc.i, loc.j, loc.k),
       !.j = IF loc.j < N THEN loc.j + 1 ELSE 1,
       !.i = IF loc.j < N THEN loc.i ELSE IF loc.i < N THEN loc.i + 1 ELSE 1,
       !.k = IF loc.j < N \/ loc.i < N THEN loc.k ELSE loc.k + 1])

(* What is made of the matrix: the diameter, a comparison with the copy taken*)
(* before the first pass, or the matrix itself with fail for -1.             *)
NoDiameter == N = 0 \/ \E p \in V \X V : loc.dist[p] = -1
Largest == CHOOSE m \in { loc.dist[p] : p \in V \X V } : \A p \in V \X V : loc.dist[p] <= m

PassesDone ==
  /\ loc.k > N
  /\ CASE call.fn = "DIAMETER" -> IF NoDiameter THEN Fail ELSE Answer(Largest)
       [] call.fn = "IS_TRANSITIVE" -> Answer(\A p \in V \X V : loc.adj[p] = loc.dist[p])
       [] OTHER -> Answer(loc.dist)

FLOYD_WARSHALL ==
  \E f \in MatrixFunctions : Running(f) /\ (Relax \/ PassesDone)

------------------------------------------------------------------------------
Edges == { p \in V \X V : Adjacent(D, p[1], p[2]) }
TransitiveRel(R) == \A u, v, w \in V : << u, v >> \in R /\ << v, w >> \in R => << u, w >> \in R
ReflexiveRel(R) == \A v \in V : << v, v >> \in R

(* The relations among which the answer of f is the least.                   *)
Sought(f, R) ==
  /\ Edges \subseteq R
  /\ TransitiveRel(R)
  /\ f = "REFLEX_TRANS_CLOSURE" => ReflexiveRel(R)

(* The answer of DIGRAPH_TRANS_CLOSURE is the least transitive relation that *)
(* holds of every edge; of DIGRAPH_REFLEX_TRANS_CLOSURE, the least one that  *)
(* is reflexive too; and IS_TRANSITIVE_DIGRAPH says whether the edges are a  *)
(* transitive relation themselves.  One pass, changed in place, is enough.   *)
ClosureRight ==
  /\ \A f \in { "TRANS_CLOSURE", "REFLEX_TRANS_CLOSURE" } :
       Answered(f) =>
         LET closure == { p \in V \X V : Result[p] # 0 }
         IN  /\ Sought(f, closure)
             /\ \A R \in SUBSET (V \X V) : Sought(f, R) => closure \subseteq R
  /\ Answered("IS_TRANSITIVE") => Result = TransitiveRel(Edges)

(* The least number of edges of a walk, -1 if there is none.                 *)
Distance(u, v) ==
  LET W == Walks(D)
      lens == { len \in 0 .. N : << u, v >> \in W[len] }
  IN  IF lens = {} THEN -1 ELSE CHOOSE len \in lens : \A l \in lens : len <= l

(* The answer of DIGRAPH_SHORTEST_DIST is the matrix of the distances, and   *)
(* that of DIGRAPH_DIAMETER the largest of them, fail if two vertices are    *)
(* joined by no walk (or if there are no vertices).                          *)
DistancesRight ==
  /\ Answered("SHORTEST_DIST") =>
       \A u, v \in V : Result[u, v] = Distance(u, v)
  /\ Answered("DIAMETER") =>
       LET all == { Distance(p[1], p[2]) : p \in V \X V }
       IN  IF all = {} \/ -1 \in all THEN answer = << "fail" >>
           ELSE Result \in all /\ \A d \in all : d <= Result
==============================================================================
