------------------------------- MODULE UnionFind -------------------------------
(***************************************************************************)
(* FuncDIGRAPH_CONNECTED_COMPONENTS: union-find over an array id in which    *)
(* every vertex points to a vertex of its class, and the least vertex of a   *)
(* class, its root, to itself.  The vertices are 0 .. n - 1 in the C array   *)
(* and 1 .. n here.                                                          *)
(***************************************************************************)
EXTENDS KernelCalls

(* For each edge: find the roots of its two ends, combine the two classes.   *)
(* Then number the classes in the order of their roots.                      *)
UnionFindLocals ==
  [ stage |-> "edges",                \* edges, find, number, name
    id |-> [v \in V |-> v],
    i |-> 1, e |-> 1,                 \* the vertex, and the place in its list
    x |-> 0, y |-> 0,                 \* where UF_FIND is, from either end
    nid |-> [v \in V |-> 0],
    nrcomps |-> 0 ]

InStage(s) == Running("CONNECTED_COMPONENTS") /\ loc.stage = s

(* The two loops over the edges come to the next edge, or to their end.      *)
TakeEdge ==
  /\ InStage("edges")
  /\ loc.i <= N
  /\ \/ /\ loc.e <= Len(D[loc.i])
        /\ Continue([loc EXCEPT !.stage = "find", !.x = loc.i, !.y = D[loc.i][loc.e]])
     \/ /\ loc.e > Len(D[loc.i])
        /\ Continue([loc EXCEPT !.i = @ + 1, !.e = 1])

(* UF_FIND, one turn of its loop, for the first end and then for the second. *)
UF_FIND ==
  \/ /\ InStage("find")
     /\ \/ /\ loc.id[loc.x] # loc.x
           /\ Continue([loc EXCEPT !.x = loc.id[@]])
        \/ /\ loc.id[loc.x] = loc.x
           /\ loc.id[loc.y] # loc.y
           /\ Continue([loc EXCEPT !.y = loc.id[@]])
  \/ /\ InStage("name")
     /\ loc.id[loc.x] # loc.x
     /\ Continue([loc EXCEPT !.x = loc.id[@]])

(* A faulty variant, for testing the properties: only the second root is ever *)
(* made to point to the first.                                               *)
Combined_one_way(l) == IF l.x < l.y THEN [l.id EXCEPT ![l.y] = l.x] ELSE l.id

(* The larger of the two roots is made to point to the smaller.              *)
Combined(l) ==
  IF l.x < l.y THEN [l.id EXCEPT ![l.y] = l.x]
  ELSE IF l.y < l.x THEN [l.id EXCEPT ![l.x] = l.y]
  ELSE l.id

UF_COMBINE_CLASSES ==
  /\ InStage("find")
  /\ loc.id[loc.x] = loc.x
  /\ loc.id[loc.y] = loc.y
  /\ Continue([loc EXCEPT !.stage = "edges", !.e = @ + 1, !.id = Combined(loc)])

AllEdgesTaken ==
  /\ InStage("edges")
  /\ loc.i > N
  /\ Continue([loc EXCEPT !.stage = "number", !.i = 1])

NumberNext ==
  /\ InStage("number")
  /\ loc.i <= N
  /\ Continue([loc EXCEPT !.stage = "name", !.x = loc.i])

(* A root opens a component; any other vertex has the number of its root,    *)
(* which is less than it and numbered already.                               *)
Name ==
  /\ InStage("name")
  /\ loc.id[loc.x] = loc.x
  /\ \/ /\ loc.x = loc.i
        /\ Continue([loc EXCEPT !.stage = "number", !.i = @ + 1,
                                !.nid[loc.i] = loc.nrcomps + 1, !.nrcomps = @ + 1])
     \/ /\ loc.x # loc.i
        /\ Continue([loc EXCEPT !.stage = "number", !.i = @ + 1,
                                !.nid[loc.i] = loc.nid[loc.x]])

(* The record returned: the numbers, and the members of each component.      *)
ComponentsRecord ==
  [ id |-> loc.nid,
    comps |-> [c \in 1 .. loc.nrcomps |->
                 SelectSeq([v \in V |-> v], LAMBDA v : loc.nid[v] = c)] ]

AllNamed ==
  /\ InStage("number")
  /\ loc.i > N
  /\ Answer(ComponentsRecord)

CONNECTED_COMPONENTS ==
  \/ TakeEdge \/ UF_FIND \/ UF_COMBINE_CLASSES \/ AllEdgesTaken
  \/ NumberNext \/ Name \/ AllNamed

------------------------------------------------------------------------------
(* The answer of DIGRAPH_CONNECTED_COMPONENTS is the partition into          *)
(* connected components: both ends of an edge have one number, and vertices  *)
(* of one number are told apart by no numbering that is the same at both     *)
(* ends of every edge.                                                       *)
ComponentsRight ==
  Answered("CONNECTED_COMPONENTS") =>
    LET id == Result.id
    IN  /\ \A v \in V : \A e \in 1 .. Len(D[v]) : id[v] = id[D[v][e]]
        /\ \A c \in [V -> V] :
             (\A v \in V : \A e \in 1 .. Len(D[v]) : c[v] = c[D[v][e]]) =>
               \A u, v \in V : id[u] = id[v] => c[u] = c[v]
==============================================================================
