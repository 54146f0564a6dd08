--------------------------- MODULE MCDigraphKernels ---------------------------
EXTENDS DigraphKernels

(* The digraphs on n vertices without multiple edges, lists in order.        *)
InOrder(S, n) == SelectSeq([v \in 1 .. n |-> v], LAMBDA v : v \in S)
Simple(n) == { [v \in 1 .. n |-> InOrder(out[v], n)] : out \in [1 .. n -> SUBSET (1 .. n)] }
UpTo3 == UNION { Simple(n) : n \in 0 .. 3 }

(* On two vertices, lists of up to two places in any order: edges twice.     *)
Lists(n, len) == UNION { [1 .. l -> 1 .. n] : l \in 0 .. len }
Multi == [1 .. 2 -> Lists(2, 2)]

(* On four: cycles that meet, follow each other or have a tail, in lists out *)
(* of order.                                                                 *)
Four ==
  { << <<2>>, <<3>>, <<4>>, <<1>> >>,
    << <<2>>, <<3, 1>>, <<4>>, <<3>> >>,
    << <<3, 2>>, <<4, 1>>, <<1>>, <<4, 2>> >>,
    << <<4>>, <<1, 3>>, <<2>>, << >> >>,
    << <<4, 3, 2>>, <<4, 3>>, <<4>>, << >> >>,
    << << >>, <<1>>, <<4, 1>>, <<2>> >>,
    << <<3, 2>>, <<4>>, <<4, 2>>, <<1, 1>> >> }

General == UpTo3 \cup Multi \cup Four

(* Every digraph on four vertices without loops.                             *)
Loopless ==
  { [v \in 1 .. 4 |-> InOrder(out[v], 4)] :
      out \in { o \in [1 .. 4 -> SUBSET (1 .. 4)] : \A v \in 1 .. 4 : v \notin o[v] } }

(* All that the caller's sorting leaves on four vertices, and all symmetric  *)
(* digraphs on four.                                                         *)
Downward ==
  { [v \in 1 .. 4 |-> InOrder(out[v], 4)] :
      out \in { o \in [1 .. 4 -> SUBSET (1 .. 4)] : \A v \in 1 .. 4 : o[v] \subseteq 1 .. v } }

Symmetric ==
  { [v \in 1 .. 4 |-> InOrder({ w \in 1 .. 4 : {v, w} \in S }, 4)] :
      S \in SUBSET { {v, w} : v, w \in 1 .. 4 } }

One(fns, digraphs) == { [ fn |-> f, adj |-> d ] : f \in fns, d \in digraphs }

MCCalls ==
  One({ "CONNECTED_COMPONENTS", "GABOW_SCC", "IS_STRONGLY_CONNECTED", "IS_ACYCLIC",
        "TOPO_SORT", "IS_ANTISYMMETRIC" }, General)
    \cup One({ "GABOW_SCC", "IS_ANTISYMMETRIC", "TOPO_SORT" }, Loopless)
    \cup One(MatrixFunctions, UpTo3 \cup Multi)
    \cup One(LoopFunctions \ {"FROM_SOURCE_RANGE"}, UpTo3 \cup Multi)
    \cup One({"TRANS_REDUCTION"}, Downward)
    \cup One({"SPANNING_FOREST"}, Symmetric)
    \cup UNION { { [ fn |-> "LONGEST_DIST", adj |-> d, start |-> v ] : v \in 1 .. Len(d) } : d \in General }
    \cup UNION { { [ fn |-> "PATH", adj |-> d, start |-> p[1], target |-> p[2] ] :
                     p \in { q \in (1 .. Len(d)) \X (1 .. Len(d)) : ~Adjacent(d, q[1], q[2]) } } :
                 d \in General }
    \cup { [ fn |-> f, adj |-> d, other |-> o ] : f \in { "EQUALS", "LT" }, d, o \in Multi \cup Simple(1) }
    \cup { [ fn |-> "FROM_SOURCE_RANGE", adj |-> << << >>, << >> >>, src |-> s, ran |-> r ] :
             s, r \in [1 .. 3 -> 1 .. 2] }
==============================================================================
