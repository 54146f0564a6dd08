---------------------------- MODULE MCCliquesFinder ----------------------------
(* CliquesFinder on small graphs, with each of the optional arguments.       *)
EXTENDS CliquesFinder

Graph(n, E) == [n |-> n, edges |-> E \cup { << e[2], e[1] >> : e \in E }]

(* The permutation that takes 0, 1, ... to the members of s.                 *)
P(s) == [k \in 0 .. Len(s) - 1 |-> s[k + 1]]

Plain(D, gens) ==
  [ digraph |-> D, gens |-> gens, limit |-> 99, include |-> {}, exclude |-> {},
    max |-> FALSE, size |-> 0, reps |-> FALSE ]

Null3 == Plain(Graph(3, {}), { P(<< 1, 0, 2 >>), P(<< 1, 2, 0 >>) })
Path3 == Plain(Graph(3, { << 0, 1 >>, << 1, 2 >> }), { P(<< 2, 1, 0 >>) })
Star4 == Plain(Graph(4, { << 0, 1 >>, << 0, 2 >>, << 0, 3 >> }),
               { P(<< 0, 2, 1, 3 >>), P(<< 0, 2, 3, 1 >>) })
Path4 == Plain(Graph(4, { << 0, 1 >>, << 1, 2 >>, << 2, 3 >> }), { P(<< 3, 2, 1, 0 >>) })
Cycle4 == Plain(Graph(4, { << 0, 1 >>, << 1, 2 >>, << 2, 3 >>, << 3, 0 >> }),
                { P(<< 1, 2, 3, 0 >>), P(<< 0, 3, 2, 1 >>) })
Complete4 == Plain(Graph(4, { e \in (0 .. 3) \X (0 .. 3) : e[1] < e[2] }),
                   { P(<< 1, 0, 2, 3 >>), P(<< 1, 2, 3, 0 >>) })
(* Both generators move an isolated vertex: the kernel keeps neither.        *)
EdgeAndTwo == Plain(Graph(4, { << 1, 3 >> }), { P(<< 2, 3, 0, 1 >>), P(<< 2, 1, 0, 3 >>) })
(* Not symmetric: its cliques are those of the triangle 0, 1, 2 with 3 at 2. *)
LoopedPaw ==
  Plain([ n |-> 4, edges |-> Graph(4, { << 0, 1 >>, << 1, 2 >>, << 0, 2 >>, << 2, 3 >> }).edges
                               \cup { << 1, 1 >>, << 3, 0 >> } ], { P(<< 1, 0, 2, 3 >>) })

(* Digraphs for the search in GAP.                                           *)
BowTie == Plain(Graph(5, { << 0, 1 >>, << 0, 2 >>, << 1, 2 >>, << 0, 3 >>, << 0, 4 >>, << 3, 4 >> }),
                { P(<< 0, 2, 1, 3, 4 >>), P(<< 0, 3, 4, 1, 2 >>) })
House == Plain(Graph(5, { << 0, 1 >>, << 1, 2 >>, << 2, 3 >>, << 3, 0 >>, << 0, 4 >>, << 1, 4 >> }),
               { P(<< 1, 0, 3, 2, 4 >>) })
PointAndTwoEdges == Plain(Graph(5, { << 1, 2 >>, << 3, 4 >> }),
                          { P(<< 0, 2, 1, 3, 4 >>), P(<< 0, 3, 4, 1, 2 >>) })
TriangleAndTwo == Plain(Graph(5, { << 1, 2 >>, << 2, 4 >>, << 1, 4 >> }),
                        { P(<< 3, 1, 2, 0, 4 >>), P(<< 0, 2, 1, 3, 4 >>), P(<< 0, 2, 4, 3, 1 >>) })

Samples == { Null3, Path3, Star4, Path4, Cycle4, Complete4, EdgeAndTwo, LoopedPaw,
             BowTie, House, PointAndTwoEdges, TriangleAndTwo }

(* The generators are what AutomorphismGroup answers for: they generate all  *)
(* automorphisms of the symmetric loopless subdigraph.                       *)
ASSUME SampleGroups ==
  \A a \in Samples :
    AutGroup(a) =
      Automorphisms([ n |-> a.digraph.n,
                      edges |-> { e \in Vertices(a.digraph) \X Vertices(a.digraph) :
                                    Adjacent(a, e[1], e[2]) } ], << >>)

(* Vertices to include or to exclude: none, one, the first two, an orbit.    *)
VertexSets(a) ==
  LET G == AutGroup(a)
  IN  {{}, {0}, {0, 1}} \cup { Orbit(G, v) : v \in Vertices(a.digraph) }

IncludesAndExcludes(a) ==
  (VertexSets(a) \X {{}, {2}}) \cup ({{}} \X VertexSets(a))

Asked(a) ==
  { [a EXCEPT !.include = s[1], !.exclude = s[2], !.max = m, !.size = n, !.limit = l, !.reps = r] :
      s \in IncludesAndExcludes(a), m \in BOOLEAN, n \in {0, 2, 3}, l \in {1, 2, 99},
      r \in BOOLEAN }

(* CliquesFinder refuses arguments for representatives that are not          *)
(* invariant.                                                                *)
Accepted(a, G) ==
  a.reps => VariantPart(G, a.include) = {} /\ VariantPart(G, a.exclude) = {}

(* What is left out is where the code departs from its documentation: see    *)
(* the runs that fail and the README.  For the kernel, vertices to include   *)
(* or exclude that are invariant, in some cases; for the search in GAP, a    *)
(* limit on representatives that need not be maximal, and vertices to        *)
(* include that are not invariant or have an isolated vertex beside them.    *)
Regular(a, G) ==
  /\ Accepted(a, G)
  /\ InKernel(a) =>
       /\ a.exclude # Vertices(a.digraph)
       /\ a.max => InvariantPart(G, a.exclude) = {}
       /\ InvariantPart(G, a.include) # {} =>
            IF a.max THEN a.size # Cardinality(InvariantPart(G, a.include)) ELSE a.size # 0
  /\ ~InKernel(a) =>
       /\ a.reps /\ ~a.max /\ a.size = 0 => a.limit = 99
       /\ VariantPart(G, a.include) = {}
       /\ a.reps /\ a.include # {} => Isolated(a) = {}

MCArguments == 
  UNION { LET G == AutGroup(s) IN { a \in Asked(s) : Regular(a, G) } : s \in Samples }

(* The second call is one of these, for the kernel: its objects come with    *)
(* the same stride, or with another.                                         *)
SecondArguments == { [Path4 EXCEPT !.max = TRUE], Complete4, Path3, [Path3 EXCEPT !.max = TRUE] }

MCNext ==
  \/ \E a \in IF calls = 0 THEN Arguments ELSE SecondArguments : Call(a)
  \/ Run

MCSpec == Init /\ [][MCNext]_vars /\ WF_vars(Run)

------------------------------------------------------------------------------
(* What Regular leaves out: two calls that have a run.                       *)

(* The centre of a star is to be in the cliques, and is one itself.          *)
CentreIncluded == { [Star4 EXCEPT !.include = {0}] }

(* Maximal cliques without the centre of a star: every vertex is in a        *)
(* larger clique, with the centre.                                           *)
CentreExcluded == { [Star4 EXCEPT !.exclude = {0}, !.max = TRUE] }

(* And two that have none.  One representative of the cliques of a triangle, *)
(* sought in GAP: the search goes past the limit, which NoneTwice excludes.  *)
Triangle == Plain(Graph(3, { << 0, 1 >>, << 1, 2 >>, << 0, 2 >> }),
                  { P(<< 1, 0, 2 >>), P(<< 1, 2, 0 >>) })
OneOfTriangle == { [Triangle EXCEPT !.limit = 1, !.reps = TRUE] }

(* The cliques of a prism with vertex 0, sought in GAP: one is lost, against *)
(* AsManyAsPossible.                                                         *)
Prism ==
  Plain(Graph(6, { << 0, 1 >>, << 1, 2 >>, << 0, 2 >>, << 3, 4 >>, << 4, 5 >>, << 3, 5 >>,
                   << 0, 3 >>, << 1, 4 >>, << 2, 5 >> }),
        { P(<< 1, 0, 2, 4, 3, 5 >>), P(<< 1, 2, 0, 4, 5, 3 >>), P(<< 3, 4, 5, 0, 1, 2 >>) })
CornerOfPrism == { [Prism EXCEPT !.include = {0}] }

ASSUME PrismGroup == AutGroup(Prism) = Automorphisms(Prism.digraph, << >>)
==============================================================================
