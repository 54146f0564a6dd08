------------------------------ MODULE DepthFirst ------------------------------
(***************************************************************************)
(* The seven depth-first searches of digraphs.c.  Each has turned the        *)
(* recursion into a loop over a stack of frames (a vertex, and the place in  *)
(* its list) with a mark for each vertex: 0 not seen, 2 open, 1 done with.   *)
(* The mark of a vertex is taken back to 0 whenever the search returns to it *)
(* and set again when it leaves it, so that the one on top of the stack is   *)
(* never marked open for its own sake.                                       *)
(***************************************************************************)
EXTENDS KernelCalls

(* The in-neighbours of a digraph without multiple edges, each put at the    *)
(* end of the list when the loop over the vertices comes to it.              *)
InNeighbours ==
  [w \in V |->
     LET nbs[v \in 0 .. N] ==
           IF v = 0 THEN << >>
           ELSE IF Adjacent(D, v, w) THEN Append(nbs[v - 1], v) ELSE nbs[v - 1]
     IN  nbs[N]]

(* The lists the search runs along.                                          *)
Nbs == IF call.fn = "TRANS_REDUCTION" THEN InNeighbours ELSE D

Rooted == { "IS_ACYCLIC", "TOPO_SORT", "TRANS_REDUCTION", "IS_ANTISYMMETRIC", "SPANNING_FOREST" }
FromOne == { "LONGEST_DIST", "PATH" }
Searches == Rooted \cup FromOne

Frame(v) == [ v |-> v, k |-> 1 ]

SearchLocals ==
  [ i |-> 1,                                   \* where the next search begins
    frames |-> IF call.fn \in FromOne THEN << Frame(call.start) >> ELSE << >>,
    ptr |-> [v \in V |-> 0],
    out |-> IF call.fn = "TOPO_SORT" THEN << >> ELSE [v \in V |-> << >>],
    depth |-> [v \in V |-> 0], prev |-> 0,     \* of LONGEST_DIST
    backtracking |-> FALSE,                    \* of TRANS_REDUCTION
    mat |-> [p \in V \X V |-> FALSE] ]

Level(l) == Len(l.frames)
TopFrame(l) == l.frames[Level(l)]
J == TopFrame(loc).v
K == TopFrame(loc).k

(* The frame d below the top one, or one of zeros below the lowest.          *)
Below(d) == IF Level(loc) > d THEN loc.frames[Level(loc) - d] ELSE [ v |-> 0, k |-> 0 ]

Searching == loc.frames # << >>
BetweenSearches == loc.frames = << >> /\ loc.i <= N
AllSearched == loc.frames = << >> /\ loc.i > N

Marked(l, v, m) == [l EXCEPT !.ptr[v] = m]
NextI(l) == [l EXCEPT !.i = @ + 1]
Push(l, w) == [l EXCEPT !.frames = Append(@, Frame(w))]

(* Faulty variants, for testing the properties: the mark of the frame below  *)
(* stays; a loop is an edge to and fro.                                      *)
Backtrack_marked(l) ==
  IF Level(l) = 1
  THEN NextI([l EXCEPT !.frames = << >>])
  ELSE LET b == Level(l) - 1
       IN  [l EXCEPT !.frames = [SubSeq(l.frames, 1, b) EXCEPT ![b].k = @ + 1]]

BackEdge_or_loop ==
  /\ loc.ptr[J] = 2
  /\ \E e \in 1 .. Len(Nbs[J]) : Nbs[J][e] = Below(1).v

(* Back to the frame below: its mark is taken back and it goes on to its next*)
(* edge; without one the search is over.                                     *)
Backtrack(l) ==
  IF Level(l) = 1
  THEN NextI([l EXCEPT !.frames = << >>])
  ELSE LET b == Level(l) - 1
       IN  [l EXCEPT !.frames = [SubSeq(l.frames, 1, b) EXCEPT ![b].k = @ + 1],
                     !.ptr[l.frames[b].v] = 0]

Finish == Backtrack(Marked(loc, J, 1))
Descend(m) == Push(Marked(loc, J, m), Nbs[J][K])
Exhausted == K > Len(Nbs[J])
MustLeave == loc.ptr[J] = 1 \/ Exhausted

(* A loop: the search came from J to J, and goes on with J's next edge.      *)
SkipLoop == Backtrack(loc)

------------------------------------------------------------------------------
(* A vertex without edges is done with at once.                              *)
StartOrSkip ==
  /\ BetweenSearches
  /\ Continue(IF Nbs[loc.i] = << >> THEN NextI(Marked(loc, loc.i, 1))
              ELSE IF loc.ptr[loc.i] = 0 THEN Push(loc, loc.i)
              ELSE NextI(loc))

IS_ACYCLIC ==
  /\ Running("IS_ACYCLIC")
  /\ \/ StartOrSkip
     \/ AllSearched /\ Answer(TRUE)
     \/ /\ Searching
        /\ IF loc.ptr[J] = 2 THEN Answer(FALSE)
           ELSE Continue(IF MustLeave THEN Finish ELSE Descend(2))

------------------------------------------------------------------------------
(* DIGRAPH_LONGEST_DIST_VERTEX: prev is the longest walk from the vertex that*)
(* was just left, and one edge more when it is taken up by the one below.    *)
LONGEST_DIST ==
  /\ Running("LONGEST_DIST")
  /\ IF Nbs[call.start] = << >> THEN Answer(0)
     ELSE \/ /\ ~Searching
             /\ Answer(loc.depth[call.start])
          \/ /\ Searching
             /\ IF loc.ptr[J] = 2 THEN Answer(-2)
                ELSE LET d == IF loc.prev > loc.depth[J] THEN loc.prev ELSE loc.depth[J]
                         l == IF MustLeave
                              THEN [Finish EXCEPT !.prev = IF Level(loc) = 1 THEN d ELSE d + 1]
                              ELSE [Descend(2) EXCEPT !.prev = 0]
                     IN  Continue([l EXCEPT !.depth[J] = d])

------------------------------------------------------------------------------
(* DIGRAPH_TRANS_REDUCTION runs along the in-neighbours of a digraph whose   *)
(* edges go from a vertex to none above it (its caller has sorted it so).    *)
(* mat[w, m]: m is known to have a walk to w.                                *)
TransReductionStart ==
  /\ BetweenSearches
  /\ Continue(IF loc.ptr[loc.i] = 0 THEN [Push(loc, loc.i) EXCEPT !.backtracking = FALSE]
              ELSE NextI(loc))

StoreLoop ==
  /\ Searching
  /\ loc.ptr[J] = 2
  /\ IF Below(1).v # J
     THEN Error
     ELSE Continue([SkipLoop EXCEPT !.backtracking = TRUE, !.out[J] = Append(@, J)])

(* An edge from J to the vertex below unless J is known to have another walk *)
(* to it; then back, with all that reaches J reaching the vertex below.      *)
NewOut ==
  IF ~loc.backtracking /\ J # loc.i /\ ~loc.mat[Below(1).v, J]
  THEN [loc.out EXCEPT ![J] = Append(@, Below(1).v)] ELSE loc.out

LeaveReduced ==
  IF Level(loc) = 1 THEN NextI([loc EXCEPT !.frames = << >>])
  ELSE LET w == Below(1).v
       IN  [Marked(Backtrack(loc), J, 1) EXCEPT
              !.backtracking = TRUE,
              !.mat = [p \in V \X V |-> \/ @[p]
                                        \/ p[1] = w /\ @[J, p[2]]
                                        \/ p = << w, J >>]]

VisitReduced ==
  /\ Searching
  /\ loc.ptr[J] # 2
  /\ LET l == IF MustLeave THEN LeaveReduced
              ELSE [Descend(2) EXCEPT !.backtracking = FALSE]
     IN  Continue([l EXCEPT !.out = NewOut])

TRANS_REDUCTION ==
  /\ Running("TRANS_REDUCTION")
  /\ \/ TransReductionStart
     \/ StoreLoop
     \/ VisitReduced
     \/ AllSearched /\ Answer(loc.out)

------------------------------------------------------------------------------
(* DIGRAPH_PATH looks for its target when it goes on to a vertex; the frames *)
(* then are the path, and their places the edges taken.                      *)
FoundPath(l) ==
  [ path |-> [q \in 1 .. Level(l) |-> l.frames[q].v],
    edge |-> [q \in 1 .. Level(l) - 1 |-> l.frames[q].k] ]

PATH ==
  /\ Running("PATH")
  /\ IF Nbs[call.start] = << >> \/ ~Searching THEN Fail
     ELSE IF loc.ptr[J] # 0 \/ Exhausted THEN Continue(Finish)
     ELSE IF Nbs[J][K] = call.target THEN Answer(FoundPath(Descend(2)))
     ELSE Continue(Descend(2))

------------------------------------------------------------------------------
(* IS_ANTISYMMETRIC_DIGRAPH: a frame also keeps the two vertices below it    *)
(* (last1, last2), by which the search sees that it has gone to and fro.  An *)
(* open vertex is left as it is marked.                                      *)
ToAndFro == J = Below(2).v /\ J # Below(1).v

BackEdge ==
  /\ loc.ptr[J] = 2
  /\ Below(1).v # J
  /\ \E e \in 1 .. Len(Nbs[J]) : Nbs[J][e] = Below(1).v

IS_ANTISYMMETRIC ==
  /\ Running("IS_ANTISYMMETRIC")
  /\ IF N <= 1 THEN Answer(TRUE)
     ELSE \/ StartOrSkip
          \/ AllSearched /\ Answer(TRUE)
          \/ /\ Searching
             /\ IF ToAndFro \/ BackEdge THEN Answer(FALSE)
                ELSE Continue(IF Exhausted THEN Finish
                              ELSE IF loc.ptr[J] >= 1 THEN Backtrack(loc)
                              ELSE Descend(2))

------------------------------------------------------------------------------
(* DIGRAPH_TOPO_SORT: a vertex is put into the list when it is left for good.*)
Listed(l, v) == [l EXCEPT !.out = IF l.ptr[v] = 0 THEN Append(@, v) ELSE @]

TopoStart ==
  /\ BetweenSearches
  /\ Continue(IF Nbs[loc.i] = << >> THEN NextI(Marked(Listed(loc, loc.i), loc.i, 1))
              ELSE IF loc.ptr[loc.i] = 0 THEN Push(loc, loc.i)
              ELSE NextI(loc))

TopoVisit ==
  /\ Searching
  /\ IF loc.ptr[J] = 2
     THEN IF Below(1).v # J THEN Fail ELSE Continue(SkipLoop)
     ELSE IF MustLeave THEN Continue(Backtrack(Marked(Listed(loc, J), J, 1)))
     ELSE Continue(Descend(2))

TOPO_SORT ==
  /\ Running("TOPO_SORT")
  /\ IF N <= 1 THEN Answer([v \in V |-> v])
     ELSE \/ TopoStart
          \/ AllSearched /\ Answer(loc.out)
          \/ TopoVisit

------------------------------------------------------------------------------
(* DIGRAPH_SYMMETRIC_SPANNING_FOREST: an open vertex and one done with have  *)
(* the same mark.  A new vertex's list is empty, its first place is written. *)
ForestStart ==
  /\ BetweenSearches
  /\ Continue(IF loc.ptr[loc.i] = 0 /\ Nbs[loc.i] # << >> THEN Push(loc, loc.i) ELSE NextI(loc))

Joined(out, j, next) ==
  LET one == [out EXCEPT ![j] = Append(@, next)]
  IN  [one EXCEPT ![next] = IF @ = << >> THEN << j >> ELSE [@ EXCEPT ![1] = j]]

ForestVisit ==
  /\ Searching
  /\ IF loc.ptr[J] # 0 \/ Exhausted THEN Continue(Finish)
     ELSE LET l == Descend(1)
              next == Nbs[J][K]
          IN  Continue(IF l.ptr[next] = 0 THEN [l EXCEPT !.out = Joined(@, J, next)] ELSE l)

SPANNING_FOREST ==
  /\ Running("SPANNING_FOREST")
  /\ \/ ForestStart
     \/ ForestVisit
     \/ AllSearched /\ Answer(loc.out)

------------------------------------------------------------------------------
(* The frames are a path: each vertex but the top one was left by the edge   *)
(* its frame is at, is marked open (PATH and SPANNING_FOREST make no         *)
(* difference between 1 and 2), and is not met twice; no other vertex has    *)
(* mark 2.  The marks are set and taken back at different times, and only    *)
(* because they agree with the stack is the buffer, of n + 1 frames, never   *)
(* written past its end.                                                     *)
OpenMarks == IF call.fn \in { "PATH", "SPANNING_FOREST" } THEN { 1, 2 } ELSE { 2 }

PathMarked ==
  call.fn \in Searches =>
    LET top == Level(loc)
        F == loc.frames
    IN  /\ top <= N + 1
        /\ \A q \in 1 .. top - 1 :
             /\ loc.ptr[F[q].v] \in OpenMarks
             /\ F[q].k \in 1 .. Len(Nbs[F[q].v])
             /\ Nbs[F[q].v][F[q].k] = F[q + 1].v
        /\ \A p, q \in 1 .. top - 1 : F[p].v = F[q].v => p = q
        /\ \A v \in V : loc.ptr[v] = 2 => \E q \in 1 .. top - 1 : F[q].v = v

------------------------------------------------------------------------------
Occurs(s, x) == Cardinality({ q \in 1 .. Len(s) : s[q] = x })

AcyclicRight == Result = IsAcyclic(D)

AntisymmetricRight ==
  Result = \A u, v \in V : Adjacent(D, u, v) /\ Adjacent(D, v, u) => u = v

(* The longest walk from start, -2 if there are walks of any length.         *)
LongestRight ==
  LET W == Walks(D)
      From(len) == \E v \in V : << call.start, v >> \in W[len]
  IN  IF From(N) THEN Result = -2
      ELSE From(Result) /\ ~From(Result + 1)

(* A path from start to target without a vertex twice, if there is any.      *)
PathRight ==
  IF answer = << "fail" >> THEN ~Reaches(D, call.start, call.target)
  ELSE LET path == Result.path
           edge == Result.edge
       IN  /\ path[1] = call.start /\ path[Len(path)] = call.target
           /\ Len(edge) = Len(path) - 1
           /\ \A q \in 1 .. Len(edge) : D[path[q]][edge[q]] = path[q + 1]
           /\ \A p, q \in 1 .. Len(edge) : path[p] = path[q] => p = q

(* Every vertex once, after all that its edges go to; fail if a cycle is more*)
(* than a loop.                                                              *)
TopoRight ==
  LET out == Result
  IN  IF answer = << "fail" >> THEN ~IsAcyclic(WithoutLoops(D))
      ELSE /\ Len(out) = N
           /\ \A v \in V : Occurs(out, v) = 1
           /\ \A p, q \in V : Adjacent(D, out[p], out[q]) => q <= p

(* The loops, and the other edges that no longer walk goes round.            *)
ReductionRight ==
  LET W == Walks(WithoutLoops(D))
      Redundant(u, v) == \E len \in 2 .. N : << u, v >> \in W[len]
  IN  \A u, v \in V :
        Occurs(Result[u], v) =
          IF Adjacent(D, u, v) /\ (u = v \/ ~Redundant(u, v)) THEN 1 ELSE 0

(* Edges of the digraph in pairs, that join what it joins and have no cycle: *)
(* as many pairs as there are vertices, less one for each component.         *)
ForestRight ==
  LET out == Result
      W == Walks(D)
      R(u, v) == u = v \/ \E len \in 1 .. N : << u, v >> \in W[len]
      leasts == { v \in V : \A u \in V : R(u, v) => v <= u }
      pairs == { p \in V \X V : Occurs(out[p[1]], p[2]) = 1 }
  IN  /\ \A u, v \in V :
           /\ Occurs(out[u], v) <= 1
           /\ Occurs(out[u], v) = Occurs(out[v], u)
           /\ Occurs(out[u], v) = 1 => u # v /\ Adjacent(D, u, v)
           /\ R(u, v) => ReachesOrIs(out, u, v)
      /\ Cardinality(pairs) = 2 * (N - Cardinality(leasts))

(* What each search answers, against the walks of the digraph.               *)
SearchesRight ==
  answer # << >> =>
    CASE call.fn = "IS_ACYCLIC" -> AcyclicRight
      [] call.fn = "IS_ANTISYMMETRIC" -> AntisymmetricRight
      [] call.fn = "LONGEST_DIST" -> LongestRight
      [] call.fn = "PATH" -> PathRight
      [] call.fn = "TOPO_SORT" -> TopoRight
      [] call.fn = "TRANS_REDUCTION" -> ReductionRight
      [] call.fn = "SPANNING_FOREST" -> ForestRight
      [] OTHER -> TRUE
==============================================================================
