--------------------------- MODULE StrongComponents ---------------------------
(***************************************************************************)
(* FuncGABOW_SCC and FuncIS_STRONGLY_CONNECTED_DIGRAPH: Gabow's algorithm on *)
(* two stacks.  stack1 holds the vertices that are in no finished component, *)
(* stack2 the places in it where a component may still begin, frames the     *)
(* calls of the recursion the C code has turned into a loop.                 *)
(***************************************************************************)
EXTENDS KernelCalls

GabowLocals ==
  [ v |-> 1, frames |-> << >>, stack1 |-> << >>, stack2 |-> << >>,
    id |-> [v \in V |-> 0], count |-> N, comps |-> << >> ]

Pop(s) == SubSeq(s, 1, Len(s) - 1)
Highest(s) == s[Len(s)]

(* A vertex is come to for the first time: its id is its place in stack1.    *)
Enter(l, w) ==
  [l EXCEPT !.frames = Append(@, [v |-> w, k |-> 1]),
            !.stack1 = Append(@, w),
            !.stack2 = Append(@, Len(l.stack1) + 1),
            !.id[w] = Len(l.stack1) + 1]

(* A faulty variant, for testing the properties: one place at most.          *)
DownTo_once(s, idw) == IF Highest(s) > idw THEN Pop(s) ELSE s

(* while (stack2[end2] > idw) end2--;                                        *)
DownTo(s, idw) ==
  SubSeq(s, 1, CHOOSE m \in 1 .. Len(s) :
                 s[m] <= idw /\ \A q \in m + 1 .. Len(s) : s[q] > idw)

AtRoot == loc.frames = << >>
AtVertex == loc.frames # << >>
Here == Highest(loc.frames)                                    \* frames[0], frames[1]
EdgesLeft == Here.k <= Len(D[Here.v])

(* The loop over the vertices: a search from the next one that has no id.    *)
NextRoot ==
  /\ AtRoot
  /\ loc.v <= N
  /\ Continue(IF loc.id[loc.v] = 0 THEN Enter(loc, loc.v) ELSE [loc EXCEPT !.v = @ + 1])

(* A faulty variant, for testing the properties: only an edge to a new vertex *)
(* is gone on from.                                                          *)
FollowEdge_stuck ==
  /\ AtVertex
  /\ EdgesLeft
  /\ LET w == D[Here.v][Here.k]
         l == [loc EXCEPT !.frames[Len(loc.frames)].k = @ + 1]
     IN  Continue(IF loc.id[w] = 0 THEN Enter(l, w)
                  ELSE [loc EXCEPT !.stack2 = DownTo(@, loc.id[w])])

(* An edge: on to a new vertex, or the places above that of a vertex that is *)
(* still in stack1 stop being beginnings.                                    *)
FollowEdge ==
  /\ AtVertex
  /\ EdgesLeft
  /\ LET w == D[Here.v][Here.k]
         l == [loc EXCEPT !.frames[Len(loc.frames)].k = @ + 1]
     IN  Continue(IF loc.id[w] = 0 THEN Enter(l, w)
                  ELSE [l EXCEPT !.stack2 = DownTo(@, loc.id[w])])

(* The vertices from v to the top of stack1 are taken off it as a component. *)
Closed(l, v) ==
  LET place == CHOOSE q \in 1 .. Len(l.stack1) : l.stack1[q] = v
      comp == SubSeq(l.stack1, place, Len(l.stack1))
  IN  [l EXCEPT !.stack1 = SubSeq(@, 1, place - 1),
                !.stack2 = Pop(@),
                !.count = @ + 1,
                !.id = [w \in V |-> IF \E q \in 1 .. Len(comp) : comp[q] = w
                                    THEN l.count + 1 ELSE @[w]],
                !.comps = Append(@, comp)]

Begins == Highest(loc.stack2) = loc.id[Here.v]

LeaveVertex ==
  /\ AtVertex
  /\ ~EdgesLeft
  /\ LET l == IF Begins THEN Closed(loc, Here.v) ELSE loc
     IN  Continue([l EXCEPT !.frames = Pop(@),
                            !.v = IF Len(loc.frames) = 1 THEN @ + 1 ELSE @])

(* All are in components, numbered from n + 1 on; n is taken off the numbers.*)
AllClosed ==
  /\ AtRoot
  /\ loc.v > N
  /\ Answer([ id |-> [v \in V |-> loc.id[v] - N], comps |-> loc.comps ])

GABOW_SCC == Running("GABOW_SCC") /\ (NextRoot \/ FollowEdge \/ LeaveVertex \/ AllClosed)

------------------------------------------------------------------------------
(* IS_STRONGLY_CONNECTED_DIGRAPH searches from the first vertex only, and is *)
(* done at the first vertex left that begins a component: are all in it?     *)
(* Its bag holds stack1, stack2 and the frames, n places each.               *)
FirstVertex ==
  /\ AtRoot
  /\ IF N = 0 THEN Answer(TRUE) ELSE Continue(Enter(loc, 1))

FirstComponent ==
  /\ AtVertex
  /\ ~EdgesLeft
  /\ IF Begins
     THEN Answer(Len(Highest(Closed(loc, Here.v).comps)) = N)
     ELSE Continue([loc EXCEPT !.frames = Pop(@)])

IS_STRONGLY_CONNECTED ==
  Running("IS_STRONGLY_CONNECTED") /\ (FirstVertex \/ FollowEdge \/ FirstComponent)

------------------------------------------------------------------------------
(* The two answers against walks: two vertices have the same number, and are *)
(* in the one component of that number, exactly if each reaches the other.   *)
(* While the search runs the stacks stay within the room they were given,    *)
(* stack2 is an increasing choice of places of stack1 whose lowest is the    *)
(* first (so that the loop that pops it never runs it empty), and vertices of*)
(* stack1 with no such place between them reach each other.                  *)
StrongComponentsRight ==
  /\ Answered("GABOW_SCC") =>
       LET a == Result
           W == Walks(D)
           R(u, v) == u = v \/ \E len \in 1 .. N : << u, v >> \in W[len]
       IN  /\ \A u, v \in V : (a.id[u] = a.id[v]) = (R(u, v) /\ R(v, u))
           /\ \A c \in 1 .. Len(a.comps) : \A v \in V :
                (a.id[v] = c) = (\E q \in 1 .. Len(a.comps[c]) : a.comps[c][q] = v)
           /\ \A v \in V : a.id[v] \in 1 .. Len(a.comps)
  /\ Answered("IS_STRONGLY_CONNECTED") =>
       LET W == Walks(D)
       IN  Result = \A u, v \in V : u = v \/ \E len \in 1 .. N : << u, v >> \in W[len]
  /\ call.fn \in { "GABOW_SCC", "IS_STRONGLY_CONNECTED" } /\ answer = << >> =>
       /\ Len(loc.frames) <= N /\ Len(loc.stack1) <= N
       /\ \A q \in 1 .. Len(loc.stack2) :
            /\ loc.stack2[q] \in 1 .. Len(loc.stack1)
            /\ q > 1 => loc.stack2[q - 1] < loc.stack2[q]
       /\ AtVertex => loc.stack2 # << >> /\ loc.stack2[1] = 1
       /\ LET W == Walks(D)
              R(u, v) == u = v \/ \E len \in 1 .. N : << u, v >> \in W[len]
              Part(q) == Cardinality({ s \in 1 .. Len(loc.stack2) : loc.stack2[s] <= q })
          IN  \A p, q \in 1 .. Len(loc.stack1) :
                Part(p) = Part(q) => R(loc.stack1[p], loc.stack1[q])
==============================================================================
