---------------------------- MODULE MutableDigraph ----------------------------
(***************************************************************************)
(* One mutable digraph, and the operations of oper.gi and attr.gi that change*)
(* it in place.  Each of them works on the lists of out-neighbours and keeps *)
(* the lists of labels beside them in step, or fails to.                     *)
(*                                                                         *)
(* The operations on an immutable digraph are these on a mutable copy.  A    *)
(* call that ends in an error without having changed anything is no step.    *)
(***************************************************************************)
EXTENDS DigraphLabels

CONSTANTS
  Digraphs,      \* the lists of out-neighbours to begin with
  VertexLabels, EdgeLabels,     \* what the caller sets labels to
  EdgeLabellings,               \* and the functions it gives SetDigraphEdgeLabels
  MaxVertices, MaxCalls,        \* bounds
  Careful        \* whether the caller keeps to calls that keep labels in step

ASSUME DigraphsAssumption == \A out \in Digraphs : IsDigraph(out)
ASSUME CarefulAssumption == Careful \in BOOLEAN

VARIABLES
  d,             \* the digraph
  called,        \* the last call, and whether it was left with an error
  calls          \* how many there were

vars == << d, called, calls >>

DigraphVertices == Vertices(d.out)
Pairs == DigraphVertices \X DigraphVertices

------------------------------------------------------------------------------
(* The operations, as functions of the digraph.                              *)
DigraphAddVertex(g, label) ==
  LET h == SetDigraphVertexLabel([g EXCEPT !.out = Append(@, << >>)], Len(g.out) + 1, label)
  IN  IF h.el = Unbound THEN h ELSE [h EXCEPT !.el = Append(@, << >>)]

(* The lists are gone through once the vertex itself is gone, entry by entry,*)
(* and each entry removed from a list is removed from the labels.            *)
DigraphRemoveVertex(g, u) ==
  IF u > Len(g.out) THEN g
  ELSE LET h == RemoveDigraphVertexLabel(g, u)
           out == RemoveAt(h.out, u)
           el == IF h.el = Unbound THEN Unbound ELSE RemoveEntry(h.el, u)
           Places(v) == { p \in DOMAIN out[v] : out[v][p] # u }
           Beside(v) == { p \in DOMAIN el[v] : p \in DOMAIN out[v] => out[v][p] # u }
           Lower(w) == IF w > u THEN w - 1 ELSE w
       IN  [ out |-> [v \in DOMAIN out |->
                        LET nbs == EntriesAt(out[v], Places(v))
                        IN  [p \in DOMAIN nbs |-> Lower(nbs[p])]],
             vl |-> h.vl,
             el |-> IF el = Unbound THEN Unbound
                   ELSE [v \in DOMAIN el |->
                           IF v \in DOMAIN out THEN EntriesAt(el[v], Beside(v)) ELSE el[v]] ]

(* The highest first, since the vertices above one that is removed move down.*)
DigraphRemoveVertices(g, list) ==
  FoldLeft(DigraphRemoveVertex, g, SetToSortSeq(list, >))

DigraphAddEdge(g, e) ==
  LET h == [g EXCEPT !.out[e[1]] = Append(@, e[2])]
  IN  IF HaveEdgeLabelsBeenAssigned(h) /\ ~IsMultiDigraph(h.out)
      THEN SetDigraphEdgeLabel(h, e[1], e[2], DefaultEdgeLabel) ELSE h

DigraphRemoveEdge(g, e) ==
  LET pos == Position(g.out[e[1]], e[2])
  IN  IF pos = 0 THEN g
      ELSE RemoveDigraphEdgeLabel([g EXCEPT !.out[e[1]] = RemoveAt(@, pos)], e[1], pos)

(* Faulty variants, for testing the properties: the labels are kept although  *)
(* the edge comes to lie beside another; and its label stays where it was.   *)
DigraphReverseEdge_kept(g, u, v) ==
  LET pos == Position(g.out[u], v)
      h == [g EXCEPT !.out[u] = RemoveAt(@, pos), !.out[v] = Append(@, u)]
      label == IF /\ g.el # Unbound /\ u \in DOMAIN g.el
                  /\ pos \in DOMAIN g.el[u]
               THEN g.el[u][pos] ELSE NoLabel
  IN  IF u = v THEN g
      ELSE IF \E p \in DOMAIN g.out[v] : g.out[v][p] = u THEN h
      ELSE IF label = NoLabel THEN h
      ELSE RemoveDigraphEdgeLabel(SetDigraphEdgeLabel(h, v, u, label), u, pos)

DigraphReverseEdge_left(g, u, v) ==
  LET pos == Position(g.out[u], v)
      h == [g EXCEPT !.out[u] = RemoveAt(@, pos), !.out[v] = Append(@, u)]
      label == IF /\ g.el # Unbound /\ u \in DOMAIN g.el
                  /\ pos \in DOMAIN g.el[u]
               THEN g.el[u][pos] ELSE NoLabel
  IN  IF u = v THEN g
      ELSE IF \E p \in DOMAIN g.out[v] : g.out[v][p] = u THEN ClearDigraphEdgeLabels(h)
      ELSE IF label = NoLabel THEN h
      ELSE SetDigraphEdgeLabel(h, v, u, label)

DigraphReverseEdge(g, u, v) ==
  LET pos == Position(g.out[u], v)
      h == [g EXCEPT !.out[u] = RemoveAt(@, pos), !.out[v] = Append(@, u)]
      label == IF /\ g.el # Unbound /\ u \in DOMAIN g.el
                  /\ pos \in DOMAIN g.el[u]
               THEN g.el[u][pos] ELSE NoLabel
  IN  IF u = v THEN g
      ELSE IF \E p \in DOMAIN g.out[v] : g.out[v][p] = u THEN ClearDigraphEdgeLabels(h)
      ELSE IF label = NoLabel THEN h
      ELSE RemoveDigraphEdgeLabel(SetDigraphEdgeLabel(h, v, u, label), u, pos)

InducedSubdigraph(g, list) ==
  IF list = << >> THEN [g EXCEPT !.out = << >>]
  ELSE LET h == DIGRAPHS_InitVertexLabels(DIGRAPHS_InitEdgeLabels(g))
           Lookup(w) == Position(list, w)
           Places(v) == { i \in DOMAIN h.out[v] : Lookup(h.out[v][i]) # 0 }
           out == [x \in DOMAIN list |->
                     LET next == EntriesAt(h.out[list[x]], Places(list[x]))
                     IN  [p \in DOMAIN next |-> Lookup(next[p])]]
           el == [x \in DOMAIN list |-> EntriesAt(h.el[list[x]], Places(list[x]))]
       IN  SetDigraphEdgeLabelsNC([h EXCEPT !.out = out,
                                            !.vl = [x \in DOMAIN list |-> h.vl[list[x]]]], el)

(* The labels are removed from the copy that DigraphEdgeLabelsNC returns.    *)
DigraphRemoveLoops(g) ==
  LET h == DIGRAPHS_InitEdgeLabels(g) IN [h EXCEPT !.out = WithoutLoops(@)]

DigraphRemoveAllMultipleEdges(g) ==
  DIGRAPHS_InitVertexLabels(
    [g EXCEPT !.out = [u \in DOMAIN @ |->
       EntriesAt(@[u], { p \in DOMAIN @[u] : Position(@[u], @[u][p]) = p })]])

InNeighbours(g, v) ==
  FlattenSeq([u \in DOMAIN g.out |-> [p \in DOMAIN SelectSeq(g.out[u], LAMBDA w : w = v) |-> u]])

EdgesFromTo(g, u, v) == { p \in DOMAIN g.out[u] : g.out[u][p] = v }
IsSymmetricDigraph(g) ==
  \A u, v \in DOMAIN g.out : Cardinality(EdgesFromTo(g, u, v)) = Cardinality(EdgesFromTo(g, v, u))

DigraphReverse(g) ==
  IF IsSymmetricDigraph(g) THEN g
  ELSE ClearDigraphEdgeLabels([g EXCEPT !.out = [v \in DOMAIN @ |-> InNeighbours(g, v)]])

DigraphMutableCopy(g) ==
  LET h == [ out |-> g.out, vl |-> DIGRAPHS_InitVertexLabels(g).vl, el |-> Unbound ]
  IN  IF HaveEdgeLabelsBeenAssigned(g) THEN SetDigraphEdgeLabelsNC(h, g.el) ELSE h

------------------------------------------------------------------------------
(* Contracting (u, v).  An edge at the new vertex w is added for each edge   *)
(* that there was at u or at v, one by one, and given its label; if it comes *)
(* to lie beside another, that ends in an error with the work half done.     *)
Carry(g, old, new) ==
  LET label == DigraphEdgeLabel(g, old[1], old[2])
      h == DigraphAddEdge(DIGRAPHS_InitEdgeLabels(g), new)
  IN  IF IsMultiDigraph(g.out) THEN g                  \* the error has happened
      ELSE IF IsMultiDigraph(h.out) THEN h             \* it does now
      ELSE SetDigraphEdgeLabel(h, new[1], new[2], label)

(* A loop at w for those at u and v.                                         *)
AddLoop(g, u, v, w) ==
  LET h == DigraphAddEdge(g, << w, w >>)
      LoopLabel(x) == DigraphEdgeLabel(h, x, x)
      WithLabel(label) == SetDigraphEdgeLabel(h, w, w, label)
  IN  IF IsDigraphEdge(g, u, u) /\ IsDigraphEdge(g, v, v)
      THEN WithLabel(LoopLabel(u) \o LoopLabel(w))
      ELSE IF IsDigraphEdge(g, u, u) THEN WithLabel(LoopLabel(u))
      ELSE IF IsDigraphEdge(g, v, v) THEN WithLabel(LoopLabel(v))
      ELSE g

DigraphContractEdge(g, u, v) ==
  LET cut == DigraphRemoveEdge(IF IsDigraphEdge(g, v, u)
                               THEN DigraphRemoveEdge(g, << v, u >>) ELSE g, << u, v >>)
      named == DIGRAPHS_InitVertexLabels(cut)
      w == Len(g.out) + 1
      looped == AddLoop(DigraphAddVertex(named, named.vl[u] \o named.vl[v]), u, v, w)
      Into(x) == LET nbs == InNeighbours(cut, x)
                 IN  [i \in DOMAIN nbs |-> << << nbs[i], x >>, << nbs[i], w >> >>]
      OutOf(x) == LET nbs == cut.out[x]
                  IN  [i \in DOMAIN nbs |-> << << x, nbs[i] >>, << w, nbs[i] >> >>]
      carried == FoldLeft(LAMBDA h, m : Carry(h, m[1], m[2]), looped,
                          Into(u) \o Into(v) \o OutOf(u) \o OutOf(v))
  IN  IF IsMultiDigraph(carried.out) THEN carried ELSE DigraphRemoveVertices(carried, {u, v})

------------------------------------------------------------------------------
(* What a careful caller sees to, for each operation that does not.          *)
Labelled == HaveEdgeLabelsBeenAssigned(d)

NotBesideAnother(u, v) == ~IsDigraphEdge(d, u, v) \/ ~Labelled
HasLoops == \E v \in DigraphVertices : IsDigraphEdge(d, v, v)
Shared(u, v) ==
  \E x \in DigraphVertices \ {u, v} :
    \/ IsDigraphEdge(d, x, u) /\ IsDigraphEdge(d, x, v)
    \/ IsDigraphEdge(d, u, x) /\ IsDigraphEdge(d, v, x)
OneLoop(u, v) == ~(IsDigraphEdge(d, u, u) /\ IsDigraphEdge(d, v, v))

(* No entry that belongs to an edge is missing: reading one is an error of   *)
(* the GAP kernel, and what is left behind then is not followed.             *)
NoneMissing ==
  Labelled => \A v \in DigraphVertices : \A p \in DOMAIN d.out[v] :
                v \in DOMAIN d.el /\ p \in DOMAIN d.el[v] /\ d.el[v][p] # NoLabel

Call(what, result) ==
  /\ calls < MaxCalls
  /\ calls' = calls + 1
  /\ called' = what
  /\ d' = result

AddVertex ==
  \E label \in VertexLabels \cup { DefaultVertexLabel(Len(d.out) + 1) } :
    /\ Len(d.out) < MaxVertices
    /\ Call(<< "AddVertex", label >>, DigraphAddVertex(d, label))

RemoveVertices ==
  \E S \in SUBSET DigraphVertices :
    Call(<< "RemoveVertices", S >>, DigraphRemoveVertices(d, S))

AddEdge ==
  \E e \in Pairs :
    /\ Careful => NotBesideAnother(e[1], e[2])
    /\ Call(<< "AddEdge", e[1], e[2] >>, DigraphAddEdge(d, e))

RemoveEdge ==
  \E e \in Pairs :
    /\ ~IsMultiDigraph(d.out)
    /\ Call(<< "RemoveEdge", e[1], e[2] >>, DigraphRemoveEdge(d, e))

ReverseEdge ==
  \E e \in Pairs :
    /\ LabelsAllowed(d, e[1], e[2])
    /\ Call(<< "ReverseEdge", e[1], e[2] >>, DigraphReverseEdge(d, e[1], e[2]))

ContractEdge ==
  \E e \in Pairs :
    /\ LabelsAllowed(d, e[1], e[2]) /\ e[1] # e[2]
    /\ NoneMissing
    /\ Careful => ~Shared(e[1], e[2]) /\ (OneLoop(e[1], e[2]) \/ ~Labelled)
    /\ Call(<< "ContractEdge", e[1], e[2] >>, DigraphContractEdge(d, e[1], e[2]))

Lists == { s \in UNION { [1 .. n -> DigraphVertices] : n \in 0 .. Len(d.out) } : IsInjective(s) }

Induce ==
  \E list \in Lists :
    /\ NoneMissing
    /\ Careful => list # << >> /\ ~IsMultiDigraph(InducedSubdigraph(d, list).out)
    /\ Call(<< "InducedSubdigraph", list >>, InducedSubdigraph(d, list))

RemoveLoops ==
  /\ Careful => ~IsMultiDigraph(d.out) /\ (~HasLoops \/ ~Labelled)
  /\ Call(<< "RemoveLoops" >>, DigraphRemoveLoops(d))

RemoveAllMultipleEdges ==
  Call(<< "RemoveAllMultipleEdges" >>, DigraphRemoveAllMultipleEdges(d))

ReverseAll == Call(<< "Reverse" >>, DigraphReverse(d))

SetVertexLabel ==
  \E v \in DigraphVertices, label \in VertexLabels :
    Call(<< "SetVertexLabel", v, label >>, SetDigraphVertexLabel(d, v, label))

SetEdgeLabel ==
  \E e \in Pairs, label \in EdgeLabels :
    /\ LabelsAllowed(d, e[1], e[2])
    /\ Call(<< "SetEdgeLabel", e[1], e[2], label >>, SetDigraphEdgeLabel(d, e[1], e[2], label))

SetEdgeLabels ==
  \E f \in EdgeLabellings :
    /\ ~IsMultiDigraph(d.out)
    /\ Call(<< "SetEdgeLabels", f >>, SetDigraphEdgeLabels(d, f))

ClearVertexLabels == Call(<< "ClearVertexLabels" >>, ClearDigraphVertexLabels(d))
ClearEdgeLabels == Call(<< "ClearEdgeLabels" >>, ClearDigraphEdgeLabels(d))

(* DigraphEdgeLabels and DigraphVertexLabels make what they are to return.   *)
Look ==
  \/ ~IsMultiDigraph(d.out) /\ Call(<< "Look" >>, DIGRAPHS_InitEdgeLabels(d))
  \/ Call(<< "Look" >>, DIGRAPHS_InitVertexLabels(d))
  \/ Call(<< "Look" >>, DigraphMutableCopy(d))

(* As it is made, or labelled on a fresh one.                                *)
Made == [ out : Digraphs, vl : { Unbound }, el : { Unbound } ]
MadeWithLabels ==
  { SetDigraphEdgeLabels(g, f) : g \in { m \in Made : ~IsMultiDigraph(m.out) }, f \in EdgeLabellings }

Init ==
  /\ d \in Made \cup MadeWithLabels
  /\ called = << "Digraph" >>
  /\ calls = 0

Next ==
  \/ AddVertex \/ RemoveVertices \/ AddEdge \/ RemoveEdge \/ ReverseEdge
  \/ ContractEdge \/ Induce \/ RemoveLoops \/ RemoveAllMultipleEdges \/ ReverseAll
  \/ SetVertexLabel \/ SetEdgeLabel \/ SetEdgeLabels
  \/ ClearVertexLabels \/ ClearEdgeLabels \/ Look

Spec == Init /\ [][Next]_vars

------------------------------------------------------------------------------
(* The lists of labels lie beside those of the edges: only a digraph without *)
(* multiple edges has them, there is one for every vertex, and it reaches as *)
(* far as the out-neighbours do without a gap.                               *)
LabelsFit ==
  Labelled =>
    /\ ~IsMultiDigraph(d.out)
    /\ Len(d.el) = Len(d.out)
    /\ NoneMissing

(* Seen from outside, the digraph is one whose edges and vertices carry their*)
(* labels, through all renumbering, reversing and contracting.               *)
Multiplicity == [p \in Pairs |-> Cardinality(EdgesFromTo(d, p[1], p[2]))]

Carried ==
  INSTANCE LabelledDigraph WITH
    vlabel <- DIGRAPHS_InitVertexLabels(d).vl,
    mult <- Multiplicity,
    elabel <- [p \in Pairs |-> IF Multiplicity[p] = 0 \/ IsMultiDigraph(d.out) THEN DefaultEdgeLabel
                               ELSE DigraphEdgeLabel(d, p[1], p[2])]

LabelsKept == Carried!Spec

(* What the manual says of reading a label: in a digraph without multiple    *)
(* edges every edge has one, whatever the digraph has been through: edges    *)
(* added beside others (DigraphAddEdge, DigraphContractEdge) and multiple    *)
(* edges removed again (DigraphRemoveAllMultipleEdges).                      *)
EveryEdgeHasALabel == ~IsMultiDigraph(d.out) => NoneMissing

(* Removing the loops leaves every other edge its label.                     *)
LoopsTakeTheirLabels ==
  [][ called' = << "RemoveLoops" >> /\ ~IsMultiDigraph(d.out) =>
        \A p \in Pairs : p[1] # p[2] /\ IsDigraphEdge(d, p[1], p[2]) =>
          DigraphEdgeLabel(d, p[1], p[2])' = DigraphEdgeLabel(d, p[1], p[2]) ]_vars
==============================================================================
