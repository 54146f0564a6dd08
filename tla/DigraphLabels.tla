----------------------------- MODULE DigraphLabels -----------------------------
(***************************************************************************)
(* The components of a digraph object that its labels are kept in, and the   *)
(* operations of labels.gi on them.  A digraph is a record of its lists of   *)
(* out-neighbours, out, and of two components that are made when they are    *)
(* first needed: vl, a label for every vertex, and el, for every vertex a    *)
(* list of labels beside the list of its out-neighbours.  Nothing but its    *)
(* place in the list ties a label to its edge.                               *)
(*                                                                         *)
(* A label is the sequence of the objects it was combined from, so that the  *)
(* list of two labels is their concatenation; the label of an entry that is  *)
(* not bound is NoLabel.                                                     *)
(***************************************************************************)
EXTENDS DigraphLists, SequencesExt

CONSTANT Unbound                    \* in place of vl or el

NoLabel == << >>
Label(x) == << x >>
DefaultEdgeLabel == Label(1)
DefaultVertexLabel(v) == Label(v)

(* GAP's Position, 0 for fail, and Remove, which leaves alone a list that    *)
(* does not reach so far; an assignment may leave places before it unbound.  *)
Position(list, x) == SelectInSeq(list, LAMBDA y : y = x)
RemoveEntry(list, pos) == IF pos <= Len(list) THEN RemoveAt(list, pos) ELSE list
AssignEntry(list, pos, x) ==
  [p \in 1 .. (IF pos > Len(list) THEN pos ELSE Len(list)) |->
     IF p = pos THEN x ELSE IF p <= Len(list) THEN list[p] ELSE NoLabel]

(* The entries of a list at the positions in S.                              *)
EntriesAt(list, S) ==
  LET at == SelectSeq([p \in 1 .. Len(list) |-> p], LAMBDA p : p \in S)
  IN  [q \in DOMAIN at |-> list[at[q]]]

IsDigraphEdge(d, u, v) == Adjacent(d.out, u, v)
InitialEdgeLabels(nbs) == [p \in 1 .. Len(nbs) |-> DefaultEdgeLabel]

DIGRAPHS_InitEdgeLabels(d) ==
  IF d.el # Unbound THEN d
  ELSE [d EXCEPT !.el = [v \in Vertices(d.out) |-> InitialEdgeLabels(d.out[v])]]

DIGRAPHS_InitVertexLabels(d) ==
  IF d.vl # Unbound THEN d
  ELSE [d EXCEPT !.vl = [v \in Vertices(d.out) |-> DefaultVertexLabel(v)]]

SetDigraphVertexLabel(d, v, label) ==
  LET e == DIGRAPHS_InitVertexLabels(d) IN [e EXCEPT !.vl = AssignEntry(@, v, label)]

RemoveDigraphVertexLabel(d, v) ==
  LET e == DIGRAPHS_InitVertexLabels(d) IN [e EXCEPT !.vl = RemoveEntry(@, v)]

ClearDigraphVertexLabels(d) == [d EXCEPT !.vl = Unbound]
ClearDigraphEdgeLabels(d) == [d EXCEPT !.el = Unbound]
HaveEdgeLabelsBeenAssigned(d) == d.el # Unbound

(* Both end in an error if d is a multidigraph or (v, w) no edge of it.      *)
LabelsAllowed(d, v, w) == ~IsMultiDigraph(d.out) /\ IsDigraphEdge(d, v, w)

SetDigraphEdgeLabel(d, v, w, label) ==
  LET e == DIGRAPHS_InitEdgeLabels(d)
      list == IF v \in DOMAIN e.el THEN e.el[v] ELSE InitialEdgeLabels(d.out[v])
  IN  [e EXCEPT !.el = AssignEntry(@, v, AssignEntry(list, Position(d.out[v], w), label))]

DigraphEdgeLabel(d, v, w) ==
  LET list == DIGRAPHS_InitEdgeLabels(d).el[v]
      p == Position(d.out[v], w)
  IN  IF p <= Len(list) THEN list[p] ELSE NoLabel

(* With the labels that a function gives the pairs of vertices.              *)
SetDigraphEdgeLabels(d, f) ==
  LET e == DIGRAPHS_InitEdgeLabels(d)
  IN  [e EXCEPT !.el = [v \in DOMAIN @ |->
         IF v \notin Vertices(d.out) THEN @[v]
         ELSE [p \in 1 .. (IF Len(d.out[v]) > Len(@[v]) THEN Len(d.out[v]) ELSE Len(@[v])) |->
                 IF p <= Len(d.out[v]) THEN f[<< v, d.out[v][p] >>] ELSE @[v][p]]]]

SetDigraphEdgeLabelsNC(d, labels) ==
  IF IsMultiDigraph(d.out) THEN d ELSE [d EXCEPT !.el = labels]

RemoveDigraphEdgeLabel(d, v, pos) ==
  IF d.el # Unbound /\ v \in DOMAIN d.el
  THEN [d EXCEPT !.el[v] = RemoveEntry(@, pos)] ELSE d
==============================================================================
