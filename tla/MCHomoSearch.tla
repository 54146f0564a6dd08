----------------------------- MODULE MCHomoSearch -----------------------------
(* The searches on small digraphs: every kind of map, and the optional       *)
(* arguments one or two at a time.                                           *)
EXTENDS HomoSearch

Digraph(n, E) == [n |-> n, edges |-> E]

(* The symmetric closure of E.                                               *)
Sym(n, E) == Digraph(n, E \cup { << e[2], e[1] >> : e \in E })

Plain(D1, D2, inj) ==
  [ digraph1 |-> D1, digraph2 |-> D2, injective |-> inj,
    max_results |-> 99, hint |-> UNDEFINED, image |-> Vertices(D2),
    partial_map |-> << >>, colors1 |-> << >>, colors2 |-> << >>,
    order |-> Identity(D1.n), aut_grp |-> {} ]

Path3 == Sym(3, { << 0, 1 >>, << 1, 2 >> })
Complete3 == Sym(3, { << 0, 1 >>, << 1, 2 >>, << 0, 2 >> })
Edge2 == Sym(2, { << 0, 1 >> })
Null2 == Digraph(2, {})
LoopedEdge == Sym(2, { << 0, 1 >>, << 1, 1 >> })
LoopedPath == Sym(3, { << 0, 1 >>, << 1, 2 >>, << 2, 2 >> })
Cycle3 == Digraph(3, { << 0, 1 >>, << 1, 2 >>, << 2, 0 >> })
Chain3 == Digraph(3, { << 0, 1 >>, << 1, 2 >> })
Mixed3 == Digraph(3, { << 0, 1 >>, << 1, 0 >>, << 0, 2 >>, << 1, 2 >> })
LoopedMixed == Digraph(3, { << 0, 1 >>, << 1, 0 >>, << 0, 2 >>, << 2, 2 >> })
Cycle4 == Sym(4, { << 0, 1 >>, << 1, 2 >>, << 2, 3 >>, << 3, 0 >> })
Star4 == Sym(4, { << 0, 3 >>, << 1, 3 >>, << 2, 3 >> })
Directed4 == Digraph(4, { << 0, 1 >>, << 1, 2 >>, << 2, 3 >>, << 3, 0 >>, << 0, 2 >> })

Pairs == { << Path3, Complete3 >>, << Path3, Path3 >>, << Null2, Path3 >>,
           << Edge2, LoopedPath >>, << LoopedEdge, LoopedPath >>,
           << Chain3, Mixed3 >>, << Cycle3, Cycle3 >>, << Null2, Chain3 >>,
           << Edge2, Mixed3 >>, << Chain3, LoopedMixed >>,
           << Mixed3, LoopedMixed >>, << LoopedEdge, LoopedMixed >>,
           << Complete3, Edge2 >>, << Cycle4, Cycle4 >>, << Path3, Star4 >>,
           << Chain3, Directed4 >>, << Null2, Directed4 >> }

(* One optional argument, or a few that depend on each other.               *)
Options(a) ==
  LET m1 == a.digraph1.n
      m2 == a.digraph2.n
      Reverse1 == [v \in 0 .. m1 - 1 |-> m1 - 1 - v]
      Last2 == {m2 - 2, m2 - 1}
      Parity(n) == [v \in 0 .. n - 1 |-> v % 2]
  IN  { a,
        [a EXCEPT !.max_results = 1],
        [a EXCEPT !.hint = 2],
        [a EXCEPT !.image = Last2, !.aut_grp = {Identity(m2)}],
        [a EXCEPT !.image = Last2],
        [a EXCEPT !.aut_grp = {Identity(m2)}],
        [a EXCEPT !.aut_grp = Stabiliser(Automorphisms(a.digraph2, a.colors2), 0)],
        [a EXCEPT !.colors1 = Parity(m1), !.colors2 = Parity(m2)],
        [a EXCEPT !.order = Reverse1],
        [a EXCEPT !.order = Reverse1, !.partial_map = [v \in {0} |-> m2 - 1],
                  !.image = Last2],
        [a EXCEPT !.partial_map = [v \in {1} |-> 1]],
        [a EXCEPT !.partial_map = [v \in 0 .. 1 |-> v]],
        [a EXCEPT !.partial_map = [v \in 0 .. 1 |-> 1], !.hint = 2],
        [a EXCEPT !.partial_map = [v \in 0 .. m1 - 1 |-> v % m2], !.max_results = 1] }

(* The arguments pass the checks of FuncHomomorphismDigraphsFinder: the      *)
(* partial map goes to the image, the group keeps digraph2 and its colours.  *)
(* The values of the partial map have the loops and the colours their        *)
(* vertices need, and an embedding sends no vertex without a loop to one     *)
(* with a loop.  An injective search is given no image that it would wrongly *)
(* refuse as too small.                                                      *)
Regular(a) ==
  /\ Range(a.partial_map) \subseteq a.image
  /\ a.aut_grp \subseteq Automorphisms(a.digraph2, a.colors2)
  /\ \A v \in DOMAIN a.partial_map :
       a.partial_map[v] \in BaseRow(a)[InverseOrder(a)[v]]
  /\ a.injective = 2 =>
       Loops(a.digraph2) = {} \/ Loops(a.digraph1) = Vertices(a.digraph1)
  /\ a.injective > 0 => (ImageTooSmall(a) => Cardinality(a.image) < a.digraph1.n)

(* Every digraph on 2 vertices to every digraph without loops on 3.          *)
AllSmall ==
  { Plain(Digraph(2, E1), Digraph(3, E2), inj) :
      E1 \in SUBSET ((0 .. 1) \X (0 .. 1)),
      E2 \in SUBSET { e \in (0 .. 2) \X (0 .. 2) : e[1] # e[2] }, inj \in 0 .. 2 }

PlainArguments == { Plain(p[1], p[2], inj) : p \in Pairs, inj \in 0 .. 2 }

MCArguments ==
  AllSmall \cup
  { a \in UNION { Options(b) : b \in UNION { Options(c) : c \in PlainArguments } } :
      Regular(a) }

(* The second call is one of these, and the hook only stops the first one.   *)
SecondArguments ==
  { Plain(Path3, Complete3, 0), Plain(LoopedEdge, LoopedPath, 1), Plain(Chain3, Mixed3, 2) }

MCNext ==
  \/ \E a \in IF calls = 0 THEN Arguments ELSE SecondArguments : Call(a)
  \/ Run

MCSpec == Init /\ [][MCNext]_vars /\ WF_vars(Run)

(* Fewer arguments, for the properties that take longer to check: every      *)
(* kind of search, with and without a partial map.                           *)
FewArguments ==
  { a \in UNION { {p, [p EXCEPT !.partial_map = [v \in 0 .. 1 |-> v]],
                   [p EXCEPT !.image = {1}, !.hint = 1]} :
                    p \in { q \in PlainArguments : q.digraph1 \in {Path3, LoopedEdge, Chain3} } } :
      Regular(a) }

------------------------------------------------------------------------------
(* What Regular leaves out.                                                  *)

(* An embedding with a partial map.  Its looped vertex is mapped to one      *)
(* without a loop, and the other vertex, which has none, to one with a loop. *)
LoopsExchanged ==
  { [Plain(Digraph(2, { << 0, 0 >> }), Digraph(2, { << 0, 0 >> }), 2)
       EXCEPT !.partial_map = [v \in {0} |-> 1]] }

(* Two vertices and an image of two, in the second block of vertices: there  *)
(* are maps, and the call is refused as if the image were too small.         *)
ImageInSecondBlock ==
  { [Plain(Null2, Digraph(4, {}), 1) EXCEPT !.image = {2, 3}, !.aut_grp = {Identity(4)}] }

ASSUME ImageMiscounted ==
  \A a \in ImageInSecondBlock : ImageTooSmall(a) /\ WantedMaps(a) # {}
==============================================================================
