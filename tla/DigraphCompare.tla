---------------------------- MODULE DigraphCompare ----------------------------
(***************************************************************************)
(* FuncDIGRAPH_EQUALS and FuncDIGRAPH_LT compare the lists of each vertex as *)
(* multisets.  They count in a buffer with a place for every vertex, which is*)
(* used for all the lists without being cleared in between.                  *)
(***************************************************************************)
EXTENDS KernelCalls

Other == call.other                                        \* the second digraph

CompareLocals == [ i |-> 1, buf |-> [v \in V |-> 0] ]

Counted(s, x, n) == Cardinality({ q \in 1 .. n : s[q] = x })

(* A faulty variant, for testing the properties: as many places of either    *)
(* list as the shorter one has.                                              *)
CountedUpAndDown_in_step(buf, l, nr1, r, nr2) ==
  LET nr == IF nr1 < nr2 THEN nr1 ELSE nr2
  IN  [x \in V |-> buf[x] + Counted(l, x, nr) - Counted(r, x, nr)]

(* What is left in the buffer when the first nr1 places of l are counted up  *)
(* and the first nr2 of r down.                                              *)
CountedUpAndDown(buf, l, nr1, r, nr2) ==
  [x \in V |-> buf[x] + Counted(l, x, nr1) - Counted(r, x, nr2)]

SameList(l, r, nr) == \A q \in 1 .. nr : l[q] = r[q]

TotalEdges(adj) == Cardinality(UNION { {v} \X (1 .. Len(adj[v])) : v \in Vertices(adj) })

------------------------------------------------------------------------------
(* EqJumbledPlists: only the places of l's entries are looked at afterwards. *)
EqJumbledPlists(l, r, nr, buf) ==
  IF SameList(l, r, nr) THEN [ equal |-> TRUE, buf |-> buf ]
  ELSE LET b == CountedUpAndDown(buf, l, nr, r, nr)
       IN  [ equal |-> \A q \in 1 .. nr : b[l[q]] = 0, buf |-> b ]

EQUALS ==
  /\ Running("EQUALS")
  /\ IF N # Len(Other) \/ TotalEdges(D) # TotalEdges(Other) THEN Answer(FALSE)
     ELSE IF loc.i > N THEN Answer(TRUE)
     ELSE LET a == D[loc.i]
              b == Other[loc.i]
              result == EqJumbledPlists(a, b, Len(a), loc.buf)
          IN  IF Len(a) # Len(b) \/ ~result.equal THEN Answer(FALSE)
              ELSE Continue([loc EXCEPT !.i = @ + 1, !.buf = result.buf])

------------------------------------------------------------------------------
(* LTJumbledPlists: 0 for equal multisets; otherwise the least vertex that   *)
(* one list has more often decides, 1 if it is l and 2 if it is r.           *)
LTJumbledPlists(l, r, nr1, nr2, buf) ==
  IF nr1 = nr2 /\ SameList(l, r, nr1) THEN [ comp |-> 0, buf |-> buf ]
  ELSE LET b == CountedUpAndDown(buf, l, nr1, r, nr2)
           differ == { x \in V : b[x] # 0 }
           first == CHOOSE x \in differ : \A y \in differ : x <= y
       IN  [ comp |-> IF differ = {} THEN 0 ELSE IF b[first] < 0 THEN 2 ELSE 1, buf |-> b ]

LT ==
  /\ Running("LT")
  /\ IF N # Len(Other) THEN Answer(N < Len(Other))
     ELSE IF TotalEdges(D) # TotalEdges(Other) THEN Answer(TotalEdges(D) < TotalEdges(Other))
     ELSE IF loc.i > N THEN Answer(FALSE)
     ELSE LET a == D[loc.i]
              b == Other[loc.i]
              result == LTJumbledPlists(a, b, Len(a), Len(b), loc.buf)
          IN  IF a = << >> /\ b = << >> THEN Continue([loc EXCEPT !.i = @ + 1])
              ELSE IF a = << >> THEN Answer(FALSE)
              ELSE IF b = << >> THEN Answer(TRUE)
              ELSE IF result.comp # 0 THEN Answer(result.comp = 1)
              ELSE Continue([loc EXCEPT !.i = @ + 1, !.buf = result.buf])

------------------------------------------------------------------------------
(* The edges in lexicographical order, (v, w) as the number (v - 1) * n + w. *)
EdgesInOrder(adj) ==
  LET n == Len(adj)
      edges == UNION { {v} \X (1 .. Len(adj[v])) : v \in Vertices(adj) }
      Upto(x) == Cardinality({ e \in edges : (e[1] - 1) * n + adj[e[1]][e[2]] <= x })
  IN  [q \in 1 .. Cardinality(edges) |->
         CHOOSE x \in 1 .. n * n : Upto(x) >= q /\ \A y \in 1 .. x - 1 : Upto(y) < q]

(* The order that the manual gives: the number of vertices, the number of    *)
(* edges, the edges.                                                         *)
LessThan ==
  LET s == EdgesInOrder(D)
      t == EdgesInOrder(Other)
  IN  \/ N < Len(Other)
      \/ N = Len(Other) /\ Len(s) < Len(t)
      \/ /\ N = Len(Other) /\ Len(s) = Len(t)
         /\ \E q \in 1 .. Len(s) : s[q] < t[q] /\ \A p \in 1 .. q - 1 : s[p] = t[p]

(* Two digraphs are equal if they have the same edges, and one is less than  *)
(* another in the order of the manual, in whatever order their lists hold the*)
(* edges; and the buffer is all zero again between two vertices, or what one *)
(* leaves would be counted for the next.                                     *)
ComparesRight ==
  /\ Answered("EQUALS") =>
       Result = (N = Len(Other) /\ EdgesInOrder(D) = EdgesInOrder(Other))
  /\ Answered("LT") => Result = LessThan
  /\ call.fn \in { "EQUALS", "LT" } => \A v \in V : loc.buf[v] = 0
==============================================================================
