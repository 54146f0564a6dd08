---------------------------- MODULE ComponentsProofs ---------------------------
(***************************************************************************)
(* DIGRAPH_CONNECTED_COMPONENTS and DIGRAPH_STRONGLY_CONNECTED_COMPONENTS    *)
(* are right for every digraph.                                              *)
(*                                                                         *)
(* For the first there is no talk of walks.  A numbering c of the vertices   *)
(* respects the array id if it gives every vertex the number of the one it   *)
(* points to, and respects the edges taken so far if it gives both ends of   *)
(* each the same.  The array is right when these are the same numberings;    *)
(* combining two classes adds one equation to either side.  As no vertex     *)
(* points above itself, the numbers given at the end respect the array, and  *)
(* no numbering that respects it tells apart what they do not.               *)
(***************************************************************************)
EXTENDS WalkProofs, SequenceTheorems

UF == "CONNECTED_COMPONENTS"

Taken(v, e) ==
  \/ loc.stage \in { "number", "name" }
  \/ v < loc.i
  \/ v = loc.i /\ e < loc.e

RespectsTaken(c) == \A v \in V : \A e \in 1 .. Len(D[v]) : Taken(v, e) => c[v] = c[D[v][e]]
RespectsId(c) == \A v \in V : c[v] = c[loc.id[v]]

UFLocType ==
  [ stage : { "edges", "find", "number", "name" }, id : [V -> V],
    i : 1 .. N + 1, e : Nat \ {0}, x : 0 .. N, y : 0 .. N,
    nid : [V -> Nat], nrcomps : Nat ]

UFTypeOK ==
  /\ loc \in UFLocType
  /\ \A v \in V : loc.id[v] <= v
  /\ loc.stage = "find" =>
       /\ loc.i \in V /\ loc.x \in V /\ loc.y \in V
       /\ loc.e \in 1 .. Len(D[loc.i])
  /\ loc.stage = "name" => loc.i \in V /\ loc.x \in 1 .. loc.i

(* The two sorts of respect are the same, and UF_FIND stays in the class.    *)
ArrayRight ==
  \A c \in [V -> V] :
    /\ RespectsId(c) <=> RespectsTaken(c)
    /\ RespectsId(c) /\ loc.stage = "find" => c[loc.x] = c[loc.i] /\ c[loc.y] = c[D[loc.i][loc.e]]
    /\ RespectsId(c) /\ loc.stage = "name" => c[loc.x] = c[loc.i]

Numbering == loc.stage \in { "number", "name" }

NumbersRight ==
  IF ~Numbering THEN loc.nrcomps = 0
  ELSE /\ loc.nrcomps < loc.i
       /\ \A v \in 1 .. loc.i - 1 : loc.nid[v] \in 1 .. loc.nrcomps
       /\ \A v \in 1 .. loc.i - 1 : loc.nid[v] = loc.nid[loc.id[v]]
       /\ loc.stage = "name" => loc.x = loc.i \/ loc.nid[loc.id[loc.i]] = loc.nid[loc.x]
       /\ \A c \in [V -> V] : RespectsId(c) =>
            \A u, v \in 1 .. loc.i - 1 : loc.nid[u] = loc.nid[v] => c[u] = c[v]

UFInv ==
  /\ call \in Calls
  /\ call.fn = UF =>
       /\ UFTypeOK
       /\ ArrayRight
       /\ NumbersRight
       /\ answer # << >> =>
            /\ loc.stage = "number" /\ loc.i = N + 1
            /\ Result.id = loc.nid

------------------------------------------------------------------------------
(* The numbers make the answer right when every vertex has one.              *)
LEMMA NumbersGiveComponents ==
  ASSUME UFInv
  PROVE  ComponentsRight
<1> SUFFICES ASSUME call.fn = UF, answer # << >>
             PROVE  ComponentsRight
  BY DEF ComponentsRight, Answered, UF
<1>1. /\ N \in Nat /\ V = 1 .. N
      /\ \A v \in V : \A e \in 1 .. Len(D[v]) : D[v][e] \in V
  BY DigraphFacts DEF UFInv
<1>2. /\ UFTypeOK /\ ArrayRight /\ NumbersRight
      /\ loc.stage = "number" /\ loc.i = N + 1
      /\ Result.id = loc.nid
  BY DEF UFInv
<1>3. Result.id = loc.nid
  BY <1>2
<1>4. /\ loc.nrcomps \in Nat /\ loc.nrcomps <= N
      /\ \A v \in V : loc.nid[v] \in 1 .. loc.nrcomps
      /\ \A v \in V : loc.nid[v] = loc.nid[loc.id[v]]
  BY <1>1, <1>2 DEF NumbersRight, Numbering, UFTypeOK, UFLocType
<1>5. loc.nid \in [V -> V]
  <2>1. loc.nid \in [V -> Nat]  BY <1>2 DEF UFTypeOK, UFLocType
  <2>2. \A v \in V : loc.nid[v] \in V  BY <1>1, <1>4
  <2> QED  BY <2>1, <2>2
<1>6. \A c \in [V -> V] :
        RespectsId(c) <=> \A v \in V : \A e \in 1 .. Len(D[v]) : c[v] = c[D[v][e]]
  BY <1>2 DEF ArrayRight, RespectsTaken, Taken
<1>7. \A v \in V : \A e \in 1 .. Len(D[v]) : loc.nid[v] = loc.nid[D[v][e]]
  BY <1>4, <1>5, <1>6 DEF RespectsId
<1>8. \A c \in [V -> V] : RespectsId(c) =>
        \A u, v \in V : loc.nid[u] = loc.nid[v] => c[u] = c[v]
  <2>1. 1 .. loc.i - 1 = V  BY <1>1, <1>2
  <2> QED  BY <1>2, <2>1, Zenon DEF NumbersRight, Numbering
<1> QED  BY <1>3, <1>6, <1>7, <1>8 DEF ComponentsRight

LEMMA UFInit == Init => UFInv
<1> SUFFICES ASSUME Init PROVE UFInv
  OBVIOUS
<1>0. call \in Calls /\ answer = << >>
  BY DEF Init
<1> SUFFICES ASSUME call.fn = UF PROVE UFTypeOK /\ ArrayRight /\ NumbersRight
  BY <1>0 DEF UFInv
<1>1. N \in Nat /\ V = 1 .. N
  BY <1>0, DigraphFacts
<1>2. loc = UnionFindLocals
  BY DEF Init, InitialLocals, UF, MatrixFunctions, Distances, Closures, Searches, Rooted,
         FromOne, LoopFunctions, Counts
<1>3. UFTypeOK
  <2>1. [v \in V |-> v] \in [V -> V] /\ [v \in V |-> 0] \in [V -> Nat]
    OBVIOUS
  <2>2. \A v \in V : loc.id[v] = v
    BY <1>2 DEF UnionFindLocals
  <2>3. \A v \in V : loc.id[v] <= v
    BY <1>1, <2>2
  <2> QED  BY <1>1, <1>2, <2>1, <2>3 DEF UFTypeOK, UFLocType, UnionFindLocals
<1>4. \A v \in V : \A e \in 1 .. Len(D[v]) : ~Taken(v, e)
  <2> SUFFICES ASSUME NEW v \in V, NEW e \in 1 .. Len(D[v]) PROVE ~Taken(v, e)
    OBVIOUS
  <2>1. Len(D[v]) \in Nat  BY <1>0, DigraphFacts
  <2> QED  BY <1>1, <1>2, <2>1 DEF Taken, UnionFindLocals
<1>5. ArrayRight
  BY <1>1, <1>2, <1>4 DEF ArrayRight, RespectsId, RespectsTaken, UnionFindLocals
<1>6. NumbersRight
  BY <1>2 DEF NumbersRight, Numbering, UnionFindLocals
<1> QED  BY <1>3, <1>5, <1>6

------------------------------------------------------------------------------
(* The steps.  Each keeps the digraph, and all but the last keep running.    *)
StepFacts ==
  /\ call' = call /\ call \in Calls /\ call.fn = UF
  /\ UFTypeOK /\ ArrayRight /\ NumbersRight
  /\ answer = << >>

LEMMA SameDigraph ==
  ASSUME call' = call
  PROVE  D' = D /\ V' = V /\ N' = N /\ UFLocType' = UFLocType
BY DEF D, V, N, UFLocType

LEMMA TakeEdgeStep ==
  ASSUME StepFacts, TakeEdge
  PROVE  UFTypeOK' /\ ArrayRight' /\ NumbersRight' /\ answer' = answer
<1>1. /\ N \in Nat /\ V = 1 .. N
      /\ \A v \in V : Len(D[v]) \in Nat
      /\ \A v \in V : \A e \in 1 .. Len(D[v]) : D[v][e] \in V
  BY DigraphFacts DEF StepFacts
<1>2. D' = D /\ V' = V /\ N' = N /\ UFLocType' = UFLocType
  BY SameDigraph DEF StepFacts
<1>3. UFTypeOK /\ ArrayRight /\ loc.stage = "edges" /\ loc.i \in V
  BY <1>1 DEF StepFacts, TakeEdge, InStage, UFTypeOK, UFLocType
<1>a. CASE loc.e <= Len(D[loc.i])
  <2>1. loc' = [loc EXCEPT !.stage = "find", !.x = loc.i, !.y = D[loc.i][loc.e]] /\ answer' = answer
    BY <1>1, <1>3, <1>a DEF TakeEdge, Continue, UFTypeOK, UFLocType
  <2>2. loc.e \in 1 .. Len(D[loc.i]) /\ D[loc.i][loc.e] \in V
    <3>0. loc.e \in Nat /\ loc.e >= 1
      BY <1>3 DEF UFTypeOK, UFLocType
    <3>1. loc.e \in Nat /\ loc.e >= 1 /\ Len(D[loc.i]) \in Nat
      BY <1>1, <1>3, <3>0
    <3>2. loc.e \in 1 .. Len(D[loc.i])
      BY <3>1, <1>a
    <3> QED  BY <1>1, <1>3, <3>2
  <2>3. /\ loc'.stage = "find" /\ loc'.x = loc.i /\ loc'.y = D[loc.i][loc.e]
        /\ loc'.id = loc.id /\ loc'.i = loc.i /\ loc'.e = loc.e /\ loc'.nrcomps = loc.nrcomps
    BY <1>3, <2>1 DEF UFTypeOK, UFLocType
  <2>4. UFTypeOK'
    <3>0. loc \in UFLocType /\ loc.i \in 0 .. N /\ D[loc.i][loc.e] \in 0 .. N
      BY <1>1, <1>3, <2>2 DEF UFTypeOK
    <3>1. loc' \in UFLocType
      BY <3>0, <2>1 DEF UFLocType
    <3> QED  BY <1>1, <1>2, <1>3, <2>2, <2>3, <3>1 DEF UFTypeOK
  <2>5. ArrayRight'
    BY <1>2, <1>3, <2>3 DEF ArrayRight, RespectsId, RespectsTaken, Taken
  <2> QED  BY <1>3, <2>1, <2>3, <2>4, <2>5 DEF StepFacts, NumbersRight, Numbering
<1>b. CASE loc.e > Len(D[loc.i])
  <2>1. loc' = [loc EXCEPT !.i = @ + 1, !.e = 1] /\ answer' = answer
    BY <1>1, <1>3, <1>b DEF TakeEdge, Continue, UFTypeOK, UFLocType
  <2>3. /\ loc'.stage = "edges"
        /\ loc'.id = loc.id /\ loc'.i = loc.i + 1 /\ loc'.e = 1 /\ loc'.nrcomps = loc.nrcomps
    BY <1>3, <2>1 DEF UFTypeOK, UFLocType
  <2>4. UFTypeOK'
    <3>0. loc \in UFLocType /\ loc.i + 1 \in 1 .. N + 1 /\ 1 \in Nat \ {0}
      BY <1>1, <1>3 DEF UFTypeOK
    <3>1. loc' \in UFLocType
      BY <3>0, <2>1 DEF UFLocType
    <3> QED  BY <1>1, <1>2, <1>3, <2>3, <3>1 DEF UFTypeOK
  <2>5. \A v \in V : \A e \in 1 .. Len(D[v]) : Taken(v, e)' <=> Taken(v, e)
    <3> SUFFICES ASSUME NEW v \in V, NEW e \in 1 .. Len(D[v]) PROVE Taken(v, e)' <=> Taken(v, e)
      OBVIOUS
    <3>1. /\ Len(D[v]) \in Nat /\ loc.i \in Nat /\ loc.e \in Nat /\ v \in Nat /\ e \in Nat
          /\ e >= 1 /\ e <= Len(D[v])
      <4>1. Len(D[v]) \in Nat  BY <1>1
      <4>2. loc.i \in Nat /\ loc.e \in Nat /\ v \in Nat  BY <1>1, <1>3 DEF UFTypeOK, UFLocType
      <4> QED  BY <4>1, <4>2
    <3>2. v = loc.i => e < loc.e
      BY <1>b, <3>1
    <3> QED  BY <1>3, <2>3, <3>1, <3>2 DEF Taken
  <2>6. ArrayRight'
    <3>1. \A c : RespectsTaken(c)' <=> RespectsTaken(c)
      BY <1>2, <2>5, Zenon DEF RespectsTaken
    <3>2. \A c : RespectsId(c)' <=> RespectsId(c)
      BY <1>2, <2>3 DEF RespectsId
    <3> QED  BY <1>2, <1>3, <2>3, <3>1, <3>2 DEF ArrayRight
  <2> QED  BY <1>3, <2>1, <2>3, <2>4, <2>6 DEF StepFacts, NumbersRight, Numbering
<1>c. Len(D[loc.i]) \in Nat /\ loc.e \in Nat
  BY <1>1, <1>3 DEF UFTypeOK, UFLocType
<1> QED  BY <1>a, <1>b, <1>c

LEMMA FindStep ==
  ASSUME StepFacts, UF_FIND
  PROVE  UFTypeOK' /\ ArrayRight' /\ NumbersRight' /\ answer' = answer
<1>1. /\ N \in Nat /\ V = 1 .. N
      /\ \A v \in V : \A e \in 1 .. Len(D[v]) : D[v][e] \in V
  BY DigraphFacts DEF StepFacts
<1>2. D' = D /\ V' = V /\ N' = N /\ UFLocType' = UFLocType
  BY SameDigraph DEF StepFacts
<1>3. UFTypeOK /\ ArrayRight /\ NumbersRight
  BY DEF StepFacts
<1>a. CASE loc.stage = "find" /\ loc' = [loc EXCEPT !.x = loc.id[@]] /\ answer' = answer
  <2>1. loc.x \in V /\ loc.id[loc.x] \in V
    BY <1>3, <1>a DEF UFTypeOK, UFLocType
  <2>2. /\ loc'.stage = "find" /\ loc'.x = loc.id[loc.x] /\ loc'.y = loc.y
        /\ loc'.id = loc.id /\ loc'.i = loc.i /\ loc'.e = loc.e /\ loc'.nrcomps = loc.nrcomps
    BY <1>3, <1>a DEF UFTypeOK, UFLocType
  <2>3. UFTypeOK'
    <3>0. loc \in UFLocType /\ loc.id[loc.x] \in 0 .. N
      BY <1>1, <1>3, <2>1 DEF UFTypeOK
    <3>1. loc' \in UFLocType
      BY <3>0, <1>a DEF UFLocType
    <3> QED  BY <1>1, <1>2, <1>3, <1>a, <2>1, <2>2, <3>1 DEF UFTypeOK
  <2>4. ArrayRight'
    BY <1>2, <1>3, <1>a, <2>1, <2>2 DEF ArrayRight, RespectsId, RespectsTaken, Taken
  <2> QED  BY <1>3, <1>a, <2>2, <2>3, <2>4 DEF NumbersRight, Numbering
<1>b. CASE loc.stage = "find" /\ loc' = [loc EXCEPT !.y = loc.id[@]] /\ answer' = answer
  <2>1. loc.y \in V /\ loc.id[loc.y] \in V
    BY <1>3, <1>b DEF UFTypeOK, UFLocType
  <2>2. /\ loc'.stage = "find" /\ loc'.y = loc.id[loc.y] /\ loc'.x = loc.x
        /\ loc'.id = loc.id /\ loc'.i = loc.i /\ loc'.e = loc.e /\ loc'.nrcomps = loc.nrcomps
    BY <1>3, <1>b DEF UFTypeOK, UFLocType
  <2>3. UFTypeOK'
    <3>0. loc \in UFLocType /\ loc.id[loc.y] \in 0 .. N
      BY <1>1, <1>3, <2>1 DEF UFTypeOK
    <3>1. loc' \in UFLocType
      BY <3>0, <1>b DEF UFLocType
    <3> QED  BY <1>1, <1>2, <1>3, <1>b, <2>1, <2>2, <3>1 DEF UFTypeOK
  <2>4. ArrayRight'
    BY <1>2, <1>3, <1>b, <2>1, <2>2 DEF ArrayRight, RespectsId, RespectsTaken, Taken
  <2> QED  BY <1>3, <1>b, <2>2, <2>3, <2>4 DEF NumbersRight, Numbering
<1>c. CASE loc.stage = "name" /\ loc' = [loc EXCEPT !.x = loc.id[@]] /\ answer' = answer
           /\ loc.id[loc.x] # loc.x
  <2>1. /\ loc.i \in V /\ loc.x \in 1 .. loc.i /\ loc.x \in V
        /\ loc.id[loc.x] \in V /\ loc.id[loc.x] <= loc.x
    BY <1>1, <1>3, <1>c DEF UFTypeOK, UFLocType
  <2>2. /\ loc'.stage = "name" /\ loc'.x = loc.id[loc.x]
        /\ loc'.id = loc.id /\ loc'.i = loc.i /\ loc'.e = loc.e /\ loc'.nrcomps = loc.nrcomps
        /\ loc'.nid = loc.nid
    BY <1>3, <1>c DEF UFTypeOK, UFLocType
  <2>3. loc.id[loc.x] \in 1 .. loc.i
    BY <1>1, <2>1
  <2>4. UFTypeOK'
    <3>0. loc \in UFLocType /\ loc.id[loc.x] \in 0 .. N
      BY <1>1, <1>3, <2>1 DEF UFTypeOK
    <3>1. loc' \in UFLocType
      BY <3>0, <1>c DEF UFLocType
    <3> QED  BY <1>1, <1>2, <1>3, <2>1, <2>2, <2>3, <3>1 DEF UFTypeOK
  <2>5. ArrayRight'
    BY <1>2, <1>3, <1>c, <2>1, <2>2 DEF ArrayRight, RespectsId, RespectsTaken, Taken
  <2>6. loc.x = loc.i \/ loc.x \in 1 .. loc.i - 1
    BY <1>1, <2>1
  <2>7. loc.nid[loc.id[loc.i]] = loc.nid[loc.id[loc.x]]
    BY <1>3, <1>c, <2>6 DEF NumbersRight, Numbering
  <2>8. NumbersRight'
    BY <1>2, <1>3, <1>c, <2>2, <2>7 DEF NumbersRight, Numbering, RespectsId
  <2> QED  BY <1>c, <2>4, <2>5, <2>8
<1> QED  BY <1>a, <1>b, <1>c DEF UF_FIND, InStage, Continue

LEMMA CombineStep ==
  ASSUME StepFacts, UF_COMBINE_CLASSES
  PROVE  UFTypeOK' /\ ArrayRight' /\ NumbersRight' /\ answer' = answer
<1>1. /\ N \in Nat /\ V = 1 .. N
      /\ \A v \in V : Len(D[v]) \in Nat
      /\ \A v \in V : \A e \in 1 .. Len(D[v]) : D[v][e] \in V
  BY DigraphFacts DEF StepFacts
<1>2. D' = D /\ V' = V /\ N' = N /\ UFLocType' = UFLocType
  BY SameDigraph DEF StepFacts
<1>3. /\ UFTypeOK /\ ArrayRight
      /\ loc.stage = "find" /\ loc.id[loc.x] = loc.x /\ loc.id[loc.y] = loc.y
      /\ loc' = [loc EXCEPT !.stage = "edges", !.e = @ + 1, !.id = Combined(loc)]
      /\ answer' = answer
  BY DEF StepFacts, UF_COMBINE_CLASSES, InStage, Continue
<1>4. /\ loc.i \in V /\ loc.x \in V /\ loc.y \in V
      /\ loc.e \in 1 .. Len(D[loc.i])
      /\ loc.id \in [V -> V]
  BY <1>3 DEF UFTypeOK, UFLocType
<1>5. /\ loc'.stage = "edges" /\ loc'.i = loc.i /\ loc'.e = loc.e + 1 /\ loc'.id = Combined(loc)
      /\ loc'.nrcomps = loc.nrcomps
  BY <1>3 DEF UFTypeOK, UFLocType
<1>6. /\ Combined(loc) \in [V -> V]
      /\ \A v \in V : Combined(loc)[v] <= v
  BY <1>1, <1>3, <1>4 DEF Combined, UFTypeOK, UFLocType
<1>7. UFTypeOK'
  <2>0. loc \in UFLocType /\ loc.e \in Nat \ {0}
    BY <1>3 DEF UFTypeOK, UFLocType
  <2>a. loc.e + 1 \in Nat \ {0}
    BY <2>0
  <2>1. loc' \in UFLocType
    BY <2>0, <2>a, <1>3, <1>6 DEF UFLocType
  <2> QED  BY <1>1, <1>2, <1>5, <1>6, <2>1 DEF UFTypeOK
<1>8. ASSUME NEW c \in [V -> V]
      PROVE  RespectsId(c)' <=> RespectsId(c) /\ c[loc.x] = c[loc.y]
  <2> DEFINE id == loc.id
             new == Combined(loc)
  <2>1. RespectsId(c)' <=> \A v \in V : c[v] = c[new[v]]
    BY <1>2, <1>5 DEF RespectsId
  <2>2. RespectsId(c) <=> \A v \in V : c[v] = c[id[v]]
    BY DEF RespectsId
  <2>3. /\ id \in [V -> V] /\ loc.x \in V /\ loc.y \in V
        /\ id[loc.x] = loc.x /\ id[loc.y] = loc.y
    BY <1>3, <1>4
  <2>a. CASE loc.x < loc.y
    <3>1. new = [id EXCEPT ![loc.y] = loc.x]  BY <2>a DEF Combined
    <3> QED  BY <2>1, <2>2, <2>3, <3>1
  <2>b. CASE loc.y < loc.x
    <3>1. new = [id EXCEPT ![loc.x] = loc.y]  BY <1>1, <1>4, <2>b DEF Combined
    <3> QED  BY <2>1, <2>2, <2>3, <3>1
  <2>c. CASE loc.x = loc.y
    <3>1. new = id  BY <1>1, <1>4, <2>c DEF Combined
    <3> QED  BY <2>1, <2>2, <2>c, <3>1
  <2>d. loc.x \in Nat /\ loc.y \in Nat
    <3>1. N \in Nat /\ V = 1 .. N  BY <1>1
    <3>2. loc.x \in V /\ loc.y \in V  BY <1>4
    <3> QED  BY <3>1, <3>2
  <2> QED  BY <2>a, <2>b, <2>c, <2>d
<1>9. ASSUME NEW v \in V, NEW e \in 1 .. Len(D[v])
      PROVE  Taken(v, e)' <=> Taken(v, e) \/ (v = loc.i /\ e = loc.e)
  <2>1. Len(D[v]) \in Nat /\ Len(D[loc.i]) \in Nat
    BY <1>1, <1>4
  <2> QED  BY <1>1, <1>3, <1>4, <1>5, <2>1 DEF Taken
<1>10. ASSUME NEW c \in [V -> V]
       PROVE  RespectsTaken(c)' <=> RespectsTaken(c) /\ c[loc.i] = c[D[loc.i][loc.e]]
  <2>1. RespectsTaken(c)' <=>
          \A v \in V : \A e \in 1 .. Len(D[v]) : Taken(v, e)' => c[v] = c[D[v][e]]
    BY <1>2 DEF RespectsTaken
  <2>2. RespectsTaken(c) <=>
          \A v \in V : \A e \in 1 .. Len(D[v]) : Taken(v, e) => c[v] = c[D[v][e]]
    BY DEF RespectsTaken
  <2> HIDE DEF Taken
  <2> QED  BY <1>4, <1>9, <2>1, <2>2, Zenon
<1>11. ASSUME NEW c \in [V -> V]
       PROVE  RespectsId(c)' <=> RespectsTaken(c)'
  BY <1>3, <1>8, <1>10 DEF ArrayRight
<1>12. ArrayRight'
  BY <1>2, <1>5, <1>11 DEF ArrayRight
<1> QED  BY <1>3, <1>5, <1>7, <1>12 DEF StepFacts, NumbersRight, Numbering

LEMMA AllEdgesTakenStep ==
  ASSUME StepFacts, AllEdgesTaken
  PROVE  UFTypeOK' /\ ArrayRight' /\ NumbersRight' /\ answer' = answer
<1>1. /\ N \in Nat /\ V = 1 .. N
      /\ \A v \in V : Len(D[v]) \in Nat
  BY DigraphFacts DEF StepFacts
<1>2. D' = D /\ V' = V /\ N' = N /\ UFLocType' = UFLocType
  BY SameDigraph DEF StepFacts
<1>3. /\ UFTypeOK /\ ArrayRight /\ loc \in UFLocType
      /\ loc.stage = "edges" /\ loc.i > N
      /\ loc' = [loc EXCEPT !.stage = "number", !.i = 1] /\ answer' = answer
  BY DEF StepFacts, AllEdgesTaken, InStage, Continue, UFTypeOK
<1>4. 1 \in 1 .. N + 1
  BY <1>1
<1>5. loc' \in UFLocType
  BY <1>3, <1>4 DEF UFLocType
<1>6. loc'.stage = "number" /\ loc'.i = 1 /\ loc'.id = loc.id /\ loc'.nrcomps = loc.nrcomps
  BY <1>3 DEF UFLocType
<1>7. UFTypeOK'
  BY <1>2, <1>3, <1>5, <1>6 DEF UFTypeOK
<1>8. ASSUME NEW v \in V, NEW e \in 1 .. Len(D[v])
      PROVE  Taken(v, e) /\ Taken(v, e)'
  <2>1. v < loc.i  BY <1>1, <1>3 DEF UFLocType
  <2> QED  BY <1>6, <2>1 DEF Taken
<1>9. \A c : RespectsTaken(c)' <=> RespectsTaken(c)
  BY <1>2, <1>8, Zenon DEF RespectsTaken
<1>10. \A c : RespectsId(c)' <=> RespectsId(c)
  BY <1>2, <1>6 DEF RespectsId
<1>11. ArrayRight'
  BY <1>2, <1>3, <1>6, <1>9, <1>10 DEF ArrayRight
<1>12. NumbersRight'
  <2>1. loc.nrcomps = 0
    BY <1>3 DEF StepFacts, NumbersRight, Numbering
  <2> QED  BY <1>6, <2>1 DEF NumbersRight, Numbering
<1> QED  BY <1>3, <1>7, <1>11, <1>12

LEMMA NumberNextStep ==
  ASSUME StepFacts, NumberNext
  PROVE  UFTypeOK' /\ ArrayRight' /\ NumbersRight' /\ answer' = answer
<1>1. N \in Nat /\ V = 1 .. N
  BY DigraphFacts DEF StepFacts
<1>2. D' = D /\ V' = V /\ N' = N /\ UFLocType' = UFLocType
  BY SameDigraph DEF StepFacts
<1>3. /\ UFTypeOK /\ ArrayRight /\ NumbersRight /\ loc \in UFLocType
      /\ loc.stage = "number" /\ loc.i <= N
      /\ loc' = [loc EXCEPT !.stage = "name", !.x = loc.i] /\ answer' = answer
  BY DEF StepFacts, NumberNext, InStage, Continue, UFTypeOK
<1>4. loc.i \in 1 .. N + 1
  BY <1>3 DEF UFLocType
<1>5. loc.i \in V /\ loc.i \in 0 .. N /\ loc.i \in 1 .. loc.i
  BY <1>1, <1>3, <1>4
<1>6. loc' \in UFLocType
  BY <1>3, <1>5 DEF UFLocType
<1>7. /\ loc'.stage = "name" /\ loc'.i = loc.i /\ loc'.x = loc.i /\ loc'.id = loc.id
      /\ loc'.nid = loc.nid /\ loc'.nrcomps = loc.nrcomps
  BY <1>3 DEF UFLocType
<1>8. UFTypeOK'
  BY <1>2, <1>3, <1>5, <1>6, <1>7 DEF UFTypeOK
<1>9. ArrayRight'
  BY <1>2, <1>3, <1>7 DEF ArrayRight, RespectsId, RespectsTaken, Taken
<1>10. NumbersRight'
  BY <1>2, <1>3, <1>7 DEF NumbersRight, Numbering, RespectsId
<1> QED  BY <1>3, <1>8, <1>9, <1>10

LEMMA OneMoreNumber ==
  ASSUME NEW i \in Nat \ {0}
  PROVE  1 .. (i + 1) - 1 = (1 .. i - 1) \cup {i}
OBVIOUS

(* A vertex gets its number: a new one for a root, that of x, which is below *)
(* it in its class, otherwise.                                               *)
LEMMA NameStep ==
  ASSUME StepFacts, Name
  PROVE  UFTypeOK' /\ ArrayRight' /\ NumbersRight' /\ answer' = answer
<1>1. N \in Nat /\ V = 1 .. N
  BY DigraphFacts DEF StepFacts
<1>2. D' = D /\ V' = V /\ N' = N /\ UFLocType' = UFLocType
  BY SameDigraph DEF StepFacts
<1>3. /\ UFTypeOK /\ ArrayRight /\ NumbersRight /\ loc \in UFLocType
      /\ loc.stage = "name" /\ loc.id[loc.x] = loc.x /\ answer' = answer
  BY DEF StepFacts, Name, InStage, Continue, UFTypeOK
<1>4. /\ loc.i \in V /\ loc.x \in 1 .. loc.i
      /\ loc.nid \in [V -> Nat] /\ loc.nrcomps \in Nat /\ loc.id \in [V -> V]
      /\ \A v \in V : loc.id[v] <= v
  BY <1>3 DEF UFTypeOK, UFLocType
<1>5. /\ loc.nrcomps < loc.i
      /\ \A v \in 1 .. loc.i - 1 : loc.nid[v] \in 1 .. loc.nrcomps
      /\ \A v \in 1 .. loc.i - 1 : loc.nid[v] = loc.nid[loc.id[v]]
      /\ loc.x = loc.i \/ loc.nid[loc.id[loc.i]] = loc.nid[loc.x]
      /\ \A c \in [V -> V] : RespectsId(c) =>
           \A u, v \in 1 .. loc.i - 1 : loc.nid[u] = loc.nid[v] => c[u] = c[v]
  BY <1>3 DEF NumbersRight, Numbering
<1>i. loc.i \in V
  BY <1>4
<1>6. loc.i \in Nat \ {0} /\ loc.i + 1 \in 1 .. N + 1 /\ V = 1 .. N
  BY <1>1, <1>i
<1>j. \A v \in V : loc.id[v] \in 1 .. v
  <2> SUFFICES ASSUME NEW v \in V PROVE loc.id[v] \in 1 .. v
    OBVIOUS
  <2>1. loc.id[v] \in V /\ loc.id[v] <= v
    BY <1>4
  <2> QED  BY <1>1, <2>1
<1>k. \A v \in 1 .. loc.i - 1 : loc.id[v] \in 1 .. loc.i - 1
  <2> SUFFICES ASSUME NEW v \in 1 .. loc.i - 1 PROVE loc.id[v] \in 1 .. loc.i - 1
    OBVIOUS
  <2>1. v \in V /\ v \in Nat /\ v < loc.i
    BY <1>1, <1>i, <1>6
  <2>2. loc.id[v] \in 1 .. v
    BY <1>j, <2>1
  <2> QED  BY <1>6, <2>1, <2>2
<1>l. loc.id[loc.i] = loc.i \/ loc.id[loc.i] \in 1 .. loc.i - 1
  <2>1. loc.id[loc.i] \in 1 .. loc.i
    BY <1>i, <1>j
  <2> QED  BY <1>6, <2>1
<1>m. \A v \in 1 .. loc.i - 1 : v \in V /\ v # loc.i
  BY <1>1, <1>i, <1>6
<1>7. \A c \in [V -> V] : RespectsId(c) => c[loc.x] = c[loc.i]
  BY <1>3 DEF ArrayRight
<1>a. CASE loc.x = loc.i /\ loc' = [loc EXCEPT !.stage = "number", !.i = @ + 1,
                                      !.nid[loc.i] = loc.nrcomps + 1, !.nrcomps = @ + 1]
  <2>1. loc.nrcomps + 1 \in Nat /\ [loc.nid EXCEPT ![loc.i] = loc.nrcomps + 1] \in [V -> Nat]
    BY <1>4
  <2>2. loc' \in UFLocType
    BY <1>3, <1>6, <1>a, <2>1 DEF UFLocType
  <2>3. /\ loc'.stage = "number" /\ loc'.i = loc.i + 1 /\ loc'.id = loc.id
        /\ loc'.nid = [loc.nid EXCEPT ![loc.i] = loc.nrcomps + 1]
        /\ loc'.nrcomps = loc.nrcomps + 1
    BY <1>3, <1>a DEF UFLocType
  <2>4. UFTypeOK'
    BY <1>2, <1>3, <2>2, <2>3 DEF UFTypeOK
  <2>5. ArrayRight'
    BY <1>2, <1>3, <2>3 DEF ArrayRight, RespectsId, RespectsTaken, Taken
  <2>6. /\ loc'.nid[loc.i] = loc.nrcomps + 1
        /\ \A v \in 1 .. loc.i - 1 : loc'.nid[v] = loc.nid[v]
        /\ 1 .. loc'.i - 1 = (1 .. loc.i - 1) \cup {loc.i}
    <3>1. /\ loc'.nid[loc.i] = loc.nrcomps + 1
          /\ \A v \in 1 .. loc.i - 1 : loc'.nid[v] = loc.nid[v]
      BY <1>4, <1>i, <1>m, <2>3
    <3>2. 1 .. loc'.i - 1 = (1 .. loc.i - 1) \cup {loc.i}
      BY <1>6, <2>3, OneMoreNumber
    <3> QED  BY <3>1, <3>2
  <2>7. loc.id[loc.i] = loc.i
    BY <1>3, <1>a
  <2>8. \A v \in 1 .. loc.i - 1 : loc.id[v] \in 1 .. loc.i - 1
    BY <1>k
  <2>9. \A v \in 1 .. loc'.i - 1 : loc'.nid[v] \in 1 .. loc'.nrcomps
    BY <1>4, <1>5, <1>6, <2>3, <2>6
  <2>10. \A v \in 1 .. loc'.i - 1 : loc'.nid[v] = loc'.nid[loc.id[v]]
    BY <1>5, <2>6, <2>7, <2>8
  <2>11. ASSUME NEW c \in [V -> V], RespectsId(c), NEW u \in 1 .. loc'.i - 1,
                NEW v \in 1 .. loc'.i - 1, loc'.nid[u] = loc'.nid[v]
         PROVE  c[u] = c[v]
    <3>1. \A w \in 1 .. loc.i - 1 : loc'.nid[w] # loc.nrcomps + 1
      BY <1>4, <1>5, <2>6
    <3> QED  BY <1>5, <2>6, <2>11, <3>1
  <2>12. \A c : RespectsId(c)' <=> RespectsId(c)
    BY <1>2, <2>3 DEF RespectsId
  <2>13. loc'.nrcomps < loc'.i
    BY <1>4, <1>5, <1>6, <2>3
  <2>14. NumbersRight'
    BY <1>2, <2>3, <2>9, <2>10, <2>11, <2>12, <2>13 DEF NumbersRight, Numbering
  <2> QED  BY <1>3, <2>4, <2>5, <2>14
<1>b. CASE loc.x # loc.i /\ loc' = [loc EXCEPT !.stage = "number", !.i = @ + 1,
                                      !.nid[loc.i] = loc.nid[loc.x]]
  <2>0. loc.x \in 1 .. loc.i - 1 /\ loc.x \in V
    BY <1>1, <1>4, <1>6, <1>b
  <2>1. [loc.nid EXCEPT ![loc.i] = loc.nid[loc.x]] \in [V -> Nat]
    BY <1>4, <2>0
  <2>2. loc' \in UFLocType
    BY <1>3, <1>6, <1>b, <2>1 DEF UFLocType
  <2>3. /\ loc'.stage = "number" /\ loc'.i = loc.i + 1 /\ loc'.id = loc.id
        /\ loc'.nid = [loc.nid EXCEPT ![loc.i] = loc.nid[loc.x]]
        /\ loc'.nrcomps = loc.nrcomps
    BY <1>3, <1>b DEF UFLocType
  <2>4. UFTypeOK'
    BY <1>2, <1>3, <2>2, <2>3 DEF UFTypeOK
  <2>5. ArrayRight'
    BY <1>2, <1>3, <2>3 DEF ArrayRight, RespectsId, RespectsTaken, Taken
  <2>6. /\ loc'.nid[loc.i] = loc.nid[loc.x]
        /\ \A v \in 1 .. loc.i - 1 : loc'.nid[v] = loc.nid[v]
        /\ 1 .. loc'.i - 1 = (1 .. loc.i - 1) \cup {loc.i}
    <3>1. /\ loc'.nid[loc.i] = loc.nid[loc.x]
          /\ \A v \in 1 .. loc.i - 1 : loc'.nid[v] = loc.nid[v]
      BY <1>4, <1>i, <1>m, <2>3
    <3>2. 1 .. loc'.i - 1 = (1 .. loc.i - 1) \cup {loc.i}
      BY <1>6, <2>3, OneMoreNumber
    <3> QED  BY <3>1, <3>2
  <2>7. \A v \in 1 .. loc.i - 1 : loc.id[v] \in 1 .. loc.i - 1
    BY <1>k
  <2>8. loc'.nid[loc.id[loc.i]] = loc.nid[loc.x]
    BY <1>5, <1>b, <1>l, <2>6
  <2>9. \A v \in 1 .. loc'.i - 1 : loc'.nid[v] \in 1 .. loc'.nrcomps
    BY <1>5, <2>0, <2>3, <2>6
  <2>10. \A v \in 1 .. loc'.i - 1 : loc'.nid[v] = loc'.nid[loc.id[v]]
    BY <1>5, <2>6, <2>7, <2>8
  <2>11. ASSUME NEW c \in [V -> V], RespectsId(c), NEW u \in 1 .. loc'.i - 1,
                NEW v \in 1 .. loc'.i - 1, loc'.nid[u] = loc'.nid[v]
         PROVE  c[u] = c[v]
    BY <1>5, <1>7, <2>0, <2>6, <2>11
  <2>12. \A c : RespectsId(c)' <=> RespectsId(c)
    BY <1>2, <2>3 DEF RespectsId
  <2>13. loc'.nrcomps < loc'.i
    BY <1>4, <1>5, <1>6, <2>3
  <2>14. NumbersRight'
    BY <1>2, <2>3, <2>9, <2>10, <2>11, <2>12, <2>13 DEF NumbersRight, Numbering
  <2> QED  BY <1>3, <2>4, <2>5, <2>14
<1> QED  BY <1>a, <1>b DEF Name, Continue

------------------------------------------------------------------------------
LEMMA OtherFunctions ==
  ASSUME Next, call.fn = UF
  PROVE  CONNECTED_COMPONENTS
BY DEF Next, UF, Running, FLOYD_WARSHALL, MatrixFunctions, Distances, Closures,
       GABOW_SCC, IS_STRONGLY_CONNECTED, IS_ACYCLIC, LONGEST_DIST, TRANS_REDUCTION, PATH,
       IS_ANTISYMMETRIC, TOPO_SORT, SPANNING_FOREST, EQUALS, LT, EdgeLoop, LoopFunctions,
       Counts, FROM_SOURCE_RANGE

LEMMA UFStep == UFInv /\ [Next]_vars => UFInv'
<1> SUFFICES ASSUME UFInv, [Next]_vars PROVE UFInv'
  OBVIOUS
<1>1. CASE UNCHANGED vars
  <2>1. call' = call /\ loc' = loc /\ answer' = answer
    BY <1>1 DEF vars
  <2>2. D' = D /\ V' = V /\ N' = N /\ UFLocType' = UFLocType
    BY <2>1, SameDigraph
  <2>3. UFTypeOK' <=> UFTypeOK
    BY <2>1, <2>2 DEF UFTypeOK
  <2>4. ArrayRight' <=> ArrayRight
    BY <2>1, <2>2 DEF ArrayRight, RespectsId, RespectsTaken, Taken
  <2>5. NumbersRight' <=> NumbersRight
    BY <2>1, <2>2 DEF NumbersRight, Numbering, RespectsId
  <2>6. Result' = Result
    BY <2>1 DEF Result
  <2> QED
    BY <2>1, <2>2, <2>3, <2>4, <2>5, <2>6 DEF UFInv
<1>2. CASE Next
  <2>1. call' = call /\ call' \in Calls
    BY <1>2, CallKept DEF UFInv
  <2> SUFFICES ASSUME call.fn = UF
               PROVE  /\ UFTypeOK' /\ ArrayRight' /\ NumbersRight'
                      /\ answer' # << >> =>
                           /\ loc'.stage = "number" /\ loc'.i = N' + 1
                           /\ Result'.id = loc'.nid
    BY <2>1 DEF UFInv
  <2>2. CONNECTED_COMPONENTS
    BY <1>2, OtherFunctions
  <2>3. answer = << >>
    BY <2>2 DEF CONNECTED_COMPONENTS, TakeEdge, UF_FIND, UF_COMBINE_CLASSES, AllEdgesTaken,
                NumberNext, Name, AllNamed, InStage, Running
  <2>4. StepFacts
    BY <2>1, <2>3 DEF StepFacts, UFInv
  <2>5. CASE TakeEdge \/ UF_FIND \/ UF_COMBINE_CLASSES \/ AllEdgesTaken \/ NumberNext \/ Name
    BY <2>3, <2>4, <2>5, TakeEdgeStep, FindStep, CombineStep, AllEdgesTakenStep,
       NumberNextStep, NameStep
  <2>6. CASE AllNamed
    <3>1. /\ loc' = loc /\ answer' = << "value", ComponentsRecord >>
          /\ loc.stage = "number" /\ loc.i > N
      BY <2>6 DEF AllNamed, InStage, Answer
    <3>2. D' = D /\ V' = V /\ N' = N /\ UFLocType' = UFLocType
      BY <2>1, SameDigraph
    <3>3. UFTypeOK' /\ ArrayRight' /\ NumbersRight'
      BY <2>4, <3>1, <3>2 DEF StepFacts, UFTypeOK, ArrayRight, NumbersRight, Numbering,
                              RespectsId, RespectsTaken, Taken
    <3>4. N \in Nat /\ loc.i \in 1 .. N + 1
      BY <2>4, DigraphFacts DEF StepFacts, UFTypeOK, UFLocType
    <3>5. loc.i = N + 1
      BY <3>1, <3>4
    <3>6. Result'.id = loc'.nid
      BY <3>1 DEF Result, ComponentsRecord
    <3> QED  BY <3>1, <3>2, <3>3, <3>5, <3>6
  <2> QED  BY <2>2, <2>5, <2>6 DEF CONNECTED_COMPONENTS
<1> QED  BY <1>1, <1>2

(* Whatever digraph DIGRAPH_CONNECTED_COMPONENTS is called with, its answer  *)
(* is the partition into connected components: the two ends of an edge have  *)
(* one number, and vertices of one number are told apart by no numbering     *)
(* that is the same at the two ends of every edge.                           *)
THEOREM ConnectedComponentsCorrect == Spec => []ComponentsRight
<1>1. Init => UFInv
  BY UFInit
<1>2. UFInv /\ [Next]_vars => UFInv'
  BY UFStep
<1>3. UFInv => ComponentsRight
  BY NumbersGiveComponents
<1> QED  BY <1>1, <1>2, <1>3, PTL DEF Spec

------------------------------------------------------------------------------
(* Strong components.  The values of the local variables: fr the frames, s1  *)
(* and s2 the two stacks.                                                    *)
(*                                                                         *)
(* A vertex has not been come to, is in s1 at the place that is its number,  *)
(* or has the number of its component.                                       *)
Places(n, s1, id, count) ==
  /\ s1 \in Seq(1 .. n) /\ Len(s1) <= n
  /\ id \in [1 .. n -> Nat]
  /\ count \in Nat /\ n <= count
  /\ \A q \in 1 .. Len(s1) : id[s1[q]] = q
  /\ \A u \in 1 .. n :
       \/ id[u] = 0
       \/ id[u] \in 1 .. Len(s1) /\ s1[id[u]] = u
       \/ id[u] \in n + 1 .. count

(* The vertices with frames are in s1, in the order of the frames.           *)
CallsOpen(adj, fr, s1, id) ==
  /\ fr \in Seq([v : 1 .. Len(adj), k : Nat \ {0}])
  /\ \A f \in 1 .. Len(fr) :
       /\ fr[f].k <= Len(adj[fr[f].v]) + 1
       /\ id[fr[f].v] \in 1 .. Len(s1)
  /\ \A f, g \in 1 .. Len(fr) : f < g => id[fr[f].v] < id[fr[g].v]
  /\ IF fr = << >> THEN s1 = << >> ELSE id[fr[1].v] = 1

(* The places of s2 are places of vertices with frames, the first of them    *)
(* among these.                                                              *)
Beginnings(fr, s2, id) ==
  /\ s2 \in Seq(Nat \ {0})
  /\ \A p, q \in 1 .. Len(s2) : p < q => s2[p] < s2[q]
  /\ \A p \in 1 .. Len(s2) : \E f \in 1 .. Len(fr) : s2[p] = id[fr[f].v]
  /\ fr # << >> => s2 # << >> /\ s2[1] = 1

(* The edges of a vertex with a frame up to the k of it, all of any other.   *)
Explored(fr, x, e) == \A f \in 1 .. Len(fr) : fr[f].v = x => e < fr[f].k

(* An explored edge does not lead back over a beginning, nor from a component*)
(* to one found after it.                                                    *)
EdgeKept(n, s2, id, x, w) ==
  /\ id[w] # 0
  /\ id[x] > n => id[w] > n /\ id[w] <= id[x]
  /\ id[x] <= n /\ id[w] <= n => \A p \in 1 .. Len(s2) : s2[p] <= id[x] => s2[p] <= id[w]

EdgesKept(adj, fr, s2, id) ==
  \A x \in 1 .. Len(adj) : \A e \in 1 .. Len(adj[x]) :
    id[x] # 0 /\ Explored(fr, x, e) => EdgeKept(Len(adj), s2, id, x, adj[x][e])

(* The same, except for the edges to w.                                      *)
EdgesKeptBut(adj, fr, s2, id, w) ==
  \A x \in 1 .. Len(adj) : \A e \in 1 .. Len(adj[x]) :
    id[x] # 0 /\ Explored(fr, x, e) =>
      \/ EdgeKept(Len(adj), s2, id, x, adj[x][e])
      \/ id[x] <= Len(adj) /\ adj[x][e] = w

SamePart(s2, p, q) == \A r \in 1 .. Len(s2) : s2[r] <= p <=> s2[r] <= q

(* A vertex with a frame reaches all above it, the vertices between two      *)
(* beginnings reach each other, and so do those of a component.              *)
AboveReached(adj, fr, s1, id) ==
  \A f \in 1 .. Len(fr) : \A q \in 1 .. Len(s1) :
    id[fr[f].v] <= q => ReachesOrIs(adj, fr[f].v, s1[q])

PartsReach(adj, s1, s2) ==
  \A p, q \in 1 .. Len(s1) : SamePart(s2, p, q) => ReachesOrIs(adj, s1[p], s1[q])

ComponentsReach(adj, id) ==
  \A u, w \in 1 .. Len(adj) : id[u] > Len(adj) /\ id[u] = id[w] => ReachesOrIs(adj, u, w)

InComponents(n, id, comps, count) ==
  /\ count = n + Len(comps)
  /\ \A c \in 1 .. Len(comps) : \A u \in 1 .. n :
       id[u] = n + c <=> \E q \in 1 .. Len(comps[c]) : comps[c][q] = u

DigraphLike(adj) ==
  /\ Len(adj) \in Nat
  /\ \A x \in 1 .. Len(adj) :
       Len(adj[x]) \in Nat /\ \A e \in 1 .. Len(adj[x]) : adj[x][e] \in 1 .. Len(adj)

------------------------------------------------------------------------------
LEMMA AppendFacts ==
  ASSUME NEW S, NEW s \in Seq(S), NEW x \in S
  PROVE  /\ Append(s, x) \in Seq(S)
         /\ Len(s) \in Nat
         /\ Len(Append(s, x)) = Len(s) + 1
         /\ Append(s, x) # << >>
         /\ \A q \in 1 .. Len(s) : Append(s, x)[q] = s[q]
         /\ Append(s, x)[Len(s) + 1] = x
BY AppendProperties

LEMMA PrefixFacts ==
  ASSUME NEW S, NEW s \in Seq(S), NEW m \in 0 .. Len(s)
  PROVE  /\ SubSeq(s, 1, m) \in Seq(S)
         /\ Len(SubSeq(s, 1, m)) = m
         /\ \A q \in 1 .. m : SubSeq(s, 1, m)[q] = s[q]
<1>1. Len(s) \in Nat /\ \A q \in 1 .. m : s[q] \in S
  OBVIOUS
<1>2. /\ SubSeq(s, 1, m) \in Seq(S)
      /\ Len(SubSeq(s, 1, m)) = IF 1 <= m THEN m - 1 + 1 ELSE 0
      /\ \A q \in 1 .. m - 1 + 1 : SubSeq(s, 1, m)[q] = s[1 + q - 1]
  BY <1>1, SubSeqProperties
<1> QED  BY <1>1, <1>2

LEMMA SuffixFacts ==
  ASSUME NEW S, NEW s \in Seq(S), NEW m \in 1 .. Len(s)
  PROVE  /\ SubSeq(s, m, Len(s)) \in Seq(S)
         /\ Len(SubSeq(s, m, Len(s))) = Len(s) - m + 1
         /\ \A q \in 1 .. Len(s) - m + 1 : SubSeq(s, m, Len(s))[q] = s[m + q - 1]
<1>1. Len(s) \in Nat /\ m \in Int /\ Len(s) \in Int /\ \A q \in m .. Len(s) : s[q] \in S
  OBVIOUS
<1> QED  BY <1>1, SubSeqProperties

(* A sequence of different vertices is no longer than there are vertices.    *)
LEMMA DifferentVertices ==
  ASSUME NEW n \in Nat, NEW s \in Seq(1 .. n),
         \A p, q \in 1 .. Len(s) : s[p] = s[q] => p = q
  PROVE  /\ Len(s) <= n
         /\ Len(s) = n <=> \A u \in 1 .. n : \E q \in 1 .. Len(s) : s[q] = u
<1>1. Len(s) \in Nat /\ s \in [1 .. Len(s) -> 1 .. n]
  OBVIOUS
<1>2. s \in Injection(1 .. Len(s), 1 .. n)
  BY <1>1, Zenon DEF Injection, IsInjective
<1>3. /\ IsFiniteSet(1 .. n) /\ Cardinality(1 .. n) = n
      /\ Cardinality(1 .. Len(s)) = Len(s)
  BY <1>1, CountTo
<1>4. /\ Cardinality(1 .. Len(s)) <= Cardinality(1 .. n)
      /\ Cardinality(1 .. Len(s)) = Cardinality(1 .. n) <=> s \in Surjection(1 .. Len(s), 1 .. n)
  BY <1>2, <1>3, FS_Injection
<1>5. s \in Surjection(1 .. Len(s), 1 .. n) <=>
        \A u \in 1 .. n : \E q \in 1 .. Len(s) : s[q] = u
  BY <1>1, Zenon DEF Surjection
<1> QED  BY <1>3, <1>4, <1>5

------------------------------------------------------------------------------
(* Enter: w gets the next place of s1, a beginning there, and a frame.       *)
LEMMA EnterPlaces ==
  ASSUME NEW n \in Nat, NEW s1, NEW id, NEW count, Places(n, s1, id, count),
         NEW w \in 1 .. n, id[w] = 0
  PROVE  /\ Places(n, Append(s1, w), [id EXCEPT ![w] = Len(s1) + 1], count)
         /\ Len(s1) + 1 <= n
<1> DEFINE t == Append(s1, w)
           j == [id EXCEPT ![w] = Len(s1) + 1]
<1>1. /\ s1 \in Seq(1 .. n) /\ Len(s1) \in Nat
      /\ id \in [1 .. n -> Nat]
      /\ \A q \in 1 .. Len(s1) : s1[q] \in 1 .. n /\ id[s1[q]] = q
  BY DEF Places
<1>2. /\ t \in Seq(1 .. n) /\ Len(t) = Len(s1) + 1
      /\ \A q \in 1 .. Len(s1) : t[q] = s1[q]
      /\ t[Len(s1) + 1] = w
  BY <1>1, AppendFacts
<1>3. /\ j \in [1 .. n -> Nat] /\ j[w] = Len(s1) + 1
      /\ \A u \in 1 .. n : u # w => j[u] = id[u]
  BY <1>1
<1> HIDE DEF t, j
<1>4. \A q \in 1 .. Len(t) : j[t[q]] = q
  <2> SUFFICES ASSUME NEW q \in 1 .. Len(t) PROVE j[t[q]] = q
    OBVIOUS
  <2>1. CASE q = Len(s1) + 1
    BY <1>2, <1>3, <2>1
  <2>2. CASE q \in 1 .. Len(s1)
    <3>1. s1[q] # w
      BY <1>1, <2>2
    <3> QED  BY <1>1, <1>2, <1>3, <2>2, <3>1
  <2> QED  BY <1>1, <1>2, <2>1, <2>2
<1>5. Len(t) <= n
  <2>1. \A p, q \in 1 .. Len(t) : t[p] = t[q] => p = q
    BY <1>4
  <2> QED  BY <1>2, <2>1, DifferentVertices
<1>6. \A u \in 1 .. n :
        \/ j[u] = 0
        \/ j[u] \in 1 .. Len(t) /\ t[j[u]] = u
        \/ j[u] \in n + 1 .. count
  <2> SUFFICES ASSUME NEW u \in 1 .. n, u # w
               PROVE  \/ j[u] = 0
                      \/ j[u] \in 1 .. Len(t) /\ t[j[u]] = u
                      \/ j[u] \in n + 1 .. count
    BY <1>1, <1>2, <1>3
  <2>1. j[u] = id[u] /\ id[u] \in Nat
    BY <1>1, <1>3
  <2>2. \/ id[u] = 0
        \/ id[u] \in 1 .. Len(s1) /\ s1[id[u]] = u
        \/ id[u] \in n + 1 .. count
    BY DEF Places
  <2>3. CASE id[u] \in 1 .. Len(s1) /\ s1[id[u]] = u
    <3>1. PICK q \in 1 .. Len(s1) : q = id[u]
      BY <2>3
    <3>2. s1[q] = u
      BY <2>3, <3>1
    <3>3. t[q] = u
      BY <1>2, <3>2
    <3>4. q \in 1 .. Len(t)
      BY <1>1, <1>2
    <3>5. j[u] = q
      BY <2>1, <3>1
    <3> QED  BY <3>3, <3>4, <3>5
  <2> QED  BY <2>1, <2>2, <2>3
<1>7. Places(n, t, j, count)
  BY <1>2, <1>3, <1>4, <1>5, <1>6 DEF Places
<1> QED  BY <1>2, <1>5, <1>7 DEF t, j

LEMMA EnterCalls ==
  ASSUME NEW adj, DigraphLike(adj), NEW fr, NEW s1, NEW s2, NEW id, NEW count,
         Places(Len(adj), s1, id, count), CallsOpen(adj, fr, s1, id), Beginnings(fr, s2, id),
         NEW w \in 1 .. Len(adj), id[w] = 0
  PROVE  LET fr2 == Append(fr, [v |-> w, k |-> 1])
             t1 == Append(s1, w)
             t2 == Append(s2, Len(s1) + 1)
             j == [id EXCEPT ![w] = Len(s1) + 1]
         IN  CallsOpen(adj, fr2, t1, j) /\ Beginnings(fr2, t2, j)
<1> DEFINE n == Len(adj)
           Fr == [v : 1 .. n, k : Nat \ {0}]
           new == [v |-> w, k |-> 1]
           fr2 == Append(fr, new)
           t1 == Append(s1, w)
           t2 == Append(s2, Len(s1) + 1)
           j == [id EXCEPT ![w] = Len(s1) + 1]
<1>1. /\ fr \in Seq(Fr) /\ s1 \in Seq(1 .. n) /\ s2 \in Seq(Nat \ {0})
      /\ Len(fr) \in Nat /\ Len(s1) \in Nat /\ Len(s2) \in Nat
      /\ id \in [1 .. n -> Nat]
  BY DEF Places, CallsOpen, Beginnings
<1>2. new \in Fr /\ new.v = w /\ new.k = 1
  OBVIOUS
<1>3. /\ fr2 \in Seq(Fr) /\ Len(fr2) = Len(fr) + 1 /\ fr2 # << >>
      /\ \A f \in 1 .. Len(fr) : fr2[f] = fr[f]
      /\ fr2[Len(fr) + 1] = new
  <2>1. fr \in Seq(Fr) /\ new \in Fr
    BY <1>1, <1>2
  <2> HIDE DEF new, Fr
  <2> QED  BY <2>1, AppendFacts
<1>4. Len(t1) = Len(s1) + 1
  BY <1>1, AppendFacts
<1>5. /\ t2 \in Seq(Nat \ {0}) /\ Len(t2) = Len(s2) + 1 /\ t2 # << >>
      /\ \A p \in 1 .. Len(s2) : t2[p] = s2[p]
      /\ t2[Len(s2) + 1] = Len(s1) + 1
  <2>1. Len(s1) + 1 \in Nat \ {0}
    BY <1>1
  <2> QED  BY <1>1, <2>1, AppendFacts
<1>6. \A f \in 1 .. Len(fr) : fr[f].v \in 1 .. n /\ fr[f].k \in Nat \ {0}
  <2>1. \A f \in 1 .. Len(fr) : fr[f] \in Fr
    <3> HIDE DEF Fr
    <3> QED  BY <1>1
  <2> QED  BY <2>1
<1>7. /\ \A f \in 1 .. Len(fr) : fr[f].v # w
      /\ j[w] = Len(s1) + 1
      /\ \A u \in 1 .. n : u # w => j[u] = id[u]
  <2>1. \A f \in 1 .. Len(fr) : id[fr[f].v] # 0
    BY <1>1 DEF CallsOpen
  <2> QED  BY <1>1, <2>1
<1>8. \A f \in 1 .. Len(fr) : fr2[f].v = fr[f].v /\ fr2[f].k = fr[f].k /\ j[fr2[f].v] = id[fr[f].v]
  BY <1>3, <1>6, <1>7
<1>9. fr2[Len(fr) + 1].v = w /\ fr2[Len(fr) + 1].k = 1 /\ j[fr2[Len(fr) + 1].v] = Len(s1) + 1
  BY <1>2, <1>3, <1>7
<1> HIDE DEF fr2, t1, t2, j, new, Fr
<1>10. ASSUME NEW f \in 1 .. Len(fr2)
       PROVE  /\ fr2[f].k <= Len(adj[fr2[f].v]) + 1
              /\ j[fr2[f].v] \in 1 .. Len(t1)
  <2>1. CASE f \in 1 .. Len(fr)
    <3>1. fr[f].k <= Len(adj[fr[f].v]) + 1 /\ id[fr[f].v] \in 1 .. Len(s1)
      BY <2>1 DEF CallsOpen
    <3>2. id[fr[f].v] \in 1 .. Len(s1) + 1
      BY <1>1, <3>1
    <3> QED  BY <1>4, <1>8, <2>1, <3>1, <3>2
  <2>2. CASE f = Len(fr) + 1
    BY <1>1, <1>4, <1>9, <2>2 DEF DigraphLike
  <2> QED  BY <1>1, <1>3, <2>1, <2>2
<1>11. ASSUME NEW f \in 1 .. Len(fr2), NEW g \in 1 .. Len(fr2), f < g
       PROVE  j[fr2[f].v] < j[fr2[g].v]
  <2>1. f \in 1 .. Len(fr)
    BY <1>1, <1>3, <1>11
  <2>2. id[fr[f].v] \in 1 .. Len(s1)
    BY <2>1 DEF CallsOpen
  <2>3. CASE g \in 1 .. Len(fr)
    BY <1>8, <1>11, <2>1, <2>3 DEF CallsOpen
  <2>4. CASE g = Len(fr) + 1
    BY <1>1, <1>8, <1>9, <2>1, <2>2, <2>4
  <2> QED  BY <1>1, <1>3, <2>3, <2>4
<1>12. j[fr2[1].v] = 1
  <2>1. CASE fr = << >>
    <3>1. Len(fr) = 0 /\ Len(s1) = 0
      BY <2>1 DEF CallsOpen
    <3> QED  BY <1>9, <3>1
  <2>2. CASE fr # << >>
    <3>1. 1 \in 1 .. Len(fr)
      BY <1>1, <2>2
    <3> QED  BY <1>8, <2>2, <3>1 DEF CallsOpen
  <2> QED  BY <2>1, <2>2
<1>13. CallsOpen(adj, fr2, t1, j)
  BY <1>3, <1>10, <1>11, <1>12 DEF CallsOpen, Fr
<1>14. ASSUME NEW p \in 1 .. Len(s2)
       PROVE  s2[p] \in 1 .. Len(s1) /\ \E f \in 1 .. Len(fr2) : t2[p] = j[fr2[f].v]
  <2>1. PICK f \in 1 .. Len(fr) : s2[p] = id[fr[f].v]
    BY DEF Beginnings
  <2>2. f \in 1 .. Len(fr2)
    BY <1>1, <1>3
  <2> QED  BY <1>5, <1>8, <2>1, <2>2 DEF CallsOpen
<1>15. ASSUME NEW p \in 1 .. Len(t2), NEW q \in 1 .. Len(t2), p < q
       PROVE  t2[p] < t2[q]
  <2>1. p \in 1 .. Len(s2)
    BY <1>1, <1>5, <1>15
  <2>2. CASE q \in 1 .. Len(s2)
    BY <1>5, <1>15, <2>1, <2>2 DEF Beginnings
  <2>3. CASE q = Len(s2) + 1
    <3>1. s2[p] \in 1 .. Len(s1)
      BY <1>14, <2>1
    <3>2. t2[p] = s2[p] /\ t2[q] = Len(s1) + 1
      BY <1>5, <2>1, <2>3
    <3> QED  BY <1>1, <3>1, <3>2
  <2> QED  BY <1>1, <1>5, <2>2, <2>3
<1>16. ASSUME NEW p \in 1 .. Len(t2)
       PROVE  \E f \in 1 .. Len(fr2) : t2[p] = j[fr2[f].v]
  <2>1. CASE p \in 1 .. Len(s2)
    BY <1>14, <2>1
  <2>2. CASE p = Len(s2) + 1
    <3>1. Len(fr) + 1 \in 1 .. Len(fr2)
      BY <1>1, <1>3
    <3> QED  BY <1>5, <1>9, <2>2, <3>1
  <2> QED  BY <1>1, <1>5, <2>1, <2>2
<1>17. t2[1] = 1
  <2>1. CASE fr = << >>
    <3>1. Len(s1) = 0 /\ Len(fr) = 0
      BY <2>1 DEF CallsOpen
    <3>2. Len(s2) = 0
      <4> SUFFICES ASSUME Len(s2) # 0 PROVE FALSE
        OBVIOUS
      <4>1. 1 \in 1 .. Len(s2)
        BY <1>1
      <4> QED  BY <1>14, <3>1, <4>1
    <3> QED  BY <1>5, <3>1, <3>2
  <2>2. CASE fr # << >>
    <3>1. s2 # << >> /\ s2[1] = 1
      BY <2>2 DEF Beginnings
    <3>2. 1 \in 1 .. Len(s2)
      BY <1>1, <3>1
    <3> QED  BY <1>5, <3>1, <3>2
  <2> QED  BY <2>1, <2>2
<1>18. Beginnings(fr2, t2, j)
  BY <1>5, <1>15, <1>16, <1>17 DEF Beginnings
<1> QED  BY <1>13, <1>18 DEF fr2, t1, t2, j, new

(* What the entered values are, place by place.                              *)
LEMMA EnterValues ==
  ASSUME NEW adj, DigraphLike(adj), NEW fr, NEW s1, NEW s2, NEW id, NEW count,
         Places(Len(adj), s1, id, count), CallsOpen(adj, fr, s1, id), Beginnings(fr, s2, id),
         NEW w \in 1 .. Len(adj), id[w] = 0
  PROVE  LET fr2 == Append(fr, [v |-> w, k |-> 1])
             t1 == Append(s1, w)
             t2 == Append(s2, Len(s1) + 1)
             j == [id EXCEPT ![w] = Len(s1) + 1]
         IN  /\ Len(s1) \in Nat /\ Len(s2) \in Nat /\ Len(fr) \in Nat
             /\ Len(fr2) = Len(fr) + 1 /\ Len(t1) = Len(s1) + 1 /\ Len(t2) = Len(s2) + 1
             /\ \A f \in 1 .. Len(fr) : fr2[f].v = fr[f].v /\ fr2[f].k = fr[f].k
             /\ fr2[Len(fr) + 1].v = w /\ fr2[Len(fr) + 1].k = 1
             /\ \A q \in 1 .. Len(s1) : t1[q] = s1[q]
             /\ t1[Len(s1) + 1] = w
             /\ \A p \in 1 .. Len(s2) : t2[p] = s2[p]
             /\ t2[Len(s2) + 1] = Len(s1) + 1
             /\ j[w] = Len(s1) + 1
             /\ \A u \in 1 .. Len(adj) : u # w => j[u] = id[u]
<1> DEFINE n == Len(adj)
           Fr == [v : 1 .. n, k : Nat \ {0}]
           new == [v |-> w, k |-> 1]
<1>1. /\ fr \in Seq(Fr) /\ s1 \in Seq(1 .. n) /\ s2 \in Seq(Nat \ {0})
      /\ Len(fr) \in Nat /\ Len(s1) \in Nat /\ Len(s2) \in Nat
      /\ id \in [1 .. n -> Nat]
  BY DEF Places, CallsOpen, Beginnings
<1>2. new \in Fr /\ new.v = w /\ new.k = 1
  OBVIOUS
<1>3. /\ Len(Append(fr, new)) = Len(fr) + 1
      /\ \A f \in 1 .. Len(fr) : Append(fr, new)[f] = fr[f]
      /\ Append(fr, new)[Len(fr) + 1] = new
  <2> HIDE DEF new, Fr
  <2> QED  BY <1>1, <1>2, AppendFacts
<1>4. /\ Len(Append(s1, w)) = Len(s1) + 1
      /\ \A q \in 1 .. Len(s1) : Append(s1, w)[q] = s1[q]
      /\ Append(s1, w)[Len(s1) + 1] = w
  BY <1>1, AppendFacts
<1>5. /\ Len(Append(s2, Len(s1) + 1)) = Len(s2) + 1
      /\ \A p \in 1 .. Len(s2) : Append(s2, Len(s1) + 1)[p] = s2[p]
      /\ Append(s2, Len(s1) + 1)[Len(s2) + 1] = Len(s1) + 1
  <2>1. Len(s1) + 1 \in Nat \ {0}
    BY <1>1
  <2> QED  BY <1>1, <2>1, AppendFacts
<1>6. /\ [id EXCEPT ![w] = Len(s1) + 1][w] = Len(s1) + 1
      /\ \A u \in 1 .. n : u # w => [id EXCEPT ![w] = Len(s1) + 1][u] = id[u]
  BY <1>1
<1> HIDE DEF Fr
<1> QED  BY <1>1, <1>2, <1>3, <1>4, <1>5, <1>6

LEMMA EnterEdges ==
  ASSUME NEW adj, DigraphLike(adj), NEW fr, NEW s1, NEW s2, NEW id, NEW count,
         Places(Len(adj), s1, id, count), CallsOpen(adj, fr, s1, id), Beginnings(fr, s2, id),
         NEW w \in 1 .. Len(adj), id[w] = 0,
         EdgesKeptBut(adj, fr, s2, id, w)
  PROVE  EdgesKept(adj, Append(fr, [v |-> w, k |-> 1]), Append(s2, Len(s1) + 1),
                   [id EXCEPT ![w] = Len(s1) + 1])
<1> DEFINE n == Len(adj)
           fr2 == Append(fr, [v |-> w, k |-> 1])
           t2 == Append(s2, Len(s1) + 1)
           j == [id EXCEPT ![w] = Len(s1) + 1]
<1>1. /\ Len(s1) \in Nat /\ Len(s2) \in Nat /\ Len(fr) \in Nat
      /\ Len(fr2) = Len(fr) + 1 /\ Len(t2) = Len(s2) + 1
      /\ \A f \in 1 .. Len(fr) : fr2[f].v = fr[f].v /\ fr2[f].k = fr[f].k
      /\ fr2[Len(fr) + 1].v = w /\ fr2[Len(fr) + 1].k = 1
      /\ \A p \in 1 .. Len(s2) : t2[p] = s2[p]
      /\ t2[Len(s2) + 1] = Len(s1) + 1
      /\ j[w] = Len(s1) + 1
      /\ \A u \in 1 .. n : u # w => j[u] = id[u]
  BY EnterValues
<1>2. n \in Nat /\ Len(s1) + 1 <= n
  BY EnterPlaces DEF DigraphLike
<1>3. \A u \in 1 .. n : id[u] \in Nat /\ (id[u] # 0 /\ id[u] <= n => id[u] <= Len(s1))
  BY <1>2 DEF Places
<1> HIDE DEF fr2, t2, j
<1> SUFFICES ASSUME NEW x \in 1 .. n, NEW e \in 1 .. Len(adj[x]), j[x] # 0, Explored(fr2, x, e)
             PROVE  EdgeKept(n, t2, j, x, adj[x][e])
  BY DEF EdgesKept, fr2, t2, j
<1>4. e \in Nat /\ 1 <= e /\ adj[x][e] \in 1 .. n
  BY DEF DigraphLike
<1>5. x # w
  <2> SUFFICES ASSUME x = w PROVE FALSE
    OBVIOUS
  <2>1. Len(fr) + 1 \in 1 .. Len(fr2)
    BY <1>1
  <2>2. e < 1
    BY <1>1, <2>1 DEF Explored
  <2> QED  BY <1>4, <2>2
<1>6. j[x] = id[x] /\ id[x] # 0
  BY <1>1, <1>5
<1>7. Explored(fr, x, e)
  <2> SUFFICES ASSUME NEW f \in 1 .. Len(fr), fr[f].v = x PROVE e < fr[f].k
    BY DEF Explored
  <2>1. f \in 1 .. Len(fr2)
    BY <1>1
  <2> QED  BY <1>1, <2>1 DEF Explored
<1> DEFINE y == adj[x][e]
<1>8. CASE id[x] <= n /\ y = w
  <2>1. j[y] = Len(s1) + 1 /\ j[x] <= Len(s1)
    BY <1>1, <1>3, <1>6, <1>8
  <2>2. \A p \in 1 .. Len(t2) : t2[p] \in Nat
    <3>1. \A p \in 1 .. Len(s2) : s2[p] \in Nat
      BY DEF Beginnings
    <3>2. \A p \in 1 .. Len(t2) : p \in 1 .. Len(s2) \/ p = Len(s2) + 1
      BY <1>1
    <3> QED  BY <1>1, <3>1, <3>2
  <2>3. \A p \in 1 .. Len(t2) : t2[p] <= j[x] => t2[p] <= j[y]
    BY <1>1, <1>3, <1>6, <2>1, <2>2
  <2>4. j[y] # 0 /\ ~(j[x] > n)
    BY <1>1, <1>2, <1>3, <1>6, <1>8, <2>1
  <2> HIDE DEF y
  <2> QED  BY <2>3, <2>4 DEF EdgeKept, y
<1>9. CASE EdgeKept(n, s2, id, x, y)
  <2>1. id[y] # 0 /\ y # w /\ j[y] = id[y]
    BY <1>1, <1>4, <1>9 DEF EdgeKept
  <2>2. ASSUME id[x] <= n, id[y] <= n, NEW p \in 1 .. Len(t2), t2[p] <= id[x]
        PROVE  t2[p] <= id[y]
    <3>1. id[x] <= Len(s1)
      BY <1>3, <1>6, <2>2
    <3>2. p \in 1 .. Len(s2)
      <4>1. p = Len(s2) + 1 => t2[p] = Len(s1) + 1
        BY <1>1
      <4>2. p # Len(s2) + 1
        BY <1>1, <1>3, <2>2, <3>1, <4>1
      <4> QED  BY <1>1, <4>2
    <3> QED  BY <1>1, <1>9, <2>2, <3>2 DEF EdgeKept
  <2> HIDE DEF y
  <2> QED  BY <1>6, <1>9, <2>1, <2>2 DEF EdgeKept, y
<1> QED  BY <1>6, <1>7, <1>8, <1>9 DEF EdgesKeptBut

LEMMA EnterReach ==
  ASSUME NEW adj, DigraphLike(adj), NEW fr, NEW s1, NEW s2, NEW id, NEW count,
         Places(Len(adj), s1, id, count), CallsOpen(adj, fr, s1, id), Beginnings(fr, s2, id),
         NEW w \in 1 .. Len(adj), id[w] = 0,
         AboveReached(adj, fr, s1, id), PartsReach(adj, s1, s2), ComponentsReach(adj, id),
         \A f \in 1 .. Len(fr) : ReachesOrIs(adj, fr[f].v, w)
  PROVE  LET fr2 == Append(fr, [v |-> w, k |-> 1])
             t1 == Append(s1, w)
             t2 == Append(s2, Len(s1) + 1)
             j == [id EXCEPT ![w] = Len(s1) + 1]
         IN  AboveReached(adj, fr2, t1, j) /\ PartsReach(adj, t1, t2) /\ ComponentsReach(adj, j)
<1> DEFINE n == Len(adj)
           fr2 == Append(fr, [v |-> w, k |-> 1])
           t1 == Append(s1, w)
           t2 == Append(s2, Len(s1) + 1)
           j == [id EXCEPT ![w] = Len(s1) + 1]
<1>1. /\ Len(s1) \in Nat /\ Len(s2) \in Nat /\ Len(fr) \in Nat
      /\ Len(fr2) = Len(fr) + 1 /\ Len(t1) = Len(s1) + 1 /\ Len(t2) = Len(s2) + 1
      /\ \A f \in 1 .. Len(fr) : fr2[f].v = fr[f].v /\ fr2[f].k = fr[f].k
      /\ fr2[Len(fr) + 1].v = w /\ fr2[Len(fr) + 1].k = 1
      /\ \A q \in 1 .. Len(s1) : t1[q] = s1[q]
      /\ t1[Len(s1) + 1] = w
      /\ \A p \in 1 .. Len(s2) : t2[p] = s2[p]
      /\ t2[Len(s2) + 1] = Len(s1) + 1
      /\ j[w] = Len(s1) + 1
      /\ \A u \in 1 .. n : u # w => j[u] = id[u]
  BY EnterValues
<1>2. n \in Nat /\ Len(s1) + 1 <= n
  BY EnterPlaces DEF DigraphLike
<1>3. \A f \in 1 .. Len(fr) : fr[f].v \in 1 .. n /\ fr[f].v # w
  <2> DEFINE Fr == [v : 1 .. n, k : Nat \ {0}]
  <2>1. fr \in Seq(Fr) /\ \A f \in 1 .. Len(fr) : id[fr[f].v] \in 1 .. Len(s1)
    BY DEF CallsOpen
  <2>2. \A f \in 1 .. Len(fr) : fr[f] \in Fr
    <3> HIDE DEF Fr
    <3> QED  BY <2>1
  <2> QED  BY <1>1, <2>1, <2>2
<1>4. \A u \in 1 .. n : id[u] \in Nat
  BY DEF Places
<1>5. ReachesOrIs(adj, w, w)
  BY DEF ReachesOrIs
<1> HIDE DEF fr2, t1, t2, j
<1>6. AboveReached(adj, fr2, t1, j)
  <2> SUFFICES ASSUME NEW f \in 1 .. Len(fr2), NEW q \in 1 .. Len(t1), j[fr2[f].v] <= q
               PROVE  ReachesOrIs(adj, fr2[f].v, t1[q])
    BY DEF AboveReached
  <2>1. CASE f = Len(fr) + 1
    <3>1. q = Len(s1) + 1
      BY <1>1, <2>1
    <3> QED  BY <1>1, <1>5, <2>1, <3>1
  <2>2. CASE f \in 1 .. Len(fr)
    <3>1. fr2[f].v = fr[f].v /\ j[fr2[f].v] = id[fr[f].v]
      BY <1>1, <1>3, <2>2
    <3>2. CASE q \in 1 .. Len(s1)
      <4>1. t1[q] = s1[q]
        BY <1>1, <3>2
      <4> QED  BY <2>2, <3>1, <3>2, <4>1 DEF AboveReached
    <3>3. CASE q = Len(s1) + 1
      BY <1>1, <2>2, <3>1, <3>3
    <3> QED  BY <1>1, <3>2, <3>3
  <2> QED  BY <1>1, <2>1, <2>2
<1>7. PartsReach(adj, t1, t2)
  <2> SUFFICES ASSUME NEW p \in 1 .. Len(t1), NEW q \in 1 .. Len(t1), SamePart(t2, p, q)
               PROVE  ReachesOrIs(adj, t1[p], t1[q])
    BY DEF PartsReach
  <2>1. p \in 1 .. Len(s1) <=> q \in 1 .. Len(s1)
    <3>1. Len(s2) + 1 \in 1 .. Len(t2)
      BY <1>1
    <3>2. Len(s1) + 1 <= p <=> Len(s1) + 1 <= q
      BY <1>1, <3>1 DEF SamePart
    <3> QED  BY <1>1, <3>2
  <2>2. CASE p \in 1 .. Len(s1)
    <3>1. SamePart(s2, p, q)
      <4> SUFFICES ASSUME NEW r \in 1 .. Len(s2) PROVE s2[r] <= p <=> s2[r] <= q
        BY DEF SamePart
      <4>1. r \in 1 .. Len(t2) /\ t2[r] = s2[r]
        BY <1>1
      <4> QED  BY <4>1 DEF SamePart
    <3> QED  BY <1>1, <2>1, <2>2, <3>1 DEF PartsReach
  <2>3. CASE p \notin 1 .. Len(s1)
    <3>1. p = Len(s1) + 1 /\ q = Len(s1) + 1
      BY <1>1, <2>1, <2>3
    <3> QED  BY <1>1, <1>5, <3>1
  <2> QED  BY <2>2, <2>3
<1>8. ComponentsReach(adj, j)
  <2> SUFFICES ASSUME NEW u \in 1 .. n, NEW x \in 1 .. n, j[u] > n, j[u] = j[x]
               PROVE  ReachesOrIs(adj, u, x)
    BY DEF ComponentsReach
  <2>1. u # w /\ x # w
    BY <1>1, <1>2
  <2> QED  BY <1>1, <2>1 DEF ComponentsReach
<1> QED  BY <1>6, <1>7, <1>8 DEF fr2, t1, t2, j

------------------------------------------------------------------------------
(* The frame on top goes on from its next edge, to w.                        *)
FrameBumped(adj, fr, fr1, w) ==
  LET top == fr[Len(fr)]
  IN  /\ fr # << >>
      /\ top.k <= Len(adj[top.v])
      /\ w = adj[top.v][top.k]
      /\ fr1 = [fr EXCEPT ![Len(fr)].k = @ + 1]

LEMMA BumpFrame ==
  ASSUME NEW adj, DigraphLike(adj), NEW fr, NEW s1, NEW s2, NEW id, NEW count,
         Places(Len(adj), s1, id, count), CallsOpen(adj, fr, s1, id), Beginnings(fr, s2, id),
         EdgesKept(adj, fr, s2, id), AboveReached(adj, fr, s1, id),
         NEW fr1, NEW w, FrameBumped(adj, fr, fr1, w)
  PROVE  /\ w \in 1 .. Len(adj)
         /\ CallsOpen(adj, fr1, s1, id) /\ Beginnings(fr1, s2, id)
         /\ EdgesKeptBut(adj, fr1, s2, id, w)
         /\ AboveReached(adj, fr1, s1, id)
         /\ \A f \in 1 .. Len(fr1) : ReachesOrIs(adj, fr1[f].v, w)
         /\ fr1 # << >> /\ Len(fr1) = Len(fr)
         /\ fr1[Len(fr)].v = fr[Len(fr)].v
<1> DEFINE n == Len(adj)
           Fr == [v : 1 .. n, k : Nat \ {0}]
           top == Len(fr)
           x0 == fr[top].v
           k0 == fr[top].k
<1>0. /\ fr # << >> /\ k0 <= Len(adj[x0]) /\ w = adj[x0][k0]
      /\ fr1 = [fr EXCEPT ![top].k = @ + 1]
  BY DEF FrameBumped
<1>1. fr \in Seq(Fr) /\ top \in Nat /\ top \in 1 .. Len(fr)
  BY <1>0 DEF CallsOpen
<1>2. \A f \in 1 .. Len(fr) : fr[f] \in Fr
  <2> HIDE DEF Fr
  <2> QED  BY <1>1
<1>3. x0 \in 1 .. n /\ k0 \in Nat \ {0} /\ k0 \in 1 .. Len(adj[x0]) /\ Len(adj[x0]) \in Nat
  <2>1. x0 \in 1 .. n /\ k0 \in Nat \ {0}
    BY <1>1, <1>2
  <2> QED  BY <1>0, <2>1 DEF DigraphLike
<1>4. w \in 1 .. n /\ Adjacent(adj, x0, w)
  BY <1>0, <1>3 DEF DigraphLike, Adjacent
<1>5. fr1 = [fr EXCEPT ![top] = [fr[top] EXCEPT !.k = k0 + 1]]
  BY <1>0
<1>6. [fr[top] EXCEPT !.k = k0 + 1] \in Fr
  <2>1. fr[top] \in Fr /\ k0 + 1 \in Nat \ {0}
    BY <1>1, <1>2, <1>3
  <2> QED  BY <2>1
<1>7. /\ fr1 \in Seq(Fr) /\ Len(fr1) = Len(fr)
      /\ fr1[top] = [fr[top] EXCEPT !.k = k0 + 1]
      /\ \A f \in 1 .. Len(fr) : f # top => fr1[f] = fr[f]
  <2> DEFINE frame == [fr[top] EXCEPT !.k = k0 + 1]
  <2>1. fr1 = [fr EXCEPT ![top] = frame] /\ frame \in Fr
    BY <1>5, <1>6
  <2> HIDE DEF Fr, frame, top
  <2>2. fr1 \in Seq(Fr) /\ Len(fr1) = Len(fr) /\ \A f \in 1 .. Len(fr) :
          fr1[f] = IF f = top THEN frame ELSE fr[f]
    <3>1. /\ [fr EXCEPT ![top] = frame] \in Seq(Fr)
          /\ Len([fr EXCEPT ![top] = frame]) = Len(fr)
          /\ \A f \in 1 .. Len(fr) :
               [fr EXCEPT ![top] = frame][f] = IF f = top THEN frame ELSE fr[f]
      BY <1>1, <2>1, ExceptSeq
    <3> QED  BY <2>1, <3>1
  <2> QED  BY <1>1, <2>2 DEF frame
<1>8. fr1[top].v = x0 /\ fr1[top].k = k0 + 1
  <2>1. fr[top] \in Fr
    BY <1>1, <1>2
  <2> QED  BY <1>7, <2>1
<1>9. \A f \in 1 .. Len(fr) : fr1[f].v = fr[f].v
  BY <1>7, <1>8
<1>10. fr1 # << >>
  BY <1>1, <1>7
<1> HIDE DEF Fr, x0, k0, top
<1>11. CallsOpen(adj, fr1, s1, id)
  <2>1. ASSUME NEW f \in 1 .. Len(fr1)
        PROVE  /\ fr1[f].k <= Len(adj[fr1[f].v]) + 1
               /\ id[fr1[f].v] \in 1 .. Len(s1)
    <3>1. f \in 1 .. Len(fr)
      BY <1>7
    <3>2. id[fr1[f].v] \in 1 .. Len(s1)
      BY <1>9, <3>1 DEF CallsOpen
    <3>3. CASE f = top
      BY <1>3, <1>8, <3>2, <3>3
    <3>4. CASE f # top
      BY <1>7, <3>1, <3>2, <3>4 DEF CallsOpen
    <3> QED  BY <3>3, <3>4
  <2>2. \A f, g \in 1 .. Len(fr1) : f < g => id[fr1[f].v] < id[fr1[g].v]
    <3> SUFFICES ASSUME NEW f \in 1 .. Len(fr), NEW g \in 1 .. Len(fr), f < g
                 PROVE  id[fr1[f].v] < id[fr1[g].v]
      BY <1>7
    <3>1. id[fr[f].v] < id[fr[g].v]
      BY DEF CallsOpen
    <3> QED  BY <1>9, <3>1
  <2>3. id[fr1[1].v] = 1
    <3>1. 1 \in 1 .. Len(fr)
      BY <1>1 DEF top
    <3> QED  BY <1>9, <3>1 DEF CallsOpen
  <2> QED  BY <1>7, <1>10, <2>1, <2>2, <2>3 DEF CallsOpen, Fr
<1>12. Beginnings(fr1, s2, id)
  <2>1. \A p \in 1 .. Len(s2) : \E f \in 1 .. Len(fr1) : s2[p] = id[fr1[f].v]
    BY <1>7, <1>9 DEF Beginnings
  <2> QED  BY <1>0, <2>1 DEF Beginnings
<1>13. EdgesKeptBut(adj, fr1, s2, id, w)
  <2> SUFFICES ASSUME NEW x \in 1 .. n, NEW e \in 1 .. Len(adj[x]), id[x] # 0, Explored(fr1, x, e)
               PROVE  \/ EdgeKept(n, s2, id, x, adj[x][e])
                      \/ id[x] <= n /\ adj[x][e] = w
    BY DEF EdgesKeptBut
  <2>1. CASE x = x0 /\ e = k0
    <3>1. adj[x][e] = w
      BY <1>0, <2>1 DEF x0, k0, top
    <3>2. id[x0] \in 1 .. Len(s1)
      BY <1>1 DEF CallsOpen, x0, top
    <3>3. id[x] <= n
      BY <2>1, <3>2 DEF Places, DigraphLike
    <3> QED  BY <3>1, <3>3
  <2>2. CASE ~(x = x0 /\ e = k0)
    <3>1. e \in Nat
      BY DEF DigraphLike
    <3>2. Explored(fr, x, e)
      <4> SUFFICES ASSUME NEW f \in 1 .. Len(fr), fr[f].v = x PROVE e < fr[f].k
        BY DEF Explored
      <4>1. e < fr1[f].k
        BY <1>7, <1>9 DEF Explored
      <4>2. CASE f # top
        BY <1>7, <4>1, <4>2
      <4>3. CASE f = top
        <5>1. x = x0 /\ fr[f].k = k0
          BY <4>3 DEF x0, k0, top
        <5>2. e # k0 /\ e < k0 + 1
          BY <1>8, <2>2, <4>1, <4>3, <5>1
        <5> QED  BY <1>3, <3>1, <5>1, <5>2
      <4> QED  BY <4>2, <4>3
    <3> QED  BY <3>2 DEF EdgesKept
  <2> QED  BY <2>1, <2>2
<1>14. AboveReached(adj, fr1, s1, id)
  BY <1>7, <1>9 DEF AboveReached
<1>15. \A f \in 1 .. Len(fr1) : ReachesOrIs(adj, fr1[f].v, w)
  <2> SUFFICES ASSUME NEW f \in 1 .. Len(fr) PROVE ReachesOrIs(adj, fr[f].v, w)
    BY <1>7, <1>9
  <2>1. id[x0] \in 1 .. Len(s1) /\ s1[id[x0]] = x0
    <3>1. id[x0] \in 1 .. Len(s1)
      BY <1>1 DEF CallsOpen, x0, top
    <3> QED  BY <1>3, <3>1 DEF Places, DigraphLike
  <2>2. id[fr[f].v] <= id[x0]
    <3>1. f < top \/ f = top
      BY <1>1 DEF top
    <3>2. id[fr[f].v] \in 1 .. Len(s1) /\ (f < top => id[fr[f].v] < id[fr[top].v])
      BY <1>1 DEF CallsOpen
    <3> QED  BY <2>1, <3>1, <3>2 DEF x0
  <2>3. ReachesOrIs(adj, fr[f].v, x0)
    BY <2>1, <2>2 DEF AboveReached
  <2>4. fr[f].v \in 1 .. n /\ n \in Nat
    BY <1>2 DEF Fr, DigraphLike
  <2> QED  BY <1>3, <1>4, <2>3, <2>4, ReachesOrIsFacts
<1> QED  BY <1>4, <1>7, <1>8, <1>10, <1>11, <1>12, <1>13, <1>14, <1>15 DEF x0, top

(* How far DownTo goes down.                                                 *)
LEMMA DownToFacts ==
  ASSUME NEW s \in Seq(Nat \ {0}), NEW x \in Nat, s # << >>, s[1] <= x,
         \A p, q \in 1 .. Len(s) : p < q => s[p] < s[q]
  PROVE  \E m \in 1 .. Len(s) :
           /\ DownTo(s, x) = SubSeq(s, 1, m)
           /\ \A p \in 1 .. Len(s) : s[p] <= x <=> p <= m
<1> DEFINE M == { m \in 1 .. Len(s) : s[m] <= x }
           Is(m) == s[m] <= x /\ \A q \in m + 1 .. Len(s) : s[q] > x
<1>1. Len(s) \in Nat /\ 1 \in 1 .. Len(s) /\ \A p \in 1 .. Len(s) : s[p] \in Nat
  OBVIOUS
<1>2. M \in SUBSET (0 .. Len(s)) /\ M # {}
  BY <1>1
<1>3. PICK m1 \in M : \A p \in M : p <= m1
  <2> HIDE DEF M
  <2> QED  BY <1>1, <1>2, LargestBelow
<1>4. \E m \in 1 .. Len(s) : Is(m)
  BY <1>1, <1>3
<1>5. PICK m \in 1 .. Len(s) : m = (CHOOSE q \in 1 .. Len(s) : Is(q)) /\ Is(m)
  <2> HIDE DEF Is
  <2> QED  BY <1>4
<1>6. DownTo(s, x) = SubSeq(s, 1, m)
  BY <1>5 DEF DownTo
<1>7. \A p \in 1 .. Len(s) : s[p] <= x <=> p <= m
  <2> SUFFICES ASSUME NEW p \in 1 .. Len(s) PROVE s[p] <= x <=> p <= m
    OBVIOUS
  <2>1. CASE p <= m
    <3>1. s[p] \in Nat /\ s[m] \in Nat /\ (p < m => s[p] < s[m]) /\ s[m] <= x
      BY <1>1, <1>5
    <3> QED  BY <1>1, <2>1, <3>1
  <2>2. CASE m < p
    <3>1. p \in m + 1 .. Len(s)
      BY <1>1, <2>2
    <3>2. s[p] > x /\ s[p] \in Nat
      BY <1>1, <1>5, <3>1
    <3> QED  BY <2>2, <3>2
  <2> QED  BY <1>1, <2>1, <2>2
<1> QED  BY <1>6, <1>7

(* A place and the beginning before it are in one part.                      *)
LEMMA PartBegins ==
  ASSUME NEW s \in Seq(Nat \ {0}), NEW y \in Nat, s # << >>, s[1] <= y,
         \A p, q \in 1 .. Len(s) : p < q => s[p] < s[q]
  PROVE  \E m \in 1 .. Len(s) :
           /\ s[m] <= y /\ SamePart(s, s[m], y)
           /\ DownTo(s, y) = SubSeq(s, 1, m)
           /\ \A p \in 1 .. Len(s) : s[p] <= y <=> p <= m
<1>1. PICK m \in 1 .. Len(s) :
        DownTo(s, y) = SubSeq(s, 1, m) /\ \A p \in 1 .. Len(s) : s[p] <= y <=> p <= m
  BY DownToFacts
<1>2. \A p \in 1 .. Len(s) : s[p] <= s[m] <=> p <= m
  <2> SUFFICES ASSUME NEW p \in 1 .. Len(s) PROVE s[p] <= s[m] <=> p <= m
    OBVIOUS
  <2>1. s[p] \in Nat /\ s[m] \in Nat /\ (p < m => s[p] < s[m]) /\ (m < p => s[m] < s[p])
    OBVIOUS
  <2> QED  BY <2>1
<1>3. SamePart(s, s[m], y)
  BY <1>1, <1>2 DEF SamePart
<1>4. s[m] <= y
  BY <1>1
<1> QED  BY <1>1, <1>3, <1>4

LEMMA DownToKeeps ==
  ASSUME NEW adj, DigraphLike(adj), NEW fr, NEW s1, NEW s2, NEW id, NEW count,
         Places(Len(adj), s1, id, count), CallsOpen(adj, fr, s1, id), Beginnings(fr, s2, id),
         NEW w \in 1 .. Len(adj), id[w] # 0, fr # << >>,
         EdgesKeptBut(adj, fr, s2, id, w),
         AboveReached(adj, fr, s1, id), PartsReach(adj, s1, s2),
         \A f \in 1 .. Len(fr) : ReachesOrIs(adj, fr[f].v, w)
  PROVE  /\ Beginnings(fr, DownTo(s2, id[w]), id)
         /\ EdgesKept(adj, fr, DownTo(s2, id[w]), id)
         /\ PartsReach(adj, s1, DownTo(s2, id[w]))
<1> DEFINE n == Len(adj)
           Fr == [v : 1 .. n, k : Nat \ {0}]
           top == Len(fr)
           x0 == fr[top].v
           iw == id[w]
           t2 == DownTo(s2, iw)
<1>1. /\ s2 \in Seq(Nat \ {0}) /\ Len(s2) \in Nat /\ s2 # << >> /\ s2[1] = 1
      /\ \A p, q \in 1 .. Len(s2) : p < q => s2[p] < s2[q]
      /\ n \in Nat /\ s1 \in Seq(1 .. n) /\ Len(s1) \in Nat
      /\ \A u \in 1 .. n : id[u] \in Nat
      /\ \A q \in 1 .. Len(s1) : s1[q] \in 1 .. n
  BY DEF Beginnings, DigraphLike, Places
<1>2. iw \in Nat /\ s2[1] <= iw
  BY <1>1
<1>3. PICK m \in 1 .. Len(s2) :
        /\ s2[m] <= iw /\ SamePart(s2, s2[m], iw)
        /\ t2 = SubSeq(s2, 1, m)
        /\ \A p \in 1 .. Len(s2) : s2[p] <= iw <=> p <= m
  <2> HIDE DEF iw
  <2> QED  BY <1>1, <1>2, PartBegins
<1>4. /\ t2 \in Seq(Nat \ {0}) /\ Len(t2) = m /\ \A p \in 1 .. m : t2[p] = s2[p]
  <2>1. m \in 0 .. Len(s2)
    BY <1>1
  <2> QED  BY <1>1, <1>3, <2>1, PrefixFacts
<1>5. \A f \in 1 .. Len(fr) : fr[f].v \in 1 .. n /\ id[fr[f].v] \in 1 .. Len(s1) /\ s1[id[fr[f].v]] = fr[f].v
  <2> SUFFICES ASSUME NEW f \in 1 .. Len(fr)
               PROVE  fr[f].v \in 1 .. n /\ id[fr[f].v] \in 1 .. Len(s1) /\ s1[id[fr[f].v]] = fr[f].v
    OBVIOUS
  <2>1. fr \in Seq(Fr) /\ id[fr[f].v] \in 1 .. Len(s1)
    BY DEF CallsOpen
  <2>2. fr[f] \in Fr
    <3> HIDE DEF Fr
    <3> QED  BY <2>1
  <2>3. fr[f].v \in 1 .. n
    BY <2>2
  <2>4. Len(s1) <= n /\ (id[fr[f].v] = 0 \/ s1[id[fr[f].v]] = fr[f].v \/ id[fr[f].v] > n)
    BY <1>1, <2>3 DEF Places
  <2>5. PICK i : i = id[fr[f].v]
    OBVIOUS
  <2> HIDE DEF Fr, n
  <2>6. i \in 1 .. Len(s1) /\ i # 0 /\ ~(i > n)
    <3>1. i \in 1 .. Len(s1) /\ Len(s1) <= n /\ Len(s1) \in Nat /\ n \in Nat
      BY <1>1, <2>1, <2>4, <2>5
    <3> QED  BY <3>1
  <2> QED  BY <2>3, <2>4, <2>5, <2>6
<1>6. top \in 1 .. Len(fr) /\ \A f \in 1 .. Len(fr) : id[fr[f].v] <= id[x0]
  <2>1. top \in 1 .. Len(fr) /\ Len(fr) \in Nat
    BY DEF CallsOpen
  <2> SUFFICES ASSUME NEW f \in 1 .. Len(fr) PROVE id[fr[f].v] <= id[x0]
    BY <2>1
  <2>2. f < top \/ f = top
    BY <2>1
  <2>3. f < top => id[fr[f].v] < id[fr[top].v]
    BY <2>1 DEF CallsOpen
  <2>4. id[fr[f].v] \in Nat /\ id[x0] \in Nat
    BY <1>1, <1>5, <2>1
  <2> HIDE DEF top
  <2> QED  BY <2>2, <2>3, <2>4
<1>7. \A p \in 1 .. Len(s2) : s2[p] \in 1 .. Len(s1) /\ \A q \in 1 .. Len(s1) :
        s2[p] <= q => ReachesOrIs(adj, s1[s2[p]], s1[q])
  <2> SUFFICES ASSUME NEW p \in 1 .. Len(s2)
               PROVE  s2[p] \in 1 .. Len(s1) /\ \A q \in 1 .. Len(s1) :
                        s2[p] <= q => ReachesOrIs(adj, s1[s2[p]], s1[q])
    OBVIOUS
  <2>1. PICK f \in 1 .. Len(fr) : s2[p] = id[fr[f].v]
    BY DEF Beginnings
  <2>2. s1[s2[p]] = fr[f].v
    BY <1>5, <2>1
  <2> QED  BY <1>5, <2>1, <2>2 DEF AboveReached
<1> HIDE DEF t2, x0, top, iw
<1>8. Beginnings(fr, t2, id)
  <2>1. \A p, q \in 1 .. Len(t2) : p < q => t2[p] < t2[q]
    <3> SUFFICES ASSUME NEW p \in 1 .. m, NEW q \in 1 .. m, p < q PROVE t2[p] < t2[q]
      BY <1>4
    <3>1. p \in 1 .. Len(s2) /\ q \in 1 .. Len(s2)
      BY <1>1
    <3> QED  BY <1>1, <1>4, <3>1
  <2>2. \A p \in 1 .. Len(t2) : \E f \in 1 .. Len(fr) : t2[p] = id[fr[f].v]
    <3> SUFFICES ASSUME NEW p \in 1 .. m PROVE \E f \in 1 .. Len(fr) : t2[p] = id[fr[f].v]
      BY <1>4
    <3>1. p \in 1 .. Len(s2)
      BY <1>1
    <3> QED  BY <1>4, <3>1 DEF Beginnings
  <2>3. t2 # << >> /\ t2[1] = 1
    <3>1. 1 \in 1 .. m
      BY <1>1
    <3>2. Len(t2) # 0
      BY <1>1, <1>4
    <3> QED  BY <1>1, <1>4, <3>1, <3>2
  <2> QED  BY <1>4, <2>1, <2>2, <2>3 DEF Beginnings
<1>9. EdgesKept(adj, fr, t2, id)
  <2> SUFFICES ASSUME NEW x \in 1 .. n, NEW e \in 1 .. Len(adj[x]), id[x] # 0, Explored(fr, x, e)
               PROVE  EdgeKept(n, t2, id, x, adj[x][e])
    BY DEF EdgesKept
  <2>1. CASE id[x] <= n /\ adj[x][e] = w
    <3>1. \A p \in 1 .. Len(t2) : t2[p] <= iw
      <4> SUFFICES ASSUME NEW p \in 1 .. m PROVE t2[p] <= iw
        BY <1>4
      <4>1. p \in 1 .. Len(s2) /\ p <= m
        BY <1>1
      <4> QED  BY <1>3, <1>4, <4>1
    <3>2. ~(id[x] > n)
      BY <1>1, <2>1
    <3> QED  BY <2>1, <3>1, <3>2 DEF EdgeKept, iw
  <2>2. CASE EdgeKept(n, s2, id, x, adj[x][e])
    <3>1. \A p \in 1 .. Len(t2) : p \in 1 .. Len(s2) /\ t2[p] = s2[p]
      BY <1>1, <1>4
    <3> QED  BY <2>2, <3>1 DEF EdgeKept
  <2> QED  BY <2>1, <2>2 DEF EdgesKeptBut
<1>10. ASSUME NEW y \in 1 .. Len(s1), s2[m] <= y, iw <= n
       PROVE  ReachesOrIs(adj, x0, s1[y]) /\ ReachesOrIs(adj, s1[y], x0)
  <2>1. iw \in 1 .. Len(s1) /\ s1[iw] = w
    BY <1>1, <1>10 DEF Places, iw
  <2>2. ReachesOrIs(adj, w, s1[s2[m]])
    <3>1. SamePart(s2, iw, s2[m])
      BY <1>3 DEF SamePart
    <3> QED  BY <1>7, <2>1, <3>1 DEF PartsReach
  <2>3. ReachesOrIs(adj, s1[s2[m]], s1[y])
    BY <1>7, <1>10
  <2>4. ReachesOrIs(adj, x0, w)
    BY <1>6 DEF x0
  <2>5. /\ x0 \in 1 .. n /\ s1[s2[m]] \in 1 .. n /\ s1[y] \in 1 .. n
    <3>1. s2[m] \in 1 .. Len(s1)
      BY <1>7
    <3> QED  BY <1>1, <1>5, <1>6, <3>1 DEF x0
  <2>6. ReachesOrIs(adj, x0, s1[y])
    BY <1>1, <2>2, <2>3, <2>4, <2>5, ReachesOrIsFacts
  <2>7. PICK r \in 1 .. Len(s2) : s2[r] <= y /\ SamePart(s2, s2[r], y)
    <3>1. s2[1] <= y /\ y \in Nat
      BY <1>1
    <3> QED  BY <1>1, <3>1, PartBegins
  <2>8. ReachesOrIs(adj, s1[y], s1[s2[r]])
    <3>1. SamePart(s2, y, s2[r])
      BY <2>7 DEF SamePart
    <3> QED  BY <1>7, <3>1 DEF PartsReach
  <2>9. ReachesOrIs(adj, s1[s2[r]], x0)
    <3>1. s2[r] <= id[x0]
      <4>1. PICK f \in 1 .. Len(fr) : s2[r] = id[fr[f].v]
        BY DEF Beginnings
      <4> QED  BY <1>6, <4>1
    <3>2. id[x0] \in 1 .. Len(s1) /\ s1[id[x0]] = x0
      BY <1>5, <1>6 DEF x0
    <3> QED  BY <1>7, <3>1, <3>2
  <2>10. s1[s2[r]] \in 1 .. n
    BY <1>1, <1>7
  <2>11. ReachesOrIs(adj, s1[y], x0)
    BY <1>1, <2>5, <2>8, <2>9, <2>10, ReachesOrIsFacts
  <2> QED  BY <2>6, <2>11
<1>11. PartsReach(adj, s1, t2)
  <2> SUFFICES ASSUME NEW p \in 1 .. Len(s1), NEW q \in 1 .. Len(s1), SamePart(t2, p, q)
               PROVE  ReachesOrIs(adj, s1[p], s1[q])
    BY DEF PartsReach
  <2>1. CASE SamePart(s2, p, q)
    BY <2>1 DEF PartsReach
  <2>2. CASE ~SamePart(s2, p, q)
    <3>1. PICK r \in 1 .. Len(s2) : ~(s2[r] <= p <=> s2[r] <= q)
      BY <2>2 DEF SamePart
    <3>2. r > m
      <4> SUFFICES ASSUME r <= m PROVE FALSE
        BY <1>1
      <4>1. r \in 1 .. Len(t2) /\ t2[r] = s2[r]
        BY <1>1, <1>4
      <4> QED  BY <3>1, <4>1 DEF SamePart
    <3>3. s2[m] < s2[r] /\ s2[m] \in Nat /\ s2[r] \in Nat /\ ~(s2[r] <= iw)
      BY <1>1, <1>3, <3>2
    <3>4. s2[m] <= p <=> s2[m] <= q
      <4>1. m \in 1 .. Len(t2) /\ t2[m] = s2[m]
        BY <1>1, <1>4
      <4> QED  BY <4>1 DEF SamePart
    <3>5. s2[m] <= p /\ s2[m] <= q
      BY <3>1, <3>3, <3>4
    <3>6. iw <= n
      <4>1. s2[r] \in 1 .. Len(s1) /\ Len(s1) <= n
        BY <1>7 DEF Places
      <4> QED  BY <1>1, <1>2, <3>3, <4>1
    <3>7. ReachesOrIs(adj, s1[p], x0) /\ ReachesOrIs(adj, x0, s1[q])
      BY <1>10, <3>5, <3>6
    <3>8. x0 \in 1 .. n /\ s1[p] \in 1 .. n /\ s1[q] \in 1 .. n
      BY <1>1, <1>5, <1>6 DEF x0
    <3> QED  BY <1>1, <3>7, <3>8, ReachesOrIsFacts
  <2> QED  BY <2>1, <2>2
<1> QED  BY <1>8, <1>9, <1>11 DEF t2, iw

------------------------------------------------------------------------------
(* The frame on top is left when the edges of its vertex are done with.      *)
FrameSet(n) == [v : 1 .. n, k : Nat \ {0}]

LEMMA LeaveFacts ==
  ASSUME NEW adj, DigraphLike(adj), NEW fr, NEW s1, NEW id, NEW count,
         Places(Len(adj), s1, id, count), CallsOpen(adj, fr, s1, id),
         fr # << >>, fr[Len(fr)].k > Len(adj[fr[Len(fr)].v])
  PROVE  /\ Pop(fr) \in Seq(FrameSet(Len(adj)))
         /\ Len(fr) \in Nat \ {0}
         /\ Len(Pop(fr)) = Len(fr) - 1
         /\ \A f \in 1 .. Len(fr) - 1 : Pop(fr)[f] = fr[f]
         /\ \A f \in 1 .. Len(fr) :
              fr[f].v \in 1 .. Len(adj) /\ id[fr[f].v] \in 1 .. Len(s1) /\ s1[id[fr[f].v]] = fr[f].v
         /\ \A f \in 1 .. Len(fr) - 1 : id[fr[f].v] < id[fr[Len(fr)].v]
         /\ \A x \in 1 .. Len(adj) : \A e \in 1 .. Len(adj[x]) :
              Explored(Pop(fr), x, e) => Explored(fr, x, e)
<1> DEFINE n == Len(adj)
           Fr == [v : 1 .. n, k : Nat \ {0}]
           top == Len(fr)
<1>1. fr \in Seq(Fr) /\ top \in Nat /\ top \in 1 .. Len(fr) /\ top # 0
  BY DEF CallsOpen
<1>2. \A f \in 1 .. Len(fr) : fr[f] \in Fr
  <2> HIDE DEF Fr
  <2> QED  BY <1>1
<1>3. /\ Pop(fr) \in Seq(Fr) /\ Len(Pop(fr)) = Len(fr) - 1
      /\ \A f \in 1 .. Len(fr) - 1 : Pop(fr)[f] = fr[f]
  <2>1. Len(fr) - 1 \in 0 .. Len(fr)
    BY <1>1
  <2> HIDE DEF Fr
  <2> QED  BY <1>1, <2>1, PrefixFacts DEF Pop
<1>4. ASSUME NEW f \in 1 .. Len(fr)
      PROVE  fr[f].v \in 1 .. n /\ id[fr[f].v] \in 1 .. Len(s1) /\ s1[id[fr[f].v]] = fr[f].v
  <2>1. fr[f].v \in 1 .. n
    BY <1>2
  <2>2. id[fr[f].v] \in 1 .. Len(s1)
    BY DEF CallsOpen
  <2>3. PICK i : i = id[fr[f].v]
    OBVIOUS
  <2>4. i = 0 \/ s1[i] = fr[f].v \/ i > n
    BY <2>1, <2>3 DEF Places, DigraphLike
  <2> HIDE DEF Fr, n
  <2>5. i # 0 /\ ~(i > n)
    <3>1. i \in 1 .. Len(s1) /\ Len(s1) <= n /\ Len(s1) \in Nat /\ n \in Nat
      BY <2>2, <2>3 DEF Places, DigraphLike, n
    <3> QED  BY <3>1
  <2> QED  BY <2>1, <2>2, <2>3, <2>4, <2>5
<1>5. \A f \in 1 .. Len(fr) - 1 : id[fr[f].v] < id[fr[top].v]
  <2>1. \A f, g \in 1 .. Len(fr) : f < g => id[fr[f].v] < id[fr[g].v]
    BY DEF CallsOpen
  <2> HIDE DEF Fr
  <2>2. PICK m \in Nat : m = Len(fr) /\ m \in 1 .. m
    BY <1>1
  <2>3. \A f \in 1 .. m - 1 : id[fr[f].v] < id[fr[m].v]
    BY <2>1, <2>2
  <2> QED  BY <2>2, <2>3
<1>6. ASSUME NEW x \in 1 .. n, NEW e \in 1 .. Len(adj[x]), Explored(Pop(fr), x, e),
             NEW f \in 1 .. Len(fr), fr[f].v = x
      PROVE  e < fr[f].k
  <2>1. CASE f = top
    <3>1. fr[f].k \in Nat /\ Len(adj[x]) \in Nat /\ fr[f].k > Len(adj[x])
      BY <1>2, <1>6, <2>1 DEF DigraphLike
    <3> QED  BY <3>1
  <2>2. CASE f # top
    <3>1. f \in 1 .. Len(Pop(fr)) /\ Pop(fr)[f] = fr[f]
      <4>1. PICK m \in Nat : m = Len(fr)
        BY <1>1
      <4>2. f \in 1 .. m - 1
        BY <2>2, <4>1
      <4> HIDE DEF Fr
      <4> QED  BY <1>3, <4>1, <4>2
    <3> QED  BY <1>6, <3>1 DEF Explored
  <2> QED  BY <2>1, <2>2
<1>7. \A x \in 1 .. n : \A e \in 1 .. Len(adj[x]) : Explored(Pop(fr), x, e) => Explored(fr, x, e)
  BY <1>6 DEF Explored
<1> HIDE DEF Fr
<1> QED  BY <1>1, <1>3, <1>4, <1>5, <1>7 DEF Fr, FrameSet

(* Where no component begins.                                                *)
LEMMA LeaveKeeps ==
  ASSUME NEW adj, DigraphLike(adj), NEW fr, NEW s1, NEW s2, NEW id, NEW count,
         Places(Len(adj), s1, id, count), CallsOpen(adj, fr, s1, id), Beginnings(fr, s2, id),
         EdgesKept(adj, fr, s2, id), AboveReached(adj, fr, s1, id),
         fr # << >>, fr[Len(fr)].k > Len(adj[fr[Len(fr)].v]),
         s2[Len(s2)] # id[fr[Len(fr)].v]
  PROVE  /\ CallsOpen(adj, Pop(fr), s1, id) /\ Beginnings(Pop(fr), s2, id)
         /\ EdgesKept(adj, Pop(fr), s2, id) /\ AboveReached(adj, Pop(fr), s1, id)
         /\ Pop(fr) # << >>
         /\ fr[1] = Pop(fr)[1]
         /\ Len(fr) # 1
<1> DEFINE n == Len(adj)
           x0 == fr[Len(fr)].v
<1>0. PICK top \in Nat \ {0} : top = Len(fr)
  BY LeaveFacts
<1>1. /\ Pop(fr) \in Seq(FrameSet(n))
      /\ Len(Pop(fr)) = top - 1
      /\ \A f \in 1 .. top - 1 : Pop(fr)[f] = fr[f] /\ f \in 1 .. top
      /\ \A f \in 1 .. top :
           fr[f].v \in 1 .. n /\ id[fr[f].v] \in 1 .. Len(s1) /\ s1[id[fr[f].v]] = fr[f].v
      /\ \A f \in 1 .. top - 1 : id[fr[f].v] < id[x0]
      /\ \A x \in 1 .. n : \A e \in 1 .. Len(adj[x]) :
           Explored(Pop(fr), x, e) => Explored(fr, x, e)
  <2>1. /\ Pop(fr) \in Seq(FrameSet(n))
        /\ Len(Pop(fr)) = Len(fr) - 1
        /\ \A f \in 1 .. Len(fr) - 1 : Pop(fr)[f] = fr[f]
        /\ \A f \in 1 .. Len(fr) :
             fr[f].v \in 1 .. n /\ id[fr[f].v] \in 1 .. Len(s1) /\ s1[id[fr[f].v]] = fr[f].v
        /\ \A f \in 1 .. Len(fr) - 1 : id[fr[f].v] < id[x0]
        /\ \A x \in 1 .. n : \A e \in 1 .. Len(adj[x]) :
             Explored(Pop(fr), x, e) => Explored(fr, x, e)
    BY LeaveFacts
  <2>2. \A f \in 1 .. top - 1 : f \in 1 .. top
    OBVIOUS
  <2> HIDE DEF x0, n
  <2> QED  BY <1>0, <2>1, <2>2
<1>11. \A f \in 1 .. Len(Pop(fr)) : f \in 1 .. Len(fr) /\ Pop(fr)[f] = fr[f]
  BY <1>0, <1>1
<1>2. /\ s2 \in Seq(Nat \ {0}) /\ Len(s2) \in Nat /\ s2 # << >> /\ s2[1] = 1
      /\ \A p, q \in 1 .. Len(s2) : p < q => s2[p] < s2[q]
  BY DEF Beginnings
<1>3. ASSUME NEW p \in 1 .. Len(s2)
      PROVE  \E f \in 1 .. top - 1 : s2[p] = id[fr[f].v]
  <2>1. PICK f \in 1 .. top : s2[p] = id[fr[f].v]
    BY <1>0 DEF Beginnings
  <2>2. CASE f = top
    <3>1. Len(s2) \in 1 .. Len(s2) /\ (p < Len(s2) => s2[p] < s2[Len(s2)])
      BY <1>2
    <3>2. p # Len(s2)
      BY <1>0, <2>1, <2>2
    <3>3. id[x0] < s2[Len(s2)]
      BY <1>0, <1>2, <2>1, <2>2, <3>1, <3>2
    <3>4. PICK g \in 1 .. top : s2[Len(s2)] = id[fr[g].v]
      BY <1>0, <3>1 DEF Beginnings
    <3>5. g = top \/ id[fr[g].v] < id[x0]
      BY <1>1
    <3>6. s2[Len(s2)] \in Nat /\ id[x0] \in Nat
      BY <1>0, <1>2, <2>1, <2>2, <3>1
    <3>7. g = top => id[fr[g].v] = id[x0]
      BY <1>0
    <3> HIDE DEF x0
    <3> QED  BY <3>3, <3>4, <3>5, <3>6, <3>7
  <2>3. CASE f # top
    <3>1. f \in 1 .. top - 1
      BY <1>1, <2>3
    <3> QED  BY <2>1, <3>1
  <2> QED  BY <2>2, <2>3
<1>4. top # 1 /\ top - 1 \in Nat \ {0}
  <2>1. 1 \in 1 .. Len(s2)
    BY <1>2
  <2>2. PICK f \in 1 .. top - 1 : s2[1] = id[fr[f].v]
    BY <1>3, <2>1
  <2> QED  BY <1>1, <2>2
<1>5. Pop(fr) # << >> /\ fr[1] = Pop(fr)[1]
  <2>1. 1 \in 1 .. top - 1 /\ Len(Pop(fr)) # 0
    BY <1>1, <1>4
  <2> QED  BY <1>1, <2>1
<1> HIDE DEF x0
<1>6. CallsOpen(adj, Pop(fr), s1, id)
  <2>1. ASSUME NEW f \in 1 .. Len(Pop(fr))
        PROVE  /\ Pop(fr)[f].k <= Len(adj[Pop(fr)[f].v]) + 1
               /\ id[Pop(fr)[f].v] \in 1 .. Len(s1)
    <3>1. f \in 1 .. Len(fr) /\ Pop(fr)[f] = fr[f]
      BY <1>11
    <3> QED  BY <3>1 DEF CallsOpen
  <2>2. ASSUME NEW f \in 1 .. Len(Pop(fr)), NEW g \in 1 .. Len(Pop(fr)), f < g
        PROVE  id[Pop(fr)[f].v] < id[Pop(fr)[g].v]
    <3>1. f \in 1 .. Len(fr) /\ Pop(fr)[f] = fr[f] /\ g \in 1 .. Len(fr) /\ Pop(fr)[g] = fr[g]
      BY <1>11
    <3> QED  BY <2>2, <3>1 DEF CallsOpen
  <2>3. id[Pop(fr)[1].v] = 1
    BY <1>5 DEF CallsOpen
  <2> QED  BY <1>1, <1>5, <2>1, <2>2, <2>3 DEF CallsOpen, FrameSet
<1>7. Beginnings(Pop(fr), s2, id)
  <2>1. ASSUME NEW p \in 1 .. Len(s2)
        PROVE  \E f \in 1 .. Len(Pop(fr)) : s2[p] = id[Pop(fr)[f].v]
    <3>1. PICK f \in 1 .. top - 1 : s2[p] = id[fr[f].v]
      BY <1>3
    <3>2. f \in 1 .. Len(Pop(fr)) /\ Pop(fr)[f] = fr[f]
      BY <1>1
    <3> QED  BY <3>1, <3>2
  <2> QED  BY <1>2, <2>1 DEF Beginnings
<1>8. EdgesKept(adj, Pop(fr), s2, id)
  BY <1>1 DEF EdgesKept
<1>9. AboveReached(adj, Pop(fr), s1, id)
  <2> SUFFICES ASSUME NEW f \in 1 .. Len(Pop(fr)), NEW q \in 1 .. Len(s1), id[Pop(fr)[f].v] <= q
               PROVE  ReachesOrIs(adj, Pop(fr)[f].v, s1[q])
    BY DEF AboveReached
  <2>1. f \in 1 .. Len(fr) /\ Pop(fr)[f] = fr[f]
    BY <1>11
  <2> QED  BY <2>1 DEF AboveReached
<1> QED  BY <1>0, <1>4, <1>5, <1>6, <1>7, <1>8, <1>9

(* Where a component begins: the vertices above it in s1 are the component.  *)
ComponentLeaves(n, s1, id, place, comp, next, j) ==
  /\ comp = SubSeq(s1, place, Len(s1))
  /\ j = [w \in 1 .. n |-> IF \E q \in 1 .. Len(comp) : comp[q] = w THEN next ELSE id[w]]

LEMMA CloseFacts ==
  ASSUME NEW n \in Nat, NEW s1, NEW id, NEW count, Places(n, s1, id, count),
         NEW place \in 1 .. Len(s1),
         NEW comp, NEW j, ComponentLeaves(n, s1, id, place, comp, count + 1, j)
  PROVE  /\ comp \in Seq(1 .. n) /\ Len(comp) = Len(s1) - place + 1
         /\ \A q \in 1 .. Len(comp) : comp[q] = s1[place + q - 1]
         /\ \A w \in 1 .. n : (\E q \in 1 .. Len(comp) : comp[q] = w) <=> id[w] \in place .. Len(s1)
         /\ \A w \in 1 .. n : id[w] \in place .. Len(s1) => j[w] = count + 1
         /\ \A w \in 1 .. n : id[w] \notin place .. Len(s1) => j[w] = id[w]
         /\ Places(n, SubSeq(s1, 1, place - 1), j, count + 1)
         /\ Len(SubSeq(s1, 1, place - 1)) = place - 1
         /\ \A q \in 1 .. place - 1 : SubSeq(s1, 1, place - 1)[q] = s1[q]
<1> DEFINE t1 == SubSeq(s1, 1, place - 1)
<1>1. /\ s1 \in Seq(1 .. n) /\ Len(s1) \in Nat /\ Len(s1) <= n
      /\ id \in [1 .. n -> Nat]
      /\ \A q \in 1 .. Len(s1) : s1[q] \in 1 .. n /\ id[s1[q]] = q
      /\ count \in Nat /\ n <= count
  <2>1. /\ s1 \in Seq(1 .. n) /\ Len(s1) <= n
        /\ id \in [1 .. n -> Nat]
        /\ \A q \in 1 .. Len(s1) : id[s1[q]] = q
        /\ count \in Nat /\ n <= count
    BY DEF Places
  <2>2. Len(s1) \in Nat /\ \A q \in 1 .. Len(s1) : s1[q] \in 1 .. n
    BY <2>1, LenProperties, ElementOfSeq
  <2> QED  BY <2>1, <2>2
<1>2. PICK len \in Nat : len = Len(s1) /\ place \in 1 .. len
  BY <1>1
<1>3. /\ comp \in Seq(1 .. n) /\ Len(comp) = len - place + 1
      /\ \A q \in 1 .. len - place + 1 : comp[q] = s1[place + q - 1]
  BY <1>1, <1>2, SuffixFacts DEF ComponentLeaves
<1>4. /\ t1 \in Seq(1 .. n) /\ Len(t1) = place - 1
      /\ \A q \in 1 .. place - 1 : t1[q] = s1[q]
  <2>1. place - 1 \in 0 .. Len(s1)
    BY <1>2
  <2> QED  BY <1>1, <2>1, PrefixFacts
<1> HIDE DEF t1
<1>5. \A u \in 1 .. n :
        \/ id[u] = 0
        \/ id[u] \in 1 .. len /\ s1[id[u]] = u
        \/ id[u] \in n + 1 .. count
  BY <1>2 DEF Places
<1>6. ASSUME NEW w \in 1 .. n
      PROVE  (\E q \in 1 .. Len(comp) : comp[q] = w) <=> id[w] \in place .. len
  <2>1. ASSUME NEW q \in 1 .. Len(comp), comp[q] = w
        PROVE  id[w] \in place .. len
    <3>1. place + q - 1 \in place .. len /\ q \in 1 .. len - place + 1
      BY <1>2, <1>3
    <3>2. PICK r : r = place + q - 1
      OBVIOUS
    <3>3. s1[r] = w /\ r \in 1 .. len
      BY <1>2, <1>3, <2>1, <3>1, <3>2
    <3> QED  BY <1>1, <1>2, <3>1, <3>2, <3>3
  <2>2. ASSUME id[w] \in place .. len
        PROVE  \E q \in 1 .. Len(comp) : comp[q] = w
    <3>1. PICK i \in place .. len : i = id[w]
      BY <2>2
    <3>2. i # 0 /\ ~(i \in n + 1 .. count)
      BY <1>1, <1>2
    <3>3. s1[i] = w
      BY <1>5, <3>1, <3>2
    <3>4. i - place + 1 \in 1 .. len - place + 1 /\ place + (i - place + 1) - 1 = i
      BY <1>2
    <3> QED  BY <1>3, <3>3, <3>4
  <2> QED  BY <2>1, <2>2
<1>7. ASSUME NEW w \in 1 .. n
      PROVE  /\ id[w] \in place .. len => j[w] = count + 1
             /\ id[w] \notin place .. len => j[w] = id[w]
  <2>1. j[w] = IF \E q \in 1 .. Len(comp) : comp[q] = w THEN count + 1 ELSE id[w]
    BY DEF ComponentLeaves
  <2> QED  BY <1>6, <2>1
<1>8. j \in [1 .. n -> Nat]
  <2>1. j = [w \in 1 .. n |-> j[w]]
    BY DEF ComponentLeaves
  <2>2. ASSUME NEW w \in 1 .. n PROVE j[w] \in Nat
    <3>1. id[w] \in Nat /\ count + 1 \in Nat
      BY <1>1
    <3> QED  BY <1>7, <3>1
  <2> QED  BY <2>1, <2>2
<1>9. \A q \in 1 .. Len(t1) : j[t1[q]] = q
  <2> SUFFICES ASSUME NEW q \in 1 .. place - 1 PROVE j[t1[q]] = q
    BY <1>4
  <2>0. q \in 1 .. Len(s1)
    BY <1>2
  <2>1. PICK w \in 1 .. n : w = s1[q] /\ w = t1[q] /\ id[w] = q
    BY <1>1, <1>4, <2>0
  <2>2. q \notin place .. len
    BY <1>2
  <2> QED  BY <1>7, <2>1, <2>2
<1>10. ASSUME NEW u \in 1 .. n
       PROVE  \/ j[u] = 0
              \/ j[u] \in 1 .. Len(t1) /\ t1[j[u]] = u
              \/ j[u] \in n + 1 .. count + 1
  <2>1. CASE id[u] \in place .. len
    BY <1>1, <1>7, <2>1
  <2>2. CASE id[u] \notin place .. len
    <3>1. PICK i \in Nat : i = id[u] /\ j[u] = i
      BY <1>1, <1>7, <2>2
    <3>2. i = 0 \/ (i \in 1 .. len /\ s1[i] = u) \/ i \in n + 1 .. count
      BY <1>5, <3>1
    <3>3. i \in n + 1 .. count => i \in n + 1 .. count + 1
      BY <1>1
    <3>4. i \in 1 .. len => i \in 1 .. place - 1
      BY <1>2, <2>2, <3>1
    <3>5. i \in 1 .. len /\ s1[i] = u => i \in 1 .. Len(t1) /\ t1[i] = u
      BY <1>4, <3>4
    <3> QED  BY <3>1, <3>2, <3>3, <3>5
  <2> QED  BY <2>1, <2>2
<1>11. Len(t1) <= n /\ count + 1 \in Nat /\ n <= count + 1
  BY <1>1, <1>2, <1>4
<1>12. Places(n, t1, j, count + 1)
  BY <1>4, <1>8, <1>9, <1>10, <1>11 DEF Places
<1> QED  BY <1>2, <1>3, <1>4, <1>6, <1>7, <1>12 DEF t1

LEMMA CloseKeeps ==
  ASSUME NEW adj, DigraphLike(adj), NEW fr, NEW s1, NEW s2, NEW id, NEW count,
         Places(Len(adj), s1, id, count), CallsOpen(adj, fr, s1, id), Beginnings(fr, s2, id),
         EdgesKept(adj, fr, s2, id), AboveReached(adj, fr, s1, id),
         PartsReach(adj, s1, s2), ComponentsReach(adj, id),
         fr # << >>, fr[Len(fr)].k > Len(adj[fr[Len(fr)].v]),
         NEW place, place = id[fr[Len(fr)].v], s2[Len(s2)] = place,
         NEW comp, NEW j, ComponentLeaves(Len(adj), s1, id, place, comp, count + 1, j)
  PROVE  /\ CallsOpen(adj, Pop(fr), SubSeq(s1, 1, place - 1), j)
         /\ Beginnings(Pop(fr), Pop(s2), j)
         /\ EdgesKept(adj, Pop(fr), Pop(s2), j)
         /\ AboveReached(adj, Pop(fr), SubSeq(s1, 1, place - 1), j)
         /\ PartsReach(adj, SubSeq(s1, 1, place - 1), Pop(s2))
         /\ ComponentsReach(adj, j)
<1> DEFINE n == Len(adj)
           x0 == fr[Len(fr)].v
           t1 == SubSeq(s1, 1, place - 1)
           t2 == Pop(s2)
           fr1 == Pop(fr)
<1>0. PICK top \in Nat \ {0} : top = Len(fr)
  BY LeaveFacts
<1>1. /\ fr1 \in Seq(FrameSet(n))
      /\ Len(fr1) = top - 1
      /\ \A f \in 1 .. top - 1 : fr1[f] = fr[f] /\ f \in 1 .. top
      /\ \A f \in 1 .. top :
           fr[f].v \in 1 .. n /\ id[fr[f].v] \in 1 .. Len(s1) /\ s1[id[fr[f].v]] = fr[f].v
      /\ \A f \in 1 .. top - 1 : id[fr[f].v] < place
      /\ \A x \in 1 .. n : \A e \in 1 .. Len(adj[x]) :
           Explored(fr1, x, e) => Explored(fr, x, e)
      /\ place \in 1 .. Len(s1)
  <2>1. /\ fr1 \in Seq(FrameSet(n))
        /\ Len(fr1) = Len(fr) - 1
        /\ \A f \in 1 .. Len(fr) - 1 : fr1[f] = fr[f]
        /\ \A f \in 1 .. Len(fr) :
             fr[f].v \in 1 .. n /\ id[fr[f].v] \in 1 .. Len(s1) /\ s1[id[fr[f].v]] = fr[f].v
        /\ \A f \in 1 .. Len(fr) - 1 : id[fr[f].v] < id[x0]
        /\ \A x \in 1 .. n : \A e \in 1 .. Len(adj[x]) :
             Explored(fr1, x, e) => Explored(fr, x, e)
    BY LeaveFacts
  <2>2. \A f \in 1 .. top - 1 : f \in 1 .. top
    OBVIOUS
  <2>3. top \in 1 .. top /\ id[x0] = place /\ x0 = fr[top].v
    BY <1>0
  <2> HIDE DEF x0, n, fr1
  <2> QED  BY <1>0, <2>1, <2>2, <2>3
<1>2. n \in Nat
  BY DEF DigraphLike
<1>4. /\ \A w \in 1 .. n : id[w] \in place .. Len(s1) => j[w] = count + 1
      /\ \A w \in 1 .. n : id[w] \notin place .. Len(s1) => j[w] = id[w]
      /\ Len(t1) = place - 1
      /\ \A q \in 1 .. place - 1 : t1[q] = s1[q]
      /\ t1 \in Seq(1 .. n)
  <2>1. Places(n, s1, id, count) /\ place \in 1 .. Len(s1)
    BY <1>1
  <2>2. ComponentLeaves(n, s1, id, place, comp, count + 1, j)
    OBVIOUS
  <2>3. /\ \A w \in 1 .. n : id[w] \in place .. Len(s1) => j[w] = count + 1
        /\ \A w \in 1 .. n : id[w] \notin place .. Len(s1) => j[w] = id[w]
        /\ Len(t1) = place - 1
        /\ \A q \in 1 .. place - 1 : t1[q] = s1[q]
        /\ Places(n, t1, j, count + 1)
    <3> HIDE DEF n, x0, fr1, t2
    <3> QED  BY <1>2, <2>1, <2>2, CloseFacts
  <2> QED  BY <2>3 DEF Places
<1>5. PICK len \in Nat : len = Len(s1) /\ len <= n /\ place \in 1 .. len
  BY <1>1 DEF Places
<1>6. /\ count \in Nat /\ n <= count
      /\ \A u \in 1 .. n : id[u] \in Nat /\ (id[u] \in 0 .. len \/ id[u] \in n + 1 .. count)
      /\ \A u \in 1 .. n : id[u] \in 1 .. len => s1[id[u]] = u
  <2>1. /\ count \in Nat /\ n <= count
        /\ \A u \in 1 .. n : id[u] \in Nat
        /\ \A u \in 1 .. n :
             id[u] = 0 \/ (id[u] \in 1 .. len /\ s1[id[u]] = u) \/ id[u] \in n + 1 .. count
    BY <1>5 DEF Places
  <2>2. \A u \in 1 .. n : id[u] \in 1 .. len => id[u] # 0 /\ ~(id[u] \in n + 1 .. count)
    BY <1>2, <1>5, <2>1
  <2>3. \A u \in 1 .. n : id[u] = 0 \/ id[u] \in 1 .. len => id[u] \in 0 .. len
    BY <1>5
  <2> QED  BY <2>1, <2>2, <2>3
<1>7. PICK beg \in Nat \ {0} :
        /\ beg = Len(s2) /\ s2[beg] = place
        /\ s2 \in Seq(Nat \ {0}) /\ s2[1] = 1
        /\ \A p \in 1 .. beg : s2[p] \in Nat /\ (p # beg => s2[p] < place)
        /\ \A p, q \in 1 .. beg : p < q => s2[p] < s2[q]
  <2>1. /\ s2 \in Seq(Nat \ {0}) /\ s2 # << >> /\ s2[1] = 1
        /\ \A p, q \in 1 .. Len(s2) : p < q => s2[p] < s2[q]
    BY DEF Beginnings
  <2>2. Len(s2) \in Nat \ {0} /\ \A p \in 1 .. Len(s2) : s2[p] \in Nat \ {0}
    BY <2>1, LenProperties, ElementOfSeq, EmptySeq
  <2>3. PICK beg \in Nat \ {0} : beg = Len(s2)
    BY <2>2
  <2>4. \A p \in 1 .. beg : p # beg => s2[p] < place
    <3> SUFFICES ASSUME NEW p \in 1 .. beg, p # beg PROVE s2[p] < place
      OBVIOUS
    <3>1. p < beg /\ beg \in 1 .. beg
      OBVIOUS
    <3> QED  BY <2>1, <2>3, <3>1
  <2> QED  BY <2>1, <2>2, <2>3, <2>4
<1>8. /\ t2 \in Seq(Nat \ {0}) /\ Len(t2) = beg - 1
      /\ \A p \in 1 .. beg - 1 : t2[p] = s2[p] /\ p \in 1 .. beg
  <2>1. beg - 1 \in 0 .. Len(s2)
    BY <1>7
  <2> QED  BY <1>7, <2>1, PrefixFacts DEF Pop
<1> HIDE DEF t1, t2, fr1, x0
<1>9. ASSUME NEW f \in 1 .. top - 1
      PROVE  /\ fr1[f] = fr[f] /\ f \in 1 .. Len(fr) /\ f \in 1 .. top
             /\ fr[f].v \in 1 .. n
             /\ j[fr[f].v] = id[fr[f].v]
             /\ id[fr[f].v] \in 1 .. place - 1
  <2>1. fr1[f] = fr[f] /\ f \in 1 .. top /\ id[fr[f].v] < place
    BY <1>1
  <2>2. fr[f].v \in 1 .. n /\ id[fr[f].v] \in 1 .. len
    BY <1>1, <1>5, <2>1
  <2>3. id[fr[f].v] \in 1 .. place - 1 /\ id[fr[f].v] \notin place .. len
    BY <1>5, <2>1, <2>2
  <2> QED  BY <1>0, <1>4, <1>5, <2>1, <2>2, <2>3
<1>10. CallsOpen(adj, fr1, t1, j)
  <2>1. ASSUME NEW f \in 1 .. Len(fr1)
        PROVE  /\ fr1[f].k <= Len(adj[fr1[f].v]) + 1
               /\ j[fr1[f].v] \in 1 .. Len(t1)
    <3>1. fr1[f] = fr[f] /\ f \in 1 .. Len(fr) /\ j[fr[f].v] \in 1 .. place - 1
      BY <1>1, <1>9
    <3> QED  BY <1>4, <3>1 DEF CallsOpen
  <2>2. ASSUME NEW f \in 1 .. Len(fr1), NEW g \in 1 .. Len(fr1), f < g
        PROVE  j[fr1[f].v] < j[fr1[g].v]
    <3>1. /\ fr1[f] = fr[f] /\ f \in 1 .. Len(fr) /\ j[fr[f].v] = id[fr[f].v]
          /\ fr1[g] = fr[g] /\ g \in 1 .. Len(fr) /\ j[fr[g].v] = id[fr[g].v]
      BY <1>1, <1>9
    <3> QED  BY <2>2, <3>1 DEF CallsOpen
  <2>3. IF fr1 = << >> THEN t1 = << >> ELSE j[fr1[1].v] = 1
    <3>0. id[fr[1].v] = 1
      BY DEF CallsOpen
    <3>1. CASE top = 1
      <4>1. place = 1
        BY <1>0, <3>0, <3>1
      <4>2. Len(t1) = 0 /\ Len(fr1) = 0
        BY <1>1, <1>4, <3>1, <4>1
      <4> QED  BY <1>1, <1>4, <4>2, EmptySeq
    <3>2. CASE top # 1
      <4>1. 1 \in 1 .. top - 1 /\ Len(fr1) # 0
        BY <1>1, <3>2
      <4>2. fr1[1] = fr[1] /\ j[fr[1].v] = 1
        BY <1>9, <3>0, <4>1
      <4> QED  BY <1>1, <4>1, <4>2, EmptySeq
    <3> QED  BY <3>1, <3>2
  <2> QED  BY <1>1, <2>1, <2>2, <2>3 DEF CallsOpen, FrameSet
<1>11. Beginnings(fr1, t2, j)
  <2>1. ASSUME NEW p \in 1 .. Len(t2), NEW q \in 1 .. Len(t2), p < q
        PROVE  t2[p] < t2[q]
    BY <1>7, <1>8, <2>1
  <2>2. ASSUME NEW p \in 1 .. Len(t2)
        PROVE  \E f \in 1 .. Len(fr1) : t2[p] = j[fr1[f].v]
    <3>1. t2[p] = s2[p] /\ p \in 1 .. beg /\ p # beg
      BY <1>8
    <3>2. PICK f \in 1 .. top : s2[p] = id[fr[f].v]
      BY <1>0, <1>7, <3>1 DEF Beginnings
    <3>3. s2[p] # place
      BY <1>5, <1>7, <3>1
    <3>4. f # top
      BY <1>0, <3>2, <3>3
    <3>5. f \in 1 .. top - 1
      BY <3>4
    <3> QED  BY <1>1, <1>9, <3>1, <3>2, <3>5
  <2>3. fr1 # << >> => t2 # << >> /\ t2[1] = 1
    <3> SUFFICES ASSUME fr1 # << >> PROVE t2 # << >> /\ t2[1] = 1
      OBVIOUS
    <3>1. Len(fr1) # 0
      BY <1>1, EmptySeq
    <3>2. 1 \in 1 .. top - 1
      BY <1>1, <3>1
    <3>3. id[fr[1].v] = 1
      BY DEF CallsOpen
    <3>4. place # 1
      BY <1>5, <1>9, <3>2, <3>3
    <3>5. beg # 1
      BY <1>7, <3>4
    <3>6. 1 \in 1 .. beg - 1 /\ Len(t2) # 0
      BY <1>8, <3>5
    <3> QED  BY <1>7, <1>8, <3>6, EmptySeq
  <2> QED  BY <1>8, <2>1, <2>2, <2>3 DEF Beginnings
<1>12. EdgesKept(adj, fr1, t2, j)
  <2> SUFFICES ASSUME NEW x \in 1 .. n, NEW e \in 1 .. Len(adj[x]), j[x] # 0, Explored(fr1, x, e)
               PROVE  EdgeKept(n, t2, j, x, adj[x][e])
    BY DEF EdgesKept
  <2>1. PICK w \in 1 .. n : w = adj[x][e]
    BY DEF DigraphLike
  <2>2. id[x] # 0
    <3>1. id[x] \notin place .. len => id[x] # 0
      BY <1>4, <1>5
    <3> QED  BY <1>5, <3>1
  <2>3. EdgeKept(n, s2, id, x, w)
    BY <1>1, <2>1, <2>2 DEF EdgesKept
  <2>4. /\ id[x] \in Nat /\ id[w] \in Nat /\ id[w] # 0
        /\ id[x] \in place .. len => j[x] = count + 1
        /\ id[x] \notin place .. len => j[x] = id[x]
        /\ id[w] \in place .. len => j[w] = count + 1
        /\ id[w] \notin place .. len => j[w] = id[w]
        /\ id[w] \in 0 .. len \/ id[w] \in n + 1 .. count
        /\ id[x] \in 0 .. len \/ id[x] \in n + 1 .. count
    BY <1>4, <1>5, <1>6, <2>3 DEF EdgeKept
  <2>5. j[w] # 0
    BY <1>6, <2>4
  <2>6. ASSUME j[x] > n PROVE j[w] > n /\ j[w] <= j[x]
    <3>1. CASE id[x] > n
      <4>1. id[w] > n /\ id[w] <= id[x]
        BY <2>3, <3>1 DEF EdgeKept
      <4> QED  BY <1>2, <1>5, <2>4, <3>1, <4>1
    <3>2. CASE ~(id[x] > n)
      <4>1. id[x] \in place .. len
        BY <1>2, <1>5, <2>4, <2>6, <3>2
      <4>2. CASE id[w] > n
        BY <1>2, <1>5, <1>6, <2>4, <4>1, <4>2
      <4>3. CASE ~(id[w] > n)
        <5>1. id[x] <= n /\ id[w] <= n /\ beg \in 1 .. Len(s2) /\ s2[beg] <= id[x]
          BY <1>2, <1>5, <1>7, <2>4, <3>2, <4>1, <4>3
        <5>2. place <= id[w]
          BY <1>7, <2>3, <5>1 DEF EdgeKept
        <5>3. id[w] \in place .. len
          BY <1>2, <1>5, <2>4, <4>3, <5>2
        <5> QED  BY <1>2, <1>6, <2>4, <4>1, <5>3
      <4> QED  BY <4>2, <4>3
    <3> QED  BY <3>1, <3>2
  <2>7. ASSUME j[x] <= n, j[w] <= n, NEW p \in 1 .. Len(t2), t2[p] <= j[x]
        PROVE  t2[p] <= j[w]
    <3>1. j[x] = id[x] /\ j[w] = id[w]
      BY <1>2, <1>6, <2>4, <2>7
    <3>2. t2[p] = s2[p] /\ p \in 1 .. Len(s2)
      BY <1>7, <1>8
    <3> QED  BY <2>3, <2>7, <3>1, <3>2 DEF EdgeKept
  <2> QED  BY <2>1, <2>5, <2>6, <2>7 DEF EdgeKept
<1>13. AboveReached(adj, fr1, t1, j)
  <2> SUFFICES ASSUME NEW f \in 1 .. Len(fr1), NEW q \in 1 .. Len(t1), j[fr1[f].v] <= q
               PROVE  ReachesOrIs(adj, fr1[f].v, t1[q])
    BY DEF AboveReached
  <2>1. fr1[f] = fr[f] /\ f \in 1 .. Len(fr) /\ j[fr[f].v] = id[fr[f].v]
    BY <1>1, <1>9
  <2>2. q \in 1 .. Len(s1) /\ t1[q] = s1[q]
    BY <1>4, <1>5
  <2> QED  BY <2>1, <2>2 DEF AboveReached
<1>14. PartsReach(adj, t1, t2)
  <2> SUFFICES ASSUME NEW p \in 1 .. Len(t1), NEW q \in 1 .. Len(t1), SamePart(t2, p, q)
               PROVE  ReachesOrIs(adj, t1[p], t1[q])
    BY DEF PartsReach
  <2>1. /\ p \in 1 .. Len(s1) /\ t1[p] = s1[p] /\ p < place
        /\ q \in 1 .. Len(s1) /\ t1[q] = s1[q] /\ q < place
    <3>1. p \in 1 .. place - 1 /\ q \in 1 .. place - 1
      BY <1>4
    <3>2. \A r \in 1 .. place - 1 : r \in 1 .. len /\ r < place
      BY <1>5
    <3> QED  BY <1>4, <1>5, <3>1, <3>2
  <2>2. SamePart(s2, p, q)
    <3> SUFFICES ASSUME NEW r \in 1 .. beg PROVE s2[r] <= p <=> s2[r] <= q
      BY <1>7 DEF SamePart
    <3>1. CASE r = beg
      BY <1>5, <1>7, <2>1, <3>1
    <3>2. CASE r # beg
      <4>1. r \in 1 .. Len(t2)
        BY <1>8, <3>2
      <4> QED  BY <1>8, <4>1 DEF SamePart
    <3> QED  BY <3>1, <3>2
  <2> QED  BY <2>1, <2>2 DEF PartsReach
<1>15. ComponentsReach(adj, j)
  <2> SUFFICES ASSUME NEW u \in 1 .. n, NEW w \in 1 .. n, j[u] > n, j[u] = j[w]
               PROVE  ReachesOrIs(adj, u, w)
    BY DEF ComponentsReach
  <2>1. /\ id[u] \in Nat /\ id[w] \in Nat
        /\ id[u] \in place .. len => j[u] = count + 1
        /\ id[u] \notin place .. len => j[u] = id[u]
        /\ id[w] \in place .. len => j[w] = count + 1
        /\ id[w] \notin place .. len => j[w] = id[w]
        /\ id[w] \in 0 .. len \/ id[w] \in n + 1 .. count
        /\ id[u] \in 0 .. len \/ id[u] \in n + 1 .. count
    BY <1>4, <1>5, <1>6
  <2>2. CASE id[u] \in place .. len
    <3>1. id[w] \in place .. len
      BY <1>2, <1>5, <1>6, <2>1, <2>2
    <3>2. SamePart(s2, id[u], id[w])
      <4> SUFFICES ASSUME NEW r \in 1 .. beg PROVE s2[r] <= id[u] <=> s2[r] <= id[w]
        BY <1>7 DEF SamePart
      <4>1. s2[r] <= place /\ s2[r] \in Nat
        BY <1>5, <1>7
      <4> QED  BY <1>5, <2>2, <3>1, <4>1
    <3>3. id[u] \in 1 .. len /\ id[w] \in 1 .. len /\ s1[id[u]] = u /\ s1[id[w]] = w
      <4>1. id[u] \in 1 .. len /\ id[w] \in 1 .. len
        BY <1>5, <2>2, <3>1
      <4> QED  BY <1>6, <4>1
    <3> QED  BY <1>5, <3>2, <3>3 DEF PartsReach
  <2>3. CASE id[u] \notin place .. len
    <3>1. id[u] > n /\ id[u] = id[w]
      BY <1>2, <1>5, <1>6, <2>1, <2>3
    <3> QED  BY <3>1 DEF ComponentsReach
  <2> QED  BY <2>2, <2>3
<1> QED  BY <1>10, <1>11, <1>12, <1>13, <1>14, <1>15 DEF t1, t2, fr1

(* The components found are the vertices with their numbers.                 *)
LEMMA CloseComponents ==
  ASSUME NEW n \in Nat, NEW s1, NEW id, NEW count, Places(n, s1, id, count),
         NEW comps \in Seq(Seq(1 .. n)), InComponents(n, id, comps, count),
         NEW place \in 1 .. Len(s1),
         NEW comp, NEW j, ComponentLeaves(n, s1, id, place, comp, count + 1, j)
  PROVE  Append(comps, comp) \in Seq(Seq(1 .. n)) /\ InComponents(n, j, Append(comps, comp), count + 1)
<1> DEFINE cs == Append(comps, comp)
<1>1. /\ comp \in Seq(1 .. n)
      /\ \A w \in 1 .. n : (\E q \in 1 .. Len(comp) : comp[q] = w) <=> id[w] \in place .. Len(s1)
      /\ \A w \in 1 .. n : id[w] \in place .. Len(s1) => j[w] = count + 1
      /\ \A w \in 1 .. n : id[w] \notin place .. Len(s1) => j[w] = id[w]
  BY CloseFacts
<1>2. /\ cs \in Seq(Seq(1 .. n)) /\ Len(comps) \in Nat /\ Len(cs) = Len(comps) + 1
      /\ \A c \in 1 .. Len(comps) : cs[c] = comps[c]
      /\ cs[Len(comps) + 1] = comp
  BY <1>1, AppendFacts
<1>3. PICK k \in Nat : k = Len(comps)
  BY <1>2
<1>4. PICK len \in Nat : len = Len(s1) /\ len <= n /\ place \in 1 .. len
  <2>1. s1 \in Seq(1 .. n) /\ Len(s1) <= n
    BY DEF Places
  <2>2. Len(s1) \in Nat
    BY <2>1, LenProperties
  <2> QED  BY <2>1, <2>2
<1>5. count = n + k /\ \A u \in 1 .. n : id[u] \in Nat /\ id[u] <= count
  <2>1. /\ \A u \in 1 .. n : id[u] \in Nat
        /\ \A u \in 1 .. n :
             id[u] = 0 \/ id[u] \in 1 .. len \/ id[u] \in n + 1 .. count
    BY <1>4 DEF Places
  <2>2. count = n + k
    BY <1>3 DEF InComponents
  <2> QED  BY <1>4, <2>1, <2>2
<1> HIDE DEF cs
<1>6. ASSUME NEW c \in 1 .. Len(cs), NEW u \in 1 .. n
      PROVE  j[u] = n + c <=> \E q \in 1 .. Len(cs[c]) : cs[c][q] = u
  <2>1. CASE c = k + 1
    <3>1. cs[c] = comp /\ n + c = count + 1
      BY <1>2, <1>3, <1>5, <2>1
    <3>2. j[u] = n + c <=> id[u] \in place .. len
      <4>1. id[u] # count + 1
        BY <1>5
      <4> QED  BY <1>1, <1>4, <3>1, <4>1
    <3> QED  BY <1>1, <1>4, <3>1, <3>2
  <2>2. CASE c \in 1 .. k
    <3>1. cs[c] = comps[c] /\ c \in 1 .. Len(comps)
      BY <1>2, <1>3, <2>2
    <3>2. id[u] = n + c <=> \E q \in 1 .. Len(comps[c]) : comps[c][q] = u
      BY <3>1 DEF InComponents
    <3>3. j[u] = n + c <=> id[u] = n + c
      <4>1. id[u] \in place .. len => j[u] = count + 1 /\ id[u] <= n
        BY <1>1, <1>4
      <4>2. n + c # count + 1 /\ n + c > n
        BY <1>5, <2>2
      <4> QED  BY <1>1, <1>4, <1>5, <4>1, <4>2
    <3> QED  BY <3>1, <3>2, <3>3
  <2> QED  BY <1>2, <1>3, <2>1, <2>2
<1>7. count + 1 = n + Len(cs)
  BY <1>2, <1>3, <1>5
<1> QED  BY <1>2, <1>6, <1>7 DEF InComponents, cs

------------------------------------------------------------------------------
(* All of it, of the local variables l; and the same but for the edges to w. *)
GabowType(n) ==
  [ v : Nat, frames : Seq(FrameSet(n)), stack1 : Seq(1 .. n), stack2 : Seq(Nat \ {0}),
    id : [1 .. n -> Nat], count : Nat, comps : Seq(Seq(1 .. n)) ]

GabowRest(adj, l) ==
  /\ l \in GabowType(Len(adj))
  /\ Places(Len(adj), l.stack1, l.id, l.count)
  /\ CallsOpen(adj, l.frames, l.stack1, l.id)
  /\ Beginnings(l.frames, l.stack2, l.id)
  /\ AboveReached(adj, l.frames, l.stack1, l.id)
  /\ PartsReach(adj, l.stack1, l.stack2)
  /\ ComponentsReach(adj, l.id)
  /\ InComponents(Len(adj), l.id, l.comps, l.count)

Gabow(adj, l) == GabowRest(adj, l) /\ EdgesKept(adj, l.frames, l.stack2, l.id)

GabowBut(adj, l, w) == GabowRest(adj, l) /\ EdgesKeptBut(adj, l.frames, l.stack2, l.id, w)

(* What a step that finds no component leaves alone.                         *)
GoesOn(adj, l, m) ==
  /\ m.v = l.v /\ m.comps = l.comps
  /\ m.frames # << >>
  /\ \A u \in 1 .. Len(adj) : l.id[u] # 0 => m.id[u] # 0

LEMMA GabowTypeIs ==
  ASSUME NEW n, NEW v \in Nat, NEW fr \in Seq(FrameSet(n)), NEW s1 \in Seq(1 .. n),
         NEW s2 \in Seq(Nat \ {0}), NEW id \in [1 .. n -> Nat], NEW count \in Nat,
         NEW comps \in Seq(Seq(1 .. n))
  PROVE  [v |-> v, frames |-> fr, stack1 |-> s1, stack2 |-> s2, id |-> id, count |-> count,
          comps |-> comps] \in GabowType(n)
BY DEF GabowType

LEMMA GabowEnter ==
  ASSUME NEW adj, DigraphLike(adj), NEW l, NEW w \in 1 .. Len(adj),
         GabowBut(adj, l, w), l.id[w] = 0,
         \A f \in 1 .. Len(l.frames) : ReachesOrIs(adj, l.frames[f].v, w)
  PROVE  /\ Gabow(adj, Enter(l, w)) /\ GoesOn(adj, l, Enter(l, w))
         /\ Enter(l, w).frames[1].v = IF l.frames = << >> THEN w ELSE l.frames[1].v
         /\ Enter(l, w).id[w] # 0
<1> DEFINE n == Len(adj)
           new == [v |-> w, k |-> 1]
           m == Enter(l, w)
           s1 == l.stack1
           s2 == l.stack2
           fr == l.frames
           fr2 == Append(fr, new)
           t1 == Append(s1, w)
           t2 == Append(s2, Len(s1) + 1)
           j == [l.id EXCEPT ![w] = Len(s1) + 1]
<1>1. /\ l \in GabowType(n) /\ n \in Nat
      /\ Places(n, s1, l.id, l.count) /\ CallsOpen(adj, fr, s1, l.id)
      /\ Beginnings(fr, s2, l.id) /\ AboveReached(adj, fr, s1, l.id)
      /\ PartsReach(adj, s1, s2) /\ ComponentsReach(adj, l.id)
      /\ InComponents(n, l.id, l.comps, l.count)
      /\ EdgesKeptBut(adj, fr, s2, l.id, w)
  BY DEF GabowBut, GabowRest, DigraphLike
<1>2. /\ fr \in Seq(FrameSet(n)) /\ s1 \in Seq(1 .. n) /\ s2 \in Seq(Nat \ {0})
      /\ l.id \in [1 .. n -> Nat] /\ l.comps \in Seq(Seq(1 .. n)) /\ l.count \in Nat /\ l.v \in Nat
      /\ l = [v |-> l.v, frames |-> fr, stack1 |-> s1, stack2 |-> s2, id |-> l.id,
              count |-> l.count, comps |-> l.comps]
  <2> HIDE DEF n
  <2> QED  BY <1>1 DEF GabowType
<1>3. m = [v |-> l.v, frames |-> fr2, stack1 |-> t1, stack2 |-> t2, id |-> j,
           count |-> l.count, comps |-> l.comps]
  <2> HIDE DEF fr2, t1, t2, j
  <2>1. m = [l EXCEPT !.frames = fr2, !.stack1 = t1, !.stack2 = t2, !.id = j]
    BY DEF Enter, fr2, t1, t2, j
  <2> QED  BY <1>2, <2>1
<1>4. /\ m.v = l.v /\ m.frames = fr2 /\ m.stack1 = t1 /\ m.stack2 = t2 /\ m.id = j
      /\ m.count = l.count /\ m.comps = l.comps
  <2> HIDE DEF m, fr2, t1, t2, j
  <2> QED  BY <1>3
<1>5. /\ Places(n, t1, j, l.count) /\ Len(s1) + 1 <= n
  BY <1>1, EnterPlaces
<1>6. CallsOpen(adj, fr2, t1, j) /\ Beginnings(fr2, t2, j)
  BY <1>1, EnterCalls
<1>7. EdgesKept(adj, fr2, t2, j)
  BY <1>1, EnterEdges
<1>8. AboveReached(adj, fr2, t1, j) /\ PartsReach(adj, t1, t2) /\ ComponentsReach(adj, j)
  BY <1>1, EnterReach
<1>9. /\ Len(s1) \in Nat /\ j[w] = Len(s1) + 1
      /\ \A u \in 1 .. n : u # w => j[u] = l.id[u]
  BY <1>2, LenProperties
<1>10. /\ Len(fr) \in Nat /\ Len(fr2) = Len(fr) + 1
       /\ \A f \in 1 .. Len(fr) : fr2[f] = fr[f]
       /\ fr2[Len(fr) + 1] = new
       /\ fr2 # << >> /\ fr2 \in Seq(FrameSet(n))
  <2>1. new \in FrameSet(n)
    BY DEF FrameSet
  <2> HIDE DEF new
  <2> QED  BY <1>2, <2>1, AppendFacts
<1>11. fr2[1].v = IF fr = << >> THEN w ELSE fr[1].v
  <2>1. new.v = w
    OBVIOUS
  <2> HIDE DEF new, fr2
  <2>2. CASE fr = << >>
    BY <1>10, <2>1, <2>2
  <2>3. CASE fr # << >>
    <3>1. 1 \in 1 .. Len(fr)
      BY <1>2, <1>10, <2>3, EmptySeq
    <3> QED  BY <1>10, <2>3, <3>1
  <2> QED  BY <2>2, <2>3
<1> HIDE DEF fr2, t1, t2, j, m
<1>12. InComponents(n, j, l.comps, l.count)
  <2>1. \A c \in 1 .. Len(l.comps) : \A u \in 1 .. n : j[u] = n + c <=> l.id[u] = n + c
    <3> SUFFICES ASSUME NEW c \in 1 .. Len(l.comps), NEW u \in 1 .. n
                 PROVE  j[u] = n + c <=> l.id[u] = n + c
      OBVIOUS
    <3>1. n + c > n /\ n + c # 0 /\ c \in Nat
      BY <1>1, <1>2, LenProperties
    <3> QED  BY <1>1, <1>5, <1>9, <3>1
  <2> QED  BY <1>1, <2>1 DEF InComponents
<1>13. m \in GabowType(n)
  <2>1. t1 \in Seq(1 .. n) /\ t2 \in Seq(Nat \ {0}) /\ j \in [1 .. n -> Nat]
    BY <1>5, <1>6 DEF Places, Beginnings
  <2> HIDE DEF n
  <2> QED  BY <1>2, <1>3, <1>10, <2>1 DEF GabowType
<1>14. Gabow(adj, m)
  BY <1>4, <1>5, <1>6, <1>7, <1>8, <1>12, <1>13 DEF Gabow, GabowRest
<1>15. j[w] # 0 /\ \A u \in 1 .. n : l.id[u] # 0 => j[u] # 0
  BY <1>9
<1>16. GoesOn(adj, l, m)
  BY <1>4, <1>10, <1>15 DEF GoesOn
<1> QED  BY <1>4, <1>11, <1>14, <1>15, <1>16 DEF m

(* w is the next edge of the vertex on top, and m has it behind it.          *)
EdgeTaken(adj, l, w, m) ==
  LET top == l.frames[Len(l.frames)]
  IN  /\ l.frames # << >>
      /\ top.k <= Len(adj[top.v])
      /\ w = adj[top.v][top.k]
      /\ m = [l EXCEPT !.frames[Len(l.frames)].k = @ + 1]

LEMMA GabowBump ==
  ASSUME NEW adj, DigraphLike(adj), NEW l, Gabow(adj, l), NEW w, NEW m, EdgeTaken(adj, l, w, m)
  PROVE  /\ w \in 1 .. Len(adj)
         /\ GabowBut(adj, m, w)
         /\ \A f \in 1 .. Len(m.frames) : ReachesOrIs(adj, m.frames[f].v, w)
         /\ m.v = l.v /\ m.id = l.id /\ m.comps = l.comps /\ m.stack2 = l.stack2
         /\ m.frames # << >> /\ m.frames[1].v = l.frames[1].v
<1> DEFINE n == Len(adj)
           fr == l.frames
           fr1 == [fr EXCEPT ![Len(fr)].k = @ + 1]
<1>0. /\ fr # << >>
      /\ fr[Len(fr)].k <= Len(adj[fr[Len(fr)].v])
      /\ w = adj[fr[Len(fr)].v][fr[Len(fr)].k]
      /\ m = [l EXCEPT !.frames[Len(fr)].k = @ + 1]
  BY DEF EdgeTaken
<1>1. /\ l \in GabowType(n) /\ n \in Nat
      /\ Places(n, l.stack1, l.id, l.count) /\ CallsOpen(adj, fr, l.stack1, l.id)
      /\ Beginnings(fr, l.stack2, l.id) /\ AboveReached(adj, fr, l.stack1, l.id)
      /\ PartsReach(adj, l.stack1, l.stack2) /\ ComponentsReach(adj, l.id)
      /\ InComponents(n, l.id, l.comps, l.count)
      /\ EdgesKept(adj, fr, l.stack2, l.id)
  BY DEF Gabow, GabowRest, DigraphLike
<1>2. /\ fr \in Seq(FrameSet(n)) /\ l.stack1 \in Seq(1 .. n) /\ l.stack2 \in Seq(Nat \ {0})
      /\ l.id \in [1 .. n -> Nat] /\ l.comps \in Seq(Seq(1 .. n)) /\ l.count \in Nat /\ l.v \in Nat
      /\ l = [v |-> l.v, frames |-> fr, stack1 |-> l.stack1, stack2 |-> l.stack2, id |-> l.id,
              count |-> l.count, comps |-> l.comps]
  <2> HIDE DEF n
  <2> QED  BY <1>1 DEF GabowType
<1>3. m = [v |-> l.v, frames |-> fr1, stack1 |-> l.stack1, stack2 |-> l.stack2, id |-> l.id,
           count |-> l.count, comps |-> l.comps]
  <2>1. m = [l EXCEPT !.frames = fr1]
    BY <1>0, <1>2
  <2> HIDE DEF fr1
  <2> QED  BY <1>2, <2>1
<1>4. /\ m.v = l.v /\ m.frames = fr1 /\ m.stack1 = l.stack1 /\ m.stack2 = l.stack2
      /\ m.id = l.id /\ m.count = l.count /\ m.comps = l.comps
  <2> HIDE DEF fr1
  <2> QED  BY <1>3
<1>5. /\ w \in 1 .. n
      /\ CallsOpen(adj, fr1, l.stack1, l.id) /\ Beginnings(fr1, l.stack2, l.id)
      /\ EdgesKeptBut(adj, fr1, l.stack2, l.id, w)
      /\ AboveReached(adj, fr1, l.stack1, l.id)
      /\ \A f \in 1 .. Len(fr1) : ReachesOrIs(adj, fr1[f].v, w)
      /\ fr1 # << >> /\ Len(fr1) = Len(fr)
      /\ fr1[Len(fr)].v = fr[Len(fr)].v
  <2>1. /\ fr # << >>
        /\ fr[Len(fr)].k <= Len(adj[fr[Len(fr)].v])
        /\ w = adj[fr[Len(fr)].v][fr[Len(fr)].k]
    BY <1>0
  <2>2. fr1 = [fr EXCEPT ![Len(fr)].k = @ + 1]
    OBVIOUS
  <2>3. /\ Places(Len(adj), l.stack1, l.id, l.count) /\ CallsOpen(adj, fr, l.stack1, l.id)
        /\ Beginnings(fr, l.stack2, l.id) /\ EdgesKept(adj, fr, l.stack2, l.id)
        /\ AboveReached(adj, fr, l.stack1, l.id)
    BY <1>1
  <2>4. FrameBumped(adj, fr, fr1, w)
    BY <2>1, <2>2 DEF FrameBumped
  <2> HIDE DEF fr1, fr
  <2> QED  BY <2>3, <2>4, BumpFrame
<1>6. fr1 \in Seq(FrameSet(n))
  BY <1>5 DEF CallsOpen, FrameSet
<1>7. fr1[1].v = fr[1].v
  <2>1. CASE Len(fr) = 1
    BY <1>5, <2>1
  <2>2. CASE Len(fr) # 1
    <3>1. fr1[1] = fr[1]
      <4>1. fr \in [1 .. Len(fr) -> FrameSet(n)] /\ Len(fr) \in Nat /\ Len(fr) # 0
        BY <1>0, <1>2, LenProperties, EmptySeq
      <4>2. 1 \in 1 .. Len(fr)
        BY <4>1
      <4> QED  BY <2>2, <4>1, <4>2
    <3> QED  BY <3>1
  <2> QED  BY <2>1, <2>2
<1> HIDE DEF fr1
<1>8. m \in GabowType(n)
  <2>1. /\ l.stack1 \in Seq(1 .. n) /\ l.stack2 \in Seq(Nat \ {0}) /\ l.id \in [1 .. n -> Nat]
        /\ l.comps \in Seq(Seq(1 .. n)) /\ l.count \in Nat /\ l.v \in Nat
    BY <1>2
  <2>2. [v |-> l.v, frames |-> fr1, stack1 |-> l.stack1, stack2 |-> l.stack2, id |-> l.id,
         count |-> l.count, comps |-> l.comps] \in GabowType(n)
    <3> HIDE DEF n
    <3> QED  BY <1>6, <2>1, GabowTypeIs
  <2> QED  BY <1>3, <2>2, Zenon
<1>9. GabowBut(adj, m, w)
  BY <1>1, <1>4, <1>5, <1>8 DEF GabowBut, GabowRest
<1> QED  BY <1>4, <1>5, <1>7, <1>9

LEMMA GabowDown ==
  ASSUME NEW adj, DigraphLike(adj), NEW l, NEW w \in 1 .. Len(adj),
         GabowBut(adj, l, w), l.frames # << >>, l.id[w] # 0,
         \A f \in 1 .. Len(l.frames) : ReachesOrIs(adj, l.frames[f].v, w),
         NEW m, m = [l EXCEPT !.stack2 = DownTo(@, l.id[w])]
  PROVE  /\ Gabow(adj, m) /\ GoesOn(adj, l, m)
         /\ m.frames = l.frames
<1> DEFINE n == Len(adj)
           t2 == DownTo(l.stack2, l.id[w])
<1>1. /\ l \in GabowType(n) /\ n \in Nat
      /\ Places(n, l.stack1, l.id, l.count) /\ CallsOpen(adj, l.frames, l.stack1, l.id)
      /\ Beginnings(l.frames, l.stack2, l.id) /\ AboveReached(adj, l.frames, l.stack1, l.id)
      /\ PartsReach(adj, l.stack1, l.stack2) /\ ComponentsReach(adj, l.id)
      /\ InComponents(n, l.id, l.comps, l.count)
      /\ EdgesKeptBut(adj, l.frames, l.stack2, l.id, w)
  BY DEF GabowBut, GabowRest, DigraphLike
<1>2. /\ Beginnings(l.frames, t2, l.id)
      /\ EdgesKept(adj, l.frames, t2, l.id)
      /\ PartsReach(adj, l.stack1, t2)
  BY <1>1, DownToKeeps
<1>3. /\ l = [v |-> l.v, frames |-> l.frames, stack1 |-> l.stack1, stack2 |-> l.stack2, id |-> l.id,
              count |-> l.count, comps |-> l.comps]
      /\ l.frames \in Seq(FrameSet(n)) /\ l.stack1 \in Seq(1 .. n)
      /\ l.id \in [1 .. n -> Nat] /\ l.comps \in Seq(Seq(1 .. n)) /\ l.count \in Nat /\ l.v \in Nat
  <2> HIDE DEF n
  <2> QED  BY <1>1 DEF GabowType
<1> HIDE DEF t2
<1>4. m = [v |-> l.v, frames |-> l.frames, stack1 |-> l.stack1, stack2 |-> t2, id |-> l.id,
           count |-> l.count, comps |-> l.comps]
  BY <1>3 DEF t2
<1>5. /\ m.v = l.v /\ m.frames = l.frames /\ m.stack1 = l.stack1 /\ m.stack2 = t2
      /\ m.id = l.id /\ m.count = l.count /\ m.comps = l.comps
  BY <1>4
<1>6. m \in GabowType(n)
  <2>1. t2 \in Seq(Nat \ {0})
    BY <1>2 DEF Beginnings
  <2>2. /\ l.frames \in Seq(FrameSet(n)) /\ l.stack1 \in Seq(1 .. n) /\ l.id \in [1 .. n -> Nat]
        /\ l.comps \in Seq(Seq(1 .. n)) /\ l.count \in Nat /\ l.v \in Nat
    BY <1>3
  <2>3. [v |-> l.v, frames |-> l.frames, stack1 |-> l.stack1, stack2 |-> t2, id |-> l.id,
         count |-> l.count, comps |-> l.comps] \in GabowType(n)
    <3> HIDE DEF n
    <3> QED  BY <2>1, <2>2, GabowTypeIs
  <2> QED  BY <1>4, <2>3, Zenon
<1>7. Gabow(adj, m)
  BY <1>1, <1>2, <1>5, <1>6 DEF Gabow, GabowRest
<1> QED  BY <1>5, <1>7 DEF GoesOn

LEMMA GabowLeave ==
  ASSUME NEW adj, DigraphLike(adj), NEW l, Gabow(adj, l), l.frames # << >>,
         NEW x, x = l.frames[Len(l.frames)].v,
         l.frames[Len(l.frames)].k > Len(adj[x]),
         l.stack2[Len(l.stack2)] # l.id[x],
         NEW m, m = [l EXCEPT !.frames = Pop(l.frames)]
  PROVE  /\ Gabow(adj, m) /\ GoesOn(adj, l, m)
         /\ m.frames[1] = l.frames[1]
         /\ Len(l.frames) # 1
<1> DEFINE n == Len(adj)
           fr == Pop(l.frames)
<1>1. /\ l \in GabowType(n) /\ n \in Nat
      /\ Places(n, l.stack1, l.id, l.count) /\ CallsOpen(adj, l.frames, l.stack1, l.id)
      /\ Beginnings(l.frames, l.stack2, l.id) /\ AboveReached(adj, l.frames, l.stack1, l.id)
      /\ PartsReach(adj, l.stack1, l.stack2) /\ ComponentsReach(adj, l.id)
      /\ InComponents(n, l.id, l.comps, l.count)
      /\ EdgesKept(adj, l.frames, l.stack2, l.id)
  BY DEF Gabow, GabowRest, DigraphLike
<1>2. /\ CallsOpen(adj, fr, l.stack1, l.id) /\ Beginnings(fr, l.stack2, l.id)
      /\ EdgesKept(adj, fr, l.stack2, l.id) /\ AboveReached(adj, fr, l.stack1, l.id)
      /\ fr # << >>
      /\ l.frames[1] = fr[1]
      /\ Len(l.frames) # 1
  BY <1>1, LeaveKeeps
<1>3. /\ l = [v |-> l.v, frames |-> l.frames, stack1 |-> l.stack1, stack2 |-> l.stack2, id |-> l.id,
              count |-> l.count, comps |-> l.comps]
      /\ l.stack1 \in Seq(1 .. n) /\ l.stack2 \in Seq(Nat \ {0})
      /\ l.id \in [1 .. n -> Nat] /\ l.comps \in Seq(Seq(1 .. n)) /\ l.count \in Nat /\ l.v \in Nat
  <2> HIDE DEF n
  <2> QED  BY <1>1 DEF GabowType
<1>4. fr \in Seq(FrameSet(n))
  BY <1>2 DEF CallsOpen, FrameSet
<1> HIDE DEF fr
<1>5. m = [v |-> l.v, frames |-> fr, stack1 |-> l.stack1, stack2 |-> l.stack2, id |-> l.id,
           count |-> l.count, comps |-> l.comps]
  BY <1>3 DEF fr
<1>6. /\ m.v = l.v /\ m.frames = fr /\ m.stack1 = l.stack1 /\ m.stack2 = l.stack2
      /\ m.id = l.id /\ m.count = l.count /\ m.comps = l.comps
  BY <1>5
<1>7. m \in GabowType(n)
  <2>1. /\ l.stack1 \in Seq(1 .. n) /\ l.stack2 \in Seq(Nat \ {0}) /\ l.id \in [1 .. n -> Nat]
        /\ l.comps \in Seq(Seq(1 .. n)) /\ l.count \in Nat /\ l.v \in Nat
    BY <1>3
  <2>2. [v |-> l.v, frames |-> fr, stack1 |-> l.stack1, stack2 |-> l.stack2, id |-> l.id,
         count |-> l.count, comps |-> l.comps] \in GabowType(n)
    <3> HIDE DEF n
    <3> QED  BY <1>4, <2>1, GabowTypeIs
  <2> QED  BY <1>5, <2>2, Zenon
<1>8. Gabow(adj, m)
  BY <1>1, <1>2, <1>6, <1>7 DEF Gabow, GabowRest
<1> QED  BY <1>2, <1>6, <1>8 DEF GoesOn

(* The vertex on top is left, and the vertices from it on in s1 are taken off*)
(* as the component comp; v is where the loop over the vertices is then.     *)
ComponentTaken(adj, l, place, comp, j, v, m) ==
  LET top == l.frames[Len(l.frames)]
  IN  /\ l.frames # << >>
      /\ top.k > Len(adj[top.v])
      /\ place = l.id[top.v]
      /\ l.stack2[Len(l.stack2)] = place
      /\ ComponentLeaves(Len(adj), l.stack1, l.id, place, comp, l.count + 1, j)
      /\ v \in Nat
      /\ m = [ v |-> v, frames |-> Pop(l.frames), stack1 |-> SubSeq(l.stack1, 1, place - 1),
               stack2 |-> Pop(l.stack2), id |-> j, count |-> l.count + 1,
               comps |-> Append(l.comps, comp) ]

LEMMA GabowClose ==
  ASSUME NEW adj, DigraphLike(adj), NEW l, Gabow(adj, l),
         NEW place, NEW comp, NEW j, NEW v, NEW m, ComponentTaken(adj, l, place, comp, j, v, m)
  PROVE  /\ Gabow(adj, m)
         /\ \A u \in 1 .. Len(adj) : l.id[u] # 0 => m.id[u] # 0
         /\ Len(l.frames) # 1 => m.frames # << >> /\ m.frames[1] = l.frames[1]
         /\ Len(l.frames) = 1 => m.frames = << >>
<1> DEFINE n == Len(adj)
           fr == Pop(l.frames)
           t1 == SubSeq(l.stack1, 1, place - 1)
           t2 == Pop(l.stack2)
           cs == Append(l.comps, comp)
<1>0. /\ l.frames # << >>
      /\ l.frames[Len(l.frames)].k > Len(adj[l.frames[Len(l.frames)].v])
      /\ place = l.id[l.frames[Len(l.frames)].v]
      /\ l.stack2[Len(l.stack2)] = place
      /\ ComponentLeaves(Len(adj), l.stack1, l.id, place, comp, l.count + 1, j)
      /\ v \in Nat
  BY DEF ComponentTaken
<1>1. /\ l \in GabowType(n) /\ n \in Nat
      /\ Places(n, l.stack1, l.id, l.count) /\ CallsOpen(adj, l.frames, l.stack1, l.id)
      /\ Beginnings(l.frames, l.stack2, l.id) /\ AboveReached(adj, l.frames, l.stack1, l.id)
      /\ PartsReach(adj, l.stack1, l.stack2) /\ ComponentsReach(adj, l.id)
      /\ InComponents(n, l.id, l.comps, l.count)
      /\ EdgesKept(adj, l.frames, l.stack2, l.id)
  BY DEF Gabow, GabowRest, DigraphLike
<1>2. /\ Len(l.frames) \in Nat \ {0}
      /\ Len(fr) = Len(l.frames) - 1
      /\ \A f \in 1 .. Len(l.frames) - 1 : fr[f] = l.frames[f]
      /\ fr \in Seq(FrameSet(n))
      /\ \A f \in 1 .. Len(l.frames) : l.id[l.frames[f].v] \in 1 .. Len(l.stack1)
  BY <1>0, <1>1, LeaveFacts
<1>3. place \in 1 .. Len(l.stack1)
  <2>1. Len(l.frames) \in 1 .. Len(l.frames)
    BY <1>2
  <2> QED  BY <1>0, <1>2, <2>1
<1>4. /\ CallsOpen(adj, fr, t1, j) /\ Beginnings(fr, t2, j) /\ EdgesKept(adj, fr, t2, j)
      /\ AboveReached(adj, fr, t1, j) /\ PartsReach(adj, t1, t2) /\ ComponentsReach(adj, j)
  BY <1>0, <1>1, CloseKeeps
<1>5. l.comps \in Seq(Seq(1 .. n)) /\ l.count \in Nat
  <2> HIDE DEF n
  <2> QED  BY <1>1 DEF GabowType
<1>6. cs \in Seq(Seq(1 .. n)) /\ InComponents(n, j, cs, l.count + 1)
  <2>1. ComponentLeaves(n, l.stack1, l.id, place, comp, l.count + 1, j)
    BY <1>0
  <2> HIDE DEF n
  <2> QED  BY <1>1, <1>3, <1>5, <2>1, CloseComponents
<1>7. Places(n, t1, j, l.count + 1) /\ \A u \in 1 .. n : l.id[u] # 0 => j[u] # 0
  <2>1. Places(n, t1, j, l.count + 1)
    <3>1. ComponentLeaves(n, l.stack1, l.id, place, comp, l.count + 1, j)
      BY <1>0
    <3>2. n \in Nat /\ Places(n, l.stack1, l.id, l.count)
      BY <1>1
    <3> HIDE DEF n, fr, t2, cs
    <3> QED  BY <1>3, <3>1, <3>2, CloseFacts
  <2>2. l.count + 1 # 0
    BY <1>5
  <2>3. \A u \in 1 .. n : j[u] = l.count + 1 \/ j[u] = l.id[u]
    BY <1>0 DEF ComponentLeaves
  <2> QED  BY <2>1, <2>2, <2>3
<1> HIDE DEF fr, t1, t2, cs
<1>8. /\ m.v = v /\ m.frames = fr /\ m.stack1 = t1 /\ m.stack2 = t2
      /\ m.id = j /\ m.count = l.count + 1 /\ m.comps = cs
  BY DEF ComponentTaken, fr, t1, t2, cs
<1>9. m \in GabowType(n)
  <2>1. /\ t1 \in Seq(1 .. n) /\ t2 \in Seq(Nat \ {0}) /\ j \in [1 .. n -> Nat]
        /\ l.count + 1 \in Nat
    BY <1>4, <1>5, <1>7 DEF Places, Beginnings
  <2>2. [v |-> v, frames |-> fr, stack1 |-> t1, stack2 |-> t2, id |-> j,
         count |-> l.count + 1, comps |-> cs] \in GabowType(n)
    <3> HIDE DEF n
    <3> QED  BY <1>0, <1>2, <1>6, <2>1, GabowTypeIs
  <2> QED  BY <2>2 DEF ComponentTaken, fr, t1, t2, cs
<1>10. Gabow(adj, m)
  BY <1>4, <1>6, <1>7, <1>8, <1>9 DEF Gabow, GabowRest
<1>11. Len(l.frames) # 1 => fr # << >> /\ fr[1] = l.frames[1]
  <2> SUFFICES ASSUME Len(l.frames) # 1 PROVE fr # << >> /\ fr[1] = l.frames[1]
    OBVIOUS
  <2>0. PICK top \in Nat \ {0} : top = Len(l.frames)
    BY <1>2
  <2>1. 1 \in 1 .. Len(l.frames) - 1 /\ Len(fr) # 0
    <3>0. top # 1
      BY <2>0
    <3>1. 1 \in 1 .. top - 1 /\ top - 1 # 0
      BY <3>0
    <3> QED  BY <1>2, <2>0, <3>1
  <2> QED  BY <1>2, <2>1, EmptySeq
<1>12. Len(l.frames) = 1 => fr = << >>
  BY <1>2, EmptySeq
<1> QED  BY <1>7, <1>8, <1>10, <1>11, <1>12

(* What Closed takes off, of a state function l.                             *)
IsAt(l, v, place) == place \in 1 .. Len(l.stack1) /\ l.stack1[place] = v

LEMMA ClosedIs ==
  ASSUME NEW l \in GabowType(N), N \in Nat, NEW v, NEW place, IsAt(l, v, place),
         Places(N, l.stack1, l.id, l.count)
  PROVE  \E comp, j :
           /\ ComponentLeaves(N, l.stack1, l.id, place, comp, l.count + 1, j)
           /\ Closed(l, v) =
                [ v |-> l.v, frames |-> l.frames, stack1 |-> SubSeq(l.stack1, 1, place - 1),
                  stack2 |-> Pop(l.stack2), id |-> j, count |-> l.count + 1,
                  comps |-> Append(l.comps, comp) ]
<1> DEFINE comp == SubSeq(l.stack1, place, Len(l.stack1))
           j == [w \in V |-> IF \E q \in 1 .. Len(comp) : comp[q] = w
                             THEN l.count + 1 ELSE l.id[w]]
<1>1. (CHOOSE q \in 1 .. Len(l.stack1) : l.stack1[q] = v) = place
  <2>1. \A q \in 1 .. Len(l.stack1) : l.stack1[q] = v => q = place
    BY DEF Places, IsAt
  <2> QED  BY <2>1 DEF IsAt
<1>2. Closed(l, v) =
        [l EXCEPT !.stack1 = SubSeq(@, 1, place - 1), !.stack2 = Pop(@), !.count = @ + 1,
                  !.id = [w \in V |-> IF \E q \in 1 .. Len(comp) : comp[q] = w
                                      THEN l.count + 1 ELSE @[w]],
                  !.comps = Append(@, comp)]
  BY <1>1 DEF Closed
<1>3. l = [v |-> l.v, frames |-> l.frames, stack1 |-> l.stack1, stack2 |-> l.stack2, id |-> l.id,
           count |-> l.count, comps |-> l.comps]
  BY DEF GabowType
<1>4. ComponentLeaves(N, l.stack1, l.id, place, comp, l.count + 1, j)
  BY DEF ComponentLeaves, V, N, Vertices
<1>5. Closed(l, v) =
        [l EXCEPT !.stack1 = SubSeq(l.stack1, 1, place - 1), !.stack2 = Pop(l.stack2),
                  !.count = l.count + 1, !.id = j, !.comps = Append(l.comps, comp)]
  BY <1>2, <1>3
<1> HIDE DEF comp, j
<1>6. Closed(l, v) =
        [ v |-> l.v, frames |-> l.frames, stack1 |-> SubSeq(l.stack1, 1, place - 1),
          stack2 |-> Pop(l.stack2), id |-> j, count |-> l.count + 1,
          comps |-> Append(l.comps, comp) ]
  BY <1>3, <1>5
<1> QED  BY <1>4, <1>6

------------------------------------------------------------------------------
(* The state.  The vertices below v are done with or in the search that is   *)
(* on from v; IS_STRONGLY_CONNECTED_DIGRAPH stops at the first component.    *)
GabowFunctions == { "GABOW_SCC", "IS_STRONGLY_CONNECTED" }

SearchOn(adj, l) ==
  /\ Gabow(adj, l)
  /\ l.v \in 1 .. Len(adj) + 1
  /\ \A u \in 1 .. Len(adj) : u < l.v => l.id[u] # 0
  /\ l.frames # << >> => l.frames[1].v = l.v

GabowAnswer ==
  IF call.fn = "GABOW_SCC"
  THEN /\ loc.frames = << >> /\ loc.v > N
       /\ Result = [ id |-> [v \in V |-> loc.id[v] - N], comps |-> loc.comps ]
  ELSE Result = \A u, v \in V : ReachesOrIs(D, u, v)

GabowInv ==
  /\ call \in Calls
  /\ call.fn \in GabowFunctions =>
       /\ SearchOn(D, loc)
       /\ call.fn = "IS_STRONGLY_CONNECTED" => loc.comps = << >>
       /\ answer # << >> => GabowAnswer

LEMMA CallDigraph == call \in Calls => DigraphLike(D) /\ N \in Nat /\ N = Len(D) /\ V = 1 .. N
BY DigraphFacts DEF DigraphLike, N, V, Vertices

LEMMA GabowInit == Init => GabowInv
<1> SUFFICES ASSUME Init, call.fn \in GabowFunctions
             PROVE  SearchOn(D, loc) /\ loc.comps = << >>
  BY DEF Init, GabowInv
<1>0. DigraphLike(D) /\ N \in Nat /\ N = Len(D) /\ V = 1 .. N
  BY CallDigraph DEF Init
<1>1. loc = GabowLocals
  BY DEF Init, InitialLocals, GabowFunctions, MatrixFunctions, Distances, Closures, Searches,
         Rooted, FromOne, LoopFunctions, Counts
<1>2. /\ loc.v = 1 /\ loc.frames = << >> /\ loc.stack1 = << >> /\ loc.stack2 = << >>
      /\ loc.count = N /\ loc.comps = << >> /\ loc.id = [v \in 1 .. N |-> 0]
  BY <1>0, <1>1 DEF GabowLocals
<1>3. /\ << >> \in Seq(FrameSet(N)) /\ << >> \in Seq(1 .. N) /\ << >> \in Seq(Nat \ {0})
      /\ << >> \in Seq(Seq(1 .. N)) /\ Len(<< >>) = 0 /\ 1 .. 0 = {}
  OBVIOUS
<1>4. loc.id \in [1 .. N -> Nat] /\ \A u \in 1 .. N : loc.id[u] = 0
  BY <1>2
<1>5. loc \in GabowType(N)
  <2>1. loc = [v |-> loc.v, frames |-> << >>, stack1 |-> << >>, stack2 |-> << >>, id |-> loc.id,
               count |-> N, comps |-> << >>]
    BY <1>1, <1>2 DEF GabowLocals
  <2>2. [v |-> 1, frames |-> << >>, stack1 |-> << >>, stack2 |-> << >>, id |-> loc.id,
         count |-> N, comps |-> << >>] \in GabowType(N)
    BY <1>0, <1>3, <1>4, GabowTypeIs
  <2> QED  BY <1>2, <2>1, <2>2
<1>6. Places(N, << >>, loc.id, N)
  BY <1>0, <1>3, <1>4 DEF Places
<1>7. CallsOpen(D, << >>, << >>, loc.id)
  BY <1>0, <1>3 DEF CallsOpen, FrameSet
<1>8. Beginnings(<< >>, << >>, loc.id)
  BY <1>3 DEF Beginnings
<1>9. /\ AboveReached(D, << >>, << >>, loc.id) /\ PartsReach(D, << >>, << >>)
      /\ InComponents(N, loc.id, << >>, N)
  BY <1>0, <1>3 DEF AboveReached, PartsReach, InComponents
<1>10. ComponentsReach(D, loc.id) /\ EdgesKept(D, << >>, << >>, loc.id)
  BY <1>0, <1>4 DEF ComponentsReach, EdgesKept
<1>11. Gabow(D, loc)
  BY <1>0, <1>2, <1>5, <1>6, <1>7, <1>8, <1>9, <1>10 DEF Gabow, GabowRest
<1>12. \A u \in 1 .. N : ~(u < 1)
  BY <1>0
<1> QED  BY <1>0, <1>2, <1>11, <1>12 DEF SearchOn

LEMMA GabowFields ==
  ASSUME NEW adj, NEW l, Gabow(adj, l), DigraphLike(adj)
  PROVE  /\ l \in GabowType(Len(adj))
         /\ l.frames \in Seq(FrameSet(Len(adj))) /\ Len(l.frames) \in Nat
         /\ l.stack1 \in Seq(1 .. Len(adj)) /\ l.id \in [1 .. Len(adj) -> Nat]
         /\ \A f \in 1 .. Len(l.frames) :
              /\ l.frames[f].v \in 1 .. Len(adj) /\ l.frames[f].k \in Nat \ {0}
              /\ l.id[l.frames[f].v] \in 1 .. Len(l.stack1)
         /\ l.frames # << >> => 1 \in 1 .. Len(l.frames) /\ Len(l.frames) \in 1 .. Len(l.frames)
         /\ l.frames = << >> => l.stack1 = << >>
<1> DEFINE n == Len(adj)
<1>1. l \in GabowType(n) /\ CallsOpen(adj, l.frames, l.stack1, l.id) /\ Places(n, l.stack1, l.id, l.count)
  BY DEF Gabow, GabowRest
<1>2. l.frames \in Seq(FrameSet(n)) /\ l.stack1 \in Seq(1 .. n) /\ l.id \in [1 .. n -> Nat]
  <2> HIDE DEF n
  <2> QED  BY <1>1 DEF GabowType
<1>3. Len(l.frames) \in Nat /\ \A f \in 1 .. Len(l.frames) : l.frames[f] \in FrameSet(n)
  BY <1>2, LenProperties, ElementOfSeq
<1>4. \A f \in 1 .. Len(l.frames) : l.frames[f].v \in 1 .. n /\ l.frames[f].k \in Nat \ {0}
  BY <1>3 DEF FrameSet
<1>5. \A f \in 1 .. Len(l.frames) : l.id[l.frames[f].v] \in 1 .. Len(l.stack1)
  BY <1>1 DEF CallsOpen
<1>6. l.frames # << >> => Len(l.frames) # 0
  BY <1>2, EmptySeq
<1>7. l.frames = << >> => l.stack1 = << >>
  BY <1>1 DEF CallsOpen
<1> QED  BY <1>1, <1>2, <1>3, <1>4, <1>5, <1>6, <1>7

LEMMA FollowEdgeStep ==
  ASSUME DigraphLike(D), SearchOn(D, loc), FollowEdge
  PROVE  SearchOn(D, loc') /\ loc'.frames # << >> /\ loc'.comps = loc.comps /\ answer' = answer
<1> DEFINE x == Here.v
           k == Here.k
           w == D[x][k]
           l == [loc EXCEPT !.frames[Len(loc.frames)].k = @ + 1]
<1>1. /\ loc.frames # << >> /\ k <= Len(D[x])
      /\ loc' = IF loc.id[w] = 0 THEN Enter(l, w) ELSE [l EXCEPT !.stack2 = DownTo(@, loc.id[w])]
      /\ answer' = answer
  BY DEF FollowEdge, AtVertex, EdgesLeft, Continue
<1>2. x = loc.frames[Len(loc.frames)].v /\ k = loc.frames[Len(loc.frames)].k
  BY DEF Here, Highest
<1>3. Gabow(D, loc) /\ loc.frames[1].v = loc.v
  BY <1>1 DEF SearchOn
<1>4. /\ w \in 1 .. Len(D)
      /\ GabowBut(D, l, w)
      /\ \A f \in 1 .. Len(l.frames) : ReachesOrIs(D, l.frames[f].v, w)
      /\ l.v = loc.v /\ l.id = loc.id /\ l.comps = loc.comps /\ l.stack2 = loc.stack2
      /\ l.frames # << >> /\ l.frames[1].v = loc.frames[1].v
  <2>1. EdgeTaken(D, loc, w, l)
    BY <1>1, <1>2 DEF EdgeTaken
  <2> HIDE DEF x, k, w, l
  <2> QED  BY <1>3, <2>1, GabowBump
<1>5. PICK m : m = loc'
  OBVIOUS
<1> HIDE DEF x, k, w, l
<1>6. Gabow(D, m) /\ GoesOn(D, l, m) /\ m.frames[1].v = loc.v
  <2>1. CASE loc.id[w] = 0
    <3>1. m = Enter(l, w) /\ l.id[w] = 0
      BY <1>1, <1>4, <1>5, <2>1
    <3> QED  BY <1>3, <1>4, <3>1, GabowEnter
  <2>2. CASE loc.id[w] # 0
    <3>1. m = [l EXCEPT !.stack2 = DownTo(@, l.id[w])] /\ l.id[w] # 0
      BY <1>1, <1>4, <1>5, <2>2
    <3>2. Gabow(D, m) /\ GoesOn(D, l, m) /\ m.frames = l.frames
      BY <1>4, <3>1, GabowDown
    <3> QED  BY <1>3, <1>4, <3>2
  <2> QED  BY <2>1, <2>2
<1>7. /\ m.v = loc.v /\ m.comps = loc.comps /\ m.frames # << >>
      /\ \A u \in 1 .. Len(D) : loc.id[u] # 0 => m.id[u] # 0
  BY <1>4, <1>6 DEF GoesOn
<1>8. SearchOn(D, m)
  BY <1>6, <1>7 DEF SearchOn
<1> QED  BY <1>1, <1>5, <1>7, <1>8

LEMMA NextRootStep ==
  ASSUME DigraphLike(D), N = Len(D), SearchOn(D, loc), NextRoot
  PROVE  SearchOn(D, loc') /\ answer' = answer
<1>1. /\ loc.frames = << >> /\ loc.v <= N
      /\ loc' = IF loc.id[loc.v] = 0 THEN Enter(loc, loc.v) ELSE [loc EXCEPT !.v = @ + 1]
      /\ answer' = answer
  BY DEF NextRoot, AtRoot, Continue
<1>2. PICK m : m = loc'
  OBVIOUS
<1>3. N \in Nat /\ loc.v \in 1 .. N /\ Gabow(D, loc)
  BY <1>1 DEF SearchOn, DigraphLike
<1>4. CASE loc.id[loc.v] = 0
  <2>1. m = Enter(loc, loc.v)
    BY <1>1, <1>2, <1>4
  <2>2. GabowBut(D, loc, loc.v)
    BY <1>3 DEF Gabow, GabowBut, EdgesKept, EdgesKeptBut
  <2>3. \A f \in 1 .. Len(loc.frames) : ReachesOrIs(D, loc.frames[f].v, loc.v)
    <3>1. 1 .. Len(loc.frames) = {}
      BY <1>1
    <3> QED  BY <3>1
  <2>4. /\ Gabow(D, m) /\ GoesOn(D, loc, m)
        /\ m.frames[1].v = IF loc.frames = << >> THEN loc.v ELSE loc.frames[1].v
    BY <1>3, <1>4, <2>1, <2>2, <2>3, GabowEnter
  <2>5. SearchOn(D, m)
    BY <1>1, <2>4 DEF SearchOn, GoesOn
  <2> QED  BY <1>1, <1>2, <2>5
<1>5. CASE loc.id[loc.v] # 0
  <2>1. m = [loc EXCEPT !.v = @ + 1]
    BY <1>1, <1>2, <1>5
  <2>2. loc \in GabowType(N)
    BY <1>3, GabowFields
  <2>3. loc = [v |-> loc.v, frames |-> loc.frames, stack1 |-> loc.stack1, stack2 |-> loc.stack2,
               id |-> loc.id, count |-> loc.count, comps |-> loc.comps]
    BY <2>2 DEF GabowType
  <2>4. /\ m.v = loc.v + 1 /\ m.frames = loc.frames /\ m.stack1 = loc.stack1
        /\ m.stack2 = loc.stack2 /\ m.id = loc.id /\ m.count = loc.count /\ m.comps = loc.comps
    BY <2>1, <2>3
  <2>5. m \in GabowType(N)
    <3>1. loc.v + 1 \in Nat
      BY <1>3
    <3> QED  BY <2>1, <2>2, <3>1 DEF GabowType
  <2>6. Gabow(D, m)
    BY <1>3, <2>4, <2>5 DEF Gabow, GabowRest
  <2>7. \A u \in 1 .. N : u < loc.v + 1 => loc.id[u] # 0
    <3> SUFFICES ASSUME NEW u \in 1 .. N, u < loc.v + 1 PROVE loc.id[u] # 0
      OBVIOUS
    <3>1. u < loc.v \/ u = loc.v
      BY <1>3
    <3> QED  BY <1>5, <3>1 DEF SearchOn
  <2>8. SearchOn(D, m)
    BY <1>1, <1>3, <2>4, <2>6, <2>7 DEF SearchOn
  <2> QED  BY <1>1, <1>2, <2>8
<1> QED  BY <1>4, <1>5

(* What is there to know when a vertex is left.                              *)
LEMMA LeavingFacts ==
  ASSUME DigraphLike(D), N = Len(D), SearchOn(D, loc), AtVertex, ~EdgesLeft
  PROVE  /\ loc.frames # << >> /\ Gabow(D, loc) /\ loc \in GabowType(N) /\ N \in Nat
         /\ Here = loc.frames[Len(loc.frames)] /\ Here.v \in 1 .. N
         /\ Here.k > Len(D[Here.v])
         /\ loc.id[Here.v] \in 1 .. Len(loc.stack1) /\ loc.stack1[loc.id[Here.v]] = Here.v
         /\ Places(N, loc.stack1, loc.id, loc.count)
<1>1. loc.frames # << >> /\ Gabow(D, loc) /\ Here = loc.frames[Len(loc.frames)]
  BY DEF AtVertex, SearchOn, Here, Highest
<1>2. /\ loc \in GabowType(N) /\ Len(loc.frames) \in 1 .. Len(loc.frames)
      /\ \A f \in 1 .. Len(loc.frames) :
           /\ loc.frames[f].v \in 1 .. N /\ loc.frames[f].k \in Nat \ {0}
           /\ loc.id[loc.frames[f].v] \in 1 .. Len(loc.stack1)
  BY <1>1, GabowFields
<1>3. PICK x \in 1 .. N : x = Here.v /\ loc.id[x] \in 1 .. Len(loc.stack1)
  BY <1>1, <1>2
<1>4. Here.k \in Nat /\ Len(D[x]) \in Nat
  BY <1>1, <1>2 DEF DigraphLike
<1>5. Here.k > Len(D[x])
  BY <1>3, <1>4 DEF EdgesLeft
<1>6. Places(N, loc.stack1, loc.id, loc.count)
  BY <1>1 DEF Gabow, GabowRest
<1>7. PICK i : i = loc.id[x]
  OBVIOUS
<1>8. i = 0 \/ (i \in 1 .. Len(loc.stack1) /\ loc.stack1[i] = x) \/ i \in N + 1 .. loc.count
  BY <1>6, <1>7 DEF Places
<1>9. i \in 1 .. N /\ N \in Nat
  <2>1. loc.stack1 \in Seq(1 .. N) /\ Len(loc.stack1) <= N
    BY <1>6 DEF Places
  <2>2. Len(loc.stack1) \in Nat
    BY <2>1, LenProperties
  <2> QED  BY <1>3, <1>7, <2>1, <2>2 DEF DigraphLike
<1>10. loc.stack1[i] = x
  BY <1>8, <1>9
<1> QED  BY <1>1, <1>2, <1>3, <1>5, <1>6, <1>7, <1>9, <1>10

LEMMA LeaveVertexStep ==
  ASSUME DigraphLike(D), N = Len(D), SearchOn(D, loc), LeaveVertex
  PROVE  SearchOn(D, loc') /\ answer' = answer
<1>0. AtVertex /\ ~EdgesLeft /\ answer' = answer
  BY DEF LeaveVertex, Continue
<1>1. /\ loc.frames # << >> /\ Gabow(D, loc) /\ loc \in GabowType(N) /\ N \in Nat
      /\ Here = loc.frames[Len(loc.frames)] /\ Here.v \in 1 .. N
      /\ Here.k > Len(D[Here.v])
      /\ loc.id[Here.v] \in 1 .. Len(loc.stack1) /\ loc.stack1[loc.id[Here.v]] = Here.v
      /\ Places(N, loc.stack1, loc.id, loc.count)
  BY <1>0, LeavingFacts
<1>2. PICK m : m = loc'
  OBVIOUS
<1>3. /\ loc = [v |-> loc.v, frames |-> loc.frames, stack1 |-> loc.stack1, stack2 |-> loc.stack2,
               id |-> loc.id, count |-> loc.count, comps |-> loc.comps]
      /\ loc.v \in 1 .. N + 1 /\ loc.v \in Nat
  BY <1>1 DEF GabowType, SearchOn
<1>4. loc.frames[1].v = loc.v
  BY <1>1 DEF SearchOn
<1>5. CASE ~Begins
  <2>1. loc.stack2[Len(loc.stack2)] # loc.id[Here.v]
    BY <1>5 DEF Begins, Highest
  <2>2. PICK l : l = [loc EXCEPT !.frames = Pop(loc.frames)]
    OBVIOUS
  <2>3. Gabow(D, l) /\ GoesOn(D, loc, l) /\ l.frames[1] = loc.frames[1] /\ Len(loc.frames) # 1
    BY <1>1, <2>1, <2>2, GabowLeave
  <2>4. m = l
    <3>1. m = [loc EXCEPT !.frames = Pop(@), !.v = IF Len(loc.frames) = 1 THEN @ + 1 ELSE @]
      BY <1>2, <1>5 DEF LeaveVertex, Continue
    <3>2. m = [loc EXCEPT !.frames = Pop(loc.frames), !.v = loc.v]
      BY <1>3, <2>3, <3>1
    <3> QED  BY <1>3, <2>2, <3>2
  <2>5. SearchOn(D, m)
    BY <1>4, <2>3, <2>4 DEF SearchOn, GoesOn
  <2> QED  BY <1>0, <1>2, <2>5
<1>6. CASE Begins
  <2>1. PICK place : place = loc.id[Here.v]
    OBVIOUS
  <2>2. loc.stack2[Len(loc.stack2)] = place
    BY <1>6, <2>1 DEF Begins, Highest
  <2>3. PICK comp, j :
          /\ ComponentLeaves(N, loc.stack1, loc.id, place, comp, loc.count + 1, j)
          /\ Closed(loc, Here.v) =
               [ v |-> loc.v, frames |-> loc.frames, stack1 |-> SubSeq(loc.stack1, 1, place - 1),
                 stack2 |-> Pop(loc.stack2), id |-> j, count |-> loc.count + 1,
                 comps |-> Append(loc.comps, comp) ]
    <3>1. IsAt(loc, Here.v, place)
      BY <1>1, <2>1 DEF IsAt
    <3> QED  BY <1>1, <3>1, ClosedIs
  <2>4. PICK v1 : v1 = IF Len(loc.frames) = 1 THEN loc.v + 1 ELSE loc.v
    OBVIOUS
  <2>5. m = [ v |-> v1, frames |-> Pop(loc.frames), stack1 |-> SubSeq(loc.stack1, 1, place - 1),
              stack2 |-> Pop(loc.stack2), id |-> j, count |-> loc.count + 1,
              comps |-> Append(loc.comps, comp) ]
    <3>1. m = [Closed(loc, Here.v) EXCEPT !.frames = Pop(@),
                                          !.v = IF Len(loc.frames) = 1 THEN @ + 1 ELSE @]
      BY <1>2, <1>6 DEF LeaveVertex, Continue
    <3>2. m = [Closed(loc, Here.v) EXCEPT !.frames = Pop(loc.frames), !.v = v1]
      BY <2>3, <2>4, <3>1
    <3>3. PICK fr, t1, t2, c, cs :
            /\ fr = Pop(loc.frames) /\ t1 = SubSeq(loc.stack1, 1, place - 1)
            /\ t2 = Pop(loc.stack2) /\ c = loc.count + 1 /\ cs = Append(loc.comps, comp)
      OBVIOUS
    <3>0. PICK cl, v0, fr0 : cl = Closed(loc, Here.v) /\ v0 = loc.v /\ fr0 = loc.frames
      OBVIOUS
    <3>4. cl = [ v |-> v0, frames |-> fr0, stack1 |-> t1, stack2 |-> t2,
                 id |-> j, count |-> c, comps |-> cs ]
      BY <2>3, <3>0, <3>3
    <3>5. m = [cl EXCEPT !.frames = fr, !.v = v1]
      BY <3>0, <3>2, <3>3
    <3>6. m = [ v |-> v1, frames |-> fr, stack1 |-> t1, stack2 |-> t2, id |-> j, count |-> c,
                comps |-> cs ]
      BY <3>4, <3>5
    <3> QED  BY <3>3, <3>6, Zenon
  <2>6. v1 \in Nat
    BY <1>3, <2>4
  <2>7. /\ Gabow(D, m)
        /\ \A u \in 1 .. N : loc.id[u] # 0 => m.id[u] # 0
        /\ Len(loc.frames) # 1 => m.frames # << >> /\ m.frames[1] = loc.frames[1]
        /\ Len(loc.frames) = 1 => m.frames = << >>
    <3>1. ComponentTaken(D, loc, place, comp, j, v1, m)
      BY <1>1, <2>1, <2>2, <2>3, <2>5, <2>6 DEF ComponentTaken
    <3> QED  BY <1>1, <3>1, GabowClose
  <2>8. m.v = v1
    BY <2>5
  <2>9. loc.v \in 1 .. N /\ loc.id[loc.v] # 0
    <3>1. /\ 1 \in 1 .. Len(loc.frames)
          /\ \A f \in 1 .. Len(loc.frames) :
               /\ loc.frames[f].v \in 1 .. N
               /\ loc.id[loc.frames[f].v] \in 1 .. Len(loc.stack1)
      BY <1>1, GabowFields
    <3>2. loc.id[loc.v] \in 1 .. Len(loc.stack1) /\ loc.v \in 1 .. N
      BY <1>4, <3>1
    <3> QED  BY <3>2
  <2>10. \A u \in 1 .. N : u < v1 => m.id[u] # 0
    <3> SUFFICES ASSUME NEW u \in 1 .. N, u < v1 PROVE loc.id[u] # 0
      BY <2>7
    <3>1. u < loc.v \/ u = loc.v
      BY <1>3, <2>4
    <3> QED  BY <2>9, <3>1 DEF SearchOn
  <2>11. v1 \in 1 .. N + 1
    BY <1>1, <2>4, <2>9
  <2>12. m.frames # << >> => m.frames[1].v = v1
    BY <1>4, <2>4, <2>7
  <2>13. SearchOn(D, m)
    BY <2>7, <2>8, <2>10, <2>11, <2>12 DEF SearchOn
  <2> QED  BY <1>0, <1>2, <2>13
<1> QED  BY <1>5, <1>6

(* When all vertices are in components, no edge leads from one to a later.   *)
LEMMA NumbersAreComponents ==
  ASSUME NEW adj, DigraphLike(adj), NEW l, SearchOn(adj, l), l.frames = << >>, l.v > Len(adj)
  PROVE  /\ \A u \in 1 .. Len(adj) : l.id[u] \in Len(adj) + 1 .. Len(adj) + Len(l.comps)
         /\ \A u, w \in 1 .. Len(adj) :
              l.id[u] = l.id[w] <=> ReachesOrIs(adj, u, w) /\ ReachesOrIs(adj, w, u)
<1> DEFINE n == Len(adj)
<1>1. /\ n \in Nat /\ Gabow(adj, l) /\ \A u \in 1 .. n : l.id[u] # 0
      /\ l.id \in [1 .. n -> Nat] /\ l.stack1 = << >>
  <2>1. Gabow(adj, l) /\ n \in Nat
    BY DEF SearchOn, DigraphLike
  <2>2. l.id \in [1 .. n -> Nat] /\ l.stack1 = << >>
    BY <2>1, GabowFields
  <2>3. \A u \in 1 .. n : u < l.v
    BY <2>1 DEF SearchOn
  <2> QED  BY <2>1, <2>2, <2>3 DEF SearchOn
<1>2. /\ Places(n, l.stack1, l.id, l.count) /\ InComponents(n, l.id, l.comps, l.count)
      /\ EdgesKept(adj, l.frames, l.stack2, l.id) /\ ComponentsReach(adj, l.id)
  BY <1>1 DEF Gabow, GabowRest
<1>3. l.count = n + Len(l.comps)
  BY <1>2 DEF InComponents
<1>4. \A u \in 1 .. n : l.id[u] \in n + 1 .. l.count
  <2>1. 1 .. Len(l.stack1) = {}
    BY <1>1
  <2> QED  BY <1>1, <1>2, <2>1 DEF Places
<1>5. ASSUME NEW u \in 1 .. n, NEW w \in 1 .. n, ReachesOrIs(adj, u, w)
      PROVE  l.id[w] <= l.id[u]
  <2> DEFINE C == { y \in 1 .. n : l.id[y] <= l.id[u] }
  <2>1. C \in SUBSET (1 .. n) /\ u \in C
    BY <1>1
  <2>2. NoEdgeLeaves(adj, C)
    <3> SUFFICES ASSUME NEW x \in C, NEW y \in 1 .. n, Adjacent(adj, x, y) PROVE y \in C
      BY DEF NoEdgeLeaves
    <3>1. PICK e \in 1 .. Len(adj[x]) : adj[x][e] = y
      BY DEF Adjacent
    <3>2. Explored(l.frames, x, e)
      BY DEF Explored
    <3>3. EdgeKept(n, l.stack2, l.id, x, y)
      BY <1>1, <1>2, <3>1, <3>2 DEF EdgesKept
    <3>4. l.id[x] > n /\ l.id[x] \in Nat /\ l.id[y] \in Nat /\ l.id[u] \in Nat
      BY <1>1, <1>4
    <3>5. l.id[y] <= l.id[x]
      BY <3>3, <3>4 DEF EdgeKept
    <3> QED  BY <3>4, <3>5
  <2>3. w \in C
    <3> HIDE DEF C
    <3> QED  BY <1>1, <1>5, <2>1, <2>2, ReachesOrIsClosed
  <2> QED  BY <2>3
<1>6. ASSUME NEW u \in 1 .. n, NEW w \in 1 .. n
      PROVE  l.id[u] = l.id[w] <=> ReachesOrIs(adj, u, w) /\ ReachesOrIs(adj, w, u)
  <2>1. ASSUME l.id[u] = l.id[w]
        PROVE  ReachesOrIs(adj, u, w) /\ ReachesOrIs(adj, w, u)
    <3>1. l.id[u] > n /\ l.id[w] > n
      BY <1>1, <1>4
    <3> QED  BY <1>2, <2>1, <3>1 DEF ComponentsReach
  <2>2. ASSUME ReachesOrIs(adj, u, w), ReachesOrIs(adj, w, u)
        PROVE  l.id[u] = l.id[w]
    <3>1. l.id[w] <= l.id[u] /\ l.id[u] <= l.id[w] /\ l.id[u] \in Nat /\ l.id[w] \in Nat
      BY <1>1, <1>5, <2>2
    <3> QED  BY <3>1
  <2> QED  BY <2>1, <2>2
<1> QED  BY <1>3, <1>4, <1>6

LEMMA FirstVertexStep ==
  ASSUME call \in Calls, SearchOn(D, loc), loc.comps = << >>, FirstVertex, call' = call
  PROVE  \/ SearchOn(D, loc') /\ loc'.comps = << >> /\ answer' = answer
         \/ loc' = loc /\ Result' = \A u, v \in V : ReachesOrIs(D, u, v)
<1>0. DigraphLike(D) /\ N \in Nat /\ N = Len(D) /\ V = 1 .. N
  BY CallDigraph
<1>1. CASE N = 0
  <2>1. loc' = loc /\ Result' = TRUE
    <3>1. loc' = loc /\ answer' = << "value", TRUE >>
      BY <1>1, Zenon DEF FirstVertex, Answer
    <3> QED  BY <3>1, Zenon DEF Result
  <2>2. V = {}
    BY <1>0, <1>1
  <2> QED  BY <2>1, <2>2
<1>2. CASE N # 0
  <2>1. loc.frames = << >> /\ loc' = Enter(loc, 1) /\ answer' = answer
    BY <1>2 DEF FirstVertex, AtRoot, Continue
  <2>2. Gabow(D, loc)
    BY DEF SearchOn
  <2>3. loc.stack1 = << >> /\ loc.id \in [1 .. N -> Nat]
    BY <1>0, <2>1, <2>2, GabowFields
  <2>4. 1 \in 1 .. N /\ loc.id[1] = 0
    <3>1. Places(N, loc.stack1, loc.id, loc.count) /\ loc.count = N + Len(loc.comps)
      BY <1>0, <2>2 DEF Gabow, GabowRest, InComponents
    <3>2. 1 .. Len(loc.stack1) = {} /\ N + 1 .. loc.count = {}
      BY <1>0, <2>3, <3>1
    <3>3. 1 \in 1 .. N
      BY <1>0, <1>2
    <3> QED  BY <3>1, <3>2, <3>3 DEF Places
  <2>5. loc.v = 1
    <3> SUFFICES ASSUME loc.v # 1 PROVE FALSE
      OBVIOUS
    <3>1. 1 < loc.v
      BY <1>0 DEF SearchOn
    <3> QED  BY <1>0, <2>4, <3>1 DEF SearchOn
  <2>6. GabowBut(D, loc, 1)
    BY <2>2 DEF Gabow, GabowBut, EdgesKept, EdgesKeptBut
  <2>7. \A f \in 1 .. Len(loc.frames) : ReachesOrIs(D, loc.frames[f].v, 1)
    <3>1. 1 .. Len(loc.frames) = {}
      BY <2>1
    <3> QED  BY <3>1
  <2>8. PICK m : m = Enter(loc, 1)
    OBVIOUS
  <2>9. /\ Gabow(D, m) /\ GoesOn(D, loc, m)
        /\ m.frames[1].v = IF loc.frames = << >> THEN 1 ELSE loc.frames[1].v
    BY <1>0, <2>4, <2>6, <2>7, <2>8, GabowEnter
  <2>10. SearchOn(D, m) /\ m.comps = << >>
    BY <2>1, <2>5, <2>9 DEF SearchOn, GoesOn
  <2> QED  BY <2>1, <2>8, <2>10
<1> QED  BY <1>1, <1>2

(* The first component found is everything exactly if all reach all.         *)
LEMMA FirstFound ==
  ASSUME NEW adj, DigraphLike(adj), NEW l, Gabow(adj, l), l.comps = << >>,
         NEW place, NEW comp, NEW j, NEW v, NEW m, ComponentTaken(adj, l, place, comp, j, v, m)
  PROVE  Len(comp) = Len(adj) <=> \A u, w \in 1 .. Len(adj) : ReachesOrIs(adj, u, w)
<1> DEFINE n == Len(adj)
           x0 == l.frames[Len(l.frames)].v
<1>1. /\ n \in Nat /\ Places(n, l.stack1, l.id, l.count)
      /\ PartsReach(adj, l.stack1, l.stack2) /\ EdgesKept(adj, l.frames, l.stack2, l.id)
      /\ l.count = n + Len(l.comps)
      /\ Beginnings(l.frames, l.stack2, l.id)
      /\ CallsOpen(adj, l.frames, l.stack1, l.id)
  BY DEF Gabow, GabowRest, InComponents, DigraphLike
<1>2. /\ l.frames # << >>
      /\ l.frames[Len(l.frames)].k > Len(adj[x0])
      /\ place = l.id[x0] /\ l.stack2[Len(l.stack2)] = place
      /\ ComponentLeaves(n, l.stack1, l.id, place, comp, l.count + 1, j)
  BY DEF ComponentTaken
<1>3. /\ l.stack1 \in Seq(1 .. n) /\ l.id \in [1 .. n -> Nat]
      /\ Len(l.frames) \in Nat /\ Len(l.frames) \in 1 .. Len(l.frames)
      /\ \A f \in 1 .. Len(l.frames) :
           /\ l.frames[f].v \in 1 .. n /\ l.frames[f].k \in Nat \ {0}
           /\ l.id[l.frames[f].v] \in 1 .. Len(l.stack1)
  BY <1>2, GabowFields
<1>4. x0 \in 1 .. n /\ place \in 1 .. Len(l.stack1)
  BY <1>2, <1>3
<1>5. PICK len \in Nat : len = Len(l.stack1) /\ len <= n /\ place \in 1 .. len
  <2>1. Len(l.stack1) \in Nat
    BY <1>3, LenProperties
  <2> QED  BY <1>1, <1>4, <2>1 DEF Places
<1>6. /\ comp \in Seq(1 .. n) /\ Len(comp) = Len(l.stack1) - place + 1
      /\ \A q \in 1 .. Len(comp) : comp[q] = l.stack1[place + q - 1]
      /\ \A w \in 1 .. n : (\E q \in 1 .. Len(comp) : comp[q] = w) <=> l.id[w] \in place .. Len(l.stack1)
  <2>1. ComponentLeaves(n, l.stack1, l.id, place, comp, l.count + 1, j)
    BY <1>2
  <2>2. n \in Nat /\ Places(n, l.stack1, l.id, l.count) /\ place \in 1 .. Len(l.stack1)
    BY <1>1, <1>4
  <2>3. PICK s1, id, count : s1 = l.stack1 /\ id = l.id /\ count = l.count
    OBVIOUS
  <2> HIDE DEF n, x0
  <2>4. /\ ComponentLeaves(n, s1, id, place, comp, count + 1, j)
        /\ n \in Nat /\ Places(n, s1, id, count) /\ place \in 1 .. Len(s1)
    BY <2>1, <2>2, <2>3
  <2>5. /\ comp \in Seq(1 .. n) /\ Len(comp) = Len(s1) - place + 1
        /\ \A q \in 1 .. Len(comp) : comp[q] = s1[place + q - 1]
        /\ \A w \in 1 .. n : (\E q \in 1 .. Len(comp) : comp[q] = w) <=> id[w] \in place .. Len(s1)
    BY <2>4, CloseFacts
  <2> QED  BY <2>3, <2>5
<1>7. ASSUME NEW u \in 1 .. n
      PROVE  l.id[u] = 0 \/ (l.id[u] \in 1 .. len /\ l.stack1[l.id[u]] = u)
  <2>1. n + 1 .. l.count = {}
    <3>1. Len(l.comps) = 0
      BY EmptySeq
    <3>2. n + 1 .. l.count = {}
      BY <1>1, <3>1
    <3> QED  BY <3>2
  <2> HIDE DEF n
  <2> QED  BY <1>1, <1>5, <2>1 DEF Places
<1>8. \A p, q \in 1 .. Len(comp) : comp[p] = comp[q] => p = q
  <2> SUFFICES ASSUME NEW p \in 1 .. Len(comp), NEW q \in 1 .. Len(comp), comp[p] = comp[q]
               PROVE  p = q
    OBVIOUS
  <2>1. /\ comp[p] = l.stack1[place + p - 1] /\ place + p - 1 \in 1 .. Len(l.stack1)
        /\ comp[q] = l.stack1[place + q - 1] /\ place + q - 1 \in 1 .. Len(l.stack1)
    BY <1>5, <1>6
  <2>2. PICK a, b \in 1 .. Len(l.stack1) : a = place + p - 1 /\ b = place + q - 1
    BY <2>1
  <2>3. a = l.id[l.stack1[a]] /\ b = l.id[l.stack1[b]]
    BY <1>1 DEF Places
  <2>4. a = b
    BY <2>1, <2>2, <2>3
  <2> QED  BY <1>5, <1>6, <2>2, <2>4
<1>9. Len(comp) = n <=> \A u \in 1 .. n : l.id[u] \in place .. len
  <2>1. Len(comp) = n <=> \A u \in 1 .. n : \E q \in 1 .. Len(comp) : comp[q] = u
    <3> HIDE DEF n
    <3> QED  BY <1>1, <1>6, <1>8, DifferentVertices
  <2>2. \A u \in 1 .. n : (\E q \in 1 .. Len(comp) : comp[q] = u) <=> l.id[u] \in place .. len
    BY <1>5, <1>6
  <2> QED  BY <2>1, <2>2
<1>10. ASSUME \A u \in 1 .. n : l.id[u] \in place .. len
       PROVE  \A u, w \in 1 .. n : ReachesOrIs(adj, u, w)
  <2> SUFFICES ASSUME NEW u \in 1 .. n, NEW w \in 1 .. n PROVE ReachesOrIs(adj, u, w)
    OBVIOUS
  <2>1. PICK p, q \in place .. len : p = l.id[u] /\ q = l.id[w]
    BY <1>10
  <2>2. l.stack1[p] = u /\ l.stack1[q] = w /\ p \in 1 .. Len(l.stack1) /\ q \in 1 .. Len(l.stack1)
    BY <1>5, <1>7, <2>1
  <2>3. SamePart(l.stack2, p, q)
    <3> SUFFICES ASSUME NEW r \in 1 .. Len(l.stack2)
                 PROVE  l.stack2[r] <= p /\ l.stack2[r] <= q
      BY DEF SamePart
    <3>1. l.stack2 \in Seq(Nat \ {0}) /\ \A a, b \in 1 .. Len(l.stack2) : a < b => l.stack2[a] < l.stack2[b]
      BY <1>1 DEF Beginnings
    <3>2. PICK beg \in Nat : beg = Len(l.stack2)
      BY <3>1, LenProperties
    <3>3. r = beg \/ l.stack2[r] < l.stack2[beg]
      <4> SUFFICES ASSUME r # beg PROVE l.stack2[r] < l.stack2[beg]
        OBVIOUS
      <4>1. r < beg /\ beg \in 1 .. Len(l.stack2)
        BY <3>2
      <4> QED  BY <3>1, <4>1
    <3>4. l.stack2[r] \in Nat /\ l.stack2[beg] = place
      BY <1>2, <3>1, <3>2, ElementOfSeq
    <3> QED  BY <1>5, <3>3, <3>4
  <2> QED  BY <1>1, <2>2, <2>3 DEF PartsReach
<1>11. ASSUME \A u, w \in 1 .. n : ReachesOrIs(adj, u, w), NEW u \in 1 .. n
       PROVE  l.id[u] \in place .. len
  <2> DEFINE C == { y \in 1 .. n : l.id[y] \in place .. len }
  <2>1. C \in SUBSET (1 .. n) /\ x0 \in C
    BY <1>2, <1>4, <1>5
  <2>2. NoEdgeLeaves(adj, C)
    <3> SUFFICES ASSUME NEW x \in C, NEW y \in 1 .. n, Adjacent(adj, x, y) PROVE y \in C
      BY DEF NoEdgeLeaves
    <3>1. PICK e \in 1 .. Len(adj[x]) : adj[x][e] = y
      BY DEF Adjacent
    <3>2. Explored(l.frames, x, e)
      <4> SUFFICES ASSUME NEW f \in 1 .. Len(l.frames), l.frames[f].v = x PROVE e < l.frames[f].k
        BY DEF Explored
      <4>1. PICK top \in Nat : top = Len(l.frames)
        BY <1>3
      <4>2. f = top
        <5> SUFFICES ASSUME f # top PROVE FALSE
          OBVIOUS
        <5>1. f < top /\ top \in 1 .. Len(l.frames)
          BY <1>3, <4>1
        <5>2. l.id[l.frames[f].v] < l.id[l.frames[top].v]
          BY <1>1, <5>1 DEF CallsOpen
        <5>3. l.id[l.frames[top].v] = place
          BY <1>2, <4>1
        <5>4. l.id[x] \in place .. len
          OBVIOUS
        <5> QED  BY <1>5, <5>2, <5>3, <5>4
      <4>3. x = x0 /\ l.frames[f].k > Len(adj[x]) /\ l.frames[f].k \in Nat
        BY <1>2, <1>3, <4>1, <4>2
      <4>4. Len(adj[x]) \in Nat
        BY DEF DigraphLike
      <4> QED  BY <4>3, <4>4
    <3>3. l.id[x] # 0 /\ l.id[x] \in place .. len
      BY <1>5
    <3>4. EdgeKept(n, l.stack2, l.id, x, y)
      BY <1>1, <3>1, <3>2, <3>3 DEF EdgesKept
    <3>5. l.id[y] \in 1 .. len
      BY <1>7, <3>4 DEF EdgeKept
    <3>6. \A p \in 1 .. Len(l.stack2) : l.stack2[p] <= l.id[x] => l.stack2[p] <= l.id[y]
      <4>1. l.id[x] <= n /\ l.id[y] <= n
        BY <1>1, <1>5, <3>3, <3>5
      <4> QED  BY <3>4, <4>1 DEF EdgeKept
    <3>7. Len(l.stack2) \in 1 .. Len(l.stack2)
      <4>1. l.stack2 \in Seq(Nat \ {0}) /\ l.stack2 # << >>
        BY <1>1, <1>2 DEF Beginnings
      <4> QED  BY <4>1, LenProperties, EmptySeq
    <3>8. place <= l.id[y]
      <4>1. place <= l.id[x]
        BY <1>5, <3>3
      <4> QED  BY <1>2, <3>6, <3>7, <4>1
    <3> QED  BY <1>5, <3>5, <3>8
  <2>3. u \in C
    <3>1. ReachesOrIs(adj, x0, u)
      BY <1>4, <1>11
    <3> HIDE DEF C, x0
    <3> QED  BY <1>1, <1>4, <2>1, <2>2, <3>1, ReachesOrIsClosed
  <2> QED  BY <2>3
<1> QED  BY <1>9, <1>10, <1>11

LEMMA FirstComponentStep ==
  ASSUME call \in Calls, SearchOn(D, loc), loc.comps = << >>, FirstComponent, call' = call
  PROVE  \/ SearchOn(D, loc') /\ loc'.comps = << >> /\ answer' = answer
         \/ loc' = loc /\ Result' = \A u, v \in V : ReachesOrIs(D, u, v)
<1>0. DigraphLike(D) /\ N \in Nat /\ N = Len(D) /\ V = 1 .. N
  BY CallDigraph
<1>1. AtVertex /\ ~EdgesLeft
  BY DEF FirstComponent
<1>2. /\ loc.frames # << >> /\ Gabow(D, loc) /\ loc \in GabowType(N) /\ N \in Nat
      /\ Here = loc.frames[Len(loc.frames)] /\ Here.v \in 1 .. N
      /\ Here.k > Len(D[Here.v])
      /\ loc.id[Here.v] \in 1 .. Len(loc.stack1) /\ loc.stack1[loc.id[Here.v]] = Here.v
      /\ Places(N, loc.stack1, loc.id, loc.count)
  BY <1>0, <1>1, LeavingFacts
<1>3. CASE ~Begins
  <2>1. loc.stack2[Len(loc.stack2)] # loc.id[Here.v]
    BY <1>3 DEF Begins, Highest
  <2>2. PICK l : l = [loc EXCEPT !.frames = Pop(loc.frames)]
    OBVIOUS
  <2>3. Gabow(D, l) /\ GoesOn(D, loc, l) /\ l.frames[1] = loc.frames[1]
    BY <1>0, <1>2, <2>1, <2>2, GabowLeave
  <2>4. loc' = l /\ answer' = answer
    BY <1>2, <1>3, <2>2 DEF FirstComponent, Continue
  <2>5. SearchOn(D, l) /\ l.comps = << >>
    BY <1>2, <2>3 DEF SearchOn, GoesOn
  <2> QED  BY <2>4, <2>5
<1>4. CASE Begins
  <2>1. PICK place : place = loc.id[Here.v]
    OBVIOUS
  <2>2. loc.stack2[Len(loc.stack2)] = place
    BY <1>4, <2>1 DEF Begins, Highest
  <2>3. PICK comp, j :
          /\ ComponentLeaves(N, loc.stack1, loc.id, place, comp, loc.count + 1, j)
          /\ Closed(loc, Here.v) =
               [ v |-> loc.v, frames |-> loc.frames, stack1 |-> SubSeq(loc.stack1, 1, place - 1),
                 stack2 |-> Pop(loc.stack2), id |-> j, count |-> loc.count + 1,
                 comps |-> Append(loc.comps, comp) ]
    <3>1. IsAt(loc, Here.v, place)
      BY <1>2, <2>1 DEF IsAt
    <3> QED  BY <1>2, <3>1, ClosedIs
  <2>4. PICK m : m = [ v |-> loc.v, frames |-> Pop(loc.frames),
                       stack1 |-> SubSeq(loc.stack1, 1, place - 1), stack2 |-> Pop(loc.stack2),
                       id |-> j, count |-> loc.count + 1, comps |-> Append(loc.comps, comp) ]
    OBVIOUS
  <2>5. ComponentTaken(D, loc, place, comp, j, loc.v, m)
    <3>1. loc.v \in Nat
      BY <1>2 DEF GabowType
    <3> QED  BY <1>0, <1>2, <2>1, <2>2, <2>3, <2>4, <3>1 DEF ComponentTaken
  <2>6. Len(comp) = N <=> \A u, w \in V : ReachesOrIs(D, u, w)
    BY <1>0, <1>2, <2>5, FirstFound
  <2>7. Highest(Closed(loc, Here.v).comps) = comp
    <3>1. Closed(loc, Here.v).comps = Append(<< >>, comp)
      BY <2>3
    <3>2. comp \in Seq(1 .. N)
      BY <1>2, <2>1, <2>3, CloseFacts
    <3>3. Append(<< >>, comp)[1] = comp /\ Len(Append(<< >>, comp)) = 1
      BY <3>2
    <3> QED  BY <3>1, <3>3 DEF Highest
  <2>8. loc' = loc /\ answer' = << "value", Len(comp) = N >>
    <3>1. loc' = loc /\ answer' = << "value", Len(Highest(Closed(loc, Here.v).comps)) = N >>
      BY <1>4, Zenon DEF FirstComponent, Answer
    <3> QED  BY <2>7, <3>1, Zenon
  <2>9. Result' = (Len(comp) = N)
    BY <2>8, Zenon DEF Result
  <2> QED  BY <2>6, <2>8, <2>9, Zenon
<1> QED  BY <1>3, <1>4

LEMMA OnlyGabow ==
  ASSUME Next, call.fn \in GabowFunctions
  PROVE  /\ GABOW_SCC \/ IS_STRONGLY_CONNECTED
         /\ answer = << >>
<1>1. GABOW_SCC \/ IS_STRONGLY_CONNECTED
  BY DEF Next, GabowFunctions, Running, FLOYD_WARSHALL, MatrixFunctions, Distances,
         Closures, CONNECTED_COMPONENTS, TakeEdge, UF_FIND, UF_COMBINE_CLASSES,
         AllEdgesTaken, NumberNext, Name, AllNamed, InStage, GABOW_SCC,
         IS_STRONGLY_CONNECTED, IS_ACYCLIC, LONGEST_DIST, TRANS_REDUCTION, PATH,
         IS_ANTISYMMETRIC, TOPO_SORT, SPANNING_FOREST, EQUALS, LT, EdgeLoop,
         LoopFunctions, Counts, FROM_SOURCE_RANGE
<1>2. answer = << >>
  BY <1>1 DEF GABOW_SCC, IS_STRONGLY_CONNECTED, Running
<1> QED  BY <1>1, <1>2

LEMMA GabowStep == GabowInv /\ [Next]_vars => GabowInv'
<1> SUFFICES ASSUME GabowInv, [Next]_vars PROVE GabowInv'
  OBVIOUS
<1>1. CASE UNCHANGED vars
  <2>1. call' = call /\ loc' = loc /\ answer' = answer
    BY <1>1 DEF vars
  <2>2. D' = D /\ V' = V /\ N' = N /\ Result' = Result
    BY <2>1 DEF D, V, N, Result
  <2>3. GabowAnswer' <=> GabowAnswer
    BY <2>1, <2>2, Zenon DEF GabowAnswer
  <2> QED  BY <2>1, <2>2, <2>3 DEF GabowInv
<1>2. CASE Next
  <2>1. call' = call /\ call' \in Calls /\ D' = D /\ V' = V /\ N' = N
    BY <1>2, CallKept DEF GabowInv, D, V, N
  <2> SUFFICES ASSUME call.fn \in GabowFunctions
               PROVE  /\ SearchOn(D, loc')
                      /\ call.fn = "IS_STRONGLY_CONNECTED" => loc'.comps = << >>
                      /\ answer' # << >> => GabowAnswer'
    BY <2>1 DEF GabowInv
  <2>2. (GABOW_SCC \/ IS_STRONGLY_CONNECTED) /\ answer = << >>
    BY <1>2, OnlyGabow
  <2>3. /\ DigraphLike(D) /\ N \in Nat /\ N = Len(D) /\ V = 1 .. N /\ SearchOn(D, loc)
        /\ call \in Calls
        /\ call.fn = "IS_STRONGLY_CONNECTED" => loc.comps = << >>
    BY CallDigraph DEF GabowInv
  <2>4. CASE GABOW_SCC
    <3>1. call.fn = "GABOW_SCC" /\ (NextRoot \/ FollowEdge \/ LeaveVertex \/ AllClosed)
      BY <2>4 DEF GABOW_SCC, Running
    <3>2. CASE NextRoot \/ FollowEdge \/ LeaveVertex
      BY <2>2, <2>3, <3>1, <3>2, NextRootStep, FollowEdgeStep, LeaveVertexStep
    <3>3. CASE AllClosed
      <4>1. /\ loc.frames = << >> /\ loc.v > N /\ loc' = loc
            /\ Result' = [ id |-> [v \in V |-> loc.id[v] - N], comps |-> loc.comps ]
        BY <3>3 DEF AllClosed, AtRoot, Answer, Result
      <4>2. GabowAnswer'
        BY <2>1, <3>1, <4>1 DEF GabowAnswer
      <4> QED  BY <2>3, <3>1, <4>1, <4>2
    <3> QED  BY <3>1, <3>2, <3>3
  <2>5. CASE IS_STRONGLY_CONNECTED
    <3>1. /\ call.fn = "IS_STRONGLY_CONNECTED" /\ loc.comps = << >>
          /\ FirstVertex \/ FollowEdge \/ FirstComponent
      BY <2>3, <2>5 DEF IS_STRONGLY_CONNECTED, Running
    <3>2. \/ SearchOn(D, loc') /\ loc'.comps = << >> /\ answer' = answer
          \/ loc' = loc /\ Result' = \A u, v \in V : ReachesOrIs(D, u, v)
      BY <2>1, <2>3, <3>1, FirstVertexStep, FollowEdgeStep, FirstComponentStep, Zenon
    <3>3. CASE SearchOn(D, loc') /\ loc'.comps = << >> /\ answer' = answer
      BY <2>2, <3>3
    <3>4. CASE loc' = loc /\ Result' = \A u, v \in V : ReachesOrIs(D, u, v)
      <4>1. GabowAnswer'
        <5>1. call'.fn # "GABOW_SCC"
          BY <2>1, <3>1
        <5> QED  BY <2>1, <3>4, <5>1, Zenon DEF GabowAnswer
      <4> QED  BY <2>3, <3>1, <3>4, <4>1, Zenon
    <3> QED  BY <3>2, <3>3, <3>4, Zenon
  <2> QED  BY <2>2, <2>4, <2>5
<1> QED  BY <1>1, <1>2

------------------------------------------------------------------------------
(* The places up to one that stack2 names are its lower entries: as many of  *)
(* them for two places only if they are the same.                            *)
LEMMA SameAmount ==
  ASSUME NEW s2 \in Seq(Nat \ {0}), NEW p \in Nat, NEW q \in Nat,
         Cardinality({ s \in 1 .. Len(s2) : s2[s] <= p }) =
           Cardinality({ s \in 1 .. Len(s2) : s2[s] <= q })
  PROVE  SamePart(s2, p, q)
<1> DEFINE A(x) == { s \in 1 .. Len(s2) : s2[s] <= x }
<1>1. Len(s2) \in Nat /\ \A s \in 1 .. Len(s2) : s2[s] \in Nat
  OBVIOUS
<1>2. IsFiniteSet(1 .. Len(s2))
  BY <1>1, CountTo
<1>3. A(p) \subseteq A(q) \/ A(q) \subseteq A(p)
  BY <1>1
<1>4. IsFiniteSet(A(p)) /\ IsFiniteSet(A(q)) /\ Cardinality(A(p)) = Cardinality(A(q))
  <2>1. A(p) \in SUBSET (1 .. Len(s2)) /\ A(q) \in SUBSET (1 .. Len(s2))
    OBVIOUS
  <2>2. Cardinality(A(p)) = Cardinality(A(q))
    OBVIOUS
  <2> HIDE DEF A
  <2> QED  BY <1>2, <2>1, <2>2, FS_Subset
<1>5. A(p) = A(q)
  <2> HIDE DEF A
  <2> QED  BY <1>3, <1>4, FS_Subset
<1>6. \A s \in 1 .. Len(s2) : s \in A(p) <=> s \in A(q)
  BY <1>5
<1> QED  BY <1>6 DEF SamePart

(* What StrongComponentsRight says of a search that is still running.        *)
LEMMA StacksRight ==
  ASSUME NEW adj, NEW l, Gabow(adj, l), DigraphLike(adj)
  PROVE  /\ Len(l.frames) <= Len(adj) /\ Len(l.stack1) <= Len(adj)
         /\ \A q \in 1 .. Len(l.stack2) :
              /\ l.stack2[q] \in 1 .. Len(l.stack1)
              /\ q > 1 => l.stack2[q - 1] < l.stack2[q]
         /\ l.frames # << >> => l.stack2 # << >> /\ l.stack2[1] = 1
         /\ \A p, q \in 1 .. Len(l.stack1) :
              Cardinality({ s \in 1 .. Len(l.stack2) : l.stack2[s] <= p }) =
                Cardinality({ s \in 1 .. Len(l.stack2) : l.stack2[s] <= q })
              => ReachesOrIs(adj, l.stack1[p], l.stack1[q])
<1> DEFINE n == Len(adj)
<1>1. n \in Nat
  BY DEF DigraphLike
<1>2. /\ l.frames \in Seq(FrameSet(n)) /\ Len(l.frames) \in Nat /\ l.stack1 \in Seq(1 .. n)
      /\ l.id \in [1 .. n -> Nat]
      /\ \A f \in 1 .. Len(l.frames) :
           /\ l.frames[f].v \in 1 .. n
           /\ l.id[l.frames[f].v] \in 1 .. Len(l.stack1)
  <2> HIDE DEF n
  <2> QED  BY GabowFields DEF n
<1>3. /\ Places(n, l.stack1, l.id, l.count)
      /\ CallsOpen(adj, l.frames, l.stack1, l.id)
      /\ Beginnings(l.frames, l.stack2, l.id)
      /\ PartsReach(adj, l.stack1, l.stack2)
  BY DEF Gabow, GabowRest
<1>4. Len(l.frames) <= n
  <2> DEFINE vs == [ f \in 1 .. Len(l.frames) |-> l.frames[f].v ]
  <2>1. vs \in [1 .. Len(l.frames) -> 1 .. n]
    BY <1>2
  <2>2. PICK m \in Nat : m = Len(l.frames)
    BY <1>2
  <2>3. vs \in [1 .. m -> 1 .. n]
    BY <2>1, <2>2
  <2>4. vs \in Seq(1 .. n) /\ Len(vs) = m
    <3> HIDE DEF vs
    <3> QED  BY <2>3, LenProperties, SeqDef
  <2>5. \A f, g \in 1 .. m : f < g => vs[f] # vs[g]
    <3> SUFFICES ASSUME NEW f \in 1 .. m, NEW g \in 1 .. m, f < g PROVE vs[f] # vs[g]
      OBVIOUS
    <3>1. l.id[l.frames[f].v] < l.id[l.frames[g].v]
      BY <1>3, <2>2 DEF CallsOpen
    <3>2. l.id[l.frames[f].v] \in Nat
      BY <1>2, <2>2
    <3>3. l.frames[f].v # l.frames[g].v
      BY <3>1, <3>2
    <3> QED  BY <2>2, <3>3
  <2>6. \A f, g \in 1 .. m : vs[f] = vs[g] => f = g
    <3> HIDE DEF vs
    <3> QED  BY <2>5
  <2>7. Len(vs) <= n
    <3> HIDE DEF vs, n
    <3> QED  BY <1>1, <2>4, <2>6, DifferentVertices
  <2> QED  BY <2>2, <2>4, <2>7
<1>5. ASSUME NEW q \in 1 .. Len(l.stack2)
      PROVE  /\ l.stack2[q] \in 1 .. Len(l.stack1)
             /\ q > 1 => l.stack2[q - 1] < l.stack2[q]
  <2>1. PICK f \in 1 .. Len(l.frames) : l.stack2[q] = l.id[l.frames[f].v]
    BY <1>3 DEF Beginnings
  <2>2. Len(l.stack2) \in Nat
    BY <1>3 DEF Beginnings
  <2>3. q > 1 => q - 1 \in 1 .. Len(l.stack2) /\ q - 1 < q
    BY <2>2
  <2>4. q > 1 => l.stack2[q - 1] < l.stack2[q]
    BY <1>3, <2>3 DEF Beginnings
  <2> QED  BY <1>2, <2>1, <2>4
<1>6. ASSUME NEW p \in 1 .. Len(l.stack1), NEW q \in 1 .. Len(l.stack1),
             Cardinality({ s \in 1 .. Len(l.stack2) : l.stack2[s] <= p }) =
               Cardinality({ s \in 1 .. Len(l.stack2) : l.stack2[s] <= q })
      PROVE  ReachesOrIs(adj, l.stack1[p], l.stack1[q])
  <2>1. p \in Nat /\ q \in Nat /\ l.stack2 \in Seq(Nat \ {0})
    BY <1>2, <1>3 DEF Beginnings
  <2>2. SamePart(l.stack2, p, q)
    BY <1>6, <2>1, SameAmount
  <2> QED  BY <1>3, <2>2 DEF PartsReach
<1> QED  BY <1>3, <1>4, <1>5, <1>6 DEF Places, Beginnings

(* What it says of an answer.                                                *)
LEMMA AnswersRight ==
  ASSUME GabowInv
  PROVE  /\ Answered("GABOW_SCC") =>
              /\ \A u, v \in V : (Result.id[u] = Result.id[v]) =
                   (ReachesOrIs(D, u, v) /\ ReachesOrIs(D, v, u))
              /\ \A c \in 1 .. Len(Result.comps) : \A v \in V :
                   (Result.id[v] = c) = (\E q \in 1 .. Len(Result.comps[c]) : Result.comps[c][q] = v)
              /\ \A v \in V : Result.id[v] \in 1 .. Len(Result.comps)
         /\ Answered("IS_STRONGLY_CONNECTED") =>
              Result = \A u, v \in V : ReachesOrIs(D, u, v)
<1>1. ASSUME Answered("IS_STRONGLY_CONNECTED")
      PROVE  Result = \A u, v \in V : ReachesOrIs(D, u, v)
  <2>1. GabowAnswer /\ call.fn # "GABOW_SCC"
    BY <1>1 DEF GabowInv, Answered, GabowFunctions
  <2> QED  BY <2>1, Zenon DEF GabowAnswer
<1>2. ASSUME Answered("GABOW_SCC")
      PROVE  /\ \A u, v \in V : (Result.id[u] = Result.id[v]) =
                  (ReachesOrIs(D, u, v) /\ ReachesOrIs(D, v, u))
             /\ \A c \in 1 .. Len(Result.comps) : \A v \in V :
                  (Result.id[v] = c) = (\E q \in 1 .. Len(Result.comps[c]) : Result.comps[c][q] = v)
             /\ \A v \in V : Result.id[v] \in 1 .. Len(Result.comps)
  <2>1. GabowAnswer /\ call.fn = "GABOW_SCC" /\ SearchOn(D, loc) /\ call \in Calls
    BY <1>2 DEF GabowInv, Answered, GabowFunctions
  <2>2. DigraphLike(D) /\ N \in Nat /\ N = Len(D) /\ V = 1 .. N
    BY <2>1, CallDigraph
  <2>3. /\ loc.frames = << >> /\ loc.v > N
        /\ Result = [ id |-> [v \in V |-> loc.id[v] - N], comps |-> loc.comps ]
    BY <2>1 DEF GabowAnswer
  <2>4. /\ \A u \in V : loc.id[u] \in N + 1 .. N + Len(loc.comps)
        /\ \A u, w \in V :
             loc.id[u] = loc.id[w] <=> ReachesOrIs(D, u, w) /\ ReachesOrIs(D, w, u)
    BY <2>1, <2>2, <2>3, NumbersAreComponents
  <2>5. /\ Len(loc.comps) \in Nat
        /\ \A c \in 1 .. Len(loc.comps) : \A u \in V :
             loc.id[u] = N + c <=> \E q \in 1 .. Len(loc.comps[c]) : loc.comps[c][q] = u
    <3>1. Gabow(D, loc)
      BY <2>1 DEF SearchOn
    <3>2. loc \in GabowType(Len(D))
      BY <2>2, <3>1, GabowFields
    <3>3. loc.comps \in Seq(Seq(1 .. Len(D)))
      BY <3>2 DEF GabowType
    <3>4. InComponents(N, loc.id, loc.comps, loc.count)
      BY <2>2, <3>1 DEF Gabow, GabowRest
    <3> QED  BY <2>2, <3>3, <3>4 DEF InComponents
  <2>6. Result.comps = loc.comps /\ \A u \in V : Result.id[u] = loc.id[u] - N
    BY <2>3
  <2>7. \A u, w \in V : Result.id[u] = Result.id[w] <=>
          ReachesOrIs(D, u, w) /\ ReachesOrIs(D, w, u)
    <3> SUFFICES ASSUME NEW u \in V, NEW w \in V
                 PROVE  Result.id[u] = Result.id[w] <=> loc.id[u] = loc.id[w]
      BY <2>4
    <3>1. loc.id[u] \in Int /\ loc.id[w] \in Int
      BY <2>2, <2>4, <2>5
    <3> QED  BY <2>2, <2>6, <3>1
  <2>8. \A c \in 1 .. Len(loc.comps) : \A u \in V :
          Result.id[u] = c <=> \E q \in 1 .. Len(loc.comps[c]) : loc.comps[c][q] = u
    <3> SUFFICES ASSUME NEW c \in 1 .. Len(loc.comps), NEW u \in V
                 PROVE  Result.id[u] = c <=> loc.id[u] = N + c
      BY <2>5
    <3>1. loc.id[u] \in Int /\ c \in Int
      BY <2>2, <2>4, <2>5
    <3> QED  BY <2>2, <2>6, <3>1
  <2>9. \A u \in V : Result.id[u] \in 1 .. Len(loc.comps)
    BY <2>2, <2>4, <2>5, <2>6
  <2>10. \A u, w \in V : (Result.id[u] = Result.id[w]) =
           (ReachesOrIs(D, u, w) /\ ReachesOrIs(D, w, u))
    BY <2>7, Zenon
  <2>11. \A c \in 1 .. Len(loc.comps) : \A u \in V :
           (Result.id[u] = c) = (\E q \in 1 .. Len(loc.comps[c]) : loc.comps[c][q] = u)
    BY <2>8, Zenon
  <2> DEFINE Right(comps) ==
         /\ \A c \in 1 .. Len(comps) : \A u \in V :
              (Result.id[u] = c) = (\E q \in 1 .. Len(comps[c]) : comps[c][q] = u)
         /\ \A u \in V : Result.id[u] \in 1 .. Len(comps)
  <2>12. Right(loc.comps)
    BY <2>9, <2>11, Zenon
  <2>13. Right(Result.comps)
    <3> HIDE DEF Right
    <3> QED  BY <2>6, <2>12
  <2> QED  BY <2>10, <2>13, Zenon
<1> QED  BY <1>1, <1>2

LEMMA GabowInvGives == GabowInv => StrongComponentsRight
<1> SUFFICES ASSUME GabowInv PROVE StrongComponentsRight
  OBVIOUS
<1>1. ASSUME call.fn \in GabowFunctions, answer = << >>
      PROVE  /\ Len(loc.frames) <= N /\ Len(loc.stack1) <= N
             /\ \A q \in 1 .. Len(loc.stack2) :
                  /\ loc.stack2[q] \in 1 .. Len(loc.stack1)
                  /\ q > 1 => loc.stack2[q - 1] < loc.stack2[q]
             /\ loc.frames # << >> => loc.stack2 # << >> /\ loc.stack2[1] = 1
             /\ \A p, q \in 1 .. Len(loc.stack1) :
                  Cardinality({ s \in 1 .. Len(loc.stack2) : loc.stack2[s] <= p }) =
                    Cardinality({ s \in 1 .. Len(loc.stack2) : loc.stack2[s] <= q })
                  => ReachesOrIs(D, loc.stack1[p], loc.stack1[q])
  <2>1. DigraphLike(D) /\ N = Len(D) /\ Gabow(D, loc)
    BY <1>1, CallDigraph DEF GabowInv, SearchOn
  <2>2. /\ Len(loc.frames) <= Len(D) /\ Len(loc.stack1) <= Len(D)
        /\ \A q \in 1 .. Len(loc.stack2) :
             /\ loc.stack2[q] \in 1 .. Len(loc.stack1)
             /\ q > 1 => loc.stack2[q - 1] < loc.stack2[q]
        /\ loc.frames # << >> => loc.stack2 # << >> /\ loc.stack2[1] = 1
        /\ \A p, q \in 1 .. Len(loc.stack1) :
             Cardinality({ s \in 1 .. Len(loc.stack2) : loc.stack2[s] <= p }) =
               Cardinality({ s \in 1 .. Len(loc.stack2) : loc.stack2[s] <= q })
             => ReachesOrIs(D, loc.stack1[p], loc.stack1[q])
    BY <2>1, StacksRight, Zenon
  <2>3. Len(loc.frames) <= N /\ Len(loc.stack1) <= N
    BY <2>1, <2>2
  <2> QED  BY <2>2, <2>3
<1> QED  BY <1>1, AnswersRight, Zenon
         DEF StrongComponentsRight, GabowFunctions, AtVertex, ReachesOrIs, Reaches, N

(* Whatever digraph they are called with, GABOW_SCC gives two vertices the   *)
(* same number, and puts them in the component of that number, exactly if    *)
(* each reaches the other, IS_STRONGLY_CONNECTED_DIGRAPH answers whether all *)
(* vertices do, and while they run neither stack outgrows its room, stack2   *)
(* is never run empty, and vertices with no beginning between them reach     *)
(* each other.                                                               *)
THEOREM StrongComponentsCorrect == Spec => []StrongComponentsRight
<1>1. Init => GabowInv
  BY GabowInit
<1>2. GabowInv /\ [Next]_vars => GabowInv'
  BY GabowStep
<1>3. GabowInv => StrongComponentsRight
  BY GabowInvGives
<1> QED  BY <1>1, <1>2, <1>3, PTL DEF Spec
==============================================================================
