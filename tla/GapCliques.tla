------------------------------ MODULE GapCliques ------------------------------
(***************************************************************************)
(* DIGRAPHS_BronKerbosch of gap/cliques.gi, the search for digraphs with    *)
(* 512 vertices or more.  All its state is in the local variables of the    *)
(* recursive function bk.                                                   *)
(***************************************************************************)
EXTENDS CliqueSearch

GapFrame(c, try, ban, G, d) ==
  [c |-> c, try |-> try, ban |-> ban, group |-> G, d |-> d,
   picked |-> {}, at |-> -1, stage |-> "enter"]

(* For representatives one isolated vertex is enough, and the generators     *)
(* that act on the isolated vertices are left out.                           *)
GapBegin(a, G) ==
  LET V == Vertices(a.digraph)
      joined == { v \in V \ a.include : \A w \in a.include : Adjacent(a, v, w) }
      one_isolated == a.reps /\ Isolated(a) # {}
      possible == IF one_isolated THEN (joined \ Isolated(a)) \cup {Min(Isolated(a))}
                  ELSE joined
      grp == IF one_isolated THEN Generated(KeptGens(a), a.digraph.n) ELSE G
  IN  /\ status' = "gap"
      /\ frames' = << GapFrame(a.include, possible, {}, grp, Cardinality(a.include)) >>

GapStage(stage) == status = "gap" /\ F.stage = stage

GapHasSize == args.size \in {0, F.d}
GapReportable == F.d > 0 /\ ~args.max /\ GapHasSize
NothingLeft == F.try = {} /\ F.ban = {}

(* bk returns.                                                               *)
Leave ==
  /\ frames' = Front(frames)
  /\ status' = IF Len(frames) = 1 THEN "done" ELSE "gap"

GapPivot ==
  LET candidates == F.try \cup F.ban
      tried(v) == Cardinality(Neighbours(args, v) \cap F.try)
  IN  Min({ v \in candidates : \A w \in candidates : tried(w) <= tried(v) })

GapPicked ==
  LET all == IF args.max THEN F.try \ Neighbours(args, GapPivot) ELSE F.try
  IN  { v \in all : \A w \in Orbit(F.group, v) \cap all : v <= w }

(* No clique below has the size sought, or these vertices are to be tried.   *)
GapPickVertices ==
  IF args.size # 0 /\ args.size < F.d + 1 THEN Leave
  ELSE /\ Running([F EXCEPT !.d = @ + 1, !.picked = GapPicked, !.stage = "loop"])
       /\ UNCHANGED status

GapEnter ==
  /\ GapStage("enter")
  /\ \/ /\ GapReportable
        /\ Hook(F.c)
        /\ IF args.size # 0 THEN Leave ELSE GapPickVertices
     \/ /\ ~GapReportable /\ NothingLeft /\ GapHasSize
        /\ Hook(F.c)
        /\ Leave
     \/ /\ ~GapReportable /\ NothingLeft /\ ~GapHasSize
        /\ Leave
        /\ UNCHANGED << results, found_orbits >>
     \/ /\ ~GapReportable /\ ~NothingLeft
        /\ GapPickVertices
        /\ UNCHANGED << results, found_orbits >>
  /\ UNCHANGED << args, group >>

GapToTry == { v \in F.picked : v > F.at }

(* An excluded vertex is not added to the clique, but banned in its turn.    *)
GapTry ==
  /\ GapStage("loop")
  /\ GapToTry # {}
  /\ LET v == Min(GapToTry)
         nbs == Neighbours(args, v)
         caller == [F EXCEPT !.at = v, !.stage = "tried"]
     IN  IF v \in InvariantPart(group, args.exclude) THEN Running(caller)
         ELSE frames' = Append(Append(Front(frames), caller),
                               GapFrame(F.c \cup {v}, F.try \cap nbs, F.ban \cap nbs,
                                        Stabilizer(F.group, v), F.d))
  /\ UNCHANGED << args, group, status, results, found_orbits >>

(* The limit ends the loop; else the orbit of the vertex tried is banned.     *)
GapPrune ==
  /\ GapStage("tried")
  /\ IF NumFound = args.limit THEN Leave
     ELSE /\ LET orbit == Orbit(F.group, F.at)
             IN  Running([F EXCEPT !.try = @ \ orbit, !.ban = @ \cup orbit, !.stage = "loop"])
          /\ UNCHANGED status
  /\ UNCHANGED << args, group, results, found_orbits >>

GapEnd ==
  /\ GapStage("loop")
  /\ GapToTry = {}
  /\ Leave
  /\ UNCHANGED << args, group, results, found_orbits >>

DIGRAPHS_BronKerbosch == GapEnter \/ GapTry \/ GapPrune \/ GapEnd
==============================================================================
