--------------------------- MODULE HomoResultsProofs ---------------------------
(***************************************************************************)
(* What the searches of homos.c report, and by which group and which cells   *)
(* they spare themselves work: max_results is kept (StopsAtOnce), every call *)
(* on the stack works with the stabiliser of the values there are when it    *)
(* runs, and with its representatives (StabilisersFixValues), and with cells *)
(* that hold what is compatible with these values (CellsForwardChecked);     *)
(* so that what is reported is what was asked for (ReportsSound), and never  *)
(* a map that the group takes one found before to (ReportsIrredundant).      *)
(*                                                                         *)
(* Each comes from an invariant of its own beside the one of                 *)
(* HomoSearchProofs.  ResultsRight counts the results.  StabsRight speaks    *)
(* of the calls below the running one too: their levels of STAB_GENS and     *)
(* REPS are still theirs because a call writes only above the levels of      *)
(* those that are below it on the stack (the rep_depth never goes down).     *)
(* CellsRight does so for the columns: the cell that a column had on top at  *)
(* the depth of a call holds exactly the values that fit what this call      *)
(* knows (Known), whatever the calls above it have pushed since.  MapsRight  *)
(* says that the values assigned go together, and that every value that a    *)
(* call on the stack has left to try goes with those it was called with.     *)
(* ApartRight keeps for every map found the call on the stack that has it    *)
(* behind: one that has tried the value it has there and is past it.         *)
(***************************************************************************)
EXTENDS HomoSearchProofs

------------------------------------------------------------------------------
(* Why a call returns: a vertex has no candidate left, or the last loop over  *)
(* the candidates of one is through.                                         *)
Spent ==
  \/ F.stage = "leave"
  \/ /\ F.stage = (IF args.injective = 0 THEN "old" ELSE "new")
     /\ ToTry(ToChoose(Height)) = {}

(* The steps of the six search functions, together.                          *)
SearchStep ==
  \/ \E m \in BOOLEAN : Report(m) /\ m = (args.injective = 0)
  \/ Enter
  \/ \E v : NarrowTo(PartialUpdate(v), v)
  \/ NarrowOthers
  \/ Narrowed
  \/ ~ InPlace /\ Pick("new", NewValues)
  \/ ~ InPlace /\ args.injective = 0 /\ F.rank >= args.hint /\ Pick("old", OldValues)
  \/ InPlace /\ PickInPlace
  \/ \E possible : possible = ToChoose(Height) /\ TryNew(possible)
  \/ ~ InPlace /\ args.injective = 0 /\ TurnToOld
  \/ ~ InPlace /\ args.injective = 0 /\ TryOld
  \/ Spent /\ Leave /\ UNCHANGED results

LEMMA GraphHomosSteps ==
  ASSUME HInv, find_graph_homos
  PROVE  SearchStep
<1>1. status = "search" /\ Undirected(args) /\ args.injective = 0 /\ Active /\ ~ InPlace
  BY DEF find_graph_homos, Searching, Active, InPlace
<1>2. ToChoose(Height) = BIT_ARRAY_BUFFER[depth]  BY <1>1, ActiveFacts DEF ToChoose
<1>3. CASE Narrow(graph_homo_update_conditions)
  <2> DEFINE v == Min(ToNarrow(BIT_ARRAY_BUFFER[depth]))
  <2>1. NarrowTo(graph_homo_update_conditions(conditions, depth, F.pos, v), v)
    BY <1>3 DEF Narrow, NarrowTo
  <2>2. graph_homo_update_conditions(conditions, depth, F.pos, v) = PartialUpdate(v)
    BY <1>1 DEF PartialUpdate
  <2> HIDE DEF v
  <2>3. NarrowTo(PartialUpdate(v), v)  BY <2>1, <2>2
  <2> QED  BY <2>3 DEF SearchStep
<1>4. CASE Report(TRUE)
  <2>1. TRUE \in BOOLEAN /\ TRUE = (args.injective = 0)  BY <1>1
  <2> QED  BY <1>4, <2>1 DEF SearchStep
<1>5. CASE DeadEnd  BY <1>5 DEF SearchStep, DeadEnd, InSearch, Spent
<1>6. CASE Exhausted("old", BIT_ARRAY_BUFFER[depth])
  BY <1>1, <1>2, <1>6 DEF SearchStep, Exhausted, InSearch, Spent
<1>7. CASE TryNew(BIT_ARRAY_BUFFER[depth])  BY <1>2, <1>7 DEF SearchStep
<1> QED  BY <1>1, <1>3, <1>4, <1>5, <1>6, <1>7 DEF find_graph_homos, Homos, SearchStep

LEMMA DigraphHomosSteps ==
  ASSUME HInv, find_digraph_homos
  PROVE  SearchStep
<1>1. status = "search" /\ ~ Undirected(args) /\ args.injective = 0 /\ Active /\ ~ InPlace
  BY DEF find_digraph_homos, Searching, Active, InPlace
<1>2. ToChoose(Height) = BIT_ARRAY_BUFFER[depth]  BY <1>1, ActiveFacts DEF ToChoose
<1>3. CASE Narrow(digraph_homo_update_conditions)
  <2> DEFINE v == Min(ToNarrow(BIT_ARRAY_BUFFER[depth]))
  <2>1. NarrowTo(digraph_homo_update_conditions(conditions, depth, F.pos, v), v)
    BY <1>3 DEF Narrow, NarrowTo
  <2>2. digraph_homo_update_conditions(conditions, depth, F.pos, v) = PartialUpdate(v)
    BY <1>1 DEF PartialUpdate
  <2> HIDE DEF v
  <2>3. NarrowTo(PartialUpdate(v), v)  BY <2>1, <2>2
  <2> QED  BY <2>3 DEF SearchStep
<1>4. CASE Report(TRUE)
  <2>1. TRUE \in BOOLEAN /\ TRUE = (args.injective = 0)  BY <1>1
  <2> QED  BY <1>4, <2>1 DEF SearchStep
<1>5. CASE DeadEnd  BY <1>5 DEF SearchStep, DeadEnd, InSearch, Spent
<1>6. CASE Exhausted("old", BIT_ARRAY_BUFFER[depth])
  BY <1>1, <1>2, <1>6 DEF SearchStep, Exhausted, InSearch, Spent
<1>7. CASE TryNew(BIT_ARRAY_BUFFER[depth])  BY <1>2, <1>7 DEF SearchStep
<1> QED  BY <1>1, <1>3, <1>4, <1>5, <1>6, <1>7 DEF find_digraph_homos, Homos, SearchStep

LEMMA GraphMonosSteps ==
  ASSUME HInv, find_graph_monos
  PROVE  SearchStep
<1>1. status = "search" /\ Undirected(args) /\ args.injective = 1 /\ Active /\ ~ InPlace
  BY DEF find_graph_monos, Searching, Active, InPlace
<1>2. ToChoose(Height) = BIT_ARRAY_BUFFER[depth]  BY <1>1, ActiveFacts DEF ToChoose
<1>3. CASE Narrow(graph_mono_update_conditions)
  <2> DEFINE v == Min(ToNarrow(BIT_ARRAY_BUFFER[depth]))
  <2>1. NarrowTo(graph_mono_update_conditions(conditions, depth, F.pos, v), v)
    BY <1>3 DEF Narrow, NarrowTo
  <2>2. graph_mono_update_conditions(conditions, depth, F.pos, v) = PartialUpdate(v)
    BY <1>1 DEF PartialUpdate
  <2> HIDE DEF v
  <2>3. NarrowTo(PartialUpdate(v), v)  BY <2>1, <2>2
  <2> QED  BY <2>3 DEF SearchStep
<1>4. CASE Report(FALSE)
  <2>1. FALSE \in BOOLEAN /\ FALSE = (args.injective = 0)  BY <1>1
  <2> QED  BY <1>4, <2>1 DEF SearchStep
<1>5. CASE DeadEnd  BY <1>5 DEF SearchStep, DeadEnd, InSearch, Spent
<1>6. CASE Exhausted("new", BIT_ARRAY_BUFFER[depth])
  BY <1>1, <1>2, <1>6 DEF SearchStep, Exhausted, InSearch, Spent
<1>7. CASE TryNew(BIT_ARRAY_BUFFER[depth])  BY <1>2, <1>7 DEF SearchStep
<1> QED  BY <1>1, <1>3, <1>4, <1>5, <1>6, <1>7 DEF find_graph_monos, InjectiveMaps, SearchStep

LEMMA DigraphMonosSteps ==
  ASSUME HInv, find_digraph_monos
  PROVE  SearchStep
<1>1. status = "search" /\ ~ Undirected(args) /\ args.injective = 1 /\ Active /\ ~ InPlace
  BY DEF find_digraph_monos, Searching, Active, InPlace
<1>2. ToChoose(Height) = BIT_ARRAY_BUFFER[depth]  BY <1>1, ActiveFacts DEF ToChoose
<1>3. CASE Narrow(digraph_mono_update_conditions)
  <2> DEFINE v == Min(ToNarrow(BIT_ARRAY_BUFFER[depth]))
  <2>1. NarrowTo(digraph_mono_update_conditions(conditions, depth, F.pos, v), v)
    BY <1>3 DEF Narrow, NarrowTo
  <2>2. digraph_mono_update_conditions(conditions, depth, F.pos, v) = PartialUpdate(v)
    BY <1>1 DEF PartialUpdate
  <2> HIDE DEF v
  <2>3. NarrowTo(PartialUpdate(v), v)  BY <2>1, <2>2
  <2> QED  BY <2>3 DEF SearchStep
<1>4. CASE Report(FALSE)
  <2>1. FALSE \in BOOLEAN /\ FALSE = (args.injective = 0)  BY <1>1
  <2> QED  BY <1>4, <2>1 DEF SearchStep
<1>5. CASE DeadEnd  BY <1>5 DEF SearchStep, DeadEnd, InSearch, Spent
<1>6. CASE Exhausted("new", BIT_ARRAY_BUFFER[depth])
  BY <1>1, <1>2, <1>6 DEF SearchStep, Exhausted, InSearch, Spent
<1>7. CASE TryNew(BIT_ARRAY_BUFFER[depth])  BY <1>2, <1>7 DEF SearchStep
<1> QED  BY <1>1, <1>3, <1>4, <1>5, <1>6, <1>7 DEF find_digraph_monos, InjectiveMaps, SearchStep

LEMMA GraphEmbeddingsSteps ==
  ASSUME HInv, find_graph_embeddings
  PROVE  SearchStep
<1>1. status = "search" /\ Undirected(args) /\ args.injective = 2 /\ Active /\ ~ InPlace
  BY DEF find_graph_embeddings, Searching, Active, InPlace
<1>2. ToChoose(Height) = BIT_ARRAY_BUFFER[depth]  BY <1>1, ActiveFacts DEF ToChoose
<1>3. CASE Narrow(graph_embed_update_conditions)
  <2> DEFINE v == Min(ToNarrow(BIT_ARRAY_BUFFER[depth]))
  <2>1. NarrowTo(graph_embed_update_conditions(conditions, depth, F.pos, v), v)
    BY <1>3 DEF Narrow, NarrowTo
  <2>2. graph_embed_update_conditions(conditions, depth, F.pos, v) = PartialUpdate(v)
    BY <1>1 DEF PartialUpdate
  <2> HIDE DEF v
  <2>3. NarrowTo(PartialUpdate(v), v)  BY <2>1, <2>2
  <2> QED  BY <2>3 DEF SearchStep
<1>4. CASE Report(FALSE)
  <2>1. FALSE \in BOOLEAN /\ FALSE = (args.injective = 0)  BY <1>1
  <2> QED  BY <1>4, <2>1 DEF SearchStep
<1>5. CASE DeadEnd  BY <1>5 DEF SearchStep, DeadEnd, InSearch, Spent
<1>6. CASE Exhausted("new", BIT_ARRAY_BUFFER[depth])
  BY <1>1, <1>2, <1>6 DEF SearchStep, Exhausted, InSearch, Spent
<1>7. CASE TryNew(BIT_ARRAY_BUFFER[depth])  BY <1>2, <1>7 DEF SearchStep
<1> QED  BY <1>1, <1>3, <1>4, <1>5, <1>6, <1>7 DEF find_graph_embeddings, InjectiveMaps, SearchStep

LEMMA DigraphEmbeddingsSteps ==
  ASSUME HInv, find_digraph_embeddings
  PROVE  SearchStep
<1>1. status = "search" /\ ~ Undirected(args) /\ args.injective = 2 /\ Active /\ InPlace
  BY DEF find_digraph_embeddings, Searching, Active, InPlace
<1>2. ToChoose(Height) = get_conditions(conditions, F.next)  BY <1>1, ActiveFacts DEF ToChoose
<1>3. CASE Narrow(digraph_embed_update_conditions)
  <2> DEFINE v == Min(ToNarrow(BIT_ARRAY_BUFFER[depth]))
  <2>1. NarrowTo(digraph_embed_update_conditions(conditions, depth, F.pos, v), v)
    BY <1>3 DEF Narrow, NarrowTo
  <2>2. digraph_embed_update_conditions(conditions, depth, F.pos, v) = PartialUpdate(v)
    BY <1>1 DEF PartialUpdate
  <2> HIDE DEF v
  <2>3. NarrowTo(PartialUpdate(v), v)  BY <2>1, <2>2
  <2> QED  BY <2>3 DEF SearchStep
<1>4. CASE Report(FALSE)
  <2>1. FALSE \in BOOLEAN /\ FALSE = (args.injective = 0)  BY <1>1
  <2> QED  BY <1>4, <2>1 DEF SearchStep
<1>5. CASE DeadEnd  BY <1>5 DEF SearchStep, DeadEnd, InSearch, Spent
<1>6. CASE Exhausted("new", get_conditions(conditions, F.next))
  BY <1>1, <1>2, <1>6 DEF SearchStep, Exhausted, InSearch, Spent
<1>7. CASE TryNew(get_conditions(conditions, F.next))  BY <1>2, <1>7 DEF SearchStep
<1> QED  BY <1>1, <1>3, <1>4, <1>5, <1>6, <1>7 DEF find_digraph_embeddings, SearchStep

LEMMA RunSteps ==
  ASSUME HInv, Run
  PROVE  \/ init_partial_map_and_find
         \/ status = "search" /\ SearchStep
<1>1. CASE init_partial_map_and_find  BY <1>1
<1>2. CASE ~ init_partial_map_and_find
  <2>1. status = "search"
    BY <1>2 DEF Run, find_graph_homos, find_graph_monos, find_graph_embeddings,
                find_digraph_homos, find_digraph_monos, find_digraph_embeddings, Searching
  <2>2. SearchStep
    BY <1>2, GraphHomosSteps, GraphMonosSteps, GraphEmbeddingsSteps, DigraphHomosSteps,
       DigraphMonosSteps, DigraphEmbeddingsSteps DEF Run
  <2> QED  BY <2>1, <2>2
<1> QED  BY <1>1, <1>2

------------------------------------------------------------------------------
(* The number of results.                                                    *)

(* The results are maps of the vertices, and the search stops with the one   *)
(* that makes them as many as asked for.                                     *)
ResultsRight ==
  /\ args \in Arguments
  /\ results \in Seq([Vertices(args.digraph1) -> Vertices(args.digraph2)])
  /\ Len(results) <= args.max_results
  /\ status # "jumped" => Len(results) < args.max_results

(* When every vertex is assigned the map that is reported has a value        *)
(* everywhere.                                                               *)
LEMMA WholeMap ==
  ASSUME HInv, Active, depth = n1
  PROVE  /\ Assigned = V1
         /\ \A v \in V1 : MAP[v] \in V2
         /\ ExternalMap \in [Vertices(args.digraph1) -> Vertices(args.digraph2)]
<1>1. n1 \in Nat /\ Assigned \subseteq V1 /\ V1 = 0 .. n1 - 1
  BY ActiveFacts DEF V1
<1>2. MapRight /\ args \in Arguments  BY DEF HInv, ActiveRight, ArgsRight
<1>3. IsFiniteSet(V1) /\ Cardinality(V1) = n1  BY <1>1, IntervalFinite DEF V1
<1>4. Assigned = V1
  <2>1. Cardinality(Assigned) = Cardinality(V1)  BY <1>2, <1>3 DEF MapRight
  <2> QED  BY <1>1, <1>3, <2>1, FS_Subset
<1>5. \A v \in V1 : MAP[v] \in V2  BY <1>2, <1>4 DEF MapRight
<1>6. V1 = Vertices(args.digraph1) /\ V2 = Vertices(args.digraph2)
  BY DEF V1, V2, n1, n2, Vertices
<1>7. \A v \in V1 : INVERSE_ORDER[v] \in V1
  BY <1>2, <1>6, InverseOrderFacts DEF INVERSE_ORDER
<1>8. ExternalMap \in [V1 -> V2]  BY <1>1, <1>5, <1>7 DEF ExternalMap
<1> QED  BY <1>4, <1>5, <1>6, <1>8

(* Only a report adds a result.                                              *)
LEMMA OthersReportNothing ==
  ASSUME HInv, Run
  PROVE  /\ args' = args
         /\ \/ results' = results /\ status' # "jumped"
            \/ \E m \in BOOLEAN : /\ Report(m) /\ m = (args.injective = 0)
                                  /\ status = "search"
<1>1. CASE init_partial_map_and_find
  <2>1. status = "partial"
    BY <1>1 DEF init_partial_map_and_find, PartialEntry, PartialNarrow, PartialNarrowed,
                PartialInstall, PartialDone, InPartial
  <2> QED
    BY <1>1, <2>1 DEF init_partial_map_and_find, PartialEntry, PartialNarrow, PartialNarrowed,
                      PartialInstall, PartialDone
<1>2. CASE status = "search" /\ SearchStep
  <2>1. CASE \E m \in BOOLEAN : Report(m) /\ m = (args.injective = 0)
    <3>1. args' = args  BY <2>1 DEF Report, Leave
    <3> QED  BY <1>2, <2>1, <3>1
  <2>2. CASE Leave /\ UNCHANGED results  BY <1>2, <2>2 DEF Leave
  <2>3. CASE Enter \/ NarrowOthers \/ Narrowed \/ \E v : NarrowTo(PartialUpdate(v), v)
    BY <1>2, <2>3 DEF Enter, NarrowOthers, Narrowed, NarrowTo
  <2>4. CASE Pick("new", NewValues) \/ Pick("old", OldValues) \/ PickInPlace \/ TurnToOld
    <3>1. CASE Pick("new", NewValues)  BY <1>2, <3>1 DEF Pick
    <3>2. CASE Pick("old", OldValues)  BY <1>2, <3>2 DEF Pick
    <3>3. CASE PickInPlace \/ TurnToOld  BY <1>2, <3>3 DEF PickInPlace, TurnToOld
    <3> QED  BY <2>4, <3>1, <3>2, <3>3
  <2>5. CASE TryOld \/ \E possible : TryNew(possible)
    BY <1>2, <2>5 DEF TryOld, TryNew
  <2> QED  BY <1>2, <2>1, <2>2, <2>3, <2>4, <2>5 DEF SearchStep
<1> QED  BY <1>1, <1>2, RunSteps

LEMMA ReportedRight ==
  ASSUME HInv, ResultsRight, NEW m \in BOOLEAN, Report(m), status = "search"
  PROVE  ResultsRight'
<1> DEFINE Maps == [Vertices(args.digraph1) -> Vertices(args.digraph2)]
<1>1. /\ args \in Arguments /\ results \in Seq(Maps)
      /\ Len(results) < args.max_results
      /\ args.max_results \in Nat
  BY MaxResultsAssumption DEF ResultsRight
<1>2. args' = args  BY DEF Report, Leave
<1>3. ExternalMap \in Maps  BY WholeMap DEF Report, Active
<1> HIDE DEF Maps
<1>4. CASE Leave /\ UNCHANGED results
  <2>1. status' # "jumped"  BY <1>4 DEF Leave
  <2> QED  BY <1>1, <1>2, <1>4, <2>1 DEF ResultsRight, Maps
<1>5. CASE results' = Append(results, ExternalMap)
  <2>1. /\ Append(results, ExternalMap) \in Seq(Maps)
        /\ Len(Append(results, ExternalMap)) = Len(results) + 1
    BY <1>1, <1>3, AppendProperties
  <2>2. results' \in Seq(Maps) /\ Len(results') = Len(results) + 1 /\ Len(results) \in Nat
    BY <1>1, <1>5, <2>1, LenProperties
  <2>3. Len(results') <= args.max_results  BY <1>1, <2>2
  <2>4. Len(results') >= args.max_results => status' = "jumped"
    <3> SUFFICES ASSUME Len(results') >= args.max_results  PROVE status' = "jumped"
      OBVIOUS
    <3>1. ~ (results' = results)  BY <2>2
    <3> QED  BY <3>1 DEF Report
  <2>5. status' # "jumped" => Len(results') < args.max_results  BY <1>1, <2>2, <2>4
  <2> QED  BY <1>1, <1>2, <2>2, <2>3, <2>5 DEF ResultsRight, Maps
<1> QED  BY <1>4, <1>5 DEF Report

LEMMA NextResultsRight ==
  ASSUME HInv, ResultsRight, [Next]_vars
  PROVE  ResultsRight'
<1>1. CASE \E a \in Arguments : Call(a)
  <2>1. PICK a \in Arguments : Call(a)  BY <1>1
  <2>2. args' = a /\ results' = << >> /\ status' # "jumped"
    BY <2>1 DEF Call, RefuseAtOnce, RefuseInInit, Begin, NewCall
  <2>3. a.max_results \in Nat \ {0}  BY MaxResultsAssumption
  <2> QED  BY <2>2, <2>3 DEF ResultsRight
<1>2. CASE Run
  <2>1. args' = args  BY <1>2, OthersReportNothing
  <2>2. CASE results' = results /\ status' # "jumped"
    <3>1. Len(results) < args.max_results
      BY <1>2, <2>2 DEF ResultsRight, Run, init_partial_map_and_find, PartialEntry,
         PartialNarrow, PartialNarrowed, PartialInstall, PartialDone, InPartial,
         find_graph_homos, find_graph_monos, find_graph_embeddings, find_digraph_homos,
         find_digraph_monos, find_digraph_embeddings, Searching
    <3> QED  BY <2>1, <2>2, <3>1 DEF ResultsRight
  <2>3. CASE \E m \in BOOLEAN : Report(m) /\ status = "search"  BY <2>3, ReportedRight
  <2> QED  BY <1>2, <2>2, <2>3, OthersReportNothing
<1>3. CASE UNCHANGED vars
  BY <1>3 DEF ResultsRight, vars
<1> QED  BY <1>1, <1>2, <1>3 DEF Next

LEMMA InitResultsRight == Init => ResultsRight
<1> SUFFICES ASSUME Init PROVE ResultsRight  OBVIOUS
<1>1. args \in Arguments  BY MaxResultsAssumption DEF Init
<1>2. args.max_results \in Nat \ {0}  BY <1>1, MaxResultsAssumption
<1> QED  BY <1>1, <1>2 DEF Init, ResultsRight

(* max_results is a bound, and the search is left by longjmp, at once, when  *)
(* it is reached: in every call, whatever the hook answered before.          *)
THEOREM StopsAtOnce == Spec => []StopsWhenTold
<1>1. SearchInv => HInv  BY DEF SearchInv
<1>2. ResultsRight => StopsWhenTold
  <2> SUFFICES ASSUME ResultsRight PROVE StopsWhenTold  OBVIOUS
  <2>1. Len(results) \in Nat /\ args.max_results \in Nat
    BY MaxResultsAssumption, LenProperties DEF ResultsRight
  <2> QED  BY <2>1 DEF ResultsRight, StopsWhenTold
<1>3. HInv /\ ResultsRight /\ [Next]_vars => ResultsRight'  BY NextResultsRight
<1> QED  BY <1>1, <1>2, <1>3, InitResultsRight, SearchesInductive, PTL DEF Spec

------------------------------------------------------------------------------
(* The levels of the stabilisers.                                            *)

(* The permutations of a group that fix every one of these values.           *)
Fixing(group, vals) == { p \in group : \A w \in vals : p[w] = w }

(* Level r is that of the values vals.                                       *)
LevelOf(a, gens, reps, r, trivial, vals) ==
  LET stab == Fixing(Group(a), vals)
  IN  /\ gens[r] = stab
      /\ trivial <=> stab = {Identity(a.digraph2.n)}
      /\ SetBits(reps[r], a.digraph2.n) \ vals = OrbitReps(stab, a.image, vals)

LevelRight(k) ==
  LevelOf(args, STAB_GENS, REPS, stack[k].rep_depth, stack[k].has_trivial_stab, ValuesAt(k))

(* Every call on the stack still finds the level of its values, as a call     *)
(* writes above the levels of those below it only.                            *)
StabsRight ==
  Active =>
    /\ IMAGE_RESTRICT = args.image
    /\ \A k \in 1 .. Height : FrameDepth(k) < n1 => LevelRight(k)
    /\ \A j, k \in 1 .. Height : j <= k => stack[j].rep_depth <= stack[k].rep_depth

LEMMA FixingMore ==
  ASSUME NEW group, NEW vals, NEW w
  PROVE  Stabiliser(Fixing(group, vals), w) = Fixing(group, vals \cup {w})
BY DEF Stabiliser, Fixing

(* When a level is written its representatives are those of the group, also  *)
(* when the group is trivial and they are not computed.                      *)
Written(old, n, image, vals, stab) ==
  IF stab = {Identity(n)}
  THEN complement_bit_arrays(copy_bit_array(old, image, n), vals, n)
  ELSE init_bit_array(old, FALSE, n) \cup OrbitReps(stab, image, vals)

LEMMA RepsMeant ==
  ASSUME NEW n \in 0 .. Size, NEW image \in SUBSET (0 .. n - 1), NEW old, NEW vals, NEW stab
  PROVE  SetBits(Written(old, n, image, vals, stab), n) \ SetBits(vals, n)
           = OrbitReps(stab, image, SetBits(vals, n))
<1> DEFINE X == SetBits(vals, n)
           reps == Written(old, n, image, vals, stab)
<1>1. Meant(n) = 0 .. n - 1 /\ Meant(n) \subseteq Covered(n)
  <2>1. n \in Nat  BY SizeFacts
  <2> QED  BY <2>1, MeantInCovered DEF Meant
<1>2. image \ vals = image \ X  BY <1>1 DEF SetBits
<1>3. OrbitReps(stab, image, vals) = OrbitReps(stab, image, X)
  BY <1>2 DEF OrbitReps
<1>4. OrbitReps(stab, image, X) \subseteq image \ X  BY DEF OrbitReps
<1>5. CASE stab = {Identity(n)}
  <2>1. reps = complement_bit_arrays(copy_bit_array(old, image, n), vals, n)
    BY <1>5 DEF Written
  <2>2. SetBits(reps, n) = image \ X
    BY <1>1, <1>2, <2>1 DEF SetBits, complement_bit_arrays, copy_bit_array
  <2>3. OrbitReps(stab, image, X) = image \ X
    <3>1. \A w \in image : Identity(n)[w] = w /\ w <= w
      <4>1. n \in Nat  BY SizeFacts
      <4> QED  BY <4>1 DEF Identity
    <3> QED  BY <1>5, <3>1 DEF OrbitReps
  <2> QED  BY <2>2, <2>3
<1>6. CASE stab # {Identity(n)}
  <2>1. reps = init_bit_array(old, FALSE, n) \cup OrbitReps(stab, image, X)
    BY <1>3, <1>6 DEF Written
  <2>2. SetBits(reps, n) = OrbitReps(stab, image, X)
    BY <1>1, <1>4, <2>1 DEF SetBits, init_bit_array
  <2> QED  BY <1>4, <2>2
<1> QED  BY <1>5, <1>6

(* The frame that works with the stabiliser of one more value.               *)
LEMMA StabilisedRight ==
  ASSUME HInv, Active, StabsRight, depth < n1, NEW w \in V2, NEW H,
         H.has_trivial_stab \in BOOLEAN, Stabilised(H, w),
         NEW X, X = ValuesAt(Height) \cup {w}
  PROVE  /\ H.rep_depth >= F.rep_depth
         /\ \A r \in 0 .. F.rep_depth : STAB_GENS'[r] = STAB_GENS[r] /\ REPS'[r] = REPS[r]
         /\ depth + 1 < n1 =>
              LevelOf(args, STAB_GENS', REPS', H.rep_depth, H.has_trivial_stab, X)
<1> DEFINE r == F.rep_depth
           G == Group(args)
           S == Fixing(G, X)
<1>1. /\ n1 \in Nat /\ n2 \in 0 .. Size /\ depth \in Nat /\ Height \in 1 .. Height
      /\ F = stack[Height] /\ F \in FrameType /\ FrameDepth(Height) = depth
      /\ V2 = 0 .. n2 - 1 /\ V2 \subseteq Nat
  <2>1. n2 \in 1 .. Size - 1 /\ Size \in Nat  BY ActiveFacts
  <2>2. n2 \in 0 .. Size  BY <2>1
  <2> QED  BY <2>2, ActiveFacts DEF V2
<1>2. r \in Nat /\ F.has_trivial_stab \in BOOLEAN  BY <1>1 DEF FrameType
<1>3. LevelOf(args, STAB_GENS, REPS, r, F.has_trivial_stab, ValuesAt(Height))
  BY <1>1 DEF StabsRight, LevelRight
<1>4. /\ STAB_GENS[r] = Fixing(G, ValuesAt(Height))
      /\ F.has_trivial_stab <=> Fixing(G, ValuesAt(Height)) = {Identity(n2)}
      /\ SetBits(REPS[r], n2) \ ValuesAt(Height)
           = OrbitReps(Fixing(G, ValuesAt(Height)), args.image, ValuesAt(Height))
  BY <1>3 DEF LevelOf, n2
<1>5. /\ REPS \in [0 .. Size - 1 -> SUBSET Bits] /\ DOMAIN STAB_GENS = 0 .. Size - 1
      /\ IMAGE_RESTRICT = args.image /\ args.image \in SUBSET (0 .. n2 - 1)
      /\ ValuesAt(Height) = SetBits(VALS, n2) /\ r <= depth
  <2>1. args.image \in SUBSET (0 .. n2 - 1)
    BY ArgumentsAssumption DEF HInv, ActiveRight, ArgsRight, Vertices, n2
  <2>2. r <= depth  BY <1>1 DEF HInv, ActiveRight, CallsRight, CallRight
  <2> QED  BY <2>1, <2>2 DEF HInv, Fields, ActiveRight, MapRight, StabsRight
<1>6. Stabiliser(Fixing(G, ValuesAt(Height)), w) = S  BY FixingMore
<1>7. CASE F.has_trivial_stab
  <2>1. /\ H.rep_depth = r /\ H.has_trivial_stab
        /\ STAB_GENS' = STAB_GENS /\ REPS' = REPS
    BY <1>7 DEF Stabilised
  <2>2. Fixing(G, ValuesAt(Height)) = {Identity(n2)}  BY <1>4, <1>7
  <2>3. S = {Identity(n2)}
    <3>1. Identity(n2)[w] = w  BY <1>1 DEF Identity
    <3> QED  BY <1>6, <2>2, <3>1 DEF Stabiliser
  <2>4. \A Y : OrbitReps({Identity(n2)}, args.image, Y) = args.image \ Y
    <3>1. \A x \in args.image : Identity(n2)[x] = x /\ x <= x
      BY <1>1, <1>5 DEF Identity
    <3> QED  BY <3>1 DEF OrbitReps
  <2>5. SetBits(REPS[r], n2) \ X = OrbitReps(S, args.image, X)
    <3>1. SetBits(REPS[r], n2) \ ValuesAt(Height) = args.image \ ValuesAt(Height)
      BY <1>4, <2>2, <2>4
    <3>2. SetBits(REPS[r], n2) \ X = args.image \ X  BY <3>1
    <3> QED  BY <2>3, <2>4, <3>2
  <2>6. LevelOf(args, STAB_GENS, REPS, r, TRUE, X)
    <3>1. STAB_GENS[r] = S /\ S = {Identity(args.digraph2.n)}  BY <1>4, <2>2, <2>3 DEF n2
    <3>2. SetBits(REPS[r], args.digraph2.n) \ X = OrbitReps(S, args.image, X)
      BY <2>5 DEF n2
    <3> QED  BY <3>1, <3>2, Zenon DEF LevelOf
  <2>7. H.has_trivial_stab = TRUE  BY <2>1
  <2>8. LevelOf(args, STAB_GENS', REPS', H.rep_depth, H.has_trivial_stab, X)
    BY <2>1, <2>6, <2>7, Zenon
  <2>9. H.rep_depth >= F.rep_depth  BY <1>2, <2>1
  <2> QED  BY <2>1, <2>8, <2>9, Zenon
<1>8. CASE ~ F.has_trivial_stab
  <2> DEFINE stabs == compute_stabs_and_orbit_reps(r + 1, depth, w, VALS \cup {w})
             stab  == Stabiliser(STAB_GENS[(r + 1) - 1], w)
             reps  == Written(REPS[r + 1], n2, IMAGE_RESTRICT, VALS \cup {w}, stab)
  <2>1. /\ H.rep_depth = r + 1 /\ H.has_trivial_stab = stabs.trivial
        /\ STAB_GENS' = stabs.STAB_GENS /\ REPS' = stabs.REPS
    BY <1>8 DEF Stabilised
  <2>2. stab = S
    <3>1. (r + 1) - 1 = r  BY <1>2
    <3> QED  BY <1>4, <1>6, <3>1
  <2>3. stabs = IF depth = n1 - 1
                THEN [STAB_GENS |-> STAB_GENS, REPS |-> REPS, trivial |-> FALSE]
                ELSE [STAB_GENS |-> [STAB_GENS EXCEPT ![r + 1] = stab],
                      REPS      |-> [REPS EXCEPT ![r + 1] = reps],
                      trivial   |-> stab = {Identity(n2)}]
    BY DEF compute_stabs_and_orbit_reps, Written
  <2>4. SetBits(reps, n2) \ X = OrbitReps(S, args.image, X)
    <3>1. X = SetBits(VALS \cup {w}, n2)  BY <1>1, <1>5 DEF SetBits, Meant
    <3>2. reps = Written(REPS[r + 1], n2, args.image, VALS \cup {w}, S)
      BY <1>5, <2>2
    <3>3. n2 \in 0 .. Size /\ args.image \in SUBSET (0 .. n2 - 1)  BY <1>1, <1>5
    <3> DEFINE old == REPS[r + 1]
               vals == VALS \cup {w}
    <3> HIDE DEF reps, S, old, vals
    <3>4. SetBits(Written(old, n2, args.image, vals, S), n2) \ SetBits(vals, n2)
            = OrbitReps(S, args.image, SetBits(vals, n2))
      BY <3>3, RepsMeant
    <3> QED  BY <3>1, <3>2, <3>4 DEF old, vals
  <2> HIDE DEF stabs, stab, reps, S
  <2>5. r + 1 >= r /\ \A q \in 0 .. r : q # r + 1 /\ q \in 0 .. Size - 1
    <3>1. depth <= Size - 1 /\ depth \in Nat /\ Size \in Nat
      BY ActiveFacts DEF HInv, Fields
    <3> QED  BY <1>2, <1>5, <3>1
  <2>6. CASE depth = n1 - 1
    <3>1. STAB_GENS' = STAB_GENS /\ REPS' = REPS  BY <2>1, <2>3, <2>6
    <3>2. ~ (depth + 1 < n1)  BY <1>1, <2>6
    <3> QED  BY <2>1, <2>5, <3>1, <3>2
  <2>7. CASE depth # n1 - 1
    <3>1. /\ STAB_GENS' = [STAB_GENS EXCEPT ![r + 1] = S]
          /\ REPS' = [REPS EXCEPT ![r + 1] = reps]
      BY <2>1, <2>2, <2>3, <2>7
    <3>2. stabs.trivial = (stab = {Identity(n2)})  BY <2>3, <2>7
    <3>3. r + 1 \in 0 .. Size - 1
      <4>1. n1 <= Size - 1 /\ Size \in Nat  BY ActiveFacts
      <4> QED  BY <1>1, <1>2, <1>5, <2>7, <4>1
    <3>4. STAB_GENS'[r + 1] = S /\ REPS'[r + 1] = reps  BY <1>5, <3>1, <3>3
    <3>5. H.has_trivial_stab <=> S = {Identity(n2)}  BY <2>1, <2>2, <3>2
    <3>6. LevelOf(args, STAB_GENS', REPS', H.rep_depth, H.has_trivial_stab, X)
      BY <2>1, <2>4, <3>4, <3>5 DEF LevelOf, n2, S
    <3>7. \A q \in 0 .. r : STAB_GENS'[q] = STAB_GENS[q] /\ REPS'[q] = REPS[q]
      BY <1>5, <2>5, <3>1
    <3> QED  BY <2>1, <2>5, <3>6, <3>7
  <2> QED  BY <2>6, <2>7
<1> QED  BY <1>7, <1>8

(* The level of a call is read from its own place in the arrays only.        *)
LEMMA LevelKept ==
  ASSUME NEW a, NEW gens, NEW reps, NEW gens2, NEW reps2, NEW r, NEW t, NEW vals,
         gens2[r] = gens[r], reps2[r] = reps[r], LevelOf(a, gens, reps, r, t, vals)
  PROVE  LevelOf(a, gens2, reps2, r, t, vals)
BY Zenon DEF LevelOf

(* What a step that replaces the frame of the running call, and assigns      *)
(* nothing, leaves as it is.                                                 *)
LEMMA StayEffect ==
  ASSUME HInv, Active, NEW G, stack' = Append(Front(stack), G),
         UNCHANGED << depth, MAP, args >>
  PROVE  /\ Height' = Height /\ F' = G /\ stack'[Height] = G
         /\ \A k \in 1 .. Height - 1 : stack'[k] = stack[k]
         /\ Assigned' = Assigned /\ n1' = n1 /\ n2' = n2 /\ V1' = V1 /\ V2' = V2
         /\ InPlace' = InPlace
         /\ \A k \in 1 .. Height : /\ AssignedAt(k)' = AssignedAt(k)
                                   /\ ValuesAt(k)' = ValuesAt(k)
                                   /\ FrameDepth(k)' = FrameDepth(k)
<1> DEFINE T == FrameType \cup {G}
<1>0. stack \in Seq(T) /\ Len(stack) >= 1 /\ G \in T
  BY DEF HInv, ActiveRight, FramesRight, Height
<1> HIDE DEF T
<1>1. LET t == Append(Front(stack), G)
      IN  /\ t \in Seq(T) /\ Len(t) = Len(stack)
          /\ \A k \in 1 .. Len(stack) - 1 : t[k] = stack[k]
          /\ t[Len(stack)] = G
          /\ Last(t) = G
  BY <1>0, StackStay
<1>2. /\ Height' = Height /\ F' = G /\ stack'[Height] = G
      /\ \A k \in 1 .. Height - 1 : stack'[k] = stack[k]
  BY <1>1 DEF Height, F
<1>3. /\ Assigned' = Assigned /\ n1' = n1 /\ n2' = n2 /\ V1' = V1 /\ V2' = V2
      /\ InPlace' = InPlace
  BY DEF Assigned, n1, n2, V1, V2, InPlace, Undirected
<1>4. ASSUME NEW k \in 1 .. Height
      PROVE  /\ AssignedAt(k)' = AssignedAt(k)
             /\ ValuesAt(k)' = ValuesAt(k)
             /\ FrameDepth(k)' = FrameDepth(k)
  <2>1. \A j \in k .. Height - 1 : stack'[j] = stack[j]
    <3>1. \A j \in k .. Height - 1 : j \in 1 .. Height - 1  BY ActiveFacts
    <3> QED  BY <1>2, <3>1
  <2>2. Tried(k)' = Tried(k)  BY <1>2, <2>1 DEF Tried
  <2> QED  BY <1>2, <1>3, <2>2 DEF AssignedAt, ValuesAt, FrameDepth
<1> QED  BY <1>2, <1>3, <1>4

(* A step of that kind that writes no level.                                 *)
Stays(G) ==
  /\ stack' = Append(Front(stack), G)
  /\ G.rep_depth = F.rep_depth /\ G.has_trivial_stab = F.has_trivial_stab
  /\ UNCHANGED << depth, MAP, IMAGE_RESTRICT, STAB_GENS, REPS, args >>

LEMMA StayStabs ==
  ASSUME HInv, Active, StabsRight, NEW G, Stays(G)
  PROVE  StabsRight'
<1>1. /\ Height \in Nat \ {0} /\ F = stack[Height]  BY ActiveFacts
<1>2. /\ Height' = Height /\ stack'[Height] = G /\ n1' = n1
      /\ \A k \in 1 .. Height - 1 : stack'[k] = stack[k]
      /\ \A k \in 1 .. Height : /\ ValuesAt(k)' = ValuesAt(k)
                                /\ FrameDepth(k)' = FrameDepth(k)
  BY StayEffect DEF Stays
<1>3. \A k \in 1 .. Height : /\ stack'[k].rep_depth = stack[k].rep_depth
                             /\ stack'[k].has_trivial_stab = stack[k].has_trivial_stab
  <2>1. \A k \in 1 .. Height : k = Height \/ k \in 1 .. Height - 1  BY <1>1
  <2> QED  BY <1>1, <1>2, <2>1 DEF Stays
<1>4. ASSUME NEW k \in 1 .. Height, FrameDepth(k)' < n1'  PROVE LevelRight(k)'
  <2>1. LevelRight(k)  BY <1>2, <1>4 DEF StabsRight
  <2> QED  BY <1>2, <1>3, <2>1 DEF LevelRight, Stays
<1>5. \A j, k \in 1 .. Height : j <= k => stack'[j].rep_depth <= stack'[k].rep_depth
  BY <1>3 DEF StabsRight
<1>6. IMAGE_RESTRICT' = args'.image  BY DEF StabsRight, Stays
<1> QED  BY <1>2, <1>4, <1>5, <1>6 DEF StabsRight

(* A call: its level is right when the one of its values has been written.   *)
LEMMA CallStabs ==
  ASSUME HInv, StabsRight, status = "search", depth < n1, F.stage \in { "new", "old" },
         NEW G, NEW H, NEW w \in V2, CallStep(G, H, F.next, w),
         G.has_trivial_stab = F.has_trivial_stab,
         H.rep_depth >= F.rep_depth,
         \A r \in 0 .. F.rep_depth : STAB_GENS'[r] = STAB_GENS[r] /\ REPS'[r] = REPS[r],
         depth + 1 < n1 =>
           LevelOf(args, STAB_GENS', REPS', H.rep_depth, H.has_trivial_stab,
                   ValuesAt(Height) \cup {w})
  PROVE  StabsRight'
<1>0. Active  BY DEF Active
<1>1. /\ Height \in Nat \ {0} /\ F = stack[Height] /\ n1 \in Nat
      /\ \A k \in 1 .. Height : stack[k] \in FrameType
      /\ H.rep_depth \in Nat
  BY <1>0, ActiveFacts DEF CallStep, FrameType
<1>2. /\ Height' = Height + 1 /\ stack'[Height + 1] = H /\ stack'[Height] = G
      /\ \A k \in 1 .. Height - 1 : stack'[k] = stack[k]
      /\ \A k \in 1 .. Height : /\ ValuesAt(k)' = ValuesAt(k)
                                /\ FrameDepth(k)' = FrameDepth(k)
      /\ FrameDepth(Height)' = depth + 1
      /\ ValuesAt(Height)' = SetBits(VALS', n2)
  BY CallFrames
<1>3. /\ IMAGE_RESTRICT' = IMAGE_RESTRICT /\ args' = args /\ n1' = n1
      /\ G.rep_depth = F.rep_depth
      /\ MAP' = [MAP EXCEPT ![F.next] = w]
      /\ VALS' = set_bit_array(VALS, w, TRUE)
      /\ MAP_UNDEFINED' = [MAP_UNDEFINED EXCEPT ![depth] = set_bit_array(@, F.next, FALSE)]
  BY DEF CallStep, n1
<1>4. SetBits(VALS', n2) = ValuesAt(Height) \cup {w}
  <2>1. /\ F.next \in Left /\ SetBits(MAP_UNDEFINED[depth], n1) = Left
    BY <1>0 DEF HInv, ActiveRight, TopRight, TriesOf, MapRight, Left
  <2> QED  BY <1>0, <1>3, <2>1, AssignEffect
<1>5. \A k \in 1 .. Height : /\ stack'[k].rep_depth = stack[k].rep_depth
                             /\ stack'[k].has_trivial_stab = stack[k].has_trivial_stab
                             /\ stack[k].rep_depth \in 0 .. F.rep_depth
  <2>1. \A k \in 1 .. Height : k = Height \/ k \in 1 .. Height - 1  BY <1>1
  <2>2. \A k \in 1 .. Height : stack[k].rep_depth \in Nat  BY <1>1 DEF FrameType
  <2>3. \A k \in 1 .. Height : stack[k].rep_depth <= F.rep_depth
    BY <1>0, <1>1 DEF StabsRight
  <2>4. F.rep_depth \in Nat  BY <1>1, <2>2
  <2> QED  BY <1>1, <1>2, <1>3, <2>1, <2>2, <2>3, <2>4
<1>6. \A k \in 1 .. Height + 1 : k \in 1 .. Height \/ k = Height + 1  BY <1>1
<1>7. ASSUME NEW k \in 1 .. Height, FrameDepth(k)' < n1'  PROVE LevelRight(k)'
  <2>1. LevelRight(k)  BY <1>0, <1>2, <1>3, <1>7 DEF StabsRight
  <2>2. LevelOf(args, STAB_GENS', REPS', stack[k].rep_depth, stack[k].has_trivial_stab,
                ValuesAt(k))
    BY <1>5, <2>1, LevelKept DEF LevelRight
  <2> QED  BY <1>2, <1>3, <1>5, <2>2 DEF LevelRight
<1>8. FrameDepth(Height)' < n1' => LevelRight(Height)'
  <2>1. stack'[Height'] = H  BY <1>2
  <2> QED  BY <1>2, <1>3, <1>4, <2>1 DEF LevelRight
<1>9. \A j, k \in 1 .. Height + 1 : j <= k => stack'[j].rep_depth <= stack'[k].rep_depth
  <2>1. \A j, k \in 1 .. Height : j <= k => stack'[j].rep_depth <= stack'[k].rep_depth
    BY <1>0, <1>5 DEF StabsRight
  <2>2. \A j \in 1 .. Height : stack'[j].rep_depth <= H.rep_depth
    <3>1. F.rep_depth \in Nat  BY <1>1 DEF FrameType
    <3>2. \A j \in 1 .. Height : stack'[j].rep_depth \in 0 .. F.rep_depth  BY <1>5
    <3> QED  BY <1>1, <3>1, <3>2
  <2>3. H.rep_depth <= H.rep_depth /\ \A j \in 1 .. Height : ~ (Height + 1 <= j)  BY <1>1
  <2> QED  BY <1>2, <1>6, <2>1, <2>2, <2>3
<1>10. IMAGE_RESTRICT' = args'.image  BY <1>0, <1>3 DEF StabsRight
<1>11. \A k \in 1 .. Height' : FrameDepth(k)' < n1' => LevelRight(k)'
  <2>1. \A k \in 1 .. Height' : k \in 1 .. Height \/ k = Height'  BY <1>2, <1>6
  <2> QED  BY <1>7, <1>8, <2>1
<1> QED  BY <1>2, <1>9, <1>10, <1>11 DEF StabsRight

(* A frame that moves on keeps its level.                                    *)
SameLevel(G, f) == G.rep_depth = f.rep_depth /\ G.has_trivial_stab = f.has_trivial_stab

LEMMA FrameKeeps ==
  ASSUME NEW f \in FrameType, NEW x, NEW y, NEW s
  PROVE  /\ SameLevel([f EXCEPT !.at = y, !.stage = s], f)
         /\ SameLevel([f EXCEPT !.next = x, !.at = y, !.stage = s], f)
         /\ SameLevel([f EXCEPT !.stage = s], f)
BY DEF FrameType, SameLevel

LEMMA NewStabs ==
  ASSUME HInv, StabsRight, NEW possible, possible = ToChoose(Height), TryNew(possible)
  PROVE  StabsRight'
<1>1. PICK w, G, H :
        /\ w \in V2 /\ CallStep(G, H, F.next, w)
        /\ G.has_trivial_stab = F.has_trivial_stab /\ Stabilised(H, w)
  BY NewIsCalled
<1>2. status = "search" /\ F.stage = "new" /\ Active  BY DEF TryNew, InSearch, Active
<1>3. depth < n1  BY <1>2 DEF HInv, ActiveRight, FramesRight
<1>4. H.has_trivial_stab \in BOOLEAN  BY <1>1 DEF CallStep, FrameType
<1> DEFINE X == ValuesAt(Height) \cup {w}
<1>5. X = ValuesAt(Height) \cup {w}  OBVIOUS
<1> HIDE DEF X
<1>6. /\ H.rep_depth >= F.rep_depth
      /\ \A r \in 0 .. F.rep_depth : STAB_GENS'[r] = STAB_GENS[r] /\ REPS'[r] = REPS[r]
      /\ depth + 1 < n1 =>
           LevelOf(args, STAB_GENS', REPS', H.rep_depth, H.has_trivial_stab, X)
  BY <1>1, <1>2, <1>3, <1>4, <1>5, StabilisedRight
<1>7. depth + 1 < n1 =>
        LevelOf(args, STAB_GENS', REPS', H.rep_depth, H.has_trivial_stab,
                ValuesAt(Height) \cup {w})
  BY <1>5, <1>6
<1> QED  BY <1>1, <1>2, <1>3, <1>6, <1>7, CallStabs

(* A value that is one already has the stabiliser that there is.             *)
LEMMA OldStabs ==
  ASSUME HInv, StabsRight, TryOld, ~ InPlace
  PROVE  StabsRight'
<1>1. PICK w, G, H :
        /\ w \in V2 /\ w \in SetBits(ToChoose(Height), n2) /\ CallStep(G, H, F.next, w)
        /\ G.has_trivial_stab = F.has_trivial_stab
        /\ H.rep_depth = F.rep_depth /\ H.has_trivial_stab = F.has_trivial_stab
        /\ UNCHANGED << STAB_GENS, REPS >>
  BY OldIsCalled
<1>2. status = "search" /\ F.stage = "old" /\ Active  BY DEF TryOld, InSearch, Active
<1>3. depth < n1  BY <1>2 DEF HInv, ActiveRight, FramesRight
<1>4. w \in ValuesAt(Height)
  <2>1. TriesOf(F, ToChoose(Height))  BY <1>2 DEF HInv, ActiveRight, TopRight
  <2> QED  BY <1>1, <1>2, <2>1 DEF TriesOf
<1>5. ValuesAt(Height) \cup {w} = ValuesAt(Height)  BY <1>4
<1>6. /\ Height \in 1 .. Height /\ F = stack[Height] /\ FrameDepth(Height) = depth
      /\ F.rep_depth \in Nat
  BY <1>2, ActiveFacts DEF FrameType
<1>7. LevelOf(args, STAB_GENS, REPS, F.rep_depth, F.has_trivial_stab, ValuesAt(Height))
  BY <1>2, <1>3, <1>6 DEF StabsRight, LevelRight
<1>8. LevelOf(args, STAB_GENS', REPS', H.rep_depth, H.has_trivial_stab,
              ValuesAt(Height) \cup {w})
  <2>1. STAB_GENS' = STAB_GENS /\ REPS' = REPS  BY <1>1
  <2> QED  BY <1>1, <1>5, <1>7, <2>1, Zenon
<1>9. H.rep_depth >= F.rep_depth  BY <1>1, <1>6
<1>10. \A r \in 0 .. F.rep_depth : STAB_GENS'[r] = STAB_GENS[r] /\ REPS'[r] = REPS[r]
  BY <1>1
<1> QED  BY <1>1, <1>2, <1>3, <1>8, <1>9, <1>10, CallStabs

(* A return: the caller finds its level as it left it.                       *)
LEMMA LeaveStabs ==
  ASSUME CP!IInv, HInv, StabsRight, status = "search", Leave
  PROVE  StabsRight'
<1>0. Active  BY DEF Active
<1>1. CASE Height = 1
  <2>1. ~ Active'  BY <1>1 DEF Leave, Height, Active
  <2> QED  BY <2>1 DEF StabsRight
<1>2. CASE Height # 1
  <2>1. PICK h : h = Height - 1  OBVIOUS
  <2>2. PICK v : v = stack[h].next  OBVIOUS
  <2>3. h \in 1 .. Height - 1 /\ n1' = n1  BY <1>2, <2>1, <2>2, LeaveEffect
  <2>4. /\ Height' = h
        /\ \A k \in 1 .. h : stack'[k] = stack[k]
        /\ \A k \in 1 .. h : ValuesAt(k)' = ValuesAt(k) /\ FrameDepth(k)' = FrameDepth(k)
    BY <1>2, <2>1, <2>2, LeaveFrames
  <2>5. UNCHANGED << IMAGE_RESTRICT, STAB_GENS, REPS, args >>  BY DEF Leave
  <2>6. \A k \in 1 .. h : k \in 1 .. Height  BY <1>0, <2>3, ActiveFacts
  <2>7. ASSUME NEW k \in 1 .. h, FrameDepth(k)' < n1'  PROVE LevelRight(k)'
    <3>1. LevelRight(k)  BY <1>0, <2>3, <2>4, <2>6, <2>7 DEF StabsRight
    <3> QED  BY <2>4, <2>5, <3>1 DEF LevelRight
  <2>8. \A j, k \in 1 .. h : j <= k => stack'[j].rep_depth <= stack'[k].rep_depth
    BY <1>0, <2>4, <2>6 DEF StabsRight
  <2>9. IMAGE_RESTRICT' = args'.image  BY <1>0, <2>5 DEF StabsRight
  <2> QED  BY <2>4, <2>7, <2>8, <2>9 DEF StabsRight
<1> QED  BY <1>1, <1>2

(* The steps of the search.                                                  *)
LEMMA SearchStabs ==
  ASSUME CP!IInv, HInv, StabsRight, status = "search", SearchStep
  PROVE  StabsRight'
<1>0. Active /\ F \in FrameType
  <2>1. Active  BY DEF Active
  <2> QED  BY <2>1, ActiveFacts
<1>1. CASE \E m \in BOOLEAN : Report(m)
  <2>1. PICK m \in BOOLEAN : Report(m)  BY <1>1
  <2>2. CASE Leave  BY <2>2, LeaveStabs
  <2>3. CASE ~ Leave
    <3>1. status' = "jumped"  BY <2>1, <2>3 DEF Report
    <3> QED  BY <3>1 DEF StabsRight, Active
  <2> QED  BY <2>2, <2>3
<1>2. CASE Leave  BY <1>2, LeaveStabs
<1>3. CASE Enter
  <2>1. \E s \in Stages : Running([F EXCEPT !.stage = s])
    BY <1>3 DEF Enter, Stages
  <2>2. PICK G : /\ stack' = Append(Front(stack), G)
                 /\ G.rep_depth = F.rep_depth /\ G.has_trivial_stab = F.has_trivial_stab
    BY <1>0, <2>1 DEF Running, FrameType
  <2>3. Stays(G)  BY <1>3, <2>2 DEF Enter, Stays
  <2> QED  BY <1>0, <2>3, StayStabs
<1>4. CASE \E v : NarrowTo(PartialUpdate(v), v)
  <2>1. PICK v, p : NarrowTo(p, v)  BY <1>4
  <2> DEFINE n == size_conditions(p, v)
             g == STORE_MIN(F, n, v)
             G == IF n = 0 THEN [F EXCEPT !.stage = "leave"] ELSE [g EXCEPT !.at = v]
  <2>2. stack' = Append(Front(stack), G)  BY <2>1 DEF NarrowTo, Running
  <2> HIDE DEF n
  <2>3. /\ g.rep_depth = F.rep_depth /\ g.has_trivial_stab = F.has_trivial_stab
        /\ [g EXCEPT !.at = v].rep_depth = g.rep_depth
        /\ [g EXCEPT !.at = v].has_trivial_stab = g.has_trivial_stab
    BY <1>0 DEF STORE_MIN, FrameType
  <2>4. /\ [F EXCEPT !.stage = "leave"].rep_depth = F.rep_depth
        /\ [F EXCEPT !.stage = "leave"].has_trivial_stab = F.has_trivial_stab
    BY <1>0 DEF FrameType
  <2> HIDE DEF g
  <2>5. G.rep_depth = F.rep_depth /\ G.has_trivial_stab = F.has_trivial_stab
    BY <2>3, <2>4
  <2> HIDE DEF G
  <2>6. Stays(G)  BY <2>1, <2>2, <2>5 DEF NarrowTo, Stays, globals
  <2> QED  BY <1>0, <2>6, StayStabs
<1>5. CASE NarrowOthers \/ Narrowed \/ TurnToOld
  <2>1. PICK t \in Stages : Running([F EXCEPT !.at = -1, !.stage = t])
    BY <1>5 DEF NarrowOthers, Narrowed, TurnToOld, Stages
  <2> DEFINE G == [F EXCEPT !.at = -1, !.stage = t]
  <2>4. stack' = Append(Front(stack), G)  BY <2>1 DEF Running
  <2>5. SameLevel(G, F)  BY <1>0, FrameKeeps
  <2> HIDE DEF G
  <2>2. /\ stack' = Append(Front(stack), G)
        /\ G.rep_depth = F.rep_depth /\ G.has_trivial_stab = F.has_trivial_stab
    BY <2>4, <2>5 DEF SameLevel
  <2>3. Stays(G)
    BY <1>5, <2>2 DEF NarrowOthers, Narrowed, TurnToOld, Stays, globals
  <2> QED  BY <1>0, <2>3, StayStabs
<1>6. CASE Pick("new", NewValues) \/ Pick("old", OldValues) \/ PickInPlace
  <2>1. /\ F.stage = "pick"
        /\ \E s \in Stages : Running([Chosen EXCEPT !.stage = s])
        /\ UNCHANGED << depth, MAP, IMAGE_RESTRICT, STAB_GENS, REPS, args >>
    <3>1. CASE Pick("new", NewValues)  BY <3>1 DEF Pick, InSearch, Stages
    <3>2. CASE Pick("old", OldValues)  BY <3>2 DEF Pick, InSearch, Stages
    <3>3. CASE PickInPlace  BY <3>3 DEF PickInPlace, InSearch, Stages, globals
    <3> QED  BY <1>6, <3>1, <3>2, <3>3
  <2>2. /\ Chosen \in FrameType /\ Chosen.rep_depth = F.rep_depth
        /\ Chosen.has_trivial_stab = F.has_trivial_stab
    BY <2>1, ChosenRight
  <2>3. PICK G : /\ stack' = Append(Front(stack), G)
                 /\ G.rep_depth = F.rep_depth /\ G.has_trivial_stab = F.has_trivial_stab
    BY <2>1, <2>2 DEF Running, FrameType
  <2>4. Stays(G)  BY <2>1, <2>3 DEF Stays
  <2> QED  BY <1>0, <2>4, StayStabs
<1>7. CASE \E possible : possible = ToChoose(Height) /\ TryNew(possible)
  BY <1>7, NewStabs
<1>8. CASE ~ InPlace /\ TryOld  BY <1>8, OldStabs
<1> QED  BY <1>1, <1>2, <1>3, <1>4, <1>5, <1>6, <1>7, <1>8 DEF SearchStep

(* The steps that install the partial map.                                   *)
LEMMA InstallStabs ==
  ASSUME HInv, StabsRight, PartialInstall
  PROVE  StabsRight'
<1> DEFINE w    == args.partial_map[F.next]
           rank == IF w \in VALS THEN F.rank ELSE F.rank + 1
<1>0. status = "partial" /\ F.stage = "install" /\ Active
  BY DEF PartialInstall, InPartial, Active
<1>1. CASE rank > F.rank /\ rank > args.hint
  <2>1. status' = "ended"  BY <1>1 DEF PartialInstall
  <2> QED  BY <2>1 DEF StabsRight, Active
<1>2. CASE ~ (rank > F.rank /\ rank > args.hint)
  <2>1. w = args.partial_map[F.next] /\ rank = IF w \in VALS THEN F.rank ELSE F.rank + 1
    OBVIOUS
  <2> HIDE DEF w, rank
  <2>2. PICK G, v : Installs(G, v, w) /\ Stabilised(G, w)
    BY <1>2, <2>1, EntryIsInstalled
  <2>3. v \in Left /\ w \in V2  BY <1>0, <2>2, EntryInstalled DEF Installs, Entry
  <2>4. /\ G \in FrameType /\ stack' = Append(Front(stack), G) /\ depth' = depth + 1
        /\ MAP' = [MAP EXCEPT ![v] = w]
        /\ VALS' = set_bit_array(VALS, w, TRUE)
        /\ MAP_UNDEFINED' = [MAP_UNDEFINED EXCEPT ![depth] = set_bit_array(@, v, FALSE)]
        /\ args' = args /\ IMAGE_RESTRICT' = IMAGE_RESTRICT
    BY <2>2 DEF Installs, InstalledAt
  <2>5. /\ depth < n1 /\ SetBits(MAP_UNDEFINED[depth], n1) = Left
    BY <1>0 DEF HInv, ActiveRight, FramesRight, MapRight, Left
  <2>6. /\ n1' = n1 /\ SetBits(VALS', n2) = { MAP'[u] : u \in Assigned' }
        /\ SetBits(VALS', n2) = ValuesAt(Height) \cup {w}
    BY <1>0, <2>3, <2>4, <2>5, AssignEffect
  <2>7. /\ Height = 1 /\ Height' = 1 /\ stack'[1] = G
        /\ ValuesAt(Height)' = { MAP'[u] : u \in Assigned' }
        /\ FrameDepth(Height)' = depth + 1
    BY <1>0, <2>4, InstallFrames
  <2>8. G.has_trivial_stab \in BOOLEAN /\ G.rep_depth \in Nat  BY <2>4 DEF FrameType
  <2> DEFINE X == ValuesAt(Height) \cup {w}
  <2>9. X = ValuesAt(Height) \cup {w}  OBVIOUS
  <2> HIDE DEF X
  <2>10. depth + 1 < n1 =>
           LevelOf(args, STAB_GENS', REPS', G.rep_depth, G.has_trivial_stab, X)
    BY <1>0, <2>2, <2>3, <2>5, <2>8, <2>9, StabilisedRight
  <2>11. FrameDepth(Height)' < n1' => LevelRight(Height)'
    BY <2>4, <2>6, <2>7, <2>9, <2>10 DEF LevelRight
  <2>12. \A k \in 1 .. Height' : k = Height'  BY <2>7
  <2>13. \A j, k \in 1 .. Height' : j <= k => stack'[j].rep_depth <= stack'[k].rep_depth
    BY <2>7, <2>8, <2>12
  <2>14. IMAGE_RESTRICT' = args'.image  BY <1>0, <2>4 DEF StabsRight
  <2> QED  BY <2>11, <2>12, <2>13, <2>14 DEF StabsRight
<1> QED  BY <1>1, <1>2

LEMMA PartialStabs ==
  ASSUME HInv, StabsRight, init_partial_map_and_find
  PROVE  StabsRight'
<1>0. status = "partial" /\ Active /\ F \in FrameType
  <2>1. status = "partial"
    BY DEF init_partial_map_and_find, PartialEntry, PartialNarrow, PartialNarrowed,
           PartialInstall, PartialDone, InPartial
  <2> QED  BY <2>1, ActiveFacts DEF Active
<1>1. CASE PartialInstall  BY <1>1, InstallStabs
<1>2. CASE PartialDone
  <2> DEFINE G == Frame(F.pos, F.rep_depth, F.has_trivial_stab, F.rank)
  <2>1. G.rep_depth = F.rep_depth /\ G.has_trivial_stab = F.has_trivial_stab  BY DEF Frame
  <2> HIDE DEF G
  <2>2. Stays(G)  BY <1>2, <2>1 DEF PartialDone, Running, Stays, globals, G
  <2> QED  BY <1>0, <2>2, StayStabs
<1>3. CASE PartialEntry
  <2>1. PICK x, t : Running([F EXCEPT !.next = x, !.at = -1, !.stage = t])
    BY <1>3 DEF PartialEntry
  <2> DEFINE G == [F EXCEPT !.next = x, !.at = -1, !.stage = t]
  <2>4. stack' = Append(Front(stack), G)  BY <2>1 DEF Running
  <2>5. SameLevel(G, F)  BY <1>0, FrameKeeps
  <2> HIDE DEF G
  <2>2. /\ stack' = Append(Front(stack), G)
        /\ G.rep_depth = F.rep_depth /\ G.has_trivial_stab = F.has_trivial_stab
    BY <2>4, <2>5 DEF SameLevel
  <2>3. Stays(G)  BY <1>3, <2>2 DEF PartialEntry, Stays
  <2> QED  BY <1>0, <2>3, StayStabs
<1>4. CASE PartialNarrow
  <2>1. CASE status' = "ended"  BY <2>1 DEF StabsRight, Active
  <2>2. CASE status' # "ended"
    <3>1. \E v : Running([F EXCEPT !.at = v])  BY <1>4, <2>2 DEF PartialNarrow
    <3>2. PICK G : /\ stack' = Append(Front(stack), G)
                   /\ G.rep_depth = F.rep_depth /\ G.has_trivial_stab = F.has_trivial_stab
      BY <1>0, <3>1 DEF Running, FrameType
    <3>3. Stays(G)  BY <1>4, <3>2 DEF PartialNarrow, Stays, globals
    <3> QED  BY <1>0, <3>3, StayStabs
  <2> QED  BY <2>1, <2>2
<1>5. CASE PartialNarrowed
  <2>1. CASE Running([F EXCEPT !.at = -1, !.stage = "narrow2"])
    <3> DEFINE G == [F EXCEPT !.at = -1, !.stage = "narrow2"]
    <3>1. stack' = Append(Front(stack), G)  BY <2>1 DEF Running
    <3>2. SameLevel(G, F)  BY <1>0, FrameKeeps
    <3> HIDE DEF G
    <3>3. Stays(G)  BY <1>5, <3>1, <3>2 DEF PartialNarrowed, Stays, SameLevel
    <3> QED  BY <1>0, <3>3, StayStabs
  <2>2. CASE Running([F EXCEPT !.stage = "install"])
    <3> DEFINE G == [F EXCEPT !.stage = "install"]
    <3>1. stack' = Append(Front(stack), G)  BY <2>2 DEF Running
    <3>2. SameLevel(G, F)  BY <1>0, FrameKeeps
    <3> HIDE DEF G
    <3>3. Stays(G)  BY <1>5, <3>1, <3>2 DEF PartialNarrowed, Stays, SameLevel
    <3> QED  BY <1>0, <3>3, StayStabs
  <2> QED  BY <1>5, <2>1, <2>2 DEF PartialNarrowed
<1> QED  BY <1>1, <1>2, <1>3, <1>4, <1>5 DEF init_partial_map_and_find

(* A call of the finder writes level 0, whatever the call before left there. *)
LEMMA BeginStabs ==
  ASSUME HInv, NEW a \in Arguments, Begin(a)
  PROVE  StabsRight'
<1> DEFINE m2 == a.digraph2.n
           G  == Frame(UNDEFINED, 0, Group(a) = {Identity(m2)}, 0)
<1>1. /\ args' = a /\ depth' = 0 /\ stack' = << G >> /\ IMAGE_RESTRICT' = a.image
      /\ MAP' = [i \in DOMAIN MAP |-> IF i < a.digraph1.n THEN UNDEFINED
                                      ELSE IF i < m2 THEN i ELSE MAP[i]]
      /\ STAB_GENS' = [STAB_GENS EXCEPT ![0] = Group(a)]
      /\ REPS' = [REPS EXCEPT ![0] = init_bit_array(@, FALSE, m2)
                                       \cup OrbitReps(Group(a), a.image, {})]
  BY DEF Begin, NewCall, ClearMaps
<1>2. /\ n1' = a.digraph1.n /\ a.digraph1.n \in 1 .. Size - 1 /\ m2 \in Nat
      /\ Size \in Nat \ {0} /\ 0 \in 0 .. Size - 1
      /\ a.image \subseteq Vertices(a.digraph2)
  <2>1. a.digraph1.n \in 1 .. Size - 1 /\ m2 \in 1 .. Size - 1
    BY ArgumentsAssumption
  <2> QED  BY <1>1, <2>1, SizeFacts, ArgumentsAssumption DEF n1
<1>3. G.rep_depth = 0 /\ G.has_trivial_stab = (Group(a) = {Identity(m2)})  BY DEF Frame
<1> HIDE DEF G
<1>4. Height' = 1 /\ stack'[1] = G  BY <1>1 DEF Height
<1>5. Assigned' = {}
  <2>1. MAP \in [0 .. Size - 1 -> 0 .. Size - 1 \cup { UNDEFINED }]  BY DEF HInv, Fields
  <2>2. \A v \in 0 .. a.digraph1.n - 1 : v \in DOMAIN MAP /\ v < a.digraph1.n
    BY <1>2, <2>1
  <2>3. \A v \in 0 .. a.digraph1.n - 1 : MAP'[v] = UNDEFINED
    BY <1>1, <2>2
  <2> QED  BY <1>2, <2>3 DEF Assigned
<1>6. ValuesAt(Height)' = {}  BY <1>5 DEF ValuesAt, AssignedAt
<1>7. STAB_GENS'[0] = Group(a)
  BY <1>1, <1>2 DEF HInv, Fields
<1>8. SetBits(REPS'[0], m2) = OrbitReps(Group(a), a.image, {})
  <2>1. REPS'[0] = init_bit_array(REPS[0], FALSE, m2) \cup OrbitReps(Group(a), a.image, {})
    BY <1>1, <1>2 DEF HInv, Fields
  <2>2. OrbitReps(Group(a), a.image, {}) \subseteq Meant(m2)
    BY <1>2 DEF OrbitReps, Meant, Vertices
  <2>3. SetBits(init_bit_array(REPS[0], FALSE, m2), m2) = {}  BY <1>2, InitMeant
  <2> QED  BY <2>1, <2>2, <2>3 DEF SetBits
<1>9. Fixing(Group(a), {}) = Group(a)  BY DEF Fixing
<1>10. LevelOf(a, STAB_GENS', REPS', 0, Group(a) = {Identity(m2)}, {})
  BY <1>7, <1>8, <1>9 DEF LevelOf
<1>11. LevelRight(Height)'
  <2>1. LevelOf(a, STAB_GENS', REPS', G.rep_depth, G.has_trivial_stab, {})
    BY <1>3, <1>10
  <2> QED  BY <1>1, <1>4, <1>6, <2>1 DEF LevelRight
<1>12. \A k \in 1 .. Height' : k = Height'  BY <1>4
<1>13. \A j, k \in 1 .. Height' : j <= k => stack'[j].rep_depth <= stack'[k].rep_depth
  BY <1>3, <1>4, <1>12
<1>14. IMAGE_RESTRICT' = args'.image  BY <1>1
<1> QED  BY <1>11, <1>12, <1>13, <1>14 DEF StabsRight

LEMMA NextStabsRight ==
  ASSUME CP!IInv, HInv, StabsRight, [Next]_vars
  PROVE  StabsRight'
<1>1. CASE \E a \in Arguments : Call(a)
  <2>1. PICK a \in Arguments : Call(a)  BY <1>1
  <2>2. CASE Begin(a)  BY <2>2, BeginStabs
  <2>3. CASE RefuseAtOnce(a) \/ RefuseInInit(a)
    <3>1. status' = "refused"  BY <2>3 DEF RefuseAtOnce, RefuseInInit
    <3> QED  BY <3>1 DEF StabsRight, Active
  <2> QED  BY <2>1, <2>2, <2>3 DEF Call
<1>2. CASE Run  BY <1>2, RunSteps, PartialStabs, SearchStabs
<1>3. CASE UNCHANGED vars
  <2>1. UNCHANGED << args, stack, STAB_GENS, REPS, depth, MAP, IMAGE_RESTRICT, status >>
    BY <1>3 DEF vars, globals
  <2>2. Active' = Active /\ n1' = n1 /\ Height' = Height
    BY <2>1 DEF Active, n1, Height
  <2>3. \A k : /\ FrameDepth(k)' = FrameDepth(k) /\ ValuesAt(k)' = ValuesAt(k)
    BY <2>1, <2>2 DEF FrameDepth, ValuesAt, AssignedAt, Assigned, Tried
  <2>4. \A k : LevelRight(k) => LevelRight(k)'
    BY <2>1, <2>3 DEF LevelRight
  <2> QED  BY <2>1, <2>2, <2>3, <2>4 DEF StabsRight
<1> QED  BY <1>1, <1>2, <1>3 DEF Next

(* At every moment of every search the group of the running call is the      *)
(* pointwise stabiliser of the values that are taken, the shortcut for the   *)
(* trivial group is taken when it is trivial and only then, and the          *)
(* representatives are those of that group: whatever deeper calls, and the   *)
(* calls of the finder before, wrote into the levels above.                  *)
THEOREM StabilisersFixValues == Spec => []StabFixesVals
<1>1. SearchInv /\ StabsRight => StabFixesVals
  <2> SUFFICES ASSUME HInv, StabsRight, status = "search", depth < n1
               PROVE  LET vals == SetBits(VALS, n2)
                          stab == { p \in Group(args) : \A w \in vals : p[w] = w }
                      IN  /\ STAB_GENS[F.rep_depth] = stab
                          /\ F.has_trivial_stab <=> stab = {Identity(n2)}
                          /\ SetBits(REPS[F.rep_depth], n2) \ vals
                               = OrbitReps(stab, args.image, vals)
    BY DEF SearchInv, StabFixesVals
  <2>1. Active  BY DEF Active
  <2>2. /\ Height \in 1 .. Height /\ F = stack[Height] /\ FrameDepth(Height) = depth
    BY <2>1, ActiveFacts
  <2>3. LevelOf(args, STAB_GENS, REPS, F.rep_depth, F.has_trivial_stab, ValuesAt(Height))
    BY <2>1, <2>2 DEF StabsRight, LevelRight
  <2>4. SetBits(VALS, n2) = ValuesAt(Height)  BY <2>1 DEF HInv, ActiveRight, MapRight
  <2> QED  BY <2>3, <2>4 DEF LevelOf, Fixing, n2
<1>2. Init => StabsRight
  BY DEF Init, StabsRight, Active
<1>3. SearchInv /\ StabsRight /\ [Next]_vars => StabsRight'
  BY NextStabsRight DEF SearchInv
<1> QED  BY <1>1, <1>2, <1>3, SearchesInductive, PTL DEF Spec

------------------------------------------------------------------------------
(* The cells: what forward checking leaves of them.                          *)

(* May v take the value w next to u, which has the value m[u]?               *)
Fits(a, m, u, v, w) ==
  LET out  == << u, v >> \in InternalEdges(a)
      in   == << v, u >> \in InternalEdges(a)
      out2 == IsAdjacent(a.digraph2, m[u], w)
      in2  == IsAdjacent(a.digraph2, w, m[u])
  IN  (out => out2) /\ (in => in2) /\ (a.injective = 2 => out = out2 /\ in = in2)

(* The values of the bottom cell of v that fit all that A has.               *)
Good(a, m, A, v) ==
  { w \in SetBits(BaseRow(a)[v], a.digraph2.n) : \A u \in A : Fits(a, m, u, v, w) }

CellRight(a, m, cell, size, v, A) ==
  /\ SetBits(cell, a.digraph2.n) = Good(a, m, A, v)
  /\ size = size_bit_array(cell, a.digraph2.n)

(* The cell column v had on top at depth d is right for the vertices of A.   *)
ColumnRight(v, d, A) == CellRight(args, MAP, CP!CellAt(v, d), CP!SizeAt(v, d), v, A)

(* Has a call with frame f accounted for the value of its pos in column v?   *)
Settled(f, v) ==
  \/ f.stage \in { "install", "pick", "new", "old" }
  \/ f.stage = "narrow" /\ v <= f.at /\ (Undirected(args) => v \in Neighbours1(f.pos))
  \/ f.stage = "narrow2" /\ (v <= f.at \/ v \in Neighbours1(f.pos))

Known(f, A, v) == IF Settled(f, v) THEN A ELSE A \ {f.pos}

(* find_digraph_embeddings cuts down the cell of the vertex it picked.       *)
Untouched(f, v) == InPlace /\ f.stage \in { "new", "old" } => v # f.next

ColumnsRight(k) ==
  \A v \in V1 \ AssignedAt(k) :
    stack[k].stage # "leave" /\ Untouched(stack[k], v) =>
      ColumnRight(v, FrameDepth(k), Known(stack[k], AssignedAt(k), v))

PosAssigned == depth > 0 /\ F.stage \in { "enter", "narrow", "narrow2" } => F.pos \in Assigned

CellsRight == Active => PosAssigned /\ \A k \in 1 .. Height : ColumnsRight(k)

(* The operators of the instance are those of this module.                   *)
LEMMA CellCopies ==
  /\ \A c, i : CP!get_conditions(c, i) = get_conditions(c, i)
  /\ \A c, i : CP!size_conditions(c, i) = size_conditions(c, i)
  /\ \A x, y, n : CP!intersect_bit_arrays(x, y, n) = intersect_bit_arrays(x, y, n)
  /\ \A x, n : CP!size_bit_array(x, n) = size_bit_array(x, n)
  /\ \A n, h, i : CP!Index(n, h, i) = Index(n, h, i)
<1>1. \A n : CP!Covered(n) = Covered(n)
  BY DEF CP!Covered, Covered, CP!number_of_blocks, number_of_blocks
<1>2. \A x, y, n : CP!intersect_bit_arrays(x, y, n) = intersect_bit_arrays(x, y, n)
  BY <1>1 DEF CP!intersect_bit_arrays, intersect_bit_arrays
<1>3. \A c, i : CP!get_conditions(c, i) = get_conditions(c, i)
  BY DEF CP!Top, Top, CP!Index, Index, CP!get_conditions, get_conditions
<1>4. \A c, i : CP!size_conditions(c, i) = size_conditions(c, i)
  BY DEF CP!Top, Top, CP!Index, Index, CP!size_conditions, size_conditions
<1>5. \A x, n : CP!size_bit_array(x, n) = size_bit_array(x, n)
  BY <1>1 DEF CP!size_bit_array, size_bit_array, Cardinality, CP!Cardinality
<1>6. \A n, h, i : CP!Index(n, h, i) = Index(n, h, i)  BY DEF CP!Index, Index
<1> QED  BY <1>2, <1>3, <1>4, <1>5, <1>6

(* What is good for a column depends on the values of A only, and another    *)
(* vertex leaves those that fit it too.                                      *)
LEMMA GoodKept ==
  ASSUME NEW a, NEW m, NEW m2, NEW A, NEW v, \A u \in A : m2[u] = m[u]
  PROVE  Good(a, m2, A, v) = Good(a, m, A, v)
<1>1. \A w : \A u \in A : Fits(a, m2, u, v, w) <=> Fits(a, m, u, v, w)  BY DEF Fits
<1> QED  BY <1>1 DEF Good

LEMMA GoodNarrowed ==
  ASSUME NEW a, NEW m, NEW A, NEW v, NEW u \in A
  PROVE  Good(a, m, A, v) = { w \in Good(a, m, A \ {u}, v) : Fits(a, m, u, v, w) }
<1>1. \A w : (\A x \in A : Fits(a, m, x, v, w))
               <=> (\A x \in A \ {u} : Fits(a, m, x, v, w)) /\ Fits(a, m, u, v, w)
  OBVIOUS
<1> QED  BY <1>1 DEF Good

LEMMA GoodValues ==
  ASSUME NEW a, NEW m, NEW A, NEW v
  PROVE  Good(a, m, A, v) \subseteq 0 .. a.digraph2.n - 1
BY DEF Good, SetBits, Meant

(* The copy of a symmetric digraph is symmetric.                             *)
LEMMA InternalSymmetric ==
  ASSUME NEW a, IsSymmetricDigraph(a.digraph1), NEW u, NEW v
  PROVE  << u, v >> \in InternalEdges(a) <=> << v, u >> \in InternalEdges(a)
<1>1. ASSUME NEW x, NEW y, << x, y >> \in InternalEdges(a)
      PROVE  << y, x >> \in InternalEdges(a)
  <2>1. PICK e \in a.digraph1.edges :
          << x, y >> = << InverseOrder(a)[e[1]], InverseOrder(a)[e[2]] >>
    BY <1>1 DEF InternalEdges
  <2> DEFINE f == << e[2], e[1] >>
  <2>2. f \in a.digraph1.edges  BY DEF IsSymmetricDigraph
  <2>3. << y, x >> = << InverseOrder(a)[f[1]], InverseOrder(a)[f[2]] >>  BY <2>1
  <2> QED  BY <2>2, <2>3 DEF InternalEdges
<1> QED  BY <1>1

(* The arrows between pos and v, as the helpers ask for them.                *)
LEMMA FitsNow ==
  ASSUME NEW v, NEW w \in V2
  PROVE  Fits(args, MAP, F.pos, v, w) <=>
           /\ Adjacent1(F.pos, v) => w \in OutNeighbours2(MAP[F.pos])
           /\ Adjacent1(v, F.pos) => w \in InNeighbours2(MAP[F.pos])
           /\ args.injective = 2 =>
                /\ w \in OutNeighbours2(MAP[F.pos]) => Adjacent1(F.pos, v)
                /\ w \in InNeighbours2(MAP[F.pos]) => Adjacent1(v, F.pos)
<1>1. w \in OutNeighbours2(MAP[F.pos]) <=> IsAdjacent(args.digraph2, MAP[F.pos], w)
  BY DEF OutNeighbours2, V2
<1>2. w \in InNeighbours2(MAP[F.pos]) <=> IsAdjacent(args.digraph2, w, MAP[F.pos])
  BY DEF InNeighbours2, V2
<1> QED  BY <1>1, <1>2 DEF Fits, Adjacent1, IsAdjacent

(* Between symmetric digraphs one direction says it all.                     *)
LEMMA FitsUndirected ==
  ASSUME Undirected(args), NEW v
  PROVE  /\ Adjacent1(F.pos, v) <=> Adjacent1(v, F.pos)
         /\ \A w \in V2 :
              w \in OutNeighbours2(MAP[F.pos]) <=> w \in InNeighbours2(MAP[F.pos])
<1>1. Adjacent1(F.pos, v) <=> Adjacent1(v, F.pos)
  BY InternalSymmetric DEF Undirected, Adjacent1
<1>2. \A x, y : << x, y >> \in args.digraph2.edges => << y, x >> \in args.digraph2.edges
  BY DEF Undirected, IsSymmetricDigraph
<1>3. \A w \in V2 : w \in OutNeighbours2(MAP[F.pos]) <=> w \in InNeighbours2(MAP[F.pos])
  BY <1>2 DEF OutNeighbours2, InNeighbours2, IsAdjacent
<1> QED  BY <1>1, <1>3

(* A helper pushes the cell with the values that fit pos, or has no reason   *)
(* to push.                                                                  *)
LEMMA UpdateFits ==
  ASSUME CP!IInv, HInv, Active, F.stage \in { "narrow", "narrow2" }, ToNarrow(Buffer) # {},
         NEW v, v = Min(ToNarrow(Buffer))
  PROVE  \/ \E b \in SUBSET Bits :
              /\ PartialUpdate(v) = PushedWith(conditions, depth, v, b)
              /\ \A w \in V2 : w \in b <=> Fits(args, MAP, F.pos, v, w)
         \/ /\ PartialUpdate(v) = conditions
            /\ \A w \in V2 : Fits(args, MAP, F.pos, v, w)
<1> DEFINE c == conditions
           pc == PushCopy(c, depth, v)
           out == OutNeighbours2(MAP[F.pos])
           in == InNeighbours2(MAP[F.pos])
           forth == Adjacent1(F.pos, v)
           back == Adjacent1(v, F.pos)
           Result(b) == store_size_conditions(IntersectTop(pc, v, b), v)
<1>1. /\ v \in Left /\ v \notin Pushed /\ (Undirected(args) => v \in SetBits(Buffer, n1))
      /\ Left \subseteq V1 /\ depth \in 1 .. n1 - 1
      /\ Columns(conditions) = V1 /\ conditions.nr1 = n1 /\ open /\ args \in Arguments
      /\ NarrowingOf(F, Pushed, Buffer) /\ V2 \subseteq Bits
  BY NextToNarrow, LeftFacts, ActiveFacts DEF HInv, ActiveRight, ArgsRight, TopRight
<1>2. HasTop(pc, v)
  BY <1>1, CopyHasTop DEF Pushed
<1>3. out \in SUBSET Bits /\ in \in SUBSET Bits /\ args.injective \in 0 .. 2
  BY <1>1, ArgumentsAssumption DEF OutNeighbours2, InNeighbours2, V2
<1>4. \A w \in V2 : Fits(args, MAP, F.pos, v, w) <=>
        /\ (forth => w \in out) /\ (back => w \in in)
        /\ args.injective = 2 => (w \in out => forth) /\ (w \in in => back)
  BY FitsNow
<1>5. Undirected(args) => (forth <=> back) /\ \A w \in V2 : w \in out <=> w \in in
  BY FitsUndirected
<1>6. Undirected(args) /\ args.injective < 2 => forth
  <2>1. Undirected(args) /\ args.injective < 2 => F.stage = "narrow"
    BY <1>1 DEF NarrowingOf, SecondPass
  <2> QED  BY <1>1, <2>1 DEF NarrowingOf, Neighbours1
<1>7. /\ IntersectTop(pc, v, Bits) = pc
      /\ \A b : ComplementTop(pc, v, b) = IntersectTop(pc, v, Bits \ b)
      /\ \A a, b : IntersectTop(IntersectTop(pc, v, a), v, b) = IntersectTop(pc, v, a \cap b)
      /\ \A a, b : ComplementTop(IntersectTop(pc, v, a), v, b)
                     = IntersectTop(pc, v, a \cap (Bits \ b))
  <2>1. /\ IntersectTop(pc, v, Bits) = pc
        /\ \A b : ComplementTop(pc, v, b) = IntersectTop(pc, v, Bits \ b)
        /\ \A a, b : IntersectTop(IntersectTop(pc, v, a), v, b) = IntersectTop(pc, v, a \cap b)
        /\ \A b : HasTop(IntersectTop(pc, v, b), v)
    <3> HIDE DEF pc
    <3> QED  BY <1>2, OneMask
  <2>2. ASSUME NEW a, NEW b
        PROVE  ComplementTop(IntersectTop(pc, v, a), v, b)
                 = IntersectTop(pc, v, a \cap (Bits \ b))
    <3> DEFINE p == IntersectTop(pc, v, a)
    <3>1. HasTop(p, v)  BY <2>1
    <3> HIDE DEF p
    <3>2. ComplementTop(p, v, b) = IntersectTop(p, v, Bits \ b)  BY <3>1, OneMask
    <3> QED  BY <2>1, <3>2 DEF p
  <2> QED  BY <2>1, <2>2
<1>8. ASSUME NEW b \in SUBSET Bits, PartialUpdate(v) = Result(b),
             \A w \in V2 : w \in b <=> Fits(args, MAP, F.pos, v, w)
      PROVE  \E x \in SUBSET Bits :
               /\ PartialUpdate(v) = PushedWith(conditions, depth, v, x)
               /\ \A w \in V2 : w \in x <=> Fits(args, MAP, F.pos, v, w)
  BY <1>8 DEF PushedWith, push_conditions
<1> HIDE DEF pc, out, in, forth, back
<1>9. CASE Undirected(args) /\ args.injective < 2
  <2>1. PartialUpdate(v) = Result(out)
    BY <1>3, <1>9 DEF PartialUpdate, graph_homo_update_conditions, graph_mono_update_conditions,
       push_conditions, pc, out
  <2>2. \A w \in V2 : w \in out <=> Fits(args, MAP, F.pos, v, w)
    BY <1>3, <1>4, <1>5, <1>6, <1>9
  <2> QED  BY <1>3, <1>8, <2>1, <2>2
<1>10. CASE Undirected(args) /\ args.injective = 2
  <2> DEFINE b == IF forth THEN out ELSE Bits \ out
  <2>1. PartialUpdate(v) = graph_embed_update_conditions(conditions, depth, F.pos, v)
    BY <1>10 DEF PartialUpdate
  <2>2. PartialUpdate(v) = Result(b)
    BY <1>7, <2>1 DEF graph_embed_update_conditions, pc, out, forth
  <2>3. \A w \in V2 : w \in b <=> Fits(args, MAP, F.pos, v, w)
    BY <1>1, <1>4, <1>5, <1>10
  <2>4. b \in SUBSET Bits  BY <1>3
  <2> QED  BY <1>8, <2>2, <2>3, <2>4
<1>11. CASE ~ Undirected(args) /\ args.injective = 0
  <2>1. PartialUpdate(v) = digraph_homo_update_conditions(conditions, depth, F.pos, v)
    BY <1>11 DEF PartialUpdate
  <2>2. CASE forth \/ back
    <3> DEFINE b == IF forth /\ back THEN out \cap in ELSE IF forth THEN out ELSE in
    <3>1. PartialUpdate(v) = Result(b)
      BY <1>7, <2>1, <2>2 DEF digraph_homo_update_conditions, push_conditions,
         pc, out, in, forth, back
    <3>2. \A w \in V2 : w \in b <=> Fits(args, MAP, F.pos, v, w)
      BY <1>4, <1>11, <2>2
    <3>3. b \in SUBSET Bits  BY <1>3
    <3> QED  BY <1>8, <3>1, <3>2, <3>3
  <2>3. CASE ~ (forth \/ back)
    <3>1. PartialUpdate(v) = conditions
      BY <2>1, <2>3 DEF digraph_homo_update_conditions, forth, back
    <3>2. \A w \in V2 : Fits(args, MAP, F.pos, v, w)  BY <1>4, <1>11, <2>3
    <3> QED  BY <3>1, <3>2
  <2> QED  BY <2>2, <2>3
<1>12. CASE ~ Undirected(args) /\ args.injective = 1
  <2> DEFINE x == IF forth THEN out ELSE Bits
             y == IF back THEN in ELSE Bits
             p == IF forth THEN IntersectTop(pc, v, out) ELSE pc
             q == IF back THEN IntersectTop(p, v, in) ELSE p
  <2>1. PartialUpdate(v) = store_size_conditions(q, v)
    BY <1>12 DEF PartialUpdate, digraph_mono_update_conditions, pc, out, in, forth, back
  <2>2. p = IntersectTop(pc, v, x)  BY <1>7
  <2>3. q = IntersectTop(pc, v, x \cap y)
    <3>1. x \cap Bits = x  BY <1>3
    <3> HIDE DEF p, x
    <3> QED  BY <1>7, <2>2, <3>1
  <2>4. \A w \in V2 : w \in x \cap y <=> Fits(args, MAP, F.pos, v, w)
    BY <1>1, <1>4, <1>12
  <2>5. x \cap y \in SUBSET Bits  BY <1>3
  <2> HIDE DEF q, x, y
  <2> QED  BY <1>8, <2>1, <2>3, <2>4, <2>5
<1>13. CASE ~ Undirected(args) /\ args.injective = 2
  <2> DEFINE x == IF forth THEN out ELSE Bits \ out
             y == IF back THEN in ELSE Bits \ in
             p == IF forth THEN IntersectTop(pc, v, out) ELSE ComplementTop(pc, v, out)
             q == IF back THEN IntersectTop(p, v, in) ELSE ComplementTop(p, v, in)
  <2>1. PartialUpdate(v) = store_size_conditions(q, v)
    BY <1>13 DEF PartialUpdate, digraph_embed_update_conditions, pc, out, in, forth, back
  <2>2. p = IntersectTop(pc, v, x)  BY <1>7
  <2>3. q = IntersectTop(pc, v, x \cap y)
    <3> HIDE DEF p, x
    <3> QED  BY <1>7, <2>2
  <2>4. \A w \in V2 : w \in x \cap y <=> Fits(args, MAP, F.pos, v, w)
    BY <1>1, <1>4, <1>13
  <2>5. x \cap y \in SUBSET Bits  BY <1>3
  <2> HIDE DEF q, x, y
  <2> QED  BY <1>8, <2>1, <2>3, <2>4, <2>5
<1> QED  BY <1>3, <1>9, <1>10, <1>11, <1>12, <1>13

(* A column whose cell is left alone stays right.                            *)
LEMMA ColumnKept ==
  ASSUME NEW v, NEW d, NEW A, ColumnRight(v, d, A), args' = args,
         \A u \in A : MAP'[u] = MAP[u],
         CP!CellAt(v, d)' = CP!CellAt(v, d), CP!SizeAt(v, d)' = CP!SizeAt(v, d)
  PROVE  ColumnRight(v, d, A)'
<1>1. Good(args, MAP', A, v) = Good(args, MAP, A, v)  BY GoodKept
<1> QED  BY <1>1 DEF ColumnRight, CellRight

LEMMA FrameKnows ==
  ASSUME args' = args, InPlace' = InPlace
  PROVE  /\ \A f, A, v : Known(f, A, v)' = Known(f, A, v)
         /\ \A f, v : Untouched(f, v)' <=> Untouched(f, v)
BY DEF Known, Settled, Untouched, Neighbours1, Adjacent1, n1

(* The columns of a call whose frame has accounted for them all.             *)
LEMMA ColumnsKept ==
  ASSUME NEW k, ColumnsRight(k), NEW d, d = FrameDepth(k), FrameDepth(k)' = d,
         args' = args, InPlace' = InPlace, V1' = V1, AssignedAt(k)' = AssignedAt(k),
         \A u \in AssignedAt(k) : MAP'[u] = MAP[u],
         \A v \in V1 : CP!CellAt(v, d)' = CP!CellAt(v, d) /\ CP!SizeAt(v, d)' = CP!SizeAt(v, d),
         stack[k].stage \in { "new", "old" }, stack'[k].stage = stack[k].stage,
         stack'[k].next = stack[k].next
  PROVE  ColumnsRight(k)'
<1>1. PICK A : A = AssignedAt(k)  OBVIOUS
<1>2. PICK f, g : f = stack[k] /\ g = stack'[k]  OBVIOUS
<1>3. /\ f.stage \in { "new", "old" } /\ g.stage = f.stage /\ g.next = f.next
      /\ \A v : Known(f, A, v) = A /\ Known(g, A, v)' = A
  BY <1>2 DEF Known, Settled
<1>4. ASSUME NEW v \in V1 \ A, g.stage # "leave", Untouched(g, v)'
      PROVE  ColumnRight(v, d, A)'
  <2>1. Untouched(f, v)  BY <1>3, <1>4 DEF Untouched
  <2>2. ColumnRight(v, FrameDepth(k), Known(f, A, v))
    BY <1>1, <1>2, <1>3, <1>4, <2>1 DEF ColumnsRight
  <2>3. ColumnRight(v, d, A)  BY <1>3, <2>2
  <2> QED  BY <1>1, <2>3, ColumnKept
<1>5. ASSUME NEW v \in V1' \ AssignedAt(k)', stack'[k].stage # "leave", Untouched(stack[k], v)'
      PROVE  ColumnRight(v, FrameDepth(k), Known(stack[k], AssignedAt(k), v))'
  <2>1. Untouched(g, v)'  BY <1>2, <1>5 DEF Untouched
  <2>2. ColumnRight(v, d, A)'  BY <1>1, <1>2, <1>4, <1>5, <2>1
  <2>3. Known(stack[k], AssignedAt(k), v)' = A
    BY <1>1, <1>2, <1>3 DEF Known, Settled
  <2> QED  BY <2>2, <2>3 DEF ColumnRight, CP!CellAt, CP!SizeAt, CP!LevelAt
<1> QED  BY <1>5 DEF ColumnsRight

LEMMA CellsStay ==
  ASSUME UNCHANGED << conditions, depth >>
  PROVE  \A v, d : CP!CellAt(v, d)' = CP!CellAt(v, d) /\ CP!SizeAt(v, d)' = CP!SizeAt(v, d)
BY DEF CP!CellAt, CP!SizeAt, CP!LevelAt, CP!Depths

(* The calls below the running one, when a step reaches no cell of theirs.   *)
LEMMA CallersKept ==
  ASSUME HInv, Active, CellsRight, NEW G, stack' = Append(Front(stack), G),
         UNCHANGED << depth, MAP, args >>,
         \A v \in V1, d \in 0 .. depth - 1 :
           CP!CellAt(v, d)' = CP!CellAt(v, d) /\ CP!SizeAt(v, d)' = CP!SizeAt(v, d),
         NEW k \in 1 .. Height - 1
  PROVE  ColumnsRight(k)'
<1>1. PICK d : d = FrameDepth(k)  OBVIOUS
<1>2. /\ d \in 0 .. depth - 1 /\ k \in 1 .. Height
  BY <1>1, ActiveFacts
<1>3. /\ stack'[k] = stack[k] /\ V1' = V1 /\ InPlace' = InPlace
      /\ AssignedAt(k)' = AssignedAt(k) /\ FrameDepth(k)' = d
  BY <1>1, <1>2, StayEffect
<1>4. stack[k].stage \in { "new", "old" }
  BY DEF HInv, ActiveRight, CallsRight, CallerRight
<1>5. ColumnsRight(k)  BY <1>2 DEF CellsRight
<1> QED  BY <1>1, <1>2, <1>3, <1>4, <1>5, ColumnsKept

(* A step that replaces the frame of the running call and reaches its cells  *)
(* only: they have to be right for what the new frame knows.                  *)
LEMMA StayColumns ==
  ASSUME HInv, Active, CellsRight, NEW G, stack' = Append(Front(stack), G),
         UNCHANGED << depth, MAP, args >>,
         depth > 0 /\ G.stage \in { "enter", "narrow", "narrow2" } => G.pos \in Assigned,
         \A v \in V1, d \in 0 .. depth - 1 :
           CP!CellAt(v, d)' = CP!CellAt(v, d) /\ CP!SizeAt(v, d)' = CP!SizeAt(v, d),
         NEW e, e = depth,
         \A v \in Left : G.stage # "leave" /\ Untouched(G, v) =>
           CellRight(args, MAP, CP!CellAt(v, e)', CP!SizeAt(v, e)', v, Known(G, Assigned, v))
  PROVE  CellsRight'
<1>1. /\ Height \in Nat \ {0} /\ F = stack[Height] /\ AssignedAt(Height) = Assigned
      /\ FrameDepth(Height) = depth /\ Height \in 1 .. Height
  BY ActiveFacts
<1>2. /\ Height' = Height /\ F' = G /\ stack'[Height] = G /\ Assigned' = Assigned
      /\ V1' = V1 /\ InPlace' = InPlace
      /\ AssignedAt(Height)' = Assigned /\ FrameDepth(Height)' = depth
  <2>1. PICK h : h = Height  OBVIOUS
  <2>2. /\ Height' = h /\ F' = G /\ stack'[h] = G /\ Assigned' = Assigned
        /\ V1' = V1 /\ InPlace' = InPlace
        /\ AssignedAt(h)' = AssignedAt(h) /\ FrameDepth(h)' = FrameDepth(h)
    BY <1>1, <2>1, StayEffect
  <2> QED  BY <1>1, <2>1, <2>2 DEF AssignedAt, FrameDepth, Tried
<1>3. PosAssigned'  BY <1>2 DEF PosAssigned
<1>4. \A k \in 1 .. Height - 1 : ColumnsRight(k)'  BY CallersKept
<1>5. PICK A : A = Assigned  OBVIOUS
<1>6. ASSUME NEW v \in Left, G.stage # "leave", Untouched(G, v)
      PROVE  ColumnRight(v, e, Known(G, A, v))'
  <2>1. PICK L : L = Known(G, A, v)  OBVIOUS
  <2>2. CellRight(args, MAP, CP!CellAt(v, e)', CP!SizeAt(v, e)', v, L)  BY <1>5, <1>6, <2>1
  <2>3. ColumnRight(v, e, L)'  BY <2>2 DEF ColumnRight
  <2>4. Known(G, A, v)' = L  BY <1>2, <2>1, FrameKnows
  <2> QED  BY <2>3, <2>4 DEF ColumnRight
<1>7. ColumnsRight(Height)'
  <2> SUFFICES ASSUME NEW v \in (V1 \ AssignedAt(Height))', stack'[Height'].stage # "leave",
                      Untouched(stack[Height], v)'
               PROVE  ColumnRight(v, FrameDepth(Height),
                                  Known(stack[Height], AssignedAt(Height), v))'
    BY DEF ColumnsRight
  <2>1. v \in Left /\ stack'[Height'] = G  BY <1>2 DEF Left
  <2>2. Untouched(G, v)' <=> Untouched(G, v)  BY <1>2, FrameKnows
  <2>3. Untouched(G, v)  BY <2>1, <2>2 DEF Untouched
  <2>4. ColumnRight(v, e, Known(G, A, v))'  BY <1>6, <2>1, <2>3
  <2>5. Known(stack[Height], AssignedAt(Height), v)' = Known(G, A, v)'
    BY <1>2, <1>5, <2>1 DEF Known, Settled
  <2>6. FrameDepth(Height)' = e  BY <1>2
  <2> QED  BY <2>4, <2>5, <2>6 DEF ColumnRight, CP!CellAt, CP!SizeAt, CP!LevelAt
<1>8. \A k \in 1 .. Height : k \in 1 .. Height - 1 \/ k = Height  BY <1>1
<1>9. \A k \in 1 .. Height' : ColumnsRight(k)'  BY <1>2, <1>4, <1>7, <1>8
<1> QED  BY <1>3, <1>9 DEF CellsRight

(* What the cells of the running call are before it.                         *)
LEMMA ColumnsNow ==
  ASSUME HInv, Active, CellsRight, F.stage # "leave", NEW v \in Left, Untouched(F, v)
  PROVE  CellRight(args, MAP, CP!CellAt(v, depth), CP!SizeAt(v, depth), v,
                   Known(F, Assigned, v))
<1>1. /\ F = stack[Height] /\ AssignedAt(Height) = Assigned
      /\ FrameDepth(Height) = depth /\ Height \in 1 .. Height
  BY ActiveFacts
<1>2. ColumnRight(v, FrameDepth(Height), Known(stack[Height], AssignedAt(Height), v))
  BY <1>1 DEF CellsRight, ColumnsRight, Left
<1>3. ColumnRight(v, depth, Known(F, Assigned, v))  BY <1>1, <1>2
<1> QED  BY <1>3 DEF ColumnRight

(* If it leaves the object alone, the new frame has to know what the old one *)
(* knew.                                                                      *)
LEMMA StayCells ==
  ASSUME HInv, Active, CellsRight, NEW G, stack' = Append(Front(stack), G),
         UNCHANGED << conditions, depth, MAP, args >>,
         depth > 0 /\ G.stage \in { "enter", "narrow", "narrow2" } => G.pos \in Assigned,
         \A v \in Left : G.stage # "leave" /\ Untouched(G, v) =>
           /\ F.stage # "leave" /\ Untouched(F, v)
           /\ Good(args, MAP, Known(G, Assigned, v), v) = Good(args, MAP, Known(F, Assigned, v), v)
  PROVE  CellsRight'
<1>1. PICK e : e = depth  OBVIOUS
<1>2. \A v, d : CP!CellAt(v, d)' = CP!CellAt(v, d) /\ CP!SizeAt(v, d)' = CP!SizeAt(v, d)
  BY CellsStay
<1>3. ASSUME NEW v \in Left, G.stage # "leave", Untouched(G, v)
      PROVE  CellRight(args, MAP, CP!CellAt(v, e)', CP!SizeAt(v, e)', v, Known(G, Assigned, v))
  <2>1. CellRight(args, MAP, CP!CellAt(v, e), CP!SizeAt(v, e), v, Known(F, Assigned, v))
    BY <1>1, <1>3, ColumnsNow
  <2> QED  BY <1>2, <1>3, <2>1 DEF CellRight
<1> QED  BY <1>1, <1>2, <1>3, StayColumns

(* A vertex that fits whatever value v has narrows nothing.                  *)
LEMMA GoodAnyway ==
  ASSUME NEW A, NEW u \in A, NEW v, \A w \in V2 : Fits(args, MAP, u, v, w)
  PROVE  Good(args, MAP, A, v) = Good(args, MAP, A \ {u}, v)
<1>1. V2 = 0 .. args.digraph2.n - 1  BY DEF V2, n2
<1>2. Good(args, MAP, A \ {u}, v) \subseteq V2  BY <1>1, GoodValues
<1>3. Good(args, MAP, A, v) = { w \in Good(args, MAP, A \ {u}, v) : Fits(args, MAP, u, v, w) }
  BY GoodNarrowed
<1> QED  BY <1>2, <1>3

(* For maps of symmetric digraphs that are no embeddings, that is the case   *)
(* where there is no edge.                                                    *)
LEMMA FitsAnyway ==
  ASSUME HInv, Active, Undirected(args), args.injective < 2,
         NEW v \in Left, v \notin Neighbours1(F.pos)
  PROVE  \A w \in V2 : Fits(args, MAP, F.pos, v, w)
<1>1. ~ Adjacent1(F.pos, v)  BY LeftFacts DEF Neighbours1, V1
<1>2. ~ Adjacent1(v, F.pos)  BY <1>1, FitsUndirected
<1>3. args.injective # 2
  BY ArgumentsAssumption DEF HInv, ActiveRight, ArgsRight
<1> QED  BY <1>1, <1>2, <1>3, FitsNow

(* When its last loop has come to its end, the call has accounted for the    *)
(* value of pos in every column.                                              *)
LEMMA LoopDone ==
  ASSUME HInv, Active, CellsRight, F.stage \in { "narrow", "narrow2" }, ToNarrow(Buffer) = {},
         SecondPass => F.stage = "narrow2", NEW v \in Left
  PROVE  Good(args, MAP, Assigned, v) = Good(args, MAP, Known(F, Assigned, v), v)
<1>1. /\ NarrowingOf(F, Pushed, Buffer) /\ SetBits(MAP_UNDEFINED[depth], n1) = Left
      /\ Left \subseteq Nat /\ F \in FrameType /\ depth \in 1 .. n1 - 1 /\ F.pos \in Assigned
      /\ args.injective \in 0 .. 2
  <2>1. depth > 0  BY LeftFacts, ActiveFacts
  <2>2. F.pos \in Assigned  BY <2>1 DEF CellsRight, PosAssigned
  <2>3. args.injective \in 0 .. 2
    BY ArgumentsAssumption DEF HInv, ActiveRight, ArgsRight
  <2> QED  BY <2>2, <2>3, LeftFacts, ActiveFacts DEF HInv, ActiveRight, TopRight
<1>2. F.at \in Int  BY <1>1 DEF FrameType
<1>3. \A u \in SetBits(IF Undirected(args) THEN Buffer ELSE MAP_UNDEFINED[depth], n1) :
        ~ (u > F.at)
  BY DEF ToNarrow, Above
<1>4. v \in Nat  BY <1>1
<1>5. CASE ~ Undirected(args)
  <2>1. F.stage = "narrow"  BY <1>1, <1>5 DEF NarrowingOf, SecondPass
  <2>2. v <= F.at  BY <1>1, <1>2, <1>3, <1>4, <1>5
  <2> QED  BY <1>5, <2>1, <2>2 DEF Known, Settled
<1>6. CASE SecondPass
  <2>1. F.stage = "narrow2" /\ Undirected(args)  BY <1>6 DEF SecondPass
  <2>2. SetBits(Buffer, n1) = Left \ Neighbours1(F.pos)  BY <1>1, <2>1 DEF NarrowingOf
  <2>3. v <= F.at \/ v \in Neighbours1(F.pos)  BY <1>2, <1>3, <1>4, <2>1, <2>2
  <2> QED  BY <2>1, <2>3 DEF Known, Settled
<1>7. CASE Undirected(args) /\ ~ SecondPass
  <2>1. F.stage = "narrow" /\ args.injective < 2
    BY <1>1, <1>7 DEF NarrowingOf, SecondPass
  <2>2. SetBits(Buffer, n1) = Left \cap Neighbours1(F.pos)  BY <1>1, <1>7, <2>1 DEF NarrowingOf
  <2>3. CASE v \in Neighbours1(F.pos)
    <3>1. v <= F.at  BY <1>2, <1>3, <1>4, <1>7, <2>2, <2>3
    <3> QED  BY <2>1, <2>3, <3>1 DEF Known, Settled
  <2>4. CASE v \notin Neighbours1(F.pos)
    <3>1. Known(F, Assigned, v) = Assigned \ {F.pos}
      BY <1>7, <2>1, <2>4 DEF Known, Settled
    <3> QED  BY <1>1, <1>7, <2>1, <2>4, <3>1, FitsAnyway, GoodAnyway
  <2> QED  BY <2>3, <2>4
<1> QED  BY <1>5, <1>6, <1>7

LEMMA FrameStaged ==
  ASSUME NEW f \in FrameType, NEW s, NEW G, G = [f EXCEPT !.stage = s]
  PROVE  G.pos = f.pos /\ G.stage = s /\ G.at = f.at /\ G.next = f.next
BY DEF FrameType

(* A frame whose loop has not begun knows nothing of pos.                    *)
LEMMA NothingYet ==
  ASSUME NEW f, f.at = -1, f.stage \in { "enter", "narrow" }, NEW A, NEW v \in Nat
  PROVE  Known(f, A, v) = A \ {f.pos}
BY DEF Known, Settled

LEMMA NoneAtTheRoot ==
  ASSUME HInv, Active, depth = 0
  PROVE  Assigned = {}
<1>1. Cardinality(Assigned) = 0 /\ IsFiniteSet(Assigned)
  BY ActiveFacts DEF HInv, ActiveRight, MapRight
<1> QED  BY <1>1, FS_EmptySet

LEMMA EnterCells ==
  ASSUME HInv, CellsRight, Enter
  PROVE  CellsRight'
<1>1. /\ Active /\ F.stage = "enter" /\ status = "search"
      /\ UNCHANGED << conditions, depth, MAP, args >>
  BY DEF Enter, InSearch, Active
<1>2. /\ F \in FrameType /\ Left \subseteq Nat /\ depth \in Nat /\ F.at = -1
  BY <1>1, ActiveFacts, LeftFacts DEF HInv, ActiveRight, TopRight, PickOf
<1>3. PICK G : G = [F EXCEPT !.stage = IF depth = 0 THEN "pick" ELSE "narrow"]  OBVIOUS
<1>4. stack' = Append(Front(stack), G)  BY <1>3 DEF Enter, Running
<1>5. /\ G.pos = F.pos /\ G.at = F.at
      /\ G.stage = IF depth = 0 THEN "pick" ELSE "narrow"
  BY <1>2, <1>3, FrameStaged
<1>6. CASE depth = 0
  <2>1. \A v : Known(G, Assigned, v) = {} /\ Known(F, Assigned, v) = {}
    BY <1>1, <1>6, NoneAtTheRoot DEF Known
  <2>2. \A v : Untouched(F, v)  BY <1>1 DEF Untouched
  <2> QED  BY <1>1, <1>4, <1>5, <1>6, <2>1, <2>2, StayCells
<1>7. CASE depth # 0
  <2>1. G.stage = "narrow" /\ F.pos \in Assigned
    BY <1>1, <1>2, <1>5, <1>7 DEF CellsRight, PosAssigned
  <2>2. \A v \in Left : Known(G, Assigned, v) = Known(F, Assigned, v)
    BY <1>1, <1>2, <1>5, <2>1, NothingYet
  <2>3. \A v : Untouched(F, v)  BY <1>1 DEF Untouched
  <2> QED  BY <1>1, <1>4, <1>5, <2>1, <2>2, <2>3, StayCells
<1> QED  BY <1>6, <1>7

(* The second loop begins where the first has left off.                      *)
LEMMA OthersKnow ==
  ASSUME HInv, Active, F.stage = "narrow", SecondPass, ToNarrow(Buffer) = {},
         NEW G, G.stage = "narrow2", G.at = -1, G.pos = F.pos, NEW v \in Left
  PROVE  Known(G, Assigned, v) = Known(F, Assigned, v)
<1>1. /\ NarrowingOf(F, Pushed, Buffer) /\ Left \subseteq Nat /\ F \in FrameType
      /\ Undirected(args)
  BY LeftFacts, ActiveFacts DEF HInv, ActiveRight, TopRight, SecondPass
<1>2. SetBits(Buffer, n1) = Left \cap Neighbours1(F.pos)  BY <1>1 DEF NarrowingOf
<1>3. \A u \in SetBits(Buffer, n1) : ~ (u > F.at)  BY <1>1 DEF ToNarrow, Above
<1>4. v \in Nat /\ F.at \in Int  BY <1>1 DEF FrameType
<1>5. v \in Neighbours1(F.pos) => v <= F.at  BY <1>2, <1>3, <1>4
<1>6. Settled(F, v) <=> v \in Neighbours1(F.pos)  BY <1>1, <1>5 DEF Settled
<1>7. Settled(G, v) <=> v \in Neighbours1(F.pos)  BY <1>4 DEF Settled
<1> QED  BY <1>6, <1>7 DEF Known

LEMMA NarrowOthersCells ==
  ASSUME HInv, CellsRight, NarrowOthers
  PROVE  CellsRight'
<1>1. /\ Active /\ F.stage = "narrow" /\ status = "search" /\ SecondPass
      /\ UNCHANGED << conditions, depth, MAP, args >>
      /\ ToNarrow(BIT_ARRAY_BUFFER[depth]) = {}
  BY DEF NarrowOthers, InSearch, Active
<1>2. F \in FrameType /\ ToNarrow(Buffer) = {} /\ F.pos \in Assigned
  <2>1. depth > 0  BY <1>1, LeftFacts, ActiveFacts
  <2> QED  BY <1>1, <2>1, ActiveFacts DEF Buffer, CellsRight, PosAssigned
<1>3. PICK G : G = [F EXCEPT !.at = -1, !.stage = "narrow2"]  OBVIOUS
<1>4. stack' = Append(Front(stack), G)  BY <1>3 DEF NarrowOthers, Running
<1>5. G.pos = F.pos /\ G.at = -1 /\ G.stage = "narrow2"
  <2>0. "narrow2" \in Stages /\ -1 \in Int  BY DEF Stages
  <2>1. MovedTo(G, F, "narrow2", -1)  BY <1>2, <1>3, <2>0, FrameMoved
  <2> QED  BY <2>1 DEF MovedTo
<1>6. \A v \in Left : Known(G, Assigned, v) = Known(F, Assigned, v)
  BY <1>1, <1>2, <1>5, OthersKnow
<1>7. \A v : Untouched(F, v)  BY <1>1 DEF Untouched
<1> QED  BY <1>1, <1>2, <1>4, <1>5, <1>6, <1>7, StayCells

LEMMA NarrowedCells ==
  ASSUME HInv, CellsRight, Narrowed
  PROVE  CellsRight'
<1>1. /\ Active /\ F.stage \in { "narrow", "narrow2" } /\ status = "search"
      /\ SecondPass => F.stage = "narrow2"
      /\ UNCHANGED << conditions, depth, MAP, args >>
      /\ ToNarrow(BIT_ARRAY_BUFFER[depth]) = {}
  BY DEF Narrowed, InSearch, Active, globals
<1>2. F \in FrameType /\ ToNarrow(Buffer) = {}  BY <1>1, ActiveFacts DEF Buffer
<1>3. PICK G : G = [F EXCEPT !.at = -1, !.stage = "pick"]  OBVIOUS
<1>4. stack' = Append(Front(stack), G)  BY <1>3 DEF Narrowed, Running
<1>5. G.pos = F.pos /\ G.stage = "pick"
  <2>0. "pick" \in Stages /\ -1 \in Int  BY DEF Stages
  <2>1. MovedTo(G, F, "pick", -1)  BY <1>2, <1>3, <2>0, FrameMoved
  <2> QED  BY <2>1 DEF MovedTo
<1>6. \A v : Known(G, Assigned, v) = Assigned  BY <1>5 DEF Known, Settled
<1>7. \A v \in Left : Good(args, MAP, Assigned, v) = Good(args, MAP, Known(F, Assigned, v), v)
  BY <1>1, <1>2, LoopDone
<1>8. \A v : Untouched(F, v)  BY <1>1 DEF Untouched
<1> QED  BY <1>1, <1>4, <1>5, <1>6, <1>7, <1>8, StayCells

(* A vertex is picked, but for find_digraph_embeddings.                      *)
LEMMA PickCells ==
  ASSUME CP!IInv, HInv, CellsRight, ~ InPlace,
         Pick("new", NewValues) \/ Pick("old", OldValues)
  PROVE  CellsRight'
<1>1. PICK s \in { "new", "old" } : Running([Chosen EXCEPT !.stage = s])
  BY DEF Pick
<1>2. /\ Active /\ F.stage = "pick" /\ status = "search"
      /\ UNCHANGED << conditions, depth, MAP, args >>
  <2>1. CASE Pick("new", NewValues)  BY <2>1 DEF Pick, InSearch, Active
  <2>2. CASE Pick("old", OldValues)  BY <2>2 DEF Pick, InSearch, Active
  <2> QED  BY <2>1, <2>2
<1>3. Chosen \in FrameType  BY <1>2, ChosenRight
<1>4. PICK G : G = [Chosen EXCEPT !.stage = s]  OBVIOUS
<1>5. stack' = Append(Front(stack), G)  BY <1>1, <1>4 DEF Running
<1>6. G.stage = s  BY <1>3, <1>4, FrameStaged
<1>7. \A v : Known(G, Assigned, v) = Assigned /\ Known(F, Assigned, v) = Assigned
  BY <1>1, <1>2, <1>6 DEF Known, Settled
<1>8. \A v : Untouched(F, v)  BY <1>2 DEF Untouched
<1> QED  BY <1>1, <1>2, <1>5, <1>6, <1>7, <1>8, StayCells

LEMMA TurnCells ==
  ASSUME HInv, CellsRight, TurnToOld, ~ InPlace
  PROVE  CellsRight'
<1>1. /\ Active /\ F.stage = "new" /\ status = "search"
      /\ UNCHANGED << conditions, depth, MAP, args >>
  BY DEF TurnToOld, InSearch, Active
<1>2. F \in FrameType  BY <1>1, ActiveFacts
<1>3. PICK G : G = [F EXCEPT !.at = -1, !.stage = "old"]  OBVIOUS
<1>4. stack' = Append(Front(stack), G)  BY <1>3 DEF TurnToOld, Running
<1>5. G.stage = "old"
  <2>0. "old" \in Stages /\ -1 \in Int  BY DEF Stages
  <2>1. MovedTo(G, F, "old", -1)  BY <1>2, <1>3, <2>0, FrameMoved
  <2> QED  BY <2>1 DEF MovedTo
<1>6. \A v : Known(G, Assigned, v) = Assigned /\ Known(F, Assigned, v) = Assigned
  BY <1>1, <1>5 DEF Known, Settled
<1>7. \A v : Untouched(F, v)  BY DEF Untouched
<1> QED  BY <1>1, <1>4, <1>5, <1>6, <1>7, StayCells

(* The steps of the partial map that push nothing.                           *)
LEMMA PartialEntryCells ==
  ASSUME HInv, CellsRight, PartialEntry
  PROVE  CellsRight'
<1>1. /\ Active /\ F.stage = "enter" /\ status = "partial" /\ Remaining # {}
      /\ UNCHANGED << conditions, depth, MAP, args >>
  BY DEF PartialEntry, InPartial, Active
<1>2. F \in FrameType /\ Left \subseteq Nat /\ depth \in Nat
  BY <1>1, ActiveFacts, LeftFacts
<1>3. PICK x, s : x = Min(Remaining) /\ s = IF depth > 0 THEN "narrow" ELSE "install"
  OBVIOUS
<1>4. PICK G : G = [F EXCEPT !.next = x, !.at = -1, !.stage = s]  OBVIOUS
<1>5. stack' = Append(Front(stack), G)  BY <1>3, <1>4 DEF PartialEntry, Running
<1>6. G.pos = F.pos /\ G.at = -1 /\ G.stage = s
  <2>1. x \in Int  BY <1>1, <1>3, NextEntry
  <2>2. s \in Stages /\ -1 \in Int  BY <1>3 DEF Stages
  <2>3. EnteredAt(G, F, s, -1, x)  BY <1>2, <1>4, <2>1, <2>2, FrameEntered
  <2> QED  BY <2>3 DEF EnteredAt
<1>7. \A v : Untouched(F, v)  BY <1>1 DEF Untouched
<1>8. CASE depth = 0
  <2>1. \A v : Known(G, Assigned, v) = {} /\ Known(F, Assigned, v) = {}
    BY <1>1, <1>8, NoneAtTheRoot DEF Known
  <2>2. ~ (depth > 0) /\ G.stage = "install"  BY <1>3, <1>6, <1>8
  <2>3. \A v \in Left : Good(args, MAP, Known(G, Assigned, v), v)
                            = Good(args, MAP, Known(F, Assigned, v), v)
    BY <2>1
  <2> QED  BY <1>1, <1>5, <1>7, <2>2, <2>3, StayCells
<1>9. CASE depth > 0
  <2>1. G.stage = "narrow" /\ F.pos \in Assigned
    BY <1>1, <1>3, <1>6, <1>9 DEF CellsRight, PosAssigned
  <2>2. \A v \in Left : Known(G, Assigned, v) = Assigned \ {F.pos}
    BY <1>2, <1>6, <2>1, NothingYet
  <2>3. \A v : Known(F, Assigned, v) = Assigned \ {F.pos}  BY <1>1 DEF Known, Settled
  <2> QED  BY <1>1, <1>5, <1>6, <1>7, <2>1, <2>2, <2>3, StayCells
<1> QED  BY <1>2, <1>8, <1>9

LEMMA PartialNarrowedCells ==
  ASSUME HInv, CellsRight, PartialNarrowed
  PROVE  CellsRight'
<1>1. /\ Active /\ F.stage \in { "narrow", "narrow2" } /\ status = "partial"
      /\ UNCHANGED << conditions, depth, MAP, args >>
      /\ ToNarrow(BIT_ARRAY_BUFFER[0]) = {}
  BY DEF PartialNarrowed, InPartial, Active
<1>2. F \in FrameType /\ ToNarrow(Buffer) = {} /\ F.pos \in Assigned
  <2>1. depth > 0  BY <1>1, LeftFacts, ActiveFacts
  <2> QED  BY <1>1, <2>1, ActiveFacts DEF Buffer, CellsRight, PosAssigned
<1>3. \A v : Untouched(F, v)  BY <1>1 DEF Untouched
<1>4. CASE SecondPass /\ F.stage = "narrow"
  <2>1. PICK G : G = [F EXCEPT !.at = -1, !.stage = "narrow2"]  OBVIOUS
  <2>2. stack' = Append(Front(stack), G)  BY <1>4, <2>1 DEF PartialNarrowed, Running
  <2>3. G.pos = F.pos /\ G.at = -1 /\ G.stage = "narrow2"
    <3>1. "narrow2" \in Stages /\ -1 \in Int  BY DEF Stages
    <3>2. MovedTo(G, F, "narrow2", -1)  BY <1>2, <2>1, <3>1, FrameMoved
    <3> QED  BY <3>2 DEF MovedTo
  <2>4. \A v \in Left : Known(G, Assigned, v) = Known(F, Assigned, v)
    BY <1>1, <1>2, <1>4, <2>3, OthersKnow
  <2> QED  BY <1>1, <1>2, <1>3, <2>2, <2>3, <2>4, StayCells
<1>5. CASE ~ (SecondPass /\ F.stage = "narrow")
  <2>1. PICK G : G = [F EXCEPT !.stage = "install"]  OBVIOUS
  <2>2. stack' = Append(Front(stack), G)  BY <1>5, <2>1 DEF PartialNarrowed, Running
  <2>3. G.stage = "install"  BY <1>2, <2>1, FrameStaged
  <2>4. \A v : Known(G, Assigned, v) = Assigned  BY <2>3 DEF Known, Settled
  <2>5. \A v \in Left : Good(args, MAP, Assigned, v) = Good(args, MAP, Known(F, Assigned, v), v)
    BY <1>1, <1>2, <1>5, LoopDone
  <2> QED  BY <1>1, <1>3, <2>2, <2>3, <2>4, <2>5, StayCells
<1> QED  BY <1>4, <1>5

LEMMA PartialDoneCells ==
  ASSUME HInv, CellsRight, PartialDone
  PROVE  CellsRight'
<1>1. /\ Active /\ F.stage = "enter" /\ status = "partial"
      /\ UNCHANGED << conditions, depth, MAP, args >>
  BY DEF PartialDone, InPartial, Active, globals
<1>2. PICK G : G = Frame(F.pos, F.rep_depth, F.has_trivial_stab, F.rank)  OBVIOUS
<1>3. stack' = Append(Front(stack), G)  BY <1>2 DEF PartialDone, Running
<1>4. G.pos = F.pos /\ G.stage = "enter"  BY <1>2 DEF Frame
<1>5. \A v : Known(G, Assigned, v) = Known(F, Assigned, v)  BY <1>1, <1>4 DEF Known, Settled
<1>6. \A v : Untouched(F, v)  BY <1>1 DEF Untouched
<1>7. depth > 0 /\ G.stage \in { "enter", "narrow", "narrow2" } => G.pos \in Assigned
  BY <1>1, <1>4 DEF CellsRight, PosAssigned
<1> QED  BY <1>1, <1>3, <1>4, <1>5, <1>6, <1>7, StayCells

(* The vertex that a loop narrows is settled by that, and no other.          *)
LEMMA OneSettled ==
  ASSUME HInv, Active, F.stage \in { "narrow", "narrow2" }, ToNarrow(Buffer) # {},
         NEW v, v = Min(ToNarrow(Buffer)),
         NEW G, G.stage = F.stage, G.pos = F.pos, G.at = v
  PROVE  /\ Known(G, Assigned, v) = Assigned
         /\ Known(F, Assigned, v) = Assigned \ {F.pos}
         /\ \A u \in Left : u # v => Known(G, Assigned, u) = Known(F, Assigned, u)
<1>1. /\ NarrowingOf(F, Pushed, Buffer) /\ SetBits(MAP_UNDEFINED[depth], n1) = Left
      /\ Left \subseteq Nat /\ F \in FrameType
  BY LeftFacts, ActiveFacts DEF HInv, ActiveRight, TopRight
<1>2. /\ v \in Left /\ v > F.at /\ v \in Nat /\ F.at \in Int
      /\ \A u \in ToNarrow(Buffer) : v <= u
      /\ Undirected(args) => v \in SetBits(Buffer, n1)
  BY <1>1, NextToNarrow DEF FrameType
<1>3. \A u \in Left : u \in Nat  BY <1>1
<1>4. CASE F.stage = "narrow" /\ Undirected(args)
  <2>1. SetBits(Buffer, n1) = Left \cap Neighbours1(F.pos)  BY <1>1, <1>4 DEF NarrowingOf
  <2>2. \A u \in Left \cap Neighbours1(F.pos) : u > F.at => v <= u
    BY <1>2, <1>4, <2>1 DEF ToNarrow, Above
  <2>3. \A u \in Left : u # v => (Settled(G, u) <=> Settled(F, u))
    BY <1>2, <1>3, <1>4, <2>2 DEF Settled
  <2>4. Settled(G, v) /\ ~ Settled(F, v)  BY <1>2, <1>4, <2>1 DEF Settled
  <2> QED  BY <2>3, <2>4 DEF Known
<1>5. CASE F.stage = "narrow" /\ ~ Undirected(args)
  <2>1. \A u \in Left : u > F.at => v <= u
    BY <1>1, <1>2, <1>5 DEF ToNarrow, Above
  <2>2. \A u \in Left : u # v => (Settled(G, u) <=> Settled(F, u))
    BY <1>2, <1>3, <1>5, <2>1 DEF Settled
  <2>3. Settled(G, v) /\ ~ Settled(F, v)  BY <1>2, <1>5 DEF Settled
  <2> QED  BY <2>2, <2>3 DEF Known
<1>6. CASE F.stage = "narrow2"
  <2>1. /\ SetBits(Buffer, n1) = Left \ Neighbours1(F.pos)
        /\ Undirected(args)
    BY <1>1, <1>6 DEF NarrowingOf, SecondPass
  <2>2. \A u \in Left \ Neighbours1(F.pos) : u > F.at => v <= u
    BY <1>2, <2>1 DEF ToNarrow, Above
  <2>3. \A u \in Left : u # v => (Settled(G, u) <=> Settled(F, u))
    BY <1>2, <1>3, <1>6, <2>2 DEF Settled
  <2>4. Settled(G, v) /\ ~ Settled(F, v)  BY <1>2, <1>6, <2>1 DEF Settled
  <2> QED  BY <2>3, <2>4 DEF Known
<1> QED  BY <1>4, <1>5, <1>6

(* What a push leaves in the cells of the depths up to this one.             *)
LEMMA PushedCells ==
  ASSUME CP!IInv, HInv, Active, depth \in 1 .. n1 - 1, NEW v \in V1, v \notin Pushed,
         NEW b, conditions' = PushedWith(conditions, depth, v, b),
         UNCHANGED << depth, open >>
  PROVE  /\ \A u \in V1, d \in 0 .. depth : u # v \/ d # depth =>
              CP!CellAt(u, d)' = CP!CellAt(u, d) /\ CP!SizeAt(u, d)' = CP!SizeAt(u, d)
         /\ \A e : e = depth =>
              /\ SetBits(CP!CellAt(v, e)', n2) = SetBits(CP!CellAt(v, e), n2) \cap b
              /\ CP!SizeAt(v, e)' = size_bit_array(CP!CellAt(v, e)', n2)
<1>1. open = TRUE /\ conditions.nr1 = n1 /\ conditions.nr2 = n2
  BY DEF HInv, ActiveRight, ArgsRight
<1>2. CP!Columns(conditions) = V1  BY ActiveFacts, Copies
<1>3. v \notin CP!Row(conditions, depth)  BY Copies DEF Pushed
<1>4. conditions' =
        CP!store_size_conditions(CP!push_conditions(conditions, depth, v, b), v)
  BY Copies DEF PushedWith
<1>5. CP!Push(v, b)  BY <1>1, <1>3, <1>4 DEF CP!Push
<1>6. PICK cell : cell = CP!intersect_bit_arrays(CP!get_conditions(conditions, v), b, n2)
  OBVIOUS
<1>7. ASSUME NEW u \in V1, NEW d \in 0 .. depth
      PROVE  /\ CP!CellAt(u, d)' = IF u = v /\ d = depth THEN cell ELSE CP!CellAt(u, d)
             /\ CP!SizeAt(u, d)' = IF u = v /\ d = depth THEN CP!size_bit_array(cell, n2)
                                   ELSE CP!SizeAt(u, d)
  BY <1>1, <1>2, <1>5, <1>6, InstanceAssumptions, CP!PushCells
<1>8. depth \in 0 .. depth /\ depth \in Nat /\ n2 \in Nat  BY ActiveFacts
<1>9. CP!CellAt(v, depth) = CP!get_conditions(conditions, v)
  BY <1>1, <1>2, <1>8, InstanceAssumptions, CP!TopCell
<1>10. SetBits(cell, n2) = SetBits(CP!CellAt(v, depth), n2) \cap b
  <2>1. cell = intersect_bit_arrays(CP!CellAt(v, depth), b, n2)  BY <1>6, <1>9, CellCopies
  <2> QED  BY <1>8, <2>1, BitsMeant
<1>11. CP!size_bit_array(cell, n2) = size_bit_array(cell, n2)  BY CellCopies
<1>12. ASSUME NEW e, e = depth
       PROVE  /\ SetBits(CP!CellAt(v, e)', n2) = SetBits(CP!CellAt(v, e), n2) \cap b
              /\ CP!SizeAt(v, e)' = size_bit_array(CP!CellAt(v, e)', n2)
  <2>1. /\ CP!CellAt(v, e)' = cell /\ CP!SizeAt(v, e)' = CP!size_bit_array(cell, n2)
    BY <1>7, <1>8, <1>12
  <2> QED  BY <1>10, <1>11, <1>12, <2>1
<1> QED  BY <1>7, <1>12

(* One vertex is narrowed.                                                   *)
LEMMA NarrowCells ==
  ASSUME CP!IInv, HInv, Active, CellsRight, F.stage \in { "narrow", "narrow2" },
         ToNarrow(Buffer) # {}, NEW v, v = Min(ToNarrow(Buffer)),
         conditions' = PartialUpdate(v), UNCHANGED << depth, open, MAP, args >>,
         NEW G, stack' = Append(Front(stack), G),
         \/ G.stage = "leave"
         \/ G.stage = F.stage /\ G.pos = F.pos /\ G.at = v
  PROVE  CellsRight'
<1>1. /\ v \in Left /\ v \notin Pushed /\ Left \subseteq V1 /\ depth \in 1 .. n1 - 1
      /\ depth \in Nat /\ n2 \in Nat /\ V2 = 0 .. n2 - 1
  BY NextToNarrow, LeftFacts, ActiveFacts DEF V2
<1>2. F.pos \in Assigned  BY <1>1 DEF CellsRight, PosAssigned
<1>3. G.stage # "leave" =>
        /\ Known(G, Assigned, v) = Assigned
        /\ Known(F, Assigned, v) = Assigned \ {F.pos}
        /\ \A u \in Left : u # v => Known(G, Assigned, u) = Known(F, Assigned, u)
  BY OneSettled
<1>4. F.stage # "leave" /\ \A u : Untouched(F, u)  BY DEF Untouched
<1>5. G.stage \in { "enter", "narrow", "narrow2" } => G.pos \in Assigned  BY <1>2
<1>6. CASE PartialUpdate(v) = conditions /\ \A w \in V2 : Fits(args, MAP, F.pos, v, w)
  <2>1. Good(args, MAP, Assigned, v) = Good(args, MAP, Assigned \ {F.pos}, v)
    BY <1>2, <1>6, GoodAnyway
  <2>2. ASSUME NEW u \in Left, G.stage # "leave"
        PROVE  Good(args, MAP, Known(G, Assigned, u), u) = Good(args, MAP, Known(F, Assigned, u), u)
    BY <1>3, <2>1, <2>2
  <2>3. UNCHANGED conditions  BY <1>6
  <2> QED  BY <1>4, <1>5, <2>2, <2>3, StayCells
<1>7. CASE \E b \in SUBSET Bits :
             /\ PartialUpdate(v) = PushedWith(conditions, depth, v, b)
             /\ \A w \in V2 : w \in b <=> Fits(args, MAP, F.pos, v, w)
  <2>1. PICK b : /\ conditions' = PushedWith(conditions, depth, v, b)
                 /\ \A w \in V2 : w \in b <=> Fits(args, MAP, F.pos, v, w)
    BY <1>7
  <2>2. PICK e : e = depth  OBVIOUS
  <2>3. /\ \A u \in V1, d \in 0 .. depth : u # v \/ d # depth =>
             CP!CellAt(u, d)' = CP!CellAt(u, d) /\ CP!SizeAt(u, d)' = CP!SizeAt(u, d)
        /\ SetBits(CP!CellAt(v, e)', n2) = SetBits(CP!CellAt(v, e), n2) \cap b
        /\ CP!SizeAt(v, e)' = size_bit_array(CP!CellAt(v, e)', n2)
    BY <1>1, <2>1, <2>2, PushedCells
  <2>4. \A u \in V1, d \in 0 .. depth - 1 :
          CP!CellAt(u, d)' = CP!CellAt(u, d) /\ CP!SizeAt(u, d)' = CP!SizeAt(u, d)
    <3>1. \A d \in 0 .. depth - 1 : d \in 0 .. depth /\ d # depth  BY <1>1
    <3> QED  BY <2>3, <3>1
  <2>5. ASSUME NEW u \in Left, G.stage # "leave"
        PROVE  CellRight(args, MAP, CP!CellAt(u, e)', CP!SizeAt(u, e)', u, Known(G, Assigned, u))
    <3>1. CellRight(args, MAP, CP!CellAt(u, e), CP!SizeAt(u, e), u, Known(F, Assigned, u))
      BY <1>4, <2>2, ColumnsNow
    <3>2. CASE u # v
      <4>1. u \in V1 /\ e \in 0 .. depth  BY <1>1, <2>2
      <4>2. CP!CellAt(u, e)' = CP!CellAt(u, e) /\ CP!SizeAt(u, e)' = CP!SizeAt(u, e)
        BY <2>3, <3>2, <4>1
      <4> QED  BY <1>3, <2>5, <3>1, <3>2, <4>2
    <3>3. CASE u = v
      <4>1. SetBits(CP!CellAt(v, e), n2) = Good(args, MAP, Assigned \ {F.pos}, v)
        BY <1>3, <2>5, <3>1, <3>3 DEF CellRight, n2
      <4>2. Good(args, MAP, Assigned \ {F.pos}, v) \subseteq V2
        BY <1>1, GoodValues DEF n2
      <4>3. SetBits(CP!CellAt(v, e)', n2)
              = { w \in Good(args, MAP, Assigned \ {F.pos}, v) : Fits(args, MAP, F.pos, v, w) }
        BY <2>1, <2>3, <4>1, <4>2
      <4>4. SetBits(CP!CellAt(v, e)', n2) = Good(args, MAP, Assigned, v)
        BY <1>2, <4>3, GoodNarrowed
      <4> QED  BY <1>3, <2>3, <2>5, <3>3, <4>4 DEF CellRight, n2
    <3> QED  BY <3>2, <3>3
  <2> QED  BY <1>5, <2>2, <2>4, <2>5, StayColumns
<1> QED  BY <1>6, <1>7, UpdateFits

LEMMA NarrowToCells ==
  ASSUME CP!IInv, HInv, CellsRight, NEW v, NarrowTo(PartialUpdate(v), v)
  PROVE  CellsRight'
<1>1. /\ status = "search" /\ Active /\ F.stage \in { "narrow", "narrow2" }
      /\ conditions' = PartialUpdate(v)
      /\ UNCHANGED << depth, open, MAP, args >>
  BY DEF NarrowTo, InSearch, Active, globals
<1>2. ToNarrow(Buffer) # {} /\ v = Min(ToNarrow(Buffer))
  BY <1>1 DEF NarrowTo, Buffer
<1>3. F \in FrameType /\ v \in Nat  BY <1>1, <1>2, ActiveFacts, NextToNarrow
<1>4. PICK n : n = size_conditions(PartialUpdate(v), v)  OBVIOUS
<1>5. PICK g : g = STORE_MIN(F, n, v)  OBVIOUS
<1>6. PICK G : G = IF n = 0 THEN [F EXCEPT !.stage = "leave"] ELSE [g EXCEPT !.at = v]
  OBVIOUS
<1>7. stack' = Append(Front(stack), G)  BY <1>4, <1>5, <1>6 DEF NarrowTo, Running
<1>8. G.stage = "leave" \/ (G.stage = F.stage /\ G.pos = F.pos /\ G.at = v)
  <2>1. CASE n = 0
    <3>1. G = [F EXCEPT !.stage = "leave"]  BY <1>6, <2>1
    <3>2. PICK s : s = "leave"  OBVIOUS
    <3>3. G = [F EXCEPT !.stage = s]  BY <3>1, <3>2
    <3>4. F \in FrameType  BY <1>3
    <3>5. G.stage = s  BY <3>3, <3>4, FrameStaged
    <3> QED  BY <3>2, <3>5
  <2>2. CASE n # 0
    <3>1. G = [g EXCEPT !.at = v]  BY <1>6, <2>2
    <3>2. g = F \/ g = [F EXCEPT !.min = n, !.next = v]  BY <1>5 DEF STORE_MIN
    <3> QED  BY <1>3, <3>1, <3>2 DEF FrameType
  <2> QED  BY <2>1, <2>2
<1> QED  BY <1>1, <1>2, <1>7, <1>8, NarrowCells

LEMMA PartialNarrowCells ==
  ASSUME CP!IInv, HInv, CellsRight, PartialNarrow
  PROVE  CellsRight'
<1>1. CASE status' = "ended"  BY <1>1 DEF CellsRight, Active
<1>2. CASE status' # "ended"
  <2>1. PICK v : v = Min(ToNarrow(BIT_ARRAY_BUFFER[0]))  OBVIOUS
  <2>2. /\ status = "partial" /\ Active /\ F.stage \in { "narrow", "narrow2" }
        /\ ToNarrow(BIT_ARRAY_BUFFER[0]) # {}
        /\ conditions' = PartialUpdate(v)
        /\ UNCHANGED << depth, open, MAP, args >>
        /\ Running([F EXCEPT !.at = v])
    BY <1>2, <2>1 DEF PartialNarrow, InPartial, Active, globals
  <2>3. ToNarrow(Buffer) # {} /\ v = Min(ToNarrow(Buffer))  BY <2>1, <2>2 DEF Buffer
  <2>4. F \in FrameType  BY <2>2, ActiveFacts
  <2>5. PICK G : G = [F EXCEPT !.at = v]  OBVIOUS
  <2>6. stack' = Append(Front(stack), G)  BY <2>2, <2>5 DEF Running
  <2>7. G.stage = F.stage /\ G.pos = F.pos /\ G.at = v  BY <2>4, <2>5 DEF FrameType
  <2> QED  BY <2>2, <2>3, <2>6, <2>7, NarrowCells
<1> QED  BY <1>1, <1>2

(* find_digraph_embeddings cuts down the cell of the vertex it picks.        *)
LEMMA PickInPlaceCells ==
  ASSUME CP!IInv, HInv, CellsRight, PickInPlace, InPlace
  PROVE  CellsRight'
<1>1. /\ Active /\ status = "search" /\ F.stage = "pick"
      /\ UNCHANGED << depth, open, MAP, args >>
      /\ Running([Chosen EXCEPT !.stage = "new"])
  BY DEF PickInPlace, InSearch, Active, globals
<1>2. /\ open = TRUE /\ conditions.nr1 = n1
      /\ depth \in Nat /\ n1 \in Nat /\ Columns(conditions) = V1 /\ depth < n1
  BY <1>1, ActiveFacts DEF HInv, ActiveRight, ArgsRight, FramesRight
<1>3. PICK v, b : v = Chosen.next /\ b = REPS[F.rep_depth] \cap (Bits \ VALS)  OBVIOUS
<1>4. v \in Left /\ v \in V1 /\ Chosen \in FrameType
  BY <1>1, <1>3, ChosenRight DEF Left
<1>5. v \in Row(conditions, depth)
  <2>1. CASE depth = 0  BY <1>2, <1>4, <2>1, ObjectFacts
  <2>2. CASE depth # 0
    <3>1. PickOf(F, Pushed)  BY <1>1 DEF HInv, ActiveRight, TopRight
    <3>2. depth > 0  BY <1>2, <2>2
    <3>3. Left \subseteq Pushed  BY <1>1, <3>1, <3>2 DEF PickOf
    <3> QED  BY <1>4, <3>3 DEF Pushed
  <2> QED  BY <2>1, <2>2
<1>6. conditions' = IntersectTop(conditions, v, b)
  BY <1>1, <1>3, <1>4, InPlaceMask DEF PickInPlace
<1>7. CP!NarrowInPlace(v, b) /\ v \in CP!Columns(conditions) /\ CP!Columns(conditions) = V1
  BY <1>1, <1>2, <1>4, <1>5, <1>6, Copies DEF CP!NarrowInPlace
<1>8. \A u \in V1, d \in 0 .. depth : u # v \/ d # depth =>
        CP!CellAt(u, d)' = CP!CellAt(u, d) /\ CP!SizeAt(u, d)' = CP!SizeAt(u, d)
  BY <1>7, InstanceAssumptions, CP!NarrowInPlaceCells
<1>9. \A u \in V1, d \in 0 .. depth - 1 :
        CP!CellAt(u, d)' = CP!CellAt(u, d) /\ CP!SizeAt(u, d)' = CP!SizeAt(u, d)
  <2>1. \A d \in 0 .. depth - 1 : d \in 0 .. depth /\ d # depth  BY <1>2
  <2> QED  BY <1>8, <2>1
<1>10. PICK G : G = [Chosen EXCEPT !.stage = "new"]  OBVIOUS
<1>11. stack' = Append(Front(stack), G)  BY <1>1, <1>10 DEF Running
<1>12. G.stage = "new" /\ G.next = v  BY <1>3, <1>4, <1>10, FrameStaged
<1>13. PICK e : e = depth  OBVIOUS
<1>14. ASSUME NEW u \in Left, Untouched(G, u)
       PROVE  CellRight(args, MAP, CP!CellAt(u, e)', CP!SizeAt(u, e)', u, Known(G, Assigned, u))
  <2>1. u # v /\ u \in V1 /\ e \in 0 .. depth
    BY <1>2, <1>12, <1>13, <1>14 DEF Untouched, Left
  <2>2. CellRight(args, MAP, CP!CellAt(u, e), CP!SizeAt(u, e), u, Known(F, Assigned, u))
    BY <1>1, <1>13, ColumnsNow DEF Untouched
  <2>3. Known(G, Assigned, u) = Assigned /\ Known(F, Assigned, u) = Assigned
    BY <1>1, <1>12 DEF Known, Settled
  <2>4. CP!CellAt(u, e)' = CP!CellAt(u, e) /\ CP!SizeAt(u, e)' = CP!SizeAt(u, e)
    BY <1>8, <2>1
  <2> QED  BY <2>2, <2>3, <2>4
<1> QED  BY <1>1, <1>9, <1>11, <1>12, <1>13, <1>14, StayColumns

(* A call opens a depth whose cells are those of its caller.                 *)
LEMMA OpenedCells ==
  ASSUME CP!IInv, HInv, Active, depth < n1, depth' = depth + 1, UNCHANGED << conditions, open >>
  PROVE  /\ \A u \in V1, d \in 0 .. depth :
              CP!CellAt(u, d)' = CP!CellAt(u, d) /\ CP!SizeAt(u, d)' = CP!SizeAt(u, d)
         /\ \A e : \A u \in V1 : e = depth + 1 =>
              /\ CP!CellAt(u, e)' = CP!CellAt(u, depth)
              /\ CP!SizeAt(u, e)' = CP!SizeAt(u, depth)
<1>1. open = TRUE /\ conditions.nr1 = n1 /\ depth \in Nat
  BY ActiveFacts DEF HInv, ActiveRight, ArgsRight
<1>2. CP!Columns(conditions) = V1  BY ActiveFacts, Copies
<1>3. CP!Descend  BY <1>1 DEF CP!Descend
<1>4. \A u \in V1, d \in 0 .. depth + 1 :
        CP!CellAt(u, d)' = CP!CellAt(u, d) /\ CP!SizeAt(u, d)' = CP!SizeAt(u, d)
  BY <1>2, <1>3, InstanceAssumptions, CP!DescendCells
<1>5. \A u \in V1, d \in Nat : d >= depth =>
        /\ CP!CellAt(u, d) = CP!get_conditions(conditions, u)
        /\ CP!SizeAt(u, d) = CP!size_conditions(conditions, u)
  BY <1>1, <1>2, InstanceAssumptions, CP!TopCell
<1>6. /\ \A d \in 0 .. depth : d \in 0 .. depth + 1
      /\ depth + 1 \in 0 .. depth + 1 /\ depth + 1 \in Nat /\ depth + 1 >= depth
      /\ depth >= depth
  BY <1>1
<1>7. \A e : \A u \in V1 : e = depth + 1 =>
        /\ CP!CellAt(u, e)' = CP!CellAt(u, depth)
        /\ CP!SizeAt(u, e)' = CP!SizeAt(u, depth)
  BY <1>1, <1>4, <1>5, <1>6
<1> QED  BY <1>4, <1>6, <1>7

LEMMA CallCells ==
  ASSUME CP!IInv, HInv, CellsRight, status = "search", depth < n1,
         F.stage \in { "new", "old" }, NEW G, NEW H, NEW w \in V2, CallStep(G, H, F.next, w)
  PROVE  CellsRight'
<1>0. Active  BY DEF Active
<1>1. PICK h, e, A : h = Height /\ e = depth + 1 /\ A = Assigned  OBVIOUS
<1>2. /\ h \in Nat \ {0} /\ F = stack[h] /\ FrameDepth(h) = depth /\ AssignedAt(h) = A
      /\ h \in 1 .. h /\ depth \in Nat
      /\ \A k \in 1 .. h : FrameDepth(k) \in 0 .. depth
      /\ \A k \in 1 .. h : k = h \/ k \in 1 .. h - 1
      /\ \A k \in 1 .. h + 1 : k = h + 1 \/ k \in 1 .. h
  BY <1>0, <1>1, ActiveFacts
<1>3. F.next \in Left /\ SetBits(MAP_UNDEFINED[depth], n1) = Left
  BY <1>0, LeftFacts DEF HInv, ActiveRight, TopRight, TriesOf
<1>4. /\ MAP' = [MAP EXCEPT ![F.next] = w] /\ VALS' = set_bit_array(VALS, w, TRUE)
      /\ MAP_UNDEFINED' = [MAP_UNDEFINED EXCEPT ![depth] = set_bit_array(@, F.next, FALSE)]
      /\ depth' = depth + 1 /\ UNCHANGED << conditions, open, args >>
      /\ G.stage = F.stage /\ G.next = F.next /\ H.pos = F.next /\ H.stage = "enter"
  BY DEF CallStep
<1>5. /\ V1' = V1 /\ Assigned' = A \cup {F.next} /\ \A u \in A : MAP'[u] = MAP[u]
  BY <1>0, <1>1, <1>3, <1>4, AssignEffect
<1>6. /\ Height' = h + 1 /\ F' = H /\ stack'[h + 1] = H /\ stack'[h] = G
      /\ \A k \in 1 .. h - 1 : stack'[k] = stack[k]
      /\ InPlace' = InPlace
      /\ \A k \in 1 .. h : AssignedAt(k)' = AssignedAt(k) /\ FrameDepth(k)' = FrameDepth(k)
      /\ AssignedAt(Height)' = Assigned' /\ FrameDepth(Height)' = e
  BY <1>1, CallFrames
<1>7. /\ \A u \in V1, d \in 0 .. depth :
           CP!CellAt(u, d)' = CP!CellAt(u, d) /\ CP!SizeAt(u, d)' = CP!SizeAt(u, d)
      /\ \A u \in V1 : /\ CP!CellAt(u, e)' = CP!CellAt(u, depth)
                       /\ CP!SizeAt(u, e)' = CP!SizeAt(u, depth)
  BY <1>0, <1>1, <1>4, OpenedCells
<1>8. ASSUME NEW k \in 1 .. h  PROVE ColumnsRight(k)'
  <2>1. PICK d : d = FrameDepth(k)  OBVIOUS
  <2>2. d \in 0 .. depth /\ FrameDepth(k)' = d /\ AssignedAt(k)' = AssignedAt(k)
    BY <1>2, <1>6, <2>1
  <2>3. /\ stack[k].stage \in { "new", "old" }
        /\ stack'[k].stage = stack[k].stage /\ stack'[k].next = stack[k].next
    <3>1. CASE k = h  BY <1>2, <1>4, <1>6, <3>1
    <3>2. CASE k \in 1 .. h - 1
      BY <1>0, <1>1, <1>6, <3>2 DEF HInv, ActiveRight, CallsRight, CallerRight
    <3> QED  BY <1>2, <3>1, <3>2
  <2>4. \A u \in AssignedAt(k) : MAP'[u] = MAP[u]  BY <1>1, <1>5 DEF AssignedAt
  <2>5. ColumnsRight(k)  BY <1>0, <1>1 DEF CellsRight
  <2> QED  BY <1>4, <1>5, <1>6, <1>7, <2>1, <2>2, <2>3, <2>4, <2>5, ColumnsKept
<1>9. ASSUME NEW u \in V1 \ (A \cup {F.next})
      PROVE  ColumnRight(u, e, A)'
  <2>1. u \in Left /\ u # F.next /\ u \in V1  BY <1>1, <1>9 DEF Left
  <2>2. CellRight(args, MAP, CP!CellAt(u, depth), CP!SizeAt(u, depth), u, Known(F, A, u))
    BY <1>0, <1>1, <2>1, ColumnsNow DEF Untouched
  <2>3. Known(F, A, u) = A  BY DEF Known, Settled
  <2>4. Good(args, MAP', A, u) = Good(args, MAP, A, u)  BY <1>5, GoodKept
  <2> QED  BY <1>4, <1>7, <2>1, <2>2, <2>3, <2>4 DEF ColumnRight, CellRight
<1>10. ColumnsRight(Height)'
  <2> SUFFICES ASSUME NEW v \in (V1 \ AssignedAt(Height))', stack'[Height'].stage # "leave",
                      Untouched(stack[Height], v)'
               PROVE  ColumnRight(v, FrameDepth(Height),
                                  Known(stack[Height], AssignedAt(Height), v))'
    BY DEF ColumnsRight
  <2>1. v \in V1 \ (A \cup {F.next}) /\ stack'[Height'] = H  BY <1>5, <1>6
  <2>2. Known(stack[Height], AssignedAt(Height), v)' = A
    <3>1. (A \cup {F.next}) \ {F.next} = A  BY <1>1, <1>3 DEF Left
    <3> QED  BY <1>4, <1>5, <1>6, <2>1, <3>1 DEF Known, Settled
  <2>3. ColumnRight(v, e, A)'  BY <1>9, <2>1
  <2> QED  BY <1>6, <2>2, <2>3 DEF ColumnRight, CP!CellAt, CP!SizeAt, CP!LevelAt
<1>11. \A k \in 1 .. Height' : ColumnsRight(k)'
  <2>1. ASSUME NEW k \in 1 .. Height'  PROVE ColumnsRight(k)'
    <3>1. CASE k \in 1 .. h  BY <1>8, <3>1
    <3>2. CASE k = h + 1
      <4>1. k = Height'  BY <1>6, <3>2
      <4> QED  BY <1>10, <4>1 DEF ColumnsRight, FrameDepth, AssignedAt, Tried, ColumnRight
    <3> QED  BY <1>2, <1>6, <3>1, <3>2
  <2> QED  BY <2>1
<1>12. PosAssigned'  BY <1>4, <1>5, <1>6 DEF PosAssigned
<1> QED  BY <1>11, <1>12 DEF CellsRight

LEMMA NewCells ==
  ASSUME CP!IInv, HInv, CellsRight, NEW possible, possible = ToChoose(Height), TryNew(possible)
  PROVE  CellsRight'
<1>1. status = "search" /\ F.stage = "new" /\ Active  BY DEF TryNew, InSearch, Active
<1>2. depth < n1  BY <1>1 DEF HInv, ActiveRight, FramesRight
<1>3. PICK w, G, H : w \in V2 /\ CallStep(G, H, F.next, w)  BY NewIsCalled
<1> QED  BY <1>1, <1>2, <1>3, CallCells

LEMMA OldCells ==
  ASSUME CP!IInv, HInv, CellsRight, TryOld, ~ InPlace
  PROVE  CellsRight'
<1>1. status = "search" /\ F.stage = "old" /\ Active  BY DEF TryOld, InSearch, Active
<1>2. depth < n1  BY <1>1 DEF HInv, ActiveRight, FramesRight
<1>3. PICK w, G, H : w \in V2 /\ CallStep(G, H, F.next, w)  BY OldIsCalled
<1> QED  BY <1>1, <1>2, <1>3, CallCells

(* A return pops what the call pushed: the cells of its callers are on top.  *)
LEMMA LeaveCells ==
  ASSUME CP!IInv, HInv, CellsRight, status = "search", Leave
  PROVE  CellsRight'
<1>0. Active  BY DEF Active
<1>1. CASE Height = 1
  <2>1. ~ Active'  BY <1>1 DEF Leave, Height, Active
  <2> QED  BY <2>1 DEF CellsRight
<1>2. CASE Height # 1
  <2>1. PICK h : h = Height - 1  OBVIOUS
  <2>2. PICK v : v = stack[h].next  OBVIOUS
  <2>3. /\ h \in 1 .. Height - 1 /\ depth > 0 /\ V1' = V1 /\ InPlace' = InPlace
        /\ \A u \in Assigned : u # v => MAP'[u] = MAP[u]
    BY <1>2, <2>1, <2>2, LeaveEffect
  <2>4. /\ Height' = h /\ F' = stack[h]
        /\ \A k \in 1 .. h : stack'[k] = stack[k]
        /\ \A k \in 1 .. h : AssignedAt(k)' = AssignedAt(k) /\ FrameDepth(k)' = FrameDepth(k)
        /\ \A k \in 1 .. h : v \notin AssignedAt(k)
    BY <1>2, <2>1, <2>2, LeaveFrames
  <2>5. /\ \A k \in 1 .. h : k \in 1 .. Height /\ k \in 1 .. Height - 1
        /\ \A k \in 1 .. h : FrameDepth(k) \in 0 .. depth - 1
        /\ \A k \in 1 .. h : stack[k].stage \in { "new", "old" }
    <3>1. Height \in Nat \ {0} /\ h \in Nat  BY <1>0, <2>1, ActiveFacts
    <3>2. \A k \in 1 .. h : k \in 1 .. Height /\ k \in 1 .. Height - 1  BY <2>1, <3>1
    <3> QED  BY <1>0, <3>2, ActiveFacts DEF HInv, ActiveRight, CallsRight, CallerRight
  <2>6. args' = args  BY DEF Leave
  <2>7. \A u \in V1, d \in 0 .. depth - 1 :
          CP!CellAt(u, d)' = CP!CellAt(u, d) /\ CP!SizeAt(u, d)' = CP!SizeAt(u, d)
    <3>1. open = TRUE /\ conditions.nr1 = n1  BY <1>0 DEF HInv, ActiveRight, ArgsRight
    <3>2. CP!pop_conditions(conditions, depth) = pop_conditions(conditions, depth)  BY Copies
    <3>3. open' = open /\ depth' = depth - 1  BY <2>3, <3>1 DEF Leave
    <3>4. conditions' = IF depth < conditions.nr1
                        THEN CP!pop_conditions(conditions, depth) ELSE conditions
      BY <3>1, <3>2 DEF Leave
    <3>5. CP!Return  BY <2>3, <3>1, <3>3, <3>4 DEF CP!Return
    <3>6. CP!Columns(conditions) = V1  BY <1>0, ActiveFacts, Copies
    <3> QED  BY <3>5, <3>6, InstanceAssumptions, CP!ReturnCells
  <2>8. ASSUME NEW k \in 1 .. h  PROVE ColumnsRight(k)'
    <3>1. PICK d : d = FrameDepth(k)  OBVIOUS
    <3>2. d \in 0 .. depth - 1 /\ FrameDepth(k)' = d /\ AssignedAt(k)' = AssignedAt(k)
      BY <2>4, <2>5, <3>1
    <3>3. stack[k].stage \in { "new", "old" } /\ stack'[k] = stack[k]  BY <2>4, <2>5
    <3>4. \A u \in AssignedAt(k) : MAP'[u] = MAP[u]  BY <2>3, <2>4 DEF AssignedAt
    <3>5. ColumnsRight(k)  BY <1>0, <2>5 DEF CellsRight
    <3> QED  BY <2>3, <2>6, <2>7, <3>1, <3>2, <3>3, <3>4, <3>5, ColumnsKept
  <2>9. PosAssigned'
    <3>1. h \in 1 .. h  BY <2>3
    <3>2. F'.stage \in { "new", "old" }  BY <2>4, <2>5, <3>1
    <3> QED  BY <3>2 DEF PosAssigned
  <2> QED  BY <2>4, <2>8, <2>9 DEF CellsRight
<1> QED  BY <1>1, <1>2

(* So does the call that an entry of the partial map stands for.             *)
LEMMA InstallCells ==
  ASSUME CP!IInv, HInv, CellsRight, PartialInstall
  PROVE  CellsRight'
<1> DEFINE w    == args.partial_map[F.next]
           rank == IF w \in VALS THEN F.rank ELSE F.rank + 1
<1>0. status = "partial" /\ F.stage = "install" /\ Active
  BY DEF PartialInstall, InPartial, Active
<1>1. CASE rank > F.rank /\ rank > args.hint
  <2>1. status' = "ended"  BY <1>1 DEF PartialInstall
  <2> QED  BY <2>1 DEF CellsRight, Active
<1>2. CASE ~ (rank > F.rank /\ rank > args.hint)
  <2>1. w = args.partial_map[F.next] /\ rank = IF w \in VALS THEN F.rank ELSE F.rank + 1
    OBVIOUS
  <2> HIDE DEF w, rank
  <2>2. PICK G, v : Installs(G, v, w)  BY <1>2, <2>1, EntryIsInstalled
  <2>3. v \in Left /\ w \in V2  BY <1>0, <2>2, EntryInstalled DEF Installs, Entry
  <2>4. /\ G \in FrameType /\ stack' = Append(Front(stack), G) /\ depth' = depth + 1
        /\ G.pos = v /\ G.stage = "enter"
        /\ MAP' = [MAP EXCEPT ![v] = w]
        /\ VALS' = set_bit_array(VALS, w, TRUE)
        /\ MAP_UNDEFINED' = [MAP_UNDEFINED EXCEPT ![depth] = set_bit_array(@, v, FALSE)]
        /\ UNCHANGED << conditions, open, args >>
    BY <2>2 DEF Installs, InstalledAt
  <2>5. /\ depth < n1 /\ SetBits(MAP_UNDEFINED[depth], n1) = Left
    BY <1>0 DEF HInv, ActiveRight, FramesRight, MapRight, Left
  <2>6. PICK e, A : e = depth + 1 /\ A = Assigned  OBVIOUS
  <2>7. V1' = V1 /\ Assigned' = A \cup {v} /\ \A u \in A : MAP'[u] = MAP[u]
    BY <1>0, <2>3, <2>4, <2>5, <2>6, AssignEffect
  <2>8. /\ Height' = 1 /\ F' = G /\ stack'[Height'] = G
        /\ AssignedAt(Height)' = Assigned' /\ FrameDepth(Height)' = e
    BY <1>0, <2>4, <2>6, InstallFrames
  <2>9. \A u \in V1 : /\ CP!CellAt(u, e)' = CP!CellAt(u, depth)
                      /\ CP!SizeAt(u, e)' = CP!SizeAt(u, depth)
    BY <1>0, <2>4, <2>5, <2>6, OpenedCells
  <2>10. ASSUME NEW u \in V1 \ (A \cup {v})
         PROVE  ColumnRight(u, e, A)'
    <3>1. u \in Left /\ u \in V1  BY <2>6, <2>10 DEF Left
    <3>2. CellRight(args, MAP, CP!CellAt(u, depth), CP!SizeAt(u, depth), u, Known(F, A, u))
      BY <1>0, <2>6, <3>1, ColumnsNow DEF Untouched
    <3>3. Known(F, A, u) = A  BY <1>0 DEF Known, Settled
    <3>4. Good(args, MAP', A, u) = Good(args, MAP, A, u)  BY <2>7, GoodKept
    <3> QED  BY <2>4, <2>9, <3>1, <3>2, <3>3, <3>4 DEF ColumnRight, CellRight
  <2>11. ColumnsRight(Height)'
    <3> SUFFICES ASSUME NEW u \in (V1 \ AssignedAt(Height))', stack'[Height'].stage # "leave",
                        Untouched(stack[Height], u)'
                 PROVE  ColumnRight(u, FrameDepth(Height),
                                    Known(stack[Height], AssignedAt(Height), u))'
      BY DEF ColumnsRight
    <3>1. u \in V1 \ (A \cup {v})  BY <2>7, <2>8
    <3>2. Known(stack[Height], AssignedAt(Height), u)' = A
      <4>1. (A \cup {v}) \ {v} = A  BY <2>3, <2>6 DEF Left
      <4> QED  BY <2>4, <2>7, <2>8, <4>1 DEF Known, Settled
    <3>3. ColumnRight(u, e, A)'  BY <2>10, <3>1
    <3> QED  BY <2>8, <3>2, <3>3 DEF ColumnRight, CP!CellAt, CP!SizeAt, CP!LevelAt
  <2>12. \A k \in 1 .. Height' : ColumnsRight(k)'
    <3>1. ASSUME NEW k \in 1 .. Height'  PROVE ColumnsRight(k)'
      <4>1. k = Height'  BY <2>8
      <4> QED  BY <2>11, <4>1 DEF ColumnsRight, FrameDepth, AssignedAt, Tried, ColumnRight
    <3> QED  BY <3>1
  <2>13. PosAssigned'  BY <2>4, <2>7, <2>8 DEF PosAssigned
  <2> QED  BY <2>12, <2>13 DEF CellsRight
<1> QED  BY <1>1, <1>2

(* The bottom row that a call of the finder leaves for its search.           *)
LEMMA BottomCells ==
  ASSUME CP!IInv, NEW a \in Arguments,
         NEW c, c = StartWith(conditions, a.digraph1.n, a.digraph2.n, BaseRow(a)),
         NEW v \in 0 .. a.digraph1.n - 1
  PROVE  /\ c.nr1 = a.digraph1.n
         /\ SetBits(c.bit_array[v], a.digraph2.n) = SetBits(BaseRow(a)[v], a.digraph2.n)
         /\ c.sizes[v] = size_bit_array(c.bit_array[v], a.digraph2.n)
         /\ get_conditions(c, v) = c.bit_array[v]
         /\ c.bit_array[v] \cap Covered(a.digraph2.n)
              = BaseRow(a)[v] \cap Covered(a.digraph2.n)
<1>1. PICK m1, m2, b : m1 = a.digraph1.n /\ m2 = a.digraph2.n /\ b = BaseRow(a)  OBVIOUS
<1>2. /\ m1 \in 1 .. Size /\ m2 \in 1 .. Size
      /\ m1 \in Nat /\ m2 \in Nat /\ Size \in Nat \ {0}
      /\ b \in [0 .. m1 - 1 -> SUBSET Bits]
  BY <1>1, ArgumentFacts, BottomRows, SizeFacts
<1>3. v \in 0 .. m1 - 1 /\ v \in Nat /\ v < m1 /\ v \in 0 .. Size - 1  BY <1>1, <1>2
<1>4. v < m1 * m1 /\ v \in 0 .. Size * Size - 1
  <2>1. m1 <= m1 * m1  BY <1>2
  <2>2. Size <= Size * Size /\ Size * Size \in Nat  BY <1>2
  <2>3. m1 * m1 \in Nat  BY <1>2
  <2> QED  BY <1>2, <1>3, <2>1, <2>2, <2>3
<1>5. conditions \in ConditionsType  BY ObjectFacts
<1>6. v \in DOMAIN conditions.bit_array /\ v \in DOMAIN conditions.sizes
  BY <1>4, <1>5 DEF ConditionsType
<1>7. PICK d : d = clear_conditions(conditions, m1, m2)  OBVIOUS
<1>8. /\ d.bit_array = [k \in DOMAIN conditions.bit_array |->
                          IF k < m1 * m1 THEN init_bit_array(conditions.bit_array[k], k < m1, m2)
                          ELSE conditions.bit_array[k]]
      /\ d.sizes = conditions.sizes /\ d.nr1 = m1 /\ DOMAIN d = DOMAIN conditions
      /\ d.height = [i \in 0 .. Size - 1 |-> IF i < m1 THEN 1 ELSE conditions.height[i]]
  BY <1>5, <1>7 DEF clear_conditions, ConditionsType
<1>9. d.bit_array[v] = init_bit_array(conditions.bit_array[v], TRUE, m2)
  <2>1. (v < m1) = TRUE  BY <1>3
  <2>2. d.bit_array[v] = init_bit_array(conditions.bit_array[v], v < m1, m2)
    BY <1>4, <1>6, <1>8
  <2> QED  BY <2>1, <2>2
<1>10. PICK e : e = NarrowBottom(conditions, m1, m2, b)  OBVIOUS
<1>11. /\ e.bit_array[v] = intersect_bit_arrays(d.bit_array[v], b[v], m2)
       /\ e.nr1 = m1 /\ e.height[v] = 1
  <2>1. e = [ d EXCEPT !.bit_array =
                [k \in DOMAIN conditions.bit_array |->
                   IF k < m1 THEN intersect_bit_arrays(d.bit_array[k], b[k], m2)
                   ELSE d.bit_array[k]] ]
    BY <1>7, <1>10 DEF NarrowBottom
  <2>2. "bit_array" \in DOMAIN d /\ "nr1" \in DOMAIN d
    BY <1>5, <1>8 DEF ConditionsType
  <2>3. e.bit_array = [k \in DOMAIN conditions.bit_array |->
                   IF k < m1 THEN intersect_bit_arrays(d.bit_array[k], b[k], m2)
                   ELSE d.bit_array[k]]
        /\ e.nr1 = m1 /\ e.height = d.height
    BY <1>8, <2>1, <2>2
  <2>4. e.height[v] = 1  BY <1>3, <1>8, <2>3
  <2> QED  BY <1>3, <1>6, <2>3, <2>4
<1>12. /\ c.bit_array[v] = e.bit_array[v]
       /\ c.sizes[v] = size_bit_array(e.bit_array[v], m2)
       /\ c.nr1 = m1 /\ c.height[v] = 1
  <2>1. e \in ConditionsType  BY <1>1, <1>2, <1>5, <1>10, NarrowBottomType
  <2>2. c = [ e EXCEPT !.sizes = [k \in DOMAIN conditions.sizes |->
                                    IF k < m1 THEN size_bit_array(e.bit_array[k], m2)
                                    ELSE conditions.sizes[k]] ]
    BY <1>1, <1>10 DEF StartWith
  <2>3. c.bit_array = e.bit_array /\ c.nr1 = e.nr1 /\ c.height = e.height
        /\ c.sizes = [k \in DOMAIN conditions.sizes |->
                        IF k < m1 THEN size_bit_array(e.bit_array[k], m2)
                        ELSE conditions.sizes[k]]
    BY <2>1, <2>2 DEF ConditionsType
  <2> QED  BY <1>3, <1>6, <1>11, <2>3
<1>13. SetBits(e.bit_array[v], m2) = SetBits(b[v], m2)
  <2>1. SetBits(d.bit_array[v], m2) = 0 .. m2 - 1  BY <1>2, <1>9, InitMeant
  <2>2. SetBits(e.bit_array[v], m2) = (0 .. m2 - 1) \cap b[v]
    BY <1>2, <1>11, <2>1, BitsMeant
  <2> QED  BY <2>2 DEF SetBits, Meant
<1>14. e.bit_array[v] \cap Covered(m2) = b[v] \cap Covered(m2)
  <2>1. PICK C, x, y, z : /\ C = Covered(m2) /\ x = conditions.bit_array[v]
                          /\ y = d.bit_array[v] /\ z = b[v]
    OBVIOUS
  <2>2. y = x \cup C  BY <1>9, <2>1 DEF init_bit_array
  <2>3. e.bit_array[v] = y \ (C \ z)  BY <1>11, <2>1 DEF intersect_bit_arrays
  <2> QED  BY <2>1, <2>2, <2>3
<1>15. get_conditions(c, v) = c.bit_array[v]
  <2>1. Top(c, v) = m1 * (1 - 1) + v  BY <1>12 DEF Top, Index
  <2>2. Top(c, v) = v  BY <1>2, <1>3, <2>1
  <2> QED  BY <2>2 DEF get_conditions
<1> QED  BY <1>1, <1>12, <1>13, <1>14, <1>15

LEMMA BeginCells ==
  ASSUME CP!IInv, HInv, NEW a \in Arguments, Begin(a)
  PROVE  CellsRight'
<1> DEFINE G == Frame(UNDEFINED, 0, Group(a) = {Identity(a.digraph2.n)}, 0)
<1>1. /\ args' = a /\ depth' = 0 /\ stack' = << G >>
      /\ conditions' = StartWith(conditions, a.digraph1.n, a.digraph2.n, BaseRow(a))
      /\ MAP' = [i \in DOMAIN MAP |-> IF i < a.digraph1.n THEN UNDEFINED
                                      ELSE IF i < a.digraph2.n THEN i ELSE MAP[i]]
  BY DEF Begin, NewCall, ClearMaps
<1> HIDE DEF G
<1>2. /\ n1' = a.digraph1.n /\ a.digraph1.n \in 1 .. Size - 1 /\ Size \in Nat \ {0}
      /\ V1' = 0 .. a.digraph1.n - 1 /\ a.digraph1.n \in Nat
  BY <1>1, ArgumentFacts, SizeFacts DEF n1, V1
<1>3. Height' = 1 /\ stack'[1] = G  BY <1>1 DEF Height
<1>4. Assigned' = {}
  <2>1. MAP \in [0 .. Size - 1 -> 0 .. Size - 1 \cup { UNDEFINED }]  BY DEF HInv, Fields
  <2>2. \A v \in 0 .. a.digraph1.n - 1 : v \in DOMAIN MAP /\ v < a.digraph1.n
    BY <1>2, <2>1
  <2>3. \A v \in 0 .. a.digraph1.n - 1 : MAP'[v] = UNDEFINED
    BY <1>1, <1>2, <2>2
  <2> QED  BY <1>2, <2>3 DEF Assigned
<1>5. AssignedAt(Height)' = {}  BY <1>4 DEF AssignedAt
<1>6. FrameDepth(Height)' = 0  BY <1>1, <1>3 DEF FrameDepth
<1>7. ASSUME NEW v \in V1'
      PROVE  ColumnRight(v, 0, {})'
  <2>1. CP!LevelAt(v, 0)' = 1
    <3>1. 1 .. 0 = {}  OBVIOUS
    <3>2. {d \in CP!Depths' : d <= 0 /\ v \in CP!Row(conditions', d)} = {}
      BY <1>1, <3>1 DEF CP!Depths
    <3>3. CP!Cardinality({}) = 0  BY FS_EmptySet DEF CP!Cardinality, Cardinality
    <3>4. CP!LevelAt(v, 0)' = 1 + CP!Cardinality({})  BY <3>2 DEF CP!LevelAt
    <3> QED  BY <3>3, <3>4
  <2>2. /\ v \in 0 .. a.digraph1.n - 1 /\ conditions'.nr1 = a.digraph1.n /\ v \in Nat
        /\ SetBits(conditions'.bit_array[v], a.digraph2.n) = SetBits(BaseRow(a)[v], a.digraph2.n)
        /\ conditions'.sizes[v] = size_bit_array(conditions'.bit_array[v], a.digraph2.n)
    BY <1>1, <1>2, <1>7, BottomCells
  <2>3. CP!Index(a.digraph1.n, 1, v) = v  BY <1>2, <2>2 DEF CP!Index
  <2>4. CP!CellAt(v, 0)' = conditions'.bit_array[v] /\ CP!SizeAt(v, 0)' = conditions'.sizes[v]
    BY <2>1, <2>2, <2>3 DEF CP!CellAt, CP!SizeAt
  <2>5. Good(a, MAP', {}, v) = SetBits(BaseRow(a)[v], a.digraph2.n)  BY DEF Good
  <2> QED  BY <1>1, <2>2, <2>4, <2>5 DEF ColumnRight, CellRight
<1>8. ColumnsRight(Height)'
  <2> SUFFICES ASSUME NEW v \in (V1 \ AssignedAt(Height))'
               PROVE  ColumnRight(v, FrameDepth(Height),
                                  Known(stack[Height], AssignedAt(Height), v))'
    BY DEF ColumnsRight
  <2>1. ColumnRight(v, 0, {})'  BY <1>5, <1>7
  <2>2. Known(stack[Height], AssignedAt(Height), v)' = {}  BY <1>5 DEF Known
  <2> QED  BY <1>6, <2>1, <2>2 DEF ColumnRight, CP!CellAt, CP!SizeAt, CP!LevelAt
<1>9. \A k \in 1 .. Height' : ColumnsRight(k)'
  <2>1. ASSUME NEW k \in 1 .. Height'  PROVE ColumnsRight(k)'
    <3>1. k = Height'  BY <1>3
    <3> QED  BY <1>8, <3>1 DEF ColumnsRight, FrameDepth, AssignedAt, Tried, ColumnRight
  <2> QED  BY <2>1
<1>10. PosAssigned'
  <2>1. ~ (depth' > 0)  BY <1>1
  <2> QED  BY <2>1 DEF PosAssigned
<1> QED  BY <1>9, <1>10 DEF CellsRight

(* The steps of the search, of the entries of the partial map, and of a call *)
(* of the finder.                                                            *)
LEMMA SearchCells ==
  ASSUME CP!IInv, HInv, CellsRight, status = "search", SearchStep
  PROVE  CellsRight'
<1>1. CASE \E m \in BOOLEAN : Report(m)
  <2>1. PICK m \in BOOLEAN : Report(m)  BY <1>1
  <2>2. CASE Leave  BY <2>2, LeaveCells
  <2>3. CASE ~ Leave
    <3>1. status' = "jumped"  BY <2>1, <2>3 DEF Report
    <3> QED  BY <3>1 DEF CellsRight, Active
  <2> QED  BY <2>2, <2>3
<1>2. CASE Leave  BY <1>2, LeaveCells
<1>3. CASE Enter  BY <1>3, EnterCells
<1>4. CASE \E v : NarrowTo(PartialUpdate(v), v)
  <2>1. PICK v : NarrowTo(PartialUpdate(v), v)  BY <1>4
  <2> QED  BY <2>1, NarrowToCells
<1>5. CASE NarrowOthers  BY <1>5, NarrowOthersCells
<1>6. CASE Narrowed  BY <1>6, NarrowedCells
<1>7. CASE ~ InPlace /\ (Pick("new", NewValues) \/ Pick("old", OldValues))
  BY <1>7, PickCells
<1>8. CASE InPlace /\ PickInPlace  BY <1>8, PickInPlaceCells
<1>9. CASE \E possible : possible = ToChoose(Height) /\ TryNew(possible)
  BY <1>9, NewCells
<1>10. CASE ~ InPlace /\ TurnToOld  BY <1>10, TurnCells
<1>11. CASE ~ InPlace /\ TryOld  BY <1>11, OldCells
<1> QED
  BY <1>1, <1>2, <1>3, <1>4, <1>5, <1>6, <1>7, <1>8, <1>9, <1>10, <1>11 DEF SearchStep

LEMMA PartialCells ==
  ASSUME CP!IInv, HInv, CellsRight, init_partial_map_and_find
  PROVE  CellsRight'
BY PartialEntryCells, PartialNarrowCells, PartialNarrowedCells, InstallCells,
   PartialDoneCells DEF init_partial_map_and_find

LEMMA NextCellsRight ==
  ASSUME CP!IInv, HInv, CellsRight, [Next]_vars
  PROVE  CellsRight'
<1>1. CASE \E a \in Arguments : Call(a)
  <2>1. PICK a \in Arguments : Call(a)  BY <1>1
  <2>2. CASE Begin(a)  BY <2>2, BeginCells
  <2>3. CASE RefuseAtOnce(a) \/ RefuseInInit(a)
    <3>1. status' = "refused"  BY <2>3 DEF RefuseAtOnce, RefuseInInit
    <3> QED  BY <3>1 DEF CellsRight, Active
  <2> QED  BY <2>1, <2>2, <2>3 DEF Call
<1>2. CASE Run  BY <1>2, RunSteps, PartialCells, SearchCells
<1>3. CASE UNCHANGED vars
  <2>1. UNCHANGED << args, conditions, stack, depth, MAP, status >>
    BY <1>3 DEF vars, globals
  <2>2. /\ Active' = Active /\ Height' = Height /\ F' = F /\ V1' = V1 /\ InPlace' = InPlace
        /\ Assigned' = Assigned
    BY <2>1 DEF Active, Height, F, V1, n1, InPlace, Assigned
  <2>3. \A k : AssignedAt(k)' = AssignedAt(k) /\ FrameDepth(k)' = FrameDepth(k)
    BY <2>1, <2>2 DEF AssignedAt, FrameDepth, Tried
  <2>4. \A v, d, A : ColumnRight(v, d, A) => ColumnRight(v, d, A)'
    BY <2>1, CellsStay DEF ColumnRight
  <2>5. \A k : ColumnsRight(k) => ColumnsRight(k)'
    <3> SUFFICES ASSUME NEW k, ColumnsRight(k), NEW v \in (V1 \ AssignedAt(k))',
                        stack'[k].stage # "leave", Untouched(stack[k], v)'
                 PROVE  ColumnRight(v, FrameDepth(k), Known(stack[k], AssignedAt(k), v))'
      BY DEF ColumnsRight
    <3>1. PICK f, A, d : f = stack[k] /\ A = AssignedAt(k) /\ d = FrameDepth(k)  OBVIOUS
    <3>2. /\ stack'[k] = f /\ v \in V1 \ A /\ AssignedAt(k)' = A /\ FrameDepth(k)' = d
      BY <2>1, <2>2, <2>3, <3>1
    <3>3. Untouched(f, v)' <=> Untouched(f, v)  BY <2>1, <2>2, FrameKnows
    <3>4. Untouched(f, v)  BY <3>2, <3>3 DEF Untouched
    <3>5. PICK L : L = Known(f, A, v)  OBVIOUS
    <3>6. ColumnRight(v, d, L)  BY <3>1, <3>2, <3>4, <3>5 DEF ColumnsRight
    <3>7. ColumnRight(v, d, L)'  BY <2>4, <3>6
    <3>8. Known(f, A, v)' = L  BY <2>1, <2>2, <3>5, FrameKnows
    <3>9. Known(stack[k], AssignedAt(k), v)' = L
      BY <3>2, <3>8 DEF Known, Settled
    <3> QED  BY <3>2, <3>7, <3>9 DEF ColumnRight, CP!CellAt, CP!SizeAt, CP!LevelAt
  <2>6. PosAssigned' = PosAssigned  BY <2>1, <2>2 DEF PosAssigned
  <2> QED  BY <2>2, <2>5, <2>6 DEF CellsRight
<1> QED  BY <1>1, <1>2, <1>3 DEF Next

(* When the search picks a vertex, and whenever it comes back to try another *)
(* value for it, the cells of all the unassigned vertices hold exactly the   *)
(* values of their bottom cells that are compatible with every value that is *)
(* assigned, with their sizes: for each of the six functions, with a partial *)
(* map or without, and after every sequence of calls of the finder.          *)
THEOREM CellsForwardChecked == Spec => []ForwardChecked
<1>1. SearchInv /\ CellsRight => ForwardChecked
  <2> SUFFICES ASSUME CP!IInv, HInv, CellsRight, status = "search",
                      F.stage \in { "pick", "new", "old" },
                      NEW v \in ((0 .. n1 - 1) \ Assigned) \ {F.next}
               PROVE  LET cell == get_conditions(conditions, v)
                      IN  /\ SetBits(cell, n2)
                               = { w \in SetBits(BaseRow(args)[v], n2) : \A u \in Assigned :
                                     Compatible(InternalEdges(args), u, v, w) }
                          /\ size_conditions(conditions, v) = size_bit_array(cell, n2)
    BY DEF SearchInv, ForwardChecked
  <2>1. Active  BY DEF Active
  <2>2. v \in Left /\ v \in V1 /\ Untouched(F, v)  BY DEF Left, V1, Untouched
  <2>3. CellRight(args, MAP, CP!CellAt(v, depth), CP!SizeAt(v, depth), v, Known(F, Assigned, v))
    BY <2>1, <2>2, ColumnsNow
  <2>4. Known(F, Assigned, v) = Assigned  BY DEF Known, Settled
  <2>5. /\ CP!CellAt(v, depth) = get_conditions(conditions, v)
        /\ CP!SizeAt(v, depth) = size_conditions(conditions, v)
    <3>1. open = TRUE /\ conditions.nr1 = n1 /\ depth \in Nat /\ depth >= depth
      BY <2>1, ActiveFacts DEF HInv, ActiveRight, ArgsRight
    <3>2. CP!Columns(conditions) = V1  BY <2>1, ActiveFacts, Copies
    <3>3. /\ CP!CellAt(v, depth) = CP!get_conditions(conditions, v)
          /\ CP!SizeAt(v, depth) = CP!size_conditions(conditions, v)
      BY <2>2, <3>1, <3>2, InstanceAssumptions, CP!TopCell
    <3> QED  BY <3>3, CellCopies
  <2>6. \A u, w : Fits(args, MAP, u, v, w) <=> Compatible(InternalEdges(args), u, v, w)
    BY DEF Fits, Compatible
  <2>7. Good(args, MAP, Assigned, v)
          = { w \in SetBits(BaseRow(args)[v], n2) : \A u \in Assigned :
                Compatible(InternalEdges(args), u, v, w) }
    BY <2>6 DEF Good, n2
  <2> QED  BY <2>3, <2>4, <2>5, <2>7 DEF CellRight, n2
<1>2. Init => CellsRight
  BY DEF Init, CellsRight, Active
<1>3. SearchInv /\ CellsRight /\ [Next]_vars => CellsRight'
  BY NextCellsRight DEF SearchInv
<1> QED  BY <1>1, <1>2, <1>3, SearchesInductive, PTL DEF Spec

------------------------------------------------------------------------------
(* The maps that are reported.                                               *)

(* The arguments that two of the runs leave out, as the code does not check   *)
(* them: an entry of the partial map whose value its own vertex may not have, *)
(* and an embedding when digraph2 has loops that digraph1 does not have.      *)
Fitting(a) ==
  /\ \A x \in DOMAIN a.partial_map : a.partial_map[x] \in BaseRow(a)[InverseOrder(a)[x]]
  /\ a.injective = 2 => Loops(a.digraph2) = {} \/ Loops(a.digraph1) = Vertices(a.digraph1)

(* The vertices of A have values that go together, ...                       *)
Together(a, m, A) ==
  /\ \A v \in A : /\ m[v] \in a.image /\ m[v] \in SetBits(BaseRow(a)[v], a.digraph2.n)
                  /\ \A u \in A \ {v} : Fits(a, m, u, v, m[v])
  /\ a.injective > 0 => \A u, v \in A : m[u] = m[v] => u = v

(* ... and v may take any value of S beside them.                            *)
MayTake(a, m, A, v, S) == SetBits(S, a.digraph2.n) \subseteq a.image \cap Good(a, m, A, v)

(* What the calls on the stack have left to try.                             *)
TriesFit ==
  \A k \in 1 .. Height : stack[k].stage \in { "new", "old" } =>
    MayTake(args, MAP, AssignedAt(k), stack[k].next, ToChoose(k))

(* An entry of the partial map that is still to be installed is the only      *)
(* candidate of its vertex.                                                   *)
EntriesOpen ==
  status = "partial" =>
    \A x \in DOMAIN args.partial_map : INVERSE_ORDER[x] \in Left =>
      get_conditions(conditions, INVERSE_ORDER[x]) \cap Covered(n2) = { args.partial_map[x] }

Mapped ==
  /\ ~ RuledOut(args) /\ Clashes(args) = {}
  /\ Together(args, MAP, Assigned) /\ TriesFit /\ EntriesOpen

MapsRight == Fitting(args) /\ Active => Mapped

(* An arrow between two vertices is the same seen from either.               *)
LEMMA FitsBack ==
  ASSUME NEW a, NEW m, NEW u, NEW v, Fits(a, m, u, v, m[v])
  PROVE  Fits(a, m, v, u, m[u])
BY DEF Fits

LEMMA TogetherKept ==
  ASSUME NEW a, NEW m, NEW m2, NEW A, \A u \in A : m2[u] = m[u], Together(a, m, A)
  PROVE  Together(a, m2, A)
<1>1. ASSUME NEW v \in A, NEW u \in A \ {v}  PROVE Fits(a, m2, u, v, m2[v])
  <2>1. Fits(a, m, u, v, m[v])  BY DEF Together
  <2>2. m2[u] = m[u] /\ m2[v] = m[v]  OBVIOUS
  <2> QED  BY <2>1, <2>2 DEF Fits
<1> QED  BY <1>1 DEF Together

LEMMA TogetherLess ==
  ASSUME NEW a, NEW m, NEW A, NEW B \in SUBSET A, Together(a, m, A)
  PROVE  Together(a, m, B)
BY DEF Together

LEMMA TogetherMore ==
  ASSUME NEW a, NEW m, NEW m2, NEW A, NEW v, v \notin A, \A u \in A : m2[u] = m[u],
         Together(a, m, A), m2[v] \in a.image, m2[v] \in Good(a, m, A, v),
         a.injective > 0 => \A u \in A : m[u] # m2[v]
  PROVE  Together(a, m2, A \cup {v})
<1>1. Together(a, m2, A)  BY TogetherKept
<1>2. Good(a, m2, A, v) = Good(a, m, A, v)  BY GoodKept
<1>3. /\ m2[v] \in SetBits(BaseRow(a)[v], a.digraph2.n)
      /\ \A u \in A : Fits(a, m2, u, v, m2[v])
  BY <1>2 DEF Good
<1>4. \A u \in A : Fits(a, m2, v, u, m2[u])  BY <1>3, FitsBack
<1>5. ASSUME NEW x \in A \cup {v}
      PROVE  /\ m2[x] \in a.image /\ m2[x] \in SetBits(BaseRow(a)[x], a.digraph2.n)
             /\ \A u \in (A \cup {v}) \ {x} : Fits(a, m2, u, x, m2[x])
  <2>1. CASE x = v  BY <1>3, <2>1
  <2>2. CASE x # v
    <3>1. x \in A  BY <2>2
    <3> QED  BY <1>1, <1>4, <3>1 DEF Together
  <2> QED  BY <2>1, <2>2
<1>6. ASSUME a.injective > 0, NEW x \in A \cup {v}, NEW y \in A \cup {v}, m2[x] = m2[y]
      PROVE  x = y
  <2>1. \A z \in A : m2[z] # m2[v]  BY <1>6
  <2>2. x = v <=> y = v  BY <1>6, <2>1
  <2> QED  BY <1>1, <1>6, <2>2 DEF Together
<1> QED  BY <1>5, <1>6 DEF Together

LEMMA MayTakeKept ==
  ASSUME NEW a, NEW m, NEW m2, NEW A, NEW v, NEW S, \A u \in A : m2[u] = m[u],
         MayTake(a, m, A, v, S)
  PROVE  MayTake(a, m2, A, v, S)
BY GoodKept DEF MayTake

(* The top cell of a column is its cell at the depth of the running call.    *)
LEMMA CellNow ==
  ASSUME CP!IInv, HInv, Active, NEW v \in V1
  PROVE  /\ CP!CellAt(v, depth) = get_conditions(conditions, v)
         /\ CP!SizeAt(v, depth) = size_conditions(conditions, v)
<1>1. open = TRUE /\ conditions.nr1 = n1 /\ depth \in Nat /\ depth >= depth
  BY ActiveFacts DEF HInv, ActiveRight, ArgsRight
<1>2. CP!Columns(conditions) = V1  BY ActiveFacts, Copies
<1>3. /\ CP!CellAt(v, depth) = CP!get_conditions(conditions, v)
      /\ CP!SizeAt(v, depth) = CP!size_conditions(conditions, v)
  BY <1>1, <1>2, InstanceAssumptions, CP!TopCell
<1> QED  BY <1>3, CellCopies

(* The push of a column changes its top and no other.                        *)
LEMMA PushedTop ==
  ASSUME CP!IInv, HInv, Active, depth \in 1 .. n1 - 1, NEW v \in V1, v \notin Pushed,
         NEW b, NEW p, p = PushedWith(conditions, depth, v, b)
  PROVE  /\ get_conditions(p, v) = intersect_bit_arrays(get_conditions(conditions, v), b, n2)
         /\ size_conditions(p, v) = size_bit_array(get_conditions(p, v), n2)
         /\ \A u \in V1 : u # v => get_conditions(p, u) = get_conditions(conditions, u)
<1> DEFINE place == Index(n1, conditions.height[v] + 1, v)
           start == RowStart(n1, depth)
           count == conditions.changed[start] + 1
           cell  == intersect_bit_arrays(get_conditions(conditions, v), b, n2)
<1>1. /\ conditions.nr1 = n1 /\ conditions.nr2 = n2 /\ open = TRUE
      /\ Columns(conditions) = V1 /\ v \in Columns(conditions)
      /\ v \notin Row(conditions, depth) /\ v \in 0 .. Size - 1
  BY ActiveFacts DEF HInv, ActiveRight, ArgsRight, Pushed
<1>2. /\ conditions \in ConditionsType
      /\ \A u \in Columns(conditions) : conditions.height[u] \in 1 .. n1
      /\ conditions.height[v] \in 1 .. n1 - 1
      /\ \A d \in 0 .. n1 - 1 : conditions.changed[RowStart(n1, d)] \in 0 .. n1
  BY <1>1, ObjectFacts
<1>3. /\ p = [ bit_array |-> [conditions.bit_array EXCEPT ![place] = cell],
               changed |-> [conditions.changed EXCEPT ![start] = count, ![start + count] = v],
               height |-> [conditions.height EXCEPT ![v] = @ + 1],
               sizes |-> [conditions.sizes EXCEPT ![place] = size_bit_array(cell, n2)],
               nr1 |-> n1, nr2 |-> n2 ]
      /\ place \in 0 .. Size * Size - 1
  BY <1>1, <1>2, SizeFacts, PushFields DEF PushedWith
<1> HIDE DEF place, start, count, cell
<1>4. /\ p.nr1 = n1 /\ p.height = [conditions.height EXCEPT ![v] = @ + 1]
      /\ p.bit_array = [conditions.bit_array EXCEPT ![place] = cell]
      /\ p.sizes = [conditions.sizes EXCEPT ![place] = size_bit_array(cell, n2)]
  BY <1>3
<1>5. p.height[v] = conditions.height[v] + 1
  <2>1. v \in DOMAIN conditions.height  BY <1>1, <1>2 DEF ConditionsType
  <2> QED  BY <1>4, <2>1
<1>6. Top(p, v) = place  BY <1>4, <1>5 DEF Top, place
<1>7. place \in DOMAIN conditions.sizes /\ place \in DOMAIN conditions.bit_array
  BY <1>2, <1>3 DEF ConditionsType
<1>8. p.bit_array[place] = cell /\ p.sizes[place] = size_bit_array(cell, n2)
  BY <1>4, <1>7
<1>9. get_conditions(p, v) = cell /\ size_conditions(p, v) = size_bit_array(cell, n2)
  BY <1>6, <1>8 DEF get_conditions, size_conditions
<1>10. \A u \in V1 : u # v => get_conditions(p, u) = get_conditions(conditions, u)
  BY <1>1, PushEffect DEF PushedWith
<1> QED  BY <1>9, <1>10 DEF cell

(* A step that replaces the frame of the running call by G, and keeps what    *)
(* its callers have left to try.                                              *)
Onward(G) ==
  /\ stack' = Append(Front(stack), G)
  /\ UNCHANGED << depth, MAP, args >>
  /\ \A k \in 1 .. Height - 1 :
       get_conditions(conditions', stack[k].next) = get_conditions(conditions, stack[k].next)
  /\ status = "search" =>
       \A d \in 0 .. depth - 1 : BIT_ARRAY_BUFFER'[d] = BIT_ARRAY_BUFFER[d]

(* A step that replaces the frame of the running call, and assigns nothing:  *)
(* what the callers have left to try stays, and what the new frame has to    *)
(* fit what there is.                                                         *)
LEMMA StayMaps ==
  ASSUME HInv, Active, Mapped, NEW G, stack' = Append(Front(stack), G),
         UNCHANGED << depth, MAP, args >>,
         \A k \in 1 .. Height - 1 :
           get_conditions(conditions', stack[k].next) = get_conditions(conditions, stack[k].next),
         status = "search" =>
           \A d \in 0 .. depth - 1 : BIT_ARRAY_BUFFER'[d] = BIT_ARRAY_BUFFER[d],
         EntriesOpen',
         G.stage \in { "new", "old" } =>
           MayTake(args, MAP, Assigned, G.next,
                   IF InPlace THEN get_conditions(conditions', G.next)
                   ELSE BIT_ARRAY_BUFFER'[depth])
  PROVE  Mapped'
<1>0. PICK h : h = Height  OBVIOUS
<1>1. /\ Height' = h /\ stack'[h] = G
      /\ \A k \in 1 .. h - 1 : stack'[k] = stack[k]
      /\ Assigned' = Assigned /\ InPlace' = InPlace
      /\ \A k \in 1 .. h : AssignedAt(k)' = AssignedAt(k) /\ FrameDepth(k)' = FrameDepth(k)
  BY <1>0, StayEffect
<1>2. /\ h \in Nat \ {0} /\ h \in 1 .. h /\ AssignedAt(h) = Assigned /\ FrameDepth(h) = depth
      /\ \A k \in 1 .. h : k = h \/ k \in 1 .. h - 1
      /\ \A k \in 1 .. h - 1 : k \in 1 .. h /\ FrameDepth(k) \in 0 .. depth - 1
  BY <1>0, ActiveFacts
<1>3. ~ RuledOut(args') /\ Clashes(args') = {} /\ Together(args', MAP', Assigned')
  BY <1>1 DEF Mapped
<1>4. ASSUME NEW k \in 1 .. h, stack'[k].stage \in { "new", "old" }
      PROVE  MayTake(args', MAP', AssignedAt(k)', stack'[k].next, ToChoose(k)')
  <2>1. CASE k = h
    <3>1. ToChoose(k)' = IF InPlace THEN get_conditions(conditions', G.next)
                         ELSE BIT_ARRAY_BUFFER'[depth]
      BY <1>1, <1>2, <2>1 DEF ToChoose
    <3>2. stack'[k] = G /\ AssignedAt(k)' = Assigned  BY <1>1, <1>2, <2>1
    <3> QED  BY <1>4, <3>1, <3>2
  <2>2. CASE k \in 1 .. h - 1
    <3>1. status = "search"
      <4>1. h # 1  BY <1>2, <2>2
      <4> QED  BY <1>0, <4>1 DEF HInv, ActiveRight, FramesRight, Active
    <3>2. FrameDepth(k) \in 0 .. depth - 1 /\ FrameDepth(k)' = FrameDepth(k)
          /\ stack'[k] = stack[k] /\ AssignedAt(k)' = AssignedAt(k)
      BY <1>1, <1>2, <2>2
    <3>3. ToChoose(k)' = ToChoose(k)
      BY <1>0, <1>1, <2>2, <3>1, <3>2 DEF ToChoose
    <3>4. MayTake(args, MAP, AssignedAt(k), stack[k].next, ToChoose(k))
      BY <1>0, <1>4, <3>2 DEF Mapped, TriesFit
    <3> QED  BY <3>2, <3>3, <3>4
  <2> QED  BY <1>2, <2>1, <2>2
<1>5. TriesFit'  BY <1>1, <1>4 DEF TriesFit, MayTake
<1> QED  BY <1>3, <1>5 DEF Mapped

(* If it leaves the object alone too, and none of the values to try is        *)
(* picked.                                                                    *)
LEMMA FrameMaps ==
  ASSUME HInv, Active, Mapped, NEW G, stack' = Append(Front(stack), G),
         UNCHANGED << conditions, depth, MAP, args >>,
         status = "search" =>
           \A d \in 0 .. depth - 1 : BIT_ARRAY_BUFFER'[d] = BIT_ARRAY_BUFFER[d],
         status' = "partial" => status = "partial",
         G.stage \notin { "new", "old" }
  PROVE  Mapped'
<1>1. EntriesOpen'
  <2>1. Left' = Left /\ n2' = n2  BY StayEffect DEF Left, n2
  <2>2. INVERSE_ORDER' = INVERSE_ORDER  BY DEF INVERSE_ORDER
  <2> QED  BY <2>1, <2>2 DEF Mapped, EntriesOpen
<1> QED  BY <1>1, StayMaps

(* The cells of the callers are out of reach of a push.                      *)
LEMMA NarrowOnward ==
  ASSUME CP!IInv, HInv, NEW v, NarrowTo(PartialUpdate(v), v)
  PROVE  \E G : /\ Onward(G) /\ G.stage \notin { "new", "old" }
                /\ G.stage = IF size_conditions(PartialUpdate(v), v) = 0 THEN "leave"
                             ELSE F.stage
<1>1. /\ status = "search" /\ Active /\ F.stage \in { "narrow", "narrow2" }
      /\ conditions' = PartialUpdate(v) /\ status' = status
      /\ UNCHANGED << depth, open, MAP, BIT_ARRAY_BUFFER, args >>
  BY DEF NarrowTo, InSearch, Active, globals
<1>2. ToNarrow(Buffer) # {} /\ v = Min(ToNarrow(Buffer))
  BY <1>1 DEF NarrowTo, Buffer
<1>3. F \in FrameType  BY <1>1, ActiveFacts
<1>4. PICK p : p = PartialUpdate(v)  OBVIOUS
<1>5. \A k \in 1 .. Height - 1 :
        get_conditions(p, stack[k].next) = get_conditions(conditions, stack[k].next)
  <2>1. \/ \E b \in SUBSET Bits : p = PushedWith(conditions, depth, v, b)
        \/ p = conditions /\ ~ InPlace
    BY <1>1, <1>2, <1>4, PartialUpdatePushes
  <2> QED  BY <1>1, <1>2, <2>1, NarrowEffect
<1>6. PICK n : n = size_conditions(PartialUpdate(v), v)  OBVIOUS
<1>7. PICK g : g = STORE_MIN(F, n, v)  OBVIOUS
<1>8. PICK G : G = IF n = 0 THEN [F EXCEPT !.stage = "leave"] ELSE [g EXCEPT !.at = v]
  OBVIOUS
<1>9. stack' = Append(Front(stack), G)  BY <1>6, <1>7, <1>8 DEF NarrowTo, Running
<1>10. G.stage = (IF n = 0 THEN "leave" ELSE F.stage) /\ G.stage \notin { "new", "old" }
  <2>1. CASE n = 0
    <3>1. PICK s : s = "leave"  OBVIOUS
    <3>2. G = [F EXCEPT !.stage = s]  BY <1>8, <2>1, <3>1
    <3>3. G.stage = s  BY <1>3, <3>2, FrameStaged
    <3> QED  BY <2>1, <3>1, <3>3
  <2>2. CASE n # 0
    <3>1. G = [g EXCEPT !.at = v]  BY <1>8, <2>2
    <3>2. g = F \/ g = [F EXCEPT !.min = n, !.next = v]  BY <1>7 DEF STORE_MIN
    <3>3. G.stage = F.stage  BY <1>3, <3>1, <3>2 DEF FrameType
    <3> QED  BY <1>1, <2>2, <3>3
  <2> QED  BY <2>1, <2>2
<1> QED  BY <1>1, <1>4, <1>5, <1>6, <1>9, <1>10 DEF Onward

LEMMA NarrowMaps ==
  ASSUME CP!IInv, HInv, Mapped, NEW v, NarrowTo(PartialUpdate(v), v)
  PROVE  Mapped'
<1>1. Active /\ status' = "search"  BY DEF NarrowTo, InSearch, Active
<1>2. PICK G : Onward(G) /\ G.stage \notin { "new", "old" }  BY NarrowOnward
<1>3. EntriesOpen'  BY <1>1 DEF EntriesOpen
<1> QED  BY <1>1, <1>2, <1>3, StayMaps DEF Onward

(* The steps of the search that only move on.                                *)
LEMMA MoveOnward ==
  ASSUME HInv, Enter \/ NarrowOthers \/ Narrowed
  PROVE  \E G : /\ Onward(G) /\ G.stage \notin { "new", "old", "leave" }
                /\ G.stage = "pick" => G.at = -1
<1>1. /\ Active /\ status = "search" /\ status' = "search" /\ F \in FrameType
      /\ depth \in Nat /\ BIT_ARRAY_BUFFER \in [0 .. Size - 1 -> SUBSET Bits]
      /\ UNCHANGED << conditions, depth, MAP, args >>
  <2>1. /\ status = "search" /\ status' = "search"
        /\ UNCHANGED << conditions, depth, MAP, args >>
    <3>1. CASE Enter  BY <3>1 DEF Enter, InSearch
    <3>2. CASE NarrowOthers  BY <3>2 DEF NarrowOthers, InSearch
    <3>3. CASE Narrowed  BY <3>3 DEF Narrowed, InSearch, globals
    <3> QED  BY <3>1, <3>2, <3>3
  <2> QED  BY <2>1, ActiveFacts DEF Active, HInv, Fields
<1>2. \A d \in 0 .. depth - 1 : BIT_ARRAY_BUFFER'[d] = BIT_ARRAY_BUFFER[d]
  <2>1. \/ BIT_ARRAY_BUFFER' = BIT_ARRAY_BUFFER
        \/ \E x : BIT_ARRAY_BUFFER' = [BIT_ARRAY_BUFFER EXCEPT ![depth] = x]
    <3>1. CASE Enter  BY <3>1 DEF Enter
    <3>2. CASE NarrowOthers  BY <3>2 DEF NarrowOthers
    <3>3. CASE Narrowed  BY <3>3 DEF Narrowed, globals
    <3> QED  BY <3>1, <3>2, <3>3
  <2>2. \A d \in 0 .. depth - 1 : d # depth  BY <1>1
  <2>3. ASSUME NEW x, BIT_ARRAY_BUFFER' = [BIT_ARRAY_BUFFER EXCEPT ![depth] = x]
        PROVE  \A d \in 0 .. depth - 1 : BIT_ARRAY_BUFFER'[d] = BIT_ARRAY_BUFFER[d]
    <3>1. \A d \in 0 .. depth - 1 : d \in DOMAIN BIT_ARRAY_BUFFER
      <4>1. depth \in 0 .. Size - 1 /\ Size \in Nat  BY SizeFacts DEF HInv, Fields
      <4> QED  BY <1>1, <4>1
    <3> QED  BY <2>2, <2>3, <3>1
  <2> QED  BY <2>1, <2>3
<1>3. PICK G : /\ stack' = Append(Front(stack), G)
               /\ G.stage \notin { "new", "old", "leave" } /\ (G.stage = "pick" => G.at = -1)
  <2>1. CASE Enter
    <3>1. PICK s \in { "pick", "narrow" } : Running([F EXCEPT !.stage = s])
      BY <2>1 DEF Enter
    <3>2. PICK G : G = [F EXCEPT !.stage = s]  OBVIOUS
    <3>3. G.stage = s /\ G.at = F.at  BY <1>1, <3>2, FrameStaged
    <3>4. stack' = Append(Front(stack), G)  BY <3>1, <3>2 DEF Running
    <3>5. F.at = -1
      BY <1>1, <2>1 DEF Enter, InSearch, HInv, ActiveRight, TopRight, PickOf
    <3> QED  BY <3>3, <3>4, <3>5
  <2>2. CASE NarrowOthers \/ Narrowed
    <3>1. PICK s \in { "narrow2", "pick" } : Running([F EXCEPT !.at = -1, !.stage = s])
      BY <2>2 DEF NarrowOthers, Narrowed
    <3>2. PICK G : G = [F EXCEPT !.at = -1, !.stage = s]  OBVIOUS
    <3>3. s \in Stages /\ -1 \in Int  BY DEF Stages
    <3>4. MovedTo(G, F, s, -1)  BY <1>1, <3>2, <3>3, FrameMoved
    <3>5. stack' = Append(Front(stack), G)  BY <3>1, <3>2 DEF Running
    <3> QED  BY <3>4, <3>5 DEF MovedTo
  <2> QED  BY <2>1, <2>2
<1> QED  BY <1>1, <1>2, <1>3 DEF Onward

LEMMA MoveMaps ==
  ASSUME HInv, Mapped, Enter \/ NarrowOthers \/ Narrowed
  PROVE  Mapped'
<1>1. Active /\ status' = "search"
  <2>1. CASE Enter  BY <2>1 DEF Enter, InSearch, Active
  <2>2. CASE NarrowOthers  BY <2>2 DEF NarrowOthers, InSearch, Active
  <2>3. CASE Narrowed  BY <2>3 DEF Narrowed, InSearch, Active
  <2> QED  BY <2>1, <2>2, <2>3
<1>2. PICK G : Onward(G) /\ G.stage \notin { "new", "old" }
  <2>1. PICK G : /\ Onward(G) /\ G.stage \notin { "new", "old", "leave" }
                 /\ G.stage = "pick" => G.at = -1
    BY MoveOnward
  <2> QED  BY <2>1
<1>3. EntriesOpen'  BY <1>1 DEF EntriesOpen
<1> QED  BY <1>1, <1>2, <1>3, StayMaps DEF Onward

(* The values that NewValues takes from a cell.                              *)
LEMMA NewValuesMeant ==
  ASSUME HInv, Active, NEW v
  PROVE  SetBits(NewValues(v), n2)
           = (SetBits(get_conditions(conditions, v), n2) \ VALS) \cap REPS[F.rep_depth]
<1>1. PICK b, cell, n, reps, vals :
        /\ b = BIT_ARRAY_BUFFER[depth] /\ cell = get_conditions(conditions, v) /\ n = n2
        /\ reps = REPS[F.rep_depth] /\ vals = VALS
  OBVIOUS
<1>2. n \in Nat  BY <1>1, ActiveFacts
<1>3. PICK x, y : x = copy_bit_array(b, cell, n) /\ y = complement_bit_arrays(x, vals, n)
  OBVIOUS
<1>4. SetBits(x, n) = SetBits(cell, n)  BY <1>2, <1>3, BitsMeant
<1>5. SetBits(y, n) = SetBits(x, n) \ vals  BY <1>2, <1>3, BitsMeant
<1>6. SetBits(intersect_bit_arrays(y, reps, n), n) = SetBits(y, n) \cap reps
  BY <1>2, BitsMeant
<1>7. NewValues(v) = intersect_bit_arrays(y, reps, n)
  BY <1>1, <1>3 DEF NewValues, NotAmong
<1> QED  BY <1>1, <1>4, <1>5, <1>6, <1>7

(* Where the cell of a vertex is what forward checking leaves of it, what is *)
(* taken from it to be tried fits what there is, and lies in the image.      *)
LEMMA ValuesFit ==
  ASSUME CP!IInv, HInv, StabsRight, CellsRight, Mapped, status = "search",
         F.stage \in { "pick", "new" }, NEW v \in Left, Untouched(F, v)
  PROVE  /\ \A x \in SetBits(get_conditions(conditions, v), n2) :
              /\ x \in Good(args, MAP, Assigned, v)
              /\ x \in REPS[F.rep_depth] /\ x \notin VALS => x \in args.image
         /\ MayTake(args, MAP, Assigned, v, NewValues(v))
         /\ MayTake(args, MAP, Assigned, v, OldValues(v))
<1>0. Active  BY DEF Active
<1>1. /\ n2 \in Nat /\ n2 \in 0 .. Size /\ v \in V1 /\ Height \in 1 .. Height
      /\ F = stack[Height] /\ AssignedAt(Height) = Assigned /\ FrameDepth(Height) = depth
      /\ depth < n1 /\ depth \in 0 .. Size - 1
  BY <1>0, ActiveFacts, SizeFacts
     DEF Left, HInv, ActiveRight, FramesRight, Fields
<1>2. SetBits(VALS, n2) = ValuesAt(Height)  BY <1>0 DEF HInv, ActiveRight, MapRight
<1>3. SetBits(get_conditions(conditions, v), n2) = Good(args, MAP, Assigned, v)
  <2>1. CellRight(args, MAP, CP!CellAt(v, depth), CP!SizeAt(v, depth), v,
                  Known(F, Assigned, v))
    BY <1>0, ColumnsNow
  <2>2. Known(F, Assigned, v) = Assigned  BY DEF Known, Settled
  <2>3. CP!CellAt(v, depth) = get_conditions(conditions, v)  BY <1>0, <1>1, CellNow
  <2> QED  BY <2>1, <2>2, <2>3 DEF CellRight, n2
<1>4. SetBits(REPS[F.rep_depth], n2) \ ValuesAt(Height) \subseteq args.image
  <2>1. LevelRight(Height)  BY <1>0, <1>1 DEF StabsRight
  <2> DEFINE stab == Fixing(Group(args), ValuesAt(Height))
  <2>2. SetBits(REPS[F.rep_depth], n2) \ ValuesAt(Height)
          = OrbitReps(stab, args.image, ValuesAt(Height))
    BY <1>1, <2>1 DEF LevelRight, LevelOf, n2
  <2> QED  BY <2>2 DEF OrbitReps
<1>5. ValuesAt(Height) \subseteq args.image
  BY <1>1 DEF ValuesAt, Mapped, Together
<1>6. ASSUME NEW x \in SetBits(get_conditions(conditions, v), n2)
      PROVE  /\ x \in Good(args, MAP, Assigned, v)
             /\ x \in REPS[F.rep_depth] /\ x \notin VALS => x \in args.image
             /\ x \in VALS => x \in args.image
  <2>1. x \in VALS <=> x \in ValuesAt(Height)  BY <1>2 DEF SetBits
  <2>2. x \in REPS[F.rep_depth] => x \in SetBits(REPS[F.rep_depth], n2)  BY DEF SetBits
  <2> QED  BY <1>3, <1>4, <1>5, <2>1, <2>2
<1>7. PICK b, cell, n :
        /\ b = BIT_ARRAY_BUFFER[depth] /\ cell = get_conditions(conditions, v) /\ n = n2
        /\ n \in 0 .. Size /\ n \in Nat /\ b \in SUBSET Bits
  BY <1>1 DEF HInv, Fields
<1>8. MayTake(args, MAP, Assigned, v, NewValues(v))
  BY <1>0, <1>6, NewValuesMeant DEF MayTake, n2
<1>9. MayTake(args, MAP, Assigned, v, OldValues(v))
  <2>1. PICK y, S : y = copy_bit_array(b, cell, n) /\ S = intersect_bit_arrays(y, VALS, n)
    OBVIOUS
  <2>2. SetBits(S, n) = SetBits(cell, n) \cap VALS  BY <1>7, <2>1, BitsMeant
  <2>3. OldValues(v) = S  BY <1>7, <2>1 DEF OldValues, Among
  <2> QED  BY <1>6, <1>7, <2>2, <2>3 DEF MayTake, n2
<1> QED  BY <1>6, <1>8, <1>9

(* A vertex is picked, or the values that are taken already get their turn.  *)
LEMMA PickOnward ==
  ASSUME CP!IInv, HInv, Pick("new", NewValues) \/ Pick("old", OldValues) \/ TurnToOld
  PROVE  \E G, x :
           /\ Onward(G) /\ UNCHANGED conditions
           /\ status = "search" /\ status' = "search" /\ Active
           /\ G.next \in Left /\ BIT_ARRAY_BUFFER'[depth] = x
           /\ \/ /\ F.stage = "pick" /\ G.stage = "new" /\ x = NewValues(G.next)
                 /\ G.at = F.at
              \/ /\ F.stage = "pick" /\ G.stage = "old" /\ x = OldValues(G.next)
                 /\ G.at = F.at /\ Pick("old", OldValues)
              \/ /\ F.stage = "new" /\ G.stage = "old" /\ x = OldValues(G.next)
                 /\ G.next = F.next /\ G.at = -1 /\ TurnToOld
<1>1. /\ Active /\ status = "search" /\ status' = "search" /\ F \in FrameType
      /\ UNCHANGED << conditions, depth, MAP, args >>
  <2>1. /\ status = "search" /\ status' = "search"
        /\ UNCHANGED << conditions, depth, MAP, args >>
    <3>1. CASE Pick("new", NewValues)  BY <3>1 DEF Pick, InSearch
    <3>2. CASE Pick("old", OldValues)  BY <3>2 DEF Pick, InSearch
    <3>3. CASE TurnToOld  BY <3>3 DEF TurnToOld, InSearch
    <3> QED  BY <3>1, <3>2, <3>3
  <2> QED  BY <2>1, ActiveFacts DEF Active
<1>2. PICK G, x :
        /\ stack' = Append(Front(stack), G)
        /\ BIT_ARRAY_BUFFER' = [BIT_ARRAY_BUFFER EXCEPT ![depth] = x]
        /\ G.next \in Left
        /\ \/ /\ F.stage = "pick" /\ G.stage = "new" /\ x = NewValues(G.next)
              /\ G.at = F.at
           \/ /\ F.stage = "pick" /\ G.stage = "old" /\ x = OldValues(G.next)
              /\ G.at = F.at /\ Pick("old", OldValues)
           \/ /\ F.stage = "new" /\ G.stage = "old" /\ x = OldValues(G.next)
              /\ G.next = F.next /\ G.at = -1 /\ TurnToOld
  <2>1. CASE TurnToOld
    <3>1. PICK G : G = [F EXCEPT !.at = -1, !.stage = "old"]  OBVIOUS
    <3>2. stack' = Append(Front(stack), G)  BY <2>1, <3>1 DEF TurnToOld, Running
    <3>3. G.next = F.next /\ G.stage = "old" /\ G.at = -1
      <4>0. "old" \in Stages /\ -1 \in Int  BY DEF Stages
      <4>1. MovedTo(G, F, "old", -1)  BY <1>1, <3>1, <4>0, FrameMoved
      <4> QED  BY <4>1 DEF MovedTo
    <3>4. F.next \in Left /\ F.stage = "new"
      <4>1. F.stage = "new"  BY <2>1 DEF TurnToOld, InSearch
      <4> QED  BY <1>1, <4>1 DEF HInv, ActiveRight, TopRight, TriesOf
    <3> QED  BY <2>1, <3>2, <3>3, <3>4 DEF TurnToOld
  <2>2. ASSUME NEW s \in { "new", "old" }, InSearch("pick"),
               Running([Chosen EXCEPT !.stage = s])
        PROVE  \E G : /\ stack' = Append(Front(stack), G) /\ G.stage = s /\ G.at = F.at
                      /\ G.next = Chosen.next /\ G.next \in Left
    <3>1. F.stage = "pick"  BY <2>2 DEF InSearch
    <3>2. Chosen \in FrameType /\ Chosen.next \in Left /\ Chosen.at = F.at
      BY <1>1, <3>1, ChosenRight
    <3>3. PICK G : G = [Chosen EXCEPT !.stage = s]  OBVIOUS
    <3>4. stack' = Append(Front(stack), G)  BY <2>2, <3>3 DEF Running
    <3>5. G.next = Chosen.next /\ G.stage = s /\ G.at = F.at  BY <3>2, <3>3, FrameStaged
    <3> QED  BY <3>2, <3>4, <3>5
  <2>3. CASE Pick("new", NewValues)
    <3>1. /\ InSearch("pick") /\ F.stage = "pick" /\ Running([Chosen EXCEPT !.stage = "new"])
          /\ BIT_ARRAY_BUFFER' = [BIT_ARRAY_BUFFER EXCEPT ![depth] = NewValues(Chosen.next)]
      BY <2>3 DEF Pick, InSearch
    <3>2. PICK G : /\ stack' = Append(Front(stack), G) /\ G.stage = "new" /\ G.at = F.at
                   /\ G.next = Chosen.next /\ G.next \in Left
      BY <2>2, <3>1
    <3> QED  BY <3>1, <3>2
  <2>4. CASE Pick("old", OldValues)
    <3>1. /\ InSearch("pick") /\ F.stage = "pick" /\ Running([Chosen EXCEPT !.stage = "old"])
          /\ BIT_ARRAY_BUFFER' = [BIT_ARRAY_BUFFER EXCEPT ![depth] = OldValues(Chosen.next)]
      BY <2>4 DEF Pick, InSearch
    <3>2. PICK G : /\ stack' = Append(Front(stack), G) /\ G.stage = "old" /\ G.at = F.at
                   /\ G.next = Chosen.next /\ G.next \in Left
      BY <2>2, <3>1
    <3> QED  BY <2>4, <3>1, <3>2
  <2> QED  BY <2>1, <2>3, <2>4
<1>3. /\ BIT_ARRAY_BUFFER'[depth] = x
      /\ \A d \in 0 .. depth - 1 : BIT_ARRAY_BUFFER'[d] = BIT_ARRAY_BUFFER[d]
  <2>1. depth \in 0 .. Size - 1 /\ Size \in Nat
        /\ BIT_ARRAY_BUFFER \in [0 .. Size - 1 -> SUBSET Bits]
    BY SizeFacts DEF HInv, Fields
  <2>2. \A d \in 0 .. depth - 1 : d # depth /\ d \in DOMAIN BIT_ARRAY_BUFFER
    BY <2>1
  <2> QED  BY <1>2, <2>1, <2>2
<1>4. Onward(G)  BY <1>1, <1>2, <1>3 DEF Onward
<1> QED  BY <1>1, <1>2, <1>3, <1>4

LEMMA PickMaps ==
  ASSUME CP!IInv, HInv, StabsRight, CellsRight, Mapped, ~ InPlace,
         Pick("new", NewValues) \/ Pick("old", OldValues) \/ TurnToOld
  PROVE  Mapped'
<1>1. PICK G, x :
        /\ Onward(G) /\ status = "search" /\ status' = "search" /\ Active
        /\ F.stage \in { "pick", "new" }
        /\ G.next \in Left /\ BIT_ARRAY_BUFFER'[depth] = x
        /\ x = NewValues(G.next) \/ x = OldValues(G.next)
  BY PickOnward
<1>2. Untouched(F, G.next)  BY DEF Untouched
<1>3. MayTake(args, MAP, Assigned, G.next, x)  BY <1>1, <1>2, ValuesFit
<1>4. EntriesOpen'  BY <1>1 DEF EntriesOpen
<1>5. MayTake(args, MAP, Assigned, G.next,
              IF InPlace THEN get_conditions(conditions', G.next) ELSE BIT_ARRAY_BUFFER'[depth])
  BY <1>1, <1>3
<1> QED  BY <1>1, <1>4, <1>5, StayMaps DEF Onward

LEMMA PickInPlaceOnward ==
  ASSUME CP!IInv, HInv, PickInPlace, InPlace
  PROVE  \E G :
           /\ Onward(G) /\ G.stage = "new" /\ G.next \in Left /\ G.at = F.at
           /\ status = "search" /\ status' = "search" /\ Active /\ F.stage = "pick"
           /\ SetBits(get_conditions(conditions', G.next), n2)
                = SetBits(get_conditions(conditions, G.next), n2)
                    \cap (REPS[F.rep_depth] \cap (Bits \ VALS))
<1>1. /\ Active /\ status = "search" /\ status' = "search" /\ F.stage = "pick"
      /\ UNCHANGED << depth, open, MAP, BIT_ARRAY_BUFFER, args >>
      /\ Running([Chosen EXCEPT !.stage = "new"])
  BY DEF PickInPlace, InSearch, Active, globals
<1>2. /\ open = TRUE /\ conditions.nr1 = n1 /\ conditions.nr2 = n2 /\ n2 \in Nat
      /\ Columns(conditions) = V1 /\ Height \in Nat \ {0}
  BY <1>1, ActiveFacts DEF HInv, ActiveRight, ArgsRight
<1>3. PICK v, b, s : v = Chosen.next /\ b = REPS[F.rep_depth] \cap (Bits \ VALS) /\ s = "new"
  OBVIOUS
<1>4. v \in Left /\ v \in V1 /\ v \notin Assigned /\ Chosen \in FrameType /\ Chosen.at = F.at
  BY <1>1, <1>3, ChosenRight DEF Left
<1>5. conditions' = IntersectTop(conditions, v, b)
  BY <1>1, <1>3, <1>4, InPlaceMask DEF PickInPlace
<1>6. PICK p : p = IntersectTop(conditions, v, b)  OBVIOUS
<1>7. /\ get_conditions(p, v) = intersect_bit_arrays(get_conditions(conditions, v), b, n2)
      /\ \A u \in V1 : u # v => get_conditions(p, u) = get_conditions(conditions, u)
  BY <1>2, <1>4, <1>6, InPlaceEffect
<1>8. ASSUME NEW k \in 1 .. Height - 1
      PROVE  get_conditions(p, stack[k].next) = get_conditions(conditions, stack[k].next)
  <2>1. CallerRight(k)  BY <1>1 DEF HInv, ActiveRight, CallsRight
  <2>2. stack[k].next \in V1 /\ stack[k].next \in Assigned
    BY <2>1 DEF CallerRight, TriesRight, AssignedAt
  <2> QED  BY <1>4, <1>7, <2>2
<1>9. PICK G : G = [Chosen EXCEPT !.stage = s]  OBVIOUS
<1>10. stack' = Append(Front(stack), G)  BY <1>1, <1>3, <1>9 DEF Running
<1>11. G.stage = s /\ G.next = v /\ G.at = F.at  BY <1>3, <1>4, <1>9, FrameStaged
<1>12. SetBits(get_conditions(p, v), n2) = SetBits(get_conditions(conditions, v), n2) \cap b
  BY <1>2, <1>7, BitsMeant
<1>13. Onward(G)  BY <1>1, <1>5, <1>6, <1>8, <1>10 DEF Onward
<1> QED  BY <1>1, <1>3, <1>4, <1>5, <1>6, <1>11, <1>12, <1>13

LEMMA PickInPlaceMaps ==
  ASSUME CP!IInv, HInv, StabsRight, CellsRight, Mapped, PickInPlace, InPlace
  PROVE  Mapped'
<1>1. PICK G :
        /\ Onward(G) /\ G.stage = "new" /\ G.next \in Left
        /\ status = "search" /\ status' = "search" /\ Active /\ F.stage = "pick"
        /\ SetBits(get_conditions(conditions', G.next), n2)
             = SetBits(get_conditions(conditions, G.next), n2)
                 \cap (REPS[F.rep_depth] \cap (Bits \ VALS))
  BY PickInPlaceOnward
<1>2. Untouched(F, G.next)  BY <1>1 DEF Untouched
<1>3. \A x \in SetBits(get_conditions(conditions, G.next), n2) :
        /\ x \in Good(args, MAP, Assigned, G.next)
        /\ x \in REPS[F.rep_depth] /\ x \notin VALS => x \in args.image
  BY <1>1, <1>2, ValuesFit
<1>4. MayTake(args, MAP, Assigned, G.next, get_conditions(conditions', G.next))
  BY <1>1, <1>3 DEF MayTake, n2
<1>5. EntriesOpen'  BY <1>1 DEF EntriesOpen
<1> QED  BY <1>1, <1>4, <1>5, StayMaps DEF Onward

(* A value that is tried is one that fits.                                   *)
LEMMA CallMaps ==
  ASSUME HInv, Mapped, status = "search", depth < n1, F.stage \in { "new", "old" },
         F.stage = "old" => args.injective = 0,
         NEW G, NEW H, NEW w \in V2, w \in SetBits(ToChoose(Height), n2),
         CallStep(G, H, F.next, w)
  PROVE  Mapped'
<1>0. Active  BY DEF Active
<1>1. PICK h, A, v : h = Height /\ A = Assigned /\ v = F.next  OBVIOUS
<1>2. /\ h \in Nat \ {0} /\ F = stack[h] /\ AssignedAt(h) = A /\ h \in 1 .. h
      /\ \A k \in 1 .. h : k = h \/ k \in 1 .. h - 1
      /\ \A k \in 1 .. h + 1 : k = h + 1 \/ k \in 1 .. h
  BY <1>0, <1>1, ActiveFacts
<1>3. v \in Left /\ SetBits(MAP_UNDEFINED[depth], n1) = Left
  BY <1>0, <1>1, LeftFacts DEF HInv, ActiveRight, TopRight, TriesOf
<1>4. /\ MAP' = [MAP EXCEPT ![v] = w] /\ VALS' = set_bit_array(VALS, w, TRUE)
      /\ MAP_UNDEFINED' = [MAP_UNDEFINED EXCEPT ![depth] = set_bit_array(@, v, FALSE)]
      /\ UNCHANGED << conditions, BIT_ARRAY_BUFFER, args, status >>
      /\ G.stage = F.stage /\ G.next = F.next /\ H.stage = "enter"
  BY <1>1 DEF CallStep
<1>5. Assigned' = A \cup {v} /\ MAP'[v] = w /\ \A u \in A : MAP'[u] = MAP[u]
  BY <1>0, <1>1, <1>3, <1>4, AssignEffect
<1>6. /\ Height' = h + 1 /\ stack'[h + 1] = H /\ stack'[h] = G
      /\ \A k \in 1 .. h - 1 : stack'[k] = stack[k]
      /\ InPlace' = InPlace
      /\ \A k \in 1 .. h : AssignedAt(k)' = AssignedAt(k) /\ FrameDepth(k)' = FrameDepth(k)
  BY <1>1, CallFrames
<1>7. MayTake(args, MAP, A, v, ToChoose(h))
  BY <1>1, <1>2 DEF Mapped, TriesFit
<1>8. w \in args.image /\ w \in Good(args, MAP, A, v)
  BY <1>1, <1>7 DEF MayTake, n2
<1>9. args.injective > 0 => \A u \in A : MAP[u] # w
  <2> SUFFICES ASSUME args.injective > 0  PROVE \A u \in A : MAP[u] # w
    OBVIOUS
  <2>1. F.stage = "new"  OBVIOUS
  <2>2. SetBits(ToChoose(h), n2) \cap ValuesAt(h) = {}
    BY <1>0, <1>1, <2>1 DEF HInv, ActiveRight, TopRight, TriesOf
  <2>3. w \notin ValuesAt(h)  BY <1>1, <2>2
  <2> QED  BY <1>2, <2>3 DEF ValuesAt
<1>10. Together(args, MAP', A \cup {v})
  <2>1. v \notin A  BY <1>1, <1>3 DEF Left
  <2>2. Together(args, MAP, A)  BY <1>1 DEF Mapped
  <2>3. PICK m : m = MAP'  OBVIOUS
  <2>4. /\ m[v] \in args.image /\ m[v] \in Good(args, MAP, A, v)
        /\ args.injective > 0 => \A u \in A : MAP[u] # m[v]
        /\ \A u \in A : m[u] = MAP[u]
    BY <1>5, <1>8, <1>9, <2>3
  <2>5. Together(args, m, A \cup {v})  BY <2>1, <2>2, <2>4, TogetherMore
  <2> QED  BY <2>3, <2>5
<1>11. ASSUME NEW k \in 1 .. h, stack'[k].stage \in { "new", "old" }
       PROVE  MayTake(args, MAP', AssignedAt(k)', stack'[k].next, ToChoose(k)')
  <2>1. stack'[k].stage = stack[k].stage /\ stack'[k].next = stack[k].next
    BY <1>2, <1>4, <1>6
  <2>2. ToChoose(k)' = ToChoose(k)
    BY <1>4, <1>6, <2>1 DEF ToChoose
  <2>3. MayTake(args, MAP, AssignedAt(k), stack[k].next, ToChoose(k))
    BY <1>1, <1>11, <2>1 DEF Mapped, TriesFit
  <2>4. PICK B, x, S : B = AssignedAt(k) /\ x = stack[k].next /\ S = ToChoose(k)  OBVIOUS
  <2>5. \A u \in B : MAP'[u] = MAP[u]  BY <1>1, <1>5, <2>4 DEF AssignedAt
  <2>6. MayTake(args, MAP', B, x, S)  BY <2>3, <2>4, <2>5, MayTakeKept
  <2> QED  BY <1>6, <2>1, <2>2, <2>4, <2>6
<1>12. TriesFit'
  <2>1. ASSUME NEW k \in 1 .. Height', stack'[k].stage \in { "new", "old" }
        PROVE  MayTake(args', MAP', AssignedAt(k)', stack'[k].next, ToChoose(k)')
    <3>1. k \in 1 .. h  BY <1>2, <1>4, <1>6, <2>1
    <3> QED  BY <1>4, <1>11, <2>1, <3>1
  <2> QED  BY <2>1 DEF TriesFit, MayTake
<1>13. EntriesOpen'  BY <1>4 DEF EntriesOpen
<1>14. ~ RuledOut(args') /\ Clashes(args') = {} /\ Together(args', MAP', Assigned')
  BY <1>4, <1>5, <1>10 DEF Mapped
<1> QED  BY <1>12, <1>13, <1>14 DEF Mapped

LEMMA NewMaps ==
  ASSUME HInv, Mapped, NEW possible, possible = ToChoose(Height), TryNew(possible)
  PROVE  Mapped'
<1>1. status = "search" /\ F.stage = "new" /\ Active  BY DEF TryNew, InSearch, Active
<1>2. depth < n1  BY <1>1 DEF HInv, ActiveRight, FramesRight
<1>3. PICK w, G, H : w \in V2 /\ w \in SetBits(ToChoose(Height), n2)
                     /\ CallStep(G, H, F.next, w)
  BY NewIsCalled
<1> QED  BY <1>1, <1>2, <1>3, CallMaps

LEMMA OldMaps ==
  ASSUME HInv, Mapped, TryOld, ~ InPlace, args.injective = 0
  PROVE  Mapped'
<1>1. status = "search" /\ F.stage = "old" /\ Active  BY DEF TryOld, InSearch, Active
<1>2. depth < n1  BY <1>1 DEF HInv, ActiveRight, FramesRight
<1>3. PICK w, G, H : w \in V2 /\ w \in SetBits(ToChoose(Height), n2)
                     /\ CallStep(G, H, F.next, w)
  BY OldIsCalled
<1> QED  BY <1>1, <1>2, <1>3, CallMaps

(* A return takes back what the caller assigned.                             *)
LEMMA LeaveMaps ==
  ASSUME CP!IInv, HInv, Mapped, status = "search", Leave
  PROVE  Active' => Mapped'
<1>0. Active  BY DEF Active
<1>1. CASE Height = 1
  <2>1. ~ Active'  BY <1>1 DEF Leave, Height, Active
  <2> QED  BY <2>1
<1>2. CASE Height # 1
  <2>1. PICK h : h = Height - 1  OBVIOUS
  <2>2. PICK v : v = stack[h].next  OBVIOUS
  <2>3. Assigned' = Assigned \ {v} /\ \A u \in Assigned : u # v => MAP'[u] = MAP[u]
    BY <1>2, <2>1, <2>2, LeaveEffect
  <2>4. /\ Height' = h
        /\ \A k \in 1 .. h : stack'[k] = stack[k]
        /\ \A k \in 1 .. h : AssignedAt(k)' = AssignedAt(k)
        /\ \A k \in 1 .. h : v \notin AssignedAt(k)
    BY <1>2, <2>1, <2>2, LeaveFrames
  <2>5. \A k \in 1 .. h : ToChoose(k)' = ToChoose(k)
    BY <1>2, <2>1, <2>2, LeaveCalls
  <2>6. \A k \in 1 .. h : k \in 1 .. Height
    <3>1. Height \in Nat \ {0}  BY <1>0, ActiveFacts
    <3> QED  BY <2>1, <3>1
  <2>7. args' = args /\ status' = status  BY <1>2 DEF Leave, Height
  <2>8. Together(args, MAP', Assigned \ {v})
    <3>1. PICK m, B : m = MAP' /\ B = Assigned \ {v}  OBVIOUS
    <3>2. Together(args, MAP, B)
      <4>1. Together(args, MAP, Assigned) /\ B \in SUBSET Assigned  BY <3>1 DEF Mapped
      <4> QED  BY <4>1, TogetherLess
    <3>3. \A u \in B : m[u] = MAP[u]  BY <2>3, <3>1
    <3>4. Together(args, m, B)  BY <3>2, <3>3, TogetherKept
    <3> QED  BY <3>1, <3>4
  <2>9. ASSUME NEW k \in 1 .. Height', stack'[k].stage \in { "new", "old" }
        PROVE  MayTake(args', MAP', AssignedAt(k)', stack'[k].next, ToChoose(k)')
    <3>1. k \in 1 .. h /\ k \in 1 .. Height /\ stack'[k] = stack[k]  BY <2>4, <2>6, <2>9
    <3>2. MayTake(args, MAP, AssignedAt(k), stack[k].next, ToChoose(k))
      BY <2>9, <3>1 DEF Mapped, TriesFit
    <3>3. PICK B, x, S : B = AssignedAt(k) /\ x = stack[k].next /\ S = ToChoose(k)  OBVIOUS
    <3>4. \A u \in B : MAP'[u] = MAP[u]  BY <2>3, <2>4, <3>1, <3>3 DEF AssignedAt
    <3>5. MayTake(args, MAP', B, x, S)  BY <3>2, <3>3, <3>4, MayTakeKept
    <3> QED  BY <2>4, <2>5, <2>7, <3>1, <3>3, <3>5
  <2>10. TriesFit'  BY <2>9 DEF TriesFit, MayTake
  <2>11. EntriesOpen'  BY <2>7 DEF EntriesOpen
  <2>12. ~ RuledOut(args') /\ Clashes(args') = {} /\ Together(args', MAP', Assigned')
    BY <2>3, <2>7, <2>8 DEF Mapped
  <2> QED  BY <2>10, <2>11, <2>12 DEF Mapped
<1> QED  BY <1>1, <1>2

(* The entries of the partial map: the steps that only move on, ...          *)
LEMMA PartialEntryMaps ==
  ASSUME HInv, Mapped, PartialEntry
  PROVE  Mapped'
<1>1. /\ Active /\ F.stage = "enter" /\ status = "partial" /\ Remaining # {}
      /\ UNCHANGED << conditions, depth, MAP, args >>
  BY DEF PartialEntry, InPartial, Active
<1>2. F \in FrameType  BY <1>1, ActiveFacts
<1>3. PICK x, s : x = Min(Remaining) /\ s = IF depth > 0 THEN "narrow" ELSE "install"
  OBVIOUS
<1>4. PICK G : G = [F EXCEPT !.next = x, !.at = -1, !.stage = s]  OBVIOUS
<1>5. stack' = Append(Front(stack), G)  BY <1>3, <1>4 DEF PartialEntry, Running
<1>6. G.stage = s
  <2>1. x \in Int  BY <1>1, <1>3, NextEntry
  <2>2. s \in Stages /\ -1 \in Int  BY <1>3 DEF Stages
  <2>3. EnteredAt(G, F, s, -1, x)  BY <1>2, <1>4, <2>1, <2>2, FrameEntered
  <2> QED  BY <2>3 DEF EnteredAt
<1>7. G.stage \notin { "new", "old" }  BY <1>3, <1>6
<1>8. status # "search" /\ (status' = "partial" => status = "partial")  BY <1>1
<1> QED  BY <1>1, <1>5, <1>7, <1>8, FrameMaps

LEMMA PartialNarrowedMaps ==
  ASSUME HInv, Mapped, PartialNarrowed
  PROVE  Mapped'
<1>1. /\ Active /\ F.stage \in { "narrow", "narrow2" } /\ status = "partial"
      /\ UNCHANGED << conditions, depth, MAP, args >>
  BY DEF PartialNarrowed, InPartial, Active
<1>2. F \in FrameType  BY <1>1, ActiveFacts
<1>3. PICK G : stack' = Append(Front(stack), G) /\ G.stage \notin { "new", "old" }
  <2>1. CASE SecondPass /\ F.stage = "narrow"
    <3>1. PICK G : G = [F EXCEPT !.at = -1, !.stage = "narrow2"]  OBVIOUS
    <3>2. stack' = Append(Front(stack), G)  BY <2>1, <3>1 DEF PartialNarrowed, Running
    <3>3. "narrow2" \in Stages /\ -1 \in Int  BY DEF Stages
    <3>4. MovedTo(G, F, "narrow2", -1)  BY <1>2, <3>1, <3>3, FrameMoved
    <3> QED  BY <3>2, <3>4 DEF MovedTo
  <2>2. CASE ~ (SecondPass /\ F.stage = "narrow")
    <3>1. PICK G : G = [F EXCEPT !.stage = "install"]  OBVIOUS
    <3>2. stack' = Append(Front(stack), G)  BY <2>2, <3>1 DEF PartialNarrowed, Running
    <3>3. G.stage = "install"  BY <1>2, <3>1, FrameStaged
    <3> QED  BY <3>2, <3>3
  <2> QED  BY <2>1, <2>2
<1>4. status # "search" /\ (status' = "partial" => status = "partial")  BY <1>1
<1> QED  BY <1>1, <1>3, <1>4, FrameMaps

LEMMA PartialDoneMaps ==
  ASSUME HInv, Mapped, PartialDone
  PROVE  Mapped'
<1>1. /\ Active /\ status = "partial" /\ status' = "search"
      /\ UNCHANGED << conditions, depth, MAP, args >>
  BY DEF PartialDone, InPartial, Active, globals
<1>2. PICK G : G = Frame(F.pos, F.rep_depth, F.has_trivial_stab, F.rank)  OBVIOUS
<1>3. stack' = Append(Front(stack), G)  BY <1>2 DEF PartialDone, Running
<1>4. G.stage = "enter"  BY <1>2 DEF Frame
<1>5. status # "search" /\ (status' = "partial" => status = "partial")  BY <1>1
<1> QED  BY <1>1, <1>3, <1>4, <1>5, FrameMaps

(* ... those that narrow: an entry whose value does not fit ends the search, *)
LEMMA EntriesStayOpen ==
  ASSUME CP!IInv, HInv, Active, Mapped, status = "partial",
         F.stage \in { "narrow", "narrow2" }, ToNarrow(Buffer) # {},
         NEW v, v = Min(ToNarrow(Buffer)), NEW p, p = PartialUpdate(v),
         size_conditions(p, v) # 0,
         NEW x \in DOMAIN args.partial_map, INVERSE_ORDER[x] \in Left
  PROVE  get_conditions(p, INVERSE_ORDER[x]) \cap Covered(n2) = { args.partial_map[x] }
<1>1. /\ v \in Left /\ v \notin Pushed /\ Left \subseteq V1 /\ depth \in 1 .. n1 - 1
      /\ n2 \in Nat
  BY NextToNarrow, LeftFacts, ActiveFacts
<1>2. PICK u, w : u = INVERSE_ORDER[x] /\ w = args.partial_map[x]  OBVIOUS
<1>3. u \in V1 /\ get_conditions(conditions, u) \cap Covered(n2) = { w }
  BY <1>1, <1>2 DEF Mapped, EntriesOpen
<1>4. CASE p = conditions  BY <1>2, <1>3, <1>4
<1>5. CASE \E b \in SUBSET Bits : p = PushedWith(conditions, depth, v, b)
  <2>1. PICK b \in SUBSET Bits : p = PushedWith(conditions, depth, v, b)  BY <1>5
  <2>2. /\ get_conditions(p, v) = intersect_bit_arrays(get_conditions(conditions, v), b, n2)
        /\ size_conditions(p, v) = size_bit_array(get_conditions(p, v), n2)
        /\ \A y \in V1 : y # v => get_conditions(p, y) = get_conditions(conditions, y)
    BY <1>1, <2>1, PushedTop
  <2>3. CASE u # v  BY <1>2, <1>3, <2>2, <2>3
  <2>4. CASE u = v
    <3>1. PICK c, d, C : c = get_conditions(conditions, v) /\ d = get_conditions(p, v)
                         /\ C = Covered(n2)
      OBVIOUS
    <3>2. d = c \ (C \ b)  BY <2>2, <3>1 DEF intersect_bit_arrays
    <3>3. d \cap C # {}
      <4>1. Cardinality(d \cap C) # 0  BY <2>2, <3>1 DEF size_bit_array
      <4> QED  BY <4>1, FS_EmptySet
    <3>4. c \cap C = { w }  BY <1>3, <2>4, <3>1
    <3>5. d \cap C = { w }  BY <3>2, <3>3, <3>4
    <3> QED  BY <1>2, <2>4, <3>1, <3>5
  <2> QED  BY <2>3, <2>4
<1> QED  BY <1>4, <1>5, PartialUpdatePushes

LEMMA PartialNarrowMaps ==
  ASSUME CP!IInv, HInv, Mapped, PartialNarrow
  PROVE  Active' => Mapped'
<1>1. CASE status' = "ended"  BY <1>1 DEF Active
<1>2. CASE status' # "ended"
  <2>1. PICK v : v = Min(ToNarrow(BIT_ARRAY_BUFFER[0]))  OBVIOUS
  <2>2. /\ status = "partial" /\ Active /\ F.stage \in { "narrow", "narrow2" }
        /\ ToNarrow(BIT_ARRAY_BUFFER[0]) # {}
        /\ conditions' = PartialUpdate(v) /\ size_conditions(PartialUpdate(v), v) # 0
        /\ UNCHANGED << depth, MAP, args >>
        /\ Running([F EXCEPT !.at = v])
    BY <1>2, <2>1 DEF PartialNarrow, InPartial, Active, globals
  <2>3. ToNarrow(Buffer) # {} /\ v = Min(ToNarrow(Buffer))  BY <2>1, <2>2 DEF Buffer
  <2>4. F \in FrameType  BY <2>2, ActiveFacts
  <2>5. PICK G : G = [F EXCEPT !.at = v]  OBVIOUS
  <2>6. stack' = Append(Front(stack), G)  BY <2>2, <2>5 DEF Running
  <2>7. G.stage \notin { "new", "old" }  BY <2>2, <2>4, <2>5 DEF FrameType
  <2>8. PICK p : p = PartialUpdate(v)  OBVIOUS
  <2>9. \A x \in DOMAIN args.partial_map : INVERSE_ORDER[x] \in Left =>
          get_conditions(p, INVERSE_ORDER[x]) \cap Covered(n2) = { args.partial_map[x] }
    BY <2>2, <2>3, <2>8, EntriesStayOpen
  <2>10. Left' = Left /\ n2' = n2 /\ INVERSE_ORDER' = INVERSE_ORDER
    BY <2>2, <2>6, StayEffect DEF Left, n2, INVERSE_ORDER
  <2>11. EntriesOpen'  BY <2>2, <2>8, <2>9, <2>10 DEF EntriesOpen
  <2>12. 1 .. Height - 1 = {}
    <3>1. Height = 1  BY <2>2 DEF HInv, ActiveRight, FramesRight
    <3> QED  BY <3>1
  <2>13. status # "search"  BY <2>2
  <2> QED  BY <2>2, <2>6, <2>7, <2>11, <2>12, <2>13, StayMaps
<1> QED  BY <1>1, <1>2

(* A set of numbers below n has a greatest element, which is its Max.        *)
LEMMA MaxIsGreatest ==
  ASSUME NEW n \in Nat, NEW S \in SUBSET (0 .. n - 1)
  PROVE  \A y \in S : y <= Max(S) /\ Max(S) \in S
<1> SUFFICES ASSUME NEW y \in S  PROVE y <= Max(S) /\ Max(S) \in S
  OBVIOUS
<1>1. PICK T : T = { m \in Nat : \A z \in S : z <= m }  OBVIOUS
<1>2. T \in SUBSET Nat /\ n \in T  BY <1>1
<1>3. PICK m \in T : \A k \in T : m <= k  BY <1>2, LeastNatural
<1>4. m \in Nat /\ \A z \in S : z <= m /\ z \in Nat  BY <1>1, <1>3
<1>5. m \in S
  <2> SUFFICES ASSUME m \notin S  PROVE FALSE
    OBVIOUS
  <2>1. \A z \in S : z <= m - 1  BY <1>4
  <2>2. m - 1 \in Nat  BY <1>4, <2>1
  <2>3. m - 1 \in T  BY <1>1, <2>1, <2>2
  <2> QED  BY <1>3, <1>4, <2>3
<1>6. \E z \in S : \A k \in S : z >= k  BY <1>4, <1>5
<1>7. Max(S) \in S /\ \A k \in S : Max(S) >= k  BY <1>6 DEF Max
<1>8. PICK c : c = Max(S)  OBVIOUS
<1>9. c \in S /\ c >= y  BY <1>7, <1>8
<1>10. c \in Int /\ y \in Int  BY <1>4, <1>9
<1>11. y <= c  BY <1>9, <1>10
<1> QED  BY <1>8, <1>9, <1>11

(* The bottom cell of the vertex of an entry has no value but the entry's.   *)
LEMMA EntryRow ==
  ASSUME NEW a \in Arguments, NEW x \in DOMAIN a.partial_map
  PROVE  BaseRow(a)[InverseOrder(a)[x]] \subseteq { a.partial_map[x] }
<1>1. PICK i, m1 : i = InverseOrder(a)[x] /\ m1 = a.digraph1.n  OBVIOUS
<1>2. DOMAIN a.partial_map \subseteq 0 .. m1 - 1 /\ m1 \in Nat /\ x \in 0 .. m1 - 1
  BY <1>1, ArgumentsAssumption, SizeFacts DEF Vertices
<1>3. i \in 0 .. m1 - 1 /\ a.order[i] = x
  BY <1>1, <1>2, InverseOrderFacts DEF Vertices
<1>4. PICK len : len = IF DOMAIN a.partial_map = {} THEN 0 ELSE Max(DOMAIN a.partial_map) + 1
  OBVIOUS
<1>5. x < len
  <2>1. PICK D : D = DOMAIN a.partial_map  OBVIOUS
  <2>2. D \in SUBSET (0 .. m1 - 1) /\ x \in D  BY <1>2, <2>1
  <2>3. x <= Max(D) /\ Max(D) \in D  BY <1>2, <2>2, MaxIsGreatest
  <2>4. len = Max(D) + 1  BY <1>4, <2>1, <2>2
  <2> QED  BY <2>2, <2>3, <2>4
<1>6. PICK row : row = PartialBase(a, len)  OBVIOUS
<1>7. row[i] \subseteq { a.partial_map[x] } /\ i \in DOMAIN row
  BY <1>1, <1>3, <1>5, <1>6 DEF PartialBase
<1>8. BaseRow(a) = [j \in DOMAIN row |->
         row[j]
         \cap (IF << j, j >> \in InternalEdges(a) THEN Loops(a.digraph2) ELSE Bits)
         \cap (IF a.colors1 = << >> THEN Bits ELSE SameColor(a, a.order[j]))]
  BY <1>4, <1>6 DEF BaseRow
<1>9. BaseRow(a)[i] \subseteq row[i]  BY <1>7, <1>8
<1> QED  BY <1>1, <1>7, <1>9

(* ... and the one that installs the value.                                  *)
LEMMA InstallMaps ==
  ASSUME CP!IInv, HInv, CellsRight, Mapped, PartialInstall
  PROVE  Active' => Mapped'
<1> DEFINE w    == args.partial_map[F.next]
           rank == IF w \in VALS THEN F.rank ELSE F.rank + 1
<1>0. status = "partial" /\ F.stage = "install" /\ Active /\ args \in Arguments
  BY DEF PartialInstall, InPartial, Active, HInv, ActiveRight, ArgsRight
<1>1. CASE rank > F.rank /\ rank > args.hint
  <2>1. status' = "ended"  BY <1>1 DEF PartialInstall
  <2> QED  BY <2>1 DEF Active
<1>2. CASE ~ (rank > F.rank /\ rank > args.hint)
  <2>1. w = args.partial_map[F.next] /\ rank = IF w \in VALS THEN F.rank ELSE F.rank + 1
    OBVIOUS
  <2> HIDE DEF w, rank
  <2>2. PICK G, v : Installs(G, v, w)  BY <1>2, <2>1, EntryIsInstalled
  <2>3. PICK x : x = F.next  OBVIOUS
  <2>4. /\ v = INVERSE_ORDER[x] /\ w = args.partial_map[x]
        /\ x \in DOMAIN args.partial_map
        /\ v \in Left /\ w \in V2
        /\ Assigned = { INVERSE_ORDER[u] : u \in { u \in DOMAIN args.partial_map : u < x } }
    <3>1. v = INVERSE_ORDER[x] /\ w = args.partial_map[x]  BY <2>2, <2>3 DEF Installs, Entry
    <3> QED  BY <1>0, <2>3, <3>1, EntryInstalled
  <2>5. /\ G \in FrameType /\ stack' = Append(Front(stack), G) /\ depth' = depth + 1
        /\ G.stage = "enter"
        /\ MAP' = [MAP EXCEPT ![v] = w]
        /\ VALS' = set_bit_array(VALS, w, TRUE)
        /\ MAP_UNDEFINED' = [MAP_UNDEFINED EXCEPT ![depth] = set_bit_array(@, v, FALSE)]
        /\ UNCHANGED << conditions, open, args >>
    BY <2>2 DEF Installs, InstalledAt
  <2>6. /\ depth < n1 /\ SetBits(MAP_UNDEFINED[depth], n1) = Left
    BY <1>0 DEF HInv, ActiveRight, FramesRight, MapRight, Left
  <2>7. PICK A : A = Assigned  OBVIOUS
  <2>8. /\ V1' = V1 /\ n2' = n2 /\ Assigned' = A \cup {v}
        /\ MAP'[v] = w /\ \A u \in A : MAP'[u] = MAP[u]
    BY <1>0, <2>4, <2>5, <2>6, <2>7, AssignEffect
  <2>9. Height' = 1 /\ stack'[1] = G  BY <1>0, <2>5, InstallFrames
  <2>10. w \in Good(args, MAP, A, v)
    <3>1. CellRight(args, MAP, CP!CellAt(v, depth), CP!SizeAt(v, depth), v, Known(F, A, v))
      BY <1>0, <2>4, <2>7, ColumnsNow DEF Untouched
    <3>2. Known(F, A, v) = A  BY <1>0 DEF Known, Settled
    <3>3. v \in V1 /\ n2 \in Nat  BY <1>0, <2>4, ActiveFacts DEF Left
    <3>4. CP!CellAt(v, depth) = get_conditions(conditions, v)  BY <1>0, <3>3, CellNow
    <3>5. get_conditions(conditions, v) \cap Covered(n2) = { w }
      BY <1>0, <2>4 DEF Mapped, EntriesOpen
    <3>6. w \in SetBits(get_conditions(conditions, v), n2)
      <4>1. w \in Meant(n2)  BY <2>4 DEF Meant, V2
      <4> QED  BY <3>5, <4>1 DEF SetBits
    <3> QED  BY <3>1, <3>2, <3>4, <3>6 DEF CellRight, n2
  <2>11. w \in args.image  BY <1>0, <2>4, ArgumentsAssumption
  <2>12. args.injective > 0 => \A u \in A : MAP[u] # w
    <3> SUFFICES ASSUME args.injective > 0, NEW u \in A  PROVE MAP[u] # w
      OBVIOUS
    <3>1. PICK y \in DOMAIN args.partial_map : y < x /\ u = INVERSE_ORDER[y]
      BY <2>4, <2>7
    <3>2. MAP[u] \in BaseRow(args)[u]  BY <2>7 DEF Mapped, Together, SetBits
    <3>3. MAP[u] = args.partial_map[y]
      BY <1>0, <3>1, <3>2, EntryRow DEF INVERSE_ORDER
    <3>4. args.injective # 0  BY <1>0, ArgumentsAssumption
    <3>5. x \notin Clashes(args)  BY DEF Mapped
    <3> QED  BY <2>4, <3>1, <3>3, <3>4, <3>5 DEF Clashes
  <2>13. Together(args, MAP', A \cup {v})
    <3>1. v \notin A  BY <2>4, <2>7 DEF Left
    <3>2. Together(args, MAP, A)  BY <2>7 DEF Mapped
    <3>3. PICK m : m = MAP'  OBVIOUS
    <3>4. /\ m[v] \in args.image /\ m[v] \in Good(args, MAP, A, v)
          /\ args.injective > 0 => \A u \in A : MAP[u] # m[v]
          /\ \A u \in A : m[u] = MAP[u]
      BY <2>8, <2>10, <2>11, <2>12, <3>3
    <3>5. Together(args, m, A \cup {v})  BY <3>1, <3>2, <3>4, TogetherMore
    <3> QED  BY <3>3, <3>5
  <2>14. TriesFit'  BY <2>5, <2>9 DEF TriesFit
  <2>15. EntriesOpen'
    <3>1. Left' \subseteq Left  BY <2>7, <2>8 DEF Left
    <3>2. INVERSE_ORDER' = INVERSE_ORDER  BY <2>5 DEF INVERSE_ORDER
    <3> QED  BY <1>0, <2>5, <2>8, <3>1, <3>2 DEF Mapped, EntriesOpen
  <2>16. ~ RuledOut(args') /\ Clashes(args') = {} /\ Together(args', MAP', Assigned')
    BY <2>5, <2>7, <2>8, <2>13 DEF Mapped
  <2> QED  BY <2>14, <2>15, <2>16 DEF Mapped
<1> QED  BY <1>1, <1>2

(* When the search begins, the entries have their candidate.                 *)
LEMMA BeginMaps ==
  ASSUME CP!IInv, HInv, NEW a \in Arguments, Fitting(a), Begin(a)
  PROVE  Mapped'
<1> DEFINE G == Frame(UNDEFINED, 0, Group(a) = {Identity(a.digraph2.n)}, 0)
<1>1. /\ args' = a /\ stack' = << G >> /\ status' = "partial"
      /\ conditions' = StartWith(conditions, a.digraph1.n, a.digraph2.n, BaseRow(a))
      /\ MAP' = [i \in DOMAIN MAP |-> IF i < a.digraph1.n THEN UNDEFINED
                                      ELSE IF i < a.digraph2.n THEN i ELSE MAP[i]]
      /\ ~ RuledOut(a) /\ Clashes(a) = {}
  BY DEF Begin, NewCall, ClearMaps
<1>2. G.stage = "enter"  BY DEF Frame
<1> HIDE DEF G
<1>3. /\ n1' = a.digraph1.n /\ a.digraph1.n \in 1 .. Size - 1 /\ Size \in Nat \ {0}
      /\ V1' = 0 .. a.digraph1.n - 1 /\ a.digraph1.n \in Nat /\ a.digraph2.n \in Nat
      /\ n2' = a.digraph2.n
  BY <1>1, ArgumentFacts, SizeFacts DEF n1, V1, n2
<1>4. Assigned' = {}
  <2>1. MAP \in [0 .. Size - 1 -> 0 .. Size - 1 \cup { UNDEFINED }]  BY DEF HInv, Fields
  <2>2. \A v \in 0 .. a.digraph1.n - 1 : v \in DOMAIN MAP /\ v < a.digraph1.n
    BY <1>3, <2>1
  <2>3. \A v \in 0 .. a.digraph1.n - 1 : MAP'[v] = UNDEFINED
    BY <1>1, <1>3, <2>2
  <2> QED  BY <1>3, <2>3 DEF Assigned
<1>5. Together(args', MAP', Assigned')  BY <1>4 DEF Together
<1>6. TriesFit'  BY <1>1, <1>2 DEF TriesFit, Height
<1>7. ASSUME NEW x \in DOMAIN a.partial_map
      PROVE  get_conditions(conditions', InverseOrder(a)[x]) \cap Covered(a.digraph2.n)
               = { a.partial_map[x] }
  <2>1. PICK v, c, C : /\ v = InverseOrder(a)[x] /\ C = Covered(a.digraph2.n)
                       /\ c = StartWith(conditions, a.digraph1.n, a.digraph2.n, BaseRow(a))
    OBVIOUS
  <2>2. v \in 0 .. a.digraph1.n - 1
    BY <2>1, ArgumentsAssumption, InverseOrderFacts DEF Vertices
  <2>3. get_conditions(c, v) \cap C = BaseRow(a)[v] \cap C
    BY <2>1, <2>2, BottomCells
  <2>4. BaseRow(a)[v] = { a.partial_map[x] }  BY <2>1, EntryRow DEF Fitting
  <2>5. a.partial_map[x] \in C
    <3>1. a.partial_map[x] \in Meant(a.digraph2.n)
      BY ArgumentsAssumption DEF Vertices, Meant
    <3> QED  BY <1>3, <2>1, <3>1, MeantInCovered
  <2> QED  BY <1>1, <2>1, <2>3, <2>4, <2>5
<1>8. EntriesOpen'  BY <1>1, <1>3, <1>7 DEF EntriesOpen, INVERSE_ORDER
<1> QED  BY <1>1, <1>5, <1>6, <1>8 DEF Mapped

(* The vertices are numbered anew, one to one.                               *)
LEMMA Renumbered ==
  ASSUME NEW a \in Arguments
  PROVE  /\ \A u, v \in Vertices(a.digraph1) :
              InverseOrder(a)[u] = InverseOrder(a)[v] => u = v
         /\ \A i \in Vertices(a.digraph1) : /\ a.order[i] \in Vertices(a.digraph1)
                                            /\ InverseOrder(a)[a.order[i]] = i
         /\ \A u, v \in Vertices(a.digraph1) :
              << InverseOrder(a)[u], InverseOrder(a)[v] >> \in InternalEdges(a)
                <=> IsAdjacent(a.digraph1, u, v)
<1>1. PICK V, I, order : V = Vertices(a.digraph1) /\ I = InverseOrder(a) /\ order = a.order
  OBVIOUS
<1>2. \A u \in V : I[u] \in V /\ order[I[u]] = u  BY <1>1, InverseOrderFacts
<1>3. /\ order \in [V -> V]
      /\ \A i, j \in V : order[i] = order[j] => i = j
  BY <1>1, ArgumentsAssumption DEF Bijection, Injection, IsInjective
<1>4. \A u, v \in V : I[u] = I[v] => u = v  BY <1>2
<1>5. \A i \in V : order[i] \in V /\ I[order[i]] = i  BY <1>2, <1>3
<1>6. PICK E : E = a.digraph1.edges  OBVIOUS
<1>7. E \subseteq V \X V  BY <1>1, <1>6, DigraphsAssumption
<1>8. InternalEdges(a) = { << I[e[1]], I[e[2]] >> : e \in E }
  BY <1>1, <1>6 DEF InternalEdges
<1>9. ASSUME NEW u \in V, NEW v \in V
      PROVE  << I[u], I[v] >> \in InternalEdges(a) <=> << u, v >> \in E
  <2>1. ASSUME << u, v >> \in E  PROVE << I[u], I[v] >> \in InternalEdges(a)
    BY <1>8, <2>1
  <2>2. ASSUME << I[u], I[v] >> \in InternalEdges(a)  PROVE << u, v >> \in E
    <3>1. PICK e \in E : << I[u], I[v] >> = << I[e[1]], I[e[2]] >>  BY <1>8, <2>2
    <3>2. PICK x \in V, y \in V : e = << x, y >>  BY <1>7, <3>1
    <3>3. I[u] = I[x] /\ I[v] = I[y]  BY <3>1, <3>2
    <3>4. u = x /\ v = y  BY <1>4, <3>3
    <3> QED  BY <3>1, <3>2, <3>4
  <2> QED  BY <2>1, <2>2
<1> QED  BY <1>1, <1>4, <1>5, <1>6, <1>9 DEF IsAdjacent

(* The bottom cell of a vertex has the loops and the colours of digraph2     *)
(* that the vertex needs.                                                    *)
LEMMA BaseRowMeans ==
  ASSUME NEW a \in Arguments, NEW i \in Vertices(a.digraph1), NEW w \in BaseRow(a)[i]
  PROVE  /\ << i, i >> \in InternalEdges(a) => w \in Loops(a.digraph2)
         /\ a.colors1 # << >> => w \in SameColor(a, a.order[i])
<1>1. PICK len : len = IF DOMAIN a.partial_map = {} THEN 0 ELSE Max(DOMAIN a.partial_map) + 1
  OBVIOUS
<1>2. PICK row : row = PartialBase(a, len)  OBVIOUS
<1>3. i \in DOMAIN row  BY <1>2 DEF PartialBase, Vertices
<1>4. BaseRow(a) = [j \in DOMAIN row |->
         row[j]
         \cap (IF << j, j >> \in InternalEdges(a) THEN Loops(a.digraph2) ELSE Bits)
         \cap (IF a.colors1 = << >> THEN Bits ELSE SameColor(a, a.order[j]))]
  BY <1>1, <1>2 DEF BaseRow
<1>5. BaseRow(a)[i]
        = row[i] \cap (IF << i, i >> \in InternalEdges(a) THEN Loops(a.digraph2) ELSE Bits)
          \cap (IF a.colors1 = << >> THEN Bits ELSE SameColor(a, a.order[i]))
  BY <1>3, <1>4
<1> QED  BY <1>5

(* Values that go together are a homomorphism, as the caller numbers the     *)
(* vertices, and an embedding if one is sought.                              *)
LEMMA TogetherArrows ==
  ASSUME NEW a \in Arguments, Fitting(a), NEW m, NEW f,
         Together(a, m, Vertices(a.digraph1)),
         \A v \in Vertices(a.digraph1) : m[v] \in Vertices(a.digraph2),
         \A v \in Vertices(a.digraph1) : f[v] = m[InverseOrder(a)[v]]
  PROVE  Homomorphism(a, f) /\ (a.injective = 2 => Embedding(a, f))
<1>1. PICK V, I : V = Vertices(a.digraph1) /\ I = InverseOrder(a)  OBVIOUS
<1>2. \A u \in V : I[u] \in V /\ f[u] = m[I[u]]  BY <1>1, InverseOrderFacts
<1>3. \A u, v \in V : /\ I[u] = I[v] => u = v
                      /\ << I[u], I[v] >> \in InternalEdges(a) <=> IsAdjacent(a.digraph1, u, v)
  BY <1>1, Renumbered
<1>4. ASSUME NEW u \in V, NEW v \in V, u # v
      PROVE  /\ IsAdjacent(a.digraph1, u, v) => IsAdjacent(a.digraph2, f[u], f[v])
             /\ a.injective = 2 =>
                  (IsAdjacent(a.digraph1, u, v) <=> IsAdjacent(a.digraph2, f[u], f[v]))
  <2>1. I[u] \in V \ {I[v]} /\ I[v] \in V  BY <1>2, <1>3, <1>4
  <2>2. Fits(a, m, I[u], I[v], m[I[v]])  BY <1>1, <2>1 DEF Together
  <2>3. IsAdjacent(a.digraph2, m[I[u]], m[I[v]]) <=> IsAdjacent(a.digraph2, f[u], f[v])
    BY <1>2
  <2>4. << I[u], I[v] >> \in InternalEdges(a) <=> IsAdjacent(a.digraph1, u, v)  BY <1>3
  <2> QED  BY <2>2, <2>3, <2>4 DEF Fits
<1>5. ASSUME NEW v \in V
      PROVE  /\ IsAdjacent(a.digraph1, v, v) => IsAdjacent(a.digraph2, f[v], f[v])
             /\ a.injective = 2 =>
                  (IsAdjacent(a.digraph1, v, v) <=> IsAdjacent(a.digraph2, f[v], f[v]))
  <2>1. I[v] \in V /\ f[v] = m[I[v]] /\ f[v] \in Vertices(a.digraph2)
    BY <1>1, <1>2
  <2>2. f[v] \in BaseRow(a)[I[v]]  BY <1>1, <2>1 DEF Together, SetBits
  <2>3. IsAdjacent(a.digraph1, v, v) => f[v] \in Loops(a.digraph2)
    BY <1>1, <1>3, <2>1, <2>2, BaseRowMeans
  <2>4. f[v] \in Loops(a.digraph2) <=> IsAdjacent(a.digraph2, f[v], f[v])
    BY <2>1 DEF Loops
  <2>5. a.injective = 2 => (f[v] \in Loops(a.digraph2) => IsAdjacent(a.digraph1, v, v))
    <3>1. a.injective = 2 => Loops(a.digraph2) = {} \/ Loops(a.digraph1) = V
      BY <1>1 DEF Fitting
    <3>2. Loops(a.digraph1) = V => IsAdjacent(a.digraph1, v, v)  BY DEF Loops
    <3> QED  BY <3>1, <3>2
  <2> QED  BY <2>3, <2>4, <2>5
<1>6. ASSUME NEW u \in V, NEW v \in V
      PROVE  /\ IsAdjacent(a.digraph1, u, v) => IsAdjacent(a.digraph2, f[u], f[v])
             /\ a.injective = 2 =>
                  (IsAdjacent(a.digraph1, u, v) <=> IsAdjacent(a.digraph2, f[u], f[v]))
  BY <1>4, <1>5
<1>7. Homomorphism(a, f)
  <2> SUFFICES ASSUME NEW e \in a.digraph1.edges
               PROVE  IsAdjacent(a.digraph2, f[e[1]], f[e[2]])
    BY DEF Homomorphism
  <2>1. PICK u \in V, v \in V : e = << u, v >>  BY <1>1, DigraphsAssumption
  <2>2. IsAdjacent(a.digraph1, u, v)  BY <2>1 DEF IsAdjacent
  <2> QED  BY <1>6, <2>1, <2>2
<1>8. a.injective = 2 => Embedding(a, f)  BY <1>1, <1>6 DEF Embedding
<1> QED  BY <1>7, <1>8

(* They are all that the arguments ask for.                                  *)
LEMMA TogetherWanted ==
  ASSUME NEW a \in Arguments, Fitting(a), ~ RuledOut(a), NEW m, NEW f,
         Together(a, m, Vertices(a.digraph1)),
         f \in [Vertices(a.digraph1) -> Vertices(a.digraph2)],
         \A v \in Vertices(a.digraph1) : m[v] \in Vertices(a.digraph2),
         \A v \in Vertices(a.digraph1) : f[v] = m[InverseOrder(a)[v]],
         NEW S, \A v \in Vertices(a.digraph1) : m[v] \in S,
         \A w \in S : \E v \in Vertices(a.digraph1) : w = m[v],
         a.injective = 0 /\ a.hint # UNDEFINED => Cardinality(S) = a.hint
  PROVE  Wanted(a, f)
<1>1. PICK V, I : V = Vertices(a.digraph1) /\ I = InverseOrder(a)  OBVIOUS
<1>2. \A u \in V : /\ I[u] \in V /\ f[u] = m[I[u]] /\ a.order[I[u]] = u
                   /\ f[u] \in a.image /\ f[u] \in BaseRow(a)[I[u]]
  <2>1. \A u \in V : I[u] \in V /\ a.order[I[u]] = u  BY <1>1, InverseOrderFacts
  <2>2. \A v \in V : m[v] \in a.image /\ m[v] \in BaseRow(a)[v]
    BY <1>1 DEF Together, SetBits
  <2>3. \A u \in V : f[u] = m[I[u]]  BY <1>1
  <2> QED  BY <2>1, <2>2, <2>3
<1>3. DOMAIN f = V  BY <1>1
<1>4. \A u, v \in V : I[u] = I[v] => u = v  BY <1>1, Renumbered
<1>5. a.injective > 0 => \A u, v \in V : f[u] = f[v] => u = v
  BY <1>1, <1>2, <1>4 DEF Together
<1>6. a.injective > 0 => IsInjective(f)  BY <1>3, <1>5 DEF IsInjective
<1>7. Range(f) \subseteq a.image  BY <1>2, <1>3 DEF Range
<1>8. ASSUME a.hint # UNDEFINED  PROVE Cardinality(Range(f)) = a.hint
  <2>1. CASE a.injective = 0
    <3>1. \A i \in V : a.order[i] \in V /\ I[a.order[i]] = i  BY <1>1, Renumbered
    <3>2. Range(f) = S
      <4>1. \A u \in V : f[u] \in S  BY <1>1, <1>2
      <4>2. \A w \in S : \E u \in V : w = f[u]  BY <1>1, <1>2, <3>1
      <4> QED  BY <1>3, <4>1, <4>2 DEF Range
    <3> QED  BY <1>1, <1>8, <2>1, <3>2
  <2>2. CASE a.injective # 0
    <3>1. a.injective > 0  BY <2>2, ArgumentsAssumption
    <3>2. a.digraph1.n \in Nat  BY ArgumentFacts
    <3>3. IsFiniteSet(V) /\ Cardinality(V) = a.digraph1.n
      BY <1>1, <3>2, IntervalFinite DEF Vertices
    <3>4. f \in Surjection(V, Range(f))  BY <1>1, <1>3 DEF Surjection, Range
    <3>5. f \in Injection(V, Range(f))  BY <1>6, <3>1, <3>4 DEF Surjection, Injection
    <3>6. Cardinality(Range(f)) = Cardinality(V)  BY <3>3, <3>4, <3>5, FS_Surjection
    <3>7. a.hint = a.digraph1.n  BY <1>8, <3>1 DEF RuledOut
    <3> QED  BY <3>3, <3>6, <3>7
  <2> QED  BY <2>1, <2>2
<1>9. ASSUME NEW v \in DOMAIN a.partial_map  PROVE f[v] = a.partial_map[v]
  <2>1. f[v] \in BaseRow(a)[InverseOrder(a)[v]]
    <3>1. v \in V  BY <1>1, ArgumentsAssumption
    <3> QED  BY <1>1, <1>2, <3>1
  <2>2. BaseRow(a)[InverseOrder(a)[v]] \subseteq { a.partial_map[v] }  BY EntryRow
  <2> QED  BY <2>1, <2>2
<1>10. ASSUME NEW v \in V  PROVE ColorOf(a.colors1, v) = ColorOf(a.colors2, f[v])
  <2>1. CASE a.colors1 = << >>
    BY <2>1, DigraphsAssumption DEF ColorOf
  <2>2. CASE a.colors1 # << >>
    <3>1. a.colors2 # << >>  BY <2>2, DigraphsAssumption
    <3>2. f[v] \in SameColor(a, a.order[I[v]])  BY <1>1, <1>2, <2>2, BaseRowMeans
    <3>3. a.colors1[v] = a.colors2[f[v]]  BY <1>2, <3>2 DEF SameColor
    <3> QED  BY <2>2, <3>1, <3>3 DEF ColorOf
  <2> QED  BY <2>1, <2>2
<1>11. Homomorphism(a, f) /\ (a.injective = 2 => Embedding(a, f))
  BY TogetherArrows
<1> QED  BY <1>3, <1>6, <1>7, <1>8, <1>9, <1>10, <1>11 DEF Wanted

(* A map that is reported has its values together, and its rank was asked    *)
(* for.                                                                      *)
LEMMA ReportedMap ==
  ASSUME HInv, Mapped, Fitting(args), status = "search", ResultsRight, Sound,
         NEW m \in BOOLEAN, m = (args.injective = 0), Report(m)
  PROVE  Sound'
<1>1. Active /\ depth = n1 /\ args \in Arguments /\ args' = args
  BY DEF Report, Active, Leave, HInv, ActiveRight, ArgsRight
<1>2. CASE results' = results  BY <1>1, <1>2 DEF Sound
<1>3. CASE results' # results
  <2>1. results' = Append(results, ExternalMap)  BY <1>3 DEF Report
  <2>2. ~ (m /\ args.hint # UNDEFINED /\ F.rank # args.hint)  BY <1>3 DEF Report
  <2>3. PICK V, f, a, M : V = V1 /\ f = ExternalMap /\ a = args /\ M = MAP  OBVIOUS
  <2>4. V = Vertices(a.digraph1) /\ V2 = Vertices(a.digraph2)
    BY <2>3 DEF V1, V2, n1, n2, Vertices
  <2>5. /\ Assigned = V /\ \A v \in V : M[v] \in Vertices(a.digraph2)
        /\ f \in [Vertices(a.digraph1) -> Vertices(a.digraph2)]
    BY <1>1, <2>3, <2>4, WholeMap
  <2>6. \A v \in V : f[v] = M[InverseOrder(a)[v]]
    BY <2>3 DEF ExternalMap, V1, INVERSE_ORDER
  <2>7. Together(a, M, V) /\ ~ RuledOut(a)  BY <2>3, <2>5 DEF Mapped
  <2>8. ASSUME a.injective = 0, a.hint # UNDEFINED
        PROVE  Cardinality(ValuesAt(Height)) = a.hint
    <3>1. F.rank = a.hint  BY <2>2, <2>3, <2>8
    <3> QED  BY <1>1, <3>1, ValuesFinite
  <2>9. Wanted(a, f)
    <3>1. a \in Arguments /\ Fitting(a) /\ ~ RuledOut(a)  BY <1>1, <2>3, <2>7
    <3>2. /\ Together(a, M, Vertices(a.digraph1))
          /\ \A v \in Vertices(a.digraph1) : /\ M[v] \in Vertices(a.digraph2)
                                            /\ f[v] = M[InverseOrder(a)[v]]
      BY <2>4, <2>5, <2>6, <2>7
    <3>3. PICK S : S = ValuesAt(Height)  OBVIOUS
    <3>4. /\ \A v \in Vertices(a.digraph1) : M[v] \in S
          /\ \A w \in S : \E v \in Vertices(a.digraph1) : w = M[v]
      BY <1>1, <2>3, <2>4, <2>5, <3>3, ActiveFacts DEF ValuesAt
    <3>5. a.injective = 0 /\ a.hint # UNDEFINED => Cardinality(S) = a.hint
      BY <2>8, <3>3
    <3> QED  BY <2>5, <3>1, <3>2, <3>4, <3>5, TogetherWanted
  <2>10. Last(results') = f
    <3>1. results \in Seq([Vertices(args.digraph1) -> Vertices(args.digraph2)])
      BY DEF ResultsRight
    <3>2. f \in [Vertices(args.digraph1) -> Vertices(args.digraph2)]  BY <2>3, <2>5
    <3>3. PICK T : T = [Vertices(args.digraph1) -> Vertices(args.digraph2)]  OBVIOUS
    <3>4. results \in Seq(T) /\ f \in T /\ results' = Append(results, f)
      BY <2>1, <2>3, <3>1, <3>2, <3>3
    <3>5. Len(results) \in Nat  BY <3>4, LenProperties
    <3>6. Len(results') = Len(results) + 1 /\ results'[Len(results) + 1] = f
      BY <3>4, <3>5, AppendProperties
    <3> QED  BY <3>6 DEF Last
  <2> QED  BY <1>1, <2>3, <2>9, <2>10 DEF Sound
<1> QED  BY <1>2, <1>3

LEMMA SearchMaps ==
  ASSUME CP!IInv, HInv, StabsRight, CellsRight, Mapped, status = "search", SearchStep
  PROVE  Active' => Mapped'
<1>1. CASE \E m \in BOOLEAN : Report(m)
  <2>1. PICK m \in BOOLEAN : Report(m)  BY <1>1
  <2>2. CASE Leave  BY <2>2, LeaveMaps
  <2>3. CASE ~ Leave
    <3>1. status' = "jumped"  BY <2>1, <2>3 DEF Report
    <3> QED  BY <3>1 DEF Active
  <2> QED  BY <2>2, <2>3
<1>2. CASE Leave  BY <1>2, LeaveMaps
<1>3. CASE Enter \/ NarrowOthers \/ Narrowed  BY <1>3, MoveMaps
<1>4. CASE \E v : NarrowTo(PartialUpdate(v), v)
  <2>1. PICK v : NarrowTo(PartialUpdate(v), v)  BY <1>4
  <2> QED  BY <2>1, NarrowMaps
<1>5. CASE ~ InPlace /\ (Pick("new", NewValues) \/ Pick("old", OldValues) \/ TurnToOld)
  BY <1>5, PickMaps
<1>6. CASE InPlace /\ PickInPlace  BY <1>6, PickInPlaceMaps
<1>7. CASE \E possible : possible = ToChoose(Height) /\ TryNew(possible)
  BY <1>7, NewMaps
<1>8. CASE ~ InPlace /\ args.injective = 0 /\ TryOld  BY <1>8, OldMaps
<1> QED
  BY <1>1, <1>2, <1>3, <1>4, <1>5, <1>6, <1>7, <1>8 DEF SearchStep

LEMMA PartialMaps ==
  ASSUME CP!IInv, HInv, CellsRight, Mapped, init_partial_map_and_find
  PROVE  Active' => Mapped'
BY PartialEntryMaps, PartialNarrowMaps, PartialNarrowedMaps, InstallMaps, PartialDoneMaps
   DEF init_partial_map_and_find

LEMMA NextMapsRight ==
  ASSUME CP!IInv, HInv, StabsRight, CellsRight, MapsRight, [Next]_vars
  PROVE  MapsRight'
<1> SUFFICES ASSUME Fitting(args'), Active'  PROVE Mapped'
  BY DEF MapsRight, Fitting, BaseRow, PartialBase, InternalEdges, InverseOrder
<1>1. CASE \E a \in Arguments : Call(a)
  <2>1. PICK a \in Arguments : Call(a)  BY <1>1
  <2>2. CASE Begin(a)
    <3>1. args' = a  BY <2>2 DEF Begin, NewCall
    <3> QED  BY <2>2, <3>1, BeginMaps
  <2>3. CASE RefuseAtOnce(a) \/ RefuseInInit(a)
    <3>1. status' = "refused"  BY <2>3 DEF RefuseAtOnce, RefuseInInit
    <3> QED  BY <3>1 DEF Active
  <2> QED  BY <2>1, <2>2, <2>3 DEF Call
<1>2. CASE Run
  <2>1. args' = args  BY <1>2, OthersReportNothing
  <2>2. init_partial_map_and_find \/ (status = "search" /\ SearchStep)
    BY <1>2, RunSteps
  <2>3. Active
    BY <2>2 DEF Active, init_partial_map_and_find, PartialEntry, PartialNarrow,
                PartialNarrowed, PartialInstall, PartialDone, InPartial
  <2>4. Mapped  BY <2>1, <2>3 DEF MapsRight
  <2> QED  BY <2>2, <2>4, PartialMaps, SearchMaps
<1>3. CASE UNCHANGED vars
  <2>1. UNCHANGED << args, conditions, stack, depth, MAP, BIT_ARRAY_BUFFER, status >>
    BY <1>3 DEF vars, globals
  <2>2. Active /\ Fitting(args)  BY <2>1 DEF Active
  <2>3. /\ Height' = Height /\ Assigned' = Assigned /\ InPlace' = InPlace
        /\ Left' = Left /\ n2' = n2 /\ INVERSE_ORDER' = INVERSE_ORDER
    BY <2>1 DEF Height, Assigned, InPlace, Left, V1, n1, n2, INVERSE_ORDER
  <2>4. \A k : /\ AssignedAt(k)' = AssignedAt(k)
               /\ ToChoose(k)' = ToChoose(k)
    BY <2>1, <2>3 DEF AssignedAt, Tried, ToChoose, FrameDepth
  <2>5. Mapped  BY <2>2 DEF MapsRight
  <2>6. TriesFit'
    BY <2>1, <2>3, <2>4, <2>5 DEF Mapped, TriesFit, MayTake, Good, Fits
  <2>7. EntriesOpen'  BY <2>1, <2>3, <2>5 DEF Mapped, EntriesOpen
  <2> QED  BY <2>1, <2>3, <2>5, <2>6, <2>7 DEF Mapped
<1> QED  BY <1>1, <1>2, <1>3 DEF Next

LEMMA NextSound ==
  ASSUME HInv, ResultsRight, MapsRight, Fitting(args) => Sound, [Next]_vars, Fitting(args')
  PROVE  Sound'
<1>1. CASE \E a \in Arguments : Call(a)
  <2>1. results' = << >>
    BY <1>1 DEF Call, RefuseAtOnce, RefuseInInit, Begin, NewCall
  <2> QED  BY <2>1 DEF Sound
<1>2. CASE Run
  <2>1. args' = args  BY <1>2, OthersReportNothing
  <2>2. CASE results' = results  BY <2>1, <2>2 DEF Sound
  <2>3. CASE \E m \in BOOLEAN : /\ Report(m) /\ m = (args.injective = 0)
                                /\ status = "search"
    <3>1. Active /\ Fitting(args)  BY <2>1, <2>3 DEF Active
    <3>2. Mapped /\ Sound  BY <3>1 DEF MapsRight
    <3> QED  BY <2>3, <3>1, <3>2, ReportedMap
  <2> QED  BY <1>2, <2>2, <2>3, OthersReportNothing
<1>3. CASE UNCHANGED vars  BY <1>3 DEF vars, Sound
<1> QED  BY <1>1, <1>2, <1>3 DEF Next

(* Every map the hook is called with is one the arguments ask for: a         *)
(* homomorphism of the digraphs as the caller numbers them, injective or an  *)
(* embedding if asked for, of the rank asked for, with its values in the     *)
(* image, that extends the partial map and keeps the colours; for all        *)
(* digraphs, orders and groups, after any calls before.  Fitting names the   *)
(* arguments that the code answers otherwise.                                *)
THEOREM ReportsSound == Spec => [](Fitting(args) => Sound)
<1>1. SearchInv => CP!IInv /\ HInv  BY DEF SearchInv
<1>2. Init => ResultsRight /\ StabsRight /\ CellsRight /\ MapsRight
  BY InitResultsRight DEF Init, StabsRight, CellsRight, MapsRight, Active
<1>3. Init => (Fitting(args) => Sound)  BY DEF Init, Sound
<1>4. SearchInv /\ ResultsRight /\ [Next]_vars => ResultsRight'
  BY <1>1, NextResultsRight
<1>5. SearchInv /\ StabsRight /\ [Next]_vars => StabsRight'
  BY <1>1, NextStabsRight
<1>6. SearchInv /\ CellsRight /\ [Next]_vars => CellsRight'
  BY <1>1, NextCellsRight
<1>7. SearchInv /\ StabsRight /\ CellsRight /\ MapsRight /\ [Next]_vars => MapsRight'
  BY <1>1, NextMapsRight
<1>8. SearchInv /\ ResultsRight /\ MapsRight /\ (Fitting(args) => Sound) /\ [Next]_vars
        => (Fitting(args) => Sound)'
  BY <1>1, NextSound
<1> QED
  BY <1>2, <1>3, <1>4, <1>5, <1>6, <1>7, <1>8, SearchesInductive, PTL DEF Spec

------------------------------------------------------------------------------
(* No map twice.                                                             *)

(* The values that a call may try for the first time: the least ones of the   *)
(* orbits of the group that fixes what there is.                             *)
Classes(a, vals) == OrbitReps(Fixing(Group(a), vals), a.image, vals)

(* A call in the loop over the new values has only such values to try, and   *)
(* tries one when it has called the next.                                    *)
TriesApart ==
  \A k \in 1 .. Height : stack[k].stage = "new" =>
    /\ SetBits(ToChoose(k), n2) \subseteq Classes(args, ValuesAt(k))
    /\ k < Height => stack[k].at \in Classes(args, ValuesAt(k))

(* A call with frame f has tried the value w.                                *)
HasTried(f, w, a, vals) ==
  \/ w \in Classes(a, vals) /\ (f.stage = "new" => w <= f.at)
  \/ f.stage = "old" /\ w \in vals /\ w <= f.at

(* The map m, of the vertices as the search numbers them, was found in an    *)
(* earlier turn of the loop of the k-th call.                                *)
Behind(k, m) ==
  /\ stack[k].stage \in { "new", "old" }
  /\ \A u \in AssignedAt(k) : m[u] = MAP[u]
  /\ k < Height => m[stack[k].next] # stack[k].at
  /\ HasTried(stack[k], m[stack[k].next], args, ValuesAt(k))

Internal(r) == [v \in V1 |-> r[ORDER[v]]]

FoundBehind ==
  \A i \in 1 .. Len(results) : \E k \in 1 .. Height : Behind(k, Internal(results[i]))

ApartRight == Active => TriesApart /\ FoundBehind

(* A group has the inverses of its elements.                                 *)
LEMMA GroupInverses ==
  ASSUME NEW a \in Arguments, NEW p \in Group(a)
  PROVE  \E q \in Group(a) : \A w \in Vertices(a.digraph2) : q[p[w]] = w
<1>1. CASE a.aut_grp # {}
  <2>1. Group(a) = a.aut_grp  BY <1>1 DEF Group
  <2> QED  BY <2>1, GroupAssumption
<1>2. CASE a.aut_grp = {}
  <2>1. PICK D, c, V : D = a.digraph2 /\ c = a.colors2 /\ V = Vertices(D)  OBVIOUS
  <2>2. Group(a) = Automorphisms(D, c)  BY <1>2, <2>1 DEF Group
  <2>3. /\ p \in [V -> V]
        /\ \A u, v \in V : p[u] = p[v] => u = v
        /\ \A w \in V : \E u \in V : p[u] = w
        /\ \A u, v \in V : IsAdjacent(D, u, v) <=> IsAdjacent(D, p[u], p[v])
        /\ \A v \in V : ColorOf(c, v) = ColorOf(c, p[v])
    BY <2>1, <2>2 DEF Automorphisms, Bijection, Injection, IsInjective, Surjection
  <2>4. PICK q : q = [w \in V |-> CHOOSE u \in V : p[u] = w]  OBVIOUS
  <2>5. \A w \in V : q[w] \in V /\ p[q[w]] = w  BY <2>3, <2>4
  <2>6. \A w \in V : p[w] \in V /\ q[p[w]] = w  BY <2>3, <2>5
  <2>7. q \in [V -> V]  BY <2>4, <2>5
  <2>8. q \in Bijection(V, V)
    <3>1. \A u, v \in V : q[u] = q[v] => u = v  BY <2>5
    <3>2. \A w \in V : \E u \in V : q[u] = w  BY <2>6
    <3> QED  BY <2>7, <3>1, <3>2 DEF Bijection, Injection, IsInjective, Surjection
  <2>9. \A u, v \in V : IsAdjacent(D, u, v) <=> IsAdjacent(D, q[u], q[v])
    <3> SUFFICES ASSUME NEW u \in V, NEW v \in V
                 PROVE  IsAdjacent(D, u, v) <=> IsAdjacent(D, q[u], q[v])
      OBVIOUS
    <3>1. q[u] \in V /\ q[v] \in V /\ p[q[u]] = u /\ p[q[v]] = v  BY <2>5
    <3>2. IsAdjacent(D, q[u], q[v]) <=> IsAdjacent(D, p[q[u]], p[q[v]])  BY <2>3, <3>1
    <3> QED  BY <3>1, <3>2
  <2>10. \A v \in V : ColorOf(c, v) = ColorOf(c, q[v])
    <3> SUFFICES ASSUME NEW v \in V  PROVE ColorOf(c, v) = ColorOf(c, q[v])
      OBVIOUS
    <3>1. q[v] \in V /\ p[q[v]] = v  BY <2>5
    <3>2. ColorOf(c, q[v]) = ColorOf(c, p[q[v]])  BY <2>3, <3>1
    <3> QED  BY <3>1, <3>2
  <2>11. q \in Automorphisms(D, c)
    BY <2>1, <2>8, <2>9, <2>10 DEF Automorphisms
  <2> QED  BY <2>1, <2>2, <2>6, <2>11
<1> QED  BY <1>1, <1>2

(* Different values that a call tries are not taken to each other by the     *)
(* group that fixes the values there were.                                   *)
LEMMA ClassesApart ==
  ASSUME NEW a \in Arguments, NEW vals \in SUBSET Vertices(a.digraph2),
         NEW p \in Fixing(Group(a), vals), NEW x \in Classes(a, vals) \cup vals,
         NEW y \in Classes(a, vals) \cup vals, p[x] = y
  PROVE  x = y
<1>1. PICK V : V = Vertices(a.digraph2) /\ V \subseteq Nat /\ a.image \subseteq V
  BY ArgumentsAssumption, ArgumentFacts, SizeFacts DEF Vertices
<1>2. p \in Group(a) /\ \A w \in vals : p[w] = w  BY DEF Fixing
<1>3. PICK q \in Group(a) : \A w \in V : q[p[w]] = w  BY <1>1, <1>2, GroupInverses
<1>4. \A w \in vals : q[w] = w
  <2> SUFFICES ASSUME NEW w \in vals  PROVE q[w] = w
    OBVIOUS
  <2>1. w \in V /\ p[w] = w  BY <1>1, <1>2
  <2>2. q[p[w]] = w  BY <1>3, <2>1
  <2> QED  BY <2>1, <2>2
<1>5. q \in Fixing(Group(a), vals)  BY <1>3, <1>4 DEF Fixing
<1>6. \A w \in Classes(a, vals) : /\ w \in a.image \ vals /\ w \in V
                                  /\ \A g \in Fixing(Group(a), vals) :
                                       g[w] \in a.image \ vals => w <= g[w]
  BY <1>1 DEF Classes, OrbitReps
<1>7. x \in V /\ q[y] = x
  <2>1. x \in V  BY <1>1, <1>6
  <2> QED  BY <1>3, <2>1
<1>8. CASE x \in vals  BY <1>2, <1>8
<1>9. CASE y \in vals  BY <1>4, <1>7, <1>9
<1>10. CASE x \notin vals /\ y \notin vals
  <2>1. x \in Classes(a, vals) /\ y \in Classes(a, vals)  BY <1>10
  <2>2. x \in a.image \ vals /\ y \in a.image \ vals /\ x \in V /\ y \in V  BY <1>6, <2>1
  <2>3. x <= y  BY <1>6, <2>1, <2>2
  <2>4. y <= x  BY <1>5, <1>6, <1>7, <2>1, <2>2
  <2> QED  BY <1>1, <2>2, <2>3, <2>4
<1> QED  BY <1>8, <1>9, <1>10

(* A map stays behind while its call is not running, or stops to.            *)
LEMMA StaysBehind ==
  ASSUME NEW k, NEW m, Behind(k, m), stack'[k] = stack[k], args' = args,
         AssignedAt(k)' = AssignedAt(k), ValuesAt(k)' = ValuesAt(k),
         \A u \in AssignedAt(k) : MAP'[u] = MAP[u],
         k < Height' => k < Height
  PROVE  Behind(k, m)'
<1>1. PICK f, A, vals : f = stack[k] /\ A = AssignedAt(k) /\ vals = ValuesAt(k)  OBVIOUS
<1>2. /\ f.stage \in { "new", "old" } /\ \A u \in A : m[u] = MAP[u]
      /\ k < Height => m[f.next] # f.at
      /\ HasTried(f, m[f.next], args, vals)
  BY <1>1 DEF Behind
<1>3. HasTried(f, m[f.next], args', vals)  BY <1>2
<1>4. /\ stack'[k] = f /\ AssignedAt(k)' = A /\ ValuesAt(k)' = vals
      /\ \A u \in A : m[u] = MAP'[u]
      /\ k < Height' => m[f.next] # f.at
  BY <1>1, <1>2
<1> QED  BY <1>2, <1>3, <1>4 DEF Behind, HasTried, Classes

(* The steps that stay in a call.                                            *)
LEMMA OnwardApart ==
  ASSUME HInv, Active, ApartRight, NEW G, Onward(G), results' = results,
         G.stage = "new" =>
           SetBits(IF InPlace THEN get_conditions(conditions', G.next)
                   ELSE BIT_ARRAY_BUFFER'[depth], n2) \subseteq Classes(args, ValuesAt(Height)),
         F.stage \in { "new", "old" } =>
           F.stage = "new" /\ G.stage = "old" /\ G.next = F.next
  PROVE  ApartRight'
<1>0. PICK h : h = Height  OBVIOUS
<1>1. /\ Height' = h /\ stack'[h] = G
      /\ \A k \in 1 .. h - 1 : stack'[k] = stack[k]
      /\ InPlace' = InPlace /\ n2' = n2 /\ V1' = V1
      /\ \A k \in 1 .. h : /\ AssignedAt(k)' = AssignedAt(k)
                           /\ ValuesAt(k)' = ValuesAt(k)
                           /\ FrameDepth(k)' = FrameDepth(k)
  BY <1>0, StayEffect DEF Onward
<1>2. /\ h \in Nat \ {0} /\ h \in 1 .. h /\ FrameDepth(h) = depth /\ F = stack[h]
      /\ \A k \in 1 .. h : k = h \/ (k \in 1 .. h - 1 /\ k < h)
      /\ \A k \in 1 .. h - 1 : k \in 1 .. h /\ FrameDepth(k) \in 0 .. depth - 1
  BY <1>0, ActiveFacts
<1>3. args' = args /\ MAP' = MAP  BY DEF Onward
<1>4. TriesApart /\ FoundBehind  BY DEF ApartRight
<1>5. ASSUME NEW k \in 1 .. h, stack'[k].stage = "new"
      PROVE  /\ SetBits(ToChoose(k)', n2) \subseteq Classes(args, ValuesAt(k))
             /\ k < h => stack'[k].at \in Classes(args, ValuesAt(k))
  <2>1. CASE k = h
    <3>1. ToChoose(k)' = IF InPlace THEN get_conditions(conditions', G.next)
                         ELSE BIT_ARRAY_BUFFER'[depth]
      BY <1>1, <1>2, <2>1 DEF ToChoose
    <3> QED  BY <1>0, <1>1, <1>2, <1>5, <2>1, <3>1
  <2>2. CASE k \in 1 .. h - 1
    <3>1. status = "search"
      <4>1. h # 1  BY <1>2, <2>2
      <4> QED  BY <1>0, <4>1 DEF HInv, ActiveRight, FramesRight, Active
    <3>2. /\ FrameDepth(k) \in 0 .. depth - 1 /\ FrameDepth(k)' = FrameDepth(k)
          /\ stack'[k] = stack[k] /\ k \in 1 .. Height /\ k < h
      BY <1>0, <1>1, <1>2, <2>2
    <3>3. ToChoose(k)' = ToChoose(k)
      BY <1>0, <1>1, <2>2, <3>1, <3>2 DEF ToChoose, Onward
    <3> QED  BY <1>0, <1>4, <1>5, <3>2, <3>3 DEF TriesApart
  <2> QED  BY <1>2, <2>1, <2>2
<1>6. TriesApart'
  <2> SUFFICES ASSUME NEW k \in 1 .. h, stack'[k].stage = "new"
               PROVE  /\ SetBits(ToChoose(k)', n2') \subseteq Classes(args', ValuesAt(k)')
                      /\ k < h => stack'[k].at \in Classes(args', ValuesAt(k)')
    BY <1>1 DEF TriesApart, Classes
  <2> QED  BY <1>1, <1>3, <1>5
<1>7. ASSUME NEW k \in 1 .. h, NEW m, Behind(k, m)  PROVE Behind(k, m)'
  <2>1. CASE k \in 1 .. h - 1
    <3>1. stack'[k] = stack[k] /\ k < Height  BY <1>0, <1>1, <1>2, <2>1
    <3> QED  BY <1>1, <1>3, <1>7, <3>1, StaysBehind
  <2>2. CASE k = h
    <3>1. F.stage = "new" /\ G.stage = "old" /\ G.next = F.next
      BY <1>2, <1>7, <2>2 DEF Behind
    <3>2. PICK x, vals : x = m[F.next] /\ vals = ValuesAt(k)  OBVIOUS
    <3>3. x \in Classes(args, vals)
      BY <1>2, <1>7, <2>2, <3>1, <3>2 DEF Behind, HasTried
    <3>4. HasTried(G, x, args, vals)  BY <3>1, <3>3 DEF HasTried
    <3>5. /\ stack'[k] = G /\ ValuesAt(k)' = vals /\ m[G.next] = x
          /\ \A u \in AssignedAt(k)' : m[u] = MAP'[u]
          /\ ~ (k < Height')
      BY <1>1, <1>2, <1>3, <1>7, <2>2, <3>1, <3>2 DEF Behind
    <3> QED  BY <1>3, <3>1, <3>4, <3>5 DEF Behind, HasTried, Classes
  <2> QED  BY <1>2, <2>1, <2>2
<1>8. FoundBehind'
  <2>1. \A r : Internal(r)' = Internal(r)  BY <1>1, <1>3 DEF Internal, ORDER
  <2> SUFFICES ASSUME NEW i \in 1 .. Len(results')
               PROVE  \E k \in 1 .. Height' : Behind(k, Internal(results[i]))'
    BY <2>1 DEF FoundBehind
  <2>2. PICK k \in 1 .. h : Behind(k, Internal(results[i]))
    BY <1>0, <1>4 DEF FoundBehind
  <2>3. PICK m : m = Internal(results[i])  OBVIOUS
  <2>4. Behind(k, m)'  BY <1>7, <2>2, <2>3
  <2>5. m = Internal(results[i])'  BY <1>1, <1>3, <2>3 DEF Internal, ORDER
  <2> QED  BY <1>1, <2>4, <2>5 DEF Behind
<1> QED  BY <1>6, <1>8 DEF ApartRight

(* The representatives of the running call that are no values are the values *)
(* to try.                                                                   *)
LEMMA RepsApart ==
  ASSUME HInv, StabsRight, Active, depth < n1,
         NEW x \in REPS[F.rep_depth], x \in Meant(n2), x \notin VALS
  PROVE  x \in Classes(args, ValuesAt(Height))
<1>1. Height \in 1 .. Height /\ F = stack[Height] /\ FrameDepth(Height) = depth
  BY ActiveFacts
<1>2. SetBits(VALS, n2) = ValuesAt(Height)  BY DEF HInv, ActiveRight, MapRight
<1>3. LevelRight(Height)  BY <1>1 DEF StabsRight
<1>4. PICK stab, vals, S : /\ stab = Fixing(Group(args), ValuesAt(Height))
                           /\ vals = ValuesAt(Height) /\ S = SetBits(REPS[F.rep_depth], n2)
  OBVIOUS
<1>5. S \ vals = OrbitReps(stab, args.image, vals)
  BY <1>1, <1>3, <1>4 DEF LevelRight, LevelOf, n2
<1>6. x \in S \ vals  BY <1>2, <1>4 DEF SetBits
<1> QED  BY <1>4, <1>5, <1>6 DEF Classes

LEMMA NewValuesApart ==
  ASSUME HInv, StabsRight, Active, depth < n1, NEW v
  PROVE  SetBits(NewValues(v), n2) \subseteq Classes(args, ValuesAt(Height))
<1>1. \A x \in SetBits(NewValues(v), n2) :
        x \in REPS[F.rep_depth] /\ x \in Meant(n2) /\ x \notin VALS
  BY NewValuesMeant DEF SetBits
<1> QED  BY <1>1, RepsApart

LEMMA PickApart ==
  ASSUME CP!IInv, HInv, StabsRight, ApartRight, ~ InPlace, results' = results,
         Pick("new", NewValues) \/ Pick("old", OldValues) \/ TurnToOld
  PROVE  ApartRight'
<1>1. PICK G, y :
        /\ Onward(G) /\ status = "search" /\ Active
        /\ G.next \in Left /\ BIT_ARRAY_BUFFER'[depth] = y
        /\ \/ F.stage = "pick" /\ G.stage = "new" /\ y = NewValues(G.next)
           \/ F.stage = "pick" /\ G.stage = "old" /\ y = OldValues(G.next)
           \/ /\ F.stage = "new" /\ G.stage = "old" /\ y = OldValues(G.next)
              /\ G.next = F.next
  BY PickOnward
<1>2. depth < n1  BY <1>1 DEF HInv, ActiveRight, FramesRight
<1>3. ASSUME G.stage = "new"  PROVE SetBits(y, n2) \subseteq Classes(args, ValuesAt(Height))
  <2>1. y = NewValues(G.next)  BY <1>1, <1>3
  <2> QED  BY <1>1, <1>2, <2>1, NewValuesApart
<1>4. G.stage = "new" =>
        SetBits(IF InPlace THEN get_conditions(conditions', G.next)
                ELSE BIT_ARRAY_BUFFER'[depth], n2) \subseteq Classes(args, ValuesAt(Height))
  BY <1>1, <1>3
<1>5. F.stage \in { "new", "old" } => F.stage = "new" /\ G.stage = "old" /\ G.next = F.next
  BY <1>1
<1> QED  BY <1>1, <1>4, <1>5, OnwardApart

LEMMA PickInPlaceApart ==
  ASSUME CP!IInv, HInv, StabsRight, ApartRight, PickInPlace, InPlace, results' = results
  PROVE  ApartRight'
<1>1. PICK G :
        /\ Onward(G) /\ G.stage = "new" /\ G.next \in Left
        /\ status = "search" /\ Active /\ F.stage = "pick"
        /\ SetBits(get_conditions(conditions', G.next), n2)
             = SetBits(get_conditions(conditions, G.next), n2)
                 \cap (REPS[F.rep_depth] \cap (Bits \ VALS))
  BY PickInPlaceOnward
<1>2. depth < n1  BY <1>1 DEF HInv, ActiveRight, FramesRight
<1>3. PICK S : S = SetBits(get_conditions(conditions', G.next), n2)  OBVIOUS
<1>4. \A x \in S : x \in REPS[F.rep_depth] /\ x \in Meant(n2) /\ x \notin VALS
  BY <1>1, <1>3 DEF SetBits
<1>5. S \subseteq Classes(args, ValuesAt(Height))  BY <1>1, <1>2, <1>4, RepsApart
<1>6. SetBits(IF InPlace THEN get_conditions(conditions', G.next)
              ELSE BIT_ARRAY_BUFFER'[depth], n2) \subseteq Classes(args, ValuesAt(Height))
  BY <1>3, <1>5
<1> QED  BY <1>1, <1>6, OnwardApart

LEMMA MoveApart ==
  ASSUME CP!IInv, HInv, ApartRight, results' = results,
         \/ Enter \/ NarrowOthers \/ Narrowed
         \/ \E v : NarrowTo(PartialUpdate(v), v)
  PROVE  ApartRight'
<1>1. Active /\ F.stage \notin { "new", "old" }
  <2>1. CASE Enter  BY <2>1 DEF Enter, InSearch, Active
  <2>2. CASE NarrowOthers  BY <2>2 DEF NarrowOthers, InSearch, Active
  <2>3. CASE Narrowed  BY <2>3 DEF Narrowed, InSearch, Active
  <2>4. CASE \E v : NarrowTo(PartialUpdate(v), v)  BY <2>4 DEF NarrowTo, InSearch, Active
  <2> QED  BY <2>1, <2>2, <2>3, <2>4
<1>2. PICK G : Onward(G) /\ G.stage \notin { "new", "old" }
  <2>1. CASE Enter \/ NarrowOthers \/ Narrowed
    <3>1. PICK G : /\ Onward(G) /\ G.stage \notin { "new", "old", "leave" }
                   /\ G.stage = "pick" => G.at = -1
      BY <2>1, MoveOnward
    <3> QED  BY <3>1
  <2>2. CASE \E v : NarrowTo(PartialUpdate(v), v)
    <3>1. PICK v : NarrowTo(PartialUpdate(v), v)  BY <2>2
    <3>2. PICK G : Onward(G) /\ G.stage \notin { "new", "old" }  BY <3>1, NarrowOnward
    <3> QED  BY <3>2
  <2> QED  BY <2>1, <2>2
<1> QED  BY <1>1, <1>2, OnwardApart

LEMMA ClassesType ==
  ASSUME NEW a \in Arguments, NEW vals
  PROVE  /\ Classes(a, vals) \subseteq Vertices(a.digraph2) /\ Classes(a, vals) \cap vals = {}
         /\ Vertices(a.digraph2) \subseteq Nat
<1>1. Vertices(a.digraph2) \subseteq Nat /\ a.image \subseteq Vertices(a.digraph2)
  BY ArgumentsAssumption, ArgumentFacts, SizeFacts DEF Vertices
<1>2. Classes(a, vals) \subseteq a.image \ vals  BY DEF Classes, OrbitReps
<1> QED  BY <1>1, <1>2

(* No map that was found is lost sight of.                                   *)
LEMMA StillFound ==
  ASSUME FoundBehind, results' = results, args' = args,
         \A m : \A k \in 1 .. Height : Behind(k, m) => \E j \in 1 .. Height' : Behind(j, m)'
  PROVE  FoundBehind'
<1>1. \A r : Internal(r)' = Internal(r)  BY DEF Internal, ORDER, V1, n1
<1> SUFFICES ASSUME NEW i \in 1 .. Len(results')
             PROVE  \E j \in 1 .. Height' : Behind(j, Internal(results[i]))'
  BY <1>1 DEF FoundBehind
<1>2. PICK k \in 1 .. Height : Behind(k, Internal(results[i]))  BY DEF FoundBehind
<1>3. PICK m : m = Internal(results[i])  OBVIOUS
<1>4. PICK j \in 1 .. Height' : Behind(j, m)'  BY <1>2, <1>3
<1>5. m = Internal(results[i])'  BY <1>3 DEF Internal, ORDER, V1, n1
<1> QED  BY <1>4, <1>5 DEF Behind

(* A value that is tried is behind no map found before.                      *)
LEMMA CallApart ==
  ASSUME HInv, ApartRight, status = "search", depth < n1, F.stage \in { "new", "old" },
         NEW G, NEW H, NEW w \in V2, w \in SetBits(ToChoose(Height), n2), w > F.at,
         CallStep(G, H, F.next, w), results' = results
  PROVE  ApartRight'
<1>0. Active  BY DEF Active
<1>1. PICK h, vals : h = Height /\ vals = ValuesAt(h)  OBVIOUS
<1>2. /\ h \in Nat \ {0} /\ h \in 1 .. h /\ F = stack[h] /\ AssignedAt(h) = Assigned
      /\ \A k \in 1 .. h : k = h \/ (k \in 1 .. h - 1 /\ k < h)
      /\ \A k \in 1 .. h + 1 : k = h + 1 \/ (k \in 1 .. h /\ k < h + 1)
      /\ \A k \in 1 .. h : k \in 1 .. h + 1
      /\ F.at \in Int /\ V2 \subseteq Nat /\ w \in Nat
  BY <1>0, <1>1, ActiveFacts DEF FrameType
<1>3. F.next \in Left /\ SetBits(MAP_UNDEFINED[depth], n1) = Left
  BY <1>0, LeftFacts DEF HInv, ActiveRight, TopRight, TriesOf
<1>4. /\ MAP' = [MAP EXCEPT ![F.next] = w] /\ VALS' = set_bit_array(VALS, w, TRUE)
      /\ MAP_UNDEFINED' = [MAP_UNDEFINED EXCEPT ![depth] = set_bit_array(@, F.next, FALSE)]
      /\ UNCHANGED << conditions, BIT_ARRAY_BUFFER, args, status >>
      /\ G.stage = F.stage /\ G.next = F.next /\ G.at = w /\ H.stage = "enter"
  BY DEF CallStep
<1>5. /\ n2' = n2 /\ \A u \in Assigned : MAP'[u] = MAP[u]
  BY <1>0, <1>3, <1>4, AssignEffect
<1>6. /\ Height' = h + 1 /\ stack'[h + 1] = H /\ stack'[h] = G
      /\ \A k \in 1 .. h - 1 : stack'[k] = stack[k]
      /\ InPlace' = InPlace
      /\ \A k \in 1 .. h : /\ AssignedAt(k)' = AssignedAt(k)
                           /\ ValuesAt(k)' = ValuesAt(k)
                           /\ FrameDepth(k)' = FrameDepth(k)
  BY <1>1, CallFrames
<1>7. TriesApart /\ FoundBehind  BY <1>0 DEF ApartRight
<1>8. F.stage = "new" => w \in Classes(args, vals)
  BY <1>1, <1>2, <1>7 DEF TriesApart
<1>9. F.stage = "old" => w \in vals
  BY <1>0, <1>1 DEF HInv, ActiveRight, TopRight, TriesOf
<1>10. ASSUME NEW k \in 1 .. h, stack'[k].stage = "new"
       PROVE  /\ SetBits(ToChoose(k)', n2) \subseteq Classes(args, ValuesAt(k))
              /\ stack'[k].at \in Classes(args, ValuesAt(k))
  <2>1. /\ stack'[k].stage = stack[k].stage /\ stack'[k].next = stack[k].next
        /\ k < h => stack'[k].at = stack[k].at
        /\ k = h => stack'[k].at = w
    BY <1>2, <1>4, <1>6
  <2>2. ToChoose(k)' = ToChoose(k)  BY <1>4, <1>6, <2>1 DEF ToChoose
  <2>3. /\ SetBits(ToChoose(k), n2) \subseteq Classes(args, ValuesAt(k))
        /\ k < h => stack[k].at \in Classes(args, ValuesAt(k))
    BY <1>1, <1>7, <1>10, <2>1 DEF TriesApart
  <2>4. stack'[k].at \in Classes(args, ValuesAt(k))
    <3>1. CASE k = h
      <4>1. F.stage = "new"  BY <1>2, <1>10, <2>1, <3>1
      <4> QED  BY <1>1, <1>8, <2>1, <3>1, <4>1
    <3>2. CASE k # h
      <4>1. k < h  BY <1>2, <3>2
      <4> QED  BY <2>1, <2>3, <4>1
    <3> QED  BY <3>1, <3>2
  <2> QED  BY <2>2, <2>3, <2>4
<1>11. TriesApart'
  <2> SUFFICES ASSUME NEW k \in 1 .. h + 1, stack'[k].stage = "new"
               PROVE  /\ SetBits(ToChoose(k)', n2') \subseteq Classes(args', ValuesAt(k)')
                      /\ k < h + 1 => stack'[k].at \in Classes(args', ValuesAt(k)')
    BY <1>6 DEF TriesApart, Classes
  <2>1. k \in 1 .. h  BY <1>2, <1>4, <1>6
  <2> QED  BY <1>4, <1>5, <1>6, <1>10, <2>1
<1>12. ASSUME NEW m, Behind(h, m)  PROVE Behind(h, m)'
  <2>1. PICK x : x = m[F.next]  OBVIOUS
  <2>2. HasTried(F, x, args, vals) /\ \A u \in Assigned : m[u] = MAP[u]
    BY <1>1, <1>2, <1>12, <2>1 DEF Behind
  <2>3. args \in Arguments /\ V2 = Vertices(args.digraph2)
    BY <1>0 DEF HInv, ActiveRight, ArgsRight, V2, n2, Vertices
  <2>4. Classes(args, vals) \subseteq V2 /\ Classes(args, vals) \cap vals = {} /\ vals \subseteq V2
    BY <1>0, <1>1, <2>3, ClassesType, ValuesFinite
  <2>5. x \in Nat  BY <1>2, <2>2, <2>4 DEF HasTried
  <2>6. x # w /\ HasTried(G, x, args, vals)
    <3>1. CASE F.stage = "new"
      <4>1. x \in Classes(args, vals) /\ x <= F.at  BY <2>2, <3>1 DEF HasTried
      <4>2. x # w /\ x <= w  BY <1>2, <2>5, <4>1
      <4> QED  BY <1>4, <4>1, <4>2 DEF HasTried
    <3>2. CASE F.stage = "old" /\ x \in Classes(args, vals)
      <4>1. x # w  BY <1>9, <2>4, <3>2
      <4> QED  BY <1>4, <3>2, <4>1 DEF HasTried
    <3>3. CASE F.stage = "old" /\ x \notin Classes(args, vals)
      <4>1. x \in vals /\ x <= F.at  BY <2>2, <3>3 DEF HasTried
      <4>2. x # w /\ x <= w  BY <1>2, <2>5, <4>1
      <4> QED  BY <1>4, <3>3, <4>1, <4>2 DEF HasTried
    <3> QED  BY <3>1, <3>2, <3>3
  <2>7. /\ stack'[h] = G /\ AssignedAt(h)' = Assigned /\ ValuesAt(h)' = vals
        /\ \A u \in Assigned : m[u] = MAP'[u]
        /\ m[G.next] = x /\ G.at = w /\ G.stage \in { "new", "old" }
    BY <1>1, <1>2, <1>4, <1>5, <1>6, <2>1, <2>2
  <2> QED  BY <1>4, <2>6, <2>7 DEF Behind, HasTried, Classes
<1>13. ASSUME NEW m, NEW k \in 1 .. h, Behind(k, m)  PROVE Behind(k, m)'
  <2>1. CASE k \in 1 .. h - 1
    <3>1. stack'[k] = stack[k] /\ k < Height  BY <1>1, <1>2, <1>6, <2>1
    <3>2. \A u \in AssignedAt(k) : MAP'[u] = MAP[u]  BY <1>5 DEF AssignedAt
    <3> QED  BY <1>4, <1>6, <1>13, <3>1, <3>2, StaysBehind
  <2>2. CASE k = h  BY <1>12, <1>13, <2>2
  <2> QED  BY <1>2, <2>1, <2>2
<1>14. FoundBehind'
  <2>1. \A m : \A k \in 1 .. Height : Behind(k, m) => \E j \in 1 .. Height' : Behind(j, m)'
    BY <1>1, <1>2, <1>6, <1>13
  <2> QED  BY <1>4, <1>7, <2>1, StillFound
<1> QED  BY <1>11, <1>14 DEF ApartRight

LEMMA NewApart ==
  ASSUME HInv, ApartRight, NEW possible, possible = ToChoose(Height), TryNew(possible)
  PROVE  ApartRight'
<1>1. status = "search" /\ F.stage = "new" /\ Active  BY DEF TryNew, InSearch, Active
<1>2. depth < n1  BY <1>1 DEF HInv, ActiveRight, FramesRight
<1>3. PICK w, G, H : /\ w \in V2 /\ w \in SetBits(ToChoose(Height), n2) /\ w > F.at
                     /\ CallStep(G, H, F.next, w) /\ results' = results
  BY NewIsCalled
<1> QED  BY <1>1, <1>2, <1>3, CallApart

LEMMA OldApart ==
  ASSUME HInv, ApartRight, TryOld, ~ InPlace
  PROVE  ApartRight'
<1>1. status = "search" /\ F.stage = "old" /\ Active  BY DEF TryOld, InSearch, Active
<1>2. depth < n1  BY <1>1 DEF HInv, ActiveRight, FramesRight
<1>3. PICK w, G, H : /\ w \in V2 /\ w \in SetBits(ToChoose(Height), n2) /\ w > F.at
                     /\ CallStep(G, H, F.next, w) /\ results' = results
  BY OldIsCalled
<1> QED  BY <1>1, <1>2, <1>3, CallApart

(* A map that agrees with all that is assigned is behind the caller when the *)
(* running call returns.                                                     *)
LEMMA LeaveFound ==
  ASSUME CP!IInv, HInv, TriesApart, status = "search", Leave, Height # 1,
         NEW m, \A u \in Assigned : m[u] = MAP[u],
         NEW h, h = Height - 1
  PROVE  h \in 1 .. Height' /\ Behind(h, m)'
<1>0. Active  BY DEF Active
<1>1. Height \in Nat \ {0} /\ AssignedAt(Height) = Assigned  BY <1>0, ActiveFacts
<1>2. PICK f, v, vals, A : f = stack[h] /\ v = f.next /\ vals = ValuesAt(h) /\ A = AssignedAt(h)
  OBVIOUS
<1>3. h \in 1 .. Height - 1 /\ h \in 1 .. Height /\ h < Height /\ h + 1 = Height /\ h \in 1 .. h
  BY <1>1
<1>4. /\ Height' = h /\ stack'[h] = f /\ AssignedAt(h)' = A /\ ValuesAt(h)' = vals
      /\ v \notin A
  BY <1>2, <1>3, LeaveFrames
<1>5. \A u \in Assigned : u # v => MAP'[u] = MAP[u]  BY <1>2, LeaveEffect
<1>6. CallerRight(h)  BY <1>0, <1>3 DEF HInv, ActiveRight, CallsRight
<1>7. /\ f.stage \in { "new", "old" } /\ v \in Assigned /\ f.at = MAP[v]
      /\ f.stage = "old" <=> f.at \in vals
  BY <1>1, <1>2, <1>3, <1>6 DEF CallerRight
<1>8. f.stage = "new" => f.at \in Classes(args, vals)
  BY <1>2, <1>3 DEF TriesApart
<1>9. f.at <= f.at
  <2>1. f \in FrameType  BY <1>0, <1>2, <1>3, ActiveFacts
  <2>2. f.at \in Int  BY <2>1 DEF FrameType
  <2> QED  BY <2>2
<1>10. HasTried(f, m[v], args, vals)  BY <1>7, <1>8, <1>9 DEF HasTried
<1>11. \A u \in A : m[u] = MAP'[u]
  <2>1. A \subseteq Assigned  BY <1>2 DEF AssignedAt
  <2> QED  BY <1>4, <1>5, <2>1
<1>12. args' = args  BY DEF Leave
<1>13. ~ (h < Height')  BY <1>1, <1>4
<1>14. HasTried(f, m[v], args', vals)  BY <1>10, <1>12
<1> QED  BY <1>2, <1>3, <1>4, <1>7, <1>11, <1>13, <1>14 DEF Behind, HasTried, Classes

LEMMA LeaveBehind ==
  ASSUME CP!IInv, HInv, TriesApart, status = "search", Leave, Height # 1,
         NEW m, NEW k \in 1 .. Height, Behind(k, m)
  PROVE  \E j \in 1 .. Height' : Behind(j, m)'
<1>0. Active  BY DEF Active
<1>1. PICK h : h = Height - 1  OBVIOUS
<1>2. Height \in Nat \ {0} /\ AssignedAt(Height) = Assigned  BY <1>0, ActiveFacts
<1>3. CASE k = Height
  <2>1. \A u \in Assigned : m[u] = MAP[u]  BY <1>2, <1>3 DEF Behind
  <2>2. h \in 1 .. Height' /\ Behind(h, m)'  BY <1>1, <2>1, LeaveFound
  <2> QED  BY <2>2
<1>4. CASE k # Height
  <2>1. k \in 1 .. h /\ k < Height  BY <1>1, <1>2, <1>4
  <2>2. PICK v : v = stack[h].next  OBVIOUS
  <2>3. /\ Height' = h /\ stack'[k] = stack[k] /\ AssignedAt(k)' = AssignedAt(k)
        /\ ValuesAt(k)' = ValuesAt(k) /\ v \notin AssignedAt(k)
    BY <1>1, <2>1, <2>2, LeaveFrames
  <2>4. \A u \in AssignedAt(k) : MAP'[u] = MAP[u]
    <3>1. AssignedAt(k) \subseteq Assigned  BY DEF AssignedAt
    <3>2. \A u \in Assigned : u # v => MAP'[u] = MAP[u]  BY <1>1, <2>2, LeaveEffect
    <3> QED  BY <2>3, <3>1, <3>2
  <2>5. args' = args  BY DEF Leave
  <2>6. Behind(k, m)'  BY <2>1, <2>3, <2>4, <2>5, StaysBehind
  <2> QED  BY <2>1, <2>3, <2>6
<1> QED  BY <1>3, <1>4

(* The calls that are left have what they had to try.                        *)
LEMMA LeaveTries ==
  ASSUME CP!IInv, HInv, TriesApart, status = "search", Leave, Height # 1
  PROVE  TriesApart'
<1>0. Active  BY DEF Active
<1>1. PICK h, v : h = Height - 1 /\ v = stack[h].next  OBVIOUS
<1>2. Height \in Nat \ {0}  BY <1>0, ActiveFacts
<1>3. /\ Height' = h
      /\ \A k \in 1 .. h : /\ stack'[k] = stack[k]
                           /\ ValuesAt(k)' = ValuesAt(k)
  BY <1>1, LeaveFrames
<1>4. \A k \in 1 .. h : ToChoose(k)' = ToChoose(k)  BY <1>1, LeaveCalls
<1>5. args' = args /\ n2' = n2  BY DEF Leave, n2
<1> SUFFICES ASSUME NEW k \in 1 .. h, stack'[k].stage = "new"
             PROVE  /\ SetBits(ToChoose(k)', n2') \subseteq Classes(args', ValuesAt(k)')
                    /\ k < h => stack'[k].at \in Classes(args', ValuesAt(k)')
  BY <1>3 DEF TriesApart, Classes
<1>6. k \in 1 .. Height /\ k < Height /\ stack[k].stage = "new"  BY <1>1, <1>2, <1>3
<1>7. /\ SetBits(ToChoose(k), n2) \subseteq Classes(args, ValuesAt(k))
      /\ stack[k].at \in Classes(args, ValuesAt(k))
  BY <1>6 DEF TriesApart
<1> QED  BY <1>3, <1>4, <1>5, <1>7

LEMMA LeaveApart ==
  ASSUME CP!IInv, HInv, ApartRight, status = "search", Leave, results' = results
  PROVE  ApartRight'
<1>1. CASE Height = 1
  <2>1. ~ Active'  BY <1>1 DEF Leave, Height, Active
  <2> QED  BY <2>1 DEF ApartRight
<1>2. CASE Height # 1
  <2>1. TriesApart /\ FoundBehind  BY DEF ApartRight, Active
  <2>2. TriesApart'  BY <1>2, <2>1, LeaveTries
  <2>3. \A m : \A k \in 1 .. Height : Behind(k, m) => \E j \in 1 .. Height' : Behind(j, m)'
    BY <1>2, <2>1, LeaveBehind
  <2>4. args' = args  BY DEF Leave
  <2>5. FoundBehind'  BY <2>1, <2>3, <2>4, StillFound
  <2> QED  BY <2>2, <2>5 DEF ApartRight
<1> QED  BY <1>1, <1>2

(* The map that is reported is, as the search numbers the vertices, what is  *)
(* assigned.                                                                 *)
LEMMA ReportedInternal ==
  ASSUME HInv, Active
  PROVE  \A u \in V1 : Internal(ExternalMap)[u] = MAP[u]
<1>1. args \in Arguments /\ V1 = Vertices(args.digraph1)
  BY DEF HInv, ActiveRight, ArgsRight, V1, n1, Vertices
<1>2. PICK order, I : order = ORDER /\ I = INVERSE_ORDER  OBVIOUS
<1>3. \A u \in V1 : order[u] \in V1 /\ I[order[u]] = u
  BY <1>1, <1>2, Renumbered DEF ORDER, INVERSE_ORDER
<1>4. ExternalMap = [v \in V1 |-> MAP[I[v]]]  BY <1>2 DEF ExternalMap, V1
<1>5. \A u \in V1 : Internal(ExternalMap)[u] = ExternalMap[order[u]]
  BY <1>2 DEF Internal
<1>6. \A u \in V1 : ExternalMap[order[u]] = MAP[u]  BY <1>3, <1>4
<1> QED  BY <1>5, <1>6

LEMMA ReportApart ==
  ASSUME CP!IInv, HInv, ApartRight, ResultsRight, status = "search", depth = n1, Leave,
         results' = Append(results, ExternalMap)
  PROVE  ApartRight'
<1>1. CASE Height = 1
  <2>1. ~ Active'  BY <1>1 DEF Leave, Height, Active
  <2> QED  BY <2>1 DEF ApartRight
<1>2. CASE Height # 1
  <2>0. Active  BY DEF Active
  <2>1. TriesApart /\ FoundBehind  BY <2>0 DEF ApartRight
  <2>2. TriesApart'  BY <1>2, <2>1, LeaveTries
  <2>3. args' = args  BY DEF Leave
  <2>5. PICK T, f, L : /\ T = [Vertices(args.digraph1) -> Vertices(args.digraph2)]
                       /\ f = ExternalMap /\ L = Len(results)
    OBVIOUS
  <2>6. results \in Seq(T) /\ f \in T /\ results' = Append(results, f)
    BY <2>0, <2>5, WholeMap DEF ResultsRight
  <2>7. /\ L \in Nat /\ Len(results') = L + 1 /\ results'[L + 1] = f
        /\ \A i \in 1 .. L : results'[i] = results[i]
    BY <2>5, <2>6, AppendProperties, LenProperties
  <2>8. \A i \in 1 .. Len(results') : i = L + 1 \/ i \in 1 .. L  BY <2>7
  <2>9. ASSUME NEW i, results'[i] = f
        PROVE  \E j \in 1 .. Height' : Behind(j, Internal(results[i]))'
    <3>1. PICK m : m = Internal(f)  OBVIOUS
    <3>2. \A u \in Assigned : m[u] = MAP[u]
      BY <2>0, <2>5, <3>1, ReportedInternal, ActiveFacts
    <3>3. PICK h : h = Height - 1  OBVIOUS
    <3>4. h \in 1 .. Height' /\ Behind(h, m)'  BY <1>2, <2>1, <3>2, <3>3, LeaveFound
    <3>5. m = Internal(results[i])'
      BY <2>3, <2>9, <3>1 DEF Internal, ORDER, V1, n1
    <3> QED  BY <3>4, <3>5 DEF Behind
  <2>10. ASSUME NEW i \in 1 .. L  PROVE \E j \in 1 .. Height' : Behind(j, Internal(results[i]))'
    <3>1. PICK m : m = Internal(results[i])  OBVIOUS
    <3>2. PICK k \in 1 .. Height : Behind(k, Internal(results[i]))
      BY <2>1, <2>5 DEF FoundBehind
    <3>3. Behind(k, m)  BY <3>1, <3>2
    <3>4. PICK j \in 1 .. Height' : Behind(j, m)'  BY <1>2, <2>1, <3>3, LeaveBehind
    <3>5. m = Internal(results[i])'  BY <2>3, <2>7, <3>1 DEF Internal, ORDER, V1, n1
    <3> QED  BY <3>4, <3>5 DEF Behind
  <2>11. FoundBehind'
    <3> SUFFICES ASSUME NEW i \in 1 .. Len(results')
                 PROVE  \E j \in 1 .. Height' : Behind(j, Internal(results[i]))'
      BY DEF FoundBehind
    <3>1. CASE i = L + 1
      <4>1. results'[i] = f  BY <2>7, <3>1
      <4> QED  BY <2>9, <4>1
    <3>2. CASE i # L + 1
      <4>1. i \in 1 .. L  BY <2>8, <3>2
      <4>2. results'[i] = results[i]  BY <2>7, <4>1
      <4> QED  BY <2>10, <4>1, <4>2
    <3> QED  BY <3>1, <3>2
  <2> QED  BY <2>2, <2>11 DEF ApartRight
<1> QED  BY <1>1, <1>2

(* A map that an element of the group takes to the one reported would have   *)
(* to differ first in a value of the same orbit.                             *)
LEMMA NotTakenTo ==
  ASSUME HInv, ApartRight, status = "search", depth = n1, F.stage = "enter",
         NEW i \in 1 .. Len(results),
         results[i] \in [Vertices(args.digraph1) -> Vertices(args.digraph2)]
  PROVE  ~ Equivalent(args, results[i], ExternalMap)
<1> SUFFICES ASSUME NEW p \in Group(args),
                    ExternalMap = [v \in DOMAIN results[i] |-> p[results[i][v]]]
             PROVE  FALSE
  BY DEF Equivalent
<1>0. Active  BY DEF Active
<1>1. TriesApart /\ FoundBehind  BY <1>0 DEF ApartRight
<1>2. PICK r, m : r = results[i] /\ m = Internal(r)  OBVIOUS
<1>3. /\ args \in Arguments /\ V1 = Vertices(args.digraph1) /\ V2 = Vertices(args.digraph2)
  BY <1>0 DEF HInv, ActiveRight, ArgsRight, V1, n1, V2, n2, Vertices
<1>4. \A u \in V1 : p[m[u]] = MAP[u]
  <2>1. PICK order : order = ORDER  OBVIOUS
  <2>2. \A u \in V1 : order[u] \in V1  BY <1>3, <2>1, Renumbered DEF ORDER
  <2>3. \A u \in V1 : m[u] = r[order[u]]  BY <1>2, <2>1 DEF Internal
  <2>4. \A v \in V1 : ExternalMap[v] = p[r[v]]  BY <1>2, <1>3
  <2>5. \A u \in V1 : Internal(ExternalMap)[u] = ExternalMap[order[u]]
    BY <2>1 DEF Internal
  <2>6. \A u \in V1 : Internal(ExternalMap)[u] = MAP[u]  BY <1>0, ReportedInternal
  <2>7. PICK g : g = ExternalMap  OBVIOUS
  <2> SUFFICES ASSUME NEW u \in V1  PROVE p[m[u]] = MAP[u]
    OBVIOUS
  <2>8. g[order[u]] = MAP[u]  BY <2>5, <2>6, <2>7
  <2>9. g[order[u]] = p[r[order[u]]]  BY <2>2, <2>4, <2>7
  <2> QED  BY <2>3, <2>8, <2>9
<1>5. PICK k \in 1 .. Height : Behind(k, m)  BY <1>1, <1>2 DEF FoundBehind
<1>6. PICK f, v, A, vals : f = stack[k] /\ v = f.next /\ A = AssignedAt(k) /\ vals = ValuesAt(k)
  OBVIOUS
<1>7. /\ f.stage \in { "new", "old" } /\ \A u \in A : m[u] = MAP[u]
      /\ k < Height => m[v] # f.at
      /\ HasTried(f, m[v], args, vals)
  BY <1>5, <1>6 DEF Behind
<1>8. k < Height /\ k \in 1 .. Height - 1
  <2>1. Height \in Nat \ {0} /\ F = stack[Height]  BY <1>0, ActiveFacts
  <2>2. k # Height  BY <1>6, <1>7, <2>1
  <2> QED  BY <2>1, <2>2
<1>9. CallerRight(k)  BY <1>0, <1>8 DEF HInv, ActiveRight, CallsRight
<1>10. v \in V1 /\ f.at = MAP[v] /\ (f.stage = "old" => f.at \in vals)
  BY <1>6, <1>9 DEF CallerRight, TriesRight
<1>11. A \subseteq V1 /\ vals \subseteq V2
  <2>1. Assigned \subseteq V1  BY <1>0, ActiveFacts
  <2>2. \A u \in Assigned : MAP[u] \in V2  BY <1>0 DEF HInv, ActiveRight, MapRight
  <2>3. A \subseteq Assigned  BY <1>6 DEF AssignedAt
  <2>4. vals = { MAP[u] : u \in A }  BY <1>6 DEF ValuesAt
  <2> QED  BY <2>1, <2>2, <2>3, <2>4
<1>12. p \in Fixing(Group(args), vals)
  <2>1. vals = { MAP[u] : u \in A }  BY <1>6 DEF ValuesAt
  <2>2. \A u \in A : p[MAP[u]] = MAP[u]  BY <1>4, <1>7, <1>11
  <2>3. \A w \in vals : p[w] = w  BY <2>1, <2>2
  <2> QED  BY <2>3 DEF Fixing
<1>13. m[v] \in Classes(args, vals) \cup vals  BY <1>7 DEF HasTried
<1>14. f.at \in Classes(args, vals) \cup vals
  <2>1. f.stage = "new" => f.at \in Classes(args, vals)
    BY <1>1, <1>6, <1>8 DEF TriesApart
  <2> QED  BY <1>7, <1>10, <2>1
<1>15. p[m[v]] = f.at  BY <1>4, <1>10
<1>16. PICK a, x, y : a = args /\ x = m[v] /\ y = f.at  OBVIOUS
<1>17. x = y
  <2>1. a \in Arguments /\ vals \in SUBSET Vertices(a.digraph2)  BY <1>3, <1>11, <1>16
  <2>2. /\ p \in Fixing(Group(a), vals) /\ p[x] = y
        /\ x \in Classes(a, vals) \cup vals /\ y \in Classes(a, vals) \cup vals
    BY <1>12, <1>13, <1>14, <1>15, <1>16
  <2> QED  BY <2>1, <2>2, ClassesApart
<1> QED  BY <1>7, <1>8, <1>16, <1>17

(* The partial map is installed before anything is found.                    *)
LEMMA PartialApart ==
  ASSUME HInv, HInv', ApartRight, init_partial_map_and_find
  PROVE  ApartRight'
<1> SUFFICES ASSUME Active'  PROVE ApartRight'
  BY DEF ApartRight
<1>1. /\ status = "partial" /\ Active /\ results' = results
      /\ PartialDone \/ status' = "partial"
  BY DEF init_partial_map_and_find, PartialEntry, PartialNarrow, PartialNarrowed,
         PartialInstall, PartialDone, InPartial, Active
<1>2. Height = 1 /\ F.stage \notin { "new", "old" } /\ F = stack[Height]
  BY <1>1, ActiveFacts DEF HInv, ActiveRight, FramesRight, TopRight, PartialOf
<1>3. 1 .. Len(results) = {}
  <2> SUFFICES ASSUME NEW i \in 1 .. Len(results)  PROVE FALSE
    OBVIOUS
  <2>1. PICK k \in 1 .. Height : Behind(k, Internal(results[i]))
    BY <1>1 DEF ApartRight, FoundBehind
  <2>2. k = 1 /\ stack[k].stage \in { "new", "old" }  BY <1>2, <2>1 DEF Behind
  <2> QED  BY <1>2, <2>2
<1>4. Height' = 1 /\ stack'[1].stage # "new"
  <2>1. CASE PartialDone
    <3>1. PICK G : G = Frame(F.pos, F.rep_depth, F.has_trivial_stab, F.rank)  OBVIOUS
    <3>2. /\ stack' = Append(Front(stack), G) /\ UNCHANGED << depth, MAP, args >>
      BY <2>1, <3>1 DEF PartialDone, Running, globals
    <3>3. Height' = Height /\ stack'[Height] = G  BY <1>1, <3>2, StayEffect
    <3>4. G.stage = "enter"  BY <3>1 DEF Frame
    <3> QED  BY <1>2, <3>3, <3>4
  <2>2. CASE status' = "partial"
    <3>1. ActiveRight'  BY DEF HInv
    <3>2. Height' = 1  BY <2>2, <3>1 DEF ActiveRight, FramesRight
    <3>3. F' = stack'[1]  BY <3>2 DEF F, Last, Height
    <3>4. F'.stage # "new"  BY <2>2, <3>1 DEF ActiveRight, TopRight, PartialOf
    <3> QED  BY <3>2, <3>3, <3>4
  <2> QED  BY <1>1, <2>1, <2>2
<1>5. TriesApart'  BY <1>4 DEF TriesApart
<1>6. FoundBehind'  BY <1>1, <1>3 DEF FoundBehind
<1> QED  BY <1>5, <1>6 DEF ApartRight

LEMMA SearchApart ==
  ASSUME CP!IInv, HInv, StabsRight, ResultsRight, ApartRight, status = "search", SearchStep
  PROVE  ApartRight'
<1>1. CASE \E m \in BOOLEAN : Report(m)
  <2>1. PICK m \in BOOLEAN : Report(m)  BY <1>1
  <2>2. CASE status' = "jumped"  BY <2>2 DEF ApartRight, Active
  <2>3. CASE status' # "jumped"
    <3>1. /\ depth = n1 /\ Leave
          /\ results' = results \/ results' = Append(results, ExternalMap)
      BY <2>1, <2>3 DEF Report
    <3>2. CASE results' = results  BY <3>1, <3>2, LeaveApart
    <3>3. CASE results' = Append(results, ExternalMap)  BY <3>1, <3>3, ReportApart
    <3> QED  BY <3>1, <3>2, <3>3
  <2> QED  BY <2>2, <2>3
<1>2. CASE Leave /\ UNCHANGED results  BY <1>2, LeaveApart
<1>3. CASE Enter \/ NarrowOthers \/ Narrowed
  <2>1. results' = results  BY <1>3 DEF Enter, NarrowOthers, Narrowed
  <2> QED  BY <1>3, <2>1, MoveApart
<1>4. CASE \E v : NarrowTo(PartialUpdate(v), v)
  <2>1. results' = results  BY <1>4 DEF NarrowTo
  <2> QED  BY <1>4, <2>1, MoveApart
<1>5. CASE ~ InPlace /\ (Pick("new", NewValues) \/ Pick("old", OldValues) \/ TurnToOld)
  <2>1. CASE Pick("new", NewValues)
    <3>1. results' = results  BY <2>1 DEF Pick
    <3> QED  BY <1>5, <2>1, <3>1, PickApart
  <2>2. CASE Pick("old", OldValues)
    <3>1. results' = results  BY <2>2 DEF Pick
    <3> QED  BY <1>5, <2>2, <3>1, PickApart
  <2>3. CASE TurnToOld
    <3>1. results' = results  BY <2>3 DEF TurnToOld
    <3> QED  BY <1>5, <2>3, <3>1, PickApart
  <2> QED  BY <1>5, <2>1, <2>2, <2>3
<1>6. CASE InPlace /\ PickInPlace
  <2>1. results' = results  BY <1>6 DEF PickInPlace
  <2> QED  BY <1>6, <2>1, PickInPlaceApart
<1>7. CASE \E possible : possible = ToChoose(Height) /\ TryNew(possible)
  BY <1>7, NewApart
<1>8. CASE ~ InPlace /\ TryOld  BY <1>8, OldApart
<1> QED
  BY <1>1, <1>2, <1>3, <1>4, <1>5, <1>6, <1>7, <1>8 DEF SearchStep

LEMMA NextApartRight ==
  ASSUME CP!IInv, HInv, HInv', StabsRight, ResultsRight, ApartRight, [Next]_vars
  PROVE  ApartRight'
<1>1. CASE \E a \in Arguments : Call(a)
  <2>1. PICK a \in Arguments : Call(a)  BY <1>1
  <2>2. CASE Begin(a)
    <3>1. PICK G : G = Frame(UNDEFINED, 0, Group(a) = {Identity(a.digraph2.n)}, 0)  OBVIOUS
    <3>2. stack' = << G >> /\ results' = << >>  BY <2>2, <3>1 DEF Begin, NewCall
    <3>3. G.stage = "enter"  BY <3>1 DEF Frame
    <3>4. TriesApart'  BY <3>2, <3>3 DEF TriesApart, Height
    <3>5. FoundBehind'  BY <3>2 DEF FoundBehind
    <3> QED  BY <3>4, <3>5 DEF ApartRight
  <2>3. CASE RefuseAtOnce(a) \/ RefuseInInit(a)
    <3>1. status' = "refused"  BY <2>3 DEF RefuseAtOnce, RefuseInInit
    <3> QED  BY <3>1 DEF ApartRight, Active
  <2> QED  BY <2>1, <2>2, <2>3 DEF Call
<1>2. CASE Run  BY <1>2, RunSteps, PartialApart, SearchApart
<1>3. CASE UNCHANGED vars
  <2>1. UNCHANGED << args, conditions, stack, depth, MAP, BIT_ARRAY_BUFFER, status, results >>
    BY <1>3 DEF vars, globals
  <2>2. /\ Height' = Height /\ InPlace' = InPlace /\ n2' = n2 /\ Active' = Active
        /\ Assigned' = Assigned
    BY <2>1 DEF Height, InPlace, n1, n2, Active, Assigned
  <2>3. \A k : /\ AssignedAt(k)' = AssignedAt(k) /\ ValuesAt(k)' = ValuesAt(k)
               /\ ToChoose(k)' = ToChoose(k)
    BY <2>1, <2>2 DEF AssignedAt, ValuesAt, Tried, ToChoose, FrameDepth
  <2>4. ASSUME Active'  PROVE TriesApart' /\ FoundBehind'
    <3>1. TriesApart /\ FoundBehind  BY <2>2, <2>4 DEF ApartRight
    <3>2. TriesApart'  BY <2>1, <2>2, <2>3, <3>1 DEF TriesApart, Classes
    <3>3. \A m, k : Behind(k, m) => Behind(k, m)'
      BY <2>1, <2>2, <2>3 DEF Behind, HasTried, Classes
    <3>4. \A m : \A k \in 1 .. Height : Behind(k, m) => \E j \in 1 .. Height' : Behind(j, m)'
      BY <2>2, <3>3
    <3> QED  BY <2>1, <3>1, <3>2, <3>4, StillFound
  <2> QED  BY <2>4 DEF ApartRight
<1> QED  BY <1>1, <1>2, <1>3 DEF Next

LEMMA NextIrredundant ==
  ASSUME HInv, ResultsRight, ApartRight, Irredundant, [Next]_vars
  PROVE  Irredundant'
<1>1. CASE \E a \in Arguments : Call(a)
  <2>1. results' = << >>
    BY <1>1 DEF Call, RefuseAtOnce, RefuseInInit, Begin, NewCall
  <2> QED  BY <2>1 DEF Irredundant
<1>2. CASE Run
  <2>1. args' = args  BY <1>2, OthersReportNothing
  <2>2. CASE results' = results
    BY <2>1, <2>2 DEF Irredundant, Equivalent
  <2>3. CASE \E m \in BOOLEAN : Report(m) /\ status = "search" /\ results' # results
    <3>1. /\ status = "search" /\ depth = n1 /\ F.stage = "enter" /\ Active
          /\ results' = Append(results, ExternalMap)
      BY <2>3 DEF Report, InSearch, Active
    <3>2. PICK T, f, L : /\ T = [Vertices(args.digraph1) -> Vertices(args.digraph2)]
                         /\ f = ExternalMap /\ L = Len(results)
      OBVIOUS
    <3>3. results \in Seq(T) /\ f \in T /\ results' = Append(results, f)
      BY <3>1, <3>2, WholeMap DEF ResultsRight
    <3>4. /\ L \in Nat /\ Len(results') = L + 1 /\ results'[L + 1] = f
          /\ \A i \in 1 .. L : results'[i] = results[i] /\ results[i] \in T
      BY <3>2, <3>3, AppendProperties, LenProperties, ElementOfSeq
    <3>5. Last(results') = f  BY <3>4 DEF Last
    <3>6. \A i \in 1 .. L : ~ Equivalent(args, results[i], f)
      BY <3>1, <3>2, <3>4, NotTakenTo
    <3>7. \A i \in 1 .. Len(results') - 1 : ~ Equivalent(args', results'[i], Last(results'))
      <4>1. Len(results') - 1 = L  BY <3>4
      <4> QED  BY <2>1, <3>4, <3>5, <3>6, <4>1
    <3> QED  BY <3>7 DEF Irredundant
  <2> QED  BY <1>2, <2>2, <2>3, OthersReportNothing
<1>3. CASE UNCHANGED vars  BY <1>3 DEF vars, Irredundant, Equivalent
<1> QED  BY <1>1, <1>2, <1>3 DEF Next

(* No map that the hook is called with is taken by an element of the group   *)
(* to one of the maps of the same call before it: each stands for an orbit   *)
(* of its own, whatever part of the map is given, in all the six searches,   *)
(* and after any calls before.                                               *)
THEOREM ReportsIrredundant == Spec => []Irredundant
<1>1. SearchInv => CP!IInv /\ HInv  BY DEF SearchInv
<1>2. Init => ResultsRight /\ StabsRight /\ ApartRight /\ Irredundant
  BY InitResultsRight DEF Init, StabsRight, ApartRight, Active, Irredundant
<1>3. SearchInv /\ ResultsRight /\ [Next]_vars => ResultsRight'
  BY <1>1, NextResultsRight
<1>4. SearchInv /\ StabsRight /\ [Next]_vars => StabsRight'
  BY <1>1, NextStabsRight
<1>5. SearchInv' => HInv'  BY DEF SearchInv
<1>6. SearchInv /\ HInv' /\ StabsRight /\ ResultsRight /\ ApartRight /\ [Next]_vars
        => ApartRight'
  BY <1>1, NextApartRight
<1>7. SearchInv /\ ResultsRight /\ ApartRight /\ Irredundant /\ [Next]_vars => Irredundant'
  BY <1>1, NextIrredundant
<1> QED
  BY <1>2, <1>3, <1>4, <1>5, <1>6, <1>7, SearchesInductive, PTL DEF Spec

==============================================================================
