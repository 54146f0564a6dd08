------------------------------ MODULE HomoSearch ------------------------------
(***************************************************************************)
(* The backtracking searches of src/homos.c: FuncHomomorphismDigraphsFinder *)
(* and the six functions find_graph_homos, find_graph_monos,                *)
(* find_graph_embeddings and their digraph counterparts.  All their state   *)
(* is in static globals of that file, which keep whatever the previous call *)
(* left; the C stack is the variable stack, one frame per active call.      *)
(*                                                                         *)
(* A step is one iteration of a loop of a search function: one vertex whose *)
(* candidates are narrowed, one value tried, one return.  Groups are the    *)
(* sets of their elements, where the code holds generators.                 *)
(***************************************************************************)
EXTENDS ConditionsData, HomoData, FiniteSetsExt, SequencesExt

CONSTANTS
  Arguments,       \* the argument records of the calls
  MaxCalls,        \* how many calls are made, one after the other
  HookReturns      \* what the hook function may return

(* What FuncHomomorphismDigraphsFinder makes sure of before it begins.       *)
ASSUME ArgumentsAssumption ==
  \A a \in Arguments :
    /\ a.digraph1.n \in 1 .. Size - 1 /\ a.digraph2.n \in 1 .. Size - 1
    /\ a.injective \in 0 .. 2
    /\ a.image \subseteq Vertices(a.digraph2)
    /\ DOMAIN a.partial_map \subseteq Vertices(a.digraph1)
    /\ \A v \in DOMAIN a.partial_map : a.partial_map[v] \in a.image
    /\ a.order \in Bijection(Vertices(a.digraph1), Vertices(a.digraph1))
(* The digraphs have the arrows of their vertices, and the colours are given *)
(* for both or for none.                                                     *)
ASSUME DigraphsAssumption ==
  \A a \in Arguments :
    /\ a.digraph1.edges \subseteq Vertices(a.digraph1) \X Vertices(a.digraph1)
    /\ a.colors1 = << >> <=> a.colors2 = << >>
(* A permutation group has the inverse of each of its elements.              *)
ASSUME GroupAssumption ==
  \A a \in Arguments : \A p \in a.aut_grp : \E q \in a.aut_grp :
    \A w \in Vertices(a.digraph2) : q[p[w]] = w
(* The documentation asks for a positive number of results.                  *)
ASSUME MaxResultsAssumption ==
  Arguments # {} /\ \A a \in Arguments : a.max_results \in Nat \ {0}
(* The sizes of cells are uint16_t and compared with UNDEFINED.              *)
ASSUME SizesAssumption == BlockBits * number_of_blocks(Size) < UNDEFINED
ASSUME MaxCallsAssumption == MaxCalls \in Nat
ASSUME HookReturnsAssumption == HookReturns \subseteq BOOLEAN

VARIABLES
  conditions,                     \* CONDITIONS
  depth,                          \* the depth of the running call
  open,                           \* does CONDITIONS hold its bottom row?
  MAP, VALS, MAP_UNDEFINED,       \* the partial map and what it leaves open
  BIT_ARRAY_BUFFER, IMAGE_RESTRICT,
  STAB_GENS, REPS,                \* stabilisers and orbit representatives
  args,                           \* the arguments of the call
  stack,                          \* the active calls of the search function
  status,                         \* see StatusType
  results,                        \* the maps the hook was called with
  calls                           \* the number of calls made

globals == << MAP, VALS, MAP_UNDEFINED, BIT_ARRAY_BUFFER, IMAGE_RESTRICT,
              STAB_GENS, REPS >>
vars == << conditions, depth, open, globals, args, stack, status, results, calls >>

(* "partial" while the partial map is installed, "search" in the recursion; *)
(* "ended" when the root call returned and "jumped" when longjmp left it;   *)
(* "refused" when the arguments alone rule a result out.                    *)
StatusType == {"idle", "partial", "search", "ended", "jumped", "refused"}

n1 == args.digraph1.n
n2 == args.digraph2.n

Undirected(a) == IsSymmetricDigraph(a.digraph1) /\ IsSymmetricDigraph(a.digraph2)

(* ORDER: internal -> external vertices of digraph1; INVERSE_ORDER back.    *)
ORDER == args.order
InverseOrder(a) == AntiFunction(a.order)
INVERSE_ORDER == InverseOrder(args)

(* The edges of the copy of digraph1 the search works on.                   *)
InternalEdges(a) ==
  { << InverseOrder(a)[e[1]], InverseOrder(a)[e[2]] >> : e \in a.digraph1.edges }

Adjacent1(u, v) == << u, v >> \in InternalEdges(args)
Neighbours1(v) == { u \in 0 .. n1 - 1 : Adjacent1(v, u) }
OutNeighbours2(w) == { x \in 0 .. n2 - 1 : IsAdjacent(args.digraph2, w, x) }
InNeighbours2(w) == { x \in 0 .. n2 - 1 : IsAdjacent(args.digraph2, x, w) }

------------------------------------------------------------------------------
(* compute_stabs_and_orbit_reps: the stabiliser of pt in the group of level *)
(* rep_depth - 1, and the least value of each of its orbits among the       *)
(* values that are allowed and not taken.                                    *)
(* Faulty variants: the point is not fixed; every value stands for itself.   *)
Stabiliser_none(group, pt) == group
OrbitReps_all(group, image, vals) == image \ vals

Stabiliser(group, pt) == { p \in group : p[pt] = pt }

OrbitReps(group, image, vals) ==
  { w \in image \ vals : \A p \in group : p[w] \in image \ vals => w <= p[w] }

compute_stabs_and_orbit_reps(rep_depth, d, pt, vals) ==
  LET stab == Stabiliser(STAB_GENS[rep_depth - 1], pt)
      reps == IF stab = {Identity(n2)}
              THEN complement_bit_arrays(
                     copy_bit_array(REPS[rep_depth], IMAGE_RESTRICT, n2), vals, n2)
              ELSE init_bit_array(REPS[rep_depth], FALSE, n2)
                     \cup OrbitReps(stab, IMAGE_RESTRICT, vals)
  IN  IF d = n1 - 1
      THEN [STAB_GENS |-> STAB_GENS, REPS |-> REPS, trivial |-> FALSE]
      ELSE [STAB_GENS |-> [STAB_GENS EXCEPT ![rep_depth] = stab],
            REPS      |-> [REPS EXCEPT ![rep_depth] = reps],
            trivial   |-> stab = {Identity(n2)}]

(* The *_update_conditions helpers: narrow what vertex may be mapped to,    *)
(* now that last_defined is mapped to MAP[last_defined].                    *)
graph_homo_update_conditions(c, d, last_defined, vertex) ==
  store_size_conditions(
    push_conditions(c, d, vertex, OutNeighbours2(MAP[last_defined])), vertex)

graph_mono_update_conditions(c, d, last_defined, vertex) ==
  store_size_conditions(
    push_conditions(c, d, vertex, OutNeighbours2(MAP[last_defined])), vertex)

graph_embed_update_conditions(c, d, last_defined, vertex) ==
  LET pushed == PushCopy(c, d, vertex)
      nbs    == OutNeighbours2(MAP[last_defined])
  IN  store_size_conditions(
        IF Adjacent1(last_defined, vertex) THEN IntersectTop(pushed, vertex, nbs)
        ELSE ComplementTop(pushed, vertex, nbs), vertex)

(* A faulty variant: an arrow back is taken for an arrow forth.              *)
digraph_homo_update_conditions_forth(c, d, last_defined, vertex) ==
  IF Adjacent1(last_defined, vertex) \/ Adjacent1(vertex, last_defined)
  THEN store_size_conditions(
         push_conditions(c, d, vertex, OutNeighbours2(MAP[last_defined])), vertex)
  ELSE c

(* Not adjacent to the last vertex: not pushed.                              *)
digraph_homo_update_conditions(c, d, last_defined, vertex) ==
  LET out == OutNeighbours2(MAP[last_defined])
      in  == InNeighbours2(MAP[last_defined])
      forward  == Adjacent1(last_defined, vertex)
      backward == Adjacent1(vertex, last_defined)
      narrowed == IF forward /\ backward
                  THEN IntersectTop(push_conditions(c, d, vertex, out), vertex, in)
                  ELSE push_conditions(c, d, vertex, IF forward THEN out ELSE in)
  IN  IF forward \/ backward THEN store_size_conditions(narrowed, vertex) ELSE c

digraph_mono_update_conditions(c, d, last_defined, vertex) ==
  LET pushed == PushCopy(c, d, vertex)
      after_out == IF Adjacent1(last_defined, vertex)
                   THEN IntersectTop(pushed, vertex, OutNeighbours2(MAP[last_defined]))
                   ELSE pushed
      after_in  == IF Adjacent1(vertex, last_defined)
                   THEN IntersectTop(after_out, vertex, InNeighbours2(MAP[last_defined]))
                   ELSE after_out
  IN  store_size_conditions(after_in, vertex)

digraph_embed_update_conditions(c, d, last_def, vertex) ==
  LET pushed == PushCopy(c, d, vertex)
      out == OutNeighbours2(MAP[last_def])
      in  == InNeighbours2(MAP[last_def])
      after_out == IF Adjacent1(last_def, vertex)
                   THEN IntersectTop(pushed, vertex, out)
                   ELSE ComplementTop(pushed, vertex, out)
      after_in  == IF Adjacent1(vertex, last_def)
                   THEN IntersectTop(after_out, vertex, in)
                   ELSE ComplementTop(after_out, vertex, in)
  IN  store_size_conditions(after_in, vertex)

------------------------------------------------------------------------------
(* FuncHomomorphismDigraphsFinder and init_data_from_args.                  *)

(* A faulty variant: the rank may not be the size of the image.              *)
RuledOut_strictly(a) ==
  LET hinted == a.hint # UNDEFINED
  IN  \/ a.injective > 0 /\ a.digraph1.n > a.digraph2.n
      \/ hinted /\ a.hint >= Cardinality(a.image)

(* Arguments that at once rule out every map.                               *)
RuledOut(a) ==
  LET m1 == a.digraph1.n
      m2 == a.digraph2.n
      hinted == a.hint # UNDEFINED
  IN  \/ a.injective > 0 /\ (m1 > m2 \/ (hinted /\ a.hint # m1))
      \/ hinted /\ (a.hint > m1 \/ a.hint > m2 \/ a.hint > Cardinality(a.image))
      \/ a.image = {}

(* The image is counted over the blocks of the first nr1 bits.              *)
ImageTooSmall(a) ==
  a.injective > 0 /\ size_bit_array(a.image, a.digraph1.n) < a.digraph1.n

(* The entries of the partial map whose value an earlier entry has.         *)
Clashes(a) ==
  IF a.injective = 0 THEN {}
  ELSE { v \in DOMAIN a.partial_map :
           \E u \in DOMAIN a.partial_map : u < v /\ a.partial_map[u] = a.partial_map[v] }

(* The bottom row after the entries below upto of the partial map: they     *)
(* have their value, and the columns with the numbers of these entries      *)
(* (internal numbers, whatever the order) are cut down to the image.         *)
PartialBase(a, upto) ==
  LET Entry(i) == a.order[i] \in DOMAIN a.partial_map /\ a.order[i] < upto
  IN  [i \in 0 .. a.digraph1.n - 1 |->
         (IF Entry(i) THEN {a.partial_map[a.order[i]]} ELSE Bits)
           \cap (IF i < upto THEN a.image ELSE Bits)]

Loops(D) == { w \in Vertices(D) : IsAdjacent(D, w, w) }

SameColor(a, v) == { w \in Vertices(a.digraph2) : a.colors1[v] = a.colors2[w] }

(* The whole bottom row: loops go to loops, and colours are kept.            *)
BaseRow(a) ==
  LET len == IF DOMAIN a.partial_map = {} THEN 0 ELSE Max(DOMAIN a.partial_map) + 1
      row == PartialBase(a, len)
  IN  [i \in DOMAIN row |->
         row[i]
         \cap (IF << i, i >> \in InternalEdges(a) THEN Loops(a.digraph2) ELSE Bits)
         \cap (IF a.colors1 = << >> THEN Bits ELSE SameColor(a, a.order[i]))]

Frame(pos, rep_depth, trivial, rank) ==
  [ pos |-> pos, rep_depth |-> rep_depth, has_trivial_stab |-> trivial,
    rank |-> rank, stage |-> "enter", at |-> -1, next |-> -1, min |-> UNDEFINED ]

NewCall(a) ==
  /\ status \notin {"partial", "search"}
  /\ calls < MaxCalls
  /\ calls' = calls + 1
  /\ args' = a
  /\ results' = << >>

(* The arguments rule everything out: no global variable is touched.        *)
RefuseAtOnce(a) ==
  /\ NewCall(a)
  /\ RuledOut(a)
  /\ status' = "refused"
  /\ UNCHANGED << conditions, depth, open, globals, stack >>

(* A faulty variant: the values of the call before are still taken.          *)
ClearMaps_except_vals(a) ==
  /\ MAP_UNDEFINED' = [MAP_UNDEFINED EXCEPT
                         ![0] = init_bit_array(@, TRUE, a.digraph1.n)]
  /\ VALS' = VALS
  /\ IMAGE_RESTRICT' = a.image

ClearMaps(a) ==
  /\ MAP_UNDEFINED' = [MAP_UNDEFINED EXCEPT
                         ![0] = init_bit_array(@, TRUE, a.digraph1.n)]
  /\ VALS' = init_bit_array(VALS, FALSE, a.digraph2.n)
  /\ IMAGE_RESTRICT' = a.image

(* init_data_from_args returns false, part of the way.                       *)
RefuseInInit(a) ==
  /\ NewCall(a)
  /\ ~ RuledOut(a)
  /\ ImageTooSmall(a) \/ Clashes(a) # {}
  /\ status' = "refused"
  /\ LET upto == IF ImageTooSmall(a) THEN 0 ELSE Min(Clashes(a))
         seen == { a.partial_map[v] : v \in {u \in DOMAIN a.partial_map : u < upto} }
     IN  /\ conditions' = NarrowBottom(conditions, a.digraph1.n, a.digraph2.n,
                                       PartialBase(a, upto))
         /\ BIT_ARRAY_BUFFER' =
              IF ImageTooSmall(a) THEN BIT_ARRAY_BUFFER
              ELSE [BIT_ARRAY_BUFFER EXCEPT
                      ![0] = init_bit_array(@, FALSE, a.digraph2.n) \cup seen]
  /\ ClearMaps(a)
  /\ depth' = 0
  /\ open' = FALSE
  /\ UNCHANGED << MAP, STAB_GENS, REPS, stack >>

(* Everything is initialised and the partial map is next.                    *)
Begin(a) ==
  /\ NewCall(a)
  /\ ~ (RuledOut(a) \/ ImageTooSmall(a) \/ Clashes(a) # {})
  /\ status' = "partial"
  /\ conditions' = StartWith(conditions, a.digraph1.n, a.digraph2.n, BaseRow(a))
  /\ ClearMaps(a)
  /\ BIT_ARRAY_BUFFER' =
       [BIT_ARRAY_BUFFER EXCEPT
          ![0] = init_bit_array(@, FALSE, a.digraph2.n)
                   \cup (IF a.colors1 = << >> THEN Loops(a.digraph2)
                         ELSE SameColor(a, a.digraph1.n - 1))]
  /\ MAP' = [i \in DOMAIN MAP |->
               IF i < a.digraph1.n THEN UNDEFINED
               ELSE IF i < a.digraph2.n THEN i ELSE MAP[i]]
  /\ STAB_GENS' = [STAB_GENS EXCEPT ![0] = Group(a)]
  /\ REPS' = [REPS EXCEPT ![0] = init_bit_array(@, FALSE, a.digraph2.n)
                                   \cup OrbitReps(Group(a), a.image, {})]
  /\ depth' = 0
  /\ open' = TRUE
  /\ stack' = << Frame(UNDEFINED, 0, Group(a) = {Identity(a.digraph2.n)}, 0) >>

------------------------------------------------------------------------------
(* The running call, and what a step of a loop does to it.                  *)
F == Last(stack)
Running(frame) == stack' = Append(Front(stack), frame)

Above(S, v) == { w \in S : w > v }

STORE_MIN(frame, n, v) ==
  IF n < frame.min THEN [frame EXCEPT !.min = n, !.next = v] ELSE frame

(* A loop of size_conditions with STORE_MIN_BREAK.  In a loop over set bits  *)
(* the break only leaves the block the vertex is in.                         *)
Scan(frame, vertices, Block(_)) ==
  LET scan[v \in -1 .. n1 - 1] ==
        IF v = -1 THEN [frame |-> frame, left |-> -1]
        ELSE LET s == scan[v - 1]
                 n == size_conditions(conditions, v)
             IN  IF v \notin vertices \/ s.left = Block(v) \/ n >= s.frame.min THEN s
                 ELSE [frame |-> STORE_MIN(s.frame, n, v),
                       left  |-> IF n = 1 THEN Block(v) ELSE s.left]
  IN  scan[n1 - 1].frame

(* The rows of MAP_UNDEFINED are copied from depth to depth.                 *)
CopiedUndefined ==
  copy_bit_array(MAP_UNDEFINED[depth], MAP_UNDEFINED[depth - 1], n1)

Among(S, T, n, buffer) == intersect_bit_arrays(copy_bit_array(buffer, S, n), T, n)
NotAmong(S, T, n, buffer) == complement_bit_arrays(copy_bit_array(buffer, S, n), T, n)

------------------------------------------------------------------------------
(* init_partial_map_and_find_graph_homos and its digraph counterpart: the    *)
(* first steps of the recursion, with the values of the partial map.  The   *)
(* field at of the only frame is the vertex narrowed last, next the last     *)
(* entry that was looked at.                                                 *)
InPartial(stage) == status = "partial" /\ F.stage = stage

Remaining == Above(DOMAIN args.partial_map, F.next)

(* A depth above 0 first narrows what the last entry leaves possible.        *)
PartialEntry ==
  /\ InPartial("enter")
  /\ Remaining # {}
  /\ Running([F EXCEPT !.next = Min(Remaining), !.at = -1,
                       !.stage = IF depth > 0 THEN "narrow" ELSE "install"])
  /\ IF depth = 0 THEN UNCHANGED << MAP_UNDEFINED, BIT_ARRAY_BUFFER >>
     ELSE /\ MAP_UNDEFINED' = [MAP_UNDEFINED EXCEPT ![depth] = CopiedUndefined]
          /\ BIT_ARRAY_BUFFER' =
               IF Undirected(args)
               THEN [BIT_ARRAY_BUFFER EXCEPT
                       ![0] = Among(CopiedUndefined, Neighbours1(F.pos), n1, @)]
               ELSE BIT_ARRAY_BUFFER
  /\ UNCHANGED << conditions, depth, open, MAP, VALS, IMAGE_RESTRICT, STAB_GENS,
                  REPS, args, status, results, calls >>

PartialUpdate(v) ==
  IF Undirected(args)
  THEN CASE args.injective = 0 -> graph_homo_update_conditions(conditions, depth, F.pos, v)
         [] args.injective = 1 -> graph_mono_update_conditions(conditions, depth, F.pos, v)
         [] args.injective = 2 -> graph_embed_update_conditions(conditions, depth, F.pos, v)
  ELSE CASE args.injective = 0 -> digraph_homo_update_conditions(conditions, depth, F.pos, v)
         [] args.injective = 1 -> digraph_mono_update_conditions(conditions, depth, F.pos, v)
         [] args.injective = 2 -> digraph_embed_update_conditions(conditions, depth, F.pos, v)

(* The vertices that the loop of a narrowing stage has left.                *)
ToNarrow(buffer) ==
  Above(SetBits(IF Undirected(args) THEN buffer ELSE MAP_UNDEFINED[depth], n1), F.at)

(* No candidate left: the function returns, and pops nothing.                *)
PartialNarrow ==
  /\ InPartial("narrow") \/ InPartial("narrow2")
  /\ ToNarrow(BIT_ARRAY_BUFFER[0]) # {}
  /\ LET v == Min(ToNarrow(BIT_ARRAY_BUFFER[0]))
         updated == PartialUpdate(v)
     IN  /\ conditions' = updated
         /\ IF size_conditions(updated, v) = 0
            THEN status' = "ended" /\ stack' = << >>
            ELSE Running([F EXCEPT !.at = v]) /\ UNCHANGED status
  /\ UNCHANGED << depth, open, globals, args, results, calls >>

(* Embeddings of graphs narrow the neighbours of pos first, then the others. *)
SecondPass == Undirected(args) /\ args.injective = 2

PartialNarrowed ==
  /\ InPartial("narrow") \/ InPartial("narrow2")
  /\ ToNarrow(BIT_ARRAY_BUFFER[0]) = {}
  /\ IF SecondPass /\ F.stage = "narrow"
     THEN /\ Running([F EXCEPT !.at = -1, !.stage = "narrow2"])
          /\ BIT_ARRAY_BUFFER' =
               [BIT_ARRAY_BUFFER EXCEPT
                  ![0] = NotAmong(MAP_UNDEFINED[depth], Neighbours1(F.pos), n1, @)]
     ELSE Running([F EXCEPT !.stage = "install"]) /\ UNCHANGED BIT_ARRAY_BUFFER
  /\ UNCHANGED << conditions, depth, open, MAP, VALS, MAP_UNDEFINED, IMAGE_RESTRICT,
                  STAB_GENS, REPS, args, status, results, calls >>

(* The value is installed as it is; too many values end the search.          *)
PartialInstall ==
  /\ InPartial("install")
  /\ LET vertex == INVERSE_ORDER[F.next]
         val    == args.partial_map[F.next]
         rank   == IF val \in VALS THEN F.rank ELSE F.rank + 1
         stabs  == compute_stabs_and_orbit_reps(F.rep_depth + 1, depth, val, VALS \cup {val})
     IN  /\ MAP' = [MAP EXCEPT ![vertex] = val]
         /\ IF rank > F.rank /\ rank > args.hint
            THEN /\ status' = "ended" /\ stack' = << >>
                 /\ UNCHANGED << depth, VALS, MAP_UNDEFINED, STAB_GENS, REPS >>
            ELSE /\ VALS' = set_bit_array(VALS, val, TRUE)
                 /\ MAP_UNDEFINED' =
                      [MAP_UNDEFINED EXCEPT ![depth] = set_bit_array(@, vertex, FALSE)]
                 /\ depth' = depth + 1
                 /\ UNCHANGED status
                 /\ LET frame == [F EXCEPT !.pos = vertex, !.rank = rank, !.stage = "enter"]
                    IN  IF F.has_trivial_stab
                        THEN Running(frame) /\ UNCHANGED << STAB_GENS, REPS >>
                        ELSE /\ Running([frame EXCEPT !.rep_depth = @ + 1,
                                                      !.has_trivial_stab = stabs.trivial])
                             /\ STAB_GENS' = stabs.STAB_GENS
                             /\ REPS' = stabs.REPS
  /\ UNCHANGED << conditions, open, BIT_ARRAY_BUFFER, IMAGE_RESTRICT, args, results, calls >>

PartialDone ==
  /\ InPartial("enter")
  /\ Remaining = {}
  /\ status' = "search"
  /\ Running(Frame(F.pos, F.rep_depth, F.has_trivial_stab, F.rank))
  /\ UNCHANGED << conditions, depth, open, globals, args, results, calls >>

init_partial_map_and_find ==
  PartialEntry \/ PartialNarrow \/ PartialNarrowed \/ PartialInstall \/ PartialDone

------------------------------------------------------------------------------
(* The recursion: the steps that the six functions are made of.              *)
InSearch(stage) == status = "search" /\ F.stage = stage

(* external_order_map: the map of the original digraph1.                     *)
ExternalMap == [v \in 0 .. n1 - 1 |-> MAP[INVERSE_ORDER[v]]]

(* The caller of the running call takes back the vertex it assigned.         *)
(* Nothing is popped at depth n1, and the first call may not be at depth 0.  *)
Leave ==
  /\ conditions' = IF depth < n1 THEN pop_conditions(conditions, depth) ELSE conditions
  /\ depth' = IF depth > 0 THEN depth - 1 ELSE 0
  /\ open' = (depth > 0)
  /\ IF Len(stack) = 1
     THEN /\ stack' = << >> /\ status' = "ended"
          /\ UNCHANGED << MAP, VALS, MAP_UNDEFINED >>
     ELSE LET caller == stack[Len(stack) - 1]
          IN  /\ stack' = Front(stack)
              /\ MAP' = [MAP EXCEPT ![caller.next] = UNDEFINED]
              /\ VALS' = set_bit_array(VALS, caller.at, caller.stage = "old")
              /\ MAP_UNDEFINED' = [MAP_UNDEFINED EXCEPT
                                     ![depth - 1] = set_bit_array(@, caller.next, TRUE)]
              /\ UNCHANGED status
  /\ UNCHANGED << BIT_ARRAY_BUFFER, IMAGE_RESTRICT, STAB_GENS, REPS, args, calls >>

(* A faulty variant: one map too many.                                       *)
Report_beyond(rank_matters) ==
  /\ InSearch("enter")
  /\ depth = n1
  /\ IF rank_matters /\ args.hint # UNDEFINED /\ F.rank # args.hint
     THEN Leave /\ UNCHANGED results
     ELSE /\ results' = Append(results, ExternalMap)
          /\ IF Len(results') > args.max_results
             THEN /\ status' = "jumped" /\ stack' = << >>
                  /\ UNCHANGED << conditions, depth, open, globals, args, calls >>
             ELSE Leave

(* Every vertex is assigned: the hook gets the map, unless the rank is not   *)
(* the one sought.  longjmp leaves everything as it is.                      *)
Report(rank_matters) ==
  /\ InSearch("enter")
  /\ depth = n1
  /\ IF rank_matters /\ args.hint # UNDEFINED /\ F.rank # args.hint
     THEN Leave /\ UNCHANGED results
     ELSE \E ret \in HookReturns :
            /\ results' = Append(results, ExternalMap)
            /\ IF Len(results') >= args.max_results \/ ret
               THEN /\ status' = "jumped" /\ stack' = << >>
                    /\ UNCHANGED << conditions, depth, open, globals, args, calls >>
               ELSE Leave

(* The first call has every size already; the others narrow what the vertex  *)
(* assigned last leaves possible, neighbours(pos) for a graph.               *)
Enter ==
  /\ InSearch("enter")
  /\ depth < n1
  /\ IF depth = 0
     THEN /\ Running([F EXCEPT !.stage = "pick"])
          /\ UNCHANGED << MAP_UNDEFINED, BIT_ARRAY_BUFFER >>
     ELSE /\ Running([F EXCEPT !.stage = "narrow"])
          /\ MAP_UNDEFINED' = [MAP_UNDEFINED EXCEPT ![depth] = CopiedUndefined]
          /\ BIT_ARRAY_BUFFER' =
               IF Undirected(args)
               THEN [BIT_ARRAY_BUFFER EXCEPT
                       ![depth] = Among(CopiedUndefined, Neighbours1(F.pos), n1, @)]
               ELSE BIT_ARRAY_BUFFER
  /\ UNCHANGED << conditions, depth, open, MAP, VALS, IMAGE_RESTRICT, STAB_GENS,
                  REPS, args, status, results, calls >>

Narrow(update_conditions(_, _, _, _)) ==
  /\ InSearch("narrow") \/ InSearch("narrow2")
  /\ ToNarrow(BIT_ARRAY_BUFFER[depth]) # {}
  /\ LET v == Min(ToNarrow(BIT_ARRAY_BUFFER[depth]))
         updated == update_conditions(conditions, depth, F.pos, v)
         n == size_conditions(updated, v)
     IN  /\ conditions' = updated
         /\ Running(IF n = 0 THEN [F EXCEPT !.stage = "leave"]
                    ELSE [STORE_MIN(F, n, v) EXCEPT !.at = v])
  /\ UNCHANGED << depth, open, globals, args, status, results, calls >>

(* A faulty variant: the neighbours of pos again.                            *)
NarrowOthers_again ==
  /\ SecondPass
  /\ InSearch("narrow")
  /\ ToNarrow(BIT_ARRAY_BUFFER[depth]) = {}
  /\ Running([F EXCEPT !.at = -1, !.stage = "narrow2"])
  /\ UNCHANGED << conditions, depth, open, globals, args, status, results, calls >>

NarrowOthers ==
  /\ SecondPass
  /\ InSearch("narrow")
  /\ ToNarrow(BIT_ARRAY_BUFFER[depth]) = {}
  /\ Running([F EXCEPT !.at = -1, !.stage = "narrow2"])
  /\ BIT_ARRAY_BUFFER' =
       [BIT_ARRAY_BUFFER EXCEPT
          ![depth] = NotAmong(MAP_UNDEFINED[depth], Neighbours1(F.pos), n1, @)]
  /\ UNCHANGED << conditions, depth, open, MAP, VALS, MAP_UNDEFINED, IMAGE_RESTRICT,
                  STAB_GENS, REPS, args, status, results, calls >>

Narrowed ==
  /\ ToNarrow(BIT_ARRAY_BUFFER[depth]) = {}
  /\ InSearch(IF SecondPass THEN "narrow2" ELSE "narrow")
  /\ Running([F EXCEPT !.at = -1, !.stage = "pick"])
  /\ UNCHANGED << conditions, depth, open, globals, args, status, results, calls >>

(* The vertex with the fewest candidates.  Homomorphisms and monomorphisms   *)
(* of graphs did not narrow the vertices that are not adjacent to pos: they  *)
(* look at their sizes, unless there is a vertex with one candidate.         *)
Chosen ==
  IF depth = 0 THEN Scan(F, 0 .. n1 - 1, LAMBDA v : 0)
  ELSE IF Undirected(args) /\ args.injective < 2 /\ F.min > 1
  THEN Scan(F, SetBits(MAP_UNDEFINED[depth] \ Neighbours1(F.pos), n1),
            LAMBDA v : v \div BlockBits)
  ELSE F

(* The candidates of vertex that have no value yet, one for each orbit, and  *)
(* those that are values already.                                            *)
NewValues(vertex) ==
  intersect_bit_arrays(
    NotAmong(get_conditions(conditions, vertex), VALS, n2, BIT_ARRAY_BUFFER[depth]),
    REPS[F.rep_depth], n2)
OldValues(vertex) ==
  Among(get_conditions(conditions, vertex), VALS, n2, BIT_ARRAY_BUFFER[depth])

Pick(stage, values(_)) ==
  /\ InSearch("pick")
  /\ Running([Chosen EXCEPT !.stage = stage])
  /\ BIT_ARRAY_BUFFER' = [BIT_ARRAY_BUFFER EXCEPT ![depth] = values(Chosen.next)]
  /\ UNCHANGED << conditions, depth, open, MAP, VALS, MAP_UNDEFINED, IMAGE_RESTRICT,
                  STAB_GENS, REPS, args, status, results, calls >>

(* The pointer possible is the cell itself.                                  *)
PickInPlace ==
  /\ InSearch("pick")
  /\ Running([Chosen EXCEPT !.stage = "new"])
  /\ conditions' = ComplementTop(IntersectTop(conditions, Chosen.next, REPS[F.rep_depth]),
                                 Chosen.next, VALS)
  /\ UNCHANGED << depth, open, globals, args, status, results, calls >>

ToTry(possible) == Above(SetBits(possible, n2), F.at)

(* A faulty variant: the recursive call is at the depth of its caller.       *)
Assign_here(v) ==
  /\ MAP' = [MAP EXCEPT ![F.next] = v]
  /\ VALS' = set_bit_array(VALS, v, TRUE)
  /\ MAP_UNDEFINED' = [MAP_UNDEFINED EXCEPT ![depth] = set_bit_array(@, F.next, FALSE)]
  /\ depth' = depth

Assign(v) ==
  /\ MAP' = [MAP EXCEPT ![F.next] = v]
  /\ VALS' = set_bit_array(VALS, v, TRUE)
  /\ MAP_UNDEFINED' = [MAP_UNDEFINED EXCEPT ![depth] = set_bit_array(@, F.next, FALSE)]
  /\ depth' = depth + 1

(* A value not used so far: the recursive call has its stabiliser.           *)
TryNew(possible) ==
  /\ InSearch("new")
  /\ ToTry(possible) # {}
  /\ LET v == Min(ToTry(possible))
         stabs == compute_stabs_and_orbit_reps(F.rep_depth + 1, depth, v, VALS \cup {v})
         called == IF F.has_trivial_stab THEN Frame(F.next, F.rep_depth, TRUE, F.rank + 1)
                   ELSE Frame(F.next, F.rep_depth + 1, stabs.trivial, F.rank + 1)
     IN  /\ Assign(v)
         /\ stack' = Append(Append(Front(stack), [F EXCEPT !.at = v]), called)
         /\ IF F.has_trivial_stab THEN UNCHANGED << STAB_GENS, REPS >>
            ELSE STAB_GENS' = stabs.STAB_GENS /\ REPS' = stabs.REPS
  /\ UNCHANGED << conditions, open, BIT_ARRAY_BUFFER, IMAGE_RESTRICT, args, status,
                  results, calls >>

(* A value used already: the rank and the stabiliser stay.                   *)
TryOld ==
  /\ InSearch("old")
  /\ LET values == ToTry(BIT_ARRAY_BUFFER[depth])
     IN  /\ values # {}
         /\ Assign(Min(values))
         /\ stack' = Append(Append(Front(stack), [F EXCEPT !.at = Min(values)]),
                            Frame(F.next, F.rep_depth, F.has_trivial_stab, F.rank))
  /\ UNCHANGED << conditions, open, BIT_ARRAY_BUFFER, IMAGE_RESTRICT, STAB_GENS, REPS,
                  args, status, results, calls >>

(* A faulty variant: the loop over the new values is run for the old ones.   *)
TurnToOld_as_new ==
  /\ InSearch("new")
  /\ ToTry(BIT_ARRAY_BUFFER[depth]) = {}
  /\ Running([F EXCEPT !.at = -1])
  /\ BIT_ARRAY_BUFFER' = [BIT_ARRAY_BUFFER EXCEPT ![depth] = OldValues(F.next)]
  /\ UNCHANGED << conditions, depth, open, MAP, VALS, MAP_UNDEFINED, IMAGE_RESTRICT,
                  STAB_GENS, REPS, args, status, results, calls >>

(* Homomorphisms try the new values, then the old ones.                      *)
TurnToOld ==
  /\ InSearch("new")
  /\ ToTry(BIT_ARRAY_BUFFER[depth]) = {}
  /\ Running([F EXCEPT !.at = -1, !.stage = "old"])
  /\ BIT_ARRAY_BUFFER' = [BIT_ARRAY_BUFFER EXCEPT ![depth] = OldValues(F.next)]
  /\ UNCHANGED << conditions, depth, open, MAP, VALS, MAP_UNDEFINED, IMAGE_RESTRICT,
                  STAB_GENS, REPS, args, status, results, calls >>

DeadEnd == InSearch("leave") /\ Leave /\ UNCHANGED results

Exhausted(stage, possible) ==
  InSearch(stage) /\ ToTry(possible) = {} /\ Leave /\ UNCHANGED results

------------------------------------------------------------------------------
(* The six functions, as they are put together from these steps.             *)
Searching(undirected, injective) ==
  status = "search" /\ Undirected(args) = undirected /\ args.injective = injective

Homos(update_conditions(_, _, _, _)) ==
  \/ Report(TRUE)
  \/ Enter
  \/ Narrow(update_conditions)
  \/ Narrowed
  \/ DeadEnd
  \/ F.rank < args.hint /\ Pick("new", NewValues)
  \/ F.rank >= args.hint /\ Pick("old", OldValues)
  \/ TryNew(BIT_ARRAY_BUFFER[depth])
  \/ TurnToOld
  \/ TryOld
  \/ Exhausted("old", BIT_ARRAY_BUFFER[depth])

InjectiveMaps(update_conditions(_, _, _, _)) ==
  \/ Report(FALSE)
  \/ Enter
  \/ Narrow(update_conditions)
  \/ Narrowed
  \/ DeadEnd
  \/ Pick("new", NewValues)
  \/ TryNew(BIT_ARRAY_BUFFER[depth])
  \/ Exhausted("new", BIT_ARRAY_BUFFER[depth])

find_graph_homos == Searching(TRUE, 0) /\ Homos(graph_homo_update_conditions)

find_graph_monos == Searching(TRUE, 1) /\ InjectiveMaps(graph_mono_update_conditions)

find_graph_embeddings ==
  /\ Searching(TRUE, 2)
  /\ NarrowOthers \/ InjectiveMaps(graph_embed_update_conditions)

find_digraph_homos == Searching(FALSE, 0) /\ Homos(digraph_homo_update_conditions)

find_digraph_monos == Searching(FALSE, 1) /\ InjectiveMaps(digraph_mono_update_conditions)

find_digraph_embeddings ==
  /\ Searching(FALSE, 2)
  /\ \/ Report(FALSE)
     \/ Enter
     \/ Narrow(digraph_embed_update_conditions)
     \/ Narrowed
     \/ DeadEnd
     \/ PickInPlace
     \/ TryNew(get_conditions(conditions, F.next))
     \/ Exhausted("new", get_conditions(conditions, F.next))

Init ==
  /\ conditions = new_conditions
  /\ depth = 0
  /\ open = FALSE
  /\ MAP = [i \in 0 .. Size - 1 |-> 0]
  /\ VALS = {}
  /\ MAP_UNDEFINED = [k \in 0 .. Size - 1 |-> {}]
  /\ BIT_ARRAY_BUFFER = [k \in 0 .. Size - 1 |-> {}]
  /\ IMAGE_RESTRICT = {}
  /\ STAB_GENS = [k \in 0 .. Size - 1 |-> {}]
  /\ REPS = [k \in 0 .. Size - 1 |-> {}]
  /\ args = CHOOSE a \in Arguments : TRUE
  /\ stack = << >>
  /\ status = "idle"
  /\ results = << >>
  /\ calls = 0

(* A call of HomomorphismDigraphsFinder begins ...                           *)
Call(a) == RefuseAtOnce(a) \/ RefuseInInit(a) \/ Begin(a)

(* ... and runs.                                                             *)
Run ==
  \/ init_partial_map_and_find
  \/ find_graph_homos \/ find_graph_monos \/ find_graph_embeddings
  \/ find_digraph_homos \/ find_digraph_monos \/ find_digraph_embeddings

Next == (\E a \in Arguments : Call(a)) \/ Run

(* One thread runs a search to its end: as long as it can take a step it     *)
(* does.  The hook is assumed to return.                                     *)
Spec == Init /\ [][Next]_vars /\ WF_vars(Run)

------------------------------------------------------------------------------
TypeOK ==
  /\ conditions \in ConditionsType
  /\ depth \in 0 .. Size - 1
  /\ open \in BOOLEAN
  /\ MAP \in [0 .. Size - 1 -> 0 .. Size - 1 \cup {UNDEFINED}]
  /\ {VALS, IMAGE_RESTRICT} \subseteq SUBSET Bits
  /\ {MAP_UNDEFINED, BIT_ARRAY_BUFFER, REPS} \subseteq [0 .. Size - 1 -> SUBSET Bits]
  /\ DOMAIN STAB_GENS = 0 .. Size - 1
  /\ status \in StatusType
  /\ \A k \in 1 .. Len(stack) : stack[k].rep_depth \in 0 .. depth
  /\ (stack # << >>) <=> (status \in {"partial", "search"})
  /\ calls \in 0 .. MaxCalls

(* Every map given to the hook is one the arguments ask for: a homomorphism *)
(* of the digraphs as the caller numbered them, of the rank, image and kind *)
(* sought, that extends the partial map and keeps the colours.               *)
Sound == results # << >> => Wanted(args, Last(results))

(* A search that was not stopped has found every map asked for, up to the   *)
(* group; and a call that finds nothing to search for is right about it.     *)
(* The documentation promises this of a restricted image for the trivial     *)
(* group only.                                                               *)
Complete ==
  status \in {"ended", "refused"} /\
  (args.image = Vertices(args.digraph2) \/ Group(args) = {Identity(n2)}) =>
    \A f \in WantedMaps(args) : \E k \in 1 .. Len(results) : Equivalent(args, results[k], f)

(* doc/grahom.xml, aut_grp: unique representatives up to right               *)
(* multiplication by the group; no two maps found are equivalent.            *)
Irredundant ==
  \A k \in 1 .. Len(results) - 1 : ~ Equivalent(args, results[k], Last(results))

(* Never more than max_results maps, and one call of the hook after another: *)
(* nothing is found after the hook said stop.                                *)
StopsWhenTold ==
  /\ Len(results) <= args.max_results
  /\ Len(results) = args.max_results => status = "jumped"

Assigned == { v \in 0 .. n1 - 1 : MAP[v] # UNDEFINED }

(* Between two steps of the recursion the redundant globals agree: depth     *)
(* counts what is assigned, VALS are the values, MAP_UNDEFINED the rest, and  *)
(* the rank the functions pass down is the number of values.  It has to hold  *)
(* after a longjmp or an early return of the call before, too.               *)
MapConsistent ==
  status = "search" =>
    /\ Cardinality(Assigned) = depth
    /\ SetBits(VALS, n2) = { MAP[v] : v \in Assigned }
    /\ depth > 0 => SetBits(MAP_UNDEFINED[depth - 1], n1) = (0 .. n1 - 1) \ Assigned
    /\ F.rank = Cardinality(SetBits(VALS, n2))

(* May vertex v take the value w, next to u and its value?  The arrows are   *)
(* those of the copy of digraph1 the search works on.                        *)
Compatible(arrows, u, v, w) ==
  LET out == << u, v >> \in arrows
      in  == << v, u >> \in arrows
      out2 == IsAdjacent(args.digraph2, MAP[u], w)
      in2  == IsAdjacent(args.digraph2, w, MAP[u])
  IN  (out => out2) /\ (in => in2) /\ (args.injective = 2 => out = out2 /\ in = in2)

(* When the search picks a vertex, and whenever it comes back to try another *)
(* value for it, the cells of all the unassigned vertices hold exactly the   *)
(* values of their bottom cells that are compatible with all that is          *)
(* assigned, and the stored sizes are theirs.  So nothing the deeper calls    *)
(* pushed is left, and nothing they did not push was taken away.             *)
(* find_digraph_embeddings cuts down the cell of the vertex it picked.       *)
ForwardChecked ==
  status = "search" /\ F.stage \in {"pick", "new", "old"} =>
    LET base == BaseRow(args)
        arrows == InternalEdges(args)
    IN  \A v \in ((0 .. n1 - 1) \ Assigned) \ {F.next} :
          LET cell == get_conditions(conditions, v)
          IN  /\ SetBits(cell, n2) = { w \in SetBits(base[v], n2) :
                                         \A u \in Assigned : Compatible(arrows, u, v, w) }
              /\ size_conditions(conditions, v) = size_bit_array(cell, n2)

(* The group of the running call is the pointwise stabiliser of the values,  *)
(* and the representatives are its least ones: levels written deeper, or by   *)
(* the calls before, are never read.                                         *)
StabFixesVals ==
  status = "search" /\ depth < n1 /\ F.stage \in {"pick", "new", "old"} =>
    LET vals == SetBits(VALS, n2)
        stab == { p \in Group(args) : \A w \in vals : p[w] = w }
    IN  /\ STAB_GENS[F.rep_depth] = stab
        /\ F.has_trivial_stab <=> stab = {Identity(n2)}
        /\ SetBits(REPS[F.rep_depth], n2) \ vals = OrbitReps(stab, args.image, vals)

(* Every search comes to an end.                                             *)
Terminates == status \in {"partial", "search"} ~> status \in {"ended", "jumped"}

(* The bottom rows init_data_from_args may leave.                            *)
SearchesOf(a) ==
  LET Search(base) == [nr1 |-> a.digraph1.n, nr2 |-> a.digraph2.n, base |-> base]
  IN  {Search(BaseRow(a))}
      \cup { Search(PartialBase(a, upto)) : upto \in {0} \cup Clashes(a) }

Protocol == INSTANCE Conditions
              WITH Masks <- SUBSET Bits,
                   Searches <- UNION { SearchesOf(a) : a \in Arguments }

(* The searches use the Conditions object only as module Conditions says.    *)
DrivesConditions == Protocol!Spec
==============================================================================
