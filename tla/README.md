# Digraphs: a verification project

Digraphs is a GAP package for directed graphs and multidigraphs. Its computing
core is a C kernel module (`src/src`, about 7,400 lines) under a GAP library
(`src/gap`, about 20,000 lines). This directory holds TLA+ models of the parts of
it that keep state through long sequences of steps, TLC configurations that
check them on small instances, and proofs, checked by TLAPS, about the
structure the searches rest on. Paths below are relative to the repository.

## 1. Inventory

| component | where | its state | its operations | talks to |
|---|---|---|---|---|
| bit arrays | `src/bitarray.h`, `.c` | blocks of 64 bits | init, set, get, intersect, complement, union, copy, size | conditions, both searches |
| conditions | `src/conditions.h`, `.c` | flat arrays `bit_array`, `changed`, `height`, `sizes`; `nr1`, `nr2` | new, clear, push, pop, get, size, store_size | both searches |
| homomorphism search | `src/homos.c` | about 25 static variables that outlive a call; the C stack; a `jmp_buf` | `HomomorphismDigraphsFinder`: initialise, install the partial map, one of six recursive searches | conditions, Schreier-Sims, bliss, the hook (GAP) |
| search graphs | `src/homos-graphs.c`, `.h` | neighbour bit arrays | clear, add edge, adjacency, automorphisms | bliss |
| permutations | `src/perms.c`, `.h` | arrays; collections with size, capacity, degree | product, inverse, copy, add | Schreier-Sims |
| Schreier-Sims | `src/schreier-sims.c` | strong generators, base, orbits, transversals of every level, kept between calls | `init_ss`, `run_ss`, `point_stabilizer` | homomorphism search |
| cliques search | `src/cliques.c`, `gap/cliques.gi` | three conditions objects that outlive a call, the clique; the orbits met so far | `CliquesFinder`: Bron-Kerbosch with pivots and orbits, in C below 512 vertices and in GAP from there on | conditions, GAP groups, the hook |
| graph algorithms | `src/digraphs.c` | buffers of one call | Gabow's components, union-find, seven iterative depth-first searches, Floyd-Warshall, comparison, loops over the edges | attributes in GAP |
| labels, mutable digraphs | `gap/labels.gi`, `gap/oper.gi`, `gap/attr.gi` | `OutNeighbours`, `vertexlabels`, `edgelabels` of a digraph object | add and remove vertices and edges, reverse, contract | everything that mutates digraphs |
| attributes, properties | `gap/attr.gi`, `gap/prop.gi`, `gap/weights.gi` | attribute values stored in immutable digraphs | formulas and calls of the kernel | graph algorithms |
| interface of the searches | `gap/grahom.gi`, `gap/isomorph.gi` | - | build the arguments of the finders | both searches, bliss, nauty |
| input and output | `gap/io.gi` | a file or string | Graph6, Sparse6, Digraph6, DIMACS, ... | - |
| constructors, examples, display | `gap/constructors.gi`, `gap/examples.gi`, ... | - | definitions of families, text | - |
| planarity | `src/planar.c`, `gap/planar.gi` | - | wrapper of a vendored library | - |

Nothing runs concurrently: GAP calls a kernel function, which runs to its end,
calls back a GAP function (the hook) and returns. What is hard here is of
another kind:

- **State that outlives a call.** The homomorphism search allocates everything
  once and keeps it. A call of smaller dimension reads the same flat arrays with
  another stride than the call before.
- **Exits from the middle.** A search is left by `longjmp` from any depth, or by
  an early `return`, without undoing anything.
- **Undo.** Candidates are narrowed on the way down and have to be exactly what
  they were on the way up; the undo list is three index computations.
- **Redundant state.** Depth, rank, the partial map, the set of its values, the
  list of vertices left and the group's level are kept separately, in step, over
  six hand-written copies of one recursion and two of the initialisation.
- **Growing lists under iteration.** Orbits that grow while they are walked, and
  a triple loop left through a flag at another level (Schreier-Sims).
- **Recursion turned into loops.** The graph algorithms run on stacks in buffers
  of exactly the size the recursion may reach, with marks that are set and taken
  back by hand.
- **Parallel lists.** An edge of a mutable digraph and its label are tied by
  nothing but their places in two lists, which a dozen operations change.
- **Block granularity.** Operations on "the first n bits" work on whole blocks.

What makes each component correct:

- *conditions*: a pop takes off exactly what the depth pushed; no index leaves
  its array; clearing makes any rubbish harmless; it implements a stack of
  candidate tables.
- *homomorphism search*: every map found is asked for, every map asked for is
  found, each once up to the group, never more than asked; it ends.
- *Schreier-Sims*: the result generates the point stabiliser.
- *cliques*: every (maximal) clique of the wanted size, with the vertices to
  include and without those to exclude, once, up to the limit; a banned vertex
  stands only for cliques already met.
- *graph algorithms*: each answer agrees with its definition (components, order,
  ...); stacks stay in their buffers; each function returns.
- *labels*: the label lists have the shape of the neighbour lists, and a label
  stays with its edge.

PROJECT.json lists the hazards one by one, at the lines where they bite.

## 2. The modules

| module | models | lines of code it stands for |
|---|---|---|
| `BitArrays` | a bit array as the set of its set bits, with whole-block operations | `bitarray.h` |
| `ConditionsData` | the Conditions object as a record of flat arrays, each operation a function of it | `conditions.h`, `conditions.c` |
| `CandidateStack` | **abstract**: a stack of candidate tables | what conditions promises |
| `Conditions` | a Conditions object driven by searches that may be left anywhere | the way `homos.c` uses it |
| `HomoData` | digraphs, groups and what the documentation says is sought | `doc/grahom.xml`, argument record |
| `HomoSearch` | the six searches over `ConditionsData` | `homos.c` |
| `PermGroups` | permutations and the groups they generate | `perms.h`, groups of GAP |
| `CliqueSearch` | the arguments of `CliquesFinder` and the hook it makes of them | `gap/cliques.gi`, first half of `CliquesFinder` |
| `KernelCliques` | the recursion over three conditions objects | `cliques.c` |
| `GapCliques` | the recursion in GAP, all in local variables | `DIGRAPHS_BronKerbosch` |
| `CliquesFinder` | composes the two under `CliquesFinder`'s choice; what its documentation promises | `gap/cliques.gi`, `doc/cliques.xml` |
| `SchreierSims` | `point_stabilizer` and `run_ss`, a step for each Schreier generator | `schreier-sims.c`, `perms.h` |
| `DigraphLists` | digraphs as lists of out-neighbours; walks, acyclicity, multiple edges | what `digraphs.c` is given |
| `KernelCalls` | one call of a function of `digraphs.c`: its arguments, locals and answer | - |
| `UnionFind` | the connected components | `digraphs.c` 331-401 |
| `FloydWarshall` | distances, diameter, the closures, the test for transitivity | 1196-1359 |
| `StrongComponents` | Gabow's algorithm, the test for strong connectivity | 219-329, 807-861 |
| `DepthFirst` | the cycle test, longest distance, transitive reduction, path, antisymmetry, topological order, spanning forest | 403-1028 |
| `DigraphCompare` | equality and order of digraphs | 1415-1446, 1498-1666 |
| `EdgeLoops` | sources and ranges, in-neighbours, adjacency matrix, adjacencies, multiple edges | 92-196, 1030-1168 |
| `DigraphKernels` | composes these six: any one of the functions, called as GAP calls it | `digraphs.c` |
| `DigraphLabels` | the lists of labels of a digraph object and the operations on them | `gap/labels.gi` |
| `LabelledDigraph` | **abstract**: vertices and edges that carry their labels | what the manual promises |
| `MutableDigraph` | one mutable digraph under the operations that change it | `gap/oper.gi`, `gap/attr.gi` |
| `MCConditions`, `MCHomoSearch`, `MCSchreierSims`, `MCCliquesFinder`, `MCDigraphKernels`, `MCMutableDigraph` | the instances for TLC | - |
| `ConditionsDataProofs`, `ConditionsProofs` | lemmas and theorems on conditions, the refinement of `CandidateStack` among them | - |
| `WalkProofs` | lemmas about walks and cycles, the theorems on closures, distances and the depth-first searches | - |
| `ComponentsProofs` | the theorems on connected and strong components | - |
| `SchreierProofs` | lemmas about permutations and the groups they generate, the theorems on the stabiliser chain | - |
| `HomoSearchProofs` | the inductive invariant of the searches, and that they drive `Conditions` | - |
| `HomoResultsProofs` | theorems on the results, the stabilisers and the candidates of the searches | - |
| `HomoCompleteProofs` | the theorem that no map is missed, with lemmas on the maps a group takes to each other | - |

**BitArrays.** A bit array is the set of positions that hold 1, up to
`HOMOS_STRUCTURE_SIZE` rounded up to a block. `Covered(n)` are the positions in
the blocks that the first n bits lie in: `init`, `copy`, `intersect`,
`complement` and `size` touch these, as the C functions loop over
`number_of_blocks(nr_bits)`; `SetBits(b, n)` are what `FOR_SET_BITS` visits.
`BlockBits` is 64 in the code and 2 in the runs, so that "the rest of the block"
and "the next block" both occur.

**ConditionsData / Conditions.** `conditions` has the fields of the struct.
`Index(nr1, h, i)` and `RowStart(nr1, d)` are the two index computations.
`Conditions` says when a search calls what: `Start` clears the object and
narrows the bottom row (`init_data_from_args`), `Refuse` does the same for a
call that then gives up, `Descend`/`Return` are the recursion, `Push` one call of
an `*_update_conditions` helper, `NarrowInPlace` the line in
`find_digraph_embeddings` that cuts the top cell without a push. `Start` needs no
`Finish` before it: this is the `longjmp`.

**HomoSearch.** The static variables have their C names; `stack` is the C stack,
one frame for each active call with the locals of the function (`next`, the
value being tried, `rank`, `rep_depth`, `has_trivial_stab`) and a `stage` that says
where in the function it is. A step is one iteration of a loop: one vertex
narrowed, one value tried, one return. The frames of the homomorphism searches try
new values first (up to the group) and then those already used; the injective ones
try new values only. `Call` is the whole initialisation: with arguments that give
an answer at once, with arguments found hopeless after the object was cleared, or
with a search. The three places where a C function returns early with nothing
popped are kept. A group is the set of its elements: what `point_stabilizer`
yields is checked in `SchreierSims` on its own.

**SchreierSims.** `strong_gens`, `base`, `orbits`, `orb_lookup`, `transversal`
keep one record for each level, and keep the previous call's contents beyond what
`init_ss` clears. `run_ss` is one step for each pass of the innermost loop (a
Schreier generator that sifts to the identity, one that leaves a residue, the end
of a level).

**Cliques.** `frames` is the stack of active calls of the recursive function, in C
or in GAP; `args` and `group` are what `CliquesFinder` computes before it. In the
kernel a frame holds the group of the call, the level of `to_try` that is its own
and the vertex it tries: `try_`, `ban` and `to_try` are `ConditionsData` objects of
which column 0 is used, and `clique` a bit array, all four kept from call to call. A
step is one entry of the function up to its loop, one vertex tried, or one return
with the rest of the caller's iteration; a search that reaches its limit drops all
frames and leaves the objects raised. In GAP a frame holds the clique and the sets
`try` and `ban` themselves. `Hook` gives the new cliques of an orbit up to the limit;
which of them come first is GAP's choice and any choice in the model. The
automorphism group is given by generators because both searches throw some of
them away when there are isolated vertices, and which are thrown away depends on
the generators. The objects have one capacity; the code makes new ones for the first
digraph that is larger.

**Graph algorithms.** A behaviour of `DigraphKernels` is one call: `call` is the
function with its arguments, `loc` the record of its locals (each module gives
the locals of its functions), `answer` what it returned. A step is one turn of
the innermost loop that can go wrong: one edge followed or one frame left in a
search, one step of `UF_FIND`, one entry of the matrix, one vertex of a
comparison, one edge of a loop over edges. `frames` is the C stack buffer, with a
vertex and the place in its list (`IS_ANTISYMMETRIC_DIGRAPH` also stores the two
vertices below, which are those of the frames below: `Below`). The buffers
themselves keep their C names (`ptr`, `stack1`, `stack2`, `id`, `mat`, `buf`,
`seen`); vertices of union-find and Floyd-Warshall, 0 .. n - 1 in C, are 1 .. n.
Values an immutable digraph has stored from before (`DigraphNrEdges`, ...) are
not represented: the model always computes.

**Labels.** A digraph is a record of `out` (`OutNeighbours`), `vl` (`vertexlabels`)
and `el` (`edgelabels`), the last two `Unbound` until they are made. Each operation
is a function from records to records, with the order of the GAP code kept
where it shows: which list is shortened first, where a position is read and where
it is used, what reading a label creates. A label is the sequence of the objects it
was combined from, since contracting an edge makes lists of two labels.
`LabelledDigraph` has no lists at all; `LabelsKept` maps the places of the one to
the edges of the other. An operation on an immutable digraph is the one on a
mutable copy (`DigraphMutableCopy`), and a call that is refused is no step.

`Conditions` and `HomoSearch` are composed in the property `DrivesConditions`:
every behaviour of the searches is, on `conditions`, `depth` and `open`, a behaviour of
`Conditions`. So the theorems about `Conditions` hold inside the searches, and
`Conditions` in turn implements `CandidateStack` (`ImplementsStack`). Both are
checked by TLC and proved.

## 3. The runs

| run | asks | instance | result |
|---|---|---|---|
| `conditions` | do the arrays keep levels and depths apart, and implement a stack? | 2 searches, of 3 and 2 columns, over 3 values, each left anywhere | holds, 728,101 states |
| `homos` | are the right maps found, is the global state consistent? | all digraphs on 2 vertices into all loopless ones on 3, and 17 pairs on 2 to 4 vertices with pairs of 14 options; a second call after any end of the first; the hook says stop or go on | holds, 98,826 states |
| `homos_protocol` | do the searches use conditions as `Conditions` says, and end? | 3 digraphs mapped, every kind of search, two calls | holds, 4,148 states |
| `homos_loops` | do a partial map and an embedding respect loops, in both directions? | 2 vertices, one looped | violated, see below |
| `schreier_sims` | is the stabiliser right, and the chain at each step? | all pairs of generators on 3 and 4 points, chosen ones on 5, another call of another degree after it | holds, 30,422 states |
| `cliques` | are the right cliques found by both searches, do the three objects keep in step, does every search end? | 12 digraphs of 3 to 5 vertices (4 of them searched in GAP), each argument; a second call after it | holds, 23,797 states |
| `cliques_include` | are the vertices to include reported? | a star, its centre included | violated, see below |
| `cliques_exclude` | are maximal cliques maximal when vertices are excluded? | a star, its centre excluded | violated, see below |
| `kernels` | is every answer of the graph algorithms right, are their stacks in step with their marks, do they return? | every simple digraph of up to 3 vertices and chosen ones of 4 for all; every loopless, downward or symmetric one of 4, and multidigraphs of 2, for those that tell them apart | holds, 352,400 states |
| `labels` | do labels stay with their edges and vertices? | 6 digraphs, with labels and without, three operations in any order | holds, 133,923 states |
| `labels_loops` | do removed loops take their labels with them? | 2 vertices, a loop before an edge | violated, see below |
| `labels_contract` | has every edge a label, also when multiple edges have come and gone? | 3 vertices, both ends of an edge with an edge to the third | violated, see below |

The properties:

- `TypeOK` of `Conditions`: every index computed is inside its array.
- `RowZeroComplete`, `RowsAboveEmpty`, `HeightCountsPushes`: the undo list is exact,
  also right after a search of another stride was left.
- `LevelsNarrow`: a cell is contained in the one below (`conditions.h`:42).
- `ImplementsStack`: pushes reach only the top table, and a return brings back
  the table below as it was.
- `Sound`, `Complete`, `Irredundant`, `StopsWhenTold`: the documentation of
  `HomomorphismDigraphsFinder`, argument by argument (`HomoData!Wanted`).
- `MapConsistent`, `ForwardChecked`, `StabFixesVals`: the redundant variables
  agree; the cells of the vertices left hold exactly the values compatible with
  all that is assigned; the group of the running call is the stabiliser of the
  values and the representatives are its least ones.
- `DrivesConditions`, `Terminates`.
- `TypeOK` of `SchreierSims`: every entry of the arrays is a permutation or a point they
  have room for, and the level above the base is one `init_ss` has cleared;
  `GeneratorsFit`: a level has room for the generators it starts from and all the residues
  that reach it (the assertions at `perms.h`:103, which a release build does not make).
- `Stabilises`, `ChainConsistent`, `HigherLevelsFinished`, `ResiduesEnlarge`: the
  result is the point stabiliser; every orbit and transversal belongs to its
  generators; levels above the current one are finished; a residue enlarges every
  level it is added to, which is why `run_ss` ends.

- `OnlySought`, `AsManyAsPossible`, `NoneTwice`: the documentation of
  `CliquesFinder` and of `DigraphCliques`, argument by argument (`Sought`).
- `BannedIsDone`: every clique sought that contains the current one and a banned
  vertex has been met up to the group, which is what allows a call to return
  without a word when a banned vertex extends its clique.
- `LevelsInStep`: the levels of `try_`, `ban` and `to_try` are the depth of the
  recursion, two of them by pushes and one by hand, also after a search that was
  left at its limit; nothing to try or banned is outside the common neighbours.

- `ComponentsRight`, `ClosureRight`, `DistancesRight`, `StrongComponentsRight`,
  `SearchesRight`, `ComparesRight`, `ListsRight`: each answer against its
  definition, by walks (`DigraphLists!Walks`), by the least relation with the
  property, by the order in `doc/z-chap3.xml`, by counting.
  `StrongComponentsRight` also says that the loop that pops `stack2` never runs it
  empty and that vertices with no boundary between them reach each other;
  `ComparesRight` that the counting buffer is zero between two vertices.
- `PathMarked`: the frames of a search are a path along the edges they are at,
  without a vertex twice below the top, its vertices marked open and no others.
  This is why n + 1 frames are room enough.
- `LabelsFit`: only a digraph without multiple edges has edge labels, one list
  for each vertex, reaching as far as the out-neighbours without a gap.
- `LabelsKept`: the digraph implements `LabelledDigraph`.
- `LoopsTakeTheirLabels`: every other edge keeps its label when loops are removed.
- `EveryEdgeHasALabel`: in a digraph without multiple edges a label can be read of
  every edge.

**Bounds.** `HOMOS_STRUCTURE_SIZE` is 3 for `Conditions`: with 3 columns there are
two depths that push, so that one depth's row lies next to another's, and the
second search, with 2 columns, reads the same memory at another stride
(`MaxSearches` = 2). The proofs cover all sizes. For the searches it is 5 with
digraphs of up to 4 vertices and blocks of 2 bits: two blocks, the second not
always full, recursion four deep and nontrivial groups. `MaxCalls` = 2 gives every
call a predecessor that ended, jumped or was refused. The second call is one of
three, and the hook stops only the first, so as to multiply states no further.
`MCConditions` pushes columns in increasing order, as the loops of the searches do,
and with one mask for each depth; `Conditions` itself has neither restriction and
is what the theorems are about.

**Arguments of `homos`.** `Regular` keeps what the C function's own argument checks
demand (the partial map goes to the image, the group keeps digraph2), and leaves
out the two situations of the run `homos_loops`, and a third: `homos.c`:1759 measures
the image by the blocks of the first `nr1` bits, though it is a set of vertices of
digraph2 (the comment after it asks "shouldn't the first nr1 be nr2?"), so that an
injective search in an image whose vertices all lie in later blocks is refused, and
`Complete` fails. The assumption `ImageMiscounted` of
`MCHomoSearch` has TLC evaluate the smallest case (`ImageInSecondBlock`): refused, though
there are maps. `Complete` is claimed for an image only with the trivial group, as the
documentation does.

**Arguments of `cliques`.** The samples have trivial, transitive and intransitive
groups, isolated vertices whose generators are all thrown away, loops and edges of
one direction. `KernelLimit` is 512 in the code and 5 in the run. `Regular` leaves out
what `CliquesFinder` refuses (representatives with arguments that are not invariant)
and where the code departs from its documentation:
for the kernel, invariant vertices to include with cliques of any size
(`cliques_include`), invariant vertices to exclude with maximal ones
(`cliques_exclude`), invariant vertices to include that have the size sought
already while maximal cliques are sought (they are reported though not maximal,
`cliques.c`:727), and all vertices excluded (the empty set is reported when the
vertices fill their blocks); for the search in GAP, a limit on
representatives that need not be maximal (it is overrun, `cliques.gi`:1054), vertices
to include that are not invariant (cliques are lost, `cliques.gi`:893), and
representatives that include vertices beside an isolated one (which is taken for a
neighbour of them, `cliques.gi`:891). Two of these have their smallest instances in
`MCCliquesFinder`, without a run: `Arguments <- OneOfTriangle` with `KernelLimit = 3`
violates `NoneTwice`, `Arguments <- CornerOfPrism` with `KernelLimit = 5` and
`HOMOS_STRUCTURE_SIZE = 7` violates `AsManyAsPossible` (`SPECIFICATION Spec`, one call).

**Arguments of `kernels`.** Three vertices are the fewest with a cycle that is not
an edge to and fro; the four-vertex samples have cycles that meet, follow each
other or have a tail, in lists out of order. The functions whose stacks do most
(Gabow, topological order, antisymmetry) run on every loopless digraph of 4
vertices, the transitive reduction on every one whose edges go down, which is what
its caller's topological sort leaves, the spanning forest on every symmetric one.
`PATH` is not called for an edge, which its caller answers itself. The number of
adjacencies is claimed for digraphs without multiple edges only: `doc/attr.xml`:145
counts sets {u, v}, and `DigraphNrAdjacencies` counts parallel edges several times.

**Arguments of `labels`.** With `Careful` the caller keeps to calls that keep labels
in step. What it avoids are departures of the code from the manual's promise; the first
three are in two runs without `Careful`, each on one digraph:

- removing loops from a labelled digraph (`labels_loops`); without labels this
  binds lists of default labels that are too long, which is harmless;
- contracting an edge whose ends share a neighbour: an error with the work half done;
- adding an edge when others lie beside each other while labels are bound: a label read when
  the digraph has lost its multiple edges may be missing or another's (both
  `labels_contract`);
- contracting an edge when both ends have labelled loops: the new loop's label
  is made of that at `u` and of its own default, not of that at `v` (`oper.gi`:433;
  the immutable version, 515-518, is right);
- the induced subdigraph on no vertices, which leaves all labels behind
  (`oper.gi`:1163), or one with multiple edges of a labelled digraph
  (`oper.gi`:1196, whose comment admits it).

The bounds are four vertices and three calls after the digraph is made, so that an
operation can leave the lists out of step, another move them, and a third show it.

**Fairness.** The two searches have `WF_vars(Run)`: a search is one thread in one
kernel function, so as long as it has a next step it takes it; the hook is assumed
to return. Nothing is assumed of `Call`. `DigraphKernels` has `WF_vars(Next)` for
the same reason. `SchreierSims`, `Conditions` and the labels state no liveness: the
operations of a mutable digraph are single steps.

**Deadlock** is not checked because the calls are bounded: after `MaxCalls` calls
the models stop where the program would wait for the next one; in `kernels` the one
call has been answered, and `Terminates` says that it always is.

## 4. What the runs found

- A partial map's values are installed without a look at the vertex's own cell, which
  loops and colours have narrowed (`homos.c`:1080, 1577): maps are reported that
  are no homomorphisms.
- In an embedding a vertex without a loop may be mapped to one with a loop
  (`homos.c`:1805, and the digraph version below). `homos_loops` shows both in one map: the
  partial map sends the looped vertex to the other one, and that goes to the loop.
- `cliques.c`:351 reports cliques that need not be maximal below the root only: the
  set of vertices to include, itself a clique, is not among the results
  (`cliques_include`).
- `cliques.c`:280 takes vertices to exclude out of the search without banning them:
  cliques are reported as maximal that excluded vertices extend
  (`cliques_exclude`).
- `DigraphRemoveLoops` removes the loops' labels from a copy (`attr.gi`:2631,
  `labels.gi`:131): the labels of the edges behind them in the lists shift; with
  out-neighbours [1, 2] and labels 11, 12, edge (1, 2) then reads 11 (`labels_loops`).
- `DigraphContractEdge` stops with an error when the ends share a neighbour, with the new
  vertex made and the edge gone (`oper.gi`:461-469). `DigraphAddEdge` gives an edge no
  label if the digraph has multiple edges by then (`oper.gi`:187), and
  `DigraphRemoveAllMultipleEdges` relies on there being no labels at all (`attr.gi`:2572):
  one after the other they leave an edge without a label (`labels_contract`).

## 5. What is proved

Every theorem holds for all values of the constants that satisfy the named
assumptions of the modules. TLC evaluates these assumptions in every run.

### Conditions

`ConditionsProofs` proves, for every `HOMOS_STRUCTURE_SIZE` and block size, every
set of masks and every sequence of searches, that `Spec` implies `TypeOK`,
`RowZeroComplete`, `RowsInjective`, `RowsAboveEmpty`, `HeightCountsPushes` and
`LevelsNarrow`, and that it implements the abstract stack (`StackImplemented`). The
assumptions: the size and the block are at least 1, the masks are bit arrays, the
searches have 1 to `HOMOS_STRUCTURE_SIZE` columns and values.

No one of the first five is inductive. The push writes
`changed[RowStart + n + 1]` and `bit_array[Index(height + 1, i)]`: that both stay
inside needs that the row has a place left (`RowsInjective`: at most nr1 different
columns are in it, and the pushed one is not) and that `height[i] < nr1`
(`HeightCountsPushes`: one bottom cell and one for each of the depths 1 .. depth,
where depth < nr1 and this depth has not pushed i yet). That the heights are counts
of pushes needs, for `Descend`, that the row of the new depth is empty
(`RowsAboveEmpty`), for `Return`, that a pop lowers each column once
(`RowsInjective`), and for `Finish`, that row 0 lists every column
(`RowZeroComplete`). So the inductive invariant is the conjunction of the five
(theorem `Inductive`), and `Narrowing` adds `LevelsNarrow` to it.
`ConditionsDataProofs` holds the lemmas: the rows of different depths and the cells of
different columns and heights do not overlap; what each operation leaves of each
field; counting lemmas about the sets of depths.

For the refinement, the table of the call at depth k is read off the arrays: the
cell of column i is the one at `LevelAt(i, k)`, the number of depths up to k that
have i in their row. Every action maps to one action of `CandidateStack` or to a
stutter: a push writes a level no table below reads, a narrowing in place is
allowed only after the column was pushed at this depth, and a pop lowers exactly
the columns in which the two topmost tables differ.

### The homomorphism searches

`HomoSearchProofs` finds the invariant of the whole search, for all arguments the
module admits, all sizes and any number of calls. `MapConsistent` is not inductive:
that a return takes back what the call changed depends on what the callers hold.
`HInv` therefore describes every frame k of the C stack by the depth it runs at
(`FrameDepth`), the vertices that were assigned when it was called (`AssignedAt`) and
their values (`ValuesAt`): its rank counts these values; its row of `MAP_UNDEFINED`
holds the other vertices; a caller is in the loop over the new or the old values and
clears the bit of its value exactly in the former; no assigned vertex has been pushed
since, so that the cell a caller takes its values from is not touched by the calls
above it. The running call also knows how far its loops have come, so no column is
pushed twice at one depth, the vertex it picks exists, and a cell is cut down in place
only after it was pushed. The conditions object enters through `ConditionsProofs` by
instance (`CP`): each step is proved to be a step of `Conditions`, and its invariant
and `HInv` are proved together (`SearchesInductive`). From them follow `SearchTypes`
(`TypeOK`), `GlobalsAgree` (`MapConsistent`) and `SearchesDriveConditions`
(`DrivesConditions`, so that the theorems on `Conditions` hold in the searches).

`HomoResultsProofs` builds on this:

- `StopsAtOnce` (`StopsWhenTold`): results are reported by the root or by a call whose
  vertices are all assigned, one at a time, and the one that makes them
  `max_results` leaves the search.
- `StabilisersFixValues` (`StabFixesVals`): each frame's `rep_depth` is not above those
  of the frames over it, and a call writes only the level above its own; so every
  frame still finds at its level the stabiliser of the values it was called with
  and its representatives, also where the trivial group makes the code skip them.
  A value tried again leaves the values, and so the stabiliser, as they are.
- `CellsForwardChecked` (`ForwardChecked`): the invariant `CellsRight` says of every
  frame of the stack, and of every vertex that was unassigned when it was called, that
  the cell this column had on top at the depth of the frame is what fits the vertices
  the frame knows of, and that its size is stored. `Settled` says which columns a
  narrowing loop has accounted for, also those it has no reason to look at. The cells of
  the depths below are not reached by a push, a cut in place, a new depth or a return
  (`PushCells`, `NarrowInPlaceCells`, `DescendCells` and `ReturnCells` of
  `ConditionsProofs`), so what a caller left is there again when it goes on.
- `ReportsSound` (`Sound`): with the cells right, what a call has left to try fits what
  was assigned when it was called (`TriesFit`), so the values assigned always go together
  (`Together`: arrows between different vertices, the bottom cells, the image,
  injectivity); an entry of the partial map still to be installed is the one candidate of its
  vertex (`EntriesOpen`), which no narrowing loses without ending the search. When all
  vertices are assigned, `TogetherWanted` turns this into the map the caller asked for:
  back to its own numbering (`Renumbered`), with loops and colours from the bottom cells
  (`BaseRowMeans`), and the rank from the frames' count of the values. The theorem is about
  the calls whose arguments are `Fitting`; what this leaves out are the two cases
  of `homos_loops`, where the code reports what it should
  not: an entry of the partial map that the loops or colours of its own vertex rule out,
  and an embedding when `digraph2` has loops and a vertex of `digraph1` has none.
- `ReportsIrredundant` (`Irredundant`): for every map found so far there is one frame on
  the stack that has it behind (`FoundBehind`): the map has the values that were assigned
  when the frame was made, and at the vertex this frame tries values for it has one that was
  tried before the one there is now. The values a frame tries are least in their orbits
  under the stabiliser of the values there were (`TriesApart`, by `StabsRight`), or are
  such values. So if a group element took the map found to the one assigned now, it would
  fix those values and take one value tried to another, which `ClassesApart` excludes. A
  return hands the map on to the caller (`LeaveFound`); homomorphisms go from the new to the
  old values in one frame, so `HasTried` counts all the new ones as tried then. The partial map
  is installed before anything is found (`PartialApart`).

`HomoCompleteProofs` proves the converse of `Sound`, `SearchesComplete` (`Complete`). What is
still to come cannot be said of a single map, since the search may leave the very map out
and find one the group takes it to. The invariant `NothingMissed` says: every wanted map is
equivalent to one found (`Reached`), or to a wanted map that is *ahead* of some frame of the
stack (`Pending`), one that agrees with what was assigned when the frame was made and whose
value at the vertex of the frame has not had its turn (`Ahead`, `ToCome`). For the steps:

- A narrowing keeps every candidate that a wanted map uses (`WantedFits`), so no loop takes a
  value of a map that is ahead, and no cell becomes empty and ends the call (`NarrowAhead`).
- When a vertex is picked, its cell holds the value of the map (`CellHoldsValue`, from
  `CellsRight`). If the value is not least in its orbit, the element of the stabiliser that
  takes it to the least one fixes all values assigned, and takes the map to an equivalent one
  whose value has its turn (`TakenToTried`, from `StabsRight`).
- A value that has its turn becomes the call on top (`CallAhead`); a homomorphism whose value
  is an old one waits for the second loop (`TurnAhead`); a frame is left only with nothing
  ahead of it (`SpentNothing`); and when all vertices are assigned, the map ahead is the one
  reported, its rank right (`WholeSought`, `ReportAhead`).
- The entries of the partial map are those of every wanted map (`PartialAhead`), and they stay
  assigned (`EntriesKept`). A call that is refused had nothing to find (`RefusedRightly`).

Two hypotheses stand in the theorem, both on the arguments. `ClosedGroup` says that a group
that is given consists of automorphisms of `digraph2` and their products, which is what
`homos.c`:2156-2193 asks of the argument; `Regular` has it in the runs. `ImageCounted` leaves
out the images that `homos.c`:1759 measures over the wrong number of bits (section 3), where
the property does fail. That the image is whole or the group trivial is
in `Complete` itself, as the documentation has it (`WholeImage`).

The assumptions are what the code makes sure of or takes for granted:
`ArgumentsAssumption` and `DigraphsAssumption` are the checks of
`FuncHomomorphismDigraphsFinder` (`homos.c`:1942-2196: both digraphs smaller than the
structures, values of the partial map in the image, the order a permutation of the vertices,
both colourings or none at 2110); `MaxResultsAssumption` is the documentation's "positive
integer" (`doc/grahom.xml`:63), which the code does not check; `SizesAssumption` says
that a number of bits is below `UNDEFINED` (65535), with which sizes of type `uint16_t`
are compared. `GroupAssumption` says that a group that is given has the inverses of its
elements, as the argument has to be a permutation group (`homos.c`:2156-2162). Only
`ReportsIrredundant` and `SearchesComplete` use it: for `StabFixesVals` any set of permutations does, and that
the automorphisms, which the code computes when no group is given, have inverses is proved
(`GroupInverses`).

### Graph algorithms

`WalkProofs` and `ComponentsProofs` prove, for every set of
calls with arguments as `CallsAssumption` has them, that `Spec` of `DigraphKernels`
implies `ComponentsRight`, `StrongComponentsRight`, `ClosureRight`, `DistancesRight`,
`PathMarked` and `SearchesRight`: the other functions of `digraphs.c` do not touch the
locals of the one that runs, so each proof follows one function.

- *Union-find.* Every pointer goes to a vertex that is not greater, and a numbering
  of the vertices agrees along the edges taken so far exactly when it agrees along
  the pointers (`ArrayRight`). Since pointers go down, a root is numbered before the
  vertices that point to it (`NumbersRight`).
- *Floyd-Warshall.* Every entry that is set is in every transitive relation that
  contains the edges. In pass k, two entries that meet in a vertex below k have the
  entry they give set, or can give it by way of k (`ClosedBelow`), and the pairs
  already passed are closed at k (`ClosedSoFar`): row and column k do not change
  in pass k, which is why the matrix may be changed in place. When k is n + 1 the
  set entries are transitive.
- *Distances* (`DistancesCorrect`). Every entry is the length of some walk (`Between`), so
  none is too small. That none is too large is the argument of the closures with lengths:
  where two entries meet in a vertex below k, there is an entry as short as their sum or
  two of that sum that meet in k (`ShortBelow`), and the pairs already passed need no way
  by k (`ShortSoFar`). The diagonal stays 0, so row and column k stay as they are
  in pass k.
- *Strong components* (`StrongComponentsCorrect`). Gabow's stacks are described by where
  things are (`Places`: a vertex is new, at the place of the first stack that is its
  number, or in a component; `CallsOpen`, `Beginnings`), by the edges gone along
  (`EdgesKept`: none leads back over a beginning that the second stack still has, none from
  a component to a later one) and by what reaches what (`AboveReached`, `PartsReach`,
  `ComponentsReach`). When the vertex on top is the last beginning, what is above it is one
  part, and no edge leaves it except to components that are complete; so no vertex
  of it reaches anything else that reaches back.
- *Depth-first searches.* The frames are a path and its vertices are the ones marked
  open; a path without repetition has at most n vertices, so the buffer of n + 1
  frames suffices (`StackIsThePath`, for all seven searches). What is answered is proved for
  three of them (`SearchesAnswer`): every edge out of a vertex that is done with goes to one
  that is, so such vertices are on no cycle and lead nowhere else, and a "no" of
  `IS_ACYCLIC_DIGRAPH` or `DIGRAPH_PATH` is right; for a "yes" the cycle or the path is on the
  stack; `IS_ANTISYMMETRIC_DIGRAPH` has compared each edge with the one it came by. `WalkProofs` has the
  facts about walks: a set that no edge leaves is not left, walks of fewer than n edges reach
  all that can be reached, a digraph has walks of n edges exactly when it has a cycle.

Induction over the naturals is obtained from the library's `WFMin` on a set
(`LeastNatural`, `Induction`), so facts about functions defined recursively on numbers
(`Scan`) are proved too.

### Stabiliser chains

`SchreierProofs` proves that `point_stabilizer` is right for every degree below
`HOMOS_STRUCTURE_SIZE`, every point, every list of generators and every sequence of calls
on one object (`StabiliserCorrect`), and the properties of the chain on the way
(`ChainTypes`, `ChainCorrect`, `LevelsFinished`, `ResiduesNew`). The assumption `InputsAssumption` is
what the callers in `homos.c` make sure of: digraphs smaller than the structures, and no
identity among the generators (`set_automorphisms`, `homos.c`:570-585; bliss reports none).

- *Groups.* `Generated` is shown to be the least set with the identity that is closed
  under multiplication by the generators (`GeneratedLeast`), and that this is a group
  (`ClosedIsGroup`: an injection of a finite set is onto, so inverses are in it).
- *A level.* `Spread` adds points to the end of the orbit while it goes through it, each
  with an element of the group that reaches it (`Levs`), and leaves no generator that leads
  out (`ClosedTo`), so the orbit is that of the group (`WholeOrbit`). By `SchreierLemma`
  a group that contains all Schreier generators of a level, and whose elements are in the
  group of the level and fix its base point, is the stabiliser.
- *Sifting.* What is left of a Schreier generator differs from it by an element of the
  group of the next level and fixes the base points of all levels it passed
  (`SiftFacts`). If nothing is left, the generator is in that group. If it stuck, or is
  not the identity, it is in no group of a level it is added to: these are finished, so it
  would be in the group of the level at which it stuck and would not have (`ResidueIsNew`).
- *The loops.* `SchreierInv` says of every phase what the arrays hold: only the base
  points while the base is set up (`InBase`), generators and orbits of the levels below i
  (`InLevels`), and during the sifting complete levels (`Complete`), finished ones above i
  (`Done`), and of level i that the Schreier generators before position (j, m) are in
  the group of level i + 1 (`InSift`). A residue changes the levels from i + 1 to the one it
  stuck at, and the loop goes back to just this one.
- *Room.* A permutation that is not the identity moves two points (`FixesAllButOne`). So a
  base point is added only while two points are left that are not in the base, and
  level `Len(base)`, which gets the generators that fix the whole base, exists. With
  `Rest`, which follows the variables `SchreierInv` says nothing of, this is `TypeOK`
  (`ChainTypes`).

That the entries of the arrays that earlier calls of another degree left are never read is
part of this: nothing is assumed of them but their type (`Arrays`).

### Only model-checked

- `Terminates`, of the searches and of the graph algorithms (liveness).
- `GeneratorsFit`: the code does not check it, and for a list of more generators than
  points it does not hold; the run has the lists of its inputs.
- The cliques, the labels and `LabelsKept`; `ComparesRight` and `ListsRight` of the graph
  algorithms, and what the other four depth-first searches answer.
- Liveness under fairness and anything with ENABLED, which the prover does not
  reach, and what RECURSIVE operators and folds compute for every input.

## 6. What is not modelled, and why

- Argument checks that end in `ErrorQuit`; digraphs without vertices; the
  statistics build; the growth of the structures (`homos.c`:1655-1710): no state
  the properties are about.
- bliss, nauty and the planarity suite: vendored. The automorphism group is the
  set it is by definition.
- The conversion of GAP lists and permutations: modelled by the values they hold.
- A hook that calls the finder again: it would overwrite the variables of the
  search it interrupts; nothing says it may.
- In `digraphs.c`: the graphs built for bliss and the hooks that collect its
  generators (1670-2170), the random digraphs, the hash.
- Of the mutable digraphs: operations that rebuild or drop all labels (quotients,
  unions, products, closures, `OnDigraphs`); `SwapDigraphs`, which exchanges the
  neighbours and not the labels (`oper.gi`:992-1001); the sharing of GAP lists
  between a digraph and its caller (`labels.gi`:70).
- Display, examples, constructors: no state.

## 7. Plan

In this order:

1. *(done)* Conditions, its abstract specification, the searches, Schreier-Sims; the
   invariants of Conditions proved.
2. *(done)* Cliques: both searches, the hook, the documentation as the reference.
3. *(done)* The graph algorithms of `digraphs.c`, each with its definition as the
   reference; union-find and the closures proved.
4. *(done)* Labels and mutable digraphs, with the labelled digraph they implement.
5. **Proofs**: *(done)* the depth-first searches, the refinement of the abstract
   stack, the invariant of the homomorphism searches and what they do with
   conditions, results and stabilisers, cells, that they miss no map, distances, Gabow's components, the
   stabiliser chain; *(next)* the counting buffer of the comparison; `LevelsInStep` of the
   cliques search; `LabelsFit`.
6. **Further parts**: the operations that rebuild labels, `SwapDigraphs`; the Sparse6
   bit stream of `io.gi`.
