----------------------------- MODULE KernelCliques -----------------------------
(***************************************************************************)
(* DigraphsCliquesFinder and BronKerbosch of src/cliques.c.  Three           *)
(* Conditions objects of which only column 0 is used hold the vertices to    *)
(* try, the banned ones and those picked for trying, for every active call.  *)
(* They are kept from one call of the finder to the next, and a search that  *)
(* reaches its limit leaves them as they are.                                *)
(*                                                                         *)
(* A group that is Fail in the code stands for the trivial group, on which   *)
(* every step of the code does the same.  A step is one entry of             *)
(* BronKerbosch up to its loop, one vertex tried, or one return with the     *)
(* rest of the caller's iteration.                                           *)
(***************************************************************************)
EXTENDS CliqueSearch, ConditionsData

VARIABLES try_, ban, to_try,      \* the Conditions of the CliquesData
          clique                  \* and its bit array

kernel == << try_, ban, to_try, clique >>

(* A call at depth Len(frames) - 1: its group, the level of to_try that is   *)
(* its own, and the vertex it tries (-1 before the first).                   *)
Frame(G) == [group |-> G, row |-> to_try.height[0], at |-> -1, stage |-> "enter"]

KernelGroup(a, G) ==
  IF Isolated(a) = {} THEN G ELSE Generated(KeptGens(a), a.digraph.n)

(* init_data_from_args: the cell of the vertices to try at first.  Of the    *)
(* isolated vertices only one is tried.                                      *)
FirstTry(a, inc, exc, bottom) ==
  LET n == a.digraph.n
      included == FoldSet(LAMBDA v, cell : intersect_bit_arrays(cell, Neighbours(a, v), n),
                          complement_bit_arrays(bottom, inc, n), inc)
      cell == complement_bit_arrays(included, exc, n)
      isolated == SetBits(cell, n) \cap Isolated(a)
  IN  IF isolated = {} THEN cell
      ELSE set_bit_array(complement_bit_arrays(cell, Isolated(a), n), Min(isolated), TRUE)

Cleared(c, a) == clear_conditions(c, a.digraph.n + 1, a.digraph.n)

(* BronKerbosch is given the size without the vertices included.  A faulty   *)
(* variant: with them.                                                       *)
SoughtSize_whole == args.size

SoughtSize ==
  IF args.size = 0 THEN 0
  ELSE args.size - Cardinality(InvariantPart(group, args.include))

(* The search begins, or the vertices to include are a clique of the size    *)
(* sought already.                                                           *)
KernelBegin(a, G) ==
  LET n == a.digraph.n
      inc == InvariantPart(G, a.include)
      exc == InvariantPart(G, a.exclude)
      trying == Cleared(try_, a)
      banning == Cleared(ban, a)
  IN  /\ try_' = SetTop(trying, 0, FirstTry(a, inc, exc, get_conditions(trying, 0)))
      /\ ban' = SetTop(banning, 0, init_bit_array(get_conditions(banning, 0), FALSE, n))
      /\ to_try' = Cleared(to_try, a)
      /\ clique' = inc
      /\ status' = "kernel"
      /\ frames' = << [group |-> KernelGroup(a, G), row |-> 1, at |-> -1,
                       stage |-> IF a.size # 0 /\ Cardinality(inc) = a.size
                                 THEN "enough" ELSE "enter"] >>

Stage(stage) == status = "kernel" /\ F.stage = stage

Enough ==
  /\ Stage("enough")
  /\ Hook(SetBits(clique, nr))
  /\ frames' = << >>
  /\ status' = "done"
  /\ UNCHANGED << args, group, kernel >>

depth == Len(frames) - 1
try_cell == get_conditions(try_, 0)
ban_cell == get_conditions(ban, 0)

HasSize == SoughtSize \in {0, depth}

(* A faulty variant: a clique is taken for maximal although a banned vertex  *)
(* extends it.                                                               *)
Reportable_unbanned ==
  \/ depth > 0 /\ ~args.max /\ HasSize
  \/ size_bit_array(try_cell, nr) = 0 /\ HasSize

(* A clique to report: any one below the root, else a maximal one.           *)
Reportable ==
  \/ depth > 0 /\ ~args.max /\ HasSize
  \/ size_bit_array(try_cell, nr) = 0 /\ size_bit_array(ban_cell, nr) = 0 /\ HasSize

(* The pivot has as many neighbours to try as possible.                      *)
Pivot ==
  LET candidates == SetBits(try_cell \cup ban_cell, nr)
      tried(v) == Cardinality(Neighbours(args, v) \cap try_cell)
      best == { v \in candidates : \A w \in candidates : tried(w) <= tried(v) }
  IN  IF candidates = {} THEN 0 ELSE Min(best)

(* The vertices picked: without the neighbours of the pivot if only maximal  *)
(* cliques are sought, and then the first of every orbit.                    *)
Picked(old) ==
  LET all == IF args.max
             THEN intersect_bit_arrays(
                    complement_bit_arrays(init_bit_array(old, TRUE, nr),
                                          Neighbours(args, Pivot), nr), try_cell, nr)
             ELSE copy_bit_array(old, try_cell, nr)
  IN  { v \in all : v < nr => \A w \in Orbit(F.group, v) \cap all : v <= w }

(* A faulty variant: the height of to_try is left alone.                       *)
PickVertices_flat ==
  /\ to_try' = SetTop(to_try, 0, Picked(get_conditions(to_try, 0)))
  /\ Running([F EXCEPT !.stage = "loop"])
  /\ UNCHANGED status

PickVertices ==
  /\ to_try' = [SetTop(to_try, 0, Picked(get_conditions(to_try, 0)))
                  EXCEPT !.height[0] = @ + 1]
  /\ Running([F EXCEPT !.stage = "loop"])
  /\ UNCHANGED status

(* EXIT: every active call returns at once.                                  *)
Exit ==
  /\ frames' = << >>
  /\ status' = "done"
  /\ UNCHANGED to_try

Enter ==
  /\ Stage("enter")
  /\ \/ /\ Reportable
        /\ Hook(SetBits(clique, nr))
        /\ IF NumFound' >= args.limit THEN Exit ELSE PickVertices
     \/ /\ ~Reportable
        /\ PickVertices
        /\ UNCHANGED << results, found_orbits >>
  /\ UNCHANGED << args, group, try_, ban, clique >>

(* A faulty variant: the vertex tried is one to try.                         *)
ToTry_again ==
  { v \in SetBits(to_try.bit_array[Index(to_try.nr1, F.row, 0)], nr) : v >= F.at }

ToTry == { v \in SetBits(to_try.bit_array[Index(to_try.nr1, F.row, 0)], nr) : v > F.at }

Try ==
  /\ Stage("loop")
  /\ ToTry # {}
  /\ LET v == Min(ToTry)
     IN  /\ clique' = set_bit_array(clique, v, TRUE)
         /\ try_' = push_conditions(try_, depth + 1, 0, Neighbours(args, v))
         /\ ban' = push_conditions(ban, depth + 1, 0, Neighbours(args, v))
         /\ frames' = Append(Append(Front(frames), [F EXCEPT !.at = v]),
                             Frame(Stabilizer(F.group, v)))
  /\ UNCHANGED << args, group, status, results, found_orbits, to_try >>

(* A faulty variant: its orbit under the whole group is.                     *)
Ban_whole(v, G) == Orbit(group, v)

(* After v was tried its orbit is: no need to look at it again.              *)
Ban(v, G) == Orbit(G, v)

(* The height of to_try on return; a faulty variant leaves it.               *)
Lowered_not(c) == c
Lowered(c) == [c EXCEPT !.height[0] = @ - 1]

Return ==
  /\ Stage("loop")
  /\ ToTry = {}
  /\ Len(frames) > 1
  /\ frames' = Front(frames)
  /\ LET caller == Last(Front(frames))
         tried  == Ban(caller.at, caller.group)
         popped == pop_conditions(try_, depth)
         banned == pop_conditions(ban, depth)
     IN  /\ clique' = set_bit_array(clique, caller.at, FALSE)
         /\ to_try' = Lowered(to_try)
         /\ try_' = ComplementTop(popped, 0, tried)
         /\ ban' = SetTop(banned, 0, union_bit_arrays(get_conditions(banned, 0), tried, nr))
  /\ UNCHANGED << args, group, status, results, found_orbits >>

KernelFinish ==
  /\ Stage("loop")
  /\ ToTry = {}
  /\ Len(frames) = 1
  /\ frames' = << >>
  /\ status' = "done"
  /\ UNCHANGED << args, group, results, found_orbits, kernel >>

BronKerbosch == Enter \/ Try \/ Return \/ KernelFinish

DigraphsCliquesFinder == Enough \/ BronKerbosch

KernelInit ==
  /\ try_ = new_conditions
  /\ ban = new_conditions
  /\ to_try = new_conditions
  /\ clique = {}
==============================================================================
