----------------------------- MODULE CliquesFinder -----------------------------
(***************************************************************************)
(* CliquesFinder with the two searches it chooses from by the number of     *)
(* vertices, and what its documentation promises of the cliques it finds.   *)
(***************************************************************************)
EXTENDS KernelCliques, GapCliques

CONSTANTS
  Arguments,       \* the argument records of the calls
  MaxCalls,        \* how many calls are made, one after the other
  KernelLimit      \* from so many vertices on the GAP search is used (512)

ASSUME FinderArguments ==
  \A a \in Arguments : a.digraph.n \in 1 .. Size - 1 /\ a.limit \in Nat \ {0}
ASSUME FinderConstants == MaxCalls \in Nat /\ KernelLimit \in Nat

VARIABLE calls      \* the number of calls made

vars == << finder, kernel, calls >>

(* A call with this many vertices is for the kernel.                         *)
InKernel(a) == a.digraph.n < KernelLimit

(* The vertices that each search is to include and exclude.                  *)
Including(a, G) == IF InKernel(a) THEN InvariantPart(G, a.include) ELSE a.include
Excluding(a, G) == IF InKernel(a) THEN InvariantPart(G, a.exclude) ELSE a.exclude

Answered(a, G) ==
  /\ Hopeless(a, Including(a, G), Excluding(a, G))
  /\ status' = "done"
  /\ frames' = << >>
  /\ UNCHANGED kernel

Searched(a, G) ==
  /\ ~Hopeless(a, Including(a, G), Excluding(a, G))
  /\ \/ InKernel(a) /\ KernelBegin(a, G)
     \/ ~InKernel(a) /\ GapBegin(a, G) /\ UNCHANGED kernel

Call(a) ==
  /\ status \in {"idle", "done"}
  /\ calls < MaxCalls
  /\ calls' = calls + 1
  /\ args' = a
  /\ group' = AutGroup(a)
  /\ results' = << >>
  /\ found_orbits' = {}
  /\ Answered(a, group') \/ Searched(a, group')

Run == \/ DigraphsCliquesFinder /\ UNCHANGED calls
       \/ DIGRAPHS_BronKerbosch /\ UNCHANGED << kernel, calls >>

Init ==
  /\ args = CHOOSE a \in Arguments : TRUE
  /\ group = {}
  /\ frames = << >>
  /\ status = "idle"
  /\ results = << >>
  /\ found_orbits = {}
  /\ KernelInit
  /\ calls = 0

Next == (\E a \in Arguments : Call(a)) \/ Run

(* One thread runs a search to its end; the hook is assumed to return.       *)
Spec == Init /\ [][Next]_vars /\ WF_vars(Run)

------------------------------------------------------------------------------
(* Every field keeps to its range; no call is deeper than the digraph has     *)
(* vertices, and its row of to_try is inside the object.                     *)
TypeOK ==
  /\ status \in StatusType
  /\ {try_, ban, to_try} \subseteq ConditionsType
  /\ clique \in SUBSET Bits
  /\ status = "idle" => frames = << >>
  /\ Len(frames) <= nr + 1
  /\ status = "kernel" => F.row \in 1 .. to_try.nr1
  /\ results \in Seq(SUBSET SUBSET Vertices(args.digraph))

Cliques == UNION Range(results)

(* What the documentation of CliquesFinder says a clique found is.  The      *)
(* empty clique is not counted as one.                                       *)
Maximal(a, c) ==
  \A v \in Vertices(a.digraph) \ c : ~Clique(a, c \cup {v})

Sought(a, c) ==
  /\ c # {}
  /\ Clique(a, c)
  /\ a.include \subseteq c
  /\ a.exclude \cap c = {}
  /\ a.size # 0 => Cardinality(c) = a.size
  /\ a.max => Maximal(a, c)

SoughtCliques(a) == { c \in SUBSET Vertices(a.digraph) : Sought(a, c) }

(* Everything the hook adds is a clique of the kind asked for.               *)
OnlySought ==
  results # << >> => \A c \in Last(results) : Sought(args, c)

(* doc/cliques.xml: as many suitable cliques as possible, up to the limit,   *)
(* if it is not for representatives only; and if it is and there are fewer   *)
(* than the limit, a representative of every orbit.                          *)
AsManyAsPossible ==
  status = "done" =>
    IF args.reps
    THEN NumFound < args.limit =>
           \A c \in SoughtCliques(args) : CliqueOrbit(c) \cap Cliques # {}
    ELSE NumFound = Min({args.limit, Cardinality(SoughtCliques(args))})

(* doc/cliques.xml: a duplicate-free list of at most limit cliques.          *)
NoneTwice ==
  /\ NumFound <= args.limit
  /\ Cardinality(Cliques) = NumFound

Banned == IF status = "kernel" THEN SetBits(ban_cell, nr) ELSE F.ban
Current == IF status = "kernel" THEN SetBits(clique, nr) ELSE F.c

(* What a banned vertex stands for: every clique sought that contains the    *)
(* current one and a banned vertex has been met already, up to the group.    *)
(* This is why a call that finds a banned vertex adjacent to all of its       *)
(* clique has nothing new to report, after any number of returns.            *)
BannedIsDone ==
  status \in {"kernel", "gap"} /\ frames # << >> /\ F.stage = "loop" =>
    \A c \in SoughtCliques(args) :
      Current \subseteq c /\ c \cap Banned # {} => CliqueOrbit(c) \cap Cliques # {}

(* The three objects are at the same level as the recursion, whatever the    *)
(* call before left: one cell for each active call, one more of to_try in    *)
(* the loop, and nothing to try or banned is outside the common neighbours.  *)
LevelsInStep ==
  status = "kernel" /\ F.stage # "enough" =>
    /\ try_.height[0] = Len(frames)
    /\ ban.height[0] = Len(frames)
    /\ to_try.height[0] = F.row + (IF F.stage = "loop" THEN 1 ELSE 0)
    /\ F.row = Len(frames)
    /\ \A v \in SetBits(try_cell \cup ban_cell, nr) :
         \A w \in SetBits(clique, nr) : Adjacent(args, v, w)
    /\ SetBits(try_cell \cap ban_cell, nr) = {}

(* Every call comes to an end.                                               *)
Terminates == status \in {"kernel", "gap"} ~> status = "done"
==============================================================================
