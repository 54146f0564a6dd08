---------------------------- MODULE MCSchreierSims ----------------------------
(* The stabiliser chain for groups on 3 to 5 points, two calls after each    *)
(* other on the same object.                                                 *)
EXTENDS SchreierSims

Call(gens, p) == [degree |-> Cardinality(DOMAIN gens[1]), gens |-> gens, pt |-> p]

Perm(s) == [k \in 0 .. Len(s) - 1 |-> s[k + 1]]

Small == Perms(3) \ {IdPerm(3)}

(* Transpositions, a double one, a 3-cycle and 4-cycles on 4 points.         *)
Chosen4 == { Perm(<< 1, 0, 2, 3 >>), Perm(<< 0, 2, 1, 3 >>), Perm(<< 0, 1, 3, 2 >>),
             Perm(<< 1, 0, 3, 2 >>), Perm(<< 0, 2, 3, 1 >>), Perm(<< 1, 2, 3, 0 >>),
             Perm(<< 3, 2, 0, 1 >>) }

Rotate5 == Perm(<< 1, 2, 3, 4, 0 >>)
Swap5 == Perm(<< 0, 2, 1, 3, 4 >>)
Flip5 == Perm(<< 0, 4, 3, 2, 1 >>)
Gens5 == { << Rotate5, Flip5 >>, << Flip5, Swap5, Flip5 >>, << Rotate5 >> }

MCInputs ==
  { Call(g, p) : g \in { << x, y >> : x, y \in Small } \cup { << x >> : x \in Small },
                 p \in 0 .. 2 }
  \cup { Call(<< x, y >>, 0) : x, y \in Perms(4) \ {IdPerm(4)} }
  \cup { Call(<< x, y >>, 3) : x, y \in Chosen4 }
  \cup { Call(g, p) : g \in Gens5, p \in {0, 2} }

SecondInputs ==
  { Call(<< Perm(<< 1, 2, 0 >>), Perm(<< 1, 0, 2 >>) >>, 1),
    Call(<< Perm(<< 1, 2, 3, 0 >>), Perm(<< 1, 0, 2, 3 >>) >>, 2) }

MCNext ==
  \/ \E in \in IF calls = 0 THEN Inputs ELSE SecondInputs : point_stabilizer(in)
  \/ run_ss

MCSpec == Init /\ [][MCNext]_vars
==============================================================================
