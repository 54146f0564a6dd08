------------------------------ MODULE KernelCalls ------------------------------
(***************************************************************************)
(* A call of one of the C functions of digraphs.c.  None keeps anything from *)
(* call to call: the local variables of the one that runs are all the state, *)
(* and a behaviour is one call, from its arguments to its answer.            *)
(***************************************************************************)
EXTENDS DigraphLists

VARIABLES
  call,      \* the function called, and its arguments
  loc,       \* its local variables
  answer     \* << >> while it runs; then << "value", the value it returned >>,
             \* << "fail" >>, or << "error" >>

vars == << call, loc, answer >>

D == call.adj                       \* the digraph it was called with
V == Vertices(D)
N == Len(D)

Running(f) == call.fn = f /\ answer = << >> /\ call' = call
Answered(f) == call.fn = f /\ answer # << >>

(* The function is left with a value, with fail, or with a GAP error.        *)
Answer(a) == answer' = << "value", a >> /\ loc' = loc
Fail == answer' = << "fail" >> /\ loc' = loc
Error == answer' = << "error" >> /\ loc' = loc

Result == answer[2]

(* The function goes on with other values in its local variables.            *)
Continue(l) == loc' = l /\ answer' = answer
==============================================================================
