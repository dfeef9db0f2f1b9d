-------------------------- MODULE MCDirectExecution --------------------------
(* Model checking of DirectExecution.  The two operators have nothing to tell *)
(* them apart, so whichever resumes first is called r1.  An attempt that has  *)
(* left "idle" never returns to it: the constraint cuts off the behaviours    *)
(* in which r2 is first, all of them and no part of another, which the ones   *)
(* left stand for; so it is sound of liveness too, where SYMMETRY is not.     *)
EXTENDS DirectExecution

CONSTANTS r1, r2

FirstIsR1 == pc[r2] # "idle" => pc[r1] # "idle"

=============================================================================
