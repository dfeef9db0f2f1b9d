--------------------------- MODULE MCCodeExecution ---------------------------
(* Model checking of CodeExecution: two executions that share the engine, and *)
(* scripts that meet a gate twice, branch on errors and overflow.           *)
EXTENDS CodeExecution, TLC

CONSTANTS e1, e2, open, gated, other, look, barred, branches, repeats, overflows

Script(next(_)) == [h \in Heard |-> IF Len(h) = MaxCalls THEN "return" ELSE next(h)]

\* An open call, then a gated one; which, depends on the text of an error.
Branches ==
  Script(LAMBDA h : IF Len(h) = 0 THEN open
                    ELSE IF h[1] = "long error" THEN other ELSE gated)

\* The same gated call twice, or something forbidden if the first is refused.
Repeats ==
  Script(LAMBDA h : IF Len(h) = 1 /\ h[1] = "refused" THEN barred ELSE gated)

\* It looks something up, and overflows the stack if it finds it.
Overflows ==
  [h \in Heard |->
     IF Len(h) = 0 THEN look ELSE IF h[1] = "value" THEN "overflow" ELSE "throw"]

MCScripts == [e \in Executions |-> IF e = e1 THEN {branches, repeats} ELSE {overflows}]

MCDoes == [s \in {branches, repeats, overflows} |->
  CASE s = branches -> Branches [] s = repeats -> Repeats [] s = overflows -> Overflows]

ResumerSymmetry == Permutations(Resumers)

=============================================================================
