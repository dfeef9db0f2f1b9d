----------------------------- MODULE MCAdmission -----------------------------
(* Model checking of Admission: connections and requests of one kind are    *)
(* interchangeable.                                                          *)
EXTENDS Admission, TLC

Symmetry == Permutations(Connections) \union Permutations(Executes)

=============================================================================
