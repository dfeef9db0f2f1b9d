-------------------------- MODULE MCDaemonLifecycle --------------------------
(* Model checking of DaemonLifecycle: processes of one kind are             *)
(* interchangeable.                                                          *)
EXTENDS DaemonLifecycle, TLC

Symmetry == Permutations(Askers \ Patient) \union Permutations(ByHand) \union Permutations(Rotators)

=============================================================================
