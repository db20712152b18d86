-------------------------- MODULE MCCoreLifecycle --------------------------
(* Instances of CoreLifecycle for TLC.                                     *)
EXTENDS CoreLifecycle, TLC
Symmetry == Permutations(Slots)
=============================================================================
