------------------------- MODULE MCWorktreeLifecycle -------------------------
(* Instances of WorktreeLifecycle for TLC.                                 *)
EXTENDS WorktreeLifecycle, TLC

Symmetry == Permutations(Procs) \cup Permutations(Lifecycles)
=============================================================================
