----------------------- MODULE MCContinuationWatchdog -----------------------
(* Instances of ContinuationWatchdog for TLC.                              *)
EXTENDS ContinuationWatchdog, TLC

Symmetry == Permutations(Sessions)

=============================================================================
