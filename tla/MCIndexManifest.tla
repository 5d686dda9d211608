-------------------------- MODULE MCIndexManifest --------------------------
(* Instances of IndexManifest for TLC.                                     *)
EXTENDS IndexManifest, TLC

ReconcilerSymmetry == Permutations(Reconcilers)
=============================================================================
