---------------------------- MODULE MCIngestion ----------------------------
(* Instances of Ingestion for TLC: one document, with two versions or one. *)
EXTENDS Ingestion, TLC

CONSTANTS v1, v2, d1, w1, w2

VersionsOfOne == (v1 :> d1) @@ (v2 :> d1)
Alone == v1 :> d1

WorkerSymmetry == Permutations(Workers)
=============================================================================
