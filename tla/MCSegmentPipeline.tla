------------------------- MODULE MCSegmentPipeline -------------------------
(***************************************************************************)
(* Instances of SegmentPipeline for TLC: model values for the workers and  *)
(* the symmetry between them.                                              *)
(***************************************************************************)
EXTENDS SegmentPipeline, TLC

WorkerSymmetry == Permutations(Workers)
=============================================================================
