-------------------------- MODULE MCWorkScheduler --------------------------
(***************************************************************************)
(* Instances of WorkScheduler for TLC: model values for the threads and    *)
(* the symmetry between them (the projects are ordered).                   *)
(***************************************************************************)
EXTENDS WorkScheduler, TLC

ThreadSymmetry == Permutations(Threads)
=============================================================================
