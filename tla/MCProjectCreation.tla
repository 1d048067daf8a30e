-------------------------- MODULE MCProjectCreation --------------------------
(***************************************************************************)
(* Instances of ProjectCreation for TLC: model values and the symmetry of  *)
(* requests, owners, wordings and revisions.  The choices in Init only     *)
(* fill fields that a request sets before anything reads them.             *)
(***************************************************************************)
EXTENDS ProjectCreation, TLC

CreationSymmetry ==
  Permutations(Previews) \union Permutations(Projects)
    \union Permutations(Owners) \union Permutations(Wordings)
    \union Permutations(Revisions)
=============================================================================
