---------------------------- MODULE MCProjectFiles ----------------------------
(* An instance of ProjectFiles for TLC. *)
EXTENDS ProjectFiles, TLC

EditSymmetry == Permutations(Edits)
=============================================================================
