----------------------------- MODULE MCTestTree -----------------------------
(* An instance of TestTree for TLC. *)
EXTENDS TestTree, TLC

CONSTANTS l1, r1, d1, d2, f1, f2, va, vb, ve

\* Which texts with tests they are does not matter, nor which event is which.
Symmetric == Permutations(Versions \ {Empty}) \cup Permutations(Docs)

=============================================================================
