--------------------------- MODULE MCDebugSession ---------------------------
(* Instances of DebugSession for TLC. *)
EXTENDS DebugSession, TLC

CONSTANTS s1, s2, a1, a2

Symmetric == Permutations(Sessions) \cup Permutations(Apps)

=============================================================================
