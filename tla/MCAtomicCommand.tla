--------------------------- MODULE MCAtomicCommand ---------------------------
(* Instances of AtomicCommand for TLC. *)
EXTENDS AtomicCommand

CONSTANTS u1, u2, w1, s1

=============================================================================
