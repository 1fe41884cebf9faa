------------------------------ MODULE MCBuildSpy ------------------------------
(* A build and its successor; the guid of lib begins that of libTests. *)
EXTENDS BuildSpy, TLC

CONSTANTS lib, libTests, p1, p2

TwoTargets == {lib, libTests}
FirstAllThenLib == <<{lib, libTests}, {lib}>>
AnyPoller == Permutations({p1, p2})
Eclipse == {<<lib, libTests>>}
=============================================================================
