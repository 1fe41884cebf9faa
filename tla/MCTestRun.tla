------------------------------ MODULE MCTestRun ------------------------------
(* Two project files; one test of the second is not understood. *)
EXTENDS TestRun

MCPlan == <<<<{"a", "b"}>>, <<{"c", "d"}>>>>
MCNameSays == [t \in Tests |-> IF t = "c" THEN "passed" ELSE "no"]
==============================================================================
