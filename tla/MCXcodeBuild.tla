----------------------------- MODULE MCXcodeBuild -----------------------------
(* The log printer is piped into tee. *)
EXTENDS XcodeBuild

MCPipeOf == [p \in Procs |-> IF p = printer THEN tee ELSE NoProc]
==============================================================================
