------------------------- MODULE MCProblemDiagnostics -------------------------
(* A problem in a source file, which SourceKit may have too, one of a macro in    *)
(* the same file, and one of the linker, which is referred to the build log.      *)
EXTENDS ProblemDiagnostics

MCFileOf == [p \in Problems |-> IF p = "link" THEN "log" ELSE "source"]

Line(p) == <<<<p, 1>>, <<p, 2>>, Newline>>
Quote   == <<Caret, Newline>>

MCText == [b \in Builds |-> IF b = "first" THEN Line("type") \o Quote \o Line("link")
                            ELSE Line("link") \o Line("type") \o Quote]
==============================================================================
