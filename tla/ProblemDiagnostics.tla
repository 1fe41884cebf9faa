-------------------------- MODULE ProblemDiagnostics --------------------------
(***************************************************************************)
(* The problems that ProblemDiagnosticResolver shows: those that           *)
(* SourceKit sends for a file, and those that a build prints, which a      *)
(* parser of its own reads from the output in whatever chunks it comes.    *)
(* At its start a build notes the files that have problems of earlier      *)
(* builds; what it finds replaces them, and its end removes the rest.      *)
(*                                                                         *)
(* The set of noted files is shared.  Commands run one at a time (module   *)
(* AtomicCommand), but a command that is cancelled gives up its place at   *)
(* once, while its build still prints and its end is still to come.        *)
(***************************************************************************)
EXTENDS Naturals, Sequences, FiniteSets, FiniteSetsExt

CONSTANTS
    Files,      \* the files that problems are about
    LogFile,    \* the build log, which is one of them
    Problems,   \* problems: a message at a place
    FileOf,     \* the file of each problem
    Macros,     \* those that only the result bundle knows (Swift macros)
    Builds,     \* the builds, each once
    Text        \* the output of each build, a sequence of tokens

\* A problem's line comes in two halves; a caret is below the source it quotes.
Caret   == <<"caret", 0>>
Newline == <<"newline", 0>>
Tokens  == (Problems \X {1, 2}) \cup {Caret, Newline}

NoBuild == "none"

ASSUME DiagnosticsAssumption ==
    /\ LogFile \in Files
    /\ FileOf \in [Problems -> Files]
    /\ Macros \subseteq Problems
    /\ Text \in [Builds -> Seq(Tokens)]
    /\ NoBuild \notin Builds

VARIABLES
    phase,       \* where each build is
    kind,        \* who builds: the user, or the watcher of files
    collection,  \* diagnosticBuildCollection: for each file problems and their source
    previous,    \* filesWithPreviousBuildDiagnostics
    pos,         \* how many tokens of its output a build has printed
    cut,         \* how many of them its parser has read
    firstIndex,  \* where the parser looks on, from cut
    trigger,     \* what it looks for
    lines,       \* numberOfLines
    found,       \* the problems it found, with their lines in the log (history)
    overlapped,  \* the builds that another build was alive with (history)
    excused,     \* the problems whose file has changed since, or that SourceKit had too (history)
    latest       \* the build that ended last and cleaned up, since the last start (history)

parserVars  == <<pos, cut, firstIndex, trigger, lines, found>>
historyVars == <<overlapped, excused, latest>>
vars == <<phase, kind, collection, previous, parserVars, historyVars>>

Sources == {"xcodebuild", "sourcekit"}

\* After a build was cancelled its end is "leaving"; one that was cancelled during
\* its end is "abandoned".
Phases == {"none", "running", "cancelled", "ending", "abandoned", "leaving", "over"}

TypeOK ==
    /\ phase \in [Builds -> Phases]
    /\ kind \in [Builds -> {"user", "watcher"}]
    /\ collection \in [Files -> SUBSET (Problems \X Sources)]
    /\ previous \in SUBSET Files
    /\ \A b \in Builds : /\ pos[b] \in 0..Len(Text[b])
                         /\ cut[b] \in 0..pos[b]
                         /\ firstIndex[b] \in 0..(pos[b] - cut[b])
    /\ trigger \in [Builds -> {Caret, Newline}]
    /\ lines \in [Builds -> Nat]
    /\ found \in [Builds -> SUBSET (Problems \X Nat)]
    /\ overlapped \in SUBSET Builds
    /\ excused \in SUBSET Problems
    /\ latest \in Builds \cup {NoBuild}

Of(f, source) == {d \in collection[f] : d[2] = source}

\* An earlier build has left problems.
Init ==
    /\ phase = [b \in Builds |-> "none"]
    /\ kind \in [Builds -> {"user", "watcher"}]
    /\ collection \in [Files -> SUBSET (Problems \X {"xcodebuild"})]
    /\ \A f \in Files : \A d \in collection[f] : FileOf[d[1]] = f /\ d[1] \notin Macros
    /\ previous = {}
    /\ pos = [b \in Builds |-> 0] /\ cut = [b \in Builds |-> 0]
    /\ firstIndex = [b \in Builds |-> 0]
    /\ trigger = [b \in Builds |-> Caret]
    /\ lines = [b \in Builds |-> 0] /\ found = [b \in Builds |-> {}]
    /\ overlapped = {} /\ excused = {} /\ latest = NoBuild

------------------------------------------------------------------------------
(* The collection. *)

\* uniqueDiagnostics: of two problems with one message at one place the one of the
\* other source stays.
Unique(new, others) == {d \in new : \A o \in others : o[1] # d[1]}

\* storeNewDiagnostics for the files of new: what replaces the problems of source.
Stored(new, replaced, source) ==
    [f \in Files |->
        LET mine   == {<<p, source>> : p \in {q \in new : FileOf[q] = f}}
            others == collection[f] \ Of(f, source)
            kept   == IF f \in replaced THEN {} ELSE Of(f, source)
        IN  IF mine = {} THEN collection[f] ELSE Unique(kept \cup mine, others) \cup others]

\* Mutant: a file stays noted.
StoreAgain(new) ==
    /\ collection' = Stored(new, previous, "xcodebuild")
    /\ UNCHANGED previous
    /\ excused' = (excused \ new)
                  \cup {p \in new : <<p, "sourcekit">> \in collection[FileOf[p]]}

\* The problems of a build: the first for a file replace those of earlier builds.
Store(new) ==
    /\ collection' = Stored(new, previous, "xcodebuild")
    /\ previous' = previous \ {FileOf[p] : p \in new}
    /\ excused' = (excused \ new)
                  \cup {p \in new : <<p, "sourcekit">> \in collection[FileOf[p]]}

\* handleDiagnostics: SourceKit sends all it knows of a file.
HandleDiagnostics(f, new) ==
    /\ collection' = [collection EXCEPT ![f] =
           LET others == Of(f, "xcodebuild")
           IN  Unique({<<p, "sourcekit">> : p \in new}, others) \cup others]
    /\ UNCHANGED <<phase, kind, previous, parserVars, historyVars>>

\* The text of a file changes: problems of builds go, except those of macros.
Edit(f) ==
    /\ f # LogFile
    /\ collection' = [collection EXCEPT ![f] =
           {d \in @ : d[2] = "xcodebuild" => d[1] \in Macros}]
    /\ excused' = excused \cup {p \in Problems \ Macros : FileOf[p] = f}
    /\ UNCHANGED <<phase, kind, previous, parserVars, overlapped, latest>>

\* A document is closed: SourceKit does not look after it any more.
CloseDocument(f) ==
    /\ collection' = [collection EXCEPT ![f] = Of(f, "xcodebuild")]
    /\ UNCHANGED <<phase, kind, previous, parserVars, historyVars>>

\* A file is deleted.
Delete(f) ==
    /\ collection' = [collection EXCEPT ![f] = {}]
    /\ excused' = excused \cup {p \in Problems : FileOf[p] = f}
    /\ UNCHANGED <<phase, kind, previous, parserVars, overlapped, latest>>

------------------------------------------------------------------------------
(* The parser of a build's output. *)

\* parseBuildLog: the problems in a part of the output, with their lines if the
\* part begins at line n.
Newlines(part) == Cardinality({i \in DOMAIN part : part[i] = Newline})
Parsed(part, n) ==
    {<<part[i][1], n + Newlines(SubSeq(part, 1, i))>> :
        i \in {j \in DOMAIN part :
                   /\ part[j] \in Problems \X {1} /\ j < Len(part)
                   /\ part[j + 1] = <<part[j][1], 2>>}}

\* parseStdout looks through what is new: for a caret, and from then on for the
\* last end of a line.
Looked(buffer, from, wanted) ==
    LET new    == (from + 1)..Len(buffer)
        carets == {i \in new : buffer[i] = Caret}
        start  == IF wanted = Newline THEN from ELSE IF carets = {} THEN Len(buffer) ELSE Min(carets)
        ends   == {i \in new : i > start /\ buffer[i] = Newline}
    IN  [end  |-> IF ends = {} THEN 0 ELSE Max(ends),
         next |-> IF carets = {} THEN wanted ELSE Newline]

\* The lines that are counted when a part of the output is taken away.
Counted(b, part) == Newlines(part)

\* parseStdout takes the first end tokens of the buffer; the rest is looked through
\* again.
Take(b, buffer, end) ==
    LET part == SubSeq(buffer, 1, end)
        new  == Parsed(part, lines[b])
    IN  /\ found' = [found EXCEPT ![b] = @ \cup new]
        /\ Store({p[1] : p \in new})
        /\ lines' = [lines EXCEPT ![b] = @ + Counted(b, part)]
        /\ cut' = [cut EXCEPT ![b] = @ + end]
        /\ firstIndex' = [firstIndex EXCEPT ![b] = 0]
        /\ trigger' = [trigger EXCEPT ![b] = Caret]

\* n more tokens of the output reach the parser.
Prints(b, n) ==
    /\ phase[b] \in {"running", "cancelled"}
    /\ n > pos[b] /\ n <= Len(Text[b])
    /\ pos' = [pos EXCEPT ![b] = n]
    /\ LET buffer == SubSeq(Text[b], cut[b] + 1, n)
           look   == Looked(buffer, firstIndex[b], trigger[b])
       IN  \/ look.end # 0 /\ Take(b, buffer, look.end)
           \/ /\ look.end = 0
              /\ firstIndex' = [firstIndex EXCEPT ![b] = Len(buffer)]
              /\ trigger' = [trigger EXCEPT ![b] = look.next]
              /\ UNCHANGED <<collection, previous, excused, cut, lines, found>>
    /\ UNCHANGED <<phase, kind, overlapped, latest>>

------------------------------------------------------------------------------
(* Builds. *)

Alive(b) == phase[b] \notin {"none", "over"}

\* Mutant: the noted files are not looked for again.
NotedBefore == previous

\* refreshPreviousBuildDiagnostics.
Noted == {f \in Files : Of(f, "xcodebuild") # {}}

\* parseAsyncLogs, at the start of a build whose command has its turn.
Start(b) ==
    /\ phase[b] = "none"
    /\ \A c \in Builds : phase[c] \notin {"running", "ending"}
    /\ phase' = [phase EXCEPT ![b] = "running"]
    /\ previous' = Noted
    /\ overlapped' = LET others == {c \in Builds : Alive(c)}
                     IN  IF others = {} THEN overlapped ELSE overlapped \cup others \cup {b}
    /\ latest' = NoBuild
    /\ UNCHANGED <<kind, collection, parserVars, excused>>

\* The context of a build is cancelled, and its command gives up its place.
Cancel(b) ==
    /\ \/ phase[b] = "running" /\ phase' = [phase EXCEPT ![b] = "cancelled"]
       \/ phase[b] = "ending" /\ phase' = [phase EXCEPT ![b] = "abandoned"]
    /\ UNCHANGED <<kind, collection, previous, parserVars, historyVars>>

\* end, up to its await: the parser is detached and reads what is left.
End(b) ==
    /\ phase[b] \in {"running", "cancelled"}
    /\ phase' = [phase EXCEPT ![b] = IF @ = "running" THEN "ending" ELSE "leaving"]
    /\ LET buffer == SubSeq(Text[b], cut[b] + 1, pos[b])
       IN  IF buffer = <<>>
           THEN UNCHANGED <<collection, previous, excused, cut, firstIndex, trigger, lines, found>>
           ELSE Take(b, buffer, Len(buffer))
    /\ UNCHANGED <<kind, pos, overlapped, latest>>

\* cleanupPreviousBuildErrors: the watcher leaves them if its build was cancelled.
Cleans(b) == kind[b] = "user" \/ phase[b] # "leaving"

\* What the result bundle tells of macros: all their problems, or it can not be read.
InBundle == {{}, Macros}

\* end, from its await on, with what the result bundle told of macros.
Finish(b, macros) ==
    /\ phase[b] \in {"ending", "abandoned", "leaving"}
    /\ phase' = [phase EXCEPT ![b] = "over"]
    /\ LET stored == Stored(macros, previous, "xcodebuild")
           rest   == previous \ {FileOf[p] : p \in macros}
       IN  collection' = [f \in Files |->
               IF Cleans(b) /\ f \in rest THEN {d \in stored[f] : d[2] # "xcodebuild"}
               ELSE stored[f]]
    /\ previous' = {}
    /\ found' = [found EXCEPT ![b] = @ \cup {<<p, 0>> : p \in macros}]
    /\ excused' = (excused \ macros)
                  \cup {p \in macros : <<p, "sourcekit">> \in collection[FileOf[p]]}
    /\ latest' = IF Cleans(b) /\ b \notin overlapped THEN b ELSE NoBuild
    /\ UNCHANGED <<kind, pos, cut, firstIndex, trigger, lines, overlapped>>

Next ==
    \/ \E b \in Builds :
          \/ Start(b) \/ Cancel(b) \/ End(b)
          \/ \E n \in 1..Len(Text[b]) : Prints(b, n)
          \/ \E macros \in InBundle : Finish(b, macros)
    \/ \E f \in Files :
          \/ Edit(f) \/ CloseDocument(f) \/ Delete(f)
          \/ \E new \in SUBSET {p \in Problems \ Macros : FileOf[p] = f} : HandleDiagnostics(f, new)

Spec == Init /\ [][Next]_vars

------------------------------------------------------------------------------
(* Properties. *)

\* After a build that cleaned up, and that no cancelled build was alive with, only
\* its own problems are left (ProblemDiagnosticResolver.ts:100-110, 233-243).
OnlyItsOwnProblems ==
    latest # NoBuild =>
        \A f \in Files : \A d \in Of(f, "xcodebuild") : d[1] \in {p[1] : p \in found[latest]}

\* What a build has found is shown while it runs and when it is over, if no
\* cancelled build was alive with it, the file was not changed, and SourceKit did
\* not have the same problem (ProblemDiagnosticResolver.ts:172-203).
ProblemsAreShown ==
    \A b \in Builds :
        (phase[b] \in {"running", "ending"} \/ b = latest) /\ b \notin overlapped =>
            \A p \in found[b] :
                p[1] \in excused \/ <<p[1], "xcodebuild">> \in collection[FileOf[p[1]]]

=============================================================================
