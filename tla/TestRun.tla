------------------------------- MODULE TestRun -------------------------------
(***************************************************************************)
(* One run of tests: TestProvider queues the tests and asks for a command, *)
(* DebugConfigurationProvider opens a parent session in VS Code, builds    *)
(* the tests of one project file after the other and opens a session for   *)
(* every bundle, the tracker of that session runs xcodebuild, and results  *)
(* come back twice: as lines of xcodebuild's output, which a regular       *)
(* expression reads, and from the result bundle when a session is over.    *)
(*                                                                         *)
(* The command's slot is module AtomicCommand and the sessions themselves  *)
(* are module DebugSession: here VS Code opens a session, or refuses to.   *)
(***************************************************************************)
EXTENDS Naturals, Sequences, FiniteSets, SequencesExt

CONSTANTS
    Tests,       \* the tests of the run
    Plan,        \* for each project file, its bundles: a sequence of sequences of sets
    Unparsed,    \* those whose place in the source is not understood (getXCodeBuildTest)
    NameSays,    \* "passed" or "failed" if the name of the test has that word, else "no"
    Repeated     \* those that xcodebuild runs again, once, when they failed (bound)

ASSUME PlanAssumption ==
    /\ Plan \in Seq(Seq(SUBSET Tests))
    /\ Unparsed \subseteq Tests
    /\ NameSays \in [Tests -> {"passed", "failed", "no"}]
    /\ Repeated \subseteq Tests

VARIABLES
    phase,      \* where the run is
    started,    \* the tests that were handed to xcodebuild (testsByProjectFile)
    stopAsked,  \* the run's own token (run.token) is cancelled
    cancelled,  \* the token of the command's context is cancelled
    project,    \* currentProjectFile, as an index of Plan, or 0
    todo,       \* its bundles that are still to run, as indexes of Plan[project]
    bundle,     \* the bundle whose session is current
    pending,    \* mapTests: started, and not reported yet
    reports,    \* what VS Code is told of each test, in order
    parent,     \* the parent session
    session,    \* the session of the current bundle
    xc,         \* xcodebuild test-without-building of the current session
    out,        \* its output that no match has consumed yet
    runs,       \* how each test went, each time it ran (history)
    onDisk,     \* the tests of which a result bundle on disk has a result
    read        \* the tests whose result was read from a bundle (history)

runVars     == <<phase, project, todo, bundle>>
tokenVars   == <<stopAsked, cancelled>>
reportVars  == <<pending, reports>>
sessionVars == <<parent, session>>
xcVars      == <<xc, out, runs, onDisk>>
testRunVars == <<runVars, started, tokenVars, reportVars, sessionVars, xcVars, read>>

\* A test that is skipped by itself, or that crashes, has a line for its start only.
Results == {"passed", "failed", "silent"}
NoTest  == [test |-> "none", result |-> "suite"]    \* a line with "Test Suite"

Phases == {"asked", "dropped", "parent", "unit", "build", "session", "launch", "running",
           "collect", "abort", "closing", "final", "ended"}
Over   == {"dropped", "ended"}

RunTypeOK ==
    /\ phase \in Phases
    /\ started \in SUBSET Tests
    /\ stopAsked \in BOOLEAN /\ cancelled \in BOOLEAN
    /\ project \in 0..Len(Plan)
    /\ todo \in SUBSET Nat /\ bundle \in SUBSET Tests
    /\ pending \in SUBSET Tests
    /\ reports \in [Tests -> Seq({"passed", "failed", "skipped"})]
    /\ parent \in {"none", "asked", "resolved", "open", "told", "orphan", "stray", "hung"}
    /\ session \in {"none", "asked", "open", "dead", "orphan", "stray", "hung"}
    /\ xc \in {"none", "waiting", "running", "dying", "lost", "ended"}
    /\ out \in Seq([test : Tests, result : Results] \cup {NoTest})
    /\ runs \in [Tests -> Seq(Results)]
    /\ onDisk \in SUBSET Tests /\ read \in SUBSET Tests

TestsOf(p) == UNION {Plan[p][b] : b \in DOMAIN Plan[p]}

RunInit ==
    /\ phase = "asked" /\ started = {}
    /\ stopAsked = FALSE /\ cancelled = FALSE
    /\ project = 0 /\ todo = {} /\ bundle = {}
    /\ pending = {} /\ reports = [t \in Tests |-> <<>>]
    /\ parent = "none" /\ session = "none"
    /\ xc = "none" /\ out = <<>> /\ runs = [t \in Tests |-> <<>>]
    /\ onDisk = {} /\ read = {}

------------------------------------------------------------------------------
(* Reports. *)

\* What the regular expression finds in the first lines of the output: from the
\* start of a test to the first line that has an end in it.  The word is looked
\* for in the whole of that line, the name of the test included.
Starts(lines) ==
    {p \in DOMAIN lines : lines[p].test \in Tests
                          /\ (p = 1 \/ lines[p - 1].result # "silent")}

\* Mutant: the end of a test is looked for behind its own line.
EndAfter(lines, p) ==
    {q \in DOMAIN lines : q > p /\ lines[q].result # "silent"
                          /\ \A r \in (p + 1)..(q - 1) : lines[r].result = "silent"}

EndOf(lines, p) ==
    {q \in DOMAIN lines : q >= p /\ lines[q].result # "silent"
                          /\ \A r \in p..(q - 1) : lines[r].result = "silent"}

ReadAs(line) ==
    IF line.result = "suite" THEN "failed"
    ELSE IF NameSays[line.test] # "no" THEN NameSays[line.test] ELSE line.result

\* parseStdout: the matches, as positions of their starts, in order.
Matched(lines) == {p \in Starts(lines) : EndOf(lines, p) # {}}
Verdict(lines, p) == ReadAs(lines[CHOOSE q \in EndOf(lines, p) : TRUE])

\* onMessage: test t is looked up under the current project file.
Known(t) == project > 0 /\ t \in pending \cap TestsOf(project)

\* What VS Code is told of test t after one chunk of output: a pass at once, which
\* takes t from mapTests; a failure first awaits its messages, so it is told, and t
\* taken from the map, when the loop over the matches is done.
ChunkReports(lines, t) ==
    LET own    == {p \in Matched(lines) : lines[p].test = t}
        passes == {p \in own : Verdict(lines, p) = "passed"}
        late   == {p \in own \ passes : \A q \in passes : p < q}
    IN  IF ~Known(t) THEN <<>>
        ELSE (IF passes # {} THEN <<"passed">> ELSE <<>>)
             \o [i \in 1..Cardinality(late) |-> "failed"]

\* The rest of the output, from behind the last match.
Unmatched(lines) ==
    LET ends == UNION {EndOf(lines, p) : p \in Matched(lines)}
    IN  {q \in DOMAIN lines : \A e \in ends : q > e}

\* Mutant: a failure stays in the map.
ReportKeeping(told) ==
    /\ reports' = [t \in Tests |-> reports[t] \o told[t]]
    /\ pending' = {t \in pending : "passed" \notin ToSet(told[t])}

\* The tests that are reported leave mapTests.
Report(told) ==
    /\ reports' = [t \in Tests |-> reports[t] \o told[t]]
    /\ pending' = {t \in pending : told[t] = <<>>}

\* A chunk of the output reaches the parser, which listens until the sessions are
\* over; a process that was killed still prints.
Output(n) ==
    /\ phase \notin {"asked", "final"} \cup Over
    /\ n \in DOMAIN out
    /\ LET lines == SubSeq(out, 1, n)
       IN  /\ Matched(lines) # {}
           /\ Report([t \in Tests |-> ChunkReports(lines, t)])
           /\ out' = SubSeq(out, n + 1 - Cardinality(Unmatched(lines)), Len(out))
    /\ UNCHANGED <<runVars, started, tokenVars, sessionVars, xc, runs, onDisk, read>>

\* TestResultProvider.parse: a test that is not "Passed" has failed.
ResultOf(t) == IF Last(runs[t]) = "passed" THEN "passed" ELSE "failed"

\* extractTestingResults: the results of tests that have none yet are reported.
BundleReports(t) == IF Known(t) /\ t \in onDisk THEN <<ResultOf(t)>> ELSE <<>>

\* Mutant: nothing is skipped.
NothingSkipped(t) == <<>>

\* What is left at the end of the run is skipped.
Skipped(t) == IF t \in pending THEN <<"skipped">> ELSE <<>>

\* bundle.merge and the reading of what it made: it works, or nothing is read.
\* At the end of the run (last) the rest is skipped.
ReadBundles(last) ==
    \/ /\ Report([t \in Tests |-> IF BundleReports(t) = <<>> /\ last THEN Skipped(t)
                                   ELSE BundleReports(t)])
       /\ read' = read \cup onDisk
    \/ /\ Report([t \in Tests |-> IF last THEN Skipped(t) ELSE <<>>])
       /\ UNCHANGED read

\* bundle.clear: what xcodebuild still writes goes to a bundle nobody looks for.
ClearBundles ==
    /\ onDisk' = {}
    /\ xc' = IF xc = "dying" THEN "lost" ELSE xc

------------------------------------------------------------------------------
(* The run. *)

\* The command of the run is superseded (E_CANCELED), refused, or the tree of
\* tests can not be loaded: nobody ends the run.
Drop ==
    /\ phase = "asked"
    /\ phase' = "dropped"
    /\ UNCHANGED <<started, project, todo, bundle, tokenVars, reportVars, sessionVars, xcVars, read>>

\* runTestQueue up to its first await: every test is started, or skipped if the
\* run was stopped while it waited; then the parent session is asked for.
Begin ==
    /\ phase = "asked"
    /\ started' = IF stopAsked THEN {} ELSE Tests \ Unparsed
    /\ pending' = started'
    /\ reports' = [t \in Tests |-> IF stopAsked THEN <<"skipped">>
                                   ELSE IF t \in Unparsed THEN <<"failed">> ELSE <<>>]
    /\ cancelled' = (cancelled \/ stopAsked)
    /\ phase' = "parent" /\ parent' = "asked"
    /\ UNCHANGED <<project, todo, bundle, stopAsked, session, xcVars, read>>

\* A context that is cancelled takes xcodebuild with it: SIGINT, and up to 25 s.
CancelContext ==
    /\ cancelled' = TRUE
    /\ xc' = CASE xc = "running" -> "dying" [] xc = "waiting" -> "none" [] OTHER -> xc

\* The user stops the run.
StopRun ==
    /\ ~stopAsked /\ phase \notin Over
    /\ stopAsked' = TRUE
    /\ IF phase = "asked" THEN UNCHANGED <<cancelled, xc>> ELSE CancelContext
    /\ UNCHANGED <<runVars, started, reportVars, sessionVars, out, runs, onDisk, read>>

\* The command is cancelled in another way: a new command, or the user ends one
\* of its debug sessions.
CancelCommand ==
    /\ ~cancelled /\ phase \notin Over
    /\ CancelContext
    /\ UNCHANGED <<runVars, started, stopAsked, reportVars, sessionVars, out, runs, onDisk, read>>

\* startParentSession: the session has started.
ParentStarted ==
    /\ phase = "parent" /\ parent = "open" /\ ~cancelled
    /\ phase' = "unit"
    /\ UNCHANGED <<started, project, todo, bundle, tokenVars, reportVars, sessionVars, xcVars, read>>

\* It is cancelled, or VS Code does not start it, which cancels the context.
ParentFails ==
    /\ phase = "parent"
    /\ \/ cancelled /\ UNCHANGED <<cancelled, parent>>
       \/ parent = "asked" /\ cancelled' = TRUE /\ parent' = "none"
    /\ phase' = "final" /\ out' = <<>>
    /\ UNCHANGED <<started, project, todo, bundle, stopAsked, reportVars, session, xc, runs, onDisk, read>>

\* The next project file of testsInput (onStartTestProject).
Remaining == {p \in DOMAIN Plan : p > project /\ TestsOf(p) \cap started # {}}

NextProject ==
    /\ phase = "unit"
    /\ IF Remaining = {} THEN phase' = "closing" /\ UNCHANGED project
       ELSE /\ project' \in {p \in Remaining : \A q \in Remaining : p <= q}
            /\ phase' = "build"
    /\ UNCHANGED <<started, todo, bundle, tokenVars, reportVars, sessionVars, xcVars, read>>

\* XCTestRunInspector.build: the bundles of the .xctestrun file that the build has
\* written, those of tests that were asked for.
Build(built) ==
    /\ phase = "build" /\ ~cancelled
    /\ todo' = {b \in DOMAIN Plan[project] :
                  Plan[project][b] \in built /\ Plan[project][b] \cap started # {}}
    /\ phase' = "session"
    /\ UNCHANGED <<started, project, bundle, tokenVars, reportVars, sessionVars, xcVars, read>>

\* A build that fails ends the run.
BuildFails ==
    /\ phase = "build"
    /\ phase' = "closing"
    /\ UNCHANGED <<started, project, todo, bundle, tokenVars, reportVars, sessionVars, xcVars, read>>

\* The session of the next bundle is asked for, with a waiter of its own.
NextBundle ==
    /\ phase = "session"
    /\ IF todo = {} THEN phase' = "unit" /\ UNCHANGED <<todo, bundle, session, xc>>
       ELSE IF cancelled THEN phase' = "closing" /\ UNCHANGED <<todo, bundle, session, xc>>
       ELSE /\ \E b \in todo : /\ \A c \in todo : b <= c
                              /\ bundle' = Plan[project][b] /\ todo' = todo \ {b}
            /\ session' = "asked" /\ xc' = "none"
            /\ phase' = "launch"
    /\ UNCHANGED <<started, project, tokenVars, reportVars, parent, out, runs, onDisk, read>>

\* startDebugging has returned; of a session that resolveDebugConfiguration found
\* no context for, only when it got a command of its own.
Launched ==
    /\ phase = "launch" /\ session \in {"open", "stray"}
    /\ phase' = "running"
    /\ xc' = IF session = "open" /\ ~cancelled THEN "waiting" ELSE "none"
    /\ UNCHANGED <<started, project, todo, bundle, tokenVars, reportVars, sessionVars, out, runs, onDisk, read>>

\* VS Code does not start it, which cancels the context.
LaunchFails ==
    /\ phase = "launch" /\ session = "asked"
    /\ session' = "none" /\ cancelled' = TRUE
    /\ phase' = "closing"
    /\ UNCHANGED <<started, project, todo, bundle, stopAsked, reportVars, parent, xcVars, read>>

\* Mutant: only what runs notices the cancellation.
InterruptedTests ==
    /\ phase = "running" /\ cancelled /\ xc = "dying"
    /\ phase' = "abort"
    /\ UNCHANGED <<started, project, todo, bundle, tokenVars, reportVars, sessionVars, xcVars, read>>

\* The waiter of the session is rejected by the cancellation.
Interrupted ==
    /\ phase = "running" /\ cancelled
    /\ phase' = "abort"
    /\ UNCHANGED <<started, project, todo, bundle, tokenVars, reportVars, sessionVars, xcVars, read>>

\* onFinishTestSubsession, also after an error: results are read if they can be,
\* and the bundle is cleared.
Collect ==
    /\ phase \in {"collect", "abort"}
    /\ ReadBundles(FALSE) /\ ClearBundles
    /\ phase' = IF phase = "collect" THEN "session" ELSE "closing"
    /\ UNCHANGED <<started, project, todo, bundle, tokenVars, sessionVars, out, runs>>

\* Mutant: the parent is left to the user.
CloseOnly ==
    /\ phase = "closing"
    /\ phase' = "final" /\ out' = <<>>
    /\ UNCHANGED <<started, project, todo, bundle, tokenVars, reportVars, sessionVars, xc, runs, onDisk, read>>

\* The sessions are over: the parent is told, unless its waiter was rejected,
\* and the parser is detached.
Close ==
    /\ phase = "closing"
    /\ parent' = IF cancelled THEN parent ELSE "told"
    /\ phase' = "final" /\ out' = <<>>
    /\ UNCHANGED <<started, project, todo, bundle, tokenVars, reportVars, session, xc, runs, onDisk, read>>

\* The last extractTestingResults skips the rest, and the run ends.
End ==
    /\ phase = "final"
    /\ ReadBundles(TRUE) /\ ClearBundles
    /\ phase' = "ended"
    /\ UNCHANGED <<started, project, todo, bundle, tokenVars, sessionVars, out, runs>>

------------------------------------------------------------------------------
(* Sessions of VS Code. *)

\* resolveDebugConfiguration: a session whose binder is gone, because its command
\* was cancelled, asks for a command of its own.
Resolved(next) == IF cancelled THEN "orphan" ELSE next

ResolveParent ==
    /\ parent = "asked" /\ parent' = Resolved("resolved")
    /\ UNCHANGED <<runVars, started, tokenVars, reportVars, session, xcVars, read>>

\* Its tracker stops it at once if the command is cancelled meanwhile.
StartParent ==
    /\ parent = "resolved" /\ parent' = IF cancelled THEN "told" ELSE "open"
    /\ UNCHANGED <<runVars, started, tokenVars, reportVars, session, xcVars, read>>

\* ParentDebugAdapterTracker.terminateCurrentSession.
TerminateParent ==
    /\ parent = "open" /\ cancelled /\ parent' = "told"
    /\ UNCHANGED <<runVars, started, tokenVars, reportVars, session, xcVars, read>>

ResolveSession ==
    /\ session = "asked" /\ session' = Resolved("open")
    /\ UNCHANGED <<runVars, started, tokenVars, reportVars, parent, xcVars, read>>

\* The command of its own is admitted, or superseded, and then nobody answers.
Orphan(fate) ==
    /\ \/ parent = "orphan" /\ parent' = fate /\ UNCHANGED session
       \/ session = "orphan" /\ session' = fate /\ UNCHANGED parent
    /\ UNCHANGED <<runVars, started, tokenVars, reportVars, xcVars, read>>

------------------------------------------------------------------------------
(* RunManager.runTests. *)

\* The debugger has come up (waitDebugger), and xcodebuild starts.
DebuggerReady ==
    /\ xc = "waiting" /\ session = "open"
    /\ xc' = "running"
    /\ UNCHANGED <<runVars, started, tokenVars, reportVars, sessionVars, out, runs, onDisk, read>>

\* The session dies first; its tracker only listens to the end of an app.
SessionDies ==
    /\ xc = "waiting" /\ session = "open"
    /\ session' = "dead"
    /\ UNCHANGED <<runVars, started, tokenVars, reportVars, parent, xcVars, read>>

\* A test runs, and somebody listens; one that failed may run again.
Test(t, result, suite) ==
    /\ xc \in {"running", "dying", "lost"} /\ phase \notin {"final"} \cup Over
    /\ t \in bundle \cap started
    /\ runs[t] \in {<<>>} \cup (IF t \in Repeated THEN {<<"failed">>} ELSE {})
    /\ suite => result = "silent"
    /\ runs' = [runs EXCEPT ![t] = Append(@, result)]
    /\ out' = out \o <<[test |-> t, result |-> result]>> \o (IF suite THEN <<NoTest>> ELSE <<>>)
    /\ UNCHANGED <<runVars, started, tokenVars, reportVars, sessionVars, xc, onDisk, read>>

Finished == {t \in bundle : runs[t] # <<>>}

\* It exits, with all tests passed or with code 65.
XcodebuildExits ==
    /\ xc = "running"
    /\ xc' = "ended" /\ out' = Append(out, NoTest)
    /\ onDisk' = onDisk \cup Finished
    /\ phase' = "collect"
    /\ UNCHANGED <<started, project, todo, bundle, tokenVars, reportVars, sessionVars, runs, read>>

\* It, or what comes before it, fails in another way.
XcodebuildFails ==
    /\ xc \in {"waiting", "running"}
    /\ xc' = "ended"
    /\ onDisk' \in {onDisk, onDisk \cup Finished}
    /\ phase' = "abort"
    /\ UNCHANGED <<started, project, todo, bundle, tokenVars, reportVars, sessionVars, out, runs, read>>

\* It goes after a SIGINT; its bundle may be complete, and nobody may want it.
XcodebuildDies ==
    /\ xc \in {"dying", "lost"}
    /\ onDisk' \in IF xc = "dying" THEN {onDisk, onDisk \cup Finished} ELSE {onDisk}
    /\ xc' = "ended"
    /\ UNCHANGED <<runVars, started, tokenVars, reportVars, sessionVars, out, runs, read>>

------------------------------------------------------------------------------
Bundles == UNION {ToSet(Plan[p]) : p \in DOMAIN Plan}

\* What happens in the extension and in VS Code, once it can.
Own ==
    \/ Begin \/ ParentStarted \/ ParentFails \/ NextProject
    \/ \E built \in SUBSET Bundles : Build(built)
    \/ BuildFails \/ NextBundle \/ Launched \/ LaunchFails \/ Interrupted
    \/ Collect \/ Close \/ End
    \/ ResolveParent \/ StartParent \/ ResolveSession
    \/ \E fate \in {"stray", "hung"} : Orphan(fate)
    \/ DebuggerReady

RunNext ==
    \/ Own \/ TerminateParent
    \/ Drop \/ StopRun \/ CancelCommand
    \/ SessionDies
    \/ \E t \in Tests, result \in Results, suite \in BOOLEAN : Test(t, result, suite)
    \/ \E n \in DOMAIN out : Output(n)
    \/ XcodebuildExits \/ XcodebuildFails \/ XcodebuildDies

\* Tests may run for ever, and the user may never come.
RunFairness == WF_testRunVars(Own) /\ WF_testRunVars(TerminateParent)

RunSpec == RunInit /\ [][RunNext]_testRunVars /\ RunFairness

------------------------------------------------------------------------------
(* Properties. *)

\* Every test of a run that has ended was reported: run.end comes after the rest
\* is skipped (TestProvider.ts:166-171, 255-257).
TestsAreAnswered == phase = "ended" => \A t \in Tests : reports[t] # <<>>

\* A test that was reported as passed did pass, but for one whose name has the
\* word and one that skipped itself, whose start is matched with the end of
\* another test (TestCaseAsyncParser.ts:4-5, 58-66).
PassedIsTrue ==
    \A t \in Tests :
        "passed" \in ToSet(reports[t]) =>
            \/ "passed" \in ToSet(runs[t])
            \/ NameSays[t] = "passed"
            \/ "silent" \in ToSet(runs[t])

\* A failure is the last word on a test: after the first report only failures come,
\* those whose messages were awaited (TestProvider.ts:191-216).
OnlyFailuresFollow ==
    [][\A t \in Tests :
           LET old == reports[t]
               new == SubSeq(reports'[t], Len(old) + 1, Len(reports'[t]))
           IN  old # <<>> => ToSet(new) \subseteq {"failed"}]_testRunVars

\* A run ends, whoever cancels it and whatever fails, except while xcodebuild runs,
\* while a session that died is waited for (DebugAdapterTracker.ts:164-170) and
\* when VS Code waits for a command that was superseded
\* (DebugConfigurationProvider.ts:301-311).
RunEndsOrWaits ==
    []<>(\/ phase \in Over
         \/ ~cancelled /\ xc = "running"
         \/ ~cancelled /\ session = "dead"
         \/ session = "hung")

\* A run that has ended leaves no parent session open, except one that VS Code
\* resolved only when the command was cancelled (DebugConfigurationProvider.ts:270-276,
\* 300-311; ParentDebugAdapterTracker.ts:61-77).
ParentIsTold == phase = "ended" ~> parent \in {"told", "none", "stray", "hung"}
==============================================================================
