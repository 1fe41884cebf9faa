# Verification of the iOS extension for VS Code

The extension builds, runs, tests and indexes Xcode projects from VS Code.  Its own logic is
not in any of these tools but between them: commands that preempt each other, builds that are
cancelled and go on dying beside their successors, verdicts on targets that travel through a
file, a proxy of Xcode's build service that several processes share.  This directory models
that logic in TLA+ (`*.tla`), checks it with TLC (`*.cfg`) and proves part of it with TLAPS
(`*Proofs.tla`).  Paths below are relative to the repository; `ext/` stands for `src/src/`.

`PROJECT.json` is the index: which definition models which lines, which run checks what,
which bug each property would notice (`mutants`), and the hazards the properties are for.

## The system

| Component | State it keeps | Operations | Meets |
| --- | --- | --- | --- |
| Command serialiser (`ext/CommandManagement/AtomicCommand.ts`) | a mutex, the newest request, the kind of the running command, the previous context, the tasks being fetched | `userCommand`, `autoWatchCommand`, `cancel`, `withCancellation` | every command; `BuildTaskProvider` |
| Index status (`ext/BackgroundIndexing/SemanticManager.ts`) | the graph of targets, implicit dependencies, for each target a status and a time | refresh, mark out of date, mark up to date, dependencies | watcher, builds |
| Background indexing (`ext/BackgroundIndexing/AutocompleteWatcher.ts`) | the newest request, the set being built, its time | on save, on editor, on project change, build, retry | serialiser, index status, builds |
| Builds (`ext/Services/BuildManager.ts`) | targets still wanted, failed, marked | `build`, `buildAutocomplete`, `buildForTesting...` | spy, index status, executor |
| Spy (`ext/Services/BuildTargetSpy.ts`, `ext/XCBBuildServiceProxy/TargetBuildingMessageSpy.py`) | one file a session, a cursor per reader; a trie of targets per writer | poll, end; target starts, task fails, target ends | builds, proxy |
| Build service proxy (`ext/XCBBuildServiceProxy/*.py`) | a configuration file with a lock, client and server processes, pipes | register, wait, launch, kill, take, forward | xcodebuild, Xcode's build service |
| Process execution (`ext/Executor.ts`, `ext/CommandManagement/CommandContext.ts`, `ext/utils.ts`) | processes, their pipes and results | spawn, cancel, close the terminal, kill in the background | everything |
| Builds in Xcode (`ext/Services/XcodeBuildExecutor.ts`) | the build logs Xcode had before, the watch of their manifest | run a script in Xcode, wait for a log, print it | executor, builds |
| Debugging (`ext/Debug`, `ext/Services/RunManager.ts`, `src/resources/*.py`) | sessions, a launching file rewritten by three kinds of process | start, attach, terminate | serialiser, executor |
| Project files (`ext/ProjectManager`, `src/resources/project_helper.rb`) | time stamps, lazily refreshed caches, an edit lock, a project in the memory of a helper | watch, read, edit, save | language server, index status |
| Diagnostics (`ext/ProblemDiagnosticResolver.ts`) | problems by file and by source, files with old problems | merge, parse output, end of a build | builds, language server |
| Test runs (`ext/TestsProvider/TestProvider.ts`, `ext/Debug/DebugConfigurationProvider.ts`, `ext/Services/RunManager.ts`) | running tests and their reports, a parent session, a session for each bundle | ask, build, run, read the log and the bundles, end | serialiser, debugging, VS Code |
| Test tree (`ext/TestsProvider/TestTreeContext.ts`, `TestItemProvider`) | items, the text each was read from, who may load | load, refresh, discover for a run, document events | language server client, project files |
| Language server client (`ext/LSP`) | one client under a mutex, crash times, a dummy document | client, restart, crash, ask for tests | test tree, project files |

Everything else (pickers, status bar, settings, installers, text parsers, packaging) is listed
in `PROJECT.json` with the reason why it is not modelled.

What is hard: JavaScript awaits at which other callbacks run; operating-system processes
(python clients and servers, xcodebuild) that share files under a lock or under none; a
cancellation that rejects at once while the work goes on for up to 25 s; timeouts (500 ms,
1 s, 5 s, 20 s, 22 s) that stand in for answers; state read before an await and used after.

What makes the parts correct, in a sentence each:

- *Serialiser*: two commands are at work only while one was told to stop; nobody waits behind
  a command that was not; users are never dropped for a watcher; a user command gets its turn.
- *Index status and builds*: a target is spared a build only on the word of a build begun after
  its last change; a failure is not overruled; a build answers for all it was asked.
- *Spy*: what a listener hears was written since its build was prepared, has its reason in the
  build that wrote it, and is complete when the build had the file to itself.
- *Proxy*: the newest build wins; no two servers work for one client; a service's messages reach
  the client they are for; nobody waits for ever.
- *Debugging*: the debugger opens what is built and finds the process that is launched for it; one
  app runs at a time; what was stopped stays stopped; debugger, command and window end with the app.
- *Project files*: an edit reaches the file, and only it and what failed before it; nobody writes over
  what he has not read; what a list or the workspace lacks, somebody will read.
- *Processes and builds in Xcode*: what is cancelled ends, and whoever awaits it is told; no stranger is
  killed; a success rests on a log that is newer than the build.
- *Diagnostics*: after a build only its own problems are left, and all of them.
- *Test runs*: every test is answered, as it went; a failure is not taken back; a run ends and closes
  its parent session.
- *Language server client and test tree*: one server works; a text is answered with its own tests, in the
  order of the questions; the tree shows the tests of what is on disk or in the editor.

## Modules

| Module | Models | Run | Proofs |
| --- | --- | --- | --- |
| `AtomicCommand` | the serialiser and the tasks of the watcher | `AtomicCommand.cfg` (`MCAtomicCommand`) | `AtomicCommandProofs` |
| `CommandSlot` | what the serialiser promises; `AtomicCommand` implements it | as a property of the same run | with `AtomicCommand` |
| `SemanticManager` | the index status, as operators on its variables | through the next | with the next |
| `AutocompleteWatcher` | background indexing and builds; extends `SemanticManager` | `AutocompleteWatcher.cfg` (`MCAutocompleteWatcher`) | `IndexingProofs` |
| `BuildSpy` | the spy file, its writers and readers | `BuildSpy.cfg` (`MCBuildSpy`) | `BuildSpyProofs` |
| `BuildServiceProxy` | clients, servers and the configuration file | `BuildServiceProxy.cfg` | `BuildServiceProxyProofs` |
| `DebugSession` | sessions of an app or of tests, their work, debuggers and the launching file | `DebugSession.cfg`, `DebugSessionLive.cfg` (`MCDebugSession`) | `DebugSessionProofs` |
| `ProjectFiles` | the project file, its watcher, the ruby helper, the cached list and the workspace file | `ProjectFiles.cfg` (`MCProjectFiles`) | `ProjectFilesProofs` |
| `Executor` | processes of a command, their pipes, results and ends | through the next | with the next |
| `XcodeBuild` | a build handed to Xcode; extends `Executor` | `XcodeBuild.cfg` (`MCXcodeBuild`) | `IndexingProofs` |
| `ProblemDiagnostics` | problems of SourceKit and of builds, the parser of the output | `ProblemDiagnostics.cfg` (`MCProblemDiagnostics`) | `ProblemDiagnosticsProofs` |
| `TestRun` | one run of tests: builds, sessions, log, bundles | `TestRun.cfg` (`MCTestRun`) | `TestingProofs` |
| `LanguageClient` | the client, its servers, the requests for tests | `LanguageClient.cfg` | `TestingProofs` |
| `FetchTests` | what `fetchTests` promises; `LanguageClient` implements it, `TestTree` uses it | as a property of the same run | with `LanguageClient` |
| `TestTree` | the tree, and who fills it | `TestTree.cfg` (`MCTestTree`) | `TestingProofs` |

### AtomicCommand

One call is one element of `Users` or `Watchers`; `pc` says where its function is, `closure` what
the command's own work is doing and `promise` what `withCancellation` made of it: the mutex is
released with the promise, not with the work.  An action is what runs between two awaits.
JavaScript runs a callback to its end and then the continuations of settled promises; `Ready` says
that such a continuation is pending and `Quiescent` that none is, and whatever starts from outside
(a call, a timer, an answer of VS Code, the end of a process) waits for `Quiescent`.

`RefuseWatch`, `CallWatch`, `RefuseWatchLocked` are the three ways through the head of
`autoWatchCommand`; `CallUser` is the head of `userCommand`; `DropStale` and `Admit` what follows
the acquisition of the mutex; `WakeUp`, `FetchDone`, `FetchFails` the 500 ms and the window in which
`BuildTaskProvider` reports targets; `Launched` and `LaunchFails` the execution of a terminal task;
`Settle` the `finally` block.  Each call is made once, so that the number of calls is the bound.  A
terminal task that VS Code refuses to start after the closure has begun ends with the outcome
`"unlaunched"`: nothing tells its closure to stop, and the properties name this exception.

`AtomicCommand.cfg`: two users (one from a task) and a watcher suffice for a holder, a waiter, a newer
waiter and a refusal to meet (with two watchers, and symmetry between calls of a kind, the safety properties
were checked as well: 1.07 million states, 3 minutes).  Fairness is weak fairness of `Step` (timers fire, VS
Code answers, continuations run) and none of `ClosureEnds`: no command is assumed to end by itself.

`CommandSlot` is the specification a caller needs: who may be inside, who is told to stop and when, who is
refused or dropped and for whom, and that work left behind was told.  `PhaseOf` maps a call to its phase
there; every step of `AtomicCommand` is a step of it or none (`KeepsPromise`).

### SemanticManager and AutocompleteWatcher

`SemanticManager`'s functions are synchronous, so each is an operator that the actions of
`AutocompleteWatcher` contain: `MarkOutOfDate`, `MarkUpToDate`, `SetImplicitDependency`,
`RefreshGraph`, closures of the graph in both directions.  `clock` is `Date.now()`: a step may share
its time with the one before (`Passes`).  `inval` and `judged` are history variables that say what the
code's one time per target cannot.

In `AutocompleteWatcher`, `Save` and `Refresh` put targets out of date, `Trigger` is the part of
`triggerIncrementalBuild` after its first await, `Start`, `Begin`, `Spawn`, `Finish`, `Terminate`,
`TerminateUnspawned`, `Retry` a watch from the request to the `finally` block, `TargetSucceeds`,
`TargetFails` and `Dependency` what a build's listener hears, `FallsSilent` the end of a cancelled build's
process and listener.  `UserCommand` and `UserEnds` are a user's build, and the preemption; `UserAutocomplete`
is the user's own run of the task for completion, in its context and without a turn of its own (`auto`).

A listener hears its own process (`HearsItself`) and, with the proxy, whoever else writes to the session's
one spy file: what a cancelled predecessor's client still writes while it dies (`Overhears`; `BuildSpy` has
the file itself).  Both are marked with the `buildTouchTime` of the build that hears, as the code does, so
`hearsay`, history, holds the targets that were spared on the word of a build begun before their change.

Assumptions: the serialiser is used by what `AtomicCommand` shows (of two commands at work one is
cancelled; a watcher does not preempt a user); preparing a build takes longer than one unit of the clock;
`isActivated` ends before the 500 ms of its successor.  The targets a task includes and excludes are the
constant `Scopes`: the run has none, the theorems hold for any.  Left out: the setting that turns the
watcher off.

`AutocompleteWatcher.cfg`: a library and an application that turns out to need it, one source file,
one change (`MaxEdits`), two watches (`MaxWatches`) and one user build, three units of time
(`MaxTime`), with the proxy and without.  A build that overlaps its successor, a change during either, and a
project in which the application comes or goes need no more.  It takes about three minutes.

### BuildSpy

A build's spy (`phase`, `cursor`, `reader`), its xcodebuild with the proxy's client (`proc`, `live`,
`over`, `reported`, `told`) and the one file of the session.  `Prepare` clears the file; `Open`, `Report` and
`WriteAt` write to it at each client's own offset, leaving a `Hole` when the file was cleared
underneath; `Poll`, `StartRead`, `Read` and `ReadEnds` are the loop that does not wait for its reads, so
that several move one cursor.  `TaskFails` may blame another target whose guid begins the task's
(`TrieSignature.search_any`).  Lines have one length, so that offsets count lines; the lines of one report
come in any order; a read may drop what it read when its build is cancelled.  `EndSpy` may come
while the process is at work: the listener of a build for completion ends the spy as soon as all it waits
for was reported on, and then stops the process.

`BuildSpy.cfg`: two builds, of two targets and of one, a pair of guids one of which begins the other, two
overlapping polls and the last read.  Two builds are what shares a file; two polls are what moves a
cursor twice.

### BuildServiceProxy

A client is identified with its build id, an entry of the configuration file with the client's build and a
status, a server with the client that launched it.  Ids are numbered in the order the extension gives them out;
clients start in any order, because `commonEnv` gives ids to settings queries
(`ext/Services/ProjectSettingsProvider.ts`) as well as to builds and nothing orders those processes. `Register`
to `Kill` are `main` of `SWBBuildService.py` cut at the lock and at each poll; `Poll`, `ServerLost` and `Exit`
the loop of a client at work (`PidExists` is what `psutil` says: a dead server is a zombie, and exists, for as
long as the client lives that started it and never waits for it); `Look` and `Take` the loop of `main_server`;
`Feed`, `OperationEnds` and `GiveUp` what the server's spy sees pass.  A sub-xcodebuild's client holds the lock
for its whole life (`SubStarts`, `SubEnds`): everybody else gives up after 5 s (`LockTimeout`, `LookTimeout`).

Abstractions: the 22 s of `Frozen` pass only when every server that lives is building, since an idle one
looks at the file every fraction of a second; xcodebuild may send, end or be killed at any time;
`late`, `doubled` and `abandoned` are history; the bytes of messages, the entry the extension writes when
it is deactivated and torn writes are left out.

`BuildServiceProxy.cfg`: two builds, so that one is served while the other waits, overtakes it or finds its
server; a third would add a client that registers meanwhile, which `BuildServiceProxyProofs` covers for any
number.  Fairness of the loops of living processes (including the lock's
timeouts) and of nothing else: builds, services and sub-xcodebuilds need not end, and new
xcodebuilds need not come.

### DebugSession

A session is one debug session with everything that belongs to it: `vs` is how far VS Code is with it
(from the command that waits for the mutex to `"open"` and `"closed"`), `work` where
`DebugAdapterTracker.build` is, `lldb` where the commands of `attach_lldb.py` are in the debugger's own
process, `app` the process on the simulator, `closing` what `terminateCurrentSession` has done.  `target` is what
its command was asked for: one of `Apps`, a bundle of a scheme on a device, or tests.  They talk
through `debugger.launching` (`file`), and every update of the extension is a python process of its own:
`Spawn` starts one, `Write` is its end, and they end in any order (`inflight`).  `Updated` is
`update_debugger_launch_config`, where a stopped session stays stopped.

`Command` to `Begin` are the commands, with the serialiser reduced to a slot, the newest request and a
cancellation (`Cancel`) that the trackers of the session listen to; `Resolve` to `Open` are
`resolveDebugConfiguration` and what VS Code does with the answer, including `ResolveUnbound`, the session
without a context (from the editor, or because its command was cancelled), which gets a command of
its own, and `Refuse`, with which VS Code gives the session up: the command that called `startDebugging` hears
of it (`Answered`), while one that was started for a session (`"abandoned"`) goes on to wait, mutex in hand.
`CheckBuild` to `TestsEnd` are the tracker's work and `RunManager`.  `Prepare` terminates the bundle of the scheme
on the device of the session's context, and only that, and the code swallows what goes wrong; the app of another
scheme or device runs on, and one of the same may, which `beside`, history, notes.  `Retry` is the second launch of
an app whose simulator hung, which nobody waits for; `Terminated`, `UserStops`, `SessionEnds`, `AdapterDies` the
end; `CreateTarget` to `Leave` the debugger.

External, from how the code uses it: VS Code calls the tracker's callbacks in their documented order and closes
a session whose adapter is gone; a process whose context is cancelled is killed.  Left out: the parent session
of a test run and the loop over its bundles (which app a bundle of tests ends is left open), the app that lldb
launches on macOS, a writer that dies with the file half written, the logger of the app.

`DebugSession.cfg`: two sessions, each of one of two apps or of tests, from a command or from the editor, with
symmetry of both: everything that sessions do to each other (overtake, end each other's app, share the list of
processes) is between two.  `DebugSessionLive.cfg`: one session, without symmetry; other sessions reach it only as
a cancellation or as the end of its app, and both are actions of its own.  Fairness: spawned scripts run,
VS Code answers, a build ends, the debugger polls, and cancelled work is killed; a simulator need not
boot, tests need not end and an app need not quit.

### ProjectFiles

`disk` is `project.pbxproj`: a version, which every write counts up, and the edits of this extension in
it.  `mem` is the project in the memory of `project_helper.rb`, `moved` says that the file's time is another
than the helper noted, `serving` whose request has the mutex of `XcodeProjectFileProxy`.  `settling`,
`changed`, `skipNextNotify`, `watcher` and `observed` are chokidar with the watcher and the checkers of
`ProjectWatcher`; `cache` and `known` the entry of `ProjectsCache`; `armed`, `draft` and `workspace` the
debounced `touch()`, a generation of the workspace and its file; `holder` the edit mutex.  A process is an
edit, a run of `touch()` or `loadProjectFiles`, and `at` says where it is.

`ForeignChange` is a write by Xcode, git or a script; `update` the event of the watcher; `DebouncedTouch`,
`loadProjectFiles` (with `resetProjectCache`) and `Slept` begin a generation (`Generate`), `addProject`,
`AskForList`, `TakeCached` and `AnswerList` read the list, `saveWorkspace` ends it.  `StartEdit` to
`AnswerSave` are what adding, renaming, deleting and editing targets have in common: the mutex, the list,
the helper's edit, its save, the pause, the generation.  `AnswerError` and `HelperDies` are what goes wrong,
`GoesOn` and `GivesUp` what the code makes of it.

Abstractions: one project and one list (all lists are read by the same lines, each with a checker of its
own); the two reads of `generateWorkspace` are one; requests get the helper's mutex in any order; a
process is not begun again after it is done, except for touches and loads; `Package.swift`, loads that begin
while one is at work, the error event of `readline`, and answers that come after the process has exited are
left out.  Assumed of others: who changes the file keeps the edits that are in it, and the 620 ms of
`saveProjects` outlast the 500 ms after which chokidar reports a quiet file (`Slept` waits for the event if
nothing but the save is due).  `hidden`, `unread`, `crossed`, `spoiled` and `disturbed` are history: they name
the exceptions the properties have.

`ProjectFiles.cfg`: two edits, a touch, the loader, one foreign change and one accident (a death of the
helper, a reload, or a touch for a scheme).  Two edits follow each other, meet an event, a touch or a load, and
one of them takes over what the other left; one foreign change is what makes a list old, a save unsafe and
an event ambiguous.  There is symmetry between the edits.  It takes a few minutes (5.5 million states).

### Executor and XcodeBuild

`Executor` is what `execShellByGettingProc` makes of a process: `life` and `ends` are the process's, `offspring`
its descendants, `result` the promise, `ending` where `killAction` and `ensureKilled` are.  Node learns of an
end in two events (`ExitEvent`, which ends the input of the process that reads the pipe, and `OutputEnds`);
cancellation and the closing of the terminal reject the result at once, and send SIGINT (`Interrupt`) and 25 s
later, if `find` still lists the pid, SIGKILL (`Find`, `Check`, `Kill`).  Both go to the process and to each
descendant, and each may heed SIGINT or not; `ensureKilled` then looks at the process alone, so that descendants
outlive one that heeded it.  An error of the lookup or of the kill ends the attempt (`KillFails`).  A pid may be
given to a stranger (`Reuse`) at any of these awaits; `held` remembers, for the property, whose it was when
`killAll` was called.

`XcodeBuild` extends it with `startBuildInXcode`: `StartBuild` notes the logs there are, `Launch` runs the
script, `Record` is Xcode writing a log, `Notice` to `Printed` the watch of the manifest and the printer piped
into `tee`, `Return` what is said of the targets.  Bounds: Xcode records nothing more once a log is taken, the
watch reads while the build waits, a pid is reused while a signal or its timer is pending, and of one call, the
printer, the process starts others, loses its pid or is missed by the lookup (`Wayward`; the theorems are for
any).  `fs.watch` on a manifest that does not exist, and a spawn that finds no executable, are left out, and so
is the way `BuildManager` stops xcodebuild, which signals the process without its descendants.  Fairness:
handlers run and a filter ends with its input; neither Xcode, nor its scripts, nor any descendant need end.

### ProblemDiagnostics

`collection`, `previous` are `diagnosticBuildCollection` and `filesWithPreviousBuildDiagnostics`; `pos`, `cut`,
`firstIndex`, `trigger` and `lines` the stream of `parseAsyncLogs` with its buffer.  A problem's line is two
tokens, a caret ends it, so that a chunk can end inside of each (`Prints` brings any number of tokens).  `Start`
notes the files, `End` and `Finish` are `end` before and after it awaits the result bundle, which alone knows
the problems of macros; `HandleDiagnostics`, `Edit`, `CloseDocument` and `Delete` the rest of the class.  A
cancelled build may end beside its successor, as `AtomicCommand` allows; `overlapped` names those builds,
`excused` the problems the user or SourceKit has a say in, and `latest` the build that cleaned up.

`ProblemDiagnostics.cfg`: two builds (the watcher's or the user's), a problem SourceKit may have too, one of a
macro in the same file and one of the linker, which is put on the build log; any file may have old problems.

### TestRun

`phase` is where `startTestRun` and the tracker of the current bundle are, `parent` and `session` the debug
sessions, `xc` the process, `out` its output that no match has consumed, `pending` `mapTests`, `reports` what VS
Code hears of each test.  `Begin` to `End` follow one run through its project files and bundles; `Output` reads
the log in chunks with what the regular expression of `TestCaseAsyncParser` does (`Matched`, `Verdict`: the first
start with the first end after it, and the verdict by a word that may be in the test's name);
`todo` holds the places of the bundles still to run, in the plan of the project file; `ReadBundles` takes results
from the bundles; `StopRun`, `CancelCommand`, `Drop` and `SessionDies` come at any
moment, and VS Code may resolve a session after its command is gone (`Orphan`).  The slot is `AtomicCommand`'s
and the sessions are `DebugSession`'s; coverage, attachments and the profiles are left out.

`TestRun.cfg`: four tests in two project files, one of a text that is not understood, one with "passed" in its
name and one that xcodebuild repeats.  Fairness: what the extension and VS Code can do they do; tests may
run for ever and the user need not come.

### FetchTests and LanguageClient

`client()` makes the client under a mutex (`holder`, `starting`, `queue`), `Restart` drops it outside of it;
`life` is a client's and its server's, `Crash`, `Consent` and `Recovers` the library and the error handler.  A
request is two messages (`SendOpen`, `SendRequest`) about one dummy document under a mutex (`fetchQueue`), and
between them the client may have become another.  `FetchTests` is the promise: answers in the order of the
calls, each of its own text.  The library is external: a message to a client that starts again waits, one to a
client that has ended is an error.

`LanguageClient.cfg`: two callers, again and again, one restart at any time, and crashes without end; two
clients in use at a time are all that a restart can leave.  Fairness is weak for what the extension and the
library do, and strong for sending a message: a client that crashes again and again must not be in the way
each time.  No server need crash or recover by the user's consent.

### TestTree

`at` says where each of the calls is that fill the tree: loads (under `loadQueue`), runs, which walk it once
more without the mutex, an item the user expands (`Expand`), and document events.  They await the tests of one
file after the other through `FetchTests!Ask` and `Return`, and put what they found under the target at their end
(`WalkEnds`, `replaceChildren`).  `unseen` has the files a walk has still to see: the code takes them in the order
of the project, the model in any.  `place` is where an item is, `reused` the map from a file to its item, `shown`,
`known` and `asked` the item's children, `TestFile.fileContent` and its checker.  A document is opened and changed
(`Edit`), saved (`FileChanges` of an open file) and closed, saved or not (`DocumentCloses`), and `disk` and `text`
differ in between; `Notice` is the watcher, `ProjectChanges` the project.  The levels of project and target are one;
the error state of `findInitialFiles` is left out.

Three variables are history: the files that the code leads the tree astray with.  A file is `contested` when two
calls are at its item, when two walks overlap, when it has two items, and when a run takes the news of it for an
item that has left the tree, or that a walk under way has passed: the run shows the new tests in that item, and
nobody is left to put it back into the tree.  It is `discarded` when its document is closed, or asked for after
that, with a text that is not the file's, and `skipped` when it is read, not asked for because the text is the one
read last, and shows the tests of a document's text that is gone.

`TestTree.cfg`: a refresh, a run (or an expanded item), and document events one after the other without end, over
one file with three texts, one of them without tests, and two changes of editor, disk or project; saving,
closing and opening again are no changes.  Two changes are what it takes for a file to lose its tests and to get them
back, or for a document to leave the disk's text and to come back to it, and at rest the two may differ.  Three items
of a file are more than can be in use at a time here; the texts with tests are symmetric.  What a call does to one
file it does not do to another, but for the end of a walk; the theorems are for any number of everything.

## What the runs show

Each run passes; between them they take every action.  A property is followed by what could break it and
would be hard to test.

- `atomic_command` (45 thousand states): `KeepsPromise`, the refinement -- of two commands at work one was told
  to stop, a watcher is refused only for a user and a user dropped only for a newer user -- although the mutex
  is given up while work goes on and every `finally` block clears fields that may belong to a newer call;
  `AbandonedClosureIsTold` in particular.  `UserCommandStarts`: a user command that waits starts or
  gives way, even if no command ever ends by itself.
- `autocomplete_watcher` (1.5 million): `JudgedByLaterBuild`, `FailureIsNotOverruled` and
  `FinishedBuildReports`, with watches that overlap and messages in any order: a target is spared a build only
  on the word of a build that began after its last change -- with the proxy, or of one whose successor, which
  did, took its lines for its own -- and a build that is over has spoken of all it was asked for.
- `build_spy`: `WrittenSincePrepare` is what is left of "all messages are from current build session";
  `CleanSpyIsComplete` says when the last read hears everything (no other client on the file, no two
  reads on the same lines); `VerdictHasCause` bounds what the search by shortest guid gets wrong.
- `build_service_proxy` (7 thousand): `OneServerEach`, `MessagesReachTheirClient`, and
  `SilenceHasCause`: xcodebuild hangs in exactly these races -- a server takes a waiting client and dies before
  the client looks for it, so that the one started in its place finds an entry it does not answer; the
    client kills, after its 22 s, a server that took it a moment ago; two clients start a server each; the server
  the client watches died and was started by itself, or by an older client that is still there, and is a zombie.
  `WaitingEnds` and `OvertakenClientLeaves`: nobody waits for ever, though builds need not end.
- `debug_session` (1.8 million): `TargetIsBuilt` and `SeesItsApp`, which are about the order of four processes
  whose updates of one file overtake each other.  `OneApp`, an app runs once on its simulator, has two exceptions
  (`beside`): an app that was launched again when its command had long ended, and one launched beside an app that
  could not be terminated.  Of two apps nothing is said: they do run together after a change of the scheme.
- `debug_session_live` (one session, 1067 states): `DebuggerLeaves` and `CommandEnds`, when VS Code refuses a session
  as well.  The exceptions are the command of a session from the editor, which is not told of a refusal, and tests, whose
  command stays when the session dies before its debugger reports (see the hazards).
- `project_files` (5.5 million): `StaleListHasCause` and `StaleWorkspaceHasCause` list when a cached list or the
  workspace file stays behind the project for good: the event was taken for that of a scheme
  (`touchWithoutNotify`), the read failed after its news were consumed, the change was made in place (the helper
  compares the time of the `.xcodeproj` folder), a generation overlapped another or failed, or a list was read
  across a reload, after which the project is known and gets no watcher.  TLC shows each of these to be needed.
  `EditReachesDisk`, `SavesOwnEdits` and `NewerIsNotOverwritten` say what a save does: the edit arrives unless
  something disturbed it, nothing comes with it but what failed before, and it replaces only what the helper has
  read.
- `xcode_build` (841 thousand): `CancelEndsProcesses` and `ResultsSettle`, whatever ignores SIGINT, hangs or holds
  a pipe open.  The code gives up on the work of a cancelled context in three cases, which TLC shows to be needed: a
  lookup or a kill failed, the process itself had ended and its descendants had not, or they were started while it
  was killed.  `StrangersAreSpared` is about the signal, not the decision to send it: a stranger has the pid only when
  it was lost while `killAll` listed the children, or when a signal ended our process, which then has no exit code.
  `SuccessHasLog` has its exceptions named too: a cancelled build, or one that could not read the
  logs of before, counts a log that is not its own.
- `problem_diagnostics` (987 thousand): `OnlyItsOwnProblems` and `ProblemsAreShown`, for every way to cut the
  output into chunks, unless builds overlapped: then the one that ends first clears what the other noted.
- `test_run` (443 thousand): `TestsAreAnswered`, `PassedIsTrue` (but for the two ways in which the log is
  misread), `OnlyFailuresFollow` over log and bundles; `RunEndsOrWaits` and `ParentIsTold` list what a run may
  hang on and which parent session it may leave.
- `language_client` (112 thousand): `AnswersAreOwn`, the refinement of `FetchTests`; `OneServer` (but for one that
  was being started again when it was to stop); `FetchesEnd`.
- `test_tree` (3.1 million): `TreeIsCurrent` and `TreeIsComplete` once all is quiet, but for the files in `contested`,
  `discarded` and `skipped`: what the tree shows are the tests of the text on disk or in the editor.  TLC finds a
  file missing, or an old text shown, if any of the three is no exception.

`CHECK_DEADLOCK FALSE` is said where a session may really stop: all bounded builds are over.
`AtomicCommand` and `TestTree` have an explicit `Terminated` instead.

## What is proved

All theorems hold for every value of the constants under the modules' named assumptions (disjoint sets
of calls; graphs over targets; natural bounds).  Each is derived from an inductive invariant; the
properties themselves are not inductive.

- `AtomicCommandProofs`: type correctness, all seven safety and action properties of the module, and that it
  implements `CommandSlot`.  The strengthening: who is in the queue and who holds the mutex (`LockInv`), that a
  newest request is at the end of the queue (`LatestInv`), what a promise says of its closure (`WorkInv`), that an
  admitted command can be reached by `cancel` (`ContextInv`), and when the two shared
  fields may be trusted (`KindInv`, `UserInv`).  The last is the point: every `finally` block clears them, but only
  a holder of the mutex or a refused watcher executes one, and neither is possible while a user waits unseen.
  For the refinement every action is mapped to a step of `CommandSlot` or to none; `SlotInv` adds that
  the one inside is the one a newcomer tells, and that a request that waits has a newest one to give way to.
- `IndexingProofs`, of `AutocompleteWatcher`: types, `JudgedByLaterBuild`, `ActiveIsBuilding`,
  `ImplicitIsInverted`, `FailureIsNotOverruled`, `FinishedBuildReports`, for any scopes and for what is
  overheard.  The strengthening is `JudgeInv`: while a target is out of date its one time is that of its last
  invalidation, so the comparison in `markTargetUpToDate` compares the right things.  For the last, `AnswerInv`:
  what a running build has spoken of is out of date only because of a later change; its verdict at the end
  covers the rest.
- `IndexingProofs`, of `XcodeBuild` (with `Executor`): types, `SuccessHasLog`, `StrangersAreSpared`, and that in
  a cancelled context what still works, descendants included, has a signal, or `ensureKilled`, on its way or is
  given up for one of the named reasons (`CancelSendsKillers`, of `WorkIsPursued`).  The watch prints only a log
  it took, which is a later one unless none could be read before, and ends without one only when cancelled
  (`LogInv`); a process that runs is one of a call that listens to the cancellation, or one that `killAction` is
  after, unless it failed (`RunningInv`), and a signal is sent to a pid only while nothing is known of the end of
  its process (`HeldInv`).
- `BuildSpyProofs`: types, `WrittenSincePrepare`, `VerdictHasCause`, `CleanSpyIsComplete`.  The first needs that
  the whole file is never older than the last preparation (`FreshInv`); the second ties each line to the client
  that wrote it (`WrittenInv`, `ClientInv`, `CauseInv`); for the third the file of an undisturbed spy holds
  each of its client's targets once and no holes, and is written at its end (`FileInv`), and the spy has heard
  what is before its cursor and what the last read is past (`HeardInv`).
- `BuildServiceProxyProofs`: types, `OneServerEach`, `MessagesReachTheirClient`, `SilenceHasCause`,
  `NewestBuildWins`.  A served client is always behind the entry or the one that entry says was taken
  (`ServingInv`), so a server never takes a client that is served; without a race there is one server
  (`SoleInv`), and it serves the client that was taken (`TakenInv`); clients that
  are there are no newer than the entry, and a server that is watched was started (`StartedInv`), so a dead one that
  still exists is a zombie of the client itself or of an older one; a service at work has a server that
  knows it (`WorkInv`).
- `DebugSessionProofs`: types, `SeesItsApp`, `TargetIsBuilt`, `OneApp`, `StoppedIsFinal`.  `Order` says for one
  session that who spawned an update waits for it unless its work is over (`SpawnOrder`), that none on its way
  sets back a session whose executable may be opened (`FileOrder`), and that the debugger is behind the build
  and the app behind the debugger (`DebugOrder`); `CommandInv` that a context which may still run something has
  the slot, so that one session at a time may launch an app, and that it ended the others of its bundle and
  device or is in `beside` (`AppInv`).
- `ProjectFilesProofs`: types, `StaleListHasCause`, `StaleWorkspaceHasCause`, `EditReachesDisk`,
  `NewerIsNotOverwritten`, `SavesOwnEdits`. Who works at an edit has the mutex, and whose request is served
  waits for it (`MutexInv`); the helper's project has every edit of the file and no others than the holder's and
  those that failed, and is as new as the file unless the times say otherwise (`HelperInv`); an undisturbed edit
  is in memory before its save and on disk after it (`EditInv`); what the list, or a request being served, lacks
  is known to someone (`NewsInv`).  A generation of the workspace that nothing crossed is the only one
  (`CrossInv`), and what its draft lacks is ahead of it (`DraftInv`), and so is what the file lacks after it
  (`WorkInv`).
- `ProblemDiagnosticsProofs`: `OnlyItsOwnProblems` and `ProblemsAreShown`, of which the parser is only assumed to
  store what it finds, so that where it looks is free.  No problem has both sources (`SourceInv`), so storing
  drops nothing that is kept; builds that live together know of it (`AloneInv`); a build that is alone has
  noted every file with problems it did not find, and none of those it did (`NotedInv`).
- `TestingProofs`, of `LanguageClient`: types, `OneServer`, and that the module implements `FetchTests`: the
  requests are in the order of the calls and only the head of the queue is past the mutex (`OrderInv`), who waits
  for a client does so once (`CallInv`), and a client it may ask has its text or none in the dummy document
  (`DocumentInv`).
- `TestingProofs`, of `TestRun`: types, `TestsAreAnswered`, `PassedIsTrue`, `OnlyFailuresFollow`.  A test is in
  `mapTests` until it is reported, and out of it for good (`PendingInv`); a line of the output, or a result on
  disk, is that of a test that ran (`LineInv`); after the first report of a test there are only failures
  (`TailInv`); the bundles to run are those of the project file at hand (`PhaseInv`).
- `TestingProofs`, of `TestTree`: types, `TreeIsCurrent`, `TreeIsComplete`.  Neither can be seen from a tree at
  rest alone.  `AtInv` says what a call has where it is, and `WalkInv` that two walks at a time contest every
  file, and that a walk which lost its target is followed by a load that begins with an empty tree.  For a file
  that is not contested `HoldInv` has one item in use, one call at it, and `reused` pointing to it; `AskInv`
  ties each question to the call that waits for it.  `NewsInv` is the point, conjunct by conjunct: an item
  nobody is at shows the text on disk or in the editor, or there is news of it or a document on its way
  (`ShownIsCurrent`); what is asked for is such a text (`AskIsCurrent`); an item with a text was asked for it
  (`KnownIsAsked`, `EmptyIsKnown`); a walk passes only a file without tests (`PassedIsEmpty`, `GotHasTests`,
  `EmptyIsDisk`); and a file with tests is in the tree, or news, a document, a walk or a load is still to put it
  there (`IsThere`). The last was not true of an earlier form of the model's history: the proof stopped at the
  run that takes the news for an item out of the tree, and TLC then showed the tree it leaves behind.

Only model-checked: the liveness properties `UserCommandStarts`, `WaitingEnds`, `OvertakenClientLeaves`,
`DebuggerLeaves`, `CommandEnds`, `CancelEndsProcesses`, `ResultsSettle`, `RunEndsOrWaits`, `ParentIsTold` and
`FetchesEnd`: fairness and `ENABLED` are beyond the prover.  Every safety invariant, action property and refinement
that a run checks is stated by a theorem.

## Not modelled

See the components of `PROJECT.json` marked `not_modelled` and `partly`, each with its reason.  Pure input
and output (argument lists, pipes, the ruby helper's edits, installers), presentation and settings
(`ext/commands.ts`, `ext/env.ts`, pickers), text matching (`ext/LSP/DefinitionProvider.ts`, the parsers of
Swift classes and of failures) and third-party code stay out.  Of what has state, these are missing:

- the bytes of the proxy's messages: a message of length zero leaves its reader waiting
  (`ext/XCBBuildServiceProxy/MessageReader.py:115`), and the server switches clients in the middle of a message,
  because `is_empty` is named and not called (`ext/XCBBuildServiceProxy/BuildServiceHelper.py:436`);
- `parseBuildingLog`, which reads verdicts from the output when the proxy is off: a chunk with both the end of
  the graph and link lines is read as graph (`ext/Services/BuildTargetSpy.ts:151`);
- of debugging: the app lldb launches on macOS, a launching file that a dying writer leaves
  half written; of the project files: packages, the schemes generated for a build, the tree of hidden files.

## Behaviours of the code

The models have these, or they were met on the way.  Some disagree with the code's own words:

- "do not clean previous errors if user terminated" (`ext/BackgroundIndexing/AutocompleteWatcher.ts:230`), but a
  shell asked for too late throws a promise (`ext/Executor.ts:106`) that no caller recognises as a termination;
- "this target is not being built currently" (`ext/BackgroundIndexing/AutocompleteWatcher.ts:137`), but a cancelled
  watch that ends late clears its successor's set (`ext/BackgroundIndexing/AutocompleteWatcher.ts:234`);
- "all messages are from current build session" (`ext/Services/BuildTargetSpy.ts:41`), but a dying client, for up to
  25 s (`ext/utils.ts:64`), still writes to the cleared file, and its successor marks those targets with its
  own time (`ext/Services/BuildManager.ts:270`): if it is cancelled then, they are spared on the
  word of a build begun before the change (`Overhears`, `hearsay`);
- "we need to make sure we are killing the right process" (`ext/utils.ts:68`), but a process ended by a signal has
  no exit code, so whoever has its pid after 25 s is killed;
- "first task is resolved task, should be only one instance in a user config" (`ext/BuildTaskProvider.ts:145`), but
  the property it tests has no getter, so that the last task wins (`ResolveTask`).

Of others nothing in the repository says what should happen:

- the command of a debug session or of a test run is cancelled before VS Code resolves its configuration, and
  the session comes back with a command of its own (`ResolveUnbound`, `Orphan`;
  `ext/Debug/DebugConfigurationProvider.ts:300`), or, if its command was dropped, is never resolved (`Drop`);
- a session that VS Code refuses after its configuration was resolved, because no configuration is left or
  `createDebugAdapterDescriptor` throws (`ext/Debug/LLDBDapDescriptorFactory.ts:42`): the command that was started for
  it waits for a session that never comes, with the mutex, until it is cancelled
  (`ext/Debug/DebugConfigurationProvider.ts:300`, `"abandoned"`);
- an app is terminated by the bundle of its scheme on its device only, and what goes wrong there is swallowed
  (`ext/RunManager.ts:306-323`), so that after a change of scheme or device the old app runs on, and the new one may
  be launched beside one that could not be ended (`beside`);
- a client of the proxy does not wait for the server it started (`ext/XCBBuildServiceProxy/SWBBuildService.py:94`), so
  `psutil.pid_exists` (`ext/XCBBuildServiceProxy/BuildServiceHelper.py:397`) takes the dead server for alive, and the
  client hangs until its xcodebuild is stopped or a newer client is taken (`PidExists`);
- `ensureKilled` looks at the process of the call alone (`ext/utils.ts:66-79`): descendants that ignore SIGINT
  outlive a process that heeds it, and an error of the lookup ends the attempt (`GivenUp`);
- a session that is stopped while `wait_debugger.py` waits may launch its app before its context is
  cancelled, after which nothing kills it (`ext/Debug/DebugAdapterTracker.ts:190`);
- the second given to a preempted command is a promise nobody awaits (`ext/BuildTaskProvider.ts:204`; the pause is of
  any length in the model);
- a watch that waits to retry is dropped for a newer one whose set was computed without it
  (`ext/BackgroundIndexing/AutocompleteWatcher.ts:254`); of two refreshes of the graph the one that was read first may be
  installed last (`ext/BackgroundIndexing/SemanticManager.ts:118`);
- an edit that failed stays in the helper's memory and is written by the save of another operation, or is lost
  with the next reload (`AnswerError`; `src/resources/project_helper.rb:735`);
- a build for testing takes two build numbers for one build (`ext/Services/BuildManager.ts:608`);
- a build in Xcode that is cancelled returns normally at the next change of the manifest, and its targets are
  marked as built (`Return`); a build of the same scheme by the user counts as the extension's; the dialog
  script is never killed, and after a failed script the watch lives on
  (`ext/Services/XcodeBuildExecutor.ts:179-217`);
- a cancelled build that ends beside its successor clears the files with old problems that the other noted, and
  those stay (`ext/ProblemDiagnosticResolver.ts:243`; `overlapped`);
- the log of a test that says nothing at its end (it skipped itself or crashed) is read up to the end of the
  next, and a name with "passed" or "failed" in it decides the verdict
  (`ext/TestsProvider/RawLogParsers/TestCaseAsyncParser.ts:4`); a run whose command is refused or superseded
  never ends in VS Code (`ext/TestsProvider/TestProvider.ts:289`);
- a `TestFile` notes the text before it awaits its tests, so that a second reader takes the first's absence for
  "nothing new"; news of a file are consumed by whichever item asks first
  (`ext/TestsProvider/TestItemProvider/TestFile.ts:17`), so that a run which still has an item that left the tree
  takes them (`ext/TestsProvider/TestProvider.ts:115`) and no walk puts the file back; of two walks that overlap
  the older may end last and take the newer's files out (`contested` in `TestTree`);
- nothing listens to a document that is closed: the tests of a text that was thrown away stay in the tree
  (`discarded`), and a file that has the text it was read with before is not asked again although the tree shows a
  document's tests (`ext/TestsProvider/TestItemProvider/TestFile.ts:93`; `skipped`).

## Plan

1. *Messages of the proxy*: framing over reads of any length against the sequence of messages sent; the
   abstract specification is a FIFO of whole messages.
2. *`parseBuildingLog`* against the spy it stands in for, and `AutocompleteWatcher` on top of `CommandSlot`.
3. *The rest of debugging and of the project files*, as listed above.
4. *Proofs*: what the liveness properties rest on that is safety, as invariants -- who waits has someone who
   will wake it -- so that only the fairness is left to TLC.
