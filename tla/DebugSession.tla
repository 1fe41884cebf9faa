----------------------------- MODULE DebugSession -----------------------------
(***************************************************************************)
(* The life of debug sessions: the command that asks VS Code for one       *)
(* (DebugConfigurationProvider), the tracker that builds and runs while    *)
(* the session is open (DebugAdapterTracker, RunManager), the Python that  *)
(* waits inside lldb (attach_lldb.py, waiting_for_attach_proc.py), and the *)
(* file debugger.launching through which they talk (helper.py).            *)
(*                                                                         *)
(* The serialiser of commands is module AtomicCommand; here it is a slot   *)
(* that one session's command has, which a newer command takes over.  A    *)
(* command lasts until the promise its context waits on is settled, so the *)
(* session of an app that runs has no command any more.                    *)
(***************************************************************************)
CONSTANTS
    Sessions,   \* session ids, each used once
    NoSession,  \* no session
    Apps        \* what simctl launches and terminates: a bundle on a simulator

ASSUME SessionsAssumption == NoSession \notin Sessions
ASSUME AppsAssumption == Apps # {} /\ "tests" \notin Apps

VARIABLES
    target,     \* what the session debugs: the app of the scheme and the device that
                \* its command was asked for with, or the tests of a bundle
    newest,     \* whose command was asked for last (latestOperationID)
    slot,       \* whose command has the mutex
    vs,         \* how far VS Code is with the session
    bound,      \* the sessions in contextBinder
    cancelled,  \* the sessions whose context is cancelled
    file,       \* the status of each session in debugger.launching
    inflight,   \* spawned update_debugger_launching.py, as session and status
    work,       \* where DebugAdapterTracker.build is
    closing,    \* where terminateCurrentSession is
    lldb,       \* where the debugger's attach commands are
    known,      \* the processes the debugger has been told to ignore
    app,        \* the process that is to be debugged
    beside      \* the sessions that may launch their app beside another: again, or after
                \* the one that ran was not terminated (history)

commandVars == <<newest, slot, bound, cancelled>>
fileVars    == <<file, inflight>>
debugVars   == <<lldb, known>>
appVars     == <<app, beside>>
vars == <<target, commandVars, vs, fileVars, work, closing, debugVars, appVars>>

Statuses == {"configuring", "building", "launching", "launched", "attached", "stopped"}

\* A command waits for the mutex; it has the mutex and sleeps for 500 ms; its session
\* is configured; VS Code starts the adapter.  The second of each is a command that
\* resolveDebugConfiguration started: it does not hear whether VS Code succeeds.
Queued    == {"queued", "requeued"}
Admitted  == {"admitted", "readmitted"}
Resolving == {"resolving", "reresolving"}
Starting  == {"starting", "restarting"}
VsStates  == Queued \cup Admitted \cup Resolving \cup Starting \cup
             {"none", "asked", "open", "refused", "abandoned", "closed", "hung"}

Works == {"none", "checking", "to build", "building", "to run", "preparing", "waiting",
          "testing", "done"}

\* How a tracker terminates its session: the command is cancelled too; VS Code is
\* told to stop the session; the adapter is only asked to disconnect.
Ways     == {"cancel", "stop", "disconnect"}
Closings == Ways \cup {"no", "disconnected", "over"}

LldbStates == {"none", "create", "created", "listed", "watching", "attached", "gone"}
AppStates  == {"none", "running", "ended", "retrying", "lost"}

TypeOK ==
    /\ target \in [Sessions -> Apps \cup {"tests"}]
    /\ newest \in Sessions \cup {NoSession}
    /\ slot \in Sessions \cup {NoSession}
    /\ vs \in [Sessions -> VsStates]
    /\ bound \in SUBSET Sessions
    /\ cancelled \in SUBSET Sessions
    /\ file \in [Sessions -> Statuses \cup {"none"}]
    /\ inflight \in SUBSET (Sessions \X Statuses)
    /\ work \in [Sessions -> Works]
    /\ closing \in [Sessions -> Closings]
    /\ lldb \in [Sessions -> LldbStates]
    /\ known \in [Sessions -> SUBSET Sessions]
    /\ app \in [Sessions -> AppStates]
    /\ beside \in SUBSET Sessions

Init ==
    /\ target \in [Sessions -> Apps \cup {"tests"}]
    /\ newest = NoSession /\ slot = NoSession
    /\ vs = [s \in Sessions |-> "none"]
    /\ bound = {} /\ cancelled = {}
    /\ file = [s \in Sessions |-> "none"] /\ inflight = {}
    /\ work = [s \in Sessions |-> "none"]
    /\ closing = [s \in Sessions |-> "no"]
    /\ lldb = [s \in Sessions |-> "none"] /\ known = [s \in Sessions |-> {}]
    /\ app = [s \in Sessions |-> "none"] /\ beside = {}

------------------------------------------------------------------------------
(* The launching file. *)

\* update_debugger_launch_config: what is stopped stays stopped.
Updated(s, status) == IF file[s] = "stopped" THEN file ELSE [file EXCEPT ![s] = status]

\* updateStatus: a script of its own for every update, in no order.
Spawn(updates) == inflight' = inflight \cup updates

Write(s, status) ==
    /\ <<s, status>> \in inflight
    /\ inflight' = inflight \ {<<s, status>>}
    /\ file' = Updated(s, status)
    /\ UNCHANGED <<target, commandVars, vs, work, closing, debugVars, appVars>>

------------------------------------------------------------------------------
(* Commands, their contexts and the binder. *)

\* The sessions of S that have a tracker which is not terminated (isTerminated);
\* it listens to the context of its session.
Tracked(S) == {s \in S : lldb[s] # "none" /\ closing[s] = "no"}

\* terminateCurrentSession up to its first await.
Terminate(S, how) == closing' = [s \in Sessions |-> IF s \in S THEN how ELSE closing[s]]
Stops(S) == {<<s, "stopped">> : s \in S}

\* The waiter of a context is settled: its binder goes, and its command ends.
Settle(S) ==
    /\ bound' = bound \ S
    /\ slot' = IF slot \in S THEN NoSession ELSE slot

\* The contexts of S are cancelled.  The command of a context that waits for its
\* predecessor to go does not notice before it begins.
Cancel(S) ==
    /\ cancelled' = cancelled \cup S
    /\ Settle({s \in S : vs[s] \notin Admitted})
    /\ Terminate(Tracked(S), "disconnect")
    /\ Spawn(Stops(Tracked(S)))

\* userCommand: a new command cancels the one that has the mutex.
Request(s) ==
    /\ newest' = s
    /\ Cancel({slot} \ {NoSession})

\* "Run App & Debug", or the next bundle of a test run, as a command.
Command(s) ==
    /\ vs[s] = "none"
    /\ Request(s)
    /\ vs' = [vs EXCEPT ![s] = "queued"]
    /\ UNCHANGED <<target, file, work, debugVars, appVars>>

\* A launch configuration is started from VS Code; no command knows of it.
LaunchFromEditor(s) ==
    /\ vs[s] = "none" /\ target[s] # "tests"
    /\ vs' = [vs EXCEPT ![s] = "asked"]
    /\ UNCHANGED <<target, commandVars, fileVars, work, closing, debugVars, appVars>>

Admit(s) ==
    /\ vs[s] \in Queued /\ slot = NoSession
    /\ newest = s /\ \A t \in Sessions \ {s} : vs[t] \notin Queued
    /\ slot' = s
    /\ cancelled' = cancelled \ {s}
    /\ vs' = [vs EXCEPT ![s] = IF @ = "queued" THEN "admitted" ELSE "readmitted"]
    /\ UNCHANGED <<target, newest, bound, fileVars, work, closing, debugVars, appVars>>

\* A stale command gives up without a word (E_CANCELED): who asked for it in
\* resolveDebugConfiguration is never answered.
Drop(s) ==
    /\ vs[s] \in Queued /\ slot = NoSession /\ newest # s
    /\ vs' = [vs EXCEPT ![s] = IF @ = "queued" THEN "closed" ELSE "hung"]
    /\ UNCHANGED <<target, commandVars, fileVars, work, closing, debugVars, appVars>>

\* waitForDebugSession; of a cancelled context nothing is kept, but the command
\* goes on to ask for its session.
Begin(s) ==
    /\ vs[s] \in Admitted
    /\ IF s \in cancelled THEN Settle({s}) ELSE bound' = bound \cup {s} /\ UNCHANGED slot
    /\ \/ /\ vs[s] = "admitted"
          /\ vs' = [vs EXCEPT ![s] = "asked"]
          /\ UNCHANGED inflight
       \/ /\ vs[s] = "readmitted"
          /\ vs' = [vs EXCEPT ![s] = "reresolving"]
          /\ Spawn({<<s, "configuring">>})
    /\ UNCHANGED <<target, newest, cancelled, file, work, closing, debugVars, appVars>>

\* The user cancels the command.
CancelCommand(s) ==
    /\ slot = s /\ s \notin cancelled
    /\ Cancel({s})
    /\ UNCHANGED <<target, newest, vs, file, work, debugVars, appVars>>

------------------------------------------------------------------------------
(* resolveDebugConfiguration. *)

Resolve(s) ==
    /\ vs[s] = "asked" /\ s \in bound
    /\ vs' = [vs EXCEPT ![s] = "resolving"]
    /\ Spawn({<<s, "configuring">>})
    /\ UNCHANGED <<target, commandVars, file, work, closing, debugVars, appVars>>

\* No context is bound, because the session comes from the editor or because its
\* command was cancelled meanwhile: a command of its own is started for it.
ResolveUnbound(s) ==
    /\ vs[s] = "asked" /\ s \notin bound
    /\ Request(s)
    /\ vs' = [vs EXCEPT ![s] = "requeued"]
    /\ UNCHANGED <<target, file, work, debugVars, appVars>>

Configured(s) ==
    /\ vs[s] \in Resolving /\ <<s, "configuring">> \notin inflight
    /\ vs' = [vs EXCEPT ![s] = IF @ = "resolving" THEN "starting" ELSE "restarting"]
    /\ UNCHANGED <<target, commandVars, fileVars, work, closing, debugVars, appVars>>

ConfigurationFails(s) ==
    /\ vs[s] \in Resolving /\ <<s, "configuring">> \notin inflight
    /\ vs' = [vs EXCEPT ![s] = "closed"]
    /\ Cancel({s})
    /\ UNCHANGED <<target, newest, file, work, debugVars, appVars>>

\* VS Code gives up before the session has a tracker: it finds no configuration, or
\* createDebugAdapterDescriptor no debugger.  Only startDebugging says so.
Refuse(s) ==
    /\ vs[s] \in Starting \cup {"asked"}
    /\ vs' = [vs EXCEPT ![s] = IF s \notin bound THEN "closed"
                              ELSE IF @ = "restarting" THEN "abandoned" ELSE "refused"]
    /\ UNCHANGED <<target, commandVars, fileVars, work, closing, debugVars, appVars>>

\* startDebugging answers false to the command that asked for the session.
Answered(s) ==
    /\ vs[s] = "refused"
    /\ vs' = [vs EXCEPT ![s] = "closed"]
    /\ Cancel({s})
    /\ UNCHANGED <<target, newest, file, work, debugVars, appVars>>

\* onWillStartSession throws when the context is gone, and VS Code gives up.
Open(s) ==
    /\ vs[s] \in Starting
    /\ \/ /\ s \notin bound
          /\ vs' = [vs EXCEPT ![s] = "closed"]
          /\ UNCHANGED <<inflight, work, lldb>>
       \/ /\ s \in bound
          /\ vs' = [vs EXCEPT ![s] = "open"]
          /\ lldb' = [lldb EXCEPT ![s] = "create"]
          /\ \/ /\ target[s] # "tests"
                /\ work' = [work EXCEPT ![s] = "checking"]
                /\ UNCHANGED inflight
             \/ /\ target[s] = "tests"
                /\ work' = [work EXCEPT ![s] = "to run"]
                /\ Spawn({<<s, "launching">>})
    /\ UNCHANGED <<target, commandVars, file, closing, known, appVars>>

------------------------------------------------------------------------------
(* DebugAdapterTracker.build and RunManager. *)

Work(s, from, to) == work[s] = from /\ work' = [work EXCEPT ![s] = to]

CheckBuild(s) ==
    /\ \/ Work(s, "checking", "to build") /\ Spawn({<<s, "building">>})
       \/ Work(s, "checking", "to run") /\ Spawn({<<s, "launching">>})
    /\ UNCHANGED <<target, commandVars, vs, file, closing, debugVars, appVars>>

Build(s) ==
    /\ s \in bound /\ <<s, "building">> \notin inflight
    /\ Work(s, "to build", "building")
    /\ UNCHANGED <<target, commandVars, vs, fileVars, closing, debugVars, appVars>>

Built(s) ==
    /\ Work(s, "building", "to run")
    /\ Spawn({<<s, "launching">>})
    /\ UNCHANGED <<target, commandVars, vs, file, closing, debugVars, appVars>>

Run(s) ==
    /\ s \in bound /\ <<s, "launching">> \notin inflight
    /\ Work(s, "to run", "preparing")
    /\ UNCHANGED <<target, commandVars, vs, fileVars, closing, debugVars, appVars>>

\* The sessions whose process simctl terminate would end.
Running(a) == {t \in Sessions : target[t] = a /\ app[t] = "running"}

\* The app of the selected scheme; for tests it may be any.
Selected(s) == IF target[s] = "tests" THEN Apps ELSE {target[s]}

\* prepareSimulator: what terminateCurrentIOSApp fails to end runs on; what it ends
\* is reported by who launched it.
Prepare(s) ==
    /\ s \notin cancelled
    /\ Work(s, "preparing", "waiting")
    /\ \E a \in Selected(s) : \E ended \in {{}, Running(a)} :
        /\ app' = [t \in Sessions |-> IF t \in ended THEN "ended" ELSE app[t]]
        /\ Spawn(Stops(ended))
        /\ beside' = IF ended = Running(a) THEN beside ELSE beside \cup {s}
    /\ UNCHANGED <<target, commandVars, vs, file, closing, debugVars>>

\* Mutant: the app is launched as soon as it is installed.
DebuggerMayCome(s) == file[s] \in {"launching", "launched", "attached", "stopped"}

\* wait_debugger.py, and update_debugger_launching.py's statuses it takes.
DebuggerReady(s) == file[s] \in {"launched", "attached", "stopped"}

\* Mutant: a process is started in a context that is cancelled.
LaunchAnyway(s) ==
    /\ target[s] # "tests"
    /\ DebuggerReady(s)
    /\ Work(s, "waiting", "done")
    /\ app' = [app EXCEPT ![s] = "running"]
    /\ Settle({s})
    /\ UNCHANGED <<target, newest, cancelled, vs, fileVars, closing, debugVars, beside>>

\* The app is launched, and that is the end of the command: token.fire().
Launch(s) ==
    /\ target[s] # "tests" /\ s \notin cancelled
    /\ DebuggerReady(s)
    /\ Work(s, "waiting", "done")
    /\ app' = [app EXCEPT ![s] = "running"]
    /\ Settle({s})
    /\ UNCHANGED <<target, newest, cancelled, vs, fileVars, closing, debugVars, beside>>

StartTests(s) ==
    /\ target[s] = "tests" /\ s \notin cancelled
    /\ DebuggerReady(s)
    /\ Work(s, "waiting", "testing")
    /\ app' = [app EXCEPT ![s] = "running"]
    /\ UNCHANGED <<target, commandVars, vs, fileVars, closing, debugVars, beside>>

\* What is awaited throws.  A cancelled context runs no more processes, and the
\* use of a context that is no longer bound throws.
Throws(s) ==
    \/ work[s] \in {"checking", "building", "preparing"}
    \/ work[s] \in {"to build", "to run"} /\ s \notin bound
    \/ work[s] = "waiting" /\ s \in cancelled

\* The catch of build, and its end for tests: the waiter is settled, and the
\* session is terminated unless that has begun already.
Finish(s) ==
    /\ work' = [work EXCEPT ![s] = "done"]
    /\ Settle({s})
    /\ Terminate(Tracked({s}), "stop")

WorkFails(s) ==
    /\ Throws(s)
    /\ Finish(s)
    /\ Spawn(Stops(Tracked({s})))
    /\ UNCHANGED <<target, newest, cancelled, vs, file, debugVars, appVars>>

\* xcodebuild ends, or is killed because the command is cancelled; runTests
\* reports the end in any case.
TestsEnd(s) ==
    /\ work[s] = "testing"
    /\ app' = [app EXCEPT ![s] = "ended"]
    /\ Finish(s)
    /\ Spawn(Stops({s}))
    /\ UNCHANGED <<target, newest, cancelled, vs, file, debugVars, beside>>

\* The app quits, crashes or is killed: simctl launch ends.
AppEnds(s) ==
    /\ target[s] # "tests" /\ app[s] = "running"
    /\ app' = [app EXCEPT ![s] = "ended"]
    /\ Spawn(Stops({s}))
    /\ UNCHANGED <<target, commandVars, vs, file, work, closing, debugVars, beside>>

\* simctl launch ends with code 3: the simulator is shut down, and the whole of
\* runOnSimulator starts again; nobody waits for it.
SimulatorHangs(s) ==
    /\ target[s] # "tests" /\ app[s] = "running"
    /\ app' = [app EXCEPT ![s] = "retrying"]
    /\ UNCHANGED <<target, commandVars, vs, fileVars, work, closing, debugVars, beside>>

Retry(s) ==
    /\ app[s] = "retrying"
    /\ DebuggerReady(s)
    /\ \E ended \in {{}, Running(target[s])} :
        /\ app' = [t \in Sessions |-> IF t = s THEN "running"
                                      ELSE IF t \in ended THEN "ended" ELSE app[t]]
        /\ Spawn(Stops(ended))
    /\ beside' = beside \cup {s}
    /\ UNCHANGED <<target, commandVars, vs, file, work, closing, debugVars>>

\* The simulator does not come back: nothing reports it.
RetryIsLost(s) ==
    /\ app[s] = "retrying"
    /\ app' = [app EXCEPT ![s] = "lost"]
    /\ UNCHANGED <<target, commandVars, vs, fileVars, work, closing, debugVars, beside>>

------------------------------------------------------------------------------
(* The end of a session. *)

\* The rest of terminateCurrentSession, once "stopped" is written.
Terminated(s) ==
    /\ closing[s] \in Ways /\ <<s, "stopped">> \notin inflight
    /\ closing' = [closing EXCEPT ![s] = IF @ = "disconnect" THEN "disconnected" ELSE "over"]
    /\ \/ /\ closing[s] = "cancel" /\ s \in bound
          /\ cancelled' = cancelled \cup {s}
          /\ Settle({s})
       \/ /\ closing[s] # "cancel" \/ s \notin bound
          /\ UNCHANGED <<cancelled, slot, bound>>
    /\ UNCHANGED <<target, newest, vs, fileVars, work, debugVars, appVars>>

\* The user stops the session: "disconnect" reaches the tracker first.
UserStops(s) ==
    /\ vs[s] = "open" /\ closing[s] = "no"
    /\ Terminate({s}, "cancel")
    /\ Spawn(Stops({s}))
    /\ UNCHANGED <<target, commandVars, vs, file, work, debugVars, appVars>>

\* Mutant: the end of a session leaves its command alone.
CloseQuietly(s) ==
    /\ vs[s] = "open"
    /\ vs' = [vs EXCEPT ![s] = "closed"]
    /\ lldb' = [lldb EXCEPT ![s] = "gone"]
    /\ LET ending == {t \in Tracked({s}) : target[t] # "tests"}
       IN  Terminate(ending, "stop") /\ Spawn(Stops(ending))
    /\ UNCHANGED <<target, commandVars, file, work, known, appVars>>

\* onWillStopSession: only the session of an app is terminated by its end.
Close(s) ==
    /\ vs[s] = "open"
    /\ vs' = [vs EXCEPT ![s] = "closed"]
    /\ lldb' = [lldb EXCEPT ![s] = "gone"]
    /\ LET ending == {t \in Tracked({s}) : target[t] # "tests"}
       IN  Terminate(ending, "cancel") /\ Spawn(Stops(ending))
    /\ UNCHANGED <<target, commandVars, file, work, known, appVars>>

\* The adapter has nothing to debug any more or is stopped.  A request to disconnect
\* is answered between commands only, and the debugger's are long.
Ending(s) == \/ lldb[s] = "gone" \/ closing[s] = "over"
             \/ closing[s] = "disconnected" /\ lldb[s] = "attached"

SessionEnds(s) == Ending(s) /\ Close(s)

\* The adapter dies, or the user detaches.
AdapterDies(s) == ~Ending(s) /\ Close(s)

------------------------------------------------------------------------------
(* attach_lldb.py inside the debugger. *)

Debugger(s, from, to) == lldb[s] = from /\ lldb' = [lldb EXCEPT ![s] = to]

\* Mutant: the debugger takes the beginning of a build for its end.
CreateTargetEarly(s) ==
    /\ file[s] \in {"building", "launching", "launched"}
    /\ Debugger(s, "create", "created")
    /\ UNCHANGED <<target, commandVars, vs, fileVars, work, closing, known, appVars>>

\* create_target, wait_until_build.
CreateTarget(s) ==
    /\ file[s] \in {"launching", "launched"}
    /\ Debugger(s, "create", "created")
    /\ UNCHANGED <<target, commandVars, vs, fileVars, work, closing, known, appVars>>

\* watch_new_process: the processes that run already are listed ...
ListProcesses(s) ==
    /\ file[s] # "stopped"
    /\ Debugger(s, "created", "listed")
    /\ known' = [known EXCEPT ![s] = {t \in Sessions : app[t] = "running"}]
    /\ UNCHANGED <<target, commandVars, vs, fileVars, work, closing, appVars>>

\* ... before the app may be launched.
SayLaunched(s) ==
    /\ Debugger(s, "listed", "watching")
    /\ file' = Updated(s, "launched")
    /\ UNCHANGED <<target, commandVars, vs, inflight, work, closing, known, appVars>>

\* waiting_for_attach_proc.py finds a process that was not listed.
Attach(s) ==
    /\ \E t \in Sessions \ known[s] : app[t] = "running"
    /\ \/ Debugger(s, "watching", "attached") /\ file' = Updated(s, "attached")
       \/ Debugger(s, "watching", "gone") /\ UNCHANGED file
    /\ UNCHANGED <<target, commandVars, vs, inflight, work, closing, known, appVars>>

\* Mutant: the wait for the build does not ask whether the session is valid.
LeaveLate(s) ==
    /\ file[s] = "stopped"
    /\ \E at \in {"created", "watching", "attached"} : Debugger(s, at, "gone")
    /\ UNCHANGED <<target, commandVars, vs, fileVars, work, closing, known, appVars>>

\* is_debug_session_valid: every loop of the debugger ends with the session.
Leave(s) ==
    /\ file[s] = "stopped"
    /\ \E at \in {"create", "created", "watching", "attached"} : Debugger(s, at, "gone")
    /\ UNCHANGED <<target, commandVars, vs, fileVars, work, closing, known, appVars>>

------------------------------------------------------------------------------
Resolution(s) == \/ Admit(s) \/ Drop(s) \/ Begin(s) \/ Resolve(s) \/ ResolveUnbound(s)
                 \/ Configured(s) \/ ConfigurationFails(s) \/ Answered(s) \/ Open(s)

Working(s) == \/ CheckBuild(s) \/ Build(s) \/ Built(s) \/ Run(s) \/ Prepare(s)
              \/ Launch(s) \/ StartTests(s) \/ WorkFails(s) \/ TestsEnd(s)

Debugging(s) == CreateTarget(s) \/ ListProcesses(s) \/ SayLaunched(s) \/ Attach(s) \/ Leave(s)

Environment(s) == \/ Command(s) \/ LaunchFromEditor(s) \/ CancelCommand(s) \/ Refuse(s)
                  \/ AppEnds(s) \/ SimulatorHangs(s) \/ Retry(s) \/ RetryIsLost(s)
                  \/ UserStops(s) \/ AdapterDies(s)

Next ==
    \E s \in Sessions :
        \/ \E status \in Statuses : Write(s, status)
        \/ Resolution(s) \/ Working(s) \/ Debugging(s)
        \/ Terminated(s) \/ SessionEnds(s)
        \/ Environment(s)

Spec == Init /\ [][Next]_vars

(***************************************************************************)
(* Every script that was spawned runs, VS Code answers, a build ends, the  *)
(* loops of the debugger poll.  A simulator need not boot, tests need not   *)
(* end and an app need not start or quit; but once the context of a command *)
(* is cancelled the processes it started are killed.                        *)
(***************************************************************************)
Unstoppable(s) ==
    \/ CheckBuild(s) \/ Build(s) \/ Built(s) \/ Run(s) \/ Launch(s) \/ StartTests(s)
    \/ s \in cancelled /\ (WorkFails(s) \/ TestsEnd(s))

Fairness ==
    \A s \in Sessions :
        /\ \A status \in Statuses : WF_vars(Write(s, status))
        /\ WF_vars(Resolution(s)) /\ WF_vars(Unstoppable(s))
        /\ WF_vars(Debugging(s))
        /\ WF_vars(Terminated(s)) /\ WF_vars(SessionEnds(s))

FairSpec == Spec /\ Fairness

------------------------------------------------------------------------------
(* Correctness. *)

Alive(s) == lldb[s] \notin {"none", "gone"}

\* The process a session launches is one its debugger looks for: the debugger made
\* its list of processes to ignore before, unless the session was stopped.
SeesItsApp ==
    \A s \in Sessions :
        app[s] = "running" /\ file[s] # "stopped" =>
            /\ s \notin known[s]
            /\ lldb[s] \in {"watching", "attached", "gone"}

\* The debugger reads the executable only when no build writes it any more.
TargetIsBuilt ==
    \A s \in Sessions :
        lldb[s] \in {"created", "listed", "watching", "attached"} =>
            work[s] \notin {"none", "checking", "to build", "building"}

\* An app runs once on its simulator: a command ends the one that runs, and after it
\* is cancelled it launches none.  The exceptions are the app that could not be ended,
\* beside which a command launches its own, and the app that is launched again when
\* its command has long ended.
OneApp ==
    \A s, t \in Sessions \ beside :
        /\ target[s] # "tests" /\ target[s] = target[t]
        /\ app[s] = "running" /\ app[t] = "running"
        => s = t

\* A session that is reported as stopped is never reported as anything else, though
\* updates that were spawned before arrive after it.
StoppedIsFinal ==
    [][\A s \in Sessions : file[s] = "stopped" => file'[s] = "stopped"]_vars

\* When the context of a session is cancelled, its debugger ends.
DebuggerLeaves ==
    \A s \in Sessions : s \in cancelled /\ Alive(s) ~> ~Alive(s)

\* When the session of an app is over, or VS Code refuses the session that a command
\* asked for, the command ends.  The exception is a command that was started for a
\* session from the editor ("abandoned"): it is not told.
CommandEnds ==
    \A s \in Sessions :
        slot = s /\ (vs[s] = "refused" \/ (vs[s] = "closed" /\ target[s] # "tests")) ~> slot # s

=============================================================================
