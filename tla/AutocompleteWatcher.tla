-------------------------- MODULE AutocompleteWatcher --------------------------
(***************************************************************************)
(* Background indexing: the watcher that turns saves into builds           *)
(* (src/src/BackgroundIndexing/AutocompleteWatcher.ts), the builds that     *)
(* report on targets (src/src/Services/BuildManager.ts) and the index       *)
(* status they work on (SemanticManager).                                  *)
(*                                                                         *)
(* The command serialiser is used by what AtomicCommand shows of it: of two *)
(* commands at work one is cancelled, a watcher does not preempt a user     *)
(* command, a cancelled command may go on working beside its successor.     *)
(***************************************************************************)
EXTENDS SemanticManager

CONSTANTS
    MaxWatches,     \* bound on the builds the watcher asks for
    MaxEdits,       \* bound on the changes of files and of the project
    SchemeTargets,  \* the targets of the scheme a user builds
    Scopes          \* pairs of the targets a task includes in the builds for
                    \* completion and those it excludes from them

ASSUME WatchAssumption ==
    /\ MaxWatches \in Nat /\ MaxEdits \in Nat
    /\ SchemeTargets \subseteq Targets
    /\ Scopes \subseteq (SUBSET Targets) \X (SUBSET Targets)

UserBuild == 0
Watches == 1 .. MaxWatches
Builds == {UserBuild} \cup Watches

VARIABLES
    edits,        \* how many changes there were
    pending,      \* the files whose change waits at the first await of
                  \* triggerIncrementalBuild
    buildId,      \* the newest request
    active,       \* activelyBuildingTargetsIds
    watchTouch,   \* buildTouchTime of the watcher
    userBusy,     \* a user command waits or runs
    proxy,        \* is the build service proxy enabled
    cleaned,      \* did the last watch to end clean the previous errors
    build         \* each request and the BuildManager that serves it

watchVars == <<pending, buildId, active, watchTouch>>
vars == <<semVars, edits, watchVars, userBusy, proxy, cleaned, build>>

\* want: toBuildTargetIds; left: buildableTargetsIds, wanted and not reported
\* on; failed: builtTargetIdsWithError; marked: alreadyMarkedTargetIds; start:
\* buildTouchTime; stopped: isEndSpyCalled; auto: buildAutocomplete serves it.
BuildStates ==
    [phase : {"none", "retrying", "waiting", "starting", "preparing", "building",
              "dying", "ended"},
     want : SUBSET Targets, left : SUBSET Targets, failed : SUBSET Targets,
     marked : SUBSET Targets, start : Times, cancelled : BOOLEAN, stopped : BOOLEAN,
     auto : BOOLEAN]

\* A build nothing refers to.
Blank(p) ==
    [phase |-> p, want |-> {}, left |-> {}, failed |-> {}, marked |-> {},
     start |-> 0, cancelled |-> FALSE, stopped |-> FALSE, auto |-> FALSE]

TypeOK ==
    /\ SemTypeOK
    /\ edits \in 0 .. MaxEdits
    /\ pending \in SUBSET Files
    /\ buildId \in 0 .. MaxWatches
    /\ active \in SUBSET Targets
    /\ watchTouch \in Times
    /\ {userBusy, proxy, cleaned} \subseteq BOOLEAN
    /\ build \in [Builds -> BuildStates]

Init ==
    /\ SemInit
    /\ edits = 0 /\ pending = {} /\ buildId = 0 /\ active = {} /\ watchTouch = 0
    /\ userBusy = FALSE /\ proxy \in BOOLEAN /\ cleaned = FALSE
    /\ build = [b \in Builds |-> Blank("none")]

\* At work: between the start of its closure and its end.
AtWork(b) == build[b].phase \in {"starting", "preparing", "building"}
Running(b) == AtWork(b) /\ ~build[b].cancelled

Cancelled(b) == [build[b] EXCEPT !.cancelled = TRUE]
Move(b, p) == build' = [build EXCEPT ![b].phase = p]

-----------------------------------------------------------------------------
(* Events of the editor and of the project *)

Edit == edits < MaxEdits /\ edits' = edits + 1 /\ Passes

\* onDidSaveTextDocument of a file whose text changed: what depends on it needs
\* a build; its own targets only if the last build of them was not a success.
Save(f) ==
    LET own == FileTargets(f) IN
    /\ Edit
    /\ MarkOutOfDate(AllDependents(own) \ {t \in own : status[t] = "UpToDate"}, clock')
    /\ pending' = pending \cup {f}
    /\ UNCHANGED <<graphVars, buildId, active, watchTouch, userBusy, proxy, cleaned, build>>

\* The graph was loaded again because the project changed; the active editor's
\* file is looked at.
Refresh(new, modified, f) ==
    /\ Edit
    /\ RefreshGraph(new, modified, clock')
    /\ pending' = pending \cup {f}
    /\ UNCHANGED <<buildId, active, watchTouch, userBusy, proxy, cleaned, build>>

-----------------------------------------------------------------------------
(* The watcher asks for builds *)

\* autoWatchCommand for the targets S: refused while a user command is busy;
\* otherwise the watch at work is cancelled and the new one waits for its turn.
Request(b, S) ==
    build' = [c \in Builds |->
                CASE c = b -> [Blank(IF userBusy THEN "retrying" ELSE "waiting")
                                 EXCEPT !.want = S, !.auto = TRUE]
                  [] c # b /\ ~userBusy /\ AtWork(c) -> Cancelled(c)
                  [] OTHER -> build[c]]

\* The targets of f that need a build.
NeedsBuild(f, wasFileModified) ==
    {t \in FileTargets(f) :
        /\ status[t] # "UpToDate"
        /\ wasFileModified \/ status[t] # "UpToDateWithError"}

\* ... and are not being built, or were changed since that build began.
LeftTargets(f, wasFileModified) ==
    {t \in NeedsBuild(f, wasFileModified) :
        t \in AllDependencies(active, {}) => touch[t] > watchTouch}

\* triggerIncrementalBuild after isWatcherEnabledAnyFile: the file was changed,
\* or the user merely turned to it, which may happen at any time.
Trigger(f, wasFileModified) ==
    /\ wasFileModified => f \in pending
    /\ pending' = IF wasFileModified THEN pending \ {f} ELSE pending
    /\ IF LeftTargets(f, wasFileModified) = {}
       THEN UNCHANGED <<buildId, build>>
       ELSE /\ buildId < MaxWatches
            /\ buildId' = buildId + 1
            /\ Request(buildId', active \cup LeftTargets(f, wasFileModified))
    /\ UNCHANGED <<semVars, edits, active, watchTouch, userBusy, proxy, cleaned>>

\* A second after a refusal.
Retry(b) ==
    /\ build[b].phase = "retrying"
    /\ IF b = buildId
       THEN Request(b, build[b].want)
       ELSE build' = [build EXCEPT ![b] = Blank("ended")]
    /\ UNCHANGED <<semVars, edits, watchVars, userBusy, proxy, cleaned>>

\* The mutex is handed over.  A request that is not the newest any more is
\* dropped; incrementalBuild checks once more before it waits for isActivated.
\* A cancelled command that is at that wait ends it within the 500 ms its
\* successor gives it; preparing the project may take longer.
Start(b) ==
    /\ build[b].phase = "waiting"
    /\ \A c \in Builds : ~Running(c) /\ build[c].phase # "starting"
    /\ IF b = UserBuild \/ (b = buildId /\ ~userBusy)
       THEN Move(b, "starting")
       ELSE build' = [build EXCEPT ![b] = Blank("ended")]
    /\ UNCHANGED <<semVars, edits, watchVars, userBusy, proxy, cleaned>>

-----------------------------------------------------------------------------
(* The build *)

\* The rest of incrementalBuild up to the first await of buildAutocomplete; a
\* user command that builds does the same for the targets of the scheme.
Begin(b) ==
    /\ build[b].phase = "starting"
    /\ \E scope \in Scopes :
         LET W == IF build[b].auto
                  THEN ((scope[1] \cap graph) \cup build[b].want) \ (scope[2] \cap graph)
                  ELSE SchemeTargets
         IN /\ build' = [build EXCEPT ![b].phase = "preparing", ![b].start = clock,
                                      ![b].want = W, ![b].left = W]
            /\ IF build[b].auto THEN active' = W /\ watchTouch' = clock
                                ELSE UNCHANGED <<active, watchTouch>>
    /\ UNCHANGED <<semVars, edits, pending, buildId, userBusy, proxy, cleaned>>

\* xcodebuild is spawned, unless the context is cancelled by then: after the
\* preparation of the project too.
Spawn(b) ==
    /\ build[b].phase = "preparing" /\ ~build[b].cancelled
    /\ Passes /\ clock' > build[b].start
    /\ Move(b, "building")
    /\ UNCHANGED <<graphVars, statusVars, edits, watchVars, userBusy, proxy, cleaned>>

\* Mutant: a later success overrules the failure.
MarkSuccessAnyway(b, c, S) ==
    MarkUpToDate(AllDependencies(S, build[b].marked),
                 build[b].start, build[c].start, "UpToDate")

\* markTargetUpToDateAfterBuild without an error: S and what it depends on,
\* save what was marked before or failed in this build.  The word is that of c.
MarkSuccess(b, c, S) ==
    MarkUpToDate(AllDependencies(S, build[b].marked) \ build[b].failed,
                 build[b].start, build[c].start, "UpToDate")

\* ... with an error: S alone.
MarkFailure(b, c, S) == MarkUpToDate(S, build[b].start, build[c].start, "UpToDateWithError")

\* A build hears its own process: once it is cancelled only what that prints, and
\* with the proxy that says nothing of targets.
HearsItself(b) ==
    \/ build[b].phase = "building" /\ (build[b].cancelled => ~proxy)
    \/ build[b].phase = "dying" /\ ~proxy

\* With the proxy a cancelled build that has not died yet writes into the spy file
\* its successor reads.  Preparing the project takes more than the clock's unit,
\* and the spy starts after it.
Overhears(b, c) ==
    /\ proxy /\ b # c /\ clock > build[b].start
    /\ build[c].cancelled /\ build[c].phase \in {"building", "dying"}
    /\ build[b].phase \in {"preparing", "building"} /\ ~build[b].cancelled

\* The listener of b hears from the process of c that t was built.
Reports(b, c, t) ==
    /\ ~build[b].stopped
    /\ Overhears(b, c) \/ (b = c /\ HearsItself(b))
    /\ t \in AllDependencies(build[c].want, {}) \cap graph

\* A build for completion is stopped as soon as every wanted target was reported on.
StopsAt(b, l) == l = {} /\ build[b].auto

TargetSucceeds(b, c, t) ==
    LET l == build[b].left \ {t} IN
    /\ Reports(b, c, t)
    /\ MarkSuccess(b, c, {t})
    /\ build' = [build EXCEPT ![b].left = l, ![b].stopped = StopsAt(b, l),
                   ![b].marked = @ \cup AllDependencies({t}, @)]
    /\ UNCHANGED <<clock, graphVars, edits, watchVars, userBusy, proxy, cleaned>>

TargetFails(b, c, t) ==
    LET l == build[b].left \ {t} IN
    /\ Reports(b, c, t) /\ proxy
    /\ MarkFailure(b, c, {t})
    /\ build' = [build EXCEPT ![b].left = l, ![b].stopped = StopsAt(b, l),
                   ![b].failed = @ \cup {t}]
    /\ UNCHANGED <<clock, graphVars, edits, watchVars, userBusy, proxy, cleaned>>

\* xcodebuild prints the dependency graph it computed.
Dependency(b, from, to) ==
    /\ build[b].phase = "building" /\ ~build[b].stopped
    /\ SetImplicitDependency(from, to)
    /\ build' = [build EXCEPT ![b].stopped = StopsAt(b, build[b].left)]
    /\ UNCHANGED <<clock, statusVars, edits, watchVars, userBusy, proxy, cleaned>>

\* What every way out of a build does; the finally block clears the set that is
\* active by then, whose ever it is.
Leave(b, p) ==
    /\ build' = [build EXCEPT ![b] = IF p = "ended" THEN Blank(p)
                                     ELSE [@ EXCEPT !.phase = p]]
    /\ active' = IF build[b].auto THEN {} ELSE active
    /\ userBusy' = (userBusy /\ b # UserBuild)

\* Mutant: a failed build says nothing of what was not reported on.
VerdictOnlyOfSuccess(b) == MarkSuccess(b, b, build[b].left) \/ UNCHANGED statusVars

\* The verdict of a build covers what was not reported on.
Verdict(b) == MarkSuccess(b, b, build[b].left) \/ MarkFailure(b, b, build[b].left)

\* The build ended by itself, was stopped by its own spy, or failed -- possibly
\* before xcodebuild was started.
Finish(b) ==
    /\ build[b].phase \in {"preparing", "building"} /\ ~build[b].cancelled
    /\ Verdict(b)
    /\ Leave(b, "ended")
    /\ cleaned' = (cleaned \/ build[b].auto)
    /\ UNCHANGED <<clock, graphVars, edits, pending, buildId, watchTouch, proxy>>

\* The shell of a cancelled build rejects with UserTerminatedError: no verdict,
\* and a watcher keeps the previous errors.  The process dies in its own time.
Terminate(b) ==
    /\ build[b].phase = "building" /\ build[b].cancelled
    /\ Leave(b, "dying")
    /\ cleaned' = (cleaned /\ ~build[b].auto)
    /\ UNCHANGED <<semVars, edits, pending, buildId, watchTouch, proxy>>

\* Nothing is heard any more: the process dies, and without the proxy, within a second
\* after the build's end, the spy's loop wakes up and leaves.
FallsSilent(b) ==
    /\ build[b].phase = "dying"
    /\ build' = [build EXCEPT ![b] = Blank("ended")]
    /\ UNCHANGED <<semVars, edits, watchVars, userBusy, proxy, cleaned>>

\* A shell asked for with a cancelled token throws Promise.reject(...): a
\* promise, not the error in it, so it passes for a failure of the build.
TerminateUnspawned(b) ==
    /\ build[b].phase = "preparing" /\ build[b].cancelled
    /\ MarkFailure(b, b, build[b].left)
    /\ Leave(b, "ended")
    /\ cleaned' = (cleaned \/ build[b].auto)
    /\ UNCHANGED <<clock, graphVars, edits, pending, buildId, watchTouch, proxy>>

-----------------------------------------------------------------------------
(* User commands *)

\* A user command cancels what is at work and keeps watchers out.
UserCommand ==
    /\ build[UserBuild].phase = "none"
    /\ userBusy' = TRUE
    /\ build' = [c \in Builds |->
                   IF c = UserBuild THEN Blank("waiting")
                   ELSE IF AtWork(c) THEN Cancelled(c) ELSE build[c]]
    /\ UNCHANGED <<semVars, edits, watchVars, proxy, cleaned>>

\* The user's task builds for completion in its own context, without a turn of its
\* own: triggerIncrementalBuild for the file in the editor.
UserAutocomplete(f) ==
    /\ build[UserBuild].phase = "starting" /\ ~build[UserBuild].auto
    /\ LeftTargets(f, TRUE) # {}
    /\ buildId < MaxWatches /\ buildId' = buildId + 1
    /\ build' = [build EXCEPT ![UserBuild].auto = TRUE,
                              ![UserBuild].want = active \cup LeftTargets(f, TRUE)]
    /\ UNCHANGED <<semVars, edits, pending, active, watchTouch, userBusy, proxy, cleaned>>

\* cleanDerivedData, or any command that does not build.
UserEnds ==
    /\ build[UserBuild].phase = "starting" /\ ~build[UserBuild].auto
    /\ MarkAllOutOfDate(clock) \/ UNCHANGED statusVars
    /\ build' = [build EXCEPT ![UserBuild] = Blank("ended")]
    /\ userBusy' = FALSE
    /\ UNCHANGED <<clock, graphVars, edits, watchVars, proxy, cleaned>>

\* The user stops the command in its terminal.
CancelWork(b) ==
    /\ Running(b)
    /\ build' = [build EXCEPT ![b] = Cancelled(b)]
    /\ UNCHANGED <<semVars, edits, watchVars, userBusy, proxy, cleaned>>

-----------------------------------------------------------------------------
Next ==
    \/ \E f \in Files :
         \/ Save(f) \/ UserAutocomplete(f)
         \/ \E m \in BOOLEAN : Trigger(f, m)
         \/ \E new \in Graphs, modified \in SUBSET Targets : Refresh(new, modified, f)
    \/ \E b \in Watches : Retry(b)
    \/ \E b \in Builds :
         \/ Start(b) \/ Begin(b) \/ Spawn(b) \/ CancelWork(b)
         \/ Finish(b) \/ Terminate(b) \/ TerminateUnspawned(b) \/ FallsSilent(b)
         \/ \E c \in Builds, t \in Targets : TargetSucceeds(b, c, t) \/ TargetFails(b, c, t)
         \/ \E e \in Deps \cup Hidden : Dependency(b, e[1], e[2])
    \/ UserCommand \/ UserEnds

Spec == Init /\ [][Next]_vars

-----------------------------------------------------------------------------
(* Properties *)

\* A target is spared a build only on the word of a build that began after the last
\* change which put it out of date -- also when builds overlap and an abandoned one
\* reports after its successor.  The exception is the proxy's shared spy file: a
\* build that began after the change takes what its cancelled predecessor, which did
\* not, goes on to write for its own (BuildManager.ts:255-307).
JudgedByLaterBuild ==
    \A t \in Targets :
        status[t] \in {"UpToDate", "UpToDateWithError"} =>
            t \in judged \/ (proxy /\ t \in hearsay)

\* "we don't want to mark any target with error as up to date, even it came
\* later as success": a target becomes up to date on the word of a build that
\* has not seen it fail.
FailureIsNotOverruled ==
    [][\A t \in Targets :
        status'[t] = "UpToDate" /\ status[t] # "UpToDate"
            => \E b \in Builds :
                 /\ build[b].phase \in {"preparing", "building", "dying"}
                 /\ build[b].start = touch'[t] /\ t \notin build[b].failed]_vars

\* A build that was not cancelled answers for everything it was asked for: no
\* wanted target is out of date afterwards unless it changed meanwhile.
FinishedBuildReports ==
    [][\A b \in Builds :
        build[b].phase = "building" /\ ~build[b].cancelled /\ build'[b].phase = "ended"
            => \A t \in build[b].want :
                 status'[t] # "OutOfDate" \/ touch'[t] > build[b].start]_vars

\* The set the watcher takes for its running build is never that of a build
\* which is over.
ActiveIsBuilding ==
    active # {} =>
        \E b \in Builds :
            /\ build[b].phase \in {"preparing", "building"} /\ build[b].auto
            /\ active = build[b].want

=============================================================================
