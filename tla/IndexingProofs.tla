---------------------------- MODULE IndexingProofs ----------------------------
(***************************************************************************)
(* Proofs about background indexing: AutocompleteWatcher, for any project   *)
(* and any number of watches, edits and clock ticks, and XcodeBuild, the     *)
(* build for completion that is handed to a running Xcode.  The two          *)
(* specifications share no variable.                                        *)
(***************************************************************************)
EXTENDS AutocompleteWatcher, XcodeBuild, TLAPS

-----------------------------------------------------------------------------
(* AutocompleteWatcher *)

StatusOK ==
    /\ status \in [Targets -> Statuses]
    /\ touch \in [Targets -> Times]
    /\ inval \in [Targets -> Times]
    /\ judged \in SUBSET Targets /\ hearsay \in SUBSET Targets

\* What the comparison of times in markTargetUpToDate relies on: the time of an
\* out-of-date target is that of its last invalidation.
JudgeInv ==
    \A t \in Targets :
        /\ status[t] = "OutOfDate" => touch[t] = inval[t]
        /\ status[t] = "Unknown" => inval[t] = 0
        /\ status[t] \in {"UpToDate", "UpToDateWithError"} => t \in judged \cup hearsay

\* Only the proxy's spy file lets a build hear another.
HearsayInv == hearsay # {} => proxy

\* Identifiers that were not given out yet belong to no build.
FreshInv == \A b \in Watches : b > buildId => build[b].phase = "none"

IInv == TypeOK /\ JudgeInv /\ HearsayInv /\ FreshInv /\ ActiveIsBuilding

\* How a step may change the status: everything it puts out of date gets one
\* time, of now, and a judgement is that of a build which has its own reasons,
\* or, with the proxy, those of another.
Judges(b) ==
    /\ build[b].phase \in {"preparing", "building", "dying"}
    /\ \E S \in SUBSET Targets, told \in Times :
         /\ told = build[b].start \/ proxy
         /\ \/ MarkUpToDate(S \ build[b].failed, build[b].start, told, "UpToDate")
            \/ MarkUpToDate(S, build[b].start, told, "UpToDateWithError")
StatusStep ==
    \/ UNCHANGED statusVars
    \/ \E S \in SUBSET Targets, now \in Times : now >= clock /\ MarkOutOfDate(S, now)
    \/ \E b \in Builds : Judges(b)

-----------------------------------------------------------------------------
(* The operations of SemanticManager *)

LEMMA ReachIsTargets == ASSUME NEW S, NEW R PROVE Reach(S, R) \in SUBSET Targets
  BY DEF Reach

\* markTargetOutOfDate keeps the times and the history in step.
LEMMA MarkOutKeeps ==
  ASSUME StatusOK, JudgeInv, NEW S \in SUBSET Targets, NEW now \in Times,
         MarkOutOfDate(S, now)
  PROVE  StatusOK' /\ JudgeInv'
  BY DEF StatusOK, JudgeInv, MarkOutOfDate, Statuses

\* markTargetUpToDate: a target it accepts was last put out of date no later
\* than the build began, or was judged before.
LEMMA MarkUpKeeps ==
  ASSUME StatusOK, JudgeInv, NEW S \in SUBSET Targets, NEW time \in Times,
         NEW told \in Times, NEW verdict \in {"UpToDate", "UpToDateWithError"},
         MarkUpToDate(S, time, told, verdict)
  PROVE  StatusOK' /\ JudgeInv'
<1> DEFINE T == {t \in S : Accepts(t, time)}
<1>1. /\ status' = [t \in Targets |-> IF t \in T THEN verdict ELSE status[t]]
      /\ touch' = [t \in Targets |-> IF t \in T THEN time ELSE touch[t]]
      /\ judged' = judged \cup {t \in T : told >= inval[t]}
      /\ hearsay' = hearsay \cup {t \in T : time >= inval[t] /\ inval[t] > told}
      /\ inval' = inval
  BY DEF MarkUpToDate
<1>2. \A t \in T : t \in Targets /\ ~(status[t] = "OutOfDate" /\ touch[t] > time)
  BY DEF Accepts
<1>3. StatusOK'
  BY <1>1, <1>2 DEF StatusOK, Statuses
<1>4. ASSUME NEW t \in Targets, t \in T PROVE t \in judged' \cup hearsay'
  <2>1. MaxTime \in Nat /\ time \in Nat /\ told \in Nat /\ inval[t] \in Nat /\ touch[t] \in Nat
    BY GraphAssumption DEF Times, StatusOK
  <2>2. CASE status[t] = "OutOfDate"
    BY <1>1, <1>2, <1>4, <2>1, <2>2 DEF JudgeInv
  <2>3. CASE status[t] = "Unknown"
    BY <1>1, <1>4, <2>1, <2>3 DEF JudgeInv
  <2>4. CASE status[t] \in {"UpToDate", "UpToDateWithError"}
    BY <1>1, <2>4 DEF JudgeInv
  <2> QED BY <2>2, <2>3, <2>4 DEF StatusOK, Statuses
<1>5. JudgeInv'
  <2> SUFFICES ASSUME NEW t \in Targets
               PROVE  /\ status'[t] = "OutOfDate" => touch'[t] = inval'[t]
                      /\ status'[t] = "Unknown" => inval'[t] = 0
                      /\ status'[t] \in {"UpToDate", "UpToDateWithError"} => t \in judged' \cup hearsay'
    BY DEF JudgeInv
  <2>1. CASE t \in T
    BY <1>1, <1>4, <2>1
  <2>2. CASE t \notin T
    BY <1>1, <2>2 DEF JudgeInv
  <2> QED BY <2>1, <2>2
<1> QED BY <1>3, <1>5

-----------------------------------------------------------------------------
(* What each step does to the status *)

LEMMA DependentsAreTargets ==
  /\ \A S : AllDependents(S) \in SUBSET Targets
  /\ \A S, g : DependentsIn(S, g) \in SUBSET Targets
  /\ \A S, skip : AllDependencies(S, skip) \in SUBSET Targets
BY ReachIsTargets, Zenon DEF AllDependents, DependentsIn, AllDependencies

LEMMA VerdictJudges ==
  ASSUME TypeOK, NEW b \in Builds, Verdict(b),
         build[b].phase \in {"preparing", "building", "dying"}
  PROVE  Judges(b)
<1>1. build[b].left \in SUBSET Targets
  BY DEF TypeOK, BuildStates
<1>1a. build[b].start \in Times
  BY DEF TypeOK, BuildStates
<1>2. CASE MarkSuccess(b, b, build[b].left)
  BY <1>1a, <1>2, DependentsAreTargets DEF MarkSuccess, Judges
<1>3. CASE MarkFailure(b, b, build[b].left)
  BY <1>1, <1>1a, <1>3 DEF MarkFailure, Judges
<1> QED BY <1>2, <1>3 DEF Verdict

LEMMA StepKind == ASSUME TypeOK, [Next]_vars PROVE StatusStep
<1> USE DEF semVars, vars, statusVars
<1>1. CASE UNCHANGED vars
  BY <1>1 DEF StatusStep
<1>2. ASSUME NEW f \in Files, Save(f) PROVE StatusStep
  <2>1. clock' \in Times /\ clock' >= clock
    BY <1>2, GraphAssumption DEF Save, Edit, Passes, Times, TypeOK, SemTypeOK
  <2> QED BY <1>2, <2>1, DependentsAreTargets DEF Save, StatusStep
<1>3. ASSUME NEW f \in Files, NEW new \in Graphs, NEW mod \in SUBSET Targets,
             Refresh(new, mod, f)
      PROVE  StatusStep
  <2>1. clock' \in Times /\ clock' >= clock
    BY <1>3, GraphAssumption DEF Refresh, Edit, Passes, Times, TypeOK, SemTypeOK
  <2> QED BY <1>3, <2>1, DependentsAreTargets DEF Refresh, RefreshGraph, StatusStep
<1>4. ASSUME NEW f \in Files, NEW m \in BOOLEAN, Trigger(f, m) PROVE StatusStep
  BY <1>4 DEF Trigger, StatusStep
<1>5. ASSUME NEW b \in Builds,
             Retry(b) \/ Start(b) \/ Begin(b) \/ Spawn(b) \/ CancelWork(b)
               \/ Terminate(b) \/ FallsSilent(b)
      PROVE  StatusStep
  BY <1>5 DEF Retry, Start, Begin, Spawn, CancelWork, Terminate, FallsSilent, StatusStep
<1>6. ASSUME NEW b \in Builds, Finish(b) PROVE StatusStep
  BY <1>6, VerdictJudges DEF Finish, StatusStep
<1>7. ASSUME NEW b \in Builds, TerminateUnspawned(b) PROVE StatusStep
  BY <1>7, VerdictJudges DEF TerminateUnspawned, Verdict, StatusStep
<1>7a. ASSUME NEW b \in Builds, NEW c \in Builds, NEW t \in Targets, Reports(b, c, t)
       PROVE  /\ build[b].phase \in {"preparing", "building", "dying"}
              /\ build[c].start \in Times /\ (build[c].start = build[b].start \/ proxy)
  BY <1>7a DEF Reports, HearsItself, Overhears, TypeOK, BuildStates
<1>8. ASSUME NEW b \in Builds, NEW c \in Builds, NEW t \in Targets, TargetSucceeds(b, c, t)
      PROVE  StatusStep
  BY <1>7a, <1>8, DependentsAreTargets DEF TargetSucceeds, MarkSuccess, Judges, StatusStep
<1>9. ASSUME NEW b \in Builds, NEW c \in Builds, NEW t \in Targets, TargetFails(b, c, t)
      PROVE  StatusStep
  BY <1>7a, <1>9 DEF TargetFails, MarkFailure, Judges, StatusStep
<1>10. ASSUME NEW b \in Builds, NEW from, NEW to, Dependency(b, from, to) PROVE StatusStep
  BY <1>10 DEF Dependency, StatusStep
<1>11. CASE UserCommand
  BY <1>11 DEF UserCommand, StatusStep
<1>12. CASE UserEnds
  <2>1. /\ clock \in Times /\ clock >= clock
        /\ {t \in Targets : status[t] # "Unknown"} \in SUBSET Targets
    BY GraphAssumption DEF TypeOK, SemTypeOK, Times
  <2> QED BY <1>12, <2>1 DEF UserEnds, MarkAllOutOfDate, StatusStep
<1>12a. ASSUME NEW f \in Files, UserAutocomplete(f) PROVE StatusStep
  BY <1>12a DEF UserAutocomplete, StatusStep
<1>13. Watches \subseteq Builds
  BY DEF Builds
<1> QED
  BY <1>1, <1>2, <1>3, <1>4, <1>5, <1>6, <1>7, <1>8, <1>9, <1>10, <1>11, <1>12,
     <1>12a, <1>13, Zenon DEF Next

LEMMA ProxyStays == ASSUME [Next]_vars PROVE proxy' = proxy
<1>1. CASE UNCHANGED vars
  BY <1>1 DEF vars
<1>2. ASSUME NEW f \in Files PROVE Save(f) \/ UserAutocomplete(f) => proxy' = proxy
  BY DEF Save, UserAutocomplete
<1>3. ASSUME NEW f \in Files, NEW new, NEW m PROVE Refresh(new, m, f) => proxy' = proxy
  BY DEF Refresh
<1>4. ASSUME NEW f \in Files, NEW m PROVE Trigger(f, m) => proxy' = proxy
  BY DEF Trigger
<1>5. ASSUME NEW b
      PROVE  Retry(b) \/ Start(b) \/ Begin(b) \/ Spawn(b) \/ CancelWork(b) \/ Finish(b)
               \/ Terminate(b) \/ TerminateUnspawned(b) \/ FallsSilent(b) => proxy' = proxy
  BY DEF Retry, Start, Begin, Spawn, CancelWork, Finish, Terminate, TerminateUnspawned,
         FallsSilent
<1>6. ASSUME NEW b, NEW c, NEW t
      PROVE  TargetSucceeds(b, c, t) \/ TargetFails(b, c, t) \/ Dependency(b, c, t)
               => proxy' = proxy
  BY DEF TargetSucceeds, TargetFails, Dependency
<1>7. UserCommand \/ UserEnds => proxy' = proxy
  BY DEF UserCommand, UserEnds
<1> QED BY <1>1, <1>2, <1>3, <1>4, <1>5, <1>6, <1>7, Zenon DEF Next

\* Whatever the step is, the history stays in step with the times.
LEMMA StepKeepsStatus ==
  ASSUME TypeOK, JudgeInv, HearsayInv, [Next]_vars
  PROVE  StatusOK' /\ JudgeInv' /\ HearsayInv'
<1>1. StatusOK
  BY DEF TypeOK, SemTypeOK, StatusOK
<1>2. CASE UNCHANGED statusVars
  BY <1>1, <1>2, ProxyStays DEF statusVars, StatusOK, JudgeInv, HearsayInv
<1>3. CASE \E S \in SUBSET Targets, now \in Times : now >= clock /\ MarkOutOfDate(S, now)
  <2>1. StatusOK' /\ JudgeInv'
    BY <1>1, <1>3, MarkOutKeeps
  <2> QED BY <1>3, <2>1, ProxyStays DEF MarkOutOfDate, HearsayInv
<1>4. ASSUME NEW b \in Builds, Judges(b) PROVE StatusOK' /\ JudgeInv' /\ HearsayInv'
  <2>1. build[b].start \in Times
    BY DEF TypeOK, BuildStates
  <2>2. PICK S \in SUBSET Targets, told \in Times :
          /\ told = build[b].start \/ proxy
          /\ \/ MarkUpToDate(S \ build[b].failed, build[b].start, told, "UpToDate")
             \/ MarkUpToDate(S, build[b].start, told, "UpToDateWithError")
    BY <1>4 DEF Judges
  <2>3. PICK R \in SUBSET Targets, verdict \in {"UpToDate", "UpToDateWithError"} :
          MarkUpToDate(R, build[b].start, told, verdict)
    <3>1. S \ build[b].failed \in SUBSET Targets
      OBVIOUS
    <3> QED BY <2>2, <3>1
  <2>4. StatusOK' /\ JudgeInv'
    BY <1>1, <2>1, <2>3, MarkUpKeeps
  <2>5. told = build[b].start => hearsay' = hearsay
    <3>1. \A t \in R : inval[t] \in Nat
      BY <1>1, GraphAssumption DEF StatusOK, Times
    <3>2. build[b].start \in Nat
      BY <2>1, GraphAssumption DEF Times
    <3> QED BY <2>3, <3>1, <3>2 DEF MarkUpToDate
  <2> QED BY <2>2, <2>4, <2>5, ProxyStays DEF HearsayInv
<1> QED BY <1>2, <1>3, <1>4, StepKind DEF StatusStep

-----------------------------------------------------------------------------
(* Types *)

\* What TypeOK says of the rest.
GraphOK ==
    /\ clock \in Times
    /\ graph \in SUBSET Targets
    /\ implicit \in SUBSET (Targets \X Targets)
    /\ inverse \in SUBSET (Targets \X Targets)
WatchOK ==
    /\ edits \in 0 .. MaxEdits
    /\ pending \in SUBSET Files
    /\ buildId \in 0 .. MaxWatches
    /\ active \in SUBSET Targets
    /\ watchTouch \in Times
    /\ userBusy \in BOOLEAN /\ proxy \in BOOLEAN /\ cleaned \in BOOLEAN
BuildOK == build \in [Builds -> BuildStates]

LEMMA TypeParts == TypeOK <=> StatusOK /\ GraphOK /\ WatchOK /\ BuildOK
BY DEF TypeOK, SemTypeOK, StatusOK, GraphOK, WatchOK, BuildOK

LEMMA NumbersOK ==
  /\ MaxTime \in Nat \ {0} /\ MaxWatches \in Nat /\ MaxEdits \in Nat
  /\ Scopes \subseteq (SUBSET Targets) \X (SUBSET Targets)
  /\ SchemeTargets \in SUBSET Targets /\ Graphs \subseteq SUBSET Targets
  /\ Watches \subseteq Builds /\ UserBuild \in Builds /\ UserBuild \notin Watches
BY GraphAssumption, WatchAssumption DEF Watches, Builds, UserBuild

\* The clock and the graph stay in their types whatever happens to them.
GraphKind ==
    \/ UNCHANGED <<clock, graphVars>>
    \/ Passes /\ UNCHANGED graphVars
    \/ \E new \in Graphs, mod \in SUBSET Targets : Passes /\ RefreshGraph(new, mod, clock')
    \/ \E from, to : SetImplicitDependency(from, to) /\ clock' = clock

LEMMA GraphKindKeeps == ASSUME GraphOK, GraphKind PROVE GraphOK'
<1> USE NumbersOK DEF GraphOK
<1>1. CASE UNCHANGED <<clock, graphVars>>
  BY <1>1 DEF graphVars
<1>2. CASE Passes /\ UNCHANGED graphVars
  BY <1>2 DEF graphVars, Passes, Times
<1>3. ASSUME NEW new \in Graphs, NEW mod \in SUBSET Targets, Passes,
             RefreshGraph(new, mod, clock')
      PROVE  GraphOK'
  BY <1>3 DEF RefreshGraph, Passes, Times
<1>4. ASSUME NEW from, NEW to, SetImplicitDependency(from, to), clock' = clock PROVE GraphOK'
  <2>1. CASE {from, to} \subseteq graph /\ <<from, to>> \notin Deps
    BY <1>4, <2>1 DEF SetImplicitDependency
  <2>2. CASE ~({from, to} \subseteq graph /\ <<from, to>> \notin Deps)
    BY <1>4, <2>2 DEF SetImplicitDependency
  <2> QED BY <2>1, <2>2
<1> QED
  BY <1>1, <1>2, <1>3, <1>4 DEF GraphKind

LEMMA BlankOK ==
  \A p \in {"none", "retrying", "waiting", "ended"} : Blank(p) \in BuildStates
BY NumbersOK DEF Blank, BuildStates, Times

\* One field of a build at a time.
LEMMA FieldsOK ==
  ASSUME NEW r \in BuildStates
  PROVE  /\ \A p \in {"none", "retrying", "waiting", "starting", "preparing", "building",
                      "dying", "ended"} : [r EXCEPT !.phase = p] \in BuildStates
         /\ \A S \in SUBSET Targets : /\ [r EXCEPT !.want = S] \in BuildStates
                                      /\ [r EXCEPT !.left = S] \in BuildStates
                                      /\ [r EXCEPT !.failed = S] \in BuildStates
                                      /\ [r EXCEPT !.marked = S] \in BuildStates
         /\ \A x \in BOOLEAN : /\ [r EXCEPT !.cancelled = x] \in BuildStates
                               /\ [r EXCEPT !.stopped = x] \in BuildStates
                               /\ [r EXCEPT !.auto = x] \in BuildStates
         /\ \A n \in Times : [r EXCEPT !.start = n] \in BuildStates
BY DEF BuildStates

\* A build that begins, and one that will be for completion.
Begun(r, W, now) ==
    [r EXCEPT !.phase = "preparing", !.start = now, !.want = W, !.left = W]
ForCompletion(r, W) == [r EXCEPT !.auto = TRUE, !.want = W]

LEMMA BegunOK ==
  ASSUME NEW r \in BuildStates, NEW W \in SUBSET Targets, NEW now \in Times
  PROVE  /\ Begun(r, W, now) \in BuildStates
         /\ Begun(r, W, now).phase = "preparing" /\ Begun(r, W, now).want = W
         /\ Begun(r, W, now).left = W /\ Begun(r, W, now).marked = r.marked
         /\ Begun(r, W, now).failed = r.failed /\ Begun(r, W, now).auto = r.auto
BY DEF BuildStates, Begun

LEMMA ForCompletionOK ==
  ASSUME NEW r \in BuildStates, NEW W \in SUBSET Targets
  PROVE  ForCompletion(r, W) \in BuildStates
BY DEF BuildStates, ForCompletion

LEMMA RequestKeeps ==
  ASSUME BuildOK, NEW b \in Watches, NEW S \in SUBSET Targets, Request(b, S)
  PROVE  BuildOK'
<1>1. \A p \in {"retrying", "waiting"} :
        [Blank(p) EXCEPT !.want = S, !.auto = TRUE] \in BuildStates
  BY BlankOK DEF BuildStates
<1> QED BY <1>1, NumbersOK, FieldsOK DEF BuildOK, Request, Cancelled

LEMMA LeaveKeeps ==
  ASSUME BuildOK, WatchOK, NEW b \in Builds, NEW p \in {"dying", "ended"}, Leave(b, p)
  PROVE  BuildOK' /\ active' \in SUBSET Targets /\ userBusy' \in BOOLEAN
BY NumbersOK, BlankOK, FieldsOK DEF BuildOK, Leave, WatchOK

Types == GraphOK /\ WatchOK /\ BuildOK

\* A build wants targets, whatever its task includes and excludes.
LEMMA BeginWants ==
  ASSUME BuildOK, GraphOK, NEW b \in Builds, Begin(b)
  PROVE  \E W \in SUBSET Targets :
           /\ build' = [build EXCEPT ![b] = Begun(build[b], W, clock)]
           /\ build[b].auto => active' = W /\ watchTouch' = clock
           /\ ~build[b].auto => UNCHANGED <<active, watchTouch>>
<1> DEFINE W(scope) == IF build[b].auto
                       THEN ((scope[1] \cap graph) \cup build[b].want) \ (scope[2] \cap graph)
                       ELSE SchemeTargets
<1>1. \A scope \in Scopes : W(scope) \in SUBSET Targets
  BY NumbersOK DEF BuildOK, BuildStates, GraphOK
<1>2. PICK scope \in Scopes :
        /\ build' = [build EXCEPT ![b].phase = "preparing", ![b].start = clock,
                                  ![b].want = W(scope), ![b].left = W(scope)]
        /\ IF build[b].auto THEN active' = W(scope) /\ watchTouch' = clock
                            ELSE UNCHANGED <<active, watchTouch>>
  BY DEF Begin
<1>3. build' = [build EXCEPT ![b] = Begun(build[b], W(scope), clock)]
  BY <1>2, Zenon DEF Begun
<1> HIDE DEF W
<1> QED BY <1>1, <1>2, <1>3

LEMMA StepKeepsTypes == ASSUME Types, [Next]_vars PROVE Types'
<1> USE NumbersOK
<1>0. /\ \A b \in Builds : build[b] \in BuildStates
      /\ \A b \in Builds : build[b].want \in SUBSET Targets /\ build[b].left \in SUBSET Targets
  BY DEF Types, BuildOK, BuildStates
<1>1. CASE UNCHANGED vars
  BY <1>1 DEF Types, GraphOK, WatchOK, BuildOK, vars, semVars, graphVars, watchVars
<1>2. ASSUME NEW f \in Files, Save(f) PROVE Types'
  <2>1. GraphOK'
    BY <1>2, GraphKindKeeps DEF Save, Edit, GraphKind, Types
  <2>2. WatchOK' /\ BuildOK'
    BY <1>2 DEF Save, Edit, Types, WatchOK, BuildOK
  <2> QED BY <2>1, <2>2 DEF Types
<1>3. ASSUME NEW f \in Files, NEW new \in Graphs, NEW mod \in SUBSET Targets,
             Refresh(new, mod, f)
      PROVE  Types'
  <2>1. GraphOK'
    BY <1>3, GraphKindKeeps DEF Refresh, Edit, GraphKind, Types
  <2>2. WatchOK' /\ BuildOK'
    BY <1>3 DEF Refresh, Edit, Types, WatchOK, BuildOK
  <2> QED BY <2>1, <2>2 DEF Types
<1>4. ASSUME NEW f \in Files, NEW m \in BOOLEAN, Trigger(f, m) PROVE Types'
  <2>1. GraphOK'
    BY <1>4, GraphKindKeeps DEF Trigger, GraphKind, Types, semVars
  <2>2. pending' \in SUBSET Files
    BY <1>4 DEF Trigger, Types, WatchOK
  <2>3. CASE LeftTargets(f, m) = {}
    BY <1>4, <2>1, <2>2, <2>3 DEF Trigger, Types, WatchOK, BuildOK
  <2>4. CASE LeftTargets(f, m) # {}
    <3>1. buildId' = buildId + 1 /\ buildId < MaxWatches
      BY <1>4, <2>4 DEF Trigger
    <3>2. buildId' \in Watches /\ buildId' \in 0 .. MaxWatches
      BY <3>1 DEF Types, WatchOK, Watches
    <3>3. active \cup LeftTargets(f, m) \in SUBSET Targets
      BY DEF Types, WatchOK, LeftTargets, NeedsBuild, FileTargets, GraphOK
    <3>4. BuildOK'
      <4>1. Request(buildId', active \cup LeftTargets(f, m))
        BY <1>4, <2>4 DEF Trigger
      <4> HIDE DEF Request
      <4> QED BY <3>2, <3>3, <4>1, RequestKeeps DEF Types
    <3> QED BY <1>4, <2>1, <2>2, <3>2, <3>4 DEF Trigger, Types, WatchOK
  <2> QED BY <2>3, <2>4
<1>5. ASSUME NEW b \in Watches, Retry(b) PROVE Types'
  <2>1. GraphOK' /\ WatchOK'
    BY <1>5 DEF Retry, Types, GraphOK, WatchOK, semVars, graphVars, watchVars
  <2>2. BuildOK'
    BY <1>0, <1>5, RequestKeeps, BlankOK DEF Retry, Types, BuildOK
  <2> QED BY <2>1, <2>2 DEF Types
<1>6. ASSUME NEW b \in Builds, Start(b) \/ CancelWork(b) \/ FallsSilent(b) PROVE Types'
  <2>1. GraphOK' /\ WatchOK'
    BY <1>6 DEF Start, CancelWork, FallsSilent, Types, GraphOK, WatchOK, semVars,
                graphVars, watchVars
  <2>2. CASE CancelWork(b)
    BY <1>0, <2>1, <2>2, FieldsOK DEF CancelWork, Cancelled, Types, BuildOK
  <2>3. CASE FallsSilent(b)
    BY <2>1, <2>3, BlankOK DEF FallsSilent, Types, BuildOK
  <2>4. CASE Start(b)
    <3>1. build' = [build EXCEPT ![b].phase = "starting"]
            \/ build' = [build EXCEPT ![b] = Blank("ended")]
      BY <2>4 DEF Start, Move
    <3> QED BY <1>0, <2>1, <3>1, FieldsOK, BlankOK, ZenonT(60) DEF Types, BuildOK
  <2> QED BY <1>6, <2>2, <2>3, <2>4
<1>7. ASSUME NEW b \in Builds, Begin(b) PROVE Types'
  <2>1. PICK W \in SUBSET Targets :
          /\ build' = [build EXCEPT ![b] = Begun(build[b], W, clock)]
          /\ build[b].auto => active' = W /\ watchTouch' = clock
          /\ ~build[b].auto => UNCHANGED <<active, watchTouch>>
    BY <1>7, BeginWants DEF Types
  <2>2. clock \in Times
    BY DEF Types, GraphOK
  <2>3. GraphOK' /\ WatchOK'
    BY <1>7, <2>1, <2>2 DEF Begin, Types, GraphOK, WatchOK, semVars, graphVars
  <2>4. BuildOK'
    <3>1. Begun(build[b], W, clock) \in BuildStates
      BY <1>0, <2>2, BegunOK
    <3>2. build \in [Builds -> BuildStates]
      BY DEF Types, BuildOK
    <3> QED BY <2>1, <3>1, <3>2 DEF BuildOK
  <2> QED BY <2>3, <2>4 DEF Types
<1>8. ASSUME NEW b \in Builds, Spawn(b) PROVE Types'
  <2>1. GraphOK'
    BY <1>8, GraphKindKeeps DEF Spawn, GraphKind, Types
  <2>2. WatchOK' /\ BuildOK'
    BY <1>0, <1>8, FieldsOK DEF Spawn, Move, Types, WatchOK, BuildOK, watchVars
  <2> QED BY <2>1, <2>2 DEF Types
<1>9. ASSUME NEW b \in Builds, Finish(b) \/ Terminate(b) \/ TerminateUnspawned(b) PROVE Types'
  <2>1. PICK p \in {"dying", "ended"} : Leave(b, p)
    BY <1>9 DEF Finish, Terminate, TerminateUnspawned
  <2>2. GraphOK'
    BY <1>9 DEF Finish, Terminate, TerminateUnspawned, Types, GraphOK, semVars, graphVars
  <2>3. cleaned' \in BOOLEAN /\ UNCHANGED <<edits, pending, buildId, watchTouch, proxy>>
    <3>1. cleaned \in BOOLEAN
      BY DEF Types, WatchOK
    <3> QED BY <1>9, <3>1 DEF Finish, Terminate, TerminateUnspawned
  <2>4. BuildOK' /\ active' \in SUBSET Targets /\ userBusy' \in BOOLEAN
    BY <2>1, LeaveKeeps DEF Types
  <2> QED BY <2>2, <2>3, <2>4 DEF Types, WatchOK
<1>10. ASSUME NEW b \in Builds, NEW c \in Builds, NEW t \in Targets,
              TargetSucceeds(b, c, t) \/ TargetFails(b, c, t)
       PROVE  Types'
  <2>1. GraphOK' /\ WatchOK'
    BY <1>10 DEF TargetSucceeds, TargetFails, Types, GraphOK, WatchOK, graphVars, watchVars
  <2>2. \A l : StopsAt(b, l) \in BOOLEAN
    BY DEF StopsAt
  <2>3. BuildOK'
    BY <1>0, <1>10, <2>2, DependentsAreTargets
       DEF TargetSucceeds, TargetFails, Types, BuildOK, BuildStates
  <2> QED BY <2>1, <2>3 DEF Types
<1>11. ASSUME NEW b \in Builds, NEW from, NEW to, Dependency(b, from, to) PROVE Types'
  <2>1. GraphOK'
    BY <1>11, GraphKindKeeps DEF Dependency, GraphKind, Types
  <2>2. \A l : StopsAt(b, l) \in BOOLEAN
    BY DEF StopsAt
  <2>3. WatchOK' /\ BuildOK'
    BY <1>0, <1>11, <2>2, FieldsOK DEF Dependency, Types, WatchOK, BuildOK, watchVars
  <2> QED BY <2>1, <2>3 DEF Types
<1>12. CASE UserCommand \/ UserEnds
  <2>1. GraphOK' /\ WatchOK'
    BY <1>12 DEF UserCommand, UserEnds, Types, GraphOK, WatchOK, semVars, graphVars, watchVars
  <2>2. BuildOK'
    <3>1. CASE UserCommand
      BY <1>0, <3>1, BlankOK, FieldsOK DEF UserCommand, Types, BuildOK, Cancelled
    <3>2. CASE UserEnds
      BY <1>0, <3>2, BlankOK, FieldsOK DEF UserEnds, Types, BuildOK, Cancelled
    <3> QED BY <1>12, <3>1, <3>2
  <2> QED BY <2>1, <2>2 DEF Types
<1>13. ASSUME NEW f \in Files, UserAutocomplete(f) PROVE Types'
  <2>1. GraphOK'
    BY <1>13, GraphKindKeeps DEF UserAutocomplete, GraphKind, Types, semVars
  <2>2. WatchOK'
    BY <1>13 DEF UserAutocomplete, Types, WatchOK
  <2>3. active \cup LeftTargets(f, TRUE) \in SUBSET Targets
    BY DEF Types, WatchOK, LeftTargets, NeedsBuild, FileTargets, GraphOK
  <2>4. BuildOK'
    <3> DEFINE W == active \cup LeftTargets(f, TRUE)
    <3>1. ForCompletion(build[UserBuild], W) \in BuildStates
      BY <1>0, <2>3, ForCompletionOK
    <3>2. build' = [build EXCEPT ![UserBuild] = ForCompletion(build[UserBuild], W)]
      BY <1>13, Zenon DEF UserAutocomplete, ForCompletion
    <3> HIDE DEF W
    <3> QED BY <3>1, <3>2 DEF Types, BuildOK
  <2> QED BY <2>1, <2>2, <2>4 DEF Types
<1> QED
  BY <1>1, <1>2, <1>3, <1>4, <1>5, <1>6, <1>7, <1>8, <1>9, <1>10, <1>11, <1>12, <1>13, Zenon
  DEF Next

-----------------------------------------------------------------------------
(* Requests, builds and the set the watcher announces *)

AnnouncedPhases == {"preparing", "building"}

Announces(b) == build[b].phase \in AnnouncedPhases /\ build[b].auto

\* A step that announces nothing: it leaves alone
\* the builds that do not exist yet, and the announced one unless it withdraws
\* the announcement.
Quiet ==
    /\ buildId' \in {buildId, buildId + 1}
    /\ active' \in {active, {}}
    /\ \A w \in Watches : w > buildId' /\ build[w].phase = "none" => build'[w].phase = "none"
    /\ \A w \in Builds :
         active' # {} /\ Announces(w)
           => Announces(w)' /\ build'[w].want = build[w].want

LEMMA QuietKeeps ==
  ASSUME WatchOK, FreshInv, ActiveIsBuilding, Quiet PROVE FreshInv' /\ ActiveIsBuilding'
<1>1. FreshInv'
  BY DEF WatchOK, Watches, FreshInv, Quiet
<1>2. ActiveIsBuilding'
  <2> SUFFICES ASSUME active' # {} PROVE ActiveIsBuilding'
    BY DEF ActiveIsBuilding
  <2>1. active' = active
    BY DEF Quiet
  <2>2. PICK b \in Builds : Announces(b) /\ active = build[b].want
    BY <2>1 DEF ActiveIsBuilding, Announces, AnnouncedPhases
  <2>3. Announces(b)' /\ active' = build'[b].want
    BY <2>1, <2>2 DEF Quiet
  <2> QED BY <2>3 DEF ActiveIsBuilding, Announces, AnnouncedPhases
<1> QED BY <1>1, <1>2

\* A request leaves other builds where they are, at most it cancels them.
LEMMA RequestIsQuiet ==
  ASSUME BuildOK, NEW b \in Watches, NEW S, Request(b, S)
  PROVE  \A w \in Builds \ {b} :
           /\ build'[w].phase = build[w].phase /\ build'[w].want = build[w].want
           /\ build'[w].auto = build[w].auto
BY NumbersOK DEF BuildOK, BuildStates, Request, Cancelled

LEMMA LeaveIsQuiet ==
  ASSUME BuildOK, NEW b \in Builds, NEW p, Leave(b, p), build[b].phase \in AnnouncedPhases,
         buildId' = buildId
  PROVE  Quiet
BY NumbersOK DEF BuildOK, BuildStates, Leave, Quiet, Announces, AnnouncedPhases

LEMMA StepKeepsBuilds ==
  ASSUME Types, FreshInv, ActiveIsBuilding, [Next]_vars
  PROVE  FreshInv' /\ ActiveIsBuilding'
<1> USE NumbersOK
<1>0. \A b \in Builds : build[b] \in BuildStates
  BY DEF Types, BuildOK
<1>1. CASE UNCHANGED vars
  BY <1>1, QuietKeeps DEF Quiet, Announces, Types, vars, watchVars
<1>2. ASSUME NEW f \in Files, Save(f) PROVE FreshInv' /\ ActiveIsBuilding'
  BY <1>2, QuietKeeps DEF Save, Quiet, Announces, Types
<1>3. ASSUME NEW f \in Files, NEW new, NEW mod, Refresh(new, mod, f)
      PROVE  FreshInv' /\ ActiveIsBuilding'
  BY <1>3, QuietKeeps DEF Refresh, Quiet, Announces, Types
<1>4. ASSUME NEW f \in Files, NEW m \in BOOLEAN, Trigger(f, m)
      PROVE  FreshInv' /\ ActiveIsBuilding'
  <2>1. active' = active
    BY <1>4 DEF Trigger
  <2>2. CASE LeftTargets(f, m) = {}
    BY <1>4, <2>1, <2>2, QuietKeeps DEF Trigger, Quiet, Announces, Types
  <2>3. CASE LeftTargets(f, m) # {}
    <3>1. /\ buildId' = buildId + 1 /\ buildId < MaxWatches
          /\ Request(buildId', active \cup LeftTargets(f, m))
      BY <1>4, <2>3 DEF Trigger
    <3>2. buildId' \in Watches /\ buildId \in Nat
      BY <3>1 DEF Types, WatchOK, Watches
    <3>3. \A w \in Builds \ {buildId'} :
            /\ build'[w].phase = build[w].phase /\ build'[w].want = build[w].want
            /\ build'[w].auto = build[w].auto
      BY <3>1, <3>2, RequestIsQuiet DEF Types
    <3>4. FreshInv'
      BY <3>1, <3>2, <3>3 DEF FreshInv, Watches
    <3>5. build[buildId'].phase = "none"
      BY <3>1, <3>2 DEF FreshInv
    <3>6. ActiveIsBuilding'
      BY <2>1, <3>3, <3>5 DEF ActiveIsBuilding
    <3> QED BY <3>4, <3>6
  <2> QED BY <2>2, <2>3
<1>5. ASSUME NEW b \in Watches, Retry(b) PROVE FreshInv' /\ ActiveIsBuilding'
  <2>1. /\ build[b].phase = "retrying"
        /\ buildId' = buildId /\ active' = active
    BY <1>5 DEF Retry, watchVars
  <2>2. \A w \in Builds \ {b} :
          /\ build'[w].phase = build[w].phase /\ build'[w].want = build[w].want
          /\ build'[w].auto = build[w].auto
    <3>1. CASE Request(b, build[b].want)
      BY <3>1, RequestIsQuiet DEF Types
    <3>2. CASE build' = [build EXCEPT ![b] = Blank("ended")]
      BY <3>2 DEF Types, BuildOK
    <3> QED BY <1>5, <3>1, <3>2 DEF Retry
  <2>3. Quiet
    BY <2>1, <2>2 DEF Quiet, Announces, AnnouncedPhases
  <2> QED BY <2>3, QuietKeeps DEF Types
<1>6. ASSUME NEW b \in Builds, Start(b) \/ CancelWork(b) \/ FallsSilent(b) \/ Spawn(b)
      PROVE  FreshInv' /\ ActiveIsBuilding'
  <2>1. CASE Start(b)
    BY <1>0, <2>1, QuietKeeps
       DEF Start, Move, Quiet, Announces, AnnouncedPhases, watchVars, Types, BuildOK, BuildStates
  <2>2. CASE CancelWork(b)
    BY <1>0, <2>2, QuietKeeps
       DEF CancelWork, Cancelled, Quiet, Announces, AnnouncedPhases, watchVars, Types, BuildOK, BuildStates
  <2>3. CASE FallsSilent(b)
    BY <1>0, <2>3, QuietKeeps
       DEF FallsSilent, Quiet, Announces, AnnouncedPhases, watchVars, Types, BuildOK, BuildStates
  <2>4. CASE Spawn(b)
    BY <1>0, <2>4, QuietKeeps
       DEF Spawn, Move, Quiet, Announces, AnnouncedPhases, watchVars, Types, BuildOK, BuildStates
  <2> QED BY <1>6, <2>1, <2>2, <2>3, <2>4
<1>7. ASSUME NEW b \in Builds, Begin(b) PROVE FreshInv' /\ ActiveIsBuilding'
  <2>1. /\ build[b].phase = "starting" /\ buildId' = buildId
        /\ \A w \in Builds \ {b} : build'[w] = build[w]
        /\ build'[b].phase = "preparing" /\ build'[b].auto = build[b].auto
    BY <1>0, <1>7 DEF Begin, Types, BuildOK, BuildStates
  <2>2. FreshInv'
    BY <2>1 DEF FreshInv
  <2>3. CASE ~build[b].auto
    <3>1. active' = active
      BY <1>7, <2>3, BeginWants DEF Types
    <3> QED BY <2>1, <2>2, <2>3, <3>1 DEF ActiveIsBuilding
  <2>4. CASE build[b].auto
    <3>1. PICK W \in SUBSET Targets :
            build' = [build EXCEPT ![b] = Begun(build[b], W, clock)] /\ active' = W
      BY <1>7, <2>4, BeginWants DEF Types
    <3>2. build'[b].want = W
      <4>1. clock \in Times /\ build'[b] = Begun(build[b], W, clock)
        BY <3>1 DEF Types, GraphOK, BuildOK
      <4> QED BY <1>0, <4>1, BegunOK
    <3> QED BY <2>1, <2>2, <2>4, <3>1, <3>2 DEF ActiveIsBuilding
  <2> QED BY <2>3, <2>4
<1>8. ASSUME NEW b \in Builds, Finish(b) \/ Terminate(b) \/ TerminateUnspawned(b)
      PROVE  FreshInv' /\ ActiveIsBuilding'
  <2>1. PICK p : Leave(b, p)
    BY <1>8 DEF Finish, Terminate, TerminateUnspawned
  <2>2. build[b].phase \in AnnouncedPhases /\ buildId' = buildId
    BY <1>8 DEF Finish, Terminate, TerminateUnspawned, AnnouncedPhases
  <2> QED BY <2>1, <2>2, LeaveIsQuiet, QuietKeeps DEF Types
<1>9. ASSUME NEW b \in Builds, NEW c \in Builds, NEW t \in Targets,
             TargetSucceeds(b, c, t) \/ TargetFails(b, c, t)
      PROVE  FreshInv' /\ ActiveIsBuilding'
  <2>1. /\ \A w \in Builds : /\ build'[w].phase = build[w].phase
                            /\ build'[w].want = build[w].want /\ build'[w].auto = build[w].auto
        /\ buildId' = buildId /\ active' = active
    BY <1>0, <1>9
       DEF TargetSucceeds, TargetFails, watchVars, Types, BuildOK, BuildStates
  <2> QED BY <2>1, QuietKeeps DEF Quiet, Announces, Types
<1>10. ASSUME NEW b \in Builds, NEW from, NEW to, Dependency(b, from, to)
       PROVE  FreshInv' /\ ActiveIsBuilding'
  <2>1. /\ \A w \in Builds : /\ build'[w].phase = build[w].phase
                            /\ build'[w].want = build[w].want /\ build'[w].auto = build[w].auto
        /\ buildId' = buildId /\ active' = active
    BY <1>0, <1>10 DEF Dependency, watchVars, Types, BuildOK, BuildStates
  <2> QED BY <2>1, QuietKeeps DEF Quiet, Announces, Types
<1>11. CASE UserCommand
  <2>1. /\ \A w \in Watches : build'[w].phase = build[w].phase
        /\ \A w \in Builds \ {UserBuild} :
             /\ build'[w].phase = build[w].phase /\ build'[w].want = build[w].want
             /\ build'[w].auto = build[w].auto
        /\ build[UserBuild].phase = "none" /\ buildId' = buildId /\ active' = active
    BY <1>0, <1>11 DEF UserCommand, Cancelled, watchVars, Types, BuildOK, BuildStates
  <2> QED BY <2>1, QuietKeeps DEF Quiet, Announces, AnnouncedPhases, Types
<1>12. CASE UserEnds
  <2>1. /\ \A w \in Builds \ {UserBuild} : build'[w] = build[w]
        /\ build[UserBuild].phase = "starting" /\ buildId' = buildId /\ active' = active
    BY <1>0, <1>12 DEF UserEnds, watchVars, Types, BuildOK
  <2> QED BY <2>1, QuietKeeps DEF Quiet, Announces, AnnouncedPhases, Types
<1>13. ASSUME NEW f \in Files, UserAutocomplete(f) PROVE FreshInv' /\ ActiveIsBuilding'
  <2>1. /\ \A w \in Builds \ {UserBuild} : build'[w] = build[w]
        /\ build[UserBuild].phase = "starting" /\ buildId' = buildId + 1 /\ active' = active
    BY <1>0, <1>13 DEF UserAutocomplete, Types, BuildOK
  <2> QED BY <2>1, QuietKeeps DEF Quiet, Announces, AnnouncedPhases, Types
<1> QED
  BY <1>1, <1>2, <1>3, <1>4, <1>5, <1>6, <1>7, <1>8, <1>9, <1>10, <1>11, <1>12, <1>13, Zenon
  DEF Next

-----------------------------------------------------------------------------
(* The invariant and what follows from it *)

LEMMA InitIsGood == ASSUME Init PROVE IInv
<1> USE NumbersOK DEF Init, SemInit
<1>1. StatusOK /\ JudgeInv /\ HearsayInv
  <2>1. clock = 1 /\ 0 \in Times /\ clock \in Times
    BY DEF Times
  <2>2. touch \in [Targets -> Times] /\ inval = touch
    BY <2>1
  <2> QED BY <2>2 DEF StatusOK, JudgeInv, HearsayInv, Statuses
<1>2. GraphOK
  BY DEF GraphOK, Times
<1>2a. WatchOK
  <2>1. edits = 0 /\ buildId = 0 /\ watchTouch = 0 /\ pending = {} /\ active = {}
    OBVIOUS
  <2>2. userBusy \in BOOLEAN /\ proxy \in BOOLEAN /\ cleaned \in BOOLEAN
    BY Zenon
  <2>3. edits \in 0 .. MaxEdits /\ buildId \in 0 .. MaxWatches /\ watchTouch \in Times
    BY <2>1 DEF Times
  <2> QED BY <2>1, <2>2, <2>3 DEF WatchOK
<1>3. BuildOK /\ FreshInv
  BY BlankOK DEF BuildOK, FreshInv, Blank
<1>4. ActiveIsBuilding
  BY DEF ActiveIsBuilding
<1> QED BY <1>1, <1>2, <1>2a, <1>3, <1>4, TypeParts DEF IInv

\* Every reachable state satisfies the invariant: types, the history of
\* judgements, unused identifiers and the announced set support each other.
THEOREM Invariance == Spec => []IInv
<1>1. ASSUME IInv, [Next]_vars PROVE IInv'
  <2>1. Types /\ TypeOK /\ JudgeInv /\ HearsayInv /\ FreshInv /\ ActiveIsBuilding
    BY <1>1, TypeParts DEF IInv, Types
  <2>2. Types'
    BY <1>1, <2>1, StepKeepsTypes
  <2>3. StatusOK' /\ JudgeInv' /\ HearsayInv'
    BY <1>1, <2>1, StepKeepsStatus
  <2>4. FreshInv' /\ ActiveIsBuilding'
    BY <1>1, <2>1, StepKeepsBuilds
  <2>5. TypeOK' <=> StatusOK' /\ GraphOK' /\ WatchOK' /\ BuildOK'
    BY DEF TypeOK, SemTypeOK, StatusOK, GraphOK, WatchOK, BuildOK
  <2> QED BY <2>2, <2>3, <2>4, <2>5 DEF IInv, Types
<1> QED BY <1>1, InitIsGood, PTL DEF Spec

\* The variables of the watcher, the builds and the index keep their types
\* whatever saves, reports and cancellations interleave.
THEOREM TypeCorrect == Spec => []TypeOK
<1>1. IInv => TypeOK
  BY DEF IInv
<1> QED BY <1>1, Invariance, PTL

\* markTargetUpToDate never accepts the word of a build that began before the
\* last change which put the target out of date, however late a report comes --
\* unless, with the proxy, a build that began after the change takes it for its own.
THEOREM Judged == Spec => []JudgedByLaterBuild
<1>1. IInv => JudgedByLaterBuild
  BY DEF IInv, JudgeInv, HearsayInv, JudgedByLaterBuild
<1> QED BY <1>1, Invariance, PTL

\* activelyBuildingTargetsIds never names the targets of a build that is over.
THEOREM Active == Spec => []ActiveIsBuilding
<1>1. IInv => ActiveIsBuilding
  BY DEF IInv
<1> QED BY <1>1, Invariance, PTL

\* A target a build saw fail does not become up to date on that build's word.
THEOREM NotOverruled == Spec => FailureIsNotOverruled
<1> DEFINE Safe ==
      \A t \in Targets :
        status'[t] = "UpToDate" /\ status[t] # "UpToDate"
            => \E b \in Builds :
                 /\ build[b].phase \in {"preparing", "building", "dying"}
                 /\ build[b].start = touch'[t] /\ t \notin build[b].failed
<1>1. ASSUME IInv, [Next]_vars PROVE [Safe]_vars
  <2>0. TypeOK /\ StatusOK
    BY <1>1, TypeParts DEF IInv
  <2>1. StatusStep
    BY <1>1, <2>0, StepKind
  <2>2. CASE UNCHANGED statusVars
    BY <2>2 DEF statusVars
  <2>3. CASE \E S \in SUBSET Targets, now \in Times : now >= clock /\ MarkOutOfDate(S, now)
    BY <2>3 DEF MarkOutOfDate
  <2>4. ASSUME NEW b \in Builds, Judges(b) PROVE Safe
    <3>1. build[b].phase \in {"preparing", "building", "dying"}
      BY <2>4 DEF Judges
    <3>2. PICK S \in SUBSET Targets, told \in Times :
            \/ MarkUpToDate(S \ build[b].failed, build[b].start, told, "UpToDate")
            \/ MarkUpToDate(S, build[b].start, told, "UpToDateWithError")
      BY <2>4 DEF Judges
    <3>3. CASE MarkUpToDate(S, build[b].start, told, "UpToDateWithError")
      BY <3>3 DEF MarkUpToDate
    <3>4. CASE MarkUpToDate(S \ build[b].failed, build[b].start, told, "UpToDate")
      BY <3>1, <3>4 DEF MarkUpToDate
    <3> QED BY <3>2, <3>3, <3>4
  <2> QED BY <2>1, <2>2, <2>3, <2>4 DEF StatusStep
<1>2. IInv /\ [Next]_vars => [Safe]_vars
  BY <1>1
<1> QED BY <1>2, Invariance, PTL DEF Spec, FailureIsNotOverruled

LEMMA StepGraphKind == ASSUME [Next]_vars PROVE GraphKind
<1> USE DEF GraphKind
<1>1. CASE UNCHANGED vars
  BY <1>1 DEF vars, semVars
<1>2. ASSUME NEW f \in Files, Save(f) PROVE GraphKind
  BY <1>2 DEF Save, Edit
<1>3. ASSUME NEW f \in Files, NEW new \in Graphs, NEW mod \in SUBSET Targets,
             Refresh(new, mod, f)
      PROVE  GraphKind
  BY <1>3 DEF Refresh, Edit
<1>4. ASSUME NEW f \in Files, NEW m \in BOOLEAN, Trigger(f, m) PROVE GraphKind
  BY <1>4 DEF Trigger, semVars
<1>5. ASSUME NEW b \in Builds,
             Retry(b) \/ Start(b) \/ Begin(b) \/ Spawn(b) \/ CancelWork(b)
               \/ Terminate(b) \/ FallsSilent(b)
      PROVE  GraphKind
  BY <1>5 DEF Retry, Start, Begin, Spawn, CancelWork, Terminate, FallsSilent, semVars
<1>6. ASSUME NEW b \in Builds, Finish(b) \/ TerminateUnspawned(b) PROVE GraphKind
  BY <1>6 DEF Finish, TerminateUnspawned
<1>7. ASSUME NEW b \in Builds, NEW c \in Builds, NEW t \in Targets,
             TargetSucceeds(b, c, t) \/ TargetFails(b, c, t)
      PROVE  GraphKind
  BY <1>7 DEF TargetSucceeds, TargetFails
<1>8. ASSUME NEW b \in Builds, NEW from, NEW to, Dependency(b, from, to) PROVE GraphKind
  BY <1>8 DEF Dependency
<1>9. CASE UserCommand \/ UserEnds
  BY <1>9 DEF UserCommand, UserEnds, semVars
<1>10. ASSUME NEW f \in Files, UserAutocomplete(f) PROVE GraphKind
  BY <1>10 DEF UserAutocomplete, semVars
<1> QED
  BY <1>1, <1>2, <1>3, <1>4, <1>5, <1>6, <1>7, <1>8, <1>9, <1>10, NumbersOK, Zenon DEF Next

\* Whatever dependency a build teaches can be followed back by invalidation,
\* also after the graph was loaded again.
THEOREM Inverted == Spec => []ImplicitIsInverted
<1>1. Init => ImplicitIsInverted
  BY DEF Init, SemInit, ImplicitIsInverted
<1>2. ASSUME ImplicitIsInverted, [Next]_vars PROVE ImplicitIsInverted'
  <2>1. GraphKind
    BY <1>2, StepGraphKind
  <2>2. CASE UNCHANGED graphVars
    BY <1>2, <2>2 DEF graphVars, ImplicitIsInverted
  <2>3. ASSUME NEW new, NEW mod, RefreshGraph(new, mod, clock') PROVE ImplicitIsInverted'
    BY <1>2, <2>3 DEF RefreshGraph, ImplicitIsInverted
  <2>4. ASSUME NEW from, NEW to, SetImplicitDependency(from, to) PROVE ImplicitIsInverted'
    BY <1>2, <2>4 DEF SetImplicitDependency, ImplicitIsInverted
  <2> QED BY <2>1, <2>2, <2>3, <2>4 DEF GraphKind
<1> QED BY <1>1, <1>2, PTL DEF Spec

-----------------------------------------------------------------------------
(* What a build answers for *)

\* The targets a build has spoken of, and that it will not speak of again.
Spoken(b) == (build[b].want \ build[b].left) \cup build[b].marked \cup build[b].failed

\* A build that has not begun has spoken of nothing; what a running build has
\* spoken of is out of date only because of a later change.
Answers(b) ==
    /\ build[b].phase \in {"retrying", "waiting", "starting"}
         => build[b].marked = {} /\ build[b].failed = {}
    /\ build[b].phase \in AnnouncedPhases =>
         /\ build[b].phase = "building" \/ Spoken(b) # {} => build[b].start < clock
         /\ \A t \in Spoken(b) : status[t] # "OutOfDate" \/ touch[t] > build[b].start

AnswerInv == \A b \in Builds : Answers(b)

\* A verdict on a target settles it, unless it changed after the build began,
\* and unsettles no other.
LEMMA MarkSettles ==
  ASSUME StatusOK, NEW S \in SUBSET Targets, NEW time \in Times,
         NEW told, NEW verdict \in {"UpToDate", "UpToDateWithError"},
         MarkUpToDate(S, time, told, verdict)
  PROVE  /\ \A t \in S : status'[t] # "OutOfDate" \/ touch'[t] > time
         /\ \A t \in Targets : \A s \in Times :
              status[t] # "OutOfDate" \/ touch[t] > s
                => status'[t] # "OutOfDate" \/ touch'[t] > s
BY DEF MarkUpToDate, Accepts, StatusOK

\* The clock does not go back.
LEMMA ClockStep == ASSUME GraphOK, [Next]_vars PROVE clock' \in Nat /\ clock' >= clock
<1>1. clock \in Nat
  BY NumbersOK DEF GraphOK, Times
<1>2. CASE clock' = clock
  BY <1>1, <1>2
<1>3. CASE Passes
  BY <1>1, <1>3 DEF Passes
<1> QED BY <1>2, <1>3, StepGraphKind DEF GraphKind

\* What is settled for a build that began before now stays so.
LEMMA StaysSettled ==
  ASSUME TypeOK, [Next]_vars, NEW t \in Targets, NEW s \in Times, s < clock,
         status[t] # "OutOfDate" \/ touch[t] > s
  PROVE  status'[t] # "OutOfDate" \/ touch'[t] > s
<1>1. StatusOK /\ clock \in Nat /\ s \in Nat
  BY TypeParts, NumbersOK DEF GraphOK, Times
<1>2. CASE UNCHANGED statusVars
  BY <1>2 DEF statusVars
<1>3. ASSUME NEW S \in SUBSET Targets, NEW now \in Times, now >= clock, MarkOutOfDate(S, now)
      PROVE  status'[t] # "OutOfDate" \/ touch'[t] > s
  <2>1. now > s
    BY <1>1, <1>3, NumbersOK DEF Times
  <2> QED BY <1>3, <2>1 DEF MarkOutOfDate
<1>4. ASSUME NEW b \in Builds, Judges(b)
      PROVE  status'[t] # "OutOfDate" \/ touch'[t] > s
  <2>1. build[b].start \in Times
    BY DEF TypeOK, BuildStates
  <2>2. PICK S \in SUBSET Targets, told \in Times :
          \/ MarkUpToDate(S \ build[b].failed, build[b].start, told, "UpToDate")
          \/ MarkUpToDate(S, build[b].start, told, "UpToDateWithError")
    BY <1>4 DEF Judges
  <2>3. S \ build[b].failed \in SUBSET Targets
    OBVIOUS
  <2> QED BY <1>1, <2>1, <2>2, <2>3, MarkSettles
<1> QED BY <1>2, <1>3, <1>4, StepKind DEF StatusStep

\* A build that goes on as it was answers for the same.
LEMMA SameAnswers ==
  ASSUME TypeOK, [Next]_vars, NEW b \in Builds, Answers(b),
         build'[b].phase = build[b].phase, build'[b].want = build[b].want,
         build'[b].left = build[b].left, build'[b].marked = build[b].marked,
         build'[b].failed = build[b].failed, build'[b].start = build[b].start
  PROVE  Answers(b)'
<1>1. build[b] \in BuildStates /\ GraphOK
  BY TypeParts DEF BuildOK
<1>2. clock \in Nat /\ clock' \in Nat /\ clock' >= clock /\ build[b].start \in Nat
  BY <1>1, ClockStep, NumbersOK DEF GraphOK, Times, BuildStates
<1>3. Spoken(b)' = Spoken(b) /\ Spoken(b) \subseteq Targets
  BY <1>1 DEF Spoken, BuildStates
<1>4. ASSUME build[b].phase \in AnnouncedPhases, NEW t \in Spoken(b)
      PROVE  status'[t] # "OutOfDate" \/ touch'[t] > build[b].start
  <2>1. build[b].start \in Times /\ build[b].start < clock /\ t \in Targets
    BY <1>1, <1>3, <1>4 DEF BuildStates, Answers
  <2> QED BY <1>4, <2>1, StaysSettled DEF Answers
<1> QED BY <1>2, <1>3, <1>4 DEF Answers

\* What a traversal starts from it reaches, unless it is told not to enter it.
LEMMA StartIsReached ==
  ASSUME NEW S \in SUBSET Targets, NEW skip
  PROVE  S \ skip \subseteq AllDependencies(S, skip)
BY Zenon DEF AllDependencies, Reach

\* A report on a target: the build has spoken of it, and of what it depends on.
LEMMA ReportAnswers ==
  ASSUME TypeOK, [Next]_vars, NEW b \in Builds, Answers(b), NEW d \in Builds,
         NEW t \in Targets, TargetSucceeds(b, d, t) \/ TargetFails(b, d, t)
  PROVE  Answers(b)'
<1>1. build[b] \in BuildStates /\ GraphOK /\ StatusOK /\ BuildOK
  BY TypeParts DEF BuildOK
<1>2. clock' = clock /\ build[b].start \in Times
  BY <1>1 DEF TargetSucceeds, TargetFails, BuildStates
<1>3. build[b].phase = "dying" \/ (build[b].phase \in AnnouncedPhases /\ build[b].start < clock)
  BY <1>1 DEF TargetSucceeds, TargetFails, Reports, HearsItself, Overhears, AnnouncedPhases,
              Answers
<1>4. /\ build'[b].phase = build[b].phase /\ build'[b].start = build[b].start
      /\ build'[b].want = build[b].want /\ build'[b].left = build[b].left \ {t}
  BY <1>1 DEF TargetSucceeds, TargetFails, BuildOK, BuildStates
<1>5. CASE build[b].phase = "dying"
  BY <1>4, <1>5 DEF Answers, AnnouncedPhases
<1>6. CASE build[b].phase \in AnnouncedPhases /\ build[b].start < clock
  <2>1. \A u \in Spoken(b) : status'[u] # "OutOfDate" \/ touch'[u] > build[b].start
    <3>1. Spoken(b) \subseteq Targets /\ build[b].start < clock
      BY <1>1, <1>6 DEF Spoken, BuildStates
    <3> QED BY <1>1, <1>2, <1>6, <3>1, StaysSettled DEF Answers
  <2>2. CASE TargetSucceeds(b, d, t)
    <3> DEFINE D == AllDependencies({t}, build[b].marked)
    <3>1. D \in SUBSET Targets /\ {t} \ build[b].marked \subseteq D
      BY DependentsAreTargets, StartIsReached
    <3>2. MarkUpToDate(D \ build[b].failed, build[b].start, build[d].start, "UpToDate")
      BY <2>2 DEF TargetSucceeds, MarkSuccess
    <3>3. build'[b].marked = build[b].marked \cup D /\ build'[b].failed = build[b].failed
      BY <1>1, <2>2 DEF TargetSucceeds, BuildOK, BuildStates
    <3> HIDE DEF D
    <3>4. \A u \in D \ build[b].failed : status'[u] # "OutOfDate" \/ touch'[u] > build[b].start
      <4>1. D \ build[b].failed \in SUBSET Targets
        BY <3>1
      <4> QED BY <1>1, <1>2, <3>2, <4>1, MarkSettles
    <3>5. Spoken(b)' \subseteq Spoken(b) \cup (D \ build[b].failed)
      BY <1>4, <3>1, <3>3 DEF Spoken
    <3> QED BY <1>2, <1>4, <1>6, <2>1, <3>4, <3>5 DEF Answers, AnnouncedPhases
  <2>3. CASE TargetFails(b, d, t)
    <3>1. MarkUpToDate({t}, build[b].start, build[d].start, "UpToDateWithError")
      BY <2>3 DEF TargetFails, MarkFailure
    <3>2. build'[b].marked = build[b].marked /\ build'[b].failed = build[b].failed \cup {t}
      BY <1>1, <2>3 DEF TargetFails, BuildOK, BuildStates
    <3>3. status'[t] # "OutOfDate" \/ touch'[t] > build[b].start
      BY <1>1, <1>2, <3>1, MarkSettles
    <3>4. Spoken(b)' \subseteq Spoken(b) \cup {t}
      BY <1>4, <3>2 DEF Spoken
    <3> QED BY <1>2, <1>4, <1>6, <2>1, <3>3, <3>4 DEF Answers, AnnouncedPhases
  <2> QED BY <2>2, <2>3
<1> QED BY <1>3, <1>5, <1>6

\* Every step keeps what a build answers for.
LEMMA StepAnswers ==
  ASSUME TypeOK, AnswerInv, [Next]_vars, NEW c \in Builds
  PROVE  Answers(c)'
<1> USE NumbersOK DEF BuildOK
<1>0. /\ BuildOK /\ build[c] \in BuildStates /\ Answers(c)
      /\ \A p \in {"none", "retrying", "waiting", "ended"} :
           Blank(p).phase = p /\ Blank(p).marked = {} /\ Blank(p).failed = {}
  BY TypeParts DEF AnswerInv, Blank
<1>1. CASE build'[c] = build[c] \/ build'[c] = Cancelled(c)
  <2>1. /\ build'[c].phase = build[c].phase /\ build'[c].want = build[c].want
        /\ build'[c].left = build[c].left /\ build'[c].marked = build[c].marked
        /\ build'[c].failed = build[c].failed /\ build'[c].start = build[c].start
    BY <1>0, <1>1 DEF Cancelled, BuildStates
  <2> QED BY <1>0, <2>1, SameAnswers
<1>2. CASE \E p \in {"none", "retrying", "waiting", "ended"} : build'[c] = Blank(p)
  BY <1>0, <1>2 DEF Answers, AnnouncedPhases
<1>3. ASSUME NEW b \in Watches, NEW S, Request(b, S) PROVE Answers(c)'
  <2>1. CASE c = b
    <3>1. PICK p \in {"retrying", "waiting"} : build'[c] = [Blank(p) EXCEPT !.want = S, !.auto = TRUE]
      BY <1>3, <2>1 DEF Request
    <3> QED BY <3>1 DEF Answers, AnnouncedPhases, Blank
  <2>2. CASE c # b
    BY <1>1, <1>3, <2>2 DEF Request
  <2> QED BY <2>1, <2>2
<1>4. ASSUME NEW b \in Builds, NEW p \in {"ended", "dying"}, Leave(b, p) PROVE Answers(c)'
  <2>1. CASE c = b /\ p = "dying"
    <3>1. build'[c].phase = "dying"
      BY <1>0, <1>4, <2>1 DEF Leave, BuildStates
    <3> QED BY <3>1 DEF Answers, AnnouncedPhases
  <2>2. CASE c = b /\ p = "ended"
    BY <1>0, <1>2, <1>4, <2>2 DEF Leave
  <2>3. CASE c # b
    BY <1>0, <1>1, <1>4, <2>3 DEF Leave
  <2> QED BY <2>1, <2>2, <2>3
<1>5. CASE UNCHANGED vars
  BY <1>1, <1>5 DEF vars
<1>6. ASSUME NEW f \in Files, \/ Save(f)
                              \/ \E new \in Graphs, mod \in SUBSET Targets : Refresh(new, mod, f)
      PROVE  Answers(c)'
  BY <1>1, <1>6 DEF Save, Refresh
<1>7. ASSUME NEW f \in Files, NEW m \in BOOLEAN, Trigger(f, m) PROVE Answers(c)'
  <2>1. CASE build' = build
    BY <1>1, <2>1
  <2>2. CASE LeftTargets(f, m) # {}
    <3>1. /\ buildId' = buildId + 1 /\ buildId < MaxWatches
          /\ Request(buildId', active \cup LeftTargets(f, m))
      BY <1>7, <2>2 DEF Trigger
    <3>2. buildId' \in Watches
      BY <3>1, TypeParts DEF WatchOK, Watches
    <3> QED BY <1>3, <3>1, <3>2
  <2> QED BY <1>7, <2>1, <2>2 DEF Trigger
<1>8. ASSUME NEW b \in Watches, Retry(b) PROVE Answers(c)'
  <2>1. CASE Request(b, build[b].want)
    BY <1>3, <1>8, <2>1
  <2>2. CASE build' = [build EXCEPT ![b] = Blank("ended")]
    BY <1>0, <1>1, <1>2, <2>2
  <2> QED BY <1>8, <2>1, <2>2 DEF Retry
<1>9. ASSUME NEW b \in Builds, Start(b) PROVE Answers(c)'
  <2>1. CASE Move(b, "starting")
    <3>1. CASE c = b
      <4>1. /\ build'[c].phase = "starting" /\ build'[c].marked = build[c].marked
            /\ build'[c].failed = build[c].failed
        BY <1>0, <2>1, <3>1 DEF Move, BuildStates
      <4> QED BY <1>0, <1>9, <3>1, <4>1 DEF Start, Answers, AnnouncedPhases
    <3> QED BY <1>0, <1>1, <2>1, <3>1 DEF Move
  <2>2. CASE build' = [build EXCEPT ![b] = Blank("ended")]
    BY <1>0, <1>1, <1>2, <2>2
  <2> QED BY <1>9, <2>1, <2>2 DEF Start
<1>10. ASSUME NEW b \in Builds, Begin(b) PROVE Answers(c)'
  <2>1. CASE c = b
    <3>1. /\ build'[c].phase = "preparing" /\ build'[c].left = build'[c].want
          /\ build'[c].marked = build[c].marked /\ build'[c].failed = build[c].failed
      BY <1>0, <1>10, <2>1 DEF Begin, BuildStates
    <3>2. build[c].marked = {} /\ build[c].failed = {}
      BY <1>0, <1>10, <2>1 DEF Begin, Answers
    <3> QED BY <3>1, <3>2 DEF Answers, AnnouncedPhases, Spoken
  <2>2. CASE c # b
    BY <1>0, <1>1, <1>10, <2>2 DEF Begin
  <2> QED BY <2>1, <2>2
<1>11. ASSUME NEW b \in Builds, Spawn(b) PROVE Answers(c)'
  <2>1. CASE c = b
    <3>1. /\ build'[c].phase = "building" /\ build'[c].want = build[c].want
          /\ build'[c].left = build[c].left /\ build'[c].marked = build[c].marked
          /\ build'[c].failed = build[c].failed /\ build'[c].start = build[c].start
      BY <1>0, <1>11, <2>1 DEF Spawn, Move, BuildStates
    <3>2. /\ clock' > build[c].start /\ build[c].start \in Times
          /\ build[c].phase = "preparing"
      BY <1>0, <1>11, <2>1 DEF Spawn, BuildStates
    <3>3. Spoken(c)' = Spoken(c) /\ Spoken(c) \subseteq Targets
      BY <1>0, <3>1 DEF Spoken, BuildStates
    <3>4. ASSUME NEW t \in Spoken(c) PROVE status'[t] # "OutOfDate" \/ touch'[t] > build[c].start
      BY <1>0, <3>2, <3>3, <3>4, StaysSettled DEF Answers, AnnouncedPhases
    <3> QED BY <3>1, <3>2, <3>3, <3>4 DEF Answers
  <2>2. CASE c # b
    BY <1>0, <1>1, <1>11, <2>2 DEF Spawn, Move
  <2> QED BY <2>1, <2>2
<1>12. ASSUME NEW b \in Builds, CancelWork(b) \/ FallsSilent(b) PROVE Answers(c)'
  BY <1>0, <1>1, <1>2, <1>12 DEF CancelWork, FallsSilent
<1>13. ASSUME NEW b \in Builds, Finish(b) \/ Terminate(b) \/ TerminateUnspawned(b)
       PROVE  Answers(c)'
  <2>1. PICK p \in {"ended", "dying"} : Leave(b, p)
    BY <1>13 DEF Finish, Terminate, TerminateUnspawned
  <2> QED BY <1>4, <2>1
<1>14. ASSUME NEW b \in Builds, NEW d \in Builds, NEW t \in Targets,
              TargetSucceeds(b, d, t) \/ TargetFails(b, d, t)
       PROVE  Answers(c)'
  <2>1. CASE c = b
    BY <1>0, <1>14, <2>1, ReportAnswers
  <2>2. CASE c # b
    BY <1>0, <1>1, <1>14, <2>2 DEF TargetSucceeds, TargetFails
  <2> QED BY <2>1, <2>2
<1>15. ASSUME NEW b \in Builds, NEW from, NEW to, Dependency(b, from, to) PROVE Answers(c)'
  <2>1. /\ build'[c].phase = build[c].phase /\ build'[c].want = build[c].want
        /\ build'[c].left = build[c].left /\ build'[c].marked = build[c].marked
        /\ build'[c].failed = build[c].failed /\ build'[c].start = build[c].start
    BY <1>0, <1>15 DEF Dependency, BuildStates
  <2> QED BY <1>0, <2>1, SameAnswers
<1>16. CASE UserCommand \/ UserEnds
  BY <1>0, <1>1, <1>2, <1>16 DEF UserCommand, UserEnds
<1>17. ASSUME NEW f \in Files, UserAutocomplete(f) PROVE Answers(c)'
  <2>1. CASE c = UserBuild
    <3>1. /\ build[c].phase = "starting" /\ build'[c].phase = "starting"
          /\ build'[c].marked = build[c].marked /\ build'[c].failed = build[c].failed
      BY <1>0, <1>17, <2>1 DEF UserAutocomplete, BuildStates
    <3> QED BY <1>0, <3>1 DEF Answers, AnnouncedPhases
  <2>2. CASE c # UserBuild
    BY <1>0, <1>1, <1>17, <2>2 DEF UserAutocomplete
  <2> QED BY <2>1, <2>2
<1> QED
  BY <1>5, <1>6, <1>7, <1>8, <1>9, <1>10, <1>11, <1>12, <1>13, <1>14, <1>15, <1>16, <1>17,
     Zenon DEF Next

\* A build at work that was not cancelled is over only when it finishes.
LEMMA FinishEnds ==
  ASSUME TypeOK, [Next]_vars, NEW b \in Builds, build[b].phase = "building",
         ~build[b].cancelled, build'[b].phase = "ended"
  PROVE  Finish(b)
<1> USE NumbersOK
<1>1. BuildOK /\ build[b] \in BuildStates
  BY TypeParts DEF BuildOK
<1>2. ASSUME NEW c \in Watches, NEW S, Request(c, S) PROVE FALSE
  BY <1>1, <1>2 DEF Request, Cancelled, Blank, BuildOK, BuildStates
<1>3. CASE UNCHANGED vars
  BY <1>3 DEF vars
<1>4. ASSUME NEW f \in Files, \/ Save(f)
                              \/ \E new \in Graphs, mod \in SUBSET Targets : Refresh(new, mod, f)
      PROVE  FALSE
  BY <1>4 DEF Save, Refresh
<1>5. ASSUME NEW f \in Files, NEW m \in BOOLEAN, Trigger(f, m) PROVE FALSE
  <2>1. CASE LeftTargets(f, m) # {}
    <3>1. /\ buildId' = buildId + 1 /\ buildId < MaxWatches
          /\ Request(buildId', active \cup LeftTargets(f, m))
      BY <1>5, <2>1 DEF Trigger
    <3>2. buildId' \in Watches
      BY <3>1, TypeParts DEF WatchOK, Watches
    <3> QED BY <1>2, <3>1, <3>2
  <2> QED BY <1>5, <2>1 DEF Trigger
<1>6. ASSUME NEW c \in Watches, Retry(c) PROVE FALSE
  <2>1. ~Request(c, build[c].want)
    BY <1>2, <1>6
  <2> QED BY <1>1, <1>6, <2>1 DEF Retry, BuildOK
<1>7. ASSUME NEW c \in Builds,
             Start(c) \/ Spawn(c) \/ CancelWork(c) \/ FallsSilent(c)
      PROVE  FALSE
  BY <1>1, <1>7
     DEF Start, Spawn, CancelWork, FallsSilent, Move, Cancelled, BuildOK, BuildStates
<1>7a. ASSUME NEW c \in Builds, Begin(c) PROVE FALSE
  <2>1. GraphOK /\ clock \in Times
    BY TypeParts DEF GraphOK
  <2>2. PICK W \in SUBSET Targets : build' = [build EXCEPT ![c] = Begun(build[c], W, clock)]
    BY <1>1, <1>7a, <2>1, BeginWants
  <2>3. Begun(build[c], W, clock).phase = "preparing"
    BY <1>1, <2>1, BegunOK DEF BuildOK
  <2> QED BY <1>1, <2>2, <2>3 DEF BuildOK
<1>8. ASSUME NEW c \in Builds, Terminate(c) \/ TerminateUnspawned(c) PROVE FALSE
  BY <1>1, <1>8 DEF Terminate, TerminateUnspawned, Leave, BuildOK
<1>9. ASSUME NEW c \in Builds, Finish(c) PROVE c = b
  BY <1>1, <1>9 DEF Finish, Leave, BuildOK
<1>10. ASSUME NEW c \in Builds, NEW d \in Builds, NEW t \in Targets,
              TargetSucceeds(c, d, t) \/ TargetFails(c, d, t)
       PROVE  FALSE
  BY <1>1, <1>10 DEF TargetSucceeds, TargetFails, BuildOK, BuildStates
<1>11. ASSUME NEW c \in Builds, NEW from, NEW to, Dependency(c, from, to) PROVE FALSE
  BY <1>1, <1>11 DEF Dependency, BuildOK, BuildStates
<1>12. CASE UserCommand \/ UserEnds
  BY <1>1, <1>12 DEF UserCommand, UserEnds, Cancelled, Blank, BuildOK, BuildStates
<1>13. ASSUME NEW f \in Files, UserAutocomplete(f) PROVE FALSE
  BY <1>1, <1>13 DEF UserAutocomplete, BuildOK, BuildStates
<1> QED
  BY <1>3, <1>4, <1>5, <1>6, <1>7, <1>7a, <1>8, <1>9, <1>10, <1>11, <1>12, <1>13,
     Zenon DEF Next

\* A build that ends by itself has spoken of all it was asked for: with the
\* verdict at its end no wanted target is left out of date by an older change.
THEOREM FinishedReports == Spec => FinishedBuildReports
<1> DEFINE Reported ==
      \A b \in Builds :
        build[b].phase = "building" /\ ~build[b].cancelled /\ build'[b].phase = "ended"
            => \A t \in build[b].want :
                 status'[t] # "OutOfDate" \/ touch'[t] > build[b].start
<1>1. Init => AnswerInv
  BY DEF Init, AnswerInv, Answers, AnnouncedPhases, Blank
<1>2. ASSUME IInv, AnswerInv, [Next]_vars PROVE AnswerInv'
  BY <1>2, StepAnswers DEF AnswerInv, IInv
<1>3. ASSUME IInv, AnswerInv, [Next]_vars PROVE [Reported]_vars
  <2>1. TypeOK /\ StatusOK /\ BuildOK
    BY <1>3, TypeParts DEF IInv
  <2> SUFFICES ASSUME NEW b \in Builds, build[b].phase = "building", ~build[b].cancelled,
                      build'[b].phase = "ended", NEW t \in build[b].want
               PROVE  status'[t] # "OutOfDate" \/ touch'[t] > build[b].start
    OBVIOUS
  <2>2. /\ build[b] \in BuildStates /\ t \in Targets /\ build[b].start \in Times
        /\ build[b].left \in SUBSET Targets
    BY <2>1 DEF BuildOK, BuildStates
  <2>3. Finish(b)
    BY <1>3, <2>1, FinishEnds
  <2>4. CASE t \in Spoken(b)
    BY <1>3, <2>1, <2>2, <2>4, StaysSettled DEF AnswerInv, Answers, AnnouncedPhases
  <2>5. CASE t \notin Spoken(b)
    <3>1. t \in build[b].left /\ t \notin build[b].marked /\ t \notin build[b].failed
      BY <2>5 DEF Spoken
    <3>2. CASE MarkFailure(b, b, build[b].left)
      BY <2>1, <2>2, <3>1, <3>2, MarkSettles DEF MarkFailure
    <3>3. CASE MarkSuccess(b, b, build[b].left)
      <4> DEFINE D == AllDependencies(build[b].left, build[b].marked) \ build[b].failed
      <4>1. D \in SUBSET Targets /\ t \in D
        BY <2>2, <3>1, DependentsAreTargets, StartIsReached
      <4>2. MarkUpToDate(D, build[b].start, build[b].start, "UpToDate")
        BY <3>3 DEF MarkSuccess
      <4> HIDE DEF D
      <4> QED BY <2>1, <2>2, <4>1, <4>2, MarkSettles
    <3> QED BY <2>3, <3>2, <3>3 DEF Finish, Verdict
  <2> QED BY <2>4, <2>5
<1>4. IInv /\ AnswerInv /\ [Next]_vars => [Reported]_vars
  BY <1>3
<1> QED BY <1>1, <1>2, <1>4, Invariance, PTL DEF Spec, FinishedBuildReports

-----------------------------------------------------------------------------
(* XcodeBuild *)

\* The manifest never goes back to an older log, a log that was taken was not known
\* when the build was started, and only a log or a cancellation ends the watch well.
LogInv ==
    /\ "later" \in previous => manifest = "later"
    /\ newest # "none" => newest = "later" \/ previous = {}
    /\ watch = "printing" => newest # "none"
    /\ watch = "over" => newest # "none" \/ token
    /\ phase = "none" => newest = "none" /\ watch = "none"
    /\ marked = "success" => phase = "over" /\ (newest # "none" \/ token)

\* A process that runs is one of a call whose listeners are attached, or one that
\* killAction is after, unless it failed.  Our SIGKILL leaves only the descendants
\* that were not listed.
RunningInv ==
    \A p \in Procs :
        /\ life[p] = "running" => ends[p] = "none"
        /\ life[p] = "running" /\ ~Pursued(p) /\ ending[p] # "failed" =>
               result[p] = "pending" /\ ~token
        /\ ends[p] = "killed" => offspring[p] # "some"

\* A call that was not made has no process and no result.
CallInv ==
    /\ \A p \in Procs : life[p] = "none" =>
           result[p] = "none" /\ ending[p] = "none" /\ offspring[p] = "none"
             /\ ends[p] = "none"
    /\ \A p \in Procs : life[p] \notin {"none", "running"} => ends[p] # "none"
    /\ watch \in {"none", "watching", "reading"} => \A p \in Procs : life[p] = "none"

\* killAll is called with a pid only while nothing is known of the end of its process.
HeldInv ==
    \A p \in Procs : ending[p] \in {"SIGINT", "SIGKILL"} => held[p] \/ Signalled(p)

KillerInv == RunningInv /\ CallInv /\ HeldInv

XcodeInv == XcodeTypeOK /\ LogInv /\ KillerInv

\* What a process does, and what is done to it.
ProcessStep(p) ==
    \/ \E how \in {"ok", "error"} : Dies(p, how)
    \/ Forks(p) \/ OffspringEnds(p) \/ EndsWithInput(p) \/ OutputEnds(p) \/ Reuse(p)
    \/ Handling(p)

\* One process changes, in a way that keeps what is known of it.
LEMMA OneProcessKeeps ==
  ASSUME ExecTypeOK', KillerInv, NEW p \in Procs, watch' = watch, token' = token,
         life[p] # "none",
         \A q \in Procs \ {p} : /\ life'[q] = life[q] /\ offspring'[q] = offspring[q]
                                /\ ends'[q] = ends[q] /\ result'[q] = result[q]
                                /\ ending'[q] = ending[q] /\ held'[q] = held[q],
         life'[p] # "none",
         life'[p] = "running" => ends'[p] = "none",
         life'[p] # "running" => ends'[p] # "none",
         life'[p] = "running" /\ ~Pursued(p)' /\ ending'[p] # "failed" =>
             result'[p] = "pending" /\ ~token,
         ends'[p] = "killed" => offspring'[p] # "some",
         ending'[p] \in {"SIGINT", "SIGKILL"} => held'[p] \/ Signalled(p)'
  PROVE  KillerInv'
<1>1. RunningInv'
  BY DEF KillerInv, RunningInv, Pursued
<1>2. CallInv'
  BY DEF KillerInv, CallInv
<1>3. HeldInv'
  BY DEF KillerInv, HeldInv, Signalled
<1> QED BY <1>1, <1>2, <1>3 DEF KillerInv

\* The killer of a process that runs is not called off.
LEMMA ProcessStepKeeps ==
  ASSUME ExecTypeOK, KillerInv, NEW p \in Procs, ProcessStep(p), watch' = watch
  PROVE  ExecTypeOK' /\ KillerInv' /\ token' = token
<1>1. ASSUME NEW how \in {"ok", "error"}, Dies(p, how)
      PROVE  ExecTypeOK' /\ KillerInv' /\ token' = token
  <2>1. ExecTypeOK' /\ token' = token /\ life[p] # "none"
    BY <1>1 DEF Dies, Die, ExecTypeOK
  <2> QED BY <1>1, <2>1, OneProcessKeeps
          DEF Dies, Die, ExecTypeOK, KillerInv, RunningInv, HeldInv, Signalled
<1>2. CASE EndsWithInput(p)
  BY <1>1, <1>2 DEF EndsWithInput
<1>3. CASE OutputEnds(p)
  BY <1>3, ProcsAssumption
     DEF OutputEnds, procVars, ExecTypeOK, KillerInv, RunningInv, CallInv, HeldInv, Pursued,
         Signalled
<1>4. CASE Forks(p)
  <2>1. ExecTypeOK' /\ token' = token /\ life[p] = "running"
    BY <1>4 DEF Forks, ExecTypeOK
  <2> QED BY <1>4, <2>1, OneProcessKeeps
          DEF Forks, ExecTypeOK, KillerInv, RunningInv, HeldInv, Pursued, Signalled
<1>5. CASE OffspringEnds(p)
  <2>1. ExecTypeOK' /\ token' = token /\ life[p] # "none"
    BY <1>5 DEF OffspringEnds, ExecTypeOK, KillerInv, CallInv
  <2> QED BY <1>5, <2>1, OneProcessKeeps
          DEF OffspringEnds, ExecTypeOK, KillerInv, RunningInv, CallInv, HeldInv, Pursued,
              Signalled
<1>6. CASE Reuse(p)
  <2>1. ExecTypeOK' /\ token' = token /\ life[p] = "gone"
    BY <1>6 DEF Reuse, ExecTypeOK
  <2> QED BY <1>6, <2>1, OneProcessKeeps
          DEF Reuse, ExecTypeOK, KillerInv, RunningInv, CallInv, HeldInv, Pursued, Signalled
<1>7. CASE ExitEvent(p)
  <2>1. ExecTypeOK' /\ token' = token /\ life[p] = "zombie"
    BY <1>7, ProcsAssumption DEF ExitEvent, Reaped, ExecTypeOK
  <2> QED BY <1>7, <2>1, OneProcessKeeps
          DEF ExitEvent, Reaped, ExecTypeOK, KillerInv, RunningInv, CallInv, HeldInv, Pursued,
              Signalled
<1>8. CASE Settle(p)
  <2>0. ends[p] \in {"ok", "error", "signal", "killed"}
    BY <1>8 DEF Settle, Over, ExecTypeOK, KillerInv, CallInv
  <2>1. ExecTypeOK' /\ token' = token /\ Over(p)
    BY <1>8, <2>0 DEF Settle, procVars, Signalled, ExecTypeOK
  <2> QED BY <1>8, <2>1, OneProcessKeeps
          DEF Settle, Over, procVars, ExecTypeOK, KillerInv, RunningInv, CallInv, HeldInv,
              Pursued, Signalled
<1>9. ASSUME Pursued(p)
      PROVE  life[p] # "none" /\ (life[p] # "running" => ends[p] # "none")
  BY <1>9 DEF Pursued, KillerInv, CallInv, ExecTypeOK
<1>10. CASE Interrupt(p)
  <2>1. ExecTypeOK' /\ token' = token /\ Pursued(p)
    BY <1>10 DEF Interrupt, Goes, Die, Pursued, ExecTypeOK
  <2> QED BY <1>9, <1>10, <2>1, OneProcessKeeps
          DEF Interrupt, Goes, Die, ExecTypeOK, KillerInv, RunningInv, Pursued
<1>11. CASE Find(p)
  <2>1. ExecTypeOK' /\ token' = token /\ Pursued(p)
    BY <1>11 DEF Find, Goes, procVars, Pursued, ExecTypeOK
  <2> QED BY <1>9, <1>11, <2>1, OneProcessKeeps
          DEF Find, Goes, procVars, ExitCodeKnown, Over, ExecTypeOK, KillerInv, RunningInv,
              Pursued
<1>12. CASE Check(p)
  <2>1. ExecTypeOK' /\ token' = token /\ Pursued(p)
    BY <1>12 DEF Check, Goes, procVars, Over, Pursued, ExecTypeOK
  <2>2. /\ UNCHANGED <<life, offspring, ends, result>>
        /\ ending' = [ending EXCEPT ![p] = IF ExitCodeKnown(p) THEN "over" ELSE "SIGKILL"]
        /\ held' = [held EXCEPT ![p] = ~Over(p)]
    BY <1>12 DEF Check, Goes, procVars
  <2>3. life'[p] = "running" => Pursued(p)'
    BY <2>2 DEF ExitCodeKnown, Over, Pursued, ExecTypeOK
  <2>4. ending'[p] \in {"SIGINT", "SIGKILL"} => held'[p] \/ Signalled(p)'
    BY <2>2 DEF ExitCodeKnown, Signalled, ExecTypeOK
  <2>5. \A q \in Procs \ {p} : ending'[q] = ending[q] /\ held'[q] = held[q]
    BY <2>2 DEF ExecTypeOK
  <2>6. (life[p] = "running" => ends[p] = "none") /\ (ends[p] = "killed" => offspring[p] # "some")
    BY DEF KillerInv, RunningInv
  <2> QED BY <1>9, <2>1, <2>2, <2>3, <2>4, <2>5, <2>6, OneProcessKeeps
<1>13. CASE Kill(p)
  <2>1. ExecTypeOK' /\ token' = token /\ Pursued(p)
    BY <1>13 DEF Kill, Goes, Die, Pursued, ExecTypeOK
  <2>2. ends'[p] = "killed" => offspring'[p] # "some"
    BY <1>13 DEF Kill, Goes, Die, ExecTypeOK, KillerInv, RunningInv
  <2> QED BY <1>9, <1>13, <2>1, <2>2, OneProcessKeeps DEF Kill, Goes, Die, ExecTypeOK
<1>14. CASE KillFails(p)
  <2>1. ExecTypeOK' /\ token' = token /\ Pursued(p)
    BY <1>14 DEF KillFails, Goes, procVars, Pursued, ExecTypeOK
  <2> QED BY <1>9, <1>14, <2>1, OneProcessKeeps
          DEF KillFails, Goes, procVars, ExecTypeOK, KillerInv, RunningInv
<1> QED
  BY <1>1, <1>2, <1>3, <1>4, <1>5, <1>6, <1>7, <1>8, <1>10, <1>11, <1>12, <1>13, <1>14
  DEF ProcessStep, Handling

\* killAction is told of every call whose process runs.
LEMMA TerminateKeeps ==
  ASSUME ExecTypeOK, KillerInv, CancelContext \/ CloseTerminal, watch' = watch
  PROVE  ExecTypeOK' /\ KillerInv' /\ (token => token')
<1>1. TerminateAll /\ token' \in BOOLEAN /\ terminal' \in BOOLEAN /\ (token => token')
  BY DEF CancelContext, CloseTerminal, ExecTypeOK
<1>2. /\ life' = life /\ offspring' = offspring /\ ends' = ends /\ stdin' = stdin
      /\ result' = [p \in Procs |-> IF Listening(p) THEN "terminated" ELSE result[p]]
      /\ ending' = [p \in Procs |-> IF Listening(p) THEN "SIGINT" ELSE ending[p]]
      /\ held' = [p \in Procs |-> IF Listening(p) THEN ~Over(p) ELSE held[p]]
  BY <1>1 DEF TerminateAll, procVars
<1>3. ExecTypeOK'
  BY <1>1, <1>2 DEF ExecTypeOK
<1>4. RunningInv'
  BY <1>2 DEF KillerInv, RunningInv, Pursued, Listening, Over
<1>5. CallInv'
  BY <1>2 DEF KillerInv, CallInv, Listening
<1>6. HeldInv'
  BY <1>2 DEF KillerInv, HeldInv, Signalled, Listening
<1> QED BY <1>1, <1>3, <1>4, <1>5, <1>6 DEF KillerInv

\* Nothing of the processes changes.
LEMMA RestKeeps ==
  ASSUME ExecTypeOK, KillerInv, UNCHANGED execVars,
         watch' \in {"none", "watching", "reading"} => watch \in {"none", "watching", "reading"}
  PROVE  ExecTypeOK' /\ KillerInv'
<1>1. ExecTypeOK'
  BY DEF execVars, procVars, ExecTypeOK
<1>2. RunningInv' /\ HeldInv'
  BY DEF execVars, procVars, KillerInv, RunningInv, HeldInv, Pursued, Signalled
<1>3. CallInv'
  BY DEF execVars, procVars, KillerInv, CallInv
<1> QED BY <1>1, <1>2, <1>3 DEF KillerInv

\* No build, no process and no log yet.
LEMMA XcodeInitOK == XcodeInit => XcodeInv
BY DEF XcodeInit, ExecInit, XcodeInv, XcodeTypeOK, ExecTypeOK, LogInv, KillerInv, RunningInv,
       CallInv, HeldInv, Logs

\* Every step keeps it: a log that is taken is new, and manifests are not known
\* before they are recorded.
LEMMA XcodeStep == XcodeInv /\ [XcodeNext]_xcodeVars => XcodeInv'
<1> SUFFICES ASSUME XcodeInv, [XcodeNext]_xcodeVars PROVE XcodeInv'
  OBVIOUS
<1>0. XcodeTypeOK /\ ExecTypeOK /\ LogInv /\ KillerInv
  BY DEF XcodeInv, XcodeTypeOK
<1>1. CASE Record("later") \/ Record(manifest)
  <2>1. ExecTypeOK' /\ KillerInv'
    BY <1>0, <1>1, RestKeeps DEF Record, buildVars
  <2>2. LogInv'
    BY <1>0, <1>1 DEF Record, buildVars, execVars, XcodeTypeOK, LogInv, Logs
  <2>3. XcodeTypeOK'
    BY ZenonT(30), <1>0, <1>1, <2>1 DEF Record, buildVars, XcodeTypeOK, Logs
  <2> QED BY <2>1, <2>2, <2>3 DEF XcodeInv
<1>2. CASE StartBuild
  <2>0. watch = "none"
    BY <1>0, <1>2 DEF StartBuild, LogInv
  <2>1. ExecTypeOK' /\ KillerInv'
    BY <1>0, <1>2, <2>0, RestKeeps DEF StartBuild
  <2>2. LogInv'
    BY <1>0, <1>2 DEF StartBuild, KnownLogs, execVars, XcodeTypeOK, LogInv, Logs
  <2>3. XcodeTypeOK'
    BY <1>0, <1>2, <2>1 DEF StartBuild, KnownLogs, XcodeTypeOK, Logs
  <2> QED BY <2>1, <2>2, <2>3 DEF XcodeInv
<1>3. CASE Launch \/ ScriptEnds \/ Return
  <2>1. UNCHANGED execVars /\ watch' = watch
    BY <1>3 DEF Launch, ScriptEnds, Return
  <2>2. ExecTypeOK' /\ KillerInv'
    BY <1>0, <2>1, RestKeeps
  <2>3. LogInv'
    BY <1>0, <1>3 DEF Launch, ScriptEnds, Return, execVars, logVars, XcodeTypeOK, LogInv, Logs
  <2>4. XcodeTypeOK'
    <3>1. CASE Launch
      BY <1>0, <2>2, <3>1 DEF Launch, logVars, XcodeTypeOK
    <3>2. CASE ScriptEnds
      BY <1>0, <2>2, <3>2 DEF ScriptEnds, logVars, XcodeTypeOK
    <3>3. CASE Return
      BY <1>0, <2>2, <3>3 DEF Return, logVars, XcodeTypeOK
    <3> QED BY <1>3, <3>1, <3>2, <3>3
  <2> QED BY <2>2, <2>3, <2>4 DEF XcodeInv
<1>4. CASE Cancel \/ Close
  <2>1. /\ CancelContext \/ CloseTerminal
        /\ script' = IF script = "running" THEN "terminated" ELSE script
        /\ UNCHANGED <<logVars, previous, watch, newest, phase, marked>>
    BY <1>4 DEF Cancel, Close, Terminates
  <2>2. ExecTypeOK' /\ KillerInv' /\ (token => token')
    BY <1>0, <2>1, TerminateKeeps
  <2> QED BY <1>0, <2>1, <2>2 DEF XcodeInv, logVars, XcodeTypeOK, LogInv, Logs
<1>5. CASE Notice \/ GoOnWatching \/ Printed
  <2>1. /\ UNCHANGED execVars /\ watch \notin {"none"}
        /\ watch \in {"watching", "reading"} \/ watch' \in {"over", "failed", "terminated"}
    BY <1>0, <1>5 DEF Notice, GoOnWatching, Printed
  <2>2. ExecTypeOK' /\ KillerInv'
    BY <1>0, <2>1, RestKeeps
  <2>3. LogInv'
    BY <1>0, <1>5 DEF Notice, GoOnWatching, Printed, execVars, logVars, XcodeTypeOK, LogInv, Logs
  <2>4. XcodeTypeOK'
    BY ZenonT(30), <1>0, <1>5, <2>2 DEF Notice, GoOnWatching, Printed, logVars, XcodeTypeOK, Logs
  <2> QED BY <2>2, <2>3, <2>4 DEF XcodeInv
<1>6. CASE TakeNewest
  <2>1. ExecTypeOK'
    BY <1>0, <1>6 DEF TakeNewest, Execute, execVars, procVars, ExecTypeOK
  <2>2. XcodeTypeOK'
    BY <1>0, <1>6, <2>1 DEF TakeNewest, XcodeTypeOK, Logs
  <2>3. LogInv'
    BY <1>0, <1>6 DEF TakeNewest, IsNew, Execute, execVars, procVars, XcodeTypeOK, LogInv, Logs
  <2>4. CASE token
    BY <1>0, <1>6, <2>2, <2>3, <2>4, RestKeeps DEF TakeNewest, XcodeInv
  <2>5. CASE ~token
    <3>1. /\ watch = "reading" /\ watch' = "printing" /\ Execute(Procs)
      BY <1>6, <2>5, XcodeAssumption DEF TakeNewest
    <3>2. \A p \in Procs : /\ life[p] = "none" /\ ending[p] = "none"
                           /\ offspring[p] = "none" /\ ends[p] = "none"
      BY <1>0, <3>1 DEF KillerInv, CallInv
    <3>3. \A p \in Procs : /\ life'[p] = "running" /\ result'[p] = "pending"
                           /\ ending'[p] = "none" /\ ends'[p] = "none"
      BY <3>1, <3>2 DEF Execute
    <3>4. ~token'
      BY <2>5, <3>1 DEF Execute
    <3>5. KillerInv'
      BY <3>1, <3>3, <3>4 DEF KillerInv, RunningInv, CallInv, HeldInv
    <3> QED BY <2>2, <2>3, <3>5 DEF XcodeInv
  <2> QED BY <2>4, <2>5
<1>7. CASE \E p \in Procs :
             \/ \E how \in {"ok", "error"} : Within(Dies(p, how))
             \/ Within(EndsWithInput(p)) \/ Within(OutputEnds(p)) \/ Within(Reuse(p))
             \/ Within(Forks(p)) \/ Within(OffspringEnds(p)) \/ Within(Handling(p))
  <2>1. PICK p \in Procs : ProcessStep(p) /\ UNCHANGED <<logVars, buildVars>>
    BY <1>7 DEF ProcessStep, Within
  <2>2. watch' = watch
    BY <2>1 DEF buildVars
  <2>3. ExecTypeOK' /\ KillerInv' /\ token' = token
    BY <1>0, <2>1, <2>2, ProcessStepKeeps
  <2> QED BY <1>0, <2>1, <2>3 DEF XcodeInv, logVars, buildVars, XcodeTypeOK, LogInv, Logs
<1>8. CASE UNCHANGED xcodeVars
  <2>1. UNCHANGED execVars /\ UNCHANGED <<logVars, buildVars>>
    BY <1>8 DEF xcodeVars
  <2>2. ExecTypeOK' /\ KillerInv'
    BY <1>0, <2>1, RestKeeps DEF buildVars
  <2> QED BY <1>0, <2>1, <2>2
          DEF XcodeInv, execVars, logVars, buildVars, XcodeTypeOK, LogInv, Logs
<1> QED BY <1>1, <1>2, <1>3, <1>4, <1>5, <1>6, <1>7, <1>8 DEF XcodeNext

\* XcodeInv holds in every state of a build that is handed to Xcode.
LEMMA XcodeInvariant == XcodeSpec => []XcodeInv
<1>1. XcodeInit => XcodeInv
  BY XcodeInitOK
<1>2. XcodeInv /\ [XcodeNext]_xcodeVars => XcodeInv'
  BY XcodeStep
<1> QED BY <1>1, <1>2, PTL DEF XcodeSpec

\* The type invariant (XcodeBuildExecutor.ts:35-101, Executor.ts:90-300).
THEOREM XcodeTypesCorrect == XcodeSpec => []XcodeTypeOK
BY XcodeInvariant, PTL DEF XcodeInv

\* The targets are marked as built only for a log that Xcode recorded since the
\* build was started, but for a cancellation and a manifest that could not be read
\* (XcodeBuildExecutor.ts:50-57, 179-217).
THEOREM SuccessIsLogged == XcodeSpec => []SuccessHasLog
<1>1. XcodeInv => SuccessHasLog
  BY DEF XcodeInv, LogInv, SuccessHasLog
<1> QED BY <1>1, XcodeInvariant, PTL

\* What is at work in a cancelled context, descendants included, has a signal or
\* whoever comes back to it on its way, or is given up: the lookup or the kill
\* failed, the process of the call ended without SIGKILL, or they were not listed
\* (Executor.ts:197-211, utils.ts:63-107).
WorkIsPursued == \A p \in Procs : token /\ Works(p) => Pursued(p) \/ GivenUp(p)

THEOREM CancelSendsKillers == XcodeSpec => []WorkIsPursued
<1>1. XcodeInv => WorkIsPursued
  <2> SUFFICES ASSUME XcodeInv, NEW p \in Procs, token, Works(p), ~Pursued(p)
               PROVE  GivenUp(p)
    BY DEF WorkIsPursued
  <2>1. /\ ends[p] \in {"none", "ok", "error", "signal", "killed"}
        /\ offspring[p] \in {"none", "some", "missed"}
    BY DEF XcodeInv, XcodeTypeOK, ExecTypeOK
  <2>2. CASE life[p] = "running"
    BY <2>2 DEF XcodeInv, KillerInv, RunningInv, GivenUp
  <2>3. CASE life[p] # "running"
    <3>1. offspring[p] # "none"
      BY <2>3 DEF Works
    <3>2. ends[p] # "none"
      BY <2>3, <3>1 DEF XcodeInv, KillerInv, CallInv
    <3> QED BY <2>1, <3>1, <3>2 DEF XcodeInv, KillerInv, RunningInv, GivenUp
  <2> QED BY <2>2, <2>3
<1> QED BY <1>1, XcodeInvariant, PTL

\* A signal that is under way to a stranger was sent when the pid was our process's
\* own, or ours was ended by a signal, whose exit code never comes
\* (utils.ts:63-107).
THEOREM StrangersSpared == XcodeSpec => []StrangersAreSpared
<1>1. XcodeInv => StrangersAreSpared
  BY DEF XcodeInv, KillerInv, HeldInv, StrangersAreSpared
<1> QED BY <1>1, XcodeInvariant, PTL

=============================================================================
