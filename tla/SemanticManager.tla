---------------------------- MODULE SemanticManager ----------------------------
(***************************************************************************)
(* The index status of the project's targets                               *)
(* (src/src/BackgroundIndexing/SemanticManager.ts): the dependency graph,  *)
(* the implicit dependencies learnt from builds, and for each target        *)
(* whether a build has to look at it again.  The operations are synchronous *)
(* in the code; each is an operator on the module's variables that the      *)
(* component which calls it makes part of its own actions.                  *)
(***************************************************************************)
EXTENDS Integers, FiniteSets

CONSTANTS
    Targets,    \* every target the project may ever have
    Files,
    TargetsOf,  \* [Files -> SUBSET Targets]: the targets a file is compiled in
    Deps,       \* explicit dependencies, pairs <<target, dependency>>
    Graphs,     \* the sets of targets the project may have
    Hidden,     \* the dependencies only xcodebuild finds
    MaxTime     \* bound of the clock

ASSUME GraphAssumption ==
    /\ TargetsOf \in [Files -> SUBSET Targets]
    /\ Deps \subseteq Targets \X Targets
    /\ Hidden \subseteq Targets \X Targets
    /\ Graphs \subseteq SUBSET Targets
    /\ MaxTime \in Nat \ {0}

VARIABLES
    clock,      \* Date.now()
    graph,      \* the targets of the last loaded graph
    implicit,   \* implicitDependencies of the targets of the graph
    inverse,    \* inverseGraphImplicit, as pairs <<target, dependency>>
    status,     \* targetStatus
    touch,      \* lastTouchTime
    inval,      \* history: when the target was last put out of date
    judged,     \* history: the targets a build begun since then reported on
    hearsay     \* history: the targets a build begun since then took the word of
                \* an older one for

graphVars  == <<graph, implicit, inverse>>
statusVars == <<status, touch, inval, judged, hearsay>>
semVars == <<clock, graphVars, statusVars>>

Statuses == {"Unknown", "OutOfDate", "UpToDate", "UpToDateWithError"}
Times == 0 .. MaxTime

SemTypeOK ==
    /\ clock \in Times
    /\ graph \in SUBSET Targets
    /\ implicit \in SUBSET (Targets \X Targets)
    /\ inverse \in SUBSET (Targets \X Targets)
    /\ status \in [Targets -> Statuses]
    /\ touch \in [Targets -> Times]
    /\ inval \in [Targets -> Times]
    /\ {judged, hearsay} \subseteq SUBSET Targets

\* The graph was loaded for the first time: nothing is known of its targets.
SemInit ==
    /\ clock = 1
    /\ graph \in Graphs /\ implicit = {} /\ inverse = {}
    /\ status = [t \in Targets |-> IF t \in graph THEN "OutOfDate" ELSE "Unknown"]
    /\ touch = [t \in Targets |-> IF t \in graph THEN clock ELSE 0]
    /\ inval = touch
    /\ judged = {} /\ hearsay = {}

\* Time passes between events, or does not: Date.now() counts milliseconds.
Passes == clock' \in {clock, clock + 1} /\ clock' <= MaxTime

-----------------------------------------------------------------------------
(* Reading the graph *)

\* What is reachable from S along R: the least closed set that holds S.
Reach(S, R) ==
    {t \in Targets :
        \A C \in SUBSET Targets :
            S \subseteq C /\ (\A e \in R : e[1] \in C => e[2] \in C) => t \in C}

\* filesToTargets.
FileTargets(f) == TargetsOf[f] \cap graph

\* The traversal of getAllTargetsDependencies: it does not enter skipped targets.
AllDependencies(S, skip) ==
    Reach(S \ skip, {e \in Deps \cup implicit : e[1] \in graph /\ e[2] \notin skip})

\* getAllDependentTargets in the graph g.
DependentsIn(S, g) ==
    Reach(S, {<<e[2], e[1]>> : e \in {d \in Deps : d[1] \in g} \cup inverse})
AllDependents(S) == DependentsIn(S, graph)

-----------------------------------------------------------------------------
(* Changing the status *)

MarkOutOfDate(S, now) ==
    /\ status' = [t \in Targets |-> IF t \in S THEN "OutOfDate" ELSE status[t]]
    /\ touch' = [t \in Targets |-> IF t \in S THEN now ELSE touch[t]]
    /\ inval' = [t \in Targets |-> IF t \in S THEN now ELSE inval[t]]
    /\ judged' = judged \ S /\ hearsay' = hearsay \ S

\* Mutant: the time of the modification is not compared with that of the build.
AcceptsAlways(t, buildTime) == status[t] \in Statuses

\* markTargetUpToDate skips a target that was modified after the build began.
Accepts(t, buildTime) == ~(status[t] = "OutOfDate" /\ touch[t] > buildTime)

\* The history asks when the build that had the verdict began (told), the code when
\* the one did that heard of it.
MarkUpToDate(S, buildTime, told, verdict) ==
    LET T == {t \in S : Accepts(t, buildTime)} IN
    /\ status' = [t \in Targets |-> IF t \in T THEN verdict ELSE status[t]]
    /\ touch' = [t \in Targets |-> IF t \in T THEN buildTime ELSE touch[t]]
    /\ judged' = judged \cup {t \in T : told >= inval[t]}
    /\ hearsay' = hearsay \cup {t \in T : buildTime >= inval[t] /\ inval[t] > told}
    /\ UNCHANGED inval

\* markAllTargetsOutOfDate touches the targets that have an entry.
MarkAllOutOfDate(now) ==
    MarkOutOfDate({t \in Targets : status[t] # "Unknown"}, now)

-----------------------------------------------------------------------------
(* Changing the graph *)

SetImplicitDependency(from, to) ==
    /\ IF {from, to} \subseteq graph /\ <<from, to>> \notin Deps
       THEN /\ implicit' = implicit \cup {<<from, to>>}
            /\ inverse' = inverse \cup {<<from, to>>}
       ELSE UNCHANGED <<implicit, inverse>>
    /\ UNCHANGED graph

\* refreshSemanticGraph after its await: the new graph, and which of its old
\* targets got another set of files.  Implicit dependencies outlive a refresh,
\* their inverse even the target they start from.
RefreshGraph(new, modified, now) ==
    /\ graph' = new
    /\ implicit' = {e \in implicit : e[1] \in new}
    /\ MarkOutOfDate(DependentsIn((new \ graph) \cup (modified \cap new), new), now)
    /\ UNCHANGED inverse

-----------------------------------------------------------------------------
\* What a change has to reach can be found from both ends: no implicit
\* dependency is followed by builds but unknown to invalidation.
ImplicitIsInverted == implicit \subseteq inverse

=============================================================================
