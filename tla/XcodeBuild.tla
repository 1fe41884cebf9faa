------------------------------ MODULE XcodeBuild ------------------------------
(***************************************************************************)
(* A build for completion that is handed to a running Xcode                 *)
(* (Services/XcodeBuildExecutor.ts, called by BuildManager.buildAutocomplete):*)
(* a script tells Xcode to build the scheme, another one taps on its dialog, *)
(* and the end of the build is read off the manifest of Xcode's build logs.  *)
(* A log of the scheme that was not in the manifest before is taken for the  *)
(* build's own; it is printed through tee, and whether it counts errors is   *)
(* the verdict on the targets.                                               *)
(*                                                                         *)
(* Printer and tee are processes of module Executor.  The two scripts are    *)
(* calls like theirs, of which only the answer is followed.                  *)
(***************************************************************************)
EXTENDS Executor

CONSTANTS printer, tee

ASSUME XcodeAssumption ==
    /\ printer # tee /\ Procs = {printer, tee}
    /\ PipeOf = [p \in Procs |-> IF p = printer THEN tee ELSE NoProc]

VARIABLES
    manifest,  \* the newest of Xcode's logs of the scheme
    event,     \* a rename of the manifest that was not read yet
    previous,  \* previousLogs
    script,    \* the call of xcode_build.js
    watch,     \* watchXcactivitylog
    newest,    \* the log it took for the build's own
    phase,     \* startBuildInXcode
    marked     \* what was said of the targets: none, success, errors

logVars == <<manifest, event>>
buildVars == <<previous, script, watch, newest, phase, marked>>
xcodeVars == <<execVars, logVars, buildVars>>

\* A log of before, and one that is recorded later: for the build of the script or
\* for one the user started in Xcode, which nothing tells apart.
Logs == {"before", "later"}

XcodeTypeOK ==
    /\ ExecTypeOK
    /\ manifest \in Logs \cup {"none"} /\ event \in BOOLEAN
    /\ previous \subseteq Logs
    /\ script \in {"none", "running", "ok", "failed", "terminated"}
    /\ watch \in {"none", "watching", "reading", "printing", "over", "failed", "terminated"}
    /\ newest \in Logs \cup {"none"}
    /\ phase \in {"none", "starting", "waiting", "over"}
    /\ marked \in {"none", "success", "errors"}

XcodeInit ==
    /\ ExecInit
    /\ manifest \in {"none", "before"} /\ event = FALSE
    /\ previous = {} /\ script = "none" /\ watch = "none"
    /\ newest = "none"
    /\ phase = "none" /\ marked = "none"

-----------------------------------------------------------------------------
(* Xcode *)

\* The manifest is replaced for a build that ended, of this scheme or of another
\* one; bound: not any more once a log was taken.
Record(log) ==
    /\ watch \in {"none", "watching", "reading"}
    /\ manifest' = log /\ event' = TRUE
    /\ UNCHANGED <<execVars, buildVars>>

-----------------------------------------------------------------------------
(* startBuildInXcode *)

\* allLogsPath: a manifest that cannot be read passes for one without logs.
KnownLogs(logs) == logs \in {{}, {manifest} \ {"none"}}

\* The watch begins; it fails at once when there is no manifest yet.
StartBuild ==
    /\ phase = "none" /\ phase' = "starting"
    /\ KnownLogs(previous')
    /\ event' = FALSE
    /\ watch' \in IF manifest = "none" THEN {"watching", "failed"} ELSE {"watching"}
    /\ UNCHANGED <<execVars, manifest, script, newest, marked>>

\* The script is started; in a cancelled context that throws a rejected promise,
\* which nobody takes for a termination.
Launch ==
    /\ phase = "starting"
    /\ IF token
       THEN phase' = "over" /\ marked' = "errors" /\ UNCHANGED script
       ELSE phase' = "waiting" /\ script' = "running" /\ UNCHANGED marked
    /\ UNCHANGED <<execVars, logVars, previous, watch, newest>>

\* When it says that Xcode builds the second script is started; nobody waits for it.
ScriptEnds ==
    /\ script = "running" /\ script' \in {"ok", "failed"}
    /\ UNCHANGED <<execVars, logVars, previous, watch, newest,
                   phase, marked>>

\* The script is a call of the context as well.
Terminates(A) ==
    /\ phase # "none"
    /\ A
    /\ script' = IF script = "running" THEN "terminated" ELSE script
    /\ UNCHANGED <<logVars, previous, watch, newest,
                   phase, marked>>

\* By the user, a newer command, or watchXcodeProcesses when Xcode has gone.
Cancel == Terminates(CancelContext)

Close == Terminates(CloseTerminal)

-----------------------------------------------------------------------------
(* watchXcactivitylog *)

\* A rename of the manifest; in a cancelled context the watch just returns.  Bounds:
\* the script was launched, which takes less than to read the manifest; and the
\* watch that outlives a failed script is not followed.
Notice ==
    /\ phase = "waiting" /\ watch = "watching" /\ event
    /\ event' = FALSE
    /\ watch' = IF token THEN "over" ELSE "reading"
    /\ UNCHANGED <<execVars, manifest, previous, script, newest,
                   phase, marked>>

\* Mutant: a log of before the build is taken as well.
IsNewAlways(log) == TRUE

IsNew(log) == log \notin previous

\* newestLogpath: a log that is new is printed.
TakeNewest ==
    /\ phase = "waiting" /\ watch = "reading" /\ manifest # "none" /\ IsNew(manifest)
    /\ newest' = manifest /\ event' = FALSE
    /\ IF token
       THEN watch' = "failed" /\ UNCHANGED execVars
       ELSE watch' = "printing" /\ Execute({printer, tee})
    /\ UNCHANGED <<manifest, previous, script, phase, marked>>

\* No log of the scheme, one that is known, or the manifest cannot be read.
GoOnWatching ==
    /\ watch = "reading" /\ watch' = "watching"
    /\ UNCHANGED <<execVars, logVars, previous, script, newest, phase, marked>>

\* The log that was printed may count errors.
Printed ==
    /\ watch = "printing" /\ result[printer] # "pending"
    /\ watch' \in CASE result[printer] = "terminated" -> {"terminated"}
                    [] result[printer] = "ok" -> {"over", "failed"}
                    [] OTHER -> {"failed"}
    /\ UNCHANGED <<execVars, logVars, previous, script, newest, phase, marked>>

\* Promise.all of the script and the watch, both fine or the first to fail, and the
\* verdict of buildAutocomplete on the targets.
Return ==
    /\ phase = "waiting" /\ phase' = "over"
    /\ \/ script = "ok" /\ watch = "over" /\ marked' = "success"
       \/ "failed" \in {script, watch} /\ marked' = "errors"
       \/ "terminated" \in {script, watch} /\ marked' = "none"
    /\ UNCHANGED <<execVars, logVars, previous, script, watch, newest>>

-----------------------------------------------------------------------------
Within(A) == A /\ UNCHANGED <<logVars, buildVars>>

XcodeNext ==
    \/ Record("later") \/ Record(manifest)
    \/ StartBuild \/ Launch \/ ScriptEnds \/ Cancel \/ Close
    \/ Notice \/ TakeNewest \/ GoOnWatching \/ Printed \/ Return
    \/ \E p \in Procs :
         \/ \E how \in {"ok", "error"} : Within(Dies(p, how)) /\ (p = tee => how = "error")
         \/ Within(EndsWithInput(p)) \/ Within(OutputEnds(p)) \/ Within(Reuse(p))
         \/ Within(Forks(p)) \/ Within(OffspringEnds(p))
         \/ Within(Handling(p))

(***************************************************************************)
(* Node runs its callbacks and timers, signals arrive and SIGKILL cannot be *)
(* ignored, a filter ends with its input.  Neither Xcode nor a script need   *)
(* ever come to an end.  One condition for all of these steps is enough:     *)
(* there are finitely many of them in a behaviour.                          *)
(***************************************************************************)
XcodeFairness ==
    WF_xcodeVars(\E p \in Procs : Within(Handling(p) \/ EndsWithInput(p)))

XcodeSpec == XcodeInit /\ [][XcodeNext]_xcodeVars /\ XcodeFairness

-----------------------------------------------------------------------------
(* Correctness *)

\* The work of a cancelled context comes to its end, that of descendants included,
\* whether they heed SIGINT or not.  The code gives up on it in these cases only: the
\* lookup or the kill failed; the process of the call had ended without its SIGKILL,
\* for nobody looks at descendants then; or they were started while it was being
\* killed (Executor.ts:197-211, utils.ts:63-107).
GivenUp(p) ==
    \/ ending[p] = "failed"
    \/ ends[p] \in {"ok", "error", "signal"}
    \/ offspring[p] = "missed"
CancelEndsProcesses == token ~> \A p \in Procs : ~Works(p) \/ GivenUp(p)

\* Who waits for a process that has ended and that was piped into another one is
\* answered, even when its output is held open by a process of its own
\* (Executor.ts:248-292).
ResultsSettle ==
    \A p \in {q \in Procs : PipeOf[q] # NoProc} :
        Over(p) /\ result[p] = "pending" ~> result[p] # "pending"

\* "we need to make sure we are killing the right process": a signal that is under way
\* to a pid which is a stranger's by now was sent when the pid was our process's own,
\* and lost while killAll listed the children -- or ours was ended by a signal, so that
\* its exit code never comes (utils.ts:63-107).
StrangersAreSpared ==
    \A p \in Procs :
        ending[p] \in {"SIGINT", "SIGKILL"} /\ life[p] = "reused" =>
            held[p] \/ Signalled(p)

\* The targets are marked as built only because of a log without errors that Xcode
\* recorded since the build was started -- unless the context is cancelled, when the
\* next change of the manifest ends the watch as if all were well, or the manifest
\* could not be read at the start, when any log is new
\* (XcodeBuildExecutor.ts:50-57, 179-217).
SuccessHasLog ==
    marked = "success" => newest = "later" \/ token \/ previous = {}

=============================================================================
