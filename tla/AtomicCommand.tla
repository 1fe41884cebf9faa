---------------------------- MODULE AtomicCommand ----------------------------
(***************************************************************************)
(* The command serialiser of the extension                                 *)
(* (src/src/CommandManagement/AtomicCommand.ts): user commands and the     *)
(* background autocomplete watcher share one async mutex.  A new command    *)
(* cancels the context of the one that runs and waits for the mutex; a     *)
(* watcher never preempts a user command, it is refused.                   *)
(*                                                                         *)
(* JavaScript runs one callback to completion and drains its microtasks    *)
(* (the continuations of promises that are already settled) before the     *)
(* next callback.  Quiescent says that no continuation is pending; every    *)
(* action that starts from a callback (a call, a timer, an answer of VS     *)
(* Code, a process that ends) requires it.                                  *)
(***************************************************************************)
EXTENDS Naturals, Sequences

CONSTANTS
    Users,      \* calls of userCommand, each made at most once
    TaskUsers,  \* the user calls made by BuildTaskProvider.customExecution
    Watchers,   \* calls of autoWatchCommand, each made at most once
    Scopes,     \* include/exclude targets an "xcode-watch" task may carry
    NoOp,       \* no operation (undefined)
    NoScope     \* no watcherTaskData (undefined)

Ops == Users \cup Watchers

ASSUME OpsAssumption ==
    /\ Users \cap Watchers = {}
    /\ TaskUsers \subseteq Users
    /\ NoOp \notin Ops
    /\ NoScope \notin Scopes

VARIABLES
    latest,      \* whose object latestOperationID is
    latestType,  \* latestOperationID.type
    executing,   \* _executingCommand
    holder,      \* the operation the mutex is handed to; NoOp: unlocked
    queue,       \* the waiters of the mutex, first in first out
    prevCtx,     \* _prevCommandContext, as the operation that made it
    fetching,    \* _fetchingTasks
    taskData,    \* _watcherTaskData
    pc,          \* where the call of each operation is
    waits,       \* shouldWait / wasLocked of the call
    closure,     \* the command's own work
    promise,     \* the promise withCancellation made for it
    cancelled,   \* operations whose context is cancelled
    disposed,    \* operations whose context was disposed by a finally block
    outcome      \* how the call ended

lockVars == <<holder, queue>>
taskVars == <<fetching, taskData>>
workVars == <<closure, promise>>
ctxVars  == <<prevCtx, cancelled, disposed>>
idVars   == <<latest, latestType, executing>>
vars == <<idVars, lockVars, ctxVars, taskVars, workVars, pc, waits, outcome>>

Kinds == {"user", "autowatcher"}
KindOf(op) == IF op \in Users THEN "user" ELSE "autowatcher"

\* The places where the holder of the mutex can be.
Holding == {"granted", "sleeping", "fetching", "launching", "running"}

TypeOK ==
    /\ latest \in Ops \cup {NoOp}
    /\ latestType \in Kinds \cup {"none"}
    /\ executing \in Kinds \cup {"none"}
    /\ holder \in Ops \cup {NoOp}
    /\ queue \in Seq(Ops)
    /\ prevCtx \in Ops \cup {NoOp}
    /\ fetching \in BOOLEAN
    /\ taskData \in Scopes \cup {NoScope}
    /\ pc \in [Ops -> Holding \cup {"idle", "queued", "done"}]
    /\ waits \in [Ops -> BOOLEAN]
    /\ closure \in [Ops -> {"none", "running", "ended"}]
    /\ promise \in [Ops -> {"none", "pending", "resolved", "rejected"}]
    /\ cancelled \in SUBSET Ops
    /\ disposed \in SUBSET Ops
    /\ outcome \in [Ops -> {"none", "ok", "failed", "stale", "refused", "unlaunched"}]

Init ==
    /\ latest = NoOp /\ latestType = "none" /\ executing = "none"
    /\ holder = NoOp /\ queue = <<>>
    /\ prevCtx = NoOp /\ cancelled = {} /\ disposed = {}
    /\ fetching = FALSE /\ taskData = NoScope
    /\ pc = [op \in Ops |-> "idle"]
    /\ waits = [op \in Ops |-> FALSE]
    /\ closure = [op \in Ops |-> "none"]
    /\ promise = [op \in Ops |-> "none"]
    /\ outcome = [op \in Ops |-> "none"]

Locked == holder # NoOp

\* A continuation of op is in the microtask queue.
Ready(op) ==
    \/ pc[op] = "granted"
    \/ pc[op] = "running" /\ promise[op] \in {"resolved", "rejected"}
Quiescent == \A op \in Ops : ~Ready(op)

-----------------------------------------------------------------------------
(* Contexts *)

\* context.cancel() of operation c (no context when c is NoOp): the first time,
\* the listener of withCancellation rejects the promise at once; the closure
\* keeps running.
CancelContextOf(c) ==
    /\ cancelled' = cancelled \cup ({c} \ {NoOp})
    /\ promise' = [op \in Ops |->
                     IF op = c /\ op \notin cancelled /\ promise[op] = "pending"
                     THEN "rejected" ELSE promise[op]]

\* Ask for the mutex: granted at once when it is free, else wait in the queue.
Acquire(op) ==
    IF Locked
    THEN /\ queue' = Append(queue, op)
         /\ pc' = [pc EXCEPT ![op] = "queued"]
         /\ UNCHANGED holder
    ELSE /\ holder' = op
         /\ pc' = [pc EXCEPT ![op] = "granted"]
         /\ UNCHANGED queue

\* Mutant: the finally block does not dispose a watcher's context.
FinallyKeepsContext(op, result) ==
    /\ latestType' = "none" /\ executing' = "none"
    /\ outcome' = [outcome EXCEPT ![op] = result]
    /\ IF queue = <<>>
       THEN /\ holder' = NoOp
            /\ pc' = [pc EXCEPT ![op] = "done"]
            /\ UNCHANGED queue
       ELSE /\ holder' = Head(queue)
            /\ queue' = Tail(queue)
            /\ pc' = [pc EXCEPT ![op] = "done", ![Head(queue)] = "granted"]
    /\ UNCHANGED disposed

\* The finally block of the call of op, and the hand-over of the mutex.  It
\* clears the type of whichever object latestOperationID is by then.
Finally(op, result) ==
    /\ latestType' = "none" /\ executing' = "none"
    /\ outcome' = [outcome EXCEPT ![op] = result]
    /\ disposed' = IF op \in Watchers /\ pc[op] # "granted"
                   THEN disposed \cup {op} ELSE disposed
    /\ IF queue = <<>>
       THEN /\ holder' = NoOp
            /\ pc' = [pc EXCEPT ![op] = "done"]
            /\ UNCHANGED queue
       ELSE /\ holder' = Head(queue)
            /\ queue' = Tail(queue)
            /\ pc' = [pc EXCEPT ![op] = "done", ![Head(queue)] = "granted"]

-----------------------------------------------------------------------------
(* Calls *)

\* autoWatchCommand while the newest request is a user's: thrown before the
\* try block, nothing changes.
RefuseWatch(w) ==
    /\ Quiescent /\ pc[w] = "idle"
    /\ latestType = "user"
    /\ pc' = [pc EXCEPT ![w] = "done"]
    /\ outcome' = [outcome EXCEPT ![w] = "refused"]
    /\ UNCHANGED <<idVars, lockVars, ctxVars, taskVars, workVars, waits>>

\* autoWatchCommand that gets the mutex, or preempts another watcher.
CallWatch(w) ==
    /\ Quiescent /\ pc[w] = "idle"
    /\ latestType # "user"
    /\ Locked => executing = "autowatcher"
    /\ latest' = w /\ latestType' = "autowatcher"
    /\ IF Locked THEN CancelContextOf(prevCtx) ELSE UNCHANGED <<cancelled, promise>>
    /\ waits' = [waits EXCEPT ![w] = Locked]
    /\ Acquire(w)
    /\ UNCHANGED <<executing, prevCtx, disposed, taskVars, closure, outcome>>

\* autoWatchCommand while something else holds the mutex: thrown inside the
\* try block, so the finally block runs although w holds nothing.
RefuseWatchLocked(w) ==
    /\ Quiescent /\ pc[w] = "idle"
    /\ latestType # "user"
    /\ Locked /\ executing # "autowatcher"
    /\ latest' = w /\ latestType' = "none" /\ executing' = "none"
    /\ pc' = [pc EXCEPT ![w] = "done"]
    /\ outcome' = [outcome EXCEPT ![w] = "refused"]
    /\ UNCHANGED <<lockVars, ctxVars, taskVars, workVars, waits>>

\* Mutant: a user command waits for the one that runs instead of cancelling it.
CallUserPatient(u) ==
    /\ Quiescent /\ pc[u] = "idle"
    /\ latest' = u /\ latestType' = "user"
    /\ waits' = [waits EXCEPT ![u] = Locked]
    /\ Acquire(u)
    /\ UNCHANGED <<executing, ctxVars, taskVars, workVars, outcome>>

\* userCommand: always accepted, cancels whatever runs.  A task of VS Code
\* calls cancel() first, which also forgets the previous context.
CallUser(u) ==
    /\ Quiescent /\ pc[u] = "idle"
    /\ latest' = u /\ latestType' = "user"
    /\ IF Locked THEN CancelContextOf(prevCtx) ELSE UNCHANGED <<cancelled, promise>>
    /\ prevCtx' = IF Locked /\ u \in TaskUsers THEN NoOp ELSE prevCtx
    /\ waits' = [waits EXCEPT ![u] = Locked]
    /\ Acquire(u)
    /\ UNCHANGED <<executing, disposed, taskVars, closure, outcome>>

\* cancel(): deactivation of the extension, or a task whose token is already
\* cancelled.
Cancel ==
    /\ Quiescent /\ Locked
    /\ CancelContextOf(prevCtx)
    /\ prevCtx' = NoOp
    /\ UNCHANGED <<idVars, lockVars, disposed, taskVars, closure, pc, waits, outcome>>

\* The work of a command, or a debug session, test run or Xcode watcher it
\* started, cancels the command's own context.
CancelOwnContext(op) ==
    /\ Quiescent /\ closure[op] # "none" /\ op \notin cancelled
    /\ CancelContextOf(op)
    /\ UNCHANGED <<idVars, lockVars, prevCtx, disposed, taskVars, closure,
                   pc, waits, outcome>>

-----------------------------------------------------------------------------
(* The call, from the mutex to its end *)

\* A newer operation was requested while op waited: E_CANCELED.
DropStale(op) ==
    /\ pc[op] = "granted" /\ latest # op
    /\ Finally(op, "stale")
    /\ UNCHANGED <<latest, prevCtx, cancelled, taskVars, workVars, waits>>

\* fetchTasks begins: the task provider may deliver its data from here on.  The
\* closure is given what taskData holds at the end of the fetch.
BeginFetch(op) ==
    /\ fetching' = TRUE /\ taskData' = NoScope
    /\ pc' = [pc EXCEPT ![op] = "fetching"]
    /\ UNCHANGED workVars

\* withCancellation starts the closure, even when the context is cancelled by
\* then; a user command run from a task has no executeTask to wait for.
StartClosure(op) ==
    /\ closure' = [closure EXCEPT ![op] = "running"]
    /\ promise' = [promise EXCEPT ![op] = "pending"]
    /\ pc' = [pc EXCEPT ![op] = IF op \in TaskUsers THEN "running" ELSE "launching"]

Proceed(op) ==
    IF op \in Watchers
    THEN BeginFetch(op)
    ELSE StartClosure(op) /\ UNCHANGED taskVars

\* Mutant: the new context is not published as the previous one.
AdmitUnpublished(op) ==
    /\ pc[op] = "granted" /\ latest = op
    /\ executing' = KindOf(op)
    /\ IF waits[op]
       THEN /\ pc' = [pc EXCEPT ![op] = "sleeping"]
            /\ UNCHANGED <<taskVars, workVars>>
       ELSE Proceed(op)
    /\ UNCHANGED <<latest, latestType, lockVars, ctxVars, waits, outcome>>

\* The newest operation got the mutex: it becomes the executing command with a
\* context of its own, and gives a preempted one 500 ms to stop.
Admit(op) ==
    /\ pc[op] = "granted" /\ latest = op
    /\ executing' = KindOf(op)
    /\ prevCtx' = op
    /\ IF waits[op]
       THEN /\ pc' = [pc EXCEPT ![op] = "sleeping"]
            /\ UNCHANGED <<taskVars, workVars>>
       ELSE Proceed(op)
    /\ UNCHANGED <<latest, latestType, lockVars, cancelled, disposed, waits, outcome>>

WakeUp(op) ==
    /\ Quiescent /\ pc[op] = "sleeping"
    /\ Proceed(op)
    /\ UNCHANGED <<idVars, lockVars, ctxVars, waits, outcome>>

\* BuildTaskProvider.resolveTask for an "xcode-watch" task.  watcherTaskData
\* has a setter and no getter: what the provider reads is always undefined, so
\* each task overwrites the one before.
ResolveTask(s) ==
    /\ Quiescent /\ fetching
    /\ taskData' = s
    /\ UNCHANGED <<idVars, lockVars, ctxVars, fetching, workVars,
                   pc, waits, outcome>>

FetchDone(op) ==
    /\ Quiescent /\ pc[op] = "fetching"
    /\ fetching' = FALSE
    /\ StartClosure(op)
    /\ UNCHANGED <<idVars, lockVars, ctxVars, taskData, waits, outcome>>

FetchFails(op) ==
    /\ Quiescent /\ pc[op] = "fetching"
    /\ fetching' = FALSE
    /\ Finally(op, "failed")
    /\ UNCHANGED <<latest, prevCtx, cancelled, taskData, workVars, waits>>

\* vscode.tasks.executeTask answers; it may also be rejected while the closure
\* is already at work.
Launched(op) ==
    /\ Quiescent /\ pc[op] = "launching"
    /\ pc' = [pc EXCEPT ![op] = "running"]
    /\ UNCHANGED <<idVars, lockVars, ctxVars, taskVars, workVars, waits, outcome>>

LaunchFails(op) ==
    /\ Quiescent /\ pc[op] = "launching"
    /\ Finally(op, "unlaunched")
    /\ UNCHANGED <<latest, prevCtx, cancelled, taskVars, workVars, waits>>

\* The listener of a token that was cancelled before it was attached is called
\* from a timer.
LateCancel(op) ==
    /\ Quiescent /\ op \in cancelled /\ promise[op] = "pending"
    /\ promise' = [promise EXCEPT ![op] = "rejected"]
    /\ UNCHANGED <<idVars, lockVars, ctxVars, taskVars, closure, pc, waits, outcome>>

ClosureEnds(op) ==
    /\ Quiescent /\ closure[op] = "running"
    /\ closure' = [closure EXCEPT ![op] = "ended"]
    /\ \E r \in {"resolved", "rejected"} :
         promise' = [promise EXCEPT ![op] = IF @ = "pending" THEN r ELSE @]
    /\ UNCHANGED <<idVars, lockVars, ctxVars, taskVars, pc, waits, outcome>>

Settle(op) ==
    /\ pc[op] = "running" /\ promise[op] \in {"resolved", "rejected"}
    /\ Finally(op, IF promise[op] = "resolved" THEN "ok" ELSE "failed")
    /\ UNCHANGED <<latest, prevCtx, cancelled, taskVars, workVars, waits>>

-----------------------------------------------------------------------------
\* Every call has returned and no closure is left behind.
Terminated ==
    /\ \A op \in Ops : pc[op] = "done" /\ closure[op] # "running"
    /\ UNCHANGED vars

\* What the extension does by itself once a command was requested.
Step(op) ==
    \/ DropStale(op) \/ Admit(op) \/ WakeUp(op)
    \/ FetchDone(op) \/ FetchFails(op)
    \/ Launched(op) \/ LaunchFails(op)
    \/ LateCancel(op) \/ Settle(op)

Next ==
    \/ \E w \in Watchers : RefuseWatch(w) \/ CallWatch(w) \/ RefuseWatchLocked(w)
    \/ \E u \in Users : CallUser(u)
    \/ Cancel
    \/ \E s \in Scopes : ResolveTask(s)
    \/ \E op \in Ops : CancelOwnContext(op) \/ Step(op) \/ ClosureEnds(op)
    \/ Terminated

Spec == Init /\ [][Next]_vars

\* Timers fire, VS Code answers, continuations run.  Nothing is assumed of the
\* closures: a command may never end by itself.
Fairness == \A op \in Ops : WF_vars(Step(op))
FairSpec == Spec /\ Fairness

-----------------------------------------------------------------------------
(* Safety *)

\* The work of op can learn that it must stop: isCancelledOrDisposed.
Told(op) == op \in cancelled \cup disposed

\* The mutex does not bound the closures: withCancellation gives it up while a
\* cancelled closure is still at work.  A closure that outlives its call was
\* told to stop -- or belongs to a user command whose terminal task VS Code
\* refused to start.
AbandonedClosureIsTold ==
    \A op \in Ops :
        closure[op] = "running" /\ pc[op] = "done"
            => Told(op) \/ (op \in Users /\ outcome[op] = "unlaunched")

\* Two commands at work at the same time: one of them is on its way out.
ExclusiveCommand ==
    \A a, b \in Ops :
        /\ a # b
        /\ closure[a] = "running" /\ closure[b] = "running"
        => \E op \in {a, b} : Told(op) \/ outcome[op] = "unlaunched"

\* Between callbacks, the context a new command or cancel() would cancel is
\* that of the command in the mutex, unless this one is cancelled already.
CancelReachesHolder ==
    Quiescent /\ Locked => prevCtx = holder \/ holder \in cancelled

\* Nobody waits behind a command that was not told to stop.
WaitersPreemptHolder ==
    Quiescent /\ queue # <<>> => holder \in cancelled

\* A watcher builds with the targets of a task that was resolved in its own
\* fetch: the flag the task provider reads is up only in the holder's window.
FetchWindowIsHolders ==
    /\ fetching => Locked /\ holder \in Watchers /\ pc[holder] = "fetching"
    /\ \A op \in Ops : pc[op] = "fetching" => fetching /\ op = holder

\* "User task is currently executing": a watcher is only refused while a user
\* command waits, runs or is being admitted -- although every finally block,
\* that of a refused watcher too, clears the two fields the refusal is based on.
RefusedOnlyForUser ==
    [][\A w \in Watchers :
        outcome[w] = "none" /\ outcome'[w] = "refused"
            => \E u \in Users : pc[u] \in Holding \cup {"queued"}]_vars

\* A user command is dropped without a trace (E_CANCELED is swallowed) only in
\* favour of a newer user command that is still waiting.
DroppedOnlyForNewerUser ==
    [][\A u \in Users :
        outcome[u] = "none" /\ outcome'[u] = "stale"
            => latest \in Users \ {u} /\ pc[latest] = "queued"]_vars

-----------------------------------------------------------------------------
(* What the serialiser promises *)

PhaseOf(p) ==
    CASE p \in {"queued", "granted"} -> "waiting"
      [] p \in {"sleeping", "fetching", "launching", "running"} -> "inside"
      [] p = "done" -> "over"
      [] OTHER -> "idle"

Promise == INSTANCE CommandSlot WITH
    phase   <- [op \in Ops |-> PhaseOf(pc[op])],
    told    <- cancelled \cup disposed,
    working <- {op \in Ops : closure[op] = "running"},
    lost    <- {op \in Users : outcome[op] = "unlaunched"}

\* The mutex, the two type fields, the previous context and the finally blocks
\* together keep the promise of CommandSlot: in every step at most one operation
\* is inside, whoever asks has told it to stop, a watcher is refused only for a
\* user command, a user command is dropped only for a newer one.
KeepsPromise == Promise!Spec

-----------------------------------------------------------------------------
(* Liveness *)

\* The newest user command starts, whatever the commands before it do: no
\* closure is assumed to end.
UserCommandStarts ==
    \A u \in Users :
        pc[u] = "queued" ~> (closure[u] # "none" \/ outcome[u] = "stale")

=============================================================================
