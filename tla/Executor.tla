------------------------------- MODULE Executor -------------------------------
(***************************************************************************)
(* The processes a command starts in its context (src/src/Executor.ts,      *)
(* CommandManagement/CommandContext.ts) and how they are ended: the         *)
(* cancellation of the context or the closing of its terminal rejects a      *)
(* result at once, sends SIGINT and, 25 s later, SIGKILL to whoever has the  *)
(* pid then (utils.ts, ensureKilled).  Both signals go to the process and to *)
(* its descendants, one by one; only the process itself is looked at again.  *)
(* What the processes do, and who starts them, is for the module that        *)
(* extends this one.                                                         *)
(***************************************************************************)
EXTENDS Naturals

CONSTANTS
    Procs,   \* calls of execShellByGettingProc, each made at most once
    PipeOf,  \* the call whose process reads the output of another one's
    Wayward, \* bound: the calls whose processes may start others, lose their pid
             \* to a stranger, or escape the lookup
    NoProc

ASSUME ProcsAssumption ==
    /\ NoProc \notin Procs
    /\ Wayward \subseteq Procs
    /\ PipeOf \in [Procs -> Procs \cup {NoProc}]

VARIABLES
    token,     \* the context is cancelled
    terminal,  \* its terminal is closed
    life,      \* none, running, zombie (node does not know yet), gone, reused (a
               \* stranger has the pid)
    offspring, \* its descendants: none, some, or some that SIGKILL will miss,
               \* being started after they were listed
    ends,      \* how it ended: exitCode 0, another one, a signal, our SIGKILL
    result,    \* the promise of its result
    stdin,     \* the processes whose input came to its end
    ending,    \* killAction: the signal under way, or where ensureKilled is
    held       \* history: was the pid its own when killAll was called with it

procVars == <<life, offspring, ends>>
execVars == <<token, terminal, procVars, result, stdin, ending, held>>

ExecTypeOK ==
    /\ {token, terminal} \subseteq BOOLEAN
    /\ life \in [Procs -> {"none", "running", "zombie", "gone", "reused"}]
    /\ offspring \in [Procs -> {"none", "some", "missed"}]
    /\ ends \in [Procs -> {"none", "ok", "error", "signal", "killed"}]
    /\ result \in [Procs -> {"none", "pending", "ok", "error", "signal", "terminated"}]
    /\ stdin \subseteq Procs
    /\ ending \in [Procs -> {"none", "SIGINT", "sleeping", "listed", "SIGKILL",
                             "over", "failed"}]
    /\ held \in [Procs -> BOOLEAN]

ExecInit ==
    /\ token = FALSE /\ terminal = FALSE
    /\ life = [p \in Procs |-> "none"] /\ ends = [p \in Procs |-> "none"]
    /\ offspring = [p \in Procs |-> "none"]
    /\ result = [p \in Procs |-> "none"]
    /\ stdin = {}
    /\ ending = [p \in Procs |-> "none"] /\ held = [p \in Procs |-> FALSE]

Over(p) == life[p] \in {"gone", "reused"}

Signalled(p) == ends[p] \in {"signal", "killed"}

\* Node has a number in proc.exitCode: not for a process a signal has ended.
ExitCodeKnown(p) == Over(p) /\ ~Signalled(p)

\* The process or what it started is at work.
Works(p) == life[p] = "running" \/ offspring[p] # "none"

\* A signal is on its way to the pid, or somebody will come back to it.
Pursued(p) == ending[p] \in {"SIGINT", "sleeping", "listed", "SIGKILL"}

\* The listeners of a call, for cancellation and for the terminal, are attached.
Listening(p) == result[p] = "pending" /\ ~Over(p)

\* A call with the call it pipes into, in a context that is not cancelled.
Execute(ps) ==
    /\ life' = [p \in Procs |-> IF p \in ps THEN "running" ELSE life[p]]
    /\ result' = [p \in Procs |-> IF p \in ps THEN "pending" ELSE result[p]]
    /\ UNCHANGED <<token, terminal, offspring, ends, stdin, ending, held>>

-----------------------------------------------------------------------------
(* Processes *)

\* The process itself ends; its descendants go on.
Die(p, how) ==
    /\ life' = [life EXCEPT ![p] = "zombie"]
    /\ ends' = [ends EXCEPT ![p] = how]

\* A process ends by itself.
Dies(p, how) ==
    /\ life[p] = "running"
    /\ Die(p, how)
    /\ UNCHANGED <<token, terminal, offspring, result, stdin, ending, held>>

\* It starts another one; what descendants start counts among them.
Forks(p) ==
    /\ p \in Wayward /\ life[p] = "running"
    /\ offspring' = [offspring EXCEPT ![p] = IF ending[p] = "SIGKILL" THEN "missed"
                                             ELSE IF @ = "none" THEN "some" ELSE @]
    /\ UNCHANGED <<token, terminal, life, ends, result, stdin, ending, held>>

\* The last of them ends.
OffspringEnds(p) ==
    /\ offspring[p] # "none"
    /\ offspring' = [offspring EXCEPT ![p] = "none"]
    /\ UNCHANGED <<token, terminal, life, ends, result, stdin, ending, held>>

\* What reads a pipe ends with its input.
EndsWithInput(p) == p \in stdin /\ Dies(p, "ok")

\* Nobody holds the output of p open any more.
OutputEnds(p) ==
    /\ ends[p] # "none" /\ PipeOf[p] # NoProc
    /\ stdin' = stdin \cup {PipeOf[p]}
    /\ UNCHANGED <<token, terminal, procVars, result, ending, held>>

Reaped(p) ==
    /\ life[p] = "zombie"
    /\ life' = [life EXCEPT ![p] = "gone"]
    /\ UNCHANGED <<token, terminal, offspring, ends, result, ending, held>>

\* Mutant: the input of the pipe is left to its streams.
ExitEventQuiet(p) == Reaped(p) /\ UNCHANGED stdin

\* "exit": node has reaped the process, and its pid is free.  The pipe's input
\* ends even when a grandchild holds the output open.
ExitEvent(p) == Reaped(p) /\ stdin' = stdin \cup ({PipeOf[p]} \ {NoProc})

\* The exit handler goes on when the pipe's result is there, good or bad.
Settle(p) ==
    /\ Over(p) /\ result[p] = "pending"
    /\ PipeOf[p] # NoProc => result[PipeOf[p]] # "pending"
    /\ result' = [result EXCEPT ![p] = IF Signalled(p) THEN "signal" ELSE ends[p]]
    /\ UNCHANGED <<token, terminal, procVars, stdin, ending, held>>

\* Another process gets the pid, while somebody may still signal it.
Reuse(p) ==
    /\ p \in Wayward /\ life[p] = "gone" /\ Pursued(p)
    /\ life' = [life EXCEPT ![p] = "reused"]
    /\ UNCHANGED <<token, terminal, offspring, ends, result, stdin, ending, held>>

-----------------------------------------------------------------------------
(* Cancellation *)

\* The listeners of every call: the result is rejected; killAction calls killAll
\* with SIGINT and asks ensureKilled.
TerminateAll ==
    /\ result' = [p \in Procs |-> IF Listening(p) THEN "terminated" ELSE result[p]]
    /\ ending' = [p \in Procs |-> IF Listening(p) THEN "SIGINT" ELSE ending[p]]
    /\ held' = [p \in Procs |-> IF Listening(p) THEN ~Over(p) ELSE held[p]]
    /\ UNCHANGED <<procVars, stdin>>

CancelContext ==
    /\ ~token /\ token' = TRUE
    /\ TerminateAll
    /\ UNCHANGED terminal

\* The terminal ends what runs in it; the context is not cancelled.  In a cancelled
\* one nobody listens any more.
CloseTerminal ==
    /\ ~token /\ ~terminal /\ terminal' = TRUE
    /\ TerminateAll
    /\ UNCHANGED token

Goes(p, from, to) ==
    /\ ending[p] = from
    /\ ending' = [ending EXCEPT ![p] = to]
    /\ UNCHANGED <<token, terminal, result, stdin>>

\* The signal, sent when psTree has listed the children, arrives at whoever has the
\* pid by then, and at each descendant.  Any of them may ignore SIGINT, end because
\* of it, or in good order.
Interrupt(p) ==
    /\ Goes(p, "SIGINT", "sleeping")
    /\ \/ UNCHANGED <<life, ends>>
       \/ life[p] = "running" /\ \E how \in {"signal", "error"} : Die(p, how)
    /\ \/ UNCHANGED offspring
       \/ offspring' = [offspring EXCEPT ![p] = "none"]
    /\ UNCHANGED held

\* SIGKILL ends the process and the descendants that were listed; of a process that
\* ended meanwhile the descendants may be found or not.
Kill(p) ==
    /\ Goes(p, "SIGKILL", "over")
    /\ IF life[p] = "running" THEN Die(p, "killed") ELSE UNCHANGED <<life, ends>>
    /\ \/ offspring' = [offspring EXCEPT ![p] = IF @ = "some" THEN "none" ELSE @]
       \/ life[p] # "running" /\ UNCHANGED offspring
    /\ UNCHANGED held

\* Mutant: whoever was sent a signal passes for dead (proc.killed).
FindUnlessKilled(p) == Goes(p, "sleeping", "over") /\ UNCHANGED <<procVars, held>>

\* ensureKilled, after 25 s: find("pid", ...) lists whoever has the pid now.
Find(p) ==
    /\ Goes(p, "sleeping",
            IF ExitCodeKnown(p) \/ life[p] = "gone" THEN "over" ELSE "listed")
    /\ UNCHANGED <<procVars, held>>

\* Mutant: the exit code is not looked at again.
CheckOnce(p) ==
    /\ Goes(p, "listed", "SIGKILL")
    /\ held' = [held EXCEPT ![p] = ~Over(p)]
    /\ UNCHANGED procVars

\* The answer of find is used: killAll lists the children once more.
Check(p) ==
    /\ Goes(p, "listed", IF ExitCodeKnown(p) THEN "over" ELSE "SIGKILL")
    /\ held' = [held EXCEPT ![p] = ~Over(p)]
    /\ UNCHANGED procVars

\* The lookup fails, or killAll cannot list or signal: it is logged, and nobody
\* tries again.
KillFails(p) ==
    /\ p \in Wayward
    /\ Goes(p, "listed", "failed") \/ Goes(p, "SIGKILL", "failed")
    /\ UNCHANGED <<procVars, held>>

\* What node and the system do by themselves.
Handling(p) ==
    \/ ExitEvent(p) \/ Settle(p)
    \/ Interrupt(p) \/ Find(p) \/ Check(p) \/ Kill(p) \/ KillFails(p)

=============================================================================
