------------------------------- MODULE BuildSpy -------------------------------
(***************************************************************************)
(* How the extension learns which targets a build got through: xcodebuild's *)
(* build service runs behind a proxy whose client writes verdicts on        *)
(* targets into a spy file                                                 *)
(* (src/src/XCBBuildServiceProxy/TargetBuildingMessageSpy.py,               *)
(* TrieSignature.py), and the extension polls that file                     *)
(* (src/src/Services/BuildTargetSpy.ts).  There is one file for the session: *)
(* a cancelled build whose xcodebuild takes its time to die (ensureKilled    *)
(* gives it 25 s) shares it with its successor.                             *)
(*                                                                         *)
(* The lines of the file are taken to have the same length, so offsets       *)
(* count lines.                                                             *)
(***************************************************************************)
EXTENDS Integers, Sequences, FiniteSets, Functions

CONSTANTS
    MaxBuilds,  \* bound on the builds, which are numbered in order
    Targets,
    Covers,     \* [Builds -> SUBSET Targets]: what the service builds for each
    Prefix,     \* pairs of targets, the guid of the first begins that of the second
    Pollers     \* bound on the reads of the loop that may overlap

Builds == 1 .. MaxBuilds
Final == "final"    \* the read of endSpy
Readers == Pollers \cup {Final}
Idle == -1

ASSUME SpyAssumption ==
    /\ MaxBuilds \in Nat
    /\ Covers \in [Builds -> SUBSET Targets]
    /\ IsFiniteSet(Targets)
    /\ Prefix \subseteq Targets \X Targets
    /\ Final \notin Pollers

VARIABLES
    latest,     \* how many builds were prepared
    phase,      \* of the extension's side of each build
    proc,       \* xcodebuild and the proxy's client it starts
    cancelled,  \* the builds whose token is cancelled, or that were stopped early
    cursor,     \* readCursorPosition of each spy
    reader,     \* where each read is in the file, or Idle
    sent,       \* isMessageSent of each spy
    delivered,  \* history: the lines each listener was called with
    messy,      \* history: the spies whose loop overtook its own read, or whose
                \* file another build's client opened or wrote
    file,       \* the spy file
    offset,     \* where each client writes next
    live,       \* trie_signature of each client: targets begun and not ended
    over,       \* targets whose session has build_ended
    reported,   \* reported_target_ids
    told,       \* the clients that saw BUILD_CANCEL (is_cancelled)
    failing,    \* history: the targets a task of which failed
    written     \* history: the lines of each client

spyVars    == <<latest, phase, cancelled, cursor, reader, sent, delivered>>
clientVars == <<live, over, reported, told, failing>>
fileVars   == <<file, offset, written>>
vars == <<spyVars, proc, messy, clientVars, fileVars>>

\* epoch: the last build prepared when the line was written.
Lines == [from : Builds, target : Targets, status : {"Success", "Fail", "Cancelled"},
          epoch : Builds]
Hole == [from |-> 0]    \* what a write beyond the end leaves before it

TypeOK ==
    /\ latest \in 0 .. MaxBuilds
    /\ phase \in [Builds -> {"none", "spying", "ending", "done"}]
    /\ proc \in [Builds -> {"none", "spawned", "open", "exited"}]
    /\ {cancelled, messy, told} \subseteq SUBSET Builds
    /\ cursor \in [Builds -> Nat]
    /\ reader \in [Builds -> [Readers -> Nat \cup {Idle}]]
    /\ sent \in [Builds -> SUBSET (Targets \X {"Success", "Fail", "Cancelled"})]
    /\ delivered \in [Builds -> SUBSET Lines] /\ written \in [Builds -> SUBSET Lines]
    /\ file \in Seq(Lines \cup {Hole})
    /\ offset \in [Builds -> Nat]
    /\ live \in [Builds -> SUBSET Targets] /\ over \in [Builds -> SUBSET Targets]
    /\ reported \in [Builds -> SUBSET Targets] /\ failing \in [Builds -> SUBSET Targets]

Init ==
    /\ latest = 0
    /\ phase = [b \in Builds |-> "none"] /\ proc = [b \in Builds |-> "none"]
    /\ cancelled = {} /\ messy = {} /\ told = {}
    /\ cursor = [b \in Builds |-> 0] /\ offset = [b \in Builds |-> 0]
    /\ reader = [b \in Builds |-> [r \in Readers |-> Idle]]
    /\ sent = [b \in Builds |-> {}]
    /\ delivered = [b \in Builds |-> {}] /\ written = [b \in Builds |-> {}]
    /\ file = <<>>
    /\ live = [b \in Builds |-> {}] /\ over = [b \in Builds |-> {}]
    /\ reported = [b \in Builds |-> {}] /\ failing = [b \in Builds |-> {}]

Spying(b) == phase[b] \in {"spying", "ending"}
Others(b) == {c \in Builds \ {b} : Spying(c)}

-----------------------------------------------------------------------------
(* The extension *)

\* Mutant: the file is not cleared before the build.
PrepareAppending(b) ==
    /\ b = latest + 1 /\ latest' = b
    /\ \A c \in Builds : c < b => phase[c] = "done"
    /\ phase' = [phase EXCEPT ![b] = "spying"]
    /\ UNCHANGED <<file, cancelled, cursor, reader, sent, delivered, proc, messy,
                   clientVars, offset, written>>

\* startTargetBuildingSpyService, once AtomicCommand lets the build in: the
\* spies of the builds before it are over, their xcodebuilds may not be.
Prepare(b) ==
    /\ b = latest + 1 /\ latest' = b
    /\ \A c \in Builds : c < b => phase[c] = "done"
    /\ phase' = [phase EXCEPT ![b] = "spying"]
    /\ file' = <<>>
    /\ UNCHANGED <<cancelled, cursor, reader, sent, delivered, proc, messy,
                   clientVars, offset, written>>

\* The executor refuses to spawn once the token is cancelled.
Spawn(b) ==
    /\ phase[b] = "spying" /\ proc[b] = "none"
    /\ proc' = [proc EXCEPT ![b] = "spawned"]
    /\ UNCHANGED <<spyVars, messy, clientVars, fileVars>>

\* A read starts at the cursor, whether or not an earlier one still runs.
StartRead(b, r) ==
    /\ reader[b][r] = Idle
    /\ reader' = [reader EXCEPT ![b][r] = cursor[b]]
    /\ messy' = messy \cup {c \in {b} : r # Final /\ \E s \in Pollers : reader[b][s] # Idle}

\* Every second the loop of spy() calls readMessages and does not wait for it.
Poll(b, r) ==
    /\ Spying(b)
    /\ StartRead(b, r)
    /\ UNCHANGED <<latest, phase, cancelled, cursor, sent, delivered, proc, clientVars,
                   fileVars>>

\* One line.  The cursor is the spy's, not the read's.  A line after a hole
\* begins with zero bytes: it is consumed, but is no message.
ReadLine(b, r, p) ==
    \E next \in {i \in 1 .. Len(file) : i > p /\ \A j \in p + 1 .. i - 1 : file[j] = Hole} :
        LET line == file[next]
            new  == next = p + 1 /\ <<line.target, line.status>> \notin sent[b]
        IN
        /\ line # Hole
        /\ reader' = [reader EXCEPT ![b][r] = next]
        /\ cursor' = [cursor EXCEPT ![b] = @ + next - p]
        /\ sent' = IF new THEN [sent EXCEPT ![b] = @ \cup {<<line.target, line.status>>}]
                   ELSE sent
        /\ delivered' = IF new THEN [delivered EXCEPT ![b] = @ \cup {line}] ELSE delivered

Read(b, r) ==
    /\ reader[b][r] # Idle
    /\ ReadLine(b, r, reader[b][r])
    /\ UNCHANGED <<latest, phase, cancelled, proc, messy, clientVars, fileVars>>

\* The spy object is dropped.
Drop(b) ==
    /\ phase' = [phase EXCEPT ![b] = "done"]
    /\ reader' = [reader EXCEPT ![b] = [r \in Readers |-> Idle]]
    /\ cursor' = [cursor EXCEPT ![b] = 0]
    /\ sent' = [sent EXCEPT ![b] = {}]

\* The end of the file.  With its own read endSpy is over, and so is the spy.
ReadEnds(b, r) ==
    /\ reader[b][r] >= Len(file)
    /\ IF r = Final
       THEN Drop(b)
       ELSE /\ reader' = [reader EXCEPT ![b][r] = Idle]
            /\ UNCHANGED <<phase, cursor, sent>>
    /\ UNCHANGED <<latest, cancelled, delivered, proc, messy, clientVars, fileVars>>

\* Mutant: the spy is ended without a last read.
EndSpyAtOnce(b) ==
    /\ phase[b] = "spying" /\ proc[b] = "exited"
    /\ Drop(b)
    /\ UNCHANGED <<latest, cancelled, delivered, proc, messy, clientVars, fileVars>>

\* endSpy, when xcodebuild exited.
EndSpy(b) ==
    /\ phase[b] = "spying" /\ proc[b] = "exited"
    /\ phase' = [phase EXCEPT ![b] = "ending"]
    /\ StartRead(b, Final)
    /\ UNCHANGED <<latest, cancelled, cursor, sent, delivered, proc, clientVars, fileVars>>

\* The token is cancelled and the spy is over: its reads stop at the next line,
\* endSpy finds nothing to do.  xcodebuild is sent SIGINT and lives on.
\* The same stands for a build for completion whose listener ends the spy while
\* xcodebuild is alive, as soon as every wanted target was reported on: it hears
\* nothing more and xcodebuild is sent SIGINT; the build waits for its end, so that
\* its successor is prepared later than here.
Cancel(b) ==
    /\ Spying(b)
    /\ Drop(b)
    /\ cancelled' = cancelled \cup {b}
    /\ UNCHANGED <<latest, delivered, proc, messy, clientVars, fileVars>>

-----------------------------------------------------------------------------
(* The proxy's client of a build *)

\* Once the server took it, the client opens the spy file for writing.
Open(b) ==
    /\ proc[b] = "spawned"
    /\ proc' = [proc EXCEPT ![b] = "open"]
    /\ file' = <<>> /\ offset' = [offset EXCEPT ![b] = 0]
    /\ messy' = messy \cup Others(b)
    /\ UNCHANGED <<spyVars, clientVars, written>>

\* xcodebuild and the client are gone, with what they had in memory.
Exit(b) ==
    /\ proc[b] \in {"spawned", "open"}
    /\ proc' = [proc EXCEPT ![b] = "exited"]
    /\ live' = [live EXCEPT ![b] = {}] /\ over' = [over EXCEPT ![b] = {}]
    /\ reported' = [reported EXCEPT ![b] = {}] /\ told' = told \ {b}
    /\ offset' = [offset EXCEPT ![b] = 0]
    /\ UNCHANGED <<spyVars, messy, failing, file, written>>

\* A file opened for writing, not for appending.
WriteAt(position, lines) ==
    LET end == position + Len(lines) IN
    file' = IF lines = <<>> THEN file
            ELSE [i \in 1 .. IF Len(file) > end THEN Len(file) ELSE end |->
                    IF i > position /\ i <= end THEN lines[i - position]
                    ELSE IF i <= Len(file) THEN file[i] ELSE Hole]

\* The targets S with the status, in some order, are written.
Report(b, S, status) ==
    \E order \in [1 .. Cardinality(S) -> S] :
        LET lines == [i \in 1 .. Cardinality(S) |->
                        [from |-> b, target |-> order[i], status |-> status, epoch |-> latest]]
        IN
        /\ IsInjective(order)
        /\ WriteAt(offset[b], lines)
        /\ offset' = [offset EXCEPT ![b] = @ + Cardinality(S)]
        /\ written' = [written EXCEPT ![b] = @ \cup Range(lines)]
        /\ reported' = [reported EXCEPT ![b] = @ \cup S]
        /\ messy' = messy \cup (IF S = {} THEN {} ELSE Others(b))

\* Mutant: a later verdict on a target is reported as well.
OutputAgain(b, S, status) == Report(b, S, status)

\* output: a target is reported once.
Output(b, S, status) == Report(b, S \ reported[b], status)

\* BUILD_TARGET_STARTED.
TargetStarts(b, t) ==
    /\ proc[b] = "open" /\ t \in Covers[b] \ (live[b] \cup over[b])
    /\ live' = [live EXCEPT ![b] = @ \cup {t}]
    /\ UNCHANGED <<spyVars, proc, messy, over, reported, told, failing, fileVars>>

\* search_any: the shortest known guid the signature goes on with.
Found(b, t) ==
    LET C == {u \in live[b] : u = t \/ <<u, t>> \in Prefix} IN
    {u \in C : \A v \in C : v = u \/ <<u, v>> \in Prefix}

\* BUILD_TASK_ENDED, the status not 0, with the targets S in its signature;
\* also tasks that end because the build is cancelled.
TaskFails(b, S) ==
    /\ proc[b] = "open" /\ S # {} /\ S \subseteq live[b]
    /\ failing' = [failing EXCEPT ![b] = @ \cup S]
    /\ Output(b, UNION {Found(b, t) : t \in S}, "Fail")
    /\ UNCHANGED <<spyVars, proc, live, over, told>>

\* BUILD_TARGET_ENDED.
TargetEnds(b, t) ==
    /\ proc[b] = "open" /\ t \in live[b]
    /\ live' = [live EXCEPT ![b] = @ \ {t}]
    /\ over' = [over EXCEPT ![b] = @ \cup {t}]
    /\ Output(b, {t}, IF b \in told THEN "Cancelled" ELSE "Success")
    /\ UNCHANGED <<spyVars, proc, told, failing>>

\* xcodebuild reacts to the signal with BUILD_CANCEL.
BuildCancel(b) ==
    /\ proc[b] = "open" /\ b \in cancelled \ told
    /\ told' = told \cup {b}
    /\ UNCHANGED <<spyVars, proc, messy, live, over, reported, failing, fileVars>>

-----------------------------------------------------------------------------
Next ==
    \E b \in Builds :
        \/ Prepare(b) \/ Spawn(b) \/ EndSpy(b) \/ Cancel(b)
        \/ \E r \in Pollers : Poll(b, r)
        \/ \E r \in Readers : Read(b, r) \/ ReadEnds(b, r)
        \/ Open(b) \/ Exit(b) \/ BuildCancel(b)
        \/ \E t \in Targets : TargetStarts(b, t) \/ TargetEnds(b, t)
        \/ \E S \in SUBSET Targets : TaskFails(b, S)

Spec == Init /\ [][Next]_vars

-----------------------------------------------------------------------------
(* Properties *)

\* What is true of "clear spy output file before build": a listener hears
\* nothing that was written before its build was prepared.
WrittenSincePrepare ==
    \A b \in Builds : \A l \in delivered[b] : l.epoch >= b

\* "read remaining messages before ending spy": a build that ran to its end has
\* heard all its client reported -- if no other client touched the file and no
\* two reads of the loop moved the cursor over the same lines.
CleanSpyIsComplete ==
    \A b \in Builds :
        phase[b] = "done" /\ b \notin cancelled \cup messy
            => written[b] \subseteq delivered[b]

\* A verdict has its reason in the build that gave it: a target failed because
\* a task of it failed, or of one whose guid continues its own; and a success
\* conceals a failed task only of a target that is eclipsed in this way.
VerdictHasCause ==
    \A b, c \in Builds : \A l \in delivered[c] :
        l.from = b =>
            /\ l.status = "Fail" =>
                 \E t \in failing[b] : t = l.target \/ <<l.target, t>> \in Prefix
            /\ l.status = "Success" /\ l.target \in failing[b] =>
                 \E u \in Covers[b] : <<u, l.target>> \in Prefix

=============================================================================
