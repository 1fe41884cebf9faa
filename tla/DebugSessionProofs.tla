-------------------------- MODULE DebugSessionProofs --------------------------
(***************************************************************************)
(* Proofs about DebugSession, for any number of sessions.  Order relates   *)
(* the updates of one session that are on their way to the work, the       *)
(* debugger and the app that wait for them; CommandInv says who has a      *)
(* context, and AppInv that the app of a session finds no other beside it. *)
(***************************************************************************)
EXTENDS DebugSession, TLAPS

Pending(s, status) == <<s, status>> \in inflight

\* The session has no tracker and no debugger yet, or will never have them.
Before == Queued \cup Admitted \cup Resolving \cup Starting \cup
          {"none", "asked", "refused", "abandoned", "hung"}

Unbuilt == {"none", "checking", "to build", "building"}

\* The file lets the debugger open the executable.
MayOpen(s) == file[s] \in {"launching", "launched", "attached"}

\* Who spawns an update waits for it, unless the work is over.
SpawnOrder(s) ==
    /\ ~Pending(s, "launched") /\ ~Pending(s, "attached")
    /\ Pending(s, "configuring") => vs[s] \in Resolving
    /\ Pending(s, "building") => work[s] \in {"to build", "done"}
    /\ Pending(s, "launching") => work[s] \in {"to run", "done"} /\ ~Pending(s, "building")

\* Nothing that is on its way sets a session back that the debugger may open.
FileOrder(s) ==
    /\ MayOpen(s) => ~Pending(s, "configuring") /\ ~Pending(s, "building") /\ ~Pending(s, "launching")
    /\ work[s] \in Unbuilt => ~MayOpen(s)

\* The debugger is behind the build, and the app is behind the debugger.
DebugOrder(s) ==
    /\ lldb[s] \in {"created", "listed", "watching", "attached"} => work[s] \notin Unbuilt
    /\ lldb[s] \in {"created", "listed", "watching", "attached"} => MayOpen(s) \/ file[s] = "stopped"
    /\ file[s] \in {"launched", "attached"} => lldb[s] \in {"watching", "attached", "gone"}
    /\ s \notin known[s]
    /\ app[s] \in {"running", "retrying"} => DebuggerReady(s)

Phases(s) ==
    /\ vs[s] \in Before => work[s] = "none" /\ lldb[s] = "none"
    /\ vs[s] = "open" => lldb[s] # "none"
    /\ closing[s] # "no" => lldb[s] # "none"

Order(s) == SpawnOrder(s) /\ FileOrder(s) /\ DebugOrder(s) /\ Phases(s)

\* Who has a context that may still run something has the slot.
CommandInv ==
    /\ \A s \in bound : slot = s
    /\ \A s \in Sessions : vs[s] \in Admitted => slot = s
    /\ \A s \in Sessions : work[s] \notin {"none", "done"} => s \in cancelled \/ s \in bound

\* An app that runs and was launched where it found no other.
Runs(s) == target[s] # "tests" /\ app[s] = "running" /\ s \notin beside

\* Whose turn it is to launch an app has ended the others of its kind, or is an exception.
AppInv ==
    /\ OneApp
    /\ \A s \in Sessions \ beside : work[s] = "waiting" /\ s \notin cancelled =>
           \A t \in Sessions \ {s} : ~(Runs(t) /\ target[t] = target[s])

IInv == TypeOK /\ (\A s \in Sessions : Order(s)) /\ CommandInv /\ AppInv

-----------------------------------------------------------------------------
(* Types *)

\* A function that changes in one place.
LEMMA Moved ==
  ASSUME NEW A, NEW B, NEW f \in [A -> B], NEW a \in A, NEW v \in B
  PROVE  [f EXCEPT ![a] = v] \in [A -> B]
  OBVIOUS

\* An update is a status of a session, on its way or in the file.
LEMMA UpdateTypes ==
  ASSUME TypeOK, NEW s \in Sessions, NEW v \in Statuses
  PROVE  /\ Spawn({<<s, v>>}) => inflight' \in SUBSET (Sessions \X Statuses)
         /\ file' = Updated(s, v) => file' \in [Sessions -> Statuses \cup {"none"}]
<1>1. file \in [Sessions -> Statuses \cup {"none"}] /\ v \in Statuses \cup {"none"}
  BY DEF TypeOK
<1>2. [file EXCEPT ![s] = v] \in [Sessions -> Statuses \cup {"none"}]
  BY <1>1, Moved
<1>3. file' = Updated(s, v) => file' \in [Sessions -> Statuses \cup {"none"}]
  BY <1>1, <1>2 DEF Updated
<1>4. Spawn({<<s, v>>}) => inflight' \in SUBSET (Sessions \X Statuses)
  BY DEF Spawn, TypeOK
<1> QED BY <1>3, <1>4

\* The stops of sessions are updates, and terminations are ways of closing.
LEMMA StopTypes ==
  ASSUME TypeOK, NEW S \in SUBSET Sessions
  PROVE  /\ inflight \cup Stops(S) \in SUBSET (Sessions \X Statuses)
         /\ \A how \in Closings : Terminate(S, how) => closing' \in [Sessions -> Closings]
         /\ Settle(S) => bound' \in SUBSET Sessions /\ slot' \in Sessions \cup {NoSession}
         /\ Tracked(S) \in SUBSET Sessions
<1>1. inflight \cup Stops(S) \in SUBSET (Sessions \X Statuses)
  <2>1. "stopped" \in Statuses
    BY DEF Statuses
  <2> QED BY <2>1 DEF Stops, TypeOK
<1>2. ASSUME NEW how \in Closings, Terminate(S, how) PROVE closing' \in [Sessions -> Closings]
  BY <1>2 DEF Terminate, TypeOK
<1>3. Settle(S) => bound' \in SUBSET Sessions /\ slot' \in Sessions \cup {NoSession}
  BY DEF Settle, TypeOK
<1>4. Tracked(S) \in SUBSET Sessions
  BY DEF Tracked
<1> QED BY <1>1, <1>2, <1>3, <1>4

\* The values that the steps assign.
LEMMA Values ==
  /\ {"queued", "requeued", "admitted", "readmitted", "asked", "resolving", "reresolving",
      "starting", "restarting", "open", "refused", "abandoned", "closed", "hung"}
         \subseteq VsStates
  /\ {"checking", "to build", "building", "to run", "preparing", "waiting", "testing",
      "done"} \subseteq Works
  /\ {"cancel", "stop", "disconnect", "disconnected", "over"} \subseteq Closings
  /\ {"create", "created", "listed", "watching", "attached", "gone"} \subseteq LldbStates
  /\ {"running", "ended", "retrying", "lost"} \subseteq AppStates
  /\ {"configuring", "building", "launching", "launched", "attached", "stopped"} \subseteq Statuses
  BY DEF VsStates, Queued, Admitted, Resolving, Starting, Works, Closings, Ways, LldbStates, AppStates, Statuses

\* Cancelling contexts keeps the types of all it changes.
LEMMA CancelType ==
  ASSUME TypeOK, NEW S \in SUBSET Sessions, Cancel(S)
  PROVE  /\ cancelled' \in SUBSET Sessions /\ bound' \in SUBSET Sessions
         /\ slot' \in Sessions \cup {NoSession}
         /\ closing' \in [Sessions -> Closings]
         /\ inflight' \in SUBSET (Sessions \X Statuses)
<1>1. cancelled' \in SUBSET Sessions
  BY DEF Cancel, TypeOK
<1>2. /\ {s \in S : vs[s] \notin Admitted} \in SUBSET Sessions
      /\ Tracked(S) \in SUBSET Sessions /\ "disconnect" \in Closings
  BY Values DEF Tracked
<1>3. Settle({s \in S : vs[s] \notin Admitted})
  BY DEF Cancel
<1>4. Terminate(Tracked(S), "disconnect") /\ inflight' = inflight \cup Stops(Tracked(S))
  BY DEF Cancel, Spawn
<1>5. bound' \in SUBSET Sessions /\ slot' \in Sessions \cup {NoSession}
  BY <1>2, <1>3, StopTypes
<1>6. closing' \in [Sessions -> Closings] /\ inflight' \in SUBSET (Sessions \X Statuses)
  BY <1>2, <1>4, StopTypes
<1> QED BY <1>1, <1>5, <1>6

\* The steps of commands and of resolveDebugConfiguration keep the types.
LEMMA ResolutionType ==
  ASSUME TypeOK, NEW s \in Sessions,
         Resolution(s) \/ Command(s) \/ LaunchFromEditor(s) \/ Refuse(s) \/ CancelCommand(s)
  PROVE  TypeOK'
<1>1. ASSUME Request(s),
             vs' = [vs EXCEPT ![s] = "queued"] \/ vs' = [vs EXCEPT ![s] = "requeued"],
             UNCHANGED <<target, file, work, debugVars, appVars>>
      PROVE  TypeOK'
  <2>1. {slot} \ {NoSession} \in SUBSET Sessions
    BY DEF TypeOK
  <2>2. Cancel({slot} \ {NoSession}) /\ newest' \in Sessions
    BY <1>1 DEF Request
  <2>3. /\ cancelled' \in SUBSET Sessions /\ bound' \in SUBSET Sessions
        /\ slot' \in Sessions \cup {NoSession}
        /\ closing' \in [Sessions -> Closings]
        /\ inflight' \in SUBSET (Sessions \X Statuses)
    BY <2>1, <2>2, CancelType
  <2>4. vs' \in [Sessions -> VsStates]
    BY <1>1, Values DEF TypeOK
  <2>5. UNCHANGED <<target, file, work, lldb, known, app, beside>>
    BY <1>1 DEF debugVars, appVars
  <2> QED BY <2>2, <2>3, <2>4, <2>5 DEF TypeOK
<1>2. CASE Command(s)
  BY <1>1, <1>2 DEF Command
<1>3. CASE ResolveUnbound(s)
  BY <1>1, <1>3 DEF ResolveUnbound
<1>4. CASE CancelCommand(s)
  <2>1. Cancel({s}) /\ {s} \in SUBSET Sessions
    BY <1>4 DEF CancelCommand
  <2>2. UNCHANGED <<target, newest, vs, file, work, debugVars, appVars>>
    BY <1>4 DEF CancelCommand
  <2> QED BY <2>1, <2>2, CancelType DEF TypeOK, debugVars, appVars
<1>5. CASE ConfigurationFails(s) \/ Answered(s)
  <2>1. Cancel({s}) /\ {s} \in SUBSET Sessions /\ vs' = [vs EXCEPT ![s] = "closed"]
    BY <1>5 DEF ConfigurationFails, Answered
  <2>2. vs' \in [Sessions -> VsStates]
    BY <2>1, Values DEF TypeOK
  <2>3. UNCHANGED <<target, newest, file, work, debugVars, appVars>>
    BY <1>5 DEF ConfigurationFails, Answered
  <2> QED BY <2>1, <2>2, <2>3, CancelType DEF TypeOK, debugVars, appVars
<1>6. CASE LaunchFromEditor(s) \/ Drop(s) \/ Configured(s) \/ Refuse(s)
  <2>1. \E v \in {"asked", "closed", "hung", "starting", "restarting", "refused", "abandoned"} :
            vs' = [vs EXCEPT ![s] = v]
    BY <1>6 DEF LaunchFromEditor, Drop, Configured, Refuse
  <2>2. vs' \in [Sessions -> VsStates]
    <3>1. PICK v \in VsStates : vs' = [vs EXCEPT ![s] = v]
      BY <2>1, Values
    <3> QED BY <3>1 DEF TypeOK
  <2>3. UNCHANGED <<target, commandVars, fileVars, work, closing, debugVars, appVars>>
    BY <1>6 DEF LaunchFromEditor, Drop, Configured, Refuse
  <2> QED BY <2>2, <2>3 DEF TypeOK, commandVars, fileVars, debugVars, appVars
<1>7. CASE Admit(s)
  <2>1. \E v \in {"admitted", "readmitted"} : vs' = [vs EXCEPT ![s] = v]
    BY <1>7 DEF Admit
  <2>2. vs' \in [Sessions -> VsStates]
    <3>1. PICK v \in VsStates : vs' = [vs EXCEPT ![s] = v]
      BY <2>1, Values
    <3> QED BY <3>1 DEF TypeOK
  <2>3. UNCHANGED <<target, newest, bound, fileVars, work, closing, debugVars, appVars>>
    BY <1>7 DEF Admit
  <2>4. slot' \in Sessions \cup {NoSession} /\ cancelled' \in SUBSET Sessions
    BY <1>7 DEF Admit, TypeOK
  <2> QED BY <2>2, <2>3, <2>4 DEF TypeOK, fileVars, debugVars, appVars
<1>8. CASE Begin(s)
  <2>1. bound' \in SUBSET Sessions /\ slot' \in Sessions \cup {NoSession}
    BY <1>8 DEF Begin, Settle, TypeOK
  <2>2. \/ vs' = [vs EXCEPT ![s] = "asked"] /\ UNCHANGED inflight
        \/ vs' = [vs EXCEPT ![s] = "reresolving"] /\ Spawn({<<s, "configuring">>})
    BY <1>8 DEF Begin
  <2>3. vs' \in [Sessions -> VsStates]
    BY <2>2, Values, ZenonT(60) DEF TypeOK
  <2>4. inflight' \in SUBSET (Sessions \X Statuses)
    BY <2>2, Values, UpdateTypes DEF TypeOK
  <2>5. UNCHANGED <<target, newest, cancelled, file, work, closing, debugVars, appVars>>
    BY <1>8 DEF Begin
  <2> QED BY <2>1, <2>3, <2>4, <2>5 DEF TypeOK, debugVars, appVars
<1>9. CASE Resolve(s)
  <2>1. vs' = [vs EXCEPT ![s] = "resolving"] /\ Spawn({<<s, "configuring">>})
    BY <1>9 DEF Resolve
  <2>2. vs' \in [Sessions -> VsStates]
    BY <2>1, Values DEF TypeOK
  <2>3. inflight' \in SUBSET (Sessions \X Statuses)
    BY <2>1, Values, UpdateTypes DEF TypeOK
  <2>4. UNCHANGED <<target, commandVars, file, work, closing, debugVars, appVars>>
    BY <1>9 DEF Resolve
  <2> QED BY <2>2, <2>3, <2>4 DEF TypeOK, commandVars, debugVars, appVars
<1>10. CASE Open(s)
  <2>1. \E v \in {"closed", "open"} : vs' = [vs EXCEPT ![s] = v]
    BY <1>10 DEF Open
  <2>2. vs' \in [Sessions -> VsStates]
    <3>1. PICK v \in VsStates : vs' = [vs EXCEPT ![s] = v]
      BY <2>1, Values
    <3> QED BY <3>1 DEF TypeOK
  <2>3. /\ UNCHANGED lldb \/ lldb' = [lldb EXCEPT ![s] = "create"]
        /\ \/ UNCHANGED work
           \/ \E v \in {"checking", "to run"} : work' = [work EXCEPT ![s] = v]
        /\ UNCHANGED inflight \/ Spawn({<<s, "launching">>})
    BY <1>10 DEF Open
  <2>4. lldb' \in [Sessions -> LldbStates]
    BY <2>3, Values, ZenonT(60) DEF TypeOK
  <2>5. work' \in [Sessions -> Works]
    <3>1. CASE \E v \in {"checking", "to run"} : work' = [work EXCEPT ![s] = v]
      <4>1. PICK v \in Works : work' = [work EXCEPT ![s] = v]
        BY <3>1, Values
      <4> QED BY <4>1 DEF TypeOK
    <3> QED BY <2>3, <3>1 DEF TypeOK
  <2>6. inflight' \in SUBSET (Sessions \X Statuses)
    BY <2>3, Values, UpdateTypes DEF TypeOK
  <2>7. UNCHANGED <<target, commandVars, file, closing, known, appVars>>
    BY <1>10 DEF Open
  <2> QED BY <2>2, <2>4, <2>5, <2>6, <2>7 DEF TypeOK, commandVars, appVars
<1> QED BY <1>2, <1>3, <1>4, <1>5, <1>6, <1>7, <1>8, <1>9, <1>10 DEF Resolution

\* The steps of the tracker keep the types.
LEMMA WorkingType ==
  ASSUME TypeOK, NEW s \in Sessions, Working(s)
  PROVE  TypeOK'
<1>1. CASE CheckBuild(s)
  <2>1. /\ \E v \in {"to build", "to run"} : work' = [work EXCEPT ![s] = v]
        /\ \E v \in {"building", "launching"} : Spawn({<<s, v>>})
        /\ UNCHANGED <<target, commandVars, vs, file, closing, debugVars, appVars>>
    BY <1>1 DEF CheckBuild, Work
  <2>2. work' \in [Sessions -> Works]
    <3>1. PICK v \in Works : work' = [work EXCEPT ![s] = v]
      BY <2>1, Values
    <3> QED BY <3>1 DEF TypeOK
  <2>3. inflight' \in SUBSET (Sessions \X Statuses)
    BY <2>1, Values, UpdateTypes
  <2> QED BY <2>1, <2>2, <2>3 DEF TypeOK, commandVars, debugVars, appVars
<1>2. CASE Build(s) \/ Built(s) \/ Run(s)
  <2>1. /\ \E v \in {"building", "to run", "preparing"} : work' = [work EXCEPT ![s] = v]
        /\ UNCHANGED inflight \/ Spawn({<<s, "launching">>})
        /\ UNCHANGED <<target, commandVars, vs, file, closing, debugVars, appVars>>
    BY <1>2 DEF Build, Built, Run, Work, fileVars
  <2>2. work' \in [Sessions -> Works]
    <3>1. PICK v \in Works : work' = [work EXCEPT ![s] = v]
      BY <2>1, Values
    <3> QED BY <3>1 DEF TypeOK
  <2>3. inflight' \in SUBSET (Sessions \X Statuses)
    BY <2>1, Values, UpdateTypes DEF TypeOK
  <2> QED BY <2>1, <2>2, <2>3 DEF TypeOK, commandVars, debugVars, appVars
<1>3. CASE Prepare(s)
  <2>1. PICK ended \in SUBSET Sessions :
          /\ app' = [t \in Sessions |-> IF t \in ended THEN "ended" ELSE app[t]]
          /\ inflight' = inflight \cup Stops(ended)
          /\ beside' = beside \/ beside' = beside \cup {s}
    <3>1. \A a : Running(a) \in SUBSET Sessions
      BY DEF Running
    <3> QED BY <1>3, <3>1 DEF Prepare, Spawn
  <2>3. /\ work' = [work EXCEPT ![s] = "waiting"]
        /\ UNCHANGED <<target, commandVars, vs, file, closing, debugVars>>
    BY <1>3 DEF Prepare, Work
  <2>4. work' \in [Sessions -> Works]
    BY <2>3, Values DEF TypeOK
  <2>5. inflight' \in SUBSET (Sessions \X Statuses)
    BY <2>1, StopTypes
  <2>6. app' \in [Sessions -> AppStates] /\ beside' \in SUBSET Sessions
    BY <2>1, Values DEF TypeOK
  <2> QED BY <2>3, <2>4, <2>5, <2>6 DEF TypeOK, commandVars, debugVars
<1>4. CASE Launch(s)
  <2>1. /\ work' = [work EXCEPT ![s] = "done"] /\ app' = [app EXCEPT ![s] = "running"]
        /\ Settle({s}) /\ {s} \in SUBSET Sessions
        /\ UNCHANGED <<target, newest, cancelled, vs, fileVars, closing, debugVars, beside>>
    BY <1>4 DEF Launch, Work
  <2>2. work' \in [Sessions -> Works]
    BY <2>1, Values DEF TypeOK
  <2>3. app' \in [Sessions -> AppStates]
    BY <2>1, Values DEF TypeOK
  <2>4. bound' \in SUBSET Sessions /\ slot' \in Sessions \cup {NoSession}
    BY <2>1, StopTypes
  <2> QED BY <2>1, <2>2, <2>3, <2>4 DEF TypeOK, fileVars, debugVars
<1>5. CASE StartTests(s)
  <2>1. /\ work' = [work EXCEPT ![s] = "testing"] /\ app' = [app EXCEPT ![s] = "running"]
        /\ UNCHANGED <<target, commandVars, vs, fileVars, closing, debugVars, beside>>
    BY <1>5 DEF StartTests, Work
  <2>2. work' \in [Sessions -> Works]
    BY <2>1, Values DEF TypeOK
  <2>3. app' \in [Sessions -> AppStates]
    BY <2>1, Values DEF TypeOK
  <2> QED BY <2>1, <2>2, <2>3 DEF TypeOK, commandVars, fileVars, debugVars
<1>6. ASSUME Finish(s)
      PROVE  /\ work' \in [Sessions -> Works]
             /\ bound' \in SUBSET Sessions /\ slot' \in Sessions \cup {NoSession}
             /\ closing' \in [Sessions -> Closings]
  <2>1. {s} \in SUBSET Sessions /\ Tracked({s}) \in SUBSET Sessions
    BY DEF Tracked
  <2>2. /\ work' = [work EXCEPT ![s] = "done"] /\ Settle({s})
        /\ Terminate(Tracked({s}), "stop")
    BY <1>6 DEF Finish
  <2>3. work' \in [Sessions -> Works]
    BY <2>2, Values DEF TypeOK
  <2>4. bound' \in SUBSET Sessions /\ slot' \in Sessions \cup {NoSession}
    BY <2>1, <2>2, StopTypes
  <2>5. closing' \in [Sessions -> Closings]
    BY <2>1, <2>2, Values, StopTypes
  <2> QED BY <2>3, <2>4, <2>5
<1>7. CASE WorkFails(s)
  <2>1. Tracked({s}) \in SUBSET Sessions
    BY DEF Tracked
  <2>2. /\ Finish(s) /\ inflight' = inflight \cup Stops(Tracked({s}))
        /\ UNCHANGED <<target, newest, cancelled, vs, file, debugVars, appVars>>
    BY <1>7 DEF WorkFails, Spawn
  <2>3. inflight' \in SUBSET (Sessions \X Statuses)
    BY <2>1, <2>2, StopTypes
  <2> QED BY <1>6, <2>2, <2>3 DEF TypeOK, debugVars, appVars
<1>8. CASE TestsEnd(s)
  <2>1. /\ Finish(s) /\ inflight' = inflight \cup Stops({s}) /\ {s} \in SUBSET Sessions
        /\ app' = [app EXCEPT ![s] = "ended"]
        /\ UNCHANGED <<target, newest, cancelled, vs, file, debugVars, beside>>
    BY <1>8 DEF TestsEnd, Spawn
  <2>2. inflight' \in SUBSET (Sessions \X Statuses)
    BY <2>1, StopTypes
  <2>3. app' \in [Sessions -> AppStates]
    BY <2>1, Values DEF TypeOK
  <2> QED BY <1>6, <2>1, <2>2, <2>3 DEF TypeOK, debugVars
<1> QED BY <1>1, <1>2, <1>3, <1>4, <1>5, <1>7, <1>8 DEF Working

\* The steps of the app, of the debugger and of the end of a session keep the types.
LEMMA OtherTypes ==
  ASSUME TypeOK, NEW s \in Sessions,
         \/ \E status \in Statuses : Write(s, status)
         \/ AppEnds(s) \/ SimulatorHangs(s) \/ Retry(s) \/ RetryIsLost(s)
         \/ Debugging(s) \/ Terminated(s) \/ UserStops(s) \/ Close(s)
  PROVE  TypeOK'
<1>0. {s} \in SUBSET Sessions
  OBVIOUS
<1>1. CASE \E status \in Statuses : Write(s, status)
  <2>1. PICK status \in Statuses : Write(s, status)
    BY <1>1
  <2>2. /\ file' = Updated(s, status) /\ inflight' = inflight \ {<<s, status>>}
        /\ UNCHANGED <<target, commandVars, vs, work, closing, debugVars, appVars>>
    BY <2>1 DEF Write
  <2>3. file' \in [Sessions -> Statuses \cup {"none"}]
    BY <2>2, UpdateTypes
  <2>4. inflight' \in SUBSET (Sessions \X Statuses)
    BY <2>2 DEF TypeOK
  <2> QED BY <2>2, <2>3, <2>4 DEF TypeOK, commandVars, debugVars, appVars
<1>2. CASE AppEnds(s) \/ SimulatorHangs(s) \/ RetryIsLost(s)
  <2>1. /\ \E v \in {"ended", "retrying", "lost"} : app' = [app EXCEPT ![s] = v]
        /\ inflight' = inflight \/ inflight' = inflight \cup Stops({s})
        /\ UNCHANGED <<target, commandVars, vs, file, work, closing, debugVars, beside>>
    BY <1>2 DEF AppEnds, SimulatorHangs, RetryIsLost, Spawn, fileVars
  <2>2. app' \in [Sessions -> AppStates]
    <3>1. PICK v \in AppStates : app' = [app EXCEPT ![s] = v]
      BY <2>1, Values
    <3> QED BY <3>1 DEF TypeOK
  <2>3. inflight' \in SUBSET (Sessions \X Statuses)
    BY <1>0, <2>1, StopTypes DEF TypeOK
  <2> QED BY <2>1, <2>2, <2>3 DEF TypeOK, commandVars, debugVars
<1>3. CASE Retry(s)
  <2>1. PICK ended \in {{}, Running(target[s])} :
          /\ app' = [t \in Sessions |-> IF t = s THEN "running"
                                        ELSE IF t \in ended THEN "ended" ELSE app[t]]
          /\ inflight' = inflight \cup Stops(ended)
    BY <1>3 DEF Retry, Spawn
  <2>2. ended \in SUBSET Sessions
    BY DEF Running
  <2>3. /\ beside' = beside \cup {s}
        /\ UNCHANGED <<target, commandVars, vs, file, work, closing, debugVars>>
    BY <1>3 DEF Retry
  <2>4. inflight' \in SUBSET (Sessions \X Statuses)
    BY <2>1, <2>2, StopTypes
  <2>5. app' \in [Sessions -> AppStates] /\ beside' \in SUBSET Sessions
    BY <2>1, <2>3, Values DEF TypeOK
  <2> QED BY <2>3, <2>4, <2>5 DEF TypeOK, commandVars, debugVars
<1>4. CASE CreateTarget(s) \/ Leave(s)
  <2>1. /\ \E v \in {"created", "gone"} : lldb' = [lldb EXCEPT ![s] = v]
        /\ UNCHANGED <<target, commandVars, vs, fileVars, work, closing, known, appVars>>
    BY <1>4 DEF CreateTarget, Leave, Debugger
  <2>2. lldb' \in [Sessions -> LldbStates]
    <3>1. PICK v \in LldbStates : lldb' = [lldb EXCEPT ![s] = v]
      BY <2>1, Values
    <3> QED BY <3>1 DEF TypeOK
  <2> QED BY <2>1, <2>2 DEF TypeOK, commandVars, fileVars, appVars
<1>5. CASE ListProcesses(s)
  <2>1. {t \in Sessions : app[t] = "running"} \in SUBSET Sessions
    OBVIOUS
  <2>2. known' \in [Sessions -> SUBSET Sessions]
    BY <1>5, <2>1, Moved DEF ListProcesses, TypeOK
  <2>3. /\ lldb' = [lldb EXCEPT ![s] = "listed"]
        /\ UNCHANGED <<target, commandVars, vs, fileVars, work, closing, appVars>>
    BY <1>5 DEF ListProcesses, Debugger
  <2>4. lldb' \in [Sessions -> LldbStates]
    BY <2>3, Values DEF TypeOK
  <2> QED BY <2>2, <2>3, <2>4 DEF TypeOK, commandVars, fileVars, appVars
<1>6. CASE SayLaunched(s) \/ Attach(s)
  <2>1. /\ \E v \in {"watching", "attached", "gone"} : lldb' = [lldb EXCEPT ![s] = v]
        /\ UNCHANGED file \/ \E v \in {"launched", "attached"} : file' = Updated(s, v)
        /\ UNCHANGED <<target, commandVars, vs, inflight, work, closing, known, appVars>>
    BY <1>6 DEF SayLaunched, Attach, Debugger
  <2>2. lldb' \in [Sessions -> LldbStates]
    <3>1. PICK v \in LldbStates : lldb' = [lldb EXCEPT ![s] = v]
      BY <2>1, Values
    <3> QED BY <3>1 DEF TypeOK
  <2>3. file' \in [Sessions -> Statuses \cup {"none"}]
    BY <2>1, Values, UpdateTypes DEF TypeOK
  <2> QED BY <2>1, <2>2, <2>3 DEF TypeOK, commandVars, appVars
<1>7. CASE Terminated(s)
  <2>1. bound' \in SUBSET Sessions /\ slot' \in Sessions \cup {NoSession}
    BY <1>0, <1>7, StopTypes DEF Terminated, TypeOK
  <2>2. cancelled' \in SUBSET Sessions
    BY <1>7 DEF Terminated, TypeOK
  <2>3. closing' \in [Sessions -> Closings]
    <3>1. PICK v \in Closings : closing' = [closing EXCEPT ![s] = v]
      BY <1>7, Values DEF Terminated
    <3> QED BY <3>1 DEF TypeOK
  <2> QED BY <1>7, <2>1, <2>2, <2>3 DEF Terminated, TypeOK, fileVars, debugVars, appVars
<1>8. CASE UserStops(s)
  <2>1. /\ Terminate({s}, "cancel") /\ inflight' = inflight \cup Stops({s})
        /\ UNCHANGED <<target, commandVars, vs, file, work, debugVars, appVars>>
    BY <1>8 DEF UserStops, Spawn
  <2>2. closing' \in [Sessions -> Closings] /\ inflight' \in SUBSET (Sessions \X Statuses)
    BY <1>0, <2>1, Values, StopTypes
  <2> QED BY <2>1, <2>2 DEF TypeOK, commandVars, debugVars, appVars
<1>9. CASE Close(s)
  <2> DEFINE ending == {t \in Tracked({s}) : target[t] # "tests"}
  <2>1. ending \in SUBSET Sessions
    BY DEF Tracked
  <2> HIDE DEF ending
  <2>2. Terminate(ending, "cancel") /\ inflight' = inflight \cup Stops(ending)
    BY <1>9 DEF Close, Spawn, ending
  <2>3. closing' \in [Sessions -> Closings] /\ inflight' \in SUBSET (Sessions \X Statuses)
    BY <2>1, <2>2, Values, StopTypes
  <2>4. /\ vs' = [vs EXCEPT ![s] = "closed"] /\ lldb' = [lldb EXCEPT ![s] = "gone"]
        /\ UNCHANGED <<target, commandVars, file, work, known, appVars>>
    BY <1>9 DEF Close
  <2>5. vs' \in [Sessions -> VsStates]
    BY <2>4, Values DEF TypeOK
  <2>6. lldb' \in [Sessions -> LldbStates]
    BY <2>4, Values DEF TypeOK
  <2> QED BY <2>3, <2>4, <2>5, <2>6 DEF TypeOK, commandVars, appVars
<1> QED BY <1>1, <1>2, <1>3, <1>4, <1>5, <1>6, <1>7, <1>8, <1>9 DEF Debugging

\* Every step keeps the types.
LEMMA NextType == TypeOK /\ [Next]_vars => TypeOK'
<1> SUFFICES ASSUME TypeOK, [Next]_vars PROVE TypeOK'
  OBVIOUS
<1>1. CASE UNCHANGED vars
  BY <1>1 DEF vars, TypeOK, commandVars, fileVars, debugVars, appVars
<1>2. ASSUME NEW s \in Sessions,
             \/ \E status \in Statuses : Write(s, status)
             \/ Resolution(s) \/ Working(s) \/ Debugging(s)
             \/ Terminated(s) \/ SessionEnds(s) \/ Environment(s)
      PROVE  TypeOK'
  BY <1>2, ResolutionType, WorkingType, OtherTypes DEF Environment, SessionEnds, AdapterDies
<1> QED BY <1>1, <1>2 DEF Next

-----------------------------------------------------------------------------
(* Order *)

\* A step that does not move the session, though it may end its app and stop it.
Quiet(t) ==
    /\ vs'[t] = vs[t] /\ work'[t] = work[t]
    /\ lldb'[t] = lldb[t] /\ known'[t] = known[t] /\ file'[t] = file[t]
    /\ app'[t] \in {"running", "retrying"} => app[t] \in {"running", "retrying"}
    /\ \A v \in Statuses : Pending(t, v)' => v = "stopped" \/ Pending(t, v)
    /\ closing'[t] # "no" => closing[t] # "no" \/ lldb[t] # "none"

LEMMA QuietKeeps == ASSUME NEW t \in Sessions, Order(t), Quiet(t) PROVE Order(t)'
<1>1. \A v \in {"configuring", "building", "launching", "launched", "attached"} :
        Pending(t, v)' => Pending(t, v)
  BY Values DEF Quiet
<1>2. SpawnOrder(t)'
  BY <1>1 DEF Order, SpawnOrder, Quiet
<1>3. FileOrder(t)'
  BY <1>1 DEF Order, FileOrder, MayOpen, Quiet
<1>4. DebugOrder(t)'
  BY DEF Order, DebugOrder, MayOpen, DebuggerReady, Quiet
<1>5. Phases(t)'
  BY DEF Order, Phases, Quiet
<1> QED BY <1>2, <1>3, <1>4, <1>5 DEF Order

\* What is on its way after a spawn.
LEMMA SpawnOne ==
  ASSUME NEW s, NEW v, Spawn({<<s, v>>})
  PROVE  \A t, w : Pending(t, w)' <=> Pending(t, w) \/ (t = s /\ w = v)
  BY DEF Spawn, Pending

LEMMA SpawnStops ==
  ASSUME NEW S, Spawn(Stops(S))
  PROVE  \A t, w : Pending(t, w)' => w = "stopped" \/ Pending(t, w)
  BY DEF Spawn, Stops, Pending

\* What the file says after an update.
LEMMA UpdateOne ==
  ASSUME TypeOK, NEW s \in Sessions, NEW v \in Statuses, file' = Updated(s, v)
  PROVE  /\ file'[s] = IF file[s] = "stopped" THEN "stopped" ELSE v
         /\ \A t \in Sessions \ {s} : file'[t] = file[t]
  BY DEF Updated, TypeOK

\* Only a session that has a tracker is terminated.
LEMMA TerminateTracked ==
  ASSUME NEW S, NEW how, Terminate(Tracked(S), how), NEW t \in Sessions
  PROVE  closing'[t] # "no" => closing[t] # "no" \/ lldb[t] # "none"
  BY DEF Terminate, Tracked

\* Cancelling moves no session.
LEMMA CancelQuiet ==
  ASSUME NEW S, Cancel(S), NEW t \in Sessions
  PROVE  /\ closing'[t] # "no" => closing[t] # "no" \/ lldb[t] # "none"
         /\ \A v : Pending(t, v)' => v = "stopped" \/ Pending(t, v)
  BY TerminateTracked, SpawnStops DEF Cancel

\* Before it has a tracker a session only waits for its configuration.
LEMMA BeforeKeeps ==
  ASSUME NEW s \in Sessions, Order(s),
         vs[s] \in Before, vs'[s] \in Before \cup {"closed"},
         work'[s] = work[s], lldb'[s] = lldb[s], known'[s] = known[s], file'[s] = file[s],
         app'[s] = app[s],
         \A v \in Statuses : Pending(s, v)' =>
             \/ v = "stopped"
             \/ v = "configuring" /\ vs'[s] \in Resolving
             \/ v # "configuring" /\ Pending(s, v),
         closing'[s] # "no" => closing[s] # "no" \/ lldb[s] # "none"
  PROVE  Order(s)'
<1>1. work[s] = "none" /\ lldb[s] = "none" /\ closing[s] = "no" /\ ~MayOpen(s)
  BY DEF Order, Phases, FileOrder, Unbuilt
<1>2. \A v \in {"building", "launching", "launched", "attached"} : ~Pending(s, v)'
  BY <1>1, Values DEF Order, SpawnOrder
<1>3. Pending(s, "configuring")' => vs'[s] \in Resolving
  BY Values
<1>4. SpawnOrder(s)'
  BY <1>2, <1>3 DEF SpawnOrder
<1>5. FileOrder(s)'
  BY <1>1 DEF FileOrder, MayOpen
<1>6. DebugOrder(s)'
  BY <1>1 DEF Order, DebugOrder, MayOpen, DebuggerReady
<1>7. Phases(s)'
  BY <1>1 DEF Phases, Before, Queued, Admitted, Resolving, Starting
<1> QED BY <1>4, <1>5, <1>6, <1>7 DEF Order

\* A configuration that is on its way is waited for.
LEMMA Configuring ==
  ASSUME NEW s, Order(s), vs[s] \notin Resolving
  PROVE  ~Pending(s, "configuring")
  BY DEF Order, SpawnOrder

\* Commands and resolveDebugConfiguration up to the session keep the order.
LEMMA ResolutionOrder ==
  ASSUME TypeOK, NEW s \in Sessions, NEW t \in Sessions, Order(s), Order(t),
         \/ Admit(s) \/ Drop(s) \/ Begin(s) \/ Resolve(s) \/ ResolveUnbound(s)
         \/ Configured(s) \/ ConfigurationFails(s) \/ Answered(s)
         \/ Command(s) \/ LaunchFromEditor(s) \/ Refuse(s) \/ CancelCommand(s)
  PROVE  Order(t)'
<1>1. ASSUME NEW v \in Before \cup {"closed"}, vs' = [vs EXCEPT ![s] = v], vs[s] \in Before,
             UNCHANGED <<file, work, debugVars, appVars>>,
             closing'[t] # "no" => closing[t] # "no" \/ lldb[t] # "none",
             \A w : Pending(t, w)' => \/ w = "stopped" \/ Pending(t, w)
                                      \/ t = s /\ w = "configuring" /\ v \in Resolving,
             v \in Resolving \/ ~Pending(s, "configuring")
      PROVE  Order(t)'
  <2>1. CASE t # s
    <3>1. vs'[t] = vs[t]
      BY <1>1, <2>1 DEF TypeOK
    <3>2. Quiet(t)
      BY <1>1, <2>1, <3>1 DEF Quiet, debugVars, appVars
    <3> QED BY <3>2, QuietKeeps
  <2>2. CASE t = s
    <3>1. vs'[s] = v
      BY <1>1 DEF TypeOK
    <3>2. \A w \in Statuses : Pending(s, w)' =>
             \/ w = "stopped"
             \/ w = "configuring" /\ vs'[s] \in Resolving
             \/ w # "configuring" /\ Pending(s, w)
      BY <1>1, <2>2, <3>1
    <3> QED BY <1>1, <2>2, <3>1, <3>2, BeforeKeeps DEF debugVars, appVars
  <2> QED BY <2>1, <2>2
<1>2. /\ {"none", "queued", "requeued", "admitted", "readmitted", "asked", "resolving",
          "reresolving", "starting", "restarting", "refused", "abandoned", "hung"}
             \subseteq Before
      /\ {"resolving", "reresolving"} = Resolving
  BY DEF Before, Queued, Admitted, Resolving, Starting
<1>3. ASSUME NEW S, Cancel(S)
      PROVE  /\ closing'[t] # "no" => closing[t] # "no" \/ lldb[t] # "none"
             /\ \A v : Pending(t, v)' => v = "stopped" \/ Pending(t, v)
  BY <1>3, CancelQuiet
<1>4. ASSUME UNCHANGED <<fileVars, closing>>
      PROVE  /\ closing'[t] # "no" => closing[t] # "no" \/ lldb[t] # "none"
             /\ \A v : Pending(t, v)' => v = "stopped" \/ Pending(t, v)
  BY <1>4 DEF fileVars, Pending
<1>5. CASE Command(s)
  <2>1. /\ vs[s] = "none" /\ vs' = [vs EXCEPT ![s] = "queued"] /\ Cancel({slot} \ {NoSession})
        /\ UNCHANGED <<file, work, debugVars, appVars>>
    BY <1>5 DEF Command, Request
  <2>2. ~Pending(s, "configuring")
    BY <1>2, <2>1, Configuring
  <2> QED BY <1>1, <1>2, <1>3, <2>1, <2>2
<1>6. CASE ResolveUnbound(s)
  <2>1. /\ vs[s] = "asked" /\ vs' = [vs EXCEPT ![s] = "requeued"] /\ Cancel({slot} \ {NoSession})
        /\ UNCHANGED <<file, work, debugVars, appVars>>
    BY <1>6 DEF ResolveUnbound, Request
  <2>2. ~Pending(s, "configuring")
    BY <1>2, <2>1, Configuring
  <2> QED BY <1>1, <1>2, <1>3, <2>1, <2>2
<1>7. CASE ConfigurationFails(s) \/ Answered(s)
  <2>1. /\ vs[s] \in Before /\ vs' = [vs EXCEPT ![s] = "closed"] /\ Cancel({s})
        /\ vs[s] \notin Resolving \/ ~Pending(s, "configuring")
        /\ UNCHANGED <<file, work, debugVars, appVars>>
    BY <1>2, <1>7 DEF ConfigurationFails, Answered, Pending
  <2>2. ~Pending(s, "configuring")
    BY <2>1, Configuring
  <2> QED BY <1>1, <1>3, <2>1, <2>2
<1>8. CASE CancelCommand(s)
  <2>1. Cancel({s}) /\ UNCHANGED <<vs, file, work, debugVars, appVars>>
    BY <1>8 DEF CancelCommand
  <2>2. Quiet(t)
    BY <1>3, <2>1 DEF Quiet, debugVars, appVars
  <2> QED BY <2>2, QuietKeeps
<1>9. CASE Admit(s) \/ Drop(s) \/ Configured(s) \/ LaunchFromEditor(s) \/ Refuse(s)
  <2>1. /\ vs[s] \in Before
        /\ \E v \in {"admitted", "readmitted", "closed", "hung", "starting", "restarting", "asked",
                    "refused", "abandoned"} :
               vs' = [vs EXCEPT ![s] = v]
        /\ vs[s] \notin Resolving \/ ~Pending(s, "configuring")
        /\ UNCHANGED <<fileVars, work, closing, debugVars, appVars>>
    BY <1>9 DEF Admit, Drop, Configured, LaunchFromEditor, Refuse, Pending, Queued, Resolving,
                Starting, Before
  <2>2. PICK v \in Before \cup {"closed"} : vs' = [vs EXCEPT ![s] = v]
    BY <1>2, <2>1
  <2>3. ~Pending(s, "configuring")
    BY <2>1, Configuring
  <2> QED BY <1>1, <1>4, <2>1, <2>2, <2>3 DEF fileVars
<1>10. CASE Begin(s) \/ Resolve(s)
  <2>1. /\ vs[s] \in Before /\ vs[s] \notin Resolving
        /\ UNCHANGED <<file, work, closing, debugVars, appVars>>
        /\ \/ vs' = [vs EXCEPT ![s] = "asked"] /\ UNCHANGED inflight
           \/ \E v \in Resolving : vs' = [vs EXCEPT ![s] = v] /\ Spawn({<<s, "configuring">>})
    BY <1>10 DEF Begin, Resolve, Admitted, Resolving, Before
  <2>2. CASE vs' = [vs EXCEPT ![s] = "asked"] /\ UNCHANGED inflight
    <3>1. ~Pending(s, "configuring") /\ UNCHANGED fileVars
      BY <2>1, <2>2, Configuring DEF fileVars
    <3> QED BY <1>1, <1>2, <1>4, <2>1, <2>2, <3>1
  <2>3. ASSUME NEW v \in Resolving, vs' = [vs EXCEPT ![s] = v], Spawn({<<s, "configuring">>})
        PROVE  Order(t)'
    <3>1. \A w : Pending(t, w)' => Pending(t, w) \/ (t = s /\ w = "configuring")
      BY <2>3, SpawnOne
    <3>2. v \in Before
      BY <1>2
    <3> QED BY <1>1, <2>1, <2>3, <3>1, <3>2
  <2> QED BY <2>1, <2>2, <2>3
<1> QED BY <1>5, <1>6, <1>7, <1>8, <1>9, <1>10

\* The start of a session keeps the order.
LEMMA OpenOrder ==
  ASSUME TypeOK, NEW s \in Sessions, NEW t \in Sessions, Order(s), Order(t), Open(s)
  PROVE  Order(t)'
<1>1. /\ vs[s] \in Before /\ vs[s] \notin Resolving
      /\ UNCHANGED <<file, closing, known, app>>
  BY DEF Open, Starting, Resolving, Before, appVars
<1>2. /\ work[s] = "none" /\ lldb[s] = "none" /\ closing[s] = "no" /\ ~MayOpen(s)
      /\ \A v \in {"configuring", "building", "launching", "launched", "attached"} : ~Pending(s, v)
  BY <1>1 DEF Order, Phases, FileOrder, SpawnOrder, Before, Unbuilt
<1>3. CASE s \notin bound
  <2>1. vs' = [vs EXCEPT ![s] = "closed"] /\ UNCHANGED <<inflight, work, lldb>>
    BY <1>3 DEF Open
  <2>2. CASE t # s
    <3>1. Quiet(t)
      BY <1>1, <2>1, <2>2 DEF Quiet, Pending, TypeOK
    <3> QED BY <3>1, QuietKeeps
  <2>3. CASE t = s
    <3>1. vs'[s] = "closed"
      BY <2>1 DEF TypeOK
    <3>2. \A v \in Statuses : Pending(s, v)' =>
             \/ v = "stopped"
             \/ v = "configuring" /\ vs'[s] \in Resolving
             \/ v # "configuring" /\ Pending(s, v)
      BY <1>2, <2>1 DEF Pending
    <3>3. vs[s] \in Before /\ vs'[s] \in Before \cup {"closed"}
      BY <1>1, <3>1
    <3> QED BY <1>1, <2>1, <2>3, <3>2, <3>3, BeforeKeeps
  <2> QED BY <2>2, <2>3
<1>4. CASE s \in bound
  <2>1. /\ vs' = [vs EXCEPT ![s] = "open"] /\ lldb' = [lldb EXCEPT ![s] = "create"]
        /\ \/ work' = [work EXCEPT ![s] = "checking"] /\ UNCHANGED inflight
           \/ work' = [work EXCEPT ![s] = "to run"] /\ Spawn({<<s, "launching">>})
    BY <1>4 DEF Open
  <2>2. CASE t # s
    <3>1. vs'[t] = vs[t] /\ work'[t] = work[t] /\ lldb'[t] = lldb[t]
      BY <2>1, <2>2 DEF TypeOK
    <3>2. \A v : Pending(t, v)' => Pending(t, v)
      BY <2>1, <2>2, SpawnOne DEF Pending
    <3>3. Quiet(t)
      BY <1>1, <3>1, <3>2 DEF Quiet
    <3> QED BY <3>3, QuietKeeps
  <2>3. CASE t = s
    <3>1. vs'[s] = "open" /\ lldb'[s] = "create"
      BY <2>1 DEF TypeOK
    <3>2. \/ work'[s] = "checking" /\ \A v : Pending(s, v)' => Pending(s, v)
          \/ work'[s] = "to run" /\ \A v : Pending(s, v)' => Pending(s, v) \/ v = "launching"
      <4>1. CASE work' = [work EXCEPT ![s] = "checking"] /\ UNCHANGED inflight
        BY <4>1 DEF Pending, TypeOK
      <4>2. CASE work' = [work EXCEPT ![s] = "to run"] /\ Spawn({<<s, "launching">>})
        <5>1. work'[s] = "to run"
          BY <4>2 DEF TypeOK
        <5>2. \A v : Pending(s, v)' => Pending(s, v) \/ v = "launching"
          BY <4>2, SpawnOne
        <5> QED BY <5>1, <5>2
      <4> QED BY <2>1, <4>1, <4>2
    <3>3. \A v \in {"configuring", "building", "launched", "attached"} : ~Pending(s, v)'
      BY <1>2, <3>2
    <3>4. Pending(s, "launching")' => work'[s] = "to run"
      BY <1>2, <3>2
    <3>5. SpawnOrder(s)' /\ FileOrder(s)' /\ Phases(s)'
      BY <1>1, <1>2, <3>1, <3>3, <3>4
         DEF SpawnOrder, FileOrder, Phases, MayOpen, Before, Queued, Admitted, Resolving, Starting
    <3>6. DebugOrder(s)'
      BY <1>1, <1>2, <3>1 DEF Order, DebugOrder, MayOpen, DebuggerReady
    <3> QED BY <2>3, <3>5, <3>6 DEF Order
  <2> QED BY <2>2, <2>3
<1> QED BY <1>3, <1>4

\* A step of the work of an open session keeps its order.
LEMMA WorkKeeps ==
  ASSUME NEW s \in Sessions, Order(s), work[s] # "none", work'[s] # "none",
         vs'[s] = vs[s], lldb'[s] = lldb[s], known'[s] = known[s], file'[s] = file[s],
         work[s] \notin Unbuilt => work'[s] \notin Unbuilt,
         app'[s] \in {"running", "retrying"} =>
             app[s] \in {"running", "retrying"} \/ DebuggerReady(s),
         closing'[s] # "no" => closing[s] # "no" \/ lldb[s] # "none",
         Pending(s, "configuring")' => Pending(s, "configuring"),
         ~Pending(s, "launched")' /\ ~Pending(s, "attached")',
         Pending(s, "building")' => work'[s] \in {"to build", "done"},
         Pending(s, "building")' => Pending(s, "building") \/ work[s] \in Unbuilt,
         Pending(s, "launching")' => work'[s] \in {"to run", "done"} /\ ~Pending(s, "building")',
         Pending(s, "launching")' => Pending(s, "launching") \/ work[s] \in Unbuilt
  PROVE  Order(s)'
<1>1. SpawnOrder(s)' /\ FileOrder(s)'
  BY DEF Order, SpawnOrder, FileOrder, MayOpen
<1>2. DebugOrder(s)' /\ Phases(s)'
  BY DEF Order, DebugOrder, Phases, MayOpen, DebuggerReady
<1> QED BY <1>1, <1>2 DEF Order

\* The other sessions do not notice the work of one.
LEMMA WorkQuiet ==
  ASSUME TypeOK, NEW s \in Sessions, NEW t \in Sessions, t # s, Order(t),
         \E v \in Works : work' = [work EXCEPT ![s] = v],
         vs' = vs, file' = file, lldb' = lldb, known' = known,
         app'[t] \in {app[t], "ended"},
         closing'[t] # "no" => closing[t] # "no" \/ lldb[t] # "none",
         \A v : Pending(t, v)' => v = "stopped" \/ Pending(t, v)
  PROVE  Order(t)'
<1>1. work'[t] = work[t]
  BY DEF TypeOK
<1>2. Quiet(t)
  BY <1>1 DEF Quiet
<1> QED BY <1>2, QuietKeeps

\* Building, and what leads to it, keeps the order.
LEMMA BuildOrder ==
  ASSUME TypeOK, NEW s \in Sessions, NEW t \in Sessions, Order(s), Order(t),
         CheckBuild(s) \/ Build(s) \/ Built(s) \/ Run(s)
  PROVE  Order(t)'
<1>1. /\ UNCHANGED <<vs, file, closing, lldb, known, app>>
      /\ work[s] \in {"checking", "to build", "building", "to run"}
  BY DEF CheckBuild, Build, Built, Run, Work, fileVars, debugVars, appVars
<1>2. /\ ~Pending(s, "launched") /\ ~Pending(s, "attached") /\ ~Pending(s, "configuring")
      /\ Pending(s, "building") => work[s] = "to build"
      /\ Pending(s, "launching") => work[s] = "to run"
  BY <1>1 DEF Order, SpawnOrder, Phases, Before, Resolving
<1>3. \E v \in {"to build", "building", "to run", "preparing"} : work' = [work EXCEPT ![s] = v]
  BY DEF CheckBuild, Build, Built, Run, Work
<1>4. UNCHANGED inflight \/ \E v : Spawn({<<s, v>>})
  BY DEF CheckBuild, Build, Built, Run, fileVars
<1>5. CASE t # s
  <2>1. \A v : Pending(t, v)' => Pending(t, v)
    BY <1>4, <1>5, SpawnOne DEF Pending
  <2>2. PICK v \in Works : work' = [work EXCEPT ![s] = v]
    BY <1>3, Values
  <2> QED BY <1>1, <1>5, <2>1, <2>2, WorkQuiet
<1>6. CASE t = s
  <2>1. \/ /\ work'[s] = "to build" /\ Spawn({<<s, "building">>}) /\ work[s] = "checking"
        \/ /\ work'[s] = "to run" /\ Spawn({<<s, "launching">>})
           /\ work[s] \in {"checking", "building"}
        \/ /\ work'[s] = "building" /\ UNCHANGED inflight
           /\ work[s] = "to build" /\ ~Pending(s, "building")
        \/ /\ work'[s] = "preparing" /\ UNCHANGED inflight
           /\ work[s] = "to run" /\ ~Pending(s, "launching")
    BY DEF CheckBuild, Build, Built, Run, Work, Pending, TypeOK, fileVars
  <2>2. \/ /\ work'[s] = "to build" /\ work[s] \in Unbuilt
           /\ \A v : Pending(s, v)' => Pending(s, v) \/ v = "building"
           /\ ~Pending(s, "launching")
        \/ /\ work'[s] = "to run" /\ work[s] \in Unbuilt
           /\ \A v : Pending(s, v)' => Pending(s, v) \/ v = "launching"
           /\ ~Pending(s, "building")
        \/ /\ work'[s] \in {"building", "preparing"}
           /\ work[s] \in Unbuilt \/ work'[s] = "preparing"
           /\ \A v : Pending(s, v)' => Pending(s, v)
           /\ ~Pending(s, "launching") /\ ~Pending(s, "building")
    <3>1. CASE work'[s] = "to build" /\ Spawn({<<s, "building">>}) /\ work[s] = "checking"
      <4>1. \A v : Pending(s, v)' => Pending(s, v) \/ v = "building"
        BY <3>1, SpawnOne
      <4> QED BY <1>2, <3>1, <4>1 DEF Unbuilt
    <3>2. CASE /\ work'[s] = "to run" /\ Spawn({<<s, "launching">>})
               /\ work[s] \in {"checking", "building"}
      <4>1. \A v : Pending(s, v)' => Pending(s, v) \/ v = "launching"
        BY <3>2, SpawnOne
      <4> QED BY <1>2, <3>2, <4>1 DEF Unbuilt
    <3>3. CASE UNCHANGED inflight /\ work'[s] \in {"building", "preparing"}
      <4>1. \A v : Pending(s, v)' => Pending(s, v)
        BY <3>3 DEF Pending
      <4> QED BY <1>2, <2>1, <3>3, <4>1 DEF Unbuilt
    <3> QED BY <2>1, <3>1, <3>2, <3>3
  <2>3. /\ Pending(s, "configuring")' => Pending(s, "configuring")
        /\ ~Pending(s, "launched")' /\ ~Pending(s, "attached")'
        /\ Pending(s, "building")' => work'[s] = "to build"
        /\ Pending(s, "building")' => Pending(s, "building") \/ work[s] \in Unbuilt
        /\ Pending(s, "launching")' => work'[s] = "to run"
        /\ Pending(s, "launching")' => Pending(s, "launching") \/ work[s] \in Unbuilt
    BY <1>2, <2>2
  <2>4. /\ work[s] # "none" /\ work'[s] # "none"
        /\ work[s] \notin Unbuilt => work'[s] \notin Unbuilt
    BY <1>1, <2>1 DEF Unbuilt
  <2>5. Order(s)'
    BY <1>1, <2>3, <2>4, WorkKeeps
  <2> QED BY <1>6, <2>5
<1> QED BY <1>5, <1>6

\* A session that runs, or fails, keeps the order.
LEMMA RunOrder ==
  ASSUME TypeOK, NEW s \in Sessions, NEW t \in Sessions, Order(s), Order(t),
         Prepare(s) \/ Launch(s) \/ StartTests(s) \/ WorkFails(s) \/ TestsEnd(s)
  PROVE  Order(t)'
<1>1. /\ UNCHANGED <<vs, file, lldb, known>>
      /\ work[s] \notin {"none", "done"}
      /\ \E v \in {"waiting", "testing", "done"} : work' = [work EXCEPT ![s] = v]
  BY DEF Prepare, Launch, StartTests, WorkFails, TestsEnd, Throws, Work, Finish, fileVars, debugVars
<1>2. closing'[t] # "no" => closing[t] # "no" \/ lldb[t] # "none"
  BY TerminateTracked DEF Prepare, Launch, StartTests, WorkFails, TestsEnd, Finish
<1>3. \A v : Pending(t, v)' => v = "stopped" \/ Pending(t, v)
  <2>1. UNCHANGED inflight \/ \E S : Spawn(Stops(S))
    BY DEF Prepare, Launch, StartTests, WorkFails, TestsEnd, fileVars
  <2> QED BY <2>1, SpawnStops DEF Pending
<1>4. CASE t # s
  <2>1. app'[t] \in {app[t], "ended"}
    BY <1>4 DEF Prepare, Launch, StartTests, WorkFails, TestsEnd, appVars, TypeOK
  <2>2. PICK v \in Works : work' = [work EXCEPT ![s] = v]
    BY <1>1, Values
  <2> QED BY <1>1, <1>2, <1>3, <1>4, <2>1, <2>2, WorkQuiet
<1>5. CASE t = s
  <2>1. /\ work'[s] \in {"waiting", "testing", "done"}
        /\ work'[s] # "done" => work[s] \in {"preparing", "waiting"}
    BY DEF Prepare, Launch, StartTests, WorkFails, TestsEnd, Work, Finish, TypeOK
  <2>2. app'[s] = "running" => app[s] = "running" \/ DebuggerReady(s)
    BY DEF Prepare, Launch, StartTests, WorkFails, TestsEnd, appVars, TypeOK
  <2>3. app'[s] = "retrying" => app[s] = "retrying"
    BY DEF Prepare, Launch, StartTests, WorkFails, TestsEnd, appVars, TypeOK
  <2>4. \A v \in {"configuring", "building", "launching", "launched", "attached"} :
          Pending(s, v)' => Pending(s, v)
    BY <1>3, <1>5
  <2>5. /\ ~Pending(s, "launched") /\ ~Pending(s, "attached")
        /\ Pending(s, "building") => work[s] = "to build"
        /\ Pending(s, "launching") => work[s] = "to run" /\ ~Pending(s, "building")
    BY <1>1 DEF Order, SpawnOrder
  <2>6. /\ Pending(s, "building")' => work'[s] = "done"
        /\ Pending(s, "launching")' => work'[s] = "done" /\ ~Pending(s, "building")'
    BY <2>1, <2>4, <2>5
  <2>7. work'[s] # "none" /\ work'[s] \notin Unbuilt
    BY <2>1 DEF Unbuilt
  <2>8. Order(s)'
    BY <1>1, <1>2, <1>5, <2>2, <2>3, <2>4, <2>5, <2>6, <2>7, WorkKeeps
  <2> QED BY <1>5, <2>8
<1> QED BY <1>4, <1>5

\* The app, and the end of a session up to VS Code, keep the order.
LEMMA AppOrder ==
  ASSUME TypeOK, NEW s \in Sessions, NEW t \in Sessions, Order(s), Order(t),
         \/ AppEnds(s) \/ SimulatorHangs(s) \/ Retry(s) \/ RetryIsLost(s)
         \/ Terminated(s) \/ UserStops(s)
  PROVE  Order(t)'
<1>1. UNCHANGED <<vs, work, file, lldb, known>>
  BY DEF AppEnds, SimulatorHangs, Retry, RetryIsLost, Terminated, UserStops, fileVars, debugVars
<1>2. app'[t] \in {"running", "retrying"} => app[t] \in {"running", "retrying"}
  BY DEF AppEnds, SimulatorHangs, Retry, RetryIsLost, Terminated, UserStops, TypeOK, appVars
<1>3. \A v : Pending(t, v)' => v = "stopped" \/ Pending(t, v)
  <2>1. UNCHANGED inflight \/ \E S : Spawn(Stops(S))
    BY DEF AppEnds, SimulatorHangs, Retry, RetryIsLost, Terminated, UserStops, fileVars
  <2> QED BY <2>1, SpawnStops DEF Pending
<1>4. closing'[t] # "no" => closing[t] # "no" \/ lldb[t] # "none"
  <2>1. CASE UserStops(s)
    <3>1. vs[s] = "open" /\ Terminate({s}, "cancel")
      BY <2>1 DEF UserStops
    <3> QED BY <3>1 DEF Terminate, Order, Phases
  <2>2. CASE Terminated(s)
    BY <2>2 DEF Terminated, TypeOK, Ways
  <2> QED BY <2>1, <2>2 DEF AppEnds, SimulatorHangs, Retry, RetryIsLost
<1>5. Quiet(t)
  BY <1>1, <1>2, <1>3, <1>4 DEF Quiet
<1> QED BY <1>5, QuietKeeps

\* The end of a session keeps the order.
LEMMA CloseOrder ==
  ASSUME TypeOK, NEW s \in Sessions, NEW t \in Sessions, Order(s), Order(t), Close(s)
  PROVE  Order(t)'
<1> DEFINE ending == {u \in Tracked({s}) : target[u] # "tests"}
<1>1. /\ Terminate(ending, "cancel") /\ Spawn(Stops(ending))
      /\ vs[s] = "open" /\ vs' = [vs EXCEPT ![s] = "closed"]
      /\ lldb' = [lldb EXCEPT ![s] = "gone"] /\ UNCHANGED <<work, file, known, app>>
  BY DEF Close, appVars
<1>2. closing'[t] # "no" => closing[t] # "no" \/ lldb[t] # "none"
  BY <1>1 DEF Terminate, Tracked
<1> HIDE DEF ending
<1>3. \A v : Pending(t, v)' => v = "stopped" \/ Pending(t, v)
  BY <1>1, SpawnStops
<1>4. CASE t # s
  <2>1. vs'[t] = vs[t] /\ lldb'[t] = lldb[t]
    BY <1>1, <1>4 DEF TypeOK
  <2>2. Quiet(t)
    BY <1>1, <1>2, <1>3, <2>1 DEF Quiet
  <2> QED BY <2>2, QuietKeeps
<1>5. CASE t = s
  <2>1. vs'[s] = "closed" /\ lldb'[s] = "gone"
    BY <1>1 DEF TypeOK
  <2>2. \A v \in {"configuring", "building", "launching", "launched", "attached"} :
          Pending(s, v)' => Pending(s, v)
    BY <1>3, <1>5
  <2>3. SpawnOrder(s)' /\ FileOrder(s)'
    BY <1>1, <2>1, <2>2 DEF Order, SpawnOrder, FileOrder, MayOpen, Resolving
  <2>4. DebugOrder(s)' /\ Phases(s)'
    BY <1>1, <2>1 DEF Order, DebugOrder, Phases, MayOpen, DebuggerReady, Before, Queued, Admitted,
                         Resolving, Starting
  <2> QED BY <1>5, <2>3, <2>4 DEF Order
<1> QED BY <1>4, <1>5

\* An update that arrives keeps the order.
LEMMA WriteOrder ==
  ASSUME TypeOK, NEW s \in Sessions, NEW t \in Sessions, Order(s), Order(t),
         NEW status \in Statuses, Write(s, status)
  PROVE  Order(t)'
<1>1. /\ UNCHANGED <<vs, work, closing, lldb, known, app>>
      /\ Pending(s, status) /\ file' = Updated(s, status)
      /\ inflight' = inflight \ {<<s, status>>}
  BY DEF Write, Pending, debugVars, appVars
<1>2. /\ \A v : Pending(t, v)' => Pending(t, v)
      /\ ~Pending(s, status)'
  BY <1>1 DEF Pending
<1>3. /\ file'[s] = IF file[s] = "stopped" THEN "stopped" ELSE status
      /\ \A u \in Sessions \ {s} : file'[u] = file[u]
  BY <1>1, UpdateOne
<1>4. CASE file'[t] = file[t]
  <2>1. Quiet(t)
    BY <1>1, <1>2, <1>4 DEF Quiet
  <2> QED BY <2>1, QuietKeeps
<1>5. CASE t = s /\ file[s] # "stopped" /\ file'[s] = status
  <2>1. /\ status \notin {"launched", "attached"}
        /\ MayOpen(s) => status = "stopped"
        /\ status = "launching" => /\ work[s] \in {"to run", "done"}
                                   /\ ~Pending(s, "building") /\ ~Pending(s, "configuring")
    BY <1>1 DEF Order, SpawnOrder, FileOrder, Phases, Before, Statuses
  <2>2. SpawnOrder(s)'
    BY <1>1, <1>2, <1>5 DEF Order, SpawnOrder
  <2>3. FileOrder(s)'
    BY <1>1, <1>2, <1>5, <2>1 DEF FileOrder, MayOpen, Unbuilt
  <2>4. DebugOrder(s)'
    BY <1>1, <1>5, <2>1 DEF Order, DebugOrder, MayOpen, DebuggerReady, Statuses
  <2>5. Phases(s)'
    BY <1>1 DEF Order, Phases
  <2> QED BY <1>5, <2>2, <2>3, <2>4, <2>5 DEF Order
<1> QED BY <1>3, <1>4, <1>5

\* The debugger keeps the order.
LEMMA DebuggingOrder ==
  ASSUME TypeOK, NEW s \in Sessions, NEW t \in Sessions, Order(s), Order(t), Debugging(s)
  PROVE  Order(t)'
<1>1. UNCHANGED <<vs, work, closing, inflight, app>>
  BY DEF Debugging, CreateTarget, ListProcesses, SayLaunched, Attach, Leave, fileVars, appVars
<1>2. \A v : Pending(t, v)' <=> Pending(t, v)
  BY <1>1 DEF Pending
<1>3. \E v \in {"created", "listed", "watching", "attached", "gone"} : lldb' = [lldb EXCEPT ![s] = v]
  BY DEF Debugging, CreateTarget, ListProcesses, SayLaunched, Attach, Leave, Debugger
<1>4. UNCHANGED file \/ \E v \in {"launched", "attached"} : file' = Updated(s, v)
  BY DEF Debugging, CreateTarget, ListProcesses, SayLaunched, Attach, Leave, fileVars
<1>5. CASE t # s
  <2>1. file'[t] = file[t]
    BY <1>4, <1>5, UpdateOne, Values
  <2>2. lldb'[t] = lldb[t] /\ known'[t] = known[t]
    BY <1>5 DEF Debugging, CreateTarget, ListProcesses, SayLaunched, Attach, Leave, Debugger, TypeOK
  <2>3. Quiet(t)
    BY <1>1, <1>2, <2>1, <2>2 DEF Quiet
  <2> QED BY <2>3, QuietKeeps
<1>6. CASE t = s
  <2>1. SpawnOrder(s)' /\ Phases(s)'
    <3>1. lldb[s] # "none" /\ lldb'[s] # "none"
      BY <1>3 DEF Debugging, CreateTarget, ListProcesses, SayLaunched, Attach, Leave, Debugger, TypeOK
    <3> QED BY <1>1, <1>2, <1>6, <3>1 DEF Order, SpawnOrder, Phases
  <2>2. FileOrder(s)' /\ DebugOrder(s)'
    <3>1. CASE CreateTarget(s)
      <4>1. /\ lldb'[s] = "created" /\ MayOpen(s)
            /\ file[s] = "launched" => lldb[s] # "create"
            /\ lldb[s] = "create" /\ UNCHANGED <<file, known>>
        BY <3>1 DEF CreateTarget, Debugger, MayOpen, fileVars, TypeOK, Order, DebugOrder
      <4> QED BY <1>1, <1>2, <1>6, <4>1 DEF Order, FileOrder, DebugOrder, MayOpen, DebuggerReady
    <3>2. CASE ListProcesses(s)
      <4>1. /\ lldb[s] = "created" /\ lldb'[s] = "listed" /\ file[s] # "stopped"
            /\ UNCHANGED file /\ known'[s] = {u \in Sessions : app[u] = "running"}
        BY <3>2 DEF ListProcesses, Debugger, fileVars, TypeOK
      <4>2. app[s] # "running"
        BY <4>1 DEF Order, DebugOrder, DebuggerReady
      <4> QED BY <1>1, <1>2, <1>6, <4>1, <4>2
              DEF Order, FileOrder, DebugOrder, MayOpen, DebuggerReady
    <3>3. CASE SayLaunched(s)
      <4>1. /\ lldb[s] = "listed" /\ lldb'[s] = "watching" /\ UNCHANGED known
            /\ file'[s] = IF file[s] = "stopped" THEN "stopped" ELSE "launched"
        BY <3>3, UpdateOne, Values DEF SayLaunched, Debugger, TypeOK
      <4> QED BY <1>1, <1>2, <1>6, <4>1 DEF Order, FileOrder, DebugOrder, MayOpen, DebuggerReady
    <3>4. CASE Attach(s)
      <4>1. /\ lldb[s] = "watching" /\ UNCHANGED known
            /\ \/ lldb'[s] = "gone" /\ UNCHANGED file
               \/ /\ lldb'[s] = "attached"
                  /\ file'[s] = IF file[s] = "stopped" THEN "stopped" ELSE "attached"
        BY <3>4, UpdateOne, Values, ZenonT(60) DEF Attach, Debugger, TypeOK
      <4> QED BY <1>1, <1>2, <1>6, <4>1 DEF Order, FileOrder, DebugOrder, MayOpen, DebuggerReady
    <3>5. CASE Leave(s)
      <4>1. lldb'[s] = "gone" /\ UNCHANGED <<file, known>>
        BY <3>5 DEF Leave, Debugger, TypeOK, fileVars
      <4> QED BY <1>1, <1>2, <1>6, <4>1 DEF Order, FileOrder, DebugOrder, MayOpen, DebuggerReady
    <3> QED BY <3>1, <3>2, <3>3, <3>4, <3>5 DEF Debugging
  <2> QED BY <1>6, <2>1, <2>2 DEF Order
<1> QED BY <1>5, <1>6

\* Every step keeps the order.
LEMMA OrderNext ==
  ASSUME TypeOK, NEW s \in Sessions, NEW t \in Sessions, Order(s), Order(t),
         \/ \E status \in Statuses : Write(s, status)
         \/ Resolution(s) \/ Working(s) \/ Debugging(s)
         \/ Terminated(s) \/ SessionEnds(s) \/ Environment(s)
  PROVE  Order(t)'
<1>1. CASE Resolution(s) \/ Command(s) \/ LaunchFromEditor(s) \/ Refuse(s) \/ CancelCommand(s)
  BY <1>1, ResolutionOrder, OpenOrder DEF Resolution
<1>2. CASE Working(s)
  BY <1>2, BuildOrder, RunOrder DEF Working
<1>3. CASE \/ AppEnds(s) \/ SimulatorHangs(s) \/ Retry(s) \/ RetryIsLost(s)
           \/ Terminated(s) \/ UserStops(s)
  BY <1>3, AppOrder
<1>4. CASE SessionEnds(s) \/ AdapterDies(s)
  BY <1>4, CloseOrder DEF SessionEnds, AdapterDies
<1> QED BY <1>1, <1>2, <1>3, <1>4, WriteOrder, DebuggingOrder DEF Environment

-----------------------------------------------------------------------------
(* Commands *)

\* Contexts that end leave the others to who has the slot.
LEMMA SettleKeeps ==
  ASSUME CommandInv, NEW S, Settle(S),
         \A t \in Sessions : vs'[t] \in Admitted => vs[t] \in Admitted /\ t \notin S,
         cancelled \subseteq cancelled',
         \A t \in Sessions : work'[t] \notin {"none", "done"} =>
             /\ work[t] \notin {"none", "done"} \/ t \in bound \ S
             /\ t \in S => t \in cancelled'
  PROVE  CommandInv'
<1>1. bound' = bound \ S /\ slot' = IF slot \in S THEN NoSession ELSE slot
  BY DEF Settle
<1>2. \A t \in bound' : slot' = t
  BY <1>1 DEF CommandInv
<1>3. \A t \in Sessions : vs'[t] \in Admitted => slot' = t
  BY <1>1 DEF CommandInv
<1>4. \A t \in Sessions : work'[t] \notin {"none", "done"} => t \in cancelled' \/ t \in bound'
  BY <1>1 DEF CommandInv
<1> QED BY <1>2, <1>3, <1>4 DEF CommandInv

\* Whose command runs or waits for VS Code is not waiting to be let in.
LEMMA NotAdmitted ==
  ASSUME NEW s \in Sessions, Order(s), work[s] # "none" \/ lldb[s] # "none"
  PROVE  vs[s] \notin Before /\ vs[s] \notin Admitted
  BY DEF Order, Phases, Before

\* Commands, their contexts and what they ask for.
LEMMA ResolutionCommand ==
  ASSUME TypeOK, CommandInv, NEW s \in Sessions, \A t \in Sessions : Order(t),
         Resolution(s) \/ Command(s) \/ LaunchFromEditor(s) \/ Refuse(s) \/ CancelCommand(s)
  PROVE  CommandInv'
<1>1. ASSUME NEW S \in SUBSET Sessions, Cancel(S), UNCHANGED work,
             \/ UNCHANGED vs
             \/ \E v \in {"queued", "requeued", "closed"} : vs' = [vs EXCEPT ![s] = v]
      PROVE  CommandInv'
  <2>1. /\ cancelled' = cancelled \cup S
        /\ Settle({u \in S : vs[u] \notin Admitted})
    BY <1>1 DEF Cancel
  <2>2. \A t \in Sessions : vs'[t] \in Admitted => vs[t] \in Admitted
    BY <1>1 DEF TypeOK, Admitted
  <2> DEFINE Gone == {u \in S : vs[u] \notin Admitted}
  <2>3. /\ \A t \in Sessions : vs'[t] \in Admitted => vs[t] \in Admitted /\ t \notin Gone
        /\ \A t \in Gone : t \in cancelled'
        /\ cancelled \subseteq cancelled'
    BY <2>1, <2>2
  <2> HIDE DEF Gone
  <2>4. Settle(Gone)
    BY <2>1 DEF Gone
  <2> QED BY <1>1, <2>3, <2>4, SettleKeeps
<1>2. ASSUME UNCHANGED <<slot, bound, cancelled, work>>,
             \E v \in {"asked", "resolving", "closed", "hung", "starting", "restarting", "refused",
                     "abandoned"} : vs' = [vs EXCEPT ![s] = v]
      PROVE  CommandInv'
  <2>1. \A t \in Sessions : vs'[t] \in Admitted => vs[t] \in Admitted
    BY <1>2 DEF TypeOK, Admitted
  <2> QED BY <1>2, <2>1 DEF CommandInv
<1>3. CASE \/ Command(s) \/ ResolveUnbound(s) \/ CancelCommand(s)
           \/ ConfigurationFails(s) \/ Answered(s)
  <2>1. {slot} \ {NoSession} \in SUBSET Sessions /\ {s} \in SUBSET Sessions
    BY DEF TypeOK
  <2>2. \E S \in SUBSET Sessions : Cancel(S)
    BY <1>3, <2>1 DEF Command, ResolveUnbound, CancelCommand, ConfigurationFails, Answered, Request
  <2>3. /\ UNCHANGED work
        /\ \/ UNCHANGED vs
           \/ \E v \in {"queued", "requeued", "closed"} : vs' = [vs EXCEPT ![s] = v]
    BY <1>3 DEF Command, ResolveUnbound, CancelCommand, ConfigurationFails, Answered
  <2> QED BY <1>1, <2>2, <2>3
<1>4. CASE Drop(s) \/ Configured(s) \/ Resolve(s) \/ LaunchFromEditor(s) \/ Refuse(s)
  BY <1>2, <1>4 DEF Drop, Configured, Resolve, LaunchFromEditor, Refuse, commandVars
<1>5. CASE Admit(s)
  <2>1. /\ vs[s] \in Queued /\ slot = NoSession /\ slot' = s /\ cancelled' = cancelled \ {s}
        /\ UNCHANGED <<bound, work>>
        /\ \E v \in {"admitted", "readmitted"} : vs' = [vs EXCEPT ![s] = v]
    BY <1>5 DEF Admit
  <2>2. bound = {} /\ \A t \in Sessions : vs[t] \notin Admitted
    BY <2>1, SessionsAssumption DEF CommandInv, TypeOK
  <2>3. \A t \in Sessions : vs'[t] \in Admitted => slot' = t
    BY <2>1, <2>2 DEF TypeOK
  <2>4. work[s] = "none"
    BY <2>1 DEF Order, Phases, Before
  <2> QED BY <2>1, <2>2, <2>3, <2>4 DEF CommandInv
<1>6. CASE Begin(s)
  <2>1. /\ vs[s] \in Admitted /\ UNCHANGED <<work, cancelled>>
        /\ \E v \in {"asked", "reresolving"} : vs' = [vs EXCEPT ![s] = v]
    BY <1>6 DEF Begin
  <2>2. /\ slot = s /\ work[s] = "none"
    BY <2>1 DEF CommandInv, Order, Phases, Before
  <2>3. \A t \in Sessions : vs'[t] \in Admitted => vs[t] \in Admitted /\ t # s
    BY <2>1 DEF TypeOK, Admitted
  <2>4. CASE s \in cancelled
    <3>1. Settle({s})
      BY <1>6, <2>4 DEF Begin
    <3> QED BY <2>1, <2>2, <2>3, <3>1, SettleKeeps
  <2>5. CASE s \notin cancelled
    <3>1. bound' = bound \cup {s} /\ UNCHANGED slot
      BY <1>6, <2>5 DEF Begin
    <3> QED BY <2>1, <2>2, <2>3, <3>1 DEF CommandInv
  <2> QED BY <2>4, <2>5
<1>7. CASE Open(s)
  <2>1. /\ UNCHANGED <<slot, bound, cancelled>>
        /\ \E v \in {"closed", "open"} : vs' = [vs EXCEPT ![s] = v]
        /\ \/ UNCHANGED work
           \/ s \in bound /\ \E v \in {"checking", "to run"} : work' = [work EXCEPT ![s] = v]
    BY <1>7 DEF Open, commandVars
  <2>2. \A t \in Sessions : vs'[t] \in Admitted => vs[t] \in Admitted
    BY <2>1 DEF TypeOK, Admitted
  <2>3. \A t \in Sessions : work'[t] = work[t] \/ t \in bound
    BY <2>1 DEF TypeOK
  <2> QED BY <2>1, <2>2, <2>3 DEF CommandInv
<1> QED BY <1>3, <1>4, <1>5, <1>6, <1>7 DEF Resolution

\* The work of a session ends its command, and nothing else starts one.
LEMMA OtherCommand ==
  ASSUME TypeOK, CommandInv, NEW s \in Sessions, \A t \in Sessions : Order(t),
         \/ \E status \in Statuses : Write(s, status)
         \/ Working(s) \/ Debugging(s)
         \/ AppEnds(s) \/ SimulatorHangs(s) \/ Retry(s) \/ RetryIsLost(s)
         \/ Terminated(s) \/ UserStops(s) \/ Close(s)
  PROVE  CommandInv'
<1>1. ASSUME UNCHANGED <<commandVars, vs, work>>
      PROVE  CommandInv'
  BY <1>1 DEF CommandInv, commandVars
<1>2. CASE CheckBuild(s) \/ Build(s) \/ Built(s) \/ Run(s) \/ Prepare(s) \/ StartTests(s)
  <2>1. /\ UNCHANGED <<commandVars, vs>> /\ work[s] \notin {"none", "done"}
        /\ \E v \in Works : work' = [work EXCEPT ![s] = v]
    BY <1>2, Values DEF CheckBuild, Build, Built, Run, Prepare, StartTests, Work
  <2>2. \A t \in Sessions : work'[t] \notin {"none", "done"} => work[t] \notin {"none", "done"}
    BY <2>1 DEF TypeOK
  <2> QED BY <2>1, <2>2 DEF CommandInv, commandVars
<1>3. CASE Launch(s) \/ WorkFails(s) \/ TestsEnd(s)
  <2>1. /\ UNCHANGED <<vs, cancelled>> /\ Settle({s}) /\ work[s] # "none"
        /\ work' = [work EXCEPT ![s] = "done"]
    BY <1>3 DEF Launch, WorkFails, TestsEnd, Finish, Work, Throws
  <2>2. vs[s] \notin Admitted
    BY <2>1, NotAdmitted
  <2>3. \A t \in Sessions : work'[t] \notin {"none", "done"} => t # s /\ work[t] \notin {"none", "done"}
    BY <2>1 DEF TypeOK
  <2> QED BY <2>1, <2>2, <2>3, SettleKeeps
<1>4. CASE Terminated(s)
  <2>1. closing[s] # "no" /\ UNCHANGED <<vs, work>>
    BY <1>4 DEF Terminated, Ways
  <2>2. vs[s] \notin Admitted
    BY <2>1, NotAdmitted DEF Order, Phases
  <2>3. CASE cancelled' = cancelled \cup {s} /\ Settle({s})
    BY <2>1, <2>2, <2>3, SettleKeeps
  <2>4. CASE UNCHANGED <<cancelled, slot, bound>>
    BY <2>1, <2>4 DEF CommandInv
  <2> QED BY <1>4, <2>3, <2>4 DEF Terminated
<1>5. CASE Close(s)
  <2>1. UNCHANGED <<commandVars, work>> /\ vs' = [vs EXCEPT ![s] = "closed"]
    BY <1>5 DEF Close
  <2>2. \A t \in Sessions : vs'[t] \in Admitted => vs[t] \in Admitted
    BY <2>1 DEF TypeOK, Admitted
  <2> QED BY <2>1, <2>2 DEF CommandInv, commandVars
<1>6. CASE \/ \E status \in Statuses : Write(s, status)
           \/ Debugging(s) \/ UserStops(s)
           \/ AppEnds(s) \/ SimulatorHangs(s) \/ Retry(s) \/ RetryIsLost(s)
  BY <1>1, <1>6 DEF Write, Debugging, CreateTarget, ListProcesses, SayLaunched, Attach, Leave,
                    UserStops, AppEnds, SimulatorHangs, Retry, RetryIsLost
<1> QED BY <1>2, <1>3, <1>4, <1>5, <1>6 DEF Working

-----------------------------------------------------------------------------
(* Apps *)

\* No app starts, and no session gets its turn.
LEMMA AppKeeps ==
  ASSUME AppInv, target' = target, beside \subseteq beside',
         \A t \in Sessions : Runs(t)' => Runs(t),
         \A t \in Sessions : work'[t] = "waiting" /\ t \notin cancelled' =>
             work[t] = "waiting" /\ t \notin cancelled
  PROVE  AppInv'
<1>1. \A s, t \in Sessions : Runs(s)' /\ Runs(t)' /\ target'[s] = target'[t] => s = t
  BY DEF AppInv, OneApp, Runs
<1>2. OneApp'
  BY <1>1 DEF OneApp, Runs
<1> QED BY <1>2 DEF AppInv

\* One session has its turn, because it has the slot.
LEMMA OneTurn ==
  ASSUME CommandInv, NEW s \in Sessions, NEW t \in Sessions,
         work[s] \notin {"none", "done"}, s \notin cancelled,
         work[t] \notin {"none", "done"}, t \notin cancelled
  PROVE  s = t
  BY DEF CommandInv

LEMMA AppNext ==
  ASSUME TypeOK, CommandInv, AppInv, NEW s \in Sessions, \A t \in Sessions : Order(t),
         \/ \E status \in Statuses : Write(s, status)
         \/ Resolution(s) \/ Working(s) \/ Debugging(s)
         \/ Terminated(s) \/ SessionEnds(s) \/ Environment(s)
  PROVE  AppInv'
<1>1. ASSUME UNCHANGED <<target, appVars>>, UNCHANGED work, cancelled \subseteq cancelled'
      PROVE  AppInv'
  BY <1>1, AppKeeps DEF appVars, Runs
<1>2. CASE \/ \E status \in Statuses : Write(s, status)
           \/ Debugging(s) \/ UserStops(s) \/ Close(s)
           \/ Drop(s) \/ Begin(s) \/ Resolve(s) \/ Configured(s) \/ LaunchFromEditor(s)
           \/ Refuse(s) \/ Terminated(s)
  <2>1. UNCHANGED <<target, appVars>> /\ UNCHANGED work
    BY <1>2 DEF Write, Debugging, CreateTarget, ListProcesses, SayLaunched, Attach, Leave,
                UserStops, Close, Drop, Begin, Resolve, Configured, LaunchFromEditor, Refuse, Terminated
  <2>2. UNCHANGED cancelled \/ cancelled' = cancelled \cup {s}
    BY <1>2 DEF Write, Debugging, CreateTarget, ListProcesses, SayLaunched, Attach, Leave,
                UserStops, Close, Drop, Begin, Resolve, Configured, LaunchFromEditor, Refuse, Terminated,
                commandVars
  <2> QED BY <1>1, <2>1, <2>2
<1>3. CASE \/ Command(s) \/ ResolveUnbound(s) \/ CancelCommand(s)
           \/ ConfigurationFails(s) \/ Answered(s)
  <2>1. UNCHANGED <<target, appVars>> /\ UNCHANGED work
    BY <1>3 DEF Command, ResolveUnbound, CancelCommand, ConfigurationFails, Answered
  <2>2. cancelled \subseteq cancelled'
    BY <1>3 DEF Command, ResolveUnbound, CancelCommand, ConfigurationFails, Answered, Request,
                     Cancel
  <2> QED BY <1>1, <2>1, <2>2
<1>4. CASE Admit(s)
  <2>1. /\ vs[s] \in Queued /\ cancelled' = cancelled \ {s}
        /\ UNCHANGED <<target, work, app, beside>>
    BY <1>4 DEF Admit, appVars
  <2>2. work[s] = "none"
    BY <2>1 DEF Order, Phases, Before
  <2> QED BY <2>1, <2>2, AppKeeps DEF Runs
<1>5. ASSUME UNCHANGED <<target, appVars>>, UNCHANGED cancelled,
             \E v \in {"checking", "to build", "building", "to run", "preparing", "done"} :
                 work' = [work EXCEPT ![s] = v]
      PROVE  AppInv'
  <2>1. \A t \in Sessions : work'[t] = "waiting" => work[t] = "waiting"
    BY <1>5 DEF TypeOK
  <2> QED BY <1>5, <2>1, AppKeeps DEF appVars, Runs
<1>6. CASE Open(s)
  <2>1. UNCHANGED <<target, appVars>> /\ UNCHANGED cancelled
    BY <1>6 DEF Open, commandVars
  <2>2. UNCHANGED work \/ \E v \in {"checking", "to run"} : work' = [work EXCEPT ![s] = v]
    BY <1>6 DEF Open
  <2> QED BY <1>1, <1>5, <2>1, <2>2
<1>7. CASE CheckBuild(s) \/ Build(s) \/ Built(s) \/ Run(s) \/ WorkFails(s)
  BY <1>5, <1>7 DEF CheckBuild, Build, Built, Run, WorkFails, Finish, Work, commandVars
<1>8. CASE Prepare(s)
  <2>1. /\ s \notin cancelled /\ work[s] = "preparing"
        /\ work' = [work EXCEPT ![s] = "waiting"]
        /\ UNCHANGED <<target, cancelled>>
    BY <1>8 DEF Prepare, Work, commandVars
  <2> DEFINE Ends(a, ended) ==
        /\ app' = [t \in Sessions |-> IF t \in ended THEN "ended" ELSE app[t]]
        /\ beside' = IF ended = Running(a) THEN beside ELSE beside \cup {s}
  <2>2. PICK a \in Selected(s) : \E ended \in {{}, Running(a)} : Ends(a, ended)
    BY <1>8 DEF Prepare
  <2>3. PICK ended : Ends(a, ended)
    BY <2>2
  <2>4. /\ beside \subseteq beside'
        /\ \A t \in Sessions : app'[t] = "running" => app[t] = "running" /\ t \notin ended
    BY <2>3
  <2>5. \A t \in Sessions : Runs(t)' => Runs(t)
    BY <2>1, <2>4 DEF Runs
  <2>6. OneApp'
    BY <2>1, <2>4 DEF OneApp, AppInv
  <2>7. ASSUME s \notin beside', target[s] # "tests"
        PROVE  \A t \in Sessions : ~(Runs(t)' /\ target'[t] = target'[s])
    <3>1. a = target[s] /\ ended = Running(a)
      BY <2>2, <2>7, <2>3 DEF Selected
    <3> QED BY <2>1, <2>4, <3>1 DEF Running, Runs
  <2>8. ASSUME target[s] = "tests"
        PROVE  \A t \in Sessions : ~(Runs(t)' /\ target'[t] = target'[s])
    BY <2>1, <2>8 DEF Runs
  <2>9. \A t \in Sessions \ {s} : ~(work'[t] = "waiting" /\ t \notin cancelled')
    BY <2>1, OneTurn DEF TypeOK
  <2> QED BY <2>6, <2>7, <2>8, <2>9 DEF AppInv
<1>9. CASE Launch(s)
  <2>1. /\ s \notin cancelled /\ work[s] = "waiting"
        /\ work' = [work EXCEPT ![s] = "done"] /\ app' = [app EXCEPT ![s] = "running"]
        /\ UNCHANGED <<target, cancelled, beside>>
    BY <1>9 DEF Launch, Work, commandVars
  <2>2. \A t \in Sessions \ {s} : Runs(t)' => Runs(t)
    BY <2>1 DEF Runs, TypeOK
  <2>3. s \notin beside => \A t \in Sessions \ {s} : ~(Runs(t) /\ target[t] = target[s])
    BY <2>1 DEF AppInv
  <2>4. \A t, u \in Sessions : Runs(t)' /\ Runs(u)' /\ target'[t] = target'[u] => t = u
    <3>1. \A t, u \in Sessions : Runs(t) /\ Runs(u) /\ target[t] = target[u] => t = u
      BY DEF AppInv, OneApp, Runs
    <3>2. Runs(s)' => s \notin beside
      BY <2>1 DEF Runs
    <3> QED BY <2>1, <2>2, <2>3, <3>1, <3>2
  <2>5. OneApp'
    BY <2>4 DEF OneApp, Runs
  <2>6. \A t \in Sessions : ~(work'[t] = "waiting" /\ t \notin cancelled')
    BY <2>1, OneTurn DEF TypeOK
  <2> QED BY <2>5, <2>6 DEF AppInv
<1>10. CASE StartTests(s) \/ TestsEnd(s)
  <2>1. /\ work[s] \in {"waiting", "testing"} /\ UNCHANGED <<target, cancelled, beside>>
        /\ \E v \in {"testing", "done"} : work' = [work EXCEPT ![s] = v]
        /\ \/ target[s] = "tests" /\ app' = [app EXCEPT ![s] = "running"]
           \/ app' = [app EXCEPT ![s] = "ended"]
    BY <1>10 DEF StartTests, TestsEnd, Finish, Work, commandVars
  <2>2. \A t \in Sessions : Runs(t)' => Runs(t)
    BY <2>1 DEF Runs, TypeOK
  <2>3. \A t \in Sessions : work'[t] = "waiting" => work[t] = "waiting"
    BY <2>1 DEF TypeOK
  <2> QED BY <2>1, <2>2, <2>3, AppKeeps
<1>11. CASE AppEnds(s) \/ SimulatorHangs(s) \/ Retry(s) \/ RetryIsLost(s)
  <2>1. UNCHANGED <<target, work, cancelled>> /\ beside \subseteq beside'
    BY <1>11 DEF AppEnds, SimulatorHangs, Retry, RetryIsLost, commandVars
  <2>2. \A t \in Sessions : Runs(t)' => Runs(t)
    <3>1. CASE Retry(s)
      BY <3>1 DEF Retry, Runs, TypeOK
    <3>2. CASE AppEnds(s) \/ SimulatorHangs(s) \/ RetryIsLost(s)
      BY <3>2 DEF AppEnds, SimulatorHangs, RetryIsLost, Runs, TypeOK
    <3> QED BY <1>11, <3>1, <3>2
  <2> QED BY <2>1, <2>2, AppKeeps
<1> QED BY <1>2, <1>3, <1>4, <1>6, <1>7, <1>8, <1>9, <1>10, <1>11
        DEF Resolution, Working, Environment, SessionEnds, AdapterDies

-----------------------------------------------------------------------------
(* Theorems *)

LEMMA Initially == Init => IInv
<1> SUFFICES ASSUME Init PROVE IInv
  OBVIOUS
<1>1. TypeOK
  BY DEF Init, TypeOK, VsStates, Works, Closings, LldbStates, AppStates
<1>2. \A s \in Sessions : Order(s)
  BY DEF Init, Order, SpawnOrder, FileOrder, DebugOrder, Phases, Pending, MayOpen, DebuggerReady
<1>3. CommandInv
  BY DEF Init, CommandInv, Admitted
<1>4. AppInv
  BY DEF Init, AppInv, OneApp, Runs
<1> QED BY <1>1, <1>2, <1>3, <1>4 DEF IInv

LEMMA InductiveStep == IInv /\ [Next]_vars => IInv'
<1> SUFFICES ASSUME IInv, [Next]_vars PROVE IInv'
  OBVIOUS
<1>1. TypeOK'
  BY NextType DEF IInv
<1>2. CASE UNCHANGED vars
  <2>1. (\A s \in Sessions : Order(s))'
    BY <1>2 DEF IInv, Order, SpawnOrder, FileOrder, DebugOrder, Phases, Pending, MayOpen,
                DebuggerReady, vars, fileVars, debugVars, appVars
  <2>2. CommandInv' /\ AppInv'
    BY <1>2 DEF IInv, CommandInv, AppInv, OneApp, Runs, vars, commandVars, appVars
  <2> QED BY <1>1, <2>1, <2>2 DEF IInv
<1>3. ASSUME NEW s \in Sessions,
             \/ \E status \in Statuses : Write(s, status)
             \/ Resolution(s) \/ Working(s) \/ Debugging(s)
             \/ Terminated(s) \/ SessionEnds(s) \/ Environment(s)
      PROVE  IInv'
  <2>1. (\A t \in Sessions : Order(t))'
    BY <1>3, OrderNext DEF IInv
  <2>2. CommandInv'
    BY <1>3, ResolutionCommand, OtherCommand DEF IInv, Environment, SessionEnds, AdapterDies
  <2>3. AppInv'
    BY <1>3, AppNext DEF IInv
  <2> QED BY <1>1, <2>1, <2>2, <2>3 DEF IInv
<1> QED BY <1>2, <1>3 DEF Next

THEOREM Invariance == Spec => []IInv
<1> QED BY Initially, InductiveStep, PTL DEF Spec

\* The types of DebugSession, for any number of sessions.
THEOREM TypeCorrect == Spec => []TypeOK
<1>1. IInv => TypeOK
  BY DEF IInv
<1> QED BY <1>1, Invariance, PTL

\* The debugger of a session finds the process the session launches.
THEOREM AppIsSeen == Spec => []SeesItsApp
<1>1. IInv => SeesItsApp
  BY DEF IInv, SeesItsApp, Order, DebugOrder, DebuggerReady
<1> QED BY <1>1, Invariance, PTL

\* The debugger opens no executable that is still being built.
THEOREM BuiltBeforeOpened == Spec => []TargetIsBuilt
<1>1. IInv => TargetIsBuilt
  BY DEF IInv, TargetIsBuilt, Order, DebugOrder, Unbuilt
<1> QED BY <1>1, Invariance, PTL

\* An app runs once on its simulator, unless it was launched where it could find another.
THEOREM AppsTakeTurns == Spec => []OneApp
<1>1. IInv => OneApp
  BY DEF IInv, AppInv
<1> QED BY <1>1, Invariance, PTL

\* A session that is stopped in the file stays so.
THEOREM StopsAreFinal == Spec => StoppedIsFinal
<1> DEFINE Final == \A s \in Sessions : file[s] = "stopped" => file'[s] = "stopped"
<1>1. ASSUME TypeOK, NEW s \in Sessions, NEW status \in Statuses, file' = Updated(s, status)
      PROVE  Final
  BY <1>1, UpdateOne
<1>2. ASSUME TypeOK, [Next]_vars PROVE Final
  <2>1. CASE UNCHANGED file
    BY <2>1
  <2>2. ASSUME NEW s \in Sessions,
               \/ \E status \in Statuses : Write(s, status)
               \/ Resolution(s) \/ Working(s) \/ Debugging(s)
               \/ Terminated(s) \/ SessionEnds(s) \/ Environment(s)
        PROVE  UNCHANGED file \/ \E status \in Statuses : file' = Updated(s, status)
    BY <2>2, Values
       DEF Write, Resolution, Working, Debugging, Environment, SessionEnds, AdapterDies,
           Admit, Drop, Begin, Resolve, ResolveUnbound, Configured, ConfigurationFails, Answered,
           Refuse, Open, CheckBuild, Build, Built, Run, Prepare, Launch, StartTests, WorkFails, TestsEnd,
           CreateTarget, ListProcesses, SayLaunched, Attach, Leave, Terminated, Close, Command,
           LaunchFromEditor, CancelCommand, AppEnds, SimulatorHangs, Retry, RetryIsLost,
           UserStops, fileVars
  <2> QED BY <1>1, <1>2, <2>1, <2>2 DEF Next, vars, fileVars
<1> HIDE DEF Final
<1>3. TypeOK /\ [Next]_vars => [Final]_vars
  BY <1>2
<1>4. Spec => [][Final]_vars
  BY <1>3, TypeCorrect, PTL DEF Spec
<1> QED BY <1>4 DEF StoppedIsFinal, Final

=============================================================================
