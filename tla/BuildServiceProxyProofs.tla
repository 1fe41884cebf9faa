----------------------- MODULE BuildServiceProxyProofs -----------------------
(***************************************************************************)
(* Proofs about BuildServiceProxy, for any number of xcodebuilds.  IInv is *)
(* the inductive invariant: what the configuration file says about who     *)
(* works for whom, and what a server that is started or killed leaves.     *)
(***************************************************************************)
EXTENDS BuildServiceProxy, TLAPS

\* The entry is that of a client that has registered.
EntryInv ==
    /\ entry.status = "none" <=> entry.build = Nobody
    /\ entry.build # Nobody => phase[entry.build] # "none"

\* A server's state does not outlive it.
DeadInv == \A s \in Servers : s \notin alive => serving[s] = Nobody /\ operations[s] = {}

\* A client that is served has been taken, and is overtaken at most.
ServingInv ==
    \A s \in Servers : serving[s] # Nobody =>
        serving[s] < entry.build \/ entry = [build |-> serving[s], status |-> "started"]

\* Without a race there is one server.
SoleInv == doubled \/ \A s, z \in alive : s = z

\* A client that was taken is served as long as that server lives.
TakenInv ==
    \A b \in Builds :
        entry = [build |-> b, status |-> "started"] /\ alive # {}
            => b \in late \/ doubled \/ Served(b)

\* A service is at work only for a server that knows it.
WorkInv ==
    \A s \in alive \ abandoned :
        /\ operations[s] \subseteq {serving[s]}
        /\ operations[s] # {} => s \in building

IInv ==
    /\ TypeOK /\ EntryInv /\ DeadInv /\ ServingInv /\ OneServerEach
    /\ SoleInv /\ TakenInv /\ WorkInv

-----------------------------------------------------------------------------
(* Classes of actions *)

\* What a client does by itself: it moves on, and no server is touched.
Moves(b) ==
    \/ LookUp(b) \/ Taken(b) \/ Outdated(b) \/ Frozen(b) \/ LockTimeout(b)
    \/ Poll(b) \/ ServerLost(b) \/ Exit(b) \/ SubStarts(b) \/ SubEnds(b)

\* The death of a server for one of its own reasons.
Dies(s) == LookTimeout(s) \/ ServerExits(s)

\* The initial state satisfies the invariant.
LEMMA InitInv == Init => IInv
<1> SUFFICES ASSUME Init PROVE IInv
  OBVIOUS
<1>1. \A b \in Builds : phase[b] \notin {"waiting", "running"}
  BY DEF Init
<1>2. TypeOK
  <2>1. entry \in [build : Builds \cup {Nobody}, status : {"none", "waiting", "started"}]
    BY DEF Init
  <2>2. phase \in [Builds -> Phases] /\ read \in [Servers -> 0 .. 2]
    BY DEF Init, Phases
  <2>3. watched \in [Builds -> Builds \cup {Nobody}]
        /\ serving \in [Builds -> Builds \cup {Nobody}]
        /\ operations \in [Servers -> SUBSET Builds]
    BY DEF Init, Servers
  <2>4. QED BY <1>1, <2>1, <2>2, <2>3 DEF Init, TypeOK
<1>3. EntryInv /\ DeadInv /\ ServingInv
  BY DEF Init, EntryInv, DeadInv, ServingInv
<1>4. OneServerEach /\ SoleInv /\ TakenInv /\ WorkInv
  BY DEF Init, OneServerEach, SoleInv, TakenInv, WorkInv
<1>5. QED BY <1>2, <1>3, <1>4 DEF IInv

-----------------------------------------------------------------------------
(* The actions, one lemma for each kind *)

\* A client that moves on changes nothing that the invariant relates, and is not
\* back where it started.
LEMMA MovesFrame ==
    ASSUME TypeOK, NEW b \in Builds, Moves(b)
    PROVE  /\ UNCHANGED <<entry, alive, serving, building, operations, abandoned,
                          late, doubled, read, cancelled, news>>
           /\ phase' \in [Builds -> Phases]
           /\ \A c \in Builds : phase[c] # "none" => phase'[c] # "none"
<1> USE DEF Goto, Leave, fileVars, serverVars, clientVars, TypeOK, Phases, Gone
<1>1. CASE LookUp(b) BY <1>1 DEF LookUp
<1>2. CASE Taken(b) BY <1>2 DEF Taken
<1>3. CASE Outdated(b) BY <1>3 DEF Outdated
<1>4. CASE Frozen(b) BY <1>4 DEF Frozen
<1>5. CASE LockTimeout(b) BY <1>5 DEF LockTimeout
<1>6. CASE Poll(b) BY <1>6 DEF Poll
<1>7. CASE ServerLost(b) BY <1>7 DEF ServerLost
<1>8. CASE Exit(b) BY <1>8 DEF Exit
<1>9. CASE SubStarts(b) \/ SubEnds(b) BY <1>9 DEF SubStarts, SubEnds
<1>10. QED BY <1>1, <1>2, <1>3, <1>4, <1>5, <1>6, <1>7, <1>8, <1>9 DEF Moves

\* The rest of their types.
LEMMA MovesTypes ==
    ASSUME TypeOK, NEW b \in Builds, Moves(b)
    PROVE  TypeOK'
<1>1. UNCHANGED <<entry, alive, serving, building, operations, abandoned,
                  late, doubled, read, cancelled, news>>
  BY MovesFrame
<1>2. phase' \in [Builds -> Phases]
  BY MovesFrame DEF TypeOK
<1>3. lock' \in Builds \cup {Nobody} /\ behind' \subseteq Builds
      /\ watched' \in [Builds -> Builds \cup {Nobody}]
  BY DEF Moves, LookUp, Taken, Outdated, Frozen, LockTimeout, Poll, ServerLost, Exit,
         SubStarts, SubEnds, fileVars, serverVars, clientVars, TypeOK, Servers
<1>4. \A c \in Builds : phase'[c] \in {"waiting", "running"} => watched'[c] # Nobody
  <2> USE DEF Goto, Leave, fileVars, clientVars, TypeOK, Phases
  <2>1. CASE LookUp(b)
    <3>1. Nobody \notin alive BY DEF TypeOK, Builds, Nobody
    <3>2. QED BY <2>1, <3>1 DEF LookUp
  <2>2. CASE Taken(b) BY <2>2 DEF Taken
  <2>3. CASE Outdated(b) \/ Frozen(b) BY <2>3 DEF Outdated, Frozen
  <2>4. CASE LockTimeout(b) \/ Poll(b) BY <2>4 DEF LockTimeout, Poll
  <2>5. CASE ServerLost(b) \/ Exit(b) BY <2>5 DEF ServerLost, Exit
  <2>6. CASE SubStarts(b) \/ SubEnds(b) BY <2>6 DEF SubStarts, SubEnds
  <2>7. QED BY <2>1, <2>2, <2>3, <2>4, <2>5, <2>6 DEF Moves
<1>5. QED BY <1>1, <1>2, <1>3, <1>4 DEF TypeOK

LEMMA MovesInv ==
    ASSUME IInv, NEW b \in Builds, Moves(b)
    PROVE  IInv'
<1>1. UNCHANGED <<entry, alive, serving, building, operations, abandoned, late, doubled>>
  BY MovesFrame DEF IInv
<1>2. \A c \in Builds : phase[c] # "none" => phase'[c] # "none"
  BY MovesFrame DEF IInv
<1>3. TypeOK' BY MovesTypes DEF IInv
<1>4. EntryInv' BY <1>1, <1>2 DEF IInv, EntryInv, TypeOK
<1>5. (DeadInv /\ ServingInv /\ OneServerEach /\ SoleInv)'
  BY <1>1 DEF IInv, DeadInv, ServingInv, OneServerEach, SoleInv
<1>6. (TakenInv /\ WorkInv)'
  BY <1>1 DEF IInv, TakenInv, WorkInv, Served
<1>7. QED BY <1>3, <1>4, <1>5, <1>6 DEF IInv

\* A registration: the entry passes on to a client that nobody serves.
LEMMA RegisterInv ==
    ASSUME IInv, NEW b \in Builds, Register(b)
    PROVE  IInv'
<1> USE DEF IInv
<1>1. TypeOK'
  BY DEF Register, Write, Goto, Leave, TypeOK, Phases
<1>2. UNCHANGED <<alive, serving, building, operations, abandoned, late, doubled>>
  BY DEF Register
<1>3. phase'[b] # "none" /\ \A c \in Builds \ {b} : phase'[c] = phase[c]
  BY DEF Register, Goto, Leave, TypeOK
<1>4. entry' = entry \/ entry' = [build |-> b, status |-> "waiting"]
  BY DEF Register, Write
<1>5. entry' # entry => entry.build < b
  <2>1. entry.build # b
    BY BuildsAssumption DEF Register, EntryInv, Builds, Nobody
  <2>2. entry' # entry => ~(entry.build > b)
    BY DEF Register
  <2>3. QED BY <2>1, <2>2, BuildsAssumption DEF TypeOK, Builds, Nobody
<1>6. EntryInv'
  BY <1>3, <1>4, BuildsAssumption DEF EntryInv, TypeOK, Builds, Nobody
<1>7. ServingInv'
  <2>1. SUFFICES ASSUME NEW s \in Servers, serving[s] # Nobody
                 PROVE  \/ serving[s] < entry'.build
                        \/ entry' = [build |-> serving[s], status |-> "started"]
    BY <1>2 DEF ServingInv
  <2>2. CASE entry' = entry BY <2>1, <2>2 DEF ServingInv
  <2>3. CASE entry' # entry
    <3>1. entry'.build = b /\ entry.build < b BY <2>3, <1>4, <1>5
    <3>2. serving[s] <= entry.build
      BY <2>1, BuildsAssumption DEF ServingInv, TypeOK, Builds, Servers, Nobody
    <3>3. QED
      BY <3>1, <3>2, BuildsAssumption DEF TypeOK, Builds, Servers, Nobody
  <2>4. QED BY <2>2, <2>3
<1>8. (DeadInv /\ OneServerEach /\ SoleInv)'
  BY <1>2 DEF DeadInv, OneServerEach, SoleInv
<1>9. (TakenInv /\ WorkInv)'
  BY <1>2, <1>4 DEF TakenInv, WorkInv, Served
<1>10. QED BY <1>1, <1>6, <1>7, <1>8, <1>9

\* A server is started: it works for nobody, and who was taken before is late.
LEMMA LaunchInv ==
    ASSUME IInv, NEW b \in Builds, Launch(b)
    PROVE  IInv'
<1> USE DEF IInv
<1>1. TypeOK'
  BY BuildsAssumption DEF Launch, Goto, TypeOK, Phases, Servers, Builds, Nobody
<1>2. UNCHANGED <<entry, serving, building, operations, abandoned>>
      /\ alive' = alive \cup {b} /\ doubled' = (doubled \/ alive # {})
  BY DEF Launch
<1>3. EntryInv'
  BY <1>2 DEF Launch, Goto, EntryInv, TypeOK
<1>4. DeadInv' /\ ServingInv'
  BY <1>2 DEF DeadInv, ServingInv
<1>5. OneServerEach'
  BY <1>2 DEF OneServerEach, DeadInv, Servers, TypeOK
<1>6. SoleInv'
  BY <1>2 DEF SoleInv, TypeOK
<1>7. TakenInv'
  BY DEF Launch, TakenInv
<1>8. WorkInv'
  BY <1>2 DEF WorkInv, DeadInv, Servers
<1>9. QED BY <1>1, <1>3, <1>4, <1>5, <1>6, <1>7, <1>8

-----------------------------------------------------------------------------
(* A server that dies *)

\* What is left of the others, when the entry stays, or passes from waiting to
\* taken by the server that dies.
LEMMA DeadKeeps ==
    ASSUME IInv, NEW s \in alive, Dead(s), UNCHANGED <<late, doubled>>,
           entry'.build = entry.build, entry.status = "started" => entry' = entry
    PROVE  (DeadInv /\ ServingInv /\ OneServerEach /\ SoleInv /\ WorkInv)'
<1> USE DEF IInv
<1>1. s \in Servers BY DEF TypeOK, Servers
<1>2. \A z \in Servers : z # s =>
        serving'[z] = serving[z] /\ operations'[z] = operations[z]
  BY <1>1 DEF Dead, TypeOK
<1>3. serving'[s] = Nobody /\ operations'[s] = {} BY <1>1 DEF Dead, TypeOK
<1>4. alive' = alive \ {s} /\ building' = building \ {s} /\ abandoned' = abandoned \ {s}
  BY DEF Dead
<1>5. DeadInv' BY <1>2, <1>3, <1>4 DEF DeadInv
<1>6. ServingInv'
  <2>1. SUFFICES ASSUME NEW z \in Servers, serving'[z] # Nobody
                 PROVE  \/ serving'[z] < entry'.build
                        \/ entry' = [build |-> serving'[z], status |-> "started"]
    BY DEF ServingInv
  <2>2. serving'[z] = serving[z] BY <2>1, <1>2, <1>3
  <2>3. QED BY <2>1, <2>2 DEF ServingInv, TypeOK
<1>7. OneServerEach'
  BY <1>2, <1>4 DEF OneServerEach, TypeOK, Servers
<1>8. SoleInv' BY <1>4 DEF SoleInv
<1>9. WorkInv'
  BY <1>2, <1>4 DEF WorkInv, TypeOK, Servers
<1>10. QED BY <1>5, <1>6, <1>7, <1>8, <1>9

\* Somebody is served by another server than the one that dies.
LEMMA DeadKeepsTaken ==
    ASSUME IInv, NEW s \in alive, Dead(s), UNCHANGED <<late, doubled>>, entry' = entry
    PROVE  TakenInv'
<1> USE DEF IInv
<1>1. SUFFICES ASSUME NEW b \in Builds, entry = [build |-> b, status |-> "started"],
                      alive' # {}, b \notin late, ~doubled
               PROVE  FALSE
  BY DEF TakenInv
<1>2. PICK z \in alive' : TRUE BY <1>1
<1>3. z \in alive /\ z # s BY <1>2 DEF Dead
<1>4. QED BY <1>1, <1>3 DEF SoleInv

\* The types of what dies.
LEMMA DeadTypes ==
    ASSUME TypeOK, NEW s \in alive, Dead(s)
    PROVE  /\ serving' \in [Builds -> Builds \cup {Nobody}]
           /\ read' \in [Servers -> 0 .. 2]
           /\ alive' \subseteq Builds /\ news' \subseteq Builds
           /\ building' \subseteq Builds /\ cancelled' \subseteq Builds
           /\ abandoned' \subseteq Builds
           /\ operations' \in [Servers -> SUBSET Builds]
           /\ building' \cup cancelled' \subseteq alive'
<1>1. alive \subseteq Builds /\ news \subseteq Builds /\ building \subseteq Builds
      /\ cancelled \subseteq Builds /\ abandoned \subseteq Builds
      /\ building \cup cancelled \subseteq alive
  BY DEF TypeOK
<1>2. serving' \in [Builds -> Builds \cup {Nobody}]
      /\ operations' \in [Servers -> SUBSET Builds]
  BY DEF TypeOK, Dead
<1>3. read' \in [Servers -> 0 .. 2]
  <2>1. read \in [Servers -> 0 .. 2] BY DEF TypeOK
  <2>2. read' = [read EXCEPT ![s] = 0] BY DEF Dead
  <2>3. 0 \in 0 .. 2 OBVIOUS
  <2>4. QED BY <2>1, <2>2, <2>3, Zenon
<1>4. QED BY <1>1, <1>2, <1>3 DEF Dead

LEMMA DiesInv ==
    ASSUME IInv, NEW s \in Builds, Dies(s)
    PROVE  IInv'
<1> USE DEF IInv
<1>1. s \in alive /\ Dead(s) /\ UNCHANGED <<clientVars, entry, lock, behind, late, doubled>>
  BY DEF Dies, LookTimeout, ServerExits
<1>2. TypeOK'
  BY <1>1, DeadTypes DEF TypeOK, clientVars
<1>3. EntryInv' BY <1>1 DEF EntryInv, clientVars
<1>4. (DeadInv /\ ServingInv /\ OneServerEach /\ SoleInv /\ WorkInv)'
  BY <1>1, DeadKeeps
<1>5. TakenInv' BY <1>1, DeadKeepsTaken
<1>6. QED BY <1>2, <1>3, <1>4, <1>5

\* A waiting client kills whatever server it finds.
LEMMA KillInv ==
    ASSUME IInv, NEW b \in Builds, Kill(b)
    PROVE  IInv'
<1> USE DEF IInv
<1>1. phase' = [phase EXCEPT ![b] = "launching"]
      /\ UNCHANGED <<watched, entry, lock, behind, late, doubled>>
  BY DEF Kill, Goto
<1>2. phase' \in [Builds -> Phases] /\ EntryInv'
      /\ \A c \in Builds : phase'[c] \in {"waiting", "running"} => watched'[c] # Nobody
  BY <1>1 DEF TypeOK, EntryInv, Phases
<1>3. CASE \E s \in alive : Dead(s)
  <2>1. PICK s \in alive : Dead(s) BY <1>3
  <2>2. TypeOK' BY <1>1, <1>2, <2>1, DeadTypes DEF TypeOK
  <2>3. (DeadInv /\ ServingInv /\ OneServerEach /\ SoleInv /\ WorkInv)'
    BY <1>1, <2>1, DeadKeeps
  <2>4. TakenInv' BY <1>1, <2>1, DeadKeepsTaken
  <2>5. QED BY <1>2, <2>2, <2>3, <2>4
<1>4. CASE UNCHANGED <<serverVars, news>>
  <2>1. UNCHANGED <<alive, serving, read, building, cancelled, operations, abandoned, news>>
    BY <1>4 DEF serverVars
  <2>2. TypeOK' BY <1>1, <1>2, <2>1 DEF TypeOK
  <2>3. (DeadInv /\ ServingInv /\ OneServerEach /\ SoleInv)'
    BY <1>1, <2>1 DEF DeadInv, ServingInv, OneServerEach, SoleInv
  <2>4. (TakenInv /\ WorkInv)'
    BY <1>1, <2>1 DEF TakenInv, WorkInv, Served
  <2>5. QED BY <1>2, <2>2, <2>3, <2>4
<1>5. QED BY <1>3, <1>4 DEF Kill

-----------------------------------------------------------------------------
(* A server at work *)

\* A server takes the client that waits: nobody serves it yet.
LEMMA TakeInv ==
    ASSUME IInv, NEW s \in alive, NEW b \in Builds, s \notin building,
           entry = [build |-> b, status |-> "waiting"],
           serving' = [serving EXCEPT ![s] = b], entry' = [build |-> b, status |-> "started"],
           UNCHANGED <<phase, alive, building, operations, abandoned, late, doubled>>
    PROVE  (EntryInv /\ DeadInv /\ ServingInv /\ OneServerEach
              /\ SoleInv /\ TakenInv /\ WorkInv)'
<1> USE DEF IInv
<1>1. s \in Servers /\ serving'[s] = b BY DEF TypeOK, Servers
<1>2. \A z \in Servers : z # s => serving'[z] = serving[z] BY DEF TypeOK
<1>3. \A z \in Servers : serving[z] # b
  BY BuildsAssumption DEF ServingInv, Builds, Nobody
<1>4. EntryInv' BY BuildsAssumption DEF EntryInv, Builds, Nobody
<1>5. DeadInv' BY <1>1, <1>2 DEF DeadInv
<1>6. ServingInv'
  <2>1. SUFFICES ASSUME NEW z \in Servers, serving'[z] # Nobody
                 PROVE  serving'[z] < b \/ serving'[z] = b
    BY DEF ServingInv
  <2>2. CASE z = s BY <2>2, <1>1
  <2>3. CASE z # s BY <2>1, <2>3, <1>2 DEF ServingInv
  <2>4. QED BY <2>2, <2>3
<1>7. OneServerEach'
  BY <1>1, <1>2, <1>3 DEF OneServerEach, TypeOK, Servers
<1>8. SoleInv' BY DEF SoleInv
<1>9. TakenInv'
  <2>1. Served(b)' BY <1>1 DEF Served
  <2>2. \A c \in Builds : entry' = [build |-> c, status |-> "started"] => c = b
    OBVIOUS
  <2>3. QED BY <2>1, <2>2 DEF TakenInv
<1>10. WorkInv'
  <2>1. \A z \in alive \ abandoned : z # s => serving'[z] = serving[z]
    BY <1>2 DEF TypeOK, Servers
  <2>2. s \notin abandoned => operations[s] = {} BY DEF WorkInv
  <2>3. QED BY <2>1, <2>2 DEF WorkInv
<1>11. QED BY <1>4, <1>5, <1>6, <1>7, <1>8, <1>9, <1>10

LEMMA LookInv ==
    ASSUME IInv, NEW s \in Builds, Look(s)
    PROVE  IInv'
<1> USE DEF IInv
<1>1. s \in alive /\ s \notin building
      /\ UNCHANGED <<phase, watched, lock, late, doubled>>
  BY DEF Look, clientVars
<1>2. CASE entry.status # "waiting"
  <2>1. UNCHANGED <<entry, behind, alive, serving, read, building, cancelled, operations,
                    abandoned>> /\ news' = news \ {s}
    BY <1>2 DEF Look, serverVars
  <2>2. TypeOK' BY <1>1, <2>1 DEF TypeOK
  <2>3. (EntryInv /\ DeadInv /\ ServingInv /\ OneServerEach /\ SoleInv)'
    BY <1>1, <2>1 DEF EntryInv, DeadInv, ServingInv, OneServerEach, SoleInv
  <2>4. (TakenInv /\ WorkInv)'
    BY <1>1, <2>1 DEF TakenInv, WorkInv, Served
  <2>5. QED BY <2>2, <2>3, <2>4
<1>3. CASE entry.status = "waiting"
  <2> DEFINE b == entry.build
  <2>1. Take(s, b) BY <1>3 DEF Look
  <2>2. b \in Builds /\ entry = [build |-> b, status |-> "waiting"]
    BY <1>3 DEF TypeOK, EntryInv
  <2>3. CASE Gone(b)
    <3>1. /\ Dead(s) /\ behind' \subseteq Builds
          /\ entry' = [build |-> b, status |-> "started"]
      BY <2>1, <2>3 DEF Take
    <3>2. TypeOK' BY <1>1, <2>2, <3>1, DeadTypes DEF TypeOK
    <3>3. EntryInv' BY <1>1, <2>2, <3>1 DEF EntryInv
    <3>4. entry'.build = entry.build /\ entry.status # "started" BY <3>1, <2>2
    <3>5. (DeadInv /\ ServingInv /\ OneServerEach /\ SoleInv /\ WorkInv)'
      BY <1>1, <1>3, <3>1, <3>4, DeadKeeps
    <3>6. TakenInv'
      <4>1. ASSUME ~doubled PROVE alive' = {}
        BY <1>1, <3>1, <4>1 DEF SoleInv, Dead
      <4>2. QED BY <1>1, <4>1 DEF TakenInv
    <3>7. QED BY <3>2, <3>3, <3>5, <3>6
  <2>4. CASE ~Gone(b)
    <3>1. /\ serving' = [serving EXCEPT ![s] = b] /\ read' = [read EXCEPT ![s] = 0]
          /\ entry' = [build |-> b, status |-> "started"]
          /\ behind' \subseteq Builds /\ news' = alive'
          /\ UNCHANGED <<alive, building, cancelled, operations, abandoned>>
      BY <2>1, <2>4 DEF Take, Write
    <3>2. TypeOK' BY <1>1, <2>2, <3>1 DEF TypeOK, Servers
    <3>3. QED BY <1>1, <2>2, <3>1, <3>2, TakeInv
  <2>5. QED BY <2>3, <2>4
<1>4. QED BY <1>2, <1>3

\* A server at work keeps its client, and the types are those of its own state.
LEMMA WorkKeeps ==
    ASSUME IInv, UNCHANGED <<clientVars, fileVars, alive, serving, late, doubled>>,
           operations' \in [Servers -> SUBSET Builds], read' \in [Servers -> 0 .. 2],
           building' \subseteq alive, cancelled' \subseteq alive, abandoned' \subseteq Builds,
           \A s \in Servers : s \notin alive => operations'[s] = operations[s]
    PROVE  (TypeOK /\ EntryInv /\ DeadInv /\ ServingInv /\ OneServerEach
              /\ SoleInv /\ TakenInv)'
<1> USE DEF IInv, clientVars, fileVars
<1>1. alive \subseteq Builds BY DEF TypeOK
<1>2. TypeOK' BY <1>1 DEF TypeOK
<1>3. (EntryInv /\ DeadInv /\ ServingInv /\ OneServerEach /\ SoleInv)'
  BY DEF EntryInv, DeadInv, ServingInv, OneServerEach, SoleInv
<1>4. TakenInv' BY DEF TakenInv, Served
<1>5. QED BY <1>2, <1>3, <1>4

\* A service is given the build of the client that its server serves.
LEMMA FeedInv ==
    ASSUME IInv, NEW s \in Builds, Feed(s)
    PROVE  IInv'
<1> USE DEF IInv
<1>1. /\ s \in alive /\ serving[s] \in Builds
      /\ UNCHANGED <<clientVars, fileVars, alive, serving, abandoned, late, doubled>>
      /\ read' = [read EXCEPT ![s] = @ + 1] /\ read[s] < 2
  BY DEF Feed, TypeOK
<1>2. read' \in [Servers -> 0 .. 2]
  BY <1>1 DEF TypeOK, Servers
<1>3. building' \subseteq alive /\ cancelled' \subseteq alive
      /\ building \subseteq building' /\ abandoned' \subseteq Builds
  BY <1>1 DEF Feed, SpyStart, SpyCancel, TypeOK
<1>4. /\ operations' \in [Servers -> SUBSET Builds]
      /\ \A z \in Servers : z # s => operations'[z] = operations[z]
      /\ operations'[s] \subseteq operations[s] \cup {serving[s]}
      /\ operations'[s] # operations[s] => s \in building'
  BY <1>1 DEF Feed, SpyStart, SpyCancel, TypeOK, Servers
<1>5. WorkInv'
  <2>1. SUFFICES ASSUME NEW z \in alive \ abandoned
                 PROVE  operations'[z] \subseteq {serving[z]}
                        /\ (operations'[z] # {} => z \in building')
    BY <1>1 DEF WorkInv
  <2>2. z \in Servers BY DEF TypeOK, Servers
  <2>3. operations[z] \subseteq {serving[z]} /\ (operations[z] # {} => z \in building)
    BY DEF WorkInv
  <2>4. CASE z = s BY <2>3, <2>4, <1>3, <1>4
  <2>5. CASE z # s BY <2>2, <2>3, <2>5, <1>3, <1>4
  <2>6. QED BY <2>4, <2>5
<1>6. \A z \in Servers : z \notin alive => operations'[z] = operations[z]
  BY <1>1, <1>4
<1>7. operations' \in [Servers -> SUBSET Builds] BY <1>4
<1>8. QED BY <1>1, <1>2, <1>3, <1>5, <1>6, <1>7, WorkKeeps

\* The end of a build: unless the server gave one up there was no other.
LEMMA OperationEndsInv ==
    ASSUME IInv, NEW s \in Builds, NEW b \in Builds, OperationEnds(s, b)
    PROVE  IInv'
<1> USE DEF IInv
<1>1. /\ s \in alive /\ b \in operations[s]
      /\ operations' = [operations EXCEPT ![s] = @ \ {b}]
      /\ building' = building \ {s} /\ cancelled' = cancelled \ {s}
      /\ UNCHANGED <<clientVars, fileVars, alive, serving, read, abandoned, late, doubled>>
  BY DEF OperationEnds, SpyEnded
<1>2. /\ operations' \in [Servers -> SUBSET Builds] /\ read' \in [Servers -> 0 .. 2]
      /\ building' \subseteq alive /\ cancelled' \subseteq alive /\ abandoned' \subseteq Builds
      /\ \A z \in Servers : z # s => operations'[z] = operations[z]
      /\ operations'[s] = operations[s] \ {b}
  BY <1>1 DEF TypeOK, Servers
<1>3. WorkInv'
  <2>1. SUFFICES ASSUME NEW z \in alive \ abandoned
                 PROVE  operations'[z] \subseteq {serving[z]}
                        /\ (operations'[z] # {} => z \in building')
    BY <1>1 DEF WorkInv
  <2>2. z \in Servers BY DEF TypeOK, Servers
  <2>3. QED BY <2>2, <1>1, <1>2 DEF WorkInv
<1>4. QED BY <1>1, <1>2, <1>3, WorkKeeps

\* From then on nothing is claimed about the service of this server.
LEMMA GiveUpInv ==
    ASSUME IInv, NEW s \in Builds, GiveUp(s)
    PROVE  IInv'
<1> USE DEF IInv
<1>1. /\ building' = building \ {s} /\ cancelled' = cancelled \ {s}
      /\ abandoned' = abandoned \cup {s}
      /\ UNCHANGED <<clientVars, fileVars, alive, serving, read, operations, late, doubled>>
  BY DEF GiveUp, SpyEnded
<1>2. /\ operations' \in [Servers -> SUBSET Builds] /\ read' \in [Servers -> 0 .. 2]
      /\ building' \subseteq alive /\ cancelled' \subseteq alive /\ abandoned' \subseteq Builds
  BY <1>1 DEF TypeOK
<1>3. WorkInv' BY <1>1 DEF WorkInv
<1>4. QED BY <1>1, <1>2, <1>3, WorkKeeps

-----------------------------------------------------------------------------
(* The invariant and its consequences *)

LEMMA StutterInv == IInv /\ UNCHANGED vars => IInv'
BY DEF vars, clientVars, fileVars, serverVars, IInv, TypeOK, EntryInv, DeadInv, ServingInv,
       OneServerEach, SoleInv, TakenInv, WorkInv, Served

LEMMA NextInv == IInv /\ [Next]_vars => IInv'
<1>1. SUFFICES ASSUME IInv, Next PROVE IInv'
  BY StutterInv
<1>2. PICK b \in Builds : Client(b) \/ Server(b) \/ Environment(b)
  BY <1>1 DEF Next
<1>3. CASE Moves(b) BY <1>1, <1>3, MovesInv
<1>4. CASE Dies(b) BY <1>1, <1>4, DiesInv
<1>5. CASE Register(b) BY <1>1, <1>5, RegisterInv
<1>6. CASE Launch(b) BY <1>1, <1>6, LaunchInv
<1>7. CASE Kill(b) BY <1>1, <1>7, KillInv
<1>8. CASE Look(b) BY <1>1, <1>8, LookInv
<1>9. CASE GiveUp(b) BY <1>1, <1>9, GiveUpInv
<1>10. CASE Feed(b) BY <1>1, <1>10, FeedInv
<1>11. CASE \E c \in Builds : OperationEnds(b, c)
  BY <1>1, <1>11, OperationEndsInv
<1>12. QED
  BY <1>2, <1>3, <1>4, <1>5, <1>6, <1>7, <1>8, <1>9, <1>10, <1>11
     DEF Client, Server, Environment, Moves, Dies

\* The inductive invariant holds of every behaviour of the proxy.
THEOREM Invariance == Spec => []IInv
<1>1. Init => IInv BY InitInv
<1>2. IInv /\ [Next]_vars => IInv' BY NextInv
<1>3. QED BY <1>1, <1>2, PTL DEF Spec

\* Every variable of the clients, the file and the servers keeps its type, and
\* a client that waits or works knows the pid of a server.
THEOREM TypeCorrect == Spec => []TypeOK
<1>1. IInv => TypeOK BY DEF IInv
<1>2. QED BY <1>1, Invariance, PTL

\* Whatever servers the races of clients start, no two work for one client.
THEOREM OneServer == Spec => []OneServerEach
<1>1. IInv => OneServerEach BY DEF IInv
<1>2. QED BY <1>1, Invariance, PTL

\* A service has builds of the client that is served and of no other, unless its
\* server once gave up a cancelled build.
THEOREM Messages == Spec => []MessagesReachTheirClient
<1>1. IInv => MessagesReachTheirClient BY DEF IInv, WorkInv, MessagesReachTheirClient
<1>2. QED BY <1>1, Invariance, PTL

\* A step that changes the entry: a registration or the look of a server.
LEMMA EntrySteps ==
    ASSUME IInv, NEW b \in Builds, Client(b) \/ Server(b) \/ Environment(b),
           entry' # entry
    PROVE  Register(b) \/ Look(b)
<1>1. ASSUME Moves(b) PROVE FALSE
  BY <1>1, MovesFrame DEF IInv
<1>2. ASSUME Dies(b) \/ GiveUp(b) \/ Feed(b) PROVE FALSE
  BY <1>2 DEF Dies, LookTimeout, ServerExits, GiveUp, Feed, fileVars
<1>3. ASSUME Launch(b) \/ Kill(b) PROVE FALSE
  BY <1>3 DEF Launch, Kill
<1>4. ASSUME NEW c \in Builds, OperationEnds(b, c) PROVE FALSE
  BY <1>4 DEF OperationEnds, fileVars
<1>5. QED BY <1>1, <1>2, <1>3, <1>4 DEF Client, Server, Environment, Moves, Dies

\* What a step may do to the entry.
Onward ==
    /\ entry'.build >= entry.build
    /\ entry'.build = entry.build /\ entry.status = "started" => entry' = entry

LEMMA StepIsOnward == ASSUME IInv, Next PROVE Onward
<1> USE DEF Onward
<1>1. entry.build \in Int
  BY BuildsAssumption DEF IInv, TypeOK, Builds, Nobody
<1>2. CASE entry' = entry BY <1>1, <1>2
<1>3. CASE entry' # entry
  <2>1. PICK b \in Builds : Client(b) \/ Server(b) \/ Environment(b)
    BY DEF Next
  <2>2. CASE Register(b)
    <3>1. entry.build # b
      BY <2>2, BuildsAssumption DEF Register, IInv, EntryInv, Builds, Nobody
    <3>2. entry' = [build |-> b, status |-> "waiting"] /\ ~(entry.build > b)
      BY <1>3, <2>2 DEF Register, Write
    <3>3. b \in Int BY BuildsAssumption DEF Builds
    <3>4. QED BY <1>1, <3>1, <3>2, <3>3
  <2>3. CASE Look(b)
    <3>1. entry.status = "waiting" /\ entry'.build = entry.build
      BY <1>3, <2>3 DEF Look, Take, Write
    <3>2. QED BY <1>1, <3>1
  <2>4. QED BY <1>3, <2>1, <2>2, <2>3, EntrySteps
<1>4. QED BY <1>2, <1>3

\* The entry of the file passes on to newer builds only, and a build that was
\* taken never waits again.
THEOREM Newest == Spec => NewestBuildWins
<1>1. IInv /\ [Next]_vars => [Onward]_vars
  BY StepIsOnward
<1>2. QED BY <1>1, Invariance, PTL DEF Spec, NewestBuildWins, Onward

-----------------------------------------------------------------------------
(* Whose server is dead *)

\* A client that is not gone registered at most as the newest, and a server was
\* started by one that had registered.
StartedInv ==
    /\ \A b \in Builds : phase[b] # "none" /\ ~Gone(b) => b <= entry.build
    /\ \A b \in Builds : watched[b] # Nobody => phase[watched[b]] # "none"
    /\ \A s \in alive : phase[s] # "none"

\* One client's phase changes at a time; only a registration is a beginning, and
\* only a launch makes a server.
LEMMA StartedStep ==
    ASSUME IInv, StartedInv, NEW b \in Builds, Client(b) \/ Server(b) \/ Environment(b)
    PROVE  StartedInv'
<1> USE DEF IInv
<1>1. TypeOK' /\ entry'.build \in Int /\ entry.build \in Int /\ entry'.build >= entry.build
      /\ Nobody \notin Builds /\ Builds \subseteq Int
  <2>1. Next BY DEF Next
  <2>2. IInv' BY <2>1, NextInv
  <2>3. Nobody \notin Builds /\ Nobody \in Int /\ Builds \subseteq Int
    BY BuildsAssumption DEF Builds, Nobody
  <2>4. TypeOK' /\ entry'.build \in Builds \cup {Nobody} /\ entry.build \in Builds \cup {Nobody}
    BY <2>2 DEF TypeOK
  <2>5. entry'.build >= entry.build
    BY <2>1, StepIsOnward DEF Onward
  <2>6. QED BY <2>3, <2>4, <2>5
<1>2. \A c \in Builds :
        /\ phase[c] # "none" => phase'[c] # "none"
        /\ phase'[c] # "none" /\ ~Gone(c)'
             => (phase[c] # "none" /\ ~Gone(c)) \/ c = entry'.build
  <2> USE DEF Goto, Leave, Gone, TypeOK
  <2>1. CASE Register(b) BY <2>1 DEF Register, Write
  <2>2. CASE LookUp(b) BY <2>2 DEF LookUp
  <2>3. CASE Launch(b) BY <2>3 DEF Launch
  <2>4. CASE Kill(b) BY <2>4 DEF Kill
  <2>5. CASE Taken(b) \/ Outdated(b) \/ Frozen(b) BY <2>5 DEF Taken, Outdated, Frozen
  <2>6. CASE LockTimeout(b) BY <2>6 DEF LockTimeout
  <2>7. CASE Poll(b) \/ ServerLost(b) BY <2>7 DEF Poll, ServerLost, clientVars
  <2>8. CASE Exit(b) BY <2>8 DEF Exit
  <2>9. CASE Server(b)
    BY <2>9 DEF Server, Look, LookTimeout, GiveUp, clientVars
  <2>10. CASE SubStarts(b) \/ SubEnds(b) \/ ServerExits(b) \/ Feed(b)
              \/ \E c \in Builds : OperationEnds(b, c)
    BY <2>10 DEF SubStarts, SubEnds, ServerExits, Feed, OperationEnds, clientVars
  <2>11. QED
    BY <2>1, <2>2, <2>3, <2>4, <2>5, <2>6, <2>7, <2>8, <2>9, <2>10 DEF Client, Environment
<1>3. /\ \A s \in alive' : s \in alive \/ phase'[s] # "none"
      /\ \A c \in Builds : watched'[c] \in {watched[c]} \cup alive'
  <2> USE DEF TypeOK
  <2>1. CASE Moves(b)
    BY <2>1, MovesFrame
       DEF Moves, LookUp, Taken, Outdated, Frozen, LockTimeout, Poll, ServerLost, Exit,
           SubStarts, SubEnds, clientVars
  <2>2. CASE Launch(b) BY <2>2 DEF Launch, Goto
  <2>3. CASE Kill(b) BY <2>3 DEF Kill, Dead, serverVars
  <2>4. CASE Register(b) BY <2>4 DEF Register
  <2>5. CASE Dies(b) \/ Look(b)
    BY <2>5 DEF Dies, LookTimeout, ServerExits, Look, Take, Dead, clientVars, serverVars
  <2>6. CASE GiveUp(b) \/ Feed(b) \/ \E c \in Builds : OperationEnds(b, c)
    BY <2>6 DEF GiveUp, Feed, OperationEnds, clientVars
  <2>7. QED
    BY <2>1, <2>2, <2>3, <2>4, <2>5, <2>6 DEF Client, Server, Environment, Moves, Dies
<1>4. QED
  <2>1. alive' \subseteq Builds /\ watched' \in [Builds -> Builds \cup {Nobody}]
    BY <1>1 DEF TypeOK
  <2>2. \A s \in alive' : phase'[s] # "none"
    BY <1>2, <1>3, <2>1 DEF StartedInv
  <2>3. ASSUME NEW c \in Builds, watched'[c] # Nobody PROVE phase'[watched'[c]] # "none"
    BY <1>2, <1>3, <2>1, <2>2, <2>3 DEF StartedInv
  <2>4. ASSUME NEW c \in Builds, phase'[c] # "none", ~Gone(c)' PROVE c <= entry'.build
    BY <1>1, <1>2, <2>4 DEF StartedInv
  <2>5. QED BY <2>2, <2>3, <2>4 DEF StartedInv

\* A client at work whom nobody serves and who does not notice was taken before the
\* last server was started, or there were two servers, or its server is a zombie
\* that it left itself, or an older client did.
THEOREM Silence == Spec => []SilenceHasCause
<1>1. Init => StartedInv BY DEF Init, StartedInv
<1>2. IInv /\ StartedInv /\ [Next]_vars => StartedInv'
  <2>1. ASSUME StartedInv, UNCHANGED vars PROVE StartedInv'
    BY <2>1 DEF StartedInv, Gone, vars, clientVars, fileVars, serverVars
  <2>2. QED BY <2>1, StartedStep DEF Next
<1>3. IInv /\ StartedInv => SilenceHasCause
  <2> SUFFICES ASSUME IInv, StartedInv, NEW b \in Builds, phase[b] = "running",
                      PidExists(watched[b]), ~Served(b), b \notin late, ~doubled,
                      entry = [build |-> b, status |-> "started"]
               PROVE  watched[b] \notin alive /\ watched[b] <= b
    BY DEF SilenceHasCause
  <2>1. alive = {} BY DEF IInv, TakenInv
  <2>2. watched[b] \in Builds BY DEF IInv, TypeOK
  <2>3. phase[watched[b]] # "none" /\ ~Gone(watched[b])
    BY <2>1, <2>2, BuildsAssumption DEF StartedInv, PidExists, Builds, Nobody
  <2>4. QED BY <2>1, <2>2, <2>3 DEF StartedInv
<1>4. QED BY <1>1, <1>2, <1>3, Invariance, PTL DEF Spec

=============================================================================
