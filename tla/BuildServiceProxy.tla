--------------------------- MODULE BuildServiceProxy ---------------------------
(***************************************************************************)
(* The proxy of Xcode's build service (src/src/XCBBuildServiceProxy).  Each *)
(* xcodebuild of a session starts a client; one server of the session, which *)
(* outlives them, keeps a build service warm and works for one client at a   *)
(* time.  They meet in a configuration file with one entry, read and written *)
(* under a lock that is waited for 5 s, and polled by its modification time. *)
(*                                                                         *)
(* A client is identified with its build id, a server with the client that   *)
(* started it (a client starts at most one).                                *)
(***************************************************************************)
EXTENDS Integers, FiniteSets

CONSTANT MaxBuilds  \* bound on the xcodebuilds of the session; ids in order

ASSUME BuildsAssumption == MaxBuilds \in Nat

Builds  == 1 .. MaxBuilds
Servers == Builds
Nobody  == 0

VARIABLES
    entry,      \* the configuration file: the newest client and its status
    lock,       \* the client whose sub-xcodebuild holds the file's lock, or Nobody
    phase,      \* of each client
    watched,    \* server_pid of each client
    behind,     \* clients that have not seen the last change of the file
    alive,      \* the servers that run
    news,       \* servers that have not seen the last change of the file
    serving,    \* whose pipes each server has open
    read,       \* what each server has read of the pipe: nothing, START, CANCEL
    building,   \* servers with _is_building
    cancelled,  \* servers with mtime_of_build_operation_cancelled_message
    operations, \* external: the builds the service of each server is at
    abandoned,  \* history: servers that gave a cancelled build up unfinished
    late,       \* history: clients already taken by a server when one was started
    doubled     \* history: a server was started beside another

clientVars == <<phase, watched>>
fileVars   == <<entry, lock, behind, news>>
serverVars == <<alive, serving, read, building, cancelled, operations, abandoned>>
vars == <<clientVars, fileVars, serverVars, late, doubled>>

Phases == {"none", "registered", "waiting", "killing", "launching", "running", "left", "gone"}

TypeOK ==
    /\ entry \in [build : Builds \cup {Nobody}, status : {"none", "waiting", "started"}]
    /\ lock \in Builds \cup {Nobody}
    /\ phase \in [Builds -> Phases]
    /\ {watched, serving} \subseteq [Builds -> Builds \cup {Nobody}]
    /\ read \in [Servers -> 0 .. 2]
    /\ {behind, alive, news, building, cancelled, abandoned, late} \subseteq SUBSET Builds
    /\ operations \in [Servers -> SUBSET Builds]
    /\ doubled \in BOOLEAN
    /\ building \cup cancelled \subseteq alive
    /\ \A b \in Builds : phase[b] \in {"waiting", "running"} => watched[b] # Nobody

Init ==
    /\ entry = [build |-> Nobody, status |-> "none"] /\ lock = Nobody
    /\ phase = [b \in Builds |-> "none"]
    /\ watched = [b \in Builds |-> Nobody]
    /\ alive = {} /\ behind = {} /\ news = {} /\ building = {} /\ cancelled = {}
    /\ serving = [s \in Servers |-> Nobody] /\ read = [s \in Servers |-> 0]
    /\ operations = [s \in Servers |-> {}]
    /\ abandoned = {} /\ late = {} /\ doubled = FALSE

Goto(b, p) == phase' = [phase EXCEPT ![b] = p]

\* A client that was at work may have left messages in its pipe.
Leave(b) == Goto(b, IF phase[b] = "running" THEN "left" ELSE "gone")
Gone(b)  == phase[b] \in {"left", "gone"}

\* Everybody who polls the file will see that it changed.
Write(new) ==
    /\ entry' = new
    /\ behind' = {b \in Builds : phase[b] = "running"}
    /\ news' = alive'

\* A server's process ends, and the build service it started with it.
Dead(s) ==
    /\ alive' = alive \ {s} /\ news' = news \ {s}
    /\ serving' = [serving EXCEPT ![s] = Nobody] /\ read' = [read EXCEPT ![s] = 0]
    /\ building' = building \ {s} /\ cancelled' = cancelled \ {s}
    /\ operations' = [operations EXCEPT ![s] = {}]
    /\ abandoned' = abandoned \ {s}

-----------------------------------------------------------------------------
(* A client, from main() *)

\* An xcodebuild starts its client, in any order of their ids.
Register(b) ==
    /\ phase[b] = "none" /\ lock = Nobody /\ alive' = alive
    /\ IF entry.build > b
       THEN /\ Leave(b)
            /\ UNCHANGED <<entry, behind, news>>
       ELSE /\ Goto(b, "registered")
            /\ Write([build |-> b, status |-> "waiting"])
    /\ UNCHANGED <<watched, lock, serving, read, building, cancelled,
                   operations, abandoned, late, doubled>>

\* get_server_pid_by_session_id: any server of the session, if there is one.
LookUp(b) ==
    /\ phase[b] = "registered"
    /\ \/ /\ alive = {}
          /\ Goto(b, "launching")
          /\ UNCHANGED watched
       \/ \E s \in alive :
            /\ Goto(b, "waiting")
            /\ watched' = [watched EXCEPT ![b] = s]
    /\ UNCHANGED <<fileVars, serverVars, late, doubled>>

\* start_server, and the client goes on at once.
Launch(b) ==
    /\ phase[b] = "launching"
    /\ Goto(b, "running")
    /\ watched' = [watched EXCEPT ![b] = b]
    /\ alive' = alive \cup {b} /\ news' = news \cup {b}
    /\ behind' = behind \cup {b}
    /\ doubled' = (doubled \/ alive # {})
    /\ late' = late \cup {c \in Builds : entry = [build |-> c, status |-> "started"]}
    /\ UNCHANGED <<entry, lock, serving, read, building, cancelled, operations,
                   abandoned>>

\* The server has taken this client.
Taken(b) ==
    /\ phase[b] = "waiting" /\ lock = Nobody
    /\ entry = [build |-> b, status |-> "started"]
    /\ Goto(b, "running")
    /\ behind' = behind \cup {b}
    /\ UNCHANGED <<watched, entry, lock, news, serverVars, late, doubled>>

\* "Build ID mismatch, probably outdated client, exiting".
Outdated(b) ==
    /\ phase[b] = "waiting" /\ lock = Nobody
    /\ entry.build # b
    /\ Leave(b)
    /\ UNCHANGED <<watched, fileVars, serverVars, late, doubled>>

\* Mutant: the client waits as long as there is a server.
FrozenIfDead(b) ==
    /\ phase[b] = "waiting" /\ lock = Nobody
    /\ entry = [build |-> b, status |-> "waiting"]
    /\ alive = {}
    /\ Goto(b, "killing")
    /\ UNCHANGED <<watched, fileVars, serverVars, late, doubled>>

\* 22 s have passed.  An idle server would have taken the client long before.
Frozen(b) ==
    /\ phase[b] = "waiting" /\ lock = Nobody
    /\ entry = [build |-> b, status |-> "waiting"]
    /\ alive \subseteq building
    /\ Goto(b, "killing")
    /\ UNCHANGED <<watched, fileVars, serverVars, late, doubled>>

\* The client looks for a server again, now without the lock, and kills it.
Kill(b) ==
    /\ phase[b] = "killing"
    /\ Goto(b, "launching")
    /\ \/ /\ alive = {}
          /\ UNCHANGED <<serverVars, news>>
       \/ \E s \in alive : Dead(s)
    /\ UNCHANGED <<watched, entry, lock, behind, late, doubled>>

-----------------------------------------------------------------------------
(* A client at work, main_client *)

\* Mutant: the client takes note of the change without reading the entry.
PollBlindly(b) ==
    /\ phase[b] = "running" /\ b \in behind /\ lock = Nobody
    /\ behind' = behind \ {b}
    /\ UNCHANGED <<clientVars, entry, lock, news, serverVars, late, doubled>>

\* "if server accept another client to build ... client should be stopped".
Poll(b) ==
    /\ phase[b] = "running" /\ b \in behind /\ lock = Nobody
    /\ behind' = behind \ {b}
    /\ IF entry.status = "started" /\ entry.build # b THEN Leave(b)
                                                     ELSE UNCHANGED phase
    /\ UNCHANGED <<watched, entry, lock, news, serverVars, late, doubled>>

\* psutil.pid_exists: a client never waits for the server it started, so that a
\* dead server stays in the process table, a zombie, as long as that client lives.
PidExists(s) == s \in alive \/ ~Gone(s)

\* The server it looked up is dead; of its own it never notices.
ServerLost(b) ==
    /\ phase[b] = "running" /\ ~PidExists(watched[b])
    /\ Leave(b)
    /\ UNCHANGED <<watched, fileVars, serverVars, late, doubled>>

\* xcodebuild is over, or killed together with its children, at any time.  Its
\* sub-xcodebuild with its client is one of them.
Exit(b) ==
    /\ phase[b] # "none" /\ ~Gone(b)
    /\ Leave(b)
    /\ lock' = IF lock = b THEN Nobody ELSE lock
    /\ UNCHANGED <<watched, entry, behind, news, serverVars, late, doubled>>

\* Nobody waits more than 5 s for the lock.
LockTimeout(b) ==
    /\ lock # Nobody
    /\ phase[b] \in {"none", "waiting"} \/ (phase[b] = "running" /\ b \in behind)
    /\ Leave(b)
    /\ lock' = IF lock = b THEN Nobody ELSE lock
    /\ UNCHANGED <<watched, entry, behind, news, serverVars, late, doubled>>

\* A sub-xcodebuild has the id of its parent: its client is a plain proxy of its
\* own service, and holds the lock as long as it lives.
SubStarts(b) ==
    /\ phase[b] = "running" /\ entry.build = b /\ lock = Nobody
    /\ lock' = b
    /\ UNCHANGED <<clientVars, entry, behind, news, serverVars, late, doubled>>

SubEnds(b) ==
    /\ lock = b
    /\ lock' = Nobody
    /\ UNCHANGED <<clientVars, entry, behind, news, serverVars, late, doubled>>

-----------------------------------------------------------------------------
(* The server, main_server *)

\* The new client's pipes; its temporary files are deleted when it is gone, and
\* the server does not survive the attempt to open them.
Take(s, b) ==
    IF Gone(b)
    THEN /\ Dead(s)
         /\ entry' = [build |-> b, status |-> "started"]
         /\ behind' = {c \in Builds : phase[c] = "running"}
    ELSE /\ serving' = [serving EXCEPT ![s] = b] /\ read' = [read EXCEPT ![s] = 0]
         /\ alive' = alive
         /\ Write([build |-> b, status |-> "started"])
         /\ UNCHANGED <<building, cancelled, operations, abandoned>>

\* Mutant: the server does not care whether it is building.
LookAlways(s) ==
    /\ s \in alive \cap news /\ lock = Nobody
    /\ IF entry.status = "waiting"
       THEN Take(s, entry.build)
       ELSE /\ news' = news \ {s}
            /\ UNCHANGED <<entry, behind, serverVars>>
    /\ UNCHANGED <<clientVars, lock, late, doubled>>

\* Mutant: the server does not note that it took the client.
LookSilently(s) ==
    /\ s \in (alive \cap news) \ building /\ lock = Nobody
    /\ news' = news \ {s}
    /\ IF entry.status = "waiting" /\ ~Gone(entry.build)
       THEN /\ serving' = [serving EXCEPT ![s] = entry.build]
            /\ read' = [read EXCEPT ![s] = 0]
       ELSE UNCHANGED <<serving, read>>
    /\ UNCHANGED <<clientVars, entry, behind, lock, alive, building, cancelled,
                   operations, abandoned, late, doubled>>

\* The file has changed and the server is not building.  (It also asks whether
\* its readers are empty, but for the method and not for its value.)
Look(s) ==
    /\ s \in (alive \cap news) \ building /\ lock = Nobody
    /\ IF entry.status = "waiting"
       THEN Take(s, entry.build)
       ELSE /\ news' = news \ {s}
            /\ UNCHANGED <<entry, behind, serverVars>>
    /\ UNCHANGED <<clientVars, lock, late, doubled>>

\* What the server's spy makes of the messages that pass.
SpyStart(s)  == building' = building \cup {s} /\ cancelled' = cancelled \ {s}
SpyCancel(s) == cancelled' = cancelled \cup {s} /\ UNCHANGED building
SpyEnded(s)  == building' = building \ {s} /\ cancelled' = cancelled \ {s}

\* The next message of the client, which may be gone by now: the spy sees it, then
\* the service.
Feed(s) ==
    /\ s \in alive /\ serving[s] # Nobody /\ read[s] < 2
    /\ phase[serving[s]] \in {"running", "left"}
    /\ read' = [read EXCEPT ![s] = @ + 1]
    /\ IF read[s] = 0
       THEN /\ SpyStart(s)
            /\ operations' = [operations EXCEPT ![s] = @ \cup {serving[s]}]
       ELSE SpyCancel(s) /\ UNCHANGED operations
    /\ UNCHANGED <<clientVars, fileVars, alive, serving, abandoned, late, doubled>>

\* Mutant: with its build the client is done.
OperationEndsClient(s, b) ==
    /\ s \in alive /\ b \in operations[s]
    /\ operations' = [operations EXCEPT ![s] = @ \ {b}]
    /\ SpyEnded(s)
    /\ serving' = [serving EXCEPT ![s] = Nobody] /\ read' = [read EXCEPT ![s] = 0]
    /\ UNCHANGED <<clientVars, fileVars, alive, abandoned, late, doubled>>

\* BUILD_OPERATION_ENDED from the service, which the spy takes for the client's.
OperationEnds(s, b) ==
    /\ s \in alive /\ b \in operations[s]
    /\ operations' = [operations EXCEPT ![s] = @ \ {b}]
    /\ SpyEnded(s)
    /\ UNCHANGED <<clientVars, fileVars, alive, serving, read, abandoned, late, doubled>>

\* Twenty seconds after BUILD_CANCEL a build is taken for ended.
GiveUp(s) ==
    /\ s \in building \cap cancelled
    /\ SpyEnded(s)
    /\ abandoned' = abandoned \cup {s}
    /\ UNCHANGED <<clientVars, fileVars, alive, serving, read, operations, late, doubled>>

LookTimeout(s) ==
    /\ s \in (alive \cap news) \ building /\ lock # Nobody
    /\ Dead(s)
    /\ UNCHANGED <<clientVars, entry, lock, behind, late, doubled>>

\* The build service ended, or a pipe failed.
ServerExits(s) ==
    /\ s \in alive
    /\ Dead(s)
    /\ UNCHANGED <<clientVars, entry, lock, behind, late, doubled>>

-----------------------------------------------------------------------------
Client(b) ==
    \/ Register(b) \/ LookUp(b) \/ Launch(b) \/ Kill(b)
    \/ Taken(b) \/ Outdated(b) \/ Frozen(b) \/ LockTimeout(b)
    \/ Poll(b) \/ ServerLost(b)

Server(s) == Look(s) \/ LookTimeout(s) \/ GiveUp(s)

Environment(b) ==
    \/ Exit(b) \/ SubStarts(b) \/ SubEnds(b) \/ ServerExits(b)
    \/ Feed(b) \/ \E c \in Builds : OperationEnds(b, c)

Next == \E b \in Builds : Client(b) \/ Server(b) \/ Environment(b)

\* The loops go on as long as their processes live; xcodebuilds need not start,
\* send or end anything, and a service need not finish a build.
Fairness ==
    \A b \in Builds :
        /\ WF_vars(LookUp(b) \/ Launch(b) \/ Kill(b))
        /\ WF_vars(Taken(b) \/ Outdated(b) \/ Frozen(b) \/ Poll(b)
                     \/ (phase[b] # "none" /\ LockTimeout(b)))
        /\ WF_vars(ServerLost(b))
        /\ WF_vars(Look(b) \/ LookTimeout(b)) /\ WF_vars(GiveUp(b))

Spec == Init /\ [][Next]_vars /\ Fairness

-----------------------------------------------------------------------------
(* Properties *)

\* "this client is outdated, should exit and let newer client to run the build":
\* the entry only ever passes on to newer builds, and is taken before that.
NewestBuildWins ==
    [][/\ entry'.build >= entry.build
       /\ entry'.build = entry.build /\ entry.status = "started" => entry' = entry]_vars

\* However many servers a race has started, one at most works for a client.
OneServerEach ==
    \A s, z \in alive : serving[s] = serving[z] /\ serving[s] # Nobody => s = z

\* "we don't want to change the client while it's building": what the service
\* of a server says belongs to the client it serves -- unless the server once
\* took a cancelled build for ended that was not.
MessagesReachTheirClient ==
    \A s \in alive \ abandoned : operations[s] \subseteq {serving[s]}

Served(b) == \E s \in alive : serving[s] = b

\* A client hangs, at work and heard by nobody, only when the server it watches
\* was started after another, dead by now, had taken it (the new one finds nothing
\* to do), when two servers were running and it watches the wrong one, or when the
\* server it watches is dead and its own: then it waits for a zombie.  A zombie that
\* an older client left passes with that client, which is overtaken.
SilenceHasCause ==
    \A b \in Builds :
        phase[b] = "running" /\ PidExists(watched[b]) /\ ~Served(b)
        /\ entry = [build |-> b, status |-> "started"]
            => \/ b \in late \/ doubled
               \/ watched[b] \notin alive /\ watched[b] <= b

\* No client waits forever, whatever became of the server it looked up.
WaitingEnds ==
    \A b \in Builds :
        phase[b] \in {"registered", "waiting", "killing", "launching"}
            ~> phase[b] \in {"running", "left", "gone"}

\* "client should be stopped": no client survives a newer one that was taken,
\* unless yet another comes before it looks.
OvertakenClientLeaves ==
    \A b \in Builds :
        phase[b] = "running" /\ entry.build # b /\ entry.status = "started"
            ~> Gone(b) \/ entry.status = "waiting"

=============================================================================
