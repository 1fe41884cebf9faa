---------------------------- MODULE LanguageClient ----------------------------
(***************************************************************************)
(* The client of sourcekit-lsp and the requests for the tests of a text    *)
(* (src/src/LSP/SwiftLSPClient.ts, SourceKitLSPErrorHandler.ts,            *)
(* LSPTestsProvider.ts).                                                   *)
(*                                                                         *)
(* client() makes the client under a mutex; restart() drops it outside the *)
(* mutex and does not wait for the server to stop; a server that crashes    *)
(* is started again by the library, until the error handler asks the user. *)
(* A request for tests opens its text in the server as one dummy document  *)
(* and asks for the tests of that document, in a second message to what    *)
(* client() returns by then.                                               *)
(*                                                                         *)
(* An action is what runs between two awaits of something outside: a call  *)
(* of client() that finds the mutex free and a client returns at once.  The *)
(* library is external: a message to a client that is starting again waits, *)
(* one to a client that has ended is an error; only a client that runs can *)
(* be stopped.                                                             *)
(***************************************************************************)
EXTENDS Naturals, Sequences

CONSTANTS
    Fetchers,        \* who calls LSPTestsProvider.fetchTests
    Restarts,        \* calls of restart()
    Texts,           \* what a document may hold
    NoText,          \* no document, no answer
    MaxClients,      \* bound: clients in use at a time
    MaxRestartCount  \* crashes the error handler forgives

Callers == Fetchers \cup Restarts
Clients == 1..MaxClients
NoClient == 0
Nobody == "nobody"

ASSUME ClientAssumption ==
    /\ Fetchers \cap Restarts = {}
    /\ Nobody \notin Callers /\ NoText \notin Texts
    /\ {MaxClients, MaxRestartCount} \subseteq Nat

VARIABLES
    languageClient,  \* this.languageClient
    holder,          \* whose call of client() makes a client
    starting,        \* the client it makes
    queue,           \* the calls of client() that wait for the mutex
    life,            \* the life of a client and of its server
    crashes,         \* SourceKitLSPErrorHandler.restarts, as a number
    opened,          \* the text of the dummy document in the client's server
    restartAt,       \* where a restart is
    fetchQueue,      \* LSPTestsProvider._mutex: its holder and who waits
    fetchAt,         \* where a fetch is
    with,            \* the client it sends its message to
    wanted,          \* the text it asks the tests of
    answer,          \* the text whose tests it has returned
    refused          \* history: clients that could not be stopped

mutexVars == <<holder, starting, queue>>
serverVars == <<crashes, opened>>
fetchVars == <<fetchQueue, wanted, answer>>
vars == <<languageClient, mutexVars, life, serverVars, restartAt, fetchVars, fetchAt,
          with, refused>>

TypeOK ==
    /\ languageClient \in Clients \cup {NoClient}
    /\ holder \in Callers \cup {Nobody} /\ starting \in Clients \cup {NoClient}
    /\ queue \in Seq(Callers)
    /\ life \in [Clients -> {"starting", "running", "asking", "recovering",
                             "stopping", "ended"}]
    /\ crashes \in [Clients -> 0..(MaxRestartCount + 1)]
    /\ opened \in [Clients -> Texts \cup {NoText}]
    /\ restartAt \in [Restarts -> {"idle", "client", "start", "done"}]
    /\ fetchQueue \in Seq(Fetchers)
    /\ fetchAt \in [Fetchers -> {"none", "queued", "client", "opening", "again",
                                 "asking", "asked", "failed"}]
    /\ with \in [Fetchers -> Clients \cup {NoClient}]
    /\ {wanted, answer} \subseteq [Fetchers -> Texts \cup {NoText}]
    /\ refused \subseteq Clients

Init ==
    /\ languageClient = NoClient
    /\ holder = Nobody /\ starting = NoClient /\ queue = <<>>
    /\ life = [k \in Clients |-> "ended"] /\ crashes = [k \in Clients |-> 0]
    /\ opened = [k \in Clients |-> NoText]
    /\ restartAt = [r \in Restarts |-> "idle"]
    /\ fetchQueue = <<>> /\ fetchAt = [p \in Fetchers |-> "none"]
    /\ with = [p \in Fetchers |-> NoClient]
    /\ wanted = [p \in Fetchers |-> NoText] /\ answer = [p \in Fetchers |-> NoText]
    /\ refused = {}

-----------------------------------------------------------------------------
(* client() *)

\* A call of client() returns at once.
ClientIsThere == holder = Nobody /\ queue = <<>> /\ languageClient # NoClient

\* A name no client in use has: clients are made one after the other, and the
\* name of one that has ended is used again.
Unused(k) ==
    life[k] = "ended" /\ k # languageClient /\ \A p \in Fetchers : with[p] # k

\* Mutant: the client is dropped, its server goes on.
NoStop(k, lives) == life' = lives /\ UNCHANGED refused

\* client.stop() and client.dispose(), not awaited: a client that is being
\* started again cannot be stopped, and the error reaches nobody.
Stop(k, lives) ==
    /\ life' = [lives EXCEPT ![k] = CASE @ = "running" -> "stopping"
                                      [] @ = "asking" -> "ended"
                                      [] OTHER -> @]
    /\ refused' = IF lives[k] = "recovering" THEN refused \cup {k} ELSE refused

\* A restart forgets the client it was given, stops it, and asks for a new one.
Drops(r, k, others, lives) ==
    /\ languageClient' = NoClient
    /\ Stop(k, lives)
    /\ queue' = Append(others, r)
    /\ restartAt' = [restartAt EXCEPT ![r] = "start"]
    /\ UNCHANGED <<fetchAt, with>>

\* client() returns k to x, who goes on; others wait.
Given(x, k, others, lives) ==
    \/ x \in Restarts /\ restartAt[x] = "client" /\ Drops(x, k, others, lives)
    \/ /\ x \in Restarts /\ restartAt[x] = "start"
       /\ restartAt' = [restartAt EXCEPT ![x] = "done"]
       /\ languageClient' = k /\ queue' = others /\ life' = lives
       /\ UNCHANGED <<fetchAt, with, refused>>
    \/ /\ x \in Fetchers
       /\ fetchAt' = [fetchAt EXCEPT ![x] = IF @ = "client" THEN "opening" ELSE "asking"]
       /\ with' = [with EXCEPT ![x] = k]
       /\ languageClient' = k /\ queue' = others /\ life' = lives
       /\ UNCHANGED <<restartAt, refused>>

\* The mutex is free for the next call, and there is a client.
Grant ==
    /\ holder = Nobody /\ queue # <<>> /\ languageClient # NoClient
    /\ Given(Head(queue), languageClient, Tail(queue), life)
    /\ UNCHANGED <<holder, starting, serverVars, fetchVars>>

\* ... or there is none: it is made, under the mutex.
CreateBegins ==
    /\ holder = Nobody /\ queue # <<>> /\ languageClient = NoClient
    /\ holder' = Head(queue) /\ queue' = Tail(queue)
    /\ \E k \in Clients :
         /\ Unused(k) /\ \A n \in Clients : n < k => ~Unused(n)
         /\ starting' = k
         /\ life' = [life EXCEPT ![k] = "starting"]
    /\ UNCHANGED <<languageClient, serverVars, restartAt, fetchVars, fetchAt, with, refused>>

\* createLSPClient and startClient end well: the error handler is enabled.
StartSucceeds ==
    /\ holder # Nobody
    /\ Given(holder, starting, queue, [life EXCEPT ![starting] = "running"])
    /\ holder' = Nobody /\ starting' = NoClient
    /\ UNCHANGED <<serverVars, fetchVars>>

\* No path to the server, or it does not start: client() throws.
StartFails ==
    /\ holder # Nobody
    /\ life' = [life EXCEPT ![starting] = "ended"]
    /\ languageClient' = NoClient
    /\ IF holder \in Restarts
       THEN restartAt' = [restartAt EXCEPT ![holder] = "done"] /\ UNCHANGED fetchAt
       ELSE fetchAt' = [fetchAt EXCEPT ![holder] = "failed"] /\ UNCHANGED restartAt
    /\ holder' = Nobody /\ starting' = NoClient
    /\ UNCHANGED <<queue, serverVars, fetchVars, with, refused>>

\* restart()
Restart(r) ==
    /\ restartAt[r] = "idle"
    /\ IF ClientIsThere
       THEN Drops(r, languageClient, <<>>, life)
       ELSE /\ restartAt' = [restartAt EXCEPT ![r] = "client"]
            /\ queue' = Append(queue, r)
            /\ UNCHANGED <<languageClient, life, refused, fetchAt, with>>
    /\ UNCHANGED <<holder, starting, serverVars, fetchVars>>

-----------------------------------------------------------------------------
(* The server *)

\* The server ends by itself, or is killed for its memory: every second somebody
\* looks at it, whatever it does by then, and does not tell the client.
ServerDies(k) == life[k] = "running" /\ opened' = [opened EXCEPT ![k] = NoText]

\* closed() of the error handler starts it again; when it has crashed more often
\* than that, it asks the user -- or forgets the first crash, three minutes ago.
Crash(k) ==
    /\ ServerDies(k)
    /\ \/ /\ life' = [life EXCEPT ![k] = "recovering"]
          /\ crashes' = [crashes EXCEPT ![k] = IF @ < MaxRestartCount THEN @ + 1 ELSE @]
       \/ /\ crashes[k] = MaxRestartCount
          /\ life' = [life EXCEPT ![k] = "asking"]
          /\ crashes' = [crashes EXCEPT ![k] = @ + 1]
    /\ UNCHANGED <<languageClient, mutexVars, restartAt, fetchVars, fetchAt, with, refused>>

\* "Do you want to restart it again."
Consent(k) ==
    /\ life[k] = "asking"
    /\ \/ life' = [life EXCEPT ![k] = "recovering"] /\ UNCHANGED refused
       \/ life' = [life EXCEPT ![k] = "ended"] /\ refused' = refused \ {k}
    /\ crashes' = [crashes EXCEPT ![k] = 0]
    /\ UNCHANGED <<languageClient, mutexVars, opened, restartAt, fetchVars, fetchAt, with>>

\* The library has started the server again, or has not been able to.
Recovers(k) ==
    /\ life[k] = "recovering"
    /\ \/ life' = [life EXCEPT ![k] = "running"] /\ UNCHANGED <<crashes, refused>>
       \/ /\ life' = [life EXCEPT ![k] = "ended"]
          /\ crashes' = [crashes EXCEPT ![k] = 0] /\ refused' = refused \ {k}
    /\ UNCHANGED <<languageClient, mutexVars, opened, restartAt, fetchVars, fetchAt, with>>

StopEnds(k) ==
    /\ life[k] = "stopping"
    /\ life' = [life EXCEPT ![k] = "ended"]
    /\ opened' = [opened EXCEPT ![k] = NoText]
    /\ crashes' = [crashes EXCEPT ![k] = 0]
    /\ UNCHANGED <<languageClient, mutexVars, restartAt, fetchVars, fetchAt, with, refused>>

-----------------------------------------------------------------------------
(* fetchTests *)

\* Mutant: fetches do not wait for each other.
MayFetchAny(p) == TRUE

MayFetch(p) == Head(fetchQueue) = p

\* fetchTests(text) is called.
Fetch(p, text) ==
    /\ fetchAt[p] = "none"
    /\ fetchQueue' = Append(fetchQueue, p)
    /\ wanted' = [wanted EXCEPT ![p] = text]
    /\ fetchAt' = [fetchAt EXCEPT ![p] = "queued"]
    /\ UNCHANGED <<languageClient, mutexVars, life, serverVars, restartAt, with, answer,
                   refused>>

\* A fetch calls client().
Asks(p, waiting, given) ==
    IF ClientIsThere
    THEN /\ fetchAt' = [fetchAt EXCEPT ![p] = given]
         /\ with' = [with EXCEPT ![p] = languageClient]
         /\ UNCHANGED queue
    ELSE /\ fetchAt' = [fetchAt EXCEPT ![p] = waiting]
         /\ queue' = Append(queue, p)
         /\ UNCHANGED with

FetchBegins(p) ==
    /\ fetchAt[p] = "queued" /\ MayFetch(p)
    /\ Asks(p, "client", "opening")
    /\ UNCHANGED <<languageClient, holder, starting, life, serverVars, restartAt, fetchVars,
                   refused>>

\* The text is sent as the dummy document, and client() asked again.
SendOpen(p) ==
    /\ fetchAt[p] = "opening" /\ life[with[p]] = "running"
    /\ opened' = [opened EXCEPT ![with[p]] = wanted[p]]
    /\ Asks(p, "again", "asking")
    /\ UNCHANGED <<languageClient, holder, starting, life, crashes, restartAt, fetchVars,
                   refused>>

SendRequest(p) ==
    /\ fetchAt[p] = "asking" /\ life[with[p]] = "running"
    /\ fetchAt' = [fetchAt EXCEPT ![p] = "asked"]
    /\ UNCHANGED <<languageClient, mutexVars, life, serverVars, restartAt, fetchVars, with,
                   refused>>

\* The server answers with the tests of the document it has.
Answers(p, text) ==
    /\ fetchAt[p] = "asked" /\ life[with[p]] = "running"
    /\ text = opened[with[p]] /\ text # NoText

\* There is no client, it has ended, or it has a server that does not know the
\* document: the server was changed, or crashed, between the two messages.
\* fetchTests throws, and TestFile parses the text it has itself.
Fails(p, text) ==
    /\ \/ fetchAt[p] = "failed"
       \/ /\ fetchAt[p] \in {"opening", "asking"}
          /\ life[with[p]] \in {"asking", "stopping", "ended"}
       \/ /\ fetchAt[p] = "asked"
          /\ life[with[p]] # "running" \/ opened[with[p]] = NoText
    /\ text = wanted[p]

\* Mutant: the mutex is not released when a fetch fails.
KeepsMutex(p) ==
    /\ \E text \in Texts :
         /\ Answers(p, text) \/ Fails(p, text)
         /\ answer' = [answer EXCEPT ![p] = text]
         /\ fetchQueue' = IF Fails(p, text) THEN fetchQueue ELSE Tail(fetchQueue)
    /\ fetchAt' = [fetchAt EXCEPT ![p] = "none"]
    /\ wanted' = [wanted EXCEPT ![p] = NoText]
    /\ with' = [with EXCEPT ![p] = NoClient]
    /\ UNCHANGED <<languageClient, mutexVars, life, serverVars, restartAt, refused>>

\* The fetch ends, with the tests of that text, and the next may begin.
FetchReturns(p) ==
    /\ \E text \in Texts :
         /\ Answers(p, text) \/ Fails(p, text)
         /\ answer' = [answer EXCEPT ![p] = text]
    /\ fetchAt' = [fetchAt EXCEPT ![p] = "none"]
    /\ fetchQueue' = Tail(fetchQueue)
    /\ wanted' = [wanted EXCEPT ![p] = NoText]
    /\ with' = [with EXCEPT ![p] = NoClient]
    /\ UNCHANGED <<languageClient, mutexVars, life, serverVars, restartAt, refused>>

-----------------------------------------------------------------------------

Next ==
    \/ Grant \/ CreateBegins \/ StartSucceeds \/ StartFails
    \/ \E r \in Restarts : Restart(r)
    \/ \E k \in Clients : Crash(k) \/ Consent(k) \/ Recovers(k) \/ StopEnds(k)
    \/ \E p \in Fetchers :
         \/ FetchBegins(p) \/ SendOpen(p) \/ SendRequest(p) \/ FetchReturns(p)
         \/ \E text \in Texts : Fetch(p, text)

\* The event loop runs what is ready; a start, a stop and a request end, the
\* last at the latest when the server ends; a message the library keeps while
\* the server crashes again and again is sent in the end.  Nobody has to crash,
\* to restart or to answer the error handler's question.
Fairness ==
    /\ WF_vars(Grant) /\ WF_vars(CreateBegins) /\ WF_vars(StartSucceeds \/ StartFails)
    /\ \A k \in Clients : WF_vars(Recovers(k)) /\ WF_vars(StopEnds(k))
    /\ \A p \in Fetchers :
         /\ WF_vars(FetchBegins(p)) /\ WF_vars(FetchReturns(p))
         /\ SF_vars(SendOpen(p)) /\ SF_vars(SendRequest(p))

Spec == Init /\ [][Next]_vars /\ Fairness

-----------------------------------------------------------------------------
(* Properties *)

\* All fetches use one dummy document: they return in the order in which they
\* were called, each with the tests of its own text, whoever fetches beside it
\* and whichever server answers.
Promise ==
    INSTANCE FetchTests WITH
        asks <- [n \in 1..Len(fetchQueue) |-> <<fetchQueue[n], wanted[fetchQueue[n]]>>]
AnswersAreOwn == Promise!Spec

\* A server that works is that of the client in use: a restart leaves none
\* behind -- but for one that was being started again when it was to stop.
OneServer ==
    \A k \in Clients :
        life[k] \in {"running", "recovering"} => k = languageClient \/ k \in refused

\* A fetch returns, whatever becomes of the client and of its server: the next
\* one is not kept waiting for the mutex.
FetchesEnd == \A p \in Fetchers : fetchAt[p] # "none" ~> fetchAt[p] = "none"

=============================================================================
