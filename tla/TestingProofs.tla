----------------------------- MODULE TestingProofs -----------------------------
(***************************************************************************)
(* Proofs about the tests: the answers of the language server              *)
(* (LanguageClient, for any callers, texts and numbers of clients and      *)
(* crashes; IInv is its inductive invariant), the run of tests (TestRun,   *)
(* for any tests, project files and bundles; RunInv) and the tree of tests *)
(* (TestTree, for any calls, files and versions; TreeInv).  The three      *)
(* specifications share no variable.                                       *)
(***************************************************************************)
EXTENDS LanguageClient, TestRun, TestTree, SequenceTheorems, FiniteSetTheorems, TLAPS

-----------------------------------------------------------------------------
(* LanguageClient *)

\* While a client is made there is none in use, and it has no document.
CreateInv ==
    /\ holder # Nobody =>
         /\ languageClient = NoClient /\ starting \in Clients
         /\ life[starting] = "starting"
    /\ languageClient # NoClient => life[languageClient] # "starting"

\* A server that works or may work again is that of the client in use, or was
\* not to be stopped.
ServerInv ==
    \A k \in Clients :
        life[k] \in {"running", "asking", "recovering"} => k = languageClient \/ k \in refused

\* A document is in a server that runs, or that is being stopped.
OpenedInv ==
    \A k \in Clients : life[k] \notin {"running", "stopping"} => opened[k] = NoText

ClientInv == TypeOK /\ CreateInv /\ ServerInv /\ OpenedInv

Places == 1..Len(fetchQueue)
Waiting == 1..Len(queue)

\* The mutex of fetchTests: a fetch under way is in its queue, once, and one
\* that is past the mutex is the first of it.
OrderInv ==
    /\ \A p \in Fetchers : fetchAt[p] # "none" <=> \E i \in Places : fetchQueue[i] = p
    /\ \A i, j \in Places : fetchQueue[i] = fetchQueue[j] => i = j
    /\ \A p \in Fetchers :
         fetchAt[p] \notin {"none", "queued"} => fetchQueue # <<>> /\ fetchQueue[1] = p

\* A fetch that waits in client() is one call of it.
CallInv ==
    /\ \A i \in Waiting : queue[i] \in Fetchers => fetchAt[queue[i]] \in {"client", "again"}
    /\ holder \in Fetchers => fetchAt[holder] \in {"client", "again"}
    /\ \A i, j \in Waiting : queue[i] \in Fetchers /\ queue[i] = queue[j] => i = j
    /\ \A i \in Waiting : queue[i] \in Fetchers => queue[i] # holder

\* The document a fetch asks about is its own: who comes to be the client in use
\* meanwhile has none.
DocumentInv ==
    \A p \in Fetchers :
        /\ fetchAt[p] # "none" => wanted[p] \in Texts
        /\ fetchAt[p] \in {"opening", "asking", "asked"} => with[p] \in Clients
        /\ fetchAt[p] = "opening" /\ languageClient \notin {NoClient, with[p]}
              => opened[languageClient] = NoText
        /\ fetchAt[p] \in {"again", "asking", "asked"} /\ languageClient # NoClient
              => opened[languageClient] \in {wanted[p], NoText}
        /\ fetchAt[p] \in {"asking", "asked"} => opened[with[p]] \in {wanted[p], NoText}

IInv == ClientInv /\ OrderInv /\ CallInv /\ DocumentInv

-----------------------------------------------------------------------------
(* What a call of client() does *)

\* The client that is dropped is stopped, if it is in use.
LEMMA StopTypes ==
    ASSUME TypeOK, NEW k \in Clients, NEW lives, Stop(k, lives),
           lives \in [Clients -> {"starting", "running", "asking", "recovering",
                                  "stopping", "ended"}]
    PROVE  /\ life' \in [Clients -> {"starting", "running", "asking", "recovering",
                                     "stopping", "ended"}]
           /\ refused' \subseteq Clients
           /\ \A n \in Clients \ {k} : life'[n] = lives[n]
           /\ life'[k] \in {"running", "asking", "recovering"} => k \in refused'
           /\ life'[k] = "starting" => lives[k] = "starting"
           /\ life'[k] \notin {"running", "stopping"} => lives[k] # "running" /\ lives[k] # "stopping"
           /\ refused \subseteq refused'
<1>1. life' = [lives EXCEPT ![k] = CASE @ = "running" -> "stopping"
                                     [] @ = "asking" -> "ended"
                                     [] OTHER -> @]
  BY DEF Stop
<1>2. /\ life'[k] = CASE lives[k] = "running" -> "stopping"
                      [] lives[k] = "asking" -> "ended"
                      [] OTHER -> lives[k]
      /\ \A n \in Clients \ {k} : life'[n] = lives[n]
  BY <1>1
<1>3. refused \subseteq refused' /\ refused' \subseteq Clients
      /\ (lives[k] = "recovering" => k \in refused')
  BY DEF Stop, TypeOK
<1>4. life' \in [Clients -> {"starting", "running", "asking", "recovering",
                                     "stopping", "ended"}]
  BY <1>1
<1>5. lives[k] \in {"starting", "running", "asking", "recovering", "stopping", "ended"}
  OBVIOUS
<1>6. QED BY <1>2, <1>3, <1>4, <1>5

\* A call that is given client k leaves k in use, or drops and stops it.
LEMMA GivenTypes ==
    ASSUME TypeOK, NEW x \in Callers, NEW k \in Clients, NEW others \in Seq(Callers),
           NEW lives \in [Clients -> {"starting", "running", "asking", "recovering",
                                      "stopping", "ended"}],
           Given(x, k, others, lives)
    PROVE  /\ languageClient' \in Clients \cup {NoClient}
           /\ queue' \in Seq(Callers)
           /\ life' \in [Clients -> {"starting", "running", "asking", "recovering",
                                     "stopping", "ended"}]
           /\ restartAt' \in [Restarts -> {"idle", "client", "start", "done"}]
           /\ fetchAt' \in [Fetchers -> {"none", "queued", "client", "opening", "again",
                                         "asking", "asked", "failed"}]
           /\ with' \in [Fetchers -> Clients \cup {NoClient}]
           /\ refused' \subseteq Clients
           /\ refused \subseteq refused'
           /\ \/ languageClient' = k /\ life' = lives
              \/ languageClient' = NoClient /\ Stop(k, lives)
<1>1. CASE x \in Restarts /\ restartAt[x] = "client" /\ Drops(x, k, others, lives)
  <2>1. Stop(k, lives) BY <1>1 DEF Drops
  <2>2. life' \in [Clients -> {"starting", "running", "asking", "recovering",
                                     "stopping", "ended"}]
        /\ refused' \subseteq Clients /\ refused \subseteq refused'
    BY <2>1, StopTypes
  <2>3. Append(others, x) \in Seq(Callers) BY <1>1
  <2>4. QED BY <1>1, <2>1, <2>2, <2>3 DEF Drops, TypeOK
<1>2. CASE /\ x \in Restarts /\ restartAt[x] = "start"
           /\ restartAt' = [restartAt EXCEPT ![x] = "done"]
           /\ languageClient' = k /\ queue' = others /\ life' = lives
           /\ UNCHANGED <<fetchAt, with, refused>>
  BY <1>2 DEF TypeOK
<1>3. CASE /\ x \in Fetchers
           /\ fetchAt' = [fetchAt EXCEPT ![x] = IF @ = "client" THEN "opening" ELSE "asking"]
           /\ with' = [with EXCEPT ![x] = k]
           /\ languageClient' = k /\ queue' = others /\ life' = lives
           /\ UNCHANGED <<restartAt, refused>>
  BY <1>3 DEF TypeOK
<1>4. QED BY <1>1, <1>2, <1>3 DEF Given

-----------------------------------------------------------------------------
(* The clients *)

\* Nobody has called yet, and no client has a server.
LEMMA InitClients == Init => ClientInv
BY ClientAssumption DEF Init, ClientInv, TypeOK, CreateInv, ServerInv, OpenedInv, Clients,
   NoClient, Callers, serverVars, mutexVars, fetchVars

\* The mutex is free: the call that waits longest has the client in use.
LEMMA GrantClients == ClientInv /\ Grant => ClientInv'
<1> SUFFICES ASSUME ClientInv, Grant PROVE ClientInv'
  OBVIOUS
<1> USE DEF ClientInv
<1>1. /\ Head(queue) \in Callers /\ Tail(queue) \in Seq(Callers)
      /\ languageClient \in Clients
      /\ life \in [Clients -> {"starting", "running", "asking", "recovering",
                               "stopping", "ended"}]
      /\ Given(Head(queue), languageClient, Tail(queue), life)
      /\ UNCHANGED <<holder, starting, crashes, opened, fetchQueue, wanted, answer>>
      /\ holder = Nobody
  BY DEF Grant, TypeOK, serverVars, fetchVars
<1>2. TypeOK'
  BY <1>1, GivenTypes DEF TypeOK
<1>3. /\ refused \subseteq refused'
      /\ \/ languageClient' = languageClient /\ life' = life
         \/ languageClient' = NoClient /\ Stop(languageClient, life)
  BY <1>1, GivenTypes
<1>4. CASE languageClient' = languageClient /\ life' = life
  BY <1>1, <1>2, <1>3, <1>4 DEF CreateInv, ServerInv, OpenedInv
<1>5. CASE languageClient' = NoClient /\ Stop(languageClient, life)
  <2>1. /\ \A n \in Clients \ {languageClient} : life'[n] = life[n]
        /\ life'[languageClient] \in {"running", "asking", "recovering"}
              => languageClient \in refused'
        /\ life'[languageClient] \notin {"running", "stopping"}
              => life[languageClient] # "running" /\ life[languageClient] # "stopping"
    BY <1>1, <1>5, StopTypes
  <2>2. CreateInv' BY <1>1, <1>5 DEF CreateInv
  <2>3. ServerInv' BY <1>1, <1>3, <2>1 DEF ServerInv
  <2>4. OpenedInv' BY <1>1, <2>1 DEF OpenedInv
  <2>5. QED BY <1>2, <2>2, <2>3, <2>4
<1>6. QED BY <1>3, <1>4, <1>5

\* A client that was made is used by whom it was made for.
LEMMA StartSucceedsClients == ClientInv /\ StartSucceeds => ClientInv'
<1> SUFFICES ASSUME ClientInv, StartSucceeds PROVE ClientInv'
  OBVIOUS
<1> USE DEF ClientInv
<1> DEFINE lives == [life EXCEPT ![starting] = "running"]
<1>1. /\ holder \in Callers /\ starting \in Clients /\ life[starting] = "starting"
      /\ languageClient = NoClient
      /\ Given(holder, starting, queue, lives)
      /\ UNCHANGED <<crashes, opened, fetchQueue, wanted, answer>>
      /\ holder' = Nobody /\ starting' = NoClient
  BY DEF StartSucceeds, TypeOK, serverVars, fetchVars, CreateInv
<1>2. /\ lives \in [Clients -> {"starting", "running", "asking", "recovering",
                                "stopping", "ended"}]
      /\ lives[starting] = "running" /\ \A n \in Clients \ {starting} : lives[n] = life[n]
      /\ queue \in Seq(Callers) /\ starting # NoClient
  BY <1>1 DEF TypeOK, Clients, NoClient
<1> HIDE DEF lives
<1>3. TypeOK'
  BY <1>1, <1>2, GivenTypes DEF TypeOK
<1>4. /\ refused \subseteq refused'
      /\ \/ languageClient' = starting /\ life' = lives
         \/ languageClient' = NoClient /\ Stop(starting, lives)
  BY <1>1, <1>2, GivenTypes
<1>5. \A k \in Clients : k # NoClient
  BY DEF Clients, NoClient
<1>6. CASE languageClient' = starting /\ life' = lives
  BY <1>1, <1>2, <1>3, <1>4, <1>5, <1>6 DEF CreateInv, ServerInv, OpenedInv
<1>7. CASE languageClient' = NoClient /\ Stop(starting, lives)
  <2>1. /\ \A n \in Clients \ {starting} : life'[n] = lives[n]
        /\ life'[starting] \in {"running", "asking", "recovering"} => starting \in refused'
        /\ life'[starting] \notin {"running", "stopping"} => lives[starting] # "running"
    BY <1>1, <1>2, <1>7, StopTypes
  <2>2. CreateInv' BY <1>1, <1>7 DEF CreateInv
  <2>3. ServerInv' BY <1>1, <1>2, <1>4, <1>5, <2>1 DEF ServerInv
  <2>4. OpenedInv' BY <1>1, <1>2, <2>1 DEF OpenedInv
  <2>5. QED BY <1>3, <2>2, <2>3, <2>4
<1>8. QED BY <1>4, <1>6, <1>7

\* A restart that has the client at once drops it.
LEMMA RestartClients == ASSUME ClientInv, NEW r \in Restarts, Restart(r) PROVE ClientInv'
<1> USE DEF ClientInv
<1>1. UNCHANGED <<holder, starting, crashes, opened, fetchQueue, wanted, answer>>
      /\ r \in Callers
  BY DEF Restart, serverVars, fetchVars, Callers
<1>2. CASE ClientIsThere
  <2>1. /\ Drops(r, languageClient, <<>>, life)
        /\ languageClient \in Clients /\ holder = Nobody /\ languageClient' = NoClient
        /\ Stop(languageClient, life)
    BY <1>2 DEF Restart, ClientIsThere, TypeOK, Drops
  <2>2. life \in [Clients -> {"starting", "running", "asking", "recovering",
                              "stopping", "ended"}]
    BY DEF TypeOK
  <2>3. /\ life' \in [Clients -> {"starting", "running", "asking", "recovering",
                                  "stopping", "ended"}]
        /\ refused' \subseteq Clients /\ refused \subseteq refused'
        /\ \A n \in Clients \ {languageClient} : life'[n] = life[n]
        /\ life'[languageClient] \in {"running", "asking", "recovering"}
              => languageClient \in refused'
        /\ life'[languageClient] \notin {"running", "stopping"}
              => life[languageClient] # "running" /\ life[languageClient] # "stopping"
    BY <2>1, <2>2, StopTypes
  <2>4. Append(<<>>, r) \in Seq(Callers) BY <1>1
  <2>5. TypeOK' BY <1>1, <2>1, <2>3, <2>4 DEF TypeOK, Drops
  <2>6. CreateInv' BY <1>1, <2>1 DEF CreateInv
  <2>7. ServerInv' BY <1>1, <2>1, <2>3 DEF ServerInv
  <2>8. OpenedInv' BY <1>1, <2>3 DEF OpenedInv
  <2>9. QED BY <2>5, <2>6, <2>7, <2>8
<1>3. CASE ~ClientIsThere
  <2>1. /\ restartAt' = [restartAt EXCEPT ![r] = "client"]
        /\ queue' = Append(queue, r)
        /\ UNCHANGED <<languageClient, life, refused, fetchAt, with>>
    BY <1>3 DEF Restart
  <2>2. Append(queue, r) \in Seq(Callers) BY <1>1 DEF TypeOK
  <2>3. QED BY <1>1, <2>1, <2>2 DEF TypeOK, CreateInv, ServerInv, OpenedInv
<1>4. QED BY <1>2, <1>3

\* A client is made while there is none, or is not.
LEMMA CreateBeginsClients == ClientInv /\ CreateBegins => ClientInv'
<1> SUFFICES ASSUME ClientInv, CreateBegins PROVE ClientInv'
  OBVIOUS
<1> USE DEF ClientInv
<1>1. PICK k \in Clients : /\ Unused(k) /\ starting' = k
                           /\ life' = [life EXCEPT ![k] = "starting"]
  BY DEF CreateBegins
<1>2. /\ queue # <<>> /\ languageClient = NoClient
      /\ holder' = Head(queue) /\ queue' = Tail(queue) /\ holder = Nobody
      /\ UNCHANGED <<languageClient, crashes, opened, restartAt, fetchQueue, wanted, answer,
                     fetchAt, with, refused>>
  BY DEF CreateBegins, serverVars, fetchVars
<1>3. Head(queue) \in Callers /\ Tail(queue) \in Seq(Callers)
  BY <1>2 DEF TypeOK
<1>4. TypeOK' BY <1>1, <1>2, <1>3 DEF TypeOK
<1>5. CreateInv' BY <1>1, <1>2 DEF CreateInv, TypeOK
<1>6. ServerInv' BY <1>1, <1>2 DEF ServerInv, TypeOK
<1>7. OpenedInv' BY <1>1, <1>2 DEF OpenedInv, Unused, TypeOK
<1>8. QED BY <1>4, <1>5, <1>6, <1>7

\* A client that does not start is none, and its document was none.
LEMMA StartFailsClients == ClientInv /\ StartFails => ClientInv'
<1> SUFFICES ASSUME ClientInv, StartFails PROVE ClientInv'
  OBVIOUS
<1> USE DEF ClientInv
<1>1. /\ holder # Nobody /\ life' = [life EXCEPT ![starting] = "ended"]
      /\ languageClient' = NoClient /\ holder' = Nobody /\ starting' = NoClient
      /\ UNCHANGED <<queue, crashes, opened, fetchQueue, wanted, answer, with, refused>>
  BY DEF StartFails, serverVars, fetchVars
<1>2. /\ languageClient = NoClient /\ starting \in Clients /\ life[starting] = "starting"
  BY <1>1 DEF CreateInv
<1>3. /\ restartAt' \in [Restarts -> {"idle", "client", "start", "done"}]
      /\ fetchAt' \in [Fetchers -> {"none", "queued", "client", "opening", "again",
                                    "asking", "asked", "failed"}]
  BY DEF StartFails, TypeOK
<1>4. TypeOK' BY <1>1, <1>2, <1>3 DEF TypeOK
<1>5. CreateInv' BY <1>1 DEF CreateInv
<1>6. ServerInv' BY <1>1, <1>2 DEF ServerInv, TypeOK
<1>7. OpenedInv' BY <1>1, <1>2 DEF OpenedInv, TypeOK
<1>8. QED BY <1>4, <1>5, <1>6, <1>7

\* What happens to a server by itself.
LEMMA ServerStepClients ==
    ASSUME ClientInv, NEW k \in Clients,
           Crash(k) \/ Consent(k) \/ Recovers(k) \/ StopEnds(k)
    PROVE  ClientInv'
<1> USE DEF ClientInv
<1>0. UNCHANGED <<languageClient, holder, starting, queue, restartAt, fetchQueue, wanted,
                  answer, fetchAt, with>>
  BY DEF Crash, Consent, Recovers, StopEnds, mutexVars, fetchVars
<1>1. CASE Crash(k)
  <2>1. /\ life[k] = "running" /\ opened' = [opened EXCEPT ![k] = NoText]
        /\ UNCHANGED refused
        /\ \/ life' = [life EXCEPT ![k] = "recovering"]
           \/ life' = [life EXCEPT ![k] = "asking"]
    BY <1>1 DEF Crash, ServerDies
  <2>2. crashes' \in [Clients -> 0..(MaxRestartCount + 1)]
    BY <1>1, ClientAssumption DEF Crash, TypeOK
  <2>3. TypeOK' BY <1>0, <2>1, <2>2 DEF TypeOK
  <2>4. CreateInv' BY <1>0, <2>1 DEF CreateInv, TypeOK
  <2>5. ServerInv' BY <1>0, <2>1 DEF ServerInv, TypeOK
  <2>6. OpenedInv' BY <1>0, <2>1 DEF OpenedInv, TypeOK
  <2>7. QED BY <2>3, <2>4, <2>5, <2>6
<1>2. CASE Consent(k)
  <2>1. /\ life[k] = "asking" /\ UNCHANGED opened
        /\ crashes' = [crashes EXCEPT ![k] = 0]
        /\ \/ life' = [life EXCEPT ![k] = "recovering"] /\ UNCHANGED refused
           \/ life' = [life EXCEPT ![k] = "ended"] /\ refused' = refused \ {k}
    BY <1>2 DEF Consent
  <2>2. TypeOK'
    <3>1. crashes' \in [Clients -> 0..(MaxRestartCount + 1)]
      BY <2>1, ClientAssumption DEF TypeOK
    <3>2. life' \in [Clients -> {"starting", "running", "asking", "recovering",
                                 "stopping", "ended"}]
      BY <2>1 DEF TypeOK
    <3>3. refused' \subseteq Clients BY <2>1 DEF TypeOK
    <3>4. QED BY <1>0, <2>1, <3>1, <3>2, <3>3 DEF TypeOK
  <2>3. CreateInv' BY <1>0, <2>1 DEF CreateInv, TypeOK
  <2>4. ServerInv' BY <1>0, <2>1 DEF ServerInv, TypeOK
  <2>5. OpenedInv' BY <1>0, <2>1 DEF OpenedInv, TypeOK
  <2>6. QED BY <2>2, <2>3, <2>4, <2>5
<1>3. CASE Recovers(k)
  <2>1. /\ life[k] = "recovering" /\ UNCHANGED opened
        /\ \/ /\ life' = [life EXCEPT ![k] = "running"] /\ UNCHANGED <<crashes, refused>>
           \/ /\ life' = [life EXCEPT ![k] = "ended"]
              /\ crashes' = [crashes EXCEPT ![k] = 0] /\ refused' = refused \ {k}
    BY <1>3 DEF Recovers
  <2>2. TypeOK'
    <3>1. crashes' \in [Clients -> 0..(MaxRestartCount + 1)]
      BY <2>1, ClientAssumption DEF TypeOK
    <3>2. life' \in [Clients -> {"starting", "running", "asking", "recovering",
                                 "stopping", "ended"}]
      BY <2>1 DEF TypeOK
    <3>3. refused' \subseteq Clients BY <2>1 DEF TypeOK
    <3>4. QED BY <1>0, <2>1, <3>1, <3>2, <3>3 DEF TypeOK
  <2>3. CreateInv' BY <1>0, <2>1 DEF CreateInv, TypeOK
  <2>4. ServerInv' BY <1>0, <2>1 DEF ServerInv, TypeOK
  <2>5. OpenedInv' BY <1>0, <2>1 DEF OpenedInv, TypeOK
  <2>6. QED BY <2>2, <2>3, <2>4, <2>5
<1>4. CASE StopEnds(k)
  <2>1. /\ life[k] = "stopping" /\ opened' = [opened EXCEPT ![k] = NoText]
        /\ UNCHANGED refused /\ crashes' = [crashes EXCEPT ![k] = 0]
        /\ life' = [life EXCEPT ![k] = "ended"]
    BY <1>4 DEF StopEnds
  <2>2. TypeOK' BY <1>0, <2>1, ClientAssumption DEF TypeOK
  <2>3. CreateInv' BY <1>0, <2>1 DEF CreateInv, TypeOK
  <2>4. ServerInv' BY <1>0, <2>1 DEF ServerInv, TypeOK
  <2>5. OpenedInv' BY <1>0, <2>1 DEF OpenedInv, TypeOK
  <2>6. QED BY <2>2, <2>3, <2>4, <2>5
<1>5. QED BY <1>1, <1>2, <1>3, <1>4

\* A fetch moves on, and leaves clients alone.
LEMMA FetchStepClients ==
    ASSUME ClientInv, OrderInv, NEW p \in Fetchers,
           \/ FetchBegins(p) \/ SendOpen(p) \/ SendRequest(p) \/ FetchReturns(p)
           \/ \E words \in Texts : Fetch(p, words)
    PROVE  ClientInv'
<1> USE DEF ClientInv
<1>0. p \in Callers /\ UNCHANGED <<languageClient, holder, starting, life, crashes, restartAt, refused>>
  BY DEF FetchBegins, SendOpen, SendRequest, FetchReturns, Fetch, mutexVars, serverVars, Callers
<1>1. ASSUME NEW a \in {"client", "again"}, NEW g \in {"opening", "asking"}, Asks(p, a, g)
      PROVE  /\ fetchAt' \in [Fetchers -> {"none", "queued", "client", "opening", "again",
                                           "asking", "asked", "failed"}]
             /\ with' \in [Fetchers -> Clients \cup {NoClient}]
             /\ queue' \in Seq(Callers)
  <2>1. Append(queue, p) \in Seq(Callers) BY <1>0 DEF TypeOK
  <2>2. QED BY <1>1, <2>1 DEF Asks, TypeOK
<1>2. CASE FetchBegins(p)
  <2>1. Asks(p, "client", "opening") /\ UNCHANGED <<opened, fetchQueue, wanted, answer>>
    BY <1>2 DEF FetchBegins, serverVars, fetchVars
  <2>2. TypeOK' BY <1>0, <1>1, <2>1 DEF TypeOK
  <2>3. QED BY <1>0, <2>1, <2>2 DEF CreateInv, ServerInv, OpenedInv
<1>3. CASE SendOpen(p)
  <2>1. /\ Asks(p, "again", "asking") /\ life[with[p]] = "running"
        /\ opened' = [opened EXCEPT ![with[p]] = wanted[p]]
        /\ UNCHANGED <<fetchQueue, wanted, answer>>
    BY <1>3 DEF SendOpen, fetchVars
  <2>2. TypeOK' BY <1>0, <1>1, <2>1 DEF TypeOK
  <2>3. OpenedInv' BY <1>0, <2>1 DEF OpenedInv, TypeOK
  <2>4. QED BY <1>0, <2>1, <2>2, <2>3 DEF CreateInv, ServerInv
<1>4. CASE SendRequest(p)
  BY <1>0, <1>4 DEF SendRequest, TypeOK, CreateInv, ServerInv, OpenedInv, mutexVars,
     serverVars, fetchVars
<1>5. CASE FetchReturns(p)
  <2>1. /\ answer' \in [Fetchers -> Texts \cup {NoText}]
        /\ fetchAt' = [fetchAt EXCEPT ![p] = "none"]
        /\ wanted' = [wanted EXCEPT ![p] = NoText] /\ with' = [with EXCEPT ![p] = NoClient]
        /\ fetchQueue' = Tail(fetchQueue) /\ UNCHANGED <<queue, opened>>
    BY <1>5 DEF FetchReturns, TypeOK, mutexVars, serverVars
  <2>2. fetchQueue # <<>> /\ fetchQueue \in Seq(Fetchers)
    <3>1. fetchAt[p] # "none"
      BY <1>5 DEF FetchReturns, Answers, Fails
    <3>2. \E i \in Places : fetchQueue[i] = p
      BY <3>1 DEF OrderInv
    <3>3. QED BY <3>2 DEF Places, TypeOK
  <2>3. Tail(fetchQueue) \in Seq(Fetchers)
    BY <2>2 DEF TypeOK
  <2>4. TypeOK' BY <1>0, <2>1, <2>3 DEF TypeOK
  <2>5. QED BY <1>0, <2>1, <2>4 DEF CreateInv, ServerInv, OpenedInv
<1>6. CASE \E words \in Texts : Fetch(p, words)
  <2>1. PICK words \in Texts : Fetch(p, words) BY <1>6
  <2>2. Append(fetchQueue, p) \in Seq(Fetchers) BY DEF TypeOK
  <2>3. QED BY <1>0, <2>1, <2>2 DEF Fetch, TypeOK, CreateInv, ServerInv, OpenedInv,
               mutexVars, serverVars
<1>7. QED BY <1>2, <1>3, <1>4, <1>5, <1>6

-----------------------------------------------------------------------------
(* The order of the fetches *)

\* One fetch at a time is past the mutex.
LEMMA OneFetch ==
    ASSUME OrderInv, NEW p \in Fetchers, NEW q \in Fetchers,
           fetchAt[p] \notin {"none", "queued"}, fetchAt[q] \notin {"none", "queued"}
    PROVE  p = q
BY DEF OrderInv

\* A step that lets nobody begin or end leaves the order as it is.
LEMMA OrderKept ==
    ASSUME OrderInv, UNCHANGED fetchQueue,
           \A p \in Fetchers :
               \/ fetchAt'[p] = fetchAt[p]
               \/ fetchAt[p] \notin {"none", "queued"} /\ fetchAt'[p] # "none"
    PROVE  OrderInv'
<1>1. \A p \in Fetchers : fetchAt'[p] # "none" <=> fetchAt[p] # "none"
  OBVIOUS
<1>2. \A p \in Fetchers :
        fetchAt'[p] \notin {"none", "queued"} => fetchAt[p] \notin {"none", "queued"}
  OBVIOUS
<1>3. QED BY <1>1, <1>2 DEF OrderInv, Places

\* What a call of client() that is given k changes of the queue and of the fetches.
LEMMA GivenFetch ==
    ASSUME TypeOK, NEW x \in Callers, NEW k \in Clients, NEW others, NEW lives,
           Given(x, k, others, lives)
    PROVE  /\ queue' = others \/ (x \in Restarts /\ queue' = Append(others, x))
           /\ x \in Fetchers =>
                /\ fetchAt' = [fetchAt EXCEPT ![x] =
                                  IF @ = "client" THEN "opening" ELSE "asking"]
                /\ with' = [with EXCEPT ![x] = k] /\ languageClient' = k
           /\ x \notin Fetchers => UNCHANGED <<fetchAt, with>>
           /\ languageClient' \in {k, NoClient}
<1>1. Fetchers \cap Restarts = {}
  BY ClientAssumption
<1>2. QED BY <1>1 DEF Given, Drops

\* The calls of client() that wait: who is given a client does not wait for
\* another one.
LEMMA GivenCalls ==
    ASSUME ClientInv, OrderInv, CallInv, Grant \/ StartSucceeds
    PROVE  CallInv' /\ OrderInv'
<1> USE DEF ClientInv
<1>1. PICK x \in Callers, k \in Clients, others \in Seq(Callers) :
        /\ \E lives : Given(x, k, others, lives)
        /\ \/ Grant /\ x = Head(queue) /\ others = Tail(queue) /\ queue # <<>>
           \/ StartSucceeds /\ x = holder /\ others = queue
  <2>1. CASE Grant
    <3>1. /\ queue # <<>> /\ languageClient \in Clients
          /\ Given(Head(queue), languageClient, Tail(queue), life)
      BY <2>1 DEF Grant, TypeOK
    <3>2. Head(queue) \in Callers /\ Tail(queue) \in Seq(Callers)
      BY <3>1 DEF TypeOK
    <3>3. QED BY <2>1, <3>1, <3>2
  <2>2. CASE StartSucceeds
    <3>1. /\ holder \in Callers /\ starting \in Clients
          /\ Given(holder, starting, queue, [life EXCEPT ![starting] = "running"])
          /\ queue \in Seq(Callers)
      BY <2>2 DEF StartSucceeds, CreateInv, TypeOK
    <3>2. QED BY <2>2, <3>1
  <2>3. QED BY <2>1, <2>2
<1>2. /\ queue' = others \/ (x \in Restarts /\ queue' = Append(others, x))
      /\ x \in Fetchers =>
           fetchAt' = [fetchAt EXCEPT ![x] = IF @ = "client" THEN "opening" ELSE "asking"]
      /\ x \notin Fetchers => UNCHANGED fetchAt
  BY <1>1, GivenFetch
<1>3. /\ holder' = Nobody /\ UNCHANGED fetchQueue
  BY <1>1 DEF Grant, StartSucceeds, fetchVars
<1>4. Nobody \notin Fetchers /\ Fetchers \cap Restarts = {}
  BY ClientAssumption DEF Callers
<1>5. x \in Fetchers => fetchAt[x] \in {"client", "again"}
  <2>1. CASE Grant /\ x = Head(queue) /\ queue # <<>>
    <3>1. queue[1] = x /\ 1 \in Waiting BY <2>1 DEF Waiting, TypeOK
    <3>2. QED BY <3>1 DEF CallInv
  <2>2. CASE StartSucceeds /\ x = holder
    BY <2>2 DEF CallInv
  <2>3. QED BY <1>1, <2>1, <2>2
<1>6. OrderInv'
  <2>1. \A p \in Fetchers :
          \/ fetchAt'[p] = fetchAt[p]
          \/ fetchAt[p] \notin {"none", "queued"} /\ fetchAt'[p] # "none"
    BY <1>2, <1>5 DEF TypeOK
  <2>2. QED BY <1>3, <2>1, OrderKept
<1>7. /\ \A i \in 1..Len(others) : others[i] \in Fetchers =>
            others[i] # x /\ fetchAt[others[i]] \in {"client", "again"}
      /\ \A i, j \in 1..Len(others) : others[i] \in Fetchers /\ others[i] = others[j] => i = j
  <2>1. CASE Grant /\ x = Head(queue) /\ others = Tail(queue) /\ queue # <<>>
    <3>1. /\ Len(others) = Len(queue) - 1 /\ queue[1] = x
          /\ \A i \in 1..Len(others) : others[i] = queue[i + 1] /\ i + 1 \in Waiting
          /\ Len(queue) \in Nat \ {0}
      BY <2>1 DEF TypeOK, Waiting
    <3>2. \A i \in 1..Len(others) : others[i] \in Fetchers =>
            others[i] # x /\ fetchAt[others[i]] \in {"client", "again"}
      <4>1. TAKE i \in 1..Len(others)
      <4>2. HAVE others[i] \in Fetchers
      <4>3. 1 \in Waiting /\ i + 1 \in Waiting /\ i + 1 # 1 BY <3>1 DEF Waiting
      <4>4. QED BY <3>1, <4>2, <4>3 DEF CallInv
    <3>3. \A i, j \in 1..Len(others) : others[i] \in Fetchers /\ others[i] = others[j] => i = j
      <4>1. TAKE i, j \in 1..Len(others)
      <4>2. HAVE others[i] \in Fetchers /\ others[i] = others[j]
      <4>3. /\ i + 1 \in Waiting /\ j + 1 \in Waiting
            /\ queue[i + 1] \in Fetchers /\ queue[i + 1] = queue[j + 1]
        BY <3>1, <4>2
      <4>5. i + 1 = j + 1 BY <4>3 DEF CallInv
      <4>6. QED BY <4>5, <3>1
    <3>4. QED BY <3>2, <3>3
  <2>2. CASE StartSucceeds /\ x = holder /\ others = queue
    BY <2>2 DEF CallInv, Waiting
  <2>3. QED BY <1>1, <2>1, <2>2
<1>8. \A p \in Fetchers : p # x => fetchAt'[p] = fetchAt[p]
  BY <1>2 DEF TypeOK
<1>9. CASE queue' = others
  <2>1. Waiting' = 1..Len(others) BY <1>9 DEF Waiting
  <2>2. \A i \in Waiting' : queue'[i] \in Fetchers => fetchAt'[queue'[i]] \in {"client", "again"}
    BY <1>7, <1>8, <1>9, <2>1
  <2>3. QED BY <1>3, <1>4, <1>7, <1>9, <2>1, <2>2, <1>6 DEF CallInv
<1>10. CASE x \in Restarts /\ queue' = Append(others, x)
  <2>1. /\ Waiting' = 1..(Len(others) + 1) /\ queue'[Len(others) + 1] = x
        /\ \A i \in 1..Len(others) : queue'[i] = others[i]
        /\ Len(others) \in Nat
    BY <1>10 DEF Waiting
  <2>2. \A i \in Waiting' : queue'[i] \in Fetchers => i \in 1..Len(others)
    BY <1>4, <1>10, <2>1
  <2>3. \A i \in Waiting' : queue'[i] \in Fetchers => fetchAt'[queue'[i]] \in {"client", "again"}
    BY <1>7, <1>8, <2>1, <2>2
  <2>4. \A i, j \in Waiting' : queue'[i] \in Fetchers /\ queue'[i] = queue'[j] => i = j
    BY <1>7, <2>1, <2>2
  <2>5. QED BY <1>3, <1>4, <2>3, <2>4, <1>6 DEF CallInv
<1>11. QED BY <1>2, <1>9, <1>10

\* A client is begun for the call that waits longest.
LEMMA CreateBeginsCalls ==
    ASSUME ClientInv, OrderInv, CallInv, CreateBegins
    PROVE  CallInv' /\ OrderInv'
<1> USE DEF ClientInv
<1>1. /\ queue # <<>> /\ holder = Nobody /\ holder' = Head(queue) /\ queue' = Tail(queue)
      /\ UNCHANGED <<fetchAt, fetchQueue>>
  BY DEF CreateBegins, fetchVars
<1>2. /\ Len(queue') = Len(queue) - 1 /\ Len(queue) \in Nat \ {0}
      /\ holder' = queue[1] /\ 1 \in Waiting
      /\ \A i \in Waiting' : queue'[i] = queue[i + 1] /\ i + 1 \in Waiting /\ i + 1 # 1
  BY <1>1 DEF TypeOK, Waiting
<1>3. OrderInv' BY <1>1, OrderKept
<1>4. \A i, j \in Waiting' : queue'[i] \in Fetchers /\ queue'[i] = queue'[j] => i = j
  <2>1. TAKE i, j \in Waiting'
  <2>2. HAVE queue'[i] \in Fetchers /\ queue'[i] = queue'[j]
  <2>3. /\ i + 1 \in Waiting /\ j + 1 \in Waiting
        /\ queue[i + 1] \in Fetchers /\ queue[i + 1] = queue[j + 1]
    BY <1>2, <2>2
  <2>4. i + 1 = j + 1 BY <2>3 DEF CallInv
  <2>5. QED BY <2>4, <1>2 DEF Waiting
<1>5. \A i \in Waiting' : queue'[i] \in Fetchers =>
        queue'[i] # holder' /\ fetchAt'[queue'[i]] \in {"client", "again"}
  <2>1. TAKE i \in Waiting'
  <2>2. HAVE queue'[i] \in Fetchers
  <2>3. i + 1 \in Waiting /\ queue[i + 1] = queue'[i] /\ i + 1 # 1 BY <1>2
  <2>4. QED BY <1>1, <1>2, <2>2, <2>3 DEF CallInv
<1>6. holder' \in Fetchers => fetchAt'[holder'] \in {"client", "again"}
  BY <1>1, <1>2 DEF CallInv
<1>7. QED BY <1>3, <1>4, <1>5, <1>6 DEF CallInv

\* A fetch whose client does not start leaves client() as well.
LEMMA StartFailsCalls ==
    ASSUME ClientInv, OrderInv, CallInv, StartFails
    PROVE  CallInv' /\ OrderInv'
<1> USE DEF ClientInv
<1>1. /\ holder # Nobody /\ holder' = Nobody
      /\ \/ UNCHANGED fetchAt
         \/ holder \notin Restarts /\ fetchAt' = [fetchAt EXCEPT ![holder] = "failed"]
      /\ UNCHANGED <<queue, fetchQueue>>
  BY DEF StartFails, fetchVars
<1>2. holder \in Fetchers \cup Restarts /\ Nobody \notin Fetchers
  BY <1>1, ClientAssumption DEF TypeOK, Callers
<1>3. OrderInv'
  <2>1. \A p \in Fetchers :
          \/ fetchAt'[p] = fetchAt[p]
          \/ fetchAt[p] \notin {"none", "queued"} /\ fetchAt'[p] # "none"
    BY <1>1, <1>2 DEF TypeOK, CallInv
  <2>2. QED BY <1>1, <2>1, OrderKept
<1>4. \A i \in Waiting : queue[i] \in Fetchers => fetchAt'[queue[i]] = fetchAt[queue[i]]
  BY <1>1 DEF CallInv, TypeOK
<1>5. QED BY <1>1, <1>2, <1>3, <1>4 DEF CallInv, Waiting

\* A restart joins the calls that wait; servers come and go.
LEMMA RestartCalls ==
    ASSUME ClientInv, OrderInv, CallInv, NEW r \in Restarts, Restart(r)
    PROVE  CallInv' /\ OrderInv'
<1> USE DEF ClientInv
<1>1. /\ UNCHANGED <<holder, fetchAt, fetchQueue>>
      /\ queue' = Append(queue, r)
  <2>1. CASE ClientIsThere
    BY <2>1 DEF Restart, Drops, ClientIsThere, fetchVars
  <2>2. CASE ~ClientIsThere
    BY <2>2 DEF Restart, fetchVars
  <2>3. QED BY <2>1, <2>2
<1>2. /\ r \notin Fetchers /\ Len(queue) \in Nat
      /\ Waiting' = 1..(Len(queue) + 1) /\ queue'[Len(queue) + 1] = r
      /\ \A i \in Waiting : queue'[i] = queue[i]
  BY <1>1, ClientAssumption DEF TypeOK, Waiting, Callers
<1>3. \A i \in Waiting' : queue'[i] \in Fetchers => i \in Waiting
  BY <1>2 DEF Waiting
<1>4. OrderInv' BY <1>1, OrderKept
<1>5. \A i, j \in Waiting' : queue'[i] \in Fetchers /\ queue'[i] = queue'[j] => i = j
  BY <1>2, <1>3 DEF CallInv
<1>6. QED BY <1>1, <1>2, <1>3, <1>4, <1>5 DEF CallInv

\* Servers and calls do not know each other.
LEMMA ServerStepCalls ==
    ASSUME ClientInv, OrderInv, CallInv, NEW k \in Clients,
           Crash(k) \/ Consent(k) \/ Recovers(k) \/ StopEnds(k)
    PROVE  CallInv' /\ OrderInv'
<1>1. UNCHANGED <<holder, queue, fetchAt, fetchQueue>>
  BY DEF Crash, Consent, Recovers, StopEnds, mutexVars, fetchVars
<1>2. OrderInv' BY <1>1, OrderKept
<1>3. QED BY <1>1, <1>2 DEF CallInv, Waiting

\* A fetch joins its own queue; the first of it goes through its steps.
LEMMA FetchCalls ==
    ASSUME ClientInv, OrderInv, CallInv, NEW p \in Fetchers, NEW words, Fetch(p, words)
    PROVE  CallInv' /\ OrderInv'
<1> USE DEF ClientInv
<1>1. /\ UNCHANGED <<holder, queue>> /\ fetchAt[p] = "none"
      /\ fetchAt' = [fetchAt EXCEPT ![p] = "queued"]
      /\ fetchQueue' = Append(fetchQueue, p)
  BY DEF Fetch, mutexVars
<1>2. /\ Len(fetchQueue) \in Nat /\ Places' = 1..(Len(fetchQueue) + 1)
      /\ fetchQueue'[Len(fetchQueue) + 1] = p
      /\ \A i \in Places : fetchQueue'[i] = fetchQueue[i] /\ fetchQueue[i] # p
      /\ \A q \in Fetchers : q # p => fetchAt'[q] = fetchAt[q]
      /\ fetchAt'[p] = "queued" /\ fetchQueue' # <<>>
  BY <1>1 DEF TypeOK, OrderInv, Places
<1>3. \A q \in Fetchers : fetchAt'[q] # "none" <=> \E i \in Places' : fetchQueue'[i] = q
  <2>1. TAKE q \in Fetchers
  <2>2. CASE q = p BY <1>2, <2>2
  <2>3. CASE q # p
    <3>1. (\E i \in Places' : fetchQueue'[i] = q) <=> (\E i \in Places : fetchQueue[i] = q)
      BY <1>2, <2>3 DEF Places
    <3>2. QED BY <1>2, <2>3, <3>1 DEF OrderInv
  <2>4. QED BY <2>2, <2>3
<1>4. \A i, j \in Places' : fetchQueue'[i] = fetchQueue'[j] => i = j
  BY <1>2 DEF OrderInv, Places
<1>5. \A q \in Fetchers :
        fetchAt'[q] \notin {"none", "queued"} => fetchQueue' # <<>> /\ fetchQueue'[1] = q
  <2>1. TAKE q \in Fetchers
  <2>2. HAVE fetchAt'[q] \notin {"none", "queued"}
  <2>3. q # p /\ fetchQueue # <<>> /\ fetchQueue[1] = q BY <1>2, <2>2 DEF OrderInv
  <2>4. 1 \in Places BY <2>3 DEF Places, TypeOK
  <2>5. QED BY <1>2, <2>3, <2>4
<1>6. OrderInv' BY <1>3, <1>4, <1>5 DEF OrderInv
<1>7. QED BY <1>1, <1>2, <1>6 DEF CallInv, Waiting

\* A fetch that is not in client() calls it.
LEMMA AsksCalls ==
    ASSUME ClientInv, OrderInv, CallInv, NEW p \in Fetchers,
           NEW a \in {"client", "again"}, NEW g \in {"opening", "asking"},
           fetchAt[p] \in {"queued", "opening"}, fetchQueue # <<>>, fetchQueue[1] = p,
           Asks(p, a, g), UNCHANGED <<holder, fetchQueue>>
    PROVE  CallInv' /\ OrderInv'
<1> USE DEF ClientInv
<1>1. /\ fetchAt'[p] \in {a, g} /\ \A q \in Fetchers : q # p => fetchAt'[q] = fetchAt[q]
      /\ \/ UNCHANGED queue
         \/ queue' = Append(queue, p) /\ fetchAt'[p] = a
  BY DEF Asks, TypeOK
<1>2. /\ \A i \in Waiting : queue[i] \in Fetchers => queue[i] # p
      /\ p # holder
  BY DEF CallInv
<1>3. OrderInv'
  <2>1. \A q \in Fetchers : fetchAt'[q] # "none" <=> fetchAt[q] # "none"
    BY <1>1
  <2>2. \A q \in Fetchers : fetchAt'[q] \notin {"none", "queued"} =>
          fetchAt[q] \notin {"none", "queued"} \/ q = p
    BY <1>1
  <2>3. QED BY <2>1, <2>2 DEF OrderInv, Places
<1>4. CASE UNCHANGED queue
  BY <1>1, <1>2, <1>3, <1>4 DEF CallInv, Waiting
<1>5. CASE queue' = Append(queue, p) /\ fetchAt'[p] = a
  <2>1. /\ Len(queue) \in Nat /\ Waiting' = 1..(Len(queue) + 1)
        /\ queue'[Len(queue) + 1] = p
        /\ \A i \in Waiting : queue'[i] = queue[i]
    BY <1>5 DEF TypeOK, Waiting, Callers
  <2>2. \A i \in Waiting' : i \in Waiting \/ queue'[i] = p
    BY <2>1 DEF Waiting
  <2>3. \A i \in Waiting' : queue'[i] \in Fetchers =>
          queue'[i] # holder' /\ fetchAt'[queue'[i]] \in {"client", "again"}
    BY <1>1, <1>2, <1>5, <2>1, <2>2 DEF CallInv
  <2>4. \A i, j \in Waiting' : queue'[i] \in Fetchers /\ queue'[i] = queue'[j] => i = j
    BY <1>2, <2>1 DEF CallInv, Waiting
  <2>5. holder' \in Fetchers => fetchAt'[holder'] \in {"client", "again"}
    BY <1>1, <1>2 DEF CallInv
  <2>6. QED BY <1>3, <2>3, <2>4, <2>5 DEF CallInv
<1>6. QED BY <1>1, <1>4, <1>5

\* The first of the queue leaves it.
LEMMA ReturnOrder ==
    ASSUME ClientInv, OrderInv, NEW p \in Fetchers, FetchReturns(p)
    PROVE  /\ fetchQueue # <<>> /\ fetchQueue[1] = p
           /\ Len(fetchQueue') = Len(fetchQueue) - 1
           /\ \A i \in Places' : /\ fetchQueue'[i] = fetchQueue[i + 1]
                                 /\ i + 1 \in Places /\ fetchQueue[i + 1] # p
           /\ Places \ {1} = {i + 1 : i \in Places'}
           /\ fetchAt[p] \notin {"none", "queued"}
<1> USE DEF ClientInv
<1>1. fetchAt[p] \notin {"none", "queued"}
  BY DEF FetchReturns, Answers, Fails
<1>2. fetchQueue # <<>> /\ fetchQueue[1] = p
  BY <1>1 DEF OrderInv
<1>3. fetchQueue' = Tail(fetchQueue)
  BY DEF FetchReturns
<1>4. /\ Len(fetchQueue) \in Nat \ {0} /\ Len(fetchQueue') = Len(fetchQueue) - 1
      /\ Places' = 1..(Len(fetchQueue) - 1) /\ 1 \in Places
      /\ \A i \in Places' : fetchQueue'[i] = fetchQueue[i + 1] /\ i + 1 \in Places \ {1}
  BY <1>2, <1>3 DEF TypeOK, Places
<1>5. \A i \in Places' : fetchQueue[i + 1] # p
  <2>1. TAKE i \in Places'
  <2>2. i + 1 \in Places \ {1} BY <1>4
  <2>3. QED BY <1>2, <1>4, <2>2 DEF OrderInv
<1>6. Places \ {1} = {i + 1 : i \in Places'}
  <2>1. \A j \in Places \ {1} : j - 1 \in Places' /\ j = (j - 1) + 1
    BY <1>4 DEF Places
  <2>2. \A i \in Places' : i + 1 \in Places \ {1}
    BY <1>4
  <2>3. QED BY <2>1, <2>2
<1>7. QED BY <1>1, <1>2, <1>4, <1>5, <1>6

\* A fetch that returns was not in client(), and is in the queue no longer.
LEMMA ReturnCalls ==
    ASSUME ClientInv, OrderInv, CallInv, NEW p \in Fetchers, FetchReturns(p)
    PROVE  CallInv' /\ OrderInv'
<1> USE DEF ClientInv
<1>1. /\ fetchAt' = [fetchAt EXCEPT ![p] = "none"] /\ UNCHANGED <<holder, queue>>
  BY DEF FetchReturns, mutexVars
<1>2. /\ fetchAt[p] \notin {"client", "again"}
      \/ (fetchAt[p] = "failed")
  BY DEF FetchReturns, Answers, Fails
<1>3. /\ fetchAt'[p] = "none" /\ \A q \in Fetchers : q # p => fetchAt'[q] = fetchAt[q]
  BY <1>1 DEF TypeOK
<1>4. CallInv'
  BY <1>1, <1>2, <1>3 DEF CallInv, Waiting
<1>5. \A q \in Fetchers : fetchAt'[q] # "none" <=> \E i \in Places' : fetchQueue'[i] = q
  <2>1. TAKE q \in Fetchers
  <2>2. CASE q = p BY <1>3, <2>2, ReturnOrder
  <2>3. CASE q # p
    <3>1. (\E i \in Places : fetchQueue[i] = q) <=> (\E i \in Places' : fetchQueue'[i] = q)
      <4>1. ASSUME NEW i \in Places, fetchQueue[i] = q
            PROVE  \E j \in Places' : fetchQueue'[j] = q
        <5>1. i # 1 BY <4>1, <2>3, ReturnOrder
        <5>2. PICK j \in Places' : i = j + 1 BY <5>1, ReturnOrder
        <5>3. QED BY <4>1, <5>2, ReturnOrder
      <4>2. ASSUME NEW j \in Places', fetchQueue'[j] = q
            PROVE  \E i \in Places : fetchQueue[i] = q
        BY <4>2, ReturnOrder
      <4>3. QED BY <4>1, <4>2
    <3>2. QED BY <1>3, <2>3, <3>1 DEF OrderInv
  <2>4. QED BY <2>2, <2>3
<1>6. \A i, j \in Places' : fetchQueue'[i] = fetchQueue'[j] => i = j
  <2>1. TAKE i, j \in Places'
  <2>2. HAVE fetchQueue'[i] = fetchQueue'[j]
  <2>3. fetchQueue[i + 1] = fetchQueue[j + 1] /\ i + 1 \in Places /\ j + 1 \in Places
    BY <2>2, ReturnOrder
  <2>4. i + 1 = j + 1 BY <2>3 DEF OrderInv
  <2>5. QED BY <2>4 DEF Places
<1>7. \A q \in Fetchers : fetchAt'[q] \in {"none", "queued"}
  BY <1>3, OneFetch, ReturnOrder
<1>8. QED BY <1>4, <1>5, <1>6, <1>7 DEF OrderInv

-----------------------------------------------------------------------------
(* The documents *)

\* A client comes into use: it was in use before, or it has no document.
LEMMA GivenDocument ==
    ASSUME IInv, Grant \/ StartSucceeds
    PROVE  DocumentInv'
<1> USE DEF IInv, ClientInv
<1>1. PICK x \in Callers, k \in Clients :
        /\ \E others, lives : Given(x, k, others, lives)
        /\ k = languageClient \/ opened[k] = NoText
        /\ x \in Fetchers => fetchAt[x] \in {"client", "again"}
  <2>1. CASE Grant
    <3>1. /\ queue # <<>> /\ languageClient \in Clients
          /\ Given(Head(queue), languageClient, Tail(queue), life)
      BY <2>1 DEF Grant, TypeOK
    <3>2. Head(queue) \in Callers /\ Head(queue) = queue[1] /\ 1 \in Waiting
      BY <3>1 DEF TypeOK, Waiting
    <3>3. QED BY <3>1, <3>2 DEF CallInv
  <2>2. CASE StartSucceeds
    <3>1. /\ holder \in Callers /\ starting \in Clients /\ life[starting] = "starting"
          /\ Given(holder, starting, queue, [life EXCEPT ![starting] = "running"])
      BY <2>2 DEF StartSucceeds, CreateInv, TypeOK
    <3>2. QED BY <3>1 DEF OpenedInv, CallInv
  <2>3. QED BY <2>1, <2>2
<1>2. /\ x \in Fetchers =>
           /\ fetchAt' = [fetchAt EXCEPT ![x] = IF @ = "client" THEN "opening" ELSE "asking"]
           /\ with' = [with EXCEPT ![x] = k] /\ languageClient' = k
      /\ x \notin Fetchers => UNCHANGED <<fetchAt, with>>
      /\ languageClient' \in {k, NoClient}
  BY <1>1, GivenFetch
<1>3. UNCHANGED <<opened, wanted>>
  BY DEF Grant, StartSucceeds, serverVars, fetchVars
<1>4. CASE x \in Fetchers
  <2>1. \A p \in Fetchers : p # x => fetchAt[p] \in {"none", "queued"}
    BY <1>1, <1>4, OneFetch
  <2>2. /\ \A p \in Fetchers : p # x => fetchAt'[p] = fetchAt[p]
        /\ fetchAt'[x] = (IF fetchAt[x] = "client" THEN "opening" ELSE "asking")
        /\ with'[x] = k /\ languageClient' = k
    BY <1>2, <1>4 DEF TypeOK
  <2>3. k # NoClient BY DEF Clients, NoClient
  <2>4. fetchAt[x] = "again" => opened[k] \in {wanted[x], NoText}
    BY <1>1, <1>4, <2>3 DEF DocumentInv
  <2>5. ASSUME NEW p \in Fetchers
        PROVE  /\ fetchAt'[p] # "none" => wanted'[p] \in Texts
               /\ fetchAt'[p] \in {"opening", "asking", "asked"} => with'[p] \in Clients
               /\ fetchAt'[p] = "opening" /\ languageClient' \notin {NoClient, with'[p]}
                     => opened'[languageClient'] = NoText
               /\ fetchAt'[p] \in {"again", "asking", "asked"} /\ languageClient' # NoClient
                     => opened'[languageClient'] \in {wanted'[p], NoText}
               /\ fetchAt'[p] \in {"asking", "asked"}
                     => opened'[with'[p]] \in {wanted'[p], NoText}
    <3>1. CASE p = x
      <4>1. wanted'[p] \in Texts BY <1>1, <1>3, <1>4, <3>1 DEF DocumentInv
      <4>2. fetchAt'[p] \in {"opening", "asking"}
            /\ (fetchAt'[p] = "asking" => fetchAt[x] = "again")
        BY <1>1, <1>4, <2>2, <3>1
      <4>3. QED BY <1>3, <2>2, <2>4, <3>1, <4>1, <4>2
    <3>2. CASE p # x
      BY <1>3, <2>1, <2>2, <3>2 DEF DocumentInv
    <3>3. QED BY <3>1, <3>2
  <2>6. QED BY <2>5 DEF DocumentInv
<1>5. CASE x \notin Fetchers
  BY <1>1, <1>2, <1>3, <1>5 DEF DocumentInv
<1>6. QED BY <1>4, <1>5

\* No client comes into use, and no text into a server.
LEMMA OtherDocument ==
    ASSUME IInv, CreateBegins \/ StartFails \/ (\E r \in Restarts : Restart(r))
    PROVE  DocumentInv'
<1> USE DEF IInv, ClientInv
<1>1. CASE CreateBegins
  BY <1>1 DEF CreateBegins, DocumentInv, serverVars, fetchVars
<1>2. CASE StartFails
  <2>1. /\ languageClient' = NoClient /\ UNCHANGED <<opened, wanted, with>>
        /\ \A p \in Fetchers : \/ fetchAt'[p] = fetchAt[p]
                               \/ fetchAt[p] # "none" /\ fetchAt'[p] = "failed"
    BY <1>2 DEF StartFails, serverVars, fetchVars, CallInv, TypeOK
  <2>2. QED BY <2>1 DEF DocumentInv
<1>3. CASE \E r \in Restarts : Restart(r)
  <2>1. /\ languageClient' \in {languageClient, NoClient}
        /\ UNCHANGED <<opened, wanted, with, fetchAt>>
    BY <1>3 DEF Restart, Drops, ClientIsThere, serverVars, fetchVars
  <2>2. QED BY <2>1 DEF DocumentInv
<1>4. QED BY <1>1, <1>2, <1>3

\* A server that ends forgets its document.
LEMMA ServerStepDocument ==
    ASSUME IInv, NEW k \in Clients,
           Crash(k) \/ Consent(k) \/ Recovers(k) \/ StopEnds(k)
    PROVE  DocumentInv'
<1> USE DEF IInv, ClientInv
<1>1. /\ UNCHANGED <<languageClient, wanted, with, fetchAt>>
      /\ opened' \in {opened, [opened EXCEPT ![k] = NoText]}
  BY DEF Crash, ServerDies, Consent, Recovers, StopEnds, fetchVars
<1>2. \A n \in Clients : opened'[n] \in {opened[n], NoText}
  BY <1>1 DEF TypeOK
<1>3. /\ languageClient # NoClient => languageClient \in Clients
      /\ \A p \in Fetchers : fetchAt[p] \in {"asking", "asked"} => with[p] \in Clients
  BY DEF TypeOK, DocumentInv
<1>4. QED BY <1>1, <1>2, <1>3 DEF DocumentInv

\* A fetch that is the first of the queue sends its own text.
LEMMA FetchStepDocument ==
    ASSUME IInv, NEW p \in Fetchers,
           \/ FetchBegins(p) \/ SendOpen(p) \/ SendRequest(p) \/ FetchReturns(p)
           \/ \E words \in Texts : Fetch(p, words)
    PROVE  DocumentInv'
<1> USE DEF IInv, ClientInv
<1>0. UNCHANGED languageClient
  BY DEF FetchBegins, SendOpen, SendRequest, FetchReturns, Fetch
<1>1. CASE FetchBegins(p)
  <2>1. /\ fetchAt[p] = "queued" /\ UNCHANGED <<wanted, opened>>
        /\ \A q \in Fetchers : q # p => fetchAt'[q] = fetchAt[q] /\ with'[q] = with[q]
        /\ \/ fetchAt'[p] = "client"
           \/ fetchAt'[p] = "opening" /\ with'[p] = languageClient /\ languageClient # NoClient
    BY <1>1 DEF FetchBegins, Asks, ClientIsThere, TypeOK, serverVars, fetchVars
  <2>2. languageClient # NoClient => languageClient \in Clients
    BY DEF TypeOK
  <2>3. QED BY <1>0, <2>1, <2>2 DEF DocumentInv
<1>2. CASE SendOpen(p)
  <2>1. /\ fetchAt[p] = "opening" /\ UNCHANGED wanted
        /\ opened' = [opened EXCEPT ![with[p]] = wanted[p]]
        /\ \A q \in Fetchers : q # p => fetchAt'[q] = fetchAt[q] /\ with'[q] = with[q]
        /\ \/ fetchAt'[p] = "again"
           \/ fetchAt'[p] = "asking" /\ with'[p] = languageClient /\ languageClient # NoClient
    BY <1>2 DEF SendOpen, Asks, ClientIsThere, TypeOK, fetchVars
  <2>2. \A q \in Fetchers : q # p => fetchAt[q] \in {"none", "queued"}
    BY <2>1, OneFetch
  <2>3. languageClient # NoClient =>
          languageClient \in Clients /\ opened'[languageClient] \in {wanted[p], NoText}
    <3>1. ASSUME languageClient # NoClient
          PROVE  languageClient \in Clients /\ opened'[languageClient] \in {wanted[p], NoText}
      <4>1. languageClient \in Clients BY <3>1 DEF TypeOK
      <4>2. CASE languageClient = with[p] BY <2>1, <4>1, <4>2 DEF TypeOK
      <4>3. CASE languageClient # with[p]
        <5>1. opened[languageClient] = NoText BY <2>1, <3>1, <4>3 DEF DocumentInv
        <5>2. QED BY <2>1, <4>1, <4>3, <5>1 DEF TypeOK
      <4>4. QED BY <4>1, <4>2, <4>3
    <3>2. QED BY <3>1
  <2>4. wanted'[p] \in Texts BY <2>1 DEF DocumentInv
  <2>5. \A q \in Fetchers : fetchAt'[q] # "none" => wanted'[q] \in Texts
    BY <2>1, <2>4 DEF DocumentInv
  <2>6. QED BY <1>0, <2>1, <2>2, <2>3, <2>5 DEF DocumentInv
<1>3. CASE SendRequest(p)
  <2>1. /\ fetchAt[p] = "asking" /\ UNCHANGED <<wanted, opened, with>>
        /\ fetchAt'[p] = "asked" /\ \A q \in Fetchers : q # p => fetchAt'[q] = fetchAt[q]
    BY <1>3 DEF SendRequest, TypeOK, serverVars, fetchVars
  <2>2. QED BY <1>0, <2>1 DEF DocumentInv
<1>4. CASE FetchReturns(p)
  <2>1. /\ UNCHANGED opened /\ fetchAt'[p] = "none"
        /\ \A q \in Fetchers : q # p =>
             fetchAt'[q] = fetchAt[q] /\ with'[q] = with[q] /\ wanted'[q] = wanted[q]
    BY <1>4 DEF FetchReturns, TypeOK, serverVars
  <2>2. QED BY <1>0, <2>1 DEF DocumentInv
<1>5. CASE \E words \in Texts : Fetch(p, words)
  <2>1. /\ UNCHANGED <<opened, with>> /\ fetchAt'[p] = "queued" /\ wanted'[p] \in Texts
        /\ \A q \in Fetchers : q # p => fetchAt'[q] = fetchAt[q] /\ wanted'[q] = wanted[q]
    BY <1>5 DEF Fetch, TypeOK, serverVars
  <2>2. QED BY <1>0, <2>1 DEF DocumentInv
<1>6. QED BY <1>1, <1>2, <1>3, <1>4, <1>5

-----------------------------------------------------------------------------
(* Theorems *)

\* The invariant holds before the first call ...
LEMMA InitInv == Init => IInv
<1> SUFFICES ASSUME Init PROVE IInv
  OBVIOUS
<1>1. ClientInv BY InitClients
<1>2. /\ fetchQueue = <<>> /\ queue = <<>> /\ holder = Nobody
      /\ \A p \in Fetchers : fetchAt[p] = "none"
  BY DEF Init
<1>3. Places = {} /\ Waiting = {} /\ Nobody \notin Fetchers
  BY <1>2, ClientAssumption DEF Places, Waiting, Callers
<1>4. OrderInv BY <1>2, <1>3 DEF OrderInv
<1>5. CallInv BY <1>2, <1>3 DEF CallInv
<1>6. DocumentInv BY <1>2 DEF DocumentInv
<1>7. QED BY <1>1, <1>4, <1>5, <1>6 DEF IInv

\* ... and after every step.
LEMMA StepInv == IInv /\ [Next]_vars => IInv'
<1> SUFFICES ASSUME IInv, [Next]_vars PROVE IInv'
  OBVIOUS
<1> USE DEF IInv
<1>1. CASE Grant BY <1>1, GrantClients, GivenCalls, GivenDocument
<1>2. CASE CreateBegins BY <1>2, CreateBeginsClients, CreateBeginsCalls, OtherDocument
<1>3. CASE StartSucceeds BY <1>3, StartSucceedsClients, GivenCalls, GivenDocument
<1>4. CASE StartFails BY <1>4, StartFailsClients, StartFailsCalls, OtherDocument
<1>5. ASSUME NEW r \in Restarts, Restart(r) PROVE IInv'
  BY <1>5, RestartClients, RestartCalls, OtherDocument
<1>6. ASSUME NEW k \in Clients, Crash(k) \/ Consent(k) \/ Recovers(k) \/ StopEnds(k)
      PROVE  IInv'
  BY <1>6, ServerStepClients, ServerStepCalls, ServerStepDocument
<1>7. ASSUME NEW p \in Fetchers, FetchBegins(p) PROVE IInv'
  <2>1. /\ fetchAt[p] = "queued" /\ UNCHANGED <<holder, fetchQueue>>
        /\ Asks(p, "client", "opening") /\ Head(fetchQueue) = p
    BY <1>7 DEF FetchBegins, fetchVars, MayFetch
  <2>2. fetchQueue # <<>> /\ fetchQueue[1] = p
    <3>1. \E i \in Places : fetchQueue[i] = p BY <2>1 DEF OrderInv
    <3>2. QED BY <2>1, <3>1 DEF Places, ClientInv, TypeOK
  <2>3. CallInv' /\ OrderInv' BY <2>1, <2>2, AsksCalls
  <2>4. QED BY <1>7, <2>3, FetchStepClients, FetchStepDocument
<1>8. ASSUME NEW p \in Fetchers, SendOpen(p) PROVE IInv'
  <2>1. /\ fetchAt[p] = "opening" /\ UNCHANGED <<holder, fetchQueue>>
        /\ Asks(p, "again", "asking")
    BY <1>8 DEF SendOpen, fetchVars
  <2>2. fetchQueue # <<>> /\ fetchQueue[1] = p BY <2>1 DEF OrderInv
  <2>3. CallInv' /\ OrderInv' BY <2>1, <2>2, AsksCalls
  <2>4. QED BY <1>8, <2>3, FetchStepClients, FetchStepDocument
<1>9. ASSUME NEW p \in Fetchers, SendRequest(p) PROVE IInv'
  <2>1. /\ fetchAt[p] = "asking" /\ UNCHANGED <<holder, queue, fetchQueue>>
        /\ fetchAt' = [fetchAt EXCEPT ![p] = "asked"]
    BY <1>9 DEF SendRequest, fetchVars, mutexVars
  <2>2. \A q \in Fetchers : fetchAt'[q] = fetchAt[q]
                            \/ (fetchAt[q] = "asking" /\ fetchAt'[q] = "asked")
    BY <2>1 DEF ClientInv, TypeOK
  <2>3. OrderInv' BY <2>1, <2>2, OrderKept
  <2>4. CallInv' BY <2>1, <2>2 DEF CallInv, Waiting
  <2>5. QED BY <1>9, <2>3, <2>4, FetchStepClients, FetchStepDocument
<1>10. ASSUME NEW p \in Fetchers, FetchReturns(p) PROVE IInv'
  BY <1>10, ReturnCalls, FetchStepClients, FetchStepDocument
<1>11. ASSUME NEW p \in Fetchers, NEW words \in Texts, Fetch(p, words) PROVE IInv'
  BY <1>11, FetchCalls, FetchStepClients, FetchStepDocument
<1>12. CASE UNCHANGED vars
  <2>1. UNCHANGED <<languageClient, holder, starting, queue, life, crashes, opened, restartAt,
                    fetchQueue, wanted, answer, fetchAt, with, refused>>
    BY <1>12 DEF vars, mutexVars, serverVars, fetchVars
  <2>2. ClientInv'
    BY <2>1 DEF ClientInv, TypeOK, CreateInv, ServerInv, OpenedInv
  <2>3. QED BY <2>1, <2>2 DEF OrderInv, Places, CallInv, Waiting, DocumentInv
<1>13. QED
  BY <1>1, <1>2, <1>3, <1>4, <1>5, <1>6, <1>7, <1>8, <1>9, <1>10, <1>11, <1>12 DEF Next

\* Every reachable state is well typed, for any callers, texts and bounds.
THEOREM TypeCorrect == Spec => []TypeOK
<1>1. IInv => TypeOK BY DEF IInv, ClientInv
<1>2. QED BY InitInv, StepInv, <1>1, PTL DEF Spec

\* A restart leaves no server behind that works, but for one that could not be
\* stopped: for any number of restarts, clients and crashes.
THEOREM OneServerWorks == Spec => []OneServer
<1>1. IInv => OneServer BY DEF IInv, ClientInv, ServerInv, OneServer
<1>2. QED BY InitInv, StepInv, <1>1, PTL DEF Spec

\* A call of fetchTests begins at the end of the queue, with its text.
LEMMA FetchAsks ==
    ASSUME IInv, NEW p \in Fetchers, NEW words \in Texts, Fetch(p, words)
    PROVE  Promise!Ask(p, words) /\ UNCHANGED answer
<1> USE DEF IInv, ClientInv
<1> DEFINE calls == [n \in 1..Len(fetchQueue) |-> <<fetchQueue[n], wanted[fetchQueue[n]]>>]
<1>1. /\ fetchQueue' = Append(fetchQueue, p) /\ wanted' = [wanted EXCEPT ![p] = words]
      /\ fetchAt[p] = "none" /\ UNCHANGED answer
  BY DEF Fetch
<1>2. /\ Len(fetchQueue) \in Nat /\ Len(fetchQueue') = Len(fetchQueue) + 1
      /\ fetchQueue'[Len(fetchQueue) + 1] = p /\ wanted'[p] = words
      /\ \A n \in 1..Len(fetchQueue) :
           fetchQueue'[n] = fetchQueue[n] /\ wanted'[fetchQueue[n]] = wanted[fetchQueue[n]]
  BY <1>1 DEF TypeOK, OrderInv, Places
<1>3. calls \in Seq(Fetchers \X (Texts \cup {NoText})) /\ Len(calls) = Len(fetchQueue)
  <2>1. \A n \in 1..Len(fetchQueue) :
          <<fetchQueue[n], wanted[fetchQueue[n]]>> \in Fetchers \X (Texts \cup {NoText})
    BY DEF TypeOK
  <2>2. QED BY <1>2, <2>1
<1>4. calls' = Append(calls, <<p, words>>)
  BY <1>2, <1>3
<1>5. QED BY <1>1, <1>4 DEF Promise!Ask

\* The first fetch of the queue returns, with the tests of its own text.
LEMMA FetchReturnsOwn ==
    ASSUME IInv, NEW p \in Fetchers, FetchReturns(p)
    PROVE  \E words \in Texts :
               Promise!Return(p, words) /\ answer' = [answer EXCEPT ![p] = words]
<1> USE DEF IInv, ClientInv
<1> DEFINE calls == [n \in 1..Len(fetchQueue) |-> <<fetchQueue[n], wanted[fetchQueue[n]]>>]
<1>1. PICK words \in Texts : /\ Answers(p, words) \/ Fails(p, words)
                            /\ answer' = [answer EXCEPT ![p] = words]
  BY DEF FetchReturns
<1>2. words = wanted[p]
  <2>1. CASE Answers(p, words)
    BY <2>1 DEF Answers, DocumentInv
  <2>2. CASE Fails(p, words)
    BY <2>2 DEF Fails
  <2>3. QED BY <1>1, <2>1, <2>2
<1>3. /\ fetchQueue' = Tail(fetchQueue) /\ wanted' = [wanted EXCEPT ![p] = NoText]
      /\ fetchQueue # <<>> /\ fetchQueue[1] = p /\ Len(fetchQueue) \in Nat \ {0}
      /\ Len(fetchQueue') = Len(fetchQueue) - 1
      /\ \A n \in 1..Len(fetchQueue') :
           fetchQueue'[n] = fetchQueue[n + 1] /\ fetchQueue[n + 1] # p
  <2>1. /\ fetchQueue # <<>> /\ fetchQueue[1] = p /\ Len(fetchQueue') = Len(fetchQueue) - 1
        /\ \A n \in Places' : fetchQueue'[n] = fetchQueue[n + 1] /\ fetchQueue[n + 1] # p
    BY ReturnOrder
  <2>2. fetchQueue' = Tail(fetchQueue) /\ wanted' = [wanted EXCEPT ![p] = NoText]
    BY DEF FetchReturns
  <2>3. Len(fetchQueue) \in Nat \ {0}
    BY <2>1 DEF TypeOK
  <2>4. QED BY <2>1, <2>2, <2>3 DEF Places
<1>4. calls \in Seq(Fetchers \X (Texts \cup {NoText})) /\ Len(calls) = Len(fetchQueue)
  <2>1. \A n \in 1..Len(fetchQueue) :
          <<fetchQueue[n], wanted[fetchQueue[n]]>> \in Fetchers \X (Texts \cup {NoText})
    BY DEF TypeOK
  <2>2. QED BY <1>3, <2>1
<1>5. calls # <<>> /\ Head(calls) = <<p, words>>
  BY <1>2, <1>3, <1>4
<1>6. calls' = Tail(calls)
  <2>1. \A n \in 1..Len(fetchQueue') :
          /\ wanted'[fetchQueue'[n]] = wanted[fetchQueue[n + 1]]
          /\ n + 1 \in 1..Len(fetchQueue)
    BY <1>3 DEF TypeOK
  <2>2. Tail(calls) = [n \in 1..(Len(fetchQueue) - 1) |-> calls[n + 1]]
    <3>1. Tail(calls) = [n \in 1..(Len(calls) - 1) |-> calls[n + 1]]
      OBVIOUS
    <3>2. QED BY <1>4, <3>1
  <2>3. QED BY <1>3, <2>1, <2>2
<1>7. QED BY <1>1, <1>5, <1>6 DEF Promise!Return

\* Every other step is one that FetchTests does not see.
LEMMA StepKeepsPromise ==
    IInv /\ [Next]_vars => [Promise!Next]_<<[n \in 1..Len(fetchQueue) |->
                                               <<fetchQueue[n], wanted[fetchQueue[n]]>>], answer>>
<1> SUFFICES ASSUME IInv, [Next]_vars,
                    ~ UNCHANGED <<[n \in 1..Len(fetchQueue) |->
                                      <<fetchQueue[n], wanted[fetchQueue[n]]>>], answer>>
             PROVE  Promise!Next
  OBVIOUS
<1>1. ~ UNCHANGED <<fetchQueue, wanted, answer>>
  OBVIOUS
<1>2. \E p \in Fetchers : FetchReturns(p) \/ \E words \in Texts : Fetch(p, words)
  BY <1>1 DEF Next, Grant, CreateBegins, StartSucceeds, StartFails, Restart, Crash, Consent,
     Recovers, StopEnds, FetchBegins, SendOpen, SendRequest, vars, fetchVars
<1>3. PICK p \in Fetchers : FetchReturns(p) \/ \E words \in Texts : Fetch(p, words)
  BY <1>2
<1>4. CASE FetchReturns(p)
  BY <1>4, FetchReturnsOwn DEF Promise!Next
<1>5. CASE \E words \in Texts : Fetch(p, words)
  BY <1>5, FetchAsks DEF Promise!Next
<1>6. QED BY <1>3, <1>4, <1>5

\* fetchTests keeps its promise, whoever calls it, whichever server answers and
\* however often clients crash and are restarted.
THEOREM Implements == Spec => AnswersAreOwn
<1>1. Init => Promise!Init
  <2>1. ASSUME Init PROVE Promise!Init
    <3>1. fetchQueue = <<>> /\ answer = [p \in Fetchers |-> NoText]
      BY <2>1 DEF Init
    <3>2. QED BY <3>1 DEF Promise!Init
  <2>2. QED BY <2>1
<1>2. QED
  BY <1>1, InitInv, StepInv, StepKeepsPromise, PTL DEF Spec, AnswersAreOwn, Promise!Spec

-----------------------------------------------------------------------------
(* TestRun *)

\* The bundles that are still to run are of the current project file, and nothing
\* runs before the run has begun.
PhaseInv ==
    /\ todo \subseteq (IF project = 0 THEN {} ELSE DOMAIN Plan[project])
    /\ phase \in {"asked", "parent", "unit", "build"} => todo = {}
    /\ phase = "build" => project > 0
    /\ phase \in {"asked", "dropped"} => xc = "none"

\* A test is in mapTests until it is reported, and out of it for good.
PendingInv ==
    /\ phase \in {"asked", "dropped"} => \A t \in Tests : reports[t] = <<>>
    /\ phase \notin {"asked", "dropped"} => \A t \in Tests : t \in pending \/ reports[t] # <<>>
    /\ \A t \in pending : reports[t] = <<>>
    /\ phase = "ended" => pending = {}

\* A line of the output, or a result on disk, is that of a test that ran.
LineInv ==
    /\ \A i \in DOMAIN out : out[i] # NoTest => out[i].result \in ToSet(runs[out[i].test])
    /\ \A t \in onDisk : runs[t] # <<>>

\* What is told after the first report of a test.
TailInv == \A t \in Tests : \A i \in 2..Len(reports[t]) : reports[t][i] = "failed"

RunInv == RunTypeOK /\ PhaseInv /\ PendingInv /\ LineInv /\ TailInv /\ PassedIsTrue

Words == {"passed", "failed", "skipped"}

\* Why a test may be reported as passed.
Accounted(t) ==
    "passed" \in ToSet(runs[t]) \/ NameSays[t] = "passed" \/ "silent" \in ToSet(runs[t])

\* What may be told of the tests in one step.
Truthful(told) ==
    /\ told \in [Tests -> Seq(Words)]
    /\ \A t \in Tests :
         /\ told[t] # <<>> => t \in pending
         /\ \A i \in 2..Len(told[t]) : told[t][i] = "failed"
         /\ "passed" \in ToSet(told[t]) => Accounted(t)

-----------------------------------------------------------------------------
(* The sequences of a run *)

\* The elements of a concatenation.
LEMMA ToSetConcat ==
  ASSUME NEW S, NEW s \in Seq(S), NEW t \in Seq(S)
  PROVE  ToSet(s \o t) = ToSet(s) \cup ToSet(t)
<1>1. /\ Len(s) \in Nat /\ Len(t) \in Nat
      /\ DOMAIN s = 1..Len(s) /\ DOMAIN t = 1..Len(t)
      /\ DOMAIN (s \o t) = 1..(Len(s) + Len(t))
      /\ \A i \in 1..(Len(s) + Len(t)) :
           (s \o t)[i] = IF i <= Len(s) THEN s[i] ELSE t[i - Len(s)]
  BY ConcatProperties, LenProperties
<1>2. ASSUME NEW i \in DOMAIN s PROVE i \in DOMAIN (s \o t) /\ (s \o t)[i] = s[i]
  BY <1>1
<1>3. ASSUME NEW i \in DOMAIN t
      PROVE  Len(s) + i \in DOMAIN (s \o t) /\ (s \o t)[Len(s) + i] = t[i]
  BY <1>1
<1>4. ASSUME NEW i \in DOMAIN (s \o t) PROVE (s \o t)[i] \in ToSet(s) \cup ToSet(t)
  <2>1. CASE i <= Len(s)
    BY <1>1, <2>1 DEF ToSet
  <2>2. CASE i > Len(s)
    <3>1. i - Len(s) \in DOMAIN t /\ (s \o t)[i] = t[i - Len(s)]
      BY <1>1, <2>2
    <3> QED BY <3>1 DEF ToSet
  <2> QED BY <1>1, <2>1, <2>2
<1>5. ToSet(s \o t) \subseteq ToSet(s) \cup ToSet(t)
  BY <1>4, Zenon DEF ToSet
<1>6. ToSet(s) \subseteq ToSet(s \o t)
  BY <1>2, Zenon DEF ToSet
<1>7. ToSet(t) \subseteq ToSet(s \o t)
  BY <1>3, Zenon DEF ToSet
<1> QED BY <1>5, <1>6, <1>7, Zenon

\* The elements of a sequence that has grown by one.
LEMMA ToSetAppend ==
  ASSUME NEW S, NEW s \in Seq(S), NEW e \in S
  PROVE  ToSet(Append(s, e)) = ToSet(s) \cup {e}
<1>1. PICK u : u = <<e>>
  OBVIOUS
<1>2. u \in Seq(S) /\ ToSet(u) = {e} /\ Append(s, e) = s \o u
  BY <1>1 DEF ToSet
<1>3. ToSet(s \o u) = ToSet(s) \cup ToSet(u)
  BY <1>2, ToSetConcat
<1> QED BY <1>2, <1>3, Zenon

-----------------------------------------------------------------------------
(* What is told of a test *)

\* A report is the first one of its test, and takes it from mapTests.
LEMMA ReportKeeps ==
  ASSUME RunTypeOK, PendingInv, TailInv, PassedIsTrue, phase \notin {"asked", "dropped"},
         NEW told, Truthful(told), Report(told), runs' = runs
  PROVE  /\ reports' \in [Tests -> Seq(Words)] /\ pending' \in SUBSET Tests
         /\ \A t \in Tests : t \in pending' \/ reports'[t] # <<>>
         /\ \A t \in pending' : reports'[t] = <<>>
         /\ TailInv' /\ PassedIsTrue'
         /\ \A t \in Tests : reports[t] # <<>> => reports'[t] = reports[t]
<1>1. /\ reports' = [t \in Tests |-> reports[t] \o told[t]]
      /\ pending' = {t \in pending : told[t] = <<>>}
  BY DEF Report
<1>2. ASSUME NEW t \in Tests
      PROVE  /\ reports[t] \in Seq(Words) /\ told[t] \in Seq(Words)
             /\ told[t] # <<>> => t \in pending /\ reports[t] = <<>>
             /\ t \in pending => reports[t] = <<>>
             /\ t \in pending \/ reports[t] # <<>>
  BY DEF RunTypeOK, Truthful, PendingInv, Words
<1>3. ASSUME NEW t \in Tests, told[t] = <<>> PROVE reports'[t] = reports[t]
  BY <1>1, <1>2, <1>3, ConcatEmptySeq
<1>4. ASSUME NEW t \in Tests, told[t] # <<>> PROVE reports'[t] = told[t]
  BY <1>1, <1>2, <1>4, ConcatEmptySeq
<1>5. reports' \in [Tests -> Seq(Words)] /\ pending' \in SUBSET Tests
  BY <1>1, <1>2, ConcatProperties DEF RunTypeOK
<1>6. \A t \in Tests : t \in pending' \/ reports'[t] # <<>>
  BY <1>1, <1>2, <1>3, <1>4
<1>7. \A t \in pending' : reports'[t] = <<>>
  BY <1>1, <1>2, <1>3 DEF RunTypeOK
<1>8. TailInv'
  BY <1>3, <1>4 DEF TailInv, Truthful
<1>9. PassedIsTrue'
  <2> SUFFICES ASSUME NEW t \in Tests, "passed" \in ToSet(reports'[t]) PROVE Accounted(t)
    BY DEF PassedIsTrue, Accounted
  <2>1. CASE told[t] = <<>>
    BY <1>3, <2>1 DEF PassedIsTrue, Accounted
  <2>2. CASE told[t] # <<>>
    BY <1>4, <2>2 DEF Truthful
  <2> QED BY <2>1, <2>2
<1>10. \A t \in Tests : reports[t] # <<>> => reports'[t] = reports[t]
  BY <1>2, <1>3
<1> QED BY <1>5, <1>6, <1>7, <1>8, <1>9, <1>10

\* What the bundles say of a test: its last result, if it has one.
LEMMA BundleTells ==
  ASSUME RunTypeOK, LineInv, NEW t \in Tests
  PROVE  /\ BundleReports(t) \in Seq(Words) /\ Len(BundleReports(t)) \in {0, 1}
         /\ BundleReports(t) # <<>> => t \in pending
         /\ "passed" \in ToSet(BundleReports(t)) => Accounted(t)
<1>1. CASE ~(Known(t) /\ t \in onDisk)
  BY <1>1 DEF BundleReports, ToSet
<1>2. CASE Known(t) /\ t \in onDisk
  <2>1. /\ BundleReports(t) = <<ResultOf(t)>> /\ t \in pending
        /\ ResultOf(t) \in {"passed", "failed"}
    BY <1>2 DEF BundleReports, ResultOf, Known
  <2>2. ToSet(<<ResultOf(t)>>) = {ResultOf(t)}
    BY DEF ToSet
  <2>3. ASSUME ResultOf(t) = "passed" PROVE "passed" \in ToSet(runs[t])
    <3>1. runs[t] \in Seq(Results) /\ runs[t] # <<>>
      BY <1>2 DEF RunTypeOK, LineInv
    <3>2. Len(runs[t]) \in DOMAIN runs[t]
      BY <3>1, EmptySeq, LenProperties
    <3>3. runs[t][Len(runs[t])] = "passed"
      BY <2>3 DEF ResultOf, Last
    <3> QED BY <3>2, <3>3 DEF ToSet
  <2> QED BY <2>1, <2>2, <2>3 DEF Words, Accounted
<1> QED BY <1>1, <1>2

\* The bundles, whether they can be read or not, tell the truth; at the end of the
\* run something is told of every test that is left.
LEMMA BundlesTell ==
  ASSUME RunTypeOK, LineInv, NEW last \in BOOLEAN, ReadBundles(last)
  PROVE  \E told : /\ Truthful(told) /\ Report(told)
                   /\ last => \A t \in pending : told[t] # <<>>
<1>1. \A t \in Tests : /\ Skipped(t) \in Seq(Words) /\ Len(Skipped(t)) \in {0, 1}
                       /\ Skipped(t) # <<>> <=> t \in pending
                       /\ "passed" \notin ToSet(Skipped(t))
  <2> SUFFICES ASSUME NEW t \in Tests
               PROVE  /\ Skipped(t) \in Seq(Words) /\ Len(Skipped(t)) \in {0, 1}
                      /\ Skipped(t) # <<>> <=> t \in pending
                      /\ "passed" \notin ToSet(Skipped(t))
    OBVIOUS
  <2>1. CASE t \in pending
    <3>1. Skipped(t) = <<"skipped">> /\ ToSet(<<"skipped">>) = {"skipped"}
      BY <2>1 DEF Skipped, ToSet
    <3> QED BY <2>1, <3>1 DEF Words
  <2>2. CASE t \notin pending
    <3>1. Skipped(t) = <<>> /\ ToSet(<<>>) = {}
      BY <2>2 DEF Skipped, ToSet
    <3> QED BY <2>2, <3>1
  <2> QED BY <2>1, <2>2
<1>2. pending \subseteq Tests
  BY DEF RunTypeOK
<1>3. CASE Report([t \in Tests |-> IF BundleReports(t) = <<>> /\ last THEN Skipped(t)
                                   ELSE BundleReports(t)])
  <2>1. PICK told : told = [t \in Tests |-> IF BundleReports(t) = <<>> /\ last THEN Skipped(t)
                                            ELSE BundleReports(t)]
    OBVIOUS
  <2>2. Truthful(told)
    BY <1>1, <2>1, BundleTells DEF Truthful
  <2> QED BY <1>1, <1>2, <1>3, <2>1, <2>2
<1>4. CASE Report([t \in Tests |-> IF last THEN Skipped(t) ELSE <<>>])
  <2>1. PICK told : told = [t \in Tests |-> IF last THEN Skipped(t) ELSE <<>>]
    OBVIOUS
  <2>2. Truthful(told)
    BY <1>1, <2>1 DEF Truthful, ToSet
  <2> QED BY <1>1, <1>2, <1>4, <2>1, <2>2
<1> QED BY <1>3, <1>4 DEF ReadBundles

\* The end that a match is read at is its own line, or the test said nothing.
LEMMA VerdictIsOwn ==
  ASSUME RunTypeOK, LineInv, NEW lines, NEW n \in DOMAIN out, lines = SubSeq(out, 1, n),
         NEW p \in Matched(lines), Verdict(lines, p) = "passed"
  PROVE  Accounted(lines[p].test)
<1>1. /\ n \in Nat /\ DOMAIN lines = 1..n
      /\ \A i \in 1..n : i \in DOMAIN out /\ lines[i] = out[i]
  BY SubSeqProperties, LenProperties DEF RunTypeOK
<1>2. p \in 1..n /\ EndOf(lines, p) # {} /\ lines[p].test \in Tests
  BY <1>1 DEF Matched, Starts
<1>3. PICK q : q = CHOOSE r \in EndOf(lines, p) : TRUE
  OBVIOUS
<1>4. q \in EndOf(lines, p)
  BY <1>2, <1>3
<1>5. /\ q \in 1..n /\ q >= p
      /\ \A r \in p..(q - 1) : lines[r].result = "silent"
  BY <1>1, <1>4 DEF EndOf
<1>6. ReadAs(lines[q]) = "passed"
  BY <1>3 DEF Verdict
<1>7. ASSUME NEW i \in 1..n, lines[i].result # "suite"
      PROVE  lines[i].result \in ToSet(runs[lines[i].test])
  <2>1. i \in DOMAIN out /\ lines[i] = out[i] /\ out[i].result # "suite"
    BY <1>1, <1>7
  <2>2. out[i] # NoTest
    BY <2>1 DEF NoTest
  <2> QED BY <2>1, <2>2 DEF LineInv
<1>8. CASE q = p
  BY <1>2, <1>5, <1>6, <1>7, <1>8 DEF ReadAs, Accounted
<1>9. CASE q # p
  <2>1. lines[p].result = "silent"
    BY <1>1, <1>2, <1>5, <1>9
  <2> QED BY <1>2, <1>7, <2>1 DEF Accounted
<1> QED BY <1>8, <1>9

\* A chunk of the output tells the truth of the tests it has lines of.
LEMMA ChunkTells ==
  ASSUME RunTypeOK, LineInv, NEW lines, NEW n \in DOMAIN out, lines = SubSeq(out, 1, n),
         NEW t \in Tests
  PROVE  /\ ChunkReports(lines, t) \in Seq(Words)
         /\ ChunkReports(lines, t) # <<>> => t \in pending
         /\ \A i \in 2..Len(ChunkReports(lines, t)) : ChunkReports(lines, t)[i] = "failed"
         /\ "passed" \in ToSet(ChunkReports(lines, t)) => Accounted(t)
<1> DEFINE own    == {p \in Matched(lines) : lines[p].test = t}
           passes == {p \in own : Verdict(lines, p) = "passed"}
           late   == {p \in own \ passes : \A q \in passes : p < q}
           first  == IF passes # {} THEN <<"passed">> ELSE <<>>
           rest   == [i \in 1..Cardinality(late) |-> "failed"]
<1>1. CASE ~Known(t)
  BY <1>1 DEF ChunkReports, ToSet
<1>2. CASE Known(t)
  <2>1. ChunkReports(lines, t) = first \o rest
    BY <1>2 DEF ChunkReports
  <2>2. late \subseteq 1..n /\ n \in Nat
    BY SubSeqProperties, LenProperties DEF Matched, Starts, RunTypeOK
  <2>3. PICK k \in Nat : k = Cardinality(late)
    <3>1. IsFiniteSet(1..n)
      BY <2>2, FS_Interval
    <3>2. IsFiniteSet(late)
      BY <2>2, <3>1, FS_Subset
    <3> QED BY <3>2, FS_CardinalityType
  <2>4. rest = [i \in 1..k |-> "failed"]
    BY <2>3
  <2>5. passes # {} => Accounted(t)
    BY VerdictIsOwn
  <2> HIDE DEF own, passes, late
  <2>6. /\ first \in Seq(Words) /\ Len(first) \in {0, 1}
        /\ ToSet(first) \subseteq {"passed"}
        /\ "passed" \in ToSet(first) => passes # {}
    <3>1. CASE passes = {}
      BY <3>1 DEF ToSet
    <3>2. CASE passes # {}
      <4>1. first = <<"passed">> /\ ToSet(<<"passed">>) = {"passed"}
        BY <3>2 DEF ToSet
      <4> QED BY <3>2, <4>1 DEF Words
    <3> QED BY <3>1, <3>2
  <2> HIDE DEF first, rest
  <2>7. /\ rest \in Seq(Words) /\ Len(rest) = k
        /\ ToSet(rest) \subseteq {"failed"}
        /\ \A i \in 1..k : rest[i] = "failed"
    BY <2>4 DEF ToSet, Words
  <2>8. first \o rest \in Seq(Words) /\ ToSet(first \o rest) = ToSet(first) \cup ToSet(rest)
    BY <2>6, <2>7, ConcatProperties, ToSetConcat
  <2>9. \A i \in 2..Len(first \o rest) : (first \o rest)[i] = "failed"
    BY <2>6, <2>7, ConcatProperties
  <2>10. t \in pending
    BY <1>2 DEF Known
  <2>11. "passed" \in ToSet(first \o rest) => Accounted(t)
    <3>1. "passed" \notin ToSet(rest)
      BY <2>7
    <3> QED BY <2>5, <2>6, <2>8, <3>1
  <2> QED BY <2>1, <2>8, <2>9, <2>10, <2>11, Zenon
<1> QED BY <1>1, <1>2

-----------------------------------------------------------------------------
(* The steps of a run *)

\* A chunk is reported, and what is behind its last match is kept.
LEMMA OutputKeeps ==
  ASSUME RunInv, NEW n \in DOMAIN out, Output(n)
  PROVE  /\ \E told : Truthful(told) /\ Report(told)
         /\ out' \in Seq([test : Tests, result : Results] \cup {NoTest})
         /\ \A i \in DOMAIN out' : \E j \in DOMAIN out : out'[i] = out[j]
<1>1. PICK lines : lines = SubSeq(out, 1, n)
  OBVIOUS
<1>2. /\ Report([t \in Tests |-> ChunkReports(lines, t)])
      /\ out' = SubSeq(out, n + 1 - Cardinality(Unmatched(lines)), Len(out))
  BY <1>1 DEF Output
<1>3. PICK told : told = [t \in Tests |-> ChunkReports(lines, t)]
  OBVIOUS
<1>4. Truthful(told)
  BY <1>1, <1>3, ChunkTells DEF Truthful, RunInv
<1>5. /\ out \in Seq([test : Tests, result : Results] \cup {NoTest})
      /\ Len(out) \in Nat /\ DOMAIN out = 1..Len(out) /\ n \in Nat /\ n <= Len(out)
  BY LenProperties DEF RunInv, RunTypeOK
<1>6. DOMAIN lines = 1..n
  BY <1>1, <1>5, SubSeqProperties, ElementOfSeq, LenProperties
<1>7. Cardinality(Unmatched(lines)) \in 0..n
  <2>1. Unmatched(lines) \subseteq 1..n
    BY <1>6 DEF Unmatched
  <2>2. IsFiniteSet(1..n) /\ Cardinality(1..n) = n
    BY <1>5, FS_Interval
  <2> QED BY <1>5, <2>1, <2>2, FS_Subset, FS_CardinalityType
<1>8. PICK k \in 1..(n + 1) : out' = SubSeq(out, k, Len(out))
  <2>1. PICK c \in 0..n : c = Cardinality(Unmatched(lines))
    BY <1>7
  <2>2. n + 1 - c \in 1..(n + 1) /\ out' = SubSeq(out, n + 1 - c, Len(out))
    BY <1>2, <1>5, <2>1
  <2> QED BY <2>2
<1>9. \A i \in k..Len(out) : out[i] \in [test : Tests, result : Results] \cup {NoTest}
  BY <1>5, <1>8, ElementOfSeq
<1>10. /\ out' \in Seq([test : Tests, result : Results] \cup {NoTest})
       /\ Len(out') = IF k <= Len(out) THEN Len(out) - k + 1 ELSE 0
       /\ \A i \in 1..(Len(out) - k + 1) : out'[i] = out[k + i - 1]
  BY <1>5, <1>8, <1>9, SubSeqProperties
<1>11. ASSUME NEW i \in DOMAIN out' PROVE \E j \in DOMAIN out : out'[i] = out[j]
  <2>1. i \in 1..(Len(out) - k + 1)
    BY <1>5, <1>8, <1>10, LenProperties
  <2>2. k + i - 1 \in DOMAIN out /\ out'[i] = out[k + i - 1]
    BY <1>5, <1>8, <1>10, <2>1
  <2> QED BY <2>2
<1> QED BY <1>2, <1>3, <1>4, <1>10, <1>11

\* No report, no result, no line of a test.
LEMMA HistoryKept ==
  ASSUME RunInv, UNCHANGED <<reports, runs, onDisk>>, out' \in {out, <<>>}
  PROVE  LineInv' /\ TailInv' /\ PassedIsTrue'
BY DEF RunInv, LineInv, TailInv, PassedIsTrue

\* Project files and bundles are numbered from one.
LEMMA PlanOK ==
  /\ Len(Plan) \in Nat /\ DOMAIN Plan = 1..Len(Plan)
  /\ \A p \in DOMAIN Plan :
       /\ DOMAIN Plan[p] \subseteq Nat
       /\ \A b \in DOMAIN Plan[p] : Plan[p][b] \subseteq Tests
<1>1. Len(Plan) \in Nat /\ DOMAIN Plan = 1..Len(Plan)
  BY PlanAssumption, LenProperties
<1>2. ASSUME NEW p \in DOMAIN Plan PROVE Plan[p] \in Seq(SUBSET Tests)
  BY <1>1, PlanAssumption, ElementOfSeq
<1>3. ASSUME NEW p \in DOMAIN Plan PROVE DOMAIN Plan[p] = 1..Len(Plan[p]) /\ Len(Plan[p]) \in Nat
  BY <1>2, LenProperties
<1>4. ASSUME NEW p \in DOMAIN Plan, NEW b \in DOMAIN Plan[p] PROVE Plan[p][b] \subseteq Tests
  BY <1>2, <1>3, ElementOfSeq
<1> QED BY <1>1, <1>3, <1>4

\* The steps that report nothing, and write nothing.
LEMMA ControlKeeps ==
  ASSUME RunInv,
         \/ Drop \/ StopRun \/ CancelCommand \/ ParentStarted \/ ParentFails \/ NextProject
         \/ BuildFails \/ NextBundle \/ Launched \/ LaunchFails \/ Interrupted \/ Close
         \/ ResolveParent \/ StartParent \/ TerminateParent \/ ResolveSession
         \/ (\E fate \in {"stray", "hung"} : Orphan(fate))
         \/ DebuggerReady \/ SessionDies \/ \E built \in SUBSET Bundles : Build(built)
  PROVE  RunInv'
<1>0. RunTypeOK /\ PhaseInv /\ PendingInv
  BY DEF RunInv
<1>1. CASE Drop
  <2>1. RunTypeOK'
    BY <1>0, <1>1 DEF Drop, tokenVars, reportVars, sessionVars, xcVars, RunTypeOK, Phases
  <2>2. PhaseInv' /\ PendingInv'
    BY <1>0, <1>1 DEF Drop, tokenVars, reportVars, sessionVars, xcVars, PhaseInv, PendingInv
  <2>3. UNCHANGED <<reports, runs, onDisk>> /\ out' \in {out, <<>>}
    BY <1>1 DEF Drop, tokenVars, reportVars, sessionVars, xcVars
  <2> QED BY <2>1, <2>2, <2>3, HistoryKept DEF RunInv
<1>2. CASE StopRun
  <2>1. RunTypeOK'
    <3>1. cancelled' \in BOOLEAN
      BY <1>0, <1>2 DEF StopRun, CancelContext, RunTypeOK
    <3>2. xc' \in {"none", "waiting", "running", "dying", "lost", "ended"}
      BY <1>0, <1>2 DEF StopRun, CancelContext, RunTypeOK
    <3> QED BY <1>0, <1>2, <3>1, <3>2 DEF StopRun, runVars, reportVars, sessionVars, RunTypeOK
  <2>2. PhaseInv' /\ PendingInv'
    BY <1>0, <1>2 DEF StopRun, CancelContext, runVars, reportVars, sessionVars, Over, PhaseInv, PendingInv
  <2>3. UNCHANGED <<reports, runs, onDisk>> /\ out' \in {out, <<>>}
    BY <1>2 DEF StopRun, CancelContext, runVars, reportVars, sessionVars, Over
  <2> QED BY <2>1, <2>2, <2>3, HistoryKept DEF RunInv
<1>3. CASE CancelCommand
  <2>1. RunTypeOK'
    BY <1>0, <1>3 DEF CancelCommand, CancelContext, runVars, reportVars, sessionVars, Over, RunTypeOK, Phases
  <2>2. PhaseInv' /\ PendingInv'
    BY <1>0, <1>3 DEF CancelCommand, CancelContext, runVars, reportVars, sessionVars, Over, PhaseInv, PendingInv
  <2>3. UNCHANGED <<reports, runs, onDisk>> /\ out' \in {out, <<>>}
    BY <1>3 DEF CancelCommand, CancelContext, runVars, reportVars, sessionVars, Over
  <2> QED BY <2>1, <2>2, <2>3, HistoryKept DEF RunInv
<1>4. CASE ParentStarted
  <2>1. RunTypeOK'
    BY <1>0, <1>4 DEF ParentStarted, tokenVars, reportVars, sessionVars, xcVars, RunTypeOK, Phases
  <2>2. PhaseInv' /\ PendingInv'
    BY <1>0, <1>4 DEF ParentStarted, tokenVars, reportVars, sessionVars, xcVars, PhaseInv, PendingInv
  <2>3. UNCHANGED <<reports, runs, onDisk>> /\ out' \in {out, <<>>}
    BY <1>4 DEF ParentStarted, tokenVars, reportVars, sessionVars, xcVars
  <2> QED BY <2>1, <2>2, <2>3, HistoryKept DEF RunInv
<1>5. CASE ParentFails
  <2>1. RunTypeOK'
    <3>1. cancelled' \in BOOLEAN
      BY <1>0, <1>5 DEF ParentFails, RunTypeOK
    <3>2. /\ parent' \in {parent, "none"}
          /\ out' \in Seq([test : Tests, result : Results] \cup {NoTest})
      BY <1>5 DEF ParentFails
    <3> QED BY <1>0, <1>5, <3>1, <3>2 DEF ParentFails, reportVars, RunTypeOK, Phases
  <2>2. PhaseInv' /\ PendingInv'
    BY <1>0, <1>5 DEF ParentFails, reportVars, PhaseInv, PendingInv
  <2>3. UNCHANGED <<reports, runs, onDisk>> /\ out' \in {out, <<>>}
    BY <1>5 DEF ParentFails, reportVars
  <2> QED BY <2>1, <2>2, <2>3, HistoryKept DEF RunInv
<1>6. CASE NextProject
  <2>1. RunTypeOK'
    BY <1>0, <1>6 DEF NextProject, Remaining, tokenVars, reportVars, sessionVars, xcVars, RunTypeOK, Phases
  <2>2. PhaseInv' /\ PendingInv'
    <3>1. project' # project => project' > 0 /\ project' \in DOMAIN Plan /\ phase' = "build"
      BY <1>0, <1>6, PlanOK DEF NextProject, Remaining, RunTypeOK
    <3>2. phase' = "build" => project' > 0
      BY <1>0, <1>6, PlanOK DEF NextProject, Remaining, RunTypeOK
    <3>3. todo = {} /\ todo' = {} /\ phase' \in {"closing", "build"} /\ phase = "unit"
      BY <1>0, <1>6 DEF NextProject, PhaseInv
    <3>4. PhaseInv'
      BY <3>2, <3>3 DEF PhaseInv
    <3>5. PendingInv'
      BY <1>0, <1>6, <3>3 DEF NextProject, reportVars, PendingInv
    <3> QED BY <3>4, <3>5
  <2>3. UNCHANGED <<reports, runs, onDisk>> /\ out' \in {out, <<>>}
    BY <1>6 DEF NextProject, Remaining, tokenVars, reportVars, sessionVars, xcVars
  <2> QED BY <2>1, <2>2, <2>3, HistoryKept DEF RunInv
<1>7. CASE BuildFails
  <2>1. RunTypeOK'
    BY <1>0, <1>7 DEF BuildFails, tokenVars, reportVars, sessionVars, xcVars, RunTypeOK, Phases
  <2>2. PhaseInv' /\ PendingInv'
    BY <1>0, <1>7 DEF BuildFails, tokenVars, reportVars, sessionVars, xcVars, PhaseInv, PendingInv
  <2>3. UNCHANGED <<reports, runs, onDisk>> /\ out' \in {out, <<>>}
    BY <1>7 DEF BuildFails, tokenVars, reportVars, sessionVars, xcVars
  <2> QED BY <2>1, <2>2, <2>3, HistoryKept DEF RunInv
<1>8. CASE NextBundle
  <2>1. RunTypeOK'
    <3>1. bundle' \in SUBSET Tests
      <4>1. bundle' = bundle \/ \E b \in todo : bundle' = Plan[project][b]
        BY <1>8 DEF NextBundle
      <4>2. bundle \in SUBSET Tests /\ project \in 0..Len(Plan)
        BY <1>0 DEF RunTypeOK
      <4>3. todo \subseteq IF project = 0 THEN {} ELSE DOMAIN Plan[project]
        BY <1>0 DEF PhaseInv
      <4> QED BY <4>1, <4>2, <4>3, PlanOK
    <3>2. todo' \in SUBSET Nat
      <4>1. todo' = todo \/ \E b \in todo : todo' = todo \ {b}
        BY <1>8 DEF NextBundle
      <4>2. todo \in SUBSET Nat
        BY <1>0 DEF RunTypeOK
      <4> QED BY <4>1, <4>2
    <3>3. /\ phase' \in Phases /\ session' \in {session, "asked"}
          /\ xc' \in {xc, "none"}
      BY <1>8 DEF NextBundle, Phases
    <3> QED BY <1>0, <1>8, <3>1, <3>2, <3>3 DEF NextBundle, tokenVars, reportVars, RunTypeOK
  <2>2. PhaseInv' /\ PendingInv'
    BY <1>0, <1>8 DEF NextBundle, tokenVars, reportVars, PhaseInv, PendingInv
  <2>3. UNCHANGED <<reports, runs, onDisk>> /\ out' \in {out, <<>>}
    BY <1>8 DEF NextBundle, tokenVars, reportVars
  <2> QED BY <2>1, <2>2, <2>3, HistoryKept DEF RunInv
<1>9. CASE Launched
  <2>1. RunTypeOK'
    BY <1>0, <1>9 DEF Launched, tokenVars, reportVars, sessionVars, RunTypeOK, Phases
  <2>2. PhaseInv' /\ PendingInv'
    BY <1>0, <1>9 DEF Launched, tokenVars, reportVars, sessionVars, PhaseInv, PendingInv
  <2>3. UNCHANGED <<reports, runs, onDisk>> /\ out' \in {out, <<>>}
    BY <1>9 DEF Launched, tokenVars, reportVars, sessionVars
  <2> QED BY <2>1, <2>2, <2>3, HistoryKept DEF RunInv
<1>10. CASE LaunchFails
  <2>1. RunTypeOK'
    BY <1>0, <1>10 DEF LaunchFails, reportVars, xcVars, RunTypeOK, Phases
  <2>2. PhaseInv' /\ PendingInv'
    BY <1>0, <1>10 DEF LaunchFails, reportVars, xcVars, PhaseInv, PendingInv
  <2>3. UNCHANGED <<reports, runs, onDisk>> /\ out' \in {out, <<>>}
    BY <1>10 DEF LaunchFails, reportVars, xcVars
  <2> QED BY <2>1, <2>2, <2>3, HistoryKept DEF RunInv
<1>11. CASE Interrupted
  <2>1. RunTypeOK'
    BY <1>0, <1>11 DEF Interrupted, tokenVars, reportVars, sessionVars, xcVars, RunTypeOK, Phases
  <2>2. PhaseInv' /\ PendingInv'
    BY <1>0, <1>11 DEF Interrupted, tokenVars, reportVars, sessionVars, xcVars, PhaseInv, PendingInv
  <2>3. UNCHANGED <<reports, runs, onDisk>> /\ out' \in {out, <<>>}
    BY <1>11 DEF Interrupted, tokenVars, reportVars, sessionVars, xcVars
  <2> QED BY <2>1, <2>2, <2>3, HistoryKept DEF RunInv
<1>12. CASE Close
  <2>1. RunTypeOK'
    BY <1>0, <1>12 DEF Close, tokenVars, reportVars, RunTypeOK, Phases
  <2>2. PhaseInv' /\ PendingInv'
    BY <1>0, <1>12 DEF Close, tokenVars, reportVars, PhaseInv, PendingInv
  <2>3. UNCHANGED <<reports, runs, onDisk>> /\ out' \in {out, <<>>}
    BY <1>12 DEF Close, tokenVars, reportVars
  <2> QED BY <2>1, <2>2, <2>3, HistoryKept DEF RunInv
<1>13. CASE ResolveParent \/ StartParent \/ TerminateParent
  <2>0. /\ parent' \in {"resolved", "orphan", "told", "open"}
        /\ UNCHANGED <<runVars, started, tokenVars, reportVars, session, xcVars, read>>
    BY <1>13 DEF ResolveParent, StartParent, TerminateParent, Resolved
  <2>1. RunTypeOK'
    BY <1>0, <2>0 DEF runVars, tokenVars, reportVars, xcVars, RunTypeOK, Phases
  <2>2. PhaseInv' /\ PendingInv'
    BY <1>0, <2>0 DEF runVars, tokenVars, reportVars, xcVars, PhaseInv, PendingInv
  <2>3. UNCHANGED <<reports, runs, onDisk>> /\ out' \in {out, <<>>}
    BY <2>0 DEF reportVars, xcVars
  <2> QED BY <2>1, <2>2, <2>3, HistoryKept DEF RunInv
<1>14. CASE ResolveSession
  <2>1. RunTypeOK'
    BY <1>0, <1>14 DEF ResolveSession, Resolved, runVars, tokenVars, reportVars, xcVars, RunTypeOK, Phases
  <2>2. PhaseInv' /\ PendingInv'
    BY <1>0, <1>14 DEF ResolveSession, Resolved, runVars, tokenVars, reportVars, xcVars, PhaseInv, PendingInv
  <2>3. UNCHANGED <<reports, runs, onDisk>> /\ out' \in {out, <<>>}
    BY <1>14 DEF ResolveSession, Resolved, runVars, tokenVars, reportVars, xcVars
  <2> QED BY <2>1, <2>2, <2>3, HistoryKept DEF RunInv
<1>15. CASE \E fate \in {"stray", "hung"} : Orphan(fate)
  <2>1. RunTypeOK'
    BY <1>0, <1>15 DEF Orphan, runVars, tokenVars, reportVars, xcVars, RunTypeOK, Phases
  <2>2. PhaseInv' /\ PendingInv'
    BY <1>0, <1>15 DEF Orphan, runVars, tokenVars, reportVars, xcVars, PhaseInv, PendingInv
  <2>3. UNCHANGED <<reports, runs, onDisk>> /\ out' \in {out, <<>>}
    BY <1>15 DEF Orphan, runVars, tokenVars, reportVars, xcVars
  <2> QED BY <2>1, <2>2, <2>3, HistoryKept DEF RunInv
<1>16. CASE DebuggerReady \/ SessionDies
  <2>1. RunTypeOK'
    BY <1>0, <1>16 DEF DebuggerReady, SessionDies, runVars, tokenVars, reportVars, sessionVars, xcVars, RunTypeOK, Phases
  <2>2. PhaseInv' /\ PendingInv'
    BY <1>0, <1>16 DEF DebuggerReady, SessionDies, runVars, tokenVars, reportVars, sessionVars, xcVars, PhaseInv, PendingInv
  <2>3. UNCHANGED <<reports, runs, onDisk>> /\ out' \in {out, <<>>}
    BY <1>16 DEF DebuggerReady, SessionDies, runVars, tokenVars, reportVars, sessionVars, xcVars
  <2> QED BY <2>1, <2>2, <2>3, HistoryKept DEF RunInv
<1>17. CASE \E built \in SUBSET Bundles : Build(built)
  <2>1. RunTypeOK'
    <3>1. project \in DOMAIN Plan
      BY <1>0, <1>17, PlanOK DEF Build, PhaseInv, RunTypeOK
    <3>2. todo' \in SUBSET Nat
      BY <1>17, <3>1, PlanOK DEF Build
    <3> QED BY <1>0, <1>17, <3>2 DEF Build, tokenVars, reportVars, sessionVars, xcVars, RunTypeOK,
               Phases
  <2>2. PhaseInv' /\ PendingInv'
    BY <1>0, <1>17 DEF Build, tokenVars, reportVars, sessionVars, xcVars, PhaseInv, PendingInv
  <2>3. UNCHANGED <<reports, runs, onDisk>> /\ out' \in {out, <<>>}
    BY <1>17 DEF Build, tokenVars, reportVars, sessionVars, xcVars
  <2> QED BY <2>1, <2>2, <2>3, HistoryKept DEF RunInv
<1> QED BY <1>1, <1>2, <1>3, <1>4, <1>5, <1>6, <1>7, <1>8, <1>9, <1>10, <1>11, <1>12, <1>13,
           <1>14, <1>15, <1>16, <1>17

\* A run begins with at most one word on each test.
LEMMA BeginKeeps == ASSUME RunInv, Begin PROVE RunInv'
<1>0. RunTypeOK /\ PhaseInv /\ PendingInv /\ LineInv
  BY DEF RunInv
<1>1. /\ started' = IF stopAsked THEN {} ELSE Tests \ Unparsed
      /\ pending' = started'
      /\ reports' = [t \in Tests |-> IF stopAsked THEN <<"skipped">>
                                     ELSE IF t \in Unparsed THEN <<"failed">> ELSE <<>>]
      /\ phase' = "parent" /\ parent' = "asked" /\ phase = "asked"
  BY DEF Begin
<1>2. ASSUME NEW t \in Tests
      PROVE  /\ reports'[t] \in {<<"skipped">>, <<"failed">>, <<>>}
             /\ t \in pending' <=> reports'[t] = <<>>
  BY <1>1
<1>3. reports' \in [Tests -> Seq({"passed", "failed", "skipped"})]
  <2> DEFINE Told == Seq({"passed", "failed", "skipped"})
  <2>1. <<"skipped">> \in Told /\ <<"failed">> \in Told /\ <<>> \in Told
    OBVIOUS
  <2> HIDE DEF Told
  <2>2. reports' \in [Tests -> Told]
    BY <1>1, <2>1
  <2> QED BY <2>2 DEF Told
<1>4. RunTypeOK'
  <2>1. cancelled' \in BOOLEAN
    BY <1>0 DEF Begin, RunTypeOK
  <2>2. started' \in SUBSET Tests /\ pending' \in SUBSET Tests
    BY <1>1
  <2> QED BY <1>0, <1>1, <1>3, <2>1, <2>2 DEF Begin, xcVars, RunTypeOK, Phases
<1>5. PhaseInv' /\ PendingInv'
  BY <1>0, <1>1, <1>2 DEF Begin, PhaseInv, PendingInv
<1>6. LineInv'
  BY <1>0 DEF Begin, xcVars, LineInv
<1>7. TailInv'
  BY <1>2 DEF TailInv
<1>8. PassedIsTrue'
  <2>1. \A t \in Tests : "passed" \notin ToSet(reports'[t])
    BY <1>2 DEF ToSet
  <2> QED BY <2>1 DEF PassedIsTrue
<1> QED BY <1>4, <1>5, <1>6, <1>7, <1>8 DEF RunInv

\* A report, during the run or at its end, keeps the invariant if the step keeps
\* what is not reported.
LEMMA ToldKeeps ==
  ASSUME RunInv, NEW told, Truthful(told), Report(told), phase \notin {"asked", "dropped"},
         phase' = "ended" => \A t \in pending : told[t] # <<>>,
         phase' \in Phases \ {"asked", "dropped"},
         phase' # phase => phase' \in {"session", "closing", "ended"},
         UNCHANGED <<started, stopAsked, cancelled, project, todo, bundle, parent, session, runs>>,
         xc' \in {xc, "lost"}, onDisk' \subseteq onDisk, read' \in SUBSET Tests,
         out' \in Seq([test : Tests, result : Results] \cup {NoTest}),
         \A i \in DOMAIN out' : \E j \in DOMAIN out : out'[i] = out[j]
  PROVE  RunInv'
<1>0. RunTypeOK /\ PhaseInv /\ PendingInv /\ LineInv /\ TailInv /\ PassedIsTrue
  BY DEF RunInv
<1>1. /\ reports' \in [Tests -> Seq(Words)] /\ pending' \in SUBSET Tests
      /\ \A t \in Tests : t \in pending' \/ reports'[t] # <<>>
      /\ \A t \in pending' : reports'[t] = <<>>
      /\ TailInv' /\ PassedIsTrue'
  BY <1>0, ReportKeeps
<1>2. RunTypeOK'
  BY <1>0, <1>1 DEF RunTypeOK, Words
<1>3. PhaseInv'
  BY <1>0 DEF PhaseInv
<1>4. PendingInv'
  <2>1. phase' = "ended" => pending' = {}
    BY DEF Report
  <2> QED BY <1>1, <2>1 DEF PendingInv
<1>5. LineInv'
  <2>1. ASSUME NEW i \in DOMAIN out', out'[i] # NoTest
        PROVE  out'[i].result \in ToSet(runs'[out'[i].test])
    BY <1>0, <2>1 DEF LineInv
  <2>2. \A t \in onDisk' : runs'[t] # <<>>
    BY <1>0 DEF LineInv
  <2> QED BY <2>1, <2>2 DEF LineInv
<1> QED BY <1>1, <1>2, <1>3, <1>4, <1>5 DEF RunInv

\* The three steps that report.
LEMMA ReportsKeep ==
  ASSUME RunInv, Collect \/ End \/ \E n \in DOMAIN out : Output(n)
  PROVE  RunInv' /\ \A t \in Tests : reports[t] # <<>> => reports'[t] = reports[t]
<1>0. RunTypeOK /\ PendingInv /\ LineInv /\ TailInv /\ PassedIsTrue
  BY DEF RunInv
<1>1. CASE Collect
  <2>1. PICK told : Truthful(told) /\ Report(told)
    BY <1>0, <1>1, BundlesTell DEF Collect
  <2>2. /\ phase \notin {"asked", "dropped"} /\ phase' \in {"session", "closing"}
        /\ UNCHANGED <<started, stopAsked, cancelled, project, todo, bundle, parent, session,
                       runs, out>>
        /\ xc' \in {xc, "lost"} /\ onDisk' = {}
    BY <1>1 DEF Collect, ClearBundles, tokenVars, sessionVars
  <2>3. read' \in SUBSET Tests
    BY <1>0, <1>1 DEF Collect, ReadBundles, RunTypeOK
  <2>4. out' \in Seq([test : Tests, result : Results] \cup {NoTest})
    BY <1>0, <2>2 DEF RunTypeOK
  <2>5. RunInv'
    BY <2>1, <2>2, <2>3, <2>4, ToldKeeps DEF Phases
  <2> QED BY <1>0, <2>1, <2>2, <2>5, ReportKeeps
<1>2. CASE End
  <2>1. PICK told : Truthful(told) /\ Report(told) /\ \A t \in pending : told[t] # <<>>
    BY <1>0, <1>2, BundlesTell DEF End
  <2>2. /\ phase \notin {"asked", "dropped"} /\ phase' = "ended"
        /\ UNCHANGED <<started, stopAsked, cancelled, project, todo, bundle, parent, session,
                       runs, out>>
        /\ xc' \in {xc, "lost"} /\ onDisk' = {}
    BY <1>2 DEF End, ClearBundles, tokenVars, sessionVars
  <2>3. read' \in SUBSET Tests
    BY <1>0, <1>2 DEF End, ReadBundles, RunTypeOK
  <2>4. out' \in Seq([test : Tests, result : Results] \cup {NoTest})
    BY <1>0, <2>2 DEF RunTypeOK
  <2>5. RunInv'
    BY <2>1, <2>2, <2>3, <2>4, ToldKeeps DEF Phases
  <2> QED BY <1>0, <2>1, <2>2, <2>5, ReportKeeps
<1>3. CASE \E n \in DOMAIN out : Output(n)
  <2>0. PICK n \in DOMAIN out : Output(n)
    BY <1>3
  <2>1. PICK told : Truthful(told) /\ Report(told)
    BY <2>0, OutputKeeps
  <2>2. /\ phase \notin {"asked", "dropped", "ended"} /\ phase' = phase
        /\ UNCHANGED <<started, stopAsked, cancelled, project, todo, bundle, parent, session,
                       runs, onDisk, read, xc>>
    BY <2>0 DEF Output, runVars, tokenVars, sessionVars, Over
  <2>3. phase' \in Phases /\ read' \in SUBSET Tests
    BY <1>0, <2>2 DEF RunTypeOK
  <2>4. /\ out' \in Seq([test : Tests, result : Results] \cup {NoTest})
        /\ \A i \in DOMAIN out' : \E j \in DOMAIN out : out'[i] = out[j]
    BY <2>0, OutputKeeps
  <2>5. RunInv'
    BY <2>1, <2>2, <2>3, <2>4, ToldKeeps
  <2> QED BY <1>0, <2>1, <2>2, <2>5, ReportKeeps
<1> QED BY <1>1, <1>2, <1>3

\* The ways xcodebuild comes to its end; what is complete goes to the disk.
LEMMA ExitKeeps ==
  ASSUME RunInv, XcodebuildExits \/ XcodebuildFails \/ XcodebuildDies
  PROVE  RunInv'
<1>0. RunTypeOK /\ PhaseInv /\ PendingInv /\ LineInv /\ TailInv /\ PassedIsTrue
  BY DEF RunInv
<1>1. /\ UNCHANGED <<started, stopAsked, cancelled, project, todo, bundle, parent, session,
                     pending, reports, runs, read>>
      /\ out' \in {out, Append(out, NoTest)}
      /\ xc' = "ended" /\ onDisk' \in {onDisk, onDisk \cup Finished}
      /\ phase' \in {phase, "collect", "abort"}
      /\ xc \in {"waiting", "running"} \/ phase' = phase
      /\ xc # "none"
  BY DEF XcodebuildExits, XcodebuildFails, XcodebuildDies, runVars, tokenVars, reportVars,
     sessionVars
<1>2. phase' \notin {"asked", "dropped"} => phase \notin {"asked", "dropped"}
  BY <1>0, <1>1 DEF PhaseInv
<1>3. RunTypeOK'
  <2>1. out' \in Seq([test : Tests, result : Results] \cup {NoTest})
    BY <1>0, <1>1 DEF RunTypeOK
  <2>2. onDisk' \in SUBSET Tests
    BY <1>0, <1>1 DEF RunTypeOK, Finished
  <2> QED BY <1>0, <1>1, <2>1, <2>2 DEF RunTypeOK, Phases
<1>4. PhaseInv' /\ PendingInv'
  <2>1. PhaseInv'
    <3>1. phase \notin {"asked", "dropped"}
      BY <1>0, <1>1 DEF PhaseInv
    <3>2. phase' \in {"collect", "abort"} \/ phase' = phase
      BY <1>1
    <3>3. todo' = todo /\ project' = project
      BY <1>1
    <3> QED BY <1>0, <3>1, <3>2, <3>3 DEF PhaseInv
  <2> QED BY <1>0, <1>1, <1>2, <2>1 DEF PendingInv
<1>5. LineInv'
  <2>1. ASSUME NEW i \in DOMAIN out', out'[i] # NoTest
        PROVE  i \in DOMAIN out /\ out'[i] = out[i]
    <3>1. out \in Seq([test : Tests, result : Results] \cup {NoTest})
      BY <1>0 DEF RunTypeOK
    <3> QED BY <1>1, <2>1, <3>1
  <2>2. \A t \in Finished : runs[t] # <<>>
    BY DEF Finished
  <2> QED BY <1>0, <1>1, <2>1, <2>2 DEF LineInv
<1>6. TailInv' /\ PassedIsTrue'
  BY <1>0, <1>1 DEF TailInv, PassedIsTrue
<1> QED BY <1>3, <1>4, <1>5, <1>6 DEF RunInv

\* A test that runs: its line is that of a result it has had.
LEMMA TestKeeps ==
  ASSUME RunInv, NEW t \in Tests, NEW result \in Results, NEW suite \in BOOLEAN,
         Test(t, result, suite)
  PROVE  RunInv'
<1>0. RunTypeOK /\ PhaseInv /\ PendingInv /\ LineInv /\ TailInv /\ PassedIsTrue
  BY DEF RunInv
<1> DEFINE Lines == [test : Tests, result : Results] \cup {NoTest}
<1>1. PICK line : line = [test |-> t, result |-> result]
  OBVIOUS
<1>2. PICK more : more = IF suite THEN <<NoTest>> ELSE <<>>
  OBVIOUS
<1>3. /\ runs' = [runs EXCEPT ![t] = Append(@, result)]
      /\ out' = out \o <<line>> \o more
      /\ UNCHANGED <<phase, project, todo, bundle, started, stopAsked, cancelled, pending,
                     reports, parent, session, xc, onDisk, read>>
  BY <1>1, <1>2 DEF Test, runVars, tokenVars, reportVars, sessionVars
<1>4. /\ out \in Seq(Lines) /\ <<line>> \in Seq(Lines) /\ more \in Seq(Lines)
      /\ runs \in [Tests -> Seq(Results)]
  <2>1. line \in Lines /\ NoTest \in Lines
    BY <1>1
  <2>2. /\ out \in Seq(Lines)
        /\ runs \in [Tests -> Seq(Results)]
    BY <1>0 DEF RunTypeOK
  <2> HIDE DEF Lines
  <2>3. <<line>> \in Seq(Lines) /\ <<NoTest>> \in Seq(Lines) /\ <<>> \in Seq(Lines)
    BY <2>1
  <2>4. more \in Seq(Lines)
    BY <1>2, <2>3
  <2> QED BY <2>2, <2>3, <2>4
<1>5. PICK fresh : fresh = <<line>> \o more
  OBVIOUS
<1>6. /\ fresh \in Seq(Lines)
      /\ \A i \in DOMAIN fresh : fresh[i] \in {line, NoTest}
  BY <1>2, <1>4, <1>5
<1>7. out' = out \o fresh
  BY <1>3, <1>4, <1>5, ConcatAssociative
<1>8. /\ out' \in Seq(Lines)
      /\ \A i \in DOMAIN out' : \/ i \in DOMAIN out /\ out'[i] = out[i]
                                \/ out'[i] \in {line, NoTest}
  <2> HIDE DEF Lines
  <2>1. /\ out' \in Seq(Lines) /\ Len(out') = Len(out) + Len(fresh)
        /\ \A i \in 1..(Len(out) + Len(fresh)) :
             out'[i] = IF i <= Len(out) THEN out[i] ELSE fresh[i - Len(out)]
    BY <1>4, <1>6, <1>7, ConcatProperties
  <2>2. /\ DOMAIN out' = 1..(Len(out) + Len(fresh)) /\ DOMAIN out = 1..Len(out)
        /\ DOMAIN fresh = 1..Len(fresh) /\ Len(out) \in Nat /\ Len(fresh) \in Nat
    BY <1>4, <1>6, <2>1, LenProperties
  <2>3. ASSUME NEW i \in DOMAIN out', i > Len(out) PROVE i - Len(out) \in DOMAIN fresh
    BY <2>2, <2>3
  <2>4. ASSUME NEW i \in DOMAIN out'
        PROVE  \/ i \in DOMAIN out /\ out'[i] = out[i]
               \/ out'[i] \in {line, NoTest}
    BY <1>6, <2>1, <2>2, <2>3
  <2> QED BY <2>1, <2>4
<1>9. /\ runs' \in [Tests -> Seq(Results)]
      /\ \A s \in Tests : ToSet(runs[s]) \subseteq ToSet(runs'[s])
      /\ result \in ToSet(runs'[t])
      /\ runs'[t] # <<>>
  <2>1. runs[t] \in Seq(Results) /\ runs'[t] = Append(runs[t], result)
    BY <1>3, <1>4
  <2>2. ToSet(runs'[t]) = ToSet(runs[t]) \cup {result}
    BY <2>1, ToSetAppend
  <2>3. \A s \in Tests : s # t => runs'[s] = runs[s]
    BY <1>3, <1>4
  <2>4. runs' \in [Tests -> Seq(Results)]
    BY <1>3, <1>4, <2>1
  <2>5. runs'[t] # <<>>
    BY <2>1
  <2> QED BY <2>2, <2>3, <2>4, <2>5
<1>10. RunTypeOK'
  BY <1>0, <1>3, <1>8, <1>9 DEF RunTypeOK
<1>11. PhaseInv' /\ PendingInv'
  BY <1>0, <1>3 DEF PhaseInv, PendingInv
<1>12. LineInv'
  <2>1. ASSUME NEW i \in DOMAIN out', out'[i] # NoTest
        PROVE  out'[i].result \in ToSet(runs'[out'[i].test])
    <3>1. CASE out'[i] = line
      BY <1>1, <1>9, <3>1
    <3>2. CASE i \in DOMAIN out /\ out'[i] = out[i]
      <4>1. out[i].test \in Tests /\ out[i].result \in ToSet(runs[out[i].test])
        BY <1>0, <1>4, <2>1, <3>2, ElementOfSeq, LenProperties DEF LineInv
      <4> QED BY <1>9, <3>2, <4>1
    <3> QED BY <1>8, <2>1, <3>1, <3>2
  <2>2. \A s \in onDisk' : runs'[s] # <<>>
    <3>1. \A s \in onDisk : s \in Tests /\ runs[s] # <<>>
      BY <1>0 DEF LineInv, RunTypeOK
    <3> QED BY <1>3, <1>4, <1>9, <3>1
  <2> QED BY <2>1, <2>2 DEF LineInv
<1>13. TailInv' /\ PassedIsTrue'
  BY <1>0, <1>3, <1>9 DEF TailInv, PassedIsTrue
<1> QED BY <1>10, <1>11, <1>12, <1>13 DEF RunInv

\* Nothing has been reported, and nothing has run.
LEMMA RunInitOK == RunInit => RunInv
<1> SUFFICES ASSUME RunInit PROVE RunInv
  OBVIOUS
<1>1. RunTypeOK
  <2>1. project \in 0..Len(Plan)
    BY PlanOK DEF RunInit
  <2>2. <<>> \in Seq({"passed", "failed", "skipped"}) /\ <<>> \in Seq(Results)
        /\ <<>> \in Seq([test : Tests, result : Results] \cup {NoTest})
    OBVIOUS
  <2>3. reports \in [Tests -> Seq({"passed", "failed", "skipped"})]
        /\ runs \in [Tests -> Seq(Results)]
    BY <2>2, Zenon DEF RunInit
  <2>4. out \in Seq([test : Tests, result : Results] \cup {NoTest})
    BY <2>2 DEF RunInit
  <2> QED BY <2>1, <2>3, <2>4 DEF RunInit, RunTypeOK, Phases
<1>2. PhaseInv /\ PendingInv /\ LineInv /\ TailInv
  BY DEF RunInit, PhaseInv, PendingInv, LineInv, TailInv
<1>3. PassedIsTrue
  BY DEF RunInit, PassedIsTrue, ToSet
<1> QED BY <1>1, <1>2, <1>3 DEF RunInv

\* Every step keeps the invariant, and has no more to tell of a test that was
\* reported.
LEMMA RunStep ==
  ASSUME RunInv, [RunNext]_testRunVars
  PROVE  /\ RunInv'
         /\ phase # "asked" => \A t \in Tests : reports[t] # <<>> => reports'[t] = reports[t]
<1> DEFINE Told == Collect \/ End \/ \E n \in DOMAIN out : Output(n)
           Exit == XcodebuildExits \/ XcodebuildFails \/ XcodebuildDies
           Tested == \E t \in Tests, result \in Results, suite \in BOOLEAN : Test(t, result, suite)
           Control ==
             \/ Drop \/ StopRun \/ CancelCommand \/ ParentStarted \/ ParentFails \/ NextProject
             \/ BuildFails \/ NextBundle \/ Launched \/ LaunchFails \/ Interrupted \/ Close
             \/ ResolveParent \/ StartParent \/ TerminateParent \/ ResolveSession
             \/ (\E fate \in {"stray", "hung"} : Orphan(fate))
             \/ DebuggerReady \/ SessionDies \/ \E built \in SUBSET Bundles : Build(built)
<1>1. CASE Told
  BY <1>1, ReportsKeep
<1>2. CASE Begin
  BY <1>2, BeginKeeps DEF Begin
<1>3. CASE Exit
  BY <1>3, ExitKeeps DEF XcodebuildExits, XcodebuildFails, XcodebuildDies, reportVars
<1>4. CASE Tested
  BY <1>4, TestKeeps DEF Test, reportVars
<1>5. CASE Control
  <2>1. reports' = reports
    BY <1>5 DEF Drop, StopRun, CancelCommand, ParentStarted, ParentFails, NextProject,
       BuildFails, NextBundle, Launched, LaunchFails, Interrupted, Close, ResolveParent,
       StartParent, TerminateParent, ResolveSession, Orphan, DebuggerReady, SessionDies,
       Build, reportVars
  <2>2. RunInv'
    BY <1>5, ControlKeeps
  <2> QED BY <2>1, <2>2
<1>6. CASE UNCHANGED testRunVars
  BY <1>6 DEF testRunVars, runVars, tokenVars, reportVars, sessionVars, xcVars, RunInv,
     RunTypeOK, PhaseInv, PendingInv, LineInv, TailInv, PassedIsTrue
<1> QED BY <1>1, <1>2, <1>3, <1>4, <1>5, <1>6 DEF RunNext, Own

\* RunInv holds in every state of a run.
LEMMA RunInvariant == RunSpec => []RunInv
<1>1. RunInit => RunInv
  BY RunInitOK
<1>2. RunInv /\ [RunNext]_testRunVars => RunInv'
  BY RunStep
<1> QED BY <1>1, <1>2, PTL DEF RunSpec

\* The type invariant of a run, for any tests, project files and bundles.
THEOREM RunTypesCorrect == RunSpec => []RunTypeOK
BY RunInvariant, PTL DEF RunInv

\* Every test of a run that has ended was reported (TestProvider.ts:166-171, 255-257).
THEOREM RunAnswers == RunSpec => []TestsAreAnswered
<1>1. RunInv => TestsAreAnswered
  BY DEF RunInv, PendingInv, TestsAreAnswered
<1> QED BY <1>1, RunInvariant, PTL

\* A test that was reported as passed did pass, but for the names and the silent
\* tests that the regular expression is led astray by (TestCaseAsyncParser.ts:4-5, 58-66).
THEOREM RunPassesTruly == RunSpec => []PassedIsTrue
<1>1. RunInv => PassedIsTrue
  BY DEF RunInv
<1> QED BY <1>1, RunInvariant, PTL

\* What is told of a test after its first report is that it failed
\* (TestProvider.ts:191-216).
THEOREM RunTailsFail ==
  RunSpec => [](\A t \in Tests : \A i \in 2..Len(reports[t]) : reports[t][i] = "failed")
BY RunInvariant, PTL DEF RunInv, TailInv

\* The same of the steps: one that finds a test reported has no pass to add
\* (TestProvider.ts:191-216).
THEOREM RunFailuresFollow == RunSpec => OnlyFailuresFollow
<1> DEFINE Following ==
      \A t \in Tests :
        LET old == reports[t]
            new == SubSeq(reports'[t], Len(old) + 1, Len(reports'[t]))
        IN  old # <<>> => ToSet(new) \subseteq {"failed"}
<1>1. ASSUME RunInv, [RunNext]_testRunVars PROVE [Following]_testRunVars
  <2> SUFFICES ASSUME NEW t \in Tests, reports[t] # <<>>
               PROVE  SubSeq(reports'[t], Len(reports[t]) + 1, Len(reports'[t])) = <<>>
    <3>1. ToSet(<<>>) = {}
      BY DEF ToSet
    <3>2. ASSUME NEW t \in Tests, SubSeq(reports'[t], Len(reports[t]) + 1, Len(reports'[t])) = <<>>
          PROVE  ToSet(SubSeq(reports'[t], Len(reports[t]) + 1, Len(reports'[t]))) \subseteq {"failed"}
      BY <3>1, <3>2, Zenon
    <3> QED BY <3>2, Zenon
  <2>1. phase # "asked"
    BY <1>1 DEF RunInv, PendingInv
  <2>2. reports'[t] = reports[t]
    BY <1>1, <2>1, RunStep
  <2>3. Len(reports[t]) \in Nat
    BY <1>1, LenProperties DEF RunInv, RunTypeOK
  <2> QED BY <2>2, <2>3, SubSeqEmpty
<1>2. RunInv /\ [RunNext]_testRunVars => [Following]_testRunVars
  BY <1>1
<1> QED BY <1>2, RunInvariant, PTL DEF RunSpec, OnlyFailuresFollow

-----------------------------------------------------------------------------
(* TestTree *)

Holding == {"reading", "fetching", "itemReading", "itemFetching", "docFetching"}
Fetching == {"fetching", "itemFetching", "docFetching"}

\* p is asked for the tests of t; an item that a call is at.
Asked(p, t) == \E k \in 1..Len(asks) : asks[k] = <<p, t>>
Held(i) == \E p \in Calls : item[p] = i

\* The watcher has news of the file, or will have; a document's event is on its way.
DiskNews(f) == f \in unnoticed \cup news
DocComes(f) == \E d \in Docs : doc[d] = f /\ at[d] \notin {"idle", "docFetching", "done"}

\* Where a call is, and what it then has.
AtInv ==
    /\ \A p \in Calls : item[p] \in Items <=> at[p] \in Holding
    /\ \A p \in Calls : at[p] \in {"discover", "items", "itemReading", "itemFetching"} => p \in Runs
    /\ \A p \in Calls : at[p] \in {"lookup", "docFetching"} => p \in Docs
    /\ \A p \in Calls : got[p] # {} => Walking(p) \/ at[p] \in {"items", "itemReading", "itemFetching"}
    /\ \A d \in Docs : at[d] # "idle" => doc[d] \in Files /\ text[doc[d]] # NoVersion
    /\ \A d \in Docs : at[d] = "docFetching" => item[d][1] = doc[d]
    /\ \A p \in Calls : current[p] => Walking(p) /\ target # "none"
    /\ \A p \in Calls : at[p] = "target" => Loading(p)
    /\ loadingState = "nonInitialized" =>
          /\ target = "none" /\ \A p \in Calls : at[p] \in {"idle", "lookup", "queued"}
          /\ \A i \in Items : ~Visible(i)

\* Walks: two at a time contest every file; what a walk has found is seen; a walk
\* that does not fill the tree's target is followed by a load that does.
WalkInv ==
    /\ \A p, q \in Calls : Walking(p) /\ Walking(q) /\ p # q => contested = Files
    /\ \A p \in Calls, i \in Items : Walking(p) /\ i \in got[p] => i[1] \notin unseen[p] /\ i # item[p]
    /\ \A p \in Calls : Walking(p) /\ item[p] \in Items => item[p][1] \notin unseen[p]
    /\ \A p \in Calls : Walking(p) /\ ~current[p] =>
         contested = Files \/ (\E l \in Calls : at[l] = "target" /\ target = "none")

\* What holds of a file that is not contested: one item of it is in use; one call is
\* at that item; no other walk takes it along; and the context finds it.
OneItem(f) == \A i, j \in Items : i[1] = f /\ j[1] = f /\ ~Free(i) /\ ~Free(j) => i = j
OneHolder(f) ==
    \A p, q \in Calls : item[p] \in Items /\ item[p][1] = f /\ item[q] = item[p] => p = q
InNoWalk(f) ==
    \A p, q \in Calls :
        item[p] \in Items /\ item[p][1] = f /\ p # q /\ Walking(q) => item[p] \notin got[q]
SeenIsReused(f) == \A i \in Items : i[1] = f /\ Visible(i) => reused[f] = i[2]
HeldIsReused(f) ==
    \A p \in Calls : item[p] \in Items /\ item[p][1] = f /\ at[p] \in {"reading", "fetching", "docFetching"}
                         => reused[f] = item[p][2]
GotIsReused(f) ==
    \A p \in Calls, i \in Items : i[1] = f /\ current[p] /\ i \in got[p] => reused[f] = i[2]

HoldInv ==
    \A f \in Files \ contested :
        /\ OneItem(f) /\ OneHolder(f) /\ InNoWalk(f)
        /\ SeenIsReused(f) /\ HeldIsReused(f) /\ GotIsReused(f)

\* The calls that are asked for are those that wait, for the tests of their item.
AskInv ==
    /\ \A k, l \in 1..Len(asks) : asks[k][1] = asks[l][1] => k = l
    /\ \A p \in Calls, f \in Files, v \in Versions :
          Asked(p, <<f, v>>) => at[p] \in Fetching /\ item[p][1] = f

\* What holds of a file that is not excused.
\* An item nobody is at shows the text of the file, or of the document, unless there
\* is news of it; what is asked for is that text, too.
DocText(f) == IF f \in open THEN text[f] ELSE disk[f]
ShownIsCurrent(f) ==
    \A i \in Items : i[1] = f /\ ~Free(i) /\ ~Held(i) =>
        shown[i] \in TextOf(f) \/ DiskNews(f) \/ DocComes(f)
AskIsCurrent(f) ==
    \A p \in Calls, v \in Versions : Asked(p, <<f, v>>) =>
        IF at[p] = "docFetching" THEN v = DocText(f) \/ DiskNews(f) \/ DocComes(f)
        ELSE v = disk[f] \/ DiskNews(f)
\* A file was read before it is asked for, and an item without tests was read as such.
KnownIsAsked(f) ==
    \A p \in Calls, v \in Versions :
        Asked(p, <<f, v>>) /\ at[p] # "docFetching" => known[item[p]] = v
EmptyIsKnown(f) ==
    \A i \in Items :
        i[1] = f /\ shown[i] = Empty
          /\ (\A p \in Calls : item[p] = i => at[p] \notin Fetching)
          /\ (Visible(i) \/ \E p \in Calls : item[p] = i /\ at[p] = "reading")
            => known[i] \in {Empty, NoVersion}
\* An item in the tree has tests, but for those of a file that has none any more.
EmptyIsDisk(f) ==
    \A i \in Items : i[1] = f /\ Visible(i) /\ ~Held(i) /\ shown[i] = Empty =>
        disk[f] = Empty \/ DiskNews(f)
GotHasTests(f) == \A p \in Calls, i \in Items : i[1] = f /\ Walking(p) /\ i \in got[p] => shown[i] # Empty
\* A walk passes only a file without tests.
PassedIsEmpty(f) ==
    \A p \in Calls :
        Walking(p) /\ f \notin unseen[p] /\ (\A i \in got[p] : i[1] # f)
          /\ (item[p] \in Items => item[p][1] # f)
            => disk[f] = Empty \/ DiskNews(f)
\* A file with tests is in the tree, or is still to come there.
IsThere(f) ==
    \/ loadingState = "nonInitialized"
    \/ \E i \in Items : i[1] = f /\ Visible(i)
    \/ Empty \in TextOf(f) \/ DiskNews(f) \/ DocComes(f)
    \/ \E p \in Calls : Walking(p)
    \/ target = "none" /\ \E p \in Calls : at[p] = "target"

NewsInv ==
    \A f \in Files \ Excused :
        /\ ShownIsCurrent(f) /\ AskIsCurrent(f) /\ KnownIsAsked(f) /\ EmptyIsKnown(f)
        /\ EmptyIsDisk(f) /\ GotHasTests(f) /\ PassedIsEmpty(f) /\ IsThere(f)

\* The inductive invariant of the tree.
TreeInv == TreeTypeOK /\ AtInv /\ WalkInv /\ HoldInv /\ AskInv /\ NewsInv

-----------------------------------------------------------------------------
(* Types of the tree *)

\* Items are pairs of a file and a number.
LEMMA ItemParts ==
  /\ \A f \in Files, n \in 1..MaxItems :
       <<f, n>> \in Items /\ <<f, n>>[1] = f /\ <<f, n>>[2] = n
  /\ \A i \in Items : i[1] \in Files /\ i[2] \in 1..MaxItems /\ i = <<i[1], i[2]>>
  /\ \A i, j \in Items : i[1] = j[1] /\ i[2] = j[2] => i = j
  /\ NoItem \notin Items
BY DEF Items, NoItem

\* The types of a step that goes to an item.
LEMMA GetOrCreateTypes ==
  ASSUME TreeTypeOK, NEW f \in Files, NEW i \in Items, GetOrCreate(f, i)
  PROVE  /\ place' \in [Items -> {"out", "root", "target"}]
         /\ reused' \in [Files -> 0..MaxItems]
         /\ shown' \in [Items -> Versions]
         /\ known' \in [Items -> Versions \cup {NoVersion}]
         /\ AskedOf(i) \in {"no", "asked", "done"}
<1>1. i[2] \in 0..MaxItems /\ Empty \in Versions
  BY ItemParts, TreeAssumption
<1>0. AskedOf(i) \in {"no", "asked", "done"}
  BY DEF AskedOf, TreeTypeOK
<1>2. CASE Found(f)
  BY <1>0, <1>2 DEF GetOrCreate, TreeTypeOK, placeVars
<1>3. CASE ~Found(f)
  <2>1. /\ place' \in [Items -> {"out", "root", "target"}]
        /\ reused' \in [Files -> 0..MaxItems]
    <3>1. place' \in [Items -> {"out", "root", "target"}]
      BY <1>3 DEF GetOrCreate, TreeTypeOK
    <3>2. reused' \in [Files -> 0..MaxItems]
      BY <1>1, <1>3 DEF GetOrCreate, TreeTypeOK
    <3> QED BY <3>1, <3>2
  <2>2. shown' \in [Items -> Versions] /\ known' \in [Items -> Versions \cup {NoVersion}]
    BY <1>1, <1>3 DEF GetOrCreate, TreeTypeOK
  <2> QED BY <1>0, <2>1, <2>2
<1> QED BY <1>2, <1>3

\* The types of a question and of an answer.
LEMMA AsksTypes ==
  ASSUME TreeTypeOK, NEW p \in Calls, NEW i \in Items, NEW v \in Versions,
         AskTests(p, i, v) \/ \E w \in Versions : ShowTests(p, w)
  PROVE  asks' \in Seq(Calls \X (Files \X Versions))
<1>1. i[1] \in Files
  BY ItemParts
<1>2. PICK S : S = Calls \X (Files \X Versions)
  OBVIOUS
<1>3. asks \in Seq(S)
  BY <1>2 DEF TreeTypeOK
<1>4. CASE AskTests(p, i, v)
  <2>1. <<p, <<i[1], v>>>> \in S
    BY <1>1, <1>2
  <2> QED BY <1>2, <1>3, <1>4, <2>1 DEF AskTests, Fetches!Ask
<1>5. CASE \E w \in Versions : ShowTests(p, w)
  BY <1>2, <1>3, <1>5 DEF ShowTests, Fetches!Return
<1> QED BY <1>4, <1>5

\* Deleting, judging and replacing change places and numbers, and what was found.
LEMMA DeleteTypes ==
  ASSUME TreeTypeOK, NEW f \in Files, Delete(f)
  PROVE  /\ place' \in [Items -> {"out", "root", "target"}]
         /\ reused' \in [Files -> 0..MaxItems]
<1>1. 0 \in 0..MaxItems
  BY TreeAssumption
<1> QED BY <1>1 DEF Delete, TreeTypeOK

\* The types after a file has been looked at.
LEMMA JudgeTypes ==
  ASSUME TreeTypeOK, NEW p \in Calls, NEW i \in Items, NEW v \in Versions, Judge(p, i, v)
  PROVE  /\ place' \in [Items -> {"out", "root", "target"}]
         /\ reused' \in [Files -> 0..MaxItems]
         /\ got' \in [Calls -> SUBSET Items]
<1>1. CASE v # Empty
  <2>1. got \in [Calls -> SUBSET Items]
        /\ place \in [Items -> {"out", "root", "target"}] /\ reused \in [Files -> 0..MaxItems]
    BY DEF TreeTypeOK
  <2>2. got' = [got EXCEPT ![p] = got[p] \cup {i}] /\ place' = place /\ reused' = reused
    BY <1>1 DEF Judge, placeVars
  <2> QED BY <2>1, <2>2
<1>2. CASE v = Empty
  <2>1. Delete(i[1]) /\ got' = got
    BY <1>2 DEF Judge
  <2> QED BY <2>1, DeleteTypes, ItemParts DEF TreeTypeOK
<1> QED BY <1>1, <1>2

\* The types after a walk has begun or ended.
LEMMA WalkTypes ==
  ASSUME TreeTypeOK, NEW p \in Calls, WalkBegins(p) \/ WalkEnds(p)
  PROVE  /\ target' \in {"none", "new", "done"} /\ projectNews' \in BOOLEAN
         /\ current' \in [Calls -> BOOLEAN] /\ unseen' \in [Calls -> SUBSET Files]
         /\ place' \in [Items -> {"out", "root", "target"}]
         /\ got' \in [Calls -> SUBSET Items] /\ contested' \subseteq Files
<1>1. CASE WalkBegins(p)
  BY <1>1 DEF WalkBegins, TreeTypeOK, placeVars
<1>2. CASE WalkEnds(p)
  <2>1. projectNews' = projectNews /\ unseen' = unseen /\ contested' = contested
    BY <1>2 DEF WalkEnds, diskVars
  <2>2. place' \in [Items -> {"out", "root", "target"}]
    BY <1>2 DEF WalkEnds, ReplaceChildren, TreeTypeOK
  <2>3. target' \in {"none", "new", "done"} /\ current' \in [Calls -> BOOLEAN]
        /\ got' \in [Calls -> SUBSET Items]
    <3>1. /\ target \in {"none", "new", "done"} /\ current \in [Calls -> BOOLEAN]
          /\ got \in [Calls -> SUBSET Items]
      BY DEF TreeTypeOK
    <3>2. got' = [got EXCEPT ![p] = {}]
      BY <1>2 DEF WalkEnds
    <3>3. \/ target' = target /\ current' = current
          \/ target' = "done" /\ current' = [current EXCEPT ![p] = FALSE]
          \/ target' = "none" /\ current' = [q \in Calls |-> FALSE]
      BY <1>2 DEF WalkEnds
    <3> QED BY <3>1, <3>2, <3>3
  <2> QED BY <2>1, <2>2, <2>3 DEF TreeTypeOK
<1> QED BY <1>1, <1>2

\* A call that joins the queue of the loads.
LEMMA QueueGrows ==
  ASSUME TreeTypeOK, NEW p \in Calls, loadQueue' = Append(loadQueue, p)
  PROVE  loadQueue' \in Seq(Calls)
<1>1. loadQueue \in Seq(Calls)
  BY DEF TreeTypeOK
<1> QED BY <1>1, AppendProperties

\* A load that leaves it.
LEMMA QueueShrinks ==
  ASSUME TreeTypeOK, loadQueue # <<>>, loadQueue' = Tail(loadQueue)
  PROVE  loadQueue' \in Seq(Calls)
<1>1. loadQueue \in Seq(Calls)
  BY DEF TreeTypeOK
<1> QED BY <1>1, HeadTailProperties

\* The types after a file was read.
LEMMA ReadTypes ==
  ASSUME TreeTypeOK, NEW p \in Calls, item[p] \in Items, ReadsNew(p) \/ ReadsSame(p)
  PROVE  /\ known' \in [Items -> Versions \cup {NoVersion}]
         /\ asked' \in [Items -> {"no", "asked", "done"}]
         /\ shown' = shown /\ asks' \in Seq(Calls \X (Files \X Versions))
         /\ ReadsSame(p) => skipped' \subseteq Files
<1>1. item[p][1] \in Files /\ disk[item[p][1]] \in Versions
  BY ItemParts DEF TreeTypeOK
<1>2. CASE ReadsNew(p)
  <2>1. asks' \in Seq(Calls \X (Files \X Versions))
    BY <1>1, <1>2, AsksTypes DEF ReadsNew
  <2>2. disk[item[p][1]] # known[item[p]]
    BY <1>2 DEF ReadsNew
  <2>3. asked' \in [Items -> {"no", "asked", "done"}]
    BY <1>2 DEF ReadsNew, Asking, TreeTypeOK
  <2> QED BY <1>1, <1>2, <2>1, <2>2, <2>3 DEF ReadsNew, ReadsSame, TreeTypeOK
<1>3. CASE ReadsSame(p)
  BY <1>1, <1>3 DEF ReadsSame, TreeTypeOK, itemVars
<1> QED BY <1>2, <1>3

\* The types after its tests were shown.
LEMMA ShowTypes ==
  ASSUME TreeTypeOK, NEW p \in Calls, item[p] \in Items, NEW v \in Versions, ShowTests(p, v)
  PROVE  /\ known' = known
         /\ asked' \in [Items -> {"no", "asked", "done"}]
         /\ shown' \in [Items -> Versions] /\ asks' \in Seq(Calls \X (Files \X Versions))
<1>1. asks' \in Seq(Calls \X (Files \X Versions))
  BY AsksTypes
<1> QED BY <1>1 DEF ShowTests, TreeTypeOK

\* Where the caller of a load goes on.
LEMMA LoadLeads ==
  ASSUME NEW p \in Calls
  PROVE  (CASE p \in Loads -> "done" [] p \in Runs -> "discover" [] p \in Docs -> "lookup")
           = IF p \in Loads THEN "done" ELSE IF p \in Runs THEN "discover" ELSE "lookup"
BY TreeAssumption DEF Calls

\* A step keeps the types.
LEMMA TreeTypeStep ==
  ASSUME TreeTypeOK, AtInv, [TreeNext]_testTreeVars PROVE TreeTypeOK'
<1>1. ASSUME NEW p \in Calls, Call(p) PROVE TreeTypeOK'
  <2>1. loadQueue' \in Seq(Calls)
    <3>1. loadQueue' = Append(loadQueue, p)
      BY <1>1 DEF Call
    <3> QED BY <3>1, QueueGrows
  <2> QED BY <1>1, <2>1 DEF Call, TreeTypeOK, diskVars, placeVars, itemVars, historyVars, Steps
<1>2. ASSUME NEW p \in Calls, LoadBegins(p) PROVE TreeTypeOK'
  BY <1>2 DEF LoadBegins, TreeTypeOK, diskVars, itemVars, historyVars, Steps
<1>3. ASSUME NEW p \in Calls, LoadWalks(p) PROVE TreeTypeOK'
  BY <1>3, WalkTypes DEF LoadWalks, WalkBegins, TreeTypeOK, loadVars, placeVars, itemVars, Steps
<1>4. ASSUME NEW p \in Calls, LoadSkips(p) PROVE TreeTypeOK'
  <2>1. loadQueue' \in Seq(Calls)
    <3>1. loadQueue # <<>> /\ loadQueue' = Tail(loadQueue)
      BY <1>4 DEF LoadSkips, LoadEnds, AtInv, Loading
    <3> QED BY <3>1, QueueShrinks
  <2>2. at' \in [Calls -> Steps] /\ loadingState' = "loaded"
    <3>1. at' = [at EXCEPT ![p] = IF p \in Loads THEN "done" ELSE IF p \in Runs THEN "discover" ELSE "lookup"]
      BY <1>4, LoadLeads DEF LoadSkips, LoadEnds
    <3> QED BY <1>4, <3>1 DEF LoadSkips, LoadEnds, TreeTypeOK, Steps
  <2> QED BY <1>4, <2>1, <2>2 DEF LoadSkips, TreeTypeOK, diskVars, placeVars, itemVars, historyVars
<1>5. ASSUME NEW p \in Calls, LoadWalked(p) PROVE TreeTypeOK'
  <2>1. loadQueue' \in Seq(Calls)
    BY <1>5, QueueShrinks DEF LoadWalked, LoadEnds, Loading
  <2>2. WalkEnds(p) /\ LoadEnds(p)
    BY <1>5 DEF LoadWalked
  <2>3. at' \in [Calls -> Steps] /\ loadingState' = "loaded"
    <3>1. at' = [at EXCEPT ![p] = IF p \in Loads THEN "done" ELSE IF p \in Runs THEN "discover" ELSE "lookup"]
      BY <2>2, LoadLeads DEF LoadEnds
    <3> QED BY <2>2, <3>1 DEF LoadEnds, TreeTypeOK, Steps
  <2> QED BY <2>1, <2>2, <2>3, WalkTypes DEF WalkEnds, TreeTypeOK, diskVars, itemVars
<1>6. ASSUME NEW p \in Calls, VisitResolved(p) PROVE TreeTypeOK'
  <2>1. PICK f \in Files : /\ Found(f) /\ GoesTo(p, <<f, reused[f]>>)
                           /\ Judge(p, <<f, reused[f]>>, shown[<<f, reused[f]>>])
                           /\ unseen' = [unseen EXCEPT ![p] = unseen[p] \ {f}]
    BY <1>6 DEF VisitResolved, TreeTypeOK
  <2>2. <<f, reused[f]>> \in Items /\ <<f, reused[f]>>[1] = f
    BY <2>1, ItemParts DEF Found, TreeTypeOK
  <2>3. shown[<<f, reused[f]>>] \in Versions
    BY <2>2 DEF TreeTypeOK
  <2>4. /\ place' \in [Items -> {"out", "root", "target"}]
        /\ reused' \in [Files -> 0..MaxItems]
        /\ got' \in [Calls -> SUBSET Items]
    BY <2>1, <2>2, <2>3, JudgeTypes
  <2>5. contested' \subseteq Files
    BY <2>1, <2>2 DEF GoesTo, Contest, TreeTypeOK
  <2>6. unseen' \in [Calls -> SUBSET Files]
    BY <2>1 DEF TreeTypeOK
  <2> QED BY <1>6, <2>4, <2>5, <2>6 DEF VisitResolved, TreeTypeOK, diskVars, loadVars, itemVars
<1>7. ASSUME NEW p \in Calls, Visit(p) PROVE TreeTypeOK'
  <2>1. PICK f \in Files, i \in Items :
           /\ GetOrCreate(f, i) /\ GoesTo(p, i)
           /\ item' = [item EXCEPT ![p] = i]
           /\ news' \in {news, news \ {f}}
           /\ asked' = [asked EXCEPT ![i] = AskedOf(i)]
           /\ unseen' = [unseen EXCEPT ![p] = unseen[p] \ {f}]
    BY <1>7 DEF Visit, TreeTypeOK
  <2>2. contested' \subseteq Files
    BY <2>1, ItemParts DEF GoesTo, Contest, TreeTypeOK
  <2>3. /\ item' \in [Calls -> Items \cup {NoItem}] /\ unseen' \in [Calls -> SUBSET Files]
        /\ news' \subseteq Files
    BY <2>1 DEF TreeTypeOK
  <2>4. at' \in [Calls -> Steps]
    BY <1>7 DEF Visit, TreeTypeOK, Steps
  <2>5. asked' \in [Items -> {"no", "asked", "done"}]
    BY <2>1, GetOrCreateTypes DEF TreeTypeOK
  <2> QED BY <1>7, <2>1, <2>2, <2>3, <2>4, <2>5, GetOrCreateTypes DEF Visit, TreeTypeOK, loadVars
<1>8. ASSUME NEW p \in Calls, Read(p) PROVE TreeTypeOK'
  <2>1. item[p] \in Items
    BY <1>8 DEF Read, AtInv, Holding
  <2>2. ReadsNew(p) \/ ReadsSame(p)
    BY <1>8 DEF Read
  <2>3. at' \in [Calls -> Steps] /\ item' \in [Calls -> Items \cup {NoItem}]
    BY <1>8 DEF Read, TreeTypeOK, Steps
  <2>4. /\ place' \in [Items -> {"out", "root", "target"}]
        /\ reused' \in [Files -> 0..MaxItems]
        /\ got' \in [Calls -> SUBSET Items]
    <3>1. CASE UNCHANGED <<placeVars, got>>
      BY <3>1 DEF TreeTypeOK, placeVars
    <3>2. CASE Judge(p, item[p], shown[item[p]])
      <4>1. shown[item[p]] \in Versions
        BY <2>1 DEF TreeTypeOK
      <4> QED BY <2>1, <3>2, <4>1, JudgeTypes
    <3> QED BY <1>8, <3>1, <3>2 DEF Read
  <2>5. skipped' \subseteq Files
    BY <1>8, <2>1, ReadTypes DEF Read, TreeTypeOK
  <2> QED BY <1>8, <2>1, <2>2, <2>3, <2>4, <2>5, ReadTypes DEF Read, TreeTypeOK, diskVars, loadVars
<1>9. ASSUME NEW p \in Calls, Fetched(p) PROVE TreeTypeOK'
  <2>1. item[p] \in Items
    BY <1>9 DEF Fetched, AtInv, Holding
  <2>2. PICK v \in Versions : ShowTests(p, v) /\ Judge(p, item[p], v)
    BY <1>9 DEF Fetched
  <2>3. at' \in [Calls -> Steps] /\ item' \in [Calls -> Items \cup {NoItem}]
    BY <1>9 DEF Fetched, TreeTypeOK, Steps
  <2>4. /\ place' \in [Items -> {"out", "root", "target"}]
        /\ reused' \in [Files -> 0..MaxItems]
        /\ got' \in [Calls -> SUBSET Items]
    BY <2>1, <2>2, JudgeTypes
  <2> QED BY <1>9, <2>1, <2>2, <2>3, <2>4, ShowTypes
      DEF Fetched, TreeTypeOK, diskVars, loadVars, historyVars
<1>10. ASSUME NEW p \in Runs, RunWalks(p) PROVE TreeTypeOK'
  BY <1>10, WalkTypes DEF RunWalks, WalkBegins, TreeTypeOK, loadVars, placeVars, itemVars, Steps, Calls
<1>11. ASSUME NEW p \in Runs, RunWalked(p) PROVE TreeTypeOK'
  BY <1>11, WalkTypes DEF RunWalked, WalkEnds, TreeTypeOK, diskVars, loadVars, itemVars, Steps, Calls
<1>12. ASSUME NEW p \in Runs, Gather(p) PROVE TreeTypeOK'
  BY <1>12 DEF Gather, TreeTypeOK, diskVars, loadVars, placeVars, itemVars, historyVars, Steps
<1>13. ASSUME NEW p \in Runs, VisitItem(p) PROVE TreeTypeOK'
  <2>1. PICK i \in Items : /\ news' \in {news, news \ {i[1]}}
                           /\ contested' \in {contested, contested \cup {i[1]}}
                           /\ item' \in {item, [item EXCEPT ![p] = i]}
                           /\ at' \in {at, [at EXCEPT ![p] = "itemReading"]}
                           /\ got' = [got EXCEPT ![p] = got[p] \ {i}]
    BY <1>13 DEF VisitItem, TreeTypeOK, Contest, GoesTo, Calls
  <2>2. contested' \subseteq Files /\ news' \subseteq Files
    BY <2>1, ItemParts DEF TreeTypeOK
  <2>3. item' \in [Calls -> Items \cup {NoItem}]
    BY <2>1 DEF TreeTypeOK
  <2>4. at' \in [Calls -> Steps]
    BY <2>1 DEF TreeTypeOK, Steps
  <2>5. got' \in [Calls -> SUBSET Items]
    BY <2>1 DEF TreeTypeOK
  <2> QED BY <1>13, <2>2, <2>3, <2>4, <2>5 DEF VisitItem, TreeTypeOK, loadVars, placeVars, itemVars
<1>14. ASSUME NEW p \in Runs, ReadItem(p) PROVE TreeTypeOK'
  <2>1. item[p] \in Items /\ p \in Calls
    BY <1>14 DEF ReadItem, AtInv, Holding, Calls
  <2>2. ReadsNew(p) \/ ReadsSame(p)
    BY <1>14 DEF ReadItem
  <2>3. at' \in [Calls -> Steps] /\ item' \in [Calls -> Items \cup {NoItem}]
    BY <1>14 DEF ReadItem, TreeTypeOK, Steps
  <2>4. skipped' \subseteq Files
    BY <1>14, <2>1, ReadTypes DEF ReadItem, TreeTypeOK
  <2> QED BY <1>14, <2>1, <2>2, <2>3, <2>4, ReadTypes DEF ReadItem, TreeTypeOK, diskVars, loadVars, placeVars
<1>15. ASSUME NEW p \in Runs, ItemFetched(p) PROVE TreeTypeOK'
  <2>1. item[p] \in Items /\ p \in Calls
    BY <1>15 DEF ItemFetched, AtInv, Holding, Calls
  <2>2. PICK v \in Versions : ShowTests(p, v)
    BY <1>15 DEF ItemFetched
  <2>3. at' \in [Calls -> Steps] /\ item' \in [Calls -> Items \cup {NoItem}]
    BY <1>15 DEF ItemFetched, TreeTypeOK, Steps
  <2> QED BY <1>15, <2>1, <2>2, <2>3, ShowTypes
      DEF ItemFetched, TreeTypeOK, diskVars, loadVars, placeVars, historyVars
<1>16. ASSUME NEW p \in Runs, RunGoes(p) PROVE TreeTypeOK'
  BY <1>16 DEF RunGoes, TreeTypeOK, diskVars, loadVars, placeVars, itemVars, historyVars, Steps
<1>17. ASSUME NEW d \in Docs, DocLoads(d) PROVE TreeTypeOK'
  <2>1. loadQueue' \in Seq(Calls)
    <3>1. loadQueue' = Append(loadQueue, d) /\ d \in Calls
      BY <1>17 DEF DocLoads, Calls
    <3> QED BY <3>1, QueueGrows
  <2> QED BY <1>17, <2>1 DEF DocLoads, TreeTypeOK, diskVars, placeVars, itemVars, historyVars, Steps
<1>18. ASSUME NEW d \in Docs, DocAsks(d) PROVE TreeTypeOK'
  <2>1. doc[d] \in Files /\ text[doc[d]] \in Versions /\ d \in Calls
    BY <1>18 DEF DocAsks, AtInv, TreeTypeOK, Calls
  <2>2. PICK i \in Items : /\ GetOrCreate(doc[d], i) /\ GoesTo(d, i)
                           /\ item' = [item EXCEPT ![d] = i] /\ AskTests(d, i, text[i[1]])
                           /\ asked' = [asked EXCEPT ![i] = Asking(AskedOf(i))]
                           /\ discarded' \in {discarded, discarded \cup {i[1]}}
    BY <1>18 DEF DocAsks
  <2>3. i[1] = doc[d]
    BY <2>2 DEF GetOrCreate
  <2>4. contested' \subseteq Files
    BY <2>1, <2>2, <2>3 DEF GoesTo, Contest, TreeTypeOK
  <2>5. asks' \in Seq(Calls \X (Files \X Versions))
    BY <2>1, <2>2, <2>3, AsksTypes
  <2>6. at' \in [Calls -> Steps] /\ item' \in [Calls -> Items \cup {NoItem}]
    BY <1>18, <2>2 DEF DocAsks, TreeTypeOK, Steps
  <2>7. asked' \in [Items -> {"no", "asked", "done"}] /\ discarded' \subseteq Files
    BY <2>1, <2>2, <2>3, GetOrCreateTypes DEF TreeTypeOK, Asking
  <2> QED BY <1>18, <2>1, <2>2, <2>4, <2>5, <2>6, <2>7, GetOrCreateTypes
      DEF DocAsks, TreeTypeOK, diskVars, loadVars
<1>19. ASSUME NEW d \in Docs, DocFetched(d) PROVE TreeTypeOK'
  <2>1. item[d] \in Items /\ item[d][1] \in Files /\ d \in Calls
    BY <1>19, ItemParts DEF DocFetched, AtInv, Holding, Calls
  <2>2. PICK v \in Versions : ShowTests(d, v)
    BY <1>19 DEF DocFetched
  <2>3. at' \in [Calls -> Steps] /\ item' \in [Calls -> Items \cup {NoItem}]
    BY <1>19 DEF DocFetched, TreeTypeOK, Steps
  <2>4. /\ place' \in [Items -> {"out", "root", "target"}]
        /\ reused' \in [Files -> 0..MaxItems]
    <3>1. CASE Delete(item[d][1])
      BY <2>1, <3>1, DeleteTypes
    <3>2. CASE ~Delete(item[d][1])
      BY <1>19, <3>2 DEF DocFetched, TreeTypeOK, placeVars
    <3> QED BY <3>1, <3>2
  <2> QED BY <1>19, <2>1, <2>2, <2>3, <2>4, ShowTypes
      DEF DocFetched, TreeTypeOK, diskVars, loadVars, historyVars
<1>20. ASSUME NEW d \in Docs, NEW f \in Files, NEW v \in Versions, Edit(d, f, v) PROVE TreeTypeOK'
  <2>1. changes' \in 0..MaxChanges
    BY <1>20, TreeAssumption DEF Edit, TreeTypeOK
  <2>2. at' \in [Calls -> Steps]
    BY <1>20 DEF Edit, TreeTypeOK, Steps
  <2>3. text' \in [Files -> Versions \cup {NoVersion}] /\ doc' \in [Docs -> Files \cup {NoFile}]
    BY <1>20 DEF Edit, TreeTypeOK
  <2> QED BY <1>20, <2>1, <2>2, <2>3 DEF Edit, TreeTypeOK, loadVars, placeVars, itemVars, historyVars
<1>21. ASSUME NEW f \in Files, Notice(f) PROVE TreeTypeOK'
  BY <1>21 DEF Notice, TreeTypeOK, loadVars, placeVars, itemVars, callVars, historyVars
<1>22. ASSUME NEW f \in Files, NEW v \in Versions, FileChanges(f, v) PROVE TreeTypeOK'
  BY <1>22, TreeAssumption
  DEF FileChanges, TreeTypeOK, loadVars, placeVars, itemVars, callVars, historyVars
<1>23. CASE ProjectChanges
  BY <1>23, TreeAssumption
  DEF ProjectChanges, TreeTypeOK, loadVars, placeVars, itemVars, callVars, historyVars
<1>25. ASSUME NEW p \in Runs, Expand(p) PROVE TreeTypeOK'
  <2>1. PICK i \in Items : GoesTo(p, i) /\ item' = [item EXCEPT ![p] = i]
    BY <1>25 DEF Expand
  <2>2. contested' \subseteq Files
    BY <2>1, ItemParts DEF GoesTo, Contest, TreeTypeOK
  <2>3. at' \in [Calls -> Steps] /\ item' \in [Calls -> Items \cup {NoItem}]
    BY <1>25, <2>1 DEF Expand, TreeTypeOK, Steps
  <2> QED BY <1>25, <2>2, <2>3 DEF Expand, TreeTypeOK, diskVars, loadVars, placeVars, itemVars
<1>26. ASSUME NEW f \in Files, DocumentCloses(f) PROVE TreeTypeOK'
  BY <1>26 DEF DocumentCloses, TreeTypeOK, loadVars, placeVars, itemVars, callVars
<1>24. CASE UNCHANGED testTreeVars
  BY <1>24 DEF testTreeVars, treeVars, diskVars, loadVars, placeVars, itemVars, callVars,
     historyVars, TreeTypeOK
<1> QED BY <1>1, <1>2, <1>3, <1>4, <1>5, <1>6, <1>7, <1>8, <1>9, <1>10, <1>11, <1>12, <1>13, <1>14,
           <1>15, <1>16, <1>17, <1>18, <1>19, <1>20, <1>21, <1>22, <1>23, <1>24, <1>25, <1>26
           DEF TreeNext, Terminated, Calls

-----------------------------------------------------------------------------
(* The walks and where the calls are *)

\* Whose turn it is does not change with who joins the queue.
LEMMA TurnKept ==
  ASSUME TreeTypeOK, NEW p \in Calls, loadQueue' = Append(loadQueue, p)
  PROVE  \A q \in Calls : Loading(q) => Loading(q)'
<1>1. loadQueue \in Seq(Calls)
  BY DEF TreeTypeOK
<1>2. PICK s : s = loadQueue
  OBVIOUS
<1>3. s \in Seq(Calls) /\ s # <<>> => Append(s, p) # <<>> /\ Head(Append(s, p)) = Head(s)
  OBVIOUS
<1> QED BY <1>1, <1>2, <1>3 DEF Loading

\* A call that goes on keeps where the others are and what they have.
LEMMA AtMoves ==
  ASSUME TreeTypeOK, AtInv, NEW p \in Calls, NEW s, NEW i,
         at[p] # "idle", s # "target",
         at' = [at EXCEPT ![p] = s], item' = [item EXCEPT ![p] = i],
         i \in Items <=> s \in Holding,
         s \in {"discover", "items", "itemReading", "itemFetching"} => p \in Runs,
         s \in {"lookup", "docFetching"} => p \in Docs,
         s = "docFetching" => i[1] = doc[p],
         \A q \in Calls : q # p => got'[q] = {} \/ got'[q] = got[q],
         got'[p] # {} => s \in {"files", "reading", "fetching", "items", "itemReading", "itemFetching"},
         \A q \in Calls : current'[q] => current[q] /\ target' # "none",
         current'[p] => s \in {"files", "reading", "fetching"},
         doc' = doc, text' = text,
         \A q \in Calls : q # p /\ at[q] = "target" => Loading(q)',
         loadingState' # "nonInitialized"
  PROVE  AtInv'
<1>1. \A q \in Calls : at'[q] = IF q = p THEN s ELSE at[q]
  BY DEF TreeTypeOK
<1>2. \A q \in Calls : item'[q] = IF q = p THEN i ELSE item[q]
  BY DEF TreeTypeOK
<1>3. \A q \in Calls : item'[q] \in Items <=> at'[q] \in Holding
  BY <1>1, <1>2 DEF AtInv
<1>4. /\ \A q \in Calls : at'[q] \in {"discover", "items", "itemReading", "itemFetching"} => q \in Runs
      /\ \A q \in Calls : at'[q] \in {"lookup", "docFetching"} => q \in Docs
  BY <1>1 DEF AtInv
<1>5. \A q \in Calls : got'[q] # {} =>
         Walking(q)' \/ at'[q] \in {"items", "itemReading", "itemFetching"}
  BY <1>1 DEF AtInv, Walking
<1>6. \A d \in Docs : at'[d] # "idle" => doc'[d] \in Files /\ text'[doc'[d]] # NoVersion
  BY <1>1 DEF AtInv, Calls
<1>7. \A d \in Docs : at'[d] = "docFetching" => item'[d][1] = doc'[d]
  BY <1>1, <1>2 DEF AtInv, Calls
<1>8. \A q \in Calls : current'[q] => Walking(q)' /\ target' # "none"
  BY <1>1 DEF AtInv, Walking
<1>9. \A q \in Calls : at'[q] = "target" => Loading(q)'
  BY <1>1
<1> QED BY <1>3, <1>4, <1>5, <1>6, <1>7, <1>8, <1>9 DEF AtInv

\* A step keeps where a call is and what it then has.
LEMMA AtStep ==
  ASSUME TreeTypeOK, AtInv, [TreeNext]_testTreeVars PROVE AtInv'
<1> USE DEF Walking, Holding
<1>1. ASSUME NEW p \in Loads \cup Runs, Call(p) PROVE AtInv'
  <2>1. \A q \in Calls : Loading(q) => Loading(q)'
    BY <1>1, TurnKept DEF Call, Calls
  <2>2. p \in Calls /\ p \notin Docs
    BY TreeAssumption DEF Calls
  <2> QED BY <1>1, <2>1, <2>2 DEF Call, AtInv, TreeTypeOK, diskVars, placeVars, Visible
<1>2. ASSUME NEW p \in Calls, LoadBegins(p) PROVE AtInv'
  BY <1>2 DEF LoadBegins, AtInv, TreeTypeOK, diskVars, Loading
<1>3. ASSUME NEW p \in Calls, LoadWalks(p) PROVE AtInv'
  BY <1>3 DEF LoadWalks, WalkBegins, AtInv, TreeTypeOK, loadVars, Loading
<1>4. ASSUME NEW p \in Calls, LoadSkips(p) PROVE AtInv'
  <2>1. at' = [at EXCEPT ![p] = IF p \in Loads THEN "done" ELSE IF p \in Runs THEN "discover" ELSE "lookup"]
        /\ loadingState' = "loaded"
    BY <1>4, LoadLeads DEF LoadSkips, LoadEnds
  <2>2. \A q \in Calls : at'[q] = "target" => q # p /\ at[q] = "target"
    BY <2>1 DEF TreeTypeOK
  <2>3. \A q \in Calls : at'[q] # "target"
    BY <1>4, <2>2 DEF AtInv, Loading, LoadSkips
  <2> QED BY <1>4, <2>1, <2>3 DEF LoadSkips, AtInv, TreeTypeOK, diskVars, Calls
<1>5. ASSUME NEW p \in Calls, LoadWalked(p) PROVE AtInv'
  <2>1. at' = [at EXCEPT ![p] = IF p \in Loads THEN "done" ELSE IF p \in Runs THEN "discover" ELSE "lookup"]
        /\ loadingState' = "loaded" /\ Loading(p) /\ at[p] = "files"
    BY <1>5, LoadLeads DEF LoadWalked, LoadEnds, WalkEnds
  <2>2. \A q \in Calls : at'[q] # "target"
    BY <2>1 DEF TreeTypeOK, AtInv, Loading
  <2>3. /\ \A q \in Calls : current'[q] => q # p /\ current[q] /\ target' # "none"
        /\ got' = [got EXCEPT ![p] = {}]
        /\ UNCHANGED <<item, doc, text>>
    BY <1>5 DEF LoadWalked, WalkEnds, TreeTypeOK, AtInv, diskVars
  <2>4. item[p] \notin Items /\ item' = [item EXCEPT ![p] = item[p]]
    BY <2>1, <2>3 DEF AtInv, TreeTypeOK
  <2>5. \A q \in Calls : got'[q] = {} \/ (q # p /\ got'[q] = got[q])
    BY <2>3 DEF TreeTypeOK
  <2>6. \A q \in Calls : at[q] = "target" => q = p
    BY <2>1 DEF AtInv, Loading
  <2>7. PICK s : s = IF p \in Loads THEN "done" ELSE IF p \in Runs THEN "discover" ELSE "lookup"
    OBVIOUS
  <2>8. /\ s \in {"done", "discover", "lookup"} /\ (s = "discover" => p \in Runs)
        /\ (s = "lookup" => p \in Docs)
    BY <2>7 DEF Calls
  <2>9. at' = [at EXCEPT ![p] = s]
    BY <2>1, <2>7
  <2>10. s \notin Holding /\ s \notin {"idle", "target", "docFetching", "items", "itemReading", "itemFetching"}
    BY <2>8
  <2>11. at[p] # "idle" /\ loadingState' # "nonInitialized" /\ doc' = doc /\ text' = text
    BY <2>1, <2>3
  <2>12. \A q \in Calls : current'[q] => q # p /\ current[q] /\ target' # "none"
    BY <2>3
  <2>13. item[p] \in Items <=> s \in Holding
    BY <2>4, <2>10
  <2> HIDE DEF Holding
  <2> QED BY <2>4, <2>5, <2>6, <2>8, <2>9, <2>10, <2>11, <2>12, <2>13, AtMoves
<1>6. ASSUME NEW p \in Calls, VisitResolved(p) PROVE AtInv'
  <2>1. /\ at[p] = "files" /\ UNCHANGED <<at, item, doc, text, current, target, loadingState, loadQueue>>
        /\ \A q \in Calls : q # p => got'[q] = got[q]
    BY <1>6 DEF VisitResolved, Judge, diskVars, loadVars, TreeTypeOK
  <2> QED BY <2>1 DEF AtInv, Loading
<1>7. ASSUME NEW p \in Calls, Visit(p) PROVE AtInv'
  <2>1. PICK i \in Items : /\ at[p] = "files" /\ at' = [at EXCEPT ![p] = "reading"]
                           /\ item' = [item EXCEPT ![p] = i]
    BY <1>7 DEF Visit
  <2>2. UNCHANGED <<got, doc, text, current, target, loadingState, loadQueue>>
    BY <1>7 DEF Visit, loadVars
  <2> QED BY <2>1, <2>2 DEF AtInv, TreeTypeOK, Loading
<1>8. ASSUME NEW p \in Calls, Read(p) PROVE AtInv'
  <2>1. /\ at[p] = "reading"
        /\ \/ at' = [at EXCEPT ![p] = "fetching"] /\ item' = item
           \/ at' = [at EXCEPT ![p] = "files"] /\ item' = [item EXCEPT ![p] = NoItem]
        /\ UNCHANGED <<doc, text, current, target, loadingState, loadQueue>>
        /\ \A q \in Calls : q # p => got'[q] = got[q]
    BY <1>8 DEF Read, Judge, diskVars, loadVars, TreeTypeOK
  <2>2. item[p] \in Items /\ NoItem \notin Items /\ loadingState # "nonInitialized"
    BY <2>1, ItemParts DEF AtInv
  <2>3. /\ \A q \in Calls : at[q] = "target" => Loading(q)'
        /\ \A q \in Calls : current'[q] => current[q] /\ target' # "none"
    BY <2>1 DEF AtInv, Loading
  <2>4. CASE at' = [at EXCEPT ![p] = "fetching"] /\ item' = item
    <3>1. item' = [item EXCEPT ![p] = item[p]]
      BY <2>4 DEF TreeTypeOK
    <3> QED BY <2>1, <2>2, <2>3, <2>4, <3>1, AtMoves
  <2>5. CASE at' = [at EXCEPT ![p] = "files"] /\ item' = [item EXCEPT ![p] = NoItem]
    BY <2>1, <2>2, <2>3, <2>5, AtMoves
  <2> QED BY <2>1, <2>4, <2>5
<1>9. ASSUME NEW p \in Calls, Fetched(p) PROVE AtInv'
  <2>1. /\ at[p] = "fetching"
        /\ at' = [at EXCEPT ![p] = "files"] /\ item' = [item EXCEPT ![p] = NoItem]
        /\ UNCHANGED <<doc, text, current, target, loadingState, loadQueue>>
        /\ \A q \in Calls : q # p => got'[q] = got[q]
    BY <1>9 DEF Fetched, Judge, diskVars, loadVars, TreeTypeOK
  <2> QED BY <2>1, ItemParts DEF AtInv, TreeTypeOK, Loading
<1>10. ASSUME NEW p \in Runs, RunWalks(p) PROVE AtInv'
  BY <1>10 DEF RunWalks, WalkBegins, AtInv, TreeTypeOK, loadVars, Loading, Calls
<1>11. ASSUME NEW p \in Runs, RunWalked(p) PROVE AtInv'
  <2>1. at' = [at EXCEPT ![p] = "discover"] /\ at[p] = "files" /\ p \in Calls
        /\ UNCHANGED <<loadingState, loadQueue>>
    BY <1>11 DEF RunWalked, WalkEnds, loadVars, Calls
  <2>3. /\ \A q \in Calls : current'[q] => q # p /\ current[q] /\ target' # "none"
        /\ got' = [got EXCEPT ![p] = {}]
        /\ UNCHANGED <<item, doc, text>>
    BY <1>11, <2>1 DEF RunWalked, WalkEnds, TreeTypeOK, AtInv, diskVars
  <2>4. item[p] \notin Items /\ item' = [item EXCEPT ![p] = item[p]] /\ loadingState # "nonInitialized"
    BY <2>1, <2>3 DEF AtInv, TreeTypeOK
  <2>5. \A q \in Calls : got'[q] = {} \/ (q # p /\ got'[q] = got[q])
    BY <2>1, <2>3 DEF TreeTypeOK
  <2>6. \A q \in Calls : at[q] = "target" => Loading(q)'
    BY <2>1 DEF AtInv, Loading
  <2> QED BY <1>11, <2>1, <2>3, <2>4, <2>5, <2>6, AtMoves
<1>12. ASSUME NEW p \in Runs, Gather(p) PROVE AtInv'
  BY <1>12 DEF Gather, AtInv, TreeTypeOK, diskVars, loadVars, Loading, Calls
<1>13. ASSUME NEW p \in Runs, VisitItem(p) PROVE AtInv'
  <2>1. PICK i \in Items : /\ at[p] = "items"
                           /\ \/ UNCHANGED <<item, at>>
                              \/ item' = [item EXCEPT ![p] = i] /\ at' = [at EXCEPT ![p] = "itemReading"]
                           /\ got' = [got EXCEPT ![p] = got[p] \ {i}]
    BY <1>13 DEF VisitItem, TreeTypeOK, Calls
  <2>2. UNCHANGED <<doc, text, current, target, loadingState, loadQueue>> /\ p \in Calls
    BY <1>13 DEF VisitItem, loadVars, Calls
  <2>3. /\ \A q \in Calls : at[q] = "target" => Loading(q)'
        /\ \A q \in Calls : current'[q] => current[q] /\ target' # "none"
        /\ ~current[p] /\ loadingState' # "nonInitialized"
        /\ \A q \in Calls : q # p => got'[q] = got[q]
    BY <2>1, <2>2 DEF AtInv, Loading, TreeTypeOK
  <2>4. CASE UNCHANGED <<item, at>>
    <3>1. item[p] \notin Items
      BY <2>1, <2>2 DEF AtInv
    <3>2. item' = [item EXCEPT ![p] = item[p]]
      BY <2>4 DEF TreeTypeOK
    <3>3. at' = [at EXCEPT ![p] = "items"]
      BY <2>1, <2>4 DEF TreeTypeOK
    <3> QED BY <1>13, <2>1, <2>2, <2>3, <3>1, <3>2, <3>3, AtMoves
  <2>5. CASE item' = [item EXCEPT ![p] = i] /\ at' = [at EXCEPT ![p] = "itemReading"]
    BY <1>13, <2>1, <2>2, <2>3, <2>5, AtMoves
  <2> QED BY <2>1, <2>4, <2>5
<1>14. ASSUME NEW p \in Runs, ReadItem(p) PROVE AtInv'
  <2>1. /\ at[p] = "itemReading" /\ p \in Calls
        /\ \/ at' = [at EXCEPT ![p] = "itemFetching"] /\ item' = item
           \/ at' = [at EXCEPT ![p] = "items"] /\ item' = [item EXCEPT ![p] = NoItem]
        /\ UNCHANGED <<got, doc, text, current, target, loadingState, loadQueue>>
    BY <1>14 DEF ReadItem, diskVars, loadVars, Calls
  <2>2. /\ item[p] \in Items /\ NoItem \notin Items /\ loadingState # "nonInitialized"
        /\ ~current[p]
    BY <2>1, ItemParts DEF AtInv
  <2>3. /\ \A q \in Calls : at[q] = "target" => Loading(q)'
        /\ \A q \in Calls : current'[q] => current[q] /\ target' # "none"
    BY <2>1 DEF AtInv, Loading
  <2>4. CASE at' = [at EXCEPT ![p] = "itemFetching"] /\ item' = item
    <3>1. item' = [item EXCEPT ![p] = item[p]]
      BY <2>4 DEF TreeTypeOK
    <3> QED BY <1>14, <2>1, <2>2, <2>3, <2>4, <3>1, AtMoves
  <2>5. CASE at' = [at EXCEPT ![p] = "items"] /\ item' = [item EXCEPT ![p] = NoItem]
    BY <1>14, <2>1, <2>2, <2>3, <2>5, AtMoves
  <2> QED BY <2>1, <2>4, <2>5
<1>15. ASSUME NEW p \in Runs, ItemFetched(p) PROVE AtInv'
  <2>1. /\ at[p] = "itemFetching" /\ p \in Calls
        /\ at' = [at EXCEPT ![p] = "items"] /\ item' = [item EXCEPT ![p] = NoItem]
        /\ UNCHANGED <<got, doc, text, current, target, loadingState, loadQueue>>
    BY <1>15 DEF ItemFetched, diskVars, loadVars, Calls
  <2>2. /\ item[p] \in Items /\ NoItem \notin Items /\ loadingState # "nonInitialized"
        /\ ~current[p]
    BY <2>1, ItemParts DEF AtInv
  <2>3. /\ \A q \in Calls : at[q] = "target" => Loading(q)'
        /\ \A q \in Calls : current'[q] => current[q] /\ target' # "none"
    BY <2>1 DEF AtInv, Loading
  <2> QED BY <1>15, <2>1, <2>2, <2>3, AtMoves
<1>16. ASSUME NEW p \in Runs, RunGoes(p) PROVE AtInv'
  BY <1>16 DEF RunGoes, AtInv, TreeTypeOK, diskVars, loadVars, Loading, Calls
<1>17. ASSUME NEW d \in Docs, DocLoads(d) PROVE AtInv'
  <2>1. \A q \in Calls : Loading(q) => Loading(q)'
    BY <1>17, TurnKept DEF DocLoads, Calls
  <2> QED BY <1>17, <2>1 DEF DocLoads, AtInv, TreeTypeOK, diskVars, placeVars, Visible, Calls
<1>18. ASSUME NEW d \in Docs, DocAsks(d) PROVE AtInv'
  <2>1. PICK i \in Items : /\ item' = [item EXCEPT ![d] = i] /\ i[1] = doc[d]
    BY <1>18 DEF DocAsks, GetOrCreate
  <2>2. /\ at[d] = "lookup" /\ at' = [at EXCEPT ![d] = "docFetching"] /\ loadingState = "loaded"
        /\ d \in Calls /\ UNCHANGED <<got, doc, text, current, target, loadingState, loadQueue>>
    BY <1>18 DEF DocAsks, diskVars, loadVars, Calls
  <2> QED BY <2>1, <2>2 DEF AtInv, TreeTypeOK, Loading
<1>19. ASSUME NEW d \in Docs, DocFetched(d) PROVE AtInv'
  <2>1. /\ at[d] = "docFetching" /\ d \in Calls
        /\ at' = [at EXCEPT ![d] = "idle"] /\ item' = [item EXCEPT ![d] = NoItem]
        /\ UNCHANGED <<got, doc, text, current, target, loadingState, loadQueue>>
    BY <1>19 DEF DocFetched, diskVars, loadVars, Calls
  <2>2. NoItem \notin Items /\ ~current[d] /\ got[d] = {} /\ loadingState # "nonInitialized"
    BY <2>1, ItemParts DEF AtInv
  <2>3. /\ \A q \in Calls : at[q] = "target" => Loading(q)'
        /\ \A q \in Calls : current'[q] => current[q] /\ target' # "none"
    BY <2>1 DEF AtInv, Loading
  <2> QED BY <2>1, <2>2, <2>3, AtMoves
<1>20. ASSUME NEW d \in Docs, NEW f \in Files, NEW v \in Versions, Edit(d, f, v) PROVE AtInv'
  <2>1. v # NoVersion
    BY TreeAssumption
  <2> QED BY <1>20, <2>1 DEF Edit, AtInv, TreeTypeOK, loadVars, placeVars, Visible, Loading, Calls
<1>21. ASSUME UNCHANGED <<callVars, doc, text, target, loadVars, placeVars>> PROVE AtInv'
  BY <1>21 DEF AtInv, callVars, loadVars, placeVars, Visible, Loading
<1>22. ASSUME NEW f \in Files, Notice(f) \/ DocumentCloses(f) \/ \E v \in Versions : FileChanges(f, v)
       PROVE  AtInv'
  BY <1>21, <1>22 DEF Notice, DocumentCloses, FileChanges
<1>23. CASE ProjectChanges \/ UNCHANGED testTreeVars
  BY <1>21, <1>23 DEF ProjectChanges, testTreeVars, treeVars, diskVars
<1>24. ASSUME NEW r \in Runs, Expand(r) PROVE AtInv'
  <2>1. PICK i \in Items : Visible(i) /\ item' = [item EXCEPT ![r] = i]
    BY <1>24 DEF Expand
  <2>2. /\ at[r] = "idle" /\ at' = [at EXCEPT ![r] = "itemReading"] /\ r \in Calls /\ r \notin Docs
        /\ UNCHANGED <<got, doc, text, current, target, loadingState, loadQueue>>
    BY <1>24, TreeAssumption DEF Expand, diskVars, loadVars, Calls
  <2>3. loadingState # "nonInitialized"
    BY <2>1 DEF AtInv
  <2> QED BY <1>24, <2>1, <2>2, <2>3 DEF AtInv, TreeTypeOK, Loading
<1> HIDE DEF Walking, Holding
<1> QED BY <1>1, <1>2, <1>3, <1>4, <1>5, <1>6, <1>7, <1>8, <1>9, <1>10, <1>11, <1>12, <1>13, <1>14,
           <1>15, <1>16, <1>17, <1>18, <1>19, <1>20, <1>22, <1>23, <1>24
    DEF TreeNext, Terminated

\* What the history has counted out stays out.
LEMMA HistoryGrows ==
  ASSUME TreeTypeOK, [TreeNext]_testTreeVars
  PROVE  contested \subseteq contested' /\ Excused \subseteq Excused'
<1> USE DEF historyVars, Excused
<1>1. ASSUME NEW p \in Calls, WalkBegins(p) PROVE contested \subseteq contested' /\ Excused \subseteq Excused'
  BY <1>1 DEF WalkBegins, TreeTypeOK
<1>2. ASSUME NEW p \in Calls, \/ Call(p) \/ LoadBegins(p) \/ LoadSkips(p) \/ LoadWalked(p) \/ Fetched(p)
                              \/ RunWalked(p) \/ Gather(p) \/ ItemFetched(p) \/ RunGoes(p)
                              \/ DocLoads(p) \/ DocFetched(p)
      PROVE  contested \subseteq contested' /\ Excused \subseteq Excused'
  BY <1>2 DEF Call, LoadBegins, LoadSkips, LoadWalked, WalkEnds, Fetched, RunWalked, Gather,
     ItemFetched, RunGoes, DocLoads, DocFetched
<1>3. ASSUME NEW p \in Calls, VisitResolved(p) \/ Visit(p) \/ DocAsks(p) \/ VisitItem(p) \/ Expand(p)
      PROVE  contested \subseteq contested' /\ Excused \subseteq Excused'
  BY <1>3 DEF VisitResolved, Visit, DocAsks, VisitItem, Expand, GoesTo, Contest
<1>4. ASSUME NEW p \in Calls, Read(p) \/ ReadItem(p)
      PROVE  contested \subseteq contested' /\ Excused \subseteq Excused'
  BY <1>4 DEF Read, ReadItem, ReadsNew, ReadsSame
<1>5. ASSUME NEW d \in Docs, NEW f \in Files, NEW v \in Versions, Edit(d, f, v)
      PROVE  contested \subseteq contested' /\ Excused \subseteq Excused'
  BY <1>5 DEF Edit
<1>6. ASSUME NEW f \in Files,
             Notice(f) \/ DocumentCloses(f) \/ \E v \in Versions : FileChanges(f, v)
      PROVE  contested \subseteq contested' /\ Excused \subseteq Excused'
  BY <1>6 DEF Notice, DocumentCloses, FileChanges
<1>7. CASE ProjectChanges \/ UNCHANGED testTreeVars
  BY <1>7 DEF ProjectChanges, testTreeVars, treeVars
<1> QED BY <1>1, <1>2, <1>3, <1>4, <1>5, <1>6, <1>7
    DEF TreeNext, Terminated, LoadWalks, RunWalks, Calls

\* A step of a call that is at no walk leaves the walks alone.
LEMMA WalksKept ==
  ASSUME TreeTypeOK, TreeTypeOK', WalkInv, NEW p \in Calls, NEW s,
         at' = [at EXCEPT ![p] = s], ~Walking(p), s \notin {"files", "reading", "fetching"},
         at[p] = "target" => target # "none", current' = current, target' = target,
         unseen' = unseen, contested \subseteq contested',
         \A q \in Calls : Walking(q) => got'[q] = got[q] /\ item'[q] = item[q]
  PROVE  WalkInv'
<1>1. \A q \in Calls : at'[q] = IF q = p THEN s ELSE at[q]
  BY DEF TreeTypeOK
<1>2. \A q \in Calls : Walking(q)' => Walking(q) /\ q # p
  BY <1>1 DEF Walking
<1>3. contested = Files => contested' = Files
  BY DEF TreeTypeOK
<1>4. \A q \in Calls : at[q] = "target" /\ target = "none" => at'[q] = "target" /\ target' = "none"
  BY <1>1
<1> QED BY <1>2, <1>3, <1>4 DEF WalkInv

\* A step keeps the walks apart.
LEMMA WalkStep ==
  ASSUME TreeTypeOK, TreeTypeOK', AtInv, WalkInv, [TreeNext]_testTreeVars PROVE WalkInv'
<1>0. contested \subseteq contested' /\ (contested = Files => contested' = Files)
  BY HistoryGrows DEF TreeTypeOK
<1>1. ASSUME NEW p \in Calls, at[p] \in {"target", "discover"}, WalkBegins(p) PROVE WalkInv'
  <2>1. /\ \A q \in Calls : at'[q] = IF q = p THEN "files" ELSE at[q]
        /\ \A q \in Calls : current'[q] = IF q = p THEN TRUE ELSE current[q]
        /\ \A q \in Calls : q # p => unseen'[q] = unseen[q]
        /\ got' = got /\ item' = item
        /\ contested' = IF \E q \in Calls : Walking(q) THEN Files ELSE contested
    BY <1>1 DEF WalkBegins, TreeTypeOK
  <2>2. got[p] = {} /\ item[p] \notin Items
    BY <1>1 DEF AtInv, Walking, Holding
  <2>3. \A q \in Calls : Walking(q)' => q = p \/ Walking(q)
    BY <2>1 DEF Walking
  <2>4. (\E q \in Calls : Walking(q)) => contested' = Files
    BY <2>1
  <2> QED BY <1>0, <2>1, <2>2, <2>3, <2>4 DEF WalkInv
<1>2. ASSUME NEW p \in Calls, LoadBegins(p) PROVE WalkInv'
  <2>1. /\ \A q \in Calls : at'[q] = IF q = p THEN "target" ELSE at[q]
        /\ UNCHANGED <<unseen, got, item, contested>>
        /\ \/ target' = "none"
           \/ target' = target /\ current' = current
    BY <1>2 DEF LoadBegins, TreeTypeOK, historyVars
  <2>2. \A q \in Calls : Walking(q)' => Walking(q)
    BY <2>1 DEF Walking
  <2>3. at[p] = "queued"
    BY <1>2 DEF LoadBegins
  <2>4. target' = "none" => \E l \in Calls : at'[l] = "target" /\ target' = "none"
    BY <2>1
  <2>5. CASE target' = "none"
    BY <2>1, <2>2, <2>4, <2>5 DEF WalkInv
  <2>6. CASE target' = target /\ current' = current
    BY <2>1, <2>2, <2>3, <2>6 DEF WalkInv
  <2> QED BY <2>1, <2>5, <2>6
<1>3. ASSUME NEW p \in Calls, NEW i \in Items, at[p] = "files", at' = at,
             i[1] \in unseen[p], unseen' = [unseen EXCEPT ![p] = @ \ {i[1]}],
             got' = got \/ got' = [got EXCEPT ![p] = @ \cup {i}],
             current' = current, target' = target, item' = item
      PROVE  WalkInv'
  <2>1. /\ \A q \in Calls : Walking(q)' = Walking(q)
        /\ item[p] \notin Items
        /\ \A q \in Calls : unseen'[q] = IF q = p THEN unseen[p] \ {i[1]} ELSE unseen[q]
        /\ \A q \in Calls : q # p => got'[q] = got[q]
        /\ got'[p] \subseteq got[p] \cup {i}
    <3>1. \A q \in Calls : Walking(q)' = Walking(q)
      BY <1>3 DEF Walking
    <3>2. item[p] \notin Items
      BY <1>3 DEF AtInv, Holding
    <3>3. \A q \in Calls : unseen'[q] = IF q = p THEN unseen[p] \ {i[1]} ELSE unseen[q]
      BY <1>3 DEF TreeTypeOK
    <3>4. /\ \A q \in Calls : q # p => got'[q] = got[q]
          /\ got'[p] \subseteq got[p] \cup {i}
      BY <1>3 DEF TreeTypeOK
    <3> QED BY <3>1, <3>2, <3>3, <3>4
  <2>2. \A l \in Calls : at[l] = "target" /\ target = "none" => at'[l] = "target" /\ target' = "none"
    BY <1>3
  <2> QED BY <1>0, <1>3, <2>1, <2>2 DEF WalkInv
<1>4. ASSUME NEW p \in Calls, VisitResolved(p) PROVE WalkInv'
  <2>1. PICK f \in unseen[p] : /\ Found(f) /\ Judge(p, <<f, reused[f]>>, shown[<<f, reused[f]>>])
                               /\ unseen' = [unseen EXCEPT ![p] = @ \ {f}]
    BY <1>4 DEF VisitResolved
  <2>2. <<f, reused[f]>> \in Items /\ <<f, reused[f]>>[1] = f
    BY <2>1, ItemParts DEF Found, TreeTypeOK
  <2>3. got' = got \/ got' = [got EXCEPT ![p] = @ \cup {<<f, reused[f]>>}]
    BY <2>1 DEF Judge
  <2>4. at[p] = "files" /\ UNCHANGED <<at, item, current, target>>
    BY <1>4 DEF VisitResolved
  <2> QED BY <1>3, <2>1, <2>2, <2>3, <2>4
<1>5. ASSUME NEW p \in Calls, Visit(p) PROVE WalkInv'
  <2>0. PICK f \in unseen[p], i \in Items : /\ GetOrCreate(f, i) /\ item' = [item EXCEPT ![p] = i]
                                            /\ unseen' = [unseen EXCEPT ![p] = @ \ {f}]
    BY <1>5 DEF Visit
  <2>1. /\ i[1] \in unseen[p] /\ item' = [item EXCEPT ![p] = i]
        /\ unseen' = [unseen EXCEPT ![p] = @ \ {i[1]}]
    BY <2>0 DEF GetOrCreate
  <2>2. /\ at[p] = "files" /\ UNCHANGED <<got, current, target>>
        /\ \A q \in Calls : at'[q] = IF q = p THEN "reading" ELSE at[q]
    BY <1>5 DEF Visit, TreeTypeOK
  <2>3. /\ \A q \in Calls : Walking(q)' = Walking(q)
        /\ \A q \in Calls : unseen'[q] = IF q = p THEN unseen[p] \ {i[1]} ELSE unseen[q]
        /\ \A q \in Calls : item'[q] = IF q = p THEN i ELSE item[q]
    BY <2>1, <2>2 DEF Walking, TreeTypeOK
  <2>4. \A l \in Calls : at[l] = "target" /\ target = "none" => at'[l] = "target" /\ target' = "none"
    BY <2>2
  <2>5. Walking(p)
    BY <2>2 DEF Walking
  <2> QED BY <1>0, <2>1, <2>2, <2>3, <2>4, <2>5 DEF WalkInv
<1>6. ASSUME NEW p \in Calls, Read(p) \/ Fetched(p) PROVE WalkInv'
  <2>1. /\ at[p] \in {"reading", "fetching"} /\ UNCHANGED <<unseen, current, target>>
        /\ \E s \in {"files", "fetching"} : \A q \in Calls : at'[q] = IF q = p THEN s ELSE at[q]
        /\ \/ item' = item /\ got' = got
           \/ /\ item' = [item EXCEPT ![p] = NoItem]
              /\ got' = got \/ got' = [got EXCEPT ![p] = @ \cup {item[p]}]
    BY <1>6 DEF Read, Fetched, Judge, TreeTypeOK
  <2>2. item[p] \in Items /\ Walking(p) /\ NoItem \notin Items
    BY <2>1, ItemParts DEF AtInv, Holding, Walking
  <2>3. \A q \in Calls : Walking(q)' = Walking(q)
    BY <2>1 DEF Walking
  <2>4. \A l \in Calls : at[l] = "target" /\ target = "none" => at'[l] = "target" /\ target' = "none"
    BY <2>1
  <2>5. CASE item' = item /\ got' = got
    BY <1>0, <2>1, <2>3, <2>4, <2>5 DEF WalkInv
  <2>6. CASE /\ item' = [item EXCEPT ![p] = NoItem]
             /\ got' = got \/ got' = [got EXCEPT ![p] = @ \cup {item[p]}]
    <3>1. /\ \A q \in Calls : item'[q] = IF q = p THEN NoItem ELSE item[q]
          /\ \A q \in Calls : q # p => got'[q] = got[q]
          /\ got'[p] \subseteq got[p] \cup {item[p]}
      BY <2>6 DEF TreeTypeOK
    <3> QED BY <1>0, <2>1, <2>2, <2>3, <2>4, <3>1 DEF WalkInv
  <2> QED BY <2>1, <2>5, <2>6
<1>7. ASSUME NEW p \in Calls, NEW s \in {"done", "discover", "lookup"},
             WalkEnds(p), at' = [at EXCEPT ![p] = s]
      PROVE  WalkInv'
  <2>1. /\ at[p] = "files" /\ UNCHANGED <<unseen, item, contested>>
        /\ \A q \in Calls : at'[q] = IF q = p THEN s ELSE at[q]
        /\ \A q \in Calls : q # p => got'[q] = got[q]
    BY <1>7 DEF WalkEnds, TreeTypeOK
  <2>2. \A q \in Calls : Walking(q)' => Walking(q) /\ q # p
    BY <2>1 DEF Walking
  <2>3. Walking(p)
    BY <2>1 DEF Walking
  <2>4. \A q \in Calls : Walking(q)' => contested' = Files
    BY <2>1, <2>2, <2>3 DEF WalkInv
  <2> QED BY <2>1, <2>2, <2>4 DEF WalkInv
<1>8. ASSUME NEW p \in Calls, LoadWalked(p) PROVE WalkInv'
  <2>1. PICK s : s = IF p \in Loads THEN "done" ELSE IF p \in Runs THEN "discover" ELSE "lookup"
    OBVIOUS
  <2>2. at' = [at EXCEPT ![p] = s]
    BY <1>8, <2>1, LoadLeads DEF LoadWalked, LoadEnds
  <2> QED BY <1>7, <1>8, <2>1, <2>2 DEF LoadWalked
<1>9. ASSUME NEW p \in Calls, LoadSkips(p) PROVE WalkInv'
  <2>1. PICK s : s = IF p \in Loads THEN "done" ELSE IF p \in Runs THEN "discover" ELSE "lookup"
    OBVIOUS
  <2>2. at' = [at EXCEPT ![p] = s] /\ s \notin {"files", "reading", "fetching"}
    BY <1>9, <2>1, LoadLeads DEF LoadSkips, LoadEnds
  <2>3. ~Walking(p) /\ target = "done" /\ UNCHANGED <<current, target, unseen, got, item>>
    BY <1>9 DEF LoadSkips, Walking
  <2> QED BY <1>0, <2>2, <2>3, WalksKept
<1>10. ASSUME NEW p \in Calls, Call(p) \/ Gather(p) \/ RunGoes(p) \/ DocLoads(p) PROVE WalkInv'
  <2>1. PICK s \in {"queued", "items", "done"} : at' = [at EXCEPT ![p] = s]
    BY <1>10 DEF Call, Gather, RunGoes, DocLoads
  <2>2. /\ at[p] \in {"idle", "discover", "items", "lookup"}
        /\ UNCHANGED <<current, target, unseen, item>>
        /\ \A q \in Calls : q # p => got'[q] = got[q]
    BY <1>10 DEF Call, Gather, RunGoes, DocLoads, TreeTypeOK
  <2>3. ~Walking(p) /\ at[p] # "target"
    BY <2>2 DEF Walking
  <2> QED BY <1>0, <2>1, <2>2, <2>3, WalksKept
<1>11. ASSUME NEW p \in Calls, VisitItem(p) PROVE WalkInv'
  <2>1. PICK s \in {"items", "itemReading"} : at' = [at EXCEPT ![p] = s]
    <3>1. at \in [Calls -> Steps] /\ at[p] = "items"
          /\ (at' = at \/ at' = [at EXCEPT ![p] = "itemReading"])
      BY <1>11 DEF VisitItem, TreeTypeOK
    <3>2. at' = at => at' = [at EXCEPT ![p] = "items"]
      BY <3>1
    <3> QED BY <3>1, <3>2
  <2>2. /\ at[p] = "items" /\ UNCHANGED <<current, target, unseen>>
        /\ \A q \in Calls : q # p => got'[q] = got[q] /\ item'[q] = item[q]
    BY <1>11 DEF VisitItem, TreeTypeOK
  <2>3. ~Walking(p) /\ at[p] # "target"
    BY <2>2 DEF Walking
  <2> QED BY <1>0, <2>1, <2>2, <2>3, WalksKept
<1>12. ASSUME NEW p \in Calls, ReadItem(p) \/ ItemFetched(p) \/ DocAsks(p) \/ DocFetched(p) \/ Expand(p)
       PROVE  WalkInv'
  <2>1. PICK s \in {"items", "itemReading", "itemFetching", "docFetching", "idle"} :
           at' = [at EXCEPT ![p] = s]
    BY <1>12 DEF ReadItem, ItemFetched, DocAsks, DocFetched, Expand
  <2>2. /\ at[p] \in {"idle", "itemReading", "itemFetching", "lookup", "docFetching"}
        /\ UNCHANGED <<current, target, unseen, got>>
        /\ \A q \in Calls : q # p => item'[q] = item[q]
    BY <1>12 DEF ReadItem, ItemFetched, DocAsks, DocFetched, Expand, TreeTypeOK
  <2>3. ~Walking(p) /\ at[p] # "target"
    BY <2>2 DEF Walking
  <2> QED BY <1>0, <2>1, <2>2, <2>3, WalksKept
<1>13. ASSUME NEW d \in Docs, NEW f \in Files, NEW v \in Versions, Edit(d, f, v) PROVE WalkInv'
  <2>1. /\ at[d] = "idle" /\ at' = [at EXCEPT ![d] = "lookup"] /\ d \in Calls
        /\ UNCHANGED <<current, target, unseen, got, item>>
    BY <1>13 DEF Edit, Calls
  <2>2. ~Walking(d)
    BY <2>1 DEF Walking
  <2> QED BY <1>0, <2>1, <2>2, WalksKept
<1>14. ASSUME UNCHANGED <<callVars, target, contested>> PROVE WalkInv'
  BY <1>14 DEF WalkInv, callVars, Walking
<1>15. ASSUME NEW f \in Files, Notice(f) \/ DocumentCloses(f) \/ \E v \in Versions : FileChanges(f, v)
       PROVE  WalkInv'
  BY <1>14, <1>15 DEF Notice, DocumentCloses, FileChanges, historyVars
<1>16. CASE ProjectChanges \/ UNCHANGED testTreeVars
  BY <1>14, <1>16 DEF ProjectChanges, testTreeVars, treeVars, historyVars
<1>17. ASSUME NEW p \in Runs, RunWalked(p) PROVE WalkInv'
  BY <1>7, <1>17 DEF RunWalked, Calls
<1>18. ASSUME NEW p \in Calls, LoadWalks(p) \/ RunWalks(p) PROVE WalkInv'
  BY <1>1, <1>18 DEF LoadWalks, RunWalks
<1> QED BY <1>2, <1>4, <1>5, <1>6, <1>8, <1>9, <1>10, <1>11, <1>12, <1>13, <1>15, <1>16, <1>17, <1>18
    DEF TreeNext, Terminated, Calls

-----------------------------------------------------------------------------
(* The items of a file, and who is at them *)

\* An item comes into use when a walk or a document goes to it.
LEMMA FreeStep ==
  ASSUME TreeTypeOK, AtInv, [TreeNext]_testTreeVars, NEW i \in Items, Free(i), ~Free(i)'
  PROVE  \E p \in Calls : item' = [item EXCEPT ![p] = i] /\ GoesTo(p, i) /\ UNCHANGED got
<1>0. /\ place[i] = "out" /\ \A p \in Calls : i # item[p] /\ i \notin got[p]
      /\ place'[i] = "out" => \E p \in Calls : i = item'[p] \/ i \in got'[p]
  BY DEF Free, Visible
<1>1. ASSUME NEW p \in Calls, place'[i] = "out", item' = item \/ item' = [item EXCEPT ![p] = NoItem],
             \A q \in Calls : i \notin got'[q]
      PROVE  FALSE
  <2>1. \A q \in Calls : item'[q] = item[q] \/ item'[q] = NoItem
    BY <1>1 DEF TreeTypeOK
  <2> QED BY <1>0, <1>1, <2>1, ItemParts
<1>2. ASSUME NEW p \in Calls,
             Call(p) \/ LoadSkips(p) \/ LoadWalks(p) \/ RunWalks(p) \/ ReadItem(p) \/ ItemFetched(p)
               \/ RunGoes(p) \/ DocLoads(p)
      PROVE  FALSE
  <2>1. /\ UNCHANGED <<place, got>>
        /\ item' = item \/ item' = [item EXCEPT ![p] = NoItem]
    BY <1>2 DEF Call, LoadSkips, LoadWalks, RunWalks, WalkBegins, ReadItem, ItemFetched, RunGoes,
       DocLoads, placeVars
  <2> QED BY <1>0, <1>1, <2>1
<1>3. ASSUME NEW p \in Calls, LoadBegins(p) \/ Gather(p) PROVE FALSE
  <2>1. item' = item
    BY <1>3 DEF LoadBegins, Gather
  <2>2. place'[i] = "out"
    BY <1>0, <1>3 DEF LoadBegins, Gather, placeVars
  <2>3. \A q \in Calls : i \notin got'[q]
    <3>1. CASE LoadBegins(p)
      BY <1>0, <3>1 DEF LoadBegins
    <3>2. CASE Gather(p)
      BY <1>0, <3>2 DEF Gather, TreeTypeOK, Visible
    <3> QED BY <1>3, <3>1, <3>2
  <2> QED BY <1>1, <2>1, <2>2, <2>3
<1>4. ASSUME NEW p \in Calls, WalkEnds(p) PROVE FALSE
  <2>1. /\ UNCHANGED item /\ place'[i] = "out"
        /\ \A q \in Calls : i \notin got'[q]
    BY <1>0, <1>4 DEF WalkEnds, ReplaceChildren, TreeTypeOK
  <2> QED BY <1>1, <2>1
<1>5. ASSUME NEW p \in Calls, NEW j \in Items, NEW v \in Versions, j # i, Judge(p, j, v)
      PROVE  place'[i] = "out" /\ \A q \in Calls : i \notin got'[q]
  <2>1. place' = place \/ Delete(j[1])
    BY <1>5 DEF Judge, placeVars
  <2>2. place'[i] = "out"
    BY <1>0, <2>1 DEF Delete, TreeTypeOK
  <2>3. got' = got \/ got' = [got EXCEPT ![p] = got[p] \cup {j}]
    BY <1>5 DEF Judge
  <2>4. got \in [Calls -> SUBSET Items]
    BY DEF TreeTypeOK
  <2>5. \A q \in Calls : i \notin got'[q]
    BY <1>0, <1>5, <2>3, <2>4
  <2> QED BY <2>2, <2>5
<1>6. ASSUME NEW p \in Calls, VisitResolved(p) PROVE FALSE
  <2>1. PICK f \in Files : Found(f) /\ Judge(p, <<f, reused[f]>>, shown[<<f, reused[f]>>])
    BY <1>6 DEF VisitResolved, TreeTypeOK
  <2>2. <<f, reused[f]>> \in Items
    BY <2>1, ItemParts DEF Found, TreeTypeOK
  <2>3. shown[<<f, reused[f]>>] \in Versions /\ <<f, reused[f]>> # i
    BY <1>0, <2>1, <2>2 DEF TreeTypeOK, Found, Visible
  <2>4. item' = item
    BY <1>6 DEF VisitResolved
  <2> QED BY <1>1, <1>5, <2>1, <2>2, <2>3, <2>4
<1>7. ASSUME NEW p \in Calls, Read(p) \/ Fetched(p) PROVE FALSE
  <2>1. item[p] \in Items /\ item[p] # i
    BY <1>0, <1>7 DEF Read, Fetched, AtInv, Holding
  <2>2. shown[item[p]] \in Versions
    BY <2>1 DEF TreeTypeOK
  <2>3. \/ UNCHANGED <<place, got, item>>
        \/ item' = [item EXCEPT ![p] = NoItem] /\ \E v \in Versions : Judge(p, item[p], v)
    BY <1>7, <2>2 DEF Read, Fetched, placeVars
  <2>4. place'[i] = "out" /\ \A q \in Calls : i \notin got'[q]
    BY <1>0, <1>5, <2>1, <2>3
  <2> QED BY <1>1, <2>3, <2>4
<1>8. ASSUME NEW p \in Calls, VisitItem(p) PROVE FALSE
  <2>1. PICK j \in got[p] : item' = item \/ item' = [item EXCEPT ![p] = j]
    BY <1>8 DEF VisitItem
  <2>2. place' = place /\ j # i /\ \A q \in Calls : i \notin got'[q]
    BY <1>0, <1>8, <2>1 DEF VisitItem, placeVars, TreeTypeOK
  <2>3. \A q \in Calls : item'[q] # i
    BY <1>0, <2>1, <2>2 DEF TreeTypeOK
  <2> QED BY <1>0, <2>2, <2>3
<1>9. ASSUME NEW d \in Docs, DocFetched(d) PROVE FALSE
  <2>1. item[d] # i /\ d \in Calls
    BY <1>0 DEF Calls
  <2>2. place'[i] = "out"
    BY <1>0, <1>9, <2>1 DEF DocFetched, Delete, TreeTypeOK, placeVars
  <2>3. item' = [item EXCEPT ![d] = NoItem] /\ got' = got
    BY <1>9 DEF DocFetched
  <2> QED BY <1>0, <1>1, <2>1, <2>2, <2>3
<1>10. ASSUME NEW p \in Calls, NEW j \in Items, item' = [item EXCEPT ![p] = j], GetOrCreate(j[1], j),
              GoesTo(p, j), UNCHANGED got
       PROVE  \E q \in Calls : item' = [item EXCEPT ![q] = i] /\ GoesTo(q, i) /\ UNCHANGED got
  <2>1. CASE j = i
    BY <1>10, <2>1
  <2>2. CASE j # i
    <3>1. place'[i] = "out"
      BY <1>0, <1>10, <2>2 DEF GetOrCreate, placeVars, TreeTypeOK
    <3>2. \A q \in Calls : item'[q] # i
      BY <1>0, <1>10, <2>2 DEF TreeTypeOK
    <3> QED BY <1>0, <1>10, <3>1, <3>2
  <2> QED BY <2>1, <2>2
<1>11. ASSUME NEW p \in Calls, Visit(p)
       PROVE  \E q \in Calls : item' = [item EXCEPT ![q] = i] /\ GoesTo(q, i) /\ UNCHANGED got
  <2>1. PICK j \in Items : item' = [item EXCEPT ![p] = j] /\ GetOrCreate(j[1], j) /\ GoesTo(p, j)
    BY <1>11 DEF Visit, GetOrCreate
  <2> QED BY <1>10, <1>11, <2>1 DEF Visit
<1>12. ASSUME NEW d \in Docs, DocAsks(d)
       PROVE  \E q \in Calls : item' = [item EXCEPT ![q] = i] /\ GoesTo(q, i) /\ UNCHANGED got
  <2>1. PICK j \in Items : item' = [item EXCEPT ![d] = j] /\ GetOrCreate(j[1], j) /\ GoesTo(d, j)
    BY <1>12 DEF DocAsks, GetOrCreate
  <2> QED BY <1>10, <1>12, <2>1 DEF DocAsks, Calls
<1>13. ASSUME UNCHANGED <<place, item, got>> PROVE FALSE
  BY <1>0, <1>13
<1>14. ASSUME NEW d \in Docs, NEW f \in Files, NEW v \in Versions, Edit(d, f, v) PROVE FALSE
  BY <1>13, <1>14 DEF Edit, placeVars
<1>15. ASSUME NEW f \in Files, Notice(f) \/ DocumentCloses(f) \/ \E v \in Versions : FileChanges(f, v)
       PROVE  FALSE
  BY <1>13, <1>15 DEF Notice, DocumentCloses, FileChanges, placeVars, callVars
<1>16. CASE ProjectChanges \/ UNCHANGED testTreeVars
  BY <1>13, <1>16 DEF ProjectChanges, testTreeVars, treeVars, placeVars, callVars
<1>17. ASSUME NEW p \in Calls, Expand(p) PROVE FALSE
  <2>1. PICK j \in Items : Visible(j) /\ item' = [item EXCEPT ![p] = j]
    BY <1>17 DEF Expand
  <2>2. place' = place /\ j # i /\ got' = got
    BY <1>0, <1>17, <2>1 DEF Expand, placeVars, Visible
  <2>3. \A q \in Calls : item'[q] # i
    BY <1>0, <2>1, <2>2 DEF TreeTypeOK
  <2> QED BY <1>0, <2>2, <2>3
<1> QED BY <1>2, <1>3, <1>4, <1>6, <1>7, <1>8, <1>9, <1>11, <1>12, <1>14, <1>15, <1>16, <1>17
    DEF TreeNext, Terminated, LoadWalked, RunWalked, Calls

\* A file that is not contested keeps one item.
LEMMA OneItemStep ==
  ASSUME TreeTypeOK, TreeTypeOK', AtInv, [TreeNext]_testTreeVars,
         NEW f \in Files, f \notin contested', OneItem(f)
  PROVE  OneItem(f)'
<1> SUFFICES ASSUME NEW i \in Items, NEW j \in Items, i[1] = f, j[1] = f, ~Free(i)', ~Free(j)', i # j
             PROVE  FALSE
  BY DEF OneItem
<1>1. Free(i) \/ Free(j)
  BY DEF OneItem
<1>2. ASSUME NEW k \in Items, NEW l \in Items, k[1] = f, l[1] = f, k # l, Free(k), ~Free(k)', ~Free(l)'
      PROVE  FALSE
  <2>1. PICK p \in Calls : item' = [item EXCEPT ![p] = k] /\ GoesTo(p, k) /\ UNCHANGED got
    BY <1>2, FreeStep
  <2>2. ~Meets(p, k)
    BY <1>2, <2>1 DEF GoesTo, Contest
  <2>3. Free(l)
    BY <1>2, <2>2 DEF Meets
  <2>4. PICK q \in Calls : item' = [item EXCEPT ![q] = l]
    BY <1>2, <2>3, FreeStep
  <2>5. item'[p] = k /\ item'[q] = l
    BY <2>1, <2>4 DEF TreeTypeOK
  <2>6. q # p /\ item'[q] = item[q]
    BY <1>2, <2>1, <2>5 DEF TreeTypeOK
  <2> QED BY <2>3, <2>5, <2>6 DEF Free
<1> QED BY <1>1, <1>2

\* A file that is not contested keeps one holder, and no walk takes its item along.
LEMMA HolderStep ==
  ASSUME TreeTypeOK, TreeTypeOK', AtInv, WalkInv, [TreeNext]_testTreeVars,
         NEW f \in Files, f \notin contested', OneHolder(f), InNoWalk(f)
  PROVE  OneHolder(f)' /\ InNoWalk(f)'
<1> USE DEF OneHolder, InNoWalk
<1>1. ASSUME \A p \in Calls : item'[p] = item[p] \/ item'[p] \notin Items,
             \A q \in Calls : Walking(q)' => got'[q] = {} \/ (Walking(q) /\ got'[q] = got[q])
      PROVE  OneHolder(f)' /\ InNoWalk(f)'
  BY <1>1
<1>2. ASSUME NEW p \in Calls, NEW i \in Items, ~Meets(p, i) \/ i[1] # f,
             item' = [item EXCEPT ![p] = i],
             \A q \in Calls : Walking(q)' => Walking(q) /\ got'[q] = got[q]
      PROVE  OneHolder(f)' /\ InNoWalk(f)'
  <2>1. \A q \in Calls : item'[q] = IF q = p THEN i ELSE item[q]
    BY <1>2 DEF TreeTypeOK
  <2>2. i[1] = f => \A q \in Calls \ {p} : item[q] # i /\ (Walking(q) => i \notin got[q])
    BY <1>2 DEF Meets
  <2> QED BY <1>2, <2>1, <2>2
<1>3. ASSUME NEW p \in Calls, VisitResolved(p) PROVE OneHolder(f)' /\ InNoWalk(f)'
  <2>1. PICK g \in Files : /\ Found(g) /\ Judge(p, <<g, reused[g]>>, shown[<<g, reused[g]>>])
                           /\ GoesTo(p, <<g, reused[g]>>)
    BY <1>3 DEF VisitResolved, TreeTypeOK
  <2>2. <<g, reused[g]>> \in Items /\ <<g, reused[g]>>[1] = g
    BY <2>1, ItemParts DEF Found, TreeTypeOK
  <2>3. PICK i \in Items : i = <<g, reused[g]>>
    BY <2>2
  <2>4. i[1] = f => \A q \in Calls \ {p} : item[q] # i
    BY <2>1, <2>2, <2>3 DEF GoesTo, Contest, Meets
  <2>5. \A q \in Calls : got'[q] \subseteq IF q = p THEN got[p] \cup {i} ELSE got[q]
    BY <2>1, <2>3 DEF Judge, TreeTypeOK
  <2>6. UNCHANGED <<at, item>>
    BY <1>3 DEF VisitResolved
  <2>7. \A q \in Calls : Walking(q)' = Walking(q)
    BY <2>6 DEF Walking
  <2> QED BY <2>4, <2>5, <2>6, <2>7
<1>4. ASSUME NEW p \in Calls, Read(p) \/ Fetched(p) PROVE OneHolder(f)' /\ InNoWalk(f)'
  <2>1. /\ at[p] \in {"reading", "fetching"}
        /\ \E s \in {"files", "fetching"} : at' = [at EXCEPT ![p] = s]
        /\ \/ item' = item /\ got' = got
           \/ item' = [item EXCEPT ![p] = NoItem] /\ \E v : Judge(p, item[p], v)
    BY <1>4 DEF Read, Fetched
  <2>2. item[p] \in Items /\ Walking(p)
    BY <2>1 DEF AtInv, Holding, Walking
  <2>3. \A q \in Calls : Walking(q)' = Walking(q)
    BY <2>1, <2>2 DEF Walking, TreeTypeOK
  <2>4. CASE item' = item /\ got' = got
    BY <2>3, <2>4
  <2>5. CASE item' = [item EXCEPT ![p] = NoItem] /\ \E v : Judge(p, item[p], v)
    <3>1. \A q \in Calls : got'[q] \subseteq IF q = p THEN got[p] \cup {item[p]} ELSE got[q]
      BY <2>5 DEF Judge, TreeTypeOK
    <3>2. \A q \in Calls : item'[q] = IF q = p THEN NoItem ELSE item[q]
      BY <2>5 DEF TreeTypeOK
    <3>3. ASSUME NEW q \in Calls, item'[q] \in Items PROVE q # p /\ item'[q] = item[q]
      BY <3>2, <3>3, ItemParts
    <3>4. OneHolder(f)'
      BY <3>3
    <3>5. ASSUME NEW q \in Calls, NEW r \in Calls, item'[q] \in Items, item'[q][1] = f, q # r, Walking(r)'
          PROVE  item'[q] \notin got'[r]
      <4>1. q # p /\ item'[q] = item[q] /\ item[q] \notin got[r] /\ item[q] # item[p]
        BY <2>2, <2>3, <3>3, <3>5
      <4> QED BY <3>1, <4>1
    <3>6. InNoWalk(f)'
      <4> HIDE DEF OneHolder
      <4> QED BY <3>5
    <3> QED BY <3>4, <3>6
  <2> QED BY <2>1, <2>4, <2>5
<1>5. ASSUME NEW p \in Calls, WalkBegins(p), at[p] \in {"target", "discover"}
      PROVE  OneHolder(f)' /\ InNoWalk(f)'
  <2>1. item' = item /\ got' = got /\ \A q \in Calls : at'[q] = IF q = p THEN "files" ELSE at[q]
    BY <1>5 DEF WalkBegins, TreeTypeOK
  <2>2. got[p] = {}
    BY <1>5 DEF AtInv, Walking
  <2>3. \A q \in Calls : Walking(q)' => q = p \/ Walking(q)
    BY <2>1 DEF Walking
  <2> QED BY <1>1, <2>1, <2>2, <2>3
<1>6. ASSUME NEW p \in Calls, NEW s, s \notin {"files", "reading", "fetching"},
             at' = [at EXCEPT ![p] = s], item' = item \/ item' = [item EXCEPT ![p] = NoItem],
             \A q \in Calls : q # p => got'[q] = got[q]
      PROVE  OneHolder(f)' /\ InNoWalk(f)'
  <2>1. \A q \in Calls : Walking(q)' => Walking(q) /\ q # p
    BY <1>6 DEF Walking, TreeTypeOK
  <2>2. \A q \in Calls : item'[q] = item[q] \/ item'[q] \notin Items
    BY <1>6, ItemParts DEF TreeTypeOK
  <2> QED BY <1>1, <1>6, <2>1, <2>2
<1>7. ASSUME NEW p \in Calls, LoadSkips(p) \/ LoadWalked(p) PROVE OneHolder(f)' /\ InNoWalk(f)'
  <2>1. PICK s : s = IF p \in Loads THEN "done" ELSE IF p \in Runs THEN "discover" ELSE "lookup"
    OBVIOUS
  <2>2. at' = [at EXCEPT ![p] = s]
    BY <1>7, <2>1, LoadLeads DEF LoadSkips, LoadWalked, LoadEnds
  <2>3. item' = item /\ \A q \in Calls : q # p => got'[q] = got[q]
    BY <1>7 DEF LoadSkips, LoadWalked, WalkEnds, TreeTypeOK
  <2>4. s \notin {"files", "reading", "fetching"}
    BY <2>1
  <2> HIDE DEF OneHolder, InNoWalk
  <2> QED BY <1>6, <2>2, <2>3, <2>4
<1>8. ASSUME NEW p \in Calls, Call(p) \/ LoadBegins(p) \/ RunWalked(p) \/ Gather(p) \/ ReadItem(p)
                              \/ ItemFetched(p) \/ RunGoes(p) \/ DocLoads(p) \/ DocFetched(p)
      PROVE  OneHolder(f)' /\ InNoWalk(f)'
  <2>1. \E s \in {"idle", "queued", "target", "discover", "items", "itemFetching", "done"} :
           at' = [at EXCEPT ![p] = s]
    BY <1>8 DEF Call, LoadBegins, RunWalked, Gather, ReadItem, ItemFetched, RunGoes, DocLoads, DocFetched
  <2>2. item' = item \/ item' = [item EXCEPT ![p] = NoItem]
    BY <1>8 DEF Call, LoadBegins, RunWalked, WalkEnds, Gather, ReadItem, ItemFetched, RunGoes, DocLoads,
       DocFetched
  <2>3. \A q \in Calls : q # p => got'[q] = got[q]
    BY <1>8 DEF Call, LoadBegins, RunWalked, WalkEnds, Gather, ReadItem, ItemFetched, RunGoes, DocLoads,
       DocFetched, TreeTypeOK
  <2> QED BY <1>6, <2>1, <2>2, <2>3
<1>9. ASSUME NEW p \in Calls, Visit(p) PROVE OneHolder(f)' /\ InNoWalk(f)'
  <2>1. PICK i \in Items : item' = [item EXCEPT ![p] = i] /\ GoesTo(p, i)
    BY <1>9 DEF Visit
  <2>2. ~Meets(p, i) \/ i[1] # f
    BY <2>1 DEF GoesTo, Contest
  <2>3. got' = got /\ at[p] = "files" /\ at' = [at EXCEPT ![p] = "reading"]
    BY <1>9 DEF Visit
  <2>4. \A q \in Calls : Walking(q)' => Walking(q)
    BY <2>3 DEF Walking, TreeTypeOK
  <2> QED BY <1>2, <2>1, <2>2, <2>3, <2>4
<1>10. ASSUME NEW p \in Calls, DocAsks(p) PROVE OneHolder(f)' /\ InNoWalk(f)'
  <2>1. PICK i \in Items : item' = [item EXCEPT ![p] = i] /\ GoesTo(p, i)
    BY <1>10 DEF DocAsks
  <2>2. ~Meets(p, i) \/ i[1] # f
    BY <2>1 DEF GoesTo, Contest
  <2>3. got' = got /\ at' = [at EXCEPT ![p] = "docFetching"]
    BY <1>10 DEF DocAsks
  <2>4. \A q \in Calls : Walking(q)' => Walking(q)
    BY <2>3 DEF Walking, TreeTypeOK
  <2> QED BY <1>2, <2>1, <2>2, <2>3, <2>4
<1>11. ASSUME NEW p \in Calls, VisitItem(p) PROVE OneHolder(f)' /\ InNoWalk(f)'
  <2>1. PICK i \in Items : /\ item' = item \/ item' = [item EXCEPT ![p] = i]
                           /\ GoesTo(p, i) \/ Contest(i)
                           /\ got' = [got EXCEPT ![p] = got[p] \ {i}]
    BY <1>11 DEF VisitItem, TreeTypeOK
  <2>2. ~Meets(p, i) \/ i[1] # f
    BY <2>1 DEF GoesTo, Contest
  <2>3. at[p] = "items" /\ (at' = at \/ at' = [at EXCEPT ![p] = "itemReading"])
    BY <1>11 DEF VisitItem
  <2>4. \A q \in Calls : Walking(q)' => Walking(q) /\ got'[q] = got[q]
    BY <2>1, <2>3 DEF Walking, TreeTypeOK
  <2> QED BY <1>1, <1>2, <2>1, <2>2, <2>4
<1>12. ASSUME item' = item, got' = got, \A q \in Calls : Walking(q)' => Walking(q)
       PROVE  OneHolder(f)' /\ InNoWalk(f)'
  BY <1>1, <1>12
<1>13. ASSUME NEW d \in Docs, NEW g \in Files, NEW v \in Versions, Edit(d, g, v)
       PROVE  OneHolder(f)' /\ InNoWalk(f)'
  <2>1. item' = item /\ got' = got /\ at' = [at EXCEPT ![d] = "lookup"]
    BY <1>13 DEF Edit
  <2>2. \A q \in Calls : Walking(q)' => Walking(q)
    BY <2>1 DEF Walking, TreeTypeOK
  <2> QED BY <1>12, <2>1, <2>2
<1>14. ASSUME UNCHANGED callVars PROVE OneHolder(f)' /\ InNoWalk(f)'
  BY <1>12, <1>14 DEF callVars, Walking
<1>15. ASSUME NEW g \in Files, Notice(g) \/ DocumentCloses(g) \/ \E v \in Versions : FileChanges(g, v)
       PROVE  OneHolder(f)' /\ InNoWalk(f)'
  BY <1>14, <1>15 DEF Notice, DocumentCloses, FileChanges
<1>16. CASE ProjectChanges \/ UNCHANGED testTreeVars
  BY <1>14, <1>16 DEF ProjectChanges, testTreeVars, treeVars
<1>17. ASSUME NEW p \in Calls, LoadWalks(p) \/ RunWalks(p) PROVE OneHolder(f)' /\ InNoWalk(f)'
  BY <1>5, <1>17 DEF LoadWalks, RunWalks
<1>18. ASSUME NEW p \in Calls, Expand(p) PROVE OneHolder(f)' /\ InNoWalk(f)'
  <2>1. PICK i \in Items : item' = [item EXCEPT ![p] = i] /\ GoesTo(p, i)
    BY <1>18 DEF Expand
  <2>2. ~Meets(p, i) \/ i[1] # f
    BY <2>1 DEF GoesTo, Contest
  <2>3. got' = got /\ at' = [at EXCEPT ![p] = "itemReading"]
    BY <1>18 DEF Expand
  <2>4. \A q \in Calls : Walking(q)' => Walking(q)
    BY <2>3 DEF Walking, TreeTypeOK
  <2> QED BY <1>2, <2>1, <2>2, <2>3, <2>4
<1> HIDE DEF OneHolder, InNoWalk
<1> QED BY <1>3, <1>4, <1>7, <1>8, <1>9, <1>10, <1>11, <1>13, <1>15, <1>16, <1>17, <1>18
    DEF TreeNext, Terminated, Calls

\* An item of a file that is deleted, with nobody at it, leaves nothing behind.
LEMMA DeleteReused ==
  ASSUME TreeTypeOK, TreeTypeOK', NEW f \in Files, Delete(f), SeenIsReused(f),
         \A p \in Calls : item'[p] \in Items => item'[p][1] # f,
         \A p \in Calls, i \in Items : current'[p] /\ i \in got'[p] => i[1] # f
  PROVE  SeenIsReused(f)' /\ HeldIsReused(f)' /\ GotIsReused(f)'
<1>1. ASSUME NEW i \in Items, i[1] = f, Visible(i)' PROVE reused'[f] = i[2]
  <2>1. i[2] # 0 /\ i = <<f, i[2]>>
    BY <1>1, ItemParts, TreeAssumption
  <2>2. Visible(i)
    BY <1>1 DEF Delete, Visible, TreeTypeOK
  <2>3. reused[f] = i[2]
    BY <1>1, <2>2 DEF SeenIsReused
  <2>4. Found(f)
    BY <2>1, <2>2, <2>3 DEF Found
  <2> QED BY <2>3, <2>4 DEF Delete
<1> QED BY <1>1 DEF SeenIsReused, HeldIsReused, GotIsReused

\* One that is made is the only one of its file.
LEMMA CreateReused ==
  ASSUME TreeTypeOK, TreeTypeOK', AtInv, NEW f \in Files, NEW p \in Calls, NEW i \in Items, GetOrCreate(f, i),
         ~Meets(p, i), SeenIsReused(f), HeldIsReused(f), GotIsReused(f), item[p] \notin Items,
         item' = [item EXCEPT ![p] = i], UNCHANGED <<got, current>>,
         \A q \in Calls : q # p => at'[q] = at[q]
  PROVE  SeenIsReused(f)' /\ HeldIsReused(f)' /\ GotIsReused(f)'
<1>1. i[1] = f /\ \A j \in Items : j # i /\ j[1] = f => Free(j)
  BY DEF GetOrCreate, Meets
<1>2. \A q \in Calls : item'[q] = IF q = p THEN i ELSE item[q]
  BY DEF TreeTypeOK
<1>3. CASE Found(f)
  <2>1. i[2] = reused[f] /\ UNCHANGED <<place, reused>>
    BY <1>3 DEF GetOrCreate, placeVars
  <2> QED BY <1>2, <2>1 DEF SeenIsReused, HeldIsReused, GotIsReused, Visible
<1>4. CASE ~Found(f)
  <2>1. /\ Free(i) /\ reused'[f] = i[2]
        /\ \A j \in Items : j # i => place'[j] = place[j]
    BY <1>1, <1>4 DEF GetOrCreate, Fresh, TreeTypeOK
  <2>2. \A j \in Items : j[1] = f => ~Visible(j) /\ \A q \in Calls : j # item[q] /\ j \notin got[q]
    BY <1>1, <2>1 DEF Free
  <2>3. SeenIsReused(f)'
    BY <2>1, <2>2 DEF SeenIsReused, Visible
  <2>4. HeldIsReused(f)'
    BY <1>2, <2>1, <2>2 DEF HeldIsReused
  <2>5. GotIsReused(f)'
    BY <2>2 DEF GotIsReused
  <2> QED BY <2>3, <2>4, <2>5
<1> QED BY <1>3, <1>4

\* For a file that is not contested, the context finds the item in use.
LEMMA ReusedStep ==
  ASSUME TreeTypeOK, TreeTypeOK', AtInv, WalkInv, [TreeNext]_testTreeVars,
         NEW f \in Files, f \notin contested', OneItem(f), OneHolder(f), InNoWalk(f),
         SeenIsReused(f), HeldIsReused(f), GotIsReused(f)
  PROVE  SeenIsReused(f)' /\ HeldIsReused(f)' /\ GotIsReused(f)'
<1> DEFINE Goal == SeenIsReused(f)' /\ HeldIsReused(f)' /\ GotIsReused(f)'
           Near == {"reading", "fetching", "docFetching"}
<1>1. ASSUME reused'[f] = reused[f],
             \A i \in Items : i[1] = f /\ Visible(i)' => Visible(i) \/ reused[f] = i[2],
             \A p \in Calls : item'[p] \in Items /\ item'[p][1] = f /\ at'[p] \in Near
                => (item'[p] = item[p] /\ at[p] \in Near) \/ reused[f] = item'[p][2],
             \A p \in Calls, i \in Items : i[1] = f /\ current'[p] /\ i \in got'[p]
                => (current[p] /\ i \in got[p]) \/ reused[f] = i[2]
      PROVE  Goal
  BY <1>1 DEF SeenIsReused, HeldIsReused, GotIsReused
<1>2. ASSUME NEW p \in Calls, NEW s, s \notin Near, at' = [at EXCEPT ![p] = s],
             \A q \in Calls : q # p => item'[q] = item[q],
             reused' = reused, \A i \in Items : place'[i] \in {place[i], "out"},
             \A q \in Calls : current'[q] => current[q] /\ got'[q] = got[q]
      PROVE  Goal
  <2>1. \A q \in Calls : at'[q] \in Near => at[q] \in Near /\ q # p
    BY <1>2 DEF TreeTypeOK
  <2>2. \A i \in Items : Visible(i)' => Visible(i)
    BY <1>2 DEF Visible
  <2> QED BY <1>1, <1>2, <2>1, <2>2
<1>3. ASSUME NEW p \in Calls, Call(p) \/ LoadBegins(p) \/ RunGoes(p) \/ DocLoads(p) \/ ReadItem(p)
                              \/ ItemFetched(p) \/ Gather(p)
      PROVE  Goal
  <2>1. \E s \in {"queued", "target", "items", "done", "itemFetching"} : at' = [at EXCEPT ![p] = s]
    BY <1>3 DEF Call, LoadBegins, RunGoes, DocLoads, ReadItem, ItemFetched, Gather
  <2>2. reused' = reused /\ \A i \in Items : place'[i] \in {place[i], "out"}
    BY <1>3 DEF Call, LoadBegins, RunGoes, DocLoads, ReadItem, ItemFetched, Gather, placeVars
  <2>3. \A q \in Calls : q # p => item'[q] = item[q]
    BY <1>3 DEF Call, LoadBegins, RunGoes, DocLoads, ReadItem, ItemFetched, Gather, TreeTypeOK
  <2>4. \A q \in Calls : current'[q] => current[q] /\ got'[q] = got[q]
    <3>1. CASE Gather(p)
      <4>1. current' = current /\ at[p] = "discover" /\ \A q \in Calls : q # p => got'[q] = got[q]
        BY <3>1 DEF Gather, TreeTypeOK
      <4>2. ~current[p]
        BY <4>1 DEF AtInv, Walking
      <4> QED BY <4>1, <4>2
    <3>2. CASE LoadBegins(p)
      BY <3>2 DEF LoadBegins
    <3> QED BY <1>3, <3>1, <3>2 DEF Call, RunGoes, DocLoads, ReadItem, ItemFetched
  <2> HIDE DEF Goal
  <2> QED BY <1>2, <2>1, <2>2, <2>3, <2>4
<1>4. ASSUME NEW p \in Calls, WalkEnds(p), NEW s \in {"done", "discover", "lookup"}, at' = [at EXCEPT ![p] = s]
      PROVE  Goal
  <2>1. reused' = reused /\ item' = item
    BY <1>4 DEF WalkEnds
  <2>2. \A i \in Items : Visible(i)' => Visible(i) \/ (current[p] /\ i \in got[p])
    BY <1>4 DEF WalkEnds, ReplaceChildren, Visible
  <2>3. \A i \in Items : i[1] = f /\ Visible(i)' => Visible(i) \/ reused[f] = i[2]
    BY <2>2 DEF GotIsReused
  <2>4. \A q \in Calls : at'[q] \in Near => at[q] \in Near
    BY <1>4 DEF TreeTypeOK
  <2>5. \A q \in Calls : current'[q] => current[q]
    BY <1>4 DEF WalkEnds, TreeTypeOK
  <2>6. \A q \in Calls : got'[q] \subseteq got[q]
    BY <1>4 DEF WalkEnds, TreeTypeOK
  <2> HIDE DEF Goal
  <2> QED BY <1>1, <2>1, <2>3, <2>4, <2>5, <2>6
<1>5. ASSUME NEW p \in Calls, LoadSkips(p) \/ LoadWalked(p) PROVE Goal
  <2>1. PICK s : s = IF p \in Loads THEN "done" ELSE IF p \in Runs THEN "discover" ELSE "lookup"
    OBVIOUS
  <2>2. at' = [at EXCEPT ![p] = s] /\ s \in {"done", "discover", "lookup"}
    BY <1>5, <2>1, LoadLeads DEF LoadSkips, LoadWalked, LoadEnds
  <2>3. CASE LoadSkips(p)
    <3>1. reused' = reused /\ item' = item /\ current' = current /\ got' = got /\ place' = place
      BY <2>3 DEF LoadSkips, placeVars
    <3> HIDE DEF Goal
    <3> QED BY <1>2, <2>2, <3>1
  <2>4. CASE LoadWalked(p)
    BY <1>4, <2>2, <2>4 DEF LoadWalked
  <2> QED BY <1>5, <2>3, <2>4
<1>6. ASSUME NEW p \in Calls, WalkBegins(p), at[p] \in {"target", "discover"} PROVE Goal
  <2>1. /\ UNCHANGED <<reused, place, item, got>>
        /\ \A q \in Calls : q # p => current'[q] = current[q]
        /\ \A q \in Calls : at'[q] = IF q = p THEN "files" ELSE at[q]
    BY <1>6 DEF WalkBegins, TreeTypeOK, placeVars
  <2>2. got[p] = {}
    BY <1>6 DEF AtInv, Walking
  <2> HIDE DEF Goal
  <2> QED BY <1>1, <2>1, <2>2 DEF Visible
<1>7. ASSUME NEW p \in Calls, NEW g \in Files, NEW i \in Items, GetOrCreate(g, i), GoesTo(p, i),
             item[p] \notin Items, item' = [item EXCEPT ![p] = i], UNCHANGED <<got, current>>,
             \A q \in Calls : q # p => at'[q] = at[q]
      PROVE  Goal
  <2>1. i[1] = g
    BY <1>7 DEF GetOrCreate
  <2>2. CASE g = f
    <3>1. ~Meets(p, i)
      BY <1>7, <2>1, <2>2 DEF GoesTo, Contest
    <3> QED BY <1>7, <2>2, <3>1, CreateReused
  <2>3. CASE g # f
    <3>1. reused'[f] = reused[f] /\ \A j \in Items : j[1] = f => place'[j] = place[j]
      BY <1>7, <2>1, <2>3 DEF GetOrCreate, placeVars, TreeTypeOK
    <3>2. \A q \in Calls : item'[q] = IF q = p THEN i ELSE item[q]
      BY <1>7 DEF TreeTypeOK
    <3>3. \A q \in Calls : item'[q] \in Items /\ item'[q][1] = f => q # p /\ item'[q] = item[q]
      BY <2>1, <2>3, <3>2
    <3> HIDE DEF Goal
    <3> QED BY <1>1, <1>7, <3>1, <3>3 DEF Visible
  <2> QED BY <2>2, <2>3
<1>8. ASSUME NEW p \in Calls, Visit(p) PROVE Goal
  <2>1. PICK g \in Files, i \in Items : GetOrCreate(g, i) /\ GoesTo(p, i) /\ item' = [item EXCEPT ![p] = i]
    BY <1>8 DEF Visit, TreeTypeOK
  <2>2. UNCHANGED <<got, current>> /\ \A q \in Calls : q # p => at'[q] = at[q]
    BY <1>8 DEF Visit, TreeTypeOK
  <2>3. item[p] \notin Items
    BY <1>8 DEF Visit, AtInv, Holding
  <2> QED BY <1>7, <2>1, <2>2, <2>3
<1>9. ASSUME NEW p \in Docs, DocAsks(p) PROVE Goal
  <2>1. PICK i \in Items : GetOrCreate(doc[p], i) /\ GoesTo(p, i) /\ item' = [item EXCEPT ![p] = i]
    BY <1>9 DEF DocAsks
  <2>2. /\ UNCHANGED <<got, current>> /\ \A q \in Calls : q # p => at'[q] = at[q]
        /\ p \in Calls
    BY <1>9 DEF DocAsks, TreeTypeOK, Calls
  <2>3. item[p] \notin Items /\ doc[p] \in Files
    BY <1>9, <2>2 DEF DocAsks, AtInv, Holding
  <2> QED BY <1>7, <2>1, <2>2, <2>3
<1>10. ASSUME NEW p \in Calls, VisitItem(p) \/ Expand(p) PROVE Goal
  <2>1. PICK i \in Items : /\ item' = item \/ item' = [item EXCEPT ![p] = i]
                           /\ got' = got \/ got' = [got EXCEPT ![p] = got[p] \ {i}]
    BY <1>10 DEF VisitItem, Expand, TreeTypeOK
  <2>2. /\ UNCHANGED <<reused, place, current>> /\ at[p] \in {"idle", "items"}
        /\ at' = at \/ at' = [at EXCEPT ![p] = "itemReading"]
    BY <1>10 DEF VisitItem, Expand, placeVars
  <2>3. \A q \in Calls : at'[q] \in Near => q # p /\ at'[q] = at[q]
    BY <2>2 DEF TreeTypeOK
  <2>4. \A q \in Calls : got'[q] \subseteq got[q] /\ (q # p => item'[q] = item[q])
    BY <2>1 DEF TreeTypeOK
  <2> HIDE DEF Goal
  <2> QED BY <1>1, <2>2, <2>3, <2>4 DEF Visible
<1>11. ASSUME NEW p \in Calls, NEW i \in Items, NEW v, Judge(p, i, v), current' = current,
              ~Free(i), Walking(p), i \notin got[p], i[1] = f => reused[f] = i[2],
              i[1] = f => \A q \in Calls \ {p} : item[q] # i /\ (Walking(q) => i \notin got[q]),
              \A q \in Calls : item'[q] = IF q = p THEN NoItem ELSE item[q],
              \A q \in Calls : q # p => at'[q] = at[q]
       PROVE  Goal
  <2>1. \A q \in Calls : item'[q] \in Items => q # p /\ item'[q] = item[q] /\ at'[q] = at[q]
    BY <1>11, ItemParts
  <2>2. CASE v # Empty
    <3>1. UNCHANGED <<reused, place>>
      BY <1>11, <2>2 DEF Judge, placeVars
    <3>2. \A q \in Calls : got'[q] \subseteq IF q = p THEN got[p] \cup {i} ELSE got[q]
      BY <1>11, <2>2 DEF Judge, TreeTypeOK
    <3> HIDE DEF Goal
    <3> QED BY <1>1, <1>11, <2>1, <3>1, <3>2 DEF Visible
  <2>3. CASE v = Empty /\ i[1] # f
    <3>1. reused'[f] = reused[f] /\ got' = got /\ \A j \in Items : j[1] = f => place'[j] = place[j]
      BY <1>11, <2>3, ItemParts DEF Judge, Delete, TreeTypeOK
    <3> HIDE DEF Goal
    <3> QED BY <1>1, <1>11, <2>1, <3>1 DEF Visible
  <2>4. CASE v = Empty /\ i[1] = f
    <3>1. Delete(f) /\ got' = got
      BY <1>11, <2>4 DEF Judge
    <3>2. \A j \in Items : j[1] = f /\ ~Free(j) => j = i
      BY <1>11, <2>4 DEF OneItem
    <3>3. \A q \in Calls : item'[q] \in Items => item'[q][1] # f
      BY <1>11, <2>1, <2>4, <3>2 DEF Free
    <3>4. \A q \in Calls, j \in Items : current'[q] /\ j \in got'[q] => j[1] # f
      <4> SUFFICES ASSUME NEW q \in Calls, NEW j \in Items, current[q], j \in got[q], j[1] = f
                   PROVE  FALSE
        BY <1>11, <3>1
      <4>1. j = i /\ Walking(q)
        BY <3>2 DEF Free, AtInv
      <4> QED BY <1>11, <2>4, <4>1
    <3> QED BY <3>1, <3>3, <3>4, DeleteReused
  <2> QED BY <2>2, <2>3, <2>4
<1>12. ASSUME NEW p \in Calls, VisitResolved(p) PROVE Goal
  <2>1. PICK g \in unseen[p] : /\ Found(g) /\ Judge(p, <<g, reused[g]>>, shown[<<g, reused[g]>>])
                               /\ GoesTo(p, <<g, reused[g]>>)
    BY <1>12 DEF VisitResolved
  <2>2. <<g, reused[g]>> \in Items /\ <<g, reused[g]>>[1] = g /\ <<g, reused[g]>>[2] = reused[g]
    BY <2>1, ItemParts DEF Found, TreeTypeOK
  <2>3. PICK i \in Items : i = <<g, reused[g]>>
    BY <2>2
  <2>4. /\ i[1] = f => \A q \in Calls \ {p} : item[q] # i /\ (Walking(q) => i \notin got[q])
        /\ i[1] = g /\ i[2] = reused[g]
    BY <2>1, <2>2, <2>3 DEF GoesTo, Contest, Meets
  <2>5. UNCHANGED <<at, item, current>> /\ Walking(p) /\ item[p] \notin Items /\ ~Free(i)
    BY <1>12, <2>1, <2>3 DEF VisitResolved, AtInv, Walking, Holding, Found, Free
  <2>6. i \notin got[p]
    BY <2>1, <2>4, <2>5 DEF WalkInv
  <2>7. \A q \in Calls : item'[q] = IF q = p THEN NoItem ELSE item[q]
    BY <2>5 DEF TreeTypeOK
  <2> HIDE DEF Goal
  <2> QED BY <1>11, <2>1, <2>3, <2>4, <2>5, <2>6, <2>7
<1>13. ASSUME NEW p \in Calls, Read(p) \/ Fetched(p) PROVE Goal
  <2>1. /\ at[p] \in {"reading", "fetching"} /\ current' = current
        /\ \A q \in Calls : q # p => at'[q] = at[q]
        /\ \/ UNCHANGED <<item, got, place, reused>>
           \/ item' = [item EXCEPT ![p] = NoItem] /\ \E v : Judge(p, item[p], v)
    BY <1>13 DEF Read, Fetched, placeVars, TreeTypeOK
  <2>2. item[p] \in Items /\ Walking(p)
    BY <2>1 DEF AtInv, Holding, Walking
  <2>3. ~Free(item[p]) /\ item[p] \notin got[p]
    BY <2>2 DEF Free, WalkInv
  <2>4. item[p][1] = f => /\ reused[f] = item[p][2]
                          /\ \A q \in Calls \ {p} : item[q] # item[p] /\ (Walking(q) => item[p] \notin got[q])
    BY <2>1, <2>2 DEF HeldIsReused, OneHolder, InNoWalk
  <2>5. CASE UNCHANGED <<item, got, place, reused>>
    <3>1. \A q \in Calls : item'[q] \in Items /\ at'[q] \in Near => item'[q] = item[q] /\ at[q] \in Near
      BY <2>1, <2>5
    <3> HIDE DEF Goal
    <3> QED BY <1>1, <2>1, <2>5, <3>1 DEF Visible
  <2>6. CASE item' = [item EXCEPT ![p] = NoItem] /\ \E v : Judge(p, item[p], v)
    <3>1. \A q \in Calls : item'[q] = IF q = p THEN NoItem ELSE item[q]
      BY <2>6 DEF TreeTypeOK
    <3> HIDE DEF Goal
    <3> QED BY <1>11, <2>1, <2>2, <2>3, <2>4, <2>6, <3>1
  <2> QED BY <2>1, <2>5, <2>6
<1>14. ASSUME NEW p \in Docs, DocFetched(p) PROVE Goal
  <2>1. /\ at[p] = "docFetching" /\ p \in Calls /\ UNCHANGED <<got, current>>
        /\ at' = [at EXCEPT ![p] = "idle"] /\ item' = [item EXCEPT ![p] = NoItem]
    BY <1>14 DEF DocFetched, Calls
  <2>2. item[p] \in Items /\ item[p][1] \in Files
    BY <2>1, ItemParts DEF AtInv, Holding
  <2>3. \A q \in Calls : item'[q] \in Items => q # p /\ item'[q] = item[q] /\ at'[q] = at[q]
    BY <2>1, ItemParts DEF TreeTypeOK
  <2>4. CASE Delete(item[p][1]) /\ item[p][1] = f
    <3>1. \A j \in Items : j[1] = f /\ ~Free(j) => j = item[p]
      <4>1. ~Free(item[p])
        BY <2>1 DEF Free
      <4> QED BY <2>2, <2>4, <4>1 DEF OneItem
    <3>2. ASSUME NEW q \in Calls, item'[q] \in Items, item'[q][1] = f PROVE FALSE
      <4>1. q # p /\ item'[q] = item[q]
        BY <2>3, <3>2
      <4>2. ~Free(item[q])
        BY DEF Free
      <4> QED BY <2>1, <2>2, <2>4, <3>1, <3>2, <4>1, <4>2 DEF OneHolder
    <3>3. \A q \in Calls, j \in Items : current'[q] /\ j \in got'[q] => j[1] # f
      <4> SUFFICES ASSUME NEW q \in Calls, NEW j \in Items, current[q], j \in got[q], j[1] = f
                   PROVE  FALSE
        BY <2>1
      <4>1. j = item[p] /\ Walking(q)
        <5>1. ~Free(j)
          BY DEF Free
        <5> QED BY <3>1, <5>1 DEF AtInv
      <4>2. q # p
        BY <2>1, <4>1 DEF Walking
      <4> QED BY <2>1, <2>2, <2>4, <4>1, <4>2 DEF InNoWalk
    <3> QED BY <2>4, <3>2, <3>3, DeleteReused
  <2>5. CASE Delete(item[p][1]) /\ item[p][1] # f
    <3>1. reused'[f] = reused[f] /\ \A j \in Items : j[1] = f => place'[j] = place[j]
      BY <2>2, <2>5, ItemParts DEF Delete, TreeTypeOK
    <3> HIDE DEF Goal
    <3> QED BY <1>1, <2>1, <2>3, <3>1 DEF Visible
  <2>6. CASE ~Delete(item[p][1])
    <3>1. reused' = reused /\ \A j \in Items : place'[j] \in {place[j], "out"} \/ j = item[p]
      BY <1>14, <2>6 DEF DocFetched, placeVars
    <3>2. \A j \in Items : j[1] = f /\ Visible(j)' => Visible(j) \/ reused[f] = j[2]
      BY <2>1, <2>2, <3>1 DEF Visible, HeldIsReused
    <3> HIDE DEF Goal
    <3> QED BY <1>1, <2>1, <2>3, <3>1, <3>2
  <2> QED BY <2>4, <2>5, <2>6
<1>15. ASSUME NEW d \in Docs, NEW g \in Files, NEW v \in Versions, Edit(d, g, v) PROVE Goal
  <2>1. /\ UNCHANGED <<place, reused, item, got, current>> /\ at' = [at EXCEPT ![d] = "lookup"]
        /\ d \in Calls
    BY <1>15 DEF Edit, placeVars, Calls
  <2> HIDE DEF Goal
  <2> QED BY <1>2, <2>1
<1>16. ASSUME UNCHANGED <<placeVars, callVars>> PROVE Goal
  BY <1>1, <1>16 DEF placeVars, callVars, Visible
<1>17. ASSUME NEW g \in Files, Notice(g) \/ DocumentCloses(g) \/ \E v \in Versions : FileChanges(g, v)
       PROVE  Goal
  BY <1>16, <1>17 DEF Notice, DocumentCloses, FileChanges
<1>18. ASSUME ProjectChanges \/ UNCHANGED testTreeVars PROVE Goal
  BY <1>16, <1>18 DEF ProjectChanges, testTreeVars, treeVars
<1>19. ASSUME NEW p \in Calls, LoadWalks(p) \/ RunWalks(p) PROVE Goal
  BY <1>6, <1>19 DEF LoadWalks, RunWalks
<1>20. ASSUME NEW p \in Runs, RunWalked(p) PROVE Goal
  BY <1>4, <1>20 DEF RunWalked, Calls
<1> HIDE DEF Goal
<1>21. Goal
  BY <1>3, <1>5, <1>8, <1>9, <1>10, <1>12, <1>13, <1>14, <1>15, <1>17, <1>18, <1>19, <1>20
     DEF TreeNext, Terminated, Calls
<1> QED BY <1>21 DEF Goal

\* A step keeps what holds of a file that is not contested.
LEMMA HoldStep ==
  ASSUME TreeTypeOK, TreeTypeOK', AtInv, WalkInv, HoldInv, [TreeNext]_testTreeVars PROVE HoldInv'
<1> SUFFICES ASSUME NEW f \in Files, f \notin contested'
             PROVE  /\ OneItem(f)' /\ OneHolder(f)' /\ InNoWalk(f)'
                    /\ SeenIsReused(f)' /\ HeldIsReused(f)' /\ GotIsReused(f)'
  BY DEF HoldInv
<1>1. /\ OneItem(f) /\ OneHolder(f) /\ InNoWalk(f)
      /\ SeenIsReused(f) /\ HeldIsReused(f) /\ GotIsReused(f)
  BY HistoryGrows DEF HoldInv
<1> QED BY <1>1, OneItemStep, HolderStep, ReusedStep

-----------------------------------------------------------------------------
(* News, and the tests that are asked for *)

\* News of a file are taken by a call that goes to its item; a run does so, unless the
\* file is contested, while the item is in the tree and no walk has passed the file.
LEMMA NewsTaken ==
  ASSUME TreeTypeOK, AtInv, [TreeNext]_testTreeVars, NEW f \in Files, DiskNews(f), ~DiskNews(f)'
  PROVE  \E p \in Calls, i \in Items :
            /\ i[1] = f /\ item[p] \notin Items /\ item' = [item EXCEPT ![p] = i] /\ disk' = disk
            /\ \/ at[p] = "files" /\ at' = [at EXCEPT ![p] = "reading"]
               \/ at[p] = "items" /\ (f \in contested' \/ (Visible(i) /\ ~OutOfWalks(i) /\ place' = place))
<1> USE DEF DiskNews
<1>0. unnoticed' # unnoticed \/ news' # news
  OBVIOUS
<1>1. ASSUME NEW p \in Calls, Call(p) \/ LoadBegins(p) \/ LoadSkips(p) \/ WalkBegins(p) \/ WalkEnds(p)
                              \/ VisitResolved(p) \/ Read(p) \/ Fetched(p)
      PROVE  FALSE
  BY <1>0, <1>1 DEF Call, LoadBegins, LoadSkips, WalkBegins, WalkEnds, VisitResolved, Read, Fetched, diskVars
<1>2. ASSUME NEW p \in Calls, Gather(p) \/ ReadItem(p) \/ ItemFetched(p) \/ RunGoes(p) \/ DocLoads(p)
                              \/ DocAsks(p) \/ DocFetched(p) \/ Expand(p)
      PROVE  FALSE
  BY <1>0, <1>2 DEF Gather, ReadItem, ItemFetched, RunGoes, DocLoads, DocAsks, DocFetched, Expand, diskVars
<1>3. ASSUME NEW d \in Docs, NEW g \in Files, NEW v \in Versions, Edit(d, g, v) PROVE FALSE
  BY <1>0, <1>3 DEF Edit
<1>4. ASSUME NEW g \in Files, Notice(g) \/ DocumentCloses(g) \/ \E v \in Versions : FileChanges(g, v)
       PROVE  FALSE
  BY <1>4 DEF Notice, DocumentCloses, FileChanges
<1>5. ASSUME ProjectChanges \/ UNCHANGED testTreeVars PROVE FALSE
  BY <1>5 DEF ProjectChanges, testTreeVars, treeVars, diskVars
<1>6. ASSUME NEW p \in Calls, Visit(p)
      PROVE  \E i \in Items : /\ i[1] = f /\ item[p] \notin Items /\ item' = [item EXCEPT ![p] = i]
                              /\ disk' = disk /\ at[p] = "files" /\ at' = [at EXCEPT ![p] = "reading"]
  <2>1. PICK i \in Items : /\ item' = [item EXCEPT ![p] = i]
                           /\ news' \in {news, news \ {i[1]}}
    BY <1>6 DEF Visit, GetOrCreate
  <2>2. unnoticed' = unnoticed /\ disk' = disk /\ at[p] = "files" /\ at' = [at EXCEPT ![p] = "reading"]
    BY <1>6 DEF Visit
  <2>3. item[p] \notin Items
    BY <2>2 DEF AtInv, Holding
  <2>4. i[1] = f
    BY <2>1, <2>2
  <2> QED BY <2>1, <2>2, <2>3, <2>4
<1>7. ASSUME NEW p \in Calls, VisitItem(p)
      PROVE  \E i \in Items :
                /\ i[1] = f /\ item[p] \notin Items /\ item' = [item EXCEPT ![p] = i]
                /\ disk' = disk /\ at[p] = "items"
                /\ f \in contested' \/ (Visible(i) /\ ~OutOfWalks(i) /\ place' = place)
  <2>1. PICK i \in Items : /\ news' = IF asked[i] = "no" THEN news ELSE news \ {i[1]}
                           /\ IF news' # news /\ OutOfWalks(i) THEN Contest(i) ELSE GoesTo(p, i)
                           /\ \/ IsResolved(i)
                              \/ item' = [item EXCEPT ![p] = i]
    BY <1>7 DEF VisitItem, TreeTypeOK
  <2>2. unnoticed' = unnoticed /\ disk' = disk /\ at[p] = "items" /\ place' = place
    BY <1>7 DEF VisitItem, placeVars
  <2>3. item[p] \notin Items
    BY <2>2 DEF AtInv, Holding
  <2>4. news' # news /\ i[1] = f /\ f \in news
    BY <1>0, <2>1, <2>2
  <2>5. f \in contested' \/ (Visible(i) /\ ~OutOfWalks(i))
    BY <2>1, <2>4 DEF Contest, OutOfWalks
  <2> QED BY <2>1, <2>2, <2>3, <2>4, <2>5 DEF IsResolved
<1> QED BY <1>1, <1>2, <1>3, <1>4, <1>5, <1>6, <1>7
    DEF TreeNext, Terminated, LoadWalks, RunWalks, LoadWalked, RunWalked, Calls

\* A file that changes is news; so is a text, of a document.  A document that is closed
\* leaves the text of its file, or discards its own.
LEMMA ChangesAreNews ==
  ASSUME TreeTypeOK, [TreeNext]_testTreeVars, NEW f \in Files, f \notin Excused'
  PROVE  /\ disk'[f] = disk[f] \/ DiskNews(f)'
         /\ \/ TextOf(f)' = TextOf(f) /\ DocText(f)' = DocText(f)
            \/ DiskNews(f)' \/ DocComes(f)'
<1> DEFINE Goal == /\ disk'[f] = disk[f] \/ DiskNews(f)'
                   /\ \/ TextOf(f)' = TextOf(f) /\ DocText(f)' = DocText(f)
                      \/ DiskNews(f)' \/ DocComes(f)'
<1>1. ASSUME disk' = disk, text' = text, open' = open PROVE Goal
  BY <1>1 DEF TextOf, DocText
<1>2. ASSUME NEW p \in Calls, Call(p) \/ LoadBegins(p) \/ LoadSkips(p) \/ WalkBegins(p) \/ WalkEnds(p)
                              \/ VisitResolved(p) \/ Visit(p) \/ Read(p) \/ Fetched(p)
      PROVE  Goal
  <2>1. disk' = disk /\ text' = text /\ open' = open
    BY <1>2 DEF Call, LoadBegins, LoadSkips, WalkBegins, WalkEnds, VisitResolved, Visit, Read, Fetched, diskVars
  <2> HIDE DEF Goal
  <2> QED BY <1>1, <2>1
<1>3. ASSUME NEW p \in Calls, Gather(p) \/ VisitItem(p) \/ ReadItem(p) \/ ItemFetched(p) \/ RunGoes(p)
                              \/ DocLoads(p) \/ DocAsks(p) \/ DocFetched(p) \/ Expand(p)
      PROVE  Goal
  <2>1. disk' = disk /\ text' = text /\ open' = open
    BY <1>3 DEF Gather, VisitItem, ReadItem, ItemFetched, RunGoes, DocLoads, DocAsks, DocFetched, Expand, diskVars
  <2> HIDE DEF Goal
  <2> QED BY <1>1, <2>1
<1>4. ASSUME NEW d \in Docs, NEW g \in Files, NEW v \in Versions, Edit(d, g, v) PROVE Goal
  <2>1. /\ disk' = disk /\ text' = [text EXCEPT ![g] = v] /\ open' = open \cup {g}
        /\ doc'[d] = g /\ at'[d] = "lookup"
    BY <1>4 DEF Edit, TreeTypeOK, Calls
  <2>2. CASE g = f
    BY <2>1, <2>2 DEF DocComes
  <2>3. CASE g # f
    <3>1. disk'[f] = disk[f] /\ text'[f] = text[f] /\ (f \in open' <=> f \in open)
      BY <2>1, <2>3 DEF TreeTypeOK
    <3> QED BY <3>1 DEF TextOf, DocText
  <2> QED BY <2>2, <2>3
<1>5. ASSUME NEW g \in Files, NEW v \in Versions, FileChanges(g, v) PROVE Goal
  <2>1. /\ text' = text /\ open' = open /\ disk' = [disk EXCEPT ![g] = v]
        /\ unnoticed' = unnoticed \cup {g}
    BY <1>5 DEF FileChanges
  <2>2. CASE g = f
    BY <2>1, <2>2 DEF DiskNews
  <2>3. CASE g # f
    <3>1. disk'[f] = disk[f]
      BY <2>1, <2>3 DEF TreeTypeOK
    <3> QED BY <2>1, <3>1 DEF TextOf, DocText
  <2> QED BY <2>2, <2>3
<1>6. ASSUME NEW g \in Files, Notice(g) PROVE Goal
  BY <1>1, <1>6 DEF Notice
<1>7. ASSUME NEW g \in Files, DocumentCloses(g) PROVE Goal
  <2>1. /\ disk' = disk /\ text' = text /\ g \in open /\ open' = open \ {g}
        /\ discarded' = IF text[g] = disk[g] THEN discarded ELSE discarded \cup {g}
    BY <1>7 DEF DocumentCloses
  <2>2. CASE g = f
    <3>1. text[f] = disk[f]
      BY <2>1, <2>2 DEF Excused
    <3> QED BY <2>1, <2>2, <3>1 DEF TextOf, DocText
  <2>3. CASE g # f
    BY <2>1, <2>3 DEF TextOf, DocText
  <2> QED BY <2>2, <2>3
<1>8. ASSUME ProjectChanges \/ UNCHANGED testTreeVars PROVE Goal
  BY <1>1, <1>8 DEF ProjectChanges, testTreeVars, treeVars, diskVars
<1> HIDE DEF Goal
<1>9. Goal
  BY <1>2, <1>3, <1>4, <1>5, <1>6, <1>7, <1>8
     DEF TreeNext, Terminated, LoadWalks, RunWalks, LoadWalked, RunWalked, Calls
<1> QED BY <1>9 DEF Goal

\* The event of a document comes until its item is asked for.
LEMMA DocTaken ==
  ASSUME TreeTypeOK, AtInv, [TreeNext]_testTreeVars, NEW f \in Files, DocComes(f), ~DocComes(f)'
  PROVE  \E p \in Calls, i \in Items :
            /\ i[1] = f /\ item[p] \notin Items /\ item' = [item EXCEPT ![p] = i]
            /\ Visible(i)'
<1> DEFINE Away == {"idle", "docFetching", "done"}
<1>1. PICK d \in Docs : doc[d] = f /\ at[d] \notin Away /\ (doc'[d] # f \/ at'[d] \in Away)
  BY DEF DocComes
<1>2. d \in Calls /\ d \notin Loads \cup Runs
  BY TreeAssumption DEF Calls
<1>3. ASSUME NEW p \in Calls, NEW s, s \notin Away \/ p \in Loads \cup Runs, doc' = doc,
             at' = [at EXCEPT ![p] = s]
      PROVE  FALSE
  BY <1>1, <1>2, <1>3 DEF TreeTypeOK
<1>4. ASSUME NEW p \in Loads \cup Runs, Call(p) PROVE FALSE
  BY <1>3, <1>4 DEF Call, Calls
<1>5. ASSUME NEW p \in Calls, LoadBegins(p) \/ WalkBegins(p) \/ Visit(p) \/ Fetched(p) \/ DocLoads(p)
      PROVE  FALSE
  BY <1>3, <1>5 DEF LoadBegins, WalkBegins, Visit, Fetched, DocLoads
<1>6. ASSUME NEW p \in Calls, Read(p) PROVE FALSE
  BY <1>3, <1>6 DEF Read
<1>7. ASSUME NEW p \in Calls, LoadSkips(p) \/ LoadWalked(p) PROVE FALSE
  <2>1. PICK s : s = IF p \in Loads THEN "done" ELSE IF p \in Runs THEN "discover" ELSE "lookup"
    OBVIOUS
  <2>2. at' = [at EXCEPT ![p] = s]
    BY <1>7, <2>1, LoadLeads DEF LoadSkips, LoadWalked, LoadEnds
  <2>3. doc' = doc
    BY <1>7 DEF LoadSkips, LoadWalked, WalkEnds
  <2>4. s \notin Away \/ p \in Loads \cup Runs
    BY <2>1
  <2> HIDE DEF Away
  <2> QED BY <1>3, <2>2, <2>3, <2>4
<1>8. ASSUME NEW p \in Runs, RunWalked(p) \/ Gather(p) \/ ReadItem(p) \/ ItemFetched(p) \/ RunGoes(p)
      PROVE  FALSE
  <2>1. doc' = doc /\ \E s : at' = [at EXCEPT ![p] = s]
    BY <1>8 DEF RunWalked, WalkEnds, Gather, ReadItem, ItemFetched, RunGoes
  <2> QED BY <1>3, <2>1 DEF Calls
<1>9. ASSUME NEW p \in Runs, VisitItem(p) \/ Expand(p) PROVE FALSE
  <2>1. doc' = doc /\ (at' = at \/ at' = [at EXCEPT ![p] = "itemReading"])
    BY <1>9 DEF VisitItem, Expand
  <2> QED BY <1>1, <1>3, <2>1 DEF Calls
<1>10. ASSUME NEW p \in Docs, DocFetched(p) PROVE FALSE
  <2>1. doc' = doc /\ at[p] = "docFetching" /\ at' = [at EXCEPT ![p] = "idle"]
    BY <1>10 DEF DocFetched
  <2> QED BY <1>1, <1>2, <2>1 DEF TreeTypeOK
<1>11. ASSUME NEW p \in Docs, NEW g \in Files, NEW v \in Versions, Edit(p, g, v) PROVE FALSE
  <2>1. at[p] = "idle" /\ at' = [at EXCEPT ![p] = "lookup"] /\ doc' = [doc EXCEPT ![p] = g]
    BY <1>11 DEF Edit
  <2> QED BY <1>1, <1>2, <2>1 DEF TreeTypeOK
<1>12. ASSUME UNCHANGED <<callVars, doc>> PROVE FALSE
  BY <1>1, <1>12 DEF callVars
<1>13. ASSUME NEW g \in Files, Notice(g) \/ DocumentCloses(g) \/ \E v \in Versions : FileChanges(g, v)
       PROVE  FALSE
  BY <1>12, <1>13 DEF Notice, DocumentCloses, FileChanges
<1>14. ASSUME ProjectChanges \/ UNCHANGED testTreeVars PROVE FALSE
  BY <1>12, <1>14 DEF ProjectChanges, testTreeVars, treeVars
<1>15. ASSUME NEW p \in Calls, VisitResolved(p) PROVE FALSE
  BY <1>1, <1>15 DEF VisitResolved
<1>16. ASSUME NEW p \in Docs, DocAsks(p)
       PROVE  \E i \in Items :
                 /\ i[1] = f /\ item[p] \notin Items /\ item' = [item EXCEPT ![p] = i]
                 /\ Visible(i)'
  <2>1. doc' = doc /\ at[p] = "lookup" /\ at' = [at EXCEPT ![p] = "docFetching"] /\ p \in Calls
    BY <1>16 DEF DocAsks, Calls
  <2>2. p = d
    BY <1>1, <1>2, <2>1 DEF TreeTypeOK
  <2>3. PICK i \in Items : GetOrCreate(f, i) /\ item' = [item EXCEPT ![p] = i]
    BY <1>1, <1>16, <2>2 DEF DocAsks
  <2>4. Visible(i)'
    <3>1. i[1] = f /\ i = <<i[1], i[2]>>
      BY <2>3, ItemParts DEF GetOrCreate
    <3>2. CASE Found(f)
      BY <2>3, <3>1, <3>2 DEF GetOrCreate, Found, Visible, placeVars
    <3>3. CASE ~Found(f)
      BY <2>3, <3>3 DEF GetOrCreate, Visible, TreeTypeOK
    <3> QED BY <3>2, <3>3
  <2>5. item[p] \notin Items /\ i[1] = f
    BY <2>1, <2>3 DEF AtInv, Holding, GetOrCreate
  <2> QED BY <2>1, <2>3, <2>4, <2>5
<1> HIDE DEF Away
<1>17. ASSUME NEW p \in Calls, LoadWalks(p) \/ RunWalks(p) PROVE FALSE
  BY <1>5, <1>17 DEF LoadWalks, RunWalks
<1> QED BY <1>2, <1>4, <1>5, <1>6, <1>7, <1>8, <1>9, <1>10, <1>11, <1>13, <1>14, <1>15, <1>16, <1>17
    DEF TreeNext, Terminated, Calls

\* What is asked for after a call asked.
LEMMA AskAsked ==
  ASSUME TreeTypeOK, AskInv, NEW p \in Calls, at[p] \notin Fetching, NEW i \in Items, NEW v \in Versions,
         AskTests(p, i, v)
  PROVE  /\ \A q, t : Asked(q, t)' <=> Asked(q, t) \/ (q = p /\ t = <<i[1], v>>)
         /\ \A k, l \in 1..Len(asks') : asks'[k][1] = asks'[l][1] => k = l
<1>1. PICK S : S = Calls \X (Files \X Versions)
  OBVIOUS
<1>2. PICK e : e = <<p, <<i[1], v>>>>
  OBVIOUS
<1>3. asks \in Seq(S) /\ asks' = Append(asks, e) /\ e \in S /\ e[1] = p
  BY <1>1, <1>2, ItemParts DEF TreeTypeOK, AskTests, Fetches!Ask
<1>4. /\ Len(asks') = Len(asks) + 1 /\ Len(asks) \in Nat
      /\ \A k \in 1..Len(asks) : asks'[k] = asks[k]
      /\ asks'[Len(asks) + 1] = e
  BY <1>3, AppendProperties
<1>5. \A k \in 1..Len(asks) : asks[k][1] # p
  <2> SUFFICES ASSUME NEW k \in 1..Len(asks), asks[k][1] = p PROVE FALSE
    OBVIOUS
  <2>1. asks[k] \in S
    BY <1>3, ElementOfSeq
  <2>2. PICK f \in Files, w \in Versions : asks[k] = <<p, <<f, w>>>>
    BY <1>1, <2>1
  <2>3. Asked(p, <<f, w>>)
    BY <2>2 DEF Asked
  <2> QED BY <2>3 DEF AskInv
<1>6. \A q, t : Asked(q, t)' <=> Asked(q, t) \/ (q = p /\ t = <<i[1], v>>)
  <2> TAKE q, t
  <2>1. ASSUME Asked(q, t)' PROVE Asked(q, t) \/ <<q, t>> = e
    <3>1. PICK k \in 1..Len(asks') : asks'[k] = <<q, t>>
      BY <2>1 DEF Asked
    <3>2. k \in 1..Len(asks) \/ k = Len(asks) + 1
      BY <1>4
    <3> QED BY <1>4, <3>1, <3>2 DEF Asked
  <2>2. ASSUME Asked(q, t) \/ <<q, t>> = e PROVE Asked(q, t)'
    <3>1. 1..Len(asks) \subseteq 1..Len(asks') /\ Len(asks) + 1 \in 1..Len(asks')
      BY <1>4
    <3> QED BY <1>4, <2>2, <3>1 DEF Asked
  <2>3. <<q, t>> = e <=> q = p /\ t = <<i[1], v>>
    BY <1>2
  <2> QED BY <2>1, <2>2, <2>3
<1>7. \A k, l \in 1..Len(asks') : asks'[k][1] = asks'[l][1] => k = l
  <2> TAKE k, l \in 1..Len(asks')
  <2>1. /\ k \in 1..Len(asks) \/ k = Len(asks) + 1
        /\ l \in 1..Len(asks) \/ l = Len(asks) + 1
    BY <1>4
  <2> QED BY <1>3, <1>4, <1>5, <2>1 DEF AskInv
<1> QED BY <1>6, <1>7

\* What is asked for after a call was answered, and that it was asked for before.
LEMMA ShowAsked ==
  ASSUME TreeTypeOK, AskInv, NEW p \in Calls, NEW v \in Versions, ShowTests(p, v)
  PROVE  /\ Asked(p, <<item[p][1], v>>)
         /\ \A q, t : Asked(q, t)' => Asked(q, t) /\ q # p
         /\ \A k, l \in 1..Len(asks') : asks'[k][1] = asks'[l][1] => k = l
<1>1. PICK S : S = Calls \X (Files \X Versions)
  OBVIOUS
<1>2. PICK e : e = <<p, <<item[p][1], v>>>>
  OBVIOUS
<1>3. asks \in Seq(S) /\ asks # <<>> /\ Head(asks) = e /\ asks' = Tail(asks) /\ e[1] = p
  BY <1>1, <1>2 DEF TreeTypeOK, ShowTests, Fetches!Return
<1>4. /\ asks[1] = e /\ Len(asks) \in Nat \ {0} /\ Len(asks') = Len(asks) - 1
      /\ \A k \in 1..Len(asks') : asks'[k] = asks[k + 1]
  <2>1. Len(asks) \in Nat /\ Len(asks) # 0
    BY <1>3, EmptySeq, LenProperties
  <2>2. Head(asks) = asks[1]
    BY <1>3, HeadTailProperties
  <2> QED BY <1>3, <2>1, <2>2, HeadTailProperties
<1>5. Asked(p, <<item[p][1], v>>)
  <2>1. 1 \in 1..Len(asks)
    BY <1>4
  <2> QED BY <1>2, <1>4, <2>1 DEF Asked
<1>6. ASSUME NEW q, NEW t, Asked(q, t)' PROVE Asked(q, t) /\ q # p
  <2>1. PICK k \in 1..Len(asks') : asks'[k] = <<q, t>>
    BY <1>6 DEF Asked
  <2>2. k + 1 \in 1..Len(asks) /\ k + 1 # 1 /\ 1 \in 1..Len(asks) /\ asks[k + 1] = <<q, t>>
    BY <1>4, <2>1
  <2>3. asks[k + 1][1] # asks[1][1]
    BY <2>2 DEF AskInv
  <2>4. asks[k + 1][1] = q
    BY <2>2
  <2> QED BY <1>3, <1>4, <2>2, <2>3, <2>4 DEF Asked
<1>7. \A k, l \in 1..Len(asks') : asks'[k][1] = asks'[l][1] => k = l
  <2> TAKE k, l \in 1..Len(asks')
  <2>1. k + 1 \in 1..Len(asks) /\ l + 1 \in 1..Len(asks)
    BY <1>4
  <2>2. asks[k + 1][1] = asks[l + 1][1] => k + 1 = l + 1
    BY <2>1 DEF AskInv
  <2> QED BY <1>4, <2>1, <2>2
<1> QED BY <1>5, <1>6, <1>7

\* What is asked for after a step was asked for before, or is the text the step has read.
LEMMA AskStep ==
  ASSUME TreeTypeOK, AtInv, AskInv, [TreeNext]_testTreeVars
  PROVE  /\ AskInv'
         /\ \A p \in Calls, f \in Files, v \in Versions : Asked(p, <<f, v>>)' =>
               \/ Asked(p, <<f, v>>) /\ at'[p] = at[p] /\ item'[p] = item[p]
               \/ /\ at'[p] \in {"fetching", "itemFetching"}
                  /\ v = disk[f] /\ disk' = disk /\ known'[item'[p]] = v
               \/ /\ at'[p] = "docFetching"
                  /\ v = DocText(f)' \/ f \in Excused'
<1> DEFINE Stays(p, f, v) == Asked(p, <<f, v>>) /\ at'[p] = at[p] /\ item'[p] = item[p]
           OfDisk(p, f, v) == /\ at'[p] \in {"fetching", "itemFetching"}
                              /\ v = disk[f] /\ disk' = disk /\ known'[item'[p]] = v
           OfText(p, f, v) == at'[p] = "docFetching" /\ (v = DocText(f)' \/ f \in Excused')
           Goal == /\ AskInv'
                   /\ \A p \in Calls, f \in Files, v \in Versions : Asked(p, <<f, v>>)' =>
                         Stays(p, f, v) \/ OfDisk(p, f, v) \/ OfText(p, f, v)
<1>1. ASSUME asks' = asks, \A q \in Calls : at[q] \in Fetching => at'[q] = at[q] /\ item'[q] = item[q]
      PROVE  Goal
  <2>1. \A p, t : Asked(p, t)' <=> Asked(p, t)
    BY <1>1 DEF Asked
  <2>2. \A k, l \in 1..Len(asks') : asks'[k][1] = asks'[l][1] => k = l
    BY <1>1 DEF AskInv
  <2>3. \A p \in Calls, f \in Files, v \in Versions : Asked(p, <<f, v>>) =>
           at[p] \in Fetching /\ item[p][1] = f
    BY DEF AskInv
  <2> QED BY <1>1, <2>1, <2>2, <2>3 DEF AskInv
<1>2. ASSUME NEW p \in Calls, at[p] \notin Fetching, asks' = asks,
             \A q \in Calls : q # p => at'[q] = at[q] /\ item'[q] = item[q]
      PROVE  Goal
  <2> HIDE DEF Goal
  <2> QED BY <1>1, <1>2
<1>3. ASSUME NEW p \in Calls, Call(p) \/ LoadBegins(p) \/ LoadSkips(p) \/ LoadWalks(p) \/ RunWalks(p)
                              \/ VisitResolved(p) \/ Visit(p) \/ Gather(p) \/ VisitItem(p) \/ RunGoes(p)
                              \/ DocLoads(p) \/ Expand(p)
      PROVE  Goal
  <2>1. asks' = asks /\ at[p] \in {"idle", "queued", "target", "discover", "files", "items", "lookup"}
    BY <1>3 DEF Call, LoadBegins, LoadSkips, LoadWalks, RunWalks, WalkBegins, VisitResolved, Visit,
       Gather, VisitItem, RunGoes, DocLoads, Expand
  <2>2. \A q \in Calls : q # p => at'[q] = at[q]
    BY <1>3 DEF Call, LoadBegins, LoadSkips, LoadEnds, LoadWalks, RunWalks, WalkBegins, VisitResolved,
       Visit, Gather, VisitItem, RunGoes, DocLoads, Expand, TreeTypeOK
  <2>3. \A q \in Calls : q # p => item'[q] = item[q]
    BY <1>3 DEF Call, LoadBegins, LoadSkips, LoadWalks, RunWalks, WalkBegins, VisitResolved, Visit,
       Gather, VisitItem, RunGoes, DocLoads, Expand, TreeTypeOK
  <2>4. at[p] \notin Fetching
    BY <2>1 DEF Fetching
  <2> HIDE DEF Goal
  <2> QED BY <1>2, <2>1, <2>2, <2>3, <2>4
<1>4. ASSUME NEW p \in Calls, LoadWalked(p) \/ RunWalked(p) PROVE Goal
  <2>1. /\ asks' = asks /\ at[p] = "files" /\ item' = item
        /\ \A q \in Calls : q # p => at'[q] = at[q]
    BY <1>4 DEF LoadWalked, RunWalked, WalkEnds, LoadEnds, TreeTypeOK
  <2>2. at[p] \notin Fetching
    BY <2>1 DEF Fetching
  <2> HIDE DEF Goal
  <2> QED BY <1>2, <2>1, <2>2
<1>5. ASSUME NEW p \in Calls, Read(p) \/ ReadItem(p) PROVE Goal
  <2>1. /\ at[p] \in {"reading", "itemReading"} /\ disk' = disk
        /\ \A q \in Calls : q # p => at'[q] = at[q] /\ item'[q] = item[q]
    BY <1>5 DEF Read, ReadItem, diskVars, TreeTypeOK
  <2>2. item[p] \in Items /\ at[p] \notin Fetching
    BY <2>1 DEF AtInv, Holding, Fetching
  <2>3. CASE ReadsSame(p)
    <3>1. asks' = asks
      BY <2>3 DEF ReadsSame
    <3> HIDE DEF Goal
    <3> QED BY <1>2, <2>1, <2>2, <3>1
  <2>4. CASE ReadsNew(p) /\ at'[p] \in {"fetching", "itemFetching"} /\ item'[p] = item[p]
    <3>1. PICK g : g = item[p][1]
      OBVIOUS
    <3>2. g \in Files /\ disk[g] \in Versions
      BY <2>2, <3>1, ItemParts DEF TreeTypeOK
    <3>3. AskTests(p, item[p], disk[g])
      BY <2>4, <3>1 DEF ReadsNew
    <3>4. /\ \A q, t : Asked(q, t)' <=> Asked(q, t) \/ (q = p /\ t = <<g, disk[g]>>)
          /\ \A k, l \in 1..Len(asks') : asks'[k][1] = asks'[l][1] => k = l
      BY <2>2, <3>1, <3>2, <3>3, AskAsked
    <3>5. ASSUME NEW q \in Calls, NEW f \in Files, NEW v \in Versions, Asked(q, <<f, v>>)'
          PROVE  /\ at'[q] \in Fetching /\ item'[q][1] = f
                 /\ Stays(q, f, v) \/ OfDisk(q, f, v)
      <4>1. CASE Asked(q, <<f, v>>)
        <5>1. at[q] \in Fetching /\ item[q][1] = f /\ q # p
          BY <2>2, <4>1 DEF AskInv
        <5> QED BY <2>1, <4>1, <5>1
      <4>2. CASE q = p /\ f = g /\ v = disk[g]
        <5>1. known'[item[p]] = disk[g]
          BY <2>2, <2>4, <3>1 DEF ReadsNew, TreeTypeOK
        <5> QED BY <2>1, <2>4, <3>1, <4>2, <5>1 DEF Fetching
      <4> QED BY <3>4, <3>5, <4>1, <4>2
    <3> QED BY <3>4, <3>5 DEF AskInv
  <2>5. ReadsSame(p) \/ (ReadsNew(p) /\ at'[p] \in {"fetching", "itemFetching"} /\ item'[p] = item[p])
    BY <1>5 DEF Read, ReadItem, TreeTypeOK
  <2> QED BY <2>3, <2>4, <2>5
<1>6. ASSUME NEW d \in Docs, DocAsks(d) PROVE Goal
  <2>1. /\ at[d] = "lookup" /\ at'[d] = "docFetching" /\ d \in Calls
        /\ UNCHANGED <<text, disk, open>>
        /\ \A q \in Calls : q # d => at'[q] = at[q] /\ item'[q] = item[q]
    BY <1>6 DEF DocAsks, diskVars, TreeTypeOK, Calls
  <2>2. PICK i \in Items : /\ i[1] = doc[d] /\ item'[d] = i /\ AskTests(d, i, text[i[1]])
                           /\ discarded' = IF i[1] \in open \/ text[i[1]] = disk[i[1]]
                                           THEN discarded ELSE discarded \cup {i[1]}
    BY <1>6, <2>1 DEF DocAsks, GetOrCreate, TreeTypeOK
  <2>3. PICK g : g = i[1]
    OBVIOUS
  <2>4. g \in Files /\ text[g] \in Versions /\ at[d] \notin Fetching
    BY <2>1, <2>2, <2>3 DEF AtInv, Fetching, TreeTypeOK
  <2>5. /\ \A q, t : Asked(q, t)' <=> Asked(q, t) \/ (q = d /\ t = <<g, text[g]>>)
        /\ \A k, l \in 1..Len(asks') : asks'[k][1] = asks'[l][1] => k = l
    BY <2>1, <2>2, <2>3, <2>4, AskAsked
  <2>6. ASSUME NEW q \in Calls, NEW f \in Files, NEW v \in Versions, Asked(q, <<f, v>>)'
        PROVE  /\ at'[q] \in Fetching /\ item'[q][1] = f
               /\ Stays(q, f, v) \/ OfText(q, f, v)
    <3>1. CASE Asked(q, <<f, v>>)
      <4>1. at[q] \in Fetching /\ item[q][1] = f /\ q # d
        BY <2>4, <3>1 DEF AskInv
      <4> QED BY <2>1, <3>1, <4>1
    <3>2. CASE q = d /\ f = g /\ v = text[g]
      <4>1. v = DocText(f)' \/ f \in discarded'
        BY <2>1, <2>2, <2>3, <3>2 DEF DocText
      <4> QED BY <2>1, <2>2, <2>3, <3>2, <4>1 DEF Fetching, Excused
    <3> QED BY <2>5, <2>6, <3>1, <3>2
  <2> QED BY <2>5, <2>6 DEF AskInv
<1>7. ASSUME NEW p \in Calls, NEW w \in Versions, ShowTests(p, w),
             \A q \in Calls : q # p => at'[q] = at[q] /\ item'[q] = item[q]
      PROVE  Goal
  <2>1. /\ \A q, t : Asked(q, t)' => Asked(q, t) /\ q # p
        /\ \A k, l \in 1..Len(asks') : asks'[k][1] = asks'[l][1] => k = l
    BY <1>7, ShowAsked
  <2>2. ASSUME NEW q \in Calls, NEW f \in Files, NEW v \in Versions, Asked(q, <<f, v>>)'
        PROVE  at'[q] \in Fetching /\ item'[q][1] = f /\ Stays(q, f, v)
    <3>1. Asked(q, <<f, v>>) /\ q # p
      BY <2>1, <2>2
    <3>2. at[q] \in Fetching /\ item[q][1] = f
      BY <3>1 DEF AskInv
    <3> QED BY <1>7, <3>1, <3>2
  <2> QED BY <2>1, <2>2 DEF AskInv
<1>8. ASSUME NEW p \in Calls, Fetched(p) \/ ItemFetched(p) \/ DocFetched(p) PROVE Goal
  <2>1. PICK w \in Versions : ShowTests(p, w)
    BY <1>8 DEF Fetched, ItemFetched, DocFetched
  <2>2. \A q \in Calls : q # p => at'[q] = at[q] /\ item'[q] = item[q]
    BY <1>8 DEF Fetched, ItemFetched, DocFetched, TreeTypeOK
  <2> HIDE DEF Goal
  <2> QED BY <1>7, <2>1, <2>2
<1>9. ASSUME NEW d \in Docs, NEW g \in Files, NEW v \in Versions, Edit(d, g, v) PROVE Goal
  <2>1. /\ d \in Calls /\ at[d] = "idle" /\ asks' = asks /\ item' = item
        /\ \A q \in Calls : q # d => at'[q] = at[q]
    BY <1>9 DEF Edit, TreeTypeOK, Calls
  <2>2. at[d] \notin Fetching
    BY <2>1 DEF Fetching
  <2> HIDE DEF Goal
  <2> QED BY <1>2, <2>1, <2>2
<1>10. ASSUME UNCHANGED <<callVars, asks>> PROVE Goal
  <2>1. asks' = asks /\ at' = at /\ item' = item
    BY <1>10 DEF callVars
  <2> HIDE DEF Goal
  <2> QED BY <1>1, <2>1
<1> HIDE DEF Goal
<1>11. ASSUME NEW g \in Files, Notice(g) \/ DocumentCloses(g) \/ \E v \in Versions : FileChanges(g, v)
       PROVE  Goal
  BY <1>10, <1>11 DEF Notice, DocumentCloses, FileChanges
<1>12. ASSUME ProjectChanges \/ UNCHANGED testTreeVars PROVE Goal
  BY <1>10, <1>12 DEF ProjectChanges, testTreeVars, treeVars
<1>13. Goal
  BY <1>3, <1>4, <1>5, <1>6, <1>8, <1>9, <1>11, <1>12 DEF TreeNext, Terminated, Calls
<1> QED BY <1>13 DEF Goal

-----------------------------------------------------------------------------
(* What the tree shows *)

\* The tests of an item change when it is fetched, or made.
LEMMA ShownStep ==
  ASSUME TreeTypeOK, AtInv, [TreeNext]_testTreeVars, NEW i \in Items, shown'[i] # shown[i]
  PROVE  \/ \E p \in Calls : item[p] = i /\ \E v \in Versions : ShowTests(p, v)
         \/ Free(i) /\ \E p \in Calls : item'[p] = i
<1> DEFINE Goal == \/ \E p \in Calls : item[p] = i /\ \E v \in Versions : ShowTests(p, v)
                   \/ Free(i) /\ \E p \in Calls : item'[p] = i
<1>1. ASSUME NEW p \in Calls, Call(p) \/ LoadBegins(p) \/ LoadSkips(p) \/ WalkBegins(p) \/ WalkEnds(p)
                              \/ VisitResolved(p) \/ Gather(p) \/ VisitItem(p) \/ RunGoes(p) \/ DocLoads(p)
                              \/ Expand(p)
      PROVE  FALSE
  BY <1>1 DEF Call, LoadBegins, LoadSkips, WalkBegins, WalkEnds, VisitResolved, Gather, VisitItem,
     RunGoes, DocLoads, Expand, itemVars
<1>2. ASSUME NEW p \in Calls, Read(p) \/ ReadItem(p) PROVE FALSE
  BY <1>2 DEF Read, ReadItem, ReadsNew, ReadsSame, itemVars
<1>3. ASSUME NEW p \in Calls, Fetched(p) \/ ItemFetched(p) \/ DocFetched(p) PROVE Goal
  <2>1. PICK v \in Versions : ShowTests(p, v)
    BY <1>3 DEF Fetched, ItemFetched, DocFetched
  <2>2. item[p] = i
    BY <2>1 DEF ShowTests, TreeTypeOK
  <2> QED BY <2>1, <2>2
<1>4. ASSUME NEW p \in Calls, NEW j \in Items, GetOrCreate(j[1], j), item'[p] = j PROVE Goal
  <2>1. Fresh(j) /\ j = i
    BY <1>4 DEF GetOrCreate, TreeTypeOK
  <2> QED BY <1>4, <2>1 DEF Fresh
<1>5. ASSUME NEW p \in Calls, Visit(p) PROVE Goal
  <2>1. PICK j \in Items : item' = [item EXCEPT ![p] = j] /\ GetOrCreate(j[1], j)
    BY <1>5 DEF Visit, GetOrCreate
  <2>2. item'[p] = j
    BY <2>1 DEF TreeTypeOK
  <2> QED BY <1>4, <2>1, <2>2
<1>6. ASSUME NEW p \in Docs, DocAsks(p) PROVE Goal
  <2>1. PICK j \in Items : item' = [item EXCEPT ![p] = j] /\ GetOrCreate(j[1], j)
    BY <1>6 DEF DocAsks, GetOrCreate
  <2>2. item'[p] = j /\ p \in Calls
    BY <2>1 DEF TreeTypeOK, Calls
  <2> QED BY <1>4, <2>1, <2>2
<1>7. ASSUME NEW d \in Docs, NEW g \in Files, NEW v \in Versions, Edit(d, g, v) PROVE FALSE
  BY <1>7 DEF Edit, itemVars
<1>8. ASSUME NEW g \in Files, Notice(g) \/ DocumentCloses(g) \/ \E v \in Versions : FileChanges(g, v)
       PROVE  FALSE
  BY <1>8 DEF Notice, DocumentCloses, FileChanges, itemVars
<1>9. ASSUME ProjectChanges \/ UNCHANGED testTreeVars PROVE FALSE
  BY <1>9 DEF ProjectChanges, testTreeVars, treeVars, itemVars
<1> HIDE DEF Goal
<1>10. Goal
  BY <1>1, <1>2, <1>3, <1>5, <1>6, <1>7, <1>8, <1>9
     DEF TreeNext, Terminated, LoadWalks, RunWalks, LoadWalked, RunWalked, Calls
<1> QED BY <1>10 DEF Goal

\* What is known of an item changes when it is read, or made.
LEMMA KnownStep ==
  ASSUME TreeTypeOK, AtInv, [TreeNext]_testTreeVars, NEW i \in Items, known'[i] # known[i]
  PROVE  \/ known'[i] = NoVersion /\ Free(i)
         \/ \E p \in Calls : /\ item[p] = i /\ at[p] \in {"reading", "itemReading"}
                             /\ item'[p] = i /\ at'[p] \in {"fetching", "itemFetching"}
<1> DEFINE Goal == \/ known'[i] = NoVersion /\ Free(i)
                   \/ \E p \in Calls : /\ item[p] = i /\ at[p] \in {"reading", "itemReading"}
                                       /\ item'[p] = i /\ at'[p] \in {"fetching", "itemFetching"}
<1>1. ASSUME NEW p \in Calls, Call(p) \/ LoadBegins(p) \/ LoadSkips(p) \/ WalkBegins(p) \/ WalkEnds(p)
                              \/ VisitResolved(p) \/ Gather(p) \/ VisitItem(p) \/ RunGoes(p) \/ DocLoads(p)
                              \/ Expand(p)
      PROVE  FALSE
  BY <1>1 DEF Call, LoadBegins, LoadSkips, WalkBegins, WalkEnds, VisitResolved, Gather, VisitItem,
     RunGoes, DocLoads, Expand, itemVars
<1>2. ASSUME NEW p \in Calls, Read(p) \/ ReadItem(p) PROVE Goal
  <2>1. CASE ReadsSame(p)
    BY <2>1 DEF ReadsSame, itemVars
  <2>2. CASE ReadsNew(p) /\ at[p] \in {"reading", "itemReading"} /\ item' = item
                         /\ \E w \in {"fetching", "itemFetching"} : at' = [at EXCEPT ![p] = w]
    <3>1. item[p] = i
      BY <2>2 DEF ReadsNew, TreeTypeOK
    <3>2. at'[p] \in {"fetching", "itemFetching"}
      BY <2>2 DEF TreeTypeOK
    <3> QED BY <2>2, <3>1, <3>2
  <2> QED BY <1>2, <2>1, <2>2 DEF Read, ReadItem
<1>3. ASSUME NEW p \in Calls, Fetched(p) \/ ItemFetched(p) \/ DocFetched(p) PROVE FALSE
  BY <1>3 DEF Fetched, ItemFetched, DocFetched, ShowTests
<1>4. ASSUME NEW j \in Items, GetOrCreate(j[1], j) PROVE Goal
  BY <1>4 DEF GetOrCreate, Fresh, TreeTypeOK
<1>5. ASSUME NEW p \in Calls, Visit(p) PROVE Goal
  <2>1. PICK j \in Items : GetOrCreate(j[1], j)
    BY <1>5 DEF Visit, GetOrCreate
  <2> QED BY <1>4, <2>1
<1>6. ASSUME NEW p \in Docs, DocAsks(p) PROVE Goal
  <2>1. PICK j \in Items : GetOrCreate(j[1], j)
    BY <1>6 DEF DocAsks, GetOrCreate
  <2> QED BY <1>4, <2>1
<1>7. ASSUME NEW d \in Docs, NEW g \in Files, NEW v \in Versions, Edit(d, g, v) PROVE FALSE
  BY <1>7 DEF Edit, itemVars
<1>8. ASSUME NEW g \in Files, Notice(g) \/ DocumentCloses(g) \/ \E v \in Versions : FileChanges(g, v)
      PROVE  FALSE
  BY <1>8 DEF Notice, DocumentCloses, FileChanges, itemVars
<1>9. ASSUME ProjectChanges \/ UNCHANGED testTreeVars PROVE FALSE
  BY <1>9 DEF ProjectChanges, testTreeVars, treeVars, itemVars
<1> HIDE DEF Goal
<1>10. Goal
  BY <1>1, <1>2, <1>3, <1>5, <1>6, <1>7, <1>8, <1>9
     DEF TreeNext, Terminated, LoadWalks, RunWalks, LoadWalked, RunWalked, Calls
<1> QED BY <1>10 DEF Goal

\* A call lets go of its item when it has read a text it knows, or has its tests.
LEMMA ReleaseStep ==
  ASSUME TreeTypeOK, AtInv, [TreeNext]_testTreeVars, NEW p \in Calls, item[p] \in Items, item'[p] # item[p]
  PROVE  /\ UNCHANGED diskVars /\ item' = [item EXCEPT ![p] = NoItem]
         /\ \/ ReadsSame(p) /\ at[p] = "reading" /\ Judge(p, item[p], shown[item[p]])
            \/ ReadsSame(p) /\ at[p] = "itemReading"
            \/ \E v \in Versions :
                  /\ ShowTests(p, v)
                  /\ \/ at[p] = "fetching" /\ Judge(p, item[p], v)
                     \/ at[p] = "itemFetching"
                     \/ at[p] = "docFetching" /\ (v = Empty => Delete(item[p][1]))
<1> DEFINE Goal == /\ UNCHANGED diskVars /\ item' = [item EXCEPT ![p] = NoItem]
                   /\ \/ ReadsSame(p) /\ at[p] = "reading" /\ Judge(p, item[p], shown[item[p]])
                      \/ ReadsSame(p) /\ at[p] = "itemReading"
                      \/ \E v \in Versions :
                            /\ ShowTests(p, v)
                            /\ \/ at[p] = "fetching" /\ Judge(p, item[p], v)
                               \/ at[p] = "itemFetching"
                               \/ at[p] = "docFetching" /\ (v = Empty => Delete(item[p][1]))
<1>1. ASSUME NEW q \in Calls, Call(q) \/ LoadBegins(q) \/ LoadSkips(q) \/ WalkBegins(q) \/ WalkEnds(q)
                              \/ VisitResolved(q) \/ Gather(q) \/ RunGoes(q) \/ DocLoads(q)
      PROVE  FALSE
  BY <1>1 DEF Call, LoadBegins, LoadSkips, WalkBegins, WalkEnds, VisitResolved, Gather, RunGoes, DocLoads
<1>2. ASSUME NEW q \in Calls, Visit(q) \/ VisitItem(q) \/ DocAsks(q) \/ Expand(q) PROVE FALSE
  <2>1. at[q] \in {"idle", "files", "items", "lookup"}
        /\ (item' = item \/ \E i \in Items : item' = [item EXCEPT ![q] = i])
    BY <1>2 DEF Visit, VisitItem, DocAsks, Expand, TreeTypeOK
  <2>2. item[q] \notin Items
    BY <2>1 DEF AtInv, Holding
  <2> QED BY <2>1, <2>2 DEF TreeTypeOK
<1>3. ASSUME NEW q \in Calls, Read(q) PROVE Goal
  <2>1. q = p /\ item' # item
    BY <1>3 DEF Read, TreeTypeOK
  <2> QED BY <1>3, <2>1 DEF Read
<1>4. ASSUME NEW q \in Calls, ReadItem(q) PROVE Goal
  <2>1. q = p /\ item' # item
    BY <1>4 DEF ReadItem, TreeTypeOK
  <2> QED BY <1>4, <2>1 DEF ReadItem
<1>5. ASSUME NEW q \in Calls, Fetched(q) PROVE Goal
  <2>1. q = p
    BY <1>5 DEF Fetched, TreeTypeOK
  <2> QED BY <1>5, <2>1 DEF Fetched
<1>6. ASSUME NEW q \in Calls, ItemFetched(q) PROVE Goal
  <2>1. q = p
    BY <1>6 DEF ItemFetched, TreeTypeOK
  <2> QED BY <1>6, <2>1 DEF ItemFetched
<1>7. ASSUME NEW q \in Calls, DocFetched(q) PROVE Goal
  <2>1. q = p
    BY <1>7 DEF DocFetched, TreeTypeOK
  <2> QED BY <1>7, <2>1 DEF DocFetched
<1>8. ASSUME item' = item PROVE FALSE
  BY <1>8
<1>9. ASSUME NEW d \in Docs, NEW g \in Files, NEW v \in Versions, Edit(d, g, v) PROVE FALSE
  BY <1>9 DEF Edit
<1>10. ASSUME NEW g \in Files, Notice(g) \/ DocumentCloses(g) \/ \E v \in Versions : FileChanges(g, v)
       PROVE  FALSE
  BY <1>10 DEF Notice, DocumentCloses, FileChanges, callVars
<1>11. ASSUME ProjectChanges \/ UNCHANGED testTreeVars PROVE FALSE
  BY <1>11 DEF ProjectChanges, testTreeVars, treeVars, callVars
<1> HIDE DEF Goal
<1>12. Goal
  BY <1>1, <1>2, <1>3, <1>4, <1>5, <1>6, <1>7, <1>9, <1>10, <1>11
     DEF TreeNext, Terminated, LoadWalks, RunWalks, LoadWalked, RunWalked, Calls
<1> QED BY <1>12 DEF Goal

\* An item comes into the tree when it is made, for a document or at the end of a walk.
LEMMA ShowsUp ==
  ASSUME TreeTypeOK, AtInv, [TreeNext]_testTreeVars, NEW i \in Items, ~Visible(i), Visible(i)'
  PROVE  \/ \E p \in Calls : item[p] = i /\ at[p] = "docFetching"
         \/ Held(i)' /\ known'[i] = NoVersion
         \/ \E p \in Calls : Walking(p) /\ i \in got[p]
<1> DEFINE Goal == \/ \E p \in Calls : item[p] = i /\ at[p] = "docFetching"
                   \/ Held(i)' /\ known'[i] = NoVersion
                   \/ \E p \in Calls : Walking(p) /\ i \in got[p]
<1>0. place[i] = "out" /\ place'[i] # "out"
  BY DEF Visible
<1>1. ASSUME NEW p \in Calls, Call(p) \/ LoadBegins(p) \/ LoadSkips(p) \/ WalkBegins(p)
                              \/ Gather(p) \/ VisitItem(p) \/ RunGoes(p) \/ DocLoads(p)
                              \/ ReadItem(p) \/ ItemFetched(p) \/ Expand(p)
      PROVE  FALSE
  BY <1>0, <1>1 DEF Call, LoadBegins, LoadSkips, WalkBegins, Gather, VisitItem, RunGoes, DocLoads,
     ReadItem, ItemFetched, Expand, placeVars
<1>2. ASSUME NEW p \in Calls, WalkEnds(p) PROVE Goal
  <2>1. i \in got[p] /\ Walking(p)
    BY <1>0, <1>2 DEF WalkEnds, ReplaceChildren, Walking
  <2> QED BY <2>1
<1>3. ASSUME NEW p \in Calls, NEW j, NEW v, Judge(p, j, v) PROVE FALSE
  BY <1>0, <1>3 DEF Judge, Delete, TreeTypeOK, placeVars
<1>4. ASSUME NEW p \in Calls, VisitResolved(p) \/ Read(p) \/ Fetched(p) PROVE FALSE
  <2>1. place' = place \/ \E j, v : Judge(p, j, v)
    BY <1>4 DEF VisitResolved, Read, Fetched, placeVars
  <2> QED BY <1>0, <1>3, <2>1
<1>5. ASSUME NEW p \in Calls, NEW j \in Items, GetOrCreate(j[1], j), item' = [item EXCEPT ![p] = j] PROVE Goal
  <2>1. j = i /\ known'[i] = NoVersion
    BY <1>0, <1>5 DEF GetOrCreate, placeVars, TreeTypeOK
  <2>2. item'[p] = i
    BY <1>5, <2>1 DEF TreeTypeOK
  <2> QED BY <2>1, <2>2 DEF Held
<1>6. ASSUME NEW p \in Calls, Visit(p) \/ DocAsks(p) PROVE Goal
  <2>1. PICK j \in Items : \E f : item' = [item EXCEPT ![p] = j] /\ GetOrCreate(f, j)
    BY <1>6 DEF Visit, DocAsks
  <2>2. GetOrCreate(j[1], j)
    BY <2>1 DEF GetOrCreate
  <2> QED BY <1>5, <2>1, <2>2
<1>7. ASSUME NEW p \in Calls, DocFetched(p) PROVE Goal
  <2>1. item[p] = i /\ at[p] = "docFetching"
    BY <1>0, <1>7 DEF DocFetched, Delete, placeVars, TreeTypeOK
  <2> QED BY <2>1
<1>8. ASSUME NEW d \in Docs, NEW g \in Files, NEW v \in Versions, Edit(d, g, v) PROVE FALSE
  BY <1>0, <1>8 DEF Edit, placeVars
<1>9. ASSUME NEW g \in Files, Notice(g) \/ DocumentCloses(g) \/ \E v \in Versions : FileChanges(g, v)
       PROVE  FALSE
  BY <1>0, <1>9 DEF Notice, DocumentCloses, FileChanges, placeVars
<1>10. ASSUME ProjectChanges \/ UNCHANGED testTreeVars PROVE FALSE
  BY <1>0, <1>10 DEF ProjectChanges, testTreeVars, treeVars, placeVars
<1> HIDE DEF Goal
<1>11. Goal
  BY <1>1, <1>2, <1>4, <1>6, <1>7, <1>8, <1>9, <1>10
     DEF TreeNext, Terminated, LoadWalks, RunWalks, LoadWalked, RunWalked, Calls
<1> QED BY <1>11 DEF Goal

\* What a walk finds has tests.
LEMMA GotStep ==
  ASSUME TreeTypeOK, AtInv, [TreeNext]_testTreeVars, NEW p \in Calls, NEW i \in Items,
         Walking(p)', i \in got'[p]
  PROVE  (Walking(p) /\ i \in got[p]) \/ shown'[i] # Empty
<1> DEFINE Goal == (Walking(p) /\ i \in got[p]) \/ shown'[i] # Empty
<1>1. ASSUME got'[p] \subseteq got[p], Walking(p) PROVE Goal
  BY <1>1
<1>2. ASSUME NEW q \in Calls, q = p => Walking(p), \A r \in Calls : r # q => at'[r] = at[r], got' = got
      PROVE  Goal
  <2>1. Walking(p)
    BY <1>2 DEF Walking
  <2> QED BY <1>2, <2>1
<1>3. ASSUME NEW q \in Calls, WalkBegins(q), at[q] \in {"target", "discover"} PROVE Goal
  <2>1. got' = got /\ got[q] = {} /\ \A r \in Calls : r # q => at'[r] = at[r]
    BY <1>3 DEF WalkBegins, AtInv, Walking, TreeTypeOK
  <2>2. q # p
    BY <2>1
  <2> QED BY <1>2, <2>1, <2>2
<1>4. ASSUME NEW q \in Calls, NEW s, s \notin {"files", "reading", "fetching"}, at' = [at EXCEPT ![q] = s],
             \A r \in Calls : r # q => got'[r] = got[r]
      PROVE  Goal
  <2>1. q # p /\ Walking(p)
    BY <1>4 DEF Walking, TreeTypeOK
  <2> QED BY <1>4, <2>1
<1>5. ASSUME NEW q \in Calls, LoadSkips(q) \/ LoadWalked(q) PROVE Goal
  <2>1. PICK s : s = IF q \in Loads THEN "done" ELSE IF q \in Runs THEN "discover" ELSE "lookup"
    OBVIOUS
  <2>2. at' = [at EXCEPT ![q] = s] /\ s \notin {"files", "reading", "fetching"}
    BY <1>5, <2>1, LoadLeads DEF LoadSkips, LoadWalked, LoadEnds
  <2>3. \A r \in Calls : r # q => got'[r] = got[r]
    BY <1>5 DEF LoadSkips, LoadWalked, WalkEnds, TreeTypeOK
  <2> HIDE DEF Goal
  <2> QED BY <1>4, <2>2, <2>3
<1>6. ASSUME NEW q \in Calls, Call(q) \/ LoadBegins(q) \/ RunWalked(q) \/ Gather(q) \/ ReadItem(q)
                              \/ ItemFetched(q) \/ RunGoes(q) \/ DocLoads(q) \/ DocFetched(q) \/ DocAsks(q)
                              \/ Expand(q)
      PROVE  Goal
  <2>1. \E s \in {"idle", "queued", "target", "discover", "items", "itemReading", "itemFetching", "done", "docFetching"} :
           at' = [at EXCEPT ![q] = s]
    BY <1>6 DEF Call, LoadBegins, RunWalked, Gather, ReadItem, ItemFetched, RunGoes, DocLoads, DocFetched,
       DocAsks, Expand
  <2>2. \A r \in Calls : r # q => got'[r] = got[r]
    BY <1>6 DEF Call, LoadBegins, RunWalked, WalkEnds, Gather, ReadItem, ItemFetched, RunGoes, DocLoads,
       DocFetched, DocAsks, Expand, TreeTypeOK
  <2> HIDE DEF Goal
  <2> QED BY <1>4, <2>1, <2>2
<1>7. ASSUME NEW q \in Calls, VisitItem(q) PROVE Goal
  <2>1. /\ at[q] = "items" /\ (at' = at \/ at' = [at EXCEPT ![q] = "itemReading"])
        /\ \A r \in Calls : r # q => got'[r] = got[r]
    BY <1>7 DEF VisitItem, TreeTypeOK
  <2>2. q # p /\ Walking(p)
    BY <2>1 DEF Walking, TreeTypeOK
  <2> QED BY <2>1, <2>2
<1>8. ASSUME NEW q \in Calls, Visit(q) PROVE Goal
  <2>1. got' = got /\ at[q] = "files" /\ \A r \in Calls : r # q => at'[r] = at[r]
    BY <1>8 DEF Visit, TreeTypeOK
  <2>2. Walking(q)
    BY <2>1 DEF Walking
  <2> QED BY <1>2, <2>1, <2>2
<1>9. ASSUME NEW q \in Calls, NEW j \in Items, NEW v, Judge(q, j, v), Walking(q), shown'[j] = v,
             \A r \in Calls : r # q => at'[r] = at[r]
      PROVE  Goal
  <2>1. Walking(p)
    BY <1>9 DEF Walking
  <2>2. got'[p] = got[p] \/ (v # Empty /\ got'[p] \subseteq got[p] \cup {j})
    BY <1>9 DEF Judge, TreeTypeOK
  <2> QED BY <1>9, <2>1, <2>2
<1>10. ASSUME NEW q \in Calls, VisitResolved(q) PROVE Goal
  <2>1. PICK g \in Files : Found(g) /\ Judge(q, <<g, reused[g]>>, shown[<<g, reused[g]>>])
    BY <1>10 DEF VisitResolved, TreeTypeOK
  <2>2. <<g, reused[g]>> \in Items
    BY <2>1, ItemParts DEF Found, TreeTypeOK
  <2>3. at' = at /\ Walking(q) /\ shown' = shown
    BY <1>10 DEF VisitResolved, Walking, itemVars
  <2> HIDE DEF Goal
  <2> QED BY <1>9, <2>1, <2>2, <2>3
<1>11. ASSUME NEW q \in Calls, Read(q) \/ Fetched(q) PROVE Goal
  <2>1. /\ at[q] \in {"reading", "fetching"} /\ \A r \in Calls : r # q => at'[r] = at[r]
        /\ \/ got' = got
           \/ Judge(q, item[q], shown[item[q]]) /\ shown' = shown
           \/ \E v \in Versions : Judge(q, item[q], v) /\ shown' = [shown EXCEPT ![item[q]] = v]
    BY <1>11 DEF Read, Fetched, ReadsSame, itemVars, ShowTests, TreeTypeOK
  <2>2. Walking(q) /\ item[q] \in Items
    BY <2>1 DEF Walking, AtInv, Holding
  <2>3. got' = got \/ \E v : Judge(q, item[q], v) /\ shown'[item[q]] = v
    BY <2>1, <2>2 DEF TreeTypeOK
  <2> HIDE DEF Goal
  <2> QED BY <1>2, <1>9, <2>1, <2>2, <2>3
<1>12. ASSUME NEW d \in Docs, NEW g \in Files, NEW v \in Versions, Edit(d, g, v) PROVE Goal
  <2>1. at' = [at EXCEPT ![d] = "lookup"] /\ got' = got /\ d \in Calls
    BY <1>12 DEF Edit, Calls
  <2> HIDE DEF Goal
  <2> QED BY <1>4, <2>1
<1>13. ASSUME UNCHANGED callVars PROVE Goal
  BY <1>13 DEF callVars, Walking
<1> HIDE DEF Goal
<1>14. ASSUME NEW g \in Files, Notice(g) \/ DocumentCloses(g) \/ \E v \in Versions : FileChanges(g, v)
       PROVE  Goal
  BY <1>13, <1>14 DEF Notice, DocumentCloses, FileChanges
<1>15. ASSUME ProjectChanges \/ UNCHANGED testTreeVars PROVE Goal
  BY <1>13, <1>15 DEF ProjectChanges, testTreeVars, treeVars
<1>16. ASSUME NEW q \in Calls, LoadWalks(q) \/ RunWalks(q) PROVE Goal
  BY <1>3, <1>16 DEF LoadWalks, RunWalks
<1>17. Goal
  BY <1>5, <1>6, <1>7, <1>8, <1>10, <1>11, <1>12, <1>14, <1>15, <1>16 DEF TreeNext, Terminated, Calls
<1> QED BY <1>17 DEF Goal

\* While nobody goes to an item in use, the news of its file stay.
LEMMA NewsKept ==
  ASSUME TreeTypeOK, TreeTypeOK', AtInv, [TreeNext]_testTreeVars, NEW f \in Files, f \notin Excused', OneItem(f)',
         NEW i \in Items, i[1] = f, ~Free(i)', ~Held(i)'
  PROVE  /\ (DiskNews(f) => DiskNews(f)') /\ (DocComes(f) => DocComes(f)')
         /\ disk'[f] = disk[f] \/ DiskNews(f)'
         /\ \/ TextOf(f)' = TextOf(f) /\ DocText(f)' = DocText(f)
            \/ DiskNews(f)' \/ DocComes(f)'
<1>1. ASSUME NEW p \in Calls, NEW j \in Items, j[1] = f, item' = [item EXCEPT ![p] = j] PROVE FALSE
  <2>1. item'[p] = j
    BY <1>1 DEF TreeTypeOK
  <2>2. ~Free(j)'
    BY <2>1 DEF Free
  <2>3. j = i
    BY <1>1, <2>2 DEF OneItem
  <2> QED BY <2>1, <2>3 DEF Held
<1>2. DiskNews(f) => DiskNews(f)'
  <2> SUFFICES ASSUME DiskNews(f), ~DiskNews(f)' PROVE FALSE
    OBVIOUS
  <2>1. \E p \in Calls, j \in Items : j[1] = f /\ item' = [item EXCEPT ![p] = j]
    BY NewsTaken
  <2> QED BY <1>1, <2>1
<1>3. DocComes(f) => DocComes(f)'
  <2> SUFFICES ASSUME DocComes(f), ~DocComes(f)' PROVE FALSE
    OBVIOUS
  <2>1. \E p \in Calls, j \in Items : j[1] = f /\ item' = [item EXCEPT ![p] = j]
    BY DocTaken
  <2> QED BY <1>1, <2>1
<1> QED BY <1>2, <1>3, ChangesAreNews

\* A call at an item was there, or comes to it.
LEMMA HereStep ==
  ASSUME TreeTypeOK, AtInv, [TreeNext]_testTreeVars, NEW p \in Calls, NEW i \in Items, item'[p] = i
  PROVE  \/ item[p] = i /\ (at'[p] = at[p] \/ at'[p] \in Fetching)
         \/ item[p] \notin Items /\ at'[p] = "itemReading" /\ ~Free(i)
         \/ item[p] \notin Items /\ at'[p] = "docFetching"
         \/ item[p] \notin Items /\ at'[p] = "reading" /\ GetOrCreate(i[1], i)
<1> DEFINE Goal == \/ item[p] = i /\ (at'[p] = at[p] \/ at'[p] \in Fetching)
                   \/ item[p] \notin Items /\ at'[p] = "itemReading" /\ ~Free(i)
                   \/ item[p] \notin Items /\ at'[p] = "docFetching"
                   \/ item[p] \notin Items /\ at'[p] = "reading" /\ GetOrCreate(i[1], i)
<1>1. ASSUME NEW q \in Calls, \A c \in Calls : c # q => at'[c] = at[c] /\ item'[c] = item[c],
             q = p => Goal
      PROVE  Goal
  BY <1>1
<1>2. ASSUME NEW q \in Calls, at[q] \notin Holding, item' = item, \A c \in Calls : c # q => at'[c] = at[c]
      PROVE  Goal
  <2>1. q # p
    BY <1>2 DEF AtInv
  <2> QED BY <1>2, <2>1
<1> HIDE DEF Goal
<1>3. ASSUME NEW q \in Calls, Call(q) \/ LoadBegins(q) \/ LoadSkips(q) \/ LoadWalks(q) \/ RunWalks(q)
                              \/ VisitResolved(q) \/ Gather(q) \/ RunGoes(q) \/ DocLoads(q)
      PROVE  Goal
  <2>1. /\ at[q] \in {"idle", "queued", "target", "discover", "files", "items", "lookup"}
        /\ item' = item
    BY <1>3 DEF Call, LoadBegins, LoadSkips, LoadWalks, RunWalks, WalkBegins, VisitResolved, Gather,
       RunGoes, DocLoads
  <2>2. \A c \in Calls : c # q => at'[c] = at[c]
    BY <1>3 DEF Call, LoadBegins, LoadSkips, LoadEnds, LoadWalks, RunWalks, WalkBegins, VisitResolved,
       Gather, RunGoes, DocLoads, TreeTypeOK
  <2> QED BY <1>2, <2>1, <2>2 DEF Holding
<1>4. ASSUME NEW q \in Calls, LoadWalked(q) \/ RunWalked(q) PROVE Goal
  <2>1. at[q] = "files" /\ item' = item /\ \A c \in Calls : c # q => at'[c] = at[c]
    BY <1>4 DEF LoadWalked, RunWalked, WalkEnds, LoadEnds, TreeTypeOK
  <2> QED BY <1>2, <2>1 DEF Holding
<1>5. ASSUME NEW q \in Calls, Read(q) \/ ReadItem(q) \/ Fetched(q) \/ ItemFetched(q) \/ DocFetched(q)
      PROVE  Goal
  <2>1. \A c \in Calls : c # q => at'[c] = at[c] /\ item'[c] = item[c]
    BY <1>5 DEF Read, ReadItem, Fetched, ItemFetched, DocFetched, TreeTypeOK
  <2>2. CASE q = p
    <3>1. item' = [item EXCEPT ![q] = NoItem] \/ (item' = item /\ at'[q] \in {"fetching", "itemFetching"})
      BY <1>5 DEF Read, ReadItem, Fetched, ItemFetched, DocFetched, TreeTypeOK
    <3>2. item' = item /\ at'[q] \in {"fetching", "itemFetching"}
      BY <2>2, <3>1, ItemParts DEF TreeTypeOK
    <3> QED BY <2>2, <3>2 DEF Goal, Fetching
  <2> QED BY <1>1, <2>1, <2>2
<1>6. ASSUME NEW q \in Calls, Visit(q) PROVE Goal
  <2>1. PICK j \in Items : GetOrCreate(j[1], j) /\ item' = [item EXCEPT ![q] = j]
    BY <1>6 DEF Visit, GetOrCreate
  <2>2. at[q] = "files" /\ at' = [at EXCEPT ![q] = "reading"]
    BY <1>6 DEF Visit
  <2>3. item[q] \notin Items
    BY <2>2 DEF AtInv, Holding
  <2>4. q = p => Goal
    BY <2>1, <2>2, <2>3 DEF Goal, TreeTypeOK
  <2> QED BY <1>1, <2>1, <2>2, <2>4 DEF TreeTypeOK
<1>7. ASSUME NEW q \in Calls, VisitItem(q) PROVE Goal
  <2>1. PICK j \in Items : /\ j \in got[q] /\ at[q] = "items"
                           /\ \/ UNCHANGED <<item, at>>
                              \/ item' = [item EXCEPT ![q] = j] /\ at' = [at EXCEPT ![q] = "itemReading"]
    BY <1>7 DEF VisitItem, TreeTypeOK
  <2>2. item[q] \notin Items /\ ~Free(j)
    BY <2>1 DEF AtInv, Holding, Free
  <2>3. q = p => Goal
    BY <2>1, <2>2 DEF Goal, TreeTypeOK
  <2> QED BY <1>1, <2>1, <2>3 DEF TreeTypeOK
<1>8. ASSUME NEW q \in Calls, Expand(q) PROVE Goal
  <2>1. PICK j \in Items : Visible(j) /\ item' = [item EXCEPT ![q] = j]
    BY <1>8 DEF Expand
  <2>2. at[q] = "idle" /\ at' = [at EXCEPT ![q] = "itemReading"]
    BY <1>8 DEF Expand
  <2>3. item[q] \notin Items /\ ~Free(j)
    BY <2>1, <2>2 DEF AtInv, Holding, Free
  <2>4. q = p => Goal
    BY <2>1, <2>2, <2>3 DEF Goal, TreeTypeOK
  <2> QED BY <1>1, <2>1, <2>2, <2>4 DEF TreeTypeOK
<1>9. ASSUME NEW q \in Docs, DocAsks(q) PROVE Goal
  <2>1. PICK j \in Items : item' = [item EXCEPT ![q] = j]
    BY <1>9 DEF DocAsks
  <2>2. at[q] = "lookup" /\ at' = [at EXCEPT ![q] = "docFetching"] /\ q \in Calls
    BY <1>9 DEF DocAsks, Calls
  <2>3. item[q] \notin Items
    BY <2>2 DEF AtInv, Holding
  <2>4. q = p => Goal
    BY <2>2, <2>3 DEF Goal, TreeTypeOK
  <2> QED BY <1>1, <2>1, <2>2, <2>4 DEF TreeTypeOK
<1>10. ASSUME NEW d \in Docs, NEW g \in Files, NEW v \in Versions, Edit(d, g, v) PROVE Goal
  <2>1. at[d] = "idle" /\ item' = item /\ at' = [at EXCEPT ![d] = "lookup"] /\ d \in Calls
    BY <1>10 DEF Edit, Calls
  <2> QED BY <1>2, <2>1 DEF Holding, TreeTypeOK
<1>11. ASSUME UNCHANGED <<at, item>> PROVE Goal
  BY <1>11 DEF Goal
<1>12. ASSUME NEW g \in Files, Notice(g) \/ DocumentCloses(g) \/ \E v \in Versions : FileChanges(g, v)
       PROVE  Goal
  BY <1>11, <1>12 DEF Notice, DocumentCloses, FileChanges, callVars
<1>13. ASSUME ProjectChanges \/ UNCHANGED testTreeVars PROVE Goal
  BY <1>11, <1>13 DEF ProjectChanges, testTreeVars, treeVars, callVars
<1>14. Goal
  BY <1>3, <1>4, <1>5, <1>6, <1>7, <1>8, <1>9, <1>10, <1>12, <1>13 DEF TreeNext, Terminated, Calls
<1> QED BY <1>14 DEF Goal

\* A step keeps what an item shows.
LEMMA ShownIsCurrentStep ==
  ASSUME TreeTypeOK, TreeTypeOK', AtInv, AskInv, [TreeNext]_testTreeVars,
         NEW f \in Files, f \notin Excused', OneItem(f)', ShownIsCurrent(f), AskIsCurrent(f)
  PROVE  ShownIsCurrent(f)'
<1> SUFFICES ASSUME NEW i \in Items, i[1] = f, ~Free(i)', ~Held(i)'
             PROVE  shown'[i] \in TextOf(f)' \/ DiskNews(f)' \/ DocComes(f)'
  BY DEF ShownIsCurrent
<1>1. /\ (DiskNews(f) => DiskNews(f)') /\ (DocComes(f) => DocComes(f)')
      /\ TextOf(f)' = TextOf(f) \/ DiskNews(f)' \/ DocComes(f)'
  BY NewsKept
<1>2. CASE Held(i)
  <2>1. PICK p \in Calls : item[p] = i /\ item'[p] # i
    BY <1>2 DEF Held
  <2>2. \/ ReadsSame(p)
        \/ \E v \in Versions : ShowTests(p, v) /\ at[p] \in {"fetching", "itemFetching", "docFetching"}
    BY <2>1, ReleaseStep
  <2>3. CASE ReadsSame(p)
    <3>1. shown'[i] = shown[i]
      BY <2>3 DEF ReadsSame, itemVars
    <3>2. shown[i] \in TextOf(f)
      BY <2>1, <2>3 DEF ReadsSame, Excused
    <3> QED BY <1>1, <3>1, <3>2
  <2>4. CASE \E v \in Versions : ShowTests(p, v) /\ at[p] \in {"fetching", "itemFetching", "docFetching"}
    <3>1. PICK v \in Versions : ShowTests(p, v)
      BY <2>4
    <3>2. Asked(p, <<f, v>>)
      BY <2>1, <3>1, ShowAsked
    <3>3. shown'[i] = v
      BY <2>1, <3>1 DEF ShowTests, TreeTypeOK
    <3>4. v \in TextOf(f) \/ DocComes(f) \/ DiskNews(f)
      BY <3>2 DEF AskIsCurrent, DocText, TextOf
    <3> QED BY <1>1, <3>3, <3>4
  <2> QED BY <2>2, <2>3, <2>4
<1>3. CASE ~Held(i)
  <2>1. shown'[i] = shown[i]
    BY <1>3, ShownStep DEF Held
  <2>2. ~Free(i)
    <3> SUFFICES ASSUME Free(i) PROVE FALSE
      OBVIOUS
    <3>1. PICK p \in Calls : item' = [item EXCEPT ![p] = i]
      BY FreeStep
    <3> QED BY <3>1 DEF Held, TreeTypeOK
  <2>3. shown[i] \in TextOf(f) \/ DiskNews(f) \/ DocComes(f)
    BY <1>3, <2>2 DEF ShownIsCurrent
  <2> QED BY <1>1, <2>1, <2>3
<1> QED BY <1>2, <1>3

\* A step keeps what is asked for.
LEMMA AskIsCurrentStep ==
  ASSUME TreeTypeOK, TreeTypeOK', AtInv, AskInv, AskInv', [TreeNext]_testTreeVars,
         NEW f \in Files, f \notin Excused', OneItem(f)', OneHolder(f)', AskIsCurrent(f)
  PROVE  AskIsCurrent(f)'
<1> SUFFICES ASSUME NEW p \in Calls, NEW v \in Versions, Asked(p, <<f, v>>)'
             PROVE  IF at'[p] = "docFetching" THEN v = DocText(f)' \/ DiskNews(f)' \/ DocComes(f)'
                    ELSE v = disk'[f] \/ DiskNews(f)'
  BY DEF AskIsCurrent
<1>1. \/ Asked(p, <<f, v>>) /\ at'[p] = at[p] /\ item'[p] = item[p]
      \/ at'[p] \in {"fetching", "itemFetching"} /\ v = disk[f] /\ disk' = disk
      \/ at'[p] = "docFetching" /\ v = DocText(f)'
  BY AskStep
<1>2. CASE at'[p] \in {"fetching", "itemFetching"} /\ v = disk[f] /\ disk' = disk
  BY <1>2
<1>3. CASE at'[p] = "docFetching" /\ v = DocText(f)'
  BY <1>3
<1>4. CASE Asked(p, <<f, v>>) /\ at'[p] = at[p] /\ item'[p] = item[p]
  <2>1. at[p] \in Fetching /\ item[p][1] = f
    BY <1>4 DEF AskInv
  <2>2. item[p] \in Items /\ ~Free(item[p])'
    BY <1>4, <2>1 DEF AtInv, Holding, Fetching, Free
  <2>3. ASSUME NEW q \in Calls, NEW j \in Items, j[1] = f, item[q] \notin Items, item' = [item EXCEPT ![q] = j]
        PROVE  FALSE
    <3>1. item'[q] = j
      BY <2>3 DEF TreeTypeOK
    <3>2. ~Free(j)'
      BY <3>1 DEF Free
    <3>3. j = item'[p]
      BY <1>4, <2>1, <2>2, <2>3, <3>2 DEF OneItem
    <3>4. q = p
      BY <2>3, <3>1, <3>3 DEF OneHolder
    <3> QED BY <2>2, <2>3, <3>4
  <2>4. DiskNews(f) => DiskNews(f)'
    <3> SUFFICES ASSUME DiskNews(f), ~DiskNews(f)' PROVE FALSE
      OBVIOUS
    <3>1. \E q \in Calls, j \in Items : j[1] = f /\ item[q] \notin Items /\ item' = [item EXCEPT ![q] = j]
      BY NewsTaken
    <3> QED BY <2>3, <3>1
  <2>5. DocComes(f) => DocComes(f)'
    <3> SUFFICES ASSUME DocComes(f), ~DocComes(f)' PROVE FALSE
      OBVIOUS
    <3>1. \E q \in Calls, j \in Items : j[1] = f /\ item[q] \notin Items /\ item' = [item EXCEPT ![q] = j]
      BY DocTaken
    <3> QED BY <2>3, <3>1
  <2>6. IF at[p] = "docFetching" THEN v = DocText(f) \/ DiskNews(f) \/ DocComes(f)
        ELSE v = disk[f] \/ DiskNews(f)
    BY <1>4 DEF AskIsCurrent
  <2> QED BY <1>4, <2>4, <2>5, <2>6, ChangesAreNews
<1> QED BY <1>1, <1>2, <1>3, <1>4

\* An item in the tree that the tree drops for having no tests is gone.
LEMMA DeleteHides ==
  ASSUME TreeTypeOK, NEW i \in Items, reused[i[1]] = i[2], Delete(i[1])
  PROVE  ~Visible(i)'
<1>1. i = <<i[1], reused[i[1]]>> /\ i[2] # 0 /\ i[1] \in Files
  BY ItemParts, TreeAssumption
<1>2. CASE Found(i[1])
  BY <1>1, <1>2 DEF Delete, Visible, TreeTypeOK
<1>3. CASE ~Found(i[1])
  BY <1>1, <1>3 DEF Delete, Found, Visible
<1> QED BY <1>2, <1>3

\* A step keeps what was read before it was asked for.
LEMMA KnownIsAskedStep ==
  ASSUME TreeTypeOK, TreeTypeOK', AtInv, AskInv, [TreeNext]_testTreeVars,
         NEW f \in Files, OneHolder(f), KnownIsAsked(f)
  PROVE  KnownIsAsked(f)'
<1> SUFFICES ASSUME NEW p \in Calls, NEW v \in Versions, Asked(p, <<f, v>>)', at'[p] # "docFetching"
             PROVE  known'[item'[p]] = v
  BY DEF KnownIsAsked
<1>1. \/ Asked(p, <<f, v>>) /\ at'[p] = at[p] /\ item'[p] = item[p]
      \/ known'[item'[p]] = v
  BY AskStep
<1>2. CASE Asked(p, <<f, v>>) /\ at'[p] = at[p] /\ item'[p] = item[p]
  <2>1. at[p] \in Fetching /\ item[p][1] = f /\ known[item[p]] = v
    BY <1>2 DEF AskInv, KnownIsAsked
  <2>2. item[p] \in Items /\ ~Free(item[p])
    BY <2>1 DEF AtInv, Holding, Fetching, Free
  <2>3. ASSUME NEW q \in Calls, item[q] = item[p], at[q] \in {"reading", "itemReading"} PROVE FALSE
    <3>1. q = p
      BY <2>1, <2>2, <2>3 DEF OneHolder
    <3> QED BY <2>1, <2>3, <3>1 DEF Fetching
  <2>4. known'[item[p]] = known[item[p]]
    BY <2>2, <2>3, KnownStep
  <2> QED BY <1>2, <2>1, <2>4
<1> QED BY <1>1, <1>2

\* A step keeps that an item without tests was read as such.
LEMMA EmptyIsKnownStep ==
  ASSUME TreeTypeOK, TreeTypeOK', AtInv, AskInv, [TreeNext]_testTreeVars,
         NEW f \in Files, OneHolder(f), HeldIsReused(f), GotHasTests(f), KnownIsAsked(f), EmptyIsKnown(f)
  PROVE  EmptyIsKnown(f)'
<1> SUFFICES ASSUME NEW i \in Items, i[1] = f, shown'[i] = Empty,
                    \A p \in Calls : item'[p] = i => at'[p] \notin Fetching,
                    Visible(i)' \/ \E p \in Calls : item'[p] = i /\ at'[p] = "reading",
                    known'[i] \notin {Empty, NoVersion}
             PROVE  FALSE
  BY DEF EmptyIsKnown
<1>1. known'[i] = known[i]
  BY KnownStep DEF Fetching
<1>2. ~Found(f) => ~GetOrCreate(f, i)
  BY DEF GetOrCreate, TreeTypeOK
<1>3. GetOrCreate(f, i) => Visible(i)
  <2>1. i = <<i[1], i[2]>>
    BY ItemParts
  <2> QED BY <1>2, <2>1 DEF GetOrCreate, Found
<1>4. ~Free(i)
  <2> SUFFICES ASSUME Free(i) PROVE FALSE
    OBVIOUS
  <2>1. ~Free(i)'
    BY DEF Free
  <2>2. PICK p \in Calls : item' = [item EXCEPT ![p] = i]
    BY <2>1, FreeStep
  <2>3. item'[p] = i /\ item[p] # i
    BY <2>2 DEF Free, TreeTypeOK
  <2>4. GetOrCreate(f, i)
    BY <2>3, HereStep DEF Fetching
  <2> QED BY <1>3, <2>4 DEF Free
<1>5. ASSUME NEW q \in Calls, item[q] = i, at[q] \in Fetching PROVE FALSE
  <2>1. item'[q] # i
    BY <1>5, HereStep
  <2>2. /\ item' = [item EXCEPT ![q] = NoItem]
        /\ \E v \in Versions :
              /\ ShowTests(q, v)
              /\ \/ at[q] = "fetching" /\ Judge(q, i, v)
                 \/ at[q] = "itemFetching"
                 \/ at[q] = "docFetching" /\ (v = Empty => Delete(f))
    BY <1>5, <2>1, ReleaseStep DEF Fetching
  <2>3. PICK v \in Versions :
              /\ ShowTests(q, v)
              /\ \/ at[q] = "fetching" /\ Judge(q, i, v)
                 \/ at[q] = "itemFetching"
                 \/ at[q] = "docFetching" /\ (v = Empty => Delete(f))
    BY <2>2
  <2>4. v = Empty
    BY <1>5, <2>3 DEF ShowTests, TreeTypeOK
  <2>5. CASE at[q] = "itemFetching"
    <3>1. Asked(q, <<f, v>>)
      BY <1>5, <2>3, ShowAsked
    <3>2. known[i] = v
      BY <1>5, <2>5, <3>1 DEF KnownIsAsked
    <3> QED BY <1>1, <2>4, <3>2
  <2>6. CASE at[q] # "itemFetching" /\ Delete(f)
    <3>1. reused[f] = i[2]
      BY <1>5, <2>6 DEF HeldIsReused, Fetching
    <3>2. ~Visible(i)'
      BY <2>6, <3>1, DeleteHides
    <3>3. PICK p \in Calls : item'[p] = i /\ at'[p] = "reading"
      BY <3>2
    <3>4. p # q /\ item[p] = i
      BY <2>1, <2>2, <3>3 DEF TreeTypeOK
    <3> QED BY <1>5, <3>4 DEF OneHolder
  <2> QED BY <2>3, <2>4, <2>5, <2>6 DEF Judge
<1>6. shown'[i] = shown[i]
  <2> SUFFICES ASSUME NEW p \in Calls, item[p] = i, NEW v \in Versions, ShowTests(p, v) PROVE FALSE
    BY <1>4, ShownStep
  <2>1. Asked(p, <<f, v>>)
    BY ShowAsked
  <2>2. at[p] \in Fetching
    BY <2>1 DEF AskInv
  <2> QED BY <1>5, <2>2
<1>7. ~Visible(i) /\ ~\E p \in Calls : item[p] = i /\ at[p] = "reading"
  BY <1>1, <1>5, <1>6 DEF EmptyIsKnown
<1>8. CASE Visible(i)'
  <2>1. \/ \E p \in Calls : item[p] = i /\ at[p] = "docFetching"
        \/ \E p \in Calls : Walking(p) /\ i \in got[p]
    BY <1>7, <1>8, ShowsUp
  <2> QED BY <1>5, <1>6, <2>1 DEF GotHasTests, Fetching
<1>9. CASE \E p \in Calls : item'[p] = i /\ at'[p] = "reading"
  <2>1. PICK p \in Calls : item'[p] = i /\ at'[p] = "reading"
    BY <1>9
  <2>2. (item[p] = i /\ at[p] = "reading") \/ GetOrCreate(f, i)
    BY <2>1, HereStep DEF Fetching
  <2> QED BY <1>3, <1>7, <2>2
<1> QED BY <1>8, <1>9

\* A step keeps the items in the tree from being empty.
LEMMA EmptyIsDiskStep ==
  ASSUME TreeTypeOK, TreeTypeOK', AtInv, AskInv, [TreeNext]_testTreeVars,
         NEW f \in Files, f \notin Excused', OneItem(f)', OneHolder(f), HeldIsReused(f), GotHasTests(f),
         AskIsCurrent(f), EmptyIsKnown(f), EmptyIsDisk(f)
  PROVE  EmptyIsDisk(f)'
<1> SUFFICES ASSUME NEW i \in Items, i[1] = f, Visible(i)', ~Held(i)', shown'[i] = Empty
             PROVE  disk'[f] = Empty \/ DiskNews(f)'
  BY DEF EmptyIsDisk
<1>1. ~Free(i)'
  BY DEF Free
<1>2. (DiskNews(f) => DiskNews(f)') /\ (disk'[f] = disk[f] \/ DiskNews(f)')
  BY <1>1, NewsKept
<1>3. CASE Held(i)
  <2>1. PICK p \in Calls : item[p] = i /\ item'[p] # i
    BY <1>3 DEF Held
  <2>2. at[p] \in {"reading", "fetching", "docFetching"} => ~Delete(f)
    BY <2>1, DeleteHides DEF HeldIsReused
  <2>3. CASE ReadsSame(p) /\ at[p] = "itemReading"
    <3>1. shown'[i] = shown[i] /\ disk[f] = known[i]
      BY <2>1, <2>3 DEF ReadsSame, itemVars
    <3>2. \A q \in Calls : item[q] = i => at[q] \notin Fetching
      BY <2>1, <2>3 DEF OneHolder, Fetching
    <3>3. Visible(i)
      <4> SUFFICES ASSUME ~Visible(i) PROVE FALSE
        OBVIOUS
      <4>1. \E q \in Calls : Walking(q) /\ i \in got[q]
        BY <3>2, ShowsUp DEF Fetching, Held
      <4> QED BY <3>1, <4>1 DEF GotHasTests
    <3>4. known[i] \in {Empty, NoVersion}
      BY <3>1, <3>2, <3>3 DEF EmptyIsKnown
    <3>5. disk[f] # NoVersion
      BY TreeAssumption DEF TreeTypeOK
    <3> QED BY <1>2, <3>1, <3>4, <3>5
  <2>4. ASSUME NEW v \in Versions, ShowTests(p, v)
        PROVE  v = Empty /\ (at[p] = "itemFetching" => disk[f] = Empty \/ DiskNews(f))
    <3>1. shown'[i] = v
      BY <2>1, <2>4 DEF ShowTests, TreeTypeOK
    <3>2. Asked(p, <<f, v>>)
      BY <2>1, <2>4, ShowAsked
    <3> QED BY <3>1, <3>2 DEF AskIsCurrent
  <2>5. \/ ReadsSame(p) /\ at[p] = "reading" /\ Judge(p, item[p], shown[item[p]])
        \/ ReadsSame(p) /\ at[p] = "itemReading"
        \/ \E v \in Versions :
              /\ ShowTests(p, v)
              /\ \/ at[p] = "fetching" /\ Judge(p, item[p], v)
                 \/ at[p] = "itemFetching"
                 \/ at[p] = "docFetching" /\ (v = Empty => Delete(item[p][1]))
    BY <2>1, ReleaseStep
  <2>6. CASE \E v \in Versions :
              /\ ShowTests(p, v)
              /\ \/ at[p] = "fetching" /\ Judge(p, item[p], v)
                 \/ at[p] = "itemFetching"
                 \/ at[p] = "docFetching" /\ (v = Empty => Delete(item[p][1]))
    <3>1. PICK v \in Versions :
              /\ ShowTests(p, v)
              /\ \/ at[p] = "fetching" /\ Judge(p, item[p], v)
                 \/ at[p] = "itemFetching"
                 \/ at[p] = "docFetching" /\ (v = Empty => Delete(item[p][1]))
      BY <2>6
    <3>2. v = Empty /\ (at[p] = "itemFetching" => disk[f] = Empty \/ DiskNews(f))
      BY <2>4, <3>1
    <3>3. at[p] = "itemFetching"
      BY <2>1, <2>2, <3>1, <3>2 DEF Judge
    <3> QED BY <1>2, <3>2, <3>3
  <2>7. CASE ReadsSame(p) /\ at[p] = "reading" /\ Judge(p, item[p], shown[item[p]])
    BY <2>1, <2>2, <2>7 DEF ReadsSame, Judge, itemVars
  <2> QED BY <2>3, <2>5, <2>6, <2>7
<1>4. CASE ~Held(i)
  <2>1. shown'[i] = shown[i]
    BY <1>4, ShownStep DEF Held
  <2>2. Visible(i)
    <3> SUFFICES ASSUME ~Visible(i) PROVE FALSE
      OBVIOUS
    <3>1. \E p \in Calls : Walking(p) /\ i \in got[p]
      BY <1>4, ShowsUp DEF Held
    <3> QED BY <2>1, <3>1 DEF GotHasTests
  <2> QED BY <1>2, <1>4, <2>1, <2>2 DEF EmptyIsDisk
<1> QED BY <1>3, <1>4

\* A step keeps the tests of what a walk has found.
LEMMA GotHasTestsStep ==
  ASSUME TreeTypeOK, TreeTypeOK', AtInv, WalkInv, [TreeNext]_testTreeVars,
         NEW f \in Files, InNoWalk(f), GotHasTests(f)
  PROVE  GotHasTests(f)'
<1> SUFFICES ASSUME NEW p \in Calls, NEW i \in Items, i[1] = f, Walking(p)', i \in got'[p], shown'[i] = Empty
             PROVE  FALSE
  BY DEF GotHasTests
<1>1. Walking(p) /\ i \in got[p]
  BY GotStep
<1>2. shown'[i] # shown[i]
  BY <1>1 DEF GotHasTests
<1>3. ~Free(i)
  BY <1>1 DEF Free
<1>4. PICK q \in Calls : item[q] = i
  BY <1>2, <1>3, ShownStep
<1>5. q # p
  BY <1>1, <1>4 DEF WalkInv
<1> QED BY <1>1, <1>4, <1>5 DEF InNoWalk

\* A walk that has passed a file had passed it, or passes it in this step.
LEMMA PassStep ==
  ASSUME TreeTypeOK, TreeTypeOK', AtInv, [TreeNext]_testTreeVars, NEW f \in Files, NEW p \in Calls,
         Walking(p)', f \notin unseen'[p], \A i \in got'[p] : i[1] # f,
         item'[p] \in Items => item'[p][1] # f
  PROVE  \/ /\ Walking(p) /\ f \notin unseen[p]
            /\ \A i \in got[p] : i[1] # f
            /\ item[p] \in Items => item[p][1] # f
         \/ item[p] \in Items /\ item[p][1] = f /\ at[p] \in {"reading", "fetching"}
         \/ /\ at[p] = "files" /\ UNCHANGED diskVars
            /\ \E i \in Items : i[1] = f /\ Visible(i) /\ GoesTo(p, i) /\ shown[i] = Empty
<1> DEFINE Passed == /\ Walking(p) /\ f \notin unseen[p]
                     /\ \A i \in got[p] : i[1] # f
                     /\ item[p] \in Items => item[p][1] # f
           ToJudge == item[p] \in Items /\ item[p][1] = f /\ at[p] \in {"reading", "fetching"}
           SawEmpty == /\ at[p] = "files" /\ UNCHANGED diskVars
                       /\ \E i \in Items : i[1] = f /\ Visible(i) /\ GoesTo(p, i) /\ shown[i] = Empty
           Goal == Passed \/ ToJudge \/ SawEmpty
<1>1. ASSUME at'[p] = at[p], unseen'[p] = unseen[p], got'[p] = got[p], item'[p] = item[p] PROVE Goal
  BY <1>1 DEF Walking
<1>2. ASSUME NEW q \in Calls, NEW s, s \notin {"files", "reading", "fetching"}, at' = [at EXCEPT ![q] = s],
             \A r \in Calls : r # q => unseen'[r] = unseen[r] /\ got'[r] = got[r] /\ item'[r] = item[r]
      PROVE  Goal
  <2>1. q # p
    BY <1>2 DEF Walking, TreeTypeOK
  <2>2. at'[p] = at[p]
    BY <1>2, <2>1 DEF TreeTypeOK
  <2> HIDE DEF Goal
  <2> QED BY <1>1, <1>2, <2>1, <2>2
<1>3. ASSUME NEW q \in Calls, LoadSkips(q) \/ LoadWalked(q) PROVE Goal
  <2>1. PICK s : s = IF q \in Loads THEN "done" ELSE IF q \in Runs THEN "discover" ELSE "lookup"
    OBVIOUS
  <2>2. at' = [at EXCEPT ![q] = s] /\ s \notin {"files", "reading", "fetching"}
    BY <1>3, <2>1, LoadLeads DEF LoadSkips, LoadWalked, LoadEnds
  <2>3. \A r \in Calls : r # q => unseen'[r] = unseen[r] /\ got'[r] = got[r] /\ item'[r] = item[r]
    BY <1>3 DEF LoadSkips, LoadWalked, WalkEnds, TreeTypeOK
  <2> HIDE DEF Goal
  <2> QED BY <1>2, <2>2, <2>3
<1>4. ASSUME NEW q \in Calls, Call(q) \/ LoadBegins(q) \/ RunWalked(q) \/ Gather(q) \/ ReadItem(q)
                              \/ ItemFetched(q) \/ RunGoes(q) \/ DocLoads(q) \/ DocFetched(q) \/ DocAsks(q)
                              \/ Expand(q)
      PROVE  Goal
  <2>1. \E s \in {"idle", "queued", "target", "discover", "items", "itemReading", "itemFetching", "done", "docFetching"} :
           at' = [at EXCEPT ![q] = s]
    BY <1>4 DEF Call, LoadBegins, RunWalked, Gather, ReadItem, ItemFetched, RunGoes, DocLoads, DocFetched,
       DocAsks, Expand
  <2>2. \A r \in Calls : r # q => unseen'[r] = unseen[r] /\ got'[r] = got[r] /\ item'[r] = item[r]
    BY <1>4 DEF Call, LoadBegins, RunWalked, WalkEnds, Gather, ReadItem, ItemFetched, RunGoes, DocLoads,
       DocFetched, DocAsks, Expand, TreeTypeOK
  <2> HIDE DEF Goal
  <2> QED BY <1>2, <2>1, <2>2
<1>5. ASSUME NEW q \in Calls, VisitItem(q) PROVE Goal
  <2>1. /\ at[q] = "items" /\ (at' = at \/ at' = [at EXCEPT ![q] = "itemReading"]) /\ unseen' = unseen
        /\ \A r \in Calls : r # q => got'[r] = got[r] /\ item'[r] = item[r]
    BY <1>5 DEF VisitItem, TreeTypeOK
  <2>2. q # p /\ at'[p] = at[p]
    BY <2>1 DEF Walking, TreeTypeOK
  <2> HIDE DEF Goal
  <2> QED BY <1>1, <2>1, <2>2
<1>6. ASSUME NEW q \in Calls, WalkBegins(q) PROVE Goal
  <2>1. q # p
    BY <1>6 DEF WalkBegins, TreeTypeOK
  <2>2. at'[p] = at[p] /\ unseen'[p] = unseen[p] /\ got'[p] = got[p] /\ item'[p] = item[p]
    BY <1>6, <2>1 DEF WalkBegins, TreeTypeOK
  <2> HIDE DEF Goal
  <2> QED BY <1>1, <2>2
<1>7. ASSUME NEW q \in Calls, q # p, Visit(q) \/ VisitResolved(q) \/ Read(q) \/ Fetched(q) PROVE Goal
  <2>1. at'[p] = at[p] /\ unseen'[p] = unseen[p]
    BY ZenonT(30), <1>7 DEF Visit, VisitResolved, Read, Fetched, TreeTypeOK
  <2>2. got' = got \/ \E S : got' = [got EXCEPT ![q] = S]
    BY <1>7 DEF Visit, VisitResolved, Read, Fetched, Judge
  <2>3. item' = item \/ \E i : item' = [item EXCEPT ![q] = i]
    BY <1>7 DEF Visit, VisitResolved, Read, Fetched
  <2>4. got'[p] = got[p] /\ item'[p] = item[p]
    BY <1>7, <2>2, <2>3 DEF TreeTypeOK
  <2> HIDE DEF Goal
  <2> QED BY <1>1, <2>1, <2>4
<1>8. ASSUME Visit(p) PROVE Goal
  <2>1. PICK i \in Items : /\ item' = [item EXCEPT ![p] = i] /\ unseen' = [unseen EXCEPT ![p] = @ \ {i[1]}]
                           /\ at[p] = "files" /\ got' = got
    BY <1>8 DEF Visit, GetOrCreate
  <2>2. item'[p] = i /\ unseen'[p] = unseen[p] \ {i[1]} /\ Walking(p) /\ item[p] \notin Items
    BY <2>1 DEF Walking, AtInv, Holding, TreeTypeOK
  <2>3. i[1] # f
    BY <2>2
  <2>4. f \notin unseen[p]
    BY <2>2, <2>3
  <2> QED BY <2>1, <2>2, <2>4
<1>9. ASSUME VisitResolved(p) PROVE Goal
  <2>1. PICK g \in Files : /\ Found(g) /\ Judge(p, <<g, reused[g]>>, shown[<<g, reused[g]>>])
                           /\ GoesTo(p, <<g, reused[g]>>) /\ unseen' = [unseen EXCEPT ![p] = @ \ {g}]
    BY <1>9 DEF VisitResolved, TreeTypeOK
  <2>2. PICK i \in Items : i = <<g, reused[g]>> /\ i[1] = g
    BY <2>1, ItemParts DEF Found, TreeTypeOK
  <2>3. at[p] = "files" /\ UNCHANGED diskVars /\ item' = item
    BY <1>9 DEF VisitResolved
  <2>4. CASE g = f
    <3>1. shown[i] = Empty
      <4> SUFFICES ASSUME shown[i] # Empty PROVE FALSE
        OBVIOUS
      <4>1. i \in got'[p]
        BY <2>1, <2>2 DEF Judge, TreeTypeOK
      <4> QED BY <2>2, <2>4, <4>1
    <3>2. Visible(i) /\ GoesTo(p, i)
      BY <2>1, <2>2 DEF Found
    <3> QED BY <2>2, <2>3, <2>4, <3>1, <3>2
  <2>5. CASE g # f
    <3>1. Walking(p) /\ item[p] \notin Items
      BY <2>3 DEF Walking, AtInv, Holding
    <3>2. f \notin unseen[p]
      BY <2>1, <2>5 DEF TreeTypeOK
    <3>3. got[p] \subseteq got'[p]
      BY <2>1 DEF Judge, TreeTypeOK
    <3> QED BY <3>1, <3>2, <3>3
  <2> QED BY <2>4, <2>5
<1>10. ASSUME Read(p) \/ Fetched(p) PROVE Goal
  <2>1. at[p] \in {"reading", "fetching"} /\ unseen' = unseen
    BY <1>10 DEF Read, Fetched
  <2>2. item[p] \in Items /\ Walking(p)
    BY <2>1 DEF AtInv, Holding, Walking
  <2>3. got[p] \subseteq got'[p]
    BY <1>10 DEF Read, Fetched, Judge, TreeTypeOK
  <2> QED BY <2>1, <2>2, <2>3
<1>11. ASSUME NEW d \in Docs, NEW g \in Files, NEW v \in Versions, Edit(d, g, v) PROVE Goal
  <2>1. at' = [at EXCEPT ![d] = "lookup"] /\ UNCHANGED <<unseen, got, item>> /\ d \in Calls
    BY <1>11 DEF Edit, Calls
  <2> HIDE DEF Goal
  <2> QED BY <1>2, <2>1
<1>12. ASSUME UNCHANGED callVars PROVE Goal
  <2>1. UNCHANGED <<at, unseen, got, item>>
    BY <1>12 DEF callVars
  <2> HIDE DEF Goal
  <2> QED BY <1>1, <2>1
<1> HIDE DEF Goal
<1>13. ASSUME NEW g \in Files, Notice(g) \/ DocumentCloses(g) \/ \E v \in Versions : FileChanges(g, v)
       PROVE  Goal
  BY <1>12, <1>13 DEF Notice, DocumentCloses, FileChanges
<1>14. ASSUME ProjectChanges \/ UNCHANGED testTreeVars PROVE Goal
  BY <1>12, <1>14 DEF ProjectChanges, testTreeVars, treeVars
<1>15. ASSUME NEW q \in Calls, Visit(q) \/ VisitResolved(q) \/ Read(q) \/ Fetched(q) PROVE Goal
  BY <1>7, <1>8, <1>9, <1>10, <1>15
<1>16. ASSUME NEW q \in Calls, LoadWalks(q) \/ RunWalks(q) PROVE Goal
  BY <1>6, <1>16 DEF LoadWalks, RunWalks
<1>17. Goal
  BY <1>3, <1>4, <1>5, <1>11, <1>13, <1>14, <1>15, <1>16 DEF TreeNext, Terminated, Calls
<1> QED BY <1>17 DEF Goal

\* A step keeps that the files a walk has passed have no tests.
LEMMA PassedIsEmptyStep ==
  ASSUME TreeTypeOK, TreeTypeOK', AtInv, WalkInv, AskInv, [TreeNext]_testTreeVars,
         NEW f \in Files, f \notin Excused', OneHolder(f), AskIsCurrent(f), EmptyIsKnown(f), EmptyIsDisk(f),
         PassedIsEmpty(f)
  PROVE  PassedIsEmpty(f)'
<1> SUFFICES ASSUME NEW p \in Calls, Walking(p)', f \notin unseen'[p], \A i \in got'[p] : i[1] # f,
                    item'[p] \in Items => item'[p][1] # f
             PROVE  disk'[f] = Empty \/ DiskNews(f)'
  BY DEF PassedIsEmpty
<1>0. f \notin contested'
  BY DEF Excused
<1>1. CASE /\ Walking(p) /\ f \notin unseen[p]
           /\ \A i \in got[p] : i[1] # f
           /\ item[p] \in Items => item[p][1] # f
  <2>1. disk[f] = Empty \/ DiskNews(f)
    BY <1>1 DEF PassedIsEmpty
  <2>2. DiskNews(f) => DiskNews(f)'
    <3> SUFFICES ASSUME DiskNews(f), ~DiskNews(f)' PROVE FALSE
      OBVIOUS
    <3>1. PICK q \in Calls, i \in Items :
              /\ i[1] = f /\ item' = [item EXCEPT ![q] = i]
              /\ \/ at[q] = "files"
                 \/ f \in contested'
                 \/ ~OutOfWalks(i)
      BY NewsTaken
    <3>2. q # p
      BY <3>1 DEF TreeTypeOK
    <3>3. at[q] # "files"
      <4> SUFFICES ASSUME at[q] = "files" PROVE FALSE
        OBVIOUS
      <4>1. Walking(q)
        BY DEF Walking
      <4>2. contested = Files
        BY <1>1, <3>2, <4>1 DEF WalkInv
      <4> QED BY <1>0, <4>2, HistoryGrows
    <3> QED BY <1>0, <1>1, <3>1, <3>3 DEF OutOfWalks
  <2> QED BY <2>1, <2>2, ChangesAreNews
<1>2. CASE item[p] \in Items /\ item[p][1] = f /\ at[p] \in {"reading", "fetching"}
  <2>1. item'[p] # item[p]
    BY <1>2
  <2>2. /\ disk' = disk /\ UNCHANGED <<unnoticed, news>>
        /\ \/ ReadsSame(p) /\ at[p] = "reading" /\ Judge(p, item[p], shown[item[p]])
           \/ \E v \in Versions : ShowTests(p, v) /\ at[p] = "fetching" /\ Judge(p, item[p], v)
    BY <1>2, <2>1, ReleaseStep DEF diskVars
  <2>3. ASSUME NEW v, Judge(p, item[p], v) PROVE v = Empty
    <3> SUFFICES ASSUME v # Empty PROVE FALSE
      OBVIOUS
    <3>1. item[p] \in got'[p]
      BY <2>3 DEF Judge, TreeTypeOK
    <3> QED BY <1>2, <3>1
  <2>4. CASE ReadsSame(p) /\ at[p] = "reading" /\ Judge(p, item[p], shown[item[p]])
    <3>1. shown[item[p]] = Empty /\ disk[f] = known[item[p]]
      BY <1>2, <2>3, <2>4 DEF ReadsSame
    <3>2. \A q \in Calls : item[q] = item[p] => at[q] \notin Fetching
      BY <1>2, <2>4 DEF OneHolder, Fetching
    <3>3. known[item[p]] \in {Empty, NoVersion}
      BY <1>2, <2>4, <3>1, <3>2 DEF EmptyIsKnown
    <3>4. disk[f] # NoVersion
      BY TreeAssumption DEF TreeTypeOK
    <3> QED BY <2>2, <3>1, <3>3, <3>4
  <2>5. CASE \E v \in Versions : ShowTests(p, v) /\ at[p] = "fetching" /\ Judge(p, item[p], v)
    <3>1. PICK v \in Versions : ShowTests(p, v) /\ v = Empty
      BY <2>3, <2>5
    <3>2. Asked(p, <<f, v>>)
      BY <1>2, <3>1, ShowAsked
    <3>3. disk[f] = Empty \/ DiskNews(f)
      BY <2>5, <3>1, <3>2 DEF AskIsCurrent
    <3> QED BY <2>2, <3>3 DEF DiskNews
  <2> QED BY <2>2, <2>4, <2>5
<1>3. CASE /\ at[p] = "files" /\ UNCHANGED diskVars
           /\ \E i \in Items : i[1] = f /\ Visible(i) /\ GoesTo(p, i) /\ shown[i] = Empty
  <2>1. PICK i \in Items : i[1] = f /\ Visible(i) /\ GoesTo(p, i) /\ shown[i] = Empty
    BY <1>3
  <2>2. item[p] \notin Items
    BY <1>3 DEF AtInv, Holding
  <2>3. ~Held(i)
    BY <1>0, <2>1, <2>2 DEF GoesTo, Contest, Meets, Held
  <2>4. disk[f] = Empty \/ DiskNews(f)
    BY <2>1, <2>3 DEF EmptyIsDisk
  <2> QED BY <1>3, <2>4 DEF diskVars, DiskNews
<1> QED BY <1>1, <1>2, <1>3, PassStep

-----------------------------------------------------------------------------
(* What is in the tree *)

\* A tree that was not loaded is loaded by a call that first has it empty.
LEMMA LoadedStep ==
  ASSUME TreeTypeOK, AtInv, [TreeNext]_testTreeVars, loadingState = "nonInitialized"
  PROVE  loadingState' = "nonInitialized" \/ (target' = "none" /\ \E p \in Calls : at'[p] = "target")
<1>0. /\ target = "none" /\ \A p \in Calls : at[p] \in {"idle", "lookup", "queued"}
      /\ \A i \in Items : ~Visible(i)
  BY DEF AtInv
<1>1. ASSUME NEW p \in Calls, LoadBegins(p) PROVE target' = "none" /\ at'[p] = "target"
  BY <1>0, <1>1 DEF LoadBegins, TreeTypeOK
<1>2. ASSUME NEW p \in Calls,
             \/ LoadWalks(p) \/ LoadSkips(p) \/ LoadWalked(p) \/ VisitResolved(p) \/ Visit(p) \/ Read(p)
             \/ Fetched(p) \/ RunWalks(p) \/ RunWalked(p) \/ Gather(p) \/ VisitItem(p) \/ ReadItem(p)
             \/ ItemFetched(p) \/ RunGoes(p) \/ DocFetched(p)
      PROVE  FALSE
  <2>1. at[p] \in {"target", "files", "reading", "fetching", "discover", "items", "itemReading",
                   "itemFetching", "docFetching"}
    BY <1>2 DEF LoadWalks, LoadSkips, LoadWalked, WalkEnds, VisitResolved, Visit, Read, Fetched, RunWalks,
       RunWalked, Gather, VisitItem, ReadItem, ItemFetched, RunGoes, DocFetched
  <2>2. at[p] \in {"idle", "lookup", "queued"}
    BY <1>0
  <2> QED BY <2>1, <2>2
<1>3. ASSUME NEW p \in Calls, Call(p) \/ DocLoads(p) \/ DocAsks(p) PROVE loadingState' = loadingState
  BY <1>3 DEF Call, DocLoads, DocAsks, loadVars
<1>4. ASSUME NEW d \in Docs, NEW g \in Files, NEW v \in Versions, Edit(d, g, v)
      PROVE  loadingState' = loadingState
  BY <1>4 DEF Edit, loadVars
<1>5. ASSUME NEW g \in Files, Notice(g) \/ DocumentCloses(g) \/ \E v \in Versions : FileChanges(g, v)
       PROVE  loadingState' = loadingState
  BY <1>5 DEF Notice, DocumentCloses, FileChanges, loadVars
<1>6. ASSUME ProjectChanges \/ UNCHANGED testTreeVars PROVE loadingState' = loadingState
  BY <1>6 DEF ProjectChanges, testTreeVars, treeVars, loadVars
<1>7. ASSUME NEW p \in Calls, Expand(p) PROVE FALSE
  BY <1>0, <1>7 DEF Expand
<1> QED BY <1>1, <1>2, <1>3, <1>4, <1>5, <1>6, <1>7 DEF TreeNext, Terminated, Calls

\* A walk goes on until it ends.
LEMMA WalkGoesOn ==
  ASSUME TreeTypeOK, AtInv, [TreeNext]_testTreeVars, NEW p \in Calls, Walking(p), ~Walking(p)'
  PROVE  WalkEnds(p) /\ \A q \in Calls : q # p => at'[q] = at[q]
<1>0. at'[p] # at[p] /\ at[p] \in {"files", "reading", "fetching"}
  BY DEF Walking
<1>1. ASSUME NEW q \in Calls, Call(q) \/ LoadBegins(q) \/ LoadWalks(q) \/ LoadSkips(q) \/ RunWalks(q)
                              \/ Gather(q) \/ VisitItem(q) \/ ReadItem(q) \/ ItemFetched(q) \/ RunGoes(q)
                              \/ DocLoads(q) \/ DocAsks(q) \/ DocFetched(q) \/ Expand(q)
      PROVE  FALSE
  <2>1. at[q] \in {"idle", "queued", "target", "discover", "items", "itemReading", "itemFetching",
                   "lookup", "docFetching"}
    BY <1>1 DEF Call, LoadBegins, LoadWalks, LoadSkips, RunWalks, Gather, VisitItem, ReadItem, ItemFetched,
       RunGoes, DocLoads, DocAsks, DocFetched, Expand
  <2>2. \A r \in Calls : r # q => at'[r] = at[r]
    BY <1>1 DEF Call, LoadBegins, LoadWalks, LoadSkips, LoadEnds, RunWalks, WalkBegins, Gather, VisitItem,
       ReadItem, ItemFetched, RunGoes, DocLoads, DocAsks, DocFetched, Expand, TreeTypeOK
  <2> QED BY <1>0, <2>1, <2>2
<1>2. ASSUME NEW q \in Calls, VisitResolved(q) \/ Visit(q) \/ Read(q) \/ Fetched(q) PROVE FALSE
  <2>1. at' = at \/ \E s \in {"files", "reading", "fetching"} : at' = [at EXCEPT ![q] = s]
    BY <1>2 DEF VisitResolved, Visit, Read, Fetched
  <2>2. at'[p] \notin {"files", "reading", "fetching"}
    BY DEF Walking
  <2> QED BY <1>0, <2>1, <2>2 DEF TreeTypeOK
<1>3. ASSUME NEW q \in Calls, LoadWalked(q) \/ RunWalked(q)
      PROVE  q = p /\ WalkEnds(p) /\ \A r \in Calls : r # p => at'[r] = at[r]
  <2>1. WalkEnds(q) /\ \A r \in Calls : r # q => at'[r] = at[r]
    BY <1>3 DEF LoadWalked, RunWalked, LoadEnds, TreeTypeOK
  <2> QED BY <1>0, <2>1
<1>4. ASSUME NEW d \in Docs, NEW g \in Files, NEW v \in Versions, Edit(d, g, v) PROVE FALSE
  BY <1>0, <1>4 DEF Edit, TreeTypeOK
<1>5. ASSUME at' = at PROVE FALSE
  BY <1>0, <1>5
<1>6. ASSUME NEW g \in Files, Notice(g) \/ DocumentCloses(g) \/ \E v \in Versions : FileChanges(g, v)
       PROVE  FALSE
  BY <1>5, <1>6 DEF Notice, DocumentCloses, FileChanges, callVars
<1>7. ASSUME ProjectChanges \/ UNCHANGED testTreeVars PROVE FALSE
  BY <1>5, <1>7 DEF ProjectChanges, testTreeVars, treeVars, callVars
<1> QED BY <1>1, <1>2, <1>3, <1>4, <1>6, <1>7 DEF TreeNext, Terminated, Calls

\* A load that has the tree empty goes on to walk, or leaves that to another walk.
LEMMA EmptyTreeWalked ==
  ASSUME TreeTypeOK, AtInv, [TreeNext]_testTreeVars, NEW p \in Calls, at[p] = "target", target = "none"
  PROVE  (target' = "none" /\ at'[p] = "target") \/ \E q \in Calls : Walking(q)'
<1> DEFINE Goal == (target' = "none" /\ at'[p] = "target") \/ \E q \in Calls : Walking(q)'
<1>1. ASSUME target' = target, at'[p] = at[p] PROVE Goal
  BY <1>1
<1>2. ASSUME NEW q \in Calls, WalkBegins(q) PROVE Goal
  <2>1. Walking(q)'
    BY <1>2 DEF WalkBegins, Walking, TreeTypeOK
  <2> QED BY <2>1
<1>3. ASSUME NEW q \in Calls, LoadSkips(q) PROVE FALSE
  BY <1>3 DEF LoadSkips
<1>4. ASSUME NEW q \in Calls, LoadWalked(q) \/ RunWalked(q) PROVE Goal
  <2>1. WalkEnds(q) /\ at[q] = "files" /\ \A r \in Calls : r # q => at'[r] = at[r]
    BY <1>4 DEF LoadWalked, RunWalked, WalkEnds, LoadEnds, TreeTypeOK
  <2>2. ~current[q]
    BY DEF AtInv
  <2> QED BY <2>1, <2>2 DEF WalkEnds
<1>5. ASSUME NEW q \in Calls, LoadBegins(q) PROVE Goal
  <2>1. target' = "none" /\ at'[q] = "target" /\ \A r \in Calls : r # q => at'[r] = at[r]
    BY <1>5 DEF LoadBegins, TreeTypeOK
  <2> QED BY <2>1
<1>6. ASSUME NEW q \in Calls, Call(q) \/ Gather(q) \/ VisitItem(q) \/ ReadItem(q) \/ ItemFetched(q)
                              \/ RunGoes(q) \/ DocLoads(q) \/ DocAsks(q) \/ DocFetched(q)
                              \/ VisitResolved(q) \/ Visit(q) \/ Read(q) \/ Fetched(q) \/ Expand(q)
      PROVE  Goal
  <2>1. target' = target /\ at[q] # "target"
    BY <1>6 DEF Call, Gather, VisitItem, ReadItem, ItemFetched, RunGoes, DocLoads, DocAsks, DocFetched,
       VisitResolved, Visit, Read, Fetched, Expand
  <2>2. \A r \in Calls : r # q => at'[r] = at[r]
    BY <1>6 DEF Call, Gather, VisitItem, ReadItem, ItemFetched, RunGoes, DocLoads, DocAsks, DocFetched,
       VisitResolved, Visit, Read, Fetched, Expand, TreeTypeOK
  <2> HIDE DEF Goal
  <2> QED BY <1>1, <2>1, <2>2
<1>7. ASSUME NEW d \in Docs, NEW g \in Files, NEW v \in Versions, Edit(d, g, v) PROVE Goal
  BY <1>1, <1>7 DEF Edit, TreeTypeOK
<1>8. ASSUME UNCHANGED <<at, target>> PROVE Goal
  BY <1>1, <1>8
<1>9. ASSUME NEW g \in Files, Notice(g) \/ DocumentCloses(g) \/ \E v \in Versions : FileChanges(g, v)
       PROVE  Goal
  BY <1>8, <1>9 DEF Notice, DocumentCloses, FileChanges, callVars
<1>10. ASSUME ProjectChanges \/ UNCHANGED testTreeVars PROVE Goal
  BY <1>8, <1>10 DEF ProjectChanges, testTreeVars, treeVars, callVars
<1> HIDE DEF Goal
<1>11. Goal
  BY <1>2, <1>3, <1>4, <1>5, <1>6, <1>7, <1>9, <1>10
     DEF TreeNext, Terminated, LoadWalks, RunWalks, Calls
<1> QED BY <1>11 DEF Goal

\* An item leaves the tree with a refresh, in a walk, at its end or for a document.
LEMMA HidesStep ==
  ASSUME TreeTypeOK, AtInv, [TreeNext]_testTreeVars, NEW i \in Items, Visible(i), ~Visible(i)'
  PROVE  \/ \E p \in Calls : Walking(p)
         \/ target' = "none" /\ \E p \in Calls : at'[p] = "target"
         \/ \E d \in Docs, v \in Versions :
               /\ ShowTests(d, v) /\ at[d] = "docFetching" /\ item[d][1] = i[1]
               /\ v = Empty \/ \E j \in Items : j[1] = i[1] /\ Visible(j)'
<1> DEFINE Goal == \/ \E p \in Calls : Walking(p)
                   \/ target' = "none" /\ \E p \in Calls : at'[p] = "target"
                   \/ \E d \in Docs, v \in Versions :
                         /\ ShowTests(d, v) /\ at[d] = "docFetching" /\ item[d][1] = i[1]
                         /\ v = Empty \/ \E j \in Items : j[1] = i[1] /\ Visible(j)'
<1>0. place[i] # "out" /\ place'[i] = "out"
  BY DEF Visible
<1>1. ASSUME NEW p \in Calls, Call(p) \/ LoadSkips(p) \/ WalkBegins(p) \/ Gather(p) \/ VisitItem(p)
                              \/ RunGoes(p) \/ DocLoads(p) \/ ReadItem(p) \/ ItemFetched(p) \/ Expand(p)
      PROVE  FALSE
  BY <1>0, <1>1 DEF Call, LoadSkips, WalkBegins, Gather, VisitItem, RunGoes, DocLoads, ReadItem,
     ItemFetched, Expand, placeVars
<1>2. ASSUME NEW p \in Calls, WalkEnds(p) \/ VisitResolved(p) \/ Visit(p) \/ Read(p) \/ Fetched(p) PROVE Goal
  <2>1. Walking(p)
    BY <1>2 DEF WalkEnds, VisitResolved, Visit, Read, Fetched, Walking
  <2> QED BY <2>1
<1>3. ASSUME NEW p \in Calls, LoadBegins(p) PROVE Goal
  <2>1. target' = "none" /\ at'[p] = "target"
    BY <1>0, <1>3 DEF LoadBegins, TreeTypeOK
  <2> QED BY <2>1
<1>4. ASSUME NEW p \in Calls, NEW j \in Items, NEW g, GetOrCreate(g, j) PROVE FALSE
  BY <1>0, <1>4 DEF GetOrCreate, placeVars, TreeTypeOK
<1>5. ASSUME NEW d \in Docs, DocAsks(d) PROVE FALSE
  BY <1>4, <1>5 DEF DocAsks, Calls
<1>6. ASSUME NEW d \in Docs, DocFetched(d) PROVE Goal
  <2>1. item[d] \in Items /\ item[d][1] \in Files /\ at[d] = "docFetching"
    BY <1>6, ItemParts DEF DocFetched, AtInv, Holding, Calls
  <2>2. PICK v \in Versions :
           /\ ShowTests(d, v)
           /\ \/ v = Empty /\ Delete(item[d][1])
              \/ UNCHANGED placeVars
              \/ place' = [j \in Items |->
                              IF j = item[d] THEN "target"
                              ELSE IF j # item[d] /\ j[1] = item[d][1] /\ place[j] = "target" THEN "out"
                              ELSE place[j]]
    BY <1>6 DEF DocFetched
  <2>3. CASE v = Empty /\ Delete(item[d][1])
    <3>1. i = <<item[d][1], reused[item[d][1]]>>
      BY <1>0, <2>3 DEF Delete, TreeTypeOK
    <3>2. item[d][1] = i[1]
      BY <3>1
    <3> QED BY <2>1, <2>2, <2>3, <3>2
  <2>4. CASE UNCHANGED placeVars
    BY <1>0, <2>4 DEF placeVars
  <2>5. CASE place' = [j \in Items |->
                          IF j = item[d] THEN "target"
                          ELSE IF j # item[d] /\ j[1] = item[d][1] /\ place[j] = "target" THEN "out"
                          ELSE place[j]]
    <3>1. PICK j \in Items : j = item[d] /\ j[1] = i[1]
      BY <1>0, <2>1, <2>5
    <3>2. place'[j] = "target"
      BY <2>5, <3>1
    <3>3. Visible(j)'
      BY <3>2 DEF Visible
    <3> QED BY <2>1, <2>2, <3>1, <3>3
  <2> QED BY <2>2, <2>3, <2>4, <2>5
<1>7. ASSUME NEW d \in Docs, NEW g \in Files, NEW v \in Versions, Edit(d, g, v) PROVE FALSE
  BY <1>0, <1>7 DEF Edit, placeVars
<1>8. ASSUME NEW g \in Files, Notice(g) \/ DocumentCloses(g) \/ \E v \in Versions : FileChanges(g, v)
       PROVE  FALSE
  BY <1>0, <1>8 DEF Notice, DocumentCloses, FileChanges, placeVars
<1>9. ASSUME ProjectChanges \/ UNCHANGED testTreeVars PROVE FALSE
  BY <1>0, <1>9 DEF ProjectChanges, testTreeVars, treeVars, placeVars
<1> HIDE DEF Goal
<1>10. Goal
  BY <1>1, <1>2, <1>3, <1>5, <1>6, <1>7, <1>8, <1>9
     DEF TreeNext, Terminated, LoadWalks, RunWalks, LoadWalked, RunWalked, Calls
<1> QED BY <1>10 DEF Goal

\* A walk that ends has put a file with tests into the tree, or leaves that to a load.
LEMMA WalkEndsThere ==
  ASSUME TreeTypeOK, AtInv, WalkInv, NEW p \in Calls, WalkEnds(p), \A q \in Calls : q # p => at'[q] = at[q],
         NEW f \in Files, f \notin contested, PassedIsEmpty(f)
  PROVE  IsThere(f)'
<1>1. at[p] = "files" /\ unseen[p] = {} /\ UNCHANGED diskVars
  BY DEF WalkEnds
<1>2. Walking(p) /\ item[p] \notin Items
  BY <1>1 DEF Walking, AtInv, Holding
<1>3. CASE \E i \in got[p] : i[1] = f /\ current[p]
  <2>1. PICK i \in Items : i \in got[p] /\ i[1] = f
    BY <1>3 DEF TreeTypeOK
  <2>2. place'[i] = "target"
    BY <1>3, <2>1 DEF WalkEnds, ReplaceChildren
  <2>3. Visible(i)'
    BY <2>2 DEF Visible
  <2> QED BY <2>1, <2>3 DEF IsThere
<1>4. CASE \A i \in got[p] : i[1] # f
  <2>1. disk[f] = Empty \/ DiskNews(f)
    BY <1>1, <1>2, <1>4 DEF PassedIsEmpty
  <2>2. disk'[f] = Empty \/ DiskNews(f)'
    BY <1>1, <2>1 DEF diskVars, DiskNews
  <2> QED BY <2>2 DEF IsThere, TextOf
<1>5. CASE ~current[p]
  <2>1. contested # Files
    OBVIOUS
  <2>2. PICK l \in Calls : at[l] = "target" /\ target = "none"
    BY <1>2, <1>5, <2>1 DEF WalkInv
  <2>3. at'[l] = "target" /\ target' = "none"
    BY <1>1, <1>5, <2>2 DEF WalkEnds
  <2> QED BY <2>2, <2>3 DEF IsThere
<1> QED BY <1>3, <1>4, <1>5

\* A step keeps a file with tests in the tree, or on its way there.
LEMMA IsThereStep ==
  ASSUME TreeTypeOK, TreeTypeOK', AtInv, WalkInv, AskInv, [TreeNext]_testTreeVars,
         NEW f \in Files, f \notin Excused', AskIsCurrent(f), PassedIsEmpty(f), IsThere(f)
  PROVE  IsThere(f)'
<1> DEFINE Goal == IsThere(f)'
<1>0. f \notin contested /\ f \notin contested'
  BY HistoryGrows DEF Excused
<1>1. ASSUME NEW i \in Items, i[1] = f, Visible(i)' PROVE Goal
  BY <1>1 DEF IsThere
<1>2. ASSUME NEW p \in Calls, Walking(p)' PROVE Goal
  BY <1>2 DEF IsThere
<1>3. ASSUME target' = "none", NEW p \in Calls, at'[p] = "target" PROVE Goal
  BY <1>3 DEF IsThere
<1>4. ASSUME Empty \in TextOf(f)' \/ DiskNews(f)' \/ DocComes(f)' PROVE Goal
  BY <1>4 DEF IsThere
<1>5. ASSUME loadingState' = "nonInitialized" PROVE Goal
  BY <1>5 DEF IsThere
<1>6. ASSUME NEW p \in Calls, Walking(p) PROVE Goal
  <2>1. CASE ~Walking(p)'
    <3>1. WalkEnds(p) /\ \A q \in Calls : q # p => at'[q] = at[q]
      BY <1>6, <2>1, WalkGoesOn
    <3> QED BY <1>0, <3>1, WalkEndsThere
  <2> HIDE DEF Goal
  <2> QED BY <1>2, <2>1
<1> HIDE DEF Goal
<1>7. ASSUME DiskNews(f) PROVE Goal
  <2>1. CASE ~DiskNews(f)'
    <3>1. PICK p \in Calls, i \in Items :
             /\ i[1] = f
             /\ \/ at[p] = "files" /\ at' = [at EXCEPT ![p] = "reading"]
                \/ at[p] = "items" /\ Visible(i) /\ place' = place
      BY <1>0, <1>7, <2>1, NewsTaken
    <3>2. CASE at[p] = "files"
      <4>1. Walking(p)
        BY <3>2 DEF Walking
      <4> QED BY <1>6, <4>1
    <3>3. CASE Visible(i) /\ place' = place
      <4>1. Visible(i)'
        BY <3>3 DEF Visible
      <4> QED BY <1>1, <3>1, <4>1
    <3> QED BY <3>1, <3>2, <3>3
  <2> QED BY <1>4, <2>1
<1>8. ASSUME DocComes(f) PROVE Goal
  <2>1. CASE ~DocComes(f)'
    <3>1. PICK i \in Items : i[1] = f /\ Visible(i)'
      BY <1>8, <2>1, DocTaken
    <3> QED BY <1>1, <3>1
  <2> QED BY <1>4, <2>1
<1>9. ASSUME Empty \in TextOf(f) PROVE Goal
  <2>1. Empty \in TextOf(f)' \/ DiskNews(f)' \/ DocComes(f)'
    BY <1>9, ChangesAreNews
  <2> QED BY <1>4, <2>1
<1>10. ASSUME NEW i \in Items, i[1] = f, Visible(i) PROVE Goal
  <2>1. CASE Visible(i)'
    BY <1>1, <1>10, <2>1
  <2>2. ASSUME NEW d \in Docs, NEW v \in Versions, ShowTests(d, v), at[d] = "docFetching",
               item[d][1] = f, v = Empty
        PROVE  Goal
    <3>1. d \in Calls
      BY DEF Calls
    <3>2. Asked(d, <<f, v>>)
      BY <2>2, <3>1, ShowAsked
    <3>3. Empty \in TextOf(f) \/ DiskNews(f) \/ DocComes(f)
      BY <2>2, <3>1, <3>2 DEF AskIsCurrent, DocText, TextOf
    <3> QED BY <1>7, <1>8, <1>9, <3>3
  <2>3. CASE ~Visible(i)'
    <3>1. \/ \E p \in Calls : Walking(p)
          \/ target' = "none" /\ \E p \in Calls : at'[p] = "target"
          \/ \E d \in Docs, v \in Versions :
                /\ ShowTests(d, v) /\ at[d] = "docFetching" /\ item[d][1] = f
                /\ v = Empty \/ \E j \in Items : j[1] = f /\ Visible(j)'
      BY <1>10, <2>3, HidesStep
    <3> QED BY <1>1, <1>3, <1>6, <2>2, <3>1
  <2> QED BY <2>1, <2>3
<1>11. ASSUME loadingState = "nonInitialized" PROVE Goal
  BY <1>3, <1>5, <1>11, LoadedStep
<1>12. ASSUME target = "none", NEW p \in Calls, at[p] = "target" PROVE Goal
  BY <1>2, <1>3, <1>12, EmptyTreeWalked
<1>13. Goal
  BY <1>6, <1>7, <1>8, <1>9, <1>10, <1>11, <1>12 DEF IsThere
<1> QED BY <1>13 DEF Goal

\* A step keeps what holds of the files that are not excused.
LEMMA NewsStep ==
  ASSUME TreeTypeOK, TreeTypeOK', AtInv, WalkInv, HoldInv, HoldInv', AskInv, AskInv', NewsInv,
         [TreeNext]_testTreeVars
  PROVE  NewsInv'
<1> SUFFICES ASSUME NEW f \in Files, f \notin Excused'
             PROVE  (/\ ShownIsCurrent(f) /\ AskIsCurrent(f) /\ KnownIsAsked(f) /\ EmptyIsKnown(f)
                     /\ EmptyIsDisk(f) /\ GotHasTests(f) /\ PassedIsEmpty(f) /\ IsThere(f))'
  BY DEF NewsInv
<1>1. f \notin Excused
  BY HistoryGrows
<1>2. /\ ShownIsCurrent(f) /\ AskIsCurrent(f) /\ KnownIsAsked(f) /\ EmptyIsKnown(f)
      /\ EmptyIsDisk(f) /\ GotHasTests(f) /\ PassedIsEmpty(f) /\ IsThere(f)
  BY <1>1 DEF NewsInv
<1>3. OneHolder(f) /\ HeldIsReused(f) /\ InNoWalk(f)
  BY <1>1 DEF HoldInv, Excused
<1>4. OneItem(f)' /\ OneHolder(f)'
  BY DEF HoldInv, Excused
<1>5. ShownIsCurrent(f)'
  BY <1>2, <1>4, ShownIsCurrentStep
<1>6. AskIsCurrent(f)'
  BY <1>2, <1>4, AskIsCurrentStep
<1>7. KnownIsAsked(f)'
  BY <1>2, <1>3, KnownIsAskedStep
<1>8. EmptyIsKnown(f)'
  BY <1>2, <1>3, EmptyIsKnownStep
<1>9. EmptyIsDisk(f)'
  BY <1>2, <1>3, <1>4, EmptyIsDiskStep
<1>10. GotHasTests(f)'
  BY <1>2, <1>3, GotHasTestsStep
<1>11. PassedIsEmpty(f)'
  BY <1>2, <1>3, PassedIsEmptyStep
<1>12. IsThere(f)'
  BY <1>2, IsThereStep
<1> QED BY <1>5, <1>6, <1>7, <1>8, <1>9, <1>10, <1>11, <1>12

-----------------------------------------------------------------------------
(* Theorems of the tree *)

\* Before the first call the tree is empty and every file is news.
LEMMA TreeInvInit == TreeInit => TreeInv
<1> SUFFICES ASSUME TreeInit PROVE TreeInv
  OBVIOUS
<1> USE DEF TreeInit
<1>1. TreeTypeOK
  BY TreeAssumption DEF TreeTypeOK, Steps
<1>2. AtInv
  BY ItemParts DEF AtInv, Holding, Walking, Visible, Calls
<1>3. WalkInv
  BY DEF WalkInv, Walking
<1>4. \A i \in Items : Free(i)
  BY ItemParts DEF Free, Visible
<1>5. HoldInv
  BY <1>4, ItemParts DEF HoldInv, OneItem, OneHolder, InNoWalk, SeenIsReused, HeldIsReused, GotIsReused, Visible
<1>6. AskInv
  BY DEF AskInv, Asked
<1>7. NewsInv
  <2> SUFFICES ASSUME NEW f \in Files
               PROVE  /\ ShownIsCurrent(f) /\ AskIsCurrent(f) /\ KnownIsAsked(f) /\ EmptyIsKnown(f)
                      /\ EmptyIsDisk(f) /\ GotHasTests(f) /\ PassedIsEmpty(f) /\ IsThere(f)
    BY DEF NewsInv
  <2>1. DiskNews(f)
    BY DEF DiskNews
  <2>2. AskIsCurrent(f) /\ KnownIsAsked(f) /\ EmptyIsKnown(f) /\ GotHasTests(f)
    BY DEF AskIsCurrent, KnownIsAsked, Asked, EmptyIsKnown, GotHasTests, Walking
  <2> QED BY <2>1, <2>2 DEF ShownIsCurrent, EmptyIsDisk, PassedIsEmpty, IsThere
<1> QED BY <1>1, <1>2, <1>3, <1>5, <1>6, <1>7 DEF TreeInv

\* Every step keeps it.
LEMMA TreeInvStep == TreeInv /\ [TreeNext]_testTreeVars => TreeInv'
<1> SUFFICES ASSUME TreeInv, [TreeNext]_testTreeVars PROVE TreeInv'
  OBVIOUS
<1>0. TreeTypeOK /\ AtInv /\ WalkInv /\ HoldInv /\ AskInv /\ NewsInv
  BY DEF TreeInv
<1>1. TreeTypeOK'
  BY <1>0, TreeTypeStep
<1>2. AtInv'
  BY <1>0, AtStep
<1>3. WalkInv'
  BY <1>0, <1>1, WalkStep
<1>4. HoldInv'
  BY <1>0, <1>1, HoldStep
<1>5. AskInv'
  BY <1>0, AskStep
<1>6. NewsInv'
  BY <1>0, <1>1, <1>4, <1>5, NewsStep
<1> QED BY <1>1, <1>2, <1>3, <1>4, <1>5, <1>6 DEF TreeInv

\* In a tree at rest nothing is on its way: no call is at an item, none walks, none loads.
LEMMA AtRest ==
  ASSUME TreeInv, NEW f \in Files, Settled(f)
  PROVE  /\ \A i \in Items : ~Held(i)
         /\ \A p \in Calls : ~Walking(p) /\ at[p] # "target"
         /\ ~DiskNews(f) /\ ~DocComes(f) /\ loadingState # "nonInitialized"
<1>1. \A p \in Calls : at[p] \in {"idle", "done"}
  BY DEF Settled, Quiet
<1>2. \A i \in Items : ~Held(i)
  BY <1>1 DEF TreeInv, AtInv, Holding, Held
<1>3. \A p \in Calls : ~Walking(p) /\ at[p] # "target"
  BY <1>1 DEF Walking
<1>4. ~DocComes(f)
  BY <1>1 DEF DocComes, Calls
<1> QED BY <1>2, <1>3, <1>4 DEF Settled, DiskNews

\* What the types say of the tree holds in every state (TestTreeContext, TestFile).
THEOREM TreeTypesCorrect == TreeSpec => []TreeTypeOK
<1>1. TreeInv => TreeTypeOK
  BY DEF TreeInv
<1> QED BY <1>1, TreeInvInit, TreeInvStep, PTL DEF TreeSpec

\* The tests the tree shows of a file are those of its text on disk or in the editor once
\* every call has returned (TestFile.updateFromDisk, updateFromContents), but for the
\* files the property names.
THEOREM TreeShowsCurrent == TreeSpec => []TreeIsCurrent
<1>1. TreeInv => TreeIsCurrent
  <2> SUFFICES ASSUME TreeInv, NEW i \in Items, Settled(i[1]), Visible(i), i[1] \notin Excused
               PROVE  shown[i] \in TextOf(i[1])
    BY DEF TreeIsCurrent
  <2>1. i[1] \in Files
    BY ItemParts
  <2>2. ~Held(i) /\ ~DiskNews(i[1]) /\ ~DocComes(i[1])
    BY <2>1, AtRest
  <2>3. ShownIsCurrent(i[1])
    BY <2>1 DEF TreeInv, NewsInv
  <2>4. ~Free(i)
    BY DEF Free
  <2> QED BY <2>2, <2>3, <2>4 DEF ShownIsCurrent
<1> QED BY <1>1, TreeInvInit, TreeInvStep, PTL DEF TreeSpec

\* A file with tests is in the tree once every call has returned
\* (TestProvider.findInitialFiles, updateNodeForDocument), but for the files the property
\* names.
THEOREM TreeHasAll == TreeSpec => []TreeIsComplete
<1>1. TreeInv => TreeIsComplete
  <2> SUFFICES ASSUME TreeInv, NEW f \in Files, Settled(f), Empty \notin TextOf(f), f \notin Excused
               PROVE  \E i \in Items : i[1] = f /\ Visible(i)
    BY DEF TreeIsComplete
  <2>1. IsThere(f)
    BY DEF TreeInv, NewsInv
  <2> QED BY <2>1, AtRest DEF IsThere
<1> QED BY <1>1, TreeInvInit, TreeInvStep, PTL DEF TreeSpec

=============================================================================
