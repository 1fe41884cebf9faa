------------------------------ MODULE TestTree ------------------------------
(***************************************************************************)
(* The tree of tests (src/src/TestsProvider: TestTreeContext, TestProvider *)
(* and the items), filled with what fetchTests promises (FetchTests, which *)
(* LanguageClient implements).                                             *)
(*                                                                         *)
(* Four kinds of calls fill one tree: loads (findInitialFiles), under a    *)
(* mutex; runs (startTestRun), which load and then go through the tree once *)
(* more without the mutex; an item that the user expands (resolveHandler); *)
(* and changes of a document (updateNodeForDocument).  They await the tests *)
(* of one file after the other; loads and runs put the files they found    *)
(* under the target at their end.                                          *)
(*                                                                         *)
(* There is one project with one target: the two levels are one here.  An  *)
(* item of VS Code is in one place at a time.  A file is read when its text *)
(* is compared with the one that was read before.                          *)
(***************************************************************************)
EXTENDS Naturals, Sequences

CONSTANTS
    Loads,      \* calls of findInitialFiles
    Refreshes,  \* those of the refresh button: forceUpdate
    Runs,       \* test runs, and expansions of an item
    Docs,       \* events of text documents under way at a time
    Files,      \* the files of the target
    Versions,   \* what a file may hold
    Empty,      \* the version without tests
    MaxItems,   \* bound: items of a file in use at a time
    MaxChanges  \* bound: changes of documents, files and the project

Calls == Loads \cup Runs \cup Docs
Items == Files \X (1..MaxItems)
NoItem == <<>>
NoVersion == "unknown"
NoFile == "none"

ASSUME TreeAssumption ==
    /\ MaxItems \in Nat /\ MaxChanges \in Nat
    /\ Refreshes \subseteq Loads
    /\ Loads \cap Runs = {} /\ Loads \cap Docs = {} /\ Runs \cap Docs = {}
    /\ Empty \in Versions /\ NoVersion \notin Versions

VARIABLES
    asks,          \* the calls of fetchTests: who and of which text
    disk,          \* the version of a file
    open,          \* the files whose document is open in the editor
    text,          \* the text of a document, which outlives it, or NoVersion
    unnoticed,     \* files the watcher has not told of yet
    news,          \* files changed since a TestFile last asked
    projectNews,   \* the same of the project's file
    changes,       \* changes so far
    loadingState,  \* this.loadingState
    loadQueue,     \* initialFilesLoadingMutex: its holder and who waits
    target,        \* the target in the tree: "none", "new" or resolved, "done"
    place,         \* where in the tree an item is
    reused,        \* reusedTestItems: an item of a file, as a number; 0: none
    shown,         \* the version whose tests are the item's children
    known,         \* TestFile.fileContent
    asked,         \* TestFile._lastUrl and _didResolve
    at,            \* where a call is
    current,       \* the target it fills is the one in the tree
    unseen,        \* the files it has still to see, in any order
    item,          \* the item it is at
    got,           \* the items it has found, or has still to go through
    doc,           \* the file of a document event
    contested,     \* history: files two calls had at a time, or two walks went
                   \* to at a time, or that had two items, or whose news a run
                   \* took for an item that was out of the tree, or of the walk
    discarded,     \* history: files whose document was closed, or asked for when
                   \* it was closed, with a text that is not the file's
    skipped        \* history: files that were read, not asked for because the
                   \* text was the one read before, and show a document's tests

diskVars == <<disk, open, text, unnoticed, news, projectNews, changes>>
loadVars == <<loadingState, loadQueue>>
placeVars == <<place, reused>>
itemVars == <<shown, known, asked>>
callVars == <<at, current, unseen, item, got>>
historyVars == <<contested, discarded, skipped>>
treeVars == <<diskVars, loadVars, target, placeVars, itemVars, callVars, doc, historyVars>>
testTreeVars == <<treeVars, asks>>

Steps == {"idle", "lookup", "queued", "target", "files", "reading", "fetching",
          "discover", "items", "itemReading", "itemFetching", "docFetching", "done"}

TreeTypeOK ==
    /\ asks \in Seq(Calls \X (Files \X Versions))
    /\ disk \in [Files -> Versions]
    /\ open \subseteq Files /\ text \in [Files -> Versions \cup {NoVersion}]
    /\ unnoticed \subseteq Files /\ news \subseteq Files
    /\ projectNews \in BOOLEAN /\ changes \in 0..MaxChanges
    /\ loadingState \in {"nonInitialized", "loading", "loaded"}
    /\ loadQueue \in Seq(Calls)
    /\ target \in {"none", "new", "done"}
    /\ place \in [Items -> {"out", "root", "target"}]
    /\ reused \in [Files -> 0..MaxItems]
    /\ shown \in [Items -> Versions]
    /\ known \in [Items -> Versions \cup {NoVersion}]
    /\ asked \in [Items -> {"no", "asked", "done"}]
    /\ at \in [Calls -> Steps]
    /\ current \in [Calls -> BOOLEAN]
    /\ unseen \in [Calls -> SUBSET Files]
    /\ item \in [Calls -> Items \cup {NoItem}]
    /\ got \in [Calls -> SUBSET Items]
    /\ doc \in [Docs -> Files \cup {NoFile}]
    /\ contested \subseteq Files /\ discarded \subseteq Files /\ skipped \subseteq Files

TreeInit ==
    /\ asks = <<>>
    /\ disk \in [Files -> Versions \ {Empty}] /\ open \in SUBSET Files
    /\ text = [f \in Files |-> IF f \in open THEN disk[f] ELSE NoVersion]
    /\ unnoticed = {} /\ news = Files /\ projectNews = TRUE /\ changes = 0
    /\ loadingState = "nonInitialized" /\ loadQueue = <<>>
    /\ target = "none"
    /\ place = [i \in Items |-> "out"] /\ reused = [f \in Files |-> 0]
    /\ shown = [i \in Items |-> Empty] /\ known = [i \in Items |-> NoVersion]
    /\ asked = [i \in Items |-> "no"]
    /\ at = [p \in Calls |-> "idle"] /\ current = [p \in Calls |-> FALSE]
    /\ unseen = [p \in Calls |-> {}] /\ got = [p \in Calls |-> {}]
    /\ item = [p \in Calls |-> NoItem]
    /\ doc = [d \in Docs |-> NoFile]
    /\ contested = {} /\ discarded = {} /\ skipped = {}

\* A call goes on in the step in which its fetch returns.
Fetches ==
    INSTANCE FetchTests WITH
        Fetchers <- Calls, Texts <- Files \X Versions, NoText <- NoVersion, answer <- asks

-----------------------------------------------------------------------------
(* TestTreeContext *)

Visible(i) == place[i] # "out"

\* get(): the item of the file, if it can be reached from a root.
Found(f) == reused[f] # 0 /\ Visible(<<f, reused[f]>>)

\* An item nobody has any more; the next one to be made.
Free(i) == ~Visible(i) /\ \A p \in Calls : i # item[p] /\ i \notin got[p]
Fresh(i) == Free(i) /\ \A n \in 1..(i[2] - 1) : ~Free(<<i[1], n>>)

Walking(q) == at[q] \in {"files", "reading", "fetching"}

\* Another call is at the item i or takes it to the end of a walk, or there is
\* another item of the file.
Meets(p, i) ==
    \/ \E q \in Calls \ {p} : item[q] = i \/ (i \in got[q] /\ Walking(q))
    \/ \E j \in Items \ {i} : j[1] = i[1] /\ ~Free(j)

\* History: p goes to the item i.
Contest(i) == contested' = contested \cup {i[1]}
GoesTo(p, i) == IF Meets(p, i) THEN Contest(i) ELSE UNCHANGED contested

\* getOrCreateTest: a new item begins at the root.
GetOrCreate(f, i) ==
    /\ i[1] = f
    /\ IF Found(f)
       THEN i[2] = reused[f] /\ UNCHANGED <<placeVars, shown, known>>
       ELSE /\ Fresh(i)
            /\ reused' = [reused EXCEPT ![f] = i[2]]
            /\ place' = [place EXCEPT ![i] = "root"]
            /\ shown' = [shown EXCEPT ![i] = Empty]
            /\ known' = [known EXCEPT ![i] = NoVersion]

\* What its TestFile knows of having been asked, a new one or not.
AskedOf(i) == IF Found(i[1]) THEN asked[i] ELSE "no"

\* deleteItem by its id: whichever item of the file the tree has.
Delete(f) ==
    IF Found(f)
    THEN place' = [place EXCEPT ![<<f, reused[f]>>] = "out"] /\ UNCHANGED reused
    ELSE reused' = [reused EXCEPT ![f] = 0] /\ UNCHANGED place

\* Mutant: the old children are removed last, those that stay with them.
ReplaceThenClear(inTree, S) ==
    place' = [i \in Items |-> IF inTree /\ place[i] = "target" THEN "out"
                              ELSE IF i \in S THEN IF inTree THEN "target" ELSE "out"
                              ELSE place[i]]

\* The children of a target are replaced by the items of S; an item that was
\* elsewhere moves.  A target that has left the tree takes them along.
ReplaceChildren(inTree, S) ==
    place' = [i \in Items |-> IF i \in S THEN IF inTree THEN "target" ELSE "out"
                              ELSE IF inTree /\ place[i] = "target" THEN "out"
                              ELSE place[i]]

\* A file has been looked at: it is kept if it has tests.
Judge(p, i, version) ==
    IF version # Empty
    THEN got' = [got EXCEPT ![p] = @ \cup {i}] /\ UNCHANGED placeVars
    ELSE Delete(i[1]) /\ UNCHANGED got

-----------------------------------------------------------------------------
(* TestFile *)

\* Mutant: a file whose tests are known is not looked at again.
IsResolvedForGood(i) == asked[i] = "done"

\* didResolve: the watcher is only asked once the tests were asked for.
IsResolved(i) == asked[i] = "done" /\ i[1] \notin news

\* updateFromContents, and its end: the tests become the children of the item.
AskTests(p, i, version) == Fetches!Ask(p, <<i[1], version>>)
ShowTests(p, version) ==
    /\ Fetches!Return(p, <<item[p][1], version>>)
    /\ shown' = [shown EXCEPT ![item[p]] = version]
    /\ asked' = [asked EXCEPT ![item[p]] = "done"]
    /\ UNCHANGED known

\* Somebody asks for its tests: from now on the watcher is asked (_lastUrl).
Asking(state) == IF state = "no" THEN "asked" ELSE state

\* updateFromDisk has read the file, and asks for its tests.
ReadsNew(p) ==
    LET i == item[p] IN
    /\ disk[i[1]] # known[i]
    /\ known' = [known EXCEPT ![i] = disk[i[1]]]
    /\ asked' = [asked EXCEPT ![i] = Asking(@)]
    /\ AskTests(p, i, disk[i[1]])
    /\ UNCHANGED shown

\* The text of the file, on disk or in the editor.
TextOf(f) == {disk[f]} \cup (IF f \in open THEN {text[f]} ELSE {})

\* ... or has read that text before: it is not asked for again, also where the
\* tests of a document have been shown since.
ReadsSame(p) ==
    LET i == item[p] IN
    /\ disk[i[1]] = known[i]
    /\ skipped' = IF shown[i] \in TextOf(i[1]) THEN skipped ELSE skipped \cup {i[1]}
    /\ UNCHANGED <<itemVars, asks>>

-----------------------------------------------------------------------------
(* TestProject and TestTarget: a walk through the files *)

WalkBegins(p) ==
    /\ projectNews' = FALSE
    /\ target' = IF target = "none" THEN "new" ELSE target
    /\ current' = [current EXCEPT ![p] = TRUE]
    /\ unseen' = [unseen EXCEPT ![p] = Files]
    /\ at' = [at EXCEPT ![p] = "files"]
    /\ contested' = IF \E q \in Calls : Walking(q) THEN Files ELSE contested
    /\ UNCHANGED <<disk, open, text, unnoticed, news, changes, loadVars, placeVars, itemVars,
                   item, got, doc, discarded, skipped, asks>>

\* A file that is resolved.
VisitResolved(p) ==
    /\ at[p] = "files"
    /\ \E f \in unseen[p] :
         LET i == <<f, reused[f]>> IN
         /\ Found(f) /\ IsResolved(i)
         /\ GoesTo(p, i) /\ Judge(p, i, shown[i])
         /\ unseen' = [unseen EXCEPT ![p] = @ \ {f}]
    /\ UNCHANGED <<diskVars, loadVars, target, itemVars, at, current, item, doc,
                   discarded, skipped, asks>>

\* A file that is not: it is read.
Visit(p) ==
    /\ at[p] = "files"
    /\ \E f \in unseen[p], i \in Items :
         /\ ~(Found(f) /\ IsResolved(<<f, reused[f]>>))
         /\ GetOrCreate(f, i) /\ GoesTo(p, i)
         /\ asked' = [asked EXCEPT ![i] = AskedOf(i)]
         /\ item' = [item EXCEPT ![p] = i]
         /\ news' = IF asked'[i] = "no" THEN news ELSE news \ {f}
         /\ unseen' = [unseen EXCEPT ![p] = @ \ {f}]
    /\ at' = [at EXCEPT ![p] = "reading"]
    /\ UNCHANGED <<disk, open, text, unnoticed, projectNews, changes, loadVars, target, current,
                   got, doc, discarded, skipped, asks>>

Read(p) ==
    /\ at[p] = "reading"
    /\ \/ /\ ReadsNew(p)
          /\ at' = [at EXCEPT ![p] = "fetching"]
          /\ UNCHANGED <<placeVars, got, item, skipped>>
       \/ /\ ReadsSame(p)
          /\ at' = [at EXCEPT ![p] = "files"]
          /\ Judge(p, item[p], shown[item[p]])
          /\ item' = [item EXCEPT ![p] = NoItem]
    /\ UNCHANGED <<diskVars, loadVars, target, current, unseen, doc, contested, discarded>>

Fetched(p) ==
    /\ at[p] = "fetching"
    /\ \E v \in Versions : ShowTests(p, v) /\ Judge(p, item[p], v)
    /\ at' = [at EXCEPT ![p] = "files"]
    /\ item' = [item EXCEPT ![p] = NoItem]
    /\ UNCHANGED <<diskVars, loadVars, target, current, unseen, doc, historyVars>>

\* The target's children are replaced; a target without tests leaves the tree.
WalkEnds(p) ==
    /\ at[p] = "files" /\ unseen[p] = {}
    /\ ReplaceChildren(current[p], got[p])
    /\ IF ~current[p] THEN UNCHANGED <<target, current>>
       ELSE IF got[p] # {}
       THEN target' = "done" /\ current' = [current EXCEPT ![p] = FALSE]
       ELSE target' = "none" /\ current' = [q \in Calls |-> FALSE]
    /\ got' = [got EXCEPT ![p] = {}]
    /\ UNCHANGED <<diskVars, reused, itemVars, unseen, item, doc, contested, discarded, skipped, asks>>

-----------------------------------------------------------------------------
(* findInitialFiles *)

\* It is the turn of p, or its load is under way.
Loading(p) == loadQueue # <<>> /\ Head(loadQueue) = p

\* It ends, and its caller goes on.
LoadEnds(p) ==
    /\ loadingState' = "loaded"
    /\ loadQueue' = Tail(loadQueue)
    /\ at' = [at EXCEPT ![p] = CASE p \in Loads -> "done"
                                 [] p \in Runs -> "discover"
                                 [] p \in Docs -> "lookup"]

Call(p) ==
    /\ at[p] = "idle"
    /\ at' = [at EXCEPT ![p] = "queued"]
    /\ loadQueue' = Append(loadQueue, p)
    /\ UNCHANGED <<diskVars, loadingState, target, placeVars, itemVars, current, unseen,
                   item, got, doc, historyVars, asks>>

\* Its turn.  The refresh button empties the tree, and then the files of the
\* project are loaded.
LoadBegins(p) ==
    /\ at[p] = "queued" /\ Loading(p)
    /\ loadingState' = "loading"
    /\ at' = [at EXCEPT ![p] = "target"]
    /\ IF p \in Refreshes
       THEN /\ target' = "none" /\ current' = [q \in Calls |-> FALSE]
            /\ place' = [i \in Items |-> "out"]
       ELSE UNCHANGED <<target, current, place>>
    /\ UNCHANGED <<diskVars, loadQueue, reused, itemVars, unseen, item, got, doc,
                   historyVars, asks>>

LoadWalks(p) ==
    /\ at[p] = "target"
    /\ target # "done" \/ projectNews
    /\ WalkBegins(p)

LoadSkips(p) ==
    /\ at[p] = "target"
    /\ target = "done" /\ ~projectNews
    /\ LoadEnds(p)
    /\ UNCHANGED <<diskVars, target, placeVars, itemVars, current, unseen, item, got, doc,
                   historyVars, asks>>

LoadWalked(p) == Loading(p) /\ WalkEnds(p) /\ LoadEnds(p)

-----------------------------------------------------------------------------
(* startTestRun: discoverTests, after a load *)

\* The project or its target has changed meanwhile: it is walked, without the
\* mutex of the loads.
RunWalks(r) ==
    /\ at[r] = "discover"
    /\ target = "new" \/ (target = "done" /\ projectNews)
    /\ WalkBegins(r)

RunWalked(r) ==
    /\ ~Loading(r)
    /\ WalkEnds(r)
    /\ at' = [at EXCEPT ![r] = "discover"]
    /\ UNCHANGED loadVars

\* Then the items the tree has are gone through.
Gather(r) ==
    /\ at[r] = "discover"
    /\ target = "none" \/ (target = "done" /\ ~projectNews)
    /\ got' = [got EXCEPT ![r] = {i \in Items : Visible(i)}]
    /\ at' = [at EXCEPT ![r] = "items"]
    /\ UNCHANGED <<diskVars, loadVars, target, placeVars, itemVars, current, unseen, item, doc,
                   historyVars, asks>>

\* It has left the tree, or a walk that is under way has passed its file: nobody
\* puts the item back for the news.
OutOfWalks(i) == ~Visible(i) \/ \E q \in Calls : Walking(q) /\ i[1] \notin unseen[q]

VisitItem(r) ==
    /\ at[r] = "items"
    /\ \E i \in got[r] :
         /\ news' = IF asked[i] = "no" THEN news ELSE news \ {i[1]}
         /\ IF news' # news /\ OutOfWalks(i) THEN Contest(i) ELSE GoesTo(r, i)
         /\ IF IsResolved(i) THEN UNCHANGED <<item, at>>
            ELSE /\ item' = [item EXCEPT ![r] = i]
                 /\ at' = [at EXCEPT ![r] = "itemReading"]
         /\ got' = [got EXCEPT ![r] = @ \ {i}]
    /\ UNCHANGED <<disk, open, text, unnoticed, projectNews, changes, loadVars, target, placeVars,
                   itemVars, current, unseen, doc, discarded, skipped, asks>>

ReadItem(r) ==
    /\ at[r] = "itemReading"
    /\ \/ /\ ReadsNew(r)
          /\ at' = [at EXCEPT ![r] = "itemFetching"]
          /\ UNCHANGED <<item, skipped>>
       \/ /\ ReadsSame(r)
          /\ at' = [at EXCEPT ![r] = "items"]
          /\ item' = [item EXCEPT ![r] = NoItem]
    /\ UNCHANGED <<diskVars, loadVars, target, placeVars, current, unseen, got, doc,
                   contested, discarded>>

ItemFetched(r) ==
    /\ at[r] = "itemFetching"
    /\ \E v \in Versions : ShowTests(r, v)
    /\ at' = [at EXCEPT ![r] = "items"]
    /\ item' = [item EXCEPT ![r] = NoItem]
    /\ UNCHANGED <<diskVars, loadVars, target, placeVars, current, unseen, got, doc,
                   historyVars>>

RunGoes(r) ==
    /\ at[r] = "items" /\ got[r] = {}
    /\ at' = [at EXCEPT ![r] = "done"]
    /\ UNCHANGED <<diskVars, loadVars, target, placeVars, itemVars, current, unseen, item, got, doc,
                   historyVars, asks>>

\* resolveHandler: an item is read because the user expands it.
Expand(r) ==
    /\ at[r] = "idle"
    /\ \E i \in Items :
         /\ Visible(i)
         /\ GoesTo(r, i)
         /\ item' = [item EXCEPT ![r] = i]
    /\ at' = [at EXCEPT ![r] = "itemReading"]
    /\ UNCHANGED <<diskVars, loadVars, target, placeVars, itemVars, current, unseen, got, doc,
                   discarded, skipped, asks>>

-----------------------------------------------------------------------------
(* updateNodeForDocument *)

\* A document is opened, or changed.
Edit(d, f, version) ==
    /\ at[d] = "idle"
    /\ \/ f \notin open /\ version = disk[f] /\ UNCHANGED changes
       \/ /\ f \in open /\ version # text[f]
          /\ changes < MaxChanges /\ changes' = changes + 1
    /\ open' = open \cup {f}
    /\ text' = [text EXCEPT ![f] = version]
    /\ doc' = [doc EXCEPT ![d] = f]
    /\ at' = [at EXCEPT ![d] = "lookup"]
    /\ UNCHANGED <<disk, unnoticed, news, projectNews, loadVars, target, placeVars,
                   itemVars, current, unseen, item, got, historyVars, asks>>

\* The file is one of a target with tests; the tree must be loaded first.
DocLoads(d) ==
    /\ at[d] = "lookup" /\ loadingState # "loaded"
    /\ at' = [at EXCEPT ![d] = "queued"]
    /\ loadQueue' = Append(loadQueue, d)
    /\ UNCHANGED <<diskVars, loadingState, target, placeVars, itemVars, current, unseen,
                   item, got, doc, historyVars, asks>>

\* The tests of the document, as it is by now.
DocAsks(d) ==
    /\ at[d] = "lookup" /\ loadingState = "loaded"
    /\ \E i \in Items :
         /\ GetOrCreate(doc[d], i) /\ GoesTo(d, i)
         /\ asked' = [asked EXCEPT ![i] = Asking(AskedOf(i))]
         /\ item' = [item EXCEPT ![d] = i]
         /\ AskTests(d, i, text[i[1]])
         /\ discarded' = IF i[1] \in open \/ text[i[1]] = disk[i[1]]
                         THEN discarded ELSE discarded \cup {i[1]}
    /\ at' = [at EXCEPT ![d] = "docFetching"]
    /\ UNCHANGED <<diskVars, loadVars, target, current, unseen, got, doc, skipped>>

\* They are there: an item without tests is deleted, another is added to its
\* target, in place of another item of the file.
DocFetched(d) ==
    /\ at[d] = "docFetching"
    /\ LET i == item[d]
           Twin(j) == j # i /\ j[1] = i[1] /\ place[j] = "target"
       IN \E v \in Versions :
            /\ ShowTests(d, v)
            /\ IF v = Empty THEN Delete(i[1])
               ELSE IF target = "none" THEN UNCHANGED placeVars
               ELSE /\ place' = [j \in Items |-> IF j = i THEN "target"
                                                 ELSE IF Twin(j) THEN "out" ELSE place[j]]
                    /\ UNCHANGED reused
    /\ at' = [at EXCEPT ![d] = "idle"]
    /\ item' = [item EXCEPT ![d] = NoItem]
    /\ UNCHANGED <<diskVars, loadVars, target, current, unseen, got, doc, historyVars>>

-----------------------------------------------------------------------------
(* The files *)

\* A document is saved, or a file that is not open is changed by a tool.
FileChanges(f, version) ==
    /\ version # disk[f]
    /\ \/ f \in open /\ version = text[f] /\ UNCHANGED changes
       \/ /\ f \notin open
          /\ changes < MaxChanges /\ changes' = changes + 1
    /\ disk' = [disk EXCEPT ![f] = version]
    /\ unnoticed' = unnoticed \cup {f}
    /\ UNCHANGED <<open, text, news, projectNews, loadVars, target, placeVars, itemVars,
                   callVars, doc, historyVars, asks>>

\* A document is closed, saved or not: nothing in the extension listens.
DocumentCloses(f) ==
    /\ f \in open
    /\ open' = open \ {f}
    /\ discarded' = IF text[f] = disk[f] THEN discarded ELSE discarded \cup {f}
    /\ UNCHANGED <<disk, text, unnoticed, news, projectNews, changes, loadVars, target,
                   placeVars, itemVars, callVars, doc, contested, skipped, asks>>

\* The watcher tells of a change, half a second after it.
Notice(f) ==
    /\ f \in unnoticed
    /\ unnoticed' = unnoticed \ {f}
    /\ news' = news \cup {f}
    /\ UNCHANGED <<disk, open, text, projectNews, changes, loadVars, target, placeVars, itemVars,
                   callVars, doc, historyVars, asks>>

ProjectChanges ==
    /\ ~projectNews /\ changes < MaxChanges
    /\ projectNews' = TRUE /\ changes' = changes + 1
    /\ UNCHANGED <<disk, open, text, unnoticed, news, loadVars, target, placeVars, itemVars,
                   callVars, doc, historyVars, asks>>

\* Every call has returned.
Quiet == \A p \in Calls : at[p] \in {"idle", "done"}

Terminated ==
    /\ \A p \in Loads \cup Runs : at[p] = "done"
    /\ \A d \in Docs : at[d] \in {"idle", "done"}
    /\ UNCHANGED testTreeVars

TreeNext ==
    \/ \E p \in Loads \cup Runs : Call(p)
    \/ \E p \in Calls :
         \/ LoadBegins(p) \/ LoadWalks(p) \/ LoadSkips(p) \/ LoadWalked(p)
         \/ VisitResolved(p) \/ Visit(p) \/ Read(p) \/ Fetched(p)
    \/ \E r \in Runs :
         \/ Expand(r) \/ RunWalks(r) \/ RunWalked(r) \/ Gather(r)
         \/ VisitItem(r) \/ ReadItem(r) \/ ItemFetched(r) \/ RunGoes(r)
    \/ \E d \in Docs :
         \/ DocLoads(d) \/ DocAsks(d) \/ DocFetched(d)
         \/ \E f \in Files, v \in Versions : Edit(d, f, v)
    \/ \E f \in Files : DocumentCloses(f) \/ Notice(f) \/ \E v \in Versions : FileChanges(f, v)
    \/ ProjectChanges \/ Terminated

TreeSpec == TreeInit /\ [][TreeNext]_testTreeVars

-----------------------------------------------------------------------------
(* Properties *)

\* Nothing is under way, and nobody has news to take of the file.
Settled(f) == Quiet /\ loadingState = "loaded" /\ f \notin unnoticed \cup news

\* Files of which the tree may be wrong.
Excused == contested \cup discarded \cup skipped

\* What the tree shows of a file are the tests of its text on disk or in the
\* editor.  The exceptions are a file that two calls had at a time: what is read
\* while its tests are awaited is not asked for again, and the older answer may come
\* last (TestFile.ts:93-100); a text that was discarded with its document, which no
\* event tells of; and a file that goes back to the text that was read last, after the
\* tests of a document were shown (TestFile.ts:93).
TreeIsCurrent ==
    \A i \in Items :
        Settled(i[1]) /\ Visible(i) => shown[i] \in TextOf(i[1]) \/ i[1] \in Excused

\* A file with tests is in the tree.  The exceptions are a file that a walk met while
\* its tests were awaited, or that a walk of a target that was dropped took along, or
\* of which a run asked first for news that were meant for a walk (TestFile.ts:17-23,
\* TestProvider.ts:115-117); a text that was discarded with its document; and a file
\* that was read and not asked for, as above.
TreeIsComplete ==
    \A f \in Files :
        Settled(f) /\ Empty \notin TextOf(f)
            => (\E i \in Items : i[1] = f /\ Visible(i)) \/ f \in Excused

=============================================================================
