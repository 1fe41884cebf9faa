------------------------------ MODULE ProjectFiles ------------------------------
(***************************************************************************)
(* The project file (project.pbxproj) as the extension reads and edits it:   *)
(* a ruby helper that keeps the parsed project in memory, the file watcher,  *)
(* the cached list of files, and the workspace file that is generated from   *)
(* the list (src/src/ProjectManager, src/resources/project_helper.rb).       *)
(*                                                                         *)
(* There is one project and one of the cached lists: every list has a        *)
(* checker of its own and is read by the same code.  A project is a version, *)
(* counted up by each write of the file, and the edits of this extension in  *)
(* it; of a list only the version is kept.                                   *)
(***************************************************************************)
EXTENDS Integers, FiniteSets

CONSTANTS
    Edits,        \* operations that change the project: files added, renamed, ...
    Touches,      \* runs of the debounced touch(); bound on those at work at once
    Loader,       \* loadProjectFiles
    Free,         \* nobody
    MaxChanges,   \* bound on foreign changes
    MaxTroubles   \* bound on touches for a scheme, deaths of the helper and reloads

ASSUME ProcessesAssumption ==
    /\ Edits \cap Touches = {}
    /\ Loader \notin Edits \cup Touches
    /\ Free \notin Edits \cup Touches \cup {Loader}
ASSUME BoundsAssumption == {MaxChanges, MaxTroubles} \subseteq Nat

VARIABLES
    disk,       \* the project file
    settling,   \* what changed it since the watcher's last event
    mem,        \* the project in the helper's memory, or None
    moved,      \* the file's time is not the one the helper noted with mem
    serving,    \* whose request holds the mutex of XcodeProjectFileProxy
    known,      \* the project is in the cache
    watcher,    \* there is a watcher of the project, which notifies
    observed,   \* there is a watcher or a checker: events come
    skipNextNotify,
    changed,    \* the checker of the list has news
    cache,      \* the list of ProjectsCache
    armed,      \* debouncedTouch waits
    holder,     \* who holds projectFileEditMutex
    at,         \* where each process is
    draft,      \* the list a process generates the workspace from
    workspace,  \* the workspace file
    spent,      \* of the bounds
    hidden,     \* history: a foreign change since mem was loaded kept the time
    unread,     \* history: news of the list were dropped
    crossed,    \* history: generations of the workspace that others came across
    spoiled,    \* history: the last generation was crossed or failed
    disturbed   \* history: edits that failed or were not made, or were at work when
                \* the file changed or the helper died

helperVars == <<mem, moved, serving, hidden>>
watchVars  == <<settling, watcher, observed, skipNextNotify, changed, armed>>
listVars   == <<known, cache, unread>>
editVars   == <<holder, disturbed>>
outVars    == <<draft, workspace, crossed, spoiled>>
vars == <<disk, helperVars, watchVars, listVars, editVars, outVars, at, spent>>

Procs   == Edits \cup Touches \cup {Loader}
Project == [version : Nat, edits : SUBSET Edits]
None    == [version |-> -1, edits |-> {}]
Lists   == Nat \cup {-1}

Places == {"out", "choosing", "finding", "editing", "saving", "storing", "sleeping",
           "reading", "listing", "writing", "done"}

TypeOK ==
    /\ disk \in Project /\ mem \in Project \cup {None}
    /\ moved \in BOOLEAN /\ hidden \in BOOLEAN /\ serving \in Procs \cup {Free}
    /\ known \in BOOLEAN /\ watcher \in BOOLEAN /\ observed \in BOOLEAN
    /\ settling \subseteq {"foreign", "save", "touch"} /\ skipNextNotify \in BOOLEAN
    /\ changed \in BOOLEAN /\ unread \in BOOLEAN /\ armed \in BOOLEAN
    /\ cache \in Lists /\ workspace \in Lists /\ draft \in [Procs -> Lists]
    /\ at \in [Procs -> Places] /\ holder \in Edits \cup {Free}
    /\ spent \in [changes : 0 .. MaxChanges, troubles : 0 .. MaxTroubles]
    /\ crossed \subseteq Procs /\ spoiled \in BOOLEAN /\ disturbed \subseteq Edits

Init ==
    /\ disk = [version |-> 0, edits |-> {}] /\ settling = {}
    /\ mem = None /\ moved = FALSE /\ serving = Free
    /\ known = FALSE /\ watcher = FALSE /\ observed = FALSE
    /\ skipNextNotify = FALSE /\ changed = TRUE /\ armed = FALSE
    /\ cache = -1 /\ workspace = -1
    /\ holder = Free /\ at = [p \in Procs |-> IF p = Loader THEN "reading" ELSE "out"]
    /\ draft = [p \in Procs |-> -1]
    /\ spent = [changes |-> 0, troubles |-> 0]
    /\ hidden = FALSE /\ unread = FALSE /\ spoiled = FALSE
    /\ crossed = {} /\ disturbed = {}

Goto(p, place) == at' = [at EXCEPT ![p] = place]

\* Between the edit and the end of saveProjects; editFileTargets saves without it.
isSavingProjects ==
    \E e \in Edits : at[e] \in {"saving", "sleeping", "reading", "listing", "writing"}

\* Those at work on the workspace, in touch() or loadProjectFiles.
Generating == {p \in Procs : at[p] \in {"reading", "listing", "writing"}}

\* The request that waits for the helper, or for the mutex before it.
Requesting(p) == at[p] \in {"finding", "editing", "saving", "storing", "listing"}

\* The watcher will hear of a change when the file has been quiet for a while.
Changes(why) == settling' = IF observed THEN settling \cup {why} ELSE settling

\* A process begins to generate the workspace.
Generate(p) ==
    /\ Goto(p, "reading")
    /\ crossed' = IF Generating = {} THEN crossed \ {p} ELSE crossed \cup Generating \cup {p}

-----------------------------------------------------------------------------
(* The file and its watcher *)

\* external: Xcode, git or a script replaces the file, or writes it in place, and
\* keeps the edits that are in it.  The helper compares the time of the folder,
\* which only the former changes, and sees no change either that comes between a
\* read or a save of its own and the moment it notes the time.
ForeignChange ==
    /\ spent.changes < MaxChanges
    /\ spent' = [spent EXCEPT !.changes = @ + 1]
    /\ disk' = [disk EXCEPT !.version = @ + 1]
    /\ Changes("foreign")
    /\ \/ moved' = (mem # None) /\ UNCHANGED hidden
       \/ hidden' = (mem # None) /\ UNCHANGED moved
    /\ disturbed' = disturbed \cup (Edits \cap {holder})
    /\ UNCHANGED <<mem, serving, watcher, observed, skipNextNotify, changed, armed,
                   listVars, holder, outVars, at>>

\* For a build in Xcode, which shall notice its generated scheme.
touchWithoutNotify ==
    /\ spent.troubles < MaxTroubles
    /\ spent' = [spent EXCEPT !.troubles = @ + 1]
    /\ Changes("touch")
    /\ skipNextNotify' = (skipNextNotify \/ watcher)
    /\ UNCHANGED <<disk, helperVars, watcher, observed, changed, armed, listVars, editVars,
                   outVars, at>>

\* The event of the watcher: one for all that happened while the file settled.
update ==
    /\ settling # {} /\ settling' = {}
    /\ IF skipNextNotify
       THEN /\ skipNextNotify' = FALSE
            /\ unread' = (unread \/ settling # {"touch"})
            /\ UNCHANGED <<changed, armed, crossed>>
       ELSE /\ changed' = TRUE /\ unread' = FALSE
            /\ armed' = (armed \/ (watcher /\ ~isSavingProjects))
            /\ crossed' = crossed \cup {p \in Generating : at[p] # "reading"}
            /\ UNCHANGED skipNextNotify
    /\ UNCHANGED <<disk, helperVars, watcher, observed, known, cache, editVars, draft,
                   workspace, spoiled, at, spent>>

-----------------------------------------------------------------------------
(* Readers of the list and generators of the workspace *)

\* debouncedTouch, a second after the last notification: touch().
DebouncedTouch(t) ==
    /\ armed /\ at[t] = "out"
    /\ armed' = FALSE
    /\ Generate(t)
    /\ UNCHANGED <<disk, helperVars, settling, watcher, observed, skipNextNotify, changed,
                   listVars, editVars, draft, workspace, spoiled, spent>>

\* loadProjectFiles, with resetProjectCache.
loadProjectFiles ==
    /\ at[Loader] = "out" /\ spent.troubles < MaxTroubles
    /\ spent' = [spent EXCEPT !.troubles = @ + 1]
    /\ settling' = {} /\ watcher' = FALSE /\ observed' = FALSE
    /\ skipNextNotify' = FALSE /\ changed' = TRUE
    /\ known' = FALSE /\ cache' = -1 /\ unread' = FALSE
    /\ Generate(Loader)
    /\ UNCHANGED <<disk, helperVars, armed, editVars, draft, workspace, spoiled>>

\* The loader adds the project first, and so does an edit that looks for it: it
\* is watched only if it was not known.
addProject(p) ==
    /\ at[p] = IF p = Loader THEN "reading" ELSE "choosing"
    /\ ~known
    /\ known' = TRUE /\ watcher' = TRUE /\ observed' = TRUE
    /\ UNCHANGED <<disk, helperVars, settling, skipNextNotify, changed, armed, cache, unread,
                   editVars, outVars, at, spent>>

\* getFilesForProject asks the helper if the list has changed, and takes the news.
AskForList(p) ==
    /\ at[p] \in {"choosing", "reading"}
    /\ changed /\ (known \/ at[p] = "choosing")
    /\ changed' = FALSE /\ observed' = TRUE
    /\ Goto(p, IF at[p] = "reading" THEN "listing" ELSE "finding")
    /\ UNCHANGED <<disk, helperVars, settling, watcher, skipNextNotify, armed, listVars,
                   editVars, outVars, spent>>

Listing(p) == at[p] \in {"finding", "listing"}

\* Otherwise it has what the cache has, though an answer may be on its way.
TakeCached(p) ==
    /\ at[p] \in {"choosing", "reading"}
    /\ IF known \/ at[p] = "choosing" THEN ~changed ELSE p # Loader
    /\ IF at[p] = "reading"
       THEN /\ Goto(p, "writing")
            /\ draft' = [draft EXCEPT ![p] = IF known THEN cache ELSE -1]
            /\ crossed' = IF \E q \in Procs : Listing(q) THEN crossed \cup {p} ELSE crossed
       ELSE Goto(p, "editing") /\ UNCHANGED <<draft, crossed>>
    /\ UNCHANGED <<disk, helperVars, watchVars, listVars, editVars, workspace, spoiled, spent>>

\* After an edit, the end of it.
Leave(p) ==
    /\ Goto(p, IF p \in Edits THEN "done" ELSE "out")
    /\ holder' = IF p \in Edits THEN Free ELSE holder

\* saveWorkspace, which may fail: touch() is then left without an update.
saveWorkspace(p) ==
    /\ at[p] = "writing"
    /\ Leave(p)
    /\ \/ workspace' = draft[p] /\ spoiled' = (p \in crossed)
       \/ spoiled' = TRUE /\ UNCHANGED workspace
    /\ crossed' = crossed \ {p}
    /\ draft' = [draft EXCEPT ![p] = -1]
    /\ UNCHANGED <<disk, helperVars, watchVars, listVars, disturbed, spent>>

-----------------------------------------------------------------------------
(* Edits *)

\* Mutant: without the mutex.
StartUnlocked(e) ==
    /\ at[e] = "out" /\ known
    /\ holder' = e
    /\ Goto(e, "choosing")
    /\ UNCHANGED <<disk, helperVars, watchVars, listVars, disturbed, outVars, spent>>

\* An operation gets projectFileEditMutex; it looks for the project in the list
\* before it sends its edit to the helper.
StartEdit(e) ==
    /\ at[e] = "out" /\ holder = Free /\ known
    /\ holder' = e
    /\ Goto(e, "choosing")
    /\ UNCHANGED <<disk, helperVars, watchVars, listVars, disturbed, outVars, spent>>

\* There may be nothing to do, or the user does not choose a project or targets.
EndUnedited(e) ==
    /\ at[e] = "editing" /\ serving # e
    /\ Leave(e)
    /\ disturbed' = disturbed \cup {e}
    /\ UNCHANGED <<disk, helperVars, watchVars, listVars, outVars, spent>>

\* sleep in saveProjects, longer than the watcher waits for a quiet file.
Slept(e) ==
    /\ at[e] = "sleeping" /\ settling # {"save"}
    /\ Generate(e)
    /\ UNCHANGED <<disk, helperVars, watchVars, listVars, editVars, draft, workspace, spoiled,
                   spent>>

-----------------------------------------------------------------------------
(* Requests to the helper *)

\* Mutant: the project is loaded for every request.
ServeAfresh(p) ==
    /\ serving = Free /\ Requesting(p)
    /\ serving' = p
    /\ mem' = disk /\ moved' = FALSE /\ hidden' = FALSE
    /\ UNCHANGED <<disk, watchVars, listVars, editVars, outVars, at, spent>>

\* Mutant: the new time is noted with the old project.
ServeNoted(p) ==
    /\ serving = Free /\ Requesting(p)
    /\ serving' = p
    /\ mem' = (IF mem = None THEN disk ELSE mem)
    /\ moved' = FALSE /\ hidden' = (hidden /\ mem # None)
    /\ UNCHANGED <<disk, watchVars, listVars, editVars, outVars, at, spent>>

\* The mutex is given to a request; get_latest_project loads the project anew if
\* the time of the file is another.
Serve(p) ==
    /\ serving = Free /\ Requesting(p)
    /\ serving' = p
    /\ IF mem = None \/ moved
       THEN mem' = disk /\ moved' = FALSE /\ hidden' = FALSE
       ELSE UNCHANGED <<mem, moved, hidden>>
    /\ UNCHANGED <<disk, watchVars, listVars, editVars, outVars, at, spent>>

\* Mutant: the checker is read after the list.
AnswerAndMark(p) ==
    /\ serving = p /\ Listing(p)
    /\ serving' = Free
    /\ cache' = mem.version /\ known' = TRUE /\ unread' = (unread \/ hidden)
    /\ changed' = FALSE
    /\ IF at[p] = "finding"
       THEN Goto(p, "editing") /\ UNCHANGED draft
       ELSE Goto(p, "writing") /\ draft' = [draft EXCEPT ![p] = mem.version]
    /\ UNCHANGED <<disk, mem, moved, hidden, settling, watcher, observed, skipNextNotify, armed,
                   editVars, workspace, crossed, spoiled, spent>>

\* Mutant: the reader gets what was in the cache before.
AnswerOld(p) ==
    /\ serving = p /\ Listing(p)
    /\ serving' = Free
    /\ cache' = mem.version /\ known' = TRUE /\ unread' = (unread \/ hidden)
    /\ IF at[p] = "finding"
       THEN Goto(p, "editing") /\ UNCHANGED draft
       ELSE Goto(p, "writing") /\ draft' = [draft EXCEPT ![p] = cache]
    /\ UNCHANGED <<disk, mem, moved, hidden, watchVars, editVars, workspace, crossed,
                   spoiled, spent>>

\* The list is stored; the project is then in the cache, even after a reset.
AnswerList(p) ==
    /\ serving = p /\ Listing(p)
    /\ serving' = Free
    /\ cache' = mem.version /\ known' = TRUE /\ unread' = (unread \/ hidden)
    /\ IF at[p] = "finding"
       THEN Goto(p, "editing") /\ UNCHANGED draft
       ELSE Goto(p, "writing") /\ draft' = [draft EXCEPT ![p] = mem.version]
    /\ UNCHANGED <<disk, mem, moved, hidden, watchVars, editVars, workspace, crossed,
                   spoiled, spent>>

AnswerEdit(e) ==
    /\ serving = e /\ at[e] = "editing"
    /\ serving' = Free
    /\ mem' = [mem EXCEPT !.edits = @ \cup {e}]
    /\ Goto(e, "saving") \/ Goto(e, "storing")
    /\ UNCHANGED <<disk, moved, hidden, watchVars, listVars, editVars, outVars, spent>>

\* save notes the new time of the file.
AnswerSave(e) ==
    /\ serving = e /\ at[e] \in {"saving", "storing"}
    /\ serving' = Free
    /\ mem' = [mem EXCEPT !.version = disk.version + 1] /\ disk' = mem'
    /\ moved' = FALSE /\ hidden' = FALSE
    /\ Changes("save")
    /\ IF at[e] = "storing"
       THEN Leave(e)
       ELSE Goto(e, "sleeping") /\ UNCHANGED holder
    /\ UNCHANGED <<watcher, observed, skipNextNotify, changed, armed, listVars, disturbed,
                   outVars, spent>>

\* What becomes of a process whose request fails.  The loader goes on; so do
\* saveProjects, which ignores it, and renaming and deleting, to save what was done.
GoesOn(p) ==
    /\ \/ p = Loader /\ Goto(p, "reading")
       \/ at[p] = "finding" /\ Goto(p, "editing")
       \/ at[p] = "editing" /\ Goto(p, "saving")
       \/ at[p] = "saving" /\ Goto(p, "sleeping")
    /\ UNCHANGED <<holder, crossed, spoiled>>

GivesUp(p) ==
    /\ at[p] # "saving"
    /\ Leave(p)
    /\ crossed' = crossed \ {p}
    /\ spoiled' = (spoiled \/ p \in Generating)

Rejected(p) ==
    /\ serving' = Free
    /\ unread' = (unread \/ Listing(p))
    /\ GoesOn(p) \/ GivesUp(p)

\* The helper answers with an error, and may have done a part of the edit.
AnswerError(p) ==
    /\ serving = p
    /\ Rejected(p)
    /\ \/ UNCHANGED mem
       \/ at[p] = "editing" /\ mem' = [mem EXCEPT !.edits = @ \cup {p}]
    /\ disturbed' = disturbed \cup ({p} \cap Edits)
    /\ UNCHANGED <<disk, moved, hidden, watchVars, known, cache, draft, workspace, spent>>

\* The helper's process exits and another is started; a save may be done by then.
HelperDies ==
    /\ spent.troubles < MaxTroubles
    /\ spent' = [spent EXCEPT !.troubles = @ + 1]
    /\ mem' = None /\ moved' = FALSE /\ hidden' = FALSE
    /\ disturbed' = disturbed \cup (Edits \cap {holder})
    /\ IF serving = Free
       THEN UNCHANGED <<serving, unread, spoiled, holder, crossed, at>>
       ELSE Rejected(serving)
    /\ \/ UNCHANGED <<disk, settling>>
       \/ /\ serving \in Edits /\ at[serving] \in {"saving", "storing"}
          /\ disk' = [mem EXCEPT !.version = disk.version + 1]
          /\ Changes("save")
    /\ UNCHANGED <<watcher, observed, skipNextNotify, changed, armed, known, cache, draft,
                   workspace>>

Next ==
    \/ ForeignChange \/ touchWithoutNotify \/ update \/ loadProjectFiles
    \/ \E t \in Touches : DebouncedTouch(t)
    \/ \E p \in Procs : addProject(p) \/ AskForList(p) \/ TakeCached(p) \/ saveWorkspace(p)
    \/ \E e \in Edits : StartEdit(e) \/ EndUnedited(e) \/ Slept(e)
    \/ \E p \in Procs : Serve(p) \/ AnswerList(p) \/ AnswerError(p)
    \/ \E e \in Edits : AnswerEdit(e) \/ AnswerSave(e)
    \/ HelperDies

Spec == Init /\ [][Next]_vars

-----------------------------------------------------------------------------
(* Properties *)

\* The list of ProjectsCache lacks something of the file only while an event is
\* due, the checker has news or the helper is being asked, or after news that
\* were dropped, or a change in place, which the helper does not see.
StaleListHasCause ==
    cache < disk.version =>
        \/ settling # {} \/ changed \/ unread
        \/ \E p \in Procs : Listing(p)

\* The workspace file lacks something of the project only while someone will
\* generate it again, unless nobody was notified or a generation was spoiled.
StaleWorkspaceHasCause ==
    workspace < disk.version =>
        \/ settling # {} \/ armed \/ Generating # {} \/ isSavingProjects
        \/ ~watcher \/ unread \/ spoiled

\* An operation that was not disturbed has its edit in the file when it ends.
EditReachesDisk == \A e \in Edits \ disturbed : at[e] = "done" => e \in disk.edits

\* A save does not undo a foreign change, unless it was in place, or came
\* between the comparison of times and the save.
NewerIsNotOverwritten ==
    [][disk' # disk /\ spent'.changes = spent.changes =>
          mem.version = disk.version \/ hidden \/ moved]_vars

\* A save writes the edit of its operation, and those that failed before.
SavesOwnEdits ==
    [][\A e \in disk'.edits \ disk.edits : e = holder \/ e \in disturbed]_vars
=============================================================================
