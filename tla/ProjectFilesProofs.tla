--------------------------- MODULE ProjectFilesProofs ---------------------------
(***************************************************************************)
(* Proofs about ProjectFiles, for any number of edits, touches, foreign      *)
(* changes and accidents.  HelperInv relates the project in the helper's     *)
(* memory to the file, EditInv follows an undisturbed edit to the file, and  *)
(* NewsInv says who still knows of a change that the list lacks.            *)
(***************************************************************************)
EXTENDS ProjectFiles, TLAPS

\* Who works at an edit has the mutex, and the helper works for a request.
MutexInv ==
    /\ \A p \in Procs \ Edits : at[p] \in {"out", "reading", "listing", "writing"}
    /\ \A e \in Edits : at[e] \notin {"out", "done"} => holder = e
    /\ serving # Free => Requesting(serving) /\ mem # None

HelperInv ==
    mem # None =>
        /\ disk.edits \subseteq mem.edits
        /\ mem.edits \ disk.edits \subseteq disturbed \cup {holder}
        /\ ~hidden /\ ~moved => mem.version = disk.version

Saved == {"sleeping", "reading", "listing", "writing", "done"}

Reaches(e) ==
    /\ at[e] = "editing" /\ serving = e => ~moved
    /\ at[e] \in {"saving", "storing"} => mem # None /\ ~moved /\ e \in mem.edits
    /\ at[e] \in Saved => e \in disk.edits

EditInv == \A e \in Edits \ disturbed : Reaches(e)

\* An event is due that no touch accounts for, or the checker has or lost news.
News == "foreign" \in settling \/ "save" \in settling \/ changed \/ unread

NewsInv ==
    /\ observed \/ changed
    /\ cache < disk.version => News \/ \E p \in Procs : Listing(p)
    /\ serving # Free /\ moved => News \/ \E p \in Procs \ {serving} : Listing(p)

IInv == TypeOK /\ MutexInv /\ HelperInv /\ EditInv /\ NewsInv

\* Which process is which, and that no project is None.
LEMMA Kinds ==
  /\ Loader \in Procs /\ Edits \subseteq Procs /\ Touches \subseteq Procs
  /\ Free \notin Procs /\ Loader \notin Edits /\ Loader \notin Touches
  /\ None \notin Project
  BY ProcessesAssumption DEF Procs, None, Project

\* What the sets of places, lists and projects contain.
LEMMA Values ==
  /\ {"out", "choosing", "finding", "editing", "saving", "storing", "sleeping", "reading",
      "listing", "writing", "done"} = Places
  /\ -1 \in Lists /\ Nat \subseteq Lists
  /\ \A project \in Project : project.version \in Nat /\ project.edits \in SUBSET Edits
  /\ \A v \in Nat, E \in SUBSET Edits : [version |-> v, edits |-> E] \in Project
  BY DEF Places, Lists, Project

\* A process that goes to a place is there.
LEMMA Placed ==
  ASSUME TypeOK, NEW p \in Procs, NEW place \in Places, Goto(p, place)
  PROVE  at' \in [Procs -> Places]
  BY DEF Goto, TypeOK

\* What the helper makes of a project.
LEMMA Made ==
  ASSUME NEW m \in Project
  PROVE  /\ \A e \in Edits : [m EXCEPT !.edits = @ \cup {e}] \in Project
         /\ \A v \in Nat : [m EXCEPT !.version = v + 1] \in Project
         /\ [m EXCEPT !.version = @ + 1] \in Project
  BY DEF Project

\* What a rejected request does to its process and to the mutex is well typed.
LEMMA Rejection ==
  ASSUME TypeOK, NEW p \in Procs, Rejected(p)
  PROVE  at' \in [Procs -> Places] /\ holder' \in Edits \cup {Free} /\ crossed' \subseteq Procs
  BY Values, Placed DEF Rejected, GoesOn, GivesUp, Leave, TypeOK

\* Every process is somewhere.
LEMMA AtStep ==
  ASSUME TypeOK, [Next]_vars
  PROVE  at' \in [Procs -> Places]
<1>1. CASE ForeignChange
  BY <1>1 DEF ForeignChange, TypeOK
<1>2. CASE touchWithoutNotify
  BY <1>2 DEF touchWithoutNotify, TypeOK
<1>3. CASE update
  BY <1>3 DEF update, TypeOK
<1>4. CASE loadProjectFiles
  BY <1>4, Kinds, Values, Placed DEF loadProjectFiles, Generate
<1>5. CASE \E t \in Touches : DebouncedTouch(t)
  BY <1>5, Kinds, Values, Placed DEF DebouncedTouch, Generate
<1>6. CASE \E p \in Procs : addProject(p)
  BY <1>6 DEF addProject, TypeOK
<1>7. CASE \E p \in Procs : AskForList(p)
  BY <1>7, Values, Placed DEF AskForList
<1>8. CASE \E p \in Procs : TakeCached(p)
  BY <1>8, Values, Placed DEF TakeCached
<1>9. CASE \E p \in Procs : saveWorkspace(p)
  BY <1>9, Values, Placed DEF saveWorkspace, Leave
<1>10. CASE \E e \in Edits : StartEdit(e)
  BY <1>10, Kinds, Values, Placed DEF StartEdit
<1>11. CASE \E e \in Edits : EndUnedited(e)
  BY <1>11, Kinds, Values, Placed DEF EndUnedited, Leave
<1>12. CASE \E e \in Edits : Slept(e)
  BY <1>12, Kinds, Values, Placed DEF Slept, Generate
<1>13. CASE \E p \in Procs : Serve(p)
  BY <1>13 DEF Serve, TypeOK
<1>14. CASE \E p \in Procs : AnswerList(p)
  BY <1>14, Values, Placed DEF AnswerList
<1>15. CASE \E p \in Procs : AnswerError(p)
  BY <1>15, Rejection DEF AnswerError
<1>16. CASE \E e \in Edits : AnswerEdit(e)
  BY <1>16, Kinds, Values, Placed DEF AnswerEdit
<1>17. CASE \E e \in Edits : AnswerSave(e)
  BY <1>17, Kinds, Values, Placed DEF AnswerSave, Leave
<1>18. CASE HelperDies
  BY <1>18, Rejection DEF HelperDies, TypeOK
<1>19. CASE UNCHANGED vars
  BY <1>19 DEF vars, TypeOK
<1> QED BY <1>1, <1>2, <1>3, <1>4, <1>5, <1>6, <1>7, <1>8, <1>9, <1>10, <1>11, <1>12,
           <1>13, <1>14, <1>15, <1>16, <1>17, <1>18, <1>19 DEF Next

\* The file and the helper have projects.
LEMMA FileStep ==
  ASSUME TypeOK, MutexInv, [Next]_vars
  PROVE  disk' \in Project /\ mem' \in Project \cup {None}
<1>1. CASE ForeignChange
  BY <1>1, Made DEF ForeignChange, TypeOK
<1>2. CASE touchWithoutNotify
  BY <1>2 DEF touchWithoutNotify, TypeOK, helperVars
<1>3. CASE update
  BY <1>3 DEF update, TypeOK, helperVars
<1>4. CASE loadProjectFiles
  BY <1>4 DEF loadProjectFiles, TypeOK, helperVars
<1>5. CASE \E t \in Touches : DebouncedTouch(t)
  BY <1>5 DEF DebouncedTouch, TypeOK, helperVars
<1>6. CASE \E p \in Procs : addProject(p)
  BY <1>6 DEF addProject, TypeOK, helperVars
<1>7. CASE \E p \in Procs : AskForList(p)
  BY <1>7 DEF AskForList, TypeOK, helperVars
<1>8. CASE \E p \in Procs : TakeCached(p)
  BY <1>8 DEF TakeCached, TypeOK, helperVars
<1>9. CASE \E p \in Procs : saveWorkspace(p)
  BY <1>9 DEF saveWorkspace, TypeOK, helperVars
<1>10. CASE \E e \in Edits : StartEdit(e)
  BY <1>10 DEF StartEdit, TypeOK, helperVars
<1>11. CASE \E e \in Edits : EndUnedited(e)
  BY <1>11 DEF EndUnedited, TypeOK, helperVars
<1>12. CASE \E e \in Edits : Slept(e)
  BY <1>12 DEF Slept, TypeOK, helperVars
<1>13. CASE \E p \in Procs : Serve(p)
  BY <1>13 DEF Serve, TypeOK
<1>14. CASE \E p \in Procs : AnswerList(p)
  BY <1>14 DEF AnswerList, TypeOK
<1>15. CASE \E p \in Procs : AnswerError(p)
  <2>1. PICK p \in Procs : AnswerError(p)
    BY <1>15
  <2>2. mem \in Project
    BY <2>1, Kinds DEF AnswerError, TypeOK, MutexInv
  <2>3. disk' \in Project
    BY <2>1 DEF AnswerError, TypeOK
  <2>4. CASE UNCHANGED mem
    BY <2>2, <2>3, <2>4
  <2>5. CASE at[p] = "editing" /\ mem' = [mem EXCEPT !.edits = @ \cup {p}]
    <3>1. p \in Edits
      BY <2>1, <2>5 DEF MutexInv
    <3>2. [mem EXCEPT !.edits = @ \cup {p}] \in Project
      BY <2>2, <3>1, Made
    <3> QED BY <2>3, <2>5, <3>2
  <2> QED BY <2>1, <2>4, <2>5 DEF AnswerError
<1>16. CASE \E e \in Edits : AnswerEdit(e)
  <2>1. PICK e \in Edits : AnswerEdit(e)
    BY <1>16
  <2>2. mem \in Project
    BY <2>1, Kinds DEF AnswerEdit, TypeOK, MutexInv
  <2> QED BY <2>1, <2>2, Made DEF AnswerEdit, TypeOK
<1>17. CASE \E e \in Edits : AnswerSave(e)
  <2>1. PICK e \in Edits : AnswerSave(e)
    BY <1>17
  <2>2. mem \in Project /\ disk.version \in Nat
    BY <2>1, Kinds, Values DEF AnswerSave, TypeOK, MutexInv
  <2>3. [mem EXCEPT !.version = disk.version + 1] \in Project
    BY <2>2, Made
  <2> QED BY <2>1, <2>3 DEF AnswerSave
<1>18. CASE HelperDies
  <2>1. mem' = None
    BY <1>18 DEF HelperDies
  <2>2. CASE UNCHANGED disk
    BY <2>1, <2>2 DEF TypeOK
  <2>3. CASE serving \in Edits /\ disk' = [mem EXCEPT !.version = disk.version + 1]
    <3>1. mem \in Project /\ disk.version \in Nat
      BY <2>3, Kinds, Values DEF TypeOK, MutexInv
    <3> QED BY <2>1, <2>3, <3>1, Made
  <2> QED BY <1>18, <2>2, <2>3 DEF HelperDies
<1>19. CASE UNCHANGED vars
  BY <1>19 DEF vars, TypeOK, helperVars
<1> QED BY <1>1, <1>2, <1>3, <1>4, <1>5, <1>6, <1>7, <1>8, <1>9, <1>10, <1>11, <1>12,
           <1>13, <1>14, <1>15, <1>16, <1>17, <1>18, <1>19 DEF Next

\* Lists are versions.
LEMMA OutStep ==
  ASSUME TypeOK, MutexInv, [Next]_vars
  PROVE  cache' \in Lists /\ workspace' \in Lists /\ draft' \in [Procs -> Lists]
<1>1. CASE ForeignChange
  BY <1>1 DEF ForeignChange, TypeOK, listVars, outVars
<1>2. CASE touchWithoutNotify
  BY <1>2 DEF touchWithoutNotify, TypeOK, listVars, outVars
<1>3. CASE update
  BY <1>3 DEF update, TypeOK
<1>4. CASE loadProjectFiles
  BY <1>4, Values DEF loadProjectFiles, TypeOK
<1>5. CASE \E t \in Touches : DebouncedTouch(t)
  BY <1>5 DEF DebouncedTouch, TypeOK, listVars
<1>6. CASE \E p \in Procs : addProject(p)
  BY <1>6 DEF addProject, TypeOK, outVars
<1>7. CASE \E p \in Procs : AskForList(p)
  BY <1>7 DEF AskForList, TypeOK, listVars, outVars
<1>8. CASE \E p \in Procs : TakeCached(p)
  BY <1>8, Values DEF TakeCached, TypeOK, listVars
<1>9. CASE \E p \in Procs : saveWorkspace(p)
  BY <1>9, Values DEF saveWorkspace, TypeOK, listVars
<1>10. CASE \E e \in Edits : StartEdit(e)
  BY <1>10 DEF StartEdit, TypeOK, listVars, outVars
<1>11. CASE \E e \in Edits : EndUnedited(e)
  BY <1>11 DEF EndUnedited, TypeOK, listVars, outVars
<1>12. CASE \E e \in Edits : Slept(e)
  BY <1>12 DEF Slept, TypeOK, listVars
<1>13. CASE \E p \in Procs : Serve(p)
  BY <1>13 DEF Serve, TypeOK, listVars, outVars
<1>14. CASE \E p \in Procs : AnswerList(p)
  BY <1>14, Kinds, Values DEF AnswerList, TypeOK, MutexInv
<1>15. CASE \E p \in Procs : AnswerError(p)
  BY <1>15 DEF AnswerError, TypeOK
<1>16. CASE \E e \in Edits : AnswerEdit(e)
  BY <1>16 DEF AnswerEdit, TypeOK, listVars, outVars
<1>17. CASE \E e \in Edits : AnswerSave(e)
  BY <1>17 DEF AnswerSave, TypeOK, listVars, outVars
<1>18. CASE HelperDies
  BY <1>18 DEF HelperDies, TypeOK
<1>19. CASE UNCHANGED vars
  BY <1>19 DEF vars, TypeOK, listVars, outVars
<1> QED BY <1>1, <1>2, <1>3, <1>4, <1>5, <1>6, <1>7, <1>8, <1>9, <1>10, <1>11, <1>12,
           <1>13, <1>14, <1>15, <1>16, <1>17, <1>18, <1>19 DEF Next

\* The watcher and its flags.
LEMMA WatchStep ==
  ASSUME TypeOK, MutexInv, [Next]_vars
  PROVE  /\ settling' \subseteq {"foreign", "save", "touch"} /\ skipNextNotify' \in BOOLEAN
         /\ watcher' \in BOOLEAN /\ observed' \in BOOLEAN /\ changed' \in BOOLEAN
         /\ armed' \in BOOLEAN /\ known' \in BOOLEAN /\ unread' \in BOOLEAN
<1>1. CASE ForeignChange
  BY <1>1 DEF ForeignChange, TypeOK, listVars, Changes
<1>2. CASE touchWithoutNotify
  BY <1>2 DEF touchWithoutNotify, TypeOK, listVars, Changes
<1>3. CASE update
  BY <1>3 DEF update, TypeOK
<1>4. CASE loadProjectFiles
  BY <1>4 DEF loadProjectFiles, TypeOK
<1>5. CASE \E t \in Touches : DebouncedTouch(t)
  BY <1>5 DEF DebouncedTouch, TypeOK, listVars
<1>6. CASE \E p \in Procs : addProject(p)
  BY <1>6 DEF addProject, TypeOK
<1>7. CASE \E p \in Procs : AskForList(p)
  BY <1>7 DEF AskForList, TypeOK, listVars
<1>8. CASE \E p \in Procs : TakeCached(p)
  BY <1>8 DEF TakeCached, TypeOK, watchVars, listVars
<1>9. CASE \E p \in Procs : saveWorkspace(p)
  BY <1>9 DEF saveWorkspace, TypeOK, watchVars, listVars
<1>10. CASE \E e \in Edits : StartEdit(e)
  BY <1>10 DEF StartEdit, TypeOK, watchVars, listVars
<1>11. CASE \E e \in Edits : EndUnedited(e)
  BY <1>11 DEF EndUnedited, TypeOK, watchVars, listVars
<1>12. CASE \E e \in Edits : Slept(e)
  BY <1>12 DEF Slept, TypeOK, watchVars, listVars
<1>13. CASE \E p \in Procs : Serve(p)
  BY <1>13 DEF Serve, TypeOK, watchVars, listVars
<1>14. CASE \E p \in Procs : AnswerList(p)
  BY <1>14 DEF AnswerList, TypeOK, watchVars
<1>15. CASE \E p \in Procs : AnswerError(p)
  BY <1>15 DEF AnswerError, TypeOK, watchVars, Rejected
<1>16. CASE \E e \in Edits : AnswerEdit(e)
  BY <1>16 DEF AnswerEdit, TypeOK, watchVars, listVars
<1>17. CASE \E e \in Edits : AnswerSave(e)
  BY <1>17 DEF AnswerSave, TypeOK, listVars, Changes
<1>18. CASE HelperDies
  BY <1>18 DEF HelperDies, TypeOK, Changes, Rejected
<1>19. CASE UNCHANGED vars
  BY <1>19 DEF vars, TypeOK, watchVars, listVars
<1> QED BY <1>1, <1>2, <1>3, <1>4, <1>5, <1>6, <1>7, <1>8, <1>9, <1>10, <1>11, <1>12,
           <1>13, <1>14, <1>15, <1>16, <1>17, <1>18, <1>19 DEF Next

\* The bounds are kept.
LEMMA SpentStep ==
  ASSUME TypeOK, [Next]_vars
  PROVE  spent' \in [changes : 0 .. MaxChanges, troubles : 0 .. MaxTroubles]
<1>1. CASE ForeignChange
  BY <1>1, BoundsAssumption DEF ForeignChange, TypeOK
<1>2. CASE touchWithoutNotify
  BY <1>2, BoundsAssumption DEF touchWithoutNotify, TypeOK
<1>3. CASE update
  BY <1>3 DEF update, TypeOK
<1>4. CASE loadProjectFiles
  BY <1>4, BoundsAssumption DEF loadProjectFiles, TypeOK
<1>5. CASE \E t \in Touches : DebouncedTouch(t)
  BY <1>5 DEF DebouncedTouch, TypeOK
<1>6. CASE \E p \in Procs : addProject(p)
  BY <1>6 DEF addProject, TypeOK
<1>7. CASE \E p \in Procs : AskForList(p)
  BY <1>7 DEF AskForList, TypeOK
<1>8. CASE \E p \in Procs : TakeCached(p)
  BY <1>8 DEF TakeCached, TypeOK
<1>9. CASE \E p \in Procs : saveWorkspace(p)
  BY <1>9 DEF saveWorkspace, TypeOK
<1>10. CASE \E e \in Edits : StartEdit(e)
  BY <1>10 DEF StartEdit, TypeOK
<1>11. CASE \E e \in Edits : EndUnedited(e)
  BY <1>11 DEF EndUnedited, TypeOK
<1>12. CASE \E e \in Edits : Slept(e)
  BY <1>12 DEF Slept, TypeOK
<1>13. CASE \E p \in Procs : Serve(p)
  BY <1>13 DEF Serve, TypeOK
<1>14. CASE \E p \in Procs : AnswerList(p)
  BY <1>14 DEF AnswerList, TypeOK
<1>15. CASE \E p \in Procs : AnswerError(p)
  BY <1>15 DEF AnswerError, TypeOK
<1>16. CASE \E e \in Edits : AnswerEdit(e)
  BY <1>16 DEF AnswerEdit, TypeOK
<1>17. CASE \E e \in Edits : AnswerSave(e)
  BY <1>17 DEF AnswerSave, TypeOK
<1>18. CASE HelperDies
  BY <1>18, BoundsAssumption DEF HelperDies, TypeOK
<1>19. CASE UNCHANGED vars
  BY <1>19 DEF vars, TypeOK
<1> QED BY <1>1, <1>2, <1>3, <1>4, <1>5, <1>6, <1>7, <1>8, <1>9, <1>10, <1>11, <1>12,
           <1>13, <1>14, <1>15, <1>16, <1>17, <1>18, <1>19 DEF Next

\* The rest of the state.
LEMMA RestStep ==
  ASSUME TypeOK, MutexInv, [Next]_vars
  PROVE  /\ moved' \in BOOLEAN /\ hidden' \in BOOLEAN /\ serving' \in Procs \cup {Free}
         /\ holder' \in Edits \cup {Free} /\ crossed' \subseteq Procs
         /\ disturbed' \subseteq Edits
<1>1. CASE ForeignChange
  BY <1>1 DEF ForeignChange, TypeOK, outVars
<1>2. CASE touchWithoutNotify
  BY <1>2 DEF touchWithoutNotify, TypeOK, helperVars, editVars, outVars
<1>3. CASE update
  BY <1>3 DEF update, TypeOK, helperVars, editVars, Generating
<1>4. CASE loadProjectFiles
  BY <1>4, Kinds DEF loadProjectFiles, TypeOK, helperVars, editVars, Generate, Generating
<1>5. CASE \E t \in Touches : DebouncedTouch(t)
  BY <1>5, Kinds DEF DebouncedTouch, TypeOK, helperVars, editVars, Generate, Generating
<1>6. CASE \E p \in Procs : addProject(p)
  BY <1>6 DEF addProject, TypeOK, helperVars, editVars, outVars
<1>7. CASE \E p \in Procs : AskForList(p)
  BY <1>7 DEF AskForList, TypeOK, helperVars, editVars, outVars
<1>8. CASE \E p \in Procs : TakeCached(p)
  BY <1>8 DEF TakeCached, TypeOK, helperVars, editVars
<1>9. CASE \E p \in Procs : saveWorkspace(p)
  BY <1>9 DEF saveWorkspace, TypeOK, helperVars, Leave
<1>10. CASE \E e \in Edits : StartEdit(e)
  BY <1>10 DEF StartEdit, TypeOK, helperVars, outVars
<1>11. CASE \E e \in Edits : EndUnedited(e)
  BY <1>11 DEF EndUnedited, TypeOK, helperVars, outVars, Leave
<1>12. CASE \E e \in Edits : Slept(e)
  BY <1>12, Kinds DEF Slept, TypeOK, helperVars, editVars, Generate, Generating
<1>13. CASE \E p \in Procs : Serve(p)
  BY <1>13 DEF Serve, TypeOK, editVars, outVars
<1>14. CASE \E p \in Procs : AnswerList(p)
  BY <1>14 DEF AnswerList, TypeOK, editVars
<1>15. CASE \E p \in Procs : AnswerError(p)
  BY <1>15, Rejection DEF AnswerError, TypeOK, Rejected
<1>16. CASE \E e \in Edits : AnswerEdit(e)
  BY <1>16 DEF AnswerEdit, TypeOK, editVars, outVars
<1>17. CASE \E e \in Edits : AnswerSave(e)
  BY <1>17 DEF AnswerSave, TypeOK, outVars, Leave
<1>18. CASE HelperDies
  BY <1>18, Rejection DEF HelperDies, TypeOK, Rejected
<1>19. CASE UNCHANGED vars
  BY <1>19 DEF vars, TypeOK, helperVars, editVars, outVars
<1> QED BY <1>1, <1>2, <1>3, <1>4, <1>5, <1>6, <1>7, <1>8, <1>9, <1>10, <1>11, <1>12,
           <1>13, <1>14, <1>15, <1>16, <1>17, <1>18, <1>19 DEF Next

\* A generation is spoiled or not.
LEMMA SpoiledStep ==
  ASSUME TypeOK, [Next]_vars
  PROVE  spoiled' \in BOOLEAN
<1>1. CASE ForeignChange
  BY <1>1 DEF ForeignChange, TypeOK, outVars
<1>2. CASE touchWithoutNotify
  BY <1>2 DEF touchWithoutNotify, TypeOK, outVars
<1>3. CASE update
  BY <1>3 DEF update, TypeOK
<1>4. CASE loadProjectFiles
  BY <1>4 DEF loadProjectFiles, TypeOK
<1>5. CASE \E t \in Touches : DebouncedTouch(t)
  BY <1>5 DEF DebouncedTouch, TypeOK
<1>6. CASE \E p \in Procs : addProject(p)
  BY <1>6 DEF addProject, TypeOK, outVars
<1>7. CASE \E p \in Procs : AskForList(p)
  BY <1>7 DEF AskForList, TypeOK, outVars
<1>8. CASE \E p \in Procs : TakeCached(p)
  BY <1>8 DEF TakeCached, TypeOK
<1>9. CASE \E p \in Procs : saveWorkspace(p)
  <2>1. PICK p \in Procs : spoiled' = (p \in crossed) \/ spoiled' = TRUE
    BY <1>9 DEF saveWorkspace
  <2>2. (p \in crossed) \in BOOLEAN
    OBVIOUS
  <2> QED BY <2>1, <2>2
<1>10. CASE \E e \in Edits : StartEdit(e)
  BY <1>10 DEF StartEdit, TypeOK, outVars
<1>11. CASE \E e \in Edits : EndUnedited(e)
  BY <1>11 DEF EndUnedited, TypeOK, outVars
<1>12. CASE \E e \in Edits : Slept(e)
  BY <1>12 DEF Slept, TypeOK
<1>13. CASE \E p \in Procs : Serve(p)
  BY <1>13 DEF Serve, TypeOK, outVars
<1>14. CASE \E p \in Procs : AnswerList(p)
  BY <1>14 DEF AnswerList, TypeOK
<1>15. CASE \E p \in Procs : AnswerError(p)
  BY <1>15 DEF AnswerError, TypeOK, Rejected, GoesOn, GivesUp
<1>16. CASE \E e \in Edits : AnswerEdit(e)
  BY <1>16 DEF AnswerEdit, TypeOK, outVars
<1>17. CASE \E e \in Edits : AnswerSave(e)
  BY <1>17 DEF AnswerSave, TypeOK, outVars
<1>18. CASE HelperDies
  BY <1>18 DEF HelperDies, TypeOK, Rejected, GoesOn, GivesUp
<1>19. CASE UNCHANGED vars
  BY <1>19 DEF vars, TypeOK, outVars
<1> QED BY <1>1, <1>2, <1>3, <1>4, <1>5, <1>6, <1>7, <1>8, <1>9, <1>10, <1>11, <1>12,
           <1>13, <1>14, <1>15, <1>16, <1>17, <1>18, <1>19 DEF Next

\* The state keeps its type.
LEMMA TypeStep ==
  ASSUME TypeOK, MutexInv, [Next]_vars
  PROVE  TypeOK'
  BY AtStep, FileStep, OutStep, WatchStep, SpentStep, RestStep, SpoiledStep DEF TypeOK

\* Only an edit comes to an editing place.
LEMMA StrayStep ==
  ASSUME TypeOK, MutexInv, [Next]_vars
  PROVE  \A p \in Procs \ Edits : at'[p] \in {"out", "reading", "listing", "writing"}
<1>1. CASE ForeignChange
  BY <1>1 DEF ForeignChange, MutexInv
<1>2. CASE touchWithoutNotify
  BY <1>2 DEF touchWithoutNotify, MutexInv
<1>3. CASE update
  BY <1>3 DEF update, MutexInv
<1>4. CASE loadProjectFiles
  BY <1>4 DEF loadProjectFiles, MutexInv, Goto, Generate
<1>5. CASE \E t \in Touches : DebouncedTouch(t)
  BY <1>5 DEF DebouncedTouch, MutexInv, Goto, Generate
<1>6. CASE \E p \in Procs : addProject(p)
  BY <1>6 DEF addProject, MutexInv
<1>7. CASE \E p \in Procs : AskForList(p)
  BY <1>7 DEF AskForList, MutexInv, Goto
<1>8. CASE \E p \in Procs : TakeCached(p)
  BY <1>8 DEF TakeCached, TypeOK, MutexInv, Goto
<1>9. CASE \E p \in Procs : saveWorkspace(p)
  BY <1>9 DEF saveWorkspace, MutexInv, Goto, Leave
<1>10. CASE \E e \in Edits : StartEdit(e)
  BY <1>10 DEF StartEdit, MutexInv, Goto
<1>11. CASE \E e \in Edits : EndUnedited(e)
  BY <1>11 DEF EndUnedited, MutexInv, Goto, Leave
<1>12. CASE \E e \in Edits : Slept(e)
  BY <1>12 DEF Slept, MutexInv, Goto, Generate
<1>13. CASE \E p \in Procs : Serve(p)
  BY <1>13 DEF Serve, MutexInv
<1>14. CASE \E p \in Procs : AnswerList(p)
  BY <1>14 DEF AnswerList, TypeOK, MutexInv, Goto
<1>15. CASE \E p \in Procs : AnswerError(p)
  BY <1>15 DEF AnswerError, TypeOK, MutexInv, Goto, Rejected, GoesOn, GivesUp, Leave
<1>16. CASE \E e \in Edits : AnswerEdit(e)
  BY <1>16 DEF AnswerEdit, TypeOK, MutexInv, Goto
<1>17. CASE \E e \in Edits : AnswerSave(e)
  BY <1>17 DEF AnswerSave, TypeOK, MutexInv, Goto, Leave
<1>18. CASE HelperDies
  BY <1>18 DEF HelperDies, TypeOK, MutexInv, Goto, Rejected, GoesOn, GivesUp, Leave
<1>19. CASE UNCHANGED vars
  BY <1>19 DEF vars, MutexInv
<1> QED BY <1>1, <1>2, <1>3, <1>4, <1>5, <1>6, <1>7, <1>8, <1>9, <1>10, <1>11, <1>12,
           <1>13, <1>14, <1>15, <1>16, <1>17, <1>18, <1>19 DEF Next

\* Who works at an edit keeps the mutex.
LEMMA HolderStep ==
  ASSUME TypeOK, MutexInv, [Next]_vars
  PROVE  \A e \in Edits : at'[e] \notin {"out", "done"} => holder' = e
<1>1. CASE ForeignChange
  BY <1>1 DEF ForeignChange, MutexInv
<1>2. CASE touchWithoutNotify
  BY <1>2 DEF touchWithoutNotify, MutexInv, editVars
<1>3. CASE update
  BY <1>3 DEF update, MutexInv, editVars
<1>4. CASE loadProjectFiles
  BY <1>4, Kinds DEF loadProjectFiles, MutexInv, editVars, Goto, Generate
<1>5. CASE \E t \in Touches : DebouncedTouch(t)
  BY <1>5, ProcessesAssumption DEF DebouncedTouch, MutexInv, editVars, Goto, Generate
<1>6. CASE \E p \in Procs : addProject(p)
  BY <1>6 DEF addProject, MutexInv, editVars
<1>7. CASE \E p \in Procs : AskForList(p)
  BY <1>7 DEF AskForList, MutexInv, editVars, Goto
<1>8. CASE \E p \in Procs : TakeCached(p)
  BY <1>8, Kinds DEF TakeCached, TypeOK, MutexInv, editVars, Goto
<1>9. CASE \E p \in Procs : saveWorkspace(p)
  BY <1>9 DEF saveWorkspace, TypeOK, MutexInv, Goto, Leave
<1>10. CASE \E e \in Edits : StartEdit(e)
  BY <1>10, Kinds DEF StartEdit, MutexInv, Goto
<1>11. CASE \E e \in Edits : EndUnedited(e)
  BY <1>11, Kinds DEF EndUnedited, TypeOK, MutexInv, Goto, Leave
<1>12. CASE \E e \in Edits : Slept(e)
  BY <1>12 DEF Slept, MutexInv, editVars, Goto, Generate
<1>13. CASE \E p \in Procs : Serve(p)
  BY <1>13 DEF Serve, MutexInv, editVars
<1>14. CASE \E p \in Procs : AnswerList(p)
  BY <1>14, Kinds DEF AnswerList, TypeOK, MutexInv, editVars, Goto, Listing
<1>15. CASE \E p \in Procs : AnswerError(p)
  BY <1>15, Kinds DEF AnswerError, TypeOK, MutexInv, Goto, Requesting, Rejected, GoesOn,
     GivesUp, Leave
<1>16. CASE \E e \in Edits : AnswerEdit(e)
  BY <1>16, Kinds DEF AnswerEdit, TypeOK, MutexInv, editVars, Goto
<1>17. CASE \E e \in Edits : AnswerSave(e)
  BY <1>17, Kinds DEF AnswerSave, TypeOK, MutexInv, Goto, Leave
<1>18. CASE HelperDies
  BY <1>18, Kinds DEF HelperDies, TypeOK, MutexInv, Goto, Requesting, Rejected, GoesOn,
     GivesUp, Leave
<1>19. CASE UNCHANGED vars
  BY <1>19 DEF vars, MutexInv, editVars
<1> QED BY <1>1, <1>2, <1>3, <1>4, <1>5, <1>6, <1>7, <1>8, <1>9, <1>10, <1>11, <1>12,
           <1>13, <1>14, <1>15, <1>16, <1>17, <1>18, <1>19 DEF Next

\* The helper works for a request.
LEMMA ServingStep ==
  ASSUME TypeOK, MutexInv, mem' \in Project \cup {None}, [Next]_vars
  PROVE  serving' # Free => Requesting(serving)' /\ mem' # None
<1>1. CASE ForeignChange
  BY <1>1 DEF ForeignChange, MutexInv, Requesting
<1>2. CASE touchWithoutNotify
  BY <1>2 DEF touchWithoutNotify, MutexInv, helperVars, Requesting
<1>3. CASE update
  BY <1>3 DEF update, MutexInv, helperVars, Requesting
<1>4. CASE loadProjectFiles
  BY <1>4 DEF loadProjectFiles, MutexInv, helperVars, Goto, Requesting, Generate
<1>5. CASE \E t \in Touches : DebouncedTouch(t)
  BY <1>5 DEF DebouncedTouch, MutexInv, helperVars, Goto, Requesting, Generate
<1>6. CASE \E p \in Procs : addProject(p)
  BY <1>6 DEF addProject, MutexInv, helperVars, Requesting
<1>7. CASE \E p \in Procs : AskForList(p)
  BY <1>7 DEF AskForList, MutexInv, helperVars, Goto, Requesting
<1>8. CASE \E p \in Procs : TakeCached(p)
  BY <1>8 DEF TakeCached, TypeOK, MutexInv, helperVars, Goto, Requesting
<1>9. CASE \E p \in Procs : saveWorkspace(p)
  BY <1>9 DEF saveWorkspace, MutexInv, helperVars, Goto, Requesting, Leave
<1>10. CASE \E e \in Edits : StartEdit(e)
  BY <1>10 DEF StartEdit, MutexInv, helperVars, Goto, Requesting
<1>11. CASE \E e \in Edits : EndUnedited(e)
  BY <1>11 DEF EndUnedited, MutexInv, helperVars, Goto, Requesting, Leave
<1>12. CASE \E e \in Edits : Slept(e)
  BY <1>12 DEF Slept, MutexInv, helperVars, Goto, Requesting, Generate
<1>13. CASE \E p \in Procs : Serve(p)
  BY <1>13, Kinds DEF Serve, TypeOK, Requesting
<1>14. CASE \E p \in Procs : AnswerList(p)
  BY <1>14 DEF AnswerList
<1>15. CASE \E p \in Procs : AnswerError(p)
  BY <1>15 DEF AnswerError, Rejected
<1>16. CASE \E e \in Edits : AnswerEdit(e)
  BY <1>16 DEF AnswerEdit
<1>17. CASE \E e \in Edits : AnswerSave(e)
  BY <1>17 DEF AnswerSave
<1>18. CASE HelperDies
  BY <1>18 DEF HelperDies, Rejected
<1>19. CASE UNCHANGED vars
  BY <1>19 DEF vars, MutexInv, helperVars, Requesting
<1> QED BY <1>1, <1>2, <1>3, <1>4, <1>5, <1>6, <1>7, <1>8, <1>9, <1>10, <1>11, <1>12,
           <1>13, <1>14, <1>15, <1>16, <1>17, <1>18, <1>19 DEF Next

\* So the mutex is kept.
LEMMA MutexStep ==
  ASSUME TypeOK, MutexInv, [Next]_vars
  PROVE  MutexInv'
  <1>1. mem' \in Project \cup {None}
    BY FileStep
  <1>2. serving' # Free => Requesting(serving)' /\ mem' # None
    BY <1>1, ServingStep
  <1> QED BY <1>2, StrayStep, HolderStep DEF MutexInv

\* What the helper has and what the file has.
LEMMA HelperStep ==
  ASSUME TypeOK, MutexInv, HelperInv, EditInv, [Next]_vars
  PROVE  HelperInv'
<1>1. CASE ForeignChange
  <2>1. disk'.edits = disk.edits /\ UNCHANGED <<mem, holder>> /\ disturbed \subseteq disturbed'
    BY <1>1 DEF ForeignChange
  <2>2. mem # None => moved' \/ hidden'
    BY <1>1 DEF ForeignChange
  <2> QED BY <2>1, <2>2 DEF HelperInv
<1>2. CASE touchWithoutNotify
  BY <1>2 DEF touchWithoutNotify, HelperInv, helperVars, editVars
<1>3. CASE update
  BY <1>3 DEF update, HelperInv, helperVars, editVars
<1>4. CASE loadProjectFiles
  BY <1>4 DEF loadProjectFiles, HelperInv, helperVars, editVars
<1>5. CASE \E t \in Touches : DebouncedTouch(t)
  BY <1>5 DEF DebouncedTouch, HelperInv, helperVars, editVars
<1>6. CASE \E p \in Procs : addProject(p)
  BY <1>6 DEF addProject, HelperInv, helperVars, editVars
<1>7. CASE \E p \in Procs : AskForList(p)
  BY <1>7 DEF AskForList, HelperInv, helperVars, editVars
<1>8. CASE \E p \in Procs : TakeCached(p)
  BY <1>8 DEF TakeCached, HelperInv, helperVars, editVars
<1>9. CASE \E p \in Procs : saveWorkspace(p)
  <2>1. PICK p \in Procs : saveWorkspace(p)
    BY <1>9
  <2>2. UNCHANGED <<disk, mem, hidden, moved, disturbed>>
    BY <2>1 DEF saveWorkspace, helperVars
  <2>3. p \notin Edits => holder' = holder
    BY <2>1 DEF saveWorkspace, Leave
  <2>4. p \in Edits => holder = p /\ (p \in disturbed \/ p \in disk.edits)
    BY <2>1 DEF saveWorkspace, MutexInv, EditInv, Reaches, Saved
  <2> QED BY <2>2, <2>3, <2>4 DEF HelperInv
<1>10. CASE \E e \in Edits : StartEdit(e)
  BY <1>10, Kinds, Values DEF StartEdit, TypeOK, HelperInv, helperVars
<1>11. CASE \E e \in Edits : EndUnedited(e)
  BY <1>11 DEF EndUnedited, MutexInv, HelperInv, helperVars
<1>12. CASE \E e \in Edits : Slept(e)
  BY <1>12 DEF Slept, HelperInv, helperVars, editVars
<1>13. CASE \E p \in Procs : Serve(p)
  BY <1>13 DEF Serve, HelperInv, editVars
<1>14. CASE \E p \in Procs : AnswerList(p)
  BY <1>14 DEF AnswerList, HelperInv, editVars
<1>15. CASE \E p \in Procs : AnswerError(p)
  <2>1. PICK p \in Procs : AnswerError(p)
    BY <1>15
  <2>2. UNCHANGED <<disk, hidden, moved>> /\ disturbed' = disturbed \cup ({p} \cap Edits)
    BY <2>1 DEF AnswerError
  <2>3. p \in Edits => holder = p
    BY <2>1, Kinds DEF AnswerError, MutexInv, Requesting
  <2>4. p \notin Edits => holder' = holder
    BY <2>1 DEF AnswerError, Rejected, GoesOn, GivesUp, Leave
  <2>5. \/ UNCHANGED mem
        \/ p \in Edits /\ mem'.edits = mem.edits \cup {p} /\ mem'.version = mem.version
    <3>1. mem \in Project
      BY <2>1, Kinds DEF AnswerError, TypeOK, MutexInv
    <3> QED BY <2>1, <3>1 DEF AnswerError, MutexInv, Project
  <2>6. mem # None
    BY <2>1, Kinds DEF AnswerError, MutexInv
  <2> QED BY <2>2, <2>3, <2>4, <2>5, <2>6 DEF HelperInv
<1>16. CASE \E e \in Edits : AnswerEdit(e)
  BY <1>16, Kinds DEF AnswerEdit, MutexInv, HelperInv, editVars
<1>17. CASE \E e \in Edits : AnswerSave(e)
  BY <1>17 DEF AnswerSave, HelperInv
<1>18. CASE HelperDies
  BY <1>18 DEF HelperDies, HelperInv
<1>19. CASE UNCHANGED vars
  BY <1>19 DEF vars, HelperInv, helperVars, editVars
<1> QED BY <1>1, <1>2, <1>3, <1>4, <1>5, <1>6, <1>7, <1>8, <1>9, <1>10, <1>11, <1>12,
           <1>13, <1>14, <1>15, <1>16, <1>17, <1>18, <1>19 DEF Next

\* An undisturbed edit comes to the file.
LEMMA EditStep ==
  ASSUME TypeOK, MutexInv, HelperInv, EditInv, [Next]_vars
  PROVE  EditInv'
<1>1. CASE ForeignChange
  BY <1>1 DEF ForeignChange, MutexInv, EditInv, Reaches
<1>2. CASE touchWithoutNotify
  BY <1>2 DEF touchWithoutNotify, EditInv, Reaches, helperVars, editVars
<1>3. CASE update
  BY <1>3 DEF update, EditInv, Reaches, helperVars, editVars
<1>4. CASE loadProjectFiles
  BY <1>4, Kinds DEF loadProjectFiles, EditInv, Reaches, helperVars, editVars, Goto,
     Generate
<1>5. CASE \E t \in Touches : DebouncedTouch(t)
  BY <1>5, ProcessesAssumption DEF DebouncedTouch, EditInv, Reaches, helperVars, editVars,
     Goto, Generate
<1>6. CASE \E p \in Procs : addProject(p)
  BY <1>6 DEF addProject, EditInv, Reaches, helperVars, editVars
<1>7. CASE \E p \in Procs : AskForList(p)
  BY <1>7 DEF AskForList, EditInv, Reaches, Saved, helperVars, editVars, Goto
<1>8. CASE \E p \in Procs : TakeCached(p)
  <2>1. PICK p \in Procs : TakeCached(p)
    BY <1>8
  <2>2. \/ at' = [at EXCEPT ![p] = "writing"] /\ at[p] = "reading"
        \/ at' = [at EXCEPT ![p] = "editing"]
    BY <2>1 DEF TakeCached, Goto
  <2>3. serving # p
    BY <2>1, Kinds DEF TakeCached, MutexInv, Requesting
  <2>4. UNCHANGED <<disk, mem, moved, serving, disturbed>>
    BY <2>1 DEF TakeCached, helperVars, editVars
  <2>5. \A e \in Edits : e # p => at'[e] = at[e]
    BY <2>2, Kinds DEF TypeOK
  <2>6. \A e \in Edits : e = p /\ Reaches(e) => Reaches(e)'
    BY <2>2, <2>3, <2>4 DEF Reaches, Saved, TypeOK
  <2>7. \A e \in Edits : e # p /\ Reaches(e) => Reaches(e)'
    BY <2>4, <2>5 DEF Reaches
  <2> QED BY <2>4, <2>6, <2>7 DEF EditInv
<1>9. CASE \E p \in Procs : saveWorkspace(p)
  BY <1>9 DEF saveWorkspace, EditInv, Reaches, Saved, helperVars, Goto, Leave
<1>10. CASE \E e \in Edits : StartEdit(e)
  BY <1>10 DEF StartEdit, EditInv, Reaches, Saved, helperVars, Goto
<1>11. CASE \E e \in Edits : EndUnedited(e)
  BY <1>11 DEF EndUnedited, EditInv, Reaches, helperVars, Goto, Leave
<1>12. CASE \E e \in Edits : Slept(e)
  BY <1>12 DEF Slept, EditInv, Reaches, Saved, helperVars, editVars, Goto, Generate
<1>13. CASE \E p \in Procs : Serve(p)
  BY <1>13 DEF Serve, EditInv, Reaches, editVars
<1>14. CASE \E p \in Procs : AnswerList(p)
  BY <1>14, Kinds DEF AnswerList, TypeOK, EditInv, Reaches, Saved, editVars, Goto, Listing
<1>15. CASE \E p \in Procs : AnswerError(p)
  BY <1>15, Kinds DEF AnswerError, TypeOK, MutexInv, EditInv, Reaches, Goto, Rejected,
     GoesOn, GivesUp, Leave
<1>16. CASE \E e \in Edits : AnswerEdit(e)
  <2>1. PICK e \in Edits : AnswerEdit(e)
    BY <1>16
  <2>2. mem \in Project
    BY <2>1, Kinds DEF AnswerEdit, TypeOK, MutexInv
  <2>3. mem' \in Project /\ mem'.edits = mem.edits \cup {e}
    BY <2>1, <2>2 DEF AnswerEdit, Project
  <2>4. UNCHANGED <<disk, moved, disturbed>> /\ serving = e /\ serving' = Free /\ at[e] = "editing"
    BY <2>1 DEF AnswerEdit, editVars
  <2>5. at' = [at EXCEPT ![e] = "saving"] \/ at' = [at EXCEPT ![e] = "storing"]
    BY <2>1 DEF AnswerEdit, Goto
  <2> QED BY <2>2, <2>3, <2>4, <2>5, Kinds DEF EditInv, Reaches, Saved, TypeOK
<1>17. CASE \E e \in Edits : AnswerSave(e)
  BY <1>17, Kinds DEF AnswerSave, TypeOK, MutexInv, HelperInv, EditInv, Reaches, Goto, Leave
<1>18. CASE HelperDies
  <2>1. \A e \in Edits \ disturbed' : e # holder /\ at[e] \in {"out", "done"} /\ e \notin disturbed
    BY <1>18 DEF HelperDies, MutexInv
  <2>2. disk.edits \subseteq disk'.edits
    <3>1. CASE UNCHANGED disk
      BY <3>1
    <3>2. CASE serving \in Edits /\ disk' = [mem EXCEPT !.version = disk.version + 1]
      <4>1. mem \in Project /\ mem # None
        BY <3>2, Kinds DEF TypeOK, MutexInv
      <4>2. disk'.edits = mem.edits
        BY <3>2, <4>1
      <4> QED BY <4>1, <4>2 DEF HelperInv
    <3> QED BY <1>18, <3>1, <3>2 DEF HelperDies
  <2>3. \A e \in Edits \ disturbed' : at'[e] = at[e]
    <3>1. CASE serving = Free
      BY <1>18, <3>1 DEF HelperDies
    <3>2. CASE serving # Free
      <4>1. Rejected(serving) /\ serving \in Procs
        BY <1>18, <3>2 DEF HelperDies, TypeOK
      <4>2. Requesting(serving)
        BY <3>2 DEF MutexInv
      <4>3. \A e \in Edits \ disturbed' : e # serving
        BY <2>1, <4>2 DEF Requesting
      <4>4. \E place \in Places : at' = [at EXCEPT ![serving] = place]
        BY <4>1, Values DEF Rejected, GoesOn, GivesUp, Leave, Goto
      <4> QED BY <4>1, <4>3, <4>4
    <3> QED BY <3>1, <3>2
  <2> QED BY <2>1, <2>2, <2>3 DEF EditInv, Reaches
<1>19. CASE UNCHANGED vars
  BY <1>19 DEF vars, EditInv, Reaches, helperVars, editVars
<1> QED BY <1>1, <1>2, <1>3, <1>4, <1>5, <1>6, <1>7, <1>8, <1>9, <1>10, <1>11, <1>12,
           <1>13, <1>14, <1>15, <1>16, <1>17, <1>18, <1>19 DEF Next

\* Who has no watcher has news.
LEMMA ObservedStep ==
  ASSUME TypeOK, MutexInv, NewsInv, [Next]_vars
  PROVE  observed' \/ changed'
<1>1. CASE ForeignChange
  BY <1>1 DEF ForeignChange, NewsInv
<1>2. CASE touchWithoutNotify
  BY <1>2 DEF touchWithoutNotify, NewsInv
<1>3. CASE update
  BY <1>3 DEF update, NewsInv
<1>4. CASE loadProjectFiles
  BY <1>4 DEF loadProjectFiles
<1>5. CASE \E t \in Touches : DebouncedTouch(t)
  BY <1>5 DEF DebouncedTouch, NewsInv
<1>6. CASE \E p \in Procs : addProject(p)
  BY <1>6 DEF addProject
<1>7. CASE \E p \in Procs : AskForList(p)
  BY <1>7 DEF AskForList
<1>8. CASE \E p \in Procs : TakeCached(p)
  BY <1>8 DEF TakeCached, NewsInv, watchVars
<1>9. CASE \E p \in Procs : saveWorkspace(p)
  BY <1>9 DEF saveWorkspace, NewsInv, watchVars
<1>10. CASE \E e \in Edits : StartEdit(e)
  BY <1>10 DEF StartEdit, NewsInv, watchVars
<1>11. CASE \E e \in Edits : EndUnedited(e)
  BY <1>11 DEF EndUnedited, NewsInv, watchVars
<1>12. CASE \E e \in Edits : Slept(e)
  BY <1>12 DEF Slept, NewsInv, watchVars
<1>13. CASE \E p \in Procs : Serve(p)
  BY <1>13 DEF Serve, NewsInv, watchVars
<1>14. CASE \E p \in Procs : AnswerList(p)
  BY <1>14 DEF AnswerList, NewsInv, watchVars
<1>15. CASE \E p \in Procs : AnswerError(p)
  BY <1>15 DEF AnswerError, NewsInv, watchVars
<1>16. CASE \E e \in Edits : AnswerEdit(e)
  BY <1>16 DEF AnswerEdit, NewsInv, watchVars
<1>17. CASE \E e \in Edits : AnswerSave(e)
  BY <1>17 DEF AnswerSave, NewsInv
<1>18. CASE HelperDies
  BY <1>18 DEF HelperDies, NewsInv
<1>19. CASE UNCHANGED vars
  BY <1>19 DEF vars, NewsInv, watchVars
<1> QED BY <1>1, <1>2, <1>3, <1>4, <1>5, <1>6, <1>7, <1>8, <1>9, <1>10, <1>11, <1>12,
           <1>13, <1>14, <1>15, <1>16, <1>17, <1>18, <1>19 DEF Next

\* What the list lacks is known to someone.
LEMMA ListStep ==
  ASSUME TypeOK, MutexInv, HelperInv, NewsInv, [Next]_vars
  PROVE  cache' < disk'.version => News' \/ \E p \in Procs : Listing(p)'
<1>1. CASE ForeignChange
  BY <1>1 DEF ForeignChange, NewsInv, News, Changes
<1>2. CASE touchWithoutNotify
  BY <1>2 DEF touchWithoutNotify, NewsInv, News, Listing, listVars, Changes
<1>3. CASE update
  BY <1>3 DEF update, TypeOK, NewsInv, News, Listing
<1>4. CASE loadProjectFiles
  BY <1>4 DEF loadProjectFiles, News
<1>5. CASE \E t \in Touches : DebouncedTouch(t)
  BY <1>5 DEF DebouncedTouch, NewsInv, News, Listing, listVars, Goto, Generate
<1>6. CASE \E p \in Procs : addProject(p)
  BY <1>6 DEF addProject, NewsInv, News, Listing
<1>7. CASE \E p \in Procs : AskForList(p)
  BY <1>7 DEF AskForList, TypeOK, Listing, Goto
<1>8. CASE \E p \in Procs : TakeCached(p)
  BY <1>8 DEF TakeCached, TypeOK, NewsInv, News, Listing, listVars, watchVars, Goto
<1>9. CASE \E p \in Procs : saveWorkspace(p)
  BY <1>9 DEF saveWorkspace, NewsInv, News, Listing, listVars, watchVars, Goto, Leave
<1>10. CASE \E e \in Edits : StartEdit(e)
  BY <1>10 DEF StartEdit, NewsInv, News, Listing, listVars, watchVars, Goto
<1>11. CASE \E e \in Edits : EndUnedited(e)
  BY <1>11 DEF EndUnedited, NewsInv, News, Listing, listVars, watchVars, Goto, Leave
<1>12. CASE \E e \in Edits : Slept(e)
  BY <1>12 DEF Slept, NewsInv, News, Listing, listVars, watchVars, Goto, Generate
<1>13. CASE \E p \in Procs : Serve(p)
  BY <1>13 DEF Serve, NewsInv, News, Listing, listVars, watchVars
<1>14. CASE \E p \in Procs : AnswerList(p)
  <2>1. PICK p \in Procs : AnswerList(p)
    BY <1>14
  <2>2. disk' = disk /\ cache' = mem.version /\ serving = p /\ serving # Free
    BY <2>1, Kinds DEF AnswerList
  <2>3. News => News'
    BY <2>1 DEF AnswerList, watchVars, News
  <2>4. hidden => News'
    BY <2>1 DEF AnswerList, News
  <2>5. \A q \in Procs \ {p} : Listing(q) => Listing(q)'
    BY <2>1 DEF AnswerList, Goto, Listing, TypeOK
  <2>6. mem \in Project /\ mem # None /\ mem.version \in Nat /\ disk.version \in Nat
    BY <2>2, Values DEF TypeOK, MutexInv
  <2>7. CASE hidden
    BY <2>4, <2>7
  <2>8. CASE moved
    BY <2>2, <2>3, <2>5, <2>8 DEF NewsInv
  <2>9. CASE ~hidden /\ ~moved
    BY <2>2, <2>6, <2>9 DEF HelperInv
  <2> QED BY <2>7, <2>8, <2>9
<1>15. CASE \E p \in Procs : AnswerError(p)
  BY <1>15 DEF AnswerError, TypeOK, NewsInv, News, Listing, watchVars, Goto, Rejected,
     GoesOn, GivesUp, Leave
<1>16. CASE \E e \in Edits : AnswerEdit(e)
  BY <1>16 DEF AnswerEdit, TypeOK, NewsInv, News, Listing, listVars, watchVars, Goto
<1>17. CASE \E e \in Edits : AnswerSave(e)
  BY <1>17 DEF AnswerSave, NewsInv, News, Changes
<1>18. CASE HelperDies
  BY <1>18 DEF HelperDies, TypeOK, NewsInv, News, Listing, Changes, Goto, Rejected, GoesOn,
     GivesUp, Leave
<1>19. CASE UNCHANGED vars
  BY <1>19 DEF vars, NewsInv, News, Listing, listVars, watchVars
<1> QED BY <1>1, <1>2, <1>3, <1>4, <1>5, <1>6, <1>7, <1>8, <1>9, <1>10, <1>11, <1>12,
           <1>13, <1>14, <1>15, <1>16, <1>17, <1>18, <1>19 DEF Next

\* What a request lacks is known to another.
LEMMA MovedStep ==
  ASSUME TypeOK, MutexInv, HelperInv, NewsInv, [Next]_vars
  PROVE  serving' # Free /\ moved' => News' \/ \E p \in Procs \ {serving'} : Listing(p)'
<1>1. CASE ForeignChange
  BY <1>1 DEF ForeignChange, NewsInv, News, Changes
<1>2. CASE touchWithoutNotify
  BY <1>2 DEF touchWithoutNotify, NewsInv, News, Listing, helperVars, listVars, Changes
<1>3. CASE update
  BY <1>3 DEF update, TypeOK, NewsInv, News, Listing, helperVars
<1>4. CASE loadProjectFiles
  BY <1>4 DEF loadProjectFiles, News
<1>5. CASE \E t \in Touches : DebouncedTouch(t)
  BY <1>5 DEF DebouncedTouch, NewsInv, News, Listing, helperVars, listVars, Goto, Generate
<1>6. CASE \E p \in Procs : addProject(p)
  BY <1>6 DEF addProject, NewsInv, News, Listing, helperVars
<1>7. CASE \E p \in Procs : AskForList(p)
  BY <1>7 DEF AskForList, TypeOK, MutexInv, Listing, Requesting, helperVars, Goto
<1>8. CASE \E p \in Procs : TakeCached(p)
  BY <1>8 DEF TakeCached, TypeOK, NewsInv, News, Listing, helperVars, listVars, watchVars,
     Goto
<1>9. CASE \E p \in Procs : saveWorkspace(p)
  BY <1>9 DEF saveWorkspace, NewsInv, News, Listing, helperVars, listVars, watchVars, Goto,
     Leave
<1>10. CASE \E e \in Edits : StartEdit(e)
  BY <1>10 DEF StartEdit, NewsInv, News, Listing, helperVars, listVars, watchVars, Goto
<1>11. CASE \E e \in Edits : EndUnedited(e)
  BY <1>11 DEF EndUnedited, NewsInv, News, Listing, helperVars, listVars, watchVars, Goto,
     Leave
<1>12. CASE \E e \in Edits : Slept(e)
  BY <1>12 DEF Slept, NewsInv, News, Listing, helperVars, listVars, watchVars, Goto,
     Generate
<1>13. CASE \E p \in Procs : Serve(p)
  BY <1>13 DEF Serve
<1>14. CASE \E p \in Procs : AnswerList(p)
  BY <1>14 DEF AnswerList
<1>15. CASE \E p \in Procs : AnswerError(p)
  BY <1>15 DEF AnswerError, Rejected
<1>16. CASE \E e \in Edits : AnswerEdit(e)
  BY <1>16 DEF AnswerEdit
<1>17. CASE \E e \in Edits : AnswerSave(e)
  BY <1>17 DEF AnswerSave
<1>18. CASE HelperDies
  BY <1>18 DEF HelperDies
<1>19. CASE UNCHANGED vars
  BY <1>19 DEF vars, NewsInv, News, Listing, helperVars, listVars, watchVars
<1> QED BY <1>1, <1>2, <1>3, <1>4, <1>5, <1>6, <1>7, <1>8, <1>9, <1>10, <1>11, <1>12,
           <1>13, <1>14, <1>15, <1>16, <1>17, <1>18, <1>19 DEF Next

\* So what the list lacks does not go unnoticed.
LEMMA NewsStep ==
  ASSUME TypeOK, MutexInv, HelperInv, NewsInv, [Next]_vars
  PROVE  NewsInv'
  <1>1. cache' < disk'.version => News' \/ \E p \in Procs : Listing(p)'
    BY ListStep
  <1>2. serving' # Free /\ moved' => News' \/ \E p \in Procs \ {serving'} : Listing(p)'
    BY MovedStep
  <1> QED BY <1>1, <1>2, ObservedStep DEF NewsInv

\* At first nothing is loaded, and everything is news.
LEMMA Initially == Init => IInv
  <1> SUFFICES ASSUME Init
               PROVE  IInv
    OBVIOUS
  <1>1. TypeOK
    <2>1. disk \in Project /\ at \in [Procs -> Places] /\ draft \in [Procs -> Lists]
      BY Values DEF Init
    <2>2. spent \in [changes : 0 .. MaxChanges, troubles : 0 .. MaxTroubles]
      BY BoundsAssumption DEF Init
    <2> QED BY <2>1, <2>2, Values DEF Init, TypeOK
  <1>2. \A p \in Procs : at[p] = IF p = Loader THEN "reading" ELSE "out"
    BY DEF Init
  <1>3. MutexInv
    BY <1>2, Kinds DEF Init, MutexInv
  <1>4. HelperInv /\ NewsInv
    BY DEF Init, HelperInv, NewsInv, News
  <1>5. EditInv
    BY <1>2, Kinds DEF EditInv, Reaches, Saved
  <1> QED BY <1>1, <1>3, <1>4, <1>5 DEF IInv

\* The invariant is inductive.
LEMMA InductiveStep == IInv /\ [Next]_vars => IInv'
  <1> SUFFICES ASSUME IInv, [Next]_vars
               PROVE  IInv'
    OBVIOUS
  <1> USE DEF IInv
  <1>1. TypeOK'
    BY TypeStep
  <1>2. MutexInv'
    BY MutexStep
  <1>3. HelperInv'
    BY HelperStep
  <1>4. EditInv'
    BY EditStep
  <1>5. NewsInv'
    BY NewsStep
  <1> QED BY <1>1, <1>2, <1>3, <1>4, <1>5

\* Every state a run reaches satisfies the invariant.
THEOREM Invariance == Spec => []IInv
  BY Initially, InductiveStep, PTL DEF Spec

\* Every variable keeps to the values the program gives it.
THEOREM TypeCorrect == Spec => []TypeOK
  BY Invariance, PTL DEF IInv

\* A list that lacks a change of the file will be read again: the event is due,
\* the checker has news or the helper is asked, unless the news were dropped.
THEOREM ListsHaveCause == Spec => []StaleListHasCause
  <1>1. IInv => StaleListHasCause
    BY DEF IInv, NewsInv, News, StaleListHasCause
  <1> QED BY <1>1, Invariance, PTL

\* An operation that nothing disturbed leaves its edit in the file.
THEOREM EditsReachDisk == Spec => []EditReachesDisk
  <1>1. IInv => EditReachesDisk
    BY DEF IInv, EditInv, Reaches, Saved, EditReachesDisk
  <1> QED BY <1>1, Invariance, PTL

\* Which step writes the file: a foreign change, a save, or a save of a helper
\* that dies.
LEMMA Writers ==
  ASSUME IInv, [Next]_vars, disk' # disk
  PROVE  \/ ForeignChange
         \/ \E e \in Edits : AnswerSave(e)
         \/ /\ HelperDies /\ serving \in Edits
            /\ disk' = [mem EXCEPT !.version = disk.version + 1]
  <1>1. CASE \E e \in Edits : AnswerSave(e)
    BY <1>1
  <1>2. CASE HelperDies
    BY <1>2 DEF HelperDies
  <1>3. CASE ForeignChange
    BY <1>3
  <1>4. ASSUME \/ touchWithoutNotify \/ update \/ loadProjectFiles
               \/ \E t \in Touches : DebouncedTouch(t)
               \/ \E p \in Procs : \/ addProject(p) \/ AskForList(p) \/ TakeCached(p)
                                   \/ saveWorkspace(p)
        PROVE  FALSE
    BY <1>4 DEF touchWithoutNotify, update, loadProjectFiles, DebouncedTouch, addProject,
       AskForList, TakeCached, saveWorkspace
  <1>5. ASSUME \/ \E e \in Edits : StartEdit(e) \/ EndUnedited(e) \/ Slept(e) \/ AnswerEdit(e)
               \/ \E p \in Procs : Serve(p) \/ AnswerList(p) \/ AnswerError(p)
        PROVE  FALSE
    BY <1>5 DEF StartEdit, EndUnedited, Slept, AnswerEdit, Serve, AnswerList, AnswerError
  <1>6. CASE UNCHANGED vars
    BY <1>6 DEF vars
  <1> QED BY <1>1, <1>2, <1>3, <1>4, <1>5, <1>6 DEF Next

\* A save writes a project as new as the file, unless a change was made in place
\* or since the helper compared the times.
THEOREM NewerIsKept == Spec => NewerIsNotOverwritten
  <1>1. ASSUME IInv, [Next]_vars
        PROVE  disk' # disk /\ spent'.changes = spent.changes =>
                  mem.version = disk.version \/ hidden \/ moved
    <2> SUFFICES ASSUME disk' # disk, spent'.changes = spent.changes
                 PROVE  mem.version = disk.version \/ hidden \/ moved
      OBVIOUS
    <2>1. ~ForeignChange
      <3>1. spent.changes \in Nat
        BY <1>1 DEF IInv, TypeOK
      <3>2. ForeignChange => spent'.changes = spent.changes + 1
        BY <1>1 DEF ForeignChange
      <3> QED BY <3>1, <3>2
    <2>2. serving \in Edits
      BY <1>1, <2>1, Writers DEF AnswerSave
    <2>3. mem # None
      BY <1>1, <2>2, Kinds DEF IInv, MutexInv
    <2> QED BY <1>1, <2>3 DEF IInv, HelperInv
  <1> QED BY <1>1, Invariance, PTL DEF Spec, NewerIsNotOverwritten

\* What a save adds to the file is the edit of its operation, or one that was
\* left in the helper's memory by an operation that failed.
THEOREM OwnEditsSaved == Spec => SavesOwnEdits
  <1>1. ASSUME IInv, [Next]_vars
        PROVE  \A e \in disk'.edits \ disk.edits : e = holder \/ e \in disturbed
    <2> SUFFICES ASSUME NEW e \in disk'.edits \ disk.edits
                 PROVE  e = holder \/ e \in disturbed
      OBVIOUS
    <2>1. disk' # disk
      OBVIOUS
    <2>2. ~ForeignChange
      BY <1>1 DEF ForeignChange, IInv, TypeOK, Project
    <2>3. serving \in Edits /\ disk' = [mem EXCEPT !.version = disk.version + 1]
      BY <1>1, <2>1, <2>2, Writers DEF AnswerSave
    <2>4. mem \in Project /\ mem # None
      BY <1>1, <2>3, Kinds DEF IInv, TypeOK, MutexInv
    <2>5. e \in mem.edits \ disk.edits
      BY <2>3, <2>4
    <2> QED BY <1>1, <2>4, <2>5 DEF IInv, HelperInv
  <1> QED BY <1>1, Invariance, PTL DEF Spec, SavesOwnEdits

-----------------------------------------------------------------------------
(* The workspace *)

\* The loader works until the project is known, and who watches gets the events.
LoaderInv ==
    /\ ~known => at[Loader] = "reading"
    /\ watcher => observed

\* Generations that overlap know it.
CrossInv ==
    \A p, q \in Procs : {p, q} \subseteq Generating /\ p # q => p \in crossed

\* The workspace will be generated again, though nobody is at it.
Ahead ==
    \/ "foreign" \in settling \/ "save" \in settling
    \/ armed \/ ~watcher \/ unread
    \/ \E e \in Edits : at[e] \in {"saving", "sleeping"}

\* A generation that nothing came across has the project as it is, or is not the
\* last.
DraftInv ==
    \A p \in Procs \ crossed :
        /\ at[p] = "writing" /\ draft[p] < disk.version => Ahead
        /\ at[p] = "listing" /\ serving = p /\ mem.version < disk.version => Ahead \/ hidden

\* The same of the file.
WorkInv == workspace < disk.version => Ahead \/ Generating # {} \/ spoiled

WInv == LoaderInv /\ CrossInv /\ DraftInv /\ WorkInv

\* The loader is at work until it has the project, which is when it is watched.
LEMMA LoaderStep ==
  ASSUME TypeOK, MutexInv, LoaderInv, [Next]_vars
  PROVE  LoaderInv'
<1>1. CASE ForeignChange
  BY <1>1 DEF ForeignChange, LoaderInv, listVars
<1>2. CASE touchWithoutNotify
  BY <1>2 DEF touchWithoutNotify, LoaderInv, listVars
<1>3. CASE update
  BY <1>3 DEF update, LoaderInv
<1>4. CASE loadProjectFiles
  BY <1>4, Kinds DEF loadProjectFiles, Goto, Generate, LoaderInv, TypeOK
<1>5. CASE \E t \in Touches : DebouncedTouch(t)
  BY <1>5 DEF DebouncedTouch, Goto, Generate, LoaderInv, listVars
<1>6. CASE \E p \in Procs : addProject(p)
  BY <1>6 DEF addProject, LoaderInv
<1>7. CASE \E p \in Procs : AskForList(p)
  BY <1>7 DEF AskForList, Goto, LoaderInv, listVars
<1>8. CASE \E p \in Procs : TakeCached(p)
  BY <1>8, Kinds DEF TakeCached, Goto, LoaderInv, TypeOK, watchVars, listVars
<1>9. CASE \E p \in Procs : saveWorkspace(p)
  BY <1>9 DEF saveWorkspace, Goto, Leave, LoaderInv, watchVars, listVars
<1>10. CASE \E e \in Edits : StartEdit(e)
  BY <1>10 DEF StartEdit, LoaderInv, watchVars, listVars
<1>11. CASE \E e \in Edits : EndUnedited(e)
  BY <1>11 DEF EndUnedited, Goto, Leave, LoaderInv, watchVars, listVars
<1>12. CASE \E e \in Edits : Slept(e)
  BY <1>12 DEF Slept, Goto, Generate, LoaderInv, watchVars, listVars
<1>13. CASE \E p \in Procs : Serve(p)
  BY <1>13 DEF Serve, LoaderInv, watchVars, listVars
<1>14. CASE \E p \in Procs : AnswerList(p)
  BY <1>14 DEF AnswerList, LoaderInv, watchVars
<1>15. CASE \E p \in Procs : AnswerError(p)
  BY <1>15, Kinds DEF AnswerError, Goto, Leave, Rejected, GoesOn, GivesUp, LoaderInv,
     TypeOK, MutexInv, Requesting, watchVars
<1>16. CASE \E e \in Edits : AnswerEdit(e)
  BY <1>16, Kinds DEF AnswerEdit, Goto, LoaderInv, TypeOK, watchVars, listVars
<1>17. CASE \E e \in Edits : AnswerSave(e)
  BY <1>17, Kinds DEF AnswerSave, Goto, Leave, LoaderInv, TypeOK, listVars
<1>18. CASE HelperDies
  BY <1>18, Kinds DEF HelperDies, Goto, Leave, Rejected, GoesOn, GivesUp, LoaderInv, TypeOK,
     MutexInv, Requesting
<1>19. CASE UNCHANGED vars
  BY <1>19 DEF vars, watchVars, listVars, LoaderInv, watchVars, listVars
<1> QED BY <1>1, <1>2, <1>3, <1>4, <1>5, <1>6, <1>7, <1>8, <1>9, <1>10, <1>11, <1>12,
           <1>13, <1>14, <1>15, <1>16, <1>17, <1>18, <1>19 DEF Next

\* Who begins while another generates notes it for both.
LEMMA CrossStep ==
  ASSUME TypeOK, MutexInv, CrossInv, [Next]_vars
  PROVE  CrossInv'
<1>1. CASE ForeignChange
  BY <1>1 DEF ForeignChange, CrossInv, Generating, outVars
<1>2. CASE touchWithoutNotify
  BY <1>2 DEF touchWithoutNotify, CrossInv, Generating, outVars
<1>3. CASE update
  BY <1>3 DEF update, CrossInv, Generating
<1>4. CASE loadProjectFiles
  BY <1>4 DEF loadProjectFiles, Goto, Generate, CrossInv, Generating
<1>5. CASE \E t \in Touches : DebouncedTouch(t)
  BY <1>5 DEF DebouncedTouch, Goto, Generate, CrossInv, Generating
<1>6. CASE \E p \in Procs : addProject(p)
  BY <1>6 DEF addProject, CrossInv, Generating, outVars
<1>7. CASE \E p \in Procs : AskForList(p)
  BY <1>7 DEF AskForList, Goto, CrossInv, Generating, outVars
<1>8. CASE \E p \in Procs : TakeCached(p)
  BY <1>8 DEF TakeCached, Goto, CrossInv, Generating, TypeOK
<1>9. CASE \E p \in Procs : saveWorkspace(p)
  BY <1>9 DEF saveWorkspace, Goto, Leave, CrossInv, Generating, TypeOK
<1>10. CASE \E e \in Edits : StartEdit(e)
  BY <1>10 DEF StartEdit, Goto, CrossInv, Generating, outVars
<1>11. CASE \E e \in Edits : EndUnedited(e)
  BY <1>11 DEF EndUnedited, Goto, Leave, CrossInv, Generating, outVars
<1>12. CASE \E e \in Edits : Slept(e)
  BY <1>12 DEF Slept, Goto, Generate, CrossInv, Generating
<1>13. CASE \E p \in Procs : Serve(p)
  BY <1>13 DEF Serve, CrossInv, Generating, outVars
<1>14. CASE \E p \in Procs : AnswerList(p)
  BY <1>14 DEF AnswerList, Goto, Listing, CrossInv, Generating, TypeOK
<1>15. CASE \E p \in Procs : AnswerError(p)
  BY <1>15, Kinds DEF AnswerError, Goto, Leave, Rejected, GoesOn, GivesUp, CrossInv,
     Generating, TypeOK, MutexInv, Requesting
<1>16. CASE \E e \in Edits : AnswerEdit(e)
  BY <1>16 DEF AnswerEdit, Goto, CrossInv, Generating, TypeOK, outVars
<1>17. CASE \E e \in Edits : AnswerSave(e)
  BY <1>17 DEF AnswerSave, Goto, Leave, CrossInv, Generating, TypeOK, outVars
<1>18. CASE HelperDies
  BY <1>18, Kinds DEF HelperDies, Goto, Leave, Rejected, GoesOn, GivesUp, CrossInv,
     Generating, TypeOK, MutexInv, Requesting
<1>19. CASE UNCHANGED vars
  BY <1>19 DEF vars, outVars, CrossInv, Generating, outVars
<1> QED BY <1>1, <1>2, <1>3, <1>4, <1>5, <1>6, <1>7, <1>8, <1>9, <1>10, <1>11, <1>12,
           <1>13, <1>14, <1>15, <1>16, <1>17, <1>18, <1>19 DEF Next

\* What is ahead stays ahead, or begins and comes across who generates.
LEMMA AheadStep ==
  ASSUME TypeOK, MutexInv, LoaderInv, CrossInv, [Next]_vars, Ahead
  PROVE  \/ Ahead'
         \/ /\ Generating' # {}
            /\ \A p \in Procs : at[p] \in {"listing", "writing"} => p \in crossed'
<1>1. CASE ForeignChange
  BY <1>1 DEF ForeignChange, Changes, Ahead, listVars
<1>2. CASE touchWithoutNotify
  BY <1>2 DEF touchWithoutNotify, Changes, Ahead, listVars
<1>3. CASE update
  <2>1. at' = at /\ Generating' = Generating /\ watcher' = watcher
    BY <1>3 DEF update, Generating
  <2>2. CASE skipNextNotify
    BY <1>3, <2>1, <2>2 DEF update, Ahead, TypeOK
  <2>3. CASE ~skipNextNotify
    <3>1. \A p \in Procs : at[p] \in {"listing", "writing"} => p \in crossed'
      BY <1>3, <2>3 DEF update, Generating
    <3>2. armed' \/ ~watcher \/ isSavingProjects
      BY <1>3, <2>3 DEF update
    <3>3. isSavingProjects => Ahead' \/ Generating' # {}
      BY <2>1, Kinds DEF isSavingProjects, Ahead, Generating
    <3> QED BY <2>1, <3>1, <3>2, <3>3 DEF Ahead
  <2> QED BY <2>2, <2>3
<1>4. CASE loadProjectFiles
  BY <1>4 DEF loadProjectFiles, Ahead
<1>5. CASE \E t \in Touches : DebouncedTouch(t)
  BY <1>5, Kinds DEF DebouncedTouch, Goto, Generate, Generating, TypeOK
<1>6. CASE \E p \in Procs : addProject(p)
  <2>1. at[Loader] = "reading" /\ at' = at /\ crossed' = crossed
    BY <1>6 DEF addProject, LoaderInv, outVars
  <2>2. Loader \in Generating /\ Generating' = Generating
    BY <2>1, Kinds DEF Generating
  <2> QED BY <2>1, <2>2, Kinds DEF CrossInv, Generating
<1>7. CASE \E p \in Procs : AskForList(p)
  BY <1>7 DEF AskForList, Goto, Ahead, listVars
<1>8. CASE \E p \in Procs : TakeCached(p)
  BY <1>8, Kinds DEF TakeCached, Goto, Ahead, TypeOK, watchVars, listVars
<1>9. CASE \E p \in Procs : saveWorkspace(p)
  BY <1>9 DEF saveWorkspace, Goto, Leave, Ahead, watchVars, listVars
<1>10. CASE \E e \in Edits : StartEdit(e)
  BY <1>10 DEF StartEdit, Goto, Ahead, watchVars, listVars
<1>11. CASE \E e \in Edits : EndUnedited(e)
  BY <1>11 DEF EndUnedited, Goto, Leave, Ahead, watchVars, listVars
<1>12. CASE \E e \in Edits : Slept(e)
  BY <1>12 DEF Slept, Goto, Generate, Ahead, Generating, TypeOK
<1>13. CASE \E p \in Procs : Serve(p)
  BY <1>13 DEF Serve, Ahead, watchVars, listVars
<1>14. CASE \E p \in Procs : AnswerList(p)
  BY <1>14, Kinds DEF AnswerList, Goto, Listing, Ahead, TypeOK, watchVars
<1>15. CASE \E p \in Procs : AnswerError(p)
  BY <1>15, Kinds DEF AnswerError, Goto, Leave, Rejected, GoesOn, GivesUp, Ahead, TypeOK,
     MutexInv, Requesting, watchVars
<1>16. CASE \E e \in Edits : AnswerEdit(e)
  BY <1>16 DEF AnswerEdit, Ahead, MutexInv, watchVars, listVars
<1>17. CASE \E e \in Edits : AnswerSave(e)
  BY <1>17 DEF AnswerSave, Goto, Changes, Ahead, TypeOK, MutexInv, listVars
<1>18. CASE HelperDies
  BY <1>18, Kinds DEF HelperDies, Goto, Leave, Rejected, GoesOn, GivesUp, Changes, Ahead,
     TypeOK, MutexInv, Requesting
<1>19. CASE UNCHANGED vars
  BY <1>19 DEF vars, watchVars, listVars, Ahead, watchVars, listVars
<1> QED BY <1>1, <1>2, <1>3, <1>4, <1>5, <1>6, <1>7, <1>8, <1>9, <1>10, <1>11, <1>12,
           <1>13, <1>14, <1>15, <1>16, <1>17, <1>18, <1>19 DEF Next

\* A change of the file will be noticed by the watcher, if there is one.
LEMMA DiskStep ==
  ASSUME LoaderInv, [Next]_vars
  PROVE  disk' = disk \/ Ahead'
<1>1. CASE ForeignChange
  BY <1>1 DEF ForeignChange, Changes, Ahead, LoaderInv
<1>2. CASE touchWithoutNotify
  BY <1>2 DEF touchWithoutNotify
<1>3. CASE update
  BY <1>3 DEF update
<1>4. CASE loadProjectFiles
  BY <1>4 DEF loadProjectFiles
<1>5. CASE \E t \in Touches : DebouncedTouch(t)
  BY <1>5 DEF DebouncedTouch
<1>6. CASE \E p \in Procs : addProject(p)
  BY <1>6 DEF addProject
<1>7. CASE \E p \in Procs : AskForList(p)
  BY <1>7 DEF AskForList
<1>8. CASE \E p \in Procs : TakeCached(p)
  BY <1>8 DEF TakeCached
<1>9. CASE \E p \in Procs : saveWorkspace(p)
  BY <1>9 DEF saveWorkspace
<1>10. CASE \E e \in Edits : StartEdit(e)
  BY <1>10 DEF StartEdit
<1>11. CASE \E e \in Edits : EndUnedited(e)
  BY <1>11 DEF EndUnedited
<1>12. CASE \E e \in Edits : Slept(e)
  BY <1>12 DEF Slept
<1>13. CASE \E p \in Procs : Serve(p)
  BY <1>13 DEF Serve
<1>14. CASE \E p \in Procs : AnswerList(p)
  BY <1>14 DEF AnswerList
<1>15. CASE \E p \in Procs : AnswerError(p)
  BY <1>15 DEF AnswerError
<1>16. CASE \E e \in Edits : AnswerEdit(e)
  BY <1>16 DEF AnswerEdit
<1>17. CASE \E e \in Edits : AnswerSave(e)
  BY <1>17 DEF AnswerSave, Changes, Ahead, LoaderInv
<1>18. CASE HelperDies
  BY <1>18 DEF HelperDies, Changes, Ahead, LoaderInv
<1>19. CASE UNCHANGED vars
  BY <1>19 DEF vars
<1> QED BY <1>1, <1>2, <1>3, <1>4, <1>5, <1>6, <1>7, <1>8, <1>9, <1>10, <1>11, <1>12,
           <1>13, <1>14, <1>15, <1>16, <1>17, <1>18, <1>19 DEF Next

\* Who has a draft had it before, unless it takes one now.
LEMMA DraftKept ==
  ASSUME TypeOK, MutexInv, [Next]_vars, NEW q \in Procs, at'[q] = "writing", q \notin crossed'
  PROVE  \/ at[q] = "writing" /\ draft'[q] = draft[q] /\ q \notin crossed
         \/ AnswerList(q) \/ TakeCached(q)
<1>1. CASE ForeignChange
  BY <1>1 DEF ForeignChange, outVars
<1>2. CASE touchWithoutNotify
  BY <1>2 DEF touchWithoutNotify, outVars
<1>3. CASE update
  BY <1>3 DEF update
<1>4. CASE loadProjectFiles
  BY <1>4 DEF loadProjectFiles, Goto, Generate
<1>5. CASE \E t \in Touches : DebouncedTouch(t)
  BY <1>5 DEF DebouncedTouch, Goto, Generate
<1>6. CASE \E p \in Procs : addProject(p)
  BY <1>6 DEF addProject, outVars
<1>7. CASE \E p \in Procs : AskForList(p)
  BY <1>7 DEF AskForList, Goto, outVars
<1>8. CASE \E p \in Procs : TakeCached(p)
  BY <1>8 DEF TakeCached, Goto, TypeOK
<1>9. CASE \E p \in Procs : saveWorkspace(p)
  BY <1>9 DEF saveWorkspace, Goto, Leave, TypeOK
<1>10. CASE \E e \in Edits : StartEdit(e)
  BY <1>10 DEF StartEdit, Goto, outVars
<1>11. CASE \E e \in Edits : EndUnedited(e)
  BY <1>11 DEF EndUnedited, Goto, Leave, outVars
<1>12. CASE \E e \in Edits : Slept(e)
  BY <1>12 DEF Slept, Goto, Generate
<1>13. CASE \E p \in Procs : Serve(p)
  BY <1>13 DEF Serve, outVars
<1>14. CASE \E p \in Procs : AnswerList(p)
  BY <1>14 DEF AnswerList, Goto, TypeOK
<1>15. CASE \E p \in Procs : AnswerError(p)
  BY <1>15 DEF AnswerError, Goto, Leave, Rejected, GoesOn, GivesUp, TypeOK
<1>16. CASE \E e \in Edits : AnswerEdit(e)
  BY <1>16 DEF AnswerEdit, Goto, TypeOK, outVars
<1>17. CASE \E e \in Edits : AnswerSave(e)
  BY <1>17 DEF AnswerSave, Goto, Leave, TypeOK, outVars
<1>18. CASE HelperDies
  BY <1>18 DEF HelperDies, Goto, Leave, Rejected, GoesOn, GivesUp, TypeOK
<1>19. CASE UNCHANGED vars
  BY <1>19 DEF vars, outVars, outVars
<1> QED BY <1>1, <1>2, <1>3, <1>4, <1>5, <1>6, <1>7, <1>8, <1>9, <1>10, <1>11, <1>12,
           <1>13, <1>14, <1>15, <1>16, <1>17, <1>18, <1>19 DEF Next

\* Whose list is asked for was asked for before, unless it is served now.
LEMMA ListingKept ==
  ASSUME TypeOK, MutexInv, [Next]_vars, NEW q \in Procs, at'[q] = "listing", serving' = q,
         q \notin crossed'
  PROVE  \/ /\ at[q] = "listing" /\ serving = q /\ mem' = mem /\ q \notin crossed
            /\ hidden => hidden'
         \/ Serve(q)
<1>1. CASE ForeignChange
  BY <1>1, Kinds DEF ForeignChange, MutexInv, outVars
<1>2. CASE touchWithoutNotify
  BY <1>2 DEF touchWithoutNotify, helperVars, outVars
<1>3. CASE update
  BY <1>3 DEF update, helperVars
<1>4. CASE loadProjectFiles
  BY <1>4 DEF loadProjectFiles, Goto, Generate, helperVars
<1>5. CASE \E t \in Touches : DebouncedTouch(t)
  BY <1>5 DEF DebouncedTouch, Goto, Generate, helperVars
<1>6. CASE \E p \in Procs : addProject(p)
  BY <1>6 DEF addProject, helperVars, outVars
<1>7. CASE \E p \in Procs : AskForList(p)
  BY <1>7, Kinds DEF AskForList, Goto, MutexInv, Requesting, helperVars, outVars
<1>8. CASE \E p \in Procs : TakeCached(p)
  BY <1>8 DEF TakeCached, Goto, TypeOK, helperVars
<1>9. CASE \E p \in Procs : saveWorkspace(p)
  BY <1>9 DEF saveWorkspace, Goto, Leave, helperVars
<1>10. CASE \E e \in Edits : StartEdit(e)
  BY <1>10 DEF StartEdit, Goto, helperVars, outVars
<1>11. CASE \E e \in Edits : EndUnedited(e)
  BY <1>11 DEF EndUnedited, Goto, Leave, helperVars, outVars
<1>12. CASE \E e \in Edits : Slept(e)
  BY <1>12 DEF Slept, Goto, Generate, helperVars
<1>13. CASE \E p \in Procs : Serve(p)
  BY <1>13 DEF Serve
<1>14. CASE \E p \in Procs : AnswerList(p)
  BY <1>14, Kinds DEF AnswerList
<1>15. CASE \E p \in Procs : AnswerError(p)
  BY <1>15, Kinds DEF AnswerError, Rejected
<1>16. CASE \E e \in Edits : AnswerEdit(e)
  BY <1>16, Kinds DEF AnswerEdit
<1>17. CASE \E e \in Edits : AnswerSave(e)
  BY <1>17, Kinds DEF AnswerSave
<1>18. CASE HelperDies
  BY <1>18, Kinds DEF HelperDies, Rejected
<1>19. CASE UNCHANGED vars
  BY <1>19 DEF vars, helperVars, outVars, helperVars, outVars
<1> QED BY <1>1, <1>2, <1>3, <1>4, <1>5, <1>6, <1>7, <1>8, <1>9, <1>10, <1>11, <1>12,
           <1>13, <1>14, <1>15, <1>16, <1>17, <1>18, <1>19 DEF Next

\* Who stops generating leaves the workspace spoiled, or has written it.
LEMMA WorkKept ==
  ASSUME TypeOK, MutexInv, [Next]_vars
  PROVE  \/ workspace' = workspace /\ (spoiled \/ Generating # {} => spoiled' \/ Generating' # {})
         \/ \E p \in Procs : saveWorkspace(p)
<1>1. CASE ForeignChange
  BY <1>1 DEF ForeignChange, Generating, outVars
<1>2. CASE touchWithoutNotify
  BY <1>2 DEF touchWithoutNotify, Generating, outVars
<1>3. CASE update
  BY <1>3 DEF update, Generating
<1>4. CASE loadProjectFiles
  BY <1>4 DEF loadProjectFiles, Goto, Generate, Generating
<1>5. CASE \E t \in Touches : DebouncedTouch(t)
  BY <1>5 DEF DebouncedTouch, Goto, Generate, Generating
<1>6. CASE \E p \in Procs : addProject(p)
  BY <1>6 DEF addProject, Generating, outVars
<1>7. CASE \E p \in Procs : AskForList(p)
  BY <1>7 DEF AskForList, Goto, Generating, outVars
<1>8. CASE \E p \in Procs : TakeCached(p)
  BY <1>8 DEF TakeCached, Goto, Generating, TypeOK
<1>9. CASE \E p \in Procs : saveWorkspace(p)
  BY <1>9
<1>10. CASE \E e \in Edits : StartEdit(e)
  BY <1>10 DEF StartEdit, Goto, Generating, outVars
<1>11. CASE \E e \in Edits : EndUnedited(e)
  BY <1>11 DEF EndUnedited, Goto, Leave, Generating, outVars
<1>12. CASE \E e \in Edits : Slept(e)
  BY <1>12 DEF Slept, Goto, Generate, Generating
<1>13. CASE \E p \in Procs : Serve(p)
  BY <1>13 DEF Serve, Generating, outVars
<1>14. CASE \E p \in Procs : AnswerList(p)
  BY <1>14 DEF AnswerList, Goto, Generating, TypeOK
<1>15. CASE \E p \in Procs : AnswerError(p)
  <2>1. PICK p \in Procs : serving = p /\ Rejected(p) /\ workspace' = workspace
    BY <1>15 DEF AnswerError
  <2>2. CASE GoesOn(p)
    <3>1. spoiled' = spoiled /\ Requesting(p)
      BY <2>1, <2>2, Kinds DEF GoesOn, MutexInv
    <3>2. p \in Generating => at'[p] = "reading" /\ \A q \in Procs \ {p} : at'[q] = at[q]
      BY <2>2, <3>1 DEF GoesOn, Goto, Generating, TypeOK
    <3>3. p \notin Generating => \A q \in Generating : at'[q] = at[q]
      BY <2>2 DEF GoesOn, Goto, Generating, TypeOK
    <3> QED BY <2>1, <3>1, <3>2, <3>3 DEF Generating
  <2>3. CASE GivesUp(p)
    <3>1. spoiled' = (spoiled \/ p \in Generating) /\ \A q \in Procs \ {p} : at'[q] = at[q]
      BY <2>3 DEF GivesUp, Leave, Goto, TypeOK
    <3> QED BY <2>1, <3>1 DEF Generating
  <2> QED BY <2>1, <2>2, <2>3 DEF Rejected
<1>16. CASE \E e \in Edits : AnswerEdit(e)
  BY <1>16 DEF AnswerEdit, Goto, Generating, TypeOK, outVars
<1>17. CASE \E e \in Edits : AnswerSave(e)
  BY <1>17 DEF AnswerSave, Goto, Leave, Generating, TypeOK, outVars
<1>18. CASE HelperDies
  BY <1>18 DEF HelperDies, Goto, Leave, Rejected, GoesOn, GivesUp, Generating, TypeOK
<1>19. CASE UNCHANGED vars
  BY <1>19 DEF vars, outVars, Generating, outVars
<1> QED BY <1>1, <1>2, <1>3, <1>4, <1>5, <1>6, <1>7, <1>8, <1>9, <1>10, <1>11, <1>12,
           <1>13, <1>14, <1>15, <1>16, <1>17, <1>18, <1>19 DEF Next

\* A generation that nothing comes across gets what is in the file, or the
\* change it lacks is ahead.
LEMMA DraftStep ==
  ASSUME IInv, WInv, [Next]_vars
  PROVE  DraftInv'
<1> USE DEF IInv, WInv
<1>1. ASSUME NEW p \in Procs, p \notin crossed', at'[p] = "writing", draft'[p] < disk'.version
      PROVE  Ahead'
  <2>1. CASE disk' # disk
    BY <2>1, DiskStep
  <2>2. CASE disk' = disk /\ at[p] = "writing" /\ draft'[p] = draft[p] /\ p \notin crossed
    <3>1. Ahead BY <1>1, <2>2 DEF DraftInv
    <3> QED BY <1>1, <2>2, <3>1, AheadStep
  <2>3. CASE disk' = disk /\ AnswerList(p)
    <3>1. /\ at[p] \in {"finding", "listing"} /\ serving = p /\ p \notin crossed
          /\ UNCHANGED <<settling, armed, watcher>> /\ unread' = (unread \/ hidden)
      BY <2>3, <1>1 DEF AnswerList, Listing, watchVars
    <3>2. at[p] = "listing" /\ draft'[p] = mem.version
      BY <1>1, <2>3, <3>1 DEF AnswerList, Goto, TypeOK
    <3>3. Ahead \/ hidden
      BY <1>1, <2>3, <3>1, <3>2 DEF DraftInv
    <3>4. \A e \in Edits : at[e] \in {"saving", "sleeping"} => at'[e] = at[e]
      BY <2>3, <3>1, <3>2, Kinds DEF AnswerList, Goto, TypeOK
    <3> QED BY <3>1, <3>3, <3>4 DEF Ahead
  <2>4. CASE disk' = disk /\ TakeCached(p)
    <3>1. /\ at[p] = "reading"
          /\ UNCHANGED <<settling, armed, watcher, unread, cache, disk>>
      BY <1>1, <2>4 DEF TakeCached, Goto, TypeOK, watchVars, listVars
    <3>2. p \notin crossed /\ \A q \in Procs : ~Listing(q)
      BY <1>1, <2>4, <3>1 DEF TakeCached
    <3>3. known
      BY <2>4, <3>1, <3>2, Kinds DEF TakeCached, LoaderInv, CrossInv, Generating
    <3>4. ~changed /\ draft'[p] = cache
      BY <2>4, <3>1, <3>3 DEF TakeCached, TypeOK
    <3>5. "foreign" \in settling \/ "save" \in settling \/ unread
      BY <1>1, <3>1, <3>2, <3>4 DEF NewsInv, News
    <3> QED BY <3>1, <3>5 DEF Ahead
  <2> QED BY <1>1, <2>1, <2>2, <2>3, <2>4, DraftKept
<1>2. ASSUME NEW p \in Procs, p \notin crossed', at'[p] = "listing", serving' = p,
             mem'.version < disk'.version
      PROVE  Ahead' \/ hidden'
  <2>1. CASE disk' # disk
    BY <2>1, DiskStep
  <2>2. CASE /\ disk' = disk /\ at[p] = "listing" /\ serving = p /\ mem' = mem /\ p \notin crossed
             /\ hidden => hidden'
    <3>1. Ahead \/ hidden BY <1>2, <2>2 DEF DraftInv
    <3> QED BY <1>2, <2>2, <3>1, AheadStep
  <2>3. CASE disk' = disk /\ Serve(p)
    <3>1. /\ mem' = disk \/ (mem # None /\ ~moved /\ mem' = mem /\ hidden' = hidden)
          /\ disk.version \in Nat
      BY <2>3, Values DEF Serve, TypeOK
    <3>2. CASE mem' = disk
      BY <1>2, <2>3, <3>1, <3>2
    <3>3. CASE mem # None /\ ~moved /\ mem' = mem /\ hidden' = hidden
      BY <1>2, <2>3, <3>1, <3>3 DEF HelperInv
    <3> QED BY <3>1, <3>2, <3>3
  <2> QED BY <1>2, <2>1, <2>2, <2>3, ListingKept
<1> QED BY <1>1, <1>2 DEF DraftInv

\* So the workspace is not left behind.
LEMMA WorkStep ==
  ASSUME IInv, WInv, [Next]_vars
  PROVE  WorkInv'
<1> USE DEF IInv, WInv
<1> SUFFICES ASSUME workspace' < disk'.version
             PROVE  Ahead' \/ Generating' # {} \/ spoiled'
  BY DEF WorkInv
<1>1. CASE disk' # disk
  BY <1>1, DiskStep
<1>2. CASE /\ disk' = disk /\ workspace' = workspace
           /\ spoiled \/ Generating # {} => spoiled' \/ Generating' # {}
  <2>1. Ahead \/ Generating # {} \/ spoiled
    BY <1>2 DEF WorkInv
  <2> QED BY <1>2, <2>1, AheadStep
<1>3. ASSUME NEW p \in Procs, saveWorkspace(p) PROVE Ahead' \/ spoiled'
  <2>1. CASE p \in crossed \/ workspace' # draft[p]
    BY <1>3, <2>1 DEF saveWorkspace
  <2>2. CASE p \notin crossed /\ workspace' = draft[p]
    <3>1. Ahead
      BY <1>3, <2>2 DEF saveWorkspace, DraftInv
    <3>2. /\ at[p] = "writing" /\ UNCHANGED <<settling, armed, watcher, unread>>
          /\ \A q \in Procs \ {p} : at'[q] = at[q]
      BY <1>3 DEF saveWorkspace, Leave, Goto, TypeOK, watchVars, listVars
    <3>3. \A e \in Edits : at[e] \in {"saving", "sleeping"} => at'[e] = at[e]
      BY <3>2, Kinds
    <3> QED BY <3>1, <3>2, <3>3 DEF Ahead
  <2> QED BY <2>1, <2>2
<1> QED BY <1>1, <1>2, <1>3, WorkKept

\* A workspace that lacks a change of the project will be generated again: the
\* event is due, the touch is armed or someone is at it, unless nobody watches,
\* the news were dropped or the last generation was spoiled.
THEOREM WorkspacesHaveCause == Spec => []StaleWorkspaceHasCause
<1>1. Init => WInv
  <2> SUFFICES ASSUME Init PROVE WInv
    OBVIOUS
  <2>1. ~watcher /\ \A p \in Procs : at[p] = IF p = Loader THEN "reading" ELSE "out"
    BY DEF Init
  <2>2. LoaderInv
    BY <2>1, Kinds DEF LoaderInv
  <2>3. CrossInv
    BY <2>1 DEF CrossInv, Generating
  <2>4. DraftInv /\ WorkInv
    BY <2>1 DEF DraftInv, WorkInv, Ahead
  <2> QED BY <2>2, <2>3, <2>4 DEF WInv
<1>2. ASSUME IInv, WInv, [Next]_vars PROVE WInv'
  BY <1>2, LoaderStep, CrossStep, DraftStep, WorkStep DEF IInv, WInv
<1>3. WInv => StaleWorkspaceHasCause
  BY DEF WInv, WorkInv, Ahead, StaleWorkspaceHasCause, isSavingProjects
<1> QED BY <1>1, <1>2, <1>3, Invariance, PTL DEF Spec

=============================================================================
