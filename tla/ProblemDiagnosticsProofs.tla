---------------------- MODULE ProblemDiagnosticsProofs ----------------------
(***************************************************************************)
(* Proofs about ProblemDiagnostics, for any files, problems, builds and     *)
(* texts of their output.  Nothing is used of the parser but that what it   *)
(* finds is stored and noted as found: where it looks, and when, is free.   *)
(***************************************************************************)
EXTENDS ProblemDiagnostics, TLAPS

XC == "xcodebuild"
Messages(b) == {p[1] : p \in found[b]}

Types ==
    /\ phase \in [Builds -> Phases]
    /\ collection \in [Files -> SUBSET (Problems \X Sources)]
    /\ previous \subseteq Files
    /\ found = [b \in Builds |-> found[b]]
    /\ \A b \in Builds : Messages(b) \subseteq Problems

\* No problem is shown twice, for both of its sources.
SourceInv ==
    \A f \in Files : \A p \in Problems :
        ~(<<p, XC>> \in collection[f] /\ <<p, "sourcekit">> \in collection[f])

\* Builds that are alive together know of each other; after the last of them there
\* is none until the next start.
AloneInv ==
    /\ \A b, c \in Builds : b # c /\ Alive(b) /\ Alive(c) => b \in overlapped
    /\ latest \in Builds => latest \notin overlapped /\ \A b \in Builds : ~Alive(b)
    /\ \A b \in Builds : phase[b] = "none" => found[b] = {}

\* A build that is alone has noted every file that has problems it did not find;
\* it has taken off its notes those it did.
NotedInv ==
    \A b \in Builds : Alive(b) /\ b \notin overlapped =>
        /\ \A f \in Files \ previous : \A d \in Of(f, XC) : d[1] \in Messages(b)
        /\ \A p \in Messages(b) : FileOf[p] \notin previous

\* What is left after the last build is what it found.
OwnInv ==
    latest \in Builds => \A f \in Files : \A d \in Of(f, XC) : d[1] \in Messages(latest)

\* What a build that is alone has found is shown, or there is a reason.
ShownInv ==
    \A b \in Builds : (Alive(b) \/ b = latest) /\ b \notin overlapped =>
        \A p \in Messages(b) : p \in excused \/ <<p, XC>> \in collection[FileOf[p]]

LatestType == latest \in Builds \cup {NoBuild}

IInv ==
    Types /\ SourceInv /\ AloneInv /\ NotedInv /\ OwnInv /\ ShownInv /\ LatestType

-----------------------------------------------------------------------------
(* What is stored *)

\* Stored, for one file.
LEMMA StoredFile ==
    ASSUME Types, NEW new \in SUBSET Problems, NEW replaced, NEW f \in Files
    PROVE  LET mine   == {<<p, XC>> : p \in {q \in new : FileOf[q] = f}}
               others == collection[f] \ Of(f, XC)
               kept   == IF f \in replaced THEN {} ELSE Of(f, XC)
           IN  Stored(new, replaced, XC)[f] =
                   IF mine = {} THEN collection[f]
                   ELSE Unique(kept \cup mine, others) \cup others
BY DEF Stored, XC

\* The collection stays one of problems, none of them twice.
LEMMA StoredTypes ==
    ASSUME Types, SourceInv, NEW new \in SUBSET Problems, NEW replaced
    PROVE  LET stored == Stored(new, replaced, XC)
           IN  /\ stored \in [Files -> SUBSET (Problems \X Sources)]
               /\ \A f \in Files : \A p \in Problems :
                    ~(<<p, XC>> \in stored[f] /\ <<p, "sourcekit">> \in stored[f])
<1> DEFINE stored == Stored(new, replaced, XC)
<1>1. ASSUME NEW f \in Files
      PROVE  /\ stored[f] \in SUBSET (Problems \X Sources)
             /\ \A p \in Problems :
                  ~(<<p, XC>> \in stored[f] /\ <<p, "sourcekit">> \in stored[f])
  <2> DEFINE mine == {<<p, XC>> : p \in {q \in new : FileOf[q] = f}}
             others == collection[f] \ Of(f, XC)
             kept == IF f \in replaced THEN {} ELSE Of(f, XC)
  <2>1. stored[f] = IF mine = {} THEN collection[f]
                    ELSE Unique(kept \cup mine, others) \cup others
    BY StoredFile
  <2>2. /\ mine \subseteq Problems \X Sources /\ others \subseteq Problems \X Sources
        /\ kept \subseteq Problems \X Sources
        /\ \A d \in mine : d[2] = XC
        /\ \A d \in kept : d[2] = XC
        /\ \A d \in others : d[2] # XC
    BY DEF Types, Of, Sources, XC
  <2>3. CASE mine = {}
    BY <2>1, <2>3 DEF Types, SourceInv
  <2>4. CASE mine # {}
    <3>1. stored[f] = Unique(kept \cup mine, others) \cup others
      BY <2>1, <2>4
    <3>2. stored[f] \subseteq Problems \X Sources
      BY <2>2, <3>1 DEF Unique
    <3>3. ASSUME NEW p \in Problems, <<p, XC>> \in stored[f], <<p, "sourcekit">> \in stored[f]
          PROVE  FALSE
      <4>1. <<p, XC>> \notin others BY <2>2
      <4>2. <<p, "sourcekit">> \notin kept \cup mine BY <2>2 DEF XC
      <4>3. <<p, XC>> \in Unique(kept \cup mine, others) /\ <<p, "sourcekit">> \in others
        BY <3>1, <3>3, <4>1, <4>2 DEF Unique
      <4>4. QED BY <4>3 DEF Unique
    <3>4. QED BY <3>2, <3>3
  <2>5. QED BY <2>3, <2>4
<1>2. stored = [f \in Files |-> stored[f]]
  BY DEF Stored
<1>3. QED BY <1>1, <1>2

\* What is stored for a file comes from the build, or was there and not replaced.
LEMMA StoredOrigin ==
    ASSUME Types, NEW new \in SUBSET Problems, NEW replaced, NEW f \in Files,
           NEW d \in Stored(new, replaced, XC)[f], d[2] = XC
    PROVE  \/ d[1] \in new
           \/ d \in Of(f, XC) /\ (f \in replaced => \A p \in new : FileOf[p] # f)
<1> DEFINE mine == {<<p, XC>> : p \in {q \in new : FileOf[q] = f}}
           others == collection[f] \ Of(f, XC)
           kept == IF f \in replaced THEN {} ELSE Of(f, XC)
<1>1. Stored(new, replaced, XC)[f] = IF mine = {} THEN collection[f]
                                     ELSE Unique(kept \cup mine, others) \cup others
  BY DEF Stored, XC
<1>2. CASE mine = {}
  <2>1. \A p \in new : FileOf[p] # f BY <1>2
  <2>2. QED BY <1>1, <1>2, <2>1 DEF Of
<1>3. CASE mine # {}
  <2>1. d \in Unique(kept \cup mine, others) \cup others BY <1>1, <1>3
  <2>2. d \notin others BY DEF Of
  <2>3. d \in kept \cup mine BY <2>1, <2>2 DEF Unique
  <2>4. QED BY <2>3
<1>4. QED BY <1>2, <1>3

\* What is new is stored, unless SourceKit has it too.
LEMMA StoredNew ==
    ASSUME Types, NEW new \in SUBSET Problems, NEW replaced, NEW p \in new,
           <<p, "sourcekit">> \notin collection[FileOf[p]]
    PROVE  <<p, XC>> \in Stored(new, replaced, XC)[FileOf[p]]
<1> DEFINE f == FileOf[p]
           mine == {<<q, XC>> : q \in {q \in new : FileOf[q] = f}}
           others == collection[f] \ Of(f, XC)
           kept == IF f \in replaced THEN {} ELSE Of(f, XC)
<1>1. f \in Files BY DiagnosticsAssumption
<1>2. Stored(new, replaced, XC)[f] = IF mine = {} THEN collection[f]
                                     ELSE Unique(kept \cup mine, others) \cup others
  BY <1>1 DEF Stored, XC
<1>3. <<p, XC>> \in mine OBVIOUS
<1>4. \A o \in others : o[1] # p
  BY <1>1 DEF Types, Of, Sources, XC
<1>5. <<p, XC>> \in Unique(kept \cup mine, others)
  BY <1>3, <1>4 DEF Unique
<1>6. QED BY <1>2, <1>3, <1>5

\* What was stored stays, if its file is not replaced.
LEMMA StoredOld ==
    ASSUME Types, SourceInv, NEW new \in SUBSET Problems, NEW replaced, NEW p \in Problems,
           FileOf[p] \notin replaced, <<p, XC>> \in collection[FileOf[p]]
    PROVE  <<p, XC>> \in Stored(new, replaced, XC)[FileOf[p]]
<1> DEFINE f == FileOf[p]
           mine == {<<q, XC>> : q \in {q \in new : FileOf[q] = f}}
           others == collection[f] \ Of(f, XC)
           kept == IF f \in replaced THEN {} ELSE Of(f, XC)
<1>1. f \in Files BY DiagnosticsAssumption
<1>2. Stored(new, replaced, XC)[f] = IF mine = {} THEN collection[f]
                                     ELSE Unique(kept \cup mine, others) \cup others
  BY <1>1 DEF Stored, XC
<1>3. <<p, XC>> \in kept BY DEF Of
<1>4. \A o \in others : o[1] # p
  <2>1. <<p, "sourcekit">> \notin collection[f] BY <1>1 DEF SourceInv
  <2>2. QED BY <1>1, <2>1 DEF Types, Of, Sources, XC
<1>5. <<p, XC>> \in Unique(kept \cup mine, others)
  BY <1>3, <1>4 DEF Unique
<1>6. QED BY <1>2, <1>5

-----------------------------------------------------------------------------
(* The builds *)

\* Alive, after the step.
AliveThen(c) == phase'[c] \notin {"none", "over"}

\* A step that stores nothing, and neither starts nor finishes a build.
LEMMA QuietKeeps ==
    ASSUME IInv, phase' \in [Builds -> Phases],
           \A c \in Builds : AliveThen(c) <=> Alive(c),
           \A c \in Builds : phase'[c] = "none" => phase[c] = "none",
           UNCHANGED <<collection, previous, found, overlapped, excused, latest>>
    PROVE  IInv'
<1>1. Types' BY DEF IInv, Types, Messages
<1>2. SourceInv' BY DEF IInv, SourceInv
<1>3. AloneInv' BY DEF IInv, AloneInv, Alive, AliveThen
<1>4. NotedInv' BY DEF IInv, NotedInv, Alive, AliveThen, Messages, Of
<1>5. OwnInv' BY DEF IInv, OwnInv, Messages, Of
<1>6. ShownInv' BY DEF IInv, ShownInv, Alive, AliveThen, Messages
<1>7. LatestType' BY DEF IInv, LatestType
<1>8. QED BY <1>1, <1>2, <1>3, <1>4, <1>5, <1>6, <1>7 DEF IInv

\* A build that is alive stores problems that it has found.
LEMMA StoreKeeps ==
    ASSUME IInv, NEW b \in Builds, Alive(b), NEW new \in SUBSET Problems, Store(new),
           phase' \in [Builds -> Phases],
           \A c \in Builds : AliveThen(c) <=> Alive(c),
           \A c \in Builds : phase'[c] = "none" => phase[c] = "none",
           found' = [c \in Builds |-> found'[c]],
           Messages(b)' = Messages(b) \cup new,
           \A c \in Builds \ {b} : found'[c] = found[c],
           UNCHANGED <<overlapped, latest>>
    PROVE  IInv'
<1> USE DEF IInv
<1>1. collection' = Stored(new, previous, XC)
  BY DEF Store, XC
<1>2. /\ previous' = previous \ {FileOf[p] : p \in new}
      /\ excused' = (excused \ new) \cup {p \in new : <<p, "sourcekit">> \in collection[FileOf[p]]}
  BY DEF Store
<1>3. \A c \in Builds \ {b} : Messages(c)' = Messages(c)
  BY DEF Messages
<1>4. \A c \in Builds \ {b} : Alive(c) => c \in overlapped
  BY DEF AloneInv
<1>5. latest \notin Builds
  BY DEF AloneInv
<1>6. Types' /\ SourceInv'
  <2>1. /\ collection' \in [Files -> SUBSET (Problems \X Sources)]
        /\ \A f \in Files : \A p \in Problems :
              ~(<<p, XC>> \in collection'[f] /\ <<p, "sourcekit">> \in collection'[f])
    BY <1>1, StoredTypes
  <2>2. \A c \in Builds : Messages(c)' \subseteq Problems
    BY <1>3 DEF Types
  <2>3. previous' \subseteq Files
    BY <1>2 DEF Types
  <2>4. Types' BY <2>1, <2>2, <2>3 DEF Types
  <2>5. SourceInv' BY <2>1 DEF SourceInv
  <2>6. QED BY <2>4, <2>5
<1>7. AloneInv'
  <2>1. ASSUME NEW c \in Builds, phase'[c] = "none" PROVE found'[c] = {}
    <3>1. c # b BY <2>1 DEF Alive
    <3>2. QED BY <2>1, <3>1 DEF AloneInv
  <2>2. \A c, d \in Builds : c # d /\ AliveThen(c) /\ AliveThen(d) => c \in overlapped
    BY DEF AloneInv
  <2>3. latest' \notin Builds
    BY <1>5
  <2>4. QED BY <2>1, <2>2, <2>3 DEF AloneInv, Alive, AliveThen
<1>8. NotedInv'
  <2>1. SUFFICES ASSUME b \notin overlapped
                 PROVE  /\ \A f \in Files \ previous' : \A d \in Of(f, XC)' : d[1] \in Messages(b)'
                        /\ \A p \in Messages(b)' : FileOf[p] \notin previous'
    BY <1>4 DEF NotedInv, Alive, AliveThen
  <2>2. ASSUME NEW f \in Files \ previous', NEW d \in Of(f, XC)'
        PROVE  d[1] \in Messages(b)'
    <3>1. d \in Stored(new, previous, XC)[f] /\ d[2] = XC
      BY <1>1, <2>2 DEF Of
    <3>2. \/ d[1] \in new
          \/ (d \in Of(f, XC) /\ (f \in previous => \A p \in new : FileOf[p] # f))
      BY <3>1, StoredOrigin
    <3>3. CASE d[1] \in new BY <3>3
    <3>4. CASE d \in Of(f, XC) /\ (f \in previous => \A p \in new : FileOf[p] # f)
      <4>1. f \notin previous BY <1>2, <2>2, <3>4
      <4>2. d[1] \in Messages(b) BY <2>1, <3>4, <4>1 DEF NotedInv
      <4>3. QED BY <4>2
    <3>5. QED BY <3>2, <3>3, <3>4
  <2>3. \A p \in Messages(b)' : FileOf[p] \notin previous'
    BY <1>2, <2>1 DEF NotedInv
  <2>4. QED BY <2>2, <2>3
<1>9. OwnInv' BY <1>5 DEF OwnInv
<1>10. ShownInv'
  <2>1. SUFFICES ASSUME b \notin overlapped, NEW p \in Messages(b)'
                 PROVE  p \in excused' \/ <<p, XC>> \in collection'[FileOf[p]]
    BY <1>4, <1>5 DEF ShownInv, Alive, AliveThen
  <2>2. CASE p \in new
    <3>1. CASE <<p, "sourcekit">> \in collection[FileOf[p]]
      BY <1>2, <2>2, <3>1
    <3>2. CASE <<p, "sourcekit">> \notin collection[FileOf[p]]
      BY <1>1, <2>2, <3>2, StoredNew
    <3>3. QED BY <3>1, <3>2
  <2>3. CASE p \notin new
    <3>1. p \in Messages(b) BY <2>1, <2>3
    <3>2. p \in Problems /\ FileOf[p] \notin previous
      BY <2>1, <3>1 DEF Types, NotedInv
    <3>3. p \in excused \/ <<p, XC>> \in collection[FileOf[p]]
      BY <2>1, <3>1 DEF ShownInv
    <3>4. CASE p \in excused BY <1>2, <2>3, <3>4
    <3>5. CASE <<p, XC>> \in collection[FileOf[p]]
      BY <1>1, <3>2, <3>5, StoredOld
    <3>6. QED BY <3>3, <3>4, <3>5
  <2>4. QED BY <2>2, <2>3
<1>11. LatestType' BY DEF LatestType
<1>12. QED BY <1>6, <1>7, <1>8, <1>9, <1>10, <1>11

\* What Take stores is what it adds to the problems found.
LEMMA TakeStores ==
    ASSUME IInv, NEW b \in Builds, NEW buffer, NEW end, Take(b, buffer, end)
    PROVE  \E new \in SUBSET Problems :
               /\ Store(new)
               /\ found' = [c \in Builds |-> found'[c]]
               /\ Messages(b)' = Messages(b) \cup new
               /\ \A c \in Builds \ {b} : found'[c] = found[c]
<1> DEFINE part == SubSeq(buffer, 1, end)
           parsed == Parsed(part, lines[b])
           new == {p[1] : p \in parsed}
<1>1. Store(new) /\ found' = [found EXCEPT ![b] = @ \cup parsed]
  BY DEF Take
<1>2. new \subseteq Problems
  <2>1. ASSUME NEW q \in parsed PROVE q[1] \in Problems
    <3>1. PICK i \in DOMAIN part :
              /\ part[i] \in Problems \X {1}
              /\ q = <<part[i][1], lines[b] + Newlines(SubSeq(part, 1, i))>>
      BY <2>1 DEF Parsed
    <3>2. QED BY <3>1
  <2>2. QED BY <2>1
<1>3. /\ found' = [c \in Builds |-> found'[c]]
      /\ found'[b] = found[b] \cup parsed
      /\ \A c \in Builds \ {b} : found'[c] = found[c]
  <2> HIDE DEF parsed
  <2>1. QED BY <1>1 DEF IInv, Types
<1>4. Messages(b)' = Messages(b) \cup new
  <2> HIDE DEF parsed
  <2>1. QED BY <1>3 DEF Messages
<1>5. QED BY <1>1, <1>2, <1>3, <1>4

\* Start.
LEMMA StartKeeps ==
    ASSUME IInv, NEW b \in Builds, Start(b)
    PROVE  IInv'
<1> DEFINE others == {c \in Builds : Alive(c)}
<1> USE DEF IInv
<1>1. /\ phase' = [phase EXCEPT ![b] = "running"] /\ phase[b] = "none"
      /\ previous' = Noted
      /\ overlapped' = IF others = {} THEN overlapped ELSE overlapped \cup others \cup {b}
      /\ latest' = NoBuild
      /\ UNCHANGED <<collection, found, excused>>
  BY DEF Start, parserVars
<1>2. /\ phase' \in [Builds -> Phases] /\ phase'[b] = "running"
      /\ \A c \in Builds \ {b} : phase'[c] = phase[c]
  BY <1>1 DEF Types, Phases
<1>3. overlapped \subseteq overlapped' /\ others \subseteq overlapped'
  BY <1>1
<1>4. \A c \in Builds \ {b} : AliveThen(c) => c \in overlapped'
  BY <1>2, <1>3 DEF AliveThen, Alive
<1>5. found[b] = {} /\ Messages(b)' = {}
  BY <1>1 DEF AloneInv, Messages
<1>6. latest' \notin Builds
  BY <1>1, DiagnosticsAssumption
<1>7. Types' BY <1>1, <1>2 DEF Types, Noted, Messages
<1>8. SourceInv' BY <1>1 DEF SourceInv
<1>9. AloneInv'
  <2>1. ASSUME NEW c \in Builds, NEW d \in Builds, c # d, AliveThen(c), AliveThen(d)
        PROVE  c \in overlapped'
    <3>1. CASE c # b BY <1>4, <2>1, <3>1
    <3>2. CASE c = b
      <4>1. d \in others BY <1>2, <2>1, <3>2 DEF AliveThen, Alive
      <4>2. QED BY <1>1, <3>2, <4>1
    <3>3. QED BY <3>1, <3>2
  <2>2. \A c \in Builds : phase'[c] = "none" => found'[c] = {}
    BY <1>1, <1>2 DEF AloneInv
  <2>3. QED BY <1>6, <2>1, <2>2 DEF AloneInv, Alive, AliveThen
<1>10. NotedInv'
  <2>1. \A f \in Files \ previous' : Of(f, XC)' = {}
    BY <1>1 DEF Noted, Of, XC
  <2>2. QED BY <1>4, <1>5, <2>1 DEF NotedInv, Alive, AliveThen
<1>11. OwnInv' BY <1>6 DEF OwnInv
<1>12. ShownInv'
  BY <1>4, <1>5, <1>6 DEF ShownInv, Alive, AliveThen
<1>13. LatestType' BY <1>1 DEF LatestType
<1>14. QED BY <1>7, <1>8, <1>9, <1>10, <1>11, <1>12, <1>13

\* Finish: if the build was alone, what is left of the noted files are the problems
\* of others, and those it removes.
LEMMA FinishKeeps ==
    ASSUME IInv, NEW b \in Builds, NEW macros \in SUBSET Problems, Finish(b, macros)
    PROVE  IInv'
<1> DEFINE stored == Stored(macros, previous, XC)
           rest == previous \ {FileOf[p] : p \in macros}
<1> USE DEF IInv
<1>1. /\ phase' = [phase EXCEPT ![b] = "over"] /\ Alive(b)
      /\ collection' = [f \in Files |->
              IF Cleans(b) /\ f \in rest THEN {d \in stored[f] : d[2] # XC} ELSE stored[f]]
      /\ previous' = {}
      /\ found' = [found EXCEPT ![b] = @ \cup {<<p, 0>> : p \in macros}]
      /\ excused' = (excused \ macros)
                    \cup {p \in macros : <<p, "sourcekit">> \in collection[FileOf[p]]}
      /\ latest' = (IF Cleans(b) /\ b \notin overlapped THEN b ELSE NoBuild)
      /\ overlapped' = overlapped
  BY DEF Finish, Alive, XC
<1>2. /\ phase' \in [Builds -> Phases] /\ phase'[b] = "over"
      /\ \A c \in Builds \ {b} : phase'[c] = phase[c]
  BY <1>1 DEF Types, Phases
<1>3. /\ found' = [c \in Builds |-> found'[c]]
      /\ found'[b] = found[b] \cup {<<p, 0>> : p \in macros}
      /\ \A c \in Builds \ {b} : found'[c] = found[c]
  BY <1>1 DEF Types
<1>4. /\ Messages(b)' = Messages(b) \cup macros
      /\ \A c \in Builds \ {b} : Messages(c)' = Messages(c)
  <2> DEFINE bundled == {<<p, 0>> : p \in macros}
  <2>1. {p[1] : p \in bundled} = macros
    <3>1. \A p \in macros : <<p, 0>> \in bundled /\ <<p, 0>>[1] = p OBVIOUS
    <3>2. \A q \in bundled : q[1] \in macros OBVIOUS
    <3> HIDE DEF bundled
    <3>3. macros \subseteq {p[1] : p \in bundled} BY <3>1
    <3>4. QED BY <3>2, <3>3
  <2>2. found'[b] = found[b] \cup bundled BY <1>3
  <2>3. Messages(b)' = Messages(b) \cup {p[1] : p \in bundled}
    <3> HIDE DEF bundled
    <3>1. QED BY <2>2 DEF Messages
  <2>4. QED BY <1>3, <2>1, <2>3 DEF Messages
<1>5. \A c \in Builds : AliveThen(c) => c # b /\ Alive(c) /\ c \in overlapped
  BY <1>1, <1>2 DEF AliveThen, Alive, AloneInv
<1>6. ASSUME latest' \in Builds
      PROVE  /\ latest' = b /\ Cleans(b) /\ b \notin overlapped
             /\ \A c \in Builds : ~AliveThen(c)
  <2>1. latest' = b /\ Cleans(b) /\ b \notin overlapped
    BY <1>1, <1>6, DiagnosticsAssumption
  <2>2. QED BY <1>1, <1>5, <2>1 DEF AloneInv
<1>7. \A f \in Files : collection'[f] \subseteq stored[f]
  BY <1>1
<1>8. Types' /\ SourceInv'
  <2>1. /\ stored \in [Files -> SUBSET (Problems \X Sources)]
        /\ \A f \in Files : \A p \in Problems :
              ~(<<p, XC>> \in stored[f] /\ <<p, "sourcekit">> \in stored[f])
    BY StoredTypes
  <2>2. collection' \in [Files -> SUBSET (Problems \X Sources)]
    <3> HIDE DEF stored, rest
    <3>1. QED BY <1>1, <2>1
  <2>3. \A c \in Builds : Messages(c)' \subseteq Problems
    BY <1>4 DEF Types
  <2>4. Types' BY <1>1, <1>2, <1>3, <2>2, <2>3 DEF Types
  <2>5. SourceInv' BY <1>7, <2>1 DEF SourceInv
  <2>6. QED BY <2>4, <2>5
<1>9. AloneInv'
  <2>1. \A c \in Builds : phase'[c] = "none" => found'[c] = {}
    BY <1>2, <1>3 DEF AloneInv
  <2>2. latest' \in Builds => latest' \notin overlapped' /\ \A c \in Builds : ~AliveThen(c)
    BY <1>1, <1>6
  <2>3. \A c, d \in Builds : c # d /\ AliveThen(c) /\ AliveThen(d) => c \in overlapped'
    BY <1>1, <1>5
  <2>4. QED BY <2>1, <2>2, <2>3 DEF AloneInv, Alive, AliveThen
<1>10. NotedInv'
  BY <1>1, <1>5 DEF NotedInv, Alive, AliveThen
<1>11. OwnInv'
  <2>1. SUFFICES ASSUME latest' \in Builds, NEW f \in Files, NEW d \in Of(f, XC)'
                 PROVE  d[1] \in Messages(b)'
    BY <1>6 DEF OwnInv, Messages
  <2>2. f \notin rest /\ d \in stored[f] /\ d[2] = XC
    BY <1>1, <1>6, <2>1 DEF Of
  <2>3. \/ d[1] \in macros
        \/ (d \in Of(f, XC) /\ (f \in previous => \A p \in macros : FileOf[p] # f))
    BY <2>2, StoredOrigin
  <2>4. CASE d[1] \in macros BY <1>4, <2>4
  <2>5. CASE d \in Of(f, XC) /\ (f \in previous => \A p \in macros : FileOf[p] # f)
    <3>1. f \notin previous BY <2>2, <2>5
    <3>2. d[1] \in Messages(b) BY <1>1, <1>6, <2>1, <2>5, <3>1 DEF NotedInv
    <3>3. QED BY <1>4, <3>2
  <2>6. QED BY <2>3, <2>4, <2>5
<1>12. ShownInv'
  <2>1. SUFFICES ASSUME latest' = b, b \notin overlapped, NEW p \in Messages(b)'
                 PROVE  p \in excused' \/ <<p, XC>> \in collection'[FileOf[p]]
    <3>1. \A c \in Builds : (AliveThen(c) \/ c = latest') /\ c \notin overlapped' => c = b /\ latest' = b
      BY <1>1, <1>5, <1>6
    <3>2. QED BY <1>1, <2>1, <3>1 DEF ShownInv, Alive, AliveThen
  <2>2. p \in Problems /\ FileOf[p] \in Files
    BY <1>8, DiagnosticsAssumption DEF Types
  <2>3. ASSUME FileOf[p] \notin rest, <<p, XC>> \in stored[FileOf[p]]
        PROVE  <<p, XC>> \in collection'[FileOf[p]]
    <3> HIDE DEF stored, rest
    <3>1. QED BY <1>1, <2>2, <2>3
  <2>4. CASE p \in macros
    <3>1. CASE <<p, "sourcekit">> \in collection[FileOf[p]]
      BY <1>1, <2>4, <3>1
    <3>2. CASE <<p, "sourcekit">> \notin collection[FileOf[p]]
      BY <2>3, <2>4, <3>2, StoredNew
    <3>3. QED BY <3>1, <3>2
  <2>5. CASE p \notin macros
    <3>1. p \in Messages(b) BY <1>4, <2>1, <2>5
    <3>2. FileOf[p] \notin previous
      BY <1>1, <2>1, <3>1 DEF NotedInv
    <3>3. p \in excused \/ <<p, XC>> \in collection[FileOf[p]]
      BY <1>1, <2>1, <3>1 DEF ShownInv
    <3>4. CASE p \in excused BY <1>1, <2>5, <3>4
    <3>5. CASE <<p, XC>> \in collection[FileOf[p]]
      BY <2>2, <2>3, <3>2, <3>5, StoredOld
    <3>6. QED BY <3>3, <3>4, <3>5
  <2>6. QED BY <2>4, <2>5
<1>13. LatestType' BY <1>1 DEF LatestType
<1>14. QED BY <1>8, <1>9, <1>10, <1>11, <1>12, <1>13

-----------------------------------------------------------------------------
(* The files *)

\* What is shown of one file changes: problems of builds only go, and not without
\* their being excused.
LEMMA FileKeeps ==
    ASSUME IInv, NEW f \in Files, NEW now \in SUBSET (Problems \X Sources),
           collection' = [collection EXCEPT ![f] = now],
           \A p \in Problems : ~(<<p, XC>> \in now /\ <<p, "sourcekit">> \in now),
           \A d \in now : d[2] = XC => d \in collection[f],
           excused \subseteq excused',
           \A p \in Problems : FileOf[p] = f /\ <<p, XC>> \in collection[f] =>
                                  p \in excused' \/ <<p, XC>> \in now,
           UNCHANGED <<phase, previous, found, overlapped, latest>>
    PROVE  IInv'
<1> USE DEF IInv
<1>1. /\ collection'[f] = now
      /\ \A g \in Files \ {f} : collection'[g] = collection[g]
      /\ collection' \in [Files -> SUBSET (Problems \X Sources)]
  BY DEF Types
<1>2. \A g \in Files : Of(g, XC)' \subseteq Of(g, XC)
  BY <1>1 DEF Of
<1>3. Types' BY <1>1 DEF Types, Messages
<1>4. SourceInv' BY <1>1 DEF SourceInv
<1>5. AloneInv' BY DEF AloneInv, Alive
<1>6. NotedInv' BY <1>2 DEF NotedInv, Alive, Messages
<1>7. OwnInv' BY <1>2 DEF OwnInv, Messages
<1>8. ShownInv'
  <2>1. SUFFICES ASSUME NEW b \in Builds, Alive(b) \/ b = latest, b \notin overlapped,
                        NEW p \in Messages(b)
                 PROVE  p \in excused' \/ <<p, XC>> \in collection'[FileOf[p]]
    BY DEF ShownInv, Alive, Messages
  <2>2. p \in Problems /\ FileOf[p] \in Files
    BY DiagnosticsAssumption DEF Types
  <2>3. p \in excused \/ <<p, XC>> \in collection[FileOf[p]]
    BY <2>1 DEF ShownInv
  <2>4. QED BY <1>1, <2>2, <2>3
<1>9. LatestType' BY DEF LatestType
<1>10. QED BY <1>3, <1>4, <1>5, <1>6, <1>7, <1>8, <1>9

\* HandleDiagnostics.
LEMMA HandleKeeps ==
    ASSUME IInv, NEW f \in Files, NEW new \in SUBSET Problems, HandleDiagnostics(f, new)
    PROVE  IInv'
<1> DEFINE others == Of(f, XC)
           sent == {<<p, "sourcekit">> : p \in new}
           now == Unique(sent, others) \cup others
<1>1. collection' = [collection EXCEPT ![f] = now]
  BY DEF HandleDiagnostics, XC
<1>2. /\ others \subseteq Problems \X Sources /\ sent \subseteq Problems \X Sources
      /\ others \subseteq collection[f]
      /\ \A d \in others : d[2] = XC
      /\ \A d \in sent : d[2] # XC
  BY DEF IInv, Types, Of, Sources, XC
<1>3. now \in SUBSET (Problems \X Sources)
  BY <1>2 DEF Unique
<1>4. \A d \in now : d[2] = XC => d \in collection[f]
  BY <1>2 DEF Unique
<1>5. ASSUME NEW p \in Problems, <<p, XC>> \in now, <<p, "sourcekit">> \in now PROVE FALSE
  <2>1. <<p, XC>> \in others BY <1>2, <1>5 DEF Unique
  <2>2. <<p, "sourcekit">> \notin others BY <1>2 DEF XC
  <2>3. <<p, "sourcekit">> \in Unique(sent, others) BY <1>5, <2>2
  <2>4. QED BY <2>1, <2>3 DEF Unique
<1>6. \A p \in Problems : <<p, XC>> \in collection[f] => <<p, XC>> \in now
  BY DEF Of
<1>7. UNCHANGED <<phase, previous, found, overlapped, excused, latest>>
  BY DEF HandleDiagnostics, parserVars, historyVars
<1> HIDE DEF now
<1>8. QED BY <1>1, <1>3, <1>4, <1>5, <1>6, <1>7, FileKeeps

\* Edit.
LEMMA EditKeeps ==
    ASSUME IInv, NEW f \in Files, Edit(f)
    PROVE  IInv'
<1> DEFINE now == {d \in collection[f] : d[2] = XC => d[1] \in Macros}
<1>1. collection' = [collection EXCEPT ![f] = now]
  BY DEF Edit, XC, IInv, Types
<1>2. /\ now \in SUBSET (Problems \X Sources)
      /\ now \subseteq collection[f]
  BY DEF IInv, Types
<1>3. \A p \in Problems : ~(<<p, XC>> \in now /\ <<p, "sourcekit">> \in now)
  BY DEF IInv, SourceInv
<1>4. excused' = excused \cup {p \in Problems \ Macros : FileOf[p] = f}
  BY DEF Edit
<1>5. \A p \in Problems : FileOf[p] = f /\ <<p, XC>> \in collection[f] =>
                             p \in excused' \/ <<p, XC>> \in now
  BY <1>4
<1>6. UNCHANGED <<phase, previous, found, overlapped, latest>>
  BY DEF Edit, parserVars
<1> HIDE DEF now
<1>7. QED BY <1>1, <1>2, <1>3, <1>4, <1>5, <1>6, FileKeeps

\* CloseDocument.
LEMMA CloseKeeps ==
    ASSUME IInv, NEW f \in Files, CloseDocument(f)
    PROVE  IInv'
<1> DEFINE now == Of(f, XC)
<1>1. collection' = [collection EXCEPT ![f] = now]
  BY DEF CloseDocument, XC
<1>2. now \in SUBSET (Problems \X Sources) /\ now \subseteq collection[f]
  BY DEF IInv, Types, Of
<1>3. \A p \in Problems : ~(<<p, XC>> \in now /\ <<p, "sourcekit">> \in now)
  BY DEF Of, XC
<1>4. \A p \in Problems : <<p, XC>> \in collection[f] => <<p, XC>> \in now
  BY DEF Of
<1>5. UNCHANGED <<phase, previous, found, overlapped, excused, latest>>
  BY DEF CloseDocument, parserVars, historyVars
<1> HIDE DEF now
<1>6. QED BY <1>1, <1>2, <1>3, <1>4, <1>5, FileKeeps

\* Delete.
LEMMA DeleteKeeps ==
    ASSUME IInv, NEW f \in Files, Delete(f)
    PROVE  IInv'
<1> DEFINE now == {}
<1>1. collection' = [collection EXCEPT ![f] = now]
  BY DEF Delete
<1>2. excused' = excused \cup {p \in Problems : FileOf[p] = f}
  BY DEF Delete
<1>3. UNCHANGED <<phase, previous, found, overlapped, latest>>
  BY DEF Delete, parserVars
<1>4. now \in SUBSET (Problems \X Sources)
  OBVIOUS
<1>5. \A p \in Problems : ~(<<p, XC>> \in now /\ <<p, "sourcekit">> \in now)
  OBVIOUS
<1>6. \A d \in now : d[2] = XC => d \in collection[f]
  OBVIOUS
<1>7. \A p \in Problems : FileOf[p] = f /\ <<p, XC>> \in collection[f] =>
                             p \in excused' \/ <<p, XC>> \in now
  BY <1>2
<1>8. excused \subseteq excused' BY <1>2
<1> HIDE DEF now
<1>9. QED BY <1>1, <1>3, <1>4, <1>5, <1>6, <1>7, <1>8, FileKeeps

-----------------------------------------------------------------------------
(* The specification *)

\* The first state.
LEMMA Begins ==
    Init => IInv
<1> SUFFICES ASSUME Init PROVE IInv
  OBVIOUS
<1>1. /\ \A b \in Builds : ~Alive(b) /\ found[b] = {} /\ Messages(b) = {}
      /\ latest = NoBuild /\ latest \notin Builds
  BY DiagnosticsAssumption DEF Init, Alive, Messages
<1>2. /\ collection \in [Files -> SUBSET (Problems \X {"xcodebuild"})]
      /\ previous = {}
      /\ phase = [b \in Builds |-> "none"] /\ found = [b \in Builds |-> {}]
  BY DEF Init
<1>3. Types BY <1>1, <1>2 DEF Types, Phases, Sources
<1>4. SourceInv BY <1>2 DEF SourceInv
<1>5. AloneInv BY <1>1 DEF AloneInv
<1>6. NotedInv BY <1>1 DEF NotedInv
<1>7. OwnInv BY <1>1 DEF OwnInv
<1>8. ShownInv BY <1>1 DEF ShownInv
<1>9. LatestType BY <1>1 DEF LatestType
<1>10. QED BY <1>3, <1>4, <1>5, <1>6, <1>7, <1>8, <1>9 DEF IInv

\* Cancel.
LEMMA CancelKeeps ==
    ASSUME IInv, NEW b \in Builds, Cancel(b)
    PROVE  IInv'
<1>1. PICK p \in {"cancelled", "abandoned"} :
          phase' = [phase EXCEPT ![b] = p] /\ phase[b] \in {"running", "ending"}
  BY DEF Cancel
<1>2. /\ phase' \in [Builds -> Phases] /\ phase'[b] = p
      /\ \A c \in Builds \ {b} : phase'[c] = phase[c]
  BY <1>1 DEF IInv, Types, Phases
<1>3. \A c \in Builds : (AliveThen(c) <=> Alive(c)) /\ (phase'[c] = "none" => phase[c] = "none")
  BY <1>1, <1>2 DEF AliveThen, Alive
<1>4. UNCHANGED <<collection, previous, found, overlapped, excused, latest>>
  BY DEF Cancel, parserVars, historyVars
<1>5. \A c \in Builds : AliveThen(c) <=> Alive(c) BY <1>3
<1>6. \A c \in Builds : phase'[c] = "none" => phase[c] = "none" BY <1>3
<1>7. QED BY <1>2, <1>4, <1>5, <1>6, QuietKeeps

\* Prints.
LEMMA PrintsKeeps ==
    ASSUME IInv, NEW b \in Builds, NEW n, Prints(b, n)
    PROVE  IInv'
<1>1. /\ phase[b] \in {"running", "cancelled"}
      /\ UNCHANGED <<phase, overlapped, latest>>
      /\ \/ UNCHANGED <<collection, previous, excused, found>>
         \/ \E buffer, end : Take(b, buffer, end)
  BY DEF Prints
<1>2. /\ phase' \in [Builds -> Phases] /\ Alive(b)
      /\ \A c \in Builds : (AliveThen(c) <=> Alive(c)) /\ (phase'[c] = "none" => phase[c] = "none")
  BY <1>1 DEF IInv, Types, AliveThen, Alive
<1>3. CASE UNCHANGED <<collection, previous, excused, found>>
  BY <1>1, <1>2, <1>3, QuietKeeps
<1>4. CASE \E buffer, end : Take(b, buffer, end)
  BY <1>1, <1>2, <1>4, TakeStores, StoreKeeps
<1>5. QED BY <1>1, <1>3, <1>4

\* End.
LEMMA EndKeeps ==
    ASSUME IInv, NEW b \in Builds, End(b)
    PROVE  IInv'
<1>1. /\ phase[b] \in {"running", "cancelled"}
      /\ phase' = [phase EXCEPT ![b] = IF @ = "running" THEN "ending" ELSE "leaving"]
      /\ UNCHANGED <<overlapped, latest>>
      /\ \/ UNCHANGED <<collection, previous, excused, found>>
         \/ \E buffer, end : Take(b, buffer, end)
  BY DEF End
<1>2. /\ phase' \in [Builds -> Phases] /\ phase'[b] \in {"ending", "leaving"}
      /\ \A c \in Builds \ {b} : phase'[c] = phase[c]
  BY <1>1 DEF IInv, Types, Phases
<1>3. /\ Alive(b)
      /\ \A c \in Builds : (AliveThen(c) <=> Alive(c)) /\ (phase'[c] = "none" => phase[c] = "none")
  BY <1>1, <1>2 DEF AliveThen, Alive
<1>4. CASE UNCHANGED <<collection, previous, excused, found>>
  BY <1>1, <1>2, <1>3, <1>4, QuietKeeps
<1>5. CASE \E buffer, end : Take(b, buffer, end)
  BY <1>1, <1>2, <1>3, <1>5, TakeStores, StoreKeeps
<1>6. QED BY <1>1, <1>4, <1>5

\* Every step.
LEMMA Keeps ==
    IInv /\ [Next]_vars => IInv'
<1> SUFFICES ASSUME IInv, [Next]_vars PROVE IInv'
  OBVIOUS
<1>1. ASSUME NEW b \in Builds, Start(b) PROVE IInv' BY <1>1, StartKeeps
<1>2. ASSUME NEW b \in Builds, Cancel(b) PROVE IInv' BY <1>2, CancelKeeps
<1>3. ASSUME NEW b \in Builds, End(b) PROVE IInv' BY <1>3, EndKeeps
<1>4. ASSUME NEW b \in Builds, NEW n, Prints(b, n) PROVE IInv' BY <1>4, PrintsKeeps
<1>5. ASSUME NEW b \in Builds, NEW macros \in InBundle, Finish(b, macros) PROVE IInv'
  <2>1. macros \in SUBSET Problems BY DiagnosticsAssumption DEF InBundle
  <2>2. QED BY <1>5, <2>1, FinishKeeps
<1>6. ASSUME NEW f \in Files, Edit(f) PROVE IInv' BY <1>6, EditKeeps
<1>7. ASSUME NEW f \in Files, CloseDocument(f) PROVE IInv' BY <1>7, CloseKeeps
<1>8. ASSUME NEW f \in Files, Delete(f) PROVE IInv' BY <1>8, DeleteKeeps
<1>9. ASSUME NEW f \in Files, NEW new \in SUBSET {p \in Problems \ Macros : FileOf[p] = f},
             HandleDiagnostics(f, new)
      PROVE  IInv'
  <2>1. new \in SUBSET Problems OBVIOUS
  <2>2. QED BY <1>9, <2>1, HandleKeeps
<1>10. CASE UNCHANGED vars
  <2>1. UNCHANGED <<phase, collection, previous, found, overlapped, excused, latest>>
    BY <1>10 DEF vars, parserVars, historyVars
  <2>2. phase' \in [Builds -> Phases] BY <2>1 DEF IInv, Types
  <2>3. QED BY <2>1, <2>2, QuietKeeps DEF AliveThen, Alive
<1>11. QED
  BY <1>1, <1>2, <1>3, <1>4, <1>5, <1>6, <1>7, <1>8, <1>9, <1>10 DEF Next

\* After a build that cleaned up, and that no cancelled build was alive with, only
\* its own problems are left (ProblemDiagnosticResolver.ts:100-110, 233-243).
THEOREM OwnProblems == Spec => []OnlyItsOwnProblems
<1>1. IInv => OnlyItsOwnProblems
  BY DEF IInv, LatestType, OwnInv, OnlyItsOwnProblems, Messages, XC
<1>2. QED BY <1>1, Begins, Keeps, PTL DEF Spec

\* What a build has found is shown while it runs and when it is over, if it was
\* alone, and the problem has no excuse (ProblemDiagnosticResolver.ts:172-203).
THEOREM Shown == Spec => []ProblemsAreShown
<1>1. ASSUME IInv PROVE ProblemsAreShown
  <2>1. SUFFICES ASSUME NEW b \in Builds, phase[b] \in {"running", "ending"} \/ b = latest,
                        b \notin overlapped, NEW p \in found[b]
                 PROVE  p[1] \in excused \/ <<p[1], "xcodebuild">> \in collection[FileOf[p[1]]]
    BY DEF ProblemsAreShown
  <2>2. Alive(b) \/ b = latest BY <2>1 DEF Alive
  <2>3. p[1] \in Messages(b) BY DEF Messages
  <2>4. QED BY <1>1, <2>1, <2>2, <2>3 DEF IInv, ShownInv, XC
<1>2. QED BY <1>1, Begins, Keeps, PTL DEF Spec

=============================================================================
