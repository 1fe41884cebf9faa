---------------------------- MODULE BuildSpyProofs ----------------------------
(***************************************************************************)
(* Proofs about the spy file, for any number of builds, any targets and any *)
(* number of overlapping reads.                                             *)
(***************************************************************************)
EXTENDS BuildSpy, FiniteSetTheorems, TLAPS

Statuses == {"Success", "Fail", "Cancelled"}

\* What is in the file.
Cells == {file[i] : i \in 1 .. Len(file)}

\* Only builds that were prepared have an xcodebuild, and only spies that are
\* not over have reads.
OrderInv ==
    \A b \in Builds :
        /\ proc[b] # "none" \/ phase[b] # "none" => b <= latest
        /\ \A r \in Readers : reader[b][r] # Idle => Spying(b)

\* The file holds what was written since the last build was prepared.
FreshInv == \A l \in Cells : l # Hole => l.epoch = latest

IInv == TypeOK /\ OrderInv /\ FreshInv /\ WrittenSincePrepare

-----------------------------------------------------------------------------
LEMMA ConstantsOK ==
  /\ MaxBuilds \in Nat /\ Builds \subseteq Nat \ {0}
  /\ \A S \in SUBSET Targets : Cardinality(S) \in Nat
  /\ Final \in Readers /\ Pollers \subseteq Readers
BY SpyAssumption, FS_Subset, FS_CardinalityType DEF Builds, Readers

LEMMA LinesOK ==
  /\ \A l \in Lines : l.from \in Builds /\ l.target \in Targets /\ l.status \in Statuses
                        /\ l.epoch \in Builds
  /\ Hole \notin Lines
<1>1. \A l \in Lines : l.from \in Builds /\ l.target \in Targets /\ l.status \in Statuses
                        /\ l.epoch \in Builds
  BY DEF Lines, Statuses
<1>2. Hole.from = 0
  BY DEF Hole
<1>3. 0 \notin Builds
  BY DEF Builds
<1> QED BY <1>1, <1>2, <1>3

\* The lines a report consists of.
NewLines(b, S, status) ==
    {[from |-> b, target |-> t, status |-> status, epoch |-> latest] : t \in S}

\* A write puts nothing into the file but its own lines and holes.
LEMMA WriteKeeps ==
  ASSUME TypeOK, NEW position \in Nat, NEW n \in Nat, NEW N \in SUBSET Lines,
         NEW lines \in [1 .. n -> N], WriteAt(position, lines)
  PROVE  /\ file' \in Seq(Lines \cup {Hole})
         /\ \A i \in 1 .. Len(file') : file'[i] \in Cells \cup {Hole} \cup N
<1> DEFINE end == position + n
           size == IF Len(file) > end THEN Len(file) ELSE end
           cell(i) == IF i > position /\ i <= end THEN lines[i - position]
                      ELSE IF i <= Len(file) THEN file[i] ELSE Hole
<1>1. Len(file) \in Nat /\ end \in Nat /\ size \in Nat /\ Len(lines) = n
  BY DEF TypeOK
<1>2. file' = IF lines = <<>> THEN file ELSE [i \in 1 .. size |-> cell(i)]
  BY <1>1 DEF WriteAt
<1>3. ASSUME NEW i \in 1 .. size
      PROVE  /\ cell(i) \in Cells \cup {Hole} \cup N
             /\ cell(i) \in Lines \cup {Hole}
  <2> i \in Nat /\ i >= 1
    BY <1>1
  <2>1. CASE i > position /\ i <= end
    <3>1. i - position \in 1 .. n
      BY <1>1, <2>1
    <3> QED BY <2>1, <3>1
  <2>2. CASE ~(i > position /\ i <= end) /\ i <= Len(file)
    <3>1. i \in 1 .. Len(file)
      BY <1>1, <2>2
    <3>2. file[i] \in Lines \cup {Hole}
      BY <3>1 DEF TypeOK
    <3>3. cell(i) = file[i]
      BY <2>2
    <3> HIDE DEF cell
    <3> QED BY <3>1, <3>2, <3>3 DEF Cells
  <2>3. CASE ~(i > position /\ i <= end) /\ ~(i <= Len(file))
    BY <2>3
  <2> QED BY <2>1, <2>2, <2>3
<1> HIDE DEF cell, size
<1>4. CASE lines = <<>>
  BY <1>2, <1>4 DEF TypeOK, Cells
<1>5. CASE lines # <<>>
  <2>1. file' = [i \in 1 .. size |-> cell(i)]
    BY <1>2, <1>5
  <2>2. file' \in Seq(Lines \cup {Hole}) /\ Len(file') = size
    BY <2>1, <1>1, <1>3
  <2> QED BY <2>1, <2>2, <1>3
<1> QED BY <1>4, <1>5

\* What a report writes, wherever in the file, is of the build and has the status.
LEMMA ReportWrites ==
  ASSUME TypeOK, NEW b \in Builds, NEW S \in SUBSET Targets, NEW status \in Statuses,
         latest \in Builds, Report(b, S, status)
  PROVE  /\ file' \in Seq(Lines \cup {Hole})
         /\ offset' \in [Builds -> Nat]
         /\ written' \in [Builds -> SUBSET Lines]
         /\ reported' = [reported EXCEPT ![b] = @ \cup S]
         /\ messy' \in SUBSET Builds
         /\ \E N \in SUBSET NewLines(b, S, status) :
              /\ written' = [written EXCEPT ![b] = @ \cup N]
              /\ \A i \in 1 .. Len(file') : file'[i] \in Cells \cup {Hole} \cup N
<1> USE ConstantsOK
<1> DEFINE n == Cardinality(S)
<1>1. n \in Nat
  OBVIOUS
<1>2. NewLines(b, S, status) \subseteq Lines
  BY DEF NewLines, Lines, Statuses
<1>3. \E lines \in [1 .. n -> NewLines(b, S, status)] :
        /\ WriteAt(offset[b], lines)
        /\ offset' = [offset EXCEPT ![b] = @ + n]
        /\ written' = [written EXCEPT ![b] = @ \cup Range(lines)]
        /\ reported' = [reported EXCEPT ![b] = @ \cup S]
        /\ messy' = messy \cup (IF S = {} THEN {} ELSE Others(b))
  BY DEF Report, NewLines
<1>4. PICK lines \in [1 .. n -> NewLines(b, S, status)] :
        /\ WriteAt(offset[b], lines)
        /\ offset' = [offset EXCEPT ![b] = @ + n]
        /\ written' = [written EXCEPT ![b] = @ \cup Range(lines)]
        /\ reported' = [reported EXCEPT ![b] = @ \cup S]
        /\ messy' = messy \cup (IF S = {} THEN {} ELSE Others(b))
  BY <1>3, Zenon
<1>5. /\ Range(lines) \in SUBSET NewLines(b, S, status) /\ Range(lines) \in SUBSET Lines
      /\ lines \in [1 .. n -> Range(lines)]
  BY <1>2 DEF Range
<1>6. /\ file' \in Seq(Lines \cup {Hole})
      /\ \A i \in 1 .. Len(file') : file'[i] \in Cells \cup {Hole} \cup Range(lines)
  <2>1. offset[b] \in Nat
    BY DEF TypeOK
  <2> HIDE DEF n
  <2> QED BY <1>1, <1>4, <1>5, <2>1, WriteKeeps, Zenon
<1>7. /\ offset' \in [Builds -> Nat] /\ messy' \in SUBSET Builds
      /\ written' \in [Builds -> SUBSET Lines]
  BY <1>1, <1>4, <1>5 DEF TypeOK, Others
<1>8. \E N \in SUBSET NewLines(b, S, status) :
         /\ written' = [written EXCEPT ![b] = @ \cup N]
         /\ \A i \in 1 .. Len(file') : file'[i] \in Cells \cup {Hole} \cup N
  BY <1>4, <1>5, <1>6, Zenon
<1> QED BY <1>4, <1>6, <1>7, <1>8, Zenon

-----------------------------------------------------------------------------
(* Each action *)

\* Who can write or be read is one of the prepared builds.
LEMMA PreparedOK ==
  ASSUME TypeOK, OrderInv, NEW b \in Builds, proc[b] # "none" \/ Spying(b)
  PROVE  latest \in Builds /\ b <= latest
<1>1. b <= latest
  BY DEF OrderInv, Spying
<1> QED BY <1>1, ConstantsOK DEF Builds, TypeOK

\* A line is taken from the file: its epoch is the present one.
LEMMA ReadKeeps ==
  ASSUME IInv, NEW b \in Builds, NEW r \in Readers, Read(b, r) PROVE IInv'
<1> USE ConstantsOK DEF IInv
<1>1. /\ reader[b][r] # Idle /\ Spying(b)
      /\ ReadLine(b, r, reader[b][r])
      /\ UNCHANGED <<latest, phase, cancelled, proc, messy, clientVars, fileVars>>
  BY DEF Read, OrderInv
<1>2. reader[b][r] \in Nat /\ cursor[b] \in Nat /\ latest \in Builds /\ b <= latest
  <2>1. latest \in Builds /\ b <= latest
    BY <1>1, PreparedOK
  <2>2. reader[b] \in [Readers -> Nat \cup {Idle}] /\ cursor[b] \in Nat
    BY DEF TypeOK
  <2> QED BY <1>1, <2>1, <2>2
<1>3. PICK next \in 1 .. Len(file) :
        LET line == file[next]
            new  == next = reader[b][r] + 1 /\ <<line.target, line.status>> \notin sent[b]
        IN
        /\ next > reader[b][r]
        /\ line # Hole
        /\ reader' = [reader EXCEPT ![b][r] = next]
        /\ cursor' = [cursor EXCEPT ![b] = @ + next - reader[b][r]]
        /\ sent' = IF new THEN [sent EXCEPT ![b] = @ \cup {<<line.target, line.status>>}]
                   ELSE sent
        /\ delivered' = IF new THEN [delivered EXCEPT ![b] = @ \cup {line}] ELSE delivered
  BY <1>1 DEF ReadLine
<1> DEFINE line == file[next]
<1>4. line \in Lines /\ line.epoch = latest /\ Len(file) \in Nat /\ next \in Nat
  BY <1>3 DEF TypeOK, FreshInv, Cells
<1>5. line.target \in Targets /\ line.status \in {"Success", "Fail", "Cancelled"}
  BY <1>4, LinesOK DEF Statuses
<1> HIDE DEF line
<1>6. /\ reader' \in [Builds -> [Readers -> Nat \cup {Idle}]]
      /\ cursor' \in [Builds -> Nat]
  <2>0. next > reader[b][r]
    BY <1>3
  <2>1. cursor[b] + next - reader[b][r] \in Nat
    BY <1>2, <1>4, <2>0
  <2>2. /\ reader' = [reader EXCEPT ![b][r] = next]
        /\ cursor' = [cursor EXCEPT ![b] = @ + next - reader[b][r]]
    BY <1>3
  <2>3. cursor' \in [Builds -> Nat]
    BY <2>1, <2>2 DEF TypeOK
  <2>4. reader' \in [Builds -> [Readers -> Nat \cup {Idle}]]
    BY <1>4, <2>2 DEF TypeOK
  <2> QED BY <2>3, <2>4
<1>7. sent' \in [Builds -> SUBSET (Targets \X {"Success", "Fail", "Cancelled"})]
  BY <1>3, <1>5 DEF TypeOK, line
<1>8. /\ delivered' \in [Builds -> SUBSET Lines]
      /\ WrittenSincePrepare'
  <2>1. delivered' = delivered \/ delivered' = [delivered EXCEPT ![b] = @ \cup {line}]
    BY <1>3 DEF line
  <2>2. latest >= b /\ line.epoch >= b
    BY <1>2, <1>4
  <2>3. CASE delivered' = delivered
    BY <2>3 DEF TypeOK, WrittenSincePrepare
  <2>4. CASE delivered' = [delivered EXCEPT ![b] = @ \cup {line}]
    <3>1. delivered' \in [Builds -> SUBSET Lines]
      BY <1>4, <2>4 DEF TypeOK
    <3>2. ASSUME NEW c \in Builds, NEW l \in delivered'[c] PROVE l.epoch >= c
      BY <2>2, <2>4, <3>2 DEF TypeOK, WrittenSincePrepare
    <3> QED BY <3>1, <3>2 DEF WrittenSincePrepare
  <2> QED BY <2>1, <2>3, <2>4
<1>9. TypeOK'
  BY <1>1, <1>6, <1>7, <1>8 DEF TypeOK, clientVars, fileVars
<1>10. OrderInv'
  BY <1>1, <1>3 DEF OrderInv, Spying, TypeOK
<1>11. FreshInv'
  BY <1>1 DEF FreshInv, Cells, fileVars
<1> QED BY <1>8, <1>9, <1>10, <1>11

\* What a report adds to the file bears the present epoch.
LEMMA ReportKeeps ==
  ASSUME IInv, NEW b \in Builds, NEW S \in SUBSET Targets, NEW status \in Statuses,
         proc[b] = "open", Report(b, S, status), UNCHANGED <<spyVars, proc>>,
         live' \in [Builds -> SUBSET Targets], over' \in [Builds -> SUBSET Targets],
         failing' \in [Builds -> SUBSET Targets], told' = told
  PROVE  IInv'
<1> USE DEF IInv, spyVars
<1>1. latest \in Builds
  BY PreparedOK
<1>2. /\ file' \in Seq(Lines \cup {Hole}) /\ offset' \in [Builds -> Nat]
      /\ written' \in [Builds -> SUBSET Lines] /\ reported' \in [Builds -> SUBSET Targets]
      /\ messy' \in SUBSET Builds
      /\ \A i \in 1 .. Len(file') : file'[i] \in Cells \cup {Hole} \cup NewLines(b, S, status)
  <2>1. reported' = [reported EXCEPT ![b] = @ \cup S]
    BY <1>1, ReportWrites
  <2>2. reported' \in [Builds -> SUBSET Targets]
    BY <2>1 DEF TypeOK
  <2> QED BY <1>1, <2>2, ReportWrites
<1>3. TypeOK'
  BY <1>2 DEF TypeOK
<1>4. FreshInv'
  <2>1. \A l \in NewLines(b, S, status) : l.epoch = latest
    BY DEF NewLines
  <2>2. \A l \in Cells' : l \in Cells \cup {Hole} \cup NewLines(b, S, status)
    BY <1>2 DEF Cells
  <2> QED BY <2>1, <2>2 DEF FreshInv
<1>5. OrderInv' /\ WrittenSincePrepare'
  BY DEF OrderInv, Spying, WrittenSincePrepare
<1> QED BY <1>3, <1>4, <1>5


\* The rest leaves the file or clears it.
LEMMA OthersKeep ==
  ASSUME IInv, NEW b \in Builds,
         \/ Prepare(b) \/ Spawn(b) \/ EndSpy(b) \/ Cancel(b) \/ Open(b) \/ Exit(b)
         \/ BuildCancel(b)
         \/ \E r \in Pollers : Poll(b, r)
         \/ \E r \in Readers : ReadEnds(b, r)
         \/ \E t \in Targets : TargetStarts(b, t)
  PROVE  IInv'
<1> USE ConstantsOK DEF IInv
<1>0. <<>> \in Seq(Lines \cup {Hole}) /\ Len(<<>>) = 0
  OBVIOUS
<1>1. CASE Prepare(b)
  <2>0. latest' \in 0 .. MaxBuilds
    BY <1>1 DEF Prepare, Builds
  <2>a. phase' \in [Builds -> {"none", "spying", "ending", "done"}]
    BY <1>1 DEF Prepare, TypeOK
  <2>b. file' \in Seq(Lines \cup {Hole})
    BY <1>0, <1>1 DEF Prepare
  <2>c. UNCHANGED <<cancelled, cursor, reader, sent, delivered, proc, messy,
                    clientVars, offset, written>>
    BY <1>1 DEF Prepare
  <2>1. TypeOK'
    BY <2>0, <2>a, <2>b, <2>c DEF TypeOK, clientVars
  <2>2. OrderInv'
    <3>1. latest' = latest + 1 /\ latest \in Nat /\ b = latest'
      BY <1>1 DEF Prepare, TypeOK
    <3> QED BY <1>1, <3>1 DEF Prepare, OrderInv, Spying, TypeOK
  <2>3. FreshInv' /\ WrittenSincePrepare'
    BY <1>0, <1>1 DEF Prepare, FreshInv, Cells, WrittenSincePrepare
  <2> QED BY <2>1, <2>2, <2>3
<1>2. CASE Spawn(b) \/ Exit(b) \/ Open(b)
  <2>a. ASSUME Spawn(b) PROVE TypeOK'
    <3>1. /\ proc' \in [Builds -> {"none", "spawned", "open", "exited"}]
          /\ UNCHANGED <<spyVars, messy, clientVars, fileVars>>
      BY <2>a DEF Spawn, TypeOK
    <3> QED BY <3>1 DEF TypeOK, spyVars, clientVars, fileVars
  <2>b. ASSUME Exit(b) PROVE TypeOK'
    <3>1. /\ proc' \in [Builds -> {"none", "spawned", "open", "exited"}]
          /\ offset' \in [Builds -> Nat] /\ told' \in SUBSET Builds
      BY <2>b DEF Exit, TypeOK
    <3>2. /\ live' \in [Builds -> SUBSET Targets] /\ over' \in [Builds -> SUBSET Targets]
          /\ reported' \in [Builds -> SUBSET Targets]
      BY <2>b DEF Exit, TypeOK
    <3>3. UNCHANGED <<spyVars, messy, failing, file, written>>
      BY <2>b DEF Exit
    <3> QED BY <3>1, <3>2, <3>3 DEF TypeOK, spyVars
  <2>c. ASSUME Open(b) PROVE TypeOK'
    <3>1. file' \in Seq(Lines \cup {Hole})
      BY <1>0, <2>c DEF Open
    <3>2. messy' \in SUBSET Builds /\ offset' \in [Builds -> Nat]
      BY <2>c DEF Open, Others, TypeOK
    <3>3. /\ proc' \in [Builds -> {"none", "spawned", "open", "exited"}]
          /\ UNCHANGED <<spyVars, clientVars, written>>
      BY <2>c DEF Open, TypeOK
    <3> QED BY <3>1, <3>2, <3>3 DEF TypeOK, spyVars, clientVars
  <2>1. TypeOK'
    BY <1>2, <2>a, <2>b, <2>c
  <2>2. OrderInv'
    BY <1>2 DEF Spawn, Exit, Open, OrderInv, Spying, TypeOK, spyVars
  <2>3. FreshInv'
    BY <1>0, <1>2 DEF Spawn, Exit, Open, FreshInv, Cells, spyVars, fileVars
  <2>4. WrittenSincePrepare'
    BY <1>2 DEF Spawn, Exit, Open, WrittenSincePrepare, spyVars
  <2> QED BY <2>1, <2>2, <2>3, <2>4
<1>3. ASSUME NEW r \in Readers,
             \/ EndSpy(b) /\ r = Final
             \/ Poll(b, r)
      PROVE  IInv'
  <2>1. /\ StartRead(b, r) /\ Spying(b)
        /\ UNCHANGED <<latest, cancelled, cursor, sent, delivered, proc, clientVars, fileVars>>
        /\ phase' = phase \/ phase' = [phase EXCEPT ![b] = "ending"]
    BY <1>3 DEF EndSpy, Poll, Spying
  <2>2. TypeOK'
    BY <2>1 DEF StartRead, TypeOK, clientVars, fileVars
  <2>3. OrderInv'
    BY <2>1 DEF StartRead, OrderInv, Spying, TypeOK
  <2>4. FreshInv' /\ WrittenSincePrepare'
    BY <2>1 DEF FreshInv, Cells, WrittenSincePrepare, fileVars
  <2> QED BY <2>2, <2>3, <2>4
<1>4. CASE Cancel(b) \/ \E r \in Readers : ReadEnds(b, r)
  <2>1. /\ UNCHANGED <<latest, delivered, proc, messy, clientVars, fileVars>>
        /\ cancelled' \in {cancelled, cancelled \cup {b}}
        /\ \/ Drop(b)
           \/ \E r \in Readers : /\ reader' = [reader EXCEPT ![b][r] = Idle]
                                 /\ UNCHANGED <<phase, cursor, sent>>
    BY <1>4 DEF Cancel, ReadEnds
  <2>2. FreshInv' /\ WrittenSincePrepare'
    BY <2>1 DEF FreshInv, Cells, WrittenSincePrepare, fileVars
  <2>3. CASE Drop(b)
    <3>1. TypeOK'
      <4>1. phase' \in [Builds -> {"none", "spying", "ending", "done"}]
        BY <2>3 DEF Drop, TypeOK
      <4>2. reader' \in [Builds -> [Readers -> Nat \cup {Idle}]]
        BY <2>3 DEF Drop, TypeOK
      <4>3. /\ cursor' \in [Builds -> Nat] /\ cancelled' \in SUBSET Builds
            /\ sent' \in [Builds -> SUBSET (Targets \X {"Success", "Fail", "Cancelled"})]
        BY <2>1, <2>3 DEF Drop, TypeOK
      <4> QED BY <2>1, <4>1, <4>2, <4>3, SMTT(40) DEF TypeOK, clientVars, fileVars
    <3>2. OrderInv'
      <4>1. phase[b] # "none" \/ b <= latest
        BY <1>4 DEF Cancel, ReadEnds, Spying, OrderInv, TypeOK, Idle
      <4> QED BY <2>1, <2>3, <4>1 DEF Drop, OrderInv, Spying, TypeOK
    <3> QED BY <2>2, <3>1, <3>2
  <2>4. ASSUME NEW r \in Readers, reader' = [reader EXCEPT ![b][r] = Idle],
               UNCHANGED <<phase, cursor, sent>>
        PROVE  IInv'
    <3>1. TypeOK'
      <4>1. reader' \in [Builds -> [Readers -> Nat \cup {Idle}]]
        BY <2>4 DEF TypeOK
      <4>2. cancelled' \in SUBSET Builds
        BY <2>1 DEF TypeOK
      <4> QED BY <2>1, <2>4, <4>1, <4>2 DEF TypeOK, clientVars, fileVars
    <3>2. OrderInv'
      <4>1. \A c \in Builds, q \in Readers : reader'[c][q] # Idle => reader[c][q] # Idle
        BY <2>4 DEF TypeOK
      <4> QED BY <2>1, <2>4, <4>1 DEF OrderInv, Spying
    <3> QED BY <2>2, <3>1, <3>2
  <2> QED BY <2>1, <2>3, <2>4
<1>5. CASE BuildCancel(b) \/ \E t \in Targets : TargetStarts(b, t)
  <2>a. /\ UNCHANGED <<spyVars, proc, messy, over, reported, failing, fileVars>>
        /\ told' \in {told, told \cup {b}}
        /\ live' = live \/ \E t \in Targets : live' = [live EXCEPT ![b] = @ \cup {t}]
    BY <1>5 DEF BuildCancel, TargetStarts
  <2>b. live' \in [Builds -> SUBSET Targets] /\ told' \in SUBSET Builds
    <3>1. live \in [Builds -> SUBSET Targets] /\ told \in SUBSET Builds
      BY DEF TypeOK
    <3>2. told' \in SUBSET Builds
      BY <2>a, <3>1
    <3>3. ASSUME NEW t \in Targets, live' = [live EXCEPT ![b] = @ \cup {t}]
          PROVE  live' \in [Builds -> SUBSET Targets]
      BY <3>1, <3>3
    <3> QED BY <2>a, <3>1, <3>2, <3>3
  <2>1. TypeOK'
    BY <2>a, <2>b, SMTT(40) DEF TypeOK, spyVars, fileVars
  <2>2. UNCHANGED <<spyVars, proc, file>>
    BY <2>a DEF fileVars
  <2>3. OrderInv' /\ FreshInv' /\ WrittenSincePrepare'
    BY <2>2 DEF OrderInv, Spying, FreshInv, Cells, WrittenSincePrepare, spyVars
  <2> QED BY <2>1, <2>3
<1> QED BY <1>1, <1>2, <1>3, <1>4, <1>5

LEMMA InitIsGood == ASSUME Init PROVE IInv
<1>1. TypeOK
  BY ConstantsOK DEF Init, TypeOK
<1>2. OrderInv
  BY DEF Init, OrderInv
<1>3. Len(<<>>) = 0
  OBVIOUS
<1>4. FreshInv /\ WrittenSincePrepare
  BY <1>3 DEF Init, FreshInv, Cells, WrittenSincePrepare
<1> QED BY <1>1, <1>2, <1>4 DEF IInv

\* Every reachable state satisfies the invariant: the file never holds a line
\* that is older than the build prepared last.
THEOREM Invariance == Spec => []IInv
<1>1. ASSUME IInv, [Next]_vars PROVE IInv'
  <2>1. CASE UNCHANGED vars
    BY <1>1, <2>1
       DEF IInv, TypeOK, OrderInv, Spying, FreshInv, Cells, WrittenSincePrepare, vars,
           spyVars, clientVars, fileVars
  <2>2. ASSUME NEW b \in Builds, NEW r \in Readers, Read(b, r) PROVE IInv'
    BY <1>1, <2>2, ReadKeeps
  <2>3. ASSUME NEW b \in Builds, NEW t \in Targets, TargetEnds(b, t) PROVE IInv'
    <3>1. PICK status \in Statuses : Output(b, {t}, status)
      BY <2>3 DEF TargetEnds, Statuses
    <3>2. /\ proc[b] = "open" /\ UNCHANGED <<spyVars, proc>> /\ told' = told
          /\ live' \in [Builds -> SUBSET Targets] /\ over' \in [Builds -> SUBSET Targets]
          /\ failing' \in [Builds -> SUBSET Targets]
      BY <1>1, <2>3 DEF TargetEnds, IInv, TypeOK
    <3>3. {t} \ reported[b] \in SUBSET Targets
      OBVIOUS
    <3> QED BY <1>1, <3>1, <3>2, <3>3, ReportKeeps DEF Output
  <2>4. ASSUME NEW b \in Builds, NEW S \in SUBSET Targets, TaskFails(b, S) PROVE IInv'
    <3>1. Output(b, UNION {Found(b, t) : t \in S}, "Fail") /\ "Fail" \in Statuses
      BY <2>4 DEF TaskFails, Statuses
    <3>2. /\ proc[b] = "open" /\ UNCHANGED <<spyVars, proc>> /\ told' = told
          /\ live' \in [Builds -> SUBSET Targets] /\ over' \in [Builds -> SUBSET Targets]
          /\ failing' \in [Builds -> SUBSET Targets]
      BY <1>1, <2>4 DEF TaskFails, IInv, TypeOK
    <3>3. (UNION {Found(b, t) : t \in S}) \ reported[b] \in SUBSET Targets
      BY <1>1, ZenonT(60) DEF Found, IInv, TypeOK
    <3> QED BY <1>1, <3>1, <3>2, <3>3, ReportKeeps DEF Output
  <2>5. ASSUME NEW b \in Builds,
               \/ Prepare(b) \/ Spawn(b) \/ EndSpy(b) \/ Cancel(b) \/ Open(b) \/ Exit(b)
               \/ BuildCancel(b)
               \/ \E r \in Pollers : Poll(b, r)
               \/ \E r \in Readers : ReadEnds(b, r)
               \/ \E t \in Targets : TargetStarts(b, t)
        PROVE  IInv'
    BY <1>1, <2>5, OthersKeep
  <2> QED BY <1>1, <2>1, <2>2, <2>3, <2>4, <2>5, Zenon DEF Next
<1> QED BY <1>1, InitIsGood, PTL DEF Spec

\* The spies, their file and the clients keep their types, whatever the
\* interleaving of reads, writes and truncations.
THEOREM TypeCorrect == Spec => []TypeOK
<1>1. IInv => TypeOK
  BY DEF IInv
<1> QED BY <1>1, Invariance, PTL

\* Clearing the file in prepare does its part: no listener hears a line that is
\* older than its build.
THEOREM SincePrepare == Spec => []WrittenSincePrepare
<1>1. IInv => WrittenSincePrepare
  BY DEF IInv
<1> QED BY <1>1, Invariance, PTL

-----------------------------------------------------------------------------
(* Verdicts and their causes *)

Eclipsed(b, t) == \E u \in Covers[b] : <<u, t>> \in Prefix

\* Whatever is in the file, or was heard, some client wrote.
WrittenInv ==
    /\ \A l \in Cells : l # Hole => l \in written[l.from]
    /\ \A c \in Builds : \A l \in delivered[c] : l \in written[l.from]

\* A live target's failed task is reported, under its name or another's.
ClientInv ==
    \A b \in Builds :
        /\ live[b] \subseteq Covers[b] /\ live[b] \cap over[b] = {}
        /\ proc[b] = "exited" \/ failing[b] \subseteq live[b] \cup over[b]
        /\ \A t \in live[b] \cap failing[b] : t \in reported[b] \/ Eclipsed(b, t)

\* Each line has its cause, and a target that succeeded is not begun again.
CauseInv ==
    \A b \in Builds : \A l \in written[b] :
        /\ l.from = b
        /\ l.status = "Fail" =>
             \E t \in failing[b] : t = l.target \/ <<l.target, t>> \in Prefix
        /\ l.status = "Success" =>
             /\ l.target \in over[b] \/ proc[b] = "exited"
             /\ l.target \in failing[b] => Eclipsed(b, l.target)

VInv == IInv /\ WrittenInv /\ ClientInv /\ CauseInv

\* The search of a signature with t finds t, or a target that eclipses it.
LEMMA FoundOrEclipsed ==
  ASSUME IInv, ClientInv, NEW b \in Builds, NEW t \in live[b]
  PROVE  /\ t \in Found(b, t) \/ Eclipsed(b, t)
         /\ \A u \in Found(b, t) : u \in Targets /\ (u = t \/ <<u, t>> \in Prefix)
<1>1. live[b] \subseteq Covers[b] /\ live[b] \subseteq Targets
  BY DEF ClientInv, IInv, TypeOK
<1>2. \A u \in Found(b, t) : u \in live[b] /\ (u = t \/ <<u, t>> \in Prefix)
  BY DEF Found
<1>3. ASSUME t \notin Found(b, t) PROVE Eclipsed(b, t)
  <2>1. PICK v \in live[b] : v # t /\ <<v, t>> \in Prefix
    BY <1>3 DEF Found
  <2> QED BY <1>1, <2>1 DEF Eclipsed
<1> QED BY <1>1, <1>2, <1>3

\* The lines of a report stay within what was written; the rest is untouched.
LEMMA ReportIsWritten ==
  ASSUME VInv, NEW b \in Builds, NEW S \in SUBSET Targets, NEW status \in Statuses,
         proc[b] = "open", Report(b, S, status), delivered' = delivered
  PROVE  /\ WrittenInv'
         /\ \A c \in Builds : \A l \in written'[c] :
              l \in written[c] \/ (c = b /\ l.from = b /\ l.target \in S /\ l.status = status)
         /\ reported' = [reported EXCEPT ![b] = @ \cup S]
<1> USE DEF VInv, IInv
<1>1. latest \in Builds
  BY PreparedOK
<1>2. PICK N \in SUBSET NewLines(b, S, status) :
        /\ written' = [written EXCEPT ![b] = @ \cup N]
        /\ \A i \in 1 .. Len(file') : file'[i] \in Cells \cup {Hole} \cup N
  BY <1>1, ReportWrites
<1>3. \A l \in N : l.from = b /\ l.target \in S /\ l.status = status
  BY DEF NewLines
<1>4. written \in [Builds -> SUBSET Lines]
  BY DEF TypeOK
<1>5. \A c \in Builds : written[c] \subseteq written'[c]
  BY <1>2, <1>4
<1>6. ASSUME NEW l \in Cells', l # Hole PROVE l \in written'[l.from]
  <2>1. l \in Cells \cup {Hole} \cup N
    BY <1>2 DEF Cells
  <2>2. CASE l \in N
    BY <1>2, <1>3, <1>4, <2>2
  <2>3. CASE l \in Cells
    <3>1. l \in written[l.from] /\ l.from \in Builds
      BY <1>6, <2>3, LinesOK DEF WrittenInv, Cells, TypeOK
    <3> QED BY <1>5, <3>1
  <2> QED BY <1>6, <2>1, <2>2, <2>3
<1>7. ASSUME NEW c \in Builds, NEW l \in delivered'[c] PROVE l \in written'[l.from]
  <2>1. l \in delivered[c] /\ l \in Lines
    BY <1>7 DEF TypeOK
  <2>2. l \in written[l.from] /\ l.from \in Builds
    BY <2>1, LinesOK DEF WrittenInv
  <2> QED BY <1>5, <2>2
<1>8. WrittenInv'
  BY <1>6, <1>7 DEF WrittenInv
<1>9. \A c \in Builds : \A l \in written'[c] :
        l \in written[c] \/ (c = b /\ l.from = b /\ l.target \in S /\ l.status = status)
  BY <1>2, <1>3, <1>4
<1>10. reported' = [reported EXCEPT ![b] = @ \cup S]
  BY <1>1, ReportWrites
<1> QED BY <1>8, <1>9, <1>10, Zenon

\* A target that ended had no failed task, or it is eclipsed, or it was reported.
LEMMA TargetEndsKeeps ==
  ASSUME VInv, NEW b \in Builds, NEW t \in Targets, TargetEnds(b, t)
  PROVE  WrittenInv' /\ ClientInv' /\ CauseInv'
<1> USE DEF VInv, IInv
<1>1. PICK status \in {"Cancelled", "Success"} : Report(b, {t} \ reported[b], status)
  BY DEF TargetEnds, Output
<1>2. /\ proc[b] = "open" /\ t \in live[b] /\ delivered' = delivered
      /\ live' = [live EXCEPT ![b] = @ \ {t}] /\ over' = [over EXCEPT ![b] = @ \cup {t}]
      /\ UNCHANGED <<proc, failing>>
  BY DEF TargetEnds, spyVars
<1>3. /\ WrittenInv'
      /\ \A c \in Builds : \A l \in written'[c] :
           l \in written[c]
             \/ (c = b /\ l.from = b /\ l.target \in {t} \ reported[b] /\ l.status = status)
      /\ reported' = [reported EXCEPT ![b] = @ \cup ({t} \ reported[b])]
  BY <1>1, <1>2, ReportIsWritten DEF Statuses
<1>4. ClientInv'
  BY <1>2, <1>3, ZenonT(60) DEF ClientInv, Eclipsed, TypeOK
<1>5. t \in over'[b] /\ \A c \in Builds : over[c] \subseteq over'[c]
  BY <1>2 DEF TypeOK
<1>6. t \in failing[b] /\ t \notin reported[b] => Eclipsed(b, t)
  BY <1>2 DEF ClientInv
<1>7. ASSUME NEW c \in Builds, NEW l \in written'[c]
      PROVE  /\ l.from = c
             /\ l.status = "Fail" =>
                  \E u \in failing'[c] : u = l.target \/ <<l.target, u>> \in Prefix
             /\ l.status = "Success" =>
                  /\ l.target \in over'[c] \/ proc'[c] = "exited"
                  /\ l.target \in failing'[c] => Eclipsed(c, l.target)
  <2>1. CASE l \in written[c]
    BY <1>2, <1>5, <2>1 DEF CauseInv
  <2>2. CASE c = b /\ l.from = b /\ l.target \in {t} \ reported[b] /\ l.status = status
    BY <1>2, <1>5, <1>6, <2>2
  <2> QED BY <1>3, <2>1, <2>2
<1>8. CauseInv'
  BY <1>7 DEF CauseInv, Eclipsed
<1> QED BY <1>3, <1>4, <1>8

\* A failed task is put down to what the search finds.
LEMMA TaskFailsKeeps ==
  ASSUME VInv, NEW b \in Builds, NEW S \in SUBSET Targets, TaskFails(b, S)
  PROVE  WrittenInv' /\ ClientInv' /\ CauseInv'
<1> USE DEF VInv, IInv
<1> DEFINE F == UNION {Found(b, t) : t \in S}
<1>1. /\ proc[b] = "open" /\ S \subseteq live[b] /\ delivered' = delivered
      /\ failing' = [failing EXCEPT ![b] = @ \cup S]
      /\ Report(b, F \ reported[b], "Fail")
      /\ UNCHANGED <<proc, live, over>>
  BY DEF TaskFails, Output, spyVars
<1>2. \A t \in S : t \in F \/ Eclipsed(b, t)
  BY <1>1, FoundOrEclipsed
<1>3. \A u \in F : u \in Targets /\ \E t \in S : u = t \/ <<u, t>> \in Prefix
  BY <1>1, FoundOrEclipsed
<1> HIDE DEF F
<1>4. /\ WrittenInv'
      /\ \A c \in Builds : \A l \in written'[c] :
           l \in written[c]
             \/ (c = b /\ l.from = b /\ l.target \in F \ reported[b] /\ l.status = "Fail")
      /\ reported' = [reported EXCEPT ![b] = @ \cup (F \ reported[b])]
  <2>1. F \ reported[b] \in SUBSET Targets /\ "Fail" \in Statuses
    BY <1>3 DEF Statuses
  <2> QED BY <1>1, <2>1, ReportIsWritten, ZenonT(60)
<1>5. /\ failing'[b] = failing[b] \cup S /\ reported'[b] = reported[b] \cup F
      /\ \A c \in Builds \ {b} : failing'[c] = failing[c] /\ reported'[c] = reported[c]
  BY <1>1, <1>4 DEF TypeOK
<1>6. ClientInv'
  BY <1>1, <1>2, <1>5 DEF ClientInv, Eclipsed
<1>7. ASSUME NEW c \in Builds, NEW l \in written'[c]
      PROVE  /\ l.from = c
             /\ l.status = "Fail" =>
                  \E u \in failing'[c] : u = l.target \/ <<l.target, u>> \in Prefix
             /\ l.status = "Success" =>
                  /\ l.target \in over'[c] \/ proc'[c] = "exited"
                  /\ l.target \in failing'[c] => Eclipsed(c, l.target)
  <2>1. CASE l \in written[c]
    <3>1. l.target \in over[c] => l.target \notin live[c]
      BY DEF ClientInv
    <3>2. c = b => proc[c] # "exited"
      BY <1>1
    <3> QED BY <1>1, <1>5, <2>1, <3>1, <3>2, ZenonT(60) DEF CauseInv
  <2>2. CASE c = b /\ l.from = b /\ l.target \in F \ reported[b] /\ l.status = "Fail"
    BY <1>3, <1>5, <2>2
  <2> QED BY <1>4, <2>1, <2>2
<1>8. CauseInv'
  BY <1>7 DEF CauseInv, Eclipsed
<1> QED BY <1>4, <1>6, <1>8

LEMMA ReadKeepsCauses ==
  ASSUME VInv, NEW b \in Builds, NEW r \in Readers, Read(b, r)
  PROVE  WrittenInv' /\ ClientInv' /\ CauseInv'
<1> USE DEF VInv, IInv
<1>1. /\ UNCHANGED <<proc, file, written, live, over, reported, failing>>
      /\ ReadLine(b, r, reader[b][r])
  BY DEF Read, clientVars, fileVars
<1>2. PICK l \in Cells : l # Hole
                         /\ delivered' \in {delivered, [delivered EXCEPT ![b] = @ \cup {l}]}
  BY <1>1, ZenonT(60) DEF ReadLine, Cells
<1>3. ASSUME NEW c \in Builds, NEW m \in delivered'[c] PROVE m \in written'[m.from]
  <2>0. delivered \in [Builds -> SUBSET Lines]
    BY DEF TypeOK
  <2>1. m \in delivered[c] \/ m = l
    BY <1>2, <2>0
  <2> QED BY <1>1, <1>2, <2>1 DEF WrittenInv
<1>4. WrittenInv'
  BY <1>1, <1>3 DEF WrittenInv, Cells
<1> QED BY <1>1, <1>4 DEF ClientInv, CauseInv, Eclipsed

\* The other actions write nothing, and report nothing.
LEMMA OthersKeepCauses ==
  ASSUME VInv, NEW b \in Builds,
         \/ Prepare(b) \/ Spawn(b) \/ EndSpy(b) \/ Cancel(b) \/ Open(b) \/ Exit(b)
         \/ BuildCancel(b)
         \/ \E r \in Pollers : Poll(b, r)
         \/ \E r \in Readers : ReadEnds(b, r)
         \/ \E t \in Targets : TargetStarts(b, t)
  PROVE  WrittenInv' /\ ClientInv' /\ CauseInv'
<1> USE DEF VInv, IInv
<1>1. /\ UNCHANGED <<delivered, written, failing>>
      /\ file' = file \/ file' = <<>>
  BY Zenon DEF Prepare, Spawn, EndSpy, Cancel, Open, Exit, BuildCancel, Poll, ReadEnds,
               TargetStarts, spyVars, clientVars, fileVars
<1>2. WrittenInv'
  <2>1. Len(<<>>) = 0
    OBVIOUS
  <2> QED BY <1>1, <2>1 DEF WrittenInv, Cells
<1>3. CASE Exit(b)
  <2>1. /\ proc' = [proc EXCEPT ![b] = "exited"]
        /\ live' = [live EXCEPT ![b] = {}] /\ over' = [over EXCEPT ![b] = {}]
        /\ reported' = [reported EXCEPT ![b] = {}]
    BY <1>3 DEF Exit
  <2>2. ClientInv'
    BY <1>1, <2>1 DEF ClientInv, Eclipsed, TypeOK
  <2>3. /\ proc'[b] = "exited"
        /\ \A c \in Builds \ {b} : proc'[c] = proc[c] /\ over'[c] = over[c]
    BY <2>1 DEF TypeOK
  <2>4. CauseInv'
    BY <1>1, <2>3 DEF CauseInv, Eclipsed
  <2> QED BY <1>2, <2>2, <2>4
<1>4. ASSUME NEW t \in Targets, TargetStarts(b, t) PROVE ClientInv' /\ CauseInv'
  <2>1. /\ proc[b] = "open" /\ t \in Covers[b] \ (live[b] \cup over[b])
        /\ live' = [live EXCEPT ![b] = @ \cup {t}]
        /\ UNCHANGED <<proc, over, reported>>
    BY <1>4 DEF TargetStarts
  <2>2. t \notin failing[b]
    BY <2>1 DEF ClientInv
  <2>3. live'[b] = live[b] \cup {t} /\ \A c \in Builds \ {b} : live'[c] = live[c]
    BY <2>1 DEF TypeOK
  <2>4. ClientInv'
    <3>1. ASSUME NEW c \in Builds
          PROVE  /\ live'[c] \subseteq Covers[c] /\ live'[c] \cap over[c] = {}
                 /\ proc[c] = "exited" \/ failing[c] \subseteq live'[c] \cup over[c]
                 /\ \A u \in live'[c] \cap failing[c] : u \in reported[c] \/ Eclipsed(c, u)
      <4>1. /\ live[c] \subseteq Covers[c] /\ live[c] \cap over[c] = {}
            /\ proc[c] = "exited" \/ failing[c] \subseteq live[c] \cup over[c]
            /\ \A u \in live[c] \cap failing[c] : u \in reported[c] \/ Eclipsed(c, u)
        BY DEF ClientInv
      <4>2. CASE c = b
        BY <2>1, <2>2, <2>3, <4>1, <4>2
      <4>3. CASE c # b
        BY <2>3, <4>1, <4>3
      <4> QED BY <4>2, <4>3
    <3> QED BY <1>1, <2>1, <3>1 DEF ClientInv, Eclipsed
  <2> QED BY <1>1, <2>1, <2>4 DEF CauseInv, Eclipsed
<1>5. ASSUME \/ Prepare(b) \/ EndSpy(b) \/ Cancel(b) \/ BuildCancel(b)
             \/ \E r \in Pollers : Poll(b, r)
             \/ \E r \in Readers : ReadEnds(b, r)
      PROVE  ClientInv' /\ CauseInv'
  <2>1. UNCHANGED <<proc, live, over, reported>>
    BY <1>5, Zenon DEF Prepare, EndSpy, Cancel, BuildCancel, Poll, ReadEnds, clientVars
  <2> QED BY <1>1, <2>1 DEF ClientInv, CauseInv, Eclipsed
<1>6. ASSUME Spawn(b) \/ Open(b) PROVE ClientInv' /\ CauseInv'
  <2>1. /\ proc[b] # "exited" /\ \A c \in Builds \ {b} : proc'[c] = proc[c]
        /\ UNCHANGED <<live, over, reported>>
    BY <1>6 DEF Spawn, Open, clientVars, TypeOK
  <2> QED BY <1>1, <2>1, ZenonT(60) DEF ClientInv, CauseInv, Eclipsed
<1> QED BY <1>2, <1>3, <1>4, <1>5, <1>6, Zenon

\* No listener ever hears a verdict without a cause in the build that gave it.
THEOREM Causes == Spec => []VerdictHasCause
<1>1. Init => WrittenInv /\ ClientInv /\ CauseInv
  <2>1. Len(<<>>) = 0
    OBVIOUS
  <2> QED BY <2>1 DEF Init, WrittenInv, ClientInv, CauseInv, Cells
<1>2. ASSUME IInv, WrittenInv /\ ClientInv /\ CauseInv, [Next]_vars
      PROVE  (WrittenInv /\ ClientInv /\ CauseInv)'
  <2> VInv
    BY <1>2 DEF VInv
  <2>1. CASE UNCHANGED vars
    <3>1. UNCHANGED <<delivered, proc, file, written, live, over, reported, failing>>
      BY <2>1 DEF vars, spyVars, clientVars, fileVars
    <3>2. WrittenInv'
      BY <1>2, <3>1 DEF WrittenInv, Cells
    <3>3. ClientInv' /\ CauseInv'
      BY <1>2, <3>1, SMTT(40) DEF ClientInv, CauseInv, Eclipsed
    <3> QED BY <3>2, <3>3
  <2>2. ASSUME NEW b \in Builds, NEW r \in Readers, Read(b, r)
        PROVE  WrittenInv' /\ ClientInv' /\ CauseInv'
    BY <2>2, ReadKeepsCauses
  <2>3. ASSUME NEW b \in Builds, NEW t \in Targets, TargetEnds(b, t)
        PROVE  WrittenInv' /\ ClientInv' /\ CauseInv'
    BY <2>3, TargetEndsKeeps
  <2>4. ASSUME NEW b \in Builds, NEW S \in SUBSET Targets, TaskFails(b, S)
        PROVE  WrittenInv' /\ ClientInv' /\ CauseInv'
    BY <2>4, TaskFailsKeeps
  <2>5. ASSUME NEW b \in Builds,
               \/ Prepare(b) \/ Spawn(b) \/ EndSpy(b) \/ Cancel(b) \/ Open(b) \/ Exit(b)
               \/ BuildCancel(b)
               \/ \E r \in Pollers : Poll(b, r)
               \/ \E r \in Readers : ReadEnds(b, r)
               \/ \E t \in Targets : TargetStarts(b, t)
        PROVE  WrittenInv' /\ ClientInv' /\ CauseInv'
    BY <2>5, OthersKeepCauses
  <2> QED BY <1>2, <2>1, <2>2, <2>3, <2>4, <2>5, Zenon DEF Next
<1>3. IInv /\ WrittenInv /\ CauseInv => VerdictHasCause
  <2> SUFFICES ASSUME IInv, WrittenInv, CauseInv, NEW b \in Builds, NEW c \in Builds,
                      NEW l \in delivered[c], l.from = b
               PROVE  /\ l.status = "Fail" =>
                           \E t \in failing[b] : t = l.target \/ <<l.target, t>> \in Prefix
                      /\ l.status = "Success" /\ l.target \in failing[b] =>
                           \E u \in Covers[b] : <<u, l.target>> \in Prefix
    BY DEF VerdictHasCause
  <2>1. l \in written[b]
    BY DEF WrittenInv
  <2> QED BY <2>1 DEF CauseInv, Eclipsed
<1> QED BY <1>1, <1>2, <1>3, Invariance, PTL DEF Spec

-----------------------------------------------------------------------------
(* What a spy that has the file to itself hears *)

\* A build that is not prepared has nothing; of the others one may be heard, the
\* last.  What is not cancelled ends after its xcodebuild.
StageInv ==
    \A b \in Builds :
        /\ phase[b] = "none" =>
             /\ cursor[b] = 0 /\ proc[b] = "none" /\ b \notin cancelled
             /\ delivered[b] = {} /\ written[b] = {} /\ sent[b] = {}
        /\ proc[b] \in {"none", "spawned"} => written[b] = {}
        /\ Spying(b) => b = latest /\ b \notin cancelled
        /\ phase[b] = "spying" => reader[b][Final] = Idle
        /\ phase[b] = "ending" => proc[b] = "exited"
        /\ phase[b] = "done" /\ b \notin cancelled => proc[b] = "exited"

\* While a spy has the file to itself, this holds what its client wrote, each
\* target once, and the client writes at its end.
FileInv ==
    \A b \in Builds : Spying(b) /\ b \notin messy =>
        /\ \A i \in 1 .. Len(file) : file[i] \in Lines
        /\ \A i, j \in 1 .. Len(file) : file[i].target = file[j].target => i = j
        /\ \A l \in written[b] : \E i \in 1 .. Len(file) : file[i] = l
        /\ proc[b] \in {"none", "spawned"} => file = <<>>
        /\ proc[b] = "open" =>
             /\ offset[b] = Len(file)
             /\ \A i \in 1 .. Len(file) : file[i].target \in reported[b]

\* It has heard what is before its cursor, and what the last read is past.
HeardInv ==
    \A b \in Builds : Spying(b) /\ b \notin messy =>
        /\ \A m \in sent[b] : \E i \in 1 .. Len(file) :
               m = <<file[i].target, file[i].status>> /\ file[i] \in delivered[b]
        /\ \A i \in 1 .. Len(file) : i <= reader[b][Final] => file[i] \in delivered[b]
        /\ phase[b] = "spying" =>
             /\ cursor[b] <= Len(file)
             /\ \A i \in 1 .. Len(file) : i <= cursor[b] => file[i] \in delivered[b]
             /\ \A r \in Pollers : reader[b][r] \in {Idle, cursor[b]}
             /\ \A r, s \in Pollers : reader[b][r] # Idle /\ reader[b][s] # Idle => r = s

CInv == StageInv /\ FileInv /\ HeardInv /\ CleanSpyIsComplete

\* What the invariant reads.
heardVars == <<latest, phase, proc, cancelled, messy, cursor, reader, sent, delivered, file, offset,
               written, reported>>

\* prepare: the file is empty, and the spies before it are over.
LEMMA PrepareCleans ==
  ASSUME IInv, CInv, NEW b \in Builds, Prepare(b) PROVE CInv'
<1> USE ConstantsOK DEF IInv, CInv
<1>1. /\ b = latest + 1 /\ latest' = b /\ \A c \in Builds : c < b => phase[c] = "done"
      /\ phase' = [phase EXCEPT ![b] = "spying"] /\ file' = <<>>
      /\ UNCHANGED <<cancelled, cursor, reader, sent, delivered, proc, messy, offset, written, reported>>
  BY DEF Prepare, clientVars
<1>2. Len(file') = 0
  BY <1>1
<1>3. latest \in Nat /\ phase[b] = "none"
  BY <1>1 DEF TypeOK, OrderInv
<1>4. \A c \in Builds : c # b => phase'[c] = phase[c] /\ ~Spying(c)
  <2>1. ASSUME NEW c \in Builds, c # b PROVE phase[c] \in {"none", "done"}
    <3>1. c < b \/ c > latest BY <1>1, <1>3, <2>1
    <3>2. CASE c < b BY <1>1, <3>2
    <3>3. CASE c > latest BY <1>3, <3>3 DEF OrderInv, TypeOK
    <3> QED BY <3>1, <3>2, <3>3
  <2> QED BY <1>1, <2>1 DEF TypeOK, Spying
<1>5. phase'[b] = "spying" /\ \A c \in Builds : Spying(c)' => c = b
  BY <1>1, <1>4 DEF TypeOK, Spying
<1>6. /\ cursor[b] = 0 /\ proc[b] = "none" /\ b \notin cancelled
      /\ delivered[b] = {} /\ written[b] = {} /\ sent[b] = {}
  BY <1>3 DEF StageInv
<1>7. \A r \in Readers : reader[b][r] = Idle
  BY <1>3 DEF OrderInv, Spying
<1>8. StageInv'
  BY <1>1, <1>4, <1>5, <1>6, <1>7 DEF StageInv
<1>9. FileInv'
  BY <1>1, <1>2, <1>5, <1>6 DEF FileInv
<1>10. HeardInv'
  BY <1>1, <1>2, <1>5, <1>6, <1>7 DEF HeardInv
<1>11. CleanSpyIsComplete'
  BY <1>1, <1>4, <1>5 DEF CleanSpyIsComplete
<1> QED BY <1>8, <1>9, <1>10, <1>11

\* A read of the loop begins at the cursor; if it is the second the spy is messy.
LEMMA PollCleans ==
  ASSUME IInv, CInv, NEW b \in Builds, NEW r \in Pollers, Poll(b, r) PROVE CInv'
<1> USE ConstantsOK DEF IInv, CInv
<1>1. /\ Spying(b) /\ reader[b][r] = Idle /\ r # Final
      /\ reader' = [reader EXCEPT ![b][r] = cursor[b]]
      /\ messy' = messy \cup {c \in {b} : r # Final /\ \E s \in Pollers : reader[b][s] # Idle}
      /\ UNCHANGED <<latest, phase, proc, cancelled, cursor, sent, delivered, file, offset,
                     written, reported>>
  BY SpyAssumption DEF Poll, StartRead, clientVars, fileVars
<1>2. /\ messy \subseteq messy' /\ \A c \in messy' : c \in messy \/ c = b
      /\ b \notin messy' => \A s \in Pollers : reader[b][s] = Idle
  BY <1>1
<1>3. /\ \A c \in Builds : c # b => reader'[c] = reader[c]
      /\ reader'[b][r] = cursor[b]
      /\ \A s \in Readers : s # r => reader'[b][s] = reader[b][s]
  BY <1>1 DEF TypeOK
<1>4. StageInv'
  BY <1>1, <1>3 DEF StageInv, Spying
<1>5. FileInv'
  BY <1>1, <1>2 DEF FileInv, Spying
<1>6. HeardInv'
  <2> SUFFICES ASSUME NEW c \in Builds, Spying(c), c \notin messy'
               PROVE  /\ \A m \in sent[c] : \E i \in 1 .. Len(file) :
                             m = <<file[i].target, file[i].status>> /\ file[i] \in delivered[c]
                      /\ \A i \in 1 .. Len(file) : i <= reader'[c][Final] => file[i] \in delivered[c]
                      /\ phase[c] = "spying" =>
                           /\ cursor[c] <= Len(file)
                           /\ \A i \in 1 .. Len(file) : i <= cursor[c] => file[i] \in delivered[c]
                           /\ \A s \in Pollers : reader'[c][s] \in {Idle, cursor[c]}
                           /\ \A s, t \in Pollers : reader'[c][s] # Idle /\ reader'[c][t] # Idle => s = t
    BY <1>1 DEF HeardInv, Spying
  <2>1. reader'[c][Final] = reader[c][Final]
    BY <1>1, <1>3
  <2>2. \A s \in Pollers : reader'[c][s] \in {Idle, cursor[c]} \/ reader'[c][s] = reader[c][s]
    BY <1>1, <1>3
  <2>3. CASE c = b
    <3>1. \A s \in Pollers : s # r => reader'[c][s] = Idle
      BY <1>2, <1>3, <2>3
    <3> QED BY <1>2, <2>1, <2>2, <2>3, <3>1 DEF HeardInv
  <2>4. CASE c # b
    BY <1>2, <1>3, <2>4 DEF HeardInv
  <2> QED BY <2>3, <2>4
<1>7. CleanSpyIsComplete'
  BY <1>1, <1>2 DEF CleanSpyIsComplete
<1> QED BY <1>4, <1>5, <1>6, <1>7

\* The last read begins at the cursor too, when xcodebuild is gone.
LEMMA EndSpyCleans ==
  ASSUME IInv, CInv, NEW b \in Builds, EndSpy(b) PROVE CInv'
<1> USE ConstantsOK DEF IInv, CInv
<1>1. /\ phase[b] = "spying" /\ proc[b] = "exited"
      /\ phase' = [phase EXCEPT ![b] = "ending"]
      /\ reader' = [reader EXCEPT ![b][Final] = cursor[b]]
      /\ messy' = messy
      /\ UNCHANGED <<latest, proc, cancelled, cursor, sent, delivered, file, offset,
                     written, reported>>
  BY DEF EndSpy, StartRead, clientVars, fileVars
<1>2. /\ \A c \in Builds : c # b => reader'[c] = reader[c] /\ phase'[c] = phase[c]
      /\ reader'[b][Final] = cursor[b] /\ phase'[b] = "ending"
  BY <1>1 DEF TypeOK
<1>3. \A c \in Builds : Spying(c)' <=> Spying(c)
  BY <1>1, <1>2 DEF Spying
<1>4. StageInv'
  BY <1>1, <1>2, <1>3 DEF StageInv
<1>5. FileInv'
  BY <1>1, <1>3 DEF FileInv
<1>6. HeardInv'
  <2>1. ASSUME NEW c \in Builds, Spying(c)', c \notin messy
        PROVE  /\ \A m \in sent[c] : \E i \in 1 .. Len(file) :
                     m = <<file[i].target, file[i].status>> /\ file[i] \in delivered[c]
               /\ \A i \in 1 .. Len(file) : i <= reader'[c][Final] => file[i] \in delivered[c]
    BY <1>1, <1>2, <1>3, <2>1 DEF HeardInv
  <2>2. \A c \in Builds : phase'[c] = "spying" => c # b /\ phase[c] = "spying"
    BY <1>2
  <2> QED BY <1>1, <1>2, <1>3, <2>1, <2>2 DEF HeardInv
<1>7. CleanSpyIsComplete'
  BY <1>1, <1>2 DEF CleanSpyIsComplete
<1> QED BY <1>4, <1>5, <1>6, <1>7

\* One line: in a file without holes it is the next one, and it is heard now or
\* was heard before.
LEMMA ReadCleans ==
  ASSUME IInv, CInv, NEW b \in Builds, NEW r \in Readers, Read(b, r) PROVE CInv'
<1> USE ConstantsOK DEF IInv, CInv
<1> DEFINE p == reader[b][r]
<1>1. /\ p # Idle /\ Spying(b) /\ ReadLine(b, r, p)
      /\ UNCHANGED <<latest, phase, cancelled, proc, messy, reported, file, offset, written>>
  BY DEF Read, OrderInv, clientVars, fileVars
<1>2. p \in Nat /\ cursor[b] \in Nat /\ Len(file) \in Nat
  BY <1>1 DEF TypeOK
<1>3. PICK next \in 1 .. Len(file) :
        LET line == file[next]
            new  == next = p + 1 /\ <<line.target, line.status>> \notin sent[b]
        IN
        /\ next > p /\ \A j \in p + 1 .. next - 1 : file[j] = Hole
        /\ line # Hole
        /\ reader' = [reader EXCEPT ![b][r] = next]
        /\ cursor' = [cursor EXCEPT ![b] = @ + next - p]
        /\ sent' = IF new THEN [sent EXCEPT ![b] = @ \cup {<<line.target, line.status>>}]
                   ELSE sent
        /\ delivered' = IF new THEN [delivered EXCEPT ![b] = @ \cup {line}] ELSE delivered
  BY <1>1 DEF ReadLine
<1> DEFINE line == file[next]
           pair == <<line.target, line.status>>
<1>4. /\ \A c \in Builds : c # b =>
           /\ reader'[c] = reader[c] /\ cursor'[c] = cursor[c]
           /\ sent'[c] = sent[c] /\ delivered'[c] = delivered[c]
      /\ reader'[b][r] = next /\ cursor'[b] = cursor[b] + next - p
      /\ \A s \in Readers : s # r => reader'[b][s] = reader[b][s]
      /\ delivered[b] \subseteq delivered'[b]
  BY <1>3 DEF TypeOK
<1>5. StageInv'
  <2>1. \A c \in Builds : phase[c] = "none" => c # b
    BY <1>1 DEF Spying
  <2>2. \A c \in Builds : Spying(c)' <=> Spying(c)
    BY <1>1 DEF Spying
  <2>3. phase[b] = "spying" => r # Final
    BY <1>1 DEF StageInv
  <2>4. \A c \in Builds : phase[c] = "spying" => reader'[c][Final] = reader[c][Final]
    BY <1>4, <2>3
  <2> QED BY <1>1, <1>4, <2>1, <2>2, <2>4 DEF StageInv
<1>6. FileInv'
  BY <1>1 DEF FileInv, Spying
<1>7. CleanSpyIsComplete'
  BY <1>1, <1>4 DEF CleanSpyIsComplete
<1>8. HeardInv'
  <2>1. ASSUME b \notin messy
        PROVE  /\ next = p + 1
               /\ line \in delivered'[b]
               /\ \A m \in sent'[b] : \E i \in 1 .. Len(file) :
                     m = <<file[i].target, file[i].status>> /\ file[i] \in delivered'[b]
    <3>1. \A i \in 1 .. Len(file) : file[i] # Hole
      BY <1>1, <2>1, LinesOK DEF FileInv
    <3>2. next = p + 1
      <4> SUFFICES ASSUME next # p + 1 PROVE FALSE
        OBVIOUS
      <4>1. p + 1 \in p + 1 .. next - 1 /\ p + 1 \in 1 .. Len(file)
        BY <1>2, <1>3
      <4> QED BY <1>3, <3>1, <4>1
    <3>3. \A m \in sent[b] : \E i \in 1 .. Len(file) :
              m = <<file[i].target, file[i].status>> /\ file[i] \in delivered[b]
      BY <1>1, <2>1 DEF HeardInv
    <3>4. CASE pair \in sent[b]
      <4>1. sent' = sent /\ delivered' = delivered
        BY <1>3, <3>4
      <4>2. PICK i \in 1 .. Len(file) :
                pair = <<file[i].target, file[i].status>> /\ file[i] \in delivered[b]
        BY <3>3, <3>4
      <4>3. i = next
        BY <1>1, <2>1, <4>2 DEF FileInv
      <4> QED BY <3>2, <3>3, <4>1, <4>2, <4>3
    <3>5. CASE pair \notin sent[b]
      <4>1. /\ sent' = [sent EXCEPT ![b] = @ \cup {pair}]
            /\ delivered' = [delivered EXCEPT ![b] = @ \cup {line}]
        BY <1>3, <3>2, <3>5
      <4>2. sent'[b] = sent[b] \cup {pair} /\ line \in delivered'[b]
        BY <4>1 DEF TypeOK
      <4> QED BY <1>4, <3>2, <3>3, <4>2
    <3> QED BY <3>4, <3>5
  <2>2. ASSUME b \notin messy, NEW i \in 1 .. Len(file), i <= next,
               i <= p => file[i] \in delivered[b]
        PROVE  file[i] \in delivered'[b]
    <3>1. CASE i <= p BY <1>4, <2>2, <3>1
    <3>2. CASE i = next BY <2>1, <2>2, <3>2
    <3> QED BY <1>2, <2>1, <2>2, <3>1, <3>2
  <2>3. ASSUME b \notin messy
        PROVE  \A i \in 1 .. Len(file) : i <= reader'[b][Final] => file[i] \in delivered'[b]
    <3>1. \A i \in 1 .. Len(file) : i <= reader[b][Final] => file[i] \in delivered[b]
      BY <1>1, <2>3 DEF HeardInv
    <3>2. CASE r = Final BY <1>4, <2>2, <2>3, <3>1, <3>2
    <3>3. CASE r # Final BY <1>4, <3>1, <3>3
    <3> QED BY <3>2, <3>3
  <2>4. ASSUME b \notin messy, phase[b] = "spying"
        PROVE  /\ cursor'[b] <= Len(file)
               /\ \A i \in 1 .. Len(file) : i <= cursor'[b] => file[i] \in delivered'[b]
               /\ \A s \in Pollers : reader'[b][s] \in {Idle, cursor'[b]}
               /\ \A s, t \in Pollers : reader'[b][s] # Idle /\ reader'[b][t] # Idle => s = t
    <3>1. /\ \A i \in 1 .. Len(file) : i <= cursor[b] => file[i] \in delivered[b]
          /\ \A s \in Pollers : reader[b][s] \in {Idle, cursor[b]}
          /\ \A s, t \in Pollers : reader[b][s] # Idle /\ reader[b][t] # Idle => s = t
          /\ reader[b][Final] = Idle
      BY <1>1, <2>4 DEF HeardInv, StageInv
    <3>2. r \in Pollers /\ r # Final /\ p = cursor[b]
      BY <1>1, <3>1 DEF Readers
    <3>3. cursor'[b] = next
      BY <1>2, <1>4, <3>2
    <3>4. \A s \in Pollers : s # r => reader'[b][s] = Idle
      BY <1>1, <1>4, <3>1, <3>2
    <3>5. \A i \in 1 .. Len(file) : i <= next => file[i] \in delivered'[b]
      BY <2>2, <2>4, <3>1, <3>2
    <3> QED BY <1>2, <1>4, <3>1, <3>2, <3>3, <3>4, <3>5
  <2> QED BY <1>1, <1>4, <2>1, <2>3, <2>4 DEF HeardInv, Spying
<1> QED BY <1>5, <1>6, <1>7, <1>8

\* A spy that is dropped is heard no more; if it was not cancelled, its xcodebuild
\* is gone and all is heard.
LEMMA DropCleans ==
  ASSUME IInv, CInv, NEW b \in Builds, Spying(b), Drop(b),
         cancelled' = cancelled \cup {b} \/ (cancelled' = cancelled /\ proc[b] = "exited"
                                               /\ (b \notin messy => written[b] \subseteq delivered[b])),
         UNCHANGED <<latest, delivered, proc, messy, file, offset, written, reported>>
  PROVE  CInv'
<1> USE ConstantsOK DEF IInv, CInv
<1>1. /\ \A c \in Builds : c # b => reader'[c] = reader[c] /\ phase'[c] = phase[c]
                                     /\ cursor'[c] = cursor[c] /\ sent'[c] = sent[c]
      /\ phase'[b] = "done"
  BY DEF Drop, TypeOK
<1>2. \A c \in Builds : Spying(c)' => c # b /\ Spying(c)
  BY <1>1 DEF Spying
<1>3. \A c \in Builds : c # b => (c \in cancelled' <=> c \in cancelled)
  OBVIOUS
<1>4. StageInv'
  BY <1>1, <1>2, <1>3 DEF StageInv, Spying
<1>5. FileInv'
  BY <1>2 DEF FileInv
<1>6. HeardInv'
  BY <1>1, <1>2 DEF HeardInv
<1>7. CleanSpyIsComplete'
  BY <1>1, <1>3 DEF CleanSpyIsComplete
<1> QED BY <1>4, <1>5, <1>6, <1>7

\* The last read is over at the end of the file.
LEMMA ReadEndsCleans ==
  ASSUME IInv, CInv, NEW b \in Builds, NEW r \in Readers, ReadEnds(b, r) PROVE CInv'
<1> USE ConstantsOK DEF IInv, CInv
<1>1. /\ reader[b][r] >= Len(file)
      /\ UNCHANGED <<latest, cancelled, delivered, proc, messy, file, offset, written, reported>>
  BY DEF ReadEnds, clientVars, fileVars
<1>2. reader[b][r] # Idle /\ Spying(b)
  <2>1. Len(file) \in Nat BY DEF TypeOK
  <2>2. reader[b][r] # Idle BY <1>1, <2>1 DEF Idle
  <2> QED BY <2>2 DEF OrderInv
<1>3. CASE r = Final
  <2>1. Drop(b) BY <1>3 DEF ReadEnds
  <2>2. proc[b] = "exited"
    BY <1>2, <1>3 DEF StageInv, Spying
  <2>3. ASSUME b \notin messy PROVE written[b] \subseteq delivered[b]
    <3>1. ASSUME NEW l \in written[b] PROVE l \in delivered[b]
      <4>1. PICK i \in 1 .. Len(file) : file[i] = l
        BY <1>2, <2>3 DEF FileInv
      <4>2. i <= reader[b][Final]
        <5>1. reader[b][Final] \in Nat /\ Len(file) \in Nat
          BY <1>2, <1>3 DEF TypeOK
        <5> QED BY <1>1, <1>3, <5>1
      <4> QED BY <1>2, <2>3, <4>1, <4>2 DEF HeardInv
    <3> QED BY <3>1
  <2> QED BY <1>1, <1>2, <2>1, <2>2, <2>3, DropCleans
<1>4. CASE r # Final
  <2>1. reader' = [reader EXCEPT ![b][r] = Idle] /\ UNCHANGED <<phase, cursor, sent>> /\ r \in Pollers
    BY <1>4 DEF ReadEnds, Readers
  <2>2. /\ \A c \in Builds : c # b => reader'[c] = reader[c]
        /\ reader'[b][r] = Idle
        /\ \A s \in Readers : s # r => reader'[b][s] = reader[b][s]
    BY <2>1 DEF TypeOK
  <2>3. StageInv' BY <1>1, <1>4, <2>1, <2>2 DEF StageInv, Spying
  <2>4. FileInv' BY <1>1, <2>1 DEF FileInv, Spying
  <2>5. \A c \in Builds : /\ reader'[c][Final] = reader[c][Final]
                          /\ \A s \in Pollers : reader'[c][s] \in {reader[c][s], Idle}
    BY <1>4, <2>2
  <2>6. HeardInv' BY <1>1, <2>1, <2>5 DEF HeardInv, Spying
  <2>7. CleanSpyIsComplete' BY <1>1, <2>1 DEF CleanSpyIsComplete
  <2> QED BY <2>3, <2>4, <2>6, <2>7
<1> QED BY <1>3, <1>4

\* The token.
LEMMA CancelCleans ==
  ASSUME IInv, CInv, NEW b \in Builds, Cancel(b) PROVE CInv'
<1>1. /\ Spying(b) /\ Drop(b) /\ cancelled' = cancelled \cup {b}
      /\ UNCHANGED <<latest, delivered, proc, messy, file, offset, written, reported>>
  BY DEF Cancel, clientVars, fileVars
<1> QED BY <1>1, DropCleans

\* The client of a build, up to its first line, and its end.
LEMMA ClientCleans ==
  ASSUME IInv, CInv, NEW b \in Builds, Spawn(b) \/ Open(b) \/ Exit(b) PROVE CInv'
<1> USE ConstantsOK DEF IInv, CInv
<1>1. UNCHANGED <<latest, phase, cancelled, cursor, reader, sent, delivered, written>>
  BY DEF Spawn, Open, Exit, spyVars, fileVars
<1>2. \A c \in Builds : Spying(c)' <=> Spying(c)
  BY <1>1 DEF Spying
<1>3. \A c \in Builds : c # b => proc'[c] = proc[c] /\ offset'[c] = offset[c] /\ reported'[c] = reported[c]
  BY DEF Spawn, Open, Exit, TypeOK, clientVars, fileVars
<1>4. messy \subseteq messy'
  BY DEF Spawn, Open, Exit
<1>5. CASE Spawn(b)
  <2>1. /\ phase[b] = "spying" /\ proc[b] = "none" /\ proc'[b] = "spawned"
        /\ UNCHANGED <<file, messy, offset, reported>>
    BY <1>5 DEF Spawn, TypeOK, clientVars, fileVars
  <2>2. StageInv' BY <1>1, <1>2, <1>3, <2>1 DEF StageInv
  <2>3. FileInv' BY <1>1, <1>2, <1>3, <2>1 DEF FileInv
  <2>4. HeardInv' BY <1>1, <1>2, <2>1 DEF HeardInv
  <2>5. CleanSpyIsComplete' BY <1>1, <2>1 DEF CleanSpyIsComplete
  <2> QED BY <2>2, <2>3, <2>4, <2>5
<1>6. CASE Open(b)
  <2>1. /\ proc[b] = "spawned" /\ proc'[b] = "open" /\ file' = <<>> /\ offset'[b] = 0
        /\ messy' = messy \cup Others(b) /\ reported' = reported
    BY <1>6 DEF Open, TypeOK, clientVars
  <2>2. StageInv' BY <1>1, <1>2, <1>3, <2>1 DEF StageInv
  <2>3. Len(file') = 0 BY <2>1
  <2>4. ASSUME NEW c \in Builds, Spying(c), c \notin messy'
        PROVE  c = b /\ file = <<>> /\ c \notin messy
    <3>1. c = b BY <2>1, <2>4 DEF Others
    <3> QED BY <1>4, <2>1, <2>4, <3>1 DEF FileInv
  <2>5. FileInv'
    BY <1>1, <1>2, <2>1, <2>3, <2>4 DEF FileInv, StageInv
  <2>6. HeardInv'
    <3>1. \A c \in Builds : Spying(c)' /\ c \notin messy' => file' = file /\ Spying(c) /\ c \notin messy
      BY <1>2, <2>1, <2>4
    <3> QED BY <1>1, <3>1 DEF HeardInv
  <2>7. CleanSpyIsComplete' BY <1>1, <1>4 DEF CleanSpyIsComplete
  <2> QED BY <2>2, <2>5, <2>6, <2>7
<1>7. CASE Exit(b)
  <2>1. /\ proc[b] # "none" /\ proc'[b] = "exited"
        /\ UNCHANGED <<file, messy>>
    BY <1>7 DEF Exit, TypeOK
  <2>2. StageInv' BY <1>1, <1>2, <1>3, <2>1 DEF StageInv
  <2>3. FileInv' BY <1>1, <1>2, <1>3, <2>1 DEF FileInv
  <2>4. HeardInv' BY <1>1, <1>2, <2>1 DEF HeardInv
  <2>5. CleanSpyIsComplete' BY <1>1, <2>1 DEF CleanSpyIsComplete
  <2> QED BY <2>2, <2>3, <2>4, <2>5
<1> QED BY <1>5, <1>6, <1>7

\* The client of a build appends n lines, each about another target of S.
Appends(b, S, n, lines) ==
    /\ \A i \in 1 .. n : lines[i].target \in S
    /\ \A i, j \in 1 .. n : lines[i].target = lines[j].target => i = j
    /\ Len(file') = Len(file) + n
    /\ \A i \in 1 .. Len(file') :
          file'[i] = IF i <= Len(file) THEN file[i] ELSE lines[i - Len(file)]
    /\ offset' = [offset EXCEPT ![b] = @ + n]
    /\ written' = [written EXCEPT ![b] = @ \cup {lines[i] : i \in 1 .. n}]

\* At the end of a file without holes a report appends its lines.
LEMMA ReportAppends ==
  ASSUME IInv, NEW b \in Builds, NEW S \in SUBSET Targets, NEW status \in Statuses,
         latest \in Builds, Report(b, S, status), offset[b] = Len(file)
  PROVE  \E n \in Nat : \E lines \in [1 .. n -> Lines] : Appends(b, S, n, lines)
<1> USE ConstantsOK DEF IInv
<1> DEFINE n == Cardinality(S)
           Line(t) == [from |-> b, target |-> t, status |-> status, epoch |-> latest]
<1>1. n \in Nat
  OBVIOUS
<1>2. \A t \in S : Line(t) \in Lines /\ Line(t).target = t
  BY DEF Lines, Statuses
<1>3. PICK order \in [1 .. n -> S] :
        /\ IsInjective(order)
        /\ WriteAt(offset[b], [i \in 1 .. n |-> Line(order[i])])
        /\ offset' = [offset EXCEPT ![b] = @ + n]
        /\ written' = [written EXCEPT ![b] = @ \cup Range([i \in 1 .. n |-> Line(order[i])])]
  BY DEF Report
<1> DEFINE lines == [i \in 1 .. n |-> Line(order[i])]
<1>4. /\ lines \in [1 .. n -> Lines]
      /\ \A i \in 1 .. n : lines[i].target = order[i] /\ order[i] \in S
  <2> HIDE DEF n
  <2> QED BY <1>2, <1>3
<1>5. \A i, j \in 1 .. n : lines[i].target = lines[j].target => i = j
  <2> HIDE DEF n, lines
  <2> QED BY <1>3, <1>4 DEF IsInjective
<1> HIDE DEF n, Line
<1>6. Len(lines) = n /\ Len(file) \in Nat
  <2> HIDE DEF lines
  <2> QED BY <1>1, <1>4 DEF TypeOK
<1>7. WriteAt(Len(file), lines) /\ Range(lines) = {lines[i] : i \in 1 .. n}
  BY <1>3 DEF Range
<1> HIDE DEF lines
<1>8. /\ Len(file') = Len(file) + n
      /\ \A i \in 1 .. Len(file') :
            file'[i] = IF i <= Len(file) THEN file[i] ELSE lines[i - Len(file)]
  <2>1. CASE lines = <<>>
    <3>1. n = 0 /\ file' = file BY <1>6, <1>7, <2>1 DEF WriteAt
    <3> QED BY <1>6, <3>1
  <2>2. CASE lines # <<>>
    <3> DEFINE end == Len(file) + n
    <3>1. ~(Len(file) > end) /\ end \in Nat
      BY <1>1, <1>6
    <3>2. file' = [i \in 1 .. end |->
                     IF i > Len(file) /\ i <= end THEN lines[i - Len(file)]
                     ELSE IF i <= Len(file) THEN file[i] ELSE Hole]
      BY <1>6, <1>7, <2>2, <3>1 DEF WriteAt
    <3> HIDE DEF end
    <3>3. Len(file') = end
      BY <3>1, <3>2
    <3>4. \A i \in 1 .. end :
            file'[i] = IF i <= Len(file) THEN file[i] ELSE lines[i - Len(file)]
      BY <1>6, <3>1, <3>2
    <3> QED BY <3>3, <3>4 DEF end
  <2> QED BY <2>1, <2>2
<1>9. written' = [written EXCEPT ![b] = @ \cup {lines[i] : i \in 1 .. n}]
  BY <1>3, <1>7 DEF lines
<1>10. /\ n \in Nat /\ lines \in [1 .. n -> Lines]
       /\ \A i \in 1 .. n : lines[i].target \in S
       /\ offset' = [offset EXCEPT ![b] = @ + n]
  BY <1>1, <1>3, <1>4
<1> HIDE DEF IInv
<1>11. Appends(b, S, n, lines)
  BY <1>5, <1>8, <1>9, <1>10 DEF Appends
<1> QED BY <1>10, <1>11

\* A report: who has the file to himself goes on having it, and nobody else had.
LEMMA ReportCleans ==
  ASSUME IInv, CInv, NEW b \in Builds, NEW T \in SUBSET Targets, NEW status \in Statuses,
         T \cap reported[b] = {}, proc[b] = "open", Report(b, T, status),
         UNCHANGED <<spyVars, proc>>
  PROVE  CInv'
<1> USE ConstantsOK DEF IInv, CInv, spyVars
<1>1. latest \in Builds
  BY PreparedOK
<1>2. /\ messy' = messy \cup (IF T = {} THEN {} ELSE Others(b))
      /\ reported' = [reported EXCEPT ![b] = @ \cup T]
  BY DEF Report
<1>3. \A c \in Builds : Spying(c)' <=> Spying(c)
  BY DEF Spying
<1>4. \A c \in Builds : c # b => written'[c] = written[c] /\ reported'[c] = reported[c]
                                  /\ offset'[c] = offset[c]
  BY DEF Report, TypeOK
<1>5. ASSUME NEW c \in Builds, c # b, Spying(c), c \notin messy'
      PROVE  file' = file /\ c \notin messy
  <2>1. T = {} /\ c \notin messy
    BY <1>2, <1>5 DEF Others
  <2>2. Cardinality(T) = 0
    BY <2>1, FS_EmptySet
  <2>3. PICK order : WriteAt(offset[b], [i \in 1 .. 0 |->
                       [from |-> b, target |-> order[i], status |-> status, epoch |-> latest]])
    BY <2>2 DEF Report
  <2>4. [i \in 1 .. 0 |-> [from |-> b, target |-> order[i], status |-> status, epoch |-> latest]] = <<>>
    OBVIOUS
  <2> QED BY <2>1, <2>3, <2>4 DEF WriteAt
<1>6. StageInv'
  BY <1>3, <1>4 DEF StageInv
<1>7. CleanSpyIsComplete'
  <2>1. ASSUME NEW c \in Builds, phase[c] = "done", c \notin cancelled \cup messy'
        PROVE  c # b /\ c \notin messy
    BY <1>2, <2>1 DEF StageInv
  <2> QED BY <1>4, <2>1 DEF CleanSpyIsComplete
<1>8. ASSUME Spying(b), b \notin messy
      PROVE  /\ \A i \in 1 .. Len(file') : file'[i] \in Lines
             /\ \A i, j \in 1 .. Len(file') : file'[i].target = file'[j].target => i = j
             /\ \A l \in written'[b] : \E i \in 1 .. Len(file') : file'[i] = l
             /\ offset'[b] = Len(file')
             /\ \A i \in 1 .. Len(file') : file'[i].target \in reported'[b]
             /\ Len(file) <= Len(file') /\ \A i \in 1 .. Len(file) : file'[i] = file[i]
  <2>1. /\ offset[b] = Len(file)
        /\ \A i \in 1 .. Len(file) : file[i] \in Lines /\ file[i].target \in reported[b]
        /\ \A i, j \in 1 .. Len(file) : file[i].target = file[j].target => i = j
        /\ \A l \in written[b] : \E i \in 1 .. Len(file) : file[i] = l
    BY <1>8 DEF FileInv
  <2>2. PICK n \in Nat : \E lines \in [1 .. n -> Lines] : Appends(b, T, n, lines)
    <3>1. Report(b, T, status) /\ offset[b] = Len(file)
      BY <2>1
    <3> HIDE DEF IInv, CInv, spyVars
    <3>2. IInv
      OBVIOUS
    <3> QED BY <1>1, <3>1, <3>2, ReportAppends
  <2>3. PICK lines \in [1 .. n -> Lines] :
            /\ \A i \in 1 .. n : lines[i].target \in T
            /\ \A i, j \in 1 .. n : lines[i].target = lines[j].target => i = j
            /\ Len(file') = Len(file) + n
            /\ \A i \in 1 .. Len(file') :
                  file'[i] = IF i <= Len(file) THEN file[i] ELSE lines[i - Len(file)]
            /\ offset' = [offset EXCEPT ![b] = @ + n]
            /\ written' = [written EXCEPT ![b] = @ \cup {lines[i] : i \in 1 .. n}]
    BY <2>2 DEF Appends
  <2>4. Len(file) \in Nat /\ offset'[b] = Len(file') /\ reported'[b] = reported[b] \cup T
        /\ written'[b] = written[b] \cup {lines[i] : i \in 1 .. n}
    BY <1>2, <2>1, <2>3 DEF TypeOK
  <2>5. \A i \in 1 .. Len(file) : i \in 1 .. Len(file') /\ file'[i] = file[i]
    BY <2>3, <2>4
  <2>6. ASSUME NEW k \in 1 .. n
        PROVE  Len(file) + k \in 1 .. Len(file') /\ file'[Len(file) + k] = lines[k]
    <3> DEFINE x == Len(file) + k
    <3>1. x \in 1 .. Len(file') /\ ~(x <= Len(file)) /\ x - Len(file) = k
      BY <2>3, <2>4
    <3> HIDE DEF x
    <3>2. x \in 1 .. Len(file') /\ file'[x] = lines[k]
      BY <2>3, <3>1
    <3> QED BY <3>2 DEF x
  <2>7. \A i \in 1 .. Len(file') : i \in 1 .. Len(file) \/ \E k \in 1 .. n : i = Len(file) + k
    <3> SUFFICES ASSUME NEW i \in 1 .. Len(file'), i \notin 1 .. Len(file)
                 PROVE  \E k \in 1 .. n : i = Len(file) + k
      OBVIOUS
    <3>1. i - Len(file) \in 1 .. n /\ i = Len(file) + (i - Len(file))
      BY <2>3, <2>4
    <3> QED BY <3>1
  <2>8. \A i \in 1 .. Len(file') : file'[i] \in Lines /\ file'[i].target \in reported'[b]
    <3> SUFFICES ASSUME NEW i \in 1 .. Len(file')
                 PROVE  file'[i] \in Lines /\ file'[i].target \in reported'[b]
      OBVIOUS
    <3>1. CASE i \in 1 .. Len(file)
      <4>1. file'[i] = file[i] BY <2>5, <3>1
      <4> QED BY <2>1, <2>4, <3>1, <4>1
    <3>2. ASSUME NEW k \in 1 .. n, i = Len(file) + k
          PROVE  file'[i] \in Lines /\ file'[i].target \in reported'[b]
      <4>1. file'[i] = lines[k] BY <2>6, <3>2
      <4>2. lines[k] \in Lines /\ lines[k].target \in T BY <2>3
      <4> QED BY <2>4, <4>1, <4>2
    <3> QED BY <2>7, <3>1, <3>2
  <2>9. ASSUME NEW i \in 1 .. Len(file'), NEW j \in 1 .. Len(file'), file'[i].target = file'[j].target
        PROVE  i = j
    <3>1. CASE i \in 1 .. Len(file) /\ j \in 1 .. Len(file)
      BY <2>1, <2>5, <2>9, <3>1
    <3>2. ASSUME NEW k \in 1 .. n, NEW m \in 1 .. n, i = Len(file) + k, j = Len(file) + m
          PROVE  i = j
      <4>1. lines[k].target = lines[m].target
        BY <2>6, <2>9, <3>2
      <4> QED BY <2>3, <3>2, <4>1
    <3>3. \A x \in 1 .. Len(file), k \in 1 .. n : file'[x].target # file'[Len(file) + k].target
      <4> SUFFICES ASSUME NEW x \in 1 .. Len(file), NEW k \in 1 .. n
                   PROVE  file'[x].target # file'[Len(file) + k].target
        OBVIOUS
      <4>1. file'[x].target \in reported[b] BY <2>1, <2>5
      <4>2. file'[Len(file) + k].target \in T BY <2>3, <2>6
      <4> QED BY <4>1, <4>2
    <3> QED BY <2>7, <2>9, <3>1, <3>2, <3>3
  <2>10. ASSUME NEW l \in written'[b] PROVE \E i \in 1 .. Len(file') : file'[i] = l
    <3>1. CASE l \in written[b] BY <2>1, <2>5, <3>1
    <3>2. CASE l \notin written[b]
      <4>1. PICK k \in 1 .. n : l = lines[k] BY <2>4, <2>10, <3>2
      <4> QED BY <2>6, <4>1
    <3> QED BY <3>1, <3>2
  <2>11. Len(file) <= Len(file')
    BY <2>3, <2>4
  <2> QED BY <2>4, <2>5, <2>8, <2>9, <2>10, <2>11
<1>9. FileInv'
  <2>1. \A c \in Builds : Spying(c) /\ c \notin messy' => c \notin messy /\ (c = b \/ file' = file)
    BY <1>2, <1>5
  <2> QED BY <1>3, <1>4, <1>8, <2>1 DEF FileInv
<1>10. HeardInv'
  <2>1. ASSUME NEW c \in Builds, Spying(c), c \notin messy'
        PROVE  /\ c \notin messy
               /\ \A i \in 1 .. Len(file) : i \in 1 .. Len(file') /\ file'[i] = file[i]
               /\ Len(file) <= Len(file')
               /\ c # b => file' = file
    <3>1. CASE c = b
      <4>1. Len(file) \in Nat /\ Len(file') \in Nat /\ Len(file) <= Len(file')
            /\ \A i \in 1 .. Len(file) : file'[i] = file[i]
        <5>1. file' \in Seq(Lines \cup {Hole})
          BY <1>1, ReportWrites
        <5> QED BY <1>2, <1>8, <2>1, <3>1, <5>1 DEF TypeOK
      <4> QED BY <1>2, <2>1, <3>1, <4>1
    <3>2. CASE c # b
      <4>1. file' = file /\ c \notin messy BY <1>5, <2>1, <3>2
      <4> QED BY <4>1 DEF TypeOK
    <3> QED BY <3>1, <3>2
  <2>2. CASE file' = file
    BY <1>3, <2>1, <2>2 DEF HeardInv
  <2>3. ASSUME Spying(b), b \notin messy'
        PROVE  /\ \A m \in sent[b] : \E i \in 1 .. Len(file') :
                      m = <<file'[i].target, file'[i].status>> /\ file'[i] \in delivered[b]
               /\ \A i \in 1 .. Len(file') : i <= reader[b][Final] => file'[i] \in delivered[b]
               /\ phase[b] = "spying" =>
                    /\ cursor[b] <= Len(file')
                    /\ \A i \in 1 .. Len(file') : i <= cursor[b] => file'[i] \in delivered[b]
    <3>1. phase[b] = "spying" /\ reader[b][Final] = Idle
      BY <2>3 DEF StageInv, Spying
    <3>2. /\ \A m \in sent[b] : \E i \in 1 .. Len(file) :
                m = <<file[i].target, file[i].status>> /\ file[i] \in delivered[b]
          /\ cursor[b] <= Len(file)
          /\ \A i \in 1 .. Len(file) : i <= cursor[b] => file[i] \in delivered[b]
      BY <2>1, <2>3, <3>1 DEF HeardInv
    <3>3. cursor[b] \in Nat /\ Len(file) \in Nat /\ Len(file') \in Nat
      <4>1. file' \in Seq(Lines \cup {Hole}) BY <1>1, ReportWrites
      <4> QED BY <4>1 DEF TypeOK
    <3>4. \A i \in 1 .. Len(file') : ~(i <= reader[b][Final])
      BY <3>1, <3>3 DEF Idle
    <3>5. \A i \in 1 .. Len(file') : i <= cursor[b] => file'[i] \in delivered[b]
      <4> SUFFICES ASSUME NEW i \in 1 .. Len(file'), i <= cursor[b] PROVE file'[i] \in delivered[b]
        OBVIOUS
      <4>1. i \in 1 .. Len(file) BY <3>2, <3>3
      <4> QED BY <2>1, <2>3, <3>2, <4>1
    <3>6. cursor[b] <= Len(file')
      BY <2>1, <2>3, <3>2, <3>3
    <3>7. \A m \in sent[b] : \E i \in 1 .. Len(file') :
              m = <<file'[i].target, file'[i].status>> /\ file'[i] \in delivered[b]
      BY <2>1, <2>3, <3>2
    <3> QED BY <3>4, <3>5, <3>6, <3>7
  <2>4. \A c \in Builds : Spying(c) /\ c \notin messy' => c \notin messy /\ (c = b \/ file' = file)
    BY <2>1
  <2> QED BY <1>3, <2>3, <2>4 DEF HeardInv
<1> QED BY <1>6, <1>7, <1>9, <1>10

\* A step that touches neither the file nor the spies changes nothing of it.
LEMMA RestCleans ==
  ASSUME CInv, UNCHANGED heardVars
  PROVE  CInv'
BY DEF CInv, StageInv, FileInv, HeardInv, CleanSpyIsComplete, Spying, heardVars

\* At the start no build is prepared.
LEMMA InitIsClean == ASSUME Init PROVE CInv
<1>1. \A b \in Builds : phase[b] = "none" /\ ~Spying(b)
  BY DEF Init, Spying
<1>2. StageInv
  BY <1>1 DEF Init, StageInv
<1> QED BY <1>1, <1>2 DEF CInv, FileInv, HeardInv, CleanSpyIsComplete

\* A spy that nobody else writes to and whose reads do not overlap hears all
\* that its client reported, however many builds there were before it.
THEOREM CleanIsComplete == Spec => []CleanSpyIsComplete
<1>1. Init => CInv
  BY InitIsClean
<1>2. ASSUME IInv, CInv, [Next]_vars PROVE CInv'
  <2>1. CASE UNCHANGED vars
    <3>1. UNCHANGED heardVars
      BY <2>1 DEF vars, spyVars, clientVars, fileVars, heardVars
    <3> QED BY <1>2, <3>1, RestCleans
  <2>2. ASSUME NEW b \in Builds, Prepare(b) \/ EndSpy(b) \/ Cancel(b) PROVE CInv'
    BY <1>2, <2>2, PrepareCleans, EndSpyCleans, CancelCleans
  <2>3. ASSUME NEW b \in Builds, Spawn(b) \/ Open(b) \/ Exit(b) PROVE CInv'
    BY <1>2, <2>3, ClientCleans
  <2>4. ASSUME NEW b \in Builds, NEW r \in Pollers, Poll(b, r) PROVE CInv'
    BY <1>2, <2>4, PollCleans
  <2>5. ASSUME NEW b \in Builds, NEW r \in Readers, Read(b, r) PROVE CInv'
    BY <1>2, <2>5, ReadCleans
  <2>6. ASSUME NEW b \in Builds, NEW r \in Readers, ReadEnds(b, r) PROVE CInv'
    BY <1>2, <2>6, ReadEndsCleans
  <2>7. ASSUME NEW b \in Builds, NEW t \in Targets, TargetEnds(b, t) PROVE CInv'
    <3>1. PICK status \in Statuses : Report(b, {t} \ reported[b], status)
      BY <2>7 DEF TargetEnds, Output, Statuses
    <3>2. PICK T \in SUBSET Targets : T = {t} \ reported[b]
      OBVIOUS
    <3>3. /\ T \cap reported[b] = {} /\ proc[b] = "open" /\ Report(b, T, status)
          /\ UNCHANGED <<spyVars, proc>>
      BY <2>7, <3>1, <3>2 DEF TargetEnds
    <3> QED BY <1>2, <3>3, ReportCleans
  <2>8. ASSUME NEW b \in Builds, NEW S \in SUBSET Targets, TaskFails(b, S) PROVE CInv'
    <3>1. (UNION {Found(b, t) : t \in S}) \ reported[b] \in SUBSET Targets
      BY <1>2, ZenonT(60) DEF Found, IInv, TypeOK
    <3>2. PICK T \in SUBSET Targets : T = (UNION {Found(b, t) : t \in S}) \ reported[b]
      BY <3>1
    <3>3. "Fail" \in Statuses
      BY DEF Statuses
    <3>4. /\ T \cap reported[b] = {} /\ proc[b] = "open" /\ Report(b, T, "Fail")
          /\ UNCHANGED <<spyVars, proc>>
      BY <2>8, <3>2 DEF TaskFails, Output
    <3> QED BY <1>2, <3>3, <3>4, ReportCleans
  <2>9. ASSUME NEW b \in Builds, BuildCancel(b) \/ \E t \in Targets : TargetStarts(b, t)
        PROVE  CInv'
    <3>1. UNCHANGED heardVars
      BY <2>9 DEF BuildCancel, TargetStarts, spyVars, fileVars, heardVars
    <3> QED BY <1>2, <3>1, RestCleans
  <2> QED BY <1>2, <2>1, <2>2, <2>3, <2>4, <2>5, <2>6, <2>7, <2>8, <2>9, Zenon DEF Next
<1>3. CInv => CleanSpyIsComplete
  BY DEF CInv
<1> QED BY <1>1, <1>2, <1>3, Invariance, PTL DEF Spec

=============================================================================
