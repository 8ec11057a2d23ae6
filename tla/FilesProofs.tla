---------------------------- MODULE FilesProofs -----------------------------
(***************************************************************************)
(* What is written to a project's files is what was shown, whole or not at *)
(* all, and can be taken back: the theorems about PatchApply and GitRepo,  *)
(* then those about ProjectReplace.                                        *)
(***************************************************************************)
EXTENDS PatchApply, GitRepo, ProjectReplace, RemovalProofs, SequenceTheorems, TLAPS

(***************************************************************************)
(* What Apply promises holds for every series, every content and every     *)
(* point at which a write fails.                                           *)
(***************************************************************************)
\* What Validate found out, seen from the call.
Checked ==
    /\ pc = "validate" =>
         \A i \in 1..(index - 1) :
            i <= Len(series) =>
              (series[i].path \notin foreign => Acceptable(before, series[i]))
    /\ pc \notin {"validate", "refused"} =>
         \A i \in 1..Len(series) :
            series[i].path \notin foreign => Acceptable(before, series[i])

\* Nothing is written before the last change is validated.
Untouched ==
    pc \in {"validate", "refused"} =>
        /\ done = <<>> /\ damaged = {}
        /\ \A p \in Paths \ foreign : disk[p] = before[p]

\* The entries of done that a rollback has still to restore.
Left == IF pc = "rollback" THEN index ELSE Len(done)

FirstFor(k, p) == /\ done[k].path = p
                  /\ \A m \in 1..(k - 1) : done[m].path # p

\* The first entry of a file holds what the file held before the call; a file
\* without an entry still holds it.
Restorable ==
    pc \in {"write", "rollback"} =>
        \A p \in Undisturbed :
            /\ (\A k \in 1..Left : done[k].path # p) => disk[p] = before[p]
            /\ \A k \in 1..Left : FirstFor(k, p) => RestoredContent(done[k]) = before[p]

\* Where the loops are.
Progress ==
    /\ pc = "validate" => index >= 1
    /\ pc = "write" => /\ index = Len(done) + 1
                       /\ index <= Len(series) + 1
    /\ pc = "applied" => index = Len(series) + 1
    /\ pc = "rollback" => index <= Len(done)
    /\ Len(done) <= Len(series)
    /\ \A k \in 1..Len(done) : done[k].path = series[k].path

\* What the first index - 1 writes left on the disk.
Landed ==
    pc \in {"write", "applied"} =>
        /\ damaged = {}
        /\ \A i \in 1..(index - 1) :
             series[i].path \notin foreign /\ IsLast(i, index - 1)
               => disk[series[i].path] = series[i].new
        /\ \A p \in Paths \ foreign :
             (\A i \in 1..(index - 1) : series[i].path # p) => disk[p] = before[p]

\* The end of a rollback.
RolledBack == pc = "failed" => \A p \in Undisturbed : disk[p] = before[p]

IInv == TypeOK /\ Checked /\ Untouched /\ Restorable /\ Progress /\ Landed /\ RolledBack
-----------------------------------------------------------------------------
LEMMA InitIInv == Init => IInv
<1> SUFFICES ASSUME Init PROVE IInv
  OBVIOUS
<1>1. TypeOK
  BY DEF Init, TypeOK, Files, PCs
<1>2. Checked /\ Untouched /\ Restorable /\ Landed /\ RolledBack
  BY DEF Init, Checked, Untouched, Restorable, Landed, RolledBack
<1>3. Progress
  <2>1. Len(series) \in Nat
    BY <1>1, SeriesAssumption DEF TypeOK
  <2> QED
    BY <2>1 DEF Init, Progress
<1> QED
  BY <1>1, <1>2, <1>3 DEF IInv

\* The change a loop is at is a well-formed one.
LEMMA AtIndex ==
  ASSUME TypeOK, NEW i \in 1..Len(series)
  PROVE  /\ Len(series) \in Nat
         /\ series[i] \in Change
         /\ series[i].path \in Paths
         /\ series[i].new \in Contents
<1>1. series \in Seq(Change)
  BY SeriesAssumption DEF TypeOK
<1>2. Len(series) \in Nat /\ series[i] \in Change
  BY <1>1
<1> QED
  BY <1>2 DEF Change

\* The entry a rollback is at is a well-formed one.
LEMMA EntryAt ==
  ASSUME TypeOK, NEW k \in 1..Len(done)
  PROVE  /\ done[k] \in Written
         /\ done[k].path \in Paths
         /\ RestoredContent(done[k]) \in Contents \cup {Missing}
<1>1. done \in Seq(Written)
  BY DEF TypeOK
<1>2. done[k] \in Written
  BY <1>1
<1> QED
  BY <1>2 DEF Written, RestoredContent

\* Reading a file yields a content, and what is restored from it is the file.
LEMMA ReadBack ==
  ASSUME TypeOK, NEW p \in Paths
  PROVE  LET w == [path |-> p, orig |-> Current(disk, p), created |-> disk[p] = Missing]
         IN  w \in Written /\ RestoredContent(w) = disk[p]
BY EmptyAssumption DEF TypeOK, Files, Current, Written, RestoredContent

LEMMA StepType == TypeOK /\ Progress /\ [Next]_vars => TypeOK'
<1> SUFFICES ASSUME TypeOK, Progress, [Next]_vars PROVE TypeOK'
  OBVIOUS
<1> USE DEF TypeOK, PCs
<1>0. Len(series) \in Nat /\ Len(done) \in Nat
  BY SeriesAssumption
<1>1. CASE ValidateNext
  BY <1>1 DEF ValidateNext
<1>2. CASE Refuse
  BY <1>2 DEF Refuse
<1>3. CASE ValidateDone
  BY <1>3 DEF ValidateDone
<1>4. CASE WriteNext
  <2>1. index \in 1..Len(series)
    BY <1>4, <1>0 DEF WriteNext, Progress
  <2> DEFINE c == series[index]
             w == [path |-> c.path, orig |-> Current(disk, c.path),
                   created |-> disk[c.path] = Missing]
  <2>2. c.path \in Paths /\ c.new \in Contents
    BY <2>1, AtIndex
  <2>3. w \in Written
    BY <2>2, ReadBack
  <2>4. disk' \in Files
    BY <2>2, <1>4 DEF WriteNext, Files
  <2>5. done' \in Seq(Written)
    <3> HIDE DEF w
    <3>1. done' = Append(done, w)
      BY <1>4 DEF WriteNext, w
    <3> QED
      BY <2>3, <3>1
  <2> QED
    BY <2>4, <2>5, <1>4 DEF WriteNext
<1>5. CASE WriteDone
  BY <1>5 DEF WriteDone
<1>6. CASE WriteRefused
  BY <1>6, <1>0 DEF WriteRefused
<1>7. ASSUME NEW c \in Contents, WriteTorn(c) PROVE TypeOK'
  <2>1. index \in 1..Len(series)
    BY <1>7, <1>0 DEF WriteTorn, Progress
  <2>2. series[index].path \in Paths
    BY <2>1, AtIndex
  <2> QED
    BY <1>7, <1>0, <2>2 DEF WriteTorn, Files
<1>8. CASE RestoreNext
  <2>1. index \in 1..Len(done)
    BY <1>8, <1>0 DEF RestoreNext, Progress
  <2>2. RestoredContent(done[index]) \in Contents \cup {Missing}
    BY <2>1, EntryAt
  <2>3. disk' \in Files
    BY <1>8, <2>2 DEF RestoreNext, Files
  <2> QED
    BY <1>8, <2>3 DEF RestoreNext
<1>9. ASSUME NEW c \in Contents \cup {Missing}, RestoreFails(c) PROVE TypeOK'
  <2>1. index \in 1..Len(done)
    BY <1>9, <1>0 DEF RestoreFails, Progress
  <2>2. done[index].path \in Paths
    BY <2>1, EntryAt
  <2> QED
    BY <1>9, <2>2 DEF RestoreFails, Files
<1>10. CASE RestoreDone
  BY <1>10 DEF RestoreDone
<1>11. ASSUME NEW p \in Paths, NEW c \in Contents, ForeignWrite(p, c) PROVE TypeOK'
  BY <1>11 DEF ForeignWrite, Files
<1>12. CASE UNCHANGED vars
  BY <1>12 DEF vars
<1> QED
  BY <1>1, <1>2, <1>3, <1>4, <1>5, <1>6, <1>7, <1>8, <1>9, <1>10, <1>11, <1>12 DEF Next

\* What was acceptable when Apply was called stays the verdict on the series.
LEMMA StepChecked == IInv /\ [Next]_vars => Checked'
<1> SUFFICES ASSUME IInv, [Next]_vars PROVE Checked'
  OBVIOUS
<1> USE DEF IInv, Checked
<1>0. Len(series) \in Nat /\ index \in Nat
  BY SeriesAssumption DEF TypeOK
<1>1. CASE ValidateNext
  <2>1. index \in 1..Len(series)
    BY <1>1, <1>0 DEF ValidateNext, Progress
  <2>2. series[index].path \in Paths
    BY <2>1, AtIndex
  <2>3. series[index].path \notin foreign => Acceptable(before, series[index])
    BY <1>1, <2>2 DEF ValidateNext, Untouched, Acceptable, Fresh, Current
  <2> QED
    BY <1>0, <1>1, <2>3 DEF ValidateNext
<1>2. CASE Refuse
  BY <1>2 DEF Refuse
<1>3. CASE ValidateDone
  BY <1>0, <1>3 DEF ValidateDone
<1>4. CASE WriteNext
  BY <1>4 DEF WriteNext
<1>5. CASE WriteDone \/ WriteRefused
  BY <1>5 DEF WriteDone, WriteRefused
<1>6. ASSUME NEW c \in Contents, WriteTorn(c) PROVE Checked'
  BY <1>6 DEF WriteTorn
<1>7. CASE RestoreNext \/ RestoreDone
  BY <1>7 DEF RestoreNext, RestoreDone
<1>8. ASSUME NEW c \in Contents \cup {Missing}, RestoreFails(c) PROVE Checked'
  BY <1>8 DEF RestoreFails
<1>9. ASSUME NEW p \in Paths, NEW c \in Contents, ForeignWrite(p, c) PROVE Checked'
  BY <1>9 DEF ForeignWrite
<1>10. CASE UNCHANGED vars
  BY <1>10 DEF vars
<1> QED
  BY <1>1, <1>2, <1>3, <1>4, <1>5, <1>6, <1>7, <1>8, <1>9, <1>10 DEF Next

LEMMA StepUntouched == IInv /\ [Next]_vars => Untouched'
<1> SUFFICES ASSUME IInv, [Next]_vars PROVE Untouched'
  OBVIOUS
<1> USE DEF IInv, Untouched
<1>1. CASE ValidateNext \/ Refuse \/ ValidateDone
  BY <1>1 DEF ValidateNext, Refuse, ValidateDone
<1>2. CASE WriteNext \/ WriteDone \/ WriteRefused \/ RestoreNext \/ RestoreDone
  BY <1>2 DEF WriteNext, WriteDone, WriteRefused, RestoreNext, RestoreDone
<1>3. ASSUME NEW c \in Contents, WriteTorn(c) PROVE Untouched'
  BY <1>3 DEF WriteTorn
<1>4. ASSUME NEW c \in Contents \cup {Missing}, RestoreFails(c) PROVE Untouched'
  BY <1>4 DEF RestoreFails
<1>5. ASSUME NEW p \in Paths, NEW c \in Contents, ForeignWrite(p, c) PROVE Untouched'
  BY <1>5 DEF ForeignWrite, TypeOK, Files
<1>6. CASE UNCHANGED vars
  BY <1>6 DEF vars
<1> QED
  BY <1>1, <1>2, <1>3, <1>4, <1>5, <1>6 DEF Next

LEMMA StepProgress == IInv /\ [Next]_vars => Progress'
<1> SUFFICES ASSUME IInv, [Next]_vars PROVE Progress'
  OBVIOUS
<1> USE DEF IInv, Progress
<1>0. Len(series) \in Nat /\ Len(done) \in Nat /\ index \in Nat
  BY SeriesAssumption DEF TypeOK
<1>1. CASE ValidateNext \/ Refuse
  BY <1>0, <1>1 DEF ValidateNext, Refuse
<1>2. CASE ValidateDone
  BY <1>0, <1>2 DEF ValidateDone, Untouched
<1>3. CASE WriteNext
  <2> DEFINE c == series[index]
             w == [path |-> c.path, orig |-> Current(disk, c.path),
                   created |-> disk[c.path] = Missing]
  <2>1. done' = Append(done, w) /\ index' = index + 1 /\ series' = series /\ pc' = pc
    BY <1>3 DEF WriteNext
  <2>2. w.path = c.path
    OBVIOUS
  <2> HIDE DEF w
  <2>3. /\ Len(done') = Len(done) + 1
        /\ done'[Len(done) + 1] = w
        /\ \A k \in 1..Len(done) : done'[k] = done[k]
    BY <2>1, <1>0 DEF TypeOK
  <2> QED
    BY <2>1, <2>2, <2>3, <1>0, <1>3 DEF WriteNext
<1>4. CASE WriteDone \/ WriteRefused
  BY <1>0, <1>4 DEF WriteDone, WriteRefused
<1>5. ASSUME NEW c \in Contents, WriteTorn(c) PROVE Progress'
  BY <1>0, <1>5 DEF WriteTorn
<1>6. CASE RestoreNext \/ RestoreDone
  BY <1>0, <1>6 DEF RestoreNext, RestoreDone
<1>7. ASSUME NEW c \in Contents \cup {Missing}, RestoreFails(c) PROVE Progress'
  BY <1>0, <1>7 DEF RestoreFails
<1>8. ASSUME NEW p \in Paths, NEW c \in Contents, ForeignWrite(p, c) PROVE Progress'
  BY <1>8 DEF ForeignWrite
<1>9. CASE UNCHANGED vars
  BY <1>9 DEF vars
<1> QED
  BY <1>1, <1>2, <1>3, <1>4, <1>5, <1>6, <1>7, <1>8, <1>9 DEF Next

LEMMA StepLanded == IInv /\ [Next]_vars => Landed'
<1> SUFFICES ASSUME IInv, [Next]_vars PROVE Landed'
  OBVIOUS
<1> USE DEF IInv, Landed, IsLast
<1>0. Len(series) \in Nat /\ Len(done) \in Nat /\ index \in Nat
  BY SeriesAssumption DEF TypeOK
<1>1. CASE ValidateNext \/ Refuse
  BY <1>1 DEF ValidateNext, Refuse
<1>2. CASE ValidateDone
  <2>1. damaged = {}
    BY <1>2 DEF ValidateDone, Untouched
  <2> QED
    BY <2>1, <1>2 DEF ValidateDone, Untouched
<1>3. CASE WriteNext
  <2>1. index \in 1..Len(series)
    BY <1>3, <1>0 DEF WriteNext, Progress
  <2>2. series[index].path \in Paths /\ series[index].new \in Contents
    BY <2>1, AtIndex
  <2>3. /\ disk' = [disk EXCEPT ![series[index].path] = series[index].new]
        /\ index' = index + 1
        /\ UNCHANGED <<series, pc, damaged, foreign>>
    BY <1>3 DEF WriteNext
  <2>4. pc = "write" /\ damaged = {}
    BY <1>3 DEF WriteNext
  <2>5. ASSUME NEW i \in 1..(index' - 1), series[i].path \notin foreign,
               \A j \in (i + 1)..(index' - 1) : series[j].path # series[i].path
        PROVE  disk'[series[i].path] = series[i].new
    <3>1. CASE i = index
      BY <3>1, <2>2, <2>3 DEF TypeOK, Files
    <3>2. CASE i # index
      <4>1. i \in 1..(index - 1) /\ index \in (i + 1)..(index' - 1)
        BY <3>2, <2>3, <1>0, <2>1
      <4>2. series[i].path # series[index].path
        BY <4>1, <2>5
      <4>3. \A j \in (i + 1)..(index - 1) : series[j].path # series[i].path
        BY <2>3, <2>5, <1>0, <4>1
      <4>4. disk[series[i].path] = series[i].new
        BY <4>1, <4>3, <2>5, <2>4
      <4>5. i \in 1..Len(series)
        BY <4>1, <2>1, <1>0
      <4>6. series[i].path \in Paths
        BY <4>5, AtIndex
      <4> QED
        BY <4>2, <4>4, <4>6, <2>2, <2>3 DEF TypeOK, Files
    <3> QED
      BY <3>1, <3>2
  <2>6. ASSUME NEW p \in Paths \ foreign,
               \A i \in 1..(index' - 1) : series[i].path # p
        PROVE  disk'[p] = before[p]
    <3>1. series[index].path # p
      BY <2>1, <2>3, <2>6, <1>0
    <3>2. \A i \in 1..(index - 1) : series[i].path # p
      BY <2>3, <2>6, <1>0
    <3>3. disk[p] = before[p]
      BY <3>2, <2>4, <2>6
    <3> QED
      BY <3>1, <3>3, <2>2, <2>3 DEF TypeOK, Files
  <2>7. before' = before
    BY <1>3 DEF WriteNext
  <2> QED
    BY <2>3, <2>4, <2>5, <2>6, <2>7
<1>4. CASE WriteDone \/ WriteRefused
  BY <1>4 DEF WriteDone, WriteRefused
<1>5. ASSUME NEW c \in Contents, WriteTorn(c) PROVE Landed'
  BY <1>5 DEF WriteTorn
<1>6. CASE RestoreNext \/ RestoreDone
  BY <1>6 DEF RestoreNext, RestoreDone
<1>7. ASSUME NEW c \in Contents \cup {Missing}, RestoreFails(c) PROVE Landed'
  BY <1>7 DEF RestoreFails
<1>8. ASSUME NEW p \in Paths, NEW c \in Contents, ForeignWrite(p, c) PROVE Landed'
  BY <1>8 DEF ForeignWrite, TypeOK, Files
<1>9. CASE UNCHANGED vars
  BY <1>9 DEF vars
<1> QED
  BY <1>1, <1>2, <1>3, <1>4, <1>5, <1>6, <1>7, <1>8, <1>9 DEF Next

\* The heart of the rollback: a write records what it replaces, a restore takes
\* the latest entry away and, when it is the first of its file, gives it back.
LEMMA StepRestorable == IInv /\ [Next]_vars => Restorable'
<1> SUFFICES ASSUME IInv, [Next]_vars PROVE Restorable'
  OBVIOUS
<1> USE DEF IInv, Restorable, Left, FirstFor, Undisturbed
<1>0. Len(series) \in Nat /\ Len(done) \in Nat /\ index \in Nat
  BY SeriesAssumption DEF TypeOK
<1>1. CASE ValidateNext \/ Refuse
  BY <1>1 DEF ValidateNext, Refuse
<1>2. CASE ValidateDone
  BY <1>2 DEF ValidateDone, Untouched
<1>3. CASE WriteNext
  <2> DEFINE c == series[index]
             w == [path |-> c.path, orig |-> Current(disk, c.path),
                   created |-> disk[c.path] = Missing]
             n == Len(done) + 1
  <2>1. index \in 1..Len(series)
    BY <1>3, <1>0 DEF WriteNext, Progress
  <2>2. c.path \in Paths
    BY <2>1, AtIndex
  <2>3. w.path = c.path /\ RestoredContent(w) = disk[c.path]
    BY <2>2, ReadBack
  <2>4. /\ done' = Append(done, w)
        /\ disk' = [disk EXCEPT ![c.path] = c.new]
        /\ UNCHANGED <<pc, before, damaged, foreign>>
    BY <1>3 DEF WriteNext
  <2> HIDE DEF w
  <2>5. /\ Len(done') = n
        /\ done'[n] = w
        /\ \A k \in 1..Len(done) : done'[k] = done[k]
    BY <2>4, <1>0 DEF TypeOK
  <2>6. pc = "write"
    BY <1>3 DEF WriteNext
  <2>7. ASSUME NEW p \in Undisturbed, \A k \in 1..n : done'[k].path # p
        PROVE  disk'[p] = before[p]
    <3>1. c.path # p
      BY <2>3, <2>5, <2>7, <1>0
    <3>2. \A k \in 1..Len(done) : done[k].path # p
      BY <2>5, <2>7, <1>0
    <3>3. disk[p] = before[p]
      BY <3>2, <2>6, <2>7
    <3> QED
      BY <3>1, <3>3, <2>2, <2>4 DEF TypeOK, Files
  <2>8. ASSUME NEW p \in Undisturbed, NEW k \in 1..n, done'[k].path = p,
               \A m \in 1..(k - 1) : done'[m].path # p
        PROVE  RestoredContent(done'[k]) = before[p]
    <3>1. \A m \in 1..(k - 1) : done[m].path # p
      BY <2>5, <2>8, <1>0
    <3>2. CASE k = n
      <4>1. \A m \in 1..Len(done) : done[m].path # p
        BY <3>1, <3>2, <1>0
      <4>2. disk[p] = before[p]
        BY <4>1, <2>6, <2>8
      <4> QED
        BY <3>2, <4>2, <2>3, <2>5, <2>8
    <3>3. CASE k # n
      <4>1. k \in 1..Len(done)
        BY <3>3, <1>0
      <4>2. done'[k] = done[k]
        BY <4>1, <2>5
      <4> QED
        BY <3>1, <4>1, <4>2, <2>6, <2>8
    <3> QED
      BY <3>2, <3>3
  <2> QED
    BY <2>4, <2>5, <2>6, <2>7, <2>8
<1>4. CASE WriteDone \/ WriteRefused
  BY <1>4 DEF WriteDone, WriteRefused
<1>5. ASSUME NEW c \in Contents, WriteTorn(c) PROVE Restorable'
  <2>1. \A p \in Paths : p # series[index].path => disk'[p] = disk[p]
    BY <1>5 DEF WriteTorn, TypeOK, Files
  <2> QED
    BY <1>5, <2>1 DEF WriteTorn
<1>6. CASE RestoreNext
  <2>1. index \in 1..Len(done)
    BY <1>6, <1>0 DEF RestoreNext, Progress
  <2>2. done[index].path \in Paths
    BY <2>1, EntryAt
  <2>3. /\ disk' = [disk EXCEPT ![done[index].path] = RestoredContent(done[index])]
        /\ index' = index - 1
        /\ UNCHANGED <<pc, done, before, damaged, foreign>>
        /\ pc = "rollback"
    BY <1>6 DEF RestoreNext
  <2>4. ASSUME NEW p \in Undisturbed, \A k \in 1..(index - 1) : done[k].path # p
        PROVE  disk'[p] = before[p]
    <3>1. CASE done[index].path = p
      <4>1. RestoredContent(done[index]) = before[p]
        BY <3>1, <2>1, <2>3, <2>4
      <4> QED
        BY <3>1, <4>1, <2>2, <2>3 DEF TypeOK, Files
    <3>2. CASE done[index].path # p
      <4>1. \A k \in 1..index : done[k].path # p
        BY <3>2, <2>4, <1>0
      <4>2. disk[p] = before[p]
        BY <4>1, <2>3, <2>4
      <4> QED
        BY <3>2, <4>2, <2>2, <2>3 DEF TypeOK, Files
    <3> QED
      BY <3>1, <3>2
  <2>5. 1..(index - 1) \subseteq 1..index
    BY <1>0
  <2> QED
    BY <2>3, <2>4, <2>5
<1>7. ASSUME NEW c \in Contents \cup {Missing}, RestoreFails(c) PROVE Restorable'
  <2>1. \A p \in Paths : p # done[index].path => disk'[p] = disk[p]
    BY <1>7 DEF RestoreFails, TypeOK, Files
  <2>2. index >= 1 /\ \A p \in Undisturbed' : p # done[index].path
    BY <1>7 DEF RestoreFails
  <2>3. \A p \in Undisturbed' : (\A k \in 1..(index - 1) : done[k].path # p)
                                  => (\A k \in 1..index : done[k].path # p)
    BY <2>2, <1>0
  <2>4. 1..(index - 1) \subseteq 1..index
    BY <1>0
  <2> QED
    BY <1>7, <2>1, <2>2, <2>3, <2>4 DEF RestoreFails
<1>8. CASE RestoreDone
  BY <1>8 DEF RestoreDone
<1>9. ASSUME NEW p \in Paths, NEW c \in Contents, ForeignWrite(p, c) PROVE Restorable'
  <2>1. \A q \in Paths : q # p => disk'[q] = disk[q]
    BY <1>9 DEF ForeignWrite, TypeOK, Files
  <2> QED
    BY <1>9, <2>1 DEF ForeignWrite
<1>10. CASE UNCHANGED vars
  BY <1>10 DEF vars
<1> QED
  BY <1>1, <1>2, <1>3, <1>4, <1>5, <1>6, <1>7, <1>8, <1>9, <1>10 DEF Next

LEMMA StepRolledBack == IInv /\ [Next]_vars => RolledBack'
<1> SUFFICES ASSUME IInv, [Next]_vars PROVE RolledBack'
  OBVIOUS
<1> USE DEF IInv, RolledBack, Undisturbed
<1>1. CASE ValidateNext \/ Refuse \/ ValidateDone \/ WriteNext \/ WriteDone
  BY <1>1 DEF ValidateNext, Refuse, ValidateDone, WriteNext, WriteDone
<1>2. CASE WriteRefused \/ RestoreNext
  BY <1>2 DEF WriteRefused, RestoreNext
<1>3. ASSUME NEW c \in Contents, WriteTorn(c) PROVE RolledBack'
  BY <1>3 DEF WriteTorn
<1>4. ASSUME NEW c \in Contents \cup {Missing}, RestoreFails(c) PROVE RolledBack'
  BY <1>4 DEF RestoreFails
<1>5. CASE RestoreDone
  <2>1. \A p \in Undisturbed : disk[p] = before[p]
    BY <1>5 DEF RestoreDone, Restorable, Left
  <2> QED
    BY <1>5, <2>1 DEF RestoreDone
<1>6. ASSUME NEW p \in Paths, NEW c \in Contents, ForeignWrite(p, c) PROVE RolledBack'
  BY <1>6 DEF ForeignWrite, Ended
<1>7. CASE UNCHANGED vars
  BY <1>7 DEF vars
<1> QED
  BY <1>1, <1>2, <1>3, <1>4, <1>5, <1>6, <1>7 DEF Next

LEMMA Invariance == Spec => []IInv
<1>1. Init => IInv
  BY InitIInv
<1>2. IInv /\ [Next]_vars => IInv'
  BY StepType, StepChecked, StepUntouched, StepProgress, StepLanded,
     StepRestorable, StepRolledBack DEF IInv
<1> QED
  BY <1>1, <1>2, PTL DEF Spec
-----------------------------------------------------------------------------
\* The loops of Validate, Apply and rollback keep their variables well formed.
THEOREM TypeCorrect == Spec => []TypeOK
<1>1. IInv => TypeOK
  BY DEF IInv
<1> QED
  BY <1>1, Invariance, PTL

\* Wherever a write fails, the rollback puts every file back.
THEOREM AllOrNothingCorrect == Spec => []AllOrNothing
<1>1. IInv => AllOrNothing
  BY DEF IInv, RolledBack, AllOrNothing
<1> QED
  BY <1>1, Invariance, PTL

\* After a success the whole series is on the disk and nothing else changed.
THEOREM AppliedCorrect == Spec => []AppliedInFull
<1>1. IInv => AppliedInFull
  <2> SUFFICES ASSUME IInv PROVE AppliedInFull
    OBVIOUS
  <2>1. Len(series) \in Nat
    BY SeriesAssumption DEF IInv, TypeOK
  <2>2. pc = "applied" => index - 1 = Len(series)
    BY <2>1 DEF IInv, Progress
  <2> QED
    BY <2>2 DEF IInv, Landed, AppliedInFull
<1> QED
  BY <1>1, Invariance, PTL

\* One stale or outside change keeps the whole series off the disk.
THEOREM RejectedCorrect == Spec => []RejectedWritesNothing
<1>1. IInv => RejectedWritesNothing
  BY DEF IInv, Checked, Untouched, RejectedWritesNothing, Acceptable
<1> QED
  BY <1>1, Invariance, PTL

\* Whatever the series and the files hold, and whichever write fails, a series is
\* applied in full or not at all.
THEOREM SeriesIsAtomicCorrect == Spec => []SeriesIsAtomic
<1>1. AllOrNothing /\ AppliedInFull /\ RejectedWritesNothing <=> SeriesIsAtomic
  BY DEF SeriesIsAtomic
<1>. QED
  BY <1>1, AllOrNothingCorrect, AppliedCorrect, RejectedCorrect, PTL
-----------------------------------------------------------------------------
(***************************************************************************)
(* Safety of GitRepo for any paths and contents: every commit changes      *)
(* something, and an undo writes only its commit's files, which get what   *)
(* they held before that commit.  The user may go on meanwhile: what is    *)
(* said of a file then ends where the user touches it.                     *)
(***************************************************************************)
GrCommit == [by : {"user", "agent", "undo"}, tree : Trees, of : Nat, touched : SUBSET GrPaths]
UndoType == [at : {"idle", "found", "writing"}, of : Nat, todo : SUBSET GrPaths, adding : SUBSET GrPaths]

GrTypeInv ==
    /\ grLog \in Seq(GrCommit) /\ Len(grLog) >= 1
    /\ grIndex \in Trees /\ grWork \in Trees
    /\ grUndo \in UndoType /\ grTouched \subseteq GrPaths

\* An undo is of an earlier commit that has a parent.
OfBefore ==
    \A c \in 1..Len(grLog) :
        /\ grLog[c].of <= c - 1
        /\ grLog[c].by = "undo" => grLog[c].of >= 2

\* While an undo is under way and the user keeps away from them, the files it still
\* has to write hold what its commit wrote, the one it has to stage what it held
\* before that commit, and the index has the others as they were before it.
UndoIsOf(c) ==
    /\ c \in 2..Len(grLog) /\ grUndo.todo \subseteq Changed(c) /\ grUndo.adding \subseteq Changed(c)
    /\ \A p \in grUndo.adding : p \notin grUndo.todo /\ \A q \in grUndo.adding : q = p
    /\ \A p \in grUndo.todo \ grTouched : grWork[p] = grLog[c].tree[p]
    /\ \A p \in grUndo.adding \ grTouched : grWork[p] = Parent(c)[p]
    /\ \A p \in Changed(c) \ (grUndo.todo \cup grUndo.adding \cup grTouched) : grIndex[p] = Parent(c)[p]
UndoUnderWay ==
    /\ grUndo.at = "idle" => grUndo = NoUndo
    /\ grUndo.at = "found" => /\ grUndo.of \in 1..Len(grLog)
                              /\ grUndo.todo = {} /\ grUndo.adding = {}
    /\ grUndo.at = "writing" => UndoIsOf(grUndo.of)

GrIInv == GrTypeInv /\ OfBefore /\ CommitsChangeSomething /\ UndoRestoresTheBefore /\ UndoUnderWay
-----------------------------------------------------------------------------
(* The log.                                                                *)

\* A commit is appended, differs from HEAD and leaves the older ones alone.
LEMMA LogGrows ==
    ASSUME GrTypeInv, NEW newTree \in Trees, NEW by \in {"user", "agent", "undo"}, NEW of \in Nat,
           NEW touched \in SUBSET GrPaths, grLog' = CommitOf(grLog, newTree, by, of, touched)
    PROVE  /\ grLog' \in Seq(GrCommit) /\ Len(grLog') \in {Len(grLog), Len(grLog) + 1}
           /\ \A c \in 1..Len(grLog) : grLog'[c] = grLog[c]
           /\ \A c \in 1..Len(grLog') : c \notin 1..Len(grLog) =>
                  /\ c = Len(grLog) + 1 /\ newTree # grLog[Len(grLog)].tree
                  /\ grLog'[c] = [by |-> by, tree |-> newTree, of |-> of, touched |-> touched]
<1> DEFINE e == [by |-> by, tree |-> newTree, of |-> of, touched |-> touched]
<1>1. e \in GrCommit /\ grLog \in Seq(GrCommit) /\ Len(grLog) \in Nat
  BY DEF GrTypeInv, GrCommit
<1>2. CASE newTree = Last(grLog).tree
  BY <1>1, <1>2 DEF CommitOf
<1>3. CASE newTree # Last(grLog).tree
  <2>1. grLog' = Append(grLog, e)
    BY <1>3 DEF CommitOf
  <2> HIDE DEF e
  <2>2. /\ grLog' \in Seq(GrCommit) /\ Len(grLog') = Len(grLog) + 1
        /\ \A c \in 1..Len(grLog) : grLog'[c] = grLog[c]
        /\ grLog'[Len(grLog) + 1] = e
    BY <1>1, <2>1, AppendProperties
  <2> QED BY <1>1, <1>3, <2>2 DEF Last, e
<1> QED BY <1>2, <1>3

\* What the commits say of one another does not change when one is added.
LEMMA LogKeeps ==
    ASSUME GrTypeInv, OfBefore, CommitsChangeSomething, UndoRestoresTheBefore,
           NEW newTree \in Trees, NEW by \in {"user", "agent", "undo"}, NEW of \in Nat,
           NEW touched \in SUBSET GrPaths, grLog' = CommitOf(grLog, newTree, by, of, touched),
           of <= Len(grLog),
           by = "undo" => /\ of >= 2
                          /\ \A p \in Changed(of) \ touched : newTree[p] = Parent(of)[p]
    PROVE  /\ grLog' \in Seq(GrCommit) /\ Len(grLog') >= 1
           /\ OfBefore' /\ CommitsChangeSomething' /\ UndoRestoresTheBefore'
<1> DEFINE n == Len(grLog)
<1>1. n \in Nat /\ n >= 1 /\ DOMAIN grLog = 1..n /\ \A c \in 1..n : grLog[c] \in GrCommit
  BY DEF GrTypeInv
<1>2. /\ grLog' \in Seq(GrCommit) /\ Len(grLog') \in {n, n + 1} /\ DOMAIN grLog' = 1..Len(grLog')
      /\ \A c \in 1..n : grLog'[c] = grLog[c]
      /\ \A c \in 1..Len(grLog') : c \notin 1..n =>
             c = n + 1 /\ newTree # grLog[n].tree /\ grLog'[c] = [by |-> by, tree |-> newTree, of |-> of, touched |-> touched]
  BY LogGrows
<1> HIDE DEF n
<1>1a. n \in Nat /\ n >= 1
  BY <1>1
<1>2a. Len(grLog') = n \/ Len(grLog') = n + 1
  BY <1>2
<1>3. \A c \in 2..n : Changed(c)' = Changed(c) /\ Parent(c)' = Parent(c)
  <2> SUFFICES ASSUME NEW c \in 2..n PROVE Changed(c)' = Changed(c) /\ Parent(c)' = Parent(c)
    OBVIOUS
  <2>1. c \in 1..n /\ c - 1 \in 1..n
    BY <1>1
  <2>2. grLog'[c] = grLog[c] /\ grLog'[c - 1] = grLog[c - 1]
    BY <1>2, <2>1
  <2> QED BY <2>2 DEF Changed, Parent
<1>3a. of <= n
  BY DEF n
<1>3b. \A c \in 1..Len(grLog') : c \notin 1..n =>
        /\ c = n + 1 /\ newTree # grLog[n].tree
        /\ grLog'[c].by = by /\ grLog'[c].tree = newTree /\ grLog'[c].of = of
        /\ grLog'[c].touched = touched
  BY <1>2
<1>4. OfBefore'
  <2> SUFFICES ASSUME NEW c \in 1..Len(grLog')
               PROVE  grLog'[c].of <= c - 1 /\ (grLog'[c].by = "undo" => grLog'[c].of >= 2)
    BY DEF OfBefore
  <2>1. CASE c \in 1..n
    BY <1>1, <1>2, <2>1 DEF OfBefore, n
  <2>2. CASE c \notin 1..n
    BY <1>1, <1>3a, <1>3b, <2>2
  <2> QED BY <2>1, <2>2
<1>5. CommitsChangeSomething'
  <2> SUFFICES ASSUME NEW c \in 2..Len(grLog') PROVE Changed(c)' # {}
    BY DEF CommitsChangeSomething
  <2>1. CASE c \in 2..n
    BY <1>1, <1>3, <2>1 DEF CommitsChangeSomething, n
  <2>2. CASE c \notin 2..n
    <3>1. c = n + 1 /\ newTree # grLog[n].tree /\ grLog'[c].tree = newTree /\ grLog'[c - 1] = grLog[n]
      <4>1. c \notin 1..n /\ c - 1 = n /\ c \in 1..Len(grLog')
        BY <1>1a, <1>2a, <2>2
      <4>2. n \in 1..n
        BY <1>1
      <4> QED BY <1>1, <1>2, <1>3b, <4>1, <4>2
    <3>2. grLog[n].tree \in Trees
      BY <1>1 DEF GrCommit
    <3>3. PICK p \in GrPaths : newTree[p] # grLog[n].tree[p]
      BY <3>1, <3>2 DEF Trees
    <3> QED BY <3>1, <3>3 DEF Changed, Parent
  <2> QED BY <2>1, <2>2
<1>6. UndoRestoresTheBefore'
  <2> DEFINE Differs(log, k, p) == log[k].tree[p] # log[k - 1].tree[p]
  <2> SUFFICES ASSUME NEW c \in 1..Len(grLog'), grLog'[c].by = "undo",
                      NEW p \in GrPaths \ grLog'[c].touched,
                      NEW k, k = grLog'[c].of, Differs(grLog', k, p)
               PROVE  grLog'[c].tree[p] = grLog'[k - 1].tree[p]
    BY <1>2 DEF UndoRestoresTheBefore, Changed, Parent
  <2> HIDE DEF Differs
  <2>1. ASSUME k \in 2..n
        PROVE  grLog'[k - 1] = grLog[k - 1] /\ Differs(grLog, k, p)
    <3>1. k \in 1..n /\ k - 1 \in 1..n
      BY <1>1, <2>1
    <3>2. grLog'[k] = grLog[k] /\ grLog'[k - 1] = grLog[k - 1]
      BY <1>2, <3>1
    <3> QED BY <3>2 DEF Differs
  <2>2. CASE c \in 1..n
    <3>1. grLog'[c] = grLog[c] /\ grLog[c] \in GrCommit
      BY <1>1, <1>2, <2>2
    <3>2. k \in Nat /\ grLog[c].by = "undo" /\ grLog[c].of = k
      BY <3>1 DEF GrCommit
    <3>3. k >= 2 /\ k <= c - 1
      BY <2>2, <3>2 DEF OfBefore, n
    <3>4. k \in 2..n
      BY <1>1, <2>2, <3>2, <3>3
    <3>5. grLog'[k - 1] = grLog[k - 1] /\ p \in Changed(k) \ grLog[c].touched
      BY <2>1, <3>1, <3>4 DEF Differs, Changed, Parent
    <3>6. grLog[c].tree[p] = grLog[k - 1].tree[p]
      BY <1>1, <2>2, <3>2, <3>5 DEF UndoRestoresTheBefore, Parent
    <3> QED BY <3>1, <3>5, <3>6
  <2>3. CASE c \notin 1..n
    <3>1. grLog'[c].tree = newTree /\ k = of /\ by = "undo" /\ grLog'[c].touched = touched
      BY <1>3b, <2>3
    <3>2. k \in 2..n
      BY <1>1, <1>3a, <3>1
    <3>3. grLog'[k - 1] = grLog[k - 1] /\ p \in Changed(of) \ touched
      BY <2>1, <3>1, <3>2 DEF Differs, Changed, Parent
    <3>4. newTree[p] = grLog[k - 1].tree[p]
      BY <3>1, <3>3 DEF Parent
    <3> QED BY <3>1, <3>3, <3>4
  <2> QED BY <2>2, <2>3
<1>7. Len(grLog') >= 1
  BY <1>1a, <1>2a
<1> QED BY <1>2, <1>4, <1>5, <1>6, <1>7
-----------------------------------------------------------------------------
(* The steps.                                                              *)

LEMMA GrInitHolds == GrInit => GrIInv
<1> SUFFICES ASSUME GrInit PROVE GrIInv
  OBVIOUS
<1>1. PICK t \in GrTexts : LET tree == [p \in GrPaths |-> t]
                           IN /\ grLog = <<[by |-> "user", tree |-> tree, of |-> 0, touched |-> {}]>>
                              /\ grIndex = tree /\ grWork = tree
  BY DEF GrInit
<1> DEFINE e == [by |-> "user", tree |-> [p \in GrPaths |-> t], of |-> 0, touched |-> {}]
<1>2. e \in GrCommit /\ e.by = "user" /\ e.of = 0 /\ e.tree \in Trees
  BY DEF GrCommit, Trees
<1>3. grLog = <<e>> /\ grIndex \in Trees /\ grWork \in Trees
  BY <1>1, <1>2
<1> HIDE DEF e
<1>4. grLog \in Seq(GrCommit) /\ Len(grLog) = 1 /\ grLog[1] = e /\ DOMAIN grLog = 1..1
  BY <1>2, <1>3
<1>5. grUndo = NoUndo /\ grUndo \in UndoType /\ grTouched = {}
  BY DEF GrInit, NoUndo, UndoType
<1>6. GrTypeInv /\ OfBefore
  BY <1>2, <1>3, <1>4, <1>5 DEF GrTypeInv, OfBefore
<1>7. CommitsChangeSomething /\ UndoRestoresTheBefore
  BY <1>2, <1>4 DEF CommitsChangeSomething, UndoRestoresTheBefore
<1>8. UndoUnderWay
  BY <1>5 DEF UndoUnderWay, NoUndo
<1> QED BY <1>6, <1>7, <1>8 DEF GrIInv

\* A step that leaves the log alone leaves alone what is said of it.
LEMMA SameLog ==
    ASSUME GrIInv, grLog' = grLog
    PROVE  /\ grLog' \in Seq(GrCommit) /\ Len(grLog') >= 1
           /\ OfBefore' /\ CommitsChangeSomething' /\ UndoRestoresTheBefore'
           /\ \A c : Changed(c)' = Changed(c) /\ Parent(c)' = Parent(c)
BY DEF GrIInv, GrTypeInv, OfBefore, CommitsChangeSomething, UndoRestoresTheBefore, Changed, Parent

\* The older commits say of a file what they did.
LEMMA OlderStand ==
    ASSUME grLog \in Seq(GrCommit), grLog' \in Seq(GrCommit), Len(grLog') >= Len(grLog),
           \A c \in 1..Len(grLog) : grLog'[c] = grLog[c],
           NEW c \in 2..Len(grLog)
    PROVE  /\ c \in 2..Len(grLog') /\ grLog'[c] = grLog[c]
           /\ Changed(c)' = Changed(c) /\ Parent(c)' = Parent(c)
<1>1. c \in 1..Len(grLog) /\ c - 1 \in 1..Len(grLog) /\ c \in 2..Len(grLog')
  OBVIOUS
<1>2. grLog'[c] = grLog[c] /\ grLog'[c - 1] = grLog[c - 1]
  BY <1>1
<1> QED BY <1>1, <1>2 DEF Changed, Parent

\* What the user does to files leaves the undo what it was, but for those files.
LEMMA UserKeeps ==
    ASSUME GrIInv, NEW files \in SUBSET GrPaths, Touches(files),
           \A p \in GrPaths \ files : grWork'[p] = grWork[p] /\ grIndex'[p] = grIndex[p],
           grLog' \in Seq(GrCommit), Len(grLog') >= Len(grLog),
           \A c \in 1..Len(grLog) : grLog'[c] = grLog[c]
    PROVE  UndoUnderWay' /\ grUndo' \in UndoType /\ grTouched' \subseteq GrPaths
<1>1. /\ grUndo' = grUndo /\ grUndo \in UndoType /\ grTouched \subseteq GrPaths
      /\ grTouched' = IF grUndo.at = "writing" THEN grTouched \cup files ELSE {}
      /\ grLog \in Seq(GrCommit)
  BY DEF Touches, GrIInv, GrTypeInv
<1>2. CASE grUndo.at # "writing"
  <2>1. Len(grLog) \in Nat /\ Len(grLog') \in Nat
    BY <1>1
  <2> QED BY <1>1, <1>2, <2>1 DEF GrIInv, UndoUnderWay
<1>3. CASE grUndo.at = "writing"
  <2>1. PICK c : c = grUndo.of
    OBVIOUS
  <2>2. UndoIsOf(c)
    BY <1>3, <2>1 DEF GrIInv, UndoUnderWay
  <2>3. c \in 2..Len(grLog)
    BY <2>2 DEF UndoIsOf
  <2>4. /\ c \in 2..Len(grLog') /\ grLog'[c] = grLog[c]
        /\ Changed(c)' = Changed(c) /\ Parent(c)' = Parent(c)
    BY <1>1, <2>3, OlderStand
  <2>5. grTouched' = grTouched \cup files /\ Changed(c) \subseteq GrPaths
    BY <1>1, <1>3 DEF Changed
  <2>6. grUndo.todo \subseteq Changed(c) /\ grUndo.adding \subseteq Changed(c)
    BY <2>2 DEF UndoIsOf
  <2>7. \A p \in grUndo.todo \ grTouched' : grWork'[p] = grLog'[c].tree[p]
    BY <2>2, <2>4, <2>5, <2>6 DEF UndoIsOf
  <2>8. \A p \in grUndo.adding \ grTouched' : grWork'[p] = Parent(c)'[p]
    BY <2>2, <2>4, <2>5, <2>6 DEF UndoIsOf
  <2>9. \A p \in Changed(c)' \ (grUndo.todo \cup grUndo.adding \cup grTouched') :
           grIndex'[p] = Parent(c)'[p]
    BY <2>2, <2>4, <2>5 DEF UndoIsOf
  <2>10. \A p \in grUndo.adding : p \notin grUndo.todo /\ \A q \in grUndo.adding : q = p
    BY <2>2 DEF UndoIsOf
  <2>11. UndoIsOf(c)'
    BY <1>1, <2>4, <2>6, <2>7, <2>8, <2>9, <2>10 DEF UndoIsOf
  <2> QED BY <1>1, <1>3, <2>1, <2>5, <2>11 DEF UndoUnderWay
<1> QED BY <1>2, <1>3

LEMMA SaveKeeps ==
    ASSUME GrIInv, NEW p \in GrPaths, NEW t \in GrTexts \cup {Absent}, SaveFile(p, t)
    PROVE  GrIInv'
<1>1. grWork' \in Trees /\ grLog' = grLog /\ grIndex' = grIndex /\ Touches({p}) /\ {p} \in SUBSET GrPaths
  BY DEF GrIInv, GrTypeInv, Trees, SaveFile
<1>2. \A q \in GrPaths \ {p} : grWork'[q] = grWork[q]
  BY DEF GrIInv, GrTypeInv, Trees, SaveFile
<1>3. UndoUnderWay' /\ grUndo' \in UndoType /\ grTouched' \subseteq GrPaths
  <2>1. grLog \in Seq(GrCommit) /\ Len(grLog) \in Nat
    BY DEF GrIInv, GrTypeInv
  <2> QED BY <1>1, <1>2, <2>1, UserKeeps
<1>4. GrTypeInv'
  BY <1>1, <1>3 DEF GrIInv, GrTypeInv
<1> QED BY <1>1, <1>3, <1>4, SameLog DEF GrIInv

LEMMA StageKeeps ==
    ASSUME GrIInv, (\E p \in GrPaths : ToggleStaged(p)) \/ StageAll
    PROVE  GrIInv'
<1>1. HeadTree \in Trees /\ grIndex \in Trees /\ grWork \in Trees
  <2>1. Len(grLog) \in 1..Len(grLog)
    BY DEF GrIInv, GrTypeInv
  <2>2. grLog[Len(grLog)] \in GrCommit
    BY <2>1 DEF GrIInv, GrTypeInv
  <2> QED BY <2>2 DEF HeadTree, Last, GrCommit, GrIInv, GrTypeInv
<1>2. PICK files \in SUBSET GrPaths :
         /\ grIndex' \in Trees /\ \A q \in GrPaths \ files : grIndex'[q] = grIndex[q]
         /\ grLog' = grLog /\ grWork' = grWork /\ Touches(files)
  <2>1. ASSUME NEW p \in GrPaths, ToggleStaged(p)
        PROVE  /\ grIndex' \in Trees /\ \A q \in GrPaths \ {p} : grIndex'[q] = grIndex[q]
               /\ grLog' = grLog /\ grWork' = grWork /\ Touches({p})
    BY <1>1, <2>1 DEF ToggleStaged, Trees
  <2>2. CASE StageAll
    <3>1. PICK files : files = {p \in GrPaths : grIndex'[p] # grIndex[p]}
      OBVIOUS
    <3>2. grIndex' \in Trees /\ grLog' = grLog /\ grWork' = grWork /\ Touches(files)
      BY <1>1, <2>2, <3>1 DEF StageAll, Trees
    <3>3. files \in SUBSET GrPaths /\ \A q \in GrPaths \ files : grIndex'[q] = grIndex[q]
      BY <3>1
    <3> QED BY <3>2, <3>3
  <2>3. ASSUME NEW p \in GrPaths PROVE {p} \in SUBSET GrPaths
    OBVIOUS
  <2> QED BY <2>1, <2>2, <2>3
<1>3. UndoUnderWay' /\ grUndo' \in UndoType /\ grTouched' \subseteq GrPaths
  <2>1. grLog \in Seq(GrCommit) /\ Len(grLog) \in Nat
    BY DEF GrIInv, GrTypeInv
  <2> QED BY <1>2, <2>1, UserKeeps
<1>4. GrTypeInv'
  BY <1>1, <1>2, <1>3 DEF GrIInv, GrTypeInv
<1> QED BY <1>2, <1>3, <1>4, SameLog DEF GrIInv

LEMMA CommitKeeps ==
    ASSUME GrIInv,
           CommitStaged \/ \E files \in (SUBSET GrPaths) \ {{}}, t \in GrTexts : CommitSeries(files, t)
    PROVE  GrIInv'
<1>1. PICK files \in SUBSET GrPaths :
         /\ grWork' \in Trees /\ grIndex' \in Trees /\ Touches(files)
         /\ \A p \in GrPaths \ files : grWork'[p] = grWork[p] /\ grIndex'[p] = grIndex[p]
  <2>1. CASE CommitStaged
    <3>1. grWork' \in Trees /\ grIndex' \in Trees /\ Touches({}) /\ grWork' = grWork /\ grIndex' = grIndex
      BY <2>1 DEF GrIInv, GrTypeInv, CommitStaged
    <3> QED BY <3>1
  <2>2. ASSUME NEW files \in SUBSET GrPaths, NEW t \in GrTexts, CommitSeries(files, t)
        PROVE  /\ grWork' \in Trees /\ grIndex' \in Trees /\ Touches(files)
               /\ \A p \in GrPaths \ files : grWork'[p] = grWork[p] /\ grIndex'[p] = grIndex[p]
    BY <2>2 DEF GrIInv, GrTypeInv, Trees, CommitSeries
  <2> QED BY <2>1, <2>2
<1>2. \E by \in {"user", "agent"} : grLog' = CommitOf(grLog, grIndex', by, 0, {})
  BY DEF CommitStaged, CommitSeries
<1>3. PICK by \in {"user", "agent"} : grLog' = CommitOf(grLog, grIndex', by, 0, {})
  BY <1>2
<1>4. 0 <= Len(grLog) /\ {} \in SUBSET GrPaths
  BY DEF GrIInv, GrTypeInv
<1>5. /\ grLog' \in Seq(GrCommit) /\ Len(grLog') >= 1
      /\ OfBefore' /\ CommitsChangeSomething' /\ UndoRestoresTheBefore'
  BY <1>1, <1>3, <1>4, LogKeeps DEF GrIInv
<1>6. Len(grLog') >= Len(grLog) /\ \A c \in 1..Len(grLog) : grLog'[c] = grLog[c]
  <2>1. Len(grLog') \in {Len(grLog), Len(grLog) + 1} /\ \A c \in 1..Len(grLog) : grLog'[c] = grLog[c]
    BY <1>1, <1>3, <1>4, LogGrows DEF GrIInv
  <2>2. Len(grLog) \in Nat
    BY DEF GrIInv, GrTypeInv
  <2> QED BY <2>1, <2>2
<1>7. UndoUnderWay' /\ grUndo' \in UndoType /\ grTouched' \subseteq GrPaths
  BY <1>1, <1>5, <1>6, UserKeeps
<1>8. GrTypeInv'
  BY <1>1, <1>5, <1>7 DEF GrTypeInv
<1> QED BY <1>5, <1>7, <1>8 DEF GrIInv

LEMMA FindKeeps ==
    ASSUME GrIInv, UndoFinds
    PROVE  GrIInv'
<1>1. PICK c \in LastAgentCommit : grUndo' = [NoUndo EXCEPT !.at = "found", !.of = c]
  BY DEF UndoFinds
<1>2. c \in 1..Len(grLog) /\ c \in Nat
  BY <1>1 DEF GrIInv, GrTypeInv, LastAgentCommit, AgentCommits
<1>3. grLog' = grLog /\ grWork' = grWork /\ grIndex' = grIndex /\ grTouched' = grTouched
  BY DEF UndoFinds
<1>4. grUndo' = [at |-> "found", of |-> c, todo |-> {}, adding |-> {}]
  BY <1>1 DEF NoUndo
<1>5. GrTypeInv' /\ UndoUnderWay'
  BY <1>2, <1>3, <1>4 DEF GrIInv, GrTypeInv, UndoType, UndoUnderWay
<1> QED BY <1>3, <1>5, SameLog DEF GrIInv

LEMMA PlanKeeps ==
    ASSUME GrIInv, UndoPlans
    PROVE  GrIInv'
<1>1. PICK c : c = grUndo.of
  OBVIOUS
<1>2. /\ grUndo.at = "found" /\ c > 1 /\ FilesAsCommitted(c)
      /\ grUndo' = [grUndo EXCEPT !.at = "writing", !.todo = Changed(c)] /\ grTouched' = {}
      /\ grLog' = grLog /\ grWork' = grWork /\ grIndex' = grIndex
  BY <1>1 DEF UndoPlans
<1>3. /\ grUndo \in UndoType /\ grUndo.adding = {} /\ c \in 2..Len(grLog) /\ Changed(c) \in SUBSET GrPaths
  BY <1>1, <1>2 DEF GrIInv, GrTypeInv, UndoUnderWay, Changed
<1>4. /\ grUndo'.at = "writing" /\ grUndo'.of = c /\ grUndo'.todo = Changed(c) /\ grUndo'.adding = {}
      /\ grUndo' \in UndoType
  BY <1>1, <1>2, <1>3 DEF UndoType
<1>5. Changed(c)' = Changed(c) /\ Parent(c)' = Parent(c)
  BY <1>2, SameLog
<1>6. UndoIsOf(c)'
  BY <1>2, <1>3, <1>4, <1>5 DEF UndoIsOf, FilesAsCommitted
<1>7. GrTypeInv' /\ UndoUnderWay'
  BY <1>2, <1>4, <1>6 DEF GrIInv, GrTypeInv, UndoUnderWay
<1> QED BY <1>2, <1>7, SameLog DEF GrIInv

\* A file of the undo is written and awaits its staging.
LEMMA WriteKeeps ==
    ASSUME GrIInv, NEW p \in GrPaths, UndoWrites(p)
    PROVE  GrIInv'
<1>0. PICK c : c = grUndo.of
  OBVIOUS
<1>1. /\ grUndo.at = "writing" /\ p \in grUndo.todo /\ grUndo.adding = {}
      /\ grLog' = grLog /\ grIndex' = grIndex /\ grTouched' = grTouched
      /\ grWork' = [grWork EXCEPT ![p] = Parent(c)[p]]
      /\ grUndo' = [grUndo EXCEPT !.todo = @ \ {p}, !.adding = {p}]
  BY <1>0 DEF UndoWrites, BeforeImage
<1>2. UndoIsOf(c) /\ c \in 2..Len(grLog)
  BY <1>0, <1>1 DEF GrIInv, UndoUnderWay, UndoIsOf
<1>3. grWork \in Trees /\ Parent(c) \in Trees /\ Changed(c) \subseteq GrPaths
  <2>1. c - 1 \in 1..Len(grLog)
    BY <1>2 DEF GrIInv, GrTypeInv
  <2>2. grLog[c - 1] \in GrCommit
    BY <2>1 DEF GrIInv, GrTypeInv
  <2> QED BY <2>2 DEF GrIInv, GrTypeInv, Parent, GrCommit, Changed
<1>4. /\ grUndo' \in UndoType /\ grUndo'.at = "writing" /\ grUndo'.of = c
      /\ grUndo'.todo = grUndo.todo \ {p} /\ grUndo'.adding = {p}
  BY <1>0, <1>1 DEF GrIInv, GrTypeInv, UndoType
<1>5. grWork' \in Trees /\ grWork'[p] = Parent(c)[p] /\ \A q \in GrPaths : q # p => grWork'[q] = grWork[q]
  BY <1>1, <1>3 DEF Trees
<1>6. Changed(c)' = Changed(c) /\ Parent(c)' = Parent(c)
  BY <1>1, SameLog
<1>7. UndoIsOf(c)'
  <2>1. p \in Changed(c) /\ grUndo'.todo \subseteq Changed(c) /\ grUndo.todo \subseteq Changed(c)
    BY <1>1, <1>2, <1>4 DEF UndoIsOf
  <2>2. \A q \in grUndo'.todo \ grTouched' : grWork'[q] = grLog'[c].tree[q]
    BY <1>1, <1>2, <1>3, <1>4, <1>5, <2>1 DEF UndoIsOf
  <2>3. \A q \in Changed(c) \ (grUndo'.todo \cup grUndo'.adding \cup grTouched') : grIndex'[q] = Parent(c)[q]
    BY <1>1, <1>2, <1>4 DEF UndoIsOf
  <2> QED BY <1>1, <1>2, <1>4, <1>5, <1>6, <2>1, <2>2, <2>3 DEF UndoIsOf
<1>8. GrTypeInv' /\ UndoUnderWay'
  BY <1>1, <1>4, <1>5, <1>7 DEF GrIInv, GrTypeInv, UndoUnderWay
<1> QED BY <1>1, <1>8, SameLog DEF GrIInv

\* A file of the undo is staged as it is: what the commit found, or what the user made of it.
LEMMA UndoStageKeeps ==
    ASSUME GrIInv, NEW p \in GrPaths, UndoStages(p)
    PROVE  GrIInv'
<1>0. PICK c : c = grUndo.of
  OBVIOUS
<1>1. /\ p \in grUndo.adding /\ grLog' = grLog /\ grTouched' = grTouched
      /\ grWork' = IF Parent(c)[p] = Absent THEN [grWork EXCEPT ![p] = Absent] ELSE grWork
      /\ grIndex' = [grIndex EXCEPT ![p] = grWork'[p]]
      /\ grUndo' = [grUndo EXCEPT !.adding = {}]
  BY <1>0 DEF UndoStages, BeforeImage
<1>2. grUndo.at = "writing" /\ grUndo \in UndoType
  BY <1>1 DEF GrIInv, GrTypeInv, UndoType, UndoUnderWay, NoUndo
<1>3. UndoIsOf(c) /\ c \in 2..Len(grLog) /\ grWork \in Trees /\ grIndex \in Trees /\ Changed(c) \subseteq GrPaths
  BY <1>0, <1>2 DEF GrIInv, GrTypeInv, UndoUnderWay, UndoIsOf, Changed
<1>4. /\ grUndo' \in UndoType /\ grUndo'.at = "writing" /\ grUndo'.of = c
      /\ grUndo'.todo = grUndo.todo /\ grUndo'.adding = {}
  BY <1>0, <1>1, <1>2 DEF UndoType
<1>5. /\ grWork' \in Trees /\ \A q \in GrPaths : q # p => grWork'[q] = grWork[q]
      /\ Parent(c)[p] # Absent => grWork'[p] = grWork[p]
      /\ Parent(c)[p] = Absent => grWork'[p] = Parent(c)[p]
  BY <1>1, <1>3 DEF Trees
<1>6. grIndex' \in Trees /\ grIndex'[p] = grWork'[p] /\ \A q \in GrPaths : q # p => grIndex'[q] = grIndex[q]
  BY <1>1, <1>3, <1>5 DEF Trees
<1>7. Changed(c)' = Changed(c) /\ Parent(c)' = Parent(c)
  BY <1>1, SameLog
<1>8. UndoIsOf(c)'
  <2>1. p \notin grUndo.todo /\ grUndo.todo \subseteq Changed(c) /\ \A q \in grUndo.adding : q = p
    BY <1>1, <1>3 DEF UndoIsOf
  <2>2. p \notin grTouched => grWork[p] = Parent(c)[p]
    BY <1>1, <1>3 DEF UndoIsOf
  <2>3. \A q \in grUndo.todo \ grTouched : grWork'[q] = grLog[c].tree[q]
    BY <1>3, <1>5, <2>1 DEF UndoIsOf
  <2>4. ASSUME NEW q \in Changed(c), q \notin grUndo.todo, q \notin grTouched
        PROVE  grIndex'[q] = Parent(c)[q]
    <3>1. CASE q = p
      BY <1>5, <1>6, <2>2, <2>4, <3>1
    <3>2. CASE q # p
      <4>1. q \in GrPaths /\ q \notin grUndo.adding
        BY <1>3, <2>1, <2>4, <3>2
      <4>2. grIndex[q] = Parent(c)[q]
        BY <1>3, <2>4, <4>1 DEF UndoIsOf
      <4> QED BY <1>6, <3>2, <4>1, <4>2
    <3> QED BY <3>1, <3>2
  <2> QED BY <1>1, <1>3, <1>4, <1>7, <2>1, <2>3, <2>4 DEF UndoIsOf
<1>9. GrTypeInv' /\ UndoUnderWay'
  BY <1>1, <1>4, <1>5, <1>6, <1>8 DEF GrIInv, GrTypeInv, UndoUnderWay
<1> QED BY <1>1, <1>9, SameLog DEF GrIInv

LEMMA FailKeeps ==
    ASSUME GrIInv, UndoFails
    PROVE  GrIInv'
<1>1. grLog' = grLog /\ grWork' = grWork /\ grIndex' = grIndex /\ grUndo' = NoUndo /\ grTouched' = {}
  BY DEF UndoFails
<1>2. GrTypeInv' /\ UndoUnderWay'
  BY <1>1 DEF GrIInv, GrTypeInv, UndoType, UndoUnderWay, NoUndo
<1> QED BY <1>1, <1>2, SameLog DEF GrIInv

\* With nothing left to stage the index has every file of the undone commit as it
\* was before, those the user has touched aside, and that is what the undo commits.
LEMMA UndoCommitKeeps ==
    ASSUME GrIInv, UndoCommits
    PROVE  GrIInv'
<1>0. PICK c : c = grUndo.of
  OBVIOUS
<1>1. /\ grUndo.at = "writing" /\ grUndo.todo = {} /\ grUndo.adding = {} /\ grUndo' = NoUndo
      /\ grLog' = CommitOf(grLog, grIndex, "undo", c, grTouched) /\ grTouched' = {}
      /\ grWork' = grWork /\ grIndex' = grIndex
  BY <1>0 DEF UndoCommits
<1>2. c \in 2..Len(grLog) /\ \A p \in Changed(c) \ grTouched : grIndex[p] = Parent(c)[p]
  BY <1>0, <1>1 DEF GrIInv, UndoUnderWay, UndoIsOf
<1>3. grIndex \in Trees /\ c \in Nat /\ c <= Len(grLog) /\ c >= 2 /\ grTouched \in SUBSET GrPaths
  BY <1>2 DEF GrIInv, GrTypeInv
<1>4. /\ grLog' \in Seq(GrCommit) /\ Len(grLog') >= 1
      /\ OfBefore' /\ CommitsChangeSomething' /\ UndoRestoresTheBefore'
  BY <1>1, <1>2, <1>3, LogKeeps DEF GrIInv
<1>5. GrTypeInv' /\ UndoUnderWay'
  BY <1>1, <1>4 DEF GrIInv, GrTypeInv, UndoType, UndoUnderWay, NoUndo
<1> QED BY <1>4, <1>5 DEF GrIInv

\* Nothing that is asked for, done or left disturbs the invariant.
LEMMA GrNextKeeps ==
    ASSUME GrIInv, [GrNext]_grVars
    PROVE  GrIInv'
<1>1. CASE UNCHANGED grVars
  <2>1. GrTypeInv' /\ UndoUnderWay'
    BY <1>1 DEF grVars, GrIInv, GrTypeInv, UndoUnderWay, UndoIsOf, Changed, Parent
  <2> QED BY <1>1, <2>1, SameLog DEF grVars, GrIInv
<1>2. CASE UndoKey
  <2>1. GrTypeInv' /\ UndoUnderWay'
    BY <1>2 DEF UndoKey, GrIInv, GrTypeInv, UndoUnderWay, UndoIsOf, Changed, Parent
  <2> QED BY <1>2, <2>1, SameLog DEF UndoKey, GrIInv
<1> QED
  BY <1>1, <1>2, SaveKeeps, StageKeeps, CommitKeeps, FindKeeps, PlanKeeps, WriteKeeps,
     UndoStageKeeps, FailKeeps, UndoCommitKeeps DEF GrNext
-----------------------------------------------------------------------------
(* The theorems.                                                           *)

LEMMA GrInvariantHolds == GrSpec => []GrIInv
<1>1. GrIInv /\ [GrNext]_grVars => GrIInv'
  BY GrNextKeeps
<1> QED BY <1>1, GrInitHolds, PTL DEF GrSpec

\* For any paths and contents, the variables of the repository keep their types.
THEOREM GrTypeCorrect == GrSpec => []GrTypeOK
<1>1. GrIInv => GrTypeOK
  <2> SUFFICES ASSUME GrIInv PROVE GrTypeOK
    OBVIOUS
  <2>1. \A c \in DOMAIN grLog : grLog[c].tree \in Trees /\ grLog[c].of \in 0..(c - 1)
    <3> SUFFICES ASSUME NEW c \in 1..Len(grLog)
                 PROVE  grLog[c].tree \in Trees /\ grLog[c].of \in 0..(c - 1)
      BY DEF GrIInv, GrTypeInv
    <3>1. grLog[c] \in GrCommit
      BY DEF GrIInv, GrTypeInv
    <3>2. grLog[c].tree \in Trees /\ grLog[c].of \in Nat /\ grLog[c].of <= c - 1
      BY <3>1 DEF GrIInv, OfBefore, GrCommit
    <3> QED BY <3>2
  <2>2. grUndo.at \in {"idle", "found", "writing"} /\ Len(grLog) \in Nat /\ grTouched \subseteq GrPaths
    BY DEF GrIInv, GrTypeInv, UndoType
  <2>3. /\ grUndo.of \in 0..Len(grLog)
        /\ grUndo.todo \cup grUndo.adding \subseteq (IF grUndo.of > 1 THEN Changed(grUndo.of) ELSE {})
    <3>1. CASE grUndo.at # "writing"
      BY <2>2, <3>1 DEF GrIInv, UndoUnderWay, NoUndo
    <3>2. CASE grUndo.at = "writing"
      <4>1. UndoIsOf(grUndo.of)
        BY <3>2 DEF GrIInv, UndoUnderWay
      <4> QED BY <2>2, <4>1 DEF UndoIsOf
    <3> QED BY <3>1, <3>2
  <2> QED BY <2>1, <2>2, <2>3 DEF GrTypeOK, GrIInv, GrTypeInv
<1> QED BY <1>1, GrInvariantHolds, PTL

\* Every commit, of the user, the agents and an undo, changes something.
THEOREM CommitsCorrect == GrSpec => []CommitsChangeSomething
<1>1. GrIInv => CommitsChangeSomething
  BY DEF GrIInv
<1> QED BY <1>1, GrInvariantHolds, PTL

\* Whatever was committed before or meanwhile, what an undo commits has each file
\* of its commit as it was before that commit, but for the files the user touched
\* since the undo's check.
THEOREM RestoresCorrect == GrSpec => []UndoRestoresTheBefore
<1>1. GrIInv => UndoRestoresTheBefore
  BY DEF GrIInv
<1> QED BY <1>1, GrInvariantHolds, PTL

\* An undo writes the files of its commit and nothing else, gives each what it held
\* before that commit, and finds in it what the commit wrote or what the user made
\* of it since the undo's check.
THEOREM WritesCorrect == GrSpec => UndoWritesItsCommitOnly
<1>1. ASSUME GrIInv, GrNext, grUndo.at = "writing", UndoMoves, NEW p \in GrPaths, grWork'[p] # grWork[p]
      PROVE  /\ p \in Changed(grUndo.of) /\ grWork'[p] = Parent(grUndo.of)[p]
             /\ grWork[p] = grLog[grUndo.of].tree[p] \/ p \in grTouched
  <2>1. PICK c : c = grUndo.of
    OBVIOUS
  <2>2. UndoIsOf(c) /\ grWork \in Trees
    BY <1>1, <2>1 DEF GrIInv, GrTypeInv, UndoUnderWay
  <2>3. CASE \E q \in GrPaths : UndoWrites(q)
    <3>1. PICK q \in grUndo.todo : grWork' = [grWork EXCEPT ![q] = Parent(c)[q]]
      BY <2>1, <2>3 DEF UndoWrites, BeforeImage
    <3>2. p = q /\ grWork'[p] = Parent(c)[p]
      BY <1>1, <2>2, <3>1 DEF Trees
    <3> QED BY <2>1, <2>2, <3>1, <3>2 DEF UndoIsOf
  <2>4. CASE \E q \in GrPaths : UndoStages(q)
    <3>1. PICK q \in grUndo.adding :
             grWork' = IF Parent(c)[q] = Absent THEN [grWork EXCEPT ![q] = Absent] ELSE grWork
      BY <2>1, <2>4 DEF UndoStages, BeforeImage
    <3>2. p = q /\ Parent(c)[p] = Absent /\ grWork'[p] = Absent
      BY <1>1, <2>2, <3>1 DEF Trees
    <3>3. p \in Changed(c) /\ (p \notin grTouched => grWork[p] = Parent(c)[p])
      BY <2>2, <3>1, <3>2 DEF UndoIsOf
    <3> QED BY <1>1, <2>1, <3>2, <3>3
  <2>5. CASE \/ \E q \in GrPaths, t \in GrTexts \cup {Absent} : SaveFile(q, t)
             \/ \E q \in GrPaths : ToggleStaged(q)
             \/ \E files \in (SUBSET GrPaths) \ {{}}, t \in GrTexts : CommitSeries(files, t)
             \/ StageAll \/ CommitStaged \/ UndoKey
    <3>1. grUndo' = grUndo
      BY <2>5 DEF SaveFile, ToggleStaged, CommitSeries, StageAll, CommitStaged, UndoKey, Touches
    <3> QED BY <1>1, <3>1 DEF UndoMoves
  <2>6. CASE UndoFinds \/ UndoPlans \/ UndoFails \/ UndoCommits
    BY <1>1, <2>6 DEF UndoFinds, UndoPlans, UndoFails, UndoCommits
  <2> QED BY <1>1, <2>3, <2>4, <2>5, <2>6 DEF GrNext
<1>2. ASSUME GrIInv, [GrNext]_grVars
      PROVE  [grUndo.at = "writing" /\ UndoMoves => \A p \in GrPaths : grWork'[p] # grWork[p] =>
                 /\ p \in Changed(grUndo.of) /\ grWork'[p] = Parent(grUndo.of)[p]
                 /\ grWork[p] = grLog[grUndo.of].tree[p] \/ p \in grTouched]_grVars
  BY <1>1, <1>2
<1> QED BY <1>2, GrInvariantHolds, PTL DEF GrSpec, UndoWritesItsCommitOnly

\* The undo of an agent's commit brings back the text before it and writes nothing
\* else, over nothing but what that commit wrote and what the user has touched
\* since the undo's check.
THEOREM UndoIsSafeCorrect == GrSpec => UndoIsSafe
<1>1. GrSpec => [](UndoRestoresTheBefore /\ CommitsChangeSomething)
  BY CommitsCorrect, RestoresCorrect, PTL
<1> QED BY <1>1, WritesCorrect DEF UndoIsSafe
-----------------------------------------------------------------------------
(***************************************************************************)
(* ProjectReplace for any files, any sizes of batches and channels and any *)
(* number of scans.  What is listed, and then written, is of one scan and  *)
(* lists no match twice, because each row a scan finds is in one place:    *)
(* the batch it fills, a message under way, or the list.  A replacement    *)
(* lists a file where the walk comes to it, and so once.                   *)
(***************************************************************************)
PrTexts   == PrFiles \X Nat \X {0, 1}
RowType   == [file : PrFiles, place : Nat, match : Nat, change : BOOLEAN, orig : PrTexts, scan : Nat]
MsgType   == [scan : Nat, n : Nat, rows : Seq(RowType), done : BOOLEAN]
ScanType  == [kind : {"find", "repl"}, gen : Nat, known : SUBSET PrFiles, next : Nat \ {0},
              found : Nat, batch : Seq(RowType), sent : Nat, queue : Seq(MsgType),
              at : {"walk", "done"}]
PanelType == [open : BOOLEAN, input : BOOLEAN, repl : BOOLEAN, step : 0..2,
              hits : Seq(RowType), fch : Nat, rows : Seq(RowType), order : Seq(Nat), ch : Nat,
              sel : Nat, review : BOOLEAN, rev : Nat \ {0}, shown : {NoFile} \cup PrFiles]
PrTabType == [open : BOOLEAN, dirty : BOOLEAN, text : PrTexts]

PrTyped ==
    /\ prDisk \in [PrFiles -> PrTexts] /\ prTabs \in [PrFiles -> PrTabType]
    /\ panel \in PanelType /\ scans \in Seq(ScanType) /\ inbox \subseteq MsgType
    /\ prGen \in 0..MaxGens /\ prEdits \in Nat
    /\ panel.ch \in 0..Len(scans) /\ panel.fch \in 0..Len(scans)

\* A row of a replacement is at the first place of its file.
FromTheWalk(r, kind) ==
    /\ r.place \in DOMAIN FileAt /\ r.file = FileAt[r.place]
    /\ kind = "repl" => r.match = 0 /\ \A q \in 1..r.place - 1 : FileAt[q] # r.file

\* What the rows q are, of any scans sc: listed once, of places already visited.
ListedOnce(q) ==
    \A i, j \in DOMAIN q :
       q[i].scan = q[j].scan /\ q[i].place = q[j].place /\ q[i].match = q[j].match => i = j
Visited(q, sc) ==
    \A i \in DOMAIN q : /\ q[i].scan \in DOMAIN sc /\ q[i].place < sc[q[i].scan].next
                        /\ FromTheWalk(q[i], sc[q[i].scan].kind)
Piece(q, sc)   == ListedOnce(q) /\ Visited(q, sc)
OfScan(q, s)   == \A i \in DOMAIN q : q[i].scan = s
Apart(q, r)    == \A i \in DOMAIN q, j \in DOMAIN r : q[i].scan = r[j].scan => q[i].place # r[j].place

\* The messages in the channels and those a command has received.
Way(sc, box) ==
    box \cup {m \in MsgType : \E s \in DOMAIN sc : \E i \in DOMAIN sc[s].queue : m = sc[s].queue[i]}

\* A generation belongs to one scan, and the latest one to the last scan.
GensRise(sc, g) ==
    /\ \A s \in DOMAIN sc : sc[s].gen <= g
    /\ \A s, t \in DOMAIN sc : s < t => sc[s].gen < sc[t].gen

\* A message is in one place.
SentOnce(sc, box) ==
    /\ \A s \in DOMAIN sc : \A i \in DOMAIN sc[s].queue :
          /\ sc[s].queue[i].scan = s /\ sc[s].queue[i].n < sc[s].sent
          /\ \A j \in DOMAIN sc[s].queue : sc[s].queue[i].n = sc[s].queue[j].n => i = j
    /\ \A m \in box :
          /\ m.scan \in DOMAIN sc /\ m.n < sc[m.scan].sent
          /\ \A i \in DOMAIN sc[m.scan].queue : sc[m.scan].queue[i].n # m.n

\* So is a row: in a message, a batch or a list.
MessagesApart(sc, way) ==
    /\ \A m \in way : Piece(m.rows, sc) /\ OfScan(m.rows, m.scan)
    /\ \A m1, m2 \in way : m1 # m2 => Apart(m1.rows, m2.rows)
BatchesApart(sc, way) ==
    \A s \in DOMAIN sc : /\ Piece(sc[s].batch, sc) /\ OfScan(sc[s].batch, s)
                         /\ \A m \in way : Apart(m.rows, sc[s].batch)
ListApart(list, sc, way) ==
    /\ Piece(list, sc)
    /\ \A m \in way : Apart(list, m.rows)
    /\ \A s \in DOMAIN sc : Apart(list, sc[s].batch)

\* A list is of the latest scan of its kind.
Latest(list, kind, sc) ==
    \A i \in DOMAIN list :
       /\ list[i].scan \in DOMAIN sc /\ sc[list[i].scan].kind = kind
       /\ \A t \in DOMAIN sc : t > list[i].scan => sc[t].kind # kind

ScanInv(sc, box, g, p) ==
    /\ GensRise(sc, g) /\ SentOnce(sc, box)
    /\ MessagesApart(sc, Way(sc, box)) /\ BatchesApart(sc, Way(sc, box))
    /\ ListApart(p.rows, sc, Way(sc, box)) /\ ListApart(p.hits, sc, Way(sc, box))
    /\ Latest(p.rows, "repl", sc) /\ Latest(p.hits, "find", sc)
    /\ p.repl => \A i \in DOMAIN p.rows : sc[p.rows[i].scan].gen = g

\* The review and the selection are of what is listed.
ReviewOf(p) == p.review /\ p.repl => p.rev \in DOMAIN p.order /\ p.shown = p.rows[p.order[p.rev]].file
SelectionOf(p) == p.open => p.sel < Max({1, Len(ListOf(p))})
PanelInv(p) == p.order = ChangedRows(p.rows) /\ ReviewOf(p) /\ SelectionOf(p)

PrInv == PrTyped /\ ScanInv(scans, inbox, prGen, panel) /\ PanelInv(panel)
-----------------------------------------------------------------------------
LEMMA MaxOf ==
    ASSUME NEW x \in Int, NEW y \in Int
    PROVE  Max({x, y}) = IF x >= y THEN x ELSE y
<1> DEFINE m == IF x >= y THEN x ELSE y
<1>1. m \in {x, y} /\ \A z \in {x, y} : m >= z
  OBVIOUS
<1>2. ASSUME NEW z \in {x, y}, \A w \in {x, y} : z >= w PROVE z = m
  <2>1. z \in Int /\ m \in Int /\ z >= m /\ m >= z
    BY <1>1, <1>2
  <2> QED BY <2>1
<1>3. Max({x, y}) = CHOOSE z \in {x, y} : \A w \in {x, y} : z >= w
  BY DEF Max
<1> HIDE DEF m
<1>4. Max({x, y}) = m
  BY <1>1, <1>2, <1>3
<1> QED BY <1>4 DEF m

LEMMA MinOf ==
    ASSUME NEW x \in Int, NEW y \in Int
    PROVE  Min({x, y}) = IF x <= y THEN x ELSE y
<1> DEFINE m == IF x <= y THEN x ELSE y
<1>1. m \in {x, y} /\ \A z \in {x, y} : m <= z
  OBVIOUS
<1>2. ASSUME NEW z \in {x, y}, \A w \in {x, y} : z <= w PROVE z = m
  <2>1. z \in Int /\ m \in Int /\ z <= m /\ m <= z
    BY <1>1, <1>2
  <2> QED BY <2>1
<1>3. Min({x, y}) = CHOOSE z \in {x, y} : \A w \in {x, y} : z <= w
  BY DEF Min
<1> HIDE DEF m
<1>4. Min({x, y}) = m
  BY <1>1, <1>2, <1>3
<1> QED BY <1>4 DEF m

\* A selection that was moved is one of the list.
LEMMA Jumps ==
    ASSUME NEW p \in PanelType, NEW sel \in Int
    PROVE  /\ JumpProjSel(p, sel) = [p EXCEPT !.sel = JumpProjSel(p, sel).sel]
           /\ JumpProjSel(p, sel) \in PanelType
           /\ SelectionOf(JumpProjSel(p, sel))
<1> DEFINE n == Len(ListOf(p))
           low == IF sel <= n - 1 THEN sel ELSE n - 1
           s == IF 0 >= low THEN 0 ELSE low
           q == JumpProjSel(p, sel)
<1>1. n \in Nat
  BY DEF ListOf, PanelType
<1>2. low \in Int /\ Min({sel, n - 1}) = low
  <2>1. n - 1 \in Int
    BY <1>1
  <2> HIDE DEF n
  <2> QED BY <2>1, MinOf
<1>3. Max({0, low}) = s
  <2> HIDE DEF low
  <2> QED BY <1>2, MaxOf
<1>4. q = [p EXCEPT !.sel = s]
  BY <1>2, <1>3 DEF JumpProjSel
<1>5. s \in Nat /\ s < (IF 1 >= n THEN 1 ELSE n)
  <2> HIDE DEF n
  <2> QED BY <1>1
<1>6. Max({1, n}) = IF 1 >= n THEN 1 ELSE n
  <2> HIDE DEF n
  <2> QED BY <1>1, MaxOf
<1> HIDE DEF s
<1>7. q \in PanelType /\ q.sel = s /\ q.rows = p.rows /\ q.hits = p.hits /\ q.repl = p.repl
  <2> HIDE DEF q
  <2> QED BY <1>4, <1>5 DEF PanelType
<1>8. Len(ListOf(q)) = n
  <2> HIDE DEF q
  <2> QED BY <1>7 DEF ListOf
<1>9. q = [p EXCEPT !.sel = q.sel]
  <2> HIDE DEF q
  <2> QED BY <1>4, <1>7
<1> HIDE DEF n, q
<1>10. SelectionOf(q)
  BY <1>5, <1>6, <1>7, <1>8 DEF SelectionOf
<1> QED BY <1>7, <1>9, <1>10 DEF q

LEMMA Nothing == <<>> \in Seq(RowType) /\ <<>> \in Seq(Nat) /\ <<>> \in Seq(MsgType)
BY EmptySeq

LEMMA FirstRow == \A n \in Nat : 0 < Max({1, n})
<1> TAKE n \in Nat
<1>1. Max({1, n}) = IF 1 >= n THEN 1 ELSE n
  BY MaxOf
<1> QED BY <1>1
-----------------------------------------------------------------------------
\* The rows of u are those of q, then those of r.
Joins(u, q, r) ==
    \A i \in DOMAIN u :
       \/ i \in DOMAIN q /\ u[i] = q[i]
       \/ i \notin DOMAIN q /\ i - Len(q) \in DOMAIN r /\ u[i] = r[i - Len(q)]

LEMMA ConcatAt ==
    ASSUME NEW q \in Seq(RowType), NEW r \in Seq(RowType), NEW u, u = q \o r
    PROVE  u \in Seq(RowType) /\ Joins(u, q, r)
BY DEF Joins

LEMMA ApartSymmetric == \A q, r : Apart(q, r) => Apart(r, q)
BY DEF Apart

LEMMA ConcatApart ==
    ASSUME NEW q \in Seq(RowType), NEW r \in Seq(RowType), NEW t, Apart(q, t), Apart(r, t)
    PROVE  Apart(q \o r, t)
<1>1. PICK u : u = q \o r
  OBVIOUS
<1>2. Joins(u, q, r)
  BY <1>1, ConcatAt
<1>3. Apart(u, t)
  BY <1>2 DEF Apart, Joins
<1> QED BY <1>1, <1>3

LEMMA ConcatPiece ==
    ASSUME NEW q \in Seq(RowType), NEW r \in Seq(RowType), NEW sc,
           Piece(q, sc), Piece(r, sc), Apart(q, r)
    PROVE  Piece(q \o r, sc)
<1>1. PICK u : u = q \o r
  OBVIOUS
<1>2. u \in Seq(RowType) /\ Joins(u, q, r)
  BY <1>1, ConcatAt
<1>3. Visited(u, sc)
  BY <1>2 DEF Piece, Visited, Joins
<1>4. ASSUME NEW i \in DOMAIN u, NEW j \in DOMAIN u, u[i].scan = u[j].scan, u[i].place = u[j].place,
             u[i].match = u[j].match
      PROVE  i = j
  <2>1. CASE i \in DOMAIN q /\ j \in DOMAIN q
    BY <1>2, <1>4, <2>1 DEF Piece, ListedOnce, Joins
  <2>2. CASE i \in DOMAIN q /\ j \notin DOMAIN q
    BY <1>2, <1>4, <2>2 DEF Apart, Joins
  <2>3. CASE i \notin DOMAIN q /\ j \in DOMAIN q
    BY <1>2, <1>4, <2>3 DEF Apart, Joins
  <2>4. CASE i \notin DOMAIN q /\ j \notin DOMAIN q
    <3>3. PICK a, b : a = i - Len(q) /\ b = j - Len(q)
      OBVIOUS
    <3>4. a \in DOMAIN r /\ b \in DOMAIN r /\ u[i] = r[a] /\ u[j] = r[b]
      BY <1>2, <2>4, <3>3 DEF Joins
    <3>5. ListedOnce(r)
      BY DEF Piece
    <3>6. a = b
      BY <1>4, <3>4, <3>5 DEF ListedOnce
    <3>1. i - Len(q) = j - Len(q)
      BY <3>3, <3>6
    <3>2. i \in Nat /\ j \in Nat /\ Len(q) \in Nat
      BY <1>2
    <3> QED BY <3>1, <3>2
  <2> QED BY <2>1, <2>2, <2>3, <2>4
<1>5. Piece(u, sc)
  BY <1>3, <1>4 DEF Piece, ListedOnce
<1> QED BY <1>1, <1>5

\* A piece stays one when rows are taken out of it.
PartOf(q, r) == ListedOnce(q) /\ \A i \in DOMAIN q : \E j \in DOMAIN r : q[i] = r[j]

LEMMA PartIsApart ==
    ASSUME NEW list, NEW part, NEW sc, NEW way, PartOf(part, list), ListApart(list, sc, way)
    PROVE  ListApart(part, sc, way)
<1>1. Piece(part, sc)
  BY DEF ListApart, Piece, PartOf, Visited
<1>2. ASSUME NEW t, Apart(list, t) PROVE Apart(part, t)
  BY <1>2 DEF Apart, PartOf
<1> QED BY <1>1, <1>2 DEF ListApart

LEMMA PartIsLatest ==
    ASSUME NEW list, NEW part, NEW kind, NEW sc, PartOf(part, list), Latest(list, kind, sc)
    PROVE  Latest(part, kind, sc)
BY DEF Latest, PartOf

LEMMA EmptyIsPart == \A r : PartOf(<<>>, r)
BY DEF PartOf, ListedOnce

LEMMA IsPartOfItself == \A q : ListedOnce(q) => PartOf(q, q)
BY DEF PartOf

\* A panel that lists less, of the same generation or the next, is as good.
LEMMA PanelShrinks ==
    ASSUME NEW sc, NEW box, NEW g \in Nat, NEW g1 \in {g, g + 1}, NEW p, NEW p1,
           sc \in Seq(ScanType), ScanInv(sc, box, g, p),
           PartOf(p1.rows, p.rows), PartOf(p1.hits, p.hits),
           p1.repl => p1.rows = <<>> \/ (p.repl /\ g1 = g)
    PROVE  ScanInv(sc, box, g1, p1)
<1>1. GensRise(sc, g1)
  <2>1. \A s \in DOMAIN sc : sc[s] \in ScanType
    OBVIOUS
  <2>2. \A s \in DOMAIN sc : sc[s].gen \in Nat
    BY <2>1 DEF ScanType
  <2> QED BY <2>2 DEF ScanInv, GensRise
<1>2. ListApart(p1.rows, sc, Way(sc, box)) /\ ListApart(p1.hits, sc, Way(sc, box))
  BY PartIsApart DEF ScanInv
<1>3. Latest(p1.rows, "repl", sc) /\ Latest(p1.hits, "find", sc)
  BY PartIsLatest DEF ScanInv
<1>4. p1.repl => \A i \in DOMAIN p1.rows : sc[p1.rows[i].scan].gen = g1
  BY DEF ScanInv, PartOf
<1> QED BY <1>1, <1>2, <1>3, <1>4 DEF ScanInv
-----------------------------------------------------------------------------
\* rebuildProjReplOrder lists rows that carry a change.
LEMMA OrderType ==
    ASSUME NEW rows \in Seq(RowType)
    PROVE  /\ ChangedRows(rows) \in Seq(DOMAIN rows)
           /\ \A k \in DOMAIN ChangedRows(rows) : rows[ChangedRows(rows)[k]].change
<1> DEFINE id == [i \in DOMAIN rows |-> i]
           gone == {i \in DOMAIN rows : ~rows[i].change}
<1>1. DOMAIN rows = 1..Len(rows) /\ Len(rows) \in Nat
  OBVIOUS
<1>2. id \in Seq(DOMAIN rows)
  BY <1>1
<1>3. ChangedRows(rows) = Without(id, gone)
  BY DEF ChangedRows
<1> HIDE DEF id
<1>4. Without(id, gone) \in Seq(DOMAIN rows) /\ \A k \in DOMAIN Without(id, gone) : Without(id, gone)[k] \notin gone
  <2> HIDE DEF gone
  <2> QED BY <1>2, WithoutType, WithoutDrops
<1>5. \A k \in DOMAIN ChangedRows(rows) : ChangedRows(rows)[k] \in DOMAIN rows
  <2>1. ChangedRows(rows) \in Seq(DOMAIN rows)
    BY <1>3, <1>4
  <2> QED BY <2>1
<1> QED BY <1>3, <1>4, <1>5

\* Rows that come later do not move a change in the order.
LEMMA OrderGrows ==
    ASSUME NEW rows \in Seq(RowType), NEW more \in Seq(RowType)
    PROVE  \A k \in DOMAIN ChangedRows(rows) :
              /\ k \in DOMAIN ChangedRows(rows \o more)
              /\ ChangedRows(rows \o more)[k] = ChangedRows(rows)[k]
<1> DEFINE all == rows \o more
           S == 1..Len(all)
           id(q) == [i \in DOMAIN q |-> i]
           gone(q) == {i \in DOMAIN q : ~q[i].change}
<1>1. /\ all \in Seq(RowType) /\ DOMAIN all = 1..Len(all) /\ DOMAIN rows = 1..Len(rows)
      /\ Len(rows) \in Nat /\ Len(all) \in Nat /\ Len(rows) <= Len(all)
      /\ \A i \in DOMAIN rows : i \in DOMAIN all /\ all[i] = rows[i]
  OBVIOUS
<1> HIDE DEF all
<1>2. /\ id(rows) \in Seq(S) /\ id(all) \in Seq(S)
      /\ Len(id(rows)) = Len(rows) /\ Len(id(all)) = Len(all)
  BY <1>1
<1>3. PICK s, t, A, B : s = id(rows) /\ t = id(all) /\ A = gone(rows) /\ B = gone(all)
  OBVIOUS
<1>4. /\ s \in Seq(S) /\ t \in Seq(S) /\ Len(s) <= Len(t)
      /\ SameStart(s, t, A, B)
  <2>1. \A i \in DOMAIN s : t[i] = i /\ s[i] = i /\ i \in DOMAIN rows /\ i \in DOMAIN all
    BY <1>1, <1>3
  <2>2. \A i \in DOMAIN rows : i \in gone(rows) <=> i \in gone(all)
    BY <1>1
  <2>3. \A i \in DOMAIN s : t[i] = s[i] /\ (s[i] \in A <=> s[i] \in B)
    <3> HIDE DEF id, gone
    <3> QED BY <1>3, <2>1, <2>2
  <2> HIDE DEF id, gone
  <2> QED BY <1>1, <1>2, <1>3, <2>3 DEF SameStart
<1>5. \A k \in DOMAIN Without(s, A) : k \in DOMAIN Without(t, B) /\ Without(t, B)[k] = Without(s, A)[k]
  <2> HIDE DEF S
  <2> QED BY <1>4, WithoutGrows
<1>6. ChangedRows(rows) = Without(s, A) /\ ChangedRows(all) = Without(t, B)
  BY <1>3 DEF ChangedRows
<1> QED BY <1>5, <1>6 DEF all

LEMMA NothingToOrder == ChangedRows(<<>>) = <<>>
<1>1. PICK q : q = ChangedRows(<<>>)
  OBVIOUS
<1>2. <<>> \in Seq(RowType) /\ DOMAIN <<>> = {}
  BY EmptySeq
<1>3. q \in Seq({})
  BY <1>1, <1>2, OrderType
<1>4. Len(q) = 0
  <2> SUFFICES ASSUME Len(q) # 0 PROVE FALSE
    OBVIOUS
  <2>1. 1 \in DOMAIN q
    BY <1>3
  <2> QED BY <1>3, <2>1
<1> QED BY <1>1, <1>3, <1>4
-----------------------------------------------------------------------------
(* The panel moves: the scans do not notice. *)
LEMMA PanelMoves ==
    ASSUME PrInv, UNCHANGED <<prDisk, prTabs, scans, prWaiting, inbox, prEdits>>,
           prGen' \in 0..MaxGens, prGen' \in {prGen, prGen + 1}, panel' \in PanelType,
           panel'.ch \in {0, panel.ch}, panel'.fch \in {0, panel.fch},
           panel'.rows \in {<<>>, panel.rows}, panel'.hits \in {<<>>, panel.hits},
           panel'.repl => panel'.rows = <<>> \/ (panel.repl /\ prGen' = prGen),
           PanelInv(panel')
    PROVE  PrInv'
<1>1. PrTyped'
  <2>1. Len(scans) \in Nat
    BY DEF PrInv, PrTyped
  <2> QED BY <2>1 DEF PrInv, PrTyped
<1>2. PartOf(panel'.rows, panel.rows) /\ PartOf(panel'.hits, panel.hits)
  <2>1. ListedOnce(panel.rows) /\ ListedOnce(panel.hits)
    BY DEF PrInv, ScanInv, ListApart, Piece
  <2> QED BY <2>1, EmptyIsPart, IsPartOfItself
<1>3. ScanInv(scans, inbox, prGen', panel')
  <2>1. prGen \in Nat /\ scans \in Seq(ScanType) /\ ScanInv(scans, inbox, prGen, panel)
    BY DEF PrInv, PrTyped
  <2> QED BY <2>1, <1>2, PanelShrinks
<1> QED BY <1>1, <1>3 DEF PrInv

LEMMA StartProjectSearchKeeps == ASSUME PrInv, StartProjectSearch PROVE PrInv'
<1>1. panel \in PanelType /\ prGen \in 0..MaxGens
  BY DEF PrInv, PrTyped
<1>2. panel' = [panel EXCEPT !.open = TRUE, !.input = TRUE, !.repl = FALSE, !.step = 0,
                             !.ch = 0, !.rows = <<>>, !.order = <<>>, !.sel = 0]
  BY DEF StartProjectSearch, Panel
<1>3. PICK z : z = 0 /\ z \in Nat /\ z \in 0..2
  OBVIOUS
<1>4. PICK e : e = <<>> /\ e \in Seq(RowType) /\ e \in Seq(Nat)
  BY Nothing
<1>5. panel' = [panel EXCEPT !.open = TRUE, !.input = TRUE, !.repl = FALSE, !.step = z,
                             !.ch = z, !.rows = e, !.order = e, !.sel = z]
  BY <1>2, <1>3, <1>4
<1>6. panel' \in PanelType
  BY <1>1, <1>3, <1>4, <1>5 DEF PanelType
<1>7. /\ panel'.rows = <<>> /\ panel'.order = <<>> /\ panel'.hits = panel.hits /\ panel'.sel = 0
      /\ ~panel'.repl /\ panel'.ch = 0 /\ panel'.fch = panel.fch
  BY <1>1, <1>2 DEF PanelType
<1>8. SelectionOf(panel')
  <2>1. ListOf(panel') = panel.hits /\ Len(panel.hits) \in Nat
    BY <1>1, <1>7 DEF ListOf, PanelType
  <2> QED BY <1>7, <2>1, FirstRow DEF SelectionOf
<1>9. PanelInv(panel')
  BY <1>7, <1>8, NothingToOrder DEF PanelInv, ReviewOf
<1> QED BY <1>1, <1>6, <1>7, <1>9, PanelMoves DEF StartProjectSearch, Panel

LEMMA StartProjectReplaceKeeps == ASSUME PrInv, StartProjectReplace PROVE PrInv'
<1>1. panel \in PanelType /\ prGen \in 0..MaxGens
  BY DEF PrInv, PrTyped
<1>2. panel' = FreshReplace(panel) /\ prGen' = prGen + 1 /\ prGen' \in 0..MaxGens
  BY <1>1, PrAssumption DEF StartProjectReplace, Panel
<1>3. PICK z : z = 0 /\ z \in Nat /\ z \in 0..2
  OBVIOUS
<1>4. PICK e : e = <<>> /\ e \in Seq(RowType) /\ e \in Seq(Nat)
  BY Nothing
<1>5. panel' = [panel EXCEPT !.open = TRUE, !.input = TRUE, !.repl = TRUE, !.step = z,
                             !.hits = e, !.fch = z, !.rows = e, !.order = e, !.ch = z,
                             !.sel = z, !.review = FALSE, !.shown = NoFile]
  BY <1>2, <1>3, <1>4 DEF FreshReplace
<1>6. panel' \in PanelType
  <2>1. PICK p : p = [panel EXCEPT !.open = TRUE, !.input = TRUE, !.repl = TRUE, !.review = FALSE,
                                   !.shown = NoFile]
    OBVIOUS
  <2>2. p \in PanelType
    BY <1>1, <2>1 DEF PanelType
  <2>3. panel' = [p EXCEPT !.step = z, !.hits = e, !.fch = z, !.rows = e, !.order = e, !.ch = z,
                           !.sel = z]
    BY <1>1, <1>5, <2>1 DEF PanelType
  <2> QED BY <1>3, <1>4, <2>2, <2>3 DEF PanelType
<1>7. /\ panel'.rows = <<>> /\ panel'.order = <<>> /\ panel'.hits = <<>> /\ panel'.sel = 0
      /\ ~panel'.review /\ panel'.ch = 0 /\ panel'.fch = 0
  BY <1>1, <1>2 DEF PanelType, FreshReplace
<1>8. SelectionOf(panel')
  BY <1>6, <1>7, FirstRow DEF SelectionOf, ListOf, PanelType
<1>9. PanelInv(panel')
  BY <1>7, <1>8, NothingToOrder DEF PanelInv, ReviewOf
<1> QED BY <1>2, <1>6, <1>7, <1>9, PanelMoves DEF StartProjectReplace, Panel

LEMMA StopProjectSearchKeeps == ASSUME PrInv, StopProjectSearch PROVE PrInv'
<1>1. panel \in PanelType /\ prGen \in 0..MaxGens
  BY DEF PrInv, PrTyped
<1>2. /\ panel' = [EndReview(panel) EXCEPT !.open = FALSE, !.fch = 0, !.repl = FALSE, !.step = 0,
                             !.ch = 0, !.rows = <<>>, !.order = <<>>]
      /\ prGen' = prGen + 1 /\ prGen' \in 0..MaxGens
  BY <1>1, PrAssumption DEF StopProjectSearch, Panel
<1>3. PICK z : z = 0 /\ z \in Nat /\ z \in 0..2
  OBVIOUS
<1>4. PICK e : e = <<>> /\ e \in Seq(RowType) /\ e \in Seq(Nat)
  BY Nothing
<1>5. panel' = [panel EXCEPT !.review = FALSE, !.shown = NoFile, !.open = FALSE, !.fch = z,
                             !.repl = FALSE, !.step = z, !.ch = z, !.rows = e, !.order = e]
  BY <1>1, <1>2, <1>3, <1>4 DEF EndReview, PanelType
<1>6. panel' \in PanelType
  BY <1>1, <1>3, <1>4, <1>5 DEF PanelType
<1>7. /\ panel'.rows = <<>> /\ panel'.order = <<>> /\ panel'.hits = panel.hits /\ ~panel'.open
      /\ ~panel'.repl /\ panel'.ch = 0 /\ panel'.fch = 0
  BY <1>1, <1>2 DEF PanelType, EndReview
<1>8. PanelInv(panel')
  BY <1>7, NothingToOrder DEF PanelInv, ReviewOf, SelectionOf
<1> QED BY <1>2, <1>6, <1>7, <1>8, PanelMoves DEF StopProjectSearch, Panel

\* What does not touch the lists leaves the order and the rest of PanelInv.
LEMMA ListsStand ==
    ASSUME PrInv, UNCHANGED <<prDisk, prTabs, scans, prWaiting, inbox, prEdits, prGen>>,
           panel' \in PanelType, panel'.ch = panel.ch, panel'.fch = panel.fch,
           panel'.rows = panel.rows, panel'.hits = panel.hits, panel'.order = panel.order,
           panel'.repl = panel.repl, ReviewOf(panel'), SelectionOf(panel')
    PROVE  PrInv'
<1>1. PanelInv(panel') /\ prGen' \in 0..MaxGens
  BY DEF PrInv, PanelInv, PrTyped
<1> QED BY <1>1, PanelMoves

LEMMA NextFieldKeeps == ASSUME PrInv, NextField PROVE PrInv'
<1>1. panel \in PanelType /\ PanelInv(panel)
  BY DEF PrInv, PrTyped
<1>2. ~panel.review /\ \E k \in 0..2 : panel' = [panel EXCEPT !.step = k]
  BY DEF NextField, Panel, Typing
<1>3. /\ panel' \in PanelType /\ panel'.ch = panel.ch /\ panel'.fch = panel.fch
      /\ panel'.rows = panel.rows /\ panel'.hits = panel.hits /\ panel'.order = panel.order
      /\ panel'.repl = panel.repl /\ panel'.review = panel.review
      /\ panel'.sel = panel.sel /\ panel'.open = panel.open
  BY <1>1, <1>2 DEF PanelType
<1>4. ReviewOf(panel') /\ SelectionOf(panel')
  BY <1>1, <1>2, <1>3 DEF PanelInv, ReviewOf, SelectionOf, ListOf
<1> QED BY <1>3, <1>4, ListsStand DEF NextField, Panel

LEMMA TypeOverKeeps == ASSUME PrInv, TypeOver PROVE PrInv'
<1>1. panel \in PanelType /\ PanelInv(panel)
  BY DEF PrInv, PrTyped
<1>2. ~panel.review /\ \E k \in 0..2 : panel' = [panel EXCEPT !.input = TRUE, !.step = k]
  <2>1. panel' = [panel EXCEPT !.input = TRUE, !.step = IF panel.repl THEN 0 ELSE @] /\ ~panel.review
    BY DEF TypeOver, Panel, Listing
  <2>2. panel.step \in 0..2 /\ 0 \in 0..2
    BY <1>1 DEF PanelType
  <2>3. PICK k : k = IF panel.repl THEN 0 ELSE panel.step
    OBVIOUS
  <2> QED BY <2>1, <2>2, <2>3
<1>3. /\ panel' \in PanelType /\ panel'.ch = panel.ch /\ panel'.fch = panel.fch
      /\ panel'.rows = panel.rows /\ panel'.hits = panel.hits /\ panel'.order = panel.order
      /\ panel'.repl = panel.repl /\ panel'.review = panel.review
      /\ panel'.sel = panel.sel /\ panel'.open = panel.open
  BY <1>1, <1>2 DEF PanelType
<1>4. ReviewOf(panel') /\ SelectionOf(panel')
  BY <1>1, <1>2, <1>3 DEF PanelInv, ReviewOf, SelectionOf, ListOf
<1> QED BY <1>3, <1>4, ListsStand DEF TypeOver, Panel

LEMMA RejectReviewKeeps == ASSUME PrInv, RejectReview PROVE PrInv'
<1>1. panel \in PanelType /\ PanelInv(panel)
  BY DEF PrInv, PrTyped
<1>2. panel' = [panel EXCEPT !.review = FALSE, !.shown = NoFile]
  BY DEF RejectReview, Panel, EndReview
<1>3. /\ panel' \in PanelType /\ panel'.ch = panel.ch /\ panel'.fch = panel.fch
      /\ panel'.rows = panel.rows /\ panel'.hits = panel.hits /\ panel'.order = panel.order
      /\ panel'.repl = panel.repl /\ ~panel'.review
      /\ panel'.sel = panel.sel /\ panel'.open = panel.open
  BY <1>1, <1>2 DEF PanelType
<1>4. ReviewOf(panel') /\ SelectionOf(panel')
  BY <1>1, <1>3 DEF PanelInv, ReviewOf, SelectionOf, ListOf
<1> QED BY <1>3, <1>4, ListsStand DEF RejectReview, Panel

LEMMA MoveSelectionKeeps == ASSUME PrInv, MoveSelection PROVE PrInv'
<1>1. panel \in PanelType /\ ~panel.review /\ UNCHANGED prGen
  BY DEF PrInv, PrTyped, MoveSelection, Listing
<1>2. PICK sel \in Int : Panel(JumpProjSel(panel, sel))
  <2>1. panel.sel \in Nat /\ Len(ListOf(panel)) \in Nat \ {0}
    BY <1>1 DEF PanelType, ListOf, MoveSelection
  <2> DEFINE n == Len(ListOf(panel))
  <2>2. {(panel.sel + 1) % n, (panel.sel + n - 1) % n, panel.sel - 10, panel.sel + 10} \subseteq Int
    <3>1. n \in Nat \ {0} /\ panel.sel + 1 \in Int /\ panel.sel + n - 1 \in Int
      BY <2>1
    <3> HIDE DEF n
    <3> QED BY <2>1, <3>1
  <2> QED BY <2>2 DEF MoveSelection
<1>3. PICK q : q = JumpProjSel(panel, sel)
  OBVIOUS
<1>4. q \in PanelType /\ q = [panel EXCEPT !.sel = q.sel] /\ SelectionOf(q)
  BY <1>1, <1>3, Jumps
<1>5. panel' = q
  BY <1>2, <1>3 DEF Panel
<1>6. /\ q.ch = panel.ch /\ q.fch = panel.fch
      /\ q.rows = panel.rows /\ q.hits = panel.hits /\ q.order = panel.order
      /\ q.repl = panel.repl /\ q.review = panel.review
  BY <1>1, <1>4 DEF PanelType
<1>7. ReviewOf(q)
  BY <1>1, <1>6 DEF ReviewOf
<1> QED BY <1>1, <1>2, <1>4, <1>5, <1>6, <1>7, ListsStand DEF Panel

LEMMA LoadedKeeps ==
    ASSUME PrInv, NEW i \in DOMAIN panel.order,
           panel' = [Loaded(panel, i) EXCEPT !.review = TRUE], UNCHANGED prGen,
           UNCHANGED <<prDisk, prTabs, scans, prWaiting, inbox, prEdits>>
    PROVE  PrInv'
<1>1. panel \in PanelType /\ PanelInv(panel) /\ panel.rows \in Seq(RowType)
  BY DEF PrInv, PrTyped, PanelType
<1>2. i \in Nat \ {0} /\ panel.order[i] \in DOMAIN panel.rows
  <2>1. panel.order \in Seq(DOMAIN panel.rows)
    BY <1>1, OrderType DEF PanelInv
  <2> QED BY <2>1
<1>3. panel.rows[panel.order[i]] \in RowType
  BY <1>1, <1>2
<1>4. panel.rows[panel.order[i]].file \in PrFiles
  BY <1>3 DEF RowType
<1>5. panel' = [panel EXCEPT !.rev = i, !.shown = panel.rows[panel.order[i]].file, !.review = TRUE]
  BY <1>1 DEF Loaded, PanelType
<1>6. /\ panel' \in PanelType /\ panel'.ch = panel.ch /\ panel'.fch = panel.fch
      /\ panel'.rows = panel.rows /\ panel'.hits = panel.hits /\ panel'.order = panel.order
      /\ panel'.repl = panel.repl /\ panel'.rev = i
      /\ panel'.shown = panel.rows[panel.order[i]].file
      /\ panel'.sel = panel.sel /\ panel'.open = panel.open
  BY <1>1, <1>2, <1>4, <1>5 DEF PanelType
<1>7. ReviewOf(panel') /\ SelectionOf(panel')
  BY <1>1, <1>6 DEF PanelInv, ReviewOf, SelectionOf, ListOf
<1> QED BY <1>6, <1>7, ListsStand

LEMMA ReviewKeeps == ASSUME PrInv, StartReview \/ ReviewNext PROVE PrInv'
<1>1. panel \in PanelType /\ panel.order \in Seq(Nat)
  BY DEF PrInv, PrTyped, PanelType
<1>2. CASE StartReview
  <2>1. PICK i \in DOMAIN panel.order : Panel([Loaded(panel, i) EXCEPT !.review = TRUE])
    BY <1>2 DEF StartReview
  <2> QED BY <1>2, <2>1, LoadedKeeps DEF StartReview, Panel
<1>3. CASE ReviewNext
  <2> DEFINE n == Len(panel.order)
  <2>1. n \in Nat \ {0} /\ panel.rev \in Nat \ {0}
    BY <1>1, <1>3 DEF ReviewNext, PanelType
  <2>2. {(panel.rev % n) + 1, ((panel.rev + n - 2) % n) + 1} \subseteq 1..n
    <3>1. panel.rev + n - 2 \in Int
      BY <2>1
    <3>2. panel.rev % n \in 0..(n - 1) /\ (panel.rev + n - 2) % n \in 0..(n - 1)
      <4> HIDE DEF n
      <4> QED BY <2>1, <3>1
    <3> HIDE DEF n
    <3> QED BY <2>1, <3>2
  <2>3. PICK i \in 1..n : Panel(Loaded(panel, i))
    BY <1>3, <2>2 DEF ReviewNext
  <2>4. i \in DOMAIN panel.order
    BY <1>1
  <2>5. Loaded(panel, i) = [Loaded(panel, i) EXCEPT !.review = TRUE]
    BY <1>1, <1>3 DEF ReviewNext, Loaded, PanelType
  <2> QED BY <1>3, <2>3, <2>4, <2>5, LoadedKeeps DEF ReviewNext, Panel
<1> QED BY <1>2, <1>3
-----------------------------------------------------------------------------
(* The scans move. *)

\* The scans sc1 are those of sc, as far or further.
SameScans(sc, sc1) ==
    /\ DOMAIN sc1 = DOMAIN sc
    /\ \A s \in DOMAIN sc : sc1[s].kind = sc[s].kind /\ sc1[s].gen = sc[s].gen /\ sc[s].next <= sc1[s].next

\* The element i of q is changed to e, which gives r.
ChangedAt(q, i, e, r) ==
    DOMAIN r = DOMAIN q /\ r[i] = e /\ \A j \in DOMAIN q : j # i => r[j] = q[j]

LEMMA ElementChanged ==
    ASSUME NEW S, NEW q \in Seq(S), NEW i, i \in DOMAIN q, NEW e \in S
    PROVE  /\ [q EXCEPT ![i] = e] \in Seq(S) /\ Len([q EXCEPT ![i] = e]) = Len(q)
           /\ ChangedAt(q, i, e, [q EXCEPT ![i] = e])
BY DEF ChangedAt

LEMMA PieceStands ==
    ASSUME NEW sc \in Seq(ScanType), NEW sc1 \in Seq(ScanType), NEW q \in Seq(RowType), Piece(q, sc),
           \A s \in DOMAIN sc : s \in DOMAIN sc1 /\ sc[s].next <= sc1[s].next /\ sc1[s].kind = sc[s].kind
    PROVE  Piece(q, sc1)
<1>1. ASSUME NEW i \in DOMAIN q
      PROVE  /\ q[i].scan \in DOMAIN sc1 /\ q[i].place < sc1[q[i].scan].next
             /\ FromTheWalk(q[i], sc1[q[i].scan].kind)
  <2>1. /\ q[i] \in RowType /\ q[i].scan \in DOMAIN sc /\ q[i].place < sc[q[i].scan].next
        /\ FromTheWalk(q[i], sc[q[i].scan].kind)
    BY DEF Piece, Visited
  <2>2. PICK s : s = q[i].scan
    OBVIOUS
  <2>3. s \in DOMAIN sc /\ s \in DOMAIN sc1 /\ sc[s].next <= sc1[s].next /\ sc1[s].kind = sc[s].kind
    BY <2>1, <2>2
  <2>4. sc[s] \in ScanType /\ sc1[s] \in ScanType
    BY <2>3
  <2>5. sc[s].next \in Int /\ sc1[s].next \in Int
    <3>1. sc[s].next \in Nat \ {0} /\ sc1[s].next \in Nat \ {0}
      BY <2>4 DEF ScanType
    <3> QED BY <3>1
  <2>6. q[i].place \in Int
    BY <2>1 DEF RowType
  <2> QED BY <2>1, <2>2, <2>3, <2>5, <2>6
<1> QED BY <1>1 DEF Piece, Visited

LEMMA WayType ==
    ASSUME NEW sc \in Seq(ScanType), NEW box, box \subseteq MsgType
    PROVE  Way(sc, box) \subseteq MsgType
BY DEF Way

LEMMA WayRows ==
    ASSUME NEW sc \in Seq(ScanType), NEW box, box \subseteq MsgType
    PROVE  \A m \in Way(sc, box) : m.rows \in Seq(RowType)
<1>1. Way(sc, box) \subseteq MsgType
  BY WayType
<1> QED BY <1>1 DEF MsgType

LEMMA ScansGoOn ==
    ASSUME NEW sc, NEW sc1, NEW box, NEW box1, NEW g, NEW p,
           ScanInv(sc, box, g, p), SameScans(sc, sc1), SentOnce(sc1, box1),
           MessagesApart(sc1, Way(sc1, box1)), BatchesApart(sc1, Way(sc1, box1)),
           ListApart(p.rows, sc1, Way(sc1, box1)), ListApart(p.hits, sc1, Way(sc1, box1))
    PROVE  ScanInv(sc1, box1, g, p)
<1>1. GensRise(sc1, g)
  BY DEF ScanInv, GensRise, SameScans
<1>2. ASSUME NEW list, NEW kind, Latest(list, kind, sc) PROVE Latest(list, kind, sc1)
  BY <1>2 DEF Latest, SameScans
<1>3. p.repl => \A i \in DOMAIN p.rows : sc1[p.rows[i].scan].gen = g
  <2>1. \A i \in DOMAIN p.rows : p.rows[i].scan \in DOMAIN sc
    BY DEF ScanInv, Latest
  <2> QED BY <2>1 DEF ScanInv, SameScans
<1> QED BY <1>1, <1>2, <1>3 DEF ScanInv

\* Nothing new is under way, and no batch has changed.
LEMMA LessUnderWay ==
    ASSUME NEW sc \in Seq(ScanType), NEW sc1 \in Seq(ScanType), NEW box, NEW box1, NEW g, NEW p,
           box \subseteq MsgType, p.rows \in Seq(RowType), p.hits \in Seq(RowType),
           ScanInv(sc, box, g, p), SameScans(sc, sc1), SentOnce(sc1, box1),
           Way(sc1, box1) \subseteq Way(sc, box),
           \A s \in DOMAIN sc : sc1[s].batch = sc[s].batch
    PROVE  ScanInv(sc1, box1, g, p)
<1>1. ASSUME NEW q \in Seq(RowType), Piece(q, sc) PROVE Piece(q, sc1)
  BY <1>1, PieceStands DEF SameScans
<1>2. \A m \in Way(sc, box) : m.rows \in Seq(RowType)
  BY WayRows
<1>3. \A s \in DOMAIN sc : sc[s].batch \in Seq(RowType)
  <2>1. \A s \in DOMAIN sc : sc[s] \in ScanType
    OBVIOUS
  <2> QED BY <2>1 DEF ScanType
<1>4. MessagesApart(sc1, Way(sc1, box1))
  BY <1>1, <1>2 DEF ScanInv, MessagesApart
<1>5. BatchesApart(sc1, Way(sc1, box1))
  BY <1>1, <1>3 DEF ScanInv, BatchesApart, SameScans
<1>6. ListApart(p.rows, sc1, Way(sc1, box1)) /\ ListApart(p.hits, sc1, Way(sc1, box1))
  BY <1>1 DEF ScanInv, ListApart, SameScans
<1> QED BY <1>4, <1>5, <1>6, ScansGoOn

\* A command receives the first message of a channel.
LEMMA ReceiveKeeps ==
    ASSUME NEW sc \in Seq(ScanType), NEW box, NEW g, NEW p,
           box \subseteq MsgType, p.rows \in Seq(RowType), p.hits \in Seq(RowType),
           ScanInv(sc, box, g, p), NEW s \in DOMAIN sc,
           NEW rec \in ScanType, rec.batch = sc[s].batch, rec.next = sc[s].next,
           sc[s].queue # <<>>, rec.queue = Tail(sc[s].queue),
           rec.sent = sc[s].sent, rec.kind = sc[s].kind, rec.gen = sc[s].gen,
           NEW sc1 \in Seq(ScanType), ChangedAt(sc, s, rec, sc1),
           NEW msg, msg = Head(sc[s].queue)
    PROVE  msg \in MsgType /\ ScanInv(sc1, box \cup {msg}, g, p)
<1>1. PICK q : q = sc[s].queue
  OBVIOUS
<1>2. sc[s] \in ScanType
  OBVIOUS
<1>3. q \in Seq(MsgType) /\ q # <<>>
  BY <1>1, <1>2 DEF ScanType
<1>4. PICK T : /\ T = Tail(q) /\ T \in Seq(MsgType) /\ msg = q[1] /\ msg \in MsgType /\ 1 \in DOMAIN q
               /\ \A i \in DOMAIN T : i \in Nat \ {0} /\ i + 1 \in DOMAIN q /\ T[i] = q[i + 1]
  <2>1. /\ Tail(q) \in Seq(MsgType) /\ msg = q[1] /\ msg \in MsgType /\ 1 \in DOMAIN q
        /\ \A i \in DOMAIN Tail(q) : i \in Nat \ {0} /\ i + 1 \in DOMAIN q /\ Tail(q)[i] = q[i + 1]
    BY <1>1, <1>3
  <2> QED BY <2>1
<1>6. rec.queue = T /\ rec.next \in Nat
  BY <1>1, <1>4 DEF ScanType
<1>7. /\ DOMAIN sc1 = DOMAIN sc /\ sc1[s] = rec
      /\ \A t \in DOMAIN sc : t # s => sc1[t] = sc[t]
  BY DEF ChangedAt
<1>8. SameScans(sc, sc1) /\ \A t \in DOMAIN sc : sc1[t].batch = sc[t].batch
  <2>1. \A t \in DOMAIN sc : sc[t].next \in Nat
    <3>1. \A t \in DOMAIN sc : sc[t] \in ScanType
      OBVIOUS
    <3> QED BY <3>1 DEF ScanType
  <2>2. ASSUME NEW t \in DOMAIN sc
        PROVE  /\ sc1[t].kind = sc[t].kind /\ sc1[t].gen = sc[t].gen /\ sc[t].next <= sc1[t].next
               /\ sc1[t].batch = sc[t].batch
    <3>1. CASE t = s
      BY <1>7, <2>1, <3>1
    <3>2. CASE t # s
      <4>1. sc1[t] = sc[t] /\ sc[t].next \in Nat
        BY <1>7, <2>1, <3>2
      <4> QED BY <4>1
    <3> QED BY <3>1, <3>2
  <2> QED BY <1>7, <2>2 DEF SameScans
<1>9. SentOnce(sc1, box \cup {msg})
  <2>1. ASSUME NEW t \in DOMAIN sc1, NEW i \in DOMAIN sc1[t].queue
        PROVE  /\ sc1[t].queue[i].scan = t /\ sc1[t].queue[i].n < sc1[t].sent
               /\ \A j \in DOMAIN sc1[t].queue : sc1[t].queue[i].n = sc1[t].queue[j].n => i = j
    <3>1. CASE t = s
      <4>1. sc1[t].queue = T /\ sc1[t].sent = sc[s].sent
        BY <1>6, <1>7, <3>1
      <4>2. i \in DOMAIN T /\ i \in Nat /\ i + 1 \in DOMAIN q /\ T[i] = q[i + 1]
        BY <4>1, <2>1, <1>4
      <4>3. /\ q[i + 1].scan = s /\ q[i + 1].n < sc[s].sent
            /\ \A j \in DOMAIN q : q[i + 1].n = q[j].n => i + 1 = j
        BY <4>2, <1>1 DEF ScanInv, SentOnce
      <4>4. ASSUME NEW j \in DOMAIN T, T[i].n = T[j].n PROVE i = j
        <5>1. j \in Nat /\ j + 1 \in DOMAIN q /\ T[j] = q[j + 1]
          BY <1>4
        <5>2. i + 1 = j + 1
          BY <5>1, <4>2, <4>3, <4>4
        <5> QED BY <5>1, <5>2, <4>2
      <4> QED BY <4>1, <4>2, <4>3, <4>4, <3>1
    <3>2. CASE t # s
      BY <1>7, <3>2, <2>1 DEF ScanInv, SentOnce
    <3> QED BY <3>1, <3>2
  <2>2. ASSUME NEW m \in box
        PROVE  /\ m.scan \in DOMAIN sc1 /\ m.n < sc1[m.scan].sent
               /\ \A i \in DOMAIN sc1[m.scan].queue : sc1[m.scan].queue[i].n # m.n
    <3>1. /\ m.scan \in DOMAIN sc /\ m.n < sc[m.scan].sent
          /\ \A i \in DOMAIN sc[m.scan].queue : sc[m.scan].queue[i].n # m.n
      BY DEF ScanInv, SentOnce
    <3>2. CASE m.scan = s
      <4>1. sc1[s].queue = T /\ sc1[s].sent = sc[s].sent
        BY <1>6, <1>7
      <4>2. \A i \in DOMAIN T : T[i].n # m.n
        BY <3>1, <3>2, <1>1, <1>4
      <4> QED BY <4>1, <4>2, <3>1, <3>2, <1>7
    <3>3. CASE m.scan # s
      BY <1>7, <3>1, <3>3
    <3> QED BY <3>2, <3>3
  <2>3. /\ msg.scan = s /\ msg.n < sc[s].sent
        /\ \A j \in DOMAIN q : q[1].n = q[j].n => 1 = j
    BY <1>1, <1>4 DEF ScanInv, SentOnce
  <2>4. \A i \in DOMAIN sc1[s].queue : sc1[s].queue[i].n # msg.n
    <3>1. ASSUME NEW i \in DOMAIN T PROVE T[i].n # msg.n
      <4>1. i \in Nat \ {0} /\ i + 1 \in DOMAIN q /\ T[i] = q[i + 1]
        BY <1>4
      <4>2. i + 1 # 1
        BY <4>1
      <4> QED BY <4>1, <4>2, <2>3, <1>4
    <3>2. sc1[s].queue = T
      BY <1>6, <1>7
    <3> QED BY <3>1, <3>2
  <2>5. msg.scan \in DOMAIN sc1 /\ msg.n < sc1[msg.scan].sent
    BY <1>6, <1>7, <2>3
  <2>6. \A i \in DOMAIN sc1[msg.scan].queue : sc1[msg.scan].queue[i].n # msg.n
    BY <2>3, <2>4
  <2> QED BY <2>1, <2>2, <2>5, <2>6 DEF SentOnce
<1>10. Way(sc1, box \cup {msg}) \subseteq Way(sc, box)
  <2>1. msg \in Way(sc, box)
    BY <1>1, <1>4 DEF Way
  <2>2. ASSUME NEW m \in MsgType, NEW t \in DOMAIN sc1, NEW i \in DOMAIN sc1[t].queue, m = sc1[t].queue[i]
        PROVE  m \in Way(sc, box)
    <3>1. CASE t = s
      <4>1. i \in DOMAIN T /\ m = T[i]
        BY <1>6, <1>7, <2>2, <3>1
      <4>2. i + 1 \in DOMAIN sc[s].queue /\ m = sc[s].queue[i + 1]
        BY <4>1, <1>1, <1>4
      <4> QED BY <4>2, <2>2 DEF Way
    <3>2. CASE t # s
      BY <1>7, <2>2, <3>2 DEF Way
    <3> QED BY <3>1, <3>2
  <2> QED BY <2>1, <2>2 DEF Way
<1> QED BY <1>4, <1>7, <1>8, <1>9, <1>10, LessUnderWay

\* What a scan has visited of a file is in its batch only.
LEMMA VisitKeeps ==
    ASSUME NEW sc \in Seq(ScanType), NEW box, NEW g, NEW p,
           box \subseteq MsgType, p.rows \in Seq(RowType), p.hits \in Seq(RowType),
           ScanInv(sc, box, g, p), NEW s \in DOMAIN sc, NEW more \in Seq(RowType),
           \A i \in DOMAIN more : more[i].scan = s /\ more[i].place = sc[s].next
                                  /\ FromTheWalk(more[i], sc[s].kind),
           ListedOnce(more),
           NEW rec \in ScanType, rec.batch = sc[s].batch \o more, rec.next = sc[s].next + 1,
           rec.queue = sc[s].queue, rec.sent = sc[s].sent, rec.kind = sc[s].kind, rec.gen = sc[s].gen,
           NEW sc1 \in Seq(ScanType), ChangedAt(sc, s, rec, sc1)
    PROVE  ScanInv(sc1, box, g, p)
<1>1. DOMAIN sc1 = DOMAIN sc /\ sc1[s] = rec /\ \A t \in DOMAIN sc : t # s => sc1[t] = sc[t]
  BY DEF ChangedAt
<1>2. \A t \in DOMAIN sc : sc[t].next \in Nat /\ sc[t].batch \in Seq(RowType)
  <2>1. \A t \in DOMAIN sc : sc[t] \in ScanType
    OBVIOUS
  <2> QED BY <2>1 DEF ScanType
<1>3. SameScans(sc, sc1)
  <2>1. ASSUME NEW t \in DOMAIN sc
        PROVE  sc1[t].kind = sc[t].kind /\ sc1[t].gen = sc[t].gen /\ sc[t].next <= sc1[t].next
    <3>1. CASE t = s
      BY <1>1, <1>2, <3>1
    <3>2. CASE t # s
      <4>1. sc1[t] = sc[t] /\ sc[t].next \in Nat
        BY <1>1, <1>2, <3>2
      <4> QED BY <4>1
    <3> QED BY <3>1, <3>2
  <2> QED BY <1>1, <2>1 DEF SameScans
<1>4. \A t \in DOMAIN sc : sc1[t].queue = sc[t].queue /\ sc1[t].sent = sc[t].sent
  <2>1. ASSUME NEW t \in DOMAIN sc PROVE sc1[t].queue = sc[t].queue /\ sc1[t].sent = sc[t].sent
    <3>1. CASE t = s
      BY <1>1, <3>1
    <3>2. CASE t # s
      BY <1>1, <3>2
    <3> QED BY <3>1, <3>2
  <2> QED BY <2>1
<1>5. Way(sc1, box) = Way(sc, box)
  <2>1. ASSUME NEW t \in DOMAIN sc, NEW i \in DOMAIN sc[t].queue
        PROVE  i \in DOMAIN sc1[t].queue /\ sc1[t].queue[i] = sc[t].queue[i]
    BY <1>4
  <2>2. ASSUME NEW t \in DOMAIN sc, NEW i \in DOMAIN sc1[t].queue
        PROVE  i \in DOMAIN sc[t].queue /\ sc1[t].queue[i] = sc[t].queue[i]
    BY <1>4
  <2>3. Way(sc, box) \subseteq Way(sc1, box)
    <3>1. ASSUME NEW m \in MsgType, NEW t \in DOMAIN sc, NEW i \in DOMAIN sc[t].queue, m = sc[t].queue[i]
          PROVE  m \in Way(sc1, box)
      BY <1>1, <2>1, <3>1 DEF Way
    <3> QED BY <3>1 DEF Way
  <2>4. Way(sc1, box) \subseteq Way(sc, box)
    BY <1>1, <2>2 DEF Way
  <2> QED BY <2>3, <2>4
<1>6. SentOnce(sc1, box)
  <2>1. SentOnce(sc, box)
    BY DEF ScanInv
  <2>2. \A t \in DOMAIN sc1 : \A i \in DOMAIN sc1[t].queue :
           /\ sc1[t].queue[i].scan = t /\ sc1[t].queue[i].n < sc1[t].sent
           /\ \A j \in DOMAIN sc1[t].queue : sc1[t].queue[i].n = sc1[t].queue[j].n => i = j
    <3>1. ASSUME NEW t \in DOMAIN sc1, NEW i \in DOMAIN sc1[t].queue
          PROVE  /\ sc1[t].queue[i].scan = t /\ sc1[t].queue[i].n < sc1[t].sent
                 /\ \A j \in DOMAIN sc1[t].queue : sc1[t].queue[i].n = sc1[t].queue[j].n => i = j
      <4>1. t \in DOMAIN sc /\ sc1[t].queue = sc[t].queue /\ sc1[t].sent = sc[t].sent
        BY <1>1, <1>4
      <4> QED BY <2>1, <3>1, <4>1 DEF SentOnce
    <3> QED BY <3>1
  <2>3. ASSUME NEW m \in box
        PROVE  /\ m.scan \in DOMAIN sc1 /\ m.n < sc1[m.scan].sent
               /\ \A i \in DOMAIN sc1[m.scan].queue : sc1[m.scan].queue[i].n # m.n
    <3>1. /\ m.scan \in DOMAIN sc /\ m.n < sc[m.scan].sent
          /\ \A i \in DOMAIN sc[m.scan].queue : sc[m.scan].queue[i].n # m.n
      BY <2>1 DEF SentOnce
    <3>2. sc1[m.scan].queue = sc[m.scan].queue /\ sc1[m.scan].sent = sc[m.scan].sent
      BY <1>4, <3>1
    <3> QED BY <1>1, <3>1, <3>2
  <2> QED BY <2>2, <2>3 DEF SentOnce
<1>7. ASSUME NEW q \in Seq(RowType), Piece(q, sc) PROVE Piece(q, sc1) /\ Apart(q, more)
  <2>1. Piece(q, sc1)
    BY <1>3, <1>7, PieceStands DEF SameScans
  <2>2. ASSUME NEW i \in DOMAIN q, NEW j \in DOMAIN more, q[i].scan = more[j].scan
        PROVE  q[i].place # more[j].place
    <3>1. q[i].place < sc[s].next /\ more[j].place = sc[s].next
      BY <1>7, <2>2 DEF Piece, Visited
    <3> QED BY <3>1, <1>2
  <2> QED BY <2>1, <2>2 DEF Apart
<1>8. Piece(more, sc1) /\ OfScan(more, s)
  <2>1. \A i \in DOMAIN more : more[i].place < rec.next
    BY <1>2
  <2> QED BY <2>1, <1>1 DEF Piece, ListedOnce, Visited, OfScan
<1>9. PICK b : b = sc[s].batch
  OBVIOUS
<1>10. b \in Seq(RowType) /\ Piece(b, sc) /\ OfScan(b, s) /\ sc1[s].batch = b \o more
  BY <1>1, <1>2, <1>9 DEF ScanInv, BatchesApart
<1>11. Piece(b \o more, sc1)
  BY <1>7, <1>8, <1>10, ConcatPiece
<1>12. OfScan(b \o more, s)
  <2>1. PICK u : u = b \o more
    OBVIOUS
  <2>2. Joins(u, b, more)
    BY <2>1, <1>10, ConcatAt
  <2>3. OfScan(u, s)
    BY <2>2, <1>8, <1>10 DEF OfScan, Joins
  <2> QED BY <2>1, <2>3
<1>13. ASSUME NEW q \in Seq(RowType), Piece(q, sc), Apart(q, b) PROVE Apart(q, b \o more)
  <2>1. Apart(b, q) /\ Apart(more, q)
    BY <1>7, <1>13, ApartSymmetric
  <2>2. Apart(b \o more, q)
    BY <1>10, <2>1, ConcatApart
  <2> QED BY <2>2, ApartSymmetric
<1>14. \A m \in Way(sc, box) : m.rows \in Seq(RowType)
  BY WayRows
<1>15. MessagesApart(sc1, Way(sc, box))
  BY <1>7, <1>14 DEF ScanInv, MessagesApart
<1>16. BatchesApart(sc1, Way(sc, box))
  <2>1. ASSUME NEW t \in DOMAIN sc, t # s
        PROVE  /\ Piece(sc1[t].batch, sc1) /\ OfScan(sc1[t].batch, t)
               /\ \A m \in Way(sc, box) : Apart(m.rows, sc1[t].batch)
    BY <1>1, <1>2, <1>7, <2>1 DEF ScanInv, BatchesApart
  <2>2. ASSUME NEW m \in Way(sc, box) PROVE Apart(m.rows, b \o more)
    <3>1. m.rows \in Seq(RowType) /\ Piece(m.rows, sc) /\ Apart(m.rows, b)
      BY <1>9, <1>14 DEF ScanInv, MessagesApart, BatchesApart
    <3> QED BY <3>1, <1>13
  <2> QED BY <1>1, <1>10, <1>11, <1>12, <2>1, <2>2 DEF BatchesApart
<1>17. ASSUME NEW list \in Seq(RowType), ListApart(list, sc, Way(sc, box))
       PROVE  ListApart(list, sc1, Way(sc, box))
  <2>1. Apart(list, b \o more)
    BY <1>9, <1>13, <1>17 DEF ListApart
  <2> QED BY <1>1, <1>7, <1>10, <1>17, <2>1 DEF ListApart
<1>18. ListApart(p.rows, sc1, Way(sc, box)) /\ ListApart(p.hits, sc1, Way(sc, box))
  BY <1>17 DEF ScanInv
<1> QED BY <1>3, <1>5, <1>6, <1>15, <1>16, <1>18, ScansGoOn

\* A batch goes into the channel as a message, or is given up.
LEMMA FlushKeeps ==
    ASSUME NEW sc \in Seq(ScanType), NEW box, NEW g, NEW p,
           box \subseteq MsgType, p.rows \in Seq(RowType), p.hits \in Seq(RowType),
           ScanInv(sc, box, g, p), NEW s \in DOMAIN sc,
           NEW msg \in MsgType, msg.scan = s, msg.n = sc[s].sent, msg.rows = sc[s].batch,
           NEW rec \in ScanType, rec.batch = <<>>, rec.next = sc[s].next,
           rec.queue \in {sc[s].queue, Append(sc[s].queue, msg)},
           rec.sent = sc[s].sent + 1, rec.kind = sc[s].kind, rec.gen = sc[s].gen,
           NEW sc1 \in Seq(ScanType), ChangedAt(sc, s, rec, sc1)
    PROVE  ScanInv(sc1, box, g, p)
<1>1. DOMAIN sc1 = DOMAIN sc /\ sc1[s] = rec /\ \A t \in DOMAIN sc : t # s => sc1[t] = sc[t]
  BY DEF ChangedAt
<1>2. \A t \in DOMAIN sc : /\ sc[t].next \in Nat /\ sc[t].batch \in Seq(RowType)
                           /\ sc[t].sent \in Nat /\ sc[t].queue \in Seq(MsgType)
  <2>1. \A t \in DOMAIN sc : sc[t] \in ScanType
    OBVIOUS
  <2> QED BY <2>1 DEF ScanType
<1>3. SameScans(sc, sc1)
  <2>1. ASSUME NEW t \in DOMAIN sc
        PROVE  sc1[t].kind = sc[t].kind /\ sc1[t].gen = sc[t].gen /\ sc[t].next <= sc1[t].next
    <3>1. CASE t = s
      BY <1>1, <1>2, <3>1
    <3>2. CASE t # s
      <4>1. sc1[t] = sc[t] /\ sc[t].next \in Nat
        BY <1>1, <1>2, <3>2
      <4> QED BY <4>1
    <3> QED BY <3>1, <3>2
  <2> QED BY <1>1, <2>1 DEF SameScans
<1>4. PICK q, r : q = sc[s].queue /\ r = rec.queue
  OBVIOUS
<1>5. /\ q \in Seq(MsgType) /\ r \in Seq(MsgType)
      /\ \A i \in DOMAIN r : (i \in DOMAIN q /\ r[i] = q[i]) \/ (i = Len(q) + 1 /\ r[i] = msg)
  <2>1. q \in Seq(MsgType) /\ (r = q \/ r = Append(q, msg))
    BY <1>2, <1>4
  <2>2. CASE r = q
    BY <2>1, <2>2
  <2>3. CASE r = Append(q, msg)
    BY <2>1, <2>3
  <2> QED BY <2>1, <2>2, <2>3
<1>6. \A i \in DOMAIN q : /\ q[i].scan = s /\ q[i].n < sc[s].sent /\ q[i].n # sc[s].sent
                          /\ q[i].n < sc[s].sent + 1
                          /\ \A j \in DOMAIN q : q[i].n = q[j].n => i = j
  <2>1. \A i \in DOMAIN q : /\ q[i].scan = s /\ q[i].n < sc[s].sent
                            /\ \A j \in DOMAIN q : q[i].n = q[j].n => i = j
    BY <1>4 DEF ScanInv, SentOnce
  <2>2. \A i \in DOMAIN q : q[i] \in MsgType
    BY <1>5
  <2>3. \A i \in DOMAIN q : q[i].n \in Nat
    BY <2>2 DEF MsgType
  <2> QED BY <2>1, <2>3, <1>2
<1>7. ASSUME NEW t \in DOMAIN sc1, NEW i \in DOMAIN sc1[t].queue
      PROVE  /\ sc1[t].queue[i].scan = t /\ sc1[t].queue[i].n < sc1[t].sent
             /\ \A j \in DOMAIN sc1[t].queue : sc1[t].queue[i].n = sc1[t].queue[j].n => i = j
  <2>1. CASE t = s
    <3>1. sc1[t].queue = r /\ sc1[t].sent = sc[s].sent + 1
      BY <1>1, <1>4, <2>1
    <3>2. r[i].scan = s /\ r[i].n < sc[s].sent + 1
      <4>1. CASE i \in DOMAIN q /\ r[i] = q[i]
        BY <1>6, <4>1
      <4>2. CASE r[i] = msg
        BY <1>2, <4>2
      <4> QED BY <1>5, <1>7, <3>1, <4>1, <4>2
    <3>3. ASSUME NEW j \in DOMAIN r, r[i].n = r[j].n PROVE i = j
      <4>1. \A k \in DOMAIN r : \/ k \in DOMAIN q /\ r[k] = q[k] /\ r[k].n # sc[s].sent
                                \/ k = Len(q) + 1 /\ r[k].n = sc[s].sent
        <5>1. ASSUME NEW k \in DOMAIN r
              PROVE  \/ k \in DOMAIN q /\ r[k] = q[k] /\ r[k].n # sc[s].sent
                     \/ k = Len(q) + 1 /\ r[k].n = sc[s].sent
          <6>1. CASE k \in DOMAIN q /\ r[k] = q[k]
            BY <1>6, <6>1
          <6>2. CASE k = Len(q) + 1 /\ r[k] = msg
            BY <6>2
          <6> QED BY <1>5, <6>1, <6>2
        <5> QED BY <5>1
      <4>2. i \in DOMAIN r
        BY <1>7, <3>1
      <4>3. CASE i \in DOMAIN q /\ j \in DOMAIN q /\ r[i] = q[i] /\ r[j] = q[j]
        BY <1>6, <3>3, <4>3
      <4>4. CASE i = Len(q) + 1 /\ j = Len(q) + 1
        BY <4>4
      <4> QED BY <3>3, <4>1, <4>2, <4>3, <4>4
    <3> QED BY <3>1, <3>2, <3>3, <2>1
  <2>2. CASE t # s
    BY <1>1, <1>7, <2>2 DEF ScanInv, SentOnce
  <2> QED BY <2>1, <2>2
<1>8. ASSUME NEW m \in box
      PROVE  /\ m.scan \in DOMAIN sc1 /\ m.n < sc1[m.scan].sent
             /\ \A i \in DOMAIN sc1[m.scan].queue : sc1[m.scan].queue[i].n # m.n
  <2>1. /\ m.scan \in DOMAIN sc /\ m.n < sc[m.scan].sent
        /\ \A i \in DOMAIN sc[m.scan].queue : sc[m.scan].queue[i].n # m.n
    BY DEF ScanInv, SentOnce
  <2>2. CASE m.scan = s
    <3>1. m.n \in Nat
      BY DEF MsgType
    <3>2. m.n < sc[s].sent /\ m.n < sc[s].sent + 1 /\ m.n # sc[s].sent
      BY <2>1, <2>2, <3>1, <1>2
    <3>3. \A i \in DOMAIN r : r[i].n # m.n
      BY <2>1, <2>2, <3>2, <1>4, <1>5
    <3> QED BY <1>1, <1>4, <2>1, <2>2, <3>2, <3>3
  <2>3. CASE m.scan # s
    BY <1>1, <2>1, <2>3
  <2> QED BY <2>2, <2>3
<1>9. SentOnce(sc1, box)
  BY <1>7, <1>8 DEF SentOnce
<1>10. Way(sc1, box) \subseteq Way(sc, box) \cup {msg}
  <2>1. ASSUME NEW m \in MsgType, NEW t \in DOMAIN sc1, NEW i \in DOMAIN sc1[t].queue, m = sc1[t].queue[i]
        PROVE  m \in Way(sc, box) \cup {msg}
    <3>1. CASE t = s
      <4>1. i \in DOMAIN r /\ m = r[i]
        BY <1>1, <1>4, <2>1, <3>1
      <4> QED BY <4>1, <1>4, <1>5, <2>1 DEF Way
    <3>2. CASE t # s
      BY <1>1, <2>1, <3>2 DEF Way
    <3> QED BY <3>1, <3>2
  <2> QED BY <2>1 DEF Way
<1>11. ASSUME NEW q1 \in Seq(RowType), Piece(q1, sc) PROVE Piece(q1, sc1)
  BY <1>3, <1>11, PieceStands DEF SameScans
<1>12. \A m \in Way(sc, box) : m.rows \in Seq(RowType)
  BY WayRows
<1>13. /\ Piece(msg.rows, sc1) /\ OfScan(msg.rows, msg.scan)
       /\ \A m \in Way(sc, box) : Apart(m.rows, msg.rows) /\ Apart(msg.rows, m.rows)
  <2>1. Piece(msg.rows, sc) /\ msg.rows \in Seq(RowType) /\ OfScan(msg.rows, msg.scan)
    BY <1>2 DEF ScanInv, BatchesApart
  <2>2. \A m \in Way(sc, box) : Apart(m.rows, msg.rows)
    BY DEF ScanInv, BatchesApart
  <2> QED BY <2>1, <2>2, <1>11, ApartSymmetric
<1>14. MessagesApart(sc1, Way(sc1, box))
  <2>1. \A m \in Way(sc, box) \cup {msg} : Piece(m.rows, sc1) /\ OfScan(m.rows, m.scan)
    BY <1>11, <1>12, <1>13 DEF ScanInv, MessagesApart
  <2>2. \A m1, m2 \in Way(sc, box) \cup {msg} : m1 # m2 => Apart(m1.rows, m2.rows)
    BY <1>13 DEF ScanInv, MessagesApart
  <2> QED BY <2>1, <2>2, <1>10 DEF MessagesApart
<1>15. \A q1 : Apart(q1, <<>>) /\ Piece(<<>>, sc1) /\ OfScan(<<>>, s)
  BY DEF Apart, Piece, ListedOnce, Visited, OfScan
<1>16. BatchesApart(sc1, Way(sc1, box))
  <2>1. ASSUME NEW t \in DOMAIN sc, t # s
        PROVE  /\ Piece(sc1[t].batch, sc1) /\ OfScan(sc1[t].batch, t)
               /\ \A m \in Way(sc, box) \cup {msg} : Apart(m.rows, sc1[t].batch)
    <3>1. sc1[t].batch = sc[t].batch /\ sc[t].batch \in Seq(RowType)
      BY <1>1, <1>2, <2>1
    <3>2. /\ Piece(sc[t].batch, sc) /\ OfScan(sc[t].batch, t)
          /\ \A m \in Way(sc, box) : Apart(m.rows, sc[t].batch)
      BY DEF ScanInv, BatchesApart
    <3>3. Apart(msg.rows, sc[t].batch)
      BY <1>13, <2>1, <3>2 DEF Apart, OfScan
    <3> QED BY <1>11, <3>1, <3>2, <3>3
  <2>2. sc1[s].batch = <<>>
    BY <1>1
  <2> QED BY <1>1, <1>10, <1>15, <2>1, <2>2 DEF BatchesApart
<1>17. ASSUME NEW list \in Seq(RowType), ListApart(list, sc, Way(sc, box))
       PROVE  ListApart(list, sc1, Way(sc1, box))
  <2>1. Apart(list, msg.rows) /\ Piece(list, sc1)
    BY <1>11, <1>17 DEF ListApart
  <2>2. \A t \in DOMAIN sc1 : Apart(list, sc1[t].batch)
    BY <1>1, <1>15, <1>17 DEF ListApart
  <2> QED BY <1>10, <1>17, <2>1, <2>2 DEF ListApart
<1>18. ListApart(p.rows, sc1, Way(sc1, box)) /\ ListApart(p.hits, sc1, Way(sc1, box))
  BY <1>17 DEF ScanInv
<1> QED BY <1>3, <1>9, <1>14, <1>16, <1>18, ScansGoOn

LEMMA ScansMove ==
    ASSUME PrInv, UNCHANGED <<prDisk, prTabs, panel, prGen, prEdits>>,
           scans' \in Seq(ScanType), Len(scans') = Len(scans), inbox' \subseteq MsgType,
           ScanInv(scans', inbox', prGen, panel)
    PROVE  PrInv'
BY DEF PrInv, PrTyped

\* searchProject lists each match of a place, replaceProject a file.
FoundAt(q, s, p, kind) ==
    /\ q \in Seq(RowType) /\ ListedOnce(q)
    /\ \A i \in DOMAIN q : q[i].scan = s /\ q[i].place = p /\ FromTheWalk(q[i], kind)

LEMMA RowIs ==
    ASSUME PrTyped, NEW s \in DOMAIN scans, NEW p \in DOMAIN FileAt, NEW k \in Nat, NEW c \in BOOLEAN
    PROVE  /\ Row(s, p, k, c) \in RowType
           /\ Row(s, p, k, c).scan = s /\ Row(s, p, k, c).place = p /\ Row(s, p, k, c).match = k
           /\ Row(s, p, k, c).file = FileAt[p]
<1>1. PICK f, d : f = FileAt[p] /\ d = prDisk[f]
  OBVIOUS
<1>2. s \in Nat /\ p \in Nat /\ f \in PrFiles /\ d \in PrTexts
  <2>1. scans \in Seq(ScanType) /\ FileAt \in Seq(PrFiles)
    BY PrAssumption DEF PrTyped, PrFiles
  <2> QED BY <1>1, <2>1 DEF PrTyped
<1>3. Row(s, p, k, c) = [file |-> f, place |-> p, match |-> k, change |-> c, orig |-> d, scan |-> s]
  BY <1>1 DEF Row
<1> QED BY <1>1, <1>2, <1>3 DEF RowType

LEMMA HitsOfType ==
    ASSUME PrTyped, NEW s \in DOMAIN scans, NEW p \in DOMAIN FileAt
    PROVE  FoundAt(HitsOf(s, p), s, p, "find")
<1>1. PICK n \in Nat : n = HitsAt[p]
  BY PrAssumption
<1>8. PICK c \in BOOLEAN : c = FALSE
  OBVIOUS
<1>2. PICK q : q = [k \in 1..n |-> Row(s, p, k, c)]
  OBVIOUS
<1>7. ASSUME NEW k \in 1..n
      PROVE  /\ q[k] \in RowType /\ q[k].scan = s /\ q[k].place = p /\ q[k].match = k
             /\ q[k].file = FileAt[p]
  <2>1. q[k] = Row(s, p, k, c) /\ k \in Nat
    BY <1>2
  <2>2. PICK r : r = Row(s, p, k, c)
    OBVIOUS
  <2>3. r \in RowType /\ r.scan = s /\ r.place = p /\ r.match = k /\ r.file = FileAt[p]
    BY <2>1, <2>2, RowIs
  <2> QED BY <2>1, <2>2, <2>3
<1>3. \A k \in 1..n : /\ q[k] \in RowType /\ q[k].scan = s /\ q[k].place = p /\ q[k].match = k
                      /\ q[k].file = FileAt[p]
  BY <1>7
<1>4. q \in Seq(RowType) /\ DOMAIN q = 1..n
  <2>1. q = [k \in 1..n |-> q[k]] /\ DOMAIN q = 1..n
    BY <1>2
  <2>2. q \in [1..n -> RowType]
    BY <1>3, <2>1
  <2> QED BY <2>1, <2>2
<1>5. FoundAt(q, s, p, "find")
  BY <1>3, <1>4 DEF FoundAt, ListedOnce, FromTheWalk
<1>6. FoundAt(<<>>, s, p, "find")
  BY Nothing DEF FoundAt, ListedOnce
<1> QED BY <1>1, <1>2, <1>5, <1>6, <1>8, Zenon DEF HitsOf

LEMMA FileRowType ==
    ASSUME PrTyped, NEW s \in DOMAIN scans, NEW p \in DOMAIN FileAt
    PROVE  FoundAt(FileRow(s, p), s, p, "repl")
<1>1. FoundAt(<<>>, s, p, "repl")
  BY Nothing DEF FoundAt, ListedOnce
<1>2. ASSUME NEW c \in BOOLEAN, ~\E q \in 1..p - 1 : FileAt[q] = FileAt[p]
      PROVE  FoundAt(<<Row(s, p, 0, c)>>, s, p, "repl")
  <2>1. PICK e : e = Row(s, p, 0, c)
    OBVIOUS
  <2>2. e \in RowType /\ e.scan = s /\ e.place = p /\ e.match = 0 /\ e.file = FileAt[p]
    BY <2>1, RowIs
  <2>3. FromTheWalk(e, "repl")
    BY <1>2, <2>2 DEF FromTheWalk
  <2>4. <<e>> \in Seq(RowType) /\ \A i \in DOMAIN <<e>> : i = 1 /\ <<e>>[i] = e
    BY <2>2
  <2> QED BY <2>1, <2>2, <2>3, <2>4 DEF FoundAt, ListedOnce
<1>3. PICK d \in BOOLEAN : d = (FileAt[p] \in scans[s].known /\ prTabs[FileAt[p]].dirty)
  OBVIOUS
<1>4. CASE \E q \in 1..p - 1 : FileAt[q] = FileAt[p]
  BY <1>1, <1>4 DEF FileRow
<1>5. CASE ~\E q \in 1..p - 1 : FileAt[q] = FileAt[p]
  <2>1. FileRow(s, p) \in {<<Row(s, p, 0, FALSE)>>, <<Row(s, p, 0, ~d)>>, <<>>}
    BY <1>3, <1>5, Zenon DEF FileRow
  <2> QED BY <1>1, <1>2, <1>5, <2>1
<1> QED BY <1>4, <1>5

LEMMA RowsAtType ==
    ASSUME PrTyped, NEW s \in DOMAIN scans, NEW p \in DOMAIN FileAt
    PROVE  FoundAt(RowsAt(s, p), s, p, scans[s].kind)
<1>1. scans[s].kind \in {"find", "repl"}
  <2>1. scans[s] \in ScanType
    BY DEF PrTyped
  <2> QED BY <2>1 DEF ScanType
<1> QED BY <1>1, HitsOfType, FileRowType DEF RowsAt

LEMMA ScanVisitsKeeps == ASSUME PrInv, NEW s \in DOMAIN scans, ScanVisits(s) PROVE PrInv'
<1>1. /\ scans \in Seq(ScanType) /\ scans[s] \in ScanType /\ PrTyped /\ inbox \subseteq MsgType
      /\ panel.rows \in Seq(RowType) /\ panel.hits \in Seq(RowType)
  BY DEF PrInv, PrTyped, PanelType
<1>2. scans[s].next \in DOMAIN FileAt
  <2>1. scans[s].next \in Nat \ {0} /\ Len(FileAt) \in Nat /\ DOMAIN FileAt = 1..Len(FileAt)
    BY <1>1, PrAssumption DEF ScanType
  <2>2. ~(scans[s].next > Len(FileAt))
    BY DEF ScanVisits, Walked
  <2> QED BY <2>1, <2>2
<1>3. PICK more : more = RowsAt(s, scans[s].next)
  OBVIOUS
<1>4. /\ more \in Seq(RowType)
      /\ \A i \in DOMAIN more : more[i].scan = s /\ more[i].place = scans[s].next
                                /\ FromTheWalk(more[i], scans[s].kind)
      /\ ListedOnce(more)
  BY <1>1, <1>2, <1>3, RowsAtType DEF FoundAt
<1>5. PICK rec : rec = [scans[s] EXCEPT !.next = @ + 1, !.found = @ + Len(more), !.batch = @ \o more]
  OBVIOUS
<1>6. /\ rec \in ScanType /\ rec.batch = scans[s].batch \o more /\ rec.next = scans[s].next + 1
      /\ rec.queue = scans[s].queue /\ rec.sent = scans[s].sent /\ rec.kind = scans[s].kind
      /\ rec.gen = scans[s].gen
  <2>1. scans[s].batch \o more \in Seq(RowType) /\ scans[s].found + Len(more) \in Nat
        /\ scans[s].next + 1 \in Nat \ {0}
    <3>1. scans[s].batch \in Seq(RowType) /\ scans[s].found \in Nat /\ scans[s].next \in Nat
      BY <1>1 DEF ScanType
    <3> QED BY <1>4, <3>1
  <2>2. PICK b, k, n : b = scans[s].batch \o more /\ k = scans[s].found + Len(more) /\ n = scans[s].next + 1
    OBVIOUS
  <2>3. rec = [scans[s] EXCEPT !.next = n, !.found = k, !.batch = b]
    BY <1>5, <2>2
  <2>4. b \in Seq(RowType) /\ k \in Nat /\ n \in Nat \ {0}
    BY <2>1, <2>2
  <2> QED BY <1>1, <2>2, <2>3, <2>4 DEF ScanType
<1>7. scans' = [scans EXCEPT ![s] = rec] /\ UNCHANGED <<prDisk, prTabs, panel, prGen, prEdits, inbox>>
  BY <1>3, <1>5 DEF ScanVisits, Scan
<1>8. scans' \in Seq(ScanType) /\ Len(scans') = Len(scans) /\ ChangedAt(scans, s, rec, scans')
  <2>1. /\ [scans EXCEPT ![s] = rec] \in Seq(ScanType) /\ Len([scans EXCEPT ![s] = rec]) = Len(scans)
        /\ ChangedAt(scans, s, rec, [scans EXCEPT ![s] = rec])
    BY <1>1, <1>6, ElementChanged
  <2> QED BY <1>7, <2>1
<1>9. ScanInv(scans, inbox, prGen, panel)
  BY DEF PrInv
<1>10. ScanInv(scans', inbox, prGen, panel)
  BY <1>1, <1>4, <1>6, <1>8, <1>9, VisitKeeps
<1> QED BY <1>1, <1>7, <1>8, <1>10, ScansMove

LEMMA ScanFlushesKeeps == ASSUME PrInv, NEW s \in DOMAIN scans, ScanFlushes(s) PROVE PrInv'
<1>1. /\ scans \in Seq(ScanType) /\ scans[s] \in ScanType /\ inbox \subseteq MsgType
      /\ panel.rows \in Seq(RowType) /\ panel.hits \in Seq(RowType)
  BY DEF PrInv, PrTyped, PanelType
<1>2. PICK last \in BOOLEAN : last = (Walked(s) /\ Len(scans[s].batch) < BatchSize)
  OBVIOUS
<1>3. PICK msg : msg = [scan |-> s, n |-> scans[s].sent, rows |-> scans[s].batch, done |-> last]
  OBVIOUS
<1>4. msg \in MsgType /\ msg.scan = s /\ msg.n = scans[s].sent /\ msg.rows = scans[s].batch
  <2>1. s \in Nat
    BY <1>1
  <2> QED BY <1>1, <1>3, <2>1 DEF MsgType, ScanType
<1>5. PICK r : r = IF Len(scans[s].queue) < ChanCap THEN Append(scans[s].queue, msg) ELSE scans[s].queue
  OBVIOUS
<1>6. r \in Seq(MsgType) /\ r \in {scans[s].queue, Append(scans[s].queue, msg)}
  <2>1. scans[s].queue \in Seq(MsgType)
    BY <1>1 DEF ScanType
  <2>2. Append(scans[s].queue, msg) \in Seq(MsgType)
    BY <1>4, <2>1
  <2> QED BY <1>5, <2>1, <2>2
<1>7. PICK a \in {"walk", "done"} : a = IF last THEN "done" ELSE "walk"
  OBVIOUS
<1>8. PICK e : e = <<>> /\ e \in Seq(RowType)
  BY Nothing
<1>15. PICK k \in Nat : k = scans[s].sent + 1
  <2>1. scans[s].sent \in Nat
    BY <1>1 DEF ScanType
  <2> QED BY <2>1
<1>9. PICK rec : rec = [scans[s] EXCEPT !.sent = k, !.batch = e, !.queue = r, !.at = a]
  OBVIOUS
<1>10. /\ rec \in ScanType /\ rec.batch = <<>> /\ rec.next = scans[s].next /\ rec.queue = r
       /\ rec.sent = scans[s].sent + 1 /\ rec.kind = scans[s].kind /\ rec.gen = scans[s].gen
  BY <1>1, <1>6, <1>7, <1>8, <1>9, <1>15 DEF ScanType
<1>11. scans' = [scans EXCEPT ![s] = rec] /\ UNCHANGED <<prDisk, prTabs, panel, prGen, prEdits, inbox>>
  BY <1>2, <1>3, <1>5, <1>7, <1>8, <1>9, <1>15 DEF ScanFlushes, Scan
<1>12. scans' \in Seq(ScanType) /\ Len(scans') = Len(scans) /\ ChangedAt(scans, s, rec, scans')
  <2>1. /\ [scans EXCEPT ![s] = rec] \in Seq(ScanType) /\ Len([scans EXCEPT ![s] = rec]) = Len(scans)
        /\ ChangedAt(scans, s, rec, [scans EXCEPT ![s] = rec])
    BY <1>1, <1>10, ElementChanged
  <2> QED BY <1>11, <2>1
<1>13. ScanInv(scans, inbox, prGen, panel)
  BY DEF PrInv
<1>14. ScanInv(scans', inbox, prGen, panel)
  BY <1>1, <1>4, <1>6, <1>10, <1>12, <1>13, FlushKeeps
<1> QED BY <1>1, <1>11, <1>12, <1>14, ScansMove

LEMMA CommandReceivesKeeps == ASSUME PrInv, NEW s \in DOMAIN scans, CommandReceives(s) PROVE PrInv'
<1>1. /\ scans \in Seq(ScanType) /\ scans[s] \in ScanType /\ inbox \subseteq MsgType
      /\ panel.rows \in Seq(RowType) /\ panel.hits \in Seq(RowType)
      /\ ScanInv(scans, inbox, prGen, panel)
  BY DEF PrInv, PrTyped, PanelType
<1>2. PICK msg, T : msg = Head(scans[s].queue) /\ T = Tail(scans[s].queue)
  OBVIOUS
<1>3. PICK rec : rec = [scans[s] EXCEPT !.queue = T]
  OBVIOUS
<1>4. /\ scans' = [scans EXCEPT ![s] = rec] /\ scans[s].queue # <<>>
      /\ inbox' = inbox \cup {msg} /\ UNCHANGED <<prDisk, prTabs, panel, prGen, prEdits>>
  BY <1>2, <1>3 DEF CommandReceives, Scan
<1>5. T \in Seq(MsgType)
  <2>1. scans[s].queue \in Seq(MsgType)
    BY <1>1 DEF ScanType
  <2> QED BY <1>2, <1>4, <2>1
<1>6. /\ rec \in ScanType /\ rec.batch = scans[s].batch /\ rec.next = scans[s].next /\ rec.queue = T
      /\ rec.sent = scans[s].sent /\ rec.kind = scans[s].kind /\ rec.gen = scans[s].gen
  BY <1>1, <1>3, <1>5 DEF ScanType
<1>7. scans' \in Seq(ScanType) /\ Len(scans') = Len(scans) /\ ChangedAt(scans, s, rec, scans')
  <2>1. /\ [scans EXCEPT ![s] = rec] \in Seq(ScanType) /\ Len([scans EXCEPT ![s] = rec]) = Len(scans)
        /\ ChangedAt(scans, s, rec, [scans EXCEPT ![s] = rec])
    BY <1>1, <1>6, ElementChanged
  <2> QED BY <1>4, <2>1
<1>8. msg \in MsgType /\ ScanInv(scans', inbox \cup {msg}, prGen, panel)
  BY <1>1, <1>2, <1>4, <1>6, <1>7, ReceiveKeeps
<1> QED BY <1>1, <1>4, <1>7, <1>8, ScansMove

\* A scan is started, and with it the list it fills.
LEMMA ScanStarts ==
    ASSUME NEW sc \in Seq(ScanType), NEW box, NEW g \in Nat, NEW p, NEW p1,
           box \subseteq MsgType, p.rows \in Seq(RowType), p.hits \in Seq(RowType),
           ScanInv(sc, box, g, p), NEW rec \in ScanType, rec.gen = g + 1, rec.batch = <<>>,
           rec.queue = <<>>, NEW sc1, sc1 = Append(sc, rec),
           PartOf(p1.rows, p.rows), PartOf(p1.hits, p.hits),
           p1.rows \in Seq(RowType), p1.hits \in Seq(RowType),
           IF rec.kind = "find" THEN p1.hits = <<>> ELSE p1.rows = <<>>,
           p1.repl => p1.rows = <<>>
    PROVE  ScanInv(sc1, box, g + 1, p1)
<1>1. PICK n : n = Len(sc) + 1
  OBVIOUS
<1>2. /\ sc1 \in Seq(ScanType) /\ DOMAIN sc1 = DOMAIN sc \cup {n} /\ n \notin DOMAIN sc /\ sc1[n] = rec
      /\ \A t \in DOMAIN sc : sc1[t] = sc[t] /\ t < n /\ ~(n < t)
      /\ n \in Nat
  <2>1. Len(sc) \in Nat /\ DOMAIN sc = 1..Len(sc) /\ n \in Nat
    BY <1>1
  <2>2. sc1 \in Seq(ScanType) /\ Len(sc1) = n
    BY <1>1
  <2>3. sc1[n] = rec /\ \A t \in DOMAIN sc : sc1[t] = sc[t]
    BY <1>1
  <2>4. DOMAIN sc1 = 1..n
    BY <2>2
  <2>5. /\ 1..n = 1..Len(sc) \cup {n} /\ n \notin 1..Len(sc)
        /\ \A t \in 1..Len(sc) : t < n /\ ~(n < t)
    BY <1>1, <2>1
  <2> QED BY <2>1, <2>2, <2>3, <2>4, <2>5
<1>3. \A t \in DOMAIN sc : sc[t].gen \in Nat /\ sc[t].next \in Nat /\ sc[t].batch \in Seq(RowType)
  <2>1. \A t \in DOMAIN sc : sc[t] \in ScanType
    OBVIOUS
  <2> QED BY <2>1 DEF ScanType
<1>4. GensRise(sc1, g + 1)
  <2>1. ASSUME NEW t \in DOMAIN sc PROVE sc1[t].gen <= g + 1 /\ sc1[t].gen < g + 1
    <3>1. sc1[t].gen = sc[t].gen /\ sc[t].gen <= g /\ sc[t].gen \in Nat
      BY <1>2, <1>3 DEF ScanInv, GensRise
    <3> QED BY <3>1
  <2>2. sc1[n].gen = g + 1 /\ g + 1 <= g + 1 /\ ~(n < n)
    BY <1>2
  <2>3. ASSUME NEW s \in DOMAIN sc1, NEW t \in DOMAIN sc1, s < t PROVE sc1[s].gen < sc1[t].gen
    <3>1. CASE t = n
      <4>1. s \in DOMAIN sc
        BY <1>2, <2>2, <2>3, <3>1
      <4> QED BY <2>1, <2>2, <3>1, <4>1
    <3>2. CASE t # n
      <4>1. t \in DOMAIN sc /\ s \in DOMAIN sc
        BY <1>2, <2>3, <3>2
      <4> QED BY <1>2, <2>3, <4>1 DEF ScanInv, GensRise
    <3> QED BY <3>1, <3>2
  <2>4. \A s \in DOMAIN sc1 : sc1[s].gen <= g + 1
    BY <1>2, <2>1, <2>2
  <2> QED BY <2>3, <2>4 DEF GensRise
<1>5. DOMAIN sc1[n].queue = {} /\ DOMAIN sc1[n].batch = {} /\ sc1[n].batch = <<>>
  BY <1>2
<1>6. SentOnce(sc1, box)
  <2>1. SentOnce(sc, box)
    BY DEF ScanInv
  <2>2. ASSUME NEW t \in DOMAIN sc1, NEW i \in DOMAIN sc1[t].queue
        PROVE  /\ sc1[t].queue[i].scan = t /\ sc1[t].queue[i].n < sc1[t].sent
               /\ \A j \in DOMAIN sc1[t].queue : sc1[t].queue[i].n = sc1[t].queue[j].n => i = j
    <3>1. t \in DOMAIN sc /\ sc1[t] = sc[t]
      BY <1>2, <1>5, <2>2
    <3> QED BY <2>1, <2>2, <3>1 DEF SentOnce
  <2>3. ASSUME NEW m \in box
        PROVE  /\ m.scan \in DOMAIN sc1 /\ m.n < sc1[m.scan].sent
               /\ \A i \in DOMAIN sc1[m.scan].queue : sc1[m.scan].queue[i].n # m.n
    <3>1. /\ m.scan \in DOMAIN sc /\ m.n < sc[m.scan].sent
          /\ \A i \in DOMAIN sc[m.scan].queue : sc[m.scan].queue[i].n # m.n
      BY <2>1 DEF SentOnce
    <3>2. sc1[m.scan] = sc[m.scan]
      BY <1>2, <3>1
    <3> QED BY <1>2, <3>1, <3>2
  <2> QED BY <2>2, <2>3 DEF SentOnce
<1>7. Way(sc1, box) \subseteq Way(sc, box)
  <2>1. ASSUME NEW m \in MsgType, NEW t \in DOMAIN sc1, NEW i \in DOMAIN sc1[t].queue, m = sc1[t].queue[i]
        PROVE  m \in Way(sc, box)
    <3>1. t \in DOMAIN sc /\ sc1[t] = sc[t]
      BY <1>2, <1>5, <2>1
    <3> QED BY <2>1, <3>1 DEF Way
  <2> QED BY <2>1 DEF Way
<1>8. ASSUME NEW q \in Seq(RowType), Piece(q, sc) PROVE Piece(q, sc1)
  <2>2. ASSUME NEW t \in DOMAIN sc PROVE t \in DOMAIN sc1 /\ sc[t].next <= sc1[t].next
    <3>1. t \in DOMAIN sc1 /\ sc1[t] = sc[t] /\ sc[t].next \in Nat
      BY <1>2, <1>3
    <3> QED BY <3>1
  <2>1. \A t \in DOMAIN sc : t \in DOMAIN sc1 /\ sc[t].next <= sc1[t].next
    BY <2>2
  <2> QED BY <1>2, <1>8, <2>1, PieceStands
<1>9. \A m \in Way(sc, box) : m.rows \in Seq(RowType)
  BY WayRows
<1>10. MessagesApart(sc1, Way(sc1, box))
  BY <1>7, <1>8, <1>9 DEF ScanInv, MessagesApart
<1>11. \A q1 : Apart(q1, <<>>) /\ Piece(<<>>, sc1) /\ OfScan(<<>>, n)
  BY DEF Apart, Piece, ListedOnce, Visited, OfScan
<1>12. BatchesApart(sc1, Way(sc1, box))
  <2>1. ASSUME NEW t \in DOMAIN sc
        PROVE  /\ Piece(sc1[t].batch, sc1) /\ OfScan(sc1[t].batch, t)
               /\ \A m \in Way(sc, box) : Apart(m.rows, sc1[t].batch)
    BY <1>2, <1>3, <1>8 DEF ScanInv, BatchesApart
  <2> QED BY <1>2, <1>5, <1>7, <1>11, <2>1 DEF BatchesApart
<1>13. ASSUME NEW list \in Seq(RowType), ListApart(list, sc, Way(sc, box))
       PROVE  ListApart(list, sc1, Way(sc1, box))
  <2>1. \A t \in DOMAIN sc1 : Apart(list, sc1[t].batch)
    BY <1>2, <1>5, <1>11, <1>13 DEF ListApart
  <2> QED BY <1>7, <1>8, <1>13, <2>1 DEF ListApart
<1>14. ListApart(p1.rows, sc1, Way(sc1, box)) /\ ListApart(p1.hits, sc1, Way(sc1, box))
  <2>1. ListApart(p1.rows, sc, Way(sc, box)) /\ ListApart(p1.hits, sc, Way(sc, box))
    BY PartIsApart DEF ScanInv
  <2> QED BY <1>13, <2>1
<1>15. ASSUME NEW list, NEW kind, Latest(list, kind, sc), list = <<>> \/ rec.kind # kind
       PROVE  Latest(list, kind, sc1)
  <2>1. CASE list = <<>>
    BY <2>1 DEF Latest
  <2>2. CASE rec.kind # kind
    BY <1>2, <1>15, <2>2 DEF Latest
  <2> QED BY <1>15, <2>1, <2>2
<1>16. Latest(p1.rows, "repl", sc1) /\ Latest(p1.hits, "find", sc1)
  <2>1. Latest(p1.rows, "repl", sc) /\ Latest(p1.hits, "find", sc)
    BY PartIsLatest DEF ScanInv
  <2>2. rec.kind \in {"find", "repl"}
    BY DEF ScanType
  <2>3. "find" # "repl"
    OBVIOUS
  <2>4. CASE rec.kind = "find"
    BY <1>15, <2>1, <2>3, <2>4
  <2>5. CASE rec.kind = "repl"
    BY <1>15, <2>1, <2>3, <2>5
  <2> QED BY <2>2, <2>4, <2>5
<1>17. p1.repl => \A i \in DOMAIN p1.rows : sc1[p1.rows[i].scan].gen = g + 1
  OBVIOUS
<1> QED BY <1>4, <1>6, <1>10, <1>12, <1>14, <1>16, <1>17 DEF ScanInv

\* What StartScan adds.
LEMMA NewScan ==
    ASSUME PrInv, NEW kind \in {"find", "repl"}, StartScan(kind)
    PROVE  /\ prGen' = prGen + 1 /\ prGen' \in 0..MaxGens
           /\ scans' \in Seq(ScanType) /\ Len(scans') = Len(scans) + 1
           /\ \E rec \in ScanType : /\ scans' = Append(scans, rec) /\ rec.gen = prGen + 1
                                    /\ rec.kind = kind /\ rec.batch = <<>> /\ rec.queue = <<>>
<1>1. prGen \in 0..MaxGens /\ scans \in Seq(ScanType) /\ prGen' = prGen + 1 /\ prGen < MaxGens
  BY DEF PrInv, PrTyped, StartScan
<1>2. prGen' \in 0..MaxGens /\ prGen' \in Nat
  BY <1>1, PrAssumption
<1>3. PICK e : e = <<>> /\ e \in Seq(RowType) /\ e \in Seq(MsgType)
  BY Nothing
<1>4. PICK z, o : z = 0 /\ z \in Nat /\ o = 1 /\ o \in Nat \ {0}
  OBVIOUS
<1>5. PICK k : k = {f \in PrFiles : prTabs[f].open}
  OBVIOUS
<1>6. PICK rec : rec = [kind |-> kind, gen |-> prGen', known |-> k, next |-> o, found |-> z,
                        batch |-> e, sent |-> z, queue |-> e, at |-> "walk"]
  OBVIOUS
<1>7. scans' = Append(scans, rec)
  BY <1>3, <1>4, <1>5, <1>6 DEF StartScan
<1>8. /\ rec \in ScanType /\ rec.gen = prGen + 1 /\ rec.kind = kind /\ rec.batch = <<>>
      /\ rec.queue = <<>>
  BY <1>1, <1>2, <1>3, <1>4, <1>5, <1>6 DEF ScanType
<1>9. scans' \in Seq(ScanType) /\ Len(scans') = Len(scans) + 1
  BY <1>1, <1>7, <1>8
<1> QED BY <1>1, <1>2, <1>7, <1>8, <1>9

LEMMA RunProjectSearchKeeps == ASSUME PrInv, RunProjectSearch PROVE PrInv'
<1>1. PICK n : n = Len(scans')
  OBVIOUS
<1>2. PICK z : z = 0 /\ z \in Nat
  OBVIOUS
<1>3. PICK e : e = <<>> /\ e \in Seq(RowType)
  BY Nothing
<1>4. panel' = [panel EXCEPT !.hits = e, !.sel = z, !.input = FALSE, !.fch = n]
  BY <1>1, <1>2, <1>3 DEF RunProjectSearch
<1>5. panel \in PanelType /\ PanelInv(panel) /\ ~panel.review /\ ~panel.repl /\ StartScan("find")
  BY DEF PrInv, PrTyped, RunProjectSearch, Typing
<1>6. PICK rec \in ScanType : /\ scans' = Append(scans, rec) /\ rec.gen = prGen + 1
                              /\ rec.kind = "find" /\ rec.batch = <<>> /\ rec.queue = <<>>
  BY <1>5, NewScan
<1>7. /\ prGen' = prGen + 1 /\ prGen' \in 0..MaxGens
      /\ scans' \in Seq(ScanType) /\ n = Len(scans) + 1 /\ Len(scans) \in Nat /\ n \in Nat
  <2>1. scans \in Seq(ScanType)
    BY DEF PrInv, PrTyped
  <2> QED BY <1>1, <1>5, <2>1, NewScan
<1>8. /\ panel' \in PanelType /\ panel'.hits = <<>> /\ panel'.rows = panel.rows /\ ~panel'.repl
      /\ panel'.order = panel.order /\ panel'.sel = 0 /\ panel'.ch = panel.ch /\ panel'.fch = n
      /\ panel'.review = panel.review
  BY <1>2, <1>3, <1>4, <1>5, <1>7 DEF PanelType
<1>9. PanelInv(panel')
  <2>1. Len(ListOf(panel')) \in Nat
    BY <1>8 DEF ListOf, PanelType
  <2>2. SelectionOf(panel')
    BY <1>8, <2>1, FirstRow DEF SelectionOf
  <2> QED BY <1>5, <1>8, <2>2 DEF PanelInv, ReviewOf
<1>10. PrTyped'
  <2>1. panel.ch \in 0..Len(scans)
    BY DEF PrInv, PrTyped
  <2>2. panel'.ch \in 0..n /\ panel'.fch \in 0..n
    BY <1>7, <1>8, <2>1
  <2>3. UNCHANGED <<prDisk, prTabs, inbox, prEdits>>
    BY <1>5 DEF StartScan
  <2> QED BY <1>1, <1>7, <1>8, <2>2, <2>3 DEF PrInv, PrTyped
<1>11. ScanInv(scans', inbox, prGen + 1, panel')
  <2>1. /\ scans \in Seq(ScanType) /\ inbox \subseteq MsgType /\ prGen \in Nat
        /\ panel.rows \in Seq(RowType) /\ panel.hits \in Seq(RowType)
        /\ ScanInv(scans, inbox, prGen, panel)
    BY <1>5 DEF PrInv, PrTyped, PanelType
  <2>2. PartOf(panel'.rows, panel.rows) /\ PartOf(panel'.hits, panel.hits)
    <3>1. ListedOnce(panel.rows)
      BY <2>1 DEF ScanInv, ListApart, Piece
    <3> QED BY <1>8, <3>1, EmptyIsPart, IsPartOfItself
  <2>3. panel'.rows \in Seq(RowType) /\ panel'.hits \in Seq(RowType)
    BY <1>8 DEF PanelType
  <2> QED BY <1>6, <1>8, <2>1, <2>2, <2>3, ScanStarts
<1>12. UNCHANGED inbox
  BY <1>5 DEF StartScan
<1> QED BY <1>7, <1>9, <1>10, <1>11, <1>12 DEF PrInv

LEMMA RunProjectReplaceKeeps == ASSUME PrInv, RunProjectReplace PROVE PrInv'
<1>1. PICK n : n = Len(scans')
  OBVIOUS
<1>2. PICK z, k : z = 0 /\ z \in Nat /\ k = 2 /\ k \in 0..2
  OBVIOUS
<1>3. PICK e : e = <<>> /\ e \in Seq(RowType) /\ e \in Seq(Nat)
  BY Nothing
<1>4. panel' = [panel EXCEPT !.fch = z, !.rows = e, !.order = e, !.sel = z, !.input = FALSE,
                             !.step = k, !.ch = n]
  BY <1>1, <1>2, <1>3 DEF RunProjectReplace
<1>5. panel \in PanelType /\ PanelInv(panel) /\ ~panel.review /\ panel.repl /\ StartScan("repl")
  BY DEF PrInv, PrTyped, RunProjectReplace, Typing
<1>6. PICK rec \in ScanType : /\ scans' = Append(scans, rec) /\ rec.gen = prGen + 1
                              /\ rec.kind = "repl" /\ rec.batch = <<>> /\ rec.queue = <<>>
  BY <1>5, NewScan
<1>7. /\ prGen' = prGen + 1 /\ prGen' \in 0..MaxGens
      /\ scans' \in Seq(ScanType) /\ n = Len(scans) + 1 /\ Len(scans) \in Nat /\ n \in Nat
  <2>1. scans \in Seq(ScanType)
    BY DEF PrInv, PrTyped
  <2> QED BY <1>1, <1>5, <2>1, NewScan
<1>13. panel' \in PanelType
  BY <1>2, <1>3, <1>4, <1>5, <1>7 DEF PanelType
<1>8. /\ panel' \in PanelType /\ panel'.rows = <<>> /\ panel'.hits = panel.hits
      /\ panel'.order = <<>> /\ panel'.sel = 0 /\ panel'.ch = n /\ panel'.fch = 0
      /\ panel'.review = panel.review
  BY <1>2, <1>3, <1>4, <1>5, <1>13 DEF PanelType
<1>9. PanelInv(panel')
  <2>1. Len(ListOf(panel')) \in Nat
    BY <1>8 DEF ListOf, PanelType
  <2>2. SelectionOf(panel')
    BY <1>8, <2>1, FirstRow DEF SelectionOf
  <2> QED BY <1>5, <1>8, <2>2, NothingToOrder DEF PanelInv, ReviewOf
<1>10. PrTyped'
  <2>2. panel'.ch \in 0..n /\ panel'.fch \in 0..n
    BY <1>7, <1>8
  <2>3. UNCHANGED <<prDisk, prTabs, inbox, prEdits>>
    BY <1>5 DEF StartScan
  <2> QED BY <1>1, <1>7, <1>8, <2>2, <2>3 DEF PrInv, PrTyped
<1>11. ScanInv(scans', inbox, prGen + 1, panel')
  <2>1. /\ scans \in Seq(ScanType) /\ inbox \subseteq MsgType /\ prGen \in Nat
        /\ panel.rows \in Seq(RowType) /\ panel.hits \in Seq(RowType)
        /\ ScanInv(scans, inbox, prGen, panel)
    BY <1>5 DEF PrInv, PrTyped, PanelType
  <2>2. PartOf(panel'.rows, panel.rows) /\ PartOf(panel'.hits, panel.hits)
    <3>1. ListedOnce(panel.hits)
      BY <2>1 DEF ScanInv, ListApart, Piece
    <3> QED BY <1>8, <3>1, EmptyIsPart, IsPartOfItself
  <2>3. panel'.rows \in Seq(RowType) /\ panel'.hits \in Seq(RowType)
    BY <1>8 DEF PanelType
  <2> QED BY <1>6, <1>8, <2>1, <2>2, <2>3, ScanStarts
<1>12. UNCHANGED inbox
  BY <1>5 DEF StartScan
<1> QED BY <1>7, <1>9, <1>10, <1>11, <1>12 DEF PrInv
-----------------------------------------------------------------------------
(* A batch arrives. *)

LEMMA MessageLeaves ==
    ASSUME NEW sc \in Seq(ScanType), NEW box, NEW g, NEW p,
           box \subseteq MsgType, p.rows \in Seq(RowType), p.hits \in Seq(RowType),
           ScanInv(sc, box, g, p), NEW msg \in box, NEW box1, box1 = box \ {msg}
    PROVE  /\ ScanInv(sc, box1, g, p) /\ msg \notin Way(sc, box1)
           /\ msg \in Way(sc, box) /\ Way(sc, box1) \subseteq Way(sc, box)
           /\ msg.scan \in DOMAIN sc
<1>1. msg \in Way(sc, box) /\ Way(sc, box1) \subseteq Way(sc, box)
  BY DEF Way
<1>2. SentOnce(sc, box) /\ SentOnce(sc, box1)
  BY DEF ScanInv, SentOnce
<1>3. msg.scan \in DOMAIN sc
  BY <1>2 DEF SentOnce
<1>4. ASSUME msg \in Way(sc, box1) PROVE FALSE
  <2>4. PICK s \in DOMAIN sc : \E i \in DOMAIN sc[s].queue : msg = sc[s].queue[i]
    <3>1. msg \notin box1
      OBVIOUS
    <3> QED BY <1>4, <3>1 DEF Way
  <2>1. PICK i \in DOMAIN sc[s].queue : msg = sc[s].queue[i]
    BY <2>4
  <2>2. msg.scan = s
    BY <1>2, <2>1 DEF SentOnce
  <2>3. sc[s].queue[i].n # msg.n
    BY <1>2, <2>1, <2>2 DEF SentOnce
  <2> QED BY <2>1, <2>3
<1>5. SameScans(sc, sc)
  <2>1. \A t \in DOMAIN sc : sc[t] \in ScanType
    OBVIOUS
  <2>2. \A t \in DOMAIN sc : sc[t].next \in Nat
    BY <2>1 DEF ScanType
  <2> QED BY <2>2 DEF SameScans
<1>6. ScanInv(sc, box1, g, p)
  BY <1>1, <1>2, <1>5, LessUnderWay
<1> QED BY <1>1, <1>3, <1>4, <1>6

LEMMA ListGrows ==
    ASSUME NEW sc \in Seq(ScanType), NEW box, NEW g, NEW p,
           box \subseteq MsgType, p.rows \in Seq(RowType), p.hits \in Seq(RowType),
           ScanInv(sc, box, g, p), NEW msg \in box, NEW box1, box1 = box \ {msg},
           sc[msg.scan].gen = g, NEW list \in Seq(RowType), NEW kind, sc[msg.scan].kind = kind,
           ListApart(list, sc, Way(sc, box)), Latest(list, kind, sc),
           msg \notin Way(sc, box1), msg \in Way(sc, box), Way(sc, box1) \subseteq Way(sc, box),
           msg.scan \in DOMAIN sc
    PROVE  /\ ListApart(list \o msg.rows, sc, Way(sc, box1))
           /\ Latest(list \o msg.rows, kind, sc)
<1>1. msg \in MsgType
  OBVIOUS
<1>2. PICK r, u : r = msg.rows /\ u = list \o r
  OBVIOUS
<1>3. r \in Seq(RowType)
  BY <1>1, <1>2 DEF MsgType
<1>4. Piece(r, sc) /\ OfScan(r, msg.scan) /\ Apart(list, r)
  BY <1>1, <1>2 DEF ScanInv, MessagesApart, ListApart
<1>5. Piece(list \o r, sc)
  BY <1>3, <1>4, ConcatPiece DEF ListApart
<1>6. \A m \in Way(sc, box1) : Apart(list \o r, m.rows)
  <2>1. ASSUME NEW m \in Way(sc, box1) PROVE Apart(list \o r, m.rows)
    <3>1. m \in Way(sc, box) /\ m # msg
      BY <1>1
    <3>2. Apart(r, m.rows)
      BY <1>1, <1>2, <3>1 DEF ScanInv, MessagesApart
    <3>3. Apart(list, m.rows)
      BY <3>1 DEF ListApart
    <3> QED BY <1>3, <3>2, <3>3, ConcatApart
  <2> QED BY <2>1
<1>7. \A s \in DOMAIN sc : Apart(list \o r, sc[s].batch)
  <2>1. ASSUME NEW s \in DOMAIN sc PROVE Apart(list \o r, sc[s].batch)
    <3>1. Apart(r, sc[s].batch)
      BY <1>1, <1>2 DEF ScanInv, BatchesApart
    <3>2. Apart(list, sc[s].batch)
      BY DEF ListApart
    <3> QED BY <1>3, <3>1, <3>2, ConcatApart
  <2> QED BY <2>1
<1>8. \A t \in DOMAIN sc : ~(t > msg.scan)
  <2>1. ASSUME NEW t \in DOMAIN sc, t > msg.scan PROVE FALSE
    <3>1. msg.scan < t
      BY <1>1, <2>1
    <3>2. sc[msg.scan].gen < sc[t].gen /\ sc[t].gen <= g
      BY <1>1, <3>1 DEF ScanInv, GensRise
    <3>3. sc[t] \in ScanType /\ sc[msg.scan] \in ScanType
      BY <1>1
    <3>4. sc[t].gen \in Nat /\ g \in Nat
      BY <3>3 DEF ScanType
    <3> QED BY <3>2, <3>4
  <2> QED BY <2>1
<1>9. Latest(u, kind, sc)
  <2>1. Joins(u, list, r)
    BY <1>2, <1>3, ConcatAt
  <2>2. ASSUME NEW i \in DOMAIN u
        PROVE  /\ u[i].scan \in DOMAIN sc /\ sc[u[i].scan].kind = kind
               /\ \A t \in DOMAIN sc : t > u[i].scan => sc[t].kind # kind
    <3>1. CASE i \in DOMAIN list /\ u[i] = list[i]
      BY <3>1 DEF Latest
    <3>2. CASE i - Len(list) \in DOMAIN r /\ u[i] = r[i - Len(list)]
      <4>1. u[i].scan = msg.scan
        BY <1>4, <3>2 DEF OfScan
      <4> QED BY <1>1, <1>8, <4>1
    <3> QED BY <2>1, <2>2, <3>1, <3>2 DEF Joins
  <2> QED BY <2>2 DEF Latest
<1> QED BY <1>2, <1>5, <1>6, <1>7, <1>9 DEF ListApart

LEMMA MergedKeeps ==
    ASSUME NEW sc \in Seq(ScanType), NEW box, NEW g, NEW p,
           box \subseteq MsgType, p.rows \in Seq(RowType), p.hits \in Seq(RowType),
           ScanInv(sc, box, g, p), NEW msg \in box, sc[msg.scan].gen = g, NEW p1, p1.repl = p.repl,
           IF sc[msg.scan].kind = "find" THEN p1.hits = p.hits \o msg.rows /\ p1.rows = p.rows
                                         ELSE p1.rows = p.rows \o msg.rows /\ p1.hits = p.hits
    PROVE  ScanInv(sc, box \ {msg}, g, p1)
<1>1. PICK box1 : box1 = box \ {msg}
  OBVIOUS
<1>2. /\ ScanInv(sc, box1, g, p) /\ msg.scan \in DOMAIN sc /\ msg \in MsgType
      /\ msg \in Way(sc, box) /\ msg \notin Way(sc, box1)
      /\ Way(sc, box1) \subseteq Way(sc, box)
  <2>1. ScanInv(sc, box1, g, p)
    BY <1>1, MessageLeaves
  <2>2. msg \notin Way(sc, box1)
    BY <1>1, MessageLeaves
  <2>3. Way(sc, box1) \subseteq Way(sc, box)
    BY <1>1, MessageLeaves
  <2>4. msg \in Way(sc, box)
    BY DEF Way
  <2>5. msg.scan \in DOMAIN sc
    BY DEF ScanInv, SentOnce
  <2> QED BY <2>1, <2>2, <2>3, <2>4, <2>5
<1>5. /\ ListApart(p.rows, sc, Way(sc, box)) /\ Latest(p.rows, "repl", sc)
      /\ ListApart(p.hits, sc, Way(sc, box)) /\ Latest(p.hits, "find", sc)
  BY DEF ScanInv
<1>3. CASE sc[msg.scan].kind = "find"
  <2>1. PICK u : u = p.hits
    OBVIOUS
  <2>2. /\ ListApart(u \o msg.rows, sc, Way(sc, box1))
        /\ Latest(u \o msg.rows, "find", sc)
    BY <1>1, <1>2, <1>3, <1>5, <2>1, ListGrows
  <2>3. ListApart(p1.hits, sc, Way(sc, box1)) /\ Latest(p1.hits, "find", sc)
    BY <1>3, <2>1, <2>2
  <2> QED BY <1>1, <1>2, <1>3, <2>3 DEF ScanInv
<1>4. CASE sc[msg.scan].kind # "find"
  <2>1. sc[msg.scan].kind = "repl"
    <3>1. sc[msg.scan] \in ScanType
      BY <1>2
    <3> QED BY <3>1, <1>4 DEF ScanType
  <2>4. PICK u : u = p.rows
    OBVIOUS
  <2>5. /\ ListApart(u \o msg.rows, sc, Way(sc, box1))
        /\ Latest(u \o msg.rows, "repl", sc)
    BY <1>1, <1>2, <1>5, <2>1, <2>4, ListGrows
  <2>2. ListApart(p1.rows, sc, Way(sc, box1)) /\ Latest(p1.rows, "repl", sc)
    BY <1>4, <2>4, <2>5
  <2>3. p1.repl => \A i \in DOMAIN p1.rows : sc[p1.rows[i].scan].gen = g
    <3>1. PICK v, r : v = p1.rows /\ r = msg.rows
      OBVIOUS
    <3>2. r \in Seq(RowType) /\ OfScan(r, msg.scan)
      BY <1>2, <3>1 DEF MsgType, ScanInv, MessagesApart
    <3>3. Joins(v, p.rows, r)
      BY <1>4, <3>1, <3>2, ConcatAt
    <3>4. ASSUME p.repl, NEW i \in DOMAIN v PROVE sc[v[i].scan].gen = g
      <4>1. CASE i \in DOMAIN p.rows /\ v[i] = p.rows[i]
        BY <3>4, <4>1 DEF ScanInv
      <4>2. CASE i - Len(p.rows) \in DOMAIN r /\ v[i] = r[i - Len(p.rows)]
        BY <3>2, <4>2 DEF OfScan
      <4> QED BY <3>3, <3>4, <4>1, <4>2 DEF Joins
    <3> QED BY <3>1, <3>4
  <2> QED BY <1>1, <1>2, <1>4, <2>2, <2>3 DEF ScanInv
<1> QED BY <1>3, <1>4

\* A selection stays in a list that grows.
LEMMA StaysSelected ==
    ASSUME NEW m \in Nat, NEW n \in Nat, m <= n, NEW sel \in Nat, sel < Max({1, m})
    PROVE  sel < Max({1, n})
<1>1. Max({1, m}) = (IF 1 >= m THEN 1 ELSE m) /\ Max({1, n}) = (IF 1 >= n THEN 1 ELSE n)
  BY MaxOf
<1> QED BY <1>1

LEMMA HandleMessageKeeps == ASSUME PrInv, NEW msg \in inbox, HandleMessage(msg) PROVE PrInv'
<1>1. /\ scans \in Seq(ScanType) /\ inbox \subseteq MsgType /\ panel \in PanelType /\ PanelInv(panel)
      /\ panel.rows \in Seq(RowType) /\ panel.hits \in Seq(RowType)
      /\ ScanInv(scans, inbox, prGen, panel)
      /\ panel.ch \in 0..Len(scans) /\ panel.fch \in 0..Len(scans)
  BY DEF PrInv, PrTyped, PanelType
<1>2. /\ UNCHANGED <<prDisk, prTabs, prGen, scans, prEdits>> /\ inbox' = inbox \ {msg}
      /\ panel' = Merged(panel, msg)
  BY DEF HandleMessage
<1>3. PICK r : r = msg.rows
  OBVIOUS
<1>4. r \in Seq(RowType) /\ msg.done \in BOOLEAN
  BY <1>1, <1>3 DEF MsgType
<1>5. CASE scans[msg.scan].gen # prGen
  <2>1. panel' = panel
    BY <1>2, <1>5 DEF Merged
  <2>2. ScanInv(scans, inbox \ {msg}, prGen, panel)
    BY <1>1, MessageLeaves
  <2> QED BY <1>1, <1>2, <2>1, <2>2 DEF PrInv, PrTyped
<1>6. CASE scans[msg.scan].gen = prGen /\ scans[msg.scan].kind = "find"
  <2>1. PICK h, c : h = panel.hits \o r /\ c = IF msg.done THEN 0 ELSE panel.fch
    OBVIOUS
  <2>2. h \in Seq(RowType) /\ c \in Nat /\ c \in {0, panel.fch} /\ Len(panel.hits) <= Len(h)
    BY <1>1, <1>4, <2>1
  <2>3. panel' = [panel EXCEPT !.hits = h, !.fch = c]
    BY <1>2, <1>3, <1>6, <2>1 DEF Merged
  <2>4. /\ panel' \in PanelType /\ panel'.hits = h /\ panel'.rows = panel.rows /\ panel'.order = panel.order
        /\ panel'.repl = panel.repl /\ panel'.ch = panel.ch /\ panel'.fch = c
        /\ panel'.sel = panel.sel /\ panel'.open = panel.open /\ panel'.review = panel.review
        /\ panel'.rev = panel.rev /\ panel'.shown = panel.shown
    BY <1>1, <2>2, <2>3 DEF PanelType
  <2>5. ScanInv(scans, inbox \ {msg}, prGen, panel')
    BY <1>1, <1>3, <1>6, <2>1, <2>4, MergedKeeps
  <2>6. PanelInv(panel')
    <3>1. /\ Len(ListOf(panel)) \in Nat /\ Len(ListOf(panel')) \in Nat
          /\ Len(ListOf(panel)) <= Len(ListOf(panel')) /\ panel.sel \in Nat
      BY <1>1, <2>2, <2>4 DEF ListOf, PanelType
    <3>2. SelectionOf(panel')
      BY <1>1, <2>4, <3>1, StaysSelected DEF PanelInv, SelectionOf
    <3> QED BY <1>1, <2>4, <3>2 DEF PanelInv, ReviewOf
  <2>7. panel'.ch \in 0..Len(scans) /\ panel'.fch \in 0..Len(scans)
    BY <1>1, <2>2, <2>4
  <2> QED BY <1>1, <1>2, <2>4, <2>5, <2>6, <2>7 DEF PrInv, PrTyped
<1>7. CASE scans[msg.scan].gen = prGen /\ scans[msg.scan].kind # "find"
  <2>1. PICK u, c, o : /\ u = panel.rows \o r /\ c = IF msg.done THEN 0 ELSE panel.ch
                       /\ o = ChangedRows(u)
    OBVIOUS
  <2>2. /\ u \in Seq(RowType) /\ c \in Nat /\ c \in {0, panel.ch} /\ Len(panel.rows) <= Len(u)
        /\ \A i \in DOMAIN panel.rows : i \in DOMAIN u /\ u[i] = panel.rows[i]
    BY <1>1, <1>4, <2>1
  <2>3. o \in Seq(Nat)
    <3>1. o \in Seq(DOMAIN u)
      BY <2>1, <2>2, OrderType
    <3>2. DOMAIN u \subseteq Nat
      BY <2>2
    <3> QED BY <3>1, <3>2
  <2>4. panel' = [panel EXCEPT !.rows = u, !.ch = c, !.order = o]
    <3>1. PICK p : p = [panel EXCEPT !.rows = u, !.ch = c]
      OBVIOUS
    <3>2. panel' = Rebuilt(p)
      BY <1>2, <1>3, <1>7, <2>1, <3>1 DEF Merged
    <3>3. p.rows = u
      BY <1>1, <3>1 DEF PanelType
    <3>4. panel' = [p EXCEPT !.order = o]
      BY <2>1, <3>2, <3>3 DEF Rebuilt
    <3> QED BY <3>1, <3>4
  <2>5. /\ panel' \in PanelType /\ panel'.hits = panel.hits /\ panel'.rows = u /\ panel'.order = o
        /\ panel'.repl = panel.repl /\ panel'.ch = c /\ panel'.fch = panel.fch
        /\ panel'.sel = panel.sel /\ panel'.open = panel.open /\ panel'.review = panel.review
        /\ panel'.rev = panel.rev /\ panel'.shown = panel.shown
    BY <1>1, <2>2, <2>3, <2>4 DEF PanelType
  <2>6. ScanInv(scans, inbox \ {msg}, prGen, panel')
    BY <1>1, <1>3, <1>7, <2>1, <2>5, MergedKeeps
  <2>7. PanelInv(panel')
    <3>1. /\ Len(ListOf(panel)) \in Nat /\ Len(ListOf(panel')) \in Nat
          /\ Len(ListOf(panel)) <= Len(ListOf(panel')) /\ panel.sel \in Nat
      BY <1>1, <2>2, <2>5 DEF ListOf, PanelType
    <3>2. SelectionOf(panel')
      BY <1>1, <2>5, <3>1, StaysSelected DEF PanelInv, SelectionOf
    <3>3. ASSUME panel'.review, panel'.repl
          PROVE  panel'.rev \in DOMAIN o /\ panel'.shown = u[o[panel'.rev]].file
      <4>1. /\ panel.rev \in DOMAIN panel.order
            /\ panel.shown = panel.rows[panel.order[panel.rev]].file
        BY <1>1, <2>5, <3>3 DEF PanelInv, ReviewOf
      <4>2. panel.order = ChangedRows(panel.rows)
        BY <1>1 DEF PanelInv
      <4>3. panel.rev \in DOMAIN o /\ o[panel.rev] = panel.order[panel.rev]
        BY <1>1, <1>4, <2>1, <4>1, <4>2, OrderGrows
      <4>4. panel.order \in Seq(DOMAIN panel.rows)
        BY <1>1, <4>2, OrderType
      <4>5. panel.order[panel.rev] \in DOMAIN panel.rows
        BY <4>1, <4>4
      <4> QED BY <2>2, <2>5, <4>1, <4>3, <4>5
    <3> QED BY <2>1, <2>5, <3>2, <3>3 DEF PanelInv, ReviewOf
  <2>8. panel'.ch \in 0..Len(scans) /\ panel'.fch \in 0..Len(scans)
    BY <1>1, <2>2, <2>5
  <2> QED BY <1>1, <1>2, <2>5, <2>6, <2>7, <2>8 DEF PrInv, PrTyped
<1> QED BY <1>5, <1>6, <1>7
-----------------------------------------------------------------------------
(* The loops of an answer.                                                 *)

LEMMA RemovalAt ==
    ASSUME NEW q \in Seq(RowType), NEW i \in 1..Len(q), NEW u, u = RemoveAt(q, i)
    PROVE  /\ u \in Seq(RowType) /\ DOMAIN u = 1..(Len(q) - 1)
           /\ \A j \in DOMAIN u : u[j] = IF j < i THEN q[j] ELSE q[j + 1]
<1>1. PICK a, b, n : a = SubSeq(q, 1, i - 1) /\ b = SubSeq(q, i + 1, n) /\ n = Len(q)
  OBVIOUS
<1>2. n \in Nat /\ i \in 1..n /\ u = a \o b
  BY <1>1 DEF RemoveAt
<1>3. a \in Seq(RowType) /\ Len(a) = i - 1 /\ \A j \in 1..(i - 1) : a[j] = q[j]
  BY <1>1, <1>2
<1>4. b \in Seq(RowType) /\ Len(b) = n - i /\ \A j \in 1..(n - i) : b[j] = q[i + j]
  BY <1>1, <1>2
<1>5. u \in Seq(RowType) /\ Len(u) = n - 1 /\ DOMAIN u = 1..(n - 1)
  <2>3. a \in Seq(RowType) /\ b \in Seq(RowType) /\ u = a \o b
    BY <1>2, <1>3, <1>4
  <2>4. u \in Seq(RowType) /\ Len(u) = Len(a) + Len(b)
    BY <2>3
  <2>5. DOMAIN u = 1..Len(u)
    BY <2>4
  <2>1. u \in Seq(RowType) /\ Len(u) = Len(a) + Len(b) /\ DOMAIN u = 1..Len(u)
    BY <2>4, <2>5
  <2>2. (i - 1) + (n - i) = n - 1
    BY <1>2
  <2> QED BY <1>3, <1>4, <2>1, <2>2
<1>6. ASSUME NEW j \in 1..(n - 1) PROVE u[j] = IF j < i THEN q[j] ELSE q[j + 1]
  <2>1. CASE j < i
    <3>1. j \in 1..(i - 1)
      BY <1>2, <2>1
    <3>2. u[j] = a[j]
      BY <1>2, <1>3, <1>4, <3>1
    <3> QED BY <1>3, <2>1, <3>1, <3>2
  <2>2. CASE ~(j < i)
    <3>1. j - (i - 1) \in 1..(n - i) /\ i + (j - (i - 1)) = j + 1
      BY <1>2, <2>2
    <3>2. u[j] = b[j - (i - 1)]
      BY <1>2, <1>3, <1>4, <2>2
    <3>3. b[j - (i - 1)] = q[j + 1]
      BY <1>4, <3>1
    <3> QED BY <2>2, <3>2, <3>3
  <2> QED BY <2>1, <2>2
<1> QED BY <1>1, <1>5, <1>6

LEMMA RemovalIsPart ==
    ASSUME NEW q \in Seq(RowType), NEW i \in 1..Len(q), NEW rows, PartOf(q, rows)
    PROVE  RemoveAt(q, i) \in Seq(RowType) /\ PartOf(RemoveAt(q, i), rows)
<1>1. PICK u, n : u = RemoveAt(q, i) /\ n = Len(q)
  OBVIOUS
<1>2. n \in Nat /\ i \in 1..n /\ DOMAIN q = 1..n
  BY <1>1
<1>3. /\ u \in Seq(RowType) /\ DOMAIN u = 1..(n - 1)
      /\ \A j \in DOMAIN u : u[j] = IF j < i THEN q[j] ELSE q[j + 1]
  BY <1>1, RemovalAt
<1>4. PICK at : at = [j \in DOMAIN u |-> IF j < i THEN j ELSE j + 1]
  OBVIOUS
<1>5. ASSUME NEW j \in DOMAIN u PROVE at[j] \in DOMAIN q /\ u[j] = q[at[j]]
  BY <1>2, <1>3, <1>4
<1>6. ASSUME NEW j \in DOMAIN u, NEW k \in DOMAIN u, at[j] = at[k] PROVE j = k
  BY <1>2, <1>3, <1>4, <1>6
<1>7. ListedOnce(u)
  BY <1>5, <1>6 DEF ListedOnce, PartOf
<1>8. PartOf(u, rows)
  BY <1>5, <1>7 DEF PartOf
<1> QED BY <1>1, <1>3, <1>8

\* The rows that stay are some of those there were.
LEMMA DropRowsDrops ==
    ASSUME NEW rows \in Seq(RowType), ListedOnce(rows), NEW gone \in Seq(Nat \ {0})
    PROVE  DropRows(rows, gone) \in Seq(RowType) /\ PartOf(DropRows(rows, gone), rows)
<1> DEFINE S == {q \in Seq(RowType) : PartOf(q, rows)}
           Next1(q, k) == IF gone[k] <= Len(q) THEN RemoveAt(q, gone[k]) ELSE q
           Made(g) == g = [k \in 0..Len(gone) |->
                             IF k = 0 THEN rows
                             ELSE IF gone[k] <= Len(g[k - 1]) THEN RemoveAt(g[k - 1], gone[k]) ELSE g[k - 1]]
           turn == [k \in 1..Len(gone) |-> [q \in S |-> Next1(q, k)]]
           left == CHOOSE g : Made(g)
<1>1. Len(gone) \in Nat /\ rows \in S
  BY IsPartOfItself
<1>2. ASSUME NEW k \in 1..Len(gone), NEW q \in S PROVE Next1(q, k) \in S
  <2>1. gone[k] \in Nat \ {0} /\ q \in Seq(RowType) /\ Len(q) \in Nat /\ PartOf(q, rows)
    OBVIOUS
  <2>2. CASE gone[k] <= Len(q)
    <3>1. gone[k] \in 1..Len(q)
      BY <2>1, <2>2
    <3>2. RemoveAt(q, gone[k]) \in Seq(RowType) /\ PartOf(RemoveAt(q, gone[k]), rows)
      BY <2>1, <3>1, RemovalIsPart
    <3> QED BY <2>2, <3>2
  <2>3. CASE ~(gone[k] <= Len(q))
    BY <2>3
  <2> QED BY <2>2, <2>3
<1> HIDE DEF S
<1>3. turn \in [1..Len(gone) -> [S -> S]]
  <2> HIDE DEF Next1
  <2> QED BY <1>2
<1>4. PICK g : Runs(Len(gone), S, rows, turn, g)
  <2> HIDE DEF turn
  <2> QED BY <1>1, <1>3, LoopRuns
<1>5. Made(g)
  <2>1. ASSUME NEW k \in 0..Len(gone)
        PROVE  g[k] = IF k = 0 THEN rows
                      ELSE IF gone[k] <= Len(g[k - 1]) THEN RemoveAt(g[k - 1], gone[k]) ELSE g[k - 1]
    <3>1. CASE k = 0
      BY <3>1, <1>4 DEF Runs
    <3>2. CASE k # 0
      <4>1. k \in 1..Len(gone) /\ k - 1 \in 0..Len(gone)
        BY <3>2, <1>1
      <4>2. g[k] = turn[k][g[k - 1]] /\ g[k - 1] \in S
        <5> HIDE DEF turn
        <5> QED BY <4>1, <1>4 DEF Runs
      <4> QED BY <4>1, <4>2, <3>2
    <3> QED BY <3>1, <3>2
  <2>2. g = [k \in 0..Len(gone) |-> g[k]]
    BY <1>4 DEF Runs
  <2> HIDE DEF turn
  <2> QED BY <2>1, <2>2
<1>6. Made(left)
  <2> HIDE DEF Made
  <2> QED BY <1>5
<1>7. DropRows(rows, gone) = left[Len(gone)]
  BY DEF DropRows
<1> HIDE DEF left
<1>8. left[0] = rows /\ \A k \in 1..Len(gone) : left[k] = Next1(left[k - 1], k)
  <2>1. ASSUME NEW k \in 0..Len(gone)
        PROVE  left[k] = IF k = 0 THEN rows
                         ELSE IF gone[k] <= Len(left[k - 1]) THEN RemoveAt(left[k - 1], gone[k]) ELSE left[k - 1]
    BY <1>6
  <2> QED BY <2>1, <1>1
<1> HIDE DEF Next1, Made
<1>9. ASSUME NEW m \in 0..(Len(gone) - 1), left[m] \in S PROVE left[m + 1] \in S
  <2>1. m + 1 \in 1..Len(gone) /\ (m + 1) - 1 = m
    BY <1>1
  <2> QED BY <1>2, <1>8, <1>9, <2>1
<1>10. \A m \in 0..Len(gone) : left[m] \in S
  BY <1>1, <1>8, <1>9, StaysIn
<1>11. left[Len(gone)] \in S
  BY <1>1, <1>10
<1> QED BY <1>7, <1>11 DEF S

\* openAiFile for each row of the series.
LEMMA OpenSeriesType ==
    ASSUME NEW tabs \in [PrFiles -> PrTabType], NEW rows \in Seq(RowType),
           NEW texts \in [PrFiles -> PrTexts]
    PROVE  OpenSeries(tabs, rows, texts) \in [PrFiles -> PrTabType]
<1> DEFINE S == [PrFiles -> PrTabType]
           Next1(t, k) == OpenAiFile(t, rows[k].file, texts[rows[k].file])
           Made(g) == g = [k \in 0..Len(rows) |-> IF k = 0 THEN tabs ELSE Next1(g[k - 1], k)]
           turn == [k \in 1..Len(rows) |-> [t \in S |-> Next1(t, k)]]
           shown == CHOOSE g : Made(g)
<1>1. Len(rows) \in Nat /\ tabs \in S
  OBVIOUS
<1>2. ASSUME NEW k \in 1..Len(rows), NEW t \in S PROVE Next1(t, k) \in S
  <2>1. rows[k] \in RowType
    OBVIOUS
  <2>2. PICK f, x : f = rows[k].file /\ x = texts[f]
    OBVIOUS
  <2>3. f \in PrFiles /\ x \in PrTexts
    BY <2>1, <2>2 DEF RowType
  <2>4. ASSUME NEW h \in PrFiles
        PROVE  (IF h = f /\ ~t[h].open THEN [open |-> TRUE, dirty |-> FALSE, text |-> x]
                ELSE IF t[h].open /\ ~t[h].dirty /\ (h = f \/ {f, h} \subseteq Namesakes)
                THEN [t[h] EXCEPT !.text = x] ELSE t[h]) \in PrTabType
    <3>1. t[h] \in PrTabType
      OBVIOUS
    <3>2. [open |-> TRUE, dirty |-> FALSE, text |-> x] \in PrTabType
      BY <2>3 DEF PrTabType
    <3>3. [t[h] EXCEPT !.text = x] \in PrTabType
      BY <2>3, <3>1 DEF PrTabType
    <3> QED BY <3>1, <3>2, <3>3
  <2>5. OpenAiFile(t, f, x) \in S
    BY <2>4 DEF OpenAiFile
  <2> QED BY <2>2, <2>5
<1> HIDE DEF S, Next1
<1>3. turn \in [1..Len(rows) -> [S -> S]]
  BY <1>2
<1>4. PICK g : Runs(Len(rows), S, tabs, turn, g)
  <2> HIDE DEF turn
  <2> QED BY <1>1, <1>3, LoopRuns
<1>5. Made(g)
  <2>1. ASSUME NEW k \in 0..Len(rows) PROVE g[k] = IF k = 0 THEN tabs ELSE Next1(g[k - 1], k)
    <3>1. CASE k = 0
      BY <3>1, <1>4 DEF Runs
    <3>2. CASE k # 0
      <4>1. k \in 1..Len(rows) /\ k - 1 \in 0..Len(rows)
        BY <3>2, <1>1
      <4>2. g[k] = turn[k][g[k - 1]] /\ g[k - 1] \in S
        <5> HIDE DEF turn
        <5> QED BY <4>1, <1>4 DEF Runs
      <4> QED BY <4>1, <4>2, <3>2
    <3> QED BY <3>1, <3>2
  <2>2. g = [k \in 0..Len(rows) |-> g[k]]
    BY <1>4 DEF Runs
  <2> HIDE DEF turn
  <2> QED BY <2>1, <2>2
<1>6. Made(shown)
  <2> HIDE DEF Made
  <2> QED BY <1>5
<1>7. OpenSeries(tabs, rows, texts) = shown[Len(rows)]
  BY DEF OpenSeries, Next1
<1> HIDE DEF shown
<1>8. shown[0] = tabs /\ \A k \in 1..Len(rows) : shown[k] = Next1(shown[k - 1], k)
  <2>1. ASSUME NEW k \in 0..Len(rows)
        PROVE  shown[k] = IF k = 0 THEN tabs ELSE Next1(shown[k - 1], k)
    BY <1>6
  <2> QED BY <2>1, <1>1
<1> HIDE DEF Made
<1>9. ASSUME NEW m \in 0..(Len(rows) - 1), shown[m] \in S PROVE shown[m + 1] \in S
  <2>1. m + 1 \in 1..Len(rows) /\ (m + 1) - 1 = m
    BY <1>1
  <2> QED BY <1>2, <1>8, <1>9, <2>1
<1>10. \A m \in 0..Len(rows) : shown[m] \in S
  BY <1>1, <1>8, <1>9, StaysIn
<1>11. shown[Len(rows)] \in S
  BY <1>1, <1>10
<1> QED BY <1>7, <1>11 DEF S

AnsweredRows(gone) == [k \in DOMAIN gone |-> panel.rows[gone[k]]]

\* An answer is for the change on screen, or for all of the order.
LEMMA Answered ==
    ASSUME PrInv, NEW gone,
           gone \in {IF panel.rev \in DOMAIN panel.order THEN <<panel.order[panel.rev]>> ELSE <<>>, panel.order}
    PROVE  /\ gone \in Seq(Nat \ {0}) /\ AnsweredRows(gone) \in Seq(RowType)
           /\ \A k \in DOMAIN gone : gone[k] \in DOMAIN panel.rows /\ panel.rows[gone[k]].change
<1>1. PICK rows, o : rows = panel.rows /\ o = panel.order
  OBVIOUS
<1>2. rows \in Seq(RowType) /\ o = ChangedRows(rows)
  BY <1>1 DEF PrInv, PrTyped, PanelType, PanelInv
<1>3. o \in Seq(DOMAIN rows) /\ \A k \in DOMAIN o : rows[o[k]].change
  BY <1>2, OrderType
<1>4. \A k \in DOMAIN o : o[k] \in DOMAIN rows
  BY <1>3
<1>5. gone \in Seq(DOMAIN rows) /\ \A k \in DOMAIN gone : gone[k] \in DOMAIN rows /\ rows[gone[k]].change
  <2>1. CASE gone = o
    BY <1>3, <1>4, <2>1
  <2>2. CASE panel.rev \in DOMAIN o /\ gone = <<o[panel.rev]>>
    <3>1. PICK i : i = o[panel.rev]
      OBVIOUS
    <3>2. i \in DOMAIN rows /\ rows[i].change /\ gone = <<i>>
      BY <1>3, <1>4, <2>2, <3>1
    <3> QED BY <3>2
  <2>3. CASE gone = <<>>
    <3>1. gone \in Seq(DOMAIN rows) /\ DOMAIN gone = {}
      BY <2>3, EmptySeq
    <3> QED BY <3>1
  <2> QED BY <1>1, <2>1, <2>2, <2>3
<1>6. gone \in Seq(Nat \ {0})
  <2>1. DOMAIN rows \subseteq Nat \ {0}
    BY <1>2
  <2> QED BY <1>5, <2>1
<1>7. AnsweredRows(gone) \in Seq(RowType)
  <2>1. DOMAIN gone = 1..Len(gone) /\ Len(gone) \in Nat
    BY <1>6
  <2>2. \A k \in DOMAIN gone : panel.rows[gone[k]] \in RowType
    BY <1>1, <1>2, <1>5
  <2> QED BY <2>1, <2>2 DEF AnsweredRows
<1> QED BY <1>1, <1>5, <1>6, <1>7

\* An answer that is refused ends the review; one that is not writes the series.
Applies(gone) ==
    /\ gone \in {IF panel.rev \in DOMAIN panel.order THEN <<panel.order[panel.rev]>> ELSE <<>>, panel.order}
    /\ Validates(Range(AnsweredRows(gone)))
    /\ prDisk' = AfterSeries(AnsweredRows(gone))
    /\ prTabs' = OpenSeries(prTabs, AnsweredRows(gone), prDisk')
    /\ panel' = EndReview(JumpProjSel(Rebuilt([panel EXCEPT !.rows = DropRows(@, gone)]), panel.sel))

LEMMA AnswerIs ==
    ASSUME Accept
    PROVE  \/ panel' = EndReview(panel) /\ UNCHANGED <<prDisk, prTabs>>
           \/ \E gone : Applies(gone)
<1>1. PICK gone \in {IF panel.rev \in DOMAIN panel.order THEN <<panel.order[panel.rev]>> ELSE <<>>,
                     panel.order} :
          IF AnsweredRows(gone) # <<>> /\ Validates(Range(AnsweredRows(gone)))
          THEN /\ prDisk' = AfterSeries(AnsweredRows(gone))
               /\ prTabs' = OpenSeries(prTabs, AnsweredRows(gone), prDisk')
               /\ panel' = EndReview(JumpProjSel(Rebuilt([panel EXCEPT !.rows = DropRows(@, gone)]), panel.sel))
          ELSE panel' = EndReview(panel) /\ UNCHANGED <<prDisk, prTabs>>
  BY Zenon DEF Accept, AnsweredRows
<1> QED BY <1>1 DEF Applies

LEMMA TextsChange ==
    ASSUME NEW c \in PrTexts
    PROVE  Replaced(c) \in PrTexts /\ Padded(c) \in PrTexts
<1>1. PICK f \in PrFiles, n \in Nat, w \in {0, 1} : f = c[1] /\ n = c[2] /\ w = c[3]
  BY DEF PrTexts
<1>2. PICK m \in Nat, v \in {0, 1} : m = n + 1 /\ v = 1 - w
  OBVIOUS
<1>3. Replaced(c) = <<f, m, w>> /\ Padded(c) = <<f, n, v>>
  BY <1>1, <1>2 DEF Replaced, Padded
<1> QED BY <1>3 DEF PrTexts

LEMMA AcceptKeeps == ASSUME PrInv, Accept PROVE PrInv'
<1>1. /\ panel \in PanelType /\ PanelInv(panel) /\ panel.rows \in Seq(RowType)
      /\ scans \in Seq(ScanType) /\ ScanInv(scans, inbox, prGen, panel) /\ prGen \in Nat
      /\ prDisk \in [PrFiles -> PrTexts] /\ prTabs \in [PrFiles -> PrTabType] /\ panel.sel \in Int
  BY DEF PrInv, PrTyped, PanelType
<1>2. UNCHANGED <<prGen, scans, prWaiting, inbox, prEdits>>
  BY DEF Accept
<1>3. CASE panel' = EndReview(panel) /\ UNCHANGED <<prDisk, prTabs>>
  <2>1. panel' = [panel EXCEPT !.review = FALSE, !.shown = NoFile]
    BY <1>3 DEF EndReview
  <2>2. /\ panel' \in PanelType /\ panel'.ch = panel.ch /\ panel'.fch = panel.fch
        /\ panel'.rows = panel.rows /\ panel'.hits = panel.hits /\ panel'.order = panel.order
        /\ panel'.repl = panel.repl /\ ~panel'.review
        /\ panel'.sel = panel.sel /\ panel'.open = panel.open
    BY <1>1, <2>1 DEF PanelType
  <2>3. ReviewOf(panel') /\ SelectionOf(panel')
    BY <1>1, <2>2 DEF PanelInv, ReviewOf, SelectionOf, ListOf
  <2> QED BY <1>2, <1>3, <2>2, <2>3, ListsStand
<1>4. ASSUME NEW gone, Applies(gone) PROVE PrInv'
  <2>1. gone \in Seq(Nat \ {0}) /\ AnsweredRows(gone) \in Seq(RowType)
    BY <1>4, Answered DEF Applies
  <2>2. prDisk' \in [PrFiles -> PrTexts]
    <3>1. ASSUME NEW f \in PrFiles PROVE AfterSeries(AnsweredRows(gone))[f] \in PrTexts
      <4>1. prDisk[f] \in PrTexts
        BY <1>1
      <4>2. ASSUME NEW r \in Range(AnsweredRows(gone)) PROVE Replaced(r.orig) \in PrTexts
        <5>1. r \in RowType
          BY <2>1 DEF Range
        <5>2. r.orig \in PrTexts
          BY <5>1 DEF RowType
        <5> QED BY <5>2, TextsChange
      <4> QED BY <3>1, <4>1, <4>2 DEF AfterSeries
    <3>2. prDisk' = AfterSeries(AnsweredRows(gone))
      BY <1>4 DEF Applies
    <3> QED BY <3>1, <3>2 DEF AfterSeries
  <2>3. prTabs' \in [PrFiles -> PrTabType]
    <3>1. prTabs' = OpenSeries(prTabs, AnsweredRows(gone), prDisk')
      BY <1>4 DEF Applies
    <3> QED BY <1>1, <2>1, <2>2, <3>1, OpenSeriesType
  <2>4. PICK d, o : d = DropRows(panel.rows, gone) /\ o = ChangedRows(d)
    OBVIOUS
  <2>5. d \in Seq(RowType) /\ PartOf(d, panel.rows) /\ PartOf(panel.hits, panel.hits)
    <3>1. ListedOnce(panel.rows) /\ ListedOnce(panel.hits)
      BY <1>1 DEF ScanInv, ListApart, Piece
    <3> QED BY <1>1, <2>1, <2>4, <3>1, DropRowsDrops, IsPartOfItself
  <2>6. o \in Seq(Nat)
    <3>1. o \in Seq(DOMAIN d)
      BY <2>4, <2>5, OrderType
    <3>2. DOMAIN d \subseteq Nat
      BY <2>5
    <3> QED BY <3>1, <3>2
  <2>7. PICK p : p = [panel EXCEPT !.rows = d, !.order = o]
    OBVIOUS
  <2>8. p \in PanelType /\ p.rows = d /\ p.order = o /\ p.hits = panel.hits /\ p.repl = panel.repl
        /\ p.ch = panel.ch /\ p.fch = panel.fch /\ p.open = panel.open
    BY <1>1, <2>5, <2>6, <2>7 DEF PanelType
  <2>9. PICK q : q = JumpProjSel(p, panel.sel)
    OBVIOUS
  <2>10. q \in PanelType /\ q = [p EXCEPT !.sel = q.sel] /\ SelectionOf(q)
    BY <1>1, <2>8, <2>9, Jumps
  <2>11. panel' = [q EXCEPT !.review = FALSE, !.shown = NoFile]
    <3>1. PICK p0 : p0 = [panel EXCEPT !.rows = DropRows(@, gone)]
      OBVIOUS
    <3>2. p0 = [panel EXCEPT !.rows = d] /\ p0.rows = d
      BY <1>1, <2>4, <3>1 DEF PanelType
    <3>3. Rebuilt(p0) = p
      BY <2>4, <2>7, <3>2 DEF Rebuilt
    <3>4. panel' = EndReview(JumpProjSel(Rebuilt(p0), panel.sel))
      BY <1>4, <3>1 DEF Applies
    <3> QED BY <2>9, <3>3, <3>4 DEF EndReview
  <2>12. /\ q.rows = d /\ q.order = o /\ q.hits = panel.hits /\ q.repl = panel.repl
         /\ q.ch = panel.ch /\ q.fch = panel.fch
    BY <2>8, <2>10 DEF PanelType
  <2>13. /\ panel' \in PanelType /\ panel'.rows = d /\ panel'.order = o /\ panel'.hits = panel.hits
         /\ panel'.repl = panel.repl /\ panel'.ch = panel.ch /\ panel'.fch = panel.fch
         /\ ~panel'.review /\ panel'.sel = q.sel /\ panel'.open = q.open
    BY <2>10, <2>11, <2>12 DEF PanelType
  <2>14. PanelInv(panel')
    BY <2>4, <2>10, <2>12, <2>13 DEF PanelInv, ReviewOf, SelectionOf, ListOf
  <2>15. ScanInv(scans, inbox, prGen, panel')
    BY <1>1, <2>5, <2>13, PanelShrinks
  <2>16. PrTyped'
    BY <1>2, <2>2, <2>3, <2>13 DEF PrInv, PrTyped
  <2> QED BY <1>2, <2>14, <2>15, <2>16 DEF PrInv
<1> QED BY <1>3, <1>4, AnswerIs
-----------------------------------------------------------------------------
(* What goes on around the panel. *)

LEMMA FilesMove ==
    ASSUME PrInv, Around, prDisk' \in [PrFiles -> PrTexts], prTabs' \in [PrFiles -> PrTabType],
           prEdits' \in Nat
    PROVE  PrInv'
BY DEF PrInv, PrTyped, Around

LEMMA AroundKeeps ==
    ASSUME PrInv, NEW f \in PrFiles, OpenTab(f) \/ TypeInTab(f) \/ SaveTab(f) \/ FileChanges(f)
    PROVE  PrInv'
<1>1. /\ prDisk \in [PrFiles -> PrTexts] /\ prTabs \in [PrFiles -> PrTabType] /\ prEdits \in Nat
      /\ prDisk[f] \in PrTexts /\ prTabs[f] \in PrTabType /\ prTabs[f].text \in PrTexts
  BY DEF PrInv, PrTyped, PrTabType
<1>3. ASSUME NEW c \in PrTexts, NEW x \in Edits(c) PROVE x \in PrTexts
  <2>1. PICK n \in Nat : n = 2 * (prEdits + 1)
    BY <1>1
  <2>2. PICK a \in PrFiles, w \in {0, 1} : a = c[1] /\ w = c[3]
    BY DEF PrTexts
  <2>3. <<a, n, w>> \in PrTexts /\ Padded(c) \in PrTexts
    BY TextsChange DEF PrTexts
  <2> QED BY <1>3, <2>1, <2>2, <2>3 DEF Edits
<1>4. prEdits + 1 \in Nat
  BY <1>1
<1>5. CASE OpenTab(f)
  <2>1. PICK e : e = [open |-> TRUE, dirty |-> FALSE, text |-> prDisk[f]]
    OBVIOUS
  <2>2. e \in PrTabType /\ prTabs' = [prTabs EXCEPT ![f] = e]
    BY <1>1, <1>5, <2>1 DEF OpenTab, PrTabType
  <2>3. prTabs' \in [PrFiles -> PrTabType]
    BY <1>1, <2>2
  <2> QED BY <1>1, <1>5, <2>3, FilesMove DEF OpenTab
<1>6. CASE TypeInTab(f)
  <2>5. PICK x \in Edits(prTabs[f].text) : prTabs' = [prTabs EXCEPT ![f].dirty = TRUE, ![f].text = x]
    BY <1>6 DEF TypeInTab
  <2>1. PICK e : e = [prTabs[f] EXCEPT !.dirty = TRUE, !.text = x]
    OBVIOUS
  <2>2. e \in PrTabType
    BY <1>1, <1>3, <2>1 DEF PrTabType
  <2>3. prTabs' = [prTabs EXCEPT ![f] = e]
    BY <1>1, <2>1, <2>5
  <2>4. prTabs' \in [PrFiles -> PrTabType]
    BY <1>1, <2>2, <2>3
  <2> QED BY <1>1, <1>4, <1>6, <2>4, FilesMove DEF TypeInTab
<1>7. CASE SaveTab(f)
  <2>1. PICK e, t : e = [prTabs[f] EXCEPT !.dirty = FALSE] /\ t = prTabs[f].text
    OBVIOUS
  <2>2. e \in PrTabType /\ t \in PrTexts
    BY <1>1, <2>1 DEF PrTabType
  <2>3. prTabs' = [prTabs EXCEPT ![f] = e] /\ prDisk' = [prDisk EXCEPT ![f] = t]
    BY <1>1, <1>7, <2>1 DEF SaveTab
  <2>4. prTabs' \in [PrFiles -> PrTabType] /\ prDisk' \in [PrFiles -> PrTexts]
    BY <1>1, <2>2, <2>3
  <2> QED BY <1>1, <1>7, <2>4, FilesMove DEF SaveTab
<1>8. CASE FileChanges(f)
  <2>5. PICK x \in Edits(prDisk[f]) :
           /\ prDisk' = [prDisk EXCEPT ![f] = x]
           /\ prTabs' = IF prTabs[f].open /\ ~prTabs[f].dirty THEN [prTabs EXCEPT ![f].text = x] ELSE prTabs
    BY <1>8 DEF FileChanges
  <2>1. PICK e : e = [prTabs[f] EXCEPT !.text = x]
    OBVIOUS
  <2>2. e \in PrTabType
    BY <1>1, <1>3, <2>1 DEF PrTabType
  <2>3. prTabs' \in {prTabs, [prTabs EXCEPT ![f] = e]} /\ prDisk' = [prDisk EXCEPT ![f] = x]
    BY <1>1, <2>1, <2>5
  <2>4. prTabs' \in [PrFiles -> PrTabType] /\ prDisk' \in [PrFiles -> PrTexts]
    BY <1>1, <1>3, <2>2, <2>3
  <2> QED BY <1>4, <1>8, <2>4, FilesMove DEF FileChanges
<1> QED BY <1>5, <1>6, <1>7, <1>8
-----------------------------------------------------------------------------
LEMMA PrInitInv == PrInit => PrInv
<1> SUFFICES ASSUME PrInit PROVE PrInv
  OBVIOUS
<1>9. PICK z, o : z = 0 /\ o = 1 /\ z \in Nat /\ z \in 0..2 /\ o \in Nat \ {0}
  OBVIOUS
<1>10. <<>> \in Seq(RowType) /\ <<>> \in Seq(Nat) /\ <<>> \in Seq(ScanType)
  BY EmptySeq
<1>11. Len(<<>>) = 0 /\ DOMAIN <<>> = {}
  OBVIOUS
<1>12. PICK e : e = <<>>
  OBVIOUS
<1>1. /\ z = 0 /\ o = 1 /\ e = <<>> /\ z \in Nat /\ z \in 0..2 /\ o \in Nat \ {0}
      /\ e \in Seq(RowType) /\ e \in Seq(Nat) /\ e \in Seq(ScanType)
      /\ Len(e) = 0 /\ DOMAIN e = {}
  BY <1>9, <1>10, <1>11, <1>12
<1>2. panel = [open |-> FALSE, input |-> FALSE, repl |-> FALSE, step |-> z,
               hits |-> e, fch |-> z, rows |-> e, order |-> e, ch |-> z,
               sel |-> z, review |-> FALSE, rev |-> o, shown |-> NoFile]
  BY <1>1 DEF PrInit
<1>3. /\ panel \in PanelType /\ panel.ch = 0 /\ panel.fch = 0 /\ ~panel.review /\ ~panel.open
      /\ panel.rows = e /\ panel.order = e /\ panel.hits = e /\ ~panel.repl
  BY <1>1, <1>2 DEF PanelType
<1>4. scans = e /\ inbox = {} /\ prGen = 0 /\ prEdits = 0
  BY <1>1 DEF PrInit
<1>5. prDisk \in [PrFiles -> PrTexts] /\ prTabs \in [PrFiles -> PrTabType]
  <2>1. \A f \in PrFiles : <<f, 0, 0>> \in PrTexts
    BY DEF PrTexts
  <2>2. ASSUME NEW f \in PrFiles PROVE [open |-> FALSE, dirty |-> FALSE, text |-> <<f, 0, 0>>] \in PrTabType
    <3>1. PICK x : x = <<f, 0, 0>> /\ x \in PrTexts
      BY <2>1
    <3>2. [open |-> FALSE, dirty |-> FALSE, text |-> x] \in PrTabType
      BY <3>1 DEF PrTabType
    <3> QED BY <3>1, <3>2
  <2> QED BY <2>1, <2>2 DEF PrInit
<1>6. PrTyped
  <2>1. prGen \in 0..MaxGens /\ panel.ch \in 0..Len(scans) /\ panel.fch \in 0..Len(scans)
    BY <1>1, <1>3, <1>4, PrAssumption
  <2>2. scans \in Seq(ScanType) /\ inbox \subseteq MsgType /\ prEdits \in Nat
    BY <1>1, <1>4
  <2> QED BY <1>3, <1>5, <2>1, <2>2 DEF PrTyped
<1>7. ScanInv(scans, inbox, prGen, panel)
  <2>1. DOMAIN scans = {} /\ DOMAIN panel.rows = {} /\ DOMAIN panel.hits = {}
    BY <1>1, <1>3, <1>4
  <2>2. Way(scans, inbox) = {}
    BY <1>4, <2>1 DEF Way
  <2>3. GensRise(scans, prGen) /\ SentOnce(scans, inbox)
    BY <1>4, <2>1 DEF GensRise, SentOnce
  <2>4. MessagesApart(scans, Way(scans, inbox)) /\ BatchesApart(scans, Way(scans, inbox))
    BY <2>1, <2>2 DEF MessagesApart, BatchesApart
  <2>5. \A list \in {panel.rows, panel.hits} : ListApart(list, scans, Way(scans, inbox))
    BY <2>1, <2>2 DEF ListApart, Piece, ListedOnce, Visited
  <2>6. Latest(panel.rows, "repl", scans) /\ Latest(panel.hits, "find", scans)
    BY <2>1 DEF Latest
  <2> QED BY <2>1, <2>3, <2>4, <2>5, <2>6 DEF ScanInv
<1>8. PanelInv(panel)
  BY <1>1, <1>3, NothingToOrder DEF PanelInv, ReviewOf, SelectionOf
<1> QED BY <1>6, <1>7, <1>8 DEF PrInv

LEMMA PrStays == PrInv /\ [PrNext]_prVars => PrInv'
<1> SUFFICES ASSUME PrInv, [PrNext]_prVars PROVE PrInv'
  OBVIOUS
<1>1. CASE UNCHANGED prVars
  BY <1>1 DEF prVars, PrInv, PrTyped
<1>2. CASE StartProjectSearch
  BY <1>2, StartProjectSearchKeeps
<1>3. CASE StartProjectReplace
  BY <1>3, StartProjectReplaceKeeps
<1>4. CASE StopProjectSearch
  BY <1>4, StopProjectSearchKeeps
<1>5. CASE RunProjectSearch
  BY <1>5, RunProjectSearchKeeps
<1>6. CASE NextField
  BY <1>6, NextFieldKeeps
<1>7. CASE RunProjectReplace
  BY <1>7, RunProjectReplaceKeeps
<1>8. CASE \E s \in DOMAIN scans : ScanVisits(s) \/ ScanFlushes(s) \/ CommandReceives(s)
  BY <1>8, ScanVisitsKeeps, ScanFlushesKeeps, CommandReceivesKeeps
<1>9. CASE \E msg \in inbox : HandleMessage(msg)
  BY <1>9, HandleMessageKeeps
<1>10. CASE MoveSelection
  BY <1>10, MoveSelectionKeeps
<1>11. CASE TypeOver
  BY <1>11, TypeOverKeeps
<1>12. CASE StartReview \/ ReviewNext
  BY <1>12, ReviewKeeps
<1>13. CASE RejectReview
  BY <1>13, RejectReviewKeeps
<1>14. CASE Accept
  BY <1>14, AcceptKeeps
<1>15. CASE \E f \in PrFiles : OpenTab(f) \/ TypeInTab(f) \/ SaveTab(f) \/ FileChanges(f)
  BY <1>15, AroundKeeps
<1> QED BY <1>1, <1>2, <1>3, <1>4, <1>5, <1>6, <1>7, <1>8, <1>9, <1>10, <1>11, <1>12, <1>13,
           <1>14, <1>15 DEF PrNext

LEMMA PrAlways == PrSpec => []PrInv
<1>1. PrInit => PrInv
  BY PrInitInv
<1>2. PrInv /\ [PrNext]_prVars => PrInv'
  BY PrStays
<1> QED BY <1>1, <1>2, PTL DEF PrSpec

\* What the invariant says of the lists, the review and the selection.
LEMMA PrInvShows == PrInv => PrTypeOK /\ PreviewIsOfTheLastScan /\ ReviewIsOfItsRow /\ SelectionInList
<1> SUFFICES ASSUME PrInv PROVE PrTypeOK /\ PreviewIsOfTheLastScan /\ ReviewIsOfItsRow /\ SelectionInList
  OBVIOUS
<1>1. PrTypeOK
  <2>1. \A m \in inbox : m.scan \in DOMAIN scans
    BY DEF PrInv, ScanInv, SentOnce
  <2>2. panel.shown \in {NoFile} \cup PrFiles /\ panel.step \in 0..2 /\ panel.sel \in Nat
    BY DEF PrInv, PrTyped, PanelType
  <2> QED BY <2>1, <2>2 DEF PrInv, PrTyped, PrTypeOK
<1>2. PreviewIsOfTheLastScan
  <2>1. ASSUME NEW list, NEW kind, Latest(list, kind, scans), Piece(list, scans),
               NEW i \in DOMAIN list, NEW j \in DOMAIN list
        PROVE  /\ list[i].scan = list[j].scan
               /\ list[i].place = list[j].place /\ list[i].match = list[j].match => i = j
    <3>1. PICK s, t : s = list[i].scan /\ t = list[j].scan
      OBVIOUS
    <3>2. /\ s \in DOMAIN scans /\ t \in DOMAIN scans /\ ~(s > t) /\ ~(t > s)
      BY <2>1, <3>1 DEF Latest
    <3>3. s \in Nat /\ t \in Nat
      BY <3>2 DEF PrInv, PrTyped
    <3>4. s = t
      BY <3>2, <3>3
    <3> QED BY <2>1, <3>1, <3>4 DEF Piece, ListedOnce
  <2>2. /\ Latest(panel.rows, "repl", scans) /\ Piece(panel.rows, scans)
        /\ Latest(panel.hits, "find", scans) /\ Piece(panel.hits, scans)
        /\ panel.repl => \A i \in DOMAIN panel.rows : scans[panel.rows[i].scan].gen = prGen
    BY DEF PrInv, ScanInv, ListApart
  <2>3. ASSUME NEW i \in DOMAIN panel.rows, NEW j \in DOMAIN panel.rows,
               panel.rows[i].file = panel.rows[j].file
        PROVE  i = j
    <3>1. PICK p, q, f : p = panel.rows[i].place /\ q = panel.rows[j].place /\ f = panel.rows[i].file
      OBVIOUS
    <3>2. FromTheWalk(panel.rows[i], "repl") /\ FromTheWalk(panel.rows[j], "repl")
      BY <2>2 DEF Latest, Piece, Visited
    <3>3. /\ p \in DOMAIN FileAt /\ q \in DOMAIN FileAt /\ FileAt[p] = f /\ FileAt[q] = f
          /\ ~(p \in 1..q - 1) /\ ~(q \in 1..p - 1)
          /\ panel.rows[i].match = panel.rows[j].match
      BY <2>3, <3>1, <3>2 DEF FromTheWalk
    <3>5. p \in Nat \ {0} /\ q \in Nat \ {0}
      BY <3>3, PrAssumption
    <3>4. p = q
      BY <3>3, <3>5
    <3>6. panel.rows[i].place = panel.rows[j].place /\ panel.rows[i].match = panel.rows[j].match
      BY <3>1, <3>3, <3>4
    <3> QED BY <2>1, <2>2, <3>6
  <2> QED BY <2>1, <2>2, <2>3 DEF PreviewIsOfTheLastScan
<1>3. ReviewIsOfItsRow /\ SelectionInList
  BY DEF PrInv, PanelInv, ReviewOf, SelectionOf, ReviewIsOfItsRow, SelectionInList
<1> QED BY <1>1, <1>2, <1>3

\* Only an answer ends a review and writes, and what it writes is its series.
LEMMA WritesThePreview ==
    ASSUME PrInv, PrNext, Applying, NEW f \in PrFiles, prDisk'[f] # prDisk[f]
    PROVE  \E i \in DOMAIN panel.rows :
              /\ panel.rows[i].file = f /\ panel.rows[i].change
              /\ Normalized(panel.rows[i].orig) = Normalized(prDisk[f])
              /\ prDisk'[f] = Replaced(panel.rows[i].orig)
<1>1. Accept
  <2>1. ASSUME NEW s \in DOMAIN scans, ScanVisits(s) \/ ScanFlushes(s) \/ CommandReceives(s)
        PROVE  UNCHANGED prDisk
    BY <2>1 DEF ScanVisits, ScanFlushes, CommandReceives, Scan
  <2>2. ASSUME NEW msg \in inbox, HandleMessage(msg) PROVE UNCHANGED prDisk
    BY <2>2 DEF HandleMessage
  <2>3. ASSUME NEW h \in PrFiles, OpenTab(h) \/ TypeInTab(h) \/ SaveTab(h) \/ FileChanges(h)
        PROVE  UNCHANGED panel
    BY <2>3 DEF OpenTab, TypeInTab, SaveTab, FileChanges, Around
  <2>4. ASSUME \/ StartProjectSearch \/ StartProjectReplace \/ StopProjectSearch
               \/ NextField \/ MoveSelection \/ TypeOver \/ StartReview \/ ReviewNext \/ RejectReview
        PROVE  UNCHANGED prDisk
    BY <2>4 DEF StartProjectSearch, StartProjectReplace, StopProjectSearch, NextField,
                MoveSelection, TypeOver, StartReview, ReviewNext, RejectReview, Panel
  <2>5. ASSUME RunProjectSearch \/ RunProjectReplace PROVE UNCHANGED prDisk
    BY <2>5 DEF RunProjectSearch, RunProjectReplace, StartScan
  <2> QED BY <2>1, <2>2, <2>3, <2>4, <2>5 DEF PrNext, Applying
<1>2. PICK gone : Applies(gone)
  BY <1>1, AnswerIs DEF Applying
<1>3. PICK answered : answered = AnsweredRows(gone)
  OBVIOUS
<1>4. prDisk' = AfterSeries(answered) /\ Validates(Range(answered))
  BY <1>2, <1>3 DEF Applies
<1>5. PICK k \in DOMAIN answered : answered[k].file = f /\ prDisk'[f] = Replaced(answered[k].orig)
  <2>1. \E r \in Range(answered) : r.file = f
    BY <1>4 DEF AfterSeries
  <2>2. PICK r \in Range(answered) : r.file = f /\ prDisk'[f] = Replaced(r.orig)
    BY <1>4, <2>1 DEF AfterSeries
  <2>3. \E k \in DOMAIN answered : answered[k] = r
    BY DEF Range
  <2> QED BY <2>2, <2>3
<1>7. k \in DOMAIN gone /\ answered[k] = panel.rows[gone[k]]
  BY <1>3, <1>5 DEF AnsweredRows
<1>8. gone[k] \in DOMAIN panel.rows /\ panel.rows[gone[k]].change
  BY <1>2, <1>7, Answered DEF Applies
<1>9. Normalized(answered[k].orig) = Normalized(prDisk[f])
  BY <1>4, <1>5 DEF Validates, Range
<1> QED BY <1>5, <1>7, <1>8, <1>9

\* The types of the panel, its scans and what they send.
THEOREM PrTypeCorrect == PrSpec => []PrTypeOK
<1>1. PrInv => PrTypeOK
  BY PrInvShows
<1> QED BY <1>1, PrAlways, PTL

\* ReplaceIsReviewed: what the panel lists is of one scan, with no match listed
\* and no file replaced in twice; while Replace in Project has the panel the diff
\* on screen is that of the row an answer applies; and an answer writes what the
\* scan made of files that, white space around them aside, have not changed since.
THEOREM ReplaceCorrect == PrSpec => ReplaceIsReviewed
<1>1. PrInv => PreviewIsOfTheLastScan /\ ReviewIsOfItsRow /\ SelectionInList
  BY PrInvShows
<1>2. PrInv /\ [PrNext]_prVars =>
         [Applying => \A f \in PrFiles : prDisk'[f] # prDisk[f] =>
             \E i \in DOMAIN panel.rows :
                 /\ panel.rows[i].file = f /\ panel.rows[i].change
                 /\ Normalized(panel.rows[i].orig) = Normalized(prDisk[f])
                 /\ prDisk'[f] = Replaced(panel.rows[i].orig)]_prVars
  BY WritesThePreview
<1> QED BY <1>1, <1>2, PrAlways, PTL DEF PrSpec, ReplaceIsReviewed, OnlyThePreviewIsWritten
=============================================================================
