----------------------------- MODULE PatchApply -----------------------------
(***************************************************************************)
(* Applier.Apply (internal/agent/apply.go): a reviewed series of changes   *)
(* is validated as a whole, then written file by file, and rolled back     *)
(* when a write fails.  Every read and write is a step of its own: another *)
(* program may write a file between any two of them.                       *)
(*                                                                         *)
(* Contents are opaque.  What the code does with them is compare two of    *)
(* them after TrimSpace: Trimmed gives the form that is compared.          *)
(***************************************************************************)
EXTENDS Integers, Sequences, FiniteSets

CONSTANTS
    Paths,       \* the files a change may name
    Inside,      \* those within the applier's Root
    Contents,    \* what a file may hold
    Empty,       \* the empty content
    Missing,     \* "no such file"
    Trimmed,     \* normalize: strings.TrimSpace
    Series,      \* the series of changes that are applied
    MaxForeign   \* how many files another program may write during the call

Change == [path : Paths, orig : Contents, new : Contents]

ASSUME InsideAssumption == Inside \subseteq Paths
ASSUME EmptyAssumption == Empty \in Contents
ASSUME MissingAssumption == Missing \notin Contents
ASSUME TrimmedAssumption == Trimmed \in [Contents -> Contents]
ASSUME SeriesAssumption == Series \subseteq Seq(Change)
ASSUME MaxForeignAssumption == MaxForeign \in Nat

VARIABLES
    disk,     \* the files
    series,   \* the argument of Apply
    pc,       \* where Apply is
    index,    \* the loop variable of Validate, Apply and rollback
    done,     \* the files written so far, with what they held
    before,   \* history: the files when Apply was called
    damaged,  \* history: files a failing write or restore left in some state
    foreign   \* history: files another program wrote during the call

vars == <<disk, series, pc, index, done, before, damaged, foreign>>

Files   == [Paths -> Contents \cup {Missing}]
Written == [path : Paths, orig : Contents, created : BOOLEAN]
PCs     == {"validate", "write", "rollback", "applied", "refused", "failed"}

Init ==
    /\ disk \in Files
    /\ series \in Series
    /\ pc = "validate"
    /\ index = 1
    /\ done = <<>>
    /\ before = disk
    /\ damaged = {}
    /\ foreign = {}
-----------------------------------------------------------------------------
\* readCurrent: a missing file reads as the empty content.
Current(files, p) == IF files[p] = Missing THEN Empty ELSE files[p]

\* The change's snapshot is still what the file holds, whitespace aside.
Fresh(files, c) == Trimmed[Current(files, c.path)] = Trimmed[c.orig]

Acceptable_AnyPath(files, c) == Fresh(files, c)

\* What Validate asks of one change.
Acceptable(files, c) == c.path \in Inside /\ Fresh(files, c)

ValidateNext ==
    /\ pc = "validate"
    /\ index <= Len(series)
    /\ Acceptable(disk, series[index])
    /\ index' = index + 1
    /\ UNCHANGED <<disk, series, pc, done, before, damaged, foreign>>

\* A change that is outside the root or stale, or a file that cannot be read.
Refuse ==
    /\ pc = "validate"
    /\ index <= Len(series)
    /\ pc' = "refused"
    /\ UNCHANGED <<disk, series, index, done, before, damaged, foreign>>

ValidateDone ==
    /\ pc = "validate"
    /\ index > Len(series)
    /\ pc' = "write"
    /\ index' = 1
    /\ UNCHANGED <<disk, series, done, before, damaged, foreign>>
-----------------------------------------------------------------------------
\* The loop of Apply.  The content read for the rollback is not compared again.
WriteNext ==
    /\ pc = "write"
    /\ index <= Len(series)
    /\ LET c == series[index] IN
         /\ disk' = [disk EXCEPT ![c.path] = c.new]
         /\ done' = Append(done, [path |-> c.path, orig |-> Current(disk, c.path),
                                  created |-> disk[c.path] = Missing])
    /\ index' = index + 1
    /\ UNCHANGED <<series, pc, before, damaged, foreign>>

WriteDone_Early ==
    /\ pc = "write"
    /\ index >= Len(series)
    /\ pc' = "applied"
    /\ UNCHANGED <<disk, series, index, done, before, damaged, foreign>>

WriteDone ==
    /\ pc = "write"
    /\ index > Len(series)
    /\ pc' = "applied"
    /\ UNCHANGED <<disk, series, index, done, before, damaged, foreign>>

WriteRefused_SkipsLast ==
    /\ pc = "write"
    /\ index <= Len(series)
    /\ pc' = "rollback"
    /\ index' = Len(done) - 1
    /\ UNCHANGED <<disk, series, done, before, damaged, foreign>>

\* The file cannot be read, its directory not made or it cannot be opened.
WriteRefused ==
    /\ pc = "write"
    /\ index <= Len(series)
    /\ pc' = "rollback"
    /\ index' = Len(done)
    /\ UNCHANGED <<disk, series, done, before, damaged, foreign>>

\* os.WriteFile truncated the file and then failed.  The file is not in done:
\* the rollback does not restore it.
WriteTorn(c) ==
    /\ pc = "write"
    /\ index <= Len(series)
    /\ disk' = [disk EXCEPT ![series[index].path] = c]
    /\ damaged' = damaged \cup {series[index].path}
    /\ pc' = "rollback"
    /\ index' = Len(done)
    /\ UNCHANGED <<series, done, before, foreign>>
-----------------------------------------------------------------------------
\* What rollback makes of a file: one the series created is removed.
RestoredContent(w) == IF w.created THEN Missing ELSE w.orig

RestoreNext_Forward ==
    /\ pc = "rollback"
    /\ index >= 1
    /\ LET w == done[Len(done) + 1 - index] IN
         disk' = [disk EXCEPT ![w.path] = RestoredContent(w)]
    /\ index' = index - 1
    /\ UNCHANGED <<series, pc, done, before, damaged, foreign>>

\* The loop of rollback, last write first.
RestoreNext ==
    /\ pc = "rollback"
    /\ index >= 1
    /\ disk' = [disk EXCEPT ![done[index].path] = RestoredContent(done[index])]
    /\ index' = index - 1
    /\ UNCHANGED <<series, pc, done, before, damaged, foreign>>

\* Best effort: the error of a restore is dropped.  A file that could not be
\* removed stays, one that could not be rewritten is left in some state.
RestoreFails(c) ==
    /\ pc = "rollback"
    /\ index >= 1
    /\ LET w == done[index] IN
         /\ c = disk[w.path] \/ ~w.created
         /\ disk' = [disk EXCEPT ![w.path] = c]
         /\ damaged' = damaged \cup {w.path}
    /\ index' = index - 1
    /\ UNCHANGED <<series, pc, done, before, foreign>>

RestoreDone ==
    /\ pc = "rollback"
    /\ index = 0
    /\ pc' = "failed"
    /\ UNCHANGED <<disk, series, index, done, before, damaged, foreign>>
-----------------------------------------------------------------------------
\* Another program writes a file while Apply runs.
Ended == pc \in {"applied", "refused", "failed"}

ForeignWrite(p, c) ==
    /\ ~Ended
    /\ p \notin foreign
    /\ Cardinality(foreign) < MaxForeign
    /\ disk' = [disk EXCEPT ![p] = c]
    /\ foreign' = foreign \cup {p}
    /\ UNCHANGED <<series, pc, index, done, before, damaged>>

Next ==
    \/ ValidateNext \/ Refuse \/ ValidateDone
    \/ WriteNext \/ WriteDone \/ WriteRefused
    \/ RestoreNext \/ RestoreDone
    \/ \E c \in Contents : WriteTorn(c)
    \/ \E c \in Contents \cup {Missing} : RestoreFails(c)
    \/ \E p \in Paths, c \in Contents : ForeignWrite(p, c)

Spec == Init /\ [][Next]_vars
-----------------------------------------------------------------------------
(* Properties.                                                             *)

TypeOK ==
    /\ disk \in Files
    /\ series \in Series
    /\ pc \in PCs
    /\ index \in Nat
    /\ done \in Seq(Written)
    /\ before \in Files
    /\ damaged \subseteq Paths
    /\ foreign \subseteq Paths

\* The files nobody but Apply wrote, and that no write left half done.
Undisturbed == Paths \ (damaged \cup foreign)

\* "None does": after a failed Apply every file is what it was before the call,
\* one the series created is gone, and one that the series wrote twice holds
\* its first content again.
AllOrNothing == pc = "failed" => \A p \in Undisturbed : disk[p] = before[p]

\* Change i is the last one of the first n that writes its file.
IsLast(i, n) == \A j \in (i + 1)..n : series[j].path # series[i].path

\* "Every change lands": after Apply succeeded each file of the series holds the
\* content of the last change that names it, and every other file is untouched.
AppliedInFull ==
    pc = "applied" =>
        /\ \A i \in 1..Len(series) :
             series[i].path \notin foreign /\ IsLast(i, Len(series))
               => disk[series[i].path] = series[i].new
        /\ \A p \in Paths \ foreign :
             (\A i \in 1..Len(series) : series[i].path # p) => disk[p] = before[p]

\* A series with one change that is stale or outside the root is rejected
\* before any write, wherever in the series that change is.
RejectedWritesNothing ==
    (\E i \in 1..Len(series) :
        /\ series[i].path \notin foreign
        /\ series[i].path \notin Inside \/ ~Fresh(before, series[i]))
      => \A p \in Paths \ foreign : disk[p] = before[p]

\* A series of changes is applied in full or not at all.
SeriesIsAtomic == AllOrNothing /\ AppliedInFull /\ RejectedWritesNothing
=============================================================================
