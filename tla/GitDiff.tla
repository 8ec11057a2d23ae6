-------------------------------- MODULE GitDiff --------------------------------
(***************************************************************************)
(* What is made of the difference between a file's committed text and its  *)
(* buffer: the rows of the side by side view and the marks and hunks of    *)
(* the gutter (vcs/git.go, SideBySide and DiffBuffer), the walk over the   *)
(* hunks (editor.go, jumpHunk) and the scrolling of the view               *)
(* (diffview.go).  The difference itself comes from a library: a sequence  *)
(* of runs of lines that are equal, deleted or inserted.                   *)
(***************************************************************************)
EXTENDS Integers, FiniteSetsExt, Removal, SequencesExt

CONSTANTS
    MaxGdRuns, MaxGdRun,  \* bounds of the model: runs of a difference, lines of a run
    GdHeight              \* lines of the view

ASSUME GdAssumption == GdHeight \in Nat \ {0} /\ MaxGdRuns \in Nat /\ MaxGdRun \in Nat

DiffRuns == [type : {"equal", "delete", "insert"}, n : 1..MaxGdRun]

\* As diffmatchpatch leaves them: no run beside its like, deletions first.
CleanedUp(d) == \A i \in 1..(Len(d) - 1) :
                  d[i].type # d[i + 1].type /\ ~(d[i].type = "insert" /\ d[i + 1].type = "delete")
Diffs == {d \in UNION {[1..k -> DiffRuns] : k \in 0..MaxGdRuns} : CleanedUp(d)}

VARIABLES
    gdDiff,    \* the difference of the tab
    gdLine,    \* the caret
    gdScroll,  \* diffOffsetY, when the view is open; -1 when not
    gdFrom     \* the caret before the last jump, and its direction

gdVars == <<gdDiff, gdLine, gdScroll, gdFrom>>

GdInit == gdDiff = <<>> /\ gdLine = 0 /\ gdScroll = -1 /\ gdFrom = <<0, 0>>

\* The lines of the old or the new text, up to each run.
LinesOf(d, types) ==
    LET sum[n \in 0..Len(d)] ==
            IF n = 0 THEN 0 ELSE sum[n - 1] + IF d[n].type \in types THEN d[n].n ELSE 0
    IN sum
OldLinesTo(d) == LinesOf(d, {"equal", "delete"})
NewLinesTo(d) == LinesOf(d, {"equal", "insert"})
OldLines(d) == OldLinesTo(d)[Len(d)]
NewLines(d) == NewLinesTo(d)[Len(d)]
-----------------------------------------------------------------------------
(* SideBySide.                                                             *)

DiffRow(l, r, t) == [left |-> l, right |-> r, type |-> t]

\* flushDel: what is still deleted has no line beside it.
FlushDel(acc) ==
    [acc EXCEPT !.rows = @ \o [k \in 1..acc.del |-> DiffRow(acc.li + k - 1, -1, "deleted")],
                !.li = @ + acc.del, !.del = 0]

EqualRun(acc, n) ==
    LET a == FlushDel(acc)
    IN [a EXCEPT !.rows = @ \o [k \in 1..n |-> DiffRow(a.li + k - 1, a.ri + k - 1, "none")],
                 !.li = @ + n, !.ri = @ + n]

\* The rest of the deletion left to the next run.
InsertRunUnflushed(acc, n) ==
    LET mod  == IF acc.del > n THEN n ELSE acc.del
        pair == [k \in 1..mod |-> DiffRow(acc.li + k - 1, acc.ri + k - 1, "modified")]
        a    == [acc EXCEPT !.rows = @ \o pair, !.li = @ + mod, !.ri = @ + mod, !.del = 0]
    IN [a EXCEPT !.rows = @ \o [k \in 1..(n - mod) |-> DiffRow(-1, a.ri + k - 1, "added")],
                 !.ri = @ + n - mod]

\* An insertion after a deletion pairs as many lines as both have.
InsertRun(acc, n) ==
    LET mod  == IF acc.del > n THEN n ELSE acc.del
        pair == [k \in 1..mod |-> DiffRow(acc.li + k - 1, acc.ri + k - 1, "modified")]
        a    == FlushDel([acc EXCEPT !.rows = @ \o pair, !.li = @ + mod, !.ri = @ + mod,
                                     !.del = @ - mod])
    IN [a EXCEPT !.rows = @ \o [k \in 1..(n - mod) |-> DiffRow(-1, a.ri + k - 1, "added")],
                 !.ri = @ + n - mod]

ShowRun(acc, r) ==
    CASE r.type = "equal"  -> EqualRun(acc, r.n)
      [] r.type = "delete" -> [acc EXCEPT !.del = @ + r.n]
      [] r.type = "insert" -> InsertRun(acc, r.n)

SideBySide(d) ==
    LET shown[n \in 0..Len(d)] ==
            IF n = 0 THEN [rows |-> <<>>, li |-> 0, ri |-> 0, del |-> 0]
            ELSE ShowRun(shown[n - 1], d[n])
    IN FlushDel(shown[Len(d)]).rows
-----------------------------------------------------------------------------
(* DiffBuffer: a mark for every line of the buffer, and the hunks.         *)

MarkRun(acc, r) ==
    CASE r.type = "equal"  -> [marks |-> acc.marks \o [k \in 1..r.n |-> "none"], del |-> FALSE]
      [] r.type = "delete" -> [acc EXCEPT !.del = TRUE]
      [] r.type = "insert" ->
           [marks |-> acc.marks \o [k \in 1..r.n |-> IF acc.del THEN "modified" ELSE "added"],
            del |-> FALSE]

Marks(d) ==
    LET marked[n \in 0..Len(d)] ==
            IF n = 0 THEN [marks |-> <<>>, del |-> FALSE] ELSE MarkRun(marked[n - 1], d[n])
    IN marked[Len(d)].marks

Hunk(s, e, t) == [start |-> s, end |-> e, type |-> t]

CloseHunkOnTheLine(acc, i) ==
    IF acc.type = "none" THEN acc
    ELSE [acc EXCEPT !.hunks = Append(@, Hunk(acc.start, i, acc.type)), !.type = "none"]

CloseHunkOfAny(acc, i) ==
    [acc EXCEPT !.hunks = Append(@, Hunk(acc.start, i - 1, acc.type)), !.type = "none"]

\* An open hunk ends before a line of another mark.
CloseHunk(acc, i) ==
    IF acc.type = "none" THEN acc
    ELSE [acc EXCEPT !.hunks = Append(@, Hunk(acc.start, i - 1, acc.type)), !.type = "none"]

HunkLine(acc, i, mark) ==
    IF mark = acc.type THEN acc
    ELSE [CloseHunk(acc, i) EXCEPT !.type = mark, !.start = i]

Hunks(d) ==
    LET marks == Marks(d)
        cut[n \in 0..Len(marks)] ==
            IF n = 0 THEN [hunks |-> <<>>, start |-> 0, type |-> "none"]
            ELSE HunkLine(cut[n - 1], n - 1, marks[n])
    IN CloseHunk(cut[Len(marks)], Len(marks)).hunks
-----------------------------------------------------------------------------
(* A file is opened or changed; the keys of the gutter and of the view.    *)

OpenDiffed ==
    /\ gdDiff = <<>> /\ gdScroll = -1 /\ gdDiff' \in Diffs \ {<<>>}
    /\ gdLine' \in 0..NewLines(gdDiff') /\ gdFrom' = <<gdLine', 0>> /\ UNCHANGED gdScroll

NextHunkOrHere(hs, line) ==
    LET ahead == {i \in DOMAIN hs : hs[i].start >= line}
    IN hs[IF ahead # {} THEN Min(ahead) ELSE 1]
NextHunk(hs, line) ==
    LET ahead == {i \in DOMAIN hs : hs[i].start > line}
    IN hs[IF ahead # {} THEN Min(ahead) ELSE 1]
PrevHunk(hs, line) ==
    LET behind == {i \in DOMAIN hs : hs[i].start < line}
    IN hs[IF behind # {} THEN Max(behind) ELSE Len(hs)]

JumpHunk(dir) ==
    LET hs == Hunks(gdDiff)
    IN /\ gdScroll = -1 /\ hs # <<>>
       /\ gdLine' = (IF dir = 1 THEN NextHunk(hs, gdLine) ELSE PrevHunk(hs, gdLine)).start
       /\ gdFrom' = <<gdLine, dir>> /\ UNCHANGED <<gdDiff, gdScroll>>

OpenDiffView  == gdScroll = -1 /\ gdScroll' = 0 /\ UNCHANGED <<gdDiff, gdLine, gdFrom>>
CloseDiffView == gdScroll # -1 /\ gdScroll' = -1 /\ UNCHANGED <<gdDiff, gdLine, gdFrom>>

\* clampDiffScroll.
ClampDiffScrollToTheRows(y) ==
    LET last == Len(SideBySide(gdDiff)) IN IF y < 0 THEN 0 ELSE IF y > last THEN last ELSE y
ClampDiffScroll(y) ==
    LET rows == Len(SideBySide(gdDiff))
        last == IF rows > GdHeight THEN rows - GdHeight ELSE 0
    IN IF y > last THEN last ELSE IF y < 0 THEN 0 ELSE y

\* up, down, pgup, pgdown, home and end.
ScrollDiff ==
    /\ gdScroll # -1
    /\ \E y \in {gdScroll + d : d \in {-1, 1, -GdHeight, GdHeight}} \cup {0, Len(SideBySide(gdDiff))} :
           gdScroll' = ClampDiffScroll(y)
    /\ UNCHANGED <<gdDiff, gdLine, gdFrom>>

GdNext ==
    \/ OpenDiffed \/ OpenDiffView \/ CloseDiffView \/ ScrollDiff
    \/ \E dir \in {-1, 1} : JumpHunk(dir)

GdSpec == GdInit /\ [][GdNext]_gdVars
-----------------------------------------------------------------------------
GdTypeOK ==
    /\ CleanedUp(gdDiff) /\ gdLine \in 0..NewLines(gdDiff) /\ gdScroll \in Int
    /\ \A i \in DOMAIN Hunks(gdDiff) : Hunks(gdDiff)[i].type \in {"added", "modified"}

\* The lines of each side of the view, in the order of its rows.
Lefts(rows)  == Without([i \in DOMAIN rows |-> rows[i].left], {-1})
Rights(rows) == Without([i \in DOMAIN rows |-> rows[i].right], {-1})

\* The pairs of lines that an equal run says are the same.
SameLines(d) ==
    UNION {{<<OldLinesTo(d)[i - 1] + k, NewLinesTo(d)[i - 1] + k>> : k \in 0..(d[i].n - 1)} :
           i \in {j \in DOMAIN d : d[j].type = "equal"}}

\* Each side of the view is its text: all its lines, once, in order; and two
\* lines stand beside each other as the same exactly where the texts agree
\* (vcs.SideBySide).
RowsShowBothTexts ==
    LET rows == SideBySide(gdDiff)
    IN /\ Lefts(rows)  = [i \in 1..OldLines(gdDiff) |-> i - 1]
       /\ Rights(rows) = [i \in 1..NewLines(gdDiff) |-> i - 1]
       /\ {<<rows[i].left, rows[i].right>> : i \in {j \in DOMAIN rows : rows[j].type = "none"}} =
              SameLines(gdDiff)
       /\ \A i \in DOMAIN rows : rows[i].left >= 0 \/ rows[i].right >= 0

\* The hunks are the longest runs of lines of one mark: they hold every marked
\* line and no other, and hunks that touch differ in kind (vcs.DiffBuffer).
HunksAreTheMarkedRuns ==
    LET marks == Marks(gdDiff)
        hs    == Hunks(gdDiff)
    IN /\ Len(marks) = NewLines(gdDiff)
       /\ \A l \in 0..(Len(marks) - 1) :
              marks[l + 1] # "none" <=> \E i \in DOMAIN hs : hs[i].start <= l /\ l <= hs[i].end
       /\ \A i \in DOMAIN hs :
              /\ \A l \in hs[i].start..hs[i].end : l < Len(marks) /\ marks[l + 1] = hs[i].type
              /\ i > 1 => hs[i].start > hs[i - 1].end
              /\ i > 1 /\ hs[i].start = hs[i - 1].end + 1 => hs[i].type # hs[i - 1].type

\* A jump reaches the nearest hunk in its direction, and only past the last one
\* comes back to the first (jumpHunk).
JumpFindsTheNearest ==
    gdFrom[2] # 0 /\ gdScroll = -1 =>
        LET starts == {Hunks(gdDiff)[i].start : i \in DOMAIN Hunks(gdDiff)}
            beyond == {s \in starts : IF gdFrom[2] = 1 THEN s > gdFrom[1] ELSE s < gdFrom[1]}
        IN gdLine \in starts /\ (beyond # {} => gdLine \in beyond /\
               \A s \in beyond : IF gdFrom[2] = 1 THEN gdLine <= s ELSE gdLine >= s)

\* The view is never scrolled past its text while it could show a full page of
\* it (clampDiffScroll).
ViewIsFilled ==
    gdScroll # -1 =>
        gdScroll = 0 \/ (gdScroll > 0 /\ gdScroll + GdHeight <= Len(SideBySide(gdDiff)))

\* The two sides show both texts, the hunks are where they differ, the jumps find
\* them and the view is filled.
DiffIsShown == RowsShowBothTexts /\ HunksAreTheMarkedRuns /\ JumpFindsTheNearest /\ ViewIsFilled
=============================================================================
