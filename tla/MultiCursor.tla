---------------------------- MODULE MultiCursor ----------------------------
(***************************************************************************)
(* Several cursors and the column block of one buffer                      *)
(* (internal/buffer/multicursor.go, column.go, editor/column.go).          *)
(*                                                                         *)
(* A line is a sequence of marks: Typed for a rune these operations put    *)
(* in, Blank for one that belongs to no word, any other mark for a rune of *)
(* the text the buffer was loaded with.  Lines and columns count from 0.   *)
(* Undo snapshots are left to EditBuffer; edits step only while every      *)
(* cursor stands in the text, the code panics or reads stale runes where   *)
(* one does not (CaretsStayInText says when that happens).                 *)
(***************************************************************************)
EXTENDS Integers, SequencesExt

CONSTANTS
    McTexts,      \* the texts a buffer is loaded with
    MaxMcSteps,   \* operations on one load of the buffer, for the bound
    MaxMcCursors, \* secondary cursors, for the bound
    MaxMcCol      \* the widest block corner, for the bound

Typed == 0
Blank == 9
NewRow == 10

ASSUME McTextsAssumption == McTexts \subseteq Seq(Seq(Nat)) \ {<<>>}

VARIABLES
    mText,        \* the text
    mLine, mCol,  \* the main caret
    mGoal,        \* goalCol
    mSel, mAnchor, \* hasSelection; selLine and selCol, which outlive it
    mBlock,       \* colSel
    mExtra,       \* cursors
    mWord,        \* word
    mClip,        \* the lines of a block in the clipboard, <<>> unless clipboardBlock
    mOp, mSteps   \* the last operation and how many there were, for properties and bound

mcVars == <<mText, mLine, mCol, mGoal, mSel, mAnchor, mBlock, mExtra, mWord, mClip, mOp, mSteps>>

Row(l)     == mText[l + 1]
Rows       == 0..(Len(mText) - 1)
Slice(s, f, t) == SubSeq(s, f + 1, t)
At(l, c, f, t) == [line |-> l, col |-> c, from |-> f, to |-> t]
Spot(l, c) == At(l, c, c, c)

McInit ==
    /\ mText \in McTexts
    /\ mLine = 0 /\ mCol = 0 /\ mGoal = 0
    /\ mSel = FALSE /\ mAnchor = <<0, 0>> /\ mBlock = FALSE
    /\ mExtra = <<>> /\ mWord = <<>> /\ mClip = <<>>
    /\ mOp = "load" /\ mSteps = 0

Does(op) == mSteps < MaxMcSteps /\ mSteps' = mSteps + 1 /\ mOp' = op
-----------------------------------------------------------------------------
(* Selections and points.                                                  *)

McSelected == mSel /\ mAnchor # <<mLine, mCol>>

\* The main cursor's own selection: SelectionRange when it lies on one line.
MainPoint ==
    IF mSel /\ mAnchor[1] = mLine
    THEN At(mLine, mCol, Min({mAnchor[2], mCol}), Max({mAnchor[2], mCol}))
    ELSE Spot(mLine, mCol)

AllPoints == <<MainPoint>> \o
    [i \in DOMAIN mExtra |->
        IF mExtra[i].from # mExtra[i].to THEN mExtra[i] ELSE Spot(mExtra[i].line, mExtra[i].col)]

McInText(p) == p.line \in Rows /\ 0 <= p.from /\ p.from <= p.to /\ p.to <= Len(Row(p.line))
Valid == \A i \in DOMAIN AllPoints : McInText(AllPoints[i]) /\ AllPoints[i].col <= Len(Row(AllPoints[i].line))

\* SetCursor: clamped, and the linear selection is gone; colSel stays.
Clamped(l, c, t) ==
    LET ln == Max({0, Min({l, Len(t) - 1})})
    IN Spot(ln, Max({0, Min({c, Len(t[ln + 1])})}))

\* setFromPoints: the first point is the main cursor and only it is clamped.
SetFromPoints(pts, t) ==
    LET main == Clamped(pts[1].line, pts[1].col, t)
        Add(acc, p) ==
            IF \E i \in DOMAIN acc : acc[i].line = p.line /\ acc[i].col = p.col
            THEN acc ELSE Append(acc, p)
        all  == FoldLeft(Add, <<main>>, Tail(pts))
    IN /\ mLine' = main.line /\ mCol' = main.col /\ mGoal' = main.col
       /\ mSel' = FALSE /\ mBlock' = FALSE /\ UNCHANGED mAnchor
       /\ mExtra' = Tail(all)
-----------------------------------------------------------------------------
(* The splice every edit shares.                                           *)

Edit(l, f, t, ins, cl, cc) == [line |-> l, from |-> f, to |-> t, ins |-> ins, cl |-> cl, cc |-> cc]

InsertEditsBesideSelections(pts, ins) ==
    [i \in DOMAIN pts |->
        Edit(pts[i].line, pts[i].from, pts[i].from, ins,
             pts[i].line + Len(ins) - 1, pts[i].from + Len(Last(ins)))]

\* buildInsertEdits: a caret is placed behind the last line of its own insertion.
InsertEdits(pts, ins) ==
    [i \in DOMAIN pts |->
        Edit(pts[i].line, pts[i].from, pts[i].to, ins,
             pts[i].line + Len(ins) - 1, pts[i].from + Len(Last(ins)))]

\* One line of applyNoSplit: the edits by their left ends, those of equal ends
\* in list order; an insertion of several lines is joined into the row.
SpliceRow(row, es) ==
    LET order == SetToSortSeq(DOMAIN es,
                     LAMBDA i, j : es[i].from < es[j].from \/ (es[i].from = es[j].from /\ i < j))
        Step(acc, i) ==
            LET from == Max({es[i].from, acc.pos})
            IN [out |-> acc.out \o Slice(row, acc.pos, from) \o FlattenSeq(es[i].ins), pos |-> es[i].to]
        end == FoldLeft(Step, [out |-> <<>>, pos |-> 0], order)
    IN end.out \o Slice(row, end.pos, Len(row))

\* applyNoSplit's text.  Its corrected carets stay in the copies it sorted: what
\* it returns are the carets the edits came with.
SpliceAll(t, es) ==
    [l \in DOMAIN t |-> SpliceRow(t[l], SelectSeq(es, LAMBDA e : e.line = l - 1))]
EditCaretsOfTheMain(es) == [i \in DOMAIN es |-> Spot(es[i].cl, es[1].cc)]
EditCarets(es) == [i \in DOMAIN es |-> Spot(es[i].cl, es[i].cc)]

McSplice(op, es) ==
    /\ Valid /\ Does(op)
    /\ mText' = SpliceAll(mText, es)
    /\ SetFromPoints(EditCarets(es), mText')
    /\ UNCHANGED <<mWord, mClip>>
-----------------------------------------------------------------------------
(* The multi-cursor edits.                                                 *)

\* MultiInsertText with one or two lines of typed runes.
MultiInsertText ==
    /\ mExtra # <<>>
    /\ \E ins \in {<<<<Typed>>>>, <<<<Typed>>, <<>>>>} :
           McSplice(IF Len(ins) = 1 THEN "type" ELSE "paste", InsertEdits(AllPoints, ins))

\* One split of MultiNewline: what is selected stays on the new line.
SplitAt(t, p) ==
    SubSeq(t, 1, p.line)
    \o <<Slice(t[p.line + 1], 0, p.from), Slice(t[p.line + 1], p.from, Len(t[p.line + 1]))>>
    \o SubSeq(t, p.line + 2, Len(t))

\* From the last point back; a caret does not hear of the splits above it.  It panics where an
\* earlier split of the line left less than the next one slices.
MultiNewline ==
    /\ mExtra # <<>> /\ Valid /\ Does("newline")
    /\ LET order == SetToSortSeq(DOMAIN AllPoints, LAMBDA i, j :
               LET p == AllPoints[i]  q == AllPoints[j]
               IN p.line > q.line \/ (p.line = q.line /\ (p.col > q.col \/ (p.col = q.col /\ i < j))))
       IN /\ \A i, j \in DOMAIN order :
                 LET p == AllPoints[order[i]]  q == AllPoints[order[j]]
                 IN i < j /\ p.line = q.line => q.from <= p.from
          /\ mText' = FoldLeft(LAMBDA t, i : SplitAt(t, AllPoints[i]), mText, order)
          /\ SetFromPoints([i \in DOMAIN AllPoints |-> Spot(AllPoints[i].line + 1, 0)], mText')
    /\ UNCHANGED <<mWord, mClip>>

Join(t, l) ==
    SubSeq(t, 1, l) \o <<t[l + 1] \o t[l + 2]>> \o SubSeq(t, l + 3, Len(t))

\* Backspace joins a line at its start to the one above, Delete at its end to the one below.
BackspaceOf(p) ==
    IF p.from # p.to THEN {Edit(p.line, p.from, p.to, <<>>, p.line, p.from)}
    ELSE IF p.col > 0 THEN {Edit(p.line, p.col - 1, p.col, <<>>, p.line, p.col - 1)} ELSE {}
DeleteOf(p) ==
    IF p.from # p.to THEN {Edit(p.line, p.from, p.to, <<>>, p.line, p.from)}
    ELSE IF p.col < Len(Row(p.line)) THEN {Edit(p.line, p.col, p.col + 1, <<>>, p.line, p.col)} ELSE {}

EditsOf(pts, Of(_)) ==
    FlattenSeq([i \in DOMAIN pts |-> SetToSeq(Of(pts[i]))])

McBackspaceJoins(p) == p.line > 0
DeleteJoins(p)    == p.line < Len(mText) - 1

\* The joins run in list order from the last, each at the line it had before the
\* others; without one edit among them nothing is joined at all.
MultiRemove(op, Of(_), Joins(_), up) ==
    /\ mExtra # <<>> /\ Valid /\ Does(op)
    /\ LET pts   == AllPoints
           es    == EditsOf(pts, Of)
           stay  == SelectSeq(pts, LAMBDA p : Of(p) # {} \/ Joins(p))
           out   == [i \in DOMAIN stay |->
                        IF Of(stay[i]) # {} THEN LET e == CHOOSE e \in Of(stay[i]) : TRUE IN Spot(e.cl, e.cc)
                        ELSE Spot(stay[i].line, IF up THEN 0 ELSE Len(Row(stay[i].line)))]
           joins == SelectSeq(pts, LAMBDA p : Of(p) = {} /\ Joins(p))
           JoinStep(acc, p) ==
               LET l == IF up THEN p.line - 1 ELSE p.line
               IN IF l >= Len(acc.t) - 1 THEN acc
                  ELSE [t |-> Join(acc.t, l),
                        c |-> [i \in DOMAIN acc.c |->
                                  IF up /\ acc.c[i].line = p.line
                                  THEN Spot(l, Len(acc.t[l + 1])) ELSE acc.c[i]]]
           end   == FoldLeft(JoinStep, [t |-> SpliceAll(mText, es), c |-> out], Reverse(joins))
       IN IF es = <<>>
          THEN mText' = mText /\ SetFromPoints(pts, mText)
          ELSE mText' = end.t /\ SetFromPoints(end.c, end.t)
    /\ UNCHANGED <<mWord, mClip>>

MultiBackspace == MultiRemove("backspace", BackspaceOf, McBackspaceJoins, TRUE)
MultiDelete    == MultiRemove("delete", DeleteOf, DeleteJoins, FALSE)
-----------------------------------------------------------------------------
(* Adding and moving cursors.                                              *)

Standing(l, c) == (l = mLine /\ c = mCol) \/ \E i \in DOMAIN mExtra : mExtra[i].line = l /\ mExtra[i].col = c

AddCursor(l, c, f, t) ==
    mExtra' = IF Standing(l, c) THEN mExtra ELSE Append(mExtra, At(l, c, f, t))

\* Alt and a click.
ClickAdds ==
    /\ Len(mExtra) < MaxMcCursors /\ Does("add")
    /\ \E l \in Rows : \E c \in 0..Len(Row(l)) : AddCursor(l, c, c, c)
    /\ UNCHANGED <<mText, mLine, mCol, mGoal, mSel, mAnchor, mBlock, mWord, mClip>>

IsWord(r) == r # Blank
WordAt(l, c) ==
    LET row   == Row(l)
        froms == {f \in 0..c : \A k \in f + 1..c : IsWord(row[k])}
        tos   == {t \in c..Len(row) : \A k \in c + 1..t : IsWord(row[k])}
    IN <<Min(froms), Max(tos)>>

\* NextOccurrence: the first place after (l, c) where the runes are the word's.
NextOccurrence(l, c) ==
    LET hits == {p \in Rows \X (0..MaxMcCol) :
                    /\ p[2] + Len(mWord) <= Len(Row(p[1]))
                    /\ Slice(Row(p[1]), p[2], p[2] + Len(mWord)) = mWord
                    /\ p[1] > l \/ (p[1] = l /\ p[2] > c)}
    IN {p \in hits : \A q \in hits : p[1] < q[1] \/ (p[1] = q[1] /\ p[2] <= q[2])}

\* Alt+D: the word under the caret first, then one more of its occurrences.
SelectWord ==
    /\ mWord = <<>> /\ Valid /\ Does("word")
    /\ LET w == WordAt(mLine, mCol)
       IN /\ w[1] # w[2]
          /\ mWord' = Slice(Row(mLine), w[1], w[2])
          /\ mSel' = TRUE /\ mAnchor' = <<mLine, w[1]>> /\ mCol' = w[2]
    /\ mBlock' = FALSE
    /\ UNCHANGED <<mText, mLine, mGoal, mExtra, mClip>>

AddNextOccurrence ==
    /\ mWord # <<>> /\ Valid /\ Len(mExtra) < MaxMcCursors /\ Does("add")
    /\ LET last   == IF mExtra = <<>> THEN <<mLine, mCol>> ELSE <<Last(mExtra).line, Last(mExtra).col>>
           Taken(p) == Standing(p[1], p[2]) \/ p = mAnchor
           ahead  == NextOccurrence(last[1], last[2])
           free   == {p \in ahead : ~Taken(p)}
           beyond == UNION {NextOccurrence(p[1], p[2]) : p \in ahead}
           found  == CASE free # {} -> free
                       [] ahead # {} /\ {p \in beyond : ~Taken(p)} # {} -> beyond
                       [] OTHER -> {p \in NextOccurrence(0, -1) : ~Taken(p)}
       IN \E p \in found :
              LET w == WordAt(p[1], p[2]) IN AddCursor(p[1], w[2], w[1], w[2])
    /\ mBlock' = FALSE
    /\ UNCHANGED <<mText, mLine, mCol, mGoal, mSel, mAnchor, mWord, mClip>>

ClearCursors ==
    /\ mExtra # <<>> \/ mWord # <<>>
    /\ mExtra' = <<>> /\ mWord' = <<>> /\ Does("clear")
    /\ UNCHANGED <<mText, mLine, mCol, mGoal, mSel, mAnchor, mBlock, mClip>>

LeftOfTheLine(c) == IF c.col = 0 /\ c.line > 0 THEN <<c.line - 1, Len(Row(c.line - 1))>>
                    ELSE <<c.line, c.col - 1>>

\* MoveAllLeft, MoveAllRight, MoveAllUp, MoveAllDown: the same step of every cursor.
Left(c)  == IF c.col > 0 THEN <<c.line, c.col - 1>>
            ELSE IF c.line > 0 THEN <<c.line - 1, Len(Row(c.line - 1))>> ELSE <<c.line, c.col>>
Right(c) == IF c.col < Len(Row(c.line)) THEN <<c.line, c.col + 1>>
            ELSE IF c.line < Len(mText) - 1 THEN <<c.line + 1, 0>> ELSE <<c.line, c.col>>
Over(c, d) == IF c.line + d \in Rows
              THEN <<c.line + d, Min({c.col, Len(Row(c.line + d))})>> ELSE <<c.line, c.col>>

MoveAll ==
    /\ mExtra # <<>> /\ Valid /\ Does("move")
    /\ \E way \in {"left", "right", "up", "down"} :
           LET To(c, goal) == CASE way = "left" -> Left(c) [] way = "right" -> Right(c)
                                [] way = "up" -> Over([c EXCEPT !.col = goal], -1)
                                [] way = "down" -> Over([c EXCEPT !.col = goal], 1)
               edge == (way = "up" /\ mLine = 0) \/ (way = "down" /\ mLine = Len(mText) - 1)
               main == IF edge THEN <<mLine, mCol>> ELSE To(Spot(mLine, mCol), mGoal)
           IN /\ mExtra' = [i \in DOMAIN mExtra |->
                                LET p == To(mExtra[i], mExtra[i].col) IN Spot(p[1], p[2])]
              /\ mLine' = main[1] /\ mCol' = main[2]
              /\ mGoal' = IF way \in {"left", "right"} THEN main[2] ELSE mGoal
    /\ mSel' = FALSE
    /\ UNCHANGED <<mText, mAnchor, mBlock, mWord, mClip>>

\* A plain click: the main caret moves, the other cursors stay.
PlaceCaret ==
    /\ Does("click")
    /\ \E l \in Rows : \E c \in 0..Len(Row(l)) : mLine' = l /\ mCol' = c /\ mGoal' = c
    /\ mSel' = FALSE /\ mBlock' = FALSE
    /\ UNCHANGED <<mText, mAnchor, mExtra, mWord, mClip>>
-----------------------------------------------------------------------------
(* The column block: the corners are the anchor and (mLine, mGoal).        *)

IsBlock    == McSelected /\ mBlock
BlockRows  == Min({mAnchor[1], mLine})..Max({mAnchor[1], mLine})

CellUnclamped(l) == <<Min({mAnchor[2], mGoal}), Max({mAnchor[2], mGoal})>>

\* columnCellAt: what the block holds of a row, clamped to it.
Cell(l) ==
    LET lo == Min({mAnchor[2], mGoal})
        hi == Max({mAnchor[2], mGoal})
        n  == Len(Row(l))
    IN IF lo >= n THEN <<n, n>> ELSE <<lo, Min({hi, n})>>

BlockPoints ==
    LET lo == Min(BlockRows)
    IN [i \in 1..Cardinality(BlockRows) |->
           LET c == Cell(lo + i - 1) IN At(lo + i - 1, c[2], c[1], c[2])]

\* The end of GrowColumn and GrowColumnTo: a corner on the anchor ends the block.
Grown(l, goal, anchor) ==
    LET col  == Min({goal, Len(Row(l))})
        none == anchor = <<l, col>>
    IN /\ mLine' = l /\ mGoal' = goal /\ mCol' = col
       /\ mAnchor' = anchor /\ mSel' = ~none /\ mBlock' = ~none

\* A press of Ctrl+Alt+Shift and an arrow.
GrowColumn ==
    /\ mExtra = <<>> /\ Does("block")
    /\ \E d \in {<<-1, 0>>, <<1, 0>>, <<0, -1>>, <<0, 1>>} :
           LET anchor == IF mSel THEN mAnchor ELSE <<mLine, mCol>>
               goal0  == IF mBlock THEN mGoal
                         ELSE IF mSel THEN Max({mGoal, mCol}) ELSE mCol
               goal   == Max({0, goal0 + d[2]})
           IN /\ goal <= MaxMcCol
              /\ IF mLine + d[1] \in Rows THEN Grown(mLine + d[1], goal, anchor)
                 ELSE Grown(mLine, goal, anchor)
    /\ UNCHANGED <<mText, mExtra, mWord, mClip>>

\* The drag with Shift re-aims the corner.
GrowColumnTo ==
    /\ mExtra = <<>> /\ Does("block")
    /\ \E l \in Rows, c \in 0..MaxMcCol :
           /\ mBlock \/ <<l, c>> # <<mLine, mCol>>
           /\ Grown(l, c, IF mBlock THEN mAnchor ELSE <<mLine, mCol>>)
    /\ UNCHANGED <<mText, mExtra, mWord, mClip>>

\* Typing into a block, one text for all rows or a line for each.
InsertColumnText ==
    /\ IsBlock /\ mExtra = <<>>
    /\ \E ins \in {<<<<Typed>>>>, <<<<Typed>>, <<Typed, Typed>>>>} :
           LET pts == BlockPoints
               n   == IF Len(ins) = 1 THEN Len(pts) ELSE Min({Len(pts), Len(ins)})
               Line(i) == IF Len(ins) = 1 THEN ins[1] ELSE ins[i]
           IN McSplice("column", [i \in 1..n |->
                  Edit(pts[i].line, pts[i].from, pts[i].to, <<Line(i)>>,
                       pts[i].line, pts[i].from + Len(Line(i)))])

\* ColumnBackspace and ColumnDelete: the cells, or the rune next to an empty one.
ColumnRemove ==
    /\ IsBlock /\ mExtra = <<>>
    /\ \E Of \in {"backspace", "delete"} :
           LET es == IF Of = "backspace" THEN EditsOf(BlockPoints, BackspaceOf)
                                         ELSE EditsOf(BlockPoints, DeleteOf)
           IN es # <<>> /\ McSplice("column", es)

\* Enter in a block splits every row at its cell.
EnterColumn ==
    /\ IsBlock /\ mExtra = <<>> /\ Valid /\ Does("newline")
    /\ LET pts == BlockPoints
           Split(t, p) ==
               SubSeq(t, 1, p.line)
               \o <<Slice(t[p.line + 1], 0, p.from), Slice(t[p.line + 1], p.to, Len(t[p.line + 1]))>>
               \o SubSeq(t, p.line + 2, Len(t))
       IN /\ mText' = FoldLeft(Split, mText, Reverse(pts))
          /\ SetFromPoints([i \in DOMAIN pts |-> Spot(pts[i].line + 1, 0)], mText')
    /\ UNCHANGED <<mWord, mClip>>

\* copySelection of a block, and its paste: a line for each row from the caret's.
CopyBlock ==
    /\ IsBlock /\ mExtra = <<>> /\ mClip = <<>> /\ Does("copy")
    /\ mClip' = [i \in DOMAIN BlockPoints |->
                    Slice(Row(BlockPoints[i].line), BlockPoints[i].from, BlockPoints[i].to)]
    /\ UNCHANGED <<mText, mLine, mCol, mGoal, mSel, mAnchor, mBlock, mExtra, mWord>>

PasteBlock ==
    /\ mClip # <<>> /\ FlattenSeq(mClip) # <<>>
    /\ LET n == Min({Len(mClip), Len(mText) - mLine})
           Col(i) == Min({mCol, Len(Row(mLine + i - 1))})
       IN McSplice("unfold", [i \in 1..n |->
              Edit(mLine + i - 1, Col(i), Col(i), <<mClip[i]>>, mLine + i - 1, Col(i) + Len(mClip[i]))])

\* The file is read again: a new buffer, with one caret at its start (and, for the bound,
\* a clipboard that was filled elsewhere).
Reopen ==
    /\ mSteps > 0
    /\ mText' \in McTexts
    /\ mLine' = 0 /\ mCol' = 0 /\ mGoal' = 0
    /\ mSel' = FALSE /\ mAnchor' = <<0, 0>> /\ mBlock' = FALSE
    /\ mExtra' = <<>> /\ mWord' = <<>> /\ mClip' = <<>>
    /\ mOp' = "load" /\ mSteps' = 0

McNext ==
    \/ MultiInsertText \/ MultiNewline \/ MultiBackspace \/ MultiDelete
    \/ ClickAdds \/ SelectWord \/ AddNextOccurrence \/ ClearCursors
    \/ MoveAll \/ PlaceCaret
    \/ GrowColumn \/ GrowColumnTo \/ InsertColumnText \/ ColumnRemove
    \/ EnterColumn \/ CopyBlock \/ PasteBlock \/ Reopen

McSpec == McInit /\ [][McNext]_mcVars
-----------------------------------------------------------------------------
McTypeOK ==
    /\ mText \in Seq(Seq(Nat)) \ {<<>>}
    /\ {mLine, mCol, mGoal} \subseteq Nat /\ mBlock \in BOOLEAN
    /\ mExtra \in Seq([line : Nat, col : Nat, from : Nat, to : Nat])

\* What an operation takes away at a point, and whether that is in the point's line.
CutOut(op, p) ==
    IF op \in {"type", "newline"} \/ p.from # p.to THEN <<p.from, p.to>>
    ELSE IF op = "backspace" THEN <<p.col - 1, p.col>> ELSE <<p.col, p.col + 1>>
InTheLine(op, p) ==
    /\ 0 <= CutOut(op, p)[1] /\ CutOut(op, p)[2] <= Len(Row(p.line))
    /\ op = "newline" => mExtra # <<>> /\ p.from = p.to

\* No point ends before one of its line that the splice has passed: neither a cursor inside the
\* selection of another, nor one at its left end that is listed after it.
NoneFallsBack(op) == \A i, j \in DOMAIN AllPoints :
    LET p == CutOut(op, AllPoints[i])  q == CutOut(op, AllPoints[j])
    IN AllPoints[i].line = AllPoints[j].line /\ (p[1] < q[1] \/ (p[1] = q[1] /\ i < j)) => p[2] <= q[2]

\* A line after an operation at all its points at once, without an order of the points: every
\* rune none takes away stays, and before the k-th one stands what the points there put in.
Together(op, l) ==
    LET row  == Row(l)
        here == {i \in DOMAIN AllPoints : AllPoints[i].line = l}
        Puts == CASE op = "type" -> <<Typed>> [] op = "newline" -> <<NewRow>> [] OTHER -> <<>>
        New(k)  == FlattenSeq([i \in 1..Cardinality({j \in here : AllPoints[j].from = k}) |-> Puts])
        Kept(k) == IF k < Len(row) /\ \A j \in here : k \notin CutOut(op, AllPoints[j])[1]..CutOut(op, AllPoints[j])[2] - 1
                   THEN <<row[k + 1]>> ELSE <<>>
    IN FlattenSeq([k \in 1..Len(row) + 1 |-> New(k - 1) \o Kept(k - 1)])

Flattened(rows) == FlattenSeq([l \in DOMAIN rows |-> Append(rows[l], NewRow)])

\* Typing, Backspace, Delete and Enter with several cursors are one simultaneous edit of the
\* text: the order the points are listed in and the splices of one line do not show. Left out:
\* an operation that joins lines, Enter over a selection, and a point that falls back.
EditsAreSimultaneous ==
    [][(/\ mOp' \in {"type", "backspace", "delete", "newline"} /\ mSteps' # mSteps
        /\ \A i \in DOMAIN AllPoints : InTheLine(mOp', AllPoints[i])
        /\ NoneFallsBack(mOp')) =>
          Flattened(mText') = Flattened([l \in DOMAIN mText |-> Together(mOp', l - 1)])]_mcVars

\* What the code does not give: typing is simultaneous wherever the cursors stand. A cursor
\* that falls back brings the replaced word back into the text.
TypingIsSimultaneous ==
    [][mOp' = "type" /\ mSteps' # mSteps =>
          mText' = [l \in DOMAIN mText |-> Together("type", l - 1)]]_mcVars

\* When no two points share a line every cursor ends right behind what was typed at it, and
\* nobody loses a cursor (applyNoSplit, setFromPoints).
CaretsFollowTheirText ==
    [][(mOp' = "type" /\ mSteps' # mSteps
        /\ \A i, j \in DOMAIN AllPoints : i # j => AllPoints[i].line # AllPoints[j].line) =>
          /\ Len(mExtra') = Len(mExtra)
          /\ mCol' > 0 /\ mText'[mLine' + 1][mCol'] = Typed
          /\ \A i \in DOMAIN mExtra' :
                /\ mExtra'[i].col > 0
                /\ mText'[mExtra'[i].line + 1][mExtra'[i].col] = Typed]_mcVars

\* Every cell of the block lies in its row, whatever became of the rows and however wide the
\* block was drawn: no edit of a block slices past a short row (columnCellAt).
CellsFitTheirRows ==
    IsBlock => \A l \in BlockRows :
        l \in Rows /\ 0 <= Cell(l)[1] /\ Cell(l)[1] <= Cell(l)[2] /\ Cell(l)[2] <= Len(Row(l))

\* A block edit is confined to the block's rows and leaves one cursor in each, so that the next
\* key goes on where the block was (applyColumnEdits).
BlockEditsStayInTheirRows ==
    [][mOp' = "column" /\ mSteps' # mSteps =>
          /\ Len(mText') = Len(mText)
          /\ \A l \in Rows \ BlockRows : mText'[l + 1] = mText[l + 1]
          /\ \A i \in DOMAIN mExtra' : mExtra'[i].line \in BlockRows
                                      /\ mExtra'[i].col <= Len(mText'[mExtra'[i].line + 1])]_mcVars

\* "correcting carets for same-line edits" (multicursor.go, applyNoSplit): after typing, every
\* cursor stands right behind a rune that was typed.
SameLineCarets ==
    mOp = "type" => \A i \in DOMAIN mExtra :
        /\ mExtra[i].col \in 1..Len(Row(mExtra[i].line))
        /\ Row(mExtra[i].line)[mExtra[i].col] = Typed

\* Typing, Backspace, Delete and Enter at several cursors change the text at all of them at once,
\* where no line is joined, no selection split and no point falls back; a typed rune takes its
\* cursor along where no two share a line; the edit of a block stays in the block's rows.
CursorsEditTogether ==
    EditsAreSimultaneous /\ CaretsFollowTheirText /\ BlockEditsStayInTheirRows
=============================================================================
