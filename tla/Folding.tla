------------------------------ MODULE Folding ------------------------------
(***************************************************************************)
(* Indentation folding of one pane and the scroll that keeps its caret in  *)
(* view (internal/editor/fold.go, clampScroll in editor.go).               *)
(*                                                                         *)
(* A line is its indentation (Empty where it is blank), the number of      *)
(* screen rows it takes when the pane wraps, and whether it is a lone      *)
(* opening brace.  Lines and rows count from 0.                            *)
(***************************************************************************)
EXTENDS Integers, SequencesExt

CONSTANTS
    FoldTexts,     \* the texts a tab is opened with
    FoldLines,     \* the lines typing can make
    MaxFoldLines,  \* lines of the text, for the bound
    FoldHeight     \* rows of the pane

Empty == -1

FoldLineType == [indent : Nat \cup {Empty}, segs : Nat \ {0}, brace : BOOLEAN]

ASSUME FoldHeightAssumption == FoldHeight \in Nat \ {0}

ASSUME FoldTextsAssumption ==
    FoldTexts \subseteq Seq(FoldLineType) \ {<<>>} /\ FoldLines \subseteq FoldLineType

VARIABLES
    fText, folds,     \* the buffer; the start lines of the folded blocks
    fLine, fSeg,      \* the caret: its line and the wrapped row of it
    fWrap, fOff,      \* wordWrap and offsetY
    fClamped,         \* clampScroll ran since the last change
    fClosed           \* history: the block the last step folded, by the keyboard

foldVars == <<fText, folds, fLine, fSeg, fWrap, fOff, fClamped, fClosed>>

NoBlock == <<-1, -1>>
Lines(t)   == 0..(Len(t) - 1)
Indent(t, l) == t[l + 1].indent

FoldInit ==
    /\ fText \in FoldTexts /\ folds = {}
    /\ fLine = 0 /\ fSeg = 0 /\ fWrap = FALSE /\ fOff = 0
    /\ fClamped = TRUE /\ fClosed = NoBlock
-----------------------------------------------------------------------------
(* Blocks.                                                                 *)

PopToSiblings(stack, last, indent) ==
    LET keep == Max({0} \cup {i \in DOMAIN stack : stack[i].indent <= indent})
        gone == {stack[i] : i \in keep + 1..Len(stack)}
    IN [stack |-> SubSeq(stack, 1, keep),
        ended |-> {<<b.start, last>> : b \in {g \in gone : last > g.start}}]

\* The blocks a stack ends with when a line as deep as indent comes: those at least as deep.
PopTo(stack, last, indent) ==
    LET keep == Max({0} \cup {i \in DOMAIN stack : stack[i].indent < indent})
        gone == {stack[i] : i \in keep + 1..Len(stack)}
    IN [stack |-> SubSeq(stack, 1, keep),
        ended |-> {<<b.start, last>> : b \in {g \in gone : last > g.start}}]

\* A line of the pass: a blank one belongs to the block around it.
ScanLine(t, acc, l) ==
    IF Indent(t, l) = Empty THEN acc
    ELSE LET p == PopTo(acc.stack, acc.last, Indent(t, l))
         IN [stack |-> Append(p.stack, [start |-> l, indent |-> Indent(t, l)]),
             done |-> acc.done \cup p.ended, last |-> l]

\* foldRanges: one pass over the text with the stack of open blocks.
FoldRanges(t) ==
    LET scanned[n \in 0..Len(t)] == IF n = 0 THEN [stack |-> <<>>, done |-> {}, last |-> -1]
                                    ELSE ScanLine(t, scanned[n - 1], n - 1)
        end == scanned[Len(t)]
    IN end.done \cup PopTo(end.stack, end.last, -1).ended

BlocksAt(t, l) == {b \in FoldRanges(t) : b[1] = l}

\* foldBlockAt: the last block that holds the line or ends just above it.
BlockAround(t, l) ==
    LET held == {b \in FoldRanges(t) : b[1] <= l /\ l <= b[2] + 1}
    IN IF Indent(t, l) = Empty THEN {} ELSE {b \in held : \A c \in held : c[1] <= b[1]}

\* The lone brace of the next line that is not blank.
BlockBelow(t, l) ==
    LET next == {k \in Lines(t) : k > l /\ Indent(t, k) # Empty}
    IN IF next = {} \/ ~t[Min(next) + 1].brace THEN {} ELSE BlocksAt(t, Min(next))

\* foldTargetAt.
FoldTarget(t, l) ==
    IF BlocksAt(t, l) # {} THEN BlocksAt(t, l)
    ELSE IF BlockAround(t, l) # {} THEN BlockAround(t, l) ELSE BlockBelow(t, l)

Folded(t, f) == {b \in FoldRanges(t) : b[1] \in f}

FirstBlock(blocks) == CHOOSE b \in blocks : \A c \in blocks : b[1] <= c[1]

\* foldHidden: the outermost folded block around the line.
Hiding(t, f, l) == {b \in Folded(t, f) : b[1] < l /\ l <= b[2]}
OutermostHiding(t, f, l) == FirstBlock(Hiding(t, f, l))

\* A scan of the text drops the marks no block starts at.
Pruned(t, f) == f \cap {b[1] : b \in FoldRanges(t)}

\* unfoldThrough: every block that hides the line.
UnfoldThrough(t, f, l) == f \ {b[1] : b \in Hiding(t, f, l)}
-----------------------------------------------------------------------------
(* Display rows.                                                           *)

\* The first folded block that does not end above the line, and the first that does not
\* start above it.
ScannerOneShort(iv, l) ==
    LET hi  == {b \in iv : b[2] > l}
        fsi == {b \in iv : b[1] >= l}
    IN [hidden |-> hi # {} /\ FirstBlock(hi)[1] < l,
        start  |-> IF fsi # {} /\ FirstBlock(fsi)[1] = l THEN FirstBlock(fsi) ELSE NoBlock]

\* foldScanner: two pointers into the folded blocks in line order, to the first that does
\* not end above the line and the first that does not start above it.
ScannerAt(iv, l) ==
    LET hi  == {b \in iv : b[2] >= l}
        fsi == {b \in iv : b[1] >= l}
    IN [hidden |-> hi # {} /\ FirstBlock(hi)[1] < l,
        start  |-> IF fsi # {} /\ FirstBlock(fsi)[1] = l THEN FirstBlock(fsi) ELSE NoBlock]

Segments(t, wrap, l) == IF wrap THEN t[l + 1].segs ELSE 1

\* The rows of a visible line, and a summary under the start of a folded block.
LineRows(t, f, wrap, l) ==
    LET at == ScannerAt(Folded(t, f), l)
    IN IF at.hidden THEN <<>>
       ELSE [s \in 1..Segments(t, wrap, l) |-> [ln |-> l, seg |-> s - 1, hidden |-> 0]]
            \o (IF at.start = NoBlock THEN <<>>
                ELSE <<[ln |-> l, seg |-> -1, hidden |-> at.start[2] - l]>>)

\* dispRows: the rows of all lines.
DispRows(t, f, wrap) ==
    LET down[n \in 0..Len(t)] == IF n = 0 THEN <<>> ELSE down[n - 1] \o LineRows(t, f, wrap, n - 1)
    IN down[Len(t)]

\* A turn of dispIndexOfLine: the half of the window the line's first row is looked for in.
\* On the line's summary it goes right, past the line.
Narrowed(rows, l, w) ==
    LET mid == (w.lo + w.hi) \div 2
        r   == rows[mid]
    IN IF w.lo > w.hi \/ (r.ln = l /\ r.seg = 0) THEN w
       ELSE IF r.ln < l \/ (r.ln = l /\ r.seg = -1) THEN [w EXCEPT !.lo = mid + 1]
       ELSE [w EXCEPT !.hi = mid - 1]

\* dispIndexOfLine: 0 where it does not meet the row.
IndexOfLine(rows, l) ==
    LET window[k \in 0..Len(rows)] == IF k = 0 THEN [lo |-> 1, hi |-> Len(rows)]
                                      ELSE Narrowed(rows, l, window[k - 1])
        end == window[Len(rows)]
    IN IF end.lo > end.hi THEN 0 ELSE (end.lo + end.hi) \div 2

\* dispCursorRow of a line that is shown: the caret's row from the line's first one on, and
\* where that was missed the last row of text down to the line.
CursorRow(rows, l, s) ==
    IF IndexOfLine(rows, l) # 0 THEN IndexOfLine(rows, l) + s
    ELSE Max({1} \cup {i \in DOMAIN rows : rows[i].hidden = 0 /\ rows[i].ln <= l})

\* The offset may end above the first row.
OffsetAbove(row, n, off) ==
    LET follow == IF row < off THEN row ELSE IF row >= off + FoldHeight THEN row - FoldHeight + 1 ELSE off
    IN Min({follow, n - FoldHeight})

\* The row below the pane counts as inside.
OffsetLate(row, n, off) ==
    LET follow == IF row < off THEN row ELSE IF row > off + FoldHeight THEN row - FoldHeight + 1 ELSE off
    IN Max({0, Min({follow, n - FoldHeight})})

\* The offset that shows the caret's row, of n.
OffsetFor(row, n, off) ==
    LET follow == IF row < off THEN row ELSE IF row >= off + FoldHeight THEN row - FoldHeight + 1 ELSE off
    IN Max({0, Min({follow, n - FoldHeight})})

\* clampScroll: a caret that is hidden opens what hides it, and the offset follows.
ClampScroll(t, f, l, s, wrap, off) ==
    \E open \in {UnfoldThrough(t, Pruned(t, f), l)} :
    \E rows \in {DispRows(t, open, wrap)} :
        /\ folds' = open
        /\ fOff' = OffsetFor(CursorRow(rows, l, IF wrap THEN s ELSE 0) - 1, Len(rows), off)

\* A message that ends update: the folds and the caret it leaves, clamped.
Settle(t, f, l, s, wrap, off) ==
    /\ fText' = t /\ fLine' = l /\ fSeg' = s /\ fWrap' = wrap
    /\ ClampScroll(t, f, l, s, wrap, off) /\ fClamped' = TRUE

\* A click, or a key that answers with a command: update returns before clampScroll.
Leave(t, f, l, s, wrap, off) ==
    /\ fText' = t /\ fLine' = l /\ fSeg' = s /\ fWrap' = wrap
    /\ folds' = f /\ fOff' = off /\ fClamped' = FALSE
-----------------------------------------------------------------------------
(* Folding commands.                                                       *)

CloseInPlace(b) == Settle(fText, folds \cup {b[1]}, fLine, fSeg, fWrap, fOff) /\ fClosed' = b

Close(b) ==
    /\ Settle(fText, folds \cup {b[1]}, b[1], IF fLine = b[1] THEN fSeg ELSE 0, fWrap, fOff)
    /\ fClosed' = b

\* foldCloseAtCursor.
FoldClose == \E b \in FoldTarget(fText, fLine) : Close(b)

Open(f) == Settle(fText, f, fLine, fSeg, fWrap, fOff) /\ fClosed' = NoBlock

\* foldOpenAtCursor: the block the line starts, what hides the line, or the fold command's block.
OpenAtCursor ==
    LET here == Folded(fText, folds) \cap BlocksAt(fText, fLine)
    IN \/ here # {} /\ Open(folds \ {fLine})
       \/ here = {} /\ Hiding(fText, folds, fLine) # {} /\ Open(UnfoldThrough(fText, folds, fLine))
       \/ /\ here = {} /\ Hiding(fText, folds, fLine) = {}
          /\ \E b \in FoldTarget(fText, fLine) : b[1] \in folds /\ Open(folds \ {b[1]})

\* toggleFoldAtCursor.
ToggleAtCursor ==
    \/ OpenAtCursor /\ \E b \in FoldTarget(fText, fLine) : b[1] \in folds
    \/ \E b \in FoldTarget(fText, fLine) : b[1] \notin folds /\ Close(b)

\* toggleFoldAll.
ToggleAll ==
    /\ fClosed' = NoBlock
    /\ Settle(fText,
              IF folds # {} /\ Cardinality(folds) >= Cardinality(FoldRanges(fText)) THEN {}
              ELSE {b[1] : b \in FoldRanges(fText)},
              fLine, fSeg, fWrap, fOff)

\* A click on a chevron or a summary row: no clampScroll follows a click.
ClickFold ==
    /\ fClosed' = NoBlock
    /\ \E r \in Range(DispRows(fText, folds, fWrap)) :
           /\ BlocksAt(fText, r.ln) # {}
           /\ Leave(fText, IF r.ln \in folds THEN folds \ {r.ln} ELSE folds \cup {r.ln},
                    fLine, fSeg, fWrap, fOff)

\* A click on a line puts the caret there.
ClickLine ==
    /\ fClosed' = NoBlock
    /\ \E r \in {q \in Range(DispRows(fText, folds, fWrap)) : q.hidden = 0} :
           Leave(fText, folds, r.ln, r.seg, fWrap, fOff)
-----------------------------------------------------------------------------
(* Moving and typing.                                                      *)

\* foldSkip: a caret that moved into a folded block goes on to its edge.
Skipped(l, dir) ==
    IF Hiding(fText, folds, l) = {} THEN l
    ELSE LET b == OutermostHiding(fText, folds, l)
         IN IF dir < 0 THEN b[1] ELSE Min({b[2] + 1, Len(fText) - 1})

MoveCaret ==
    /\ fClosed' = NoBlock
    /\ \E dir \in {-1, 1} :
           /\ fLine + dir \in Lines(fText)
           /\ Settle(fText, folds, Skipped(fLine + dir, dir), 0, fWrap, fOff)

\* Go to line, a search hit, an answer of the language server: any line at all.
JumpTo == fClosed' = NoBlock /\ \E l \in Lines(fText) : Settle(fText, folds, l, 0, fWrap, fOff)

\* The caret within its line.
MoveInLine ==
    /\ fClosed' = NoBlock
    /\ \E s \in 0..fText[fLine + 1].segs - 1 : Settle(fText, folds, fLine, s, fWrap, fOff)

ToggleWrap == fClosed' = NoBlock /\ Settle(fText, folds, fLine, fSeg, ~fWrap, fOff)

\* Typing changes a line, Enter adds one, Ctrl+Y takes one; completion or a suggestion may
\* make the key answer with a command.
Edited(t, l) ==
    /\ fClosed' = NoBlock
    /\ Settle(t, folds, l, 0, fWrap, fOff) \/ Leave(t, folds, l, 0, fWrap, fOff)

TypeInLine == \E n \in FoldLines : Edited([fText EXCEPT ![fLine + 1] = n], fLine)
EnterLine  == Len(fText) < MaxFoldLines
              /\ \E n \in FoldLines : Edited(InsertAt(fText, fLine + 2, n), fLine + 1)
DropLine   == Len(fText) > 1
              /\ Edited(RemoveAt(fText, fLine + 1), Min({fLine, Len(fText) - 2}))

\* Any other message ends update with clampScroll.
OtherMessage == ~fClamped /\ fClosed' = NoBlock /\ Settle(fText, folds, fLine, fSeg, fWrap, fOff)

FoldNext ==
    \/ FoldClose \/ OpenAtCursor \/ ToggleAtCursor \/ ToggleAll
    \/ ClickFold \/ ClickLine
    \/ MoveCaret \/ JumpTo \/ MoveInLine \/ ToggleWrap
    \/ TypeInLine \/ EnterLine \/ DropLine \/ OtherMessage

FoldSpec == FoldInit /\ [][FoldNext]_foldVars
-----------------------------------------------------------------------------
FoldTypeOK ==
    /\ fText \in Seq(FoldLineType) \ {<<>>}
    /\ folds \subseteq Nat /\ fLine \in Lines(fText) /\ fOff \in Nat
    /\ fSeg \in 0..fText[fLine + 1].segs - 1
    /\ fWrap \in BOOLEAN /\ fClamped \in BOOLEAN

\* The stack scan finds exactly the blocks indentation means: a line with a deeper next line
\* starts one, and it runs to the last line that is not blank before the indentation is back.
BlocksAreIndentation ==
    LET Filled == {l \in Lines(fText) : Indent(fText, l) # Empty}
        Under(l) == {k \in Filled : k > l /\ \A j \in Filled : l < j /\ j <= k => Indent(fText, j) > Indent(fText, l)}
    IN FoldRanges(fText) = {<<l, Max(Under(l))>> : l \in {k \in Filled : Under(k) # {}}}

\* Every line is on the screen list once, all its wrapped rows in order, or counted by exactly
\* one summary; whatever blocks are folded inside one another, and however stale the marks are.
RowsCoverTheText ==
    LET rows == DispRows(fText, folds, fWrap)
        Shown(l) == {i \in DOMAIN rows : rows[i].ln = l /\ rows[i].hidden = 0}
        Counting(l) == {i \in DOMAIN rows : rows[i].hidden > 0 /\ l \in rows[i].ln + 1..rows[i].ln + rows[i].hidden}
    IN /\ \A i, j \in DOMAIN rows : i < j => rows[i].ln <= rows[j].ln
       /\ \A l \in Lines(fText) :
              IF Counting(l) = {}
              THEN \E first \in DOMAIN rows :
                       /\ Shown(l) = first..first + Segments(fText, fWrap, l) - 1
                       /\ \A i \in Shown(l) : rows[i].seg = i - first
              ELSE Shown(l) = {} /\ \E i \in DOMAIN rows : Counting(l) = {i}

\* The rows of the screen list inside the pane, and the caret's.
InPane(rows) == {i \in DOMAIN rows : i - 1 \in fOff..fOff + FoldHeight - 1}
CaretAt(rows) == {i \in DOMAIN rows : rows[i].ln = fLine /\ rows[i].seg = (IF fWrap THEN fSeg ELSE 0)}

\* After a message that ran clampScroll the caret's row is shown and a row of its line is inside
\* the pane, whatever was folded around it and however the text moved under the folds; it is the
\* caret's own row, save in a pane that wraps on a line a folded block starts at.
CaretIsInView ==
    fClamped =>
        LET rows == DispRows(fText, folds, fWrap)
        IN /\ CaretAt(rows) # {}
           /\ \E i \in InPane(rows) : rows[i].ln = fLine
           /\ \/ CaretAt(rows) \subseteq InPane(rows)
              \/ fWrap /\ \E b \in Folded(fText, folds) : b[1] = fLine

\* What the code does not give: the caret's own row is always inside the pane.
CaretRowIsInView ==
    fClamped => CaretAt(DispRows(fText, folds, fWrap)) \subseteq InPane(DispRows(fText, folds, fWrap))

\* A fold made from the keyboard stays: the caret goes to the block's first line, and the scroll
\* that follows does not force the block open again (foldCloseAtCursor).
KeyboardFoldSticks ==
    fClosed # NoBlock => fClosed[1] \in folds /\ fLine = fClosed[1] /\ fClosed \in FoldRanges(fText)

\* Whatever is folded in whatever order, the screen shows the lines a reader of
\* the indentation expects, the caret's among them.
FoldsAreSound == BlocksAreIndentation /\ RowsCoverTheText /\ CaretIsInView /\ KeyboardFoldSticks
=============================================================================
