------------------------------ MODULE LspEdits ------------------------------
(***************************************************************************)
(* What the editor does with the answers of a language server that carry   *)
(* positions (internal/lsp/lsp.go, editor/lsp.go, buffer.ReplaceSpan): the *)
(* edits of a rename, a format or a code action, applied to the open tab   *)
(* or to the file on disk, and the symbols of an outline.                  *)
(*                                                                         *)
(* A line is a sequence of runes.  A rune above Bmp is two UTF-16 units    *)
(* wide, and the server counts units.  Break stands for a line break in a  *)
(* replacement.  Lines and columns count from 0.  A text that ends with a   *)
(* line break has an empty line after it, which a tab does not keep.        *)
(***************************************************************************)
EXTENDS Integers, SequencesExt

CONSTANTS
    LeTexts,     \* the texts files have, sequences of lines
    LeInserts,   \* the replacement texts a server sends
    MaxLeEdits,  \* edits of one answer
    MaxSymbols,  \* symbols of one outline
    SymbolLines  \* lines symbols stand on

Bmp   == 99
Break == 0

ASSUME LeTextAssumption == LeTexts \subseteq Seq(Seq(Nat \ {Break})) \ {<<>>} /\ LeTexts # {}

VARIABLES
    file,     \* the text that is asked about
    asked,    \* "nothing", "edits" or "symbols": what is being answered
    answer,   \* the edits or symbols the server sent
    buffer,   \* the tab's text after applyWorkspaceEdit
    disk,     \* the text of the same file where no tab has it open
    outline   \* what the outline panel lists

leVars == <<file, asked, answer, buffer, disk, outline>>

\* Load: the empty line after the last line break is dropped.
Loaded(text) == IF Len(text) > 1 /\ Last(text) = <<>> THEN Front(text) ELSE text

\* Buffer.Text: every line of a tab ends with a break, and so the server gets it.
LspText(tab) == Append(tab, <<>>)

LeInit ==
    /\ file \in LeTexts /\ buffer = Loaded(file) /\ disk = file
    /\ asked = "nothing" /\ answer = <<>> /\ outline = <<>>
-----------------------------------------------------------------------------
(* Positions.                                                              *)

UnitsOf(r) == IF r > Bmp THEN 2 ELSE 1
Units(runes) == FoldLeft(LAMBDA n, r : n + UnitsOf(r), 0, runes)

ColToRuneByRunes(row, col16) == Max({0, Min({col16, Len(row)})})

\* ColToRune: the first column that has at least so many units before it.
ColToRune(row, col16) ==
    IF col16 <= 0 THEN 0
    ELSE Min({k \in 0..Len(row) - 1 : Units(SubSeq(row, 1, k)) >= col16} \cup {Len(row)})

LinesUnsplit(text) == <<text>>

\* A line per element: strings.Split and splitTextLines.
LinesOf(text) ==
    LET breaks == {i \in DOMAIN text : text[i] = Break}
        cuts   == SetToSortSeq(breaks, <)
        From(i) == IF i = 1 THEN 1 ELSE cuts[i - 1] + 1
        To(i)   == IF i > Len(cuts) THEN Len(text) ELSE cuts[i] - 1
    IN [i \in 1..Len(cuts) + 1 |-> SubSeq(text, From(i), To(i))]

LePositions == {[line |-> l, char |-> c] : l \in 0..Len(file), c \in 0..Max({Units(file[i]) : i \in DOMAIN file})}
NotAfter(p, q) == p.line < q.line \/ (p.line = q.line /\ p.char <= q.char)
TextEdits == {[from |-> p, to |-> q, new |-> t] : p \in LePositions, q \in LePositions, t \in LeInserts}

SortedEditsAsSent(edits) == edits

\* SortedEdits: from right to left, edits of one start in the order they came.
SortedEdits(edits) ==
    LET order == SetToSortSeq(DOMAIN edits, LAMBDA i, j :
            LET p == edits[i].from  q == edits[j].from
            IN p.line > q.line \/ (p.line = q.line /\ (p.char > q.char \/ (p.char = q.char /\ i < j))))
    IN [i \in DOMAIN edits |-> edits[order[i]]]

\* The lines of text with what lies between two columns replaced by the lines of new.
Replaced(text, l, c, el, ec, new) ==
    LET head == SubSeq(text[l + 1], 1, c)
        tail == SubSeq(text[el + 1], ec + 1, Len(text[el + 1]))
        mid  == IF Len(new) = 1 THEN <<head \o new[1] \o tail>>
                ELSE <<head \o new[1]>> \o SubSeq(new, 2, Len(new) - 1) \o <<Last(new) \o tail>>
    IN SubSeq(text, 1, l) \o mid \o SubSeq(text, el + 2, Len(text))

\* One turn of ApplyEditsToText: a range outside the text as it is now is skipped.
ApplyToText(text, e) ==
    IF e.from.line >= Len(text) \/ e.to.line < e.from.line \/ e.to.line >= Len(text) THEN text
    ELSE Replaced(text, e.from.line, ColToRune(text[e.from.line + 1], e.from.char),
                  e.to.line, ColToRune(text[e.to.line + 1], e.to.char), LinesOf(e.new))

\* LeReplaceSpan refuses what does not lie in the buffer.
LeReplaceSpan(text, l, c, el, ec, new) ==
    IF el < l \/ el >= Len(text) \/ c > Len(text[l + 1]) \/ ec > Len(text[el + 1]) THEN text
    ELSE Replaced(text, l, c, el, ec, LinesOf(new))

ApplyToTabOfTheDocument(text, e) ==
    IF e.to.line >= Len(text) THEN text
    ELSE LeReplaceSpan(text, e.from.line, ColToRune(text[e.from.line + 1], e.from.char),
                     e.to.line, e.to.char, e.new)

\* One turn of applyWorkspaceEdit over an open tab.
ApplyToTab(text, e) ==
    IF e.to.line >= Len(text) THEN text
    ELSE LeReplaceSpan(text, e.from.line, ColToRune(text[e.from.line + 1], e.from.char),
                     e.to.line, ColToRune(text[e.to.line + 1], e.to.char), e.new)

\* A rename, a format or an accepted code action is answered: each file of the answer gets its
\* edits, in its tab where it has one and on disk where it has none.  A range runs forward.
ApplyWorkspaceEdit ==
    /\ asked = "nothing" /\ asked' = "edits"
    /\ \E n \in 1..MaxLeEdits :
           answer' \in [1..n -> {e \in TextEdits : NotAfter(e.from, e.to)}]
    /\ buffer' = FoldLeft(ApplyToTab, Loaded(file), SortedEdits(answer'))
    /\ disk' = FoldLeft(ApplyToText, file, SortedEdits(SortedEdits(answer')))
    /\ UNCHANGED <<file, outline>>
-----------------------------------------------------------------------------
(* The outline.  A symbol is its line and where it ends, at a depth of the *)
(* tree; the answer lists the tree in preorder.                            *)

Symbols == {[line |-> p[1], end |-> p[2], depth |-> d] :
               p \in {q \in SymbolLines \X SymbolLines : q[1] <= q[2]}, d \in 0..1}

DocumentSymbolsAsSent(syms) == [i \in DOMAIN syms |-> [line |-> syms[i].line, name |-> i]]

\* DocumentSymbols: the answer counts as a tree when its first range ends below line 0.
\* Otherwise it is read as SymbolInformation, whose location a tree does not have, and
\* whose children are not read.
DocumentSymbols(syms) ==
    IF syms # <<>> /\ syms[1].end # 0
    THEN SortSeq([i \in DOMAIN syms |-> [line |-> syms[i].line, name |-> i]],
                 LAMBDA a, b : a.line < b.line \/ (a.line = b.line /\ a.name < b.name))
    ELSE LET roots == SetToSortSeq({i \in DOMAIN syms : syms[i].depth = 0}, <)
         IN [i \in DOMAIN roots |-> [line |-> 0, name |-> roots[i]]]

AnswerOutline ==
    /\ asked = "nothing" /\ asked' = "symbols"
    /\ \E n \in 1..MaxSymbols :
           answer' \in {s \in [1..n -> Symbols] : s[1].depth = 0}
    /\ outline' = DocumentSymbols(answer')
    /\ UNCHANGED <<file, buffer, disk>>

\* The next request is about the same text or another one.
AskAgain ==
    /\ asked # "nothing" /\ asked' = "nothing" /\ answer' = <<>> /\ outline' = <<>>
    /\ file' \in LeTexts /\ buffer' = Loaded(file') /\ disk' = file'

LeNext == ApplyWorkspaceEdit \/ AnswerOutline \/ AskAgain
LeSpec == LeInit /\ [][LeNext]_leVars
-----------------------------------------------------------------------------
LeTypeOK ==
    /\ file \in LeTexts /\ asked \in {"nothing", "edits", "symbols"}
    /\ buffer \in Seq(Seq(Nat \ {Break})) \ {<<>>} /\ disk \in Seq(Seq(Nat \ {Break})) \ {<<>>}

(* What an answer means: positions of the text it was computed for, and all edits at once.*)

Flat(text) == FoldLeft(LAMBDA acc, row : acc \o <<Break>> \o row, text[1], Tail(text))
Offset(text, p) ==
    Len(Flat(SubSeq(text, 1, p.line + 1))) - Len(text[p.line + 1])
    + Cardinality({k \in 1..Len(text[p.line + 1]) : Units(SubSeq(text[p.line + 1], 1, k)) <= p.char})

OnARune(text, p) ==
    p.line < Len(text)
    /\ \E k \in 0..Len(text[p.line + 1]) : Units(SubSeq(text[p.line + 1], 1, k)) = p.char

\* No two edits overlap or start at one place.
Separate ==
    \A i, j \in DOMAIN answer : i # j =>
        /\ answer[i].from # answer[j].from
        /\ NotAfter(answer[i].to, answer[j].from) \/ NotAfter(answer[j].to, answer[i].from)

\* The answers the protocol allows: separate ranges between runes of the text.
WellFormed(text) ==
    Separate /\ \A i \in DOMAIN answer : OnARune(text, answer[i].from) /\ OnARune(text, answer[i].to)

\* The text with some edits of the answer in it.
AllAtOnce(text, edits) ==
    LET old  == Flat(text)
        At(k)   == {i \in edits : Offset(text, answer[i].from) = k}
        New(k)  == IF At(k) = {} THEN <<>> ELSE answer[CHOOSE i \in At(k) : TRUE].new
        Gone(k) == \E i \in edits : k \in Offset(text, answer[i].from)..Offset(text, answer[i].to) - 1
    IN FlattenSeq([k \in 1..Len(old) + 1 |->
           New(k - 1) \o (IF k <= Len(old) /\ ~Gone(k - 1) THEN <<old[k]>> ELSE <<>>)])

\* The edits that reach behind the last line break of an open text, which a tab skips.
BehindTheLines == {i \in DOMAIN answer : answer[i].to.line = Len(Loaded(file))}

\* However many edits an answer has, in whatever order, over whatever runes and lines: they land
\* where the server meant them, none moved by another.  On disk it is all of them, in a tab all
\* but those that reach behind its last line break (SortedEdits, ColToRune, applyWorkspaceEdit).
EditsLandTogether ==
    asked = "edits" =>
        /\ LET open == LspText(Loaded(file))
           IN WellFormed(open) => Flat(LspText(buffer)) = AllAtOnce(open, DOMAIN answer \ BehindTheLines)
        /\ WellFormed(file) => Flat(disk) = AllAtOnce(file, DOMAIN answer)

\* A file gets the same text whether it is open in a tab or not, even from an answer that does
\* not fit it (applyWorkspaceEdit's two routes); where the tab drops the empty line after the last
\* break, from separate edits none of which reaches that line.
BothRoutesAgree ==
    asked = "edits" =>
        IF Loaded(file) = file THEN disk = buffer
        ELSE Separate /\ BehindTheLines = {} => disk = LspText(buffer)

\* What the code does not give: an open text gets every edit of an answer.
EveryEditLands ==
    asked = "edits" /\ WellFormed(LspText(Loaded(file))) =>
        Flat(LspText(buffer)) = AllAtOnce(LspText(Loaded(file)), DOMAIN answer)

\* "the hierarchical tree is flattened in document order" (lsp.go, DocumentSymbols): every symbol
\* is listed once, none above one that starts on an earlier line.
OutlineIsInOrder ==
    asked = "symbols" /\ answer[1].end # 0 =>
        /\ {outline[i].name : i \in DOMAIN outline} = DOMAIN answer /\ Len(outline) = Len(answer)
        /\ \A i, j \in DOMAIN outline : i < j => outline[i].line <= outline[j].line

\* "both are parsed": an outline shows every symbol of the answer at its line.
OutlineIsComplete ==
    asked = "symbols" =>
        \A i \in DOMAIN answer : \E j \in DOMAIN outline : outline[j] = [line |-> answer[i].line, name |-> i]

\* What a server answers lands in the text as the protocol means it, on disk and, up
\* to its last line break, in an open tab.
AnswersAreApplied == EditsLandTogether /\ BothRoutesAgree /\ OutlineIsInOrder
=============================================================================
