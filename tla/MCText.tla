------------------------------- MODULE MCText -------------------------------
(* What works on the text of one tab.  These parts share no state that the  *)
(* models tell apart, so a behaviour is of one of them, its scene, and the  *)
(* others stand in one initial state.                                       *)
(*                                                                          *)
(* edit: an empty text to type into, an undo stack full after two of three  *)
(* edits.  cursors: two lines, a letter of two cells among them.  answers:  *)
(* a text with a rune of two UTF-16 units that ends with a line break, and  *)
(* one that does not.  folds: a block in a block, a lone brace, an empty    *)
(* line, lines of two rows.  search: letters of both cases, matches that    *)
(* overlap, line endings of both kinds.  cache: lines of every kind, a      *)
(* window of one line.                                                      *)
EXTENDS EditBuffer, MultiCursor, LspEdits, Folding, Search, LineCache

VARIABLE scene

EmptyText == {<<0>>}

TwoLines == {<<<<1, 9, 1>>, <<1>>>>}

Documents == {<<<<1, 100>>, <<2>>, <<>>>>, <<<<1>>, <<2>>>>}
Inserts  == {<<>>, <<3, 0, 4>>}

FoldLine(i, s, b) == [indent |-> i, segs |-> s, brace |-> b]
TypedLines == {FoldLine(2, 2, FALSE)}
Nested == {<<FoldLine(0, 2, FALSE), FoldLine(1, 1, TRUE), FoldLine(Empty, 1, FALSE), FoldLine(0, 2, FALSE)>>}

Searched == {<<<<1, 1, 51, 2>>, <<1, 2>>>>, <<<<1, 1, 1>>>>}
OnDisk   == {<<1, 51, Cr, Lf, 1, 1, Lf, 2, 1>>, <<1, Cr, 1, Lf, Lf>>, <<>>}
Queries  == {<<1>>, <<1, 1>>, <<51>>, <<1, Cr>>}
Replacements == {<<>>, <<1, 1>>, <<2>>}
-----------------------------------------------------------------------------
TextInit ==
    /\ scene \in {"edit", "cursors", "answers", "folds", "search", "cache"}
    /\ Init /\ McInit /\ LeInit /\ FoldInit /\ SeInit /\ LineInit
    /\ scene # "search" => seText = CHOOSE t \in SeTexts : TRUE
    /\ scene # "answers" => file = CHOOSE t \in LeTexts : TRUE
    /\ scene # "cache" => lines = <<CHOOSE k \in LineKinds : TRUE>>

EditScene ==
    scene = "edit" /\ Next
    /\ UNCHANGED <<scene, mcVars, leVars, foldVars, seVars, lineVars>>
CursorsScene ==
    scene = "cursors" /\ McNext
    /\ UNCHANGED <<scene, vars, leVars, foldVars, seVars, lineVars>>
AnswersScene ==
    scene = "answers" /\ LeNext
    /\ UNCHANGED <<scene, vars, mcVars, foldVars, seVars, lineVars>>
FoldsScene ==
    scene = "folds" /\ FoldNext
    /\ UNCHANGED <<scene, vars, mcVars, leVars, seVars, lineVars>>
SearchScene ==
    scene = "search" /\ SeNext
    /\ UNCHANGED <<scene, vars, mcVars, leVars, foldVars, lineVars>>
CacheScene ==
    scene = "cache" /\ LineNext
    /\ UNCHANGED <<scene, vars, mcVars, leVars, foldVars, seVars>>

TextNext == EditScene \/ CursorsScene \/ AnswersScene \/ FoldsScene \/ SearchScene \/ CacheScene

TextSpec ==
    TextInit /\ [][TextNext]_<<scene, vars, mcVars, leVars, foldVars, seVars, lineVars>>

-----------------------------------------------------------------------------
\* Types of the six parts; a column of cells is inside its row.
TextTypeOK ==
    /\ TypeOK /\ McTypeOK /\ LeTypeOK /\ FoldTypeOK /\ LineTypeOK /\ SeTypeOK
    /\ CellsFitTheirRows
=============================================================================
