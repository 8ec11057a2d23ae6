----------------------------- MODULE EditBuffer -----------------------------
(***************************************************************************)
(* One editing buffer (internal/buffer/buffer.go): text, caret, linear     *)
(* selection, typing runs, and the undo and redo stacks.                   *)
(*                                                                         *)
(* A text is the sequence of its lines and a line is its length: the       *)
(* operations decide by positions alone.  Where one looks at the runes     *)
(* (how much indentation there is to strip, whether a line is commented,   *)
(* where a search matches) the model takes any length the code could find. *)
(* Lines count from 1, columns from 0.                                     *)
(***************************************************************************)
EXTENDS Integers, SequencesExt

CONSTANTS
    Texts,       \* the texts a buffer is loaded with
    MaxUndo,     \* maxUndo
    MaxLines, MaxLen, MaxEdits   \* bounds of the model

ASSUME MaxUndoAssumption == MaxUndo \in Nat \ {0}
ASSUME TextsAssumption == MaxLen \in Nat /\ Texts \subseteq Seq(0..MaxLen) \ {<<>>}

VARIABLES
    text,
    line, col,   \* the caret
    anchor,      \* selLine and selCol, NoAnchor unless hasSelection
    undo, redo,  \* undoStack and redoStack
    run,         \* lastLine and lastCol while lastWasInsert, else NoRun
    first,       \* history: the text that was loaded
    dropped,     \* history: the undo stack was full once
    selected,    \* history: something was selected once
    edits        \* the number of edits that took a step, for the bound

docVars  == <<text, line, col, anchor>>
stackVars == <<undo, redo, run>>
histVars == <<first, dropped, selected, edits>>
vars     == <<docVars, stackVars, histVars>>

Nowhere  == <<0, 0>>
NoAnchor == Nowhere
NoRun    == Nowhere
Caret    == <<line, col>>

Snapshot(t, p) == [text |-> t, line |-> p[1], col |-> p[2]]

\* A position a caret can stand at.
InText(t, p) == p[1] \in 1..Len(t) /\ p[2] \in 0..t[p[1]]

Positions == {p \in (1..Len(text)) \X (0..MaxLen) : InText(text, p)}

Init ==
    /\ text \in Texts
    /\ line = 1 /\ col = 0
    /\ anchor = NoAnchor
    /\ undo = <<>> /\ redo = <<>>
    /\ run = NoRun
    /\ first = text
    /\ dropped = FALSE /\ selected = FALSE /\ edits = 0
-----------------------------------------------------------------------------
(* Positions and selections.                                               *)

Before(p, q) == p[1] < q[1] \/ (p[1] = q[1] /\ p[2] <= q[2])

HasSelection == anchor # NoAnchor /\ anchor # Caret

\* SelectionRange.
From == IF HasSelection /\ Before(anchor, Caret) THEN anchor ELSE Caret
To   == IF HasSelection /\ Before(Caret, anchor) THEN anchor ELSE Caret

\* The text with what lies between p and q replaced by the parts of ins, one
\* per line: the shape of nearly every edit.
Splice(t, p, q, ins) ==
    LET n    == Len(ins)
        head == p[2] + ins[1]
        tail == t[q[1]] - q[2]
        body == IF n = 1 THEN <<head + tail>>
                ELSE <<head>> \o SubSeq(ins, 2, n - 1) \o <<ins[n] + tail>>
    IN SubSeq(t, 1, p[1] - 1) \o body \o SubSeq(t, q[1] + 1, Len(t))

\* The caret behind what was inserted at p.
After(p, ins) ==
    IF Len(ins) = 1 THEN <<p[1], p[2] + ins[1]>>
                    ELSE <<p[1] + Len(ins) - 1, ins[Len(ins)]>>

Clamp(c, n) == IF c < 0 THEN 0 ELSE IF c > n THEN n ELSE c
-----------------------------------------------------------------------------
(* Undo steps.                                                             *)

PushedTo_OneMore(stack, s) ==
    LET longer == Append(stack, s)
    IN IF Len(longer) > MaxUndo + 1 THEN Tail(longer) ELSE longer

\* pushUndo: the oldest step goes when the stack is full.
PushedTo(stack, s) ==
    LET longer == Append(stack, s)
    IN IF Len(longer) > MaxUndo THEN Tail(longer) ELSE longer

\* The caret and the anchor are positions of the text.  An edit slices lines at
\* both: it panics, or reads behind a line, where one is not, and the model stops.
Usable == InText(text, Caret) /\ (HasSelection => InText(text, anchor))

PushUndo ==
    /\ undo' = PushedTo(undo, Snapshot(text, Caret))
    /\ dropped' = (dropped \/ Len(undo) = MaxUndo)

\* An edit that begins a change: the typing run ends, the redo stack is cleared,
\* one undo step is pushed.
Change(t, p, sel) ==
    /\ Usable /\ edits < MaxEdits
    /\ Len(t) <= MaxLines /\ \A i \in DOMAIN t : t[i] <= MaxLen
    /\ text' = t /\ line' = p[1] /\ col' = p[2] /\ anchor' = sel
    /\ PushUndo /\ redo' = <<>> /\ run' = NoRun
    /\ edits' = edits + 1
    /\ UNCHANGED <<first, selected>>

\* beginChange with nothing to do after it.
BeginChange ==
    /\ redo' = <<>> /\ run' = NoRun
    /\ UNCHANGED <<docVars, undo, histVars>>

\* Insert: one typed rune.  It joins the run it continues; over a selection it
\* replaces it and starts a run, both in one undo step.
Insert ==
    LET t == Splice(text, From, To, <<1>>)
        joins == ~HasSelection /\ run = Caret
        p == After(From, <<1>>)
    IN /\ Usable /\ t[p[1]] <= MaxLen
       /\ text' = t /\ line' = p[1] /\ col' = p[2] /\ anchor' = NoAnchor
       /\ run' = p
       /\ \/ joins /\ UNCHANGED <<undo, dropped, edits>>
          \/ ~joins /\ edits < MaxEdits /\ edits' = edits + 1 /\ PushUndo
       /\ redo' = IF HasSelection THEN <<>> ELSE redo
       /\ UNCHANGED <<first, selected>>

\* InsertText: a paste or a completion.  Without a selection the anchor stays.
InsertText(ins) ==
    Change(Splice(text, From, To, ins), After(From, ins),
           IF HasSelection THEN NoAnchor ELSE anchor)

\* InsertNewline and IndentedNewline, with the indent of the new line.
InsertNewline(indent) ==
    Change(Splice(text, From, To, <<0, indent>>), <<From[1] + 1, indent>>, NoAnchor)

DeleteSelection == Change(Splice(text, From, To, <<0>>), From, NoAnchor)

\* Backspace at the start of a line joins it to the one above.
BackspaceJoins ==
    Change(Splice(text, <<line - 1, text[line - 1]>>, Caret, <<0>>),
           <<line - 1, text[line - 1]>>, anchor)

Backspace ==
    \/ HasSelection /\ DeleteSelection
    \/ ~HasSelection /\ col > 0
         /\ Change(Splice(text, <<line, col - 1>>, Caret, <<0>>), <<line, col - 1>>, anchor)
    \/ ~HasSelection /\ col = 0 /\ line > 1 /\ BackspaceJoins
    \/ ~HasSelection /\ Caret = <<1, 0>> /\ BeginChange

Delete ==
    \/ HasSelection /\ DeleteSelection
    \/ ~HasSelection /\ col < text[line]
         /\ Change(Splice(text, Caret, <<line, col + 1>>, <<0>>), Caret, anchor)
    \/ ~HasSelection /\ col = text[line] /\ line < Len(text)
         /\ Change(Splice(text, Caret, <<line + 1, 0>>, <<0>>), Caret, anchor)
    \/ ~HasSelection /\ Caret = <<Len(text), Last(text)>> /\ BeginChange

\* ReplaceSpan, and ReplaceRange when p and q are on one line.
ReplaceSpan(p, q, ins) ==
    /\ Before(p, q)
    /\ Change(Splice(text, p, q, ins), After(p, ins), NoAnchor)

\* ReplaceAll, ReplaceAllRE: the lines that match get any length.
ReplaceMatches(t) ==
    /\ Len(t) = Len(text)
    /\ Change(t, <<line, Clamp(col, t[line])>>, NoAnchor)
-----------------------------------------------------------------------------
(* Whole lines.                                                            *)

DeleteLine_NoClamp ==
    IF Len(text) = 1
    THEN Change(<<0>>, <<1, 0>>, anchor)
    ELSE Change(RemoveAt(text, line), <<line, 0>>, anchor)

\* DeleteLine leaves the anchor alone.
DeleteLine ==
    IF Len(text) = 1
    THEN Change(<<0>>, <<1, 0>>, anchor)
    ELSE Change(RemoveAt(text, line), <<Clamp(line, Len(text) - 1), 0>>, anchor)

\* The lines the selection touches, or the caret's.
Block == SubSeq(text, From[1], To[1])

\* DuplicateLine (behind the block) and DuplicateLineUp (before it): the same
\* text and the same caret, whose column is kept whatever line it comes to.
DuplicateLine ==
    Change(SubSeq(text, 1, To[1]) \o Block \o SubSeq(text, To[1] + 1, Len(text)),
           <<To[1] + 1, col>>, NoAnchor)

MoveLineUp ==
    IF From[1] = 1
    THEN Change(text, Caret, anchor)
    ELSE Change(SubSeq(text, 1, From[1] - 2) \o Block \o <<text[From[1] - 1]>>
                  \o SubSeq(text, To[1] + 1, Len(text)),
                <<From[1] - 1, col>>, NoAnchor)

MoveLineDown ==
    IF To[1] = Len(text)
    THEN Change(text, Caret, anchor)
    ELSE Change(SubSeq(text, 1, From[1] - 1) \o <<text[To[1] + 1]>> \o Block
                  \o SubSeq(text, To[1] + 2, Len(text)),
                <<From[1] + 1, col>>, NoAnchor)

\* The lines of the block change their length, the others do not.
Reshapes(t) ==
    /\ Usable
    /\ Len(t) = Len(text)
    /\ \A i \in DOMAIN t : i \notin From[1]..To[1] => t[i] = text[i]

Grows(t)   == Reshapes(t) /\ \E w \in 1..MaxLen : \A i \in From[1]..To[1] : t[i] = text[i] + w
Shrinks(t) == Reshapes(t) /\ \A i \in From[1]..To[1] : t[i] <= text[i]

\* IndentLines and UnindentLines: a unit is put before each line, or what there
\* is of it taken away; the caret goes to the end of the block and a selection
\* is kept.
IndentLines(t) ==
    LET moved(p) == <<p[1], Clamp(p[2] + t[p[1]] - text[p[1]], t[p[1]])>>
    IN /\ Grows(t) \/ Shrinks(t)
       /\ Change(t, moved(To), IF HasSelection THEN moved(From) ELSE anchor)

\* ToggleComment: a marker is put on each line, or taken from each; the caret's
\* column is clamped to the line it is on.
ToggleComment(t, c) ==
    /\ Grows(t) \/ (Shrinks(t) /\ \A i \in From[1]..To[1] : t[i] < text[i])
    /\ c \in 0..t[line]
    /\ Change(t, <<line, c>>, NoAnchor)
-----------------------------------------------------------------------------
(* Undo and redo.                                                          *)

Restore(s) == text' = s.text /\ line' = s.line /\ col' = s.col

Undo_CaretOfStep ==
    /\ undo # <<>>
    /\ Restore(Last(undo))
    /\ redo' = Append(redo, Snapshot(text, <<Last(undo).line, Last(undo).col>>))
    /\ undo' = Front(undo)
    /\ run' = NoRun
    /\ UNCHANGED <<anchor, histVars>>

\* Undo and Redo leave the anchor alone.
Undo ==
    /\ undo # <<>>
    /\ Restore(Last(undo))
    /\ redo' = Append(redo, Snapshot(text, Caret))
    /\ undo' = Front(undo)
    /\ run' = NoRun
    /\ UNCHANGED <<anchor, histVars>>

Redo_NoStep ==
    /\ redo # <<>>
    /\ Restore(Last(redo))
    /\ redo' = Front(redo)
    /\ run' = NoRun
    /\ UNCHANGED <<anchor, undo, histVars>>

Redo ==
    /\ redo # <<>>
    /\ Restore(Last(redo))
    /\ PushUndo
    /\ redo' = Front(redo)
    /\ run' = NoRun
    /\ UNCHANGED <<anchor, first, selected, edits>>
-----------------------------------------------------------------------------
(* The caret.  Once the edits of the bound are used up it is not moved by   *)
(* hand any more: only undo and redo follow.                               *)

\* SetCursor and the plain movements: the run ends, the selection is dropped.
MoveTo(p) ==
    /\ edits < MaxEdits
    /\ line' = p[1] /\ col' = p[2]
    /\ anchor' = NoAnchor /\ run' = NoRun
    /\ UNCHANGED <<text, undo, redo, histVars>>

Selected(p, a, r) ==
    /\ edits < MaxEdits
    /\ line' = p[1] /\ col' = p[2]
    /\ anchor' = a /\ run' = r
    /\ selected' = TRUE
    /\ UNCHANGED <<text, undo, redo, first, dropped, edits>>

Extended == IF anchor = NoAnchor THEN Caret ELSE anchor

DragSelect(p) == Selected(p, Extended, run)

\* The movements with Shift.
MoveToWithSelect(p) == Selected(p, Extended, NoRun)

SelectRange(p, q) ==
    /\ Before(p, q)
    /\ Selected(q, IF p = q THEN NoAnchor ELSE p, NoRun)

\* Deselect and ClearSelection do not end the run.
Deselect ==
    /\ anchor' = NoAnchor
    /\ UNCHANGED <<text, line, col, stackVars, histVars>>
-----------------------------------------------------------------------------
Parts == {<<1>>, <<0, 1>>}

SameLines == [1..Len(text) -> 0..MaxLen]

Next ==
    \/ Insert \/ Backspace \/ Delete \/ DeleteLine \/ DuplicateLine
    \/ MoveLineUp \/ MoveLineDown \/ Undo \/ Redo \/ Deselect
    \/ \E ins \in Parts : InsertText(ins)
    \/ \E indent \in 0..1 : InsertNewline(indent)
    \/ \E p, q \in Positions : SelectRange(p, q) \/ \E ins \in Parts : ReplaceSpan(p, q, ins)
    \/ \E t \in SameLines : ReplaceMatches(t) \/ IndentLines(t)
    \/ \E t \in SameLines, c \in 0..MaxLen : ToggleComment(t, c)
    \/ \E p \in Positions : MoveTo(p) \/ DragSelect(p) \/ MoveToWithSelect(p)

Spec == Init /\ [][Next]_vars
-----------------------------------------------------------------------------
(* Properties.                                                             *)

Text == Seq(0..MaxLen)
Place == Nat \X Nat
Step == [text : Text, line : Nat, col : Nat]

TypeOK ==
    /\ text \in Text /\ text # <<>>
    /\ Caret \in Place /\ anchor \in Place /\ run \in Place
    /\ undo \in Seq(Step) /\ Len(undo) <= MaxUndo
    /\ redo \in Seq(Step)
    /\ first \in Texts
    /\ dropped \in BOOLEAN /\ selected \in BOOLEAN

\* Undo loses nothing: until the stack was full once, undoing everything gives
\* the loaded text back, whatever was typed in runs, undone, redone and edited.
FirstTextIsKept ==
    ~dropped => first = IF undo = <<>> THEN text ELSE Head(undo).text

\* Undo and redo restore a caret without clamping it: without selections the one
\* they recorded is a position of the text they recorded.
StepsLandInText ==
    ~selected => \A i \in DOMAIN (undo \o redo) :
        LET s == (undo \o redo)[i] IN InText(s.text, <<s.line, s.col>>)

\* Without selections the caret never leaves the text, whatever lines were
\* deleted, moved, joined, replaced or brought back under it.
CaretStaysInText == ~selected => InText(text, Caret)

\* Undo, redo and every command leave the caret where the text has a place for it.
CaretIsInText == StepsLandInText /\ CaretStaysInText
=============================================================================
