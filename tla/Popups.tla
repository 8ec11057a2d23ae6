------------------------------- MODULE Popups -------------------------------
(***************************************************************************)
(* The lists that pop up over the text - completion (completion.go), quick *)
(* fixes (lsp.go), references and outline (m10.go), the command palette    *)
(* (palette.go) and the scrolled help (editor.go) - as a selection and a   *)
(* window over a number of rows that changes under them; and the walk over *)
(* the diagnostics of a file with F8 (m10.go).  What the rows say is left  *)
(* out.                                                                    *)
(***************************************************************************)
EXTENDS Integers, Sequences, FiniteSets, Functions

CONSTANTS
    MaxRows,     \* bound of the model: rows of a list
    VisibleRows, \* complVisible, lspActionsVisible, paletteVisible and their like
    DiagSpots,   \* the positions a diagnostic may have, in the order of the text
    SpotLine     \* the line each of them is on

ASSUME PopupBoundsAssumption ==
    MaxRows \in Nat /\ VisibleRows \in Nat \ {0} /\ DiagSpots \subseteq Nat

ASSUME SpotLineAssumption ==
    /\ SpotLine \in [DiagSpots -> Nat]
    /\ \A a, b \in DiagSpots : a <= b => SpotLine[a] <= SpotLine[b]

VARIABLES
    popup,      \* the list on screen: [kind, rows, sel, off], or NoPopup
    diags,      \* the diagnostics of the tab, in the order of the report
    caretSpot,  \* the caret
    diagCursor, \* Model.diagCursor, counted from 1
    trail       \* history: where the last presses of one key stopped, one round of them

diagVars == <<diags, caretSpot, diagCursor, trail>>

PopupKinds == {"completion", "actions", "refs", "outline", "palette", "help"}
NoPopup  == [kind |-> "none", rows |-> 0, sel |-> 0, off |-> 0]

PopupInit ==
    /\ popup = NoPopup
    /\ diags \in UNION {[1..n -> DiagSpots] : n \in 0..3}
    /\ caretSpot \in DiagSpots /\ diagCursor = 1 /\ trail = <<1, <<>>>>
-----------------------------------------------------------------------------
Follow(sel, off) ==
    IF sel < off THEN sel
    ELSE IF sel >= off + VisibleRows THEN sel - VisibleRows + 1
    ELSE off

\* clampCompletion knows nothing of the number of rows.
ClampCompletion(p) == Follow(p.sel, p.off)

\* jumpLspActionsSel, clampRefsWindow, clampOutlineWindow.
ClampPanel(p) ==
    IF p.rows <= VisibleRows THEN 0
    ELSE LET off == Follow(p.sel, p.off)
         IN  IF off > p.rows - VisibleRows THEN p.rows - VisibleRows ELSE off

ClampPalette(p) ==
    IF p.rows <= VisibleRows THEN 0
    ELSE IF p.sel > p.rows - VisibleRows THEN p.rows - VisibleRows
    ELSE Follow(p.sel, p.off)

Clamped(p) ==
    [p EXCEPT !.off = CASE p.kind = "completion" -> ClampCompletion(p)
                        [] p.kind = "palette"    -> ClampPalette(p)
                        [] OTHER                 -> ClampPanel(p)]

WithinFromBelow(sel, rows) == IF sel >= rows THEN rows - 1 ELSE sel

Within(sel, rows) == IF sel < 0 THEN 0 ELSE IF sel >= rows THEN rows - 1 ELSE sel
-----------------------------------------------------------------------------
\* An answer with no rows opens nothing, but completion opens for what the
\* server may still find, and the palette with whatever there is.
OpenPopup(kind, rows) ==
    /\ popup.kind \in {"none", kind}
    /\ rows = 0 => kind \in {"completion", "palette"}
    /\ popup' = [kind |-> kind, rows |-> rows, sel |-> 0, off |-> 0]
    /\ UNCHANGED diagVars

\* up and down go round.
StepSelection(d) ==
    /\ popup.kind \in PopupKinds \ {"help"} /\ popup.rows > 0
    /\ popup' = Clamped([popup EXCEPT !.sel = (@ + d) % popup.rows])
    /\ UNCHANGED diagVars

\* pgup and pgdown, where a list has them, stop at its ends.
PageSelection(d) ==
    /\ popup.kind \in {"completion", "actions"} /\ popup.rows > 0
    /\ popup' = Clamped([popup EXCEPT !.sel = Within(@ + d * VisibleRows, popup.rows)])
    /\ UNCHANGED diagVars

\* The selection stays where it was.
MergeKeepingSelection(rows) ==
    /\ popup.kind = "completion"
    /\ popup' = IF rows = 0 THEN NoPopup ELSE [popup EXCEPT !.rows = rows]
    /\ UNCHANGED diagVars

\* mergeLSPCompletion: the answer of a server replaces the rows under the
\* selection.
MergeLSPCompletion(rows) ==
    /\ popup.kind = "completion"
    /\ popup' = IF rows = 0 THEN NoPopup
                ELSE IF popup.sel >= rows THEN [popup EXCEPT !.rows = rows, !.sel = 0, !.off = 0]
                ELSE [popup EXCEPT !.rows = rows]
    /\ UNCHANGED diagVars

\* A typed key filters the rows anew: triggerCompletion, handlePalette.
Refilter(rows) ==
    /\ popup.kind \in {"completion", "palette"}
    /\ popup' = [popup EXCEPT !.rows = rows, !.sel = 0, !.off = 0]
    /\ UNCHANGED diagVars

\* Escape, and Enter, which takes the selected row.
DismissPopup ==
    /\ popup # NoPopup /\ popup' = NoPopup /\ UNCHANGED diagVars

\* scrollHelp and the keys for its ends: help has an offset and no selection.
ScrollHelp ==
    LET last == IF popup.rows > VisibleRows THEN popup.rows - VisibleRows ELSE 0
    IN  /\ popup.kind = "help"
        /\ \E d \in {-1, 1, -popup.off, last - popup.off} :
              popup' = [popup EXCEPT !.off =
                            IF @ + d < 0 THEN 0 ELSE IF @ + d > last THEN last ELSE @ + d]
        /\ UNCHANGED diagVars
-----------------------------------------------------------------------------
\* sortedDiags: stable, by line and column.
SortedDiags ==
    LET Before(i, j) == diags[i] < diags[j] \/ (diags[i] = diags[j] /\ i < j)
    IN  [k \in 1..Len(diags) |->
            diags[CHOOSE i \in 1..Len(diags) :
                    Cardinality({j \in 1..Len(diags) : Before(j, i)}) = k - 1]]

\* Where the walk stopped last is not looked at.
AheadOnLine(d, ds) ==
    {i \in 1..Len(ds) :
        \/ d * SpotLine[ds[i]] > d * SpotLine[caretSpot]
        \/ SpotLine[ds[i]] = SpotLine[caretSpot] /\ d * ds[i] >= d * caretSpot}

\* Those on the lines ahead, and those on the caret's line from the caret on but
\* the one the walk stopped at last, which may be the one under the caret.
Ahead(d, ds) ==
    {i \in 1..Len(ds) :
        \/ d * SpotLine[ds[i]] > d * SpotLine[caretSpot]
        \/ SpotLine[ds[i]] = SpotLine[caretSpot] /\ d * ds[i] >= d * caretSpot /\ diagCursor # i}

\* The first of them in the direction; round at the ends.
NextPlace(d, ds) ==
    LET ahead == Ahead(d, ds)
    IN  IF d > 0
        THEN IF ahead = {} THEN 1 ELSE CHOOSE i \in ahead : \A j \in ahead : i <= j
        ELSE IF ahead = {} THEN Len(ds) ELSE CHOOSE i \in ahead : \A j \in ahead : i >= j

\* The last stops in direction d with one more, as many as there are diagnostics.
Trail(d, place) ==
    LET t == IF trail[1] = d THEN Append(trail[2], place) ELSE <<place>>
    IN  IF Len(t) > Len(diags) THEN Tail(t) ELSE t

\* nextDiagnostic, F8 and Shift+F8.
NextDiagnostic(d) ==
    /\ diagCursor' = IF diags = <<>> THEN 1 ELSE NextPlace(d, SortedDiags)
    /\ caretSpot' = IF diags = <<>> THEN caretSpot ELSE SortedDiags[diagCursor']
    /\ trail' = IF diags = <<>> THEN trail ELSE <<d, Trail(d, diagCursor')>>
    /\ UNCHANGED <<popup, diags>>

\* lspDiagMsg: a new report replaces the file's diagnostics.
ReportDiags(n) ==
    /\ n # Len(diags)
    /\ diags' = SubSeq(diags, 1, n)
    /\ trail' = <<1, <<>>>>
    /\ UNCHANGED <<popup, caretSpot, diagCursor>>

MoveCaret ==
    /\ caretSpot' \in DiagSpots \ {caretSpot}
    /\ trail' = <<1, <<>>>>
    /\ UNCHANGED <<popup, diags, diagCursor>>

PopupNext ==
    \/ \E kind \in PopupKinds, rows \in 0..MaxRows : OpenPopup(kind, rows)
    \/ \E d \in {-1, 1} : StepSelection(d) \/ PageSelection(d) \/ NextDiagnostic(d)
    \/ \E rows \in 0..MaxRows : MergeLSPCompletion(rows) \/ Refilter(rows)
    \/ DismissPopup \/ ScrollHelp \/ MoveCaret
    \/ \E n \in 0..Len(diags) : ReportDiags(n)

PopupSpec == PopupInit /\ [][PopupNext]_<<popup, diagVars>>
-----------------------------------------------------------------------------
PopupTypeOK ==
    /\ popup.kind \in PopupKinds \cup {"none"}
    /\ {popup.rows, popup.sel, popup.off} \subseteq 0..MaxRows
    /\ diagCursor \in 1..3 /\ caretSpot \in DiagSpots

\* The selected row is one of the list and inside the window, however the rows
\* were replaced under it by the answer of a server.
SelectionShown ==
    popup.rows > 0 =>
        /\ popup.kind # "help" => popup.off <= popup.sel
        /\ popup.sel < popup.rows /\ popup.sel < popup.off + VisibleRows
        /\ popup.kind # "completion" /\ popup.rows > VisibleRows =>
               popup.off + VisibleRows <= popup.rows

\* As many presses of F8, or of Shift+F8, as the file has diagnostics stop at
\* every one of them, wherever the caret was and whatever was reported before,
\* when no two are at one position.
WalkPassesAll ==
    Len(trail[2]) = Len(diags) /\ IsInjective(diags) => Range(trail[2]) = DOMAIN diags
=============================================================================
