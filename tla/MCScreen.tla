------------------------------ MODULE MCScreen ------------------------------
(* Tabs and panels.  A behaviour is of one part, its scene.                 *)
(*                                                                          *)
(* panes: three tabs, one can close before, between and after the others,   *)
(* and two at once below, above and around the one a pane shows.  quitting: *)
(* the tab on screen, the one a question was about, and another.  git:      *)
(* lists of up to two rows in a view that holds one or two.  popups: three  *)
(* rows in a list of two, three diagnostics on three spots of two lines.    *)
(* panel: two entries a list, two levels of variables, a console of four    *)
(* lines, in a panel of two or three rows, one fewer with the evaluator's.  *)
(* conflicts: every text of four lines, and two conflicts, whole or broken, *)
(* in one.  diff: four runs of up to two lines in a view of two.            *)
EXTENDS Panes, Quitting, GitPanel, Popups, DapPanel, MergeConflicts, GitDiff

VARIABLE scene

TwoOnALine == <<1, 1, 2>>

Conflicts  == {<<Ours, Sep, Theirs>>, <<Ours, "a", Sep, "a", "a", Theirs>>,
               <<Ours, "a", Base, "a", Sep, Theirs>>, <<Ours, Theirs, Sep, Sep, Theirs>>,
               <<Ours, Sep, Base, Theirs>>}
Between    == {<<>>, <<"a">>, <<Sep>>, <<Ours>>, <<Theirs>>}
Conflicted == UNION {[1..n -> {"a", Ours, Base, Sep, Theirs}] : n \in 1..4}
              \cup {<<"a">> \o c \o m \o d : c \in Conflicts, m \in Between, d \in Conflicts}

popupVars == <<popup, diagVars>>
dapPanelVars == <<listVars, consoleVars>>
-----------------------------------------------------------------------------
ScreenInit ==
    /\ scene \in {"panes", "quitting", "git", "popups", "panel", "conflicts", "diff"}
    /\ PanesInit /\ Init /\ GpInit /\ PopupInit /\ DapPanelInit /\ McfInit /\ GdInit
    /\ scene # "panes" => opened = 1
    /\ scene # "quitting" => tabs = <<NewTab(TRUE)>>
    /\ scene # "popups" => diags = <<>> /\ \A d \in DiagSpots : caretSpot <= d

PanesScene ==
    scene = "panes" /\ PanesNext
    /\ UNCHANGED <<scene, vars, gpVars, popupVars, dapPanelVars, mcfVars, gdVars>>
QuittingScene ==
    scene = "quitting" /\ Next
    /\ UNCHANGED <<scene, paneVars, gpVars, popupVars, dapPanelVars, mcfVars, gdVars>>
GitScene ==
    scene = "git" /\ GpNext
    /\ UNCHANGED <<scene, paneVars, vars, popupVars, dapPanelVars, mcfVars, gdVars>>
PopupsScene ==
    scene = "popups" /\ PopupNext
    /\ UNCHANGED <<scene, paneVars, vars, gpVars, dapPanelVars, mcfVars, gdVars>>
PanelScene ==
    scene = "panel" /\ DapPanelNext
    /\ UNCHANGED <<scene, paneVars, vars, gpVars, popupVars, mcfVars, gdVars>>
ConflictsScene ==
    scene = "conflicts" /\ McfNext
    /\ UNCHANGED <<scene, paneVars, vars, gpVars, popupVars, dapPanelVars, gdVars>>
DiffScene ==
    scene = "diff" /\ GdNext
    /\ UNCHANGED <<scene, paneVars, vars, gpVars, popupVars, dapPanelVars, mcfVars>>

ScreenNext == PanesScene \/ QuittingScene \/ GitScene \/ PopupsScene \/ PanelScene
              \/ ConflictsScene \/ DiffScene

ScreenSpec ==
    ScreenInit
    /\ [][ScreenNext]_<<scene, paneVars, vars, gpVars, popupVars, dapPanelVars, mcfVars, gdVars>>

-----------------------------------------------------------------------------
\* Types of the seven parts; a walk through the tabs lists each once.
ScreenTypeOK ==
    /\ TypeOK /\ PanesTypeOK /\ WalkIsAPermutation /\ GpTypeOK
    /\ PopupTypeOK /\ DapPanelTypeOK /\ McfTypeOK /\ GdTypeOK

\* Lists that shrink, grow or are replaced under their selection.  The selected
\* row exists: of the git panel's files and commits, of a popup, of the debugger's
\* threads, frames and variables.  It is among the rows shown: of a popup and of
\* the debugger's lists always, of files and commits when the selection has moved.
\* A focused diff is there, the console is scrolled to a line it keeps, and F8
\* comes past all diagnostics no two of which are at one position.  The list of
\* branches and the rows the log draws are left out: they fail (GitPanel,
\* BranchSelectionExists and DrawnRowsExist).
ListsAreShown ==
    /\ [](GitSelectionsExist /\ FocusedDiffIsShown)
    /\ MovedSelectionIsShown
    /\ [](SelectionShown /\ WalkPassesAll)
    /\ [](SelectionExists /\ ScrollStaysInside)
=============================================================================
