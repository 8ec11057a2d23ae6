------------------------------ MODULE Quitting ------------------------------
(***************************************************************************)
(* The ways unsaved text can go: closing a tab, deleting its file,         *)
(* quitting, the confirmation and the save prompt (internal/editor/tabs.go *)
(* and prompt.go).                                                         *)
(*                                                                         *)
(* The palette, the mouse and the global chords reach the commands while a *)
(* dialog is open, so no command but a dialog's own answers is guarded by  *)
(* one.  Which tab is shown after another one closed is the matter of      *)
(* Panes; any tab may be, here.                                            *)
(***************************************************************************)
EXTENDS Naturals, SequencesExt

CONSTANT MaxTabs   \* bound of the model: tabs open at once

ASSUME BoundAssumption == MaxTabs \in Nat \ {0}

VARIABLES
    tabs,         \* m.tabs: has it a path, is its buffer dirty
    shown,        \* activeTabIndex(), from 1
    quitConfirm,  \* the question "save before quitting?" is open
    quitTab,      \* it is about closing one tab
    pendingQuit,  \* a save on behalf of quitting is to come
    promptSave,   \* the prompt for a file name is open
    running,      \* FALSE after shutdown and tea.Quit
    discarded     \* history: the user answered "n", do not save

dialogVars == <<quitConfirm, quitTab, pendingQuit, promptSave>>
vars == <<tabs, shown, dialogVars, running, discarded>>

TabType == [named : BOOLEAN, dirty : BOOLEAN]
NewTab(named) == [named |-> named, dirty |-> FALSE]

Cur      == tabs[shown]
HasDirty == \E i \in DOMAIN tabs : tabs[i].dirty

Init ==
    /\ \E named \in BOOLEAN : tabs = <<NewTab(named)>>
    /\ shown = 1
    /\ quitConfirm = FALSE /\ quitTab = FALSE /\ pendingQuit = FALSE /\ promptSave = FALSE
    /\ running = TRUE /\ discarded = FALSE
-----------------------------------------------------------------------------
\* setActiveTab and its callers.
Focus ==
    /\ shown' \in DOMAIN tabs
    /\ UNCHANGED <<tabs, dialogVars, running>>

OpenPath ==
    /\ Len(tabs) < MaxTabs
    /\ tabs' = Append(tabs, NewTab(TRUE))
    /\ shown' = Len(tabs')
    /\ UNCHANGED <<dialogVars, running>>

\* Any change of a buffer, by the user, a plugin, the language server or a reload.
Edit ==
    /\ \E i \in DOMAIN tabs, dirty \in BOOLEAN : tabs' = [tabs EXCEPT ![i].dirty = dirty]
    /\ UNCHANGED <<shown, dialogVars, running>>

\* A write of the tab that is shown; one that fails leaves it dirty.
Written == tabs' = [tabs EXCEPT ![shown].dirty = FALSE] \/ UNCHANGED tabs

\* saveActive.
SaveActive ==
    /\ Cur.named
    /\ Written
    /\ UNCHANGED <<shown, dialogVars, running>>
-----------------------------------------------------------------------------
(* Closing and quitting.                                                   *)

RequestQuit_ShownOnly ==
    IF Cur.dirty THEN quitConfirm' = TRUE /\ UNCHANGED running
    ELSE running' = FALSE /\ UNCHANGED quitConfirm

\* requestQuit.
RequestQuit ==
    IF HasDirty THEN quitConfirm' = TRUE /\ UNCHANGED running
    ELSE running' = FALSE /\ UNCHANGED quitConfirm

CloseTabAt_FocusKept(i) ==
    IF Len(tabs) = 1
    THEN RequestQuit /\ UNCHANGED <<tabs, shown>>
    ELSE tabs' = RemoveAt(tabs, i) /\ UNCHANGED <<shown, quitConfirm, running>>

\* closeTabAt asks about the last tab only.
CloseTabAt(i) ==
    IF Len(tabs) = 1
    THEN RequestQuit /\ UNCHANGED <<tabs, shown>>
    ELSE /\ tabs' = RemoveAt(tabs, i) /\ shown' \in DOMAIN tabs'
         /\ UNCHANGED <<quitConfirm, running>>

\* ctrl+q.
Quit ==
    /\ RequestQuit
    /\ UNCHANGED <<tabs, shown, quitTab, pendingQuit, promptSave>>

\* The middle button on the tab bar, and the palette's "close tab".
MiddleClick ==
    /\ \E i \in DOMAIN tabs : CloseTabAt(i)
    /\ UNCHANGED <<quitTab, pendingQuit, promptSave>>

\* closeActiveTab, ctrl+w: a dirty tab asks first.
CloseActiveTab ==
    /\ IF Cur.dirty
       THEN /\ quitConfirm' = TRUE /\ pendingQuit' = TRUE
            /\ quitTab' = (Len(tabs) > 1)
            /\ UNCHANGED <<tabs, shown, running>>
       ELSE /\ CloseTabAt(shown)
            /\ UNCHANGED <<quitTab, pendingQuit>>
    /\ UNCHANGED promptSave

\* dropTabsUnder: the tabs of a deleted file or folder go, dirty or not.
DropTabsUnder ==
    /\ \/ \E n \in 1..Len(tabs) - 1 : \E kept \in [1..n -> DOMAIN tabs] :
             /\ \A j, k \in 1..n : j < k => kept[j] < kept[k]
             /\ \A i \in DOMAIN tabs : tabs[i].named \/ \E k \in 1..n : kept[k] = i
             /\ tabs' = [k \in 1..n |-> tabs[kept[k]]]
       \/ /\ \A i \in DOMAIN tabs : tabs[i].named
          /\ tabs' = <<NewTab(FALSE)>>
    /\ shown' \in DOMAIN tabs'
    /\ UNCHANGED <<dialogVars, running>>
-----------------------------------------------------------------------------
(* The dialogs.                                                            *)

\* ctrl+s without a path, and the palette's "save as".
StartSavePrompt ==
    /\ promptSave' = TRUE
    /\ UNCHANGED <<tabs, shown, quitConfirm, quitTab, pendingQuit, running>>

SavePromptEsc ==
    /\ promptSave
    /\ promptSave' = FALSE /\ pendingQuit' = FALSE
    /\ UNCHANGED <<tabs, shown, quitConfirm, quitTab, running>>

\* handleSavePrompt: with no name, or when the write fails, the prompt closes and
\* pendingQuit stays; after a write the wish to quit is granted.
SavePromptEnter ==
    /\ promptSave
    /\ promptSave' = FALSE
    /\ \/ UNCHANGED <<tabs, pendingQuit, running>>
       \/ /\ tabs' = [tabs EXCEPT ![shown].named = TRUE]
          /\ UNCHANGED <<pendingQuit, running>>
       \/ /\ tabs' = [tabs EXCEPT ![shown] = NewTab(TRUE)]
          /\ pendingQuit' = FALSE /\ running' = ~pendingQuit
    /\ UNCHANGED <<shown, quitConfirm, quitTab>>

\* handleQuitConfirm has the keys when the save prompt does not.
Asked == quitConfirm /\ ~promptSave

Settled == quitConfirm' = FALSE /\ pendingQuit' = FALSE /\ quitTab' = FALSE

ConfirmEsc ==
    /\ Asked
    /\ Settled
    /\ UNCHANGED <<tabs, shown, promptSave, running>>

ConfirmYes_Trusting ==
    /\ Asked
    /\ Cur.named /\ Written /\ running' = FALSE
    /\ Settled
    /\ UNCHANGED <<shown, promptSave>>

\* "y" saves the tab that is shown and no other, and quits when that succeeded.
\* quitTab is reset before it is tested, so a confirmed close of one tab quits too.
ConfirmYes ==
    /\ Asked
    /\ \/ /\ ~Cur.named
          /\ quitConfirm' = FALSE /\ pendingQuit' = TRUE /\ promptSave' = TRUE
          /\ UNCHANGED <<tabs, quitTab, running>>
       \/ /\ Cur.named
          /\ Written /\ running' = tabs'[shown].dirty
          /\ Settled
          /\ UNCHANGED promptSave
    /\ UNCHANGED shown

ConfirmNo ==
    /\ Asked
    /\ Settled
    /\ running' = FALSE /\ discarded' = TRUE
    /\ UNCHANGED <<tabs, shown, promptSave>>
-----------------------------------------------------------------------------
Editing   == Focus \/ OpenPath \/ Edit \/ SaveActive
Closing   == Quit \/ MiddleClick \/ CloseActiveTab \/ DropTabsUnder
Prompting == StartSavePrompt \/ SavePromptEsc \/ SavePromptEnter
Answering == ConfirmEsc \/ ConfirmYes

Next ==
    /\ running
    /\ \/ (Editing \/ Closing \/ Prompting \/ Answering) /\ UNCHANGED discarded
       \/ ConfirmNo

Spec == Init /\ [][Next]_vars
-----------------------------------------------------------------------------
(* Properties.                                                             *)

TypeOK ==
    /\ tabs \in Seq(TabType) /\ Len(tabs) \in 1..MaxTabs
    /\ shown \in DOMAIN tabs
    /\ quitConfirm \in BOOLEAN /\ quitTab \in BOOLEAN /\ pendingQuit \in BOOLEAN
    /\ promptSave \in BOOLEAN /\ running \in BOOLEAN /\ discarded \in BOOLEAN

\* The program ends over unsaved text, in whichever tab, only by a dialog: an answer
\* to the question, or a save that was asked for by one.
QuitNeedsAnAnswer ==
    [][~running' /\ HasDirty => Asked \/ (promptSave /\ pendingQuit)]_vars

\* The program has ended over unsaved text on screen.
ShownTextIsLost == ~running /\ Cur.dirty

\* It does only if the user answered "n": "y" does not when the write fails, and
\* neither does the prompt it opens.
QuitKeepsTheShownTab == ShownTextIsLost => discarded

\* quitTab is "true if confirming close of a single tab (not quit)": an answer to
\* that question does not end the program.
CloseKeepsTheEditor ==
    [][(ConfirmYes \/ ConfirmNo) /\ quitTab /\ Len(tabs) > 1 => running']_vars

\* Unsaved text is left only by an answer, and the text on screen only by "n".
QuitIsAnswered == QuitNeedsAnAnswer /\ [](ShownTextIsLost => discarded)
=============================================================================
