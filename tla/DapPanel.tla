------------------------------ MODULE DapPanel ------------------------------
(***************************************************************************)
(* The debug panel (editor/dap.go, dap_panel.go): the focus over the lists *)
(* of threads, frames and variables and the evaluator's row, a selection   *)
(* in each list, the levels of expanded variables, and the console with    *)
(* its backlog of limited size that can be scrolled back.  Of a list only  *)
(* its length is kept, of a console line its number.                       *)
(***************************************************************************)
EXTENDS Integers, Sequences

CONSTANTS
    MaxEntries,    \* bound of the model: entries of a list
    MaxLevels,     \* bound of the model: levels of expanded variables
    MaxPrinted,    \* bound of the model: lines the program prints
    DapConsoleMax, \* dapConsoleMax: lines the console keeps
    DapHeights     \* the heights the panel may have, without header and titles

ASSUME DapPanelAssumption ==
    /\ MaxEntries \in Nat /\ MaxLevels \in Nat \ {0} /\ MaxPrinted \in Nat
    /\ DapConsoleMax \in Nat \ {0} /\ DapHeights \subseteq Nat \ {0}

VARIABLES
    dapFocus,    \* "threads", "frames", "vars" or "input"
    entries,     \* how many threads and frames are shown
    varStack,    \* dapVarStack: the variables of each level
    selected,    \* dapSelThread, dapSelFrame, dapVarSel
    panelRows,   \* debugPanelHeight, without header and titles
    typed,       \* dapIn: whether the evaluator's row holds text
    printed,     \* the number of the newest line of the console
    kept,        \* how many lines the console holds
    scroll       \* dapConsoleScroll: lines back from the newest

listVars    == <<dapFocus, entries, varStack, selected, panelRows, typed>>
consoleVars == <<printed, kept, scroll>>

Lists == {"threads", "frames", "vars"}
Order == <<"threads", "frames", "vars", "input">>

DapPanelInit ==
    /\ dapFocus = "threads"
    /\ entries = [l \in {"threads", "frames"} |-> 0] /\ varStack = <<>>
    /\ selected = [l \in Lists |-> 0]
    /\ panelRows \in DapHeights /\ typed = FALSE
    /\ printed = 0 /\ kept = 0 /\ scroll = 0

CurrentVars == IF varStack = <<>> THEN 0 ELSE varStack[Len(varStack)]
Total(l) == IF l = "vars" THEN CurrentVars ELSE entries[l]
Clip(i, lo, hi) == IF i > hi THEN hi ELSE IF i < lo THEN lo ELSE i

\* dapInputVisible and dapListRows: the evaluator's row takes one of the lists'.
InputVisible == dapFocus = "input" \/ typed
ListRows == IF InputVisible /\ panelRows > 1 THEN panelRows - 1 ELSE panelRows
-----------------------------------------------------------------------------
\* Tab and Shift+Tab walk the three lists and the row of the evaluator.
Tab(d) ==
    /\ \E k \in 1..4 : /\ Order[k] = dapFocus
                       /\ dapFocus' = Order[((k - 1 + d) % 4) + 1]
    /\ UNCHANGED <<entries, varStack, selected, panelRows, typed, consoleVars>>

\* Escape closes the panel and leaves the evaluator's row empty.
Escape ==
    /\ dapFocus' = "threads" /\ typed' = FALSE
    /\ UNCHANGED <<entries, varStack, selected, panelRows, consoleVars>>

\* Text typed into the evaluator's row, and text run from it or deleted, which
\* Backspace does in a list too.
TypeExpression ==
    /\ dapFocus = "input" /\ typed' = TRUE
    /\ UNCHANGED <<dapFocus, entries, varStack, selected, panelRows, consoleVars>>
EmptyExpression ==
    /\ typed /\ typed' = FALSE
    /\ UNCHANGED <<dapFocus, entries, varStack, selected, panelRows, consoleVars>>

\* growDapPanel, and windows of other heights (debugPanelHeight).
ResizePanel ==
    /\ panelRows' \in DapHeights \ {panelRows}
    /\ UNCHANGED <<dapFocus, entries, varStack, selected, typed, consoleVars>>

\* dapSetSel, reached by arrows that go round, pages and edges that stop, on
\* the list in focus.
SetSel(i) == selected' = [selected EXCEPT ![dapFocus] =
                 IF Total(dapFocus) = 0 THEN 0 ELSE Clip(i, 0, Total(dapFocus) - 1)]

MoveSel ==
    /\ dapFocus \in Lists
    /\ LET total == Total(dapFocus)
           at    == selected[dapFocus]
       IN  \/ \E d \in {-1, 1} :
                 SetSel(IF total = 0 THEN 0 ELSE (at + d + total) % total)
           \/ \E d \in {-1, 1} : SetSel(at + d * ListRows)
           \/ SetSel(0) \/ SetSel(total - 1)
    /\ UNCHANGED <<dapFocus, entries, varStack, panelRows, typed, consoleVars>>

\* dapSelectThread, dapSelectFrame, dapSelectVar: a click on an entry.  Another
\* thread has a stack of its own.
ClickEntry(l, i) ==
    /\ i < Total(l)
    /\ dapFocus' = l
    /\ selected' = [selected EXCEPT ![l] = i,
                      !["frames"] = IF l = "threads" /\ selected[l] # i THEN 0
                                    ELSE IF l = "frames" THEN i ELSE @]
    /\ UNCHANGED <<entries, varStack, panelRows, typed, consoleVars>>

\* Left and Backspace, with nothing typed, walk back out of an expanded variable.
CollapseVar ==
    /\ dapFocus = "vars" /\ ~typed /\ Len(varStack) > 1
    /\ varStack' = SubSeq(varStack, 1, Len(varStack) - 1)
    /\ selected' = [selected EXCEPT !["vars"] = 0]
    /\ UNCHANGED <<dapFocus, entries, panelRows, typed, consoleVars>>

\* applyDAPRefresh.  Threads, frames and variables come as far as they could be
\* fetched: a part that failed, 0 here, leaves what is shown.
Fetched(l, n) == IF n = 0 THEN entries[l] ELSE n
KeptAnyway(l, n) == selected[l]

Kept(l, n)    == IF selected[l] >= Fetched(l, n) /\ Fetched(l, n) > 0 THEN 0 ELSE selected[l]

ApplyDapRefresh(threads, frames, vars) ==
    /\ frames > 0 => threads > 0
    /\ vars > 0 => frames > 0
    /\ entries' = [l \in {"threads", "frames"} |->
                      Fetched(l, IF l = "threads" THEN threads ELSE frames)]
    /\ varStack' = IF vars = 0 THEN varStack ELSE <<vars>>
    /\ selected' = [selected EXCEPT !["threads"] = Kept("threads", threads),
                                    !["frames"]  = Kept("frames", frames),
                                    !["vars"]    = IF vars = 0 THEN @ ELSE 0]
    /\ UNCHANGED <<dapFocus, panelRows, typed, consoleVars>>

\* dapExpandVarsCmd answered: another level, whatever was collapsed, continued
\* or released since it was asked for.
PushVars(n) ==
    /\ n > 0 /\ Len(varStack) < MaxLevels
    /\ varStack' = Append(varStack, n)
    /\ selected' = [selected EXCEPT !["vars"] = 0]
    /\ UNCHANGED <<dapFocus, entries, panelRows, typed, consoleVars>>

\* The program stopped: everything is asked for anew.
PanelStopped ==
    /\ entries' = [l \in {"threads", "frames"} |-> 0] /\ varStack' = <<>>
    /\ selected' = [l \in Lists |-> 0]
    /\ UNCHANGED <<dapFocus, panelRows, typed, consoleVars>>

\* The program goes on; the session is released or lost, with its threads too.
PanelContinued ==
    /\ \/ entries' = [entries EXCEPT !["frames"] = 0]
       \/ entries' = [l \in {"threads", "frames"} |-> 0]
    /\ varStack' = <<>>
    /\ UNCHANGED <<dapFocus, selected, panelRows, typed, consoleVars>>
-----------------------------------------------------------------------------
\* clampDapConsoleScroll, called when the console is printed to or scrolled: a
\* panel that changes its height leaves the scroll as it is.
ScrollWithin(off, n) == Clip(off, 0, IF n > ListRows THEN n - ListRows ELSE 0)

DapAppendConsoleForEver ==
    /\ printed < MaxPrinted
    /\ printed' = printed + 1 /\ kept' = kept + 1
    /\ scroll' = IF scroll > 0 THEN ScrollWithin(scroll + 1, kept + 1) ELSE 0
    /\ UNCHANGED listVars

\* dapAppendConsole: beyond dapConsoleMax the oldest line is dropped.
DapAppendConsole ==
    LET dropped == IF kept = DapConsoleMax THEN 1 ELSE 0
        n       == kept + 1 - dropped
    IN  /\ printed < MaxPrinted
        /\ printed' = printed + 1 /\ kept' = n
        /\ scroll' = IF scroll > 0 THEN ScrollWithin(scroll + 1 - dropped, n) ELSE 0
        /\ UNCHANGED listVars

\* dapScrollConsole and dapConsoleToEdge.
DapScrollConsole ==
    /\ \E off \in {scroll - 1, scroll + 1, scroll - ListRows, scroll + ListRows, kept, 0} :
          scroll' = ScrollWithin(off, kept)
    /\ UNCHANGED <<printed, kept, listVars>>

DapClearConsoleWhereItIs ==
    /\ kept' = 0
    /\ UNCHANGED <<printed, scroll, listVars>>

DapClearConsole ==
    /\ kept' = 0 /\ scroll' = 0
    /\ UNCHANGED <<printed, listVars>>

\* dapConsoleWindow: the newest line shown.
LastShown == printed - Clip(scroll, 0, IF kept > ListRows THEN kept - ListRows ELSE 0)

\* dapWindowStart: the first entry of a list that is drawn.
WindowStart(l) ==
    IF Total(l) <= ListRows THEN 0
    ELSE Clip(selected[l] - ListRows \div 2, 0, Total(l) - ListRows)

DapPanelNext ==
    \/ \E d \in {1, 3} : Tab(d)
    \/ Escape \/ TypeExpression \/ EmptyExpression \/ ResizePanel
    \/ MoveSel \/ CollapseVar \/ PanelStopped \/ PanelContinued
    \/ \E l \in Lists, i \in 0..MaxEntries : ClickEntry(l, i)
    \/ \E n, k, v \in 0..MaxEntries : ApplyDapRefresh(n, k, v)
    \/ \E n \in 1..MaxEntries : PushVars(n)
    \/ DapAppendConsole \/ DapScrollConsole \/ DapClearConsole

DapPanelSpec == DapPanelInit /\ [][DapPanelNext]_<<listVars, consoleVars>>
-----------------------------------------------------------------------------
DapPanelTypeOK ==
    /\ dapFocus \in Lists \cup {"input"}
    /\ entries \in [{"threads", "frames"} -> 0..MaxEntries]
    /\ selected \in [Lists -> 0..MaxEntries]
    /\ panelRows \in DapHeights /\ typed \in BOOLEAN
    /\ kept \in 0..DapConsoleMax

\* What is highlighted in a list that has entries is one of them, and among the
\* rows the list draws, however snapshots that failed half-way, late answers and
\* releases replace the lists and the panel changes its height.
SelectionExists ==
    \A l \in Lists : Total(l) > 0 =>
        /\ selected[l] < Total(l)
        /\ selected[l] \in WindowStart(l)..(WindowStart(l) + ListRows - 1)

\* The console is never scrolled past the oldest line it keeps, whatever was
\* printed, dropped or cleared since and however high the panel is now.
ScrollStaysInside == scroll < kept \/ scroll = 0

\* Not among the runs.  "walks the console backlog by d lines"
\* (editor/dap_panel.go:405): a step towards newer output that is not at the newest
\* shows a newer line.  After the panel has grown the first steps show none.
StepsDownShow ==
    [][ printed' = printed /\ kept' = kept /\ ListRows' = ListRows
        /\ scroll > 0 /\ scroll' < scroll => LastShown' > LastShown ]_<<listVars, consoleVars>>

\* A reader scrolled back through the console stays on the same lines while new
\* output arrives - and while old lines fall off the top of the kept window.
ReaderStays ==
    [][ printed' = printed + 1 /\ scroll > 0 /\ LastShown - ListRows >= printed' - kept'
            => LastShown' = LastShown ]_<<listVars, consoleVars>>
=============================================================================
