------------------------------- MODULE Panes -------------------------------
(***************************************************************************)
(* Tabs, the panes that show them, each pane's recency and the walk        *)
(* through it (internal/editor/tabs.go and split.go).  Everything in a     *)
(* pane is an index into m.tabs, and every close renumbers the indices.    *)
(*                                                                         *)
(* Indices count from 1, and the layout is split iff there are two panes.  *)
(* Paths, buffers and whether a close asks first are left out (the latter  *)
(* is Quitting): a tab is an id, which the code does not have.             *)
(***************************************************************************)
EXTENDS Naturals, FiniteSets, SequencesExt, Removal

CONSTANT MaxOpened   \* bound of the model: tabs ever opened

ASSUME MaxOpenedAssumption == MaxOpened \in Nat \ {0}

VARIABLES
    paneTabs,     \* m.tabs: the ids of the open tabs
    panes,    \* m.panes: one or two panes
    active,   \* activePane
    opened    \* how many tabs were opened: the last id

paneVars == <<paneTabs, panes, active, opened>>

Pane(i) == [shows |-> i, recent |-> <<>>, walk |-> <<>>, pos |-> 0]

Shown   == panes[active].shows
IsSplit == Len(panes) = 2

\* editor.New and initPanes: of the files the command line or the session named the
\* last one is shown.  (The session's own choice is then a SetActiveTab.)
PanesInit ==
    /\ opened \in 1..MaxOpened
    /\ paneTabs = [i \in 1..opened |-> i]
    /\ panes = <<Pane(opened)>> /\ active = 1
-----------------------------------------------------------------------------
(* Focus.                                                                  *)

\* recordRecent.
RecordRecent(recent, i) == <<i>> \o Without(recent, {i})

\* setActiveTab, for a pane: a change of the tab is recorded and ends a walk.
Showing(p, i) ==
    IF p.shows = i THEN p
    ELSE [shows |-> i, recent |-> RecordRecent(p.recent, p.shows), walk |-> <<>>, pos |-> 0]

\* A click on the tab bar, alt+1, the next tab, focusOrOpen of a file in a tab.
SetActiveTab(i) ==
    /\ panes' = [panes EXCEPT ![active] = Showing(@, i)]
    /\ UNCHANGED <<paneTabs, active, opened>>

\* openPath.
OpenTab ==
    /\ opened < MaxOpened
    /\ opened' = opened + 1
    /\ paneTabs' = Append(paneTabs, opened + 1)
    /\ panes' = [panes EXCEPT ![active] = Showing(@, Len(paneTabs) + 1)]
    /\ UNCHANGED active

\* recency: the tab shown, those the pane moved off, then the others in order.
Recency(p) ==
    LET known == <<p.shows>> \o Without(p.recent, {p.shows})
    IN known \o Without([i \in DOMAIN paneTabs |-> i], ToSet(known))

\* mruTab: one step along the order frozen by the first press, recorded nowhere.
MruTab ==
    LET p    == panes[active]
        list == IF p.walk = <<>> THEN Recency(p) ELSE p.walk
        pos  == (p.pos + 1) % Len(list)
    IN /\ Len(list) >= 2
       /\ panes' = [panes EXCEPT ![active] =
                      [@ EXCEPT !.walk = list, !.pos = pos, !.shows = list[pos + 1]]]
       /\ UNCHANGED <<paneTabs, active, opened>>

\* findOtherTabIdx: the next tab, or the one before the last.
OtherTab ==
    CASE Len(paneTabs) = 1     -> 1
      [] Shown < Len(paneTabs) -> Shown + 1
      [] OTHER             -> Shown - 1

\* splitVert, splitHoriz.
SplitPane ==
    /\ ~IsSplit
    /\ panes' = Append(panes, Pane(OtherTab))
    /\ active' = 2
    /\ UNCHANGED <<paneTabs, opened>>

\* focusOtherPane, and a click into the other pane.
FocusOtherPane ==
    /\ IsSplit
    /\ active' = 3 - active
    /\ UNCHANGED <<paneTabs, panes, opened>>

\* Closing the active pane leaves the other one.
OtherOnly == IF IsSplit THEN <<panes[3 - active]>> ELSE panes

ClosePane ==
    /\ IsSplit
    /\ panes' = OtherOnly /\ active' = 1
    /\ UNCHANGED <<paneTabs, opened>>
-----------------------------------------------------------------------------
(* Closing.                                                                *)

\* How many of the first i tabs are left: a remaining tab's new index.
Left(i, closed) == Cardinality((1..i) \ closed)

AfterClose_Unshifted(p, closed) ==
    [p EXCEPT !.shows  = IF Left(@, closed) = 0 THEN 1 ELSE Left(@, closed),
              !.recent = Without(@, closed),
              !.walk = <<>>, !.pos = 0]

AfterClose_ShowsKept(p, closed) ==
    LET kept == Without(p.recent, closed)
        all  == Cardinality(DOMAIN paneTabs \ closed)
    IN [p EXCEPT !.shows  = IF @ > all THEN all ELSE @,
                 !.recent = [k \in DOMAIN kept |-> Left(kept[k], closed)],
                 !.walk = <<>>, !.pos = 0]

AfterClose_WalkOn(p, closed) ==
    LET kept == Without(p.recent, closed)
    IN [p EXCEPT !.shows  = IF Left(@, closed) = 0 THEN 1 ELSE Left(@, closed),
                 !.recent = [k \in DOMAIN kept |-> Left(kept[k], closed)]]

\* fixPaneTabsAfterClose once for each closed index, the highest first: a pane on a
\* closed tab goes to the one before it, the recency drops the closed tabs.
AfterClose(p, closed) ==
    LET kept == Without(p.recent, closed)
    IN [p EXCEPT !.shows  = IF Left(@, closed) = 0 THEN 1 ELSE Left(@, closed),
                 !.recent = [k \in DOMAIN kept |-> Left(kept[k], closed)],
                 !.walk = <<>>, !.pos = 0]

Renumbered(ps, closed) == [k \in DOMAIN ps |-> AfterClose(ps[k], closed)]

\* closeTabAt, for any tab: a split collapses to the pane that is not active.
ClosePanesTab(i) ==
    /\ Len(paneTabs) > 1
    /\ paneTabs' = RemoveAt(paneTabs, i)
    /\ panes' = Renumbered(OtherOnly, {i})
    /\ active' = 1
    /\ UNCHANGED opened

\* dropTabsUnder, when a file or a folder was deleted: a split stays.
DropTabs(closed) ==
    /\ closed # DOMAIN paneTabs
    /\ paneTabs' = Without(paneTabs, {paneTabs[i] : i \in closed})
    /\ panes' = Renumbered(panes, closed)
    /\ UNCHANGED <<active, opened>>

\* With all of them gone there is a new tab in a new pane.
DropAllTabs ==
    /\ opened < MaxOpened
    /\ opened' = opened + 1
    /\ paneTabs' = <<opened + 1>>
    /\ panes' = <<Pane(1)>> /\ active' = 1
-----------------------------------------------------------------------------
PanesNext ==
    \/ \E i \in DOMAIN paneTabs : SetActiveTab(i) \/ ClosePanesTab(i)
    \/ OpenTab \/ MruTab
    \/ SplitPane \/ FocusOtherPane \/ ClosePane
    \/ \E closed \in (SUBSET (DOMAIN paneTabs)) \ {{}} : DropTabs(closed)
    \/ DropAllTabs

PanesSpec == PanesInit /\ [][PanesNext]_paneVars
-----------------------------------------------------------------------------
(* Properties.                                                             *)

PaneType == [shows : DOMAIN paneTabs, recent : Seq(DOMAIN paneTabs), walk : Seq(DOMAIN paneTabs), pos : Nat]

\* Every index a pane holds names a tab, and one pane is the active one.
PanesTypeOK ==
    /\ paneTabs \in Seq(1..MaxOpened) /\ paneTabs # <<>>
    /\ panes \in Seq(PaneType) /\ Len(panes) \in 1..2 /\ active \in DOMAIN panes
    /\ opened \in 1..MaxOpened

\* Holding the chord down visits every tab that was open when the walk began, each
\* once: the frozen order is a permutation of the first indices, and the pane stands
\* where the walk is, whatever is opened, split and closed meanwhile.
WalkIsAPermutation ==
    \A k \in DOMAIN panes :
        LET p == panes[k]
        IN p.walk # <<>> =>
             /\ ToSet(p.walk) = 1..Len(p.walk)
             /\ p.pos < Len(p.walk) /\ p.shows = p.walk[p.pos + 1]

\* The promise of PaneHistory: a closing renumbers, but no pane loses its tab or its
\* memory to the close of another tab.
History == INSTANCE PaneHistory WITH
    Ids   <- 1..MaxOpened,
    open  <- ToSet(paneTabs),
    views <- [k \in DOMAIN panes |->
               [shows  |-> paneTabs[panes[k].shows],
                recent |-> [n \in DOMAIN panes[k].recent |-> paneTabs[panes[k].recent[n]]]]]
ImplementsHistory == History!HistorySpec
=============================================================================
