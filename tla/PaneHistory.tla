---------------------------- MODULE PaneHistory ----------------------------
(***************************************************************************)
(* What the panes of the editor promise about tabs: a pane shows a tab and *)
(* remembers the tabs it moved off, each once and the latest first, and a  *)
(* tab another one closes leaves both alone.  A tab is known by itself     *)
(* here; the code knows it by its index, which every close renumbers.      *)
(* Panes is shown to implement this specification.                         *)
(***************************************************************************)
EXTENDS Naturals, Sequences, Removal

CONSTANT Ids

VARIABLES open, views

view == <<open, views>>

Fresh(t) == [shows |-> t, recent |-> <<>>]

HistoryInit ==
    /\ open \in (SUBSET Ids) \ {{}}
    /\ \E t \in open : views = <<Fresh(t)>>

\* A view moves to another tab and remembers the one it left.
Moved(v, t) ==
    IF v.shows = t THEN v
    ELSE [shows |-> t, recent |-> <<v.shows>> \o Without(v.recent, {v.shows})]

Open ==
    \E t \in Ids \ open, i \in DOMAIN views :
        /\ open' = open \union {t}
        /\ views' = [views EXCEPT ![i] = Moved(@, t)]

Focus ==
    \E t \in open, i \in DOMAIN views :
        views' = [views EXCEPT ![i] = Moved(@, t)] /\ UNCHANGED open

\* A step of a walk through the tabs is not remembered.
Walk ==
    \E t \in open, i \in DOMAIN views :
        views' = [views EXCEPT ![i].shows = t] /\ UNCHANGED open

Split ==
    \E t \in open :
        Len(views) = 1 /\ views' = Append(views, Fresh(t)) /\ UNCHANGED open

Unsplit ==
    \E i \in DOMAIN views : views' = <<views[i]>> /\ UNCHANGED open

\* What a closing leaves of a view: its tab if that is still open, and of its
\* memory everything that is.
Survives(v, w) ==
    /\ w.shows = v.shows \/ v.shows \notin open'
    /\ w.shows \in open'
    /\ w.recent = Without(v.recent, Ids \ open')

Close ==
    /\ \E S \in (SUBSET open) \ {{}, open} : open' = open \ S
    /\ \/ DOMAIN views' = DOMAIN views
            /\ \A i \in DOMAIN views : Survives(views[i], views'[i])
       \/ Len(views') = 1 /\ \E i \in DOMAIN views : Survives(views[i], views'[1])

CloseAll == \E t \in Ids \ open : open' = {t} /\ views' = <<Fresh(t)>>

HistoryNext == Open \/ Focus \/ Walk \/ Split \/ Unsplit \/ Close \/ CloseAll

HistorySpec == HistoryInit /\ [][HistoryNext]_view
=============================================================================
