------------------------------- MODULE GitPanel -------------------------------
(***************************************************************************)
(* The Git panel of the left rail (editor/git_panel.go, the clicks of      *)
(* mouse.go, the rows of view.go): its modes, its lists as numbers of      *)
(* rows, their selections and scroll offsets, and the diff beside them.    *)
(* What changes in the repository changes under it: another program, the   *)
(* file watcher, a transfer, a tab of another repository.                  *)
(***************************************************************************)
EXTENDS Integers

CONSTANTS
    MaxGpRows,  \* bound of the model: rows of a list
    GpHeights   \* the heights the view may have

ASSUME GpAssumption ==
    MaxGpRows \in Nat \ {0} /\ GpHeights # {} /\ GpHeights \subseteq Nat \ {0}

VARIABLES
    gp,      \* the panel: open, focus, mode, diffFocus and, of each list, sel and off
    gpList,  \* rows the panel holds: gitFiles, gitLogEntries, gitBranchList
    gpReal,  \* rows a list read now would have; -1 outside every repository
    gpDiff,  \* what diffRows is of: "none", "file", "commit"
    gpHeight \* viewHeight

gpVars == <<gp, gpList, gpReal, gpDiff, gpHeight>>

GpLists == {"files", "log", "branches"}
Counts  == 0..MaxGpRows
NoRepo  == -1

GpInit ==
    /\ gp = [open |-> FALSE, focus |-> FALSE, mode |-> "status", diffFocus |-> FALSE,
             sel |-> [l \in GpLists |-> 0], off |-> [l \in GpLists |-> 0]]
    /\ gpList = [l \in GpLists |-> 0]
    /\ gpReal = 1 /\ gpDiff = "none"
    /\ gpHeight = CHOOSE h \in GpHeights : TRUE

Smaller(a, b) == IF a < b THEN a ELSE b
Larger(a, b)  == IF a > b THEN a ELSE b
-----------------------------------------------------------------------------
(* Scrolling.  A log entry takes two rows, and its offset counts rows.     *)

FollowGpUnclamped(row, height, rows, window, off) ==
    LET up   == IF row < off THEN row ELSE off
        down == IF row + height > up + window THEN row + height - window ELSE up
    IN IF window <= 0 THEN 0 ELSE Smaller(down, rows - window)

FollowGp(row, height, rows, window, off) ==
    LET up   == IF row < off THEN row ELSE off
        down == IF row + height > up + window THEN row + height - window ELSE up
    IN IF window <= 0 THEN 0 ELSE Larger(0, Smaller(down, rows - window))

ClampGitAsOneRow(l, sel, off, n) ==
    FollowGp(sel, 1, n, Smaller(n, gpHeight), off)

\* clampGitScroll, clampGitLogScroll, clampGitBranchScroll.
ClampGit(l, sel, off, n) ==
    CASE l = "files"    -> FollowGp(sel, 1, n, Smaller(n, gpHeight), off)
      [] l = "log"      -> FollowGp(2 * sel, 2, 2 * n, Smaller(2 * n, gpHeight), off)
      [] l = "branches" -> FollowGp(sel, 1, n, Smaller(Larger(n, 1), gpHeight), off)

Select(p, l, s, n) ==
    [p EXCEPT !.sel[l] = s, !.off[l] = ClampGit(l, s, p.off[l], n)]

\* refreshGitFiles, refreshGitLog: the selection is kept if it still exists.
RefreshedUnclamped(p, l) == IF gpReal = NoRepo THEN p ELSE Select(p, l, p.sel[l], gpReal)
Refreshed(p, l) ==
    IF gpReal = NoRepo THEN p
    ELSE Select(p, l, IF l # "branches" /\ p.sel[l] >= gpReal
                      THEN Larger(0, gpReal - 1) ELSE p.sel[l], gpReal)

Rows        == Larger(0, gpReal)
Renewed(l)  == [gpList EXCEPT ![l] = Rows]
FocusKey(m) == gp.open /\ gp.focus /\ gp.mode = m /\ ~gp.diffFocus

\* refreshGitDiffPreview, showLogDiff, of the list and selection as they are
\* now.  A file without a difference and a commit of no change have no rows.
Previewed(kind, p, n) ==
    IF p.sel[IF kind = "file" THEN "files" ELSE "log"] >= n \/ gpReal = NoRepo
    THEN {"none"} ELSE {kind, "none"}

ListOf == [status |-> "files", log |-> "log", branch |-> "branches", commit |-> "files"]
KindOf == [files |-> "file", log |-> "commit"]

\* What follows a move of the selection in a list: its preview.
Moved(l, p) ==
    /\ gp' = p /\ UNCHANGED <<gpList, gpReal, gpHeight>>
    /\ IF l = "branches" THEN gpDiff' = gpDiff ELSE gpDiff' \in Previewed(KindOf[l], p, gpList[l])
-----------------------------------------------------------------------------
OpenGitPanel ==
    /\ ~gp.open
    /\ LET p == Refreshed([gp EXCEPT !.open = TRUE, !.focus = TRUE, !.mode = "status",
                                     !.diffFocus = FALSE], "files")
       IN gp' = p /\ gpDiff' \in Previewed("file", p, Rows)
    /\ gpList' = Renewed("files") /\ UNCHANGED <<gpReal, gpHeight>>

\* Escape and Ctrl+G with the panel focused, and F9 in every mode, which leaves
\* the focus of the diff as it is.
CloseGitPanel ==
    /\ gp.open /\ gp.focus
    /\ \/ gp.mode = "status" /\ gp' = [gp EXCEPT !.open = FALSE, !.focus = FALSE, !.diffFocus = FALSE]
       \/ gp' = [gp EXCEPT !.open = FALSE, !.focus = FALSE]
    /\ UNCHANGED <<gpList, gpReal, gpDiff, gpHeight>>

\* Another pane takes the keys; a click into the text also leaves the diff.
LeaveGitPanel ==
    /\ gp.open /\ gp.focus
    /\ gp' \in {[gp EXCEPT !.focus = FALSE], [gp EXCEPT !.focus = FALSE, !.diffFocus = FALSE]}
    /\ UNCHANGED <<gpList, gpReal, gpDiff, gpHeight>>

\* up, down and the wheel; pgup, pgdown, home and end of the log.
MoveGitSel(l) ==
    /\ gp.open /\ ~gp.diffFocus /\ ListOf[gp.mode] = l /\ gp.mode # "commit" /\ gpList[l] > 0
    /\ \E d \in {-1, 1} \cup IF l = "log" THEN {-gpHeight, gpHeight, -MaxGpRows, MaxGpRows} ELSE {} :
           LET s == Larger(0, Smaller(gp.sel[l] + d, gpList[l] - 1))
           IN Moved(l, Select([gp EXCEPT !.focus = TRUE], l, s, gpList[l]))

\* clickLeftRail: the row under the pointer, from the list's offset.
ClickGitRow(y) ==
    /\ gp.open /\ gp.mode # "commit" /\ y < gpHeight
    /\ LET l == ListOf[gp.mode]
           s == gp.off[l] + IF l = "log" THEN y \div 2 ELSE y
           p == [gp EXCEPT !.focus = TRUE, !.diffFocus = (l = "branches") /\ @]
       IN IF s < gpList[l] THEN Moved(l, Select(p, l, s, gpList[l]))
          ELSE gp' = p /\ UNCHANGED <<gpList, gpReal, gpDiff, gpHeight>>

\* right and tab, a click on the diff, a double click on a commit.
FocusDiff ==
    /\ gp.open /\ gp.mode \in {"status", "log"} /\ gpDiff # "none"
    /\ gp' = [gp EXCEPT !.diffFocus = TRUE] /\ UNCHANGED <<gpList, gpReal, gpDiff, gpHeight>>

LeaveDiff ==
    /\ gp.open /\ gp.focus /\ gp.diffFocus /\ gp.mode \in {"status", "log"}
    /\ gp' = [gp EXCEPT !.diffFocus = FALSE] /\ UNCHANGED <<gpList, gpReal, gpDiff, gpHeight>>

\* space, a, r and i: something may have changed, the list and the preview are new.
RefreshStatus ==
    /\ FocusKey("status")
    /\ LET p == Refreshed(gp, "files")
       IN gp' = p /\ gpDiff' \in Previewed("file", p, Rows)
    /\ gpList' = Renewed("files") /\ UNCHANGED <<gpReal, gpHeight>>

OpenLogViewKeepingFocus ==
    /\ gp.open /\ gp.focus /\ gp.mode = "status"
    /\ LET p == Refreshed([gp EXCEPT !.mode = "log", !.sel["log"] = 0, !.off["log"] = 0], "log")
       IN gp' = p /\ gpDiff' \in Previewed("commit", p, Rows)
    /\ gpList' = Renewed("log") /\ UNCHANGED <<gpReal, gpHeight>>

OpenLogView ==
    /\ FocusKey("status")
    /\ LET p == Refreshed([gp EXCEPT !.mode = "log", !.sel["log"] = 0, !.off["log"] = 0,
                                     !.diffFocus = FALSE], "log")
       IN gp' = p /\ gpDiff' \in Previewed("commit", p, Rows)
    /\ gpList' = Renewed("log") /\ UNCHANGED <<gpReal, gpHeight>>

RefreshLog ==
    /\ FocusKey("log")
    /\ LET p == Refreshed(gp, "log")
       IN gp' = p /\ gpDiff' \in Previewed("commit", p, Rows)
    /\ gpList' = Renewed("log") /\ UNCHANGED <<gpReal, gpHeight>>

\* openBranchView, and r in it.
ShowBranches ==
    /\ FocusKey("status") \/ FocusKey("branch")
    /\ gp' = Refreshed(IF gp.mode = "branch" THEN gp
                       ELSE [gp EXCEPT !.mode = "branch", !.sel["branches"] = 0, !.off["branches"] = 0],
                       "branches")
    /\ gpList' = Renewed("branches") /\ UNCHANGED <<gpReal, gpDiff, gpHeight>>

\* Enter on a branch, or on the name of a new one: back to the files.
SwitchBranch ==
    /\ gp.open /\ gp.focus /\ gp.mode = "branch" /\ gpReal # NoRepo
    /\ LET p == Refreshed([gp EXCEPT !.mode = "status"], "files")
       IN gp' = p /\ gpDiff' \in Previewed("file", p, Rows)
    /\ gpList' = Renewed("files") /\ UNCHANGED <<gpReal, gpHeight>>

\* esc and q of the log and the branches: the diff beside the files stays as it is.
BackToStatus ==
    /\ gp.open /\ gp.focus /\ gp.mode \in {"log", "branch", "commit"}
    /\ gp' = [gp EXCEPT !.mode = "status", !.diffFocus = (gp.mode = "commit") /\ @]
    /\ UNCHANGED <<gpList, gpReal, gpDiff, gpHeight>>

CommitMode ==
    /\ FocusKey("status") /\ gp' = [gp EXCEPT !.mode = "commit"]
    /\ UNCHANGED <<gpList, gpReal, gpDiff, gpHeight>>

\* Enter on a message: committed, and the panel closes.
CommitGit ==
    /\ gp.open /\ gp.focus /\ gp.mode = "commit" /\ gpReal # NoRepo
    /\ gp' = Refreshed([gp EXCEPT !.mode = "status", !.open = FALSE, !.focus = FALSE], "files")
    /\ gpList' = Renewed("files") /\ UNCHANGED <<gpReal, gpDiff, gpHeight>>

\* A transfer ended, a file changed on disk: only the list is read again.
RefreshBehind ==
    /\ gp.open
    /\ gp' = Refreshed(gp, "files") /\ gpList' = Renewed("files")
    /\ UNCHANGED <<gpReal, gpDiff, gpHeight>>

\* Another program changes the repository, or the current tab is of another.
RepoChanges ==
    /\ gpReal' \in Counts \cup {NoRepo} /\ UNCHANGED <<gp, gpList, gpDiff, gpHeight>>

\* tea.WindowSizeMsg, a panel below opened or closed.
ResizeGp ==
    /\ gpHeight' \in GpHeights /\ UNCHANGED <<gp, gpList, gpReal, gpDiff>>

GpNext ==
    \/ \E l \in GpLists : MoveGitSel(l)
    \/ \E y \in 0..MaxGpRows : ClickGitRow(y)
    \/ OpenGitPanel \/ CloseGitPanel \/ LeaveGitPanel \/ FocusDiff \/ LeaveDiff
    \/ RefreshStatus \/ OpenLogView \/ RefreshLog \/ ShowBranches \/ SwitchBranch
    \/ BackToStatus \/ CommitMode \/ CommitGit \/ RefreshBehind \/ RepoChanges \/ ResizeGp

GpSpec == GpInit /\ [][GpNext]_gpVars
-----------------------------------------------------------------------------
GpTypeOK ==
    /\ gp.mode \in {"status", "log", "branch", "commit"}
    /\ gp.sel \in [GpLists -> Counts] /\ gp.off \in [GpLists -> 0..(2 * MaxGpRows)]
    /\ gpList \in [GpLists -> Counts] /\ gpReal \in Counts \cup {NoRepo}
    /\ gpDiff \in {"none", "file", "commit"}

\* The selected file and the selected commit are rows of their lists, whatever
\* happened to the repository since (refreshGitFiles, refreshGitLog).
GitSelectionsExist ==
    \A l \in {"files", "log"} : gpList[l] > 0 => gp.sel[l] < gpList[l]

\* A move of the selection leaves it on screen, both rows of a commit as well
\* (clampGitScroll, clampGitLogScroll).
MovedSelectionIsShown ==
    [][\A l \in {"files", "log"} :
           gp.sel[l] # gp'.sel[l] /\ gpList'[l] > 0 =>
               LET tall == IF l = "log" THEN 2 ELSE 1
               IN /\ gp'.off[l] <= tall * gp'.sel[l] + tall - 1
                  /\ gpHeight >= tall => /\ gp'.off[l] <= tall * gp'.sel[l]
                                         /\ tall * gp'.sel[l] + tall <= gp'.off[l] + gpHeight]_gpVars

\* The keys scroll a diff only while there is one on screen: while the diff has
\* the focus the files' and commits' own keys do nothing (handleGitStatus,
\* handleGitLog).
FocusedDiffIsShown ==
    gp.open /\ gp.focus /\ gp.diffFocus => gp.mode \in {"status", "log"} /\ gpDiff # "none"

\* What the panel draws is there to be drawn: "each log entry takes 2 rows"
\* (git_panel.go, gitLogListHeight), but gitLogPanel counts entries.
DrawnRowsExist ==
    gp.open /\ gp.mode \in {"status", "log"} =>
        LET l    == ListOf[gp.mode]
            tall == IF l = "log" THEN 2 ELSE 1
            end  == gp.off[l] + Smaller(tall * gpList[l], gpHeight)
        IN \A i \in gp.off[l]..(end - 1) : tall * (i - gp.off[l]) < gpHeight => i < gpList[l]

\* The selected branch is one of the list Enter takes it from (handleGitBranch).
BranchSelectionExists ==
    gp.open /\ gp.mode = "branch" /\ gpList["branches"] > 0 => gp.sel["branches"] < gpList["branches"]
=============================================================================
