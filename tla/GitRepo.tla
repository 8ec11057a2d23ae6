-------------------------------- MODULE GitRepo --------------------------------
(***************************************************************************)
(* The repository behind the Git panel and the agents (vcs/git.go,         *)
(* agent/commit.go, the undo of agent_panel.go): commits, the index and    *)
(* the working tree, the commit of an applied series and its undo, which   *)
(* runs off the UI thread and writes one file after the other while the    *)
(* user goes on.                                                           *)
(***************************************************************************)
EXTENDS Integers, SequencesExt, FiniteSets

CONSTANTS
    GrPaths, GrTexts,
    Absent,      \* the content of a file that does not exist

    MaxCommits, MaxSaves

ASSUME AbsentAssumption == Absent \notin GrTexts

Trees == [GrPaths -> GrTexts \cup {Absent}]

VARIABLES
    grLog,    \* the commits of the branch: whose each is, its tree, the commit an undo is of
    grIndex, grWork,
    grUndo,   \* the undo's command: where it is, its commit, the files still to write and to stage
    grTouched,  \* history: the files the user has saved, applied or (un)staged since the undo's check
    grAsked,  \* undos asked for in the panel or the palette
    grSaves

grVars == <<grLog, grIndex, grWork, grUndo, grTouched, grAsked, grSaves>>

NoUndo == [at |-> "idle", of |-> 0, todo |-> {}, adding |-> {}]

GrInit ==
    /\ \E t \in GrTexts :
           LET tree == [p \in GrPaths |-> t]
           IN /\ grLog = <<[by |-> "user", tree |-> tree, of |-> 0, touched |-> {}]>>
              /\ grIndex = tree /\ grWork = tree
    /\ grUndo = NoUndo /\ grTouched = {} /\ grAsked = 0 /\ grSaves = 0

HeadTree   == Last(grLog).tree
Parent(c)  == grLog[c - 1].tree
Changed(c) == {p \in GrPaths : grLog[c].tree[p] # Parent(c)[p]}

\* wt.Commit: the index becomes a commit, unless it is what HEAD already has.
CommitOfAnything(log, index, by, of, touched) ==
    Append(log, [by |-> by, tree |-> index, of |-> of, touched |-> touched])
CommitOf(log, index, by, of, touched) ==
    IF index = Last(log).tree THEN log
    ELSE Append(log, [by |-> by, tree |-> index, of |-> of, touched |-> touched])
-----------------------------------------------------------------------------
(* The user, in the editor and in the Git panel.                           *)

Touches(files) ==
    /\ grTouched' = IF grUndo.at = "writing" THEN grTouched \cup files ELSE {}
    /\ UNCHANGED <<grUndo, grAsked>>

SaveFile(p, t) ==
    /\ grSaves < MaxSaves /\ grSaves' = grSaves + 1
    /\ grWork[p] # t /\ grWork' = [grWork EXCEPT ![p] = t]
    /\ Touches({p}) /\ UNCHANGED <<grLog, grIndex>>

Staged(p) == grIndex[p] # HeadTree[p]  \* FileStatus.IsStaged
Listed(p) == Staged(p) \/ grWork[p] # grIndex[p]

\* The panel's space key: Unstage or Stage.
ToggleStaged(p) ==
    /\ Listed(p)
    /\ grIndex' = [grIndex EXCEPT ![p] = IF Staged(p) THEN HeadTree[p] ELSE grWork[p]]
    /\ Touches({p}) /\ UNCHANGED <<grLog, grWork, grSaves>>

StageAll ==
    /\ grIndex' = [p \in GrPaths |-> IF Staged(p) THEN grIndex[p] ELSE grWork[p]]
    /\ Touches({p \in GrPaths : grIndex'[p] # grIndex[p]}) /\ UNCHANGED <<grLog, grWork, grSaves>>

CommitStaged ==
    /\ Len(grLog) < MaxCommits
    /\ grLog' = CommitOf(grLog, grIndex, "user", 0, {})
    /\ Touches({}) /\ UNCHANGED <<grIndex, grWork, grSaves>>

\* Committer.Commit after Applier.Apply: each file of the series is staged,
\* then the whole index is committed.
CommitSeries(series, t) ==
    /\ Len(grLog) < MaxCommits
    /\ LET Applied(tree) == [p \in GrPaths |-> IF p \in series THEN t ELSE tree[p]]
       IN /\ grWork' = Applied(grWork) /\ grIndex' = Applied(grIndex)
          /\ grLog' = CommitOf(grLog, grIndex', "agent", 0, {})
    /\ Touches(series) /\ UNCHANGED grSaves
-----------------------------------------------------------------------------
(* The undo of the last agent commit.                                      *)

\* The keys u and U of the panel and the command of the palette: the command
\* undoLastAgentApply returns is dropped by both callers.
UndoKey ==
    /\ grAsked = 0 /\ grAsked' = 1
    /\ UNCHANGED <<grLog, grIndex, grWork, grUndo, grTouched, grSaves>>

\* RevertCommit as undoLastAgentApply's command runs it (the tests run it so).
\* LastCommitWithSubject: an undo's own subject begins with "agent: " too.
AgentCommits == {c \in DOMAIN grLog : grLog[c].by \in {"agent", "undo"}}
LastAgentCommit == {c \in AgentCommits : \A d \in AgentCommits : d <= c}

UncheckedFiles(c) == TRUE
FilesAsCommitted(c) == \A p \in Changed(c) : grWork[p] = grLog[c].tree[p]

UndoFinds ==
    /\ grUndo.at = "idle" /\ Len(grLog) < MaxCommits
    /\ \E c \in LastAgentCommit : grUndo' = [NoUndo EXCEPT !.at = "found", !.of = c]
    /\ UNCHANGED <<grLog, grIndex, grWork, grTouched, grAsked, grSaves>>

\* Every file of the tree is taken for one of the commit.
UndoPlansTheTree ==
    /\ grUndo.at = "found" /\ grUndo.of > 1 /\ FilesAsCommitted(grUndo.of)
    /\ grUndo' = [grUndo EXCEPT !.at = "writing", !.todo = GrPaths] /\ grTouched' = {}
    /\ UNCHANGED <<grLog, grIndex, grWork, grAsked, grSaves>>

\* RevertCommit, pass 1: everything is decided before anything is written.
UndoPlans ==
    /\ grUndo.at = "found" /\ grUndo.of > 1 /\ FilesAsCommitted(grUndo.of)
    /\ grUndo' = [grUndo EXCEPT !.at = "writing", !.todo = Changed(grUndo.of)] /\ grTouched' = {}
    /\ UNCHANGED <<grLog, grIndex, grWork, grAsked, grSaves>>

BeforeTheHead(c, p) == grLog[Len(grLog) - 1].tree[p]
BeforeImage(c, p) == Parent(c)[p]

\* Pass 2, one file: it is written or removed, then staged as it is; wt.Remove
\* removes it once more.
UndoWrites(p) ==
    /\ grUndo.at = "writing" /\ grUndo.adding = {} /\ p \in grUndo.todo
    /\ grWork' = [grWork EXCEPT ![p] = BeforeImage(grUndo.of, p)]
    /\ grUndo' = [grUndo EXCEPT !.todo = @ \ {p}, !.adding = {p}]
    /\ UNCHANGED <<grLog, grIndex, grTouched, grAsked, grSaves>>

UndoStages(p) ==
    /\ p \in grUndo.adding
    /\ grWork' = IF BeforeImage(grUndo.of, p) = Absent THEN [grWork EXCEPT ![p] = Absent] ELSE grWork
    /\ grIndex' = [grIndex EXCEPT ![p] = grWork'[p]]
    /\ grUndo' = [grUndo EXCEPT !.adding = {}]
    /\ UNCHANGED <<grLog, grTouched, grAsked, grSaves>>

\* Pass 1 refuses, or a file cannot be written or staged: the undo ends where it is.
UndoFails ==
    /\ \/ grUndo.at = "found" /\ (grUndo.of = 1 \/ ~FilesAsCommitted(grUndo.of))
       \/ grUndo.todo \cup grUndo.adding # {}
    /\ grUndo' = NoUndo /\ grTouched' = {}
    /\ UNCHANGED <<grLog, grIndex, grWork, grAsked, grSaves>>

UndoCommits ==
    /\ grUndo.at = "writing" /\ grUndo.todo = {} /\ grUndo.adding = {}
    /\ grLog' = CommitOf(grLog, grIndex, "undo", grUndo.of, grTouched)
    /\ grUndo' = NoUndo /\ grTouched' = {}
    /\ UNCHANGED <<grIndex, grWork, grAsked, grSaves>>

GrNext ==
    \/ \E p \in GrPaths, t \in GrTexts \cup {Absent} : SaveFile(p, t)
    \/ \E p \in GrPaths : ToggleStaged(p) \/ UndoWrites(p) \/ UndoStages(p)
    \/ \E series \in (SUBSET GrPaths) \ {{}}, t \in GrTexts : CommitSeries(series, t)
    \/ StageAll \/ CommitStaged \/ UndoKey \/ UndoFinds \/ UndoPlans \/ UndoFails \/ UndoCommits

GrSpec == GrInit /\ [][GrNext]_grVars
-----------------------------------------------------------------------------
GrTypeOK ==
    /\ \A c \in DOMAIN grLog : grLog[c].tree \in Trees /\ grLog[c].of \in 0..(c - 1)
    /\ grIndex \in Trees /\ grWork \in Trees
    /\ grUndo.of \in 0..Len(grLog) /\ grTouched \subseteq GrPaths
    /\ grUndo.todo \cup grUndo.adding \subseteq (IF grUndo.of > 1 THEN Changed(grUndo.of) ELSE {})

\* Whatever was committed after an agent's series or while it was undone, its
\* undo brings back, for every file of its commit, what the file was before that
\* commit (vcs.RevertCommit, pass 2), but for the files the user has touched since
\* the undo's check.
UndoRestoresTheBefore ==
    \A c \in DOMAIN grLog : grLog[c].by = "undo" =>
        \A p \in Changed(grLog[c].of) \ grLog[c].touched : grLog[c].tree[p] = Parent(grLog[c].of)[p]

\* An undo writes the files of its commit and nothing else: each gets what it held
\* before that commit, and had what the commit wrote to it unless the user has
\* touched it since the undo's check (RevertCommit, pass 1: "refuse-first").
UndoMoves == grUndo.todo # grUndo'.todo \/ grUndo.adding # grUndo'.adding
UndoWritesItsCommitOnly ==
    [][grUndo.at = "writing" /\ UndoMoves => \A p \in GrPaths : grWork'[p] # grWork[p] =>
           /\ p \in Changed(grUndo.of) /\ grWork'[p] = Parent(grUndo.of)[p]
           /\ grWork[p] = grLog[grUndo.of].tree[p] \/ p \in grTouched]_grVars

\* git.go:764-768: "refuse-first about anything newer than the reverted commit".
\* A file saved after its check is overwritten.
UndoOverwritesNothingNewer ==
    [][grUndo.at = "writing" /\ UndoMoves => \A p \in GrPaths : grWork'[p] # grWork[p] =>
           grWork[p] = grLog[grUndo.of].tree[p]]_grVars

\* Every commit changes something, so that an undo of it has files to bring
\* back and is never taken for "no agent commit" (RevertCommit's path list).
CommitsChangeSomething == \A c \in 2..Len(grLog) : Changed(c) # {}

\* Asking for the undo starts it: "u in the agent panel (or the palette command)
\* reverts the most recent agent commit" (docs/RELEASE-v0.9.4.md).  It does not:
\* the key and the palette drop the command that would.
UndoKeyRunsTheUndo == [][grAsked' # grAsked => grUndo'.at # "idle"]_grVars

\* The undo of an agent's commit brings back the text before it and writes nothing
\* else, over nothing but what that commit wrote and what the user has touched
\* since the undo's check.
UndoIsSafe == [](UndoRestoresTheBefore /\ CommitsChangeSomething) /\ UndoWritesItsCommitOnly
=============================================================================
