------------------------------- MODULE Passes -------------------------------
(***************************************************************************)
(* The passes over a whole file that the editor runs in the background:    *)
(* the highlighting (editor/syntax.go) and the diff against HEAD           *)
(* (editor/gdiff.go).  A pass is asked for when a visible tab no longer    *)
(* shows what its text says, waits for the typing to settle, runs on a     *)
(* snapshot, and its result is kept if the text is still that one.         *)
(*                                                                         *)
(* Both pipelines know a tab by its place, and tabs close.  A tab is       *)
(* <<name>>, a text <<name, n>>: no two tabs hold the same text.  Typing   *)
(* and undoing lead to any text of the tab, also back to that of a pass    *)
(* under way.  A highlighting is published in two parts, a diff in one.    *)
(***************************************************************************)
EXTENDS Naturals, Sequences, FiniteSets, SequencesExt

CONSTANTS
    PassTabs,   \* the number of tabs at the start
    MaxTexts    \* bound of the model: texts of a tab

ASSUME PassBoundsAssumption == PassTabs \in Nat \ {0} /\ MaxTexts \in Nat \ {0}

VARIABLES
    pipe,       \* the pipeline looked at, "syntax" or "diff"
    tabs,       \* the tabs: [name, n, want, pending, kept, parts], see Tab
    shown,      \* the place of the tab on screen
    timers,     \* running waits: [at, for, k], k tells equal ones apart
    running,    \* passes and what they publish next: [at, text, part, k]
    moved,      \* history: tabs that changed their place with a pass under way
    misled,     \* history: tabs a message of another one was taken for
    back,       \* history: tabs whose text came back in the middle of its pass
    down        \* a message with a place past the last tab was indexed with

passVars == <<pipe, tabs, shown, timers, running, moved, misled, back, down>>

Names == 1..PassTabs
PassTexts == Names \X (1..MaxTexts)
NoText == <<0, 0>>
LastPart == IF pipe = "syntax" THEN 2 ELSE 1

\* kept is syntaxText or diffText, parts says which text each part of the kept
\* lines was computed from, NoText for the empty lines that fill up the place of
\* a part: the last part is there when syntaxComplete.
Tab(name) == [name |-> name, n |-> 1, want |-> NoText, pending |-> FALSE,
              kept |-> NoText, parts |-> <<>>]
Text(t)     == <<t.name, t.n>>
Complete(t) == Len(t.parts) = LastPart

\* The first message, the size of the window, asks for the first pass.
PassInit ==
    /\ pipe \in {"syntax", "diff"}
    /\ shown = 1
    /\ tabs = [i \in 1..PassTabs |->
                 IF i = shown THEN [Tab(i) EXCEPT !.pending = TRUE, !.want = <<i, 1>>] ELSE Tab(i)]
    /\ timers = {[at |-> shown, for |-> shown, k |-> 0]}
    /\ running = {} /\ moved = {} /\ misled = {} /\ back = {} /\ down = FALSE

\* The next free number for a message, so that equal ones are not one.
Another(S(_)) == CHOOSE k \in 0..3 : ~S(k) /\ \A j \in 0..(k - 1) : S(j)
AddTimer(ts, place, name) ==
    LET msg(k) == [at |-> place, for |-> name, k |-> k]
    IN  ts \cup {msg(Another(LAMBDA k : msg(k) \in ts))}
StartPass(place, text) ==
    LET msg(k) == [at |-> place, text |-> text, part |-> 1, k |-> k]
    IN  running \cup {msg(Another(LAMBDA k : \E p \in running : [p EXCEPT !.part = 1] = msg(k)))}

RequestPassAgain(ts, tms, place) ==
    LET t == ts[place]
        asked == [t EXCEPT !.pending = TRUE, !.want = Text(t)]
    IN  IF (t.pending /\ t.want = Text(t)) \/ (t.kept = Text(t) /\ Complete(t))
        THEN tabs' = ts /\ timers' = tms
        ELSE /\ timers' = AddTimer(tms, place, t.name)
             /\ tabs' = [ts EXCEPT ![place] = asked]

\* requestSyntax and requestDiff, at the end of every Update: the tab on screen
\* that has no pass under way gets one unless its lines are those of its text.
\* Lines of a text with another number of lines are dropped at once, so those
\* of a pass that is not over do not stay for its own text.
RequestPass(ts, tms, place) ==
    LET t == ts[place]
        asked == [t EXCEPT !.pending = TRUE, !.want = Text(t)]
    IN  IF t.pending \/ (t.kept = Text(t) /\ Complete(t))
        THEN tabs' = ts /\ timers' = tms
        ELSE /\ timers' = AddTimer(tms, place, t.name)
             /\ \/ /\ pipe = "diff" \/ t.kept # Text(t)
                   /\ tabs' = [ts EXCEPT ![place] = asked]
                \/ /\ pipe = "syntax"
                   /\ tabs' = [ts EXCEPT ![place] = [asked EXCEPT !.kept = NoText, !.parts = <<>>]]

Settled(ts) == RequestPass(ts, timers, shown)
-----------------------------------------------------------------------------
\* The parts a pass published while the text was another one were dropped: if
\* the text comes back before the last one, it comes to lines that are not there.
CameBack(t) ==
    \E p \in running : p.text = Text(t) /\ p.part > 1 /\ t.kept # p.text

\* A keystroke, an undo, a redo.
TypeInto ==
    \E n \in 1..MaxTexts \ {tabs[shown].n} :
        LET t == [tabs[shown] EXCEPT !.n = n]
        IN  /\ ~down
            /\ Settled([tabs EXCEPT ![shown] = t])
            /\ back' = IF CameBack(t) THEN back \cup {t.name} ELSE back
            /\ UNCHANGED <<pipe, shown, running, moved, misled, down>>

ShowTab ==
    \E i \in DOMAIN tabs \ {shown} :
        /\ ~down
        /\ shown' = i
        /\ RequestPass(tabs, timers, i)
        /\ UNCHANGED <<pipe, running, moved, misled, back, down>>

\* closeTabAt: the tabs behind it move, the messages under way do not.
ClosePassTab ==
    \E i \in DOMAIN tabs :
        LET ts == RemoveAt(tabs, i)
            at == IF shown > i \/ shown > Len(ts) THEN shown - 1 ELSE shown
        IN  /\ ~down /\ Len(tabs) > 1
            /\ shown' = at
            /\ RequestPass(ts, timers, at)
            /\ moved' = moved \cup {tabs[j].name : j \in {k \in DOMAIN tabs : k > i /\ tabs[k].pending}}
            /\ UNCHANGED <<pipe, running, misled, back, down>>

\* syntaxPassMsg and diffPassMsg: runSyntax looks whether there is such a tab,
\* the handler of a diff indexes the tabs before runDiff can.  The wait starts
\* again while the text moves.
PassTimer ==
    \E m \in timers :
        LET t    == tabs[m.at]
            rest == timers \ {m}
        IN  /\ ~down
            /\ \/ /\ m.at > Len(tabs) /\ pipe = "diff"
                  /\ down' = TRUE /\ timers' = rest
                  /\ UNCHANGED <<tabs, running, misled>>
               \/ /\ m.at > Len(tabs) /\ pipe = "syntax"
                  /\ RequestPass(tabs, rest, shown)
                  /\ UNCHANGED <<running, misled, down>>
               \/ /\ m.at <= Len(tabs)
                  /\ misled' = IF t.name # m.for THEN misled \cup {t.name} ELSE misled
                  /\ \/ /\ Text(t) # t.want
                        /\ RequestPass([tabs EXCEPT ![m.at].want = Text(t)],
                                       AddTimer(rest, m.at, t.name), shown)
                        /\ UNCHANGED running
                     \/ /\ Text(t) = t.want /\ t.kept = Text(t)
                        /\ RequestPass([tabs EXCEPT ![m.at].pending = FALSE], rest, shown)
                        /\ UNCHANGED running
                     \/ /\ Text(t) = t.want /\ t.kept # Text(t)
                        /\ RequestPass(tabs, rest, shown)
                        /\ running' = StartPass(m.at, Text(t))
                  /\ UNCHANGED down
            /\ UNCHANGED <<pipe, shown, moved, back>>

\* The text is not looked at again.
ApplyAnyText(t, p) ==
    LET ended == [t EXCEPT !.pending = IF p.part = LastPart THEN FALSE ELSE @]
        base  == IF t.kept # Text(t) THEN <<>> ELSE t.parts
        upTo  == [i \in 1..(p.part - 1) |-> IF i \in DOMAIN base THEN base[i] ELSE NoText]
        rest  == SubSeq(base, p.part + 1, Len(base))
    IN  [ended EXCEPT !.kept = Text(t), !.parts = Append(upTo, p.text) \o rest]

\* Each part is added behind what there is.
ApplyBehind(t, p) ==
    LET ended == [t EXCEPT !.pending = IF p.part = LastPart THEN FALSE ELSE @]
        base  == IF t.kept # p.text THEN <<>> ELSE t.parts
        upTo  == [i \in 1..(p.part - 1) |-> IF i \in DOMAIN base THEN base[i] ELSE NoText]
        rest  == SubSeq(base, p.part, Len(base))
    IN  IF p.text # Text(t) THEN ended
        ELSE [ended EXCEPT !.kept = p.text, !.parts = Append(upTo, p.text) \o rest]

\* A pass whose text is gone by now leaves the tab waiting for it.
ApplyLeavingPending(t, p) ==
    LET base  == IF t.kept # p.text THEN <<>> ELSE t.parts
        upTo  == [i \in 1..(p.part - 1) |-> IF i \in DOMAIN base THEN base[i] ELSE NoText]
        rest  == SubSeq(base, p.part + 1, Len(base))
    IN  IF p.text # Text(t) THEN t
        ELSE [t EXCEPT !.pending = IF p.part = LastPart THEN FALSE ELSE @,
                       !.kept = p.text, !.parts = Append(upTo, p.text) \o rest]

\* applySyntax and applyDiff: the last part of a pass ends it whatever text it
\* was for; a part for another text is dropped, the first of a new text clears
\* the lines of the old one.
Apply(t, p) ==
    LET ended == [t EXCEPT !.pending = IF p.part = LastPart THEN FALSE ELSE @]
        base  == IF t.kept # p.text THEN <<>> ELSE t.parts
        upTo  == [i \in 1..(p.part - 1) |-> IF i \in DOMAIN base THEN base[i] ELSE NoText]
        rest  == SubSeq(base, p.part + 1, Len(base))
    IN  IF p.text # Text(t) THEN ended
        ELSE [ended EXCEPT !.kept = p.text, !.parts = Append(upTo, p.text) \o rest]

PassResult ==
    \E p \in running :
        /\ ~down
        /\ running' = (running \ {p}) \cup
                        (IF p.part < LastPart THEN {[p EXCEPT !.part = @ + 1]} ELSE {})
        /\ IF p.at > Len(tabs)
           THEN Settled(tabs) /\ UNCHANGED misled
           ELSE /\ Settled([tabs EXCEPT ![p.at] = Apply(@, p)])
                /\ misled' = IF tabs[p.at].name # p.text[1] THEN misled \cup {tabs[p.at].name}
                             ELSE misled
        /\ UNCHANGED <<pipe, shown, moved, back, down>>

PassNext == TypeInto \/ ShowTab \/ ClosePassTab \/ PassTimer \/ PassResult

PassSpec == PassInit /\ [][PassNext]_passVars
PassFairness == WF_passVars(PassTimer) /\ WF_passVars(PassResult)
-----------------------------------------------------------------------------
PassTypeOK ==
    /\ \A i \in DOMAIN tabs : Text(tabs[i]) \in PassTexts /\ tabs[i].pending \in BOOLEAN
    /\ \A i \in DOMAIN tabs : Len(tabs[i].parts) <= LastPart
    /\ shown \in DOMAIN tabs
    /\ \A m \in timers : m.at \in 1..PassTabs /\ m.for \in Names
    /\ \A p \in running : p.at \in 1..PassTabs /\ p.text \in PassTexts

\* What is painted as the highlighting or diff of a text was computed from that
\* text and no other, whatever passes ran before it and whatever the text was
\* meanwhile, unless the tab was taken for another one; and all of it was,
\* unless the text came back in the middle of its own pass: then the parts that
\* were dropped stay empty in what counts as the whole.
PaintFits ==
    \A i \in DOMAIN tabs : LET t == tabs[i] IN
        t.kept = Text(t) /\ t.name \notin moved \cup misled =>
            \A k \in DOMAIN t.parts :
                \/ t.parts[k] = Text(t)
                \/ t.parts[k] = NoText /\ t.name \in back

\* At most one pass per tab is in flight, so typing never piles up work: true of
\* a tab that was never taken for another one.
OnePassPerTab ==
    \A i \in DOMAIN tabs : tabs[i].name \notin moved \cup misled =>
        Cardinality({p \in running : p.text[1] = tabs[i].name}) <= 1

Painted(t) ==
    t.kept = Text(t) /\ Complete(t) /\ \A k \in DOMAIN t.parts : t.parts[k] = Text(t)

\* When nobody types any more, a tab that stays on screen gets all the lines of
\* its text, unless it was moved while a pass was under way or its text came
\* back in the middle of its pass.
PaintCatchesUp ==
    <>[][~TypeInto]_passVars =>
        \A name \in Names :
            (\E i \in DOMAIN tabs : tabs[i].name = name /\ shown = i) ~>
                \/ down \/ name \in moved \cup misled \cup back
                \/ tabs[shown].name # name
                \/ Painted(tabs[shown])

\* A message for a place that is gone is ignored.
GoneTabIsIgnored == ~down

\* Passes that overtake edits, undone edits, closings and each other paint
\* nothing that was computed from another text, and do not pile up.
PassesFit == PaintFits /\ OnePassPerTab
=============================================================================
