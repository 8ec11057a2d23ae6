-------------------------- MODULE BackgroundProofs --------------------------
(***************************************************************************)
(* What runs in the background: the theorems about the agent's tasks, then *)
(* those about the passes over a tab's text and about the assistants that  *)
(* stream text.                                                            *)
(***************************************************************************)
EXTENDS AgentTasks, Passes, AiAssist, SequenceTheorems, FiniteSetTheorems, TLAPS

(***************************************************************************)
(* AgentTasks for any number of tasks and any round limit: its safety      *)
(* properties and the refinement of TaskLifecycle, from one inductive      *)
(* invariant.                                                              *)
(***************************************************************************)
\* The worker holds a task exactly while it executes one.
Holding == worker.task # NoTask
             <=> ~(worker.pc \in {"loop", "pick", "empty", "asleep", "stopped"})

\* While it still has a verdict to deliver, the task it holds is running, or
\* the user cancelled it behind its back.
Undelivered ==
    worker.pc \in {"begin", "call", "parse", "rounds", "asking"}
      => status[worker.task] \in {"running", "cancelled"}

\* The task of a pending cancel, and the one the worker holds, were enqueued.
Enqueued ==
    /\ marking # NoTask => status[marking] # "absent" /\ review = NoTask
    /\ worker.task # NoTask => status[worker.task] # "absent"

\* A cancel function is registered between RunRegister and RunUnregister.
Registered ==
    \A t \in cancels : worker.task = t /\ worker.pc \in {"call", "parse", "unregister"}

\* A call in flight is one of the rounds the delegation may still make.
RoundLeft == worker.pc = "asking" => worker.round < MaxRounds

IInv ==
    /\ TypeOK
    /\ RoundLeft
    /\ Holding
    /\ Undelivered
    /\ Enqueued
    /\ Registered
    /\ RunningIsExecuted
    /\ ReviewIsLive
    /\ WrittenWasAccepted
    /\ RegistryIsCurrent

\* The initial state satisfies the inductive invariant.
LEMMA InitIInv == Init => IInv
<1> SUFFICES ASSUME Init PROVE IInv
  OBVIOUS
<1> USE NoTaskAssumption DEF Init, Idle
<1>1. worker \in WorkerType
  BY MaxRoundsAssumption DEF WorkerType, WorkerPCs
<1>2. TypeOK
  BY <1>1 DEF TypeOK, Statuses, Terminal, Kinds
<1>3. RoundLeft /\ Holding /\ Undelivered /\ Enqueued /\ Registered
  BY DEF RoundLeft, Holding, Undelivered, Enqueued, Registered
<1>4. RunningIsExecuted /\ ReviewIsLive /\ WrittenWasAccepted /\ RegistryIsCurrent
  BY DEF RunningIsExecuted, ReviewIsLive, WrittenWasAccepted, RegistryIsCurrent
<1>5. QED
  BY <1>2, <1>3, <1>4 DEF IInv

\* Every step of the UI thread and of the worker preserves it.
LEMMA StepIInv == IInv /\ [Next]_vars => IInv'
<1> SUFFICES ASSUME IInv, [Next]_vars PROVE IInv'
  OBVIOUS
<1> USE NoTaskAssumption, MaxRoundsAssumption
    DEF IInv, TypeOK, RoundLeft, Holding, Undelivered, Enqueued, Registered,
        RunningIsExecuted, ReviewIsLive, WrittenWasAccepted, RegistryIsCurrent,
        Statuses, Terminal, Kinds, WorkerPCs, WorkerAt, Idle, UIReady,
        SettledAs, SetStatus, SetChanges, queueVars, uiVars, WorkerType
<1>1. ASSUME NEW t \in Tasks, NEW k \in Kinds, Enqueue(t, k) PROVE IInv'
  BY <1>1 DEF Enqueue, TokenAfterEnqueue
<1>2. ASSUME NEW t \in Tasks, CancelLookup(t) PROVE IInv'
  BY <1>2 DEF CancelLookup
<1>3. CASE CancelMark
  BY <1>3 DEF CancelMark
<1>4. ASSUME NEW t \in Tasks, StartReview(t) PROVE IInv'
  BY <1>4 DEF StartReview, Reviewable
<1>5. CASE AcceptReview
  BY <1>5 DEF AcceptReview
<1>6. CASE AcceptFails
  BY <1>6 DEF AcceptFails
<1>7. CASE RejectReview
  BY <1>7 DEF RejectReview
<1>8. CASE Shutdown
  BY <1>8 DEF Shutdown
<1>9. CASE WorkerLoops
  BY <1>9 DEF WorkerLoops
<1>10. ASSUME NEW t \in Tasks, WorkerPicks(t) PROVE IInv'
  <2>1. worker' \in WorkerType
    <3>1. worker' = [pc |-> "begin", task |-> t, round |-> 0, proposed |-> FALSE]
      BY <1>10 DEF WorkerPicks
    <3>2. 0 \in 0..MaxRounds
      OBVIOUS
    <3>3. QED
      BY <3>1, <3>2 DEF WorkerType
  <2>2. worker'.pc = "begin" /\ worker'.task = t
    BY <1>10 DEF WorkerPicks
  <2>3. TypeOK'
    BY <1>10, <2>1 DEF WorkerPicks
  <2>4. worker.task = NoTask
    BY <1>10 DEF WorkerPicks
  <2>5. QED
    BY <1>10, <2>2, <2>3, <2>4 DEF WorkerPicks, IsOldestQueued
<1>11. CASE WorkerFallsAsleep
  BY <1>11 DEF WorkerFallsAsleep
<1>11a. CASE WorkerFindsNone
  BY <1>11a DEF WorkerFindsNone
<1>12. CASE WorkerWakes
  BY <1>12 DEF WorkerWakes
<1>13. CASE WorkerStops
  BY <1>13 DEF WorkerStops
<1>14. CASE RunRegister
  BY <1>14 DEF RunRegister
<1>15. CASE RunSeesCancel
  BY <1>15 DEF RunSeesCancel
<1>16. CASE RunStreamEnds
  BY <1>16 DEF RunStreamEnds
<1>17. CASE RunProposes
  BY <1>17 DEF RunProposes
<1>18. CASE RunFails
  BY <1>18 DEF RunFails
<1>19. CASE RunUnregister
  BY <1>19 DEF RunUnregister
<1>20. CASE SubBegin
  BY <1>20 DEF SubBegin
<1>21. CASE SubAsks
  BY <1>21 DEF SubAsks
<1>22. ASSUME NEW p \in BOOLEAN, SubUsesTools(p) PROVE IInv'
  <2>1. worker' \in WorkerType
    <3>1. (worker.proposed \/ p) \in BOOLEAN
      OBVIOUS
    <3>2. worker.round + 1 \in 0..MaxRounds
      BY <1>22 DEF SubUsesTools, WorkerType
    <3>3. QED
      BY <1>22, <3>1, <3>2 DEF SubUsesTools, WorkerType
  <2>2. worker'.pc = "rounds" /\ worker'.task = worker.task
    BY <1>22 DEF SubUsesTools, WorkerType
  <2>3. QED
    BY <1>22, <2>1, <2>2 DEF SubUsesTools
<1>23. CASE SubEnds
  BY <1>23 DEF SubEnds, SubFinish
<1>24. CASE SubTimesOut
  BY <1>24 DEF SubTimesOut, SubFinish
<1>25. CASE SubFails
  BY <1>25 DEF SubFails
<1>26. CASE UNCHANGED vars
  BY <1>26 DEF vars
<1>27. QED
  BY <1>1, <1>2, <1>3, <1>4, <1>5, <1>6, <1>7, <1>8, <1>9, <1>10, <1>11, <1>11a, <1>12,
     <1>13, <1>14, <1>15, <1>16, <1>17, <1>18, <1>19, <1>20, <1>21, <1>22, <1>23,
     <1>24, <1>25, <1>26
  DEF Next, UINext, WorkerStep, RunStep, SubStep

\* The invariant holds in every reachable state.
LEMMA Invariance == Spec => []IInv
  BY InitIInv, StepIInv, PTL DEF Spec

\* Type correctness of every variable of the subsystem.
THEOREM TypeCorrect == Spec => []TypeOK
<1>1. IInv => TypeOK
  BY DEF IInv
<1>2. QED
  BY Invariance, <1>1, PTL

\* One task runs at a time, and it is the one the worker executes.
THEOREM RunningCorrect == Spec => []RunningIsExecuted
<1>1. IInv => RunningIsExecuted
  BY DEF IInv
<1>2. QED
  BY Invariance, <1>1, PTL

\* The diff review on screen is of a task that is still in review.
THEOREM ReviewCorrect == Spec => []ReviewIsLive
<1>1. IInv => ReviewIsLive
  BY DEF IInv
<1>2. QED
  BY Invariance, <1>1, PTL

\* No change reaches the disk for a task that was not accepted.
THEOREM WrittenCorrect == Spec => []WrittenWasAccepted
<1>1. IInv => WrittenWasAccepted
  BY DEF IInv
<1>2. QED
  BY Invariance, <1>1, PTL

\* The cancel registry holds the executing task's function at most.
THEOREM RegistryCorrect == Spec => []RegistryIsCurrent
<1>1. IInv => RegistryIsCurrent
  BY DEF IInv
<1>2. QED
  BY Invariance, <1>1, PTL
-----------------------------------------------------------------------------
(* What one step may do to the status of the tasks.                        *)

\* Every step leaves the statuses alone or moves one task along the life cycle.
LEMMA StepMoves == IInv /\ [Next]_vars => [Lifecycle!LifeNext]_status
<1> SUFFICES ASSUME IInv, Next
             PROVE  \/ UNCHANGED status
                    \/ \E t \in Tasks, s \in Lifecycle!LifeStatus : Lifecycle!Move(t, s)
  BY DEF Lifecycle!LifeNext, vars, queueVars
<1> USE NoTaskAssumption DEF IInv, TypeOK
<1>1. ASSUME NEW t \in Tasks, NEW s \in Lifecycle!LifeStatus,
             SetStatus(t, s) \/ (s = "review" /\ SetChanges(t)),
             \/ status[t] \in Terminal
             \/ status[t] = "running" /\ s \in {"review", "done", "failed", "cancelled"}
             \/ status[t] = "review" /\ s \in {"applied", "done", "cancelled"}
             \/ status[t] = "queued" /\ s = "cancelled"
      PROVE  UNCHANGED status \/ Lifecycle!Move(t, s)
  <2>1. status' = [status EXCEPT ![t] = SettledAs(t, s)]
    BY <1>1 DEF SetStatus, SetChanges
  <2>2. CASE status[t] \in Terminal
    BY <2>1, <2>2 DEF SettledAs
  <2>3. CASE status[t] \notin Terminal
    <3>1. <<status[t], s>> \in Lifecycle!Moves
      BY <1>1, <2>3 DEF Lifecycle!Moves
    <3>2. s # "running" /\ status' = [status EXCEPT ![t] = s]
      BY <1>1, <2>1, <2>3 DEF SettledAs
    <3>3. QED
      BY <3>1, <3>2 DEF Lifecycle!Move
  <2>4. QED
    BY <2>2, <2>3
<1>2. ASSUME NEW t \in Tasks, NEW k \in Kinds, Enqueue(t, k)
      PROVE  Lifecycle!Move(t, "queued")
  BY <1>2 DEF Enqueue, Lifecycle!Move, Lifecycle!Moves
<1>3. ASSUME NEW t \in Tasks, WorkerPicks(t)
      PROVE  Lifecycle!Move(t, "running")
  <2>1. \A u \in Tasks : status[u] # "running"
    BY <1>3 DEF WorkerPicks, WorkerAt, RunningIsExecuted, Holding
  <2>2. QED
    BY <1>3, <2>1 DEF WorkerPicks, IsOldestQueued, Lifecycle!Move, Lifecycle!Moves
<1>4. CASE CancelMark
  BY <1>1, <1>4 DEF CancelMark, Enqueued, Statuses, Lifecycle!LifeStatus
<1>5. CASE AcceptReview
  BY <1>1, <1>5 DEF AcceptReview, ReviewIsLive, Lifecycle!LifeStatus
<1>6. CASE RejectReview
  BY <1>1, <1>6 DEF RejectReview, ReviewIsLive, Lifecycle!LifeStatus
<1>7. ASSUME worker.pc \in {"call", "parse", "rounds", "asking"}
      PROVE  worker.task \in Tasks
             /\ (status[worker.task] = "running" \/ status[worker.task] \in Terminal)
  BY <1>7 DEF Holding, Undelivered, Terminal, WorkerType
<1>8. CASE RunSeesCancel
  BY <1>1, <1>7, <1>8 DEF RunSeesCancel, WorkerAt, Lifecycle!LifeStatus
<1>9. CASE RunProposes
  BY <1>1, <1>7, <1>9 DEF RunProposes, WorkerAt, Lifecycle!LifeStatus
<1>10. CASE RunFails
  BY <1>1, <1>7, <1>10 DEF RunFails, WorkerAt, Lifecycle!LifeStatus
<1>11. CASE SubEnds
  BY <1>1, <1>7, <1>11 DEF SubEnds, SubFinish, WorkerAt, Lifecycle!LifeStatus
<1>12. CASE SubTimesOut
  BY <1>1, <1>7, <1>12 DEF SubTimesOut, SubFinish, WorkerAt, Lifecycle!LifeStatus
<1>13. CASE SubFails
  BY <1>1, <1>7, <1>13 DEF SubFails, WorkerAt, Lifecycle!LifeStatus
<1>14. CASE \/ \E t \in Tasks : CancelLookup(t) \/ StartReview(t)
            \/ AcceptFails \/ Shutdown
            \/ WorkerLoops \/ WorkerFindsNone \/ WorkerFallsAsleep \/ WorkerWakes \/ WorkerStops
            \/ RunRegister \/ RunStreamEnds \/ RunUnregister
            \/ SubBegin \/ SubAsks \/ \E p \in BOOLEAN : SubUsesTools(p)
  BY <1>14 DEF CancelLookup, StartReview, AcceptFails, Shutdown, WorkerLoops,
     WorkerFindsNone, WorkerFallsAsleep, WorkerWakes, WorkerStops, RunRegister, RunStreamEnds,
     RunUnregister, SubBegin, SubAsks, SubUsesTools, queueVars
<1>15. QED
  BY <1>2, <1>3, <1>4, <1>5, <1>6, <1>8, <1>9, <1>10, <1>11, <1>12, <1>13, <1>14
  DEF Next, UINext, WorkerStep, RunStep, SubStep, Lifecycle!LifeStatus

\* The subsystem implements TaskLifecycle: tasks only make the moves the status
\* constants document, one of them running at a time.
THEOREM Refinement == Spec => ImplementsLifecycle
<1>1. Init => Lifecycle!LifeInit
  BY DEF Init, Lifecycle!LifeInit
<1>2. QED
  BY <1>1, Invariance, StepMoves, PTL
  DEF Spec, ImplementsLifecycle, Lifecycle!LifeSpec

\* A task that ended stays as it ended: no move starts from an end.
THEOREM EndsCorrect == Spec => EndsAreFinal
<1>1. IInv /\ [Next]_vars
        => [\A t \in Tasks : status[t] \in Terminal => status'[t] = status[t]]_vars
  <2>1. ASSUME IInv, [Next]_vars, NEW t \in Tasks, status[t] \in Terminal
        PROVE  status'[t] = status[t]
    <3>1. CASE UNCHANGED status
      BY <3>1
    <3>2. ASSUME NEW u \in Tasks, NEW s \in Lifecycle!LifeStatus, Lifecycle!Move(u, s)
          PROVE  status'[t] = status[t]
      BY <2>1, <3>2 DEF Lifecycle!Move, Lifecycle!Moves, Terminal, IInv, TypeOK
    <3>3. QED
      BY <2>1, <3>1, <3>2, StepMoves DEF Lifecycle!LifeNext
  <2>2. QED
    BY <2>1
<1>2. QED
  BY <1>1, Invariance, PTL DEF Spec, EndsAreFinal

\* First in, first out: only the worker's pick starts a task, the oldest one.
THEOREM StartsInOrderCorrect == Spec => StartsInOrder
<1>1. ASSUME IInv, [Next]_vars, NEW t \in Tasks, NEW u \in Tasks,
             status[t] = "queued", status'[t] = "running", status[u] = "queued"
      PROVE  born[t] <= born[u]
  <2> USE <1>1 DEF IInv, TypeOK
  <2>1. ASSUME NEW s, s # "running", NEW v \in Tasks,
               status' = [status EXCEPT ![v] = SettledAs(v, s)]
        PROVE  FALSE
    BY <2>1 DEF SettledAs, Terminal
  <2>2. status' # status
    OBVIOUS
  <2>3. worker.pc \in {"call", "parse", "rounds", "asking"} => worker.task \in Tasks
    BY DEF Holding, WorkerType
  <2>4. \A v \in Tasks, k \in Kinds : ~Enqueue(v, k)
    BY DEF Enqueue
  <2>5. ~CancelMark /\ ~AcceptReview /\ ~RejectReview
    BY <2>1 DEF CancelMark, AcceptReview, RejectReview, SetStatus
  <2>6. ~RunSeesCancel /\ ~RunProposes /\ ~RunFails
    BY <2>1, <2>3 DEF RunSeesCancel, RunProposes, RunFails, SetStatus, SetChanges, WorkerAt
  <2>7. ~SubEnds /\ ~SubTimesOut /\ ~SubFails
    BY <2>1, <2>3
    DEF SubEnds, SubTimesOut, SubFails, SubFinish, SetStatus, SetChanges, WorkerAt
  <2>8. \E v \in Tasks : WorkerPicks(v)
    BY <2>2, <2>4, <2>5, <2>6, <2>7
    DEF Next, UINext, WorkerStep, RunStep, SubStep, vars, queueVars,
        CancelLookup, StartReview, AcceptFails, Shutdown, WorkerLoops,
        WorkerFindsNone, WorkerFallsAsleep, WorkerWakes, WorkerStops, RunRegister, RunStreamEnds,
        RunUnregister, SubBegin, SubAsks, SubUsesTools
  <2>9. QED
    BY <2>8 DEF WorkerPicks, IsOldestQueued
<1>2. IInv /\ [Next]_vars
        => [\A t, u \in Tasks :
              status[t] = "queued" /\ status'[t] = "running" /\ status[u] = "queued"
                => born[t] <= born[u]]_vars
  BY <1>1
<1>3. QED
  BY <1>2, Invariance, PTL DEF Spec, StartsInOrder

\* For any tasks and any bound on the rounds, the panel, the worker and a cancel
\* never disagree about a task: the four parts of TasksAreSafe together.
THEOREM TasksAreSafeCorrect == Spec => []TasksAreSafe
<1>1. RunningIsExecuted /\ ReviewIsLive /\ WrittenWasAccepted /\ RegistryIsCurrent
        <=> TasksAreSafe
  BY DEF TasksAreSafe
<1>. QED
  BY <1>1, RunningCorrect, ReviewCorrect, WrittenCorrect, RegistryCorrect, PTL

\* The life of every task goes on in order and ends once.
THEOREM LivesAreOrderlyCorrect == Spec => LivesAreOrderly
  BY EndsCorrect, StartsInOrderCorrect DEF LivesAreOrderly
-----------------------------------------------------------------------------
(***************************************************************************)
(* Safety of Passes for any number of tabs and texts: PassesFit.  A tab    *)
(* that was never taken for another one has one message under way, a wait  *)
(* or a pass, while it is pending, and none while it is not; the message   *)
(* carries the tab's place; and all parts of its lines are of one text, or *)
(* empty if the text came back in the middle of a pass.                    *)
(***************************************************************************)
TabType == [name : Names, n : Nat, want : Nat \X Nat, pending : BOOLEAN,
            kept : Nat \X Nat, parts : Seq(Nat \X Nat)]

PassesTyped(run) ==
    \A p \in run : /\ p = [at |-> p.at, text |-> p.text, part |-> p.part, k |-> p.k]
                   /\ p.at \in Nat \ {0} /\ p.text \in Nat \X Nat /\ p.part \in 1..2
PlacesAreNats(tms) == \A m \in tms : m.at \in Nat \ {0}
NamesDiffer(ts) == \A i, j \in 1..Len(ts) : ts[i].name = ts[j].name => i = j

PassTypes ==
    /\ tabs \in Seq(TabType) /\ shown \in 1..Len(tabs)
    /\ NamesDiffer(tabs)
    /\ PassesTyped(running) /\ PlacesAreNats(timers)
    /\ pipe \in {"syntax", "diff"}

TimersOf(tms, t) == {m \in tms : m.for = t.name}
PassesOf(run, t) == {p \in run : p.text[1] = t.name}
Lone(S) == \A x, y \in S : x = y

\* The place i of a tab that was never taken for another one.
OneMessage(tms, run, t, i) ==
    /\ \A m \in TimersOf(tms, t) : m.at = i
    /\ \A p \in PassesOf(run, t) : p.at = i
    /\ Lone(TimersOf(tms, t)) /\ Lone(PassesOf(run, t))
    /\ TimersOf(tms, t) = {} \/ PassesOf(run, t) = {}
    /\ TimersOf(tms, t) # {} \/ PassesOf(run, t) # {} => t.pending = TRUE

\* A second part that comes finds the first part of its text, unless the text came
\* back meanwhile.
OneText(run, t, half) ==
    /\ \A k \in 1..Len(t.parts) : t.parts[k] \in {t.kept, NoText}
    /\ t.parts = <<>> => t.kept = NoText
    /\ t.name \notin half =>
           /\ \A k \in 1..Len(t.parts) : t.parts[k] = t.kept
           /\ \A p \in PassesOf(run, t) : p.part = 2 /\ p.text = Text(t) => p.text = t.kept

Untroubled(tms, run, t, i, half) == OneMessage(tms, run, t, i) /\ OneText(run, t, half)

AllUntroubled(ts, tms, run, bad, half) ==
    \A i \in 1..Len(ts) : ts[i].name \notin bad => Untroubled(tms, run, ts[i], i, half)

PassInv == PassTypes /\ AllUntroubled(tabs, timers, running, moved \cup misled, back)

LEMMA TimerAdded ==
    ASSUME NEW ts, NEW place, NEW name
    PROVE  \E m : m.at = place /\ m.for = name /\ AddTimer(ts, place, name) = ts \cup {m}
<1> DEFINE msg(k) == [at |-> place, for |-> name, k |-> k]
           free   == CHOOSE k \in 0..3 : msg(k) \notin ts /\ \A j \in 0..(k - 1) : msg(j) \in ts
<1>1. AddTimer(ts, place, name) = ts \cup {msg(free)}
  BY DEF AddTimer, Another
<1>2. msg(free).at = place /\ msg(free).for = name
  OBVIOUS
<1> QED BY <1>1, <1>2

LEMMA PassStarted ==
    ASSUME NEW place, NEW text
    PROVE  \E k : StartPass(place, text) =
                    running \cup {[at |-> place, text |-> text, part |-> 1, k |-> k]}
BY DEF StartPass
-----------------------------------------------------------------------------
\* Fewer messages trouble no tab.
LEMMA Fewer ==
    ASSUME NEW tms, NEW run, NEW tms2, NEW run2, NEW half, NEW half2, half \subseteq half2,
           NEW t, NEW i, Untroubled(tms, run, t, i, half),
           TimersOf(tms2, t) \subseteq TimersOf(tms, t),
           PassesOf(run2, t) \subseteq PassesOf(run, t)
    PROVE  Untroubled(tms2, run2, t, i, half2)
BY DEF Untroubled, OneMessage, OneText, Lone

\* One tab and its messages change, the messages of the others do not.
LEMMA OneTabChanges ==
    ASSUME NEW ts \in Seq(TabType), NEW tms, NEW run, NEW bad, NEW tms2, NEW run2, NEW bad2,
           NEW half, NEW half2, half \subseteq half2,
           NEW i \in 1..Len(ts), NEW x \in TabType,
           AllUntroubled(ts, tms, run, bad, half), bad \subseteq bad2,
           \A j \in 1..Len(ts) : j # i /\ ts[j].name \notin bad2 =>
               /\ TimersOf(tms2, ts[j]) \subseteq TimersOf(tms, ts[j])
               /\ PassesOf(run2, ts[j]) \subseteq PassesOf(run, ts[j]),
           x.name \notin bad2 => Untroubled(tms2, run2, x, i, half2)
    PROVE  AllUntroubled([ts EXCEPT ![i] = x], tms2, run2, bad2, half2)
<1> DEFINE us == [ts EXCEPT ![i] = x]
<1>1. Len(us) = Len(ts) /\ \A j \in 1..Len(ts) : us[j] = IF j = i THEN x ELSE ts[j]
  BY ExceptSeq
<1> HIDE DEF us
<1> SUFFICES ASSUME NEW j \in 1..Len(ts), us[j].name \notin bad2
             PROVE  Untroubled(tms2, run2, us[j], j, half2)
  BY <1>1 DEF AllUntroubled, us
<1>2. CASE j = i
  BY <1>1, <1>2
<1>3. CASE j # i
  <2>1. us[j] = ts[j] /\ Untroubled(tms, run, ts[j], j, half)
    BY <1>1, <1>3 DEF AllUntroubled
  <2> QED BY <2>1, <1>3, Fewer
<1> QED BY <1>2, <1>3

LEMMA TabFields ==
    ASSUME NEW t \in TabType
    PROVE  /\ t.name \in Names /\ t.n \in Nat /\ t.pending \in BOOLEAN /\ t.want \in Nat \X Nat
           /\ t.kept \in Nat \X Nat /\ t.parts \in Seq(Nat \X Nat) /\ Text(t) \in Nat \X Nat
           /\ Text(t)[1] = t.name /\ Text(t)[2] = t.n
BY PassBoundsAssumption DEF TabType, Text, Names

\* What is left of a tab when a pass is asked for it: its name and text, and its
\* lines unless they are dropped.
Asked(t, x) ==
    /\ x \in TabType /\ x.name = t.name /\ x.n = t.n /\ x.pending = TRUE
    /\ (x.kept = t.kept /\ x.parts = t.parts) \/ (x.kept = NoText /\ x.parts = <<>>)

SameNames(us, ts) == Len(us) = Len(ts) /\ \A i \in 1..Len(ts) : us[i].name = ts[i].name

LEMMA RequestKeeps ==
    ASSUME NEW ts \in Seq(TabType), NEW tms, NEW run, NEW bad, NEW half, NEW place \in 1..Len(ts),
           NamesDiffer(ts), AllUntroubled(ts, tms, run, bad, half), PlacesAreNats(tms),
           RequestPass(ts, tms, place)
    PROVE  /\ tabs' \in Seq(TabType) /\ SameNames(tabs', ts) /\ PlacesAreNats(timers')
           /\ AllUntroubled(tabs', timers', run, bad, half)
<1> DEFINE t == ts[place]
           asked == [t EXCEPT !.pending = TRUE, !.want = Text(t)]
           dropped == [asked EXCEPT !.kept = NoText, !.parts = <<>>]
<1>1. t \in TabType
  BY ElementOfSeq
<1>2. \/ tabs' = ts /\ timers' = tms
      \/ /\ ~t.pending /\ timers' = AddTimer(tms, place, t.name)
         /\ \E x \in {asked, dropped} : tabs' = [ts EXCEPT ![place] = x]
  BY DEF RequestPass
<1>3. CASE tabs' = ts /\ timers' = tms
  BY <1>3 DEF SameNames
<1>4. CASE /\ ~t.pending /\ timers' = AddTimer(tms, place, t.name)
           /\ \E x \in {asked, dropped} : tabs' = [ts EXCEPT ![place] = x]
  <2>1. \A x \in {asked, dropped} : Asked(t, x)
    <3>1. t.want \in Nat \X Nat /\ Text(t) \in Nat \X Nat /\ NoText \in Nat \X Nat
          /\ <<>> \in Seq(Nat \X Nat)
      BY <1>1, TabFields, EmptySeq DEF NoText
    <3> HIDE DEF t
    <3>2. Asked(t, asked)
      BY <1>1, <3>1 DEF Asked, TabType
    <3>3. Asked(t, dropped)
      BY <1>1, <3>1 DEF Asked, TabType
    <3> QED BY <3>2, <3>3
  <2>2. PICK x \in {asked, dropped} : tabs' = [ts EXCEPT ![place] = x]
    BY <1>4
  <2>3. Asked(t, x)
    BY <2>1
  <2>4. PICK m : m.at = place /\ m.for = t.name /\ timers' = tms \cup {m}
    BY <1>4, TimerAdded
  <2> HIDE DEF asked, dropped
  <2>5. x \in TabType /\ x.name = t.name
    BY <2>3 DEF Asked
  <2>6. /\ tabs' \in Seq(TabType) /\ Len(tabs') = Len(ts)
        /\ \A j \in 1..Len(ts) : tabs'[j] = IF j = place THEN x ELSE ts[j]
    BY <2>2, <2>5, ExceptSeq
  <2>7. SameNames(tabs', ts)
    BY <2>5, <2>6 DEF SameNames
  <2>8. PlacesAreNats(timers')
    BY <2>4 DEF PlacesAreNats
  <2>9. ASSUME x.name \notin bad PROVE Untroubled(tms \cup {m}, run, x, place, half)
    <3>1. Untroubled(tms, run, t, place, half)
      BY <2>5, <2>9 DEF AllUntroubled
    <3>2. TimersOf(tms, t) = {} /\ PassesOf(run, t) = {}
      BY <3>1, <1>4 DEF Untroubled, OneMessage
    <3>3. TimersOf(tms \cup {m}, x) = {m} /\ PassesOf(run, x) = {}
      BY <3>2, <2>4, <2>5 DEF TimersOf, PassesOf
    <3> HIDE DEF t
    <3>4. OneMessage(tms \cup {m}, run, x, place)
      BY <3>3, <2>3, <2>4 DEF OneMessage, Lone, Asked
    <3>5. OneText({}, x, half)
      <4>1. CASE x.kept = t.kept /\ x.parts = t.parts
        BY <4>1, <3>1, <2>5 DEF Untroubled, OneText, PassesOf
      <4>2. CASE x.kept = NoText /\ x.parts = <<>>
        BY <4>2, EmptySeq DEF OneText, PassesOf
      <4> QED BY <4>1, <4>2, <2>3 DEF Asked
    <3> QED BY <3>3, <3>4, <3>5 DEF Untroubled, OneText
  <2>10. \A j \in 1..Len(ts) : j # place =>
             /\ TimersOf(tms \cup {m}, ts[j]) \subseteq TimersOf(tms, ts[j])
             /\ PassesOf(run, ts[j]) \subseteq PassesOf(run, ts[j])
    BY <2>4 DEF TimersOf, NamesDiffer
  <2>11. AllUntroubled([ts EXCEPT ![place] = x], tms \cup {m}, run, bad, half)
    BY <2>5, <2>9, <2>10, OneTabChanges
  <2> QED BY <2>2, <2>4, <2>6, <2>7, <2>8, <2>11
<1> QED BY <1>2, <1>3, <1>4

\* The end of every handler: the tab on screen asks for its pass.
LEMMA Settles ==
    ASSUME NEW ts \in Seq(TabType), NEW tms, NEW place \in 1..Len(ts), NamesDiffer(ts),
           PlacesAreNats(tms), RequestPass(ts, tms, place), shown' = place,
           NEW run, running' = run, PassesTyped(run), NEW bad, moved' \cup misled' = bad,
           NEW half, back' = half,
           AllUntroubled(ts, tms, run, bad, half), pipe' = pipe, pipe \in {"syntax", "diff"}
    PROVE  PassInv'
<1>1. /\ tabs' \in Seq(TabType) /\ SameNames(tabs', ts) /\ PlacesAreNats(timers')
      /\ AllUntroubled(tabs', timers', run, bad, half)
  BY RequestKeeps
<1>2. NamesDiffer(tabs')
  BY <1>1 DEF NamesDiffer, SameNames
<1> QED BY <1>1, <1>2 DEF PassInv, PassTypes, SameNames

\* The facts the handlers start from.
LEMMA PassFacts ==
    ASSUME PassInv
    PROVE  /\ tabs \in Seq(TabType) /\ Len(tabs) \in Nat /\ DOMAIN tabs = 1..Len(tabs)
           /\ shown \in 1..Len(tabs)
           /\ NamesDiffer(tabs) /\ PassesTyped(running) /\ PlacesAreNats(timers)
           /\ AllUntroubled(tabs, timers, running, moved \cup misled, back)
           /\ pipe \in {"syntax", "diff"}
           /\ \A i \in 1..Len(tabs) : tabs[i] \in TabType
BY ElementOfSeq, LenProperties DEF PassInv, PassTypes

\* Typing makes the text another one than that of every pass, or one whose pass has
\* not published yet, or one the lines on screen are of, or the text came back.
LEMMA TypeIntoKeeps == ASSUME PassInv, TypeInto PROVE PassInv'
<1>0. PICK n \in 1..MaxTexts \ {tabs[shown].n} :
        LET x == [tabs[shown] EXCEPT !.n = n]
        IN  /\ RequestPass([tabs EXCEPT ![shown] = x], timers, shown)
            /\ back' = IF CameBack(x) THEN back \cup {x.name} ELSE back
            /\ UNCHANGED <<pipe, shown, running, moved, misled>>
  BY DEF TypeInto, Settled
<1> DEFINE t == tabs[shown]
           x == [t EXCEPT !.n = n]
           ts == [tabs EXCEPT ![shown] = x]
           bad == moved \cup misled
<1>1. t \in TabType
  BY PassFacts
<1>2. /\ x \in TabType /\ x.name = t.name /\ x.pending = t.pending
      /\ x.kept = t.kept /\ x.parts = t.parts
  <2>1. n \in Nat
    BY PassBoundsAssumption
  <2> HIDE DEF t
  <2> QED BY <1>1, <2>1 DEF TabType
<1>4. /\ RequestPass(ts, timers, shown) /\ shown' = shown /\ running' = running
      /\ moved' = moved /\ misled' = misled /\ pipe' = pipe
      /\ back' = IF CameBack(x) THEN back \cup {x.name} ELSE back
      /\ back \subseteq back'
  BY <1>0
<1> HIDE DEF x
<1>5. /\ ts \in Seq(TabType) /\ Len(ts) = Len(tabs)
      /\ \A j \in 1..Len(tabs) : ts[j] = IF j = shown THEN x ELSE tabs[j]
  BY <1>2, PassFacts, ExceptSeq
<1>6. NamesDiffer(ts)
  <2> HIDE DEF ts
  <2>1. \A j \in 1..Len(tabs) : ts[j].name = tabs[j].name
    BY <1>2, <1>5
  <2> QED BY <2>1, <1>5, PassFacts DEF NamesDiffer
<1>7. ASSUME x.name \notin bad PROVE Untroubled(timers, running, x, shown, back')
  <2>1. Untroubled(timers, running, t, shown, back)
    BY <1>2, <1>7, PassFacts DEF AllUntroubled
  <2> HIDE DEF t, bad
  <2>2. TimersOf(timers, x) = TimersOf(timers, t) /\ PassesOf(running, x) = PassesOf(running, t)
    BY <1>2 DEF TimersOf, PassesOf
  <2>3. OneMessage(timers, running, x, shown)
    BY <2>1, <2>2, <1>2 DEF Untroubled, OneMessage
  <2>4. /\ \A k \in 1..Len(x.parts) : x.parts[k] \in {x.kept, NoText}
        /\ x.parts = <<>> => x.kept = NoText
    BY <2>1, <1>2 DEF Untroubled, OneText
  <2>5. ASSUME x.name \notin back'
        PROVE  /\ \A k \in 1..Len(x.parts) : x.parts[k] = x.kept
               /\ \A p \in PassesOf(running, x) :
                      p.part = 2 /\ p.text = Text(x) => p.text = x.kept
    <3>1. x.name \notin back /\ ~CameBack(x)
      BY <2>5, <1>4
    <3>2. \A k \in 1..Len(x.parts) : x.parts[k] = x.kept
      BY <3>1, <2>1, <1>2 DEF Untroubled, OneText
    <3>3. \A p \in PassesOf(running, x) :
              p.part = 2 /\ p.text = Text(x) => p.text = x.kept
      BY <3>1 DEF CameBack, PassesOf
    <3> QED BY <3>2, <3>3
  <2> QED BY <2>3, <2>4, <2>5 DEF Untroubled, OneText
<1>8. AllUntroubled(ts, timers, running, bad, back')
  <2> HIDE DEF t, bad
  <2> QED BY <1>2, <1>4, <1>7, PassFacts, OneTabChanges DEF bad
<1> HIDE DEF ts
<1> QED BY <1>4, <1>5, <1>6, <1>8, PassFacts, Settles

LEMMA ShowTabKeeps == ASSUME PassInv, ShowTab PROVE PassInv'
<1>1. PICK i \in 1..Len(tabs) : shown' = i /\ RequestPass(tabs, timers, i)
  BY PassFacts DEF ShowTab
<1>2. /\ running' = running /\ moved' = moved /\ misled' = misled /\ pipe' = pipe
      /\ back' = back
  BY DEF ShowTab
<1> QED BY <1>1, <1>2, PassFacts, Settles

LEMMA Removed ==
    ASSUME NEW S, NEW s \in Seq(S), NEW i \in 1..Len(s)
    PROVE  /\ RemoveAt(s, i) \in Seq(S) /\ Len(RemoveAt(s, i)) = Len(s) - 1
           /\ \A j \in 1..Len(s) - 1 : RemoveAt(s, i)[j] = IF j < i THEN s[j] ELSE s[j + 1]
<1> DEFINE n == Len(s)
           before == SubSeq(s, 1, i - 1)
           after  == SubSeq(s, i + 1, n)
<1>1. n \in Nat /\ i \in 1..n
  BY LenProperties
<1>2. \A k \in 1..n : s[k] \in S
  BY ElementOfSeq
<1> HIDE DEF n
<1>3. 1 \in Int /\ i - 1 \in Int /\ i + 1 \in Int /\ n \in Int
      /\ (\A k \in 1..i - 1 : s[k] \in S) /\ (\A k \in i + 1..n : s[k] \in S)
  BY <1>1, <1>2
<1>4. /\ before \in Seq(S)
      /\ Len(before) = IF 1 <= i - 1 THEN i - 1 - 1 + 1 ELSE 0
      /\ \A k \in 1..i - 1 - 1 + 1 : before[k] = s[1 + k - 1]
  BY <1>3, SubSeqProperties
<1>5. /\ after \in Seq(S)
      /\ Len(after) = IF i + 1 <= n THEN n - (i + 1) + 1 ELSE 0
      /\ \A k \in 1..n - (i + 1) + 1 : after[k] = s[i + 1 + k - 1]
  BY <1>3, SubSeqProperties
<1> HIDE DEF before, after
<1>6. Len(before) = i - 1 /\ Len(after) = n - i
  BY <1>1, <1>4, <1>5
<1>7. /\ before \o after \in Seq(S) /\ Len(before \o after) = Len(before) + Len(after)
      /\ \A j \in 1..Len(before) + Len(after) : (before \o after)[j] =
           IF j <= Len(before) THEN before[j] ELSE after[j - Len(before)]
  BY <1>4, <1>5, ConcatProperties
<1>8. RemoveAt(s, i) = before \o after
  BY DEF RemoveAt, before, after, n
<1> DEFINE u == before \o after
<1> HIDE DEF u
<1>9. u \in Seq(S) /\ Len(u) = i - 1 + (n - i)
  BY <1>6, <1>7 DEF u
<1>10. \A j \in 1..n - 1 : u[j] = IF j <= i - 1 THEN before[j] ELSE after[j - (i - 1)]
  <2>1. \A j \in 1..n - 1 : j \in 1..i - 1 + (n - i)
    BY <1>1
  <2> QED BY <2>1, <1>6, <1>7 DEF u
<1>11. ASSUME NEW j \in 1..n - 1 PROVE u[j] = IF j < i THEN s[j] ELSE s[j + 1]
  <2>1. CASE j < i
    <3>1. j <= i - 1 /\ j \in 1..i - 1 - 1 + 1 /\ 1 + j - 1 = j
      BY <1>1, <2>1
    <3> QED BY <3>1, <2>1, <1>4, <1>10
  <2>2. CASE ~(j < i)
    <3>1. ~(j <= i - 1) /\ j - (i - 1) \in 1..n - (i + 1) + 1 /\ i + 1 + (j - (i - 1)) - 1 = j + 1
      BY <1>1, <2>2
    <3> QED BY <3>1, <2>2, <1>5, <1>10
  <2> QED BY <2>1, <2>2
<1>12. Len(u) = n - 1
  BY <1>1, <1>9
<1> QED BY <1>8, <1>9, <1>11, <1>12 DEF u, n

\* The tabs behind the closed one move; those with a message under way are marked.
LEMMA ClosePassTabKeeps == ASSUME PassInv, ClosePassTab PROVE PassInv'
<1>1. PICK i \in 1..Len(tabs) :
         LET ts == RemoveAt(tabs, i)
             at == IF shown > i \/ shown > Len(ts) THEN shown - 1 ELSE shown
         IN  /\ ~down /\ Len(tabs) > 1
             /\ shown' = at
             /\ RequestPass(ts, timers, at)
             /\ moved' = moved \cup {tabs[j].name : j \in {k \in DOMAIN tabs : k > i /\ tabs[k].pending}}
             /\ UNCHANGED <<pipe, running, misled, back, down>>
  BY PassFacts DEF ClosePassTab
<1> DEFINE ts == RemoveAt(tabs, i)
           at == IF shown > i \/ shown > Len(ts) THEN shown - 1 ELSE shown
           bad == moved' \cup misled'
<1>2. /\ Len(tabs) > 1 /\ shown' = at /\ RequestPass(ts, timers, at)
      /\ moved' = moved \cup {tabs[j].name : j \in {k \in 1..Len(tabs) : k > i /\ tabs[k].pending}}
      /\ running' = running /\ misled' = misled /\ pipe' = pipe /\ back' = back
  BY <1>1, PassFacts
<1>3. /\ ts \in Seq(TabType) /\ Len(ts) = Len(tabs) - 1
      /\ \A j \in 1..Len(tabs) - 1 : ts[j] = IF j < i THEN tabs[j] ELSE tabs[j + 1]
  BY PassFacts, Removed
<1> HIDE DEF ts
<1>4. at \in 1..Len(ts)
  <2> DEFINE m == Len(tabs)
  <2>1. m \in Nat /\ m > 1 /\ shown \in 1..m /\ i \in 1..m /\ Len(ts) = m - 1
    BY <1>2, <1>3, PassFacts
  <2> HIDE DEF m
  <2> QED BY <2>1
<1>5. \A j \in 1..Len(ts) : \E k \in 1..Len(tabs) :
         /\ ts[j] = tabs[k] /\ ((k = j /\ k < i) \/ (k = j + 1 /\ k > i))
  <2> SUFFICES ASSUME NEW j \in 1..Len(ts)
               PROVE  \E k \in 1..Len(tabs) :
                  /\ ts[j] = tabs[k] /\ ((k = j /\ k < i) \/ (k = j + 1 /\ k > i))
    OBVIOUS
  <2> DEFINE m == Len(tabs)
  <2>1. m \in Nat /\ i \in 1..m /\ j \in 1..m - 1
    BY <1>3, PassFacts
  <2>2. CASE j < i
    <3>1. j \in 1..m /\ ts[j] = tabs[j]
      BY <2>1, <2>2, <1>3
    <3> QED BY <3>1, <2>1, <2>2
  <2>3. CASE ~(j < i)
    <3> DEFINE k == j + 1
    <3>1. ts[j] = tabs[k]
      BY <2>1, <2>3, <1>3
    <3>2. k \in 1..m /\ k = j + 1 /\ k > i /\ ~(k < i) /\ k # i
      <4> HIDE DEF m
      <4> QED BY <2>1, <2>3
    <3> HIDE DEF k
    <3> QED BY <3>1, <3>2, <2>3
  <2> QED BY <2>2, <2>3
<1>6. NamesDiffer(ts)
  <2> SUFFICES ASSUME NEW j \in 1..Len(ts), NEW k \in 1..Len(ts), ts[j].name = ts[k].name
               PROVE  j = k
    BY DEF NamesDiffer
  <2>1. PICK a \in 1..Len(tabs) : ts[j] = tabs[a] /\ ((a = j /\ a < i) \/ (a = j + 1 /\ a > i))
    BY <1>5
  <2>2. PICK b \in 1..Len(tabs) : ts[k] = tabs[b] /\ ((b = k /\ b < i) \/ (b = k + 1 /\ b > i))
    BY <1>5
  <2>3. a = b
    BY <2>1, <2>2, PassFacts DEF NamesDiffer
  <2>4. j \in Nat /\ k \in Nat /\ i \in Nat /\ a \in Nat
    BY <1>3, PassFacts
  <2> QED BY <2>1, <2>2, <2>3, <2>4
<1>7. AllUntroubled(ts, timers, running, bad, back)
  <2> SUFFICES ASSUME NEW j \in 1..Len(ts), ts[j].name \notin bad
               PROVE  Untroubled(timers, running, ts[j], j, back)
    BY DEF AllUntroubled
  <2>1. PICK k \in 1..Len(tabs) : ts[j] = tabs[k] /\ (k = j \/ (k = j + 1 /\ k > i))
    BY <1>5
  <2>2. Untroubled(timers, running, tabs[k], k, back)
    BY <2>1, <1>2, PassFacts DEF AllUntroubled
  <2>3. CASE k = j
    BY <2>1, <2>2, <2>3
  <2>4. CASE k > i
    <3>1. ~tabs[k].pending
      BY <2>1, <2>4, <1>2
    <3>2. TimersOf(timers, tabs[k]) = {} /\ PassesOf(running, tabs[k]) = {}
      BY <3>1, <2>2 DEF Untroubled, OneMessage
    <3> QED BY <3>2, <2>1, <2>2 DEF Untroubled, OneMessage, OneText
  <2> QED BY <2>1, <2>3, <2>4
<1> HIDE DEF at
<1> QED BY <1>2, <1>3, <1>4, <1>6, <1>7, PassFacts, Settles

\* A wait is over: it starts again, there is nothing to do, or a pass is started.
LEMMA PassTimerKeeps == ASSUME PassInv, PassTimer PROVE PassInv'
<1> DEFINE bad == moved' \cup misled'
<1>1. PICK m \in timers :
         LET t    == tabs[m.at]
             rest == timers \ {m}
         IN  /\ \/ /\ m.at > Len(tabs)
                   /\ timers' = rest
                   /\ UNCHANGED <<tabs, running, misled>>
                \/ /\ m.at > Len(tabs)
                   /\ RequestPass(tabs, rest, shown)
                   /\ UNCHANGED <<running, misled>>
                \/ /\ m.at <= Len(tabs)
                   /\ misled' = IF t.name # m.for THEN misled \cup {t.name} ELSE misled
                   /\ \/ /\ RequestPass([tabs EXCEPT ![m.at].want = Text(t)],
                                        AddTimer(rest, m.at, t.name), shown)
                         /\ UNCHANGED running
                      \/ /\ RequestPass([tabs EXCEPT ![m.at].pending = FALSE], rest, shown)
                         /\ UNCHANGED running
                      \/ /\ RequestPass(tabs, rest, shown)
                         /\ running' = StartPass(m.at, Text(t))
             /\ UNCHANGED <<pipe, shown, moved, back>>
  BY DEF PassTimer
<1> DEFINE t    == tabs[m.at]
           rest == timers \ {m}
<1>2. moved' = moved /\ shown' = shown /\ pipe' = pipe /\ back' = back
  BY <1>1
<1>3. PlacesAreNats(rest)
  BY PassFacts DEF PlacesAreNats
<1>4. \A x : TimersOf(rest, x) \subseteq TimersOf(timers, x)
  BY DEF TimersOf
<1>5. ASSUME NEW b, moved \cup misled \subseteq b PROVE AllUntroubled(tabs, rest, running, b, back)
  <2> SUFFICES ASSUME NEW j \in 1..Len(tabs), tabs[j].name \notin b
               PROVE  Untroubled(rest, running, tabs[j], j, back)
    BY DEF AllUntroubled
  <2>1. Untroubled(timers, running, tabs[j], j, back)
    BY <1>5, PassFacts DEF AllUntroubled
  <2> QED BY <2>1, <1>4, Fewer
<1>6. CASE m.at > Len(tabs) /\ timers' = rest /\ UNCHANGED <<tabs, running, misled>>
  <2>1. PassTypes'
    BY <1>2, <1>3, <1>6, PassFacts DEF PassTypes
  <2>2. AllUntroubled(tabs', timers', running', bad, back')
    BY <1>2, <1>5, <1>6
  <2> QED BY <2>1, <2>2 DEF PassInv
<1>7. CASE RequestPass(tabs, rest, shown) /\ UNCHANGED <<running, misled>>
  <2>1. AllUntroubled(tabs, rest, running, bad, back)
    BY <1>2, <1>5, <1>7
  <2> QED BY <2>1, <1>2, <1>3, <1>7, PassFacts, Settles
<1>8. CASE m.at <= Len(tabs) /\ misled' = IF t.name # m.for THEN misled \cup {t.name} ELSE misled
  <2>1. m.at \in 1..Len(tabs) /\ t \in TabType
    <3>1. m.at \in Nat \ {0} /\ Len(tabs) \in Nat
      BY PassFacts DEF PlacesAreNats
    <3>2. m.at \in 1..Len(tabs)
      BY <3>1, <1>8
    <3> QED BY <3>2, PassFacts
  <2>2. moved \cup misled \subseteq bad
    BY <1>2, <1>8
  \* If the tab was not taken for another one, the message is its only one.
  <2>3. ASSUME t.name \notin bad
        PROVE  /\ m.for = t.name /\ TimersOf(rest, t) = {} /\ PassesOf(running, t) = {}
               /\ t.pending = TRUE /\ Untroubled(timers, running, t, m.at, back)
    <3>1. m.for = t.name
      BY <1>8, <2>3
    <3>2. Untroubled(timers, running, t, m.at, back)
      BY <2>1, <2>2, <2>3, PassFacts DEF AllUntroubled
    <3>3. m \in TimersOf(timers, t)
      BY <3>1 DEF TimersOf
    <3> HIDE DEF t
    <3>4. TimersOf(timers, t) = {m}
      BY <3>2, <3>3 DEF Untroubled, OneMessage, Lone
    <3>5. TimersOf(rest, t) = {}
      BY <3>4 DEF TimersOf
    <3> QED BY <3>1, <3>2, <3>3, <3>5 DEF Untroubled, OneMessage
  <2>4. \A j \in 1..Len(tabs) : j # m.at => tabs[j].name # t.name
    BY <2>1, PassFacts DEF NamesDiffer
  \* The tab's record changes in what no message depends on.
  <2>5. ASSUME NEW x \in TabType, x.name = t.name, NEW tms, NEW run,
               RequestPass([tabs EXCEPT ![m.at] = x], tms, shown), running' = run,
               PlacesAreNats(tms), PassesTyped(run),
               \A j \in 1..Len(tabs) : j # m.at =>
                   /\ TimersOf(tms, tabs[j]) \subseteq TimersOf(timers, tabs[j])
                   /\ PassesOf(run, tabs[j]) \subseteq PassesOf(running, tabs[j]),
               t.name \notin bad => Untroubled(tms, run, x, m.at, back)
        PROVE  PassInv'
    <3> DEFINE ts == [tabs EXCEPT ![m.at] = x]
    <3>1. /\ ts \in Seq(TabType) /\ Len(ts) = Len(tabs)
          /\ \A j \in 1..Len(tabs) : ts[j] = IF j = m.at THEN x ELSE tabs[j]
      BY <2>1, PassFacts, ExceptSeq
    <3>2. AllUntroubled(ts, tms, run, bad, back)
      <4> HIDE DEF bad
      <4> QED BY <2>1, <2>2, <2>5, PassFacts, OneTabChanges
    <3> HIDE DEF ts
    <3>3. NamesDiffer(ts)
      <4>1. \A j \in 1..Len(tabs) : ts[j].name = tabs[j].name
        BY <3>1, <2>5
      <4> QED BY <4>1, <3>1, PassFacts DEF NamesDiffer
    <3>4. RequestPass(ts, tms, shown)
      BY <2>5 DEF ts
    <3> QED BY <3>1, <3>2, <3>3, <3>4, <2>5, <1>2, PassFacts, Settles
  <2>6. CASE /\ RequestPass([tabs EXCEPT ![m.at].want = Text(t)],
                            AddTimer(rest, m.at, t.name), shown)
             /\ UNCHANGED running
    <3> DEFINE x == [t EXCEPT !.want = Text(t)]
    <3>1. /\ x \in TabType /\ x.name = t.name /\ x.n = t.n /\ x.pending = t.pending
          /\ x.kept = t.kept /\ x.parts = t.parts
      <4>1. Text(t) \in Nat \X Nat
        BY <2>1, TabFields
      <4> HIDE DEF t
      <4> QED BY <2>1, <4>1 DEF TabType
    <3>2. [tabs EXCEPT ![m.at].want = Text(t)] = [tabs EXCEPT ![m.at] = x]
      OBVIOUS
    <3>3. PICK l : /\ l.at = m.at /\ l.for = t.name
                   /\ AddTimer(rest, m.at, t.name) = rest \cup {l}
      BY TimerAdded
    <3> HIDE DEF x
    <3>4. PlacesAreNats(rest \cup {l})
      BY <3>3, <1>3, <2>1 DEF PlacesAreNats
    <3>5. \A j \in 1..Len(tabs) : j # m.at =>
             TimersOf(rest \cup {l}, tabs[j]) \subseteq TimersOf(timers, tabs[j])
      BY <3>3, <2>4 DEF TimersOf
    <3>6. ASSUME t.name \notin bad PROVE Untroubled(rest \cup {l}, running, x, m.at, back)
      <4>1. /\ TimersOf(rest, t) = {} /\ PassesOf(running, t) = {} /\ t.pending = TRUE
            /\ Untroubled(timers, running, t, m.at, back)
        BY <3>6, <2>3
      <4> HIDE DEF t
      <4>2. TimersOf(rest \cup {l}, x) = {l} /\ PassesOf(running, x) = {}
        BY <4>1, <3>1, <3>3 DEF TimersOf, PassesOf
      <4> QED BY <4>1, <4>2, <3>1, <3>3 DEF Untroubled, OneMessage, OneText, Lone
    <3> HIDE DEF t
    <3> QED BY <2>5, <2>6, <3>1, <3>2, <3>3, <3>4, <3>5, <3>6, PassFacts
  <2>7. CASE /\ RequestPass([tabs EXCEPT ![m.at].pending = FALSE], rest, shown)
             /\ UNCHANGED running
    <3> DEFINE x == [t EXCEPT !.pending = FALSE]
    <3>1. /\ x \in TabType /\ x.name = t.name /\ x.n = t.n
          /\ x.kept = t.kept /\ x.parts = t.parts
      <4> HIDE DEF t
      <4> QED BY <2>1 DEF TabType
    <3>2. [tabs EXCEPT ![m.at].pending = FALSE] = [tabs EXCEPT ![m.at] = x]
      OBVIOUS
    <3> HIDE DEF x
    <3>3. ASSUME t.name \notin bad PROVE Untroubled(rest, running, x, m.at, back)
      <4>1. /\ TimersOf(rest, t) = {} /\ PassesOf(running, t) = {}
            /\ Untroubled(timers, running, t, m.at, back)
        BY <3>3, <2>3
      <4> HIDE DEF t
      <4>2. TimersOf(rest, x) = {} /\ PassesOf(running, x) = {}
        BY <4>1, <3>1 DEF TimersOf, PassesOf
      <4> QED BY <4>1, <4>2, <3>1 DEF Untroubled, OneMessage, OneText, Lone
    <3> HIDE DEF t
    <3> QED BY <2>5, <2>7, <3>1, <3>2, <3>3, <1>3, <1>4, PassFacts
  <2>8. CASE RequestPass(tabs, rest, shown) /\ running' = StartPass(m.at, Text(t))
    <3>1. PICK k : StartPass(m.at, Text(t)) =
                     running \cup {[at |-> m.at, text |-> Text(t), part |-> 1, k |-> k]}
      BY PassStarted
    <3> DEFINE p == [at |-> m.at, text |-> Text(t), part |-> 1, k |-> k]
    <3>2. /\ p.at = m.at /\ p.text = Text(t) /\ p.part = 1 /\ p.text \in Nat \X Nat
          /\ p.text[1] = t.name /\ p.text[2] = t.n /\ t.n \in Nat
          /\ p = [at |-> p.at, text |-> p.text, part |-> p.part, k |-> p.k]
      BY <2>1, TabFields
    <3> HIDE DEF p
    <3>3. PassesTyped(running \cup {p})
      BY <3>2, <2>1, PassFacts DEF PassesTyped
    <3>4. \A j \in 1..Len(tabs) : j # m.at =>
             PassesOf(running \cup {p}, tabs[j]) \subseteq PassesOf(running, tabs[j])
      BY <3>2, <2>4 DEF PassesOf
    <3>5. ASSUME t.name \notin bad PROVE Untroubled(rest, running \cup {p}, t, m.at, back)
      <4>1. /\ TimersOf(rest, t) = {} /\ PassesOf(running, t) = {} /\ t.pending = TRUE
            /\ Untroubled(timers, running, t, m.at, back)
        BY <3>5, <2>3
      <4> HIDE DEF t
      <4>2. PassesOf(running \cup {p}, t) = {p}
        BY <4>1, <3>2 DEF PassesOf
      <4>3. OneMessage(rest, running \cup {p}, t, m.at)
        BY <4>1, <4>2, <3>2 DEF OneMessage, Lone
      <4>4. p.part # 2
        BY <3>2
      <4>5. OneText(running \cup {p}, t, back)
        BY <4>1, <4>2, <4>4 DEF Untroubled, OneText
      <4> QED BY <4>3, <4>5 DEF Untroubled
    <3>6. [tabs EXCEPT ![m.at] = t] = tabs
      <4>1. /\ Len([tabs EXCEPT ![m.at] = t]) = Len(tabs) /\ [tabs EXCEPT ![m.at] = t] \in Seq(TabType)
            /\ \A j \in 1..Len(tabs) : [tabs EXCEPT ![m.at] = t][j] = IF j = m.at THEN t ELSE tabs[j]
        BY <2>1, PassFacts, ExceptSeq
      <4> QED BY <4>1, PassFacts, SeqEqual
    <3>7. RequestPass([tabs EXCEPT ![m.at] = t], rest, shown) /\ running' = running \cup {p}
      BY <2>8, <3>1, <3>6 DEF p
    <3> HIDE DEF t
    <3> QED BY <2>1, <2>5, <3>3, <3>4, <3>5, <3>7, <1>3, <1>4
  <2> QED BY <1>1, <1>8, <2>6, <2>7, <2>8, <1>7, <1>6
<1> QED BY <1>1, <1>6, <1>7, <1>8

\* A part of a pass is applied: the tab keeps name and text, and if its lines were of
\* one text they still are, up to those that are left empty.
LEMMA Applied ==
    ASSUME NEW t \in TabType, NEW p, p.text \in Nat \X Nat, p.part \in 1..2
    PROVE  /\ Apply(t, p) \in TabType
           /\ Apply(t, p).name = t.name /\ Apply(t, p).n = t.n
           /\ p.part # LastPart => Apply(t, p).pending = t.pending
           /\ p.text # Text(t) => Apply(t, p).kept = t.kept /\ Apply(t, p).parts = t.parts
           /\ p.text = Text(t) =>
                 /\ Apply(t, p).kept = p.text /\ Apply(t, p).parts # <<>>
                 /\ (\A k \in 1..Len(t.parts) : t.parts[k] \in {t.kept, NoText})
                    => \A k \in 1..Len(Apply(t, p).parts) :
                           Apply(t, p).parts[k] \in {p.text, NoText}
                 /\ (\A k \in 1..Len(t.parts) : t.parts[k] = t.kept)
                      /\ (p.part = 2 => p.text = t.kept /\ t.parts # <<>>)
                    => \A k \in 1..Len(Apply(t, p).parts) : Apply(t, p).parts[k] = p.text
<1> DEFINE S == Nat \X Nat
           ended == [t EXCEPT !.pending = IF p.part = LastPart THEN FALSE ELSE @]
           base  == IF t.kept # p.text THEN <<>> ELSE t.parts
           upTo  == [i \in 1..(p.part - 1) |-> IF i \in DOMAIN base THEN base[i] ELSE NoText]
           rest  == SubSeq(base, p.part + 1, Len(base))
           new   == Append(upTo, p.text) \o rest
           full  == [ended EXCEPT !.kept = p.text, !.parts = new]
<1>1. t.pending \in BOOLEAN /\ t.kept \in S /\ t.parts \in Seq(S) /\ NoText \in S
  BY TabFields DEF NoText
<1>2. /\ ended \in TabType /\ ended.name = t.name /\ ended.n = t.n
      /\ (p.part # LastPart => ended.pending = t.pending)
      /\ ended.kept = t.kept /\ ended.parts = t.parts
  BY <1>1 DEF TabType
<1> HIDE DEF ended
<1>3. base \in Seq(S) /\ Len(base) \in Nat /\ DOMAIN base = 1..Len(base)
  <2>1. base \in Seq(S)
    BY <1>1, EmptySeq
  <2> HIDE DEF base
  <2> QED BY <2>1, LenProperties
<1>4. base = <<>> \/ (base = t.parts /\ t.kept = p.text)
  OBVIOUS
<1> HIDE DEF base, S
<1>5. upTo \in Seq(S) /\ Len(upTo) = p.part - 1
      /\ \A i \in 1..p.part - 1 : upTo[i] = IF i \in DOMAIN base THEN base[i] ELSE NoText
  <2>1. \A i \in 1..p.part - 1 : (IF i \in DOMAIN base THEN base[i] ELSE NoText) \in S
    BY <1>1, <1>3, ElementOfSeq
  <2>2. upTo \in [1..p.part - 1 -> S] /\ p.part - 1 \in Nat
    BY <2>1
  <2>3. upTo \in Seq(S)
    BY <2>2, SeqDef
  <2>4. Len(upTo) = p.part - 1
    BY <2>2, <2>3, LenProperties
  <2> QED BY <2>3, <2>4
<1>6. rest \in Seq(S) /\ \A k \in 1..Len(rest) : \E j \in 1..Len(base) : rest[k] = base[j]
  <2> DEFINE m == p.part + 1
             n == Len(base)
  <2>1. m \in Int /\ n \in Int /\ (\A i \in m..n : i \in 1..n) /\ m >= 1
    BY <1>3
  <2>2. \A i \in m..n : base[i] \in S
    BY <2>1, <1>3, ElementOfSeq
  <2> HIDE DEF m, n
  <2>3. /\ SubSeq(base, m, n) \in Seq(S)
        /\ Len(SubSeq(base, m, n)) = IF m <= n THEN n - m + 1 ELSE 0
        /\ \A i \in 1..n - m + 1 : SubSeq(base, m, n)[i] = base[m + i - 1]
    BY <2>1, <2>2, SubSeqProperties
  <2>4. rest = SubSeq(base, m, n)
    BY DEF m, n
  <2> HIDE DEF rest
  <2>5. ASSUME NEW k \in 1..Len(rest) PROVE \E j \in 1..n : rest[k] = base[j]
    <3>1. m <= n /\ Len(rest) = n - m + 1
      BY <2>1, <2>3, <2>4
    <3>2. k \in 1..n - m + 1 /\ m + k - 1 \in 1..n
      BY <2>1, <3>1
    <3> QED BY <3>2, <2>3, <2>4
  <2> QED BY <2>3, <2>4, <2>5 DEF n
<1> HIDE DEF upTo, rest
<1> DEFINE two == Append(upTo, p.text)
<1>7. /\ two \in Seq(S) /\ Len(two) = p.part
      /\ \A i \in 1..p.part : two[i] = IF i = p.part THEN p.text ELSE upTo[i]
  <2>1. p.text \in S
    BY DEF S
  <2>2. /\ two \in Seq(S) /\ Len(two) = Len(upTo) + 1
        /\ (\A i \in 1..Len(upTo) : two[i] = upTo[i]) /\ two[Len(upTo) + 1] = p.text
    BY <2>1, <1>5, AppendProperties
  <2> HIDE DEF two
  <2>3. Len(two) = p.part /\ p.part - 1 + 1 = p.part
    BY <2>2, <1>5
  <2>4. \A i \in 1..p.part : i = p.part \/ i \in 1..p.part - 1
    OBVIOUS
  <2> QED BY <2>2, <2>3, <2>4, <1>5
<1> HIDE DEF two
<1>8. /\ new \in Seq(S) /\ Len(new) = Len(two) + Len(rest)
      /\ \A i \in 1..Len(two) + Len(rest) :
            new[i] = IF i <= Len(two) THEN two[i] ELSE rest[i - Len(two)]
  BY <1>6, <1>7, ConcatProperties DEF two
<1> HIDE DEF new
<1>9. new # <<>>
  <2>1. Len(rest) \in Nat
    BY <1>6, LenProperties
  <2>2. Len(new) # 0
    BY <2>1, <1>7, <1>8
  <2> QED BY <2>2, EmptySeq
<1>10. ASSUME \A k \in 1..Len(t.parts) : t.parts[k] = t.kept,
              p.part = 2 => p.text = t.kept /\ t.parts # <<>>
       PROVE  \A k \in 1..Len(new) : new[k] = p.text
  <2>1. \A j \in 1..Len(base) : base[j] = p.text
    BY <1>4, <1>10, EmptySeq
  <2>2. \A i \in 1..p.part - 1 : upTo[i] = p.text
    <3> SUFFICES ASSUME NEW i \in 1..p.part - 1 PROVE upTo[i] = p.text
      OBVIOUS
    <3>1. p.part = 2 /\ i = 1
      OBVIOUS
    <3>2. base = t.parts /\ t.parts # <<>>
      BY <3>1, <1>10 DEF base
    <3>3. Len(t.parts) \in Nat \ {0}
      BY <3>2, <1>1, EmptySeq DEF S
    <3>4. i \in DOMAIN base /\ i \in 1..Len(base)
      BY <3>1, <3>2, <3>3, <1>3
    <3> QED BY <3>4, <2>1, <1>5
  <2>3. \A i \in 1..p.part : two[i] = p.text
    BY <2>2, <1>7
  <2>4. \A k \in 1..Len(rest) : rest[k] = p.text
    BY <2>1, <1>6
  <2> SUFFICES ASSUME NEW k \in 1..Len(new) PROVE new[k] = p.text
    OBVIOUS
  <2>5. Len(rest) \in Nat
    BY <1>6, LenProperties
  <2>6. CASE k <= Len(two)
    <3>1. k \in 1..p.part /\ k \in 1..Len(two) + Len(rest)
      BY <2>5, <2>6, <1>7, <1>8
    <3> QED BY <3>1, <2>3, <2>6, <1>8
  <2>7. CASE ~(k <= Len(two))
    <3>1. k - Len(two) \in 1..Len(rest) /\ k \in 1..Len(two) + Len(rest)
      BY <2>5, <2>7, <1>7, <1>8
    <3> QED BY <3>1, <2>4, <2>7, <1>8
  <2> QED BY <2>6, <2>7
<1>15. ASSUME \A k \in 1..Len(t.parts) : t.parts[k] \in {t.kept, NoText}
       PROVE  \A k \in 1..Len(new) : new[k] \in {p.text, NoText}
  <2>1. \A j \in 1..Len(base) : base[j] \in {p.text, NoText}
    BY <1>4, <1>15, EmptySeq
  <2>2. \A i \in 1..p.part - 1 : upTo[i] \in {p.text, NoText}
    BY <2>1, <1>3, <1>5
  <2>3. \A i \in 1..p.part : two[i] \in {p.text, NoText}
    <3> SUFFICES ASSUME NEW i \in 1..p.part PROVE two[i] \in {p.text, NoText}
      OBVIOUS
    <3>1. i = p.part \/ i \in 1..p.part - 1
      OBVIOUS
    <3> QED BY <3>1, <2>2, <1>7
  <2>4. \A k \in 1..Len(rest) : rest[k] \in {p.text, NoText}
    BY <2>1, <1>6
  <2> SUFFICES ASSUME NEW k \in 1..Len(new) PROVE new[k] \in {p.text, NoText}
    OBVIOUS
  <2>5. Len(rest) \in Nat
    BY <1>6, LenProperties
  <2>6. CASE k <= Len(two)
    <3>1. k \in 1..p.part /\ k \in 1..Len(two) + Len(rest)
      BY <2>5, <2>6, <1>7, <1>8
    <3> QED BY <3>1, <2>3, <2>6, <1>8
  <2>7. CASE ~(k <= Len(two))
    <3>1. k - Len(two) \in 1..Len(rest) /\ k \in 1..Len(two) + Len(rest)
      BY <2>5, <2>7, <1>7, <1>8
    <3> QED BY <3>1, <2>4, <2>7, <1>8
  <2> QED BY <2>6, <2>7
<1>11. /\ full \in TabType /\ full.name = t.name /\ full.n = t.n
       /\ full.pending = ended.pending /\ full.kept = p.text /\ full.parts = new
  BY <1>2, <1>8 DEF TabType, S
<1>12. Apply(t, p) = IF p.text # Text(t) THEN ended ELSE full
  BY DEF Apply, ended, full, new, two, upTo, rest, base
<1> HIDE DEF full
<1>13. CASE p.text # Text(t)
  BY <1>2, <1>12, <1>13
<1>14. CASE p.text = Text(t)
  BY <1>2, <1>9, <1>10, <1>11, <1>12, <1>14, <1>15
<1> QED BY <1>13, <1>14

\* The pass goes on to its next part, or was the last one.
PartsLeft(p) == IF p.part < LastPart THEN {[p EXCEPT !.part = @ + 1]} ELSE {}

LEMMA NextPart ==
    ASSUME PassInv, NEW p \in running
    PROVE  /\ p.at \in Nat \ {0} /\ p.text \in Nat \X Nat /\ p.part \in 1..2
           /\ PassesTyped((running \ {p}) \cup PartsLeft(p))
           /\ \A q \in PartsLeft(p) : q.at = p.at /\ q.text = p.text /\ p.part # LastPart
           /\ Lone(PartsLeft(p))
<1>1. /\ p = [at |-> p.at, text |-> p.text, part |-> p.part, k |-> p.k]
      /\ p.at \in Nat \ {0} /\ p.text \in Nat \X Nat /\ p.part \in 1..2
  BY PassFacts DEF PassesTyped
<1>2. LastPart \in {1, 2}
  BY DEF LastPart
<1>3. \A q \in PartsLeft(p) :
         /\ q = [at |-> p.at, text |-> p.text, part |-> p.part + 1, k |-> p.k]
         /\ p.part < LastPart
  BY <1>1 DEF PartsLeft
<1>4. PassesTyped((running \ {p}) \cup PartsLeft(p))
  BY <1>1, <1>2, <1>3, PassFacts DEF PassesTyped
<1> QED BY <1>1, <1>2, <1>3, <1>4 DEF Lone

LEMMA PassResultKeeps == ASSUME PassInv, PassResult PROVE PassInv'
<1> DEFINE bad == moved' \cup misled'
<1>1. PICK p \in running :
         /\ running' = (running \ {p}) \cup PartsLeft(p)
         /\ \/ /\ p.at > Len(tabs) /\ RequestPass(tabs, timers, shown) /\ misled' = misled
            \/ /\ ~(p.at > Len(tabs))
               /\ RequestPass([tabs EXCEPT ![p.at] = Apply(@, p)], timers, shown)
               /\ misled' = IF tabs[p.at].name # p.text[1] THEN misled \cup {tabs[p.at].name}
                            ELSE misled
         /\ UNCHANGED <<pipe, shown, moved, back>>
  BY DEF PassResult, PartsLeft, Settled
<1> DEFINE t   == tabs[p.at]
           run == (running \ {p}) \cup PartsLeft(p)
<1>2. /\ running' = run /\ moved' = moved /\ shown' = shown /\ pipe' = pipe /\ back' = back
      /\ moved \cup misled \subseteq bad
  BY <1>1
<1>3. /\ p.at \in Nat \ {0} /\ p.text \in Nat \X Nat /\ p.part \in 1..2
      /\ PassesTyped(run)
      /\ \A q \in PartsLeft(p) : q.at = p.at /\ q.text = p.text /\ p.part # LastPart
      /\ Lone(PartsLeft(p))
  BY NextPart
\* Of the tabs that were never taken for another one, the pass is of its place's.
<1>4. ASSUME NEW j \in 1..Len(tabs), tabs[j].name \notin bad, j # p.at
      PROVE  PassesOf(run, tabs[j]) \subseteq PassesOf(running, tabs[j])
  <2>1. Untroubled(timers, running, tabs[j], j, back)
    BY <1>2, <1>4, PassFacts DEF AllUntroubled
  <2>2. p \notin PassesOf(running, tabs[j])
    BY <2>1, <1>4 DEF Untroubled, OneMessage
  <2> QED BY <2>2, <1>3 DEF PassesOf
<1>5. CASE p.at > Len(tabs) /\ RequestPass(tabs, timers, shown)
  <2>1. AllUntroubled(tabs, timers, run, bad, back)
    <3> SUFFICES ASSUME NEW j \in 1..Len(tabs), tabs[j].name \notin bad
                 PROVE  Untroubled(timers, run, tabs[j], j, back)
      BY DEF AllUntroubled
    <3>1. Untroubled(timers, running, tabs[j], j, back)
      BY <1>2, PassFacts DEF AllUntroubled
    <3>2. j # p.at
      BY <1>3, <1>5, PassFacts
    <3> QED BY <3>1, <3>2, <1>4, Fewer
  <2> HIDE DEF run, bad
  <2> QED BY <2>1, <1>2, <1>3, <1>5, PassFacts, Settles DEF bad
<1>6. CASE /\ ~(p.at > Len(tabs))
           /\ RequestPass([tabs EXCEPT ![p.at] = Apply(@, p)], timers, shown)
           /\ misled' = IF t.name # p.text[1] THEN misled \cup {t.name} ELSE misled
  <2> DEFINE x  == Apply(t, p)
             ts == [tabs EXCEPT ![p.at] = x]
  <2>1. p.at \in 1..Len(tabs) /\ t \in TabType
    <3>1. p.at \in 1..Len(tabs)
      BY <1>3, <1>6, PassFacts
    <3> QED BY <3>1, PassFacts
  <2> HIDE DEF t
  <2>2. /\ x \in TabType /\ x.name = t.name /\ x.n = t.n
        /\ p.part # LastPart => x.pending = t.pending
        /\ p.text # Text(t) => x.kept = t.kept /\ x.parts = t.parts
        /\ p.text = Text(t) =>
              /\ x.kept = p.text /\ x.parts # <<>>
              /\ (\A k \in 1..Len(t.parts) : t.parts[k] \in {t.kept, NoText})
                 => \A k \in 1..Len(x.parts) : x.parts[k] \in {p.text, NoText}
              /\ (\A k \in 1..Len(t.parts) : t.parts[k] = t.kept)
                   /\ (p.part = 2 => p.text = t.kept /\ t.parts # <<>>)
                 => \A k \in 1..Len(x.parts) : x.parts[k] = p.text
    BY <2>1, <1>3, Applied
  <2>3. [tabs EXCEPT ![p.at] = Apply(@, p)] = ts
    BY DEF t
  <2> HIDE DEF x
  <2>4. /\ ts \in Seq(TabType) /\ Len(ts) = Len(tabs)
        /\ \A j \in 1..Len(tabs) : ts[j] = IF j = p.at THEN x ELSE tabs[j]
    BY <2>1, <2>2, PassFacts, ExceptSeq
  <2>5. NamesDiffer(ts)
    <3> HIDE DEF ts
    <3>1. \A j \in 1..Len(tabs) : ts[j].name = tabs[j].name
      BY <2>2, <2>4 DEF t
    <3> QED BY <3>1, <2>4, PassFacts DEF NamesDiffer
  <2>6. ASSUME x.name \notin bad PROVE Untroubled(timers, run, x, p.at, back)
    <3>1. Untroubled(timers, running, t, p.at, back)
      BY <2>1, <2>2, <2>6, <1>2, PassFacts DEF AllUntroubled, t
    <3>2. t.name = p.text[1]
      BY <2>2, <2>6, <1>6
    <3>3. p \in PassesOf(running, t)
      BY <3>2 DEF PassesOf
    <3>4. PassesOf(running, t) = {p} /\ TimersOf(timers, t) = {} /\ t.pending = TRUE
      BY <3>1, <3>3 DEF Untroubled, OneMessage, Lone
    <3>5. PassesOf(run, x) = PartsLeft(p) /\ TimersOf(timers, x) = {}
      BY <3>2, <3>4, <2>2, <1>3 DEF PassesOf, TimersOf
    <3>6. OneMessage(timers, run, x, p.at)
      BY <3>4, <3>5, <2>2, <1>3 DEF OneMessage, Lone
    <3>7. /\ \A k \in 1..Len(t.parts) : t.parts[k] \in {t.kept, NoText}
          /\ t.parts = <<>> => t.kept = NoText
      BY <3>1 DEF Untroubled, OneText
    <3>8. /\ \A k \in 1..Len(x.parts) : x.parts[k] \in {x.kept, NoText}
          /\ x.parts = <<>> => x.kept = NoText
      <4>1. CASE p.text # Text(t)
        BY <4>1, <2>2, <3>7
      <4>2. CASE p.text = Text(t)
        BY <4>2, <2>2, <3>7
      <4> QED BY <4>1, <4>2
    <3>9. Text(x) = Text(t)
      BY <2>2 DEF Text
    <3> HIDE DEF run
    <3>10. ASSUME x.name \notin back
           PROVE  /\ \A k \in 1..Len(x.parts) : x.parts[k] = x.kept
                  /\ \A q \in PassesOf(run, x) :
                         q.part = 2 /\ q.text = Text(x) => q.text = x.kept
      <4> HIDE DEF ts, bad
      <4>1. /\ \A k \in 1..Len(t.parts) : t.parts[k] = t.kept
            /\ p.part = 2 /\ p.text = Text(t) => p.text = t.kept
        BY <3>1, <3>3, <3>10, <2>2 DEF Untroubled, OneText
      <4>2. p.text = Text(t) => Text(t) # NoText
        <5>1. t.name \in Nat \ {0} /\ Text(t)[1] = t.name /\ NoText[1] = 0
          BY <2>1, TabFields, PassBoundsAssumption DEF Names, NoText
        <5> QED BY <5>1
      <4>3. p.part = 2 /\ p.text = Text(t) => p.text = t.kept /\ t.parts # <<>>
        BY <4>1, <4>2, <3>7
      <4>4. \A k \in 1..Len(x.parts) : x.parts[k] = x.kept
        <5>1. CASE p.text # Text(t)
          BY <5>1, <2>2, <4>1
        <5>2. CASE p.text = Text(t)
          BY <5>2, <2>2, <4>1, <4>3
        <5> QED BY <5>1, <5>2
      <4>5. ASSUME NEW q \in PassesOf(run, x), q.text = Text(x)
            PROVE  q.text = x.kept
        <5>1. q.text = p.text
          BY <4>5, <3>5, <1>3
        <5> QED BY <5>1, <4>5, <3>9, <2>2
      <4> QED BY <4>4, <4>5
    <3>11. OneText(run, x, back)
      <4> HIDE DEF ts, bad
      <4> QED BY <3>8, <3>10 DEF OneText
    <3> QED BY <3>6, <3>11 DEF Untroubled
  <2>7. AllUntroubled(ts, timers, run, bad, back)
    <3> HIDE DEF run, bad
    <3>1. \A j \in 1..Len(tabs) : j # p.at /\ tabs[j].name \notin bad =>
             /\ TimersOf(timers, tabs[j]) \subseteq TimersOf(timers, tabs[j])
             /\ PassesOf(run, tabs[j]) \subseteq PassesOf(running, tabs[j])
      BY <1>4
    <3> QED BY <3>1, <2>1, <2>2, <2>6, <1>2, PassFacts, OneTabChanges
  <2> HIDE DEF run, bad, ts
  <2> QED BY <2>3, <2>4, <2>5, <2>7, <1>2, <1>3, <1>6, PassFacts, Settles DEF bad
<1> QED BY <1>1, <1>5, <1>6 DEF t

LEMMA PassInitHolds == PassInit => PassInv
<1> SUFFICES ASSUME PassInit PROVE PassInv
  OBVIOUS
<1> DEFINE first == [Tab(1) EXCEPT !.pending = TRUE, !.want = <<1, 1>>]
<1>1. /\ tabs = [i \in 1..PassTabs |-> IF i = 1 THEN first ELSE Tab(i)]
      /\ timers = {[at |-> 1, for |-> 1, k |-> 0]}
      /\ running = {} /\ moved = {} /\ misled = {} /\ back = {} /\ shown = 1
      /\ pipe \in {"syntax", "diff"}
  BY DEF PassInit
<1>2. PassTabs \in Nat \ {0}
  BY PassBoundsAssumption
<1>3. \A i \in 1..PassTabs : /\ Tab(i) \in TabType /\ Tab(i).name = i
                             /\ Tab(i).parts = <<>> /\ Tab(i).kept = NoText
  BY <1>2, EmptySeq DEF Tab, TabType, Names, NoText
<1>4. /\ first \in TabType /\ first.name = 1 /\ first.parts = <<>> /\ first.kept = NoText
      /\ first.pending = TRUE
  <2>1. 1 \in 1..PassTabs
    BY <1>2
  <2> QED BY <2>1, <1>3 DEF Tab, TabType
<1> HIDE DEF first
<1>5. /\ tabs \in Seq(TabType) /\ Len(tabs) = PassTabs
      /\ \A i \in 1..PassTabs : tabs[i] = IF i = 1 THEN first ELSE Tab(i)
  <2>1. tabs \in [1..PassTabs -> TabType]
    BY <1>1, <1>3, <1>4
  <2>2. tabs \in Seq(TabType)
    BY <2>1, <1>2, SeqDef
  <2> QED BY <2>1, <2>2, <1>1, <1>2, LenProperties
<1>6. \A i \in 1..PassTabs :
         tabs[i].name = i /\ tabs[i].parts = <<>> /\ tabs[i].kept = NoText
  BY <1>3, <1>4, <1>5
<1>7. PassTypes
  BY <1>1, <1>2, <1>5, <1>6 DEF PassTypes, NamesDiffer, PassesTyped, PlacesAreNats
<1>8. ASSUME NEW i \in 1..Len(tabs) PROVE Untroubled(timers, running, tabs[i], i, back)
  <2>1. PassesOf(running, tabs[i]) = {}
    BY <1>1 DEF PassesOf
  <2>2. /\ \A m \in TimersOf(timers, tabs[i]) : m.at = i
        /\ Lone(TimersOf(timers, tabs[i]))
        /\ TimersOf(timers, tabs[i]) # {} => tabs[i].pending = TRUE
    <3>1. \A m \in timers : m.at = 1 /\ m.for = 1
      BY <1>1
    <3>2. Lone(timers)
      BY <1>1 DEF Lone
    <3>3. tabs[i].name = i /\ (i = 1 => tabs[i].pending = TRUE)
      BY <1>4, <1>5, <1>6
    <3> QED BY <3>1, <3>2, <3>3 DEF TimersOf, Lone
  <2>3. OneText(running, tabs[i], back)
    BY <2>1, <1>5, <1>6, EmptySeq DEF OneText
  <2> QED BY <2>1, <2>2, <2>3 DEF Untroubled, OneMessage, Lone
<1> QED BY <1>7, <1>8 DEF PassInv, AllUntroubled

\* What is painted as the highlighting or diff of a text was computed from that text
\* and no other, all of it unless the text came back in the middle of its pass, and at
\* most one pass of a tab runs, for any number of tabs and texts and any order of edits,
\* undone edits, closings, waits and passes that overtake each other: of a tab that was
\* never taken for another one.
THEOREM PassesCorrect == PassSpec => []PassesFit
<1>1. PassInv /\ [PassNext]_passVars => PassInv'
  <2>1. ASSUME PassInv, UNCHANGED passVars PROVE PassInv'
    <3>1. UNCHANGED <<pipe, tabs, shown, timers, running, moved, misled, back>>
      BY <2>1 DEF passVars
    <3> QED BY <2>1, <3>1 DEF PassInv, PassTypes
  <2> QED BY <2>1, TypeIntoKeeps, ShowTabKeeps, ClosePassTabKeeps, PassTimerKeeps,
             PassResultKeeps DEF PassNext
<1>2. PassInv => PassesFit
  <2> SUFFICES ASSUME PassInv PROVE PaintFits /\ OnePassPerTab
    BY DEF PassesFit
  <2>1. ASSUME NEW i \in DOMAIN tabs, tabs[i].name \notin moved \cup misled
        PROVE  Untroubled(timers, running, tabs[i], i, back) /\ tabs[i] \in TabType
    BY <2>1, PassFacts DEF AllUntroubled
  <2>2. PaintFits
    <3> SUFFICES ASSUME NEW i \in DOMAIN tabs, tabs[i].name \notin moved \cup misled,
                        tabs[i].kept = Text(tabs[i]), NEW k \in DOMAIN tabs[i].parts
                 PROVE  \/ tabs[i].parts[k] = Text(tabs[i])
                        \/ tabs[i].parts[k] = NoText /\ tabs[i].name \in back
      BY DEF PaintFits
    <3>1. DOMAIN tabs[i].parts = 1..Len(tabs[i].parts)
      BY <2>1, TabFields, LenProperties
    <3> QED BY <3>1, <2>1 DEF Untroubled, OneText
  <2>3. OnePassPerTab
    <3> SUFFICES ASSUME NEW i \in DOMAIN tabs, tabs[i].name \notin moved \cup misled
                 PROVE  Cardinality(PassesOf(running, tabs[i])) <= 1
      BY DEF OnePassPerTab, PassesOf
    <3> DEFINE R == PassesOf(running, tabs[i])
    <3>1. Lone(R)
      BY <2>1 DEF Untroubled, OneMessage
    <3> HIDE DEF R
    <3>2. R = {} \/ \E p : R = {p}
      BY <3>1 DEF Lone
    <3>3. Cardinality(R) <= 1
      <4>1. CASE R = {}
        <5>1. Cardinality(R) = 0
          BY <4>1, FS_EmptySet
        <5> QED BY <5>1
      <4>2. CASE \E p : R = {p}
        <5>1. Cardinality(R) = 1
          BY <4>2, FS_Singleton
        <5> QED BY <5>1
      <4> QED BY <3>2, <4>1, <4>2
    <3> QED BY <3>3 DEF R
  <2> QED BY <2>2, <2>3
<1> QED BY <1>1, <1>2, PassInitHolds, PTL DEF PassSpec
-----------------------------------------------------------------------------
-----------------------------------------------------------------------------
(***************************************************************************)
(* Safety of AiAssist for any number of requests and parts: a prompt that  *)
(* waits has a reader, and what is offered is whole.  While nothing        *)
(* disturbed a request there is one reader, and the parts it holds and the *)
(* channel holds continue the proposal.                                    *)
(***************************************************************************)
StreamType == [at : {"none", "open", "closed"}, sent : Nat, queue : Seq(Int), live : BOOLEAN]

\* The number of the last request.
AskedStreams == Cardinality(Started)

AiTypes ==
    /\ assist \in Assistants /\ aiCh \in 0..MaxStreams /\ drains \subseteq AiStreams
    /\ prompting \in BOOLEAN /\ streaming \in BOOLEAN /\ offered \in BOOLEAN
    /\ streams \in [AiStreams -> StreamType]
    /\ proposal \in Seq(AiStreams \X Int)
    /\ \A r \in readers :
         /\ r = [s |-> r.s, k |-> r.k, got |-> r.got]
         /\ r.s \in AiStreams /\ r.got \in Int

Numbered == AskedStreams \in 0..MaxStreams /\ Started = 1..AskedStreams

BusyIsHeard == streaming => assist # "ghost" /\ \E r \in readers : r.s = aiCh

\* The remains of another request reach nobody.
Undisturbed == ~disturbed /\ AskedStreams \notin drains

OneReader ==
    /\ \A q, r \in readers : q = r
    /\ \A r \in readers : r.s = AskedStreams /\ aiCh \in {0, AskedStreams}

\* The parts in the proposal and the one in the hand of a reader.
Taken(r) == Len(proposal) + (IF r.got = 0 THEN 0 ELSE 1)

PartsInOrder ==
    \A r \in readers : aiCh # 0 /\ r.got \notin {Ended, Failed} =>
        /\ r.got # 0 => r.got = Len(proposal) + 1
        /\ \A i \in 1..Len(streams[AskedStreams].queue) :
             streams[AskedStreams].queue[i] \in {Ended, Failed} \/ streams[AskedStreams].queue[i] = Taken(r) + i
        /\ streams[AskedStreams].at = "open" =>
             Len(streams[AskedStreams].queue) = streams[AskedStreams].sent - Taken(r)

\* Without a channel the last event read is not offered.
DroppedIsNotOffered == readers # {} /\ aiCh = 0 => proposal = <<>> /\ ~offered

ReviewHasNoReader == assist # "ghost" /\ offered => readers = {}

OwnProposal ==
    offered \/ (readers # {} /\ aiCh # 0) =>
        \A i \in 1..Len(proposal) : proposal[i] = <<AskedStreams, i>>

Clean == OneReader /\ PartsInOrder /\ DroppedIsNotOffered /\ ReviewHasNoReader /\ OwnProposal

AiInv == AiTypes /\ Numbered /\ BusyIsHeard /\ (Undisturbed => Clean)

-----------------------------------------------------------------------------
(* The helpers of the actions.                                             *)

\* Armed adds a reader that has nothing yet, of a stream that is there.
LEMMA ArmedReads ==
    ASSUME NEW rs, NEW s
    PROVE  /\ s = 0 => Armed(rs, s) = rs
           /\ s # 0 => \E k : Armed(rs, s) = rs \cup {[s |-> s, k |-> k, got |-> 0]}
<1>1. CASE s = 0
  BY <1>1 DEF Armed
<1>2. CASE s # 0
  <2>1. PICK k : k = CHOOSE n \in 0..Cardinality(rs) : \A r \in rs : r.s = s => r.k # n
    OBVIOUS
  <2>2. Armed(rs, s) = rs \cup {[s |-> s, k |-> k, got |-> 0]}
    BY <1>2, <2>1 DEF Armed, Nothing
  <2> QED BY <1>2, <2>2
<1> QED BY <1>1, <1>2

\* A cancelled stream keeps all but its life.
SameButLife(ss, tt) ==
    /\ tt \in [AiStreams -> StreamType]
    /\ \A s \in AiStreams : ss[s].at = tt[s].at /\ ss[s].sent = tt[s].sent
                            /\ ss[s].queue = tt[s].queue

LEMMA CancelKeepsTheRest ==
    ASSUME NEW ss \in [AiStreams -> StreamType]
    PROVE  SameButLife(ss, CancelLast(ss))
<1>1. PICK c : c = CancelLast(ss)
  OBVIOUS
<1>2. c = [s \in AiStreams |-> IF s = AskedStreams THEN [ss[s] EXCEPT !.live = FALSE] ELSE ss[s]]
  BY <1>1 DEF CancelLast, AskedStreams
<1>3. ASSUME NEW s \in AiStreams
      PROVE  /\ c[s] \in StreamType /\ ss[s].at = c[s].at
             /\ ss[s].sent = c[s].sent /\ ss[s].queue = c[s].queue
  <2>1. ss[s] \in StreamType
    OBVIOUS
  <2>2. PICK q : q = [ss[s] EXCEPT !.live = FALSE]
    OBVIOUS
  <2>3. /\ q \in StreamType /\ ss[s].at = q.at /\ ss[s].sent = q.sent /\ ss[s].queue = q.queue
    BY <2>1, <2>2 DEF StreamType
  <2>4. c[s] = q \/ c[s] = ss[s]
    BY <1>2, <2>2
  <2> QED BY <2>1, <2>3, <2>4
<1>4. c \in [AiStreams -> StreamType]
  BY <1>2, <1>3
<1> QED BY <1>1, <1>3, <1>4 DEF SameButLife

\* Which streams were asked for depends on where the streams are.
LEMMA StartedIsSame ==
    ASSUME Numbered, \A s \in AiStreams : streams'[s].at = "none" <=> streams[s].at = "none"
    PROVE  Numbered' /\ AskedStreams' = AskedStreams
<1>1. Started' = Started
  BY DEF Started
<1> QED BY <1>1 DEF Numbered, AskedStreams

\* A reader that got a value.
LEMMA ReaderGets ==
    ASSUME NEW r, r = [s |-> r.s, k |-> r.k, got |-> r.got], NEW v
    PROVE  /\ [r EXCEPT !.got = v].s = r.s /\ [r EXCEPT !.got = v].got = v
           /\ [r EXCEPT !.got = v] = [s |-> r.s, k |-> r.k, got |-> v]
OBVIOUS

\* A step that leaves readers, and of the streams all but their life.
LEMMA QuietKeeps ==
    ASSUME AiInv, SameButLife(streams, streams'),
           UNCHANGED <<assist, readers>>, drains' \subseteq AiStreams,
           prompting' \in BOOLEAN, streaming' \in BOOLEAN, offered' \in BOOLEAN,
           aiCh' \in {0, aiCh}, proposal' \in {<<>>, proposal},
           streaming' => streaming /\ aiCh' = aiCh,
           Undisturbed' => \/ readers = {} /\ ~offered'
                           \/ /\ Undisturbed
                              /\ offered' => offered
                              /\ aiCh' # aiCh \/ proposal' # proposal =>
                                    ~offered' /\ (readers = {} \/ (aiCh' = 0 /\ proposal' = <<>>))
    PROVE  AiInv'
<1>1. Numbered' /\ AskedStreams' = AskedStreams
  BY StartedIsSame DEF AiInv, SameButLife
<1>2. AiTypes'
  <2>1. proposal' \in Seq(AiStreams \X Int)
    BY EmptySeq DEF AiInv, AiTypes
  <2>2. aiCh' \in 0..MaxStreams
    BY AiBoundsAssumption DEF AiInv, AiTypes
  <2> QED BY <2>1, <2>2 DEF AiInv, AiTypes, SameButLife
<1>3. BusyIsHeard'
  BY DEF AiInv, BusyIsHeard
<1>4. Undisturbed' => Clean'
  <2> SUFFICES ASSUME Undisturbed' PROVE Clean'
    OBVIOUS
  <2>1. CASE readers = {} /\ ~offered'
    BY <2>1 DEF Clean, OneReader, PartsInOrder, DroppedIsNotOffered, ReviewHasNoReader, OwnProposal
  <2>2. CASE /\ Undisturbed
             /\ offered' => offered
             /\ aiCh' # aiCh \/ proposal' # proposal =>
                   ~offered' /\ (readers = {} \/ (aiCh' = 0 /\ proposal' = <<>>))
    <3>1. Clean
      BY <2>2 DEF AiInv
    <3>2. CASE aiCh' = aiCh /\ proposal' = proposal
      <4>1. ASSUME NEW r \in readers PROVE Taken(r)' = Taken(r) /\ r.s \in AiStreams /\ r.s = AskedStreams
        BY <3>1, <3>2 DEF Taken, AiInv, AiTypes, Clean, OneReader
      <4>2. PartsInOrder'
        BY <1>1, <3>1, <3>2, <4>1 DEF Clean, PartsInOrder, SameButLife, Taken
      <4>3. OneReader' /\ DroppedIsNotOffered' /\ ReviewHasNoReader' /\ OwnProposal'
        BY <1>1, <2>2, <3>1, <3>2
           DEF Clean, OneReader, DroppedIsNotOffered, ReviewHasNoReader, OwnProposal
      <4> QED BY <4>2, <4>3 DEF Clean
    <3>3. CASE ~(aiCh' = aiCh /\ proposal' = proposal)
      <4>1. ~offered' /\ (readers = {} \/ (aiCh' = 0 /\ proposal' = <<>>))
        BY <2>2, <3>3
      <4> QED BY <1>1, <3>1, <4>1
              DEF Clean, OneReader, PartsInOrder, DroppedIsNotOffered, ReviewHasNoReader, OwnProposal
    <3> QED BY <3>2, <3>3
  <2> QED BY <2>1, <2>2
<1> QED BY <1>1, <1>2, <1>3, <1>4 DEF AiInv

-----------------------------------------------------------------------------
(* The steps that ask.                                                     *)

\* A new request is the last one, with an empty channel and a reader of its own.
LEMMA NewStreamKeeps ==
    ASSUME AiInv, NewStream, assist' = assist, drains' \subseteq AiStreams, prompting' \in BOOLEAN,
           streaming' \in BOOLEAN, streaming' => assist # "ghost",
           offered' \in {offered, FALSE}, assist # "ghost" => ~offered',
           assist # "ghost" => proposal' = proposal, assist = "ghost" => proposal' = <<>>
    PROVE  AiInv'
<1>1. PICK n : n = AskedStreams + 1
  OBVIOUS
<1>2. /\ n \in AiStreams /\ n # 0 /\ AskedStreams \in Nat /\ n = AskedStreams + 1 /\ Started = 1..AskedStreams
      /\ n \notin Started
  BY <1>1, AiBoundsAssumption DEF NewStream, AskedStreams, AiInv, Numbered, AiStreams
<1>3. PICK e : e = [at |-> "open", sent |-> 0, queue |-> <<>>, live |-> TRUE]
  OBVIOUS
<1>4. e \in StreamType /\ e.at = "open" /\ e.sent = 0 /\ e.queue = <<>>
  BY <1>3, EmptySeq DEF StreamType
<1>5. PICK c : c = CancelLast(streams)
  OBVIOUS
<1>6. SameButLife(streams, c)
  BY <1>5, CancelKeepsTheRest DEF AiInv, AiTypes
<1>7. /\ streams' = [c EXCEPT ![n] = e] /\ aiCh' = n /\ readers' = Armed(readers, n)
      /\ disturbed' = (readers # {} \/ (assist # "ghost" /\ proposal # <<>>))
  BY <1>1, <1>3, <1>5 DEF NewStream, AskedStreams
<1>8. /\ streams' \in [AiStreams -> StreamType] /\ streams'[n] = e
      /\ \A s \in AiStreams : s # n => streams'[s] = c[s]
  BY <1>2, <1>4, <1>6, <1>7 DEF SameButLife
<1>9. Numbered' /\ AskedStreams' = n
  <2>1. ASSUME NEW s \in AiStreams PROVE streams'[s].at # "none" <=> s \in Started \cup {n}
    BY <1>2, <1>4, <1>6, <1>8 DEF SameButLife, Started
  <2>2. Started' = Started \cup {n}
    BY <2>1, <1>2 DEF Started
  <2>3. Started' = 1..n
    BY <1>2, <2>2
  <2>4. Cardinality(1..n) = n
    BY <1>2, FS_Interval
  <2>5. n \in 0..MaxStreams
    BY <1>2, AiBoundsAssumption DEF AiStreams
  <2> QED BY <2>3, <2>4, <2>5 DEF Numbered, AskedStreams
<1>10. PICK k : readers' = readers \cup {[s |-> n, k |-> k, got |-> 0]}
  BY <1>2, <1>7, ArmedReads
<1>11. PICK w : w = [s |-> n, k |-> k, got |-> 0]
  OBVIOUS
<1>12. w.s = n /\ w.got = 0 /\ w = [s |-> w.s, k |-> w.k, got |-> w.got] /\ readers' = readers \cup {w}
  BY <1>10, <1>11
<1>13. AiTypes'
  <2>1. \A r \in readers' : /\ r = [s |-> r.s, k |-> r.k, got |-> r.got]
                            /\ r.s \in AiStreams /\ r.got \in Int
    BY <1>2, <1>12 DEF AiInv, AiTypes
  <2>2. aiCh' \in 0..MaxStreams
    BY <1>2, <1>7, AiBoundsAssumption DEF AiStreams
  <2>2a. proposal' \in Seq(AiStreams \X Int)
    <3>1. proposal' = proposal \/ proposal' = <<>>
      OBVIOUS
    <3> QED BY <3>1, EmptySeq DEF AiInv, AiTypes
  <2>3. prompting' \in BOOLEAN /\ streaming' \in BOOLEAN /\ offered' \in BOOLEAN /\ assist' \in Assistants
    BY DEF AiInv, AiTypes
  <2> QED BY <1>8, <2>1, <2>2, <2>2a, <2>3 DEF AiTypes
<1>14. BusyIsHeard'
  BY <1>7, <1>12 DEF BusyIsHeard
<1>15. Undisturbed' => Clean'
  <2> SUFFICES ASSUME Undisturbed' PROVE Clean'
    OBVIOUS
  <2>0. ~disturbed'
    BY DEF Undisturbed
  <2>1. readers = {} /\ proposal' = <<>> /\ Len(proposal') = 0
    <3>1. readers = {} /\ (assist # "ghost" => proposal = <<>>)
      BY <1>7, <2>0
    <3>2. proposal' = <<>>
      BY <3>1
    <3> QED BY <3>1, <3>2
  <2>2. readers' = {w} /\ Taken(w)' = 0 /\ Len(e.queue) = 0 /\ aiCh' # 0
    BY <1>2, <1>4, <1>7, <1>12, <2>1 DEF Taken
  <2>3. OneReader'
    BY <1>7, <1>9, <1>12, <2>2 DEF OneReader
  <2>4. PartsInOrder'
    BY <1>4, <1>8, <1>9, <1>12, <2>2 DEF PartsInOrder
  <2>5. DroppedIsNotOffered' /\ ReviewHasNoReader' /\ OwnProposal'
    BY <2>1, <2>2 DEF DroppedIsNotOffered, ReviewHasNoReader, OwnProposal
  <2> QED BY <2>3, <2>4, <2>5 DEF Clean
<1> QED BY <1>9, <1>13, <1>14, <1>15 DEF AiInv

\* What a goroutine of dismissGhost empties stays in its hands.
LEMMA DrainsGrow ==
    ASSUME AiInv, NEW ss \in SUBSET (0..MaxStreams), DrainOneOf(ss)
    PROVE  drains \subseteq drains' /\ drains' \subseteq AiStreams
<1>1. ss \subseteq 0..MaxStreams /\ 0..MaxStreams = {0} \cup AiStreams
  BY AiBoundsAssumption DEF AiStreams
<1> QED BY <1>1 DEF DrainOneOf, AiInv, AiTypes

LEMMA SubmitKeeps ==
    ASSUME AiInv, SubmitRequest \/ GhostTrigger
    PROVE  AiInv'
<1>1. CASE SubmitRequest
  <2>1. /\ NewStream /\ assist # "ghost" /\ ~offered /\ assist' = assist /\ offered' = offered
        /\ streaming' = TRUE /\ prompting' = (assist = "fix") /\ proposal' = proposal
        /\ drains' = drains /\ drains \subseteq AiStreams
    BY <1>1 DEF SubmitRequest, AiInv, AiTypes
  <2> QED BY <2>1, NewStreamKeeps
<1>2. CASE GhostTrigger
  <2>1. /\ NewStream /\ assist = "ghost" /\ assist' = assist /\ offered' \in {offered, FALSE}
        /\ streaming' = streaming /\ prompting' = prompting /\ proposal' = <<>>
    BY <1>2 DEF GhostTrigger
  <2>2. ~streaming /\ streaming \in BOOLEAN /\ prompting \in BOOLEAN /\ drains \subseteq AiStreams
    BY <2>1 DEF AiInv, BusyIsHeard, AiTypes
  <2>3. drains' \subseteq AiStreams
    <3>1. aiCh' \in 0..MaxStreams /\ aiCh \in 0..MaxStreams /\ 0 \in 0..MaxStreams
      BY <2>1, AiBoundsAssumption DEF NewStream, AiInv, AiTypes, Numbered, AskedStreams
    <3>2. PICK ss : ss = {0, aiCh, aiCh'}
      OBVIOUS
    <3>3. drains' = drains \/ DrainOneOf(ss)
      BY <1>2, <3>2 DEF GhostTrigger
    <3> QED BY <2>2, <3>1, <3>2, <3>3, DrainsGrow
  <2> QED BY <2>1, <2>2, <2>3, NewStreamKeeps
<1> QED BY <1>1, <1>2

LEMMA SelfIsSame == AiInv => SameButLife(streams, streams)
BY DEF AiInv, AiTypes, SameButLife

LEMMA CancelIsSame == AiInv /\ streams' = CancelLast(streams) => SameButLife(streams, streams')
<1> SUFFICES ASSUME AiInv, streams' = CancelLast(streams) PROVE SameButLife(streams, streams')
  OBVIOUS
<1>1. PICK c : c = CancelLast(streams)
  OBVIOUS
<1> QED BY <1>1, CancelKeepsTheRest DEF AiInv, AiTypes

LEMMA KeysKeep ==
    ASSUME AiInv, StartRequest \/ LeavePrompt \/ CancelRequest \/ DismissGhost
                  \/ AcceptOffer \/ RejectOffer
    PROVE  AiInv'
<1>0. DrainOneOf({0, aiCh}) => drains \subseteq drains' /\ drains' \subseteq AiStreams
  BY DrainsGrow, AiBoundsAssumption DEF AiInv, AiTypes
<1>1. /\ AiTypes /\ Numbered /\ SameButLife(streams, streams)
      /\ streams' = CancelLast(streams) => SameButLife(streams, streams')
  BY SelfIsSame, CancelIsSame DEF AiInv
<1>2. Undisturbed => ReviewHasNoReader
  BY DEF AiInv, Clean
<1>3. CASE StartRequest
  BY <1>1, <1>3, QuietKeeps DEF StartRequest, Undisturbed, AiTypes
<1>4. ASSUME SameButLife(streams, streams'), UNCHANGED <<disturbed, drains>>
      PROVE  Undisturbed' => Undisturbed
  <2>1. AskedStreams' = AskedStreams
    BY <1>1, <1>4, StartedIsSame DEF SameButLife
  <2> QED BY <1>4, <2>1 DEF Undisturbed
<1>5. CASE LeavePrompt \/ CancelRequest
  <2>1. /\ ~offered /\ offered' = offered /\ streaming' = FALSE
        /\ UNCHANGED <<assist, drains, readers, disturbed>>
        /\ (aiCh' = aiCh /\ proposal' = proposal) \/ (aiCh' = 0 /\ proposal' = <<>>)
        /\ prompting' \in BOOLEAN
    BY <1>1, <1>5 DEF LeavePrompt, CancelRequest, AiTypes
  <2>2. SameButLife(streams, streams')
    BY <1>1, <1>5 DEF LeavePrompt, CancelRequest
  <2>3. Undisturbed' => Undisturbed
    BY <1>4, <2>1, <2>2
  <2> QED BY <1>1, <2>1, <2>2, <2>3, QuietKeeps DEF AiTypes
<1>6. ASSUME assist = "ghost", Dismissed, drains \subseteq drains', drains' \subseteq AiStreams,
             UNCHANGED <<assist, prompting, streaming, readers, disturbed>>
      PROVE  AiInv'
  <2>1. SameButLife(streams, streams') /\ ~streaming
    BY <1>1, <1>6 DEF Dismissed, AiInv, BusyIsHeard
  <2>2. AskedStreams' = AskedStreams
    BY <1>1, <2>1, StartedIsSame DEF SameButLife
  <2>3. Undisturbed' => Undisturbed
    BY <1>6, <2>2 DEF Undisturbed
  <2>4. /\ offered' = FALSE /\ proposal' = <<>> /\ aiCh' = 0 /\ streaming = FALSE
        /\ prompting \in BOOLEAN
    BY <1>1, <1>6, <2>1 DEF Dismissed, AiTypes
  <2> QED BY <1>6, <2>1, <2>3, <2>4, QuietKeeps
<1>7. CASE DismissGhost
  BY <1>0, <1>6, <1>7 DEF DismissGhost
<1>8. CASE RejectOffer \/ (AcceptOffer /\ assist # "ghost")
  <2>1. /\ offered /\ offered' = FALSE /\ proposal' = <<>> /\ assist # "ghost" /\ streams' = streams
        /\ UNCHANGED <<assist, drains, prompting, streaming, aiCh, readers, disturbed>>
    BY <1>8 DEF RejectOffer, AcceptOffer
  <2>2. AskedStreams' = AskedStreams
    BY <2>1 DEF AskedStreams, Started
  <2>3. Undisturbed' => readers = {}
    <3>1. Undisturbed' => Undisturbed
      BY <2>1, <2>2 DEF Undisturbed
    <3> QED BY <1>2, <2>1, <3>1 DEF ReviewHasNoReader
  <2>4. /\ streaming \in BOOLEAN /\ prompting \in BOOLEAN
        /\ drains \subseteq AiStreams /\ SameButLife(streams, streams')
    BY <1>1, <2>1 DEF AiTypes
  <2> QED BY <2>1, <2>3, <2>4, QuietKeeps
<1>9. CASE AcceptOffer /\ assist = "ghost"
  BY <1>0, <1>6, <1>9 DEF AcceptOffer
<1> QED BY <1>3, <1>5, <1>7, <1>8, <1>9

-----------------------------------------------------------------------------
(* The streams and who reads them.                                         *)

\* A step of the channels alone keeps what is said of the panel.
LEMMA PanelIsSame ==
    ASSUME AiInv, UNCHANGED <<assist, aiPanel, readers, drains, disturbed>>,
           streams' \in [AiStreams -> StreamType],
           \A s \in AiStreams : streams'[s].at = "none" <=> streams[s].at = "none",
           Undisturbed => PartsInOrder'
    PROVE  AiInv'
<1>1. Numbered' /\ AskedStreams' = AskedStreams
  BY StartedIsSame DEF AiInv
<1>2. AiTypes' /\ BusyIsHeard'
  BY DEF AiInv, AiTypes, BusyIsHeard, aiPanel
<1>3. Undisturbed' => Undisturbed
  BY <1>1 DEF Undisturbed
<1>4. Undisturbed' => Clean'
  BY <1>1, <1>3 DEF AiInv, Clean, OneReader, DroppedIsNotOffered, ReviewHasNoReader, OwnProposal, aiPanel
<1> QED BY <1>1, <1>2, <1>4 DEF AiInv

LEMMA SendsKeeps ==
    ASSUME AiInv, NEW s \in AiStreams, StreamSends(s)
    PROVE  AiInv'
<1>1. PICK q : q = Append(streams[s].queue, streams[s].sent + 1)
  OBVIOUS
<1>2. /\ streams \in [AiStreams -> StreamType] /\ streams[s] \in StreamType
      /\ streams[s].queue \in Seq(Int) /\ streams[s].sent \in Nat /\ streams[s].at = "open"
      /\ Len(streams[s].queue) \in Nat
  BY LenProperties DEF AiInv, AiTypes, StreamSends, StreamType
<1>3. /\ q \in Seq(Int) /\ Len(q) = Len(streams[s].queue) + 1
      /\ \A i \in 1..Len(streams[s].queue) : q[i] = streams[s].queue[i]
      /\ q[Len(streams[s].queue) + 1] = streams[s].sent + 1
  BY <1>1, <1>2, AppendProperties
<1>4. PICK e : e = [streams[s] EXCEPT !.sent = streams[s].sent + 1, !.queue = q]
  OBVIOUS
<1>4a. streams[s].sent + 1 \in Nat
  BY <1>2
<1>5. e \in StreamType /\ e.at = "open" /\ e.sent = streams[s].sent + 1 /\ e.queue = q
  BY <1>2, <1>3, <1>4, <1>4a DEF StreamType
<1>6. streams' = [streams EXCEPT ![s] = e]
  BY <1>1, <1>4 DEF StreamSends
<1>7. /\ streams' \in [AiStreams -> StreamType] /\ streams'[s] = e
      /\ \A x \in AiStreams : x # s => streams'[x] = streams[x]
  BY <1>2, <1>5, <1>6
<1>8. UNCHANGED <<assist, aiPanel, readers, drains, disturbed>>
  BY DEF StreamSends
<1>9. \A x \in AiStreams : streams'[x].at = "none" <=> streams[x].at = "none"
  BY <1>2, <1>5, <1>7
<1>10. AskedStreams' = AskedStreams
  BY <1>9, StartedIsSame DEF AiInv
<1>11. Undisturbed => PartsInOrder'
  <2> SUFFICES ASSUME Undisturbed, NEW r \in readers, aiCh # 0, r.got \notin {Ended, Failed}
               PROVE  /\ r.got # 0 => r.got = Len(proposal) + 1
                      /\ \A i \in 1..Len(streams'[AskedStreams].queue) :
                           streams'[AskedStreams].queue[i] \in {Ended, Failed} \/ streams'[AskedStreams].queue[i] = Taken(r) + i
                      /\ streams'[AskedStreams].at = "open" =>
                           Len(streams'[AskedStreams].queue) = streams'[AskedStreams].sent - Taken(r)
    BY <1>8, <1>10 DEF PartsInOrder, Taken, aiPanel
  <2>1. /\ r.got # 0 => r.got = Len(proposal) + 1
        /\ \A i \in 1..Len(streams[AskedStreams].queue) :
             streams[AskedStreams].queue[i] \in {Ended, Failed} \/ streams[AskedStreams].queue[i] = Taken(r) + i
        /\ streams[AskedStreams].at = "open" =>
             Len(streams[AskedStreams].queue) = streams[AskedStreams].sent - Taken(r)
    BY DEF AiInv, Clean, PartsInOrder
  <2>2. AskedStreams \in AiStreams
    BY DEF AiInv, AiTypes, Clean, OneReader
  <2>3. Taken(r) \in Nat
    BY LenProperties DEF Taken, AiInv, AiTypes
  <2>4. CASE s = AskedStreams
    <3>1. \A i \in 1..Len(q) : q[i] \in {Ended, Failed} \/ q[i] = Taken(r) + i
      <4> SUFFICES ASSUME NEW i \in 1..Len(q)
                   PROVE  q[i] \in {Ended, Failed} \/ q[i] = Taken(r) + i
        OBVIOUS
      <4>1. CASE i <= Len(streams[s].queue)
        <5>1. i \in 1..Len(streams[s].queue) /\ q[i] = streams[s].queue[i]
          BY <1>2, <1>3, <4>1
        <5> QED BY <2>1, <2>4, <5>1
      <4>2. CASE i > Len(streams[s].queue)
        <5>1. i = Len(streams[s].queue) + 1
          BY <1>2, <1>3, <4>2
        <5>2. Len(streams[s].queue) = streams[s].sent - Taken(r)
          BY <1>2, <2>1, <2>4
        <5> QED BY <1>2, <1>3, <2>3, <5>1, <5>2
      <4> QED BY <1>2, <4>1, <4>2
    <3>2. Len(q) = e.sent - Taken(r)
      BY <1>2, <1>3, <1>5, <2>1, <2>3, <2>4
    <3> QED BY <1>5, <1>7, <2>1, <2>4, <3>1, <3>2
  <2>5. CASE s # AskedStreams
    BY <1>7, <2>1, <2>2, <2>5
  <2> QED BY <2>4, <2>5
<1> QED BY <1>7, <1>8, <1>9, <1>11, PanelIsSame

\* What is said of a channel holds without its first element, and with a last
\* word at its end.
LEMMA EndsKeeps ==
    ASSUME AiInv, NEW s \in AiStreams, StreamEnds(s)
    PROVE  AiInv'
<1>1. PICK last \in {<<>>, <<Failed>>, <<Ended>>} :
          streams' = [streams EXCEPT ![s].at = "closed", ![s].queue = @ \o last]
  BY DEF StreamEnds
<1>2. last \in Seq(Int) /\ Len(last) \in Nat /\ \A i \in 1..Len(last) : last[i] \in {Ended, Failed}
  <2>1. CASE last = <<>>
    BY <2>1, EmptySeq
  <2>2. ASSUME NEW v \in Int, last = <<v>>
        PROVE  last \in Seq(Int) /\ Len(last) = 1 /\ last[1] = v
    BY <2>2
  <2>3. Failed \in Int /\ Ended \in Int
    BY DEF Failed, Ended
  <2> QED BY <2>1, <2>2, <2>3
<1>3. PICK q : q = streams[s].queue \o last
  OBVIOUS
<1>4. /\ streams \in [AiStreams -> StreamType] /\ streams[s] \in StreamType
      /\ streams[s].queue \in Seq(Int) /\ streams[s].at = "open" /\ Len(streams[s].queue) \in Nat
  BY LenProperties DEF AiInv, AiTypes, StreamEnds, StreamType
<1>5. /\ q \in Seq(Int) /\ Len(q) = Len(streams[s].queue) + Len(last)
      /\ \A i \in 1..Len(q) : q[i] = IF i <= Len(streams[s].queue) THEN streams[s].queue[i]
                                     ELSE last[i - Len(streams[s].queue)]
  BY <1>2, <1>3, <1>4, ConcatProperties
<1>6. PICK e : e = [streams[s] EXCEPT !.at = "closed", !.queue = q]
  OBVIOUS
<1>7. e \in StreamType /\ e.at = "closed" /\ e.queue = q
  BY <1>4, <1>5, <1>6 DEF StreamType
<1>8. streams' = [streams EXCEPT ![s] = e]
  BY <1>1, <1>3, <1>6
<1>9. /\ streams' \in [AiStreams -> StreamType] /\ streams'[s] = e
      /\ \A x \in AiStreams : x # s => streams'[x] = streams[x]
  BY <1>4, <1>7, <1>8
<1>10. UNCHANGED <<assist, aiPanel, readers, drains, disturbed>>
  BY DEF StreamEnds
<1>11. \A x \in AiStreams : streams'[x].at = "none" <=> streams[x].at = "none"
  BY <1>4, <1>7, <1>9
<1>12. AskedStreams' = AskedStreams
  BY <1>11, StartedIsSame DEF AiInv
<1>13. Undisturbed => PartsInOrder'
  <2> SUFFICES ASSUME Undisturbed, NEW r \in readers, aiCh # 0, r.got \notin {Ended, Failed}
               PROVE  /\ r.got # 0 => r.got = Len(proposal) + 1
                      /\ \A i \in 1..Len(streams'[AskedStreams].queue) :
                           streams'[AskedStreams].queue[i] \in {Ended, Failed} \/ streams'[AskedStreams].queue[i] = Taken(r) + i
                      /\ streams'[AskedStreams].at = "open" =>
                           Len(streams'[AskedStreams].queue) = streams'[AskedStreams].sent - Taken(r)
    BY <1>10, <1>12 DEF PartsInOrder, Taken, aiPanel
  <2>1. /\ r.got # 0 => r.got = Len(proposal) + 1
        /\ \A i \in 1..Len(streams[AskedStreams].queue) :
             streams[AskedStreams].queue[i] \in {Ended, Failed} \/ streams[AskedStreams].queue[i] = Taken(r) + i
        /\ streams[AskedStreams].at = "open" =>
             Len(streams[AskedStreams].queue) = streams[AskedStreams].sent - Taken(r)
    BY DEF AiInv, Clean, PartsInOrder
  <2>2. AskedStreams \in AiStreams
    BY DEF AiInv, AiTypes, Clean, OneReader
  <2>3. CASE s = AskedStreams
    <3>1. \A i \in 1..Len(q) : q[i] \in {Ended, Failed} \/ q[i] = Taken(r) + i
      <4> SUFFICES ASSUME NEW i \in 1..Len(q) PROVE q[i] \in {Ended, Failed} \/ q[i] = Taken(r) + i
        OBVIOUS
      <4>1. CASE i <= Len(streams[s].queue)
        <5>1. i \in 1..Len(streams[s].queue) /\ q[i] = streams[s].queue[i]
          BY <1>4, <1>5, <4>1
        <5> QED BY <2>1, <2>3, <5>1
      <4>2. CASE i > Len(streams[s].queue)
        <5>1. i - Len(streams[s].queue) \in 1..Len(last)
          BY <1>2, <1>4, <1>5, <4>2
        <5>2. q[i] = last[i - Len(streams[s].queue)]
          BY <1>4, <1>5, <4>2
        <5> QED BY <1>2, <5>1, <5>2
      <4> QED BY <1>4, <4>1, <4>2
    <3> QED BY <1>7, <1>9, <2>1, <2>3, <3>1
  <2>4. CASE s # AskedStreams
    BY <1>9, <2>1, <2>2, <2>4
  <2> QED BY <2>3, <2>4
<1> QED BY <1>9, <1>10, <1>11, <1>13, PanelIsSame

LEMMA DrainsKeep ==
    ASSUME AiInv, GhostDrains
    PROVE  AiInv'
<1>1. PICK s \in drains : /\ streams[s].queue # <<>>
                          /\ streams' = [streams EXCEPT ![s].queue = Tail(@)]
  BY DEF GhostDrains
<1>2. s \in AiStreams /\ streams \in [AiStreams -> StreamType] /\ streams[s] \in StreamType
      /\ streams[s].queue \in Seq(Int)
  BY <1>1 DEF AiInv, AiTypes, StreamType
<1>3. Tail(streams[s].queue) \in Seq(Int)
  BY <1>1, <1>2, HeadTailProperties
<1>4. PICK e : e = [streams[s] EXCEPT !.queue = Tail(streams[s].queue)]
  OBVIOUS
<1>5. e \in StreamType /\ e.at = streams[s].at
  BY <1>2, <1>3, <1>4 DEF StreamType
<1>6. streams' = [streams EXCEPT ![s] = e]
  BY <1>1, <1>4
<1>7. /\ streams' \in [AiStreams -> StreamType] /\ streams'[s] = e
      /\ \A x \in AiStreams : x # s => streams'[x] = streams[x]
  BY <1>2, <1>5, <1>6
<1>8. UNCHANGED <<assist, aiPanel, readers, drains, disturbed>>
  BY DEF GhostDrains
<1>9. \A x \in AiStreams : streams'[x].at = "none" <=> streams[x].at = "none"
  BY <1>5, <1>7
<1>10. AskedStreams' = AskedStreams
  BY <1>9, StartedIsSame DEF AiInv
<1>11. Undisturbed => PartsInOrder'
  <2> SUFFICES ASSUME Undisturbed PROVE PartsInOrder'
    OBVIOUS
  <2>1. s # AskedStreams
    BY <1>1 DEF Undisturbed
  <2>2. PartsInOrder /\ \A r \in readers : Taken(r)' = Taken(r) /\ AskedStreams \in AiStreams
    BY <1>8 DEF AiInv, AiTypes, Clean, OneReader, Taken, aiPanel
  <2> QED BY <1>7, <1>8, <1>10, <2>1, <2>2 DEF PartsInOrder, aiPanel
<1> QED BY <1>7, <1>8, <1>9, <1>11, PanelIsSame

\* A reader takes the first element of its channel, or reads that it is closed.
LEMMA ReceivesKeeps ==
    ASSUME AiInv, ReaderReceives
    PROVE  AiInv'
<1>1. PICK r \in readers :
        /\ r.got = Nothing
        /\ \/ /\ streams[r.s].queue # <<>>
              /\ streams' = [streams EXCEPT ![r.s].queue = Tail(streams[r.s].queue)]
              /\ readers' = (readers \ {r}) \cup {[r EXCEPT !.got = Head(streams[r.s].queue)]}
           \/ /\ streams[r.s].queue = <<>>
              /\ readers' = (readers \ {r}) \cup
                              (IF assist = "ghost" THEN {} ELSE {[r EXCEPT !.got = Ended]})
              /\ UNCHANGED streams
        /\ UNCHANGED <<assist, drains, aiPanel, disturbed>>
  BY DEF ReaderReceives
<1>2. /\ r = [s |-> r.s, k |-> r.k, got |-> r.got] /\ r.s \in AiStreams /\ r.got = 0
      /\ streams \in [AiStreams -> StreamType] /\ streams[r.s] \in StreamType
      /\ streams[r.s].queue \in Seq(Int)
  BY <1>1 DEF AiInv, AiTypes, StreamType, Nothing
<1>3. CASE /\ streams[r.s].queue # <<>>
           /\ streams' = [streams EXCEPT ![r.s].queue = Tail(streams[r.s].queue)]
           /\ readers' = (readers \ {r}) \cup {[r EXCEPT !.got = Head(streams[r.s].queue)]}
  <2>1. PICK q : q = streams[r.s].queue
    OBVIOUS
  <2>2. /\ Tail(q) \in Seq(Int) /\ Len(q) \in Nat /\ Len(q) # 0 /\ Len(Tail(q)) = Len(q) - 1
        /\ Head(q) \in Int /\ Head(q) = q[1]
        /\ \A i \in 1..Len(Tail(q)) : Tail(q)[i] = q[i + 1]
    BY <1>2, <1>3, <2>1, HeadTailProperties, LenProperties, EmptySeq
  <2>3. PICK w : w = [r EXCEPT !.got = q[1]]
    OBVIOUS
  <2>4. w.s = r.s /\ w.got = q[1] /\ w = [s |-> w.s, k |-> w.k, got |-> w.got]
    BY <1>2, <2>3
  <2>5. readers' = (readers \ {r}) \cup {w}
    BY <1>3, <2>1, <2>2, <2>3
  <2>6. PICK tl : tl = Tail(q)
    OBVIOUS
  <2>7. PICK e : e = [streams[r.s] EXCEPT !.queue = tl]
    OBVIOUS
  <2>8. /\ e \in StreamType /\ e.at = streams[r.s].at /\ e.sent = streams[r.s].sent
        /\ e.queue = tl
    BY <1>2, <2>2, <2>6, <2>7 DEF StreamType
  <2>9. streams' = [streams EXCEPT ![r.s] = e]
    BY <1>3, <2>1, <2>6, <2>7
  <2>10. /\ streams' \in [AiStreams -> StreamType] /\ streams'[r.s] = e
         /\ \A x \in AiStreams : x # r.s => streams'[x] = streams[x]
    BY <1>2, <2>8, <2>9
  <2>11. \A x \in AiStreams : streams'[x].at = "none" <=> streams[x].at = "none"
    BY <2>8, <2>10
  <2>12. Numbered' /\ AskedStreams' = AskedStreams
    BY <2>11, StartedIsSame DEF AiInv
  <2>13. AiTypes'
    <3>1. \A x \in readers' : /\ x = [s |-> x.s, k |-> x.k, got |-> x.got]
                              /\ x.s \in AiStreams /\ x.got \in Int
      BY <1>2, <2>2, <2>4, <2>5 DEF AiInv, AiTypes
    <3> QED BY <1>1, <2>10, <3>1 DEF AiInv, AiTypes, aiPanel
  <2>14. BusyIsHeard'
    BY <1>1, <2>4, <2>5 DEF AiInv, BusyIsHeard, aiPanel
  <2>15. Undisturbed' => Clean'
    <3> SUFFICES ASSUME Undisturbed' PROVE Clean'
      OBVIOUS
    <3>1. Undisturbed
      BY <1>1, <2>12 DEF Undisturbed
    <3>2. Clean
      BY <3>1 DEF AiInv
    <3>3. readers' = {w} /\ r.s = AskedStreams /\ readers = {r}
      BY <2>5, <3>2 DEF Clean, OneReader
    <3>4. OneReader' /\ DroppedIsNotOffered' /\ ReviewHasNoReader' /\ OwnProposal'
      BY <1>1, <2>4, <2>12, <3>2, <3>3
         DEF Clean, OneReader, DroppedIsNotOffered, ReviewHasNoReader, OwnProposal, aiPanel
    <3>5. ASSUME aiCh # 0, w.got \notin {Ended, Failed}
          PROVE  /\ w.got # 0 => w.got = Len(proposal) + 1
                 /\ \A i \in 1..Len(tl) : tl[i] \in {Ended, Failed} \/ tl[i] = Taken(w) + i
                 /\ e.at = "open" => Len(tl) = e.sent - Taken(w)
      <4>1. Len(proposal) \in Nat
        BY LenProperties DEF AiInv, AiTypes
      <4>2. /\ \A i \in 1..Len(q) : q[i] \in {Ended, Failed} \/ q[i] = Len(proposal) + i
            /\ e.at = "open" => Len(q) = e.sent - Len(proposal)
        <5>1. Taken(r) = Len(proposal) /\ r.got \notin {Ended, Failed}
          BY <1>2, <4>1 DEF Taken, Ended, Failed
        <5> QED BY <2>1, <2>8, <3>2, <3>3, <3>5, <5>1 DEF Clean, PartsInOrder
      <4>3. q[1] = Len(proposal) + 1 /\ q[1] # 0
        BY <2>2, <2>4, <3>5, <4>1, <4>2
      <4>4. Taken(w) = Len(proposal) + 1
        BY <2>4, <4>3 DEF Taken
      <4>5. ASSUME NEW i \in 1..Len(tl) PROVE tl[i] \in {Ended, Failed} \/ tl[i] = Taken(w) + i
        <5>1. i + 1 \in 1..Len(q) /\ tl[i] = q[i + 1]
          BY <2>2, <2>6
        <5> QED BY <4>1, <4>2, <4>4, <5>1
      <4>6. e.at = "open" => Len(tl) = e.sent - Taken(w)
        BY <2>2, <2>6, <2>8, <4>1, <4>2, <4>4, <1>2 DEF StreamType
      <4> QED BY <2>4, <4>3, <4>5, <4>6
    <3>6. Taken(w)' = Taken(w) /\ aiCh' = aiCh /\ proposal' = proposal
      BY <1>1 DEF Taken, aiPanel
    <3>7. PartsInOrder'
      BY <2>8, <2>10, <2>12, <3>3, <3>5, <3>6 DEF PartsInOrder
    <3> QED BY <3>4, <3>7 DEF Clean
  <2> QED BY <2>12, <2>13, <2>14, <2>15 DEF AiInv
<1>4. CASE /\ readers' = (readers \ {r}) \cup
                           (IF assist = "ghost" THEN {} ELSE {[r EXCEPT !.got = Ended]})
           /\ UNCHANGED streams
  <2>1. PICK w : w = [r EXCEPT !.got = -1]
    OBVIOUS
  <2>2. w.s = r.s /\ w.got = -1 /\ w = [s |-> w.s, k |-> w.k, got |-> w.got]
    BY <1>2, <2>1
  <2>3. readers' = (readers \ {r}) \cup (IF assist = "ghost" THEN {} ELSE {w})
    BY <1>4, <2>1 DEF Ended
  <2>4. Numbered' /\ AskedStreams' = AskedStreams
    BY <1>4, StartedIsSame DEF AiInv
  <2>5. AiTypes'
    <3>1. \A x \in readers' : /\ x = [s |-> x.s, k |-> x.k, got |-> x.got]
                              /\ x.s \in AiStreams /\ x.got \in Int
      BY <1>2, <2>2, <2>3 DEF AiInv, AiTypes
    <3> QED BY <1>1, <1>4, <3>1 DEF AiInv, AiTypes, aiPanel
  <2>6. BusyIsHeard'
    BY <1>1, <2>2, <2>3 DEF AiInv, BusyIsHeard, aiPanel
  <2>7. Undisturbed' => Clean'
    <3> SUFFICES ASSUME Undisturbed' PROVE Clean'
      OBVIOUS
    <3>1. Clean
      BY <1>1, <2>4 DEF Undisturbed, AiInv
    <3>2. readers' \subseteq {w} /\ r.s = AskedStreams /\ readers = {r}
      BY <2>3, <3>1 DEF Clean, OneReader
    <3>3. PartsInOrder'
      BY <2>2, <3>2 DEF PartsInOrder, Ended
    <3>4. OneReader' /\ DroppedIsNotOffered' /\ ReviewHasNoReader' /\ OwnProposal'
      BY <1>1, <2>2, <2>4, <3>1, <3>2
         DEF Clean, OneReader, DroppedIsNotOffered, ReviewHasNoReader, OwnProposal, aiPanel
    <3> QED BY <3>3, <3>4 DEF Clean
  <2> QED BY <2>4, <2>5, <2>6, <2>7 DEF AiInv
<1> QED BY <1>1, <1>3, <1>4
-----------------------------------------------------------------------------
(* The handlers.                                                           *)

\* An event that arms nobody, as the handler of its assistant leaves the panel.
LEMMA LastEventKeeps ==
    ASSUME AiInv, NEW r \in readers, readers' = readers \ {r},
           disturbed' = (disturbed \/ r.s # AskedStreams \/ Cardinality(readers) > 1),
           SameButLife(streams, streams'), drains \subseteq drains', drains' \subseteq AiStreams,
           UNCHANGED <<assist, prompting>>,
           streaming' = FALSE, offered' \in BOOLEAN, aiCh' \in {0, aiCh},
           proposal' \in Seq(AiStreams \X Int),
           Undisturbed /\ readers = {r} /\ offered' =>
               proposal' = proposal /\ aiCh # 0
    PROVE  AiInv'
<1>1. Numbered' /\ AskedStreams' = AskedStreams
  BY StartedIsSame DEF AiInv, SameButLife
<1>2. AiTypes'
  <2>1. aiCh' \in 0..MaxStreams
    BY AiBoundsAssumption DEF AiInv, AiTypes
  <2> QED BY <2>1 DEF AiInv, AiTypes, SameButLife
<1>3. BusyIsHeard'
  BY DEF BusyIsHeard
<1>4. Undisturbed' => Clean'
  <2> SUFFICES ASSUME Undisturbed' PROVE Clean'
    OBVIOUS
  <2>1. Undisturbed
    BY <1>1 DEF Undisturbed
  <2>2. Clean
    BY <2>1 DEF AiInv
  <2>3. readers = {r} /\ readers' = {}
    BY <2>2 DEF Clean, OneReader
  <2> QED BY <1>1, <2>1, <2>2, <2>3
          DEF Clean, OneReader, PartsInOrder, DroppedIsNotOffered, ReviewHasNoReader, OwnProposal
<1> QED BY <1>1, <1>2, <1>3, <1>4 DEF AiInv

\* A part joins the proposal and the next is waited for, if there is a channel.
LEMMA PartKeeps ==
    ASSUME AiInv, NEW r \in readers, r.got \notin {Nothing, Ended, Failed},
           readers' = Armed(readers \ {r}, aiCh), assist = "ghost" \/ aiCh # 0,
           disturbed' = (disturbed \/ r.s # AskedStreams \/ Cardinality(readers) > 1),
           UNCHANGED <<assist, prompting, streaming, offered, aiCh, streams, drains>>,
           proposal' = Append(proposal, <<r.s, r.got>>)
    PROVE  AiInv'
<1>1. Numbered' /\ AskedStreams' = AskedStreams
  BY StartedIsSame DEF AiInv
<1>2. PICK w : w.s = aiCh /\ w.got = 0 /\ w = [s |-> w.s, k |-> w.k, got |-> w.got]
               /\ readers' = (readers \ {r}) \cup (IF aiCh = 0 THEN {} ELSE {w})
  <2>1. PICK k : aiCh # 0 => readers' = (readers \ {r}) \cup {[s |-> aiCh, k |-> k, got |-> 0]}
    BY ArmedReads
  <2>2. PICK x : x = [s |-> aiCh, k |-> k, got |-> 0]
    OBVIOUS
  <2>3. x.s = aiCh /\ x.got = 0 /\ x = [s |-> x.s, k |-> x.k, got |-> x.got]
    BY <2>2
  <2>4. aiCh = 0 => readers' = readers \ {r}
    BY ArmedReads
  <2> QED BY <2>1, <2>2, <2>3, <2>4
<1>3. PICK n : n = Len(proposal)
  OBVIOUS
<1>4. PICK part : part = <<r.s, r.got>>
  OBVIOUS
<1>5. part \in AiStreams \X Int /\ proposal \in Seq(AiStreams \X Int) /\ n \in Nat
  BY <1>3, <1>4, LenProperties DEF AiInv, AiTypes
<1>6. /\ proposal' \in Seq(AiStreams \X Int) /\ Len(proposal') = n + 1
      /\ \A i \in 1..n : proposal'[i] = proposal[i]
      /\ proposal'[n + 1] = part
  BY <1>3, <1>4, <1>5, AppendProperties
<1>7. AiTypes'
  <2>1. aiCh # 0 => aiCh \in AiStreams
    BY AiBoundsAssumption DEF AiInv, AiTypes, AiStreams
  <2>2. \A x \in readers' : /\ x = [s |-> x.s, k |-> x.k, got |-> x.got]
                            /\ x.s \in AiStreams /\ x.got \in Int
    <3> SUFFICES ASSUME NEW x \in readers'
                 PROVE  /\ x = [s |-> x.s, k |-> x.k, got |-> x.got]
                        /\ x.s \in AiStreams /\ x.got \in Int
      OBVIOUS
    <3>1. x \in readers \/ (x = w /\ aiCh # 0)
      BY <1>2
    <3>2. CASE x \in readers
      BY <3>2 DEF AiInv, AiTypes
    <3>3. CASE x = w /\ aiCh # 0
      BY <1>2, <2>1, <3>3
    <3> QED BY <3>1, <3>2, <3>3
  <2> QED BY <1>6, <2>2 DEF AiInv, AiTypes
<1>8. BusyIsHeard'
  BY <1>2 DEF AiInv, BusyIsHeard
<1>9. Undisturbed' => Clean'
  <2> SUFFICES ASSUME Undisturbed' PROVE Clean'
    OBVIOUS
  <2>1. Undisturbed
    BY <1>1 DEF Undisturbed
  <2>2. Clean
    BY <2>1 DEF AiInv
  <2>3. readers = {r} /\ r.s = AskedStreams /\ (aiCh = 0 => readers' = {}) /\ (aiCh # 0 => readers' = {w})
    BY <1>2, <2>2 DEF Clean, OneReader
  <2>4. CASE aiCh = 0
    BY <1>1, <2>2, <2>3, <2>4
       DEF Clean, OneReader, PartsInOrder, DroppedIsNotOffered, ReviewHasNoReader, OwnProposal
  <2>5. CASE aiCh # 0
    <3>1. /\ r.got = n + 1
          /\ \A i \in 1..Len(streams[AskedStreams].queue) :
               streams[AskedStreams].queue[i] \in {Ended, Failed} \/ streams[AskedStreams].queue[i] = (n + 1) + i
          /\ streams[AskedStreams].at = "open" =>
               Len(streams[AskedStreams].queue) = streams[AskedStreams].sent - (n + 1)
      <4>1. r.got \notin {Ended, Failed} /\ r.got # 0 /\ r.got \in Int
        BY DEF Nothing, AiInv, AiTypes
      <4>2. Taken(r) = n + 1
        BY <1>3, <4>1 DEF Taken
      <4> QED BY <1>3, <2>2, <2>5, <4>1, <4>2 DEF Clean, PartsInOrder
    <3>2. Taken(w)' = n + 1
      BY <1>2, <1>5, <1>6 DEF Taken
    <3>3. PartsInOrder'
      BY <1>1, <1>2, <2>3, <2>5, <3>1, <3>2 DEF PartsInOrder
    <3>4. \A i \in 1..Len(proposal') : proposal'[i] = <<AskedStreams, i>>
      <4>1. \A i \in 1..n : proposal[i] = <<AskedStreams, i>>
        BY <1>3, <2>2, <2>3, <2>5 DEF Clean, OwnProposal
      <4>2. part = <<AskedStreams, n + 1>>
        BY <1>4, <2>3, <3>1
      <4> QED BY <1>5, <1>6, <4>1, <4>2
    <3>5. OneReader' /\ DroppedIsNotOffered' /\ OwnProposal'
      BY <1>1, <1>2, <2>2, <2>3, <2>5, <3>4 DEF Clean, OneReader, DroppedIsNotOffered, OwnProposal
    <3>6. ReviewHasNoReader'
      BY <2>2, <2>3 DEF Clean, ReviewHasNoReader
    <3> QED BY <3>3, <3>5, <3>6 DEF Clean
  <2> QED BY <2>4, <2>5
<1> QED BY <1>1, <1>7, <1>8, <1>9 DEF AiInv

LEMMA HandleKeeps ==
    ASSUME AiInv, HandleOutput
    PROVE  AiInv'
<1>1. PICK r \in readers :
        /\ r.got # Nothing
        /\ RewriteOutput(r, readers \ {r}) \/ GhostOutput(r, readers \ {r})
        /\ disturbed' = (disturbed \/ r.s # AskedStreams \/ Cardinality(readers) > 1)
        /\ assist' = assist
  BY DEF HandleOutput, AskedStreams
<1>2. /\ AiTypes /\ SameButLife(streams, streams) /\ aiCh \in {0, aiCh}
      /\ streams' = CancelLast(streams) => SameButLife(streams, streams')
  BY SelfIsSame, CancelIsSame DEF AiInv
<1>3. Undisturbed /\ readers = {r} =>
          /\ DroppedIsNotOffered /\ ReviewHasNoReader
  BY DEF AiInv, Clean
<1>4. CASE RewriteOutput(r, readers \ {r})
  <2>1. /\ assist # "ghost" /\ UNCHANGED <<prompting, streams, drains>>
        /\ SameButLife(streams, streams') /\ drains' \subseteq AiStreams
    BY <1>2, <1>4 DEF RewriteOutput, AiTypes
  <2>2. Undisturbed /\ readers = {r} => ~offered
    BY <1>3, <2>1 DEF ReviewHasNoReader
  <2>3. CASE aiCh = 0
    <3>1. readers' = readers \ {r} /\ UNCHANGED <<streaming, offered, aiCh, proposal>>
      BY <1>4, <2>3 DEF RewriteOutput
    <3>2. streaming' = FALSE
      <4>1. ASSUME streaming PROVE FALSE
        BY <2>3, <4>1, AiBoundsAssumption DEF AiInv, BusyIsHeard, AiTypes, AiStreams
      <4> QED BY <1>2, <3>1, <4>1 DEF AiTypes
    <3> QED BY <1>1, <1>2, <2>1, <2>2, <3>1, <3>2, LastEventKeeps DEF AiTypes
  <2>4. CASE aiCh # 0 /\ r.got \in {Ended, Failed}
    <3>1. /\ streaming' = FALSE /\ aiCh' = 0 /\ readers' = readers \ {r} /\ proposal' = proposal
          /\ offered' = (offered \/ (r.got = Ended /\ proposal # <<>>))
      BY <1>4, <2>4 DEF RewriteOutput
    <3> QED BY <1>1, <1>2, <2>1, <2>2, <2>4, <3>1, LastEventKeeps DEF AiTypes
  <2>5. CASE aiCh # 0 /\ r.got \notin {Ended, Failed}
    <3>1. /\ proposal' = Append(proposal, <<r.s, r.got>>) /\ readers' = Armed(readers \ {r}, aiCh)
          /\ UNCHANGED <<streaming, offered, aiCh>>
      BY <1>4, <2>5 DEF RewriteOutput
    <3> QED BY <1>1, <2>1, <2>5, <3>1, PartKeeps
  <2> QED BY <2>3, <2>4, <2>5
<1>5. CASE GhostOutput(r, readers \ {r})
  <2>1. assist = "ghost" /\ UNCHANGED <<prompting, streaming>> /\ streaming' = FALSE
    BY <1>5 DEF GhostOutput, AiInv, BusyIsHeard, AiTypes
  <2>2. CASE r.got = Failed
    <3>1. Dismissed /\ DrainOneOf({0, aiCh}) /\ readers' = readers \ {r}
      BY <1>5, <2>2 DEF GhostOutput
    <3>2. drains \subseteq drains' /\ drains' \subseteq AiStreams
      <4>1. {0, aiCh} \in SUBSET (0..MaxStreams)
        BY <1>2, AiBoundsAssumption DEF AiTypes
      <4> QED BY <3>1, <4>1, DrainsGrow
    <3>3. /\ SameButLife(streams, streams') /\ offered' = FALSE /\ proposal' = <<>> /\ aiCh' = 0
          /\ proposal' \in Seq(AiStreams \X Int)
      BY <1>2, <3>1, EmptySeq DEF Dismissed
    <3> QED BY <1>1, <2>1, <3>1, <3>2, <3>3, LastEventKeeps
  <2>3. CASE r.got = Ended
    <3>1. /\ offered' = (proposal # <<>>) /\ readers' = readers \ {r}
          /\ UNCHANGED <<aiCh, proposal, streams, drains>>
      BY <1>5, <2>3 DEF GhostOutput, Ended, Failed
    <3>2. Undisturbed /\ readers = {r} /\ offered' => proposal' = proposal /\ aiCh # 0
      BY <1>3, <3>1 DEF DroppedIsNotOffered
    <3>3. SameButLife(streams, streams') /\ drains' \subseteq AiStreams
      BY <1>2, <3>1 DEF AiTypes
    <3> QED BY <1>1, <1>2, <2>1, <3>1, <3>2, <3>3, LastEventKeeps DEF AiTypes
  <2>4. CASE r.got \notin {Ended, Failed}
    <3>1. /\ proposal' = Append(proposal, <<r.s, r.got>>) /\ readers' = Armed(readers \ {r}, aiCh)
          /\ UNCHANGED <<offered, aiCh, streams, drains>>
      BY <1>5, <2>4 DEF GhostOutput
    <3> QED BY <1>1, <2>1, <2>4, <3>1, PartKeeps
  <2> QED BY <2>2, <2>3, <2>4
<1> QED BY <1>1, <1>4, <1>5
-----------------------------------------------------------------------------
LEMMA AiInitHolds == AiInit => AiInv
<1> SUFFICES ASSUME AiInit PROVE AiInv
  OBVIOUS
<1>1. \A s \in AiStreams : streams[s].at = "none"
  BY DEF AiInit, NoStream
<1>2. Started = {} /\ AskedStreams = 0
  BY <1>1, FS_EmptySet DEF Started, AskedStreams
<1>3. Started = 1..AskedStreams
  BY <1>2
<1>4. NoStream \in StreamType
  BY EmptySeq DEF NoStream, StreamType
<1>5. AiTypes
  <2>1. streams \in [AiStreams -> StreamType] /\ proposal \in Seq(AiStreams \X Int)
    BY <1>4, EmptySeq DEF AiInit
  <2>2. aiCh \in 0..MaxStreams
    BY AiBoundsAssumption DEF AiInit
  <2> QED BY <2>1, <2>2 DEF AiInit, AiTypes
<1>6. BusyIsHeard /\ Clean
  BY DEF AiInit, BusyIsHeard, Clean, OneReader, PartsInOrder, DroppedIsNotOffered,
         ReviewHasNoReader, OwnProposal
<1> QED BY <1>2, <1>3, <1>5, <1>6, AiBoundsAssumption DEF AiInv, Numbered

LEMMA AiNextKeeps == AiInv /\ [AiNext]_aiVars => AiInv'
<1> SUFFICES ASSUME AiInv, [AiNext]_aiVars PROVE AiInv'
  OBVIOUS
<1>1. CASE SubmitRequest \/ GhostTrigger
  BY <1>1, SubmitKeeps
<1>2. CASE StartRequest \/ LeavePrompt \/ CancelRequest \/ DismissGhost \/ AcceptOffer \/ RejectOffer
  BY <1>2, KeysKeep
<1>3. CASE \E s \in AiStreams : StreamSends(s) \/ StreamEnds(s)
  BY <1>3, SendsKeeps, EndsKeeps
<1>4. CASE GhostDrains \/ ReaderReceives \/ HandleOutput
  BY <1>4, DrainsKeep, ReceivesKeeps, HandleKeeps
<1>5. CASE UNCHANGED aiVars
  <2>1. AskedStreams' = AskedStreams /\ Numbered'
    BY <1>5, StartedIsSame DEF AiInv, aiVars
  <2>2. streams' \in [AiStreams -> StreamType] /\ (Undisturbed => PartsInOrder')
    BY <1>5, <2>1 DEF AiInv, AiTypes, Clean, PartsInOrder, Taken, aiVars, aiPanel
  <2> QED BY <1>5, <2>2, PanelIsSame DEF aiVars
<1> QED BY <1>1, <1>2, <1>3, <1>4, <1>5 DEF AiNext

\* Whatever stale, failed and cancelled streams still bring, a prompt that waits
\* has a reader, and what is offered is the answer to the last request, each part
\* once and in order (ai_inline.go, ai_fix.go, ghost.go).
THEOREM AssistCorrect == AiSpec => []AssistIsSound
<1>1. AiInv => AssistIsSound
  <2> SUFFICES ASSUME AiInv PROVE AssistIsSound
    OBVIOUS
  <2>1. BusyIsAnswered
    BY DEF AiInv, BusyIsHeard, BusyIsAnswered
  <2>2. ASSUME offered, ~disturbed, Cardinality(Started) \notin drains
        PROVE  proposal = [i \in 1..Len(proposal) |-> <<Cardinality(Started), i>>]
    <3>1. \A i \in 1..Len(proposal) : proposal[i] = <<Cardinality(Started), i>>
      BY <2>2 DEF AiInv, Undisturbed, Clean, OwnProposal, AskedStreams
    <3>2. proposal = [i \in 1..Len(proposal) |-> proposal[i]]
      BY DEF AiInv, AiTypes
    <3> QED BY <3>1, <3>2
  <2> QED BY <2>1, <2>2 DEF AssistIsSound, AnswerIsWhole
<1> QED BY <1>1, AiInitHolds, AiNextKeeps, PTL DEF AiSpec

=============================================================================
