----------------------------- MODULE AgentTasks -----------------------------
(***************************************************************************)
(* Background agent tasks: the queue (internal/agent/queue.go), the worker *)
(* goroutine and its two executors (Runner.Run and Subagent.Run), the      *)
(* cancel registry, and the task panel of the UI thread that cancels,      *)
(* reviews, accepts and rejects.                                           *)
(*                                                                         *)
(* Two actors interleave: the UI thread and the worker.  Every queue       *)
(* operation holds q.mu, so it is one step; what happens between two of    *)
(* them is not protected, so an actor that needs two has a step for each.  *)
(***************************************************************************)
EXTENDS Integers

CONSTANTS
    Tasks,       \* the tasks that may ever be enqueued
    NoTask,      \* "no task": an idle worker, a closed review
    MaxRounds    \* Subagent.maxRounds: provider calls one delegation may make

ASSUME NoTaskAssumption == NoTask \notin Tasks
ASSUME MaxRoundsAssumption == MaxRounds \in Nat \ {0}

VARIABLES
    status,      \* Task.Status, "absent" before Enqueue
    kind,        \* Task.Kind: "agent" or "sub"
    changes,     \* does Task.Changes hold a proposal?
    born,        \* position in Queue.tasks (Queue.order when enqueued)
    order,       \* Queue.order
    wake,        \* the buffered(1) wake channel holds a token
    worker,      \* the worker goroutine: [pc, task, round, proposed]
    cancels,     \* Runner.cancels: tasks with a registered cancel function
    dead,        \* tasks whose run context was cancelled
    marking,     \* Runner.Cancel found no cancel function and goes on to mark
    review,      \* agentReviewTaskID while agentReviewMode
    shutdown,    \* agentCtx was cancelled: the editor is quitting
    written      \* history: tasks whose changes reached the disk

queueVars == <<status, kind, changes, born, order, wake>>
uiVars    == <<marking, review, written>>
vars      == <<queueVars, worker, cancels, dead, shutdown, uiVars>>

Kinds    == {"agent", "sub"}
Terminal == {"applied", "done", "failed", "cancelled"}
Statuses == {"absent", "queued", "running", "review"} \cup Terminal

\* Where the worker goroutine is.  "loop": top of the loop; "pick": before Next;
\* "empty": Next returned nothing; "asleep": in the select on the wake channel;
\* "begin": dispatched; "call": inside Runner.Run, the provider streaming;
\* "parse": the stream ended with a live context; "unregister": the deferred
\* function; "rounds" and "asking": Subagent.Run, between provider calls and in
\* one; "stopped": it returned.
WorkerPCs == {"loop", "pick", "empty", "asleep", "begin", "call", "parse",
              "unregister", "rounds", "asking", "stopped"}

WorkerType == [pc : WorkerPCs, task : Tasks \cup {NoTask}, round : 0..MaxRounds,
               proposed : BOOLEAN]

Idle == [pc |-> "loop", task |-> NoTask, round |-> 0, proposed |-> FALSE]

Init ==
    /\ status = [t \in Tasks |-> "absent"]
    /\ kind = [t \in Tasks |-> "agent"]
    /\ changes = [t \in Tasks |-> FALSE]
    /\ born = [t \in Tasks |-> 0]
    /\ order = 0
    /\ wake = FALSE
    /\ worker = Idle
    /\ cancels = {}
    /\ dead = {}
    /\ marking = NoTask
    /\ review = NoTask
    /\ shutdown = FALSE
    /\ written = {}
-----------------------------------------------------------------------------
(* Queue operations: each one is a critical section of q.mu.               *)

\* A task keeps the terminal status it reached: the early return of SetStatus,
\* SetError, SetChanges and Cancel.
SettledAs_NoGuard(t, s) == s

SettledAs(t, s) == IF status[t] \in Terminal THEN status[t] ELSE s

SetStatus(t, s) ==
    /\ status' = [status EXCEPT ![t] = SettledAs(t, s)]
    /\ UNCHANGED <<kind, changes, born, order, wake>>

SetChanges(t) ==
    /\ status' = [status EXCEPT ![t] = SettledAs(t, "review")]
    /\ changes' = [changes EXCEPT ![t] = @ \/ status[t] \notin Terminal]
    /\ UNCHANGED <<kind, born, order, wake>>

\* The task Next hands out: the oldest one still queued.
IsOldestQueued_Any(t) == status[t] = "queued"

IsOldestQueued(t) ==
    /\ status[t] = "queued"
    /\ \A u \in Tasks : status[u] = "queued" => born[t] <= born[u]
-----------------------------------------------------------------------------
(* The UI thread.  Runner.Cancel is the one operation it does in two steps. *)

UIReady == marking = NoTask

\* The wake token of enqueue: notify never blocks, the channel holds one.
TokenAfterEnqueue_Unbuffered == worker.pc = "asleep"

TokenAfterEnqueue == TRUE

\* handleAgentPrompt (kind "agent") or execSubAgent (kind "sub").
Enqueue(t, k) ==
    /\ UIReady
    /\ status[t] = "absent"
    /\ order' = order + 1
    /\ born' = [born EXCEPT ![t] = order + 1]
    /\ kind' = [kind EXCEPT ![t] = k]
    /\ status' = [status EXCEPT ![t] = "queued"]
    /\ wake' = (wake \/ TokenAfterEnqueue)
    /\ UNCHANGED <<changes, worker, cancels, dead, shutdown, uiVars>>

\* Runner.Cancel, first half: look the cancel function up under r.mu.  A
\* registered one is called and nothing else happens; without one the task is
\* still to be marked.  Reached with x on a task of the panel, and with Esc on
\* a chat parked on a delegation.
CancelLookup(t) ==
    /\ UIReady
    /\ review = NoTask
    /\ status[t] # "absent"
    /\ IF t \in cancels
       THEN dead' = dead \cup {t} /\ UNCHANGED marking
       ELSE marking' = t /\ UNCHANGED dead
    /\ UNCHANGED <<queueVars, worker, cancels, shutdown, review, written>>

\* Runner.Cancel, second half: Queue.Cancel.
CancelMark ==
    /\ marking # NoTask
    /\ SetStatus(marking, "cancelled")
    /\ marking' = NoTask
    /\ UNCHANGED <<worker, cancels, dead, shutdown, review, written>>

\* startAgentReview: only a task in review that has changes opens.
Reviewable_AnyUnfinished(t) == status[t] \notin Terminal

Reviewable(t) == status[t] = "review" /\ changes[t]

StartReview(t) ==
    /\ UIReady
    /\ Reviewable(t)
    /\ review' = t
    /\ UNCHANGED <<queueVars, worker, cancels, dead, shutdown, marking, written>>

AcceptReview_CommitFailureReturns ==
    /\ UIReady
    /\ review # NoTask
    /\ written' = written \cup {review}
    /\ review' = NoTask
    /\ UNCHANGED <<queueVars, worker, cancels, dead, shutdown, marking>>

\* acceptAgentReview when Apply succeeds: the series is on disk, the task is
\* applied whether or not the commit that follows works.
AcceptReview ==
    /\ UIReady
    /\ review # NoTask
    /\ written' = written \cup {review}
    /\ SetStatus(review, "applied")
    /\ review' = NoTask
    /\ UNCHANGED <<worker, cancels, dead, shutdown, marking>>

\* acceptAgentReview when Apply refuses: the review closes, the task stays.
AcceptFails ==
    /\ UIReady
    /\ review # NoTask
    /\ review' = NoTask
    /\ UNCHANGED <<queueVars, worker, cancels, dead, shutdown, marking, written>>

RejectReview ==
    /\ UIReady
    /\ review # NoTask
    /\ SetStatus(review, "done")
    /\ review' = NoTask
    /\ UNCHANGED <<worker, cancels, dead, shutdown, marking, written>>

\* shutdown cancels agentCtx, the parent of every run context.
Shutdown ==
    /\ UIReady
    /\ ~shutdown
    /\ shutdown' = TRUE
    /\ UNCHANGED <<queueVars, worker, cancels, dead, uiVars>>
-----------------------------------------------------------------------------
(* The worker goroutine: agentWorker's loop.                               *)

WorkerAt(pc) == worker.pc = pc

\* The loop condition: agentCtx.Err.
WorkerLoops ==
    /\ WorkerAt("loop")
    /\ worker' = [worker EXCEPT !.pc = IF shutdown THEN "stopped" ELSE "pick"]
    /\ UNCHANGED <<queueVars, cancels, dead, shutdown, uiVars>>

\* Next handed out a task.
WorkerPicks(t) ==
    /\ WorkerAt("pick")
    /\ IsOldestQueued(t)
    /\ status' = [status EXCEPT ![t] = "running"]
    /\ worker' = [Idle EXCEPT !.pc = "begin", !.task = t]
    /\ UNCHANGED <<kind, changes, born, order, wake, cancels, dead, shutdown, uiVars>>

\* Next found nothing and let go of q.mu.
WorkerFindsNone ==
    /\ WorkerAt("pick")
    /\ \A t \in Tasks : status[t] # "queued"
    /\ worker' = [worker EXCEPT !.pc = "empty"]
    /\ UNCHANGED <<queueVars, cancels, dead, shutdown, uiVars>>

\* Only now the worker waits: what was enqueued meanwhile left its token.
WorkerFallsAsleep ==
    /\ WorkerAt("empty")
    /\ worker' = [worker EXCEPT !.pc = "asleep"]
    /\ UNCHANGED <<queueVars, cancels, dead, shutdown, uiVars>>

WorkerWakes ==
    /\ WorkerAt("asleep")
    /\ wake
    /\ wake' = FALSE
    /\ worker' = [worker EXCEPT !.pc = "loop"]
    /\ UNCHANGED <<status, kind, changes, born, order, cancels, dead, shutdown, uiVars>>

WorkerStops ==
    /\ WorkerAt("asleep")
    /\ shutdown
    /\ worker' = [worker EXCEPT !.pc = "stopped"]
    /\ UNCHANGED <<queueVars, cancels, dead, shutdown, uiVars>>

WorkerStep ==
    \/ WorkerLoops \/ WorkerFindsNone \/ WorkerFallsAsleep \/ WorkerWakes
    \/ WorkerStops \/ \E t \in Tasks : WorkerPicks(t)
-----------------------------------------------------------------------------
(* Runner.Run, executing worker.task.                                      *)

RunCancelled == shutdown \/ worker.task \in dead

RunRegister ==
    /\ WorkerAt("begin")
    /\ kind[worker.task] = "agent"
    /\ cancels' = cancels \cup {worker.task}
    /\ worker' = [worker EXCEPT !.pc = "call"]
    /\ UNCHANGED <<queueVars, dead, shutdown, uiVars>>

\* ctx.Done, or the stream ended or failed and ctx.Err is set.
RunSeesCancel ==
    /\ WorkerAt("call")
    /\ RunCancelled
    /\ SetStatus(worker.task, "cancelled")
    /\ worker' = [worker EXCEPT !.pc = "unregister"]
    /\ UNCHANGED <<cancels, dead, shutdown, uiVars>>

\* The stream ended or failed and ctx.Err was still nil.
RunStreamEnds ==
    /\ WorkerAt("call")
    /\ ~RunCancelled
    /\ worker' = [worker EXCEPT !.pc = "parse"]
    /\ UNCHANGED <<queueVars, cancels, dead, shutdown, uiVars>>

\* finish parsed the answer and read the originals.
RunProposes ==
    /\ WorkerAt("parse")
    /\ SetChanges(worker.task)
    /\ worker' = [worker EXCEPT !.pc = "unregister"]
    /\ UNCHANGED <<cancels, dead, shutdown, uiVars>>

RunFails_NoError ==
    /\ WorkerAt("parse")
    /\ worker' = [worker EXCEPT !.pc = "unregister"]
    /\ UNCHANGED <<queueVars, cancels, dead, shutdown, uiVars>>

\* The provider error, an answer without file blocks, or an unreadable original.
RunFails ==
    /\ WorkerAt("parse")
    /\ SetStatus(worker.task, "failed")
    /\ worker' = [worker EXCEPT !.pc = "unregister"]
    /\ UNCHANGED <<cancels, dead, shutdown, uiVars>>

RunUnregister_Kept ==
    /\ WorkerAt("unregister")
    /\ worker' = Idle
    /\ UNCHANGED <<queueVars, cancels, dead, shutdown, uiVars>>

RunUnregister ==
    /\ WorkerAt("unregister")
    /\ cancels' = cancels \ {worker.task}
    /\ worker' = Idle
    /\ UNCHANGED <<queueVars, dead, shutdown, uiVars>>

RunStep == RunRegister \/ RunSeesCancel \/ RunStreamEnds \/ RunProposes
             \/ RunFails \/ RunUnregister
-----------------------------------------------------------------------------
(* Subagent.Run: the tool loop.  It registers no cancel function; its      *)
(* context ends with the editor or with the timeout.                       *)

SubBegin ==
    /\ WorkerAt("begin")
    /\ kind[worker.task] = "sub"
    /\ worker' = [worker EXCEPT !.pc = "rounds"]
    /\ UNCHANGED <<queueVars, cancels, dead, shutdown, uiVars>>

SubAsks_OneMore ==
    /\ WorkerAt("rounds")
    /\ ~shutdown
    /\ worker.round <= MaxRounds
    /\ worker' = [worker EXCEPT !.pc = "asking"]
    /\ UNCHANGED <<queueVars, cancels, dead, shutdown, uiVars>>

\* The top of the loop: the context is live and a round is left.
SubAsks ==
    /\ WorkerAt("rounds")
    /\ ~shutdown
    /\ worker.round < MaxRounds
    /\ worker' = [worker EXCEPT !.pc = "asking"]
    /\ UNCHANGED <<queueVars, cancels, dead, shutdown, uiVars>>

\* The model asked for tools; one of them may propose a change.
SubUsesTools(proposes) ==
    /\ WorkerAt("asking")
    /\ worker' = [worker EXCEPT !.pc = "rounds", !.round = @ + 1,
                                !.proposed = @ \/ proposes]
    /\ UNCHANGED <<queueVars, cancels, dead, shutdown, uiVars>>

\* finish: with proposals the task goes to review, without them it is done.
SubFinish(proposed) ==
    /\ IF proposed THEN SetChanges(worker.task) ELSE SetStatus(worker.task, "done")
    /\ worker' = Idle
    /\ UNCHANGED <<cancels, dead, shutdown, uiVars>>

\* The model answered without tools, or no round is left.
SubEnds ==
    /\ WorkerAt("asking") \/ (WorkerAt("rounds") /\ worker.round = MaxRounds)
    /\ SubFinish(worker.proposed)

SubTimesOut_Silent ==
    /\ WorkerAt("asking") \/ (WorkerAt("rounds") /\ worker.round < MaxRounds)
    /\ worker' = Idle
    /\ UNCHANGED <<queueVars, cancels, dead, shutdown, uiVars>>

\* The context ended, by the timeout or by shutdown: proposals are dropped.
SubTimesOut ==
    /\ WorkerAt("asking") \/ (WorkerAt("rounds") /\ worker.round < MaxRounds)
    /\ SubFinish(FALSE)

SubFails ==
    /\ WorkerAt("asking")
    /\ ~shutdown
    /\ SetStatus(worker.task, "failed")
    /\ worker' = Idle
    /\ UNCHANGED <<cancels, dead, shutdown, uiVars>>

SubStep == SubBegin \/ SubAsks \/ SubEnds \/ SubTimesOut \/ SubFails
             \/ \E proposes \in BOOLEAN : SubUsesTools(proposes)
-----------------------------------------------------------------------------
UINext ==
    \/ \E t \in Tasks, k \in Kinds : Enqueue(t, k)
    \/ \E t \in Tasks : CancelLookup(t) \/ StartReview(t)
    \/ CancelMark \/ AcceptReview \/ AcceptFails \/ RejectReview \/ Shutdown

Next == UINext \/ WorkerStep \/ RunStep \/ SubStep

Spec == Init /\ [][Next]_vars

\* The worker goroutine is scheduled, and a provider call ends: a delegation is
\* bounded by its timeout, a main task by the transport's or by the user.
TasksFairness ==
    WF_vars(WorkerStep) /\ WF_vars(RunStep) /\ WF_vars(SubStep) /\ WF_vars(CancelMark)

FairSpec == Spec /\ TasksFairness
-----------------------------------------------------------------------------
(* Properties.                                                             *)

TypeOK ==
    /\ status \in [Tasks -> Statuses]
    /\ kind \in [Tasks -> Kinds]
    /\ changes \in [Tasks -> BOOLEAN]
    /\ born \in [Tasks -> Nat]
    /\ order \in Nat
    /\ wake \in BOOLEAN
    /\ worker \in WorkerType
    /\ cancels \subseteq Tasks
    /\ dead \subseteq Tasks
    /\ marking \in Tasks \cup {NoTask}
    /\ review \in Tasks \cup {NoTask}
    /\ shutdown \in BOOLEAN
    /\ written \subseteq Tasks

\* A task is running only while the worker executes it: neither a second task
\* nor one nobody works on any more ever shows as running in the panel.
RunningIsExecuted ==
    \A t \in Tasks : status[t] = "running" =>
        worker.task = t /\ ~WorkerAt("unregister")

\* The diff review on screen always is of a task that still is in review with
\* changes: whatever the worker and a cancel do meanwhile, accepting cannot
\* write for a task that ended.
ReviewIsLive == review # NoTask => status[review] = "review" /\ changes[review]

\* The project rule: what reached the disk was reviewed and accepted, and the
\* task says so.
WrittenWasAccepted == \A t \in written : status[t] = "applied" /\ changes[t]

\* The cancel registry names the task being executed and nothing else, so a
\* cancel never kills the context of a later task.
RegistryIsCurrent == \A t \in cancels : worker.task = t /\ kind[t] = "agent"

\* A task that ended stays as it ended, though the worker may still be busy
\* with it when the user cancels it.
EndsAreFinal ==
    [][\A t \in Tasks : status[t] \in Terminal => status'[t] = status[t]]_vars

\* First in, first out: no task starts while an older one waits.
StartsInOrder ==
    [][\A t, u \in Tasks :
         status[t] = "queued" /\ status'[t] = "running" /\ status[u] = "queued"
           => born[t] <= born[u]]_vars

\* No lost wake-up: a queued task is started or cancelled, unless the editor
\* quits.
QueuedIsServed ==
    \A t \in Tasks : status[t] = "queued" ~> (status[t] # "queued" \/ shutdown)

\* The worker never keeps a task for ever.
RunningEnds == \A t \in Tasks : status[t] = "running" ~> status[t] # "running"

\* The promise of TaskLifecycle.
Lifecycle == INSTANCE TaskLifecycle WITH life <- status
ImplementsLifecycle == Lifecycle!LifeSpec

\* Whatever the worker, the panel and a cancel interleave, what is shown running
\* is executed, what is reviewed can still be accepted, what was written was
\* accepted, and a cancel hits the task it names.
TasksAreSafe == RunningIsExecuted /\ ReviewIsLive /\ WrittenWasAccepted /\ RegistryIsCurrent

\* A task's life goes on in order and ends once.
LivesAreOrderly == EndsAreFinal /\ StartsInOrder

\* The worker comes to every task and to its end.
TasksEnd == QueuedIsServed /\ RunningEnds
=============================================================================
