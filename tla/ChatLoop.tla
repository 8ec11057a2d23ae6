------------------------------ MODULE ChatLoop ------------------------------
(***************************************************************************)
(* The chat's tool loop (internal/editor/chat.go with chat_history.go and  *)
(* the tools_*.go files): a prompt starts a turn, the model streams an     *)
(* answer and may call tools, calls that need a human park the loop, EDIT  *)
(* proposals open a diff review, and the results start the next turn.      *)
(*                                                                         *)
(* Everything here runs on the UI thread except the stream goroutine of a  *)
(* turn.  Its events reach the UI through a command that waits on the      *)
(* channel: a "reader".  The editor drops what an older generation sends.  *)
(***************************************************************************)
EXTENDS Integers, SequencesExt

CONSTANTS
    Batches,     \* the batches of tool calls a model may answer with
    AllowRun,    \* [ai] allow_run: "never", "ask" or "always"
    ToolCap,     \* chatToolCap
    MaxPrompts,  \* bound: prompts the user sends
    MaxThreads,  \* bound: conversations
    MaxToggles,  \* bound: plan/act switches by hand
    PanelUsed    \* did the user open the agent panel (Alt+L) before?

ASSUME ToolCapAssumption == ToolCap \in Nat \ {0}
ASSUME AllowRunAssumption == AllowRun \in {"never", "ask", "always"}

VARIABLES
    chatGen, chatBusy, thread, toggles,
    mode,        \* [ai] mode: "act" or "plan"
    streams,     \* per generation: the stream goroutine and its channel
    readers,     \* generations whose channel a command waits on
    reply,       \* history: the generations whose text is in chatReply
    results,     \* chatPendingResults: [call, state]
    changes,     \* chatPendingChanges: the indexes of proposals in results
    park, parks, \* chatPark (0: none) and chatParks in call order, as indexes of results
    review,      \* chatReviewMode
    round,       \* chatToolRound
    subs,        \* the delegated tasks of the batch, by result index
    agentCh,     \* the buffered(1) agent refresh channel holds a token
    armed,       \* a command waits for agentCh
    prompts, turns,  \* history: prompts sent, turns since the last one
    sent         \* history: the results the model was sent

loopVars == <<results, changes, park, parks, review, round, sent>>
subVars  == <<subs, agentCh, armed>>
histVars == <<prompts, turns>>
vars     == <<chatGen, chatBusy, thread, toggles, mode, streams, readers, reply,
              loopVars, subVars, histVars>>

Parking  == {"RUN", "ASK_USER", "SWITCH_MODE", "SUB_AGENT"}
Mutating == {"RUN", "EDIT", "SWITCH_MODE", "SUB_AGENT"}
ToolNames == Parking \cup {"EDIT", "READ"}
MaxGen   == (MaxPrompts + MaxThreads - 1) * (ToolCap + 2)
Calls    == UNION {Range(b) : b \in Batches}
MaxBatch == Max({Len(b) : b \in Batches})

ASSUME BatchesAssumption == Batches \subseteq Seq(Calls)

\* activeChatToolDefs: readOnlyToolDefs removes the mutating tools in plan mode.
Offered(m) == IF m = "plan" THEN ToolNames \ Mutating ELSE ToolNames

NoStream == [pc |-> "none", thread |-> 0, live |-> FALSE, mode |-> "act",
             out |-> <<>>]
Delta     == [kind |-> "delta", tools |-> <<>>]
Failure   == [kind |-> "err", tools |-> <<>>]
Done(b)   == [kind |-> "done", tools |-> b]

\* The delegated tasks live in the agent queue and move as TaskLifecycle says.
Life == INSTANCE TaskLifecycle WITH Tasks <- 1..MaxBatch, life <- subs

NoSubs == [i \in 1..MaxBatch |-> "absent"]

Init ==
    /\ chatGen = 0 /\ chatBusy = FALSE /\ thread = 1
    /\ toggles = 0 /\ mode = "act"
    /\ streams = [g \in 1..MaxGen |-> NoStream]
    /\ readers = {} /\ reply = {}
    /\ results = <<>> /\ changes = {} /\ park = 0 /\ parks = {}
    /\ review = FALSE /\ round = 0
    /\ subs = NoSubs /\ agentCh = FALSE /\ armed = PanelUsed
    /\ prompts = 0 /\ turns = 0 /\ sent = {}
-----------------------------------------------------------------------------
(* The stream goroutine of a turn.                                         *)

\* The goroutine itself reads the mode, when it builds the request.
StreamStarts(g) ==
    /\ streams[g].pc = "starting"
    /\ streams' = [streams EXCEPT ![g].pc = "open", ![g].mode = mode]
    /\ UNCHANGED <<chatGen, chatBusy, thread, toggles, mode, readers, reply,
                   loopVars, subVars, histVars>>

\* One delta: one is enough to tell which stream the reply comes from.
StreamSays(g) ==
    /\ streams[g].pc = "open"
    /\ streams' = [streams EXCEPT ![g].pc = "said", ![g].out = Append(@, Delta)]
    /\ UNCHANGED <<chatGen, chatBusy, thread, toggles, mode, readers, reply,
                   loopVars, subVars, histVars>>

\* The stream ends with an event, or without one when its context was
\* cancelled.  A model calls only tools it was offered.
StreamEnds(g) ==
    /\ streams[g].pc \in {"open", "said"}
    /\ \E tail \in {<<Failure>>, <<Done(<<>>)>>}
                     \cup {<<Done(b)>> : b \in {c \in Batches :
                              \A i \in DOMAIN c : c[i].name \in Offered(streams[g].mode)}}
                     \cup (IF streams[g].live THEN {} ELSE {<<>>}) :
         streams' = [streams EXCEPT ![g].pc = "ended", ![g].out = @ \o tail]
    /\ UNCHANGED <<chatGen, chatBusy, thread, toggles, mode, readers, reply,
                   loopVars, subVars, histVars>>

StreamStep(g) == StreamStarts(g) \/ StreamSays(g) \/ StreamEnds(g)

\* chatCancel: the context of the newest stream is cancelled.
Cancelled(strs) == [g \in DOMAIN strs |-> [strs[g] EXCEPT !.live = FALSE]]
-----------------------------------------------------------------------------
(* The loop.                                                               *)

StartChatTurn_NoReader(strs, rdrs, cmdKept) ==
    /\ chatGen' = chatGen + 1
    /\ chatBusy' = TRUE
    /\ streams' = [Cancelled(strs) EXCEPT
                     ![chatGen + 1] = [NoStream EXCEPT !.pc = "starting",
                                          !.live = TRUE, !.thread = thread]]
    /\ readers' = rdrs

\* startChatTurn: a new generation and a new stream.  Its result is the command
\* that reads the channel; the stream has no reader when the caller drops it.
StartChatTurn(strs, rdrs, cmdKept) ==
    /\ chatGen' = chatGen + 1
    /\ chatBusy' = TRUE
    /\ streams' = [Cancelled(strs) EXCEPT
                     ![chatGen + 1] = [NoStream EXCEPT !.pc = "starting",
                                          !.live = TRUE, !.thread = thread]]
    /\ readers' = rdrs \cup (IF cmdKept THEN {chatGen + 1} ELSE {})

\* The round the finished one is followed by.
NextRound_Stuck == round

NextRound == round + 1

FinalizeChatTools_ParkKept(res, strs, rdrs, cmdKept) ==
    /\ sent' = sent \cup Range(res)
    /\ results' = <<>> /\ changes' = {} /\ parks' = {}
    /\ round' = NextRound
    /\ UNCHANGED park
    /\ IF NextRound > ToolCap
       THEN /\ streams' = strs /\ readers' = rdrs
            /\ chatBusy' = FALSE
            /\ UNCHANGED <<chatGen, turns>>
       ELSE StartChatTurn(strs, rdrs, cmdKept) /\ turns' = turns + 1

\* finalizeChatTools: commit the results and start the next turn, up to the cap.
FinalizeChatTools(res, strs, rdrs, cmdKept) ==
    /\ sent' = sent \cup Range(res)
    /\ results' = <<>> /\ changes' = {} /\ park' = 0 /\ parks' = {}
    /\ round' = NextRound
    /\ IF NextRound > ToolCap
       THEN /\ streams' = strs /\ readers' = rdrs
            /\ chatBusy' = FALSE
            /\ UNCHANGED <<chatGen, turns>>
       ELSE StartChatTurn(strs, rdrs, cmdKept) /\ turns' = turns + 1

\* startNextPark: the first of the calls that wait is shown to decide on.
StartNextPark(queue) ==
    \E p \in queue : /\ \A q \in queue : p <= q
                     /\ park' = p /\ parks' = queue \ {p}

\* A park resolved: the next one is shown, otherwise the results go out at once.
AfterPark(res, cmdKept) ==
    /\ IF parks # {}
       THEN /\ StartNextPark(parks)
            /\ results' = res
            /\ UNCHANGED <<chatGen, chatBusy, streams, readers, changes, round, sent,
                           turns>>
       ELSE FinalizeChatTools(res, streams, readers, cmdKept)
    /\ UNCHANGED review

\* execChatTool: what each call leaves in the pending results.
FirstState(c) ==
    CASE c.name = "EDIT"        -> "proposed"
      [] c.name = "RUN"         -> IF AllowRun = "ask" THEN "waiting" ELSE "final"
      [] c.name = "SWITCH_MODE" -> IF mode = "plan" THEN "waiting" ELSE "final"
      [] c.name \in {"ASK_USER", "SUB_AGENT"} -> "waiting"
      [] OTHER                  -> "final"

\* Calls to decide on, or proposals to review, suspend the loop.
MustPause_ParksOnly(waiting, props) == waiting # {}

MustPause(waiting, props) == waiting # {} \/ props # {}

\* handleChatToolsDone: park, review, or go on.
HandleChatToolsDone(tools, strs, rdrs) ==
    LET res == [i \in DOMAIN tools |-> [call |-> tools[i], state |-> FirstState(tools[i])]]
        waiting == {i \in DOMAIN res : res[i].state = "waiting"}
        props == {i \in DOMAIN res : res[i].state = "proposed"}
        delegated == {i \in DOMAIN res : res[i].call.name = "SUB_AGENT"}
    IN /\ subs' = [i \in DOMAIN subs |-> IF i \in delegated THEN "queued" ELSE "absent"]
       /\ agentCh' = (agentCh \/ delegated # {})
       /\ IF MustPause(waiting, props)
          THEN /\ results' = res /\ changes' = props
               /\ IF waiting = {} THEN park' = 0 /\ parks' = {} ELSE StartNextPark(waiting)
               /\ review' = (waiting = {})
               /\ streams' = strs /\ readers' = rdrs
               /\ chatBusy' = FALSE
               /\ UNCHANGED <<chatGen, round, sent, turns>>
          ELSE /\ FinalizeChatTools(res, strs, rdrs, TRUE)
               /\ UNCHANGED review

\* The ChatOutputMsg case of update: a reader takes the next event, or sees the
\* channel closed.  Taking the event and handling the message are one step: what
\* the UI does in between finds the event waiting instead.
ChatOutput(g) ==
    LET s    == streams[g]
        ev   == IF s.out # <<>> THEN Head(s.out) ELSE Done(<<>>)
        strs == [streams EXCEPT ![g].out = IF @ = <<>> THEN @ ELSE Tail(@)]
    IN /\ g \in readers
       /\ s.out # <<>> \/ s.pc = "ended"
       /\ UNCHANGED <<thread, toggles, mode, armed, prompts>>
       /\ CASE g # chatGen ->
                 /\ readers' = readers \ {g} /\ streams' = strs
                 /\ UNCHANGED <<chatGen, chatBusy, reply, loopVars, subs, agentCh, turns>>
            [] g = chatGen /\ ev.kind = "delta" ->
                 /\ reply' = reply \cup {g} /\ streams' = strs
                 /\ UNCHANGED <<chatGen, chatBusy, readers, loopVars, subs, agentCh, turns>>
            [] g = chatGen /\ (ev.kind = "err" \/ (ev.kind = "done" /\ ev.tools = <<>>)) ->
                 /\ chatBusy' = FALSE
                 /\ readers' = readers \ {g} /\ streams' = Cancelled(strs)
                 /\ reply' = IF ev.kind = "done" THEN {} ELSE reply
                 /\ UNCHANGED <<chatGen, loopVars, subs, agentCh, turns>>
            [] OTHER ->
                 /\ HandleChatToolsDone(ev.tools, Cancelled(strs), readers \ {g})
                 /\ reply' = {}
-----------------------------------------------------------------------------
(* The user.                                                               *)

Unparked_OnlyReview == ~review

Unparked == park = 0 /\ ~review

\* chatSubmit and chatRetry.
ChatSubmit ==
    /\ Unparked /\ ~chatBusy
    /\ prompts < MaxPrompts
    /\ prompts' = prompts + 1
    /\ round' = 0 /\ reply' = {}
    /\ StartChatTurn(streams, readers, TRUE)
    /\ turns' = 1
    /\ UNCHANGED <<thread, toggles, mode, results, changes, park, parks, review,
                   sent, subVars>>

ChatStop_NoBump ==
    /\ Unparked /\ chatBusy
    /\ streams' = Cancelled(streams)
    /\ chatBusy' = FALSE
    /\ reply' = {}
    /\ UNCHANGED <<chatGen, thread, toggles, mode, readers, loopVars, subVars, histVars>>

ChatStop_NoCancel ==
    /\ Unparked /\ chatBusy
    /\ chatGen' = chatGen + 1
    /\ chatBusy' = FALSE
    /\ reply' = {}
    /\ UNCHANGED <<streams, thread, toggles, mode, readers, loopVars, subVars, histVars>>

\* chatStop: Esc or Ctrl+C while streaming.
ChatStop ==
    /\ Unparked /\ chatBusy
    /\ chatGen' = chatGen + 1
    /\ streams' = Cancelled(streams)
    /\ chatBusy' = FALSE
    /\ reply' = {}
    /\ UNCHANGED <<thread, toggles, mode, readers, loopVars, subVars, histVars>>

\* newChatThread: Ctrl+U, or the button, which also works over a review.
NewChatThread ==
    /\ park = 0
    /\ thread < MaxThreads
    /\ thread' = thread + 1
    /\ streams' = Cancelled(streams)
    /\ chatBusy' = FALSE
    /\ reply' = {} /\ round' = 0 /\ review' = FALSE /\ sent' = {}
    /\ UNCHANGED <<chatGen, toggles, mode, readers, results, changes, park, parks,
                   subVars, histVars>>

\* closeChat by its button: it clears the review flag like the other states.
CloseChat ==
    /\ park = 0 /\ review
    /\ review' = FALSE
    /\ UNCHANGED <<chatGen, chatBusy, thread, toggles, mode, streams, readers, reply,
                   results, changes, park, parks, round, sent, subVars, histVars>>

ToggleMode ==
    /\ toggles < MaxToggles
    /\ toggles' = toggles + 1
    /\ mode' = IF mode = "plan" THEN "act" ELSE "plan"
    /\ UNCHANGED <<chatGen, chatBusy, thread, streams, readers, reply, loopVars,
                   subVars, histVars>>

ParkedOn(name) == park # 0 /\ results[park].call.name = name

Resolved_First == [results EXCEPT ![1].state = "final"]

\* resolveParkedResult: the outcome replaces the placeholder of the parked call.
Resolved == [results EXCEPT ![park].state = "final"]

\* finishChatRunConfirm, run or declined: either way the call has its result.
FinishChatRunConfirm ==
    /\ ParkedOn("RUN")
    /\ AfterPark(Resolved, TRUE)
    /\ UNCHANGED <<thread, toggles, mode, reply, subVars, prompts>>

\* finishChatAsk: answered or cancelled.
FinishChatAsk ==
    /\ ParkedOn("ASK_USER")
    /\ AfterPark(Resolved, TRUE)
    /\ UNCHANGED <<thread, toggles, mode, reply, subVars, prompts>>

\* finishChatSwitchMode.
FinishChatSwitchMode(approved) ==
    /\ ParkedOn("SWITCH_MODE")
    /\ mode' = IF approved THEN "act" ELSE mode
    /\ AfterPark(Resolved, TRUE)
    /\ UNCHANGED <<thread, toggles, reply, subVars, prompts>>

\* cancelParkedSubAgent: Esc on a chat parked on a delegation.  A task that
\* already ended is left alone, and no update is published.
CancelParkedSubAgent ==
    /\ ParkedOn("SUB_AGENT")
    /\ subs[park] \notin Life!Terminal
    /\ subs' = [subs EXCEPT ![park] = "cancelled"]
    /\ agentCh' = TRUE
    /\ UNCHANGED <<chatGen, chatBusy, thread, toggles, mode, streams, readers, reply,
                   loopVars, armed, histVars>>

\* amendChatEditResults: a proposal is reported applied when some applied change
\* has its label.
Amended(applied) ==
    LET labels == {results[i].call.path : i \in applied}
    IN [i \in DOMAIN results |->
          IF i \in changes
          THEN [results[i] EXCEPT !.state =
                  IF results[i].call.path \in labels THEN "applied" ELSE "rejected"]
          ELSE results[i]]

EndChatReview(applied) ==
    /\ review
    /\ review' = FALSE
    /\ FinalizeChatTools(Amended(applied), streams, readers, TRUE)
    /\ UNCHANGED <<thread, toggles, mode, reply, subVars, prompts>>

\* acceptChatReview: "a" applies the series, "y" the change on screen alone; the
\* applier may refuse.  rejectChatReview applies nothing.
AcceptChatReview == EndChatReview(changes) \/ \E i \in changes : EndChatReview({i})

RejectChatReview == EndChatReview({})
-----------------------------------------------------------------------------
(* The delegated tasks, and the update that wakes a parked chat.           *)

\* The queue publishes every change; the refresh channel keeps one token.
SubMoves ==
    /\ \E i \in 1..MaxBatch, s \in Life!LifeStatus \ {"queued"} : Life!Move(i, s)
    /\ agentCh' = TRUE
    /\ UNCHANGED <<chatGen, chatBusy, thread, toggles, mode, streams, readers, reply,
                   loopVars, armed, histVars>>

\* The AgentRefreshMsg case of update with pollSubAgentPark, which drops the
\* command of the turn it starts.
AgentRefresh ==
    /\ armed /\ agentCh
    /\ agentCh' = FALSE
    /\ IF ParkedOn("SUB_AGENT") /\ subs[park] \in Life!Terminal
       THEN AfterPark(Resolved, FALSE)
       ELSE UNCHANGED <<chatGen, chatBusy, streams, readers, loopVars, turns>>
    /\ UNCHANGED <<thread, toggles, mode, reply, subs, armed, prompts>>

\* toggleAgentPanel returns ensureAgent's command: from then on updates arrive.
ToggleAgentPanel ==
    /\ ~armed
    /\ armed' = TRUE
    /\ UNCHANGED <<chatGen, chatBusy, thread, toggles, mode, streams, readers, reply,
                   loopVars, subs, agentCh, histVars>>
-----------------------------------------------------------------------------
UINext ==
    \/ ChatSubmit \/ ChatStop \/ NewChatThread \/ CloseChat \/ ToggleMode
    \/ \E yes \in BOOLEAN : FinishChatSwitchMode(yes)
    \/ FinishChatRunConfirm \/ FinishChatAsk \/ CancelParkedSubAgent
    \/ AcceptChatReview \/ RejectChatReview \/ ToggleAgentPanel

Next ==
    \/ UINext \/ SubMoves \/ AgentRefresh
    \/ \E g \in 1..MaxGen : StreamStep(g) \/ ChatOutput(g)

Spec == Init /\ [][Next]_vars

\* The goroutine of a stream and the commands the editor handed to its runtime
\* are scheduled, and a provider ends its stream.  Nothing is asked of the user.
FairSpec == Spec /\ WF_vars(AgentRefresh)
                 /\ \A g \in 1..MaxGen : WF_vars(StreamStep(g)) /\ WF_vars(ChatOutput(g))
-----------------------------------------------------------------------------
(* Properties.                                                             *)

ResultType == [call : Calls, state : {"final", "waiting", "proposed", "applied", "rejected"}]

TypeOK ==
    /\ chatGen \in 0..MaxGen /\ chatBusy \in BOOLEAN
    /\ thread \in 1..MaxThreads /\ mode \in {"act", "plan"}
    /\ readers \subseteq 1..chatGen /\ reply \subseteq 1..chatGen
    /\ results \in Seq(ResultType)
    /\ changes \subseteq DOMAIN results
    /\ park \in 0..Len(results) /\ parks \subseteq DOMAIN results
    /\ review \in BOOLEAN /\ round \in 0..(ToolCap + 1)
    /\ subs \in [1..MaxBatch -> Life!LifeStatus]
    /\ agentCh \in BOOLEAN /\ armed \in BOOLEAN
    /\ \A g \in 1..MaxGen : g > chatGen => streams[g] = NoStream

\* While a call waits for a decision the loop stands still: nothing streams, no
\* diff is on screen, and every other waiting call is behind it in the queue.
ParkedIsIdle ==
    park # 0 => /\ ~chatBusy /\ ~review
                /\ {park} \cup parks
                     = {i \in DOMAIN results : results[i].state = "waiting"}

\* The model is never sent a placeholder: each parked call was decided first.
ParkedCallsAreAnswered == \A r \in sent : r.state # "waiting"

\* A stopped, failed or superseded stream is cancelled: no provider call goes on
\* with nobody in the editor attending to it.
NoStrayStream == \A g \in 1..MaxGen : streams[g].live => g = chatGen /\ chatBusy

\* However the model answers, one prompt costs at most ToolCap + 1 turns.
TurnsAreCapped == turns <= ToolCap + 1

\* A chat shown busy has somebody reading its stream.
BusyHasReader == chatBusy => chatGen \in readers

\* Text a stream still had buffered when the user stopped it is dropped.
IdleStaysSilent == [][~chatBusy /\ ~chatBusy' => reply' \subseteq reply]_vars

\* chat.go: EDIT proposals pause the loop for a review.  None is sent back to
\* the model undecided.
EditsAreReviewed == \A r \in sent : r.state # "proposed"

\* A busy chat becomes idle again, whatever the model calls.
TurnEnds == chatBusy ~> ~chatBusy

\* The text and the tool calls of a conversation are its own: what a discarded
\* one still streams does not land in the next.
ReplyIsOfThisThread == \A g \in reply : streams[g].thread = thread

\* A call that needs a decision stops the loop until it was decided, and the model
\* hears the decision.
DecisionsAreAwaited == ParkedIsIdle /\ ParkedCallsAreAnswered
=============================================================================
