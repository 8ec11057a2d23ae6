------------------------------ MODULE AiAssist ------------------------------
(***************************************************************************)
(* The three assistants that stream text for the buffer: the rewrite of a  *)
(* selection (editor/ai_inline.go), the fix of a file (ai_fix.go) and the  *)
(* suggestion at the caret (ghost.go).  Each one has a provider stream on  *)
(* a goroutine, a channel, and commands that read one event of a channel   *)
(* and are armed again by the handler of the event.  Events do not say     *)
(* which stream they are of.  A part of an answer is <<stream, part>>.     *)
(***************************************************************************)
EXTENDS Integers, Sequences, FiniteSets

CONSTANTS
    MaxStreams,   \* bound of the model: requests sent
    MaxParts      \* bound of the model: parts of an answer

ASSUME AiBoundsAssumption == MaxStreams \in Nat /\ MaxParts \in Nat

VARIABLES
    assist,       \* the assistant looked at: "inline", "fix" or "ghost"
    prompting,    \* aiInlineOpen, aiFixOpen
    streaming,    \* aiInlineBusy, aiFixBusy
    offered,      \* aiReviewMode, aiFixReviewMode, ghostVisible
    aiCh,         \* aiInlineCh, aiFixCh, ghostCh: a stream, or 0 for nil
    proposal,     \* aiInlineProposal, aiFixProposal, ghostText
    streams,      \* per request: [at, sent, queue, live], live until its context is cancelled
    readers,      \* the commands that read: [s, k, got], what they got
    drains,       \* streams a goroutine of dismissGhost empties
    disturbed     \* history: a request met a stream still read, or the remains of a failed one

aiPanel == <<prompting, streaming, offered, aiCh, proposal>>
aiVars  == <<assist, aiPanel, streams, readers, drains, disturbed>>

\* What a reader holds, when it is not the number of a part.
Nothing == 0
Ended   == -1
Failed  == -2

Assistants == {"inline", "fix", "ghost"}
NoStream   == [at |-> "none", sent |-> 0, queue |-> <<>>, live |-> FALSE]
AiStreams  == 1..MaxStreams
Started    == {s \in AiStreams : streams[s].at # "none"}

AiInit ==
    /\ assist \in Assistants
    /\ prompting = FALSE /\ streaming = FALSE /\ offered = FALSE /\ aiCh = 0
    /\ proposal = <<>> /\ streams = [s \in AiStreams |-> NoStream] /\ readers = {}
    /\ drains = {} /\ disturbed = FALSE

\* The cancel function kept is that of the last request.
CancelLast(ss) == [s \in AiStreams |-> IF s = Cardinality(Started) THEN [ss[s] EXCEPT !.live = FALSE] ELSE ss[s]]

\* waitForInlineOutput and its like: a nil channel arms nothing.
Armed(rs, s) ==
    IF s = 0 THEN rs
    ELSE LET k == CHOOSE n \in 0..Cardinality(rs) : \A r \in rs : r.s = s => r.k # n
         IN  rs \cup {[s |-> s, k |-> k, got |-> Nothing]}

\* Context, channel and goroutine of a new request; the old one is cancelled.
NewStream ==
    LET n == Cardinality(Started) + 1
    IN  /\ n <= MaxStreams
        /\ streams' = [CancelLast(streams) EXCEPT
                          ![n] = [at |-> "open", sent |-> 0, queue |-> <<>>, live |-> TRUE]]
        /\ aiCh' = n
        /\ readers' = Armed(readers, n)
        /\ disturbed' = (readers # {} \/ (assist # "ghost" /\ proposal # <<>>))
-----------------------------------------------------------------------------
(* Keys.                                                                   *)

\* startInlineRequest and startFixRequest are global bindings: they answer in
\* every mode, and forget a stream under way without cancelling it.
StartRequest ==
    /\ assist # "ghost"
    /\ prompting' = TRUE /\ streaming' = FALSE /\ offered' = FALSE /\ proposal' = <<>>
    /\ disturbed' = (readers # {})
    /\ UNCHANGED <<assist, drains, aiCh, streams, readers>>

\* The prompt of a rewrite closes, that of a fix stays.
SubmitRequest ==
    /\ assist # "ghost" /\ prompting /\ ~streaming /\ ~offered
    /\ NewStream
    /\ streaming' = TRUE /\ prompting' = (assist = "fix")
    /\ UNCHANGED <<assist, drains, offered, proposal>>

\* Escape in the prompt.  That of a fix is still there while the answer streams.
LeavePrompt ==
    /\ assist # "ghost" /\ prompting /\ ~offered
    /\ prompting' = FALSE /\ streaming' = FALSE
    /\ streams' = IF assist = "inline" THEN CancelLast(streams) ELSE streams
    /\ UNCHANGED <<assist, drains, offered, aiCh, proposal, readers, disturbed>>

\* cancelInlineRequest and cancelFixRequest.
CancelRequest ==
    /\ assist # "ghost" /\ streaming /\ ~prompting /\ ~offered
    /\ streaming' = FALSE /\ aiCh' = 0 /\ proposal' = <<>> /\ streams' = CancelLast(streams)
    /\ UNCHANGED <<assist, drains, prompting, offered, readers, disturbed>>

\* dismissGhost starts a goroutine that empties the channel: it reads ghostCh of
\* this model when it gets to run, and finds the channel, nil, or the one that
\* the same key has opened since.
Dismissed == offered' = FALSE /\ proposal' = <<>> /\ aiCh' = 0 /\ streams' = CancelLast(streams)
DrainOneOf(ss) == \E s \in ss : drains' = IF aiCh = 0 \/ s = 0 THEN drains ELSE drains \cup {s}

\* The text of the suggestion before is kept.
GhostTriggerOnTop ==
    /\ assist = "ghost"
    /\ NewStream
    /\ UNCHANGED proposal
    /\ \/ UNCHANGED <<offered, drains>>
       \/ offered' = FALSE /\ DrainOneOf({0, aiCh, aiCh'})
    /\ UNCHANGED <<assist, prompting, streaming>>

\* Alt+G dismisses first, Enter in the text triggers over what is there.
GhostTrigger ==
    /\ assist = "ghost"
    /\ NewStream
    /\ proposal' = <<>>
    /\ \/ UNCHANGED <<offered, drains>>
       \/ offered' = FALSE /\ DrainOneOf({0, aiCh, aiCh'})
    /\ UNCHANGED <<assist, prompting, streaming>>

\* A key while the suggestion is shown.
DismissGhost ==
    /\ assist = "ghost" /\ offered /\ Dismissed /\ DrainOneOf({0, aiCh})
    /\ UNCHANGED <<assist, prompting, streaming, readers, disturbed>>

GhostDrains ==
    /\ \E s \in drains :
          streams[s].queue # <<>> /\ streams' = [streams EXCEPT ![s].queue = Tail(@)]
    /\ UNCHANGED <<assist, aiPanel, readers, drains, disturbed>>

\* Tab inserts a suggestion at the position it was made for; a review replaces
\* the line, selection or file of the tab on screen.
AcceptOffer ==
    /\ offered
    /\ IF assist = "ghost" THEN Dismissed /\ DrainOneOf({0, aiCh})
       ELSE offered' = FALSE /\ proposal' = <<>> /\ UNCHANGED <<aiCh, streams, drains>>
    /\ UNCHANGED <<assist, prompting, streaming, readers, disturbed>>

RejectOffer ==
    /\ assist # "ghost" /\ offered
    /\ offered' = FALSE /\ proposal' = <<>>
    /\ UNCHANGED <<assist, drains, prompting, streaming, aiCh, streams, readers, disturbed>>
-----------------------------------------------------------------------------
(* The stream, on its goroutine.                                           *)

\* The whole answer so far, not the part.
StreamSendsTheWhole(s) ==
    /\ streams[s].at = "open" /\ streams[s].live /\ streams[s].sent < MaxParts
    /\ streams' = [streams EXCEPT ![s].sent = @ + 1,
                       ![s].queue = @ \o [i \in 1..(streams[s].sent + 1) |-> i]]
    /\ UNCHANGED <<assist, drains, aiPanel, readers, disturbed>>

StreamSends(s) ==
    /\ streams[s].at = "open" /\ streams[s].live /\ streams[s].sent < MaxParts
    /\ streams' = [streams EXCEPT ![s].sent = @ + 1, ![s].queue = Append(@, streams[s].sent + 1)]
    /\ UNCHANGED <<assist, drains, aiPanel, readers, disturbed>>

\* A stream ends or fails.  ghost.go says that it is done, the others close the
\* channel; a cancelled one may or may not get its last word through.
StreamEnds(s) ==
    /\ streams[s].at = "open"
    /\ \E last \in {<<>>, <<Failed>>, <<Ended>>} :
          /\ last = <<>> => ~streams[s].live \/ assist # "ghost"
          /\ last = <<Ended>> => assist = "ghost"
          /\ streams' = [streams EXCEPT ![s].at = "closed", ![s].queue = @ \o last]
    /\ UNCHANGED <<assist, drains, aiPanel, readers, disturbed>>

\* The goroutine of a waiting command receives: a closed channel reads as the
\* end of the answer, for a suggestion as nothing.
ReaderReceives ==
    \E r \in readers :
        LET q == streams[r.s].queue
        IN  /\ r.got = Nothing
            /\ \/ /\ q # <<>>
                  /\ streams' = [streams EXCEPT ![r.s].queue = Tail(q)]
                  /\ readers' = (readers \ {r}) \cup {[r EXCEPT !.got = Head(q)]}
               \/ /\ q = <<>> /\ streams[r.s].at = "closed"
                  /\ readers' = (readers \ {r}) \cup
                                  (IF assist = "ghost" THEN {} ELSE {[r EXCEPT !.got = Ended]})
                  /\ UNCHANGED streams
            /\ UNCHANGED <<assist, drains, aiPanel, disturbed>>
-----------------------------------------------------------------------------
(* The handlers.                                                           *)

\* An event is handled and nobody waits for the next.
RewriteOutputOnce(r, others) ==
    /\ assist # "ghost"
    /\ IF aiCh = 0
       THEN readers' = others /\ UNCHANGED <<streaming, offered, aiCh, proposal>>
       ELSE IF r.got \in {Ended, Failed}
       THEN /\ streaming' = FALSE /\ aiCh' = 0
            /\ offered' = (offered \/ (r.got = Ended /\ proposal # <<>>))
            /\ readers' = others /\ UNCHANGED proposal
       ELSE /\ proposal' = Append(proposal, <<r.s, r.got>>)
            /\ readers' = others
            /\ UNCHANGED <<streaming, offered, aiCh>>
    /\ UNCHANGED <<prompting, streams, drains>>

\* The end of the answer is not told from a part of it.
RewriteOutputEndless(r, others) ==
    /\ assist # "ghost"
    /\ IF aiCh = 0
       THEN readers' = others /\ UNCHANGED <<streaming, offered, aiCh, proposal>>
       ELSE IF r.got = Failed
       THEN /\ streaming' = FALSE /\ aiCh' = 0
            /\ readers' = others /\ UNCHANGED <<offered, proposal>>
       ELSE /\ proposal' = IF r.got = Ended THEN proposal ELSE Append(proposal, <<r.s, r.got>>)
            /\ readers' = Armed(others, aiCh)
            /\ UNCHANGED <<streaming, offered, aiCh>>
    /\ UNCHANGED <<prompting, streams, drains>>

\* A failure is read as text.
RewriteOutputOfAFailure(r, others) ==
    /\ assist # "ghost"
    /\ IF aiCh = 0
       THEN readers' = others /\ UNCHANGED <<streaming, offered, aiCh, proposal>>
       ELSE IF r.got = Ended
       THEN /\ streaming' = FALSE /\ aiCh' = 0
            /\ offered' = (offered \/ proposal # <<>>)
            /\ readers' = others /\ UNCHANGED proposal
       ELSE /\ proposal' = Append(proposal, <<r.s, r.got>>)
            /\ readers' = Armed(others, aiCh)
            /\ UNCHANGED <<streaming, offered, aiCh>>
    /\ UNCHANGED <<prompting, streams, drains>>

\* handleInlineOutput and handleFixOutput: with no channel an event is ignored.
RewriteOutput(r, others) ==
    /\ assist # "ghost"
    /\ IF aiCh = 0
       THEN readers' = others /\ UNCHANGED <<streaming, offered, aiCh, proposal>>
       ELSE IF r.got \in {Ended, Failed}
       THEN /\ streaming' = FALSE /\ aiCh' = 0
            /\ offered' = (offered \/ (r.got = Ended /\ proposal # <<>>))
            /\ readers' = others /\ UNCHANGED proposal
       ELSE /\ proposal' = Append(proposal, <<r.s, r.got>>)
            /\ readers' = Armed(others, aiCh)
            /\ UNCHANGED <<streaming, offered, aiCh>>
    /\ UNCHANGED <<prompting, streams, drains>>

\* handleGhostOutput takes whatever comes.
GhostOutput(r, others) ==
    /\ assist = "ghost"
    /\ IF r.got = Failed THEN Dismissed /\ DrainOneOf({0, aiCh}) /\ readers' = others
       ELSE IF r.got = Ended
       THEN /\ offered' = (proposal # <<>>)
            /\ readers' = others /\ UNCHANGED <<aiCh, proposal, streams, drains>>
       ELSE /\ proposal' = Append(proposal, <<r.s, r.got>>)
            /\ readers' = Armed(others, aiCh)
            /\ UNCHANGED <<offered, aiCh, streams, drains>>
    /\ UNCHANGED <<prompting, streaming>>

HandleOutput ==
    \E r \in readers :
        /\ r.got # Nothing
        /\ RewriteOutput(r, readers \ {r}) \/ GhostOutput(r, readers \ {r})
        /\ disturbed' = (disturbed \/ r.s # Cardinality(Started) \/ Cardinality(readers) > 1)
        /\ UNCHANGED <<assist>>

AiNext ==
    \/ StartRequest \/ SubmitRequest \/ LeavePrompt \/ CancelRequest
    \/ GhostTrigger \/ DismissGhost \/ GhostDrains \/ AcceptOffer \/ RejectOffer
    \/ \E s \in AiStreams : StreamSends(s) \/ StreamEnds(s)
    \/ ReaderReceives \/ HandleOutput

AiSpec == AiInit /\ [][AiNext]_aiVars

\* Providers end their streams, the runtime runs commands and handles messages.
AiFairness ==
    /\ WF_aiVars(\E s \in AiStreams : StreamEnds(s))
    /\ WF_aiVars(ReaderReceives) /\ WF_aiVars(HandleOutput)
-----------------------------------------------------------------------------
AiTypeOK ==
    /\ aiCh \in 0..MaxStreams
    /\ \A i \in 1..Len(proposal) : proposal[i] \in AiStreams \X (1..MaxParts)
    /\ \A r \in readers : r.s \in AiStreams /\ r.got \in Failed..MaxParts

\* While a prompt says that the answer streams, somebody reads the stream that
\* brings it: no order of stale ends, cancels and new requests leaves it waiting
\* for nobody, with the keyboard swallowed.
BusyIsAnswered == streaming => \E r \in readers : r.s = aiCh

\* What is offered is the whole answer, each part once and in its order, unless
\* its request met a stream that was still read or the remains of a failed one,
\* or its channel was emptied by the goroutine of a dismissed suggestion.
AnswerIsWhole ==
    offered /\ ~disturbed /\ Cardinality(Started) \notin drains =>
        proposal = [i \in 1..Len(proposal) |-> <<Cardinality(Started), i>>]

\* The keyboard comes back: what streams ends.
StreamingEnds == streaming ~> ~streaming

\* ghost.go:35-37: concurrent requests cannot mix stale deltas into the current
\* suggestion.
NoStaleDeltas ==
    assist = "ghost" => \A i \in 1..Len(proposal) : proposal[i][1] = Cardinality(Started)

\* Whatever stale, failed and cancelled streams still bring, the prompt waits for
\* somebody and offers its own answer.
AssistIsSound == BusyIsAnswered /\ AnswerIsWhole
=============================================================================
