--------------------------- MODULE ChatLoopProofs ---------------------------
(***************************************************************************)
(* Safety of the chat's loop for any batches of tool calls and any bounds. *)
(* The inductive invariant says when the loop stands still: while a call   *)
(* waits for a decision or a diff is under review the chat is idle and     *)
(* nobody reads the newest stream, so nothing that stream still says can   *)
(* start a turn behind the user's back.                                    *)
(***************************************************************************)
EXTENDS ChatLoop, SequenceTheorems, TLAPS

Waiting  == {i \in DOMAIN results : results[i].state = "waiting"}
Proposed == {i \in DOMAIN results : results[i].state = "proposed"}

EventType  == [kind : {"delta", "err", "done"}, tools : Batches \cup {<<>>}]
StreamType == [pc : {"none", "starting", "open", "said", "ended"}, thread : Nat,
               live : BOOLEAN, mode : {"act", "plan"}, out : Seq(EventType)]

TypeInv ==
    /\ chatGen \in Nat /\ chatBusy \in BOOLEAN /\ review \in BOOLEAN
    /\ thread \in Nat /\ mode \in {"act", "plan"} /\ round \in Nat
    /\ streams \in [1..MaxGen -> StreamType]
    /\ readers \subseteq 1..chatGen
    /\ results \in Seq(ResultType)

\* The parked call and the queue behind it are the calls that wait.
QueueIsWaiting ==
    park # 0 => park \in DOMAIN results /\ park \notin parks /\ {park} \cup parks = Waiting

\* Who waits for the user reads no stream.
StandsStill == park # 0 \/ review => ~chatBusy /\ chatGen \notin readers

\* A review is opened when no call waits, and holds every proposal.
ReviewIsAlone == review => park = 0 /\ Waiting = {} /\ changes = Proposed

ChatInv ==
    TypeInv /\ QueueIsWaiting /\ StandsStill /\ ReviewIsAlone
      /\ ParkedCallsAreAnswered /\ NoStrayStream

LEMMA NoStreamType == NoStream \in StreamType /\ ~NoStream.live
BY EmptySeq DEF NoStream, StreamType

LEMMA InitHolds == Init => ChatInv
<1> SUFFICES ASSUME Init PROVE ChatInv
  OBVIOUS
<1>1. NoStream \in StreamType /\ ~NoStream.live
  BY NoStreamType
<1>2. streams \in [1..MaxGen -> StreamType] /\ \A g \in 1..MaxGen : ~streams[g].live
  BY <1>1 DEF Init
<1>3. TypeInv
  BY <1>2, EmptySeq DEF Init, TypeInv
<1> QED BY <1>2, <1>3 DEF Init, ChatInv, QueueIsWaiting, StandsStill, ReviewIsAlone,
                         ParkedCallsAreAnswered, NoStrayStream
-----------------------------------------------------------------------------
(* What the operators leave behind.                                        *)

\* A cancelled context stops the stream it belongs to, and changes nothing else.
LEMMA CancelledType ==
    ASSUME NEW strs \in [1..MaxGen -> StreamType]
    PROVE  /\ Cancelled(strs) \in [1..MaxGen -> StreamType]
           /\ \A g \in 1..MaxGen : ~Cancelled(strs)[g].live
<1>1. \A g \in 1..MaxGen : [strs[g] EXCEPT !.live = FALSE] \in StreamType
                           /\ ~[strs[g] EXCEPT !.live = FALSE].live
  BY DEF StreamType
<1> QED BY <1>1 DEF Cancelled

\* Each call of a batch has a result, and only a call of a parking tool waits.
LEMMA FirstStateType ==
    ASSUME NEW c \in Calls
    PROVE  /\ FirstState(c) \in {"final", "waiting", "proposed"}
           /\ FirstState(c) = "waiting" => c.name \in Parking
           /\ FirstState(c) = "proposed" <=> c.name = "EDIT"
BY DEF FirstState, Parking

LEMMA ToolsType ==
    ASSUME NEW tools \in Batches \cup {<<>>}
    PROVE  tools \in Seq(Calls)
BY BatchesAssumption, EmptySeq

\* A turn that starts leaves one live stream: its own.
LEMMA TurnStarts ==
    ASSUME TypeInv, thread' = thread, mode' \in {"act", "plan"},
           review' \in BOOLEAN, round' \in Nat, results' \in Seq(ResultType),
           NEW strs \in [1..MaxGen -> StreamType],
           NEW rdrs \in SUBSET (1..chatGen), NEW kept \in BOOLEAN,
           StartChatTurn(strs, rdrs, kept)
    PROVE  TypeInv' /\ NoStrayStream'
<1> DEFINE new == [NoStream EXCEPT !.pc = "starting", !.live = TRUE, !.thread = thread]
<1>1. new \in StreamType
  BY NoStreamType DEF TypeInv, StreamType
<1>2. PICK c \in [1..MaxGen -> StreamType] :
        c = Cancelled(strs) /\ \A g \in 1..MaxGen : ~c[g].live
  BY CancelledType
<1>3. streams' = [c EXCEPT ![chatGen + 1] = new]
  BY <1>2 DEF StartChatTurn
<1> HIDE DEF new
<1>4. streams' \in [1..MaxGen -> StreamType]
  BY <1>1, <1>3
<1>5. \A g \in 1..MaxGen : g # chatGen + 1 => ~streams'[g].live
  BY <1>2, <1>3
<1>6. chatGen' = chatGen + 1 /\ chatBusy' = TRUE /\ readers' \subseteq 1..(chatGen + 1)
  BY DEF StartChatTurn, TypeInv
<1>7. TypeInv'
  BY <1>4, <1>6 DEF TypeInv
<1>8. NoStrayStream'
  BY <1>5, <1>6 DEF NoStrayStream, TypeInv
<1> QED BY <1>7, <1>8

\* The results go out: nothing is parked any more, and the streams are in order.
LEMMA LoopGoesOn ==
    ASSUME ChatInv, thread' = thread, mode' \in {"act", "plan"}, review' = FALSE,
           NEW res \in Seq(ResultType), \A i \in DOMAIN res : res[i].state # "waiting",
           NEW strs \in [1..MaxGen -> StreamType], \A g \in 1..MaxGen : ~strs[g].live,
           NEW rdrs \in SUBSET (1..chatGen), NEW kept \in BOOLEAN,
           FinalizeChatTools(res, strs, rdrs, kept)
    PROVE  ChatInv'
<1>1. /\ sent' = sent \cup Range(res) /\ results' = <<>> /\ park' = 0
      /\ round' = round + 1
  BY DEF FinalizeChatTools, NextRound
<1>2. results' \in Seq(ResultType) /\ round' \in Nat
  BY <1>1 DEF ChatInv, TypeInv
<1>3. ParkedCallsAreAnswered'
  BY <1>1 DEF ParkedCallsAreAnswered, Range, ChatInv
<1>4. TypeInv' /\ NoStrayStream'
  <2>1. CASE NextRound > ToolCap
    <3>1. /\ streams' = strs /\ readers' = rdrs /\ ~chatBusy' /\ chatGen' = chatGen
          /\ chatBusy' \in BOOLEAN
      BY <2>1 DEF FinalizeChatTools
    <3> QED BY <3>1, <1>2 DEF TypeInv, NoStrayStream, ChatInv
  <2>2. CASE ~(NextRound > ToolCap)
    <3>1. StartChatTurn(strs, rdrs, kept)
      BY <2>2 DEF FinalizeChatTools
    <3> QED BY <3>1, <1>2, TurnStarts DEF ChatInv
  <2> QED BY <2>1, <2>2
<1> QED BY <1>1, <1>3, <1>4 DEF ChatInv, QueueIsWaiting, StandsStill, ReviewIsAlone

\* One more call is decided: the next of the queue is shown, or the results go out.
LEMMA ParkResolved ==
    ASSUME ChatInv, thread' = thread, mode' \in {"act", "plan"}, park # 0,
           NEW kept \in BOOLEAN, AfterPark(Resolved, kept)
    PROVE  ChatInv'
<1>1. /\ park \in DOMAIN results /\ park \notin parks /\ {park} \cup parks = Waiting
      /\ ~chatBusy /\ chatGen \notin readers /\ ~review
  BY DEF ChatInv, QueueIsWaiting, StandsStill, ReviewIsAlone
<1>2. results \in Seq(ResultType) /\ results[park] \in ResultType
  BY <1>1 DEF ChatInv, TypeInv
<1>3. PICK r : r = [results[park] EXCEPT !.state = "final"]
  OBVIOUS
<1>31. r \in ResultType /\ r.state = "final"
  BY <1>2, <1>3 DEF ResultType
<1>4. PICK res : res = Resolved
  OBVIOUS
<1>5. res = [results EXCEPT ![park] = r]
  BY <1>3, <1>4 DEF Resolved
<1>6. res \in Seq(ResultType) /\ DOMAIN res = DOMAIN results
  BY <1>1, <1>2, <1>31, <1>5
<1>7. {i \in DOMAIN res : res[i].state = "waiting"} = parks
  BY <1>1, <1>31, <1>5 DEF Waiting
<1>8. \A g \in 1..MaxGen : ~streams[g].live
  BY <1>1 DEF ChatInv, NoStrayStream
<1>9. review' = FALSE
  BY <1>1 DEF AfterPark, ChatInv, TypeInv
<1>10. CASE parks # {}
  <2>1. /\ results' = res
        /\ park' \in parks /\ parks' = parks \ {park'}
        /\ chatGen' = chatGen /\ chatBusy' = chatBusy /\ streams' = streams
        /\ readers' = readers /\ round' = round /\ sent' = sent
    BY <1>4, <1>10 DEF AfterPark, StartNextPark
  <2>2. TypeInv'
    BY <2>1, <1>6, <1>9 DEF ChatInv, TypeInv
  <2>3. QueueIsWaiting'
    BY <2>1, <1>7 DEF QueueIsWaiting, Waiting
  <2>4. ParkedCallsAreAnswered' /\ NoStrayStream'
    BY <2>1 DEF ChatInv, ParkedCallsAreAnswered, NoStrayStream
  <2> QED BY <1>1, <1>9, <2>1, <2>2, <2>3, <2>4
             DEF ChatInv, StandsStill, ReviewIsAlone
<1>11. CASE parks = {}
  <2>1. FinalizeChatTools(res, streams, readers, kept)
    BY <1>4, <1>11 DEF AfterPark
  <2>2. \A i \in DOMAIN res : res[i].state # "waiting"
    BY <1>7, <1>11
  <2>3. streams \in [1..MaxGen -> StreamType] /\ readers \in SUBSET (1..chatGen)
    BY DEF ChatInv, TypeInv
  <2> QED BY <1>6, <1>8, <1>9, <2>1, <2>2, <2>3, LoopGoesOn
<1> QED BY <1>10, <1>11

\* A finished answer with tool calls parks, opens a review, or goes on.
LEMMA ToolsDone ==
    ASSUME ChatInv, thread' = thread, mode' \in {"act", "plan"}, chatGen \in readers,
           NEW tools \in Seq(Calls),
           NEW strs \in [1..MaxGen -> StreamType], \A g \in 1..MaxGen : ~strs[g].live,
           HandleChatToolsDone(tools, strs, readers \ {chatGen})
    PROVE  ChatInv'
<1>1. ~review /\ park = 0
  BY DEF ChatInv, StandsStill
<1>2. PICK res : res = [i \in DOMAIN tools |-> [call |-> tools[i],
                                               state |-> FirstState(tools[i])]]
  OBVIOUS
<1>3. PICK n \in Nat : DOMAIN tools = 1..n /\ \A i \in 1..n : tools[i] \in Calls
  BY LenProperties, ElementOfSeq
<1>4. \A i \in 1..n : res[i] \in ResultType
  BY <1>2, <1>3, FirstStateType DEF ResultType
<1>5. res \in Seq(ResultType) /\ DOMAIN res = 1..n
  BY <1>2, <1>3, <1>4, IsASeq
<1>6. PICK waiting : waiting = {i \in DOMAIN res : res[i].state = "waiting"}
  OBVIOUS
<1>7. PICK props : props = {i \in DOMAIN res : res[i].state = "proposed"}
  OBVIOUS
<1>8. readers \ {chatGen} \in SUBSET (1..chatGen)
  BY DEF ChatInv, TypeInv
<1>9. CASE MustPause(waiting, props)
  <2>1. /\ results' = res /\ changes' = props
        /\ IF waiting = {} THEN park' = 0 /\ parks' = {} ELSE StartNextPark(waiting)
        /\ review' = (waiting = {})
        /\ streams' = strs /\ readers' = readers \ {chatGen} /\ chatBusy' = FALSE
        /\ chatGen' = chatGen /\ round' = round /\ sent' = sent
    BY <1>2, <1>6, <1>7, <1>9 DEF HandleChatToolsDone
  <2>2. TypeInv'
    BY <2>1, <1>5, <1>8 DEF ChatInv, TypeInv
  <2>3. QueueIsWaiting'
    <3>1. CASE waiting = {}
      BY <3>1, <2>1 DEF QueueIsWaiting
    <3>2. CASE waiting # {}
      BY <3>2, <2>1, <1>6 DEF QueueIsWaiting, StartNextPark, Waiting
    <3> QED BY <3>1, <3>2
  <2>4. ReviewIsAlone'
    BY <2>1, <1>6, <1>7 DEF ReviewIsAlone, Waiting, Proposed
  <2>5. StandsStill'
    BY <2>1 DEF StandsStill
  <2>6. ParkedCallsAreAnswered' /\ NoStrayStream'
    BY <2>1 DEF ChatInv, ParkedCallsAreAnswered, NoStrayStream
  <2> QED BY <2>2, <2>3, <2>4, <2>5, <2>6 DEF ChatInv
<1>10. CASE ~MustPause(waiting, props)
  <2>1. FinalizeChatTools(res, strs, readers \ {chatGen}, TRUE) /\ review' = review
    BY <1>2, <1>6, <1>7, <1>10 DEF HandleChatToolsDone
  <2>2. review' = FALSE
    BY <2>1, <1>1 DEF ChatInv, TypeInv
  <2>3. \A i \in DOMAIN res : res[i].state # "waiting"
    BY <1>6, <1>10 DEF MustPause
  <2> QED BY <1>5, <1>8, <2>1, <2>2, <2>3, LoopGoesOn
<1> QED BY <1>9, <1>10
-----------------------------------------------------------------------------
(* One step per action.                                                    *)

\* A stream only moves its own process counter, its text and its mode.
LEMMA StreamKeeps ==
    ASSUME ChatInv, NEW g \in 1..MaxGen, StreamStep(g)
    PROVE  ChatInv'
<1>1. /\ UNCHANGED <<chatGen, chatBusy, thread, mode, readers, results, changes, park,
                     parks, review, round, sent>>
  BY DEF StreamStep, StreamStarts, StreamSays, StreamEnds, loopVars
<1>2. streams \in [1..MaxGen -> StreamType] /\ streams[g] \in StreamType
  BY DEF ChatInv, TypeInv
<1>3. PICK s \in StreamType : s.live = streams[g].live /\ streams' = [streams EXCEPT ![g] = s]
  <2>1. CASE StreamStarts(g)
    <3>1. PICK s : s = [streams[g] EXCEPT !.pc = "open", !.mode = mode]
      OBVIOUS
    <3>2. s \in StreamType /\ s.live = streams[g].live
      BY <1>2, <3>1 DEF StreamType, ChatInv, TypeInv
    <3>3. streams' = [streams EXCEPT ![g] = s]
      BY <2>1, <3>1 DEF StreamStarts
    <3> QED BY <3>2, <3>3
  <2>2. CASE StreamSays(g)
    <3>1. PICK s : s = [streams[g] EXCEPT !.pc = "said", !.out = Append(@, Delta)]
      OBVIOUS
    <3>2. Delta \in EventType
      BY DEF Delta, EventType
    <3>3. Append(streams[g].out, Delta) \in Seq(EventType)
      BY <1>2, <3>2, AppendProperties DEF StreamType
    <3>4. s \in StreamType /\ s.live = streams[g].live
      BY <1>2, <3>1, <3>3 DEF StreamType
    <3>5. streams' = [streams EXCEPT ![g] = s]
      BY <2>2, <3>1 DEF StreamSays
    <3> QED BY <3>4, <3>5
  <2>3. CASE StreamEnds(g)
    <3>1. PICK tail \in {<<Failure>>, <<Done(<<>>)>>}
                        \cup {<<Done(b)>> : b \in {c \in Batches :
                                \A i \in DOMAIN c : c[i].name \in Offered(streams[g].mode)}}
                        \cup (IF streams[g].live THEN {} ELSE {<<>>}) :
                 streams' = [streams EXCEPT ![g].pc = "ended", ![g].out = @ \o tail]
      BY <2>3 DEF StreamEnds
    <3>2. tail = <<>> \/ \E e \in EventType : tail = <<e>>
      <4>1. Failure \in EventType /\ \A b \in Batches \cup {<<>>} : Done(b) \in EventType
        BY DEF Failure, Done, EventType
      <4>2. \/ tail = <<Failure>> \/ tail = <<>>
            \/ \E b \in Batches \cup {<<>>} : tail = <<Done(b)>>
        BY <3>1
      <4> QED BY <4>1, <4>2
    <3>3. tail \in Seq(EventType)
      <4>1. ASSUME NEW e \in EventType PROVE <<e>> \in Seq(EventType)
        OBVIOUS
      <4> QED BY <3>2, <4>1, EmptySeq
    <3>4. streams[g].out \o tail \in Seq(EventType)
      BY <1>2, <3>3, ConcatProperties DEF StreamType
    <3>5. PICK s : s = [streams[g] EXCEPT !.pc = "ended", !.out = @ \o tail]
      OBVIOUS
    <3>6. s \in StreamType /\ s.live = streams[g].live
      BY <1>2, <3>4, <3>5 DEF StreamType
    <3>7. streams' = [streams EXCEPT ![g] = s]
      BY <3>1, <3>5
    <3> QED BY <3>6, <3>7
  <2> QED BY <2>1, <2>2, <2>3 DEF StreamStep
<1>4. TypeInv'
  BY <1>1, <1>2, <1>3 DEF ChatInv, TypeInv
<1>5. NoStrayStream'
  BY <1>1, <1>2, <1>3 DEF ChatInv, NoStrayStream
<1> QED BY <1>1, <1>4, <1>5
           DEF ChatInv, QueueIsWaiting, StandsStill, ReviewIsAlone, ParkedCallsAreAnswered,
               Waiting, Proposed

\* What a reader was given: an event whose tools are those of a batch.
LEMMA GivenEvent ==
    ASSUME ChatInv, NEW g \in 1..MaxGen,
           NEW ev, ev = IF streams[g].out # <<>> THEN Head(streams[g].out) ELSE Done(<<>>)
    PROVE  ev \in EventType
<1>1. streams[g].out \in Seq(EventType)
  BY DEF ChatInv, TypeInv, StreamType
<1>2. CASE streams[g].out # <<>>
  BY <1>1, <1>2, HeadTailProperties
<1>3. CASE streams[g].out = <<>>
  BY <1>3 DEF Done, EventType
<1> QED BY <1>2, <1>3

\* The streams once a reader took the next event, or found none left.
Taken(g) == [streams EXCEPT ![g].out = IF @ = <<>> THEN @ ELSE Tail(@)]

\* What a reader takes off a channel leaves its stream as live as it was.
LEMMA EventTaken ==
    ASSUME ChatInv, NEW g \in 1..MaxGen,
           NEW strs, strs = Taken(g)
    PROVE  /\ strs \in [1..MaxGen -> StreamType]
           /\ \A h \in 1..MaxGen : strs[h].live = streams[h].live
<1>1. streams \in [1..MaxGen -> StreamType] /\ streams[g] \in StreamType
  BY DEF ChatInv, TypeInv
<1>2. PICK s : s = [streams[g] EXCEPT !.out = IF @ = <<>> THEN @ ELSE Tail(@)]
  OBVIOUS
<1>3. streams[g].out \in Seq(EventType)
  BY <1>1 DEF StreamType
<1>4. streams[g].out # <<>> => Tail(streams[g].out) \in Seq(EventType)
  BY <1>3, HeadTailProperties
<1>5. s \in StreamType /\ s.live = streams[g].live
  BY <1>1, <1>2, <1>3, <1>4 DEF StreamType
<1>6. strs = [streams EXCEPT ![g] = s]
  BY <1>2 DEF Taken
<1> QED BY <1>1, <1>5, <1>6

LEMMA ChatOutputKeeps ==
    ASSUME ChatInv, NEW g \in 1..MaxGen, ChatOutput(g)
    PROVE  ChatInv'
<1>1. PICK ev : ev = IF streams[g].out # <<>> THEN Head(streams[g].out) ELSE Done(<<>>)
  OBVIOUS
<1>2. ev \in EventType
  BY <1>1, GivenEvent
<1>3. PICK strs : strs = Taken(g)
  OBVIOUS
<1>4. /\ strs \in [1..MaxGen -> StreamType]
      /\ \A h \in 1..MaxGen : strs[h].live = streams[h].live
  BY <1>3, EventTaken
<1>5. /\ Cancelled(strs) \in [1..MaxGen -> StreamType]
      /\ \A h \in 1..MaxGen : ~Cancelled(strs)[h].live
  BY <1>4, CancelledType
<1>6. g \in readers /\ thread' = thread /\ mode' = mode
  BY DEF ChatOutput
<1>7. CASE g # chatGen \/ (g = chatGen /\ ev.kind = "delta")
  <2>1. /\ readers' \in {readers, readers \ {g}} /\ streams' = strs
        /\ UNCHANGED <<chatGen, chatBusy, results, changes, park, parks, review, round, sent>>
    BY <1>1, <1>3, <1>7 DEF ChatOutput, loopVars, Taken
  <2>2. TypeInv'
    BY <1>4, <1>6, <2>1 DEF ChatInv, TypeInv
  <2>3. NoStrayStream'
    BY <1>4, <2>1 DEF ChatInv, NoStrayStream
  <2> QED BY <2>1, <2>2, <2>3
             DEF ChatInv, QueueIsWaiting, StandsStill, ReviewIsAlone,
                 ParkedCallsAreAnswered, Waiting, Proposed
<1>8. CASE g = chatGen /\ (ev.kind = "err" \/ (ev.kind = "done" /\ ev.tools = <<>>))
  <2>1. /\ readers' = readers \ {g} /\ streams' = Cancelled(strs) /\ chatBusy' = FALSE
        /\ UNCHANGED <<chatGen, results, changes, park, parks, review, round, sent>>
    BY <1>1, <1>3, <1>8 DEF ChatOutput, loopVars, Taken
  <2>2. TypeInv'
    BY <1>5, <1>6, <2>1 DEF ChatInv, TypeInv
  <2>3. NoStrayStream'
    BY <1>5, <2>1 DEF NoStrayStream
  <2> QED BY <2>1, <2>2, <2>3
             DEF ChatInv, QueueIsWaiting, StandsStill, ReviewIsAlone,
                 ParkedCallsAreAnswered, Waiting, Proposed
<1>9. CASE g = chatGen /\ ev.kind = "done" /\ ev.tools # <<>>
  <2>1. HandleChatToolsDone(ev.tools, Cancelled(strs), readers \ {chatGen})
    BY <1>1, <1>3, <1>9 DEF ChatOutput, Taken
  <2>2. ev.tools \in Seq(Calls)
    BY <1>2, ToolsType DEF EventType
  <2>3. mode' \in {"act", "plan"} /\ chatGen \in readers
    BY <1>6, <1>9 DEF ChatInv, TypeInv
  <2> QED BY <1>5, <1>6, <2>1, <2>2, <2>3, ToolsDone
<1> QED BY <1>2, <1>7, <1>8, <1>9 DEF EventType

LEMMA ChatSubmitKeeps ==
    ASSUME ChatInv, ChatSubmit
    PROVE  ChatInv'
<1>1. /\ park = 0 /\ ~review /\ round' = 0 /\ StartChatTurn(streams, readers, TRUE)
      /\ UNCHANGED <<thread, mode, results, changes, park, parks, review, sent>>
  BY DEF ChatSubmit, Unparked
<1>2. TypeInv' /\ NoStrayStream'
  BY <1>1, TurnStarts DEF ChatInv, TypeInv
<1> QED BY <1>1, <1>2 DEF ChatInv, QueueIsWaiting, StandsStill, ReviewIsAlone,
                          ParkedCallsAreAnswered

LEMMA ChatStopKeeps ==
    ASSUME ChatInv, ChatStop
    PROVE  ChatInv'
<1>1. /\ park = 0 /\ ~review /\ chatGen' = chatGen + 1 /\ streams' = Cancelled(streams)
      /\ chatBusy' = FALSE
      /\ UNCHANGED <<thread, mode, readers, results, changes, park, parks, review, round, sent>>
  BY DEF ChatStop, Unparked, loopVars
<1>2. PICK c \in [1..MaxGen -> StreamType] :
        c = Cancelled(streams) /\ \A g \in 1..MaxGen : ~c[g].live
  BY CancelledType DEF ChatInv, TypeInv
<1>3. streams' = c
  BY <1>1, <1>2
<1>4. TypeInv'
  <2>1. streams' \in [1..MaxGen -> StreamType]
    BY <1>2, <1>3
  <2>2. results' \in Seq(ResultType)
    BY <1>1 DEF ChatInv, TypeInv
  <2>3. chatGen' \in Nat /\ thread' \in Nat /\ round' \in Nat /\ readers' \subseteq 1..chatGen'
    BY <1>1 DEF ChatInv, TypeInv
  <2>4. chatBusy' \in BOOLEAN /\ review' \in BOOLEAN /\ mode' \in {"act", "plan"}
    BY <1>1 DEF ChatInv, TypeInv
  <2> QED BY <2>1, <2>2, <2>3, <2>4 DEF TypeInv
<1> QED BY <1>1, <1>2, <1>3, <1>4
           DEF ChatInv, QueueIsWaiting, StandsStill, ReviewIsAlone,
               ParkedCallsAreAnswered, NoStrayStream

LEMMA NewChatThreadKeeps ==
    ASSUME ChatInv, NewChatThread
    PROVE  ChatInv'
<1>1. /\ park = 0 /\ review' = FALSE /\ streams' = Cancelled(streams) /\ sent' = {}
      /\ chatBusy' = FALSE /\ thread' = thread + 1 /\ round' = 0
      /\ UNCHANGED <<chatGen, mode, readers, results, changes, park, parks>>
  BY DEF NewChatThread
<1>2. PICK c \in [1..MaxGen -> StreamType] :
        c = Cancelled(streams) /\ \A g \in 1..MaxGen : ~c[g].live
  BY CancelledType DEF ChatInv, TypeInv
<1>3. streams' = c
  BY <1>1, <1>2
<1>4. TypeInv'
  <2>1. streams' \in [1..MaxGen -> StreamType]
    BY <1>2, <1>3
  <2>2. results' \in Seq(ResultType)
    BY <1>1 DEF ChatInv, TypeInv
  <2>3. chatGen' \in Nat /\ thread' \in Nat /\ round' \in Nat /\ readers' \subseteq 1..chatGen'
    BY <1>1 DEF ChatInv, TypeInv
  <2>4. chatBusy' \in BOOLEAN /\ review' \in BOOLEAN /\ mode' \in {"act", "plan"}
    BY <1>1 DEF ChatInv, TypeInv
  <2> QED BY <2>1, <2>2, <2>3, <2>4 DEF TypeInv
<1> QED BY <1>1, <1>2, <1>3, <1>4
           DEF ChatInv, QueueIsWaiting, StandsStill, ReviewIsAlone,
               ParkedCallsAreAnswered, NoStrayStream

\* A proposal of the review was taken or left: none waits any more.
LEMMA AmendedType ==
    ASSUME ChatInv, review, NEW applied \in SUBSET changes
    PROVE  /\ Amended(applied) \in Seq(ResultType)
           /\ \A i \in DOMAIN Amended(applied) :
                Amended(applied)[i].state \notin {"waiting", "proposed"}
<1>1. Waiting = {} /\ changes = Proposed
  BY DEF ChatInv, ReviewIsAlone
<1>2. PICK n \in Nat : n = Len(results) /\ DOMAIN results = 1..n
                       /\ results \in [1..n -> ResultType]
  BY LenProperties DEF ChatInv, TypeInv
<1>3. PICK labels : labels = {results[i].call.path : i \in applied}
  OBVIOUS
<1>4. PICK a : a = Amended(applied)
  OBVIOUS
<1>5. a = [i \in 1..n |-> IF i \in changes
             THEN [results[i] EXCEPT !.state =
                     IF results[i].call.path \in labels THEN "applied" ELSE "rejected"]
             ELSE results[i]]
  BY <1>2, <1>3, <1>4 DEF Amended
<1>6. ASSUME NEW i \in 1..n
      PROVE  a[i] \in ResultType /\ a[i].state \notin {"waiting", "proposed"}
  <2>1. results[i] \in ResultType
    BY <1>2
  <2>2. CASE i \in changes
    BY <1>5, <2>1, <2>2 DEF ResultType
  <2>3. CASE i \notin changes
    BY <1>1, <1>2, <1>5, <2>1, <2>3 DEF Waiting, Proposed
  <2> QED BY <2>2, <2>3
<1>7. a \in [1..n -> ResultType] /\ DOMAIN a = 1..n
  BY <1>5, <1>6
<1>8. a \in Seq(ResultType)
  BY <1>7, SeqDef
<1> QED BY <1>4, <1>6, <1>7, <1>8

LEMMA ReviewEnds ==
    ASSUME ChatInv, NEW applied \in SUBSET changes, EndChatReview(applied)
    PROVE  ChatInv'
<1>1. /\ review /\ review' = FALSE /\ thread' = thread /\ mode' = mode
      /\ FinalizeChatTools(Amended(applied), streams, readers, TRUE)
  BY DEF EndChatReview
<1>2. /\ Amended(applied) \in Seq(ResultType)
      /\ \A i \in DOMAIN Amended(applied) : Amended(applied)[i].state # "waiting"
  BY <1>1, AmendedType
<1>3. /\ streams \in [1..MaxGen -> StreamType] /\ readers \in SUBSET (1..chatGen)
      /\ mode' \in {"act", "plan"}
  BY <1>1 DEF ChatInv, TypeInv
<1>4. \A g \in 1..MaxGen : ~streams[g].live
  BY <1>1 DEF ChatInv, StandsStill, NoStrayStream
<1> QED BY <1>1, <1>2, <1>3, <1>4, LoopGoesOn

\* The other operations of the user, and the delegated tasks, leave the loop alone.
LEMMA QuietKeeps ==
    ASSUME ChatInv, review' \in {review, FALSE}, mode' \in {"act", "plan"},
           UNCHANGED <<chatGen, chatBusy, thread, streams, readers, results, changes, park,
                       parks, round, sent>>
    PROVE  ChatInv'
<1>1. Waiting' = Waiting /\ Proposed' = Proposed
  BY DEF Waiting, Proposed
<1>2. TypeInv'
  BY DEF ChatInv, TypeInv
<1>3. QueueIsWaiting'
  BY <1>1 DEF ChatInv, QueueIsWaiting
<1>6. ReviewIsAlone'
  BY <1>1 DEF ChatInv, ReviewIsAlone
<1>4. StandsStill'
  BY DEF ChatInv, TypeInv, StandsStill
<1>5. ParkedCallsAreAnswered' /\ NoStrayStream'
  BY DEF ChatInv, ParkedCallsAreAnswered, NoStrayStream
<1> QED BY <1>2, <1>3, <1>4, <1>5, <1>6 DEF ChatInv

LEMMA NextKeeps == ChatInv /\ [Next]_vars => ChatInv'
<1> SUFFICES ASSUME ChatInv, [Next]_vars PROVE ChatInv'
  OBVIOUS
<1> USE DEF loopVars, subVars, histVars
<1>0. mode \in {"act", "plan"}
  BY DEF ChatInv, TypeInv
<1>1. ASSUME NEW g \in 1..MaxGen, StreamStep(g) PROVE ChatInv'
  BY <1>1, StreamKeeps
<1>2. ASSUME NEW g \in 1..MaxGen, ChatOutput(g) PROVE ChatInv'
  BY <1>2, ChatOutputKeeps
<1>3. CASE AgentRefresh
  <2>1. CASE ParkedOn("SUB_AGENT") /\ subs[park] \in Life!Terminal
    BY <1>0, <1>3, <2>1, ParkResolved DEF AgentRefresh, ParkedOn
  <2>2. CASE ~(ParkedOn("SUB_AGENT") /\ subs[park] \in Life!Terminal)
    BY <1>0, <1>3, <2>2, QuietKeeps DEF AgentRefresh
  <2> QED BY <2>1, <2>2
<1>4. CASE SubMoves \/ CloseChat \/ ToggleMode \/ CancelParkedSubAgent \/ ToggleAgentPanel
  BY <1>0, <1>4, QuietKeeps
     DEF SubMoves, CloseChat, ToggleMode, CancelParkedSubAgent, ToggleAgentPanel
<1>5. CASE ChatSubmit \/ ChatStop \/ NewChatThread
  BY <1>5, ChatSubmitKeeps, ChatStopKeeps, NewChatThreadKeeps
<1>6. ASSUME NEW yes \in BOOLEAN, FinishChatSwitchMode(yes) PROVE ChatInv'
  BY <1>0, <1>6, ParkResolved DEF FinishChatSwitchMode, ParkedOn
<1>7. CASE FinishChatRunConfirm \/ FinishChatAsk
  BY <1>0, <1>7, ParkResolved DEF FinishChatRunConfirm, FinishChatAsk, ParkedOn
<1>8. CASE AcceptChatReview \/ RejectChatReview
  BY <1>8, ReviewEnds DEF AcceptChatReview, RejectChatReview
<1>9. CASE UNCHANGED vars
  BY <1>0, <1>9, QuietKeeps DEF vars
<1> QED BY <1>1, <1>2, <1>3, <1>4, <1>5, <1>6, <1>7, <1>8, <1>9 DEF Next, UINext

\* A call that needs a decision is the one shown or behind it in the queue, the
\* loop stands still until it was decided, and the model never sees it undecided.
THEOREM DecisionsCorrect == Spec => []DecisionsAreAwaited
<1>1. ChatInv => DecisionsAreAwaited
  BY DEF ChatInv, DecisionsAreAwaited, ParkedIsIdle, QueueIsWaiting, StandsStill,
         ReviewIsAlone, Waiting
<1> QED BY <1>1, InitHolds, NextKeeps, PTL DEF Spec

\* Only the stream of a busy chat's newest turn is not cancelled.
THEOREM NoStrayCorrect == Spec => []NoStrayStream
<1>1. ChatInv => NoStrayStream
  BY DEF ChatInv
<1> QED BY <1>1, InitHolds, NextKeeps, PTL DEF Spec
-----------------------------------------------------------------------------
(* Proposals.  A batch that mixes a proposal with a call to decide on sends *)
(* the proposal back undecided; no other batch does.                        *)

NoMixedBatch ==
    \A b \in Batches : \A i, j \in DOMAIN b : b[i].name = "EDIT" => b[j].name \notin Parking

EditInv == EditsAreReviewed /\ (park # 0 => Proposed = {})

\* Where nothing new is sent, and nothing new is parked, nothing is proposed to it.
LEMMA EditsUndisturbed ==
    ASSUME EditInv, sent' \subseteq sent, (park' = park /\ results' = results) \/ park' = 0
    PROVE  EditInv'
<1>1. results' = results => Proposed' = Proposed
  BY DEF Proposed
<1> QED BY <1>1 DEF EditInv, EditsAreReviewed

LEMMA EditsSent ==
    ASSUME EditInv, NEW res, \A i \in DOMAIN res : res[i].state # "proposed",
           NEW strs, NEW rdrs, NEW kept, FinalizeChatTools(res, strs, rdrs, kept)
    PROVE  EditInv'
<1>1. park' = 0 /\ sent' = sent \cup Range(res)
  BY DEF FinalizeChatTools
<1> QED BY <1>1 DEF EditInv, EditsAreReviewed, Range

LEMMA EditsParkResolved ==
    ASSUME ChatInv, EditInv, park # 0, NEW kept, AfterPark(Resolved, kept)
    PROVE  EditInv'
<1>1. PICK res : res = Resolved
  OBVIOUS
<1>2. /\ park \in DOMAIN results /\ results[park] \in ResultType
      /\ results \in Seq(ResultType)
  BY DEF ChatInv, TypeInv, QueueIsWaiting
<1>3. PICK r : r = [results[park] EXCEPT !.state = "final"]
  OBVIOUS
<1>4. r.state = "final"
  BY <1>2, <1>3 DEF ResultType
<1>5. res = [results EXCEPT ![park] = r]
  BY <1>1, <1>3 DEF Resolved
<1>6. DOMAIN res = DOMAIN results /\ \A i \in DOMAIN res : res[i].state # "proposed"
  BY <1>2, <1>4, <1>5 DEF EditInv, Proposed
<1>7. CASE parks # {}
  BY <1>1, <1>6, <1>7 DEF AfterPark, EditInv, EditsAreReviewed, Proposed
<1>8. CASE parks = {}
  <2>1. FinalizeChatTools(res, streams, readers, kept)
    BY <1>1, <1>8 DEF AfterPark
  <2> QED BY <1>6, <2>1, EditsSent
<1> QED BY <1>7, <1>8

LEMMA EditsToolsDone ==
    ASSUME NoMixedBatch, ChatInv, EditInv, NEW tools \in Batches \cup {<<>>},
           NEW strs, NEW rdrs, HandleChatToolsDone(tools, strs, rdrs)
    PROVE  EditInv'
<1>1. tools \in Seq(Calls)
  BY ToolsType
<1>2. PICK res : res = [i \in DOMAIN tools |-> [call |-> tools[i],
                                               state |-> FirstState(tools[i])]]
  OBVIOUS
<1>3. PICK waiting : waiting = {i \in DOMAIN res : res[i].state = "waiting"}
  OBVIOUS
<1>4. PICK props : props = {i \in DOMAIN res : res[i].state = "proposed"}
  OBVIOUS
<1>5. waiting = {} \/ props = {}
  <2>1. SUFFICES ASSUME NEW i \in waiting, NEW j \in props PROVE FALSE
    OBVIOUS
  <2>2. i \in DOMAIN tools /\ j \in DOMAIN tools
    BY <1>2, <1>3, <1>4
  <2>3. tools[i] \in Calls /\ tools[j] \in Calls
    BY <1>1, <2>2, LenProperties
  <2>4. FirstState(tools[i]) = "waiting" /\ FirstState(tools[j]) = "proposed"
    BY <1>2, <1>3, <1>4, <2>2
  <2>5. tools[i].name \in Parking /\ tools[j].name = "EDIT"
    BY <2>3, <2>4, FirstStateType
  <2>6. tools \in Batches
    BY <2>2
  <2> QED BY <2>2, <2>5, <2>6 DEF NoMixedBatch
<1>6. CASE MustPause(waiting, props)
  <2>1. /\ results' = res /\ sent' = sent
        /\ IF waiting = {} THEN park' = 0 /\ parks' = {} ELSE StartNextPark(waiting)
    BY <1>2, <1>3, <1>4, <1>6 DEF HandleChatToolsDone
  <2>2. waiting # {} => props = {}
    BY <1>5
  <2>3. waiting = {} => park' = 0
    BY <2>1
  <2> QED BY <1>4, <2>1, <2>2, <2>3 DEF EditInv, EditsAreReviewed, Proposed
<1>7. CASE ~MustPause(waiting, props)
  <2>1. FinalizeChatTools(res, strs, rdrs, TRUE)
    BY <1>2, <1>3, <1>4, <1>7 DEF HandleChatToolsDone
  <2>2. \A i \in DOMAIN res : res[i].state # "proposed"
    BY <1>4, <1>7 DEF MustPause
  <2> QED BY <2>1, <2>2, EditsSent
<1> QED BY <1>6, <1>7

LEMMA EditNextKeeps ==
    ASSUME NoMixedBatch, ChatInv, EditInv, [Next]_vars
    PROVE  EditInv'
<1> USE DEF loopVars, subVars, histVars
<1>1. ASSUME NEW g \in 1..MaxGen, StreamStep(g) PROVE EditInv'
  BY <1>1, EditsUndisturbed DEF StreamStep, StreamStarts, StreamSays, StreamEnds
<1>2. ASSUME NEW g \in 1..MaxGen, ChatOutput(g) PROVE EditInv'
  <2>1. PICK ev : ev = IF streams[g].out # <<>> THEN Head(streams[g].out) ELSE Done(<<>>)
    OBVIOUS
  <2>2. ev \in EventType
    BY <2>1, GivenEvent
  <2>3. CASE g # chatGen \/ ev.kind # "done" \/ ev.tools = <<>>
    <3>1. UNCHANGED <<results, park, sent>>
      BY <1>2, <2>1, <2>2, <2>3 DEF ChatOutput, EventType
    <3> QED BY <3>1, EditsUndisturbed
  <2>4. CASE g = chatGen /\ ev.kind = "done" /\ ev.tools # <<>>
    <3>1. PICK strs : HandleChatToolsDone(ev.tools, strs, readers \ {g})
      BY <1>2, <2>1, <2>4 DEF ChatOutput
    <3>2. ev.tools \in Batches \cup {<<>>}
      BY <2>2 DEF EventType
    <3> QED BY <3>1, <3>2, EditsToolsDone
  <2> QED BY <2>3, <2>4
<1>3. CASE AgentRefresh
  <2>1. CASE ParkedOn("SUB_AGENT") /\ subs[park] \in Life!Terminal
    BY <1>3, <2>1, EditsParkResolved DEF AgentRefresh, ParkedOn
  <2>2. CASE ~(ParkedOn("SUB_AGENT") /\ subs[park] \in Life!Terminal)
    BY <1>3, <2>2, EditsUndisturbed DEF AgentRefresh
  <2> QED BY <2>1, <2>2
<1>4. CASE SubMoves \/ CloseChat \/ ToggleMode \/ CancelParkedSubAgent \/ ToggleAgentPanel
  BY <1>4, EditsUndisturbed
     DEF SubMoves, CloseChat, ToggleMode, CancelParkedSubAgent, ToggleAgentPanel
<1>5. CASE ChatSubmit \/ ChatStop \/ NewChatThread
  BY <1>5, EditsUndisturbed DEF ChatSubmit, ChatStop, NewChatThread
<1>6. ASSUME NEW yes \in BOOLEAN, FinishChatSwitchMode(yes) PROVE EditInv'
  BY <1>6, EditsParkResolved DEF FinishChatSwitchMode, ParkedOn
<1>7. CASE FinishChatRunConfirm \/ FinishChatAsk
  BY <1>7, EditsParkResolved DEF FinishChatRunConfirm, FinishChatAsk, ParkedOn
<1>8. ASSUME NEW applied \in SUBSET changes, EndChatReview(applied) PROVE EditInv'
  <2>1. review /\ FinalizeChatTools(Amended(applied), streams, readers, TRUE)
    BY <1>8 DEF EndChatReview
  <2>2. \A i \in DOMAIN Amended(applied) : Amended(applied)[i].state # "proposed"
    BY <2>1, AmendedType
  <2> QED BY <2>1, <2>2, EditsSent
<1>9. CASE AcceptChatReview \/ RejectChatReview
  BY <1>8, <1>9 DEF AcceptChatReview, RejectChatReview
<1>10. CASE UNCHANGED vars
  BY <1>10, EditsUndisturbed DEF vars
<1> QED BY <1>1, <1>2, <1>3, <1>4, <1>5, <1>6, <1>7, <1>9, <1>10 DEF Next, UINext

\* Unless one answer mixes a proposal with a call to decide on, every proposal is
\* reviewed before the model hears of it.
THEOREM EditsCorrect ==
    ASSUME NoMixedBatch
    PROVE  Spec => []EditsAreReviewed
<1>1. Init => EditInv
  BY DEF Init, EditInv, EditsAreReviewed
<1>2. ChatInv /\ EditInv /\ [Next]_vars => EditInv'
  BY EditNextKeeps
<1>3. EditInv => EditsAreReviewed
  BY DEF EditInv
<1> QED BY <1>1, <1>2, <1>3, InitHolds, NextKeeps, PTL DEF Spec
-----------------------------------------------------------------------------
(* One conversation.  A new one does not end the turn of the old, so what   *)
(* follows is about a chat whose conversation is never discarded.           *)

\* While the loop may still go on, its turns are counted by the round.
TurnsInv ==
    /\ thread = 1 /\ turns \in Nat /\ turns <= ToolCap + 1
    /\ chatBusy \/ park # 0 \/ review => turns <= round + 1 /\ round <= ToolCap
    /\ chatGen \in readers => chatBusy

LEMMA TurnsUndisturbed ==
    ASSUME TurnsInv, UNCHANGED <<thread, turns, round, chatBusy, chatGen>>,
           park' # 0 \/ review' => park # 0 \/ review, readers' \subseteq readers
    PROVE  TurnsInv'
BY DEF TurnsInv

\* The next turn is counted, up to the cap.
LEMMA TurnIsCounted ==
    ASSUME ChatInv, TurnsInv, chatBusy \/ park # 0 \/ review, thread' = thread,
           review' = FALSE, NEW res, NEW strs,
           NEW rdrs \in SUBSET (1..chatGen), chatGen \notin rdrs, NEW kept,
           FinalizeChatTools(res, strs, rdrs, kept)
    PROVE  TurnsInv'
<1>1. turns \in Nat /\ turns <= round + 1 /\ round <= ToolCap /\ round \in Nat
  BY DEF ChatInv, TypeInv, TurnsInv
<1>2. round' = round + 1 /\ park' = 0
  BY DEF FinalizeChatTools, NextRound
<1>3. CASE round + 1 > ToolCap
  <2>1. readers' = rdrs /\ chatBusy' = FALSE /\ chatGen' = chatGen /\ turns' = turns
    BY <1>3 DEF FinalizeChatTools, NextRound
  <2> QED BY <1>2, <2>1 DEF TurnsInv
<1>4. CASE ~(round + 1 > ToolCap)
  <2>1. chatBusy' = TRUE /\ turns' = turns + 1
    BY <1>4 DEF FinalizeChatTools, NextRound, StartChatTurn
  <2> QED BY <1>1, <1>2, <1>4, <2>1, ToolCapAssumption DEF TurnsInv
<1> QED BY <1>3, <1>4

LEMMA TurnsParkResolved ==
    ASSUME ChatInv, TurnsInv, park # 0, thread' = thread, NEW res, NEW kept,
           AfterPark(res, kept)
    PROVE  TurnsInv'
<1>1. ~review /\ chatGen \notin readers /\ readers \in SUBSET (1..chatGen)
  BY DEF ChatInv, TypeInv, StandsStill, ReviewIsAlone
<1>2. CASE parks # {}
  BY <1>1, <1>2, TurnsUndisturbed DEF AfterPark
<1>3. CASE parks = {}
  <2>1. FinalizeChatTools(res, streams, readers, kept) /\ review' = FALSE
    BY <1>1, <1>3 DEF AfterPark, ChatInv, TypeInv
  <2> QED BY <1>1, <2>1, TurnIsCounted
<1> QED BY <1>2, <1>3

LEMMA TurnsToolsDone ==
    ASSUME ChatInv, TurnsInv, chatGen \in readers, thread' = thread, NEW tools, NEW strs,
           HandleChatToolsDone(tools, strs, readers \ {chatGen})
    PROVE  TurnsInv'
<1>1. chatBusy /\ ~review /\ turns <= round + 1 /\ round <= ToolCap
  BY DEF TurnsInv, ChatInv, StandsStill
<1>2. PICK res : res = [i \in DOMAIN tools |-> [call |-> tools[i],
                                               state |-> FirstState(tools[i])]]
  OBVIOUS
<1>3. PICK waiting : waiting = {i \in DOMAIN res : res[i].state = "waiting"}
  OBVIOUS
<1>4. PICK props : props = {i \in DOMAIN res : res[i].state = "proposed"}
  OBVIOUS
<1>5. CASE MustPause(waiting, props)
  <2>1. /\ readers' = readers \ {chatGen} /\ chatBusy' = FALSE
        /\ UNCHANGED <<chatGen, round, turns>>
    BY <1>2, <1>3, <1>4, <1>5 DEF HandleChatToolsDone
  <2> QED BY <1>1, <2>1 DEF TurnsInv
<1>6. CASE ~MustPause(waiting, props)
  <2>1. FinalizeChatTools(res, strs, readers \ {chatGen}, TRUE) /\ review' = review
    BY <1>2, <1>3, <1>4, <1>6 DEF HandleChatToolsDone
  <2>2. readers \ {chatGen} \in SUBSET (1..chatGen) /\ review' = FALSE
    BY <1>1, <2>1 DEF ChatInv, TypeInv
  <2> QED BY <1>1, <2>1, <2>2, TurnIsCounted
<1> QED BY <1>5, <1>6

LEMMA TurnsNextKeeps ==
    ASSUME MaxThreads = 1, ChatInv, TurnsInv, [Next]_vars
    PROVE  TurnsInv'
<1> USE DEF loopVars, subVars, histVars
<1>1. ASSUME NEW g \in 1..MaxGen, StreamStep(g) PROVE TurnsInv'
  BY <1>1, TurnsUndisturbed DEF StreamStep, StreamStarts, StreamSays, StreamEnds
<1>2. ASSUME NEW g \in 1..MaxGen, ChatOutput(g) PROVE TurnsInv'
  <2>1. PICK ev : ev = IF streams[g].out # <<>> THEN Head(streams[g].out) ELSE Done(<<>>)
    OBVIOUS
  <2>2. ev \in EventType /\ thread' = thread /\ g \in readers
    BY <1>2, <2>1, GivenEvent DEF ChatOutput
  <2>3. CASE g # chatGen \/ ev.kind = "delta"
    <3>1. readers' \subseteq readers /\ UNCHANGED <<chatGen, chatBusy, park, review, round, turns>>
      BY <1>2, <2>1, <2>3 DEF ChatOutput
    <3> QED BY <2>2, <3>1, TurnsUndisturbed
  <2>4. CASE g = chatGen /\ (ev.kind = "err" \/ (ev.kind = "done" /\ ev.tools = <<>>))
    <3>1. readers' = readers \ {g} /\ UNCHANGED <<chatGen, park, review, round, turns>>
          /\ chatBusy' = FALSE
      BY <1>2, <2>1, <2>4 DEF ChatOutput
    <3> QED BY <2>2, <2>4, <3>1 DEF TurnsInv
  <2>5. CASE g = chatGen /\ ev.kind = "done" /\ ev.tools # <<>>
    <3>1. PICK strs : HandleChatToolsDone(ev.tools, strs, readers \ {chatGen})
      BY <1>2, <2>1, <2>5 DEF ChatOutput
    <3> QED BY <2>2, <2>5, <3>1, TurnsToolsDone
  <2> QED BY <2>2, <2>3, <2>4, <2>5 DEF EventType
<1>3. CASE AgentRefresh
  <2>1. CASE ParkedOn("SUB_AGENT") /\ subs[park] \in Life!Terminal
    BY <1>3, <2>1, TurnsParkResolved DEF AgentRefresh, ParkedOn
  <2>2. CASE ~(ParkedOn("SUB_AGENT") /\ subs[park] \in Life!Terminal)
    BY <1>3, <2>2, TurnsUndisturbed DEF AgentRefresh
  <2> QED BY <2>1, <2>2
<1>4. CASE SubMoves \/ CloseChat \/ ToggleMode \/ CancelParkedSubAgent \/ ToggleAgentPanel
  BY <1>4, TurnsUndisturbed
     DEF SubMoves, CloseChat, ToggleMode, CancelParkedSubAgent, ToggleAgentPanel
<1>5. CASE ChatSubmit
  <2>1. chatBusy' = TRUE /\ turns' = 1 /\ round' = 0 /\ thread' = thread
    BY <1>5 DEF ChatSubmit, StartChatTurn
  <2> QED BY <2>1, ToolCapAssumption DEF TurnsInv
<1>6. CASE ChatStop
  <2>1. /\ park' = 0 /\ ~review' /\ chatGen' = chatGen + 1 /\ ~chatBusy'
        /\ UNCHANGED <<thread, turns, round, readers>>
    BY <1>6 DEF ChatStop, Unparked
  <2>2. chatGen' \notin readers'
    BY <2>1 DEF ChatInv, TypeInv
  <2> QED BY <2>1, <2>2 DEF TurnsInv
<1>7. ~NewChatThread
  BY DEF NewChatThread, TurnsInv
<1>8. ASSUME NEW yes \in BOOLEAN, FinishChatSwitchMode(yes) PROVE TurnsInv'
  BY <1>8, TurnsParkResolved DEF FinishChatSwitchMode, ParkedOn
<1>9. CASE FinishChatRunConfirm \/ FinishChatAsk
  BY <1>9, TurnsParkResolved DEF FinishChatRunConfirm, FinishChatAsk, ParkedOn
<1>10. ASSUME NEW applied, EndChatReview(applied) PROVE TurnsInv'
  <2>1. /\ review /\ review' = FALSE /\ thread' = thread
        /\ FinalizeChatTools(Amended(applied), streams, readers, TRUE)
    BY <1>10 DEF EndChatReview
  <2>2. chatGen \notin readers /\ readers \in SUBSET (1..chatGen)
    BY <2>1 DEF ChatInv, TypeInv, StandsStill
  <2> QED BY <2>1, <2>2, TurnIsCounted
<1>11. CASE AcceptChatReview \/ RejectChatReview
  BY <1>10, <1>11 DEF AcceptChatReview, RejectChatReview
<1>12. CASE UNCHANGED vars
  BY <1>12, TurnsUndisturbed DEF vars
<1> QED BY <1>1, <1>2, <1>3, <1>4, <1>5, <1>6, <1>7, <1>8, <1>9, <1>11, <1>12 DEF Next, UINext

LEMMA TurnsInitHolds == Init => TurnsInv
BY ToolCapAssumption DEF Init, TurnsInv

\* Whatever the model calls and the user decides, a prompt costs at most
\* ToolCap + 1 turns.
THEOREM TurnsCorrect ==
    ASSUME MaxThreads = 1
    PROVE  Spec => []TurnsAreCapped
<1>1. ChatInv /\ TurnsInv /\ [Next]_vars => TurnsInv'
  BY TurnsNextKeeps
<1>2. TurnsInv => TurnsAreCapped
  BY DEF TurnsInv, TurnsAreCapped
<1> QED BY <1>1, <1>2, TurnsInitHolds, InitHolds, NextKeeps, PTL DEF Spec

\* A chat that was stopped says nothing more.
THEOREM SilenceCorrect ==
    ASSUME MaxThreads = 1
    PROVE  Spec => IdleStaysSilent
<1> USE DEF loopVars, subVars, histVars
<1>1. ASSUME ChatInv, TurnsInv, [Next]_vars, ~chatBusy, ~chatBusy'
      PROVE  reply' \subseteq reply
  <2>1. ASSUME NEW g \in 1..MaxGen, ChatOutput(g) PROVE reply' \subseteq reply
    <3>1. g # chatGen
      BY <1>1, <2>1 DEF ChatOutput, TurnsInv
    <3> QED BY <2>1, <3>1 DEF ChatOutput
  <2>2. ASSUME NEW g \in 1..MaxGen, StreamStep(g) PROVE reply' = reply
    BY <2>2 DEF StreamStep, StreamStarts, StreamSays, StreamEnds
  <2>3. CASE \/ AgentRefresh \/ SubMoves \/ CloseChat \/ ToggleMode
             \/ CancelParkedSubAgent \/ ToggleAgentPanel
    BY <2>3 DEF AgentRefresh, SubMoves, CloseChat, ToggleMode, CancelParkedSubAgent,
                ToggleAgentPanel
  <2>4. CASE ChatSubmit \/ ChatStop \/ NewChatThread
    BY <2>4 DEF ChatSubmit, ChatStop, NewChatThread
  <2>5. CASE \/ \E yes \in BOOLEAN : FinishChatSwitchMode(yes)
             \/ FinishChatRunConfirm \/ FinishChatAsk
    BY <2>5 DEF FinishChatSwitchMode, FinishChatRunConfirm, FinishChatAsk
  <2>6. CASE AcceptChatReview \/ RejectChatReview
    BY <2>6 DEF AcceptChatReview, RejectChatReview, EndChatReview
  <2>7. CASE UNCHANGED vars
    BY <2>7 DEF vars
  <2> QED BY <1>1, <2>1, <2>2, <2>3, <2>4, <2>5, <2>6, <2>7 DEF Next, UINext
<1>2. ChatInv /\ TurnsInv /\ [Next]_vars => TurnsInv'
  BY TurnsNextKeeps
<1>3. ChatInv /\ TurnsInv /\ [Next]_vars => [~chatBusy /\ ~chatBusy' => reply' \subseteq reply]_vars
  BY <1>1
<1> QED BY <1>2, <1>3, TurnsInitHolds, InitHolds, NextKeeps, PTL DEF Spec, IdleStaysSilent
=============================================================================
