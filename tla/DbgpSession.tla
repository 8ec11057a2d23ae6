---------------------------- MODULE DbgpSession ----------------------------
(***************************************************************************)
(* The DBGp client for Xdebug (internal/dbgp): commands that wait for      *)
(* their response, continuation commands that do not and whose response    *)
(* becomes the next stop, the read loop that routes both, and the end of a  *)
(* session from either side.  A call is put into pending and written in two *)
(* steps, so that the connection may go between them.  The engine is        *)
(* external; a document on the wire is a response [id, status].             *)
(***************************************************************************)
EXTENDS Integers, Sequences, FiniteSets

CONSTANTS
    MaxCommands    \* bound of the model: commands sent

ASSUME DbgpBoundsAssumption == MaxCommands \in Nat

VARIABLES
    conn,          \* "up", "lost" by the engine, or "closed" by Close
    engine,        \* "break", "running", "stopping" or "gone"
    docs,          \* documents of the engine the read loop has not read
    sent,          \* Client.nextID
    continuation,  \* Client.continuation
    waiting,       \* Client.pending, the calls that wait
    unwritten,     \* calls whose command is not written yet
    late,          \* history: calls that began after disconnected had failed the others
    events,        \* what onEvent was told, newest last
    emittedExit,   \* Client.emittedExit
    pcmd           \* the step of continueCmd that comes next: "none", "tell" or "send"

callsDbgp == <<waiting, unwritten, late>>
wireDbgp  == <<conn, engine, docs, sent, continuation, callsDbgp>>
eventVars == <<events, emittedExit, pcmd>>
dbgpVars  == <<wireDbgp, eventVars>>

\* StartDebugger has accepted the engine and start has read its <init>.
DbgpInit ==
    /\ conn = "up" /\ engine = "break" /\ docs = <<>> /\ sent = 0
    /\ continuation = {} /\ waiting = {} /\ unwritten = {} /\ late = {}
    /\ events = <<>> /\ emittedExit = FALSE /\ pcmd = "none"

\* event: nothing is told once Close was called.
Told(evs) == events' = IF conn = "closed" THEN events ELSE events \o evs

\* sendText: the socket is closed by Close alone, so a command written to an engine
\* that went may still go out, into nothing, or fail; after Close it fails.
WriteSucceeds == conn # "closed"
WriteFails    == conn # "up" \/ engine = "gone"
-----------------------------------------------------------------------------
(* Continuation commands.                                                  *)

\* continueCmd, for run and the steps, on a goroutine of its own; the panel
\* sends one when it shows a stop.
ContinueCmd ==
    /\ pcmd = "none" /\ sent < MaxCommands
    /\ (events # <<>> => events[Len(events)] = "stopped")
    /\ sent' = sent + 1
    /\ continuation' = continuation \cup {sent + 1}
    /\ pcmd' = "tell"
    /\ UNCHANGED <<conn, engine, docs, callsDbgp, events, emittedExit>>

\* The panel hears of it when the command is out, which the stop may overtake.
TellContinuedAfterSending ==
    /\ pcmd \in {"tell", "told"}
    /\ IF pcmd = "tell"
       THEN /\ pcmd' = "told" /\ conn = "up" /\ engine' = IF engine = "break" THEN "running" ELSE engine
            /\ UNCHANGED <<events, conn, docs, sent, continuation, callsDbgp>>
       ELSE /\ pcmd' = "none" /\ Told(<<"continued">>) /\ UNCHANGED wireDbgp
    /\ UNCHANGED emittedExit

TellContinued ==
    /\ pcmd = "tell" /\ pcmd' = "send"
    /\ Told(<<"continued">>)
    /\ UNCHANGED <<wireDbgp, emittedExit>>

SendContinuation ==
    /\ pcmd = "send" /\ pcmd' = "none"
    /\ \/ /\ WriteSucceeds
          /\ engine' = IF engine = "break" THEN "running" ELSE engine
          /\ UNCHANGED continuation
       \/ WriteFails /\ continuation' = {} /\ UNCHANGED engine
    /\ UNCHANGED <<conn, docs, sent, callsDbgp, events, emittedExit>>
-----------------------------------------------------------------------------
(* Calls.                                                                  *)

CallBeginsUncounted ==
    /\ sent < MaxCommands /\ sent' = sent
    /\ waiting' = waiting \cup {sent + 1} /\ unwritten' = unwritten \cup {sent + 1}
    /\ late' = IF conn = "lost" THEN late \cup {sent + 1} ELSE late
    /\ UNCHANGED <<conn, engine, docs, continuation, eventVars>>

\* call and eval, up to the write: the call is in pending, lost or not.
CallBegins ==
    /\ sent < MaxCommands /\ sent' = sent + 1
    /\ waiting' = waiting \cup {sent + 1} /\ unwritten' = unwritten \cup {sent + 1}
    /\ late' = IF conn = "lost" THEN late \cup {sent + 1} ELSE late
    /\ UNCHANGED <<conn, engine, docs, continuation, eventVars>>

\* The write: a stopped engine answers, dropPending takes back what did not go out.
CallIsWritten ==
    /\ \E i \in unwritten :
         /\ unwritten' = unwritten \ {i}
         /\ \/ /\ WriteSucceeds /\ UNCHANGED waiting
               /\ docs' = IF conn = "up" /\ engine = "break"
                          THEN Append(docs, [id |-> i, status |-> "answer"]) ELSE docs
            \/ WriteFails /\ waiting' = waiting \ {i} /\ UNCHANGED docs
    /\ UNCHANGED <<conn, engine, sent, continuation, late, eventVars>>

\* await gives up after callTimeout.
AwaitTimesOut ==
    /\ \E i \in waiting \ unwritten : waiting' = waiting \ {i}
    /\ UNCHANGED <<conn, engine, docs, sent, continuation, unwritten, late, eventVars>>
-----------------------------------------------------------------------------
(* The engine.                                                             *)

\* A run ends at a breakpoint or with the program, and the response to its
\* command says which.
EngineStops ==
    /\ conn = "up" /\ engine = "running"
    /\ engine' \in {"break", "stopping"}
    /\ \E i \in continuation : docs' = Append(docs, [id |-> i, status |-> engine'])
    /\ UNCHANGED <<conn, sent, continuation, callsDbgp, eventVars>>

EngineGoes ==
    /\ conn = "up" /\ engine # "gone" /\ engine' = "gone"
    /\ UNCHANGED <<conn, docs, sent, continuation, callsDbgp, eventVars>>
-----------------------------------------------------------------------------
(* The read loop.                                                          *)

HandleContinuationAgain(status) ==
    IF status = "break" THEN Told(<<"stopped">>) /\ UNCHANGED emittedExit
    ELSE Told(<<"exited", "terminated">>) /\ UNCHANGED emittedExit

\* handleContinuation: the end of the program is announced here, once.
HandleContinuation(status) ==
    IF status = "break" THEN Told(<<"stopped">>) /\ UNCHANGED emittedExit
    ELSE /\ emittedExit' = TRUE
         /\ Told(IF emittedExit THEN <<"terminated">> ELSE <<"exited", "terminated">>)

RouteResponse ==
    /\ conn = "up" /\ docs # <<>> /\ docs' = Tail(docs)
    /\ LET d == Head(docs)
       IN  /\ continuation' = continuation \ {d.id}
           /\ waiting' = waiting \ {d.id}
           /\ IF d.id \in continuation THEN HandleContinuation(d.status)
              ELSE UNCHANGED <<events, emittedExit>>
    /\ UNCHANGED <<conn, engine, sent, unwritten, late, pcmd>>

DisconnectedLeavingCalls ==
    /\ conn = "up" /\ engine = "gone" /\ docs = <<>>
    /\ conn' = "lost"
    /\ emittedExit' = TRUE
    /\ events' = IF emittedExit THEN events ELSE events \o <<"exited", "disconnected">>
    /\ UNCHANGED <<engine, docs, sent, continuation, callsDbgp, pcmd>>

\* disconnected: every call that waits fails; a program that has not ended is
\* reported ended and the session lost.  The socket is left open.
Disconnected ==
    /\ conn = "up" /\ engine = "gone" /\ docs = <<>>
    /\ conn' = "lost"
    /\ waiting' = {}
    /\ emittedExit' = TRUE
    /\ events' = IF emittedExit THEN events ELSE events \o <<"exited", "disconnected">>
    /\ UNCHANGED <<engine, docs, sent, continuation, unwritten, late, pcmd>>

\* Close: nothing is failed, the calls that wait run into their timeout.
CloseDbgp ==
    /\ conn # "closed" /\ conn' = "closed" /\ engine' = "gone"
    /\ UNCHANGED <<docs, sent, continuation, callsDbgp, eventVars>>
DbgpNext ==
    \/ ContinueCmd \/ TellContinued \/ SendContinuation
    \/ CallBegins \/ CallIsWritten \/ AwaitTimesOut
    \/ EngineStops \/ EngineGoes \/ RouteResponse \/ Disconnected \/ CloseDbgp

DbgpSpec == DbgpInit /\ [][DbgpNext]_dbgpVars
-----------------------------------------------------------------------------
Times(k) == Cardinality({i \in 1..Len(events) : events[i] = k})

DbgpTypeOK ==
    /\ conn \in {"up", "lost", "closed"}
    /\ engine \in {"break", "running", "stopping", "gone"}
    /\ sent <= MaxCommands /\ waiting \cup unwritten \cup late \cup continuation \subseteq 1..sent

\* The last event says what the engine does: while the connection is up and no
\* response is to come, a stopped engine was last reported stopped, and not that it
\* goes on.
EventsTellTheEngine ==
    /\ conn = "up" /\ docs = <<>> /\ pcmd = "none" /\ events # <<>>
    => events[Len(events)] =
         CASE engine = "break" -> "stopped" [] engine = "running" -> "continued"
           [] engine = "stopping" -> "terminated" [] OTHER -> events[Len(events)]

\* The program exits once, and a session that ended is not lost afterwards.
EndsOnce ==
    /\ Times("exited") <= 1
    /\ Times("terminated") > 0 => Times("disconnected") = 0

\* The engine going away leaves none of the calls waiting that had begun, written or
\* not: only a call that began after the loss may wait.
LostCallsFail == conn = "lost" => waiting \subseteq late

\* What the code does not give: a call that began after the loss, and whose command
\* still went into the socket, waits out its 60 seconds.
NoCallWaitsForTheLost == conn = "lost" => waiting \subseteq unwritten

\* The client is told what the engine does, its end once, and the loss of the engine
\* fails every call that had begun.
DbgpIsSound == EventsTellTheEngine /\ EndsOnce /\ LostCallsFail
=============================================================================
