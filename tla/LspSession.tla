----------------------------- MODULE LspSession -----------------------------
(***************************************************************************)
(* The language-server client (internal/lsp) and its use by the editor     *)
(* (editor/lsp.go, editor/m10.go): the lazily started server, the          *)
(* goroutines that wait for the handshake, open and change the document    *)
(* and then ask, the read loop that hands the answers out, and the UI that *)
(* applies them.                                                           *)
(*                                                                         *)
(* A server started by ensureLSP is a generation; a goroutine keeps the    *)
(* client it was started with.  Texts are left out: who is told, in which  *)
(* order and under which version is what counts.  The server is external:  *)
(* it answers what it was asked in any order, may ask the editor something *)
(* itself, may stop reading what it is sent, and may die.                  *)
(***************************************************************************)
EXTENDS Naturals, FiniteSets

CONSTANTS
    LspDocs,     \* the files with a tab that a server covers
    LspCalls,    \* the requests the user makes
    KindsOf,     \* what each may be: "lookup", "layout", "rename"
    MaxServers,  \* bound of the model: servers started
    MaxAsked,    \* bound of the model: requests of a server to the editor
    Unanswered, Closed,  \* what a channel holds before an answer, and after its end
    TheServer    \* the sender of a request of the server, which carries an id too

ASSUME LspBoundsAssumption ==
    /\ MaxServers \in Nat /\ MaxAsked \in Nat
    /\ KindsOf \in [LspCalls -> SUBSET {"lookup", "layout", "rename"}]
    /\ LspDocs \cap {"none", "exit"} = {}

VARIABLES
    lspClient,  \* the client the editor holds, 0 for nil
    server,     \* per generation: "unstarted", "up", "died" or "killed"
    initDone,   \* the generations whose handshake ended: initDone is closed
    lspDead,    \* Client.dead: the read loop of the generation ended
    opened,     \* Client.opened
    versions,   \* Client.versions
    nextID,     \* Client.nextID
    pending,    \* Client.pending: [id, for], the goroutine that made the channel
    answer,     \* what a goroutine's channel holds: who it answers, or "closed"
    routine,    \* the goroutines: [at, gen, kind, doc, id, ver, got]
    seen,       \* what a server got of a document: [opens, vers]
    early,      \* history: the generations written to before their handshake ended
    twice,      \* history: a version number was sent twice
    asked,      \* requests a server has not answered: [id, for]
    replies,    \* what a server wrote and the read loop has not read
    questions,  \* requests a server made to the editor, for the bound
    deaf,       \* servers that read no more: a writer holds writeMu for ever
    uiWaits,    \* the write the UI thread waits with: [gen, doc, ver], or NoWrite
    crashed     \* the UI called a method of a nil client

clientVars == <<initDone, lspDead, opened, versions, nextID, pending>>
serverVars == <<asked, replies, questions, deaf>>
wireVars   == <<seen, early, twice>>
lspUIVars  == <<lspClient, uiWaits, crashed>>
lspVars    == <<clientVars, serverVars, wireVars, lspUIVars, server, answer, routine>>

Gens     == 1..MaxServers
\* Start runs initialize, and ensureLSP an EnsureOpened, in goroutines of their own.
InitOf(g)   == <<"initialize", g>>
OpenerOf(g) == <<"opener", g>>
Routines == LspCalls \cup {InitOf(g) : g \in Gens} \cup {OpenerOf(g) : g \in Gens}

\* No goroutine is mistaken for an empty channel.
ASSUME LspChannelsAssumption == Unanswered \notin Routines \cup {Closed, TheServer}

LspIdle == [at |-> "idle", gen |-> 0, kind |-> "none", doc |-> "none",
         id |-> 0, ver |-> 0, got |-> Unanswered]
NoWrite == [gen |-> 0, doc |-> "none", ver |-> 0]

LspInit ==
    /\ lspClient = 0 /\ uiWaits = NoWrite /\ crashed = FALSE
    /\ server = [g \in Gens |-> "unstarted"]
    /\ initDone = {} /\ lspDead = {} /\ early = {} /\ twice = {}
    /\ opened = [g \in Gens |-> {}]
    /\ versions = [g \in Gens |-> [d \in LspDocs |-> 0]]
    /\ nextID = [g \in Gens |-> 0]
    /\ pending = [g \in Gens |-> {}]
    /\ answer = [r \in Routines |-> Unanswered]
    /\ routine = [r \in Routines |-> LspIdle]
    /\ seen = [g \in Gens |-> [d \in LspDocs |-> [opens |-> 0, vers |-> {}]]]
    /\ asked = [g \in Gens |-> {}]
    /\ replies = [g \in Gens |-> {}]
    /\ questions = 0 /\ deaf = {}

GateAlwaysOpen(g) == TRUE

\* select { case <-c.initDone: ... case <-time.After(callTimeout): ... }: a gate
\* can be passed once the handshake ended, and given up until then.
GateOpen(g) == g \in initDone
\* A write reaches a server whose pipe has a reader.
Reaches(g)  == server[g] = "up"
\* Write has no deadline: the writer whose bytes fill the pipe of a server that
\* reads no more holds writeMu while the server lives, and all others wait for it.
Stuck(g)    == g \in deaf /\ Reaches(g)

Goto(r, where) == routine' = [routine EXCEPT ![r].at = where]
\* What a gated message does to the history when it is written.
NoteWrite(g) == early' = IF Reaches(g) /\ g \notin initDone THEN early \cup {g} ELSE early
-----------------------------------------------------------------------------
(* The goroutine of a request.                                             *)

\* What follows EnsureOpened: the cursor's requests send the text of the
\* buffer, layout, fixes and the outline do not.
AfterOpen(kind) ==
    CASE kind = "lookup" -> "bump"
      [] kind = "layout" -> "call"
      [] kind = "opener" -> "over"

EnsureOpenedAgain(r) ==
    LET g == routine[r].gen
        d == routine[r].doc
    IN  /\ routine[r].at = "open"
        /\ \/ /\ GateOpen(g)
              /\ IF Reaches(g)
                 THEN /\ opened' = [opened EXCEPT ![g] = @ \cup {d}]
                      /\ seen' = [seen EXCEPT ![g][d].opens = @ + 1]
                      /\ NoteWrite(g)
                 ELSE UNCHANGED <<opened, seen, early>>
           \/ UNCHANGED <<opened, seen, early>>
        /\ Goto(r, AfterOpen(routine[r].kind))
        /\ UNCHANGED <<initDone, lspDead, versions, nextID, pending, serverVars, lspUIVars,
                       server, answer, twice>>

\* EnsureOpened: under writeMu a document is opened unless it is, and marked
\* when the write succeeded.
EnsureOpened(r) ==
    LET g == routine[r].gen
        d == routine[r].doc
    IN  /\ routine[r].at = "open"
        /\ \/ /\ GateOpen(g) /\ ~Stuck(g)
              /\ IF d \notin opened[g] /\ Reaches(g)
                 THEN /\ opened' = [opened EXCEPT ![g] = @ \cup {d}]
                      /\ seen' = [seen EXCEPT ![g][d].opens = @ + 1]
                      /\ NoteWrite(g)
                 ELSE UNCHANGED <<opened, seen, early>>
           \/ ~GateOpen(g) /\ UNCHANGED <<opened, seen, early>>
        /\ Goto(r, AfterOpen(routine[r].kind))
        /\ UNCHANGED <<initDone, lspDead, versions, nextID, pending, serverVars, lspUIVars,
                       server, answer, twice>>

DidChangeOfTheVersionRead(r) ==
    LET g == routine[r].gen
        d == routine[r].doc
    IN  /\ routine[r].at = "bump"
        /\ routine' = [routine EXCEPT ![r].ver = versions[g][d] + 1, ![r].at = "change"]
        /\ UNCHANGED <<initDone, lspDead, opened, versions, nextID, pending, serverVars, wireVars,
                       lspUIVars, server, answer>>

\* DidChange takes the next version of the document under mu.
DidChangeBump(r) ==
    LET g == routine[r].gen
        d == routine[r].doc
    IN  /\ routine[r].at = "bump"
        /\ versions' = [versions EXCEPT ![g][d] = @ + 1]
        /\ routine' = [routine EXCEPT ![r].ver = versions'[g][d], ![r].at = "change"]
        /\ UNCHANGED <<initDone, lspDead, opened, nextID, pending, serverVars, wireVars, lspUIVars,
                       server, answer>>

\* notify of textDocument/didChange, another hold of writeMu.
WriteChange(g, d, v) ==
    IF Reaches(g)
    THEN /\ seen' = [seen EXCEPT ![g][d].vers = @ \cup {v}]
         /\ twice' = IF v \in seen[g][d].vers THEN twice \cup {g} ELSE twice
         /\ NoteWrite(g)
    ELSE UNCHANGED wireVars

DidChangeWrite(r) ==
    LET me == routine[r]
    IN  /\ me.at = "change"
        /\ \/ GateOpen(me.gen) /\ ~Stuck(me.gen) /\ WriteChange(me.gen, me.doc, me.ver)
           \/ ~GateOpen(me.gen) /\ UNCHANGED wireVars
        /\ Goto(r, "call")
        /\ UNCHANGED <<clientVars, serverVars, lspUIVars, server, answer>>

\* The number of the calls that wait taken for the next id.
CallRegisterByCount(r) ==
    LET g == routine[r].gen
        n == Cardinality(pending[g]) + 1
    IN  /\ routine[r].at = "call"
        /\ \/ /\ GateOpen(g) \/ routine[r].kind = "initialize"
              /\ nextID' = [nextID EXCEPT ![g] = @ + 1]
              /\ pending' = [pending EXCEPT ![g] = @ \cup {[id |-> n, for |-> r]}]
              /\ routine' = [routine EXCEPT ![r].id = n, ![r].at = "write"]
           \/ /\ routine[r].kind # "initialize"
              /\ Goto(r, "over")
              /\ UNCHANGED <<nextID, pending>>
        /\ UNCHANGED <<initDone, lspDead, opened, versions, serverVars, wireVars, lspUIVars,
                       server, answer>>

CallRegisterBeforeCounting(r) ==
    LET g == routine[r].gen
        n == nextID[g]
    IN  /\ routine[r].at = "call"
        /\ \/ /\ GateOpen(g) \/ routine[r].kind = "initialize"
              /\ nextID' = [nextID EXCEPT ![g] = n + 1]
              /\ pending' = [pending EXCEPT ![g] = @ \cup {[id |-> n, for |-> r]}]
              /\ routine' = [routine EXCEPT ![r].id = n, ![r].at = "write"]
           \/ /\ routine[r].kind # "initialize"
              /\ Goto(r, "over")
              /\ UNCHANGED <<nextID, pending>>
        /\ UNCHANGED <<initDone, lspDead, opened, versions, serverVars, wireVars, lspUIVars,
                       server, answer>>

\* call waits for the handshake, unless it is the handshake, makes a channel and
\* puts it into the map before it writes.
CallRegister(r) ==
    LET g == routine[r].gen
        n == nextID[g] + 1
    IN  /\ routine[r].at = "call"
        /\ \/ /\ GateOpen(g) \/ routine[r].kind = "initialize"
              /\ nextID' = [nextID EXCEPT ![g] = n]
              /\ pending' = [pending EXCEPT ![g] = @ \cup {[id |-> n, for |-> r]}]
              /\ routine' = [routine EXCEPT ![r].id = n, ![r].at = "write"]
           \/ /\ routine[r].kind # "initialize" /\ ~GateOpen(g)
              /\ Goto(r, "over")
              /\ UNCHANGED <<nextID, pending>>
        /\ UNCHANGED <<initDone, lspDead, opened, versions, serverVars, wireVars, lspUIVars,
                       server, answer>>

\* initialize tells the server it is initialized and lets the others go,
\* whatever came of its call.
Leave(r, got) ==
    /\ routine[r].kind = "initialize" => ~Stuck(routine[r].gen)
    /\ routine' = [routine EXCEPT ![r].at = "over", ![r].got = got]
    /\ initDone' = IF routine[r].kind = "initialize" THEN initDone \cup {routine[r].gen}
                   ELSE initDone

CallWrite(r) ==
    LET g == routine[r].gen
    IN  /\ routine[r].at = "write" /\ ~Stuck(g)
        /\ IF Reaches(g)
           THEN /\ asked' = [asked EXCEPT ![g] = @ \cup {[id |-> routine[r].id, for |-> r]}]
                /\ Goto(r, "wait") /\ UNCHANGED initDone
                /\ IF routine[r].kind = "initialize" THEN UNCHANGED early ELSE NoteWrite(g)
           ELSE Leave(r, Unanswered) /\ UNCHANGED <<asked, early>>
        /\ UNCHANGED <<lspDead, opened, versions, nextID, pending, replies, questions, deaf,
                       seen, twice, lspUIVars, server, answer>>

\* No callTimeout.
CallReturnOnAnswer(r) ==
    /\ routine[r].at = "wait" /\ answer[r] # Unanswered
    /\ Leave(r, answer[r])
    /\ UNCHANGED <<lspDead, opened, versions, nextID, pending, serverVars, wireVars, lspUIVars,
                   server, answer>>

\* call returns with what the channel holds, or after callTimeout; the entry
\* of a call that gave up stays in the map.
CallReturn(r) ==
    /\ routine[r].at = "wait"
    /\ \E got \in {answer[r], Unanswered} : Leave(r, got)
    /\ UNCHANGED <<lspDead, opened, versions, nextID, pending, serverVars, wireVars, lspUIVars,
                   server, answer>>
-----------------------------------------------------------------------------
(* The read loop, and the server at the other end.                         *)

\* readLoop: whatever carries an id is an answer, also a request of the server.
ReadReply ==
    \E g \in Gens : \E m \in replies[g] :
        LET hit == {p \in pending[g] : p.id = m.id}
        IN  /\ g \notin lspDead /\ server[g] # "killed"
            /\ replies' = [replies EXCEPT ![g] = @ \ {m}]
            /\ pending' = [pending EXCEPT ![g] = @ \ hit]
            /\ answer' = [r \in Routines |->
                            IF \E p \in hit : p.for = r THEN m.for ELSE answer[r]]
            /\ UNCHANGED <<initDone, lspDead, opened, versions, nextID, asked, questions, deaf,
                           wireVars, lspUIVars, server, routine>>

\* The map is emptied and nobody is told.
ClosePendingSilently ==
    \E g \in Gens \ lspDead :
        /\ server[g] = "killed" \/ (server[g] = "died" /\ replies[g] = {})
        /\ lspDead' = lspDead \cup {g}
        /\ pending' = [pending EXCEPT ![g] = {}]
        /\ UNCHANGED <<initDone, opened, versions, nextID, serverVars, wireVars, lspUIVars,
                       server, answer, routine>>

\* readLoop hits the end of the stream: closePending.
ClosePending ==
    \E g \in Gens \ lspDead :
        /\ server[g] = "killed" \/ (server[g] = "died" /\ replies[g] = {})
        /\ lspDead' = lspDead \cup {g}
        /\ answer' = [r \in Routines |->
                        IF \E p \in pending[g] : p.for = r THEN Closed ELSE answer[r]]
        /\ pending' = [pending EXCEPT ![g] = {}]
        /\ UNCHANGED <<initDone, opened, versions, nextID, serverVars, wireVars, lspUIVars,
                       server, routine>>

ServerAnswers ==
    \E g \in Gens : \E q \in asked[g] :
        /\ server[g] = "up"
        /\ asked' = [asked EXCEPT ![g] = @ \ {q}]
        /\ replies' = [replies EXCEPT ![g] = @ \cup {q}]
        /\ UNCHANGED <<clientVars, questions, deaf, wireVars, lspUIVars, server, answer,
                       routine>>

\* A server numbers its own requests, and the numbers are small like ours.
ServerAsks ==
    \E g \in Gens : \E n \in 1..2 :
        /\ server[g] = "up" /\ questions < MaxAsked
        /\ questions' = questions + 1
        /\ replies' = [replies EXCEPT ![g] = @ \cup {[id |-> n, for |-> TheServer]}]
        /\ UNCHANGED <<clientVars, asked, deaf, wireVars, lspUIVars, server, answer, routine>>

\* A server that goes on reading later was slow, which a write waits for anyway.
ServerStopsReading ==
    \E g \in Gens \ deaf :
        /\ server[g] = "up"
        /\ deaf' = deaf \cup {g}
        /\ UNCHANGED <<clientVars, asked, replies, questions, wireVars, lspUIVars, server,
                       answer, routine>>

ServerDies ==
    \E g \in Gens :
        /\ server[g] = "up"
        /\ server' = [server EXCEPT ![g] = "died"]
        /\ UNCHANGED <<clientVars, serverVars, wireVars, lspUIVars, answer, routine>>
-----------------------------------------------------------------------------
(* The UI.                                                                 *)

UIRuns == uiWaits = NoWrite /\ ~crashed

Spawned(g, kind, where, d) ==
    [LspIdle EXCEPT !.at = where, !.gen = g, !.kind = kind, !.doc = d]

Entry(kind) == IF kind = "rename" THEN "call" ELSE "open"

\* ensureLSP with no client: a server is started, with the goroutines for its
\* handshake and for the document on screen.
EnsureLSP(g, d, r, kind) ==
    /\ server[g] = "unstarted" /\ \A h \in 1..(g - 1) : server[h] # "unstarted"
    /\ server' = [server EXCEPT ![g] = "up"]
    /\ lspClient' = g
    /\ routine' = [routine EXCEPT
            ![InitOf(g)]   = Spawned(g, "initialize", "call", d),
            ![OpenerOf(g)] = Spawned(g, "opener", "open", d),
            ![r]           = Spawned(g, kind, Entry(kind), d)]

\* A command asks for a server only when the editor holds no client.
Request(r, kind, d) ==
    /\ UIRuns /\ routine[r].at = "idle" /\ kind \in KindsOf[r]
    /\ \/ /\ lspClient = 0
          /\ \E g \in Gens : EnsureLSP(g, d, r, kind)
       \/ /\ lspClient # 0
          /\ routine' = [routine EXCEPT ![r] = Spawned(lspClient, kind, Entry(kind), d)]
          /\ UNCHANGED <<server, lspClient>>
    /\ UNCHANGED <<clientVars, serverVars, wireVars, uiWaits, crashed, answer>>

\* The commands about the document on screen.
LspCompletionCmd(r, d) == Request(r, "lookup", d)
GotoDefinition(r, d)   == Request(r, "lookup", d)
StartHover(r, d)       == Request(r, "lookup", d)
StartRefs(r, d)        == Request(r, "lookup", d)
LspFormat(r, d)        == Request(r, "layout", d)
StartLspActions(r, d)  == Request(r, "layout", d)
StartOutline(r, d)     == Request(r, "layout", d)
StartLspRename(r, d)   == Request(r, "rename", d)

Ask(r, d) ==
    \/ LspCompletionCmd(r, d) \/ GotoDefinition(r, d) \/ StartHover(r, d) \/ StartRefs(r, d)
    \/ LspFormat(r, d) \/ StartLspActions(r, d) \/ StartOutline(r, d) \/ StartLspRename(r, d)

\* Close kills the process and shuts the pipes.
LspClosed(g) == server' = [server EXCEPT ![g] = "killed"] /\ lspClient' = 0

\* restartLSP: Close writes "exit" first, and that has to get writeMu.
RestartLSP ==
    /\ UIRuns /\ lspClient # 0
    /\ \/ ~Stuck(lspClient) /\ LspClosed(lspClient) /\ UNCHANGED uiWaits
       \/ /\ Stuck(lspClient)
          /\ uiWaits' = [gen |-> lspClient, doc |-> "exit", ver |-> 0]
          /\ UNCHANGED <<server, lspClient>>
    /\ UNCHANGED <<clientVars, serverVars, wireVars, crashed, answer, routine>>

\* The UI thread writes at once, or waits at the gate or for writeMu.
WritesAtOnce(g) == GateOpen(g) /\ ~Stuck(g)

\* FileChangedMsg: a server that is alive hears of it, from the UI thread.
DidChangeWatchedFiles ==
    /\ UIRuns /\ lspClient # 0 /\ lspClient \notin lspDead
    /\ uiWaits' = IF WritesAtOnce(lspClient) THEN NoWrite
                  ELSE [NoWrite EXCEPT !.gen = lspClient]
    /\ UNCHANGED <<clientVars, serverVars, wireVars, lspClient, crashed,
                   server, answer, routine>>

\* applyWorkspaceEdit changes the buffer of a tab and then tells the client the
\* editor holds now: a nil one crashes, one in its handshake or that does not read
\* keeps the UI waiting.
ApplyWorkspaceEdit(d) ==
    LET g == lspClient
        v == versions[g][d] + 1
    IN  IF g = 0
        THEN crashed' = TRUE /\ UNCHANGED <<versions, wireVars, uiWaits>>
        ELSE /\ versions' = [versions EXCEPT ![g][d] = v]
             /\ IF WritesAtOnce(g)
                THEN WriteChange(g, d, v) /\ UNCHANGED uiWaits
                ELSE uiWaits' = [gen |-> g, doc |-> d, ver |-> v] /\ UNCHANGED wireVars
             /\ UNCHANGED crashed

\* The message of an ended request is handled.  The edits of a layout are for
\* its document, those of a rename for any; the others only open a panel.
LspDeliver(r) ==
    /\ UIRuns /\ routine[r].at = "over"
    /\ Goto(r, "handled")
    /\ \/ /\ routine[r].got = r /\ routine[r].kind \in {"layout", "rename"}
          /\ \E d \in LspDocs :
               /\ routine[r].kind = "layout" => d = routine[r].doc
               /\ ApplyWorkspaceEdit(d)
       \/ UNCHANGED <<versions, wireVars, uiWaits, crashed>>
    /\ UNCHANGED <<initDone, lspDead, opened, nextID, pending, serverVars, lspClient,
                   server, answer>>

\* The write waits for a server that takes it.
UIWriteEndsOnALiveServer ==
    /\ uiWaits # NoWrite /\ WritesAtOnce(uiWaits.gen) /\ Reaches(uiWaits.gen)
    /\ uiWaits' = NoWrite
    /\ IF uiWaits.doc \in LspDocs THEN WriteChange(uiWaits.gen, uiWaits.doc, uiWaits.ver)
       ELSE UNCHANGED wireVars
    /\ UNCHANGED <<clientVars, serverVars, lspClient, crashed,
                   server, answer, routine>>

\* The write of the UI thread goes out, is given up at the gate after callTimeout,
\* or is the last one of Close.
UIWriteEnds ==
    LET g == uiWaits.gen
    IN  /\ uiWaits # NoWrite
        /\ uiWaits' = NoWrite
        /\ \/ /\ uiWaits.doc # "exit" /\ ~GateOpen(g)
              /\ UNCHANGED <<wireVars, server, lspClient>>
           \/ /\ uiWaits.doc # "exit" /\ WritesAtOnce(g)
              /\ IF uiWaits.doc \in LspDocs THEN WriteChange(g, uiWaits.doc, uiWaits.ver)
                 ELSE UNCHANGED wireVars
              /\ UNCHANGED <<server, lspClient>>
           \/ uiWaits.doc = "exit" /\ ~Stuck(g) /\ LspClosed(g) /\ UNCHANGED wireVars
        /\ UNCHANGED <<clientVars, serverVars, crashed, answer, routine>>
-----------------------------------------------------------------------------
RoutineStep(r) ==
    \/ EnsureOpened(r) \/ DidChangeBump(r) \/ DidChangeWrite(r)
    \/ CallRegister(r) \/ CallWrite(r) \/ CallReturn(r)

LspNext ==
    \/ \E r \in Routines : RoutineStep(r)
    \/ ReadReply \/ ClosePending
    \/ ServerAnswers \/ ServerAsks \/ ServerStopsReading \/ ServerDies
    \/ \E r \in LspCalls, d \in LspDocs : Ask(r, d)
    \/ RestartLSP \/ DidChangeWatchedFiles \/ UIWriteEnds
    \/ \E r \in LspCalls : LspDeliver(r)

LspSpec == LspInit /\ [][LspNext]_lspVars

\* Goroutines run, the read loop reads, and timers fire.  Nothing makes a server read:
\* a write to one that does not is not enabled.
LspFairness ==
    /\ \A r \in Routines : WF_lspVars(RoutineStep(r))
    /\ WF_lspVars(ReadReply) /\ WF_lspVars(ClosePending) /\ WF_lspVars(UIWriteEnds)
-----------------------------------------------------------------------------
LspTypeOK ==
    /\ lspClient \in 0..MaxServers
    /\ server \in [Gens -> {"unstarted", "up", "died", "killed"}]
    /\ initDone \subseteq Gens /\ lspDead \subseteq Gens
    /\ early \subseteq Gens /\ twice \subseteq Gens /\ deaf \subseteq Gens
    /\ opened \in [Gens -> SUBSET LspDocs]
    /\ versions \in [Gens -> [LspDocs -> Nat]]
    /\ nextID \in [Gens -> Nat]
    /\ \A g \in Gens : \A p \in pending[g] \cup asked[g] : p.id \in 1..nextID[g] /\ p.for \in Routines
    /\ answer \in [Routines -> Routines \cup {Unanswered, Closed, TheServer}]
    /\ crashed \in BOOLEAN

\* Whoever holds a channel, the read loop puts nothing into it but the answer to
\* the call that made it, an empty one, or its end: never another call's answer.
AnswersReachTheirCall ==
    \A r \in Routines : answer[r] \in {Unanswered, Closed, TheServer, r}

\* Once the read loop has ended, no call waits for an answer that cannot come:
\* callers error out promptly instead of draining the timeout.
NobodyWaitsOnTheDead ==
    \A r \in Routines :
        routine[r].at = "wait" /\ routine[r].gen \in lspDead => answer[r] # Unanswered

\* However many goroutines race to open a document, a server gets it once.
OpenedOnce == \A g \in Gens, d \in LspDocs : seen[g][d].opens <= 1

\* No document and no request is written before the handshake ended.
NothingBeforeHandshake == early = {}

\* No two changes of a document go to a server under one version, whichever of the
\* goroutines and of the UI counts first and writes first.
VersionsAreUnique == twice = {}

\* Versions bump monotonically per document; a server ignores changes that do not
\* follow the last version it saw.  The number is taken under mu and written under
\* writeMu: two goroutines swap, and this does not hold.
VersionsAreInOrder ==
    [][\A g \in Gens, d \in LspDocs : \A v \in seen'[g][d].vers \ seen[g][d].vers :
           \A w \in seen[g][d].vers : w < v]_lspVars

\* A request that was made is answered, refused or given up, unless its server lives
\* on and does not read what it is sent.
RequestsEnd ==
    \A r \in LspCalls :
        routine[r].at # "idle" ~>
            \/ routine[r].at \in {"over", "handled"}
            \/ []Stuck(routine[r].gen)

\* A write the UI waits for does not hold it for ever, unless the server lives on and
\* does not read.
UIReturns == uiWaits # NoWrite ~> uiWaits = NoWrite \/ []Stuck(uiWaits.gen)

\* However goroutines, answers, timeouts and deaths of the server interleave, calls
\* get their own answer or an end, and the server each document opened once, after
\* the handshake, and no two changes of it under one number.
LspIsSound ==
    /\ AnswersReachTheirCall /\ NobodyWaitsOnTheDead
    /\ OpenedOnce /\ NothingBeforeHandshake /\ VersionsAreUnique
=============================================================================
