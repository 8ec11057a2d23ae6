----------------------------- MODULE DapSession -----------------------------
(***************************************************************************)
(* A debug session: the adapter's client (dap/dap.go), the commands that   *)
(* start it, launch the program, step and fetch the stack on goroutines of *)
(* their own, and the handlers of their messages (editor/dap.go,           *)
(* editor.go).  A session is known by its generation dapGen; events reach  *)
(* the UI through one channel of limited size, in order, the results of    *)
(* commands each on its own.  Adapter and program are external.            *)
(***************************************************************************)
EXTENDS Integers, Sequences, FiniteSets

CONSTANTS
    MaxSessions,  \* bound of the model: generations
    MaxStops,     \* bound of the model: stops of a program
    MaxUnderWay,  \* bound of the model: commands under way when a key adds one
    DapQueue      \* the size of dapCh

ASSUME DapBoundsAssumption ==
    MaxSessions \in Nat /\ MaxStops \in Nat /\ MaxUnderWay \in Nat /\ DapQueue \in Nat \ {0}

VARIABLES
    dapGen, dapClient, dapRunState, dapBusy,  \* as in Model; a client is its generation
    dapFrames,    \* the stop whose frames are shown: [gen, n], or NoStop
    dapCur,       \* the stop the marker is at, or NoStop
    follow,       \* dapFollowPending
    dapCh,        \* the events in the channel: [kind, gen, n]
    inFlight,     \* commands that run: [kind, gen, n, cl]
    results,      \* their messages on the way to the UI: [kind, gen, n, cl, ok]
    adapter,      \* per generation: "none", "up", "gone" or "closed"
    program,      \* per generation: "none", "running", "stopped", "ended"
    stops         \* per generation, how often the program stopped

panelVars   == <<dapGen, dapClient, dapRunState, dapBusy, dapFrames, dapCur, follow>>
backendVars == <<adapter, program, stops>>
dapVars     == <<panelVars, backendVars, dapCh, inFlight, results>>

Sessions == 1..MaxSessions
NoStop   == [gen |-> 0, n |-> 0]
Cmd(kind, gen, cl) == [kind |-> kind, gen |-> gen, cl |-> cl]
Result(c, ok, n)   == [kind |-> c.kind, gen |-> c.gen, cl |-> c.cl, ok |-> ok, n |-> n]

DapInit ==
    /\ dapGen = 0 /\ dapClient = 0 /\ dapRunState = "idle" /\ dapBusy = FALSE
    /\ dapFrames = NoStop /\ dapCur = NoStop /\ follow = FALSE
    /\ dapCh = <<>> /\ inFlight = {} /\ results = {}
    /\ adapter = [g \in Sessions |-> "none"]
    /\ program = [g \in Sessions |-> "none"]
    /\ stops = [g \in Sessions |-> 0]

EmitUnbounded(kind, g) ==
    dapCh' = Append(dapCh, [kind |-> kind, gen |-> g, n |-> stops'[g]])

\* onEvent of dapStartCmd: an event that finds the channel full is dropped.
Emit(kind, g) ==
    dapCh' = IF Len(dapCh) < DapQueue
             THEN Append(dapCh, [kind |-> kind, gen |-> g, n |-> stops'[g]]) ELSE dapCh

\* Close: disconnect, and the adapter is killed.
AdapterClosed(g) == [adapter EXCEPT ![g] = IF @ = "up" THEN "closed" ELSE @]
-----------------------------------------------------------------------------
(* Keys.                                                                   *)

Room == Cardinality(inFlight) + Cardinality(results) < MaxUnderWay

\* dapStepCmd: no client, no command.
DapStep(op) ==
    Room /\ inFlight' = IF dapClient = 0 THEN inFlight
                ELSE inFlight \cup {Cmd(op, dapGen, dapClient)}

\* dapRelease forgets the session, and closes its adapter from a goroutine.
DapRelease ==
    /\ dapClient' = 0 /\ dapFrames' = NoStop /\ dapCur' = NoStop
    /\ inFlight' = IF dapClient = 0 THEN inFlight
                   ELSE inFlight \cup {Cmd("close", dapGen, dapClient)}

\* F5: go on, interrupt, or start anew.
StartDebugging ==
    /\ \/ /\ dapRunState = "stop" /\ DapStep("continue")
          /\ UNCHANGED panelVars
       \/ /\ dapRunState = "run" /\ DapStep("pause")
          /\ UNCHANGED panelVars
       \/ /\ dapRunState \notin {"stop", "run"}
          /\ ~dapBusy /\ (dapClient = 0 \/ dapRunState = "end")
          /\ dapGen < MaxSessions
          /\ dapGen' = dapGen + 1
          /\ dapRunState' = "launch" /\ dapBusy' = TRUE
          /\ IF dapClient # 0
             THEN /\ dapClient' = 0 /\ dapFrames' = NoStop /\ dapCur' = NoStop
                  /\ inFlight' = inFlight \cup {Cmd("close", dapGen, dapClient),
                                                Cmd("start", dapGen', 0)}
             ELSE /\ inFlight' = inFlight \cup {Cmd("start", dapGen', 0)}
                  /\ UNCHANGED <<dapClient, dapFrames, dapCur>>
          /\ UNCHANGED follow
    /\ UNCHANGED <<backendVars, dapCh, results>>

StopDebuggingStillBusy ==
    /\ dapGen < MaxSessions
    /\ dapGen' = dapGen + 1 /\ dapRunState' = "idle" /\ UNCHANGED dapBusy
    /\ DapRelease
    /\ UNCHANGED <<backendVars, dapCh, results, follow>>

\* Shift+F5.
StopDebugging ==
    /\ dapGen < MaxSessions
    /\ dapGen' = dapGen + 1 /\ dapRunState' = "idle" /\ dapBusy' = FALSE
    /\ DapRelease
    /\ UNCHANGED <<backendVars, dapCh, results, follow>>

\* F6, F7 and Shift+F7 step a stopped program.
DapStepKey ==
    /\ dapRunState = "stop" /\ DapStep("next")
    /\ UNCHANGED <<panelVars, backendVars, dapCh, results>>

\* Another thread or frame is selected: the snapshot is fetched again.
DapSelect ==
    /\ dapFrames # NoStop /\ dapClient # 0 /\ Room
    /\ inFlight' = inFlight \cup {Cmd("refresh", dapGen, dapClient)}
    /\ UNCHANGED <<panelVars, backendVars, dapCh, results>>
-----------------------------------------------------------------------------
(* The commands, on goroutines of their own.                               *)

Ends(c, ok, n) ==
    /\ inFlight' = inFlight \ {c}
    /\ results' = results \cup {Result(c, ok, n)}

\* dapStartCmd: the adapter is spawned or dialled, and initialized.
DapStartEnds ==
    \E c \in inFlight :
        /\ c.kind = "start"
        /\ \/ /\ adapter' = [adapter EXCEPT ![c.gen] = "up"]
              /\ inFlight' = inFlight \ {c}
              /\ results' = results \cup {Result([c EXCEPT !.cl = c.gen], TRUE, 0)}
           \/ Ends(c, FALSE, 0) /\ UNCHANGED adapter
        /\ UNCHANGED <<panelVars, program, stops, dapCh>>

\* dapLaunchCmd: launch, the breakpoints, configurationDone.  A program that
\* runs from its launch on may stop before the command has returned.
DapLaunches ==
    \E c \in inFlight :
        /\ c.kind = "launch" /\ program[c.cl] = "none" /\ adapter[c.cl] = "up"
        /\ program' = [program EXCEPT ![c.cl] = "running"]
        /\ UNCHANGED <<panelVars, adapter, stops, dapCh, inFlight, results>>

DapLaunchEnds ==
    \E c \in inFlight :
        /\ c.kind = "launch"
        /\ \/ program[c.cl] # "none" /\ Ends(c, TRUE, 0)
           \/ program[c.cl] = "none" /\ Ends(c, FALSE, 0)
        /\ UNCHANGED <<panelVars, backendVars, dapCh>>

\* continue and next answer that a stopped program goes on, pause that a running
\* one will stop; anything else, and a dead adapter, is an error.
DapStepEnds ==
    \E c \in inFlight :
        /\ c.kind \in {"continue", "next", "pause"}
        /\ LET ok == /\ adapter[c.cl] = "up"
                     /\ program[c.cl] = IF c.kind = "pause" THEN "running" ELSE "stopped"
           IN  /\ Ends(c, ok, 0)
               /\ program' = IF ok THEN [program EXCEPT ![c.cl] = "running"] ELSE program
        /\ UNCHANGED <<panelVars, adapter, stops, dapCh>>

\* dapRefreshCmd: the frames are those of the stop it finds.
DapRefreshEnds ==
    \E c \in inFlight :
        /\ c.kind = "refresh"
        /\ Ends(c, adapter[c.cl] = "up" /\ program[c.cl] = "stopped", stops[c.cl])
        /\ UNCHANGED <<panelVars, backendVars, dapCh>>

DapCloses ==
    \E c \in inFlight :
        /\ c.kind = "close"
        /\ adapter' = AdapterClosed(c.cl)
        /\ inFlight' = inFlight \ {c}
        /\ UNCHANGED <<panelVars, program, stops, dapCh, results>>
-----------------------------------------------------------------------------
(* The adapter and its program.                                            *)

ProgramStops(g) ==
    /\ adapter[g] = "up" /\ program[g] = "running" /\ stops[g] < MaxStops
    /\ program' = [program EXCEPT ![g] = "stopped"]
    /\ stops' = [stops EXCEPT ![g] = @ + 1]
    /\ Emit("stopped", g)
    /\ UNCHANGED <<panelVars, adapter, inFlight, results>>

ProgramEnds(g) ==
    /\ adapter[g] = "up" /\ program[g] = "running"
    /\ program' = [program EXCEPT ![g] = "ended"]
    /\ UNCHANGED stops
    /\ Emit("terminated", g)
    /\ UNCHANGED <<panelVars, adapter, inFlight, results>>

\* The adapter goes away: disconnected() fails the calls that wait, and says so.
AdapterGoes(g) ==
    /\ adapter[g] = "up"
    /\ adapter' = [adapter EXCEPT ![g] = "gone"]
    /\ UNCHANGED <<program, stops>>
    /\ Emit("disconnected", g)
    /\ UNCHANGED <<panelVars, inFlight, results>>
-----------------------------------------------------------------------------
(* The handlers.                                                           *)

\* The adapter of a superseded start is forgotten.
HandleDapStartForgetting ==
    \E r \in results :
        /\ r.kind = "start" /\ results' = results \ {r}
        /\ \/ /\ r.gen # dapGen
              /\ UNCHANGED <<panelVars, adapter, inFlight>>
           \/ /\ r.gen = dapGen
              /\ dapBusy' = FALSE
              /\ IF r.ok
                 THEN /\ dapClient' = r.cl /\ UNCHANGED dapRunState
                      /\ inFlight' = inFlight \cup {Cmd("launch", dapGen, r.cl)}
                 ELSE dapRunState' = "idle" /\ UNCHANGED <<dapClient, inFlight>>
              /\ UNCHANGED <<adapter, dapGen, dapFrames, dapCur, follow>>
        /\ UNCHANGED <<program, stops, dapCh>>

\* dapStartMsg: an adapter of a superseded start is closed.
HandleDapStart ==
    \E r \in results :
        /\ r.kind = "start" /\ results' = results \ {r}
        /\ \/ /\ r.gen # dapGen
              /\ adapter' = IF r.ok THEN AdapterClosed(r.cl) ELSE adapter
              /\ UNCHANGED <<panelVars, inFlight>>
           \/ /\ r.gen = dapGen
              /\ dapBusy' = FALSE
              /\ IF r.ok
                 THEN /\ dapClient' = r.cl /\ UNCHANGED dapRunState
                      /\ inFlight' = inFlight \cup {Cmd("launch", dapGen, r.cl)}
                 ELSE dapRunState' = "idle" /\ UNCHANGED <<dapClient, inFlight>>
              /\ UNCHANGED <<adapter, dapGen, dapFrames, dapCur, follow>>
        /\ UNCHANGED <<program, stops, dapCh>>

HandleDapLaunch ==
    \E r \in results :
        /\ r.kind = "launch" /\ results' = results \ {r}
        /\ \/ r.gen # dapGen /\ UNCHANGED <<panelVars, inFlight>>
           \/ /\ r.gen = dapGen
              /\ dapBusy' = FALSE
              /\ IF r.ok
                 THEN /\ dapRunState' = "run"
                      /\ UNCHANGED <<dapClient, dapFrames, dapCur, inFlight>>
                 ELSE dapRunState' = "idle" /\ DapRelease
              /\ UNCHANGED <<dapGen, follow>>
        /\ UNCHANGED <<backendVars, dapCh>>

\* dapStepMsg carries no generation.
HandleDapStep ==
    \E r \in results :
        /\ r.kind \in {"continue", "next", "pause"} /\ results' = results \ {r}
        /\ IF r.ok THEN dapRunState' = "run" /\ dapCur' = NoStop
                   ELSE UNCHANGED <<dapRunState, dapCur>>
        /\ UNCHANGED <<dapGen, dapClient, dapBusy, dapFrames, follow, backendVars,
                       dapCh, inFlight>>

\* applyDAPRefresh: neither does dapRefreshMsg.  A marker that moved is followed.
HandleDapRefresh ==
    \E r \in results :
        /\ r.kind = "refresh"
        /\ IF r.ok
           THEN /\ dapFrames' = [gen |-> r.cl, n |-> r.n]
                /\ dapCur' = [gen |-> r.cl, n |-> r.n]
           ELSE UNCHANGED <<dapFrames, dapCur>>
        /\ results' = (results \ {r}) \cup
                (IF follow \/ dapCur' # dapCur THEN {Result(Cmd("follow", 0, 0), TRUE, 0)} ELSE {})
        /\ follow' = FALSE
        /\ UNCHANGED <<dapGen, dapClient, dapRunState, dapBusy, backendVars, dapCh, inFlight>>

\* handleDapFollowMsg shows where the program stopped, if it still does.
HandleDapFollow ==
    \E r \in results :
        /\ r.kind = "follow" /\ results' = results \ {r}
        /\ follow' = FALSE
        /\ UNCHANGED <<dapGen, dapClient, dapRunState, dapBusy, dapFrames, dapCur,
                       backendVars, dapCh, inFlight>>

\* handleDAPEventUpdate: the events of superseded sessions are dropped.
HandleDapEvent ==
    /\ dapCh # <<>> /\ dapCh' = Tail(dapCh)
    /\ LET e == Head(dapCh)
       IN  \/ /\ e.gen # dapGen
              /\ UNCHANGED <<panelVars, inFlight, results>>
           \/ /\ e.gen = dapGen /\ e.kind = "stopped"
              /\ dapRunState' = "stop" /\ dapFrames' = NoStop /\ follow' = TRUE
              /\ dapCur' = [gen |-> e.gen, n |-> e.n]
              /\ results' = results \cup {Result(Cmd("follow", 0, 0), TRUE, 0)}
              /\ inFlight' = IF dapClient = 0 THEN inFlight
                             ELSE inFlight \cup {Cmd("refresh", dapGen, dapClient)}
              /\ UNCHANGED <<dapGen, dapClient, dapBusy>>
           \/ /\ e.gen = dapGen /\ e.kind = "terminated"
              /\ dapRunState' = "end" /\ dapCur' = NoStop
              /\ UNCHANGED <<dapGen, dapClient, dapBusy, dapFrames, follow, inFlight, results>>
           \/ /\ e.gen = dapGen /\ e.kind = "disconnected"
              /\ dapRunState' = "idle" /\ dapClient' = 0
              /\ dapFrames' = NoStop /\ dapCur' = NoStop
              /\ UNCHANGED <<dapGen, dapBusy, follow, inFlight, results>>
    /\ UNCHANGED backendVars
-----------------------------------------------------------------------------
DapHandles == HandleDapStart \/ HandleDapLaunch \/ HandleDapStep \/ HandleDapRefresh
              \/ HandleDapFollow \/ HandleDapEvent
DapCommands == DapStartEnds \/ DapLaunches \/ DapLaunchEnds \/ DapStepEnds
               \/ DapRefreshEnds \/ DapCloses

DapNext ==
    \/ StartDebugging \/ StopDebugging \/ DapStepKey \/ DapSelect
    \/ DapCommands \/ DapHandles
    \/ \E g \in Sessions : ProgramStops(g) \/ ProgramEnds(g) \/ AdapterGoes(g)

DapSpec == DapInit /\ [][DapNext]_dapVars
-----------------------------------------------------------------------------
DapTypeOK ==
    /\ dapGen \in 0..MaxSessions /\ dapClient \in 0..MaxSessions
    /\ dapRunState \in {"idle", "launch", "run", "stop", "end"}
    /\ dapBusy \in BOOLEAN /\ follow \in BOOLEAN
    /\ Len(dapCh) <= DapQueue
    /\ adapter \in [Sessions -> {"none", "up", "gone", "closed"}]
    /\ program \in [Sessions -> {"none", "running", "stopped", "ended"}]

\* No adapter runs on that nobody will close: each one is the session's, or its
\* start or its end is under way, however starts and stops overtake each other.
AdaptersAreOwned ==
    \A g \in Sessions : adapter[g] = "up" =>
        \/ dapClient = g
        \/ \E r \in results  : r.kind = "start" /\ r.cl = g
        \/ \E c \in inFlight : c.kind = "close" /\ c.cl = g

\* F5 is never refused for a launch that is not under way.
LaunchIsUnderWay ==
    dapBusy \/ dapRunState = "launch" =>
        \E c \in inFlight \cup results : c.kind \in {"start", "launch"} /\ c.gen = dapGen

DapQuiet == inFlight = {} /\ results = {} /\ dapCh = <<>>

\* With nothing under way the panel says what the program does: a session that
\* reads running or stopped has an adapter F5 can talk to, and one whose program
\* waits at a breakpoint reads stopped.
StateIsShown ==
    DapQuiet =>
        /\ dapRunState \in {"run", "stop"} => dapClient # 0
        /\ dapClient # 0 /\ program[dapClient] = "stopped" => dapRunState = "stop"

\* No order of starts, stops, restarts and deaths leaves an adapter nobody owns or
\* a launch nobody finishes.
DapIsSound == AdaptersAreOwned /\ LaunchIsUnderWay
=============================================================================
