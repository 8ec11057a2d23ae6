---------------------------- MODULE MCBackground ----------------------------
(* What goes on behind the user's back and has to end: the agents' tasks,   *)
(* the highlighting and diff passes, the assistants, a request of the       *)
(* language server.  A behaviour is of one part, its scene.                 *)
(*                                                                          *)
(* tasks: one task waits behind another that runs or is enqueued while the  *)
(* worker falls asleep, and a delegation can end before, at and after its   *)
(* last round.  passes: two tabs of two texts.  assist: two requests,     *)
(* answered in one part.  server: one lookup, whose server may die.         *)
EXTENDS AgentTasks, Passes, AiAssist, LspSession

CONSTANT c1

VARIABLE scene

OneLookup == [c \in {c1} |-> {"lookup"}]
-----------------------------------------------------------------------------
\* Every tab is painted and no pass is under way.
PassesOver ==
    /\ pipe = "diff" /\ shown = 1
    /\ tabs = [i \in Names |-> [Tab(i) EXCEPT !.kept = <<i, 1>>, !.parts = <<<<i, 1>>>>]]
    /\ timers = {} /\ running = {} /\ moved = {} /\ misled = {} /\ back = {} /\ down = FALSE

\* No task was given and the worker sleeps: the fairness of the tasks must ask
\* nothing of the other scenes, or they would have no fair behaviour.
WorkerSleeps ==
    /\ status = [t \in Tasks |-> "absent"] /\ kind = [t \in Tasks |-> "agent"]
    /\ changes = [t \in Tasks |-> FALSE] /\ born = [t \in Tasks |-> 0] /\ order = 0
    /\ worker = [Idle EXCEPT !.pc = "asleep"] /\ wake = FALSE /\ shutdown = FALSE
    /\ cancels = {} /\ dead = {} /\ marking = NoTask /\ review = NoTask /\ written = {}

BackgroundInit ==
    /\ AiInit /\ LspInit
    /\ \/ scene = "tasks" /\ Init /\ PassesOver
       \/ scene = "passes" /\ WorkerSleeps /\ PassInit
       \/ scene \in {"assist", "server"} /\ WorkerSleeps /\ PassesOver
    /\ scene # "assist" => assist = "ghost"

TasksScene ==
    scene = "tasks" /\ Next
    /\ UNCHANGED <<scene, passVars, aiVars, lspVars>>
PassesScene ==
    scene = "passes" /\ PassNext
    /\ UNCHANGED <<scene, vars, aiVars, lspVars>>
AssistScene ==
    scene = "assist" /\ AiNext
    /\ UNCHANGED <<scene, vars, passVars, lspVars>>
ServerScene ==
    scene = "server" /\ LspNext
    /\ UNCHANGED <<scene, vars, passVars, aiVars>>

BackgroundNext == TasksScene \/ PassesScene \/ AssistScene \/ ServerScene

BackgroundSpec ==
    /\ BackgroundInit
    /\ [][BackgroundNext]_<<scene, vars, passVars, aiVars, lspVars>>
    /\ TasksFairness /\ PassFairness /\ AiFairness /\ LspFairness

-----------------------------------------------------------------------------
\* Types of the four parts.
BackgroundTypeOK == TypeOK /\ PassTypeOK /\ AiTypeOK /\ LspTypeOK

\* Nothing the user waits for keeps him waiting: neither an answer that streams,
\* nor a request, nor a write to the server.
AnswersEnd == StreamingEnds /\ RequestsEnd /\ UIReturns
=============================================================================
