---------------------------- MODULE TaskLifecycle ----------------------------
(***************************************************************************)
(* What the background-agent subsystem promises its user: every task moves *)
(* along the life cycle the Status constants of internal/agent/model.go    *)
(* describe, one task executes at a time, and a task that reached an end   *)
(* stays there.  AgentTasks is shown to implement this specification.      *)
(***************************************************************************)
CONSTANT Tasks

VARIABLE life

LifeStatus == {"absent", "queued", "running", "review",
               "applied", "done", "failed", "cancelled"}

Terminal == {"applied", "done", "failed", "cancelled"}

\* The legal moves of one task.
Moves == { <<"absent", "queued">>,
           <<"queued", "running">>,  <<"queued", "cancelled">>,
           <<"running", "review">>,  <<"running", "done">>,
           <<"running", "failed">>,  <<"running", "cancelled">>,
           <<"review", "applied">>,  <<"review", "done">>,
           <<"review", "cancelled">> }

LifeInit == life = [t \in Tasks |-> "absent"]

Move(t, s) ==
    /\ <<life[t], s>> \in Moves
    /\ s = "running" => \A u \in Tasks : life[u] # "running"
    /\ life' = [life EXCEPT ![t] = s]

LifeNext == \E t \in Tasks, s \in LifeStatus : Move(t, s)

LifeSpec == LifeInit /\ [][LifeNext]_life
=============================================================================
