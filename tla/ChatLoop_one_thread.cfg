SPECIFICATION FairSpec
CONSTANTS
    Batches <- Decisions
    AllowRun = "ask"
    ToolCap = 1
    MaxPrompts = 2
    MaxThreads = 1
    MaxToggles = 1
    PanelUsed = TRUE
INVARIANTS TurnsAreCapped
PROPERTIES IdleStaysSilent TurnEnds
CHECK_DEADLOCK FALSE
