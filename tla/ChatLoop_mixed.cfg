SPECIFICATION Spec
CONSTANTS
    Batches <- Mixed
    AllowRun = "ask"
    ToolCap = 1
    MaxPrompts = 1
    MaxThreads = 1
    MaxToggles = 0
    PanelUsed = TRUE
INVARIANTS EditsAreReviewed
CHECK_DEADLOCK FALSE
