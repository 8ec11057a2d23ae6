SPECIFICATION Spec
CONSTANTS
    Batches <- Delegating
    AllowRun = "ask"
    ToolCap = 1
    MaxPrompts = 2
    MaxThreads = 2
    MaxToggles = 0
    PanelUsed = FALSE
INVARIANTS DecisionsAreAwaited NoStrayStream EditsAreReviewed
CHECK_DEADLOCK FALSE
