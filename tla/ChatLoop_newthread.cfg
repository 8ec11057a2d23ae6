SPECIFICATION Spec
CONSTANTS
    Batches <- ReadOnly
    AllowRun = "ask"
    ToolCap = 1
    MaxPrompts = 1
    MaxThreads = 2
    MaxToggles = 0
    PanelUsed = TRUE
INVARIANTS ReplyIsOfThisThread
CHECK_DEADLOCK FALSE
