SPECIFICATION Spec
CONSTANTS
    Batches <- OneDelegation
    AllowRun = "ask"
    ToolCap = 1
    MaxPrompts = 1
    MaxThreads = 1
    MaxToggles = 0
    PanelUsed = TRUE
INVARIANTS BusyHasReader
CHECK_DEADLOCK FALSE
