SPECIFICATION ScreenSpec
CONSTANTS
    MaxOpened = 3
    MaxTabs = 3
    MaxGpRows = 2
    GpHeights = {1, 2}
    MaxRows = 3
    VisibleRows = 2
    DiagSpots = {1, 2, 3}
    SpotLine <- TwoOnALine
    MaxEntries = 2
    MaxLevels = 2
    MaxPrinted = 5
    DapConsoleMax = 4
    DapHeights = {2, 3}
    McfLines = {"a"}
    McfTexts <- Conflicted
    MaxGdRuns = 4
    MaxGdRun = 2
    GdHeight = 2
INVARIANTS ScreenTypeOK ConflictsAreResolved DiffIsShown
PROPERTIES ImplementsHistory QuitIsAnswered ListsAreShown
CHECK_DEADLOCK FALSE
