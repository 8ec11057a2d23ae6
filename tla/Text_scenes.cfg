SPECIFICATION TextSpec
CONSTANTS
    Texts <- EmptyText
    MaxUndo = 2
    MaxLines = 3
    MaxLen = 1
    MaxEdits = 3
    McTexts <- TwoLines
    MaxMcSteps = 4
    MaxMcCursors = 2
    MaxMcCol = 2
    LeTexts <- Documents
    LeInserts <- Inserts
    MaxLeEdits = 2
    MaxSymbols = 2
    SymbolLines = {0, 1}
    FoldTexts <- Nested
    FoldLines <- TypedLines
    MaxFoldLines = 4
    FoldHeight = 2
    SeTexts <- Searched
    SeFiles <- OnDisk
    SeQueries <- Queries
    SeRepls <- Replacements
    MaxSeSteps = 4
    IncWindow = 1
    MaxCached = 3
INVARIANTS TextTypeOK FirstTextIsKept CaretIsInText PrefixIsSound FoldsAreSound AnswersAreApplied
PROPERTIES CursorsEditTogether SearchIsSound
CHECK_DEADLOCK FALSE
