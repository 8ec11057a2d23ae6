SPECIFICATION FairSpec
CONSTANTS
    f1 = f1
    f2 = f2
    NoFile = NoFile
    Files <- MCFiles
    Namesakes <- NoNamesakes
    FileCap = 1
    Versions = 2
    MaxWrites = 4
INVARIANTS BuffersAreTheirFiles
PROPERTIES UnsavedIsKept CatchesUp
CHECK_DEADLOCK FALSE
