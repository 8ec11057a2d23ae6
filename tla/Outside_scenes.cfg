SPECIFICATION OutsideSpec
CONSTANTS
    a = a
    b = b
    out = out
    empty = empty
    old = old
    pad = pad
    new = new
    Paths = {a, b, out}
    Inside = {a, b}
    Contents = {empty, old, pad, new}
    Empty = empty
    Missing = Missing
    Trimmed <- MCTrimmed
    Series <- MCSeries
    MaxForeign = 1
    MaxFiles = 3
    FileAt <- MCFileAt
    HitsAt <- MCHitsAt
    Unscannable = {3}
    Namesakes = {1, 2}
    MaxMatches = 2
    BatchSize = 1
    ChanCap = 1
    MaxScans = 2
    MaxGens = 4
    MaxFileEdits = 1
    GrPaths = {p1, p2}
    GrTexts = {t1, t2}
    Absent = Absent
    MaxCommits = 4
    MaxSaves = 1
    LspDocs = {d1}
    c1 = c1
    c2 = c2
    LspCalls = {c1, c2}
    KindsOf <- MCKinds
    MaxServers = 1
    MaxAsked = 1
    Unanswered = Unanswered
    Closed = Closed
    TheServer = TheServer
    MaxSessions = 2
    MaxStops = 1
    MaxUnderWay = 2
    DapQueue = 2
    MaxCommands = 3
    DbgpSyncs = {s1, s2}
    DbgpLines = {1, 2}
    MaxBreakIds = 3
    NoLine = 0
INVARIANTS OutsideTypeOK SeriesIsAtomic LspIsSound DapIsSound DbgpIsSound KnownAreInstalled
PROPERTIES ReplaceIsReviewed UndoIsSafe
CHECK_DEADLOCK FALSE
