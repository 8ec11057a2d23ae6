SPECIFICATION BackgroundSpec
CONSTANTS
    Tasks = {t1, t2}
    NoTask = NoTask
    MaxRounds = 2
    PassTabs = 2
    MaxTexts = 2
    MaxStreams = 2
    MaxParts = 1
    c1 = c1
    LspDocs = {d1}
    LspCalls = {c1}
    KindsOf <- OneLookup
    MaxServers = 1
    MaxAsked = 0
    Unanswered = Unanswered
    Closed = Closed
    TheServer = TheServer
INVARIANTS BackgroundTypeOK TasksAreSafe  AssistIsSound
PROPERTIES LivesAreOrderly TasksEnd ImplementsLifecycle  AnswersEnd
CHECK_DEADLOCK FALSE
