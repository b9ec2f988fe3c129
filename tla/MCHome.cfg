SPECIFICATION MCSpec
CONSTANTS
    Home = m1
    Other = m2
    Terminals = {t1}
    Mixes <- MCMixes
    MaxServers = 3
    MaxFaults = 1
    MaxMoves = 2
    MaxSeconds = 5
    IdleSeconds = 2
    Ids = {1, 2}
    Filter = {2}
    Texts = {"a", "b"}
    MaxCommits = 2
    MaxKeys = 3
    Folders = {w, v}
    MaxSessions = 3
    MaxOps = 2
    MaxTries = 2
    MaxTokens = 3
    Window = 5
    MaxLines = 4
    MaxTranscript = 6
INVARIANTS
    NobodyIsCutOff
    SessionIsOurs
    WaitIsReal
PROPERTIES
    LockKeepsLiveSockets
    ReloadIsHarmless
    
CHECK_DEADLOCK FALSE
