SPECIFICATION AllSpec
CONSTANTS
    MaxSessions = 2
    MaxMsgs <- SomeMsgs
    MaxClients = 3
    MaxFetches = 2
    MaxTrouble = 2
    autoReconnectAttempts = 1
    PageLimit = 1
    Users = {"ann", "ben"}
    Right <- SomePasswords
    Old = "old"
    Launches <- SomeLaunches
    Empty = ""
    MaxTurns = 2
    QuietCap = 2
    BusyCap = 3
    MaxOutput = 4
    MaxAsks = 3
    Typable = {"a", "_", "u"}
    MaxTyped = 3
    MaxLine = 3
    MaxHistory = 1
    MaxPattern = 2
    MaxLookups = 2
    Focuses <- SomeFocuses
INVARIANTS NoGapsNoCopies  TypingIsSafe
PROPERTIES KeepsLiveSession BackOrAsking NoticesKnowTheirPlace CursorKeepsItsPlace
CHECK_DEADLOCK FALSE
