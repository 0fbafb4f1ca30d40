SPECIFICATION AllSpec
CONSTANTS
    c1 = c1
    r1 = r1
    startup = startup
    fanOut = fanOut
    none = none
    me = me
    u1 = u1
    Clients = {c1}
    Runners = {r1}
    Startup = startup
    FanOut = fanOut
    None = none
    Me = me
    Others = {u1}
    Inputs <- MCInputs
    Memo <- MCMemo
    MaxTyped = 2
    MaxJobs = 2
    MaxTriggers = 2
    MaxEvents <- MCMaxEvents
    MaxTime = 1
    MaxSessions = 2
    MaxHeard = 1
    MaxCommands = 1
    MaxLines = 1
    MaxTrouble = 1
    EVENTS_PAGE = 1
INVARIANTS EveryJobIsArmedOnce TriggersObey BotHearsNothingTwice
PROPERTIES WaitsEnd
CHECK_DEADLOCK FALSE
