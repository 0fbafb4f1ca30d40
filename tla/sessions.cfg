SPECIFICATION AllSpec
CONSTANTS
    ana = ana
    bob = bob
    a1 = a1
    a2 = a2
    a3 = a3
    a4 = a4
    c1 = c1
    c2 = c2
    tui = tui
    bot = bot
    None = None
    Users = {ana, bob}
    Attempts = {a1, a2, a3, a4}
    userOf <- SomeUserOf
    Correct = {a1, a2, a4}
    MaxSessions = 2
    Connections = {c1, c2}
    ident <- SomeIdent
    MaxUnread = 2
    Addresses = {"home", "work"}
    Requests = {1, 2}
    maxFailures = 2
    window = 2
    lockout = 3
    MaxTime = 5
INVARIANTS CountTracksSessions TokenNeedsItsPassword NoDanglingUserToken LockoutIsFair LilyKnowsWhoIsConnected
PROPERTIES LossAndRecoveryAreSeen
CHECK_DEADLOCK FALSE
