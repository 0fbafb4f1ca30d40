SPECIFICATION AllSpec
CONSTANTS
    c1 = c1
    c2 = c2
    Publishers = {fanout}
    Clients = {c1, c2}
    Leaving = {c1}
    NoThread = NoThread
    RingMax = 2
    BacklogMax = 2
    MaxID = 3
INVARIANTS NothingDueIsLost FreshClientMissesNothing CopiesComeFromReplay BacklogBounded PrivateOutputStaysPrivate
PROPERTIES ImplementsDelivery GoroutinesFinish
CHECK_DEADLOCK FALSE
