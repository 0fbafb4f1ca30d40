SPECIFICATION Spec
CONSTANTS
    Publishers = {fanout, cron}
    Clients = {c1}
    Leaving = {c1}
    NoThread = NoThread
    RingMax = 2
    BacklogMax = 2
    MaxID = 3
INVARIANT IDsIncreaseOnTheWire
CHECK_DEADLOCK FALSE
