SPECIFICATION AllSpec
CONSTANTS
    f1 = f1
    f2 = f2
    t1 = t1
    None = None
    Fetches = {f1, f2}
    Typed = {}
    verb <- SameVerb
    MaxLines = 1
    Me = "#1"
    Users = {"#1", "#2"}
    Disc = "#5"
    Described <- SomeWorld
    Renames <- SomeRenames
    Telling <- SomeEvents
    MaxAhead = 2
INVARIANT FetchReturnsItsOwnOutput
CHECK_DEADLOCK FALSE
