SPECIFICATION AllSpec
CONSTANTS
    who = who
    whereis = whereis
    Own = Own
    None = None
    u1 = u1
    u2 = u2
    d1 = d1
    Typed = {who, whereis}
    TypedWheres = {whereis}
    EventsMax = 1
    MaxSaid = 2
    MaxLines = 1
    Users = {u1, u2}
    Discs = {d1}
    Me = u1
    Names = {"bob", "Bob", "amy", "cafe"}
    fold <- SomeFold
    Values = {"x", "y"}
    MaxScrollback = 1
    ScrollbackSlack = 1
    Screen = 2
    Sizes = {1, 3}
    MaxItems = 4
    MaxTurns = 2
INVARIANTS OutcomeIsLilys SyncCompleteClosedOnce StateIsSeededAndAhead PictureIsLilys PaneShowsWhatCame LinesReadBack
PROPERTIES ViewHolds ConnectionsEnd
CHECK_DEADLOCK FALSE
