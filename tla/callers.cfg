SPECIFICATION AllSpec
CONSTANTS
    Typists = {t1, t2}
    Stores = {s1, s2}
    NLines = 2
    None = None
    MaxTyped = 2
    MaxPrompts = 2
    Users = {"#me", "#1", "#2"}
    Discs = {"-d"}
    Me = "#me"
    Names <- SomeNames
    Pieces <- SomePieces
    pastSendsMax = 2
    MaxLine = 2
    MaxLog = 3
INVARIANTS DialoguesAreExact RecentComeFirst
PROPERTIES StoresAreAnswered
CHECK_DEADLOCK FALSE
