SPECIFICATION FairSpec
CONSTANTS
    Session = Session
    Ticker = Ticker
    NoOne = NoOne
    Requests = {r1, r2}
    MaxFrames = 2
    MaxFrags = 2
    FragMod = 2
    HeaderFrags = 2
INVARIANTS FramesAreWhole MessagesAreWhole NotLeftPaused
PROPERTIES StopReturns
CHECK_DEADLOCK FALSE
