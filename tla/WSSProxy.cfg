\* Two viewers, one DELETE; each viewer may dial once.
SPECIFICATION WSSFairSpec
CONSTANTS
    Viewers = {c1, c2}
    Deleters = {x1}
    Proxies = {p1, p2}
    NoProxy = NoProxy
INVARIANTS NoIdleBackend
PROPERTIES StoppedViewersLeave
CHECK_DEADLOCK FALSE
