\* Two viewers, one of them reconnecting, against StopVNCBridge.
SPECIFICATION FairSpec
CONSTANTS
    Clients = {c1, c2}
    Conns = {k1, k2, k3}
    NoConn = NoConn
    Loops = {l1, l2}
INVARIANTS TypeOK OneBroadcastLoop
PROPERTIES StopReleasesViewers
CHECK_DEADLOCK FALSE
