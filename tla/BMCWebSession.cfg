\* The session manager, an IPMI request, a starting session, a viewer and a caller
\* of StopIKVMBridge.
SPECIFICATION FairSpec
CONSTANTS
    Logins = {l1, l2}
    NoLogin = NoLogin
    Sessions = {s1}
    NoSession = NoSession
    Manager = Manager
    Handlers = {h1}
    Watchers = {w1}
    Stoppers = {p1}
    Bridges = {b1}
    NoBridge = NoBridge
INVARIANTS KvmActiveIsReleased ServedCredsAreLive
PROPERTIES StaleLoginIsReplaced
CHECK_DEADLOCK FALSE
