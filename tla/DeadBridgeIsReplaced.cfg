\* A viewer comes back after the BMC closed the KVM connection.
SPECIFICATION Spec
CONSTANTS
    Logins = {l1, l2, l3}
    NoLogin = NoLogin
    Sessions = {s1}
    NoSession = NoSession
    Manager = Manager
    Handlers = {}
    Watchers = {w1}
    Stoppers = {}
    Bridges = {b1, b2}
    NoBridge = NoBridge
PROPERTY DeadBridgeIsReplaced
CHECK_DEADLOCK FALSE
