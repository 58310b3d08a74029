\* Three handlers, which may share viewer ids, and three control requests.
SPECIFICATION FairSpec
CONSTANTS
    Viewers = {v1, v2, v3}
    NoViewer = NoViewer
    Conns = {c1, c2, c3}
    NoRequest = NoRequest
    MaxRequests = 3
INVARIANTS
    ControllerIsConnected
    OrderMatchesHandlers
    PendingRequestHasTimer
PROPERTIES
    ImplementsControlToken
    RequestsAreResolved
