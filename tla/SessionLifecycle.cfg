\* One session on an iKVM, a VNC or a web-only server, with every handler twice
\* or once, authentication retries and a restart.
SPECIFICATION FairSpec
CONSTANTS
    Sessions = {s1}
    Servers = {megarac, idrac, nanokvm}
    IKVMServers = {megarac}
    WebOnlyServers = {nanokvm}
    Creators = {c1}
    Deleters = {d1, d2}
    Watchers = {w1}
    NoServer = NoServer
    NoSession = NoSession
    MaxConcurrentSessions = 1
    BmcRetryAttempts = 2
    MaxRestarts = 1
INVARIANTS NoUntrackedLogin StartingHasStarter
PROPERTIES EndedStaysEnded ImplementsLoginLedger EndedLoginsAreClosed
CHECK_DEADLOCK FALSE
