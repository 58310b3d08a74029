-------------------------- MODULE SessionLifecycle --------------------------
(***************************************************************************)
(* KVM sessions from CreateSession to their end (internal/api/handlers.go, *)
(* cmd/server/main.go, internal/store/sessions.go): the HTTP handlers that *)
(* create, watch, keep alive and delete a session, the goroutine that      *)
(* starts it, the minute cleanup, shutdown, and the SQLite rows a restart  *)
(* reads back.                                                             *)
(*                                                                         *)
(* No lock spans a handler, so a handler is cut wherever it leaves a lock  *)
(* or waits for the network.  KVMSession values are shared pointers: an    *)
(* assignment to session.Status is seen by everybody at once.  Its row     *)
(* need not follow: a failed write is only logged, and a concurrent write  *)
(* of an older status may land last.                                       *)
(*                                                                         *)
(* Boards differ in how they start: MegaRAC sessions are in iKVM mode and  *)
(* borrow the session manager's login; iDRAC sessions are in VNC mode with *)
(* a login of their own; a NanoKVM board logs in but hands back no         *)
(* connection, which startSession dereferences.  No authenticator selects  *)
(* the WebSocket mode.                                                     *)
(*                                                                         *)
(* LastActivity and the age of credentials are abstracted to "older than   *)
(* the threshold".  A login stands for the web session that Authenticate   *)
(* opens on the BMC; it is over when the server has sent the Logout.       *)
(***************************************************************************)
EXTENDS Naturals, FiniteSets

CONSTANTS
    Sessions,       \* session ids
    Servers,        \* names of configured servers
    NoServer,
    IKVMServers,    \* the ami_megarac servers
    WebOnlyServers, \* the nanokvm servers
    Creators,       \* concurrent POST /api/sessions handlers
    Deleters,       \* concurrent DELETE /api/sessions/{id} handlers
    Watchers,       \* concurrent /ws/kvm/{id} handlers
    NoSession,
    MaxConcurrentSessions,
    BmcRetryAttempts,   \* 3 in the code
    MaxRestarts         \* bound: crashes or shutdowns in one behaviour

ASSUME SessionsAssumption == NoSession \notin Sessions
ASSUME ServersAssumption == NoServer \notin Servers /\ IKVMServers \subseteq Servers
ASSUME BoardsAssumption == WebOnlyServers \subseteq Servers \ IKVMServers
ASSUME BoundsAssumption ==
    /\ MaxConcurrentSessions \in Nat \ {0}
    /\ BmcRetryAttempts \in Nat \ {0}
    /\ MaxRestarts \in Nat

VARIABLES
    status,     \* session.Status; "none" before Create, "lost" if a restart
                \* finds no row
    serverOf,   \* session.ServerName
    idle,       \* connected sessions whose LastActivity is past the threshold
    creds,      \* the keys of s.BMCCreds
    aged,       \* entries of s.BMCCreds older than the TTL
    loggedIn,   \* sessions whose login has not been sent a Logout
    start,      \* where startSession is: "none", "auth", "store", "publish"
    attempts,   \* authentication attempts made
    bridge,     \* sessions with a running iKVM or VNC bridge
    creator,    \* the CreateSession handlers: where, and for which server
    deleter,    \* the DeleteSession handlers: where, and for which session
    watcher,    \* the WebSocket handlers: where, and for which session
    reaper,     \* the session the idle cleanup has decided to end
    logouts,    \* logins CleanupStaleBMCCreds has taken out and will log out
    rows,       \* status column of each session's row, "none" without a row
    drain,      \* sessions the shutdown loop has still to visit
    restarts,   \* number of restarts so far
    orphans     \* logins nobody will log out any more: their record died with
                \* the process, or the BMC did not answer the Logout

storeVars == <<status, serverOf, idle, rows>>
credVars == <<creds, aged, loggedIn, logouts, orphans>>
startVars == <<start, attempts>>
vars == <<storeVars, credVars, startVars, bridge, creator, deleter, watcher,
          reaper, drain, restarts>>

Status == {"none", "starting", "connected", "disconnected", "error", "lost"}
Known == {"starting", "connected", "disconnected", "error"}
Active == {"starting", "connected"}
Ended == {"disconnected", "error"}

IdleCreator == [at |-> "idle", server |-> NoServer]
IdleHandler == [at |-> "idle", session |-> NoSession]

TypeOK ==
    /\ status \in [Sessions -> Status]
    /\ serverOf \in [Sessions -> Servers \cup {NoServer}]
    /\ idle \subseteq Sessions
    /\ creds \subseteq Sessions
    /\ aged \subseteq creds
    /\ loggedIn \subseteq Sessions
    /\ start \in [Sessions -> {"none", "auth", "store", "publish"}]
    /\ attempts \in [Sessions -> 0..BmcRetryAttempts]
    /\ bridge \subseteq Sessions
    /\ creator \in [Creators -> {IdleCreator} \cup [at : {"count", "create"}, server : Servers]]
    /\ deleter \in [Deleters -> {IdleHandler} \cup [at : {"logout", "stop", "finish"},
                                                   session : Sessions]]
    /\ watcher \in [Watchers -> {IdleHandler} \cup [at : {"attach", "watch"}, session : Sessions]]
    /\ reaper \in Sessions \cup {NoSession}
    /\ logouts \subseteq Sessions
    /\ rows \in [Sessions -> Known \cup {"none"}]
    /\ drain \subseteq Sessions
    /\ restarts \in 0..MaxRestarts
    /\ orphans \subseteq Sessions

-----------------------------------------------------------------------------

Init ==
    /\ status = [s \in Sessions |-> "none"]
    /\ serverOf = [s \in Sessions |-> NoServer]
    /\ idle = {} /\ creds = {} /\ aged = {} /\ loggedIn = {}
    /\ start = [s \in Sessions |-> "none"]
    /\ attempts = [s \in Sessions |-> 0]
    /\ bridge = {}
    /\ creator = [c \in Creators |-> IdleCreator]
    /\ deleter = [d \in Deleters |-> IdleHandler]
    /\ watcher = [w \in Watchers |-> IdleHandler]
    /\ reaper = NoSession
    /\ logouts = {} /\ drain = {} /\ orphans = {}
    /\ rows = [s \in Sessions |-> "none"]
    /\ restarts = 0

\* A handler that has come to the point at.
At(handler, at) == [at |-> at, session |-> handler.session]

\* Sessions.Set of a session with status st: the row gets it, or keeps what an
\* earlier write left.
Set(s, st) ==
    /\ status' = [status EXCEPT ![s] = st]
    /\ rows' \in {rows, [rows EXCEPT ![s] = st]}

\* A Logout the BMC obeys, or one that fails and is not repeated.
EndLogin(s) ==
    \/ loggedIn' = loggedIn \ {s} /\ UNCHANGED orphans
    \/ orphans' = orphans \cup {s} /\ UNCHANGED loggedIn

\* FindByServer: the sessions a new request for v would be given.
ActiveFor(v) == {s \in Sessions : serverOf[s] = v /\ status[s] \in Active}

ActiveSessions == {s \in Sessions : status[s] \in Active}

(***************************************************************************)
(* CreateSession.                                                          *)
(***************************************************************************)
\* The server has no active session (otherwise that session is returned).
FindExisting(c, v) ==
    /\ creator[c].at = "idle"
    /\ ActiveFor(v) = {}
    /\ creator' = [creator EXCEPT ![c] = [at |-> "count", server |-> v]]
    /\ UNCHANGED <<storeVars, credVars, startVars, bridge, deleter, watcher,
                   reaper, drain, restarts>>

\* The limit on active sessions; 429 ends the handler.
CheckLimit(c) ==
    /\ creator[c].at = "count"
    /\ creator' = [creator EXCEPT ![c] =
          IF Cardinality(ActiveSessions) >= MaxConcurrentSessions
            THEN IdleCreator
            ELSE [at |-> "create", server |-> creator[c].server]]
    /\ UNCHANGED <<storeVars, credVars, startVars, bridge, deleter, watcher,
                   reaper, drain, restarts>>

\* A new id, Sessions.Set, and the startSession goroutine.
Create(c, s) ==
    /\ creator[c].at = "create"
    /\ status[s] = "none"
    /\ Set(s, "starting")
    /\ serverOf' = [serverOf EXCEPT ![s] = creator[c].server]
    /\ start' = [start EXCEPT ![s] = "auth"]
    /\ creator' = [creator EXCEPT ![c] = IdleCreator]
    /\ UNCHANGED <<idle, credVars, attempts, bridge, deleter, watcher, reaper,
                   drain, restarts>>

(***************************************************************************)
(* startSession.                                                           *)
(***************************************************************************)
\* Faulty variant: an error path that returns without setting the status.
StartFailsSilently(s) ==
    /\ start[s] = "auth"
    /\ start' = [start EXCEPT ![s] = "none"]
    /\ UNCHANGED <<storeVars, credVars, attempts, bridge, creator, deleter, watcher,
                   reaper, drain, restarts>>

\* No password, no authenticator, a permanent error, the last transient error,
\* or no KVM token: the session ends in "error".
StartFails(s) ==
    /\ start[s] = "auth"
    /\ start' = [start EXCEPT ![s] = "none"]
    /\ Set(s, "error")
    /\ UNCHANGED <<serverOf, idle, credVars, attempts, bridge, creator, deleter,
                   watcher, reaper, drain, restarts>>

\* A transient error with attempts left.
RetryAuth(s) ==
    /\ start[s] = "auth"
    /\ attempts[s] + 1 < BmcRetryAttempts
    /\ attempts' = [attempts EXCEPT ![s] = @ + 1]
    /\ UNCHANGED <<storeVars, credVars, start, bridge, creator, deleter, watcher,
                   reaper, drain, restarts>>

\* Authenticate succeeds: the BMC has a login for this session.
Authenticate(s) ==
    /\ start[s] = "auth"
    /\ serverOf[s] \notin IKVMServers
    /\ loggedIn' = loggedIn \cup {s}
    /\ start' = [start EXCEPT ![s] = "store"]
    /\ UNCHANGED <<storeVars, creds, aged, logouts, orphans, attempts, bridge,
                   creator, deleter, watcher, reaper, drain, restarts>>

\* "Store BMC creds for later logout".
StoreCreds(s) ==
    /\ start[s] = "store"
    /\ creds' = creds \cup {s}
    /\ start' = [start EXCEPT ![s] = "publish"]
    /\ UNCHANGED <<storeVars, aged, loggedIn, logouts, orphans, attempts, bridge,
                   creator, deleter, watcher, reaper, drain, restarts>>

\* startDirectSession, or startIKVMSession once the token is fetched with the
\* session manager's login.  The default case beside them is never taken: every
\* authenticator that returns connect info returns one of the modes handled.
Publish(s) ==
    /\ \/ start[s] = "publish" /\ serverOf[s] \notin WebOnlyServers
       \/ start[s] = "auth" /\ serverOf[s] \in IKVMServers
    /\ start' = [start EXCEPT ![s] = "none"]
    /\ Set(s, "connected")
    /\ idle' = idle \ {s}
    /\ UNCHANGED <<serverOf, credVars, attempts, bridge, creator, deleter, watcher,
                   reaper, drain, restarts>>

(***************************************************************************)
(* HandleKVMWebSocket and KeepAliveSession.                                *)
(***************************************************************************)
\* The session is connected: its activity is refreshed and the handler goes on
\* to dial or authenticate.
Watch(w, s) ==
    /\ watcher[w].at = "idle"
    /\ status[s] = "connected"
    /\ watcher' = [watcher EXCEPT ![w] = [at |-> "attach", session |-> s]]
    /\ Set(s, status[s])
    /\ idle' = idle \ {s}
    /\ UNCHANGED <<serverOf, credVars, startVars, bridge, creator, deleter, reaper,
                   drain, restarts>>

\* ensureIKVMBridge, ensureVNCBridge or ensureWSSProxy has its connection.
Attach(w) ==
    /\ watcher[w].at = "attach"
    /\ watcher' = [watcher EXCEPT ![w] = At(watcher[w], "watch")]
    /\ bridge' = bridge \cup {watcher[w].session}
    /\ UNCHANGED <<storeVars, credVars, startVars, creator, deleter, reaper,
                   drain, restarts>>

\* The handler returns: the dial failed, or the browser or the bridge went away.
Unwatch(w) ==
    /\ watcher[w].at \in {"attach", "watch"}
    /\ watcher' = [watcher EXCEPT ![w] = IdleHandler]
    /\ UNCHANGED <<storeVars, credVars, startVars, bridge, creator, deleter, reaper,
                   drain, restarts>>

KeepAlive(s) ==
    /\ status[s] \in Known
    /\ Set(s, status[s])
    /\ idle' = idle \ {s}
    /\ UNCHANGED <<serverOf, credVars, startVars, bridge, creator, deleter, watcher,
                   reaper, drain, restarts>>

(***************************************************************************)
(* DeleteSession.                                                          *)
(***************************************************************************)
\* Faulty variant: only a connected session is logged out.
TakeCredsOfConnected(d, s) ==
    /\ deleter[d].at = "idle"
    /\ status[s] \in Known
    /\ deleter' = [deleter EXCEPT ![d] =
          [at |-> IF s \in creds /\ status[s] = "connected" THEN "logout" ELSE "stop",
           session |-> s]]
    /\ creds' = creds \ {s}
    /\ aged' = aged \ {s}
    /\ UNCHANGED <<storeVars, loggedIn, logouts, orphans, startVars, bridge, creator,
                   watcher, reaper, drain, restarts>>

\* Faulty variant: the credentials are read and stay in the map.
PeekCreds(d, s) ==
    /\ deleter[d].at = "idle"
    /\ status[s] \in Known
    /\ deleter' = [deleter EXCEPT ![d] =
          [at |-> IF s \in creds THEN "logout" ELSE "stop", session |-> s]]
    /\ UNCHANGED <<storeVars, credVars, startVars, bridge, creator, watcher, reaper,
                   drain, restarts>>

\* Get finds the session in any status; its credentials leave the map under
\* bmcCredsMu, so that only one handler logs it out.
TakeCreds(d, s) ==
    /\ deleter[d].at = "idle"
    /\ status[s] \in Known
    /\ deleter' = [deleter EXCEPT ![d] =
          [at |-> IF s \in creds THEN "logout" ELSE "stop", session |-> s]]
    /\ creds' = creds \ {s}
    /\ aged' = aged \ {s}
    /\ UNCHANGED <<storeVars, loggedIn, logouts, orphans, startVars, bridge, creator,
                   watcher, reaper, drain, restarts>>

\* authenticator.Logout, whose error is ignored (the request's context may be
\* gone by then).
Logout(d) ==
    /\ deleter[d].at = "logout"
    /\ deleter' = [deleter EXCEPT ![d] = At(deleter[d], "stop")]
    /\ EndLogin(deleter[d].session)
    /\ UNCHANGED <<storeVars, creds, aged, logouts, startVars, bridge, creator,
                   watcher, reaper, drain, restarts>>

\* StopIKVMBridge, StopVNCBridge and StopWSSProxy.
StopBridges(d) ==
    /\ deleter[d].at = "stop"
    /\ deleter' = [deleter EXCEPT ![d] = At(deleter[d], "finish")]
    /\ bridge' = bridge \ {deleter[d].session}
    /\ UNCHANGED <<storeVars, credVars, startVars, creator, watcher, reaper,
                   drain, restarts>>

FinishDelete(d) ==
    /\ deleter[d].at = "finish"
    /\ deleter' = [deleter EXCEPT ![d] = IdleHandler]
    /\ Set(deleter[d].session, "disconnected")
    /\ UNCHANGED <<serverOf, idle, credVars, startVars, bridge, creator, watcher,
                   reaper, drain, restarts>>

(***************************************************************************)
(* sessionCleanup, once a minute, and the clock.                           *)
(***************************************************************************)
BecomeIdle(s) ==
    /\ status[s] = "connected"
    /\ s \notin idle
    /\ idle' = idle \cup {s}
    /\ UNCHANGED <<status, serverOf, rows, credVars, startVars, bridge, creator,
                   deleter, watcher, reaper, drain, restarts>>

CredsAge(s) ==
    /\ s \in creds \ aged
    /\ aged' = aged \cup {s}
    /\ UNCHANGED <<storeVars, creds, loggedIn, logouts, orphans, startVars, bridge,
                   creator, deleter, watcher, reaper, drain, restarts>>

\* The loop finds a connected session past the idle threshold ...
IdleTimeout(s) ==
    /\ reaper = NoSession
    /\ logouts = {}
    /\ status[s] = "connected"
    /\ s \in idle
    /\ reaper' = s
    /\ UNCHANGED <<storeVars, credVars, startVars, bridge, creator, deleter, watcher,
                   drain, restarts>>

\* ... stops its iKVM bridge, if that is what it has, and ends it.  A viewer who
\* attaches between the two is like one who attaches just after: Watch and Attach
\* are separate steps.
Reap ==
    /\ reaper # NoSession
    /\ reaper' = NoSession
    /\ bridge' = IF serverOf[reaper] \in IKVMServers THEN bridge \ {reaper} ELSE bridge
    /\ Set(reaper, "disconnected")
    /\ UNCHANGED <<serverOf, idle, credVars, startVars, creator, deleter, watcher,
                   drain, restarts>>

\* Faulty variant: sessions that were disconnected are not over.
CleanupErrorsOnly ==
    LET stale == {s \in aged : status[s] = "error"}
    IN  /\ reaper = NoSession
        /\ logouts = {}
        /\ stale # {}
        /\ creds' = creds \ stale
        /\ aged' = aged \ stale
        /\ logouts' = stale
        /\ UNCHANGED <<storeVars, loggedIn, orphans, startVars, bridge, creator,
                       deleter, watcher, reaper, drain, restarts>>

\* CleanupStaleBMCCreds: under bmcCredsMu, every old entry whose session is over
\* leaves the map; the logouts follow outside the lock.
CleanupStaleBMCCreds ==
    LET stale == {s \in aged : status[s] \in Ended}
    IN  /\ reaper = NoSession
        /\ logouts = {}
        /\ stale # {}
        /\ creds' = creds \ stale
        /\ aged' = aged \ stale
        /\ logouts' = stale
        /\ UNCHANGED <<storeVars, loggedIn, orphans, startVars, bridge, creator,
                       deleter, watcher, reaper, drain, restarts>>

LogoutStale(s) ==
    /\ s \in logouts
    /\ logouts' = logouts \ {s}
    /\ EndLogin(s)
    /\ UNCHANGED <<storeVars, creds, aged, startVars, bridge, creator, deleter,
                   watcher, reaper, drain, restarts>>

(***************************************************************************)
(* Shutdown, crash, and the restart that reads the rows back.              *)
(***************************************************************************)
\* SIGTERM: main lists the sessions to end.
Shutdown ==
    /\ restarts < MaxRestarts
    /\ drain = {}
    /\ ActiveSessions # {}
    /\ drain' = {s \in Sessions : status[s] \in Known}
    /\ UNCHANGED <<storeVars, credVars, startVars, bridge, creator, deleter, watcher,
                   reaper, restarts>>

DrainSession(s) ==
    /\ s \in drain
    /\ drain' = drain \ {s}
    /\ IF status[s] \in Active
         THEN /\ Set(s, "disconnected")
              /\ bridge' = IF serverOf[s] \in IKVMServers THEN bridge \ {s} ELSE bridge
         ELSE UNCHANGED <<status, rows, bridge>>
    /\ UNCHANGED <<serverOf, idle, credVars, startVars, creator, deleter, watcher,
                   reaper, restarts>>

\* Faulty variant: only "starting" rows are taken for stale.
ReloadedAsSaved == [s \in Sessions |->
    IF rows[s] = "starting" THEN "disconnected"
    ELSE IF rows[s] = "none" /\ status[s] # "none" THEN "lost"
    ELSE rows[s]]

\* NewSQLiteSessionStore: what the cache holds once the rows of active sessions
\* are marked "disconnected"; a session without a row is forgotten.
Reloaded == [s \in Sessions |->
    IF rows[s] \in Active THEN "disconnected"
    ELSE IF rows[s] = "none" /\ status[s] # "none" THEN "lost"
    ELSE rows[s]]

\* The process exits or dies, and starts again.
Restart ==
    /\ restarts < MaxRestarts
    /\ restarts' = restarts + 1
    /\ status' = Reloaded
    /\ rows' \in {rows, [s \in Sessions |->
                         IF rows[s] = "none" THEN "none" ELSE Reloaded[s]]}
    /\ idle' = {}
    /\ creds' = {} /\ aged' = {} /\ logouts' = {}
    /\ orphans' = orphans \cup loggedIn
    /\ start' = [s \in Sessions |-> "none"]
    /\ bridge' = {}
    /\ creator' = [c \in Creators |-> IdleCreator]
    /\ deleter' = [d \in Deleters |-> IdleHandler]
    /\ watcher' = [w \in Watchers |-> IdleHandler]
    /\ reaper' = NoSession
    /\ drain' = {}
    /\ UNCHANGED <<serverOf, loggedIn, attempts>>

\* connectInfo is nil for a web-only board: the goroutine's nil dereference takes
\* the process down.
StartPanics(s) ==
    /\ start[s] = "publish"
    /\ serverOf[s] \in WebOnlyServers
    /\ Restart

-----------------------------------------------------------------------------
StartStep(s) == StartFails(s) \/ RetryAuth(s) \/ Authenticate(s) \/ StoreCreds(s) \/ Publish(s)
DeleteStep(d) == Logout(d) \/ StopBridges(d) \/ FinishDelete(d)

Next ==
    \/ \E c \in Creators, v \in Servers : FindExisting(c, v)
    \/ \E c \in Creators : CheckLimit(c)
    \/ \E c \in Creators, s \in Sessions : Create(c, s)
    \/ \E s \in Sessions : StartStep(s)
    \/ \E w \in Watchers, s \in Sessions : Watch(w, s)
    \/ \E w \in Watchers : Attach(w) \/ Unwatch(w)
    \/ \E s \in Sessions : KeepAlive(s)
    \/ \E d \in Deleters, s \in Sessions : TakeCreds(d, s)
    \/ \E d \in Deleters : DeleteStep(d)
    \/ \E s \in Sessions : BecomeIdle(s) \/ CredsAge(s) \/ IdleTimeout(s)
    \/ Reap
    \/ CleanupStaleBMCCreds
    \/ \E s \in Sessions : LogoutStale(s)
    \/ Shutdown
    \/ \E s \in Sessions : DrainSession(s)
    \/ \E s \in Sessions : StartPanics(s)
    \/ Restart

\* startSession runs under a 60 s context and has finitely many attempts, the
\* handlers that reached the BMC time out there, the cleanup ticks every minute
\* and clocks advance.  Nothing is assumed of users or of the process's life.
Fairness ==
    /\ \A s \in Sessions :
          /\ WF_vars(StartStep(s))
          /\ WF_vars(CredsAge(s))
          /\ WF_vars(LogoutStale(s))
    /\ \A d \in Deleters : WF_vars(DeleteStep(d))
    /\ WF_vars(Reap)
    /\ WF_vars(CleanupStaleBMCCreds)

Spec == Init /\ [][Next]_vars

FairSpec == Spec /\ Fairness

-----------------------------------------------------------------------------
\* A login that startSession opened on a BMC never goes missing while the process
\* lives: it is about to be stored, it is in BMCCreds, or a DeleteSession or the
\* credential cleanup has taken it out and is about to log it out.
NoUntrackedLogin ==
    \A s \in loggedIn \ orphans :
        \/ start[s] = "store"
        \/ s \in creds
        \/ s \in logouts
        \/ \E d \in Deleters : deleter[d] = [at |-> "logout", session |-> s]

\* No session is stuck in "starting": as long as one is, its startSession is still
\* running, also across a restart that finds the row of a half-started session.
StartingHasStarter ==
    \A s \in Sessions : status[s] = "starting" => start[s] # "none"

\* A session that has ended, and whose startSession has returned, never becomes
\* active again, whatever keep-alives, late WebSockets and restarts do.
EndedStaysEnded ==
    [][\A s \in Sessions :
          (status[s] \in Ended /\ start[s] = "none") => status'[s] \notin Active]_vars

\* A login whose session is over is eventually sent a Logout, by DeleteSession or by
\* the credential cleanup, even when the session was ended by the idle timeout or
\* while it was still starting.
EndedLoginsAreClosed ==
    \A s \in Sessions :
        (s \in loggedIn /\ status[s] \in Ended)
            ~> (s \notin loggedIn \/ s \in orphans \/ status[s] \in Active)

\* Who answers for the login of each session, as LoginLedger sees it.
LoginOwner == [s \in Sessions |->
    CASE s \in orphans -> "lost"
      [] s \in loggedIn \ orphans ->
            IF start[s] = "store" THEN "starter" ELSE IF s \in creds THEN "map" ELSE "closer"
      [] OTHER -> IF status[s] = "none" \/ start[s] = "auth" THEN "unopened" ELSE "over"]

Ledger == INSTANCE LoginLedger WITH Logins <- Sessions, owner <- LoginOwner

\* Whatever startSession, the DELETE handlers, the credential cleanup, shutdown and
\* restarts do concurrently, a BMC login passes from startSession to BMCCreds and
\* from BMCCreds to one handler that logs it out, never back and never twice.
ImplementsLoginLedger == Ledger!Spec
=============================================================================
