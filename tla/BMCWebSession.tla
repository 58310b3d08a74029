--------------------------- MODULE BMCWebSession ---------------------------
(***************************************************************************)
(* The web session that kvm-switcher keeps on one MegaRAC BMC, and the     *)
(* iKVM bridges that live off it.                                          *)
(*                                                                         *)
(* The login is in bmcProxyEntry (internal/api/proxy.go).  The session     *)
(* manager's goroutine and POST /api/ipmi-session renew it through         *)
(* ensureBMCSession; startSession borrows it, or creates it, and keeps the *)
(* KVM token fetched with it in session.IKVMArgs; HandleKVMWebSocket       *)
(* starts a bridge with that token and sets kvmActive so that the login is *)
(* left alone; StopIKVMBridge clears the flag.  entry.mu and bridgesMu are *)
(* each held for one read or one write, so every one of these is cut at    *)
(* those points and at each exchange with the BMC.                         *)
(*                                                                         *)
(* The BMC is external: it opens and closes web sessions, ends one on its  *)
(* own after a while, and accepts a KVM token while its web session lasts. *)
(***************************************************************************)
EXTENDS Naturals, FiniteSets

CONSTANTS
    Logins, NoLogin,        \* web sessions of the BMC; ids are reused
    Sessions, NoSession,    \* KVM sessions of this server
    Manager,                \* the session manager's goroutine
    Handlers,               \* concurrent POST /api/ipmi-session handlers
    Watchers,               \* concurrent /ws/kvm/{id} handlers
    Stoppers,               \* DeleteSession, sessionCleanup, shutdown
    Bridges, NoBridge       \* ikvm.Bridge values; ids are reused

ASSUME NullsAssumption ==
    NoLogin \notin Logins /\ NoSession \notin Sessions /\ NoBridge \notin Bridges
ASSUME ManagerAssumption == Manager \notin Handlers

VARIABLES
    live,       \* web sessions open on the BMC
    expired,    \* web sessions the BMC itself has ended
    bmcCreds,   \* entry.bmcCreds
    kvmActive,  \* entry.kvmActive
    healthy,    \* the cached status is online with a power state
    ensure,     \* the callers of ensureBMCSession: where, and with which login
    starter,    \* startSession of each session: where, and with which login
    args,       \* the login behind session.IKVMArgs
    connected,  \* sessions in status "connected"
    bridgeOf,   \* s.Bridges
    bridge,     \* "running"; "dead": the IVTP loop has ended but running is still
                \* set; "stopped"
    owner,      \* the session a bridge was started for
    watcher,    \* the WebSocket handlers: where, session, bridge
    stopper     \* the callers of StopIKVMBridge: where, session, bridge

loginVars == <<live, expired, bmcCreds, ensure>>
startVars == <<starter, args>>
bridgeVars == <<bridgeOf, bridge, owner>>
vars == <<loginVars, startVars, bridgeVars, kvmActive, healthy, connected, watcher,
          stopper>>

Ensurers == Handlers \cup {Manager}

NoHandler == [at |-> "idle", session |-> NoSession, bridge |-> NoBridge]

TypeOK ==
    /\ live \subseteq Logins
    /\ expired \subseteq Logins
    /\ bmcCreds \in Logins \cup {NoLogin}
    /\ kvmActive \in BOOLEAN
    /\ healthy \in BOOLEAN
    /\ ensure \in [Ensurers ->
            [at : {"idle", "read", "create"}, login : {NoLogin}] \cup
            [at : {"logout", "forget", "store"}, login : Logins]]
    /\ starter \in [Sessions ->
            [at : {"none", "read", "create", "done"}, login : {NoLogin}] \cup
            [at : {"store", "fetch"}, login : Logins]]
    /\ args \in [Sessions -> Logins \cup {NoLogin}]
    /\ connected \subseteq Sessions
    /\ bridgeOf \in [Sessions -> Bridges \cup {NoBridge}]
    /\ bridge \in [Bridges -> {"running", "dead", "stopped"}]
    /\ owner \in [Bridges -> Sessions \cup {NoSession}]
    /\ watcher \in [Watchers ->
            {NoHandler} \cup
            [at : {"lookup", "mark", "connect", "unmark"}, session : Sessions,
             bridge : {NoBridge}] \cup
            [at : {"register", "serve"}, session : Sessions, bridge : Bridges]]
    /\ stopper \in [Stoppers ->
            {NoHandler} \cup
            [at : {"clear", "finish"}, session : Sessions, bridge : {NoBridge}] \cup
            [at : {"stop"}, session : Sessions, bridge : Bridges]]

-----------------------------------------------------------------------------

Init ==
    /\ live = {} /\ expired = {} /\ connected = {}
    /\ bmcCreds = NoLogin
    /\ kvmActive = FALSE
    /\ healthy = FALSE
    /\ ensure = [e \in Ensurers |-> [at |-> "idle", login |-> NoLogin]]
    /\ starter = [s \in Sessions |-> [at |-> "none", login |-> NoLogin]]
    /\ args = [s \in Sessions |-> NoLogin]
    /\ bridgeOf = [s \in Sessions |-> NoBridge]
    /\ bridge = [b \in Bridges |-> "stopped"]
    /\ owner = [b \in Bridges |-> NoSession]
    /\ watcher = [w \in Watchers |-> NoHandler]
    /\ stopper = [p \in Stoppers |-> NoHandler]

\* A caller goes to its next point.
GoEnsure(e, at, l) == ensure' = [ensure EXCEPT ![e] = [at |-> at, login |-> l]]
GoStart(s, at, l) == starter' = [starter EXCEPT ![s] = [at |-> at, login |-> l]]
GoWatch(w, at, s, b) ==
    watcher' = [watcher EXCEPT ![w] = [at |-> at, session |-> s, bridge |-> b]]
GoStop(p, at, s, b) ==
    stopper' = [stopper EXCEPT ![p] = [at |-> at, session |-> s, bridge |-> b]]

\* Ids that nothing in the server or on the BMC refers to any more.
FreshLogins ==
    Logins \ (live \cup {bmcCreds} \cup {ensure[e].login : e \in Ensurers}
                   \cup {starter[s].login : s \in Sessions} \cup {args[s] : s \in Sessions})
FreshBridges ==
    {b \in Bridges : bridge[b] = "stopped"}
        \ ({bridgeOf[s] : s \in Sessions} \cup {watcher[w].bridge : w \in Watchers}
                                          \cup {stopper[p].bridge : p \in Stoppers})

\* The BMC opens web session l (createSession).
Open(l) ==
    /\ l \in FreshLogins
    /\ live' = live \cup {l}
    /\ expired' = expired \ {l}

(***************************************************************************)
(* ensureBMCSession, from the session manager's tick or an IPMI request.   *)
(***************************************************************************)
\* Faulty variant: the tick leaves a login alone that it has, dead or alive.
EnsureMissingOnly(e) ==
    /\ ensure[e].at = "idle"
    /\ e = Manager => bmcCreds = NoLogin
    /\ ~kvmActive
    /\ GoEnsure(e, "read", NoLogin)
    /\ UNCHANGED <<live, expired, bmcCreds, startVars, bridgeVars, kvmActive, healthy,
                   connected, watcher, stopper>>

\* The tick renews a login that is missing or whose status looks stale; an IPMI
\* request always renews.  Nothing happens while kvmActive is set.
Ensure(e) ==
    /\ ensure[e].at = "idle"
    /\ e = Manager => bmcCreds = NoLogin \/ ~healthy
    /\ ~kvmActive
    /\ GoEnsure(e, "read", NoLogin)
    /\ UNCHANGED <<live, expired, bmcCreds, startVars, bridgeVars, kvmActive, healthy,
                   connected, watcher, stopper>>

ReadOld(e) ==
    /\ ensure[e].at = "read"
    /\ GoEnsure(e, IF bmcCreds = NoLogin THEN "create" ELSE "logout", bmcCreds)
    /\ UNCHANGED <<live, expired, bmcCreds, startVars, bridgeVars, kvmActive, healthy,
                   connected, watcher, stopper>>

\* Logout of the old login, whose error is ignored.
LogoutOld(e) ==
    /\ ensure[e].at = "logout"
    /\ live' \in {live, live \ {ensure[e].login}}
    /\ GoEnsure(e, "forget", ensure[e].login)
    /\ UNCHANGED <<expired, bmcCreds, startVars, bridgeVars, kvmActive, healthy,
                   connected, watcher, stopper>>

\* Faulty variant: the old login is forgotten only after the new one exists.
KeepOld(e) ==
    /\ ensure[e].at = "forget"
    /\ GoEnsure(e, "create", NoLogin)
    /\ UNCHANGED <<live, expired, bmcCreds, startVars, bridgeVars, kvmActive, healthy,
                   connected, watcher, stopper>>

ForgetOld(e) ==
    /\ ensure[e].at = "forget"
    /\ bmcCreds' = NoLogin
    /\ GoEnsure(e, "create", NoLogin)
    /\ UNCHANGED <<live, expired, startVars, bridgeVars, kvmActive, healthy, connected,
                   watcher, stopper>>

CreateWebSession(e, l) ==
    /\ ensure[e].at = "create"
    /\ Open(l)
    /\ GoEnsure(e, "store", l)
    /\ UNCHANGED <<bmcCreds, startVars, bridgeVars, kvmActive, healthy, connected,
                   watcher, stopper>>

CreateFails(e) ==
    /\ ensure[e].at = "create"
    /\ GoEnsure(e, "idle", NoLogin)
    /\ UNCHANGED <<live, expired, bmcCreds, startVars, bridgeVars, kvmActive, healthy,
                   connected, watcher, stopper>>

StoreNew(e) ==
    /\ ensure[e].at = "store"
    /\ bmcCreds' = ensure[e].login
    /\ GoEnsure(e, "idle", NoLogin)
    /\ UNCHANGED <<live, expired, startVars, bridgeVars, kvmActive, healthy, connected,
                   watcher, stopper>>

(***************************************************************************)
(* startSession on an ami_megarac board.                                   *)
(***************************************************************************)
StartSession(s) ==
    /\ starter[s].at = "none"
    /\ GoStart(s, "read", NoLogin)
    /\ UNCHANGED <<loginVars, args, bridgeVars, kvmActive, healthy, connected, watcher,
                   stopper>>

ReadShared(s) ==
    /\ starter[s].at = "read"
    /\ GoStart(s, IF bmcCreds = NoLogin THEN "create" ELSE "fetch", bmcCreds)
    /\ UNCHANGED <<loginVars, args, bridgeVars, kvmActive, healthy, connected, watcher,
                   stopper>>

CreateShared(s, l) ==
    /\ starter[s].at = "create"
    /\ Open(l)
    /\ GoStart(s, "store", l)
    /\ UNCHANGED <<bmcCreds, ensure, args, bridgeVars, kvmActive, healthy, connected,
                   watcher, stopper>>

StoreShared(s) ==
    /\ starter[s].at = "store"
    /\ bmcCreds' = starter[s].login
    /\ GoStart(s, "fetch", starter[s].login)
    /\ UNCHANGED <<live, expired, ensure, args, bridgeVars, kvmActive, healthy,
                   connected, watcher, stopper>>

\* FetchKVMToken, which needs the login; the session is connected at once.
FetchKVMToken(s) ==
    /\ starter[s].at = "fetch"
    /\ starter[s].login \in live
    /\ args' = [args EXCEPT ![s] = starter[s].login]
    /\ connected' = connected \cup {s}
    /\ GoStart(s, "done", NoLogin)
    /\ UNCHANGED <<loginVars, bridgeVars, kvmActive, healthy, watcher, stopper>>

\* Authentication or the token fetch fails: the session ends in "error".
StartFails(s) ==
    /\ starter[s].at \in {"create", "fetch"}
    /\ GoStart(s, "done", NoLogin)
    /\ UNCHANGED <<loginVars, args, bridgeVars, kvmActive, healthy, connected, watcher,
                   stopper>>

(***************************************************************************)
(* HandleKVMWebSocket, proxyIKVM and ensureIKVMBridge.                     *)
(***************************************************************************)
Watch(w, s) ==
    /\ watcher[w].at = "idle"
    /\ s \in connected
    /\ GoWatch(w, "lookup", s, NoBridge)
    /\ UNCHANGED <<loginVars, startVars, bridgeVars, kvmActive, healthy, connected,
                   stopper>>

\* Under bridgesMu: the session's bridge, if its running flag is set.
Lookup(w) ==
    LET b == bridgeOf[watcher[w].session]
    IN  /\ watcher[w].at = "lookup"
        /\ IF b # NoBridge /\ bridge[b] # "stopped"
             THEN GoWatch(w, "serve", watcher[w].session, b)
             ELSE GoWatch(w, "mark", watcher[w].session, NoBridge)
        /\ UNCHANGED <<loginVars, startVars, bridgeVars, kvmActive, healthy, connected,
                       stopper>>

MarkActive(w) ==
    /\ watcher[w].at = "mark"
    /\ kvmActive' = TRUE
    /\ GoWatch(w, "connect", watcher[w].session, NoBridge)
    /\ UNCHANGED <<loginVars, startVars, bridgeVars, healthy, connected, stopper>>

\* bridge.Start with the token stored at session creation.
Connect(w, b) ==
    /\ watcher[w].at = "connect"
    /\ args[watcher[w].session] \in live
    /\ b \in FreshBridges
    /\ bridge' = [bridge EXCEPT ![b] = "running"]
    /\ owner' = [owner EXCEPT ![b] = watcher[w].session]
    /\ GoWatch(w, "register", watcher[w].session, b)
    /\ UNCHANGED <<loginVars, startVars, bridgeOf, kvmActive, healthy, connected,
                   stopper>>

ConnectFails(w) ==
    /\ watcher[w].at = "connect"
    /\ GoWatch(w, "unmark", watcher[w].session, NoBridge)
    /\ UNCHANGED <<loginVars, startVars, bridgeVars, kvmActive, healthy, connected,
                   stopper>>

\* Faulty variant: a failed start leaves the flag set.
KeepOnFailure(w) ==
    /\ watcher[w].at = "unmark"
    /\ GoWatch(w, "idle", NoSession, NoBridge)
    /\ UNCHANGED <<loginVars, startVars, bridgeVars, kvmActive, healthy, connected,
                   stopper>>

\* "Clear KVM-active on failure".
ClearOnFailure(w) ==
    /\ watcher[w].at = "unmark"
    /\ kvmActive' = FALSE
    /\ GoWatch(w, "idle", NoSession, NoBridge)
    /\ UNCHANGED <<loginVars, startVars, bridgeVars, healthy, connected, stopper>>

Register(w) ==
    /\ watcher[w].at = "register"
    /\ bridgeOf' = [bridgeOf EXCEPT ![watcher[w].session] = watcher[w].bridge]
    /\ GoWatch(w, "serve", watcher[w].session, watcher[w].bridge)
    /\ UNCHANGED <<loginVars, startVars, bridge, owner, kvmActive, healthy, connected, stopper>>

\* ServeWebSocketWithControl returns: the browser left or the bridge is over.
Leave(w) ==
    /\ watcher[w].at = "serve"
    /\ GoWatch(w, "idle", NoSession, NoBridge)
    /\ UNCHANGED <<loginVars, startVars, bridgeVars, kvmActive, healthy, connected,
                   stopper>>

(***************************************************************************)
(* StopIKVMBridge, and the status its caller then sets.                    *)
(***************************************************************************)
TakeBridge(p, s) ==
    /\ stopper[p].at = "idle"
    /\ starter[s].at # "none"
    /\ GoStop(p, IF bridgeOf[s] = NoBridge THEN "finish" ELSE "stop", s, bridgeOf[s])
    /\ bridgeOf' = [bridgeOf EXCEPT ![s] = NoBridge]
    /\ UNCHANGED <<loginVars, startVars, bridge, owner, kvmActive, healthy, connected, watcher>>

\* Bridge.Stop waits for the bridge's goroutines and clears running.
Stop(p) ==
    /\ stopper[p].at = "stop"
    /\ bridge' = [bridge EXCEPT ![stopper[p].bridge] = "stopped"]
    /\ owner' = [owner EXCEPT ![stopper[p].bridge] = NoSession]
    /\ GoStop(p, "clear", stopper[p].session, NoBridge)
    /\ UNCHANGED <<loginVars, startVars, bridgeOf, kvmActive, healthy, connected, watcher>>

ClearActive(p) ==
    /\ stopper[p].at = "clear"
    /\ kvmActive' = FALSE
    /\ GoStop(p, "finish", stopper[p].session, NoBridge)
    /\ UNCHANGED <<loginVars, startVars, bridgeVars, healthy, connected, watcher>>

Finish(p) ==
    /\ stopper[p].at = "finish"
    /\ connected' = connected \ {stopper[p].session}
    /\ GoStop(p, "idle", NoSession, NoBridge)
    /\ UNCHANGED <<loginVars, startVars, bridgeVars, kvmActive, healthy, watcher>>

(***************************************************************************)
(* The BMC and the status poller.                                          *)
(***************************************************************************)
\* The BMC ends a web session that has been idle for its timeout, which is longer
\* than a login takes.
Expire(l) ==
    /\ l \in live
    /\ \A e \in Ensurers : ensure[e] # [at |-> "store", login |-> l]
    /\ \A s \in Sessions : starter[s] # [at |-> "store", login |-> l]
    /\ live' = live \ {l}
    /\ expired' = expired \cup {l}
    /\ UNCHANGED <<bmcCreds, ensure, startVars, bridgeVars, kvmActive, healthy, connected,
                   watcher, stopper>>

\* The IVTP connection ends: RunSession returns and cancels the bridge's context;
\* the running flag stays set.
Drop(b) ==
    /\ bridge[b] = "running"
    /\ bridge' = [bridge EXCEPT ![b] = "dead"]
    /\ UNCHANGED <<loginVars, startVars, bridgeOf, owner, kvmActive, healthy, connected,
                   watcher, stopper>>

\* A poll with the cached login; it finds no power state without a live one.
PollStatus ==
    /\ healthy' = (bmcCreds \in live)
    /\ healthy' # healthy
    /\ UNCHANGED <<loginVars, startVars, bridgeVars, kvmActive, connected, watcher,
                   stopper>>

-----------------------------------------------------------------------------
EnsureStep(e) ==
    ReadOld(e) \/ LogoutOld(e) \/ ForgetOld(e) \/ CreateFails(e) \/ StoreNew(e)

Next ==
    \/ \E e \in Ensurers : Ensure(e) \/ EnsureStep(e)
    \/ \E e \in Ensurers, l \in Logins : CreateWebSession(e, l)
    \/ \E s \in Sessions : StartSession(s) \/ ReadShared(s) \/ StoreShared(s)
                             \/ FetchKVMToken(s) \/ StartFails(s)
    \/ \E s \in Sessions, l \in Logins : CreateShared(s, l)
    \/ \E w \in Watchers, s \in Sessions : Watch(w, s)
    \/ \E w \in Watchers : Lookup(w) \/ MarkActive(w) \/ ConnectFails(w)
                             \/ ClearOnFailure(w) \/ Register(w) \/ Leave(w)
    \/ \E w \in Watchers, b \in Bridges : Connect(w, b)
    \/ \E p \in Stoppers, s \in Sessions : TakeBridge(p, s)
    \/ \E p \in Stoppers : Stop(p) \/ ClearActive(p) \/ Finish(p)
    \/ \E l \in Logins : Expire(l)
    \/ \E b \in Bridges : Drop(b)
    \/ PollStatus

Spec == Init /\ [][Next]_vars

\* The manager ticks every two minutes and the poller every poll interval; a call
\* of ensureBMCSession ends within its 15 s context.  Of the BMC: it opens a web
\* session when asked again and again, and in the end closes abandoned ones.
Fairness ==
    /\ WF_vars(Ensure(Manager)) /\ WF_vars(PollStatus)
    /\ \A e \in Ensurers :
          /\ WF_vars(EnsureStep(e) \/ \E l \in Logins : CreateWebSession(e, l))
          /\ SF_vars(\E l \in Logins : CreateWebSession(e, l))
    /\ \A l \in Logins : WF_vars(Expire(l))

FairSpec == Spec /\ Fairness

-----------------------------------------------------------------------------
\* kvmActive does not outlive the bridges: while it is set there is a bridge in
\* the map, or a handler that is starting or stopping one.  Otherwise the session
\* manager would never renew the login again.
KvmActiveIsReleased ==
    kvmActive =>
        \/ \E s \in Sessions : bridgeOf[s] # NoBridge
        \/ \E w \in Watchers : watcher[w].at \in {"connect", "unmark", "register"}
        \/ \E p \in Stoppers : stopper[p].at \in {"stop", "clear"}

\* The proxy, the poller and startSession are never handed a login the server
\* itself has logged out, except while the ensureBMCSession that did so is on its
\* way to forget it, however many of them run at once.
ServedCredsAreLive ==
    bmcCreds # NoLogin =>
        \/ bmcCreds \in live \cup expired
        \/ \E e \in Ensurers : ensure[e] = [at |-> "forget", login |-> bmcCreds]

\* A missing or dead login is replaced in the end, unless an iKVM bridge keeps the
\* session manager off.
StaleLoginIsReplaced == (bmcCreds \notin live) ~> (bmcCreds \in live \/ kvmActive)

(***************************************************************************)
(* What comments in the code say and the code does not do.                 *)
(***************************************************************************)
\* ensureIKVMBridge starts a bridge "if it doesn't exist yet or has stopped": a
\* viewer is not handed one whose IVTP loop is over.
DeadBridgeIsReplaced ==
    [][\A w \in Watchers :
          watcher[w].at = "lookup" /\ watcher'[w].at = "serve"
            => bridge[watcher'[w].bridge] = "running"]_vars
=============================================================================
