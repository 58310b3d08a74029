------------------------------ MODULE WSSProxy ------------------------------
(***************************************************************************)
(* The shared WebSocket backend of one session (proxyWSS, ensureWSSProxy,  *)
(* wssBroadcastLoop and StopWSSProxy in api/websocket.go): the first       *)
(* viewer dials the BMC, the others join, the last one to leave hangs up.  *)
(*                                                                         *)
(* Two mutexes are involved, one for the map of proxies and one in each    *)
(* proxy, and no operation holds both or holds one for all of its work.    *)
(* Every section under a mutex is one action.  What is in the messages is  *)
(* left out; who may send input is ViewerRegistry's business.              *)
(***************************************************************************)
CONSTANTS
    Viewers,    \* viewers' handlers
    Deleters,   \* DeleteSession, which calls StopWSSProxy
    Proxies,    \* wssProxy objects, one for each successful dial
    NoProxy

Stoppers == Viewers \cup Deleters

ASSUME ActorsAssumption == Viewers \cap Deleters = {}
ASSUME ProxiesAssumption == NoProxy \notin Proxies

VARIABLES
    current,    \* s.WSSProxies[session.ID]
    pc,
    mine,       \* the proxy a handler works with
    ws,         \* the browser's WebSocket is open
    proxyClients, \* proxy.clients
    backend,    \* proxy.backend; "lost": the BMC is gone
    done,       \* proxy.done is closed
    taken,      \* the proxy StopWSSProxy has taken out of the map
    overwritten \* ghost: proxies that another creator's entry has replaced

wssVars == <<current, pc, mine, ws, proxyClients, backend, done, taken, overwritten>>

\* Handlers that are, or are about to be, or have just been, in proxy.clients.
Attached == {"register", "top", "read", "leave"}

WSSTypeOK ==
    /\ current \in Proxies \cup {NoProxy}
    /\ pc \in [Stoppers -> {"new", "dial", "publish", "stop", "close", "over"} \cup Attached]
    /\ mine \in [Viewers -> Proxies \cup {NoProxy}]
    /\ ws \in [Viewers -> BOOLEAN]
    /\ proxyClients \in [Proxies -> SUBSET Viewers]
    /\ backend \in [Proxies -> {"unused", "open", "lost", "closed"}]
    /\ done \in [Proxies -> BOOLEAN]
    /\ taken \in [Stoppers -> Proxies \cup {NoProxy}]
    /\ overwritten \in SUBSET Proxies
    /\ \A c \in Viewers : pc[c] \in Attached \cup {"publish"} => mine[c] # NoProxy
    /\ \A s \in Stoppers : pc[s] = "close" => taken[s] # NoProxy
    /\ \A p \in Proxies : \A c \in proxyClients[p] :
          mine[c] = p /\ pc[c] \in {"top", "read", "leave"}

WSSInit ==
    /\ current = NoProxy
    /\ pc = [s \in Stoppers |-> "new"]
    /\ mine = [c \in Viewers |-> NoProxy]
    /\ ws = [c \in Viewers |-> TRUE]
    /\ proxyClients = [p \in Proxies |-> {}]
    /\ backend = [p \in Proxies |-> "unused"]
    /\ done = [p \in Proxies |-> FALSE]
    /\ taken = [s \in Stoppers |-> NoProxy]
    /\ overwritten = {}

GoTo(s, step) == pc' = [pc EXCEPT ![s] = step]

-----------------------------------------------------------------------------
(***************************************************************************)
(* ensureWSSProxy: look, dial without a lock, store.                       *)
(***************************************************************************)
\* A proxy whose broadcast loop has ended is taken out of the map.
ensureWSSProxy(c) ==
    /\ pc[c] = "new"
    /\ IF current # NoProxy /\ ~done[current]
         THEN /\ mine' = [mine EXCEPT ![c] = current]
              /\ GoTo(c, "register")
              /\ UNCHANGED current
         ELSE /\ current' = NoProxy
              /\ GoTo(c, "dial")
              /\ UNCHANGED mine
    /\ UNCHANGED <<ws, proxyClients, backend, done, taken, overwritten>>

\* The broadcast loop of the new proxy is started before it is stored.
DialBackend(c) ==
    /\ pc[c] = "dial"
    /\ \/ \E p \in Proxies :
             /\ backend[p] = "unused"
             /\ backend' = [backend EXCEPT ![p] = "open"]
             /\ mine' = [mine EXCEPT ![c] = p]
             /\ GoTo(c, "publish")
       \/ GoTo(c, "over") /\ UNCHANGED <<backend, mine>>
    /\ UNCHANGED <<current, ws, proxyClients, done, taken, overwritten>>

Publish(c) ==
    /\ pc[c] = "publish"
    /\ current' = mine[c]
    /\ overwritten' = overwritten \cup ({current} \ {NoProxy})
    /\ GoTo(c, "register")
    /\ UNCHANGED <<mine, ws, proxyClients, backend, done, taken>>

(***************************************************************************)
(* proxyWSS: register, read the browser until one side fails, leave.       *)
(***************************************************************************)
JoinProxy(c) ==
    /\ pc[c] = "register"
    /\ proxyClients' = [proxyClients EXCEPT ![mine[c]] = @ \cup {c}]
    /\ GoTo(c, "top")
    /\ UNCHANGED <<current, mine, ws, backend, done, taken, overwritten>>

LoopTop(c) ==
    /\ pc[c] = "top"
    /\ GoTo(c, IF done[mine[c]] THEN "leave" ELSE "read")
    /\ UNCHANGED <<current, mine, ws, proxyClients, backend, done, taken, overwritten>>

\* The message is dropped, or written; a connection that is not open may refuse it.
Message(c) ==
    /\ pc[c] = "read" /\ ws[c]
    /\ \/ GoTo(c, "top")
       \/ backend[mine[c]] # "open" /\ GoTo(c, "leave")
    /\ UNCHANGED <<current, mine, ws, proxyClients, backend, done, taken, overwritten>>

ReadError(c) ==
    /\ pc[c] = "read" /\ ~ws[c]
    /\ GoTo(c, "leave")
    /\ UNCHANGED <<current, mine, ws, proxyClients, backend, done, taken, overwritten>>

\* Faulty variant: the remaining clients are counted before the deletion.
LeaveCountingItself(c) ==
    /\ pc[c] = "leave"
    /\ proxyClients' = [proxyClients EXCEPT ![mine[c]] = @ \ {c}]
    /\ GoTo(c, IF proxyClients[mine[c]] = {} THEN "stop" ELSE "over")
    /\ UNCHANGED <<current, mine, ws, backend, done, taken, overwritten>>

\* "If no clients left, tear down the backend connection".
LeaveProxy(c) ==
    /\ pc[c] = "leave"
    /\ proxyClients' = [proxyClients EXCEPT ![mine[c]] = @ \ {c}]
    /\ GoTo(c, IF proxyClients'[mine[c]] = {} THEN "stop" ELSE "over")
    /\ UNCHANGED <<current, mine, ws, backend, done, taken, overwritten>>

(***************************************************************************)
(* StopWSSProxy, by DeleteSession or by a handler that has left.           *)
(***************************************************************************)
StopTake(s) ==
    /\ pc[s] = "stop" \/ (s \in Deleters /\ pc[s] = "new")
    /\ taken' = [taken EXCEPT ![s] = current]
    /\ current' = NoProxy
    /\ GoTo(s, IF current = NoProxy THEN "over" ELSE "close")
    /\ UNCHANGED <<mine, ws, proxyClients, backend, done, overwritten>>

\* Faulty variant: the viewers are left to find out by themselves.
StopCloseBackendOnly(s) ==
    /\ pc[s] = "close"
    /\ backend' = [backend EXCEPT ![taken[s]] = "closed"]
    /\ proxyClients' = [proxyClients EXCEPT ![taken[s]] = {}]
    /\ taken' = [taken EXCEPT ![s] = NoProxy]
    /\ GoTo(s, "over")
    /\ UNCHANGED <<current, mine, ws, done, overwritten>>

StopClose(s) ==
    /\ pc[s] = "close"
    /\ backend' = [backend EXCEPT ![taken[s]] = "closed"]
    /\ ws' = [c \in Viewers |-> ws[c] /\ c \notin proxyClients[taken[s]]]
    /\ proxyClients' = [proxyClients EXCEPT ![taken[s]] = {}]
    /\ taken' = [taken EXCEPT ![s] = NoProxy]
    /\ GoTo(s, "over")
    /\ UNCHANGED <<current, mine, done, overwritten>>

(***************************************************************************)
(* wssBroadcastLoop.                                                       *)
(***************************************************************************)
\* A message of the BMC: viewers that do not take it are closed and removed.
Broadcast(p) ==
    /\ backend[p] # "unused" /\ ~done[p]
    /\ \E failed \in SUBSET proxyClients[p] :
          /\ {c \in proxyClients[p] : ~ws[c]} \subseteq failed
          /\ ws' = [c \in Viewers |-> ws[c] /\ c \notin failed]
          /\ proxyClients' = [proxyClients EXCEPT ![p] = @ \ failed]
    /\ UNCHANGED <<current, pc, mine, backend, done, taken, overwritten>>

LoopEnds(p) ==
    /\ backend[p] \in {"lost", "closed"} /\ ~done[p]
    /\ done' = [done EXCEPT ![p] = TRUE]
    /\ UNCHANGED <<current, pc, mine, ws, proxyClients, backend, taken, overwritten>>

\* External: the BMC goes away, the browser goes away.
BackendLost(p) ==
    /\ backend[p] = "open"
    /\ backend' = [backend EXCEPT ![p] = "lost"]
    /\ UNCHANGED <<current, pc, mine, ws, proxyClients, done, taken, overwritten>>

BrowserGone(c) ==
    /\ ws[c] /\ pc[c] # "over"
    /\ ws' = [ws EXCEPT ![c] = FALSE]
    /\ UNCHANGED <<current, pc, mine, proxyClients, backend, done, taken, overwritten>>

-----------------------------------------------------------------------------
\* What a handler does without waiting for the browser or the BMC.
Proceed(c) == Publish(c) \/ JoinProxy(c) \/ LoopTop(c) \/ ReadError(c) \/ LeaveProxy(c)
StopWSSProxy(s) == StopTake(s) \/ StopClose(s)

WSSNext ==
    \/ \E c \in Viewers :
          ensureWSSProxy(c) \/ DialBackend(c) \/ Message(c) \/ Proceed(c) \/ BrowserGone(c)
    \/ \E s \in Stoppers : StopWSSProxy(s)
    \/ \E p \in Proxies : Broadcast(p) \/ LoopEnds(p) \/ BackendLost(p)

WSSSpec == WSSInit /\ [][WSSNext]_wssVars

\* Handlers run, and mutexes are handed on; a write to a viewer has a deadline of 5 s.
WSSFairSpec ==
    /\ WSSSpec
    /\ \A c \in Viewers : WF_wssVars(Proceed(c))
    /\ \A s \in Stoppers : WF_wssVars(StopWSSProxy(s))

-----------------------------------------------------------------------------
\* The connection to the BMC is not kept open with nobody to close it: somebody is
\* using it or on the way to closing it, whatever the order in which viewers join,
\* are dropped, leave, and sessions are deleted.  Excepted is a proxy that was
\* replaced in the map because two viewers dialled at once.
NoIdleBackend ==
    \A p \in Proxies : backend[p] = "open" =>
        \/ \E c \in Viewers : mine[c] = p /\ pc[c] \in Attached \cup {"publish", "stop"}
        \/ \E s \in Stoppers : pc[s] = "close" /\ taken[s] = p
        \/ p \in overwritten

\* Stopping a proxy ends the handlers of all viewers registered by then, a viewer who
\* registers between the two critical sections of StopWSSProxy included.
StoppedViewersLeave ==
    \A c \in Viewers :
        (\E s \in Stoppers : pc[s] = "close" /\ c \in proxyClients[taken[s]]) ~> (pc[c] = "over")
=============================================================================
