--------------------------- MODULE ViewerRegistry ---------------------------
(***************************************************************************)
(* The viewer registry of one KVM session (internal/api/viewers.go): who   *)
(* watches, who has input control, and the request / accept / deny /       *)
(* time-out protocol by which control moves.                               *)
(*                                                                         *)
(* Every method holds vr.mu for its whole body, so each is one action.     *)
(* What is not atomic is the request timer: time.AfterFunc runs its        *)
(* callback on a goroutine that has to wait for vr.mu, and a Stop() that   *)
(* comes after the timer fired does not take that callback back.           *)
(*                                                                         *)
(* The environment is the set of WebSocket handlers (proxyWSS, proxyVNC,   *)
(* proxyIKVM): each registers the viewer_id its client chose when it       *)
(* starts and removes it when it returns.  Two handlers may use the same   *)
(* id: a browser page keeps its id for its whole life and reconnects with  *)
(* it before the server has noticed that the old connection is dead.       *)
(***************************************************************************)
EXTENDS Naturals, Sequences, SequencesExt

CONSTANTS
    Viewers,        \* viewer identifiers
    NoViewer,       \* the empty identifier
    Conns,          \* WebSocket handlers
    NoRequest,      \* the nil *ControlRequest
    MaxRequests     \* bound: control requests made in one behaviour

ASSUME ViewersAssumption == NoViewer \notin Viewers
ASSUME RequestAssumption ==
    /\ MaxRequests \in Nat
    /\ NoRequest \notin [id : Viewers, n : Nat]

VARIABLES
    conn,           \* the viewer id each handler registered, or NoViewer
    viewers,        \* the keys of vr.viewers
    controller,     \* vr.controller
    order,          \* vr.order
    pendingRequest, \* vr.pendingRequest
    requestTimer,   \* the request whose timer is running (vr.requestTimer)
    fired,          \* requests whose timer went off, callback not yet run
    requests        \* number of requests made so far; names the requests

vars == <<conn, viewers, controller, order, pendingRequest, requestTimer,
          fired, requests>>

Request == [id : Viewers, n : Nat]

TypeOK ==
    /\ conn \in [Conns -> Viewers \cup {NoViewer}]
    /\ viewers \subseteq Viewers
    /\ controller \in Viewers \cup {NoViewer}
    /\ order \in Seq(Viewers)
    /\ pendingRequest \in Request \cup {NoRequest}
    /\ requestTimer \in Request \cup {NoRequest}
    /\ fired \subseteq Request
    /\ requests \in Nat

-----------------------------------------------------------------------------
Init ==
    /\ conn = [c \in Conns |-> NoViewer]
    /\ viewers = {}
    /\ controller = NoViewer
    /\ order = <<>>
    /\ pendingRequest = NoRequest
    /\ requestTimer = NoRequest
    /\ fired = {}
    /\ requests = 0

\* The head of the connection order, NoViewer when nobody is left.
FirstInOrder(s) == IF s = <<>> THEN NoViewer ELSE Head(s)

\* The first viewer in connection order other than v.
NextInOrder(s, v) ==
    LET i == SelectInSeq(s, LAMBDA w : w # v)
    IN  IF i = 0 THEN NoViewer ELSE s[i]

\* ViewerRegistry.Add: a handler starts.  Re-adding an id overwrites its map
\* entry but appends to the order once more.
Add(c, v) ==
    /\ conn[c] = NoViewer
    /\ conn' = [conn EXCEPT ![c] = v]
    /\ viewers' = viewers \cup {v}
    /\ order' = Append(order, v)
    /\ controller' = IF controller = NoViewer THEN v ELSE controller
    /\ UNCHANGED <<pendingRequest, requestTimer, fired, requests>>

\* Faulty variant of Remove: the loop over the order lacks its break.
RemoveEveryEntry(c) ==
    LET v == conn[c]
    IN  /\ v # NoViewer
        /\ conn' = [conn EXCEPT ![c] = NoViewer]
        /\ viewers' = viewers \ {v}
        /\ order' = SelectSeq(order, LAMBDA w : w # v)
        /\ controller' = IF controller = v THEN FirstInOrder(order') ELSE controller
        /\ UNCHANGED <<pendingRequest, requestTimer, fired, requests>>

\* The deferred ViewerRegistry.Remove: a handler returns.  The map entry goes
\* whether or not another handler still uses the id.
RemoveViewer(c) ==
    LET v == conn[c]
    IN  /\ v # NoViewer
        /\ conn' = [conn EXCEPT ![c] = NoViewer]
        /\ viewers' = viewers \ {v}
        /\ order' = RemoveFirst(order, v)
        /\ controller' = IF controller = v THEN FirstInOrder(order') ELSE controller
        /\ UNCHANGED <<pendingRequest, requestTimer, fired, requests>>

\* Faulty variant of RequestControl: starts the new timer, then stops "the old
\* one" through the pointer that already holds the new one.
StopAfterStart(v) ==
    /\ requests < MaxRequests
    /\ v \in viewers
    /\ controller # v
    /\ pendingRequest' = [id |-> v, n |-> requests + 1]
    /\ requestTimer' = NoRequest
    /\ requests' = requests + 1
    /\ UNCHANGED <<conn, viewers, controller, order, fired>>

\* ViewerRegistry.RequestControl, for the id in the request body or the one
\* found by the caller's address: replaces the pending request, stops the old
\* timer and starts a new one.
RequestControl(v) ==
    /\ requests < MaxRequests
    /\ v \in viewers
    /\ controller # v
    /\ LET r == [id |-> v, n |-> requests + 1]
       IN  /\ pendingRequest' = r
           /\ requestTimer' = r
    /\ requests' = requests + 1
    /\ UNCHANGED <<conn, viewers, controller, order, fired>>

\* The runtime starts the timer's callback, which will wait for vr.mu.
TimerFires ==
    /\ requestTimer # NoRequest
    /\ fired' = fired \cup {requestTimer}
    /\ requestTimer' = NoRequest
    /\ UNCHANGED <<conn, viewers, controller, order, pendingRequest, requests>>

\* Faulty variants of the timeout callback: one grants without looking whether
\* the viewer is still there, one without looking whether a request is still
\* pending, one starts the clock again for a viewer that has gone.
UncheckedTimeout(r) ==
    /\ fired' = fired \ {r}
    /\ IF pendingRequest # NoRequest /\ pendingRequest.id = r.id
         THEN controller' = r.id /\ pendingRequest' = NoRequest
         ELSE UNCHANGED <<controller, pendingRequest>>
    /\ UNCHANGED <<conn, viewers, order, requestTimer, requests>>

TimeoutIgnoringDenial(r) ==
    /\ fired' = fired \ {r}
    /\ controller' = IF r.id \in viewers THEN r.id ELSE controller
    /\ pendingRequest' = NoRequest
    /\ UNCHANGED <<conn, viewers, order, requestTimer, requests>>

TimeoutRearming(r) ==
    /\ fired' = fired \ {r}
    /\ IF pendingRequest # NoRequest /\ pendingRequest.id = r.id
         THEN IF r.id \in viewers
                THEN controller' = r.id /\ pendingRequest' = NoRequest /\ UNCHANGED requestTimer
                ELSE requestTimer' = pendingRequest /\ UNCHANGED <<controller, pendingRequest>>
         ELSE UNCHANGED <<controller, pendingRequest, requestTimer>>
    /\ UNCHANGED <<conn, viewers, order, requests>>

\* The callback of request r has vr.mu.  It compares the viewer of the pending
\* request with its own, not the request itself.
TimeoutCallback(r) ==
    /\ fired' = fired \ {r}
    /\ IF pendingRequest # NoRequest /\ pendingRequest.id = r.id
         THEN /\ controller' = IF r.id \in viewers THEN r.id ELSE controller
              /\ pendingRequest' = NoRequest
         ELSE UNCHANGED <<controller, pendingRequest>>
    /\ UNCHANGED <<conn, viewers, order, requestTimer, requests>>

\* ViewerRegistry.AcceptControlRequest with a requester that is still there.
AcceptControlRequest ==
    /\ pendingRequest # NoRequest
    /\ pendingRequest.id \in viewers
    /\ controller' = pendingRequest.id
    /\ pendingRequest' = NoRequest
    /\ requestTimer' = NoRequest
    /\ UNCHANGED <<conn, viewers, order, fired, requests>>

\* ViewerRegistry.AcceptControlRequest when the requester has gone: the early
\* return leaves the timer running.
AcceptGoneRequester ==
    /\ pendingRequest # NoRequest
    /\ pendingRequest.id \notin viewers
    /\ pendingRequest' = NoRequest
    /\ UNCHANGED <<conn, viewers, controller, order, requestTimer, fired, requests>>

\* ViewerRegistry.DenyControlRequest, whether or not something is pending.
DenyControlRequest ==
    /\ pendingRequest' = NoRequest
    /\ requestTimer' = NoRequest
    /\ UNCHANGED <<conn, viewers, controller, order, fired, requests>>

\* ViewerRegistry.ReleaseControl by the controller (for anyone else it returns
\* early); the HTTP handler turns the request away when Count() is zero.
ReleaseControl(v) ==
    /\ viewers # {}
    /\ controller = v
    /\ controller' = NextInOrder(order, v)
    /\ UNCHANGED <<conn, viewers, order, pendingRequest, requestTimer, fired, requests>>

Next ==
    \/ \E c \in Conns, v \in Viewers : Add(c, v)
    \/ \E c \in Conns : RemoveViewer(c)
    \/ \E v \in Viewers : RequestControl(v)
    \/ TimerFires
    \/ \E r \in fired : TimeoutCallback(r)
    \/ AcceptControlRequest
    \/ AcceptGoneRequester
    \/ DenyControlRequest
    \/ \E v \in Viewers : ReleaseControl(v)

\* The Go runtime runs a timer that nobody stops, and sync.RWMutex is handed
\* to a goroutine that keeps waiting for it.  Nothing is assumed of browsers.
Fairness ==
    /\ WF_vars(TimerFires)
    /\ \A v \in Viewers, n \in 1..MaxRequests :
          WF_vars([id |-> v, n |-> n] \in fired /\ TimeoutCallback([id |-> v, n |-> n]))

Spec == Init /\ [][Next]_vars

FairSpec == Spec /\ Fairness

-----------------------------------------------------------------------------
(***************************************************************************)
(* Properties.                                                             *)
(***************************************************************************)

\* Input control is never left with a viewer that has gone: whoever
\* controller names has a handler that is still running.  The registry only
\* keeps ids, possibly repeated, so this rests on Remove taking exactly one
\* entry out of order and on every grant looking the viewer up first.
ControllerIsConnected ==
    controller # NoViewer => \E c \in Conns : conn[c] = controller

\* f assigns to each entry of an order the handler that registered it.
Assigns(f, o, cn) ==
    /\ \A i, j \in 1..Len(o) : f[i] = f[j] => i = j
    /\ \A i \in 1..Len(o) : cn[f[i]] = o[i]
    /\ \A c \in Conns : cn[c] # NoViewer => \E i \in 1..Len(o) : f[i] = c

\* The registry's own bookkeeping: the entries of order are the running
\* handlers, one each under the id it registered, and neither the map nor
\* controller names an id that order has lost.
OrderMatchesHandlers ==
    /\ viewers \subseteq Range(order)
    /\ controller # NoViewer => controller \in Range(order)
    /\ \E f \in [1..Len(order) -> Conns] : Assigns(f, order, conn)

\* A pending request always has its own clock: its timer is running, or has
\* gone off and the callback is on its way.  Without it a request that nobody
\* answers would block the session's control forever.
PendingRequestHasTimer ==
    pendingRequest # NoRequest =>
        requestTimer = pendingRequest \/ pendingRequest \in fired

\* Requests are answered in the end, by somebody or by the clock, as
\* RequestControl's comment promises.
RequestsAreResolved ==
    \A n \in 1..MaxRequests :
        (pendingRequest # NoRequest /\ pendingRequest.n = n)
            ~> ~(pendingRequest # NoRequest /\ pendingRequest.n = n)

\* The registry implements the abstract control token.
Token == INSTANCE ControlToken
    WITH line <- order,
         holder <- controller,
         claim <- IF pendingRequest = NoRequest THEN NoViewer ELSE pendingRequest.id

ImplementsControlToken == Token!Spec
=============================================================================
