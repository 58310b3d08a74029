------------------------------ MODULE VNCBridge ------------------------------
(***************************************************************************)
(* One VNC bridge (internal/vnc/bridge.go): a TCP connection to a BMC that *)
(* is shared by the viewers of a session and outlives them.  A broadcast   *)
(* goroutine reads the connection and writes to every registered viewer;   *)
(* each viewer's own handler (proxyVNC, ServeWebSocketWithControl) writes  *)
(* the viewer's messages to the connection.                                *)
(*                                                                         *)
(* b.mu and b.clientsMu are each held for one read or one write, b.conn is *)
(* a plain field that reconnecting handlers replace under nobody's lock.   *)
(*                                                                         *)
(* The model begins when the first viewer's handler has started the bridge *)
(* and put it in VNCBridges.  What the BMC and the browsers send is        *)
(* abstracted to whether it is there.  A browser sends its opening         *)
(* messages (pixel format, encodings, a first update request) once the     *)
(* handshake is over; after that it may be silent for ever.                *)
(***************************************************************************)
EXTENDS Naturals, FiniteSets

CONSTANTS
    Clients,        \* WebSocket handlers, each serving one viewer
    Conns, NoConn,  \* TCP connections; ids are reused
    Loops           \* broadcast goroutines

ASSUME ConnAssumption == NoConn \notin Conns /\ Conns # {}

VARIABLES
    mapped,         \* the bridge is in VNCBridges
    running,        \* b.running
    broadcasting,   \* b.broadcasting
    conn,           \* b.conn
    link,           \* each connection: "open", "lost" (the BMC is gone and
                    \* nothing is left to read), "closed" (by the server, or never
                    \* opened)
    clients,        \* the keys of b.clients
    closedWs,       \* viewers whose WebSocket Stop has closed
    greeting,       \* viewers whose opening messages are not yet read
    at,             \* where each handler is
    dialed,         \* the connection a reconnecting handler has dialled
    loop,           \* where each broadcast goroutine is
    reading,        \* the connection it is reading
    stop            \* StopVNCBridge: "none", "taken", "close", "sweep", and how it
                    \* ended: "swept", or "ignored" for a bridge not running

flagVars == <<mapped, running, broadcasting>>
connVars == <<conn, link, dialed>>
wsVars == <<clients, closedWs, greeting>>
loopVars == <<loop, reading>>
vars == <<flagVars, connVars, wsVars, at, loopVars, stop>>

Points == {"idle", "enter", "count", "probe", "reconnect", "clear", "start", "install",
           "running", "handshake", "register", "ensure", "serve", "write", "leave"}

TypeOK ==
    /\ mapped \in BOOLEAN /\ running \in BOOLEAN /\ broadcasting \in BOOLEAN
    /\ conn \in Conns
    /\ link \in [Conns -> {"open", "lost", "closed"}]
    /\ clients \subseteq Clients /\ closedWs \subseteq Clients /\ greeting \subseteq Clients
    /\ at \in [Clients -> Points]
    /\ dialed \in [Clients -> Conns \cup {NoConn}]
    /\ loop \in [Loops -> {"off", "check", "read", "exit"}]
    /\ reading \in [Loops -> Conns \cup {NoConn}]
    /\ stop \in {"none", "taken", "close", "sweep", "swept", "ignored"}

-----------------------------------------------------------------------------
\* ensureVNCBridge has started the bridge and stored it.
Init ==
    /\ mapped = TRUE /\ running = TRUE /\ broadcasting = FALSE
    /\ conn = CHOOSE k \in Conns : TRUE
    /\ link = [k \in Conns |-> IF k = conn THEN "open" ELSE "closed"]
    /\ clients = {} /\ closedWs = {} /\ greeting = {}
    /\ at = [c \in Clients |-> "idle"]
    /\ dialed = [c \in Clients |-> NoConn]
    /\ loop = [l \in Loops |-> "off"]
    /\ reading = [l \in Loops |-> NoConn]
    /\ stop = "none"

Go(c, point) == at' = [at EXCEPT ![c] = point]
LoopTo(l, point, k) ==
    /\ loop' = [loop EXCEPT ![l] = point]
    /\ reading' = [reading EXCEPT ![l] = k]

\* Connections nothing refers to any more.
FreshConns ==
    {k \in Conns : link[k] = "closed"}
        \ ({conn} \cup {dialed[c] : c \in Clients} \cup {reading[l] : l \in Loops})

IdleLoops == {l \in Loops : loop[l] = "off"}

\* Which connection or goroutine is taken next makes no difference.
NextConn == CHOOSE k \in FreshConns : TRUE
NextLoop == CHOOSE l \in IdleLoops : TRUE

(***************************************************************************)
(* A viewer's handler.                                                     *)
(***************************************************************************)
\* ensureVNCBridge finds the bridge running.
Lookup(c) ==
    /\ at[c] = "idle"
    /\ mapped /\ running
    /\ Go(c, "enter")
    /\ UNCHANGED <<flagVars, connVars, wsVars, loopVars, stop>>

\* ensureVNCBridge finds it not running and puts a new one in its place.
Replace ==
    /\ mapped /\ ~running
    /\ mapped' = FALSE
    /\ UNCHANGED <<running, broadcasting, connVars, wsVars, at, loopVars, stop>>

\* ServeWebSocketWithControl: Running, then clientCount.
Enter(c) ==
    /\ at[c] = "enter"
    /\ Go(c, IF running THEN "count" ELSE "idle")
    /\ UNCHANGED <<flagVars, connVars, wsVars, loopVars, stop>>

Count(c) ==
    /\ at[c] = "count"
    /\ Go(c, IF clients = {} THEN "probe" ELSE "handshake")
    /\ UNCHANGED <<flagVars, connVars, wsVars, loopVars, stop>>

\* The one-millisecond read: a timeout or a byte means the connection is alive.  The
\* deadline it sets applies to a broadcast goroutine reading the same connection.
Probe(c) ==
    /\ at[c] = "probe"
    /\ Go(c, IF link[conn] = "open" THEN "handshake" ELSE "reconnect")
    /\ \/ UNCHANGED loopVars
       \/ \E l \in Loops : reading[l] = conn /\ LoopTo(l, "exit", NoConn)
    /\ UNCHANGED <<flagVars, connVars, wsVars, stop>>

\* Faulty variant: the lost connection is also forgotten.
ForgetLost(c) ==
    /\ at[c] = "reconnect"
    /\ link' = [link EXCEPT ![conn] = "closed"]
    /\ conn' = NoConn
    /\ Go(c, "clear")
    /\ UNCHANGED <<flagVars, dialed, wsVars, loopVars, stop>>

\* "TCP connection lost, reconnecting": whatever b.conn is by now is closed, ...
CloseLost(c) ==
    /\ at[c] = "reconnect"
    /\ link' = [link EXCEPT ![conn] = "closed"]
    /\ Go(c, "clear")
    /\ UNCHANGED <<flagVars, conn, dialed, wsVars, loopVars, stop>>

\* ... and then the flag is cleared, which another handler may have set meanwhile for
\* a connection of its own: that one stays open in a bridge that is not running.
ClearLost(c) ==
    /\ at[c] = "clear"
    /\ running' = FALSE
    /\ Go(c, "start")
    /\ UNCHANGED <<mapped, broadcasting, connVars, wsVars, loopVars, stop>>

\* Bridge.Start: somebody else has reconnected meanwhile.
StartRunning(c) ==
    /\ at[c] = "start"
    /\ running
    /\ Go(c, "handshake")
    /\ UNCHANGED <<flagVars, connVars, wsVars, loopVars, stop>>

\* Bridge.Start dials and authenticates.  bmcHandshake ignores most read errors, so
\* the BMC may be gone when it returns nil.
Dial(c) ==
    /\ at[c] = "start"
    /\ ~running
    /\ FreshConns # {}
    /\ \E s \in {"open", "lost"} : link' = [link EXCEPT ![NextConn] = s]
    /\ dialed' = [dialed EXCEPT ![c] = NextConn]
    /\ Go(c, "install")
    /\ UNCHANGED <<flagVars, conn, wsVars, loopVars, stop>>

DialFails(c) ==
    /\ at[c] = "start"
    /\ ~running
    /\ Go(c, "idle")
    /\ UNCHANGED <<flagVars, connVars, wsVars, loopVars, stop>>

\* Bridge.Start stores the connection, under no lock, and then sets running.
Install(c) ==
    /\ at[c] = "install"
    /\ conn' = dialed[c]
    /\ dialed' = [dialed EXCEPT ![c] = NoConn]
    /\ Go(c, "running")
    /\ UNCHANGED <<flagVars, link, wsVars, loopVars, stop>>

SetRunning(c) ==
    /\ at[c] = "running"
    /\ running' = TRUE
    /\ Go(c, "handshake")
    /\ UNCHANGED <<mapped, broadcasting, connVars, wsVars, loopVars, stop>>

\* clientHandshake; the browser answers with its opening messages, or is gone.
Handshake(c) ==
    /\ at[c] = "handshake"
    /\ \/ Go(c, "register") /\ greeting' = greeting \cup {c}
       \/ Go(c, "idle") /\ UNCHANGED greeting
    /\ UNCHANGED <<flagVars, connVars, clients, closedWs, loopVars, stop>>

Register(c) ==
    /\ at[c] = "register"
    /\ clients' = clients \cup {c}
    /\ Go(c, "ensure")
    /\ UNCHANGED <<flagVars, connVars, closedWs, greeting, loopVars, stop>>

\* Faulty variant: the flag is not looked at.
EnsureUnguarded(c) ==
    /\ at[c] = "ensure"
    /\ Go(c, "serve")
    /\ broadcasting' = TRUE
    /\ IdleLoops # {} /\ LoopTo(NextLoop, "check", NoConn)
    /\ UNCHANGED <<mapped, running, connVars, wsVars, stop>>

\* ensureBroadcast starts a broadcast goroutine unless the flag is set.
EnsureBroadcast(c) ==
    /\ at[c] = "ensure"
    /\ Go(c, "serve")
    /\ broadcasting' = TRUE
    /\ IF broadcasting
         THEN UNCHANGED loopVars
         ELSE IdleLoops # {} /\ LoopTo(NextLoop, "check", NoConn)
    /\ UNCHANGED <<mapped, running, connVars, wsVars, stop>>

\* readClientInput reads a message that is to be forwarded; the input events of a
\* viewer without control are dropped and change nothing here.
Receive(c) ==
    /\ at[c] = "serve"
    /\ c \notin closedWs
    /\ Go(c, "write")
    /\ greeting' = greeting \ {c}
    /\ UNCHANGED <<flagVars, connVars, clients, closedWs, loopVars, stop>>

\* The write to b.conn.  A connection the BMC has left may take it or refuse it.
Write(c) ==
    /\ at[c] = "write"
    /\ \/ link[conn] \in {"open", "lost"} /\ Go(c, "serve")
       \/ link[conn] \in {"lost", "closed"} /\ Go(c, "leave")
    /\ UNCHANGED <<flagVars, connVars, wsVars, loopVars, stop>>

\* ReadMessage fails: the browser left, or Stop closed the WebSocket.
WsGone(c) ==
    /\ at[c] = "serve"
    /\ Go(c, "leave")
    /\ UNCHANGED <<flagVars, connVars, wsVars, loopVars, stop>>

Leave(c) ==
    /\ at[c] = "leave"
    /\ clients' = clients \ {c}
    /\ closedWs' = closedWs \ {c}
    /\ greeting' = greeting \ {c}
    /\ Go(c, "idle")
    /\ UNCHANGED <<flagVars, connVars, loopVars, stop>>

(***************************************************************************)
(* runBroadcast.                                                           *)
(***************************************************************************)
LoopCheck(l) ==
    /\ loop[l] = "check"
    /\ IF running THEN LoopTo(l, "read", conn) ELSE LoopTo(l, "exit", NoConn)
    /\ UNCHANGED <<flagVars, connVars, wsVars, at, stop>>

\* Data, which broadcastToAll passes on to whoever is registered ...
LoopData(l) ==
    /\ loop[l] = "read"
    /\ link[reading[l]] = "open"
    /\ LoopTo(l, "check", NoConn)
    /\ UNCHANGED <<flagVars, connVars, wsVars, at, stop>>

\* ... or an error, which ends the goroutine whether or not the bridge is running.
LoopError(l) ==
    /\ loop[l] = "read"
    /\ link[reading[l]] # "open"
    /\ LoopTo(l, "exit", NoConn)
    /\ UNCHANGED <<flagVars, connVars, wsVars, at, stop>>

LoopExit(l) ==
    /\ loop[l] = "exit"
    /\ LoopTo(l, "off", NoConn)
    /\ broadcasting' = FALSE
    /\ UNCHANGED <<mapped, running, connVars, wsVars, at, stop>>

(***************************************************************************)
(* StopVNCBridge and Bridge.Stop.                                          *)
(***************************************************************************)
TakeBridge ==
    /\ stop = "none"
    /\ mapped
    /\ mapped' = FALSE
    /\ stop' = "taken"
    /\ UNCHANGED <<running, broadcasting, connVars, wsVars, at, loopVars>>

ClearRunning ==
    /\ stop = "taken"
    /\ stop' = IF running THEN "close" ELSE "ignored"
    /\ running' = FALSE
    /\ UNCHANGED <<mapped, broadcasting, connVars, wsVars, at, loopVars>>

CloseConn ==
    /\ stop = "close"
    /\ link' = [link EXCEPT ![conn] = "closed"]
    /\ stop' = "sweep"
    /\ UNCHANGED <<flagVars, conn, dialed, wsVars, at, loopVars>>

\* Faulty variant: the viewers are forgotten but their WebSockets stay open.
ForgetClients ==
    /\ stop = "sweep"
    /\ clients' = {}
    /\ stop' = "swept"
    /\ UNCHANGED <<flagVars, connVars, closedWs, greeting, at, loopVars>>

\* "Close all client connections".
CloseClients ==
    /\ stop = "sweep"
    /\ closedWs' = closedWs \cup clients
    /\ clients' = {}
    /\ stop' = "swept"
    /\ UNCHANGED <<flagVars, connVars, greeting, at, loopVars>>

(***************************************************************************)
(* The BMC.                                                                *)
(***************************************************************************)
Lose(k) ==
    /\ link[k] = "open"
    /\ link' = [link EXCEPT ![k] = "lost"]
    /\ UNCHANGED <<flagVars, conn, dialed, wsVars, at, loopVars, stop>>

-----------------------------------------------------------------------------
ServeStep(c) == Register(c) \/ EnsureBroadcast(c) \/ Write(c) \/ Leave(c)
ConnectStep(c) == Count(c) \/ CloseLost(c) \/ ClearLost(c) \/ Install(c) \/ SetRunning(c)
LoopStep(l) == LoopCheck(l) \/ LoopData(l) \/ LoopError(l) \/ LoopExit(l)

Next ==
    \/ \E c \in Clients :
          \/ Lookup(c) \/ Enter(c) \/ Probe(c)
          \/ ConnectStep(c) \/ StartRunning(c) \/ Dial(c) \/ DialFails(c)
          \/ Handshake(c) \/ ServeStep(c) \/ Receive(c) \/ WsGone(c)
    \/ \E l \in Loops : LoopStep(l)
    \/ Replace
    \/ TakeBridge \/ ClearRunning \/ CloseConn \/ CloseClients
    \/ \E k \in Conns : Lose(k)

Spec == Init /\ [][Next]_vars

\* Goroutines that are not waiting for anybody get on.  A browser answers the
\* handshake and sends its opening messages, or its connection fails; a read of a
\* closed WebSocket returns.  A viewer is not assumed to send anything else, nor the
\* BMC to answer.
Fairness ==
    /\ \A c \in Clients :
          /\ WF_vars(ServeStep(c))
          /\ WF_vars(ConnectStep(c))
          /\ WF_vars(Handshake(c))
          /\ WF_vars(c \in greeting /\ Receive(c))
          /\ WF_vars(c \in closedWs /\ WsGone(c))
    /\ WF_vars(CloseConn \/ CloseClients)

FairSpec == Spec /\ Fairness

-----------------------------------------------------------------------------
\* The BMC's byte stream is read by one broadcast goroutine at a time, however many
\* viewers come, reconnect and stop the bridge at once; two would tear the frames
\* apart between them.
OneBroadcastLoop ==
    \A l, m \in Loops : loop[l] # "off" /\ loop[m] # "off" => l = m

\* Stopping a running bridge releases every viewer, the ones too that were in their
\* handshake when Stop closed the registered WebSockets, unless a reconnecting handler
\* has given the bridge another connection after Stop closed the one it had.
StopReleasesViewers ==
    \A c \in Clients :
        (stop = "sweep" /\ at[c] \in {"handshake", "register", "ensure", "serve", "write"})
            ~> (at[c] = "idle" \/ link[conn] # "closed")
=============================================================================
