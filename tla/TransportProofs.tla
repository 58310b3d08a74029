--------------------------- MODULE TransportProofs ---------------------------
(***************************************************************************)
(* Proofs about the two ways a viewer's WebSocket is connected to a board  *)
(* without iKVM: the VNC bridge, for any number of viewers, connections    *)
(* and broadcast goroutines, and the WSS proxy, for any number of viewers, *)
(* deleters and proxies.  The two have no state in common; definitions of  *)
(* the proxy that have a counterpart in the bridge begin with WSS.         *)
(***************************************************************************)
EXTENDS VNCBridge, WSSProxy, TLAPS

(***************************************************************************)
(* The VNC bridge.                                                         *)
(***************************************************************************)

\* A handler that is about to install a connection has dialled one.
Dialled == \A c \in Clients : at[c] = "install" => dialed[c] \in Conns

\* Type correctness needs Dialled: Install makes the dialled connection b.conn.
LEMMA TypeInvariant == Spec => [](TypeOK /\ Dialled)
<1> USE ConnAssumption DEF TypeOK, Points, Dialled, flagVars, connVars, wsVars, loopVars
<1>1. Init => TypeOK /\ Dialled
  <2> SUFFICES ASSUME Init PROVE TypeOK /\ Dialled
    OBVIOUS
  <2>1. mapped \in BOOLEAN /\ running \in BOOLEAN /\ broadcasting \in BOOLEAN
    BY Zenon DEF Init
  <2> QED BY <2>1, ConnAssumption DEF Init
<1>2. TypeOK /\ Dialled /\ [Next]_vars => TypeOK' /\ Dialled'
  <2> SUFFICES ASSUME TypeOK, Dialled, [Next]_vars
               PROVE  TypeOK' /\ Dialled'
    OBVIOUS
  <2>1. ASSUME NEW c \in Clients, Lookup(c)
        PROVE  TypeOK' /\ Dialled'
    BY <2>1 DEF Lookup, Go
  <2>2. ASSUME NEW c \in Clients, Enter(c)
        PROVE  TypeOK' /\ Dialled'
    BY <2>2 DEF Enter, Go
  <2>3. ASSUME NEW c \in Clients, Probe(c)
        PROVE  TypeOK' /\ Dialled'
    BY <2>3 DEF Probe, Go, LoopTo
  <2>4. ASSUME NEW c \in Clients, CloseLost(c)
        PROVE  TypeOK' /\ Dialled'
    BY <2>4 DEF CloseLost, Go
  <2>5. ASSUME NEW c \in Clients, StartRunning(c)
        PROVE  TypeOK' /\ Dialled'
    BY <2>5 DEF StartRunning, Go
  <2>6. ASSUME NEW c \in Clients, DialFails(c)
        PROVE  TypeOK' /\ Dialled'
    BY <2>6 DEF DialFails, Go
  <2>7. ASSUME NEW c \in Clients, Install(c)
        PROVE  TypeOK' /\ Dialled'
    BY <2>7 DEF Install, Go
  <2>8. ASSUME NEW c \in Clients, Handshake(c)
        PROVE  TypeOK' /\ Dialled'
    BY <2>8 DEF Handshake, Go
  <2>9. ASSUME NEW c \in Clients, Register(c)
        PROVE  TypeOK' /\ Dialled'
    BY <2>9 DEF Register, Go
  <2>10. ASSUME NEW c \in Clients, EnsureBroadcast(c)
        PROVE  TypeOK' /\ Dialled'
    <3>1. IdleLoops # {} => NextLoop \in IdleLoops
      BY DEF NextLoop
    <3> QED BY <2>10, <3>1 DEF EnsureBroadcast, Go, LoopTo, IdleLoops
  <2>11. ASSUME NEW c \in Clients, Receive(c)
        PROVE  TypeOK' /\ Dialled'
    BY <2>11 DEF Receive, Go
  <2>12. ASSUME NEW c \in Clients, Write(c)
        PROVE  TypeOK' /\ Dialled'
    BY <2>12 DEF Write, Go
  <2>13. ASSUME NEW c \in Clients, WsGone(c)
        PROVE  TypeOK' /\ Dialled'
    BY <2>13 DEF WsGone, Go
  <2>14. ASSUME NEW c \in Clients, Leave(c)
        PROVE  TypeOK' /\ Dialled'
    BY <2>14 DEF Leave, Go
  <2>15. ASSUME NEW c \in Clients, Dial(c)
        PROVE  TypeOK' /\ Dialled'
    <3>1. NextConn \in Conns
      BY <2>15 DEF Dial, FreshConns, NextConn
    <3> QED BY <2>15, <3>1 DEF Dial, Go
  <2>16. ASSUME NEW l \in Loops, LoopCheck(l)
        PROVE  TypeOK' /\ Dialled'
    BY <2>16 DEF LoopCheck, LoopTo
  <2>17. ASSUME NEW l \in Loops, LoopData(l)
        PROVE  TypeOK' /\ Dialled'
    BY <2>17 DEF LoopData, LoopTo
  <2>18. ASSUME NEW l \in Loops, LoopError(l)
        PROVE  TypeOK' /\ Dialled'
    BY <2>18 DEF LoopError, LoopTo
  <2>19. ASSUME NEW l \in Loops, LoopExit(l)
        PROVE  TypeOK' /\ Dialled'
    BY <2>19 DEF LoopExit, LoopTo
  <2>20. CASE Replace
    BY <2>20 DEF Replace
  <2>21. CASE TakeBridge
    BY <2>21 DEF TakeBridge
  <2>22. CASE ClearRunning
    BY <2>22 DEF ClearRunning
  <2>23. CASE CloseConn
    BY <2>23 DEF CloseConn
  <2>24. CASE CloseClients
    BY <2>24 DEF CloseClients
  <2>25. ASSUME NEW k \in Conns, Lose(k)
        PROVE  TypeOK' /\ Dialled'
    BY <2>25 DEF Lose
  <2>26. ASSUME NEW c \in Clients, Count(c) \/ ClearLost(c) \/ SetRunning(c)
        PROVE  TypeOK' /\ Dialled'
    BY <2>26 DEF Count, ClearLost, SetRunning, Go
  <2>27. CASE UNCHANGED vars
    BY <2>27 DEF vars
  <2> QED BY <2>1, <2>2, <2>3, <2>4, <2>5, <2>6, <2>7, <2>8, <2>9, <2>10, <2>11,
         <2>12, <2>13, <2>14, <2>15, <2>16, <2>17, <2>18, <2>19, <2>20, <2>21,
         <2>22, <2>23, <2>24, <2>25, <2>26, <2>27 DEF Next, ServeStep, ConnectStep, LoopStep
<1> QED BY <1>1, <1>2, PTL DEF Spec

\* Every reachable state is well typed; b.conn is never nil once the bridge is in
\* VNCBridges.
THEOREM TypeCorrect == Spec => []TypeOK
  BY TypeInvariant, PTL

\* The flag covers the goroutine's whole life, and only a goroutine that reads has
\* its read cut short by a probe: what makes OneBroadcastLoop inductive.
LoopHasFlag ==
    \A l \in Loops : /\ loop[l] # "off" => broadcasting
                     /\ reading[l] # NoConn => loop[l] = "read"

\* OneBroadcastLoop: ensureBroadcast tests and sets the flag under b.mu and the
\* goroutine clears it as its last act, so there is never a second one.
THEOREM SingleLoop == Spec => []OneBroadcastLoop
<1> USE ConnAssumption
        DEF TypeOK, Points, OneBroadcastLoop, LoopHasFlag, flagVars, connVars, wsVars, loopVars
<1>1. Init => OneBroadcastLoop /\ LoopHasFlag
  BY DEF Init
<1>2. TypeOK /\ OneBroadcastLoop /\ LoopHasFlag /\ [Next]_vars
         => OneBroadcastLoop' /\ LoopHasFlag'
  <2> SUFFICES ASSUME TypeOK, OneBroadcastLoop, LoopHasFlag, [Next]_vars
               PROVE  OneBroadcastLoop' /\ LoopHasFlag'
    OBVIOUS
  <2>1. ASSUME NEW c \in Clients, Lookup(c)
        PROVE  OneBroadcastLoop' /\ LoopHasFlag'
    BY <2>1 DEF Lookup, Go
  <2>2. ASSUME NEW c \in Clients, Enter(c)
        PROVE  OneBroadcastLoop' /\ LoopHasFlag'
    BY <2>2 DEF Enter, Go
  <2>3. ASSUME NEW c \in Clients, Probe(c)
        PROVE  OneBroadcastLoop' /\ LoopHasFlag'
    BY <2>3 DEF Probe, Go, LoopTo
  <2>4. ASSUME NEW c \in Clients, CloseLost(c)
        PROVE  OneBroadcastLoop' /\ LoopHasFlag'
    BY <2>4 DEF CloseLost, Go
  <2>5. ASSUME NEW c \in Clients, StartRunning(c)
        PROVE  OneBroadcastLoop' /\ LoopHasFlag'
    BY <2>5 DEF StartRunning, Go
  <2>6. ASSUME NEW c \in Clients, DialFails(c)
        PROVE  OneBroadcastLoop' /\ LoopHasFlag'
    BY <2>6 DEF DialFails, Go
  <2>7. ASSUME NEW c \in Clients, Install(c)
        PROVE  OneBroadcastLoop' /\ LoopHasFlag'
    BY <2>7 DEF Install, Go
  <2>8. ASSUME NEW c \in Clients, Handshake(c)
        PROVE  OneBroadcastLoop' /\ LoopHasFlag'
    BY <2>8 DEF Handshake, Go
  <2>9. ASSUME NEW c \in Clients, Register(c)
        PROVE  OneBroadcastLoop' /\ LoopHasFlag'
    BY <2>9 DEF Register, Go
  <2>10. ASSUME NEW c \in Clients, EnsureBroadcast(c)
        PROVE  OneBroadcastLoop' /\ LoopHasFlag'
    <3>1. IdleLoops # {} => NextLoop \in IdleLoops
      BY DEF NextLoop
    <3> QED BY <2>10, <3>1 DEF EnsureBroadcast, Go, LoopTo, IdleLoops
  <2>11. ASSUME NEW c \in Clients, Receive(c)
        PROVE  OneBroadcastLoop' /\ LoopHasFlag'
    BY <2>11 DEF Receive, Go
  <2>12. ASSUME NEW c \in Clients, Write(c)
        PROVE  OneBroadcastLoop' /\ LoopHasFlag'
    BY <2>12 DEF Write, Go
  <2>13. ASSUME NEW c \in Clients, WsGone(c)
        PROVE  OneBroadcastLoop' /\ LoopHasFlag'
    BY <2>13 DEF WsGone, Go
  <2>14. ASSUME NEW c \in Clients, Leave(c)
        PROVE  OneBroadcastLoop' /\ LoopHasFlag'
    BY <2>14 DEF Leave, Go
  <2>15. ASSUME NEW c \in Clients, Dial(c)
        PROVE  OneBroadcastLoop' /\ LoopHasFlag'
    BY <2>15 DEF Dial, Go
  <2>16. ASSUME NEW l \in Loops, LoopCheck(l)
        PROVE  OneBroadcastLoop' /\ LoopHasFlag'
    BY <2>16 DEF LoopCheck, LoopTo
  <2>17. ASSUME NEW l \in Loops, LoopData(l)
        PROVE  OneBroadcastLoop' /\ LoopHasFlag'
    BY <2>17 DEF LoopData, LoopTo
  <2>18. ASSUME NEW l \in Loops, LoopError(l)
        PROVE  OneBroadcastLoop' /\ LoopHasFlag'
    BY <2>18 DEF LoopError, LoopTo
  <2>19. ASSUME NEW l \in Loops, LoopExit(l)
        PROVE  OneBroadcastLoop' /\ LoopHasFlag'
    BY <2>19 DEF LoopExit, LoopTo
  <2>20. CASE Replace
    BY <2>20 DEF Replace
  <2>21. CASE TakeBridge
    BY <2>21 DEF TakeBridge
  <2>22. CASE ClearRunning
    BY <2>22 DEF ClearRunning
  <2>23. CASE CloseConn
    BY <2>23 DEF CloseConn
  <2>24. CASE CloseClients
    BY <2>24 DEF CloseClients
  <2>25. ASSUME NEW k \in Conns, Lose(k)
        PROVE  OneBroadcastLoop' /\ LoopHasFlag'
    BY <2>25 DEF Lose
  <2>26. ASSUME NEW c \in Clients, Count(c) \/ ClearLost(c) \/ SetRunning(c)
        PROVE  OneBroadcastLoop' /\ LoopHasFlag'
    BY <2>26 DEF Count, ClearLost, SetRunning, Go
  <2>27. CASE UNCHANGED vars
    BY <2>27 DEF vars
  <2> QED BY <2>1, <2>2, <2>3, <2>4, <2>5, <2>6, <2>7, <2>8, <2>9, <2>10, <2>11,
         <2>12, <2>13, <2>14, <2>15, <2>16, <2>17, <2>18, <2>19, <2>20, <2>21,
         <2>22, <2>23, <2>24, <2>25, <2>26, <2>27 DEF Next, ServeStep, ConnectStep, LoopStep
<1> QED BY <1>1, <1>2, TypeCorrect, PTL DEF Spec

\* What Stop relies on: a handler that serves a viewer is registered, so that Stop
\* closes its WebSocket, or Stop has closed it already.  Of the connection there is
\* no such fact: b.conn is stored before running is set, and a handler that clears
\* running for a lost connection clears it for the one another has just stored.
ServedIsRegistered ==
    \A c \in Clients : at[c] \in {"ensure", "serve", "write"} => c \in clients \cup closedWs

\* ServedIsRegistered: no viewer that is served is missing from the set Stop sweeps,
\* whether its handler came before, during or after a Stop or has reconnected the
\* bridge meanwhile.
THEOREM ServedIsRegisteredHolds == Spec => []ServedIsRegistered
<1> USE DEF TypeOK, Points, ServedIsRegistered, flagVars, connVars, wsVars, loopVars
<1>1. Init => ServedIsRegistered
  BY DEF Init
<1>2. TypeOK /\ ServedIsRegistered /\ [Next]_vars => ServedIsRegistered'
  <2> SUFFICES ASSUME TypeOK, ServedIsRegistered, [Next]_vars
               PROVE  ServedIsRegistered'
    OBVIOUS
  <2>1. ASSUME NEW c \in Clients,
               \/ Lookup(c) \/ Enter(c) \/ Probe(c) \/ ConnectStep(c) \/ StartRunning(c)
               \/ Dial(c) \/ DialFails(c) \/ Handshake(c)
        PROVE  ServedIsRegistered'
    BY <2>1 DEF Lookup, Enter, Probe, ConnectStep, Count, CloseLost, ClearLost, Install,
                SetRunning, StartRunning, Dial, DialFails, Handshake, Go
  <2>2. ASSUME NEW c \in Clients, ServeStep(c) \/ Receive(c) \/ WsGone(c)
        PROVE  ServedIsRegistered'
    BY <2>2 DEF ServeStep, Register, EnsureBroadcast, Write, Leave, Receive, WsGone, Go
  <2>3. ASSUME NEW l \in Loops, LoopStep(l)
        PROVE  ServedIsRegistered'
    BY <2>3 DEF LoopStep, LoopCheck, LoopData, LoopError, LoopExit
  <2>4. CASE Replace \/ TakeBridge \/ ClearRunning
    BY <2>4 DEF Replace, TakeBridge, ClearRunning
  <2>5. CASE CloseConn \/ CloseClients
    BY <2>5 DEF CloseConn, CloseClients
  <2>6. ASSUME NEW k \in Conns, Lose(k)
        PROVE  ServedIsRegistered'
    BY <2>6 DEF Lose
  <2>7. CASE UNCHANGED vars
    BY <2>7 DEF vars
  <2> QED BY <2>1, <2>2, <2>3, <2>4, <2>5, <2>6, <2>7 DEF Next
<1> QED BY <1>1, <1>2, TypeCorrect, PTL DEF Spec

-----------------------------------------------------------------------------
(***************************************************************************)
(* The WSS proxy.                                                          *)
(***************************************************************************)

\* The types of the variables and the registered handlers' whereabouts are preserved
\* by every step of proxyWSS, StopWSSProxy and wssBroadcastLoop.
LEMMA WSSTypeStep == WSSTypeOK /\ [WSSNext]_wssVars => WSSTypeOK'
<1> SUFFICES ASSUME WSSTypeOK, [WSSNext]_wssVars PROVE WSSTypeOK'
  OBVIOUS
<1> USE ActorsAssumption, ProxiesAssumption DEF WSSTypeOK, Attached, Stoppers, GoTo
<1>1. ASSUME NEW c \in Viewers, ensureWSSProxy(c) PROVE WSSTypeOK'
  BY <1>1 DEF ensureWSSProxy
<1>2. ASSUME NEW c \in Viewers, DialBackend(c) PROVE WSSTypeOK'
  BY <1>2 DEF DialBackend
<1>3. ASSUME NEW c \in Viewers, Message(c) PROVE WSSTypeOK'
  BY <1>3 DEF Message
<1>4. ASSUME NEW c \in Viewers, Publish(c) PROVE WSSTypeOK'
  BY <1>4 DEF Publish
<1>5. ASSUME NEW c \in Viewers, JoinProxy(c) PROVE WSSTypeOK'
  BY <1>5 DEF JoinProxy
<1>6. ASSUME NEW c \in Viewers, LoopTop(c) PROVE WSSTypeOK'
  BY <1>6 DEF LoopTop
<1>7. ASSUME NEW c \in Viewers, ReadError(c) PROVE WSSTypeOK'
  BY <1>7 DEF ReadError
<1>8. ASSUME NEW c \in Viewers, LeaveProxy(c) PROVE WSSTypeOK'
  BY <1>8 DEF LeaveProxy
<1>9. ASSUME NEW c \in Viewers, BrowserGone(c) PROVE WSSTypeOK'
  BY <1>9 DEF BrowserGone
<1>10. ASSUME NEW s \in Stoppers, StopTake(s) PROVE WSSTypeOK'
  BY <1>10 DEF StopTake
<1>11. ASSUME NEW s \in Stoppers, StopClose(s) PROVE WSSTypeOK'
  BY <1>11 DEF StopClose
<1>12. ASSUME NEW p \in Proxies, Broadcast(p) PROVE WSSTypeOK'
  BY <1>12 DEF Broadcast
<1>13. ASSUME NEW p \in Proxies, LoopEnds(p) PROVE WSSTypeOK'
  BY <1>13 DEF LoopEnds
<1>14. ASSUME NEW p \in Proxies, BackendLost(p) PROVE WSSTypeOK'
  BY <1>14 DEF BackendLost
<1>15. CASE UNCHANGED wssVars
  BY <1>15 DEF wssVars
<1> QED
  BY <1>1, <1>2, <1>3, <1>4, <1>5, <1>6, <1>7, <1>8, <1>9, <1>10, <1>11, <1>12, <1>13,
     <1>14, <1>15 DEF WSSNext, Proceed, StopWSSProxy

\* Type correctness of the WSS proxy.
THEOREM WSSTypeCorrect == WSSSpec => []WSSTypeOK
<1>1. WSSInit => WSSTypeOK
  BY DEF WSSInit, WSSTypeOK, Attached, Stoppers
<1> QED BY <1>1, WSSTypeStep, PTL DEF WSSSpec

-----------------------------------------------------------------------------
\* A broadcast loop ends when its connection does, and only then.
LoopsEndLast == \A p \in Proxies : done[p] => backend[p] \in {"lost", "closed"}

\* NoIdleBackend is not inductive: a handler that is about to stop a proxy stops
\* whichever is in the map.  Of a connection that is being used, or that a handler is
\* about to stop, it takes in addition that the map leads to it.
Reachable(p) ==
    current = p /\ \E c \in Viewers : mine[c] = p /\ pc[c] \in Attached \cup {"stop"}
Published(p) == \E c \in Viewers : mine[c] = p /\ pc[c] = "publish"
Closing(p) == \E s \in Stoppers : pc[s] = "close" /\ taken[s] = p

OpenIsReachable ==
    \A p \in Proxies : backend[p] = "open" =>
        Reachable(p) \/ Published(p) \/ Closing(p) \/ p \in overwritten

\* The two parts hold together: a proxy that is taken out of the map by the next
\* viewer has ended its loop, so its connection is not open.
LEMMA ReachableStep ==
    WSSTypeOK /\ LoopsEndLast /\ OpenIsReachable /\ [WSSNext]_wssVars
        => LoopsEndLast' /\ OpenIsReachable'
<1> SUFFICES ASSUME WSSTypeOK, LoopsEndLast, OpenIsReachable, [WSSNext]_wssVars
             PROVE  LoopsEndLast' /\ OpenIsReachable'
  OBVIOUS
<1> USE ActorsAssumption, ProxiesAssumption
    DEF WSSTypeOK, Attached, Stoppers, GoTo, LoopsEndLast, OpenIsReachable, Reachable,
        Published, Closing
<1>1. ASSUME NEW c \in Viewers, ensureWSSProxy(c) PROVE LoopsEndLast' /\ OpenIsReachable'
  BY <1>1 DEF ensureWSSProxy
<1>2. ASSUME NEW c \in Viewers, DialBackend(c) PROVE LoopsEndLast' /\ OpenIsReachable'
  BY <1>2 DEF DialBackend
<1>3. ASSUME NEW c \in Viewers, Message(c) PROVE LoopsEndLast' /\ OpenIsReachable'
  BY <1>3 DEF Message
<1>4. ASSUME NEW c \in Viewers, Publish(c) PROVE LoopsEndLast' /\ OpenIsReachable'
  BY <1>4 DEF Publish
<1>5. ASSUME NEW c \in Viewers, JoinProxy(c) PROVE LoopsEndLast' /\ OpenIsReachable'
  BY <1>5 DEF JoinProxy
<1>6. ASSUME NEW c \in Viewers, LoopTop(c) PROVE LoopsEndLast' /\ OpenIsReachable'
  BY <1>6 DEF LoopTop
<1>7. ASSUME NEW c \in Viewers, ReadError(c) PROVE LoopsEndLast' /\ OpenIsReachable'
  BY <1>7 DEF ReadError
<1>8. ASSUME NEW c \in Viewers, LeaveProxy(c) PROVE LoopsEndLast' /\ OpenIsReachable'
  BY <1>8 DEF LeaveProxy
<1>9. ASSUME NEW c \in Viewers, BrowserGone(c) PROVE LoopsEndLast' /\ OpenIsReachable'
  BY <1>9 DEF BrowserGone
<1>10. ASSUME NEW s \in Stoppers, StopTake(s) PROVE LoopsEndLast' /\ OpenIsReachable'
  BY <1>10 DEF StopTake
<1>11. ASSUME NEW s \in Stoppers, StopClose(s) PROVE LoopsEndLast' /\ OpenIsReachable'
  BY <1>11 DEF StopClose
<1>12. ASSUME NEW p \in Proxies, Broadcast(p) PROVE LoopsEndLast' /\ OpenIsReachable'
  BY <1>12 DEF Broadcast
<1>13. ASSUME NEW p \in Proxies, LoopEnds(p) PROVE LoopsEndLast' /\ OpenIsReachable'
  BY <1>13 DEF LoopEnds
<1>14. ASSUME NEW p \in Proxies, BackendLost(p) PROVE LoopsEndLast' /\ OpenIsReachable'
  BY <1>14 DEF BackendLost
<1>15. CASE UNCHANGED wssVars
  BY <1>15 DEF wssVars
<1> QED
  BY <1>1, <1>2, <1>3, <1>4, <1>5, <1>6, <1>7, <1>8, <1>9, <1>10, <1>11, <1>12, <1>13,
     <1>14, <1>15 DEF WSSNext, Proceed, StopWSSProxy

\* Whatever the order in which viewers join, are dropped and leave, sessions are
\* deleted and BMCs go away, no connection to a BMC stays open with nobody to close
\* it, except one that two viewers dialling at once have lost from the map.
THEOREM NoIdleBackendHolds == WSSSpec => []NoIdleBackend
<1>1. WSSInit => LoopsEndLast /\ OpenIsReachable
  BY DEF WSSInit, LoopsEndLast, OpenIsReachable
<1>2. OpenIsReachable => NoIdleBackend
  BY DEF OpenIsReachable, NoIdleBackend, Reachable, Published, Closing
<1> QED BY <1>1, <1>2, WSSTypeCorrect, ReachableStep, PTL DEF WSSSpec

-----------------------------------------------------------------------------
\* A proxy whose backend connection nobody has closed yet.
Unclosed(p) == backend[p] \in {"open", "lost"}

\* A proxy belongs to the handler that dialled it, then to the map, then to the one
\* StopWSSProxy that has taken it out, and to none of them once it is closed.
OneCloser ==
    /\ current # NoProxy => Unclosed(current)
    /\ \A s \in Stoppers : pc[s] = "close" =>
          /\ Unclosed(taken[s])
          /\ taken[s] # current
          /\ \A t \in Stoppers : pc[t] = "close" /\ taken[t] = taken[s] => t = s
    /\ \A c \in Viewers : pc[c] = "publish" =>
          /\ Unclosed(mine[c])
          /\ mine[c] # current
          /\ \A s \in Stoppers : pc[s] = "close" => taken[s] # mine[c]
          /\ \A d \in Viewers : pc[d] = "publish" /\ mine[d] = mine[c] => d = c

\* OneCloser: the last viewer to leave, a DELETE and a viewer who comes back never
\* close one connection twice, and nobody is given a proxy that was stopped.
THEOREM OneCloserHolds == WSSSpec => []OneCloser
<1> USE ActorsAssumption, ProxiesAssumption DEF WSSTypeOK, Stoppers, GoTo, OneCloser, Unclosed
<1>1. WSSInit => OneCloser
  BY DEF WSSInit
<1>2. WSSTypeOK /\ OneCloser /\ [WSSNext]_wssVars => OneCloser'
  <2> SUFFICES ASSUME WSSTypeOK, OneCloser, [WSSNext]_wssVars PROVE OneCloser'
    OBVIOUS
  <2>1. ASSUME NEW c \in Viewers, ensureWSSProxy(c) PROVE OneCloser'
    BY <2>1 DEF ensureWSSProxy, Attached
  <2>2. ASSUME NEW c \in Viewers, DialBackend(c) PROVE OneCloser'
    BY <2>2 DEF DialBackend, Attached
  <2>3. ASSUME NEW c \in Viewers, Publish(c) PROVE OneCloser'
    BY <2>3 DEF Publish, Attached
  <2>4. ASSUME NEW c \in Viewers, JoinProxy(c) \/ LoopTop(c) \/ Message(c) \/ ReadError(c)
        PROVE  OneCloser'
    BY <2>4 DEF JoinProxy, LoopTop, Message, ReadError
  <2>5. ASSUME NEW c \in Viewers, LeaveProxy(c) \/ BrowserGone(c) PROVE OneCloser'
    BY <2>5 DEF LeaveProxy, BrowserGone
  <2>6. ASSUME NEW s \in Stoppers, StopTake(s) PROVE OneCloser'
    BY <2>6 DEF StopTake
  <2>7. ASSUME NEW s \in Stoppers, StopClose(s) PROVE OneCloser'
    BY <2>7 DEF StopClose
  <2>8. ASSUME NEW p \in Proxies, Broadcast(p) \/ LoopEnds(p) \/ BackendLost(p)
        PROVE  OneCloser'
    BY <2>8 DEF Broadcast, LoopEnds, BackendLost
  <2>9. CASE UNCHANGED wssVars
    BY <2>9 DEF wssVars
  <2> QED
    BY <2>1, <2>2, <2>3, <2>4, <2>5, <2>6, <2>7, <2>8, <2>9
       DEF WSSNext, Proceed, StopWSSProxy
<1> QED BY <1>1, <1>2, WSSTypeCorrect, PTL DEF WSSSpec

\* A handler that waits for its browser is registered with its proxy, so that
\* stopping the proxy closes its WebSocket, or that has happened already.
ReadersAreReached ==
    \A c \in Viewers : pc[c] \in {"top", "read"} => c \in proxyClients[mine[c]] \/ ~ws[c]

\* ReadersAreReached: neither a broadcast that drops viewers nor a StopWSSProxy
\* forgets a viewer without closing the WebSocket its handler reads.
THEOREM ReadersAreReachedHolds == WSSSpec => []ReadersAreReached
<1> USE ActorsAssumption, ProxiesAssumption
    DEF WSSTypeOK, Attached, Stoppers, GoTo, ReadersAreReached
<1>1. WSSInit => ReadersAreReached
  BY DEF WSSInit
<1>2. WSSTypeOK /\ ReadersAreReached /\ [WSSNext]_wssVars => ReadersAreReached'
  <2> SUFFICES ASSUME WSSTypeOK, ReadersAreReached, [WSSNext]_wssVars
               PROVE  ReadersAreReached'
    OBVIOUS
  <2>1. ASSUME NEW c \in Viewers, ensureWSSProxy(c) \/ DialBackend(c) \/ Publish(c)
        PROVE  ReadersAreReached'
    BY <2>1 DEF ensureWSSProxy, DialBackend, Publish
  <2>2. ASSUME NEW c \in Viewers, JoinProxy(c) PROVE ReadersAreReached'
    BY <2>2 DEF JoinProxy
  <2>3. ASSUME NEW c \in Viewers, LoopTop(c) \/ Message(c) \/ ReadError(c)
        PROVE  ReadersAreReached'
    BY <2>3 DEF LoopTop, Message, ReadError
  <2>4. ASSUME NEW c \in Viewers, LeaveProxy(c) PROVE ReadersAreReached'
    <3>1. /\ mine' = mine /\ ws' = ws /\ pc'[c] \notin {"top", "read"}
          /\ \A d \in Viewers \ {c} : pc'[d] = pc[d]
      BY <2>4 DEF LeaveProxy
    <3>2. \A d \in Viewers \ {c}, p \in Proxies : d \in proxyClients[p] => d \in proxyClients'[p]
      BY <2>4 DEF LeaveProxy
    <3>3. ASSUME NEW d \in Viewers, pc'[d] \in {"top", "read"}
          PROVE  (d \in proxyClients[mine[d]] \/ ~ws[d])'
      <4>1. d # c /\ pc[d] \in {"top", "read"}
        BY <3>1, <3>3
      <4>2. mine[d] \in Proxies
        BY <4>1
      <4> QED BY <3>1, <3>2, <4>1, <4>2
    <3> QED BY <3>3
  <2>5. ASSUME NEW c \in Viewers, BrowserGone(c) PROVE ReadersAreReached'
    BY <2>5 DEF BrowserGone
  <2>6. ASSUME NEW s \in Stoppers, StopTake(s) PROVE ReadersAreReached'
    BY <2>6 DEF StopTake
  <2>7. ASSUME NEW s \in Stoppers, StopClose(s) PROVE ReadersAreReached'
    <3>1. \A d \in Viewers, p \in Proxies :
              d \in proxyClients[p] => d \in proxyClients'[p] \/ ~ws'[d]
      BY <2>7 DEF StopClose
    <3>2. \A d \in Viewers : ~ws[d] => ~ws'[d]
      BY <2>7 DEF StopClose
    <3>3. mine' = mine /\ \A d \in Viewers : pc'[d] \in {"top", "read"} => pc[d] \in {"top", "read"}
      BY <2>7 DEF StopClose
    <3>4. \A d \in Viewers : pc[d] \in {"top", "read"} => mine[d] \in Proxies
      OBVIOUS
    <3> QED BY <3>1, <3>2, <3>3, <3>4
  <2>8. ASSUME NEW p \in Proxies, Broadcast(p) \/ LoopEnds(p) \/ BackendLost(p)
        PROVE  ReadersAreReached'
    BY <2>8 DEF Broadcast, LoopEnds, BackendLost
  <2>9. CASE UNCHANGED wssVars
    BY <2>9 DEF wssVars
  <2> QED
    BY <2>1, <2>2, <2>3, <2>4, <2>5, <2>6, <2>7, <2>8, <2>9
       DEF WSSNext, Proceed, StopWSSProxy
<1> QED BY <1>1, <1>2, WSSTypeCorrect, PTL DEF WSSSpec
=============================================================================
