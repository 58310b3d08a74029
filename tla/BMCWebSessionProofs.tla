------------------------ MODULE BMCWebSessionProofs ------------------------
(***************************************************************************)
(* Proofs about the shared BMC login for any number of logins, sessions,   *)
(* viewers and concurrent callers.                                         *)
(***************************************************************************)
EXTENDS BMCWebSession, TLAPS

\* Every reachable state is well typed; in particular a caller that is about to
\* log out, store, serve or stop something holds a login or a bridge.
THEOREM TypeCorrect == Spec => []TypeOK
<1> USE NullsAssumption, ManagerAssumption
        DEF TypeOK, Ensurers, NoHandler, loginVars, startVars, bridgeVars
<1>1. Init => TypeOK
  <2> SUFFICES ASSUME Init PROVE TypeOK
    OBVIOUS
  <2>1. kvmActive \in BOOLEAN /\ healthy \in BOOLEAN
    BY Zenon DEF Init
  <2> QED BY <2>1 DEF Init
<1>2. TypeOK /\ [Next]_vars => TypeOK'
  <2> SUFFICES ASSUME TypeOK, [Next]_vars
               PROVE  TypeOK'
    OBVIOUS
  <2>1. ASSUME NEW e \in Ensurers, Ensure(e)
        PROVE  TypeOK'
    BY <2>1 DEF Ensure, GoEnsure
  <2>2. ASSUME NEW e \in Ensurers, ReadOld(e)
        PROVE  TypeOK'
    BY <2>2 DEF ReadOld, GoEnsure
  <2>3. ASSUME NEW e \in Ensurers, LogoutOld(e)
        PROVE  TypeOK'
    BY <2>3 DEF LogoutOld, GoEnsure
  <2>4. ASSUME NEW e \in Ensurers, ForgetOld(e)
        PROVE  TypeOK'
    BY <2>4 DEF ForgetOld, GoEnsure
  <2>5. ASSUME NEW e \in Ensurers, CreateFails(e)
        PROVE  TypeOK'
    BY <2>5 DEF CreateFails, GoEnsure
  <2>6. ASSUME NEW e \in Ensurers, StoreNew(e)
        PROVE  TypeOK'
    BY <2>6 DEF StoreNew, GoEnsure
  <2>7. ASSUME NEW e \in Ensurers, NEW l \in Logins, CreateWebSession(e, l)
        PROVE  TypeOK'
    BY <2>7 DEF CreateWebSession, Open, FreshLogins, GoEnsure
  <2>8. ASSUME NEW s \in Sessions, StartSession(s)
        PROVE  TypeOK'
    BY <2>8 DEF StartSession, GoStart
  <2>9. ASSUME NEW s \in Sessions, ReadShared(s)
        PROVE  TypeOK'
    BY <2>9 DEF ReadShared, GoStart
  <2>10. ASSUME NEW s \in Sessions, StoreShared(s)
        PROVE  TypeOK'
    BY <2>10 DEF StoreShared, GoStart
  <2>11. ASSUME NEW s \in Sessions, FetchKVMToken(s)
        PROVE  TypeOK'
    BY <2>11 DEF FetchKVMToken, GoStart
  <2>12. ASSUME NEW s \in Sessions, StartFails(s)
        PROVE  TypeOK'
    BY <2>12 DEF StartFails, GoStart
  <2>13. ASSUME NEW s \in Sessions, NEW l \in Logins, CreateShared(s, l)
        PROVE  TypeOK'
    BY <2>13 DEF CreateShared, Open, FreshLogins, GoStart
  <2>14. ASSUME NEW w \in Watchers, NEW s \in Sessions, Watch(w, s)
        PROVE  TypeOK'
    BY <2>14 DEF Watch, GoWatch
  <2>15. ASSUME NEW w \in Watchers, Lookup(w)
        PROVE  TypeOK'
    BY <2>15 DEF Lookup, GoWatch
  <2>16. ASSUME NEW w \in Watchers, MarkActive(w)
        PROVE  TypeOK'
    BY <2>16 DEF MarkActive, GoWatch
  <2>17. ASSUME NEW w \in Watchers, ConnectFails(w)
        PROVE  TypeOK'
    BY <2>17 DEF ConnectFails, GoWatch
  <2>18. ASSUME NEW w \in Watchers, ClearOnFailure(w)
        PROVE  TypeOK'
    BY <2>18 DEF ClearOnFailure, GoWatch
  <2>19. ASSUME NEW w \in Watchers, Register(w)
        PROVE  TypeOK'
    BY <2>19 DEF Register, GoWatch
  <2>20. ASSUME NEW w \in Watchers, Leave(w)
        PROVE  TypeOK'
    BY <2>20 DEF Leave, GoWatch
  <2>21. ASSUME NEW w \in Watchers, NEW b \in Bridges, Connect(w, b)
        PROVE  TypeOK'
    BY <2>21 DEF Connect, FreshBridges, GoWatch
  <2>22. ASSUME NEW p \in Stoppers, NEW s \in Sessions, TakeBridge(p, s)
        PROVE  TypeOK'
    BY <2>22 DEF TakeBridge, GoStop
  <2>23. ASSUME NEW p \in Stoppers, Stop(p)
        PROVE  TypeOK'
    BY <2>23 DEF Stop, GoStop
  <2>24. ASSUME NEW p \in Stoppers, ClearActive(p)
        PROVE  TypeOK'
    <3>1. kvmActive' \in BOOLEAN
      BY <2>24, Zenon DEF ClearActive
    <3>2. stopper[p].session \in Sessions
      BY <2>24 DEF ClearActive
    <3> QED BY <2>24, <3>1, <3>2 DEF ClearActive, GoStop
  <2>25. ASSUME NEW p \in Stoppers, Finish(p)
        PROVE  TypeOK'
    BY <2>25 DEF Finish, GoStop
  <2>26. ASSUME NEW l \in Logins, Expire(l)
        PROVE  TypeOK'
    BY <2>26 DEF Expire
  <2>27. ASSUME NEW b \in Bridges, Drop(b)
        PROVE  TypeOK'
    BY <2>27 DEF Drop
  <2>28. CASE PollStatus
    BY <2>28 DEF PollStatus
  <2>29. CASE UNCHANGED vars
    BY <2>29 DEF vars
  <2> QED BY <2>1, <2>2, <2>3, <2>4, <2>5, <2>6, <2>7, <2>8, <2>9, <2>10, <2>11,
           <2>12, <2>13, <2>14, <2>15, <2>16, <2>17, <2>18, <2>19, <2>20, <2>21,
           <2>22, <2>23, <2>24, <2>25, <2>26, <2>27, <2>28, <2>29 DEF Next,
           EnsureStep
<1> QED BY <1>1, <1>2, PTL DEF Spec

\* KvmActiveIsReleased: kvmActive never stays behind when the last bridge and the
\* last caller that could clear it are gone.
THEOREM FlagIsReleased == Spec => []KvmActiveIsReleased
<1> USE NullsAssumption
        DEF TypeOK, NoHandler, KvmActiveIsReleased, loginVars, startVars, bridgeVars
<1>1. Init => KvmActiveIsReleased
  BY DEF Init
<1>2. TypeOK /\ KvmActiveIsReleased /\ [Next]_vars => KvmActiveIsReleased'
  <2> SUFFICES ASSUME TypeOK, KvmActiveIsReleased, [Next]_vars
               PROVE  KvmActiveIsReleased'
    OBVIOUS
  <2>1. ASSUME NEW e \in Ensurers, Ensure(e)
        PROVE  KvmActiveIsReleased'
    BY <2>1 DEF Ensure, GoEnsure
  <2>2. ASSUME NEW e \in Ensurers, ReadOld(e)
        PROVE  KvmActiveIsReleased'
    BY <2>2 DEF ReadOld, GoEnsure
  <2>3. ASSUME NEW e \in Ensurers, LogoutOld(e)
        PROVE  KvmActiveIsReleased'
    BY <2>3 DEF LogoutOld, GoEnsure
  <2>4. ASSUME NEW e \in Ensurers, ForgetOld(e)
        PROVE  KvmActiveIsReleased'
    BY <2>4 DEF ForgetOld, GoEnsure
  <2>5. ASSUME NEW e \in Ensurers, CreateFails(e)
        PROVE  KvmActiveIsReleased'
    BY <2>5 DEF CreateFails, GoEnsure
  <2>6. ASSUME NEW e \in Ensurers, StoreNew(e)
        PROVE  KvmActiveIsReleased'
    BY <2>6 DEF StoreNew, GoEnsure
  <2>7. ASSUME NEW e \in Ensurers, NEW l \in Logins, CreateWebSession(e, l)
        PROVE  KvmActiveIsReleased'
    BY <2>7 DEF CreateWebSession, Open, FreshLogins, GoEnsure
  <2>8. ASSUME NEW s \in Sessions, StartSession(s)
        PROVE  KvmActiveIsReleased'
    BY <2>8 DEF StartSession, GoStart
  <2>9. ASSUME NEW s \in Sessions, ReadShared(s)
        PROVE  KvmActiveIsReleased'
    BY <2>9 DEF ReadShared, GoStart
  <2>10. ASSUME NEW s \in Sessions, StoreShared(s)
        PROVE  KvmActiveIsReleased'
    BY <2>10 DEF StoreShared, GoStart
  <2>11. ASSUME NEW s \in Sessions, FetchKVMToken(s)
        PROVE  KvmActiveIsReleased'
    BY <2>11 DEF FetchKVMToken, GoStart
  <2>12. ASSUME NEW s \in Sessions, StartFails(s)
        PROVE  KvmActiveIsReleased'
    BY <2>12 DEF StartFails, GoStart
  <2>13. ASSUME NEW s \in Sessions, NEW l \in Logins, CreateShared(s, l)
        PROVE  KvmActiveIsReleased'
    BY <2>13 DEF CreateShared, Open, FreshLogins, GoStart
  <2>14. ASSUME NEW w \in Watchers, NEW s \in Sessions, Watch(w, s)
        PROVE  KvmActiveIsReleased'
    BY <2>14 DEF Watch, GoWatch
  <2>15. ASSUME NEW w \in Watchers, Lookup(w)
        PROVE  KvmActiveIsReleased'
    BY <2>15 DEF Lookup, GoWatch
  <2>16. ASSUME NEW w \in Watchers, MarkActive(w)
        PROVE  KvmActiveIsReleased'
    BY <2>16 DEF MarkActive, GoWatch
  <2>17. ASSUME NEW w \in Watchers, ConnectFails(w)
        PROVE  KvmActiveIsReleased'
    BY <2>17 DEF ConnectFails, GoWatch
  <2>18. ASSUME NEW w \in Watchers, ClearOnFailure(w)
        PROVE  KvmActiveIsReleased'
    BY <2>18 DEF ClearOnFailure, GoWatch
  <2>19. ASSUME NEW w \in Watchers, Register(w)
        PROVE  KvmActiveIsReleased'
    BY <2>19 DEF Register, GoWatch
  <2>20. ASSUME NEW w \in Watchers, Leave(w)
        PROVE  KvmActiveIsReleased'
    BY <2>20 DEF Leave, GoWatch
  <2>21. ASSUME NEW w \in Watchers, NEW b \in Bridges, Connect(w, b)
        PROVE  KvmActiveIsReleased'
    BY <2>21 DEF Connect, FreshBridges, GoWatch
  <2>22. ASSUME NEW p \in Stoppers, NEW s \in Sessions, TakeBridge(p, s)
        PROVE  KvmActiveIsReleased'
    BY <2>22 DEF TakeBridge, GoStop
  <2>23. ASSUME NEW p \in Stoppers, Stop(p)
        PROVE  KvmActiveIsReleased'
    BY <2>23 DEF Stop, GoStop
  <2>24. ASSUME NEW p \in Stoppers, ClearActive(p)
        PROVE  KvmActiveIsReleased'
    BY <2>24 DEF ClearActive, GoStop
  <2>25. ASSUME NEW p \in Stoppers, Finish(p)
        PROVE  KvmActiveIsReleased'
    BY <2>25 DEF Finish, GoStop
  <2>26. ASSUME NEW l \in Logins, Expire(l)
        PROVE  KvmActiveIsReleased'
    BY <2>26 DEF Expire
  <2>27. ASSUME NEW b \in Bridges, Drop(b)
        PROVE  KvmActiveIsReleased'
    BY <2>27 DEF Drop
  <2>28. CASE PollStatus
    BY <2>28 DEF PollStatus
  <2>29. CASE UNCHANGED vars
    BY <2>29 DEF vars
  <2> QED BY <2>1, <2>2, <2>3, <2>4, <2>5, <2>6, <2>7, <2>8, <2>9, <2>10, <2>11,
           <2>12, <2>13, <2>14, <2>15, <2>16, <2>17, <2>18, <2>19, <2>20, <2>21,
           <2>22, <2>23, <2>24, <2>25, <2>26, <2>27, <2>28, <2>29 DEF Next,
           EnsureStep
<1> QED BY <1>1, <1>2, TypeCorrect, PTL DEF Spec

\* A login that was opened and not stored yet is open on the BMC, and known to
\* nobody but the caller that opened it.
NewLoginIsPrivate ==
    /\ \A e \in Ensurers : ensure[e].at = "store" =>
          /\ ensure[e].login \in live \ {bmcCreds}
          /\ \A f \in Ensurers : ensure[f].login = ensure[e].login => f = e
          /\ \A s \in Sessions : starter[s].login # ensure[e].login
    /\ \A s \in Sessions : starter[s].at = "store" =>
          /\ starter[s].login \in live \ {bmcCreds}
          /\ \A r \in Sessions : starter[r].login = starter[s].login => r = s
          /\ \A e \in Ensurers : ensure[e].login # starter[s].login

\* What ServedCredsAreLive needs to be inductive: StoreNew and StoreShared publish
\* a login that no other ensureBMCSession can be about to log out.
LEMMA NewLoginInvariant == Spec => []NewLoginIsPrivate
<1> USE NullsAssumption
        DEF TypeOK, NewLoginIsPrivate, loginVars, startVars, bridgeVars
<1>1. Init => NewLoginIsPrivate
  BY DEF Init
<1>2. TypeOK /\ NewLoginIsPrivate /\ [Next]_vars => NewLoginIsPrivate'
  <2> SUFFICES ASSUME TypeOK, NewLoginIsPrivate, [Next]_vars
               PROVE  NewLoginIsPrivate'
    OBVIOUS
  <2>1. ASSUME NEW e \in Ensurers, Ensure(e)
        PROVE  NewLoginIsPrivate'
    BY <2>1 DEF Ensure, GoEnsure
  <2>2. ASSUME NEW e \in Ensurers, ReadOld(e)
        PROVE  NewLoginIsPrivate'
    BY <2>2 DEF ReadOld, GoEnsure
  <2>3. ASSUME NEW e \in Ensurers, LogoutOld(e)
        PROVE  NewLoginIsPrivate'
    BY <2>3 DEF LogoutOld, GoEnsure
  <2>4. ASSUME NEW e \in Ensurers, ForgetOld(e)
        PROVE  NewLoginIsPrivate'
    BY <2>4 DEF ForgetOld, GoEnsure
  <2>5. ASSUME NEW e \in Ensurers, CreateFails(e)
        PROVE  NewLoginIsPrivate'
    BY <2>5 DEF CreateFails, GoEnsure
  <2>6. ASSUME NEW e \in Ensurers, StoreNew(e)
        PROVE  NewLoginIsPrivate'
    BY <2>6 DEF StoreNew, GoEnsure
  <2>7. ASSUME NEW e \in Ensurers, NEW l \in Logins, CreateWebSession(e, l)
        PROVE  NewLoginIsPrivate'
    BY <2>7 DEF CreateWebSession, Open, FreshLogins, GoEnsure
  <2>8. ASSUME NEW s \in Sessions, StartSession(s)
        PROVE  NewLoginIsPrivate'
    BY <2>8 DEF StartSession, GoStart
  <2>9. ASSUME NEW s \in Sessions, ReadShared(s)
        PROVE  NewLoginIsPrivate'
    BY <2>9 DEF ReadShared, GoStart
  <2>10. ASSUME NEW s \in Sessions, StoreShared(s)
        PROVE  NewLoginIsPrivate'
    BY <2>10 DEF StoreShared, GoStart
  <2>11. ASSUME NEW s \in Sessions, FetchKVMToken(s)
        PROVE  NewLoginIsPrivate'
    BY <2>11 DEF FetchKVMToken, GoStart
  <2>12. ASSUME NEW s \in Sessions, StartFails(s)
        PROVE  NewLoginIsPrivate'
    BY <2>12 DEF StartFails, GoStart
  <2>13. ASSUME NEW s \in Sessions, NEW l \in Logins, CreateShared(s, l)
        PROVE  NewLoginIsPrivate'
    BY <2>13 DEF CreateShared, Open, FreshLogins, GoStart
  <2>14. ASSUME NEW w \in Watchers, NEW s \in Sessions, Watch(w, s)
        PROVE  NewLoginIsPrivate'
    BY <2>14 DEF Watch, GoWatch
  <2>15. ASSUME NEW w \in Watchers, Lookup(w)
        PROVE  NewLoginIsPrivate'
    BY <2>15 DEF Lookup, GoWatch
  <2>16. ASSUME NEW w \in Watchers, MarkActive(w)
        PROVE  NewLoginIsPrivate'
    BY <2>16 DEF MarkActive, GoWatch
  <2>17. ASSUME NEW w \in Watchers, ConnectFails(w)
        PROVE  NewLoginIsPrivate'
    BY <2>17 DEF ConnectFails, GoWatch
  <2>18. ASSUME NEW w \in Watchers, ClearOnFailure(w)
        PROVE  NewLoginIsPrivate'
    BY <2>18 DEF ClearOnFailure, GoWatch
  <2>19. ASSUME NEW w \in Watchers, Register(w)
        PROVE  NewLoginIsPrivate'
    BY <2>19 DEF Register, GoWatch
  <2>20. ASSUME NEW w \in Watchers, Leave(w)
        PROVE  NewLoginIsPrivate'
    BY <2>20 DEF Leave, GoWatch
  <2>21. ASSUME NEW w \in Watchers, NEW b \in Bridges, Connect(w, b)
        PROVE  NewLoginIsPrivate'
    BY <2>21 DEF Connect, FreshBridges, GoWatch
  <2>22. ASSUME NEW p \in Stoppers, NEW s \in Sessions, TakeBridge(p, s)
        PROVE  NewLoginIsPrivate'
    BY <2>22 DEF TakeBridge, GoStop
  <2>23. ASSUME NEW p \in Stoppers, Stop(p)
        PROVE  NewLoginIsPrivate'
    BY <2>23 DEF Stop, GoStop
  <2>24. ASSUME NEW p \in Stoppers, ClearActive(p)
        PROVE  NewLoginIsPrivate'
    BY <2>24 DEF ClearActive, GoStop
  <2>25. ASSUME NEW p \in Stoppers, Finish(p)
        PROVE  NewLoginIsPrivate'
    BY <2>25 DEF Finish, GoStop
  <2>26. ASSUME NEW l \in Logins, Expire(l)
        PROVE  NewLoginIsPrivate'
    BY <2>26 DEF Expire
  <2>27. ASSUME NEW b \in Bridges, Drop(b)
        PROVE  NewLoginIsPrivate'
    BY <2>27 DEF Drop
  <2>28. CASE PollStatus
    BY <2>28 DEF PollStatus
  <2>29. CASE UNCHANGED vars
    BY <2>29 DEF vars
  <2> QED BY <2>1, <2>2, <2>3, <2>4, <2>5, <2>6, <2>7, <2>8, <2>9, <2>10, <2>11,
           <2>12, <2>13, <2>14, <2>15, <2>16, <2>17, <2>18, <2>19, <2>20, <2>21,
           <2>22, <2>23, <2>24, <2>25, <2>26, <2>27, <2>28, <2>29 DEF Next,
           EnsureStep
<1> QED BY <1>1, <1>2, TypeCorrect, PTL DEF Spec

\* ServedCredsAreLive: concurrent renewals never leave the entry with a login that
\* one of them has logged out.
THEOREM CredsAreServedLive == Spec => []ServedCredsAreLive
<1> USE NullsAssumption
        DEF TypeOK, NewLoginIsPrivate, ServedCredsAreLive, loginVars, startVars, bridgeVars
<1>1. Init => ServedCredsAreLive
  BY DEF Init
<1>2. TypeOK /\ NewLoginIsPrivate /\ ServedCredsAreLive /\ [Next]_vars
        => ServedCredsAreLive'
  <2> SUFFICES ASSUME TypeOK, NewLoginIsPrivate, ServedCredsAreLive, [Next]_vars
               PROVE  ServedCredsAreLive'
    OBVIOUS
  <2>1. ASSUME NEW e \in Ensurers, Ensure(e)
        PROVE  ServedCredsAreLive'
    BY <2>1 DEF Ensure, GoEnsure
  <2>2. ASSUME NEW e \in Ensurers, ReadOld(e)
        PROVE  ServedCredsAreLive'
    BY <2>2 DEF ReadOld, GoEnsure
  <2>3. ASSUME NEW e \in Ensurers, LogoutOld(e)
        PROVE  ServedCredsAreLive'
    BY <2>3 DEF LogoutOld, GoEnsure
  <2>4. ASSUME NEW e \in Ensurers, ForgetOld(e)
        PROVE  ServedCredsAreLive'
    BY <2>4 DEF ForgetOld, GoEnsure
  <2>5. ASSUME NEW e \in Ensurers, CreateFails(e)
        PROVE  ServedCredsAreLive'
    BY <2>5 DEF CreateFails, GoEnsure
  <2>6. ASSUME NEW e \in Ensurers, StoreNew(e)
        PROVE  ServedCredsAreLive'
    BY <2>6 DEF StoreNew, GoEnsure
  <2>7. ASSUME NEW e \in Ensurers, NEW l \in Logins, CreateWebSession(e, l)
        PROVE  ServedCredsAreLive'
    BY <2>7 DEF CreateWebSession, Open, FreshLogins, GoEnsure
  <2>8. ASSUME NEW s \in Sessions, StartSession(s)
        PROVE  ServedCredsAreLive'
    BY <2>8 DEF StartSession, GoStart
  <2>9. ASSUME NEW s \in Sessions, ReadShared(s)
        PROVE  ServedCredsAreLive'
    BY <2>9 DEF ReadShared, GoStart
  <2>10. ASSUME NEW s \in Sessions, StoreShared(s)
        PROVE  ServedCredsAreLive'
    BY <2>10 DEF StoreShared, GoStart
  <2>11. ASSUME NEW s \in Sessions, FetchKVMToken(s)
        PROVE  ServedCredsAreLive'
    BY <2>11 DEF FetchKVMToken, GoStart
  <2>12. ASSUME NEW s \in Sessions, StartFails(s)
        PROVE  ServedCredsAreLive'
    BY <2>12 DEF StartFails, GoStart
  <2>13. ASSUME NEW s \in Sessions, NEW l \in Logins, CreateShared(s, l)
        PROVE  ServedCredsAreLive'
    BY <2>13 DEF CreateShared, Open, FreshLogins, GoStart
  <2>14. ASSUME NEW w \in Watchers, NEW s \in Sessions, Watch(w, s)
        PROVE  ServedCredsAreLive'
    BY <2>14 DEF Watch, GoWatch
  <2>15. ASSUME NEW w \in Watchers, Lookup(w)
        PROVE  ServedCredsAreLive'
    BY <2>15 DEF Lookup, GoWatch
  <2>16. ASSUME NEW w \in Watchers, MarkActive(w)
        PROVE  ServedCredsAreLive'
    BY <2>16 DEF MarkActive, GoWatch
  <2>17. ASSUME NEW w \in Watchers, ConnectFails(w)
        PROVE  ServedCredsAreLive'
    BY <2>17 DEF ConnectFails, GoWatch
  <2>18. ASSUME NEW w \in Watchers, ClearOnFailure(w)
        PROVE  ServedCredsAreLive'
    BY <2>18 DEF ClearOnFailure, GoWatch
  <2>19. ASSUME NEW w \in Watchers, Register(w)
        PROVE  ServedCredsAreLive'
    BY <2>19 DEF Register, GoWatch
  <2>20. ASSUME NEW w \in Watchers, Leave(w)
        PROVE  ServedCredsAreLive'
    BY <2>20 DEF Leave, GoWatch
  <2>21. ASSUME NEW w \in Watchers, NEW b \in Bridges, Connect(w, b)
        PROVE  ServedCredsAreLive'
    BY <2>21 DEF Connect, FreshBridges, GoWatch
  <2>22. ASSUME NEW p \in Stoppers, NEW s \in Sessions, TakeBridge(p, s)
        PROVE  ServedCredsAreLive'
    BY <2>22 DEF TakeBridge, GoStop
  <2>23. ASSUME NEW p \in Stoppers, Stop(p)
        PROVE  ServedCredsAreLive'
    BY <2>23 DEF Stop, GoStop
  <2>24. ASSUME NEW p \in Stoppers, ClearActive(p)
        PROVE  ServedCredsAreLive'
    BY <2>24 DEF ClearActive, GoStop
  <2>25. ASSUME NEW p \in Stoppers, Finish(p)
        PROVE  ServedCredsAreLive'
    BY <2>25 DEF Finish, GoStop
  <2>26. ASSUME NEW l \in Logins, Expire(l)
        PROVE  ServedCredsAreLive'
    BY <2>26 DEF Expire
  <2>27. ASSUME NEW b \in Bridges, Drop(b)
        PROVE  ServedCredsAreLive'
    BY <2>27 DEF Drop
  <2>28. CASE PollStatus
    BY <2>28 DEF PollStatus
  <2>29. CASE UNCHANGED vars
    BY <2>29 DEF vars
  <2> QED BY <2>1, <2>2, <2>3, <2>4, <2>5, <2>6, <2>7, <2>8, <2>9, <2>10, <2>11,
           <2>12, <2>13, <2>14, <2>15, <2>16, <2>17, <2>18, <2>19, <2>20, <2>21,
           <2>22, <2>23, <2>24, <2>25, <2>26, <2>27, <2>28, <2>29 DEF Next,
           EnsureStep
<1> QED BY <1>1, <1>2, TypeCorrect, NewLoginInvariant, PTL DEF Spec

\* A bridge that was started for session s and not stopped.
RunsFor(b, s) == b \in Bridges /\ bridge[b] # "stopped" /\ owner[b] = s

\* A bridge is in one place at a time: with the handler that has started it, in the
\* map, or with the one caller of StopIKVMBridge that has taken it out.  It is there
\* under its own session, and it has not been stopped.
BridgeHasOneStopper ==
    /\ \A s \in Sessions : bridgeOf[s] # NoBridge => RunsFor(bridgeOf[s], s)
    /\ \A w \in Watchers : watcher[w].at = "register" =>
          /\ RunsFor(watcher[w].bridge, watcher[w].session)
          /\ \A s \in Sessions : bridgeOf[s] # watcher[w].bridge
          /\ \A p \in Stoppers : stopper[p].at = "stop" => stopper[p].bridge # watcher[w].bridge
          /\ \A v \in Watchers :
                watcher[v].at = "register" /\ watcher[v].bridge = watcher[w].bridge => v = w
    /\ \A p \in Stoppers : stopper[p].at = "stop" =>
          /\ RunsFor(stopper[p].bridge, stopper[p].session)
          /\ \A s \in Sessions : bridgeOf[s] # stopper[p].bridge
          /\ \A q \in Stoppers :
                stopper[q].at = "stop" /\ stopper[q].bridge = stopper[p].bridge => q = p

\* BridgeHasOneStopper: however many viewers start bridges and however many DELETEs,
\* idle timeouts and shutdowns stop them at once, Bridge.Stop is called at most once
\* for a bridge, and by nobody who is ending another session.
THEOREM BridgeStopsOnce == Spec => []BridgeHasOneStopper
<1> USE NullsAssumption
        DEF TypeOK, BridgeHasOneStopper, RunsFor, NoHandler, loginVars, startVars, bridgeVars
<1>1. Init => BridgeHasOneStopper
  BY DEF Init
<1>2. TypeOK /\ BridgeHasOneStopper /\ [Next]_vars => BridgeHasOneStopper'
  <2> SUFFICES ASSUME TypeOK, BridgeHasOneStopper, [Next]_vars
               PROVE  BridgeHasOneStopper'
    OBVIOUS
  <2>1. ASSUME NEW e \in Ensurers, Ensure(e) \/ EnsureStep(e)
        PROVE  BridgeHasOneStopper'
    BY <2>1 DEF Ensure, EnsureStep, ReadOld, LogoutOld, ForgetOld, CreateFails, StoreNew
  <2>2. ASSUME NEW e \in Ensurers, NEW l \in Logins, CreateWebSession(e, l)
        PROVE  BridgeHasOneStopper'
    BY <2>2 DEF CreateWebSession
  <2>3. ASSUME NEW s \in Sessions,
               \/ StartSession(s) \/ ReadShared(s) \/ StoreShared(s) \/ FetchKVMToken(s)
               \/ StartFails(s)
        PROVE  BridgeHasOneStopper'
    BY <2>3 DEF StartSession, ReadShared, StoreShared, FetchKVMToken, StartFails
  <2>4. ASSUME NEW s \in Sessions, NEW l \in Logins, CreateShared(s, l)
        PROVE  BridgeHasOneStopper'
    BY <2>4 DEF CreateShared
  <2>5. ASSUME NEW w \in Watchers, NEW s \in Sessions, Watch(w, s)
        PROVE  BridgeHasOneStopper'
    BY <2>5 DEF Watch, GoWatch
  <2>6. ASSUME NEW w \in Watchers,
               MarkActive(w) \/ ConnectFails(w) \/ ClearOnFailure(w) \/ Leave(w)
        PROVE  BridgeHasOneStopper'
    BY <2>6 DEF MarkActive, ConnectFails, ClearOnFailure, Leave, GoWatch
  <2>7. ASSUME NEW w \in Watchers, Lookup(w)
        PROVE  BridgeHasOneStopper'
    BY <2>7 DEF Lookup, GoWatch
  <2>8. ASSUME NEW w \in Watchers, NEW b \in Bridges, Connect(w, b)
        PROVE  BridgeHasOneStopper'
    BY <2>8 DEF Connect, FreshBridges, GoWatch
  <2>9. ASSUME NEW w \in Watchers, Register(w)
        PROVE  BridgeHasOneStopper'
    BY <2>9 DEF Register, GoWatch
  <2>10. ASSUME NEW p \in Stoppers, NEW s \in Sessions, TakeBridge(p, s)
        PROVE  BridgeHasOneStopper'
    BY <2>10 DEF TakeBridge, GoStop
  <2>11. ASSUME NEW p \in Stoppers, Stop(p)
        PROVE  BridgeHasOneStopper'
    BY <2>11 DEF Stop, GoStop
  <2>12. ASSUME NEW p \in Stoppers, ClearActive(p) \/ Finish(p)
        PROVE  BridgeHasOneStopper'
    BY <2>12 DEF ClearActive, Finish, GoStop
  <2>13. ASSUME NEW l \in Logins, Expire(l)
        PROVE  BridgeHasOneStopper'
    BY <2>13 DEF Expire
  <2>14. ASSUME NEW b \in Bridges, Drop(b)
        PROVE  BridgeHasOneStopper'
    BY <2>14 DEF Drop
  <2>15. CASE PollStatus \/ UNCHANGED vars
    BY <2>15 DEF PollStatus, vars
  <2> QED BY <2>1, <2>2, <2>3, <2>4, <2>5, <2>6, <2>7, <2>8, <2>9, <2>10, <2>11,
           <2>12, <2>13, <2>14, <2>15 DEF Next
<1> QED BY <1>1, <1>2, TypeCorrect, PTL DEF Spec
=============================================================================
