----------------------- MODULE SessionLifecycleProofs -----------------------
(***************************************************************************)
(* Proofs that the session properties hold for any number of sessions,     *)
(* servers and concurrent handlers.  Each of the invariants is inductive   *)
(* together with type correctness.                                         *)
(***************************************************************************)
EXTENDS SessionLifecycle, TLAPS

\* Every reachable state of the session model is well typed, whatever the
\* interleaving of handlers, cleanup, shutdown and restarts.
THEOREM TypeCorrect == Spec => []TypeOK
<1> USE SessionsAssumption, ServersAssumption, BoundsAssumption
        DEF TypeOK, Known, Status, Active, Ended, IdleCreator, IdleHandler, storeVars,
            credVars, startVars
<1>1. Init => TypeOK
  BY DEF Init, IdleCreator, IdleHandler
<1>2. TypeOK /\ [Next]_vars => TypeOK'
  <2> SUFFICES ASSUME TypeOK, [Next]_vars
               PROVE  TypeOK'
    OBVIOUS
  <2>1. ASSUME NEW c \in Creators, NEW v \in Servers, FindExisting(c, v)
        PROVE  TypeOK'
    BY <2>1 DEF FindExisting, IdleCreator
  <2>2. ASSUME NEW c \in Creators, CheckLimit(c)
        PROVE  TypeOK'
    BY <2>2 DEF CheckLimit, IdleCreator
  <2>3. ASSUME NEW c \in Creators, NEW s \in Sessions, Create(c, s)
        PROVE  TypeOK'
    BY <2>3 DEF Create, Set
  <2>4. ASSUME NEW s \in Sessions, StartFails(s)
        PROVE  TypeOK'
    BY <2>4 DEF StartFails, Set
  <2>5. ASSUME NEW s \in Sessions, RetryAuth(s)
        PROVE  TypeOK'
    BY <2>5 DEF RetryAuth
  <2>6. ASSUME NEW s \in Sessions, Authenticate(s)
        PROVE  TypeOK'
    BY <2>6 DEF Authenticate
  <2>7. ASSUME NEW s \in Sessions, StoreCreds(s)
        PROVE  TypeOK'
    BY <2>7 DEF StoreCreds
  <2>8. ASSUME NEW s \in Sessions, Publish(s)
        PROVE  TypeOK'
    BY <2>8 DEF Publish, Set
  <2>9. ASSUME NEW w \in Watchers, NEW s \in Sessions, Watch(w, s)
        PROVE  TypeOK'
    BY <2>9 DEF Watch, Set
  <2>10. ASSUME NEW w \in Watchers, Attach(w)
        PROVE  TypeOK'
    <3>1. watcher[w].session \in Sessions
      BY <2>10 DEF Attach
    <3> QED BY <2>10, <3>1 DEF Attach, At
  <2>11. ASSUME NEW w \in Watchers, Unwatch(w)
        PROVE  TypeOK'
    BY <2>11 DEF Unwatch, IdleHandler
  <2>12. ASSUME NEW s \in Sessions, KeepAlive(s)
        PROVE  TypeOK'
    BY <2>12 DEF KeepAlive, Set
  <2>13. ASSUME NEW d \in Deleters, NEW s \in Sessions, TakeCreds(d, s)
        PROVE  TypeOK'
    BY <2>13 DEF TakeCreds
  <2>14. ASSUME NEW d \in Deleters, Logout(d)
        PROVE  TypeOK'
    <3>1. deleter[d].session \in Sessions
      BY <2>14 DEF Logout
    <3> QED BY <2>14, <3>1 DEF Logout, At, EndLogin
  <2>15. ASSUME NEW d \in Deleters, StopBridges(d)
        PROVE  TypeOK'
    <3>1. deleter[d].session \in Sessions
      BY <2>15 DEF StopBridges
    <3> QED BY <2>15, <3>1 DEF StopBridges, At
  <2>16. ASSUME NEW d \in Deleters, FinishDelete(d)
        PROVE  TypeOK'
    <3>1. deleter[d].session \in Sessions
      BY <2>16 DEF FinishDelete
    <3> QED BY <2>16, <3>1 DEF FinishDelete, Set
  <2>17. ASSUME NEW s \in Sessions, BecomeIdle(s)
        PROVE  TypeOK'
    BY <2>17 DEF BecomeIdle
  <2>18. ASSUME NEW s \in Sessions, CredsAge(s)
        PROVE  TypeOK'
    BY <2>18 DEF CredsAge
  <2>19. ASSUME NEW s \in Sessions, IdleTimeout(s)
        PROVE  TypeOK'
    BY <2>19 DEF IdleTimeout
  <2>20. CASE Reap
    BY <2>20 DEF Reap, Set
  <2>21. CASE CleanupStaleBMCCreds
    BY <2>21 DEF CleanupStaleBMCCreds
  <2>22. ASSUME NEW s \in Sessions, LogoutStale(s)
        PROVE  TypeOK'
    BY <2>22 DEF LogoutStale, EndLogin
  <2>23. CASE Shutdown
    BY <2>23 DEF Shutdown
  <2>24. ASSUME NEW s \in Sessions, DrainSession(s)
        PROVE  TypeOK'
    BY <2>24 DEF DrainSession, Set
  <2>25. ASSUME NEW s \in Sessions, StartPanics(s)
        PROVE  TypeOK'
    BY <2>25 DEF StartPanics, Restart, Reloaded, IdleCreator, IdleHandler
  <2>26. CASE Restart
    BY <2>26 DEF Restart, Reloaded, IdleCreator, IdleHandler
  <2>27. CASE UNCHANGED vars
    BY <2>27 DEF vars, storeVars, credVars, startVars
  <2> QED BY <2>1, <2>2, <2>3, <2>4, <2>5, <2>6, <2>7, <2>8, <2>9, <2>10, <2>11,
           <2>12, <2>13, <2>14, <2>15, <2>16, <2>17, <2>18, <2>19, <2>20, <2>21,
           <2>22, <2>23, <2>24, <2>25, <2>26, <2>27 DEF Next, StartStep,
           DeleteStep
<1> QED BY <1>1, <1>2, PTL DEF Spec

\* A session id that no CreateSession has used yet has no startSession goroutine,
\* and neither a DELETE handler nor the idle cleanup works on it.
UncreatedIsIdle ==
    \A s \in Sessions : status[s] = "none" =>
        /\ start[s] = "none"
        /\ reaper # s
        /\ \A d \in Deleters : deleter[d].session # s

\* Create gives the goroutine to an id that has none: what UncreatedIsIdle adds to
\* NoUntrackedLogin and to OneOwner to make them inductive.
LEMMA UncreatedInvariant == Spec => []UncreatedIsIdle
<1> USE SessionsAssumption
    DEF TypeOK, UncreatedIsIdle, IdleHandler, Known, Status, Active, Ended, storeVars,
        credVars, startVars
<1>1. Init => UncreatedIsIdle
  BY DEF Init
<1>2. TypeOK /\ UncreatedIsIdle /\ [Next]_vars => UncreatedIsIdle'
  <2> SUFFICES ASSUME TypeOK, UncreatedIsIdle, [Next]_vars
               PROVE  UncreatedIsIdle'
    OBVIOUS
  <2> QED
    BY DEF Next, StartStep, DeleteStep, vars, Set, EndLogin, At, Reloaded,
           FindExisting, CheckLimit, Create, StartFails, RetryAuth,
           Authenticate, StoreCreds, Publish, Watch, Attach, Unwatch,
           KeepAlive, TakeCreds, Logout, StopBridges, FinishDelete,
           BecomeIdle, CredsAge, IdleTimeout, Reap, CleanupStaleBMCCreds,
           LogoutStale, Shutdown, DrainSession, StartPanics, Restart
<1> QED BY <1>1, <1>2, TypeCorrect, PTL DEF Spec

\* NoUntrackedLogin: no interleaving of startSession, DeleteSession, the
\* credential cleanup and restarts loses track of a BMC login.
THEOREM LoginsAreTracked == Spec => []NoUntrackedLogin
<1> USE DEF TypeOK, UncreatedIsIdle, NoUntrackedLogin, storeVars, credVars, startVars
<1>1. Init => NoUntrackedLogin
  BY DEF Init
<1>2. TypeOK /\ UncreatedIsIdle /\ NoUntrackedLogin /\ [Next]_vars => NoUntrackedLogin'
  <2> SUFFICES ASSUME TypeOK, UncreatedIsIdle, NoUntrackedLogin, [Next]_vars
               PROVE  NoUntrackedLogin'
    OBVIOUS
  <2>1. ASSUME NEW c \in Creators, NEW v \in Servers, FindExisting(c, v)
        PROVE  NoUntrackedLogin'
    BY <2>1 DEF FindExisting, IdleCreator
  <2>2. ASSUME NEW c \in Creators, CheckLimit(c)
        PROVE  NoUntrackedLogin'
    BY <2>2 DEF CheckLimit, IdleCreator
  <2>3. ASSUME NEW c \in Creators, NEW s \in Sessions, Create(c, s)
        PROVE  NoUntrackedLogin'
    BY <2>3 DEF Create, Set
  <2>4. ASSUME NEW s \in Sessions, StartFails(s)
        PROVE  NoUntrackedLogin'
    BY <2>4 DEF StartFails, Set
  <2>5. ASSUME NEW s \in Sessions, RetryAuth(s)
        PROVE  NoUntrackedLogin'
    BY <2>5 DEF RetryAuth
  <2>6. ASSUME NEW s \in Sessions, Authenticate(s)
        PROVE  NoUntrackedLogin'
    BY <2>6 DEF Authenticate
  <2>7. ASSUME NEW s \in Sessions, StoreCreds(s)
        PROVE  NoUntrackedLogin'
    BY <2>7 DEF StoreCreds
  <2>8. ASSUME NEW s \in Sessions, Publish(s)
        PROVE  NoUntrackedLogin'
    BY <2>8 DEF Publish, Set
  <2>9. ASSUME NEW w \in Watchers, NEW s \in Sessions, Watch(w, s)
        PROVE  NoUntrackedLogin'
    BY <2>9 DEF Watch, Set
  <2>10. ASSUME NEW w \in Watchers, Attach(w)
        PROVE  NoUntrackedLogin'
    BY <2>10 DEF Attach, At
  <2>11. ASSUME NEW w \in Watchers, Unwatch(w)
        PROVE  NoUntrackedLogin'
    BY <2>11 DEF Unwatch, IdleHandler
  <2>12. ASSUME NEW s \in Sessions, KeepAlive(s)
        PROVE  NoUntrackedLogin'
    BY <2>12 DEF KeepAlive, Set
  <2>13. ASSUME NEW d \in Deleters, NEW s \in Sessions, TakeCreds(d, s)
        PROVE  NoUntrackedLogin'
    BY <2>13 DEF TakeCreds
  <2>14. ASSUME NEW d \in Deleters, Logout(d)
        PROVE  NoUntrackedLogin'
    BY <2>14 DEF Logout, EndLogin, At
  <2>15. ASSUME NEW d \in Deleters, StopBridges(d)
        PROVE  NoUntrackedLogin'
    BY <2>15 DEF StopBridges, At
  <2>16. ASSUME NEW d \in Deleters, FinishDelete(d)
        PROVE  NoUntrackedLogin'
    BY <2>16 DEF FinishDelete, Set
  <2>17. ASSUME NEW s \in Sessions, BecomeIdle(s)
        PROVE  NoUntrackedLogin'
    BY <2>17 DEF BecomeIdle
  <2>18. ASSUME NEW s \in Sessions, CredsAge(s)
        PROVE  NoUntrackedLogin'
    BY <2>18 DEF CredsAge
  <2>19. ASSUME NEW s \in Sessions, IdleTimeout(s)
        PROVE  NoUntrackedLogin'
    BY <2>19 DEF IdleTimeout
  <2>20. CASE Reap
    BY <2>20 DEF Reap, Set
  <2>21. CASE CleanupStaleBMCCreds
    BY <2>21 DEF CleanupStaleBMCCreds
  <2>22. ASSUME NEW s \in Sessions, LogoutStale(s)
        PROVE  NoUntrackedLogin'
    BY <2>22 DEF LogoutStale, EndLogin
  <2>23. CASE Shutdown
    BY <2>23 DEF Shutdown
  <2>24. ASSUME NEW s \in Sessions, DrainSession(s)
        PROVE  NoUntrackedLogin'
    BY <2>24 DEF DrainSession, Set
  <2>25. ASSUME NEW s \in Sessions, StartPanics(s)
        PROVE  NoUntrackedLogin'
    BY <2>25 DEF StartPanics, Restart, Reloaded, IdleCreator, IdleHandler
  <2>26. CASE Restart
    BY <2>26 DEF Restart, Reloaded, IdleCreator, IdleHandler
  <2>27. CASE UNCHANGED vars
    BY <2>27 DEF vars, storeVars, credVars, startVars
  <2> QED BY <2>1, <2>2, <2>3, <2>4, <2>5, <2>6, <2>7, <2>8, <2>9, <2>10, <2>11,
           <2>12, <2>13, <2>14, <2>15, <2>16, <2>17, <2>18, <2>19, <2>20, <2>21,
           <2>22, <2>23, <2>24, <2>25, <2>26, <2>27 DEF Next, StartStep,
           DeleteStep
<1> QED BY <1>1, <1>2, TypeCorrect, UncreatedInvariant, PTL DEF Spec

\* StartingHasStarter: a "starting" session always has its startSession
\* goroutine, also after a restart.
THEOREM StartersRun == Spec => []StartingHasStarter
<1> USE DEF TypeOK, StartingHasStarter, Known, Status, Active, Ended, storeVars,
            credVars, startVars
<1>1. Init => StartingHasStarter
  BY DEF Init
<1>2. TypeOK /\ StartingHasStarter /\ [Next]_vars => StartingHasStarter'
  <2> SUFFICES ASSUME TypeOK, StartingHasStarter, [Next]_vars
               PROVE  StartingHasStarter'
    OBVIOUS
  <2> QED
    BY DEF Next, StartStep, DeleteStep, vars, Set, EndLogin, At, Reloaded,
           FindExisting, CheckLimit, Create, StartFails, RetryAuth,
           Authenticate, StoreCreds, Publish, Watch, Attach, Unwatch,
           KeepAlive, TakeCreds, Logout, StopBridges, FinishDelete,
           BecomeIdle, CredsAge, IdleTimeout, Reap, CleanupStaleBMCCreds,
           LogoutStale, Shutdown, DrainSession, StartPanics, Restart
<1> QED BY <1>1, <1>2, TypeCorrect, PTL DEF Spec

\* EndedStaysEnded: no step takes a session out of "disconnected" or "error"
\* once its startSession has returned.
THEOREM NoResurrection == Spec => EndedStaysEnded
<1> DEFINE Stays == \A s \in Sessions :
              (status[s] \in Ended /\ start[s] = "none") => status'[s] \notin Active
<1>1. TypeOK /\ [Next]_vars => [Stays]_vars
  <2> SUFFICES ASSUME TypeOK, [Next]_vars
               PROVE  Stays
    OBVIOUS
  <2> USE DEF TypeOK, Known, Status, Active, Ended, storeVars, credVars, startVars
  <2> QED
    BY DEF Next, StartStep, DeleteStep, vars, Set, EndLogin, At, Reloaded,
           FindExisting, CheckLimit, Create, StartFails, RetryAuth,
           Authenticate, StoreCreds, Publish, Watch, Attach, Unwatch,
           KeepAlive, TakeCreds, Logout, StopBridges, FinishDelete,
           BecomeIdle, CredsAge, IdleTimeout, Reap, CleanupStaleBMCCreds,
           LogoutStale, Shutdown, DrainSession, StartPanics, Restart
<1> QED BY <1>1, TypeCorrect, PTL DEF Spec, EndedStaysEnded

\* A DeleteSession handler has taken the credentials of s and is about to log out.
LogsOut(d, s) == deleter[d].at = "logout" /\ deleter[d].session = s

\* At most one party answers for the login of a session: its startSession, the map
\* of credentials, the cleanup, or one DELETE handler.  Who answers for a login has
\* one that is still open, and a session that has yet to log in has none.
OneOwner ==
    /\ orphans \subseteq loggedIn
    /\ \A s \in Sessions :
          /\ (status[s] = "none" \/ start[s] = "auth") => s \notin loggedIn
          /\ start[s] = "store" => s \in loggedIn \ (orphans \cup creds \cup logouts)
          /\ s \in creds => s \in loggedIn \ (orphans \cup logouts)
          /\ s \in logouts => s \in loggedIn \ orphans
          /\ \A d \in Deleters : LogsOut(d, s) =>
                /\ s \in loggedIn \ (orphans \cup creds \cup logouts)
                /\ start[s] # "store"
                /\ \A e \in Deleters : LogsOut(e, s) => e = d

\* OneOwner: no two of startSession, BMCCreds, CleanupStaleBMCCreds and the
\* DELETE handlers ever answer for the same login, so none is logged out twice.
THEOREM LoginHasOneOwner == Spec => []OneOwner
<1> USE SessionsAssumption
    DEF TypeOK, UncreatedIsIdle, OneOwner, LogsOut, Known, Status, Active, Ended,
        storeVars, credVars, startVars
<1>1. Init => OneOwner
  BY DEF Init, IdleHandler
<1>2. TypeOK /\ UncreatedIsIdle /\ OneOwner /\ [Next]_vars => OneOwner'
  <2> SUFFICES ASSUME TypeOK, UncreatedIsIdle, OneOwner, [Next]_vars
               PROVE  OneOwner'
    OBVIOUS
  <2>1. ASSUME NEW c \in Creators, NEW v \in Servers, FindExisting(c, v)
        PROVE  OneOwner'
    BY <2>1 DEF FindExisting, IdleCreator
  <2>2. ASSUME NEW c \in Creators, CheckLimit(c)
        PROVE  OneOwner'
    BY <2>2 DEF CheckLimit, IdleCreator
  <2>3. ASSUME NEW c \in Creators, NEW s \in Sessions, Create(c, s)
        PROVE  OneOwner'
    BY <2>3 DEF Create, Set
  <2>4. ASSUME NEW s \in Sessions, StartFails(s)
        PROVE  OneOwner'
    BY <2>4 DEF StartFails, Set
  <2>5. ASSUME NEW s \in Sessions, RetryAuth(s)
        PROVE  OneOwner'
    BY <2>5 DEF RetryAuth
  <2>6. ASSUME NEW s \in Sessions, Authenticate(s)
        PROVE  OneOwner'
    BY <2>6 DEF Authenticate
  <2>7. ASSUME NEW s \in Sessions, StoreCreds(s)
        PROVE  OneOwner'
    BY <2>7 DEF StoreCreds
  <2>8. ASSUME NEW s \in Sessions, Publish(s)
        PROVE  OneOwner'
    BY <2>8 DEF Publish, Set
  <2>9. ASSUME NEW w \in Watchers, NEW s \in Sessions, Watch(w, s)
        PROVE  OneOwner'
    BY <2>9 DEF Watch, Set
  <2>10. ASSUME NEW w \in Watchers, Attach(w)
        PROVE  OneOwner'
    BY <2>10 DEF Attach, At
  <2>11. ASSUME NEW w \in Watchers, Unwatch(w)
        PROVE  OneOwner'
    BY <2>11 DEF Unwatch, IdleHandler
  <2>12. ASSUME NEW s \in Sessions, KeepAlive(s)
        PROVE  OneOwner'
    BY <2>12 DEF KeepAlive, Set
  <2>13. ASSUME NEW d \in Deleters, NEW s \in Sessions, TakeCreds(d, s)
        PROVE  OneOwner'
    BY <2>13 DEF TakeCreds
  <2>14. ASSUME NEW d \in Deleters, Logout(d)
        PROVE  OneOwner'
    BY <2>14 DEF Logout, EndLogin, At, IdleHandler
  <2>15. ASSUME NEW d \in Deleters, StopBridges(d)
        PROVE  OneOwner'
    BY <2>15 DEF StopBridges, At
  <2>16. ASSUME NEW d \in Deleters, FinishDelete(d)
        PROVE  OneOwner'
    BY <2>16 DEF FinishDelete, Set, IdleHandler
  <2>17. ASSUME NEW s \in Sessions, BecomeIdle(s)
        PROVE  OneOwner'
    BY <2>17 DEF BecomeIdle
  <2>18. ASSUME NEW s \in Sessions, CredsAge(s)
        PROVE  OneOwner'
    BY <2>18 DEF CredsAge
  <2>19. ASSUME NEW s \in Sessions, IdleTimeout(s)
        PROVE  OneOwner'
    BY <2>19 DEF IdleTimeout
  <2>20. CASE Reap
    BY <2>20 DEF Reap, Set
  <2>21. CASE CleanupStaleBMCCreds
    BY <2>21 DEF CleanupStaleBMCCreds
  <2>22. ASSUME NEW s \in Sessions, LogoutStale(s)
        PROVE  OneOwner'
    BY <2>22 DEF LogoutStale, EndLogin
  <2>23. CASE Shutdown
    BY <2>23 DEF Shutdown
  <2>24. ASSUME NEW s \in Sessions, DrainSession(s)
        PROVE  OneOwner'
    BY <2>24 DEF DrainSession, Set
  <2>25. ASSUME NEW s \in Sessions, StartPanics(s)
        PROVE  OneOwner'
    BY <2>25 DEF StartPanics, Restart, Reloaded, IdleHandler
  <2>26. CASE Restart
    BY <2>26 DEF Restart, Reloaded, IdleHandler
  <2>27. CASE UNCHANGED vars
    BY <2>27 DEF vars
  <2> QED BY <2>1, <2>2, <2>3, <2>4, <2>5, <2>6, <2>7, <2>8, <2>9, <2>10, <2>11,
           <2>12, <2>13, <2>14, <2>15, <2>16, <2>17, <2>18, <2>19, <2>20, <2>21,
           <2>22, <2>23, <2>24, <2>25, <2>26, <2>27
        DEF Next, StartStep, DeleteStep
<1> QED BY <1>1, <1>2, TypeCorrect, UncreatedInvariant, PTL DEF Spec

\* A step of the abstract ledger, or none.
LedgerStep == [Ledger!Next]_LoginOwner

\* Equal owners before and after a step are a stutter of the ledger.
LEMMA Stutters ==
    ASSUME \A t \in Sessions : LoginOwner'[t] = LoginOwner[t]
    PROVE  LedgerStep
BY DEF LedgerStep, LoginOwner

\* The owner of one login changes, along one of the ways the ledger knows.
LEMMA Passes ==
    ASSUME NEW s \in Sessions,
           \A t \in Sessions \ {s} : LoginOwner'[t] = LoginOwner[t],
           \/ LoginOwner[s] = "unopened" /\ LoginOwner'[s] \in {"starter", "over"}
           \/ LoginOwner[s] = "starter" /\ LoginOwner'[s] = "map"
           \/ LoginOwner[s] = "closer" /\ LoginOwner'[s] \in {"over", "lost"}
    PROVE  LedgerStep
<1>1. LoginOwner' = [LoginOwner EXCEPT ![s] = LoginOwner'[s]]
  BY DEF LoginOwner
<1>2. \/ Ledger!Pass(s, "unopened", "starter")
      \/ Ledger!Pass(s, "unopened", "over")
      \/ Ledger!Pass(s, "starter", "map")
      \/ Ledger!Pass(s, "closer", "over")
      \/ Ledger!Pass(s, "closer", "lost")
  BY <1>1 DEF Ledger!Pass
<1> QED BY <1>2 DEF LedgerStep, Ledger!Next

\* Any number of logins leave the map together.
LEMMA Takes ==
    ASSUME NEW S \in SUBSET Sessions,
           \A t \in S : LoginOwner[t] = "map" /\ LoginOwner'[t] = "closer",
           \A t \in Sessions \ S : LoginOwner'[t] = LoginOwner[t]
    PROVE  LedgerStep
<1>1. LoginOwner' = [t \in Sessions |-> IF t \in S THEN "closer" ELSE LoginOwner[t]]
  BY DEF LoginOwner
<1>2. Ledger!Take(S)
  BY <1>1 DEF Ledger!Take
<1> QED BY <1>2 DEF LedgerStep, Ledger!Next

\* A restart, of a process that was stopped or one that panicked: no login that
\* was open keeps its owner, and no session that was created can still log in.
LEMMA RestartLoses ==
    ASSUME TypeOK, UncreatedIsIdle, OneOwner, Restart
    PROVE  LedgerStep
<1> USE DEF TypeOK, UncreatedIsIdle, OneOwner, LogsOut, Status, Known, Active, LoginOwner
<1> DEFINE O == LoginOwner
           P == LoginOwner'
<1>1. P \in [Sessions -> {"unopened", "over", "lost"}]
  BY DEF Restart
<1>2. \A s \in Sessions : O[s] \in Ledger!Open => P[s] = "lost"
  BY DEF Restart, Ledger!Open
<1>3. \A s \in Sessions : O[s] = "unopened" => P[s] \in {"unopened", "over"}
  BY DEF Restart
<1>4. \A s \in Sessions : O[s] \notin Ledger!Open /\ O[s] # "unopened" => P[s] = O[s]
  BY DEF Restart, Reloaded, Ledger!Open
<1> HIDE DEF O, P
<1>5. P \in {f \in [Sessions -> {"unopened", "over", "lost"}] :
              \A l \in Sessions :
                  CASE O[l] \in Ledger!Open -> f[l] = "lost"
                    [] O[l] = "unopened" -> f[l] \in {"unopened", "over"}
                    [] OTHER -> f[l] = O[l]}
  BY <1>1, <1>2, <1>3, <1>4 DEF Ledger!Open
<1> QED BY <1>5 DEF O, P, LedgerStep, Ledger!Next, Ledger!Crash

\* ImplementsLoginLedger: startSession, the DELETE handlers, the cleanup, shutdown
\* and restarts together keep the abstract ledger of BMC logins.
THEOREM RefinesLoginLedger == Spec => ImplementsLoginLedger
<1> USE DEF TypeOK, UncreatedIsIdle, OneOwner, Known, Status, Active, Ended, storeVars,
            credVars, startVars
<1>1. Init => Ledger!Init
  BY DEF Init, Ledger!Init, LoginOwner
<1>2. TypeOK /\ UncreatedIsIdle /\ OneOwner /\ [Next]_vars => LedgerStep
  <2> SUFFICES ASSUME TypeOK, UncreatedIsIdle, OneOwner, [Next]_vars
               PROVE  LedgerStep
    OBVIOUS
  <2> USE DEF LoginOwner
  <2>1. ASSUME NEW c \in Creators, NEW v \in Servers, FindExisting(c, v)
        PROVE  LedgerStep
    <3>1. \A t \in Sessions : LoginOwner'[t] = LoginOwner[t]
      BY <2>1 DEF FindExisting, IdleCreator
    <3> QED BY <3>1, Stutters
  <2>2. ASSUME NEW c \in Creators, CheckLimit(c)
        PROVE  LedgerStep
    <3>1. \A t \in Sessions : LoginOwner'[t] = LoginOwner[t]
      BY <2>2 DEF CheckLimit, IdleCreator
    <3> QED BY <3>1, Stutters
  <2>3. ASSUME NEW c \in Creators, NEW s \in Sessions, Create(c, s)
        PROVE  LedgerStep
    <3>1. \A t \in Sessions : LoginOwner'[t] = LoginOwner[t]
      BY <2>3 DEF Create, Set
    <3> QED BY <3>1, Stutters
  <2>4. ASSUME NEW s \in Sessions, StartFails(s)
        PROVE  LedgerStep
    <3>1. LoginOwner[s] = "unopened" /\ LoginOwner'[s] = "over"
      BY <2>4 DEF StartFails, Set
    <3>2. \A t \in Sessions \ {s} : LoginOwner'[t] = LoginOwner[t]
      BY <2>4 DEF StartFails, Set
    <3> QED BY <3>1, <3>2, Passes
  <2>5. ASSUME NEW s \in Sessions, RetryAuth(s)
        PROVE  LedgerStep
    <3>1. \A t \in Sessions : LoginOwner'[t] = LoginOwner[t]
      BY <2>5 DEF RetryAuth
    <3> QED BY <3>1, Stutters
  <2>6. ASSUME NEW s \in Sessions, Authenticate(s)
        PROVE  LedgerStep
    <3>1. LoginOwner[s] = "unopened" /\ LoginOwner'[s] = "starter"
      BY <2>6 DEF Authenticate
    <3>2. \A t \in Sessions \ {s} : LoginOwner'[t] = LoginOwner[t]
      BY <2>6 DEF Authenticate
    <3> QED BY <3>1, <3>2, Passes
  <2>7. ASSUME NEW s \in Sessions, StoreCreds(s)
        PROVE  LedgerStep
    <3>1. LoginOwner[s] = "starter" /\ LoginOwner'[s] = "map"
      BY <2>7 DEF StoreCreds
    <3>2. \A t \in Sessions \ {s} : LoginOwner'[t] = LoginOwner[t]
      BY <2>7 DEF StoreCreds
    <3> QED BY <3>1, <3>2, Passes
  <2>8. ASSUME NEW s \in Sessions, Publish(s)
        PROVE  LedgerStep
    <3>1. CASE start[s] = "auth"
      <4>1. LoginOwner[s] = "unopened" /\ LoginOwner'[s] = "over"
        BY <2>8, <3>1 DEF Publish, Set
      <4>2. \A t \in Sessions \ {s} : LoginOwner'[t] = LoginOwner[t]
        BY <2>8 DEF Publish, Set
      <4> QED BY <4>1, <4>2, Passes
    <3>2. CASE start[s] # "auth"
      <4>1. \A t \in Sessions : LoginOwner'[t] = LoginOwner[t]
        BY <2>8, <3>2 DEF Publish, Set
      <4> QED BY <4>1, Stutters
    <3> QED BY <3>1, <3>2
  <2>9. ASSUME NEW w \in Watchers, NEW s \in Sessions, Watch(w, s)
        PROVE  LedgerStep
    <3>1. \A t \in Sessions : LoginOwner'[t] = LoginOwner[t]
      BY <2>9 DEF Watch, Set
    <3> QED BY <3>1, Stutters
  <2>10. ASSUME NEW w \in Watchers, Attach(w)
        PROVE  LedgerStep
    <3>1. \A t \in Sessions : LoginOwner'[t] = LoginOwner[t]
      BY <2>10 DEF Attach, At
    <3> QED BY <3>1, Stutters
  <2>11. ASSUME NEW w \in Watchers, Unwatch(w)
        PROVE  LedgerStep
    <3>1. \A t \in Sessions : LoginOwner'[t] = LoginOwner[t]
      BY <2>11 DEF Unwatch, IdleHandler
    <3> QED BY <3>1, Stutters
  <2>12. ASSUME NEW s \in Sessions, KeepAlive(s)
        PROVE  LedgerStep
    <3>1. \A t \in Sessions : LoginOwner'[t] = LoginOwner[t]
      BY <2>12 DEF KeepAlive, Set
    <3> QED BY <3>1, Stutters
  <2>13. ASSUME NEW d \in Deleters, NEW s \in Sessions, TakeCreds(d, s)
        PROVE  LedgerStep
    <3> DEFINE S == creds \cap {s}
    <3>0. S \in SUBSET Sessions
      OBVIOUS
    <3>1. \A t \in S : LoginOwner[t] = "map" /\ LoginOwner'[t] = "closer"
      BY <2>13 DEF TakeCreds
    <3>2. \A t \in Sessions \ S : LoginOwner'[t] = LoginOwner[t]
      BY <2>13 DEF TakeCreds
    <3> QED BY <3>0, <3>1, <3>2, Takes
  <2>14. ASSUME NEW d \in Deleters, Logout(d)
        PROVE  LedgerStep
    <3> DEFINE s == deleter[d].session
    <3>1. s \in Sessions /\ LogsOut(d, s)
      BY <2>14 DEF Logout, IdleHandler, LogsOut
    <3>2. LoginOwner[s] = "closer" /\ LoginOwner'[s] \in {"over", "lost"}
      BY <2>14, <3>1 DEF Logout, EndLogin
    <3>3. \A t \in Sessions \ {s} : LoginOwner'[t] = LoginOwner[t]
      BY <2>14, <3>1 DEF Logout, EndLogin
    <3> QED BY <3>1, <3>2, <3>3, Passes
  <2>15. ASSUME NEW d \in Deleters, StopBridges(d)
        PROVE  LedgerStep
    <3>1. \A t \in Sessions : LoginOwner'[t] = LoginOwner[t]
      BY <2>15 DEF StopBridges, At
    <3> QED BY <3>1, Stutters
  <2>16. ASSUME NEW d \in Deleters, FinishDelete(d)
        PROVE  LedgerStep
    <3>1. \A t \in Sessions : LoginOwner'[t] = LoginOwner[t]
      BY <2>16 DEF FinishDelete, Set, IdleHandler
    <3> QED BY <3>1, Stutters
  <2>17. ASSUME NEW s \in Sessions, BecomeIdle(s)
        PROVE  LedgerStep
    <3>1. \A t \in Sessions : LoginOwner'[t] = LoginOwner[t]
      BY <2>17 DEF BecomeIdle
    <3> QED BY <3>1, Stutters
  <2>18. ASSUME NEW s \in Sessions, CredsAge(s)
        PROVE  LedgerStep
    <3>1. \A t \in Sessions : LoginOwner'[t] = LoginOwner[t]
      BY <2>18 DEF CredsAge
    <3> QED BY <3>1, Stutters
  <2>19. ASSUME NEW s \in Sessions, IdleTimeout(s)
        PROVE  LedgerStep
    <3>1. \A t \in Sessions : LoginOwner'[t] = LoginOwner[t]
      BY <2>19 DEF IdleTimeout
    <3> QED BY <3>1, Stutters
  <2>20. CASE Reap
    <3>1. \A t \in Sessions : LoginOwner'[t] = LoginOwner[t]
      BY <2>20 DEF Reap, Set
    <3> QED BY <3>1, Stutters
  <2>21. CASE CleanupStaleBMCCreds
    <3> DEFINE S == {t \in aged : status[t] \in Ended}
    <3>0. S \in SUBSET Sessions
      OBVIOUS
    <3>1. \A t \in S : LoginOwner[t] = "map" /\ LoginOwner'[t] = "closer"
      BY <2>21 DEF CleanupStaleBMCCreds
    <3>2. \A t \in Sessions \ S : LoginOwner'[t] = LoginOwner[t]
      BY <2>21 DEF CleanupStaleBMCCreds
    <3> QED BY <3>0, <3>1, <3>2, Takes
  <2>22. ASSUME NEW s \in Sessions, LogoutStale(s)
        PROVE  LedgerStep
    <3>1. LoginOwner[s] = "closer" /\ LoginOwner'[s] \in {"over", "lost"}
      BY <2>22 DEF LogoutStale, EndLogin
    <3>2. \A t \in Sessions \ {s} : LoginOwner'[t] = LoginOwner[t]
      BY <2>22 DEF LogoutStale, EndLogin
    <3> QED BY <3>1, <3>2, Passes
  <2>23. CASE Shutdown
    <3>1. \A t \in Sessions : LoginOwner'[t] = LoginOwner[t]
      BY <2>23 DEF Shutdown
    <3> QED BY <3>1, Stutters
  <2>24. ASSUME NEW s \in Sessions, DrainSession(s)
        PROVE  LedgerStep
    <3>1. \A t \in Sessions : LoginOwner'[t] = LoginOwner[t]
      BY <2>24 DEF DrainSession, Set
    <3> QED BY <3>1, Stutters
  <2>25. ASSUME NEW s \in Sessions, StartPanics(s)
        PROVE  LedgerStep
    BY <2>25, RestartLoses DEF StartPanics
  <2>26. CASE Restart
    BY <2>26, RestartLoses
  <2>27. CASE UNCHANGED vars
    <3>1. \A t \in Sessions : LoginOwner'[t] = LoginOwner[t]
      BY <2>27 DEF vars
    <3> QED BY <3>1, Stutters
  <2> QED BY <2>1, <2>2, <2>3, <2>4, <2>5, <2>6, <2>7, <2>8, <2>9, <2>10, <2>11,
           <2>12, <2>13, <2>14, <2>15, <2>16, <2>17, <2>18, <2>19, <2>20, <2>21,
           <2>22, <2>23, <2>24, <2>25, <2>26, <2>27
        DEF Next, StartStep, DeleteStep
<1> QED BY <1>1, <1>2, TypeCorrect, UncreatedInvariant, LoginHasOneOwner, PTL
        DEF Spec, ImplementsLoginLedger, Ledger!Spec, LedgerStep
=============================================================================
