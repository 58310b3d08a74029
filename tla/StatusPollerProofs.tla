------------------------- MODULE StatusPollerProofs -------------------------
(***************************************************************************)
(* Proofs about the status poller for any set of servers and any periods.  *)
(***************************************************************************)
EXTENDS StatusPoller, TLAPS

\* The larger of two numbers is one of them.
LEMMA MaxOfTwo ==
    ASSUME NEW a \in Nat, NEW b \in Nat
    PROVE  Max({a, b}) \in {a, b}
<1>1. \E x \in {a, b} : \A y \in {a, b} : x >= y
  <2>1. CASE a >= b BY <2>1
  <2>2. CASE b >= a BY <2>2
  <2> QED BY <2>1, <2>2
<1> QED BY <1>1 DEF Max

\* The bound on the history clock is a number.
LEMMA SteadyCapType == \A s \in Servers : SteadyCap(s) \in Nat
<1> SUFFICES ASSUME NEW s \in Servers PROVE SteadyCap(s) \in Nat
  OBVIOUS
<1>1. Max({Period, Deadline}) \in Nat
  BY PollerAssumption, MaxOfTwo
<1>2. RecoveryBound(s) \in Nat /\ OutageBound(s) \in Nat
  BY <1>1, PollerAssumption DEF RecoveryBound, OutageBound, PollGap
<1>3. Max({RecoveryBound(s), OutageBound(s)}) \in Nat
  BY <1>2, MaxOfTwo
<1> QED BY <1>3 DEF SteadyCap

\* A clock that is advanced stays within its limit.
LEMMA UpToType ==
    ASSUME NEW limit \in Nat, NEW n \in 0..limit
    PROVE  UpTo(n, limit) \in 0..limit
  BY DEF UpTo

\* The poller's state keeps its types (TypeOK); in particular no round waits beyond its
\* deadline, because time cannot pass while a poll has used it up.
THEOREM TypeCorrect == Spec => []TypeOK
<1> USE PollerAssumption, SteadyCapType
<1>1. Init => TypeOK
  <2> SUFFICES ASSUME Init PROVE TypeOK
    OBVIOUS
  <2>1. initial \in BOOLEAN /\ pendingTick \in BOOLEAN
    BY Zenon DEF Init
  <2> QED BY <2>1 DEF Init, TypeOK
<1>2. TypeOK /\ [Next]_vars => TypeOK'
  <2> SUFFICES ASSUME TypeOK, [Next]_vars
               PROVE  TypeOK'
    OBVIOUS
  <2> USE DEF TypeOK, serverVars, breakerVars, roundVars, scheduleVars
  <2>1. ASSUME NEW s \in Servers, Skip(s)
        PROVE  TypeOK'
    BY <2>1 DEF Skip, Publish, PollAt
  <2>2. ASSUME NEW s \in Servers, Fetch(s)
        PROVE  TypeOK'
    BY <2>2 DEF Fetch, State, PollAt
  <2>3. ASSUME NEW s \in Servers, NEW online \in BOOLEAN, Finish(s, online)
        PROVE  TypeOK'
    <3>1. UpTo(failures[s], Threshold) \in 0..Threshold
      BY UpToType
    <3>2. CASE online
      BY <2>3, <3>2 DEF Finish, RecordSuccess, Publish, PollAt
    <3>3. CASE ~online
      BY <2>3, <3>1, <3>3 DEF Finish, RecordFailure, Publish, PollAt
    <3> QED BY <3>2, <3>3
  <2>4. ASSUME NEW s \in Servers, Answer(s) \/ Timeout(s)
        PROVE  TypeOK'
    BY <2>3, <2>4 DEF Answer, Timeout
  <2>5. CASE EndRound
    <3>1. initial' \in BOOLEAN
      BY <2>5, Zenon DEF EndRound
    <3> QED BY <2>5, <3>1 DEF EndRound
  <2>6. CASE StartRound
    <3>1. pendingTick' \in BOOLEAN
      BY <2>6, Zenon DEF StartRound
    <3> QED BY <2>6, <3>1 DEF StartRound
  <2>7. ASSUME NEW s \in Servers, NEW m \in {"up", "down", "hung"}, Change(s, m)
        PROVE  TypeOK'
    BY <2>7 DEF Change
  <2>8. CASE Pass
    <3>1. \A s \in Servers :
             /\ UpTo(steady[s], SteadyCap(s)) \in 0..SteadyCap(s)
             /\ UpTo(sinceFailure[s], ResetTimeout) \in 0..ResetTimeout
             /\ UpTo(sincePoll[s], Interval[s]) \in 0..Interval[s]
      BY UpToType
    <3>2. waited' \in 0..Deadline
      BY <2>8 DEF Pass, Settled
    <3>3. untilTick' \in 1..Period
      BY <2>8 DEF Pass
    <3>4. pendingTick' \in BOOLEAN
      BY <2>8, Zenon DEF Pass
    <3> QED BY <2>8, <3>1, <3>2, <3>3, <3>4 DEF Pass
  <2>9. CASE UNCHANGED vars
    BY <2>9 DEF vars
  <2> QED BY <2>1, <2>2, <2>4, <2>5, <2>6, <2>7, <2>8, <2>9 DEF Next
<1> QED BY <1>1, <1>2, PTL DEF Spec

\* In every reachable state each breaker agrees with the failures counted since the last
\* success, and with what is published (BreakerCountsFailures).
THEOREM BreakersAgree == Spec => []BreakerCountsFailures
<1> USE PollerAssumption
<1>1. Init => BreakerCountsFailures
  BY DEF Init, BreakerCountsFailures
<1>2. TypeOK /\ BreakerCountsFailures /\ [Next]_vars => BreakerCountsFailures'
  <2> SUFFICES ASSUME TypeOK, BreakerCountsFailures, [Next]_vars
               PROVE  BreakerCountsFailures'
    OBVIOUS
  <2> USE DEF TypeOK, BreakerCountsFailures, serverVars, breakerVars, roundVars, scheduleVars
  <2>1. ASSUME NEW s \in Servers, Skip(s)
        PROVE  BreakerCountsFailures'
    BY <2>1 DEF Skip, Allow, State, Publish, PollAt
  <2>2. ASSUME NEW s \in Servers, Fetch(s)
        PROVE  BreakerCountsFailures'
    BY <2>2 DEF Fetch, State, PollAt
  <2>3. ASSUME NEW s \in Servers, NEW online \in BOOLEAN, Finish(s, online)
        PROVE  BreakerCountsFailures'
    <3>1. CASE online
      BY <2>3, <3>1 DEF Finish, RecordSuccess, Publish, PollAt
    <3>2. CASE ~online
      BY <2>3, <3>2 DEF Finish, RecordFailure, Publish, PollAt, UpTo
    <3> QED BY <3>1, <3>2
  <2>4. ASSUME NEW s \in Servers, Answer(s) \/ Timeout(s)
        PROVE  BreakerCountsFailures'
    BY <2>3, <2>4 DEF Answer, Timeout
  <2>5. CASE EndRound \/ StartRound \/ Pass
    BY <2>5 DEF EndRound, StartRound, Pass
  <2>6. ASSUME NEW s \in Servers, NEW m \in {"up", "down", "hung"}, Change(s, m)
        PROVE  BreakerCountsFailures'
    BY <2>6 DEF Change
  <2>7. CASE UNCHANGED vars
    BY <2>7 DEF vars
  <2> QED BY <2>1, <2>2, <2>4, <2>5, <2>6, <2>7 DEF Next
<1> QED BY <1>1, <1>2, TypeCorrect, PTL DEF Spec

-----------------------------------------------------------------------------
\* How rounds, polls and the ticker go together: the initial round is of all servers,
\* polls are of the round, they begin when it does, and no tick arrives during a round
\* without being kept.
RoundInv ==
    /\ initial => round = Servers
    /\ round = {} => waited = 0
    /\ \A s \in Servers : poll[s] # "idle" => s \in round
    /\ \A s \in Servers : poll[s] = "begin" => waited = 0
    /\ round # {} /\ ~initial /\ ~pendingTick => waited + untilTick <= Period

\* RoundInv is preserved by polls, rounds and the passing of time.
LEMMA RoundStep == TypeOK /\ RoundInv /\ [Next]_vars => RoundInv'
<1> SUFFICES ASSUME TypeOK, RoundInv, [Next]_vars PROVE RoundInv'
  OBVIOUS
<1> USE PollerAssumption
    DEF TypeOK, RoundInv, serverVars, breakerVars, roundVars, scheduleVars
<1>1. ASSUME NEW s \in Servers, Skip(s) \/ Fetch(s) PROVE RoundInv'
  BY <1>1 DEF Skip, Fetch, PollAt
<1>2. ASSUME NEW s \in Servers, Answer(s) \/ Timeout(s) PROVE RoundInv'
  BY <1>2 DEF Answer, Timeout, Finish, PollAt
<1>3. ASSUME NEW s \in Servers, NEW m \in {"up", "down", "hung"}, Change(s, m) PROVE RoundInv'
  BY <1>3 DEF Change
<1>4. CASE EndRound
  BY <1>4 DEF EndRound
<1>5. CASE StartRound
  BY <1>5 DEF StartRound
<1>6. CASE Pass
  <2>1. /\ UNCHANGED <<round, poll, initial>>
        /\ waited' = IF round = {} THEN 0 ELSE waited + 1
        /\ \A s \in Servers : poll[s] # "begin"
    BY <1>6 DEF Pass, Settled
  <2>2. ASSUME ~initial, ~pendingTick'
        PROVE  ~pendingTick /\ untilTick # 1
    BY <1>6, <2>2, Zenon DEF Pass
  <2>3. ASSUME ~initial, ~pendingTick' PROVE untilTick' = untilTick - 1
    BY <1>6, <2>2, <2>3 DEF Pass
  <2>4. round' # {} /\ ~initial' /\ ~pendingTick' => waited' + untilTick' <= Period
    BY <2>1, <2>2, <2>3
  <2> QED BY <2>1, <2>4
<1>7. CASE UNCHANGED vars
  BY <1>7 DEF vars
<1> QED BY <1>1, <1>2, <1>3, <1>4, <1>5, <1>6, <1>7 DEF Next

-----------------------------------------------------------------------------
\* The time a server has been up, or not up, while its next poll is awaited, counted
\* from k: until the round that polled it ends, until it is due, and from then on
\* until a tick is received, behind a round of others if there is one.
Between(s, k) ==
    \/ sincePoll[s] < Interval[s] /\ steady[s] <= k + Deadline + sincePoll[s]
    \/ /\ sincePoll[s] = Interval[s] /\ round # {}
       /\ steady[s] <= k + Deadline + Interval[s] + waited
    \/ /\ sincePoll[s] = Interval[s] /\ round = {} /\ ~pendingTick
       /\ steady[s] + untilTick <= k + Deadline + Interval[s] + Period
    \/ sincePoll[s] = Interval[s] /\ round = {} /\ pendingTick /\ steady[s] <= k + PollGap(s)

NextPoll(s, k) ==
    /\ poll[s] = "begin" => steady[s] <= k + PollGap(s)
    /\ poll[s] = "idle" /\ s \in round => steady[s] <= k + waited
    /\ poll[s] = "idle" /\ s \notin round => Between(s, k)

\* PollGap covers a tick and a round of others.
LEMMA PollGapBounds ==
    \A s \in Servers :
        /\ PollGap(s) \in Nat
        /\ Deadline + Interval[s] + Period <= PollGap(s)
        /\ Deadline + Interval[s] + Deadline <= PollGap(s)
<1>1. ASSUME NEW a \in Nat, NEW b \in Nat
      PROVE  Max({a, b}) \in Nat /\ a <= Max({a, b}) /\ b <= Max({a, b})
  <2>1. \E x \in {a, b} : \A y \in {a, b} : x >= y
    <3>1. CASE a >= b BY <3>1
    <3>2. CASE b >= a BY <3>2
    <3> QED BY <3>1, <3>2
  <2> QED BY <2>1 DEF Max
<1> QED BY <1>1, PollerAssumption DEF PollGap

\* A server that has just changed has had no time to wait.
LEMMA NextPollInitially ==
    ASSUME TypeOK, NEW s \in Servers, NEW k \in Nat, steady[s] = 0
    PROVE  NextPoll(s, k)
  BY PollGapBounds, PollerAssumption DEF TypeOK, NextPoll, Between

\* The wait is as long as NextPoll says, whatever the ticker and the other servers do.
LEMMA NextPollStep ==
    ASSUME TypeOK, RoundInv, NEW s \in Servers, NEW k \in Nat, NextPoll(s, k),
           EndRound \/ StartRound \/ Pass
    PROVE  NextPoll(s, k)'
<1> USE PollerAssumption, PollGapBounds DEF TypeOK, RoundInv
<1>1. CASE EndRound
  <2>1. /\ round # {} /\ round' = {} /\ waited' = 0
        /\ UNCHANGED <<steady, poll, untilTick, pendingTick>>
        /\ sincePoll'[s] = IF s \in round THEN 0 ELSE sincePoll[s]
        /\ \A v \in round : poll[v] = "idle"
    BY <1>1 DEF EndRound, serverVars
  <2>2. poll'[s] = "idle"
    BY <2>1
  <2>3. CASE s \in round
    <3>1. steady[s] <= k + waited /\ waited <= Deadline
      BY <2>1, <2>3 DEF NextPoll
    <3> QED BY <2>1, <2>2, <2>3, <3>1 DEF NextPoll, Between
  <2>4. CASE s \notin round
    <3>1. ~initial
      BY <2>4
    <3>2. Between(s, k)
      BY <2>1, <2>4 DEF NextPoll
    <3>3. Between(s, k)'
      BY <2>1, <2>4, <3>1, <3>2 DEF Between
    <3> QED BY <2>1, <2>2, <3>3 DEF NextPoll
  <2> QED BY <2>3, <2>4
<1>2. CASE StartRound
  <2>1. /\ round = {} /\ pendingTick /\ ~pendingTick' /\ waited = 0
        /\ UNCHANGED <<steady, waited, untilTick, sincePoll>>
        /\ s \in round' <=> sincePoll[s] >= Interval[s]
        /\ poll'[s] = IF sincePoll[s] >= Interval[s] THEN "begin" ELSE "idle"
    BY <1>2 DEF StartRound, serverVars
  <2>2. Between(s, k)
    BY <2>1 DEF NextPoll
  <2>3. CASE sincePoll[s] >= Interval[s]
    BY <2>1, <2>2, <2>3 DEF NextPoll, Between
  <2>4. CASE sincePoll[s] < Interval[s]
    BY <2>1, <2>2, <2>4 DEF NextPoll, Between
  <2> QED BY <2>3, <2>4
<1>3. CASE Pass
  <2>1. /\ UNCHANGED <<round, poll>> /\ poll[s] # "begin"
        /\ waited' = IF round = {} THEN 0 ELSE waited + 1
        /\ steady'[s] <= steady[s] + 1 /\ steady'[s] \in Nat
        /\ sincePoll'[s] = IF sincePoll[s] < Interval[s] THEN sincePoll[s] + 1 ELSE sincePoll[s]
        /\ round = {} => ~pendingTick
    BY <1>3, SteadyCapType DEF Pass, Settled, UpTo
  <2>2. CASE poll[s] = "idle" /\ s \notin round
    <3>1. ~initial /\ Between(s, k)
      BY <2>2 DEF NextPoll
    <3>2. untilTick' = IF untilTick = 1 THEN Period ELSE untilTick - 1
      BY <1>3, <3>1 DEF Pass
    <3>3. CASE round # {}
      BY <2>1, <2>2, <3>1, <3>3 DEF NextPoll, Between
    <3>4. CASE round = {} /\ untilTick = 1
      <4>1. pendingTick'
        BY <1>3, <3>1, <3>4, Zenon DEF Pass
      <4> QED BY <2>1, <2>2, <3>1, <3>4, <4>1 DEF NextPoll, Between
    <3>5. CASE round = {} /\ untilTick # 1
      <4>1. ~pendingTick
        BY <2>1, <3>5
      <4>2. ~pendingTick'
        BY <1>3, <3>5, <4>1, Zenon DEF Pass
      <4> QED BY <2>1, <2>2, <3>1, <3>2, <3>5, <4>1, <4>2 DEF NextPoll, Between
    <3> QED BY <3>3, <3>4, <3>5
  <2>3. CASE poll[s] # "idle" \/ s \in round
    BY <2>1, <2>3 DEF NextPoll
  <2> QED BY <2>2, <2>3
<1> QED BY <1>1, <1>2, <1>3

\* A step of a poll, or a change of a server, leaves the other servers alone.
Alone(s) ==
    /\ UNCHANGED <<round, waited, initial, sincePoll, untilTick, pendingTick>>
    /\ mode'[s] = mode[s] /\ steady'[s] = steady[s] /\ cache'[s] = cache[s]
    /\ poll'[s] = poll[s] /\ breaker'[s] = breaker[s] /\ sinceFailure'[s] = sinceFailure[s]

\* What the steps of one server's poll leave of the schedule.
Scheduled(s) ==
    /\ UNCHANGED <<round, waited, initial, sincePoll, untilTick, pendingTick>>
    /\ UNCHANGED <<mode, steady>>
    /\ \A v \in Servers \ {s} : Alone(v)

\* Polls touch nothing but their server's status, breaker and goroutine.
LEMMA PollSteps ==
    ASSUME TypeOK, NEW s \in Servers, Skip(s) \/ Fetch(s) \/ Answer(s) \/ Timeout(s)
    PROVE  Scheduled(s)
<1> USE DEF TypeOK, Scheduled, Alone, serverVars, breakerVars, roundVars, scheduleVars
<1>1. ASSUME NEW online \in BOOLEAN, Finish(s, online) PROVE Scheduled(s)
  <2>1. CASE online
    BY <1>1, <2>1 DEF Finish, RecordSuccess, Publish, PollAt
  <2>2. CASE ~online
    BY <1>1, <2>2 DEF Finish, RecordFailure, Publish, PollAt
  <2> QED BY <2>1, <2>2
<1>2. ASSUME Skip(s) PROVE Scheduled(s)
  BY <1>2 DEF Skip, Publish, PollAt
<1>3. ASSUME Fetch(s) PROVE Scheduled(s)
  BY <1>3 DEF Fetch, PollAt
<1>4. ASSUME Answer(s) \/ Timeout(s) PROVE Scheduled(s)
  <2>1. Finish(s, TRUE) \/ Finish(s, FALSE)
    BY <1>4 DEF Answer, Timeout
  <2> QED BY <1>1, <2>1
<1> QED BY <1>2, <1>3, <1>4

\* Why outages are reported: a server that is shown online although it does not answer
\* is waiting for its next poll, or that poll is under way; and a fetch that began
\* while it still answered has not waited for longer than it has been away.
OutageOf(s) ==
    mode[s] # "up" =>
        /\ poll[s] = "up" => steady[s] <= waited
        /\ cache[s] = "online" =>
              NextPoll(s, 0) /\ (poll[s] \in {"down", "hung"} => steady[s] <= PollGap(s) + waited)
OutageInv == \A s \in Servers \ Blind : OutageOf(s)

\* OutageInv is preserved by polls, rounds, changes and the passing of time.
LEMMA OutageStep == TypeOK /\ RoundInv /\ OutageInv /\ [Next]_vars => OutageInv'
<1> SUFFICES ASSUME TypeOK, RoundInv, OutageInv, [Next]_vars, NEW s \in Servers \ Blind
             PROVE  OutageOf(s)'
  BY DEF OutageInv
<1>1. OutageOf(s)
  BY DEF OutageInv
<1> USE PollerAssumption, PollGapBounds DEF TypeOK
<1>2. ASSUME Alone(s) PROVE OutageOf(s)'
  BY <1>1, <1>2 DEF Alone, OutageOf, NextPoll, Between
<1>3. ASSUME Scheduled(s), poll[s] = "begin", poll'[s] = mode[s], cache'[s] = cache[s]
      PROVE  OutageOf(s)'
  BY <1>1, <1>3 DEF Scheduled, OutageOf, NextPoll
<1>4. ASSUME Scheduled(s), cache'[s] # "online", poll'[s] = "idle" PROVE OutageOf(s)'
  BY <1>4 DEF OutageOf
<1>5. ASSUME Scheduled(s), poll[s] = "up", poll'[s] = "idle" PROVE OutageOf(s)'
  <2>1. s \in round
    BY <1>5 DEF RoundInv
  <2> QED BY <1>1, <1>5, <2>1 DEF Scheduled, OutageOf, NextPoll
<1>6. ASSUME NEW v \in Servers, Skip(v) \/ Fetch(v) \/ Answer(v) \/ Timeout(v)
      PROVE  OutageOf(s)'
  <2>1. Scheduled(v)
    BY <1>6, PollSteps
  <2>2. CASE v # s
    BY <1>2, <2>1, <2>2 DEF Scheduled
  <2>3. CASE v = s
    <3>1. CASE Skip(s)
      BY <1>4, <2>1, <2>3, <3>1 DEF Skip, Publish, PollAt
    <3>2. CASE Fetch(s)
      BY <1>3, <2>1, <2>3, <3>2 DEF Fetch, PollAt
    <3>3. CASE poll[s] = "up" /\ Finish(s, TRUE)
      BY <1>5, <2>1, <2>3, <3>3 DEF Finish, PollAt
    <3>4. CASE Finish(s, FALSE)
      BY <1>4, <2>1, <2>3, <3>4 DEF Finish, Publish, PollAt
    <3> QED BY <1>6, <2>3, <3>1, <3>2, <3>3, <3>4 DEF Answer, Timeout
  <2> QED BY <2>2, <2>3
<1>7. ASSUME NEW v \in Servers, NEW m \in {"up", "down", "hung"}, Change(v, m)
      PROVE  OutageOf(s)'
  <2>1. /\ UNCHANGED <<round, waited, initial, sincePoll, untilTick, pendingTick, cache, poll>>
        /\ UNCHANGED <<breaker, sinceFailure>>
        /\ \A u \in Servers \ {v} : mode'[u] = mode[u] /\ steady'[u] = steady[u]
        /\ mode'[v] = m
        /\ steady'[v] = IF "up" \in {mode[v], m} THEN 0 ELSE steady[v]
    BY <1>7 DEF Change, breakerVars, roundVars, scheduleVars
  <2>2. CASE v # s
    BY <1>2, <2>1, <2>2 DEF Alone
  <2>3. CASE v = s /\ "up" \notin {mode[v], m}
    BY <1>1, <2>1, <2>3 DEF OutageOf, NextPoll, Between
  <2>4. CASE v = s /\ mode[v] = "up"
    BY <2>1, <2>4 DEF OutageOf, NextPoll, Between
  <2>5. CASE v = s /\ m = "up"
    BY <2>1, <2>5 DEF OutageOf
  <2> QED BY <2>2, <2>3, <2>4, <2>5
<1>8. ASSUME EndRound \/ StartRound \/ Pass PROVE OutageOf(s)'
  <2> SUFFICES ASSUME mode'[s] # "up" PROVE OutageOf(s)'
    BY DEF OutageOf
  <2>1. mode'[s] = mode[s] /\ cache'[s] = cache[s] /\ 0 \in Nat
    BY <1>8 DEF EndRound, StartRound, Pass, serverVars
  <2>2. cache[s] = "online" => NextPoll(s, 0)'
    BY <1>1, <1>8, <2>1, NextPollStep DEF OutageOf
  <2>3. CASE EndRound
    <3>1. poll'[s] = "idle"
      BY <2>3 DEF EndRound, RoundInv
    <3> QED BY <2>1, <2>2, <3>1 DEF OutageOf
  <2>4. CASE StartRound
    <3>1. poll'[s] \in {"begin", "idle"}
      BY <2>4 DEF StartRound
    <3> QED BY <2>1, <2>2, <3>1 DEF OutageOf
  <2>5. CASE Pass
    <3>1. /\ poll'[s] = poll[s] /\ steady'[s] <= steady[s] + 1 /\ steady'[s] \in Nat
          /\ poll[s] # "idle" => waited' = waited + 1
      BY <2>5, SteadyCapType DEF Pass, UpTo, RoundInv
    <3> QED BY <1>1, <2>1, <2>2, <3>1 DEF OutageOf
  <2> QED BY <1>8, <2>3, <2>4, <2>5
<1>9. CASE UNCHANGED vars
  BY <1>2, <1>9 DEF vars, Alone, serverVars, breakerVars, roundVars, scheduleVars
<1> QED BY <1>6, <1>7, <1>8, <1>9 DEF Next

\* In every reachable state rounds and polls go together.
LEMMA RoundInvariant == Spec => []RoundInv
<1>1. Init => RoundInv
  <2> SUFFICES ASSUME Init PROVE RoundInv
    OBVIOUS
  <2>1. initial
    BY Zenon DEF Init
  <2> QED BY <2>1 DEF Init, RoundInv
<1> QED BY <1>1, TypeCorrect, RoundStep, PTL DEF Spec

\* A server that stops answering is not shown online for longer than OutageBound, for
\* any number of servers and any periods.
THEOREM OutagesAreReported == Spec => []OutageIsReported
<1>1. Init => OutageInv
  BY PollerAssumption DEF Init, OutageInv, OutageOf
<1>2. TypeOK /\ RoundInv /\ OutageInv => OutageIsReported
  <2> SUFFICES ASSUME TypeOK, RoundInv, OutageInv, NEW s \in Servers \ Blind,
                      mode[s] # "up", cache[s] = "online"
               PROVE  steady[s] <= OutageBound(s)
    BY PollerAssumption, PollGapBounds, SteadyCapType DEF OutageIsReported, OutageBound, TypeOK
  <2>1. OutageOf(s)
    BY DEF OutageInv
  <2> QED
    BY <2>1, PollerAssumption, PollGapBounds
       DEF OutageOf, NextPoll, Between, OutageBound, TypeOK
<1> QED BY <1>1, <1>2, TypeCorrect, RoundInvariant, OutageStep, PTL DEF Spec

-----------------------------------------------------------------------------
\* From a server's return until its breaker lets a poll through.
Reopening == Deadline + ResetTimeout

\* Why recoveries are reported: a fetch that began while the server was away has
\* waited for longer than it is back; so a breaker that it opens, opens soon after the
\* return, and the first poll that the breaker lets through then finds the server.
RecoveryOf(s) ==
    mode[s] = "up" =>
        /\ poll[s] \in {"down", "hung"} => steady[s] <= waited
        /\ breaker[s] = "open" /\ sinceFailure[s] < ResetTimeout
              => steady[s] <= Deadline + sinceFailure[s]
        /\ cache[s] # "online" =>
              /\ NextPoll(s, Reopening)
              /\ poll[s] = "up" => steady[s] <= Reopening + PollGap(s) + waited
RecoveryInv == \A s \in Servers : RecoveryOf(s)

\* Servers that answer do so within Latency.
LatencyInv == \A s \in Servers : poll[s] = "up" => waited <= Latency

\* LatencyInv is preserved: time does not pass while such an answer is due.
LEMMA LatencyStep == TypeOK /\ RoundInv /\ LatencyInv /\ [Next]_vars => LatencyInv'
<1> SUFFICES ASSUME TypeOK, RoundInv, LatencyInv, [Next]_vars PROVE LatencyInv'
  OBVIOUS
<1> USE PollerAssumption
    DEF TypeOK, LatencyInv, serverVars, breakerVars, roundVars, scheduleVars
<1>1. ASSUME NEW s \in Servers, Skip(s) \/ Fetch(s) PROVE LatencyInv'
  BY <1>1 DEF Skip, Fetch, PollAt, RoundInv
<1>2. ASSUME NEW s \in Servers, Answer(s) \/ Timeout(s) PROVE LatencyInv'
  BY <1>2 DEF Answer, Timeout, Finish, PollAt
<1>3. ASSUME NEW s \in Servers, NEW m \in {"up", "down", "hung"}, Change(s, m)
      PROVE  LatencyInv'
  BY <1>3 DEF Change
<1>4. CASE EndRound
  BY <1>4 DEF EndRound, RoundInv
<1>5. CASE StartRound
  BY <1>5 DEF StartRound
<1>6. CASE Pass
  BY <1>6 DEF Pass, Settled
<1>7. CASE UNCHANGED vars
  BY <1>7 DEF vars
<1> QED BY <1>1, <1>2, <1>3, <1>4, <1>5, <1>6, <1>7 DEF Next

\* RecoveryInv is preserved by polls, rounds, changes and the passing of time.
LEMMA RecoveryStep == TypeOK /\ RoundInv /\ RecoveryInv /\ [Next]_vars => RecoveryInv'
<1> SUFFICES ASSUME TypeOK, RoundInv, RecoveryInv, [Next]_vars, NEW s \in Servers
             PROVE  RecoveryOf(s)'
  BY DEF RecoveryInv
<1>1. RecoveryOf(s)
  BY DEF RecoveryInv
<1>2. Reopening \in Nat /\ Reopening' = Reopening
  BY PollerAssumption DEF Reopening
<1> USE PollerAssumption, PollGapBounds DEF TypeOK
<1>3. ASSUME Alone(s) PROVE RecoveryOf(s)'
  BY <1>1, <1>2, <1>3 DEF Alone, RecoveryOf, NextPoll, Between
<1>4. ASSUME Scheduled(s), Skip(s) PROVE RecoveryOf(s)'
  <2>1. /\ breaker[s] = "open" /\ sinceFailure[s] < ResetTimeout
        /\ UNCHANGED <<breaker, sinceFailure>> /\ poll[s] = "begin" /\ poll'[s] = "idle"
    BY <1>4 DEF Skip, Allow, State, PollAt, breakerVars
  <2>2. s \in round
    BY <2>1 DEF RoundInv
  <2> QED BY <1>1, <1>4, <2>1, <2>2 DEF Scheduled, RecoveryOf, NextPoll, Reopening
<1>5. ASSUME Scheduled(s), Fetch(s) PROVE RecoveryOf(s)'
  <2>1. /\ poll[s] = "begin" /\ poll'[s] = mode[s]
        /\ UNCHANGED <<cache, sinceFailure>>
        /\ breaker'[s] = "open" => breaker[s] = "open"
    BY <1>5 DEF Fetch, Allow, State, PollAt
  <2> QED BY <1>1, <1>2, <1>5, <2>1 DEF Scheduled, RecoveryOf, NextPoll
<1>6. ASSUME Scheduled(s), Finish(s, TRUE) PROVE RecoveryOf(s)'
  <2>1. cache'[s] = "online" /\ breaker'[s] = "closed" /\ poll'[s] = "idle"
    BY <1>6 DEF Finish, RecordSuccess, Publish, PollAt
  <2> QED BY <2>1 DEF RecoveryOf
<1>7. ASSUME Scheduled(s), poll[s] \in {"down", "hung"}, Finish(s, FALSE) PROVE RecoveryOf(s)'
  <2>1. sinceFailure'[s] = 0 /\ poll'[s] = "idle"
    BY <1>7 DEF Finish, RecordFailure, PollAt
  <2>2. s \in round
    BY <1>7 DEF RoundInv
  <2> QED BY <1>1, <1>2, <1>7, <2>1, <2>2 DEF Scheduled, RecoveryOf, NextPoll
<1>8. ASSUME NEW v \in Servers, Skip(v) \/ Fetch(v) \/ Answer(v) \/ Timeout(v)
      PROVE  RecoveryOf(s)'
  <2>1. Scheduled(v)
    BY <1>8, PollSteps
  <2>2. CASE v # s
    BY <1>3, <2>1, <2>2 DEF Scheduled
  <2>3. CASE v = s
    BY <1>4, <1>5, <1>6, <1>7, <1>8, <2>1, <2>3 DEF Answer, Timeout
  <2> QED BY <2>2, <2>3
<1>9. ASSUME NEW v \in Servers, NEW m \in {"up", "down", "hung"}, Change(v, m)
      PROVE  RecoveryOf(s)'
  <2>1. /\ UNCHANGED <<round, waited, initial, sincePoll, untilTick, pendingTick, cache, poll>>
        /\ UNCHANGED <<breaker, sinceFailure>> /\ mode[v] # m
        /\ \A u \in Servers \ {v} : mode'[u] = mode[u] /\ steady'[u] = steady[u]
        /\ mode'[v] = m
        /\ steady'[v] = IF "up" \in {mode[v], m} THEN 0 ELSE steady[v]
    BY <1>9 DEF Change, breakerVars, roundVars, scheduleVars
  <2>2. CASE v # s
    BY <1>3, <2>1, <2>2 DEF Alone
  <2>3. CASE v = s /\ m # "up"
    BY <2>1, <2>3 DEF RecoveryOf
  <2>4. CASE v = s /\ m = "up"
    BY <1>2, <2>1, <2>4 DEF RecoveryOf, NextPoll, Between
  <2> QED BY <2>2, <2>3, <2>4
<1>10. ASSUME EndRound \/ StartRound \/ Pass PROVE RecoveryOf(s)'
  <2> SUFFICES ASSUME mode'[s] = "up" PROVE RecoveryOf(s)'
    BY DEF RecoveryOf
  <2>1. mode'[s] = mode[s] /\ cache'[s] = cache[s] /\ breaker'[s] = breaker[s]
    BY <1>10 DEF EndRound, StartRound, Pass, serverVars, breakerVars
  <2>2. cache[s] # "online" => NextPoll(s, Reopening)'
    BY <1>1, <1>2, <1>10, <2>1, NextPollStep DEF RecoveryOf
  <2>3. CASE EndRound \/ StartRound
    <3>1. poll'[s] \in {"begin", "idle"}
      BY <2>3 DEF EndRound, StartRound, RoundInv
    <3>2. steady'[s] = steady[s] /\ sinceFailure'[s] = sinceFailure[s]
      BY <2>3 DEF EndRound, StartRound, serverVars, breakerVars
    <3> QED BY <1>1, <1>2, <2>1, <2>2, <3>1, <3>2 DEF RecoveryOf
  <2>4. CASE Pass
    <3>1. /\ poll'[s] = poll[s] /\ steady'[s] <= steady[s] + 1 /\ steady'[s] \in Nat
          /\ poll[s] # "idle" => waited' = waited + 1
          /\ sinceFailure'[s] < ResetTimeout => sinceFailure'[s] = sinceFailure[s] + 1
      BY <2>4, SteadyCapType DEF Pass, UpTo, RoundInv
    <3> QED BY <1>1, <1>2, <2>1, <2>2, <3>1 DEF RecoveryOf
  <2> QED BY <1>10, <2>3, <2>4
<1>11. CASE UNCHANGED vars
  BY <1>3, <1>11 DEF vars, Alone, serverVars, breakerVars, roundVars, scheduleVars
<1> QED BY <1>8, <1>9, <1>10, <1>11 DEF Next

\* A server that answers again is shown online after RecoveryBound at the latest, for
\* any number of servers, any threshold and any periods.
THEOREM RecoveriesAreReported == Spec => []RecoveryIsReported
<1>1. Init => RecoveryInv
  <2> SUFFICES ASSUME Init, NEW s \in Servers PROVE RecoveryOf(s)
    BY DEF RecoveryInv
  <2>1. Reopening \in Nat
    BY PollerAssumption DEF Reopening
  <2>2. poll[s] = "begin" /\ steady[s] = 0 /\ breaker[s] = "closed"
    BY DEF Init
  <2> QED BY <2>1, <2>2, PollGapBounds DEF RecoveryOf, NextPoll
<1>2. Init => LatencyInv
  BY DEF Init, LatencyInv
<1>3. TypeOK /\ LatencyInv /\ RecoveryInv => RecoveryIsReported
  <2> SUFFICES ASSUME TypeOK, LatencyInv, RecoveryInv, NEW s \in Servers,
                      mode[s] = "up", cache[s] # "online"
               PROVE  steady[s] <= RecoveryBound(s)
    BY PollerAssumption, PollGapBounds, SteadyCapType
       DEF RecoveryIsReported, RecoveryBound, TypeOK
  <2>1. RecoveryOf(s)
    BY DEF RecoveryInv
  <2> QED
    BY <2>1, PollerAssumption, PollGapBounds
       DEF RecoveryOf, NextPoll, Between, RecoveryBound, Reopening, LatencyInv, TypeOK
<1> QED
  BY <1>1, <1>2, <1>3, TypeCorrect, RoundInvariant, LatencyStep, RecoveryStep, PTL DEF Spec
=============================================================================
