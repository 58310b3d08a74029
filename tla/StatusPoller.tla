---------------------------- MODULE StatusPoller ----------------------------
(***************************************************************************)
(* The status poller (internal/api/status.go) and its circuit breakers     *)
(* (internal/circuitbreaker/breaker.go).  StartStatusPoller polls every    *)
(* server, and then at each tick of its ticker the servers that are due.   *)
(* A round (PollStatuses) polls its servers in parallel and ends with the  *)
(* last of them.                                                           *)
(*                                                                         *)
(* Time is counted in units.  time.Time values are kept as clocks that run *)
(* from the event they record and stop at the value they are compared      *)
(* with; goroutines that are not waiting for a BMC take no time.  A fetch  *)
(* that its poll has given up ends by itself and its result is dropped     *)
(* with the channel, so it is not kept.                                    *)
(***************************************************************************)
EXTENDS Naturals, FiniteSets, FiniteSetsExt

CONSTANTS
    Servers,
    Blind,          \* NanoKVMs: with credentials their handler reports them online
                    \* whether or not they answer
    Threshold,      \* failures that open a breaker (3 in getBreaker)
    ResetTimeout,   \* time it stays open (60 s)
    Deadline,       \* longest a poll waits for a fetch (30 s)
    Interval,       \* PollIntervalSeconds of each server
    Period,         \* of the ticker (10 s)
    Latency         \* longest a server that answers takes to do so

ASSUME PollerAssumption ==
    /\ Blind \subseteq Servers
    /\ Threshold \in Nat \ {0} /\ ResetTimeout \in Nat \ {0}
    /\ Period \in Nat \ {0} /\ Interval \in [Servers -> Nat] /\ Latency \in Nat
    /\ Deadline \in Nat /\ Latency < Deadline

VARIABLES
    mode,           \* what each server does: "up", "down" (refuses), "hung"
    steady,         \* how long it has been up, or not up
    breaker,        \* Breaker.state
    failures,       \* Breaker.failures, counted up to Threshold
    sinceFailure,   \* clock of Breaker.lastFailure
    cache,          \* StatusCache: "none", "online", "offline", "skipped"
    round,          \* the servers PollStatuses is polling
    poll,           \* where each one's goroutine is: "idle", "begin", or fetching from
                    \* a server that will answer, refuse or hang: "up", "down", "hung"
    waited,         \* how long the round has been waiting for its fetches
    initial,        \* the initial round is not over
    sincePoll,      \* clock of lastPolled
    untilTick,      \* clock of the ticker
    pendingTick     \* a tick is in ticker.C, which holds one

serverVars == <<mode, steady>>
breakerVars == <<breaker, failures, sinceFailure>>
roundVars == <<round, waited>>
scheduleVars == <<initial, sincePoll, untilTick, pendingTick>>
vars == <<serverVars, breakerVars, cache, roundVars, poll, scheduleVars>>

\* Longest time between the beginnings of two polls of a server: a round that waits
\* for a hung server, the interval, and the wait for a tick or for a round of others
\* that began just before.
PollGap(s) == Deadline + Interval[s] + Max({Period, Deadline})

\* From a server's return until it must be shown online: a fetch that began before may
\* still fail and open the breaker.
RecoveryBound(s) == Deadline + ResetTimeout + PollGap(s) + Latency

\* From an outage until it must be shown.
OutageBound(s) == PollGap(s) + Deadline

SteadyCap(s) == Max({RecoveryBound(s), OutageBound(s)}) + 1

TypeOK ==
    /\ mode \in [Servers -> {"up", "down", "hung"}]
    /\ steady \in [Servers -> Nat] /\ sincePoll \in [Servers -> Nat]
    /\ \A s \in Servers : steady[s] <= SteadyCap(s) /\ sincePoll[s] <= Interval[s]
    /\ breaker \in [Servers -> {"closed", "open", "half-open"}]
    /\ failures \in [Servers -> 0..Threshold]
    /\ sinceFailure \in [Servers -> 0..ResetTimeout]
    /\ cache \in [Servers -> {"none", "online", "offline", "skipped"}]
    /\ round \subseteq Servers
    /\ poll \in [Servers -> {"idle", "begin", "up", "down", "hung"}]
    /\ waited \in 0..Deadline
    /\ initial \in BOOLEAN /\ pendingTick \in BOOLEAN
    /\ untilTick \in 1..Period

-----------------------------------------------------------------------------
\* The initial round has begun.
Init ==
    /\ mode \in [Servers -> {"up", "down", "hung"}]
    /\ steady = [s \in Servers |-> 0]
    /\ breaker = [s \in Servers |-> "closed"]
    /\ failures = [s \in Servers |-> 0]
    /\ sinceFailure = [s \in Servers |-> 0]
    /\ cache = [s \in Servers |-> "none"]
    /\ round = Servers
    /\ poll = [s \in Servers |-> "begin"]
    /\ waited = 0
    /\ initial = TRUE /\ pendingTick = FALSE
    /\ sincePoll = [s \in Servers |-> 0]
    /\ untilTick = Period

UpTo(n, limit) == IF n < limit THEN n + 1 ELSE n

Publish(s, status) == cache' = [cache EXCEPT ![s] = status]
PollAt(s, point) == poll' = [poll EXCEPT ![s] = point]

\* Breaker.State: an open breaker half-opens when its time is over.
State(s) ==
    IF breaker[s] = "open" /\ sinceFailure[s] >= ResetTimeout THEN "half-open" ELSE breaker[s]

\* Breaker.Allow.
Allow(s) == State(s) \in {"closed", "half-open"}

\* Faulty variant: the count of failures goes on after a success.
KeepFailures(s) ==
    /\ breaker' = [breaker EXCEPT ![s] = "closed"]
    /\ UNCHANGED <<failures, sinceFailure>>

RecordSuccess(s) ==
    /\ failures' = [failures EXCEPT ![s] = 0]
    /\ breaker' = [breaker EXCEPT ![s] = "closed"]
    /\ UNCHANGED sinceFailure

RecordFailure(s) ==
    /\ failures' = [failures EXCEPT ![s] = UpTo(@, Threshold)]
    /\ sinceFailure' = [sinceFailure EXCEPT ![s] = 0]
    /\ breaker' = [breaker EXCEPT ![s] = IF failures[s] + 1 >= Threshold THEN "open" ELSE @]

\* Faulty variant: a poll that the breaker skips counts as a failure.
SkipCounting(s) ==
    /\ poll[s] = "begin"
    /\ ~Allow(s)
    /\ RecordFailure(s)
    /\ Publish(s, "skipped")
    /\ PollAt(s, "idle")
    /\ UNCHANGED <<serverVars, roundVars, scheduleVars>>

\* "Skip polling if circuit is open".
Skip(s) ==
    /\ poll[s] = "begin"
    /\ ~Allow(s)
    /\ Publish(s, "skipped")
    /\ PollAt(s, "idle")
    /\ UNCHANGED <<serverVars, breakerVars, roundVars, scheduleVars>>

\* The fetch goroutine starts; the server's mode decides how its request will go.
Fetch(s) ==
    /\ poll[s] = "begin"
    /\ Allow(s)
    /\ breaker' = [breaker EXCEPT ![s] = State(s)]
    /\ PollAt(s, mode[s])
    /\ UNCHANGED <<serverVars, failures, sinceFailure, cache, roundVars, scheduleVars>>

\* Faulty variant: the breaker's state is published in place of the server's.
FinishWithBreaker(s, online) ==
    /\ IF online THEN RecordSuccess(s) ELSE RecordFailure(s)
    /\ Publish(s, breaker'[s])
    /\ PollAt(s, "idle")
    /\ UNCHANGED <<serverVars, roundVars, scheduleVars>>

\* The poll has its status: update the breaker, publish.
Finish(s, online) ==
    /\ IF online THEN RecordSuccess(s) ELSE RecordFailure(s)
    /\ Publish(s, IF online THEN "online" ELSE "offline")
    /\ PollAt(s, "idle")
    /\ UNCHANGED <<serverVars, roundVars, scheduleVars>>

\* Faulty variant: every handler starts from "online" and ignores failed requests.
AnswerOptimistically(s) ==
    \/ poll[s] = "up" /\ Finish(s, TRUE)
    \/ poll[s] \in {"down", "hung"} /\ Finish(s, TRUE)

\* fetchDeviceStatus returns: a server that answers is online; one that does not may
\* take any time to fail.
Answer(s) ==
    \/ poll[s] = "up" /\ Finish(s, TRUE)
    \/ poll[s] \in {"down", "hung"} /\ Finish(s, FALSE)
    \/ poll[s] \in {"down", "hung"} /\ s \in Blind /\ Finish(s, TRUE)

\* "status poll timed out".
Timeout(s) ==
    /\ poll[s] = "hung"
    /\ waited = Deadline
    /\ Finish(s, FALSE)

\* wg.Wait returns and lastPolled is set; after the initial round the ticker starts.
EndRound ==
    /\ round # {}
    /\ \A s \in round : poll[s] = "idle"
    /\ round' = {}
    /\ waited' = 0
    /\ sincePoll' = [s \in Servers |-> IF s \in round THEN 0 ELSE sincePoll[s]]
    /\ initial' = FALSE
    /\ UNCHANGED <<serverVars, breakerVars, cache, poll, untilTick, pendingTick>>

\* A tick is received: the servers that are due are polled, if any.
StartRound ==
    LET due == {s \in Servers : sincePoll[s] >= Interval[s]} IN
    /\ round = {} /\ pendingTick
    /\ pendingTick' = FALSE
    /\ round' = due
    /\ poll' = [s \in Servers |-> IF s \in due THEN "begin" ELSE "idle"]
    /\ UNCHANGED <<serverVars, breakerVars, cache, waited, initial, sincePoll, untilTick>>

(***************************************************************************)
(* The servers, and time.                                                  *)
(***************************************************************************)
\* A server starts or stops answering.
Change(s, m) ==
    /\ mode[s] # m
    /\ mode' = [mode EXCEPT ![s] = m]
    /\ steady' = IF "up" \in {mode[s], m} THEN [steady EXCEPT ![s] = 0] ELSE steady
    /\ UNCHANGED <<breakerVars, cache, roundVars, poll, scheduleVars>>

\* Nothing that would happen at once is left to do.
Settled ==
    /\ \A s \in Servers :
          /\ poll[s] # "begin"
          /\ poll[s] \in {"up", "down"} => waited < Latency
          /\ poll[s] = "hung" => waited < Deadline
    /\ round # {} => \E s \in round : poll[s] # "idle"
    /\ ~(round = {} /\ pendingTick)

\* A unit of time goes by.
Pass ==
    /\ Settled
    /\ steady' = [s \in Servers |-> UpTo(steady[s], SteadyCap(s))]
    /\ sinceFailure' = [s \in Servers |-> UpTo(sinceFailure[s], ResetTimeout)]
    /\ sincePoll' = [s \in Servers |-> UpTo(sincePoll[s], Interval[s])]
    /\ waited' = IF round = {} THEN 0 ELSE waited + 1
    /\ untilTick' = IF initial THEN untilTick ELSE IF untilTick = 1 THEN Period ELSE untilTick - 1
    /\ pendingTick' = (pendingTick \/ (~initial /\ untilTick = 1))
    /\ UNCHANGED <<mode, breaker, failures, cache, round, poll, initial>>

-----------------------------------------------------------------------------
Next ==
    \/ \E s \in Servers :
          \/ Skip(s) \/ Fetch(s) \/ Answer(s) \/ Timeout(s)
          \/ \E m \in {"up", "down", "hung"} : Change(s, m)
    \/ EndRound \/ StartRound
    \/ Pass

Spec == Init /\ [][Next]_vars

-----------------------------------------------------------------------------
\* The breaker is closed exactly while fewer than Threshold failures in a row have been
\* recorded, half-open trials included; a server shown online has no failure against it,
\* and one shown as skipped has enough of them.
BreakerCountsFailures ==
    \A s \in Servers :
        /\ breaker[s] = "closed" <=> failures[s] < Threshold
        /\ cache[s] = "online" => failures[s] = 0
        /\ cache[s] = "skipped" => failures[s] >= Threshold

\* A server that has answered for long enough is shown online, whatever its breaker
\* went through before and however many other servers hang.
RecoveryIsReported ==
    \A s \in Servers :
        mode[s] = "up" /\ steady[s] > RecoveryBound(s) => cache[s] = "online"

\* A server that has not answered for long enough is not shown online, unless its
\* handler never reports that.
OutageIsReported ==
    \A s \in Servers \ Blind :
        mode[s] # "up" /\ steady[s] > OutageBound(s) => cache[s] # "online"
=============================================================================
