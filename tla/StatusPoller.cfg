SPECIFICATION Spec
CONSTANTS
    Servers = {s1, s2}
    Blind = {s2}
    Threshold = 2
    ResetTimeout = 5
    Deadline = 3
    Interval <- MCInterval
    Period = 2
    Latency = 1
INVARIANTS TypeOK BreakerCountsFailures RecoveryIsReported OutageIsReported
