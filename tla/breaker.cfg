\* Three calls whose outcomes the breaker is told of, or two with any outcome.
CONSTANTS
    c1 = c1
    c2 = c2
    c3 = c3
    Calls = {c1, c2, c3}
    Pair = {c1, c2}
    MaxAttempts = 3
    Threshold = 2
    Recovery = 2
    Outcomes = {"success", "throttled", "unavailable", "rejected", "cancelled"}
SPECIFICATION RegimeSpec
INVARIANT BreakerOK
INVARIANT ReportedRecovery
PROPERTY ProbeIsAlone
PROPERTY EveryCallReturns
PROPERTY CooldownEnds
