CONSTANTS
    c1 = c1
    c2 = c2
    Calls = {c1, c2}
    Pair = {c1, c2}
    MaxAttempts = 3
    Threshold = 2
    Recovery = 2
    Outcomes = {"success", "throttled", "unavailable"}
SPECIFICATION RegimeSpec
INVARIANT RecoveryAdmits
