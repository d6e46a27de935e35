\* One subscription, whose events arrive in any order or again.
CONSTANTS
    r1 = r1
    r2 = r2
    Requests = {r1, r2}
    MaxCustomers = 1
    MaxSubs = 1
    MaxEvents = 3
    Regimes <- AnyOrder
SPECIFICATION Spec
INVARIANT QuietMeansCurrent
CHECK_DEADLOCK FALSE
