\* Two checkouts and two webhook requests, in every regime.
CONSTANTS
    r1 = r1
    r2 = r2
    Requests = {r1, r2}
    MaxCustomers = 2
    MaxSubs = 2
    MaxEvents = 3
    Regimes <- EveryRegime
SPECIFICATION FairSpec
INVARIANTS
    RowIsConsistent
    ProWasPaid
PROPERTIES
    PlanOnlyByEvents
    Converges
CHECK_DEADLOCK FALSE
