\* One document under three regimes of faults.
CONSTANTS
    MaxTries = 3
    Regimes <- Faulty
SPECIFICATION FairSpec
INVARIANT IndexOK
PROPERTIES
    NeverEmptied
    SettlesForGood
    KeepsLifecycle
CHECK_DEADLOCK FALSE
