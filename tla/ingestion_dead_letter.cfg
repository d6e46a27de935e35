\* The organization's stored keys cannot be decrypted any more.
CONSTANTS
    MaxTries = 3
    Regimes <- KeyLost
SPECIFICATION Spec
INVARIANT GivenUpIsMarked
CHECK_DEADLOCK FALSE
