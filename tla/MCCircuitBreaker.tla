--------------------------- MODULE MCCircuitBreaker ---------------------------
(***************************************************************************)
(* Small instances of CircuitBreaker for TLC.  In the regime "reported"    *)
(* every call that ends tells the breaker so; otherwise all outcomes       *)
(* happen, and fewer calls are made.                                       *)
(***************************************************************************)
EXTENDS CircuitBreaker

CONSTANT Pair           \* the calls that are made in the other regime

ASSUME PairAssumption == Pair \subseteq Calls

VARIABLE reported       \* the regime, fixed at the start

ReportedProgress(c) ==
    Success(c) \/ Unavailable(c) \/ Rejected(c) \/ Wake(c) \/ StreamOver(c)

RegimeInit == Init /\ reported \in BOOLEAN

RegimeNext ==
    /\ UNCHANGED reported
    /\ \/ Tick
       \/ reported /\ \E c \in Calls : Start(c) \/ ReportedProgress(c)
       \/ ~reported /\ \E c \in Pair : Start(c) \/ Progress(c)

RegimeSpec == RegimeInit /\ [][RegimeNext]_<<vars, reported>> /\ Fairness

\* If every outcome is one the breaker is told of, then after recovery_seconds it
\* lets a call through (the docstring's "open -> half-open"); without that
\* premise it may not.
ReportedRecovery == reported => RecoveryAdmits
=============================================================================
