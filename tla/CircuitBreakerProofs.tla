------------------------- MODULE CircuitBreakerProofs -------------------------
(***************************************************************************)
(* Theorems about CircuitBreaker, for every number of calls, attempts,     *)
(* failures and seconds.                                                   *)
(***************************************************************************)
EXTENDS MCCircuitBreaker, TLAPS

USE BreakerAssumption

Inv == TypeOK /\ OpenMeansTripped

LEMMA FirstAttempt == 0 \in 0 .. MaxAttempts - 1
  OBVIOUS

\* What a call can become next.
LEMMA CallShape ==
    ASSUME NEW r \in Call, r # Idle
    PROVE  /\ r.kind \in Kinds
           /\ r.attempt \in 0 .. MaxAttempts - 1
           /\ r.probe \in BOOLEAN
           /\ [r EXCEPT !.pc = "asleep"] \in Call
           /\ [r EXCEPT !.pc = "streaming"] \in Call
  BY DEF Call

LEMMA NotIdle ==
    ASSUME NEW r, r.pc \in {"waiting", "asleep", "streaming"}
    PROVE  r # Idle
<1>1. Idle.pc = "idle"
  BY DEF Idle
<1>2. QED
  BY <1>1

LEMMA IdleCall == Idle \in Call
  BY DEF Call

LEMMA BecomeCall ==
    ASSUME TypeOK, NEW c \in Calls, NEW r \in Call, Become(c, r)
    PROVE  call' \in [Calls -> Call]
  BY DEF TypeOK, Become

\* The breaker part of the invariant survives each thing that is recorded.
BreakerInv ==
    /\ failures \in 0 .. Threshold
    /\ opened \in BOOLEAN
    /\ cooldown \in 0 .. Recovery
    /\ probing \in BOOLEAN
    /\ OpenMeansTripped

LEMMA SplitInv == Inv <=> BreakerInv /\ call \in [Calls -> Call]
  BY DEF Inv, TypeOK, BreakerInv

LEMMA SplitInvNext == Inv' <=> BreakerInv' /\ call' \in [Calls -> Call]
  BY DEF Inv, TypeOK, BreakerInv, OpenMeansTripped

LEMMA Bounds ==
    /\ 0 \in 0 .. Threshold /\ 0 # Threshold
    /\ 0 \in 0 .. Recovery /\ Recovery \in 0 .. Recovery
    /\ \A n \in 0 .. Threshold :
          /\ Plus1(n) \in 0 .. Threshold
          /\ Plus1(n) >= Threshold <=> Plus1(n) = Threshold
          /\ n = Threshold => Plus1(n) = Threshold
  BY DEF Plus1

LEMMA SuccessBreaker == BreakerInv /\ RecordSuccess => BreakerInv'
<1> SUFFICES ASSUME BreakerInv, RecordSuccess
             PROVE  BreakerInv'
  OBVIOUS
<1>1. OpenMeansTripped'
  BY Bounds DEF RecordSuccess, OpenMeansTripped
<1>2. QED
  BY <1>1, Bounds DEF BreakerInv, RecordSuccess

LEMMA FailureBreaker == BreakerInv /\ RecordFailure => BreakerInv'
<1> SUFFICES ASSUME BreakerInv, RecordFailure
             PROVE  BreakerInv'
  OBVIOUS
<1>1. /\ failures' \in 0 .. Threshold
      /\ probing' = FALSE
      /\ failures = Threshold => failures' = Threshold
      /\ failures' >= Threshold <=> failures' = Threshold
  BY Bounds DEF BreakerInv, RecordFailure
<1>2. CASE failures' = Threshold
  BY <1>1, <1>2, Bounds DEF BreakerInv, RecordFailure, OpenMeansTripped
<1>3. CASE failures' # Threshold
  BY <1>1, <1>3, Bounds DEF BreakerInv, RecordFailure, OpenMeansTripped
<1>4. QED
  BY <1>2, <1>3

LEMMA QuietBreaker == BreakerInv /\ UNCHANGED breaker => BreakerInv'
  BY DEF BreakerInv, breaker, OpenMeansTripped

LEMMA TryInv ==
    ASSUME Inv, NEW c \in Calls, NEW kind \in Kinds,
           NEW n \in 0 .. MaxAttempts - 1, Try(c, kind, n)
    PROVE  Inv'
<1>1. CASE Refuses
  <2>1. Become(c, Idle) /\ UNCHANGED breaker
    BY <1>1 DEF Try
  <2>2. QED
    BY <2>1, IdleCall, BecomeCall, QuietBreaker, SplitInv, SplitInvNext DEF Inv
<1>2. CASE ~Refuses
  <2> DEFINE r == [pc |-> "waiting", kind |-> kind,
                   attempt |-> n, probe |-> opened]
  <2>1. /\ Become(c, r)
        /\ probing' = (probing \/ opened)
        /\ UNCHANGED <<failures, opened, cooldown>>
    BY <1>2 DEF Try
  <2>2. r \in Call
    BY DEF Call, Inv, TypeOK
  <2>3. call' \in [Calls -> Call]
    BY <2>1, <2>2, BecomeCall DEF Inv
  <2>4. BreakerInv'
    BY <2>1 DEF BreakerInv, Inv, TypeOK, OpenMeansTripped
  <2>5. QED
    BY <2>3, <2>4, SplitInvNext
<1>3. QED
  BY <1>1, <1>2

LEMMA BackoffCall ==
    ASSUME Inv, NEW c \in Calls, call[c] # Idle, Backoff(c)
    PROVE  call' \in [Calls -> Call]
<1>1. PICK r \in Call : Become(c, r)
  BY CallShape, IdleCall DEF Backoff, Inv, TypeOK
<1>2. QED
  BY <1>1, BecomeCall DEF Inv

\* One step of the system keeps the invariant.
LEMMA NextInv == Inv /\ [Next]_vars => Inv'
<1> SUFFICES ASSUME Inv, [Next]_vars
             PROVE  Inv'
  OBVIOUS
<1>1. CASE Tick
  BY <1>1 DEF Tick, Inv, TypeOK, OpenMeansTripped
<1>2. ASSUME NEW c \in Calls, Start(c)
      PROVE  Inv'
  BY <1>2, FirstAttempt, TryInv DEF Start
<1>3. ASSUME NEW c \in Calls, Success(c)
      PROVE  Inv'
  <2>1. call[c] # Idle /\ RecordSuccess
    BY <1>3, NotIdle DEF Success, Answer
  <2>2. PICK r \in Call : Become(c, r)
    BY <1>3, <2>1, CallShape, IdleCall DEF Success, Inv, TypeOK
  <2>3. QED
    BY <2>1, <2>2, BecomeCall, SuccessBreaker, SplitInv, SplitInvNext DEF Inv
<1>4. ASSUME NEW c \in Calls, Throttled(c)
      PROVE  Inv'
  <2>1. call[c] # Idle
    BY <1>4, NotIdle DEF Throttled, Answer
  <2>2. QED
    BY <1>4, <2>1, BackoffCall, QuietBreaker, SplitInv, SplitInvNext
       DEF Throttled
<1>5. ASSUME NEW c \in Calls, Unavailable(c)
      PROVE  Inv'
  <2>1. call[c] # Idle
    BY <1>5, NotIdle DEF Unavailable, Answer
  <2>2. QED
    BY <1>5, <2>1, BackoffCall, FailureBreaker, SplitInv, SplitInvNext
       DEF Unavailable
<1>6. ASSUME NEW c \in Calls, Rejected(c)
      PROVE  Inv'
  BY <1>6, IdleCall, BecomeCall, FailureBreaker, SplitInv, SplitInvNext
     DEF Rejected, Inv
<1>7. ASSUME NEW c \in Calls, Cancelled(c) \/ StreamOver(c)
      PROVE  Inv'
  BY <1>7, IdleCall, BecomeCall, QuietBreaker, SplitInv, SplitInvNext
     DEF Cancelled, StreamOver, Inv
<1>8. ASSUME NEW c \in Calls, Wake(c)
      PROVE  Inv'
  <2>1. CASE LastAttempt(c)
    BY <1>8, <2>1, IdleCall, BecomeCall, QuietBreaker, SplitInv, SplitInvNext
       DEF Wake, Inv
  <2>2. CASE ~LastAttempt(c)
    <3>1. call[c] \in Call /\ call[c] # Idle
      BY <1>8, NotIdle DEF Wake, Inv, TypeOK
    <3>2. NextAttempt(c) \in 0 .. MaxAttempts - 1
      <4>1. call[c].attempt \in 0 .. MaxAttempts - 1
        BY <3>1, CallShape
      <4>2. QED
        BY <2>2, <4>1 DEF NextAttempt, LastAttempt
    <3>3. QED
      BY <1>8, <2>2, <3>1, <3>2, CallShape, TryInv DEF Wake
  <2>3. QED
    BY <2>1, <2>2
<1>9. CASE UNCHANGED vars
  BY <1>9 DEF vars, Inv, TypeOK, OpenMeansTripped
<1>10. QED
  BY <1>1, <1>2, <1>3, <1>4, <1>5, <1>6, <1>7, <1>8, <1>9 DEF Next, Progress

\* The breaker is open exactly when the last failure_threshold reports were
\* failures, for any interleaving of the calls that share it.
THEOREM BreakerCorrect == Spec => [](TypeOK /\ OpenMeansTripped)
<1>1. Init => Inv
  BY IdleCall, Bounds DEF Init, Inv, TypeOK, OpenMeansTripped
<1>2. QED
  BY <1>1, NextInv, PTL DEF Spec, Inv

\* The count, the flags and the calls keep their types.
THEOREM BreakerTypes == Spec => []TypeOK
<1>1. TypeOK /\ OpenMeansTripped => TypeOK
  OBVIOUS
<1>2. QED
  BY <1>1, BreakerCorrect, PTL

\* While a probe is awaited nobody else is admitted.
THEOREM ProbeAlone == Spec => ProbeIsAlone
<1> DEFINE Quiet == probing /\ probing' =>
               \A c \in Calls : call'[c].pc = "waiting" => call[c].pc = "waiting"
<1>1. Inv /\ [Next]_vars => [Quiet]_vars
  <2> SUFFICES ASSUME Inv, [Next]_vars, probing, probing',
                      NEW d \in Calls, call'[d].pc = "waiting"
               PROVE  call[d].pc = "waiting"
    OBVIOUS
  <2>1. Idle.pc # "waiting"
    BY DEF Idle
  <2>2. opened
    BY DEF Inv, OpenMeansTripped
  <2>3. ASSUME NEW c \in Calls, NEW kind, NEW n, Try(c, kind, n)
        PROVE  call[d].pc = "waiting"
    BY <2>1, <2>2, <2>3 DEF Try, Refuses, Become, Inv, TypeOK
  <2>4. ASSUME NEW c \in Calls, Become(c, Idle)
        PROVE  call[d].pc = "waiting"
    BY <2>1, <2>4 DEF Become, Inv, TypeOK
  <2>5. ASSUME NEW c \in Calls, call[c].pc = "waiting",
               NEW r, Become(c, r)
        PROVE  call[d].pc = "waiting"
    BY <2>5 DEF Become, Inv, TypeOK
  <2>6. ASSUME NEW c \in Calls, Start(c) \/ Progress(c)
        PROVE  call[d].pc = "waiting"
    BY <2>6, <2>3, <2>4, <2>5
       DEF Start, Progress, Success, Throttled, Unavailable, Rejected, Cancelled,
           Wake, StreamOver, Answer, Backoff
  <2>7. CASE UNCHANGED call
    BY <2>7
  <2>8. QED
    BY <2>6, <2>7 DEF Next, Tick, vars
<1>2. QED
  BY <1>1, BreakerCorrect, PTL DEF Spec, Inv, ProbeIsAlone

\* The flag of a probe that is still in flight.
ProbeHeld ==
    probing => \E c \in Calls : call[c].pc = "waiting" /\ call[c].probe

\* A step that is no throttled and no cancelled answer leaves a probe to be
\* awaited, if it leaves the flag.
LEMMA ReportsKeepProbe ==
    ASSUME Inv, ProbeHeld, probing', NEW c \in Calls, Start(c) \/ ReportedProgress(c)
    PROVE  ProbeHeld'
<1> SUFFICES (\E d \in Calls : call[d].pc = "waiting" /\ call[d].probe)'
  BY DEF ProbeHeld
<1>1. ASSUME probing, call[c].pc # "waiting", NEW r, Become(c, r)
      PROVE  (\E d \in Calls : call[d].pc = "waiting" /\ call[d].probe)'
  BY <1>1 DEF ProbeHeld, Become, Inv, TypeOK
<1>2. ASSUME NEW kind, NEW n, Try(c, kind, n), call[c].pc # "waiting"
      PROVE  (\E d \in Calls : call[d].pc = "waiting" /\ call[d].probe)'
  <2>1. CASE probing
    BY <1>1, <1>2, <2>1 DEF Try
  <2>2. CASE ~probing
    <3> DEFINE r == [pc |-> "waiting", kind |-> kind, attempt |-> n, probe |-> opened]
    <3>1. Become(c, r) /\ opened
      BY <1>2, <2>2 DEF Try, breaker
    <3>2. call'[c] = r
      BY <3>1 DEF Become, Inv, TypeOK
    <3>3. QED
      BY <3>1, <3>2
  <2>3. QED
    BY <2>1, <2>2
<1>3. CASE Start(c)
  BY <1>2, <1>3 DEF Start, Idle
<1>4. CASE Success(c) \/ Unavailable(c) \/ Rejected(c)
  BY <1>4 DEF Success, Unavailable, Rejected, RecordSuccess, RecordFailure
<1>5. CASE Wake(c)
  BY <1>1, <1>2, <1>5 DEF Wake, breaker
<1>6. CASE StreamOver(c)
  BY <1>1, <1>6 DEF StreamOver, breaker
<1>7. QED
  BY <1>3, <1>4, <1>5, <1>6 DEF ReportedProgress

LEMMA QuietKeepsProbe ==
    ASSUME ProbeHeld, UNCHANGED <<probing, call>>
    PROVE  ProbeHeld'
  BY DEF ProbeHeld

LEMMA HeldAdmits == ProbeHeld => RecoveryAdmits
  BY NotIdle DEF ProbeHeld, RecoveryAdmits

\* When every answer reaches record_success or record_failure, that is when no
\* call is throttled or cancelled, the flag never outlives the probe and a
\* breaker past its cooldown admits the next call.
THEOREM ReportedProbes ==
    ASSUME Outcomes \subseteq {"success", "unavailable", "rejected"}
    PROVE  Spec => []RecoveryAdmits
<1>1. Init => ProbeHeld
  BY DEF Init, ProbeHeld
<1>2. Inv /\ ProbeHeld /\ [Next]_vars => ProbeHeld'
  <2> SUFFICES ASSUME Inv, ProbeHeld, [Next]_vars, probing'
               PROVE  ProbeHeld'
    BY DEF ProbeHeld
  <2>1. \A c \in Calls : Progress(c) => ReportedProgress(c)
    BY DEF Progress, ReportedProgress, Throttled, Cancelled, Answer
  <2>2. CASE \E c \in Calls : Start(c) \/ Progress(c)
    BY <2>1, <2>2, ReportsKeepProbe
  <2>3. CASE UNCHANGED <<probing, call>>
    BY <2>3, QuietKeepsProbe
  <2>4. QED
    BY <2>2, <2>3 DEF Next, Tick, vars
<1>3. QED
  BY <1>1, <1>2, HeldAdmits, BreakerCorrect, PTL DEF Spec, Inv

\* The two regimes TLC explores are behaviours of the breaker, so that what is
\* proved of those holds in the runs as well.
THEOREM RegimesAreBehaviours == RegimeSpec => Spec
<1>1. RegimeInit => Init
  BY DEF RegimeInit
<1>2. [RegimeNext]_<<vars, reported>> => [Next]_vars
  BY PairAssumption DEF RegimeNext, Next, ReportedProgress, Progress
<1>3. QED
  BY <1>1, <1>2, PTL DEF RegimeSpec, Spec

\* Where every call that ends tells the breaker so, a breaker past its cooldown
\* admits the next call, although the provider might do otherwise (the
\* docstring's "open -> half-open").
THEOREM ReportedRecovers == RegimeSpec => []ReportedRecovery
<1> DEFINE Told == reported => Inv /\ ProbeHeld
<1>1. RegimeInit => Told
  BY IdleCall, Bounds DEF RegimeInit, Init, Inv, TypeOK, OpenMeansTripped, ProbeHeld
<1>2. Told /\ [RegimeNext]_<<vars, reported>> => Told'
  <2> SUFFICES ASSUME Told, [RegimeNext]_<<vars, reported>>, reported
               PROVE  Inv' /\ ProbeHeld'
    BY DEF RegimeNext
  <2>1. [Next]_vars
    BY DEF RegimeNext, Next, ReportedProgress, Progress
  <2>2. ASSUME NEW c \in Calls, Start(c) \/ ReportedProgress(c) PROVE ProbeHeld'
    <3>1. CASE probing'
      BY <2>2, <3>1, ReportsKeepProbe
    <3>2. CASE ~probing'
      BY <3>2 DEF ProbeHeld
    <3>3. QED
      BY <3>1, <3>2
  <2>3. ASSUME UNCHANGED <<probing, call>> PROVE ProbeHeld'
    BY <2>3, QuietKeepsProbe
  <2>4. ProbeHeld'
    BY <2>2, <2>3 DEF RegimeNext, Tick, vars
  <2>5. QED
    BY <2>1, <2>4, NextInv
<1>3. Told => ReportedRecovery
  BY HeldAdmits DEF ReportedRecovery
<1>4. QED
  BY <1>1, <1>2, <1>3, PTL DEF RegimeSpec

\* The breaker is in one of its states, and open exactly in those of an outage
\* (CircuitBreaker).
THEOREM BreakerHolds == Spec => []BreakerOK
<1>1. TypeOK /\ OpenMeansTripped => BreakerOK
  BY DEF BreakerOK
<1>2. QED
  BY <1>1, BreakerCorrect, PTL
=============================================================================
