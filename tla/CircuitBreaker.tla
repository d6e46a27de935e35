---------------------------- MODULE CircuitBreaker ----------------------------
(***************************************************************************)
(* One LLM provider's circuit breaker and the calls that share it          *)
(* (llm/resilience.py).  The provider object is cached, so the breaker is  *)
(* shared by every request of the process that resolves to the same key.   *)
(*                                                                         *)
(* asyncio switches tasks only at an await: a step is what a call does     *)
(* between two of them.  A call awaits the provider ("waiting"), its       *)
(* backoff ("asleep") and, for a stream, the consumer of its events        *)
(* ("streaming").  The clock is kept as the time left before an open       *)
(* breaker lets a probe through.                                           *)
(***************************************************************************)
EXTENDS Naturals, FiniteSets

CONSTANTS Calls,            \* calls that may be in flight together
          MaxAttempts,      \* RetryPolicy.max_attempts
          Threshold,        \* failure_threshold
          Recovery,         \* recovery_seconds, in ticks
          Outcomes          \* how the provider may answer

AllOutcomes == {"success", "throttled", "unavailable", "rejected", "cancelled"}

ASSUME BreakerAssumption ==
    /\ MaxAttempts \in Nat \ {0}
    /\ Threshold \in Nat \ {0}
    /\ Recovery \in Nat \ {0}
    /\ Outcomes \subseteq AllOutcomes

VARIABLES failures,   \* _consecutive_failures, saturated at the threshold
          opened,     \* _opened_at is not None
          cooldown,   \* recovery_seconds minus the time since _opened_at
          probing,    \* _probe_in_flight
          call        \* the calls

breaker == <<failures, opened, cooldown, probing>>
vars == <<failures, opened, cooldown, probing, call>>

Kinds == {"complete", "stream"}
Idle == [pc |-> "idle"]
Call == {Idle} \cup
        [pc : {"waiting", "asleep", "streaming"}, kind : Kinds,
         attempt : 0 .. MaxAttempts - 1, probe : BOOLEAN]

Become(c, r) == call' = [call EXCEPT ![c] = r]
-----------------------------------------------------------------------------
(* CircuitBreaker                                                           *)

\* Mutants: the probe's flag, or the cooldown, is not looked at.
Refuses_NoFlag == opened /\ cooldown > 0
Refuses_NoCooldown == opened /\ probing

Refuses == opened /\ (cooldown > 0 \/ probing)

RecordSuccess ==
    /\ failures' = 0
    /\ opened' = FALSE
    /\ cooldown' = 0
    /\ probing' = FALSE

Plus1(n) == IF n < Threshold THEN n + 1 ELSE n

\* Mutant: a failed probe does not give the flag back.
RecordFailure_KeepsFlag ==
    /\ failures' = Plus1(failures)
    /\ IF failures' >= Threshold
         THEN opened' = TRUE /\ cooldown' = Recovery
         ELSE UNCHANGED <<opened, cooldown>>
    /\ UNCHANGED probing

\* Mutant: the breaker trips one failure early.
RecordFailure_Early ==
    /\ probing' = FALSE
    /\ failures' = Plus1(failures)
    /\ IF failures' + 1 >= Threshold
         THEN opened' = TRUE /\ cooldown' = Recovery
         ELSE UNCHANGED <<opened, cooldown>>

RecordFailure ==
    /\ probing' = FALSE
    /\ failures' = Plus1(failures)
    /\ IF failures' >= Threshold
         THEN opened' = TRUE /\ cooldown' = Recovery
         ELSE UNCHANGED <<opened, cooldown>>
-----------------------------------------------------------------------------
(* call_with_retries and ResilientChatProvider.stream                       *)

\* breaker.check(), then the request to the provider.
Try(c, kind, attempt) ==
    IF Refuses
      THEN Become(c, Idle) /\ UNCHANGED breaker
      ELSE /\ Become(c, [pc |-> "waiting", kind |-> kind,
                         attempt |-> attempt, probe |-> opened])
           /\ probing' = (probing \/ opened)
           /\ UNCHANGED <<failures, opened, cooldown>>

Start(c) ==
    /\ call[c] = Idle
    /\ \E kind \in Kinds : Try(c, kind, 0)

LastAttempt(c) == call[c].attempt = MaxAttempts - 1

\* complete() sleeps after its last attempt too, before it raises; a stream
\* raises at once.
Backoff(c) ==
    IF call[c].kind = "stream" /\ LastAttempt(c)
      THEN Become(c, Idle)
      ELSE Become(c, [call[c] EXCEPT !.pc = "asleep"])

Answer(c, outcome) ==
    /\ call[c].pc = "waiting"
    /\ outcome \in Outcomes

Success(c) ==
    /\ Answer(c, "success")
    /\ RecordSuccess
    /\ \/ call[c].kind = "complete" /\ Become(c, Idle)
       \/ /\ call[c].kind = "stream"        \* no event at all, or the first
          /\ Become(c, Idle) \/ Become(c, [call[c] EXCEPT !.pc = "streaming"])

\* 429: backpressure, not fed to the breaker.
Throttled(c) ==
    /\ Answer(c, "throttled")
    /\ Backoff(c)
    /\ UNCHANGED breaker

\* 5xx, overload, network failure or timeout: ProviderUnavailable.
Unavailable(c) ==
    /\ Answer(c, "unavailable")
    /\ RecordFailure
    /\ Backoff(c)

\* ProviderBadRequest or ContextTooLong: fed to the breaker, not retried.
Rejected(c) ==
    /\ Answer(c, "rejected")
    /\ RecordFailure
    /\ Become(c, Idle)

\* The task is cancelled at its await, or the adapter raises something that
\* is not an LLMError: neither the "except" nor the "else" clause runs.
Cancelled(c) ==
    /\ call[c].pc \in {"waiting", "asleep"}
    /\ "cancelled" \in Outcomes
    /\ Become(c, Idle)
    /\ UNCHANGED breaker

\* Mutant: the attempt is not counted.
NextAttempt_Same(c) == call[c].attempt

NextAttempt(c) == call[c].attempt + 1

Wake(c) ==
    /\ call[c].pc = "asleep"
    /\ IF LastAttempt(c)
         THEN Become(c, Idle) /\ UNCHANGED breaker
         ELSE Try(c, call[c].kind, NextAttempt(c))

\* The stream ends, fails half-way or loses its consumer: the breaker is not
\* told.
StreamOver(c) ==
    /\ call[c].pc = "streaming"
    /\ Become(c, Idle)
    /\ UNCHANGED breaker

Tick ==
    /\ cooldown > 0
    /\ cooldown' = cooldown - 1
    /\ UNCHANGED <<failures, opened, probing, call>>

Init ==
    /\ failures = 0
    /\ opened = FALSE
    /\ cooldown = 0
    /\ probing = FALSE
    /\ call = [c \in Calls |-> Idle]

Progress(c) ==
    \/ Success(c) \/ Throttled(c) \/ Unavailable(c) \/ Rejected(c)
    \/ Cancelled(c) \/ Wake(c) \/ StreamOver(c)

Next == Tick \/ \E c \in Calls : Start(c) \/ Progress(c)

Spec == Init /\ [][Next]_vars

\* A request to a provider is answered or times out (every adapter sets a
\* timeout), a sleeping task wakes up, and time passes.
Fairness == WF_vars(Tick) /\ \A c \in Calls : WF_vars(Progress(c))

FairSpec == Spec /\ Fairness
-----------------------------------------------------------------------------
(* Properties.                                                              *)

TypeOK ==
    /\ failures \in 0 .. Threshold
    /\ opened \in BOOLEAN
    /\ cooldown \in 0 .. Recovery
    /\ probing \in BOOLEAN
    /\ call \in [Calls -> Call]

\* The breaker is open only after failure_threshold consecutive failures, and
\* a success anywhere, however late, leaves it closed with a clean count.
OpenMeansTripped ==
    /\ opened <=> failures = Threshold
    /\ ~opened => cooldown = 0 /\ ~probing

\* After recovery_seconds an open breaker that has nothing in flight lets a
\* call through (the docstring's "open -> half-open").
RecoveryAdmits ==
    opened /\ cooldown = 0 /\ (\A c \in Calls : call[c] = Idle) => ~probing

\* "Half-open: let exactly one probe through": no two probes wait for the
\* provider at the same time.
OneProbe ==
    \A c, d \in Calls :
       /\ call[c].pc = "waiting" /\ call[c].probe
       /\ call[d].pc = "waiting" /\ call[d].probe
       => c = d

\* While the breaker waits for the answer to its probe it admits nobody else:
\* the flag stays up until some call reports, and no request is sent meanwhile.
ProbeIsAlone ==
    [][probing /\ probing' =>
          \A c \in Calls : call'[c].pc = "waiting" => call[c].pc = "waiting"]_vars

\* Whatever the provider answers, every call ends: with a result, the last
\* error or CircuitOpen.
EveryCallReturns ==
    \A c \in Calls : (call[c] # Idle) ~> (call[c] = Idle)

\* An open breaker leaves the cooldown: no stream of late failures of the
\* same few calls keeps it in the fail-fast window forever.
CooldownEnds == (cooldown > 0) ~> (cooldown = 0)

\* The breaker is in one of its states, and open in those of an outage only.
BreakerOK == TypeOK /\ OpenMeansTripped
=============================================================================
