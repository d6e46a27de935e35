-------------------------- MODULE RateLimiterProofs --------------------------
(***************************************************************************)
(* Theorems about RateLimiter, for any limits, windows and numbers of      *)
(* requests.                                                               *)
(*                                                                         *)
(* WindowIsKept rests on the set of entries: while Redis answers, it holds *)
(* every request admitted in the last window but those that have counted   *)
(* and not yet entered.  BudgetIsKept rests on what the turns in flight    *)
(* may still add to the counter.                                           *)
(***************************************************************************)
EXTENDS RateLimiter, FiniteSetTheorems, TLAPS

\* No request started in the future.
Started == \A c \in Callers : caller[c].at <= clock

\* Who was admitted in this window has an entry.
Entered ==
    redis = "up" => \A c \in In({"added", "running", "over"}) :
        caller[c].at > clock - WINDOW => c \in entries

\* Requests at the same place at the same time.
Concurrency ==
    redis = "up" => /\ Cardinality(In({"counted"})) <= MaxCounting
                    /\ Cardinality(In({"counted", "added", "running"})) <= MaxRunning

\* What is spent, and what the turns in flight may still spend.
Budgeted ==
    redis = "up" =>
        spent + MaxTokens * Cardinality(In({"running"}))
            <= LongerOf(1, limits.tpd) - 1 + MaxTokens * MaxRunning

LimiterInvariant ==
    LimiterTypeOK /\ Started /\ Entered /\ Concurrency /\ Budgeted /\ WindowIsKept
-----------------------------------------------------------------------------
LEMMA Numbers ==
    /\ TICKS \in Nat \ {0} /\ WINDOW \in Nat /\ DAY \in Nat
    /\ MaxTokens \in Nat /\ MaxCounting \in Nat \ {0} /\ MaxRunning \in Nat \ {0}
    /\ Callers \subseteq Nat
  BY RateLimiterAssumption DEF WINDOW, DAY, Callers

LEMMA CallersFinite ==
    ASSUME NEW S \in SUBSET Callers
    PROVE  IsFiniteSet(S) /\ Cardinality(S) \in Nat
<1>1. IsFiniteSet(Callers)
  BY RateLimiterAssumption, FS_Interval DEF Callers
<1> QED
  BY <1>1, FS_Subset, FS_CardinalityType

LEMMA Fewer ==
    ASSUME NEW S \in SUBSET Callers, NEW T \in SUBSET S
    PROVE  Cardinality(T) <= Cardinality(S)
  BY CallersFinite, FS_Subset

LEMMA AtMost ==
    ASSUME NEW S \in SUBSET Callers, NEW T \in SUBSET S, NEW n \in Nat, Cardinality(S) <= n
    PROVE  Cardinality(T) <= n
<1>1. Cardinality(T) <= Cardinality(S)
  BY Fewer
<1>2. Cardinality(T) \in Nat /\ Cardinality(S) \in Nat
  BY CallersFinite
<1> QED
  BY <1>1, <1>2

LEMMA Sums ==
    ASSUME NEW a \in Nat, NEW b \in Nat, NEW m \in Nat, NEW n \in Nat, a <= b, m <= n
    PROVE  a + m <= b + n
  OBVIOUS

LEMMA OneMore ==
    ASSUME NEW S \in SUBSET Callers, NEW c
    PROVE  Cardinality(S \cup {c}) <= Cardinality(S) + 1
<1>1. IsFiniteSet(S) /\ Cardinality(S) \in Nat
  BY CallersFinite
<1>2. Cardinality(S \cup {c}) = IF c \in S THEN Cardinality(S) ELSE Cardinality(S) + 1
  BY <1>1, FS_AddElement
<1> QED
  BY <1>1, <1>2

LEMMA InCallers == ASSUME NEW phases PROVE In(phases) \subseteq Callers
  BY DEF In

LEMMA Times ==
    ASSUME NEW m \in Nat, NEW a \in Nat, NEW b \in Nat
    PROVE  /\ m * a \in Nat
           /\ a <= b => m * a <= m * b
           /\ m * (a + 1) = m * a + m
<1>1. m * a \in Nat /\ m * (a + 1) = m * a + m
  OBVIOUS
<1>2. a <= b => m * a <= m * b
  <2> SUFFICES ASSUME a <= b PROVE m * a <= m * b
    OBVIOUS
  <2>1. b = a + (b - a) /\ b - a \in Nat
    OBVIOUS
  <2>2. m * b = m * a + m * (b - a)
    BY <2>1
  <2>3. m * (b - a) \in Nat
    BY <2>1
  <2> QED
    BY <1>1, <2>2, <2>3
<1> QED
  BY <1>1, <1>2
-----------------------------------------------------------------------------
\* One caller moves on; what it read at its start stays or is read now.
OneMoves(c, phase) ==
    /\ caller' \in [Callers -> Caller]
    /\ \A d \in Callers : d # c => caller'[d] = caller[d]
    /\ caller'[c].pc = phase

SameStart(c) == caller'[c].at = caller[c].at /\ caller'[c].seen = caller[c].seen

LEMMA OnlyPhase ==
    ASSUME LimiterTypeOK, NEW c \in Callers, NEW phase \in Progress, Move(c, phase)
    PROVE  OneMoves(c, phase) /\ SameStart(c)
<1>1. caller[c] \in Caller
  BY DEF LimiterTypeOK
<1>2. caller' = [caller EXCEPT ![c] = [caller[c] EXCEPT !.pc = phase]]
  BY Zenon DEF Move
<1>3. /\ [caller[c] EXCEPT !.pc = phase] \in Caller
      /\ [caller[c] EXCEPT !.pc = phase].pc = phase
      /\ [caller[c] EXCEPT !.pc = phase].at = caller[c].at
      /\ [caller[c] EXCEPT !.pc = phase].seen = caller[c].seen
  BY <1>1 DEF Caller
<1> QED
  BY <1>2, <1>3 DEF OneMoves, SameStart, LimiterTypeOK

LEMMA PhaseAndUntil ==
    ASSUME LimiterTypeOK, NEW c \in Callers, NEW phase \in Progress, NEW n \in Nat,
           caller' = [caller EXCEPT ![c].pc = phase, ![c].until = n]
    PROVE  OneMoves(c, phase) /\ SameStart(c) /\ caller'[c].until = n
<1> DEFINE moved == [caller[c] EXCEPT !.pc = phase, !.until = n]
<1>1. caller[c] \in Caller /\ caller \in [Callers -> Caller]
  BY DEF LimiterTypeOK
<1>2. /\ moved \in Caller /\ moved.pc = phase /\ moved.until = n
      /\ moved.at = caller[c].at /\ moved.seen = caller[c].seen
  BY <1>1 DEF Caller
<1>3. caller' = [caller EXCEPT ![c] = moved]
  BY <1>1, <1>2 DEF Caller
<1> QED
  BY <1>1, <1>2, <1>3 DEF OneMoves, SameStart

LEMMA InAfter ==
    ASSUME NEW c \in Callers, NEW phase, OneMoves(c, phase), NEW phases
    PROVE  In(phases)' = IF phase \in phases THEN In(phases) \cup {c}
                                             ELSE In(phases) \ {c}
  BY DEF In, OneMoves

LEMMA InWithin ==
    ASSUME NEW c \in Callers, NEW phase, OneMoves(c, phase), NEW phases
    PROVE  /\ In(phases)' \subseteq In(phases) \cup {c}
           /\ phase \notin phases => In(phases)' \subseteq In(phases) \ {c}
  BY DEF In, OneMoves

LEMMA InSame ==
    ASSUME NEW c \in Callers, NEW phase, OneMoves(c, phase), NEW phases,
           phase \in phases <=> caller[c].pc \in phases
    PROVE  In(phases)' = In(phases)
  BY DEF In, OneMoves

\* A wait is a number of seconds, at least one.
LEMMA Waits ==
    /\ \A rest \in Int : RetryAfter(rest) * TICKS \in Nat
    /\ \A now \in Nat : SecondsUntilMidnight(now) * TICKS \in Nat
<1>1. TICKS \in Nat \ {0} /\ DAY \in Nat \ {0} /\ DAY_SECONDS \in Nat
  BY RateLimiterAssumption DEF DAY
<1>2. ASSUME NEW rest \in Int PROVE RetryAfter(rest) \in Nat
  <2>1. rest \div TICKS \in Int
    BY <1>1
  <2> QED
    BY <2>1 DEF RetryAfter, LongerOf
<1>3. ASSUME NEW now \in Nat PROVE SecondsUntilMidnight(now) \in Nat
  <2>1. now % DAY \in Int
    BY <1>1
  <2>2. (now % DAY) \div TICKS \in Int
    BY <1>1, <2>1
  <2> QED
    BY <1>1, <2>2 DEF SecondsUntilMidnight, LongerOf
<1>4. ASSUME NEW n \in Nat PROVE n * TICKS \in Nat
  BY <1>1
<1> QED
  BY <1>2, <1>3, <1>4
-----------------------------------------------------------------------------
LEMMA InitialLimits ==
    ASSUME NEW override \in Overrides, NEW plan \in {"free", "pro"}
    PROVE  EffectiveLimits(override, plan) \in [rpm : Nat, tpd : Nat]
<1>1. /\ override.rpm \in Nat \cup {NoLimit} /\ override.tpd \in Nat \cup {NoLimit}
      /\ BaseLimits.rpm \in Nat /\ BaseLimits.tpd \in Nat
      /\ ProLimits.rpm \in Nat /\ ProLimits.tpd \in Nat
  BY RateLimiterAssumption
<1>2. Limit("rpm", override, plan) \in Nat /\ Limit("tpd", override, plan) \in Nat
  BY <1>1 DEF Limit
<1> QED
  BY <1>2 DEF EffectiveLimits

LEMMA Longer == ASSUME NEW n \in Nat PROVE LongerOf(1, n) - 1 \in Nat /\ LongerOf(1, n) >= n
  BY DEF LongerOf

\* The invariant holds before the first request, under any limits.
THEOREM LimiterInitial == LimiterInit => LimiterInvariant
<1> SUFFICES ASSUME LimiterInit PROVE LimiterInvariant
  OBVIOUS
<1>1. LimiterTypeOK
  <2>1. limits \in [rpm : Nat, tpd : Nat]
    BY InitialLimits DEF LimiterInit
  <2>2. caller \in [Callers -> Caller]
    BY DEF LimiterInit, Caller, Progress
  <2> QED
    BY <2>1, <2>2 DEF LimiterInit, LimiterTypeOK
<1>2. \A phases : "new" \notin phases => In(phases) = {}
  BY DEF In, LimiterInit
<1>3. /\ In({"added", "running", "over"}) = {} /\ In({"counted"}) = {}
      /\ In({"counted", "added", "running"}) = {} /\ In({"running"}) = {}
      /\ In({"counted", "added", "running", "over"}) = {}
  BY <1>2
<1>4. Recent = {}
  BY <1>3 DEF Recent
<1>5. Cardinality({}) = 0
  BY FS_EmptySet
<1>6. Started /\ Entered
  BY <1>3 DEF LimiterInit, Started, Entered
<1>7. Concurrency
  BY <1>3, <1>5, Numbers DEF Concurrency
<1>8. Budgeted
  <2>1. LongerOf(1, limits.tpd) - 1 \in Nat
    BY <1>1, Longer DEF LimiterTypeOK
  <2>2. MaxTokens * MaxRunning \in Nat /\ MaxTokens * 0 = 0
    BY Numbers, Times
  <2>3. spent = 0 /\ Cardinality(In({"running"})) = 0
    BY <1>3, <1>5 DEF LimiterInit
  <2> QED
    BY <2>1, <2>2, <2>3 DEF Budgeted
<1>9. WindowIsKept
  BY <1>1, <1>4, <1>5, Numbers DEF WindowIsKept, LimiterTypeOK
<1> QED
  BY <1>1, <1>6, <1>7, <1>8, <1>9 DEF LimiterInvariant
-----------------------------------------------------------------------------
\* What a step of a caller other than CountRequests does not touch.
LEMMA RecentStays ==
    ASSUME LimiterInvariant, NEW c \in Callers, NEW phase, OneMoves(c, phase),
           caller'[c].at = caller[c].at, clock' = clock, limits' = limits, redis' = redis,
           phase \in {"counted", "added", "running", "over"}
               => caller[c].pc \in {"counted", "added", "running", "over"}
    PROVE  WindowIsKept' /\ Started'
<1>1. Recent' \subseteq Recent
  BY Zenon DEF Recent, In, OneMoves
<1>2. Cardinality(Recent') <= Cardinality(Recent)
  BY <1>1, Fewer DEF Recent, In
<1>3. /\ Cardinality(Recent) \in Nat /\ Cardinality(Recent') \in Nat
      /\ limits.rpm \in Nat
  BY <1>1, CallersFinite DEF Recent, In, LimiterInvariant, LimiterTypeOK
<1>4. WindowIsKept'
  BY <1>2, <1>3, Numbers DEF LimiterInvariant, WindowIsKept
<1> QED
  BY <1>4 DEF LimiterInvariant, Started, OneMoves

LEMMA SameConcurrency ==
    ASSUME LimiterInvariant, redis' = redis,
           In({"counted"})' \subseteq In({"counted"}),
           In({"counted", "added", "running"})' \subseteq In({"counted", "added", "running"})
    PROVE  Concurrency'
<1> DEFINE A == In({"counted"})
<1> DEFINE B == In({"counted", "added", "running"})
<1>1. Cardinality(A') <= Cardinality(A) /\ Cardinality(B') <= Cardinality(B)
  BY Fewer, InCallers
<1>2. /\ Cardinality(A') \in Nat /\ Cardinality(A) \in Nat
      /\ Cardinality(B') \in Nat /\ Cardinality(B) \in Nat
  BY CallersFinite, InCallers
<1>3. redis = "up" => Cardinality(A) <= MaxCounting /\ Cardinality(B) <= MaxRunning
  BY DEF LimiterInvariant, Concurrency
<1> HIDE DEF A, B
<1>4. redis' = "up" => Cardinality(A') <= MaxCounting /\ Cardinality(B') <= MaxRunning
  BY <1>1, <1>2, <1>3, Numbers
<1> QED
  BY <1>4 DEF Concurrency, A, B

LEMMA SameBudget ==
    ASSUME LimiterInvariant, In({"running"})' = In({"running"}),
           spent' = spent, limits' = limits, redis' = redis
    PROVE  Budgeted'
  BY DEF LimiterInvariant, Budgeted
-----------------------------------------------------------------------------
\* Who counts room in the window is admitted with fewer entries than the limit.
LEMMA CountKeeps ==
    ASSUME LimiterInvariant, NEW c \in Callers, CountRequests(c)
    PROVE  LimiterInvariant'
<1> DEFINE full == Exhausted(Cardinality(Kept(clock)), limits.rpm)
           phase == IF full THEN "refusing" ELSE "counted"
           next == [pc |-> phase, at |-> clock, until |-> 0,
                    seen |-> IF full THEN Kept(clock) \cup In({"counted"}) ELSE {}]
<1>1. Kept(clock) \subseteq entries /\ Kept(clock) \subseteq Callers
  BY DEF LimiterInvariant, LimiterTypeOK, Kept
<1>2. caller' = [caller EXCEPT ![c] = next] /\ caller[c].pc = "new"
  BY DEF CountRequests
<1>3. next \in Caller
  BY <1>1, InCallers DEF LimiterInvariant, LimiterTypeOK, Caller, Progress
<1>4. OneMoves(c, phase) /\ caller'[c].at = clock
  BY <1>2, <1>3 DEF OneMoves, LimiterInvariant, LimiterTypeOK
<1>5. /\ entries' = Kept(clock) /\ clock' = clock /\ spent' = spent
      /\ limits' = limits /\ redis' = redis
  BY DEF CountRequests
<1>6. LimiterTypeOK'
  BY <1>1, <1>4, <1>5 DEF OneMoves, LimiterInvariant, LimiterTypeOK
<1>7. Started'
  BY <1>4, <1>5 DEF OneMoves, Started, LimiterInvariant, LimiterTypeOK
<1>8. Entered'
  <2>1. In({"added", "running", "over"})' \subseteq In({"added", "running", "over"}) \ {c}
    BY <1>4, InAfter
  <2> SUFFICES ASSUME redis = "up", NEW d \in In({"added", "running", "over"}), d # c,
                      caller[d].at > clock - WINDOW
               PROVE  d \in Kept(clock)
    BY <1>4, <1>5, <2>1, InCallers DEF Entered, OneMoves
  <2>2. d \in entries /\ d \in Callers
    BY InCallers DEF LimiterInvariant, Entered
  <2>3. caller[d].at \in Nat /\ clock \in Nat
    BY <2>2 DEF LimiterInvariant, LimiterTypeOK, Caller
  <2> QED
    BY <2>2, <2>3, Numbers DEF Kept, Stale
<1>9. Concurrency'
  <2> DEFINE A == In({"counted"})
             B == In({"counted", "added", "running"})
  <2>1. A' \subseteq A \cup {c} /\ B' \subseteq B \cup {c}
    BY <1>4, InAfter
  <2>2. A \subseteq Callers /\ B \subseteq Callers
    BY InCallers
  <2>3. /\ Cardinality(A \cup {c}) <= Cardinality(A) + 1
        /\ Cardinality(B \cup {c}) <= Cardinality(B) + 1
    BY <2>2, OneMore
  <2>4. /\ Cardinality(A') <= Cardinality(A \cup {c})
        /\ Cardinality(B') <= Cardinality(B \cup {c})
    BY <2>1, <2>2, Fewer
  <2>5. /\ Cardinality(A) \in Nat /\ Cardinality(A') \in Nat
        /\ Cardinality(B) \in Nat /\ Cardinality(B') \in Nat
        /\ Cardinality(A \cup {c}) \in Nat /\ Cardinality(B \cup {c}) \in Nat
    BY <2>1, <2>2, CallersFinite
  <2>6. Cardinality(A) < MaxCounting /\ Cardinality(B) < MaxRunning
    BY DEF CountRequests
  <2> HIDE DEF A, B
  <2>7. Cardinality(A') <= MaxCounting /\ Cardinality(B') <= MaxRunning
    BY <2>3, <2>4, <2>5, <2>6, Numbers
  <2> QED
    BY <2>7 DEF Concurrency, A, B
<1>10. Budgeted'
  <2>1. In({"running"})' = In({"running"})
    BY <1>2, <1>4, InAfter DEF In
  <2> QED
    BY <1>5, <2>1, SameBudget
<1>11. WindowIsKept'
  <2>1. CASE full
    <3>1. Recent' \subseteq Recent
      BY <1>4, <1>5, <2>1 DEF Recent, In, OneMoves
    <3>2. Cardinality(Recent') <= Cardinality(Recent)
      BY <3>1, Fewer DEF Recent, In
    <3>3. Cardinality(Recent) \in Nat /\ Cardinality(Recent') \in Nat /\ limits.rpm \in Nat
      BY <3>1, CallersFinite DEF Recent, In, LimiterInvariant, LimiterTypeOK
    <3> QED
      BY <1>5, <3>2, <3>3, Numbers DEF LimiterInvariant, WindowIsKept
  <2>2. CASE ~full
    <3> SUFFICES ASSUME redis = "up"
                 PROVE  Cardinality(Recent') <= limits.rpm - 1 + MaxCounting
      BY <1>5 DEF WindowIsKept
    <3> DEFINE A == In({"counted"})
    <3>1. Recent' \subseteq Kept(clock) \cup A'
      <4> SUFFICES ASSUME NEW d \in Recent', d \notin A' PROVE d \in Kept(clock)
        OBVIOUS
      <4>1. d \in Callers /\ d \in In({"added", "running", "over"})' /\ caller'[d].at > clock' - WINDOW
        BY DEF Recent, In
      <4>2. d \in entries'
        BY <1>5, <1>8, <4>1 DEF Entered
      <4> QED
        BY <1>5, <4>2
    <3>2. A' \subseteq Callers
      BY DEF In
    <3>3. Cardinality(A') <= MaxCounting
      BY <1>5, <1>9 DEF Concurrency
    <3>4. Cardinality(Kept(clock)) < limits.rpm
      BY <1>1, <2>2, CallersFinite DEF Exhausted, LimiterInvariant, LimiterTypeOK
    <3>5. Cardinality(Kept(clock) \cup A') <= Cardinality(Kept(clock)) + Cardinality(A')
      <4>1. IsFiniteSet(Kept(clock)) /\ IsFiniteSet(A')
        BY <1>1, <3>2, CallersFinite
      <4>2. Cardinality(Kept(clock) \cup A')
              = Cardinality(Kept(clock)) + Cardinality(A') - Cardinality(Kept(clock) \cap A')
        BY <4>1, FS_Union
      <4>3. /\ Cardinality(Kept(clock) \cap A') \in Nat /\ Cardinality(A') \in Nat
            /\ Cardinality(Kept(clock)) \in Nat
        BY <1>1, <3>2, CallersFinite
      <4> QED
        BY <4>2, <4>3
    <3>6. Cardinality(Recent') <= Cardinality(Kept(clock) \cup A')
      BY <1>1, <3>1, <3>2, Fewer
    <3>7. /\ Cardinality(Recent') \in Nat /\ Cardinality(A') \in Nat
          /\ Cardinality(Kept(clock)) \in Nat /\ limits.rpm \in Nat
          /\ Cardinality(Kept(clock) \cup A') \in Nat
      BY <1>1, <3>1, <3>2, CallersFinite DEF LimiterInvariant, LimiterTypeOK
    <3> HIDE DEF A
    <3> QED
      BY <3>3, <3>4, <3>5, <3>6, <3>7, Numbers
  <2> QED
    BY <2>1, <2>2
<1> QED
  BY <1>6, <1>7, <1>8, <1>9, <1>10, <1>11 DEF LimiterInvariant

\* The entry is made: what was counted is now in the window.
LEMMA EntryKeeps ==
    ASSUME LimiterInvariant, NEW c \in Callers, AddRequest(c)
    PROVE  LimiterInvariant'
<1>1. OneMoves(c, "added") /\ caller'[c].at = caller[c].at /\ caller[c].pc = "counted"
  BY OnlyPhase DEF SameStart, LimiterInvariant, AddRequest, Progress
<1>2. /\ entries' = entries \cup {c} /\ clock' = clock /\ spent' = spent
      /\ limits' = limits /\ redis' = redis
  BY DEF AddRequest
<1>3. LimiterTypeOK'
  BY <1>1, <1>2 DEF OneMoves, LimiterInvariant, LimiterTypeOK
<1>4. WindowIsKept' /\ Started'
  BY <1>1, <1>2, RecentStays
<1>5. Entered'
  <2>1. In({"added", "running", "over"})' = In({"added", "running", "over"}) \cup {c}
    BY <1>1, InAfter
  <2> QED
    BY <1>1, <1>2, <2>1, InCallers DEF LimiterInvariant, Entered, OneMoves
<1>6. Concurrency'
  <2>1. In({"counted"})' \subseteq In({"counted"})
    BY <1>1, InAfter
  <2>2. In({"counted", "added", "running"})' = In({"counted", "added", "running"})
    BY <1>1, InSame
  <2> QED
    BY <1>2, <2>1, <2>2, SameConcurrency
<1>7. Budgeted'
  <2>1. In({"running"})' = In({"running"})
    BY <1>1, InSame
  <2> QED
    BY <1>2, <2>1, SameBudget
<1> QED
  BY <1>3, <1>4, <1>5, <1>6, <1>7 DEF LimiterInvariant

\* A refusal admits nobody.
LEMMA RefusalKeeps ==
    ASSUME LimiterInvariant, NEW c \in Callers, RefuseRequest(c)
    PROVE  LimiterInvariant'
<1>1. PICK oldest \in Scores(c) :
          caller' = [caller EXCEPT ![c].pc = "refused",
              ![c].until = clock + RetryAfter(oldest + WINDOW - caller[c].at) * TICKS]
  BY DEF RefuseRequest
<1>2. oldest \in Nat /\ caller[c].at \in Nat /\ clock \in Nat
  BY DEF Scores, LimiterInvariant, LimiterTypeOK, Caller
<1>3. clock + RetryAfter(oldest + WINDOW - caller[c].at) * TICKS \in Nat
  <2>1. oldest + WINDOW - caller[c].at \in Int
    BY <1>2, Numbers
  <2> QED
    BY <1>2, <2>1, Waits
<1>4. OneMoves(c, "refused") /\ caller'[c].at = caller[c].at
  BY <1>1, <1>3, PhaseAndUntil DEF SameStart, LimiterInvariant, Progress
<1>5. caller[c].pc = "refusing"
  BY DEF RefuseRequest
<1>6. /\ entries' = entries /\ clock' = clock /\ spent' = spent
      /\ limits' = limits /\ redis' = redis
  BY DEF RefuseRequest
<1>7. /\ In({"added", "running", "over"})' = In({"added", "running", "over"})
      /\ In({"counted"})' = In({"counted"}) /\ In({"running"})' = In({"running"})
      /\ In({"counted", "added", "running"})' = In({"counted", "added", "running"})
  <2>1. In({"added", "running", "over"})' = In({"added", "running", "over"})
    BY <1>4, <1>5, InSame
  <2>2. In({"counted"})' = In({"counted"}) /\ In({"running"})' = In({"running"})
    BY <1>4, <1>5, InSame
  <2>3. In({"counted", "added", "running"})' = In({"counted", "added", "running"})
    BY <1>4, <1>5, InSame
  <2> QED
    BY <2>1, <2>2, <2>3
<1>8. LimiterTypeOK'
  BY <1>4, <1>6 DEF OneMoves, LimiterInvariant, LimiterTypeOK
<1>9. WindowIsKept' /\ Started'
  BY <1>4, <1>6, RecentStays
<1>10. Entered'
  BY <1>4, <1>6, <1>7, InCallers DEF LimiterInvariant, Entered, OneMoves
<1> QED
  BY <1>6, <1>7, <1>8, <1>9, <1>10, SameConcurrency, SameBudget DEF LimiterInvariant

\* A turn starts only while the budget lasts.
LEMMA TokensKeep ==
    ASSUME LimiterInvariant, NEW c \in Callers, CheckTokens(c)
    PROVE  LimiterInvariant'
<1>1. /\ entries' = entries /\ clock' = clock /\ spent' = spent
      /\ limits' = limits /\ redis' = redis /\ caller[c].pc = "added"
  BY DEF CheckTokens
<1>2. PICK phase \in {"out of tokens", "running"} :
          /\ OneMoves(c, phase) /\ caller'[c].at = caller[c].at
          /\ phase = "running" => ~OutOfTokens
  <2>1. CASE /\ OutOfTokens
             /\ caller' = [caller EXCEPT ![c].pc = "out of tokens",
                    ![c].until = clock + SecondsUntilMidnight(clock) * TICKS]
    <3>1. clock + SecondsUntilMidnight(clock) * TICKS \in Nat
      BY Waits DEF LimiterInvariant, LimiterTypeOK
    <3>2. OneMoves(c, "out of tokens") /\ caller'[c].at = caller[c].at
      BY <2>1, <3>1, PhaseAndUntil DEF SameStart, LimiterInvariant, Progress
    <3> QED
      BY <3>2
  <2>2. CASE ~OutOfTokens /\ Move(c, "running")
    <3>1. OneMoves(c, "running") /\ caller'[c].at = caller[c].at
      BY <2>2, OnlyPhase DEF SameStart, LimiterInvariant, Progress
    <3> QED
      BY <2>2, <3>1
  <2> QED
    BY <2>1, <2>2 DEF CheckTokens
<1>3. LimiterTypeOK'
  BY <1>1, <1>2 DEF OneMoves, LimiterInvariant, LimiterTypeOK
<1>4. WindowIsKept' /\ Started'
  BY <1>1, <1>2, RecentStays
<1>5. Entered'
  <2>1. In({"added", "running", "over"})' \subseteq In({"added", "running", "over"}) \cup {c}
    BY <1>2, InWithin, ZenonT(30)
  <2>2. c \in In({"added", "running", "over"})
    BY <1>1 DEF In
  <2> QED
    BY <1>1, <1>2, <2>1, <2>2, InCallers DEF LimiterInvariant, Entered, OneMoves
<1>6. Concurrency'
  <2>1. In({"counted"})' \subseteq In({"counted"})
    BY <1>2, InWithin
  <2>2. In({"counted", "added", "running"})' \subseteq In({"counted", "added", "running"}) \cup {c}
    BY <1>2, InWithin, ZenonT(30)
  <2>3. c \in In({"counted", "added", "running"})
    BY <1>1 DEF In
  <2> QED
    BY <1>1, <2>1, <2>2, <2>3, SameConcurrency
<1>7. Budgeted'
  <2>1. CASE phase = "out of tokens"
    <3>1. In({"running"})' = In({"running"})
      BY <1>1, <1>2, <2>1, InSame
    <3> QED
      BY <1>1, <3>1, SameBudget
  <2>2. CASE phase = "running" /\ redis = "up"
    <3> DEFINE n == Cardinality(In({"running"})')
    <3>1. spent <= LongerOf(1, limits.tpd) - 1
      BY <1>2, <2>2 DEF OutOfTokens, Exhausted, LongerOf, LimiterInvariant, LimiterTypeOK
    <3>2. n <= MaxRunning /\ n \in Nat
      <4>1. /\ In({"counted", "added", "running"})' \in SUBSET Callers
            /\ In({"running"})' \in SUBSET In({"counted", "added", "running"})'
        BY DEF In
      <4>2. Cardinality(In({"counted", "added", "running"})') <= MaxRunning
        BY <1>1, <1>6, <2>2 DEF Concurrency
      <4> QED
        BY <4>1, <4>2, AtMost, CallersFinite, Numbers
    <3>3. /\ MaxTokens * n \in Nat /\ MaxTokens * MaxRunning \in Nat
          /\ MaxTokens * n <= MaxTokens * MaxRunning
      BY <3>2, Numbers, Times
    <3>4. spent \in Nat /\ LongerOf(1, limits.tpd) - 1 \in Nat
      BY Longer DEF LimiterInvariant, LimiterTypeOK
    <3>5. spent + MaxTokens * n <= LongerOf(1, limits.tpd) - 1 + MaxTokens * MaxRunning
      BY <3>1, <3>3, <3>4, Sums
    <3> QED
      BY <1>1, <3>5 DEF Budgeted
  <2>3. CASE redis # "up"
    BY <1>1, <2>3 DEF Budgeted
  <2> QED
    BY <1>2, <2>1, <2>2, <2>3
<1> QED
  BY <1>3, <1>4, <1>5, <1>6, <1>7 DEF LimiterInvariant

\* What a turn spends is what it might still have spent.
LEMMA UsageKeeps ==
    ASSUME LimiterInvariant, NEW c \in Callers, RecordUsage(c)
    PROVE  LimiterInvariant'
<1>1. OneMoves(c, "over") /\ caller'[c].at = caller[c].at /\ caller[c].pc = "running"
  BY OnlyPhase DEF SameStart, LimiterInvariant, RecordUsage, Progress
<1>2. /\ entries' = entries /\ clock' = clock /\ limits' = limits /\ redis' = redis
  BY DEF RecordUsage
<1>3. PICK n \in 0..MaxTokens : spent' = spent + n
  BY DEF RecordUsage
<1>4. n \in Nat /\ n <= MaxTokens /\ spent \in Nat
  BY Numbers DEF LimiterInvariant, LimiterTypeOK
<1>5. LimiterTypeOK'
  BY <1>1, <1>2, <1>3, <1>4 DEF OneMoves, LimiterInvariant, LimiterTypeOK
<1>6. WindowIsKept' /\ Started'
  BY <1>1, <1>2, RecentStays
<1>7. Entered'
  <2>1. In({"added", "running", "over"})' = In({"added", "running", "over"})
    BY <1>1, InSame
  <2> QED
    BY <1>1, <1>2, <2>1, InCallers DEF LimiterInvariant, Entered, OneMoves
<1>8. Concurrency'
  <2>1. In({"counted"})' = In({"counted"})
    BY <1>1, InSame
  <2>2. In({"counted", "added", "running"})' \subseteq In({"counted", "added", "running"})
    BY <1>1, InAfter
  <2> QED
    BY <1>2, <2>1, <2>2, SameConcurrency
<1>9. Budgeted'
  <2> SUFFICES ASSUME redis = "up" PROVE Budgeted'
    BY <1>2 DEF Budgeted
  <2> DEFINE A == In({"running"})
             x == MaxTokens * Cardinality(A)
             z == MaxTokens * Cardinality(A')
             y == MaxTokens * MaxRunning
  <2>1. A' = A \ {c} /\ c \in A /\ A \subseteq Callers
    <3>1. A' = A \ {c}
      BY <1>1, InAfter
    <3> QED
      BY <1>1, <3>1 DEF In
  <2>2. Cardinality(A) = Cardinality(A') + 1 /\ Cardinality(A') \in Nat
    <3>1. A' \in SUBSET Callers /\ IsFiniteSet(A') /\ c \notin A' /\ A = A' \cup {c}
      BY <2>1, CallersFinite
    <3>2. Cardinality(A' \cup {c}) = Cardinality(A') + 1 /\ Cardinality(A') \in Nat
      BY <3>1, FS_AddElement, FS_CardinalityType
    <3> QED
      BY <3>1, <3>2
  <2>3. x = z + MaxTokens /\ x \in Nat /\ z \in Nat /\ y \in Nat
    <3> HIDE DEF A
    <3> QED
      BY <2>2, Numbers, Times
  <2>4. spent + x <= LongerOf(1, limits.tpd) - 1 + y
    BY DEF LimiterInvariant, Budgeted
  <2>5. LongerOf(1, limits.tpd) - 1 \in Nat
    BY Longer DEF LimiterInvariant, LimiterTypeOK
  <2> HIDE DEF x, y, z
  <2>6. spent' + z <= LongerOf(1, limits.tpd) - 1 + y
    BY <1>3, <1>4, <2>3, <2>4, <2>5, Numbers
  <2> QED
    BY <1>2, <2>6 DEF Budgeted, z, y
<1> QED
  BY <1>5, <1>6, <1>7, <1>8, <1>9 DEF LimiterInvariant

\* Without Redis nothing is promised but the types.
LEMMA FailureKeeps ==
    ASSUME LimiterInvariant, NEW c \in Callers, FailOpen(c)
    PROVE  LimiterInvariant'
<1>1. OneMoves(c, "running") /\ caller'[c].at = caller[c].at
  BY OnlyPhase DEF SameStart, LimiterInvariant, FailOpen, Progress
<1>2. /\ entries' = entries /\ clock' = clock /\ spent' = spent
      /\ limits' = limits /\ redis' # "up" /\ redis' = redis
  BY DEF FailOpen
<1>3. LimiterTypeOK' /\ Started'
  BY <1>1, <1>2 DEF OneMoves, LimiterInvariant, LimiterTypeOK, Started
<1> QED
  BY <1>2, <1>3 DEF LimiterInvariant, Entered, Concurrency, Budgeted, WindowIsKept

LEMMA WindowMoves ==
    ASSUME NEW a \in Nat, NEW now \in Nat, NEW w \in Nat, a > now + 1 - w
    PROVE  a > now - w
  OBVIOUS

\* Time shrinks the window and may empty the counter.
LEMMA TimeKeeps ==
    ASSUME LimiterInvariant, PassTime
    PROVE  LimiterInvariant'
<1>1. /\ clock' = clock + 1 /\ entries' = entries /\ caller' = caller
      /\ limits' = limits /\ redis' = redis /\ (spent' = 0 \/ spent' = spent)
  BY DEF PassTime
<1>2. clock \in Nat /\ \A c \in Callers : caller[c].at \in Nat
  BY DEF LimiterInvariant, LimiterTypeOK, Caller
<1>3. LimiterTypeOK' /\ Started'
  BY <1>1, <1>2 DEF LimiterInvariant, LimiterTypeOK, Started
<1>4. \A phases : In(phases)' = In(phases)
  BY <1>1 DEF In
<1>5. Entered'
  <2> SUFFICES ASSUME redis = "up", NEW c \in In({"added", "running", "over"}),
                      caller[c].at > clock + 1 - WINDOW
               PROVE  c \in entries
    <3>1. In({"added", "running", "over"})' = In({"added", "running", "over"})
      BY <1>1 DEF In
    <3> QED
      BY <1>1, <1>2, <3>1, Numbers DEF Entered
  <2>1. caller[c].at > clock - WINDOW
    <3>1. c \in Callers
      BY InCallers
    <3> QED
      BY <1>2, <3>1, Numbers, WindowMoves
  <2> QED
    BY <2>1 DEF LimiterInvariant, Entered
<1>6. Concurrency'
  BY <1>1, <1>4 DEF LimiterInvariant, Concurrency
<1>7. WindowIsKept'
  <2>1. Recent' \subseteq Recent
    <3>1. /\ In({"counted", "added", "running", "over"})' = In({"counted", "added", "running", "over"})
          /\ In({"counted", "added", "running", "over"}) \subseteq Callers
      BY <1>1 DEF In
    <3>2. \A c \in Callers : caller[c].at > clock + 1 - WINDOW => caller[c].at > clock - WINDOW
      BY <1>2, Numbers, WindowMoves
    <3> SUFFICES ASSUME NEW c \in Recent' PROVE c \in Recent
      OBVIOUS
    <3>3. c \in In({"counted", "added", "running", "over"}) /\ caller[c].at > clock + 1 - WINDOW
      BY <1>1, <1>2, <3>1, Numbers DEF Recent
    <3> QED
      BY <3>1, <3>2, <3>3 DEF Recent
  <2>2. Cardinality(Recent') <= Cardinality(Recent)
    BY <2>1, Fewer DEF Recent, In
  <2>3. Cardinality(Recent) \in Nat /\ Cardinality(Recent') \in Nat /\ limits.rpm \in Nat
    BY <2>1, CallersFinite DEF Recent, In, LimiterInvariant, LimiterTypeOK
  <2> QED
    BY <1>1, <2>2, <2>3, Numbers DEF LimiterInvariant, WindowIsKept
<1>8. Budgeted'
  <2> DEFINE A == In({"running"})
             x == MaxTokens * Cardinality(A)
             y == MaxTokens * MaxRunning
  <2>1. x \in Nat
    BY InCallers, CallersFinite, Numbers, Times
  <2>2. redis = "up" => spent + x <= LongerOf(1, limits.tpd) - 1 + y
    BY DEF LimiterInvariant, Budgeted
  <2>3. spent \in Nat /\ LongerOf(1, limits.tpd) - 1 \in Nat /\ y \in Nat
    BY Longer, Numbers, Times DEF LimiterInvariant, LimiterTypeOK
  <2>4. In({"running"})' = A
    BY <1>4
  <2> HIDE DEF x, y
  <2>5. redis = "up" => spent' + x <= LongerOf(1, limits.tpd) - 1 + y
    BY <1>1, <2>1, <2>2, <2>3
  <2> QED
    BY <1>1, <2>4, <2>5 DEF Budgeted, x, y
<1> QED
  BY <1>3, <1>5, <1>6, <1>7, <1>8 DEF LimiterInvariant
-----------------------------------------------------------------------------
\* Every step keeps the invariant.
THEOREM LimiterStep == LimiterInvariant /\ [LimiterNext]_limiterVars => LimiterInvariant'
<1> SUFFICES ASSUME LimiterInvariant, [LimiterNext]_limiterVars PROVE LimiterInvariant'
  OBVIOUS
<1>1. ASSUME NEW c \in Callers,
             \/ CountRequests(c) \/ RefuseRequest(c) \/ AddRequest(c)
             \/ CheckTokens(c) \/ FailOpen(c) \/ RecordUsage(c)
      PROVE  LimiterInvariant'
  BY <1>1, CountKeeps, RefusalKeeps, EntryKeeps, TokensKeep, FailureKeeps, UsageKeeps
<1>2. CASE PassTime
  BY <1>2, TimeKeeps
<1>3. CASE UNCHANGED limiterVars
  BY <1>3 DEF limiterVars, LimiterInvariant, LimiterTypeOK, Started, Entered,
              Concurrency, Budgeted, WindowIsKept, Recent, In
<1> QED
  BY <1>1, <1>2, <1>3 DEF LimiterNext

\* The invariant holds of every behaviour.
THEOREM LimiterSafe == LimiterSpec => []LimiterInvariant
  BY LimiterInitial, LimiterStep, PTL DEF LimiterSpec

\* In no window are more requests admitted than the limit and those that were
\* counting at the same moment, for any limits, window and number of requests
\* (_check_requests).
THEOREM RequestsAreLimited == LimiterSpec => []WindowIsKept
<1>1. LimiterInvariant => WindowIsKept
  BY DEF LimiterInvariant
<1> QED
  BY <1>1, LimiterSafe, PTL

\* The daily budget is overspent at most by the turns in flight, for any budget
\* and any number of turns (_check_tokens, record_tokens).
THEOREM TokensAreLimited == LimiterSpec => []BudgetIsKept
<1>1. LimiterInvariant => BudgetIsKept
  <2> SUFFICES ASSUME LimiterInvariant, redis = "up" PROVE BudgetIsKept
    BY DEF BudgetIsKept
  <2> DEFINE x == MaxTokens * Cardinality(In({"running"}))
             y == MaxTokens * MaxRunning
  <2>1. x \in Nat /\ y \in Nat
    BY InCallers, CallersFinite, Numbers, Times
  <2>2. spent \in Nat /\ LongerOf(1, limits.tpd) - 1 \in Nat
    BY Longer DEF LimiterInvariant, LimiterTypeOK
  <2>3. spent + x <= LongerOf(1, limits.tpd) - 1 + y
    BY DEF LimiterInvariant, Budgeted
  <2> HIDE DEF x, y
  <2>4. spent <= LongerOf(1, limits.tpd) - 1 + y
    BY <2>1, <2>2, <2>3
  <2> QED
    BY <2>4 DEF BudgetIsKept, y
<1> QED
  BY <1>1, LimiterSafe, PTL
-----------------------------------------------------------------------------
(* RetryMakesRoom, whether Redis answers or not: what a refused request saw *)
(* is older than anything that enters after it.                             *)

\* Who has an entry or has counted has started.
Begun(c) == caller[c].pc # "new"

\* The requests a refusal rests on, and those that entered since.
Seen(c) ==
    /\ \A e \in caller[c].seen : Begun(e) /\ caller[e].at <= caller[c].at
    /\ caller[c].pc = "refusing" =>
          /\ limits.rpm > 0 => caller[c].seen # {}
          /\ \A d \in entries \cup In({"counted"}) :
                d \in caller[c].seen \/ caller[c].at <= caller[d].at

RetryInvariant ==
    /\ LimiterTypeOK /\ Started
    /\ \A d \in entries : Begun(d)
    /\ \A c \in Callers : Seen(c)
    /\ RetryMakesRoom

LEMMA WaitIsLongEnough ==
    ASSUME NEW rest \in Int
    PROVE  RetryAfter(rest) * TICKS \in Nat /\ RetryAfter(rest) * TICKS > rest
<1>1. TICKS \in Nat \ {0}
  BY Numbers
<1> DEFINE q == rest \div TICKS
<1>2. q \in Int /\ rest < (q + 1) * TICKS
  BY <1>1
<1> HIDE DEF q
<1>3. LongerOf(1, q + 1) \in Nat /\ LongerOf(1, q + 1) >= q + 1
  BY <1>2 DEF LongerOf
<1>4. ASSUME NEW n \in Nat, n >= q + 1 PROVE n * TICKS >= (q + 1) * TICKS
  <2>1. n * TICKS = (q + 1) * TICKS + (n - (q + 1)) * TICKS
    BY <1>1, <1>2
  <2>2. (n - (q + 1)) * TICKS \in Nat
    BY <1>1, <1>2, <1>4
  <2>3. n * TICKS \in Int /\ (q + 1) * TICKS \in Int
    BY <1>1, <1>2
  <2> QED
    BY <2>1, <2>2, <2>3
<1>5. RetryAfter(rest) * TICKS >= (q + 1) * TICKS
  BY <1>3, <1>4 DEF RetryAfter, q
<1>6. RetryAfter(rest) * TICKS \in Nat /\ (q + 1) * TICKS \in Int
  BY <1>1, <1>2, Waits
<1> QED
  BY <1>2, <1>5, <1>6

\* The request goes on: it rests on no refusal, and an entry was counted before.
LEMMA GoingOnKeepsRetry ==
    ASSUME RetryInvariant, NEW c \in Callers,
           NEW phase \in {"added", "out of tokens", "running", "over"},
           OneMoves(c, phase), SameStart(c),
           \/ entries' = entries
           \/ entries' = entries \cup {c} /\ caller[c].pc = "counted",
           clock' = clock, limits' = limits, LimiterTypeOK', Started'
    PROVE  RetryInvariant'
<1>1. \A d \in Callers :
          /\ caller'[d].at = caller[d].at /\ caller'[d].seen = caller[d].seen
          /\ caller[d].pc # "new" => caller'[d].pc # "new"
          /\ d # c => caller'[d] = caller[d]
  BY DEF OneMoves, SameStart
<1>2. \A d \in Callers : caller[d].seen \subseteq Callers
  BY DEF RetryInvariant, LimiterTypeOK, Caller
<1>3. entries \subseteq Callers /\ entries' \subseteq Callers
  BY DEF RetryInvariant, LimiterTypeOK
<1>4. entries' \cup In({"counted"})' \subseteq entries \cup In({"counted"})
  <2>1. In({"counted"})' \subseteq In({"counted"}) \ {c}
    BY InWithin
  <2> QED
    BY <2>1 DEF In
<1>5. \A d \in entries' : Begun(d)'
  <2>1. caller'[c].pc # "new"
    BY DEF OneMoves
  <2> QED
    BY <1>1, <1>3, <2>1 DEF RetryInvariant, Begun
<1>6. ASSUME NEW d \in Callers PROVE Seen(d)'
  <2>1. \A e \in caller'[d].seen : Begun(e)' /\ caller'[e].at <= caller'[d].at
    <3> SUFFICES ASSUME NEW e \in caller'[d].seen
                 PROVE  caller'[e].pc # "new" /\ caller'[e].at <= caller'[d].at
      BY DEF Begun
    <3>1. e \in caller[d].seen /\ e \in Callers
      BY <1>1, <1>2
    <3>2. caller[e].pc # "new" /\ caller[e].at <= caller[d].at
      BY <3>1 DEF RetryInvariant, Seen, Begun
    <3> QED
      BY <1>1, <3>1, <3>2
  <2>2. ASSUME caller'[d].pc = "refusing"
        PROVE  /\ limits'.rpm > 0 => caller'[d].seen # {}
               /\ \A e \in entries' \cup In({"counted"})' :
                     e \in caller'[d].seen \/ caller'[d].at <= caller'[e].at
    <3>1. d # c /\ caller'[d] = caller[d] /\ Seen(d)
      BY <2>2 DEF OneMoves, RetryInvariant
    <3>2. In({"counted"}) \subseteq Callers
      BY InCallers
    <3>3. limits.rpm > 0 => caller[d].seen # {}
      BY <2>2, <3>1 DEF Seen
    <3>4. ASSUME NEW e \in entries' \cup In({"counted"})'
          PROVE  e \in caller[d].seen \/ caller[d].at <= caller'[e].at
      <4>1. e \in entries \cup In({"counted"}) /\ e \in Callers
        BY <1>3, <1>4, <3>2
      <4>2. e \in caller[d].seen \/ caller[d].at <= caller[e].at
        BY <2>2, <3>1, <4>1 DEF Seen
      <4> QED
        BY <1>1, <4>1, <4>2
    <3> QED
      BY <3>1, <3>3, <3>4
  <2> QED
    BY <2>1, <2>2 DEF Seen
<1>7. RetryMakesRoom'
  <2> SUFFICES ASSUME limits.rpm > 0, NEW d \in In({"refused"})'
               PROVE  \E e \in caller'[d].seen : caller'[e].at <= caller'[d].until - WINDOW
    BY DEF RetryMakesRoom
  <2>1. d \in Callers /\ d # c /\ d \in In({"refused"}) /\ caller'[d] = caller[d]
    BY DEF In, OneMoves
  <2>2. PICK e \in caller[d].seen : caller[e].at <= caller[d].until - WINDOW
    BY <2>1 DEF RetryInvariant, RetryMakesRoom
  <2>3. e \in Callers /\ caller'[e].at = caller[e].at
    BY <1>1, <1>2, <2>1
  <2> QED
    BY <2>1, <2>2, <2>3
<1> QED
  BY <1>5, <1>6, <1>7 DEF RetryInvariant

LEMMA CountKeepsRetry ==
    ASSUME RetryInvariant, NEW c \in Callers, CountRequests(c), LimiterTypeOK', Started'
    PROVE  RetryInvariant'
<1> DEFINE full == Exhausted(Cardinality(Kept(clock)), limits.rpm)
           next == [pc |-> IF full THEN "refusing" ELSE "counted",
                    at |-> clock, until |-> 0,
                    seen |-> IF full THEN Kept(clock) \cup In({"counted"}) ELSE {}]
<1>1. /\ caller' = [caller EXCEPT ![c] = next] /\ ~Begun(c)
      /\ entries' = Kept(clock) /\ clock' = clock /\ limits' = limits
  BY DEF CountRequests, Begun
<1>2. /\ \A d \in Callers : d # c => caller'[d] = caller[d]
      /\ caller'[c] = next
  BY <1>1 DEF RetryInvariant, LimiterTypeOK
<1>3. /\ Kept(clock) \subseteq entries /\ entries \subseteq Callers
      /\ In({"counted"}) \subseteq Callers /\ c \notin entries /\ c \notin In({"counted"})
      /\ \A d \in entries \cup In({"counted"}) : Begun(d)
  BY <1>1 DEF Kept, In, Begun, RetryInvariant, LimiterTypeOK
<1>4. /\ caller'[c].at = clock /\ Begun(c)'
      /\ caller'[c].pc = (IF full THEN "refusing" ELSE "counted")
      /\ caller'[c].seen = (IF full THEN Kept(clock) \cup In({"counted"}) ELSE {})
  BY <1>2 DEF Begun
<1>5. /\ clock \in Nat /\ limits.rpm \in Nat
      /\ \A d \in Callers : caller[d].at \in Nat /\ caller[d].at <= clock
  BY DEF RetryInvariant, LimiterTypeOK, Started, Caller
<1>6. \A d \in entries' : Begun(d)'
  BY <1>1, <1>2, <1>3 DEF Begun
<1>7. ASSUME NEW d \in Callers PROVE Seen(d)'
  <2>1. CASE d # c
    <3>1. /\ caller'[d] = caller[d] /\ Seen(d) /\ caller[d].seen \subseteq Callers
          /\ c \notin caller[d].seen
      BY <1>1, <1>2, <2>1 DEF RetryInvariant, Seen, LimiterTypeOK, Caller
    <3>2. \A e \in caller[d].seen : caller'[e] = caller[e]
      BY <1>2, <3>1
    <3>3. \A e \in caller'[d].seen : Begun(e)' /\ caller'[e].at <= caller'[d].at
      BY <3>1, <3>2 DEF Seen, Begun
    <3>4. ASSUME caller[d].pc = "refusing", NEW e \in entries' \cup In({"counted"})'
          PROVE  e \in caller[d].seen \/ caller[d].at <= caller'[e].at
      <4>1. CASE e = c
        BY <1>4, <1>5, <4>1
      <4>2. CASE e # c
        <5>1. e \in entries \cup In({"counted"}) /\ caller'[e] = caller[e]
          BY <1>1, <1>2, <1>3, <4>2 DEF In
        <5> QED
          BY <3>1, <3>4, <5>1 DEF Seen
      <4> QED
        BY <4>1, <4>2
    <3> QED
      BY <1>1, <3>1, <3>3, <3>4 DEF Seen
  <2>2. CASE d = c
    <3>1. \A e \in caller'[c].seen : e # c /\ e \in Callers /\ Begun(e)
      BY <1>3, <1>4
    <3>2. \A e \in caller'[c].seen : Begun(e)' /\ caller'[e].at <= caller'[c].at
      BY <1>2, <1>4, <1>5, <3>1 DEF Begun
    <3>3. ASSUME caller'[c].pc = "refusing"
          PROVE  /\ limits.rpm > 0 => caller'[c].seen # {}
                 /\ entries' \cup In({"counted"})' \subseteq caller'[c].seen
      <4>1. full
        BY <1>4, <3>3
      <4>2. limits.rpm > 0 => Kept(clock) # {}
        <5>1. Cardinality(Kept(clock)) >= limits.rpm
          BY <4>1 DEF Exhausted
        <5>2. Cardinality({}) = 0
          BY FS_EmptySet
        <5>3. limits.rpm > 0 => Cardinality(Kept(clock)) # 0
          <6>1. Cardinality(Kept(clock)) \in Nat
            BY <1>3, CallersFinite
          <6> QED
            BY <1>5, <5>1, <6>1
        <5> QED
          BY <5>2, <5>3
      <4>3. In({"counted"})' \subseteq In({"counted"})
        BY <1>2, <3>3 DEF In
      <4> QED
        BY <1>1, <1>4, <4>1, <4>2, <4>3
    <3> QED
      BY <1>1, <2>2, <3>2, <3>3 DEF Seen
  <2> QED
    BY <2>1, <2>2
<1>8. RetryMakesRoom'
  <2> SUFFICES ASSUME limits.rpm > 0, NEW d \in In({"refused"})'
               PROVE  \E e \in caller'[d].seen : caller'[e].at <= caller'[d].until - WINDOW
    BY <1>1 DEF RetryMakesRoom
  <2>1. d \in Callers /\ d # c /\ d \in In({"refused"}) /\ caller'[d] = caller[d]
    BY <1>2, <1>4 DEF In
  <2>2. \A e \in caller[d].seen : caller'[e] = caller[e]
    BY <1>1, <1>2, <2>1 DEF RetryInvariant, Seen, LimiterTypeOK, Caller
  <2> QED
    BY <2>1, <2>2 DEF RetryInvariant, RetryMakesRoom
<1> QED
  BY <1>6, <1>7, <1>8 DEF RetryInvariant

\* The oldest entry is one that was seen, or not older than those.
LEMMA RefusalKeepsRetry ==
    ASSUME RetryInvariant, NEW c \in Callers, RefuseRequest(c), LimiterTypeOK', Started'
    PROVE  RetryInvariant'
<1>1. PICK oldest \in Scores(c) :
          /\ \A score \in Scores(c) : oldest <= score
          /\ caller' = [caller EXCEPT ![c].pc = "refused",
              ![c].until = clock + RetryAfter(oldest + WINDOW - caller[c].at) * TICKS]
  BY DEF RefuseRequest
<1>2. /\ entries' = entries /\ clock' = clock /\ limits' = limits
      /\ caller[c].pc = "refusing"
  BY DEF RefuseRequest
<1>3. /\ \A d \in Callers : caller[d].at \in Nat /\ caller[d].seen \subseteq Callers
      /\ clock \in Nat /\ oldest \in Nat /\ entries \subseteq Callers
      /\ caller[c].at <= clock
  BY DEF RetryInvariant, LimiterTypeOK, Caller, Started, Scores
<1> DEFINE rest == oldest + WINDOW - caller[c].at
           until == clock + RetryAfter(rest) * TICKS
<1>4. rest \in Int
  BY <1>3, Numbers
<1>5. until \in Nat /\ oldest <= until - WINDOW
  <2>1. RetryAfter(rest) * TICKS \in Nat /\ RetryAfter(rest) * TICKS > rest
    BY <1>4, WaitIsLongEnough
  <2> QED
    BY <1>3, <2>1, Numbers
<1>6. OneMoves(c, "refused") /\ SameStart(c) /\ caller'[c].until = until
  BY <1>1, <1>5, PhaseAndUntil, ZenonT(30) DEF RetryInvariant, Progress
<1> HIDE DEF until
<1>7. \A d \in Callers :
          /\ caller'[d].at = caller[d].at /\ caller'[d].seen = caller[d].seen
          /\ caller[d].pc # "new" => caller'[d].pc # "new"
          /\ d # c => caller'[d] = caller[d]
  BY <1>6 DEF OneMoves, SameStart
<1>8. \A d \in entries' : Begun(d)'
  BY <1>2, <1>3, <1>7 DEF RetryInvariant, Begun
<1>9. ASSUME NEW d \in Callers PROVE Seen(d)'
  <2>1. ASSUME NEW e \in caller'[d].seen
        PROVE  Begun(e)' /\ caller'[e].at <= caller'[d].at
    <3>1. e \in caller[d].seen /\ e \in Callers
      BY <1>3, <1>7, <2>1
    <3>2. caller[e].pc # "new" /\ caller[e].at <= caller[d].at
      BY <3>1 DEF RetryInvariant, Seen, Begun
    <3> QED
      BY <1>7, <3>1, <3>2 DEF Begun
  <2>2. ASSUME caller'[d].pc = "refusing"
        PROVE  /\ limits'.rpm > 0 => caller'[d].seen # {}
               /\ \A e \in entries' \cup In({"counted"})' :
                     e \in caller'[d].seen \/ caller'[d].at <= caller'[e].at
    <3>1. d # c /\ caller'[d] = caller[d] /\ Seen(d)
      BY <1>6, <1>7, <2>2 DEF OneMoves, RetryInvariant
    <3>2. In({"counted"})' \subseteq In({"counted"}) /\ In({"counted"}) \subseteq Callers
      <4>1. In({"counted"})' \subseteq In({"counted"}) \ {c}
        BY <1>6, InWithin
      <4> QED
        BY <4>1, InCallers
    <3>3. limits'.rpm > 0 => caller[d].seen # {}
      BY <1>2, <2>2, <3>1 DEF Seen
    <3>4. ASSUME NEW e \in entries' \cup In({"counted"})'
          PROVE  e \in caller[d].seen \/ caller[d].at <= caller'[e].at
      <4>1. e \in entries \cup In({"counted"}) /\ e \in Callers
        BY <1>2, <1>3, <3>2
      <4>2. e \in caller[d].seen \/ caller[d].at <= caller[e].at
        BY <2>2, <3>1, <4>1 DEF Seen
      <4> QED
        BY <1>7, <4>1, <4>2
    <3> QED
      BY <3>1, <3>3, <3>4
  <2> QED
    BY <2>1, <2>2 DEF Seen
<1>10. RetryMakesRoom'
  <2> SUFFICES ASSUME limits.rpm > 0, NEW d \in In({"refused"})'
               PROVE  \E e \in caller'[d].seen : caller'[e].at <= caller'[d].until - WINDOW
    BY <1>2 DEF RetryMakesRoom
  <2>1. CASE d # c
    <3>1. d \in Callers /\ d \in In({"refused"}) /\ caller'[d] = caller[d]
      BY <1>7, <2>1 DEF In
    <3>2. PICK e \in caller[d].seen : caller[e].at <= caller[d].until - WINDOW
      BY <3>1 DEF RetryInvariant, RetryMakesRoom
    <3>3. e \in Callers /\ caller'[e].at = caller[e].at
      BY <1>3, <1>7, <3>1, <3>2
    <3> QED
      BY <3>1, <3>2, <3>3
  <2>2. CASE d = c
    <3>1. Seen(c) /\ caller[c].seen # {}
      BY <1>2 DEF RetryInvariant, Seen
    <3>2. PICK e \in caller[c].seen : caller[e].at <= oldest
      <4>1. CASE entries = {}
        <5>1. oldest = caller[c].at
          BY <4>1 DEF Scores
        <5> QED
          BY <3>1, <5>1 DEF Seen
      <4>2. CASE entries # {}
        <5>1. PICK f \in entries : oldest = caller[f].at
          BY <4>2 DEF Scores
        <5>2. CASE f \in caller[c].seen
          BY <1>3, <5>1, <5>2
        <5>3. CASE f \notin caller[c].seen
          <6>1. caller[c].at <= oldest
            BY <1>2, <3>1, <5>1, <5>3 DEF Seen
          <6>2. PICK e \in caller[c].seen : caller[e].at <= caller[c].at
            BY <3>1 DEF Seen
          <6>3. caller[e].at \in Nat /\ caller[c].at \in Nat
            BY <1>3, <6>2
          <6>4. caller[e].at <= oldest
            BY <1>3, <6>1, <6>2, <6>3
          <6> QED
            BY <6>2, <6>4
        <5> QED
          BY <5>2, <5>3
      <4> QED
        BY <4>1, <4>2
    <3>3. e \in Callers /\ caller'[e].at = caller[e].at /\ e \in caller'[c].seen
      BY <1>3, <1>7, <3>2
    <3>4. caller[e].at <= until - WINDOW
      BY <1>3, <1>5, <3>2, <3>3, Numbers
    <3> QED
      BY <1>6, <2>2, <3>3, <3>4
  <2> QED
    BY <2>1, <2>2
<1> QED
  BY <1>8, <1>9, <1>10 DEF RetryInvariant

\* Nobody was told to retry before the first request.
THEOREM RetryInitial == LimiterInit => RetryInvariant
<1> SUFFICES ASSUME LimiterInit PROVE RetryInvariant
  OBVIOUS
<1>1. LimiterTypeOK /\ Started
  BY LimiterInitial DEF LimiterInvariant
<1>2. \A c \in Callers : caller[c].pc = "new" /\ caller[c].seen = {}
  BY DEF LimiterInit
<1>3. \A c \in Callers : Seen(c)
  BY <1>2 DEF Seen
<1>4. RetryMakesRoom
  BY <1>2 DEF RetryMakesRoom, In
<1> QED
  BY <1>1, <1>3, <1>4 DEF RetryInvariant, LimiterInit

\* No step breaks what refused clients were told: time and scores only grow.
THEOREM RetryStep ==
    RetryInvariant /\ LimiterInvariant' /\ [LimiterNext]_limiterVars => RetryInvariant'
<1> SUFFICES ASSUME RetryInvariant, LimiterTypeOK', Started', [LimiterNext]_limiterVars
             PROVE  RetryInvariant'
  BY DEF LimiterInvariant
<1>1. ASSUME NEW c \in Callers, CountRequests(c) PROVE RetryInvariant'
  BY <1>1, CountKeepsRetry
<1>2. ASSUME NEW c \in Callers, RefuseRequest(c) PROVE RetryInvariant'
  BY <1>2, RefusalKeepsRetry
<1>3. ASSUME NEW c \in Callers, AddRequest(c) PROVE RetryInvariant'
  <2>1. OneMoves(c, "added") /\ SameStart(c)
    BY <1>3, OnlyPhase DEF RetryInvariant, AddRequest, Progress
  <2> QED
    BY <1>3, <2>1, GoingOnKeepsRetry DEF AddRequest
<1>4. ASSUME NEW c \in Callers, CheckTokens(c) PROVE RetryInvariant'
  <2>1. CASE caller' = [caller EXCEPT ![c].pc = "out of tokens",
                ![c].until = clock + SecondsUntilMidnight(clock) * TICKS]
    <3>1. clock + SecondsUntilMidnight(clock) * TICKS \in Nat
      BY Waits DEF RetryInvariant, LimiterTypeOK
    <3>2. OneMoves(c, "out of tokens") /\ SameStart(c)
      BY <2>1, <3>1, PhaseAndUntil DEF RetryInvariant, Progress
    <3> QED
      BY <1>4, <3>2, GoingOnKeepsRetry DEF CheckTokens
  <2>2. CASE Move(c, "running")
    <3>1. OneMoves(c, "running") /\ SameStart(c)
      BY <2>2, OnlyPhase DEF RetryInvariant, Progress
    <3> QED
      BY <1>4, <3>1, GoingOnKeepsRetry DEF CheckTokens
  <2> QED
    BY <1>4, <2>1, <2>2 DEF CheckTokens
<1>5. ASSUME NEW c \in Callers, FailOpen(c) PROVE RetryInvariant'
  <2>1. OneMoves(c, "running") /\ SameStart(c)
    BY <1>5, OnlyPhase DEF RetryInvariant, FailOpen, Progress
  <2> QED
    BY <1>5, <2>1, GoingOnKeepsRetry DEF FailOpen
<1>6. ASSUME NEW c \in Callers, RecordUsage(c) PROVE RetryInvariant'
  <2>1. OneMoves(c, "over") /\ SameStart(c)
    BY <1>6, OnlyPhase DEF RetryInvariant, RecordUsage, Progress
  <2> QED
    BY <1>6, <2>1, GoingOnKeepsRetry DEF RecordUsage
<1>7. CASE PassTime \/ UNCHANGED limiterVars
  <2>1. caller' = caller /\ entries' = entries /\ limits' = limits
    BY <1>7 DEF PassTime, limiterVars
  <2> QED
    BY <2>1 DEF RetryInvariant, RetryMakesRoom, Seen, Begun, In
<1> QED
  BY <1>1, <1>2, <1>3, <1>4, <1>5, <1>6, <1>7 DEF LimiterNext

\* A client that keeps to retry_after is never refused for the same requests, for
\* any resolution of the clock and with or without Redis (_check_requests).
THEOREM RetriesMakeRoom == LimiterSpec => []RetryMakesRoom
<1>1. RetryInvariant => RetryMakesRoom
  BY DEF RetryInvariant
<1> QED
  BY <1>1, RetryInitial, RetryStep, LimiterSafe, PTL DEF LimiterSpec

\* Both limits of an organization hold, but for the requests in flight
\* (TenantRateLimiter.check, record_tokens).
THEOREM BothLimitsHold == LimiterSpec => []LimitsAreKept
<1>1. WindowIsKept /\ BudgetIsKept => LimitsAreKept
  BY DEF LimitsAreKept
<1> QED
  BY <1>1, RequestsAreLimited, TokensAreLimited, PTL
-----------------------------------------------------------------------------
(* The retry of a client that is out of tokens.                             *)

\* The first second of a day, counted from its first tick.
LEMMA DayOfTick ==
    ASSUME NEW d \in Nat \ {0}, NEW q \in Nat, NEW e \in Nat, e < d
    PROVE  (q * d + e) \div d = q /\ (q * d + e) % d = e
<1> DEFINE n == q * d + e
<1>1. n \in Nat
  OBVIOUS
<1> HIDE DEF n
<1> DEFINE p == n \div d
           r == n % d
<1>3. p \in Nat /\ r \in Nat /\ r < d /\ n = p * d + r
  BY <1>1
<1> HIDE DEF p, r
<1>4. n = q * d + e
  BY DEF n
<1>5. ~(p < q)
  <2> SUFFICES ASSUME p < q PROVE FALSE
    OBVIOUS
  <2>1. q = p + 1 + (q - p - 1) /\ q - p - 1 \in Nat
    BY <1>3
  <2>2. q * d = p * d + d + (q - p - 1) * d
    BY <1>3, <2>1
  <2>3. (q - p - 1) * d \in Nat /\ p * d \in Nat /\ q * d \in Nat
    BY <1>3, <2>1
  <2> QED
    BY <1>3, <1>4, <2>2, <2>3
<1>6. ~(q < p)
  <2> SUFFICES ASSUME q < p PROVE FALSE
    OBVIOUS
  <2>1. p = q + 1 + (p - q - 1) /\ p - q - 1 \in Nat
    BY <1>3
  <2>2. p * d = q * d + d + (p - q - 1) * d
    BY <1>3, <2>1
  <2>3. (p - q - 1) * d \in Nat /\ p * d \in Nat /\ q * d \in Nat
    BY <1>3, <2>1
  <2> QED
    BY <1>3, <1>4, <2>2, <2>3
<1>7. p = q /\ r = e
  <2>1. p = q
    BY <1>3, <1>5, <1>6
  <2> QED
    BY <1>3, <1>4, <2>1
<1> QED
  BY <1>7 DEF n, p, r

\* The wait ends in the first second of the next day.
LEMMA NextMidnight ==
    ASSUME NEW now \in Nat
    PROVE  LET back == now + SecondsUntilMidnight(now) * TICKS
           IN back \div DAY = now \div DAY + 1 /\ back % DAY < TICKS
<1>1. /\ TICKS \in Nat \ {0} /\ DAY_SECONDS \in Nat \ {0} /\ DAY = DAY_SECONDS * TICKS
  BY RateLimiterAssumption DEF DAY
<1>2. DAY \in Nat \ {0} /\ TICKS <= DAY
  <2>1. DAY = TICKS + (DAY_SECONDS - 1) * TICKS /\ DAY_SECONDS - 1 \in Nat
    BY <1>1
  <2>2. (DAY_SECONDS - 1) * TICKS \in Nat
    BY <1>1
  <2> QED
    BY <1>1, <2>1, <2>2
<1> DEFINE day == now \div DAY
           tick == now % DAY
           second == tick \div TICKS
           rest == tick % TICKS
<1>3. /\ day \in Nat /\ tick \in Nat /\ tick < DAY /\ now = day * DAY + tick
  BY <1>2
<1> HIDE DEF day, tick
<1>4. /\ second \in Nat /\ rest \in Nat /\ rest < TICKS /\ tick = second * TICKS + rest
  BY <1>1, <1>3
<1> HIDE DEF second, rest
<1>5. second < DAY_SECONDS
  <2> SUFFICES ASSUME second >= DAY_SECONDS PROVE FALSE
    BY <1>1, <1>4
  <2>1. second * TICKS = DAY_SECONDS * TICKS + (second - DAY_SECONDS) * TICKS
    BY <1>1, <1>4
  <2>2. second - DAY_SECONDS \in Nat
    BY <1>1, <1>4
  <2>3. (second - DAY_SECONDS) * TICKS \in Nat /\ second * TICKS \in Nat
    BY <1>1, <1>4, <2>2
  <2> QED
    BY <1>1, <1>2, <1>3, <1>4, <2>1, <2>3
<1>6. SecondsUntilMidnight(now) = DAY_SECONDS - second
  <2>1. SecondsUntilMidnight(now) = LongerOf(1, (DAY_SECONDS - 1 - second) + 1)
    BY DEF SecondsUntilMidnight, second, tick
  <2> QED
    BY <1>1, <1>4, <1>5, <2>1 DEF LongerOf
<1>7. now + SecondsUntilMidnight(now) * TICKS = (day + 1) * DAY + rest
  <2>1. (DAY_SECONDS - second) * TICKS = DAY - second * TICKS
    BY <1>1, <1>4
  <2>2. (day + 1) * DAY = day * DAY + DAY
    BY <1>2, <1>3
  <2>3. day * DAY \in Nat /\ second * TICKS \in Nat
    BY <1>1, <1>2, <1>3, <1>4
  <2> QED
    BY <1>2, <1>3, <1>4, <1>6, <2>1, <2>2, <2>3
<1>8. day + 1 \in Nat /\ rest < DAY
  BY <1>1, <1>2, <1>3, <1>4
<1>9. /\ ((day + 1) * DAY + rest) \div DAY = day + 1
      /\ ((day + 1) * DAY + rest) % DAY = rest
  BY <1>2, <1>4, <1>8, DayOfTick
<1> QED
  BY <1>4, <1>7, <1>9 DEF day

\* A client that is out of tokens comes back in the first second of the next day,
\* for any resolution of the clock (_check_tokens, _seconds_until_midnight).
THEOREM RetriesNextDay == LimiterSpec => RetryNextDay
<1> DEFINE Told(c) == caller[c].pc = "added" /\ caller'[c].pc = "out of tokens" =>
              LET back == caller'[c].until
              IN back \div DAY = clock \div DAY + 1 /\ back % DAY < TICKS
<1>1. ASSUME LimiterTypeOK, LimiterTypeOK', [LimiterNext]_limiterVars, NEW c \in Callers
      PROVE  Told(c)
  <2> SUFFICES ASSUME caller[c].pc = "added", caller'[c].pc = "out of tokens"
               PROVE  LET back == caller'[c].until
                      IN back \div DAY = clock \div DAY + 1 /\ back % DAY < TICKS
    OBVIOUS
  <2>1. clock \in Nat /\ caller \in [Callers -> Caller]
    BY <1>1 DEF LimiterTypeOK
  <2>2. ASSUME NEW b \in Callers, CheckTokens(b)
        PROVE  caller'[c].until = clock + SecondsUntilMidnight(clock) * TICKS
    <3>1. CASE caller' = [caller EXCEPT ![b].pc = "out of tokens",
                ![b].until = clock + SecondsUntilMidnight(clock) * TICKS]
      <4>1. b = c
        BY <2>1, <3>1
      <4> QED
        BY <2>1, <3>1, <4>1, ZenonT(30) DEF Caller
    <3>2. CASE Move(b, "running")
      <4>1. OneMoves(b, "running")
        BY <1>1, <3>2, OnlyPhase DEF Progress
      <4> QED
        BY <4>1 DEF OneMoves
    <3> QED
      BY <2>2, <3>1, <3>2 DEF CheckTokens
  <2>3. PICK b \in Callers : CheckTokens(b)
    <3>1. caller' # caller
      OBVIOUS
    <3>2. ASSUME NEW b \in Callers, CountRequests(b) PROVE FALSE
      <4> DEFINE full == Exhausted(Cardinality(Kept(clock)), limits.rpm)
                 next == [pc |-> IF full THEN "refusing" ELSE "counted",
                    at |-> clock, until |-> 0,
                    seen |-> IF full THEN Kept(clock) \cup In({"counted"}) ELSE {}]
      <4>1. caller' = [caller EXCEPT ![b] = next]
        BY <3>2 DEF CountRequests
      <4>2. next.pc \in {"refusing", "counted"}
        OBVIOUS
      <4> HIDE DEF next
      <4> QED
        BY <2>1, <4>1, <4>2
    <3>3. ASSUME NEW b \in Callers, RefuseRequest(b) PROVE FALSE
      <4>1. PICK until : caller' = [caller EXCEPT ![b].pc = "refused", ![b].until = until]
        BY <3>3 DEF RefuseRequest
      <4> DEFINE moved == [caller[b] EXCEPT !.pc = "refused", !.until = until]
      <4>2. moved.pc = "refused"
        BY <2>1 DEF Caller
      <4>3. caller' = [caller EXCEPT ![b] = moved]
        BY <4>1, ZenonT(30)
      <4> HIDE DEF moved
      <4> QED
        BY <2>1, <4>2, <4>3
    <3>4. ASSUME NEW b \in Callers, AddRequest(b) \/ FailOpen(b) \/ RecordUsage(b) PROVE FALSE
      <4>1. PICK phase \in {"added", "running", "over"} : Move(b, phase)
        BY <3>4 DEF AddRequest, FailOpen, RecordUsage
      <4>2. OneMoves(b, phase)
        BY <1>1, <4>1, OnlyPhase DEF Progress
      <4> QED
        BY <4>2 DEF OneMoves
    <3>5. ~PassTime /\ ~UNCHANGED limiterVars
      BY <3>1 DEF PassTime, limiterVars
    <3> QED
      BY <1>1, <3>2, <3>3, <3>4, <3>5 DEF LimiterNext
  <2> QED
    BY <2>1, <2>2, <2>3, NextMidnight
<1>2. LimiterInvariant => LimiterTypeOK
  BY DEF LimiterInvariant
<1>3. LimiterTypeOK /\ LimiterTypeOK' /\ [LimiterNext]_limiterVars
      => [\A c \in Callers : Told(c)]_limiterVars
  BY <1>1
<1> QED
  BY <1>2, <1>3, LimiterSafe, PTL DEF LimiterSpec, RetryNextDay
=============================================================================
