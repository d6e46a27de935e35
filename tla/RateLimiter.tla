----------------------------- MODULE RateLimiter -----------------------------
(***************************************************************************)
(* The limits of one tenant on LLM endpoints (llm/rate_limit.py): requests *)
(* in a sliding window over a sorted set in Redis, and tokens in a counter *)
(* per day.  Both are read in one Redis call and written in a later one.   *)
(*                                                                         *)
(* Time passes in ticks, TICKS to a second, because the code truncates to  *)
(* whole seconds.                                                          *)
(***************************************************************************)
EXTENDS Integers, FiniteSets

CONSTANTS MaxCallers,       \* bound: requests that ask for admission
          TICKS,            \* ticks of a second
          WINDOW_SECONDS, DAY_SECONDS,
          BaseLimits,       \* [rpm, tpd] of the server's settings
          ProLimits,        \* [rpm, tpd] of the plan "pro"
          Overrides,        \* [rpm, tpd] an administrator may have set, 0 included
          NoLimit,          \* an override that is not set
          MaxTokens,        \* the tokens of a turn
          MaxCounting,      \* requests between the count and their own entry
          MaxRunning,       \* turns in flight
          Horizon           \* bound: ticks that pass

ASSUME RateLimiterAssumption ==
    /\ MaxCallers \in Nat
    /\ TICKS \in Nat \ {0} /\ WINDOW_SECONDS \in Nat \ {0} /\ DAY_SECONDS \in Nat \ {0}
    /\ MaxTokens \in Nat /\ Horizon \in Nat
    /\ MaxCounting \in Nat \ {0} /\ MaxRunning \in Nat \ {0}
    /\ NoLimit \notin Nat
    /\ BaseLimits \in [rpm : Nat \ {0}, tpd : Nat \ {0}]
    /\ ProLimits \in [rpm : Nat \ {0}, tpd : Nat \ {0}]
    /\ Overrides \subseteq [rpm : Nat \cup {NoLimit}, tpd : Nat \cup {NoLimit}]

VARIABLES clock,        \* ticks since the start
          entries,      \* callers in the sorted set
          caller,       \* progress, and the score a caller took at its start
          spent,        \* the token counter of the current day
          limits,       \* the limits of the tenant
          redis         \* "up", or "flaky": any call may fail

limiterVars == <<clock, entries, caller, spent, limits, redis>>
-----------------------------------------------------------------------------
WINDOW == WINDOW_SECONDS * TICKS
DAY == DAY_SECONDS * TICKS

\* Requests, numbered in the order in which they start.
Callers == 1..MaxCallers
Progress == {"new", "refusing", "refused", "out of tokens",
             "counted", "added", "running", "over"}
Caller == [pc : Progress, at : Nat, until : Nat, seen : SUBSET Callers]

IsNext(c) == \A b \in 1..(c - 1) : caller[b].pc # "new"
In(phases) == {c \in Callers : caller[c].pc \in phases}
LongerOf(a, b) == IF a > b THEN a ELSE b
Move(c, phase) == caller' = [caller EXCEPT ![c].pc = phase]

\* effective_limits: platform-admin override > plan > base limits.
Limit(field, override, plan) ==
    IF override[field] # NoLimit THEN override[field]
    ELSE IF plan = "pro" THEN ProLimits[field] ELSE BaseLimits[field]

EffectiveLimits(override, plan) ==
    [rpm |-> Limit("rpm", override, plan), tpd |-> Limit("tpd", override, plan)]

\* zremrangebyscore(key, "-inf", now - WINDOW_SECONDS)
Stale(c, now) == caller[c].at <= now - WINDOW
Kept(now) == {c \in entries : ~Stale(c, now)}
-----------------------------------------------------------------------------
(* check                                                                    *)

\* Mutant: the limit itself is still let through.
Exhausted_OffByOne(n, limit) == n > limit

Exhausted(n, limit) == n >= limit

CountRequests(c) ==
    /\ caller[c].pc = "new" /\ IsNext(c)
    /\ Cardinality(In({"counted"})) < MaxCounting
    /\ Cardinality(In({"counted", "added", "running"})) < MaxRunning
    /\ entries' = Kept(clock)
    /\ LET full == Exhausted(Cardinality(Kept(clock)), limits.rpm)
       IN caller' = [caller EXCEPT ![c] =
             [pc |-> IF full THEN "refusing" ELSE "counted",
              at |-> clock, until |-> 0,
              seen |-> IF full THEN Kept(clock) \cup In({"counted"}) ELSE {}]]
    /\ UNCHANGED <<clock, spent, limits, redis>>

\* Mutant: the time left is truncated.
RetryAfter_Truncated(rest) == LongerOf(1, rest \div TICKS)

\* Seconds to wait when "rest" ticks are left.
RetryAfter(rest) == LongerOf(1, (rest \div TICKS) + 1)

\* The scores the oldest is taken from: the caller's own if the set is empty by now.
Scores(c) == IF entries = {} THEN {caller[c].at} ELSE {caller[e].at : e \in entries}

RefuseRequest(c) ==
    /\ caller[c].pc = "refusing"
    /\ \E oldest \in Scores(c) :
          /\ \A score \in Scores(c) : oldest <= score
          /\ LET rest == oldest + WINDOW - caller[c].at
             IN caller' = [caller EXCEPT ![c].pc = "refused",
                                         ![c].until = clock + RetryAfter(rest) * TICKS]
    /\ UNCHANGED <<clock, entries, spent, limits, redis>>

AddRequest(c) ==
    /\ caller[c].pc = "counted"
    /\ entries' = entries \cup {c}
    /\ Move(c, "added")
    /\ UNCHANGED <<clock, spent, limits, redis>>

\* Mutant: the retry is due with the last second of the day.
SecondsUntilMidnight_Early(now) == LongerOf(1, DAY_SECONDS - 1 - (now % DAY) \div TICKS)

\* From the current second to 23:59:59, and one more.
SecondsUntilMidnight(now) ==
    LongerOf(1, (DAY_SECONDS - 1 - (now % DAY) \div TICKS) + 1)

\* A day without a counter is never exhausted, not even by a limit of 0.
OutOfTokens == spent > 0 /\ Exhausted(spent, limits.tpd)

CheckTokens(c) ==
    /\ caller[c].pc = "added"
    /\ \/ OutOfTokens
          /\ caller' = [caller EXCEPT ![c].pc = "out of tokens",
                ![c].until = clock + SecondsUntilMidnight(clock) * TICKS]
       \/ ~OutOfTokens /\ Move(c, "running")
    /\ UNCHANGED <<clock, entries, spent, limits, redis>>

\* RedisError: the request is allowed.
FailOpen(c) ==
    /\ redis = "flaky" /\ IsNext(c)
    /\ caller[c].pc \in {"new", "refusing", "counted", "added"}
    /\ Move(c, "running")
    /\ UNCHANGED <<clock, entries, spent, limits, redis>>
-----------------------------------------------------------------------------
(* record_tokens at the end of the turn; a turn may also end without it     *)

RecordUsage(c) ==
    /\ caller[c].pc = "running"
    /\ \E n \in 0..MaxTokens : spent' = spent + n
    /\ Move(c, "over")
    /\ UNCHANGED <<clock, entries, limits, redis>>

\* A new day has a new key.
PassTime ==
    /\ clock < Horizon
    /\ clock' = clock + 1
    /\ spent' = IF clock' % DAY = 0 THEN 0 ELSE spent
    /\ UNCHANGED <<entries, caller, limits, redis>>
-----------------------------------------------------------------------------
LimiterInit ==
    /\ clock = 0 /\ entries = {} /\ spent = 0
    /\ caller = [c \in Callers |-> [pc |-> "new", at |-> 0, until |-> 0, seen |-> {}]]
    /\ \E override \in Overrides, plan \in {"free", "pro"} :
          limits = EffectiveLimits(override, plan)
    /\ redis \in {"up", "flaky"}

LimiterNext ==
    \/ \E c \in Callers : CountRequests(c) \/ RefuseRequest(c) \/ AddRequest(c)
                          \/ CheckTokens(c) \/ FailOpen(c) \/ RecordUsage(c)
    \/ PassTime

LimiterSpec == LimiterInit /\ [][LimiterNext]_limiterVars
-----------------------------------------------------------------------------
LimiterTypeOK ==
    /\ clock \in Nat /\ spent \in Nat
    /\ entries \subseteq Callers
    /\ caller \in [Callers -> Caller]
    /\ limits \in [rpm : Nat, tpd : Nat]
    /\ redis \in {"up", "flaky"}

\* Admitted in the last WINDOW_SECONDS, by the score they carry.
Recent == {c \in In({"counted", "added", "running", "over"}) :
              caller[c].at > clock - WINDOW}

\* In no window are more requests admitted than the limit and those that were
\* counting at the same moment; none beyond the limit when only one counts at a
\* time (_check_requests: the count and the entry are two transactions).
WindowIsKept ==
    redis = "up" => Cardinality(Recent) <= limits.rpm - 1 + MaxCounting

\* The daily budget is overspent at most by the turns in flight, although each
\* turn is checked at its start and counted at its end; a budget of 0 works like
\* one of 1, because the first turns of a day are always let through
\* (_check_tokens, record_tokens).
BudgetIsKept ==
    redis = "up" => spent <= LongerOf(1, limits.tpd) - 1 + MaxTokens * MaxRunning

\* When a refused client comes back after the seconds it was told, the oldest
\* request that was counted or counting then has left the window: a retry that
\* keeps to retry_after is not refused for the same requests (_check_requests).
RetryMakesRoom ==
    limits.rpm > 0 => \A c \in In({"refused"}) :
        \E e \in caller[c].seen : caller[e].at <= caller[c].until - WINDOW

\* A client that is out of tokens is told to come back in the first second of the
\* next day, whose counter starts at zero (_seconds_until_midnight).
RetryNextDay ==
    [][\A c \in Callers : caller[c].pc = "added" /\ caller'[c].pc = "out of tokens" =>
          LET back == caller'[c].until
          IN back \div DAY = clock \div DAY + 1 /\ back % DAY < TICKS]_limiterVars

\* Both limits hold, but for what is in flight.
LimitsAreKept == WindowIsKept /\ BudgetIsKept
=============================================================================
