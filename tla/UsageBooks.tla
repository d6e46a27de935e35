----------------------------- MODULE UsageBooks ------------------------------
(***************************************************************************)
(* What calls cost and what the dashboard reports: cost_for                *)
(* (llm/pricing.py), the date range and the sums of domains/usage.  A row  *)
(* holds its time, in half days, and its cost in microdollars.             *)
(***************************************************************************)
EXTENDS Integers, Sequences, Functions, Catalog

CONSTANTS Usages,       \* token counts of calls: records like Price
          MaxRows,      \* bound: calls
          LastHalfDay   \* bound: time

ASSUME UsageBooksAssumption ==
    /\ Usages \subseteq [input : Nat, output : Nat, read : Nat, write : Nat]
    /\ MaxRows \in Nat /\ LastHalfDay \in Nat

VARIABLES books,        \* llm_usage
          halfDay

booksVars == <<books, halfDay>>
-----------------------------------------------------------------------------
(* cost_for                                                                 *)

ChatModels == UNION {CHAT_CATALOG[p].models : p \in DOMAIN CHAT_CATALOG}
EmbeddingModels == {EMBEDDING_CATALOG[p].model : p \in DOMAIN EMBEDDING_CATALOG}

Priced == DOMAIN PRICING

\* In nanodollars; an unknown model costs nothing.
ExactCost(model, usage) ==
    IF model \notin Priced THEN 0
    ELSE LET price == PRICING[model]
         IN usage.input * price.input + usage.output * price.output
            + usage.read * price.read + usage.write * price.write

\* quantize rounds to the nearest microdollar, and a half to the even one.
Quantized(nano) ==
    LET micro == nano \div 1000
        rest == nano % 1000
    IN IF rest > 500 \/ (rest = 500 /\ micro % 2 = 1) THEN micro + 1 ELSE micro
-----------------------------------------------------------------------------
Row(model, usage) ==
    [at |-> halfDay, model |-> model, usage |-> usage,
     cost |-> Quantized(ExactCost(model, usage))]

\* An embedding has input tokens only.
RecordCall ==
    /\ Len(books) < MaxRows
    /\ \E model \in ChatModels \cup EmbeddingModels, usage \in Usages :
          /\ model \in EmbeddingModels => usage.output + usage.read + usage.write = 0
          /\ books' = Append(books, Row(model, usage))
    /\ UNCHANGED halfDay

TimeGoesOn ==
    /\ halfDay < LastHalfDay
    /\ halfDay' = halfDay + 1
    /\ UNCHANGED books

BooksInit == books = <<>> /\ halfDay = 0
BooksNext == RecordCall \/ TimeGoesOn
BooksSpec == BooksInit /\ [][BooksNext]_booksVars
-----------------------------------------------------------------------------
(* The reports                                                              *)

Midnight(day) == 2 * day
DayOf(time) == time \div 2
Days == 0..DayOf(LastHalfDay)

\* Mutant: the last day of a range ends when it begins.
RangeEnd_Short(end) == Midnight(end)

\* resolve_range: from the first midnight to the one after the last day.
RangeEnd(end) == Midnight(end + 1)

InRange(start, end) ==
    {i \in DOMAIN books : Midnight(start) <= books[i].at /\ books[i].at < RangeEnd(end)}

CostOf(S) == SumFunction([i \in S |-> books[i].cost])

\* total_cost
TotalCost(start, end) == CostOf(InRange(start, end))

\* daily_costs: the rows of a range by day and model.
DailyCosts(start, end) ==
    {[day |-> DayOf(books[i].at), model |-> books[i].model,
      cost |-> CostOf({j \in InRange(start, end) :
                          /\ DayOf(books[j].at) = DayOf(books[i].at)
                          /\ books[j].model = books[i].model})]
        : i \in InRange(start, end)}
-----------------------------------------------------------------------------
BooksTypeOK ==
    /\ halfDay \in 0..LastHalfDay
    /\ Len(books) <= MaxRows
    /\ \A i \in DOMAIN books : books[i].cost \in Nat /\ books[i].at \in 0..halfDay

\* The books are never off by more than half a microdollar per call, however many
\* calls of a few tokens each cost less than that (cost_for's quantize).
BooksAreClose ==
    LET exact == SumFunction([i \in DOMAIN books |->
                                 ExactCost(books[i].model, books[i].usage)])
        off == 1000 * CostOf(DOMAIN books) - exact
    IN 2 * off <= 1000 * Len(books) /\ -1000 * Len(books) <= 2 * off

\* Whatever an organization can pick has a price, openrouter's models excepted:
\* "usage for models without a pricing entry is recorded at $0" (catalog.py), and
\* a model that is added to the catalog alone would be free without anybody
\* noticing.
OfferedIsPriced ==
    \A i \in DOMAIN books :
        LET row == books[i]
        IN row.model \notin CHAT_CATALOG.openrouter.models /\ row.usage.input > 0 =>
              ExactCost(row.model, row.usage) > 0

\* The daily report and the total speak of the same rows: what the days of any
\* range add up to is what a report of each day alone says, calls in the last
\* hours of a range included (resolve_range, daily_costs, total_cost).
DaysAddUp ==
    \A start, end \in Days : start <= end =>
        \A day \in start..end :
            SumFunction([entry \in {e \in DailyCosts(start, end) : e.day = day}
                             |-> entry.cost])
            = TotalCost(day, day)

\* The books are right, call by call and day by day.
BooksAddUp == BooksAreClose /\ OfferedIsPriced /\ DaysAddUp
=============================================================================
