# Verification of saas-genai-starter

TLA+ models of the API in `apps/api`, the TLC runs that check them on small
instances, and TLAPS proofs of what matters most for every instance. Every
definition is a translation of the source; `PROJECT.json` maps each one to the
lines it stands for. Paths below are relative to the repository, and those
under `domains/`, `llm/` and `core/` to `apps/api/src/`.

    tlc -workers 2 -config tenants_serial.cfg MCTenants.tla    # one run
    tlapm TenantsProofs.tla                                    # one set of proofs

## 1. The system

A multi-tenant GenAI product: a FastAPI service over PostgreSQL, Redis and a
blob store, a background worker, Stripe, LLM and embedding providers, and a
Next.js client. Each API request has one SQLAlchemy session, hence one READ
COMMITTED transaction that is committed explicitly (`core/db.py`); no table has
a version column and no query takes a row lock. What several requests must
agree on is therefore at the mercy of statement interleavings.

| Component | State | Operations | Module |
|---|---|---|---|
| Members, invitations (`domains/tenants`) | tables `memberships`, `invitations` | change role, remove, invite, revoke, accept | `Tenants`, `MembershipRules` |
| Organizations (`domains/tenants`) | table `organizations` | create, lazily create the personal one, rename | `Organizations` |
| Tenant context, scoped repository (`core/tenancy.py`, `core/repository.py`) | every tenant-owned table | resolve `X-Org-Id`, filter and stamp every row | `Tenancy` |
| Documents and ingestion (`domains/documents`, `worker.py`, `core/queue.py`, `domains/jobs`) | tables `documents`, `document_chunks`; blobs; queued jobs | upload, delete, deliver, parse, embed, extract metadata, retry | `Ingestion`, `DocumentLifecycle` |
| Chunking (`documents/parsing.py`) | none | cut pages into overlapping windows | `Chunking` |
| Retrieval (`documents/retrieval.py`) | citations of a turn | nearest chunks of ready documents | `Retrieval` |
| LLM resilience (`llm/resilience.py`) | one breaker per cached provider | retry with backoff, trip, probe, close | `CircuitBreaker` |
| Provider adapters (`llm/*_provider.py`) | the parts of one answer | send, assemble text, tool calls and usage | `StreamReader` |
| LLM settings, provider cache (`domains/llm_settings`) | a row per organization; process-wide caches | update, resolve, evict | `LLMSettings`, `Catalog` |
| Rate limiter (`llm/rate_limit.py`) | Redis: sorted set per organization, token counter per day | check, record | `RateLimiter` |
| Chat turn and usage (`domains/chat`, `domains/usage`) | conversations, messages, `llm_usage` rows | stream a reply with tool rounds, record usage on every path | `ChatTurn` |
| Pricing, reports (`llm/pricing.py`, `domains/usage`) | price table, `llm_usage` | price a call, sum a range of days | `UsageBooks`, `Catalog` |
| Billing (`domains/billing`) | plan and Stripe ids on `organizations` | checkout, portal, webhook events | `Billing` |
| Authentication (`core/auth.py`) | cached key set | look up a key, refresh | `JwksCache` |
| Administration, configuration, mail, web client, evaluation, deployment | mostly none | reads, formats, wire protocols | not modelled |

How they interact: a chat turn asks the limiter, resolves a provider from the
settings, streams from it through the breaker, searches documents, and writes
messages and usage rows in one session; ingestion calls the same embedders and
the same usage service; billing, tenants and administration meet in the row of
`organizations`; everything else meets in the tenant id that the repository
filters by.

### Hard behaviours and what makes each component correct

- **Members.** Every rule (somebody may act, an owner remains, not yet a member,
  invitation unused) is checked in one statement and relied on at a later
  commit. Correct means: an owner always remains; the owner role spreads only
  from owners; nobody is a member uninvited or twice; an invitation admits once
  and never after its revocation.
- **Organizations.** Members come, go and change rank between the check of a
  request, what it reads later and its commit. Correct means: who is housed and
  has no first call in flight is given no personal organization; calls that
  overlap give no more than one each; a rename needs the rank when it is let in
  and the membership when it lists.
- **Isolation.** Members come and go between the check of a header and the query.
  Correct means: no request holds a row of an organization its user was not in,
  and rows stay where they were made.
- **Ingestion.** Jobs are delivered at least once, die at any point, time out,
  overlap and race with deletion; one helper commits in the middle of the
  pipeline. Correct means: search sees a document exactly when it is ready, with
  one complete set of chunks; nothing outlives its document; every document is
  settled in the end.
- **Breaker.** Calls that share a breaker switch at every await; answers arrive
  late, out of order or never. Correct means: open after the threshold and only
  then, one probe at a time, admitted again after the cooldown, calls end.
- **Billing.** Events are replayed and reordered, checkouts run in parallel,
  both write one row loaded earlier. Correct means: the plan agrees with the
  subscription once events stop, and is never given away.
- **Limiter.** Check and record are separate Redis transactions, Redis may fail
  open. Correct means: a bounded overshoot, and retry times that are true.
- **Chat turn.** The stream may lose its client, its provider or its transaction
  at any event. Correct means: a usage row for every provider call that was
  billed, a reply stored after its question or not at all.
- **Settings and caches.** Two updates validate against the same old row; a
  cached provider outlives the settings it was made from. Correct means: the
  stored pair is in the catalog, and a rotated key is not used again.
- **Keys.** Fetches overlap and their answers come in any order. Correct means:
  rotation refuses nobody and a retired key is forgotten in bounded time.
- **Chunks, streams, books.** Boundaries: windows and tails, cut streams,
  fractions of a microdollar, the last day of a range.

`PROJECT.json` lists the hazards one by one, at the line where each bites.

## 2. What is modelled

### `Tenants` and `MembershipRules` (`domains/tenants`)

`members` and `invitations` are the committed rows of the two tables;
organizations share no row, so there is one. `req[p]` is request `p` between two
statements, with exactly the rows the service holds in its local variables. A
SELECT is a step that sees what is committed; the writes of a request appear
together at its commit. Three facts of SQLAlchemy are part of the model, because
the outcome of races depends on them: a row loaded twice by a session keeps its
first version (`AsLoaded`); an assignment that changes nothing emits no UPDATE,
and one whose row is gone changes nothing (`SetRole`); an INSERT can fail on
`UniqueConstraint("organization_id", "user_id")` only (`InsertAllowed`). Rows
have ids that are never reused, so a demotion of a removed and readmitted user
hits nothing. `Rollback` ends a request at any point. `uses` and `everOwner` are
history variables the properties speak of; no action reads them.

`MembershipRules` is what the users of an organization are promised: one role each, the
invitations as they see them (open, used, revoked), and five operations that are one
step and whose condition is true at that step. `Rules` in `Tenants` maps to it: a user's
role is that of their row, or "none" (`RolesNow`); an invitation is seen without its
expiry (`LettersNow`). A request is one step of the rules when it commits and a stutter
before. `ActsAtOnce` says that, and that an owner's role is taken by the request of an
owner (`OwnersAnswerToOwners`), which the rules, that have no requests, cannot say:
dropping a check breaks the first half (`DemotesOwner_Never`, `MayAccept_Again`), a
removal among owners only the second (`MayRemove_Peer`).

### `Organizations` (`domains/tenants`)

Users, organizations and memberships, and which of these have the rank of an
admin. `ListOrganizations` and `CreatePersonal` are the two halves of the lazy
creation: the SELECT that finds no organization, and the commit of the new one.
A rename is cut at its statements. `BeginRename` reads the membership and
requires the rank; `ListNone` and `ListRenamed` are the SELECT of the user's
organizations that follows the flush of the new name, and its repetition when a
personal organization had to be made; `next()` may raise on its result;
`CommitRename` commits. Joining, leaving and changes of rank, which are commits
of other requests (`Tenants` has their own rules), happen between any two of
these, since no query locks a membership. `left` and `renamed` are history.

### `Tenancy` (`core/tenancy.py`, `core/repository.py`)

Memberships and the rows of tenant-owned tables by id. `Enter` is
`get_current_tenant`; `GetItem`, `AddItem`, `DeleteItem` the scoped repository.
`member` records whether the user was one when the request came in.

### `CircuitBreaker` (`llm/resilience.py`)

asyncio switches tasks at an await, so a step is what a call does from one await
to the next. `failures`, `opened`, `probing` are the breaker's fields (the count
saturates at the threshold, which is all the code compares it with), `cooldown`
the rest of `recovery_seconds`. A call is `waiting` for the provider, `asleep`
in its backoff or `streaming`; `complete` and `stream` differ as in the code
(sleep after the last attempt or not; what is reported). `probe` marks the call
that was let through half-open. Backoff lengths are abstracted: a sleeper wakes
at any moment. The outcomes of the provider are those of `llm/errors.py` plus
`cancelled`, which stands for every exit the `except LLMError` does not see.
`MCCircuitBreaker` adds a regime fixed at the start: either every call ends with an
outcome the breaker is told of, or all outcomes happen among fewer calls.

### `Ingestion` and `DocumentLifecycle` (`domains/documents`, `worker.py`, `core/queue.py`)

One document with its blob, its job and the runs of the job; documents share
none of these. `upload` and `delete` are the two API requests, cut at every point
where something outside the database changes; `run[r]` is the r-th delivery, cut
at its transactions and awaits. `doomed` is what `delete_for_document` selected
when it ran. `Fail` is the exception handler of `ingest_document`, `Raise` what
`worker.py` makes of the exception, `Resolve` what `run_ingest_job` does before it
calls `ingest_document`: it catches `ProviderNotConfigured` only, and the exceptions of
`decrypt_secret` (`core/crypto.py`) pass it by. `Extract` is the metadata completion
whose failure commits the session. `"done"` is a run that has returned and whose
acknowledgement may still be lost. What may go wrong outside the code is
`faults`, one of the constant `Regimes` in each behaviour. The ARQ worker and the Cloud Tasks endpoint share the model:
both try `MaxTries` times; only the former has the `"timeout"` fault.

`DocumentLifecycle` is the abstract promise behind it: a status and the number of
copies in the index, without requests, blobs, queue or runs.
`Ingestion!KeepsLifecycle` is the refinement (`status <- doc`,
`copies <- Cardinality(chunks)`).

### `Billing` (`domains/billing`)

The billing columns of one organization, checkouts and webhook requests in
flight, and Stripe as external state: customers, sessions and subscriptions, a
log of events it delivers at least once. A checkout loads the row, waits for
Stripe twice and commits; `Written` is SQLAlchemy's UPDATE, which names only the
columns that differ from the loaded ones. `Target` is the state an event's
handler writes. `regime` says whether events come in the order of the log and
whether requests of one kind overlap; Stripe promises neither, so each property
says which of them it needs.

### `ChatTurn` (`domains/chat`, `domains/usage`)

Turns of one conversation. A turn has one session, which commits after the user
message, when a stream fails or is closed, and after the reply; `flushed` is what
the session holds in between. A call is a triple of turn, round and number: the
stream of a round, or an embedding its searches asked for. `EndStream` flushes
its row, `StreamFails` commits at once, `SearchFails` and `Cancelled` lose what was
flushed, because no handler of the turn commits: `CancelledError` and the
`GeneratorExit` at a tool event are no `Exception`. `ClientGone` has two outcomes,
since the generator and the session's dependency may be closed in either order.
`SaveReply` to `CommitReply` hold the foreign key's lock on the conversation, so
that `Delete` waits. What may go wrong is `faults`, fixed at the start.

### `RateLimiter` (`llm/rate_limit.py`)

`entries` is the sorted set, `caller[c].at` the score a request took at its start,
`spent` the counter of the day. Count and entry are two steps, as are the count
and the reading of the oldest score for a refusal. Time passes in ticks smaller
than a second, because `retry_after` truncates. `limits` are derived from an
administrator's override, the plan and the settings (`effective_limits`), a limit
of 0 included. `redis = "flaky"` lets any call fail, and the request through.

### `LLMSettings` and `Catalog` (`domains/llm_settings`, `llm/catalog.py`, `llm/pricing.py`)

Rows as functions on their columns; an update loads, validates and commits later
with the columns that differ. A key that is given is always written, since its
cipher text is new each time. `Resolve` is the lookup in the process-wide cache
by provider, model and key, and its eviction. Keys are model values, fingerprints
the keys themselves: SHA-256 prefixes are taken not to collide. `Catalog` holds
the repository's tables of providers, models and prices as they are.

### `JwksCache` (`core/auth.py`)

Requests that look up a key, each with a fetch of its own; the auth service
publishes and retires keys. `body` is an answer on its way, with the keys that
were published when it was made. A fetch takes at most its timeout. `hidden` and
`acceptedNow` are history the properties speak of.

### `Chunking`, `StreamReader`, `UsageBooks`, `Retrieval`

`Chunking` is `chunk_pages`, one step per turn of its inner loop; a chunk is a
sequence of half-open spans of words, so that lost and repeated words can be told
apart. `StreamReader` is `OpenAIProvider.stream`: a provider sends the pieces of an
answer, interleaved over its tool calls, then the finish reason, the usage and
`[DONE]`, and the connection may break, or be closed in good order, anywhere. An
answer that gets too long has one call cut short: `meant` is what the model would
have said, and only all of it parses.
`UsageBooks` prices calls with the real table (`cost_for` with its rounding to
microdollars, half to even) and sums them over ranges of days. `Retrieval` is a
turn's searches, each an embedding and a query later, beside ingestion and
deletion of the documents, and the citations collected from them.

### `MCServices`

The last nine components share no state, so they are checked in one run, one
after the other: `component` says which one moves, and the others keep one initial
state. Users, key ids and organizations share their two values, as do requests,
verifiers and editors: so one symmetry set covers them. It is sound, since no
definition tells the values of either pair apart and no property of the run speaks
of liveness.

## 3. What TLC checks

| Run | Instance | Shows |
|---|---|---|
| `tenants_serial` | 3 users, 1 request at a time, 2 invitations, 3 inserts | `AtLeastOneOwner`, `MembershipJustified`, `InvitationsHold` (`SingleUse`, `RevokedAdmitsNobody`), and `ActsAtOnce` (the refinement `Rules!Spec`, `OwnersAnswerToOwners`) hold without concurrency |
| `tenants_concurrent` | 2 users, 2 requests, 1 invitation, 2 inserts | what survives every interleaving: `TablesOK` (`UniqueMember`), `SettledForGood`, `OwnersComeFromOwners`, `OwnerlessIsForever` |
| `tenants_last_owner_race` | the same | **violation** of `AtLeastOneOwner` |
| `breaker` | 3 attempts, threshold 2, recovery 2 ticks; 3 calls with reported outcomes or 2 with all | `BreakerOK` (`OpenMeansTripped`), `ProbeIsAlone`; `ReportedRecovery`: an idle breaker admits a probe if outcomes are reported; `EveryCallReturns`, `CooldownEnds` |
| `breaker_leaked_probe` | 2 calls, 429s | **violation** of `RecoveryAdmits` |
| `ingestion` | 3 tries; processes that die, every fault but overlapping runs, or every fault | `IndexOK` (`ReadyHasChunks`, `ChunksHaveDocument`, `BlobUntilDelete`), `NeverEmptied`; without overlapping runs the refinement `KeepsLifecycle`, whose lifecycle has one copy at most; where only processes die, `SettlesForGood` |
| `ingestion_dead_letter` | 3 tries, keys that cannot be decrypted | **violation** of `GivenUpIsMarked` |
| `billing` | 2 requests, 2 customers, 2 sessions, 3 events, every regime | `RowIsConsistent` (`PlanMatchesStatus`, `PortalReaches`), `ProWasPaid`, `PlanOnlyByEvents`; in order, `Converges` |
| `billing_any_order` | 1 subscription, 3 events in any order | **violation** of `QuietMeansCurrent` |
| `chat_turn` | 2 turns, 4 rounds, 1 search per round; failing streams one turn at a time, or every fault | `ConversationKept` (`QuestionKept`, `NothingAfterDelete`), `BooksAreKept` (`RepliedMeansRecorded`, `InterruptedIsRecorded`, `RepliesAreCounted`), `NamedOnce`, `TurnsEnd` |
| `chat_lost_usage` | 1 turn whose embedder fails | **violation** of `EveryCallRecorded` |
| `services` | nine components, see below | their properties |

A property with others in parentheses is their conjunction, with the module's type
invariant where it has one.

In `services`, by component:

| Component | Instance | Properties |
|---|---|---|
| limiter | 3 requests, windows and days of 2 seconds of 2 ticks, limits 1 and 2, overrides 0 and 1 | `LimitsAreKept` (`WindowIsKept`, `BudgetIsKept`), `RetryMakesRoom`, `RetryNextDay` |
| keys | 2 requests, 2 keys, 4 seconds | `RetiredIsForgotten`, `CurrentIsAccepted` |
| settings | 2 organizations, 2 editors, 2 chat providers of the catalog, cache of 1 | `PairInCatalog`, `ServedAsConfigured`, `KeysChangeByName` |
| orgs | 2 users, 2 requests, 2 organizations | `MembershipDecides` (`HousedForGood`, `OnePerCall`, `RenamedByAdmin`, `RenamedByMember`) |
| tenancy | 2 users, 2 requests, 2 organizations, 1 row | `TenantsApart` (`NothingForeign`, `RowsStayPut`) |
| chunks | windows of 4 words that overlap by 2, all documents of up to 3 pages of 0 to 9 words | `ChunksAreSound` (`EveryWordKept`, `CitedPage`, `NoFragments`, `NoWordTwice`) |
| stream | 2 tool calls of up to 2 pieces, every finish reason, a call cut short by the length | `AnswerIsWhole` (`ToolsAreWhole`, `CompleteIsMetered`) |
| books | the whole catalog and price table, 2 calls, 2 days | `BooksAddUp` (`BooksAreClose`, `OfferedIsPriced`, `DaysAddUp`) |
| library | 3 documents, one of another tenant, 5 passages, 2 searches of 2 rows | `SearchesHold` (`HitsAreReady`, `SourcesAreCited`) |

Each property of a passing run has a mutant, an operator `<definition>_<what is
wrong>` placed before the definition it replaces, under which TLC finds the
property violated.

**Bounds.** Two requests are what every race of `Tenants` needs: a check of one
and a commit of the other. Two users exhaust the roles of actor and target;
`tenants_serial` has a third for an owner, an admin and a member at once. `MaxRows`
bounds the inserts, so a user can leave and be admitted again. Two calls give a
breaker's probe and a late answer; the third reopens it in between. `MaxTries = 3`
is the code's value, as is `MAX_TOOL_ROUNDS = 4`. Three Stripe events are a payment,
a change and an end, or a change and its reversal; two customers are what two
checkouts can create. The limiter's window and day are two seconds long, enough
for a request to leave the one and for the other to end while turns run; the
`MaxCounting` and `MaxRunning` of two make its overshoot happen. A time to live of
one second and a fetch of one second let a late answer replace a newer set. Pages
of up to nine words give three windows and every length of tail.

`CHECK_DEADLOCK FALSE` is set where the system does stop: an organization all
members of which left, a job that is done, a bound on events or time that is
reached.

**Fairness.** `breaker` assumes that time passes and that each call that waits or
sleeps goes on: every adapter sends its requests with a timeout, and asyncio
resumes a task whose future is done. Nothing is assumed of new calls. `Ingestion`
assumes that an upload request goes on, that the queue delivers what it holds, and
that a live run takes its next step; no fairness for a deletion or for faults.
`ChatTurn` assumes that a turn that was opened takes its next step, for the same
reason as the breaker's calls. In these, weak fairness is enough, since nothing
disables the steps for long. `Billing` assumes weak fairness of receiving events,
because Stripe repeats what is not acknowledged, and strong fairness of applying
them: a delivery may be killed between the two, but not every time.

### Disagreements found

With a run each:

1. `_ensure_not_last_owner` ("An organization must keep at least one owner",
   `domains/tenants/service.py:210`): two owners who leave, or demote each other,
   at the same time both see the other (`tenants_last_owner_race`).
   `OwnerlessIsForever` says that no API call repairs it.
2. A half-open probe that gets a 429 (or is cancelled) is never reported, and the
   breaker refuses every later call (`breaker_leaked_probe`), against
   `llm/resilience.py:38` and `README.md:49-50`.
3. "Replayed or out-of-order webhook deliveries converge"
   (`domains/billing/service.py:134-136`): an update that arrives after the deletion
   makes the organization pro again for good (`billing_any_order`). In order, and with
   one live subscription, `Converges` holds.
4. "Every one of them leaves an `llm_usage` row" (`domains/usage/service.py:28`): a
   search whose embedding fails rolls back the rows of the rounds before it
   (`chat_lost_usage`); so does a client that is gone at a tool event, and a
   cancellation. `InterruptedIsRecorded` holds for failing streams.
5. "`run_ingest_job` already marked the document failed" (`worker.py:33`), and "permanent
   configuration errors mark the document failed" (`documents/jobs.py:3`): a stored key
   that cannot be decrypted, because `SECRET_ENCRYPTION_KEY` was changed or removed,
   raises outside of every handler that does so. The job is tried three times and given
   up, and the document is still `uploaded` (`ingestion_dead_letter`).

Without a run of their own; TLC shows each when the named property is added to the
configuration of a passing run:

6. A "single-use" invitation (`domains/tenants/service.py:126`, `router.py:166`) is used
   twice by two acceptances in flight with a removal between their commits: `INVARIANT
   SingleUse` in `tenants_concurrent.cfg`. `SettledForGood` bounds the damage to
   acceptances that were in flight.
7. "Exactly one probe" (`llm/resilience.py:61`): a late failure of an older call frees
   the slot while the probe waits: `INVARIANT OneProbe` in `breaker.cfg`.
8. "Idempotent: re-running replaces chunks" (`ingestion.py:51`, `worker.py:6-7`) is not
   so for deliveries that overlap, which both insert a full set: `INVARIANT
   OneChunkSet` in `ingestion.cfg`.
9. "Failed docs end in `failed`" (`tech-steps.md:213`): a run that `job_timeout` cancels
   or that dies on the last try leaves its document in `processing`: `PROPERTY Settles`
   in `ingestion.cfg`.

Properties that hold under a premise, of which the model shows that they fail without:

10. "Name the conversation after the first message, once"
    (`domains/chat/service.py:72`): two turns that both loaded the default title both
    name it, and the later message stays. `NamedOnce` excludes turns that overlap.
11. "Validated on write" (`domains/llm_settings/router.py:25`): two updates that overlap,
    one of the provider and one of the model, each valid with the row it read, store a
    pair that nobody validated. `PairInCatalog` excludes updates that overlap.
12. Two checkouts that overlap create two customers (`domains/billing/service.py:71`) and
    the row names one at a time: the events of a subscription of the other find no
    organization, and the portal does not show it. `RowIsConsistent` excludes checkouts
    that overlap.
13. "Same outcome as a signup hook" (`domains/tenants/service.py:39`): first calls that
    overlap, as those of a page that loads, create a personal organization each.
    `OnePerCall` says that there are no more.
14. A rename is committed for a user who lost the rank after it was read, or was removed
    after the list was made: `RenamedByAdmin` and `RenamedByMember` say that these are
    the only ones.
15. An answer that reaches its length in the middle of a tool call's arguments raises
    `JSONDecodeError` in `OpenAIProvider.stream`, which is no `LLMError`
    (`llm/openai_provider.py:254`): the turn ends with no error event. `ToolsAreWhole`
    says that no tool runs with what there was.

Read off the code, without a property: `README.md:192-193` says that only real failures feed the breaker,
while `record_failure` is called for malformed requests too; `Rejected` models the code. The row of
an interrupted stream has the model "unknown" and so costs nothing
(`domains/usage/service.py:139`), and so has one whose provider answers with the name of
a snapshot that is not in the price table (`llm/openai_provider.py:190`).
`apps/web/lib/api/auth-token.ts:31` has no caller: after a change of user in one page the
old token is sent until it expires.

## 4. What is proved

For every value of the constants that satisfies the modules' named assumptions: every
safety property of a passing run, whether invariant or action property, is a theorem.
The parts of a property are proved one by one; a last theorem joins them to the property
the run checks: `TablesHold`, `SerialInvitations`, `BreakerHolds`, `IndexHolds`,
`RowsAreConsistent`, `ConversationsAreKept`, `TurnsAreBooked`, `BothLimitsHold`,
`ChunksHold`.

**`TenantsProofs`.** `TypeCorrect` from `Typing` (types, and that a request that will
write an invitation names one that exists, addressed to it). `OwnersOnlyFromOwners`
from `Ownership`: the actor of a request that could grant the role has been an owner;
`OwnersComeFromOwners` is not inductive without it, because the grant happens two
steps after the check. `OwnerlessStays` uses both. `MembershipInvariant` and
`UniqueRows` need that row ids are below `nextId`, that no two rows share a user,
and that accepted invitations stay accepted. `SettledStays` shows that whoever is
admitted by a settled invitation had read it while it was in force. `SerialOwner`,
`SerialSingleUse` and `SerialRevoked` assume that no two requests overlap: what a
request has read is then still so. So does `SerialOwnersAnswer`, which needs that the
role and the rule an actor was checked against are still those of the commit
(`AuthorizedAlways`). Together with disagreements 1 and 6 they show
that concurrency is the only way to lose these rules.

`SerialActsAtOnce` proves the refinement of `MembershipRules` under the same assumption.
Its invariant joins what the others found: the rows a request holds are the committed
ones (`SerialInv`), the rule it was checked against still applies (`AllAuthorized`), the
actor may still administer, the invited address is no member's and the invitation to be
revoked is open (`LookedUp`), and so is one that is being accepted (`SingleInv`). Each
commit is then one operation of the rules (`UpdateIsChangeRole`, ... `AcceptIsAccept`), of
which one user's role (`OneRoleMoves`) or one letter changes.

**`CircuitBreakerProofs`.** `BreakerCorrect` and `BreakerTypes` (types and
`OpenMeansTripped`, inductive together), `ProbeAlone` (an action property from them),
and `ReportedProbes`: under the assumption that every outcome is reported,
`RecoveryAdmits` follows from "the flag is up only while some call waits"; the leak
of disagreement 2 is exactly the failure of that assumption. `ReportedRecovers` says the
same of the regime the run explores, with `PairAssumption` that its smaller set of
calls is one of calls; `RegimesAreBehaviours` that its behaviours are the breaker's.

**`IngestionProofs`.** `IndexConsistent`, `ChunksAreOwned`, `BlobIsThere`, `TypeCorrect`
and `NeverEmptiedTheorem`, with every fault allowed. The invariant adds that nothing is
queued before the upload is committed, and that a run whose chunks were committed
early still finds chunks when it announces the document. All steps of a run are first
shown to have one common shape (`RunStep`), which keeps the invariant.

`LifecycleKept` proves the refinement: in a behaviour in which the queue never delivers
again during a run, `DocumentLifecycle` is implemented, whatever crashes, dies, times out
or cannot be decrypted. The
invariant `Undisturbed` says that deliveries are consumed one at a time, so that what
a run has read (the status it saw, the chunks it will replace, `processing` while it
works) is still so, or the document is deleted. `ChunksReplaced` follows from it. The
assumption is needed: disagreement 8.

**`BillingProofs`.** `PlansMatch`, `PortalsReach`, `ProIsPaid`, `EventsDecide` and `Types`,
for any numbers of requests, subscriptions and events. `PlanMatchesStatus` is not
inductive: an UPDATE names the columns that changed, so the proof needs that a webhook
request which runs alone finds plan, status and subscription as it loaded them
(`WebhookAlone`), although checkouts commit meanwhile; and `PortalReaches` the same of
the customer (`CheckoutAlone`).

**`ChatTurnProofs`.** `RepliesArePaid`, `FailuresArePaid`, `QuestionsAreKept`, `DeletedIsEmpty`,
`StoredIsCounted` and `TurnTypes`, for any number of turns, rounds and searches. The
invariant keeps the books of each turn: a call has a committed row, or one flushed in
its session, or is the stream the turn is busy with (`Accounted`); and what the
conversation holds of a turn fits its progress (`Conversed`). `NamesStay` needs that a
turn which runs alone has loaded the title there is (`OneTurn`).

**`RateLimiterProofs`.** `RequestsAreLimited`, `TokensAreLimited` and `RetriesMakeRoom`, for
any limits, windows and numbers of requests. The first needs that the sorted set holds
every request admitted in this window (`Entered`), the second that what is spent and
what the turns in flight may spend stay below the bound (`Budgeted`), the third that
the entries a refused request was counted against are still there, or are as old as
those it was told to wait for. `RetriesNextDay` is arithmetic: the seconds to midnight
are rounded to whole ones, and a clock that ticks finer must not end up a day later.

**`AccessProofs`.** Keys, organizations, isolation and settings.
`RetiredKeysAreForgotten` and `CurrentKeysAreAccepted`, for any times and numbers of
requests: a set is as old as the fetch that brought it, and the invariant relates the
start of every fetch, and of the one the cached set came from, to the retirement of the
keys in it. `MembersHaveTheSay`, for any users, organizations and requests: each move of
a request is justified by what it was before or by the memberships of that moment
(`Justified`, `AskSteps`), so that the requests in flight gain none that is not
(`NewcomersAreJustified`). `OnePerCall` is a count and needs that the personal
organizations of a user nobody removed are the user's (`PersonalIsTheirs`): whoever is
found in none has none yet, and an organization that is made takes the place of the call
that made it. `TenantsStayApart`, with any rows: what a request holds belongs to the
organization it entered.
`PairsAreInCatalog`, `ObjectsAsConfigured` and `KeysByName`, for any catalog,
payloads and cache size: the changes an update is about to write complete the row it
read to the one that was validated (`StillValid`, without overlap) and name no key the
payload does not (`NamesItsKeys`, with it). `LLMSettingsAssumption` asks of the catalog
what its literals satisfy, a default model that is on offer and defaults that are valid.

**`ServicesProofs`.** Its first part is about the folds of the community modules, which
sum a function or thread a value through the elements of a finite set with a recursive
function over the subsets. That such a function exists is proved first (`TableExists`),
by the least number of elements for which it would not; from that, a sum is the value
at any element plus the sum of the rest (`SumWithout`) and splits over disjoint sets
(`SumOfUnion`). The other parts:

- *Chunks.* `WordsKept`, `PagesCited`, `FragmentsMerged` and `WordsOnce`, for any document,
  assuming `MIN_CHUNK_WORDS <= OVERLAP_WORDS < TARGET_WORDS`, which the code's 20, 48 and
  380 satisfy. A window that starts inside a page leaves more than `OVERLAP_WORDS` words
  (`LongRest`), so a tail that is merged starts its page, which has no span yet
  (`SpansBehind`).
- *Streams.* `AnswersAreWhole`, for any number of calls and pieces: each accumulator holds
  the pieces of its call sent so far, in order (`Gathered`), and the finish reason and the
  usage are heard in that order (`InOrder`). An answer that asks for tools is not cut
  short by its provider, and the stop reason that makes the agent run them is heard
  after the last piece.
- *Books.* `BooksAreRight`, for any number of rows and days, with the real price table:
  each row is off by half a microdollar at most (`QuantizedIsClose`), so the sum of n rows
  by n halves; a range of days selects the rows of each of its days whole (`DayFacts`),
  and the rows of a day split by model (`SumOfParts`).
- *Searches.* `SearchesAreSound`, for any finite set of passages, whatever the index leaves
  out: citing one row keeps every source once (`CiteKeeps`), hence so does a fold over
  the rows (`RowsAreCited`).
- *Composition.* `EachOnItsOwn`: a behaviour of `MCServices` is one of each of the nine
  components, whose theorems so hold of it; `ServicesTyped` is drawn from it.

Only model-checked: what holds under fairness (`EveryCallReturns`, `CooldownEnds`,
`SettlesForGood`, `Converges`, `TurnsEnd`), since liveness is out of the prover's reach.
`MembershipJustified` is checked without concurrency, where three users fit, and proved
with it.

## 5. Plan

Done, in this order: members, breaker, ingestion with its lifecycle; billing, chat
turn, rate limiter, settings and cache, organizations, isolation, key cache,
chunking, stream assembly, usage books, retrieval. What would come next:

1. An abstract account of billed calls that `ChatTurn` implements when streams are all
   that fails, as `DocumentLifecycle` is for `Ingestion`.
2. A composition of `Ingestion` and `CircuitBreaker`: embedding calls that fail open
   while the job's tries run out.
3. The web client's token cache and the races of its views with switching
   organizations.

## 6. Not modelled

- **Provider adapters** other than the OpenAI stream: one request each, and a mapping
  of fields; Anthropic's SDK assembles its own stream.
- **Token verification**: signature, audience and expiry are the JWT library's.
- **Retrieval's ranking**: distances and the approximate index are the database's. That
  vectors of another embedding model stay in the index after a switch of provider
  (`domains/llm_settings/service.py:58`) is outside the model; no operation re-embeds.
  Nor does it say how many rows the index leaves out when it ranks before it filters.
- **Parsing** of PDF and text, encryption, mail, logging, telemetry, configuration,
  presentation: no protocol of their own, or pure I/O.
- **Platform administration**: reads, and one write of two limits that `RateLimiter`
  takes as given.
- **The web client, evaluation, deployment**: outside the API; what they show of the
  queue (`cloud-tasks-queue/main.tf`) is in `Ingestion`.

The provider, the queue, the storage, Redis, Stripe, the auth service and the database
are external and modelled from how the code uses them. Most models have one
organization; that its rows are out of reach of the others is what `NothingForeign`
and `RowsStayPut` of `Tenancy` say.
