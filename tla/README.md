# TLA+ verification of the LLM security audit gateway

The gateway proxies OpenAI-style requests to configured upstreams, audits both
directions with rules and policies, and writes an audit trail to PostgreSQL,
Kafka and ClickHouse. This directory models its concurrent and fault-tolerant
parts in TLA+, checks them with TLC on small instances, and proves the central
safety properties with TLAPS for every value of the constants.
`PROJECT.json` is the index: components, runs, mutants, the lines that every
definition models, findings, hazards and theorems.

## The system and its parts

| Part | Source | Module | What can go wrong there |
|---|---|---|---|
| audit pipeline | `internal/events` (Pipeline), health probe | `AuditQueue` | producers, the worker and `Close` share tokens, a channel and flags |
| outbox and dispatcher | `internal/events` (Dispatcher), `storage/postgres.go`, `retention.go` | `Outbox`, `OutboxPromise` | several gateways claim the same rows; crashes, leases, outages, retention |
| audit consumer | `internal/consumer`, `cmd/audit-consumer` | `Consumer` | offsets against two destinations, retries, cancellation |
| upstreams and gateway keys | `storage/admin_upstreams.go`, `postgres.go`, finalizer in `cmd/gateway` | `UpstreamLifecycle` | creation and update race deletion and purge |
| request handler and exchange | `httpapi/handler.go`, `proxy`, `stream` | `StreamExchange` | a handler, a goroutine, a one-slot channel, a pipe, timeouts, shadow audits |
| inspection and rule engine | `stream/sse.go` (windows), `rule/engine.go`, `normalize` | `Inspection`, `RuleEngine` | text cut into events and fragments, overlapping patterns, a window too short |
| rule publication | `storage/postgres.go`, `httpapi/admin.go` | `RulePublication` | overlapping READ COMMITTED transactions |
| rule snapshots | `rule/registry.go`, `rule/cache.go`, `refreshSnapshots` | `RuleSnapshots` | reads installed late and out of order, lost messages, tenants resolved lazily |
| policies | `internal/policy`, `postgres.go` | `PolicyDecision`, `Policies` | defaults and thresholds at their edges, precedence, order of matches |
| policy snapshots | `policy.go`, `notifier.go`, probes | `PolicySnapshots` | load-then-store against concurrent refreshes |
| model auditor circuit breaker | `audit/circuit.go` | `CircuitBreaker` | slots and counters shared by overlapping calls |
| schema migrations | `storage/migrations.go` | `Migrations` | processes of several releases start at once, and fail half-way |
| master key at startup | `crypto/crypto.go`, `cmd/gateway/main.go` | `KeyBoot` | creation, check and removal of a shared file |
| start of a gateway, seed command | `cmd/gateway/main.go`, `storage/postgres.go` | `Startup` | seeds and gateways race for the first configuration |
| administrator accounts and sessions | `httpapi/admin.go`, `storage/admin_upstreams.go` | `AdminSessions` | sign-in, setup and password change are several statements each |
| login guard and throttle | `httpapi/login_guard.go`, `auth_throttle.go` | `LoginGuard` | failures counted by requests that passed the guard before it locked |
| rate limiting | `ratelimit/redis.go` | `RateLimit` | clocks that differ, lost answers, an expiring key, failover |

Three chains of EXTENDS compose components that run together:

* `PolicyDecision` → `RuleEngine` → `Inspection` → `StreamExchange`: one exchange,
  decided by the rules, the score and the default policy, and
  `PolicyDecision` → `Policies` → `PolicySnapshots`: the table behind it (`Texts` has
  the few operators on sequences that these modules share);
* `Migrations` → `KeyBoot` → `Startup`: everything `main` does until it serves;
* `RulePublication` → `RuleSnapshots`, and `LoginGuard` → `AdminSessions`.

Events flow handler → `AuditQueue` → `StoreEvents` → `Outbox` → Kafka →
`Consumer` → ClickHouse. These modules meet at their interfaces: `AuditQueue`
ends with the transaction that `Outbox` starts from, and `Outbox` with the
message that `Consumer` reads. `OutboxPromise` is the contract between the
last two: an event is committed, then delivered, then acknowledged; an
acknowledged event stays delivered, and only the retention of its audit record
ends the promise.

## How the models correspond to the code

In every module a variable is named after the field, column or goroutine-local
value that it stands for, and an action is the code between two points where
another actor can intervene: a channel operation, a mutex section, one SQL
statement or transaction, one file operation, one network call. Time is
abstract (a timer or a lease is a state that may end at any moment) except in
`LoginGuard`, which counts ticks, and in `RateLimit`, which counts milliseconds.
Payloads are model values; what distinguishes them is a constant set (`Corrupt`
events do not decode, `Invalid` messages do not validate, `Referencing` events
name a row that may be deleted). History variables are marked as such.

* **AuditQueue.** `Enqueue` is four actions (token, send, saturate, reject).
  The worker's loop, `storeOnce` with its failure path, the return of tokens
  one by one, `Close` in two steps and the probe's read-then-write are actions.
  A send on the closed channel would set `panicked`.
* **Outbox.** `StoreEvents` commits audit records and outbox rows together.
  `Dispatch` is `ClaimOutbox` (due rows in the order of `created_at`, an
  attempt is counted, a lease is taken), then one publish per record, the
  retry or the mark. `ClaimLost` is a claim whose answer never arrives.
  `Brokered` gateways have Kafka configured; the others run a dispatcher whose
  publisher returns nil at once. `DeleteAuditRecords` is the retention sweep.
* **Consumer.** One partition. Offsets are naturals, a batch is an interval.
  An insert may fail before or after ClickHouse took it; commits may fail.
  The history variable `skipped` holds the events of inserts given up on SIGTERM.
* **UpstreamLifecycle.** Transactions that hold a row lock have a begin and a
  commit action, and `Abort` ends them without effect. `Finalize` is one pass of
  the finalizer. `Authenticate` and `Resolve` are the two lookups of a request.
* **StreamExchange.** The handler from the admission of a request to its answer,
  the goroutine that reads the upstream, the server that drains the pipe, the
  worker of the shadow audits. The refusals before the audit are one action.
  An event is the sequence of fragments that `ExtractFragments` yields, each
  of a channel (a choice or a tool call) and a text.
* **Inspection, RuleEngine.** The automaton is built with its failure links, depth by
  depth as the queue of `buildAho` visits its nodes (`Links`, `Fail`), and run over
  the normalized text (`Normalize`); the windows keep the last `Window` characters
  of a channel. A text is a sequence of characters of a small alphabet that has
  capitals, a space and a format character. The reference uses neither automaton
  nor normalization: a pattern `Occurs` at places of the text that are `Visible`
  and `Adjacent`, and a text is `Forbidden` by the rules that occur in it.
* **RulePublication, RuleSnapshots.** A publication takes its time at its start,
  its snapshot at the UPDATE, and commits later (`seen` is history). A refresh
  reads, and installs later. Invalidations may be lost. `scope` is the global
  scope or a tenant; a tenant is looked up by its first request and refreshed
  from then on. `RuleSnapshots` runs the transactions inside the handlers.
* **PolicyDecision, Policies, PolicySnapshots.** The operators of the package, the
  table, then the table under change with concurrent `Refresh` and `MarkStale`.
* **CircuitBreaker.** A caller enters, waits for a slot, calls, and returns
  through the deferred functions. `streak` is a history variable.
* **Migrations.** `Binary[g]` is the set of migrations, with checksums, that a
  process's release contains; `Existing` the schemas it may find without a
  history, `Foreign` the histories of others.
* **KeyBoot.** The file, the keys in memory and the keys that stored secrets are
  encrypted under; the file may be lost at first although secrets are stored, and
  the operator may put it back at any moment while no key in use is in place, also
  in the middle of a start that has found none. `Removes` takes whatever is at the
  path. The history variables `passed` and `bypassed` tell whether every key in use
  was let pass by the operator or by the guard of `main`.
* **Startup.** `pc` runs from `Migrate` through the configuration and the key to
  the first snapshots. `EnsureBootstrap` takes a failed read for an absent row
  (`ReadFails`). A seed command migrates and then seeds in one transaction.
* **AdminSessions, LoginGuard.** Each statement of setup, login and changePassword is
  a step. The password of a request is the account's or not when it is compared.
  A session row knows the password it was issued for; `excused` marks the sessions
  that the code lets outlive a change. A setup creates the account of the model or
  one under another name (`others`); `late` counts the setups that had passed the
  check when the first account was created.
* **RateLimit.** A token is `Second` units and a millisecond fills `Rate` of them, so
  the bucket is exact in integers. The script gets the caller's time, which is
  up to `Lag` behind and `Lead` ahead. `Observe` starts a period at any moment; an
  `Outage` may cost Redis its data, which `lost` counts in the period. `hint` is the
  moment a refused caller was told to come back, in real time.

The mutants are plausible slips in single definitions (`...Unchecked`,
`...Merged`, ...). Each is defined in front of the definition that it would
replace and is used by no specification.

## Runs

Every property is stated in words above its definition. Unless the table says
otherwise a run uses the fair specification and checks safety, action and
liveness properties together.

| Run | Instance | Shows |
|---|---|---|
| `queue` | 2 producers, 3 events (1 refers to a row that may be deleted), capacity 2, batches of 2 | tokens are conserved, nothing accepted is lost while the worker lives, order is kept and only a failed store loses events at `Close`; accepted events are stored, `Close` returns, a lasting failure is reported |
| `outbox` | 2 gateways, 2 events (1 corrupt), 2 attempts, claims of 2, retention, 1 fault | sends are bounded by claims, `OutboxPromise` is implemented; rows end published or at the cap, delivery while Kafka is up |
| `consumer` | 5 messages (2 invalid), batches of 2, 2 insert attempts, 2 crashes or signals | offsets pass an unhandled message only where SIGTERM ended its insert; all messages are handled |
| `consumer_cancel` | same, safety only | expected violation: with SIGTERM offsets can pass events that ClickHouse does not have (the finding of `PROJECT.json`) |
| `upstream` | 2 upstreams, 2 keys, 2 administrators, 2 finalizers, 1 request, 1 abort | deletion seals, is final and completes |
| `exchange` | 4 rules, 2 channels, 3 events of several fragments, a window of 3, with and without auditor, fail-closed and header timeout | forbidden text reaches the client on no channel however it is cut, and nothing else is held back for it; the audit trail agrees with what happened; an error status has no body; handler, stream and goroutine end |
| `rules` | 2 administrators, 2 sets, 3 publications (2 of a tenant), 1 gateway, 1 outage, both scopes | a publication replaces all it saw; convergence to the active set of the scope; an outage withdraws readiness |
| `policy_snapshots` | 1 tenant, 1 route, 1 administrator, 2 changes, 1 outage | whole snapshots; convergence; the severest verdict of matches and thresholds decides |
| `breaker` | 4 callers, 2 slots, 3 failures | only failures open the circuit; calls return |
| `startup` | gateways of two releases and a seed command, or a gateway and 2 seed commands (`Deployments`), 5 kinds of initial database, 1 fault, 2 generated or rotated keys | history and schema agree; a process goes on only on its own schema; a refused start removes no key of another gateway; secrets stay readable but for the exceptions below; at most one seed, with its policies; the newest release serves |
| `sessions` | 2 sign-ins and 2 setups or changes at once, 3 passwords, 1 other name, 2 sessions, lockout after 2 failures, throttle after 4 | an old password keeps only excused sessions; setups create one account, and one more for each that overlapped the first; failures in a window are bounded; a lockout ends |
| `ratelimit` | 2 gateways (symmetric), rate 1, burst 1, skew at its limit, 7 ms, 5 calls, 2 faults; invariants only | shared and local buckets admit no more than burst and rate allow in any period; `Retry-After` suffices but for the skew |

### Limits of the code that the models show

Some properties carry an exception, because the code does not keep them without
it. Each exception is a disjunct or a constant; removing it makes TLC
print the behaviour.

| Property | Exception | What happens, and what the repository says |
|---|---|---|
| `LostOnlyBySignal` (`Consumer`) | `skipped` | `insertWithRetry` returns nil on a cancelled context (`consumer.go:244`); "Offsets are committed only after the destination operation has completed successfully" (`consumer.go:65`). Run `consumer_cancel` |
| `AcceptedEventuallyStored` (`AuditQueue`) | an accepted event is in `dangling` | an event whose policy or key was deleted fails its batch for ever, and the queue stays behind it; "repair PostgreSQL first, then ensure the audit queue drains" (`docs/operations.md:36`) |
| `NoSilentLoss`, `ImplementsPromise` (`Outbox`) | the audit record was swept (`recorded`) | the sweep cascades to unpublished outbox rows; "CleanupExpired deletes audit records and published outbox rows" (`retention.go:8`) |
| `NoSilentLoss`, `ImplementsPromise` (`Outbox`) | `Brokered = Gateways` | a gateway without brokers dispatches with a nil publisher that reports success, and marks rows of other gateways published; "at-least-once Kafka delivery" (`events.go:271`) |
| `PublishedOrPoison` (`Outbox`) | `Poison` | a row that spent its attempts during an outage is not claimed again; "replayed at least once after recovery" (`docs/operations.md:32`) |
| `ExchangeReturns` (`StreamExchange`) | `hpc = "failed" /\ headerCh = <<"ok">>` | headers that arrive as the handler times out stay in the channel, and the goroutine blocks on its later error; "would pin the goroutine and the upstream connection forever" (`handler.go:476`) |
| `StopsTheForbidden` (`StreamExchange`) | spans of `Window + 1` characters | an occurrence that the window no longer holds as a whole, when its last character arrives, is not seen; a plain body has no such limit |
| `SecretsReadable` (`KeyBoot`) | `bypassed` | a created key that is loaded before its check (after a failed check or a crash, or by a second gateway), or a rotation with stored secrets, is not guarded; "a freshly generated key paired with existing ciphertexts aborts boot" (`docs/key-management.md:10`), "if `upstream_configs` still holds ciphertexts, startup aborts" (`:56`) |
| `SecretsReadable`, `RemovesNoOthersKey` (`KeyBoot`) | `bypassed`, `Original` | a start that found no key and created one writes, ignores or removes the file without another look: a key that the operator restores in between is overwritten, not used, or removed (`crypto.go:119`, `main.go:328`); "the gateway remains in a restart loop" (`docs/key-management.md:34`) while "Restore the key file from backup" (`:42`) is carried out |
| `NewestServes` (`Startup`) | no gateway in `Owning` | for the same reason: the restored key stays when no start under way has created one |
| `OldPasswordEnds` (`AdminSessions`) | `excused`, a change under way | the new password and the revocation are two statements: a failure between them leaves the old sessions, and a sign-in that compared the old password before may store its session after; "revokes every other live session" (`httpapi/admin.go:404`) |
| `BoundedGuesses` (`AdminSessions`) | twice the budget, and the requests in flight | the counter's window starts with its first failure, so a sliding window can hold the end of one and the start of the next |
| `SetupsOverlap` (`AdminSessions`) | `late` | setup counts the accounts and creates one in a later statement: setups that overlap, each with a name of its own, each create an account; "admin setup already completed" (`httpapi/admin.go:305`) |
| `SharedBounded` (`RateLimit`) | `Lag + Lead`, `SkewAssumption` | the script fills by the callers' clocks; the bound widens by their skew |
| `SharedBounded` (`RateLimit`) | `lost` | a key that Redis lost is a full bucket (`redis.go:44`), and Redis runs without a volume (`deploy/docker-compose.yml:78`): each loss of its data admits a burst again |
| `RetrySuffices` (`RateLimit`) | `Slack`, the same bucket | the caller of the shared bucket has to wait for the skew too: the gateway that answers next may be behind, a bucket in debt asks for more than a second and `handler.go:197` cuts 1.5 s to "1"; and a failover in between answers from another bucket |

`loginGuard` and `authThrottle` belong to a process: another gateway counts for
itself, and a restart clears both.

### Bounds

`MaxFaults`, `MaxCrashes`, `MaxAborts`, `MaxOutages`, `MaxPublishes`, `MaxChanges`,
`MaxEvents`, `MaxKeys`, `MaxTime`, `MaxCalls`, `MaxSessions`, `MaxPasswords` and
`LogLen` cap histories; they occur only in guards and in the sets that guards
choose from. The instances are chosen so that each contested resource has two
contenders and one unit too few: two producers for one token, two gateways for
one row, two finalizers for one upstream, four callers for two slots, three
processes for the migration lock, two gateways for one key file, more messages than
one batch holds and an
invalid message on either side of a batch boundary. Two rule sets are enough for
`rules`, where overlapping publications of both leave two published rows that a
third publication has to replace. Three passwords are a setup and two changes that
overlap, and one other name is enough for two setups to create an account each. In
`exchange` the longest pattern is as
long as the window, one pattern overlaps itself, and two rules reach the
threshold only together. In `ratelimit` the key lives for four milliseconds of
the seven, so that it expires and is filled again within a run. Symmetry
is used in `ratelimit` alone, which has no liveness property. Deadlock checking
is off where the bounded history, or a legitimately idle system, has a last state.

### Fairness

* Goroutines run: weak fairness of the worker, of producers inside `Enqueue`, of
  dispatchers, handlers, tickers and probes, of a process in its start, and of
  the supervisor that restarts a gateway.
* Timers elapse: weak fairness of leases, backoff, the purge grace, the cooldown
  and the ticks of the login guard.
* Strong fairness stands for an operation that is retried for ever and succeeds
  now and then (`StoreCommits`, `InsertOk`, `DeadLetterOk`, `CommitOk`), for row
  locks and the advisory lock, which PostgreSQL queues in order (`FinalizeBegin`,
  `Locking`), and for a waiting send on the semaphore channel, which Go serves in
  order (`Acquire`).
* Nothing is assumed of failures, crashes, Kafka, administrators or clients.
  In `StreamExchange` weak fairness of `ReaderEOF` is the server's drain of a
  body; with `ReaderCloses` the server closes the body of a client that is gone.

## Proofs

| Module | Theorems | Inductive invariant |
|---|---|---|
| `AuditQueueProofs` | `TypeCorrect`, `TokensConserved`, `NothingLost`, `RoomForTokens`, `TokensCoverUncommitted`, `RowsInOrder` | types; free tokens + holders + queued + batched = capacity; accepted events are queued, batched or stored; `OfferInHand` ties a producer's event to its program counter and `BatchAccounted` the batch to the accepted events; what is stored, then the batch, then the channel are in the order of acceptance |
| `DeliveryProofs` (`Outbox`) | `TypeCorrect`, `SendsBounded`, `MarksFollowDelivery`, `PublishedIsFinal`, `NoLoss`, `Refinement` | sends + claimants that have yet to send ≤ attempts; what a dispatcher has in `done` is delivered; undelivered rows are pending |
| `DeliveryProofs` (`Consumer`) | `ConsumerTypeCorrect`, `DeadLettersFirst`, `OffsetsFollowDestinations` | everything below the batch is handled, and the batch up to the step that `stage` has reached |
| `InspectionProofs` | `InspectionIsExact` | none: it is about the operators (below) |
| `StreamExchangeProofs` | `FailedAnswersHaveNoBody`, `TrailIsTruthful`, `EverySpanWasInspected`, `ForbiddenIsStopped` | `SInv`: where handler and goroutine can be together, and the events of the trail counted against the fragments that were inspected, delivered or are still to do. `WInv`: a window holds the end of what its channel has delivered and of the inspected fragments of the current event; every span that fits was part of one inspected text. `Stopped`: what was inspected of a channel without a block holds nothing forbidden, and a fragment that was blocked makes the text of its channel forbidden |
| `SnapshotsProofs` (`PolicySnapshots`) | `SnapshotsAreWhole`, `SeverestAlwaysDecides` | `PolicyInv`: every content the table had is sound (each policy is valid and has its defaults filled in), and the snapshot, and what a goroutine is about to store, is one of them. The second theorem adds what the operators compute of a sound table |
| `SnapshotsProofs` (`RuleSnapshots`) | `PublicationReplaces` | `PInv`: the start of a running transaction differs from every other one and from every `published_at`, and nobody has seen it; what was published at BEGIN, and still is, is among the rows that the first UPDATE saw, and then among those it holds |
| `StartupProofs` | `HistoryMatches`, `OwnSchemaOnly`, `NoOthersKeyRemoved`, `SecretsStayReadable`, `OneSeed` | `SchemaInv`: a process past `Lock` holds the lock, and what it read of the history is still so; an unrecorded schema that can be adopted has at most the first three migrations. `KeyInv`: one gateway at most is between the creation of the key file and its check, and the key it made has not passed; what is at the path is then its file or the operator's key; unless the guard was passed by, secrets are under keys that passed, every running gateway has the key of the file, and that is the key of the secrets |
| `AdministrationProofs` (`UpstreamLifecycle`) | `TypeCorrect`, `DeletionSeals`, `DeletionHolds`, `RoutesAreActive` | an open transaction holds its row lock, so what it read of the row is still so |
| `AdministrationProofs` (`AdminSessions`) | `OldSessionsEnd`, `SetupsBounded`, `GuessesBounded` | what holds of sessions holds of sign-ins that have compared the password and not stored their row; before an account exists there are neither. Once an account exists, the accounts and the setups that have counted none are together at most one more than `late`. The failures in a sliding window are those of two windows of the guard's counter and of requests that had passed the guard |
| `LimitsProofs` (`RateLimit`) | `SharedBound`, `FailoverBound`, `RetryAfterSuffices` | admitted tokens + tokens left ≤ full bucket + fill of the period up to the bucket's time, and as much again for each loss of data; the shared bucket is in debt at most for the time by which an earlier caller was ahead; when its key has expired, the rate has made up for what it admitted; what a bucket owes a refused caller is paid by the promised time, after the skew if it is the shared one |
| `LimitsProofs` (`CircuitBreaker`) | `BreakerTypeCorrect`, `SlotsAreCalls`, `OpensOnFailures` | the semaphore equals the number of callers in their call; the counter never exceeds the streak |

A module that holds the proofs of two components extends both; `SnapshotsProofs` extends
`RulePublication` and has an instance `Rules` of `RuleSnapshots`, of which it shows that
every step is a step of the publications or leaves them alone.

The theorems hold for every set of producers, gateways, keys, callers and requests
and for every value of the numeric constants that the named assumptions of the
modules allow: capacities, attempts, rates and bursts are positive, bounds are
naturals, `None` and the like are no proper values. Three assumptions say more.

* `MigrationsAssumption`: the migrations of a binary, and of a foreign history, have no
  gap (`loadMigrations` refuses a set that is not contiguous from one).
* `UnrecordedAssumption`: a schema that was made before migrations were recorded and
  that has the first two has no more than the first three, which is what
  `baselineCurrentSchema` adopts.
* `SkewAssumption`: clocks and delays differ by no more than the time that fills a
  bucket. With more, the key may expire before the bucket it stands for is full.

`MarksFollowDelivery`, `NoLoss` and `Refinement` assume that every gateway is
brokered. Sets are not assumed finite except for the producers and events of
`AuditQueue`, the gateways of `Outbox`, and the requests and names of `AdminSessions`. The
exceptions that properties carry are those of the table above. Definitions that only
a theorem uses (`TokenMeansRoom`, `UncommittedHoldTokens`, `PublishedOnlyAfterDelivery`,
`NoSilentLoss`, `PublishedFinal`, `DeadLettersBeforeCommit`, `RouteWhileActive`,
`BoundedConcurrency`, `SpansInspected` and the type invariants) are not repeated in
the runs.

`Scores` and `MatchLists` are the scores and the lists of matches that `SeverestDecides`
ranges over. They bound the runs only: the theorem holds for all integers and all
sequences of actions. `Elevate` is a recursive function over such a sequence; what it
computes is proved by taking the least position at which the claim would fail, which
the well-foundedness of the naturals provides.

`ForbiddenIsStopped` says of every set of rules, every window and every way to cut a
text into events what TLC checks of the rules of one run. Its argument, in
`InspectionProofs` up to the window and then in `StreamExchangeProofs`:

1. A failure link leads to the longest proper suffix of a node that is a node, and the
   state after a prefix of the text is its longest suffix that is a node: what
   `Matches` finds are the patterns that are in the normalized text, each once
   (`Links` and the loops are recursive functions, and each claim is shown of the
   least depth or position at which it would fail).
2. The characters of the normalized text are the visible ones of the text, in order, a
   run of blanks taken for one. So a pattern is in the normalized text exactly when it
   occurs in the text.
3. The score is a sum over a finite set, capped; `Decide` blocks from the threshold on
   and `Elevate` when a rule that blocks is among those found, whatever their order.
   Hence `InspectionIsExact`: a text is blocked if and only if it is forbidden.
4. A part of a text that is not forbidden is not forbidden: an occurrence in the part
   is one in the whole, and weights are positive.
5. A window and the fragment fed to it are the end of the channel's text, long enough to
   hold every span of `Window` + 1 characters that ends in the fragment. If none was
   blocked, no such span of the channel is forbidden; if one was, the text of the
   channel is.
6. The exchange: what is written was inspected without a block, a body as a whole, and
   what is not written is not received.

`InspectionIsExact` takes a policy with both thresholds positive and an action, which is
how `Normalized` leaves every policy in force (`SnapshotsAreWhole`); `Default`, by which
the exchange of the model decides, is such a policy. The rules are any records of a
pattern, an action and an integer weight (`RulesAssumption`): a weight that is not
positive and a missing action are filled in by the code, and a rule without a pattern is
skipped. A pattern may begin or end with a blank, and then occurs beside another word
only; one with two blanks in a row never occurs, in the reference as in the automaton.

Only model-checked: every liveness property and everything with `ENABLED`, which are
beyond this prover. Every safety property of a passing run is also a theorem.

## Not modelled

* **SSE line parser and `ExtractFragments`**: an event is what they yield.
* **NFKC, UTF-8 boundaries of a window, regular expressions and the strings of a JSON
  document**: they are libraries or work within one character, outside the
  alphabet of `Inspection`. A redacting decision passes text on as a
  monitoring one does, and is not told apart in an exchange.
* **Changes of rules and policies during an exchange**: an exchange resolves them
  when it decides; `RuleSnapshots` and `PolicySnapshots` cover their changes.
* **Floating point in the rate limiter**: the bucket is exact.
* **Two rule scopes at once**: `RuleSnapshots` follows one scope at a time.
  `CacheLoader.ActiveDefinitions` is not called by the gateway.
* **Cookies, CSRF, password hashing, AES-GCM, comparison of key hashes**: a
  password, a session or a secret is known by its identity.
* **Parsing of the seed file and the SQL of a migration**: one effect each.
* **Composition of queue, outbox and consumer in one module**: the product of their
  state spaces is out of TLC's reach with the faults that matter; they meet at
  the interfaces described above.
* **Configuration, metrics, logging, record types, read-only queries, the target policy
  (a stateless check per connection) and the web console**: no state that the
  other parts depend on.

PostgreSQL, Kafka, ClickHouse and Redis are known by what the code relies on: an
open or failed transaction, a delivered or lost message, a key that expires.
