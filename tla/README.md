# Verification of go-shared

TLA+ specifications of the parts of `go-shared` that keep state or decide who may
do what: the service-token client and the HTTP transport on top of it, the event bus,
the rate limiter, its limits provider, the authentication of requests, transactions
under row-level security, and the criteria of listings. TLC checks them on small
instances; TLAPS proves, for every value of the constants, all their safety properties,
among them that the client implements the abstract service the transport relies on and
that the event bus is an at-least-once channel.
`PROJECT.json` holds the exact lists (components, map from definitions to source
lines, runs, mutants, hazards, findings, theorems); this file explains them.

## 1. Inventory of the system

`go-shared` is a Go library used by a fleet of services. It has no process of its
own: its concurrency is the goroutines of the services that call it.

| component | state | operations | what makes it correct |
|---|---|---|---|
| s2s token client (`s2stoken/client/client.go`) | token cache per (aud, scope), a one-slot channel per entry as lock, a circuit breaker per audience | `Token`, `Refresh`, `Invalidate`; an issuing goroutine that outlives its caller | one request per entry; no token believed longer than signed; invalidated tokens do not return; no storm of reissues; the breaker neither leaks nor locks out |
| s2s transport (`client/transport.go`) | none of its own; the request, the responses received and the token in each request | `RoundTrip`: one retry after a 401 | at most two sends, the second whole and with a newer token; the token never leaves on a redirect or for another host; every response closed or handed on |
| event bus (`eventbus/application`, `worker`, `infrastructure/memory`) | events with visibility, attempt and DLQ under one mutex; subscriptions; polling goroutines | publish, publish batch, poll, dispatch, ack, fail, bury, stop, close | at-least-once delivery: nothing lost, nothing buried early, every event settles, Stop returns |
| event bus broker adapters | none | stubs that return not-implemented | – |
| rate limiter (`ratelimit/limiter.go`, `middleware/rate_limit.go`) | a sorted set or a TAT per key in Redis | `Allow` (two Lua scripts), the middleware with fail-open, fail-closed and observe modes | the limit of the rule holds; Retry-After is true; keys go away |
| limits provider (`ratelimit/provider.go`) | cached matrix, `fetchedAt`, an RWMutex and a refresh mutex | `RuleFor`, `maybeRefresh`, `refresh` | one fetch at a time, limits never regress, readers never wait for a fetch |
| receiver of service tokens (`s2stoken`, `receiver`, `s2shttp`, `middleware/s2sauth`) | none across requests; the request context | `Verify`, `ParseUser`, `Authenticate`, two adapters | no downgrade; tenant attested; tokens valid only in place and time |
| tenant, platform and role middleware, JWT keyring | keyring, immutable after start | `TenantValidation`, `VerifyPlatformJWT`, `RequireRole`, `RequirePermission`, key choice by kid | fail closed behind every path that leaves no user |
| criteria (`criteria/`) | a criteria value being built | builder, validator, conversion to SQL, in-memory filter | placeholders numbered as the arguments are; both evaluations agree |
| postgres pool and RLS (`postgres/`) | the connections of a pool with their sessions; a transaction per call; the previous sample of the monitor | `Connect`, `WithRLSInTransaction`, `StartPoolMonitor` | policies see the context of the caller and nothing of an earlier one; the result of a call tells what is durable; connections come back; each wait logged once |
| metrics recorder (`metrics/prometheus_recorder.go`) | maps of vectors under a mutex | `Record` | values under the names the caller gave |
| compression, CSV import, notifications, env, logging, responses, setup, migrations | none of interest | – | – |

**Interactions.** The transport asks the client for tokens and reports 401s with
`Refresh`, inside an `http.Client` that may follow redirects; the receiver of another
service verifies those tokens with `Verify`. Goroutines share a pool through
`database/sql`, whose own watcher may end a transaction under them. The
rate-limit middleware asks the provider for a rule and the limiter for a verdict.
The worker polls through `ConsumeUseCase`, which calls handlers and settles events
in the store. `RequireRole` reads what an authentication middleware earlier in the
chain left in the context.

**What is hard here.** A lock that is handed from the caller to a goroutine that
outlives it; state read before a network call and used after it (validity of the
cached token, the instant the breaker counts from, staleness of the limits);
leases that run out while a handler runs; scripts that reach Redis in another order
than the clocks they carry; chains of checks whose order decides what a caller
learns. `PROJECT.json` lists each hazard at its line with the properties that
would catch it.

## 2. Modules

| module | models | notes |
|---|---|---|
| `S2SClient` | `client.go` | callers, issuing goroutines, iam, cancellation and the clock interleave; one action per atomic stretch between channel operations and mutexes, so that the breaker is asked in one step (`Gate`), the request goes out in a later one (`IssueSend`) and fails or is answered in another; an answer comes before the deadline set in `Gate` |
| `TokenService` | what `Token`, `Refresh` and `Invalidate` promise | abstract: a call begins, iam mints at any time, the call ends with a token fit for it or an error; no cache, lock, clock or breaker |
| `Transport` | `transport.go`, on top of `TokenService` | EXTENDS the abstract service, so its goroutines meet every client that keeps the promise; `http.Client` dispatches requests, follows redirects with copied headers and closes what it is given |
| `MemoryStore` | `memory/store.go`, `domain/retry.go` | one action operator per store operation, each atomic under the mutex; used through EXTENDS |
| `EventBus` | `usecase.go`, `worker.go` on top of `MemoryStore` | worker goroutines as state machines: wake, poll each type, dispatch, settle; the events of a batch come in any order, since the code sorts by an `OccurredAt` that publishers may set and whole batches share; publishers, `SaveBatch` event by event, operators and Stop run beside them |
| `AtLeastOnce` | what the bus promises to publishers and handlers | abstract: events are pending, out, handled, refused or dead; no types, batches, leases, attempts or goroutines |
| `RowSecurity` | `rls.go`, `postgres.go` | transactions share connections; statements fail, connections are lost, contexts end, the callback panics, and the watcher of `database/sql` rolls back at any moment; the pool monitor samples |
| `RateLimit` | `limiter.go`, `rule.go`, `rate_limit.go` | requests read the clock, then run their script at any later time; Redis expires keys, may fail and may lose the answer of a script that ran; the rule may change algorithm |
| `RefreshingProvider` | `provider.go` | staleness check, TryLock, fetch, store and unlock are separate steps |
| `RequestAuth` | the receiver, the middlewares and the gates | one request crosses the handler chain of its route, one middleware per step, the clock running |
| `Criteria` | the whole package `criteria` | the builder call by call; validator, SQL converter and in-memory filter as operators; a client reads page after page |
| `MC*` | – | values of the constants for TLC |
| `S2SClient_proofs`, `Transport_proofs`, `EventBus_proofs`, `RateLimit_proofs`, `RefreshingProvider_proofs`, `RequestAuth_proofs`, `RowSecurity_proofs`, `Criteria_proofs` | – | theorems |

`S2SClient` and `Transport` are composed through `TokenService`: the client is
shown to implement it (`ImplementsTokenService`, an INSTANCE of `TokenService` under
the mapping at the end of `S2SClient`), and the transport uses nothing else of the
client. The mapping hides locks, waiting, the cache and the breaker; a call is under
way while its caller is not idle, the retired tokens are those at or below the floor
of the last `Invalidate`, and a token that iam minted belongs to the entry it was
minted for.

`EventBus` implements `AtLeastOnce` (`ImplementsAtLeastOnce`, the mapping at the end of
`EventBus`): an event is pending while it is in the store, and out while some worker has
it in its batch. What `Accounted` cannot say, because it looks at one state, is said
there: that an event that left the store, acknowledged or buried, is never stored again
by a late `MarkFailed` and no new delivery of it begins, and on what grounds it left.

Definitions keep the names of the source (capitalised where Go has unexported
names). Operators whose comment calls them a mutant, or that vary the definition
that follows them, are deliberately wrong versions of that definition; they are
used by no specification and serve to show that a property can fail.

**Abstractions.** A token is a number (client) or a record of its claims and signer
(receiver); signatures are the equality of signer and key. Time is an integer
clock or, in `MemoryStore` and `RefreshingProvider`, the time left or the age, so
that those models need no bound on the clock. Metrics and logs are left out. The
breaker's failure count stops at the threshold, since the code only compares it
with the threshold. In `RateLimit` rules are in nanoseconds and truncated to
milliseconds as the code does, so that a window or an emission interval that
truncates to zero is met. In `Criteria` a Go value is a record of its dynamic type
and contents, SQL is the list of conditions with their placeholder numbers, and ints
have a bounded width, so that an offset can overflow. Wildcards stand at the ends of
a pattern only; `_` is a letter like others. A builder is not used after `Build`. In
`Transport` a body is absent, rewindable or a stream, a host is a value compared as
`EqualFold` would, and the number that identifies a response is that of the send it
answers. In `RowSecurity` a setting is a value that `safeGUCValue` matches, one it
does not, or none; quoting changes nothing in a value that passed the check and is
left out. Statements of a callback are counted, not told apart; `MaxOpenConns` is not
negative (the code would then have no limit).

**External code** is modelled from its use: iam (mints, rejects, answers late or
never), Redis (atomic scripts, expiry, failure before a script ran or after, WRONGTYPE), golang-jwt's time
checks, gin's chain, `http.Client` and the servers behind it, `database/sql` and
PostgreSQL (SET LOCAL lasts until the transaction ends, a failed statement spoils the
transaction, an ended context makes the pool roll back, the answer to a commit may be
lost), the source behind the provider's fetch function, the legacy
handler of net/http receivers (any answer).

## 3. Runs

All passing runs check deadlock too, except `rate_limit`, whose requests are
one-shot, so that the model stops when all are answered.

| run | instance | shows |
|---|---|---|
| `s2s_entry` | 2 callers, 1 entry, 2 tokens, clock to 3 | `SingleFlight`, `ConservativeExpiry`, `ReissueSpacing`, `BackoffRespected`, `InvalidatedStaysGone`, `ServedTokenWasLive` and the refinement `ImplementsTokenService` under every mix of the three operations with cancellations |
| `transport` | 2 goroutines, 2 hosts, 3 tokens of 2 audiences, statuses 200, 302, 401, one redirect | `CredentialStaysHome`, `RetryIsProgress`, `ResponsesAccounted` with every body, with `Host` set or empty, and invalidations in between |
| `s2s_breaker` | 2 callers, 2 entries of one audience, threshold 2, clock to 2 | `LockoutBounded`, `OpenCircuitCrossedOnce` with failures recorded out of order and requests that go out after another entry opened the circuit |
| `s2s_liveness` | 2 callers, 1 entry | `CancelledCallersReturn` with a fair scheduler alone; `EveryCallReturns` if requests also end |
| `eventbus_safety` | 2 workers, 2 events, 2 handlers, a batch, Close and MoveToDLQ from outside | `Accounted` (the conjunction of `NothingLost` and `NoPrematureDLQ`), `ExclusiveDelivery` and the refinement `ImplementsAtLeastOnce` |
| `eventbus_liveness` | 2 workers, 2 events, 2 types, Close | `EventuallySettled`, `StopReturns` with the store closed at any moment |
| `rate_limit` | 4 requests, 4 rules of both algorithms, two rule changes, clock to 3, Redis failures | `SlidingWindowBound`, `GcraBound`, `RetryAfterExact`, `KeyExpires` |
| `limits_provider` | 3 goroutines, 3 versions of the limits | `RefresherSeesItsFetch`, `MatrixNeverRegresses`, `OnlyTheFetcherWaits`, `Converges` |
| `request_auth` | 16 routes, 38 tokens, requests with at most one bad credential, clock to 5 | `NoDowngrade`, `TenantIsAttested`, `AuthorizedRole`, `ServiceTokenInItsPlace`, `CredentialsInTheirTime`, `ForbiddenOnlyToTheKnown` |
| `criteria` | 4 rows, up to 2 of some 30 filters, 1 explicit order, pages of 1 to 3, ints of 4 bits | `ParamsLineUp`, `SanitizedConverts`, `PagesPartition`, `MemoryAgreesWithSQL` |
| `row_security` | 2 goroutines, 2 connections (limit 1 or 2), 5 contexts, 2 statements, 2 waits | `ContextIsExact`, `TransactionSettled`, `WaitsLoggedOnce` with failures, lost connections and ended contexts at every step |

One run shows where the code does not do what an interface says (quoted under
"findings"): `eventbus_lease` – `MarkFailed` by a worker whose lease ran out ends the
lease of the worker that now holds the event.

**What the models show besides.** Behaviour that a reader of the code may not expect
and that the properties are stated around:

* a failed renewal returns the old token because it was valid before the request
  (`client.go:327`), even if it expired while the request was under way; hence
  `ServedTokenWasLive` asks for a token that was live at some instant of the call;
* a request that was allowed before the failure of another entry opened the circuit still
  goes out (`client.go:285`, `:303`); `OpenCircuitCrossedOnce` says that each entry sends
  at most one such request while the circuit stays open (the history `crossed` counts
  them, and starts again when the circuit opens);
* a failure counts from the instant read before its attempt, so that one that ends late
  moves `openUntil` back (`client.go:387`) and the circuit half-opens sooner;
  `LockoutBounded` is a bound from above only;
* `SaveBatch`, whose comment says "atomically" (`store.go:55`), locks per event: a
  `Close` in between leaves a prefix stored and visible under an error (`SaveNext`);
* after a failed commit whose answer was lost, `WithRLSInTransaction` returns an error
  although the writes may be durable; `TransactionSettled` names this case;
* the emission interval of GCRA is truncated to milliseconds (`limiter.go:115`): a rule of
  700/s lets 1000 a second through, and one of 2000/s has an interval of 0; `GcraBound`
  is stated with the numbers the script gets, and the instance has both rules;
* the sliding window prunes with the window of the rule it was sent with: after a change
  to a shorter window and back, entries that count again are gone (`cut`);
* a list filter whose value is empty or a `[]string` leaves no SQL condition
  (`sql_converter.go:76`), while the filter in memory honours it (`Dropped`).

**Why the bounds are enough.** Each is the smallest at which the hazards happen. In
`s2s_entry` two callers are the owner of a lock and a rival; two tokens an old one
and its replacement; the clock reaches past renewal, expiry, backoff and a timeout.
`s2s_breaker` needs two entries because failures of one entry are serialised by
its lock, and two ticks because a circuit then opens, ends and opens again. The event bus needs two workers for a lease to change hands, two retries
for the DLQ limit to be neither the first nor missed, and two handlers for one to
fail after another succeeded. The rate limiter needs four requests to exceed a
limit of two with one overtaken script, and two rule changes for a log to be pruned by
one rule and counted by another again. In `RequestAuth` requests share nothing, so
one at a time suffices; tokens that deviate in one claim reach every check, and one
with two faults tells the order of 401 and 403 apart. In `Transport` a second goroutine renews
or invalidates between the first send and the retry, a third token lets the renewal be
overtaken, and one redirect is enough for a copied header to show. In `RowSecurity` two
goroutines over one connection make the second wait and inherit the session of the
first, over two they run side by side. In `Criteria` the second filter meets the placeholder
counter of the first whatever it was, and four rows in pages of three make a short
last page. Bounds named `Max...` stop
clocks and counters only in guards.

**Fairness.** `CallerFairness` and the weak fairness of worker and provider steps
say that the Go scheduler runs a runnable goroutine. Strong fairness of `Acquire`
reflects that a Go channel serves blocked senders in order. That requests to iam
end is a premise of `EveryCallReturns` (the request context has a timeout), not part
of the specification; likewise `Converges` assumes a source that answers again and
again, and keeps the hanging source for the other properties.
`EventuallySettled` assumes that time passes and that handlers return.

**Properties that need a premise.** `SlidingWindowBound` is stated for keys whose
scripts ran in the order of their clocks (the history `jumbled` records the three
ways in which they may not) and whose log no rule with a shorter window pruned
(`cut`), because the code cannot bound the others; of these premises `GcraBound` needs
only that no script with a clock from before the end of a key runs after it. `ExclusiveDelivery` speaks of executions in which no batch overran its lease, which
nothing in the code prevents; `Accounted` holds in all.
`ServedTokenWasLive` takes the start of a renewal for the instant of the call.
`TenantIsAttested` lets `TenantValidation` read the first of
several header values, as the code does, where the combinator refuses them.
`MemoryAgreesWithSQL` is stated for filters on which PostgreSQL and reflection can
agree (`Comparable` lists them): the code does differ on a list that is empty or a
`[]string` (SQL drops the condition), on patterns open at one end (memory looks for
a substring anywhere), on zero values under IS NULL and on ordered comparison of
text. `ParamsLineUp` leaves out an operator the package does not define with a nil
value, and `SanitizedConverts` nil values and pages whose offset overflows an int;
the model contains all of these. `ForbiddenOnlyToTheKnown` names the two cases in which the code answers 403 to a
caller it did not authenticate.

## 4. Theorems

Proved by TLAPS for every number of callers, entries, tokens, audiences and every
configuration that satisfies `ClientAssumption`:

* `TypeCorrect`, `SingleFlightHolds` (`S2SClient_proofs`). `SingleFlight` is
  inductive with `TypeOK` once it says three things together: the holders of an
  entry are at most one; an issuing goroutine excludes holders; the channel is
  full exactly when one of them exists. Without the last part the release by the
  issuer could not be told from a second release.
* `ConservativeExpiryHolds`, `InvalidatedStaysGoneHolds`, `ReissueSpacingHolds`,
  `BackoffRespectedHolds`, `LockoutBoundedHolds`, `OpenCircuitCrossedOnceHolds`
  (`S2SClient_proofs`). None is
  inductive alone: the token under way must already satisfy what the cached one
  will. The invariant adds facts about the request in flight: its start is not in
  the future, the token in the answer was minted for the entry, expires no earlier
  than start plus the promised life, and lies above the floor of the last
  invalidation; and what a caller has to know at the `gate` between the decision
  to renew and the start of the goroutine. It is stated per entry, with a lemma that
  a step on one entry leaves the facts of another alone. For `OpenCircuitCrossedOnce` it
  says that while the circuit is open and an entry has crossed it once, that entry has no
  request that could still go out (`Crossings`), which needs that a circuit below the
  threshold is shut (`ClosedIsZero`) and that nobody's clock is ahead of `now`.

`ClientImplementsTokenService` (`S2SClient_proofs`) is the simulation: an
initial state maps to one of the service, and each step to a step of the service or
to a stutter. Steps inside a call are stutters; what has to be shown is that the answer
it ends with is one the call may have. `RefInv` carries that: the cached token of an
entry is the newest iam minted for it, but for one whose answer is under way
(`TokenOrder`); whatever an attempt reports to its waiting caller is above the floor at
the start of the call and, for `Refresh`, is either the rejected token or newer
(`CallsSound`). It rests on the cache invariant above, whose
floor keeps an answer under way from bringing an invalidated token back.

`ServedTokenWasLiveHolds` (`S2SClient_proofs`) follows the token a call will
return: one promised as fallback was live when the renewal started, and so is one in
an answer, since iam mints no token that has run out (`LiveInv`).

For any number of goroutines, hosts, redirects and tokens
(`Transport_proofs`): `CredentialStaysHomeHolds`, `RetryIsProgressHolds`,
`ResponsesAccountedHolds`. The invariant says for each place in `RoundTrip` what was
sent, with which token, and which responses are open (`AtPlace`), and that a token in
use was minted for the destination (`Minting`). The lemma `Elsewhere` shows that
whatever other goroutines and iam do to the service, which only mints and retires,
leaves those facts alone.

For any number of workers, events, handlers and any lease, delay and retry
limit (`EventBus_proofs`): `AccountedHolds`, `ExclusiveDeliveryHolds` and
`BusImplementsAtLeastOnce`, with `TypeCorrect`. The invariant adds: a dispatch
without an error has run every handler on the event about to be settled (`Handled`); the Attempt a worker took with an
event never exceeds the failures of that event (`Counted`), which is why a stale
`MarkFailed` cannot bury it early; and while no lease was overrun what a worker holds
stays hidden at least as long as its lease (`Leased`). Assumed: finitely many events, a
positive lease. `BusImplementsAtLeastOnce` maps every step to one of the channel:
`Handled` makes an acknowledgement a `Settle`, `Counted` makes a burial a `Refuse` at the
limit however stale the Attempt it was given, an error of `MarkProcessed` is a `Forget`;
settling lets go of an event unless another worker, after an overrun, has it too (`LetGo`).

For any number of goroutines, connections, contexts and statements
(`RowSecurity_proofs`): `ContextIsExactHolds`, `TransactionSettledHolds`,
`WaitsLoggedOnceHolds`. A connection at rest has no transaction and no settings
(`AtRest`), which is what SET LOCAL buys; a goroutine has at most one connection; the
settings made so far are those of the context up to the next one (`MadeBefore`);
nothing is durable before the commit (`Durable`); what was logged is the difference
of two samples (`Samples`).

For every number of requests, every set of rules and every mode of the middleware
(`RateLimit_proofs`): `SlidingWindowBoundHolds`, `GcraBoundHolds`,
`RetryAfterExactHolds`, `KeyExpiresHolds`, with `TypeCorrect`. The limits count requests,
the scripts see a log or a TAT, so the invariants relate the two. `GcraInv`: n requests
that got through since s have pushed the TAT, or the end of the key that held it, to at
least s plus n emissions, and a script whose answer was lost moves it further; an arrival is allowed only if that lies within the tolerance
of its clock, whatever its place among the others. `WindowInv`: the requests since s are
no more than the entries since s, as long as s is within a window of the latest
script and of the last key; what is pruned or expires with the key is older. Assumed: finitely
many requests, positive limits and windows.

For every number of goroutines and versions and every ttl
(`RefreshingProvider_proofs`): `SingleFetchHolds`, `RefresherSeesItsFetchHolds`,
`MatrixNeverRegressesHolds`. The strengthening says that nothing is ahead of the
source, and that the result a goroutine holds is no older than the matrix and than
the source when its call began: the mutex makes the first possible, since nobody
else stores in between.

For every set of tokens, requests, routes, keys and tenants that satisfies the
assumptions of `RequestAuth` (`RequestAuth_proofs`): `NoDowngradeHolds`,
`TenantIsAttestedHolds`, `AuthorizedRoleHolds`, `ServiceTokenInItsPlaceHolds`,
`CredentialsInTheirTimeHolds`, `ForbiddenOnlyToTheKnownHolds`, with `TypeCorrect`. The
first four speak of the moment the handler runs, when the decisions are long past. The invariant carries them there: how each stage was reached (`Path`), that
nobody is in the context before a credential was accepted (`NobodyYet`), what the
service token is known to be while its user is still unverified (`Verified`), and
that a request goes on only with one of four contexts (`Admissible`): a system token,
a token with its user, a user alone, nobody. The lemmas on the verifiers say what a
status of 200 implies; they use that the key is chosen by `kid` alone and that a
canonical id is its own canonical form (`TenantAssumption`). Of 403 the invariant says
where a request may already be told it (`Answered`): a gate is reached only by a known
caller or on an excluded route, and there is none behind the net/http adapter
(`Mounted`). The bound on the life of a service token in `CredentialsInTheirTime` takes
both comparisons, of `exp` with the clock and with `iat`; that a token without `exp` has
no service token beside it takes the stage at which it is read.

For every set of rows, columns and whitelists, every sequence of calls and queries,
every page size and every width of int that satisfy the assumptions of `Criteria`
(`Criteria_proofs`): `CriteriaParamsLineUp`, `CriteriaSanitizedConverts`,
`CriteriaMemoryAgreesWithSQL`, `CriteriaPagesPartition`. `CriteriaInv` says that builder
and criteria are well formed, that a page and its size are within their limits, and
that a sanitized criteria keeps its whitelist. The theorems on the SQL then speak of the
loops over the filters, of any length. A loop is a recursive function; that it
exists (`RecursionExists`) and what it computes is shown by induction over a set of
naturals (`NatSetInduction`, from the least element of its complement), since the
provers cannot instantiate an induction rule with an operator parameter. `LinedUp` is
the invariant of `buildWhereClause`: condition i has the placeholders from `start[i]` on,
they hold the values of filter i, and `start` counts the values before;
`FlattenConsecutive` turns that into the numbers from 1 without gap. `AcceptsAsApplied`
compares one operator in SQL and in memory. For the pages it has to be shown first that
the rows can be sorted: `compare` is a strict weak order on a column of one type
(`TextOrder`, `ValueOrder`), so is the lexicographic combination of any list of orders
(`OrdersAsymmetric`, `OrdersNegativelyTransitive`), and every finite set has an order
that respects it (`SortExists`). `PagingInv` then says that the client has read the
first page times size rows of that order; the guard on the last page keeps the offset
below the largest int. Assumed (`CallAssumption`, `ValueAssumption`, `ItemAssumption`,
`ColumnAssumption`): the rows are distinct and one page short of the largest int, a
column has values of one type, as a struct field has, and `created_at` is a column. (A
field of type `interface{}` could mix types; `compare`, `memory_filter.go:220`, is then no
order, and what `sort.Slice` makes of it is not modelled.)

**Only model-checked.** The liveness properties, `EveryCallReturns`,
`CancelledCallersReturn`, `StopReturns`, `EventuallySettled`, `OnlyTheFetcherWaits` and
`Converges`: TLAPS 1.4.5 has no support for fairness and ENABLED. Every invariant and
action property of a passing run is a theorem.

## 5. Not modelled

* The metrics recorder and the event bus metrics on top of it. `Record` ranges over the
  map of labels anew on each call, while a vector keeps the order of label names of its
  first call and takes values by position (`prometheus_recorder.go:38`, `:60`): with two
  or more labels, as in every event of `eventbus/metrics`, values come to stand under
  each other's names. This needs no interleaving, only a second call, and a table test
  that records the same event repeatedly shows it.
* `ModeFor` of the transport (a variable read at start), the DSN and the idle limits of
  the pool.
* Broker adapters (stubs), migrations, CSV import, notifications, compression,
  logging, configuration: no state between calls, or one call into a library.
* Cryptography, PEM loading and the derivation of a kid: the keyring is a constant
  set of keys, each named by its kid.
* Retries of go-redis, which may run a script twice: the client is configured outside
  this repository.
* Subscribing while workers run, and publishers that reuse event IDs: outside the
  documented use.
* Matching of excluded paths (a flag of the route), parsing of rules and of
  environment variables, the choice of the rate-limit key.

## 6. Plan

Done: `S2SClient`, `MemoryStore`/`EventBus`, `RateLimit`, `RefreshingProvider`,
`RequestAuth`, `Criteria`; then `TokenService` with the refinement, `Transport`,
`RowSecurity` and the proofs about the event bus; then the theorems on the rate limiter,
the last two of the client and the last two of request authentication; then the theorems
on criteria, and `AtLeastOnce`, which the event bus implements.

What would come next:

1. The metrics recorder, should its labels get a fixed order.
2. An abstract limiter (a set of admitted instants) that both scripts implement.
