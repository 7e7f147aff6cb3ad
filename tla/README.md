# A TLA+ verification of riskforge

riskforge is a carrier gateway in Go: it takes a quote request over HTTP, asks
every eligible insurance carrier at once, hedges slow ones, and returns the
quotes it has when the deadline passes, cheapest first. Around each carrier
sit a lock-free circuit breaker, a rate limiter and a lock-free latency
average; in front are a cache with singleflight and an HTTP middleware stack.

Most of what can go wrong lies between goroutines: atomics updated one after
the other, a channel that several goroutines send on and one closes, a
deadline that passes while an answer is on its way, a value read before a wait
and used after it. This directory models those parts in TLA+, checks them with
TLC on small instances and proves the central properties with TLAPS for every
instance.

`PROJECT.json` is the index: components, runs, the source lines each
definition models, the mutants, findings, hazards and theorems.

## 1. The system

| Component | State it keeps | Operations | Hard behaviour |
|---|---|---|---|
| Circuit breaker (`internal/circuitbreaker`) | five atomics: state, failures, successes, openedAt, halfOpenInFlight; a gauge | `Execute`, `State` | no lock: callers interleave between any two atomics |
| Fan-out (`orchestrator.fanOut`, `callCarrier`) | results channel, contexts, seen set, collected slice | one goroutine per carrier, a closer, the collecting loop | deadline against sends; who closes the channel and when |
| Hedge monitor (`hedgeMonitor`) | pending snapshot, alreadyHedged | poll, select a candidate, fire | works on a snapshot; its hedges send on the same channel |
| Candidate selection (`selectHedgeCandidate`) | loop-local | one pass | ties |
| EMA tracker (`EMATracker`) | pointer to an immutable state; a gauge | `Record`, `P95`, `HedgeThreshold` | CAS loop; gauge outside it |
| Cache and singleflight (`GetQuotes`, `QuoteRepo`) | singleflight group, Quotes table | lookup, join, save, expire, sweep | check-then-act across lookup and join; shared answers |
| HTTP carrier client (`HTTPCarrier.Post`) | call-local; the caller's `out` | attempt, back off, give up | cancellation racing a timer; retries into one target |
| Middleware (`internal/middleware`) | failure buckets and last visits per IP, semaphore | authenticate, charge, evict, limit, log | check before charge; eviction of a bucket in use; slots on every path |
| Handlers (`internal/handler`) | none | decode, validate, ask, answer | error paths, slow bodies, time limits |
| Server lifecycle (`internal/cli`) | server, signal context, error channel | start, serve, signal, drain, return | a signal at any point of the start; a failing server against a signal; shutdown during requests |
| Rate limiter (`internal/ratelimiter`) | a token bucket whose balance may be negative | `Wait`, `TryAcquire` | sleepers, cancelled sleepers and hedges on one balance |
| Cleanup ticker (`internal/cleanup`) | stop and done channels | `Start`, `Stop`, sweep | outlives the server loop |
| Adapters, metrics, domain, ports, Spanner queries, Terraform | – | translation, declarations | none of their own |

How they interact: `cli.Run` builds AuditLog → SecurityHeaders → RequireAPIKey
→ LimitConcurrency → mux. `handlePostQuotes` validates and calls `GetQuotes`,
which looks in the table, joins the singleflight group and, as leader, runs
`fanOut`. `fanOut` asks each breaker's state, then for each eligible carrier
starts `callCarrier` (limiter, then breaker, then adapter) and next to them
`hedgeMonitor`, which calls adapters directly. Quotes come back over one
channel; the answer is sorted, saved and handed to leader and followers.
Breakers, limiters and trackers are shared by all requests; the table is
shared with the sweeps of the cleanup ticker.

What makes each part correct:

- breaker: one probe at a time; only the probe's owner settles a half-open
  circuit; thresholds and timeout mean what they say; no state is a trap;
- fan-out: no send after close, no sender stuck, no goroutine left behind, no
  quote lost before the deadline, one quote per carrier in order, and it ends;
- tracker: each observation counts once, so the warm-up ends when it should;
- cache: one fan-out per key at a time, answers stay with their client and
  request, saved before handed out, everyone is answered;
- HTTP client: the configured number of attempts with doubling pauses, nothing
  sent once the caller has given up, it returns;
- rate limiter: hedges never overtake a primary call that sleeps;
- failure limiter: nobody is locked out for the failures of others, and the
  failures that get through at once have a bound;
- HTTP server: slots balance, only authenticated valid requests reach the
  orchestrator, nobody misses the write deadline or is cut off by a drain but by
  a time of its own, a failure of the server is what `Run` reports unless it was
  told to stop, every request ends, and `Run` returns whatever hangs.

## 2. Modules

| Module | Models | Proofs |
|---|---|---|
| `Breaker` | `Execute`, one action per atomic operation | `BreakerProofs` |
| `BreakerContract` | the abstract breaker: states and probe slot only | |
| `BreakerHistory` | `Breaker` with history variables for the documented thresholds | `BreakerProofs` |
| `CarrierAdmission` | `Breaker` behind `filterEligibleCarriers` and the token bucket, with hedges | `BreakerProofs` |
| `FanOut` | one `fanOut` with all its goroutines | `FanOutProofs` |
| `FanOutContract` | the abstract fan-out: offers and one answer | |
| `HedgeSelect` | the loop of `selectHedgeCandidate` | `HedgeSelectProofs` |
| `EMATracker` | the CAS loop of `Record` | `EMATrackerProofs` |
| `QuoteCache` | `GetQuotes`, `QuoteRepo` and the sweep | `QuoteCacheProofs` |
| `QuoteContract` | the abstract `GetQuotes`: fan-outs, what they offer, answers | |
| `HTTPCarrier` | `Post` and `doOnce` | `HTTPCarrierProofs` |
| `AuthLimiter` | the failure budgets of `RequireAPIKey` and their eviction | `AuthLimiterProofs` |
| `Gateway` | a request's way through middleware and handlers | `LifecycleProofs` |
| `Lifecycle` | `cli.Run` around `Gateway`, and `main` | `LifecycleProofs` |
| `MCFanOut`, `MCQuoteCache`, `MCLifecycle`, `MCAuthLimiter` | values of the constants for TLC | |
| `MCQuoteHistory` | `QuoteCache` with a history variable for one documented statement | |

`BreakerHistory` and `CarrierAdmission` extend `Breaker`; `Lifecycle` extends
`Gateway`. `FanOut` leaves limiter and breaker open, `QuoteCache` the fan-out,
`Gateway` the cache and the failure limiter: each relies on the module that
models the part it leaves open, as said below.

**Breaker.** The variables are the five atomics (openedAt as its age), the
gauge, and for each caller its next operation and the timestamp it holds. A
compare-and-swap is one action whose winner and loser go different ways; a
clock read and the store of what was read are two. The clock is an age that
stops growing at `OpenTimeout`, because it is only ever compared with that; so
the state space is finite without a bound on time. `failures` and `successes`
are unbounded naturals in the model; the code's own transitions keep them
small. `BreakerContract` forgets counters and clock. `ContractHolds` says that
the breaker implements it with `probing` mapped to the callers between the
slot's CAS and the deferred store.

**BreakerHistory** adds what an observer of the calls would count. Its
properties come in pairs: the documented statement for calls in any
interleaving, which is refuted, and the same for executions in which no two
calls have overlapped so far, whoever makes them, which holds.

**CarrierAdmission** is one carrier as all requests share it. A primary call
passes the filter, then `limiter.Wait`, then `Execute`; a hedge reads the
breaker, tries to take a token, and calls the adapter past the breaker. The
bucket is `golang.org/x/time/rate`'s: `Wait` takes its token at once, so the
balance may become negative, and sleeps for as many refills as that costs; it
refuses at once if the deadline is nearer than that; a cancelled sleeper gives
its token back unless a later one counts on it. `turn` is the number of
refills a sleeper still waits for. Refills and the breaker's clock are
independent of each other.

**FanOut.** A carrier is its position. What limiter, breaker and carrier
answer is nondeterministic, since other requests share them, and so is the set
of carriers past their hedge threshold at each poll. A poll fixes the list of
carriers to visit, and each visit is an action, so everything else may happen
between two of them. `HedgeCtxDone` is derived: the hedge context ends with
the request's, or when the closer has seen all primaries return. The two cases
of a select with both ready are both possible. The sort is by rank in the
code's comparison: `Place` of an element is the number of elements up to it.
Saving is left to `QuoteCache`.

**FanOutContract** is what remains for `GetQuotes`: offers are obtained from
the carriers asked, handed over (the first of a carrier counts) or lost, and
one answer holds the quotes that count, in order, when nothing is due any
more. A primary's offer may be lost only after the deadline, a hedge's also
once no primary has one to hand over. `AnswersByContract` says that `FanOut`
implements it: an offer is due while its sender is at the select, and counts
as soon as it is in the channel. That only carriers that cover the request are
asked is what `QuoteCache!RunFanOut` relies on.

**HedgeSelect** is separate so that the loop can be proved to compute the set
`Best` that `FanOut` uses.

**EMATracker.** The average depends on the seed and the sequence of latencies
folded into it, so that sequence stands for the floating-point value.

**QuoteCache.** A request has an API key, a request id and coverage lines, the
last as the set of carriers that cover them. Keys and ids are sequences of
characters, because what `RequireAPIKey` and `scopedKey` do with them matters:
a client id is the first `IDLength` characters of an API key and dots, or a
short key as a whole, and the key of cache and group is client id, colon and
request id in one string. Two pairs of a client id and a request id may
therefore have one key; they do not if the client ids are `Separable`: equally
long, as those of all keys of more than 8 characters are, or without a colon.
`AnswersAreOwn` is stated for those, since neither `Run` nor the documentation
asks more of an API key than not to be empty. The clients of the run have
colons in their ids; `MCQuoteHistoryDocs.cfg` adds a short key whose id is not
Separable from another one's, and one that begins like another. A fan-out returns any subset of the carriers
that cover the leader's lines; a quote names its carrier and the fan-out it
came from, which is what the ownership properties speak of. Rows die one by
one at any time; a sweep removes any non-empty set of dead rows (a partitioned
delete is not atomic). Save succeeds as one commit or fails and is only
logged. Requests without an id do not pass the handler's validation and are
left out.

**QuoteContract** is what is left of `GetQuotes` for its callers. A request
starts a fan-out when none runs for its key, joins one that does, or reuses
what fan-outs for its key have put on offer; it is answered once, with the
whole result of the fan-out it started or joined, once that has ended, or with
some of the quotes on offer, no two of a carrier. A fan-out that has found
something puts it on offer before it ends. `AnswersByContract` says that
`QuoteCache` implements it: a fan-out runs while its request is in `InFlight`,
its quotes are on offer from the end of its save, and expiry, sweeps and saves
that replace or fail are invisible. That the offer stands although the save
may have failed, or its rows may be gone, is deliberate: nothing promises that
a later request hits, only what a hit may consist of.

**HTTPCarrier.** One call. `out` records, field by field, the attempt that
wrote it, because `encoding/json` fills fields before it reports a type error.
A request under a context that is done is not sent: that is `net/http`'s
behaviour.

**AuthLimiter.** Every operation on one of the two `sync.Map`s, and on a
bucket, is a step. A bucket is an object with an identity, so that a handler
may charge one that the sweep has taken out of the map; names are used again
once nobody refers to them, and the ASSUME asks for one name per IP and
handler. A handler calls `getOrCreate` twice, for the look and for the charge,
and may get two different buckets. `lastSeen` is None, fresh, or older than
the five minutes after which the sweep evicts. `Refill` is six seconds,
`Age` five minutes without a request of the IP; both are independent per IP.
`failed` and `burst` are histories: an IP's failures that tokens have not come
back for, and those between two refills.

**Gateway** is a request's way: it carries a path, a token and a body reduced
to what validation tells apart. What the failure limiter says is open, and so
is whether the cache has an answer. The fan-out returns any outcome the
constant `Outcomes` allows (the orchestrator in this repository never returns
an error, so 500 and 504 stay unused in the program as it is), and a request
may join the fan-out of another one: then it waits for that one's timeout and
gets that one's outcome. Which requests have one key is `QuoteCache`'s subject;
here any two may.

Time passes where a request waits for somebody else, and in those places only:
for the rest of its body, until the server's `ReadTimeout`, when the body counts
as refused; in the cache lookup, which runs under the request's context and may
take for ever; and in or for a fan-out, no longer than the leader's timeout plus
Save's. `spent` is the time of the first two, up to `Horizon`, and `waited`
that of the last. Computation, and the writing of the answer to a client that
reads it, take no time: that is an assumption, and the one on which
`OnlyLongRequestsSuffer` rests. Where the write deadline has passed when the
handlers are through, the answer is not delivered.

**Lifecycle** is `Run`: no keys and no database connection are early returns,
a signal may come from `NotifyContext` on, `ListenAndServe` may fail before or
after it has served, and a failure and a signal may be ready at once, when
`select` takes either. `Shutdown` waits for requests, up to its own deadline;
a connection that had not sent its request yet may still do so for
`NewConnGrace` (five seconds in `net/http`). The deadline of the drain ends it
whoever is still there, and a lookup that hangs may be. When `Run` returns the
process exits, and handlers stop.

## 3. Runs

Passing runs:

| Run | Instance | Shows |
|---|---|---|
| `breaker` | 2 callers, thresholds and timeout 2 | the probe slot is exclusive; the contract is implemented; no state is a trap while calls reach `Execute`; without overlapping calls thresholds, timeout and gauge are exact |
| `admission` | 2 callers, 1 hedge, thresholds 1, burst 1, waits of up to 2 refills and one more | an unattended open circuit never leaves Open; half-open ones are resolved; hedges do not overtake |
| `fanout` | 3 carriers, 2 with adapters, 2 warm | channel, goroutines, answer, termination, `FanOutContract` |
| `ema` | 4 recorders, warm-up 2 | no observation lost or repeated; the loop ends |
| `quote_cache` | 4 requests with 1 id, 3 of them of one of 2 clients, colons in both client ids, 2 carriers, 2 sets of lines | one flight, own answers, saved first, all answered, `QuoteContract` |
| `http_carrier` | 3 retries, 2 response fields | attempts, pauses, cancellation, return |
| `gateway` | `Run` with 2 requests, 9 kinds of input, 1 or 2 slots, limits of 3 units | validation, slots, time limits, slow bodies, hanging lookups, shared fan-outs, ends of `Run`, progress |
| `auth_limiter` | 2 IPs, 2 handlers, burst 1 | a bound on concurrent failures; lockouts are earned |

Why the bounds suffice: the breaker's races are between a caller that has won
a compare-and-swap and one that comes in before its next operation, hence two
callers (the theorems below cover any number); a threshold of 2 tells
"reached" from "one short". A sleeper, one behind it and a hedge are all that
compete for a token. Hedges need a slow carrier, a target and a third
one that competes; with three, a carrier may answer as a primary and as a
hedge in either order, and one that has no adapter still triggers a hedge. In
the cache, leader and follower or leader of a second fan-out, a third request
that may hit what both have saved, and a stranger are four requests. The gateway's
limits are scaled so that the largest timeout equals read and write deadline and
drain window, as in the code, and the default with Save stays below them; one
request asks for the longest timeout, the other for the default or anything
else, so either may follow a longer or a shorter fan-out; one request holding
the only slot and one refused is the whole of the contention, and with two
slots one may follow the other's fan-out. The failure limiter's races are
between two handlers of one IP, or one and the sweep; the second IP is there
for evictions and buckets that must not touch it. `auth_limiter` uses symmetry
of IPs, handlers and buckets, and checks no liveness; `MCAuthLimiterLarge.cfg`
has a burst of 2 (2.5 million states, five minutes). No state constraint is used: every
instance is finite by itself (in `AuthLimiter` the failures between two
refills are bounded by what `FailuresAreBounded` says).

Every property of a passing run has a mutant in `PROJECT.json`: a plausible
slip in the code's own terms, under which TLC refutes the property.

Four runs end in a counterexample. Each states what a comment or a document
of the repository says, and TLC shows an execution that does otherwise;
"findings" in `PROJECT.json` quote the lines.

| Run | What is said | What happens |
|---|---|---|
| `breaker_early_probe` | an open circuit waits for its timeout | state is set to Open before openedAt, so a caller in between probes at once |
| `admission_never_probed` | after 30 seconds one probe is let through | the filter hides an open carrier from the only code that could close it |
| `fanout_hedges_finished` | pending holds in-flight calls | carriers that have answered still trigger hedges |
| `gateway_failure_dropped` | nil on clean shutdown, error on failure | a failure that meets a signal is dropped by `select`, and `Run` returns nil |

The `*Docs.cfg` files hold further statements of that kind, and check the type
invariants of the modules next to them. They are not part of the runs. Each refuted statement is
refuted by TLC when its configuration is cut down to it; checked alone, the type
invariants in those files hold, and so does `AnswersAreOwn` in
`MCQuoteHistoryDocs.cfg`. `MCHedgeSelect.cfg` checks `HedgeSelect` on every slice
of 3 over 2 averages and 2 priorities; it is no run, since the theorem about it
needs no assumption a run would have to evaluate and covers every slice.

| Configuration (module) | Statement | What the repository says | What happens |
|---|---|---|---|
| `MCBreakerDocs` (`BreakerHistory`) | `ClosesAfterSuccesses` | SuccessThreshold is "the number of consecutive successes in HalfOpen before" the circuit closes (`domain/carrier.go:21`) | a probe from an earlier half-open period leaves its success in the counter |
| | `TripsAfterFailures` | FailureThreshold is "the number of consecutive failures that opens the circuit" (`domain/carrier.go:19`) | the failure counter is reset after the circuit has closed, so one failure may trip it |
| | `GaugeShowsState` | "sets the current circuit breaker state gauge" (`ports/metrics_port.go:44`) | two transitions report in the other order |
| `MCAdmissionDocs` (`CarrierAdmission`) | `ProbeIsAlone` | in HalfOpen "exactly one request is allowed through" (`circuitbreaker/breaker.go:6`) | a hedge calls the carrier next to its probe |
| | `HedgesAvoidOpen` | a hedge goes out "skipping carriers whose circuit is open" (`docs/architecture.md:53`) | the circuit opens between the reading of the breaker and the call |
| `MCEMATrackerDocs` (`EMATracker`) | `GaugeShowsAverage` | "sets the current EMA p95 latency gauge" (`ports/metrics_port.go:47`) | two Records report in the other order |
| `MCFanOutDocs` (`MCFanOut`) | `RequestIDEchoed` | "RequestID echoes the originating QuoteRequest.RequestID" (`domain/quote.go:49`) | hedged quotes lack it |
| | `DeadlineKeepsAnswers` | "the carriers that already answered are returned" (`docs/architecture.md:49`) | at the deadline an answer already counted may be dropped |
| `MCQuoteHistoryDocs` (`MCQuoteHistory`) | `ClientIDsAreSeparate` | scoping "prevents different API key holders from sharing or stealing cached results" (`orchestrator.go:374`) | a short API key that is the start of another one up to a colon shares keys with it |
| | `ClientsAreSeparate` | "two clients cannot read each other's cached quotes" (`docs/security.md:17`) | API keys with the same first 8 characters share entries |
| | `ConcurrentShareFanOut` | "Concurrent identical requests share one fan-out" (`README.md:48`) | a request may miss the cache before a fan-out ends and join after it |
| | `AnswersFitLines` | "Carriers are selected by the coverage lines they declare" (`README.md:49`) | a follower, or a cached answer, has quotes for another request's lines under the same request id |
| | `SaveKeepsLiveRows` | "ON CONFLICT DO NOTHING semantics" (`ports/repository_port.go:15`) | Save replaces live rows |
| `MCHTTPCarrierDocs` (`HTTPCarrier`) | `ZeroDisablesRetries` | "Set to 0 to disable retries" (`adapter/http_carrier.go:26`) | 0 becomes 3 |
| | `RetriesOnlyFailures` | "retries on network errors and HTTP 5xx responses" (`adapter/http_carrier.go:79`) | an undecodable 2xx is retried |
| | `AnswerIsOneResponse` | "decodes the JSON response into out" (`adapter/http_carrier.go:78`) | an answer may mix fields of two responses |
| `MCLifecycleDocs` (`MCLifecycle`) | `HealthIsOK` | "the endpoint always answers `ok`" (`docs/architecture.md:61`) | health routes get 503 at the concurrency limit |
| | `AuditNamesClient` | requests are logged with "a truncated client id" (`docs/security.md:18`) | the audit line never names the client |
| | `AnswersAreDelivered` | "When it expires, the carriers that already answered are returned" (`docs/architecture.md:49`) | the longest timeout outlasts the write deadline |
| | `AnswersAreInTime` | the same line: a request waits for its own timeout | a follower waits for the leader's |
| `MCAuthLimiterDocs` (`MCAuthLimiter`) | `BurstIsTheLimit` | "This eliminates the TOCTOU between a separate check and record step" (`middleware/auth.go:45`) | look and charge are separate: every handler past the look adds a failure, and so again for every token that comes back |
| | `EntriesAreEvictable` | "evicts entries older than ttl every interval" (`middleware/auth.go:70`) | an IP that returns between the two deletes of the sweep keeps its bucket for ever if it does not return again |

### Fairness

- Breaker: each started call goes on (the scheduler runs it, and a carrier
  call ends with its context), and the clock advances. For `OpenIsProbed` also
  that calls keep arriving at `Execute`; what happens when the filter prevents
  that is the subject of `CarrierAdmission`, which assumes instead that
  requests keep arriving at the filter, that the bucket is refilled, and, by
  strong fairness, that deadlines are not always too near to take a token nor
  always nearer than the refill a sleeper waits for. Hedges are never assumed
  to act.
- FanOut: the deadline passes; a wait on limiter or carrier is only fair once
  its context is done, so a carrier may hang until then; sends, visits and
  channel operations are runnable goroutines. `MonitorDone` is strongly fair:
  Go chooses at random between two ready cases, so a monitor whose context is
  done does not take the ticker for ever.
- QuoteCache: every step but the lookup is fair, since each is bounded by a
  timeout; in particular a fan-out ends by `FanOut!Terminates`. The lookup has no
  deadline, so `EveryoneAnswered` speaks of requests whose lookup has ended.
- EMATracker, HTTPCarrier: loops are goroutines that are scheduled; an attempt
  ends by its own timeout.
- Lifecycle: `Run` and each handler are goroutines that are scheduled as long as
  the process lives; bodies and fan-outs end by their timeouts, which are reached
  because time is fair; `Shutdown` polls, and ends by its deadline. A lookup is
  not fair: `RequestsEnd` speaks of requests that are not in one for ever, and
  `RunEnds` holds although others are. Arrivals, signals and failures of the
  server are not assumed.
- AuthLimiter has safety properties only.

## 4. Proofs

All theorems hold for every value of the constants that satisfies the
modules' ASSUMEs.

- **BreakerProofs**, for `Breaker`, `BreakerHistory` and `CarrierAdmission`.
  `TypeCorrect`: type invariant by cases on the operations.
  `ProbeIsExclusive`: `ProbeExclusive` is inductive together with `TypeOK`,
  since it ties the slot's value to the positions of the callers; without that
  half the CAS on the slot would tell nothing about who holds it. Lemma
  `SlotStep` groups the operations into those that take the slot, free it, or
  stay on their side. `ImplementsContract`: every operation maps to a step of
  `BreakerContract` or to a stutter. Operations that keep everyone on their
  side of the slot and leave `state` alone stutter; the three CASes on `state`
  and the two ends of a probe are the cases with content, and the settling
  CASes need `ProbeExclusive` to know that the mover is the only holder.

  Calls that do not overlap: `LoneInvariant` is the invariant of
  `BreakerHistory` for that case. While `alone` holds at most one caller is
  inside `Execute`, and for each of its positions the invariant gives what
  every counter, the timestamp and the gauge are against the history's streak,
  wins and age (`InClosed`, `InOpen`, `InHalfOpen`). `LoneTrips`, `LoneProbes`,
  `LoneCloses` and `LoneGauge` are read off it. Nothing is claimed once two
  calls have overlapped: that the same statements fail then is what
  `breaker_early_probe` and `MCBreakerDocs.cfg` show.

  Admission: `HedgesComeSecond`: `PrimariesFirst` rests on `Debt`,
  which says that those asleep are owed different refills, none of them beyond
  what the balance is short of. That they differ is what makes the test of
  `Reservation.Cancel` for a later reservation enough: a token is given back
  only by the last in the row. `OpenIsForEver`: only admitted callers are inside
  `Execute` (the invariant), so with nobody admitted and the circuit open no
  step but the clock's and a finishing filter is enabled, and the filter reads
  Open. Proved as []([]-form) from the step lemma.
- **FanOutProofs.** `CloseIsSafe` and `ReturnIsLast` from an invariant in two
  parts: where goroutines may be for each position of `main` (`Positions`),
  and the chain of handovers from primaries and hedges to monitor, closer and
  collector (`Handover`). `RoomForAll`: with `Sends`, which counts what is in
  the channel against the primaries and hedges that are done; the one about to
  send is not among them, so there is room for it. `AnswersAreSorted` (its
  `ReturnedSorted` is part of what `FanOutContract` asks of an answer, so the
  run does not list it): with one quote per carrier (`Answering`) no two are equal in `Cheaper`, so `Place` is
  injective on positions, hence a bijection, and `Sorted` follows it
  (`SortedIsInOrder`). `ImplementsContract`: the first quotes of what was sent
  change only with a send (`FirstOfAppend`), not when a duplicate is dropped
  (`FirstOfDrop`); a send is a `HandOver` or a `Lose`, the return is `Answer`.
  `NoAnswerLost` adds `Accounted`: before the deadline a success is at its send
  or counts, and what counts has a source. With `RoomForAll` these are all the
  safety properties the `fanout` run checks.
- **EMATrackerProofs.** `NoneLostNoneTwice`: the state has as many entries as
  there are Records past the loop, all different; the winner of the CAS is the
  only one to change either, by one.
- **HedgeSelectProofs.** `SelectionIsCorrect`: the usual loop invariant, the
  best so far beats every candidate before `i`.
- **QuoteCacheProofs.** One invariant of five parts: types, the group names
  every running flight, everything that carries a quote (row, answer, leader)
  carries its key, what is in the table or at its end has been saved, and
  `SavedBeforeAnswered`. `AnswersStayWithTheirKey` has no hypothesis: that equal
  scoped keys of Separable clients have equal parts is the lemma `PartsAreUnique`
  about the joined sequences, and the third part of the invariant gives equal
  keys.
  `ImplementsContract` adds three parts: the group names only fan-outs that
  run, and a request has no leader and no quotes before it joins (`Placed`);
  a row's quote is one its fan-out brought (`Sourced`); and no other row has
  its key and carrier (`Unrivalled`), which Save keeps because it replaces, and
  expiry because it is the same row. Then a hit is a `Reuse`, a miss a stutter,
  entering the group `Start` or `Join`, the fan-out `Find`, the save `Offer`,
  its end `End`, a wake-up `Share`, and the table on its own stutters.
- **HTTPCarrierProofs.** One invariant ties the position in the loop to the
  attempts made and the pauses taken. `SendsOnlyWhileWanted` and
  `ExhaustedIsExhausted` follow from it. `BackoffIsExponential` has a
  hypothesis, `PowersOfTwo`: 2^0 = 1 and 2^(n+1) = 2 * 2^n for every natural n.
  It is true in TLA+'s definition of `^`, of which the installed provers know
  no more than that the result is a number.
- **AuthLimiterProofs.** `LockoutsAreEarned`: what a bucket lacks is covered by
  the failures of the IP it is used for (`Paid`), and no bucket, evicted or
  not, is used for two IPs (`Apart`); both need that a handler holds a bucket
  exactly while it looks or charges (`Holding`). It holds with the sweep
  running, so no race of eviction and creation locks an IP out.
  `FailuresBounded` counts. What one bucket lets through is the burst and the
  handlers past the look when the last token goes, all but the one that takes
  it (`Budget`). `Bounded` says, for each IP, that its failures and what is
  still certain to come (tokens left and late charges of an evicted bucket, or
  with no token left the handlers past the look) fit into one `Budget`, or two
  once the sweep has evicted. There is no third, because an IP the sweep has
  found idle uses one bucket only (`Doomed`), and being found idle again takes
  minutes, with refills in between. The invariant needs the sentinel None to
  differ from the two values of `lastSeen`, which `LimiterConfig` states.
- **LifecycleProofs.** One invariant: the types that matter (`Shape`), the
  balance of slots, the key behind every request past authentication
  (`Known`), and that `Run` has no result before it returns (`Exits`). It gives
  `SlotsAreBalanced` and `QuotesAreForClients`.
  `LimitsAreEnough` adds `Times`: leaders have led a fan-out and follow nobody
  (`Sharing`); a request has waited for a fan-out no longer than its leader has,
  nor than the leader's timeout and Save allow; and a drain is no older than any
  request it waits for, give or take the grace for new connections (`Ages`). The
  property is one of steps: what a request's own time was is known only when it
  is audited or cut off, and from the invariant it is what the clocks say.

Every safety property and every refinement that a passing run checks is a
theorem, `BackoffDoubles` under the hypothesis named above;
`SelectionIsCorrect` has the types of its constants as hypotheses, of which the
proof uses that averages and priorities are numbers. Left to TLC: every liveness
property, since proofs under fairness need ENABLED; and, of the data, the two
equations of `PowersOfTwo`, which `http_carrier` evaluates for its exponents.

## 5. Not modelled

- Adapter registry, generic adapters, mock and Delta carriers: lookups in a
  map that no longer changes, and field-by-field translation. `cli.Run` wires
  mock carriers only; `HTTPCarrier` is modelled as the package offers it.
- Spanner carrier and appetite repositories: read-only queries, one of them
  without a caller. That `ListActive` fills no `Capabilities` is a fact about
  data the documentation states itself.
- Metrics, except the two gauges whose order of updates matters.
- The defaults `cli.Run` fills in where a configured value is zero: a
  computation without state. That a configuration may hold values the
  constructors call invalid is outside the modules' ASSUMEs.
- The loop of the cleanup ticker: it decides when a sweep happens, and
  `QuoteCache` allows one at any time. `Ticker.Stop` has no caller in the
  program; `Start` ends with the process.
- `Handler.Shutdown` and the database branch of `/readyz`, which the program
  does not use; security headers.
- Arithmetic of the floating-point average; money, currencies, formatting and
  logging.

## 6. Plan

Done so far: the modules and proofs above. What remains, in order:

1. A composition of `FanOut` with `CarrierAdmission` for one half-open carrier
   among others: request timeouts that count as the carrier's failures.
2. Partial expiry of a cached answer, once it is settled what a hit means, and
   a property of what Save replaces that the code keeps.
3. Theorems: type correctness of the modules whose invariants carry their types
   only in part (`Lifecycle`), and `BreakerContract`'s own consequences, such as
   that a half-open circuit is settled by a probe begun in that period.
