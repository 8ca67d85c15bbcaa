# TLA+ models of blobhttp

blobhttp (this repository) is an HTTP client library with a C ABI and three
hosts: a DuckDB extension, a SQLite extension and a Python package. It paces
requests with GCRA rate limiters, sends them in concurrent sub-batches, resolves
a scoped configuration for each, fetches secrets from Vault (with a Vault token
obtained by OIDC and Kerberos), and runs LLM completions with continuation and
schema validation.

This directory models the parts of it that keep state or decide something, checks
them with TLC on small instances, and proves the main safety properties with TLAPS
for every value of the constants. Paths below are relative to the repository.

## 1. Inventory

| Component | State | Operations | What is hard about it |
|---|---|---|---|
| GCRA limiter, `include/rate_limiter.hpp`, and `AcquireRateLimit`, `RecordResponseStats` in `src/blobhttp_core.cpp` | `tat_`, counters; no lock | TryAcquire, WaitTime, RecordRequest, RecordPacing, RecordThrottle, RecordResponse; the retry loop | several threads use one limiter through bare pointers; a 429 changes the timestamp the others are computing with; one timestamp stands for the whole history; tokens are taken before the sub-batch is sent |
| LRU pool and registry, `include/lru_pool.hpp`, `RateLimiterRegistry` | list, index, mutex | GetOrCreate, Get, Size, ForEach | list and index must agree after every hit, insert and eviction; returned pointers outlive the lock |
| Batch execution and statistics, `bh_batch_perform`, `bh_rate_limit_stats_json` and the global limiter | pending requests, results; process-wide registry and global limiter | resolve, take tokens, send, record; read the statistics | limiter lookups whose results are used unlocked; errors between sub-batches; `max_concurrent` at its edges |
| Configuration, `ResolveConfig` and `HttpConfig::MergeFrom` in `include/http_config.hpp` | the config being built | apply default, scan scopes, apply the best | the result must not depend on the order of scopes; precedence by field |
| Vault secrets and credentials, `ResolveVaultAuth`, `ResolveVaultSecrets`, `FetchVaultSecret`, `BuildSession` | secret cache with a TTL, mutex | log in, check, fetch (unlocked), store, choose the credential | check and store are separate critical sections; racing fetches store in any order; nothing reacts to a revoked token; a request must not go out with the wrong credential |
| Vault token, `src/blobhttp_oidc.cpp` | token cache with expiry, mutex | check, a chain of four requests (unlocked), store | lifetime counted from the store; short leases; racing logins |
| LLM loop, `LlmCompleteLoop` in `src/blobhttp_llm.cpp` | two nested loops, two message bodies, statistics | post, continue, validate, correct | termination and limits; what is carried from one attempt to the next |
| Functions that return a string: completion, adapter, SSO, Negotiate, statistics, in `src/blobhttp_llm.cpp`, `duckdb_ext/src/`, `sqlite_ext/src/`, `python/blobhttp/` | a thread-local message, the string to free, the row | parse arguments, call, unpack, write a row | a failing row after completions that were paid for; whose message is shown; freeing on every way out |
| Batch handle and hosts, C ABI in `src/blobhttp_core.cpp`, `duckdb_ext/src/bhttp_functions.cpp`, `sqlite_ext/src/bhttp_sqlite.cpp`, `python/blobhttp/__init__.py` | the handle, a thread-local error message, DuckDB's output vectors | new, add, perform, accessors, free | grouping rows by configuration, index arithmetic between chunk and batch, shared list child of the MAP columns, early returns that must free |
| Response bodies, `IsValidUtf8`, `Base64Encode`, `bh_result_json` | none | check, encode | limits of UTF-8; lengths not divisible by three |
| Extension loading, `duckdb_ext/src/bhttp_ext.cpp`, `sqlite_ext/src/bhttp_sqlite.cpp`, `sql/` | the engine's catalogue | register functions and macros in order | a macro whose functions are not there yet; failures ignored or reported |
| Connection sharing, vendored code, build files, tests | none or a library's | | not modelled, see section 7 |

Interactions. A host call (HostCall) makes a batch; `bh_batch_perform`
(BatchPerform) resolves each request's configuration (ConfigResolve), with the
Vault token it may log in for (VaultToken, inside VaultResolve) and the secret
fetched with it (VaultResolve); it looks limiters up in the registry (LruPool) and
takes tokens from them (AcquireRateLimit, WireRate); it sends and records. The
result goes back through an envelope (Encoding). An LLM completion (LlmLoop, inside
LlmCall) takes the same limiter steps per POST. The caches, the registry and the
global limiter are process-wide; everything else belongs to one call. There is no
persistence, hence no crash recovery, and no messages between processes beyond HTTP
requests, each of which is answered, fails or times out.

## 2. Modules

| Module | Models | State in the model |
|---|---|---|
| `RateContract` | what a rate limiter promises, over the whole grant history (abstract) | grants, the end of the latest back-off |
| `AcquireRateLimit` | one limiter under any number of threads | `tat`, counters, and per thread the registers between a load and a store |
| `WireRate` | the same, with when each sub-batch is sent; extends `AcquireRateLimit` | the history of sub-batches |
| `LruList`, `LruPool` | the `std::list` operations; the pool | list of nodes, index |
| `BatchContract` | what `bh_batch_perform` promises each caller, whatever limiters pace it (abstract) | per caller the batch, how many requests were sent and answered |
| `BatchPerform` | `bh_batch_perform` and the statistics reader on any number of threads; uses `LruList` | registry, global limiter, a record per thread with the loop indices and the pointer held |
| `ConfigResolve` | one resolution | the loop's locals, the config |
| `VaultToken` | `VaultTokenFromJwt` and the chain behind it | the token cache, per thread the login in progress |
| `VaultResolve` | a request's way from its configuration to its credential; extends `VaultToken`, whose login it calls | the secret cache, per thread the configuration, stage and secret, one revocation |
| `LlmLoop` | `LlmCompleteLoop` | the loop's locals, the two bodies |
| `LlmCall` | the functions that return a string, in the three hosts; extends `LlmLoop`, which a completion runs | the call, its row, message and buffer |
| `Encoding` | UTF-8 check, Base64, the body of the envelope (operators) | |
| `HostCall` | a call of a host over the C ABI; uses `Encoding` | a record per thread: the handle, the message, the output |
| `ExtensionLoad` | the entry points of both extensions | the catalogue, what was refused and reported |
| `MC*` | small instances | |
| `AcquireProofs`, `LruProofs`, `BatchProofs`, `ConfigProofs`, `VaultProofs`, `LlmProofs`, `HostProofs`, `LoadProofs` | theorems and proofs about `WireRate` (and the limiter it extends), `LruPool`, `BatchPerform`, `ConfigResolve`, `VaultResolve` (and the login), `LlmCall` (and the loop), `HostCall` (and `Encoding`), `ExtensionLoad` | |

How code becomes actions:

* A read-modify-write of an unlocked field is two steps, a load into a register of
  the thread and a store (`TryAcquire`/`StoreTat`, `RecordThrottle`/`StoreBackoff`,
  `CountLoad`/`CountStore`). The outcomes of a data race are the interleavings of
  these.
* A critical section is one step; what runs between two of them (a fetch, a login)
  is a step of its own, so that everything may happen in between.
* A lookup that returns a bare pointer, and the use of that pointer, are two steps
  (`HostLimiter`/`UseHost`, `GlobalLimiter`/`UseGlobal`, `RecordLimiter`/
  `UseRecord`, `StatsSnapshot`/`StatsGlobal`).
* Text is abstracted to what is compared. A scope in `ConfigResolve` is whether it
  is a prefix of the URL, or a parent domain, and its lengths; an LLM answer is the
  list of the POSTs its parts came from; a secret is the instant it was served; a
  credential is where it came from; a limiter is an identity and its rate; a request
  is its row. A response body is its bytes, because `Encoding` is about them.
* Each definition whose name has a suffix (`Allows_Open`, `End_One`, ...) stands
  just before the definition it varies. It is a plausible bug in the code behind
  that definition, and TLC finds a property violated when it takes its place; the
  specification itself never uses it.

## 3. What is checked

Runs that pass:

* **AcquireOneThread.** One thread, a burst of two and a half intervals, Retry-After of
  zero and of five ticks, four requests. `ImplementsContract`: the single timestamp
  implements `RateContract`, in which any k consecutive grants span at least k intervals
  less the burst window, and no grant is earlier than a burst window, less an interval,
  before the end of a back-off: as in the code, a caller may get the tokens of a burst
  while the server's Retry-After is still running. `OneRetryEnough`: a lone caller is
  denied at most once per call, if the burst is at least one. `StatsExact`: between
  sub-batches the counters agree with what happened. `WireConforms`: tokens are taken one
  by one and requests sent together, so one sub-batch may put more than a burst on the
  wire; from one sub-batch to any later one the requests still fit the rate, those without
  a token counted too; four requests are the fewest for which the bound bites. (With a
  burst below one, requests go out without tokens and the property is false.) The burst is
  fractional so that an off-by-one in the window shows, and the back-off longer than the
  window so that it denies.
* **AcquireContention.** Two threads, two requests each, one retry, so that a sleeper
  finds its token gone and gives up. `BacklogBounded`: however loads and stores
  interleave, the limiter never owes more than a burst window plus every Retry-After
  received (an upper bound: that a back-off may be lost it does not show).
  `StatsNeverInvented`: threads may overwrite each other's increments, so the counters
  lose requests, but none ever exceeds what happened. `CallsBounded`: each step of a
  thread, whatever the others do, leaves it fewer steps to take until its call returns, so
  contention cannot keep it in the retry loop.
* **LruPool.** Capacity three, four keys, six operations: enough to fill the pool,
  reorder it by a hit on each place and evict twice. `ListAndIndexAgree`, and
  `ValidUntilEvicted`: a step only ever drops the least recently used entry of a full
  pool, and never replaces a value in place.
* **BatchTwoThreads.** Two threads, two calls each, each a read of the statistics or a
  batch of one of seven shapes: empty, several sub-batches, a partial last one,
  `max_concurrent` of zero, no limit, an unresolvable request, a bad rate, a bad global
  rate. `EachSentOnce`: sub-batches partition the batch, and a batch with an unresolvable
  request sends nothing. `TokensBeforeSend`. `UsesConfiguredRate`: with one rate for each
  host, and no more hosts than the registry holds, recording a response, which looks the
  host up with the default rate, never changes the rate a request is paced with; run
  BatchRateLost is the case without room. `PointersLive`: threads that agree on the global
  rate and use no more hosts than the registry holds never use a freed limiter, neither to
  pace nor to report. `PerformReturns`: liveness. `ImplementsContract`: what each caller
  sees of its call is a behaviour of `BatchContract`: requests go out in order, at most
  `max_concurrent` in the air, each sub-batch after the one ahead is answered and
  recorded, and a failure strikes only in between, so that every request sent has its
  response recorded. The threads are mapped to callers that share nothing, so the
  refinement also says that no interleaving over the shared limiters shows in what a
  caller sees.
* **VaultResolve.** Two threads, two logins of which one is fully configured, one secret,
  leases on both sides of twice the margin, a fetch as long as the TTL, seven
  configurations that reach every branch of the choice of a credential, Vault refusing at
  any time and revoking its tokens once. `BoundedStaleness`: no request gets a secret
  served longer ago than the TTL plus a fetch. `RegressionBounded`: a late store puts back
  a secret older by at most a fetch. `TokenOutlivesUse`: a token is handed out with its
  reserve of the lease left, less one login. `OutageStaysOver`: nothing drops a revoked
  token, so requests fail with it until its entry expires and a login replaces it (how
  long, `TokenOutlivesUse` says); a login that was under way at the revocation may store
  its dead token over the live one and begin the outage again, but only within one login
  of the revocation. `SecretOrNothing`: a bearer request that names a secret, and has a
  way to log in, goes out with that secret, or the caller's own header, or not at all.
* **ConfigResolve.** Every list of up to four of ten scopes, in every order.
  `BestScopeChosen`: the longest prefix, or else the longest domain. `FieldPrecedence`:
  each field comes from that scope if it gives one, else from the first default, else it
  is the hard-coded value; a shorter matching scope that gives it is ignored. Four entries
  let a domain, two prefixes and the default meet in every order.
* **LlmCall.** Every host, every function that returns a string, one or two rows of
  every kind, up to three POSTs in each of two attempts, every answer free. Of the
  loop: `RequestsBounded`, `StatsAddUp`, `AnswerWhole` (the answer is the parts of
  one attempt in order, the last one not truncated), `TurnsAlternate`,
  `CorrectionsCarried` (an attempt sees every failed answer, whole, and no
  continuation of another attempt). Of the call: `RowsStopAtError` (rows before the
  failing one are entered and written once, in order, and none after it enters the core),
  `ReportsOwnError` (never a message kept from an earlier row or call),
  `StringsFreed`, `SchemaMeansJson`, and `CallReturns`, liveness.
* **HostCall.** Two threads; DuckDB chunks of up to three rows over two configurations,
  SQLite and Python calls, failures at every place, bodies on both sides of every limit of
  UTF-8 and of every length modulo three. `RowsMatched` and `MapsMatched`: every row gets
  its own result, made with its own configuration, and its own headers. `BodiesSurvive`:
  every body is recovered from its envelope, which is UTF-8 by the standard's table.
  `PrefixSent`: however a call ends, the rows sent are a prefix, each once, and end where
  the cause of the failure says; what earlier groups of a chunk sent stays sent.
  `HandlesFreed`. `OwnErrorReported`: although DuckDB frees the batch before it reads the
  message, each host reports the failure of its own thread.
* **ExtensionLoad.** Either extension, up to three registrations refused anywhere, the
  adapter table and blobtemplates arriving at any time. `NothingTooEarly`: no macro
  is created before what it names; `llm_adapt`, which is optional, is exempt even where
  all it names exists. `MissingMacrosReported`: DuckDB's log names exactly the macros
  that are missing, `llm_adapt` apart, among them each one that a missing function took
  with it; SQLite has every function, or an error and those before the refused one. A
  function that DuckDB refuses is not reported itself.

Three runs show a disagreement between the code and what is written about it, each
a counterexample of a few steps:

* **AcquireRace** (`GrantsConform`): two threads load the same `tat_` and are both
  granted the last token. The design notes and `include/blobhttp.h` call the limiter
  synchronised.
* **BatchHostEvicted** (`PointersLive`): with more hosts than the registry holds, a
  thread evicts and frees the limiter another one is about to use. The same happens
  to the global limiter when two threads have different `global_rate_limit` values.
* **BatchRateLost** (`UsesConfiguredRate`): three hosts in one sub-batch, a registry of
  two, one thread. The first host, evicted by the third, is put back by the recording of
  its response, at the default rate, and evicts the second, which comes back in the same
  way and evicts the third: the next request to it, whose scope configures 5/s, is paced
  at 20/s. The README promises the configured rate.

Other disagreements, and behaviours a user may not expect, were met while modelling
and have no run of their own:

* `WaitTime` ignores the burst window: it is positive for a limiter that would grant
  at once, contrary to its comment; so a denied caller sleeps until the whole backlog
  has drained (`OneRetryEnough` depends on this).
* Tokens come back before a 429's Retry-After is over: `RecordThrottle` moves `tat_` to
  its end, and `TryAcquire` grants up to a burst window, less an interval, ahead of `tat_`
  (`RateContract!Admissible`).
* With a burst below one, `TryAcquire` always fails, and `WaitTime` is zero unless a 429
  has moved `tat_`: the 50 attempts pass without a sleep, or after those the Retry-Afters
  cause, and the request goes out without a token (`Spin`, `GiveUp`), where the comment
  above the loop says that it stalls. The theorem `BelowOneIsUnpaced` says so of every
  such limiter.
* A `rate_limit` that does not parse is only found when the token is taken, after earlier
  sub-batches were sent (`HostSpecThrows`), contrary to the comment in `bh_batch_perform`
  that a config error fails the whole batch.
* DuckDB's entry point ignores a function that is refused: what no macro names, such as
  `bh_sso_jwt`, and the optional `llm_adapt` are missing in silence.
* A negative Retry-After moves `tat_` back (`RecordThrottle`); a 429's back-off can be
  overwritten by another thread's `StoreTat`.
* A response of a host whose `rate_limit` is `none` registers a limiter at the default
  rate (`RecordLimiter`).
* The global limiter is kept while its rate's text is the same, so a changed
  `global_burst` has no effect.
* The empty scope wins as a prefix of every URL and is then not applied (`Applies`).
* `max_continuations` and `max_retries` count the first POST and the first attempt, so
  one fewer continuation or retry is made than the README's table says.
* A bearer configuration with a secret path and neither a Vault token nor a login goes
  out without a credential, silently (the condition in `SecretOrNothing`).
* `bearer_token_expires_at` is checked after the Vault secret has taken the bearer
  token's place, and refuses a fresh secret (`BearerExpired`). The login is made even
  when the secret is cached.
* `PostChatCompletion` ignores the Negotiate and query-parameter kinds of
  authentication and the bearer token's expiry.
* The README declares `output_schema` and `response_jmespath` of the `llm_adapter`
  table nullable; a NULL one fails the row with a type error (the `column` rows of
  `LlmCall`).
* SQLite's `bh_http_adapt` passes no HTTP configuration, and looks for an endpoint, a
  model and limits that its query does not select.

## 4. Bounds

`MaxCalls`, `MaxClock` (AcquireRateLimit), `MaxOps` (LruPool), `MaxBatches`
(BatchPerform) and `MaxClock` (VaultToken, VaultResolve) only stop the model from
running on; `MaxRetries` of AcquireRateLimit stands for the 50 attempts, `MaxSize` and
`MaxHosts` for the 200 hosts, `TTL` for five minutes, `Margin` for 60 seconds.
`MaxContinuations` and `MaxRetries` of LlmLoop are the code's parameters. `MaxFaults`
(ExtensionLoad) bounds the registrations refused: three reach a macro, what it needs,
and an unrelated one. Vault revokes once; a second revocation would only restart the
outage. Time is in ticks, and the constants keep the order relations that matter
(Retry-After above and below the burst window, lease above and below twice the margin,
fetch as long as the TTL). In AcquireRateLimit time passes beyond `MaxClock` as long as
somebody sleeps, so that no sleep is cut off. Deadlock is not checked: every model stops
when its calls, operations or clock are used up, and a finished call may simply not be
followed by another.

`FetchTime` and `LoginTime` are the longest time from a request to the store of its
answer: the timeouts the code sets on these requests, and the parsing of the answer. A
thread that is suspended for longer between the two is outside the model.

## 5. Fairness

`BatchPerform` (`FairSpec`): weak fairness of the steps inside `bh_batch_perform`, by
thread. A running thread is scheduled; the sleep of `AcquireRateLimit` is bounded
(`BacklogBounded`, at most 50 times); a request ends by its timeout (30 seconds unless
configured; a configured timeout of zero switches it off, and the call then waits for the
server). Nothing forces a client to begin a batch. `LlmCall` (`CallSpec`): weak fairness
of the steps of a call, for the same reasons; which answer comes is free, and nobody has to
make another call. The other specifications have no fairness and no liveness property.

## 6. What is proved

All theorems hold for every value of the constants that satisfies the named
assumptions (types and signs of the parameters; `CallAssumption`, `HostAssumption` and
`BatchAssumption` say that rows and batches are sequences of such things) and the
hypotheses given here.

**`AcquireProofs`.** Any number of threads:

* `TypeCorrect`.
* `BacklogIsBounded` (non-negative Retry-After). `BacklogBounded` is not inductive, as a
  thread may be about to store a value computed long ago; `PendingBounded` adds that such
  a value obeys the same bound, which only grows.

One thread, whatever the rate and the burst:

* `OneThreadImplementsContract` (non-negative Retry-After). The timestamp, or the
  register that is about to become it, lies past every grant by one interval per grant
  made since, and past every back-off (`Covers`); the test of `TryAcquire` then implies
  the contract's condition on every run of grants at once.
* `OneThreadConforms`: the property that two threads violate in run AcquireRace. Each
  admitted grant keeps the history conforming, by the refinement step just proved.
* `OneThreadWireConforms` (`WireSpec`; non-negative Retry-After, a burst of at least one
  request, at least one retry). Under these conditions no request gives up
  (`NeverGivesUp`), so that what is sent is what was granted. Each sub-batch splits the
  history of grants into those it takes along, made by then, and those made later
  (`Splits`); two sub-batches with grants between them are then as far apart as the first
  and last of these.
* `OneThreadIsDeniedOnce` (a burst of at least one request; a smaller burst is one of the
  listed hazards). The time a sleeper waits for is the TAT nobody else moves, so that
  the attempt after a sleep finds it drained (`PacedOnce`).
* `OneThreadStatsAreExact`. What the two counters lack at any moment is the token not
  yet stored, the counter not yet incremented, the request not yet answered
  (`Accounted`), and a value in a register is that of its counter (`Listed`).

Any number of threads again:

* `StatsAreNeverInvented`. The invariant counts tickets: one for each increment a thread
  may still make, whether its request is being let through or its answer is outstanding.
  A counter, and a value in a register on its way there, plus the tickets of that
  counter never exceeds what happened (`NeverAhead`), since a lost update only lowers a
  counter and each increment hands in its ticket.
* `CallsAreBounded`. `StepsLeft` is a measure of the thread's own state (place, attempts
  left, responses outstanding, counters to increment); no step of another thread touches
  it, and each step of its own lowers it.
* `BelowOneIsUnpaced` (non-negative Retry-After). With a burst below one, the
  timestamp `TryAcquire` would store lies past the window even of an idle limiter, so it
  never stores, and only the back-offs move the timestamp. Calls sleep after a 429 with a
  positive Retry-After, and only then.

**`LruProofs`.** `PoolConsistent`, `PoolBounded`, `PoolOrdered`, `PoolValidUntilEvicted`.
The inductive invariant adds that node identities are distinct operation numbers already
used. The eviction theorem rests on the list being in order of use.

**`BatchProofs`.** Any number of threads, any batches:

* `BatchEachSentOnce`, `BatchTokensBeforeSend`, `BatchSentAreRecorded`, all from
  `Progress`: how far a thread has sent, taken tokens and written results at each place
  of the nested loops.
* `BatchPointersLive`, if the requests agree on the global rate (`OneGlobal`) and the
  hosts fit the registry (`RoomForAll`: the code keeps 200). `PtrOK` says of each pointer
  held that its limiter is in the registry under the request's host, or is the current
  global one; that a registry with room evicts nothing follows from the number of its
  distinct keys (`LimitersOK`, by the pigeonhole theorem). Without room the property is
  false, which run BatchHostEvicted shows; with two global rates `GlobalLimiter` replaces
  the limiter another thread holds.
* `BatchUsesConfiguredRate`, if moreover the requests to a host agree on its rate
  (`OneRate`). The hazard is that recording a response looks the host up with the default
  rate; `Took` says that a request that has its token has left its limiter there, so the
  lookup builds none.
* `BatchImplementsContract`, without hypotheses. `View` maps a thread's locals to what
  its caller sees; `StepRefines` takes each action to a step of the contract
  (`SubBatchSends`, `ResultAnswers`, `ThrowFails`, ...) or shows that the caller sees
  nothing of it (`HiddenMove`, `HiddenToken`: limiter lookups, waits and recording).
  `Progress` supplies what the steps need: that nothing is in the air when a request
  throws, and that the last result of a sub-batch is the last one sent.
* `BatchCallsBounded`: `StepsLeft` counts tokens, results and sub-batches to come, nine
  steps for a request at most; the indices may move by `max_concurrent` at once, so that
  what bounds the sub-batches is that each one sends at least one request.

**`VaultProofs`.**

* `TokenIsUsable`, of the login alone: a token about to be stored is recent, and an
  entry's expiry leaves the reserve (`EntrySound`).
* `ResolveTypeCorrect`. `StalenessIsBounded` and `RegressionIsBounded`: a fetch in
  progress is recent and its secret was served since it began (`FetchRecent`), and an
  entry was served at most a fetch before its stamp (`SecretRecent`).
* `ResolveImplementsLogin`: each step of a request's resolution is a step of `VaultToken`
  or leaves its state alone; so `ResolvedTokenIsUsable` follows from `TokenIsUsable`.
* `OutageIsOver`: a login stores its token within `LoginTime` of its issue, so what is
  stored later than that after a revocation was issued after it.
* `SecretIsSentOrNothing`: a request past the fetch has its secret among those that were
  served, and what was sent is what `BuildSession` chose (`Supplied`).

**`ConfigProofs`.** `ScopeChosen`, from the loop invariant `BestSoFar` over the entries
seen. `FieldsPrecede`, from `Layers`: what the configuration holds at each stage, the
hard-coded values under the first "default" under the chosen scope.
`ConcurrencyIsPositive`: no scope can bring `max_concurrent` below one.

**`LlmProofs`.** Of the loop:

* `PostsAreBounded`, `StatsAreComplete`, from an account of the POSTs spent by earlier
  attempts and by this one (`Spent`, `Accounted`).
* `AnswersAreWhole`, `TurnsAlternateAlways`, `CorrectionsAreCarried`, from `Said`: the
  lengths of the two bodies as functions of `attempt` and `cont`, the alternation of
  roles in both, and which part of which POST each text is.

Of the calls around it:

* `CallImplementsLoop`: the steps of a call are steps of the loop or leave its state
  alone, so that the theorems above hold of every call.
* `CallFreesStrings`, `CallReportsOwnError`, `CallStopsAtError`, `CallSchemaMeansJson`,
  from `RowOK`, `ErrorOK`, `EnteredOK` and `ValueOK`: what is written, entered, reported
  and held at each place of a row.
* `CallsEnd`, for every limit on attempts and POSTs, zero and negative ones included: the
  measure `StepsLeft` nests the POSTs of an attempt in the attempts of a row and these in
  the rows of the call.

**`HostProofs`, of the envelope.** `EnvelopeKeepsBody`: for every sequence of bytes the envelope gives
the body back, and a text it calls UTF-8 is well formed by the standard's table. Decoding
Base64 undoes `Base64Encode` digit by digit (`DecodeFact`). The scan of `IsValidUtf8` and
the reference definition of well-formedness are recursive functions. That they exist is
shown from an explicit function that satisfies the equation (the set of positions closed
under the step), and that they agree from the last position at which they would not
(`Least`, by well-founded minimality on the naturals); neither needs an induction rule.

**`HostProofs`, of the calls.** Any number of threads, any rows and groups: `HostFreesHandles`,
`HostReportsOwnError`, `HostSendsPrefix`, `HostMatchesRows`, `HostMatchesMaps`, from one
invariant per thread (`ThreadOK`): when the batch is open, whose message is pending,
which rows were sent, which results and map entries are in place. `HostKeepsBodies`
follows from `EnvelopeKeepsBody`.

**`LoadProofs`.** Any number of refused registrations: `LoadsInOrder` and
`LoadReportsMissingMacros`. The invariant (`Accounted`) says that a name that was tried
is in the catalogue, or was refused, or is a macro that needs one tried before it that is
not there and will not come later; and that a macro in the catalogue has all it names there
(`Founded`), so that a missing function takes its macros with it. That what a macro names has its place before the macro
is a fact about the two lists of registrations (`NeedsPrecede`).

`TypeCorrect`, `ResolveTypeCorrect`, `PoolBounded` and `ConcurrencyIsPositive` state
simple facts the others lean on. These, `PoolOrdered`, `BatchSentAreRecorded`,
`BatchCallsBounded`, `BelowOneIsUnpaced` and `CallsEnd` are proved only: no run lists
them, as a property it lists implies them or the instance it checks has no such case.

Only model-checked: the liveness properties `PerformReturns` and `CallReturns`, which need
fairness and ENABLED, out of the prover's reach; `BatchCallsBounded` and `CallsEnd`
are what remains of them without it. Every other property of a passing run
is the statement of a theorem. The properties of the three violated runs are false; what
holds instead is proved under the hypothesis each counterexample breaks: one thread
(`OneThreadConforms`), room in the registry and one global rate (`BatchPointersLive`),
and one rate for each host (`BatchUsesConfiguredRate`).

## 7. What is not modelled, and why

* Numbers: latency means, sizes and the wait total of a limiter influence nothing. An
  infinite interval (a global rate of zero) has no finite counterpart.
* The contents of requests: URLs, methods, headers, TLS, proxy, PKCE and SPNEGO tokens.
  Each request of the login chain succeeds or fails. Connection sharing is libcurl's.
* A Vault secret is taken not to be the empty string, and `SchemaMeansJson` takes the two
  JSON libraries to agree on what is JSON.
* What is wrong with a row's arguments is one of five kinds in `LlmCall`, refused by the
  host or by the core as the code does; an argument that is wrong in another way, such as
  an adapter's schema that is not JSON, is a core that fails (`CoreFails`), which any row
  may. bt_template_render is taken to render nothing from parameters that do not parse.
* The validator, JMESPath and the templates of the LLM layer are external libraries. The
  validator is taken to report an object, invalid exactly when its `valid` is false.
* In the hosts: the paging of DuckDB's statistics table over rows copied at bind time,
  whose position lives in the bind data; what DuckDB does with NULL arguments before it
  calls a function; the configuration dictionary of Python's `HttpClient`;
  `bh_negotiate_available`, which only asks a library; the bodies of the SQL macros, which
  are expressions.
* Vendored code, build files, tests.

## 8. Plan

1. Done: the limiter, its contract and the wire; the pool; batch execution and
   statistics; configuration; login, secrets and credentials; the LLM loop and the calls
   around it; the hosts' calls and response bodies; loading. The theorems of section 6:
   every safety property, action property and refinement the passing runs check.
2. Left: that the registry of `BatchPerform` moves as the list of `LruPool` does, which
   wants the two to number their nodes alike; the paging of DuckDB's statistics table;
   the configuration dictionary of Python's `HttpClient`.
