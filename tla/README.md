# A verification project for aisphere-auth

aisphere-auth is a Go service that signs users in through Casdoor (OAuth), keeps their sessions in memory or in
Redis, and answers authorization questions for other services from builtin roles, resource grants and Casdoor's
policy. The TLA+ modules here model the parts of it whose correctness depends on the order in which things happen.
TLC checks them on small instances and TLAPS proves the central results for all. File names below are relative to
the root of the repository.

## 1. Inventory

Every HTTP request runs in a goroutine of its own (gin on net/http). What requests share is in the stores and caches.

| Component | State | Operations | Talks to | What is hard |
|---|---|---|---|---|
| Authn service and handlers (`internal/authn/service_impl.go`, `handler.go`) | none of its own | LoginURL, HandleCallback, Current, Refresh, Logout | both stores, Casdoor | several store calls per request, with other requests between them; failures half way |
| Memory session store (`internal/session/memory_store.go`) | map under a RWMutex | Create, Get, Delete, Touch, DeleteBySubject, a cleanup goroutine | | Get deletes after it has released its lock; a limit |
| Redis session store (`internal/session/redis_store.go`) | a key per session, a set per subject | the same, as commands, a transaction and a script | Redis | lost replies; two expiries for one session; an index that expires by itself |
| Login state stores (`internal/authn/*_state_store.go`) | state -> redirect, expiry | Create, Consume (once), cleanup | Redis | concurrent callbacks with one state; a limit |
| Casdoor client (`internal/casdoor/http_client.go`) | a cached client-credentials token | ExchangeCode, GetUserInfo, Enforce, token | Casdoor | three attempts per call, lost replies, a 15 s timeout |
| Authorization (`internal/authz`) | DecisionCache | Check, BatchCheck, builtin roles | IAM, Casdoor | stale decisions, a cache read and judged in two steps, one of several checks failing |
| Resource grants (`internal/iam`) | grants in memory, Postgres or MySQL | Save, Delete, List, Check | database | deny and allow that both match, limits on the rows looked at |
| Rate limiter (`internal/server/rate_limiter.go`) | buckets under a mutex | Allow | | the clock is read before the mutex is taken; dropped buckets come back full |
| Service-token authentication (`internal/server/service_auth.go`) | none | requireServiceToken | rate limiter | calls are counted before credentials are looked at: whose bucket pays |
| SDK (`pkg/aisphereauth`) | principal cache | RequireLogin, RequirePermission, client | this service | a cached principal after a logout |
| Audit log (`internal/audit/memory.go`) | a ring of events | Write, List, Close | | pages that move while they are read, and a ring that overwrites them |
| Server lifecycle (`internal/server/server.go`, `cmd/server/main.go`) | the closers, the stores | New, Run, shutdown, probes | all | stores closed under requests in progress, requests that never end, a listener that fails |
| Configuration (`internal/config`) | | Load, normalize, validate | server | what it accepts and what the builders panic over are written down twice |
| Bootstrap scripts (`scripts/casdoor`) | | one-shot | Casdoor | sequential |

What makes each correct:

* sessions: a logout is final; a session ends only by expiry, logout or revocation; a revocation leaves nothing that
  was there; an expired entry is collected; the limit refuses newcomers rather than live sessions;
* login: one session at most for a state, none on a stale one, every callback is answered;
* authorization: a change of policy takes effect within a bound; a deny grant is not overtaken; a caller can tell what a batch has decided;
* rate limiter: no window of time admits more than its burst and its earnings, and who keeps to its rate is served whatever others do;
* grants: no grant in force is overlooked, and what decides is stored and in force; with Postgres the latest word decides;
* Casdoor client: how late a question may be put with its token, and no later; a cached token is of use;
* SDK cache: a session that is over lets nobody in for longer than a bound;
* audit log: it holds the latest events, and going through its pages misses none that is still there;
* lifecycle: only a crash, a failed listener or the end of the grace period harms a request, and the process ends after a signal;
* configuration: the server is only ever built from what has been validated.

`PROJECT.json` lists the hazards by source line and the properties aimed at each.

## 2. Modules

| Module | Models | Correspondence |
|---|---|---|
| `SessionCalls` | the authn service's use of a session store | `call[p]` is the local state of goroutine p: operation, id, program counter (which store call comes next), the expiry of the `Session` copy it holds. `minted`, `issued`, `ended` and the fields `late`, `saw` are history |
| `SessionContract` | abstract specification: the life of an id (unborn, open, lapsed, gone) and what may be answered about it | no store, no clock |
| `MemorySessions` | `session.MemoryStore`; extends `SessionCalls` | one action per critical section: Get's read-locked half (`Get`) and the `Delete` after it; the cleanup goroutine reads the clock (`SweepRead`) and then sweeps (`Sweep`) |
| `RedisSessions` | `session.RedisStore`; extends `SessionCalls` | one action per command, transaction or script; its reply may be lost (`Replied`), or it never arrives (`Fail`); `RedisTick` expires keys; `revoke[r]` is a call of DeleteBySubject: `RevokeRead`, then `RevokeDelete`, or the error of either (`RevokeFail`) |
| `RedisRefresh` | `RedisSessions` with a history variable | when Redis last had a refresh of each session, which only finding 2 speaks of; no action reads it |
| `LoginFlow` | LoginURL, Callback, both state stores, the retries of the Casdoor client | `items` is the state store, `cb[p]` the callback of goroutine p, `used` what Casdoor knows of its codes |
| `RateLimiter` | `tokenBucketLimiter` | `ReadClock` is the part of Allow before the mutex; `AllowNew`, `AllowKnown`, `Deny` its three outcomes |
| `ServiceAuth` | `requireServiceToken`; extends `RateLimiter` | `Arrive` picks the bucket by `rateKey`; `RateLimited`, `Unauthorized` and `Pass` are the limiter's outcomes with the comparison of the credential |
| `BuiltinRoles` | `builtinRoleAllows` and the tests of role names | pure operators; a role is what the rules look for in its name |
| `AuthzCheck` | `DefaultService.Check` and `DecisionCache`; extends `BuiltinRoles` | `check[p]` walks through roles, grants, cache, Casdoor; the cache is read in one step and judged in the next |
| `AuthzBatch` | the routes of a check and of a batch; extends `AuthzCheck` | `request[p]` holds the questions and the decisions so far; `NextCheck` is a turn of BatchCheck's loop |
| `GrantMatching` | `grantMatchesQuery` to `parseObject` of `internal/iam/service.go`: does a grant concern a request | pure operators over grants and requests; a text with segments is a sequence |
| `ResourceGrants` | the IAM service with the memory and the Postgres provider | `grants` is the map or the table, `rowids` the order of Postgres's serial ids; `Read` is the ranging over the map or the SELECT, `Judge` one turn of the loop, `Count` and `Page` the two statements of a list |
| `CasdoorTokens` | `Enforce`, `clientCredentialsToken` and `doJSON` of the Casdoor client | `cached` is the token under `tokenMu`, `call[p]` the request goroutine p waits for, with its attempt |
| `PrincipalCache` | the SDK: `RequireLogin` with `principalCache`, `RequirePermission`, and the client's timeout | `cache` is the map of expiries, `call[p]` the request; `status` and `query` are `SessionContract`'s: the SDK is composed with the contract, not with a store. `Judge` is the service's decision, which may be as old as `DecisionAge`: in `AuthzCheck`, `CacheTTL + Latency` |
| `AuditLog` | `MemoryService` and a caller of the SDK's `ListAudit` | `events` is the ring; `pager` is the caller: its filter, limit and offset, and (history) what it has yet to see |
| `Configuration` | `config.Load` after the values are found, and what `server.New` panics over | pure operators over a configuration: `normalize`, `validate`, `canBuild` |
| `ServerLifecycle` | `main`, `server.New`, `Run`, `closeDependencies`; extends `AuditLog` and `Configuration` | `phase` is how far the process has come, `shut` what is closed, `req[r]` a request: the stores its handler calls, one `Call` each |
| `SessionCallsProofs`, `MemorySessionsProofs`, `RedisSessionsProofs`, `LoginFlowProofs`, `AuthzProofs`, `ResourceGrantsProofs`, `ServerProofs`, `PrincipalCacheProofs` | theorems | section 5 |
| `MC*` | values for TLC | |

`MemorySessions` and `RedisSessions` both implement `SessionContract` by the refinement mapping at their end
(`ImplementsContract`): a browser cannot tell the stores apart by more than the contract allows. Their `StatusOf`
reads an id's status off the store; `QueryOf` in `SessionCalls` reads a request's phase off its program counter.
`PrincipalCache` stands on the other side of that contract: the auth service does in it what `SessionContract` allows, so that
what it shows of the SDK holds over either store. `AuthzBatch`, `ServiceAuth` and `ServerLifecycle` compose: their steps are those of
the modules they extend, taken by requests.

Definitions whose name begins with `Bad_` are not part of the models. Each is a slip the code could have (a refresh
that inserts, a limit off by one, a lost expiry check) and stands before the definition it would replace; a property
is kept only if such a slip violates it.

Configuration is a variable that no step changes where a run is to cover several values: `sliding` (session.sliding) in
`SessionCalls`, `provider` in `LoginFlow` (the state store) and in `ResourceGrants` (iam.provider). In `ServerLifecycle` every start picks one of `Configs`.

Abstractions shared by all modules: a session, a state, a code, a key is a model value; principals are left out but
for the subject a session belongs to; logging and JSON are left out, save the expiry inside the Redis payload, which
matters. Time is an integer clock that any step may see advanced. In `RedisSessions` a tick is one second, because
EXPIRE counts whole seconds; in `RateLimiter` it is the time in which a key earns one credit, 1/(qps * Cost) s, so
that fractions of a token need no rationals (rounding of `float64` is left out). The clocks of the server and of
Redis are one. In `CasdoorTokens` and `PrincipalCache` timers are punctual: an HTTP exchange ends within the client's timeout,
and time that a goroutine spends between two statements is not counted. `GrantMatching` works on texts that `normalize` has
been over (trimmed, in lower case). What a session's roles allow does not change while it lives, so `allowed` in
`PrincipalCache` changes by grants and policy alone, and a denial needs no reason there. In `PrincipalCache` a goroutine whose client gave up asks again only when the service is done with
the question it had left behind; the other goroutines stand for the rest. Whether a second attempt of `doJSON`, which
reuses a request whose body has been read, reaches Casdoor depends on net/http: the models let every attempt fail or succeed. The go-redis client's own retries are not modelled: a retried command is a repetition of an
idempotent one, and its lost reply is.

### Assumptions on constants

`TTL > 0` and `CacheTTL > 0` come from `config.validate`. `ForgetAssumption` of `RateLimiter`
(`Burst + 2 * Stall <= Idle`: an idle bucket that is dropped would be full again) is not validated by the code; the
shipped values (a burst of 2 s against 10 minutes) satisfy it by far, and without it the limiter's promise fails.
`Stall` bounds how long a goroutine may wait between its clock reading and the mutex; `WindowBound` degrades by
exactly that much. `CasdoorTokens` assumes nothing of how the client's minute (`Margin`) relates to its timeouts: how late a
token may be used is a formula over them (`Latest`).

## 3. Runs

Each run uses two goroutines: the races found or excluded here are between two requests, or a request and the janitor.

| Run | Expect | What it shows | Bounds and why they are enough |
|---|---|---|---|
| `memory` | pass | memory store, sliding and not: final logout, limit, contract, the proof's invariant; without sliding no expiry path deletes a live session; expired entries are collected (fair janitor) | 2 ids, one slot, TTL 1, clock to 2: a session stored at 0 can be refreshed at 1, be over at 2, be refreshed all the same by a request that had read it, and be in another's way; fullness is reached with one entry; no symmetry, because of the liveness property |
| `memory_sliding` | violation of `UnexpiredSurvives` | finding 1 | |
| `redis_safety` | pass | lost replies, revocations in two steps and their errors, index expiry | 2 ids of one subject, TTL 2, clock to 3: the second session can be created when the index is about to expire; 2 requests and 2 revocations, of which any two are under way at once (`MaxBusy`): two revocations of one subject, or one and a login |
| `redis_sliding` | violation of `RefreshExtends` | finding 2, over `RedisRefresh` | |
| `login` | pass | both state stores: at most one session per state, never stale, no push-out, every callback answered | 2 states, 2 codes (both may belong to one state), one slot, clock to 2, states live for 1; no symmetry |
| `limiter_bound` | pass | `ServiceAuth` over `RateLimiter`: `WindowBound` and the proof's invariant, and that others cannot use up the tokens of a service that keeps to its rate | 2 keys, room for one bucket, so that the second key's calls drop the first's; callers with the expected credential and with none, from one address; burst 3, cost 2, clock to 8: long enough to be idle and come back |
| `authz_safety` | pass | single checks and batches with failClosed: bounded staleness, deny holds when it can be read, batches tell what they decided, cache limit | 2 questions, a batch of both, one cache entry; 4 sets of roles, of which one is enough for both questions, one for the first and one, of the default app, for neither; only one question's policy and grants change (`Volatile`); clock to 3, beyond CacheTTL + Latency = 2 |
| `authz_iamdown` | violation of `DenyFailsClosed` | finding 3 | |
| `grants` | pass | what a check may overlook and which grant decides, while grants are saved, deleted and expire; complete pages; the proof's invariant | 2 grants of 3 kinds (one that expires, one that denies, one with a wildcard; some leave out role, app or effect), with a time of creation given or not, 3 requests; one row and pages of one, so that both limits bite; clock to 2: the first kind is in force at 1 and over at 2 |
| `tokens` | pass | how late a question may reach Casdoor with its token; a cached token is of use; the proof's invariant, `TokenInv` | lives not stated, 1 (below the margin), the margin and one more; timeout and pause 1, margin 6: as in the code, one short of four timeouts and three pauses; clock to 12, in which a cached token serves a second call to its last attempt. The bound is tight: one less is violated |
| `lifecycle` | pass | starts with good and bad configurations, serving, drain, the closing of the stores, crashes and restarts; the audit log's ring and pages with them; the proof's invariant, `ServerInv` | 2 requests; 17 configurations: one in memory, one on Redis and PostgreSQL, and these with one field wrong, `session.provider: "postgres"` of the example file among them; a ring of 2, 3 writes, so that it overwrites; pages of 1 or 2, by a limit that is missing or too large; answers of more than one event do not fit the SDK |
| `sdk` | pass | bounded staleness of admissions and permissions, over the contract; the proof's invariant | one session, two goroutines (one can cache an answer from before the session's end that the other then finds); CacheTTL 2, timeout 1, decisions up to 1 old, clock to 6: twice the bound of 3 |

Every bound (`MaxTime`, `Ids`, `States`, `Codes`, `Volatile`, `GrantIds`, `Drafts`, `Questions`, `Requests`, `Configs`, `MaxWrites`) is a constant and is named where it is declared.
`CHECK_DEADLOCK` is on in every run but `lifecycle`: there, a model with all its writes spent may come to a stop.
The other systems never stop: a request can always begin or go on.

### Fairness

* `MemorySessions!Fairness`: the cleanup goroutine runs (`WF` of its two steps). `time.NewTicker` fires for as long as the
  server is up and Go's scheduler and mutexes starve nobody. Requests need no fairness.
* `LoginFlow!Fairness`: a goroutine that can run runs, and an HTTP attempt ends, if only by the client's timeout of
  15 s. `Cancelled` is outside: no browser has to go away. Casdoor may fail or lose a reply every time.
* `ServerLifecycle!Fairness`: the goroutine of Run goes on and ten seconds pass (`WF` of `Stop`). Nothing is asked of handlers, of clients
  or of PostgreSQL: a body that never comes does not keep the process. A query that is never answered does, since no timeout covers it
  and the pool's Close waits (`postgres.go:53`); `StopsInTime` names this as the one way in which a stop does not end.

### Findings

1. `memory_store.go:62-66`: Get judges an entry under the read lock and deletes it after releasing the lock; a Touch in
   between refreshes the session and it is deleted all the same. Without sliding this cannot happen (`FixedSurvives`).
2. `redis_store.go:101,121-133`: Touch extends the Redis key, Get obeys the `ExpiresAt` in the payload, which nothing
   updates. With Redis, `session.sliding` has no effect on when a session ends.
3. `authz/service_impl.go:66`: an error of the grants' source is ignored; a subject that a grant denies is put to the cache and
   to Casdoor, `authz.failClosed` (`configs/config.yaml.example:201-204`) notwithstanding.

Noticed, without a run: `normalizeRedirect` keeps absolute URLs of localhost and private addresses
(`service_impl.go:164-168`), where `CHANGELOG.md:36` says absolute URLs are rejected; a decision's lifetime in the cache
counts from the arrival of Casdoor's answer, so that the bound of `configs/config.yaml.example:197` holds only with the latency
added, which is how `PolicyTakesEffect` states it. The minute by which the Casdoor client gives a token up early falls 0.45 s short of what its
timeouts can take (4 * 15 s + 3 * 0.15 s, `http_client.go:28,227,276`): a question may reach Casdoor that much after the end of its token, and up to a minute more with a
token that lives no longer than the minute; a token whose life is not stated is taken to live for an hour.
Between the COUNT and the SELECT of a list anything may be written (`postgres.go:184`), and what is written between two pages moves the rows: a caller
may miss a grant, or meet one twice, and `PagesComplete` speaks only of pages fetched while nobody writes. No code of the service calls `DeleteBySubject`. Of an allow and a deny grant that both match, the memory provider lets the
first in map order decide, so that two equal requests may be answered differently, and Postgres the one saved last; no document says
which should win. A wildcard grant is never seen by Postgres's query, which compares names (`postgres.go:260-279`), unless the request
leaves that field out. The SDK's principal cache keeps entries that nobody asks for again (`middleware.go:195-197` is the only delete), and
its client cuts successful answers, too, at `maxErrorBodyBytes` (`http_client.go:270`), so that a longer one cannot be decoded: `GiveUp` in
`PrincipalCache`, `Fits` in `AuditLog`; `docs/go-sdk.md` mentions the limit for other answers only, and asks for 50 events.

The limiter's call for a new key returns before the cleanup that is to "avoid unbounded bucket growth" (`rate_limiter.go:53-57,71`): idle
buckets stay for as long as every call brings a new key, and are dropped by the next call that knows its own. No bound on their number can be stated.
`config.validate` does not look at `session.provider` and `server.mode`; `server.New` panics over them. The shipped `configs/config.yaml.example` is such
a file: it sets `session.provider: "postgres"` (line 136) below a comment that allows memory and redis (line 133); `check-config`, which "校验关键配置是否合法" (`main.go:94`),
passes it, and the server panics (`server.go:237-238`). A role whose name
contains "admin" is enough for every object of the app it asks about, whichever app it is of, and an app's own admins and editors are not held to an object,
where `docs/casdoor-bootstrap-seed.md` lists narrower resources. Roles have `-` turned into `_` before they are compared and apps have not, so that no role
matches an app with a `-`. Without failClosed a batch answers 200 with denials that are errors; a single check answers 403 for these either way, and the SDK's BatchCheck
drops the decisions that come with a 403. Audit pages are in the order of the writes, not of `createdAt`, a caller that retries stores an event
twice, and a restart loses them all.

## 4. The properties worth a word

* `LogoutIsFinal`, `EndedStaysOut`: a request that read a session before a logout may refresh it after; the logout holds
  because Touch only writes over an entry that is there and Create only stores an id nobody has yet.
* `UnexpiredSurvives` (Redis): holds *because* payloads are never rewritten. Repairing finding 2 by rewriting the
  payload in Touch would bring finding 1 to Redis: that is the slip `Bad_TouchRewrites`.
* `RevocationComplete` is about a call that returns nil. After an error the transaction may have run or not, and what it was to delete may be alive.
  `IndexCovers` and `RevocationComplete` except two things, which are properties of the code and stated in the formulas: the last second
  of a session, for which the index may be gone already, and the sessions stored between SMEMBERS and DEL (`orphans`).
* `StateIsSpent` is what `OneSessionPerState` rests on: two callbacks never work on one state.
* `WindowBound` covers readings that arrive out of order, which make a bucket's `last` go backwards, and buckets that are
  dropped and come back full.
* `NothingOverlooked` says what the Postgres provider may miss, and that it misses nothing else; the memory provider misses nothing.
* `PagesComplete` of `ResourceGrants` needs ids as a tie-break in the ORDER BY: without it rows of one millisecond change places between pages. The
  memory provider has none, hence the exception in the formula.
* `TokenTimely` covers the third attempt of a question and tokens fetched by several goroutines at once. A token that comes without a life, or with
  one below the margin, is in it, each with the lateness the code allows it (`Latest`). What it excludes is a token that is used later than
  that: cached without the margin, or sent once more when its call had its last attempt.
* `ServedIsRecent` adds three ages: the decision's in the auth service's cache, the session's in the SDK's cache, and the exchanges'.
* `AdmissionIsRecent` counts from the last instant at which the session was open, so it covers logout, expiry and revocation, and
  answers that were under way at that instant; the bound is reached.
* `PoliteIsServed`: a polite service leaves the price of a call between two calls (and more than the mutex can hold one up). Its bucket
  may be dropped by others' calls at any moment, and its readings arrive out of order at worst by a stall.
* `BatchAnswersAll` ties the decisions to the questions by their places, which is all the caller has, and says which of them are real: with failClosed,
  all but the last of a 403. The run has failClosed on; without it, a failed check denies and the batch goes on.
* `PagesComplete` of `AuditLog` rests on `UnseenIsAhead`: offsets count from the newest event, so writes push what is unseen away from the caller, and only
  the ring's overwriting takes something from it. A caller that counted on by the limit it asked for, not the one in the answer, would skip events.
* `CleanStop` holds for the stores because `closeDependencies` waits for `Shutdown`; when that gives up, handlers meet closed stores, and a callback may have
  spent its state for nothing. `StopsInTime` holds because `Shutdown` does give up, and because a closed pool lends no connection: once Close has begun, the
  queries it waits for only become fewer.
* `PolicyTakesEffect` bounds staleness by CacheTTL + Latency, with overlapping checks of the same question.

## 5. Proofs

Every property that a passing run checks is a theorem for all values of the constants, but for the three liveness properties. The theorems
assume the named assumptions on constants and nothing else. The invariants the proofs rest on are also checked by TLC, each in the run of its
module (`IInv`; `AuthInv` in `limiter_bound`, `TokenInv` in `tokens`, `ServerInv` in `lifecycle`); each contains its module's type invariant.

* `SessionCallsProofs`: what a store's operation or the service does to the requests, whatever the store: `CallInv` is kept. `MintedOnce` says that an id a
  callback is working on is nobody else's, so Create cannot resurrect; `LateIsBlind`, that a request which came after a logout has seen nothing. The module
  also says which step of a query each step of a request is (`BeganAsks`, `ReadSees`, `AnswerReplies`, `RespondClears`, or none: `SilentWhen`).
* `MemorySessionsProofs`
  * `LogoutFinality`, `NoResurrection`, by `IInv`: it adds `LogoutTookIt` to `CallInv`: between the Delete and the answer the session is out.
  * `LimitHolds`, separately: Create tests and writes in one critical section, and the map is finite. `FullHoldsLive` follows from it: what Create
    purges before it gives up leaves live entries only (`Purged`), of which there are now neither more nor fewer than the limit. That nobody else answers "full" is `ServiceNeverFull`.
  * `FixedStays`: which deletes take a live session depends on what a request saw before it deletes, so the theorem needs an invariant of its own,
    `Foresight`: without sliding no entry is written over (there is no Touch, and Create stores only an id that no request is asking about), hence an
    entry found expired is so for good, and the copy Current judges is the entry. The sweep's old reading of the clock can only spare an entry.
  * `Implements` (`Spec => ImplementsContract`) goes step by step (`NextSimulated`): every action is,
    for every id, a step of its life (`LifeGoesOn`), and for every request a step of its query. Of the invariant it takes `UnbornIsOut` (a session to be created
    is not there yet) and that a request about to answer "active" or to refresh has seen its session open (`StepsOfOps`): the refresh of an entry that lapsed
    after it was read is the contract's one way back.
* `RedisSessionsProofs`: `LogoutFinality`, `RevocationIsComplete`, `UnexpiredStays`. `IndexCovers` is inductive once it says that the index outlives
  what it lists but for a second (`Listed`): the EXPIRE of a Create rounds down, and the expiry in the payload is never later than a whole TTL
  from now (`KeysOutlivePayloads`). `RevokeCovers` carries it from SMEMBERS to the DELs, for any number of revocations at once: what one takes off the index, and not out of the store, is an orphan to all. `CopyIsPayload` says that the copy a request judges is what is stored, which
  is why no expiry delete is wrong; it holds because no command rewrites a payload. `Implements` is the same argument as for the memory store, and simpler:
  with payloads never rewritten no session comes back at all; what it adds is the copy that is read in one step and judged in another, and the lost replies.
* `LoginFlowProofs`: `OneSession`, `NotStale`, `Survives`, and `LimitHolds`, as for the memory session store. `StateIsSpent` is not inductive by itself: a state could come back to the store. `StoredIsUnspent` says
  that what is stored has opened nothing, `FromLogins` that only a state that was stored is ever worked on; Consume takes the state away in the step that looks at it.
* `AuthzProofs`, checks and batches: `PolicyEffective`, `DenyIsObeyed`, `BatchTells`. The invariant dates every decision that is cached or on its way
  into the cache (`Dated`): it is what the policy says now, or it ends within `CacheTTL + Latency` of the change. `RequestOK` says of a batch that it
  has answered its questions in order and, with failClosed, that it stops at the first failure.
* `AuthzProofs`, the token: `Timely` and `CacheIsOfUse`. `TokenTimely` speaks of one attempt; `GoodForAll` in `TokenInv` says that the
  attempts that are left (`Rest`) end before the latest time of the token, which the failure of an attempt preserves. `CachedInTime` gives it to a call that
  finds its token cached, `JustIssued` and `Punctual` to one that has fetched it. Timeouts, pauses and the margin are any numbers.
* `ResourceGrantsProofs`: `NoGrantOverlooked`, `LatestWordDecides`, `LivingGrantsDecide`, `PagesShowEveryGrantOnce`.
  * The invariant is about each request by itself (`Served`), and each action's lemma (`SaveKeeps`, `JudgeKeeps`, ...) about the request that acts. What
    that does to the others is said once: a request is undisturbed (`Undisturbed`) by whoever leaves the grants it counts on as they are, and an
    undisturbed request stays served (`OthersAreServed`). A write takes what it changes out of what the others count on (`calm`), and in the memory store
    it waits for the read lock under which a check judges: hence `JudgesWhatIsStored`.
  * `NothingOverlooked` is not inductive, as it speaks of the end of the loop. `PassesOverNothing` says of every turn that a standing grant is still ahead, or excused; what a
    `Judge` leaves behind was not in force or did not concern the request. That the WHERE clause lets through what concerns a resource named
    in full (`PlainIsSelected`) is an argument about `parseObject` and `normalize`: both ways of naming the resource end in the same three parts (`PlainObject`).
  * `LatestDecides` needs to know of the rows behind a LIMIT that they are not later than those before it (`LatestFirst`).
  * `PagesComplete` is proved from the fact that a total order has one enumeration (`SortedIsUnique`): while nobody writes, every page is cut from the
    same list (`OneList`), at the place where the last one ended (`NextPage`). This is where ids as a tie-break are needed, and, for the memory store, distinct times (`Distinct`).
* `ServerProofs`, the limiter: `LimiterIsSafe` (`Spec => []WindowBound`), by the inductive invariant `IInv`. `WindowBound` is not
  inductive: it says nothing of the tokens that are left. `Conserved` adds them to what was spent; `FreshReadings` and
  `FreshBuckets` say how far readings lag; `ForgottenIsEarned` takes over when a bucket is dropped, where
  `ForgetAssumption` is used. Assumed: the named assumptions of `RateLimiter`.
* `ServerProofs`, the routes: every step of the middleware is the limiter's or none (`LimiterSteps`), so that the routes implement the limiter (`RoutesImplementLimiter`), and `RoutesAreLimited`.
  `PoliteServed` is by `AuthInv`, whose `PoliteIsReady` says that the polite service's bucket is not overdrawn and was last used at least the
  price of a call before the one call that may be under way. That there is only one follows from `FreshReadings`, since a polite
  service waits longer between two calls (`Apart`) than a call can be held up (`Stall`).
* `ServerProofs`, the process and its audit log: `StopIsClean`, `PagingMissesNothing`, by `ServerInv`. Its part about the log is
  `AuditInv`, proved of each operation of the log so that it holds whoever calls them: `RingIsLatest` (the ring holds the last writes in order, wherever it wraps) and
  `UnseenIsAhead` (what the pager has not met lies at its offset or beyond). `CleanStop` is inductive with `StopsInOrder`: stores are closed
  only once the process stops, and if it stops because it was drained, no request is open to meet them or to be cut off.
* `PrincipalCacheProofs`: `AdmissionRecent` and `ServedRecent`. The invariant dates what is under way by the session's last open instant: answers
  (`AnswersAreRecent`), cache entries (`CacheIsRecent`) and admitted requests (`ChecksAreRecent`).

Only model-checked: liveness (`ExpiredIsCollected`, `CallbackAnswered`, `StopsInTime`), since fairness and ENABLED are out of the prover's reach. The
properties of the violation runs (`UnexpiredSurvives` of the memory store, `RefreshExtends`, `DenyFailsClosed`) are false of the code.

## 6. Not modelled

Where viper finds the values of the configuration and the parsers of addresses and URLs; the program's other commands (`check-config`, `version`), which only report;
the probes `/healthz`, `/livez`, `/readyz`, which change nothing; the Casdoor bootstrap scripts and deployment files (one-shot, sequential); cookies' attributes, how
a client's address is found behind proxies, the wording of errors; the SDK's calls that are one exchange each. The MySQL provider of grants (`internal/iam/mysql.go`): `mustBuildIAMService` refuses to start with it. The session store's `Update` is never called and `Create` under another name.

## 7. Plan

What is left, in this order:

1. Proofs about the operators: that `GrantMatching` is what a reference definition over the parts of a name says, and, of `Configuration`, that `normalize` is
   idempotent and that what it returns differs from what it is given only where a value is missing.
2. What the SDK's middleware makes of a request without a session (`handleUnauthorized`: a redirect to the login or a 401).
