# Formal models of Stile

Stile is an MCP gateway: clients speak JSON-RPC over HTTP to one endpoint, and
the gateway authenticates them, filters and routes tool calls, and forwards them
to upstream MCP servers, over HTTP or over the standard streams of a child
process. This directory holds TLA+ models of the parts of it that run
concurrently or fail in interesting ways, the TLC configurations that check
them, and TLAPS proofs. `PROJECT.json` lists every run, the source lines each
definition stands for, the hazards the properties are aimed at, and the mutants
that show each property can fail.

    tlc -config Resilience.cfg ResilientTransport   # check one run
    tlapm ResilientTransportProofs.tla              # check the proofs

## The system

| Part | State | Operations | Works with |
|---|---|---|---|
| Circuit breaker, retry (`internal/resilience`) | state, failure counter, time of the last trip, probe flag | `Allow`, `RecordSuccess`, `RecordFailure`; `RoundTrip`, `WaitBackoff` | called by every request goroutine; wraps a transport |
| Stdio transport (`internal/transport/stdio.go`) | child process, restart count, permanent failure, closed flag, one mutex | `RoundTrip`, `restartWithBackoff`, `verifyStartup`, `Close`, `Healthy` | the child process; router, proxy and health checker call it |
| HTTP transport (`internal/transport/http.go`) | consecutive failures behind `Healthy` | `RoundTrip`, streaming of SSE results | upstream servers |
| Caller store and cache (`internal/auth`) | tables callers, api_keys, caller_roles; per instance two caches and a reverse index | lookups, administrative writes, evictions, `LISTEN`/`NOTIFY` | authenticator reads it, admin API writes it, Postgres connects instances |
| Route table (`internal/router`) | per upstream tool list and staleness, name table | `Refresh`, background refresh, `Resolve`, `ListTools`, `Close` | asks transports; read by the proxy |
| Proxy, server, codec (`internal/proxy`, `internal/server`, `internal/jsonrpc`) | none between requests | `tools/list`, `tools/call`, batches, notifications | everything below |
| Wrap server (`internal/wrap`, `cmd/gateway/wrap.go`) | none between requests | forwards every message | one stdio transport |
| Audit log (`internal/audit`) | a table of calls | `Log`, `Query` | written by the proxy, read by the admin pages |
| Rate limiter (`internal/policy`) | token buckets, or Redis windows | `Allow` at three levels | called by the proxy |
| Health checker and agent (`internal/health`, `cmd/gateway/healthagent.go`) | health and failure count per upstream, one lock; statuses in Redis | `check`, `probe`, `Start`, `Stop`, readiness | transports, Redis; one checker in each gateway and one in the agent |
| Caller administration (`internal/admin`, `cmd/gateway/cli.go`, OIDC logins in `internal/auth/auth.go`) | the caller database and its connection pool | create and delete callers, keys and roles; `EnsureCaller` | API, pages, two kinds of command line and logins write at once |
| Outbound OAuth (`internal/auth/oauth_*`) | stored tokens; a connect flow keeps its state in a signed URL parameter | connect, callback, refresh, disconnect | proxy asks for a token per call |
| Shutdown (`cmd/gateway/main.go`, `wrap.go`) | listener, requests in flight, background goroutines | signal, drain, ordered close | all of them |
| Configuration, metrics, tracing, logging | start-up data or write-only | | |

What is hard here:

- outcomes that arrive late: a circuit breaker whose state has changed between
  `Allow` and `Record...`, a refresh whose answers are older than another one's;
- locks released in the middle of an operation: `restartWithBackoff` sleeps
  unlocked, cache fills read the database unlocked, discovery runs unlocked;
- crashes of the child between reading a request and answering it, and lost
  notifications between instances;
- requests that spend a one-time refresh token and write its successor back, with
  nothing but the row in common;
- limits that several gateways check one after the other, each by its own clock,
  on windows they share;
- two goroutines that both end the process;
- operations of several statements without a transaction, from five kinds of client;
- waiting without a deadline: for a line of output, for a background round, for a
  connection of the pool, for a lock that is held across any of these.

What makes each part correct, beyond types: the breaker never wedges and lets
nobody through while half-open; a response of a child reaches the request it
answers and a request is executed at most twice; a revoked key or role is
honoured for at most the cache's TTL on every instance; the routes
always follow configuration order, survive failed refreshes, and catch up with the
upstreams; nothing is closed under a request or a background round; concurrent
refreshes do not lose a connection, and deleting one is final; a limiter admits no
more than it counts to, and no call is forwarded that was not counted; every message
is answered once and in order, and what a caller is listed it can call; a dead
upstream is reported and one that is back too; no key and no role ends up with
another caller, and the store answers.

## The modules

Names of definitions are those of the code where there is one. A location of a
`pc` is a point where a goroutine can be overtaken; a step that holds a lock from
beginning to end is one action.

### CircuitBreaker, ResilientTransport, BreakerGate

`CircuitBreaker` has the fields of the struct as variables and its methods as
actions. Each method holds the mutex throughout, so each is one step. The
failure counter saturates at the threshold and the time since the last trip at
the cooldown; the code cannot see past either, so the clock needs no bound.
`ResilientTransport` adds the goroutines: `Admit`/`FailFast` (the call of
`Allow`), `InnerSucceeds`/`InnerFails` (the inner transport, and whether the
error is retryable and attempts are left), `Retry`/`GiveUp` (the timer or the
context in `WaitBackoff`), `Succeed`/`Fail` (the `Record` call) and `Return`.
`probe` is a history variable: the call was admitted by a breaker that was not
closed. A transport without retry is `MaxAttempts = 1`. Metrics and backoff
lengths are left out.

`BreakerGate` is what a caller may rely on: a gate with three positions and the
set of calls beyond it. Nobody enters while it is half-open, and only a call that
leaves moves it otherwise. `ResilientTransport` implements it with
`gate <- state` and the calls between `Allow` and `Record` as `beyond`.

### StdioTransport, StdioService

One `RoundTrip` per message. `mu` is the call that holds `t.mu` across a blocking
step; `cmd` is `t.cmd`, and children are numbered in the order `start` spawns
them. `EnsureRunning`, `Write`/`WriteFails`, `ReadLine`, `ReadFails` and
`RereadFails` are `RoundTrip`; `RestartUnlock`, `Wake`/`WakeFails` are
`restartWithBackoff` before and after its sleep; `Verified`, `VerifyEOF` and
`VerifyTimeout` are `verifyStartup`. The child is environment: it reads in
order, executes, answers, writes other lines, and exits at any point, also between
executing and answering. A child that exited by itself is a zombie until
`killProcess` waits for it, so `processAlive` still holds of it. Left out: the
goroutine of `verifyStartup` that can outlive its timeout, standard error, and lines
beyond the scanner's buffer of 1 MB, which end a read although the child runs.

`StdioService` is what router, proxy and `stile wrap` may rely on: messages take effect
in a child and are answered. A request gets its own reply after it took effect, or an
error, and has no effect once it is answered; it takes effect twice only if a child
exited by itself; a notification takes effect at most once, and not at all if it was
refused; after `Close` requests get errors and have no effect. A child that writes lines
which answer nothing (`garbled`) loosens this: replies can shift to other requests, and
a request can take effect late or twice, but still not a third time. `StdioTransport`
implements it with `answer <- got`, `effects <- execs`, `crashed` if some child exited
that was not killed (`Crashed`, which is why the model tells a child that was killed
from one that was reaped), and `garbled` if a line of chatter was written.

### AuthCache

The tables, the caches of several instances, and the requests that run
`Authenticate` with an API key. A lookup is three steps: clock and cache under
the read lock (`KeyHit`, `KeyMiss`), the query without a lock (`QueryKey`), the
store under the write lock (`PutKey`); the same for roles. A write commits, then
evicts kind by kind (`EvictAfterWrite`), then its notification goroutines run
(`Notify`), which reach whichever listeners are connected at that moment.
`lostKey` and `lostRole` are history: when the database last said otherwise.
The database starts with any consistent content.

The cached result holds a pointer to a `Caller`, which `Authenticate` completes with
roles after every lookup and which all requests of the key share until the entry
expires. `heap` has one such object per query that made one, `obj` says which one a
request holds, and `Finish` is its last look at it (`CanAccessTool`, the roles for
the rate limiter). So a request can act on roles that another one fetched, earlier
or later; `SharedCallerStaleness` says how old they can be. The slices are assigned
without a lock; that a reader sees a torn slice header is left out. `EnsureCaller`
of a login evicts the roles of its caller.

### RouteTable

Refreshers (the background goroutine and callers of the admin endpoint) ask the
upstreams one after the other without a lock (`Discover`, `DiscoverFails`) and
apply all the answers under the lock (`Apply`). An upstream has a sequence of tool
lists and moves along it; `tools[u]` is the number of the list the table has.
`entries` and `listed` are functions of `tools`, because `rebuildEntriesLocked`
runs before the lock under which the tools change is released. Its loops visit tools by
place, tool j of the k-th upstream; a visit adds a route unless an earlier visit has the
same name (`Taken`). A tool name is
the sequence of its segments between `__`, so a name of one upstream can equal a
prefixed name of another. `Close` waits for the background goroutine and then
closes the transports. `AddUpstream`, `RefreshUpstream` and `RemoveUpstream` have
no caller in the gateway and are left out.

### Shutdown, Server

`Shutdown` is the signal goroutine (drain, then its steps in order) against the main
goroutine, which returns from `ListenAndServe` as soon as the listener is closed, in
`stile` and in `stile wrap` (`mode`). It has no next-state relation of its own:
`Server` composes it with what the requests do. A background round may still start
after its `stopCh` is closed, since `select` chooses at random when the ticker is ready
too; the wait for `done` covers it (`RoundStarts`, `CloseStep`).

`Server` handles POST bodies in both programs. A body is a sequence of messages with
the fields that `parseOneRequest` looks at, or a fault of the whole body. In `stile`
a request is authenticated (if `server.database` is configured; otherwise everybody
may call everything), parsed, and its messages dispatched one after the other; a
single `tools/call` runs through `HandleToolsCall` (`RefuseRoute`, `Route`,
`RefuseCall`, `Send`, `Returned`), is recorded (`Record`) and answered
(`WriteResponse`), a list takes the table and filters it (`ListTools`,
`FilterTools`). In `stile wrap` every message goes to the child (`Send`,
`Forwarded`), whose transport takes one at a time (`InChild`). Limits, tokens and
transports have modules of their own; here they refuse, answer or fail at will.
What a transport returns is passed on with the id it came with: neither transport
compares it with the request's, so an upstream that does not echo ids, or a child that
writes a notification, makes a response with another id or a null one. A scenario says
whether upstreams echo ids (`echoes`, `ReplyIDs`). Auditing is enabled, and an insert
may fail at any time: `auditLog` says of each call whether its insert was tried and
whether the row is there. `changes` counts what happened to table, grants and connections,
so that two answers can be compared only when nothing changed between them. A
scenario is a bound: which two bodies are sent and what else may happen.

### Health

One `Checker` in the gateway and one in `stile health-agent`. A round (`StartCheck`,
then one of `CheckStored`, `CheckPassive`, `CheckActive` per upstream) holds the
checker's lock from beginning to end, so `Readable`, which `/readyz` and the admin
status need, is "between rounds". `CheckPassive` waits for the lock of a stdio transport
that is in a call (`busy`). The 2 s context for the store starts with the round: `over`
is set when a ping or the wait for a stdio lock outlasts it, the latter at the latest
when a whole interval passes (`Tick`). A ping may take up to 5 s, so one that is answered
can outlast it too (`Overrun`): it counts as a success, and its status is not written.
A tick is one `check_interval`, in which a round ends unless it waits for a stdio
transport. A status in Redis lives `TTL` intervals from its write, two by the code's
default, so it ends somewhere within the interval that its `TTL`-th tick begins
(`Expire`), before the gateway's round there or after it. HTTP upstreams answer, answer
late, reject, fail or hang; Redis comes and goes; the agent crashes between any two steps and starts again from nothing. `failedAgo`
is history. The agent visits its upstreams in the order of a Go map, which is random but
fixed for the life of the process: the configurations of the instance are symmetric in
it, except that a restart keeps the order. What was read just before it expired is
reported until the next round, so an alarm can last the TTL and one interval. It lasts
longer in one case (`HeldUpBehind`): the round has read the status of an upstream and then waits, for as
long as a call to its child takes, for a stdio transport further down the list. What it
read is reported when it gets through, and `AlarmExpires` excludes that. For a gateway
without store the counter of `HTTPTransport` is driven by traffic (`Call`).

### CallerAdmin

The three tables, statement by statement, with every client that writes to them: the
JSON API, the pages of the admin interface, the local command line (with a pool of
its own), the remote command line (through the API), and OIDC logins. An operation
is a sequence of statements (`Statements`, put together by `CallerRequest`,
`KeyRequest`, `RoleRequest`, `DirectRequest`, `RunRemoveCaller`, `RunRevokeKey` and
`AuthenticateOIDC`), since nothing in the code uses a transaction; each statement is a
step, and any of them may fail, which leaves what was done. Key and role rows carry as
history the name they were asked for. A statement needs a connection of the pool;
only the result set of `ListCallers` keeps one across steps (`OpenRows`, `NextRow`,
`CloseRows`). Where SQLite and Postgres differ (the insert of a default role for a
caller that is gone) both outcomes are possible.

### OAuthTokens

One row of `user_oauth_tokens`, the `ResolveToken` calls that read and refresh
it, callbacks of one connect flow (a reload of the page is a second callback
with the same state and code) and the two admin endpoints. Requests may be in
different instances: they share only the row. `ResolveToken` is the read
(`NotConnected`, `UseStored`, `StartRefresh`), the reply of the provider
(`Receive`), the upsert (`StoreRefreshed`, `StoreRefreshedFails`) and the fall
back to the old token (`RefreshFailed`); between any two of them other requests
run. The provider rotates refresh tokens or not and states a lifetime or not
(`rotates`, `tells`), may be unreachable, may refuse with a status or with an
error in a reply of status 200, and its reply may be lost. An access token is
the time until which the provider honours it and a refresh token is a number, so
that "expired" and "still accepted" can be said without token contents. The
upsert takes no time: only the provider keeps requests waiting. That is an idealisation,
since `StoreToken` does not use the request's context and SQLite may wait up to its
`busy_timeout` of 5 s; `DeletedStaysDeleted` is as exact as that. `mishap` is history: a
reply or a write was lost, or a token came without a refresh token, after which the row
may hold a refresh token that is spent. `strict` is a provider that refuses with an
error status, as RFC 6749 has it. One that is not may answer a refusal with status 200
(GitHub, the example of `docs/oauth-setup.md`, does); nothing is lost then, but `Refresh`
does not look whether the reply has an access token (`exchangeCode` does), and the loser
of two concurrent refreshes stores an empty token over the winner's row.
`ConnectionSurvives` is about strict providers, because the code does not keep it for
the others. Two facts that the model shows
without a property: a token that an admin enters has no expiry, so its refresh
token is never used; and the state of a connect flow is a signed token that
any number of callbacks may present until it expires, although
`docs/oauth-setup.md` calls it single-use and stored in memory. It is the
provider's check of the code that makes the second callback fail.

### RateLimits, LocalRateLimiter, RedisRateLimiter, Gateway

`RateLimits` holds the configuration and what both limiters share: the three
levels in their order, the key a limit is counted by, and the fastest of the
limits that roles bring with them. Counts are whole numbers, as in every
documented configuration. The limiters differ in what they make of them:
`MostPermissive` (local) lets a role only raise a default limit and fixes it with
the caller's first request; `EffectiveLimit` (Redis) lets a role replace the
default and looks anew each time.

`LocalRateLimiter` has one bucket per key, counted in fractions of a token so that
refilling is exact. `Allow` holds the lock throughout and is one step: it registers
the caller, creates the limiters it reaches, and takes a token of each level up to
the first that has none. A caller with `MaxTools` tool limiters gets a full one
for each call of another tool. Upstream buckets are made when the limiter is; they
start full, so the model makes them at first use.

`RedisRateLimiter` has the sorted set of each key and the time Redis drops it.
`slidingWindowScript` is atomic in Redis and so is one step; the three scripts of a
call are three steps. The members of the set are made of the stamp, which Lua turns
into text with 14 digits, and of `math.random()`, which Redis seeds alike for every
script: stamps within 100 us make one member (`Member`, with `Grain` stamps each), and
adding it again only changes its score (`Added`), possibly to an older one.

`Gateway` runs requests through `HandleToolsCall` with either limiter. The gateways
that share a Redis differ only in their clocks, so a request reads a clock that is
up to `Skew` ahead (`AllowRedis`) and keeps that stamp for its three scripts,
which must be over by the deadline `Delay` (`InTime`). A script may run without its
reply arriving, any number of times (`ReplyLost`), and a check may fail before or
after (`CheckFails`). A caller's roles may be others at every request. Without
`server.database` nobody is authenticated (`authenticated`), and all calls are those
of one anonymous caller without roles. `Forward` is the
token, the round trip and the response in one step, as nothing of them reaches
back into the limiters. `admitted` is history: who passed each key, when, and with
which stamp.

## The runs

| Run | Instance | Shows |
|---|---|---|
| `Resilience` | 3 calls, threshold 2, cooldown 2, 2 attempts | `ClosedIffBelowThreshold`, `ProbeInFlight`, refinement of `BreakerGate`, `OpenRelents` |
| `Stdio` | 2 requests, 1 notification, 3 children, 2 restarts, 2 log lines of which 1 is skipped | `BlockedCallOwnsChild`, `ResponseMatchesRequest`, `AtMostTwice`, refinement of `StdioService`, `RoundTripReturns` |
| `AuthCache` | 2 instances, 2 requests (on one of them), 1 caller, key and role, TTL 1, 3 time units, 1 write | `IndexComplete`, `KeyStalenessBounded`, `RoleStalenessBounded`, `SharedCallerStaleness` |
| `RouteTable` | 2 upstreams with colliding names, background and 1 admin refresh | `RoutesAreFirstWins`, `EntriesSurviveFailure`, `CatalogConverges`, `CloseReturns` |
| `Server` | 2 requests of 1 caller, 16 pairs of bodies, 2 tools (one of a child, one that needs a connection), batches of up to 3, 1 change or 1 client that leaves | `AnswersMatch`, `ListedIsCallable`, `CallsAreAudited`, `DrainBeforeClose`, `BackgroundStopsFirst`, `Answered` |
| `Health` | 6 configurations of up to 2 HTTP and 1 stdio upstream, with and without store, failing open and closed; threshold 2, TTL 2, up to 2 changes and 1 crash | `AlarmExpires`, `DeadIsReported`, `BackIsReported`, `ReadyzAnswers` |
| `CallerAdmin` | every choice of 3 of 17 operations on 2 callers, 2 labels, 2 roles, up to 2 keys at the start, 2 connections | `RowsOwned`, `ProvisionedComplete`, `RevokesOnlyNamed`, `RemovalSparesCountedKeys`, `PoolSuffices` |
| `OAuthTokens` | 2 calls, 2 callbacks, lifetime 2, margin and timeout 1, 4 time units, 2 tokens entered or issued | `ConnectionSurvives`, `GoodTokenIsValid`, `DeletedStaysDeleted` |
| `Gateway` | 3 requests of 1 caller for 2 tools of 1 upstream, 2 roles, either limiter, limits of 1 or 2 per window of 3, 2 stamps to a member, deadline 1, 1 tool limiter, 4 time units | `WindowBounded`, `BucketBounded`, `ForwardedWasCounted` |

Three runs state what the documentation says and the code does not do; TLC finds
a counterexample to each:

| Run | Claim | What happens |
|---|---|---|
| `Server_DrainsInFlight` | `README.md`: "draining in-flight requests before exiting" | main returns, and ends the process, while the signal goroutine drains; `stile wrap` does the same |
| `Health_HungIsReported` | `docs/runbooks/upstream-unhealthy.md`: an upstream "responding too slowly, causing health check timeouts" is reported unhealthy | the ping takes 5 s, the context in which its result is stored 2 s from the start of the round: the status is never written, nor any later one of that round |
| `CallerAdmin_StoreAnswers` | `docs/tasks/task-17.md`: "busy timeout equivalent via `context.WithTimeout`" | as many `ListCallers` as the pool has connections each hold one and wait for another; no statement has a timeout, so every key lookup waits with them |

The models also show these disagreements, which no run states:

- `docs/request-flow.md`: after a cooldown "one probe request is allowed through". A
  late failure of an old call clears the probe flag; after another cooldown a
  second probe joins the first (`ResilientTransport`).
- `stdio.go`: "Close shuts down the transport and kills the child process". Two calls
  that restart in the same backoff start two children, and the first is forgotten
  (`StdioTransport`, `Wake`).
- `docs/tasks/task-29.md`: a revocation "takes effect immediately on the instance that
  performs the write". A lookup that read the key before the write stores it after
  the eviction (`AuthCache`).
- `oauth_resolver.go`: "Returns ("", nil) if the upstream doesn't use OAuth". `Refresh`
  does not look for a missing `access_token` in a reply of status 200, so an empty
  token without expiry replaces the good one and is returned (`OAuthTokens`,
  `RefuseWith200`). With a provider that refuses so, two refreshes at once suffice to
  lose the connection.
- `README.md`: "every `tools/call` is logged". The insert is tried for every call, but it
  runs under the request's context, so the row of a client that leaves during the round
  trip is lost; and the audit database is opened without `busy_timeout`, so concurrent
  inserts can fail, which `docs/runbooks/database-connection-exhausted.md` knows of. The
  error is logged and the call answered (`Server`, `Record`).
- `docs/runbooks/upstream-unhealthy.md` lists rejected credentials as a cause of an
  unhealthy upstream. So it is with an agent (`DeadIsReported`); but `HTTPTransport`
  counts a 4xx as a success, so a gateway without store reports it healthy
  (`Recorded`).
- An upstream that answers its ping after more than 2 s is healthy to the agent, but its
  status is not written: a gateway that fails closed reports it unhealthy (`Overrun`).
- Rate limits are documented as calls per window. The Redis limiter counts calls that
  are stamped within 100 us once, so more calls pass than the limit says
  (`RedisRateLimiter`, `Added`).
- A response is relayed with whatever id the upstream gave it (`Server`, `Results`),
  while JSON-RPC has the client expect its own.
- A login whose `EnsureCaller` fails after its first insert leaves a caller without
  default roles for good, since the next login finds the caller and inserts nothing;
  and the roles are inserted by name, so they can reach a caller of the same name
  that was created meanwhile (`DefaultRole`).
- The remote `revoke-key` deletes the first key with the label, the local one all of
  them (`PickKey`, `RevokeLabel`); `POST /admin/callers` and the assignment of roles
  can answer 500 after they have committed.
- Only `stile` limits the length of a batch; `stile wrap` does not (`Accepted`).

Passing runs are small but reach the cases that matter. Three calls are what it takes
for one to trip the breaker, one to probe and one to report late; a threshold of 2
separates counting from tripping. Three children allow the original, its replacement and
one more, which two calls that sleep at once need, and a message three executions if the
code allowed them. Two instances and two requests let one request fill a cache that the
other reads while either instance writes. Requests run on one instance, since they share
nothing across instances, and a TTL of 1 with 3 time units sees an entry expire and the
object it held live on. In `RouteTable` the first upstream takes over a name of the
second while a refresh is under way. Two requests of `Server` are a list and a call, two
calls that compete for the child, or a call beside each kind of body, with upstreams
that do not echo ids for two calls and for a batch. Two ticks of TTL
and a threshold of 2 separate one failed round from an alarm and one missed write from
an expired status. Three operations let one be overtaken by two others between two of
its statements (delete, create again), and two lists exhaust two connections while the
third operation waits. Two calls can read one expired row and spend its refresh token
twice, while the row is deleted, entered or connected anew; a lifetime of 2 and a margin
of 1 leave one time unit in which a token is good, one in which it counts as expired and
is still accepted. Three requests exceed every limit of `Gateway`; a deadline of 1 in a
window of 3 lets a script run after one with a later stamp, and 4 time units see a
window end; with two stamps to a member some calls share one and others do not. One
role raises the caller's limit, the other adds one per tool, so keys
meet limits that differ. TLC checks `Gateway` with equal clocks (`Skew` 0: with a skew
of 1 only admissions of one time unit would be recent in so short a window); the theorem
covers every skew. `writes`, `now`, the children, the chatter lines, and the changes and
crashes of a scenario or configuration are the only quantities that are bounded
artificially (`MaxWrites`, `MaxTime`, `MaxProcs`, `MaxChatter`, `MaxGrants`,
`Scenarios`, `Configs`; `MaxTools` is the code's own bound of 1000, `MaxBatch` its bound
of 100, `MaxOpenConns` its 5 or 10); a request or call beyond the bound simply does not
happen. In `AuthCache` an instance that serves no request has nothing to evict, so
`OnlyBusyListen` leaves its listener out. `Stdio`, `AuthCache`, `Server`, `Health`,
`CallerAdmin`, `OAuthTokens` and `Gateway` come to rest when all messages are answered,
requests served, operations over or the process is gone, so deadlock is not checked
there; `Answered`, `ReadyzAnswers` and `PoolSuffices` say instead that nobody waits for
good.

### Fairness

- `ResilientTransport`: an admitted call takes its next step (the inner transport
  answers or fails, timers fire, locks are granted) and the clock advances.
  Nothing is assumed about new calls or cancellations. That the inner transport
  answers is a real assumption: HTTP has a timeout, stdio has not.
- `StdioTransport`: goroutines run, timers fire, and a child that keeps running
  answers what it reads. Without the last assumption `RoundTripReturns` is
  false, since the read has no deadline. It may still crash at any time.
- `RouteTable`: the ticker ticks, goroutines run, requests to upstreams return.
  `BackgroundStops` is strongly fair because `select` chooses at random among
  the ready channels.
- `Health`: tickers tick, goroutines run; `Exit` and `CheckPassive` are strongly fair,
  since `select` is random and a `sync.Mutex` is handed to a goroutine that has
  waited long; calls to children return; and the background refresh, which is on
  when `tool_cache_ttl` is set, calls every HTTP upstream again and again (without
  it, a gateway without store and without traffic learns nothing).
- `Server`: the handler of a request takes its next step, which includes that
  upstreams and children answer. Nothing is assumed about clients, changes or the
  shutdown.
- `CallerAdmin`: goroutines and processes run, and a statement that has a connection
  returns, if only with an error.

## The proofs

`ResilientTransportProofs` proves, for any set of calls and any positive
threshold, cooldown and number of attempts (`BreakerAssumption`,
`TransportAssumption`, which the code's configuration validation guarantees):

- `TypeCorrect`, `CounterAgrees` and `NeverWedged`: `TypeOK`,
  `ClosedIffBelowThreshold` and `ProbeInFlight` always hold;
- `ImplementsGate`: every behaviour is one of `BreakerGate`.

The inductive invariant `IInv` adds one fact to the three: a call that waits for
another attempt has one left (`AttemptLeft`). Without it `TypeOK` is not
inductive, since `Retry` increments the counter with no guard of its own; the
guard is in `InnerFails`, one step earlier. `BreakerSteps` reduces a step of the
transport to the breaker method it runs; `CounterStep` is then a case split over
methods, `ProbeStep` and `TypeStep` over actions. The refinement needs
`ProbeInFlight`: only because half-open implies the probe flag is set does
`Allow` never admit anyone there.

`OAuthTokensProofs` proves, for any calls and callbacks, any lifetime and without
bounds on time or grants other than the model's own constants, `TypeCorrect`,
`AlwaysRenewable`, `GoodTokensAreValid` and `DeletionIsFinal`: `TypeOK`,
`ConnectionSurvives`, `GoodTokenIsValid` and `DeletedStaysDeleted`.
`TokenAssumption` asks that the client's timeout (10 s) be at most the margin of
`Expired` (30 s) and the lifetime of a token. The inductive invariant consists of

- `ExpiryTracks`: the gateway's expiry of a token is at most the timeout behind
  the provider's, because the reply came within it. With the margin this gives
  `GoodTokenIsValid`.
- `Known`: no refresh token is known that has not been issued, so a new one is
  different from all.
- `RefreshInv`, while nothing was lost and the provider is strict (`Intact`): a request on its way from the provider to
  the row carries a token the provider accepts (`CarriedAccepted`); with rotation
  nobody else knows that token (`Exclusive`), so nobody can spend it before it is
  stored; without rotation no token is ever spent (`Lasting`). When `Renew` spends
  the token of the row, the request that does so carries its successor, which is
  the second half of `ConnectionSurvives`.
- `Overtaken`: a refresh still under way when the row is gone was sent before it
  went, so by the timeout it is over.

`GatewayProofs` proves, for any requests, callers, tools, roles and limits, any
deadline and any skew, `TypeCorrect`, `LimitIsKept`, `BurstIsKept` and `NoWayAround`:
`TypeOK`, `WindowBounded`, `BucketBounded` and `ForwardedWasCounted`. Assumed are the
types of the configuration, that of several roles one is the fastest, and that there are
finitely many tools (`LocalAssumption`).

`LimitIsKept`: Why the limit is kept although entries are removed by
scores that are out of order, and although a later call can set back the score of a
member: what a script removes has a score at least a window before its own stamp, which
is at most the skew ahead of the clock; and whoever set the score of a call's member did
so no earlier than the call was admitted and at most the deadline after the score
(`Holds`), so that the call was admitted at least a window less both ago. The set itself is dropped only a window after the last
admission (`ExpiryTracks`), where with roles of different windows under one key
"window" is one of the key's limits, which is why the property is about the
shortest. So an admission that is recent by that measure is still in the set
(`StillCounted`); these two with the types and the finiteness of the sets are
the inductive invariant. The script admits only if the set is below the limit,
which bounds the members of the recent calls, whatever the `Grain`.

`BurstIsKept`: what a bucket has admitted since any time t and what it has left is
at most the burst and what was refilled since t (`Fits`). The tokens must be in the
sum: without them the bound says nothing about the next admission. A refill that is
capped only lowers it. A key that has admitted somebody and has no bucket is that of a
tool for which its caller has no room (`OutOfRoom`), and stays so because buckets are
never dropped. `NoWayAround`: every level that a request has behind it has counted it
(`ClearedWasCounted`), at a location of `HandleToolsCall` or within the three scripts;
for the local limiter that a level counts whom it limits needs that a registration never
lifts a limit (`Registrations`).

`CallerAdminProofs` proves, for any operations, callers, labels, roles and any size of
the pool, `RowsOwnedAlways`, `RevokesOnlyNamedAlways`, `RemovalSparesCountedKeysAlways`
and `ProvisionedAlways`: `RowsOwned`, `RevokesOnlyNamed`, `RemovalSparesCountedKeys` and
`ProvisionedComplete`. What they rest on is that ids are never used twice (`IdsFresh`;
`AUTOINCREMENT` and `SERIAL`): an id an operation selected means the same row or none at
all when its next statement runs. The inductive invariant adds to it `Owned` (the
property, and that rows have names and ids), `Programs` (what is left of an operation is
the end of its sequence of statements, and in every sequence the statement that uses an
id directly follows the one that selects it, `Shape`) and `Holds`: the caller id an
operation holds was that of its name (`HoldsCaller`), the key id that of a key of its
caller with its label (`HoldsKey`), and no key older than its count is left
(`HoldsCount`). `ProgramShape` follows by cases over the kinds of operation from one
lemma per group of them. `ProvisionedAlways` has a second invariant on top, `ProvInv`:
the row a login made is older than any to come (`MadeIsOld`), so a caller that was
deleted and created again is another row; and while the row is there, each default role
is inserted or still to be inserted (`Provisioned`). Roles go only with their caller or
by an `unassign`, which the property excludes.

`AuthCacheProofs` proves, for any number of instances, requests, callers, keys and
roles, any TTL, any number of writes and whatever notifications are lost,
`IndexIsComplete`, `KeyStaleness`, `RoleStaleness` and `SharedStaleness`: the four
invariants of the run. `CacheAssumption` asks only that the TTL be positive and that
`None` be none of the values it stands beside. The bounds hold of what a request has
been told, and are inductive only together with the same of what is on its way there:
`KeysHeld` and `RolesHeld` say that a cached key or role was its caller's TTL before the
entry expires, and that one a request is about to cache was so when the request read its
clock (a lookup reads the clock before the database, so the database can only have been
newer). Evictions do not matter for them, since `Shrinks` is all that an eviction does.
The bound of two TTLs for roles in a shared `*Caller` needs `Shared`: entries and
requests that have the same `*Caller` are about the same caller (`EntriesAgree`,
`EntriesBind`, `SharersAgree`), their key lookups are at most TTL apart because an entry
is not found after it expires, and nobody has a `*Caller` before the request that made
it has stored it (`Unshared`). One TTL is the distance of the lookups, the other the age
of the roles.

`StdioTransportProofs` proves, for any number of calls, children and restarts,
`ChildIsOwned`, `ResponsesMatch` and `NeverThrice`: `BlockedCallOwnsChild`,
`ResponseMatchesRequest` and `AtMostTwice`; and `ImplementsService`: every behaviour is
one of `StdioService`. `StdioAssumption` has the types and that no
call has the name of a log line or of the ping. The invariant is

- `Locked`: the lock is held by exactly the call that is at a blocking step, there is a
  current child then, and nobody has reaped it;
- `InStep`, while children write nothing but replies: nothing is on its way from the
  current child when a request is about to be written, and exactly the reply to the ping
  or to the request when one is being read (`Quiet`, `Answering`). No id is compared, so
  this is what makes a reply the right one. It is about both pipes: a request that is
  still in `stdin` behind notifications is a reply to come;
- `OnePending` and `Counted`: at most one running child has yet to execute a message,
  and how often the message has been executed by where its `RoundTrip` is. Without
  `OnePending` the last restart could leave two children with the same message.

The refinement needs a second invariant on top, `ServiceInv`: a reply in a pipe is that
of a request that took effect (`Shown`); a notification is with a child, or took effect,
only if it was accepted (`Noted`); unless children chat, a request is with a child only
while its `RoundTrip` reads, and is sent again only after a crash (`Settled`); no call
has the lock after `Close` (`Returned`). `Settled` is where the order of `RoundTrip`
matters: without chatter a read fails only at the end of the output of a child that has
exited, and the restart reaps that child first, so that no return leaves a request
behind that a child could still execute (`ReadEnds`). `Simulation` then takes the
actions one by one.

`ServerProofs` proves, for any requests, bodies of any length, tools, callers and
changes, in both programs, `ClosedAfterDrain`, `BackgroundIsStopped`,
`EveryCallIsAudited`, `ListsMatchCalls` and `EveryRequestIsAnswered`:
`DrainBeforeClose`, `BackgroundStopsFirst`, `CallsAreAudited`, `ListedIsCallable` and
`AnswersMatch`. `ServerAssumption` has the types of bodies and scenarios. `ShutdownInv`
is inductive by itself: the drain precedes every close (`DrainOrder`), and a goroutine
that has been waited for is not running and cannot start again (`StopOrder`). `IInv`
adds for each request where its handler can be with what is left of its body
(`Located`), that the insert of a call is tried before it is answered (`Recorded`), and that what
the request knows of roles and table is true if nothing changed since it was
authenticated (`Fresh`). From the last, what its responses say is true in the same sense
(`Truthful`), so that a list and a refusal cannot both be said with nothing changed
between. `AnswerInv` rests on `IInv`: a handler has the rest of its messages before it
and has answered the ones it is done with (`Answering`), where "answered the first n"
(`AnswerFirst`) says of each response that it suits the message that has as many
requests before it (`Suits`): it has its id, or an upstream that does not echo ids made
it. That is stated with cardinalities, since what `SelectSeq` selects
could only be proved by induction.

`UpstreamProofs` proves, for any upstreams in any order, any threshold and TTL and any
number of crashes, `AlarmsExpire`: `AlarmExpires`. The invariant: an unhealthy status is
as old as the failure it was written for (`Dated`: its age and the time it has left are
at most the TTL), and what a gateway reports was read in this interval, when the failure
was at most TTL ago, or in the one before with a round due, or its round has been held up behind the upstream (`Alarmed`).
The last case is a result of the proof: the property without it is false when the
configuration lists an HTTP upstream before a stdio one.

Its second half is about the route table: `FirstUpstreamWins` and `FailureKeepsRoutes`,
that is `RoutesAreFirstWins` and `EntriesSurviveFailure`, for any upstreams, prefixes,
tool lists and refreshers. `RouteAssumption` asks that upstreams be listed once, as
configuration validation does, and that tool lists be sequences of names. The invariant
`TableTyped` says that what is offered, found and applied is one of the upstream's
lists; all that is said of the names follows for any such versions. Among the visits
with a name one is first, because the natural numbers are well founded (`Least`, first
for the upstream and then for the tool); it is not `Taken` (`FirstIsKept`), so the name
has a route. The visit behind a route is kept (`EntriesFacts`), so no earlier upstream
has the name (`FirstWins`). That a failed upstream keeps its routes is then a fact about
two versions of the tools: the visit that had the name is still there, so the name is
(`Survives`), perhaps by now as that of an earlier upstream.

What is left to TLC alone is liveness under fairness, which this prover cannot state:
`OpenRelents`, `RoundTripReturns`, `CatalogConverges`, `CloseReturns`, `DeadIsReported`,
`BackIsReported`, `ReadyzAnswers`, `Answered` and `PoolSuffices`. Every invariant, action
property and refinement of the passing runs is proved. The three claims of the
documentation that fail are refuted by TLC on a small instance, which is all that a
counterexample needs. What `ListTools` lists (`listed`) is computed and not stated as a
property.

## Not modelled

- Configuration: parsing, defaults and validation of YAML, once at startup and in one
  goroutine. What it decides are the constants and initial states of the modules.
- Metrics, tracing and logging: nothing in the program reads them back.
- OIDC tokens: signatures and discovery are library code. The cache of userinfo
  answers in `oidc.go` is a map with expiry that is never swept; it is not modelled.
- Sessions of the admin pages, the query of the audit log, the view of the
  configuration, HTML and JSON formatting, framing of server-sent events, TLS: input,
  output and formatting around the operations above.
- `AddUpstream`, `RemoveUpstream` and `RefreshUpstream` of the router and
  `UpdateUpstreams` of the health checker, which nothing calls outside tests.
- The goroutine of `verifyStartup` that outlives its timeout, and torn reads of the
  slices in a shared `*Caller`.
