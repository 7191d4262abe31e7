------------------------------- MODULE Health -------------------------------
(***************************************************************************)
(* Upstream health: the Checker of internal/health/health.go, the store of *)
(* internal/health/store.go, the failure counter of the HTTP transport     *)
(* (internal/transport/http.go) and /readyz.                               *)
(*                                                                         *)
(* The same Checker runs in the gateway, where it asks the transports or   *)
(* reads the store, and in `stile health-agent`, where it pings the HTTP   *)
(* upstreams and writes the store.  A round holds the checker's lock from  *)
(* its first upstream to its last, and so does every step between them.    *)
(*                                                                         *)
(* A tick of the model is one check_interval.  Rounds, and the 2 s of      *)
(* storeCtx, are shorter than that, unless a round waits for the lock of a *)
(* stdio transport.                                                        *)
(***************************************************************************)
EXTENDS Integers, Sequences, Functions

CONSTANTS
    Http, Stdio,     \* upstreams by transport; the stdio ones are Local
    Configs,         \* the configurations: store, missing_status and, for each
                     \*   checker, its upstreams in the order of its rounds; and
                     \*   as bounds what HTTP upstreams do, how often the agent
                     \*   crashes and how often upstreams and Redis change
    FailThreshold,   \* failThreshold of a checker and of an HTTP transport
    TTL,             \* storeTTL, in check intervals
    NoStatus         \* no status in the store

Checkers == {"gateway", "agent"}
AllUpstreams == Http \union Stdio

\* What an HTTP upstream does with a request: answers, answers after seconds, answers
\* 4xx, fails at once (no connection, 5xx), or never answers.
Links == {"up", "slow", "rejects", "down", "hung"}

ASSUME HealthAssumption ==
    /\ Http \intersect Stdio = {}
    /\ \A c \in Configs :
          /\ c.store \in {"local", "redis"} /\ c.missing \in BOOLEAN
          /\ c.gateway \in Seq(AllUpstreams) /\ c.agent \in Seq(Http)
          /\ Range(c.agent) = Range(c.gateway) \intersect Http
          /\ c.links \subseteq Links /\ c.crashes \in Nat /\ c.changes \in Nat
    /\ FailThreshold \in Nat \ {0}
    /\ TTL \in Nat \ {0}
    /\ NoStatus \notin [healthy : BOOLEAN, left : Nat]

VARIABLES
    config,    \* the configuration that gateway and agent have loaded
    link,      \* what each HTTP upstream does
    redisUp,   \* Redis can be reached
    changes,   \* how often one of these has changed
    crashes,   \* how often the agent crashed
    tfails,    \* consecutiveFails of each HTTP transport of the gateway
    busy,      \* stdio transports whose lock a call holds
    alive,     \* stdio transports with a child that takes signals
    status,    \* the statuses in Redis, with the ticks they have left
    run,       \* the state of each checker's goroutine
    due,       \* a tick waits in its channel
    pos,       \* the place in the order its round is at, 0 between rounds
    over,      \* storeCtx of the round is over
    health,    \* upstreams that are healthy for it
    fails,     \* consecutiveFails for it
    failedAgo  \* history: ticks since the agent last found an upstream failing

envVars == <<link, redisUp, changes, crashes>>
transportVars == <<tfails, busy, alive>>
checkerVars == <<run, due, pos, over, health, fails>>
vars == <<config, envVars, transportVars, status, checkerVars, failedAgo>>

store == config.store        \* "local" is no store at all
missing == config.missing    \* missingStatus
RoundOrder == [k \in Checkers |-> IF k = "gateway" THEN config.gateway ELSE config.agent]
Configured == Range(config.gateway)

Min2(a, b) == IF a < b THEN a ELSE b
Never == TTL + 2

Init ==
    /\ config \in Configs
    /\ link \in [Http -> config.links] /\ \A u \in Http \ Configured : link[u] = "up"
    /\ redisUp = TRUE
    /\ changes = 0 /\ crashes = 0
    /\ tfails = [u \in Http |-> 0]
    /\ busy = {}
    /\ alive \in SUBSET (Stdio \intersect Configured)
    /\ status = [u \in Http |-> NoStatus]
    /\ run = [k \in Checkers |-> IF k = "agent" /\ store = "local" THEN "exited" ELSE "running"]
    /\ due = [k \in Checkers |-> run[k] = "running"]
    /\ pos = [k \in Checkers |-> 0]
    /\ over = [k \in Checkers |-> FALSE]
    /\ health = [k \in Checkers |-> Configured \intersect (IF k = "agent" THEN Http ELSE Http \union alive)]
    /\ fails = [k \in Checkers |-> [u \in AllUpstreams |-> 0]]
    /\ failedAgo = [u \in Http |-> Never]

-----------------------------------------------------------------------------
(* The transports of the gateway.                                          *)

\* Counters only matter up to the threshold.
Count(n) == Min2(n + 1, FailThreshold)

\* Mutant: a success does not reset the counter.
RecordedKeeps(u) == IF link[u] \in {"down", "hung"} THEN Count(tfails[u]) ELSE tfails[u]

\* recordFailure or recordSuccess, as RoundTrip ends: a 4xx is a success.
Recorded(u) == IF link[u] \in {"down", "hung"} THEN Count(tfails[u]) ELSE 0

\* RoundTrip for a client, or for the tools/list of the background refresh.  With
\* Redis nobody asks these transports for their health.
Call(u) ==
    /\ store = "local"
    /\ run["gateway"] # "exited"
    /\ tfails' = [tfails EXCEPT ![u] = Recorded(u)]
    /\ UNCHANGED <<config, envVars, busy, alive, status, checkerVars, failedAgo>>

\* A stdio RoundTrip takes the lock, and keeps it until the child has answered.
BeginCall(s) ==
    /\ run["gateway"] = "running"
    /\ s \notin busy
    /\ busy' = busy \union {s}
    /\ UNCHANGED <<config, envVars, tfails, alive, status, checkerVars, failedAgo>>

\* It returns with the child running, restarted if need be, or given up.
EndCall(s) ==
    /\ s \in busy
    /\ busy' = busy \ {s}
    /\ \/ alive' = alive \union {s} /\ UNCHANGED changes
       \/ alive' = alive \ {s} /\ changes < config.changes /\ changes' = changes + 1
    /\ UNCHANGED <<config, link, redisUp, crashes, tfails, status, checkerVars, failedAgo>>

\* Transport.Healthy; the stdio transport's waits for its lock first.
Healthy(u) == IF u \in Stdio THEN u \in alive ELSE tfails[u] < FailThreshold

-----------------------------------------------------------------------------
(* check()                                                                 *)

\* The select takes a tick; c.mu is locked, storeCtx starts.  With no upstreams, as an
\* agent for stdio upstreams only has, the round is over at once.
StartCheck(k) ==
    /\ run[k] \in {"running", "stopping"}
    /\ pos[k] = 0
    /\ due[k]
    /\ due' = [due EXCEPT ![k] = FALSE]
    /\ pos' = [pos EXCEPT ![k] = IF RoundOrder[k] = <<>> THEN 0 ELSE 1]
    /\ over' = [over EXCEPT ![k] = FALSE]
    /\ UNCHANGED <<config, envVars, transportVars, status, run, health, fails, failedAgo>>

\* The upstream the round of k is at.
At(k) == RoundOrder[k][pos[k]]

\* Mutant: the round does not release the lock.
AdvanceKeepsLock(k) == pos' = [pos EXCEPT ![k] = IF @ = Len(RoundOrder[k]) THEN @ ELSE @ + 1]

\* On to the next upstream, or the end of the round and the unlock.
Advance(k) == pos' = [pos EXCEPT ![k] = IF @ = Len(RoundOrder[k]) THEN 0 ELSE @ + 1]

SetHealth(k, u, ok) ==
    health' = [health EXCEPT ![k] = IF ok THEN @ \union {u} ELSE @ \ {u}]

\* The upstream's own check succeeded or failed.
Measure(k, u, ok) ==
    /\ fails' = [fails EXCEPT ![k][u] = IF ok THEN 0 ELSE Count(@)]
    /\ SetHealth(k, u, ok \/ (u \in health[k] /\ fails[k][u] + 1 < FailThreshold))

\* Mutant: a status is taken for a healthy one.
StoredAtAll(u) ==
    IF redisUp /\ ~over["gateway"] /\ status[u] # NoStatus THEN TRUE ELSE missing

\* store.Get, or the default when it finds nothing or fails.
Stored(u) ==
    IF redisUp /\ ~over["gateway"] /\ status[u] # NoStatus THEN status[u].healthy ELSE missing

\* A remote upstream of a gateway with a store.
CheckStored ==
    LET u == At("gateway") IN
    /\ pos["gateway"] # 0
    /\ store = "redis" /\ u \in Http
    /\ SetHealth("gateway", u, Stored(u))
    /\ Advance("gateway")
    /\ UNCHANGED <<config, envVars, transportVars, status, run, due, over, fails, failedAgo>>

\* Healthy() of the transport; the gateway's checker writes nothing.
CheckPassive ==
    LET u == At("gateway") IN
    /\ pos["gateway"] # 0
    /\ store = "local" \/ u \in Stdio
    /\ u \notin busy
    /\ Measure("gateway", u, Healthy(u))
    /\ Advance("gateway")
    /\ UNCHANGED <<config, envVars, transportVars, status, run, due, over, failedAgo>>

\* storeCtx ends while the round waits for the lock of a stdio transport.
ContextEnds ==
    /\ pos["gateway"] # 0
    /\ store = "redis" /\ At("gateway") \in busy
    /\ over' = [over EXCEPT !["gateway"] = TRUE]
    /\ UNCHANGED <<config, envVars, transportVars, status, run, due, pos, health, fails, failedAgo>>

\* Mutant: the TTL is doubled twice.
StatusEntryLong(h) == [healthy |-> h, left |-> 2 * TTL]

\* The value of a status as it is written: it lives through TTL more ticks, and into
\* the interval after the last of them.
StatusEntry(h) == [healthy |-> h, left |-> TTL]

\* Whether the 2 s of storeCtx, which run from the start of the round, are over after
\* the ping of u: always after the 5 s that a hung upstream is given, and at times
\* after a slow one, by itself or together with those before it.
Overrun(u) == CASE over["agent"] \/ link[u] = "hung" -> {TRUE}
                [] ~over["agent"] /\ link[u] = "slow" -> BOOLEAN
                [] OTHER -> {FALSE}

\* The agent's probe, for which a 4xx is an error, and store.Set, which fails when
\* storeCtx is over, whatever the probe found.
CheckActive ==
    LET u == At("agent")
        ok == link[u] \in {"up", "slow"}
    IN
    /\ pos["agent"] # 0
    /\ Measure("agent", u, ok)
    /\ \E late \in Overrun(u) :
          /\ over' = [over EXCEPT !["agent"] = late]
          /\ status' = IF redisUp /\ ~late
                       THEN [status EXCEPT ![u] = StatusEntry(u \in health'["agent"])] ELSE status
    /\ failedAgo' = IF ok THEN failedAgo ELSE [failedAgo EXCEPT ![u] = 0]
    /\ Advance("agent")
    /\ UNCHANGED <<config, envVars, transportVars, run, due>>

-----------------------------------------------------------------------------
(* Start, Stop, and the agent's death.                                     *)

\* Stop closes stopCh and waits for done.
Stop(k) ==
    /\ run[k] = "running"
    /\ run' = [run EXCEPT ![k] = "stopping"]
    /\ UNCHANGED <<config, envVars, transportVars, status, due, pos, over, health, fails, failedAgo>>

\* The select takes stopCh: done is closed and Stop returns.
Exit(k) ==
    /\ run[k] = "stopping"
    /\ pos[k] = 0
    /\ run' = [run EXCEPT ![k] = "exited"]
    /\ UNCHANGED <<config, envVars, transportVars, status, due, pos, over, health, fails, failedAgo>>

\* The agent dies in the middle of whatever it does; what it wrote stays.
Crash ==
    /\ run["agent"] = "running"
    /\ crashes < config.crashes
    /\ crashes' = crashes + 1
    /\ run' = [run EXCEPT !["agent"] = "crashed"]
    /\ pos' = [pos EXCEPT !["agent"] = 0]
    /\ UNCHANGED <<config, link, redisUp, changes, transportVars, status, due, over, health,
                   fails, failedAgo>>

\* runHealthAgent again: NewChecker starts from new transports, which are healthy.
Restart ==
    /\ run["agent"] = "crashed"
    /\ run' = [run EXCEPT !["agent"] = "running"]
    /\ due' = [due EXCEPT !["agent"] = TRUE]
    /\ over' = [over EXCEPT !["agent"] = FALSE]
    /\ health' = [health EXCEPT !["agent"] = Configured \intersect Http]
    /\ fails' = [fails EXCEPT !["agent"] = [u \in AllUpstreams |-> 0]]
    /\ UNCHANGED <<config, envVars, transportVars, status, pos, failedAgo>>

-----------------------------------------------------------------------------
(* Environment                                                             *)

Change ==
    /\ run["gateway"] = "running"
    /\ changes < config.changes
    /\ changes' = changes + 1
    /\ \/ \E u \in Http, l \in config.links :
            u \in Configured /\ link[u] # l /\ link' = [link EXCEPT ![u] = l] /\ UNCHANGED redisUp
       \/ store = "redis" /\ redisUp' = ~redisUp /\ UNCHANGED link
    /\ UNCHANGED <<config, crashes, transportVars, status, checkerVars, failedAgo>>

\* A status after a tick.
Aged(s) == IF s = NoStatus \/ s.left = 0 THEN NoStatus ELSE [s EXCEPT !.left = @ - 1]

\* Redis drops a status: its TTL, counted from the write, ends somewhere within the
\* interval that its last tick begins, before the gateway's round or after it.
Expire(u) ==
    /\ status[u] # NoStatus /\ status[u].left = 0
    /\ status' = [status EXCEPT ![u] = NoStatus]
    /\ UNCHANGED <<config, envVars, transportVars, checkerVars, failedAgo>>

\* The gateway's round waits for a stdio transport.
Stalled == pos["gateway"] # 0 /\ At("gateway") \in busy

\* The goroutine of k has done what it had to before the next interval.
Punctual(k) ==
    \/ run[k] \in {"exited", "crashed"}
    \/ pos[k] = 0 /\ ~due[k]
    \/ k = "gateway" /\ Stalled

\* The model ends with the gateway.  A round that waits has lost its storeCtx.
Tick ==
    /\ run["gateway"] # "exited"
    /\ \A k \in Checkers : Punctual(k)
    /\ due' = [k \in Checkers |-> due[k] \/ run[k] \in {"running", "stopping"}]
    /\ status' = [u \in Http |-> Aged(status[u])]
    /\ failedAgo' = [u \in Http |-> Min2(failedAgo[u] + 1, Never)]
    /\ over' = [over EXCEPT !["gateway"] = @ \/ (store = "redis" /\ Stalled)]
    /\ UNCHANGED <<config, envVars, transportVars, run, pos, health, fails>>

Next ==
    \/ \E u \in Http \intersect Configured : Call(u)
    \/ \E s \in Stdio \intersect Configured : BeginCall(s) \/ EndCall(s)
    \/ \E k \in Checkers : StartCheck(k) \/ Stop(k) \/ Exit(k)
    \/ CheckStored \/ CheckPassive \/ CheckActive \/ ContextEnds
    \/ Crash \/ Restart
    \/ Change \/ Tick \/ \E u \in Http : Expire(u)

Spec == Init /\ [][Next]_vars

\* The ticker ticks and goroutines run; select and RWMutex starve nobody.  Children
\* of stdio transports answer.  tool_cache_ttl is set, so that the background
\* refresh calls every upstream again and again.
Fairness ==
    /\ WF_vars(Tick)
    /\ \A k \in Checkers : WF_vars(StartCheck(k)) /\ SF_vars(Exit(k))
    /\ SF_vars(CheckPassive) /\ WF_vars(CheckStored) /\ WF_vars(CheckActive)
    /\ \A s \in Stdio : WF_vars(EndCall(s))
    /\ \A u \in Http : WF_vars(u \in Configured /\ Call(u))

FairSpec == Spec /\ Fairness

-----------------------------------------------------------------------------
(* Properties                                                              *)

\* UpstreamStatuses and IsReady, and so /readyz and the admin status, get the lock
\* of the gateway's checker.
Readable == pos["gateway"] = 0

\* The last round had to wait for a stdio transport, and one comes after u.
HeldUpBehind(u) ==
    /\ over["gateway"]
    /\ \E i, j \in DOMAIN config.gateway :
          i < j /\ config.gateway[i] = u /\ config.gateway[j] \in Stdio

\* An alarm does not outlive its cause, whoever dies in between: a gateway that fails
\* open reports an upstream unhealthy only if the agent found it failing in this
\* interval or in one of the TTL + 1 before it: TTL that the status lives, and one until
\* the gateway's next round looks again.  The one exception is a round that read the
\* status and then waited, for as long as it took, for a stdio transport further down
\* the list.
AlarmExpires ==
    \A u \in Http :
        /\ store = "redis" /\ missing /\ u \in Configured
        /\ run["gateway"] = "running" /\ Readable
        /\ u \notin health["gateway"]
        => failedAgo[u] <= TTL + 1 \/ HeldUpBehind(u)

\* Gateway, agent and Redis work, and no upstream uses up storeCtx: one that is hung or
\* slow keeps its own status, and those of the upstreams after it, from being written.
Steady ==
    /\ redisUp /\ run["gateway"] = "running" /\ ~over["gateway"]
    /\ store = "redis" => run["agent"] = "running"
    /\ \A u \in Http : link[u] \notin {"hung", "slow"}

\* A dead upstream is found out, by gateway and agent together or by the gateway and
\* its traffic, and stays unhealthy.  So is, with an agent, one that rejects every
\* request; a gateway without store takes its 4xx for a sign of life.
DeadIsReported ==
    \A u \in Http :
        <>[](u \in Configured /\ Steady /\ (link[u] = "down" \/ (store = "redis" /\ link[u] = "rejects")))
            => <>[](u \notin health["gateway"])

\* docs/runbooks/upstream-unhealthy.md: an upstream that is back, and answers at once,
\* becomes healthy again by itself, whatever went before.
BackIsReported ==
    \A u \in Http :
        <>[](u \in Configured /\ Steady /\ link[u] = "up") => <>[](u \in health["gateway"])

\* /readyz answers although the checker holds its lock throughout a round, which
\* can have to wait for the lock of a stdio transport.
ReadyzAnswers == []<>Readable

-----------------------------------------------------------------------------
(* What documentation says and the code does not do                        *)

\* docs/runbooks/upstream-unhealthy.md counts "responding too slowly, causing health
\* check timeouts" among the causes of an upstream that is reported unhealthy.
HungIsReported ==
    \A u \in Http :
        <>[](/\ u \in Configured /\ redisUp /\ run["gateway"] = "running" /\ ~over["gateway"]
             /\ store = "redis" => run["agent"] = "running"
             /\ link[u] = "hung")
            => <>[](u \notin health["gateway"])
=============================================================================
