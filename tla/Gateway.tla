------------------------------ MODULE Gateway ------------------------------
(***************************************************************************)
(* tools/call from the HTTP handler to the upstream and back: access       *)
(* check, routing, rate limit, OAuth token, forwarding and audit           *)
(* (HandleToolsCall of internal/proxy/proxy.go), with the rate limiter the *)
(* configuration selects.  With Redis the requests may be in several       *)
(* gateways, whose clocks differ.                                          *)
(***************************************************************************)
EXTENDS LocalRateLimiter, RedisRateLimiter

CONSTANTS
    Requests,
    CallerOf, ToolOf,  \* what each request asks for
    AllowedTools,      \* the tools that each role may call
    Delay,             \* the deadline of a rate limit check
    Skew,              \* how far a clock may be ahead
    MaxTime            \* bound on the clock

ASSUME GatewayAssumption ==
    /\ CallerOf \in [Requests -> Callers] /\ ToolOf \in [Requests -> Tools]
    /\ AllowedTools \in [Roles -> SUBSET Tools]
    /\ Delay \in Nat /\ Skew \in Nat /\ MaxTime \in Nat

VARIABLES
    backend,   \* rate_limits.backend
    authenticated,  \* server.database is configured, so requests have a caller
    pc,        \* where each request is
    roles,     \* the roles of its caller
    began,     \* when its check of the limits began
    stamp,     \* the time it sends to Redis
    admitted   \* history: who passed each key, and when

configVars == <<backend, authenticated>>
requestVars == <<pc, roles, began, stamp>>
vars == <<now, configVars, localVars, redisVars, requestVars, admitted>>

KeyOf(r, level) == Key(level, CallerOf[r], ToolOf[r])

Init ==
    /\ now = 1
    /\ backend \in {"local", "redis"}
    /\ authenticated \in BOOLEAN
    /\ authenticated \/ \A q, r \in Requests : CallerOf[q] = CallerOf[r]  \* "anonymous"
    /\ InitLocal /\ InitRedis
    /\ pc = [r \in Requests |-> "idle"]
    /\ roles = [r \in Requests |-> {}]
    /\ began = [r \in Requests |-> 0]
    /\ stamp = [r \in Requests |-> 0]
    /\ admitted = [k \in Keys |-> {}]

Goto(r, loc) == pc' = [pc EXCEPT ![r] = loc]

\* The response is written and, but for invalid parameters, the request recorded.
Finish(r) ==
    /\ Goto(r, "done")
    /\ roles' = [roles EXCEPT ![r] = {}]
    /\ began' = [began EXCEPT ![r] = 0]
    /\ stamp' = [stamp EXCEPT ![r] = 0]

\* Request r passes the keys ks with stamp n.
Admit(r, ks, n) ==
    admitted' = [k \in Keys |-> IF k \in ks
                                THEN admitted[k] \union {[by |-> r, at |-> now, stamp |-> n]}
                                ELSE admitted[k]]

-----------------------------------------------------------------------------
(* Before the limits.                                                      *)

CanAccessTool(t, rs) == \E q \in rs : t \in AllowedTools[q]

\* The parameters name a tool that one of the roles may call and the route table
\* has.  The roles are those that authentication found; without authentication
\* there are none and every tool may be called.
Route(r) ==
    /\ pc[r] = "idle"
    /\ \E rs \in SUBSET Roles :
        /\ IF authenticated THEN CanAccessTool(ToolOf[r], rs) ELSE rs = {}
        /\ roles' = [roles EXCEPT ![r] = rs]
    /\ Goto(r, "limit")
    /\ UNCHANGED <<now, configVars, localVars, redisVars, began, stamp, admitted>>

\* Invalid parameters, access denied, or unknown tool.
Refuse(r) ==
    /\ pc[r] = "idle"
    /\ Finish(r)
    /\ UNCHANGED <<now, configVars, localVars, redisVars, admitted>>

-----------------------------------------------------------------------------
(* The rate limit.                                                         *)

AllowLocal(r) ==
    /\ pc[r] = "limit"
    /\ backend = "local"
    /\ \E passed \in SUBSET Levels, allowed \in BOOLEAN :
        /\ LocalAllow(CallerOf[r], ToolOf[r], roles[r], passed, allowed)
        /\ Admit(r, {KeyOf(r, l) : l \in passed}, 0)
        /\ IF allowed THEN Goto(r, "forward") /\ UNCHANGED <<roles, began, stamp>>
                      ELSE Finish(r)
    /\ UNCHANGED <<now, configVars, redisVars>>

\* The clock is read once, before the first script.
AllowRedis(r) ==
    /\ pc[r] = "limit"
    /\ backend = "redis"
    /\ Goto(r, "caller")
    /\ began' = [began EXCEPT ![r] = now]
    /\ \E n \in now .. now + Skew : stamp' = [stamp EXCEPT ![r] = n]
    /\ UNCHANGED <<now, configVars, localVars, redisVars, roles, admitted>>

LimitAt(r, level) == EffectiveLimit(level, ToolOf[r], roles[r])

\* Where a request goes from a level that lets it through.
After == [caller |-> "tool", tool |-> "upstream", upstream |-> "forward"]

CheckLimit(r) ==
    /\ pc[r] \in Levels
    /\ LimitAt(r, pc[r]) # NoLimit
    /\ \E allowed \in BOOLEAN :
        /\ slidingWindowScript(KeyOf(r, pc[r]), LimitAt(r, pc[r]), stamp[r], allowed)
        /\ IF allowed
           THEN /\ Goto(r, After[pc[r]])
                /\ Admit(r, {KeyOf(r, pc[r])}, stamp[r])
                /\ UNCHANGED <<roles, began, stamp>>
           ELSE /\ Finish(r)
                /\ UNCHANGED admitted
    /\ UNCHANGED <<now, configVars, localVars>>

\* The script has run and its reply is lost; the client library sends it again or
\* gives up.
ReplyLost(r) ==
    /\ pc[r] \in Levels
    /\ LimitAt(r, pc[r]) # NoLimit
    /\ \E allowed \in BOOLEAN :
        slidingWindowScript(KeyOf(r, pc[r]), LimitAt(r, pc[r]), stamp[r], allowed)
    /\ UNCHANGED <<now, configVars, localVars, requestVars, admitted>>

\* Mutant: a failed check lets the request through.
CheckFailsOpen(r) ==
    /\ pc[r] \in Levels
    /\ LimitAt(r, pc[r]) # NoLimit
    /\ Goto(r, After[pc[r]])
    /\ UNCHANGED <<now, configVars, localVars, redisVars, roles, began, stamp, admitted>>

\* Redis fails or the deadline passes: denied.
CheckFails(r) ==
    /\ pc[r] \in Levels
    /\ LimitAt(r, pc[r]) # NoLimit
    /\ Finish(r)
    /\ UNCHANGED <<now, configVars, localVars, redisVars, admitted>>

Unlimited(r) ==
    /\ pc[r] \in Levels
    /\ LimitAt(r, pc[r]) = NoLimit
    /\ Goto(r, After[pc[r]])
    /\ UNCHANGED <<now, configVars, localVars, redisVars, roles, began, stamp, admitted>>

-----------------------------------------------------------------------------
(* Behind the limits.                                                      *)

\* ResolveToken fails, or returns a token or none for lack of need and RoundTrip
\* sends the call and returns a result or an error.
Forward(r) ==
    /\ pc[r] = "forward"
    /\ Finish(r)
    /\ UNCHANGED <<now, configVars, localVars, redisVars, admitted>>

\* A check ends with its context; nothing else is timed.
InTime(r) == pc[r] \in Levels => now < began[r] + Delay

Tick ==
    /\ now < MaxTime
    /\ \A r \in Requests : InTime(r)
    /\ now' = now + 1
    /\ UNCHANGED <<configVars, localVars, redisVars, requestVars, admitted>>

HandleToolsCall(r) ==
    \/ Route(r) \/ Refuse(r)
    \/ AllowLocal(r)
    \/ AllowRedis(r) \/ CheckLimit(r) \/ ReplyLost(r) \/ CheckFails(r) \/ Unlimited(r)
    \/ Forward(r)

Next == Tick \/ \E r \in Requests : HandleToolsCall(r)

Spec == Init /\ [][Next]_vars

-----------------------------------------------------------------------------
(* Properties.                                                             *)

\* Every value has its type, and no check outlasts the deadline of Allow.
TypeOK ==
    /\ now \in Nat \ {0}
    /\ backend \in {"local", "redis"} /\ authenticated \in BOOLEAN
    /\ pc \in [Requests -> Levels \union {"idle", "limit", "forward", "done"}]
    /\ roles \in [Requests -> SUBSET Roles]
    /\ began \in [Requests -> Nat] /\ stamp \in [Requests -> Nat]
    /\ window \in [Keys -> SUBSET Nat] /\ expiry \in [Keys -> Nat]
    /\ \A k \in Keys : admitted[k] \subseteq [by : Requests, at : 1 .. now, stamp : Nat]
    /\ \A r \in Requests : pc[r] \in Levels =>
           /\ backend = "redis"
           /\ began[r] <= now /\ now <= began[r] + Delay
           /\ began[r] <= stamp[r] /\ stamp[r] <= began[r] + Skew

\* The limits that calls counted under a key can be subject to.
LimitsOf(k) == (IF k[1] = "upstream" THEN {UpstreamRate(k[2])}
                ELSE {Default[k[1]]} \union {RoleLimit[k[1]][q] : q \in Roles}) \ {NoLimit}

\* The members that calls admitted lately have made: within the shortest window, less
\* the time between stamp and script and the difference between clocks.
LateMembers(k) ==
    {Member(b.stamp) : b \in {a \in admitted[k] :
                                \A lim \in LimitsOf(k) : now - a.at + Delay + Skew < lim.window}}

\* What the Redis limiter keeps of its limit, although requests are stamped before the
\* script runs, on clocks that differ, and are counted out of order, and although a call
\* can set back the score of another: when it admits a call, the calls it admitted
\* within the window (less delay and skew) fall into no more members than the limit.
\* Calls of one member, stamped within the same 100 us, count once: the limit on calls
\* that the configuration promises is not kept.
WindowBounded ==
    [][ backend = "redis" =>
          \A k \in Keys : \A b \in admitted'[k] \ admitted[k] :
              Cardinality(LateMembers(k)') <= LimitAt(b.by, k[1]).count ]_vars

\* The local limiter admits, between any two admissions, at most the burst and what
\* was refilled meanwhile; except for the tools of a caller beyond MaxTools, which
\* have no bucket of their own (getOrCreateToolLimiterLocked).
BucketBounded ==
    backend = "local" =>
        \A k \in Keys : bucket[k] # NoBucket =>
            \A a, b \in admitted[k] :
                LET lim == bucket[k].lim
                    between == {c \in admitted[k] : a.at <= c.at /\ c.at <= b.at}
                IN  a.at <= b.at =>
                        Cardinality(between) * lim.window
                            <= lim.burst * lim.window + (b.at - a.at) * lim.count

\* A call is limited at a level for certain; a caller of the local limiter can have
\* been unlimited when it made the call and limited by a role since.
LimitedAt(r, level) ==
    IF level = "upstream" THEN UpstreamRate(UpstreamOf[ToolOf[r]]) # NoLimit
    ELSE IF backend = "redis" THEN LimitAt(r, level) # NoLimit
    ELSE Default[level] # NoLimit

\* No call is sent to an upstream without having been counted at every level that
\* limits it, whatever fails in between (fail-closed).
ForwardedWasCounted ==
    \A r \in Requests : pc[r] = "forward" =>
        \A level \in Levels : LimitedAt(r, level) =>
            \E b \in admitted[KeyOf(r, level)] : b.by = r
=============================================================================
