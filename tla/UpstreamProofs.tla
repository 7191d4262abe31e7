--------------------------- MODULE UpstreamProofs ---------------------------
(***************************************************************************)
(* What the gateway knows of its upstreams: their health, and their tools. *)
(*                                                                         *)
(* An alarm expires: the age of a status in the store, the age of what the *)
(* gateway has read from it, and the places where a round can be held up,  *)
(* for any upstreams in any order, any threshold and any TTL.              *)
(*                                                                         *)
(* A name in the route table leads to the first upstream that has it, and  *)
(* a failed discovery takes nothing away, for any upstreams, tool lists    *)
(* and concurrent refreshes.                                               *)
(***************************************************************************)
EXTENDS Health, RouteTable, WellFoundedInduction, TLAPS

Statuses == [healthy : BOOLEAN, left : 0 .. TTL]

Typed ==
    /\ config \in Configs
    /\ busy \subseteq Stdio
    /\ status \in [Http -> Statuses \union {NoStatus}]
    /\ run \in [Checkers -> {"running", "stopping", "exited", "crashed"}]
    /\ run["gateway"] # "crashed"
    /\ due \in [Checkers -> BOOLEAN]
    /\ pos \in [Checkers -> Nat] /\ \A k \in Checkers : pos[k] <= Len(RoundOrder[k])
    /\ over \in [Checkers -> BOOLEAN]
    /\ health \in [Checkers -> SUBSET AllUpstreams]
    /\ failedAgo \in [Http -> Nat]

\* A status that says unhealthy is as old as the failure it was written for.
Dated(u) ==
    status[u] # NoStatus /\ ~status[u].healthy => failedAgo[u] + status[u].left <= TTL

\* A stdio upstream comes after u.
Behind(u) ==
    \E i, j \in DOMAIN config.gateway :
        i < j /\ config.gateway[i] = u /\ config.gateway[j] \in Stdio

\* The gateway's round is past u, or there is none.
Reviewed(u) ==
    \/ pos["gateway"] = 0
    \/ \E i \in DOMAIN config.gateway : i < pos["gateway"] /\ config.gateway[i] = u

\* What the gateway reports was read within the interval, or in the one before, with a
\* round due; or the round has been held up.
Alarmed(u) ==
    u \in Configured /\ u \notin health["gateway"] /\ Reviewed(u) =>
        IF over["gateway"] THEN Behind(u)
        ELSE \/ failedAgo[u] <= TTL
             \/ pos["gateway"] = 0 /\ due["gateway"] /\ failedAgo[u] = TTL + 1

IInv ==
    /\ Typed
    /\ \A u \in Http : Dated(u)
    /\ store = "redis" /\ missing => \A u \in Http : Alarmed(u)

-----------------------------------------------------------------------------
(* The order of a round.                                                   *)

\* The sequences that the two checkers go through.
LEMMA OrderFacts ==
    ASSUME Typed
    PROVE  /\ config.gateway \in Seq(AllUpstreams) /\ config.agent \in Seq(Http)
           /\ RoundOrder["gateway"] = config.gateway /\ RoundOrder["agent"] = config.agent
           /\ Configured = {config.gateway[i] : i \in DOMAIN config.gateway}
BY HealthAssumption DEF Typed, RoundOrder, Checkers, Configured, Range

\* The upstream that a round is at.
LEMMA AtFacts ==
    ASSUME Typed
    PROVE  /\ pos["gateway"] # 0 => /\ pos["gateway"] \in DOMAIN config.gateway
                                   /\ At("gateway") = config.gateway[pos["gateway"]]
                                   /\ At("gateway") \in AllUpstreams
           /\ pos["agent"] # 0 => At("agent") \in Http
<1>1. pos["gateway"] \in Nat /\ pos["gateway"] <= Len(config.gateway)
    BY OrderFacts DEF Typed, Checkers
<1>2. pos["agent"] \in Nat /\ pos["agent"] <= Len(config.agent)
    BY OrderFacts DEF Typed, Checkers
<1>3. pos["gateway"] # 0 => pos["gateway"] \in DOMAIN config.gateway
    BY <1>1, OrderFacts
<1>4. pos["agent"] # 0 => pos["agent"] \in DOMAIN config.agent
    BY <1>2, OrderFacts
<1> QED BY <1>3, <1>4, OrderFacts DEF At

\* A verdict on one upstream changes nothing else.
LEMMA SetHealthFacts ==
    ASSUME Typed, NEW k \in Checkers, NEW u \in AllUpstreams, NEW ok, SetHealth(k, u, ok)
    PROVE  /\ health' \in [Checkers -> SUBSET AllUpstreams]
           /\ u \in health'[k] <=> ok
           /\ \A v : v # u => (v \in health'[k] <=> v \in health[k])
           /\ \A c \in Checkers : c # k => health'[c] = health[c]
<1>1. CASE ok
    <2>1. health' = [health EXCEPT ![k] = @ \union {u}]
        BY <1>1 DEF SetHealth
    <2> QED BY <1>1, <2>1 DEF Typed
<1>2. CASE ~ok
    <2>1. health' = [health EXCEPT ![k] = @ \ {u}]
        BY <1>2 DEF SetHealth
    <2> QED BY <1>2, <2>1 DEF Typed
<1> QED BY <1>1, <1>2

\* The places of the checkers stay within their lists.
LEMMA AdvanceTyped ==
    ASSUME Typed, NEW k \in Checkers, pos[k] # 0, Advance(k)
    PROVE  pos' \in [Checkers -> Nat] /\ \A c \in Checkers : pos'[c] <= Len(RoundOrder[c])
<1>1. \A c \in Checkers : Len(RoundOrder[c]) \in Nat
    BY OrderFacts DEF Checkers
<1> QED BY <1>1 DEF Advance, Typed

\* The steps that neither the store, nor the rounds, nor what they have found out
\* notice.
Unnoticed ==
    \/ \E u \in Http \intersect Configured : Call(u)
    \/ \E s \in Stdio \intersect Configured : BeginCall(s) \/ EndCall(s)
    \/ \E k \in Checkers : Stop(k) \/ Exit(k)
    \/ Change

\* What these leave alone.
LEMMA UnnoticedFacts ==
    ASSUME Typed, Unnoticed
    PROVE  /\ UNCHANGED <<config, status, due, pos, over, health, failedAgo>>
           /\ busy' \subseteq Stdio
           /\ run' \in [Checkers -> {"running", "stopping", "exited", "crashed"}]
           /\ run'["gateway"] # "crashed"
<1> USE DEF Typed, checkerVars, envVars, transportVars
<1>1. ASSUME NEW u \in Http \intersect Configured, Call(u)
      PROVE  UNCHANGED <<config, status, due, pos, over, health, failedAgo, busy, run>>
    BY <1>1 DEF Call
<1>2. ASSUME NEW s \in Stdio \intersect Configured, BeginCall(s) \/ EndCall(s)
      PROVE  UNCHANGED <<config, status, due, pos, over, health, failedAgo, run>> /\ busy' \subseteq Stdio
    BY <1>2 DEF BeginCall, EndCall
<1>3. ASSUME NEW k \in Checkers, Stop(k) \/ Exit(k)
      PROVE  /\ UNCHANGED <<config, status, due, pos, over, health, failedAgo, busy>>
             /\ \E x \in {"stopping", "exited"} : run' = [run EXCEPT ![k] = x]
    BY <1>3 DEF Stop, Exit
<1>4. ASSUME Change
      PROVE  UNCHANGED <<config, status, due, pos, over, health, failedAgo, busy, run>>
    BY <1>4 DEF Change
<1>5. ASSUME NEW k \in Checkers, NEW x \in {"stopping", "exited"}, run' = [run EXCEPT ![k] = x]
      PROVE  /\ run' \in [Checkers -> {"running", "stopping", "exited", "crashed"}]
             /\ run'["gateway"] # "crashed"
    BY <1>5 DEF Checkers
<1> QED BY <1>1, <1>2, <1>3, <1>4, <1>5 DEF Unnoticed

\* Every step keeps the types.
LEMMA TypedStep ==
    ASSUME Typed, Next
    PROVE  Typed'
<1> USE DEF checkerVars, envVars, transportVars
<1>0. "gateway" \in Checkers /\ "agent" \in Checkers
    BY DEF Checkers
<1>1. CASE Unnoticed
    BY <1>1, UnnoticedFacts DEF Typed, RoundOrder
<1>2. ASSUME NEW k \in Checkers, StartCheck(k) PROVE Typed'
    <2>1. \A c \in Checkers : RoundOrder[c] # <<>> => 1 <= Len(RoundOrder[c])
        BY OrderFacts DEF Checkers
    <2>2. UNCHANGED <<config, busy, status, run, health, failedAgo>>
        BY <1>2 DEF StartCheck
    <2>3. due' \in [Checkers -> BOOLEAN] /\ over' \in [Checkers -> BOOLEAN]
        BY <1>2 DEF StartCheck, Typed
    <2>4. pos' \in [Checkers -> Nat] /\ \A c \in Checkers : pos'[c] <= Len(RoundOrder[c])
        BY <1>2, <2>1, OrderFacts DEF StartCheck, Typed
    <2> QED BY <2>2, <2>3, <2>4 DEF Typed, RoundOrder
<1>3. CASE CheckStored \/ CheckPassive
    <2>1. /\ UNCHANGED <<config, busy, status, run, due, over, failedAgo>>
          /\ pos["gateway"] # 0 /\ Advance("gateway")
        BY <1>3 DEF CheckStored, CheckPassive
    <2>2. health' \in [Checkers -> SUBSET AllUpstreams]
        <3>1. PICK ok : SetHealth("gateway", At("gateway"), ok)
            BY <1>3 DEF CheckStored, CheckPassive, Measure
        <3> QED BY <1>0, <2>1, <3>1, AtFacts, SetHealthFacts
    <2> QED BY <1>0, <2>1, <2>2, AdvanceTyped DEF Typed, RoundOrder
<1>4. CASE CheckActive
    <2>1. /\ UNCHANGED <<config, busy, run, due>>
          /\ pos["agent"] # 0 /\ Advance("agent") /\ At("agent") \in Http
        BY <1>4, AtFacts DEF CheckActive
    <2>2. health' \in [Checkers -> SUBSET AllUpstreams] /\ over' \in [Checkers -> BOOLEAN]
        <3>1. PICK ok : SetHealth("agent", At("agent"), ok)
            BY <1>4 DEF CheckActive, Measure
        <3>2. PICK late \in Overrun(At("agent")) : over' = [over EXCEPT !["agent"] = late]
            BY <1>4 DEF CheckActive
        <3>3. late \in BOOLEAN
            BY DEF Overrun
        <3>4. over' \in [Checkers -> BOOLEAN]
            BY <1>0, <3>2, <3>3 DEF Typed
        <3> QED BY <1>0, <2>1, <3>1, <3>4, SetHealthFacts DEF AllUpstreams
    <2>3. ASSUME NEW x, NEW S PROVE StatusEntry(x \in S) \in Statuses
        BY HealthAssumption DEF StatusEntry, Statuses
    <2>4. status' \in [Http -> Statuses \union {NoStatus}]
        <3>1. \/ status' = status
              \/ status' = [status EXCEPT ![At("agent")] = StatusEntry(At("agent") \in health'["agent"])]
            BY <1>4 DEF CheckActive
        <3>2. StatusEntry(At("agent") \in health'["agent"]) \in Statuses
            BY <2>3
        <3> QED BY <2>1, <3>1, <3>2 DEF Typed
    <2>5. failedAgo' \in [Http -> Nat]
        BY <1>4, <2>1 DEF CheckActive, Typed
    <2> QED BY <1>0, <2>1, <2>2, <2>4, <2>5, AdvanceTyped DEF Typed, RoundOrder
<1>5. CASE ContextEnds
    BY <1>0, <1>5 DEF ContextEnds, Typed, RoundOrder
<1>6. CASE Crash
    <2>1. UNCHANGED <<config, busy, status, due, over, health, failedAgo>>
        BY <1>6 DEF Crash
    <2>2. pos' \in [Checkers -> Nat] /\ \A c \in Checkers : pos'[c] <= Len(RoundOrder[c])
        <3>1. \A c \in Checkers : Len(RoundOrder[c]) \in Nat
            BY OrderFacts DEF Checkers
        <3> QED BY <1>0, <1>6, <3>1 DEF Crash, Typed
    <2>3. /\ run' \in [Checkers -> {"running", "stopping", "exited", "crashed"}]
          /\ run'["gateway"] # "crashed"
        BY <1>0, <1>6 DEF Crash, Typed
    <2> QED BY <2>1, <2>2, <2>3 DEF Typed, RoundOrder
<1>7. CASE Restart
    <2>1. UNCHANGED <<config, busy, status, pos, failedAgo>>
        BY <1>7 DEF Restart
    <2>2. /\ run' \in [Checkers -> {"running", "stopping", "exited", "crashed"}]
          /\ run'["gateway"] # "crashed"
          /\ due' \in [Checkers -> BOOLEAN] /\ over' \in [Checkers -> BOOLEAN]
        BY <1>0, <1>7 DEF Restart, Typed
    <2>3. health' \in [Checkers -> SUBSET AllUpstreams]
        BY <1>0, <1>7 DEF Restart, Typed, AllUpstreams
    <2> QED BY <2>1, <2>2, <2>3 DEF Typed, RoundOrder
<1>8. CASE Tick
    <2>1. UNCHANGED <<config, busy, run, pos, health>>
        BY <1>8 DEF Tick
    <2>2. due' \in [Checkers -> BOOLEAN] /\ over' \in [Checkers -> BOOLEAN]
        BY <1>0, <1>8 DEF Tick, Typed
    <2>3. failedAgo' \in [Http -> Nat]
        BY <1>8, HealthAssumption DEF Tick, Typed, Min2, Never
    <2>4. status' \in [Http -> Statuses \union {NoStatus}]
        <3>1. ASSUME NEW x \in Statuses \union {NoStatus}
              PROVE  Aged(x) \in Statuses \union {NoStatus}
            BY HealthAssumption DEF Aged, Statuses
        <3> QED BY <1>8, <3>1 DEF Tick, Typed
    <2> QED BY <2>1, <2>2, <2>3, <2>4 DEF Typed, RoundOrder
<1>9. ASSUME NEW u \in Http, Expire(u) PROVE Typed'
    <2>1. UNCHANGED <<config, busy, run, due, pos, over, health, failedAgo>>
        BY <1>9 DEF Expire
    <2>2. status' \in [Http -> Statuses \union {NoStatus}]
        BY <1>9 DEF Expire, Typed
    <2> QED BY <2>1, <2>2 DEF Typed, RoundOrder
<1> QED BY <1>1, <1>2, <1>3, <1>4, <1>5, <1>6, <1>7, <1>8, <1>9 DEF Next, Unnoticed

-----------------------------------------------------------------------------
(* The age of an alarm.                                                    *)

\* The agent writes an upstream off in the step that finds it failing.
LEMMA DatedStep ==
    ASSUME Typed, \A u \in Http : Dated(u), Next
    PROVE  \A u \in Http : Dated(u)'
<1> SUFFICES ASSUME NEW u \in Http PROVE Dated(u)'
    OBVIOUS
<1>0. TTL \in Nat /\ failedAgo[u] \in Nat /\ status[u] \in Statuses \union {NoStatus}
    BY HealthAssumption DEF Typed
<1>1. CASE status'[u] = status[u] /\ failedAgo'[u] = failedAgo[u]
    BY <1>1 DEF Dated
<1>2. CASE CheckActive
    <2>1. CASE u # At("agent")
        BY <1>1, <1>2, <2>1 DEF CheckActive, Typed
    <2>2. CASE u = At("agent")
        <3>1. CASE status'[u] = status[u]
            <4>1. failedAgo'[u] <= failedAgo[u]
                BY <1>0, <1>2, <2>2 DEF CheckActive, Typed
            <4>2. failedAgo'[u] \in Nat
                BY <1>0, <1>2, <2>2 DEF CheckActive, Typed
            <4> QED BY <1>0, <3>1, <4>1, <4>2 DEF Dated, Statuses
        <3>2. CASE status'[u] = StatusEntry(u \in health'["agent"])
            <4>1. CASE link[u] \in {"up", "slow"}
                <5>1. PICK ok : SetHealth("agent", u, ok) /\ ok
                    BY <1>2, <2>2, <4>1 DEF CheckActive, Measure
                <5>2. u \in health'["agent"]
                    BY <5>1, SetHealthFacts DEF Checkers, AllUpstreams
                <5>3. ASSUME NEW x, NEW S, x \in S PROVE StatusEntry(x \in S).healthy
                    BY <5>3 DEF StatusEntry
                <5>4. status'[u].healthy
                    BY <3>2, <5>2, <5>3
                <5> QED BY <5>4 DEF Dated
            <4>2. CASE link[u] \notin {"up", "slow"}
                <5>1. failedAgo'[u] = 0
                    BY <1>2, <2>2, <4>2 DEF CheckActive, Typed
                <5> QED BY <1>0, <3>2, <5>1 DEF Dated, StatusEntry
            <4> QED BY <4>1, <4>2
        <3> QED BY <1>2, <2>2, <3>1, <3>2 DEF CheckActive, Typed
    <2> QED BY <2>1, <2>2
<1>3. CASE Tick
    <2>1. failedAgo'[u] \in Nat /\ failedAgo'[u] <= failedAgo[u] + 1
        BY <1>0, <1>3 DEF Tick, Min2, Never
    <2>2. status'[u] = Aged(status[u])
        BY <1>3 DEF Tick
    <2>3. CASE status[u] = NoStatus \/ status[u].left = 0
        BY <2>2, <2>3 DEF Aged, Dated
    <2>4. CASE status[u] # NoStatus /\ status[u].left # 0
        <3>1. status'[u] = [status[u] EXCEPT !.left = @ - 1] /\ status[u] \in Statuses
            BY <1>0, <2>2, <2>4 DEF Aged
        <3>2. status'[u].healthy = status[u].healthy /\ status'[u].left = status[u].left - 1
            BY <3>1 DEF Statuses
        <3>3. status[u].left \in Nat
            BY <3>1 DEF Statuses
        <3> QED BY <1>0, <2>1, <2>4, <3>2, <3>3 DEF Dated
    <2> QED BY <2>3, <2>4
<1>4. CASE Unnoticed
    BY <1>1, <1>4, UnnoticedFacts
<1>5. CASE \/ \E k \in Checkers : StartCheck(k)
           \/ CheckStored \/ CheckPassive \/ ContextEnds \/ Crash \/ Restart
    BY <1>1, <1>5 DEF StartCheck, CheckStored, CheckPassive, ContextEnds, Crash, Restart
<1>6. ASSUME NEW v \in Http, Expire(v) PROVE Dated(u)'
    <2>1. CASE u # v
        BY <1>1, <1>6, <2>1 DEF Expire, Typed
    <2>2. CASE u = v
        BY <1>6, <2>2 DEF Expire, Typed, Dated
    <2> QED BY <2>1, <2>2
<1> QED BY <1>2, <1>3, <1>4, <1>5, <1>6 DEF Next, Unnoticed

\* A round that moves on is past the upstream it was at, and past no other that it was
\* not past before.
LEMMA AdvanceReviews ==
    ASSUME Typed, pos["gateway"] # 0, Advance("gateway"), UNCHANGED config,
           NEW u \in Configured, u # At("gateway"), Reviewed(u)'
    PROVE  Reviewed(u)
<1> DEFINE g == config.gateway
           p == pos["gateway"]
<1>1. /\ g \in Seq(AllUpstreams) /\ p \in Nat /\ p <= Len(g)
      /\ pos'["gateway"] = IF p = Len(g) THEN 0 ELSE p + 1
    BY OrderFacts DEF Typed, Advance, Checkers
<1>2. g[p] = At("gateway")
    BY AtFacts
<1>3. CASE p = Len(g)
    <2>1. PICK i \in DOMAIN g : g[i] = u
        BY OrderFacts
    <2>2. i < p
        BY <1>1, <1>2, <1>3, <2>1
    <2> QED BY <2>1, <2>2 DEF Reviewed
<1>4. CASE p # Len(g)
    <2>1. PICK i \in DOMAIN g : i < p + 1 /\ g[i] = u
        BY <1>1, <1>4 DEF Reviewed
    <2>2. i < p
        BY <1>1, <1>2, <2>1
    <2> QED BY <2>1, <2>2 DEF Reviewed
<1> QED BY <1>3, <1>4

\* A round that waits is past nothing but upstreams before a stdio upstream.
LEMMA StalledBehind ==
    ASSUME Typed, Stalled, NEW u, Reviewed(u)
    PROVE  Behind(u)
<1>1. /\ pos["gateway"] \in DOMAIN config.gateway
      /\ config.gateway[pos["gateway"]] \in Stdio
    BY AtFacts DEF Stalled, Typed
<1>2. PICK i \in DOMAIN config.gateway : i < pos["gateway"] /\ config.gateway[i] = u
    BY DEF Stalled, Reviewed
<1> QED BY <1>1, <1>2 DEF Behind

\* What a gateway that fails open reports stays recent, step by step.
LEMMA AlarmedStep ==
    ASSUME Typed, \A u \in Http : Dated(u), store = "redis", missing, \A u \in Http : Alarmed(u), Next
    PROVE  \A u \in Http : Alarmed(u)'
<1> SUFFICES ASSUME NEW u \in Http,
                    u \in Configured', u \notin health'["gateway"], Reviewed(u)'
             PROVE  IF over'["gateway"] THEN Behind(u)'
                    ELSE \/ failedAgo'[u] <= TTL
                         \/ pos'["gateway"] = 0 /\ due'["gateway"] /\ failedAgo'[u] = TTL + 1
    BY DEF Alarmed
<1> USE DEF checkerVars, envVars, transportVars
<1>0. /\ TTL \in Nat \ {0} /\ failedAgo[u] \in Nat
      /\ "gateway" \in Checkers /\ "agent" \in Checkers /\ over["gateway"] \in BOOLEAN
    BY HealthAssumption DEF Typed, Checkers
<1>1. UNCHANGED config
    BY DEF Next, Call, BeginCall, EndCall, StartCheck, Stop, Exit, CheckStored, CheckPassive, CheckActive,
       ContextEnds, Crash, Restart, Change, Tick, Expire
<1>2. u \in Configured /\ (Behind(u)' <=> Behind(u))
    BY <1>1 DEF Configured, Behind
<1>3. Alarmed(u) /\ Dated(u)
    OBVIOUS
<1>4. ASSUME /\ health'["gateway"] = health["gateway"]
             /\ pos'["gateway"] = pos["gateway"] /\ over'["gateway"] = over["gateway"]
             /\ due'["gateway"] = due["gateway"]
             /\ failedAgo'[u] = failedAgo[u] \/ failedAgo'[u] = 0
      PROVE  IF over'["gateway"] THEN Behind(u)'
             ELSE \/ failedAgo'[u] <= TTL
                  \/ pos'["gateway"] = 0 /\ due'["gateway"] /\ failedAgo'[u] = TTL + 1
    <2>1. Reviewed(u)
        BY <1>1, <1>4 DEF Reviewed
    <2> QED BY <1>0, <1>2, <1>3, <1>4, <2>1 DEF Alarmed
<1>5. CASE Unnoticed
    BY <1>4, <1>5, UnnoticedFacts
<1>6. ASSUME NEW k \in Checkers, StartCheck(k)
      PROVE  IF over'["gateway"] THEN Behind(u)'
             ELSE \/ failedAgo'[u] <= TTL
                  \/ pos'["gateway"] = 0 /\ due'["gateway"] /\ failedAgo'[u] = TTL + 1
    <2>1. CASE k = "gateway"
        <3>1. PICK i \in DOMAIN config.gateway : config.gateway[i] = u
            BY <1>2, OrderFacts
        <3>2. config.gateway # <<>> /\ i \in Nat \ {0}
            BY <3>1, OrderFacts
        <3>3. pos'["gateway"] = 1
            BY <1>0, <1>6, <2>1, <3>2, OrderFacts DEF StartCheck, Typed
        <3>4. \A j \in DOMAIN config.gateway : j \in Nat \ {0}
            BY OrderFacts
        <3> QED BY <1>1, <3>3, <3>4 DEF Reviewed
    <2>2. CASE k # "gateway"
        BY <1>0, <1>4, <1>6, <2>2 DEF StartCheck, Typed
    <2> QED BY <2>1, <2>2
<1>7. CASE CheckStored \/ CheckPassive
    <2>1. /\ UNCHANGED <<over, due, failedAgo>> /\ pos["gateway"] # 0 /\ Advance("gateway")
        BY <1>7 DEF CheckStored, CheckPassive
    <2>2. At("gateway") \in AllUpstreams
        BY <2>1, AtFacts
    <2>3. CASE u = At("gateway")
        <3>1. CheckStored
            BY <1>7, <2>3, HealthAssumption DEF CheckPassive
        <3>2. ~Stored(u)
            BY <1>0, <2>2, <2>3, <3>1, SetHealthFacts DEF CheckStored
        <3>3. ~over["gateway"] /\ status[u] # NoStatus /\ ~status[u].healthy
            BY <3>2 DEF Stored
        <3>4. status[u].left \in Nat
            BY <3>3 DEF Typed, Statuses
        <3>5. failedAgo[u] <= TTL
            BY <1>0, <1>3, <3>3, <3>4 DEF Dated
        <3> QED BY <2>1, <3>3, <3>5
    <2>4. CASE u # At("gateway")
        <3>1. Reviewed(u)
            BY <1>1, <1>2, <2>1, <2>4, AdvanceReviews
        <3>2. PICK ok : SetHealth("gateway", At("gateway"), ok)
            BY <1>7 DEF CheckStored, CheckPassive, Measure
        <3>3. u \notin health["gateway"]
            BY <1>0, <2>2, <2>4, <3>2, SetHealthFacts
        <3> QED BY <1>2, <1>3, <2>1, <3>1, <3>3 DEF Alarmed
    <2> QED BY <2>3, <2>4
<1>8. CASE CheckActive
    <2>1. PICK ok : SetHealth("agent", At("agent"), ok)
        BY <1>8 DEF CheckActive, Measure
    <2>2. At("agent") \in AllUpstreams
        BY <1>8, AtFacts DEF CheckActive, AllUpstreams
    <2>3. health'["gateway"] = health["gateway"]
        BY <1>0, <2>1, <2>2, SetHealthFacts
    <2>4. pos'["gateway"] = pos["gateway"] /\ over'["gateway"] = over["gateway"] /\ UNCHANGED due
        BY <1>0, <1>8 DEF CheckActive, Advance, Typed
    <2>5. failedAgo'[u] = failedAgo[u] \/ failedAgo'[u] = 0
        BY <1>8 DEF CheckActive, Typed
    <2> QED BY <1>4, <2>3, <2>4, <2>5
<1>9. CASE ContextEnds
    <2>1. Stalled /\ Reviewed(u)
        BY <1>1, <1>9 DEF ContextEnds, Stalled, Reviewed
    <2>2. over'["gateway"]
        BY <1>0, <1>9 DEF ContextEnds, Typed
    <2> QED BY <1>2, <2>1, <2>2, StalledBehind
<1>10. CASE Crash
    BY <1>0, <1>4, <1>10 DEF Crash, Typed
<1>11. CASE Restart
    BY <1>0, <1>4, <1>11 DEF Restart, Typed
<1>12. CASE Tick
    <2>1. Reviewed(u) /\ u \notin health["gateway"] /\ pos'["gateway"] = pos["gateway"]
        BY <1>1, <1>12 DEF Tick, Reviewed
    <2>2. failedAgo'[u] \in Nat /\ failedAgo'[u] <= failedAgo[u] + 1
        BY <1>0, <1>12 DEF Tick, Min2, Never
    <2>3. CASE Stalled
        <3>1. over'["gateway"]
            BY <1>0, <1>12, <2>3 DEF Tick, Typed
        <3> QED BY <1>2, <2>1, <2>3, <3>1, StalledBehind
    <2>4. CASE ~Stalled
        <3>1. run["gateway"] \in {"running", "stopping"}
            BY <1>0, <1>12 DEF Tick, Typed
        <3>2. pos["gateway"] = 0 /\ ~due["gateway"]
            BY <1>0, <1>12, <2>4, <3>1 DEF Tick, Punctual
        <3>3. due'["gateway"]
            BY <1>0, <1>12, <3>1 DEF Tick
        <3>4. over'["gateway"] = over["gateway"]
            BY <1>0, <1>12, <2>4 DEF Tick, Typed
        <3> QED BY <1>0, <1>2, <1>3, <2>1, <2>2, <3>2, <3>3, <3>4 DEF Alarmed
    <2> QED BY <2>3, <2>4
<1>13. CASE \E v \in Http : Expire(v)
    BY <1>4, <1>13 DEF Expire
<1> QED BY <1>5, <1>6, <1>7, <1>8, <1>9, <1>10, <1>11, <1>12, <1>13 DEF Next, Unnoticed

-----------------------------------------------------------------------------
(* The theorem.                                                            *)

\* The invariant holds at the start,
LEMMA InitIInv == Init => IInv
<1> SUFFICES ASSUME Init PROVE IInv
    OBVIOUS
<1> USE HealthAssumption DEF Init
<1>0. "gateway" \in Checkers /\ "agent" \in Checkers
    BY DEF Checkers
<1>1. Typed
    <2>1. config \in Configs /\ busy \subseteq Stdio
        OBVIOUS
    <2>2. status \in [Http -> Statuses \union {NoStatus}] /\ failedAgo \in [Http -> Nat]
        BY DEF Never
    <2>3. /\ run \in [Checkers -> {"running", "stopping", "exited", "crashed"}]
          /\ run["gateway"] # "crashed"
        BY <1>0
    <2>4. due \in [Checkers -> BOOLEAN] /\ over \in [Checkers -> BOOLEAN]
        BY <2>3
    <2>5. pos \in [Checkers -> Nat] /\ \A k \in Checkers : pos[k] <= Len(RoundOrder[k])
        <3>1. \A k \in Checkers : Len(RoundOrder[k]) \in Nat
            BY <2>1 DEF RoundOrder, Checkers
        <3> QED BY <3>1
    <2>6. health \in [Checkers -> SUBSET AllUpstreams]
        BY DEF AllUpstreams
    <2> QED BY <2>1, <2>2, <2>3, <2>4, <2>5, <2>6 DEF Typed
<1>2. ASSUME NEW u \in Http PROVE Dated(u) /\ Alarmed(u)
    BY <1>0 DEF Dated, Alarmed
<1> QED BY <1>1, <1>2 DEF IInv

\* and every step keeps it.
LEMMA NextIInv == IInv /\ [Next]_vars => IInv'
<1> SUFFICES ASSUME IInv, [Next]_vars PROVE IInv'
    OBVIOUS
<1> USE DEF IInv
<1>1. CASE Next
    <2>1. Typed' /\ \A u \in Http : Dated(u)'
        BY <1>1, TypedStep, DatedStep
    <2>2. (store = "redis" /\ missing)' => store = "redis" /\ missing
        <3>1. UNCHANGED config
            BY <1>1 DEF Next, Call, BeginCall, EndCall, StartCheck, Stop, Exit, CheckStored, CheckPassive,
               CheckActive, ContextEnds, Crash, Restart, Change, Tick, Expire
        <3> QED BY <3>1 DEF store, missing
    <2> QED BY <1>1, <2>1, <2>2, AlarmedStep
<1>2. CASE UNCHANGED vars
    <2> USE <1>2 DEF vars, envVars, transportVars, checkerVars
    <2>1. Typed'
        BY DEF Typed, RoundOrder
    <2>2. \A u \in Http : Dated(u)' <=> Dated(u)
        BY DEF Dated
    <2>3. \A u \in Http : Alarmed(u)' <=> Alarmed(u)
        BY DEF Alarmed, Reviewed, Behind, Configured
    <2> QED BY <2>1, <2>2, <2>3 DEF store, missing
<1> QED BY <1>1, <1>2

\* AlarmExpires holds for any upstreams in any order, any threshold and any TTL, however
\* often the agent dies: check() reports an HTTP upstream unhealthy for at most storeTTL
\* and one check interval after the agent last found it failing, unless a round that had
\* read its status was held up by the lock of a stdio transport further down.
THEOREM AlarmsExpire == Spec => []AlarmExpires
<1>1. ASSUME IInv PROVE AlarmExpires
    <2> SUFFICES ASSUME NEW u \in Http, store = "redis", missing, u \in Configured, Readable,
                        u \notin health["gateway"]
                 PROVE  failedAgo[u] <= TTL + 1 \/ HeldUpBehind(u)
        BY DEF AlarmExpires
    <2>1. Alarmed(u) /\ Reviewed(u)
        BY <1>1 DEF IInv, Readable, Reviewed
    <2>2. TTL \in Nat /\ failedAgo[u] \in Nat
        BY <1>1, HealthAssumption DEF IInv, Typed
    <2> QED BY <2>1, <2>2 DEF Alarmed, HeldUpBehind, Behind
<1>2. Spec => []IInv
    BY InitIInv, NextIInv, PTL DEF Spec
<1> QED BY <1>1, <1>2, PTL

-----------------------------------------------------------------------------
(* Routes.                                                                 *)

\* The versions of the tool lists that a table can be made of.
Versions ==
    {f \in [Upstreams -> Nat] : \A u \in Upstreams : f[u] \in 0 .. Len(Catalog[u])}

\* A set of naturals has a least element.
LEMMA Least ==
    ASSUME NEW T \in SUBSET Nat, T # {}
    PROVE  \E x \in T : \A y \in T : x <= y
<1> DEFINE less == {p \in Nat \X Nat : p[1] < p[2]}
<1>1. IsWellFoundedOn(less, Nat)
    BY NatLessThanWellFounded, Zenon DEF OpToRel
<1> HIDE DEF less
<1>2. PICK x \in T : \A y \in T : <<y, x>> \notin less
    BY <1>1, WFMin
<1>3. ASSUME NEW y \in T PROVE x <= y
    <2>1. y \in Nat /\ x \in Nat
        OBVIOUS
    <2>2. ~(y < x)
        BY <1>2, <2>1, Zenon DEF less
    <2> QED BY <2>1, <2>2
<1> QED BY <1>3

\* The k-th upstream, its lists and the tools in them.
LEMMA ListFacts ==
    ASSUME NEW vs \in Versions, NEW k \in DOMAIN Order
    PROVE  /\ Order[k] \in Upstreams /\ DOMAIN Order = 1 .. Len(Order)
           /\ ToolsOf(vs, Order[k]) \in Seq(Range(ToolsOf(vs, Order[k])))
           /\ Range(ToolsOf(vs, Order[k]))
                 \subseteq UNION {Range(l) : l \in Range(Catalog[Order[k]])}
<1> DEFINE u == Order[k]
           list == ToolsOf(vs, u)
<1>1. u \in Upstreams /\ DOMAIN Order = 1 .. Len(Order)
    BY RouteAssumption DEF Upstreams, Range
<1>2. CASE vs[u] = 0
    BY <1>1, <1>2 DEF ToolsOf, Range
<1>3. CASE vs[u] # 0
    <2>1. vs[u] \in DOMAIN Catalog[u]
        BY <1>1, <1>3, RouteAssumption DEF Versions
    <2>2. list = Catalog[u][vs[u]] /\ list \in Range(Catalog[u])
        BY <1>3, <2>1 DEF ToolsOf, Range
    <2> QED BY <1>1, <2>2, RouteAssumption
<1> QED BY <1>2, <1>3, <1>1

\* What the loops visit are pairs of positions.
LEMMA VisitFacts ==
    ASSUME NEW vs \in Versions
    PROVE  /\ \A k \in DOMAIN Order : \A j \in DOMAIN ToolsOf(vs, Order[k]) :
                 <<k, j>> \in Visits(vs)
           /\ \A v \in Visits(vs) :
                 /\ v = <<v[1], v[2]>> /\ v[1] \in Nat /\ v[2] \in Nat
                 /\ v[1] \in DOMAIN Order /\ v[2] \in DOMAIN ToolsOf(vs, Order[v[1]])
<1>1. ASSUME NEW k \in DOMAIN Order, NEW j \in DOMAIN ToolsOf(vs, Order[k])
      PROVE  <<k, j>> \in Visits(vs)
    BY DEF Visits
<1>2. ASSUME NEW v \in Visits(vs)
      PROVE  /\ v = <<v[1], v[2]>> /\ v[1] \in Nat /\ v[2] \in Nat
             /\ v[1] \in DOMAIN Order /\ v[2] \in DOMAIN ToolsOf(vs, Order[v[1]])
    <2>1. PICK k \in DOMAIN Order : v \in {k} \X DOMAIN ToolsOf(vs, Order[k])
        BY DEF Visits
    <2>2. v[1] = k /\ v[2] \in DOMAIN ToolsOf(vs, Order[k]) /\ v = <<v[1], v[2]>>
        BY <2>1
    <2>3. k \in Nat /\ DOMAIN ToolsOf(vs, Order[k]) \subseteq Nat
        BY ListFacts
    <2> QED BY <2>2, <2>3
<1> QED BY <1>1, <1>2

\* Of the visits that make a name, the first is kept.
LEMMA FirstIsKept ==
    ASSUME NEW vs \in Versions, NEW v \in Visits(vs)
    PROVE  \E w \in Kept(vs) : NameOf(vs, w) = NameOf(vs, v)
<1> DEFINE same == {w \in Visits(vs) : NameOf(vs, w) = NameOf(vs, v)}
           K == {w[1] : w \in same}
<1>1. K \in SUBSET Nat /\ K # {}
    BY VisitFacts
<1>2. PICK k \in K : \A i \in K : k <= i
    BY <1>1, Least
<1> DEFINE J == {w[2] : w \in {x \in same : x[1] = k}}
<1>3. J \in SUBSET Nat /\ J # {}
    BY <1>2, VisitFacts
<1> HIDE DEF J
<1>4. PICK j \in J : \A i \in J : j <= i
    BY <1>3, Least
<1>5. PICK w \in same : w[1] = k /\ w[2] = j
    BY <1>4 DEF J
<1>6. ASSUME NEW x \in Visits(vs), Earlier(x, w), NameOf(vs, x) = NameOf(vs, w)
      PROVE  FALSE
    <2>1. x \in same /\ x[1] \in Nat /\ x[2] \in Nat /\ k \in Nat /\ j \in Nat
        BY <1>1, <1>3, <1>5, <1>6, VisitFacts
    <2>2. k <= x[1]
        BY <2>1, <1>2
    <2>3. x[1] = k => j <= x[2]
        BY <2>1, <1>4 DEF J
    <2> QED BY <2>1, <2>2, <2>3, <1>5, <1>6 DEF Earlier
<1> QED BY <1>5, <1>6 DEF Kept, Taken

\* The table: a route for every name, from the visit that was kept.
LEMMA EntriesFacts ==
    ASSUME NEW vs \in Versions
    PROVE  LET e == rebuildEntriesLocked(vs).entries IN
           /\ DOMAIN e = {NameOf(vs, v) : v \in Visits(vs)}
           /\ \A n \in DOMAIN e : \E v \in Kept(vs) :
                 /\ NameOf(vs, v) = n
                 /\ e[n].upstream = Upstream(v) /\ e[n].original = Original(vs, v)
<1> DEFINE e == rebuildEntriesLocked(vs).entries
           named(n) == CHOOSE v \in Kept(vs) : NameOf(vs, v) = n
           names == {NameOf(vs, v) : v \in Kept(vs)}
<1>1. e = [n \in names |-> [upstream |-> Upstream(named(n)),
                            original |-> Original(vs, named(n))]]
    BY DEF rebuildEntriesLocked
<1>2. names = {NameOf(vs, v) : v \in Visits(vs)}
    BY FirstIsKept DEF Kept
<1>3. ASSUME NEW n \in names PROVE named(n) \in Kept(vs) /\ NameOf(vs, named(n)) = n
    OBVIOUS
<1> HIDE DEF e, named, names
<1>4. ASSUME NEW n \in names
      PROVE  e[n].upstream = Upstream(named(n)) /\ e[n].original = Original(vs, named(n))
    BY <1>1
<1>5. DOMAIN e = names
    BY <1>1
<1> QED BY <1>2, <1>3, <1>4, <1>5 DEF e, names

-----------------------------------------------------------------------------
\* The lists that upstreams offer, that discoveries found and that the table is made of
\* are lists of the upstream.
TableTyped ==
    /\ \A u \in Upstreams : offered[u] \in 1 .. Len(Catalog[u])
    /\ offered = [u \in Upstreams |-> offered[u]]
    /\ tools \in Versions
    /\ results = [r \in Refreshers |-> results[r]]
    /\ \A r \in Refreshers :
          /\ results[r] \in Seq(Nat) /\ Len(results[r]) <= Len(Order)
          /\ \A k \in DOMAIN results[r] : results[r][k] \in 0 .. Len(Catalog[Order[k]])

\* What a refresh with all its answers has for an upstream.
LEMMA FoundFacts ==
    ASSUME TableTyped, NEW r \in Refreshers, Len(results[r]) = Len(Order),
           NEW u \in Upstreams
    PROVE  Found(r, u) \in 0 .. Len(Catalog[u])
<1>1. DOMAIN Order = 1 .. Len(Order) /\ DOMAIN results[r] = 1 .. Len(results[r])
    BY RouteAssumption DEF TableTyped
<1>2. \E k \in DOMAIN Order : Order[k] = u
    BY DEF Upstreams, Range
<1>3. PICK k \in DOMAIN Order : Order[k] = u /\ Found(r, u) = results[r][k]
    BY <1>2 DEF Found
<1> QED BY <1>1, <1>3 DEF TableTyped

\* Every upstream has a list, and Order is a sequence of upstreams.
LEMMA CatalogFacts ==
    /\ \A u \in Upstreams : Len(Catalog[u]) \in Nat \ {0}
    /\ Len(Order) \in Nat /\ DOMAIN Order = 1 .. Len(Order)
    /\ \A k \in 1 .. Len(Order) : Order[k] \in Upstreams
<1>1. \A u \in Upstreams : Catalog[u] \in Seq(Range(Catalog[u])) /\ Catalog[u] # <<>>
    BY RouteAssumption
<1>2. Order \in Seq(Upstreams)
    BY RouteAssumption
<1>3. ASSUME NEW S, NEW s \in Seq(S), s # <<>> PROVE Len(s) \in Nat \ {0}
    BY <1>3
<1> QED BY <1>1, <1>2, <1>3

\* The versions are those of lists from the start,
LEMMA InitTyped == InitTable => TableTyped
<1> SUFFICES ASSUME InitTable PROVE TableTyped
    OBVIOUS
<1>1. tools \in Versions /\ \A u \in Upstreams : offered[u] \in 1 .. Len(Catalog[u])
    BY CatalogFacts DEF InitTable, Versions
<1>2. ASSUME NEW r \in Refreshers
      PROVE  /\ results[r] \in Seq(Nat) /\ Len(results[r]) <= Len(Order)
             /\ \A k \in DOMAIN results[r] : results[r][k] \in 0 .. Len(Catalog[Order[k]])
    BY CatalogFacts DEF InitTable
<1> QED BY <1>1, <1>2 DEF InitTable, TableTyped

\* and after every step.
LEMMA NextTyped == TableTyped /\ [NextTable]_routeVars => TableTyped'
<1> SUFFICES ASSUME TableTyped, [NextTable]_routeVars PROVE TableTyped'
    OBVIOUS
<1> USE DEF upstreamVars, tableVars, stopVars
<1>1. ASSUME NEW r \in Refreshers, NEW x, Discovering(r),
             x \in 0 .. Len(Catalog[Asked(r)]),
             results' = [results EXCEPT ![r] = Append(@, x)], UNCHANGED <<offered, tools>>
      PROVE  TableTyped'
    <2>1. results[r] \in Seq(Nat) /\ x \in Nat /\ Len(results[r]) < Len(Order)
        BY <1>1, CatalogFacts DEF TableTyped, Discovering
    <2>2. /\ results'[r] = Append(results[r], x)
          /\ \A q \in Refreshers \ {r} : results'[q] = results[q]
        BY <1>1 DEF TableTyped
    <2>3. /\ results'[r] \in Seq(Nat) /\ Len(results'[r]) <= Len(Order)
          /\ \A k \in DOMAIN results'[r] : results'[r][k] \in 0 .. Len(Catalog[Order[k]])
        BY <2>1, <2>2, <1>1, CatalogFacts DEF TableTyped, Asked
    <2> QED BY <1>1, <2>2, <2>3 DEF TableTyped
<1>2. ASSUME NEW r \in Refreshers, Discover(r) PROVE TableTyped'
    <2>1. Asked(r) \in Upstreams
        BY <1>2, CatalogFacts DEF Discover, Discovering, Asked, TableTyped
    <2>2. offered[Asked(r)] \in 0 .. Len(Catalog[Asked(r)])
        BY <2>1, CatalogFacts DEF TableTyped
    <2> QED BY <1>1, <1>2, <2>2 DEF Discover
<1>3. ASSUME NEW r \in Refreshers, DiscoverFails(r) PROVE TableTyped'
    <2>1. 0 \in 0 .. Len(Catalog[Asked(r)])
        BY <1>3, CatalogFacts DEF DiscoverFails, Discovering, Asked, TableTyped
    <2> QED BY <1>1, <1>3, <2>1 DEF DiscoverFails
<1>4. ASSUME NEW r \in Refreshers, results' = [results EXCEPT ![r] = <<>>],
             tools' \in Versions, UNCHANGED offered
      PROVE  TableTyped'
    <2>1. results'[r] = <<>> /\ \A q \in Refreshers \ {r} : results'[q] = results[q]
        BY <1>4 DEF TableTyped
    <2>2. <<>> \in Seq(Nat) /\ Len(<<>>) <= Len(Order) /\ DOMAIN <<>> = {}
        BY CatalogFacts
    <2> QED BY <1>4, <2>1, <2>2 DEF TableTyped
<1>5. ASSUME NEW r \in Refreshers, Apply(r) PROVE TableTyped'
    <2>1. \A u \in Upstreams : Found(r, u) \in 0 .. Len(Catalog[u])
        BY <1>5, FoundFacts DEF Apply
    <2>2. tools' \in Versions
        BY <1>5, <2>1, CatalogFacts DEF Apply, ApplyTools, TableTyped, Versions
    <2> QED BY <1>4, <1>5, <2>2 DEF Apply, ApplyTools
<1>6. ASSUME NEW r \in Refreshers, AdminRefresh(r) PROVE TableTyped'
    BY <1>4, <1>6 DEF AdminRefresh, StartRefresh, TableTyped
<1>7. CASE BackgroundRefresh
    BY <1>4, <1>7 DEF BackgroundRefresh, StartRefresh, Refreshers, TableTyped
<1>8. ASSUME NEW u \in Upstreams, ChangeTools(u) PROVE TableTyped'
    BY <1>8, CatalogFacts DEF ChangeTools, TableTyped
<1>9. CASE UNCHANGED <<offered, tools, results>>
    BY <1>9 DEF TableTyped
<1> QED BY <1>2, <1>3, <1>5, <1>6, <1>7, <1>8, <1>9
       DEF NextTable, RefreshStep, BackgroundStops, RefreshTick, Close, CloseTransports,
           GoDown, Recover, routeVars

\* An upstream that has a tool of a name is visited for it.
LEMMA OfferIsVisited ==
    ASSUME NEW vs \in Versions, NEW k \in DOMAIN Order, NEW n,
           Offers(vs, Order[k], n)
    PROVE  \E v \in Visits(vs) : v[1] = k /\ NameOf(vs, v) = n
<1> DEFINE list == ToolsOf(vs, Order[k])
<1>1. PICK j \in DOMAIN list : applyPrefix(Prefix[Order[k]], list[j]) = n
    BY DEF Offers, Range
<1>2. <<k, j>> \in Visits(vs)
    BY <1>1, VisitFacts
<1>3. NameOf(vs, <<k, j>>) = n
    BY <1>1 DEF NameOf, Original, Upstream
<1> QED BY <1>2, <1>3

\* And the other way round.
LEMMA VisitIsOffer ==
    ASSUME NEW vs \in Versions, NEW v \in Visits(vs)
    PROVE  /\ v[1] \in DOMAIN Order /\ Upstream(v) \in Upstreams
           /\ Offers(vs, Upstream(v), NameOf(vs, v)) /\ NameOf(vs, v) \in Names
<1> DEFINE u == Upstream(v)
           list == ToolsOf(vs, u)
<1>1. v[1] \in DOMAIN Order /\ u = Order[v[1]] /\ v[2] \in DOMAIN list
    BY VisitFacts DEF Upstream
<1>2. /\ u \in Upstreams
      /\ Range(list) \subseteq UNION {Range(l) : l \in Range(Catalog[u])}
    BY <1>1, ListFacts
<1>3. Original(vs, v) \in Range(list)
    BY <1>1 DEF Original, Range
<1>4. Offers(vs, u, NameOf(vs, v))
    BY <1>3 DEF Offers, NameOf
<1>5. NameOf(vs, v) \in Names
    BY <1>2, <1>3 DEF Names, NameOf
<1> QED BY <1>1, <1>2, <1>4, <1>5

\* The names in the table are those that some upstream has.
LEMMA DomainOfEntries ==
    ASSUME NEW vs \in Versions
    PROVE  DOMAIN rebuildEntriesLocked(vs).entries
              = {n \in Names : \E u \in Upstreams : Offers(vs, u, n)}
<1>1. DOMAIN rebuildEntriesLocked(vs).entries = {NameOf(vs, v) : v \in Visits(vs)}
    BY EntriesFacts
<1>2. ASSUME NEW u \in Upstreams, NEW n, Offers(vs, u, n)
      PROVE  n \in DOMAIN rebuildEntriesLocked(vs).entries
    <2>1. PICK k \in DOMAIN Order : Order[k] = u
        BY DEF Upstreams, Range
    <2>2. PICK v \in Visits(vs) : NameOf(vs, v) = n
        BY <1>2, <2>1, OfferIsVisited
    <2> QED BY <1>1, <2>2
<1> QED BY <1>1, <1>2, VisitIsOffer

\* Whatever versions the lists have, the first upstream in order has the name.
LEMMA FirstWins == TableTyped => RoutesAreFirstWins
<1> SUFFICES ASSUME TableTyped PROVE RoutesAreFirstWins
    OBVIOUS
<1>0. tools \in Versions
    BY DEF TableTyped
<1>1. ASSUME NEW n \in DOMAIN entries,
             NEW k, k = CHOOSE i \in DOMAIN Order : Order[i] = entries[n].upstream
      PROVE  /\ Offers(tools, entries[n].upstream, n)
             /\ applyPrefix(Prefix[entries[n].upstream], entries[n].original) = n
             /\ \A j \in 1 .. (k - 1) : ~Offers(tools, Order[j], n)
    <2>1. PICK v \in Kept(tools) : /\ NameOf(tools, v) = n
                                   /\ entries[n].upstream = Upstream(v)
                                   /\ entries[n].original = Original(tools, v)
        BY <1>0, EntriesFacts DEF entries
    <2>2. v \in Visits(tools) /\ ~Taken(tools, v)
        BY <2>1 DEF Kept
    <2>3. v[1] \in DOMAIN Order /\ Offers(tools, Upstream(v), n)
        BY <1>0, <2>1, <2>2, VisitIsOffer
    <2>4. k = v[1]
        BY <1>1, <2>1, <2>3, RouteAssumption DEF Upstream, IsInjective
    <2>5. ASSUME NEW j \in 1 .. (k - 1), Offers(tools, Order[j], n) PROVE FALSE
        <3>1. j \in DOMAIN Order /\ j < v[1]
            BY <2>3, <2>4, CatalogFacts
        <3>2. PICK w \in Visits(tools) : w[1] = j /\ NameOf(tools, w) = n
            BY <1>0, <2>5, <3>1, OfferIsVisited
        <3> QED BY <2>1, <2>2, <3>1, <3>2 DEF Taken, Earlier
    <2> QED BY <2>1, <2>3, <2>5 DEF NameOf
<1>2. DOMAIN entries = {n \in Names : \E u \in Upstreams : Offers(tools, u, n)}
    BY <1>0, DomainOfEntries DEF entries
<1> QED BY <1>1, <1>2 DEF RoutesAreFirstWins

\* A step that changes the tools is the end of a refresh, and an upstream that failed in it
\* offers what it offered.
LEMMA Survives ==
    ASSUME TableTyped, TableTyped', [NextTable]_routeVars, tools' # tools,
           NEW n \in DOMAIN entries, entries[n].upstream \in stale'
    PROVE  n \in DOMAIN entries'
<1>1. PICK r \in Refreshers : Apply(r)
    BY DEF NextTable, RefreshStep, BackgroundStops, RefreshTick, Close, CloseTransports,
       GoDown, Recover, AdminRefresh, BackgroundRefresh, ChangeTools, Discover,
       DiscoverFails, routeVars, upstreamVars, tableVars, stopVars
<1> DEFINE u == entries[n].upstream
<1>2. u \in Upstreams /\ Found(r, u) = 0
    BY <1>1 DEF Apply, ApplyTools
<1>3. tools'[u] = tools[u]
    BY <1>1, <1>2 DEF Apply, ApplyTools
<1>4. Offers(tools, u, n) /\ n \in Names
    BY FirstWins DEF RoutesAreFirstWins
<1>5. Offers(tools', u, n)
    BY <1>3, <1>4 DEF Offers, ToolsOf
<1>6. tools' \in Versions /\ entries' = rebuildEntriesLocked(tools').entries
    BY DEF TableTyped, entries
<1>7. DOMAIN entries' = {m \in Names : \E w \in Upstreams : Offers(tools', w, m)}
    BY <1>6, DomainOfEntries
<1> QED BY <1>2, <1>4, <1>5, <1>7

\* RoutesAreFirstWins, for any upstreams, prefixes and tool lists, and any number of
\* refreshes at a time: rebuildEntriesLocked leaves a route for every name that some
\* upstream has and for no other, to the first upstream in configuration order that has it.
THEOREM FirstUpstreamWins == TableSpec => []RoutesAreFirstWins
<1>1. InitTable => TableTyped
    BY InitTyped
<1>2. TableTyped /\ [NextTable]_routeVars => TableTyped'
    BY NextTyped
<1>3. TableTyped => RoutesAreFirstWins
    BY FirstWins
<1> QED BY <1>1, <1>2, <1>3, PTL DEF TableSpec

\* EntriesSurviveFailure: no Refresh takes a name out of the table that was served by an
\* upstream whose discovery failed, however refreshes overtake each other.
THEOREM FailureKeepsRoutes == TableSpec => EntriesSurviveFailure
<1>1. InitTable => TableTyped
    BY InitTyped
<1>2. TableTyped /\ [NextTable]_routeVars => TableTyped'
    BY NextTyped
<1>3. TableTyped /\ [NextTable]_routeVars =>
         [tools' # tools => StaleStays(entries, entries')]_routeVars
    BY <1>2, Survives DEF StaleStays
<1> QED BY <1>1, <1>2, <1>3, PTL DEF TableSpec, EntriesSurviveFailure
=============================================================================
