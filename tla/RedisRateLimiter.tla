-------------------------- MODULE RedisRateLimiter --------------------------
(***************************************************************************)
(* The shared half of RedisRateLimiter (internal/policy/redis.go): one     *)
(* sorted set per key, and the script that all gateways run on it.         *)
(*                                                                         *)
(* The script makes the members of a set from the time stamp, which Lua    *)
(* turns into a string with %.14g, and math.random(), which Redis seeds    *)
(* alike for every run of a script.  A stamp of 16 digits loses two: calls *)
(* stamped within the same 100 us are one member, whose score is the stamp *)
(* that was added last.                                                    *)
(***************************************************************************)
EXTENDS RateLimits

CONSTANT Grain  \* how many stamps are written as the same string

ASSUME GrainAssumption == Grain \in Nat \ {0}

VARIABLES
    window,  \* the scores in the sorted set of each key, one for each member
    expiry   \* when Redis drops the set

redisVars == <<window, expiry>>

InitRedis ==
    /\ window = [k \in Keys |-> {}]
    /\ expiry = [k \in Keys |-> 0]

\* effectiveCallerLimit, effectiveToolLimit: an override replaces the default.
EffectiveLimit(level, t, roles) ==
    IF level = "upstream" THEN UpstreamRate(UpstreamOf[t])
    ELSE IF Overriding(level, roles) # {} THEN RoleLimit[level][BestRole(level, roles)]
    ELSE Default[level]

\* Mutant: the window is one unit too short.
KeptTooShort(k, lim, stamp) ==
    {s \in window[k] : now < expiry[k] /\ s > stamp - lim.window + 1}

\* What ZREMRANGEBYSCORE leaves of a set that has not expired.
Kept(k, lim, stamp) ==
    {s \in window[k] : now < expiry[k] /\ s > stamp - lim.window}

\* The member that a stamp makes: the conversion rounds.
Member(stamp) == (stamp + Grain \div 2) \div Grain

\* ZADD of a stamp to a set; a member that is there already gets a new score.
Added(scores, stamp) == {s \in scores : Member(s) # Member(stamp)} \union {stamp}

slidingWindowScript(k, lim, stamp, allowed) ==
    LET kept == Kept(k, lim, stamp)
    IN  /\ allowed = (Cardinality(kept) < lim.count)
        /\ window' = [window EXCEPT ![k] = IF allowed THEN Added(kept, stamp) ELSE kept]
        /\ expiry' = IF allowed THEN [expiry EXCEPT ![k] = now + lim.window + 1] ELSE expiry
=============================================================================
