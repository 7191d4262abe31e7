-------------------------- MODULE LocalRateLimiter --------------------------
(***************************************************************************)
(* LocalRateLimiter (internal/policy/ratelimit.go): token buckets in the   *)
(* memory of one gateway.  Allow holds the limiter's lock throughout and   *)
(* is one step.                                                            *)
(*                                                                         *)
(* A bucket is refilled with count tokens per window.  Tokens are counted  *)
(* in fractions of 1/window, so that a tick adds count of them and a call  *)
(* takes window.                                                           *)
(***************************************************************************)
EXTENDS RateLimits

CONSTANTS
    MaxTools,      \* maxToolLimitersPerCaller
    NotRegistered, \* a caller whose limits are not fixed yet
    NoBucket       \* a limiter that does not exist yet

Bucket == [tokens : Nat, last : Nat, lim : Limit]

ASSUME LocalAssumption == IsFiniteSet(Tools) /\ MaxTools \in Nat /\ NoBucket \notin Bucket

VARIABLES
    registered,  \* callerRate and callerToolRate: the limits of a caller
    bucket       \* callerLimiters, toolLimiters and upstreamLimiters

localVars == <<registered, bucket>>

InitLocal ==
    /\ registered = [c \in Callers |-> NotRegistered]
    /\ bucket = [k \in Keys |-> NoBucket]

\* registerCallerLocked: an override counts only if it is faster than the default.
MostPermissive(level, roles) ==
    IF Overriding(level, roles) = {} THEN Default[level]
    ELSE LET best == RoleLimit[level][BestRole(level, roles)]
         IN  IF Default[level] = NoLimit \/ Faster(best, Default[level]) THEN best
                                                                       ELSE Default[level]

Full(lim) == [tokens |-> lim.burst * lim.window, last |-> now, lim |-> lim]

\* Mutant: tokens accumulate without end.
RefilledUncapped(b) ==
    [b EXCEPT !.tokens = b.tokens + (now - b.last) * b.lim.count, !.last = now]

Refilled(b) ==
    LET tokens == b.tokens + (now - b.last) * b.lim.count
        most == b.lim.burst * b.lim.window
    IN  [b EXCEPT !.tokens = IF tokens < most THEN tokens ELSE most, !.last = now]

\* The limits of a caller, registered by its first call with roles.
Registration(c, roles) ==
    IF roles # {} /\ registered[c] = NotRegistered
    THEN [l \in {"caller", "tool"} |-> MostPermissive(l, roles)]
    ELSE registered[c]

LocalLimit(level, c, t, roles) ==
    IF level = "upstream" THEN UpstreamRate(UpstreamOf[t])
    ELSE IF Registration(c, roles) = NotRegistered THEN Default[level]
    ELSE Registration(c, roles)[level]

\* The limiter of a level as a call finds it, new if it did not exist.
BucketAt(level, c, t, roles) ==
    LET b == bucket[Key(level, c, t)]
    IN  IF b # NoBucket THEN Refilled(b) ELSE Full(LocalLimit(level, c, t, roles))

\* A caller's limiters are kept for so many tools only.
Room(c) == Cardinality({t \in Tools : bucket[Key("tool", c, t)] # NoBucket}) < MaxTools

\* A call of tool t by c with its roles; passed are the levels that let it through
\* and counted it, and it is allowed if none has too little.  A call that a later
\* level rejects has used up tokens of the earlier ones.
LocalAllow(c, t, roles, passed, allowed) ==
    LET stored(l) == bucket[Key(l, c, t)] # NoBucket
        at(l) == BucketAt(l, c, t, roles)
        limited == {l \in Levels : stored(l) \/ LocalLimit(l, c, t, roles) # NoLimit}
        short == {l \in limited : at(l).tokens < at(l).lim.window}
        spent(l) == IF l \in short THEN at(l)
                    ELSE [at(l) EXCEPT !.tokens = @ - at(l).lim.window]
        \* Levels that are reached, and whose limiter is the caller's to keep.
        kept == {l \in limited : /\ Before[l] \intersect short = {}
                                 /\ l = "tool" => stored(l) \/ Room(c)}
    IN  /\ passed = {l \in limited : (Before[l] \union {l}) \intersect short = {}}
        /\ allowed = (short = {})
        /\ registered' = [registered EXCEPT ![c] = Registration(c, roles)]
        /\ bucket' = [k \in Keys |-> IF \E l \in kept : k = Key(l, c, t)
                                     THEN spent(CHOOSE l \in kept : k = Key(l, c, t))
                                     ELSE bucket[k]]
=============================================================================
