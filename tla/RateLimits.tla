----------------------------- MODULE RateLimits -----------------------------
(***************************************************************************)
(* The configured limits, and which of them apply to a call: per caller,   *)
(* per caller and tool, and per upstream, in that order.  Both rate        *)
(* limiters start from the same configuration and choose differently.      *)
(***************************************************************************)
EXTENDS Integers, FiniteSets

CONSTANTS
    Callers, Tools, Upstreams,
    Roles,          \* numbered in the order of the configuration
    UpstreamOf,     \* the upstream a tool is routed to
    Default,        \* the default limit of each level
    RoleLimit,      \* the overrides of each role, at the first two levels
    UpstreamLimit,  \* the limit of each upstream
    NoLimit

VARIABLE now  \* the clock of the limiters

\* count calls per window; the token bucket holds burst tokens.
Limit == [count : Nat \ {0}, window : Nat \ {0}, burst : Nat \ {0}]

Levels == {"caller", "tool", "upstream"}

\* The levels that are checked before a level.
Before == [caller |-> {}, tool |-> {"caller"}, upstream |-> {"caller", "tool"}]

ASSUME LimitsAssumption ==
    /\ Roles \subseteq Nat
    /\ UpstreamOf \in [Tools -> Upstreams]
    /\ Default \in [Levels -> Limit \union {NoLimit}]
    /\ RoleLimit \in [{"caller", "tool"} -> [Roles -> Limit \union {NoLimit}]]
    /\ UpstreamLimit \in [Upstreams -> Limit \union {NoLimit}]
    /\ NoLimit \notin Limit

\* What a limit is counted by.
Key(level, c, t) == CASE level = "caller"   -> <<"caller", c>>
                      [] level = "tool"     -> <<"tool", c, t>>
                      [] level = "upstream" -> <<"upstream", UpstreamOf[t]>>

Keys == {Key(level, c, t) : level \in Levels, c \in Callers, t \in Tools}

Faster(a, b) == a.count * b.window > b.count * a.window

\* The most permissive override among roles, the first one of several.
Overriding(level, roles) == {r \in roles : RoleLimit[level][r] # NoLimit}
Best(level, roles, r) ==
    \A q \in Overriding(level, roles) :
        LET a == RoleLimit[level][r]
            b == RoleLimit[level][q]
        IN  Faster(a, b) \/ (~Faster(b, a) /\ r <= q)
BestRole(level, roles) == CHOOSE r \in Overriding(level, roles) : Best(level, roles, r)

\* There are finitely many roles, so one of them is best.
ASSUME RolesAssumption ==
    \A level \in {"caller", "tool"}, roles \in SUBSET Roles :
        Overriding(level, roles) # {} =>
            \E r \in Overriding(level, roles) : Best(level, roles, r)

UpstreamRate(u) == IF UpstreamLimit[u] # NoLimit THEN UpstreamLimit[u] ELSE Default["upstream"]
=============================================================================
