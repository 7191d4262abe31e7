--------------------------- MODULE GatewayProofs ---------------------------
(***************************************************************************)
(* The bounds of the two rate limiters, for any number of gateways,        *)
(* requests, roles and limits, any deadline and any difference of clocks;  *)
(* and that no call gets around them.                                      *)
(***************************************************************************)
EXTENDS Gateway, FiniteSetTheorems, TLAPS

\* The set of a key outlives what was last added to it by one of the key's windows.
ExpiryTracks ==
    \A k \in Keys : \A a \in admitted[k] :
        \E lim \in LimitsOf(k) : a.at + lim.window < expiry[k]

Late(k, a) == \A lim \in LimitsOf(k) : now - a.at + Delay + Skew < lim.window

\* The set holds the member of a call, with a score that is at most the deadline older
\* than the call: whoever set the score did so no earlier than the call was admitted.
Holds(scores, a) == \E s \in scores : Member(s) = Member(a.stamp) /\ a.at <= s + Delay

\* A call admitted lately is still in the set.
StillCounted ==
    \A k \in Keys : \A a \in admitted[k] : Late(k, a) => Holds(window[k], a)

WindowsFinite == \A k \in Keys : IsFiniteSet(window[k])

\* The levels that have let a request through.
Cleared(r) ==
    IF pc[r] \in Levels THEN Before[pc[r]] ELSE IF pc[r] = "forward" THEN Levels ELSE {}

\* Each of them has counted it, if it limits it.
Counted(r, level) == LimitedAt(r, level) => \E b \in admitted[KeyOf(r, level)] : b.by = r
ClearedWasCounted == \A r \in Requests : \A level \in Cleared(r) : Counted(r, level)

\* A registration does not lift a limit.
Registrations ==
    /\ registered \in [Callers -> [{"caller", "tool"} -> Limit \union {NoLimit}] \union {NotRegistered}]
    /\ \A c \in Callers : registered[c] # NotRegistered =>
          \A l \in {"caller", "tool"} : Default[l] # NoLimit => registered[c][l] # NoLimit

Buckets ==
    /\ bucket \in [Keys -> Bucket \union {NoBucket}]
    /\ \A k \in Keys : bucket[k] # NoBucket => bucket[k].last <= now
    /\ \A k \in Keys : IsFiniteSet(admitted[k])

Since(S, t) == {a \in S : t <= a.at}

\* What was admitted since t and what is left in the bucket is no more than the burst
\* and what was refilled since t.
Fits(S, b) ==
    /\ \A a \in S : a.at <= b.last
    /\ \A t \in 0 .. b.last :
          Cardinality(Since(S, t)) * b.lim.window + b.tokens
            <= b.lim.burst * b.lim.window + (b.last - t) * b.lim.count

\* The same between any two admissions, without the bucket: BucketBounded for one key.
Bounded(S, lim) ==
    \A a, b \in S : a.at <= b.at =>
        Cardinality({c \in S : a.at <= c.at /\ c.at <= b.at}) * lim.window
            <= lim.burst * lim.window + (b.at - a.at) * lim.count

Balanced(k) ==
    bucket[k] # NoBucket => Fits(admitted[k], bucket[k]) /\ Bounded(admitted[k], bucket[k].lim)

\* Only a tool for which its caller has no room is admitted and has no bucket.
OutOfRoom(k) ==
    bucket[k] = NoBucket /\ admitted[k] # {} =>
        \E c \in Callers, t \in Tools : k = Key("tool", c, t) /\ ~Room(c)

LocalInv == backend = "local" => \A k \in Keys : Balanced(k) /\ OutOfRoom(k)
RedisInv == backend = "redis" => ExpiryTracks /\ StillCounted
IInv ==
    /\ TypeOK /\ WindowsFinite /\ RedisInv
    /\ Registrations /\ Buckets /\ ClearedWasCounted /\ LocalInv

-----------------------------------------------------------------------------
\* A key tells its level.
LEMMA KeyFacts ==
    ASSUME NEW level \in Levels, NEW c \in Callers, NEW t \in Tools
    PROVE  /\ Key(level, c, t) \in Keys
           /\ Key(level, c, t)[1] = level
           /\ level = "upstream" => Key(level, c, t)[2] = UpstreamOf[t]
<1>1. Key(level, c, t) \in Keys
    BY DEF Keys
<1>2. CASE level = "caller"
    BY <1>1, <1>2 DEF Key
<1>3. CASE level = "tool"
    BY <1>1, <1>3 DEF Key
<1>4. CASE level = "upstream"
    BY <1>1, <1>4 DEF Key
<1> QED BY <1>2, <1>3, <1>4 DEF Levels

\* Every limit of a key is a limit.
LEMMA LimitsTyped ==
    ASSUME NEW k \in Keys
    PROVE  LimitsOf(k) \subseteq Limit
<1>1. PICK level \in Levels, c \in Callers, t \in Tools : k = Key(level, c, t)
    BY DEF Keys
<1>2. k[1] = level /\ (level = "upstream" => k[2] = UpstreamOf[t])
    BY <1>1, KeyFacts
<1>3. UpstreamOf[t] \in Upstreams
    BY LimitsAssumption
<1>4. CASE level = "upstream"
    BY <1>2, <1>3, <1>4, LimitsAssumption DEF LimitsOf, UpstreamRate, Levels
<1>5. CASE level # "upstream"
    <2>1. level \in {"caller", "tool"}
        BY <1>5 DEF Levels
    <2>2. Default[level] \in Limit \union {NoLimit}
        BY LimitsAssumption
    <2>3. \A q \in Roles : RoleLimit[level][q] \in Limit \union {NoLimit}
        BY <2>1, LimitsAssumption
    <2> QED BY <1>2, <1>5, <2>2, <2>3 DEF LimitsOf
<1> QED BY <1>4, <1>5

\* The limit that a request is checked against is one of its key's.
LEMMA EffectiveIsOfKey ==
    ASSUME TypeOK, NEW r \in Requests, NEW level \in Levels, LimitAt(r, level) # NoLimit
    PROVE  /\ KeyOf(r, level) \in Keys
           /\ KeyOf(r, level)[1] = level
           /\ LimitAt(r, level) \in LimitsOf(KeyOf(r, level))
<1> DEFINE k == KeyOf(r, level)
<1>1. CallerOf[r] \in Callers /\ ToolOf[r] \in Tools
    BY GatewayAssumption
<1>2. k \in Keys /\ k[1] = level /\ (level = "upstream" => k[2] = UpstreamOf[ToolOf[r]])
    BY <1>1, KeyFacts DEF KeyOf
<1>3. CASE level = "upstream"
    <2>1. LimitAt(r, level) = UpstreamRate(UpstreamOf[ToolOf[r]])
        BY <1>3 DEF LimitAt, EffectiveLimit
    <2> QED BY <1>2, <1>3, <2>1 DEF LimitsOf
<1>4. CASE level # "upstream"
    <2>1. level \in {"caller", "tool"}
        BY <1>4 DEF Levels
    <2>2. roles[r] \in SUBSET Roles
        BY DEF TypeOK
    <2>3. CASE Overriding(level, roles[r]) # {}
        <3>1. PICK b \in Overriding(level, roles[r]) : Best(level, roles[r], b)
            BY <2>1, <2>2, <2>3, RolesAssumption
        <3>2. BestRole(level, roles[r]) \in Overriding(level, roles[r])
            BY <3>1 DEF BestRole
        <3>3. BestRole(level, roles[r]) \in Roles
            BY <3>2, <2>2 DEF Overriding
        <3>4. LimitAt(r, level) = RoleLimit[level][BestRole(level, roles[r])]
            BY <1>4, <2>3 DEF LimitAt, EffectiveLimit
        <3> QED BY <1>2, <1>4, <3>3, <3>4 DEF LimitsOf
    <2>4. CASE Overriding(level, roles[r]) = {}
        <3>1. LimitAt(r, level) = Default[level]
            BY <1>4, <2>4 DEF LimitAt, EffectiveLimit
        <3> QED BY <1>2, <1>4, <3>1 DEF LimitsOf
    <2> QED BY <2>3, <2>4
<1> QED BY <1>2, <1>3, <1>4

-----------------------------------------------------------------------------
\* ZADD adds at most one to a set.
LEMMA AddedFacts ==
    ASSUME NEW S, IsFiniteSet(S), NEW n
    PROVE  /\ Added(S, n) \subseteq S \union {n}
           /\ IsFiniteSet(Added(S, n))
           /\ Cardinality(Added(S, n)) \in Nat
           /\ Cardinality(Added(S, n)) <= Cardinality(S) + 1
<1>1. Added(S, n) \subseteq S \union {n}
    BY DEF Added
<1>2. /\ IsFiniteSet(S \union {n})
      /\ \/ Cardinality(S \union {n}) = Cardinality(S)
         \/ Cardinality(S \union {n}) = Cardinality(S) + 1
    BY FS_AddElement
<1>3. /\ IsFiniteSet(Added(S, n))
      /\ Cardinality(Added(S, n)) <= Cardinality(S \union {n})
    BY <1>1, <1>2, FS_Subset
<1>4. Cardinality(S) \in Nat /\ Cardinality(Added(S, n)) \in Nat
    BY <1>3, FS_CardinalityType
<1> QED BY <1>1, <1>2, <1>3, <1>4

\* The script keeps the types and the finiteness of the sets.
LEMMA ScriptTyped ==
    ASSUME NEW k \in Keys, NEW lim \in Limit, NEW n \in Nat, NEW allowed \in BOOLEAN,
           window \in [Keys -> SUBSET Nat], expiry \in [Keys -> Nat], now \in Nat,
           WindowsFinite, slidingWindowScript(k, lim, n, allowed)
    PROVE  /\ window' \in [Keys -> SUBSET Nat] /\ expiry' \in [Keys -> Nat]
           /\ WindowsFinite'
<1> DEFINE kept == Kept(k, lim, n)
<1>1. kept \subseteq window[k] /\ kept \subseteq Nat
    BY DEF Kept
<1>2. IsFiniteSet(kept)
    BY <1>1, FS_Subset DEF WindowsFinite
<1>3. IsFiniteSet(Added(kept, n)) /\ Added(kept, n) \subseteq Nat
    BY <1>1, <1>2, AddedFacts
<1>4. window' = [window EXCEPT ![k] = IF allowed THEN Added(kept, n) ELSE kept]
    BY DEF slidingWindowScript
<1>5. window' \in [Keys -> SUBSET Nat]
    BY <1>1, <1>3, <1>4
<1>6. expiry' \in [Keys -> Nat]
    BY DEF slidingWindowScript, Limit
<1>7. WindowsFinite'
    BY <1>2, <1>3, <1>4 DEF WindowsFinite
<1> QED BY <1>5, <1>6, <1>7

\* Every step keeps the types.
LEMMA TypeStep ==
    ASSUME TypeOK, WindowsFinite, [Next]_vars
    PROVE  TypeOK' /\ WindowsFinite'
<1> USE GatewayAssumption DEF TypeOK, Levels, configVars, requestVars, redisVars
<1>1. CASE Tick
    BY <1>1 DEF Tick, InTime, WindowsFinite
<1>2. ASSUME NEW r \in Requests, Route(r) PROVE TypeOK' /\ WindowsFinite'
    BY <1>2 DEF Route, Goto, WindowsFinite
<1>3. ASSUME NEW r \in Requests, Refuse(r) PROVE TypeOK' /\ WindowsFinite'
    BY <1>3 DEF Refuse, Finish, Goto, WindowsFinite
<1>4. ASSUME NEW r \in Requests, AllowLocal(r) PROVE TypeOK' /\ WindowsFinite'
    BY <1>4 DEF AllowLocal, Admit, Finish, Goto, WindowsFinite
<1>5. ASSUME NEW r \in Requests, AllowRedis(r) PROVE TypeOK' /\ WindowsFinite'
    BY <1>5 DEF AllowRedis, Goto, WindowsFinite
<1>6. ASSUME NEW r \in Requests, CheckLimit(r) PROVE TypeOK' /\ WindowsFinite'
    <2>1. PICK allowed \in BOOLEAN :
            /\ slidingWindowScript(KeyOf(r, pc[r]), LimitAt(r, pc[r]), stamp[r], allowed)
            /\ IF allowed THEN /\ Goto(r, After[pc[r]])
                               /\ Admit(r, {KeyOf(r, pc[r])}, stamp[r])
                               /\ UNCHANGED <<roles, began, stamp>>
                          ELSE /\ Finish(r)
                               /\ UNCHANGED admitted
        BY <1>6 DEF CheckLimit
    <2>2. KeyOf(r, pc[r]) \in Keys /\ LimitAt(r, pc[r]) \in Limit
        BY <1>6, EffectiveIsOfKey, LimitsTyped DEF CheckLimit
    <2>3. /\ window' \in [Keys -> SUBSET Nat] /\ expiry' \in [Keys -> Nat]
          /\ WindowsFinite'
        BY <2>1, <2>2, ScriptTyped
    <2>4. CASE allowed
        BY <1>6, <2>1, <2>3, <2>4 DEF CheckLimit, Goto, Admit, After
    <2>5. CASE ~allowed
        BY <1>6, <2>1, <2>3, <2>5 DEF CheckLimit, Finish, Goto
    <2> QED BY <2>4, <2>5
<1>7. ASSUME NEW r \in Requests, ReplyLost(r) PROVE TypeOK' /\ WindowsFinite'
    <2>1. PICK allowed \in BOOLEAN :
            slidingWindowScript(KeyOf(r, pc[r]), LimitAt(r, pc[r]), stamp[r], allowed)
        BY <1>7 DEF ReplyLost
    <2>2. KeyOf(r, pc[r]) \in Keys /\ LimitAt(r, pc[r]) \in Limit
        BY <1>7, EffectiveIsOfKey, LimitsTyped DEF ReplyLost
    <2>3. /\ window' \in [Keys -> SUBSET Nat] /\ expiry' \in [Keys -> Nat]
          /\ WindowsFinite'
        BY <2>1, <2>2, ScriptTyped
    <2> QED BY <1>7, <2>3 DEF ReplyLost
<1>8. ASSUME NEW r \in Requests, CheckFails(r) PROVE TypeOK' /\ WindowsFinite'
    BY <1>8 DEF CheckFails, Finish, Goto, WindowsFinite
<1>9. ASSUME NEW r \in Requests, Unlimited(r) PROVE TypeOK' /\ WindowsFinite'
    BY <1>9 DEF Unlimited, Goto, After, WindowsFinite
<1>10. ASSUME NEW r \in Requests, Forward(r) PROVE TypeOK' /\ WindowsFinite'
    BY <1>10 DEF Forward, Finish, Goto, WindowsFinite
<1>11. CASE UNCHANGED vars
    BY <1>11 DEF vars, WindowsFinite
<1> QED
    BY <1>1, <1>2, <1>3, <1>4, <1>5, <1>6, <1>7, <1>8, <1>9, <1>10, <1>11
    DEF Next, HandleToolsCall

-----------------------------------------------------------------------------
\* The script removes no late call and lets no set with one expire: what it removes
\* has a stamp that is a window behind the stamp it was given.
LEMMA ScriptKeeps ==
    ASSUME TypeOK, ExpiryTracks, StillCounted,
           NEW k \in Keys, NEW lim \in LimitsOf(k), NEW n \in Nat, n <= now + Skew, now <= n + Delay,
           NEW allowed \in BOOLEAN, slidingWindowScript(k, lim, n, allowed)
    PROVE  \A j \in Keys : \A a \in admitted[j] :
               /\ Late(j, a) => Holds(window'[j], a)
               /\ \E m \in LimitsOf(j) : a.at + m.window < expiry'[j]
<1> TAKE j \in Keys
<1> TAKE a \in admitted[j]
<1>1. a.at \in Nat /\ a.at <= now
    BY DEF TypeOK
<1>2. lim \in Limit /\ LimitsOf(j) \subseteq Limit
    BY LimitsTyped
<1>3. now \in Nat /\ Delay \in Nat /\ Skew \in Nat
    BY GatewayAssumption DEF TypeOK
<1>4. PICK m \in LimitsOf(j) : a.at + m.window < expiry[j]
    BY DEF ExpiryTracks
<1>5. CASE j # k
    <2>1. window'[j] = window[j] /\ expiry'[j] = expiry[j]
        BY <1>5 DEF slidingWindowScript, TypeOK
    <2> QED BY <1>4, <2>1 DEF StillCounted
<1>6. CASE j = k
    <2>1. Late(j, a) => Holds(window'[j], a)
        <3> SUFFICES ASSUME Late(j, a) PROVE Holds(window'[j], a)
            OBVIOUS
        <3>1. PICK s \in window[k] : Member(s) = Member(a.stamp) /\ a.at <= s + Delay
            BY <1>6 DEF StillCounted, Holds
        <3>2. s \in Nat /\ now - a.at + Delay + Skew < lim.window
            BY <1>6 DEF Late, TypeOK
        <3>3. s > n - lim.window
            BY <1>1, <1>2, <1>3, <3>1, <3>2 DEF Limit
        <3>4. now - a.at + Delay + Skew < m.window
            BY <1>4 DEF Late
        <3>5. now < expiry[k]
            <4>1. m.window \in Nat /\ expiry[k] \in Nat
                BY <1>2, <1>4 DEF Limit, TypeOK
            <4> QED BY <1>1, <1>3, <1>4, <1>6, <3>4, <4>1
        <3>6. s \in Kept(k, lim, n)
            BY <3>3, <3>5 DEF Kept
        <3>7. window'[j] = IF allowed THEN Added(Kept(k, lim, n), n) ELSE Kept(k, lim, n)
            BY <1>6 DEF slidingWindowScript, TypeOK
        <3>8. CASE allowed /\ Member(s) = Member(n)
            <4>1. n \in window'[j]
                BY <3>7, <3>8 DEF Added
            <4>2. a.at <= n + Delay
                BY <1>1, <1>3
            <4> QED BY <3>1, <3>8, <4>1, <4>2 DEF Holds
        <3>9. CASE ~allowed \/ Member(s) # Member(n)
            <4>1. s \in window'[j]
                BY <3>6, <3>7, <3>9 DEF Added
            <4> QED BY <3>1, <4>1 DEF Holds
        <3> QED BY <3>8, <3>9
    <2>2. CASE ~allowed
        BY <1>4, <2>1, <2>2 DEF slidingWindowScript
    <2>3. CASE allowed
        <3>1. expiry'[j] = now + lim.window + 1
            BY <1>6, <2>3 DEF slidingWindowScript, TypeOK
        <3>2. a.at + lim.window < expiry'[j]
            BY <1>1, <1>2, <1>3, <3>1 DEF Limit
        <3> QED BY <1>6, <2>1, <3>2
    <2> QED BY <2>2, <2>3
<1> QED BY <1>5, <1>6

\* The stamp of a request being checked is neither ahead of the clocks nor old.
LEMMA StampInTime ==
    ASSUME TypeOK, NEW r \in Requests, pc[r] \in Levels
    PROVE  stamp[r] \in Nat /\ stamp[r] <= now + Skew /\ now <= stamp[r] + Delay
BY GatewayAssumption DEF TypeOK

\* Every step keeps the facts about late calls.
LEMMA RedisStep ==
    ASSUME IInv, [Next]_vars
    PROVE  RedisInv'
<1> SUFFICES ASSUME backend' = "redis"
             PROVE  ExpiryTracks' /\ StillCounted'
    BY DEF RedisInv
<1> USE DEF IInv
<1>1. CASE backend # "redis"
    <2>1. backend' = backend
        BY DEF Next, HandleToolsCall, vars, Tick, Route, Refuse, AllowLocal, AllowRedis,
               CheckLimit, ReplyLost, CheckFails, Unlimited, Forward, configVars
    <2> QED BY <1>1, <2>1
<1> SUFFICES ASSUME backend = "redis"
             PROVE  ExpiryTracks' /\ StillCounted'
    BY <1>1
<1>2. ExpiryTracks /\ StillCounted
    BY DEF RedisInv
<1>3. CASE Tick
    <2>1. ASSUME NEW k \in Keys, NEW a \in admitted[k], Late(k, a)'
          PROVE  Late(k, a)
        <3> SUFFICES ASSUME NEW lim \in LimitsOf(k)
                     PROVE  now - a.at + Delay + Skew < lim.window
            BY DEF Late
        <3>1. now' - a.at + Delay + Skew < lim.window
            BY <2>1 DEF Late
        <3>2. now' = now + 1
            BY <1>3 DEF Tick
        <3>3. lim.window \in Nat /\ now \in Nat /\ a.at \in Nat /\ Delay \in Nat /\ Skew \in Nat
            BY LimitsTyped, GatewayAssumption DEF Limit, TypeOK
        <3> QED BY <3>1, <3>2, <3>3
    <2>2. UNCHANGED <<window, expiry, admitted>>
        BY <1>3 DEF Tick, redisVars
    <2> QED BY <1>2, <2>1, <2>2 DEF ExpiryTracks, StillCounted
<1>4. ASSUME UNCHANGED <<now, window, expiry, admitted>>
      PROVE  ExpiryTracks' /\ StillCounted'
    BY <1>2, <1>4 DEF ExpiryTracks, StillCounted, Late
<1>5. ASSUME NEW r \in Requests, CheckLimit(r)
      PROVE  ExpiryTracks' /\ StillCounted'
    <2> DEFINE key == KeyOf(r, pc[r])
               lim == LimitAt(r, pc[r])
    <2>1. PICK allowed \in BOOLEAN :
            /\ slidingWindowScript(key, lim, stamp[r], allowed)
            /\ IF allowed THEN Admit(r, {key}, stamp[r]) ELSE UNCHANGED admitted
        BY <1>5 DEF CheckLimit
    <2>2. key \in Keys /\ lim \in LimitsOf(key) /\ lim \in Limit
        BY <1>5, EffectiveIsOfKey, LimitsTyped DEF CheckLimit
    <2>3. now' = now /\ pc[r] \in Levels
        BY <1>5 DEF CheckLimit
    <2>4. stamp[r] \in Nat /\ stamp[r] <= now + Skew /\ now <= stamp[r] + Delay
        BY <2>3, StampInTime
    <2> HIDE DEF key, lim
    <2>5. \A j \in Keys : \A a \in admitted[j] :
              /\ Late(j, a) => Holds(window'[j], a)
              /\ \E m \in LimitsOf(j) : a.at + m.window < expiry'[j]
        BY <1>2, <2>1, <2>2, <2>4, ScriptKeeps
    <2>6. CASE ~allowed
        <3>1. admitted' = admitted
            BY <2>1, <2>6
        <3> QED BY <1>2, <2>3, <2>5, <3>1 DEF ExpiryTracks, StillCounted, Late
    <2>7. CASE allowed
        <3> DEFINE new == [by |-> r, at |-> now, stamp |-> stamp[r]]
        <3>1. \A j \in Keys : admitted'[j] = IF j = key THEN admitted[j] \union {new} ELSE admitted[j]
            BY <2>1, <2>7 DEF Admit
        <3>2. new.stamp \in window'[key]
            BY <2>1, <2>2, <2>7 DEF slidingWindowScript, Added, TypeOK
        <3>3. expiry'[key] = now + lim.window + 1
            BY <2>1, <2>2, <2>7 DEF slidingWindowScript, TypeOK
        <3>4. new.at + lim.window < expiry'[key]
            BY <2>2, <3>3 DEF Limit, TypeOK
        <3>5. Holds(window'[key], new)
            BY <2>4, <3>2 DEF Holds
        <3> HIDE DEF new
        <3>6. ExpiryTracks'
            BY <2>2, <2>5, <3>1, <3>4 DEF ExpiryTracks
        <3>7. StillCounted'
            BY <2>3, <2>5, <3>1, <3>5 DEF StillCounted, Late
        <3> QED BY <3>6, <3>7
    <2> QED BY <2>6, <2>7
<1>6. ASSUME NEW r \in Requests, ReplyLost(r)
      PROVE  ExpiryTracks' /\ StillCounted'
    <2> DEFINE key == KeyOf(r, pc[r])
               lim == LimitAt(r, pc[r])
    <2>1. PICK allowed \in BOOLEAN : slidingWindowScript(key, lim, stamp[r], allowed)
        BY <1>6 DEF ReplyLost
    <2>2. key \in Keys /\ lim \in LimitsOf(key)
        BY <1>6, EffectiveIsOfKey DEF ReplyLost
    <2>3. now' = now /\ admitted' = admitted /\ pc[r] \in Levels
        BY <1>6 DEF ReplyLost
    <2>4. stamp[r] \in Nat /\ stamp[r] <= now + Skew /\ now <= stamp[r] + Delay
        BY <2>3, StampInTime
    <2> HIDE DEF key, lim
    <2>5. \A j \in Keys : \A a \in admitted[j] :
              /\ Late(j, a) => Holds(window'[j], a)
              /\ \E m \in LimitsOf(j) : a.at + m.window < expiry'[j]
        BY <1>2, <2>1, <2>2, <2>4, ScriptKeeps
    <2> QED BY <1>2, <2>3, <2>5 DEF ExpiryTracks, StillCounted, Late
<1>7. ASSUME NEW r \in Requests,
             Route(r) \/ Refuse(r) \/ AllowRedis(r) \/ CheckFails(r) \/ Unlimited(r) \/ Forward(r)
      PROVE  UNCHANGED <<now, window, expiry, admitted>>
    BY <1>7 DEF Route, Refuse, AllowRedis, CheckFails, Unlimited, Forward, redisVars
<1>8. ASSUME NEW r \in Requests, AllowLocal(r) PROVE FALSE
    BY <1>8 DEF AllowLocal
<1>9. CASE UNCHANGED vars
    BY <1>4, <1>9 DEF vars, redisVars
<1> QED
    BY <1>3, <1>4, <1>5, <1>6, <1>7, <1>8, <1>9 DEF Next, HandleToolsCall

-----------------------------------------------------------------------------
(* The limits of the local limiter.                                        *)

\* An override takes the place of a limit, never of no limit.
LEMMA MostPermissiveFacts ==
    ASSUME NEW l \in {"caller", "tool"}, NEW rs \in SUBSET Roles
    PROVE  /\ MostPermissive(l, rs) \in Limit \union {NoLimit}
           /\ Default[l] # NoLimit => MostPermissive(l, rs) # NoLimit
<1>1. Default[l] \in Limit \union {NoLimit}
    BY LimitsAssumption DEF Levels
<1>2. CASE Overriding(l, rs) = {}
    BY <1>1, <1>2 DEF MostPermissive
<1>3. CASE Overriding(l, rs) # {}
    <2>1. PICK b \in Overriding(l, rs) : Best(l, rs, b)
        BY <1>3, RolesAssumption
    <2>2. BestRole(l, rs) \in Overriding(l, rs)
        BY <2>1 DEF BestRole
    <2>3. BestRole(l, rs) \in Roles /\ RoleLimit[l][BestRole(l, rs)] # NoLimit
        BY <2>2 DEF Overriding
    <2>4. RoleLimit[l][BestRole(l, rs)] \in Limit
        BY <2>3, LimitsAssumption
    <2>5. MostPermissive(l, rs) \in {RoleLimit[l][BestRole(l, rs)], Default[l]}
        BY <1>3 DEF MostPermissive
    <2> QED BY <1>1, <2>3, <2>4, <2>5
<1> QED BY <1>2, <1>3

\* What a caller is registered with: a default limit is never lost.
LEMMA RegistrationFacts ==
    ASSUME Registrations, NEW c \in Callers, NEW rs \in SUBSET Roles
    PROVE  /\ Registration(c, rs) \in [{"caller", "tool"} -> Limit \union {NoLimit}] \union {NotRegistered}
           /\ Registration(c, rs) # NotRegistered =>
                 \A l \in {"caller", "tool"} : Default[l] # NoLimit => Registration(c, rs)[l] # NoLimit
<1>1. CASE rs # {} /\ registered[c] = NotRegistered
    <2>1. Registration(c, rs) = [l \in {"caller", "tool"} |-> MostPermissive(l, rs)]
        BY <1>1 DEF Registration
    <2> QED BY <2>1, MostPermissiveFacts
<1>2. CASE ~(rs # {} /\ registered[c] = NotRegistered)
    <2>1. Registration(c, rs) = registered[c]
        BY <1>2 DEF Registration
    <2> QED BY <2>1 DEF Registrations
<1> QED BY <1>1, <1>2

\* A call is limited locally wherever LimitedAt says so.
LEMMA LocalLimitFacts ==
    ASSUME Registrations, NEW level \in Levels, NEW c \in Callers, NEW t \in Tools, NEW rs \in SUBSET Roles
    PROVE  /\ LocalLimit(level, c, t, rs) \in Limit \union {NoLimit}
           /\ level = "upstream" => LocalLimit(level, c, t, rs) = UpstreamRate(UpstreamOf[t])
           /\ level # "upstream" /\ Default[level] # NoLimit => LocalLimit(level, c, t, rs) # NoLimit
<1>1. CASE level = "upstream"
    BY <1>1, LimitsAssumption DEF LocalLimit, UpstreamRate, Levels
<1>2. CASE level # "upstream"
    <2>1. level \in {"caller", "tool"} /\ Default[level] \in Limit \union {NoLimit}
        BY <1>2, LimitsAssumption DEF Levels
    <2>2. LocalLimit(level, c, t, rs) = IF Registration(c, rs) = NotRegistered THEN Default[level]
                                        ELSE Registration(c, rs)[level]
        BY <1>2 DEF LocalLimit
    <2>3. CASE Registration(c, rs) = NotRegistered
        BY <1>2, <2>1, <2>2, <2>3
    <2>4. CASE Registration(c, rs) # NotRegistered
        BY <1>2, <2>1, <2>2, <2>4, RegistrationFacts
    <2> QED BY <2>3, <2>4
<1> QED BY <1>1, <1>2

-----------------------------------------------------------------------------
(* Buckets.                                                                *)

\* Refilling keeps the limit and adds no more than is due.
LEMMA RefilledFacts ==
    ASSUME NEW b \in Bucket, now \in Nat, b.last <= now
    PROVE  /\ Refilled(b) \in Bucket /\ Refilled(b).lim = b.lim /\ Refilled(b).last = now
           /\ Refilled(b).tokens <= b.tokens + (now - b.last) * b.lim.count
           /\ Refilled(b).tokens <= b.lim.burst * b.lim.window
<1> DEFINE more == b.tokens + (now - b.last) * b.lim.count
           most == b.lim.burst * b.lim.window
           n == IF more < most THEN more ELSE most
<1>1. /\ b.tokens \in Nat /\ b.last \in Nat /\ b.lim \in Limit
      /\ b.lim.count \in Nat /\ b.lim.window \in Nat /\ b.lim.burst \in Nat
    BY DEF Bucket, Limit
<1>2. now - b.last \in Nat
    BY <1>1
<1>3. more \in Nat /\ most \in Nat
    BY <1>1, <1>2
<1>4. Refilled(b) = [b EXCEPT !.tokens = n, !.last = now]
    BY DEF Refilled
<1> HIDE DEF more, most
<1>5. n \in Nat /\ n <= more /\ n <= most
    BY <1>3
<1> HIDE DEF n
<1>6. Refilled(b) \in Bucket /\ Refilled(b).lim = b.lim /\ Refilled(b).last = now /\ Refilled(b).tokens = n
    BY <1>1, <1>4, <1>5 DEF Bucket
<1> QED BY <1>5, <1>6 DEF more, most

\* A new limiter is full.
LEMMA FullFacts ==
    ASSUME NEW lim \in Limit, now \in Nat
    PROVE  /\ Full(lim) \in Bucket /\ Full(lim).lim = lim /\ Full(lim).last = now
           /\ Full(lim).tokens = lim.burst * lim.window
BY DEF Full, Bucket, Limit

\* What a level with a limit finds.
LEMMA BucketAtFacts ==
    ASSUME Registrations, Buckets, now \in Nat,
           NEW level \in Levels, NEW c \in Callers, NEW t \in Tools, NEW rs \in SUBSET Roles,
           bucket[Key(level, c, t)] # NoBucket \/ LocalLimit(level, c, t, rs) # NoLimit
    PROVE  BucketAt(level, c, t, rs) \in Bucket /\ BucketAt(level, c, t, rs).last = now
<1>1. Key(level, c, t) \in Keys
    BY KeyFacts
<1>2. CASE bucket[Key(level, c, t)] # NoBucket
    <2>1. bucket[Key(level, c, t)] \in Bucket /\ bucket[Key(level, c, t)].last <= now
        BY <1>1, <1>2 DEF Buckets
    <2>2. BucketAt(level, c, t, rs) = Refilled(bucket[Key(level, c, t)])
        BY <1>2 DEF BucketAt
    <2> QED BY <2>1, <2>2, RefilledFacts
<1>3. CASE bucket[Key(level, c, t)] = NoBucket
    <2>1. LocalLimit(level, c, t, rs) \in Limit
        BY <1>3, LocalLimitFacts
    <2>2. BucketAt(level, c, t, rs) = Full(LocalLimit(level, c, t, rs))
        BY <1>3 DEF BucketAt
    <2> QED BY <2>1, <2>2, FullFacts
<1> QED BY <1>2, <1>3

\* A level looks at a limiter that it keeps.
Opens(level, c, t, rs) ==
    \/ bucket[Key(level, c, t)] # NoBucket
    \/ LocalLimit(level, c, t, rs) # NoLimit /\ (level = "tool" => Room(c))

\* What Allow does at one level: nothing, a look, a token taken, or a token taken from a
\* limiter that is thrown away.
Visits(l, c, t, rs, passed) ==
    LET b == BucketAt(l, c, t, rs)
        k == Key(l, c, t)
    IN  \/ l \notin passed /\ bucket'[k] = bucket[k]
        \/ l \notin passed /\ Opens(l, c, t, rs) /\ bucket'[k] = b
        \/ /\ l \in passed /\ Opens(l, c, t, rs) /\ ~(b.tokens < b.lim.window)
           /\ bucket'[k] = [b EXCEPT !.tokens = @ - b.lim.window]
        \/ /\ l \in passed /\ l = "tool" /\ ~Room(c)
           /\ bucket[k] = NoBucket /\ bucket'[k] = NoBucket

\* Allow visits every level, and touches no other limiter.
LEMMA LocalAllowFacts ==
    ASSUME Registrations, Buckets, now \in Nat,
           NEW c \in Callers, NEW t \in Tools, NEW rs \in SUBSET Roles,
           NEW passed, NEW allowed, LocalAllow(c, t, rs, passed, allowed)
    PROVE  /\ registered' = [registered EXCEPT ![c] = Registration(c, rs)]
           /\ passed \subseteq Levels
           /\ allowed => \A l \in Levels : LocalLimit(l, c, t, rs) # NoLimit => l \in passed
           /\ \A k \in Keys : (\A l \in Levels : k # Key(l, c, t)) => bucket'[k] = bucket[k]
           /\ bucket' = [k \in Keys |-> bucket'[k]]
           /\ \A l \in Levels : Visits(l, c, t, rs, passed)
<1> DEFINE stored(l) == bucket[Key(l, c, t)] # NoBucket
           at(l) == BucketAt(l, c, t, rs)
           limited == {l \in Levels : stored(l) \/ LocalLimit(l, c, t, rs) # NoLimit}
           short == {l \in limited : at(l).tokens < at(l).lim.window}
           spent(l) == IF l \in short THEN at(l)
                       ELSE [at(l) EXCEPT !.tokens = @ - at(l).lim.window]
           kept == {l \in limited : /\ Before[l] \intersect short = {}
                                    /\ l = "tool" => stored(l) \/ Room(c)}
<1>1. /\ passed = {l \in limited : (Before[l] \union {l}) \intersect short = {}}
      /\ allowed = (short = {})
      /\ registered' = [registered EXCEPT ![c] = Registration(c, rs)]
      /\ bucket' = [k \in Keys |-> IF \E l \in kept : k = Key(l, c, t)
                                   THEN spent(CHOOSE l \in kept : k = Key(l, c, t))
                                   ELSE bucket[k]]
    BY DEF LocalAllow
<1> HIDE DEF spent, kept, short
<1>2. \A k \in Keys : ~(\E l \in kept : k = Key(l, c, t)) => bucket'[k] = bucket[k]
    BY <1>1
<1>3. kept \subseteq limited /\ limited \subseteq Levels /\ short \subseteq limited
    BY DEF kept, short
<1>4. ASSUME NEW l \in kept PROVE bucket'[Key(l, c, t)] = spent(l)
    <2>1. Key(l, c, t) \in Keys
        BY <1>3, KeyFacts
    <2>2. \A m \in kept : Key(l, c, t) = Key(m, c, t) => m = l
        BY <1>3, KeyFacts
    <2>3. (CHOOSE m \in kept : Key(l, c, t) = Key(m, c, t)) = l
        BY <2>2
    <2> QED BY <1>1, <2>1, <2>3
<1>5. allowed => \A l \in Levels : LocalLimit(l, c, t, rs) # NoLimit => l \in passed
    BY <1>1
<1>6. \A k \in Keys : (\A l \in Levels : k # Key(l, c, t)) => bucket'[k] = bucket[k]
    BY <1>2, <1>3
<1>7. bucket' = [k \in Keys |-> bucket'[k]]
    BY <1>1
<1>8. ASSUME NEW l \in Levels
      PROVE  Visits(l, c, t, rs, passed)
    <2>1. CASE l \in kept
        <3>1. Opens(l, c, t, rs)
            BY <2>1 DEF kept, Opens
        <3>2. bucket'[Key(l, c, t)] = spent(l)
            BY <1>4, <2>1
        <3>3. CASE l \in short
            BY <1>1, <3>1, <3>2, <3>3 DEF spent, Visits
        <3>4. CASE l \notin short
            <4>1. l \in passed
                BY <1>1, <2>1, <3>4 DEF kept
            <4>2. ~(at(l).tokens < at(l).lim.window)
                BY <1>3, <2>1, <3>4 DEF short
            <4> QED BY <3>1, <3>2, <3>4, <4>1, <4>2 DEF spent, Visits
        <3> QED BY <3>3, <3>4
    <2>2. CASE l \notin kept
        <3>1. bucket'[Key(l, c, t)] = bucket[Key(l, c, t)]
            <4>1. \A m \in kept : Key(l, c, t) # Key(m, c, t)
                BY <1>3, <2>2, KeyFacts
            <4> QED BY <1>2, <4>1, KeyFacts
        <3>2. l \in passed => l = "tool" /\ ~stored(l) /\ ~Room(c)
            BY <1>1, <2>2 DEF kept
        <3> QED BY <3>1, <3>2 DEF Visits
    <2> QED BY <2>1, <2>2
<1> QED BY <1>1, <1>5, <1>6, <1>7, <1>8

-----------------------------------------------------------------------------
(* What passes is counted.                                                 *)

\* Nothing is taken from what has been admitted, and a step of one request leaves the
\* others where they are.
LEMMA StepFrame ==
    ASSUME TypeOK, [Next]_vars
    PROVE  /\ UNCHANGED configVars
           /\ \A k \in Keys : admitted[k] \subseteq admitted'[k]
<1> USE DEF configVars
<1>1. UNCHANGED <<backend, authenticated>>
    BY DEF Next, HandleToolsCall, vars, Tick, Route, Refuse, AllowLocal, AllowRedis, CheckLimit,
       ReplyLost, CheckFails, Unlimited, Forward
<1>2. ASSUME NEW r \in Requests, AllowLocal(r) \/ CheckLimit(r)
      PROVE  \A k \in Keys : admitted[k] \subseteq admitted'[k]
    <2>1. (\E ks, n : Admit(r, ks, n)) \/ UNCHANGED admitted
        BY <1>2 DEF AllowLocal, CheckLimit
    <2> QED BY <2>1 DEF Admit
<1>3. ASSUME NEW r \in Requests,
             \/ Route(r) \/ Refuse(r) \/ AllowRedis(r) \/ ReplyLost(r) \/ CheckFails(r)
             \/ Unlimited(r) \/ Forward(r)
      PROVE  UNCHANGED admitted
    BY <1>3 DEF Route, Refuse, AllowRedis, ReplyLost, CheckFails, Unlimited, Forward
<1>4. CASE Tick \/ UNCHANGED vars
    BY <1>1, <1>4 DEF Tick, vars
<1> QED BY <1>1, <1>2, <1>3, <1>4 DEF Next, HandleToolsCall

\* What has been counted stays counted while the request keeps its roles.
LEMMA CountedStays ==
    ASSUME NEW r \in Requests, NEW level \in Levels, UNCHANGED backend, roles'[r] = roles[r],
           \A k \in Keys : admitted[k] \subseteq admitted'[k], Counted(r, level)
    PROVE  Counted(r, level)'
<1>1. KeyOf(r, level) \in Keys
    BY GatewayAssumption, KeyFacts DEF KeyOf
<1>2. LimitedAt(r, level)' <=> LimitedAt(r, level)
    BY DEF LimitedAt, LimitAt, EffectiveLimit
<1> QED BY <1>1, <1>2 DEF Counted, KeyOf

\* A request clears a level by being admitted there, and admissions are kept.
LEMMA ClearedStep ==
    ASSUME IInv, [Next]_vars
    PROVE  ClearedWasCounted'
<1> USE DEF IInv
<1>0. /\ UNCHANGED backend /\ \A k \in Keys : admitted[k] \subseteq admitted'[k]
      /\ \A r \in Requests : Cleared(r) \subseteq Levels
    BY StepFrame DEF configVars, Cleared, Before, Levels
<1>1. ASSUME NEW q \in Requests, pc'[q] = pc[q], roles'[q] = roles[q], NEW level \in Cleared(q)'
      PROVE  Counted(q, level)'
    <2>1. level \in Cleared(q)
        BY <1>1 DEF Cleared
    <2> QED BY <1>0, <1>1, <2>1, CountedStays DEF ClearedWasCounted
<1>2. ASSUME NEW r \in Requests, HandleToolsCall(r), NEW q \in Requests, q # r
      PROVE  pc'[q] = pc[q] /\ roles'[q] = roles[q]
    BY <1>2 DEF HandleToolsCall, Route, Refuse, AllowLocal, AllowRedis, CheckLimit, ReplyLost, CheckFails,
       Unlimited, Forward, Finish, Goto, requestVars, TypeOK
<1>3. ASSUME NEW r \in Requests, HandleToolsCall(r), NEW level \in Cleared(r)'
      PROVE  Counted(r, level)'
    <2>1. CASE Route(r) \/ Refuse(r) \/ AllowRedis(r) \/ CheckFails(r) \/ Forward(r)
        <3>1. pc'[r] \in {"limit", "done", "caller"}
            BY <2>1 DEF Route, Refuse, AllowRedis, CheckFails, Forward, Finish, Goto, TypeOK
        <3> QED BY <1>3, <3>1 DEF Cleared, Before, Levels
    <2>2. CASE ReplyLost(r)
        BY <1>1, <1>3, <2>2 DEF ReplyLost, requestVars
    <2>3. ASSUME NEW here \in Levels, here = pc[r], Goto(r, After[here]), roles'[r] = roles[r],
                 Counted(r, here)'
          PROVE  Counted(r, level)'
        <3>1. pc'[r] = After[here]
            BY <2>3 DEF Goto, TypeOK
        <3>2. level \in Cleared(r) \union {here}
            BY <1>3, <2>3, <3>1 DEF Cleared, Before, After, Levels
        <3>3. CASE level \in Cleared(r)
            BY <1>0, <2>3, <3>3, CountedStays DEF ClearedWasCounted
        <3>4. CASE level = here
            BY <2>3, <3>4
        <3> QED BY <3>2, <3>3, <3>4
    <2>4. CASE Unlimited(r)
        <3>1. pc[r] \in Levels /\ backend = "redis" /\ UNCHANGED roles /\ Goto(r, After[pc[r]])
            BY <2>4 DEF Unlimited, TypeOK
        <3>2. PICK here \in Levels : here = pc[r]
            BY <3>1
        <3>3. LimitAt(r, here) = NoLimit
            BY <2>4, <3>2 DEF Unlimited
        <3>4. ~LimitedAt(r, here)'
            BY <1>0, <3>1, <3>3 DEF LimitedAt, LimitAt, EffectiveLimit
        <3>5. Counted(r, here)'
            BY <3>4 DEF Counted
        <3> QED BY <2>3, <3>1, <3>2, <3>5
    <2>5. CASE CheckLimit(r)
        <3>1. PICK allowed \in BOOLEAN :
                IF allowed THEN /\ Goto(r, After[pc[r]])
                                /\ Admit(r, {KeyOf(r, pc[r])}, stamp[r])
                                /\ UNCHANGED roles
                           ELSE Finish(r)
            BY <2>5 DEF CheckLimit
        <3>2. CASE ~allowed
            <4>1. pc'[r] = "done"
                BY <3>1, <3>2 DEF Finish, Goto, TypeOK
            <4> QED BY <1>3, <4>1 DEF Cleared, Levels
        <3>3. CASE allowed
            <4>1. PICK here \in Levels : here = pc[r]
                BY <2>5 DEF CheckLimit
            <4>2. KeyOf(r, here) \in Keys
                BY GatewayAssumption, KeyFacts DEF KeyOf
            <4>3. [by |-> r, at |-> now, stamp |-> stamp[r]] \in admitted'[KeyOf(r, here)]
                BY <3>1, <3>3, <4>1, <4>2 DEF Admit
            <4>4. Counted(r, here)'
                BY <4>3 DEF Counted, KeyOf
            <4> QED BY <2>3, <3>1, <3>3, <4>1, <4>4
        <3> QED BY <3>2, <3>3
    <2>6. CASE AllowLocal(r)
        <3>1. PICK passed \in SUBSET Levels, allowed \in BOOLEAN :
                /\ LocalAllow(CallerOf[r], ToolOf[r], roles[r], passed, allowed)
                /\ Admit(r, {KeyOf(r, l) : l \in passed}, 0)
                /\ IF allowed THEN Goto(r, "forward") /\ UNCHANGED roles ELSE Finish(r)
            BY <2>6 DEF AllowLocal
        <3>2. CASE ~allowed
            <4>1. pc'[r] = "done"
                BY <3>1, <3>2 DEF Finish, Goto, TypeOK
            <4> QED BY <1>3, <4>1 DEF Cleared, Levels
        <3>3. CASE allowed
            <4>1. CallerOf[r] \in Callers /\ ToolOf[r] \in Tools /\ roles[r] \in SUBSET Roles
                BY GatewayAssumption DEF TypeOK
            <4>2. level \in Levels
                BY <1>3, <3>1, <3>3 DEF Goto, Cleared, Levels, TypeOK, Before
            <4>3. LimitedAt(r, level)' => LocalLimit(level, CallerOf[r], ToolOf[r], roles[r]) # NoLimit
                <5>1. backend' = "local"
                    BY <1>0, <2>6 DEF AllowLocal
                <5> QED BY <4>1, <4>2, <5>1, LocalLimitFacts DEF LimitedAt
            <4>4. LimitedAt(r, level)' => level \in passed
                <5>1. now \in Nat /\ Registrations /\ Buckets
                    BY DEF TypeOK
                <5>2. allowed => \A l \in Levels :
                        LocalLimit(l, CallerOf[r], ToolOf[r], roles[r]) # NoLimit => l \in passed
                    <6>1. ASSUME NEW c \in Callers, NEW t \in Tools, NEW rs \in SUBSET Roles,
                                 LocalAllow(c, t, rs, passed, allowed)
                          PROVE  allowed => \A l \in Levels : LocalLimit(l, c, t, rs) # NoLimit => l \in passed
                        BY <5>1, <6>1, LocalAllowFacts
                    <6> QED BY <3>1, <4>1, <6>1
                <5> QED BY <3>3, <4>2, <4>3, <5>2
            <4>5. KeyOf(r, level) \in Keys
                BY <4>1, <4>2, KeyFacts DEF KeyOf
            <4>6. level \in passed => [by |-> r, at |-> now, stamp |-> 0] \in admitted'[KeyOf(r, level)]
                BY <3>1, <4>5 DEF Admit
            <4> QED BY <4>4, <4>6 DEF Counted, KeyOf
        <3> QED BY <3>2, <3>3
    <2> QED BY <1>3, <2>1, <2>2, <2>4, <2>5, <2>6 DEF HandleToolsCall
<1>4. ASSUME NEW q \in Requests, NEW level \in Cleared(q)', Tick \/ UNCHANGED vars
      PROVE  Counted(q, level)'
    BY <1>1, <1>4 DEF Tick, vars, requestVars
<1>5. ASSUME NEW q \in Requests, NEW level \in Cleared(q)' PROVE Counted(q, level)'
    <2>1. ASSUME NEW r \in Requests, HandleToolsCall(r) PROVE Counted(q, level)'
        <3>1. CASE q = r
            BY <1>3, <1>5, <2>1, <3>1
        <3>2. CASE q # r
            BY <1>1, <1>2, <1>5, <2>1, <3>2
        <3> QED BY <3>1, <3>2
    <2> QED BY <1>4, <1>5, <2>1 DEF Next
<1> QED BY <1>5 DEF ClearedWasCounted

-----------------------------------------------------------------------------
(* The account of a bucket.                                                *)

\* Time passes: the bucket gains what is due, or is full.
LEMMA FitsRefilled ==
    ASSUME NEW S, IsFiniteSet(S), \A a \in S : a.at \in Nat,
           NEW b \in Bucket, now \in Nat, b.last <= now, Fits(S, b)
    PROVE  Fits(S, Refilled(b))
<1> DEFINE d == Refilled(b)
<1>1. /\ d \in Bucket /\ d.lim = b.lim /\ d.last = now
      /\ d.tokens <= b.tokens + (now - b.last) * b.lim.count
      /\ d.tokens <= b.lim.burst * b.lim.window
    BY RefilledFacts
<1> HIDE DEF d
<1>2. /\ b.last \in Nat /\ b.tokens \in Nat /\ d.tokens \in Nat
      /\ b.lim.count \in Nat /\ b.lim.window \in Nat /\ b.lim.burst \in Nat
    BY <1>1 DEF Bucket, Limit
<1>3. \A a \in S : a.at <= d.last
    BY <1>1, <1>2 DEF Fits
<1>4. ASSUME NEW t \in 0 .. d.last
      PROVE  Cardinality(Since(S, t)) * d.lim.window + d.tokens
                <= d.lim.burst * d.lim.window + (d.last - t) * d.lim.count
    <2> DEFINE n == Cardinality(Since(S, t))
               w == b.lim.window
               m == b.lim.burst * b.lim.window
               r == b.lim.count
    <2>1. n \in Nat
        BY FS_Subset, FS_CardinalityType DEF Since
    <2>2. t \in Nat /\ t <= now /\ w \in Nat /\ m \in Nat /\ r \in Nat
        BY <1>1, <1>2
    <2>3. CASE t <= b.last
        <3>1. n * w + b.tokens <= m + (b.last - t) * r
            BY <2>2, <2>3 DEF Fits
        <3>2. (now - b.last) * r + (b.last - t) * r = (now - t) * r
            BY <1>2, <2>2
        <3>3. d.tokens <= b.tokens + (now - b.last) * r
            BY <1>1
        <3>4. n * w \in Nat /\ (now - b.last) * r \in Int /\ (b.last - t) * r \in Int
            BY <1>2, <2>1, <2>2
        <3> HIDE DEF n, w, m, r
        <3>5. n * w + d.tokens <= m + (now - t) * r
            BY <1>2, <2>2, <3>1, <3>2, <3>3, <3>4
        <3> QED BY <1>1, <3>5 DEF n, w, m, r
    <2>4. CASE b.last < t
        <3>1. Since(S, t) = {}
            BY <1>2, <2>2, <2>4 DEF Fits, Since
        <3>2. n = 0
            BY <3>1, FS_EmptySet
        <3>3. (now - t) * r \in Nat
            BY <2>2
        <3>4. n * w = 0
            BY <2>2, <3>2
        <3>5. d.tokens <= m
            BY <1>1
        <3> HIDE DEF n, w, m, r
        <3>6. n * w + d.tokens <= m + (now - t) * r
            BY <1>2, <2>2, <3>3, <3>4, <3>5
        <3> QED BY <1>1, <3>6 DEF n, w, m, r
    <2> QED BY <1>2, <2>2, <2>3, <2>4
<1> QED BY <1>3, <1>4 DEF Fits, d

\* A bucket that has just been made is full and has admitted nobody.
LEMMA FitsFull ==
    ASSUME NEW lim \in Limit, now \in Nat
    PROVE  Fits({}, Full(lim)) /\ Bounded({}, lim)
<1>1. /\ Full(lim).lim = lim /\ Full(lim).last = now
      /\ Full(lim).tokens = lim.burst * lim.window
    BY FullFacts
<1>2. ASSUME NEW t \in 0 .. now
      PROVE  Cardinality(Since({}, t)) * lim.window + lim.burst * lim.window
                <= lim.burst * lim.window + (now - t) * lim.count
    <2>1. Since({}, t) = {}
        BY DEF Since
    <2>2. Cardinality(Since({}, t)) = 0
        BY <2>1, FS_EmptySet
    <2>3. lim.burst * lim.window \in Nat /\ (now - t) * lim.count \in Nat /\ 0 * lim.window = 0
        BY DEF Limit
    <2> QED BY <2>2, <2>3
<1> QED BY <1>1, <1>2 DEF Fits, Bounded

\* A call is admitted: one more on one side, one token less on the other.
LEMMA FitsSpent ==
    ASSUME NEW S, IsFiniteSet(S), \A a \in S : a.at \in Nat,
           NEW b \in Bucket, Fits(S, b), ~(b.tokens < b.lim.window),
           NEW x, x.at = b.last
    PROVE  /\ [b EXCEPT !.tokens = @ - b.lim.window] \in Bucket
           /\ Fits(S \union {x}, [b EXCEPT !.tokens = @ - b.lim.window])
<1> DEFINE d == [b EXCEPT !.tokens = @ - b.lim.window]
           w == b.lim.window
<1>1. /\ b.last \in Nat /\ b.tokens \in Nat
      /\ b.lim.count \in Nat /\ w \in Nat /\ b.lim.burst \in Nat
    BY DEF Bucket, Limit
<1>2. d \in Bucket /\ d.lim = b.lim /\ d.last = b.last /\ d.tokens = b.tokens - w
    BY <1>1 DEF Bucket
<1> HIDE DEF d
<1>3. \A a \in S \union {x} : a.at <= d.last
    BY <1>1, <1>2 DEF Fits
<1>4. ASSUME NEW t \in 0 .. d.last
      PROVE  Cardinality(Since(S \union {x}, t)) * d.lim.window + d.tokens
                <= d.lim.burst * d.lim.window + (d.last - t) * d.lim.count
    <2> DEFINE n == Cardinality(Since(S, t))
               p == Cardinality(Since(S \union {x}, t))
               m == b.lim.burst * w + (b.last - t) * b.lim.count
    <2>1. n \in Nat /\ IsFiniteSet(Since(S, t))
        BY FS_Subset, FS_CardinalityType DEF Since
    <2>2. Since(S \union {x}, t) = Since(S, t) \union {x}
        BY <1>2 DEF Since
    <2>3. p \in Nat /\ p <= n + 1
        <3> HIDE DEF n
        <3>1. /\ IsFiniteSet(Since(S, t) \union {x})
              /\ \/ Cardinality(Since(S, t) \union {x}) = Cardinality(Since(S, t))
                 \/ Cardinality(Since(S, t) \union {x}) = Cardinality(Since(S, t)) + 1
            BY <2>1, FS_AddElement
        <3>2. p = n \/ p = n + 1
            BY <2>2, <3>1 DEF n
        <3> HIDE DEF p
        <3> QED BY <2>1, <3>2
    <2>4. n * w + b.tokens <= m /\ m \in Nat
        <3>1. t \in 0 .. b.last
            BY <1>2
        <3>2. n * w + b.tokens <= m
            BY <3>1 DEF Fits
        <3>3. b.lim.burst * w \in Nat /\ (b.last - t) * b.lim.count \in Nat
            BY <1>1, <3>1
        <3> QED BY <3>2, <3>3
    <2> HIDE DEF n, p, m, w
    <2>5. p * w <= (n + 1) * w /\ (n + 1) * w = n * w + w /\ p * w \in Nat /\ n * w \in Nat
        BY <1>1, <2>1, <2>3
    <2>6. p * w + (b.tokens - w) <= m
        BY <1>1, <2>4, <2>5
    <2> QED BY <1>2, <2>6 DEF p, m, w
<1>5. Fits(S \union {x}, d)
    BY <1>3, <1>4 DEF Fits
<1> QED BY <1>2, <1>5 DEF d

\* The latest admission is the only one whose count is not settled yet.
LEMMA BoundedSpent ==
    ASSUME NEW S, IsFiniteSet(S), \A a \in S : a.at \in Nat,
           NEW b \in Bucket, NEW x, x.at = b.last, Bounded(S, b.lim), Fits(S \union {x}, b)
    PROVE  Bounded(S \union {x}, b.lim)
<1> DEFINE T == S \union {x}
           between(a, c) == {e \in T : a.at <= e.at /\ e.at <= c.at}
<1>1. /\ b.last \in Nat /\ b.tokens \in Nat
      /\ b.lim.count \in Nat /\ b.lim.window \in Nat /\ b.lim.burst \in Nat
    BY DEF Bucket, Limit
<1>2. \A a \in T : a.at \in Nat /\ a.at <= b.last
    BY <1>1 DEF Fits
<1>3. IsFiniteSet(T)
    BY FS_AddElement
<1>4. ASSUME NEW a \in T, NEW c \in T, a.at <= c.at
      PROVE  Cardinality(between(a, c)) * b.lim.window
                <= b.lim.burst * b.lim.window + (c.at - a.at) * b.lim.count
    <2>1. CASE c.at = b.last
        <3> DEFINE n == Cardinality(between(a, c))
                   p == Cardinality(Since(T, a.at))
                   w == b.lim.window
                   m == b.lim.burst * b.lim.window + (b.last - a.at) * b.lim.count
        <3>1. between(a, c) \subseteq Since(T, a.at) /\ IsFiniteSet(Since(T, a.at))
            BY <1>3, FS_Subset DEF Since
        <3>2. n \in Nat /\ p \in Nat /\ n <= p
            BY <3>1, FS_Subset, FS_CardinalityType
        <3>3. a.at \in 0 .. b.last
            BY <1>1, <1>2
        <3>4. p * w + b.tokens <= m
            BY <3>3 DEF Fits
        <3>5. m \in Nat
            BY <1>1, <3>3
        <3> HIDE DEF n, p, w, m
        <3>6. n * w <= p * w /\ n * w \in Nat /\ p * w \in Nat
            BY <1>1, <3>2 DEF w
        <3>7. n * w <= m
            BY <1>1, <3>4, <3>5, <3>6
        <3> QED BY <2>1, <3>7 DEF n, w, m
    <2>2. CASE c.at # b.last
        <3>1. c.at < b.last /\ a.at < b.last
            BY <1>1, <1>2, <1>4, <2>2
        <3>2. a \in S /\ c \in S
            BY <1>1, <3>1
        <3>3. between(a, c) = {e \in S : a.at <= e.at /\ e.at <= c.at}
            BY <1>1, <1>2, <3>1
        <3> QED BY <1>4, <3>2, <3>3 DEF Bounded
    <2> QED BY <2>1, <2>2
<1> QED BY <1>4 DEF Bounded

\* A limiter that is looked at accounts for what was admitted under its key: a new one
\* is made only where nothing was.
LEMMA OpensFacts ==
    ASSUME TypeOK, Registrations, Buckets, \A k \in Keys : Balanced(k) /\ OutOfRoom(k),
           NEW l \in Levels, NEW c \in Callers, NEW t \in Tools, NEW rs \in SUBSET Roles,
           Opens(l, c, t, rs)
    PROVE  /\ BucketAt(l, c, t, rs) \in Bucket /\ BucketAt(l, c, t, rs).last = now
           /\ Fits(admitted[Key(l, c, t)], BucketAt(l, c, t, rs))
           /\ Bounded(admitted[Key(l, c, t)], BucketAt(l, c, t, rs).lim)
<1> DEFINE k == Key(l, c, t)
<1>1. k \in Keys /\ k[1] = l /\ now \in Nat
    BY KeyFacts DEF TypeOK
<1>2. BucketAt(l, c, t, rs) \in Bucket /\ BucketAt(l, c, t, rs).last = now
    BY <1>1, BucketAtFacts DEF Opens
<1>3. IsFiniteSet(admitted[k]) /\ \A a \in admitted[k] : a.at \in Nat
    BY <1>1 DEF Buckets, TypeOK
<1>4. CASE bucket[k] # NoBucket
    <2>1. BucketAt(l, c, t, rs) = Refilled(bucket[k])
        BY <1>4 DEF BucketAt
    <2>2. bucket[k] \in Bucket /\ bucket[k].last <= now
        BY <1>1, <1>4 DEF Buckets
    <2>3. Fits(admitted[k], bucket[k]) /\ Bounded(admitted[k], bucket[k].lim)
        BY <1>1, <1>4 DEF Balanced
    <2>4. Refilled(bucket[k]).lim = bucket[k].lim
        BY <1>1, <2>2, RefilledFacts
    <2>5. Fits(admitted[k], Refilled(bucket[k]))
        BY <1>1, <1>3, <2>2, <2>3, FitsRefilled
    <2> QED BY <1>2, <2>1, <2>3, <2>4, <2>5
<1>5. CASE bucket[k] = NoBucket
    <2>1. LocalLimit(l, c, t, rs) \in Limit /\ (l = "tool" => Room(c))
        BY <1>5, LocalLimitFacts DEF Opens
    <2>2. BucketAt(l, c, t, rs) = Full(LocalLimit(l, c, t, rs))
        BY <1>5 DEF BucketAt
    <2>3. admitted[k] = {}
        <3> SUFFICES ASSUME admitted[k] # {} PROVE FALSE
            OBVIOUS
        <3>1. PICK d \in Callers, u \in Tools : k = Key("tool", d, u) /\ ~Room(d)
            BY <1>1, <1>5 DEF OutOfRoom
        <3>2. l = "tool"
            BY <1>1, <3>1, KeyFacts DEF Levels
        <3>3. d = c
            BY <3>1, <3>2 DEF Key
        <3> QED BY <2>1, <3>1, <3>2, <3>3
    <2>4. Full(LocalLimit(l, c, t, rs)).lim = LocalLimit(l, c, t, rs)
        BY <1>1, <2>1, FullFacts
    <2>5. Fits({}, Full(LocalLimit(l, c, t, rs))) /\ Bounded({}, LocalLimit(l, c, t, rs))
        BY <1>1, <2>1, FitsFull
    <2> QED BY <1>2, <2>2, <2>3, <2>4, <2>5
<1> QED BY <1>4, <1>5

\* Allow leaves the account of every limiter balanced, and makes none for a tool that
\* was admitted without.
LEMMA AllowStep ==
    ASSUME TypeOK, Registrations, Buckets, \A k \in Keys : Balanced(k) /\ OutOfRoom(k),
           NEW r \in Requests, AllowLocal(r)
    PROVE  Registrations' /\ Buckets' /\ \A k \in Keys : Balanced(k)' /\ OutOfRoom(k)'
<1>1. PICK c \in Callers, t \in Tools, rs \in SUBSET Roles :
        c = CallerOf[r] /\ t = ToolOf[r] /\ rs = roles[r]
    BY GatewayAssumption DEF TypeOK
<1>2. PICK passed \in SUBSET Levels, allowed \in BOOLEAN :
        /\ LocalAllow(c, t, rs, passed, allowed)
        /\ Admit(r, {Key(l, c, t) : l \in passed}, 0)
    BY <1>1 DEF AllowLocal, KeyOf
<1>3. now \in Nat /\ now' = now
    BY DEF TypeOK, AllowLocal
<1> DEFINE new == [by |-> r, at |-> now, stamp |-> 0]
           key(l) == Key(l, c, t)
           at(l) == BucketAt(l, c, t, rs)
<1>4. /\ registered' = [registered EXCEPT ![c] = Registration(c, rs)]
      /\ \A k \in Keys : (\A l \in Levels : k # key(l)) => bucket'[k] = bucket[k]
      /\ bucket' = [k \in Keys |-> bucket'[k]]
    BY <1>2, <1>3, LocalAllowFacts
<1>5. ASSUME NEW l \in Levels
      PROVE  \/ l \notin passed /\ bucket'[key(l)] = bucket[key(l)]
             \/ l \notin passed /\ Opens(l, c, t, rs) /\ bucket'[key(l)] = at(l)
             \/ /\ l \in passed /\ Opens(l, c, t, rs) /\ ~(at(l).tokens < at(l).lim.window)
                /\ bucket'[key(l)] = [at(l) EXCEPT !.tokens = @ - at(l).lim.window]
             \/ /\ l \in passed /\ l = "tool" /\ ~Room(c)
                /\ bucket[key(l)] = NoBucket /\ bucket'[key(l)] = NoBucket
    <2>1. Visits(l, c, t, rs, passed)
        BY <1>2, <1>3, LocalAllowFacts
    <2> QED BY <2>1 DEF Visits
<1>6. \A l \in Levels : key(l) \in Keys /\ \A m \in Levels : key(l) = key(m) => l = m
    BY KeyFacts
<1>7. \A k \in Keys : admitted'[k] = IF k \in {key(l) : l \in passed} THEN admitted[k] \union {new}
                                     ELSE admitted[k]
    BY <1>2 DEF Admit
<1> HIDE DEF new, key, at
<1>8. \A l \in Levels : admitted'[key(l)] = IF l \in passed THEN admitted[key(l)] \union {new}
                                            ELSE admitted[key(l)]
    BY <1>6, <1>7
<1>9. \A k \in Keys : (\A l \in Levels : k # key(l)) => admitted'[k] = admitted[k]
    BY <1>7
<1>10. \A k \in Keys : IsFiniteSet(admitted[k]) /\ \A a \in admitted[k] : a.at \in Nat
    BY DEF Buckets, TypeOK
<1>11. \A k \in Keys : IsFiniteSet(admitted'[k])
    <2> SUFFICES ASSUME NEW k \in Keys PROVE IsFiniteSet(admitted'[k])
        OBVIOUS
    <2>1. IsFiniteSet(admitted[k] \union {new})
        BY <1>10, FS_AddElement
    <2>2. admitted'[k] = admitted[k] \union {new} \/ admitted'[k] = admitted[k]
        BY <1>7
    <2> QED BY <1>10, <2>1, <2>2
<1>12. ASSUME NEW l \in Levels
       PROVE  /\ bucket'[key(l)] \in Bucket \union {NoBucket}
              /\ bucket[key(l)] # NoBucket => bucket'[key(l)] # NoBucket
              /\ bucket'[key(l)] # NoBucket =>
                    /\ bucket'[key(l)].last <= now
                    /\ Fits(admitted'[key(l)], bucket'[key(l)])
                    /\ Bounded(admitted'[key(l)], bucket'[key(l)].lim)
              /\ bucket'[key(l)] = NoBucket =>
                    admitted'[key(l)] = admitted[key(l)] \/ (l = "tool" /\ ~Room(c))
    <2>1. CASE l \notin passed /\ bucket'[key(l)] = bucket[key(l)]
        BY <1>6, <1>8, <2>1 DEF Buckets, Balanced
    <2>2. CASE l \notin passed /\ Opens(l, c, t, rs) /\ bucket'[key(l)] = at(l)
        <3>1. at(l) \in Bucket /\ at(l).last = now /\ Fits(admitted[key(l)], at(l))
              /\ Bounded(admitted[key(l)], at(l).lim)
            BY <2>2, OpensFacts DEF at, key
        <3>2. admitted'[key(l)] = admitted[key(l)]
            BY <1>8, <2>2
        <3>3. at(l) # NoBucket /\ at(l).last <= now
            BY <1>3, <3>1, LocalAssumption
        <3> QED BY <2>2, <3>1, <3>2, <3>3
    <2>3. CASE /\ l \in passed /\ Opens(l, c, t, rs) /\ ~(at(l).tokens < at(l).lim.window)
               /\ bucket'[key(l)] = [at(l) EXCEPT !.tokens = @ - at(l).lim.window]
        <3>1. PICK b \in Bucket : b = at(l) /\ b.last = now /\ Fits(admitted[key(l)], b)
                                  /\ Bounded(admitted[key(l)], b.lim)
            BY <2>3, OpensFacts DEF at, key
        <3>2. new.at = b.last
            BY <3>1 DEF new
        <3>3. PICK d : d = [b EXCEPT !.tokens = @ - b.lim.window]
            OBVIOUS
        <3>4. d \in Bucket /\ Fits(admitted[key(l)] \union {new}, d)
            BY <1>6, <1>10, <2>3, <3>1, <3>2, <3>3, FitsSpent
        <3>5. d.lim = b.lim /\ d.last = b.last
            BY <3>3 DEF Bucket
        <3>6. Bounded(admitted[key(l)] \union {new}, d.lim)
            BY <1>6, <1>10, <3>1, <3>2, <3>4, <3>5, BoundedSpent
        <3>7. bucket'[key(l)] = d
            BY <2>3, <3>1, <3>3
        <3>8. admitted'[key(l)] = admitted[key(l)] \union {new}
            BY <1>8, <2>3
        <3>9. d # NoBucket /\ d.last <= now
            BY <1>3, <3>1, <3>4, <3>5, LocalAssumption
        <3> QED BY <3>4, <3>6, <3>7, <3>8, <3>9
    <2>4. CASE /\ l \in passed /\ l = "tool" /\ ~Room(c)
               /\ bucket[key(l)] = NoBucket /\ bucket'[key(l)] = NoBucket
        BY <2>4
    <2> QED BY <1>5, <2>1, <2>2, <2>3, <2>4
<1>13. \A k \in Keys : bucket[k] # NoBucket => bucket'[k] # NoBucket
    BY <1>4, <1>12
<1>14. ASSUME NEW d \in Callers, ~Room(d) PROVE ~Room(d)'
    <2> DEFINE A == {u \in Tools : bucket[Key("tool", d, u)] # NoBucket}
               B == {u \in Tools : bucket'[Key("tool", d, u)] # NoBucket}
    <2>1. \A u \in Tools : Key("tool", d, u) \in Keys
        BY KeyFacts DEF Levels
    <2>2. A \subseteq B /\ B \subseteq Tools
        BY <1>13, <2>1
    <2>3. IsFiniteSet(B)
        BY <2>2, FS_Subset, LocalAssumption
    <2>4. Cardinality(A) \in Nat /\ Cardinality(B) \in Nat /\ Cardinality(A) <= Cardinality(B)
        BY <2>2, <2>3, FS_Subset, FS_CardinalityType
    <2>5. ~(Cardinality(A) < MaxTools)
        BY <1>14 DEF Room
    <2>6. ~(Cardinality(B) < MaxTools)
        BY <2>4, <2>5, LocalAssumption
    <2> QED BY <2>6 DEF Room
<1>15. Registrations'
    BY <1>4, RegistrationFacts DEF Registrations
<1>16. Buckets'
    <2>1. bucket' \in [Keys -> Bucket \union {NoBucket}]
        BY <1>4, <1>12 DEF Buckets
    <2>2. \A k \in Keys : bucket'[k] # NoBucket => bucket'[k].last <= now
        BY <1>4, <1>12 DEF Buckets
    <2> QED BY <1>3, <1>11, <2>1, <2>2 DEF Buckets
<1>17. ASSUME NEW k \in Keys PROVE Balanced(k)'
    <2>1. CASE \A l \in Levels : k # key(l)
        BY <1>4, <1>9, <2>1 DEF Balanced, key
    <2>2. ASSUME NEW l \in Levels, k = key(l) PROVE Balanced(k)'
        BY <1>12, <2>2 DEF Balanced
    <2> QED BY <2>1, <2>2
<1>18. ASSUME NEW k \in Keys PROVE OutOfRoom(k)'
    <2> SUFFICES ASSUME bucket'[k] = NoBucket, admitted'[k] # {}
                 PROVE  \E d \in Callers, u \in Tools : k = Key("tool", d, u) /\ ~Room(d)'
        BY DEF OutOfRoom
    <2>1. CASE admitted'[k] = admitted[k]
        <3>1. bucket[k] = NoBucket
            BY <1>13
        <3>2. PICK d \in Callers, u \in Tools : k = Key("tool", d, u) /\ ~Room(d)
            BY <2>1, <3>1 DEF OutOfRoom
        <3> QED BY <1>14, <3>2
    <2>2. ASSUME NEW l \in Levels, k = key(l), l = "tool", ~Room(c)
          PROVE  \E d \in Callers, u \in Tools : k = Key("tool", d, u) /\ ~Room(d)'
        BY <1>14, <2>2 DEF key
    <2> QED BY <1>9, <1>12, <2>1, <2>2
<1> QED BY <1>15, <1>16, <1>17, <1>18

\* Every other step leaves the buckets alone.
LEMMA LocalStep ==
    ASSUME IInv, [Next]_vars
    PROVE  Registrations' /\ Buckets' /\ LocalInv'
<1> USE DEF IInv
<1>1. UNCHANGED backend
    BY StepFrame DEF configVars
<1>2. ASSUME NEW r \in Requests, AllowLocal(r) PROVE Registrations' /\ Buckets' /\ LocalInv'
    <2>1. \A k \in Keys : Balanced(k) /\ OutOfRoom(k)
        BY <1>2 DEF AllowLocal, LocalInv
    <2> QED BY <1>2, <2>1, AllowStep DEF LocalInv
<1>3. ASSUME NEW r \in Requests, CheckLimit(r) PROVE Registrations' /\ Buckets' /\ LocalInv'
    <2>1. UNCHANGED <<registered, bucket, now>> /\ backend = "redis"
        BY <1>3 DEF CheckLimit, localVars, TypeOK
    <2>2. \A k \in Keys : IsFiniteSet(admitted'[k])
        <3>1. (\E ks, n : Admit(r, ks, n)) \/ UNCHANGED admitted
            BY <1>3 DEF CheckLimit
        <3>2. CASE UNCHANGED admitted
            BY <3>2 DEF Buckets
        <3>3. ASSUME NEW ks, NEW n, Admit(r, ks, n), NEW k \in Keys
              PROVE  IsFiniteSet(admitted'[k])
            <4> DEFINE a == [by |-> r, at |-> now, stamp |-> n]
            <4>1. admitted'[k] = IF k \in ks THEN admitted[k] \union {a} ELSE admitted[k]
                BY <3>3 DEF Admit
            <4> HIDE DEF a
            <4>2. IsFiniteSet(admitted[k]) /\ IsFiniteSet(admitted[k] \union {a})
                BY FS_AddElement DEF Buckets
            <4> QED BY <4>1, <4>2
        <3> QED BY <3>1, <3>2, <3>3
    <2> QED BY <1>1, <2>1, <2>2 DEF Registrations, Buckets, LocalInv
<1>4. ASSUME UNCHANGED <<registered, bucket, admitted>>, now' \in {now, now + 1}
      PROVE  Registrations' /\ Buckets' /\ LocalInv'
    <2>1. Registrations' /\ Buckets'
        BY <1>4 DEF Registrations, Buckets, TypeOK, Bucket
    <2>2. \A k \in Keys : (Balanced(k)' <=> Balanced(k)) /\ (OutOfRoom(k)' <=> OutOfRoom(k))
        BY <1>4 DEF Balanced, OutOfRoom, Room
    <2> QED BY <1>1, <2>1, <2>2 DEF LocalInv
<1>5. ASSUME NEW r \in Requests,
             \/ Route(r) \/ Refuse(r) \/ AllowRedis(r) \/ ReplyLost(r) \/ CheckFails(r)
             \/ Unlimited(r) \/ Forward(r)
      PROVE  UNCHANGED <<registered, bucket, admitted, now>>
    BY <1>5 DEF Route, Refuse, AllowRedis, ReplyLost, CheckFails, Unlimited, Forward, localVars
<1>6. ASSUME Tick PROVE UNCHANGED <<registered, bucket, admitted>> /\ now' = now + 1
    BY <1>6 DEF Tick, localVars
<1>7. ASSUME UNCHANGED vars PROVE UNCHANGED <<registered, bucket, admitted, now>>
    BY <1>7 DEF vars, localVars
<1> QED BY <1>2, <1>3, <1>4, <1>5, <1>6, <1>7 DEF Next, HandleToolsCall

-----------------------------------------------------------------------------
\* Init establishes the invariant and every step keeps it.
THEOREM Inductive == Spec => []IInv
<1>1. Init => IInv
    <2> SUFFICES ASSUME Init PROVE IInv
        OBVIOUS
    <2>1. TypeOK
        BY GatewayAssumption DEF Init, InitRedis, TypeOK, Levels
    <2>2. WindowsFinite
        BY FS_EmptySet DEF Init, InitRedis, WindowsFinite
    <2>3. RedisInv
        BY DEF Init, RedisInv, ExpiryTracks, StillCounted
    <2>4. Registrations /\ Buckets
        BY FS_EmptySet DEF Init, InitLocal, Registrations, Buckets
    <2>5. ClearedWasCounted
        BY DEF Init, ClearedWasCounted, Cleared, Levels
    <2>6. LocalInv
        BY DEF Init, InitLocal, LocalInv, Balanced, OutOfRoom
    <2> QED BY <2>1, <2>2, <2>3, <2>4, <2>5, <2>6 DEF IInv
<1>2. IInv /\ [Next]_vars => IInv'
    <2> SUFFICES ASSUME IInv, [Next]_vars PROVE IInv'
        OBVIOUS
    <2>1. TypeOK' /\ WindowsFinite' /\ RedisInv'
        BY TypeStep, RedisStep DEF IInv
    <2>2. Registrations' /\ Buckets' /\ LocalInv' /\ ClearedWasCounted'
        BY LocalStep, ClearedStep
    <2> QED BY <2>1, <2>2 DEF IInv
<1> QED BY <1>1, <1>2, PTL DEF Spec

\* TypeOK holds always: in particular no check of the limits outlasts the deadline
\* of RedisRateLimiter.Allow.
THEOREM TypeCorrect == Spec => []TypeOK
<1>1. IInv => TypeOK
    BY DEF IInv
<1> QED BY <1>1, Inductive, PTL

\* RedisRateLimiter keeps WindowBounded: a call is admitted only if the calls admitted
\* within the window, less delay and skew, make with it no more members of the sorted set
\* than the limit, however coarse the members are.
THEOREM LimitIsKept == Spec => WindowBounded
<1>1. ASSUME IInv, IInv', [Next]_vars, backend = "redis",
             NEW k \in Keys, NEW b \in admitted'[k] \ admitted[k]
      PROVE  Cardinality(LateMembers(k)') <= LimitAt(b.by, k[1]).count
    <2>1. PICK r \in Requests : CheckLimit(r)
        BY <1>1 DEF Next, HandleToolsCall, vars, Tick, Route, Refuse, AllowLocal,
                    AllowRedis, ReplyLost, CheckFails, Unlimited, Forward
    <2> DEFINE key == KeyOf(r, pc[r])
               lim == LimitAt(r, pc[r])
               kept == Kept(key, lim, stamp[r])
    <2>2. PICK allowed \in BOOLEAN :
            /\ slidingWindowScript(key, lim, stamp[r], allowed)
            /\ IF allowed THEN Admit(r, {key}, stamp[r]) ELSE UNCHANGED admitted
        BY <2>1 DEF CheckLimit
    <2>3. allowed
        BY <1>1, <2>2
    <2>4. key \in Keys /\ key[1] = pc[r] /\ lim \in Limit
        BY <1>1, <2>1, EffectiveIsOfKey, LimitsTyped DEF CheckLimit, IInv
    <2>5. k = key /\ b.by = r
        BY <1>1, <2>2, <2>3 DEF Admit
    <2>6. kept \subseteq window[key] /\ IsFiniteSet(window[key])
        BY <1>1, <2>4 DEF Kept, IInv, WindowsFinite
    <2>7. IsFiniteSet(kept) /\ Cardinality(kept) \in Nat
        BY <2>6, FS_Subset, FS_CardinalityType
    <2>8. Cardinality(kept) < lim.count
        BY <2>2, <2>3 DEF slidingWindowScript
    <2>9. window'[key] = Added(kept, stamp[r])
        BY <1>1, <2>2, <2>3, <2>4 DEF slidingWindowScript, IInv, TypeOK
    <2>10. /\ IsFiniteSet(window'[key])
           /\ Cardinality(window'[key]) \in Nat
           /\ Cardinality(window'[key]) <= Cardinality(kept) + 1
        BY <2>7, <2>9, AddedFacts
    <2> DEFINE member == [s \in window'[key] |-> Member(s)]
               members == {member[s] : s \in window'[key]}
    <2>11. LateMembers(k)' \subseteq members
        <3>1. backend' = "redis"
            BY <1>1, <2>1 DEF CheckLimit, configVars
        <3>2. StillCounted'
            BY <1>1, <3>1 DEF IInv, RedisInv
        <3>3. ASSUME NEW a \in admitted'[k], Late(k, a)' PROVE Member(a.stamp) \in members
            BY <2>5, <3>2, <3>3 DEF StillCounted, Holds
        <3> HIDE DEF members
        <3> QED BY <3>3 DEF Late, LateMembers
    <2>12. /\ IsFiniteSet(members)
           /\ Cardinality(members) <= Cardinality(window'[key])
        <3>1. member \in Surjection(window'[key], members)
            BY DEF Surjection
        <3> HIDE DEF member, members
        <3> QED BY <2>10, <3>1, FS_Surjection
    <2>13. /\ Cardinality(LateMembers(k)') \in Nat /\ Cardinality(members) \in Nat
           /\ Cardinality(LateMembers(k)') <= Cardinality(members)
        <3> HIDE DEF members
        <3> QED BY <2>11, <2>12, FS_Subset, FS_CardinalityType
    <2>14. Cardinality(LateMembers(k)') <= lim.count
        <3> HIDE DEF members
        <3> QED BY <2>4, <2>7, <2>8, <2>10, <2>12, <2>13 DEF Limit
    <2> QED BY <2>4, <2>5, <2>14
<1>2. IInv /\ IInv' /\ [Next]_vars
        => [backend = "redis" =>
              \A k \in Keys : \A b \in admitted'[k] \ admitted[k] :
                  Cardinality(LateMembers(k)') <= LimitAt(b.by, k[1]).count]_vars
    BY <1>1
<1> QED BY <1>2, Inductive, PTL DEF Spec, WindowBounded

\* ForwardedWasCounted: HandleToolsCall sends no call that a limiter has not counted at
\* every level that limits it, with either limiter and whatever fails between.
THEOREM NoWayAround == Spec => []ForwardedWasCounted
<1>1. IInv => ForwardedWasCounted
    <2> SUFFICES ASSUME IInv, NEW r \in Requests, pc[r] = "forward", NEW level \in Levels
                 PROVE  Counted(r, level)
        BY DEF ForwardedWasCounted, Counted
    <2>1. level \in Cleared(r)
        BY DEF Cleared, Levels
    <2> QED BY <2>1 DEF IInv, ClearedWasCounted
<1> QED BY <1>1, Inductive, PTL

\* BucketBounded: LocalRateLimiter admits, between any two admissions, at most the burst
\* and what was refilled meanwhile, for any limits, roles and number of tools.
THEOREM BurstIsKept == Spec => []BucketBounded
<1>1. IInv => BucketBounded
    BY DEF IInv, LocalInv, Balanced, Bounded, BucketBounded
<1> QED BY <1>1, Inductive, PTL
=============================================================================
