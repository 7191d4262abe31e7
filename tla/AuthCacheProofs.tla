-------------------------- MODULE AuthCacheProofs ---------------------------
(***************************************************************************)
(* The staleness of what a request is authenticated with, for any number   *)
(* of instances, requests, callers, keys and roles, any TTL, any number of *)
(* administrative writes, and whatever notifications are lost.             *)
(***************************************************************************)
EXTENDS AuthCache, TLAPS

KeyEntry == [caller : Callers, exp : Int, obj : Requests]
RoleEntry == [roles : SUBSET Roles, exp : Int]

\* The types of what the properties depend on; evictions and notifications may
\* be about anything.
Typed ==
    /\ now \in Nat
    /\ owner \in [Hashes -> Callers \union {None}]
    /\ roles \in [Callers -> SUBSET Roles]
    /\ lostKey \in [Hashes -> [Callers -> Int]]
    /\ lostRole \in [Callers -> [Roles -> Int]]
    /\ keyCache \in [Instances -> [Hashes -> KeyEntry \union {None}]]
    /\ index \in [Instances -> [Callers -> SUBSET Hashes]]
    /\ roleCache \in [Instances -> [Callers -> RoleEntry \union {None}]]
    /\ pc \in [Requests -> Locations]
    /\ inst \in [Requests -> Instances] /\ hash \in [Requests -> Hashes]
    /\ t0 \in [Requests -> Nat] /\ k0 \in [Requests -> Nat]
    /\ who \in [Requests -> Callers \union {None}]
    /\ obj \in [Requests -> Requests \union {None}]
    /\ fetched \in [Requests -> SUBSET Roles]
    /\ heap \in [Requests -> SUBSET Roles]

\* Losses are in the past, and a caller that is not in the table has no roles.
Past ==
    /\ \A h \in Hashes, c \in Callers : lostKey[h][c] <= now
    /\ \A c \in Callers, r \in Roles : lostRole[c][r] <= now
    /\ \A c \in Callers \ callers : roles[c] = {}

Early == {"new", "queryKey", "putKey"}
Bound == {"putKey", "roles", "queryRoles", "putRoles", "authenticated", "served"}

\* A request has a caller and a *Caller from the lookup of its key on, and its
\* two clocks are in order.
Clocks ==
    \A q \in Requests :
        /\ k0[q] <= now /\ t0[q] <= now
        /\ pc[q] \in Bound => who[q] \in Callers /\ obj[q] \in Requests
        /\ pc[q] \notin Bound => obj[q] = None
        /\ pc[q] \in {"queryKey", "putKey", "roles"} => t0[q] = k0[q]
        /\ pc[q] \in {"queryRoles", "putRoles", "authenticated"} => k0[q] <= t0[q]
        /\ pc[q] = "putKey" => obj[q] = q

\* A cached key was its caller's TTL before the entry expires, and one about to
\* be cached was since its lookup began.
KeysHeld ==
    /\ \A i \in Instances, h \in Hashes : keyCache[i][h] # None =>
            HeldKey(h, keyCache[i][h].caller) >= keyCache[i][h].exp - TTL
    /\ \A q \in Requests : pc[q] = "putKey" => HeldKey(hash[q], who[q]) >= t0[q]

\* The same for cached roles.
RolesHeld ==
    /\ \A i \in Instances, c \in Callers : roleCache[i][c] # None =>
            \A r \in roleCache[i][c].roles : HeldRole(c, r) >= roleCache[i][c].exp - TTL
    /\ \A q \in Requests : pc[q] = "putRoles" =>
            \A r \in fetched[q] : HeldRole(who[q], r) >= t0[q]

\* An entry expires at most TTL from now, and its *Caller is one that a request has
\* stored; entries with the same *Caller are about the same caller.
EntriesAgree ==
    \A i \in Instances, h \in Hashes : keyCache[i][h] # None =>
        /\ keyCache[i][h].exp <= now + TTL
        /\ pc[keyCache[i][h].obj] \notin Early
        /\ \A j \in Instances, g \in Hashes :
              keyCache[j][g] # None /\ keyCache[j][g].obj = keyCache[i][h].obj
                  => keyCache[j][g].caller = keyCache[i][h].caller

\* A request that has the *Caller of an entry is about the entry's caller, and
\* looked up its key at most TTL before the entry expires.
EntriesBind ==
    \A i \in Instances, h \in Hashes, q \in Requests :
        keyCache[i][h] # None /\ obj[q] = keyCache[i][h].obj =>
            who[q] = keyCache[i][h].caller /\ keyCache[i][h].exp <= k0[q] + TTL

\* Requests that share a *Caller are about one caller, and their key lookups are
\* at most TTL apart.
SharersAgree ==
    \A p, q \in Requests : obj[q] # None /\ obj[p] = obj[q] =>
        who[p] = who[q] /\ k0[p] <= k0[q] + TTL

\* Nobody else has the *Caller of a request that has not stored it.
Unshared == \A p, q \in Requests : obj[p] = q /\ p # q => pc[q] \notin Early

Shared == EntriesAgree /\ EntriesBind /\ SharersAgree /\ Unshared

IInv ==
    /\ Typed /\ Past /\ Clocks
    /\ IndexComplete
    /\ KeysHeld /\ KeyStalenessBounded
    /\ RolesHeld /\ RoleStalenessBounded
    /\ Shared /\ SharedCallerStaleness

-----------------------------------------------------------------------------
\* What an eviction does: entries go, none comes, and the index stays complete.
Shrinks ==
    /\ \A i \in Instances, h \in Hashes : keyCache'[i][h] \in {None, keyCache[i][h]}
    /\ \A i \in Instances, c \in Callers : roleCache'[i][c] \in {None, roleCache[i][c]}

\* Evicting the keys of a caller removes entries, of which the index keeps track.
LEMMA EvictKeysShrinks ==
    ASSUME Typed, NEW i \in Instances, NEW c, EvictKeys(i, c)
    PROVE  /\ keyCache' \in [Instances -> [Hashes -> KeyEntry \union {None}]]
           /\ index' \in [Instances -> [Callers -> SUBSET Hashes]]
           /\ \A j \in Instances, h \in Hashes : keyCache'[j][h] \in {None, keyCache[j][h]}
           /\ IndexComplete => IndexComplete'
<1> USE DEF Typed, EvictKeys
<1>1. keyCache' \in [Instances -> [Hashes -> KeyEntry \union {None}]]
    OBVIOUS
<1>2. index' \in [Instances -> [Callers -> SUBSET Hashes]]
    OBVIOUS
<1>3. \A j \in Instances, h \in Hashes : keyCache'[j][h] \in {None, keyCache[j][h]}
    OBVIOUS
<1>4. ASSUME IndexComplete, NEW j \in Instances, NEW h \in Hashes, keyCache'[j][h] # None
      PROVE  h \in index'[j][keyCache'[j][h].caller]
    <2>1. keyCache'[j][h] = keyCache[j][h] /\ keyCache[j][h] \in KeyEntry
        BY <1>3, <1>4
    <2>2. keyCache[j][h].caller \in Callers
        BY <2>1 DEF KeyEntry
    <2>3. h \in index[j][keyCache[j][h].caller]
        BY <1>4, <2>1 DEF IndexComplete
    <2>4. CASE j = i
        BY <1>4, <2>1, <2>2, <2>3, <2>4
    <2>5. CASE j # i
        BY <2>1, <2>2, <2>3, <2>5
    <2> QED BY <2>4, <2>5
<1> QED BY <1>1, <1>2, <1>3, <1>4 DEF IndexComplete

\* The same for roles, which have no index.
LEMMA EvictRolesShrinks ==
    ASSUME Typed, NEW i \in Instances, NEW c, EvictRoles(i, c)
    PROVE  /\ roleCache' \in [Instances -> [Callers -> RoleEntry \union {None}]]
           /\ \A j \in Instances, d \in Callers : roleCache'[j][d] \in {None, roleCache[j][d]}
BY DEF Typed, EvictRoles

\* The same for whichever kind an eviction is of.
LEMMA EvictShrinks ==
    ASSUME Typed, NEW i \in Instances, NEW kind, NEW c, Evict(i, kind, c)
    PROVE  /\ keyCache' \in [Instances -> [Hashes -> KeyEntry \union {None}]]
           /\ index' \in [Instances -> [Callers -> SUBSET Hashes]]
           /\ roleCache' \in [Instances -> [Callers -> RoleEntry \union {None}]]
           /\ Shrinks
           /\ IndexComplete => IndexComplete'
<1>1. CASE EvictKeys(i, c) /\ UNCHANGED roleCache
    BY <1>1, EvictKeysShrinks DEF Shrinks, Typed
<1>2. CASE EvictRoles(i, c) /\ UNCHANGED <<keyCache, index>>
    BY <1>2, EvictRolesShrinks DEF Shrinks, Typed, IndexComplete
<1> QED BY <1>1, <1>2 DEF Evict

\* The steps that neither serve a request nor write the database.
Eviction ==
    \/ \E i \in Instances : EvictAfterWrite(i) \/ Listener(i)
    \/ \E n \in Notes : Notify(n)

\* Evictions after a write, by a notification and by a flush touch the caches only.
LEMMA EvictionStep ==
    ASSUME Typed, IndexComplete, Eviction
    PROVE  /\ UNCHANGED <<now, dbVars, reqVars>>
           /\ Shrinks /\ Typed' /\ IndexComplete'
<1>1. ASSUME NEW i \in Instances, EvictAfterWrite(i)
      PROVE  UNCHANGED <<now, dbVars, reqVars>> /\ Shrinks /\ Typed' /\ IndexComplete'
    BY <1>1, EvictShrinks DEF EvictAfterWrite, Typed, dbVars, reqVars
<1>2. ASSUME NEW i \in Instances, NEW n \in Notes, HandleNotification(i, n)
      PROVE  UNCHANGED <<now, dbVars, reqVars>> /\ Shrinks /\ Typed' /\ IndexComplete'
    <2>1. UNCHANGED <<now, dbVars, reqVars>>
        BY <1>2 DEF HandleNotification
    <2>2. CASE EvictKeys(i, None) /\ EvictRoles(i, None)
        BY <2>1, <2>2, EvictKeysShrinks, EvictRolesShrinks DEF Shrinks, Typed, dbVars, reqVars
    <2>3. CASE Evict(i, n.kind, n.caller)
        BY <2>1, <2>3, EvictShrinks DEF Typed, dbVars, reqVars
    <2> QED BY <1>2, <2>2, <2>3 DEF HandleNotification
<1>3. CASE \E i \in Instances : ConnectionLost(i)
    BY <1>3 DEF ConnectionLost, Shrinks, Typed, dbVars, reqVars, cacheVars, IndexComplete
<1>4. CASE \E n \in Notes : Notify(n)
    BY <1>4 DEF Notify, Shrinks, Typed, dbVars, reqVars, cacheVars, IndexComplete
<1> QED BY <1>1, <1>2, <1>3, <1>4 DEF Eviction, Listener

-----------------------------------------------------------------------------
\* What a write does: what is held stays held until now, or is lost now.
HeldGrows ==
    /\ \A h \in Hashes, c \in Callers : HeldKey(h, c)' >= HeldKey(h, c)
    /\ \A c \in Callers, r \in Roles : HeldRole(c, r)' >= HeldRole(c, r)

\* A write that takes keys away does so now: until then they were held.
LEMMA LoseKeysFacts ==
    ASSUME Typed, Past, NEW H, LoseKeys(H), UNCHANGED now
    PROVE  /\ owner' \in [Hashes -> Callers \union {None}]
           /\ lostKey' \in [Hashes -> [Callers -> Int]]
           /\ \A h \in Hashes, c \in Callers :
                 lostKey'[h][c] <= now /\ HeldKey(h, c)' >= HeldKey(h, c)
<1>1. owner' \in [Hashes -> Callers \union {None}]
    BY DEF LoseKeys, Typed
<1>2. lostKey' \in [Hashes -> [Callers -> Int]]
    BY DEF LoseKeys, Typed
<1>3. ASSUME NEW h \in Hashes, NEW c \in Callers
      PROVE  lostKey'[h][c] <= now /\ HeldKey(h, c)' >= HeldKey(h, c)
    <2>1. lostKey[h][c] \in Int /\ lostKey[h][c] <= now /\ now \in Nat
        BY DEF Typed, Past
    <2>2. lostKey'[h][c] = IF h \in H /\ owner[h] = c THEN now ELSE lostKey[h][c]
        BY DEF LoseKeys
    <2>3. owner'[h] = IF h \in H THEN None ELSE owner[h]
        BY DEF LoseKeys
    <2> QED BY <2>1, <2>2, <2>3, CacheAssumption DEF HeldKey
<1> QED BY <1>1, <1>2, <1>3

\* The same for roles.
LEMMA LoseRolesFacts ==
    ASSUME Typed, Past, NEW c \in Callers, NEW R, LoseRoles(c, R), UNCHANGED now
    PROVE  /\ roles' \in [Callers -> SUBSET Roles]
           /\ lostRole' \in [Callers -> [Roles -> Int]]
           /\ \A d \in Callers, r \in Roles :
                 lostRole'[d][r] <= now /\ HeldRole(d, r)' >= HeldRole(d, r)
<1>1. roles' \in [Callers -> SUBSET Roles]
    BY DEF LoseRoles, Typed
<1>2. lostRole' \in [Callers -> [Roles -> Int]]
    BY DEF LoseRoles, Typed
<1>3. ASSUME NEW d \in Callers, NEW r \in Roles
      PROVE  lostRole'[d][r] <= now /\ HeldRole(d, r)' >= HeldRole(d, r)
    <2>1. lostRole[d][r] \in Int /\ lostRole[d][r] <= now /\ now \in Nat
        BY DEF Typed, Past
    <2>2. lostRole'[d][r] = IF d = c /\ r \in R THEN now ELSE lostRole[d][r]
        BY DEF LoseRoles, Typed
    <2>3. roles'[d] = IF d = c THEN roles[d] \ R ELSE roles[d]
        BY DEF LoseRoles, Typed
    <2> QED BY <2>1, <2>2, <2>3 DEF HeldRole
<1> QED BY <1>1, <1>2, <1>3

\* Writes leave the caches and the requests alone.
LEMMA WriteStep ==
    ASSUME Typed, Past, NEW i \in Instances, AdminWrite(i)
    PROVE  /\ UNCHANGED <<now, cacheVars, reqVars>>
           /\ HeldGrows /\ Typed' /\ Past'
<1> DEFINE Goal == UNCHANGED <<now, cacheVars, reqVars>> /\ HeldGrows /\ Typed' /\ Past'
<1>1. ASSUME NEW c \in Callers, AddCaller(i, c) PROVE Goal
    BY <1>1 DEF AddCaller, Committed, Typed, Past, HeldGrows, HeldKey, HeldRole, cacheVars, reqVars
<1>2. ASSUME NEW c \in Callers, DeleteCaller(i, c) PROVE Goal
    <2>1. UNCHANGED <<now, cacheVars, reqVars>> /\ callers' = callers \ {c}
        BY <1>2 DEF DeleteCaller, Committed
    <2>2. LoseKeys({h \in Hashes : owner[h] = c}) /\ LoseRoles(c, roles[c])
        BY <1>2 DEF DeleteCaller
    <2>3. \A d \in Callers \ callers' : roles'[d] = {}
        BY <2>1, <2>2 DEF LoseRoles, Typed, Past
    <2> QED BY <2>1, <2>2, <2>3, LoseKeysFacts, LoseRolesFacts
            DEF Typed, Past, HeldGrows, cacheVars, reqVars
<1>3. ASSUME NEW c \in Callers, EnsureCaller(i, c) PROVE Goal
    <2>1. UNCHANGED <<now, cacheVars, reqVars, owner, lostKey, lostRole>>
        BY <1>3 DEF EnsureCaller, Committed
    <2>2. callers' = callers \union {c}
        BY <1>3 DEF EnsureCaller
    <2>3. /\ roles' \in [Callers -> SUBSET Roles]
          /\ \A d \in Callers : roles[d] \subseteq roles'[d] /\ (d # c => roles'[d] = roles[d])
        BY <1>3 DEF EnsureCaller, Typed, Past
    <2> QED BY <2>1, <2>2, <2>3 DEF Typed, Past, HeldGrows, HeldKey, HeldRole, cacheVars, reqVars
<1>4. ASSUME NEW c \in Callers, NEW h \in Hashes, AddKey(i, c, h) PROVE Goal
    <2>1. UNCHANGED <<now, cacheVars, reqVars, callers, roles, lostKey, lostRole>>
        BY <1>4 DEF AddKey, Committed
    <2>2. /\ owner' \in [Hashes -> Callers \union {None}]
          /\ \A g \in Hashes : owner[g] # None => owner'[g] = owner[g]
        BY <1>4 DEF AddKey, Typed
    <2> QED BY <2>1, <2>2, CacheAssumption
            DEF Typed, Past, HeldGrows, HeldKey, HeldRole, cacheVars, reqVars
<1>5. ASSUME NEW c \in Callers, NEW r \in Roles, AssignRole(i, c, r) PROVE Goal
    <2>1. UNCHANGED <<now, cacheVars, reqVars, callers, owner, lostKey, lostRole>>
        BY <1>5 DEF AssignRole, Committed
    <2>2. /\ roles' \in [Callers -> SUBSET Roles]
          /\ \A d \in Callers : roles[d] \subseteq roles'[d] /\ (d \notin callers => roles'[d] = roles[d])
        BY <1>5 DEF AssignRole, Typed
    <2> QED BY <2>1, <2>2 DEF Typed, Past, HeldGrows, HeldKey, HeldRole, cacheVars, reqVars
<1>6. ASSUME NEW c \in Callers, NEW r \in Roles, UnassignRole(i, c, r) PROVE Goal
    <2>1. UNCHANGED <<now, cacheVars, reqVars, callers, owner, lostKey>>
        BY <1>6 DEF UnassignRole, Committed
    <2>2. LoseRoles(c, {r})
        BY <1>6 DEF UnassignRole
    <2>3. \A d \in Callers \ callers : roles'[d] = {}
        BY <2>2 DEF LoseRoles, Typed, Past
    <2> QED BY <2>1, <2>2, <2>3, LoseRolesFacts
            DEF Typed, Past, HeldGrows, HeldKey, cacheVars, reqVars
<1>7. ASSUME NEW h \in Hashes, RevokeKey(i, h) PROVE Goal
    <2>1. UNCHANGED <<now, cacheVars, reqVars, callers, roles, lostRole>>
        BY <1>7 DEF RevokeKey, Committed
    <2>2. LoseKeys({h})
        BY <1>7 DEF RevokeKey
    <2> QED BY <2>1, <2>2, LoseKeysFacts DEF Typed, Past, HeldGrows, HeldRole, cacheVars, reqVars
<1>8. CASE Flush(i)
    BY <1>8 DEF Flush, Committed, dbVars, Typed, Past, HeldGrows, HeldKey, HeldRole, cacheVars, reqVars
<1> QED BY <1>1, <1>2, <1>3, <1>4, <1>5, <1>6, <1>7, <1>8 DEF AdminWrite

-----------------------------------------------------------------------------
\* The steps of a request, which neither read a later clock nor write the database.
LEMMA RequestFrame ==
    ASSUME NEW q \in Requests, Authenticate(q)
    PROVE  UNCHANGED <<now, dbVars, inst, hash>>
BY DEF Authenticate, KeyHit, KeyMiss, QueryKey, QueryFails, PutKey, RolesHit, RolesMiss,
       QueryRoles, PutRoles, Serve, Finish, Return, Goto

\* What is held does not depend on requests.
LEMMA HeldUnchanged ==
    ASSUME UNCHANGED <<now, dbVars>>
    PROVE  /\ \A h, c : HeldKey(h, c)' = HeldKey(h, c)
           /\ \A c, r : HeldRole(c, r)' = HeldRole(c, r)
BY DEF dbVars, HeldKey, HeldRole

\* A request keeps the types and the order of its clocks.
LEMMA RequestTyped ==
    ASSUME Typed, Past, Clocks, NEW q \in Requests, Authenticate(q)
    PROVE  Typed' /\ Past' /\ Clocks'
<1> USE CacheAssumption
    DEF Typed, Clocks, Past, Locations, Bound, Goto, cacheVars, dbVars
<1>1. CASE KeyHit(q)
    <2> DEFINE e == keyCache[inst[q]][hash[q]]
    <2>1. e \in KeyEntry /\ e.caller \in Callers /\ e.obj \in Requests
        BY <1>1 DEF KeyHit, Live, KeyEntry
    <2> QED BY <1>1, <2>1 DEF KeyHit
<1>2. CASE KeyMiss(q)
    BY <1>2 DEF KeyMiss
<1>3. CASE QueryKey(q)
    BY <1>3 DEF QueryKey
<1>4. CASE QueryFails(q)
    BY <1>4 DEF QueryFails, Return
<1>5. CASE PutKey(q)
    <2> DEFINE e == [caller |-> who[q], exp |-> t0[q] + TTL, obj |-> obj[q]]
    <2>1. e \in KeyEntry
        BY <1>5 DEF PutKey, KeyEntry
    <2>2. /\ keyCache' \in [Instances -> [Hashes -> KeyEntry \union {None}]]
          /\ index' \in [Instances -> [Callers -> SUBSET Hashes]]
        BY <1>5, <2>1 DEF PutKey
    <2> QED BY <1>5, <2>2 DEF PutKey
<1>6. CASE RolesHit(q)
    <2> DEFINE e == roleCache[inst[q]][who[q]]
    <2>1. e \in RoleEntry /\ e.roles \subseteq Roles
        BY <1>6 DEF RolesHit, Live, RoleEntry
    <2> QED BY <1>6, <2>1 DEF RolesHit
<1>7. CASE RolesMiss(q)
    BY <1>7 DEF RolesMiss
<1>8. CASE QueryRoles(q)
    BY <1>8 DEF QueryRoles
<1>9. CASE PutRoles(q)
    <2> DEFINE e == [roles |-> fetched[q], exp |-> t0[q] + TTL]
    <2>1. e \in RoleEntry
        BY <1>9 DEF PutRoles, RoleEntry
    <2>2. roleCache' \in [Instances -> [Callers -> RoleEntry \union {None}]]
        BY <1>9, <2>1 DEF PutRoles
    <2> QED BY <1>9, <2>2 DEF PutRoles
<1>10. CASE Serve(q)
    BY <1>10 DEF Serve
<1>11. CASE Finish(q)
    BY <1>11 DEF Finish, Return
<1> QED BY <1>1, <1>2, <1>3, <1>4, <1>5, <1>6, <1>7, <1>8, <1>9, <1>10, <1>11
        DEF Authenticate

\* Only PutKey changes the cached keys and their index.
LEMMA KeyCacheFrame ==
    ASSUME NEW q \in Requests, Authenticate(q), ~PutKey(q)
    PROVE  UNCHANGED <<keyCache, index>>
BY DEF Authenticate, KeyHit, KeyMiss, QueryKey, QueryFails, RolesHit, RolesMiss,
       QueryRoles, PutRoles, Serve, Finish, Return, Goto, cacheVars

\* The entry PutKey adds.
LEMMA PutKeyEntry ==
    ASSUME Typed, Clocks, NEW q \in Requests, PutKey(q),
           NEW i \in Instances, NEW h \in Hashes
    PROVE  /\ i = inst[q] /\ h = hash[q] =>
                 /\ keyCache'[i][h].caller = who[q]
                 /\ keyCache'[i][h].exp = t0[q] + TTL
                 /\ keyCache'[i][h].obj = q
           /\ ~(i = inst[q] /\ h = hash[q]) => keyCache'[i][h] = keyCache[i][h]
<1>1. CASE i = inst[q] /\ h = hash[q]
    <2>1. keyCache'[i][h] = [caller |-> who[q], exp |-> t0[q] + TTL, obj |-> q]
        BY <1>1 DEF PutKey, Typed, Clocks
    <2> QED BY <1>1, <2>1
<1>2. CASE ~(i = inst[q] /\ h = hash[q])
    BY <1>2 DEF PutKey, Typed
<1> QED BY <1>1, <1>2

\* PutKey adds to the index what it adds to the cache.
LEMMA RequestIndex ==
    ASSUME Typed, Clocks, IndexComplete, NEW q \in Requests, Authenticate(q)
    PROVE  IndexComplete'
<1>1. CASE PutKey(q)
    <2> SUFFICES ASSUME NEW i \in Instances, NEW h \in Hashes, keyCache'[i][h] # None
                 PROVE  h \in index'[i][keyCache'[i][h].caller]
        BY DEF IndexComplete
    <2>2. who[q] \in Callers
        BY <1>1 DEF PutKey, Clocks, Bound
    <2>3. \A j \in Instances, c \in Callers :
              index'[j][c] = IF j = inst[q] /\ c = who[q] THEN index[j][c] \union {hash[q]}
                             ELSE index[j][c]
        BY <1>1, <2>2 DEF PutKey, Typed
    <2>4. CASE i = inst[q] /\ h = hash[q]
        <3>1. keyCache'[i][h].caller = who[q]
            BY <1>1, <2>4, PutKeyEntry
        <3> QED BY <2>2, <2>3, <2>4, <3>1
    <2>5. CASE ~(i = inst[q] /\ h = hash[q])
        <3>1. keyCache'[i][h] = keyCache[i][h]
            BY <1>1, <2>5, PutKeyEntry
        <3>2. keyCache[i][h].caller \in Callers
            BY <3>1 DEF Typed, KeyEntry
        <3>3. h \in index[i][keyCache[i][h].caller]
            BY <3>1 DEF IndexComplete
        <3> QED BY <2>3, <3>1, <3>2, <3>3
    <2> QED BY <2>4, <2>5
<1>2. CASE ~PutKey(q)
    BY <1>2, KeyCacheFrame DEF IndexComplete
<1> QED BY <1>1, <1>2

-----------------------------------------------------------------------------
\* The steps after which a request has a key, or roles, to be bound by the TTL.
LEMMA RequestKeys ==
    ASSUME Typed, Clocks, KeysHeld, KeyStalenessBounded, NEW q \in Requests, Authenticate(q)
    PROVE  KeysHeld' /\ KeyStalenessBounded'
<1> USE CacheAssumption
<1>1. /\ UNCHANGED <<now, dbVars, inst, hash>>
      /\ \A h, c : HeldKey(h, c)' = HeldKey(h, c)
    BY RequestFrame, HeldUnchanged
<1>2. ASSUME NEW i \in Instances, NEW h \in Hashes, keyCache'[i][h] # None
      PROVE  HeldKey(h, keyCache'[i][h].caller) >= keyCache'[i][h].exp - TTL
    <2>1. CASE PutKey(q) /\ i = inst[q] /\ h = hash[q]
        <3>1. keyCache'[i][h].caller = who[q] /\ keyCache'[i][h].exp = t0[q] + TTL
            BY <2>1, PutKeyEntry
        <3>2. HeldKey(hash[q], who[q]) >= t0[q]
            BY <2>1 DEF PutKey, KeysHeld
        <3> QED BY <2>1, <3>1, <3>2 DEF Typed
    <2>2. CASE ~(PutKey(q) /\ i = inst[q] /\ h = hash[q])
        <3>1. keyCache'[i][h] = keyCache[i][h]
            <4>1. CASE PutKey(q)
                BY <2>2, <4>1, PutKeyEntry
            <4>2. CASE ~PutKey(q)
                BY <4>2, KeyCacheFrame
            <4> QED BY <4>1, <4>2
        <3> QED BY <1>2, <3>1 DEF KeysHeld
    <2> QED BY <2>1, <2>2
<1>3. ASSUME NEW p \in Requests, pc'[p] = "putKey"
      PROVE  HeldKey(hash[p], who'[p]) >= t0'[p]
    <2>1. CASE QueryKey(q) /\ p = q
        BY <2>1 DEF QueryKey, HeldKey, Typed, Clocks
    <2>2. CASE ~(QueryKey(q) /\ p = q)
        <3>1. pc[p] = "putKey" /\ who'[p] = who[p] /\ t0'[p] = t0[p]
            BY <1>3, <2>2 DEF Typed, Authenticate, KeyHit, KeyMiss, QueryKey, QueryFails,
               PutKey, RolesHit, RolesMiss, QueryRoles, PutRoles, Serve, Finish, Return, Goto
        <3> QED BY <3>1 DEF KeysHeld
    <2> QED BY <2>1, <2>2
<1>4. ASSUME NEW p \in Requests, pc'[p] \in {"putKey", "roles"}
      PROVE  HeldKey(hash[p], who'[p]) >= t0'[p] - TTL
    <2>1. CASE KeyHit(q) /\ p = q
        <3> DEFINE e == keyCache[inst[q]][hash[q]]
        <3>1. e \in KeyEntry /\ e # None /\ now <= e.exp
            BY <2>1 DEF KeyHit, Live, Typed
        <3>2. HeldKey(hash[q], e.caller) >= e.exp - TTL
            BY <3>1 DEF KeysHeld, Typed
        <3>3. who'[q] = e.caller /\ t0'[q] = now
            BY <2>1 DEF KeyHit, Typed
        <3>4. HeldKey(hash[q], e.caller) \in Int
            BY <3>1 DEF HeldKey, Typed, KeyEntry
        <3> QED BY <2>1, <3>1, <3>2, <3>3, <3>4 DEF KeyEntry, Typed
    <2>2. CASE QueryKey(q) /\ p = q
        BY <2>2 DEF QueryKey, HeldKey, Typed, Clocks
    <2>3. CASE ~(KeyHit(q) /\ p = q) /\ ~(QueryKey(q) /\ p = q)
        <3>1. pc[p] \in {"putKey", "roles"} /\ who'[p] = who[p] /\ t0'[p] = t0[p]
            BY <1>4, <2>3 DEF Typed, Authenticate, KeyHit, KeyMiss, QueryKey, QueryFails,
               PutKey, RolesHit, RolesMiss, QueryRoles, PutRoles, Serve, Finish, Return, Goto
        <3> QED BY <3>1 DEF KeyStalenessBounded
    <2> QED BY <2>1, <2>2, <2>3
<1> QED BY <1>1, <1>2, <1>3, <1>4 DEF KeysHeld, KeyStalenessBounded

\* Only PutRoles changes the cached roles.
LEMMA RoleCacheFrame ==
    ASSUME NEW q \in Requests, Authenticate(q), ~PutRoles(q)
    PROVE  UNCHANGED roleCache
BY DEF Authenticate, KeyHit, KeyMiss, QueryKey, QueryFails, PutKey, RolesHit, RolesMiss,
       QueryRoles, Serve, Finish, Return, Goto, cacheVars

\* What a lookup of roles stores was true when its clock was read.
LEMMA RequestRoles ==
    ASSUME Typed, Clocks, RolesHeld, RoleStalenessBounded, NEW q \in Requests, Authenticate(q)
    PROVE  RolesHeld' /\ RoleStalenessBounded'
<1> USE CacheAssumption
<1>1. /\ UNCHANGED <<now, dbVars, inst, hash>>
      /\ \A c, r : HeldRole(c, r)' = HeldRole(c, r)
    BY RequestFrame, HeldUnchanged
<1>2. ASSUME NEW i \in Instances, NEW c \in Callers, roleCache'[i][c] # None,
             NEW r \in roleCache'[i][c].roles
      PROVE  HeldRole(c, r) >= roleCache'[i][c].exp - TTL
    <2>1. CASE PutRoles(q) /\ i = inst[q] /\ c = who[q]
        <3>1. roleCache'[i][c] = [roles |-> fetched[q], exp |-> t0[q] + TTL]
            BY <2>1 DEF PutRoles, Typed
        <3>2. HeldRole(c, r) >= t0[q]
            BY <2>1, <3>1 DEF PutRoles, RolesHeld
        <3> QED BY <2>1, <3>1, <3>2 DEF Typed
    <2>2. CASE ~(PutRoles(q) /\ i = inst[q] /\ c = who[q])
        <3>1. roleCache'[i][c] = roleCache[i][c]
            BY <2>2, RoleCacheFrame DEF PutRoles, Typed
        <3> QED BY <1>2, <3>1 DEF RolesHeld
    <2> QED BY <2>1, <2>2
<1>3. ASSUME NEW p \in Requests, pc'[p] = "putRoles", NEW r \in fetched'[p]
      PROVE  HeldRole(who'[p], r) >= t0'[p]
    <2>1. CASE QueryRoles(q) /\ p = q
        BY <2>1, <1>3 DEF QueryRoles, HeldRole, Typed, Clocks
    <2>2. CASE ~(QueryRoles(q) /\ p = q)
        <3>1. pc[p] = "putRoles" /\ who'[p] = who[p] /\ t0'[p] = t0[p] /\ fetched'[p] = fetched[p]
            BY <1>3, <2>2 DEF Typed, Authenticate, KeyHit, KeyMiss, QueryKey, QueryFails,
               PutKey, RolesHit, RolesMiss, QueryRoles, PutRoles, Serve, Finish, Return, Goto
        <3> QED BY <1>3, <3>1 DEF RolesHeld
    <2> QED BY <2>1, <2>2
<1>4. ASSUME NEW p \in Requests, pc'[p] \in {"putRoles", "authenticated"}, NEW r \in fetched'[p]
      PROVE  HeldRole(who'[p], r) >= t0'[p] - TTL
    <2>1. CASE RolesHit(q) /\ p = q
        <3> DEFINE e == roleCache[inst[q]][who[q]]
        <3>1. who[q] \in Callers
            BY <2>1 DEF RolesHit, Clocks, Bound
        <3>2. e \in RoleEntry /\ e # None /\ now <= e.exp
            BY <2>1, <3>1 DEF RolesHit, Live, Typed
        <3>3. fetched'[q] = e.roles /\ t0'[q] = now /\ who'[q] = who[q]
            BY <2>1 DEF RolesHit, Typed
        <3>4. HeldRole(who[q], r) >= e.exp - TTL
            BY <1>4, <2>1, <3>1, <3>2, <3>3 DEF RolesHeld, Typed
        <3>5. HeldRole(who[q], r) \in Int
            BY <1>4, <2>1, <3>1, <3>2, <3>3 DEF HeldRole, Typed, RoleEntry
        <3> QED BY <2>1, <3>2, <3>3, <3>4, <3>5 DEF RoleEntry, Typed
    <2>2. CASE QueryRoles(q) /\ p = q
        BY <1>4, <2>2 DEF QueryRoles, HeldRole, Typed, Clocks
    <2>3. CASE ~(RolesHit(q) /\ p = q) /\ ~(QueryRoles(q) /\ p = q)
        <3>1. /\ pc[p] \in {"putRoles", "authenticated"}
              /\ who'[p] = who[p] /\ t0'[p] = t0[p] /\ fetched'[p] = fetched[p]
            BY <1>4, <2>3 DEF Typed, Authenticate, KeyHit, KeyMiss, QueryKey, QueryFails,
               PutKey, RolesHit, RolesMiss, QueryRoles, PutRoles, Serve, Finish, Return, Goto
        <3> QED BY <1>4, <3>1 DEF RoleStalenessBounded
    <2> QED BY <2>1, <2>2, <2>3
<1> QED BY <1>1, <1>2, <1>3, <1>4 DEF RolesHeld, RoleStalenessBounded

-----------------------------------------------------------------------------
\* Whatever only drops entries and holders of a *Caller keeps the rest in agreement.
LEMMA SharedShrinks ==
    ASSUME Typed, Typed', Shared, now' >= now,
           \A i \in Instances, h \in Hashes : keyCache'[i][h] \in {None, keyCache[i][h]},
           \A p \in Requests : obj'[p] # None =>
               obj'[p] = obj[p] /\ who'[p] = who[p] /\ k0'[p] = k0[p],
           \A p \in Requests : pc'[p] \in Early => pc[p] \in Early
    PROVE  Shared'
<1> USE CacheAssumption
<1>1. ASSUME NEW i \in Instances, NEW h \in Hashes, keyCache'[i][h] # None
      PROVE  /\ keyCache[i][h] # None /\ keyCache'[i][h] = keyCache[i][h]
             /\ keyCache[i][h].obj \in Requests /\ keyCache[i][h].exp \in Int
    <2>1. keyCache'[i][h] = keyCache[i][h]
        BY <1>1
    <2>2. keyCache[i][h] \in KeyEntry
        BY <1>1, <2>1 DEF Typed
    <2> QED BY <1>1, <2>1, <2>2 DEF KeyEntry
<1>2. EntriesAgree'
    <2> SUFFICES ASSUME NEW i \in Instances, NEW h \in Hashes, keyCache'[i][h] # None
                 PROVE  /\ keyCache'[i][h].exp <= now' + TTL
                        /\ pc'[keyCache'[i][h].obj] \notin Early
                        /\ \A j \in Instances, g \in Hashes :
                              keyCache'[j][g] # None /\ keyCache'[j][g].obj = keyCache'[i][h].obj
                                  => keyCache'[j][g].caller = keyCache'[i][h].caller
        BY DEF EntriesAgree
    <2>1. keyCache'[i][h].exp <= now + TTL /\ now \in Nat /\ now' \in Nat
        BY <1>1 DEF Shared, EntriesAgree, Typed
    <2>2. pc'[keyCache'[i][h].obj] \notin Early
        BY <1>1 DEF Shared, EntriesAgree
    <2>3. \A j \in Instances, g \in Hashes :
              keyCache'[j][g] # None /\ keyCache'[j][g].obj = keyCache'[i][h].obj
                  => keyCache'[j][g].caller = keyCache'[i][h].caller
        BY <1>1 DEF Shared, EntriesAgree
    <2> QED BY <1>1, <2>1, <2>2, <2>3
<1>3. EntriesBind'
    BY <1>1 DEF Shared, EntriesBind
<1>4. SharersAgree'
    BY DEF Shared, SharersAgree
<1>5. Unshared'
    BY DEF Shared, Unshared
<1> QED BY <1>2, <1>3, <1>4, <1>5 DEF Shared

\* A hit: the request joins those that have the entry's *Caller.
LEMMA KeyHitShared ==
    ASSUME Typed, Clocks, Shared, NEW q \in Requests, KeyHit(q)
    PROVE  Shared'
<1> USE CacheAssumption
<1> DEFINE e == keyCache[inst[q]][hash[q]]
<1>1. e \in KeyEntry /\ e # None /\ now <= e.exp /\ e.obj \in Requests /\ e.exp \in Int
    BY DEF KeyHit, Live, Typed, KeyEntry
<1>2. /\ UNCHANGED <<keyCache, now>>
      /\ \A p \in Requests : obj'[p] = IF p = q THEN e.obj ELSE obj[p]
      /\ \A p \in Requests : who'[p] = IF p = q THEN e.caller ELSE who[p]
      /\ \A p \in Requests : k0'[p] = IF p = q THEN now ELSE k0[p]
      /\ \A p \in Requests : pc'[p] \in Early => pc[p] \in Early
    BY DEF KeyHit, Typed, Goto, cacheVars, Early
<1>3. /\ e.exp <= now + TTL /\ pc[e.obj] \notin Early
      /\ \A j \in Instances, g \in Hashes :
            keyCache[j][g] # None /\ keyCache[j][g].obj = e.obj => keyCache[j][g].caller = e.caller
    BY <1>1 DEF Shared, EntriesAgree, Typed
<1>4. \A p \in Requests : obj[p] = e.obj => who[p] = e.caller /\ e.exp <= k0[p] + TTL
    BY <1>1 DEF Shared, EntriesBind, Typed
<1>5. now \in Nat /\ TTL \in Nat /\ \A p \in Requests : k0[p] <= now /\ k0[p] \in Nat
    BY DEF Clocks, Typed
<1>6. EntriesAgree'
    BY <1>2 DEF Shared, EntriesAgree, Typed, KeyEntry
<1>7. ASSUME NEW i \in Instances, NEW h \in Hashes, keyCache[i][h] # None,
             NEW p \in Requests, obj'[p] = keyCache[i][h].obj
      PROVE  who'[p] = keyCache[i][h].caller /\ keyCache[i][h].exp <= k0'[p] + TTL
    <2>1. CASE p = q
        <3>1. keyCache[i][h].exp <= now + TTL
            BY <1>7 DEF Shared, EntriesAgree
        <3> QED BY <1>2, <1>3, <1>7, <2>1, <3>1
    <2>2. CASE p # q
        BY <1>2, <1>7, <2>2 DEF Shared, EntriesBind
    <2> QED BY <2>1, <2>2
<1>8. ASSUME NEW p \in Requests, NEW r \in Requests, obj'[r] # None, obj'[p] = obj'[r]
      PROVE  who'[p] = who'[r] /\ k0'[p] <= k0'[r] + TTL
    <2>1. CASE p = q /\ r # q
        BY <1>1, <1>2, <1>4, <1>5, <1>8, <2>1
    <2>2. CASE p # q /\ r = q
        BY <1>2, <1>4, <1>5, <1>8, <2>2
    <2>3. CASE p = q /\ r = q
        BY <1>2, <1>5, <2>3
    <2>4. CASE p # q /\ r # q
        BY <1>2, <1>8, <2>4 DEF Shared, SharersAgree
    <2> QED BY <2>1, <2>2, <2>3, <2>4
<1>9. Unshared'
    BY <1>2, <1>3 DEF Shared, Unshared
<1> QED BY <1>2, <1>6, <1>7, <1>8, <1>9 DEF Shared, EntriesBind, SharersAgree

\* A query makes a *Caller that nothing else has.
LEMMA QueryKeyShared ==
    ASSUME Typed, Clocks, Shared, NEW q \in Requests, QueryKey(q)
    PROVE  Shared'
<1> USE CacheAssumption
<1>1. /\ UNCHANGED <<keyCache, now, k0>>
      /\ \A p \in Requests : obj'[p] = IF p = q THEN q ELSE obj[p]
      /\ \A p \in Requests : p # q => who'[p] = who[p]
      /\ \A p \in Requests : pc'[p] \in Early <=> pc[p] \in Early
    BY DEF QueryKey, Typed, Goto, cacheVars, Early
<1>2. pc[q] \in Early
    BY DEF QueryKey, Early
<1>3. \A p \in Requests : p # q => obj[p] # q
    BY <1>2 DEF Shared, Unshared
<1>4. \A i \in Instances, h \in Hashes : keyCache[i][h] # None => keyCache[i][h].obj # q
    BY <1>2 DEF Shared, EntriesAgree
<1>5. \A p \in Requests : k0[p] \in Nat
    BY DEF Typed
<1>6. EntriesAgree'
    BY <1>1 DEF Shared, EntriesAgree, Typed, KeyEntry
<1>7. EntriesBind'
    BY <1>1, <1>4 DEF Shared, EntriesBind
<1>8. SharersAgree'
    BY <1>1, <1>3, <1>5 DEF Shared, SharersAgree
<1>9. Unshared'
    BY <1>1 DEF Shared, Unshared
<1> QED BY <1>6, <1>7, <1>8, <1>9 DEF Shared

\* The entry is the first one with its *Caller, and only the request that made it
\* has that.
LEMMA PutKeyShared ==
    ASSUME Typed, Clocks, Shared, NEW q \in Requests, PutKey(q)
    PROVE  Shared'
<1> USE CacheAssumption
<1>1. /\ UNCHANGED <<now, k0, obj, who>>
      /\ \A p \in Requests : pc'[p] \in Early <=> pc[p] \in Early /\ p # q
    BY DEF PutKey, Typed, Goto, Early
<1>2. pc[q] \in Early /\ obj[q] = q /\ t0[q] = k0[q] /\ who[q] \in Callers
    BY DEF PutKey, Early, Clocks, Bound
<1>3. \A p \in Requests : p # q => obj[p] # q
    BY <1>2 DEF Shared, Unshared
<1>4. \A i \in Instances, h \in Hashes : keyCache[i][h] # None => keyCache[i][h].obj # q
    BY <1>2 DEF Shared, EntriesAgree
<1>5. now \in Nat /\ TTL \in Nat /\ \A p \in Requests : k0[p] \in Nat /\ k0[p] <= now
    BY DEF Typed, Clocks
<1> DEFINE New(i, h) == i = inst[q] /\ h = hash[q]
<1>6. ASSUME NEW i \in Instances, NEW h \in Hashes, keyCache'[i][h] # None, ~New(i, h)
      PROVE  /\ keyCache'[i][h] = keyCache[i][h] /\ keyCache[i][h] # None
             /\ keyCache'[i][h].obj \in Requests \ {q}
    <2>1. keyCache'[i][h] = keyCache[i][h]
        BY <1>6, PutKeyEntry
    <2>2. keyCache[i][h] \in KeyEntry
        BY <1>6, <2>1 DEF Typed
    <2> QED BY <1>4, <1>6, <2>1, <2>2 DEF KeyEntry
<1>7. ASSUME NEW i \in Instances, NEW h \in Hashes, New(i, h)
      PROVE  /\ keyCache'[i][h].obj = q /\ keyCache'[i][h].caller = who[q]
             /\ keyCache'[i][h].exp = k0[q] + TTL
    BY <1>2, <1>7, PutKeyEntry
<1>8. EntriesAgree'
    <2> SUFFICES ASSUME NEW i \in Instances, NEW h \in Hashes, keyCache'[i][h] # None
                 PROVE  /\ keyCache'[i][h].exp <= now + TTL
                        /\ pc'[keyCache'[i][h].obj] \notin Early
                        /\ \A j \in Instances, g \in Hashes :
                              keyCache'[j][g] # None /\ keyCache'[j][g].obj = keyCache'[i][h].obj
                                  => keyCache'[j][g].caller = keyCache'[i][h].caller
        BY <1>1 DEF EntriesAgree
    <2>1. CASE New(i, h)
        BY <1>1, <1>5, <1>6, <1>7, <2>1
    <2>2. CASE ~New(i, h)
        BY <1>1, <1>6, <1>7, <2>2 DEF Shared, EntriesAgree
    <2> QED BY <2>1, <2>2
<1>9. EntriesBind'
    <2> SUFFICES ASSUME NEW i \in Instances, NEW h \in Hashes, NEW p \in Requests,
                        keyCache'[i][h] # None, obj[p] = keyCache'[i][h].obj
                 PROVE  who[p] = keyCache'[i][h].caller /\ keyCache'[i][h].exp <= k0[p] + TTL
        BY <1>1 DEF EntriesBind
    <2>1. CASE New(i, h)
        BY <1>3, <1>5, <1>7, <2>1
    <2>2. CASE ~New(i, h)
        BY <1>6, <2>2 DEF Shared, EntriesBind
    <2> QED BY <2>1, <2>2
<1>10. SharersAgree' /\ Unshared'
    BY <1>1 DEF Shared, SharersAgree, Unshared
<1> QED BY <1>8, <1>9, <1>10 DEF Shared

\* Every other step of a request keeps or drops its *Caller.
LEMMA RequestShared ==
    ASSUME Typed, Typed', Clocks, Shared, NEW q \in Requests, Authenticate(q)
    PROVE  Shared'
<1>1. CASE KeyHit(q) \/ QueryKey(q) \/ PutKey(q)
    BY <1>1, KeyHitShared, QueryKeyShared, PutKeyShared
<1>2. CASE ~KeyHit(q) /\ ~QueryKey(q) /\ ~PutKey(q)
    <2>1. UNCHANGED <<now, keyCache>>
        BY <1>2, RequestFrame, KeyCacheFrame
    <2>2. \A p \in Requests : pc'[p] \in Early => pc[p] \in Early
        BY <1>2 DEF Typed, Authenticate, KeyMiss, QueryFails, RolesHit, RolesMiss,
           QueryRoles, PutRoles, Serve, Finish, Return, Goto, Early
    <2>3. \A p \in Requests : obj'[p] # None =>
              obj'[p] = obj[p] /\ who'[p] = who[p] /\ k0'[p] = k0[p]
        <3>1. CASE KeyMiss(q)
            <4>1. obj[q] = None
                BY <3>1 DEF KeyMiss, Clocks, Bound
            <4> QED BY <3>1, <4>1 DEF Typed, KeyMiss
        <3>2. CASE ~KeyMiss(q)
            BY <1>2, <3>2 DEF Typed, Authenticate, QueryFails, RolesHit, RolesMiss,
               QueryRoles, PutRoles, Serve, Finish, Return, Goto
        <3> QED BY <3>1, <3>2
    <2>4. now' >= now
        BY <2>1 DEF Typed
    <2>5. \A i \in Instances, h \in Hashes : keyCache'[i][h] \in {None, keyCache[i][h]}
        BY <2>1
    <2> QED BY <2>2, <2>3, <2>4, <2>5, SharedShrinks
<1> QED BY <1>1, <1>2

\* The roles in a shared *Caller after a step of a request.
LEMMA RequestHeap ==
    ASSUME Typed, Clocks, Shared, RoleStalenessBounded, SharedCallerStaleness,
           NEW q \in Requests, Authenticate(q)
    PROVE  SharedCallerStaleness'
<1> USE CacheAssumption
<1>1. \A c, r : HeldRole(c, r)' = HeldRole(c, r)
    BY RequestFrame, HeldUnchanged
<1> SUFFICES ASSUME NEW p \in Requests, pc'[p] = "served", NEW r \in heap'[obj'[p]]
             PROVE  HeldRole(who'[p], r) >= k0'[p] - 2 * TTL
    BY <1>1 DEF SharedCallerStaleness
<1>2. CASE Serve(q)
    <2>1. /\ pc[q] = "authenticated" /\ obj[q] \in Requests /\ who[q] \in Callers
          /\ k0[q] <= t0[q] /\ k0[q] \in Nat /\ t0[q] \in Nat
        BY <1>2 DEF Serve, Clocks, Bound, Typed
    <2>2. /\ who'[p] = who[p] /\ k0'[p] = k0[p] /\ obj'[p] = obj[p]
          /\ p = q \/ pc[p] = "served"
        BY <1>2 DEF Serve, Goto, Typed
    <2>3. CASE obj[p] = obj[q]
        <3>1. r \in fetched[q]
            BY <1>2, <2>1, <2>2, <2>3 DEF Serve, Typed
        <3>2. HeldRole(who[q], r) >= t0[q] - TTL
            BY <2>1, <3>1 DEF RoleStalenessBounded
        <3>3. HeldRole(who[q], r) \in Int
            BY <2>1, <3>1 DEF HeldRole, Typed
        <3>4. who[p] = who[q] /\ k0[p] <= k0[q] + TTL /\ k0[p] \in Nat
            BY <2>1, <2>3 DEF Shared, SharersAgree, Typed
        <3> QED BY <2>1, <2>2, <3>2, <3>3, <3>4
    <2>4. CASE obj[p] # obj[q]
        <3>1. pc[p] = "served"
            BY <2>2, <2>4
        <3>2. heap'[obj[p]] = heap[obj[p]]
            BY <1>2, <2>4, <3>1 DEF Serve, Typed, Clocks, Bound
        <3> QED BY <2>2, <3>1, <3>2 DEF SharedCallerStaleness
    <2> QED BY <2>3, <2>4
<1>3. CASE ~Serve(q)
    <2>1. /\ pc[p] = "served" /\ who'[p] = who[p] /\ k0'[p] = k0[p] /\ obj'[p] = obj[p]
          /\ UNCHANGED heap
        BY <1>3 DEF Typed, Authenticate, KeyHit, KeyMiss, QueryKey, QueryFails, PutKey,
           RolesHit, RolesMiss, QueryRoles, PutRoles, Finish, Return, Goto
    <2> QED BY <2>1 DEF SharedCallerStaleness
<1> QED BY <1>2, <1>3

-----------------------------------------------------------------------------
\* When the clock advances, what is held is held until later.
LEMMA TickHeld ==
    ASSUME Typed, Past, Tick
    PROVE  HeldGrows
BY DEF Typed, Past, Tick, dbVars, HeldGrows, HeldKey, HeldRole

\* Steps that leave requests alone, drop entries and make nothing older.
LEMMA OtherStep ==
    ASSUME IInv, Typed', Shrinks, HeldGrows, now' \in Nat, now' >= now,
           UNCHANGED reqVars
    PROVE  /\ KeysHeld' /\ KeyStalenessBounded' /\ RolesHeld' /\ RoleStalenessBounded'
           /\ Shared' /\ SharedCallerStaleness' /\ Clocks'
<1> USE CacheAssumption DEF reqVars
<1>0. Typed /\ Clocks
    BY DEF IInv
<1>1. \A h \in Hashes, c \in Callers : HeldKey(h, c) \in Int /\ HeldKey(h, c)' \in Int
    BY <1>0 DEF Typed, HeldKey
<1>2. \A c \in Callers, r \in Roles : HeldRole(c, r) \in Int /\ HeldRole(c, r)' \in Int
    BY <1>0 DEF Typed, HeldRole
<1>3. Clocks'
    BY <1>0 DEF Clocks, Typed
<1>4. ASSUME NEW i \in Instances, NEW h \in Hashes, keyCache'[i][h] # None
      PROVE  /\ keyCache'[i][h] = keyCache[i][h] /\ keyCache[i][h] # None
             /\ keyCache[i][h].caller \in Callers /\ keyCache[i][h].exp \in Int
    <2>1. keyCache'[i][h] = keyCache[i][h]
        BY <1>4 DEF Shrinks
    <2>2. keyCache[i][h] \in KeyEntry
        BY <1>0, <1>4, <2>1 DEF Typed
    <2> QED BY <1>4, <2>1, <2>2 DEF KeyEntry
<1>5. ASSUME NEW i \in Instances, NEW c \in Callers, roleCache'[i][c] # None
      PROVE  /\ roleCache'[i][c] = roleCache[i][c] /\ roleCache[i][c] # None
             /\ roleCache[i][c].roles \subseteq Roles /\ roleCache[i][c].exp \in Int
    <2>1. roleCache'[i][c] = roleCache[i][c]
        BY <1>5 DEF Shrinks
    <2>2. roleCache[i][c] \in RoleEntry
        BY <1>0, <1>5, <2>1 DEF Typed
    <2> QED BY <1>5, <2>1, <2>2 DEF RoleEntry
<1>6. KeysHeld'
    <2>1. ASSUME NEW i \in Instances, NEW h \in Hashes, keyCache'[i][h] # None,
                 NEW c \in Callers, c = keyCache'[i][h].caller
          PROVE  HeldKey(h, c)' >= keyCache'[i][h].exp - TTL
        <3>1. HeldKey(h, c) >= keyCache'[i][h].exp - TTL
            BY <1>4, <2>1 DEF IInv, KeysHeld
        <3>2. HeldKey(h, c)' >= HeldKey(h, c)
            BY DEF HeldGrows
        <3> QED BY <1>1, <1>4, <2>1, <3>1, <3>2
    <2>2. ASSUME NEW q \in Requests, pc'[q] = "putKey", NEW c \in Callers, c = who[q]
          PROVE  HeldKey(hash[q], c)' >= t0[q]
        <3>1. HeldKey(hash[q], c) >= t0[q]
            BY <2>2 DEF IInv, KeysHeld
        <3>2. hash[q] \in Hashes /\ t0[q] \in Nat
            BY <1>0 DEF Typed
        <3> QED BY <1>1, <3>1, <3>2 DEF HeldGrows, HeldKey
    <2> QED BY <1>3, <1>4, <2>1, <2>2 DEF KeysHeld, HeldKey, Clocks, Bound
<1>7. KeyStalenessBounded'
    <2>1. ASSUME NEW q \in Requests, pc'[q] \in {"putKey", "roles"},
                 NEW c \in Callers, c = who[q]
          PROVE  HeldKey(hash[q], c)' >= t0[q] - TTL
        <3>1. HeldKey(hash[q], c) >= t0[q] - TTL
            BY <2>1 DEF IInv, KeyStalenessBounded
        <3>2. hash[q] \in Hashes /\ t0[q] \in Nat
            BY <1>0 DEF Typed
        <3> QED BY <1>1, <3>1, <3>2 DEF HeldGrows, HeldKey
    <2> QED BY <1>3, <2>1 DEF KeyStalenessBounded, HeldKey, Clocks, Bound
<1>8. RolesHeld'
    <2>1. ASSUME NEW i \in Instances, NEW c \in Callers, roleCache'[i][c] # None,
                 NEW r \in roleCache'[i][c].roles
          PROVE  HeldRole(c, r)' >= roleCache'[i][c].exp - TTL
        <3>1. HeldRole(c, r) >= roleCache'[i][c].exp - TTL
            BY <1>5, <2>1 DEF IInv, RolesHeld
        <3>2. r \in Roles
            BY <1>5, <2>1
        <3>3. HeldRole(c, r)' >= HeldRole(c, r)
            BY <3>2 DEF HeldGrows
        <3> QED BY <1>2, <1>5, <2>1, <3>1, <3>2, <3>3
    <2>2. ASSUME NEW q \in Requests, pc'[q] = "putRoles", NEW r \in fetched[q],
                 NEW c \in Callers, c = who[q]
          PROVE  HeldRole(c, r)' >= t0[q]
        <3>1. HeldRole(c, r) >= t0[q]
            BY <2>2 DEF IInv, RolesHeld
        <3>2. r \in Roles /\ t0[q] \in Nat
            BY <1>0 DEF Typed
        <3> QED BY <1>2, <3>1, <3>2 DEF HeldGrows
    <2> QED BY <1>3, <1>5, <2>1, <2>2 DEF RolesHeld, HeldRole, Clocks, Bound
<1>9. RoleStalenessBounded'
    <2>1. ASSUME NEW q \in Requests, pc'[q] \in {"putRoles", "authenticated"},
                 NEW r \in fetched[q], NEW c \in Callers, c = who[q]
          PROVE  HeldRole(c, r)' >= t0[q] - TTL
        <3>1. HeldRole(c, r) >= t0[q] - TTL
            BY <2>1 DEF IInv, RoleStalenessBounded
        <3>2. r \in Roles /\ t0[q] \in Nat
            BY <1>0 DEF Typed
        <3> QED BY <1>2, <3>1, <3>2 DEF HeldGrows
    <2> QED BY <1>3, <2>1 DEF RoleStalenessBounded, HeldRole, Clocks, Bound
<1>10. SharedCallerStaleness'
    <2>1. ASSUME NEW q \in Requests, pc'[q] = "served",
                 NEW r \in heap[obj[q]], NEW c \in Callers, c = who[q]
          PROVE  HeldRole(c, r)' >= k0[q] - 2 * TTL
        <3>1. HeldRole(c, r) >= k0[q] - 2 * TTL
            BY <2>1 DEF IInv, SharedCallerStaleness
        <3>2. obj[q] \in Requests
            BY <1>0, <2>1 DEF Clocks, Bound
        <3>3. r \in Roles /\ k0[q] \in Nat
            BY <1>0, <3>2 DEF Typed
        <3> QED BY <1>2, <3>1, <3>3 DEF HeldGrows
    <2> QED BY <1>3, <2>1 DEF SharedCallerStaleness, HeldRole, Clocks, Bound
<1>11. Shared'
    BY <1>0, SharedShrinks DEF IInv, Shrinks
<1> QED BY <1>3, <1>6, <1>7, <1>8, <1>9, <1>10, <1>11

-----------------------------------------------------------------------------
LEMMA InitIInv == Init => IInv
<1> SUFFICES ASSUME Init PROVE IInv
    OBVIOUS
<1> USE CacheAssumption DEF Init
<1>1. Typed
    BY DEF Typed, Locations, Never, KeyEntry, RoleEntry
<1>2. Past
    BY DEF Past, Never
<1>3. Clocks
    BY DEF Clocks, Bound
<1>4. /\ \A i \in Instances, h \in Hashes : keyCache[i][h] = None
      /\ \A i \in Instances, c \in Callers : roleCache[i][c] = None
      /\ \A q \in Requests : pc[q] = "new" /\ obj[q] = None
    OBVIOUS
<1>5. IndexComplete /\ KeysHeld /\ KeyStalenessBounded /\ RolesHeld /\ RoleStalenessBounded
    BY <1>4 DEF IndexComplete, KeysHeld, KeyStalenessBounded, RolesHeld, RoleStalenessBounded
<1>6. Shared /\ SharedCallerStaleness
    BY <1>4 DEF Shared, EntriesAgree, EntriesBind, SharersAgree, Unshared, SharedCallerStaleness
<1> QED BY <1>1, <1>2, <1>3, <1>5, <1>6 DEF IInv

\* Evictions, writes, the clock and the steps of a request keep the invariant.
LEMMA NextIInv == IInv /\ [Next]_vars => IInv'
<1> SUFFICES ASSUME IInv, [Next]_vars PROVE IInv'
    OBVIOUS
<1> USE CacheAssumption
<1>0. Typed /\ Past /\ Clocks /\ IndexComplete /\ Shared
    BY DEF IInv
<1>1. CASE Tick
    <2>1. now' = now + 1 /\ UNCHANGED <<dbVars, cacheVars, reqVars>>
        BY <1>1 DEF Tick
    <2>2. Typed' /\ Past' /\ IndexComplete' /\ Shrinks /\ now' \in Nat /\ now' >= now
        BY <1>0, <2>1 DEF Typed, Past, IndexComplete, Shrinks, dbVars, cacheVars, reqVars
    <2>3. HeldGrows
        BY <1>0, <1>1, TickHeld
    <2> QED BY <2>1, <2>2, <2>3, OtherStep DEF IInv
<1>2. ASSUME NEW q \in Requests, Authenticate(q) PROVE IInv'
    <2>1. Typed' /\ Past' /\ Clocks'
        BY <1>0, <1>2, RequestTyped
    <2>2. IndexComplete'
        BY <1>0, <1>2, RequestIndex
    <2>3. KeysHeld' /\ KeyStalenessBounded'
        BY <1>0, <1>2, RequestKeys DEF IInv
    <2>4. RolesHeld' /\ RoleStalenessBounded'
        BY <1>0, <1>2, RequestRoles DEF IInv
    <2>5. Shared'
        BY <1>0, <1>2, <2>1, RequestShared
    <2>6. SharedCallerStaleness'
        BY <1>0, <1>2, RequestHeap DEF IInv
    <2> QED BY <2>1, <2>2, <2>3, <2>4, <2>5, <2>6 DEF IInv
<1>3. ASSUME NEW i \in Instances, AdminWrite(i) PROVE IInv'
    <2>1. UNCHANGED <<now, cacheVars, reqVars>> /\ HeldGrows /\ Typed' /\ Past'
        BY <1>0, <1>3, WriteStep
    <2>2. IndexComplete' /\ Shrinks /\ now' \in Nat /\ now' >= now /\ UNCHANGED reqVars
        BY <1>0, <2>1 DEF IndexComplete, Shrinks, cacheVars, Typed
    <2> QED BY <2>1, <2>2, OtherStep DEF IInv
<1>4. CASE Eviction
    <2>1. UNCHANGED <<now, dbVars, reqVars>> /\ Shrinks /\ Typed' /\ IndexComplete'
        BY <1>0, <1>4, EvictionStep
    <2>2. Past' /\ now' \in Nat /\ now' >= now
        BY <1>0, <2>1 DEF Past, dbVars, Typed
    <2>3. HeldGrows
        BY <1>0, <2>1 DEF HeldGrows, HeldKey, HeldRole, dbVars, Typed
    <2> QED BY <2>1, <2>2, <2>3, OtherStep DEF IInv
<1>5. CASE UNCHANGED vars
    <2>1. UNCHANGED <<now, dbVars, cacheVars, reqVars>>
        BY <1>5 DEF vars, dbVars, cacheVars, reqVars
    <2>2. Typed' /\ Past' /\ IndexComplete' /\ Shrinks /\ now' \in Nat /\ now' >= now
        BY <1>0, <2>1 DEF Typed, Past, IndexComplete, Shrinks, dbVars, cacheVars, reqVars
    <2>3. HeldGrows
        BY <1>0, <2>1 DEF HeldGrows, HeldKey, HeldRole, dbVars, Typed
    <2> QED BY <2>1, <2>2, <2>3, OtherStep DEF IInv
<1> QED BY <1>1, <1>2, <1>3, <1>4, <1>5 DEF Next, Eviction

\* The invariant always holds.
LEMMA Inductive == Spec => []IInv
BY InitIInv, NextIInv, PTL DEF Spec

\* Whatever fills, writes, evictions and notifications interleave, every key an
\* instance has cached can be found through its reverse index, so evicting a
\* caller's keys leaves none behind.
THEOREM IndexIsComplete == Spec => []IndexComplete
<1>1. IInv => IndexComplete
    BY DEF IInv
<1> QED BY <1>1, Inductive, PTL

\* A request that got past LookupByKey presented a key that was its caller's at
\* most TTL before the lookup began, though every notification may be lost.
THEOREM KeyStaleness == Spec => []KeyStalenessBounded
<1>1. IInv => KeyStalenessBounded
    BY DEF IInv
<1> QED BY <1>1, Inductive, PTL

\* Each role RolesForCaller returned was its caller's at most TTL before the
\* lookup began.
THEOREM RoleStaleness == Spec => []RoleStalenessBounded
<1>1. IInv => RoleStalenessBounded
    BY DEF IInv
<1> QED BY <1>1, Inductive, PTL

\* The roles in the *Caller that requests with one key share and overwrite were its
\* caller's at most two TTLs before the key lookup of any request that reads them.
THEOREM SharedStaleness == Spec => []SharedCallerStaleness
<1>1. IInv => SharedCallerStaleness
    BY DEF IInv
<1> QED BY <1>1, Inductive, PTL

=============================================================================
