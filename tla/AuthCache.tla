----------------------------- MODULE AuthCache ------------------------------
(***************************************************************************)
(* API-key authentication through the caching store.                       *)
(*   internal/auth/store.go        the tables and their atomic statements  *)
(*   internal/auth/cached_store.go one cache per gateway instance          *)
(*   internal/auth/pg_notify.go    eviction messages between instances     *)
(*   internal/auth/auth.go         Authenticate, the reader of the caches  *)
(*                                                                         *)
(* A lookup reads its clock, looks into the cache under a read lock, reads *)
(* the database without any lock, and stores the result under a write      *)
(* lock.  A write commits first and evicts afterwards.  Each of these is a *)
(* step of its own, so fills, writes and evictions interleave.             *)
(***************************************************************************)
EXTENDS Integers, Sequences

CONSTANTS
    Instances,  \* gateway processes sharing the database
    Requests,   \* authenticated requests, each one Authenticate
    Callers,
    Hashes,     \* SHA-256 hashes of API keys
    Roles,
    TTL,        \* auth_cache_ttl in ticks (0 would mean no CachedStore at all)
    MaxTime,    \* bound on the clock
    MaxWrites,  \* bound on the number of administrative writes
    None        \* no caller, no cache entry

ASSUME CacheAssumption ==
    /\ TTL \in Nat \ {0}
    /\ MaxTime \in Nat
    /\ MaxWrites \in Nat
    /\ None \notin Callers /\ None \notin Requests
    /\ None \notin [caller : Callers, exp : Int, obj : Requests]
    /\ None \notin [roles : SUBSET Roles, exp : Int]

VARIABLES
    now,        \* the clock
    callers,    \* table callers
    owner,      \* table api_keys joined with callers: the caller of a key
    roles,      \* table caller_roles
    lostKey,    \* history: when a caller last ceased to own a key
    lostRole,   \* history: when a caller last ceased to have a role
    keyCache,   \* byKeyHash of each instance
    index,      \* reverseIndex of each instance
    roleCache,  \* rolesByName of each instance
    admin,      \* per instance, the write in progress: evictions still to do
    out,        \* notifications whose goroutine has not run yet
    inbox,      \* notifications on their way to an instance's listener
    writes,     \* number of writes so far
    pc,         \* where each request is in Authenticate
    inst,       \* the instance that serves the request
    hash,       \* the hash of the key it presents
    t0,         \* the clock its current lookup read on entry
    k0,         \* the clock its LookupByKey read on entry
    who,        \* the name in the *Caller it obtained
    obj,        \* that *Caller, named after the request whose query made it
    fetched,    \* the roles its RolesForCaller returned
    heap        \* the fields Roles and AllowedTools of each *Caller

dbVars == <<callers, owner, roles, lostKey, lostRole>>
cacheVars == <<keyCache, index, roleCache>>
notifyVars == <<out, inbox>>
reqVars == <<pc, inst, hash, t0, k0, who, obj, fetched, heap>>
vars == <<now, callers, owner, roles, lostKey, lostRole,
          keyCache, index, roleCache, admin, out, inbox, writes,
          pc, inst, hash, t0, k0, who, obj, fetched, heap>>

Never == -1
Notes == [kind : {"keys", "roles"}, caller : Callers]
            \union [kind : {"flush"}, caller : {None}]
Idle == [caller |-> None, left |-> <<>>, notes |-> {}]

Init ==
    /\ now = 0
    /\ callers \in SUBSET Callers
    /\ owner \in [Hashes -> callers \union {None}]
    /\ roles \in [Callers -> SUBSET Roles]
    /\ \A c \in Callers \ callers : roles[c] = {}
    /\ lostKey = [h \in Hashes |-> [c \in Callers |-> Never]]
    /\ lostRole = [c \in Callers |-> [r \in Roles |-> Never]]
    /\ keyCache = [i \in Instances |-> [h \in Hashes |-> None]]
    /\ index = [i \in Instances |-> [c \in Callers |-> {}]]
    /\ roleCache = [i \in Instances |-> [c \in Callers |-> None]]
    /\ admin = [i \in Instances |-> Idle]
    /\ out = {}
    /\ inbox = [i \in Instances |-> {}]
    /\ writes = 0
    /\ pc = [q \in Requests |-> "new"]
    /\ inst \in [Requests -> Instances]
    /\ hash \in [Requests -> Hashes]
    /\ t0 = [q \in Requests |-> 0]
    /\ k0 = [q \in Requests |-> 0]
    /\ who = [q \in Requests |-> None]
    /\ obj = [q \in Requests |-> None]
    /\ fetched = [q \in Requests |-> {}]
    /\ heap = [q \in Requests |-> {}]

Tick ==
    /\ now < MaxTime
    /\ now' = now + 1
    /\ UNCHANGED <<dbVars, cacheVars, admin, notifyVars, writes, reqVars>>

Goto(q, loc) == pc' = [pc EXCEPT ![q] = loc]

\* The request is over and its locals go out of scope.
Return(q, loc) ==
    /\ Goto(q, loc)
    /\ t0' = [t0 EXCEPT ![q] = 0]
    /\ k0' = [k0 EXCEPT ![q] = 0]
    /\ who' = [who EXCEPT ![q] = None]
    /\ obj' = [obj EXCEPT ![q] = None]
    /\ fetched' = [fetched EXCEPT ![q] = {}]

\* cachedEntry.expired is now.After(expiresAt).
Live(e) == e # None /\ now <= e.exp

-----------------------------------------------------------------------------
(* Authenticate: LookupByKey, RolesForCaller, then the assignments.        *)

\* Mutant of KeyHit: the expiry of the entry is not looked at.
KeyHitExpired(q) ==
    LET e == keyCache[inst[q]][hash[q]] IN
    /\ pc[q] = "new"
    /\ e # None
    /\ t0' = [t0 EXCEPT ![q] = now]
    /\ k0' = [k0 EXCEPT ![q] = now]
    /\ who' = [who EXCEPT ![q] = e.caller]
    /\ obj' = [obj EXCEPT ![q] = e.obj]
    /\ Goto(q, "roles")
    /\ UNCHANGED <<now, dbVars, cacheVars, admin, notifyVars, writes,
                   inst, hash, fetched, heap>>

\* LookupByKey finds a live entry: the cached *Caller itself is returned.
KeyHit(q) ==
    LET e == keyCache[inst[q]][hash[q]] IN
    /\ pc[q] = "new"
    /\ Live(e)
    /\ t0' = [t0 EXCEPT ![q] = now]
    /\ k0' = [k0 EXCEPT ![q] = now]
    /\ who' = [who EXCEPT ![q] = e.caller]
    /\ obj' = [obj EXCEPT ![q] = e.obj]
    /\ Goto(q, "roles")
    /\ UNCHANGED <<now, dbVars, cacheVars, admin, notifyVars, writes,
                   inst, hash, fetched, heap>>

KeyMiss(q) ==
    /\ pc[q] = "new"
    /\ ~Live(keyCache[inst[q]][hash[q]])
    /\ t0' = [t0 EXCEPT ![q] = now]
    /\ k0' = [k0 EXCEPT ![q] = now]
    /\ Goto(q, "queryKey")
    /\ UNCHANGED <<now, dbVars, cacheVars, admin, notifyVars, writes,
                   inst, hash, who, obj, fetched, heap>>

\* SQLiteStore.LookupByKey finds the key: a fresh *Caller.
QueryKey(q) ==
    /\ pc[q] = "queryKey"
    /\ owner[hash[q]] # None
    /\ Goto(q, "putKey")
    /\ who' = [who EXCEPT ![q] = owner[hash[q]]]
    /\ obj' = [obj EXCEPT ![q] = q]
    /\ UNCHANGED <<now, dbVars, cacheVars, admin, notifyVars, writes,
                   inst, hash, t0, k0, fetched, heap>>

\* No such key, or the query fails: either way nothing is cached and
\* Authenticate returns an error.
QueryFails(q) ==
    /\ pc[q] \in {"queryKey", "queryRoles"}
    /\ Return(q, "denied")
    /\ UNCHANGED <<now, dbVars, cacheVars, admin, notifyVars, writes,
                   inst, hash, heap>>

\* Mutant of PutKey: the entry's lifetime starts when it is stored.
PutKeyLate(q) ==
    /\ pc[q] = "putKey"
    /\ keyCache' = [keyCache EXCEPT ![inst[q]][hash[q]] =
                       [caller |-> who[q], exp |-> now + TTL, obj |-> obj[q]]]
    /\ index' = [index EXCEPT ![inst[q]][who[q]] = @ \union {hash[q]}]
    /\ Goto(q, "roles")
    /\ UNCHANGED <<now, dbVars, roleCache, admin, notifyVars, writes,
                   inst, hash, t0, k0, who, obj, fetched, heap>>

\* Mutant of PutKey: the reverse index is not maintained.
PutKeyNoIndex(q) ==
    /\ pc[q] = "putKey"
    /\ keyCache' = [keyCache EXCEPT ![inst[q]][hash[q]] =
                       [caller |-> who[q], exp |-> t0[q] + TTL, obj |-> obj[q]]]
    /\ Goto(q, "roles")
    /\ UNCHANGED <<now, dbVars, index, roleCache, admin, notifyVars, writes,
                   inst, hash, t0, k0, who, obj, fetched, heap>>

\* The entry expires TTL after the lookup began, not after the read.
PutKey(q) ==
    /\ pc[q] = "putKey"
    /\ keyCache' = [keyCache EXCEPT ![inst[q]][hash[q]] =
                       [caller |-> who[q], exp |-> t0[q] + TTL, obj |-> obj[q]]]
    /\ index' = [index EXCEPT ![inst[q]][who[q]] = @ \union {hash[q]}]
    /\ Goto(q, "roles")
    /\ UNCHANGED <<now, dbVars, roleCache, admin, notifyVars, writes,
                   inst, hash, t0, k0, who, obj, fetched, heap>>

\* RolesForCaller returns a copy of a live entry.
RolesHit(q) ==
    LET e == roleCache[inst[q]][who[q]] IN
    /\ pc[q] = "roles"
    /\ Live(e)
    /\ t0' = [t0 EXCEPT ![q] = now]
    /\ fetched' = [fetched EXCEPT ![q] = e.roles]
    /\ Goto(q, "authenticated")
    /\ UNCHANGED <<now, dbVars, cacheVars, admin, notifyVars, writes,
                   inst, hash, k0, who, obj, heap>>

RolesMiss(q) ==
    /\ pc[q] = "roles"
    /\ ~Live(roleCache[inst[q]][who[q]])
    /\ t0' = [t0 EXCEPT ![q] = now]
    /\ Goto(q, "queryRoles")
    /\ UNCHANGED <<now, dbVars, cacheVars, admin, notifyVars, writes,
                   inst, hash, k0, who, obj, fetched, heap>>

QueryRoles(q) ==
    /\ pc[q] = "queryRoles"
    /\ fetched' = [fetched EXCEPT ![q] = roles[who[q]]]
    /\ Goto(q, "putRoles")
    /\ UNCHANGED <<now, dbVars, cacheVars, admin, notifyVars, writes,
                   inst, hash, t0, k0, who, obj, heap>>

\* Mutant of PutRoles: the entry's lifetime starts when it is stored.
PutRolesLate(q) ==
    /\ pc[q] = "putRoles"
    /\ roleCache' = [roleCache EXCEPT ![inst[q]][who[q]] =
                        [roles |-> fetched[q], exp |-> now + TTL]]
    /\ Goto(q, "authenticated")
    /\ UNCHANGED <<now, dbVars, keyCache, index, admin, notifyVars, writes,
                   inst, hash, t0, k0, who, obj, fetched, heap>>

PutRoles(q) ==
    /\ pc[q] = "putRoles"
    /\ roleCache' = [roleCache EXCEPT ![inst[q]][who[q]] =
                        [roles |-> fetched[q], exp |-> t0[q] + TTL]]
    /\ Goto(q, "authenticated")
    /\ UNCHANGED <<now, dbVars, keyCache, index, admin, notifyVars, writes,
                   inst, hash, t0, k0, who, obj, fetched, heap>>

\* The two assignments to the *Caller, which the cache and every request that
\* hit it share; the request goes on to be served.
Serve(q) ==
    /\ pc[q] = "authenticated"
    /\ Goto(q, "served")
    /\ heap' = [heap EXCEPT ![obj[q]] = fetched[q]]
    /\ t0' = [t0 EXCEPT ![q] = 0]
    /\ fetched' = [fetched EXCEPT ![q] = {}]
    /\ UNCHANGED <<now, dbVars, cacheVars, admin, notifyVars, writes,
                   inst, hash, k0, who, obj>>

\* CanAccessTool and UpstreamToken have read the *Caller; the response is out.
Finish(q) ==
    /\ pc[q] = "served"
    /\ Return(q, "done")
    /\ UNCHANGED <<now, dbVars, cacheVars, admin, notifyVars, writes,
                   inst, hash, heap>>

-----------------------------------------------------------------------------
(* Writes: the statement commits, then the instance evicts its own entries *)
(* and starts the notifications.  Operations that fail change nothing.     *)

\* The inner store's statement succeeded on instance i; evictions of these
\* kinds and these notifications follow.
Committed(i, c, kinds, notes) ==
    /\ admin[i] = Idle
    /\ writes < MaxWrites
    /\ writes' = writes + 1
    /\ admin' = [admin EXCEPT ![i] = [caller |-> c, left |-> kinds, notes |-> notes]]
    /\ UNCHANGED <<now, cacheVars, notifyVars, reqVars>>

\* Keys in H leave the table at this instant.
LoseKeys(H) ==
    /\ owner' = [h \in Hashes |-> IF h \in H THEN None ELSE owner[h]]
    /\ lostKey' = [h \in Hashes |-> [c \in Callers |->
                      IF h \in H /\ owner[h] = c THEN now ELSE lostKey[h][c]]]

LoseRoles(c, R) ==
    /\ roles' = [roles EXCEPT ![c] = @ \ R]
    /\ lostRole' = [lostRole EXCEPT ![c] =
                       [r \in Roles |-> IF r \in R THEN now ELSE @[r]]]

AddCaller(i, c) ==
    /\ c \notin callers
    /\ callers' = callers \union {c}
    /\ Committed(i, None, <<>>, {})
    /\ UNCHANGED <<owner, roles, lostKey, lostRole>>

AddKey(i, c, h) ==
    /\ c \in callers
    /\ owner[h] = None
    /\ owner' = [owner EXCEPT ![h] = c]
    /\ Committed(i, None, <<>>, {})
    /\ UNCHANGED <<callers, roles, lostKey, lostRole>>

\* The cascade takes the caller's keys and roles with it.
DeleteCaller(i, c) ==
    /\ c \in callers
    /\ callers' = callers \ {c}
    /\ LoseKeys({h \in Hashes : owner[h] = c})
    /\ LoseRoles(c, roles[c])
    /\ Committed(i, c, <<"keys", "roles">>,
                 {[kind |-> "keys", caller |-> c], [kind |-> "roles", caller |-> c]})

\* RevokeKey by label or DeleteKey by id: one of the caller's keys goes.
RevokeKey(i, h) ==
    /\ owner[h] # None
    /\ LoseKeys({h})
    /\ Committed(i, owner[h], <<"keys">>, {[kind |-> "keys", caller |-> owner[h]]})
    /\ UNCHANGED <<callers, roles, lostRole>>

AssignRole(i, c, r) ==
    /\ c \in callers
    /\ roles' = [roles EXCEPT ![c] = @ \union {r}]
    /\ Committed(i, c, <<"roles">>, {[kind |-> "roles", caller |-> c]})
    /\ UNCHANGED <<callers, owner, lostKey, lostRole>>

UnassignRole(i, c, r) ==
    /\ c \in callers
    /\ r \in roles[c]
    /\ LoseRoles(c, {r})
    /\ Committed(i, c, <<"roles">>, {[kind |-> "roles", caller |-> c]})
    /\ UNCHANGED <<callers, owner, lostKey>>

\* An OIDC login with auto_provision: a new caller gets the default roles, an
\* existing one is left alone, and the cached roles go in both cases.
EnsureCaller(i, c) ==
    /\ callers' = callers \union {c}
    /\ IF c \in callers
       THEN UNCHANGED roles
       ELSE \E defaultRoles \in SUBSET Roles : roles' = [roles EXCEPT ![c] = defaultRoles]
    /\ Committed(i, c, <<"roles">>, {[kind |-> "roles", caller |-> c]})
    /\ UNCHANGED <<owner, lostKey, lostRole>>

\* Flush writes nothing: the caller None stands for every caller.
Flush(i) ==
    /\ Committed(i, None, <<"keys", "roles">>, {[kind |-> "flush", caller |-> None]})
    /\ UNCHANGED dbVars

-----------------------------------------------------------------------------
(* Evictions                                                               *)

\* evictKeysForCaller through the reverse index, or the key half of flushLocal.
EvictKeys(i, c) ==
    /\ keyCache' = [keyCache EXCEPT ![i] = [h \in Hashes |->
                      IF c = None \/ h \in index[i][c] THEN None ELSE @[h]]]
    /\ index' = [index EXCEPT ![i] = [d \in Callers |->
                      IF c \in {None, d} THEN {} ELSE @[d]]]

EvictRoles(i, c) ==
    roleCache' = [roleCache EXCEPT ![i] = [d \in Callers |->
                      IF c \in {None, d} THEN None ELSE @[d]]]

Evict(i, kind, c) ==
    \/ kind = "keys" /\ EvictKeys(i, c) /\ UNCHANGED roleCache
    \/ kind = "roles" /\ EvictRoles(i, c) /\ UNCHANGED <<keyCache, index>>

\* The next eviction of the write in progress; after the last one the
\* notification goroutines start and the operation returns.
EvictAfterWrite(i) ==
    /\ admin[i].left # <<>>
    /\ Evict(i, Head(admin[i].left), admin[i].caller)
    /\ IF Tail(admin[i].left) = <<>>
       THEN /\ admin' = [admin EXCEPT ![i] = Idle]
            /\ out' = out \union admin[i].notes
       ELSE /\ admin' = [admin EXCEPT ![i].left = Tail(@)]
            /\ UNCHANGED out
    /\ UNCHANGED <<now, dbVars, inbox, writes, reqVars>>

\* NotifyFunc.  Postgres hands the message to the sessions that listen at this
\* moment; an instance between two listenLoops misses it, and when the send
\* fails, which is only logged, every instance does.
Notify(n) ==
    /\ n \in out
    /\ out' = out \ {n}
    /\ \E up \in SUBSET Instances :
          inbox' = [i \in Instances |-> IF i \in up THEN inbox[i] \union {n} ELSE inbox[i]]
    /\ UNCHANGED <<now, dbVars, cacheVars, admin, writes, reqVars>>

\* handleNotification.  flushLocal takes its two locks one after the other; the
\* listener does nothing else in between, so one step stands for both.
HandleNotification(i, n) ==
    /\ n \in inbox[i]
    /\ inbox' = [inbox EXCEPT ![i] = @ \ {n}]
    /\ IF n.kind = "flush"
       THEN EvictKeys(i, None) /\ EvictRoles(i, None)
       ELSE Evict(i, n.kind, n.caller)
    /\ UNCHANGED <<now, dbVars, admin, out, writes, reqVars>>

\* WaitForNotification fails: what was under way is lost.  The next listenLoop
\* keeps the cache as it is.
ConnectionLost(i) ==
    /\ inbox[i] # {}
    /\ inbox' = [inbox EXCEPT ![i] = {}]
    /\ UNCHANGED <<now, dbVars, cacheVars, admin, out, writes, reqVars>>

-----------------------------------------------------------------------------
Authenticate(q) ==
    \/ KeyHit(q) \/ KeyMiss(q) \/ QueryKey(q) \/ QueryFails(q) \/ PutKey(q)
    \/ RolesHit(q) \/ RolesMiss(q) \/ QueryRoles(q) \/ PutRoles(q) \/ Serve(q)
    \/ Finish(q)

AdminWrite(i) ==
    \/ \E c \in Callers :
          \/ AddCaller(i, c) \/ DeleteCaller(i, c) \/ EnsureCaller(i, c)
          \/ \E h \in Hashes : AddKey(i, c, h)
          \/ \E r \in Roles : AssignRole(i, c, r) \/ UnassignRole(i, c, r)
    \/ \E h \in Hashes : RevokeKey(i, h)
    \/ Flush(i)

Listener(i) ==
    \/ \E n \in Notes : HandleNotification(i, n)
    \/ ConnectionLost(i)

Next ==
    \/ Tick
    \/ \E q \in Requests : Authenticate(q)
    \/ \E i \in Instances : AdminWrite(i) \/ EvictAfterWrite(i) \/ Listener(i)
    \/ \E n \in Notes : Notify(n)

Spec == Init /\ [][Next]_vars

-----------------------------------------------------------------------------
(* Properties                                                              *)

Locations == {"new", "queryKey", "putKey", "roles", "queryRoles", "putRoles",
              "authenticated", "served", "done", "denied"}

\* Eviction by caller is complete: every cached key can be reached through the
\* reverse index of the caller it is cached for.
IndexComplete ==
    \A i \in Instances, h \in Hashes :
        keyCache[i][h] # None => h \in index[i][keyCache[i][h].caller]

\* The last instant at which h was a key of c, and at which c had role r.
HeldKey(h, c) == IF owner[h] = c THEN now ELSE lostKey[h][c]
HeldRole(c, r) == IF r \in roles[c] THEN now ELSE lostRole[c][r]

\* Staleness of identity is bounded by the TTL whatever notifications are lost
\* and however fills and evictions interleave: a request that got past
\* LookupByKey presented a key that belonged to its caller at most TTL before
\* that lookup began.
KeyStalenessBounded ==
    \A q \in Requests :
        pc[q] \in {"putKey", "roles"} => HeldKey(hash[q], who[q]) >= t0[q] - TTL

\* The same for each role RolesForCaller returned to it.
RoleStalenessBounded ==
    \A q \in Requests :
        pc[q] \in {"putRoles", "authenticated"} =>
            \A r \in fetched[q] : HeldRole(who[q], r) >= t0[q] - TTL

\* What the access check reads.  Requests with the same key share one *Caller
\* (auth.go assigns to it on every request), so a slower request can overwrite
\* the roles of a faster one with older ones; the roles a request being served
\* can see are still ones its caller held at most two TTLs before its own key
\* lookup.  One TTL is not enough: the entry that hands out the *Caller may be
\* one TTL old, and the roles of the request that made it another.
SharedCallerStaleness ==
    \A q \in Requests :
        pc[q] = "served" =>
            \A r \in heap[obj[q]] : HeldRole(who[q], r) >= k0[q] - 2 * TTL

=============================================================================
