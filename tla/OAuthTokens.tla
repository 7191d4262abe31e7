---------------------------- MODULE OAuthTokens ----------------------------
(***************************************************************************)
(* One caller's connection to one OAuth provider: the row in               *)
(* user_oauth_tokens, the requests that take a token from it and refresh   *)
(* it (oauth_resolver.go, oauth_refresh.go), the browser flow that creates *)
(* it (oauth_handler.go) and the admin endpoints that put and delete it.   *)
(* Requests may run in several gateway instances; they share only the row. *)
(*                                                                         *)
(* An access token is modelled by the time until which the provider        *)
(* honours it, a refresh token by its number.  Zero is the empty string,   *)
(* and an expiry of zero is the zero time.Time: "no expiry set".           *)
(***************************************************************************)
EXTENDS Integers

CONSTANTS
    Calls,      \* tools/call requests that need the token
    Callbacks,  \* requests for /oauth/callback, reloads of the page included
    Lifetime,   \* expires_in of the provider
    Skew,       \* how long before its expiry a token counts as expired
    Timeout,    \* of the HTTP clients that talk to the provider
    StateTTL,   \* stateExpiry
    MaxTime,    \* bound on the clock
    MaxGrants,  \* bound on the tokens when an admin enters one
    NoToken     \* no row

Token == [access : Nat, refresh : Nat, exp : Nat]

ASSUME TokenAssumption ==
    /\ Lifetime \in Nat \ {0} /\ Skew \in Nat /\ Timeout \in Nat /\ StateTTL \in Nat
    /\ MaxTime \in Nat /\ MaxGrants \in Nat
    /\ Timeout <= Skew
    /\ Timeout <= Lifetime
    /\ NoToken \notin Token
    /\ Calls \intersect Callbacks = {}

VARIABLES
    now,
    \* The provider.
    rotates,    \* a refresh replaces the refresh token
    tells,      \* replies carry expires_in
    strict,     \* a refresh token it does not accept gets an error status
    live,       \* the refresh tokens it accepts
    issued,     \* the number of the last refresh token
    code,       \* the authorization code of the flow
    \* The gateway.
    row,        \* the stored token
    stateExp,   \* when the state of the flow expires; 0 before the flow
    pc,         \* where each request is
    held,       \* the token a request has: read from the row, or received
    reply,      \* the reply under way to a request
    sent,       \* when a request turned to the provider
    result,     \* what ResolveToken returned
    \* History.
    mishap,     \* a reply or a write got lost, or a token came without refresh token
    deletedAt   \* when the row was deleted, if it has not been connected since

providerVars == <<rotates, tells, strict, live, issued, code>>
requestVars == <<pc, held, reply, sent, result>>
vars == <<now, providerVars, row, stateExp, requestVars, mishap, deletedAt>>

Requests == Calls \union Callbacks
NotDeleted == 0

NoReply == [access |-> 0, refresh |-> 0, ttl |-> 0]
NoResult == [access |-> 0, how |-> "none"]

\* The row exists before the gateway starts, from a flow that ended at time 0,
\* or does not.
Init ==
    /\ now = 1
    /\ rotates \in BOOLEAN
    /\ tells \in BOOLEAN
    /\ strict \in BOOLEAN
    /\ live = {1}
    /\ issued = 1
    /\ code = "none"
    /\ row \in {NoToken, [access |-> Lifetime, refresh |-> 1, exp |-> IF tells THEN Lifetime ELSE 0]}
    /\ stateExp = 0
    /\ pc = [p \in Requests |-> "idle"]
    /\ held = [p \in Requests |-> NoToken]
    /\ reply = [p \in Requests |-> NoReply]
    /\ sent = [p \in Requests |-> 0]
    /\ result = [c \in Calls |-> NoResult]
    /\ mishap = FALSE
    /\ deletedAt = NotDeleted

-----------------------------------------------------------------------------
(* OAuthResolver.ResolveToken up to the provider.                          *)

\* Mutant: a token counts as good to the last second.
ExpiredNoSkew(t) == t.exp # 0 /\ now > t.exp

Expired(t) == t.exp # 0 /\ now > t.exp - Skew

\* How a returned token is meant: its lifetime is known and not over, it is over
\* and the token is returned for want of a better, or it is not known.
How(t) == IF t.exp = 0 THEN "untimed" ELSE IF Expired(t) THEN "stale" ELSE "good"

\* A request that ends leaves nothing behind but its result.
Forget(p) ==
    /\ pc' = [pc EXCEPT ![p] = "done"]
    /\ held' = [held EXCEPT ![p] = NoToken]
    /\ reply' = [reply EXCEPT ![p] = NoReply]
    /\ sent' = [sent EXCEPT ![p] = 0]

Return(c, access, how) ==
    /\ result' = [result EXCEPT ![c] = [access |-> access, how |-> how]]
    /\ Forget(c)

\* No row, or the query failed.
NotConnected(c) ==
    /\ pc[c] = "idle"
    /\ Return(c, 0, "error")
    /\ UNCHANGED <<now, providerVars, row, stateExp, mishap, deletedAt>>

UseStored(c) ==
    /\ pc[c] = "idle"
    /\ row # NoToken
    /\ ~Expired(row) \/ row.refresh = 0
    /\ Return(c, row.access, How(row))
    /\ UNCHANGED <<now, providerVars, row, stateExp, mishap, deletedAt>>

StartRefresh(c) ==
    /\ pc[c] = "idle"
    /\ row # NoToken
    /\ Expired(row) /\ row.refresh # 0
    /\ pc' = [pc EXCEPT ![c] = "posted"]
    /\ held' = [held EXCEPT ![c] = row]
    /\ sent' = [sent EXCEPT ![c] = now]
    /\ UNCHANGED <<now, providerVars, row, stateExp, reply, result, mishap, deletedAt>>

-----------------------------------------------------------------------------
(* The provider's token endpoint.                                          *)

Answer(p, refresh) ==
    /\ pc' = [pc EXCEPT ![p] = "answered"]
    /\ reply' = [reply EXCEPT ![p] = [access |-> now + Lifetime, refresh |-> refresh,
                                      ttl |-> IF tells THEN Lifetime ELSE 0]]

Renew(c) ==
    /\ pc[c] = "posted"
    /\ held[c].refresh \in live
    /\ IF rotates
       THEN /\ issued' = issued + 1
            /\ live' = (live \ {held[c].refresh}) \union {issued + 1}
            /\ Answer(c, issued + 1)
       ELSE /\ Answer(c, 0)
            /\ UNCHANGED <<issued, live>>
    /\ UNCHANGED <<now, rotates, tells, strict, code, row, stateExp, held, sent, result, mishap, deletedAt>>

\* A refresh token that is not accepted, because another request has used it, say,
\* reported with status 200 and no token.
RefuseWith200(c) ==
    /\ pc[c] = "posted"
    /\ ~strict
    /\ held[c].refresh \notin live
    /\ pc' = [pc EXCEPT ![c] = "answered"]
    /\ reply' = [reply EXCEPT ![c] = NoReply]
    /\ UNCHANGED <<now, providerVars, row, stateExp, held, sent, result, mishap, deletedAt>>

\* Providers may leave the refresh token out of a second authorization.
Redeem(h) ==
    /\ pc[h] = "posted"
    /\ code = "ready"
    /\ code' = "used"
    /\ \/ /\ issued' = issued + 1
          /\ live' = live \union {issued + 1}
          /\ Answer(h, issued + 1)
          /\ UNCHANGED mishap
       \/ /\ Answer(h, 0)
          /\ mishap' = TRUE
          /\ UNCHANGED <<issued, live>>
    /\ UNCHANGED <<now, rotates, tells, strict, row, stateExp, held, sent, result, deletedAt>>

\* The endpoint cannot be reached or answers with another status than 200: always
\* so for a refresh token that is not live or a code that was used.
Refuse(p) ==
    /\ pc[p] = "posted"
    /\ pc' = [pc EXCEPT ![p] = "failed"]
    /\ UNCHANGED <<now, providerVars, row, stateExp, held, reply, sent, result, mishap, deletedAt>>

\* The connection breaks, the timeout strikes or the client goes away, and its
\* context with it, after the provider has answered.
ReplyLost(p) ==
    /\ pc[p] = "answered"
    /\ pc' = [pc EXCEPT ![p] = "failed"]
    /\ mishap' = TRUE
    /\ UNCHANGED <<now, providerVars, row, stateExp, held, reply, sent, result, deletedAt>>

-----------------------------------------------------------------------------
(* TokenRefresher.Refresh after the reply, and the rest of ResolveToken.   *)

Expiry(ttl) == IF ttl > 0 THEN now + ttl ELSE 0

\* Mutant: the refresh token of the reply is taken over even if there is none.
ReceiveNoKeep(c) ==
    /\ pc[c] = "answered"
    /\ held' = [held EXCEPT ![c] = [access  |-> reply[c].access,
                                    refresh |-> reply[c].refresh,
                                    exp     |-> Expiry(reply[c].ttl)]]
    /\ pc' = [pc EXCEPT ![c] = "received"]
    /\ UNCHANGED <<now, providerVars, row, stateExp, reply, sent, result, mishap, deletedAt>>

Receive(c) ==
    /\ pc[c] = "answered"
    /\ LET r == reply[c]
       IN  held' = [held EXCEPT ![c] =
               [access  |-> r.access,
                refresh |-> IF r.refresh = 0 THEN held[c].refresh ELSE r.refresh,
                exp     |-> Expiry(r.ttl)]]
    /\ pc' = [pc EXCEPT ![c] = "received"]
    /\ UNCHANGED <<now, providerVars, row, stateExp, reply, sent, result, mishap, deletedAt>>

StoreRefreshed(c) ==
    /\ pc[c] = "received"
    /\ row' = held[c]
    /\ Return(c, held[c].access, How(held[c]))
    /\ UNCHANGED <<now, providerVars, stateExp, mishap, deletedAt>>

\* The error is logged and the new token used all the same.
StoreRefreshedFails(c) ==
    /\ pc[c] = "received"
    /\ Return(c, held[c].access, How(held[c]))
    /\ mishap' = TRUE
    /\ UNCHANGED <<now, providerVars, row, stateExp, deletedAt>>

RefreshFailed(c) ==
    /\ pc[c] = "failed"
    /\ Return(c, held[c].access, IF held[c].access # 0 THEN "stale" ELSE "error")
    /\ UNCHANGED <<now, providerVars, row, stateExp, mishap, deletedAt>>

-----------------------------------------------------------------------------
(* The browser flow.                                                       *)

handleConnect ==
    /\ stateExp = 0
    /\ stateExp' = now + StateTTL
    /\ UNCHANGED <<now, providerVars, row, requestVars, mishap, deletedAt>>

\* The user approves; the browser is redirected with the state and a code.
Approve ==
    /\ stateExp # 0
    /\ code = "none"
    /\ code' = "ready"
    /\ UNCHANGED <<now, rotates, tells, strict, live, issued, row, stateExp, requestVars, mishap, deletedAt>>

\* A callback with an expired state gets an error page and changes nothing.
verifyState == now < stateExp

handleCallback(h) ==
    /\ pc[h] = "idle"
    /\ code # "none"
    /\ verifyState
    /\ pc' = [pc EXCEPT ![h] = "posted"]
    /\ sent' = [sent EXCEPT ![h] = now]
    /\ UNCHANGED <<now, providerVars, row, stateExp, held, reply, result, mishap, deletedAt>>

\* A reply without an access token is an error here.
exchangeCode(h) ==
    /\ pc[h] = "answered"
    /\ reply[h].access # 0
    /\ held' = [held EXCEPT ![h] = [access  |-> reply[h].access,
                                    refresh |-> reply[h].refresh,
                                    exp     |-> Expiry(reply[h].ttl)]]
    /\ pc' = [pc EXCEPT ![h] = "received"]
    /\ UNCHANGED <<now, providerVars, row, stateExp, reply, sent, result, mishap, deletedAt>>

StoreConnected(h) ==
    /\ pc[h] = "received"
    /\ Forget(h)
    /\ row' = held[h]
    /\ deletedAt' = NotDeleted
    /\ UNCHANGED <<now, providerVars, stateExp, result, mishap>>

\* The exchange or the write failed; the page says so.
CallbackFails(h) ==
    /\ pc[h] \in {"failed", "received"}
    /\ Forget(h)
    /\ UNCHANGED <<now, providerVars, row, stateExp, result, mishap, deletedAt>>

-----------------------------------------------------------------------------
(* DELETE and PUT /admin/connections/{provider}.                           *)

deleteConnection ==
    /\ row # NoToken
    /\ row' = NoToken
    /\ deletedAt' = now
    /\ UNCHANGED <<now, providerVars, stateExp, requestVars, mishap>>

\* The admin has obtained a token elsewhere and enters it, with its refresh token
\* or without.
putConnection ==
    /\ issued < MaxGrants
    /\ issued' = issued + 1
    /\ live' = live \union {issued + 1}
    /\ \/ /\ row' = [access |-> now + Lifetime, refresh |-> issued + 1, exp |-> 0]
          /\ UNCHANGED mishap
       \/ /\ row' = [access |-> now + Lifetime, refresh |-> 0, exp |-> 0]
          /\ mishap' = TRUE
    /\ deletedAt' = NotDeleted
    /\ UNCHANGED <<now, rotates, tells, strict, code, stateExp, requestVars>>

-----------------------------------------------------------------------------
(* A request waits for the provider for at most the client's timeout; the  *)
(* statements on the database take no time.                                *)

\* Mutant: an HTTP client without a timeout.
WithinTimeoutNone(p) == TRUE

WithinTimeout(p) == pc[p] \in {"posted", "answered"} => now < sent[p] + Timeout

Tick ==
    /\ now < MaxTime
    /\ \A p \in Requests : WithinTimeout(p) /\ pc[p] # "received"
    /\ now' = now + 1
    /\ UNCHANGED <<providerVars, row, stateExp, requestVars, mishap, deletedAt>>

ResolveToken(c) ==
    \/ NotConnected(c) \/ UseStored(c) \/ StartRefresh(c)
    \/ Receive(c) \/ StoreRefreshed(c) \/ StoreRefreshedFails(c) \/ RefreshFailed(c)

Callback(h) == handleCallback(h) \/ exchangeCode(h) \/ StoreConnected(h) \/ CallbackFails(h)

Next ==
    \/ Tick
    \/ \E c \in Calls : ResolveToken(c) \/ Renew(c) \/ RefuseWith200(c)
    \/ \E h \in Callbacks : Callback(h) \/ Redeem(h)
    \/ \E p \in Requests : Refuse(p) \/ ReplyLost(p)
    \/ handleConnect \/ Approve
    \/ deleteConnection \/ putConnection

Spec == Init /\ [][Next]_vars

-----------------------------------------------------------------------------
(* Properties.                                                             *)

\* Every value has its type, and a request that waits for the provider
\* (http.Client.Timeout) has not done so for longer than the timeout.
TypeOK ==
    /\ now \in Nat
    /\ rotates \in BOOLEAN /\ tells \in BOOLEAN /\ strict \in BOOLEAN /\ mishap \in BOOLEAN
    /\ issued \in Nat /\ (\A t \in live : t \in 1..issued)
    /\ code \in {"none", "ready", "used"}
    /\ row \in Token \union {NoToken}
    /\ stateExp \in Nat /\ deletedAt \in Nat
    /\ pc \in [Requests -> {"idle", "posted", "answered", "received", "failed", "done"}]
    /\ held \in [Requests -> Token \union {NoToken}]
    /\ reply \in [Requests -> [access : Nat, refresh : Nat, ttl : Nat]]
    /\ sent \in [Requests -> Nat]
    /\ result \in [Calls -> [access : Nat, how : {"none", "error", "good", "stale", "untimed"}]]
    /\ \A p \in Requests : /\ sent[p] <= now
                           /\ pc[p] \in {"posted", "answered", "received"} => now <= sent[p] + Timeout
    /\ \A c \in Calls : pc[c] \in {"posted", "answered", "received", "failed"} => held[c] # NoToken

\* ResolveToken never passes a token on as good that the provider has let expire, if
\* the provider said how long it lasts: although the gateway counts the expiry from
\* the arrival of the reply and the provider from the issue, the 30 s of Expired make
\* up for the 10 s that the client waits at most.
GoodTokenIsValid ==
    [][ \A c \in Calls : result'[c] # result[c] /\ result'[c].how = "good"
                          => now <= result'[c].access ]_vars

\* Nothing was lost, and the provider tells a refusal by its status.
Intact == strict /\ ~mishap

\* As long as nothing gets lost and the provider refuses with an error status, the
\* connection can be renewed: concurrent refreshes, reconnects and reloads never leave
\* the row with a refresh token that the provider no longer accepts, unless the request
\* with its successor is about to store it.  With a provider that refuses with status
\* 200 two refreshes at once suffice to lose it: Refresh does not look whether the reply
\* has an access token, and the loser's upsert replaces what the winner has stored.
ConnectionSurvives ==
    row # NoToken /\ Intact =>
        \/ row.refresh \in live
        \/ \E c \in Calls : \/ pc[c] = "answered" /\ reply[c].refresh \in live
                            \/ pc[c] = "received" /\ held[c].refresh \in live

\* A deleted connection is brought back by a refresh that was under way, but only
\* within the timeout of the HTTP client; after that only the user or an
\* admin can create it again.
DeletedStaysDeleted ==
    [][ row = NoToken /\ deletedAt # NotDeleted /\ now > deletedAt + Timeout
        => row' = NoToken \/ deletedAt' = NotDeleted ]_vars
=============================================================================
