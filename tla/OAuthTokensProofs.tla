-------------------------- MODULE OAuthTokensProofs --------------------------
(***************************************************************************)
(* The properties of OAuthTokens, for any number of concurrent requests    *)
(* and any length of time.                                                 *)
(***************************************************************************)
EXTENDS OAuthTokens, TLAPS

\* A request between the answer of the provider and the write to the row.
Pending(p) == pc[p] \in {"answered", "received"}

\* The refresh token that it will write.
Carried(p) == IF pc[p] = "answered" /\ reply[p].refresh # 0
              THEN reply[p].refresh
              ELSE held[p].refresh

\* The gateway's expiry of a token is at most the timeout behind the provider's.
ExpiryTracks ==
    /\ row # NoToken /\ row.exp # 0 => row.exp <= row.access + Timeout
    /\ \A p \in Requests :
        /\ pc[p] = "answered" /\ reply[p].ttl # 0 =>
               reply[p].ttl = Lifetime /\ sent[p] + Lifetime <= reply[p].access
        /\ pc[p] = "received" /\ held[p].exp # 0 =>
               /\ held[p].exp <= held[p].access + Timeout
               /\ sent[p] + Lifetime <= held[p].access

\* No token is known that the provider has not issued.
Known ==
    /\ row # NoToken => row.refresh <= issued
    /\ \A p \in Requests : /\ held[p] # NoToken => held[p].refresh <= issued
                           /\ reply[p].refresh <= issued

\* What a reply says of the refresh token, as long as nothing gets lost.
Replies ==
    /\ \A h \in Callbacks : pc[h] = "answered" => reply[h].refresh # 0
    /\ \A c \in Calls : pc[c] = "answered" => (rotates <=> reply[c].refresh # 0)

\* A request that has received a token has one.
HasToken == \A p \in Requests : pc[p] = "received" => held[p] # NoToken

\* What a request is about to write, the provider accepts.
CarriedAccepted == \A p \in Requests : Pending(p) => Carried(p) \in live

\* With rotation, a refresh token under way to the row is known to nobody else.
Exclusive ==
    rotates => \A p \in Requests : Pending(p) =>
        /\ row # NoToken => row.refresh # Carried(p)
        /\ \A q \in Requests \ {p} : Pending(q) => Carried(q) # Carried(p)
        /\ \A c \in Calls \ {p} : pc[c] = "posted" => held[c].refresh # Carried(p)

\* Without rotation every refresh token stays good.
Lasting ==
    ~rotates => /\ row # NoToken => row.refresh \in live
                /\ \A c \in Calls : pc[c] = "posted" => held[c].refresh \in live

RefreshInv == Intact => Replies /\ CarriedAccepted /\ Exclusive /\ Lasting

\* A refresh that is still under way when the row is gone began before it went.
Overtaken ==
    row = NoToken /\ deletedAt # NotDeleted =>
        \A c \in Calls : pc[c] \in {"posted", "answered", "received"} => sent[c] <= deletedAt

IInv == /\ TypeOK /\ HasToken /\ ExpiryTracks /\ Known
        /\ RefreshInv /\ ConnectionSurvives /\ Overtaken

-----------------------------------------------------------------------------
\* Every action keeps the types and the timeout.
LEMMA TypeStep ==
    ASSUME TypeOK, [Next]_vars
    PROVE  TypeOK'
<1> USE TokenAssumption DEF TypeOK, providerVars, requestVars, Requests, NoReply,
       NotDeleted, Token
<1>1. ASSUME NEW c \in Calls, NotConnected(c) PROVE TypeOK'
    BY <1>1 DEF NotConnected, Return, Forget
<1>2. ASSUME NEW c \in Calls, UseStored(c) PROVE TypeOK'
    BY <1>2 DEF UseStored, Return, Forget, How
<1>3. ASSUME NEW c \in Calls, StartRefresh(c) PROVE TypeOK'
    BY <1>3 DEF StartRefresh
<1>4. ASSUME NEW c \in Calls, Receive(c) PROVE TypeOK'
    BY <1>4 DEF Receive, Expiry
<1>5. ASSUME NEW c \in Calls, StoreRefreshed(c) PROVE TypeOK'
    BY <1>5 DEF StoreRefreshed, Return, Forget, How
<1>6. ASSUME NEW c \in Calls, StoreRefreshedFails(c) PROVE TypeOK'
    BY <1>6 DEF StoreRefreshedFails, Return, Forget, How
<1>7. ASSUME NEW c \in Calls, RefreshFailed(c) PROVE TypeOK'
    BY <1>7 DEF RefreshFailed, Return, Forget
<1>8. ASSUME NEW c \in Calls, Renew(c) PROVE TypeOK'
    <2>1. issued' \in Nat /\ \A t \in live' : t \in 1..issued'
        BY <1>8 DEF Renew
    <2>2. \E r \in Nat : Answer(c, r)
        BY <1>8 DEF Renew
    <2>3. reply' \in [Requests -> [access : Nat, refresh : Nat, ttl : Nat]]
        BY <2>2 DEF Answer
    <2>4. pc' = [pc EXCEPT ![c] = "answered"]
        BY <2>2 DEF Answer
    <2>5. mishap' \in BOOLEAN
        BY <1>8 DEF Renew
    <2>6. QED
        BY <1>8, <2>1, <2>3, <2>4, <2>5 DEF Renew
<1>9. ASSUME NEW c \in Calls, RefuseWith200(c) PROVE TypeOK'
    BY <1>9 DEF RefuseWith200
<1>10. ASSUME NEW h \in Callbacks, handleCallback(h) PROVE TypeOK'
    BY <1>10 DEF handleCallback
<1>11. ASSUME NEW h \in Callbacks, exchangeCode(h) PROVE TypeOK'
    BY <1>11 DEF exchangeCode, Expiry
<1>12. ASSUME NEW h \in Callbacks, StoreConnected(h) PROVE TypeOK'
    BY <1>12 DEF StoreConnected, Forget
<1>13. ASSUME NEW h \in Callbacks, CallbackFails(h) PROVE TypeOK'
    BY <1>13 DEF CallbackFails, Forget
<1>14. ASSUME NEW h \in Callbacks, Redeem(h) PROVE TypeOK'
    <2>1. issued' \in Nat /\ \A t \in live' : t \in 1..issued'
        BY <1>14 DEF Redeem
    <2>2. \E r \in Nat : Answer(h, r)
        BY <1>14 DEF Redeem
    <2>3. reply' \in [Requests -> [access : Nat, refresh : Nat, ttl : Nat]]
        BY <2>2 DEF Answer
    <2>4. pc' = [pc EXCEPT ![h] = "answered"]
        BY <2>2 DEF Answer
    <2>5. mishap' \in BOOLEAN
        BY <1>14 DEF Redeem
    <2>6. QED
        BY <1>14, <2>1, <2>3, <2>4, <2>5 DEF Redeem
<1>15. ASSUME NEW p \in Requests, Refuse(p) PROVE TypeOK'
    BY <1>15 DEF Refuse
<1>16. ASSUME NEW p \in Requests, ReplyLost(p) PROVE TypeOK'
    BY <1>16 DEF ReplyLost
<1>17. CASE Tick
    BY <1>17 DEF Tick, WithinTimeout
<1>18. CASE handleConnect
    BY <1>18 DEF handleConnect
<1>19. CASE Approve
    BY <1>19 DEF Approve
<1>20. CASE deleteConnection
    BY <1>20 DEF deleteConnection
<1>21. CASE putConnection
    <2>1. issued' \in Nat /\ \A t \in live' : t \in 1..issued'
        BY <1>21 DEF putConnection
    <2>2. row' \in Token
        BY <1>21 DEF putConnection
    <2>3. mishap' \in BOOLEAN
        BY <1>21, Zenon DEF putConnection
    <2>4. QED
        BY <1>21, <2>1, <2>2, <2>3 DEF putConnection
<1>22. CASE UNCHANGED vars
    BY <1>22 DEF vars
<1>23. QED
    BY <1>1, <1>2, <1>3, <1>4, <1>5, <1>6, <1>7, <1>8, <1>9, <1>10, <1>11, <1>12, <1>13,
       <1>14, <1>15, <1>16, <1>17, <1>18, <1>19, <1>20, <1>21, <1>22 DEF Next, ResolveToken,
       Callback

\* The two clocks of a token stay within the timeout of each other.
LEMMA ExpiryStep ==
    ASSUME TypeOK, HasToken, ExpiryTracks, [Next]_vars
    PROVE  (HasToken /\ ExpiryTracks)'
<1> USE TokenAssumption DEF TypeOK, HasToken, ExpiryTracks, providerVars, requestVars,
       Requests, NoReply, NotDeleted, Token
<1>1. ASSUME NEW c \in Calls, NotConnected(c) PROVE (HasToken /\ ExpiryTracks)'
    BY <1>1 DEF NotConnected, Return, Forget
<1>2. ASSUME NEW c \in Calls, UseStored(c) PROVE (HasToken /\ ExpiryTracks)'
    BY <1>2 DEF UseStored, Return, Forget, How
<1>3. ASSUME NEW c \in Calls, StartRefresh(c) PROVE (HasToken /\ ExpiryTracks)'
    BY <1>3 DEF StartRefresh
<1>4. ASSUME NEW c \in Calls, Receive(c) PROVE (HasToken /\ ExpiryTracks)'
    BY <1>4 DEF Receive, Expiry
<1>5. ASSUME NEW c \in Calls, StoreRefreshed(c) PROVE (HasToken /\ ExpiryTracks)'
    BY <1>5 DEF StoreRefreshed, Return, Forget, How
<1>6. ASSUME NEW c \in Calls, StoreRefreshedFails(c) PROVE (HasToken /\ ExpiryTracks)'
    BY <1>6 DEF StoreRefreshedFails, Return, Forget, How
<1>7. ASSUME NEW c \in Calls, RefreshFailed(c) PROVE (HasToken /\ ExpiryTracks)'
    BY <1>7 DEF RefreshFailed, Return, Forget
<1>8. ASSUME NEW c \in Calls, Renew(c) PROVE (HasToken /\ ExpiryTracks)'
    <2>1. PICK r \in Nat : Answer(c, r)
        BY <1>8 DEF Renew
    <2>2. UNCHANGED <<row, held, sent, now>>
        BY <1>8 DEF Renew
    <2>3. QED
        BY <1>8, <2>1, <2>2 DEF Answer, Renew
<1>9. ASSUME NEW c \in Calls, RefuseWith200(c) PROVE (HasToken /\ ExpiryTracks)'
    BY <1>9 DEF RefuseWith200
<1>10. ASSUME NEW h \in Callbacks, handleCallback(h) PROVE (HasToken /\ ExpiryTracks)'
    BY <1>10 DEF handleCallback
<1>11. ASSUME NEW h \in Callbacks, exchangeCode(h) PROVE (HasToken /\ ExpiryTracks)'
    BY <1>11 DEF exchangeCode, Expiry
<1>12. ASSUME NEW h \in Callbacks, StoreConnected(h) PROVE (HasToken /\ ExpiryTracks)'
    BY <1>12 DEF StoreConnected, Forget
<1>13. ASSUME NEW h \in Callbacks, CallbackFails(h) PROVE (HasToken /\ ExpiryTracks)'
    BY <1>13 DEF CallbackFails, Forget
<1>14. ASSUME NEW h \in Callbacks, Redeem(h) PROVE (HasToken /\ ExpiryTracks)'
    BY <1>14 DEF Redeem, Answer
<1>15. ASSUME NEW p \in Requests, Refuse(p) PROVE (HasToken /\ ExpiryTracks)'
    BY <1>15 DEF Refuse
<1>16. ASSUME NEW p \in Requests, ReplyLost(p) PROVE (HasToken /\ ExpiryTracks)'
    BY <1>16 DEF ReplyLost
<1>17. CASE Tick
    BY <1>17 DEF Tick, WithinTimeout
<1>18. CASE handleConnect
    BY <1>18 DEF handleConnect
<1>19. CASE Approve
    BY <1>19 DEF Approve
<1>20. CASE deleteConnection
    BY <1>20 DEF deleteConnection
<1>21. CASE putConnection
    BY <1>21 DEF putConnection
<1>22. CASE UNCHANGED vars
    BY <1>22 DEF vars
<1>23. QED
    BY <1>1, <1>2, <1>3, <1>4, <1>5, <1>6, <1>7, <1>8, <1>9, <1>10, <1>11, <1>12, <1>13,
       <1>14, <1>15, <1>16, <1>17, <1>18, <1>19, <1>20, <1>21, <1>22 DEF Next, ResolveToken,
       Callback

\* Refresh tokens come from the provider only.
LEMMA KnownStep ==
    ASSUME TypeOK, HasToken, Known, [Next]_vars
    PROVE  Known'
<1> USE TokenAssumption DEF TypeOK, HasToken, Known, providerVars, requestVars, Requests,
       NoReply, NotDeleted, Token
<1>1. ASSUME NEW c \in Calls, NotConnected(c) PROVE Known'
    BY <1>1 DEF NotConnected, Return, Forget
<1>2. ASSUME NEW c \in Calls, UseStored(c) PROVE Known'
    BY <1>2 DEF UseStored, Return, Forget, How
<1>3. ASSUME NEW c \in Calls, StartRefresh(c) PROVE Known'
    BY <1>3 DEF StartRefresh
<1>4. ASSUME NEW c \in Calls, Receive(c) PROVE Known'
    BY <1>4 DEF Receive, Expiry
<1>5. ASSUME NEW c \in Calls, StoreRefreshed(c) PROVE Known'
    BY <1>5 DEF StoreRefreshed, Return, Forget, How
<1>6. ASSUME NEW c \in Calls, StoreRefreshedFails(c) PROVE Known'
    BY <1>6 DEF StoreRefreshedFails, Return, Forget, How
<1>7. ASSUME NEW c \in Calls, RefreshFailed(c) PROVE Known'
    BY <1>7 DEF RefreshFailed, Return, Forget
<1>8. ASSUME NEW c \in Calls, Renew(c) PROVE Known'
    <2>1. issued <= issued' /\ \E r \in 0..issued' : Answer(c, r)
        BY <1>8 DEF Renew
    <2>2. row' = row /\ held' = held /\ issued' \in Nat
        BY <1>8 DEF Renew
    <2>3. QED
        BY <2>1, <2>2 DEF Answer
<1>9. ASSUME NEW c \in Calls, RefuseWith200(c) PROVE Known'
    BY <1>9 DEF RefuseWith200
<1>10. ASSUME NEW h \in Callbacks, handleCallback(h) PROVE Known'
    BY <1>10 DEF handleCallback
<1>11. ASSUME NEW h \in Callbacks, exchangeCode(h) PROVE Known'
    BY <1>11 DEF exchangeCode, Expiry
<1>12. ASSUME NEW h \in Callbacks, StoreConnected(h) PROVE Known'
    BY <1>12 DEF StoreConnected, Forget
<1>13. ASSUME NEW h \in Callbacks, CallbackFails(h) PROVE Known'
    BY <1>13 DEF CallbackFails, Forget
<1>14. ASSUME NEW h \in Callbacks, Redeem(h) PROVE Known'
    BY <1>14 DEF Redeem, Answer
<1>15. ASSUME NEW p \in Requests, Refuse(p) PROVE Known'
    BY <1>15 DEF Refuse
<1>16. ASSUME NEW p \in Requests, ReplyLost(p) PROVE Known'
    BY <1>16 DEF ReplyLost
<1>17. CASE Tick
    BY <1>17 DEF Tick, WithinTimeout
<1>18. CASE handleConnect
    BY <1>18 DEF handleConnect
<1>19. CASE Approve
    BY <1>19 DEF Approve
<1>20. CASE deleteConnection
    BY <1>20 DEF deleteConnection
<1>21. CASE putConnection
    BY <1>21 DEF putConnection
<1>22. CASE UNCHANGED vars
    BY <1>22 DEF vars
<1>23. QED
    BY <1>1, <1>2, <1>3, <1>4, <1>5, <1>6, <1>7, <1>8, <1>9, <1>10, <1>11, <1>12, <1>13,
       <1>14, <1>15, <1>16, <1>17, <1>18, <1>19, <1>20, <1>21, <1>22 DEF Next, ResolveToken,
       Callback

\* Replies carry a refresh token exactly when they should, until something gets lost.
LEMMA RepliesStep ==
    ASSUME TypeOK, RefreshInv, [Next]_vars
    PROVE  (Intact => Replies)'
<1> USE TokenAssumption DEF TypeOK, RefreshInv, Intact, Replies, providerVars, requestVars,
       Requests, NoReply, NotDeleted, Token
<1>1. ASSUME NEW c \in Calls, NotConnected(c) PROVE (Intact => Replies)'
    BY <1>1 DEF NotConnected, Return, Forget
<1>2. ASSUME NEW c \in Calls, UseStored(c) PROVE (Intact => Replies)'
    BY <1>2 DEF UseStored, Return, Forget, How
<1>3. ASSUME NEW c \in Calls, StartRefresh(c) PROVE (Intact => Replies)'
    BY <1>3 DEF StartRefresh
<1>4. ASSUME NEW c \in Calls, Receive(c) PROVE (Intact => Replies)'
    BY <1>4 DEF Receive, Expiry
<1>5. ASSUME NEW c \in Calls, StoreRefreshed(c) PROVE (Intact => Replies)'
    BY <1>5 DEF StoreRefreshed, Return, Forget, How
<1>6. ASSUME NEW c \in Calls, StoreRefreshedFails(c) PROVE (Intact => Replies)'
    BY <1>6 DEF StoreRefreshedFails, Return, Forget, How
<1>7. ASSUME NEW c \in Calls, RefreshFailed(c) PROVE (Intact => Replies)'
    BY <1>7 DEF RefreshFailed, Return, Forget
<1>8. ASSUME NEW c \in Calls, Renew(c) PROVE (Intact => Replies)'
    BY <1>8 DEF Renew, Answer
<1>9. ASSUME NEW c \in Calls, RefuseWith200(c) PROVE (Intact => Replies)'
    BY <1>9 DEF RefuseWith200
<1>10. ASSUME NEW h \in Callbacks, handleCallback(h) PROVE (Intact => Replies)'
    BY <1>10 DEF handleCallback
<1>11. ASSUME NEW h \in Callbacks, exchangeCode(h) PROVE (Intact => Replies)'
    BY <1>11 DEF exchangeCode, Expiry
<1>12. ASSUME NEW h \in Callbacks, StoreConnected(h) PROVE (Intact => Replies)'
    BY <1>12 DEF StoreConnected, Forget
<1>13. ASSUME NEW h \in Callbacks, CallbackFails(h) PROVE (Intact => Replies)'
    BY <1>13 DEF CallbackFails, Forget
<1>14. ASSUME NEW h \in Callbacks, Redeem(h) PROVE (Intact => Replies)'
    <2>1. Intact' => reply'[h].refresh = issued + 1 /\ Intact
        BY <1>14 DEF Redeem, Answer, Intact
    <2>2. \A p \in Requests \ {h} : pc'[p] = pc[p] /\ reply'[p] = reply[p]
        BY <1>14 DEF Redeem, Answer
    <2>3. rotates' = rotates
        BY <1>14 DEF Redeem
    <2>4. QED
        BY <2>1, <2>2, <2>3
<1>15. ASSUME NEW p \in Requests, Refuse(p) PROVE (Intact => Replies)'
    BY <1>15 DEF Refuse
<1>16. ASSUME NEW p \in Requests, ReplyLost(p) PROVE (Intact => Replies)'
    BY <1>16 DEF ReplyLost
<1>17. CASE Tick
    BY <1>17 DEF Tick, WithinTimeout
<1>18. CASE handleConnect
    BY <1>18 DEF handleConnect
<1>19. CASE Approve
    BY <1>19 DEF Approve
<1>20. CASE deleteConnection
    BY <1>20 DEF deleteConnection
<1>21. CASE putConnection
    BY <1>21 DEF putConnection
<1>22. CASE UNCHANGED vars
    BY <1>22 DEF vars
<1>23. QED
    BY <1>1, <1>2, <1>3, <1>4, <1>5, <1>6, <1>7, <1>8, <1>9, <1>10, <1>11, <1>12, <1>13,
       <1>14, <1>15, <1>16, <1>17, <1>18, <1>19, <1>20, <1>21, <1>22 DEF Next, ResolveToken,
       Callback

\* Nobody spoils the refresh token that another request is about to store.
LEMMA AcceptedStep ==
    ASSUME TypeOK, HasToken, Known, RefreshInv, [Next]_vars
    PROVE  (Intact => CarriedAccepted)'
<1> USE TokenAssumption DEF TypeOK, HasToken, Known, RefreshInv, Intact, Replies,
       CarriedAccepted,
       Exclusive, Lasting, Pending, Carried, providerVars, requestVars, Requests, NoReply,
       NotDeleted, Token
<1>1. ASSUME NEW c \in Calls, NotConnected(c) PROVE (Intact => CarriedAccepted)'
    BY <1>1 DEF NotConnected, Return, Forget
<1>2. ASSUME NEW c \in Calls, UseStored(c) PROVE (Intact => CarriedAccepted)'
    BY <1>2 DEF UseStored, Return, Forget, How
<1>3. ASSUME NEW c \in Calls, StartRefresh(c) PROVE (Intact => CarriedAccepted)'
    BY <1>3 DEF StartRefresh
<1>4. ASSUME NEW c \in Calls, Receive(c) PROVE (Intact => CarriedAccepted)'
    BY <1>4 DEF Receive, Expiry
<1>5. ASSUME NEW c \in Calls, StoreRefreshed(c) PROVE (Intact => CarriedAccepted)'
    BY <1>5 DEF StoreRefreshed, Return, Forget, How
<1>6. ASSUME NEW c \in Calls, StoreRefreshedFails(c) PROVE (Intact => CarriedAccepted)'
    BY <1>6 DEF StoreRefreshedFails, Return, Forget, How
<1>7. ASSUME NEW c \in Calls, RefreshFailed(c) PROVE (Intact => CarriedAccepted)'
    BY <1>7 DEF RefreshFailed, Return, Forget
<1>8. ASSUME NEW c \in Calls, Renew(c) PROVE (Intact => CarriedAccepted)'
    BY <1>8 DEF Renew, Answer
<1>9. ASSUME NEW c \in Calls, RefuseWith200(c) PROVE (Intact => CarriedAccepted)'
    BY <1>9 DEF RefuseWith200
<1>10. ASSUME NEW h \in Callbacks, handleCallback(h) PROVE (Intact => CarriedAccepted)'
    BY <1>10 DEF handleCallback
<1>11. ASSUME NEW h \in Callbacks, exchangeCode(h) PROVE (Intact => CarriedAccepted)'
    BY <1>11 DEF exchangeCode, Expiry
<1>12. ASSUME NEW h \in Callbacks, StoreConnected(h) PROVE (Intact => CarriedAccepted)'
    BY <1>12 DEF StoreConnected, Forget
<1>13. ASSUME NEW h \in Callbacks, CallbackFails(h) PROVE (Intact => CarriedAccepted)'
    BY <1>13 DEF CallbackFails, Forget
<1>14. ASSUME NEW h \in Callbacks, Redeem(h) PROVE (Intact => CarriedAccepted)'
    BY <1>14 DEF Redeem, Answer
<1>15. ASSUME NEW p \in Requests, Refuse(p) PROVE (Intact => CarriedAccepted)'
    BY <1>15 DEF Refuse
<1>16. ASSUME NEW p \in Requests, ReplyLost(p) PROVE (Intact => CarriedAccepted)'
    BY <1>16 DEF ReplyLost
<1>17. CASE Tick
    BY <1>17 DEF Tick, WithinTimeout
<1>18. CASE handleConnect
    BY <1>18 DEF handleConnect
<1>19. CASE Approve
    BY <1>19 DEF Approve
<1>20. CASE deleteConnection
    BY <1>20 DEF deleteConnection
<1>21. CASE putConnection
    BY <1>21 DEF putConnection
<1>22. CASE UNCHANGED vars
    BY <1>22 DEF vars
<1>23. QED
    BY <1>1, <1>2, <1>3, <1>4, <1>5, <1>6, <1>7, <1>8, <1>9, <1>10, <1>11, <1>12, <1>13,
       <1>14, <1>15, <1>16, <1>17, <1>18, <1>19, <1>20, <1>21, <1>22 DEF Next, ResolveToken,
       Callback

\* Nobody learns a rotated refresh token before it is stored.
LEMMA ExclusiveStep ==
    ASSUME TypeOK, HasToken, Known, RefreshInv, [Next]_vars
    PROVE  (Intact => Exclusive)'
<1> USE TokenAssumption DEF TypeOK, HasToken, Known, RefreshInv, Intact, Replies,
       CarriedAccepted,
       Exclusive, Lasting, Pending, Carried, providerVars, requestVars, Requests, NoReply,
       NotDeleted, Token
<1>1. ASSUME NEW c \in Calls, NotConnected(c) PROVE (Intact => Exclusive)'
    BY <1>1 DEF NotConnected, Return, Forget
<1>2. ASSUME NEW c \in Calls, UseStored(c) PROVE (Intact => Exclusive)'
    BY <1>2 DEF UseStored, Return, Forget, How
<1>3. ASSUME NEW c \in Calls, StartRefresh(c) PROVE (Intact => Exclusive)'
    BY <1>3 DEF StartRefresh
<1>4. ASSUME NEW c \in Calls, Receive(c) PROVE (Intact => Exclusive)'
    BY <1>4 DEF Receive, Expiry
<1>5. ASSUME NEW c \in Calls, StoreRefreshed(c) PROVE (Intact => Exclusive)'
    BY <1>5 DEF StoreRefreshed, Return, Forget, How
<1>6. ASSUME NEW c \in Calls, StoreRefreshedFails(c) PROVE (Intact => Exclusive)'
    BY <1>6 DEF StoreRefreshedFails, Return, Forget, How
<1>7. ASSUME NEW c \in Calls, RefreshFailed(c) PROVE (Intact => Exclusive)'
    BY <1>7 DEF RefreshFailed, Return, Forget
<1>8. ASSUME NEW c \in Calls, Renew(c) PROVE (Intact => Exclusive)'
    BY <1>8 DEF Renew, Answer
<1>9. ASSUME NEW c \in Calls, RefuseWith200(c) PROVE (Intact => Exclusive)'
    BY <1>9 DEF RefuseWith200
<1>10. ASSUME NEW h \in Callbacks, handleCallback(h) PROVE (Intact => Exclusive)'
    BY <1>10 DEF handleCallback
<1>11. ASSUME NEW h \in Callbacks, exchangeCode(h) PROVE (Intact => Exclusive)'
    BY <1>11 DEF exchangeCode, Expiry
<1>12. ASSUME NEW h \in Callbacks, StoreConnected(h) PROVE (Intact => Exclusive)'
    BY <1>12 DEF StoreConnected, Forget
<1>13. ASSUME NEW h \in Callbacks, CallbackFails(h) PROVE (Intact => Exclusive)'
    BY <1>13 DEF CallbackFails, Forget
<1>14. ASSUME NEW h \in Callbacks, Redeem(h) PROVE (Intact => Exclusive)'
    <2> SUFFICES ASSUME Intact', rotates' PROVE Exclusive'
        BY DEF Exclusive
    <2>1. Answer(h, issued + 1) /\ Intact /\ rotates /\ UNCHANGED <<row, held>>
        BY <1>14 DEF Redeem
    <2>2. Pending(h)' /\ Carried(h)' = issued + 1
        BY <2>1 DEF Answer
    <2>3. \A q \in Requests \ {h} : Pending(q)' = Pending(q) /\ Carried(q)' = Carried(q)
        BY <2>1 DEF Answer
    <2>4. \A q \in Requests : Pending(q) => Carried(q) <= issued
        BY <2>1
    <2>5. \A c \in Calls : pc'[c] = "posted" => pc[c] = "posted" /\ held'[c].refresh <= issued
        BY <2>1 DEF Answer
    <2>6. QED
        BY <2>1, <2>2, <2>3, <2>4, <2>5
<1>15. ASSUME NEW p \in Requests, Refuse(p) PROVE (Intact => Exclusive)'
    BY <1>15 DEF Refuse
<1>16. ASSUME NEW p \in Requests, ReplyLost(p) PROVE (Intact => Exclusive)'
    BY <1>16 DEF ReplyLost
<1>17. CASE Tick
    BY <1>17 DEF Tick, WithinTimeout
<1>18. CASE handleConnect
    BY <1>18 DEF handleConnect
<1>19. CASE Approve
    BY <1>19 DEF Approve
<1>20. CASE deleteConnection
    BY <1>20 DEF deleteConnection
<1>21. CASE putConnection
    BY <1>21 DEF putConnection
<1>22. CASE UNCHANGED vars
    BY <1>22 DEF vars
<1>23. QED
    BY <1>1, <1>2, <1>3, <1>4, <1>5, <1>6, <1>7, <1>8, <1>9, <1>10, <1>11, <1>12, <1>13,
       <1>14, <1>15, <1>16, <1>17, <1>18, <1>19, <1>20, <1>21, <1>22 DEF Next, ResolveToken,
       Callback

\* Without rotation nothing becomes invalid.
LEMMA LastingStep ==
    ASSUME TypeOK, HasToken, Known, RefreshInv, [Next]_vars
    PROVE  (Intact => Lasting)'
<1> USE TokenAssumption DEF TypeOK, HasToken, Known, RefreshInv, Intact, Replies,
       CarriedAccepted,
       Exclusive, Lasting, Pending, Carried, providerVars, requestVars, Requests, NoReply,
       NotDeleted, Token
<1>1. ASSUME NEW c \in Calls, NotConnected(c) PROVE (Intact => Lasting)'
    BY <1>1 DEF NotConnected, Return, Forget
<1>2. ASSUME NEW c \in Calls, UseStored(c) PROVE (Intact => Lasting)'
    BY <1>2 DEF UseStored, Return, Forget, How
<1>3. ASSUME NEW c \in Calls, StartRefresh(c) PROVE (Intact => Lasting)'
    BY <1>3 DEF StartRefresh
<1>4. ASSUME NEW c \in Calls, Receive(c) PROVE (Intact => Lasting)'
    BY <1>4 DEF Receive, Expiry
<1>5. ASSUME NEW c \in Calls, StoreRefreshed(c) PROVE (Intact => Lasting)'
    BY <1>5 DEF StoreRefreshed, Return, Forget, How
<1>6. ASSUME NEW c \in Calls, StoreRefreshedFails(c) PROVE (Intact => Lasting)'
    BY <1>6 DEF StoreRefreshedFails, Return, Forget, How
<1>7. ASSUME NEW c \in Calls, RefreshFailed(c) PROVE (Intact => Lasting)'
    BY <1>7 DEF RefreshFailed, Return, Forget
<1>8. ASSUME NEW c \in Calls, Renew(c) PROVE (Intact => Lasting)'
    BY <1>8 DEF Renew, Answer
<1>9. ASSUME NEW c \in Calls, RefuseWith200(c) PROVE (Intact => Lasting)'
    BY <1>9 DEF RefuseWith200
<1>10. ASSUME NEW h \in Callbacks, handleCallback(h) PROVE (Intact => Lasting)'
    BY <1>10 DEF handleCallback
<1>11. ASSUME NEW h \in Callbacks, exchangeCode(h) PROVE (Intact => Lasting)'
    BY <1>11 DEF exchangeCode, Expiry
<1>12. ASSUME NEW h \in Callbacks, StoreConnected(h) PROVE (Intact => Lasting)'
    BY <1>12 DEF StoreConnected, Forget
<1>13. ASSUME NEW h \in Callbacks, CallbackFails(h) PROVE (Intact => Lasting)'
    BY <1>13 DEF CallbackFails, Forget
<1>14. ASSUME NEW h \in Callbacks, Redeem(h) PROVE (Intact => Lasting)'
    BY <1>14 DEF Redeem, Answer
<1>15. ASSUME NEW p \in Requests, Refuse(p) PROVE (Intact => Lasting)'
    BY <1>15 DEF Refuse
<1>16. ASSUME NEW p \in Requests, ReplyLost(p) PROVE (Intact => Lasting)'
    BY <1>16 DEF ReplyLost
<1>17. CASE Tick
    BY <1>17 DEF Tick, WithinTimeout
<1>18. CASE handleConnect
    BY <1>18 DEF handleConnect
<1>19. CASE Approve
    BY <1>19 DEF Approve
<1>20. CASE deleteConnection
    BY <1>20 DEF deleteConnection
<1>21. CASE putConnection
    BY <1>21 DEF putConnection
<1>22. CASE UNCHANGED vars
    BY <1>22 DEF vars
<1>23. QED
    BY <1>1, <1>2, <1>3, <1>4, <1>5, <1>6, <1>7, <1>8, <1>9, <1>10, <1>11, <1>12, <1>13,
       <1>14, <1>15, <1>16, <1>17, <1>18, <1>19, <1>20, <1>21, <1>22 DEF Next, ResolveToken,
       Callback

\* The row or a request about to write it has an accepted refresh token.
LEMMA SurvivesStep ==
    ASSUME TypeOK, HasToken, Known, RefreshInv, ConnectionSurvives, [Next]_vars
    PROVE  ConnectionSurvives'
<1> USE TokenAssumption DEF ConnectionSurvives, TypeOK, HasToken, Known, RefreshInv, Intact,
       Replies, CarriedAccepted, Exclusive, Lasting, Pending, Carried, providerVars,
       requestVars, Requests, NoReply, NotDeleted, Token
<1>1. ASSUME NEW c \in Calls, NotConnected(c) PROVE ConnectionSurvives'
    BY <1>1 DEF NotConnected, Return, Forget
<1>2. ASSUME NEW c \in Calls, UseStored(c) PROVE ConnectionSurvives'
    BY <1>2 DEF UseStored, Return, Forget, How
<1>3. ASSUME NEW c \in Calls, StartRefresh(c) PROVE ConnectionSurvives'
    BY <1>3 DEF StartRefresh
<1>4. ASSUME NEW c \in Calls, Receive(c) PROVE ConnectionSurvives'
    BY <1>4 DEF Receive, Expiry
<1>5. ASSUME NEW c \in Calls, StoreRefreshed(c) PROVE ConnectionSurvives'
    BY <1>5 DEF StoreRefreshed, Return, Forget, How
<1>6. ASSUME NEW c \in Calls, StoreRefreshedFails(c) PROVE ConnectionSurvives'
    BY <1>6 DEF StoreRefreshedFails, Return, Forget, How
<1>7. ASSUME NEW c \in Calls, RefreshFailed(c) PROVE ConnectionSurvives'
    BY <1>7 DEF RefreshFailed, Return, Forget
<1>8. ASSUME NEW c \in Calls, Renew(c) PROVE ConnectionSurvives'
    BY <1>8 DEF Renew, Answer
<1>9. ASSUME NEW c \in Calls, RefuseWith200(c) PROVE ConnectionSurvives'
    BY <1>9 DEF RefuseWith200
<1>10. ASSUME NEW h \in Callbacks, handleCallback(h) PROVE ConnectionSurvives'
    BY <1>10 DEF handleCallback
<1>11. ASSUME NEW h \in Callbacks, exchangeCode(h) PROVE ConnectionSurvives'
    BY <1>11 DEF exchangeCode, Expiry
<1>12. ASSUME NEW h \in Callbacks, StoreConnected(h) PROVE ConnectionSurvives'
    BY <1>12 DEF StoreConnected, Forget
<1>13. ASSUME NEW h \in Callbacks, CallbackFails(h) PROVE ConnectionSurvives'
    BY <1>13 DEF CallbackFails, Forget
<1>14. ASSUME NEW h \in Callbacks, Redeem(h) PROVE ConnectionSurvives'
    BY <1>14 DEF Redeem, Answer
<1>15. ASSUME NEW p \in Requests, Refuse(p) PROVE ConnectionSurvives'
    BY <1>15 DEF Refuse
<1>16. ASSUME NEW p \in Requests, ReplyLost(p) PROVE ConnectionSurvives'
    BY <1>16 DEF ReplyLost
<1>17. CASE Tick
    BY <1>17 DEF Tick, WithinTimeout
<1>18. CASE handleConnect
    BY <1>18 DEF handleConnect
<1>19. CASE Approve
    BY <1>19 DEF Approve
<1>20. CASE deleteConnection
    BY <1>20 DEF deleteConnection
<1>21. CASE putConnection
    BY <1>21 DEF putConnection
<1>22. CASE UNCHANGED vars
    BY <1>22 DEF vars
<1>23. QED
    BY <1>1, <1>2, <1>3, <1>4, <1>5, <1>6, <1>7, <1>8, <1>9, <1>10, <1>11, <1>12, <1>13,
       <1>14, <1>15, <1>16, <1>17, <1>18, <1>19, <1>20, <1>21, <1>22 DEF Next, ResolveToken,
       Callback

\* Nobody starts a refresh without a row.
LEMMA OvertakenStep ==
    ASSUME TypeOK, HasToken, Overtaken, [Next]_vars
    PROVE  Overtaken'
<1> USE TokenAssumption DEF Overtaken, TypeOK, HasToken, providerVars, requestVars,
       Requests, NoReply, NotDeleted, Token
<1>1. ASSUME NEW c \in Calls, NotConnected(c) PROVE Overtaken'
    BY <1>1 DEF NotConnected, Return, Forget
<1>2. ASSUME NEW c \in Calls, UseStored(c) PROVE Overtaken'
    BY <1>2 DEF UseStored, Return, Forget, How
<1>3. ASSUME NEW c \in Calls, StartRefresh(c) PROVE Overtaken'
    BY <1>3 DEF StartRefresh
<1>4. ASSUME NEW c \in Calls, Receive(c) PROVE Overtaken'
    BY <1>4 DEF Receive, Expiry
<1>5. ASSUME NEW c \in Calls, StoreRefreshed(c) PROVE Overtaken'
    BY <1>5 DEF StoreRefreshed, Return, Forget, How
<1>6. ASSUME NEW c \in Calls, StoreRefreshedFails(c) PROVE Overtaken'
    BY <1>6 DEF StoreRefreshedFails, Return, Forget, How
<1>7. ASSUME NEW c \in Calls, RefreshFailed(c) PROVE Overtaken'
    BY <1>7 DEF RefreshFailed, Return, Forget
<1>8. ASSUME NEW c \in Calls, Renew(c) PROVE Overtaken'
    BY <1>8 DEF Renew, Answer
<1>9. ASSUME NEW c \in Calls, RefuseWith200(c) PROVE Overtaken'
    BY <1>9 DEF RefuseWith200
<1>10. ASSUME NEW h \in Callbacks, handleCallback(h) PROVE Overtaken'
    BY <1>10 DEF handleCallback
<1>11. ASSUME NEW h \in Callbacks, exchangeCode(h) PROVE Overtaken'
    BY <1>11 DEF exchangeCode, Expiry
<1>12. ASSUME NEW h \in Callbacks, StoreConnected(h) PROVE Overtaken'
    BY <1>12 DEF StoreConnected, Forget
<1>13. ASSUME NEW h \in Callbacks, CallbackFails(h) PROVE Overtaken'
    BY <1>13 DEF CallbackFails, Forget
<1>14. ASSUME NEW h \in Callbacks, Redeem(h) PROVE Overtaken'
    BY <1>14 DEF Redeem, Answer
<1>15. ASSUME NEW p \in Requests, Refuse(p) PROVE Overtaken'
    BY <1>15 DEF Refuse
<1>16. ASSUME NEW p \in Requests, ReplyLost(p) PROVE Overtaken'
    BY <1>16 DEF ReplyLost
<1>17. CASE Tick
    BY <1>17 DEF Tick, WithinTimeout
<1>18. CASE handleConnect
    BY <1>18 DEF handleConnect
<1>19. CASE Approve
    BY <1>19 DEF Approve
<1>20. CASE deleteConnection
    BY <1>20 DEF deleteConnection
<1>21. CASE putConnection
    BY <1>21 DEF putConnection
<1>22. CASE UNCHANGED vars
    BY <1>22 DEF vars
<1>23. QED
    BY <1>1, <1>2, <1>3, <1>4, <1>5, <1>6, <1>7, <1>8, <1>9, <1>10, <1>11, <1>12, <1>13,
       <1>14, <1>15, <1>16, <1>17, <1>18, <1>19, <1>20, <1>21, <1>22 DEF Next, ResolveToken,
       Callback

-----------------------------------------------------------------------------
\* The strengthened invariant holds in every reachable state: of ResolveToken,
\* handleCallback and the admin endpoints in any interleaving.
THEOREM Inductive == Spec => []IInv
<1>1. Init => IInv
    <2> SUFFICES ASSUME Init PROVE IInv
        OBVIOUS
    <2> USE TokenAssumption DEF Init, Requests, NoReply, NoResult, NotDeleted, Token
    <2>1. row = NoToken \/ row = [access |-> Lifetime, refresh |-> 1,
                                   exp |-> IF tells THEN Lifetime ELSE 0]
        OBVIOUS
    <2>2. TypeOK
        <3>1. row \in Token \union {NoToken}
            BY <2>1
        <3>2. issued \in Nat /\ \A t \in live : t \in 1..issued
            OBVIOUS
        <3>3. QED
            <4>1. \A p \in Requests : pc[p] = "idle" /\ sent[p] = 0
                OBVIOUS
            <4>2. /\ pc \in [Requests -> {"idle", "posted", "answered", "received", "failed", "done"}]
                  /\ held \in [Requests -> Token \union {NoToken}]
                  /\ reply \in [Requests -> [access : Nat, refresh : Nat, ttl : Nat]]
                  /\ sent \in [Requests -> Nat]
                OBVIOUS
            <4>3. result \in [Calls -> [access : Nat,
                                      how : {"none", "error", "good", "stale", "untimed"}]]
                OBVIOUS
            <4>4. rotates \in BOOLEAN /\ tells \in BOOLEAN /\ mishap \in BOOLEAN
                BY Zenon
            <4>5. now = 1 /\ stateExp = 0 /\ deletedAt = 0 /\ code = "none"
                OBVIOUS
            <4>6. QED
                BY <3>1, <3>2, <4>1, <4>2, <4>3, <4>4, <4>5 DEF TypeOK
    <2>3. HasToken /\ ExpiryTracks /\ Known /\ Overtaken
        BY <2>1 DEF HasToken, ExpiryTracks, Known, Overtaken
    <2>4. RefreshInv /\ ConnectionSurvives
        BY <2>1 DEF RefreshInv, Replies, CarriedAccepted, Exclusive, Lasting, Pending,
           ConnectionSurvives
    <2>5. QED
        BY <2>2, <2>3, <2>4 DEF IInv
<1>2. IInv /\ [Next]_vars => IInv'
    <2> SUFFICES ASSUME IInv, [Next]_vars PROVE IInv'
        OBVIOUS
    <2>1. TypeOK /\ HasToken /\ ExpiryTracks /\ Known /\ RefreshInv /\ ConnectionSurvives
              /\ Overtaken
        BY DEF IInv
    <2>2. (TypeOK /\ HasToken /\ ExpiryTracks /\ Known /\ ConnectionSurvives /\ Overtaken)'
        BY <2>1, TypeStep, ExpiryStep, KnownStep, SurvivesStep, OvertakenStep
    <2>3. RefreshInv'
        BY <2>1, RepliesStep, AcceptedStep, ExclusiveStep, LastingStep DEF RefreshInv
    <2>4. QED
        BY <2>2, <2>3 DEF IInv
<1>3. QED
    BY <1>1, <1>2, PTL DEF Spec

\* Types, and no request waits for the provider beyond the timeout of its client.
THEOREM TypeCorrect == Spec => []TypeOK
<1>1. IInv => TypeOK
    BY DEF IInv
<1>2. QED
    BY <1>1, Inductive, PTL

\* With a provider that refuses with an error status (RFC 6749, 5.2), however many
\* requests refresh, reconnect and reload at once, the connection can be renewed until a
\* reply or a write gets lost or a token comes without a refresh token (ResolveToken,
\* handleCallback).
THEOREM AlwaysRenewable == Spec => []ConnectionSurvives
<1>1. IInv => ConnectionSurvives
    BY DEF IInv
<1>2. QED
    BY <1>1, Inductive, PTL

\* ResolveToken passes no expired token on as good, whatever the lifetimes are, if
\* the client's timeout is at most the margin of OAuthToken.Expired.
THEOREM GoodTokensAreValid == Spec => GoodTokenIsValid
<1> DEFINE Good == \A c \in Calls : result'[c] # result[c] /\ result'[c].how = "good"
                                    => now <= result'[c].access
<1>1. IInv /\ [Next]_vars => [Good]_vars
    <2> SUFFICES ASSUME IInv, Next, NEW c \in Calls,
                        result'[c] # result[c], result'[c].how = "good"
                 PROVE  now <= result'[c].access
        OBVIOUS
    <2> USE TokenAssumption DEF IInv, TypeOK, Token, HasToken, ExpiryTracks, Requests
    <2>1. \/ UseStored(c) \/ StoreRefreshed(c) \/ StoreRefreshedFails(c)
        <3>1. ASSUME NEW d \in Calls, d # c, ResolveToken(d) PROVE FALSE
            BY <3>1 DEF ResolveToken, NotConnected, UseStored, StartRefresh, Receive,
               StoreRefreshed, StoreRefreshedFails, RefreshFailed, Return
        <3>2. ASSUME NotConnected(c) \/ RefreshFailed(c) PROVE FALSE
            BY <3>2 DEF NotConnected, RefreshFailed, Return
        <3>3. ResolveToken(c)
            BY <3>1 DEF Next, Callback, Renew, RefuseWith200, handleCallback, exchangeCode,
               StoreConnected, CallbackFails, Redeem, Refuse, ReplyLost, Tick, handleConnect,
               Approve, deleteConnection, putConnection, requestVars
        <3>4. QED
            BY <3>2, <3>3 DEF ResolveToken, StartRefresh, Receive
    <2>2. CASE UseStored(c)
        BY <2>2 DEF UseStored, Return, How, Expired
    <2>3. CASE StoreRefreshed(c)
        BY <2>3 DEF StoreRefreshed, Return, How
    <2>4. CASE StoreRefreshedFails(c)
        BY <2>4 DEF StoreRefreshedFails, Return, How
    <2>5. QED
        BY <2>1, <2>2, <2>3, <2>4
<1>2. QED
    BY <1>1, Inductive, PTL DEF Spec, GoodTokenIsValid

\* A deleted connection comes back through a refresh only within the timeout of
\* the HTTP client (deleteConnection against ResolveToken).
THEOREM DeletionIsFinal == Spec => DeletedStaysDeleted
<1> DEFINE Gone == row = NoToken /\ deletedAt # NotDeleted /\ now > deletedAt + Timeout
                   => row' = NoToken \/ deletedAt' = NotDeleted
<1>1. IInv /\ [Next]_vars => [Gone]_vars
    <2> SUFFICES ASSUME IInv, Next, row = NoToken, deletedAt # NotDeleted,
                        now > deletedAt + Timeout, row' # NoToken
                 PROVE  deletedAt' = NotDeleted
        OBVIOUS
    <2>1. ASSUME NEW c \in Calls, StoreRefreshed(c) PROVE FALSE
        BY <2>1, TokenAssumption DEF IInv, TypeOK, Overtaken, StoreRefreshed, Requests
    <2>2. QED
        BY <2>1 DEF Next, ResolveToken, Callback, NotConnected, UseStored, StartRefresh,
           Receive, StoreRefreshedFails, RefreshFailed, Renew, RefuseWith200, handleCallback,
           exchangeCode, StoreConnected, CallbackFails, Redeem, Refuse, ReplyLost, Tick,
           handleConnect, Approve, deleteConnection, putConnection
<1>2. QED
    BY <1>1, Inductive, PTL DEF Spec, DeletedStaysDeleted
==============================================================================
