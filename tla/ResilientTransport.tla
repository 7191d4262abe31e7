------------------------- MODULE ResilientTransport -------------------------
(***************************************************************************)
(* internal/resilience/resilient.go: RoundTrip of a ResilientTransport     *)
(* with a circuit breaker and a retry policy, called by concurrent request *)
(* goroutines.  The breaker's lock is released between Allow and the       *)
(* Record call, so the outcomes of calls admitted in one breaker state     *)
(* arrive in another.  A transport without retry is MaxAttempts = 1.       *)
(***************************************************************************)
EXTENDS CircuitBreaker

CONSTANTS
    Calls,        \* goroutines that call RoundTrip, each again and again
    MaxAttempts   \* retry.max_attempts

ASSUME TransportAssumption == MaxAttempts \in Nat \ {0}

VARIABLES
    pc,         \* where the call is in RoundTrip
    attempt,    \* the loop's attempt + 1
    cancelled,  \* ctx of the call is done (the client went away)
    probe       \* history: the running call was admitted by a non-closed breaker

callVars == <<pc, attempt, cancelled, probe>>
vars == <<state, consecutiveFails, sinceTripped, halfOpenActive,
          pc, attempt, cancelled, probe>>

\* "inner"    inside inner.RoundTrip
\* "backoff"  inside WaitBackoff
\* "ok"       inner.RoundTrip returned a result, RecordSuccess comes next
\* "failed"   the loop was left with an error, RecordFailure comes next
\* "return"   the outcome is decided; recordCircuitState only reports
InFlight == {"inner", "backoff", "ok", "failed"}
Locations == InFlight \union {"idle", "return"}

Init ==
    /\ NewCircuitBreaker
    /\ pc = [c \in Calls |-> "idle"]
    /\ attempt = [c \in Calls |-> 0]
    /\ cancelled = [c \in Calls |-> FALSE]
    /\ probe = [c \in Calls |-> FALSE]

Goto(c, loc) == pc' = [pc EXCEPT ![c] = loc]

-----------------------------------------------------------------------------
(* One RoundTrip                                                           *)

\* The breaker lets the call through; the first attempt starts.
Admit(c) ==
    /\ pc[c] = "idle"
    /\ Allow
    /\ Goto(c, "inner")
    /\ attempt' = [attempt EXCEPT ![c] = 1]
    /\ probe' = [probe EXCEPT ![c] = (state # "closed")]
    /\ UNCHANGED <<cancelled>>

\* Mutant of FailFast: a rejected call is counted as a failure.
FailFastCounted(c) ==
    /\ pc[c] = "idle"
    /\ ~Allowed
    /\ RecordFailure
    /\ Goto(c, "return")
    /\ UNCHANGED <<attempt, cancelled, probe>>

\* ErrCircuitOpen: the call returns without reaching the upstream.
FailFast(c) ==
    /\ pc[c] = "idle"
    /\ ~Allowed
    /\ Goto(c, "return")
    /\ UNCHANGED <<cbVars, attempt, cancelled, probe>>

InnerSucceeds(c) ==
    /\ pc[c] = "inner"
    /\ Goto(c, "ok")
    /\ UNCHANGED <<cbVars, attempt, cancelled, probe>>

\* Mutant of InnerFails: the loop runs once too often.
InnerFailsOneMore(c) ==
    /\ pc[c] = "inner"
    /\ \E retryable \in BOOLEAN :
          Goto(c, IF retryable /\ attempt[c] <= MaxAttempts /\ ~cancelled[c]
                  THEN "backoff" ELSE "failed")
    /\ UNCHANGED <<cbVars, attempt, cancelled, probe>>

\* inner.RoundTrip returns an error.  IsRetryable sorts it by its kind and the
\* configured retryable_errors; either answer is possible.  A retryable error
\* with attempts left waits, unless the context is already done.
InnerFails(c) ==
    /\ pc[c] = "inner"
    /\ \E retryable \in BOOLEAN :
          Goto(c, IF retryable /\ attempt[c] < MaxAttempts /\ ~cancelled[c]
                  THEN "backoff" ELSE "failed")
    /\ UNCHANGED <<cbVars, attempt, cancelled, probe>>

\* The backoff timer fires.  With the context done as well, select may still
\* choose the timer.
Retry(c) ==
    /\ pc[c] = "backoff"
    /\ Goto(c, "inner")
    /\ attempt' = [attempt EXCEPT ![c] = @ + 1]
    /\ UNCHANGED <<cbVars, cancelled, probe>>

\* Mutant of GiveUp: a cancelled call returns without recording an outcome.
GiveUpUnrecorded(c) ==
    /\ pc[c] = "backoff"
    /\ cancelled[c]
    /\ Goto(c, "return")
    /\ UNCHANGED <<cbVars, attempt, cancelled, probe>>

\* WaitBackoff returns the context's error.
GiveUp(c) ==
    /\ pc[c] = "backoff"
    /\ cancelled[c]
    /\ Goto(c, "failed")
    /\ UNCHANGED <<cbVars, attempt, cancelled, probe>>

Succeed(c) ==
    /\ pc[c] = "ok"
    /\ RecordSuccess
    /\ Goto(c, "return")
    /\ UNCHANGED <<attempt, cancelled, probe>>

Fail(c) ==
    /\ pc[c] = "failed"
    /\ RecordFailure
    /\ Goto(c, "return")
    /\ UNCHANGED <<attempt, cancelled, probe>>

\* RoundTrip reports the state to the metrics and returns to its caller.
Return(c) ==
    /\ pc[c] = "return"
    /\ Goto(c, "idle")
    /\ attempt' = [attempt EXCEPT ![c] = 0]
    /\ cancelled' = [cancelled EXCEPT ![c] = FALSE]
    /\ probe' = [probe EXCEPT ![c] = FALSE]
    /\ UNCHANGED cbVars

\* The client of a call that is still being served disconnects.
Cancel(c) ==
    /\ pc[c] \in {"inner", "backoff"}
    /\ ~cancelled[c]
    /\ cancelled' = [cancelled EXCEPT ![c] = TRUE]
    /\ UNCHANGED <<cbVars, pc, attempt, probe>>

Tick == Elapse /\ UNCHANGED callVars

-----------------------------------------------------------------------------
CallStep(c) ==
    \/ InnerSucceeds(c) \/ InnerFails(c)
    \/ Retry(c) \/ GiveUp(c)
    \/ Succeed(c) \/ Fail(c)
    \/ Return(c)

Next ==
    \/ \E c \in Calls : Admit(c) \/ FailFast(c) \/ CallStep(c) \/ Cancel(c)
    \/ Tick

Spec == Init /\ [][Next]_vars

\* An admitted call keeps running: the inner transport answers or times out
\* (assumed of the inner transport), the backoff timer fires, locks are granted.
\* The clock advances.  New calls and cancellations are up to the clients.
Fairness ==
    /\ \A c \in Calls : WF_vars(CallStep(c))
    /\ WF_vars(Tick)

FairSpec == Spec /\ Fairness

-----------------------------------------------------------------------------
(* Properties                                                              *)

\* Every variable stays in its type; attempts never exceed max_attempts.
TypeOK ==
    /\ BreakerTypeOK
    /\ pc \in [Calls -> Locations]
    /\ attempt \in [Calls -> 0..MaxAttempts]
    /\ cancelled \in [Calls -> BOOLEAN]
    /\ probe \in [Calls -> BOOLEAN]

\* The state and the counter agree whatever order late outcomes arrive in: the
\* circuit is closed exactly while fewer than threshold failures are counted.
ClosedIffBelowThreshold ==
    state = "closed" <=> consecutiveFails < Threshold

\* A half-open circuit is never wedged: halfOpenActive is held, and the probe
\* that holds it is still on its way to a Record call that will release it.
\* Losing it on any return path would reject every later request for good.
ProbeInFlight ==
    /\ halfOpenActive <=> state = "halfOpen"
    /\ state = "halfOpen" => \E c \in Calls : pc[c] \in InFlight /\ probe[c]

\* Liveness: an open circuit stops rejecting.  Late failures push lastTripped
\* back, but only calls admitted before the trip can do so.
OpenRelents == (state = "open") ~> Allowed

\* The breaker keeps the promise of BreakerGate, with the calls between Allow
\* and their Record call as the ones beyond the gate: nobody is admitted while
\* half-open, and only a recorded outcome ends the half-open period.
Gate == INSTANCE BreakerGate WITH
            gate <- state,
            beyond <- {c \in Calls : pc[c] \in InFlight}

GateSafety == Gate!Spec
=============================================================================
