--------------------------- MODULE CircuitBreaker ---------------------------
(***************************************************************************)
(* internal/resilience/circuitbreaker.go.  Every method holds cb.mu for    *)
(* its whole body, so each one is a single step.  The methods are actions  *)
(* over the breaker's fields only; ResilientTransport supplies the callers.*)
(*                                                                         *)
(* Two fields are kept modulo what the code can observe of them:           *)
(*   - consecutiveFails is only compared with threshold and reset to 0, so *)
(*     it saturates at Threshold;                                          *)
(*   - lastTripped is only read through now - lastTripped >= cooldown, so  *)
(*     the time since the last trip is kept, saturating at Cooldown.       *)
(* Both are exact, and make the clock unbounded without a bound on time.   *)
(***************************************************************************)
EXTENDS Naturals

CONSTANTS
    Threshold,  \* failure_threshold of the upstream's circuit_breaker block
    Cooldown    \* cooldown, in clock ticks

ASSUME BreakerAssumption ==
    /\ Threshold \in Nat \ {0}
    /\ Cooldown \in Nat \ {0}

VARIABLES
    state,             \* cb.state
    consecutiveFails,  \* cb.consecutiveFails, saturating at Threshold
    sinceTripped,      \* now - cb.lastTripped, saturating at Cooldown
    halfOpenActive     \* cb.halfOpenActive

cbVars == <<state, consecutiveFails, sinceTripped, halfOpenActive>>

States == {"closed", "open", "halfOpen"}

\* The zero time.Time of lastTripped lies further back than any cooldown.
NewCircuitBreaker ==
    /\ state = "closed"
    /\ consecutiveFails = 0
    /\ sinceTripped = Cooldown
    /\ halfOpenActive = FALSE

CooldownOver == sinceTripped >= Cooldown

\* Mutant of Allowed: half-open without the one-probe flag.
AllowedAnyProbe == state \in {"closed", "halfOpen"} \/ CooldownOver

\* The condition under which Allow returns nil.
Allowed ==
    \/ state = "closed"
    \/ state = "open" /\ CooldownOver
    \/ state = "halfOpen" /\ ~halfOpenActive

\* Allow returning nil; a denial changes no field.
Allow ==
    /\ Allowed
    /\ IF state = "closed"
       THEN UNCHANGED <<state, halfOpenActive>>
       ELSE state' = "halfOpen" /\ halfOpenActive' = TRUE
    /\ UNCHANGED <<consecutiveFails, sinceTripped>>

\* Mutant of RecordSuccess: the counter is not reset.
RecordSuccessNoReset ==
    /\ state' = "closed"
    /\ halfOpenActive' = FALSE
    /\ UNCHANGED <<consecutiveFails, sinceTripped>>

RecordSuccess ==
    /\ consecutiveFails' = 0
    /\ state' = "closed"
    /\ halfOpenActive' = FALSE
    /\ UNCHANGED sinceTripped

Saturate(n) == IF n > Threshold THEN Threshold ELSE n

\* A failure while half-open: the early return of RecordFailure.
ReopenOnFailure ==
    /\ state = "halfOpen"
    /\ state' = "open"
    /\ sinceTripped' = 0
    /\ halfOpenActive' = FALSE
    /\ UNCHANGED consecutiveFails

\* A failure in any other state counts, and trips at the threshold.
CountFailure ==
    /\ state # "halfOpen"
    /\ consecutiveFails' = Saturate(consecutiveFails + 1)
    /\ IF consecutiveFails + 1 >= Threshold
       THEN state' = "open" /\ sinceTripped' = 0
       ELSE UNCHANGED <<state, sinceTripped>>
    /\ UNCHANGED halfOpenActive

RecordFailure == ReopenOnFailure \/ CountFailure

\* cb.nowFunc advances by one tick.
Elapse ==
    /\ sinceTripped < Cooldown
    /\ sinceTripped' = sinceTripped + 1
    /\ UNCHANGED <<state, consecutiveFails, halfOpenActive>>

BreakerTypeOK ==
    /\ state \in States
    /\ consecutiveFails \in 0..Threshold
    /\ sinceTripped \in 0..Cooldown
    /\ halfOpenActive \in BOOLEAN
=============================================================================
