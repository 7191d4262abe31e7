---------------------- MODULE ResilientTransportProofs ----------------------
(***************************************************************************)
(* Proofs about ResilientTransport for every number of calls, threshold,   *)
(* cooldown and number of attempts.                                        *)
(***************************************************************************)
EXTENDS ResilientTransport, TLAPS

\* The inductive invariant.  The two safety invariants are inductive together
\* with the type invariant once a call that waits for another attempt is known
\* to have one left (the loop condition of RoundTrip).
AttemptLeft == \A c \in Calls : pc[c] = "backoff" => attempt[c] < MaxAttempts

IInv ==
    /\ TypeOK
    /\ AttemptLeft
    /\ ClosedIffBelowThreshold
    /\ ProbeInFlight

-----------------------------------------------------------------------------
\* Breaker operations keep the breaker's fields in their types.
LEMMA BreakerTypes ==
    ASSUME BreakerTypeOK,
           Allow \/ RecordSuccess \/ RecordFailure \/ Elapse
                 \/ UNCHANGED cbVars
    PROVE  BreakerTypeOK'
<1> USE BreakerAssumption DEF BreakerTypeOK, States
<1>1. CASE Allow
  BY <1>1 DEF Allow
<1>2. CASE RecordSuccess
  <2>1. halfOpenActive' \in BOOLEAN
    BY <1>2, Zenon DEF RecordSuccess
  <2>2. QED
    BY <1>2, <2>1 DEF RecordSuccess
<1>3. CASE RecordFailure
  <2>1. halfOpenActive' \in BOOLEAN
    BY <1>3, Zenon DEF RecordFailure, ReopenOnFailure, CountFailure
  <2>2. QED
    BY <1>3, <2>1 DEF RecordFailure, ReopenOnFailure, CountFailure, Saturate
<1>4. CASE Elapse
  BY <1>4 DEF Elapse
<1>5. CASE UNCHANGED cbVars
  BY <1>5 DEF cbVars
<1>6. QED
  BY <1>1, <1>2, <1>3, <1>4, <1>5

\* Which breaker operation each step of the model performs: the only steps that
\* touch the breaker are Admit, Succeed, Fail and Tick.
LEMMA BreakerSteps ==
    ASSUME [Next]_vars
    PROVE  Allow \/ RecordSuccess \/ RecordFailure \/ Elapse
                 \/ UNCHANGED cbVars
BY DEF Next, vars, cbVars, CallStep, Admit, FailFast, InnerSucceeds, InnerFails,
       Retry, GiveUp, Succeed, Fail, Return, Cancel, Tick

\* Every variable keeps its type, and no call makes more than MaxAttempts
\* attempts.
LEMMA TypeStep ==
    ASSUME TypeOK, AttemptLeft, [Next]_vars
    PROVE  TypeOK' /\ AttemptLeft'
<1> USE TransportAssumption
        DEF TypeOK, AttemptLeft, Locations, InFlight, Goto, cbVars
<1>0. BreakerTypeOK'
  BY BreakerTypes, BreakerSteps
<1>1. ASSUME NEW c \in Calls, Admit(c) PROVE TypeOK' /\ AttemptLeft'
  BY <1>0, <1>1 DEF Admit
<1>2. ASSUME NEW c \in Calls, FailFast(c) PROVE TypeOK' /\ AttemptLeft'
  BY <1>0, <1>2 DEF FailFast
<1>3. ASSUME NEW c \in Calls, InnerSucceeds(c) PROVE TypeOK' /\ AttemptLeft'
  BY <1>0, <1>3 DEF InnerSucceeds
<1>4. ASSUME NEW c \in Calls, InnerFails(c) PROVE TypeOK' /\ AttemptLeft'
  BY <1>0, <1>4 DEF InnerFails
<1>5. ASSUME NEW c \in Calls, Retry(c) PROVE TypeOK' /\ AttemptLeft'
  BY <1>0, <1>5 DEF Retry
<1>6. ASSUME NEW c \in Calls, GiveUp(c) PROVE TypeOK' /\ AttemptLeft'
  BY <1>0, <1>6 DEF GiveUp
<1>7. ASSUME NEW c \in Calls, Succeed(c) PROVE TypeOK' /\ AttemptLeft'
  BY <1>0, <1>7 DEF Succeed
<1>8. ASSUME NEW c \in Calls, Fail(c) PROVE TypeOK' /\ AttemptLeft'
  BY <1>0, <1>8 DEF Fail
<1>9. ASSUME NEW c \in Calls, Return(c) PROVE TypeOK' /\ AttemptLeft'
  BY <1>0, <1>9 DEF Return
<1>10. ASSUME NEW c \in Calls, Cancel(c) PROVE TypeOK' /\ AttemptLeft'
  BY <1>0, <1>10 DEF Cancel
<1>11. CASE Tick
  BY <1>0, <1>11 DEF Tick, callVars
<1>12. CASE UNCHANGED vars
  BY <1>0, <1>12 DEF vars
<1>13. QED
  BY <1>1, <1>2, <1>3, <1>4, <1>5, <1>6, <1>7, <1>8, <1>9, <1>10,
     <1>11, <1>12 DEF Next, CallStep

\* The circuit is closed exactly while the counter is below the threshold.
LEMMA CounterStep ==
    ASSUME BreakerTypeOK, ClosedIffBelowThreshold, [Next]_vars
    PROVE  ClosedIffBelowThreshold'
<1> USE BreakerAssumption DEF BreakerTypeOK, States, ClosedIffBelowThreshold
<1>1. CASE Allow
  BY <1>1 DEF Allow, Allowed
<1>2. CASE RecordSuccess
  BY <1>2 DEF RecordSuccess
<1>3. CASE RecordFailure
  BY <1>3 DEF RecordFailure, ReopenOnFailure, CountFailure, Saturate
<1>4. CASE Elapse
  BY <1>4 DEF Elapse
<1>5. CASE UNCHANGED cbVars
  BY <1>5 DEF cbVars
<1>6. QED
  BY <1>1, <1>2, <1>3, <1>4, <1>5, BreakerSteps

\* The probe of a half-open circuit stays in flight until an outcome, its own
\* or another call's, ends the half-open period.
LEMMA ProbeStep ==
    ASSUME TypeOK, ProbeInFlight, [Next]_vars
    PROVE  ProbeInFlight'
<1> USE DEF TypeOK, BreakerTypeOK, States, Locations, InFlight, Goto,
            ProbeInFlight, cbVars
<1>1. ASSUME NEW c \in Calls, Admit(c) PROVE ProbeInFlight'
  <2>1. CASE state = "closed"
    BY <1>1, <2>1 DEF Admit, Allow
  <2>2. CASE state # "closed"
    <3>1. state' = "halfOpen" /\ halfOpenActive' = TRUE
      BY <1>1, <2>2 DEF Admit, Allow
    <3>2. pc'[c] = "inner" /\ probe'[c]
      BY <1>1, <2>2 DEF Admit
    <3>3. QED
      BY <3>1, <3>2
  <2>3. QED
    BY <2>1, <2>2
<1>2. ASSUME NEW c \in Calls, FailFast(c) PROVE ProbeInFlight'
  BY <1>2 DEF FailFast
<1>3. ASSUME NEW c \in Calls, InnerSucceeds(c) PROVE ProbeInFlight'
  BY <1>3 DEF InnerSucceeds
<1>4. ASSUME NEW c \in Calls, InnerFails(c) PROVE ProbeInFlight'
  BY <1>4 DEF InnerFails
<1>5. ASSUME NEW c \in Calls, Retry(c) PROVE ProbeInFlight'
  BY <1>5 DEF Retry
<1>6. ASSUME NEW c \in Calls, GiveUp(c) PROVE ProbeInFlight'
  BY <1>6 DEF GiveUp
<1>7. ASSUME NEW c \in Calls, Succeed(c) PROVE ProbeInFlight'
  BY <1>7 DEF Succeed, RecordSuccess
<1>8. ASSUME NEW c \in Calls, Fail(c) PROVE ProbeInFlight'
  BY <1>8 DEF Fail, RecordFailure, ReopenOnFailure, CountFailure
<1>9. ASSUME NEW c \in Calls, Return(c) PROVE ProbeInFlight'
  BY <1>9 DEF Return
<1>10. ASSUME NEW c \in Calls, Cancel(c) PROVE ProbeInFlight'
  BY <1>10 DEF Cancel
<1>11. CASE Tick
  BY <1>11 DEF Tick, Elapse, callVars
<1>12. CASE UNCHANGED vars
  BY <1>12 DEF vars
<1>13. QED
  BY <1>1, <1>2, <1>3, <1>4, <1>5, <1>6, <1>7, <1>8, <1>9, <1>10,
     <1>11, <1>12 DEF Next, CallStep

\* The inductive invariant holds in every reachable state.
THEOREM Inductive == Spec => []IInv
<1>1. ASSUME Init PROVE IInv
  <2>1. halfOpenActive \in BOOLEAN /\ ProbeInFlight
    BY <1>1, Zenon DEF Init, NewCircuitBreaker, ProbeInFlight
  <2>2. BreakerTypeOK /\ ClosedIffBelowThreshold
    BY <1>1, <2>1, BreakerAssumption
       DEF Init, NewCircuitBreaker, BreakerTypeOK, States, ClosedIffBelowThreshold
  <2>3. TypeOK /\ AttemptLeft
    BY <1>1, <2>2, TransportAssumption
       DEF Init, TypeOK, States, Locations, InFlight, AttemptLeft
  <2>4. QED
    BY <2>1, <2>2, <2>3 DEF IInv
<1>2. IInv /\ [Next]_vars => IInv'
  BY TypeStep, CounterStep, ProbeStep DEF IInv, TypeOK
<1>3. QED
  BY <1>1, <1>2, PTL DEF Spec

\* RoundTrip keeps every variable in its type: in particular no call makes more
\* attempts than retry.max_attempts.
THEOREM TypeCorrect == Spec => []TypeOK
BY Inductive, PTL DEF IInv

\* The state of the circuit and its failure counter never disagree.
THEOREM CounterAgrees == Spec => []ClosedIffBelowThreshold
BY Inductive, PTL DEF IInv

\* A half-open circuit always has its probe in flight.
THEOREM NeverWedged == Spec => []ProbeInFlight
BY Inductive, PTL DEF IInv

-----------------------------------------------------------------------------
\* Every step of RoundTrip is a step of the gate or leaves it alone.
LEMMA GateStep ==
    ASSUME IInv, [Next]_vars
    PROVE  [Gate!Next]_(Gate!vars)
<1> DEFINE beyond == {c \in Calls : pc[c] \in InFlight}
<1> USE DEF IInv, TypeOK, BreakerTypeOK, States, Locations, InFlight, Goto, cbVars
<1>1. ASSUME NEW c \in Calls, Admit(c) PROVE Gate!Enter(c)
  <2>1. c \notin beyond /\ beyond' = beyond \union {c}
    BY <1>1 DEF Admit
  <2>2. \/ state = "closed" /\ state' = "closed"
        \/ state = "open" /\ state' = "halfOpen"
    BY <1>1 DEF Admit, Allow, Allowed, ProbeInFlight
  <2>3. QED
    BY <2>1, <2>2 DEF Gate!Enter
<1>2. ASSUME NEW c \in Calls, Succeed(c) \/ Fail(c) PROVE Gate!Leave(c)
  <2>1. c \in beyond /\ beyond' = beyond \ {c}
    BY <1>2 DEF Succeed, Fail
  <2>2. state' \in {"closed", "open"}
    BY <1>2 DEF Succeed, Fail, RecordSuccess, RecordFailure, ReopenOnFailure,
                CountFailure
  <2>3. QED
    BY <2>1, <2>2 DEF Gate!Leave
<1>3. ASSUME NEW c \in Calls,
             FailFast(c) \/ InnerSucceeds(c) \/ InnerFails(c) \/ Retry(c)
               \/ GiveUp(c) \/ Return(c) \/ Cancel(c)
      PROVE  state' = state /\ beyond' = beyond
  BY <1>3 DEF FailFast, InnerSucceeds, InnerFails, Retry, GiveUp, Return,
              Cancel
<1>4. CASE Tick
  BY <1>4 DEF Tick, Elapse, callVars, Gate!vars
<1>5. CASE UNCHANGED vars
  BY <1>5 DEF vars, Gate!vars
<1>6. QED
  BY <1>1, <1>2, <1>3, <1>4, <1>5 DEF Next, CallStep, Gate!Next, Gate!vars

\* A ResilientTransport implements the gate: nobody is admitted while half-open
\* and only the recorded outcome of an admitted call ends the half-open period.
THEOREM ImplementsGate == Spec => GateSafety
<1>1. Init => Gate!Init
  BY DEF Init, NewCircuitBreaker, Gate!Init, InFlight
<1>2. QED
  BY <1>1, GateStep, Inductive, PTL DEF Spec, GateSafety, Gate!Spec
=============================================================================
