----------------------------- MODULE BreakerGate -----------------------------
(***************************************************************************)
(* What the circuit breaker promises its callers, without counters, clock, *)
(* retries or metrics: a gate with three positions and a set of calls      *)
(* beyond it.                                                              *)
(*   - A call enters through a closed gate, or opens the half-open period  *)
(*     by entering through an open one.  Nobody enters while half-open.    *)
(*   - Only a call that leaves moves the gate otherwise, and its leaving   *)
(*     ends a half-open period.                                            *)
(***************************************************************************)
CONSTANT Calls

VARIABLES
    gate,    \* position of the gate
    beyond   \* calls that entered and have not left

vars == <<gate, beyond>>

Init == gate = "closed" /\ beyond = {}

Enter(c) ==
    /\ c \notin beyond
    /\ beyond' = beyond \union {c}
    /\ \/ gate = "closed" /\ gate' = "closed"
       \/ gate = "open" /\ gate' = "halfOpen"

Leave(c) ==
    /\ c \in beyond
    /\ beyond' = beyond \ {c}
    /\ \/ gate' = "closed"
       \/ gate' = "open"

Next == \E c \in Calls : Enter(c) \/ Leave(c)

Spec == Init /\ [][Next]_vars
=============================================================================
