---------------------------- MODULE StdioService ----------------------------
(***************************************************************************)
(* What the users of a stdio transport may rely on, without processes,     *)
(* pipes, locks, restarts and timeouts: messages take effect in a child    *)
(* and RoundTrip answers them.                                             *)
(*   - A request is answered with its own reply, after it took effect, or  *)
(*     with an error.  It does not take effect once it is answered.        *)
(*   - A message takes effect once.  A request may take effect twice, but  *)
(*     only if a child exited by itself.                                   *)
(*   - A notification that was refused never takes effect.                 *)
(*   - After Close, requests get errors and have no effect.                *)
(* If a child writes lines that answer nothing, a reply may go to another  *)
(* request, and a request may take effect late, or twice.                  *)
(***************************************************************************)
EXTENDS Naturals

CONSTANTS Calls, Notifications

VARIABLES
    answer,   \* what RoundTrip returned
    effects,  \* how often a message took effect
    closed,   \* Close has returned
    crashed,  \* a child exited that was not killed
    garbled   \* a child wrote a line that answers nothing

vars == <<answer, effects, closed, crashed, garbled>>

Init ==
    /\ answer = [c \in Calls |-> "none"]
    /\ effects = [c \in Calls |-> 0]
    /\ closed = FALSE
    /\ crashed = FALSE
    /\ garbled = FALSE

\* Lines that a child wrote for something else: its own messages, the reply to a
\* startup ping, replies to other requests.
Foreign == {"notice", "ping"} \union {d \in Calls \ Notifications : effects[d] # 0}
Replies == {"error", "accepted"} \union Foreign

MayTakeEffect(c) ==
    IF c \in Notifications
    THEN effects[c] = 0 /\ answer[c] # "error"
    ELSE /\ effects[c] = 0 \/ (effects[c] = 1 /\ (crashed \/ garbled))
         /\ (answer[c] = "none" /\ ~closed) \/ garbled

\* The child may exit as soon as the message took effect.
TakeEffect(c) ==
    /\ MayTakeEffect(c)
    /\ effects' = [effects EXCEPT ![c] = @ + 1]
    /\ crashed => crashed'
    /\ UNCHANGED <<answer, closed, garbled>>

\* What RoundTrip may answer c.
MayAnswer(c, a) ==
    \/ a = "error" /\ (c \in Notifications => effects[c] = 0)
    \/ /\ ~closed
       /\ \/ c \in Notifications /\ a = "accepted"
          \/ c \notin Notifications /\ a = c /\ effects[c] # 0
          \/ c \notin Notifications /\ garbled /\ a \in Foreign

Answer(c) ==
    /\ answer[c] = "none"
    /\ \E a \in Replies : MayAnswer(c, a) /\ answer' = [answer EXCEPT ![c] = a]
    /\ UNCHANGED <<effects, closed, crashed, garbled>>

Close == closed' = TRUE /\ UNCHANGED <<answer, effects, crashed, garbled>>
Crash == crashed' = TRUE /\ UNCHANGED <<answer, effects, closed, garbled>>
Garble == garbled' = TRUE /\ UNCHANGED <<answer, effects, closed, crashed>>

Next ==
    \/ \E c \in Calls : TakeEffect(c) \/ Answer(c)
    \/ Close \/ Crash \/ Garble

Spec == Init /\ [][Next]_vars
=============================================================================
