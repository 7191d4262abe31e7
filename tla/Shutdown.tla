------------------------------ MODULE Shutdown ------------------------------
(***************************************************************************)
(* SIGINT/SIGTERM in `stile` (cmd/gateway/main.go) and in `stile wrap`     *)
(* (cmd/gateway/wrap.go).  The main goroutine sits in ListenAndServe and   *)
(* the process ends when it returns; a second goroutine waits for the      *)
(* signal, drains the server and then stops and closes everything else, in *)
(* order, before it exits the process itself.                              *)
(***************************************************************************)
EXTENDS Integers, Sequences, SequencesExt

CONSTANT Requests  \* HTTP requests

VARIABLES
    mode,       \* the subcommand: stile or stile wrap
    signalled,  \* the goroutine has received the signal
    serving,    \* the listener is open
    req,        \* the state of each request
    drained,    \* srv.Shutdown has returned
    timedOut,   \* ... because shutdown_timeout was over
    busy,       \* background goroutines in the middle of a round
    stopped,    \* background goroutines told to stop
    closed,     \* the steps of Steps that are complete
    exited      \* the process is gone

shutdownVars == <<mode, signalled, serving, req, drained, timedOut, busy, stopped,
                  closed, exited>>

\* What the signal goroutine does after Shutdown, in its order.
Steps == [stile |-> <<"health", "router", "tracer", "limiter", "healthRedis", "audit",
                      "tokens">>,
          wrap |-> <<"tracer", "transport">>][mode]

\* The goroutines that send probes or tools/list to the upstreams on a timer,
\* by the step that stops them and waits for them.
Background == Range(Steps) \intersect {"health", "router"}

InitShutdown ==
    /\ mode \in {"stile", "wrap"}
    /\ signalled = FALSE
    /\ serving = TRUE
    /\ req = [q \in Requests |-> "new"]
    /\ drained = FALSE
    /\ timedOut = FALSE
    /\ busy = {}
    /\ stopped = {}
    /\ closed = {}
    /\ exited = FALSE

Active == {q \in Requests : req[q] = "active"}

Accept(q) ==
    /\ serving
    /\ req[q] = "new"
    /\ req' = [req EXCEPT ![q] = "active"]
    /\ UNCHANGED <<mode, signalled, serving, drained, timedOut, busy, stopped, closed, exited>>

Finish(q) ==
    /\ ~exited
    /\ req[q] = "active"
    /\ req' = [req EXCEPT ![q] = "done"]
    /\ UNCHANGED <<mode, signalled, serving, drained, timedOut, busy, stopped, closed, exited>>

\* A ticker fires: Checker.check or RouteTable.Refresh starts, and returns.  The select
\* may still take the ticker when stopCh is closed as well, but not after the wait.
RoundStarts(b) ==
    /\ ~exited
    /\ b \notin busy \union closed
    /\ busy' = busy \union {b}
    /\ UNCHANGED <<mode, signalled, serving, req, drained, timedOut, stopped, closed, exited>>

RoundEnds(b) ==
    /\ ~exited
    /\ b \in busy
    /\ busy' = busy \ {b}
    /\ UNCHANGED <<mode, signalled, serving, req, drained, timedOut, stopped, closed, exited>>

\* The signal arrives; srv.Shutdown closes the listener first.
Signal ==
    /\ ~signalled
    /\ ~exited
    /\ signalled' = TRUE
    /\ serving' = FALSE
    /\ UNCHANGED <<mode, req, drained, timedOut, busy, stopped, closed, exited>>

\* Mutant of Drained: the requests in flight are not waited for.
DrainedAtOnce ==
    /\ signalled
    /\ ~exited
    /\ ~drained
    /\ drained' = TRUE
    /\ UNCHANGED <<mode, signalled, serving, req, timedOut, busy, stopped, closed, exited>>

\* srv.Shutdown returns when no connection is active ...
Drained ==
    /\ signalled
    /\ ~exited
    /\ ~drained
    /\ Active = {}
    /\ drained' = TRUE
    /\ UNCHANGED <<mode, signalled, serving, req, timedOut, busy, stopped, closed, exited>>

\* ... or when its context is over; the error is logged.
DrainTimesOut ==
    /\ signalled
    /\ ~exited
    /\ ~drained
    /\ drained' = TRUE
    /\ timedOut' = TRUE
    /\ UNCHANGED <<mode, signalled, serving, req, busy, stopped, closed, exited>>

\* The step the signal goroutine is at.
NextStep == Steps[SelectInSeq(Steps, LAMBDA s : s \notin closed)]

\* Checker.Stop and RouteTable.Close close stopCh ...
StopBackground ==
    /\ drained
    /\ ~exited
    /\ closed # Range(Steps)
    /\ NextStep \in Background \ stopped
    /\ stopped' = stopped \union {NextStep}
    /\ UNCHANGED <<mode, signalled, serving, req, drained, timedOut, busy, closed, exited>>

\* Mutant of CloseStep: done is not waited for.
CloseStepNoWait ==
    /\ drained
    /\ ~exited
    /\ closed # Range(Steps)
    /\ NextStep \in Background => NextStep \in stopped
    /\ closed' = closed \union {NextStep}
    /\ UNCHANGED <<mode, signalled, serving, req, drained, timedOut, busy, stopped, exited>>

\* ... and wait for done; closing the router closes the transports.  The other
\* steps close and return.
CloseStep ==
    /\ drained
    /\ ~exited
    /\ closed # Range(Steps)
    /\ NextStep \in Background => NextStep \in stopped \ busy
    /\ closed' = closed \union {NextStep}
    /\ UNCHANGED <<mode, signalled, serving, req, drained, timedOut, busy, stopped, exited>>

\* os.Exit(0) after the last step.
ShutdownComplete ==
    /\ ~exited
    /\ closed = Range(Steps)
    /\ exited' = TRUE
    /\ UNCHANGED <<mode, signalled, serving, req, drained, timedOut, busy, stopped, closed>>

\* ListenAndServe returns as soon as the listener is closed; main logs and
\* returns, which ends the process whatever the other goroutines are doing.
MainReturns ==
    /\ ~exited
    /\ ~serving
    /\ exited' = TRUE
    /\ UNCHANGED <<mode, signalled, serving, req, drained, timedOut, busy, stopped, closed>>

BackgroundStep ==
    \E b \in Background : RoundStarts(b) \/ RoundEnds(b)

-----------------------------------------------------------------------------
\* No request finds its services closed: nothing is closed while a request is
\* being served, unless shutdown_timeout was over.
DrainBeforeClose == closed # {} /\ ~timedOut => Active = {}

\* No background goroutine uses a closed transport: once the router has closed
\* them, neither a health check nor a refresh is under way or can start.
BackgroundStopsFirst ==
    "router" \in closed => busy = {} /\ Background \subseteq closed

\* README.md: "Stile handles `SIGINT`/`SIGTERM` by draining in-flight requests
\* before exiting."  Short of the timeout no request is cut off by the exit.
DrainsInFlight == exited /\ ~timedOut => Active = {}
=============================================================================
