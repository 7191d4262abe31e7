--------------------------- MODULE StdioTransport ---------------------------
(***************************************************************************)
(* internal/transport/stdio.go: one child process behind a mutex, spoken   *)
(* to in lines of JSON.  RoundTrip holds t.mu for its whole body except    *)
(* while restartWithBackoff sleeps; there other calls and Close get in.    *)
(*                                                                         *)
(* A step that cannot block is taken with its lock and unlock in one       *)
(* action; mu names the call that keeps the lock across a blocking step.   *)
(* The length of the backoff is left out: a sleeper wakes at any time.     *)
(* Lines fit in the scanner's buffer of 1 MB.                              *)
(***************************************************************************)
EXTENDS Naturals, Sequences

CONSTANTS
    Calls,          \* messages to send, each one RoundTrip
    Notifications,  \* those of them without an id: no response is read
    MaxProcs,       \* bound on the number of children start() spawns
    MaxRestarts,    \* t.maxRestarts
    MaxSkip,        \* maxSkip of readJSONResponse
    Chatter,        \* lines the child writes unasked: "log" is not JSON,
                    \*   "notice" is a JSON-RPC message that is no response
    MaxChatter      \* bound on the number of such lines

ASSUME StdioAssumption ==
    /\ Notifications \subseteq Calls
    /\ Calls \intersect {"free", "ping", "log", "notice", "none", "error", "accepted"} = {}
    /\ MaxProcs \in Nat
    /\ MaxRestarts \in Nat
    /\ MaxSkip \in Nat \ {0}
    /\ Chatter \subseteq {"log", "notice"}
    /\ MaxChatter \in Nat

VARIABLES
    mu,             \* call that holds t.mu while it blocks, or Free
    cmd,            \* t.cmd, or NoProc: t.started is cmd # NoProc
    closed,         \* t.closed
    restartCount,   \* t.restartCount
    permanentFail,  \* t.permanentFail
    pc,             \* where each call is
    skipped,        \* lines skipped by the readJSONResponse in progress
    got,            \* what RoundTrip returned
    proc,           \* life of each child
    stdin,          \* lines written to a child and not read by it
    stdout,         \* lines written by a child and not read by the gateway
    execs,          \* history: how often children executed a message
    chats           \* chatter lines written so far

vars == <<mu, cmd, closed, restartCount, permanentFail, pc, skipped, got,
          proc, stdin, stdout, execs, chats>>
transportVars == <<mu, cmd, closed, restartCount, permanentFail, pc, skipped, got>>
childVars == <<proc, stdin, stdout, execs, chats>>

Free == "free"
Procs == 1..MaxProcs   \* children, in the order they are spawned
NoProc == 0
Ping == "ping"   \* the request of verifyStartup, and the reply to it

\* "write"    ensureRunning is done, Encode(req) comes next
\* "read"     in readJSONResponse
\* "sleepW"   in the backoff of the restart after a failed write
\* "verifyW"  in verifyStartup of that restart
\* "rewrite"  Encode(req) after it
\* "sleepR", "verifyR", "resend": the same after a failed read
\* "reread"   in the second readJSONResponse
Holding == {"write", "read", "verifyW", "rewrite", "verifyR", "resend", "reread"}
Locations == Holding \union {"new", "sleepW", "sleepR", "done"}
Replies == {"none", "error", "accepted", "notice", Ping} \union Calls

Init ==
    /\ mu = Free
    /\ cmd = NoProc
    /\ closed = FALSE
    /\ restartCount = 0
    /\ permanentFail = FALSE
    /\ pc = [c \in Calls |-> "new"]
    /\ skipped = 0
    /\ got = [c \in Calls |-> "none"]
    /\ proc = [p \in Procs |-> "unused"]
    /\ stdin = [p \in Procs |-> <<>>]
    /\ stdout = [p \in Procs |-> <<>>]
    /\ execs = [c \in Calls |-> 0]
    /\ chats = 0

-----------------------------------------------------------------------------
(* Helpers                                                                 *)

Goto(c, loc) == pc' = [pc EXCEPT ![c] = loc]

\* RoundTrip of c returns r and its deferred unlock runs.
Return(c, r) ==
    /\ Goto(c, "done")
    /\ got' = [got EXCEPT ![c] = r]
    /\ mu' = Free

\* A child that exited stays a zombie until Wait, which only killProcess and
\* cleanup call, and both forget cmd; signal 0 is delivered to a zombie.
SignalZero(p) == proc[p] \in {"running", "exited"}

processAlive == cmd # NoProc /\ SignalZero(cmd)

\* start(): the new child replaces t.cmd, whatever t.cmd was.
Spawn(p) ==
    /\ proc[p] = "unused"
    /\ \A q \in Procs : q < p => proc[q] # "unused"
    /\ cmd' = p

\* killProcess ends and reaps the child; SIGKILL follows an ignored SIGTERM.
Killed ==
    IF cmd = NoProc THEN proc
    ELSE [proc EXCEPT ![cmd] = IF @ = "running" THEN "killed" ELSE "reaped"]

Writable == proc[cmd] = "running"
AtEOF == proc[cmd] # "running" /\ stdout[cmd] = <<>>

\* Encode(m) to a running child.
Encode(m) == stdin' = [stdin EXCEPT ![cmd] = Append(@, m)]

\* Mutant of RestartUnlock: the error return at the limit keeps the lock.
RestartUnlockLeaks(c, sleep) ==
    /\ proc' = Killed
    /\ cmd' = NoProc
    /\ restartCount' = restartCount + 1
    /\ IF restartCount + 1 > MaxRestarts
       THEN /\ permanentFail' = TRUE
            /\ Goto(c, "done")
            /\ got' = [got EXCEPT ![c] = "error"]
            /\ UNCHANGED mu
       ELSE /\ Goto(c, sleep)
            /\ mu' = Free
            /\ UNCHANGED <<permanentFail, got>>

\* restartWithBackoff up to its sleep: past the limit the transport is marked
\* and the call fails, otherwise the lock is released for the backoff.
RestartUnlock(c, sleep) ==
    /\ proc' = Killed
    /\ cmd' = NoProc
    /\ restartCount' = restartCount + 1
    /\ IF restartCount + 1 > MaxRestarts
       THEN permanentFail' = TRUE /\ Return(c, "error")
       ELSE /\ Goto(c, sleep)
            /\ mu' = Free
            /\ UNCHANGED <<permanentFail, got>>

-----------------------------------------------------------------------------
(* RoundTrip                                                               *)

\* The transport is closed or permanently failed.
Reject(c) ==
    /\ pc[c] = "new" /\ mu = Free
    /\ closed \/ permanentFail
    /\ Return(c, "error")
    /\ UNCHANGED <<cmd, closed, restartCount, permanentFail, skipped, childVars>>

\* ensureRunning finds a live child or starts one.
EnsureRunning(c) ==
    /\ pc[c] = "new" /\ mu = Free
    /\ ~closed /\ ~permanentFail
    /\ \/ /\ processAlive
          /\ UNCHANGED <<cmd, proc>>
       \/ /\ ~processAlive
          /\ \E p \in Procs :
                Spawn(p) /\ proc' = [proc EXCEPT ![p] = "running"]
    /\ Goto(c, "write")
    /\ mu' = c
    /\ UNCHANGED <<closed, restartCount, permanentFail, skipped, got,
                   stdin, stdout, execs, chats>>

\* start() fails in ensureRunning: t.cmd is left without a process.
StartFails(c) ==
    /\ pc[c] = "new" /\ mu = Free
    /\ ~closed /\ ~permanentFail /\ ~processAlive
    /\ cmd' = NoProc
    /\ Return(c, "error")
    /\ UNCHANGED <<closed, restartCount, permanentFail, skipped, childVars>>

\* A message is written: a notification returns at once, a request reads.
Written(c, reading) ==
    /\ Encode(c)
    /\ IF c \in Notifications
       THEN Return(c, "accepted") /\ UNCHANGED skipped
       ELSE /\ Goto(c, reading)
            /\ skipped' = 0
            /\ UNCHANGED <<mu, got>>

Write(c) ==
    /\ pc[c] = "write"
    /\ Writable
    /\ Written(c, "read")
    /\ UNCHANGED <<cmd, closed, restartCount, permanentFail, proc, stdout, execs, chats>>

WriteFails(c) ==
    /\ pc[c] = "write"
    /\ ~Writable
    /\ RestartUnlock(c, "sleepW")
    /\ UNCHANGED <<closed, skipped, stdin, stdout, execs, chats>>

\* Encode(req) on the restarted child.
Rewrite(c) ==
    /\ pc[c] \in {"rewrite", "resend"}
    /\ Writable
    /\ Written(c, IF pc[c] = "rewrite" THEN "read" ELSE "reread")
    /\ UNCHANGED <<cmd, closed, restartCount, permanentFail, proc, stdout, execs, chats>>

RewriteFails(c) ==
    /\ pc[c] \in {"rewrite", "resend"}
    /\ ~Writable
    /\ Return(c, "error")
    /\ UNCHANGED <<cmd, closed, restartCount, permanentFail, skipped, childVars>>

\* readJSONResponse takes the next line.  Whatever parses as a JSON object is
\* the response: neither the id nor the presence of a result is looked at.
ReadLine(c) ==
    /\ pc[c] \in {"read", "reread"}
    /\ stdout[cmd] # <<>>
    /\ skipped < MaxSkip
    /\ stdout' = [stdout EXCEPT ![cmd] = Tail(@)]
    /\ IF Head(stdout[cmd]) = "log"
       THEN /\ skipped' = skipped + 1
            /\ UNCHANGED <<mu, pc, got, restartCount>>
       ELSE /\ Return(c, Head(stdout[cmd]))
            /\ restartCount' = 0            \* ResetBackoff
            /\ UNCHANGED skipped
    /\ UNCHANGED <<cmd, closed, permanentFail, proc, stdin, execs, chats>>

ReadFailed == AtEOF \/ skipped = MaxSkip

\* The first read fails: restart, then resend the same request.
ReadFails(c) ==
    /\ pc[c] = "read"
    /\ ReadFailed
    /\ RestartUnlock(c, "sleepR")
    /\ UNCHANGED <<closed, skipped, stdin, stdout, execs, chats>>

\* Mutant of RereadFails: the second failure restarts and resends again.
RereadFailsRestart(c) ==
    /\ pc[c] = "reread"
    /\ ReadFailed
    /\ RestartUnlock(c, "sleepR")
    /\ UNCHANGED <<closed, skipped, stdin, stdout, execs, chats>>

RereadFails(c) ==
    /\ pc[c] = "reread"
    /\ ReadFailed
    /\ Return(c, "error")
    /\ UNCHANGED <<cmd, closed, restartCount, permanentFail, skipped, childVars>>

\* Mutant of Wake: closed is not looked at after the backoff.
WakeClosed(c) ==
    /\ pc[c] \in {"sleepW", "sleepR"} /\ mu = Free
    /\ \E p \in Procs :
          /\ Spawn(p)
          /\ proc' = [proc EXCEPT ![p] = "running"]
          /\ stdin' = [stdin EXCEPT ![p] = <<Ping>>]
    /\ Goto(c, IF pc[c] = "sleepW" THEN "verifyW" ELSE "verifyR")
    /\ mu' = c
    /\ UNCHANGED <<closed, restartCount, permanentFail, skipped, got,
                   stdout, execs, chats>>

\* restartWithBackoff after its sleep: the lock is taken again, closed is the
\* only field that is looked at, and a child is started and pinged.
Wake(c) ==
    /\ pc[c] \in {"sleepW", "sleepR"} /\ mu = Free
    /\ ~closed
    /\ \E p \in Procs :
          /\ Spawn(p)
          /\ proc' = [proc EXCEPT ![p] = "running"]
          /\ stdin' = [stdin EXCEPT ![p] = <<Ping>>]
    /\ Goto(c, IF pc[c] = "sleepW" THEN "verifyW" ELSE "verifyR")
    /\ mu' = c
    /\ UNCHANGED <<closed, restartCount, permanentFail, skipped, got,
                   stdout, execs, chats>>

\* The transport was closed during the backoff, or start() fails; then t.cmd is
\* a command without a process, whatever it was before.
WakeFails(c) ==
    /\ pc[c] \in {"sleepW", "sleepR"} /\ mu = Free
    /\ cmd' = IF closed THEN cmd ELSE NoProc
    /\ Return(c, "error")
    /\ UNCHANGED <<closed, restartCount, permanentFail, skipped, childVars>>

\* verifyStartup takes one line, whatever it is.
Verified(c) ==
    /\ pc[c] \in {"verifyW", "verifyR"}
    /\ stdout[cmd] # <<>>
    /\ stdout' = [stdout EXCEPT ![cmd] = Tail(@)]
    /\ Goto(c, IF pc[c] = "verifyW" THEN "rewrite" ELSE "resend")
    /\ UNCHANGED <<mu, cmd, closed, restartCount, permanentFail, skipped, got,
                   proc, stdin, execs, chats>>

VerifyEOF(c) ==
    /\ pc[c] \in {"verifyW", "verifyR"}
    /\ AtEOF
    /\ Return(c, "error")
    /\ UNCHANGED <<cmd, closed, restartCount, permanentFail, skipped, childVars>>

\* Mutant of VerifyTimeout: the child that was too slow is kept.
VerifyTimeoutNoKill(c) ==
    /\ pc[c] \in {"verifyW", "verifyR"}
    /\ Return(c, "error")
    /\ UNCHANGED <<cmd, closed, restartCount, permanentFail, skipped, childVars>>

\* startupTimeout expires: the child is killed.
VerifyTimeout(c) ==
    /\ pc[c] \in {"verifyW", "verifyR"}
    /\ proc' = Killed
    /\ cmd' = NoProc
    /\ Return(c, "error")
    /\ UNCHANGED <<closed, restartCount, permanentFail, skipped,
                   stdin, stdout, execs, chats>>

-----------------------------------------------------------------------------
\* Mutant of Close: t.mu is not taken.
CloseUnlocked ==
    /\ ~closed
    /\ closed' = TRUE
    /\ proc' = Killed
    /\ cmd' = NoProc
    /\ UNCHANGED <<mu, restartCount, permanentFail, pc, skipped, got,
                   stdin, stdout, execs, chats>>

Close ==
    /\ mu = Free
    /\ ~closed
    /\ closed' = TRUE
    /\ proc' = Killed
    /\ cmd' = NoProc
    /\ UNCHANGED <<mu, restartCount, permanentFail, pc, skipped, got,
                   stdin, stdout, execs, chats>>

-----------------------------------------------------------------------------
(* The child: reads its input in order, answers requests, may exit.        *)

Execute(p) ==
    /\ proc[p] = "running"
    /\ stdin[p] # <<>>
    /\ LET m == Head(stdin[p]) IN
       /\ stdin' = [stdin EXCEPT ![p] = Tail(@)]
       /\ stdout' = IF m \in Notifications THEN stdout
                    ELSE [stdout EXCEPT ![p] = Append(@, m)]
       /\ execs' = IF m = Ping THEN execs ELSE [execs EXCEPT ![m] = @ + 1]
    /\ UNCHANGED <<transportVars, proc, chats>>

\* The child takes effect and dies before it answers.
ExecuteAndExit(p) ==
    /\ proc[p] = "running"
    /\ stdin[p] # <<>>
    /\ LET m == Head(stdin[p]) IN
       /\ stdin' = [stdin EXCEPT ![p] = Tail(@)]
       /\ execs' = IF m = Ping THEN execs ELSE [execs EXCEPT ![m] = @ + 1]
    /\ proc' = [proc EXCEPT ![p] = "exited"]
    /\ UNCHANGED <<transportVars, stdout, chats>>

Chat(p) ==
    /\ proc[p] = "running"
    /\ chats < MaxChatter
    /\ chats' = chats + 1
    /\ \E line \in Chatter : stdout' = [stdout EXCEPT ![p] = Append(@, line)]
    /\ UNCHANGED <<transportVars, proc, stdin, execs>>

Exit(p) ==
    /\ proc[p] = "running"
    /\ proc' = [proc EXCEPT ![p] = "exited"]
    /\ UNCHANGED <<transportVars, stdin, stdout, execs, chats>>

-----------------------------------------------------------------------------
\* Steps of a RoundTrip that has taken the lock once.
RoundTripStep(c) ==
    \/ Write(c) \/ WriteFails(c) \/ Rewrite(c) \/ RewriteFails(c)
    \/ ReadLine(c) \/ ReadFails(c) \/ RereadFails(c)
    \/ Wake(c) \/ WakeFails(c)
    \/ Verified(c) \/ VerifyEOF(c) \/ VerifyTimeout(c)

Next ==
    \/ \E c \in Calls :
          Reject(c) \/ EnsureRunning(c) \/ StartFails(c) \/ RoundTripStep(c)
    \/ Close
    \/ \E p \in Procs : Execute(p) \/ ExecuteAndExit(p) \/ Chat(p) \/ Exit(p)

Spec == Init /\ [][Next]_vars

\* The gateway's goroutines run, timers fire and the mutex is granted.
GatewayFair == \A c \in Calls : WF_vars(RoundTripStep(c))

\* A child that keeps running answers what it reads: RoundTrip reads without a
\* deadline and depends on it.
AnsweringSpec ==
    /\ Spec
    /\ GatewayFair
    /\ \A p \in Procs : WF_vars(Execute(p))

-----------------------------------------------------------------------------
(* Properties                                                              *)

\* A call that blocks on the child has a child and is the only one that does:
\* the fields of the transport are never read through a t.cmd, t.stdin or
\* t.stdout that another call has cleared or replaced.
BlockedCallOwnsChild ==
    \A c \in Calls :
        pc[c] \in Holding => mu = c /\ cmd # NoProc /\ SignalZero(cmd)

\* A response goes to the request it answers, through every crash, restart and
\* resend, as long as children write nothing but responses: positions in the
\* stream are all that ties a response to its request.
ResponseMatchesRequest ==
    chats = 0 => \A c \in Calls : got[c] \in {"none", "error", "accepted", c}

\* "Try restart once and resend": no message is executed more than twice.
AtMostTwice == \A c \in Calls : execs[c] <= 2

\* Some child exited by itself.
Crashed == \E p \in Procs : proc[p] \in {"exited", "reaped"}

\* The transport implements StdioService: RoundTrip, with all its locking,
\* restarting and resending, keeps what StdioService promises of answers and of
\* effects in the children.
Service == INSTANCE StdioService WITH
    answer <- got,
    effects <- execs,
    crashed <- Crashed,
    garbled <- chats # 0
ServiceSafety == Service!Spec

\* Liveness: if running children answer, every RoundTrip that got the lock
\* returns.
RoundTripReturns ==
    \A c \in Calls : (pc[c] # "new") ~> (pc[c] = "done")
=============================================================================
