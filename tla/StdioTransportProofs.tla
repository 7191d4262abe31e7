------------------------ MODULE StdioTransportProofs ------------------------
(***************************************************************************)
(* The lock and the child it protects, the match of responses to requests  *)
(* by their position in the stream, and the bound on executions, for any   *)
(* number of calls, children and restarts.                                 *)
(***************************************************************************)
EXTENDS StdioTransport, SequenceTheorems, TLAPS

Messages == Calls \union {Ping}
Lines == Messages \union Chatter
Lives == {"unused", "running", "exited", "killed", "reaped"}

Typed ==
    /\ mu \in Calls \union {Free}
    /\ cmd \in Procs \union {NoProc}
    /\ closed \in BOOLEAN /\ permanentFail \in BOOLEAN
    /\ pc \in [Calls -> Locations]
    /\ skipped \in Nat
    /\ got \in [Calls -> Replies]
    /\ proc \in [Procs -> Lives]
    /\ stdin \in [Procs -> Seq(Messages)]
    /\ stdout \in [Procs -> Seq(Lines)]
    /\ execs \in [Calls -> Nat]
    /\ chats \in Nat

\* The lock is held by the call that blocks; t.cmd is a child that nobody has reaped.
Locked ==
    /\ \A c \in Calls : pc[c] \in Holding <=> mu = c
    /\ \A c \in Calls : pc[c] \in Holding => cmd # NoProc
    /\ cmd # NoProc => SignalZero(cmd)

\* A child that has not been spawned has empty pipes, and a notification is not read for.
Untouched ==
    /\ \A p \in Procs : proc[p] = "unused" => stdin[p] = <<>> /\ stdout[p] = <<>>
    /\ \A c \in Notifications : pc[c] \notin {"read", "sleepR", "verifyR", "resend", "reread"}

\* What may be in a pipe: notifications only, or notifications and then x.
Notes(s) == \A i \in DOMAIN s : s[i] \in Notifications
Queued(s, x) ==
    /\ s # <<>> /\ s[Len(s)] = x
    /\ \A i \in 1 .. Len(s) - 1 : s[i] \in Notifications

Running(p) == proc[p] = "running"

\* Nothing is on its way from child p, and nothing will be.
Quiet(p) == stdout[p] = <<>> /\ (Running(p) => Notes(stdin[p]))

\* The reply to x is on its way from child p, or will be unless the child exits; and
\* nothing else is.
Answering(p, x) ==
    \/ stdout[p] = <<>> /\ (Running(p) => Queued(stdin[p], x))
    \/ stdout[p] = <<x>> /\ (Running(p) => stdin[p] = <<>>)

\* The stream and the request are in step as long as children do not chat.
InStep ==
    chats = 0 =>
        /\ skipped = 0
        /\ mu = Free /\ cmd # NoProc => Quiet(cmd)
        /\ \A c \in Calls :
            /\ pc[c] \in {"write", "rewrite", "resend"} => Quiet(cmd)
            /\ pc[c] \in {"verifyW", "verifyR"} => Answering(cmd, Ping)
            /\ pc[c] \in {"read", "reread"} => Answering(cmd, c)

\* Message m is in s; no message of a call is there twice.
Holds(s, m) == \E i \in DOMAIN s : s[i] = m
Once(s) == \A i, j \in DOMAIN s : s[i] = s[j] /\ s[i] \in Calls => i = j

\* A child that can execute c has yet to do so.
Pending(c) == \E p \in Procs : Running(p) /\ Holds(stdin[p], c)

\* At most one running child has c, once.
OnePending ==
    /\ \A p \in Procs : Running(p) => Once(stdin[p])
    /\ \A p, q \in Procs, c \in Calls :
          Running(p) /\ Running(q) /\ Holds(stdin[p], c) /\ Holds(stdin[q], c) => p = q

\* How often c has been executed, by what its RoundTrip has done so far.
Counted(c) ==
    /\ pc[c] \in {"new", "write", "sleepW", "verifyW", "rewrite"} => execs[c] = 0 /\ ~Pending(c)
    /\ pc[c] = "read" => execs[c] <= 1 /\ (Pending(c) => execs[c] = 0)
    /\ pc[c] \in {"read", "reread"} =>
          \A p \in Procs : Running(p) /\ Holds(stdin[p], c) => p = cmd
    /\ pc[c] \in {"sleepR", "verifyR", "resend"} => execs[c] <= 1 /\ ~Pending(c)
    /\ pc[c] \in {"reread", "done"} => execs[c] <= 2 /\ (Pending(c) => execs[c] <= 1)

IInv ==
    /\ Typed /\ Locked /\ Untouched
    /\ InStep /\ ResponseMatchesRequest
    /\ OnePending /\ \A c \in Calls : Counted(c)

-----------------------------------------------------------------------------
(* What a line written to a pipe, and one read from it, do to these.       *)

\* A line that is written comes last.
LEMMA AppendFacts ==
    ASSUME NEW s \in Seq(Messages), NEW m \in Messages
    PROVE  /\ Append(s, m) \in Seq(Messages)
           /\ \A x : Holds(Append(s, m), x) <=> Holds(s, x) \/ x = m
           /\ Once(s) /\ ~Holds(s, m) => Once(Append(s, m))
           /\ Notes(s) => Queued(Append(s, m), m)
           /\ Notes(s) /\ m \in Notifications => Notes(Append(s, m))
<1> DEFINE t == Append(s, m)
           n == Len(s)
<1>1. /\ t \in Seq(Messages) /\ t # <<>> /\ Len(t) = n + 1 /\ n \in Nat
      /\ DOMAIN s = 1..n /\ DOMAIN t = 1..(n + 1)
      /\ \A i \in 1..n : t[i] = s[i]
      /\ t[n + 1] = m
    BY AppendProperties
<1> HIDE DEF t, n
<1>2. \A x : Holds(t, x) <=> Holds(s, x) \/ x = m
    BY <1>1 DEF Holds
<1>3. Once(s) /\ ~Holds(s, m) => Once(t)
    BY <1>1 DEF Once, Holds
<1>4. Notes(s) => Queued(t, m)
    BY <1>1 DEF Notes, Queued
<1>5. Notes(s) /\ m \in Notifications => Notes(t)
    BY <1>1 DEF Notes
<1> QED BY <1>1, <1>2, <1>3, <1>4, <1>5 DEF t

\* A line that is read was the first.
LEMMA TailFacts ==
    ASSUME NEW s \in Seq(Messages), s # <<>>
    PROVE  /\ Head(s) \in Messages /\ Tail(s) \in Seq(Messages)
           /\ Holds(s, Head(s))
           /\ \A x : Holds(Tail(s), x) => Holds(s, x)
           /\ Once(s) => Once(Tail(s)) /\ (Head(s) \in Calls => ~Holds(Tail(s), Head(s)))
           /\ Notes(s) => Head(s) \in Notifications /\ Notes(Tail(s))
           /\ \A x : Queued(s, x) => \/ Head(s) \in Notifications /\ Queued(Tail(s), x)
                                     \/ Head(s) = x /\ Tail(s) = <<>>
<1> DEFINE t == Tail(s)
           h == Head(s)
           n == Len(s)
<1>1. /\ h \in Messages /\ t \in Seq(Messages) /\ Len(t) = n - 1 /\ n \in Nat \ {0}
      /\ DOMAIN s = 1..n /\ DOMAIN t = 1..(n - 1)
      /\ \A i \in 1..(n - 1) : t[i] = s[i + 1]
      /\ h = s[1]
    BY HeadTailProperties, EmptySeq
<1>2. n = 1 => t = <<>>
    BY <1>1, EmptySeq
<1>3. n # 1 => t # <<>>
    BY <1>1
<1> HIDE DEF t, h, n
<1>4. Holds(s, h) /\ \A x : Holds(t, x) => Holds(s, x)
    <2>1. Holds(s, h)
        BY <1>1 DEF Holds
    <2>2. ASSUME NEW x, Holds(t, x) PROVE Holds(s, x)
        <3>1. PICK i \in 1..(n - 1) : t[i] = x
            BY <1>1, <2>2 DEF Holds
        <3>2. i + 1 \in 1..n /\ s[i + 1] = x
            BY <1>1, <3>1
        <3> QED BY <1>1, <3>2 DEF Holds
    <2> QED BY <2>1, <2>2
<1>5. ASSUME Once(s) PROVE Once(t) /\ (h \in Calls => ~Holds(t, h))
    <2>1. ASSUME NEW i \in 1..(n - 1), NEW j \in 1..(n - 1), t[i] = t[j], t[i] \in Calls
          PROVE  i = j
        <3>1. s[i + 1] = s[j + 1] /\ s[i + 1] \in Calls /\ i + 1 \in 1..n /\ j + 1 \in 1..n
            BY <1>1, <2>1
        <3>2. i + 1 = j + 1
            BY <1>1, <1>5, <3>1 DEF Once
        <3> QED BY <3>2
    <2>2. ASSUME h \in Calls, NEW i \in 1..(n - 1), t[i] = h PROVE FALSE
        <3>1. s[i + 1] = s[1] /\ s[i + 1] \in Calls /\ i + 1 \in 1..n /\ 1 \in 1..n
            BY <1>1, <2>2
        <3>2. i + 1 = 1
            BY <1>1, <1>5, <3>1 DEF Once
        <3> QED BY <3>2
    <2> QED BY <1>1, <2>1, <2>2 DEF Once, Holds
<1>6. Notes(s) => h \in Notifications /\ Notes(t)
    BY <1>1 DEF Notes
<1>7. ASSUME NEW x, Queued(s, x)
      PROVE  (h \in Notifications /\ Queued(t, x)) \/ (h = x /\ t = <<>>)
    <2>1. CASE n = 1
        BY <1>1, <1>2, <1>7, <2>1 DEF Queued, n
    <2>2. CASE n # 1
        <3>1. n - 1 \in 1..(n - 1) /\ t[n - 1] = s[n] /\ s[n] = x
            BY <1>1, <1>7, <2>2 DEF Queued, n
        <3>2. \A i \in 1..(n - 1) : s[i] \in Notifications
            BY <1>7 DEF Queued, n
        <3>3. \A i \in 1..(n - 1) - 1 : t[i] \in Notifications
            BY <1>1, <3>2
        <3>4. h \in Notifications
            BY <1>1, <2>2, <3>2
        <3> QED BY <1>1, <1>3, <2>2, <3>1, <3>3, <3>4 DEF Queued
    <2> QED BY <2>1, <2>2
<1> QED BY <1>1, <1>4, <1>5, <1>6, <1>7 DEF t, h

-----------------------------------------------------------------------------
(* Types and the lock.                                                     *)

\* The steps that return an error and leave the child alone.
GivesUp(c) ==
    \/ Reject(c) \/ StartFails(c) \/ WakeFails(c) \/ RewriteFails(c) \/ RereadFails(c)
    \/ VerifyEOF(c)

\* The steps that kill the child and may go to sleep.
Restarts(c) == WriteFails(c) \/ ReadFails(c)

Child(p) == Execute(p) \/ ExecuteAndExit(p) \/ Chat(p) \/ Exit(p)

\* The steps of a call by what they do, those of Close and those of a child.
LEMMA NextCases ==
    ASSUME Next
    PROVE  \/ \E c \in Calls :
                \/ GivesUp(c) \/ Restarts(c) \/ EnsureRunning(c) \/ Write(c) \/ Rewrite(c)
                \/ ReadLine(c) \/ Wake(c) \/ Verified(c) \/ VerifyTimeout(c)
           \/ Close
           \/ \E p \in Procs : Child(p)
BY DEF Next, RoundTripStep, GivesUp, Restarts, Child

\* killProcess reaps the current child and no other.
LEMMA KilledFacts ==
    ASSUME Typed
    PROVE  /\ Killed \in [Procs -> Lives]
           /\ \A p \in Procs : Killed[p] = IF p # cmd THEN proc[p]
                                       ELSE IF Running(p) THEN "killed" ELSE "reaped"
BY DEF Killed, Typed, Procs, NoProc, Lives, Running

\* Every step keeps the types.
LEMMA TypedStep ==
    ASSUME Typed, Locked, Next
    PROVE  Typed'
<1> USE StdioAssumption DEF Typed, Lives, Goto, Return, childVars, Locations, Holding, Replies
<1>1. ASSUME NEW c \in Calls, GivesUp(c) PROVE Typed'
    BY <1>1 DEF GivesUp, Reject, StartFails, WakeFails, RewriteFails, RereadFails, VerifyEOF
<1>2. ASSUME NEW c \in Calls, Restarts(c) PROVE Typed'
    BY <1>2, KilledFacts DEF Restarts, WriteFails, ReadFails, RestartUnlock
<1>3. ASSUME NEW c \in Calls, EnsureRunning(c) PROVE Typed'
    BY <1>3 DEF EnsureRunning, Spawn
<1>4. ASSUME NEW c \in Calls, Write(c) \/ Rewrite(c) PROVE Typed'
    <2>1. stdin' \in [Procs -> Seq(Messages)]
        <3>1. c \in Messages
            BY DEF Messages
        <3>2. stdin' = [stdin EXCEPT ![cmd] = Append(@, c)]
            BY <1>4 DEF Write, Rewrite, Written, Encode
        <3>3. cmd \in Procs
            BY <1>4 DEF Write, Rewrite, Locked
        <3>4. Append(stdin[cmd], c) \in Seq(Messages)
            BY <3>1, <3>3, AppendFacts
        <3> QED BY <3>2, <3>4
    <2>2. mu' \in {mu, Free} /\ skipped' \in {skipped, 0}
        BY <1>4 DEF Write, Rewrite, Written
    <2>3. \E loc \in {"done", "read", "reread"} : pc' = [pc EXCEPT ![c] = loc]
        BY <1>4 DEF Write, Rewrite, Written
    <2>4. got' = got \/ got' = [got EXCEPT ![c] = "accepted"]
        BY <1>4 DEF Write, Rewrite, Written
    <2>5. pc' \in [Calls -> Locations] /\ got' \in [Calls -> Replies]
        BY <2>3, <2>4
    <2> QED BY <1>4, <2>1, <2>2, <2>5 DEF Write, Rewrite
<1>5. ASSUME NEW c \in Calls, ReadLine(c) PROVE Typed'
    <2>1. cmd \in Procs
        BY <1>5 DEF ReadLine, Locked
    <2>2. Head(stdout[cmd]) \in Lines /\ Tail(stdout[cmd]) \in Seq(Lines)
        BY <1>5, <2>1 DEF ReadLine
    <2>3. stdout' \in [Procs -> Seq(Lines)]
        BY <1>5, <2>1, <2>2 DEF ReadLine
    <2>4. Head(stdout[cmd]) # "log" => Head(stdout[cmd]) \in Replies
        BY <2>2 DEF Lines, Messages
    <2>5. CASE Head(stdout[cmd]) = "log"
        BY <1>5, <2>3, <2>5 DEF ReadLine
    <2>6. CASE Head(stdout[cmd]) # "log"
        <3>1. got' \in [Calls -> Replies]
            BY <1>5, <2>4, <2>6 DEF ReadLine
        <3>2. pc' \in [Calls -> Locations] /\ mu' = Free /\ skipped' = skipped
            BY <1>5, <2>6 DEF ReadLine
        <3> QED BY <1>5, <2>3, <3>1, <3>2 DEF ReadLine
    <2> QED BY <2>5, <2>6
<1>6. ASSUME NEW c \in Calls, Wake(c) PROVE Typed'
    <2>1. <<Ping>> \in Seq(Messages)
        BY DEF Messages
    <2> QED BY <1>6, <2>1 DEF Wake, Spawn
<1>7. ASSUME NEW c \in Calls, Verified(c) PROVE Typed'
    <2>1. cmd \in Procs
        BY <1>7 DEF Verified, Locked
    <2>2. Tail(stdout[cmd]) \in Seq(Lines)
        BY <1>7, <2>1 DEF Verified
    <2> QED BY <1>7, <2>1, <2>2 DEF Verified
<1>8. ASSUME NEW c \in Calls, VerifyTimeout(c) PROVE Typed'
    BY <1>8, KilledFacts DEF VerifyTimeout
<1>9. CASE Close
    BY <1>9, KilledFacts DEF Close
<1>10. ASSUME NEW p \in Procs, Child(p) PROVE Typed'
    <2> USE DEF transportVars
    <2>1. CASE Execute(p)
        <3>1. Head(stdin[p]) \in Messages /\ Tail(stdin[p]) \in Seq(Messages)
            BY <2>1, TailFacts DEF Execute
        <3>2. Head(stdin[p]) \in Lines /\ Append(stdout[p], Head(stdin[p])) \in Seq(Lines)
            BY <3>1 DEF Lines
        <3> QED BY <2>1, <3>1, <3>2 DEF Execute, Messages
    <2>2. CASE ExecuteAndExit(p)
        <3>1. Head(stdin[p]) \in Messages /\ Tail(stdin[p]) \in Seq(Messages)
            BY <2>2, TailFacts DEF ExecuteAndExit
        <3> QED BY <2>2, <3>1 DEF ExecuteAndExit, Messages
    <2>3. CASE Chat(p)
        <3>1. \A line \in Chatter : Append(stdout[p], line) \in Seq(Lines)
            BY DEF Lines
        <3> QED BY <2>3, <3>1 DEF Chat
    <2>4. CASE Exit(p)
        BY <2>4 DEF Exit
    <2> QED BY <1>10, <2>1, <2>2, <2>3, <2>4 DEF Child
<1> QED BY <1>1, <1>2, <1>3, <1>4, <1>5, <1>6, <1>7, <1>8, <1>9, <1>10, NextCases

\* The lock is kept or taken by a call that goes on with a child, and is free after
\* one that does not.
LEMMA LockMoves ==
    ASSUME Typed, Locked, NEW c \in Calls, NEW loc \in Locations, Goto(c, loc),
           mu = c \/ mu = Free,
           loc \in Holding => mu' = c /\ cmd' # NoProc,
           loc \notin Holding => mu' = Free,
           cmd' # NoProc => SignalZero(cmd)'
    PROVE  Locked'
<1>1. \A d \in Calls : pc'[d] = IF d = c THEN loc ELSE pc[d]
    BY DEF Goto, Typed
<1>2. Free \notin Calls
    BY StdioAssumption DEF Free
<1>3. \A d \in Calls \ {c} : pc[d] \notin Holding
    BY <1>2 DEF Locked
<1>4. \A d \in Calls : pc'[d] \in Holding <=> mu' = d
    <2>1. CASE loc \in Holding
        BY <1>1, <1>3, <2>1
    <2>2. CASE loc \notin Holding
        BY <1>1, <1>2, <1>3, <2>2
    <2> QED BY <2>1, <2>2
<1>5. \A d \in Calls : pc'[d] \in Holding => cmd' # NoProc
    BY <1>1, <1>3
<1> QED BY <1>4, <1>5 DEF Locked

\* The lock and t.cmd: a call that blocks has both.
LEMMA LockedStep ==
    ASSUME Typed, Locked, Next
    PROVE  Locked'
<1> USE DEF Locations, Holding, Return
<1>0. NoProc \notin Procs
    BY DEF NoProc, Procs
<1>1. ASSUME NEW c \in Calls, GivesUp(c) PROVE Locked'
    <2>1. Goto(c, "done") /\ mu' = Free /\ cmd' \in {cmd, NoProc} /\ UNCHANGED proc
        BY <1>1 DEF GivesUp, Reject, StartFails, WakeFails, RewriteFails, RereadFails, VerifyEOF,
           childVars
    <2>2. mu = c \/ mu = Free
        BY <1>1 DEF GivesUp, Reject, StartFails, WakeFails, RewriteFails, RereadFails, VerifyEOF, Locked
    <2>3. cmd' # NoProc => SignalZero(cmd)'
        BY <2>1 DEF Locked, SignalZero
    <2> QED BY <2>1, <2>2, <2>3, LockMoves
<1>2. ASSUME NEW c \in Calls, Restarts(c) PROVE Locked'
    <2>1. PICK loc \in {"done", "sleepW", "sleepR"} : Goto(c, loc) /\ mu' = Free /\ cmd' = NoProc
        BY <1>2 DEF Restarts, WriteFails, ReadFails, RestartUnlock
    <2>2. mu = c
        BY <1>2 DEF Restarts, WriteFails, ReadFails, Locked
    <2> QED BY <2>1, <2>2, LockMoves
<1>3. ASSUME NEW c \in Calls, EnsureRunning(c) PROVE Locked'
    <2>1. Goto(c, "write") /\ mu = Free /\ mu' = c
        BY <1>3 DEF EnsureRunning
    <2>2. cmd' # NoProc /\ SignalZero(cmd)'
        BY <1>0, <1>3 DEF EnsureRunning, processAlive, SignalZero, Spawn, Typed
    <2> QED BY <2>1, <2>2, LockMoves
<1>4. ASSUME NEW c \in Calls, Write(c) \/ Rewrite(c) PROVE Locked'
    <2>1. mu = c /\ cmd # NoProc /\ UNCHANGED <<cmd, proc>>
        BY <1>4 DEF Write, Rewrite, Locked
    <2>2. PICK loc \in {"done", "read", "reread"} :
            Goto(c, loc) /\ (loc = "done" => mu' = Free) /\ (loc # "done" => mu' = mu)
        BY <1>4 DEF Write, Rewrite, Written
    <2>3. SignalZero(cmd)'
        BY <2>1 DEF Locked, SignalZero
    <2> QED BY <2>1, <2>2, <2>3, LockMoves
<1>5. ASSUME NEW c \in Calls, ReadLine(c) PROVE Locked'
    <2>1. mu = c /\ UNCHANGED <<cmd, proc>>
        BY <1>5 DEF ReadLine, Locked
    <2>2. CASE UNCHANGED <<mu, pc>>
        BY <2>1, <2>2 DEF Locked, SignalZero
    <2>3. CASE Goto(c, "done") /\ mu' = Free
        BY <2>1, <2>3, LockMoves DEF Locked, SignalZero
    <2> QED BY <1>5, <2>2, <2>3 DEF ReadLine
<1>6. ASSUME NEW c \in Calls, Wake(c) PROVE Locked'
    <2>1. mu = Free /\ mu' = c
        BY <1>6 DEF Wake
    <2>2. PICK loc \in {"verifyW", "verifyR"} : Goto(c, loc)
        BY <1>6 DEF Wake
    <2>3. cmd' # NoProc /\ SignalZero(cmd)'
        BY <1>0, <1>6 DEF Wake, SignalZero, Spawn, Typed
    <2> QED BY <2>1, <2>2, <2>3, LockMoves
<1>7. ASSUME NEW c \in Calls, Verified(c) PROVE Locked'
    <2>1. mu = c /\ cmd # NoProc /\ UNCHANGED <<mu, cmd, proc>>
        BY <1>7 DEF Verified, Locked
    <2>2. PICK loc \in {"rewrite", "resend"} : Goto(c, loc)
        BY <1>7 DEF Verified
    <2>3. SignalZero(cmd)'
        BY <2>1 DEF Locked, SignalZero
    <2> QED BY <2>1, <2>2, <2>3, LockMoves
<1>8. ASSUME NEW c \in Calls, VerifyTimeout(c) PROVE Locked'
    <2>1. mu = c /\ Goto(c, "done") /\ mu' = Free /\ cmd' = NoProc
        BY <1>8 DEF VerifyTimeout, Locked
    <2> QED BY <2>1, LockMoves
<1>9. CASE Close
    <2>1. \A c \in Calls : pc[c] \notin Holding
        BY <1>9, StdioAssumption DEF Close, Locked, Free
    <2> QED BY <1>9, <2>1 DEF Close, Locked
<1>10. ASSUME NEW p \in Procs, Child(p) PROVE Locked'
    BY <1>10 DEF Child, Execute, ExecuteAndExit, Chat, Exit, transportVars, Locked, SignalZero, Typed
<1> QED BY <1>1, <1>2, <1>3, <1>4, <1>5, <1>6, <1>7, <1>8, <1>9, <1>10, NextCases

\* Only a child that was spawned has something in its pipes.
LEMMA UntouchedStep ==
    ASSUME Typed, Locked, Untouched, Next
    PROVE  Untouched'
<1> USE StdioAssumption DEF Typed, Untouched
<1>1. ASSUME NEW p \in Procs, proc'[p] = "unused"
      PROVE  stdin'[p] = <<>> /\ stdout'[p] = <<>>
    <2>1. ASSUME NEW c \in Calls, GivesUp(c) PROVE UNCHANGED <<proc, stdin, stdout>>
        BY <2>1 DEF GivesUp, Reject, StartFails, WakeFails, RewriteFails, RereadFails, VerifyEOF,
           childVars
    <2>2. ASSUME NEW c \in Calls, Restarts(c) \/ VerifyTimeout(c)
          PROVE  proc[p] = "unused" /\ UNCHANGED <<stdin, stdout>>
        BY <1>1, <2>2, KilledFacts DEF Restarts, WriteFails, ReadFails, RestartUnlock, VerifyTimeout
    <2>3. ASSUME NEW c \in Calls, EnsureRunning(c) \/ Wake(c)
          PROVE  proc[p] = "unused" /\ stdin'[p] = stdin[p] /\ UNCHANGED stdout
        BY <1>1, <2>3 DEF EnsureRunning, Wake
    <2>4. ASSUME NEW c \in Calls, Write(c) \/ Rewrite(c) \/ ReadLine(c) \/ Verified(c)
          PROVE  proc[p] = "unused" /\ stdin'[p] = stdin[p] /\ stdout'[p] = stdout[p]
        <3>1. proc[p] = "unused"
            BY <1>1, <2>4 DEF Write, Rewrite, ReadLine, Verified
        <3>2. cmd # p
            BY <2>4, <3>1 DEF Write, Rewrite, ReadLine, Verified, Locked, Holding, SignalZero
        <3> QED BY <2>4, <3>1, <3>2 DEF Write, Rewrite, ReadLine, Verified, Written, Encode
    <2>5. ASSUME NEW q \in Procs, Child(q)
          PROVE  proc[p] = "unused" /\ stdin'[p] = stdin[p] /\ stdout'[p] = stdout[p]
        BY <1>1, <2>5 DEF Child, Execute, ExecuteAndExit, Chat, Exit, transportVars
    <2>6. CASE Close
        BY <1>1, <2>6, KilledFacts DEF Close
    <2> QED BY <1>1, <2>1, <2>2, <2>3, <2>4, <2>5, <2>6, NextCases
<1>2. ASSUME NEW n \in Notifications,
             pc'[n] \in {"read", "sleepR", "verifyR", "resend", "reread"}
      PROVE  pc[n] \in {"read", "sleepR", "verifyR", "resend", "reread"}
    <2> USE DEF Goto, Return
    <2>1. ASSUME NEW c \in Calls, GivesUp(c) \/ VerifyTimeout(c) \/ EnsureRunning(c)
          PROVE  pc[n] = pc'[n]
        BY <1>2, <2>1 DEF GivesUp, Reject, StartFails, WakeFails, RewriteFails, RereadFails, VerifyEOF,
           VerifyTimeout, EnsureRunning
    <2>2. ASSUME NEW c \in Calls, Restarts(c) PROVE pc[n] \in {pc'[n], "read"}
        BY <1>2, <2>2 DEF Restarts, WriteFails, ReadFails, RestartUnlock
    <2>3. ASSUME NEW c \in Calls, Write(c) \/ Rewrite(c) \/ ReadLine(c) PROVE pc[n] = pc'[n]
        BY <1>2, <2>3 DEF Write, Rewrite, ReadLine, Written
    <2>4. ASSUME NEW c \in Calls, Wake(c) \/ Verified(c)
          PROVE pc[n] \in {pc'[n], "sleepR", "verifyR"}
        BY <1>2, <2>4 DEF Wake, Verified
    <2>5. ASSUME Close \/ \E p \in Procs : Child(p) PROVE UNCHANGED pc
        BY <2>5 DEF Close, Child, Execute, ExecuteAndExit, Chat, Exit, transportVars
    <2> QED BY <1>2, <2>1, <2>2, <2>3, <2>4, <2>5, NextCases
<1> QED BY <1>1, <1>2

-----------------------------------------------------------------------------
(* The stream.                                                             *)

\* A child that does not chat stays quiet, or stays about to answer.
LEMMA ChildStream ==
    ASSUME Typed, NEW p \in Procs, Child(p), chats' = 0, NEW q \in Procs
    PROVE  /\ Quiet(q) => Quiet(q)'
           /\ \A x \in Messages \ Notifications : Answering(q, x) => Answering(q, x)'
<1> USE DEF Running
<1>1. CASE p # q
    <2>1. proc'[q] = proc[q] /\ stdin'[q] = stdin[q] /\ stdout'[q] = stdout[q]
        BY <1>1 DEF Child, Execute, ExecuteAndExit, Chat, Exit, Typed
    <2> QED BY <2>1 DEF Quiet, Answering
<1>2. CASE p = q /\ Execute(p)
    <2> DEFINE m == Head(stdin[q])
    <2>1. /\ Running(q) /\ stdin[q] # <<>> /\ stdin'[q] = Tail(stdin[q])
          /\ stdin[q] \in Seq(Messages) /\ UNCHANGED proc
        BY <1>2 DEF Execute, Typed
    <2>2. m \in Notifications => stdout'[q] = stdout[q]
        BY <1>2 DEF Execute
    <2>3. m \notin Notifications => stdout'[q] = Append(stdout[q], m)
        BY <1>2 DEF Execute, Typed
    <2>4. Quiet(q) => Quiet(q)'
        BY <2>1, <2>2, TailFacts DEF Quiet
    <2>5. ASSUME NEW x \in Messages \ Notifications, Answering(q, x) PROVE Answering(q, x)'
        <3>1. stdout[q] = <<>> /\ Queued(stdin[q], x)
            BY <2>1, <2>5 DEF Answering
        <3>2. CASE m \in Notifications /\ Queued(Tail(stdin[q]), x)
            BY <2>1, <2>2, <3>1, <3>2 DEF Answering
        <3>3. CASE m = x /\ Tail(stdin[q]) = <<>>
            <4>1. stdout'[q] = <<x>>
                BY <2>3, <3>1, <3>3
            <4> QED BY <2>1, <3>3, <4>1 DEF Answering
        <3> QED BY <2>1, <3>1, <3>2, <3>3, TailFacts
    <2> QED BY <2>4, <2>5
<1>3. CASE p = q /\ (ExecuteAndExit(p) \/ Exit(p))
    <2>1. proc'[q] = "exited" /\ stdout'[q] = stdout[q]
        BY <1>3 DEF ExecuteAndExit, Exit, Typed
    <2> QED BY <2>1 DEF Quiet, Answering
<1>4. ~Chat(p)
    BY DEF Chat, Typed
<1> QED BY <1>1, <1>2, <1>3, <1>4 DEF Child

\* A call moves on with the stream in the state its new place requires.
LEMMA StreamMoves ==
    ASSUME Typed, Locked, NEW c \in Calls, NEW loc, Goto(c, loc), mu = c \/ mu = Free, chats = 0,
           skipped' = 0,
           mu' = Free /\ cmd' # NoProc => Quiet(cmd)',
           loc \in {"write", "rewrite", "resend"} => Quiet(cmd)',
           loc \in {"verifyW", "verifyR"} => Answering(cmd, Ping)',
           loc \in {"read", "reread"} => Answering(cmd, c)'
    PROVE  InStep'
<1>1. \A d \in Calls : pc'[d] = IF d = c THEN loc ELSE pc[d]
    BY DEF Goto, Typed
<1>2. \A d \in Calls \ {c} : pc[d] \notin Holding
    BY StdioAssumption DEF Locked, Free
<1>3. ASSUME NEW d \in Calls
      PROVE  /\ pc'[d] \in {"write", "rewrite", "resend"} => Quiet(cmd)'
             /\ pc'[d] \in {"verifyW", "verifyR"} => Answering(cmd, Ping)'
             /\ pc'[d] \in {"read", "reread"} => Answering(cmd, d)'
    <2>1. CASE d = c
        BY <1>1, <2>1
    <2>2. CASE d # c
        BY <1>1, <1>2, <2>2 DEF Holding
    <2> QED BY <2>1, <2>2
<1> QED BY <1>3 DEF InStep

\* A call that cannot go on leaves a quiet child behind.
LEMMA GivesUpQuiet ==
    ASSUME Typed, Locked, InStep, chats = 0, NEW c \in Calls, GivesUp(c), cmd # NoProc
    PROVE  Quiet(cmd)
<1>1. CASE Reject(c) \/ StartFails(c) \/ WakeFails(c)
    BY <1>1 DEF Reject, StartFails, WakeFails, InStep
<1>2. CASE RewriteFails(c)
    BY <1>2 DEF RewriteFails, InStep
<1>3. CASE RereadFails(c)
    <2>1. AtEOF
        BY <1>3, StdioAssumption DEF RereadFails, ReadFailed, InStep
    <2> QED BY <2>1 DEF AtEOF, Quiet, Running
<1>4. CASE VerifyEOF(c)
    BY <1>4 DEF VerifyEOF, AtEOF, Quiet, Running
<1> QED BY <1>1, <1>2, <1>3, <1>4 DEF GivesUp

\* Nothing is on its way from a child that has just been spawned.
LEMMA SpawnedStream ==
    ASSUME Typed, Untouched, NEW p \in Procs, proc[p] = "unused", UNCHANGED stdout
    PROVE  /\ stdin'[p] = <<>> => Quiet(p)'
           /\ stdin'[p] = <<Ping>> => Answering(p, Ping)'
<1>1. stdout'[p] = <<>>
    BY DEF Untouched
<1>2. Notes(<<>>)
    BY DEF Notes
<1>3. Queued(<<Ping>>, Ping)
    BY DEF Queued
<1> QED BY <1>1, <1>2, <1>3 DEF Quiet, Answering

\* The stream stays in step with the request that reads it.
LEMMA StreamStep ==
    ASSUME Typed, Typed', Locked, Untouched, InStep, Next
    PROVE  InStep'
<1> USE DEF Return
<1> SUFFICES ASSUME chats' = 0 PROVE InStep'
    BY DEF InStep
<1>0. NoProc \notin Procs /\ chats \in Nat /\ Ping \in Messages \ Notifications
    BY StdioAssumption DEF NoProc, Procs, Typed, Messages, Ping
<1>1. ASSUME NEW c \in Calls, GivesUp(c) PROVE InStep'
    <2>1. /\ Goto(c, "done") /\ mu' = Free /\ cmd' \in {cmd, NoProc}
          /\ UNCHANGED <<skipped, proc, stdin, stdout, chats>>
        BY <1>1 DEF GivesUp, Reject, StartFails, WakeFails, RewriteFails, RereadFails, VerifyEOF,
           childVars
    <2>2. mu = c \/ mu = Free
        BY <1>1 DEF GivesUp, Reject, StartFails, WakeFails, RewriteFails, RereadFails, VerifyEOF, Locked,
           Holding
    <2>3. cmd' # NoProc => Quiet(cmd)'
        BY <1>1, <2>1, GivesUpQuiet DEF Quiet, Running
    <2> QED BY <2>1, <2>2, <2>3, StreamMoves DEF InStep
<1>2. ASSUME NEW c \in Calls, Restarts(c) \/ VerifyTimeout(c) PROVE InStep'
    <2>1. PICK loc \in {"done", "sleepW", "sleepR"} : Goto(c, loc) /\ cmd' = NoProc
        BY <1>2 DEF Restarts, WriteFails, ReadFails, RestartUnlock, VerifyTimeout
    <2>2. mu = c /\ UNCHANGED <<skipped, chats>>
        BY <1>2 DEF Restarts, WriteFails, ReadFails, VerifyTimeout, Locked, Holding
    <2> QED BY <2>1, <2>2, StreamMoves DEF InStep
<1>3. ASSUME NEW c \in Calls, EnsureRunning(c) PROVE InStep'
    <2>1. Goto(c, "write") /\ mu = Free /\ mu' = c /\ UNCHANGED <<skipped, stdin, stdout, chats>>
        BY <1>3 DEF EnsureRunning
    <2>2. CASE processAlive /\ UNCHANGED <<cmd, proc>>
        <3>1. Quiet(cmd)
            BY <2>1, <2>2 DEF InStep, processAlive
        <3>2. Quiet(cmd)'
            BY <2>1, <2>2, <3>1 DEF Quiet, Running
        <3> QED BY <2>1, <3>2, StreamMoves DEF InStep
    <2>3. ASSUME NEW p \in Procs, Spawn(p) PROVE InStep'
        <3>1. Quiet(p)'
            BY <2>1, <2>3, SpawnedStream DEF Spawn, Untouched
        <3>2. Quiet(cmd)'
            BY <2>3, <3>1 DEF Spawn, Quiet, Running
        <3> QED BY <2>1, <3>2, StreamMoves DEF InStep
    <2> QED BY <1>3, <2>2, <2>3 DEF EnsureRunning
<1>4. ASSUME NEW c \in Calls, Write(c) \/ Rewrite(c) PROVE InStep'
    <2>1. /\ mu = c /\ cmd \in Procs /\ chats = 0 /\ Quiet(cmd) /\ Running(cmd)
          /\ UNCHANGED <<cmd, proc, stdout, chats>> /\ c \in Messages
        BY <1>4 DEF Write, Rewrite, Locked, Holding, InStep, Writable, Running, Typed, Messages
    <2>2. stdin'[cmd] = Append(stdin[cmd], c)
        BY <1>4, <2>1 DEF Write, Rewrite, Written, Encode, Typed
    <2>3. Queued(stdin'[cmd], c) /\ (c \in Notifications => Notes(stdin'[cmd]))
        BY <2>1, <2>2, AppendFacts DEF Quiet, Typed
    <2>4. Answering(cmd, c)' /\ (c \in Notifications => Quiet(cmd)')
        BY <2>1, <2>3 DEF Answering, Quiet, Running
    <2>5. CASE c \in Notifications
        <3>1. Goto(c, "done") /\ UNCHANGED skipped
            BY <1>4, <2>5 DEF Write, Rewrite, Written
        <3> QED BY <2>1, <2>4, <2>5, <3>1, StreamMoves DEF InStep
    <2>6. CASE c \notin Notifications
        <3>1. PICK loc \in {"read", "reread"} : Goto(c, loc)
            BY <1>4, <2>6 DEF Write, Rewrite, Written
        <3>2. skipped' = 0 /\ mu' = mu
            BY <1>4, <2>6 DEF Write, Rewrite, Written
        <3>3. mu' # Free
            BY <2>1, <3>2, StdioAssumption DEF Free
        <3> QED BY <2>1, <2>4, <3>1, <3>2, <3>3, StreamMoves
    <2> QED BY <2>5, <2>6
<1>5. ASSUME NEW c \in Calls, ReadLine(c) PROVE InStep'
    <2>1. /\ mu = c /\ cmd \in Procs /\ Answering(cmd, c) /\ stdout[cmd] # <<>>
          /\ UNCHANGED <<cmd, proc, stdin, chats>>
        BY <1>5 DEF ReadLine, Locked, Holding, InStep, Typed
    <2>2. stdout[cmd] = <<c>> /\ (Running(cmd) => stdin[cmd] = <<>>) /\ c # "log"
        BY <2>1, StdioAssumption DEF Answering
    <2>3. Goto(c, "done") /\ skipped' = skipped /\ stdout'[cmd] = <<>>
        BY <1>5, <2>1, <2>2 DEF ReadLine, Typed
    <2>4. Quiet(cmd)'
        BY <2>1, <2>2, <2>3 DEF Quiet, Running, Notes
    <2> QED BY <2>1, <2>3, <2>4, StreamMoves DEF InStep
<1>6. ASSUME NEW c \in Calls, Wake(c) PROVE InStep'
    <2>1. mu = Free /\ mu' = c /\ UNCHANGED <<skipped, stdout, chats>> /\ c # Free
        BY <1>6, StdioAssumption DEF Wake, Free
    <2>2. PICK loc \in {"verifyW", "verifyR"} : Goto(c, loc)
        BY <1>6 DEF Wake
    <2>3. PICK p \in Procs : Spawn(p) /\ stdin'[p] = <<Ping>>
        BY <1>6 DEF Wake, Typed
    <2>4. Answering(p, Ping)'
        BY <2>1, <2>3, SpawnedStream DEF Spawn
    <2>5. Answering(cmd, Ping)'
        BY <2>3, <2>4 DEF Spawn, Answering, Running
    <2> QED BY <2>1, <2>2, <2>5, StreamMoves DEF InStep
<1>7. ASSUME NEW c \in Calls, Verified(c) PROVE InStep'
    <2>1. /\ mu = c /\ cmd \in Procs /\ Answering(cmd, Ping) /\ stdout[cmd] # <<>>
          /\ UNCHANGED <<cmd, proc, stdin, skipped, chats>>
        BY <1>7 DEF Verified, Locked, Holding, InStep, Typed
    <2>2. stdout[cmd] = <<Ping>> /\ (Running(cmd) => stdin[cmd] = <<>>)
        BY <2>1 DEF Answering
    <2>3. stdout'[cmd] = <<>>
        BY <1>7, <2>1, <2>2 DEF Verified, Typed
    <2>4. Quiet(cmd)'
        BY <2>1, <2>2, <2>3 DEF Quiet, Running, Notes
    <2>5. PICK loc \in {"rewrite", "resend"} : Goto(c, loc)
        BY <1>7 DEF Verified
    <2> QED BY <2>1, <2>4, <2>5, StreamMoves DEF InStep
<1>8. CASE Close
    <2>1. \A c \in Calls : pc'[c] \notin Holding
        BY <1>8, StdioAssumption DEF Close, Locked, Free
    <2> QED BY <1>8, <2>1 DEF Close, InStep, Holding
<1>9. ASSUME NEW p \in Procs, Child(p) PROVE InStep'
    <2>1. UNCHANGED transportVars /\ chats = 0
        BY <1>0, <1>9 DEF Child, Execute, ExecuteAndExit, Chat, Exit
    <2>2. ASSUME NEW q \in Procs, q = cmd
          PROVE  /\ Quiet(cmd) => Quiet(cmd)'
                 /\ \A x \in Messages \ Notifications : Answering(cmd, x) => Answering(cmd, x)'
        <3>1. /\ Quiet(q) => Quiet(q)'
              /\ \A x \in Messages \ Notifications : Answering(q, x) => Answering(q, x)'
            BY <1>9, ChildStream
        <3> QED BY <2>1, <2>2, <3>1 DEF Quiet, Answering, Running, transportVars
    <2>3. \A c \in Calls : pc[c] \in {"read", "reread"} => c \in Messages \ Notifications
        BY DEF Untouched, Messages
    <2>4. \A c \in Calls : pc[c] \in Holding => cmd \in Procs
        BY DEF Locked, Typed
    <2>5. mu = Free /\ cmd # NoProc => cmd \in Procs
        BY DEF Typed
    <2> QED BY <1>0, <2>1, <2>2, <2>3, <2>4, <2>5 DEF InStep, Holding, transportVars
<1> QED BY <1>1, <1>2, <1>3, <1>4, <1>5, <1>6, <1>7, <1>8, <1>9, NextCases

\* The line that is read is the reply to the request that is read for.
LEMMA ResponseStep ==
    ASSUME Typed, Locked, InStep, ResponseMatchesRequest, Next
    PROVE  ResponseMatchesRequest'
<1> SUFFICES ASSUME chats' = 0, NEW d \in Calls
             PROVE  got'[d] \in {"none", "error", "accepted", d}
    BY DEF ResponseMatchesRequest
<1> USE DEF Return, Typed
<1>0. chats = 0
    <2>1. ASSUME NEW c \in Calls,
                 \/ GivesUp(c) \/ Restarts(c) \/ EnsureRunning(c) \/ Write(c) \/ Rewrite(c)
                 \/ ReadLine(c) \/ Wake(c) \/ Verified(c) \/ VerifyTimeout(c)
          PROVE  UNCHANGED chats
        BY <2>1 DEF GivesUp, Reject, StartFails, WakeFails, RewriteFails, RereadFails, VerifyEOF,
           Restarts, WriteFails, ReadFails, EnsureRunning, Write, Rewrite, ReadLine, Wake, Verified,
           VerifyTimeout, childVars
    <2>2. ASSUME Close PROVE UNCHANGED chats
        BY <2>2 DEF Close
    <2>3. ASSUME NEW p \in Procs, Child(p) PROVE chats' \in {chats, chats + 1}
        BY <2>3 DEF Child, Execute, ExecuteAndExit, Chat, Exit
    <2> QED BY <2>1, <2>2, <2>3, NextCases
<1>1. got[d] \in {"none", "error", "accepted", d}
    BY <1>0 DEF ResponseMatchesRequest
<1>2. ASSUME NEW c \in Calls,
             GivesUp(c) \/ Restarts(c) \/ VerifyTimeout(c)
      PROVE  got'[d] \in {got[d], "error"}
    BY <1>2 DEF GivesUp, Reject, StartFails, WakeFails, RewriteFails, RereadFails, VerifyEOF,
       Restarts, WriteFails, ReadFails, RestartUnlock, VerifyTimeout
<1>3. ASSUME NEW c \in Calls, Write(c) \/ Rewrite(c) PROVE got'[d] \in {got[d], "accepted"}
    BY <1>3 DEF Write, Rewrite, Written
<1>4. ASSUME NEW c \in Calls, EnsureRunning(c) \/ Wake(c) \/ Verified(c) PROVE UNCHANGED got
    BY <1>4 DEF EnsureRunning, Wake, Verified
<1>5. ASSUME NEW c \in Calls, ReadLine(c) PROVE got'[d] \in {got[d], d}
    <2>1. Answering(cmd, c) /\ stdout[cmd] # <<>>
        BY <1>0, <1>5 DEF ReadLine, InStep
    <2>2. Head(stdout[cmd]) = c
        BY <2>1 DEF Answering
    <2>3. UNCHANGED got \/ got' = [got EXCEPT ![c] = c]
        BY <1>5, <2>2 DEF ReadLine
    <2> QED BY <2>3
<1>6. ASSUME Close PROVE UNCHANGED got
    BY <1>6 DEF Close
<1>7. ASSUME NEW p \in Procs, Child(p) PROVE UNCHANGED got
    BY <1>7 DEF Child, Execute, ExecuteAndExit, Chat, Exit, transportVars
<1> QED BY <1>1, <1>2, <1>3, <1>4, <1>5, <1>6, <1>7, NextCases

-----------------------------------------------------------------------------
(* The number of executions.                                               *)

\* No running child holds a message of c that it did not hold before.
NotMore(c) ==
    \A p \in Procs : Running(p)' /\ Holds(stdin'[p], c) => Running(p) /\ Holds(stdin[p], c)

\* A call that stays where it is is counted as before.
LEMMA CountStays ==
    ASSUME NEW d \in Calls, Counted(d), pc'[d] = pc[d], execs'[d] = execs[d], NotMore(d),
           pc[d] \in {"read", "reread"} => cmd' = cmd
    PROVE  Counted(d)'
<1>1. Pending(d)' => Pending(d)
    BY DEF Pending, NotMore, Running
<1>2. ASSUME pc[d] \in {"read", "reread"}, NEW p \in Procs, Running(p)', Holds(stdin'[p], d) PROVE p = cmd'
    BY <1>2 DEF Counted, NotMore, Running
<1> QED BY <1>1, <1>2 DEF Counted, Running

\* Children lose their input or get a ping: then no message is held anew.
LEMMA NoneAnew ==
    ASSUME Typed, OnePending,
           \A p \in Procs : Running(p)' => \/ Running(p) /\ stdin'[p] = stdin[p]
                                          \/ stdin'[p] \in {<<>>, <<Ping>>}
    PROVE  OnePending' /\ \A c \in Calls : NotMore(c)
<1>1. \A c \in Calls : ~Holds(<<>>, c) /\ ~Holds(<<Ping>>, c)
    BY StdioAssumption DEF Holds, Ping
<1>2. Once(<<>>) /\ Once(<<Ping>>)
    BY DEF Once
<1>3. \A c \in Calls : NotMore(c)
    BY <1>1 DEF NotMore
<1>4. \A p \in Procs : Running(p)' => Once(stdin'[p])
    BY <1>2 DEF OnePending
<1>5. ASSUME NEW p \in Procs, NEW q \in Procs, NEW c \in Calls,
             Running(p)', Running(q)', Holds(stdin'[p], c), Holds(stdin'[q], c)
      PROVE  p = q
    BY <1>3, <1>5 DEF NotMore, OnePending
<1> QED BY <1>3, <1>4, <1>5 DEF OnePending, Running

\* A call moves, without a message being written or executed.
LEMMA CountMoves ==
    ASSUME Typed, Locked, \A d \in Calls : Counted(d) /\ NotMore(d), UNCHANGED execs,
           NEW c \in Calls, NEW loc, Goto(c, loc), mu = c \/ mu = Free,
           \/ loc = "done"
           \/ {pc[c], loc} \subseteq {"new", "write", "sleepW", "verifyW", "rewrite"}
           \/ {pc[c], loc} \subseteq {"sleepR", "verifyR", "resend"}
           \/ pc[c] = "read" /\ loc = "sleepR" /\ ~Pending(c)'
    PROVE  \A d \in Calls : Counted(d)'
<1>1. \A d \in Calls : pc'[d] = IF d = c THEN loc ELSE pc[d]
    BY DEF Goto, Typed
<1>2. \A d \in Calls \ {c} : pc[d] \notin {"read", "reread"}
    BY StdioAssumption DEF Locked, Free, Holding
<1>3. ASSUME NEW d \in Calls, d # c PROVE Counted(d)'
    BY <1>1, <1>2, <1>3, CountStays
<1>4. Counted(c)'
    <2>1. Pending(c)' => Pending(c)
        BY DEF Pending, NotMore, Running
    <2>2. pc'[c] = loc /\ execs'[c] = execs[c] /\ execs[c] \in Nat /\ pc[c] \in Locations
        BY <1>1 DEF Typed
    <2>3. Counted(c)
        OBVIOUS
    <2>4. CASE loc = "done"
        BY <2>1, <2>2, <2>3, <2>4 DEF Counted, Locations, Holding
    <2>5. CASE {pc[c], loc} \subseteq {"new", "write", "sleepW", "verifyW", "rewrite"}
        BY <2>1, <2>2, <2>3, <2>5 DEF Counted
    <2>6. CASE {pc[c], loc} \subseteq {"sleepR", "verifyR", "resend"}
        BY <2>1, <2>2, <2>3, <2>6 DEF Counted
    <2>7. CASE pc[c] = "read" /\ loc = "sleepR" /\ ~Pending(c)'
        BY <2>2, <2>3, <2>7 DEF Counted
    <2> QED BY <2>4, <2>5, <2>6, <2>7
<1> QED BY <1>3, <1>4

\* A message is written once more: to one running child, which has executed it at
\* most once and holds it no longer.
LEMMA WriteCount ==
    ASSUME Typed, Locked, OnePending, \A d \in Calls : Counted(d),
           NEW c \in Calls, Write(c) \/ Rewrite(c)
    PROVE  OnePending' /\ \A d \in Calls : Counted(d)'
<1>1. /\ cmd \in Procs /\ Running(cmd) /\ c \in Messages /\ mu = c
      /\ UNCHANGED <<cmd, proc, execs>> /\ ~Pending(c) /\ execs[c] \in Nat
    BY DEF Write, Rewrite, Writable, Running, Messages, Locked, Holding, Counted, Typed
<1>2. \A p \in Procs : stdin'[p] = IF p = cmd THEN Append(stdin[cmd], c) ELSE stdin[p]
    BY <1>1 DEF Write, Rewrite, Written, Encode, Typed
<1>3. \A p \in Procs : Running(p)' <=> Running(p)
    BY <1>1 DEF Running
<1>4. /\ \A x : Holds(Append(stdin[cmd], c), x) <=> Holds(stdin[cmd], x) \/ x = c
      /\ Once(stdin[cmd]) /\ ~Holds(stdin[cmd], c) => Once(Append(stdin[cmd], c))
    BY <1>1, AppendFacts DEF Typed
<1>5. \A d \in Calls \ {c} : NotMore(d)
    BY <1>1, <1>2, <1>3, <1>4 DEF NotMore
<1>6. \A p \in Procs : Running(p)' /\ Holds(stdin'[p], c) => p = cmd
    BY <1>1, <1>2, <1>3 DEF Pending
<1>7. OnePending'
    <2>1. \A p \in Procs : Running(p)' => Once(stdin'[p])
        BY <1>1, <1>2, <1>3, <1>4 DEF OnePending, Pending
    <2>2. ASSUME NEW p \in Procs, NEW q \in Procs, NEW d \in Calls,
                 Running(p)', Running(q)', Holds(stdin'[p], d), Holds(stdin'[q], d)
          PROVE  p = q
        <3>1. CASE d = c
            BY <1>6, <2>2, <3>1
        <3>2. CASE d # c
            BY <1>5, <2>2, <3>2 DEF NotMore, OnePending
        <3> QED BY <3>1, <3>2
    <2> QED BY <2>1, <2>2 DEF OnePending, Running
<1>8. ASSUME NEW d \in Calls, d # c PROVE Counted(d)'
    <2>1. pc'[d] = pc[d]
        BY <1>8 DEF Write, Rewrite, Written, Goto, Return, Typed
    <2> QED BY <1>1, <1>5, <1>8, <2>1, CountStays
<1>9. Counted(c)'
    <2>1. CASE pc[c] \in {"write", "rewrite"}
        <3>1. pc'[c] \in {"read", "done"}
            BY <2>1 DEF Write, Rewrite, Written, Goto, Return, Typed
        <3>2. execs'[c] = 0
            BY <1>1, <2>1 DEF Counted
        <3> QED BY <1>1, <1>6, <3>1, <3>2 DEF Counted, Running
    <2>2. CASE pc[c] = "resend"
        <3>1. pc'[c] \in {"reread", "done"}
            BY <2>2 DEF Write, Rewrite, Written, Goto, Return, Typed
        <3>2. execs'[c] <= 1
            BY <1>1, <2>2 DEF Counted
        <3> QED BY <1>1, <1>6, <3>1, <3>2 DEF Counted, Running
    <2> QED BY <2>1, <2>2 DEF Write, Rewrite
<1> QED BY <1>7, <1>8, <1>9

\* A message is executed: no child holds it after that.
LEMMA Executed ==
    ASSUME Typed, OnePending, NEW p \in Procs, Execute(p) \/ ExecuteAndExit(p),
           NEW m, m = Head(stdin[p])
    PROVE  /\ m \in Messages
           /\ \A d \in Calls : execs'[d] = IF d = m THEN execs[d] + 1 ELSE execs[d]
           /\ OnePending' /\ \A d \in Calls : NotMore(d)
           /\ m \in Calls => Pending(m) /\ ~Pending(m)'
<1> USE DEF Typed
<1>1. /\ Running(p) /\ stdin[p] # <<>> /\ stdin[p] \in Seq(Messages)
      /\ \A q \in Procs : stdin'[q] = IF q = p THEN Tail(stdin[p]) ELSE stdin[q]
      /\ \A q \in Procs : Running(q)' => Running(q)
    BY DEF Execute, ExecuteAndExit, Running
<1>2. /\ m \in Messages /\ Holds(stdin[p], m) /\ Once(stdin[p])
      /\ \A x : Holds(Tail(stdin[p]), x) => Holds(stdin[p], x)
      /\ Once(Tail(stdin[p])) /\ (m \in Calls => ~Holds(Tail(stdin[p]), m))
    BY <1>1, TailFacts DEF OnePending
<1>3. \A d \in Calls : execs'[d] = IF d = m THEN execs[d] + 1 ELSE execs[d]
    <2>1. m # Ping => m \in Calls
        BY <1>2 DEF Messages
    <2>2. Ping \notin Calls
        BY StdioAssumption DEF Ping
    <2> QED BY <2>1, <2>2 DEF Execute, ExecuteAndExit
<1>4. \A d \in Calls : NotMore(d)
    BY <1>1, <1>2 DEF NotMore
<1>5. OnePending'
    <2>1. \A q \in Procs : Running(q)' => Once(stdin'[q])
        BY <1>1, <1>2 DEF OnePending
    <2>2. ASSUME NEW q \in Procs, NEW r \in Procs, NEW d \in Calls,
                 Running(q)', Running(r)', Holds(stdin'[q], d), Holds(stdin'[r], d)
          PROVE  q = r
        BY <1>4, <2>2 DEF NotMore, OnePending
    <2> QED BY <2>1, <2>2 DEF OnePending, Running
<1>6. ASSUME m \in Calls PROVE Pending(m) /\ ~Pending(m)'
    <2>1. Pending(m)
        BY <1>1, <1>2 DEF Pending
    <2>2. ASSUME NEW q \in Procs, Running(q)', Holds(stdin'[q], m) PROVE FALSE
        <3>1. Running(q) /\ Holds(stdin[q], m)
            BY <1>4, <1>6, <2>2 DEF NotMore
        <3>2. q = p
            BY <1>1, <1>2, <1>6, <3>1 DEF OnePending
        <3> QED BY <1>1, <1>2, <1>6, <2>2, <3>2
    <2> QED BY <2>1, <2>2 DEF Pending, Running
<1> QED BY <1>2, <1>3, <1>4, <1>5, <1>6

\* The steps of a child and the count.
LEMMA ExecuteCount ==
    ASSUME Typed, OnePending, \A d \in Calls : Counted(d),
           NEW p \in Procs, Child(p)
    PROVE  OnePending' /\ \A d \in Calls : Counted(d)'
<1>1. UNCHANGED <<cmd, pc>>
    BY DEF Child, Execute, ExecuteAndExit, Chat, Exit, transportVars
<1>2. CASE Chat(p) \/ Exit(p)
    <2>1. UNCHANGED <<stdin, execs>> /\ \A q \in Procs : Running(q)' => Running(q)
        BY <1>2 DEF Chat, Exit, Running, Typed
    <2>2. OnePending' /\ \A c \in Calls : NotMore(c)
        BY <2>1, NoneAnew
    <2> QED BY <1>1, <2>1, <2>2, CountStays
<1>3. CASE Execute(p) \/ ExecuteAndExit(p)
    <2>1. PICK m : m = Head(stdin[p])
        OBVIOUS
    <2>2. /\ \A d \in Calls : execs'[d] = IF d = m THEN execs[d] + 1 ELSE execs[d]
          /\ OnePending' /\ \A d \in Calls : NotMore(d)
          /\ m \in Calls => Pending(m) /\ ~Pending(m)'
        BY <1>3, <2>1, Executed
    <2>3. ASSUME NEW d \in Calls, d # m PROVE Counted(d)'
        BY <1>1, <2>2, <2>3, CountStays
    <2>4. ASSUME NEW d \in Calls, d = m PROVE Counted(d)'
        <3>1. Pending(d) /\ ~Pending(d)'
            BY <2>2, <2>4
        <3>2. \A q \in Procs : Running(q)' => ~Holds(stdin'[q], d)
            BY <3>1 DEF Pending, Running
        <3>3. execs'[d] = execs[d] + 1 /\ execs[d] \in Nat /\ pc'[d] = pc[d] /\ pc[d] \in Locations
            BY <1>1, <2>2, <2>4 DEF Typed
        <3>4. (pc[d] = "read" /\ execs[d] = 0) \/ (pc[d] \in {"reread", "done"} /\ execs[d] <= 1)
            BY <3>1, <3>3 DEF Counted, Locations, Holding
        <3> QED BY <3>1, <3>2, <3>3, <3>4 DEF Counted, Running
    <2> QED BY <2>2, <2>3, <2>4
<1> QED BY <1>2, <1>3 DEF Child

\* Executions are counted by the location of the call.
LEMMA CountStep ==
    ASSUME Typed, Locked, Untouched, OnePending, \A d \in Calls : Counted(d), Next
    PROVE  OnePending' /\ \A d \in Calls : Counted(d)'
<1> USE DEF Return
<1>1. ASSUME NEW c \in Calls, GivesUp(c) PROVE OnePending' /\ \A d \in Calls : Counted(d)'
    <2>1. Goto(c, "done") /\ UNCHANGED <<proc, stdin, execs>>
        BY <1>1 DEF GivesUp, Reject, StartFails, WakeFails, RewriteFails, RereadFails, VerifyEOF,
           childVars
    <2>2. mu = c \/ mu = Free
        BY <1>1 DEF GivesUp, Reject, StartFails, WakeFails, RewriteFails, RereadFails, VerifyEOF, Locked,
           Holding
    <2>3. OnePending' /\ \A d \in Calls : NotMore(d)
        BY <2>1, NoneAnew DEF Running
    <2> QED BY <2>1, <2>2, <2>3, CountMoves
<1>2. ASSUME NEW c \in Calls, Restarts(c) \/ VerifyTimeout(c)
      PROVE  OnePending' /\ \A d \in Calls : Counted(d)'
    <2>1. mu = c /\ cmd \in Procs /\ UNCHANGED <<stdin, execs>> /\ proc' = Killed
        BY <1>2 DEF Restarts, WriteFails, ReadFails, RestartUnlock, VerifyTimeout, Locked, Holding, Typed
    <2>2. \A p \in Procs : Running(p)' => Running(p) /\ p # cmd
        BY <2>1, KilledFacts DEF Running
    <2>3. OnePending' /\ \A d \in Calls : NotMore(d)
        BY <2>1, <2>2, NoneAnew
    <2>4. pc[c] = "read" => ~Pending(c)'
        BY <2>1, <2>2 DEF Counted, Pending, Running
    <2>5. \/ Goto(c, "done")
          \/ pc[c] = "write" /\ Goto(c, "sleepW")
          \/ pc[c] = "read" /\ Goto(c, "sleepR")
        BY <1>2 DEF Restarts, WriteFails, ReadFails, RestartUnlock, VerifyTimeout
    <2> QED BY <2>1, <2>3, <2>4, <2>5, CountMoves
<1>3. ASSUME NEW c \in Calls, EnsureRunning(c) \/ Wake(c)
      PROVE  OnePending' /\ \A d \in Calls : Counted(d)'
    <2>1. mu = Free /\ UNCHANGED execs
        BY <1>3 DEF EnsureRunning, Wake
    <2>2. \A p \in Procs : Running(p)' => \/ Running(p) /\ stdin'[p] = stdin[p]
                                         \/ stdin'[p] \in {<<>>, <<Ping>>}
        BY <1>3 DEF EnsureRunning, Wake, Spawn, Running, Untouched, Typed
    <2>3. OnePending' /\ \A d \in Calls : NotMore(d)
        BY <2>2, NoneAnew
    <2>4. \/ pc[c] = "new" /\ Goto(c, "write")
          \/ pc[c] = "sleepW" /\ Goto(c, "verifyW")
          \/ pc[c] = "sleepR" /\ Goto(c, "verifyR")
        BY <1>3 DEF EnsureRunning, Wake
    <2> QED BY <2>1, <2>3, <2>4, CountMoves
<1>4. ASSUME NEW c \in Calls, Write(c) \/ Rewrite(c)
      PROVE  OnePending' /\ \A d \in Calls : Counted(d)'
    BY <1>4, WriteCount
<1>5. ASSUME NEW c \in Calls, ReadLine(c) \/ Verified(c)
      PROVE  OnePending' /\ \A d \in Calls : Counted(d)'
    <2>1. mu = c /\ UNCHANGED <<cmd, proc, stdin, execs>>
        BY <1>5 DEF ReadLine, Verified, Locked, Holding
    <2>2. OnePending' /\ \A d \in Calls : NotMore(d)
        BY <2>1, NoneAnew DEF Running
    <2>3. \/ Goto(c, "done")
          \/ UNCHANGED pc
          \/ pc[c] = "verifyW" /\ Goto(c, "rewrite")
          \/ pc[c] = "verifyR" /\ Goto(c, "resend")
        BY <1>5 DEF ReadLine, Verified
    <2>4. CASE UNCHANGED pc
        BY <2>1, <2>2, <2>4, CountStays
    <2> QED BY <2>1, <2>2, <2>3, <2>4, CountMoves
<1>6. CASE Close
    <2>1. UNCHANGED <<pc, stdin, execs>> /\ \A p \in Procs : Running(p)' => Running(p)
        BY <1>6, KilledFacts DEF Close, Running
    <2>2. OnePending' /\ \A d \in Calls : NotMore(d)
        BY <2>1, NoneAnew
    <2>3. \A d \in Calls : pc[d] \notin {"read", "reread"}
        BY <1>6, StdioAssumption DEF Close, Locked, Holding, Free
    <2> QED BY <2>1, <2>2, <2>3, CountStays
<1>7. ASSUME NEW p \in Procs, Child(p) PROVE OnePending' /\ \A d \in Calls : Counted(d)'
    BY <1>7, ExecuteCount
<1> QED BY <1>1, <1>2, <1>3, <1>4, <1>5, <1>6, <1>7, NextCases

-----------------------------------------------------------------------------
(* The theorems.                                                           *)

\* The invariant holds at the start,
LEMMA InitIInv == Init => IInv
<1> SUFFICES ASSUME Init PROVE IInv
    OBVIOUS
<1> USE StdioAssumption DEF Init
<1>1. Typed
    <2>1. <<>> \in Seq(Messages) /\ <<>> \in Seq(Lines)
        OBVIOUS
    <2>2. pc \in [Calls -> Locations] /\ got \in [Calls -> Replies] /\ execs \in [Calls -> Nat]
        BY DEF Locations, Holding, Replies
    <2>3. stdin \in [Procs -> Seq(Messages)] /\ stdout \in [Procs -> Seq(Lines)]
        BY <2>1
    <2> QED BY <2>2, <2>3 DEF Typed, Lives
<1>2. Locked /\ Untouched
    BY DEF Locked, Untouched, Holding, Free
<1>3. InStep /\ ResponseMatchesRequest
    BY DEF InStep, ResponseMatchesRequest
<1>4. \A p \in Procs : ~Running(p)
    BY DEF Running
<1> QED BY <1>1, <1>2, <1>3, <1>4 DEF IInv, OnePending, Counted, Pending

\* every step keeps it,
LEMMA NextIInv == IInv /\ [Next]_vars => IInv'
<1> SUFFICES ASSUME IInv, [Next]_vars PROVE IInv'
    OBVIOUS
<1> USE DEF IInv
<1>1. CASE Next
    <2>1. Typed' /\ Locked' /\ Untouched'
        BY <1>1, TypedStep, LockedStep, UntouchedStep
    <2>2. InStep' /\ ResponseMatchesRequest'
        BY <1>1, <2>1, StreamStep, ResponseStep
    <2>3. OnePending' /\ \A d \in Calls : Counted(d)'
        BY <1>1, CountStep
    <2> QED BY <2>1, <2>2, <2>3
<1>2. CASE UNCHANGED vars
    <2> USE <1>2 DEF vars
    <2>1. Typed' /\ Locked' /\ Untouched'
        BY DEF Typed, Locked, Untouched, SignalZero
    <2>2. InStep' /\ ResponseMatchesRequest'
        BY DEF InStep, ResponseMatchesRequest, Quiet, Answering, Running
    <2>3. OnePending' /\ \A d \in Calls : Counted(d)'
        BY DEF OnePending, Counted, Pending, Running
    <2> QED BY <2>1, <2>2, <2>3
<1> QED BY <1>1, <1>2

\* and so it always holds.
LEMMA Inductive == Spec => []IInv
BY InitIInv, NextIInv, PTL DEF Spec

\* BlockedCallOwnsChild holds for every number of calls, children and restarts: t.mu is
\* given up for the backoff of restartWithBackoff, and still no call that blocks on the
\* child finds t.cmd, t.stdin or t.stdout cleared or replaced by another call or by Close.
THEOREM ChildIsOwned == Spec => []BlockedCallOwnsChild
<1>1. IInv => BlockedCallOwnsChild
    BY DEF IInv, Locked, BlockedCallOwnsChild
<1> QED BY <1>1, Inductive, PTL

\* ResponseMatchesRequest: readJSONResponse compares no id, and yet a child that writes
\* nothing but replies never has the reply to one request read for another, whatever
\* crashes, timeouts, restarts and resends come between.
THEOREM ResponsesMatch == Spec => []ResponseMatchesRequest
<1>1. IInv => ResponseMatchesRequest
    BY DEF IInv
<1> QED BY <1>1, Inductive, PTL

\* AtMostTwice: the one restart and resend of RoundTrip is all that repeats a message,
\* however many children are spawned and however large maxRestarts is.
THEOREM NeverThrice == Spec => []AtMostTwice
<1>1. ASSUME IInv, NEW c \in Calls PROVE execs[c] <= 2
    <2>1. Counted(c) /\ execs[c] \in Nat /\ pc[c] \in Locations
        BY <1>1 DEF IInv, Typed
    <2> QED BY <2>1 DEF Counted, Locations, Holding
<1>2. IInv => AtMostTwice
    BY <1>1 DEF AtMostTwice
<1> QED BY <1>2, Inductive, PTL

-----------------------------------------------------------------------------
(* The transport implements StdioService: the rest of the invariant.       *)

\* A call that has returned is done, and after Close none has the lock.
Returned ==
    /\ \A c \in Calls : pc[c] = "done" <=> got[c] # "none"
    /\ closed => mu = Free

\* A reply in a pipe is that of a request that took effect.
Shown ==
    \A p \in Procs, d \in Calls :
        Holds(stdout[p], d) => d \notin Notifications /\ execs[d] # 0

\* A notification is with a child, or took effect, only if it was accepted; it is not
\* both.
Noted(c) ==
    /\ got[c] # "accepted" => execs[c] = 0 /\ ~Pending(c)
    /\ Pending(c) => execs[c] = 0

\* A request is with a child only while its RoundTrip reads, and is sent again only
\* after a crash; unless children chat.
Settled(c) ==
    chats = 0 =>
        /\ Pending(c) => pc[c] \in {"read", "reread"}
        /\ pc[c] \in {"sleepR", "verifyR", "resend", "reread"} => Crashed

ServiceInv ==
    /\ Returned /\ Shown
    /\ \A c \in Notifications : Noted(c)
    /\ \A c \in Calls \ Notifications : Settled(c)

\* killProcess does not make a crash, nor does it hide one.
LEMMA KillCrash ==
    ASSUME Typed, Locked, proc' = Killed
    PROVE  /\ Crashed' <=> Crashed
           /\ cmd # NoProc /\ ~Running(cmd) => Crashed'
<1>1. \A p \in Procs : proc'[p] = IF p # cmd THEN proc[p]
                                  ELSE IF Running(p) THEN "killed" ELSE "reaped"
    BY KilledFacts
<1>2. cmd # NoProc => cmd \in Procs /\ proc[cmd] \in {"running", "exited"}
    BY DEF Locked, SignalZero, Typed
<1>3. \A p \in Procs : proc'[p] \in {"exited", "reaped"} <=> proc[p] \in {"exited", "reaped"}
    BY <1>1, <1>2 DEF Running, NoProc, Procs
<1> QED BY <1>2, <1>3 DEF Crashed, Running

\* A child that is spawned has not crashed.
LEMMA SpawnCrash ==
    ASSUME Typed, NEW p \in Procs, proc[p] = "unused", proc' = [proc EXCEPT ![p] = "running"]
    PROVE  Crashed' <=> Crashed
<1>1. \A q \in Procs : proc'[q] = IF q = p THEN "running" ELSE proc[q]
    BY DEF Typed
<1> QED BY <1>1 DEF Crashed

\* Which steps make a crash; a crash is not forgotten.
LEMMA CrashStep ==
    ASSUME Typed, Locked, Next
    PROVE  /\ Crashed => Crashed'
           /\ Crashed' => Crashed \/ \E p \in Procs : ExecuteAndExit(p) \/ Exit(p)
<1>1. ASSUME NEW c \in Calls,
             GivesUp(c) \/ Write(c) \/ Rewrite(c) \/ ReadLine(c) \/ Verified(c)
      PROVE  Crashed' <=> Crashed
    <2>1. UNCHANGED proc
        BY <1>1 DEF GivesUp, Reject, StartFails, WakeFails, RewriteFails, RereadFails, VerifyEOF,
           childVars, Write, Rewrite, ReadLine, Verified
    <2> QED BY <2>1 DEF Crashed
<1>2. ASSUME NEW c \in Calls, Restarts(c) \/ VerifyTimeout(c) PROVE Crashed' <=> Crashed
    BY <1>2, KillCrash DEF Restarts, WriteFails, ReadFails, RestartUnlock, VerifyTimeout
<1>3. ASSUME NEW c \in Calls, EnsureRunning(c) \/ Wake(c) PROVE Crashed' <=> Crashed
    <2>1. CASE UNCHANGED proc
        BY <2>1 DEF Crashed
    <2>2. CASE \E p \in Procs : Spawn(p) /\ proc' = [proc EXCEPT ![p] = "running"]
        BY <2>2, SpawnCrash DEF Spawn
    <2> QED BY <1>3, <2>1, <2>2 DEF EnsureRunning, Wake
<1>4. CASE Close
    BY <1>4, KillCrash DEF Close
<1>5. ASSUME NEW p \in Procs, Execute(p) \/ Chat(p) PROVE Crashed' <=> Crashed
    BY <1>5 DEF Execute, Chat, Crashed
<1>6. ASSUME NEW p \in Procs, ExecuteAndExit(p) \/ Exit(p) PROVE Crashed'
    <2>1. proc'[p] = "exited"
        BY <1>6 DEF ExecuteAndExit, Exit, Typed
    <2> QED BY <2>1 DEF Crashed
<1> QED BY <1>1, <1>2, <1>3, <1>4, <1>5, <1>6, NextCases DEF Child

\* A message comes to a child only when its RoundTrip writes it.
LEMMA PendingStep ==
    ASSUME Typed, Locked, Untouched, OnePending, Next, NEW d \in Calls, Pending(d)'
    PROVE  Pending(d) \/ Write(d) \/ Rewrite(d)
<1> SUFFICES ASSUME ~Write(d), ~Rewrite(d) PROVE NotMore(d)
    BY DEF NotMore, Pending, Running
<1>1. ASSUME NEW c \in Calls, Write(c) \/ Rewrite(c) PROVE NotMore(d)
    <2>1. /\ c # d /\ cmd \in Procs /\ c \in Messages /\ UNCHANGED proc
        BY <1>1 DEF Write, Rewrite, Messages, Locked, Holding, Typed
    <2>2. \A p \in Procs : stdin'[p] = IF p = cmd THEN Append(stdin[cmd], c) ELSE stdin[p]
        BY <1>1, <2>1 DEF Write, Rewrite, Written, Encode, Typed
    <2>3. Holds(Append(stdin[cmd], c), d) => Holds(stdin[cmd], d)
        BY <2>1, AppendFacts DEF Typed
    <2> QED BY <2>1, <2>2, <2>3 DEF NotMore, Running
<1>2. ASSUME NEW c \in Calls, EnsureRunning(c) \/ Wake(c) PROVE NotMore(d)
    <2>1. \A p \in Procs : Running(p)' => \/ Running(p) /\ stdin'[p] = stdin[p]
                                         \/ stdin'[p] \in {<<>>, <<Ping>>}
        BY <1>2 DEF EnsureRunning, Wake, Spawn, Running, Untouched, Typed
    <2> QED BY <2>1, NoneAnew
<1>3. ASSUME UNCHANGED stdin, \A p \in Procs : Running(p)' => Running(p) PROVE NotMore(d)
    BY <1>3 DEF NotMore
<1>4. ASSUME NEW c \in Calls, GivesUp(c) \/ ReadLine(c) \/ Verified(c) PROVE NotMore(d)
    <2>1. UNCHANGED <<proc, stdin>>
        BY <1>4 DEF GivesUp, Reject, StartFails, WakeFails, RewriteFails, RereadFails, VerifyEOF,
           childVars, ReadLine, Verified
    <2> QED BY <1>3, <2>1 DEF Running
<1>5. ASSUME Close \/ \E c \in Calls : Restarts(c) \/ VerifyTimeout(c) PROVE NotMore(d)
    <2>1. UNCHANGED stdin /\ proc' = Killed
        BY <1>5 DEF Close, Restarts, WriteFails, ReadFails, RestartUnlock, VerifyTimeout
    <2>2. \A p \in Procs : Running(p)' => Running(p)
        BY <2>1, KilledFacts DEF Running
    <2> QED BY <1>3, <2>1, <2>2
<1>6. ASSUME NEW p \in Procs, Chat(p) \/ Exit(p) PROVE NotMore(d)
    <2>1. UNCHANGED stdin /\ \A q \in Procs : Running(q)' => Running(q)
        BY <1>6 DEF Chat, Exit, Running, Typed
    <2> QED BY <1>3, <2>1
<1>7. ASSUME NEW p \in Procs, Execute(p) \/ ExecuteAndExit(p) PROVE NotMore(d)
    BY <1>7, Executed
<1> QED BY <1>1, <1>2, <1>4, <1>5, <1>6, <1>7, NextCases DEF Child

\* A call returns, or goes on.
LEMMA ReturnedMoves ==
    ASSUME Typed, Returned, NEW c \in Calls, pc[c] # "done",
           \/ \E r : r # "none" /\ Goto(c, "done") /\ got' = [got EXCEPT ![c] = r]
           \/ \E loc : loc # "done" /\ Goto(c, loc) /\ UNCHANGED got
           \/ UNCHANGED <<pc, got>>,
           closed' => mu' = Free
    PROVE  Returned'
<1>1. CASE UNCHANGED <<pc, got>>
    BY <1>1 DEF Returned
<1>2. CASE \E r : r # "none" /\ Goto(c, "done") /\ got' = [got EXCEPT ![c] = r]
    BY <1>2 DEF Returned, Goto, Typed
<1>3. CASE \E loc : loc # "done" /\ Goto(c, loc) /\ UNCHANGED got
    BY <1>3 DEF Returned, Goto, Typed
<1> QED BY <1>1, <1>2, <1>3

\* Calls return once, and after Close none has the lock.
LEMMA ReturnedStep ==
    ASSUME Typed, Locked, Returned, Next
    PROVE  Returned'
<1> USE DEF Return
<1>0. \A c \in Calls : pc[c] \in Holding => ~closed /\ pc[c] # "done"
    BY StdioAssumption DEF Locked, Returned, Free, Holding
<1>1. ASSUME NEW c \in Calls, GivesUp(c) PROVE Returned'
    <2>1. Goto(c, "done") /\ got' = [got EXCEPT ![c] = "error"] /\ mu' = Free /\ pc[c] # "done"
        BY <1>1 DEF GivesUp, Reject, StartFails, WakeFails, RewriteFails, RereadFails, VerifyEOF
    <2> QED BY <2>1, ReturnedMoves
<1>2. ASSUME NEW c \in Calls, Restarts(c) \/ VerifyTimeout(c) PROVE Returned'
    <2>1. /\ mu' = Free /\ pc[c] # "done"
          /\ \/ Goto(c, "done") /\ got' = [got EXCEPT ![c] = "error"]
             \/ \E loc \in {"sleepW", "sleepR"} : Goto(c, loc) /\ UNCHANGED got
        BY <1>2 DEF Restarts, WriteFails, ReadFails, RestartUnlock, VerifyTimeout
    <2> QED BY <2>1, ReturnedMoves
<1>3. ASSUME NEW c \in Calls, EnsureRunning(c) \/ Wake(c) PROVE Returned'
    <2>1. /\ ~closed' /\ pc[c] # "done" /\ UNCHANGED got
          /\ \E loc \in {"write", "verifyW", "verifyR"} : Goto(c, loc)
        BY <1>3 DEF EnsureRunning, Wake
    <2> QED BY <2>1, ReturnedMoves
<1>4. ASSUME NEW c \in Calls, Write(c) \/ Rewrite(c) PROVE Returned'
    <2>1. ~closed' /\ pc[c] # "done"
        BY <1>0, <1>4 DEF Write, Rewrite, Holding
    <2>2. \/ Goto(c, "done") /\ got' = [got EXCEPT ![c] = "accepted"]
          \/ \E loc \in {"read", "reread"} : Goto(c, loc) /\ UNCHANGED got
        BY <1>4 DEF Write, Rewrite, Written
    <2> QED BY <2>1, <2>2, ReturnedMoves
<1>5. ASSUME NEW c \in Calls, ReadLine(c) PROVE Returned'
    <2>1. ~closed' /\ pc[c] # "done" /\ cmd \in Procs
        BY <1>0, <1>5 DEF ReadLine, Holding, Locked, Typed
    <2>2. Head(stdout[cmd]) # "none"
        <3>1. Head(stdout[cmd]) \in Lines
            BY <1>5, <2>1 DEF ReadLine, Typed
        <3> QED BY <3>1, StdioAssumption DEF Lines, Messages, Ping
    <2>3. \/ \E r : r # "none" /\ Goto(c, "done") /\ got' = [got EXCEPT ![c] = r]
          \/ UNCHANGED <<pc, got>>
        BY <1>5, <2>2 DEF ReadLine
    <2> QED BY <2>1, <2>3, ReturnedMoves
<1>6. ASSUME NEW c \in Calls, Verified(c) PROVE Returned'
    <2>1. ~closed' /\ pc[c] # "done" /\ UNCHANGED got
        BY <1>0, <1>6 DEF Verified, Holding
    <2>2. \E loc \in {"rewrite", "resend"} : Goto(c, loc)
        BY <1>6 DEF Verified
    <2> QED BY <2>1, <2>2, ReturnedMoves
<1>7. CASE Close
    BY <1>7 DEF Close, Returned
<1>8. ASSUME NEW p \in Procs, Child(p) PROVE Returned'
    BY <1>8 DEF Child, Execute, ExecuteAndExit, Chat, Exit, transportVars, Returned
<1> QED BY <1>1, <1>2, <1>3, <1>4, <1>5, <1>6, <1>7, <1>8, NextCases

\* What a child's output holds after a line is written to it or read from it.
LEMMA LineFacts ==
    ASSUME NEW s \in Seq(Lines)
    PROVE  /\ \A m \in Lines : \A x : Holds(Append(s, m), x) => Holds(s, x) \/ x = m
           /\ s # <<>> => /\ Head(s) \in Lines /\ Holds(s, Head(s))
                          /\ \A x : Holds(Tail(s), x) => Holds(s, x)
<1>1. ASSUME NEW m \in Lines, NEW x, Holds(Append(s, m), x) PROVE Holds(s, x) \/ x = m
    <2>1. PICK i \in DOMAIN Append(s, m) : Append(s, m)[i] = x
        BY <1>1 DEF Holds
    <2>2. i \in 1..(Len(s) + 1) /\ DOMAIN s = 1..Len(s) /\ Len(s) \in Nat
        BY <2>1, AppendProperties
    <2>3. (i \in 1..Len(s) /\ s[i] = x) \/ x = m
        BY <2>1, <2>2, AppendProperties
    <2> QED BY <2>2, <2>3 DEF Holds
<1>2. ASSUME s # <<>>
      PROVE  /\ Head(s) \in Lines /\ Holds(s, Head(s))
             /\ \A x : Holds(Tail(s), x) => Holds(s, x)
    <2>1. /\ Head(s) \in Lines /\ Tail(s) \in Seq(Lines) /\ Len(s) \in Nat \ {0}
          /\ DOMAIN s = 1..Len(s) /\ DOMAIN Tail(s) = 1..(Len(s) - 1)
          /\ \A i \in 1..(Len(s) - 1) : Tail(s)[i] = s[i + 1]
          /\ Head(s) = s[1]
        BY <1>2, HeadTailProperties, EmptySeq
    <2>2. Holds(s, Head(s))
        BY <2>1 DEF Holds
    <2>3. ASSUME NEW x, Holds(Tail(s), x) PROVE Holds(s, x)
        <3>1. PICK i \in 1..(Len(s) - 1) : s[i + 1] = x
            BY <2>1, <2>3 DEF Holds
        <3>2. i + 1 \in DOMAIN s
            BY <2>1, <3>1
        <3> QED BY <3>1, <3>2 DEF Holds
    <2> QED BY <2>1, <2>2, <2>3
<1> QED BY <1>1, <1>2

\* Replies are written for requests that take effect.
LEMMA ShownStep ==
    ASSUME Typed, Locked, OnePending, Shown, Next
    PROVE  Shown'
<1> USE DEF Return
<1>1. ASSUME UNCHANGED <<stdout, execs>> PROVE Shown'
    BY <1>1 DEF Shown
<1>2. ASSUME NEW c \in Calls, GivesUp(c) \/ Restarts(c) \/ VerifyTimeout(c) PROVE Shown'
    <2>1. UNCHANGED <<stdout, execs>>
        BY <1>2 DEF GivesUp, Reject, StartFails, WakeFails, RewriteFails, RereadFails, VerifyEOF,
           childVars, Restarts, WriteFails, ReadFails, VerifyTimeout
    <2> QED BY <1>1, <2>1
<1>3. ASSUME NEW c \in Calls, EnsureRunning(c) \/ Wake(c) \/ Write(c) \/ Rewrite(c) PROVE Shown'
    BY <1>1, <1>3 DEF EnsureRunning, Wake, Write, Rewrite
<1>4. ASSUME NEW c \in Calls, ReadLine(c) \/ Verified(c) PROVE Shown'
    <2>1. cmd \in Procs /\ stdout[cmd] # <<>> /\ UNCHANGED execs
        BY <1>4 DEF ReadLine, Verified, Locked, Holding, Typed
    <2>2. \A p \in Procs : stdout'[p] = IF p = cmd THEN Tail(stdout[cmd]) ELSE stdout[p]
        BY <1>4, <2>1 DEF ReadLine, Verified, Typed
    <2>3. \A x : Holds(Tail(stdout[cmd]), x) => Holds(stdout[cmd], x)
        BY <2>1, LineFacts DEF Typed
    <2> QED BY <2>1, <2>2, <2>3 DEF Shown
<1>5. CASE Close
    BY <1>1, <1>5 DEF Close
<1>6. ASSUME NEW p \in Procs, Exit(p) PROVE Shown'
    BY <1>1, <1>6 DEF Exit
<1>7. ASSUME NEW p \in Procs, Chat(p) PROVE Shown'
    <2>1. PICK line \in Chatter : stdout' = [stdout EXCEPT ![p] = Append(@, line)]
        BY <1>7 DEF Chat
    <2>2. line \in Lines /\ line \notin Calls
        BY StdioAssumption DEF Lines
    <2>3. \A x : Holds(Append(stdout[p], line), x) => Holds(stdout[p], x) \/ x = line
        BY <2>2, LineFacts DEF Typed
    <2>4. \A q \in Procs : stdout'[q] = IF q = p THEN Append(stdout[p], line) ELSE stdout[q]
        BY <2>1 DEF Typed
    <2> QED BY <1>7, <2>2, <2>3, <2>4 DEF Shown, Chat
<1>8. ASSUME NEW p \in Procs, Execute(p) \/ ExecuteAndExit(p) PROVE Shown'
    <2>1. PICK m : m = Head(stdin[p])
        OBVIOUS
    <2>2. /\ m \in Messages
          /\ \A d \in Calls : execs'[d] = IF d = m THEN execs[d] + 1 ELSE execs[d]
        BY <1>8, <2>1, Executed
    <2>3. \A d \in Calls : execs[d] \in Nat /\ execs'[d] \in Nat
                           /\ (execs[d] # 0 \/ d = m => execs'[d] # 0)
        BY <2>2 DEF Typed
    <2>4. CASE UNCHANGED stdout
        BY <2>3, <2>4 DEF Shown
    <2>5. CASE m \notin Notifications /\ stdout' = [stdout EXCEPT ![p] = Append(@, m)]
        <3>1. \A x : Holds(Append(stdout[p], m), x) => Holds(stdout[p], x) \/ x = m
            BY <2>2, LineFacts DEF Typed, Lines
        <3>2. \A q \in Procs : stdout'[q] = IF q = p THEN Append(stdout[p], m) ELSE stdout[q]
            BY <2>5 DEF Typed
        <3> QED BY <2>3, <2>5, <3>1, <3>2 DEF Shown
    <2> QED BY <1>8, <2>1, <2>4, <2>5 DEF Execute, ExecuteAndExit
<1> QED BY <1>2, <1>3, <1>4, <1>5, <1>6, <1>7, <1>8, NextCases DEF Child

\* The steps of call c.
Own(c) ==
    \/ GivesUp(c) \/ Restarts(c) \/ EnsureRunning(c) \/ Write(c) \/ Rewrite(c)
    \/ ReadLine(c) \/ Wake(c) \/ Verified(c) \/ VerifyTimeout(c)

\* Only a call's own steps move it and answer it, and none is answered twice.
LEMMA OwnStep ==
    ASSUME Typed, Returned, Next, NEW d \in Calls
    PROVE  /\ Own(d) \/ (pc'[d] = pc[d] /\ got'[d] = got[d])
           /\ got'[d] = got[d] \/ got[d] = "none"
<1> USE DEF Return, Goto, Typed
<1>1. ASSUME NEW c \in Calls, Own(c)
      PROVE  /\ c # d => pc'[d] = pc[d] /\ got'[d] = got[d]
             /\ pc[c] # "done"
    <2>1. CASE GivesUp(c)
        BY <2>1 DEF GivesUp, Reject, StartFails, WakeFails, RewriteFails, RereadFails, VerifyEOF
    <2>2. CASE Restarts(c) \/ VerifyTimeout(c)
        BY <2>2 DEF Restarts, WriteFails, ReadFails, RestartUnlock, VerifyTimeout
    <2>3. CASE EnsureRunning(c) \/ Wake(c) \/ Verified(c)
        BY <2>3 DEF EnsureRunning, Wake, Verified
    <2>4. CASE Write(c) \/ Rewrite(c)
        BY <2>4 DEF Write, Rewrite, Written
    <2>5. CASE ReadLine(c)
        BY <2>5 DEF ReadLine
    <2> QED BY <1>1, <2>1, <2>2, <2>3, <2>4, <2>5 DEF Own
<1>2. ASSUME Close \/ \E p \in Procs : Child(p) PROVE UNCHANGED <<pc, got>>
    BY <1>2 DEF Close, Child, Execute, ExecuteAndExit, Chat, Exit, transportVars
<1>3. (\E c \in Calls : Own(c)) \/ Close \/ \E p \in Procs : Child(p)
    BY NextCases DEF Own
<1>4. got[d] # "none" => pc[d] = "done"
    BY DEF Returned
<1> QED BY <1>1, <1>2, <1>3, <1>4

\* A message takes effect when a child executes it, and is with no child then.
LEMMA EffectStep ==
    ASSUME Typed, OnePending, Next, NEW d \in Calls
    PROVE  execs'[d] = execs[d] \/ (execs'[d] = execs[d] + 1 /\ Pending(d) /\ ~Pending(d)')
<1>1. ASSUME NEW c \in Calls, Own(c) PROVE UNCHANGED execs
    BY <1>1 DEF Own, GivesUp, Reject, StartFails, WakeFails, RewriteFails, RereadFails, VerifyEOF,
       childVars, Restarts, WriteFails, ReadFails, EnsureRunning, Write, Rewrite, ReadLine, Wake,
       Verified, VerifyTimeout
<1>2. ASSUME Close \/ \E p \in Procs : Chat(p) \/ Exit(p) PROVE UNCHANGED execs
    BY <1>2 DEF Close, Chat, Exit
<1>3. ASSUME NEW p \in Procs, Execute(p) \/ ExecuteAndExit(p)
      PROVE  execs'[d] = execs[d] \/ (execs'[d] = execs[d] + 1 /\ Pending(d) /\ ~Pending(d)')
    BY <1>3, Executed
<1> QED BY <1>1, <1>2, <1>3, NextCases DEF Own, Child

\* Notifications.
LEMMA NotedStep ==
    ASSUME IInv, ServiceInv, Next, NEW c \in Notifications
    PROVE  Noted(c)'
<1> USE DEF IInv, ServiceInv
<1>1. c \in Calls /\ Noted(c) /\ execs[c] \in Nat
    BY StdioAssumption DEF Typed
<1>2. ASSUME Write(c) \/ Rewrite(c)
      PROVE  got[c] = "none" /\ got'[c] = "accepted"
    <2>1. pc[c] # "done"
        BY <1>2 DEF Write, Rewrite
    <2>2. got' = [got EXCEPT ![c] = "accepted"]
        BY <1>2 DEF Write, Rewrite, Written, Return
    <2> QED BY <1>1, <2>1, <2>2 DEF Returned, Typed
<1>3. Pending(c)' => Pending(c) \/ Write(c) \/ Rewrite(c)
    BY <1>1, PendingStep
<1>4. execs'[c] = execs[c] \/ (Pending(c) /\ ~Pending(c)')
    BY <1>1, EffectStep
<1>5. got'[c] = got[c] \/ got[c] = "none"
    BY <1>1, OwnStep
<1>6. ASSUME got'[c] # "accepted" PROVE execs'[c] = 0 /\ ~Pending(c)'
    BY <1>1, <1>2, <1>3, <1>4, <1>5, <1>6 DEF Noted
<1>7. ASSUME Pending(c)' PROVE execs'[c] = 0
    BY <1>1, <1>2, <1>3, <1>4, <1>7 DEF Noted
<1> QED BY <1>6, <1>7 DEF Noted

\* A request that is no longer read for is with no child, if children do not chat.
LEMMA ReadEnds ==
    ASSUME IInv, Next, chats = 0, NEW c \in Calls, pc[c] \in {"read", "reread"},
           Own(c), pc'[c] # pc[c]
    PROVE  ~Pending(c)'
<1> USE DEF IInv
<1>1. cmd \in Procs /\ skipped = 0 /\ Answering(cmd, c)
    BY DEF Locked, Holding, Typed, InStep
<1>2. \A p \in Procs : Running(p) /\ Holds(stdin[p], c) => p = cmd
    BY DEF Counted
<1>3. ReadLine(c) \/ ReadFails(c) \/ RereadFails(c)
    BY DEF Own, GivesUp, Reject, StartFails, WakeFails, RewriteFails, VerifyEOF, Restarts,
       WriteFails, EnsureRunning, Write, Rewrite, Wake, Verified, VerifyTimeout
<1>4. ASSUME ~Holds(stdin[cmd], c) \/ ~Running(cmd), UNCHANGED <<proc, stdin>>
      PROVE  ~Pending(c)'
    BY <1>2, <1>4 DEF Pending, Running
<1>5. CASE ReadLine(c)
    <2>1. stdout[cmd] # <<>> /\ UNCHANGED <<proc, stdin>>
        BY <1>5 DEF ReadLine
    <2>2. Running(cmd) => stdin[cmd] = <<>>
        BY <1>1, <2>1 DEF Answering
    <2>3. ~Holds(<<>>, c)
        BY DEF Holds
    <2> QED BY <1>4, <2>1, <2>2, <2>3
<1>6. CASE ReadFails(c)
    <2>1. proc' = Killed /\ UNCHANGED stdin
        BY <1>6 DEF ReadFails, RestartUnlock
    <2>2. \A p \in Procs : Running(p)' => Running(p) /\ p # cmd
        BY <2>1, KilledFacts DEF Running
    <2> QED BY <1>2, <2>1, <2>2 DEF Pending, Running
<1>7. CASE RereadFails(c)
    <2>1. ~Running(cmd) /\ UNCHANGED <<proc, stdin>>
        BY <1>1, <1>7, StdioAssumption DEF RereadFails, ReadFailed, AtEOF, Running, childVars
    <2> QED BY <1>4, <2>1
<1> QED BY <1>3, <1>5, <1>6, <1>7

\* Requests.
LEMMA SettledStep ==
    ASSUME IInv, ServiceInv, Next, NEW c \in Calls \ Notifications
    PROVE  Settled(c)'
<1> USE DEF IInv, ServiceInv
<1>1. chats' = 0 => chats = 0
    <2>1. ASSUME NEW d \in Calls, Own(d) PROVE UNCHANGED chats
        BY <2>1 DEF Own, GivesUp, Reject, StartFails, WakeFails, RewriteFails, RereadFails, VerifyEOF,
           childVars, Restarts, WriteFails, ReadFails, EnsureRunning, Write, Rewrite, ReadLine, Wake,
           Verified, VerifyTimeout
    <2>2. Close => UNCHANGED chats
        BY DEF Close
    <2>3. ASSUME NEW p \in Procs, Child(p) PROVE chats' \in {chats, chats + 1}
        BY <2>3 DEF Child, Execute, ExecuteAndExit, Chat, Exit
    <2> QED BY <2>1, <2>2, <2>3, NextCases DEF Own, Typed
<1> SUFFICES ASSUME chats' = 0
             PROVE  /\ Pending(c)' => pc'[c] \in {"read", "reread"}
                    /\ pc'[c] \in {"sleepR", "verifyR", "resend", "reread"} => Crashed'
    BY DEF Settled
<1>2. /\ Pending(c) => pc[c] \in {"read", "reread"}
      /\ pc[c] \in {"sleepR", "verifyR", "resend", "reread"} => Crashed
    BY <1>1 DEF Settled
<1>3. Own(c) \/ pc'[c] = pc[c]
    BY OwnStep
<1>4. ASSUME Pending(c)' PROVE pc'[c] \in {"read", "reread"}
    <2>1. CASE Write(c) \/ Rewrite(c)
        BY <2>1 DEF Write, Rewrite, Written, Goto, Typed
    <2>2. CASE Pending(c)
        BY <1>1, <1>2, <1>3, <1>4, <2>2, ReadEnds
    <2> QED BY <1>4, <2>1, <2>2, PendingStep
<1>5. ASSUME pc'[c] \in {"sleepR", "verifyR", "resend", "reread"} PROVE Crashed'
    <2>1. CASE pc[c] \in {"sleepR", "verifyR", "resend", "reread"}
        BY <1>2, <2>1, CrashStep
    <2>2. CASE pc[c] \notin {"sleepR", "verifyR", "resend", "reread"}
        <3>1. Own(c)
            BY <1>3, <1>5, <2>2
        <3>2. ReadFails(c)
            BY <1>5, <2>2, <3>1 DEF Own, GivesUp, Reject, StartFails, WakeFails, RewriteFails,
               RereadFails, VerifyEOF, Restarts, WriteFails, RestartUnlock, EnsureRunning, Write,
               Rewrite, Written, ReadLine, Wake, Verified, VerifyTimeout, Return, Goto, Typed
        <3>3. skipped = 0
            BY <1>1 DEF InStep
        <3>4. ~Running(cmd) /\ cmd # NoProc /\ proc' = Killed
            BY <3>2, <3>3, StdioAssumption DEF ReadFails, ReadFailed, AtEOF, RestartUnlock,
               Running, Locked, Holding
        <3> QED BY <3>4, KillCrash
    <2> QED BY <2>1, <2>2
<1> QED BY <1>4, <1>5

\* The rest of the invariant holds at the start, and every step keeps it.
LEMMA ServiceInductive == Spec => [](IInv /\ ServiceInv)
<1>1. Init => ServiceInv
    <2> SUFFICES ASSUME Init PROVE ServiceInv
        OBVIOUS
    <2> USE StdioAssumption DEF Init
    <2>1. Returned
        BY DEF Returned
    <2>2. \A p \in Procs, d \in Calls : ~Holds(stdout[p], d) /\ ~Running(p)
        BY DEF Holds, Running
    <2> QED BY <2>1, <2>2 DEF ServiceInv, Shown, Noted, Settled, Pending
<1>2. IInv /\ ServiceInv /\ [Next]_vars => ServiceInv'
    <2> SUFFICES ASSUME IInv, ServiceInv, [Next]_vars PROVE ServiceInv'
        OBVIOUS
    <2>1. CASE Next
        <3>1. Returned' /\ Shown'
            BY <2>1, ReturnedStep, ShownStep DEF IInv, ServiceInv
        <3>2. \A c \in Notifications : Noted(c)'
            BY <2>1, NotedStep
        <3>3. \A c \in Calls \ Notifications : Settled(c)'
            BY <2>1, SettledStep
        <3> QED BY <3>1, <3>2, <3>3 DEF ServiceInv
    <2>2. CASE UNCHANGED vars
        BY <2>2 DEF vars, ServiceInv, Returned, Shown, Noted, Settled, Pending, Running, Crashed
    <2> QED BY <2>1, <2>2
<1> QED BY <1>1, <1>2, InitIInv, NextIInv, PTL DEF Spec

-----------------------------------------------------------------------------
(* The transport implements StdioService: its steps.                       *)

\* Nothing that StdioService speaks of changes.
LEMMA StutterSim ==
    ASSUME UNCHANGED <<got, execs, closed, chats>>, Crashed' <=> Crashed
    PROVE  [Service!Next]_(Service!vars)
BY DEF Service!vars

\* A RoundTrip that returns is an Answer.
LEMMA AnswerSim ==
    ASSUME NEW c \in Calls, got[c] = "none", NEW a, got' = [got EXCEPT ![c] = a],
           a \in Service!Replies, Service!MayAnswer(c, a),
           UNCHANGED <<execs, closed, chats>>, Crashed' <=> Crashed
    PROVE  [Service!Next]_(Service!vars)
<1>1. UNCHANGED <<execs, closed, Crashed, chats # 0>>
    OBVIOUS
<1>2. Service!Answer(c)
    BY <1>1 DEF Service!Answer
<1> QED BY <1>2 DEF Service!Next

\* So is one that returns an error, whatever it had done.
LEMMA ErrorSim ==
    ASSUME IInv, ServiceInv, NEW c \in Calls, pc[c] # "done", got' = [got EXCEPT ![c] = "error"],
           UNCHANGED <<execs, closed, chats>>, Crashed' <=> Crashed
    PROVE  [Service!Next]_(Service!vars)
<1>1. got[c] = "none"
    BY DEF ServiceInv, Returned
<1>2. Service!MayAnswer(c, "error")
    BY <1>1 DEF Service!MayAnswer, ServiceInv, Noted
<1>3. "error" \in Service!Replies
    BY DEF Service!Replies
<1> QED BY <1>1, <1>2, <1>3, AnswerSim

\* The reply that ReadLine takes is one that StdioService allows.
LEMMA ReadSim ==
    ASSUME IInv, ServiceInv, NEW c \in Calls, ReadLine(c), ResponseMatchesRequest'
    PROVE  [Service!Next]_(Service!vars)
<1> DEFINE a == Head(stdout[cmd])
<1>1. /\ cmd \in Procs /\ stdout[cmd] # <<>> /\ UNCHANGED <<execs, closed, chats, proc>>
      /\ c \notin Notifications
    BY DEF ReadLine, IInv, Locked, Holding, Typed, Untouched
<1>2. Crashed' <=> Crashed
    BY <1>1 DEF Crashed
<1>3. CASE a = "log"
    BY <1>1, <1>2, <1>3, StutterSim DEF ReadLine
<1>4. CASE a # "log"
    <2>1. got' = [got EXCEPT ![c] = a] /\ got[c] = "none" /\ ~closed
        BY <1>4, StdioAssumption DEF ReadLine, Return, IInv, ServiceInv, Returned, Locked, Holding, Free
    <2>2. a \in Lines /\ Holds(stdout[cmd], a)
        BY <1>1, LineFacts DEF IInv, Typed
    <2>3. a \in Calls => a \notin Notifications /\ execs[a] # 0
        BY <1>1, <2>2 DEF ServiceInv, Shown
    <2>4. a \in Service!Foreign
        BY <1>4, <2>2, <2>3, StdioAssumption DEF Service!Foreign, Lines, Messages, Ping
    <2>5. chats = 0 => a = c
        <3>1. got'[c] = a
            BY <2>1 DEF IInv, Typed
        <3>2. a \notin {"none", "error", "accepted"}
            BY <2>2, StdioAssumption DEF Lines, Messages, Ping
        <3> QED BY <1>1, <3>1, <3>2 DEF ResponseMatchesRequest
    <2>6. Service!MayAnswer(c, a)
        BY <1>1, <2>1, <2>3, <2>4, <2>5 DEF Service!MayAnswer
    <2>7. a \in Service!Replies
        BY <2>4 DEF Service!Replies
    <2> HIDE DEF a
    <2> QED BY <1>1, <1>2, <2>1, <2>6, <2>7, AnswerSim
<1> QED BY <1>3, <1>4

\* What a child executes may take effect.
LEMMA EffectSim ==
    ASSUME IInv, ServiceInv, NEW p \in Procs, Execute(p) \/ ExecuteAndExit(p), Crashed => Crashed',
           ExecuteAndExit(p) => Crashed', Execute(p) => (Crashed' <=> Crashed)
    PROVE  [Service!Next]_(Service!vars)
<1>1. PICK m : m = Head(stdin[p])
    OBVIOUS
<1>2. /\ m \in Messages
      /\ \A d \in Calls : execs'[d] = IF d = m THEN execs[d] + 1 ELSE execs[d]
      /\ m \in Calls => Pending(m)
    BY <1>1, Executed DEF IInv
<1>3. UNCHANGED <<got, closed, chats>>
    BY DEF Execute, ExecuteAndExit, transportVars
<1>4. CASE m = Ping
    <2>1. UNCHANGED execs
        BY <1>1, <1>4 DEF Execute, ExecuteAndExit
    <2>2. CASE Crashed' <=> Crashed
        BY <1>3, <2>1, <2>2, StutterSim
    <2>3. CASE Crashed'
        <3>1. Service!Crash
            BY <1>3, <2>1, <2>3 DEF Service!Crash
        <3> QED BY <3>1 DEF Service!Next
    <2> QED BY <2>2, <2>3
<1>5. CASE m # Ping
    <2>1. m \in Calls /\ Pending(m)
        BY <1>2, <1>5 DEF Messages
    <2>2. execs' = [execs EXCEPT ![m] = @ + 1]
        BY <1>1, <1>5 DEF Execute, ExecuteAndExit
    <2>3. Service!MayTakeEffect(m)
        <3>1. CASE m \in Notifications
            BY <2>1, <3>1 DEF Service!MayTakeEffect, ServiceInv, Noted
        <3>2. CASE m \notin Notifications
            <4>1. Settled(m) /\ Counted(m) /\ execs[m] \in Nat /\ pc[m] \in Locations
                BY <2>1, <3>2 DEF ServiceInv, IInv, Typed
            <4>2. execs[m] = 0 \/ (execs[m] = 1 /\ pc[m] \in {"reread", "done"})
                BY <2>1, <4>1 DEF Counted, Locations, Holding
            <4>3. chats = 0 => pc[m] \in {"read", "reread"} /\ (pc[m] = "reread" => Crashed)
                BY <2>1, <4>1 DEF Settled
            <4>4. pc[m] \in {"read", "reread"} => got[m] = "none" /\ ~closed
                BY <2>1, StdioAssumption DEF ServiceInv, Returned, IInv, Locked, Holding, Free
            <4> QED BY <3>2, <4>2, <4>3, <4>4 DEF Service!MayTakeEffect
        <3> QED BY <3>1, <3>2
    <2>4. Service!TakeEffect(m)
        BY <1>3, <2>2, <2>3 DEF Service!TakeEffect
    <2> QED BY <2>1, <2>4 DEF Service!Next
<1> QED BY <1>4, <1>5

\* Every step is one of StdioService, or is not seen by its users.
LEMMA Simulation ==
    ASSUME IInv, ServiceInv, Next
    PROVE  [Service!Next]_(Service!vars)
<1> USE DEF Return
<1>0. IInv'
    BY NextIInv
<1>1. ASSUME NEW c \in Calls, GivesUp(c) PROVE [Service!Next]_(Service!vars)
    <2>1. got' = [got EXCEPT ![c] = "error"] /\ UNCHANGED <<execs, closed, chats, proc>> /\ pc[c] # "done"
        BY <1>1 DEF GivesUp, Reject, StartFails, WakeFails, RewriteFails, RereadFails, VerifyEOF, childVars
    <2>2. Crashed' <=> Crashed
        BY <2>1 DEF Crashed
    <2> QED BY <2>1, <2>2, ErrorSim
<1>2. ASSUME NEW c \in Calls, Restarts(c) \/ VerifyTimeout(c) PROVE [Service!Next]_(Service!vars)
    <2>1. /\ UNCHANGED <<execs, closed, chats>> /\ proc' = Killed /\ pc[c] # "done"
          /\ got' = [got EXCEPT ![c] = "error"] \/ UNCHANGED got
        BY <1>2 DEF Restarts, WriteFails, ReadFails, RestartUnlock, VerifyTimeout
    <2>2. Crashed' <=> Crashed
        BY <2>1, KillCrash DEF IInv
    <2> QED BY <2>1, <2>2, ErrorSim, StutterSim
<1>3. ASSUME NEW c \in Calls, EnsureRunning(c) \/ Wake(c) PROVE [Service!Next]_(Service!vars)
    <2>1. UNCHANGED <<got, execs, closed, chats>>
        BY <1>3 DEF EnsureRunning, Wake
    <2>2. CASE UNCHANGED proc
        BY <2>1, <2>2, StutterSim DEF Crashed
    <2>3. CASE \E p \in Procs : Spawn(p) /\ proc' = [proc EXCEPT ![p] = "running"]
        <3>1. Crashed' <=> Crashed
            BY <2>3, SpawnCrash DEF Spawn, IInv
        <3> QED BY <2>1, <3>1, StutterSim
    <2> QED BY <1>3, <2>2, <2>3 DEF EnsureRunning, Wake
<1>4. ASSUME NEW c \in Calls, Write(c) \/ Rewrite(c) PROVE [Service!Next]_(Service!vars)
    <2>1. UNCHANGED <<execs, closed, chats, proc>> /\ pc[c] \in {"write", "rewrite", "resend"}
        BY <1>4 DEF Write, Rewrite
    <2>2. Crashed' <=> Crashed
        BY <2>1 DEF Crashed
    <2>3. got[c] = "none" /\ ~closed
        BY <2>1, StdioAssumption DEF IInv, ServiceInv, Returned, Locked, Holding, Free
    <2>4. CASE c \in Notifications
        <3>1. got' = [got EXCEPT ![c] = "accepted"]
            BY <1>4, <2>4 DEF Write, Rewrite, Written
        <3>2. Service!MayAnswer(c, "accepted") /\ "accepted" \in Service!Replies
            BY <2>3, <2>4 DEF Service!MayAnswer, Service!Replies
        <3> QED BY <2>1, <2>2, <2>3, <3>1, <3>2, AnswerSim
    <2>5. CASE c \notin Notifications
        <3>1. UNCHANGED got
            BY <1>4, <2>5 DEF Write, Rewrite, Written
        <3> QED BY <2>1, <2>2, <3>1, StutterSim
    <2> QED BY <2>4, <2>5
<1>5. ASSUME NEW c \in Calls, ReadLine(c) PROVE [Service!Next]_(Service!vars)
    <2>1. ResponseMatchesRequest'
        BY <1>0 DEF IInv
    <2> QED BY <1>5, <2>1, ReadSim
<1>6. ASSUME NEW c \in Calls, Verified(c) PROVE [Service!Next]_(Service!vars)
    BY <1>6, StutterSim DEF Verified, Crashed
<1>7. CASE Close
    <2>1. closed' = TRUE /\ UNCHANGED <<got, execs, chats>> /\ (Crashed' <=> Crashed)
        BY <1>7, KillCrash DEF Close, IInv
    <2>2. Service!Close
        BY <2>1 DEF Service!Close
    <2> QED BY <2>2 DEF Service!Next
<1>8. ASSUME NEW p \in Procs, Execute(p) \/ ExecuteAndExit(p) PROVE [Service!Next]_(Service!vars)
    <2>1. Crashed => Crashed'
        BY CrashStep DEF IInv
    <2>2. Execute(p) => (Crashed' <=> Crashed)
        BY DEF Execute, Crashed
    <2>3. ExecuteAndExit(p) => Crashed'
        <3>1. ExecuteAndExit(p) => proc'[p] = "exited"
            BY DEF ExecuteAndExit, IInv, Typed
        <3> QED BY <3>1 DEF Crashed
    <2> QED BY <1>8, <2>1, <2>2, <2>3, EffectSim
<1>9. ASSUME NEW p \in Procs, Chat(p) PROVE [Service!Next]_(Service!vars)
    <2>1. UNCHANGED <<got, execs, closed, proc>> /\ chats' # 0
        BY <1>9 DEF Chat, transportVars, IInv, Typed
    <2>2. Crashed' <=> Crashed
        BY <2>1 DEF Crashed
    <2>3. Service!Garble
        BY <2>1, <2>2 DEF Service!Garble
    <2> QED BY <2>3 DEF Service!Next
<1>10. ASSUME NEW p \in Procs, Exit(p) PROVE [Service!Next]_(Service!vars)
    <2>1. UNCHANGED <<got, execs, closed, chats>> /\ proc'[p] = "exited"
        BY <1>10 DEF Exit, transportVars, IInv, Typed
    <2>2. Crashed'
        BY <2>1 DEF Crashed
    <2>3. Service!Crash
        BY <2>1, <2>2 DEF Service!Crash
    <2> QED BY <2>3 DEF Service!Next
<1> QED BY <1>1, <1>2, <1>3, <1>4, <1>5, <1>6, <1>7, <1>8, <1>9, <1>10, NextCases DEF Child

\* ServiceSafety: every behaviour of the transport, with any number of calls, children
\* and restarts, is one of StdioService.  RoundTrip returns a request's own reply after it
\* took effect, or an error, and the request does not take effect later; a request takes
\* effect twice only if a child crashed; nothing but errors comes after Close.
THEOREM ImplementsService == Spec => ServiceSafety
<1>1. Init => Service!Init
    <2>1. Init => ~Crashed
        BY DEF Init, Crashed
    <2> QED BY <2>1 DEF Init, Service!Init
<1>2. IInv /\ ServiceInv /\ [Next]_vars => [Service!Next]_(Service!vars)
    <2> SUFFICES ASSUME IInv, ServiceInv, [Next]_vars PROVE [Service!Next]_(Service!vars)
        OBVIOUS
    <2>1. CASE Next
        BY <2>1, Simulation
    <2>2. CASE UNCHANGED vars
        BY <2>2, StutterSim DEF vars, Crashed
    <2> QED BY <2>1, <2>2
<1> QED BY <1>1, <1>2, ServiceInductive, PTL DEF Spec, ServiceSafety, Service!Spec
=============================================================================
