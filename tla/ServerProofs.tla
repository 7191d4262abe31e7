---------------------------- MODULE ServerProofs ----------------------------
(***************************************************************************)
(* The shutdown order, the audit log and the agreement of lists and calls, *)
(* for any number of requests, messages, tools and callers.                *)
(***************************************************************************)
EXTENDS Server, SequenceTheorems, FiniteSetTheorems, TLAPS

-----------------------------------------------------------------------------
(* Shutdown.                                                               *)

\* The steps of a shutdown; all others leave its state alone.
ShutdownStep ==
    \/ \E q \in Requests : Accept(q) \/ Finish(q)
    \/ BackgroundStep \/ Signal \/ Drained \/ DrainTimesOut \/ StopBackground
    \/ CloseStep \/ ShutdownComplete \/ MainReturns
    \/ UNCHANGED shutdownVars

ShutdownTyped ==
    /\ mode \in {"stile", "wrap"}
    /\ req \in [Requests -> {"new", "active", "done"}]
    /\ signalled \in BOOLEAN /\ serving \in BOOLEAN /\ drained \in BOOLEAN
    /\ timedOut \in BOOLEAN /\ exited \in BOOLEAN
    /\ closed \subseteq Range(Steps)
    /\ busy \subseteq Background

\* Nothing is closed before the drain, after which no request comes.
DrainOrder ==
    /\ signalled => ~serving
    /\ drained => signalled
    /\ closed # {} => drained
    /\ drained /\ ~timedOut => Active = {}

\* The steps that wait for a goroutine have done so, and health comes before router.
StopOrder ==
    /\ \A b \in Background : b \in closed => b \in stopped /\ b \notin busy
    /\ "router" \in closed => "health" \in closed

ShutdownInv == ShutdownTyped /\ DrainOrder /\ StopOrder

\* The steps of a shutdown and the goroutines it waits for, in either program.
LEMMA StepsOfMode ==
    ASSUME mode \in {"stile", "wrap"}
    PROVE  /\ mode = "stile" =>
                /\ Steps = <<"health", "router", "tracer", "limiter", "healthRedis",
                             "audit", "tokens">>
                /\ Len(Steps) = 7 /\ Steps[1] = "health"
                /\ Range(Steps) = {"health", "router", "tracer", "limiter", "healthRedis",
                                   "audit", "tokens"}
                /\ Background = {"health", "router"}
           /\ mode = "wrap" =>
                /\ Steps = <<"tracer", "transport">>
                /\ Len(Steps) = 2
                /\ Range(Steps) = {"tracer", "transport"}
                /\ Background = {}
<1>1. CASE mode = "stile"
    <2>1. Steps = <<"health", "router", "tracer", "limiter", "healthRedis", "audit", "tokens">>
        BY <1>1 DEF Steps
    <2>2. Range(Steps) = {Steps[1], Steps[2], Steps[3], Steps[4], Steps[5], Steps[6], Steps[7]}
        BY <2>1 DEF Range
    <2>3. /\ Steps[1] = "health" /\ Steps[2] = "router" /\ Steps[3] = "tracer"
          /\ Steps[4] = "limiter" /\ Steps[5] = "healthRedis" /\ Steps[6] = "audit"
          /\ Steps[7] = "tokens" /\ Len(Steps) = 7
        BY <2>1
    <2> QED BY <1>1, <2>1, <2>2, <2>3 DEF Background
<1>2. CASE mode = "wrap"
    <2>1. Steps = <<"tracer", "transport">>
        BY <1>2 DEF Steps
    <2>2. Range(Steps) = {Steps[1], Steps[2]}
        BY <2>1 DEF Range
    <2>3. Steps[1] = "tracer" /\ Steps[2] = "transport" /\ Len(Steps) = 2
        BY <2>1
    <2> QED BY <1>2, <2>1, <2>2, <2>3 DEF Background
<1> QED BY <1>1, <1>2

\* The goroutine does its steps in order: the next one is not done, and the health
\* checker is done before any other.
LEMMA NextStepInOrder ==
    ASSUME ShutdownTyped, closed # Range(Steps)
    PROVE  /\ NextStep \in Range(Steps)
           /\ mode = "stile" /\ NextStep # "health" => "health" \in closed
<1> DEFINE I == {i \in 1..Len(Steps) : Steps[i] \notin closed}
<1>1. mode \in {"stile", "wrap"} /\ closed \subseteq Range(Steps)
    BY DEF ShutdownTyped
<1>2. I # {}
    <2>1. PICK s \in Range(Steps) : s \notin closed
        BY <1>1
    <2>2. PICK i \in DOMAIN Steps : s = Steps[i]
        BY DEF Range
    <2>3. DOMAIN Steps = 1..Len(Steps)
        BY <1>1, StepsOfMode
    <2> QED BY <2>1, <2>2, <2>3
<1>3. \E x \in I : \A y \in I : x <= y
    <2>1. Len(Steps) \in {2, 7}
        BY <1>1, StepsOfMode
    <2>2. I \subseteq 1..7
        BY <2>1
    <2>3. ASSUME NEW J, J \subseteq 1..7, J # {}
          PROVE  \E x \in J : \A y \in J : x <= y
        <3>1. CASE 1 \in J \/ 2 \in J
            BY <2>3, <3>1
        <3>2. CASE 1 \notin J /\ 2 \notin J /\ (3 \in J \/ 4 \in J)
            BY <2>3, <3>2
        <3>3. CASE J \subseteq {5, 6, 7} /\ (5 \in J \/ 6 \in J)
            BY <3>3
        <3>4. CASE J = {7}
            BY <3>4
        <3>5. CASE \A i \in 1..4 : i \notin J
            <4>1. J \subseteq {5, 6, 7}
                BY <2>3, <3>5
            <4>2. 5 \in J \/ 6 \in J \/ J = {7}
                BY <2>3, <4>1
            <4> QED BY <3>3, <3>4, <4>1, <4>2
        <3> QED BY <3>1, <3>2, <3>5
    <2> QED BY <1>2, <2>2, <2>3
<1> DEFINE k == CHOOSE x \in I : \A y \in I : x <= y
<1>4. k \in I /\ \A y \in I : k <= y
    BY <1>3
<1>5. NextStep = Steps[k]
    BY <1>2 DEF NextStep, SelectInSeq, Min
<1>6. NextStep \in Range(Steps)
    <2>1. DOMAIN Steps = 1..Len(Steps)
        BY <1>1, StepsOfMode
    <2> QED BY <1>4, <1>5, <2>1 DEF Range
<1>7. ASSUME mode = "stile", NextStep # "health" PROVE "health" \in closed
    <2>1. Steps[1] = "health" /\ Len(Steps) = 7
        BY <1>1, <1>7, StepsOfMode
    <2>2. k # 1
        BY <1>5, <1>7, <2>1
    <2>3. 1 \notin I
        BY <1>4, <2>2
    <2> QED BY <2>1, <2>3
<1> QED BY <1>6, <1>7

\* Every step keeps the order of a shutdown.
LEMMA ShutdownInvStep ==
    ASSUME ShutdownInv, ShutdownStep
    PROVE  ShutdownInv'
<1>0. ShutdownTyped /\ DrainOrder /\ StopOrder
    BY DEF ShutdownInv
<1>1. mode' = mode /\ Steps' = Steps /\ Range(Steps)' = Range(Steps) /\ Background' = Background
    BY DEF ShutdownStep, Accept, Finish, BackgroundStep, RoundStarts, RoundEnds, Signal, Drained,
       DrainTimesOut, StopBackground, CloseStep, ShutdownComplete, MainReturns, shutdownVars,
       Steps, Background
<1> USE DEF ShutdownInv, ShutdownTyped, DrainOrder, StopOrder, Active
<1>2. ASSUME NEW q \in Requests, Accept(q) \/ Finish(q) PROVE ShutdownInv'
    BY <1>0, <1>1, <1>2 DEF Accept, Finish
<1>3. CASE BackgroundStep
    BY <1>0, <1>1, <1>3 DEF BackgroundStep, RoundStarts, RoundEnds
<1>4. CASE Signal \/ Drained \/ DrainTimesOut \/ ShutdownComplete \/ MainReturns
    <2>1. CASE Signal
        BY <1>0, <1>1, <2>1 DEF Signal
    <2>2. CASE Drained
        BY <1>0, <1>1, <2>2 DEF Drained
    <2>3. CASE DrainTimesOut
        BY <1>0, <1>1, <2>3 DEF DrainTimesOut
    <2>4. CASE ShutdownComplete
        BY <1>0, <1>1, <2>4 DEF ShutdownComplete
    <2>5. CASE MainReturns
        BY <1>0, <1>1, <2>5 DEF MainReturns
    <2> QED BY <1>4, <2>1, <2>2, <2>3, <2>4, <2>5
<1>5. CASE StopBackground
    BY <1>0, <1>1, <1>5 DEF StopBackground
<1>6. CASE CloseStep
    <2>1. /\ NextStep \in Range(Steps)
          /\ mode = "stile" /\ NextStep # "health" => "health" \in closed
        BY <1>0, <1>6, NextStepInOrder DEF CloseStep
    <2>2. mode # "stile" => "router" \notin Range(Steps)
        BY <1>0, StepsOfMode
    <2>3. /\ drained /\ closed' = closed \union {NextStep}
          /\ NextStep \in Background => NextStep \in stopped \ busy
          /\ UNCHANGED <<mode, signalled, serving, req, drained, timedOut, busy, stopped, exited>>
        BY <1>6 DEF CloseStep
    <2> QED BY <1>0, <1>1, <2>1, <2>2, <2>3
<1>7. CASE UNCHANGED shutdownVars
    BY <1>0, <1>1, <1>7 DEF shutdownVars
<1> QED BY <1>2, <1>3, <1>4, <1>5, <1>6, <1>7 DEF ShutdownStep

\* What a handler does to the state of the shutdown is to return.
LEMMA NextIsShutdownStep ==
    ASSUME [Next]_vars
    PROVE  ShutdownStep
<1>1. ASSUME NEW q \in Requests, Handle(q) PROVE Finish(q) \/ UNCHANGED shutdownVars
    BY <1>1 DEF Handle, Authenticate, Unauthorized, Parse, Notification, Dispatch, ListTools,
       FilterTools, WriteResponses, RefuseRoute, Route, RefuseCall, Refuse, Send, Returned, Record,
       WriteResponse, Forwarded, Answer
<1> QED BY <1>1 DEF Next, ShutdownStep, Disconnect, Change, vars

\* The order of a shutdown holds at the start,
LEMMA InitShutdownInv == Init => ShutdownInv
BY DEF Init, InitShutdown, ShutdownInv, ShutdownTyped, DrainOrder, StopOrder, Active

\* and always.
LEMMA ShutdownInductive == Spec => []ShutdownInv
BY InitShutdownInv, ShutdownInvStep, NextIsShutdownStep, PTL DEF Spec

\* No request in flight finds its services closed: after the signal nothing is closed
\* until every request has been answered, unless shutdown_timeout is over.
THEOREM ClosedAfterDrain == Spec => []DrainBeforeClose
<1>1. ShutdownInv => DrainBeforeClose
    BY DEF ShutdownInv, DrainOrder, DrainBeforeClose
<1> QED BY <1>1, ShutdownInductive, PTL

\* When the router has closed the transports, the health checker and the refresh
\* have been stopped and waited for, and neither can start again.
THEOREM BackgroundIsStopped == Spec => []BackgroundStopsFirst
<1>1. ShutdownInv => BackgroundStopsFirst
    <2> SUFFICES ASSUME ShutdownInv, "router" \in closed
                 PROVE  busy = {} /\ Background \subseteq closed
        BY DEF BackgroundStopsFirst
    <2>1. Background = {"health", "router"}
        BY StepsOfMode DEF ShutdownInv, ShutdownTyped
    <2> QED BY <2>1 DEF ShutdownInv, ShutdownTyped, StopOrder
<1> QED BY <1>1, ShutdownInductive, PTL

-----------------------------------------------------------------------------
(* Handlers.                                                               *)

Locations == {"auth", "parse", "dispatch", "filter", "limit", "sent", "record", "write", "end"}
Outcomes == {"result", "error", "relayed", "stream", "invalid", "denied", "unknown", "limited",
             "unconnected", "expired"}
IDs == STRING \union {NullID, "other"}
ResponseType == [id : IDs, outcome : Outcomes, tools : SUBSET Tools, epoch : Nat]

HandlerTyped ==
    /\ scenario \in Scenarios
    /\ authenticated \in BOOLEAN
    /\ pc \in [Requests -> Locations]
    /\ may \in [Requests -> SUBSET Tools]
    /\ todo \in [Requests -> Seq(Message)]
    /\ seen \in [Requests -> SUBSET Tools]
    /\ responses \in [Requests -> Seq(ResponseType)]
    /\ table \in SUBSET Tools
    /\ grants \in [Callers -> SUBSET Tools]
    /\ changes \in Nat
    /\ since \in [Requests -> Nat]
    /\ auditLog \in [Requests -> {"none", "row", "failed"}]

IsToolsCall(q) == ~body[q].isBatch /\ body[q].msgs[1].method = "tools/call"

\* Where the handler of q can be with its message, when the body is a single one.
Located(q) ==
    /\ req[q] = "done" <=> pc[q] = "end"
    /\ pc[q] \in {"auth", "parse"} => responses[q] = <<>>
    /\ pc[q] = "auth" => mode = "stile"
    /\ pc[q] \in {"filter", "limit", "sent"} => todo[q] # <<>>
    /\ mode = "stile" /\ pc[q] \in {"limit", "sent", "record", "write"} => IsToolsCall(q)
    /\ mode = "wrap" => pc[q] \in {"parse", "dispatch", "sent", "end"}
    /\ pc[q] = "filter" => ~IsToolsCall(q)
    /\ ~body[q].isBatch =>
        /\ pc[q] \in {"filter", "limit", "sent"} => todo[q] = body[q].msgs /\ responses[q] = <<>>
        /\ pc[q] = "dispatch" =>
              \/ todo[q] = body[q].msgs /\ responses[q] = <<>>
              \/ todo[q] = <<>> /\ (mode = "stile" /\ IsToolsCall(q) => responses[q] = <<>>)

\* The insert of a call is tried before it is answered.
Recorded(q) ==
    mode = "stile" /\ IsToolsCall(q)
    /\ body[q].msgs[1].params \in Tools /\ pc[q] \in {"write", "end"} /\ responses[q] # <<>>
        => auditLog[q] # "none"

\* What a request knows of roles and table is true as long as nothing has changed since
\* it was authenticated.
Fresh(q) ==
    /\ since[q] <= changes
    /\ since[q] = changes /\ mode = "stile" /\ pc[q] \notin {"auth", "end"} =>
        /\ may[q] = IF authenticated THEN grants[CallerOf[q]] ELSE Tools
        /\ pc[q] = "filter" => seen[q] = table

\* What response r says of the tools, the j-th to request q, is true as long as nothing
\* has changed since the request was authenticated.
Says(q, j, r) ==
    r.epoch = since[q] /\ since[q] = changes =>
        LET t == body[q].msgs[j].params IN
        /\ \A l \in r.tools :
            /\ l \in Tools /\ l \in table
            /\ authenticated => l \in grants[CallerOf[q]]
            /\ l \in needsToken => CallerOf[q] \in tokens
        /\ r.outcome = "denied" => t \in Tools /\ authenticated /\ t \notin grants[CallerOf[q]]
        /\ r.outcome = "unknown" => t \notin table
        /\ r.outcome = "unconnected" /\ ~timedOut => t \in needsToken /\ CallerOf[q] \notin tokens

Truthful == \A q \in Requests : \A j \in DOMAIN responses[q] : Says(q, j, responses[q][j])

IInv ==
    /\ ShutdownInv /\ HandlerTyped
    /\ \A q \in Requests : Located(q) /\ Recorded(q) /\ Fresh(q)
    /\ Truthful /\ ListedIsCallable

-----------------------------------------------------------------------------
\* What the assumption on scenarios says of the body of a request.
LEMMA BodyFacts ==
    ASSUME scenario \in Scenarios, NEW q \in Requests
    PROVE  /\ body[q].isBatch \in BOOLEAN
           /\ body[q].msgs \in Seq(Message)
           /\ ~body[q].isBatch => /\ body[q].msgs # <<>> /\ Tail(body[q].msgs) = <<>>
                                  /\ Head(body[q].msgs) = body[q].msgs[1]
                                  /\ body[q].msgs[1] \in Message
<1>1. body[q].isBatch \in BOOLEAN /\ body[q].msgs \in Seq(Message)
    BY ServerAssumption DEF body
<1>2. ASSUME ~body[q].isBatch PROVE Len(body[q].msgs) = 1
    BY <1>2, ServerAssumption DEF body
<1>3. ASSUME NEW m \in Seq(Message), Len(m) = 1
      PROVE  m # <<>> /\ Tail(m) = <<>> /\ Head(m) = m[1] /\ m[1] \in Message
    <2>1. m # <<>>
        BY <1>3
    <2>2. Tail(m) \in Seq(Message) /\ Len(Tail(m)) = 0
        BY <1>3, <2>1, HeadTailProperties
    <2>3. Tail(m) = <<>>
        BY <2>2, EmptySeq
    <2>4. Head(m) = m[1] /\ m[1] \in Message
        BY <1>3
    <2> QED BY <2>1, <2>3, <2>4
<1> QED BY <1>1, <1>2, <1>3

\* The message a handler is at, and what is left after it.
LEMMA CurrentMessage ==
    ASSUME HandlerTyped, NEW q \in Requests, todo[q] # <<>>
    PROVE  Current(q) \in Message /\ Tail(todo[q]) \in Seq(Message)
BY HeadTailProperties DEF HandlerTyped, Current

\* A handler touches only what belongs to its request.
LEMMA HandleFrame ==
    ASSUME HandlerTyped, ShutdownTyped, NEW q \in Requests, Handle(q)
    PROVE  /\ UNCHANGED <<mode, timedOut, closed, configVars, worldVars, gone>>
           /\ \A p \in Requests \ {q} :
                /\ pc'[p] = pc[p] /\ may'[p] = may[p] /\ todo'[p] = todo[p] /\ seen'[p] = seen[p]
                /\ responses'[p] = responses[p] /\ since'[p] = since[p] /\ req'[p] = req[p]
                /\ auditLog'[p] = auditLog[p]
           /\ auditLog[q] # "none" => auditLog'[q] # "none"
<1> USE DEF HandlerTyped, ShutdownTyped, shutdownVars, Goto, Respond, Handled, Answer, Finish, Refuse
<1>1. CASE Authenticate(q) \/ Unauthorized(q) \/ Parse(q)
    BY <1>1 DEF Authenticate, Unauthorized, Parse
<1>2. CASE Notification(q) \/ Dispatch(q) \/ ListTools(q) \/ FilterTools(q) \/ WriteResponses(q)
    BY <1>2 DEF Notification, Dispatch, ListTools, FilterTools, WriteResponses
<1>3. CASE RefuseRoute(q) \/ Route(q) \/ RefuseCall(q) \/ Send(q) \/ Returned(q)
    BY <1>3 DEF RefuseRoute, Route, RefuseCall, Send, Returned
<1>4. CASE Record(q) \/ WriteResponse(q) \/ Forwarded(q)
    BY <1>4 DEF Record, WriteResponse, Forwarded
<1> QED BY <1>1, <1>2, <1>3, <1>4 DEF Handle

\* The response r is added to those of q, and what it says is true.
Adds(q, r) ==
    /\ r \in ResponseType /\ r.epoch = changes
    /\ responses' = [responses EXCEPT ![q] = Append(@, r)]
    /\ Says(q, Len(responses[q]) + 1, r)

\* A response has its type, and says when it was made.
LEMMA ResponseTyped ==
    ASSUME HandlerTyped, NEW id \in IDs, NEW outcome \in Outcomes, NEW tools \in SUBSET Tools
    PROVE  /\ Response(id, outcome, tools) \in ResponseType
           /\ Response(id, outcome, tools).epoch = changes
           /\ Response(id, outcome, tools).outcome = outcome
           /\ Response(id, outcome, tools).tools = tools
BY DEF HandlerTyped, Response, ResponseType

\* What RoundTrip returns suits the message it was sent.
LEMMA ResultFacts ==
    ASSUME HandlerTyped, NEW q \in Requests, todo[q] # <<>>, NEW r \in Results(q)
    PROVE  /\ \E id \in IDs : \E outcome \in {"error", "relayed", "stream"} :
                r = Response(id, outcome, {})
           /\ r \in ResponseType /\ Suits(r, Current(q))
<1>1. Current(q).id \in IDs
    BY CurrentMessage DEF Message, IDs
<1>2. /\ \A id \in ReplyIDs(q) : id \in IDs
      /\ scenario.echoes => \A id \in ReplyIDs(q) : id = Current(q).id
    BY <1>1 DEF ReplyIDs, IDs
<1>3. PICK id \in IDs, outcome \in {"error", "relayed", "stream"} :
        /\ r = Response(id, outcome, {})
        /\ outcome = "error" \/ scenario.echoes => id = Current(q).id
    BY <1>1, <1>2 DEF Results
<1>4. r \in ResponseType
    BY <1>3, ResponseTyped DEF Outcomes
<1>5. Suits(r, Current(q))
    BY <1>3 DEF Suits, Response
<1> QED BY <1>3, <1>4, <1>5

\* Responses that say nothing about tools.
LEMMA NeutralReply ==
    ASSUME HandlerTyped, NEW q \in Requests, NEW id \in IDs, NEW outcome \in Outcomes,
           outcome \notin {"denied", "unknown", "unconnected"},
           Respond(q, Response(id, outcome, {}))
    PROVE  \E r : Adds(q, r)
<1> DEFINE r == Response(id, outcome, {})
<1>1. r \in ResponseType /\ r.epoch = changes /\ r.outcome = outcome /\ r.tools = {}
    BY ResponseTyped
<1>2. Says(q, Len(responses[q]) + 1, r)
    BY <1>1 DEF Says
<1> QED BY <1>1, <1>2 DEF Adds, Respond

\* A list has what the table, the roles and the connections allow.
LEMMA ListReply ==
    ASSUME HandlerTyped, ShutdownInv, NEW q \in Requests, Located(q), Fresh(q), FilterTools(q)
    PROVE  \E r : Adds(q, r)
<1>0. PICK tools : tools = {t \in seen[q] : t \in may[q] /\ IsConnected(q, t)}
    OBVIOUS
<1> DEFINE r == Response(Current(q).id, "result", tools)
<1>1. At(q, "filter") /\ Respond(q, r)
    BY <1>0 DEF FilterTools, Handled
<1>2. Current(q).id \in IDs /\ tools \in SUBSET Tools
    BY <1>0, <1>1, CurrentMessage DEF At, Located, HandlerTyped, Message, IDs
<1>3. r \in ResponseType /\ r.epoch = changes /\ r.outcome = "result" /\ r.tools = tools
    BY <1>2 DEF HandlerTyped, Response, ResponseType, Outcomes
<1>4. mode = "stile"
    BY <1>1 DEF At, Located, ShutdownInv, ShutdownTyped
<1>5. Says(q, Len(responses[q]) + 1, r)
    <2> SUFFICES ASSUME since[q] = changes, NEW t \in tools
                 PROVE  /\ t \in Tools /\ t \in table
                        /\ authenticated => t \in grants[CallerOf[q]]
                        /\ t \in needsToken => CallerOf[q] \in tokens
        BY <1>3 DEF Says
    <2>1. seen[q] = table /\ may[q] = IF authenticated THEN grants[CallerOf[q]] ELSE Tools
        BY <1>1, <1>4 DEF Fresh, At
    <2> QED BY <1>0, <2>1 DEF HandlerTyped, IsConnected
<1> QED BY <1>1, <1>3, <1>5 DEF Adds, Respond

\* A call is the only message of its body.
LEMMA CallFacts ==
    ASSUME HandlerTyped, ShutdownInv, NEW q \in Requests, Located(q),
           Calling(q) \/ At(q, "limit")
    PROVE  /\ Current(q) = body[q].msgs[1] /\ Current(q).id \in IDs
           /\ todo[q] = body[q].msgs /\ responses[q] = <<>> /\ ~body[q].isBatch
           /\ Current(q).method = "tools/call" /\ IsToolsCall(q)
<1>0. mode = "stile" /\ (pc[q] = "limit" => IsToolsCall(q))
    BY DEF Calling, At, Located, ShutdownInv, ShutdownTyped
<1>1. ~body[q].isBatch
    BY <1>0 DEF Calling, IsCall, At, IsToolsCall
<1>2. todo[q] = body[q].msgs /\ responses[q] = <<>>
    BY <1>1 DEF Calling, Dispatching, At, Located
<1>3. Current(q) = body[q].msgs[1] /\ body[q].msgs[1] \in Message
    BY <1>1, <1>2, BodyFacts DEF Current, HandlerTyped
<1>4. body[q].msgs[1].method = "tools/call"
    BY <1>0, <1>3 DEF Calling, IsCall, At, IsToolsCall
<1> QED BY <1>1, <1>2, <1>3, <1>4 DEF Message, IDs, IsToolsCall

\* A refusal says which of the three is missing.
LEMMA RefusalReply ==
    ASSUME HandlerTyped, ShutdownInv, NEW q \in Requests, Located(q), Fresh(q),
           RefuseRoute(q) \/ RefuseCall(q)
    PROVE  \E r : Adds(q, r)
<1>1. Calling(q) \/ At(q, "limit")
    BY DEF RefuseRoute, RefuseCall
<1>2. /\ Current(q) = body[q].msgs[1] /\ Current(q).id \in IDs
      /\ responses[q] = <<>> /\ Len(responses[q]) + 1 = 1
    BY <1>1, CallFacts
<1>3. mode = "stile" /\ pc[q] \notin {"auth", "end"}
    BY <1>1 DEF Calling, Dispatching, At, Located, ShutdownInv, ShutdownTyped
<1>4. ~timedOut => closed = {}
    BY <1>1 DEF Calling, Dispatching, At, ShutdownInv, DrainOrder, Active
<1> DEFINE t == Current(q).params
<1>5. PICK why \in Outcomes :
        /\ Respond(q, Response(Current(q).id, why, {}))
        /\ why = "denied" => t \in Tools /\ t \notin may[q]
        /\ why = "unknown" => t \notin table
        /\ why = "unconnected" => ~IsConnected(q, t)
    <2>1. CASE RefuseRoute(q)
        <3>1. CASE t \notin Tools
            BY <2>1, <3>1 DEF RefuseRoute, Refuse, Outcomes
        <3>2. CASE t \in Tools /\ t \notin may[q]
            BY <2>1, <3>2 DEF RefuseRoute, Refuse, Outcomes
        <3>3. CASE t \in Tools /\ t \in may[q]
            BY <2>1, <3>3 DEF RefuseRoute, Refuse, Outcomes
        <3> QED BY <3>1, <3>2, <3>3
    <2>2. CASE RefuseCall(q)
        BY <2>2 DEF RefuseCall, Refuse, Outcomes
    <2> QED BY <2>1, <2>2
<1> DEFINE r == Response(Current(q).id, why, {})
<1>6. r \in ResponseType /\ r.epoch = changes /\ r.outcome = why /\ r.tools = {}
    BY <1>2, ResponseTyped
<1>7. Says(q, 1, r)
    <2> SUFFICES ASSUME since[q] = changes
                 PROVE  /\ why = "denied" => t \in Tools /\ authenticated /\ t \notin grants[CallerOf[q]]
                        /\ why = "unknown" => t \notin table
                        /\ why = "unconnected" /\ ~timedOut =>
                              t \in needsToken /\ CallerOf[q] \notin tokens
        BY <1>2, <1>6 DEF Says
    <2>1. may[q] = IF authenticated THEN grants[CallerOf[q]] ELSE Tools
        BY <1>3 DEF Fresh
    <2> QED BY <1>4, <1>5, <2>1 DEF IsConnected, HandlerTyped
<1> QED BY <1>2, <1>5, <1>6, <1>7 DEF Adds, Respond

\* Every handler adds at most one response, which is true.
LEMMA HandleReplies ==
    ASSUME HandlerTyped, ShutdownInv, NEW q \in Requests, Located(q), Fresh(q), Handle(q)
    PROVE  UNCHANGED responses \/ \E r : Adds(q, r)
<1>0. todo[q] # <<>> => Current(q).id \in IDs
    BY CurrentMessage DEF Message, IDs
<1>1. CASE FilterTools(q)
    BY <1>1, ListReply
<1>2. CASE RefuseRoute(q) \/ RefuseCall(q)
    BY <1>2, RefusalReply
<1>3. CASE Dispatch(q)
    <2>1. PICK outcome \in {"result", "error"} : Respond(q, Response(Current(q).id, outcome, {}))
        BY <1>3 DEF Dispatch, Handled
    <2> QED BY <1>0, <1>3, <2>1, NeutralReply DEF Outcomes, Dispatch, Dispatching
<1>4. CASE Returned(q)
    <2>1. PICK r \in Results(q) : Respond(q, r)
        BY <1>4 DEF Returned
    <2>2. PICK id \in IDs, outcome \in {"error", "relayed", "stream"} :
            r = Response(id, outcome, {})
        BY <1>4, ResultFacts DEF Returned, At, Located
    <2> QED BY <2>1, <2>2, NeutralReply DEF Outcomes
<1>5. CASE Forwarded(q) /\ ~UNCHANGED responses
    <2>1. PICK r \in Results(q) : Respond(q, r)
        BY <1>5 DEF Forwarded, Handled
    <2>2. PICK id \in IDs, outcome \in {"error", "relayed", "stream"} :
            r = Response(id, outcome, {})
        BY <1>5, ResultFacts DEF Forwarded, At, Located
    <2> QED BY <2>1, <2>2, NeutralReply DEF Outcomes
<1>6. CASE \/ Authenticate(q) \/ Unauthorized(q) \/ Parse(q) \/ Notification(q) \/ ListTools(q)
           \/ WriteResponses(q) \/ Route(q) \/ Send(q) \/ Record(q) \/ WriteResponse(q)
    BY <1>6 DEF Authenticate, Unauthorized, Parse, Notification, ListTools, WriteResponses,
       Route, Send, Record, WriteResponse
<1> QED BY <1>1, <1>2, <1>3, <1>4, <1>5, <1>6 DEF Handle

-----------------------------------------------------------------------------
\* A step of a handler keeps the types.
LEMMA HandleTyped ==
    ASSUME HandlerTyped, ShutdownInv, NEW q \in Requests, Located(q), Fresh(q), Handle(q)
    PROVE  HandlerTyped'
<1>1. UNCHANGED <<mode, timedOut, closed, configVars, worldVars, gone>>
    BY HandleFrame DEF ShutdownInv
<1>2. responses' \in [Requests -> Seq(ResponseType)]
    <2>1. CASE UNCHANGED responses
        BY <2>1 DEF HandlerTyped
    <2>2. ASSUME NEW r, Adds(q, r) PROVE responses' \in [Requests -> Seq(ResponseType)]
        <3>1. Append(responses[q], r) \in Seq(ResponseType)
            BY <2>2 DEF HandlerTyped, Adds
        <3> QED BY <2>2, <3>1 DEF HandlerTyped, Adds
    <2> QED BY <2>1, <2>2, HandleReplies
<1>3. pc' \in [Requests -> Locations]
    BY DEF HandlerTyped, Locations, Handle, Authenticate, Unauthorized, Parse, Notification, Dispatch,
       ListTools, FilterTools, WriteResponses, RefuseRoute, Route, RefuseCall, Refuse, Send, Returned,
       Record, WriteResponse, Forwarded, Answer, Goto
<1>4. todo' \in [Requests -> Seq(Message)]
    <2>1. body[q].msgs \in Seq(Message)
        BY BodyFacts DEF HandlerTyped
    <2>2. todo[q] # <<>> => Tail(todo[q]) \in Seq(Message)
        BY CurrentMessage
    <2>3. \/ UNCHANGED todo
          \/ todo' = [todo EXCEPT ![q] = body[q].msgs]
          \/ todo[q] # <<>> /\ todo' = [todo EXCEPT ![q] = Tail(@)]
        BY DEF Located, Handle, Authenticate, Unauthorized, Parse, Notification, Dispatch,
           ListTools, FilterTools, WriteResponses, RefuseRoute, Route, RefuseCall, Refuse, Send,
           Returned, Record, WriteResponse, Forwarded, Handled, Dispatching, At
    <2> QED BY <2>1, <2>2, <2>3 DEF HandlerTyped
<1>5. /\ may' \in [Requests -> SUBSET Tools] /\ seen' \in [Requests -> SUBSET Tools]
      /\ since' \in [Requests -> Nat] /\ auditLog' \in [Requests -> {"none", "row", "failed"}]
    <2>1. CASE Authenticate(q)
        <3>1. CallerOf[q] \in Callers
            BY ServerAssumption
        <3>2. (IF authenticated THEN grants[CallerOf[q]] ELSE Tools) \in SUBSET Tools
            BY <3>1 DEF HandlerTyped
        <3> QED BY <2>1, <3>2 DEF Authenticate, HandlerTyped
    <2>2. CASE ListTools(q) \/ FilterTools(q)
        BY <2>2 DEF ListTools, FilterTools, HandlerTyped
    <2>3. CASE ~Authenticate(q) /\ ~ListTools(q) /\ ~FilterTools(q)
        BY <2>3 DEF HandlerTyped, Handle, Unauthorized, Parse, Notification, Dispatch, WriteResponses,
           RefuseRoute, Route, RefuseCall, Refuse, Send, Returned, Record, WriteResponse, Forwarded
    <2> QED BY <2>1, <2>2, <2>3
<1> QED BY <1>1, <1>2, <1>3, <1>4, <1>5 DEF HandlerTyped, configVars, worldVars

\* A step of a handler keeps the handler where it can be.
LEMMA HandleLocated ==
    ASSUME HandlerTyped, ShutdownInv, NEW q \in Requests, Located(q), Handle(q)
    PROVE  Located(q)'
<1>0. body[q].isBatch \in BOOLEAN /\ mode \in {"stile", "wrap"}
    BY BodyFacts DEF HandlerTyped, ShutdownInv, ShutdownTyped
<1>1. UNCHANGED <<mode, scenario>> /\ body' = body /\ (IsToolsCall(q)' <=> IsToolsCall(q))
    BY HandleFrame DEF ShutdownInv, configVars, body, IsToolsCall
<1>2. /\ pc \in [Requests -> Locations] /\ todo \in [Requests -> Seq(Message)]
      /\ responses \in [Requests -> Seq(ResponseType)]
      /\ req \in [Requests -> {"new", "active", "done"}]
    BY DEF HandlerTyped, ShutdownInv, ShutdownTyped
<1>3. ~body[q].isBatch => /\ body[q].msgs # <<>> /\ Tail(body[q].msgs) = <<>>
                          /\ Head(body[q].msgs) = body[q].msgs[1]
    BY BodyFacts DEF HandlerTyped
<1> USE <1>0, <1>1, <1>2 DEF Located, Goto, At, Dispatching
<1>6. CASE Authenticate(q)
    BY <1>6 DEF Authenticate, shutdownVars
<1>7. CASE Unauthorized(q)
    BY <1>7 DEF Unauthorized, Answer, Finish
<1>8. CASE Parse(q)
    BY <1>8 DEF Parse, Answer, Finish, shutdownVars
<1>9. CASE Notification(q)
    BY <1>3, <1>9 DEF Notification, shutdownVars
<1>10. CASE Dispatch(q)
    <2>1. ~body[q].isBatch => ~IsToolsCall(q)
        BY <1>3, <1>10 DEF Dispatch, IsCall, Current, IsToolsCall
    <2> QED BY <1>3, <1>10, <2>1 DEF Dispatch, Handled, Respond, shutdownVars
<1>11. CASE ListTools(q)
    <2>1. ~body[q].isBatch => ~IsToolsCall(q)
        BY <1>3, <1>11 DEF ListTools, WantsList, Current, IsToolsCall
    <2> QED BY <1>3, <1>11, <2>1 DEF ListTools, IsToolsCall, shutdownVars
<1>12. CASE FilterTools(q)
    BY <1>3, <1>12 DEF FilterTools, Handled, Respond, shutdownVars
<1>13. CASE WriteResponses(q)
    BY <1>13 DEF WriteResponses, Answer, Finish
<1>14. CASE RefuseRoute(q)
    <2>1. IsToolsCall(q)
        BY <1>14, CallFacts DEF RefuseRoute
    <2> QED BY <1>14, <2>1 DEF RefuseRoute, Calling, Refuse, Respond, shutdownVars
<1>15. CASE Route(q)
    <2>1. IsToolsCall(q) /\ todo[q] = body[q].msgs /\ responses[q] = <<>>
        BY <1>15, CallFacts DEF Route
    <2> QED BY <1>15, <2>1 DEF Route, Calling, shutdownVars
<1>16. CASE RefuseCall(q)
    BY <1>16 DEF RefuseCall, Refuse, Respond, shutdownVars
<1>17. CASE Send(q)
    BY <1>3, <1>17 DEF Send, shutdownVars
<1>18. CASE Returned(q)
    BY <1>18 DEF Returned, Respond, shutdownVars
<1>19. CASE Record(q)
    BY <1>19 DEF Record, shutdownVars
<1>20. CASE WriteResponse(q)
    BY <1>20 DEF WriteResponse, Answer, Finish
<1>21. CASE Forwarded(q)
    BY <1>3, <1>21 DEF Forwarded, Handled, Respond, shutdownVars
<1> QED BY <1>6, <1>7, <1>8, <1>9, <1>10, <1>11, <1>12, <1>13, <1>14, <1>15, <1>16, <1>17,
           <1>18, <1>19, <1>20, <1>21 DEF Handle

\* A call is written only after it was recorded, or when it has no parameters.
LEMMA HandleRecorded ==
    ASSUME HandlerTyped, ShutdownInv, NEW q \in Requests, Located(q), Recorded(q), Handle(q)
    PROVE  Recorded(q)'
<1>0. /\ UNCHANGED <<mode, timedOut, gone, scenario>> /\ body' = body
      /\ (IsToolsCall(q)' <=> IsToolsCall(q))
      /\ auditLog[q] # "none" => auditLog'[q] # "none"
    BY HandleFrame DEF ShutdownInv, configVars, body, IsToolsCall
<1> SUFFICES ASSUME mode = "stile", IsToolsCall(q),
                    body[q].msgs[1].params \in Tools, pc'[q] \in {"write", "end"},
                    responses'[q] # <<>>
             PROVE  auditLog'[q] # "none"
    BY <1>0 DEF Recorded
<1>1. ~body[q].isBatch /\ body[q].msgs # <<>>
    BY BodyFacts DEF IsToolsCall, HandlerTyped
<1>2. ~(pc[q] \in {"auth", "parse"} /\ UNCHANGED responses)
    BY DEF Located
<1>3. CASE Record(q)
    BY <1>3 DEF Record, HandlerTyped
<1>4. CASE WriteResponse(q)
    BY <1>0, <1>4 DEF WriteResponse, At, Recorded
<1>5. CASE WriteResponses(q)
    BY <1>1, <1>5 DEF WriteResponses, At, Located
<1>6. CASE RefuseRoute(q)
    <2>1. Current(q).params \in Tools
        BY <1>6, CallFacts DEF RefuseRoute
    <2> QED BY <1>6, <2>1 DEF RefuseRoute, Refuse, Goto, HandlerTyped
<1>7. CASE ~Record(q) /\ ~WriteResponse(q) /\ ~WriteResponses(q) /\ ~RefuseRoute(q)
    BY <1>2, <1>7 DEF HandlerTyped, Handle, Authenticate, Unauthorized, Parse, Notification, Dispatch,
       ListTools, FilterTools, Route, RefuseCall, Refuse, Send, Returned, Forwarded, Answer, Goto,
       Dispatching, At
<1> QED BY <1>3, <1>4, <1>5, <1>6, <1>7

\* While a request is on its way, what it has checked is current unless something changed.
LEMMA HandleFresh ==
    ASSUME HandlerTyped, ShutdownInv, NEW q \in Requests, Fresh(q), Handle(q)
    PROVE  Fresh(q)'
<1>0. UNCHANGED <<mode, configVars, worldVars>>
    BY HandleFrame DEF ShutdownInv
<1> USE <1>0 DEF Fresh, HandlerTyped, configVars, worldVars
<1>1. CASE Authenticate(q)
    BY <1>1 DEF Authenticate, Goto
<1>2. CASE ListTools(q)
    BY <1>2 DEF ListTools, Goto, Dispatching, At
<1>3. CASE ~Authenticate(q) /\ ~ListTools(q)
    <2>1. /\ UNCHANGED <<since, may>>
          /\ pc'[q] # "end" => pc[q] \notin {"auth", "end"}
          /\ pc'[q] # "filter"
        BY <1>3 DEF Handle, Unauthorized, Parse, Notification, Dispatch, FilterTools,
           WriteResponses, RefuseRoute, Route, RefuseCall, Refuse, Send, Returned, Record,
           WriteResponse, Forwarded, Answer, Goto, Calling, Dispatching, At
    <2> QED BY <2>1
<1> QED BY <1>1, <1>2, <1>3

\* Two true responses do not contradict each other.
LEMMA NoContradiction ==
    ASSUME NEW p \in Requests, NEW q \in Requests, NEW i, NEW j, NEW l, NEW r,
           Says(p, i, l), Says(q, j, r), CallerOf[p] = CallerOf[q], ~timedOut,
           since[p] = changes, since[q] = changes, l.epoch = changes, r.epoch = changes,
           r.outcome \in {"denied", "unknown", "unconnected"}
    PROVE  body[q].msgs[j].params \notin l.tools
BY DEF Says

\* A step of a handler keeps lists and calls in agreement.
LEMMA HandleTruth ==
    ASSUME HandlerTyped, ShutdownInv, Truthful, ListedIsCallable,
           NEW q \in Requests, Located(q), Fresh(q), Handle(q)
    PROVE  Truthful' /\ ListedIsCallable'
<1>0. /\ UNCHANGED <<timedOut, authenticated, needsToken, scenario, table, grants, tokens, changes>>
      /\ body' = body
    BY HandleFrame DEF ShutdownInv, configVars, worldVars, body
<1>1. CASE Authenticate(q)
    <2>1. responses'[q] = <<>> /\ UNCHANGED responses
        BY <1>1 DEF Authenticate, At, Located
    <2>2. \A p \in Requests \ {q} : since'[p] = since[p]
        BY <1>1 DEF Authenticate, HandlerTyped
    <2>3. Truthful'
        BY <1>0, <2>1, <2>2 DEF Truthful, Says
    <2>4. ListedIsCallable'
        BY <1>0, <2>1, <2>2 DEF ListedIsCallable
    <2> QED BY <2>3, <2>4
<1>2. CASE ~Authenticate(q)
    <2>1. UNCHANGED since
        BY <1>2 DEF Handle, Unauthorized, Parse, Notification, Dispatch, ListTools, FilterTools,
           WriteResponses, RefuseRoute, Route, RefuseCall, Refuse, Send, Returned, Record,
           WriteResponse, Forwarded
    <2>2. \A p, j, r : Says(p, j, r)' <=> Says(p, j, r)
        BY <1>0, <2>1 DEF Says
    <2>3. CASE UNCHANGED responses
        BY <1>0, <2>1, <2>2, <2>3 DEF Truthful, ListedIsCallable
    <2>4. ASSUME NEW n, Adds(q, n) PROVE Truthful' /\ ListedIsCallable'
        <3> DEFINE New(p, j) == p = q /\ j = Len(responses[q]) + 1
        <3>1. \A p \in Requests : \A j \in DOMAIN responses'[p] :
                  \/ New(p, j) /\ responses'[p][j] = n
                  \/ j \in DOMAIN responses[p] /\ responses'[p][j] = responses[p][j]
            <4>1. /\ responses[q] \in Seq(ResponseType) /\ n \in ResponseType
                  /\ responses'[q] = Append(responses[q], n)
                  /\ \A p \in Requests \ {q} : responses'[p] = responses[p]
                BY <2>4 DEF Adds, HandlerTyped
            <4>2. /\ DOMAIN responses'[q] = 1 .. Len(responses[q]) + 1
                  /\ DOMAIN responses[q] = 1 .. Len(responses[q])
                  /\ Len(responses[q]) \in Nat
                BY <4>1
            <4>3. /\ \A j \in 1 .. Len(responses[q]) : responses'[q][j] = responses[q][j]
                  /\ responses'[q][Len(responses[q]) + 1] = n
                BY <4>1, AppendProperties
            <4> QED BY <4>1, <4>2, <4>3
        <3>2. \A p \in Requests : \A j \in DOMAIN responses'[p] : Says(p, j, responses'[p][j])
            BY <2>4, <3>1 DEF Truthful, Adds
        <3>3. Truthful'
            BY <2>2, <3>2 DEF Truthful
        <3>4. ASSUME NEW p1 \in Requests, NEW q1 \in Requests, CallerOf[p1] = CallerOf[q1],
                     ~timedOut, since[p1] = since[q1],
                     NEW i \in DOMAIN responses'[p1], NEW j \in DOMAIN responses'[q1],
                     responses'[q1][j].outcome \in {"denied", "unknown", "unconnected"},
                     responses'[p1][i].epoch = since[p1], responses'[q1][j].epoch = since[p1]
              PROVE  body[q1].msgs[j].params \notin responses'[p1][i].tools
            <4>1. CASE responses'[p1][i] = n \/ responses'[q1][j] = n
                <5>1. since[p1] = changes
                    BY <2>4, <3>4, <4>1 DEF Adds
                <5> QED BY <3>2, <3>4, <5>1, NoContradiction
            <4>2. CASE /\ i \in DOMAIN responses[p1] /\ responses'[p1][i] = responses[p1][i]
                       /\ j \in DOMAIN responses[q1] /\ responses'[q1][j] = responses[q1][j]
                BY <3>4, <4>2 DEF ListedIsCallable
            <4>3. \/ New(p1, i) /\ responses'[p1][i] = n
                  \/ i \in DOMAIN responses[p1] /\ responses'[p1][i] = responses[p1][i]
                BY <3>1
            <4>4. \/ New(q1, j) /\ responses'[q1][j] = n
                  \/ j \in DOMAIN responses[q1] /\ responses'[q1][j] = responses[q1][j]
                BY <3>1
            <4> QED BY <4>1, <4>2, <4>3, <4>4
        <3>5. ListedIsCallable'
            BY <1>0, <2>1, <3>4 DEF ListedIsCallable
        <3> QED BY <3>3, <3>5
    <2> QED BY <2>3, <2>4, HandleReplies
<1> QED BY <1>1, <1>2

-----------------------------------------------------------------------------
\* Steps that only change the state of the shutdown, accept a request or disconnect a client.
LEMMA QuietStep ==
    ASSUME IInv, UNCHANGED <<mode, configVars, handlerVars, worldVars>>,
           gone \subseteq gone', timedOut' \/ timedOut' = timedOut,
           \A q \in Requests : req'[q] = "done" <=> req[q] = "done"
    PROVE  /\ HandlerTyped' /\ Truthful' /\ ListedIsCallable'
           /\ \A q \in Requests : Located(q)' /\ Recorded(q)' /\ Fresh(q)'
<1> USE DEF configVars, handlerVars, worldVars, IInv
<1>0. body' = body /\ \A q \in Requests : IsToolsCall(q)' <=> IsToolsCall(q)
    BY DEF body, IsToolsCall
<1>1. HandlerTyped'
    BY DEF HandlerTyped
<1>2. Truthful'
    BY <1>0 DEF Truthful, Says
<1>3. ListedIsCallable'
    BY <1>0 DEF ListedIsCallable
<1>4. ASSUME NEW q \in Requests PROVE Located(q)' /\ Recorded(q)' /\ Fresh(q)'
    <2>1. Located(q)'
        BY <1>0 DEF Located
    <2>2. Recorded(q)'
        BY <1>0 DEF Recorded
    <2>3. Fresh(q)'
        BY DEF Fresh
    <2> QED BY <2>1, <2>2, <2>3
<1> QED BY <1>1, <1>2, <1>3, <1>4

\* A change of table, roles or connections makes what was true before say nothing.
LEMMA ChangeStep ==
    ASSUME IInv, Change
    PROVE  /\ HandlerTyped' /\ Truthful' /\ ListedIsCallable'
           /\ \A q \in Requests : Located(q)' /\ Recorded(q)' /\ Fresh(q)'
<1> USE DEF IInv
<1>0. /\ UNCHANGED <<shutdownVars, configVars, gone, handlerVars>> /\ changes' = changes + 1
      /\ body' = body /\ \A q \in Requests : IsToolsCall(q)' <=> IsToolsCall(q)
    BY DEF Change, configVars, body, IsToolsCall
<1>1. HandlerTyped'
    BY <1>0 DEF Change, HandlerTyped, configVars, handlerVars
<1>2. \A q \in Requests : since'[q] = since[q] /\ since'[q] # changes' /\ since'[q] <= changes'
    BY <1>0 DEF HandlerTyped, Fresh, handlerVars
<1>3. Truthful'
    BY <1>2 DEF Truthful, Says
<1>4. ListedIsCallable'
    BY <1>0 DEF ListedIsCallable, handlerVars, shutdownVars
<1>5. ASSUME NEW q \in Requests PROVE Located(q)' /\ Recorded(q)' /\ Fresh(q)'
    <2>1. Located(q)'
        BY <1>0 DEF Located, handlerVars, shutdownVars
    <2>2. Recorded(q)'
        BY <1>0 DEF Recorded, handlerVars, shutdownVars
    <2>3. Fresh(q)'
        BY <1>2 DEF Fresh
    <2> QED BY <2>1, <2>2, <2>3
<1> QED BY <1>1, <1>3, <1>4, <1>5

\* The invariant holds at the start,
LEMMA InitIInv == Init => IInv
<1> SUFFICES ASSUME Init PROVE IInv
    OBVIOUS
<1>1. ShutdownInv
    BY InitShutdownInv
<1>2. mode \in {"stile", "wrap"} /\ \A q \in Requests : req[q] = "new"
    BY DEF Init, InitShutdown
<1>3. HandlerTyped
    <2>1. scenario \in Scenarios /\ scenario.tools \subseteq SUBSET Tools
        BY ServerAssumption DEF Init
    <2>2. table \in SUBSET Tools /\ grants \in [Callers -> SUBSET Tools]
        BY <1>2, <2>1 DEF Init
    <2>3. authenticated \in BOOLEAN
        BY DEF Init
    <2> QED BY <1>2, <2>1, <2>2, <2>3, EmptySeq DEF Init, HandlerTyped, Locations
<1>4. ASSUME NEW q \in Requests PROVE Located(q) /\ Recorded(q) /\ Fresh(q)
    BY <1>2 DEF Init, Located, Recorded, Fresh
<1>5. \A q \in Requests : responses[q] = <<>>
    BY DEF Init
<1>6. Truthful /\ ListedIsCallable
    BY <1>5 DEF Truthful, ListedIsCallable
<1> QED BY <1>1, <1>3, <1>4, <1>6 DEF IInv

\* every step keeps it,
LEMMA NextIInv == IInv /\ [Next]_vars => IInv'
<1> SUFFICES ASSUME IInv, [Next]_vars PROVE IInv'
    OBVIOUS
<1>0. ShutdownInv'
    BY ShutdownInvStep, NextIsShutdownStep DEF IInv
<1>1. ASSUME NEW q \in Requests, Handle(q) PROVE IInv'
    <2> USE DEF IInv
    <2>1. HandlerTyped' /\ Truthful' /\ ListedIsCallable'
        BY <1>1, HandleTyped, HandleTruth
    <2>2. Located(q)' /\ Recorded(q)' /\ Fresh(q)'
        BY <1>1, HandleLocated, HandleRecorded, HandleFresh
    <2>3. ASSUME NEW p \in Requests \ {q} PROVE Located(p)' /\ Recorded(p)' /\ Fresh(p)'
        <3>1. /\ UNCHANGED <<mode, timedOut, gone, configVars, worldVars>>
              /\ pc'[p] = pc[p] /\ may'[p] = may[p] /\ todo'[p] = todo[p] /\ seen'[p] = seen[p]
              /\ responses'[p] = responses[p] /\ since'[p] = since[p] /\ req'[p] = req[p]
              /\ auditLog'[p] = auditLog[p]
            BY <1>1, HandleFrame DEF ShutdownInv
        <3>2. body' = body /\ (IsToolsCall(p)' <=> IsToolsCall(p))
            BY <3>1 DEF body, IsToolsCall, configVars
        <3>3. Located(p)'
            BY <3>1, <3>2 DEF Located
        <3>4. Recorded(p)'
            BY <3>1, <3>2 DEF Recorded
        <3>5. Fresh(p)'
            BY <3>1 DEF Fresh, configVars, worldVars
        <3> QED BY <3>3, <3>4, <3>5
    <2> QED BY <1>0, <2>1, <2>2, <2>3
<1>2. CASE Change
    BY <1>0, <1>2, ChangeStep DEF IInv
<1>3. CASE ~Change /\ ~\E q \in Requests : Handle(q)
    <2>1. /\ UNCHANGED <<mode, configVars, handlerVars, worldVars>> /\ gone \subseteq gone'
          /\ timedOut' \/ timedOut' = timedOut
        BY <1>3 DEF Next, Accept, Disconnect, BackgroundStep, RoundStarts, RoundEnds, Signal, Drained,
           DrainTimesOut, StopBackground, CloseStep, ShutdownComplete, MainReturns, vars, serverVars,
           shutdownVars
    <2>2. \A q \in Requests : req'[q] = "done" <=> req[q] = "done"
        BY <1>3 DEF IInv, ShutdownInv, ShutdownTyped, Next, Accept, Disconnect, BackgroundStep,
           RoundStarts, RoundEnds, Signal, Drained, DrainTimesOut, StopBackground, CloseStep,
           ShutdownComplete, MainReturns, vars, shutdownVars
    <2> QED BY <1>0, <2>1, <2>2, QuietStep DEF IInv
<1> QED BY <1>1, <1>2, <1>3

\* and so it always holds.
LEMMA Inductive == Spec => []IInv
BY InitIInv, NextIInv, PTL DEF Spec

\* No tools/call is answered before its row of the audit log was inserted or its insert
\* failed, the refused and the failed calls included.
THEOREM EveryCallIsAudited == Spec => []CallsAreAudited
<1>1. IInv => CallsAreAudited
    BY DEF IInv, Located, Recorded, IsToolsCall, CallsAreAudited
<1> QED BY <1>1, Inductive, PTL

\* tools/list and tools/call agree, whatever runs between them: a tool that was listed is
\* not refused to the same caller for its role, the table or its connection, unless one
\* of these changed in between or shutdown_timeout was over.
THEOREM ListsMatchCalls == Spec => []ListedIsCallable
<1>1. IInv => ListedIsCallable
    BY DEF IInv
<1> QED BY <1>1, Inductive, PTL

-----------------------------------------------------------------------------
(* Responses answer requests.                                              *)

\* How many messages of its body a handler is done with.
DoneWith(q) == Len(body[q].msgs) - Len(todo[q])

\* A handler has the rest of its messages before it, and has answered the others; a call
\* is answered while its message is still there.
Answering(q) ==
    LET ms == body[q].msgs IN
    /\ pc[q] \in {"dispatch", "filter", "limit", "sent"} =>
        /\ DoneWith(q) \in 0 .. Len(ms)
        /\ \A i \in 1 .. Len(todo[q]) : todo[q][i] = ms[DoneWith(q) + i]
        /\ AnswerFirst(responses[q], ms, DoneWith(q))
    /\ pc[q] \in {"filter", "limit"} \/ (mode = "stile" /\ pc[q] = "sent") =>
        ~IsNotification(Current(q))
    /\ pc[q] \in {"record", "write"} =>
        ~IsNotification(ms[1]) /\ responses[q] # <<>> /\ Suits(responses[q][1], ms[1])

\* AnswersMatch for one request.
Answers(q) ==
    LET ms == body[q].msgs
        rs == reply[q]
    IN  IF rs # Nothing /\ rs[1].outcome \in {"unauthorized", "parseError"}
        THEN Len(rs) = 1 /\ rs[1].id = NullID
        ELSE AnswerFirst(rs, ms, Len(ms))

AnswerInv ==
    /\ reply = [q \in Requests |-> reply[q]]
    /\ \A q \in Requests : Answering(q) /\ (pc[q] = "end" /\ q \notin gone => Answers(q))

\* One message more.
LEMMA AskingNext ==
    ASSUME NEW ms, NEW n \in Nat
    PROVE  /\ IsFiniteSet(Asking(ms, n)) /\ Cardinality(Asking(ms, n)) \in Nat
           /\ IsNotification(ms[n + 1]) => Asking(ms, n + 1) = Asking(ms, n)
           /\ ~IsNotification(ms[n + 1]) =>
                /\ Asking(ms, n + 1) = Asking(ms, n) \union {n + 1}
                /\ Cardinality(Asking(ms, n + 1)) = Cardinality(Asking(ms, n)) + 1
<1>1. IsFiniteSet(1 .. n) /\ Asking(ms, n) \subseteq 1 .. n
    BY FS_Interval DEF Asking
<1>2. IsFiniteSet(Asking(ms, n)) /\ Cardinality(Asking(ms, n)) \in Nat
    BY <1>1, FS_Subset, FS_CardinalityType
<1>3. \A i : i \in 1 .. n + 1 <=> i \in 1 .. n \/ i = n + 1
    OBVIOUS
<1>4. IsNotification(ms[n + 1]) => Asking(ms, n + 1) = Asking(ms, n)
    BY <1>3 DEF Asking
<1>5. ~IsNotification(ms[n + 1]) => Asking(ms, n + 1) = Asking(ms, n) \union {n + 1}
    BY <1>3 DEF Asking
<1>6. n + 1 \notin Asking(ms, n)
    BY <1>1
<1>7. Cardinality(Asking(ms, n) \union {n + 1}) = Cardinality(Asking(ms, n)) + 1
    BY <1>2, <1>6, FS_AddElement
<1> QED BY <1>2, <1>4, <1>5, <1>7

\* A place among the messages that ask is a place among their responses.
LEMMA AskingPlace ==
    ASSUME NEW ms, NEW n \in Nat, NEW i \in Asking(ms, n)
    PROVE  Cardinality(Asking(ms, i)) \in 1 .. Cardinality(Asking(ms, n))
<1>1. i \in Nat /\ i \in 1 .. n /\ i \in Asking(ms, i)
    BY DEF Asking
<1>2. Asking(ms, i) \subseteq Asking(ms, n)
    BY <1>1 DEF Asking
<1>3. IsFiniteSet(Asking(ms, n)) /\ IsFiniteSet(Asking(ms, i))
    BY <1>1, AskingNext
<1>4. /\ Cardinality(Asking(ms, i)) <= Cardinality(Asking(ms, n))
      /\ Cardinality(Asking(ms, i)) \in Nat /\ Cardinality(Asking(ms, n)) \in Nat
    BY <1>2, <1>3, FS_Subset, FS_CardinalityType
<1>5. Cardinality(Asking(ms, i)) # 0
    BY <1>1, <1>3, FS_EmptySet
<1> QED BY <1>4, <1>5

\* No response answers no message.
LEMMA NothingAsked ==
    ASSUME NEW ms
    PROVE  AnswerFirst(<<>>, ms, 0)
<1>1. Asking(ms, 0) = {}
    BY DEF Asking
<1>2. Cardinality(Asking(ms, 0)) = 0
    BY <1>1, FS_EmptySet
<1> QED BY <1>1, <1>2 DEF AnswerFirst

\* A notification is answered by nothing, another message by one response.
LEMMA AnswerNext ==
    ASSUME NEW S, NEW rs \in Seq(S), NEW ms, NEW n \in Nat, AnswerFirst(rs, ms, n)
    PROVE  /\ IsNotification(ms[n + 1]) => AnswerFirst(rs, ms, n + 1)
           /\ ~IsNotification(ms[n + 1]) =>
                \A r \in S : Suits(r, ms[n + 1]) => AnswerFirst(Append(rs, r), ms, n + 1)
<1>1. IsNotification(ms[n + 1]) => AnswerFirst(rs, ms, n + 1)
    BY AskingNext DEF AnswerFirst
<1>2. ASSUME ~IsNotification(ms[n + 1]), NEW r \in S, Suits(r, ms[n + 1])
      PROVE  AnswerFirst(Append(rs, r), ms, n + 1)
    <2>1. /\ Asking(ms, n + 1) = Asking(ms, n) \union {n + 1}
          /\ Cardinality(Asking(ms, n + 1)) = Cardinality(Asking(ms, n)) + 1
          /\ Len(rs) = Cardinality(Asking(ms, n))
        BY <1>2, AskingNext DEF AnswerFirst
    <2>2. /\ Len(Append(rs, r)) = Len(rs) + 1 /\ Append(rs, r)[Len(rs) + 1] = r
          /\ \A k \in 1 .. Len(rs) : Append(rs, r)[k] = rs[k]
        BY AppendProperties
    <2>3. ASSUME NEW i \in Asking(ms, n + 1)
          PROVE  Suits(Append(rs, r)[Cardinality(Asking(ms, i))], ms[i])
        <3>1. CASE i = n + 1
            BY <1>2, <2>1, <2>2, <3>1
        <3>2. CASE i \in Asking(ms, n)
            <4>1. Cardinality(Asking(ms, i)) \in 1 .. Len(rs)
                BY <2>1, <3>2, AskingPlace
            <4> QED BY <2>2, <3>2, <4>1 DEF AnswerFirst
        <3> QED BY <2>1, <2>3, <3>1, <3>2
    <2> QED BY <2>1, <2>2, <2>3 DEF AnswerFirst
<1> QED BY <1>1, <1>2

\* The message a handler is at is the next one of its body.
LEMMA TodoNext ==
    ASSUME HandlerTyped, NEW q \in Requests, Answering(q), todo[q] # <<>>,
           pc[q] \in {"dispatch", "filter", "limit", "sent"}
    PROVE  /\ DoneWith(q) \in Nat /\ Current(q) = body[q].msgs[DoneWith(q) + 1]
           /\ \A s : s = Tail(todo[q]) =>
                /\ Len(body[q].msgs) - Len(s) = DoneWith(q) + 1
                /\ DoneWith(q) + 1 \in 0 .. Len(body[q].msgs)
                /\ \A i \in 1 .. Len(s) : s[i] = body[q].msgs[DoneWith(q) + 1 + i]
<1>1. todo[q] \in Seq(Message) /\ body[q].msgs \in Seq(Message)
    BY BodyFacts DEF HandlerTyped
<1>2. /\ DoneWith(q) \in 0 .. Len(body[q].msgs)
      /\ \A i \in 1 .. Len(todo[q]) : todo[q][i] = body[q].msgs[DoneWith(q) + i]
    BY DEF Answering
<1>3. /\ Len(todo[q]) \in Nat /\ Len(todo[q]) >= 1 /\ Len(body[q].msgs) \in Nat
      /\ Head(todo[q]) = todo[q][1]
    BY <1>1
<1>4. /\ Len(Tail(todo[q])) = Len(todo[q]) - 1
      /\ \A i \in 1 .. Len(todo[q]) - 1 : Tail(todo[q])[i] = todo[q][i + 1]
    BY <1>1, HeadTailProperties
<1>5. DoneWith(q) = Len(body[q].msgs) - Len(todo[q])
    BY DEF DoneWith
<1>6. Current(q) = body[q].msgs[DoneWith(q) + 1]
    BY <1>2, <1>3 DEF Current
<1>7. ASSUME NEW i \in 1 .. Len(Tail(todo[q]))
      PROVE  Tail(todo[q])[i] = body[q].msgs[DoneWith(q) + 1 + i]
    <2>1. i \in 1 .. Len(todo[q]) - 1 /\ i + 1 \in 1 .. Len(todo[q])
          /\ DoneWith(q) + (i + 1) = DoneWith(q) + 1 + i
        BY <1>2, <1>3, <1>4
    <2> QED BY <1>2, <1>4, <2>1
<1>8. /\ Len(body[q].msgs) - Len(Tail(todo[q])) = DoneWith(q) + 1
      /\ DoneWith(q) + 1 \in 0 .. Len(body[q].msgs)
    <2>1. PICK a \in Nat, b \in Nat : a = Len(body[q].msgs) /\ b = Len(todo[q])
        BY <1>3
    <2>2. b >= 1 /\ DoneWith(q) = a - b /\ Len(Tail(todo[q])) = b - 1 /\ DoneWith(q) \in 0 .. a
        BY <1>2, <1>3, <1>4, <1>5, <2>1
    <2>3. a - Len(Tail(todo[q])) = DoneWith(q) + 1 /\ DoneWith(q) + 1 \in 0 .. a
        <3>1. PICK c, d : c = Len(Tail(todo[q])) /\ d = DoneWith(q)
            OBVIOUS
        <3>2. c = b - 1 /\ d = a - b /\ b >= 1 /\ d \in 0 .. a
            BY <2>2, <3>1
        <3>3. a - c = d + 1 /\ d + 1 \in 0 .. a
            BY <3>2
        <3> QED BY <3>1, <3>3
    <2> QED BY <2>1, <2>3
<1>9. ASSUME NEW s, s = Tail(todo[q])
      PROVE  /\ Len(body[q].msgs) - Len(s) = DoneWith(q) + 1
             /\ DoneWith(q) + 1 \in 0 .. Len(body[q].msgs)
             /\ \A i \in 1 .. Len(s) : s[i] = body[q].msgs[DoneWith(q) + 1 + i]
    BY <1>7, <1>8, <1>9
<1>10. DoneWith(q) \in Nat
    BY <1>2, <1>3
<1> QED BY <1>6, <1>9, <1>10

\* The handler of a body that was refused.
LEMMA RefusedAnswers ==
    ASSUME AnswerInv, NEW q \in Requests, NEW why \in {"unauthorized", "parseError"},
           q \notin gone, Answer(q, <<Response(NullID, why, {})>>)
    PROVE  Answers(q)'
<1> DEFINE r == Response(NullID, why, {})
<1>1. r.id = NullID /\ r.outcome = why
    BY DEF Response
<1> HIDE DEF r
<1>2. reply'[q] = <<r>>
    BY DEF Answer, AnswerInv, r
<1>3. <<r>> # <<>> /\ <<r>>[1] = r /\ Len(<<r>>) = 1
    OBVIOUS
<1> QED BY <1>1, <1>2, <1>3 DEF Answers, Nothing

\* Whether responses answer messages depends on the scenario only.
LEMMA AnswersKept ==
    ASSUME scenario' = scenario
    PROVE  /\ \A r, m : Suits(r, m)' <=> Suits(r, m)
           /\ \A rs, ms, n : AnswerFirst(rs, ms, n)' <=> AnswerFirst(rs, ms, n)
BY DEF AnswerFirst, Suits

\* The handler of a body that was not refused.
LEMMA GivenAnswers ==
    ASSUME NEW q \in Requests, NEW rs, reply'[q] = rs, scenario' = scenario, body' = body,
           rs # <<>> => rs[1].outcome \notin {"unauthorized", "parseError"},
           AnswerFirst(rs, body[q].msgs, Len(body[q].msgs))
    PROVE  Answers(q)'
<1>1. ~(rs # Nothing /\ rs[1].outcome \in {"unauthorized", "parseError"})
    BY DEF Nothing
<1>2. AnswerFirst(rs, body[q].msgs, Len(body[q].msgs))'
    BY AnswersKept
<1> QED BY <1>1, <1>2 DEF Answers

\* A step that finishes a message, with a response unless it is a notification.
LEMMA MessageDone ==
    ASSUME HandlerTyped, HandlerTyped', NEW q \in Requests, Answering(q), scenario' = scenario, body' = body, todo[q] # <<>>,
           pc[q] \in {"dispatch", "filter", "sent"}, pc'[q] = "dispatch",
           todo'[q] = Tail(todo[q]),
           \/ IsNotification(Current(q)) /\ responses'[q] = responses[q]
           \/ /\ ~IsNotification(Current(q))
              /\ \E r \in ResponseType : Suits(r, Current(q)) /\ responses'[q] = Append(responses[q], r)
    PROVE  Answering(q)'
<1> DEFINE ms == body[q].msgs
           n == DoneWith(q)
<1>1. /\ n \in Nat /\ Current(q) = ms[n + 1]
      /\ DoneWith(q)' = n + 1 /\ n + 1 \in 0 .. Len(ms)
      /\ \A i \in 1 .. Len(todo'[q]) : todo'[q][i] = ms[n + 1 + i]
    BY TodoNext DEF DoneWith
<1>2. AnswerFirst(responses[q], ms, n) /\ responses[q] \in Seq(ResponseType)
    BY DEF Answering, HandlerTyped
<1> HIDE DEF ms, n
<1>3. AnswerFirst(responses'[q], ms, n + 1)
    <2>1. CASE IsNotification(Current(q)) /\ responses'[q] = responses[q]
        BY <1>1, <1>2, <2>1, AnswerNext
    <2>2. CASE /\ ~IsNotification(Current(q))
               /\ \E r \in ResponseType : Suits(r, Current(q)) /\ responses'[q] = Append(responses[q], r)
        BY <1>1, <1>2, <2>2, AnswerNext
    <2> QED BY <2>1, <2>2
<1>4. ms = body'[q].msgs
    BY DEF ms
<1> QED BY <1>1, <1>3, <1>4, AnswersKept DEF Answering

\* A response made by the server carries the id of the message it answers.
LEMMA ResponseId ==
    ASSUME HandlerTyped, NEW q \in Requests, todo[q] # <<>>, NEW outcome \in Outcomes,
           NEW tools \in SUBSET Tools, Respond(q, Response(Current(q).id, outcome, tools))
    PROVE  \E r \in ResponseType : /\ Suits(r, Current(q))
                                   /\ responses'[q] = Append(responses[q], r)
<1>1. Current(q).id \in IDs
    BY CurrentMessage DEF Message, IDs
<1> DEFINE r == Response(Current(q).id, outcome, tools)
<1>2. r \in ResponseType /\ Suits(r, Current(q))
    BY <1>1, ResponseTyped DEF Response, Suits
<1>3. responses'[q] = Append(responses[q], r)
    BY DEF Respond, HandlerTyped
<1> QED BY <1>2, <1>3

\* The steps that finish a message.
LEMMA MessageSteps ==
    ASSUME HandlerTyped, HandlerTyped', NEW q \in Requests, Located(q), Answering(q), scenario' = scenario, body' = body,
           Notification(q) \/ Dispatch(q) \/ FilterTools(q) \/ Forwarded(q)
    PROVE  Answering(q)' /\ pc'[q] = "dispatch"
<1>1. /\ todo[q] # <<>> /\ pc[q] \in {"dispatch", "filter", "sent"} /\ pc'[q] = "dispatch"
      /\ todo'[q] = Tail(todo[q])
    BY DEF Notification, Dispatch, FilterTools, Forwarded, Dispatching, At, Handled, Goto, Located,
       HandlerTyped
<1> DEFINE Told == \/ IsNotification(Current(q)) /\ responses'[q] = responses[q]
                   \/ /\ ~IsNotification(Current(q))
                      /\ \E r \in ResponseType : /\ Suits(r, Current(q))
                                                 /\ responses'[q] = Append(responses[q], r)
<1>2. Told
    <2>1. CASE Notification(q)
        BY <2>1 DEF Notification
    <2>2. CASE Dispatch(q)
        <3>1. PICK outcome \in Outcomes : Respond(q, Response(Current(q).id, outcome, {}))
            BY <2>2 DEF Dispatch, Handled, Outcomes
        <3>2. \E r \in ResponseType : Suits(r, Current(q)) /\ responses'[q] = Append(responses[q], r)
            <4>1. {} \in SUBSET Tools
                OBVIOUS
            <4> QED BY <1>1, <3>1, <4>1, ResponseId
        <3> QED BY <2>2, <3>2 DEF Dispatch
    <2>3. CASE FilterTools(q)
        <3>1. PICK tools \in SUBSET Tools : Respond(q, Response(Current(q).id, "result", tools))
            BY <2>3 DEF FilterTools, Handled, HandlerTyped
        <3>2. ~IsNotification(Current(q))
            BY <2>3 DEF FilterTools, At, Answering
        <3>3. \E r \in ResponseType : Suits(r, Current(q)) /\ responses'[q] = Append(responses[q], r)
            BY <1>1, <3>1, ResponseId DEF Outcomes
        <3> QED BY <3>2, <3>3
    <2>4. CASE Forwarded(q) /\ IsNotification(Current(q))
        BY <2>4 DEF Forwarded
    <2>5. CASE Forwarded(q) /\ ~IsNotification(Current(q))
        <3>1. PICK r \in Results(q) : responses'[q] = Append(responses[q], r)
            BY <2>5 DEF Forwarded, Handled, Respond, HandlerTyped
        <3>2. \E m \in ResponseType : Suits(m, Current(q)) /\ responses'[q] = Append(responses[q], m)
            BY <1>1, <3>1, ResultFacts
        <3> QED BY <2>5, <3>2
    <2> QED BY <2>1, <2>2, <2>3, <2>4, <2>5
<1>3. Answering(q)'
    BY <1>1, <1>2, MessageDone
<1> QED BY <1>1, <1>3

\* The steps that answer a call.
LEMMA CallSteps ==
    ASSUME HandlerTyped, ShutdownInv, NEW q \in Requests, Located(q), Answering(q),
           scenario' = scenario, body' = body, RefuseRoute(q) \/ RefuseCall(q) \/ Returned(q)
    PROVE  Answering(q)' /\ pc'[q] \in {"record", "write"}
<1>1. pc'[q] \in {"record", "write"} /\ todo' = todo
    BY DEF Returned, RefuseRoute, RefuseCall, Refuse, Goto, HandlerTyped
<1>2. /\ ~body[q].isBatch /\ todo[q] = body[q].msgs /\ responses[q] = <<>>
      /\ ~IsNotification(Current(q))
    <2>1. CASE Returned(q)
        BY <2>1 DEF Returned, At, Located, IsToolsCall, Answering
    <2>2. CASE RefuseRoute(q)
        BY <2>2, CallFacts DEF RefuseRoute, Calling
    <2>3. CASE RefuseCall(q)
        BY <2>3, CallFacts DEF RefuseCall, At, Answering
    <2> QED BY <2>1, <2>2, <2>3
<1>3. todo[q] # <<>> /\ Current(q) = body[q].msgs[1]
    BY <1>2, BodyFacts DEF HandlerTyped, Current
<1>4. PICK r \in ResponseType : Suits(r, Current(q)) /\ responses'[q] = Append(responses[q], r)
    <2>1. CASE Returned(q)
        <3>1. PICK m \in Results(q) : responses'[q] = Append(responses[q], m)
            BY <2>1 DEF Returned, Respond, HandlerTyped
        <3> QED BY <1>3, <3>1, ResultFacts
    <2>2. CASE RefuseRoute(q) \/ RefuseCall(q)
        <3>1. PICK outcome \in Outcomes : Respond(q, Response(Current(q).id, outcome, {}))
            BY <2>2 DEF RefuseRoute, RefuseCall, Refuse, Outcomes
        <3>2. {} \in SUBSET Tools
            OBVIOUS
        <3> QED BY <1>3, <3>1, <3>2, ResponseId
    <2> QED BY <2>1, <2>2
<1>5. responses'[q] # <<>> /\ responses'[q][1] = r
    <2>1. <<>> \in Seq(ResponseType) /\ Len(<<>>) = 0
        OBVIOUS
    <2> QED BY <1>2, <1>4, <2>1, AppendProperties
<1>6. ~IsNotification(body[q].msgs[1]) /\ Suits(responses'[q][1], body[q].msgs[1])
    BY <1>2, <1>3, <1>4, <1>5
<1> QED BY <1>1, <1>5, <1>6, AnswersKept DEF Answering

\* The steps that look at a message, and those before the first one.
LEMMA WaySteps ==
    ASSUME HandlerTyped, ShutdownInv, NEW q \in Requests, Located(q), Answering(q), scenario' = scenario, body' = body,
           mode' = mode,
           \/ Authenticate(q) \/ ListTools(q) \/ Route(q) \/ Send(q) \/ Record(q)
           \/ (Parse(q) /\ Accepted(body[q]))
    PROVE  Answering(q)' /\ pc'[q] # "end"
<1>1. CASE Authenticate(q)
    BY <1>1 DEF Authenticate, Goto, Answering, HandlerTyped
<1>2. CASE Parse(q) /\ Accepted(body[q])
    <2>1. /\ pc'[q] = "dispatch" /\ todo'[q] = body[q].msgs /\ responses'[q] = <<>>
        BY <1>2 DEF Parse, Goto, HandlerTyped, At, Located
    <2>2. body[q].msgs \in Seq(Message)
        BY BodyFacts DEF HandlerTyped
    <2>3. Len(body[q].msgs) \in Nat /\ DoneWith(q)' = 0
        BY <2>1, <2>2 DEF DoneWith
    <2>4. \A i \in 1 .. Len(body[q].msgs) : 0 + i = i
        BY <2>3
    <2> QED BY <2>1, <2>3, <2>4, NothingAsked, AnswersKept DEF Answering
<1>3. CASE ListTools(q) \/ Route(q) \/ Send(q)
    <2>1. /\ pc[q] \in {"dispatch", "limit"} /\ pc'[q] \in {"filter", "limit", "sent"}
          /\ todo' = todo /\ responses' = responses
          /\ pc'[q] \in {"filter", "limit"} \/ mode = "stile" => ~IsNotification(Current(q))
        BY <1>3 DEF ListTools, Route, Send, Calling, Dispatching, At, Goto, HandlerTyped, Answering
    <2>2. DoneWith(q)' = DoneWith(q) /\ Current(q)' = Current(q)
        BY <2>1 DEF DoneWith, Current
    <2> QED BY <2>1, <2>2, AnswersKept DEF Answering
<1>4. CASE Record(q)
    <2>1. pc[q] = "record" /\ pc'[q] = "write" /\ responses' = responses
        BY <1>4 DEF Record, At, Goto, HandlerTyped
    <2> QED BY <2>1, AnswersKept DEF Answering
<1> QED BY <1>1, <1>2, <1>3, <1>4

\* The steps that write the answer.
LEMMA EndSteps ==
    ASSUME HandlerTyped, ShutdownInv, AnswerInv, NEW q \in Requests, Located(q), scenario' = scenario, body' = body,
           q \notin gone,
           \/ Unauthorized(q) \/ (Parse(q) /\ ~Accepted(body[q]))
           \/ WriteResponses(q) \/ WriteResponse(q)
    PROVE  Answers(q)'
<1>0. Answering(q)
    BY DEF AnswerInv
<1>1. CASE Unauthorized(q) \/ (Parse(q) /\ ~Accepted(body[q]))
    BY <1>1, RefusedAnswers DEF Unauthorized, Parse
<1>2. CASE WriteResponses(q)
    <2>1. reply'[q] = responses[q] /\ pc[q] = "dispatch" /\ todo[q] = <<>>
        BY <1>2 DEF WriteResponses, Answer, At, AnswerInv
    <2>2. body[q].msgs \in Seq(Message)
        BY BodyFacts DEF HandlerTyped
    <2>3. DoneWith(q) = Len(body[q].msgs)
        BY <2>1, <2>2 DEF DoneWith
    <2>4. responses[q] # <<>> => responses[q][1].outcome \in Outcomes
        <3>1. responses[q] \in Seq(ResponseType)
            BY DEF HandlerTyped
        <3>2. responses[q] # <<>> => responses[q][1] \in ResponseType
            BY <3>1
        <3> QED BY <3>2 DEF ResponseType
    <2> QED BY <1>0, <2>1, <2>3, <2>4, GivenAnswers DEF Answering, Outcomes
<1>3. CASE WriteResponse(q)
    <2>1. /\ pc[q] = "write" /\ ~IsNotification(body[q].msgs[1])
          /\ responses[q] # <<>> /\ Suits(responses[q][1], body[q].msgs[1])
        BY <1>0, <1>3 DEF WriteResponse, At, Answering
    <2>2. responses[q][1] \in ResponseType
        BY <2>1 DEF HandlerTyped
    <2>3. PICK r : /\ \/ r = responses[q][1]
                      \/ /\ responses[q][1].outcome = "stream"
                         /\ r = [responses[q][1] EXCEPT !.outcome = "cut"]
                   /\ reply'[q] = <<r>>
        BY <1>3 DEF WriteResponse, Answer, AnswerInv
    <2>4. Suits(r, body[q].msgs[1]) /\ r.outcome \in Outcomes \union {"cut"}
        BY <2>1, <2>2, <2>3 DEF ResponseType, Suits
    <2>5. ~body[q].isBatch
        BY <2>1 DEF Located, IsToolsCall, ShutdownInv, ShutdownTyped
    <2>6. Len(body[q].msgs) = 1
        BY <2>5, ServerAssumption DEF HandlerTyped, body
    <2>7. AnswerFirst(<<r>>, body[q].msgs, 1)
        <3>1. <<>> \in Seq({r}) /\ Append(<<>>, r) = <<r>>
            OBVIOUS
        <3>2. AnswerFirst(Append(<<>>, r), body[q].msgs, 0 + 1)
            <4>1. 0 + 1 = 1 /\ r \in {r} /\ AnswerFirst(<<>>, body[q].msgs, 0)
                BY NothingAsked
            <4> QED BY <2>1, <2>4, <3>1, <4>1, AnswerNext
        <3> QED BY <3>1, <3>2
    <2>8. <<r>>[1] = r
        OBVIOUS
    <2> QED BY <2>3, <2>4, <2>6, <2>7, <2>8, GivenAnswers DEF Outcomes
<1> QED BY <1>1, <1>2, <1>3

\* Every step keeps the answers, which rests on where a handler can be.
LEMMA NextAnswerInv == IInv /\ IInv' /\ AnswerInv /\ [Next]_vars => AnswerInv'
<1> SUFFICES ASSUME IInv, IInv', AnswerInv, [Next]_vars PROVE AnswerInv'
    OBVIOUS
<1> USE DEF IInv
<1>1. ASSUME NEW q \in Requests, Handle(q) PROVE AnswerInv'
    <2>1. /\ UNCHANGED <<mode, gone, scenario>> /\ body' = body
          /\ \A p \in Requests \ {q} :
                pc'[p] = pc[p] /\ todo'[p] = todo[p] /\ responses'[p] = responses[p]
        BY <1>1, HandleFrame DEF ShutdownInv, configVars, body
    <2>2. reply' = reply \/ \E x : reply' = [reply EXCEPT ![q] = x]
        BY <1>1 DEF Handle, Authenticate, Unauthorized, Parse, Notification, Dispatch, ListTools,
           FilterTools, WriteResponses, RefuseRoute, Route, RefuseCall, Refuse, Send, Returned,
           Record, WriteResponse, Forwarded, Answer
    <2>3. /\ reply' = [p \in Requests |-> reply'[p]]
          /\ \A p \in Requests \ {q} : reply'[p] = reply[p]
        BY <2>2 DEF AnswerInv
    <2>4. ASSUME NEW p \in Requests \ {q}
          PROVE  Answering(p)' /\ (pc'[p] = "end" /\ p \notin gone' => Answers(p)')
        <3>1. /\ pc'[p] = pc[p] /\ todo'[p] = todo[p] /\ responses'[p] = responses[p]
              /\ reply'[p] = reply[p] /\ body' = body /\ mode' = mode /\ gone' = gone
            BY <2>1, <2>3
        <3>2. DoneWith(p)' = DoneWith(p) /\ Current(p)' = Current(p)
            BY <3>1 DEF DoneWith, Current
        <3>3. Answering(p)' <=> Answering(p)
            BY <2>1, <3>1, <3>2, AnswersKept DEF Answering
        <3>4. Answers(p)' <=> Answers(p)
            BY <2>1, <3>1, AnswersKept DEF Answers
        <3> QED BY <3>1, <3>3, <3>4 DEF AnswerInv
    <2>5. Answering(q)' /\ (pc'[q] = "end" /\ q \notin gone' => Answers(q)')
        <3>0. Answering(q)
            BY DEF AnswerInv
        <3>1. CASE Notification(q) \/ Dispatch(q) \/ FilterTools(q) \/ Forwarded(q)
            BY <2>1, <3>0, <3>1, MessageSteps
        <3>2. CASE RefuseRoute(q) \/ RefuseCall(q) \/ Returned(q)
            BY <2>1, <3>0, <3>2, CallSteps
        <3>3. CASE \/ Authenticate(q) \/ ListTools(q) \/ Route(q) \/ Send(q) \/ Record(q)
                   \/ (Parse(q) /\ Accepted(body[q]))
            BY <2>1, <3>0, <3>3, WaySteps
        <3>4. CASE \/ Unauthorized(q) \/ (Parse(q) /\ ~Accepted(body[q]))
                   \/ WriteResponses(q) \/ WriteResponse(q)
            <4>1. pc'[q] = "end"
                BY <3>4 DEF Unauthorized, Parse, WriteResponses, WriteResponse, Answer, Goto, HandlerTyped
            <4>2. Answering(q)'
                BY <4>1 DEF Answering
            <4> QED BY <2>1, <3>4, <4>2, EndSteps
        <3>5. \/ Notification(q) \/ Dispatch(q) \/ FilterTools(q) \/ Forwarded(q)
              \/ RefuseRoute(q) \/ RefuseCall(q) \/ Returned(q)
              \/ Authenticate(q) \/ ListTools(q) \/ Route(q) \/ Send(q) \/ Record(q) \/ Parse(q)
              \/ Unauthorized(q) \/ WriteResponses(q) \/ WriteResponse(q)
            BY <1>1 DEF Handle
        <3> HIDE DEF IInv
        <3> QED BY <3>1, <3>2, <3>3, <3>4, <3>5
    <2> QED BY <2>3, <2>4, <2>5 DEF AnswerInv
<1>2. CASE ~\E q \in Requests : Handle(q)
    <2>1. UNCHANGED <<mode, configVars, handlerVars>> /\ gone \subseteq gone'
        BY <1>2 DEF Next, Accept, Disconnect, Change, BackgroundStep, RoundStarts, RoundEnds, Signal,
           Drained, DrainTimesOut, StopBackground, CloseStep, ShutdownComplete, MainReturns, vars,
           serverVars, shutdownVars
    <2>2. body' = body /\ UNCHANGED <<mode, pc, todo, responses, reply>>
        BY <2>1 DEF body, configVars, handlerVars
    <2> QED BY <2>1, <2>2, AnswersKept DEF AnswerInv, Answering, Answers, DoneWith, Current, configVars
<1> QED BY <1>1, <1>2

\* A client that stays is sent exactly one response for each message with an id, in the
\* order of the batch, and none for a notification, however its handler interleaves with
\* others and with the shutdown, for bodies of any length; or a single error when
\* authentication or parsing failed.  A response that the server made has the id of its
\* message, and so has one that an upstream made if the upstreams echo ids.
THEOREM EveryRequestIsAnswered == Spec => []AnswersMatch
<1>1. Init => AnswerInv
    BY DEF Init, InitShutdown, AnswerInv, Answering
<1>2. IInv /\ AnswerInv => AnswersMatch
    BY DEF IInv, Located, AnswerInv, Answers, AnswersMatch
<1> QED BY <1>1, <1>2, NextAnswerInv, Inductive, PTL DEF Spec

=============================================================================
