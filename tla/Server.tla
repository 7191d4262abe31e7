------------------------------- MODULE Server -------------------------------
(***************************************************************************)
(* POST /mcp in both servers, composed with their shutdown:                *)
(*   stile       internal/server/server.go, internal/proxy/proxy.go and    *)
(*               internal/audit; it answers everything but tools/call      *)
(*               itself, and records tools/call in the audit log           *)
(*   stile wrap  internal/wrap/handler.go; it hands every message to one   *)
(*               child process                                             *)
(* internal/jsonrpc parses the body for both.  The rate limits, the OAuth  *)
(* tokens and the child process have modules of their own (Gateway,        *)
(* OAuthTokens, StdioTransport); here they refuse, answer or fail.         *)
(***************************************************************************)
EXTENDS Shutdown, FiniteSets

CONSTANTS
    Scenarios,   \* what the requests send and what else may happen
    Tools,
    OAuthTools,  \* the tools whose upstreams may be configured with auth.type oauth
    StdioTools,  \* the tools of upstreams that are child processes
    Callers, CallerOf,
    MaxBatch     \* maxBatchSize

\* A message; its id is "none" when absent, and its params are the tool of tools/call and
\* the protocol version of initialize.
Message == [jsonrpc : STRING, method : STRING, id : STRING, params : Tools \union STRING]

\* A scenario bounds the states: the body of each request, the tools that the table
\* may have and a caller may use at first, the number of changes of the table, grants
\* and tokens, how many clients may leave, whether the process is signalled and has
\* background rounds, and whether the upstreams give every reply the id of its request.
ASSUME ServerAssumption ==
    /\ \A sc \in Scenarios :
        /\ \A q \in Requests :
            LET b == sc.body[q] IN
            /\ b.fault \in {"none", "unreadable", "tooLarge", "invalidJSON"}
            /\ b.isBatch \in BOOLEAN
            /\ b.msgs \in Seq(Message)
            /\ ~b.isBatch => Len(b.msgs) = 1
        /\ sc.tools \subseteq SUBSET Tools
        /\ sc.changes \in Nat /\ sc.leave \in Nat /\ sc.signal \in BOOLEAN /\ sc.rounds \in BOOLEAN
        /\ sc.echoes \in BOOLEAN
    /\ OAuthTools \subseteq Tools /\ StdioTools \subseteq Tools \ OAuthTools
    /\ CallerOf \in [Requests -> Callers]
    /\ MaxBatch \in Nat \ {0}

VARIABLES
    authenticated,  \* server.database is configured
    needsToken, \* the tools of upstreams with auth.type oauth
    scenario,   \* the bounds
    pc,         \* where its handler is
    may,        \* the tools its caller may use, as authentication found
    todo,       \* the messages still to be handled
    seen,       \* the tools ListTools returned to it
    responses,  \* the responses it has so far
    gone,       \* its client has disconnected, so its context is cancelled
    reply,      \* what was written to the client
    table,      \* the tools in the route table
    grants,     \* the tools that the roles of each caller allow
    tokens,     \* the callers with a token for the OAuth provider
    changes,    \* how often table, grants or tokens changed
    since,      \* history: changes when the request was authenticated
    sent,       \* history: the requests that an upstream was called for
    auditLog    \* what became of its row of table audit_log

handlerVars == <<pc, may, todo, seen, responses, reply, since, sent, auditLog>>
worldVars == <<table, grants, tokens, changes>>
body == scenario.body
configVars == <<authenticated, needsToken, scenario>>
serverVars == <<configVars, gone, handlerVars, worldVars>>
vars == <<shutdownVars, serverVars>>

NullID == "null"
Nothing == <<>>  \* 202 Accepted, or no response yet

Init ==
    /\ InitShutdown
    /\ authenticated \in {mode = "stile", FALSE}
    /\ needsToken \in {{}, OAuthTools}
    /\ needsToken # {} => authenticated  \* main refuses to start otherwise
    /\ scenario \in Scenarios
    /\ pc = [q \in Requests |-> IF mode = "stile" THEN "auth" ELSE "parse"]
    /\ may = [q \in Requests |-> {}]
    /\ todo = [q \in Requests |-> <<>>]
    /\ seen = [q \in Requests |-> {}]
    /\ responses = [q \in Requests |-> <<>>]
    /\ gone = {}
    /\ reply = [q \in Requests |-> Nothing]
    /\ table \in IF mode = "stile" THEN scenario.tools ELSE {{}}
    /\ grants \in [Callers -> IF authenticated THEN scenario.tools ELSE {{}}]
    /\ tokens \in IF needsToken # {} THEN SUBSET Callers ELSE {{}}
    /\ changes = 0
    /\ since = [q \in Requests |-> 0]
    /\ sent = {}
    /\ auditLog = [q \in Requests |-> "none"]

Goto(q, loc) == pc' = [pc EXCEPT ![q] = loc]

At(q, loc) == req[q] = "active" /\ ~exited /\ pc[q] = loc

\* A response; tools are those of a tools/list or initialize result, and epoch (a
\* history) is the value of changes when the outcome was decided.
Response(id, outcome, tools) ==
    [id |-> id, outcome |-> outcome, tools |-> tools, epoch |-> changes]

Respond(q, r) == responses' = [responses EXCEPT ![q] = Append(@, r)]

\* The handler writes rs and returns; nobody reads what a client that left is sent.
Answer(q, rs) ==
    /\ Finish(q)
    /\ Goto(q, "end")
    /\ reply' = [reply EXCEPT ![q] = IF q \in gone THEN Nothing ELSE rs]

-----------------------------------------------------------------------------
(* Authentication and parsing.                                             *)

Authenticate(q) ==
    /\ At(q, "auth")
    /\ Goto(q, "parse")
    /\ may' = [may EXCEPT ![q] = IF authenticated THEN grants[CallerOf[q]] ELSE Tools]
    /\ since' = [since EXCEPT ![q] = changes]
    /\ UNCHANGED <<shutdownVars, configVars, gone, todo, seen, responses, reply,
                   sent, auditLog, worldVars>>

Unauthorized(q) ==
    /\ At(q, "auth")
    /\ authenticated
    /\ Answer(q, <<Response(NullID, "unauthorized", {})>>)
    /\ UNCHANGED <<configVars, gone, may, todo, seen, responses, since, sent,
                   auditLog, worldVars>>

\* The version is 2.0, the method is not empty, the id a string, an integer or null.
parseOneRequest(m) == m.jsonrpc = "2.0" /\ m.method # "" /\ m.id # "invalid"

\* One malformed message makes the whole batch fail, and so does an empty one.
ParseMessage(b) ==
    /\ b.fault = "none"
    /\ b.msgs # <<>>
    /\ \A i \in DOMAIN b.msgs : parseOneRequest(b.msgs[i])

\* Only stile limits the length of a batch.
Accepted(b) == ParseMessage(b) /\ (mode = "stile" => Len(b.msgs) <= MaxBatch)

Parse(q) ==
    /\ At(q, "parse")
    /\ IF Accepted(body[q])
       THEN /\ Goto(q, "dispatch")
            /\ todo' = [todo EXCEPT ![q] = body[q].msgs]
            /\ UNCHANGED <<shutdownVars, reply>>
       ELSE /\ Answer(q, <<Response(NullID, "parseError", {})>>)
            /\ UNCHANGED todo
    /\ UNCHANGED <<configVars, gone, may, seen, responses, since, sent, auditLog,
                   worldVars>>

-----------------------------------------------------------------------------
(* dispatch: the messages of stile other than a single tools/call.         *)

Current(q) == Head(todo[q])
IsNotification(m) == m.id = "none"
IsCall(q) == ~body[q].isBatch /\ Current(q).method = "tools/call"

Dispatching(q) == At(q, "dispatch") /\ todo[q] # <<>>

\* The current message is done, with response r.
Handled(q, r) ==
    /\ Respond(q, r)
    /\ todo' = [todo EXCEPT ![q] = Tail(@)]

\* Mutant of Notification: a notification is answered as well.
NotificationAnswered(q) ==
    /\ Dispatching(q) /\ mode = "stile" /\ IsNotification(Current(q))
    /\ Handled(q, Response(Current(q).id, "result", {}))
    /\ UNCHANGED <<shutdownVars, configVars, gone, pc, may, seen, reply, since,
                   sent, auditLog, worldVars>>

Notification(q) ==
    /\ Dispatching(q) /\ mode = "stile" /\ IsNotification(Current(q))
    /\ todo' = [todo EXCEPT ![q] = Tail(@)]
    /\ UNCHANGED <<shutdownVars, configVars, gone, pc, may, seen, responses,
                   reply, since, sent, auditLog, worldVars>>

\* tools/list, and initialize with the supported protocol version or none.
WantsList(m) == m.method = "tools/list" \/ (m.method = "initialize" /\ m.params # "other")

\* ping, an unsupported version, an unknown method, and tools/call in a batch.
Dispatch(q) ==
    /\ Dispatching(q) /\ mode = "stile" /\ ~IsNotification(Current(q))
    /\ ~WantsList(Current(q)) /\ ~IsCall(q)
    /\ Handled(q, Response(Current(q).id,
                           IF Current(q).method = "ping" THEN "result" ELSE "error", {}))
    /\ UNCHANGED <<shutdownVars, configVars, gone, pc, may, seen, reply, since,
                   sent, auditLog, worldVars>>

ListTools(q) ==
    /\ Dispatching(q) /\ mode = "stile" /\ ~IsNotification(Current(q))
    /\ WantsList(Current(q))
    /\ seen' = [seen EXCEPT ![q] = table]
    /\ Goto(q, "filter")
    /\ UNCHANGED <<shutdownVars, configVars, gone, may, todo, responses, reply,
                   since, sent, auditLog, worldVars>>

\* The caller has a token if the tool needs one; without the token store (it is
\* closed) nobody has.
IsConnected(q, t) == t \in needsToken => CallerOf[q] \in tokens /\ "tokens" \notin closed

\* Mutant of FilterTools: the caller's roles are not looked at.
FilterConnected(q) ==
    /\ At(q, "filter")
    /\ Handled(q, Response(Current(q).id, "result", {t \in seen[q] : IsConnected(q, t)}))
    /\ seen' = [seen EXCEPT ![q] = {}]
    /\ Goto(q, "dispatch")
    /\ UNCHANGED <<shutdownVars, configVars, gone, may, reply, since, sent,
                   auditLog, worldVars>>

\* filteredToolsWithPending behind ListTools.
FilterTools(q) ==
    /\ At(q, "filter")
    /\ Handled(q, Response(Current(q).id, "result",
                           {t \in seen[q] : t \in may[q] /\ IsConnected(q, t)}))
    /\ seen' = [seen EXCEPT ![q] = {}]
    /\ Goto(q, "dispatch")
    /\ UNCHANGED <<shutdownVars, configVars, gone, may, reply, since, sent,
                   auditLog, worldVars>>

\* Every message is handled: the responses are written, or 202 if there are none.
WriteResponses(q) ==
    /\ At(q, "dispatch") /\ todo[q] = <<>>
    /\ Answer(q, responses[q])
    /\ UNCHANGED <<configVars, gone, may, todo, seen, responses, since, sent,
                   auditLog, worldVars>>

-----------------------------------------------------------------------------
(* HandleToolsCall, and forward of stile wrap.                             *)

Stdio(q) == mode = "wrap" \/ Current(q).params \in StdioTools

\* The requests in RoundTrip of a child process, which holds the transport's lock.
InChild == {q \in Requests : ~exited /\ req[q] = "active" /\ pc[q] = "sent" /\ Stdio(q)}

Calling(q) == Dispatching(q) /\ mode = "stile" /\ ~IsNotification(Current(q)) /\ IsCall(q)

\* The call is refused, and recorded unless its parameters are invalid.
Refuse(q, why) ==
    /\ Respond(q, Response(Current(q).id, why, {}))
    /\ Goto(q, IF why = "invalid" THEN "write" ELSE "record")
    /\ UNCHANGED <<shutdownVars, configVars, gone, may, todo, seen, reply, since,
                   sent, auditLog, worldVars>>

\* No parameters, no access, no such tool.
RefuseRoute(q) ==
    LET t == Current(q).params IN
    /\ Calling(q)
    /\ t \notin Tools \intersect may[q] \intersect table
    /\ Refuse(q, IF t \notin Tools THEN "invalid"
                 ELSE IF t \notin may[q] THEN "denied" ELSE "unknown")

Route(q) ==
    /\ Calling(q)
    /\ Current(q).params \in may[q] \intersect table
    /\ Goto(q, "limit")
    /\ UNCHANGED <<shutdownVars, configVars, gone, may, todo, seen, responses,
                   reply, since, sent, auditLog, worldVars>>

\* Over a rate limit, no token, or one that has expired and cannot be refreshed.
RefuseCall(q) ==
    LET t == Current(q).params IN
    /\ At(q, "limit")
    /\ \/ Refuse(q, "limited")
       \/ ~IsConnected(q, t) /\ Refuse(q, "unconnected")
       \/ t \in needsToken /\ IsConnected(q, t) /\ Refuse(q, "expired")

\* RoundTrip to the upstream; to a child, one call at a time.
Send(q) ==
    /\ \/ At(q, "limit") /\ IsConnected(q, Current(q).params)
       \/ Dispatching(q) /\ mode = "wrap"
    /\ Stdio(q) => InChild = {}
    /\ Goto(q, "sent")
    /\ sent' = sent \union {q}
    /\ UNCHANGED <<shutdownVars, configVars, gone, may, todo, seen, responses,
                   reply, since, auditLog, worldVars>>

\* The ids a reply may come with: neither transport compares it with the request's.
ReplyIDs(q) == IF scenario.echoes THEN {Current(q).id} ELSE {Current(q).id, NullID, "other"}

\* What RoundTrip returns: an error, of which the handler makes a response of its own, or
\* the upstream's response or stream, which is passed on as it is.
Results(q) ==
    {Response(Current(q).id, "error", {})}
    \union {Response(id, "relayed", {}) : id \in ReplyIDs(q)}
    \union {Response(id, "stream", {}) : id \in IF Stdio(q) THEN {} ELSE ReplyIDs(q)}

Returned(q) ==
    /\ At(q, "sent") /\ mode = "stile"
    /\ \E r \in Results(q) : Respond(q, r)
    /\ Goto(q, "record")
    /\ UNCHANGED <<shutdownVars, configVars, gone, may, todo, seen, reply, since,
                   sent, auditLog, worldVars>>

\* Mutant of Record: the entry is written only if the call succeeded.
RecordSuccess(q) ==
    /\ At(q, "record")
    /\ IF responses[q][1].outcome \in {"relayed", "stream"}
       THEN auditLog' = [auditLog EXCEPT ![q] = "row"]
       ELSE UNCHANGED auditLog
    /\ Goto(q, "write")
    /\ UNCHANGED <<shutdownVars, configVars, gone, may, todo, seen, responses,
                   reply, since, sent, worldVars>>

\* recordRequest, before anything is written: the insert fails when the client has left
\* (it runs under the context of the request) or the database is closed, and may fail
\* for any other reason, a locked SQLite file for one; the error is logged only.
Record(q) ==
    /\ At(q, "record")
    /\ \E o \in {"row", "failed"} :
        /\ o = "row" => q \notin gone /\ "audit" \notin closed
        /\ auditLog' = [auditLog EXCEPT ![q] = o]
    /\ Goto(q, "write")
    /\ UNCHANGED <<shutdownVars, configVars, gone, may, todo, seen, responses,
                   reply, since, sent, worldVars>>

\* A stream may end before its response.
WriteResponse(q) ==
    LET r == responses[q][1] IN
    /\ At(q, "write")
    /\ \/ Answer(q, <<r>>)
       \/ r.outcome = "stream" /\ Answer(q, <<[r EXCEPT !.outcome = "cut"]>>)
    /\ UNCHANGED <<configVars, gone, may, todo, seen, responses, since, sent,
                   auditLog, worldVars>>

\* Mutant of Forwarded: a response to a notification is waited for.
ForwardedAnswer(q) ==
    /\ At(q, "sent") /\ mode = "wrap" /\ ~IsNotification(Current(q))
    /\ \E r \in Results(q) : Handled(q, r)
    /\ Goto(q, "dispatch")
    /\ UNCHANGED <<shutdownVars, configVars, gone, may, seen, reply, since, sent,
                   auditLog, worldVars>>

\* The child answers or fails, and takes a notification without either.
Forwarded(q) ==
    /\ At(q, "sent") /\ mode = "wrap"
    /\ IF IsNotification(Current(q))
       THEN /\ todo' = [todo EXCEPT ![q] = Tail(@)]
            /\ UNCHANGED responses
       ELSE \E r \in Results(q) : Handled(q, r)
    /\ Goto(q, "dispatch")
    /\ UNCHANGED <<shutdownVars, configVars, gone, may, seen, reply, since, sent,
                   auditLog, worldVars>>

-----------------------------------------------------------------------------
(* The rest of the world.                                                  *)

\* A client disconnects, which cancels the context of its request.
Disconnect(q) ==
    /\ req[q] = "active" /\ ~exited
    /\ q \notin gone /\ Cardinality(gone) < scenario.leave
    /\ gone' = gone \union {q}
    /\ UNCHANGED <<shutdownVars, configVars, body, handlerVars, worldVars>>

\* A refresh, a change of roles, or an OAuth connection made or removed.
Change ==
    /\ ~exited /\ mode = "stile"
    /\ changes < scenario.changes
    /\ changes' = changes + 1
    /\ \/ table' \in SUBSET Tools /\ UNCHANGED <<grants, tokens>>
       \/ authenticated /\ grants' \in [Callers -> SUBSET Tools] /\ UNCHANGED <<table, tokens>>
       \/ needsToken # {} /\ tokens' \in SUBSET Callers /\ UNCHANGED <<table, grants>>
    /\ <<table, grants, tokens>>' # <<table, grants, tokens>>
    /\ UNCHANGED <<shutdownVars, configVars, gone, handlerVars>>

\* Closing a child's transport waits for its lock.
TransportsFree == NextStep \in {"router", "transport"} => InChild = {}

Handle(q) ==
    \/ Authenticate(q) \/ Unauthorized(q) \/ Parse(q)
    \/ Notification(q) \/ Dispatch(q) \/ ListTools(q) \/ FilterTools(q)
    \/ WriteResponses(q)
    \/ RefuseRoute(q) \/ Route(q) \/ RefuseCall(q) \/ Send(q) \/ Returned(q)
    \/ Record(q) \/ WriteResponse(q)
    \/ Forwarded(q)

Next ==
    \/ \E q \in Requests :
        \/ Accept(q) /\ UNCHANGED serverVars
        \/ Handle(q)
        \/ Disconnect(q)
    \/ Change
    \/ scenario.rounds /\ BackgroundStep /\ UNCHANGED serverVars
    \/ scenario.signal /\ Signal /\ UNCHANGED serverVars
    \/ Drained /\ UNCHANGED serverVars
    \/ DrainTimesOut /\ UNCHANGED serverVars
    \/ StopBackground /\ UNCHANGED serverVars
    \/ CloseStep /\ TransportsFree /\ UNCHANGED serverVars
    \/ ShutdownComplete /\ UNCHANGED serverVars
    \/ MainReturns /\ UNCHANGED serverVars

Spec == Init /\ [][Next]_vars

\* The goroutine of a request runs on, and upstreams and children answer.
FairSpec == Spec /\ \A q \in Requests : WF_vars(Handle(q))

-----------------------------------------------------------------------------
(* Properties.                                                             *)

\* The places of the messages with an id among the first n of ms.
Asking(ms, n) == {i \in 1..n : ~IsNotification(ms[i])}

\* r has the id of message m, unless an upstream made r and does not echo ids.
Suits(r, m) ==
    r.id = m.id \/ (~scenario.echoes /\ r.outcome \in {"relayed", "stream", "cut"})

\* rs has one response for each of these, in their order.
AnswerFirst(rs, ms, n) ==
    /\ Len(rs) = Cardinality(Asking(ms, n))
    /\ \A i \in Asking(ms, n) : Suits(rs[Cardinality(Asking(ms, i))], ms[i])

\* What a client that stays is sent answers what it sent, in both servers: one response
\* for each message with an id (or the stream it was to come in), in the order of the
\* batch, and none for a notification; or one error with a null id when authentication
\* or parsing failed.  The responses that the servers make carry the id of the message;
\* those they relay do only if the upstream or child echoes ids: it may write a
\* notification, or answer with a null id, and that is passed on as the response.
AnswersMatch ==
    \A q \in Requests : req[q] = "done" /\ q \notin gone =>
        LET ms == body[q].msgs
            rs == reply[q]
        IN  IF rs # Nothing /\ rs[1].outcome \in {"unauthorized", "parseError"}
            THEN Len(rs) = 1 /\ rs[1].id = NullID
            ELSE AnswerFirst(rs, ms, Len(ms))

\* The tool list and the calls agree: a tool that a caller was listed is not refused to
\* it (no access, no such tool, not connected), unless the table, its roles or its
\* connections changed meanwhile or the process is being shut down.
ListedIsCallable ==
    \A p, q \in Requests : CallerOf[p] = CallerOf[q] /\ ~timedOut /\ since[p] = since[q] =>
        \A i \in DOMAIN responses[p], j \in DOMAIN responses[q] :
            LET l == responses[p][i]
                r == responses[q][j]
            IN  /\ r.outcome \in {"denied", "unknown", "unconnected"}
                /\ l.epoch = since[p] /\ r.epoch = since[p]
                => body[q].msgs[j].params \notin l.tools

\* README.md: "every `tools/call` is logged".  What the code keeps is that the insert is
\* tried before the call is answered, for calls refused and calls that fail as well, and
\* also while the process shuts down.  Whether the row is there is another matter: an
\* insert that fails is not repeated, and the call is answered all the same.
CallsAreAudited ==
    \A q \in Requests : mode = "stile" /\ req[q] = "done" =>
        LET m == body[q].msgs[1] IN
        ~body[q].isBatch /\ m.method = "tools/call" /\ m.params \in Tools /\ responses[q] # <<>>
            => auditLog[q] # "none"

\* Every request is answered as long as the process runs: handlers never wait for each
\* other for good, although all calls to a child go through one lock and a
\* notification gets no response.
Answered == \A q \in Requests : req[q] = "active" ~> req[q] = "done" \/ exited
=============================================================================
