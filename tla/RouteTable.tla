----------------------------- MODULE RouteTable -----------------------------
(***************************************************************************)
(* Tool discovery and the route table (internal/router/router.go), with    *)
(* the refreshes that run concurrently on it: the background goroutine and *)
(* the admin endpoints.  A Refresh asks the upstreams one after the other  *)
(* without a lock and applies all the answers under the lock.              *)
(* AddUpstream, RefreshUpstream and RemoveUpstream have no caller in the   *)
(* gateway and are left out: the list of upstreams is fixed.               *)
(* Init, Next and Spec carry the name of the table, so that one module can *)
(* extend this one and Health.                                             *)
(***************************************************************************)
EXTENDS Integers, Sequences, SequencesExt, TLC

CONSTANTS
    Order,    \* the upstreams in configuration order
    Prefix,   \* resolved prefix of an upstream, <<>> for none
    Catalog,  \* per upstream the tool lists it offers over time, in order
    Admins    \* concurrent callers of the refresh endpoints

Upstreams == Range(Order)
Background == "background"
Refreshers == Admins \union {Background}

\* A tool name is the sequence of its segments between "__".
ASSUME RouteAssumption ==
    /\ Order \in Seq(Upstreams) /\ IsInjective(Order)
    /\ \A u \in Upstreams : /\ Catalog[u] \in Seq(Range(Catalog[u])) /\ Catalog[u] # <<>>
                            /\ \A l \in Range(Catalog[u]) : l \in Seq(Range(l))
    /\ Background \notin Admins

VARIABLES
    offered,  \* which of its tool lists an upstream offers now
    down,     \* upstreams whose requests fail
    tools,    \* Upstream.Tools as an index into Catalog; 0 before any discovery
    stale,    \* Upstream.Stale
    pc,       \* where each refresher is
    results,  \* what its discoveries returned so far; 0 is an error
    ticked,   \* a tick waits in the ticker's channel
    stopping, \* stopCh is closed
    closed    \* Close has returned, the transports are closed

tableVars == <<tools, stale>>
upstreamVars == <<offered, down>>
stopVars == <<ticked, stopping, closed>>
routeVars == <<offered, down, tools, stale, pc, results, ticked, stopping, closed>>

-----------------------------------------------------------------------------
(* rebuildEntriesLocked                                                    *)

\* "prefix__name", or the name alone.
applyPrefix(prefix, name) == prefix \o name

\* Upstream.Tools.
ToolsOf(versions, u) == IF versions[u] = 0 THEN <<>> ELSE Catalog[u][versions[u]]

\* What the two loops visit, by place: tool j of the k-th upstream.
Visits(versions) ==
    UNION {{k} \X DOMAIN ToolsOf(versions, Order[k]) : k \in DOMAIN Order}

Upstream(v) == Order[v[1]]
Original(versions, v) == ToolsOf(versions, Upstream(v))[v[2]]
NameOf(versions, v) == applyPrefix(Prefix[Upstream(v)], Original(versions, v))

\* The loops come to v before w.
Earlier(v, w) == v[1] < w[1] \/ (v[1] = w[1] /\ v[2] < w[2])

\* Mutant of Taken: the last one wins.
TakenLater(versions, v) ==
    \E w \in Visits(versions) : Earlier(v, w) /\ NameOf(versions, w) = NameOf(versions, v)

\* The name of v is in rt.entries already: the tool is skipped.
Taken(versions, v) ==
    \E w \in Visits(versions) : Earlier(w, v) /\ NameOf(versions, w) = NameOf(versions, v)

\* The visits that add a route.
Kept(versions) == {v \in Visits(versions) : ~Taken(versions, v)}

rebuildEntriesLocked(versions) ==
    LET kept == Kept(versions)
        named(n) == CHOOSE v \in kept : NameOf(versions, v) = n
        own(k) == SetToSortSeq({v \in kept : v[1] = k}, Earlier)
    IN  [entries |-> [n \in {NameOf(versions, v) : v \in kept} |->
                         [upstream |-> Upstream(named(n)),
                          original |-> Original(versions, named(n))]],
         listed  |-> [k \in DOMAIN Order |->
                         [j \in DOMAIN own(k) |-> NameOf(versions, own(k)[j])]]]

\* RouteTable.entries and the names in each Upstream.PrefixedTools.  Both are
\* rebuilt before the lock under which tools changed is released.
entries == rebuildEntriesLocked(tools).entries
listed == rebuildEntriesLocked(tools).listed

-----------------------------------------------------------------------------

\* New: the initial Refresh runs alone; an upstream that is down is stale.
InitTable ==
    /\ offered = [u \in Upstreams |-> 1]
    /\ down \in SUBSET Upstreams
    /\ tools = [u \in Upstreams |-> IF u \in down THEN 0 ELSE 1]
    /\ stale = down
    /\ pc = [r \in Refreshers |-> "idle"]
    /\ results = [r \in Refreshers |-> <<>>]
    /\ ticked = FALSE
    /\ stopping = FALSE
    /\ closed = FALSE

\* The upstream whose answer refresher r waits for.
Asked(r) == Order[Len(results[r]) + 1]

Discovering(r) == pc[r] = "refresh" /\ Len(results[r]) < Len(Order)

StartRefresh(r) ==
    /\ pc[r] = "idle"
    /\ pc' = [pc EXCEPT ![r] = "refresh"]
    /\ results' = [results EXCEPT ![r] = <<>>]

\* POST /admin/refresh.
AdminRefresh(r) ==
    /\ r \in Admins
    /\ StartRefresh(r)
    /\ UNCHANGED <<upstreamVars, tableVars, stopVars>>

BackgroundRefresh ==
    /\ ticked
    /\ ticked' = FALSE
    /\ StartRefresh(Background)
    /\ UNCHANGED <<upstreamVars, tableVars, stopping, closed>>

\* Mutant of BackgroundStops: stopCh is only looked at when no tick waits.
BackgroundStopsLast ==
    /\ stopping
    /\ ~ticked
    /\ pc[Background] = "idle"
    /\ pc' = [pc EXCEPT ![Background] = "exited"]
    /\ UNCHANGED <<upstreamVars, tableVars, results, stopVars>>

\* The loop selects <-rt.stopCh.
BackgroundStops ==
    /\ stopping
    /\ pc[Background] = "idle"
    /\ pc' = [pc EXCEPT ![Background] = "exited"]
    /\ UNCHANGED <<upstreamVars, tableVars, results, stopVars>>

\* discoverTools: initialize, whose failure does not matter, then tools/list.
\* The list is the one the upstream has when it answers.
Discover(r) ==
    /\ Discovering(r)
    /\ Asked(r) \notin down
    /\ ~closed
    /\ results' = [results EXCEPT ![r] = Append(@, offered[Asked(r)])]
    /\ UNCHANGED <<upstreamVars, tableVars, pc, stopVars>>

\* The request fails because the upstream does, because its transport is
\* closed, or because the admin client went away and cancelled the context.
DiscoverFails(r) ==
    /\ Discovering(r)
    /\ Asked(r) \in down \/ closed \/ r \in Admins
    /\ results' = [results EXCEPT ![r] = Append(@, 0)]
    /\ UNCHANGED <<upstreamVars, tableVars, pc, stopVars>>

\* The result of r for upstream u.
Found(r, u) == results[r][CHOOSE k \in DOMAIN Order : Order[k] = u]

\* Refresh once it has the answers and the lock, up to its return.
ApplyTools(r, newTools) ==
    /\ stale' = {u \in Upstreams : Found(r, u) = 0}
    /\ tools' = newTools
    /\ pc' = [pc EXCEPT ![r] = "idle"]
    /\ results' = [results EXCEPT ![r] = <<>>]
    /\ UNCHANGED <<upstreamVars, stopVars>>

\* Mutant of Apply: a failed upstream loses its tools.
ApplyForgets(r) ==
    /\ pc[r] = "refresh" /\ Len(results[r]) = Len(Order)
    /\ ApplyTools(r, [u \in Upstreams |-> Found(r, u)])

\* Mutant of Apply: tools are only taken the first time.
ApplyOnce(r) ==
    /\ pc[r] = "refresh" /\ Len(results[r]) = Len(Order)
    /\ ApplyTools(r, [u \in Upstreams |->
                         IF tools[u] = 0 THEN Found(r, u) ELSE tools[u]])

\* A failed upstream keeps the tools it had.
Apply(r) ==
    /\ pc[r] = "refresh" /\ Len(results[r]) = Len(Order)
    /\ ApplyTools(r, [u \in Upstreams |->
                         IF Found(r, u) = 0 THEN tools[u] ELSE Found(r, u)])

\* A tick that finds the channel full is dropped.
RefreshTick ==
    /\ ~ticked
    /\ ticked' = TRUE
    /\ UNCHANGED <<upstreamVars, tableVars, pc, results, stopping, closed>>

\* Close: stopCh is closed, then it waits for the goroutine's done channel ...
Close ==
    /\ ~stopping
    /\ stopping' = TRUE
    /\ UNCHANGED <<upstreamVars, tableVars, pc, results, ticked, closed>>

\* ... and closes the transports.
CloseTransports ==
    /\ stopping
    /\ ~closed
    /\ pc[Background] = "exited"
    /\ closed' = TRUE
    /\ UNCHANGED <<upstreamVars, tableVars, pc, results, ticked, stopping>>

\* The upstream changes its tools, or fails, or recovers.
ChangeTools(u) ==
    /\ offered[u] < Len(Catalog[u])
    /\ offered' = [offered EXCEPT ![u] = @ + 1]
    /\ UNCHANGED <<down, tableVars, pc, results, stopVars>>

GoDown(u) ==
    /\ u \notin down
    /\ down' = down \union {u}
    /\ UNCHANGED <<offered, tableVars, pc, results, stopVars>>

Recover(u) ==
    /\ u \in down
    /\ down' = down \ {u}
    /\ UNCHANGED <<offered, tableVars, pc, results, stopVars>>

RefreshStep(r) == Discover(r) \/ DiscoverFails(r) \/ Apply(r)

NextTable ==
    \/ \E r \in Refreshers : AdminRefresh(r) \/ RefreshStep(r)
    \/ BackgroundRefresh \/ BackgroundStops \/ RefreshTick
    \/ Close \/ CloseTransports
    \/ \E u \in Upstreams : ChangeTools(u) \/ GoDown(u) \/ Recover(u)

TableSpec == InitTable /\ [][NextTable]_routeVars

\* The ticker keeps ticking, goroutines keep running, and requests to upstreams
\* return: the HTTP client has a timeout, a stdio child has to answer.  When a
\* tick and stopCh are both ready, select picks at random, so it does not
\* prefer the tick for ever.
TableFairness ==
    /\ WF_routeVars(RefreshTick)
    /\ WF_routeVars(BackgroundRefresh)
    /\ SF_routeVars(BackgroundStops)
    /\ WF_routeVars(CloseTransports)
    /\ \A r \in Refreshers : WF_routeVars(RefreshStep(r))

FairTableSpec == TableSpec /\ TableFairness

-----------------------------------------------------------------------------
(* Properties                                                              *)

Names == UNION {{applyPrefix(Prefix[u], n) : n \in UNION {Range(l) : l \in Range(Catalog[u])}} :
                    u \in Upstreams}

\* Some tool of u gets the name n.
Offers(versions, u, n) ==
    \E t \in Range(ToolsOf(versions, u)) : applyPrefix(Prefix[u], t) = n

\* Resolve finds every name some upstream has, and nothing else; it leads to
\* the first upstream in configuration order that has it, under the tool's own
\* name (rebuildEntriesLocked against its contract).
RoutesAreFirstWins ==
    /\ DOMAIN entries = {n \in Names : \E u \in Upstreams : Offers(tools, u, n)}
    /\ \A n \in DOMAIN entries :
          LET e == entries[n]
              k == CHOOSE k \in DOMAIN Order : Order[k] = e.upstream
          IN  /\ Offers(tools, e.upstream, n)
              /\ applyPrefix(Prefix[e.upstream], e.original) = n
              /\ \A j \in 1..(k - 1) : ~Offers(tools, Order[j], n)

\* The names that a table had for upstreams that are stale now are in the next one.
StaleStays(before, after) ==
    \A n \in DOMAIN before : before[n].upstream \in stale' => n \in DOMAIN after

\* A failing upstream keeps its tools: a refresh that leaves an upstream stale
\* takes none of the names it served out of the table.
EntriesSurviveFailure == [][tools' # tools => StaleStays(entries, entries')]_routeVars

\* The catalogue catches up: when an upstream answers from some time on, the
\* table ends with the tools it offers, whatever happens to the others, until
\* Close.
CatalogConverges ==
    \A u \in Upstreams :
        <>[](u \notin down) => <>[](tools[u] = offered[u] \/ stopping)

\* Close returns: the background goroutine notices stopCh.
CloseReturns == stopping ~> closed
=============================================================================
