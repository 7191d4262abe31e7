------------------------------ MODULE MCServer ------------------------------
EXTENDS Server, TLC

CONSTANTS c1, t1, t2, q1, q2

Msg(method, id, params) == [jsonrpc |-> "2.0", method |-> method, id |-> id, params |-> params]
Single(m) == [fault |-> "none", isBatch |-> FALSE, msgs |-> <<m>>]
Batch(ms) == [fault |-> "none", isBatch |-> TRUE, msgs |-> ms]

Call1 == Single(Msg("tools/call", "1", t1))
Call2 == Single(Msg("tools/call", "1", t2))
List == Single(Msg("tools/list", "1", ""))
Note == Msg("notifications/initialized", "none", "")

Malformed == {
    [Single(Note) EXCEPT !.fault = "tooLarge"],
    Single([Note EXCEPT !.jsonrpc = "1.0"]),
    Batch(<<>>),
    Batch(<<Note, Note, Note, Note>>),  \* too long for stile
    Batch(<<Msg("ping", "1", ""), Msg("ping", "invalid", "")>>)}
WellFormed == {
    Single(Note), Single(Msg("tools/call", "1", "")),
    Batch(<<Msg("initialize", "1", "other"), Note, Msg("tools/call", "null", t1)>>),
    Batch(<<Msg("ping", "1", ""), Msg("initialize", "2", "")>>),
    Batch(<<Note, Note>>)}

Scenario(a, b, tools, n) ==
    [body |-> q1 :> a @@ q2 :> b, tools |-> tools, changes |-> n,
     leave |-> 1 - n, signal |-> FALSE, rounds |-> FALSE, echoes |-> TRUE]

MCScenarios ==
    \* lists and calls while the table, the roles and the connections change
    {Scenario(List, b, {{t2}, Tools}, 1) : b \in {Call1, Call2}}
    \* every kind of body beside a call
    \union {Scenario(Call1, b, {Tools}, 0) : b \in Malformed \union WellFormed}
    \* upstreams and children that do not echo ids
    \union {[Scenario(Call1, b, {Tools}, 0) EXCEPT !.echoes = FALSE] :
            b \in {Call2, Batch(<<Msg("ping", "1", ""), Note, Msg("ping", "2", "")>>)}}
    \* shutdown
    \union {[Scenario(Call1, b, {Tools}, 0) EXCEPT !.signal = TRUE] : b \in {Call1, Call2}}
    \union {[Scenario(List, List, {Tools}, 0) EXCEPT !.signal = TRUE, !.rounds = TRUE]}
MCCallerOf == [q \in Requests |-> c1]
=============================================================================
