----------------------------- MODULE MCGateway -----------------------------
EXTENDS Gateway, TLC

CONSTANTS c1, t1, t2, u1, r1, r2, r3

MCCallerOf == [r \in Requests |-> c1]
MCToolOf == r1 :> t1 @@ r2 :> t1 @@ r3 :> t2
MCUpstreamOf == [t \in Tools |-> u1]
MCAllowedTools == 1 :> {t1, t2} @@ 2 :> {t1}
MCDefault == [caller |-> [count |-> 1, window |-> 3, burst |-> 1],
              tool |-> NoLimit,
              upstream |-> [count |-> 2, window |-> 3, burst |-> 1]]
MCRoleLimit == [caller |-> (1 :> [count |-> 2, window |-> 3, burst |-> 1] @@ 2 :> NoLimit),
                tool |-> (1 :> NoLimit @@ 2 :> [count |-> 1, window |-> 3, burst |-> 1])]
MCUpstreamLimit == [u \in Upstreams |-> NoLimit]

\* r1 and r2 ask for the same.
Symmetry == Permutations({r1, r2})
=============================================================================
