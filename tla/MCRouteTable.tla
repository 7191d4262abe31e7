---------------------------- MODULE MCRouteTable ----------------------------
(* TLC instance of RouteTable.  "gh" has a prefix and lists one tool twice;   *)
(* "plain" has none, and after a change offers a tool whose name is the       *)
(* prefixed name of a tool of "gh", which comes later in the configuration.   *)
EXTENDS RouteTable

MCOrder == <<"plain", "gh">>

MCPrefix == [u \in {"plain", "gh"} |-> IF u = "gh" THEN <<"gh">> ELSE <<>>]

MCCatalog ==
    [u \in {"plain", "gh"} |->
        IF u = "gh"
        THEN << <<<<"x">>, <<"y">>, <<"y">>>> >>
        ELSE << <<<<"z">>>>, <<<<"gh", "x">>, <<"z">>>> >>]
=============================================================================
