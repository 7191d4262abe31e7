------------------------------ MODULE MCHealth ------------------------------
(* TLC instance of Health: a gateway without store, two with a store and a    *)
(* stdio upstream whose lock can delay the round before or after it has read  *)
(* the status of the other, two with a store and one HTTP upstream, of which  *)
(* one fails closed, and one whose agent is delayed by one upstream before it *)
(* comes to the other.                                                        *)
EXTENDS Health

MCConfigs ==
    {[store |-> "local", missing |-> TRUE, gateway |-> <<"s1", "h1">>, agent |-> <<"h1">>,
      links |-> Links \ {"slow"}, crashes |-> 0, changes |-> 2],
     [store |-> "redis", missing |-> TRUE, gateway |-> <<"s1", "h1">>, agent |-> <<"h1">>,
      links |-> {"up", "down", "hung"}, crashes |-> 0, changes |-> 0],
     [store |-> "redis", missing |-> TRUE, gateway |-> <<"h1", "s1">>, agent |-> <<"h1">>,
      links |-> {"up", "down", "hung"}, crashes |-> 0, changes |-> 0],
     [store |-> "redis", missing |-> FALSE, gateway |-> <<"h1">>, agent |-> <<"h1">>,
      links |-> Links \ {"hung"}, crashes |-> 1, changes |-> 2],
     [store |-> "redis", missing |-> TRUE, gateway |-> <<"h1">>, agent |-> <<"h1">>,
      links |-> {"up", "slow", "down"}, crashes |-> 1, changes |-> 2],
     [store |-> "redis", missing |-> TRUE, gateway |-> <<"h1", "h2">>, agent |-> <<"h1", "h2">>,
      links |-> {"up", "slow", "down"}, crashes |-> 1, changes |-> 0]}
=============================================================================
