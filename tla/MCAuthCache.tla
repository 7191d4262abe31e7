---------------------------- MODULE MCAuthCache -----------------------------
(* TLC instance of AuthCache: requests and instances are interchangeable.   *)
EXTENDS AuthCache, TLC

Symmetry == Permutations(Requests) \union Permutations(Instances)

(* All requests go to one instance, while writes happen on any.  Requests on *)
(* different instances share only the database, which no request writes, so  *)
(* what each of them can do it also does here.                               *)
MCInit ==
    /\ Init
    /\ \A p, q \in Requests : inst[p] = inst[q]

(* An instance that serves no request has nothing to evict: what reaches its *)
(* listener is left out.                                                     *)
Busy(i) == \E q \in Requests : inst[q] = i
OnlyBusyListen == \A i \in Instances : inbox[i] # {} => Busy(i)

MCSpec == MCInit /\ [][Next]_vars
=============================================================================
