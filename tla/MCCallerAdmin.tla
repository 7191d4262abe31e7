--------------------------- MODULE MCCallerAdmin ----------------------------
(* TLC instance of CallerAdmin: every choice of three of these operations.   *)
EXTENDS CallerAdmin

CONSTANTS alice, bob, old, new, reader, writer

T(kind, via, name) == [kind |-> kind, via |-> via, name |-> name,
                       label |-> None, role |-> None, id |-> 0]
Key(kind, via, label) == [T(kind, via, alice) EXCEPT !.label = label]
Role(kind, via) == [T(kind, via, alice) EXCEPT !.role = reader]

TaskList ==
    << T("createCaller", "api", alice),
       T("createCaller", "ui", bob),
       T("deleteCaller", "ui", alice),
       T("removeCaller", "cli", alice),
       T("removeCaller", "remote", alice),
       Key("createKey", "api", old),
       Key("createKey", "ui", new),
       Key("revokeKey", "cli", old),
       Key("revokeKey", "remote", old),
       [T("deleteKey", "ui", alice) EXCEPT !.id = 1],
       Role("assignRole", "api"),
       Role("unassignRole", "ui"),
       T("getCaller", "api", alice),
       T("listKeys", "api", alice),
       T("listCallers", "ui", alice),
       T("provision", "api", alice),
       T("login", "api", alice) >>

MCTasks == {TaskList[i] : i \in DOMAIN TaskList}
Place(t) == CHOOSE i \in DOMAIN TaskList : TaskList[i] = t

(* Operations are interchangeable, so their tasks come in the order of the   *)
(* list.  alice is there with up to two keys, or not; bob is created later.  *)
MCInit ==
    /\ callers \in {[n \in Names |-> IF n = alice THEN c ELSE 0] : c \in {0, 1}}
    /\ task \in {t \in [Ops -> MCTasks] :
                   \A p, q \in Ops : p < q => Place(t[p]) <= Place(t[q])}
    /\ keys \in SUBSET {[id |-> k, caller |-> 1, label |-> old, name |-> alice] : k \in 1 .. 2}
    /\ roles \in SUBSET {[caller |-> 1, role |-> reader, name |-> alice]}
    /\ roles # {} => \E k \in keys : k.id = 1
    /\ Init

MCSpec == MCInit /\ [][Next]_vars /\ \A p \in Ops : WF_vars(Step(p))
=============================================================================
