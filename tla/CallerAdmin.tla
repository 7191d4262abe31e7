---------------------------- MODULE CallerAdmin -----------------------------
(***************************************************************************)
(* The caller database and everything that writes to it at the same time.  *)
(*   internal/auth/store.go, postgres.go   the tables, statement by        *)
(*                                         statement, and the pool         *)
(*   internal/admin/handler.go, ui.go      the admin API and its pages     *)
(*   internal/admin/client.go              the remote command line         *)
(*   cmd/gateway/cli.go                    the local command line          *)
(*   internal/auth/auth.go                 an OIDC login                   *)
(*                                                                         *)
(* No operation uses a transaction: each is a sequence of statements, and  *)
(* the statements of concurrent operations interleave.  A statement takes  *)
(* a connection of the pool for as long as it runs, which is one step; the *)
(* result set of ListCallers keeps its connection while the roles of each  *)
(* row are read on another one.                                            *)
(***************************************************************************)
EXTENDS Integers, Sequences, FiniteSets

CONSTANTS
    Ops,           \* operations under way
    Names,         \* caller names
    Labels,        \* labels of API keys
    Roles,
    DefaultRoles,  \* auth.oidc.default_roles
    Tasks,         \* what operations are asked to do
    FirstKeys,     \* number of rows api_keys has had at the start
    MaxOpenConns,  \* SetMaxOpenConns of the gateway's pool
    None

Kinds == {"createCaller", "deleteCaller", "removeCaller", "createKey",
          "revokeKey", "deleteKey", "assignRole", "unassignRole",
          "getCaller", "listKeys", "listCallers", "provision", "login"}

\* via: the JSON API, the pages of the admin UI, a local command line with a
\* database handle of its own, or a command line that calls the API.
Task == [kind : Kinds, via : {"api", "ui", "cli", "remote"}, name : Names,
         label : Labels \union {None}, role : Roles \union {None}, id : Nat]

ASSUME AdminAssumption ==
    /\ IsFiniteSet(Names)
    /\ DefaultRoles \subseteq Roles
    /\ Tasks \subseteq Task
    /\ FirstKeys \in Nat
    /\ MaxOpenConns \in Nat \ {0}
    /\ None \notin Names \union Labels \union Roles

VARIABLES
    callers,   \* table callers: the id of each name, 0 when there is no row
    nextId,    \* its sequence
    keys,      \* table api_keys; the name is the one the key was asked for
    nextKey,   \* its sequence
    roles,     \* table caller_roles, with the same name
    task,      \* what each operation does
    left,      \* the statements it still has to run
    id,        \* the caller id or the key id it holds
    todo,      \* callers ListCallers, roles EnsureCaller still has to go through
    result,    \* what it reported
    rows,      \* operations that hold a connection through an open result set
    made,      \* the id of the row the INSERT of EnsureCaller created
    counted    \* history: nextKey when remove-caller found no key

dbVars == <<callers, nextId, keys, nextKey, roles>>
vars == <<callers, nextId, keys, nextKey, roles, task, left, id, todo, result,
          rows, made, counted>>

-----------------------------------------------------------------------------
(* The statements of each operation.                                       *)

\* Through the API a caller is looked up with GetCaller, which selects the
\* caller and then its keys, before or after the statements of the store.
ThroughApi(t) == t.via \in {"api", "remote"}

\* The handlers of the API for callers, ...
CallerRequest(t) ==
    CASE t.kind = "createCaller" -> <<"insertCaller", "selectCaller", "selectKeys">>
      [] t.kind = "deleteCaller" -> <<"deleteCaller">>
      [] t.kind = "getCaller" -> <<"selectCaller", "selectKeys", "selectRoles">>
      [] t.kind = "listCallers" -> <<"openRows", "nextRow">>

\* ... for their keys ...
KeyRequest(t) ==
    CASE t.kind = "createKey" -> <<"selectCaller", "selectKeys", "selectId", "insertKey">>
      [] t.kind = "listKeys" -> <<"selectCaller", "selectKeys", "selectKeys">>
      [] t.kind = "deleteKey" -> <<"deleteKey">>

\* ... and for their roles.
RoleRequest(t) ==
    CASE t.kind = "assignRole" -> <<"selectId", "insertRole", "selectRoles">>
      [] t.kind = "unassignRole" -> <<"selectId", "deleteRole">>

\* The pages of the UI and the local command line call the store directly.
DirectRequest(t) ==
    CASE t.kind = "createCaller" -> <<"insertCaller">>
      [] t.kind = "deleteCaller" -> <<"deleteCaller">>
      [] t.kind = "getCaller" -> <<"selectCaller", "selectKeys", "selectRoles">>
      [] t.kind = "listCallers" -> <<"openRows", "nextRow">>
      [] t.kind = "createKey" -> <<"selectId", "insertKey">>
      [] t.kind = "listKeys" -> <<"selectKeys">>
      [] t.kind = "deleteKey" -> <<"deleteKey">>
      [] t.kind = "assignRole" -> <<"selectId", "insertRole">>
      [] t.kind = "unassignRole" -> <<"selectId", "deleteRole">>

\* remove-caller without --force; through the API it counts a list of the keys.
RunRemoveCaller(t) ==
    IF ThroughApi(t) THEN <<"selectCaller", "selectKeys", "countKeys", "deleteCaller">>
                     ELSE <<"countKeys", "deleteCaller">>

\* revoke-key; through the API it looks for the label in a list of the keys.
RunRevokeKey(t) ==
    IF ThroughApi(t) THEN <<"selectCaller", "selectKeys", "pickKey", "deleteKey">>
                     ELSE <<"revokeLabel">>

\* A login with and without auto_provision, once its token is found valid.
AuthenticateOIDC(t) ==
    IF t.kind = "provision" THEN <<"ensureCaller", "defaultRole", "selectRoles">>
                            ELSE <<"selectCaller", "selectRoles">>

Statements(t) ==
    CASE t.kind = "removeCaller" -> RunRemoveCaller(t)
      [] t.kind = "revokeKey" -> RunRevokeKey(t)
      [] t.kind \in {"provision", "login"} -> AuthenticateOIDC(t)
      [] OTHER ->
            IF ~ThroughApi(t) THEN DirectRequest(t)
            ELSE CASE t.kind \in {"createKey", "listKeys", "deleteKey"} -> KeyRequest(t)
                   [] t.kind \in {"assignRole", "unassignRole"} -> RoleRequest(t)
                   [] OTHER -> CallerRequest(t)

Init ==
    /\ callers \in [Names -> 0 .. Cardinality(Names)]
    /\ \A m, n \in Names : m # n /\ callers[m] # 0 => callers[m] # callers[n]
    /\ nextId = Cardinality(Names) + 1
    /\ \E key \in [1 .. FirstKeys -> (Names \X Labels) \union {None}] :
          /\ \A k \in 1 .. FirstKeys : key[k] # None => callers[key[k][1]] # 0
          /\ keys = {[id |-> k, caller |-> callers[key[k][1]], label |-> key[k][2],
                      name |-> key[k][1]] : k \in {k \in 1 .. FirstKeys : key[k] # None}}
    /\ nextKey = FirstKeys + 1
    /\ \E held \in SUBSET (Names \X Roles) :
          /\ \A h \in held : callers[h[1]] # 0
          /\ roles = {[caller |-> callers[h[1]], role |-> h[2], name |-> h[1]] : h \in held}
    /\ task \in [Ops -> Tasks]
    /\ left = [p \in Ops |-> Statements(task[p])]
    /\ id = [p \in Ops |-> task[p].id]
    /\ todo = [p \in Ops |-> {}]
    /\ result = [p \in Ops |-> "none"]
    /\ rows = {}
    /\ made = [p \in Ops |-> 0]
    /\ counted = [p \in Ops |-> 0]

\* A statement runs on a connection of its own.  The command line that opened
\* the database itself has a pool to itself.
ConnFree(p) ==
    \/ task[p].via = "cli"
    \/ Cardinality(rows) < MaxOpenConns

Runs(p, statement) ==
    /\ left[p] # <<>>
    /\ Head(left[p]) = statement
    /\ ConnFree(p)

Continue(p) ==
    /\ left' = [left EXCEPT ![p] = Tail(@)]
    /\ result' = [result EXCEPT ![p] = IF Tail(left[p]) = <<>> THEN "ok" ELSE @]

Refuse(p) ==
    /\ left' = [left EXCEPT ![p] = <<>>]
    /\ result' = [result EXCEPT ![p] = "error"]

\* The operation goes on when the statement found what it needs.
ContinueIf(p, found) == IF found THEN Continue(p) ELSE Refuse(p)

NameOf(p) == task[p].name
RowOf(p) == callers[NameOf(p)]
\* The subquery (SELECT id FROM callers WHERE name = ?) finds no row for id 0.
OwnKeys(p) == {k \in keys : k.caller = RowOf(p) /\ RowOf(p) # 0}
Stored(c) == \E n \in Names : callers[n] = c /\ c # 0

-----------------------------------------------------------------------------
(* Reads                                                                   *)

\* Mutant of SelectCaller: the rows are never closed.
SelectCallerLeaks(p) ==
    /\ Runs(p, "selectCaller")
    /\ ContinueIf(p, RowOf(p) # 0)
    /\ rows' = rows \union {p}
    /\ UNCHANGED <<dbVars, task, id, todo, made, counted>>

\* The first statement of GetCaller, and CallerExists.
SelectCaller(p) ==
    /\ Runs(p, "selectCaller")
    /\ ContinueIf(p, RowOf(p) # 0)
    /\ UNCHANGED <<dbVars, task, id, todo, rows, made, counted>>

\* ListKeys and RolesForCaller return what there is, none included.
SelectRest(p) ==
    /\ Runs(p, "selectKeys") \/ Runs(p, "selectRoles")
    /\ Continue(p)
    /\ UNCHANGED <<dbVars, task, id, todo, rows, made, counted>>

SelectId(p) ==
    /\ Runs(p, "selectId")
    /\ id' = [id EXCEPT ![p] = RowOf(p)]
    /\ ContinueIf(p, RowOf(p) # 0)
    /\ UNCHANGED <<dbVars, task, todo, rows, made, counted>>

\* Mutant of CountKeys: the comparison is off by one.
CountKeysOffByOne(p) ==
    /\ Runs(p, "countKeys")
    /\ counted' = [counted EXCEPT ![p] = nextKey]
    /\ ContinueIf(p, Cardinality(OwnKeys(p)) <= 1)
    /\ UNCHANGED <<dbVars, task, id, todo, rows, made>>

\* remove-caller without --force: KeyCountForCaller, or the length of the
\* list the API returned.
CountKeys(p) ==
    /\ Runs(p, "countKeys")
    /\ counted' = [counted EXCEPT ![p] = nextKey]
    /\ ContinueIf(p, OwnKeys(p) = {})
    /\ UNCHANGED <<dbVars, task, id, todo, rows, made>>

\* The remote revoke-key takes the first key in the list with the label.
PickKey(p) ==
    LET labelled == {k.id : k \in {k \in OwnKeys(p) : k.label = task[p].label}} IN
    /\ Runs(p, "pickKey")
    /\ \/ labelled = {} /\ Refuse(p) /\ UNCHANGED id
       \/ \E first \in labelled :
             /\ \A k \in labelled : first <= k
             /\ id' = [id EXCEPT ![p] = first]
             /\ Continue(p)
    /\ UNCHANGED <<dbVars, task, todo, rows, made, counted>>

\* ListCallers: the outer query keeps its connection until rows.Close.
OpenRows(p) ==
    /\ Runs(p, "openRows")
    /\ rows' = rows \union {p}
    /\ todo' = [todo EXCEPT ![p] = {n \in Names : callers[n] # 0}]
    /\ Continue(p)
    /\ UNCHANGED <<dbVars, task, id, made, counted>>

\* The roles of one row, on a second connection.
NextRow(p) ==
    /\ Runs(p, "nextRow")
    /\ \E n \in todo[p] : todo' = [todo EXCEPT ![p] = @ \ {n}]
    /\ UNCHANGED <<dbVars, task, left, id, result, rows, made, counted>>

\* rows.Next returns false and the deferred Close gives the connection back;
\* this needs no other one.
CloseRows(p) ==
    /\ left[p] = <<"nextRow">>
    /\ todo[p] = {}
    /\ rows' = rows \ {p}
    /\ Continue(p)
    /\ UNCHANGED <<dbVars, task, id, todo, made, counted>>

-----------------------------------------------------------------------------
(* Writes                                                                  *)

\* Mutant of NewId: without AUTOINCREMENT the id of the last row is used again.
NewIdReused ==
    CHOOSE n \in 1 .. nextId :
        /\ \A m \in Names : callers[m] < n
        /\ n = 1 \/ \E m \in Names : callers[m] = n - 1

\* AUTOINCREMENT and SERIAL never hand out an id twice.
NewId == nextId

\* Mutant of NewKeyId: the same for api_keys.
NewKeyIdReused ==
    CHOOSE n \in 1 .. nextKey :
        /\ \A k \in keys : k.id < n
        /\ n = 1 \/ \E k \in keys : k.id = n - 1

NewKeyId == nextKey

AddRow(n) ==
    /\ callers' = [callers EXCEPT ![n] = NewId]
    /\ nextId' = nextId + 1

\* AddCaller; a name that exists is ErrDuplicate.
InsertCaller(p) ==
    /\ Runs(p, "insertCaller")
    /\ IF RowOf(p) = 0 THEN AddRow(NameOf(p)) ELSE UNCHANGED <<callers, nextId>>
    /\ ContinueIf(p, RowOf(p) = 0)
    /\ UNCHANGED <<keys, nextKey, roles, task, id, todo, rows, made, counted>>

\* DeleteCaller; the foreign keys cascade.
DeleteCaller(p) ==
    /\ Runs(p, "deleteCaller")
    /\ callers' = [callers EXCEPT ![NameOf(p)] = 0]
    /\ keys' = keys \ OwnKeys(p)
    /\ roles' = {r \in roles : r.caller # RowOf(p)}
    /\ ContinueIf(p, RowOf(p) # 0)
    /\ UNCHANGED <<nextId, nextKey, task, id, todo, rows, made, counted>>

\* The second statement of AddKey.  The caller may be gone since the first: the
\* foreign key then refuses the row.  The hash is that of a fresh random key.
InsertKey(p) ==
    /\ Runs(p, "insertKey")
    /\ keys' = IF Stored(id[p])
               THEN keys \union {[id |-> NewKeyId, caller |-> id[p],
                                  label |-> task[p].label, name |-> NameOf(p)]}
               ELSE keys
    /\ nextKey' = nextKey + 1
    /\ ContinueIf(p, Stored(id[p]))
    /\ UNCHANGED <<callers, nextId, roles, task, id, todo, rows, made, counted>>

\* A row (c, r) unless it is there already.
RolesWith(c, r, n) ==
    IF \E row \in roles : row.caller = c /\ row.role = r
    THEN roles
    ELSE roles \union {[caller |-> c, role |-> r, name |-> n]}

\* The second statement of AssignRole: a row that is there is ignored, a caller
\* that is gone is an error.
InsertRole(p) ==
    /\ Runs(p, "insertRole")
    /\ roles' = IF Stored(id[p]) THEN RolesWith(id[p], task[p].role, NameOf(p)) ELSE roles
    /\ ContinueIf(p, Stored(id[p]))
    /\ UNCHANGED <<callers, nextId, keys, nextKey, task, id, todo, rows, made, counted>>

\* The second statement of UnassignRole.
DeleteRole(p) ==
    LET gone == {r \in roles : r.caller = id[p] /\ r.role = task[p].role} IN
    /\ Runs(p, "deleteRole")
    /\ roles' = roles \ gone
    /\ ContinueIf(p, gone # {})
    /\ UNCHANGED <<callers, nextId, keys, nextKey, task, id, todo, rows, made, counted>>

\* DeleteKey by id: the key must be one of the named caller's.
DeleteKey(p) ==
    LET gone == {k \in OwnKeys(p) : k.id = id[p]} IN
    /\ Runs(p, "deleteKey")
    /\ keys' = keys \ gone
    /\ ContinueIf(p, gone # {})
    /\ UNCHANGED <<callers, nextId, nextKey, roles, task, id, todo, rows, made, counted>>

\* RevokeKey by label: every key of the caller with that label.
RevokeLabel(p) ==
    LET gone == {k \in OwnKeys(p) : k.label = task[p].label} IN
    /\ Runs(p, "revokeLabel")
    /\ keys' = keys \ gone
    /\ ContinueIf(p, gone # {})
    /\ UNCHANGED <<callers, nextId, nextKey, roles, task, id, todo, rows, made, counted>>

-----------------------------------------------------------------------------
(* An OIDC login with auto_provision                                       *)

\* EnsureCaller has returned; the login goes on whatever it returned.
Ensured(p) == left' = [left EXCEPT ![p] = <<"selectRoles">>]

\* INSERT OR IGNORE: only the login that created the row goes on to the roles.
EnsureInsert(p) ==
    /\ Runs(p, "ensureCaller")
    /\ IF RowOf(p) = 0
       THEN /\ AddRow(NameOf(p))
            /\ made' = [made EXCEPT ![p] = NewId]
            /\ todo' = [todo EXCEPT ![p] = DefaultRoles]
            /\ Continue(p)
       ELSE /\ Ensured(p)
            /\ UNCHANGED <<callers, nextId, todo, result, made>>
    /\ UNCHANGED <<keys, nextKey, roles, task, id, rows, counted>>

\* Mutant of DefaultRole: the loop leaves the last role out.
DefaultRoleShort(p) ==
    /\ Runs(p, "defaultRole")
    /\ IF Cardinality(todo[p]) <= 1
       THEN Ensured(p) /\ UNCHANGED <<roles, todo>>
       ELSE \E r \in todo[p] :
              /\ todo' = [todo EXCEPT ![p] = @ \ {r}]
              /\ roles' = RolesWith(RowOf(p), r, NameOf(p))
              /\ UNCHANGED left
    /\ UNCHANGED <<callers, nextId, keys, nextKey, task, id, result, rows, made, counted>>

\* One default role, inserted under the id the name has now.  When there is
\* none SQLite ignores the row and Postgres refuses it, which ends EnsureCaller.
DefaultRole(p) ==
    /\ Runs(p, "defaultRole")
    /\ IF todo[p] = {}
       THEN Ensured(p) /\ UNCHANGED <<roles, todo>>
       ELSE \E r \in todo[p] :
              /\ todo' = [todo EXCEPT ![p] = @ \ {r}]
              /\ roles' = IF RowOf(p) # 0 THEN RolesWith(RowOf(p), r, NameOf(p)) ELSE roles
              /\ \/ UNCHANGED left
                 \/ RowOf(p) = 0 /\ Ensured(p)
    /\ UNCHANGED <<callers, nextId, keys, nextKey, task, id, result, rows, made, counted>>

-----------------------------------------------------------------------------
\* A statement fails (the database is locked or unreachable) or the process
\* of the command line ends: what was done stays.  The login only logs an error
\* of EnsureCaller; made = 0 records that it was not completed.  A statement that
\* waits for a connection has no deadline.
Fails(p) ==
    /\ left[p] # <<>>
    /\ ConnFree(p)
    /\ IF Head(left[p]) \in {"ensureCaller", "defaultRole"}
       THEN /\ Ensured(p)
            /\ made' = [made EXCEPT ![p] = 0]
            /\ UNCHANGED result
       ELSE Refuse(p) /\ UNCHANGED made
    /\ rows' = rows \ {p}
    /\ todo' = [todo EXCEPT ![p] = {}]
    /\ UNCHANGED <<dbVars, task, id, counted>>

Step(p) ==
    \/ SelectCaller(p) \/ SelectRest(p) \/ SelectId(p) \/ CountKeys(p) \/ PickKey(p)
    \/ OpenRows(p) \/ NextRow(p) \/ CloseRows(p)
    \/ InsertCaller(p) \/ DeleteCaller(p) \/ InsertKey(p) \/ InsertRole(p)
    \/ DeleteRole(p) \/ DeleteKey(p) \/ RevokeLabel(p)
    \/ EnsureInsert(p) \/ DefaultRole(p)
    \/ Fails(p)

Next == \E p \in Ops : Step(p)

Spec == Init /\ [][Next]_vars

\* Goroutines and processes run, and a statement that has a connection returns.
FairSpec == Spec /\ \A p \in Ops : WF_vars(Step(p))

-----------------------------------------------------------------------------
(* Properties                                                              *)

StatementNames == {"selectCaller", "selectKeys", "selectRoles", "selectId", "countKeys",
                   "pickKey", "openRows", "nextRow", "insertCaller", "deleteCaller",
                   "insertKey", "insertRole", "deleteRole", "deleteKey", "revokeLabel",
                   "ensureCaller", "defaultRole"}

\* AddKey and AssignRole look the caller up in one statement and insert in the
\* next.  Whatever happens to the caller in between, deletion and a new caller
\* included, a key authenticates the caller it was asked for, a role belongs to
\* the caller it was assigned to, and no row survives its caller.
RowsOwned ==
    \A row \in keys \union roles : callers[row.name] = row.caller

\* revoke-key and the key pages of the UI delete no key but the caller's, and
\* revoke-key none with another label, although the remote one lists the keys
\* in one request and deletes by id in another.
RevokesOnlyNamed ==
    [][\A p \in Ops : \A k \in keys \ keys' :
          /\ left'[p] # left[p]
          /\ task[p].kind \in {"revokeKey", "deleteKey"}
          => /\ k.name = NameOf(p)
             /\ task[p].kind = "revokeKey" => k.label = task[p].label]_vars

\* remove-caller without --force counts and deletes in two statements.  Keys can
\* be added in between and are lost with the caller, but no key that was there
\* when it counted is.
RemovalSparesCountedKeys ==
    [][\A p \in Ops : \A k \in keys \ keys' :
          left'[p] # left[p] /\ task[p].kind = "removeCaller" => k.id >= counted[p]]_vars

\* A caller that an OIDC login created has all default roles once EnsureCaller
\* has returned without an error, whatever logins and writes ran meanwhile,
\* unless someone takes roles away.
ProvisionedComplete ==
    \A p \in Ops :
        /\ made[p] # 0
        /\ made[p] = RowOf(p)
        /\ left[p] \in {<<"selectRoles">>, <<>>}
        /\ \A q \in Ops : task[q].kind = "unassignRole" => NameOf(q) # NameOf(p)
        => \A r \in DefaultRoles :
              \E row \in roles : row.caller = made[p] /\ row.role = r

Done(p) == left[p] = <<>>

\* With fewer concurrent ListCallers than connections, every operation returns.
PoolSuffices ==
    Cardinality({p \in Ops : task[p].kind = "listCallers"}) < MaxOpenConns
        => \A p \in Ops : <>Done(p)

-----------------------------------------------------------------------------
(* What documentation says and the code does not do                        *)

\* docs/tasks/task-17.md: "busy timeout equivalent via context.WithTimeout".
\* Every operation on the store returns, if only with an error.
StoreAnswers == \A p \in Ops : <>Done(p)
=============================================================================
