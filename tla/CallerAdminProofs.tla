------------------------- MODULE CallerAdminProofs --------------------------
(***************************************************************************)
(* Proofs about CallerAdmin, for any set of concurrent operations.         *)
(***************************************************************************)
EXTENDS CallerAdmin, FiniteSetTheorems, TLAPS

\* What is left of a login with auto_provision.
Logins == {<<"ensureCaller", "defaultRole", "selectRoles">>, <<"defaultRole", "selectRoles">>,
           <<"selectRoles">>, <<>>}

\* Writes that rely on what an earlier statement of the operation read, and
\* which kinds of operation a statement belongs to.
Shape(s, kind) ==
    /\ \A i \in 2 .. Len(s) :
          /\ s[i] \in {"insertKey", "insertRole", "deleteRole"} => s[i - 1] = "selectId"
          /\ s[i] = "deleteKey" => s[i - 1] = "pickKey"
          /\ s[i] = "deleteCaller" => s[i - 1] = "countKeys"
    /\ \A i \in 1 .. Len(s) :
          /\ s[i] = "deleteKey" => kind \in {"revokeKey", "deleteKey"}
          /\ s[i] = "revokeLabel" => kind = "revokeKey"
          /\ s[i] = "deleteCaller" => kind \in {"deleteCaller", "removeCaller"}
          /\ s[i] = "deleteRole" => kind = "unassignRole"
          /\ s[i] \in {"ensureCaller", "defaultRole"} => kind = "provision"
    /\ kind = "provision" => s \in Logins

\* What an operation may begin with.
Begins(s, kind) ==
    /\ s # <<>>
    /\ Head(s) \notin {"insertKey", "insertRole", "deleteRole"}
    /\ Head(s) = "deleteKey" => kind = "deleteKey"
    /\ Head(s) = "deleteCaller" => kind = "deleteCaller"

\* A sequence of statements that an operation of this kind may have.
Fits(s, kind) == s \in Seq(StatementNames) /\ Shape(s, kind) /\ Begins(s, kind)

\* The handlers of the API for callers run such sequences.
LEMMA CallerRequestFits ==
    ASSUME NEW t, t.kind \in {"createCaller", "deleteCaller", "getCaller", "listCallers"}
    PROVE  Fits(CallerRequest(t), t.kind)
<1>1. CASE t.kind = "createCaller"
  BY <1>1 DEF CallerRequest, Fits, StatementNames, Shape, Begins
<1>2. CASE t.kind = "deleteCaller"
  BY <1>2 DEF CallerRequest, Fits, StatementNames, Shape, Begins
<1>3. CASE t.kind = "getCaller"
  BY <1>3 DEF CallerRequest, Fits, StatementNames, Shape, Begins
<1>4. CASE t.kind = "listCallers"
  BY <1>4 DEF CallerRequest, Fits, StatementNames, Shape, Begins
<1> QED  BY <1>1, <1>2, <1>3, <1>4

\* So do those for keys.
LEMMA KeyRequestFits ==
    ASSUME NEW t, t.kind \in {"createKey", "listKeys", "deleteKey"}
    PROVE  Fits(KeyRequest(t), t.kind)
<1>1. CASE t.kind = "createKey"
  BY <1>1 DEF KeyRequest, Fits, StatementNames, Shape, Begins
<1>2. CASE t.kind = "listKeys"
  BY <1>2 DEF KeyRequest, Fits, StatementNames, Shape, Begins
<1>3. CASE t.kind = "deleteKey"
  BY <1>3 DEF KeyRequest, Fits, StatementNames, Shape, Begins
<1> QED  BY <1>1, <1>2, <1>3

\* So do those for roles.
LEMMA RoleRequestFits ==
    ASSUME NEW t, t.kind \in {"assignRole", "unassignRole"}
    PROVE  Fits(RoleRequest(t), t.kind)
<1>1. CASE t.kind = "assignRole"
  BY <1>1 DEF RoleRequest, Fits, StatementNames, Shape, Begins
<1>2. CASE t.kind = "unassignRole"
  BY <1>2 DEF RoleRequest, Fits, StatementNames, Shape, Begins
<1> QED  BY <1>1, <1>2

\* So do the pages of the UI and the local command line.
LEMMA DirectRequestFits ==
    ASSUME NEW t, t.kind \in {"createCaller", "deleteCaller", "getCaller", "listCallers",
                          "createKey", "listKeys", "deleteKey", "assignRole", "unassignRole"}
    PROVE  Fits(DirectRequest(t), t.kind)
<1>1. CASE t.kind = "createCaller"
  BY <1>1 DEF DirectRequest, Fits, StatementNames, Shape, Begins
<1>2. CASE t.kind = "deleteCaller"
  BY <1>2 DEF DirectRequest, Fits, StatementNames, Shape, Begins
<1>3. CASE t.kind = "getCaller"
  BY <1>3 DEF DirectRequest, Fits, StatementNames, Shape, Begins
<1>4. CASE t.kind = "listCallers"
  BY <1>4 DEF DirectRequest, Fits, StatementNames, Shape, Begins
<1>5. CASE t.kind = "createKey"
  BY <1>5 DEF DirectRequest, Fits, StatementNames, Shape, Begins
<1>6. CASE t.kind = "listKeys"
  BY <1>6 DEF DirectRequest, Fits, StatementNames, Shape, Begins
<1>7. CASE t.kind = "deleteKey"
  BY <1>7 DEF DirectRequest, Fits, StatementNames, Shape, Begins
<1>8. CASE t.kind = "assignRole"
  BY <1>8 DEF DirectRequest, Fits, StatementNames, Shape, Begins
<1>9. CASE t.kind = "unassignRole"
  BY <1>9 DEF DirectRequest, Fits, StatementNames, Shape, Begins
<1> QED  BY <1>1, <1>2, <1>3, <1>4, <1>5, <1>6, <1>7, <1>8, <1>9

\* remove-caller counts right before it deletes.
LEMMA RemoveCallerFits ==
    ASSUME NEW t, t.kind = "removeCaller"
    PROVE  Fits(RunRemoveCaller(t), t.kind)
<1>1. CASE ThroughApi(t)
  BY <1>1 DEF RunRemoveCaller, Fits, StatementNames, Shape, Begins
<1>2. CASE ~(ThroughApi(t))
  BY <1>2 DEF RunRemoveCaller, Fits, StatementNames, Shape, Begins
<1> QED  BY <1>1, <1>2

\* revoke-key through the API picks the key right before it deletes it.
LEMMA RevokeKeyFits ==
    ASSUME NEW t, t.kind = "revokeKey"
    PROVE  Fits(RunRevokeKey(t), t.kind)
<1>1. CASE ThroughApi(t)
  BY <1>1 DEF RunRevokeKey, Fits, StatementNames, Shape, Begins
<1>2. CASE ~(ThroughApi(t))
  BY <1>2 DEF RunRevokeKey, Fits, StatementNames, Shape, Begins
<1> QED  BY <1>1, <1>2

\* A login deletes nothing and takes no id from an earlier statement.
LEMMA LoginFits ==
    ASSUME NEW t, t.kind \in {"provision", "login"}
    PROVE  Fits(AuthenticateOIDC(t), t.kind)
<1>1. CASE t.kind = "provision"
  <2> DEFINE s == <<"ensureCaller", "defaultRole", "selectRoles">>
  <2>1. AuthenticateOIDC(t) = s /\ s \in Logins
    BY <1>1 DEF AuthenticateOIDC, Logins
  <2>2. s \in Seq(StatementNames) /\ Begins(s, t.kind)
    BY <1>1 DEF StatementNames, Begins
  <2>3. Len(s) = 3 /\ s[1] = "ensureCaller" /\ s[2] = "defaultRole" /\ s[3] = "selectRoles"
    OBVIOUS
  <2> HIDE DEF s
  <2>4. \A i \in 1 .. Len(s) : s[i] \in {"ensureCaller", "defaultRole", "selectRoles"}
    BY <2>3
  <2> QED
    BY <1>1, <2>1, <2>2, <2>4 DEF Fits, Shape
<1>2. CASE ~(t.kind = "provision")
  BY <1>2 DEF AuthenticateOIDC, Fits, StatementNames, Shape, Begins
<1> QED  BY <1>1, <1>2

\* The sequence of statements of every operation fits.
LEMMA ProgramShape ==
    ASSUME NEW t \in Task
    PROVE  Fits(Statements(t), t.kind)
<1>1. CASE t.kind = "removeCaller"
  BY <1>1, RemoveCallerFits DEF Statements
<1>2. CASE t.kind = "revokeKey"
  BY <1>2, RevokeKeyFits DEF Statements
<1>3. CASE t.kind \in {"provision", "login"}
  BY <1>3, LoginFits DEF Statements
<1>4. CASE t.kind \in {"createCaller", "deleteCaller", "getCaller", "listCallers"}
  BY <1>4, CallerRequestFits, DirectRequestFits DEF Statements
<1>5. CASE t.kind \in {"createKey", "listKeys", "deleteKey"}
  BY <1>5, KeyRequestFits, DirectRequestFits DEF Statements
<1>6. CASE t.kind \in {"assignRole", "unassignRole"}
  BY <1>6, RoleRequestFits, DirectRequestFits DEF Statements
<1> QED  BY <1>1, <1>2, <1>3, <1>4, <1>5, <1>6 DEF Task, Kinds

-----------------------------------------------------------------------------
(* The inductive invariant                                                 *)

\* Ids are handed out in increasing order and never twice.
IdsFresh ==
    /\ nextId \in Nat \ {0}
    /\ nextKey \in Nat
    /\ callers \in [Names -> Nat]
    /\ \A n \in Names : callers[n] < nextId
    /\ \A m, n \in Names : callers[m] = callers[n] /\ callers[m] # 0 => m = n
    /\ \A k \in keys : k.id \in Nat /\ k.id < nextKey
    /\ \A j, k \in keys : j.id = k.id => j = k

\* Every row belongs to the caller it was made for.
Owned ==
    /\ RowsOwned
    /\ \A row \in keys \union roles : row.name \in Names /\ row.caller # 0

\* Operations run the statements of their task in order.
Programs ==
    /\ task \in [Ops -> Task]
    /\ left \in [Ops -> Seq(StatementNames)]
    /\ id \in [Ops -> Nat]
    /\ counted \in [Ops -> Nat]
    /\ \A p \in Ops : Shape(left[p], task[p].kind)

\* What an operation learned in an earlier statement and acts on now.
HoldsCaller(p) ==
    left[p] # <<>> /\ Head(left[p]) \in {"insertKey", "insertRole", "deleteRole"} =>
        /\ id[p] # 0
        /\ id[p] < nextId
        /\ \A n \in Names : callers[n] = id[p] => n = NameOf(p)

HoldsKey(p) ==
    left[p] # <<>> /\ Head(left[p]) = "deleteKey" /\ task[p].kind = "revokeKey" =>
        /\ id[p] < nextKey
        /\ \A k \in keys : k.id = id[p] => k.label = task[p].label

HoldsCount(p) ==
    left[p] # <<>> /\ Head(left[p]) = "deleteCaller" /\ task[p].kind = "removeCaller" =>
        /\ counted[p] <= nextKey
        /\ \A k \in keys : k.name = NameOf(p) => k.id >= counted[p]

IInv ==
    /\ IdsFresh
    /\ Owned
    /\ Programs
    /\ \A p \in Ops : HoldsCaller(p) /\ HoldsKey(p) /\ HoldsCount(p)

-----------------------------------------------------------------------------
(* Lemmas                                                                  *)

\* However EnsureCaller returns, a login goes on to its roles or has ended.
LEMMA LoginTail ==
    /\ <<>> \in Logins /\ <<"selectRoles">> \in Logins
    /\ \A s \in Logins : s # <<>> => Tail(s) \in Logins
<1>1. /\ Tail(<<"ensureCaller", "defaultRole", "selectRoles">>) = <<"defaultRole", "selectRoles">>
      /\ Tail(<<"defaultRole", "selectRoles">>) = <<"selectRoles">>
      /\ Tail(<<"selectRoles">>) = <<>>
  OBVIOUS
<1> QED
  BY <1>1 DEF Logins

\* A suffix of a program has the shape of a program, and a statement that acts
\* on an earlier result comes right after the statement that read it.
LEMMA ShapeTail ==
    ASSUME NEW s \in Seq(StatementNames), s # <<>>, NEW kind, Shape(s, kind)
    PROVE  /\ Tail(s) \in Seq(StatementNames)
           /\ Shape(Tail(s), kind)
           /\ Tail(s) # <<>> =>
                 /\ Head(Tail(s)) \in {"insertKey", "insertRole", "deleteRole"} => Head(s) = "selectId"
                 /\ Head(Tail(s)) = "deleteKey" => Head(s) = "pickKey"
                 /\ Head(Tail(s)) = "deleteCaller" => Head(s) = "countKeys"
<1>1. /\ Tail(s) \in Seq(StatementNames)
      /\ Len(s) \in Nat /\ Len(s) >= 1
      /\ Len(Tail(s)) = Len(s) - 1
      /\ \A i \in 1 .. Len(Tail(s)) : Tail(s)[i] = s[i + 1]
  OBVIOUS
<1>2. Shape(Tail(s), kind)
  <2>1. ASSUME NEW i \in 2 .. Len(Tail(s))
        PROVE  /\ i + 1 \in 2 .. Len(s)
               /\ Tail(s)[i] = s[i + 1]
               /\ Tail(s)[i - 1] = s[(i + 1) - 1]
    BY <1>1
  <2>2. ASSUME NEW i \in 1 .. Len(Tail(s))
        PROVE  i + 1 \in 1 .. Len(s) /\ Tail(s)[i] = s[i + 1]
    BY <1>1
  <2>3. kind = "provision" => Tail(s) \in Logins
    BY LoginTail DEF Shape
  <2> QED
    BY <2>1, <2>2, <2>3 DEF Shape
<1>3. ASSUME Tail(s) # <<>>
      PROVE  /\ 2 \in 2 .. Len(s)
             /\ Head(Tail(s)) = s[2]
             /\ Head(s) = s[2 - 1]
  BY <1>1, <1>3
<1>4. Tail(s) # <<>> =>
         /\ Head(Tail(s)) \in {"insertKey", "insertRole", "deleteRole"} => Head(s) = "selectId"
         /\ Head(Tail(s)) = "deleteKey" => Head(s) = "pickKey"
         /\ Head(Tail(s)) = "deleteCaller" => Head(s) = "countKeys"
  BY <1>3 DEF Shape
<1> QED
  BY <1>1, <1>2, <1>4

\* How a statement may change the tables: ids only grow, and a row that is new
\* has a new id.
Grows ==
    /\ nextId' \in Nat /\ nextId' >= nextId
    /\ nextKey' \in Nat /\ nextKey' >= nextKey
    /\ \A n \in Names : callers'[n] \in Nat /\ (callers'[n] \in {callers[n], 0} \/ callers'[n] >= nextId)
    /\ \A k \in keys' : k.id \in Nat /\ (k \in keys \/ k.id >= nextKey)

Holds(q) == HoldsCaller(q) /\ HoldsKey(q) /\ HoldsCount(q)

\* What an operation learned stays true while others run.
LEMMA HeldStays ==
    ASSUME IInv, Grows, NEW q \in Ops, task' = task, left'[q] = left[q],
           id'[q] = id[q], counted'[q] = counted[q]
    PROVE  Holds(q)'
<1> USE DEF IInv, Programs, IdsFresh
<1>1. id[q] \in Nat /\ counted[q] \in Nat
  OBVIOUS
<1>2. HoldsCaller(q)'
  BY <1>1 DEF HoldsCaller, Grows, NameOf
<1>3. HoldsKey(q)'
  BY <1>1 DEF HoldsKey, Grows
<1>4. HoldsCount(q)'
  BY <1>1 DEF HoldsCount, Grows, NameOf
<1> QED
  BY <1>2, <1>3, <1>4 DEF Holds

\* After a statement that reads nothing the next one would act on.
LEMMA HeldSelf ==
    ASSUME IInv, NEW q \in Ops, left[q] # <<>>, task' = task,
           \/ left'[q] = <<>>
           \/ left'[q] = <<"selectRoles">>
           \/ /\ left'[q] = Tail(left[q])
              /\ Head(left[q]) \notin {"selectId", "pickKey", "countKeys"}
    PROVE  Holds(q)'
<1> USE DEF IInv, Programs
<1>1. left[q] \in Seq(StatementNames) /\ Shape(left[q], task[q].kind)
  OBVIOUS
<1>2. left'[q] # <<>> => Head(left'[q]) \notin {"insertKey", "insertRole", "deleteRole", "deleteKey",
                                                 "deleteCaller"}
  <2>1. CASE left'[q] = <<>> \/ left'[q] = <<"selectRoles">>
    BY <2>1
  <2>2. CASE left'[q] = Tail(left[q]) /\ Head(left[q]) \notin {"selectId", "pickKey", "countKeys"}
    BY <1>1, <2>2, ShapeTail
  <2> QED
    BY <2>1, <2>2
<1> QED
  BY <1>2 DEF Holds, HoldsCaller, HoldsKey, HoldsCount

\* The programs after a step of operation p.
LEMMA ProgramsStay ==
    ASSUME IInv, NEW p \in Ops, task' = task,
           left' = [left EXCEPT ![p] = left'[p]],
           id' \in [Ops -> Nat], counted' \in [Ops -> Nat],
           \/ left'[p] = left[p]
           \/ left'[p] = <<>>
           \/ left'[p] = <<"selectRoles">>
           \/ left[p] # <<>> /\ left'[p] = Tail(left[p])
    PROVE  Programs'
<1> USE DEF IInv, Programs
<1>1. left[p] \in Seq(StatementNames) /\ Shape(left[p], task[p].kind)
  OBVIOUS
<1>2. <<>> \in Seq(StatementNames) /\ Shape(<<>>, task[p].kind)
  BY LoginTail DEF Shape
<1>3. <<"selectRoles">> \in Seq(StatementNames) /\ Shape(<<"selectRoles">>, task[p].kind)
  <2>1. <<"selectRoles">> \in Seq(StatementNames)
    BY DEF StatementNames
  <2>2. Shape(<<"selectRoles">>, task[p].kind)
    BY LoginTail DEF Shape
  <2> QED
    BY <2>1, <2>2
<1>4. left'[p] \in Seq(StatementNames) /\ Shape(left'[p], task[p].kind)
  BY <1>1, <1>2, <1>3, ShapeTail
<1>5. left' \in [Ops -> Seq(StatementNames)]
  BY <1>4
<1>6. ASSUME NEW q \in Ops
      PROVE  Shape(left'[q], task'[q].kind)
  BY <1>4
<1> QED
  BY <1>5, <1>6

\* Statements that only read leave the tables alone.
LEMMA ReadsKeep ==
    ASSUME IInv, UNCHANGED dbVars
    PROVE  Grows /\ IdsFresh' /\ Owned'
BY DEF IInv, Grows, IdsFresh, Owned, RowsOwned, dbVars

\* A step of p that keeps the tables sound and what p learned keeps the invariant.
LEMMA StepKeeps ==
    ASSUME IInv, NEW p \in Ops, Grows, IdsFresh', Owned', Programs', Holds(p)',
           task' = task,
           \A q \in Ops \ {p} :
              left'[q] = left[q] /\ id'[q] = id[q] /\ counted'[q] = counted[q]
    PROVE  IInv'
<1>1. ASSUME NEW q \in Ops
      PROVE  Holds(q)'
  <2>1. CASE q = p
    BY <2>1
  <2>2. CASE q # p
    BY <2>2, HeldStays
  <2> QED
    BY <2>1, <2>2
<1> QED
  BY <1>1 DEF IInv, Holds

\* The ways a statement ends an operation or hands over to the next one.
LEMMA ControlKeeps ==
    ASSUME IInv, NEW p \in Ops, left[p] # <<>>, task' = task, id' = id, counted' = counted,
           Grows, IdsFresh', Owned',
           left' = [left EXCEPT ![p] = left'[p]],
           \/ left'[p] = left[p]
           \/ left'[p] = <<>>
           \/ left'[p] = <<"selectRoles">>
           \/ /\ left'[p] = Tail(left[p])
              /\ Head(left[p]) \notin {"selectId", "pickKey", "countKeys"}
    PROVE  IInv'
<1>1. id' \in [Ops -> Nat] /\ counted' \in [Ops -> Nat]
  BY DEF IInv, Programs
<1>2. Programs'
  BY <1>1, ProgramsStay
<1>3. Holds(p)'
  BY HeldSelf, HeldStays
<1>4. \A q \in Ops \ {p} : left'[q] = left[q] /\ id'[q] = id[q] /\ counted'[q] = counted[q]
  BY DEF IInv, Programs
<1> QED
  BY <1>2, <1>3, <1>4, StepKeeps

\* A statement leads to the next one or to the end of its operation.
LEMMA ControlForm ==
    ASSUME IInv, NEW p \in Ops, left[p] # <<>>,
           Continue(p) \/ Refuse(p) \/ Ensured(p) \/ left' = left
    PROVE  /\ left' = [left EXCEPT ![p] = left'[p]]
           /\ \A q \in Ops \ {p} : left'[q] = left[q]
           /\ \/ left'[p] = left[p]
              \/ left'[p] = <<>>
              \/ left'[p] = <<"selectRoles">>
              \/ left'[p] = Tail(left[p])
BY DEF IInv, Programs, Continue, Refuse, Ensured

-----------------------------------------------------------------------------
(* The invariant is inductive                                              *)

\* The initial tables and programs satisfy it.
LEMMA InitIInv == Init => IInv
<1> SUFFICES ASSUME Init
             PROVE  IInv
  OBVIOUS
<1> USE AdminAssumption
<1>1. Cardinality(Names) \in Nat
  BY FS_CardinalityType
<1>2. PICK key \in [1 .. FirstKeys -> (Names \X Labels) \union {None}] :
         /\ \A k \in 1 .. FirstKeys : key[k] # None => callers[key[k][1]] # 0
         /\ keys = {[id |-> k, caller |-> callers[key[k][1]], label |-> key[k][2],
                     name |-> key[k][1]] : k \in {k \in 1 .. FirstKeys : key[k] # None}}
  BY DEF Init
<1>3. PICK held \in SUBSET (Names \X Roles) :
         /\ \A h \in held : callers[h[1]] # 0
         /\ roles = {[caller |-> callers[h[1]], role |-> h[2], name |-> h[1]] : h \in held}
  BY DEF Init
<1>4. \A k \in keys : \E i \in 1 .. FirstKeys :
         /\ key[i] # None
         /\ k = [id |-> i, caller |-> callers[key[i][1]], label |-> key[i][2], name |-> key[i][1]]
  BY <1>2
<1>5. \A i \in 1 .. FirstKeys : key[i] # None => key[i] \in Names \X Labels /\ key[i][1] \in Names
  BY <1>2
<1>6. /\ nextId = Cardinality(Names) + 1 /\ nextKey = FirstKeys + 1
      /\ callers \in [Names -> 0 .. Cardinality(Names)]
      /\ \A m, n \in Names : m # n /\ callers[m] # 0 => callers[m] # callers[n]
  BY DEF Init
<1>7. IdsFresh
  <2>1. \A k \in keys : k.id \in Nat /\ k.id < nextKey
    BY <1>4, <1>6
  <2>2. \A j, k \in keys : j.id = k.id => j = k
    BY <1>4
  <2> QED
    BY <1>1, <1>6, <2>1, <2>2 DEF IdsFresh
<1>8. Owned
  <2>1. \A row \in keys : row.name \in Names /\ row.caller # 0 /\ callers[row.name] = row.caller
    BY <1>2, <1>4, <1>5
  <2>2. \A row \in roles : row.name \in Names /\ row.caller # 0 /\ callers[row.name] = row.caller
    BY <1>3
  <2> QED
    BY <2>1, <2>2 DEF Owned, RowsOwned
<1>9. task \in [Ops -> Task] /\ left = [p \in Ops |-> Statements(task[p])]
  BY DEF Init
<1>10. ASSUME NEW p \in Ops
       PROVE  /\ left[p] \in Seq(StatementNames)
              /\ Shape(left[p], task[p].kind)
              /\ Begins(left[p], task[p].kind)
              /\ task[p].id \in Nat
  BY <1>9, ProgramShape DEF Fits, Task
<1>11. Programs
  BY <1>9, <1>10 DEF Programs, Init
<1>12. ASSUME NEW p \in Ops
       PROVE  HoldsCaller(p) /\ HoldsKey(p) /\ HoldsCount(p)
  BY <1>10 DEF Begins, HoldsCaller, HoldsKey, HoldsCount
<1> QED
  BY <1>7, <1>8, <1>11, <1>12 DEF IInv

\* Statements that read.
LEMMA ReadSteps ==
    ASSUME IInv, NEW p \in Ops,
           \/ SelectCaller(p) \/ SelectRest(p) \/ OpenRows(p) \/ NextRow(p) \/ CloseRows(p)
           \/ Fails(p)
    PROVE  IInv'
<1>1. Grows /\ IdsFresh' /\ Owned'
  BY ReadsKeep DEF SelectCaller, SelectRest, OpenRows, NextRow, CloseRows, Fails
<1>2. task' = task /\ id' = id /\ counted' = counted /\ left[p] # <<>>
  BY DEF SelectCaller, SelectRest, OpenRows, NextRow, CloseRows, Fails, Runs
<1>3. CASE Fails(p)
  <2>1. Refuse(p) \/ Ensured(p)
    BY <1>3 DEF Fails
  <2>2. left' = [left EXCEPT ![p] = left'[p]] /\ left'[p] \in {<<>>, <<"selectRoles">>}
    BY <2>1 DEF Refuse, Ensured, IInv, Programs
  <2> QED
    BY <1>1, <1>2, <2>2, ControlKeeps
<1>4. CASE ~Fails(p)
  <2>1. Continue(p) \/ Refuse(p) \/ left' = left
    BY <1>4 DEF SelectCaller, SelectRest, OpenRows, NextRow, CloseRows, ContinueIf
  <2>2. Head(left[p]) \notin {"selectId", "pickKey", "countKeys"}
    BY <1>4 DEF SelectCaller, SelectRest, OpenRows, NextRow, CloseRows, Runs
  <2> QED
    BY <1>1, <1>2, <2>1, <2>2, ControlForm, ControlKeeps
<1> QED
  BY <1>3, <1>4

\* Statements whose result the next statement acts on.
LEMMA LearnSteps ==
    ASSUME IInv, NEW p \in Ops, SelectId(p) \/ PickKey(p) \/ CountKeys(p)
    PROVE  IInv'
<1>1. Grows /\ IdsFresh' /\ Owned'
  BY ReadsKeep DEF SelectId, PickKey, CountKeys
<1>2. /\ task' = task /\ left[p] # <<>>
      /\ Continue(p) \/ Refuse(p)
      /\ UNCHANGED dbVars
  BY DEF SelectId, PickKey, CountKeys, Runs, ContinueIf
<1>3. /\ left' = [left EXCEPT ![p] = left'[p]]
      /\ \A q \in Ops \ {p} : left'[q] = left[q]
      /\ \/ left'[p] = left[p]
         \/ left'[p] = <<>>
         \/ left'[p] = <<"selectRoles">>
         \/ left'[p] = Tail(left[p])
  BY <1>2, ControlForm
<1>4. /\ left[p] \in Seq(StatementNames) /\ Shape(left[p], task[p].kind)
      /\ id \in [Ops -> Nat] /\ counted \in [Ops -> Nat]
      /\ callers \in [Names -> Nat] /\ nextKey \in Nat
  BY DEF IInv, Programs, IdsFresh
<1>5. task[p] \in Task /\ NameOf(p) \in Names
  BY DEF IInv, Programs, Task, NameOf
<1>6. \A q \in Ops \ {p} : left'[q] = left[q] /\ id'[q] = id[q] /\ counted'[q] = counted[q]
  BY <1>3 DEF SelectId, PickKey, CountKeys, IInv, Programs
<1>7. CASE SelectId(p)
  <2>1. id' = [id EXCEPT ![p] = RowOf(p)] /\ RowOf(p) \in Nat /\ counted' = counted
    BY <1>4, <1>5, <1>7 DEF SelectId, RowOf
  <2>2. Programs'
    BY <1>2, <1>3, <1>4, <2>1, ProgramsStay
  <2>3. left'[p] = Tail(left[p]) \/ left'[p] = <<>>
    BY <1>2, <1>4 DEF Continue, Refuse, IInv, Programs
  <2>4. left'[p] # <<>> => Head(left'[p]) \notin {"deleteKey", "deleteCaller"}
    BY <1>2, <1>4, <1>7, <2>3, ShapeTail DEF SelectId, Runs
  <2>5. left'[p] # <<>> => RowOf(p) # 0
    BY <1>7, <1>4 DEF SelectId, ContinueIf, Refuse, IInv, Programs
  <2>6. HoldsCaller(p)'
    BY <1>2, <1>4, <1>5, <2>1, <2>5 DEF HoldsCaller, IInv, IdsFresh, RowOf, NameOf, dbVars, Programs
  <2>7. Holds(p)'
    BY <2>4, <2>6 DEF Holds, HoldsKey, HoldsCount
  <2> QED
    BY <1>1, <1>2, <1>6, <2>2, <2>7, StepKeeps
<1>8. CASE PickKey(p)
  <2> DEFINE labelled == {k.id : k \in {k \in OwnKeys(p) : k.label = task[p].label}}
  <2>1. \A j \in labelled : j \in Nat /\ \E k \in keys : k.id = j /\ k.label = task[p].label
    BY DEF OwnKeys, IInv, IdsFresh
  <2>2. /\ id' = id \/ \E j \in labelled : id' = [id EXCEPT ![p] = j]
        /\ left'[p] # <<>> => \E j \in labelled : id'[p] = j
    <3>1. CASE Refuse(p) /\ UNCHANGED id
      BY <1>4, <3>1 DEF Refuse, IInv, Programs
    <3>2. CASE \E first \in labelled : id' = [id EXCEPT ![p] = first]
      BY <1>4, <3>2
    <3> QED
      BY <1>8, <3>1, <3>2 DEF PickKey
  <2> HIDE DEF labelled
  <2>3. id' \in [Ops -> Nat] /\ counted' = counted
    BY <1>4, <1>8, <2>1, <2>2 DEF PickKey
  <2>4. Programs'
    BY <1>2, <1>3, <1>4, <2>3, ProgramsStay
  <2>5. left'[p] = Tail(left[p]) \/ left'[p] = <<>>
    BY <1>2, <1>4 DEF Continue, Refuse, IInv, Programs
  <2>6. left'[p] # <<>> => Head(left'[p]) \notin {"insertKey", "insertRole", "deleteRole", "deleteCaller"}
    BY <1>2, <1>4, <1>8, <2>5, ShapeTail DEF PickKey, Runs
  <2>7. HoldsKey(p)'
    BY <1>2, <2>1, <2>2 DEF HoldsKey, IInv, IdsFresh, dbVars
  <2>8. Holds(p)'
    BY <2>6, <2>7 DEF Holds, HoldsCaller, HoldsCount
  <2> QED
    BY <1>1, <1>2, <1>6, <2>4, <2>8, StepKeeps
<1>9. CASE CountKeys(p)
  <2>1. counted' = [counted EXCEPT ![p] = nextKey] /\ id' = id
    BY <1>9 DEF CountKeys
  <2>2. Programs'
    BY <1>2, <1>3, <1>4, <2>1, ProgramsStay
  <2>3. left'[p] = Tail(left[p]) \/ left'[p] = <<>>
    BY <1>2, <1>4 DEF Continue, Refuse, IInv, Programs
  <2>4. left'[p] # <<>> => Head(left'[p]) \notin {"insertKey", "insertRole", "deleteRole", "deleteKey"}
    BY <1>2, <1>4, <1>9, <2>3, ShapeTail DEF CountKeys, Runs
  <2>5. left'[p] # <<>> => OwnKeys(p) = {}
    BY <1>9, <1>4 DEF CountKeys, ContinueIf, Refuse, IInv, Programs
  <2>6. OwnKeys(p) = {} => \A k \in keys : k.name # NameOf(p)
    BY DEF OwnKeys, RowOf, IInv, Owned, RowsOwned
  <2>7. HoldsCount(p)'
    BY <1>2, <1>4, <2>1, <2>5, <2>6 DEF HoldsCount, NameOf, dbVars, IInv, Programs
  <2>8. Holds(p)'
    BY <2>4, <2>7 DEF Holds, HoldsCaller, HoldsKey
  <2> QED
    BY <1>1, <1>2, <1>6, <2>2, <2>8, StepKeeps
<1> QED
  BY <1>7, <1>8, <1>9

\* Statements that take rows away: keys and roles only shrink, and a caller
\* goes with all of its rows.
LEMMA DeleteSteps ==
    ASSUME IInv, NEW p \in Ops,
           DeleteCaller(p) \/ DeleteRole(p) \/ DeleteKey(p) \/ RevokeLabel(p)
    PROVE  IInv'
<1>1. /\ task' = task /\ id' = id /\ counted' = counted /\ left[p] # <<>>
      /\ Continue(p) \/ Refuse(p)
      /\ nextId' = nextId /\ nextKey' = nextKey
      /\ keys' \subseteq keys /\ roles' \subseteq roles
      /\ Head(left[p]) \notin {"selectId", "pickKey", "countKeys"}
  BY DEF DeleteCaller, DeleteRole, DeleteKey, RevokeLabel, Runs, ContinueIf
<1>2. NameOf(p) \in Names
  BY DEF IInv, Programs, Task, NameOf
<1>3. CASE DeleteCaller(p)
  <2>1. /\ callers' = [callers EXCEPT ![NameOf(p)] = 0]
        /\ keys' = keys \ OwnKeys(p)
        /\ roles' = {r \in roles : r.caller # RowOf(p)}
    BY <1>3 DEF DeleteCaller
  <2>2. Grows /\ IdsFresh'
    BY <1>1, <1>2, <2>1 DEF IInv, IdsFresh, Grows
  <2>3. Owned'
    BY <1>1, <1>2, <2>1 DEF IInv, IdsFresh, Owned, RowsOwned, OwnKeys, RowOf
  <2> QED
    BY <1>1, <2>2, <2>3, ControlForm, ControlKeeps
<1>4. CASE callers' = callers
  <2>1. Grows /\ IdsFresh' /\ Owned'
    BY <1>1, <1>4 DEF IInv, IdsFresh, Grows, Owned, RowsOwned
  <2> QED
    BY <1>1, <2>1, ControlForm, ControlKeeps
<1> QED
  BY <1>3, <1>4 DEF DeleteRole, DeleteKey, RevokeLabel

\* A new caller has an id no operation and no row has.
LEMMA AddRowKeeps ==
    ASSUME IInv, NEW n \in Names, callers[n] = 0, AddRow(n), UNCHANGED <<keys, nextKey, roles>>
    PROVE  Grows /\ IdsFresh' /\ Owned'
<1>1. callers' = [callers EXCEPT ![n] = nextId] /\ nextId' = nextId + 1
  BY DEF AddRow, NewId
<1>2. Grows /\ IdsFresh'
  BY <1>1 DEF IInv, IdsFresh, Grows
<1>3. Owned'
  BY <1>1 DEF IInv, IdsFresh, Owned, RowsOwned
<1> QED
  BY <1>2, <1>3

\* The statements that insert a caller.
LEMMA InsertCallerSteps ==
    ASSUME IInv, NEW p \in Ops, InsertCaller(p) \/ EnsureInsert(p)
    PROVE  IInv'
<1>1. /\ task' = task /\ id' = id /\ counted' = counted /\ left[p] # <<>>
      /\ Continue(p) \/ Refuse(p) \/ Ensured(p)
      /\ UNCHANGED <<keys, nextKey, roles>>
      /\ (RowOf(p) = 0 /\ AddRow(NameOf(p))) \/ UNCHANGED <<callers, nextId>>
      /\ Head(left[p]) \notin {"selectId", "pickKey", "countKeys"}
  BY DEF InsertCaller, EnsureInsert, Runs, ContinueIf
<1>2. NameOf(p) \in Names
  BY DEF IInv, Programs, Task, NameOf
<1>3. Grows /\ IdsFresh' /\ Owned'
  BY <1>1, <1>2, AddRowKeeps, ReadsKeep DEF RowOf, dbVars
<1> QED
  BY <1>1, <1>3, ControlForm, ControlKeeps

\* The statement that inserts a key: the id it holds is the caller's, or no
\* caller's any more.
LEMMA InsertKeyStep ==
    ASSUME IInv, NEW p \in Ops, InsertKey(p)
    PROVE  IInv'
<1>1. /\ task' = task /\ id' = id /\ counted' = counted /\ left[p] # <<>>
      /\ Continue(p) \/ Refuse(p)
      /\ UNCHANGED <<callers, nextId, roles>>
      /\ nextKey' = nextKey + 1
      /\ Head(left[p]) = "insertKey"
  BY DEF InsertKey, Runs, ContinueIf
<1>2. NameOf(p) \in Names
  BY DEF IInv, Programs, Task, NameOf
<1> DEFINE row == [id |-> nextKey, caller |-> id[p], label |-> task[p].label, name |-> NameOf(p)]
<1>3. keys' = keys \/ (Stored(id[p]) /\ keys' = keys \union {row})
  <2>1. keys' = IF Stored(id[p]) THEN keys \union {row} ELSE keys
    BY DEF InsertKey, NewKeyId
  <2> HIDE DEF row
  <2>2. CASE Stored(id[p])
    BY <2>1, <2>2
  <2>3. CASE ~Stored(id[p])
    BY <2>1, <2>3
  <2> QED
    BY <2>2, <2>3
<1>4. row.id = nextKey /\ row.caller = id[p] /\ row.name = NameOf(p)
  OBVIOUS
<1> HIDE DEF row
<1>5. Stored(id[p]) => callers[NameOf(p)] = id[p] /\ id[p] # 0
  BY <1>1, <1>2 DEF IInv, HoldsCaller, Stored
<1>6. Grows
  BY <1>1, <1>3, <1>4 DEF IInv, IdsFresh, Grows
<1>7. IdsFresh'
  BY <1>1, <1>3, <1>4 DEF IInv, IdsFresh
<1>8. Owned'
  BY <1>1, <1>2, <1>3, <1>4, <1>5 DEF IInv, Owned, RowsOwned
<1> QED
  BY <1>1, <1>6, <1>7, <1>8, ControlForm, ControlKeeps

\* The statements that insert a role.
LEMMA InsertRoleSteps ==
    ASSUME IInv, NEW p \in Ops, InsertRole(p) \/ DefaultRole(p)
    PROVE  IInv'
<1>1. /\ task' = task /\ id' = id /\ counted' = counted /\ left[p] # <<>>
      /\ Continue(p) \/ Refuse(p) \/ Ensured(p) \/ left' = left
      /\ UNCHANGED <<callers, nextId, keys, nextKey>>
      /\ Head(left[p]) \in {"insertRole", "defaultRole"}
  BY DEF InsertRole, DefaultRole, Runs, ContinueIf
<1>2. NameOf(p) \in Names
  BY DEF IInv, Programs, Task, NameOf
<1>3. \/ roles' = roles
      \/ \E c, r : /\ callers[NameOf(p)] = c /\ c # 0
                  /\ roles' = RolesWith(c, r, NameOf(p))
  <2>1. CASE InsertRole(p)
    <3>1. Head(left[p]) = "insertRole" /\ left[p] # <<>>
      BY <2>1 DEF InsertRole, Runs
    <3>2. Stored(id[p]) => callers[NameOf(p)] = id[p] /\ id[p] # 0
      BY <1>2, <3>1 DEF IInv, HoldsCaller, Stored
    <3> QED
      BY <2>1, <3>2 DEF InsertRole
  <2>2. CASE DefaultRole(p)
    BY <2>2 DEF DefaultRole, RowOf
  <2> QED
    BY <2>1, <2>2
<1>4. Grows /\ IdsFresh'
  BY <1>1 DEF IInv, IdsFresh, Grows
<1>5. Owned'
  <2>1. CASE roles' = roles
    BY <1>1, <2>1 DEF IInv, Owned, RowsOwned
  <2>2. ASSUME NEW c, NEW r, callers[NameOf(p)] = c, c # 0,
               roles' = RolesWith(c, r, NameOf(p))
        PROVE  Owned'
    <3> DEFINE row == [caller |-> c, role |-> r, name |-> NameOf(p)]
    <3>1. roles' = roles \/ roles' = roles \union {row}
      BY <2>2 DEF RolesWith
    <3>2. row.caller = c /\ row.name = NameOf(p)
      OBVIOUS
    <3> HIDE DEF row
    <3> QED
      BY <1>1, <1>2, <2>2, <3>1, <3>2 DEF IInv, Owned, RowsOwned
  <2> QED
    BY <1>3, <2>1, <2>2
<1> QED
  BY <1>1, <1>4, <1>5, ControlForm, ControlKeeps

\* Every step preserves the invariant.
LEMMA NextIInv == IInv /\ [Next]_vars => IInv'
<1> SUFFICES ASSUME IInv, [Next]_vars
             PROVE  IInv'
  OBVIOUS
<1>1. CASE UNCHANGED vars
  <2>1. /\ callers' = callers /\ nextId' = nextId /\ keys' = keys /\ nextKey' = nextKey
        /\ roles' = roles /\ task' = task /\ left' = left /\ id' = id /\ counted' = counted
    BY <1>1 DEF vars
  <2> QED
    BY <2>1 DEF IInv, IdsFresh, Owned, RowsOwned, Programs, HoldsCaller, HoldsKey,
                HoldsCount, NameOf
<1>2. ASSUME NEW p \in Ops, Step(p)
      PROVE  IInv'
  BY <1>2, ReadSteps, LearnSteps, DeleteSteps, InsertCallerSteps, InsertKeyStep,
     InsertRoleSteps DEF Step
<1> QED
  BY <1>1, <1>2 DEF Next

-----------------------------------------------------------------------------
(* Which statements take keys away                                         *)

\* A step of an operation moves no other one.
LEMMA OthersStay ==
    ASSUME IInv, NEW p \in Ops, Step(p), NEW q \in Ops, q # p
    PROVE  left'[q] = left[q]
<1>1. \/ left' = left
      \/ Continue(p)
      \/ Refuse(p)
      \/ Ensured(p)
  BY DEF Step, SelectCaller, SelectRest, SelectId, CountKeys, PickKey, OpenRows, NextRow,
         CloseRows, InsertCaller, DeleteCaller, InsertKey, InsertRole, DeleteRole, DeleteKey,
         RevokeLabel, EnsureInsert, DefaultRole, Fails, ContinueIf
<1> QED
  BY <1>1 DEF Continue, Refuse, Ensured, IInv, Programs

\* Keys go by one of three statements, and only keys of the named caller.
LEMMA KeyGone ==
    ASSUME IInv, NEW p \in Ops, Step(p), NEW k \in keys \ keys'
    PROVE  /\ k.name = NameOf(p)
           /\ \/ DeleteCaller(p)
              \/ DeleteKey(p) /\ k.id = id[p]
              \/ RevokeLabel(p) /\ k.label = task[p].label
<1>1. DeleteCaller(p) \/ DeleteKey(p) \/ RevokeLabel(p)
  BY DEF Step, SelectCaller, SelectRest, SelectId, CountKeys, PickKey, OpenRows, NextRow,
         CloseRows, InsertCaller, InsertKey, InsertRole, DeleteRole,
         EnsureInsert, DefaultRole, Fails, dbVars
<1>2. k \in OwnKeys(p)
  BY <1>1 DEF DeleteCaller, DeleteKey, RevokeLabel
<1>3. k.caller = callers[NameOf(p)] /\ callers[NameOf(p)] # 0 /\ NameOf(p) \in Names
  BY <1>2 DEF OwnKeys, RowOf, NameOf, IInv, Programs, Task
<1>4. k.name = NameOf(p)
  BY <1>3 DEF IInv, IdsFresh, Owned, RowsOwned
<1> QED
  BY <1>1, <1>4 DEF DeleteKey, RevokeLabel

-----------------------------------------------------------------------------
(* A provisioned caller has its roles                                      *)

Unassigned(n) == \E q \in Ops : task[q].kind = "unassignRole" /\ NameOf(q) = n
Inserting(p) == left[p] = <<"defaultRole", "selectRoles">>

\* Only a login past its first statement has made a row.
MadeIsOld(p) ==
    /\ made[p] \in Nat /\ made[p] < nextId
    /\ made[p] # 0 => task[p].kind = "provision" /\ left[p] \in {<<"defaultRole", "selectRoles">>,
                                                              <<"selectRoles">>, <<>>}

\* While the row it made is there, a login has inserted every role it is not still to
\* insert.
Provisioned(p) ==
    made[p] # 0 /\ made[p] = RowOf(p) /\ ~Unassigned(NameOf(p)) =>
        \A r \in DefaultRoles :
            \/ Inserting(p) /\ r \in todo[p]
            \/ \E row \in roles : row.caller = made[p] /\ row.role = r

ProvInv ==
    /\ todo = [p \in Ops |-> todo[p]]
    /\ made = [p \in Ops |-> made[p]]
    /\ \A p \in Ops : MadeIsOld(p) /\ Provisioned(p)

\* An id that was handed out is not handed out again.
LEMMA RowsMove ==
    ASSUME IInv, NEW p \in Ops, Step(p)
    PROVE  /\ task' = task
           /\ nextId' \in Nat /\ nextId <= nextId'
           /\ \A n \in Names : callers'[n] \in {callers[n], 0} \/ callers'[n] = nextId
<1>1. task' = task
  BY DEF Step, SelectCaller, SelectRest, SelectId, CountKeys, PickKey, OpenRows, NextRow,
         CloseRows, InsertCaller, DeleteCaller, InsertKey, InsertRole, DeleteRole, DeleteKey,
         RevokeLabel, EnsureInsert, DefaultRole, Fails
<1>2. \/ UNCHANGED <<callers, nextId>>
      \/ AddRow(NameOf(p))
      \/ callers' = [callers EXCEPT ![NameOf(p)] = 0] /\ nextId' = nextId
  BY DEF Step, SelectCaller, SelectRest, SelectId, CountKeys, PickKey, OpenRows, NextRow,
         CloseRows, InsertCaller, DeleteCaller, InsertKey, InsertRole, DeleteRole, DeleteKey,
         RevokeLabel, EnsureInsert, DefaultRole, Fails, dbVars
<1> QED
  BY <1>1, <1>2 DEF AddRow, NewId, IInv, IdsFresh

\* The roles of a caller go with the caller, or by an unassignRole for its name.
LEMMA RolesSpared ==
    ASSUME IInv, NEW p \in Ops, Step(p), NEW n \in Names,
           callers'[n] # 0, callers'[n] = callers[n], ~Unassigned(n),
           NEW row \in roles, row.caller = callers[n]
    PROVE  row \in roles'
<1>1. CASE DeleteCaller(p)
  <2>1. NameOf(p) \in Names /\ callers \in [Names -> Nat]
    BY DEF IInv, Programs, Task, NameOf, IdsFresh
  <2>2. /\ callers' = [callers EXCEPT ![NameOf(p)] = 0]
        /\ roles' = {r \in roles : r.caller # RowOf(p)}
    BY <1>1 DEF DeleteCaller
  <2>3. n # NameOf(p)
    BY <2>1, <2>2
  <2>4. callers[n] # RowOf(p)
    BY <2>1, <2>3 DEF RowOf, IInv, IdsFresh
  <2> QED
    BY <2>2, <2>4
<1>2. CASE DeleteRole(p)
  <2>1. left[p] \in Seq(StatementNames) /\ left[p] # <<>> /\ Head(left[p]) = "deleteRole"
    BY <1>2 DEF DeleteRole, Runs, IInv, Programs
  <2>2. 1 \in 1 .. Len(left[p]) /\ left[p][1] = "deleteRole"
    BY <2>1
  <2>3. task[p].kind = "unassignRole"
    BY <2>2 DEF IInv, Programs, Shape
  <2>4. n # NameOf(p)
    BY <2>3 DEF Unassigned
  <2>5. id[p] # callers[n]
    BY <2>1, <2>4 DEF IInv, HoldsCaller
  <2> QED
    BY <1>2, <2>5 DEF DeleteRole
<1>3. CASE ~DeleteCaller(p) /\ ~DeleteRole(p)
  BY <1>3 DEF Step, SelectCaller, SelectRest, SelectId, CountKeys, PickKey, OpenRows, NextRow,
         CloseRows, InsertCaller, InsertKey, InsertRole, DeleteKey,
         RevokeLabel, EnsureInsert, DefaultRole, Fails, dbVars, RolesWith
<1> QED
  BY <1>1, <1>2, <1>3

\* A login that the step does not move, or that is done with its roles, stays provisioned.
LEMMA ProvisionedStays ==
    ASSUME IInv, ProvInv, NEW p \in Ops, Step(p), NEW q \in Ops, made'[q] = made[q],
           made[q] # 0 => \/ left'[q] = left[q] /\ todo'[q] = todo[q]
                          \/ left[q] = <<"selectRoles">> /\ left'[q] = <<>>
    PROVE  MadeIsOld(q)' /\ Provisioned(q)'
<1>1. /\ task' = task /\ nextId' \in Nat /\ nextId <= nextId' /\ nextId \in Nat
      /\ NameOf(q) \in Names
  BY RowsMove DEF IInv, IdsFresh, Programs, Task, NameOf
<1>2. MadeIsOld(q)'
  BY <1>1 DEF ProvInv, MadeIsOld
<1>3. ASSUME made'[q] # 0, made'[q] = RowOf(q)', ~Unassigned(NameOf(q))',
             NEW r \in DefaultRoles
      PROVE  \/ Inserting(q)' /\ r \in todo'[q]
             \/ \E row \in roles' : row.caller = made'[q] /\ row.role = r
  <2>1. ~Unassigned(NameOf(q)) /\ made[q] = callers'[NameOf(q)] /\ made[q] # 0
    BY <1>1, <1>3 DEF Unassigned, NameOf, RowOf
  <2>2. made[q] = RowOf(q)
    BY <1>1, <2>1, RowsMove DEF ProvInv, MadeIsOld, RowOf
  <2>3. CASE Inserting(q) /\ r \in todo[q]
    <3>1. left[q] # <<"selectRoles">>
      BY <2>3 DEF Inserting
    <3> QED
      BY <2>1, <2>3, <3>1 DEF Inserting
  <2>4. ASSUME NEW row \in roles, row.caller = made[q], row.role = r
        PROVE  \E x \in roles' : x.caller = made'[q] /\ x.role = r
    <3>1. row \in roles'
      BY <1>1, <2>1, <2>2, <2>4, RolesSpared DEF RowOf
    <3> QED
      BY <2>4, <3>1
  <2> QED
    BY <2>1, <2>2, <2>3, <2>4 DEF ProvInv, Provisioned
<1>4. Provisioned(q)'
  BY <1>3 DEF Provisioned
<1> QED
  BY <1>2, <1>4

\* The first statement of a login.
LEMMA EnsureInsertProvisions ==
    ASSUME IInv, ProvInv, NEW p \in Ops, EnsureInsert(p)
    PROVE  MadeIsOld(p)' /\ Provisioned(p)'
<1>1. left[p] \in Seq(StatementNames) /\ left[p] # <<>> /\ Head(left[p]) = "ensureCaller"
  BY DEF EnsureInsert, Runs, IInv, Programs
<1>2. 1 \in 1 .. Len(left[p]) /\ left[p][1] = "ensureCaller"
  BY <1>1
<1>3. task[p].kind = "provision" /\ left[p] \in Logins
  BY <1>2 DEF IInv, Programs, Shape
<1>4. /\ Head(<<"defaultRole", "selectRoles">>) = "defaultRole"
      /\ Head(<<"selectRoles">>) = "selectRoles"
  OBVIOUS
<1>5. left[p] = <<"ensureCaller", "defaultRole", "selectRoles">>
  BY <1>1, <1>3, <1>4 DEF Logins
<1>6. made[p] = 0
  BY <1>1, <1>4 DEF ProvInv, MadeIsOld
<1>7. CASE RowOf(p) = 0
  <2>1. /\ left' = [left EXCEPT ![p] = Tail(@)]
        /\ made' = [made EXCEPT ![p] = nextId] /\ nextId' = nextId + 1
        /\ todo' = [todo EXCEPT ![p] = DefaultRoles] /\ task' = task
    BY <1>7 DEF EnsureInsert, AddRow, NewId, Continue
  <2>2. left'[p] = <<"defaultRole", "selectRoles">>
    BY <1>5, <2>1 DEF IInv, Programs
  <2>3. made'[p] = nextId /\ todo'[p] = DefaultRoles
    BY <2>1 DEF ProvInv
  <2>4. MadeIsOld(p)'
    <3>1. made'[p] \in Nat /\ made'[p] < nextId'
      BY <2>1, <2>3 DEF IInv, IdsFresh
    <3>2. task'[p].kind = "provision"
      BY <1>3, <2>1
    <3> QED
      BY <2>2, <3>1, <3>2 DEF MadeIsOld
  <2>5. Provisioned(p)'
    BY <2>2, <2>3 DEF Provisioned, Inserting
  <2> QED
    BY <2>4, <2>5
<1>8. CASE RowOf(p) # 0
  <2>1. made' = made
    BY <1>8 DEF EnsureInsert
  <2> QED
    BY <1>6, <2>1, ProvisionedStays DEF Step
<1> QED
  BY <1>7, <1>8

\* A default role is inserted under the id the name has, which is the one the login made
\* if the caller is still that one.
LEMMA DefaultRoleProvisions ==
    ASSUME IInv, ProvInv, NEW p \in Ops, DefaultRole(p)
    PROVE  MadeIsOld(p)' /\ Provisioned(p)'
<1>1. left[p] \in Seq(StatementNames) /\ left[p] # <<>> /\ Head(left[p]) = "defaultRole"
  BY DEF DefaultRole, Runs, IInv, Programs
<1>2. /\ UNCHANGED <<callers, nextId, task, made>>
      /\ left' = left \/ Ensured(p)
  BY DEF DefaultRole
<1>3. left'[p] \in {left[p], <<"selectRoles">>}
  BY <1>2 DEF Ensured, IInv, Programs
<1>4. MadeIsOld(p)'
  BY <1>2, <1>3 DEF ProvInv, MadeIsOld
<1>5. ASSUME made[p] # 0, made[p] = RowOf(p), ~Unassigned(NameOf(p)), NEW r \in DefaultRoles
      PROVE  \/ Inserting(p)' /\ r \in todo'[p]
             \/ \E row \in roles' : row.caller = made[p] /\ row.role = r
  <2>1. CASE todo[p] = {}
    <3>1. roles' = roles
      BY <2>1 DEF DefaultRole
    <3> QED
      BY <1>5, <2>1, <3>1 DEF ProvInv, Provisioned
  <2>2. CASE todo[p] # {}
    <3>1. PICK x \in todo[p] :
            /\ todo' = [todo EXCEPT ![p] = @ \ {x}]
            /\ roles' = RolesWith(RowOf(p), x, NameOf(p))
            /\ left' = left
      BY <1>5, <2>2 DEF DefaultRole
    <3>2. roles \subseteq roles' /\ \E row \in roles' : row.caller = made[p] /\ row.role = x
      <4> DEFINE new == [caller |-> RowOf(p), role |-> x, name |-> NameOf(p)]
      <4>1. new.caller = RowOf(p) /\ new.role = x
        OBVIOUS
      <4>2. \/ roles' = roles /\ \E row \in roles : row.caller = RowOf(p) /\ row.role = x
            \/ roles' = roles \union {new}
        BY <3>1 DEF RolesWith
      <4> HIDE DEF new
      <4> QED
        BY <1>5, <4>1, <4>2
    <3>3. todo'[p] = todo[p] \ {x}
      BY <3>1 DEF ProvInv
    <3>4. CASE r = x
      BY <3>2, <3>4
    <3>5. CASE r # x
      BY <1>5, <3>1, <3>2, <3>3, <3>5 DEF ProvInv, Provisioned, Inserting
    <3> QED
      BY <3>4, <3>5
  <2> QED
    BY <2>1, <2>2
<1>6. RowOf(p)' = RowOf(p) /\ (Unassigned(NameOf(p))' <=> Unassigned(NameOf(p))) /\ made' = made
  BY <1>2 DEF RowOf, NameOf, Unassigned
<1>7. Provisioned(p)'
  BY <1>5, <1>6 DEF Provisioned
<1> QED
  BY <1>4, <1>7

\* The other statements of a login run once EnsureCaller has returned.
LEMMA RestProvisions ==
    ASSUME IInv, ProvInv, NEW p \in Ops, Step(p), ~EnsureInsert(p), ~DefaultRole(p)
    PROVE  MadeIsOld(p)' /\ Provisioned(p)'
<1>1. /\ Head(<<"defaultRole", "selectRoles">>) = "defaultRole"
      /\ Head(<<"selectRoles">>) = "selectRoles" /\ Tail(<<"selectRoles">>) = <<>>
  OBVIOUS
<1>2. made[p] # 0 => left[p] \in {<<"defaultRole", "selectRoles">>, <<"selectRoles">>, <<>>}
  BY DEF ProvInv, MadeIsOld
<1>3. CASE Fails(p) /\ Head(left[p]) \in {"ensureCaller", "defaultRole"}
  <2>1. made'[p] = 0 /\ nextId' = nextId
    BY <1>3 DEF Fails, ProvInv, dbVars
  <2> QED
    BY <2>1 DEF MadeIsOld, Provisioned, IInv, IdsFresh
<1>4. CASE Fails(p) /\ Head(left[p]) \notin {"ensureCaller", "defaultRole"}
  <2>1. made' = made /\ left[p] # <<>> /\ left' = [left EXCEPT ![p] = <<>>]
    BY <1>4 DEF Fails, Refuse
  <2>2. left'[p] = <<>>
    BY <2>1 DEF IInv, Programs
  <2>3. made[p] # 0 => left[p] = <<"selectRoles">>
    BY <1>1, <1>2, <1>4, <2>1
  <2> QED
    BY <2>1, <2>2, <2>3, ProvisionedStays
<1>5. CASE SelectRest(p)
  <2>1. /\ made' = made /\ left[p] # <<>> /\ left' = [left EXCEPT ![p] = Tail(@)]
        /\ Head(left[p]) \in {"selectKeys", "selectRoles"}
    BY <1>5 DEF SelectRest, Runs, Continue
  <2>2. left'[p] = Tail(left[p])
    BY <2>1 DEF IInv, Programs
  <2>3. made[p] # 0 => left[p] = <<"selectRoles">>
    BY <1>1, <1>2, <2>1
  <2> QED
    BY <1>1, <2>1, <2>2, <2>3, ProvisionedStays
<1>6. CASE ~Fails(p) /\ ~SelectRest(p)
  <2>1. /\ made' = made
        /\ \/ left[p] = <<"nextRow">>
           \/ left[p] # <<>> /\ Head(left[p]) \notin {"defaultRole", "selectRoles"}
    <3>1. CASE CloseRows(p)
      BY <3>1 DEF CloseRows
    <3>2. CASE SelectCaller(p) \/ SelectId(p) \/ CountKeys(p) \/ PickKey(p) \/ OpenRows(p)
               \/ NextRow(p)
      BY <3>2 DEF SelectCaller, SelectId, CountKeys, PickKey, OpenRows, NextRow, Runs
    <3>3. CASE InsertCaller(p) \/ DeleteCaller(p) \/ InsertKey(p) \/ InsertRole(p)
               \/ DeleteRole(p) \/ DeleteKey(p) \/ RevokeLabel(p)
      BY <3>3 DEF InsertCaller, DeleteCaller, InsertKey, InsertRole, DeleteRole, DeleteKey,
                  RevokeLabel, Runs
    <3> QED
      BY <1>6, <3>1, <3>2, <3>3 DEF Step
  <2>2. Head(<<"nextRow">>) = "nextRow" /\ <<"nextRow">> # <<>>
    OBVIOUS
  <2>3. made[p] = 0
    BY <1>1, <1>2, <2>1, <2>2
  <2> QED
    BY <2>1, <2>3, ProvisionedStays
<1> QED
  BY <1>3, <1>4, <1>5, <1>6

\* Every step preserves the second invariant, which rests on the first.
LEMMA NextProvInv == IInv /\ ProvInv /\ [Next]_vars => ProvInv'
<1> SUFFICES ASSUME IInv, ProvInv, [Next]_vars
             PROVE  ProvInv'
  OBVIOUS
<1>1. CASE UNCHANGED vars
  BY <1>1 DEF vars, ProvInv, MadeIsOld, Provisioned, Unassigned, Inserting, RowOf, NameOf
<1>2. ASSUME NEW p \in Ops, Step(p)
      PROVE  ProvInv'
  <2>1. /\ made' = made \/ \E x : made' = [made EXCEPT ![p] = x]
        /\ todo' = todo \/ \E x : todo' = [todo EXCEPT ![p] = x]
    BY <1>2 DEF Step, SelectCaller, SelectRest, SelectId, CountKeys, PickKey, OpenRows, NextRow,
         CloseRows, InsertCaller, DeleteCaller, InsertKey, InsertRole, DeleteRole, DeleteKey,
         RevokeLabel, EnsureInsert, DefaultRole, Fails
  <2>2. /\ made' = [q \in Ops |-> made'[q]] /\ todo' = [q \in Ops |-> todo'[q]]
        /\ \A q \in Ops \ {p} : made'[q] = made[q] /\ todo'[q] = todo[q]
    BY <2>1 DEF ProvInv
  <2>3. ASSUME NEW q \in Ops
        PROVE  MadeIsOld(q)' /\ Provisioned(q)'
    <3>1. CASE q # p
      BY <1>2, <2>2, <3>1, OthersStay, ProvisionedStays
    <3>2. CASE q = p
      BY <1>2, <3>2, EnsureInsertProvisions, DefaultRoleProvisions, RestProvisions
    <3> QED
      BY <3>1, <3>2
  <2> QED
    BY <2>2, <2>3 DEF ProvInv
<1> QED
  BY <1>1, <1>2 DEF Next

-----------------------------------------------------------------------------
(* Theorems                                                                *)

\* A key authenticates the caller it was asked for and a role belongs to the
\* caller it was assigned to, however the statements of AddKey, AssignRole,
\* DeleteCaller, AddCaller and EnsureCaller interleave, for any number of
\* concurrent operations, callers, keys and connections.
THEOREM RowsOwnedAlways == Spec => []RowsOwned
<1>1. IInv => RowsOwned
  BY DEF IInv, Owned
<1> QED
  BY <1>1, InitIInv, NextIInv, PTL DEF Spec

\* The two-request revoke-key of the remote command line, the one-statement one
\* of the local command line, and DeleteKey delete no key of another caller,
\* and revoke-key none with another label.
THEOREM RevokesOnlyNamedAlways == Spec => RevokesOnlyNamed
<1> DEFINE Right == \A p \in Ops : \A k \in keys \ keys' :
          /\ left'[p] # left[p]
          /\ task[p].kind \in {"revokeKey", "deleteKey"}
          => /\ k.name = NameOf(p)
             /\ task[p].kind = "revokeKey" => k.label = task[p].label
<1>1. ASSUME IInv, NEW q \in Ops, Step(q)
      PROVE  Right
  <2> SUFFICES ASSUME NEW p \in Ops, NEW k \in keys \ keys', left'[p] # left[p],
                      task[p].kind \in {"revokeKey", "deleteKey"}
               PROVE  /\ k.name = NameOf(p)
                      /\ task[p].kind = "revokeKey" => k.label = task[p].label
    OBVIOUS
  <2>1. p = q
    BY <1>1, OthersStay
  <2>2. ~DeleteCaller(p)
    <3> SUFFICES ASSUME DeleteCaller(p)
                 PROVE  FALSE
      OBVIOUS
    <3>1. left[p] \in Seq(StatementNames) /\ left[p] # <<>> /\ Head(left[p]) = "deleteCaller"
      BY <1>1 DEF DeleteCaller, Runs, IInv, Programs
    <3>2. 1 \in 1 .. Len(left[p]) /\ left[p][1] = "deleteCaller"
      BY <3>1
    <3> QED
      BY <1>1, <3>2 DEF IInv, Programs, Shape
  <2>3. CASE DeleteKey(p) /\ k.id = id[p] /\ task[p].kind = "revokeKey"
    <3>1. left[p] # <<>> /\ Head(left[p]) = "deleteKey"
      BY <2>3 DEF DeleteKey, Runs
    <3> QED
      BY <1>1, <2>1, <2>3, <3>1, KeyGone DEF IInv, HoldsKey
  <2> QED
    BY <1>1, <2>1, <2>2, <2>3, KeyGone
<1>2. IInv /\ [Next]_vars => [Right]_vars
  BY <1>1 DEF Next
<1> QED
  BY <1>2, InitIInv, NextIInv, PTL DEF Spec, RevokesOnlyNamed

\* remove-caller without --force never takes a key away that was there when it
\* counted: what it loses was added between its two statements.
THEOREM RemovalSparesCountedKeysAlways == Spec => RemovalSparesCountedKeys
<1> DEFINE Spared == \A p \in Ops : \A k \in keys \ keys' :
          left'[p] # left[p] /\ task[p].kind = "removeCaller" => k.id >= counted[p]
<1>1. ASSUME IInv, NEW q \in Ops, Step(q)
      PROVE  Spared
  <2> SUFFICES ASSUME NEW p \in Ops, NEW k \in keys \ keys', left'[p] # left[p],
                      task[p].kind = "removeCaller"
               PROVE  k.id >= counted[p]
    OBVIOUS
  <2>1. p = q
    BY <1>1, OthersStay
  <2>2. ~DeleteKey(p) /\ ~RevokeLabel(p)
    <3> SUFFICES ASSUME DeleteKey(p) \/ RevokeLabel(p)
                 PROVE  FALSE
      OBVIOUS
    <3>1. /\ left[p] \in Seq(StatementNames) /\ left[p] # <<>>
          /\ Head(left[p]) \in {"deleteKey", "revokeLabel"}
      BY <1>1 DEF DeleteKey, RevokeLabel, Runs, IInv, Programs
    <3>2. 1 \in 1 .. Len(left[p]) /\ left[p][1] \in {"deleteKey", "revokeLabel"}
      BY <3>1
    <3> QED
      BY <1>1, <3>2 DEF IInv, Programs, Shape
  <2>3. DeleteCaller(p) /\ k.name = NameOf(p)
    BY <1>1, <2>1, <2>2, KeyGone
  <2>4. left[p] # <<>> /\ Head(left[p]) = "deleteCaller"
    BY <2>3 DEF DeleteCaller, Runs
  <2> QED
    BY <1>1, <2>3, <2>4 DEF IInv, HoldsCount
<1>2. IInv /\ [Next]_vars => [Spared]_vars
  BY <1>1 DEF Next
<1> QED
  BY <1>2, InitIInv, NextIInv, PTL DEF Spec, RemovalSparesCountedKeys

\* A caller that an OIDC login created has every default role once EnsureCaller has
\* returned without an error, whatever logins, deletions and re-creations of the caller
\* ran between its statements, unless an operation takes a role of that name away.
THEOREM ProvisionedAlways == Spec => []ProvisionedComplete
<1>1. Init => ProvInv
  <2> SUFFICES ASSUME Init
               PROVE  ProvInv
    OBVIOUS
  <2>1. IInv
    BY InitIInv
  <2> QED
    BY <2>1 DEF Init, ProvInv, MadeIsOld, Provisioned, IInv, IdsFresh
<1>2. ProvInv => ProvisionedComplete
  <2> SUFFICES ASSUME ProvInv, NEW p \in Ops, made[p] # 0, made[p] = RowOf(p),
                      left[p] \in {<<"selectRoles">>, <<>>}, ~Unassigned(NameOf(p)),
                      NEW r \in DefaultRoles
               PROVE  \E row \in roles : row.caller = made[p] /\ row.role = r
    BY DEF ProvisionedComplete, Unassigned
  <2>1. ~Inserting(p)
    <3>1. CASE left[p] = <<>>
      BY <3>1 DEF Inserting
    <3>2. CASE left[p] = <<"selectRoles">>
      BY <3>2 DEF Inserting
    <3> QED
      BY <3>1, <3>2
  <2> QED
    BY <2>1 DEF ProvInv, Provisioned
<1> QED
  BY <1>1, <1>2, InitIInv, NextIInv, NextProvInv, PTL DEF Spec
=============================================================================
