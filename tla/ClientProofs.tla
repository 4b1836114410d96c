---------------------------- MODULE ClientProofs ----------------------------
(***************************************************************************)
(* Theorems about ClientController, for every set of processes, clients,   *)
(* tenants and credentials, and any number of edits.                       *)
(***************************************************************************)
EXTENDS ClientController, SecretProofs

(* Types, and that copies marked up to date are the stored ones.            *)
CInv == TypeOK /\ CopiesAreCurrent /\ SecretCopiesAreCurrent

(* Every published ID, in any copy, has a row; so has a reconcile that has  *)
(* passed the database.                                                     *)
Backed == {o \in Object : o.status.id # NoRow => clients[o.status.id] # Unset}
BackedInv ==
  /\ CopiesIn(Backed)
  /\ \A r \in Replicas : pc[r] \in {"ApplySecret", "UpdateStatus"} /\ r \notin Disconnected
                           => clients[Wanted(r).row] # Unset

(* A reconcile works with the credential of its copy of the spec.           *)
ChosenFollows ==
  \A r \in Replicas : pc[r] # "idle" /\ Wanted(r).secret # Unset => chosen[r].value = Wanted(r).secret

(* Process r is still going to write the Secret of k from the present spec. *)
Todo(r, k) ==
  \/ ~synced[r][k] \/ k \in queue[r]
  \/ held[r].key = k /\ (~held[r].current \/ pc[r] \in {"EnsureClient", "ApplySecret"})

(* The Secret of k carries the present spec, or some process will write it. *)
Matches(k) ==
  /\ secrets[k].data.clientId = api[k].spec.row.clientId
  /\ api[k].spec.secret # Unset => secrets[k].data.clientSecret = api[k].spec.secret
FollowInv ==
  \A k \in Keys :
    api[k] # Absent /\ secrets[k] # NoSecret /\ (\A r \in Replicas : ~Todo(r, k)) => Matches(k)

(* When no client is deleted: every copy of it has its uid, and so has the  *)
(* owner of its Secret; the Secret exists, or some process will write it.   *)
SameUid ==
  /\ \A r \in Replicas, k \in Keys :
       cache[r][k] # Absent => api[k] # Absent /\ cache[r][k].uid = api[k].uid
  /\ \A r \in Replicas :
       held[r].key # NoKey => api[held[r].key] # Absent /\ held[r].obj.uid = api[held[r].key].uid
  /\ \A k \in Keys : secrets[k] # NoSecret => Owned(k)
ExistsInv ==
  \A k \in Keys : api[k] # Absent /\ (\A r \in Replicas : ~Todo(r, k)) => secrets[k] # NoSecret

(* A connected process at rest about a client has published its row.        *)
PublishedInv ==
  \A r \in Replicas \ Disconnected, k \in Keys :
    api[k] # Absent /\ Quiescent(r, k) => api[k].status.id = api[k].spec.row

-----------------------------------------------------------------------------
(* The steps, and what they do to the runtime and to the Secrets. *)
Ending(r) == EnsureClientFails(r) \/ PersistSecretFails(r) \/ UpdateStatus(r) \/ UpdateStatusFails(r)

LEMMA StepKinds ==
  ASSUME [Next]_vars
  PROVE  \/ UNCHANGED vars
         \/ UserEdit \/ TenantAppears \/ GarbageCollect
         \/ \E r \in Replicas, k \in Keys : Watch(r, k) \/ WatchSecret(r, k)
         \/ \E r \in Replicas :
              \/ StartReconcile(r) \/ EnsureClient(r) \/ WithoutDatabase(r)
              \/ PersistSecret(r) \/ PersistSecretSkipped(r) \/ Ending(r) \/ Restart(r)
BY DEF Next, Reconcile, Ending

(* What the credential of a reconcile is. *)
LEMMA ChooseEffect ==
  ASSUME CInv, NEW r \in Replicas, NEW k \in Keys, cache[r][k] # Absent, Choose(r, k)
  PROVE  \E v \in Value, made \in BOOLEAN :
           /\ chosen' = [chosen EXCEPT ![r] = [value |-> v, made |-> made]]
           /\ cache[r][k].spec.secret # Unset => v = cache[r][k].spec.secret
<1>1. /\ cache[r][k].spec.secret \in Given \cup {Unset}
      /\ secretCache[r][k] # NoSecret => secretCache[r][k].data.clientSecret \in Value
  <2>1. cache[r][k] \in Object /\ secretCache[r][k] \in Secret(Data) \cup {NoSecret}
    BY DEF CInv, TypeOK, RuntimeTypeOK, SecretTypeOK
  <2>2. QED BY <2>1 DEF Object, Spec0, Secret, Data
<1>2. (\E v \in Generated : ~InUse(v)) => NewValue \in Generated
  BY DEF NewValue
<1>3. QED BY <1>1, <1>2 DEF Choose, Value

LEMMA ReadyObjectOK ==
  ASSUME CInv, NEW r \in Replicas, pc[r] # "idle"
  PROVE  /\ held[r].key \in Keys /\ held[r].obj \in Object
         /\ ReadyObject(r) \in Object
         /\ ReadyObject(r).uid = held[r].obj.uid /\ ReadyObject(r).spec = held[r].obj.spec
         /\ ReadyObject(r).status.id = IF r \in Disconnected THEN held[r].obj.status.id ELSE Wanted(r).row
<1>1. held[r].key \in Keys /\ held[r].obj \in Object /\ chosen[r].made \in BOOLEAN
  BY DEF CInv, TypeOK, RuntimeTypeOK
<1>. DEFINE status == [id |-> IF r \in Disconnected THEN held[r].obj.status.id ELSE Wanted(r).row,
                       secretGenerated |-> held[r].obj.status.secretGenerated \/ chosen[r].made]
<1>2. status \in Status
  <2>1. /\ held[r].obj.status \in Status /\ held[r].obj.spec.row \in Row
    BY <1>1 DEF Object, Spec0
  <2>2. QED BY <1>1, <2>1 DEF Status, Wanted
<1>3. status.id = IF r \in Disconnected THEN held[r].obj.status.id ELSE Wanted(r).row
  OBVIOUS
<1>4. ReadyObject(r) = [held[r].obj EXCEPT !.status = status]
  BY DEF ReadyObject
<1>. HIDE DEF status
<1>5. /\ ReadyObject(r) \in Object /\ ReadyObject(r).status = status
      /\ ReadyObject(r).uid = held[r].obj.uid /\ ReadyObject(r).spec = held[r].obj.spec
  BY <1>1, <1>2, <1>4 DEF Object
<1>6. QED BY <1>1, <1>3, <1>5

LEMMA EndingKinds ==
  ASSUME CInv, NEW r \in Replicas, Ending(r)
  PROVE  /\ held[r].key \in Keys /\ pc[r] # "idle"
         /\ Ends(r, ReadyObject(r)) /\ End(r)
         /\ pc[r] = "UpdateStatus" \/ NothingStored(r)
         /\ UpdateStatus(r) \/ Requeue(r)
         /\ clients' = clients \/ (Wanted(r).row.tenant \in tenants /\ clients' = Inserted(r))
         /\ UNCHANGED secretVars \/ (pc[r] = "ApplySecret" /\ WriteSecret(r))
         /\ UNCHANGED external
<1>1. /\ pc[r] # "idle" /\ End(r) /\ UNCHANGED external
      /\ pc[r] = "UpdateStatus" \/ NothingStored(r)
      /\ UpdateStatus(r) \/ Requeue(r)
      /\ clients' = clients \/ (Wanted(r).row.tenant \in tenants /\ clients' = Inserted(r))
      /\ UNCHANGED secretVars \/ (pc[r] = "ApplySecret" /\ WriteSecret(r))
  BY DEF Ending, EnsureClientFails, PersistSecretFails, UpdateStatus, UpdateStatusFails, ReturnError, AtStage
<1>2. held[r].key \in Keys
  BY <1>1, ReadyObjectOK
<1>3. /\ StatusStored(r, ReadyObject(r)) \/ NothingStored(r)
      /\ Done(r) \/ Requeue(r)
  BY DEF Ending, EnsureClientFails, PersistSecretFails, UpdateStatus, UpdateStatusFails, ReturnError
<1>4. QED BY <1>1, <1>2, <1>3 DEF Ends

(* A new object has an unused uid and a new status; an edit keeps both.     *)
LEMMA EditStores ==
  ASSUME CInv, UserEdit
  PROVE  \E k \in Keys, o \in Object \cup {Absent} :
           /\ Store(k, o)
           /\ \/ o = Absent /\ deletes < MaxDeletes
              \/ api[k] = Absent /\ o # Absent /\ o.status = NewStatus
              \/ api[k] # Absent /\ o # Absent /\ o.status = api[k].status /\ o.uid = api[k].uid
<1>0. edits + 1 \in 1 .. MaxEdits
  BY ClientAssumption DEF UserEdit, CInv, TypeOK
<1>1. ASSUME NEW k \in Keys, NEW s \in Spec0, CreateObject(k, s)
      PROVE  /\ api[k] = Absent
             /\ \E o \in Object : Store(k, o) /\ o.status = NewStatus
  <2>1. [uid |-> edits + 1, spec |-> s, status |-> NewStatus] \in Object
    BY <1>0 DEF Object, NewStatus, Status
  <2>2. QED BY <1>1, <2>1 DEF CreateObject
<1>2. ASSUME NEW k \in Keys, NEW s \in Spec0, EditSpec(k, s)
      PROVE  /\ api[k] # Absent
             /\ \E o \in Object : Store(k, o) /\ o.status = api[k].status /\ o.uid = api[k].uid
  <2>1. api[k] # Absent /\ api[k] \in Object
    BY <1>2 DEF EditSpec, CInv, TypeOK, RuntimeTypeOK
  <2>2. /\ [api[k] EXCEPT !.spec = s] \in Object
        /\ [api[k] EXCEPT !.spec = s].status = api[k].status
        /\ [api[k] EXCEPT !.spec = s].uid = api[k].uid
    BY <2>1 DEF Object
  <2>3. QED BY <1>2, <2>1, <2>2 DEF EditSpec
<1>3. ASSUME NEW k \in Keys, DeleteObject(k)
      PROVE  Store(k, Absent) /\ deletes < MaxDeletes
  BY <1>3 DEF DeleteObject
<1>4. PICK k \in Keys : (\E s \in Spec0 : CreateObject(k, s) \/ EditSpec(k, s)) \/ DeleteObject(k)
  BY DEF UserEdit
<1>5. QED BY <1>1, <1>2, <1>3, <1>4, ClientAssumption

LEMMA RuntimeStep ==
  ASSUME CInv, [Next]_vars
  PROVE  RuntimeInv(Object) /\ RuntimeNext(Object)
<1>1. RuntimeInv(Object)
  BY DEF CInv, TypeOK, RuntimeInv
<1>2. CASE UNCHANGED vars
  BY <1>1, <1>2 DEF vars, runtimeVars, RuntimeNext
<1>3. CASE UserEdit
  BY <1>1, <1>3, EditStores DEF RuntimeNext
<1>4. CASE TenantAppears \/ GarbageCollect
  BY <1>1, <1>4 DEF TenantAppears, GarbageCollect, RuntimeNext
<1>5. CASE \E r \in Replicas, k \in Keys : Watch(r, k) \/ WatchSecret(r, k)
  BY <1>1, <1>5 DEF Watch, WatchSecret, RuntimeNext
<1>6. CASE \E r \in Replicas : \/ EnsureClient(r) \/ WithoutDatabase(r) \/ PersistSecret(r)
                               \/ PersistSecretSkipped(r)
  BY <1>1, <1>6 DEF EnsureClient, WithoutDatabase, PersistSecret, PersistSecretSkipped, RuntimeNext
<1>7. CASE \E r \in Replicas : StartReconcile(r)
  BY <1>1, <1>7 DEF StartReconcile, RuntimeNext
<1>8. CASE \E r \in Replicas : Ending(r)
  BY <1>1, <1>8, EndingKinds, ReadyObjectOK DEF RuntimeNext
<1>9. CASE \E r \in Replicas : Restart(r)
  BY <1>1, <1>9 DEF Restart, RuntimeNext
<1>10. QED BY <1>2, <1>3, <1>4, <1>5, <1>6, <1>7, <1>8, <1>9, StepKinds

(* What a reconcile writes into the Secret. *)
Written(r) == [clientId |-> Wanted(r).row.clientId, clientSecret |-> chosen[r].value]

LEMMA WrittenOK ==
  ASSUME CInv, NEW r \in Replicas, pc[r] # "idle"
  PROVE  held[r].obj.uid \in Nat /\ Written(r) \in Data
<1>1. held[r].obj \in Object /\ chosen[r].value \in Value
  BY ReadyObjectOK DEF CInv, TypeOK
<1>2. QED BY <1>1 DEF Object, Spec0, Row, Written, Wanted, Data

LEMMA SecretStep ==
  ASSUME CInv, [Next]_vars
  PROVE  SecretInv(Data) /\ SecretNext(Data)
<1>1. SecretInv(Data)
  BY DEF CInv, TypeOK, SecretInv
<1>2. ASSUME NEW r \in Replicas, pc[r] # "idle", WriteSecret(r)
      PROVE  SecretNext(Data)
  BY <1>2, WrittenOK, ReadyObjectOK DEF WriteSecret, Written, SecretNext
<1>3. CASE UNCHANGED vars \/ UserEdit \/ TenantAppears
  BY <1>1, <1>3 DEF vars, UserEdit, TenantAppears, secretVars, SecretNext
<1>4. CASE GarbageCollect
  BY <1>1, <1>4 DEF GarbageCollect, SecretNext
<1>5. CASE \E r \in Replicas, k \in Keys : Watch(r, k) \/ WatchSecret(r, k)
  BY <1>1, <1>5 DEF Watch, WatchSecret, SecretNext
<1>6. CASE \E r \in Replicas : \/ StartReconcile(r) \/ EnsureClient(r) \/ WithoutDatabase(r)
                               \/ PersistSecretSkipped(r)
  BY <1>1, <1>6 DEF StartReconcile, EnsureClient, WithoutDatabase, PersistSecretSkipped, SecretNext
<1>7. CASE \E r \in Replicas : PersistSecret(r)
  BY <1>1, <1>2, <1>7 DEF PersistSecret, AtStage
<1>8. CASE \E r \in Replicas : Ending(r)
  BY <1>1, <1>2, <1>8, EndingKinds DEF SecretNext
<1>9. CASE \E r \in Replicas : Restart(r)
  BY <1>1, <1>9 DEF Restart, SecretNext
<1>10. QED BY <1>1, <1>3, <1>4, <1>5, <1>6, <1>7, <1>8, <1>9, StepKinds

(* A row that exists keeps its credential. *)
LEMMA ClientsStep ==
  ASSUME CInv, [Next]_vars
  PROVE  /\ clients' \in [Row -> Value \cup {Unset}]
         /\ \A w \in Row : clients[w] # Unset => clients'[w] = clients[w]
<1>0. clients \in [Row -> Value \cup {Unset}]
  BY DEF CInv, TypeOK
<1>1. ASSUME NEW r \in Replicas, pc[r] # "idle", clients' = Inserted(r)
      PROVE  /\ clients' \in [Row -> Value \cup {Unset}]
             /\ \A w \in Row : clients[w] # Unset => clients'[w] = clients[w]
  BY <1>0, <1>1 DEF Inserted, CInv, TypeOK
<1>2. CASE \/ UNCHANGED vars \/ UserEdit \/ TenantAppears \/ GarbageCollect
           \/ \E r \in Replicas, k \in Keys : Watch(r, k) \/ WatchSecret(r, k)
           \/ \E r \in Replicas : \/ StartReconcile(r) \/ WithoutDatabase(r) \/ PersistSecret(r)
                                  \/ PersistSecretSkipped(r) \/ Restart(r)
  BY <1>0, <1>2 DEF vars, UserEdit, TenantAppears, GarbageCollect, Watch, WatchSecret, StartReconcile,
                    WithoutDatabase, PersistSecret, PersistSecretSkipped, Restart
<1>3. CASE \E r \in Replicas : EnsureClient(r)
  BY <1>1, <1>3 DEF EnsureClient, AtStage
<1>4. CASE \E r \in Replicas : Ending(r)
  BY <1>0, <1>1, <1>4, EndingKinds
<1>5. QED BY <1>2, <1>3, <1>4, StepKinds

-----------------------------------------------------------------------------
(* Types. *)
LEMMA TypeStep ==
  ASSUME CInv, [Next]_vars
  PROVE  CInv'
<1>0. /\ RuntimeInv(Object)' /\ SecretInv(Data)'
      /\ clients' \in [Row -> Value \cup {Unset}]
  BY RuntimeStep, RuntimeStepOK, SecretStep, SecretStepOK, ClientsStep, ClientAssumption
<1>. DEFINE WorkOK == /\ pc \in [Replicas -> Stages]
                      /\ chosen \in [Replicas -> [value : Value \cup {Unset}, made : BOOLEAN]]
                      /\ \A r \in Replicas : /\ pc[r] = "idle" <=> held[r].key = NoKey
                                             /\ pc[r] = "idle" <=> chosen[r].value = Unset
            RestOK == tenants \subseteq Tenants /\ edits \in 0 .. MaxEdits /\ deletes \in 0 .. MaxDeletes
<1>1. WorkOK /\ RestOK
  BY DEF CInv, TypeOK
<1>2. WorkOK' /\ RestOK' => CInv'
  BY <1>0 DEF CInv, TypeOK, RuntimeInv, SecretInv
<1>3. UNCHANGED external => RestOK'
  BY <1>1 DEF external
<1>4. CASE UserEdit
  <2>1. PICK k \in Keys, o \in Object \cup {Absent} : Store(k, o)
    BY <1>4, EditStores
  <2>2. \A q \in Replicas : held'[q].key = held[q].key
    BY <2>1 DEF Store, CInv, TypeOK, RuntimeTypeOK
  <2>3. edits' \in 0 .. MaxEdits /\ deletes' \in 0 .. MaxDeletes
    <3>1. edits < MaxEdits /\ edits' = edits + 1
      BY <1>4 DEF UserEdit
    <3>2. deletes' = deletes \/ (deletes < MaxDeletes /\ deletes' = deletes + 1)
      BY <1>4 DEF UserEdit, CreateObject, EditSpec, DeleteObject
    <3>3. QED BY <1>1, <3>1, <3>2, ClientAssumption
  <2>4. UNCHANGED <<pc, chosen, tenants>>
    BY <1>4 DEF UserEdit
  <2>5. QED BY <1>1, <1>2, <2>2, <2>3, <2>4
<1>5. CASE TenantAppears
  <2>1. UNCHANGED <<held, pc, chosen, edits, deletes>> /\ tenants' \subseteq Tenants
    BY <1>1, <1>5 DEF TenantAppears, runtimeVars
  <2>2. QED BY <1>1, <1>2, <2>1
<1>6. CASE \/ UNCHANGED vars \/ GarbageCollect
           \/ \E r \in Replicas, k \in Keys : Watch(r, k) \/ WatchSecret(r, k)
  <2>1. UNCHANGED <<held, pc, chosen, external>>
    BY <1>6 DEF vars, GarbageCollect, Watch, Sync, WatchSecret, runtimeVars
  <2>2. QED BY <1>1, <1>2, <1>3, <2>1
<1>7. ASSUME NEW r \in Replicas, StartReconcile(r)
      PROVE  CInv'
  <2>1. UNCHANGED external
    BY <1>7 DEF StartReconcile
  <2>2. PICK k \in Keys : \/ Fetch(r, k) /\ Choose(r, k) /\ GoTo(r, "EnsureClient")
                          \/ FetchMissing(r, k) /\ UNCHANGED <<pc, chosen>>
    BY <1>7 DEF StartReconcile
  <2>3. CASE FetchMissing(r, k) /\ UNCHANGED <<pc, chosen>>
    BY <1>1, <1>2, <1>3, <2>1, <2>3 DEF FetchMissing
  <2>4. CASE Fetch(r, k) /\ Choose(r, k) /\ GoTo(r, "EnsureClient")
    <3>1. PICK v \in Value, made \in BOOLEAN : chosen' = [chosen EXCEPT ![r] = [value |-> v, made |-> made]]
      BY <2>4, ChooseEffect DEF Fetch
    <3>2. held'[r].key = k /\ \A q \in Replicas \ {r} : held'[q] = held[q]
      BY <2>4 DEF Fetch, CInv, TypeOK, RuntimeTypeOK
    <3>3. /\ pc' \in [Replicas -> Stages] /\ pc'[r] = "EnsureClient"
          /\ \A q \in Replicas \ {r} : pc'[q] = pc[q]
      BY <1>1, <2>4 DEF GoTo, Stages
    <3>4. /\ chosen' \in [Replicas -> [value : Value \cup {Unset}, made : BOOLEAN]]
          /\ chosen'[r].value = v /\ \A q \in Replicas \ {r} : chosen'[q] = chosen[q]
      BY <1>1, <3>1
    <3>5. WorkOK'
      BY <1>1, <3>2, <3>3, <3>4, AbsentAssumption, ClientAssumption
    <3>6. QED BY <1>2, <1>3, <2>1, <3>5
  <2>5. QED BY <2>2, <2>3, <2>4
<1>8. ASSUME NEW r \in Replicas, NEW s \in Stages \ {"idle"}, pc[r] # "idle", GoTo(r, s),
             UNCHANGED <<held, chosen, external>>
      PROVE  CInv'
  <2>1. WorkOK'
    BY <1>1, <1>8 DEF GoTo
  <2>2. QED BY <1>2, <1>3, <1>8, <2>1
<1>9. CASE \E r \in Replicas : \/ EnsureClient(r) \/ WithoutDatabase(r) \/ PersistSecret(r)
                               \/ PersistSecretSkipped(r)
  BY <1>8, <1>9 DEF EnsureClient, WithoutDatabase, PersistSecret, PersistSecretSkipped, AtStage, Stages,
                    runtimeVars
<1>10. ASSUME NEW r \in Replicas, End(r), held'[r] = NotHeld,
              \A q \in Replicas \ {r} : held'[q].key = held[q].key /\ held'[q].obj = held[q].obj,
              UNCHANGED external
       PROVE  CInv'
  <2>1. WorkOK'
    <3>1. /\ pc' \in [Replicas -> Stages] /\ pc'[r] = "idle"
          /\ \A q \in Replicas \ {r} : pc'[q] = pc[q]
      BY <1>1, <1>10 DEF End, GoTo, Stages
    <3>2. /\ chosen' \in [Replicas -> [value : Value \cup {Unset}, made : BOOLEAN]]
          /\ chosen'[r].value = Unset /\ \A q \in Replicas \ {r} : chosen'[q] = chosen[q]
      BY <1>1, <1>10 DEF End, NotChosen
    <3>3. QED BY <1>1, <1>10, <3>1, <3>2 DEF NotHeld
  <2>2. QED BY <1>2, <1>3, <1>10, <2>1
<1>11. ASSUME NEW r \in Replicas, Ending(r)
       PROVE  CInv'
  <2>1. Ends(r, ReadyObject(r)) /\ ReadyObject(r) \in Object /\ End(r) /\ UNCHANGED external
    BY <1>11, EndingKinds, ReadyObjectOK
  <2>2. held'[r] = NotHeld
    BY <2>1, RuntimeStep, EndEffect
  <2>3. \A q \in Replicas \ {r} : held'[q].key = held[q].key /\ held'[q].obj = held[q].obj
    BY <2>1, RuntimeStep, EndEffect
  <2>4. QED BY <1>10, <2>1, <2>2, <2>3
<1>12. ASSUME NEW r \in Replicas, Restart(r)
       PROVE  CInv'
  <2>1. held'[r] = NotHeld /\ \A q \in Replicas \ {r} : held'[q] = held[q]
    BY <1>12 DEF Restart, RestartRuntime, CInv, TypeOK, RuntimeTypeOK
  <2>2. QED BY <1>10, <1>12, <2>1 DEF Restart
<1>13. QED BY <1>4, <1>5, <1>6, <1>7, <1>9, <1>11, <1>12, StepKinds

LEMMA InitOK ==
  ASSUME Init
  PROVE  CInv
<1>1. RuntimeInv(Object) /\ SecretInv(Data)
  BY RuntimeInitOK, SecretInitOK DEF Init
<1>2. QED BY <1>1, ClientAssumption
          DEF Init, RuntimeInit, NotHeld, NotChosen, Stages, CInv, TypeOK, RuntimeInv, SecretInv

(* Type correctness, and that copies marked up to date are the stored ones. *)
THEOREM TypeCorrect == Spec => [](TypeOK /\ CopiesAreCurrent /\ SecretCopiesAreCurrent)
<1>1. CInv /\ [Next]_vars => CInv'
  BY TypeStep
<1>2. CInv => TypeOK /\ CopiesAreCurrent /\ SecretCopiesAreCurrent
  BY DEF CInv
<1>3. QED BY <1>1, <1>2, InitOK, PTL DEF Spec

-----------------------------------------------------------------------------
(* How a process comes to the stage it is in. *)
Starts(r, k) ==
  /\ Fetch(r, k) /\ held'[r].key = k /\ held'[r].obj = cache[r][k]
  /\ pc'[r] = "EnsureClient" /\ chosen'[r].value \in Value
  /\ cache[r][k].spec.secret # Unset => chosen'[r].value = cache[r][k].spec.secret

GoesOn(r) ==
  /\ held'[r].key = held[r].key /\ held'[r].obj = held[r].obj
  /\ pc[r] # "idle" /\ chosen'[r] = chosen[r]
  /\ \/ pc'[r] = pc[r]
     \/ EnsureClient(r) /\ pc'[r] = "ApplySecret"
     \/ WithoutDatabase(r) /\ pc'[r] = "ApplySecret"
     \/ PersistSecret(r) /\ pc'[r] = "UpdateStatus"
     \/ PersistSecretSkipped(r) /\ pc[r] = "ApplySecret" /\ pc'[r] = "UpdateStatus"

LEMMA StageStep ==
  ASSUME CInv, [Next]_vars, NEW r \in Replicas
  PROVE  \/ pc'[r] = "idle" /\ (pc[r] = "idle" \/ Ending(r) \/ Restart(r))
         \/ pc[r] = "idle" /\ \E k \in Keys : Starts(r, k)
         \/ GoesOn(r)
<1>. DEFINE Same == /\ held'[r].key = held[r].key /\ held'[r].obj = held[r].obj
                    /\ pc'[r] = pc[r] /\ chosen'[r] = chosen[r]
<1>0. Same => GoesOn(r) \/ (pc'[r] = "idle" /\ pc[r] = "idle")
  BY DEF GoesOn
<1>1. CASE UserEdit
  <2>1. PICK k \in Keys, o \in Object \cup {Absent} : Store(k, o)
    BY <1>1, EditStores
  <2>2. Same
    BY <1>1, <2>1 DEF Store, UserEdit, CInv, TypeOK, RuntimeTypeOK
  <2>3. QED BY <1>0, <2>2
<1>2. CASE \/ UNCHANGED vars \/ TenantAppears \/ GarbageCollect
           \/ \E q \in Replicas, k \in Keys : Watch(q, k) \/ WatchSecret(q, k)
  <2>1. UNCHANGED <<held, pc, chosen>>
    BY <1>2 DEF vars, TenantAppears, GarbageCollect, Watch, Sync, WatchSecret, runtimeVars
  <2>2. QED BY <1>0, <2>1
<1>3. ASSUME NEW q \in Replicas, q # r,
             \/ StartReconcile(q) \/ EnsureClient(q) \/ WithoutDatabase(q)
             \/ PersistSecret(q) \/ PersistSecretSkipped(q)
      PROVE  Same
  <2>1. CASE StartReconcile(q)
    <3>1. PICK k \in Keys : \/ Fetch(q, k) /\ Choose(q, k) /\ GoTo(q, "EnsureClient")
                            \/ FetchMissing(q, k) /\ UNCHANGED <<pc, chosen>>
      BY <2>1 DEF StartReconcile
    <3>2. CASE FetchMissing(q, k) /\ UNCHANGED <<pc, chosen>>
      BY <3>2 DEF FetchMissing
    <3>3. CASE Fetch(q, k) /\ Choose(q, k) /\ GoTo(q, "EnsureClient")
      <4>1. \E v \in Value, made \in BOOLEAN : chosen' = [chosen EXCEPT ![q] = [value |-> v, made |-> made]]
        BY <3>3, ChooseEffect DEF Fetch
      <4>2. QED BY <1>3, <3>3, <4>1 DEF Fetch, GoTo, CInv, TypeOK, RuntimeTypeOK
    <3>4. QED BY <3>1, <3>2, <3>3
  <2>2. CASE EnsureClient(q) \/ WithoutDatabase(q) \/ PersistSecret(q) \/ PersistSecretSkipped(q)
    BY <1>3, <2>2 DEF EnsureClient, WithoutDatabase, PersistSecret, PersistSecretSkipped, GoTo, runtimeVars,
                      CInv, TypeOK
  <2>3. QED BY <1>3, <2>1, <2>2
<1>4. CASE StartReconcile(r)
  <2>1. PICK k \in Keys : \/ Fetch(r, k) /\ Choose(r, k) /\ GoTo(r, "EnsureClient")
                          \/ FetchMissing(r, k) /\ UNCHANGED <<pc, chosen>>
    BY <1>4 DEF StartReconcile
  <2>2. CASE FetchMissing(r, k) /\ UNCHANGED <<pc, chosen>>
    <3>1. Same
      BY <2>2 DEF FetchMissing
    <3>2. QED BY <1>0, <3>1
  <2>3. CASE Fetch(r, k) /\ Choose(r, k) /\ GoTo(r, "EnsureClient")
    <3>1. PICK v \in Value, made \in BOOLEAN :
            /\ chosen' = [chosen EXCEPT ![r] = [value |-> v, made |-> made]]
            /\ cache[r][k].spec.secret # Unset => v = cache[r][k].spec.secret
      BY <2>3, ChooseEffect DEF Fetch
    <3>2. chosen'[r].value = v
      BY <3>1 DEF CInv, TypeOK
    <3>3. held'[r].key = k /\ held'[r].obj = cache[r][k] /\ pc[r] = "idle" /\ pc'[r] = "EnsureClient"
      BY <2>3 DEF Fetch, GoTo, CInv, TypeOK, RuntimeTypeOK
    <3>4. QED BY <2>3, <3>1, <3>2, <3>3 DEF Starts
  <2>4. QED BY <2>1, <2>2, <2>3
<1>5. CASE EnsureClient(r) \/ WithoutDatabase(r) \/ PersistSecret(r) \/ PersistSecretSkipped(r)
  BY <1>5 DEF EnsureClient, WithoutDatabase, PersistSecret, PersistSecretSkipped, AtStage, GoTo, runtimeVars,
              GoesOn, CInv, TypeOK
<1>6. ASSUME NEW q \in Replicas, End(q), held'[q] = NotHeld,
             \A p \in Replicas \ {q} : held'[p].key = held[p].key /\ held'[p].obj = held[p].obj
      PROVE  Same \/ (q = r /\ pc'[r] = "idle")
  BY <1>6 DEF End, GoTo, CInv, TypeOK
<1>7. ASSUME NEW q \in Replicas, Ending(q)
      PROVE  Same \/ (q = r /\ pc'[r] = "idle")
  <2>1. Ends(q, ReadyObject(q)) /\ ReadyObject(q) \in Object /\ End(q)
    BY <1>7, EndingKinds, ReadyObjectOK
  <2>2. held'[q] = NotHeld
    BY <2>1, RuntimeStep, EndEffect
  <2>3. \A p \in Replicas \ {q} : held'[p].key = held[p].key /\ held'[p].obj = held[p].obj
    BY <2>1, RuntimeStep, EndEffect
  <2>4. QED BY <1>6, <2>1, <2>2, <2>3
<1>8. ASSUME NEW q \in Replicas, Restart(q)
      PROVE  Same \/ (q = r /\ pc'[r] = "idle")
  <2>1. held'[q] = NotHeld /\ \A p \in Replicas \ {q} : held'[p] = held[p]
    BY <1>8 DEF Restart, RestartRuntime, CInv, TypeOK, RuntimeTypeOK
  <2>2. QED BY <1>6, <1>8, <2>1 DEF Restart
<1>. HIDE DEF Same
<1>9. QED BY <1>0, <1>1, <1>2, <1>3, <1>4, <1>5, <1>7, <1>8, StepKinds

-----------------------------------------------------------------------------
(* A published ID has a row. *)
LEMMA BackedStored ==
  ASSUME CInv, BackedInv, [Next]_vars
  PROVE  \A k \in Keys : api'[k] # Absent => api'[k] \in Backed \cup Backed'
<1>1. \A k \in Keys : api[k] # Absent => api[k] \in Backed
  BY DEF BackedInv, CopiesIn
<1>2. CASE UserEdit
  <2>1. PICK k \in Keys, o \in Object \cup {Absent} :
           /\ Store(k, o)
           /\ \/ o = Absent
              \/ o # Absent /\ o.status = NewStatus
              \/ api[k] # Absent /\ o # Absent /\ o.status = api[k].status
    BY <1>2, EditStores
  <2>2. o # Absent => o \in Backed
    BY <1>1, <2>1 DEF Backed, NewStatus
  <2>3. QED BY <1>1, <2>1, <2>2 DEF Store, CInv, TypeOK, RuntimeTypeOK
<1>3. ASSUME NEW r \in Replicas, Ending(r)
      PROVE  \A k \in Keys : api'[k] # Absent => api'[k] \in Backed
  <2>1. Ends(r, ReadyObject(r)) /\ ReadyObject(r) \in Object /\ pc[r] # "idle"
    BY <1>3, EndingKinds, ReadyObjectOK
  <2>2. pc[r] = "UpdateStatus" \/ NothingStored(r)
    BY <1>3, EndingKinds
  <2>3. CASE NothingStored(r)
    BY <1>1, <2>3 DEF NothingStored
  <2>4. CASE pc[r] = "UpdateStatus"
    <3>1. held[r].obj \in Backed
      BY <2>1 DEF BackedInv, CopiesIn, CInv, TypeOK
    <3>2. ReadyObject(r) \in Backed
      BY <2>1, <2>4, <3>1, ReadyObjectOK DEF Backed, BackedInv
    <3>3. api' = api \/ api' = [api EXCEPT ![held[r].key] = ReadyObject(r)]
      BY <2>1, RuntimeStep, EndEffect
    <3>4. QED BY <1>1, <3>2, <3>3 DEF CInv, TypeOK, RuntimeTypeOK
  <2>5. QED BY <2>2, <2>3, <2>4
<1>4. CASE \/ UNCHANGED vars \/ TenantAppears \/ GarbageCollect
           \/ \E r \in Replicas, k \in Keys : Watch(r, k) \/ WatchSecret(r, k)
           \/ \E r \in Replicas : \/ StartReconcile(r) \/ EnsureClient(r) \/ WithoutDatabase(r)
                                  \/ PersistSecret(r) \/ PersistSecretSkipped(r) \/ Restart(r)
  <2>1. api' = api
    BY <1>4 DEF vars, runtimeVars, TenantAppears, GarbageCollect, Watch, Sync, WatchSecret, StartReconcile, Fetch,
                FetchMissing, EnsureClient, WithoutDatabase, PersistSecret, PersistSecretSkipped, Restart, RestartRuntime
  <2>2. QED BY <1>1, <2>1
<1>5. QED BY <1>2, <1>3, <1>4, StepKinds

LEMMA BackedStep ==
  ASSUME CInv, BackedInv, [Next]_vars
  PROVE  BackedInv'
<1>0. \A w \in Row : clients[w] # Unset => clients'[w] # Unset
  BY ClientsStep
<1>1. CopiesIn(Backed)'
  <2>. SUFFICES ASSUME NEW S, S = Backed'
                PROVE  CopiesIn(S)'
    BY DEF CopiesIn
  <2>1. Backed \subseteq S
    BY <1>0 DEF Backed, Object, Status
  <2>2. CopiesIn(S)
    BY <2>1 DEF BackedInv, CopiesIn
  <2>3. \A k \in Keys : api'[k] # Absent => api'[k] \in S
    BY <2>1, BackedStored
  <2>4. QED BY <2>2, <2>3, RuntimeStep, CopiesStep
<1>2. ASSUME NEW r \in Replicas, pc'[r] \in {"ApplySecret", "UpdateStatus"}, r \notin Disconnected
      PROVE  clients'[Wanted(r)'.row] # Unset
  <2>1. GoesOn(r)
    BY <1>2, StageStep DEF Starts
  <2>2. Wanted(r)' = Wanted(r) /\ Wanted(r).row \in Row
    BY <2>1, ReadyObjectOK DEF GoesOn, Wanted, Object, Spec0
  <2>3. CASE EnsureClient(r)
    BY <2>1, <2>2, <2>3 DEF EnsureClient, AtStage, Inserted, CInv, TypeOK
  <2>4. CASE pc[r] \in {"ApplySecret", "UpdateStatus"}
    BY <1>0, <1>2, <2>2, <2>4 DEF BackedInv
  <2>5. QED BY <1>2, <2>1, <2>3, <2>4 DEF GoesOn, WithoutDatabase, PersistSecret, AtStage
<1>3. QED BY <1>1, <1>2 DEF BackedInv

(* A published ID has a row behind it, whatever fails or crashes. *)
THEOREM ReadyBacked == Spec => []ReadyIsBacked
<1>1. Init => BackedInv
  BY DEF Init, RuntimeInit, NotHeld, BackedInv, CopiesIn
<1>2. CInv /\ BackedInv /\ [Next]_vars => BackedInv'
  BY BackedStep
<1>3. BackedInv => ReadyIsBacked
  BY DEF BackedInv, CopiesIn, Backed, ReadyIsBacked
<1>4. QED BY <1>1, <1>2, <1>3, InitOK, TypeStep, PTL DEF Spec

-----------------------------------------------------------------------------
(* The Secret follows the spec. *)
LEMMA ChosenStep ==
  ASSUME CInv, ChosenFollows, [Next]_vars
  PROVE  ChosenFollows'
<1>. SUFFICES ASSUME NEW r \in Replicas, pc'[r] # "idle", held'[r].obj.spec.secret # Unset
              PROVE  chosen'[r].value = held'[r].obj.spec.secret
  BY DEF ChosenFollows, Wanted
<1>1. CASE GoesOn(r)
  BY <1>1 DEF GoesOn, ChosenFollows, Wanted
<1>2. CASE \E k \in Keys : Starts(r, k)
  BY <1>2 DEF Starts
<1>3. QED BY <1>1, <1>2, StageStep

(* Process r comes to have nothing to write for k only by writing it, from  *)
(* an up-to-date copy.                                                      *)
LEMMA TodoStep ==
  ASSUME CInv, ~ReadErrors, [Next]_vars, NEW r \in Replicas, NEW k \in Keys, api'[k] # Absent, ~Todo(r, k)'
  PROVE  /\ api'[k] = api[k]
         /\ ~Todo(r, k) \/ (PersistSecret(r) /\ held[r].key = k /\ held[r].current)
<1>0. /\ synced'[r][k] /\ k \notin queue'[r]
      /\ held'[r].key = k => held'[r].current /\ pc'[r] \notin {"EnsureClient", "ApplySecret"}
  BY DEF Todo
<1>1. api'[k] = api[k] /\ ~Restart(r) /\ ((synced[r][k] /\ k \notin queue[r]) \/ Fetch(r, k))
  BY <1>0, RuntimeStep, QueueStep DEF Restart
<1>2. CASE pc'[r] = "idle"
  <2>1. CASE pc[r] = "idle"
    BY <1>0, <1>1, <1>2, <2>1, AbsentAssumption, TypeStep DEF Todo, Fetch, CInv, TypeOK, RuntimeTypeOK
  <2>2. CASE Ending(r)
    <3>1. pc[r] # "idle" /\ (UpdateStatus(r) \/ Requeue(r))
      BY <2>2, EndingKinds
    <3>2. synced[r][k] /\ k \notin queue[r]
      BY <1>1, <3>1, AbsentAssumption DEF Fetch, CInv, TypeOK
    <3>3. held[r].key = k => UpdateStatus(r)
      BY <1>0, <3>1 DEF Requeue, CInv, TypeOK, RuntimeTypeOK
    <3>4. UpdateStatus(r) => held[r].current /\ pc[r] = "UpdateStatus"
      BY DEF UpdateStatus, AtStage, StatusStored
    <3>5. QED BY <1>1, <3>2, <3>3, <3>4 DEF Todo
  <2>3. QED BY <1>1, <1>2, <2>1, <2>2, StageStep DEF GoesOn
<1>3. CASE pc'[r] # "idle"
  <2>1. CASE \E j \in Keys : Starts(r, j)
    BY <1>0, <1>1, <2>1, AbsentAssumption DEF Starts, Fetch, Todo
  <2>2. CASE GoesOn(r)
    <3>1. synced[r][k] /\ k \notin queue[r]
      BY <1>1, <2>2, AbsentAssumption DEF Fetch, GoesOn, CInv, TypeOK
    <3>2. held'[r].current => held[r].current
      <4>1. held'[r].key # NoKey /\ held[r].key # NoKey
        BY <2>2 DEF GoesOn, CInv, TypeOK
      <4>2. \/ held'[r].current => held[r].current
            \/ held'[r] = NotHeld
            \/ \E j \in Keys : Fetch(r, j)
        BY RuntimeStep, WorkStep
      <4>3. QED BY <4>1, <4>2 DEF Fetch, NotHeld
    <3>3. CASE PersistSecret(r) /\ held[r].key = k
      BY <1>0, <1>1, <2>2, <3>2, <3>3 DEF GoesOn
    <3>4. QED BY <1>0, <1>1, <2>2, <3>1, <3>2, <3>3 DEF GoesOn, Todo, PersistSecretSkipped
  <2>3. QED BY <1>3, <2>1, <2>2, StageStep
<1>4. QED BY <1>2, <1>3

(* A Secret is written by a reconcile of its client or collected. *)
LEMMA SecretsChange ==
  ASSUME CInv, [Next]_vars, NEW k \in Keys
  PROVE  \/ secrets'[k] = secrets[k]
         \/ CollectSecret(k) /\ secrets'[k] = NoSecret
         \/ \E r \in Replicas : /\ held[r].key = k /\ pc[r] = "ApplySecret"
                                /\ \E s \in Secret(Data) :
                                     /\ s.data = Written(r) /\ secrets'[k] = s
                                     /\ s.owner = IF secrets[k] = NoSecret THEN held[r].obj.uid
                                                  ELSE secrets[k].owner
<1>. DEFINE Writes(r) == \E s \in Secret(Data) :
                           /\ secrets' = [secrets EXCEPT ![held[r].key] = s]
                           /\ s.data = Written(r)
                           /\ s.owner = IF secrets[held[r].key] = NoSecret THEN held[r].obj.uid
                                        ELSE secrets[held[r].key].owner
<1>0. secrets \in [Keys -> Secret(Data) \cup {NoSecret}]
  BY DEF CInv, TypeOK, SecretTypeOK
<1>1. ASSUME NEW r \in Replicas, pc[r] # "idle", WriteSecret(r)
      PROVE  Writes(r)
  <2>1. SecretInv(Data) /\ held[r].key \in Keys /\ held[r].obj.uid \in Nat /\ Written(r) \in Data
    BY <1>1, SecretStep, WrittenOK, ReadyObjectOK
  <2>2. ApplySecret(r, held[r].key, held[r].obj.uid, Written(r))
    BY <1>1 DEF WriteSecret, Written
  <2>3. QED BY <2>1, <2>2, ApplyEffect, ClientAssumption
<1>2. ASSUME NEW r \in Replicas, pc[r] = "ApplySecret", Writes(r)
      PROVE  \/ secrets'[k] = secrets[k]
             \/ /\ held[r].key = k
                /\ \E s \in Secret(Data) :
                     /\ s.data = Written(r) /\ secrets'[k] = s
                     /\ s.owner = IF secrets[k] = NoSecret THEN held[r].obj.uid ELSE secrets[k].owner
  BY <1>0, <1>2
<1>. HIDE DEF Writes
<1>3. CASE GarbageCollect
  BY <1>0, <1>3 DEF GarbageCollect, CollectSecret, PutSecret
<1>4. CASE \E r \in Replicas : PersistSecret(r)
  BY <1>1, <1>2, <1>4 DEF PersistSecret, AtStage
<1>5. CASE \E r \in Replicas : Ending(r)
  <2>1. PICK r \in Replicas : Ending(r)
    BY <1>5
  <2>2. UNCHANGED secretVars \/ (pc[r] = "ApplySecret" /\ WriteSecret(r))
    BY <2>1, EndingKinds
  <2>3. QED BY <1>1, <1>2, <2>2 DEF secretVars
<1>6. CASE \/ UNCHANGED vars \/ UserEdit \/ TenantAppears
           \/ \E r \in Replicas, j \in Keys : Watch(r, j) \/ WatchSecret(r, j)
           \/ \E r \in Replicas : \/ StartReconcile(r) \/ EnsureClient(r) \/ WithoutDatabase(r)
                                  \/ PersistSecretSkipped(r) \/ Restart(r)
  BY <1>6 DEF vars, UserEdit, TenantAppears, Watch, WatchSecret, SyncSecret, StartReconcile, EnsureClient,
              WithoutDatabase, PersistSecretSkipped, Restart, RestartSecrets, secretVars
<1>7. QED BY <1>3, <1>4, <1>5, <1>6, StepKinds

(* A reconcile that writes the Secret from the present spec makes them match. *)
LEMMA PersistMatches ==
  ASSUME CInv, ChosenFollows, NEW r \in Replicas, NEW k \in Keys,
         PersistSecret(r), held[r].key = k, held[r].current
  PROVE  secrets'[k] # NoSecret /\ Matches(k)'
<1>1. /\ pc[r] = "ApplySecret" /\ ApplySecret(r, k, held[r].obj.uid, Written(r))
      /\ api' = api /\ held[r].obj = api[k]
  BY DEF PersistSecret, AtStage, WriteSecret, Written, runtimeVars, CInv, CopiesAreCurrent
<1>2. SecretInv(Data) /\ held[r].obj.uid \in Nat /\ Written(r) \in Data
  BY <1>1, WrittenOK DEF CInv, TypeOK, SecretInv
<1>3. PICK s \in Secret(Data) : secrets' = [secrets EXCEPT ![k] = s] /\ s.data = Written(r)
  BY <1>1, <1>2, ApplyEffect, ClientAssumption
<1>4. secrets'[k] = s /\ s # NoSecret
  BY <1>3, ClientAssumption DEF CInv, TypeOK, SecretTypeOK
<1>5. /\ Written(r).clientId = api[k].spec.row.clientId
      /\ api[k].spec.secret # Unset => Written(r).clientSecret = api[k].spec.secret
  BY <1>1 DEF Written, Wanted, ChosenFollows
<1>6. QED BY <1>1, <1>3, <1>4, <1>5 DEF Matches

LEMMA FollowStep ==
  ASSUME CInv, ~ReadErrors, ChosenFollows, FollowInv, [Next]_vars
  PROVE  FollowInv'
<1>. SUFFICES ASSUME NEW k \in Keys, api'[k] # Absent, secrets'[k] # NoSecret, \A r \in Replicas : ~Todo(r, k)'
              PROVE  Matches(k)'
  BY DEF FollowInv
<1>1. /\ api'[k] = api[k]
      /\ \A r \in Replicas : ~Todo(r, k) \/ (PersistSecret(r) /\ held[r].key = k /\ held[r].current)
  BY TodoStep, ProcessAssumption
<1>2. CASE \E r \in Replicas : PersistSecret(r) /\ held[r].key = k /\ held[r].current
  BY <1>2, PersistMatches
<1>3. CASE \A r \in Replicas : ~Todo(r, k)
  <2>1. secrets'[k] = secrets[k]
    BY <1>3, SecretsChange DEF Todo
  <2>2. Matches(k)
    BY <1>1, <1>3, <2>1 DEF FollowInv
  <2>3. QED BY <1>1, <2>1, <2>2 DEF Matches
<1>4. QED BY <1>1, <1>2, <1>3

(* A process at rest about a client has nothing to write for it. *)
LEMMA RestHasNoTodo ==
  ASSUME NEW k \in Keys, AtRest(k)
  PROVE  api[k] # Absent /\ \A r \in Replicas : ~Todo(r, k)
BY DEF AtRest, Quiescent, Todo

(* When the work about a client is done its Secret carries the present spec, *)
(* whichever processes have written it in which order, unless the read that  *)
(* decides how to write it has failed.                                       *)
THEOREM SecretFollows ==
  ASSUME ~ReadErrors
  PROVE  Spec => []SecretFollowsSpec
<1>1. Init => ChosenFollows /\ FollowInv
  BY DEF Init, RuntimeInit, ChosenFollows, FollowInv
<1>2. CInv /\ ChosenFollows /\ FollowInv /\ [Next]_vars => ChosenFollows' /\ FollowInv'
  BY ChosenStep, FollowStep
<1>3. FollowInv => SecretFollowsSpec
  BY RestHasNoTodo DEF FollowInv, Matches, SecretFollowsSpec
<1>4. QED BY <1>1, <1>2, <1>3, InitOK, TypeStep, PTL DEF Spec

-----------------------------------------------------------------------------
(* The Secret of a client that is never deleted. *)

(* An object that stays keeps its uid. *)
LEMMA UidStep ==
  ASSUME MaxDeletes = 0, CInv, [Next]_vars, NEW k \in Keys, api[k] # Absent
  PROVE  api'[k] # Absent /\ api'[k].uid = api[k].uid
<1>0. ~(deletes < MaxDeletes)
  BY DEF CInv, TypeOK
<1>1. CASE UserEdit
  <2>1. PICK j \in Keys, o \in Object \cup {Absent} :
           /\ Store(j, o)
           /\ \/ api[j] = Absent
              \/ o # Absent /\ o.uid = api[j].uid
    BY <1>0, <1>1, EditStores
  <2>2. QED BY <2>1 DEF Store, CInv, TypeOK, RuntimeTypeOK
<1>2. ASSUME NEW r \in Replicas, Ending(r)
      PROVE  api'[k] # Absent /\ api'[k].uid = api[k].uid
  <2>1. /\ Ends(r, ReadyObject(r)) /\ ReadyObject(r) \in Object /\ held[r].key \in Keys
        /\ ReadyObject(r).uid = held[r].obj.uid /\ ReadyObject(r) # Absent
    BY <1>2, EndingKinds, ReadyObjectOK, ClientAssumption
  <2>2. \/ api' = api
        \/ /\ held[r].obj = api[held[r].key]
           /\ api' = [api EXCEPT ![held[r].key] = ReadyObject(r)]
    BY <2>1, RuntimeStep, EndEffect
  <2>3. QED BY <2>1, <2>2 DEF CInv, TypeOK, RuntimeTypeOK
<1>3. CASE \/ UNCHANGED vars \/ TenantAppears \/ GarbageCollect
           \/ \E r \in Replicas, j \in Keys : Watch(r, j) \/ WatchSecret(r, j)
           \/ \E r \in Replicas : \/ StartReconcile(r) \/ EnsureClient(r) \/ WithoutDatabase(r)
                                  \/ PersistSecret(r) \/ PersistSecretSkipped(r) \/ Restart(r)
  <2>1. api' = api
    BY <1>3 DEF vars, runtimeVars, TenantAppears, GarbageCollect, Watch, Sync, WatchSecret, StartReconcile, Fetch,
                FetchMissing, EnsureClient, WithoutDatabase, PersistSecret, PersistSecretSkipped, Restart, RestartRuntime
  <2>2. QED BY <2>1
<1>4. QED BY <1>1, <1>2, <1>3, StepKinds

LEMMA SameUidStep ==
  ASSUME MaxDeletes = 0, CInv, SameUid, [Next]_vars
  PROVE  SameUid'
<1>0. \A k \in Keys : api[k] # Absent => api'[k] # Absent /\ api'[k].uid = api[k].uid
  BY UidStep
<1>1. ASSUME NEW r \in Replicas, NEW k \in Keys, cache'[r][k] # Absent
      PROVE  api'[k] # Absent /\ cache'[r][k].uid = api'[k].uid
  BY <1>0, <1>1, RuntimeStep, CopyStep DEF SameUid
<1>2. ASSUME NEW r \in Replicas, held'[r].key # NoKey
      PROVE  api'[held'[r].key] # Absent /\ held'[r].obj.uid = api'[held'[r].key].uid
  <2>0. held'[r].key \in Keys
    BY <1>2, TypeStep DEF CInv, TypeOK, RuntimeTypeOK
  <2>1. CASE held'[r].key = held[r].key /\ held'[r].obj = held[r].obj
    BY <1>0, <1>2, <2>0, <2>1 DEF SameUid
  <2>2. CASE held'[r] = NotHeld
    BY <1>2, <2>2 DEF NotHeld
  <2>3. ASSUME NEW k \in Keys, Fetch(r, k),
               held'[r] = [key |-> k, obj |-> cache[r][k], current |-> synced[r][k]]
        PROVE  api'[held'[r].key] # Absent /\ held'[r].obj.uid = api'[held'[r].key].uid
    BY <1>0, <2>3 DEF Fetch, SameUid
  <2>4. QED BY <2>1, <2>2, <2>3, RuntimeStep, WorkStep
<1>3. ASSUME NEW k \in Keys, secrets'[k] # NoSecret
      PROVE  Owned(k)'
  <2>1. secrets[k] # NoSecret => api[k] # Absent /\ api[k].uid = secrets[k].owner
    BY DEF SameUid, Owned
  <2>2. CASE secrets'[k] = secrets[k]
    BY <1>0, <1>3, <2>1, <2>2 DEF Owned
  <2>3. ASSUME NEW r \in Replicas, held[r].key = k,
               secrets'[k].owner = IF secrets[k] = NoSecret THEN held[r].obj.uid ELSE secrets[k].owner
        PROVE  Owned(k)'
    BY <1>0, <2>1, <2>3, AbsentAssumption DEF SameUid, Owned
  <2>4. QED BY <1>3, <2>2, <2>3, SecretsChange
<1>4. QED BY <1>1, <1>2, <1>3 DEF SameUid

LEMMA ExistsStep ==
  ASSUME ~ReadErrors, CInv, SameUid, ChosenFollows, ExistsInv, [Next]_vars
  PROVE  ExistsInv'
<1>. SUFFICES ASSUME NEW k \in Keys, api'[k] # Absent, \A r \in Replicas : ~Todo(r, k)'
              PROVE  secrets'[k] # NoSecret
  BY DEF ExistsInv
<1>1. /\ api'[k] = api[k]
      /\ \A r \in Replicas : ~Todo(r, k) \/ (PersistSecret(r) /\ held[r].key = k /\ held[r].current)
  BY TodoStep, ProcessAssumption
<1>2. CASE \E r \in Replicas : PersistSecret(r) /\ held[r].key = k /\ held[r].current
  BY <1>2, PersistMatches
<1>3. CASE \A r \in Replicas : ~Todo(r, k)
  <2>1. secrets[k] # NoSecret
    BY <1>1, <1>3 DEF ExistsInv
  <2>2. ~CollectSecret(k)
    BY <2>1 DEF SameUid, CollectSecret
  <2>3. QED BY <2>1, <2>2, SecretsChange, ClientAssumption
<1>4. QED BY <1>1, <1>2, <1>3

LEMMA PublishedStep ==
  ASSUME CInv, PublishedInv, [Next]_vars
  PROVE  PublishedInv'
<1>. SUFFICES ASSUME NEW r \in Replicas \ Disconnected, NEW k \in Keys, api'[k] # Absent, Quiescent(r, k)'
              PROVE  api'[k].status.id = api'[k].spec.row
  BY DEF PublishedInv
<1>1. /\ api'[k] = api[k]
      /\ Quiescent(r, k) \/ (held[r].key = k /\ Done(r))
  BY RuntimeStep, RestStep, ClientAssumption
<1>2. CASE Quiescent(r, k)
  BY <1>1, <1>2 DEF PublishedInv
<1>3. CASE held[r].key = k /\ Done(r)
  <2>1. pc[r] # "idle" /\ held'[r].key # k
    BY <1>3, AbsentAssumption DEF Quiescent, CInv, TypeOK
  <2>2. Ending(r) \/ Restart(r)
    BY <1>3, <2>1, StageStep DEF GoesOn
  <2>3. ~Restart(r) /\ ~Requeue(r)
    BY <1>1, <1>3 DEF Quiescent, Restart, RestartRuntime, Requeue, CInv, TypeOK, RuntimeTypeOK
  <2>4. UpdateStatus(r)
    BY <2>2, <2>3, EndingKinds
  <2>5. api'[k] = ReadyObject(r)
    BY <1>3, <2>4 DEF UpdateStatus, StatusStored, CInv, TypeOK, RuntimeTypeOK
  <2>6. QED BY <2>1, <2>5, ReadyObjectOK DEF Wanted
<1>4. QED BY <1>1, <1>2, <1>3

(* When the work about a client is done it is Ready for its present row and *)
(* its Secret exists: when no client is deleted, some process is connected  *)
(* to the database and no read of a Secret fails.                           *)
THEOREM SecretStays ==
  ASSUME ~ReadErrors, MaxDeletes = 0, \E r \in Replicas : r \notin Disconnected
  PROVE  Spec => []SecretAtRest
<1>1. Init => SameUid /\ ChosenFollows /\ ExistsInv /\ PublishedInv
  BY DEF Init, RuntimeInit, SecretInit, NotHeld, SameUid, ChosenFollows, ExistsInv, PublishedInv
<1>2. CInv /\ SameUid /\ ChosenFollows /\ ExistsInv /\ PublishedInv /\ [Next]_vars
      => SameUid' /\ ChosenFollows' /\ ExistsInv' /\ PublishedInv'
  BY SameUidStep, ChosenStep, ExistsStep, PublishedStep
<1>3. SameUid /\ ExistsInv /\ PublishedInv => SecretAtRest
  <2>. SUFFICES ASSUME SameUid, ExistsInv, PublishedInv, NEW k \in Keys, AtRest(k)
                PROVE  /\ api[k].status.id = api[k].spec.row
                       /\ secrets[k] # NoSecret /\ Owned(k)
    BY DEF SecretAtRest
  <2>1. secrets[k] # NoSecret /\ Owned(k)
    BY RestHasNoTodo DEF SameUid, ExistsInv
  <2>2. api[k].status.id = api[k].spec.row
    BY DEF AtRest, PublishedInv
  <2>3. QED BY <2>1, <2>2
<1>4. QED BY <1>1, <1>2, <1>3, InitOK, TypeStep, PTL DEF Spec

-----------------------------------------------------------------------------
(* What a Secret shows is backed. *)

(* A row is inserted under a tenant that exists.                            *)
RowTenants == \A w \in Row : clients[w] # Unset => w.tenant \in tenants

(* A Secret shows a client ID that the database has in some tenant.         *)
ShowsRow(k) == \E w \in Row : w.tenant \in tenants /\ w.clientId = secrets[k].data.clientId /\ clients[w] # Unset
ShowsRows == \A k \in Keys : secrets[k] # NoSecret => ShowsRow(k)

LEMMA RowTenantsStep ==
  ASSUME CInv, RowTenants, [Next]_vars
  PROVE  tenants \subseteq tenants' /\ RowTenants'
<1>1. ASSUME NEW r \in Replicas, pc[r] # "idle", Wanted(r).row.tenant \in tenants, clients' = Inserted(r)
      PROVE  \A w \in Row : clients'[w] # Unset => w.tenant \in tenants
  BY <1>1, ReadyObjectOK DEF RowTenants, Inserted, CInv, TypeOK, Object, Spec0, Wanted
<1>2. CASE \/ UNCHANGED vars \/ UserEdit \/ GarbageCollect
           \/ \E r \in Replicas, k \in Keys : Watch(r, k) \/ WatchSecret(r, k)
           \/ \E r \in Replicas : \/ StartReconcile(r) \/ WithoutDatabase(r) \/ PersistSecret(r)
                                  \/ PersistSecretSkipped(r) \/ Restart(r)
  <2>1. UNCHANGED <<clients, tenants>>
    BY <1>2 DEF vars, external, UserEdit, GarbageCollect, Watch, WatchSecret, StartReconcile, WithoutDatabase,
                PersistSecret, PersistSecretSkipped, Restart
  <2>2. QED BY <2>1 DEF RowTenants
<1>3. CASE TenantAppears
  BY <1>3 DEF TenantAppears, RowTenants
<1>4. CASE \E r \in Replicas : EnsureClient(r)
  BY <1>1, <1>4 DEF EnsureClient, AtStage, external, RowTenants
<1>5. CASE \E r \in Replicas : Ending(r)
  <2>1. PICK r \in Replicas : Ending(r)
    BY <1>5
  <2>2. /\ pc[r] # "idle" /\ tenants' = tenants
        /\ clients' = clients \/ (Wanted(r).row.tenant \in tenants /\ clients' = Inserted(r))
    BY <2>1, EndingKinds DEF external
  <2>3. QED BY <1>1, <2>1, <2>2 DEF RowTenants
<1>6. QED BY <1>2, <1>3, <1>4, <1>5, StepKinds

LEMMA ShowsRowsStep ==
  ASSUME Disconnected = {}, CInv, BackedInv, RowTenants, ShowsRows, [Next]_vars
  PROVE  ShowsRows'
<1>. SUFFICES ASSUME NEW k \in Keys, secrets'[k] # NoSecret
              PROVE  \E w \in Row : /\ w.tenant \in tenants' /\ w.clientId = secrets'[k].data.clientId
                                    /\ clients'[w] # Unset
  BY DEF ShowsRows, ShowsRow
<1>1. tenants \subseteq tenants' /\ \A w \in Row : clients[w] # Unset => clients'[w] # Unset
  BY RowTenantsStep, ClientsStep
<1>2. CASE secrets'[k] = secrets[k]
  BY <1>1, <1>2 DEF ShowsRows, ShowsRow
<1>3. ASSUME NEW r \in Replicas, pc[r] = "ApplySecret", secrets'[k].data = Written(r)
      PROVE  \E w \in Row : /\ w.tenant \in tenants' /\ w.clientId = secrets'[k].data.clientId
                            /\ clients'[w] # Unset
  <2>1. Wanted(r).row \in Row /\ clients[Wanted(r).row] # Unset
    BY <1>3, ReadyObjectOK DEF BackedInv, Wanted, Object, Spec0
  <2>2. secrets'[k].data.clientId = Wanted(r).row.clientId
    BY <1>3 DEF Written
  <2>3. QED BY <1>1, <2>1, <2>2 DEF RowTenants
<1>4. QED BY <1>2, <1>3, SecretsChange

(* The client ID that a Secret shows is one of a row, in a tenant that      *)
(* exists, when the processes are connected to the database.                *)
THEOREM SecretBacked ==
  ASSUME Disconnected = {}
  PROVE  Spec => []ShowsRows
<1>1. Init => BackedInv /\ RowTenants /\ ShowsRows
  BY DEF Init, RuntimeInit, SecretInit, NotHeld, BackedInv, CopiesIn, RowTenants, ShowsRows
<1>2. CInv /\ BackedInv /\ RowTenants /\ ShowsRows /\ [Next]_vars => BackedInv' /\ RowTenants' /\ ShowsRows'
  BY BackedStep, RowTenantsStep, ShowsRowsStep
<1>3. QED BY <1>1, <1>2, InitOK, TypeStep, PTL DEF Spec

(* A Secret once written stays, when no client is deleted.                  *)
SecretsStay == \A k \in Keys : secrets[k] # NoSecret => secrets'[k] # NoSecret

THEOREM SecretKept ==
  ASSUME MaxDeletes = 0
  PROVE  Spec => [][SecretsStay]_vars
<1>1. Init => SameUid
  BY DEF Init, RuntimeInit, SecretInit, NotHeld, SameUid
<1>2. CInv /\ SameUid /\ [Next]_vars => SecretsStay
  <2>. SUFFICES ASSUME CInv, SameUid, [Next]_vars, NEW k \in Keys, secrets[k] # NoSecret
                PROVE  secrets'[k] # NoSecret
    BY DEF SecretsStay
  <2>1. ~CollectSecret(k)
    BY DEF SameUid, CollectSecret
  <2>2. QED BY <2>1, SecretsChange, ClientAssumption
<1>3. CInv /\ SameUid /\ [Next]_vars => SameUid'
  BY SameUidStep
<1>4. CInv /\ SameUid /\ [Next]_vars => [SecretsStay]_vars
  BY <1>2
<1>5. QED BY <1>1, <1>3, <1>4, InitOK, TypeStep, PTL DEF Spec

-----------------------------------------------------------------------------
(* ClientController implements Provisioning: a step makes a tenant, inserts *)
(* a row or changes what one client shows, and nothing else.                *)
ClaimOf(o) == IF o = Absent THEN NoRow ELSE o.status.id

LEMMA MakeStep ==
  ASSUME api' = api,
         \/ Made' = Made
         \/ \E x \in Resource : Requires[x] \subseteq Made /\ Made' = Made \cup {x}
  PROVE  [Promise!Next]_<<Made, Claims>>
<1>1. Claims' = Claims
  BY DEF Claims
<1>2. QED BY <1>1 DEF Promise!Next, Promise!Make

LEMMA InsertionMakes ==
  ASSUME CInv, NEW r \in Replicas, pc[r] # "idle", Wanted(r).row.tenant \in tenants,
         api' = api, tenants' = tenants, clients' = Inserted(r)
  PROVE  [Promise!Next]_<<Made, Claims>>
<1>. DEFINE w == Wanted(r).row
<1>1. w \in Row
  BY ReadyObjectOK DEF Wanted, Object, Spec0
<1>. HIDE DEF w
<1>2. <<"client", w>> \in Resource /\ Requires[<<"client", w>>] = {<<"tenant", w.tenant>>}
  BY <1>1 DEF Resource, Requires
<1>3. <<"tenant", w.tenant>> \in Made
  BY DEF Made, w
<1>4. CASE clients[w] # Unset
  <2>1. clients' = clients
    BY <1>4 DEF Inserted, w
  <2>2. QED BY <2>1, MakeStep DEF Made
<1>5. CASE clients[w] = Unset
  <2>1. clients' = [clients EXCEPT ![w] = chosen[r].value] /\ chosen[r].value # Unset
    BY <1>5 DEF Inserted, w, CInv, TypeOK
  <2>2. {v \in Row : clients'[v] # Unset} = {v \in Row : clients[v] # Unset} \cup {w}
    BY <1>1, <2>1 DEF CInv, TypeOK
  <2>3. Made' = Made \cup {<<"client", w>>}
    BY <2>2 DEF Made
  <2>4. QED BY <1>2, <1>3, <2>3, MakeStep
<1>6. QED BY <1>4, <1>5

LEMMA ClaimStep ==
  ASSUME tenants' = tenants, clients' = clients, NEW k \in Keys, \A j \in Keys \ {k} : api'[j] = api[j],
         \/ ClaimOf(api'[k]) \in {NoRow, ClaimOf(api[k])}
         \/ \E w \in Row : ClaimOf(api'[k]) = w /\ w.tenant \in tenants /\ clients[w] # Unset
  PROVE  [Promise!Next]_<<Made, Claims>>
<1>1. Made' = Made
  BY DEF Made
<1>2. Claims' = [Claims EXCEPT ![k] = ClaimOf(api'[k])]
  BY DEF Claims, ClaimOf
<1>3. CASE ClaimOf(api'[k]) = NoRow
  BY <1>1, <1>2, <1>3 DEF Promise!Next, Promise!Withdraw
<1>4. CASE ClaimOf(api'[k]) = ClaimOf(api[k])
  <2>1. Claims' = Claims
    BY <1>4 DEF Claims, ClaimOf
  <2>2. QED BY <1>1, <2>1
<1>5. ASSUME NEW w \in Row, ClaimOf(api'[k]) = w, w.tenant \in tenants, clients[w] # Unset
      PROVE  Promise!Next
  <2>1. Needs[w] \subseteq Made
    BY <1>5 DEF Needs, Made
  <2>2. QED BY <1>1, <1>2, <1>5, <2>1 DEF Promise!Next, Promise!Claim
<1>6. QED BY <1>3, <1>4, <1>5

LEMMA PublishStep ==
  ASSUME CInv, BackedInv, RowTenants, NEW r \in Replicas, UpdateStatus(r) \/ UpdateStatusFails(r)
  PROVE  [Promise!Next]_<<Made, Claims>>
<1>1. /\ pc[r] = "UpdateStatus" /\ tenants' = tenants /\ clients' = clients
      /\ StatusStored(r, ReadyObject(r)) \/ NothingStored(r)
  BY DEF UpdateStatus, UpdateStatusFails, AtStage, external
<1>2. CASE NothingStored(r)
  BY <1>1, <1>2, MakeStep DEF NothingStored, Made
<1>3. CASE StatusStored(r, ReadyObject(r))
  <2>1. /\ held[r].key \in Keys /\ held[r].obj \in Object /\ ReadyObject(r) \in Object
        /\ ReadyObject(r).status.id = IF r \in Disconnected THEN held[r].obj.status.id ELSE Wanted(r).row
    BY <1>1, ReadyObjectOK
  <2>2. held[r].obj = api[held[r].key] /\ api' = [api EXCEPT ![held[r].key] = ReadyObject(r)]
    BY <1>3, <2>1, StatusStoredEffect DEF CInv, TypeOK, RuntimeInv
  <2>3. /\ \A j \in Keys \ {held[r].key} : api'[j] = api[j]
        /\ api'[held[r].key] = ReadyObject(r)
    BY <2>1, <2>2 DEF CInv, TypeOK, RuntimeTypeOK
  <2>4. CASE r \in Disconnected
    <3>1. ClaimOf(api'[held[r].key]) = ClaimOf(api[held[r].key])
      BY <2>1, <2>2, <2>3, <2>4, ClientAssumption DEF ClaimOf
    <3>2. QED BY <1>1, <2>1, <2>3, <3>1, ClaimStep
  <2>5. CASE r \notin Disconnected
    <3>1. Wanted(r).row \in Row /\ clients[Wanted(r).row] # Unset
      BY <1>1, <2>1, <2>5 DEF BackedInv, Wanted, Object, Spec0
    <3>2. Wanted(r).row.tenant \in tenants
      BY <3>1 DEF RowTenants
    <3>3. ClaimOf(api'[held[r].key]) = Wanted(r).row
      BY <2>1, <2>3, <2>5, ClientAssumption DEF ClaimOf
    <3>4. QED BY <1>1, <2>1, <2>3, <3>1, <3>2, <3>3, ClaimStep
  <2>6. QED BY <2>4, <2>5
<1>4. QED BY <1>1, <1>2, <1>3

LEMMA PromiseStep ==
  ASSUME CInv, BackedInv, RowTenants, [Next]_vars
  PROVE  [Promise!Next]_<<Made, Claims>>
<1>1. CASE UserEdit
  <2>1. PICK k \in Keys, o \in Object \cup {Absent} :
           /\ Store(k, o)
           /\ \/ o = Absent
              \/ o # Absent /\ o.status = NewStatus
              \/ api[k] # Absent /\ o # Absent /\ o.status = api[k].status
    BY <1>1, EditStores
  <2>2. api'[k] = o /\ \A j \in Keys \ {k} : api'[j] = api[j]
    BY <2>1 DEF Store, CInv, TypeOK, RuntimeTypeOK
  <2>3. ClaimOf(api'[k]) \in {NoRow, ClaimOf(api[k])}
    BY <2>1, <2>2 DEF ClaimOf, NewStatus
  <2>4. tenants' = tenants /\ clients' = clients
    BY <1>1 DEF UserEdit
  <2>5. QED BY <2>2, <2>3, <2>4, ClaimStep
<1>2. CASE TenantAppears
  <2>1. PICK t \in Tenants : tenants' = tenants \cup {t}
    BY <1>2 DEF TenantAppears
  <2>2. api' = api /\ clients' = clients
    BY <1>2 DEF TenantAppears, runtimeVars
  <2>3. Made' = Made \cup {<<"tenant", t>>}
    BY <2>1, <2>2 DEF Made
  <2>4. <<"tenant", t>> \in Resource /\ Requires[<<"tenant", t>>] = {}
    BY DEF Resource, Requires
  <2>5. QED BY <2>2, <2>3, <2>4, MakeStep
<1>3. CASE \/ UNCHANGED vars \/ GarbageCollect
           \/ \E r \in Replicas, k \in Keys : Watch(r, k) \/ WatchSecret(r, k)
           \/ \E r \in Replicas : \/ StartReconcile(r) \/ WithoutDatabase(r)
                                  \/ PersistSecret(r) \/ PersistSecretSkipped(r) \/ Restart(r)
  <2>1. UNCHANGED <<api, clients, tenants>>
    BY <1>3 DEF vars, external, runtimeVars, GarbageCollect, Watch, Sync, WatchSecret, StartReconcile, Fetch,
                FetchMissing, WithoutDatabase, PersistSecret, PersistSecretSkipped, Restart, RestartRuntime
  <2>2. QED BY <2>1, MakeStep DEF Made
<1>4. ASSUME NEW r \in Replicas, EnsureClient(r) \/ EnsureClientFails(r) \/ PersistSecretFails(r)
      PROVE  [Promise!Next]_<<Made, Claims>>
  <2>1. /\ pc[r] # "idle" /\ UNCHANGED <<api, tenants>>
        /\ clients' = clients \/ (Wanted(r).row.tenant \in tenants /\ clients' = Inserted(r))
    BY <1>4 DEF EnsureClient, EnsureClientFails, PersistSecretFails, AtStage, ReturnError, NothingStored,
                runtimeVars, external
  <2>2. CASE clients' = clients
    BY <2>1, <2>2, MakeStep DEF Made
  <2>3. QED BY <2>1, <2>2, InsertionMakes
<1>5. CASE \E r \in Replicas : UpdateStatus(r) \/ UpdateStatusFails(r)
  BY <1>5, PublishStep
<1>6. QED BY <1>1, <1>2, <1>3, <1>4, <1>5, StepKinds DEF Ending

(* The client controller keeps the promise of Provisioning: a row is        *)
(* inserted after its tenant and never taken back, and a status shows the   *)
(* ID of a row that exists, whichever processes have a database.            *)
THEOREM KeepsPromise == Spec => ImplementsProvisioning
<1>1. Init => Promise!Init
  BY DEF Init, RuntimeInit, Promise!Init, Made, Claims
<1>2. Init => BackedInv /\ RowTenants
  BY DEF Init, RuntimeInit, NotHeld, BackedInv, CopiesIn, RowTenants
<1>3. CInv /\ BackedInv /\ RowTenants /\ [Next]_vars => BackedInv' /\ RowTenants'
  BY BackedStep, RowTenantsStep
<1>4. CInv /\ BackedInv /\ RowTenants /\ [Next]_vars => [Promise!Next]_<<Made, Claims>>
  BY PromiseStep
<1>5. QED BY <1>1, <1>2, <1>3, <1>4, InitOK, TypeStep, PTL DEF Spec, ImplementsProvisioning, Promise!Spec
=============================================================================
