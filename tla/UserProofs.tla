----------------------------- MODULE UserProofs -----------------------------
(***************************************************************************)
(* Theorems about UserController, for every set of processes, users,       *)
(* tenants and passwords, and any number of edits.                         *)
(***************************************************************************)
EXTENDS UserController, SecretProofs

(* Types, and that copies marked up to date are the stored ones.            *)
UInv == TypeOK /\ CopiesAreCurrent /\ SecretCopiesAreCurrent

-----------------------------------------------------------------------------
(* The steps, and what they do to the runtime and to the Secrets. *)
Ending(r) ==
  \/ EnsureTenantFails(r) \/ EnsureUserFails(r) \/ PersistSecretFails(r)
  \/ UpdateStatus(r) \/ UpdateStatusFails(r)

Advances(r) == WithoutDatabase(r) \/ EnsureTenant(r) \/ EnsureUser(r) \/ PersistSecret(r)

LEMMA StepKinds ==
  ASSUME [Next]_vars
  PROVE  \/ UNCHANGED vars
         \/ UserEdit \/ GarbageCollect
         \/ \E k \in Keys : PollPassword(k) \/ TimeOut(k)
         \/ \E r \in Replicas, k \in Keys : Watch(r, k) \/ WatchSecret(r, k)
         \/ \E r \in Replicas : StartReconcile(r) \/ Advances(r) \/ Ending(r) \/ Restart(r)
BY DEF Next, Reconcile, Ending, Advances

(* A password provided or generated, as a spec asks for. *)
Fits(v, password) == IF password = Unset THEN v \in Generated ELSE v = password

LEMMA ChooseEffect ==
  ASSUME UInv, NEW r \in Replicas, NEW k \in Keys, cache[r][k] # Absent, Choose(r, k)
  PROVE  \E v \in Value : /\ chosen' = [chosen EXCEPT ![r] = v]
                          /\ Fits(v, cache[r][k].spec.password)
<1>1. cache[r][k].spec.password \in Given \cup {Unset}
  <2>1. cache[r][k] \in Object
    BY DEF UInv, TypeOK, RuntimeTypeOK
  <2>2. QED BY <2>1 DEF Object, Wish
<1>2. (\E v \in Generated : ~InUse(v)) => NewValue \in Generated
  BY DEF NewValue
<1>3. QED BY <1>1, <1>2 DEF Choose, Value, Fits

LEMMA ActiveObjectOK ==
  ASSUME UInv, NEW r \in Replicas, pc[r] # "idle"
  PROVE  /\ held[r].key \in Keys /\ held[r].obj \in Object /\ chosen[r] \in Value /\ chosen[r] # Unset
         /\ ActiveObject(r) \in Object
         /\ ActiveObject(r).uid = held[r].obj.uid /\ ActiveObject(r).spec = held[r].obj.spec
         /\ ActiveObject(r).status.password = IF held[r].obj.status.password = Unset THEN chosen[r]
                                              ELSE held[r].obj.status.password
<1>1. held[r].key \in Keys /\ held[r].obj \in Object /\ chosen[r] \in Value /\ chosen[r] # Unset
  BY DEF UInv, TypeOK, RuntimeTypeOK
<1>. DEFINE old == held[r].obj.status
            status == [password |-> IF old.password = Unset THEN chosen[r] ELSE old.password,
                       passwordGenerated |-> old.passwordGenerated \/ Wanted(r).password = Unset]
<1>2. old \in Status
  BY <1>1 DEF Object
<1>3. status \in Status
  BY <1>1, <1>2 DEF Status
<1>4. status.password = IF old.password = Unset THEN chosen[r] ELSE old.password
  OBVIOUS
<1>5. ActiveObject(r) = [held[r].obj EXCEPT !.status = status]
  BY DEF ActiveObject
<1>. HIDE DEF status
<1>6. /\ ActiveObject(r) \in Object /\ ActiveObject(r).status = status
      /\ ActiveObject(r).uid = held[r].obj.uid /\ ActiveObject(r).spec = held[r].obj.spec
  BY <1>1, <1>3, <1>5 DEF Object
<1>7. QED BY <1>1, <1>4, <1>6

LEMMA EndingKinds ==
  ASSUME UInv, NEW r \in Replicas, Ending(r)
  PROVE  /\ held[r].key \in Keys /\ pc[r] # "idle"
         /\ ActiveObject(r) \in Object /\ Ends(r, ActiveObject(r)) /\ End(r)
         /\ pc[r] = "UpdateStatus" \/ NothingStored(r)
         /\ UpdateStatus(r) \/ Requeue(r)
         /\ tenants' \in {tenants, tenants \cup {Wanted(r).tenant}}
         /\ users' = users \/ (pc[r] = "EnsureUser" /\ WriteUser(r))
         /\ UNCHANGED secretVars \/ (pc[r] = "ApplySecret" /\ WriteSecret(r))
         /\ UNCHANGED outside
<1>1. /\ pc[r] # "idle" /\ End(r) /\ UNCHANGED outside
      /\ pc[r] = "UpdateStatus" \/ NothingStored(r)
      /\ UpdateStatus(r) \/ Requeue(r)
  BY DEF Ending, EnsureTenantFails, EnsureUserFails, PersistSecretFails, UpdateStatus, UpdateStatusFails,
         ReturnError, AtStage
<1>2. /\ tenants' \in {tenants, tenants \cup {Wanted(r).tenant}}
      /\ users' = users \/ (pc[r] = "EnsureUser" /\ WriteUser(r))
      /\ UNCHANGED secretVars \/ (pc[r] = "ApplySecret" /\ WriteSecret(r))
  BY DEF Ending, EnsureTenantFails, EnsureUserFails, PersistSecretFails, UpdateStatus, UpdateStatusFails, AtStage,
         dbVars
<1>3. /\ StatusStored(r, ActiveObject(r)) \/ NothingStored(r)
      /\ Done(r) \/ Requeue(r)
  BY DEF Ending, EnsureTenantFails, EnsureUserFails, PersistSecretFails, UpdateStatus, UpdateStatusFails, ReturnError
<1>4. QED BY <1>1, <1>2, <1>3, ActiveObjectOK DEF Ends

(* A new object has a new status; an edit keeps the status and the uid.     *)
LEMMA EditStores ==
  ASSUME UInv, UserEdit
  PROVE  \E k \in Keys, o \in Object \cup {Absent} :
           /\ Store(k, o)
           /\ \/ o = Absent /\ deletes < MaxDeletes
              \/ api[k] = Absent /\ o # Absent /\ o.status = NewStatus
              \/ api[k] # Absent /\ o # Absent /\ o.status = api[k].status /\ o.uid = api[k].uid
<1>0. edits + 1 \in 1 .. MaxEdits
  BY UserAssumption DEF UserEdit, UInv, TypeOK
<1>1. ASSUME NEW k \in Keys, NEW s \in Wish, api[k] = Absent,
             Store(k, [uid |-> edits + 1, spec |-> s, status |-> NewStatus])
      PROVE  \E o \in Object : Store(k, o) /\ o.status = NewStatus
  <2>1. [uid |-> edits + 1, spec |-> s, status |-> NewStatus] \in Object
    BY <1>0 DEF Object, NewStatus, Status
  <2>2. QED BY <1>1, <2>1
<1>2. ASSUME NEW k \in Keys, NEW s \in Wish, api[k] # Absent, Store(k, [api[k] EXCEPT !.spec = s])
      PROVE  \E o \in Object : Store(k, o) /\ o.status = api[k].status /\ o.uid = api[k].uid
  <2>1. api[k] \in Object
    BY <1>2 DEF UInv, TypeOK, RuntimeTypeOK
  <2>2. /\ [api[k] EXCEPT !.spec = s] \in Object
        /\ [api[k] EXCEPT !.spec = s].status = api[k].status
        /\ [api[k] EXCEPT !.spec = s].uid = api[k].uid
    BY <2>1 DEF Object
  <2>3. QED BY <1>2, <2>2
<1>3. PICK k \in Keys : \/ \E s \in Wish : CreateObject(k, s) \/ EditSpec(k, s)
                        \/ CreateByCommand(k) \/ ResetPassword(k) \/ DeleteObject(k)
  BY DEF UserEdit
<1>4. CASE (\E s \in Wish : CreateObject(k, s)) \/ CreateByCommand(k)
  <2>1. \A t \in Tenants : [tenant |-> t, password |-> Unset] \in Wish
    BY DEF Wish
  <2>2. api[k] = Absent
    BY <1>4 DEF CreateObject, CreateByCommand
  <2>3. \E s \in Wish : Store(k, [uid |-> edits + 1, spec |-> s, status |-> NewStatus])
    BY <1>4, <2>1 DEF CreateObject, CreateByCommand
  <2>4. QED BY <1>1, <2>2, <2>3, UserAssumption
<1>5. CASE (\E s \in Wish : EditSpec(k, s)) \/ ResetPassword(k)
  <2>1. api[k] # Absent /\ api[k] \in Object
    BY <1>5 DEF EditSpec, ResetPassword, UInv, TypeOK, RuntimeTypeOK
  <2>2. \E s \in Wish : Store(k, [api[k] EXCEPT !.spec = s])
    <3>1. CASE \E s \in Wish : EditSpec(k, s)
      BY <3>1 DEF EditSpec
    <3>2. CASE ResetPassword(k)
      <4>1. [api[k].spec EXCEPT !.password = Unset] \in Wish
        BY <2>1 DEF Object, Wish
      <4>2. [api[k] EXCEPT !.spec.password = Unset] = [api[k] EXCEPT !.spec = [api[k].spec EXCEPT !.password = Unset]]
        OBVIOUS
      <4>3. QED BY <3>2, <4>1, <4>2 DEF ResetPassword
    <3>3. QED BY <1>5, <3>1, <3>2
  <2>3. QED BY <1>2, <2>1, <2>2, UserAssumption
<1>6. CASE DeleteObject(k)
  BY <1>6 DEF DeleteObject
<1>7. QED BY <1>3, <1>4, <1>5, <1>6

LEMMA RuntimeStep ==
  ASSUME UInv, [Next]_vars
  PROVE  RuntimeInv(Object) /\ RuntimeNext(Object)
<1>1. RuntimeInv(Object)
  BY DEF UInv, TypeOK, RuntimeInv
<1>2. CASE UNCHANGED vars
  BY <1>1, <1>2 DEF vars, runtimeVars, RuntimeNext
<1>3. CASE UserEdit
  BY <1>1, <1>3, EditStores DEF RuntimeNext
<1>4. CASE GarbageCollect \/ \E k \in Keys : PollPassword(k) \/ TimeOut(k)
  BY <1>1, <1>4 DEF GarbageCollect, PollPassword, TimeOut, RuntimeNext
<1>5. CASE \E r \in Replicas, k \in Keys : Watch(r, k) \/ WatchSecret(r, k)
  BY <1>1, <1>5 DEF Watch, WatchSecret, RuntimeNext
<1>6. CASE \E r \in Replicas : Advances(r)
  BY <1>1, <1>6 DEF Advances, WithoutDatabase, EnsureTenant, EnsureUser, PersistSecret, RuntimeNext
<1>7. CASE \E r \in Replicas : StartReconcile(r)
  BY <1>1, <1>7 DEF StartReconcile, RuntimeNext
<1>8. CASE \E r \in Replicas : Ending(r)
  BY <1>1, <1>8, EndingKinds DEF RuntimeNext
<1>9. CASE \E r \in Replicas : Restart(r)
  BY <1>1, <1>9 DEF Restart, RuntimeNext
<1>10. QED BY <1>2, <1>3, <1>4, <1>5, <1>6, <1>7, <1>8, <1>9, StepKinds

LEMMA SecretStep ==
  ASSUME UInv, [Next]_vars
  PROVE  SecretInv(Value) /\ SecretNext(Value)
<1>1. SecretInv(Value)
  BY DEF UInv, TypeOK, SecretInv
<1>2. ASSUME NEW r \in Replicas, pc[r] # "idle", WriteSecret(r)
      PROVE  SecretNext(Value)
  <2>1. held[r].key \in Keys /\ held[r].obj.uid \in Nat /\ chosen[r] \in Value
    BY <1>2, ActiveObjectOK DEF Object
  <2>2. QED BY <1>2, <2>1 DEF WriteSecret, SecretNext
<1>3. CASE UNCHANGED vars \/ UserEdit \/ \E k \in Keys : PollPassword(k) \/ TimeOut(k)
  BY <1>1, <1>3 DEF vars, UserEdit, PollPassword, TimeOut, secretVars, SecretNext
<1>4. CASE GarbageCollect
  BY <1>1, <1>4 DEF GarbageCollect, SecretNext
<1>5. CASE \E r \in Replicas, k \in Keys : Watch(r, k) \/ WatchSecret(r, k)
  BY <1>1, <1>5 DEF Watch, WatchSecret, SecretNext
<1>6. CASE \E r \in Replicas : StartReconcile(r)
  BY <1>1, <1>6 DEF StartReconcile, SecretNext
<1>7. CASE \E r \in Replicas : Advances(r)
  BY <1>1, <1>2, <1>7 DEF Advances, WithoutDatabase, EnsureTenant, EnsureUser, PersistSecret, AtStage, SecretNext
<1>8. CASE \E r \in Replicas : Ending(r)
  BY <1>1, <1>2, <1>8, EndingKinds DEF SecretNext
<1>9. CASE \E r \in Replicas : Restart(r)
  BY <1>1, <1>9 DEF Restart, SecretNext
<1>10. QED BY <1>1, <1>3, <1>4, <1>5, <1>6, <1>7, <1>8, <1>9, StepKinds

(* Tenants and rows are there to stay; a row is written by a reconcile of   *)
(* its user.                                                                *)
LEMMA DbStep ==
  ASSUME UInv, [Next]_vars
  PROVE  /\ tenants \subseteq tenants' /\ tenants' \subseteq Tenants
         /\ users' \in [Row -> Value \cup {Unset}]
         /\ \A w \in Row : \/ users'[w] = users[w]
                           \/ users'[w] # Unset /\ \E r \in Replicas : /\ pc[r] = "EnsureUser" /\ WriteUser(r)
                                                                       /\ w = RowOf(r)
<1>0. users \in [Row -> Value \cup {Unset}] /\ tenants \subseteq Tenants
  BY DEF UInv, TypeOK
<1>. DEFINE RowsOK == /\ users' \in [Row -> Value \cup {Unset}]
                      /\ \A w \in Row :
                           \/ users'[w] = users[w]
                           \/ users'[w] # Unset /\ \E r \in Replicas : /\ pc[r] = "EnsureUser" /\ WriteUser(r)
                                                                       /\ w = RowOf(r)
            TenantsOK == tenants \subseteq tenants' /\ tenants' \subseteq Tenants
<1>1. ASSUME NEW r \in Replicas, pc[r] = "EnsureUser", WriteUser(r)
      PROVE  RowsOK
  <2>1. RowOf(r) \in Row /\ chosen[r] \in Value /\ chosen[r] # Unset
    BY <1>1, ActiveObjectOK DEF RowOf, Row, Wanted, Object, Wish
  <2>2. users' = users \/ users' = [users EXCEPT ![RowOf(r)] = chosen[r]]
    BY <1>1 DEF WriteUser
  <2>3. QED BY <1>0, <1>1, <2>1, <2>2
<1>2. ASSUME NEW r \in Replicas, pc[r] # "idle"
      PROVE  Wanted(r).tenant \in Tenants
  BY <1>2, ActiveObjectOK DEF Wanted, Object, Wish
<1>3. users' = users => RowsOK
  BY <1>0
<1>4. tenants' = tenants => TenantsOK
  BY <1>0
<1>5. CASE \/ UNCHANGED vars \/ UserEdit \/ GarbageCollect \/ \E k \in Keys : PollPassword(k) \/ TimeOut(k)
           \/ \E r \in Replicas, k \in Keys : Watch(r, k) \/ WatchSecret(r, k)
           \/ \E r \in Replicas : \/ StartReconcile(r) \/ WithoutDatabase(r) \/ PersistSecret(r) \/ Restart(r)
  <2>1. UNCHANGED dbVars
    BY <1>5 DEF vars, UserEdit, GarbageCollect, PollPassword, TimeOut, Watch, WatchSecret, StartReconcile,
                WithoutDatabase, PersistSecret, Restart
  <2>2. QED BY <1>3, <1>4, <2>1 DEF dbVars
<1>6. CASE \E r \in Replicas : EnsureTenant(r)
  <2>1. RowsOK
    BY <1>3, <1>6 DEF EnsureTenant
  <2>2. TenantsOK
    BY <1>0, <1>2, <1>6 DEF EnsureTenant, AtStage
  <2>3. QED BY <2>1, <2>2
<1>7. CASE \E r \in Replicas : EnsureUser(r)
  <2>1. RowsOK
    BY <1>1, <1>7 DEF EnsureUser, AtStage
  <2>2. TenantsOK
    BY <1>4, <1>7 DEF EnsureUser
  <2>3. QED BY <2>1, <2>2
<1>8. CASE \E r \in Replicas : Ending(r)
  <2>1. PICK r \in Replicas : Ending(r)
    BY <1>8
  <2>2. RowsOK
    BY <1>1, <1>3, <2>1, EndingKinds
  <2>3. pc[r] # "idle" /\ tenants' \in {tenants, tenants \cup {Wanted(r).tenant}}
    BY <2>1, EndingKinds
  <2>4. TenantsOK
    BY <1>0, <1>2, <2>3
  <2>5. QED BY <2>2, <2>4
<1>9. QED BY <1>5, <1>6, <1>7, <1>8, StepKinds DEF Advances

-----------------------------------------------------------------------------
(* Types. *)
LEMMA TypeStep ==
  ASSUME UInv, [Next]_vars
  PROVE  UInv'
<1>0. /\ RuntimeInv(Object)' /\ SecretInv(Value)'
      /\ users' \in [Row -> Value \cup {Unset}] /\ tenants' \subseteq Tenants
  BY RuntimeStep, RuntimeStepOK, SecretStep, SecretStepOK, DbStep, UserAssumption
<1>. DEFINE WorkOK == /\ pc \in [Replicas -> Stages]
                      /\ chosen \in [Replicas -> Value \cup {Unset}]
                      /\ \A r \in Replicas : /\ pc[r] = "idle" <=> held[r].key = NoKey
                                             /\ pc[r] = "idle" <=> chosen[r] = Unset
            CliOK == /\ awaiting \subseteq Commands /\ shown \subseteq Commands
                     /\ revoked \in [Keys -> Given \cup {Unset}]
            BoundsOK == edits \in 0 .. MaxEdits /\ deletes \in 0 .. MaxDeletes
<1>1. WorkOK /\ CliOK /\ BoundsOK
  BY DEF UInv, TypeOK
<1>2. WorkOK' /\ CliOK' /\ BoundsOK' => UInv'
  BY <1>0 DEF UInv, TypeOK, RuntimeInv, SecretInv
<1>3. UNCHANGED outside => CliOK' /\ BoundsOK'
  BY <1>1 DEF outside, cli
<1>4. CASE UserEdit
  <2>1. PICK k \in Keys, o \in Object \cup {Absent} : Store(k, o)
    BY <1>4, EditStores
  <2>2. \A q \in Replicas : held'[q].key = held[q].key
    BY <2>1 DEF Store, UInv, TypeOK, RuntimeTypeOK
  <2>3. BoundsOK'
    <3>1. edits < MaxEdits /\ edits' = edits + 1
      BY <1>4 DEF UserEdit
    <3>2. deletes' = deletes \/ (deletes < MaxDeletes /\ deletes' = deletes + 1)
      BY <1>4 DEF UserEdit, CreateObject, CreateByCommand, EditSpec, ResetPassword, DeleteObject
    <3>3. QED BY <1>1, <3>1, <3>2, UserAssumption
  <2>4. UNCHANGED <<pc, chosen>>
    BY <1>4 DEF UserEdit
  <2>5. CliOK'
    <3>1. \A j \in Keys : api[j] # Absent => api[j].spec.password \in Given \cup {Unset}
      BY DEF UInv, TypeOK, RuntimeTypeOK, Object, Wish
    <3>2. QED BY <1>1, <1>4, <3>1
                 DEF UserEdit, CreateObject, CreateByCommand, EditSpec, ResetPassword, DeleteObject, cli
  <2>6. QED BY <1>1, <1>2, <2>2, <2>3, <2>4, <2>5
<1>5. CASE \E k \in Keys : PollPassword(k) \/ TimeOut(k)
  <2>1. UNCHANGED <<held, pc, chosen, edits, deletes>> /\ CliOK'
    BY <1>1, <1>5 DEF PollPassword, TimeOut, runtimeVars
  <2>2. QED BY <1>1, <1>2, <2>1
<1>6. CASE \/ UNCHANGED vars \/ GarbageCollect
           \/ \E r \in Replicas, k \in Keys : Watch(r, k) \/ WatchSecret(r, k)
  <2>1. UNCHANGED <<held, pc, chosen, outside>>
    BY <1>6 DEF vars, GarbageCollect, Watch, Sync, WatchSecret, runtimeVars
  <2>2. QED BY <1>1, <1>2, <1>3, <2>1
<1>7. ASSUME NEW r \in Replicas, StartReconcile(r)
      PROVE  UInv'
  <2>1. UNCHANGED outside
    BY <1>7 DEF StartReconcile
  <2>2. PICK k \in Keys : \/ Fetch(r, k) /\ Choose(r, k) /\ GoTo(r, "EnsureTenant")
                          \/ FetchMissing(r, k) /\ UNCHANGED <<pc, chosen>>
    BY <1>7 DEF StartReconcile
  <2>3. CASE FetchMissing(r, k) /\ UNCHANGED <<pc, chosen>>
    BY <1>1, <1>2, <1>3, <2>1, <2>3 DEF FetchMissing
  <2>4. CASE Fetch(r, k) /\ Choose(r, k) /\ GoTo(r, "EnsureTenant")
    <3>1. PICK v \in Value : chosen' = [chosen EXCEPT ![r] = v]
      BY <2>4, ChooseEffect DEF Fetch
    <3>2. held'[r].key = k /\ \A q \in Replicas \ {r} : held'[q] = held[q]
      BY <2>4 DEF Fetch, UInv, TypeOK, RuntimeTypeOK
    <3>3. /\ pc' \in [Replicas -> Stages] /\ pc'[r] = "EnsureTenant"
          /\ \A q \in Replicas \ {r} : pc'[q] = pc[q]
      BY <1>1, <2>4 DEF GoTo, Stages
    <3>4. /\ chosen' \in [Replicas -> Value \cup {Unset}]
          /\ chosen'[r] = v /\ \A q \in Replicas \ {r} : chosen'[q] = chosen[q]
      BY <1>1, <3>1
    <3>5. WorkOK'
      BY <1>1, <3>2, <3>3, <3>4, AbsentAssumption, UserAssumption
    <3>6. QED BY <1>2, <1>3, <2>1, <3>5
  <2>5. QED BY <2>2, <2>3, <2>4
<1>8. ASSUME NEW r \in Replicas, NEW s \in Stages \ {"idle"}, pc[r] # "idle", GoTo(r, s),
             UNCHANGED <<held, chosen, outside>>
      PROVE  UInv'
  <2>1. WorkOK'
    BY <1>1, <1>8 DEF GoTo
  <2>2. QED BY <1>2, <1>3, <1>8, <2>1
<1>9. CASE \E r \in Replicas : Advances(r)
  BY <1>8, <1>9 DEF Advances, WithoutDatabase, EnsureTenant, EnsureUser, PersistSecret, AtStage, Stages, runtimeVars
<1>10. ASSUME NEW r \in Replicas, End(r), held'[r] = NotHeld,
              \A q \in Replicas \ {r} : held'[q].key = held[q].key /\ held'[q].obj = held[q].obj,
              UNCHANGED outside
       PROVE  UInv'
  <2>1. WorkOK'
    <3>1. /\ pc' \in [Replicas -> Stages] /\ pc'[r] = "idle"
          /\ \A q \in Replicas \ {r} : pc'[q] = pc[q]
      BY <1>1, <1>10 DEF End, GoTo, Stages
    <3>2. /\ chosen' \in [Replicas -> Value \cup {Unset}]
          /\ chosen'[r] = Unset /\ \A q \in Replicas \ {r} : chosen'[q] = chosen[q]
      BY <1>1, <1>10 DEF End
    <3>3. QED BY <1>1, <1>10, <3>1, <3>2 DEF NotHeld
  <2>2. QED BY <1>2, <1>3, <1>10, <2>1
<1>11. ASSUME NEW r \in Replicas, Ending(r)
       PROVE  UInv'
  <2>1. Ends(r, ActiveObject(r)) /\ ActiveObject(r) \in Object /\ End(r) /\ UNCHANGED outside
    BY <1>11, EndingKinds
  <2>2. held'[r] = NotHeld
    BY <2>1, RuntimeStep, EndEffect
  <2>3. \A q \in Replicas \ {r} : held'[q].key = held[q].key /\ held'[q].obj = held[q].obj
    BY <2>1, RuntimeStep, EndEffect
  <2>4. QED BY <1>10, <2>1, <2>2, <2>3
<1>12. ASSUME NEW r \in Replicas, Restart(r)
       PROVE  UInv'
  <2>1. held'[r] = NotHeld /\ \A q \in Replicas \ {r} : held'[q] = held[q]
    BY <1>12 DEF Restart, RestartRuntime, UInv, TypeOK, RuntimeTypeOK
  <2>2. QED BY <1>10, <1>12, <2>1 DEF Restart
<1>13. QED BY <1>4, <1>5, <1>6, <1>7, <1>9, <1>11, <1>12, StepKinds

LEMMA InitOK ==
  ASSUME Init
  PROVE  UInv
<1>1. RuntimeInv(Object) /\ SecretInv(Value)
  BY RuntimeInitOK, SecretInitOK DEF Init
<1>2. QED BY <1>1, UserAssumption
          DEF Init, RuntimeInit, NotHeld, Stages, UInv, TypeOK, RuntimeInv, SecretInv

(* Type correctness, and that copies marked up to date are the stored ones. *)
THEOREM TypeCorrect == Spec => [](TypeOK /\ CopiesAreCurrent /\ SecretCopiesAreCurrent)
<1>1. UInv /\ [Next]_vars => UInv'
  BY TypeStep
<1>2. UInv => TypeOK /\ CopiesAreCurrent /\ SecretCopiesAreCurrent
  BY DEF UInv
<1>3. QED BY <1>1, <1>2, InitOK, PTL DEF Spec

-----------------------------------------------------------------------------
(* How a process comes to the stage it is in. *)
Starts(r, k) ==
  /\ Fetch(r, k) /\ held'[r].key = k /\ held'[r].obj = cache[r][k]
  /\ pc'[r] = "EnsureTenant" /\ Fits(chosen'[r], cache[r][k].spec.password)

GoesOn(r) ==
  /\ held'[r].key = held[r].key /\ held'[r].obj = held[r].obj
  /\ pc[r] # "idle" /\ chosen'[r] = chosen[r]
  /\ \/ pc'[r] = pc[r]
     \/ WithoutDatabase(r) /\ pc'[r] = "ApplySecret"
     \/ EnsureTenant(r) /\ pc'[r] = "EnsureUser"
     \/ EnsureUser(r) /\ pc'[r] = "ApplySecret"
     \/ PersistSecret(r) /\ pc'[r] = "UpdateStatus"

LEMMA StageStep ==
  ASSUME UInv, [Next]_vars, NEW r \in Replicas
  PROVE  \/ pc'[r] = "idle" /\ (pc[r] = "idle" \/ Ending(r) \/ Restart(r))
         \/ pc[r] = "idle" /\ \E k \in Keys : Starts(r, k)
         \/ GoesOn(r)
<1>. DEFINE Same == /\ held'[r].key = held[r].key /\ held'[r].obj = held[r].obj
                    /\ pc'[r] = pc[r] /\ chosen'[r] = chosen[r]
<1>0. Same => GoesOn(r) \/ (pc'[r] = "idle" /\ pc[r] = "idle")
  BY DEF GoesOn
<1>1. CASE UserEdit
  <2>1. PICK k \in Keys, o \in Object \cup {Absent} : Store(k, o)
    BY <1>1, EditStores
  <2>2. Same
    BY <1>1, <2>1 DEF Store, UserEdit, UInv, TypeOK, RuntimeTypeOK
  <2>3. QED BY <1>0, <2>2
<1>2. CASE \/ UNCHANGED vars \/ GarbageCollect
           \/ \E k \in Keys : PollPassword(k) \/ TimeOut(k)
           \/ \E q \in Replicas, k \in Keys : Watch(q, k) \/ WatchSecret(q, k)
  <2>1. UNCHANGED <<held, pc, chosen>>
    BY <1>2 DEF vars, GarbageCollect, PollPassword, TimeOut, Watch, Sync, WatchSecret, runtimeVars
  <2>2. QED BY <1>0, <2>1
<1>3. ASSUME NEW q \in Replicas, q # r, StartReconcile(q) \/ Advances(q)
      PROVE  Same
  <2>1. CASE StartReconcile(q)
    <3>1. PICK k \in Keys : \/ Fetch(q, k) /\ Choose(q, k) /\ GoTo(q, "EnsureTenant")
                            \/ FetchMissing(q, k) /\ UNCHANGED <<pc, chosen>>
      BY <2>1 DEF StartReconcile
    <3>2. CASE FetchMissing(q, k) /\ UNCHANGED <<pc, chosen>>
      BY <3>2 DEF FetchMissing
    <3>3. CASE Fetch(q, k) /\ Choose(q, k) /\ GoTo(q, "EnsureTenant")
      <4>1. \E v \in Value : chosen' = [chosen EXCEPT ![q] = v]
        BY <3>3, ChooseEffect DEF Fetch
      <4>2. QED BY <1>3, <3>3, <4>1 DEF Fetch, GoTo, UInv, TypeOK, RuntimeTypeOK
    <3>4. QED BY <3>1, <3>2, <3>3
  <2>2. CASE Advances(q)
    BY <1>3, <2>2 DEF Advances, WithoutDatabase, EnsureTenant, EnsureUser, PersistSecret, GoTo, runtimeVars,
                      UInv, TypeOK
  <2>3. QED BY <1>3, <2>1, <2>2
<1>4. CASE StartReconcile(r)
  <2>1. PICK k \in Keys : \/ Fetch(r, k) /\ Choose(r, k) /\ GoTo(r, "EnsureTenant")
                          \/ FetchMissing(r, k) /\ UNCHANGED <<pc, chosen>>
    BY <1>4 DEF StartReconcile
  <2>2. CASE FetchMissing(r, k) /\ UNCHANGED <<pc, chosen>>
    <3>1. Same
      BY <2>2 DEF FetchMissing
    <3>2. QED BY <1>0, <3>1
  <2>3. CASE Fetch(r, k) /\ Choose(r, k) /\ GoTo(r, "EnsureTenant")
    <3>1. PICK v \in Value : chosen' = [chosen EXCEPT ![r] = v] /\ Fits(v, cache[r][k].spec.password)
      BY <2>3, ChooseEffect DEF Fetch
    <3>2. chosen'[r] = v
      BY <3>1 DEF UInv, TypeOK
    <3>3. held'[r].key = k /\ held'[r].obj = cache[r][k] /\ pc[r] = "idle" /\ pc'[r] = "EnsureTenant"
      BY <2>3 DEF Fetch, GoTo, UInv, TypeOK, RuntimeTypeOK
    <3>4. QED BY <2>3, <3>1, <3>2, <3>3 DEF Starts
  <2>4. QED BY <2>1, <2>2, <2>3
<1>5. CASE Advances(r)
  BY <1>5 DEF Advances, WithoutDatabase, EnsureTenant, EnsureUser, PersistSecret, AtStage, GoTo, runtimeVars,
              GoesOn, UInv, TypeOK
<1>6. ASSUME NEW q \in Replicas, End(q), held'[q] = NotHeld,
             \A p \in Replicas \ {q} : held'[p].key = held[p].key /\ held'[p].obj = held[p].obj
      PROVE  Same \/ (q = r /\ pc'[r] = "idle")
  BY <1>6 DEF End, GoTo, UInv, TypeOK
<1>7. ASSUME NEW q \in Replicas, Ending(q)
      PROVE  Same \/ (q = r /\ pc'[r] = "idle")
  <2>1. Ends(q, ActiveObject(q)) /\ ActiveObject(q) \in Object /\ End(q)
    BY <1>7, EndingKinds
  <2>2. held'[q] = NotHeld
    BY <2>1, RuntimeStep, EndEffect
  <2>3. \A p \in Replicas \ {q} : held'[p].key = held[p].key /\ held'[p].obj = held[p].obj
    BY <2>1, RuntimeStep, EndEffect
  <2>4. QED BY <1>6, <2>1, <2>2, <2>3
<1>8. ASSUME NEW q \in Replicas, Restart(q)
      PROVE  Same \/ (q = r /\ pc'[r] = "idle")
  <2>1. held'[q] = NotHeld /\ \A p \in Replicas \ {q} : held'[p] = held[p]
    BY <1>8 DEF Restart, RestartRuntime, UInv, TypeOK, RuntimeTypeOK
  <2>2. QED BY <1>6, <1>8, <2>1 DEF Restart
<1>. HIDE DEF Same
<1>9. QED BY <1>0, <1>1, <1>2, <1>3, <1>4, <1>5, <1>7, <1>8, StepKinds

-----------------------------------------------------------------------------
(* How the stored object of k changes. *)
Publishes(r, k) == held[r].key = k /\ pc[r] = "UpdateStatus" /\ held[r].obj = api[k] /\ api'[k] = ActiveObject(r)

LEMMA ObjectStep ==
  ASSUME UInv, [Next]_vars, NEW k \in Keys
  PROVE  \/ api'[k] = api[k]
         \/ api'[k] = Absent /\ UserEdit /\ deletes < MaxDeletes
         \/ api[k] = Absent /\ api'[k] # Absent /\ api'[k].status = NewStatus
         \/ /\ api[k] # Absent /\ api'[k] # Absent /\ UserEdit
            /\ api'[k].status = api[k].status /\ api'[k].uid = api[k].uid
         \/ \E r \in Replicas : Publishes(r, k)
<1>1. CASE UserEdit
  <2>1. PICK j \in Keys, o \in Object \cup {Absent} :
           /\ Store(j, o)
           /\ \/ o = Absent /\ deletes < MaxDeletes
              \/ api[j] = Absent /\ o # Absent /\ o.status = NewStatus
              \/ api[j] # Absent /\ o # Absent /\ o.status = api[j].status /\ o.uid = api[j].uid
    BY <1>1, EditStores
  <2>2. api'[k] = api[k] \/ (j = k /\ api'[k] = o)
    BY <2>1 DEF Store, UInv, TypeOK, RuntimeTypeOK
  <2>3. QED BY <1>1, <2>1, <2>2
<1>2. ASSUME NEW r \in Replicas, Ending(r)
      PROVE  api'[k] = api[k] \/ Publishes(r, k)
  <2>1. /\ Ends(r, ActiveObject(r)) /\ ActiveObject(r) \in Object /\ held[r].key \in Keys
        /\ pc[r] = "UpdateStatus" \/ NothingStored(r)
    BY <1>2, EndingKinds
  <2>2. \/ NothingStored(r) /\ api' = api
        \/ /\ held[r].obj = api[held[r].key]
           /\ api' = [api EXCEPT ![held[r].key] = ActiveObject(r)]
    BY <2>1, RuntimeStep, EndEffect
  <2>3. api' = api \/ pc[r] = "UpdateStatus"
    BY <2>1, <2>2 DEF NothingStored
  <2>4. QED BY <2>1, <2>2, <2>3 DEF Publishes, UInv, TypeOK, RuntimeTypeOK
<1>3. CASE \/ UNCHANGED vars \/ GarbageCollect
           \/ \E j \in Keys : PollPassword(j) \/ TimeOut(j)
           \/ \E r \in Replicas, j \in Keys : Watch(r, j) \/ WatchSecret(r, j)
           \/ \E r \in Replicas : StartReconcile(r) \/ Advances(r) \/ Restart(r)
  <2>1. api' = api
    BY <1>3 DEF vars, runtimeVars, GarbageCollect, PollPassword, TimeOut, Watch, Sync, WatchSecret, StartReconcile,
                Fetch, FetchMissing, Advances, WithoutDatabase, EnsureTenant, EnsureUser, PersistSecret, Restart,
                RestartRuntime
  <2>2. QED BY <2>1
<1>4. QED BY <1>1, <1>2, <1>3, StepKinds

(* The status keeps the first password it is given, whichever processes     *)
(* with whichever copies publish theirs.                                    *)
THEOREM PasswordKept == Spec => PopulatedOnce
<1>. DEFINE Once == \A k \in Keys :
                      (/\ api[k] # Absent /\ api'[k] # Absent /\ api'[k].uid = api[k].uid
                       /\ api[k].status.password # Unset)
                      => api'[k].status.password = api[k].status.password
<1>1. UInv /\ [Next]_vars => Once
  <2>. SUFFICES ASSUME UInv, [Next]_vars, NEW k \in Keys, api[k] # Absent, api'[k] # Absent,
                       api[k].status.password # Unset
                PROVE  api'[k].status.password = api[k].status.password
    OBVIOUS
  <2>1. ASSUME NEW r \in Replicas, Publishes(r, k)
        PROVE  api'[k].status.password = api[k].status.password
    BY <2>1, ActiveObjectOK DEF Publishes
  <2>2. QED BY <2>1, ObjectStep
<1>. HIDE DEF Once
<1>2. UInv /\ [Next]_vars => [Once]_vars
  BY <1>1
<1>3. Spec => [][Once]_vars
  <2>1. UInv /\ [Next]_vars => UInv'
    BY TypeStep
  <2>2. QED BY <1>2, <2>1, InitOK, PTL DEF Spec
<1>4. QED BY <1>3 DEF PopulatedOnce, Once

-----------------------------------------------------------------------------
(* The Secret follows the spec. *)

(* A reconcile works with a password that its copy of the spec asks for.    *)
ChosenFollows == \A r \in Replicas : pc[r] # "idle" => Fits(chosen[r], Wanted(r).password)

(* Process r is still going to write the Secret of k from the present spec. *)
Todo(r, k) ==
  \/ ~synced[r][k] \/ k \in queue[r]
  \/ held[r].key = k /\ (~held[r].current \/ pc[r] \in {"EnsureTenant", "EnsureUser", "ApplySecret"})

(* The Secret of k has a password that the present spec asks for, or some   *)
(* process will write it.                                                   *)
Matches(k) == Fits(secrets[k].data, api[k].spec.password)
FollowInv ==
  \A k \in Keys :
    api[k] # Absent /\ secrets[k] # NoSecret /\ (\A r \in Replicas : ~Todo(r, k)) => Matches(k)

LEMMA ChosenStep ==
  ASSUME UInv, ChosenFollows, [Next]_vars
  PROVE  ChosenFollows'
<1>. SUFFICES ASSUME NEW r \in Replicas, pc'[r] # "idle"
              PROVE  Fits(chosen'[r], held'[r].obj.spec.password)
  BY DEF ChosenFollows, Wanted, Fits
<1>1. CASE GoesOn(r)
  BY <1>1 DEF GoesOn, ChosenFollows, Wanted
<1>2. CASE \E k \in Keys : Starts(r, k)
  BY <1>2 DEF Starts
<1>3. QED BY <1>1, <1>2, StageStep

(* Process r comes to have nothing to write for k only by writing it, from  *)
(* an up-to-date copy.                                                      *)
LEMMA TodoStep ==
  ASSUME UInv, [Next]_vars, NEW r \in Replicas, NEW k \in Keys, api'[k] # Absent, ~Todo(r, k)'
  PROVE  /\ api'[k] = api[k]
         /\ ~Todo(r, k) \/ (PersistSecret(r) /\ held[r].key = k /\ held[r].current)
<1>0. /\ synced'[r][k] /\ k \notin queue'[r]
      /\ held'[r].key = k => held'[r].current /\ pc'[r] \notin {"EnsureTenant", "EnsureUser", "ApplySecret"}
  BY DEF Todo
<1>1. api'[k] = api[k] /\ ~Restart(r) /\ ((synced[r][k] /\ k \notin queue[r]) \/ Fetch(r, k))
  BY <1>0, RuntimeStep, QueueStep DEF Restart
<1>2. CASE pc'[r] = "idle"
  <2>1. CASE pc[r] = "idle"
    BY <1>0, <1>1, <1>2, <2>1, AbsentAssumption, TypeStep DEF Todo, Fetch, UInv, TypeOK, RuntimeTypeOK
  <2>2. CASE Ending(r)
    <3>1. pc[r] # "idle" /\ (UpdateStatus(r) \/ Requeue(r))
      BY <2>2, EndingKinds
    <3>2. synced[r][k] /\ k \notin queue[r]
      BY <1>1, <3>1, AbsentAssumption DEF Fetch, UInv, TypeOK
    <3>3. held[r].key = k => UpdateStatus(r)
      BY <1>0, <3>1 DEF Requeue, UInv, TypeOK, RuntimeTypeOK
    <3>4. UpdateStatus(r) => held[r].current /\ pc[r] = "UpdateStatus"
      BY DEF UpdateStatus, AtStage, StatusStored
    <3>5. QED BY <1>1, <3>2, <3>3, <3>4 DEF Todo
  <2>3. QED BY <1>1, <1>2, <2>1, <2>2, StageStep DEF GoesOn
<1>3. CASE pc'[r] # "idle"
  <2>1. CASE \E j \in Keys : Starts(r, j)
    BY <1>0, <1>1, <2>1, AbsentAssumption DEF Starts, Fetch, Todo
  <2>2. CASE GoesOn(r)
    <3>1. synced[r][k] /\ k \notin queue[r]
      BY <1>1, <2>2, AbsentAssumption DEF Fetch, GoesOn, UInv, TypeOK
    <3>2. held'[r].current => held[r].current
      <4>1. held'[r].key # NoKey /\ held[r].key # NoKey
        BY <2>2 DEF GoesOn, UInv, TypeOK
      <4>2. \/ held'[r].current => held[r].current
            \/ held'[r] = NotHeld
            \/ \E j \in Keys : Fetch(r, j)
        BY RuntimeStep, WorkStep
      <4>3. QED BY <4>1, <4>2 DEF Fetch, NotHeld
    <3>3. CASE PersistSecret(r) /\ held[r].key = k
      BY <1>0, <1>1, <2>2, <3>2, <3>3 DEF GoesOn
    <3>4. QED BY <1>0, <1>1, <2>2, <3>1, <3>2, <3>3 DEF GoesOn, Todo
  <2>3. QED BY <1>3, <2>1, <2>2, StageStep
<1>4. QED BY <1>2, <1>3

(* A Secret is written by a reconcile of its user or collected. *)
LEMMA SecretsChange ==
  ASSUME UInv, [Next]_vars, NEW k \in Keys
  PROVE  \/ secrets'[k] = secrets[k]
         \/ CollectSecret(k) /\ secrets'[k] = NoSecret
         \/ \E r \in Replicas : /\ held[r].key = k /\ pc[r] = "ApplySecret"
                                /\ \E s \in Secret(Value) :
                                     /\ s.data = chosen[r] /\ secrets'[k] = s
                                     /\ s.owner = IF secrets[k] = NoSecret THEN held[r].obj.uid
                                                  ELSE secrets[k].owner
<1>. DEFINE Writes(r) == \E s \in Secret(Value) :
                           /\ secrets' = [secrets EXCEPT ![held[r].key] = s]
                           /\ s.data = chosen[r]
                           /\ s.owner = IF secrets[held[r].key] = NoSecret THEN held[r].obj.uid
                                        ELSE secrets[held[r].key].owner
<1>0. secrets \in [Keys -> Secret(Value) \cup {NoSecret}]
  BY DEF UInv, TypeOK, SecretTypeOK
<1>1. ASSUME NEW r \in Replicas, pc[r] # "idle", WriteSecret(r)
      PROVE  Writes(r)
  <2>1. SecretInv(Value) /\ held[r].key \in Keys /\ held[r].obj.uid \in Nat /\ chosen[r] \in Value
    BY <1>1, SecretStep, ActiveObjectOK DEF Object
  <2>2. ApplySecret(r, held[r].key, held[r].obj.uid, chosen[r])
    BY <1>1 DEF WriteSecret
  <2>3. QED BY <2>1, <2>2, ApplyEffect, UserAssumption
<1>2. ASSUME NEW r \in Replicas, pc[r] = "ApplySecret", Writes(r)
      PROVE  \/ secrets'[k] = secrets[k]
             \/ /\ held[r].key = k
                /\ \E s \in Secret(Value) :
                     /\ s.data = chosen[r] /\ secrets'[k] = s
                     /\ s.owner = IF secrets[k] = NoSecret THEN held[r].obj.uid ELSE secrets[k].owner
  BY <1>0, <1>2
<1>. HIDE DEF Writes
<1>3. CASE GarbageCollect
  BY <1>0, <1>3 DEF GarbageCollect, CollectSecret, PutSecret
<1>4. CASE \E r \in Replicas : PersistSecret(r)
  BY <1>1, <1>2, <1>4 DEF PersistSecret, AtStage
<1>5. CASE \E r \in Replicas : Ending(r)
  <2>1. PICK r \in Replicas : Ending(r)
    BY <1>5
  <2>2. UNCHANGED secretVars \/ (pc[r] = "ApplySecret" /\ WriteSecret(r))
    BY <2>1, EndingKinds
  <2>3. QED BY <1>1, <1>2, <2>2 DEF secretVars
<1>6. CASE \/ UNCHANGED vars \/ UserEdit
           \/ \E j \in Keys : PollPassword(j) \/ TimeOut(j)
           \/ \E r \in Replicas, j \in Keys : Watch(r, j) \/ WatchSecret(r, j)
           \/ \E r \in Replicas : \/ StartReconcile(r) \/ WithoutDatabase(r) \/ EnsureTenant(r) \/ EnsureUser(r)
                                  \/ Restart(r)
  BY <1>6 DEF vars, UserEdit, PollPassword, TimeOut, Watch, WatchSecret, SyncSecret, StartReconcile,
              WithoutDatabase, EnsureTenant, EnsureUser, Restart, RestartSecrets, secretVars
<1>7. QED BY <1>3, <1>4, <1>5, <1>6, StepKinds DEF Advances

(* What a reconcile writes into the Secret from the present spec fits it.   *)
LEMMA PersistMatches ==
  ASSUME UInv, ChosenFollows, NEW r \in Replicas, NEW k \in Keys,
         PersistSecret(r), held[r].key = k, held[r].current
  PROVE  secrets'[k] # NoSecret /\ secrets'[k].data = chosen[r] /\ Matches(k)'
<1>1. /\ pc[r] = "ApplySecret" /\ ApplySecret(r, k, held[r].obj.uid, chosen[r])
      /\ api' = api /\ held[r].obj = api[k]
  BY DEF PersistSecret, AtStage, WriteSecret, runtimeVars, UInv, CopiesAreCurrent
<1>2. SecretInv(Value) /\ held[r].obj.uid \in Nat /\ chosen[r] \in Value
  BY <1>1, ActiveObjectOK DEF UInv, TypeOK, SecretInv, Object
<1>3. PICK s \in Secret(Value) : secrets' = [secrets EXCEPT ![k] = s] /\ s.data = chosen[r]
  BY <1>1, <1>2, ApplyEffect, UserAssumption
<1>4. secrets'[k] = s /\ s # NoSecret
  BY <1>3, UserAssumption DEF UInv, TypeOK, SecretTypeOK
<1>5. Fits(chosen[r], api[k].spec.password)
  BY <1>1 DEF Wanted, ChosenFollows
<1>6. QED BY <1>1, <1>3, <1>4, <1>5 DEF Matches, Fits

LEMMA FollowStep ==
  ASSUME UInv, ChosenFollows, FollowInv, [Next]_vars
  PROVE  FollowInv'
<1>. SUFFICES ASSUME NEW k \in Keys, api'[k] # Absent, secrets'[k] # NoSecret, \A r \in Replicas : ~Todo(r, k)'
              PROVE  Matches(k)'
  BY DEF FollowInv
<1>1. /\ api'[k] = api[k]
      /\ \A r \in Replicas : ~Todo(r, k) \/ (PersistSecret(r) /\ held[r].key = k /\ held[r].current)
  BY TodoStep, ProcessAssumption
<1>2. CASE \E r \in Replicas : PersistSecret(r) /\ held[r].key = k /\ held[r].current
  BY <1>2, PersistMatches
<1>3. CASE \A r \in Replicas : ~Todo(r, k)
  <2>1. secrets'[k] = secrets[k]
    BY <1>3, SecretsChange DEF Todo
  <2>2. Matches(k)
    BY <1>1, <1>3, <2>1 DEF FollowInv
  <2>3. QED BY <1>1, <2>1, <2>2 DEF Matches, Fits
<1>4. QED BY <1>1, <1>2, <1>3

(* A process at rest about a user has nothing to write for it. *)
LEMMA RestHasNoTodo ==
  ASSUME NEW k \in Keys, AtRest(k)
  PROVE  api[k] # Absent /\ \A r \in Replicas : ~Todo(r, k)
BY DEF AtRest, Quiescent, Todo

LEMMA FollowInitOK ==
  ASSUME Init
  PROVE  ChosenFollows /\ FollowInv
BY DEF Init, RuntimeInit, ChosenFollows, FollowInv

(* When the work about a user is done, a password that the spec provides is *)
(* the one in the Secret, whichever processes have written it in which      *)
(* order, connected to the database or not.                                 *)
THEOREM ProvidedWins == Spec => []ProvidedPasswordWins
<1>1. UInv /\ ChosenFollows /\ FollowInv /\ [Next]_vars => ChosenFollows' /\ FollowInv'
  BY ChosenStep, FollowStep
<1>2. FollowInv => ProvidedPasswordWins
  BY RestHasNoTodo DEF FollowInv, Matches, Fits, ProvidedPasswordWins
<1>3. QED BY <1>1, <1>2, FollowInitOK, InitOK, TypeStep, PTL DEF Spec

-----------------------------------------------------------------------------
(* The Secret of a user that is never deleted. *)

(* Every copy of a user has its uid, and so has the owner of its Secret;    *)
(* the Secret exists, or some process will write it; at rest the status     *)
(* shows a password.                                                        *)
SameUid ==
  /\ \A r \in Replicas, k \in Keys :
       cache[r][k] # Absent => api[k] # Absent /\ cache[r][k].uid = api[k].uid
  /\ \A r \in Replicas :
       held[r].key # NoKey => api[held[r].key] # Absent /\ held[r].obj.uid = api[held[r].key].uid
  /\ \A k \in Keys : secrets[k] # NoSecret => Owned(k)
ExistsInv ==
  \A k \in Keys : api[k] # Absent /\ (\A r \in Replicas : ~Todo(r, k)) => secrets[k] # NoSecret
PublishedInv == \A k \in Keys : AtRest(k) => api[k].status.password # Unset

(* An object that stays keeps its uid. *)
LEMMA UidStep ==
  ASSUME MaxDeletes = 0, UInv, [Next]_vars, NEW k \in Keys, api[k] # Absent
  PROVE  api'[k] # Absent /\ api'[k].uid = api[k].uid
<1>0. ~(deletes < MaxDeletes)
  BY DEF UInv, TypeOK
<1>1. ASSUME NEW r \in Replicas, Publishes(r, k)
      PROVE  api'[k] # Absent /\ api'[k].uid = api[k].uid
  BY <1>1, ActiveObjectOK, UserAssumption DEF Publishes
<1>2. QED BY <1>0, <1>1, ObjectStep

LEMMA SameUidStep ==
  ASSUME MaxDeletes = 0, UInv, SameUid, [Next]_vars
  PROVE  SameUid'
<1>0. \A k \in Keys : api[k] # Absent => api'[k] # Absent /\ api'[k].uid = api[k].uid
  BY UidStep
<1>1. ASSUME NEW r \in Replicas, NEW k \in Keys, cache'[r][k] # Absent
      PROVE  api'[k] # Absent /\ cache'[r][k].uid = api'[k].uid
  BY <1>0, <1>1, RuntimeStep, CopyStep DEF SameUid
<1>2. ASSUME NEW r \in Replicas, held'[r].key # NoKey
      PROVE  api'[held'[r].key] # Absent /\ held'[r].obj.uid = api'[held'[r].key].uid
  <2>0. held'[r].key \in Keys
    BY <1>2, TypeStep DEF UInv, TypeOK, RuntimeTypeOK
  <2>1. CASE held'[r].key = held[r].key /\ held'[r].obj = held[r].obj
    BY <1>0, <1>2, <2>0, <2>1 DEF SameUid
  <2>2. CASE held'[r] = NotHeld
    BY <1>2, <2>2 DEF NotHeld
  <2>3. ASSUME NEW k \in Keys, Fetch(r, k),
               held'[r] = [key |-> k, obj |-> cache[r][k], current |-> synced[r][k]]
        PROVE  api'[held'[r].key] # Absent /\ held'[r].obj.uid = api'[held'[r].key].uid
    BY <1>0, <2>3 DEF Fetch, SameUid
  <2>4. QED BY <2>1, <2>2, <2>3, RuntimeStep, WorkStep
<1>3. ASSUME NEW k \in Keys, secrets'[k] # NoSecret
      PROVE  Owned(k)'
  <2>1. secrets[k] # NoSecret => api[k] # Absent /\ api[k].uid = secrets[k].owner
    BY DEF SameUid, Owned
  <2>2. CASE secrets'[k] = secrets[k]
    BY <1>0, <1>3, <2>1, <2>2 DEF Owned
  <2>3. ASSUME NEW r \in Replicas, held[r].key = k,
               secrets'[k].owner = IF secrets[k] = NoSecret THEN held[r].obj.uid ELSE secrets[k].owner
        PROVE  Owned(k)'
    BY <1>0, <2>1, <2>3, AbsentAssumption DEF SameUid, Owned
  <2>4. QED BY <1>3, <2>2, <2>3, SecretsChange
<1>4. QED BY <1>1, <1>2, <1>3 DEF SameUid

LEMMA ExistsStep ==
  ASSUME UInv, SameUid, ChosenFollows, ExistsInv, [Next]_vars
  PROVE  ExistsInv'
<1>. SUFFICES ASSUME NEW k \in Keys, api'[k] # Absent, \A r \in Replicas : ~Todo(r, k)'
              PROVE  secrets'[k] # NoSecret
  BY DEF ExistsInv
<1>1. /\ api'[k] = api[k]
      /\ \A r \in Replicas : ~Todo(r, k) \/ (PersistSecret(r) /\ held[r].key = k /\ held[r].current)
  BY TodoStep, ProcessAssumption
<1>2. CASE \E r \in Replicas : PersistSecret(r) /\ held[r].key = k /\ held[r].current
  BY <1>2, PersistMatches
<1>3. CASE \A r \in Replicas : ~Todo(r, k)
  <2>1. secrets[k] # NoSecret
    BY <1>1, <1>3 DEF ExistsInv
  <2>2. ~CollectSecret(k)
    BY <2>1 DEF SameUid, CollectSecret
  <2>3. QED BY <2>1, <2>2, SecretsChange, UserAssumption
<1>4. QED BY <1>1, <1>2, <1>3

(* A process rests about a user only after it has published a password.     *)
LEMMA PublishedStep ==
  ASSUME UInv, PublishedInv, [Next]_vars
  PROVE  PublishedInv'
<1>. SUFFICES ASSUME NEW k \in Keys, AtRest(k)'
              PROVE  api'[k].status.password # Unset
  BY DEF PublishedInv
<1>1. api'[k] # Absent /\ \A r \in Replicas : Quiescent(r, k)'
  BY DEF AtRest
<1>2. /\ api'[k] = api[k]
      /\ \A r \in Replicas : Quiescent(r, k) \/ held[r].key = k
  BY <1>1, RuntimeStep, RestStep, UserAssumption, ProcessAssumption
<1>3. CASE \A r \in Replicas : Quiescent(r, k)
  BY <1>1, <1>2, <1>3 DEF PublishedInv, AtRest
<1>4. ASSUME NEW r \in Replicas, held[r].key = k
      PROVE  api'[k].status.password # Unset
  <2>1. pc[r] # "idle" /\ held'[r].key # k
    BY <1>1, <1>4, AbsentAssumption DEF Quiescent, UInv, TypeOK
  <2>2. Ending(r) \/ Restart(r)
    BY <1>4, <2>1, StageStep DEF GoesOn
  <2>3. ~Restart(r) /\ ~Requeue(r)
    BY <1>1, <1>2, <1>4 DEF Quiescent, Restart, RestartRuntime, Requeue, UInv, TypeOK, RuntimeTypeOK
  <2>4. UpdateStatus(r)
    BY <2>2, <2>3, EndingKinds
  <2>5. api'[k] = ActiveObject(r)
    BY <1>4, <2>4 DEF UpdateStatus, StatusStored, UInv, TypeOK, RuntimeTypeOK
  <2>6. QED BY <2>1, <2>5, ActiveObjectOK
<1>5. QED BY <1>2, <1>3, <1>4

LEMMA ExistsInitOK ==
  ASSUME Init
  PROVE  SameUid /\ ExistsInv /\ PublishedInv
BY DEF Init, RuntimeInit, SecretInit, NotHeld, SameUid, ExistsInv, PublishedInv, AtRest

(* When the work about a user is done its status shows a password and its   *)
(* Secret exists and is owned by it, when no user is deleted.               *)
THEOREM SecretStays ==
  ASSUME MaxDeletes = 0
  PROVE  Spec => []SecretAtRest
<1>1. UInv /\ SameUid /\ ChosenFollows /\ ExistsInv /\ PublishedInv /\ [Next]_vars
      => SameUid' /\ ChosenFollows' /\ ExistsInv' /\ PublishedInv'
  BY SameUidStep, ChosenStep, ExistsStep, PublishedStep
<1>2. SameUid /\ ExistsInv /\ PublishedInv => SecretAtRest
  BY RestHasNoTodo DEF SameUid, ExistsInv, PublishedInv, SecretAtRest
<1>3. QED BY <1>1, <1>2, FollowInitOK, ExistsInitOK, InitOK, TypeStep, PTL DEF Spec

-----------------------------------------------------------------------------
(* The database knows the user. *)
HasRow(k) == \E t \in tenants : users[[tenant |-> t, username |-> k]] # Unset
NoPassword == {o \in Object : o.status.password = Unset}

(* Until the user has a row nothing shows a password of it: no copy of its  *)
(* object, no Secret, no command; and a reconcile that has passed the       *)
(* database has left a row.                                                 *)
RowInv ==
  /\ \A k \in Keys : HasRow(k) \/ (CopiesOf(k, NoPassword) /\ secrets[k] = NoSecret /\ k \notin shown)
  /\ \A r \in Replicas : pc[r] = "EnsureUser" => Wanted(r).tenant \in tenants
  /\ \A r \in Replicas : pc[r] \in {"ApplySecret", "UpdateStatus"} => HasRow(held[r].key)

LEMMA HasRowStays ==
  ASSUME UInv, [Next]_vars, NEW k \in Keys, HasRow(k)
  PROVE  HasRow(k)'
<1>1. PICK t \in tenants : users[[tenant |-> t, username |-> k]] # Unset
  BY DEF HasRow
<1>2. t \in tenants' /\ [tenant |-> t, username |-> k] \in Row
  BY DbStep DEF UInv, TypeOK, Row
<1>3. users'[[tenant |-> t, username |-> k]] # Unset
  BY <1>1, <1>2, DbStep
<1>4. QED BY <1>2, <1>3 DEF HasRow

(* A command prints the password of a Secret it has seen. *)
LEMMA ShownStep ==
  ASSUME UInv, [Next]_vars, NEW k \in Keys, k \in shown'
  PROVE  k \in shown \/ secrets[k] # NoSecret
<1>1. CASE UserEdit
  BY <1>1 DEF UserEdit, CreateObject, CreateByCommand, EditSpec, ResetPassword, DeleteObject, cli
<1>2. CASE \E j \in Keys : PollPassword(j) \/ TimeOut(j)
  BY <1>2 DEF PollPassword, TimeOut
<1>3. CASE \E r \in Replicas : Ending(r)
  BY <1>3, EndingKinds DEF outside, cli
<1>4. CASE \/ UNCHANGED vars \/ GarbageCollect
           \/ \E r \in Replicas, j \in Keys : Watch(r, j) \/ WatchSecret(r, j)
           \/ \E r \in Replicas : StartReconcile(r) \/ Advances(r) \/ Restart(r)
  BY <1>4 DEF vars, GarbageCollect, Watch, WatchSecret, StartReconcile, Advances, WithoutDatabase, EnsureTenant,
              EnsureUser, PersistSecret, Restart, outside, cli
<1>5. QED BY <1>1, <1>2, <1>3, <1>4, StepKinds

LEMMA RowStep ==
  ASSUME Disconnected = {}, UInv, RowInv, [Next]_vars
  PROVE  RowInv'
<1>1. ASSUME NEW k \in Keys, ~HasRow(k)'
      PROVE  CopiesOf(k, NoPassword)' /\ secrets'[k] = NoSecret /\ k \notin shown'
  <2>1. ~HasRow(k)
    BY <1>1, HasRowStays
  <2>2. CopiesOf(k, NoPassword) /\ secrets[k] = NoSecret /\ k \notin shown
    BY <2>1 DEF RowInv
  <2>3. \A r \in Replicas : held[r].key = k => pc[r] \notin {"ApplySecret", "UpdateStatus"}
    BY <2>1 DEF RowInv
  <2>4. api'[k] # Absent => api'[k] \in NoPassword
    <3>1. api'[k] \in Object \cup {Absent}
      BY TypeStep DEF UInv, TypeOK, RuntimeTypeOK
    <3>2. api[k] # Absent => api[k].status.password = Unset
      BY <2>2 DEF CopiesOf, NoPassword
    <3>3. \A r \in Replicas : ~Publishes(r, k)
      BY <2>3 DEF Publishes
    <3>4. api'[k] # Absent => api'[k].status.password = Unset
      BY <3>2, <3>3, ObjectStep DEF NewStatus
    <3>5. QED BY <3>1, <3>4 DEF NoPassword
  <2>5. CopiesOf(k, NoPassword)'
    <3>. HIDE DEF NoPassword
    <3>1. QED BY <2>2, <2>4, RuntimeStep, CopiesOfStep
  <2>6. QED BY <2>2, <2>3, <2>5, SecretsChange, ShownStep
<1>2. ASSUME NEW r \in Replicas, pc'[r] = "EnsureUser"
      PROVE  Wanted(r)'.tenant \in tenants'
  <2>1. GoesOn(r)
    BY <1>2, StageStep DEF Starts
  <2>2. Wanted(r)' = Wanted(r)
    BY <2>1 DEF GoesOn, Wanted
  <2>3. tenants \subseteq tenants'
    BY DbStep
  <2>4. CASE pc[r] = "EnsureUser"
    BY <2>2, <2>3, <2>4 DEF RowInv
  <2>5. CASE EnsureTenant(r)
    BY <2>2, <2>5 DEF EnsureTenant
  <2>6. QED BY <1>2, <2>1, <2>4, <2>5 DEF GoesOn
<1>3. ASSUME NEW r \in Replicas, pc'[r] \in {"ApplySecret", "UpdateStatus"}
      PROVE  HasRow(held[r].key)'
  <2>1. GoesOn(r)
    BY <1>3, StageStep DEF Starts
  <2>2. held'[r].key = held[r].key /\ held[r].key \in Keys
    BY <2>1, ActiveObjectOK DEF GoesOn
  <2>3. CASE pc[r] \in {"ApplySecret", "UpdateStatus"}
    <3>1. HasRow(held[r].key)
      BY <2>3 DEF RowInv
    <3>2. PICK k \in Keys : k = held[r].key
      BY <2>2
    <3>3. HasRow(k)'
      BY <3>1, <3>2, HasRowStays
    <3>4. QED BY <2>2, <3>2, <3>3 DEF HasRow
  <2>4. CASE EnsureUser(r)
    <3>1. /\ pc[r] = "EnsureUser" /\ WriteUser(r) /\ tenants' = tenants
      BY <2>4 DEF EnsureUser, AtStage
    <3>2. /\ Wanted(r).tenant \in tenants /\ chosen[r] # Unset
          /\ RowOf(r) \in Row /\ RowOf(r) = [tenant |-> Wanted(r).tenant, username |-> held[r].key]
      BY <3>1, ActiveObjectOK DEF RowInv, RowOf, Row, Wanted, Object, Wish
    <3>3. users'[RowOf(r)] # Unset
      BY <3>1, <3>2 DEF WriteUser, UInv, TypeOK
    <3>4. QED BY <2>2, <3>1, <3>2, <3>3 DEF HasRow
  <2>5. QED BY <1>3, <2>1, <2>3, <2>4 DEF GoesOn, WithoutDatabase, PersistSecret, AtStage
<1>4. QED BY <1>1, <1>2, <1>3 DEF RowInv

LEMMA RowInitOK ==
  ASSUME Init
  PROVE  RowInv
BY AbsentAssumption DEF Init, RuntimeInit, SecretInit, NotHeld, RowInv, CopiesOf

(* A published password has a database row of the user behind it, when the  *)
(* processes are connected to the database.                                 *)
THEOREM ActiveBacked ==
  ASSUME Disconnected = {}
  PROVE  Spec => []ActiveIsBacked
<1>1. UInv /\ RowInv /\ [Next]_vars => RowInv'
  BY RowStep
<1>2. RowInv => ActiveIsBacked
  BY DEF RowInv, CopiesOf, NoPassword, HasRow, ActiveIsBacked
<1>3. QED BY <1>1, <1>2, RowInitOK, InitOK, TypeStep, PTL DEF Spec

(* frkrctl user create prints a password and "status: active" only when the *)
(* database has accepted the user.                                          *)
THEOREM PrintedActive ==
  ASSUME Disconnected = {}
  PROVE  Spec => []PrintedMeansActive
<1>1. UInv /\ RowInv /\ [Next]_vars => RowInv'
  BY RowStep
<1>2. UInv /\ RowInv => PrintedMeansActive
  BY UserAssumption DEF UInv, TypeOK, RowInv, HasRow, PrintedMeansActive
<1>3. QED BY <1>1, <1>2, RowInitOK, InitOK, TypeStep, PTL DEF Spec

-----------------------------------------------------------------------------
(* The database and the Secret of a user.  A reconcile writes the row and   *)
(* then the Secret: between the two no other process may write the row, and *)
(* the database must not keep an older password.                            *)
OneWriter ==
  /\ \A p, q \in Replicas : p = q
  /\ "keep" \notin OnExisting
  /\ Disconnected = {}

(* The row has the password that is on its way to the Secret; the two are   *)
(* the same, or some process will write them.                               *)
WrittenInv == \A r \in Replicas : pc[r] = "ApplySecret" => users[RowOf(r)] = chosen[r]
MatchInv ==
  \A k \in Keys :
    api[k] # Absent /\ secrets[k] # NoSecret /\ (\A r \in Replicas : ~Todo(r, k))
      => users[CurrentRow(k)] = secrets[k].data

LEMMA WrittenStep ==
  ASSUME OneWriter, UInv, WrittenInv, [Next]_vars
  PROVE  WrittenInv'
<1>. SUFFICES ASSUME NEW r \in Replicas, pc'[r] = "ApplySecret"
              PROVE  users'[RowOf(r)'] = chosen'[r]
  BY DEF WrittenInv
<1>1. GoesOn(r)
  BY StageStep DEF Starts
<1>2. RowOf(r)' = RowOf(r) /\ chosen'[r] = chosen[r]
  BY <1>1 DEF GoesOn, RowOf, Wanted
<1>3. RowOf(r) \in Row
  BY <1>1, ActiveObjectOK DEF GoesOn, RowOf, Row, Wanted, Object, Wish
<1>4. CASE pc[r] = "ApplySecret"
  <2>1. \A q \in Replicas : pc[q] # "EnsureUser"
    BY <1>4 DEF OneWriter
  <2>2. users'[RowOf(r)] = users[RowOf(r)]
    BY <1>3, <2>1, DbStep
  <2>3. QED BY <1>2, <1>4, <2>2 DEF WrittenInv
<1>5. CASE EnsureUser(r)
  <2>1. users' = [users EXCEPT ![RowOf(r)] = chosen[r]]
    BY <1>5 DEF EnsureUser, WriteUser, OneWriter
  <2>2. QED BY <1>2, <1>3, <2>1 DEF UInv, TypeOK
<1>6. QED BY <1>1, <1>4, <1>5 DEF GoesOn, WithoutDatabase, OneWriter

LEMMA MatchStep ==
  ASSUME UInv, ChosenFollows, WrittenInv, MatchInv, [Next]_vars
  PROVE  MatchInv'
<1>. SUFFICES ASSUME NEW k \in Keys, api'[k] # Absent, secrets'[k] # NoSecret, \A r \in Replicas : ~Todo(r, k)'
              PROVE  users'[CurrentRow(k)'] = secrets'[k].data
  BY DEF MatchInv
<1>1. /\ api'[k] = api[k]
      /\ \A r \in Replicas : ~Todo(r, k) \/ (PersistSecret(r) /\ held[r].key = k /\ held[r].current)
  BY TodoStep, ProcessAssumption
<1>2. CurrentRow(k)' = CurrentRow(k) /\ CurrentRow(k) \in Row
  BY <1>1 DEF CurrentRow, Row, UInv, TypeOK, RuntimeTypeOK, Object, Wish
<1>3. ASSUME NEW r \in Replicas, PersistSecret(r), held[r].key = k, held[r].current
      PROVE  users'[CurrentRow(k)'] = secrets'[k].data
  <2>1. pc[r] = "ApplySecret" /\ users' = users /\ held[r].obj = api[k]
    BY <1>3 DEF PersistSecret, AtStage, dbVars, UInv, CopiesAreCurrent
  <2>2. RowOf(r) = CurrentRow(k)
    BY <1>3, <2>1 DEF RowOf, Wanted, CurrentRow
  <2>3. secrets'[k].data = chosen[r]
    BY <1>3, PersistMatches
  <2>4. QED BY <1>2, <2>1, <2>2, <2>3 DEF WrittenInv
<1>4. CASE \A r \in Replicas : ~Todo(r, k)
  <2>1. \A r \in Replicas : held[r].key = k => pc[r] \notin {"EnsureUser", "ApplySecret"}
    BY <1>4 DEF Todo
  <2>2. secrets'[k] = secrets[k]
    BY <2>1, SecretsChange
  <2>3. \A r \in Replicas : pc[r] = "EnsureUser" => CurrentRow(k) # RowOf(r)
    BY <2>1 DEF CurrentRow, RowOf
  <2>4. users'[CurrentRow(k)] = users[CurrentRow(k)]
    BY <1>2, <2>3, DbStep
  <2>5. QED BY <1>1, <1>2, <1>4, <2>2, <2>4 DEF MatchInv
<1>5. QED BY <1>1, <1>3, <1>4

LEMMA MatchInitOK ==
  ASSUME Init
  PROVE  WrittenInv /\ MatchInv
BY DEF Init, RuntimeInit, WrittenInv, MatchInv

(* When the work about a user is done the database and the Secret have the  *)
(* same password, whatever call failed between the two writes and however   *)
(* often the process crashed.                                               *)
THEOREM DatabaseMatches ==
  ASSUME OneWriter
  PROVE  Spec => []DatabaseMatchesSecret
<1>1. UInv /\ ChosenFollows /\ WrittenInv /\ MatchInv /\ [Next]_vars => ChosenFollows' /\ WrittenInv' /\ MatchInv'
  BY ChosenStep, WrittenStep, MatchStep
<1>2. MatchInv => DatabaseMatchesSecret
  BY RestHasNoTodo DEF MatchInv, DatabaseMatchesSecret
<1>3. QED BY <1>1, <1>2, FollowInitOK, MatchInitOK, InitOK, TypeStep, PTL DEF Spec

(* A password that a reset took out of a spec: the spec has none since.     *)
RevokedInv == \A k \in Keys : revoked[k] # Unset => api[k] # Absent /\ api[k].spec.password = Unset

(* The commands and users alone decide what is revoked. *)
LEMMA RevokedChange ==
  ASSUME UInv, [Next]_vars
  PROVE  UserEdit \/ revoked' = revoked
<1>1. CASE \E r \in Replicas : Ending(r)
  BY <1>1, EndingKinds DEF outside, cli
<1>2. CASE \/ UNCHANGED vars \/ GarbageCollect
           \/ \E j \in Keys : PollPassword(j) \/ TimeOut(j)
           \/ \E r \in Replicas, j \in Keys : Watch(r, j) \/ WatchSecret(r, j)
           \/ \E r \in Replicas : StartReconcile(r) \/ Advances(r) \/ Restart(r)
  BY <1>2 DEF vars, GarbageCollect, PollPassword, TimeOut, Watch, WatchSecret, StartReconcile, Advances,
              WithoutDatabase, EnsureTenant, EnsureUser, PersistSecret, Restart, outside, cli
<1>3. QED BY <1>1, <1>2, StepKinds

LEMMA RevokedStep ==
  ASSUME UInv, RevokedInv, [Next]_vars
  PROVE  RevokedInv'
<1>0. /\ api \in [Keys -> Object \cup {Absent}]
      /\ revoked \in [Keys -> Given \cup {Unset}]
  BY DEF UInv, TypeOK, RuntimeTypeOK
<1>1. CASE UserEdit
  <2>1. PICK j \in Keys : \/ \E s \in Wish : CreateObject(j, s) \/ EditSpec(j, s)
                          \/ CreateByCommand(j) \/ ResetPassword(j) \/ DeleteObject(j)
    BY <1>1 DEF UserEdit
  <2>2. \A k \in Keys \ {j} : api'[k] = api[k] /\ revoked'[k] = revoked[k]
    BY <1>0, <2>1 DEF CreateObject, CreateByCommand, EditSpec, ResetPassword, DeleteObject, Store, cli
  <2>. DEFINE Kept == revoked'[j] # Unset => api'[j] # Absent /\ api'[j].spec.password = Unset
  <2>3. ASSUME (\E s \in Wish : CreateObject(j, s)) \/ CreateByCommand(j)
        PROVE  Kept
    BY <2>3 DEF CreateObject, CreateByCommand, RevokedInv, cli
  <2>4. ASSUME (\E s \in Wish : EditSpec(j, s)) \/ DeleteObject(j)
        PROVE  Kept
    BY <1>0, <2>4 DEF EditSpec, DeleteObject
  <2>5. ASSUME ResetPassword(j)
        PROVE  Kept
    <3>1. api[j] \in Object /\ api' = [api EXCEPT ![j] = [api[j] EXCEPT !.spec.password = Unset]]
      BY <1>0, <2>5 DEF ResetPassword, Store
    <3>2. [api[j] EXCEPT !.spec.password = Unset] \in Object
      BY <3>1 DEF Object, Wish
    <3>3. [api[j] EXCEPT !.spec.password = Unset].spec.password = Unset
      BY <3>1 DEF Object, Wish
    <3>4. QED BY <1>0, <3>1, <3>2, <3>3, UserAssumption
  <2>6. Kept
    BY <2>1, <2>3, <2>4, <2>5
  <2>7. QED BY <2>2, <2>6 DEF RevokedInv
<1>2. CASE ~UserEdit
  <2>. SUFFICES ASSUME NEW k \in Keys, revoked'[k] # Unset
                PROVE  api'[k] # Absent /\ api'[k].spec.password = Unset
    BY DEF RevokedInv
  <2>1. api[k] # Absent /\ api[k].spec.password = Unset
    BY <1>2, RevokedChange DEF RevokedInv
  <2>2. ASSUME NEW r \in Replicas, Publishes(r, k)
        PROVE  api'[k] # Absent /\ api'[k].spec.password = Unset
    BY <2>1, <2>2, ActiveObjectOK, UserAssumption DEF Publishes
  <2>3. QED BY <1>2, <2>1, <2>2, ObjectStep
<1>3. QED BY <1>1, <1>2

(* When the work about a user is done, a password that a reset took out of  *)
(* its spec is neither in the Secret nor in the database.  A password       *)
(* generated at random is none that a user has provided.                    *)
THEOREM ResetEffective ==
  ASSUME OneWriter, MaxDeletes = 0, Given \cap Generated = {}
  PROVE  Spec => []ProvidedPasswordRevoked
<1>. DEFINE IInv == /\ ChosenFollows /\ FollowInv /\ SameUid /\ ExistsInv /\ WrittenInv /\ MatchInv
                    /\ RevokedInv
<1>1. UInv /\ IInv /\ [Next]_vars => IInv'
  BY ChosenStep, FollowStep, SameUidStep, ExistsStep, WrittenStep, MatchStep, RevokedStep
<1>2. UInv /\ IInv => ProvidedPasswordRevoked
  <2>. SUFFICES ASSUME UInv, IInv, NEW k \in Keys, AtRest(k), revoked[k] # Unset
                PROVE  secrets[k].data # revoked[k] /\ users[CurrentRow(k)] # revoked[k]
    BY DEF ProvidedPasswordRevoked
  <2>1. revoked[k] \in Given /\ api[k].spec.password = Unset
    BY DEF UInv, TypeOK, RevokedInv
  <2>2. api[k] # Absent /\ secrets[k] # NoSecret /\ \A r \in Replicas : ~Todo(r, k)
    BY RestHasNoTodo DEF ExistsInv
  <2>3. secrets[k].data \in Generated
    BY <2>1, <2>2 DEF FollowInv, Matches, Fits
  <2>4. users[CurrentRow(k)] = secrets[k].data
    BY <2>2 DEF MatchInv
  <2>5. QED BY <2>1, <2>3, <2>4
<1>3. Init => IInv
  BY FollowInitOK, ExistsInitOK, MatchInitOK DEF Init, RevokedInv
<1>. HIDE DEF IInv
<1>4. QED BY <1>1, <1>2, <1>3, InitOK, TypeStep, PTL DEF Spec
=============================================================================
