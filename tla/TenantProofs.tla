---------------------------- MODULE TenantProofs ----------------------------
(***************************************************************************)
(* Theorems about TenantController, for every set of processes, tenants,   *)
(* names and IDs, and every number of edits; and, in the last sections,    *)
(* about Onboarding, which composes it with ClientController: it           *)
(* implements each of the two, so their theorems hold of the composition.  *)
(***************************************************************************)
EXTENDS Onboarding, RuntimeProofs

(* Types, and that a copy marked up to date is the stored object.           *)
TInv == TypeOK /\ CopiesAreCurrent

(* What a reconcile about to publish will publish is the ID of its name.    *)
EnsuredIsItsRow == \A r \in Replicas : pc[r] = "UpdateStatus" => ensured[r] = rows[Wanted(r)]

(* A tenant as the command made it has the name it was given, and what is   *)
(* known of its ID is right.                                                *)
AsMade(k) ==
  /\ api[k] # Absent /\ api[k].name = k
  /\ api[k].id \in {NoId, rows[k]}
  /\ printed[k] \in {NoId, rows[k]}

UntouchedAsMade == \A k \in untouched : AsMade(k)

(* The object in hand is the informer copy, unless a newer copy has come    *)
(* and queued the key.                                                      *)
HeldIsCached ==
  \A r \in Replicas, k \in Keys :
    held[r].key = k => k \in queue[r] \/ held[r].obj = cache[r][k]

(* Where the work that is left is remembered.                               *)
ItsID(k, o) == o.id # NoId /\ o.id = rows[NameOf(k, o)]

Pending(r, k) ==
  \/ ~synced[r][k]
  \/ k \in queue[r]
  \/ held[r].key = k
  \/ cache[r][k] = Absent
  \/ ItsID(k, cache[r][k])

NothingLost == HeldIsCached /\ \A r \in Replicas, k \in Keys : Pending(r, k)

-----------------------------------------------------------------------------
(* Types. *)

(* What a reconcile in progress works with. *)
LEMMA Working ==
  ASSUME TInv, NEW r \in Replicas, pc[r] # "idle"
  PROVE  /\ held[r].key \in Keys /\ held[r].obj \in Object /\ Wanted(r) \in Names
         /\ [held[r].obj EXCEPT !.id = ensured[r]] \in Object
<1>1. held[r].key \in Keys /\ held[r].obj \in Object
  BY DEF TInv, TypeOK, RuntimeTypeOK
<1>2. Wanted(r) \in Names
  BY <1>1, TenantAssumption DEF Wanted, NameOf, Object
<1>3. ensured[r] \in Ids \cup {NoId}
  BY DEF TInv, TypeOK
<1>4. QED BY <1>1, <1>2, <1>3 DEF Object

(* A row is made once and for all, with an ID no other row has had. *)
LEMMA RowsGrow ==
  ASSUME TInv, NEW n \in Names, EnsureRow(n) \/ rows' = rows
  PROVE  /\ rows' \in [Names -> Ids \cup {NoId}]
         /\ \A m \in Names : rows[m] # NoId => rows'[m] = rows[m]
         /\ EnsureRow(n) => rows'[n] \in Ids
         /\ Issued' = Issued \/ \E i \in Ids : Issued' = Issued \cup {i}
<1>1. rows \in [Names -> Ids \cup {NoId}]
  BY DEF TInv, TypeOK
<1>2. CASE rows' = rows
  <2>1. EnsureRow(n) => rows[n] # NoId
    BY <1>1, <1>2, TenantAssumption DEF EnsureRow, Issued
  <2>2. QED BY <1>1, <1>2, <2>1 DEF Issued
<1>3. ASSUME rows[n] = NoId, NEW i \in Ids \ Issued, rows' = [rows EXCEPT ![n] = i]
      PROVE  /\ rows' \in [Names -> Ids \cup {NoId}]
             /\ \A m \in Names : rows[m] # NoId => rows'[m] = rows[m]
             /\ rows'[n] \in Ids
             /\ Issued' = Issued \cup {i}
  <2>1. /\ rows' \in [Names -> Ids \cup {NoId}]
        /\ rows'[n] = i /\ \A m \in Names \ {n} : rows'[m] = rows[m]
    BY <1>1, <1>3
  <2>2. Issued' = Issued \cup {i}
    BY <1>1, <1>3, <2>1, TenantAssumption DEF Issued
  <2>3. QED BY <1>3, <2>1, <2>2
<1>4. QED BY <1>2, <1>3 DEF EnsureRow

(* The ways a reconcile ends. *)
Ending(r) == EnsureTenantFails(r) \/ NothingToUpdate(r) \/ UpdateStatus(r) \/ UpdateStatusFails(r)

LEMMA EndingKinds ==
  ASSUME TInv, NEW r \in Replicas, Ending(r)
  PROVE  /\ pc[r] # "idle" /\ held[r].key \in Keys
         /\ \/ NothingStored(r)
            \/ pc[r] = "UpdateStatus" /\ Publish(r)
         /\ Done(r) \/ Requeue(r)
         /\ End(r)
         /\ UNCHANGED <<cli, edits>>
         /\ rows' = rows \/ (pc[r] = "EnsureTenant" /\ EnsureRow(Wanted(r)))
<1>1. /\ pc[r] # "idle"
      /\ \/ NothingStored(r)
         \/ pc[r] = "UpdateStatus" /\ Publish(r)
      /\ Done(r) \/ Requeue(r)
      /\ End(r)
      /\ UNCHANGED <<cli, edits>>
      /\ rows' = rows \/ (pc[r] = "EnsureTenant" /\ EnsureRow(Wanted(r)))
  <2>1. CASE EnsureTenantFails(r)
    BY <2>1 DEF EnsureTenantFails, AtStage
  <2>2. CASE NothingToUpdate(r)
    BY <2>2 DEF NothingToUpdate, AtStage
  <2>3. CASE UpdateStatus(r)
    BY <2>3 DEF UpdateStatus, AtStage
  <2>4. CASE UpdateStatusFails(r)
    BY <2>4 DEF UpdateStatusFails, AtStage
  <2>5. QED BY <2>1, <2>2, <2>3, <2>4 DEF Ending
<1>2. QED BY <1>1, Working

(* What an accepted status update does. *)
LEMMA PublishEffect ==
  ASSUME TInv, NEW r \in Replicas, pc[r] # "idle", Publish(r)
  PROVE  /\ held[r].obj = api[held[r].key]
         /\ api' = [api EXCEPT ![held[r].key] = [held[r].obj EXCEPT !.id = ensured[r]]]
         /\ UNCHANGED cache
         /\ held'[r] = NotHeld
         /\ \A q \in Replicas \ {r} : held'[q].key = held[q].key /\ held'[q].obj = held[q].obj
         /\ \A q \in Replicas, j \in Keys : synced'[q][j] => synced[q][j] /\ j # held[r].key
<1>. DEFINE o == [held[r].obj EXCEPT !.id = ensured[r]]
<1>1. /\ held[r].key \in Keys /\ held[r].obj \in Object /\ o \in Object
      /\ StatusStored(r, o) /\ o.id # held[r].obj.id
  BY Working DEF Publish, HasID, Object
<1>. HIDE DEF o
<1>2. /\ held[r].obj = api[held[r].key]
      /\ api' = [api EXCEPT ![held[r].key] = o]
      /\ UNCHANGED cache
      /\ held'[r] = NotHeld
      /\ \A q \in Replicas \ {r} : held'[q].key = held[q].key /\ held'[q].obj = held[q].obj
      /\ \A q \in Replicas, j \in Keys :
           synced'[q][j] => synced[q][j] /\ (j = held[r].key => o = api[j])
  <2>1. RuntimeInv(Object)
    BY DEF TInv, TypeOK, RuntimeInv
  <2>2. held[r].obj = api[held[r].key] /\ api' = [api EXCEPT ![held[r].key] = o]
    BY <1>1, <2>1, StatusStoredEffect
  <2>3. UNCHANGED cache /\ held'[r] = NotHeld
    BY <1>1, <2>1, StatusStoredEffect
  <2>4. \A q \in Replicas \ {r} : held'[q].key = held[q].key /\ held'[q].obj = held[q].obj
    BY <1>1, <2>1, StatusStoredEffect
  <2>5. \A q \in Replicas, j \in Keys :
          synced'[q][j] => synced[q][j] /\ (j = held[r].key => o = api[j])
    BY <1>1, <2>1, StatusStoredEffect
  <2>6. QED BY <2>2, <2>3, <2>4, <2>5
<1>3. UNCHANGED cache /\ \A q \in Replicas, j \in Keys : synced'[q][j] => synced[q][j] /\ j # held[r].key
  BY <1>1, <1>2
<1>4. QED BY <1>2, <1>3 DEF o

(* An edit stores an object or deletes it. *)
LEMMA EditStores ==
  ASSUME TInv, AdminEdit
  PROVE  \E k \in Keys, o \in Object \cup {Absent} : Store(k, o)
<1>1. ASSUME NEW k \in Keys, CreateByCommand(k)
      PROVE  \E o \in Object : Store(k, o)
  <2>1. [name |-> k, id |-> NoId] \in Object
    BY TenantAssumption DEF Object
  <2>2. QED BY <1>1, <2>1 DEF CreateByCommand
<1>2. ASSUME NEW k \in Keys, NEW n \in Names \cup {Unnamed}, Apply(k, n)
      PROVE  \E o \in Object : Store(k, o)
  <2>1. api[k] # Absent => api[k].id \in Ids \cup {NoId}
    BY DEF TInv, TypeOK, RuntimeTypeOK, Object
  <2>2. [name |-> n, id |-> IF api[k] = Absent THEN NoId ELSE api[k].id] \in Object
    BY <2>1 DEF Object
  <2>3. QED BY <1>2, <2>2 DEF Apply
<1>3. ASSUME NEW k \in Keys, DeleteTenant(k)
      PROVE  Store(k, Absent)
  BY <1>3 DEF DeleteTenant
<1>4. QED BY <1>1, <1>2, <1>3 DEF AdminEdit

LEMMA TypeStep ==
  ASSUME TInv, [Next]_vars
  PROVE  TInv'
<1>. USE DEF RuntimeInv
<1>0. RuntimeInv(Object)
  BY DEF TInv, TypeOK
<1>1. CASE UNCHANGED vars
  <2>1. RuntimeInv(Object)'
    BY <1>0, <1>1, UnchangedOK DEF vars
  <2>2. QED BY <1>1, <2>1 DEF TInv, TypeOK, vars, runtimeVars, cli
<1>2. CASE AdminEdit
  <2>1. PICK k \in Keys, o \in Object \cup {Absent} : Store(k, o)
    BY <1>2, EditStores
  <2>2. RuntimeInv(Object)'
    BY <1>0, <2>1, StoreOK
  <2>3. \A q \in Replicas : held'[q].key = held[q].key
    BY <2>1 DEF Store, TInv, TypeOK, RuntimeTypeOK
  <2>4. edits' \in 0 .. MaxEdits
    BY <1>2, TenantAssumption DEF AdminEdit, TInv, TypeOK
  <2>5. waiting' \subseteq Keys /\ printed' \in [Keys -> Ids \cup {NoId}] /\ untouched' \subseteq Keys
    BY <1>2 DEF AdminEdit, CreateByCommand, Apply, DeleteTenant, TInv, TypeOK
  <2>6. QED BY <1>2, <2>2, <2>3, <2>4, <2>5 DEF AdminEdit, TInv, TypeOK
<1>3. ASSUME NEW k \in Keys, PollID(k) \/ TimeOut(k)
      PROVE  TInv'
  <2>1. RuntimeInv(Object)' /\ UNCHANGED <<held, rows, pc, ensured, untouched, edits>>
    BY <1>0, <1>3, UnchangedOK DEF PollID, TimeOut, runtimeVars
  <2>2. waiting' \subseteq Keys /\ printed' \in [Keys -> Ids \cup {NoId}]
    <3>1. api[k] # Absent => api[k].id \in Ids \cup {NoId}
      BY DEF TInv, TypeOK, RuntimeTypeOK, Object
    <3>2. QED BY <1>3, <3>1 DEF PollID, TimeOut, TInv, TypeOK
  <2>3. QED BY <2>1, <2>2 DEF TInv, TypeOK
<1>4. ASSUME NEW n \in Names, EnsureElsewhere(n)
      PROVE  TInv'
  <2>1. RuntimeInv(Object)'
    BY <1>0, <1>4, UnchangedOK DEF EnsureElsewhere
  <2>2. QED BY <1>4, <2>1, RowsGrow DEF EnsureElsewhere, cli, runtimeVars, TInv, TypeOK
<1>5. ASSUME NEW r \in Replicas, NEW k \in Keys, Watch(r, k)
      PROVE  TInv'
  <2>1. RuntimeInv(Object)'
    BY <1>0, <1>5, SyncOK DEF Watch
  <2>2. QED BY <1>5, <2>1 DEF Watch, Sync, cli, TInv, TypeOK
<1>6. ASSUME NEW r \in Replicas, StartReconcile(r)
      PROVE  TInv'
  <2>1. PICK k \in Keys : \/ Fetch(r, k) /\ GoTo(r, "EnsureTenant")
                          \/ FetchMissing(r, k) /\ UNCHANGED pc
    BY <1>6 DEF StartReconcile
  <2>2. RuntimeInv(Object)'
    BY <1>0, <2>1, FetchOK
  <2>3. /\ pc' \in [Replicas -> {"idle", "EnsureTenant", "UpdateStatus"}]
        /\ \A q \in Replicas : /\ pc'[q] = "idle" <=> held'[q].key = NoKey
                               /\ pc'[q] = "UpdateStatus" <=> pc[q] = "UpdateStatus"
    <3>1. CASE Fetch(r, k) /\ GoTo(r, "EnsureTenant")
      <4>1. held[r].key = NoKey /\ held'[r].key = k /\ \A q \in Replicas \ {r} : held'[q] = held[q]
        BY <3>1 DEF Fetch, TInv, TypeOK, RuntimeTypeOK
      <4>2. /\ pc' \in [Replicas -> {"idle", "EnsureTenant", "UpdateStatus"}]
            /\ pc'[r] = "EnsureTenant" /\ \A q \in Replicas \ {r} : pc'[q] = pc[q]
        BY <3>1 DEF GoTo, TInv, TypeOK
      <4>3. QED BY <4>1, <4>2, AbsentAssumption DEF TInv, TypeOK
    <3>2. CASE FetchMissing(r, k) /\ UNCHANGED pc
      BY <3>2 DEF FetchMissing, TInv, TypeOK
    <3>3. QED BY <2>1, <3>1, <3>2
  <2>4. QED BY <1>6, <2>2, <2>3 DEF StartReconcile, cli, TInv, TypeOK
<1>7. ASSUME NEW r \in Replicas, EnsureTenant(r)
      PROVE  TInv'
  <2>1. pc[r] = "EnsureTenant" /\ Wanted(r) \in Names
    BY <1>7, Working DEF EnsureTenant, AtStage
  <2>2. rows' \in [Names -> Ids \cup {NoId}] /\ rows'[Wanted(r)] \in Ids
    BY <1>7, <2>1, RowsGrow DEF EnsureTenant
  <2>3. RuntimeInv(Object)'
    BY <1>0, <1>7, UnchangedOK DEF EnsureTenant
  <2>4. /\ pc' \in [Replicas -> {"idle", "EnsureTenant", "UpdateStatus"}]
        /\ pc'[r] = "UpdateStatus" /\ \A q \in Replicas \ {r} : pc'[q] = pc[q]
    BY <1>7 DEF EnsureTenant, GoTo, TInv, TypeOK
  <2>5. /\ ensured' \in [Replicas -> Ids \cup {NoId}]
        /\ ensured'[r] # NoId /\ \A q \in Replicas \ {r} : ensured'[q] = ensured[q]
    BY <1>7, <2>2, TenantAssumption DEF EnsureTenant, TInv, TypeOK
  <2>6. QED BY <1>7, <2>1, <2>2, <2>3, <2>4, <2>5 DEF EnsureTenant, cli, runtimeVars, TInv, TypeOK
<1>8. ASSUME NEW r \in Replicas, Ending(r)
      PROVE  TInv'
  <2>1. pc[r] # "idle" /\ held[r].key \in Keys /\ (Done(r) \/ Requeue(r)) /\ End(r)
    BY <1>8, EndingKinds
  <2>2. /\ RuntimeInv(Object)'
        /\ held'[r] = NotHeld /\ \A q \in Replicas \ {r} : held'[q].key = held[q].key
    <3>1. CASE NothingStored(r)
      <4>1. RuntimeInv(Object)'
        BY <1>0, <2>1, <3>1, Working, EndOK
      <4>2. QED BY <3>1, <4>1 DEF NothingStored, TInv, TypeOK, RuntimeTypeOK
    <3>2. CASE Publish(r)
      <4>1. RuntimeInv(Object)'
        BY <1>0, <2>1, <3>2, Working, EndOK DEF Publish
      <4>2. QED BY <2>1, <3>2, <4>1, PublishEffect
    <3>3. QED BY <1>8, <3>1, <3>2, EndingKinds
  <2>3. rows' \in [Names -> Ids \cup {NoId}]
    BY <1>8, <2>1, EndingKinds, Working, RowsGrow
  <2>4. /\ pc' \in [Replicas -> {"idle", "EnsureTenant", "UpdateStatus"}]
        /\ pc'[r] = "idle" /\ \A q \in Replicas \ {r} : pc'[q] = pc[q]
        /\ ensured' \in [Replicas -> Ids \cup {NoId}]
        /\ ensured'[r] = NoId /\ \A q \in Replicas \ {r} : ensured'[q] = ensured[q]
    BY <2>1 DEF End, GoTo, TInv, TypeOK
  <2>5. QED BY <1>8, <2>2, <2>3, <2>4, EndingKinds DEF NotHeld, cli, TInv, TypeOK
<1>9. ASSUME NEW r \in Replicas, Restart(r)
      PROVE  TInv'
  <2>1. RuntimeInv(Object)'
    BY <1>0, <1>9, RestartOK DEF Restart
  <2>2. /\ held'[r] = NotHeld /\ \A q \in Replicas \ {r} : held'[q] = held[q]
    BY <1>9 DEF Restart, RestartRuntime, TInv, TypeOK, RuntimeTypeOK
  <2>3. /\ pc' \in [Replicas -> {"idle", "EnsureTenant", "UpdateStatus"}]
        /\ pc'[r] = "idle" /\ \A q \in Replicas \ {r} : pc'[q] = pc[q]
        /\ ensured' \in [Replicas -> Ids \cup {NoId}]
        /\ ensured'[r] = NoId /\ \A q \in Replicas \ {r} : ensured'[q] = ensured[q]
    BY <1>9 DEF Restart, End, GoTo, TInv, TypeOK
  <2>4. QED BY <1>9, <2>1, <2>2, <2>3 DEF Restart, NotHeld, cli, TInv, TypeOK
<1>10. QED BY <1>1, <1>2, <1>3, <1>4, <1>5, <1>6, <1>7, <1>8, <1>9 DEF Next, Step, Reconcile, Ending

(* Type correctness, and that a copy marked up to date is the stored object. *)
THEOREM TypeCorrect == Spec => [](TypeOK /\ CopiesAreCurrent)
<1>1. Init => TInv
  <2>. SUFFICES ASSUME Init PROVE TInv
    OBVIOUS
  <2>1. RuntimeInv(Object)
    BY RuntimeInitOK DEF Init
  <2>2. QED BY <2>1, TenantAssumption DEF Init, RuntimeInit, NotHeld, TInv, TypeOK, RuntimeInv
<1>2. TInv /\ [Next]_vars => TInv'
  BY TypeStep
<1>3. QED BY <1>1, <1>2, PTL DEF Spec, TInv

-----------------------------------------------------------------------------
(* What a step does to the rows, to the objects, to the copies of them and  *)
(* to the reconciles in progress.                                           *)
LEMMA StepKinds ==
  ASSUME [Next]_vars
  PROVE  \/ UNCHANGED vars
         \/ AdminEdit
         \/ \E k \in Keys : PollID(k) \/ TimeOut(k)
         \/ \E n \in Names : EnsureElsewhere(n)
         \/ \E r \in Replicas, k \in Keys : Watch(r, k)
         \/ \E r \in Replicas : StartReconcile(r) \/ EnsureTenant(r) \/ Ending(r) \/ Restart(r)
BY DEF Next, Step, Reconcile, Ending

(* Rows stay as they are made, and one step makes at most one. *)
LEMMA RowsStep ==
  ASSUME TInv, [Next]_vars
  PROVE  /\ \A n \in Names : rows[n] # NoId => rows'[n] = rows[n]
         /\ Issued' = Issued \/ \E i \in Ids : Issued' = Issued \cup {i}
<1>1. CASE rows' = rows
  BY <1>1 DEF Issued
<1>2. ASSUME NEW n \in Names, EnsureRow(n)
      PROVE  /\ \A m \in Names : rows[m] # NoId => rows'[m] = rows[m]
             /\ Issued' = Issued \/ \E i \in Ids : Issued' = Issued \cup {i}
  BY <1>2, RowsGrow
<1>3. rows' = rows \/ \E n \in Names : EnsureRow(n)
  <2>1. CASE UNCHANGED vars \/ AdminEdit
    BY <2>1 DEF vars, AdminEdit
  <2>2. CASE \E k \in Keys : PollID(k) \/ TimeOut(k)
    BY <2>2 DEF PollID, TimeOut
  <2>3. CASE \E n \in Names : EnsureElsewhere(n)
    BY <2>3 DEF EnsureElsewhere
  <2>4. CASE \E r \in Replicas, k \in Keys : Watch(r, k)
    BY <2>4 DEF Watch
  <2>5. ASSUME NEW r \in Replicas, StartReconcile(r) \/ EnsureTenant(r)
        PROVE  rows' = rows \/ \E n \in Names : EnsureRow(n)
    <3>1. EnsureTenant(r) => Wanted(r) \in Names
      BY Working DEF EnsureTenant, AtStage
    <3>2. QED BY <2>5, <3>1 DEF StartReconcile, EnsureTenant
  <2>6. ASSUME NEW r \in Replicas, Ending(r)
        PROVE  rows' = rows \/ \E n \in Names : EnsureRow(n)
    BY <2>6, EndingKinds, Working
  <2>7. CASE \E r \in Replicas : Restart(r)
    BY <2>7 DEF Restart
  <2>8. QED BY <2>1, <2>2, <2>3, <2>4, <2>5, <2>6, <2>7, StepKinds
<1>4. QED BY <1>1, <1>2, <1>3

(* The stored tenant k: left alone, deleted, created, edited, or given its  *)
(* ID by a reconcile that holds the stored version.  Only a tenant that the *)
(* command has just created, or that is left alone, is untouched.           *)
LEMMA ObjectStep ==
  ASSUME TInv, [Next]_vars, NEW k \in Keys
  PROVE  \/ /\ api'[k] = api[k]
            /\ k \in untouched' => k \in untouched
            /\ printed'[k] = printed[k] \/ (api[k] # Absent /\ printed'[k] = api[k].id)
         \/ api'[k] = Absent /\ k \notin untouched'
         \/ /\ api[k] = Absent /\ api'[k] # Absent
            /\ api'[k].id = NoId
            /\ k \in untouched' => api'[k].name = k /\ printed'[k] = NoId
         \/ /\ api[k] # Absent
            /\ api'[k].id = api[k].id
            /\ k \notin untouched'
         \/ /\ api[k] \in Object
            /\ \E r \in Replicas :
                 /\ pc[r] = "UpdateStatus" /\ held[r].key = k /\ held[r].obj = api[k]
                 /\ api'[k] = [api[k] EXCEPT !.id = ensured[r]]
            /\ UNCHANGED cli
<1>1. CASE UNCHANGED vars
  BY <1>1 DEF vars, runtimeVars, cli
<1>2. CASE AdminEdit
  <2>1. ASSUME NEW j \in Keys, CreateByCommand(j)
        PROVE  \/ /\ api'[k] = api[k]
                  /\ k \in untouched' => k \in untouched
                  /\ printed'[k] = printed[k]
               \/ /\ api[k] = Absent /\ api'[k] # Absent
                  /\ api'[k].id = NoId
                  /\ k \in untouched' => api'[k].name = k /\ printed'[k] = NoId
    <3>1. [name |-> j, id |-> NoId] \in Object
      BY TenantAssumption DEF Object
    <3>2. QED BY <2>1, <3>1, TenantAssumption DEF CreateByCommand, Store, TInv, TypeOK, RuntimeTypeOK
  <2>2. ASSUME NEW j \in Keys, NEW n \in Names \cup {Unnamed}, Apply(j, n), UNCHANGED <<waiting, printed>>
        PROVE  \/ /\ api'[k] = api[k]
                  /\ k \in untouched' => k \in untouched
                  /\ printed'[k] = printed[k]
               \/ /\ api[k] = Absent /\ api'[k] # Absent
                  /\ api'[k].id = NoId
                  /\ k \notin untouched'
               \/ /\ api[k] # Absent
                  /\ api'[k].id = api[k].id
                  /\ k \notin untouched'
    <3>. DEFINE o == [name |-> n, id |-> IF api[j] = Absent THEN NoId ELSE api[j].id]
    <3>1. o \in Object
      BY DEF Object, TInv, TypeOK, RuntimeTypeOK
    <3>2. /\ api' = [api EXCEPT ![j] = o]
          /\ untouched' = untouched \ {j} /\ printed' = printed
          /\ o.id = IF api[j] = Absent THEN NoId ELSE api[j].id
      BY <2>2 DEF Apply, Store
    <3>. HIDE DEF o
    <3>3. QED BY <3>1, <3>2, TenantAssumption DEF TInv, TypeOK, RuntimeTypeOK
  <2>3. ASSUME NEW j \in Keys, DeleteTenant(j), UNCHANGED <<waiting, printed>>
        PROVE  \/ /\ api'[k] = api[k]
                  /\ k \in untouched' => k \in untouched
                  /\ printed'[k] = printed[k]
               \/ api'[k] = Absent /\ k \notin untouched'
    BY <2>3 DEF DeleteTenant, Store, TInv, TypeOK, RuntimeTypeOK
  <2>4. QED BY <1>2, <2>1, <2>2, <2>3 DEF AdminEdit
<1>3. ASSUME NEW j \in Keys, PollID(j) \/ TimeOut(j)
      PROVE  /\ api'[k] = api[k] /\ untouched' = untouched
             /\ printed'[k] = printed[k] \/ (api[k] # Absent /\ printed'[k] = api[k].id)
  BY <1>3 DEF PollID, TimeOut, runtimeVars, TInv, TypeOK
<1>4. CASE \E n \in Names : EnsureElsewhere(n)
  BY <1>4 DEF EnsureElsewhere, runtimeVars, cli
<1>5. CASE \E r \in Replicas, j \in Keys : Watch(r, j)
  BY <1>5 DEF Watch, Sync, cli
<1>6. CASE \E r \in Replicas : StartReconcile(r) \/ EnsureTenant(r)
  BY <1>6 DEF StartReconcile, Fetch, FetchMissing, EnsureTenant, runtimeVars, cli
<1>7. ASSUME NEW r \in Replicas, Ending(r)
      PROVE  /\ \/ api'[k] = api[k]
                \/ /\ api[k] \in Object
                   /\ pc[r] = "UpdateStatus" /\ held[r].key = k /\ held[r].obj = api[k]
                   /\ api'[k] = [api[k] EXCEPT !.id = ensured[r]]
             /\ UNCHANGED cli
  <2>1. CASE NothingStored(r)
    BY <1>7, <2>1, EndingKinds DEF NothingStored
  <2>2. CASE pc[r] = "UpdateStatus" /\ Publish(r)
    <3>1. held[r].key \in Keys /\ held[r].obj \in Object
      BY <1>7, EndingKinds, Working
    <3>2. /\ held[r].obj = api[held[r].key]
          /\ api' = [api EXCEPT ![held[r].key] = [held[r].obj EXCEPT !.id = ensured[r]]]
      BY <2>2, PublishEffect
    <3>3. QED BY <1>7, <2>2, <3>1, <3>2, EndingKinds DEF TInv, TypeOK, RuntimeTypeOK
  <2>3. QED BY <1>7, <2>1, <2>2, EndingKinds
<1>8. CASE \E r \in Replicas : Restart(r)
  BY <1>8 DEF Restart, RestartRuntime, cli
<1>9. QED BY <1>1, <1>2, <1>3, <1>4, <1>5, <1>6, <1>7, <1>8, StepKinds DEF cli

(* The reconcile of q: at its end, at its start, past EnsureTenant, or not  *)
(* involved.                                                                *)
LEMMA HeldStep ==
  ASSUME TInv, [Next]_vars, NEW q \in Replicas
  PROVE  \/ pc'[q] \in {"idle", "EnsureTenant"}
         \/ EnsureTenant(q)
         \/ /\ pc'[q] = pc[q] /\ ensured'[q] = ensured[q]
            /\ held'[q].key = held[q].key /\ held'[q].obj = held[q].obj
<1>1. CASE UNCHANGED vars
  BY <1>1 DEF vars, runtimeVars
<1>2. CASE AdminEdit
  <2>1. PICK k \in Keys, o \in Object \cup {Absent} : Store(k, o)
    BY <1>2, EditStores
  <2>2. held'[q].key = held[q].key /\ held'[q].obj = held[q].obj
    BY <2>1 DEF Store, TInv, TypeOK, RuntimeTypeOK
  <2>3. QED BY <1>2, <2>2 DEF AdminEdit
<1>3. CASE \E k \in Keys : PollID(k) \/ TimeOut(k)
  BY <1>3 DEF PollID, TimeOut, runtimeVars
<1>4. CASE \E n \in Names : EnsureElsewhere(n)
  BY <1>4 DEF EnsureElsewhere, runtimeVars
<1>5. CASE \E r \in Replicas, k \in Keys : Watch(r, k)
  BY <1>5 DEF Watch, Sync
<1>6. ASSUME NEW r \in Replicas, StartReconcile(r)
      PROVE  \/ pc'[q] = "EnsureTenant"
             \/ pc'[q] = pc[q] /\ ensured'[q] = ensured[q] /\ held'[q] = held[q]
  BY <1>6 DEF StartReconcile, Fetch, FetchMissing, GoTo, TInv, TypeOK, RuntimeTypeOK
<1>7. ASSUME NEW r \in Replicas, EnsureTenant(r), r # q
      PROVE  pc'[q] = pc[q] /\ ensured'[q] = ensured[q] /\ held'[q] = held[q]
  BY <1>7 DEF EnsureTenant, GoTo, runtimeVars, TInv, TypeOK
<1>8. ASSUME NEW r \in Replicas, Ending(r)
      PROVE  \/ pc'[q] = "idle"
             \/ /\ pc'[q] = pc[q] /\ ensured'[q] = ensured[q]
                /\ held'[q].key = held[q].key /\ held'[q].obj = held[q].obj
  <2>1. CASE q = r
    BY <1>8, <2>1, EndingKinds DEF End, GoTo, TInv, TypeOK
  <2>2. CASE q # r
    <3>1. pc'[q] = pc[q] /\ ensured'[q] = ensured[q]
      BY <1>8, <2>2, EndingKinds DEF End, GoTo, TInv, TypeOK
    <3>2. CASE NothingStored(r)
      BY <2>2, <3>1, <3>2 DEF NothingStored, TInv, TypeOK, RuntimeTypeOK
    <3>3. CASE Publish(r)
      <4>1. pc[r] # "idle"
        BY <1>8, EndingKinds
      <4>2. \A p \in Replicas \ {r} : held'[p].key = held[p].key /\ held'[p].obj = held[p].obj
        BY <3>3, <4>1, PublishEffect
      <4>3. QED BY <2>2, <3>1, <4>2
    <3>4. QED BY <1>8, <3>2, <3>3, EndingKinds
  <2>3. QED BY <2>1, <2>2
<1>9. ASSUME NEW r \in Replicas, Restart(r)
      PROVE  \/ pc'[q] = "idle"
             \/ pc'[q] = pc[q] /\ ensured'[q] = ensured[q] /\ held'[q] = held[q]
  BY <1>9 DEF Restart, RestartRuntime, End, GoTo, TInv, TypeOK, RuntimeTypeOK
<1>10. QED BY <1>1, <1>2, <1>3, <1>4, <1>5, <1>6, <1>7, <1>8, <1>9, StepKinds

-----------------------------------------------------------------------------
(* The printed ID.  What makes it inductive: a reconcile about to publish   *)
(* holds the ID of the row of its own object, so that one which holds the   *)
(* stored version of an untouched tenant can only publish the right one.    *)
PrintedInv == EnsuredIsItsRow /\ UntouchedAsMade

LEMMA EnsuredStep ==
  ASSUME TInv, EnsuredIsItsRow, [Next]_vars
  PROVE  EnsuredIsItsRow'
<1>. SUFFICES ASSUME NEW q \in Replicas, pc'[q] = "UpdateStatus"
              PROVE  ensured'[q] = rows'[Wanted(q)']
  BY DEF EnsuredIsItsRow
<1>1. CASE EnsureTenant(q)
  <2>1. held' = held
    BY <1>1 DEF EnsureTenant, runtimeVars
  <2>2. Wanted(q)' = Wanted(q)
    BY <2>1 DEF Wanted
  <2>3. QED BY <1>1, <2>2 DEF EnsureTenant, TInv, TypeOK
<1>2. CASE /\ pc'[q] = pc[q] /\ ensured'[q] = ensured[q]
           /\ held'[q].key = held[q].key /\ held'[q].obj = held[q].obj
  <2>1. Wanted(q)' = Wanted(q) /\ Wanted(q) \in Names
    BY <1>2, Working DEF Wanted, NameOf
  <2>2. ensured[q] = rows[Wanted(q)] /\ ensured[q] # NoId
    BY <1>2 DEF EnsuredIsItsRow, TInv, TypeOK
  <2>3. QED BY <1>2, <2>1, <2>2, RowsStep
<1>3. QED BY <1>1, <1>2, HeldStep

LEMMA PrintedStep ==
  ASSUME TInv, PrintedInv, [Next]_vars
  PROVE  PrintedInv'
<1>1. EnsuredIsItsRow'
  BY EnsuredStep DEF PrintedInv
<1>2. ASSUME NEW k \in untouched'
      PROVE  AsMade(k)'
  <2>1. k \in Keys /\ k \in Names
    BY TypeStep, TenantAssumption DEF TInv, TypeOK
  <2>2. rows[k] # NoId => rows'[k] = rows[k]
    BY <2>1, RowsStep
  <2>3. k \in untouched => AsMade(k)
    BY DEF PrintedInv, UntouchedAsMade
  <2>4. CASE /\ api'[k] = api[k]
             /\ k \in untouched
             /\ printed'[k] = printed[k] \/ (api[k] # Absent /\ printed'[k] = api[k].id)
    BY <2>2, <2>3, <2>4 DEF AsMade
  <2>5. CASE /\ api'[k] # Absent /\ api'[k].id = NoId
             /\ api'[k].name = k /\ printed'[k] = NoId
    BY <2>5 DEF AsMade
  <2>6. ASSUME UNCHANGED cli, api[k] \in Object,
               NEW r \in Replicas, pc[r] = "UpdateStatus", held[r].key = k, held[r].obj = api[k],
               api'[k] = [api[k] EXCEPT !.id = ensured[r]]
        PROVE  AsMade(k)'
    <3>1. AsMade(k) /\ printed'[k] = printed[k]
      BY <2>3, <2>6 DEF cli
    <3>2. ensured[r] = rows[k] /\ ensured[r] # NoId
      BY <2>6, <3>1 DEF PrintedInv, EnsuredIsItsRow, Wanted, NameOf, AsMade, TInv, TypeOK
    <3>3. api'[k] \in Object /\ api'[k].name = api[k].name /\ api'[k].id = ensured[r]
      BY <2>6 DEF Object, TInv, TypeOK
    <3>4. QED BY <2>2, <3>1, <3>2, <3>3, TenantAssumption DEF AsMade
  <2>7. CASE \E r \in Replicas :
               /\ pc[r] = "UpdateStatus" /\ held[r].key = k /\ held[r].obj = api[k]
               /\ api'[k] = [api[k] EXCEPT !.id = ensured[r]] /\ api[k] \in Object /\ UNCHANGED cli
    BY <2>6, <2>7
  <2>8. \/ /\ api'[k] = api[k]
           /\ k \in untouched
           /\ printed'[k] = printed[k] \/ (api[k] # Absent /\ printed'[k] = api[k].id)
        \/ /\ api'[k] # Absent /\ api'[k].id = NoId
           /\ api'[k].name = k /\ printed'[k] = NoId
        \/ \E r \in Replicas :
              /\ pc[r] = "UpdateStatus" /\ held[r].key = k /\ held[r].obj = api[k]
              /\ api'[k] = [api[k] EXCEPT !.id = ensured[r]] /\ api[k] \in Object /\ UNCHANGED cli
    BY <1>2, <2>1, ObjectStep
  <2>9. QED BY <2>4, <2>5, <2>7, <2>8
<1>3. QED BY <1>1, <1>2 DEF PrintedInv, UntouchedAsMade

(* The ID that frkrctl tenant create prints is the one of the name it was   *)
(* given, unless somebody else edited the tenant since.                     *)
THEOREM PrintedRight == Spec => []PrintedIsItsOwn
<1>1. Init => PrintedInv
  BY DEF Init, PrintedInv, EnsuredIsItsRow, UntouchedAsMade
<1>2. PrintedInv => PrintedIsItsOwn
  BY DEF PrintedInv, UntouchedAsMade, AsMade, PrintedIsItsOwn
<1>3. TInv /\ PrintedInv /\ [Next]_vars => PrintedInv'
  BY PrintedStep
<1>4. QED BY <1>1, <1>2, <1>3, TypeCorrect, PTL DEF Spec, TInv

-----------------------------------------------------------------------------
(* No work is lost.  The queue, the flag of the informer copy, the object   *)
(* held, or the copy itself remembers what is left to do about a tenant.    *)
LEMMA ItsIDStays ==
  ASSUME TInv, [Next]_vars, NEW k \in Keys, NEW o \in Object, ItsID(k, o)
  PROVE  ItsID(k, o)'
<1>1. NameOf(k, o) \in Names
  BY TenantAssumption DEF NameOf, Object
<1>2. QED BY <1>1, RowsStep DEF ItsID, NameOf

LEMMA NothingLostStep ==
  ASSUME TInv, EnsuredIsItsRow, NothingLost, [Next]_vars
  PROVE  NothingLost'
<1>. DEFINE Follows(q, k) == held[q].key = k => k \in queue[q] \/ held[q].obj = cache[q][k]
<1>. SUFFICES ASSUME NEW q \in Replicas, NEW k \in Keys
              PROVE  Follows(q, k)' /\ Pending(q, k)'
  BY DEF NothingLost, HeldIsCached
<1>0. Follows(q, k) /\ Pending(q, k)
  BY DEF NothingLost, HeldIsCached
<1>a. cache[q][k] # Absent => cache[q][k] \in Object
  BY DEF TInv, TypeOK, RuntimeTypeOK
<1>b. ASSUME cache'[q][k] = cache[q][k], cache[q][k] # Absent, ItsID(k, cache[q][k])
      PROVE  ItsID(k, cache[q][k])'
  <2>1. DEFINE o == cache[q][k]
  <2>2. o \in Object /\ NameOf(k, o) \in Names /\ o' = o
    BY <1>a, <1>b, TenantAssumption DEF NameOf, Object
  <2>3. rows'[NameOf(k, o)] = rows[NameOf(k, o)]
    BY <1>b, <2>2, RowsStep DEF ItsID
  <2>4. QED BY <1>b, <2>2, <2>3 DEF ItsID, NameOf
(* Steps that leave what concerns q and k as it is. *)
<1>c. ASSUME /\ held'[q].key = held[q].key /\ held'[q].obj = held[q].obj
             /\ cache'[q][k] = cache[q][k]
             /\ synced'[q][k] => synced[q][k]
             /\ k \in queue[q] => k \in queue'[q]
      PROVE  Follows(q, k)' /\ Pending(q, k)'
  BY <1>0, <1>b, <1>c DEF Pending
<1>1. CASE UNCHANGED vars
  BY <1>1, <1>c DEF vars, runtimeVars
<1>2. CASE AdminEdit
  <2>1. PICK j \in Keys, o \in Object \cup {Absent} : Store(j, o)
    BY <1>2, EditStores
  <2>2. /\ held'[q].key = held[q].key /\ held'[q].obj = held[q].obj
        /\ UNCHANGED <<cache, queue>> /\ (synced'[q][k] => synced[q][k])
    BY <2>1 DEF Store, TInv, TypeOK, RuntimeTypeOK
  <2>3. QED BY <2>2, <1>c
<1>3. CASE \E j \in Keys : PollID(j) \/ TimeOut(j)
  BY <1>3, <1>c DEF PollID, TimeOut, runtimeVars
<1>4. CASE \E n \in Names : EnsureElsewhere(n)
  BY <1>4, <1>c DEF EnsureElsewhere, runtimeVars
<1>5. ASSUME NEW r \in Replicas, NEW j \in Keys, Watch(r, j)
      PROVE  Follows(q, k)' /\ Pending(q, k)'
  <2>1. CASE q = r /\ k = j
    <3>1. k \in queue'[q] /\ held' = held
      BY <1>5, <2>1 DEF Watch, Sync, TInv, TypeOK, RuntimeTypeOK
    <3>2. QED BY <3>1 DEF Pending
  <2>2. CASE ~(q = r /\ k = j)
    <3>1. /\ held' = held /\ cache'[q][k] = cache[q][k]
          /\ synced'[q][k] = synced[q][k] /\ queue[q] \subseteq queue'[q]
      BY <1>5, <2>2 DEF Watch, Sync, TInv, TypeOK, RuntimeTypeOK
    <3>2. QED BY <3>1, <1>c
  <2>3. QED BY <2>1, <2>2
<1>6. ASSUME NEW r \in Replicas, StartReconcile(r)
      PROVE  Follows(q, k)' /\ Pending(q, k)'
  <2>1. PICK j \in Keys : Fetch(r, j) \/ FetchMissing(r, j)
    BY <1>6 DEF StartReconcile
  <2>2. UNCHANGED <<api, cache, synced>>
    BY <2>1 DEF Fetch, FetchMissing
  <2>3. CASE q = r /\ Fetch(r, j)
    <3>1. /\ held[q].key = NoKey
          /\ held'[q].key = j /\ held'[q].obj = cache[q][j]
          /\ k # j /\ k \in queue[q] => k \in queue'[q]
      BY <2>3 DEF Fetch, TInv, TypeOK, RuntimeTypeOK
    <3>2. Follows(q, k)'
      BY <2>2, <3>1
    <3>3. Pending(q, k)'
      BY <1>0, <1>b, <2>2, <3>1, AbsentAssumption DEF Pending
    <3>4. QED BY <3>2, <3>3
  <2>4. CASE q = r /\ FetchMissing(r, j)
    <3>1. /\ held' = held /\ held[q].key = NoKey /\ cache[q][j] = Absent
          /\ k # j /\ k \in queue[q] => k \in queue'[q]
      BY <2>4 DEF FetchMissing, TInv, TypeOK, RuntimeTypeOK
    <3>2. QED BY <1>0, <1>b, <2>2, <3>1, AbsentAssumption DEF Pending
  <2>5. CASE q # r
    <3>1. held'[q] = held[q] /\ queue'[q] = queue[q]
      BY <2>1, <2>5 DEF Fetch, FetchMissing, TInv, TypeOK, RuntimeTypeOK
    <3>2. QED BY <2>2, <3>1, <1>c
  <2>6. QED BY <2>1, <2>3, <2>4, <2>5
<1>7. CASE \E r \in Replicas : EnsureTenant(r)
  BY <1>7, <1>c DEF EnsureTenant, runtimeVars
<1>8. ASSUME NEW r \in Replicas, Ending(r)
      PROVE  Follows(q, k)' /\ Pending(q, k)'
  <2>1. /\ pc[r] # "idle" /\ held[r].key \in Keys /\ held[r].obj \in Object
        /\ \/ NothingStored(r)
           \/ pc[r] = "UpdateStatus" /\ Publish(r)
    BY <1>8, EndingKinds, Working
  <2>2. /\ held'[r] = NotHeld
        /\ q # r => held'[q].key = held[q].key /\ held'[q].obj = held[q].obj
        /\ UNCHANGED cache
        /\ synced'[q][k] => synced[q][k]
        /\ synced'[q][k] /\ Publish(r) => k # held[r].key
    <3>1. CASE NothingStored(r) /\ ~Publish(r)
      BY <3>1 DEF NothingStored, TInv, TypeOK, RuntimeTypeOK
    <3>2. CASE Publish(r)
      <4>1. /\ UNCHANGED cache
            /\ held'[r] = NotHeld
            /\ \A p \in Replicas \ {r} : held'[p].key = held[p].key /\ held'[p].obj = held[p].obj
        BY <2>1, <3>2, PublishEffect
      <4>2. \A p \in Replicas, j \in Keys : synced'[p][j] => synced[p][j] /\ j # held[r].key
        BY <2>1, <3>2, PublishEffect
      <4>3. QED BY <4>1, <4>2
    <3>3. QED BY <2>1, <3>1, <3>2
  <2>3. k \in queue[q] => k \in queue'[q]
    <3>1. Done(r) \/ Requeue(r)
      BY <1>8, EndingKinds
    <3>2. queue \in [Replicas -> SUBSET Keys]
      BY DEF TInv, TypeOK, RuntimeTypeOK
    <3>3. QED BY <3>1, <3>2 DEF Done, Requeue
  <2>4. CASE q # r
    BY <2>2, <2>3, <2>4, <1>c
  <2>5. CASE q = r /\ k # held[r].key
    <3>1. Follows(q, k)'
      BY <2>2, <2>5, AbsentAssumption DEF NotHeld
    <3>2. QED BY <1>0, <1>b, <2>2, <2>3, <2>5, <3>1 DEF Pending
  <2>6. CASE q = r /\ k = held[r].key
    <3>1. Follows(q, k)'
      BY <2>2, <2>6, AbsentAssumption DEF NotHeld
    <3>2. CASE Requeue(r)
      <4>1. k \in queue'[q]
        BY <2>6, <3>2 DEF Requeue, TInv, TypeOK, RuntimeTypeOK
      <4>2. QED BY <3>1, <4>1 DEF Pending
    <3>3. CASE UpdateStatus(r)
      BY <2>2, <2>6, <3>1, <3>3 DEF UpdateStatus, Pending
    <3>4. CASE NothingToUpdate(r)
      <4>1. held[r].obj.id = ensured[r] /\ ensured[r] = rows[Wanted(r)] /\ ensured[r] # NoId
        BY <3>4 DEF NothingToUpdate, AtStage, HasID, EnsuredIsItsRow, TInv, TypeOK
      <4>2. ItsID(k, held[r].obj)
        BY <2>6, <4>1 DEF ItsID, Wanted
      <4>3. CASE k \in queue[q]
        BY <2>3, <3>1, <4>3 DEF Pending
      <4>4. CASE held[q].obj = cache[q][k]
        <5>1. cache[q][k] # Absent
          BY <2>1, <2>6, <4>4, TenantAssumption
        <5>2. ItsID(k, cache[q][k])'
          BY <1>b, <2>2, <2>6, <4>2, <4>4, <5>1
        <5>3. QED BY <3>1, <5>2 DEF Pending
      <4>5. QED BY <1>0, <2>6, <4>3, <4>4
    <3>5. QED BY <1>8, <3>2, <3>3, <3>4 DEF Ending, EnsureTenantFails, UpdateStatusFails
  <2>7. QED BY <2>4, <2>5, <2>6
<1>9. ASSUME NEW r \in Replicas, Restart(r)
      PROVE  Follows(q, k)' /\ Pending(q, k)'
  <2>1. CASE q = r
    <3>1. /\ held'[q] = NotHeld /\ cache'[q][k] = api[k]
          /\ api[k] # Absent => k \in queue'[q]
      BY <1>9, <2>1 DEF Restart, RestartRuntime, TInv, TypeOK, RuntimeTypeOK
    <3>2. QED BY <3>1, AbsentAssumption DEF NotHeld, Pending
  <2>2. CASE q # r
    <3>1. /\ held'[q] = held[q] /\ cache'[q] = cache[q]
          /\ synced'[q] = synced[q] /\ queue'[q] = queue[q]
      BY <1>9, <2>2 DEF Restart, RestartRuntime, TInv, TypeOK, RuntimeTypeOK
    <3>2. QED BY <3>1, <1>c
  <2>3. QED BY <2>1, <2>2
<1>10. QED BY <1>1, <1>2, <1>3, <1>4, <1>5, <1>6, <1>7, <1>8, <1>9, StepKinds

(* A process with nothing left to do about a tenant has brought it to the   *)
(* ID of its present name.                                                  *)
THEOREM NothingIsForgotten == Spec => []IdAtRest
<1>1. Init => EnsuredIsItsRow /\ NothingLost
  BY AbsentAssumption DEF Init, RuntimeInit, NotHeld, EnsuredIsItsRow, NothingLost, HeldIsCached, Pending
<1>2. TInv /\ NothingLost => IdAtRest
  BY DEF TInv, CopiesAreCurrent, NothingLost, Pending, ItsID, Quiescent, IdAtRest, HasItsID
<1>3. TInv /\ EnsuredIsItsRow /\ NothingLost /\ [Next]_vars => (EnsuredIsItsRow /\ NothingLost)'
  BY EnsuredStep, NothingLostStep
<1>4. QED BY <1>1, <1>2, <1>3, TypeCorrect, PTL DEF Spec, TInv

-----------------------------------------------------------------------------
(* TenantController implements Provisioning: a step makes a row, or changes *)
(* one tenant, and only the end of a reconcile publishes an ID.             *)
LEMMA OneChange ==
  ASSUME TInv, [Next]_vars
  PROVE  \/ api' = api
         \/ rows' = rows /\ \E k \in Keys : \A j \in Keys \ {k} : api'[j] = api[j]
<1>1. CASE UNCHANGED vars \/ \E k \in Keys : PollID(k) \/ TimeOut(k)
  BY <1>1 DEF vars, PollID, TimeOut, runtimeVars
<1>2. CASE AdminEdit
  <2>1. PICK k \in Keys, o \in Object \cup {Absent} : Store(k, o)
    BY <1>2, EditStores
  <2>2. QED BY <1>2, <2>1 DEF AdminEdit, Store, TInv, TypeOK, RuntimeTypeOK
<1>3. CASE \E n \in Names : EnsureElsewhere(n)
  BY <1>3 DEF EnsureElsewhere, runtimeVars
<1>4. CASE \E r \in Replicas, k \in Keys : Watch(r, k)
  BY <1>4 DEF Watch, Sync
<1>5. CASE \E r \in Replicas : StartReconcile(r) \/ EnsureTenant(r) \/ Restart(r)
  BY <1>5 DEF StartReconcile, Fetch, FetchMissing, EnsureTenant, runtimeVars, Restart, RestartRuntime
<1>6. ASSUME NEW r \in Replicas, Ending(r)
      PROVE  \/ api' = api
             \/ rows' = rows /\ \E k \in Keys : \A j \in Keys \ {k} : api'[j] = api[j]
  <2>1. CASE NothingStored(r)
    BY <2>1 DEF NothingStored
  <2>2. CASE pc[r] = "UpdateStatus" /\ Publish(r)
    <3>1. held[r].key \in Keys /\ rows' = rows
      BY <1>6, <2>2, EndingKinds
    <3>2. api' = [api EXCEPT ![held[r].key] = [held[r].obj EXCEPT !.id = ensured[r]]]
      BY <2>2, PublishEffect
    <3>3. \A j \in Keys \ {held[r].key} : api'[j] = api[j]
      BY <3>1, <3>2 DEF TInv, TypeOK, RuntimeTypeOK
    <3>4. QED BY <3>1, <3>3
  <2>3. QED BY <1>6, <2>1, <2>2, EndingKinds
<1>7. QED BY <1>1, <1>2, <1>3, <1>4, <1>5, <1>6, StepKinds

ClaimOf(o) == IF o = Absent THEN NoId ELSE o.id

LEMMA PromiseStep ==
  ASSUME TInv, EnsuredIsItsRow, [Next]_vars
  PROVE  [Promise!Next]_<<Issued, Claims>>
<1>1. CASE api' = api
  <2>1. Claims' = Claims
    BY <1>1 DEF Claims
  <2>2. CASE Issued' = Issued
    BY <2>1, <2>2
  <2>3. ASSUME NEW i \in Ids, Issued' = Issued \cup {i}
        PROVE  Promise!Next
    BY <2>1, <2>3 DEF Promise!Next, Promise!Make
  <2>4. QED BY <2>2, <2>3, RowsStep
<1>2. ASSUME rows' = rows, NEW k \in Keys, \A j \in Keys \ {k} : api'[j] = api[j]
      PROVE  [Promise!Next]_<<Issued, Claims>>
  <2>1. Issued' = Issued
    BY <1>2 DEF Issued
  <2>2. Claims' = [Claims EXCEPT ![k] = ClaimOf(api'[k])]
    BY <1>2 DEF Claims, ClaimOf
  <2>3. CASE ClaimOf(api'[k]) = ClaimOf(api[k])
    <3>1. Claims' = Claims
      BY <1>2, <2>3 DEF Claims, ClaimOf
    <3>2. QED BY <2>1, <3>1
  <2>4. CASE ClaimOf(api'[k]) = NoId
    BY <2>1, <2>2, <2>4 DEF Promise!Next, Promise!Withdraw
  <2>5. ASSUME NEW r \in Replicas, pc[r] = "UpdateStatus", api[k] \in Object,
               api'[k] = [api[k] EXCEPT !.id = ensured[r]]
        PROVE  Promise!Next
    <3>1. ensured[r] = rows[Wanted(r)] /\ ensured[r] # NoId /\ Wanted(r) \in Names
      BY <2>5, Working DEF EnsuredIsItsRow, TInv, TypeOK
    <3>2. ensured[r] \in Ids /\ ensured[r] \in Issued
      BY <3>1 DEF Issued, TInv, TypeOK
    <3>3. api'[k] \in Object /\ api'[k].id = ensured[r]
      BY <2>5, <3>2 DEF Object
    <3>4. ClaimOf(api'[k]) = ensured[r]
      BY <3>3, TenantAssumption DEF ClaimOf
    <3>5. QED BY <2>1, <2>2, <3>2, <3>4 DEF Promise!Next, Promise!Claim
  <2>6. \/ ClaimOf(api'[k]) \in {ClaimOf(api[k]), NoId}
        \/ \E r \in Replicas : /\ pc[r] = "UpdateStatus" /\ api[k] \in Object
                                /\ api'[k] = [api[k] EXCEPT !.id = ensured[r]]
    <3>1. api'[k] = api[k] => ClaimOf(api'[k]) = ClaimOf(api[k])
      BY DEF ClaimOf
    <3>2. api'[k] = Absent \/ api'[k].id = NoId => ClaimOf(api'[k]) = NoId
      BY DEF ClaimOf
    <3>3. api[k] # Absent /\ api'[k].id = api[k].id => ClaimOf(api'[k]) \in {ClaimOf(api[k]), NoId}
      BY DEF ClaimOf
    <3>4. QED BY <3>1, <3>2, <3>3, ObjectStep
  <2>7. QED BY <2>3, <2>4, <2>5, <2>6
<1>3. QED BY <1>1, <1>2, OneChange

(* The reconciler keeps the promise of Provisioning: rows are only added,   *)
(* and a status shows an ID only when the row that has it exists.           *)
THEOREM KeepsPromise == Spec => ImplementsProvisioning
<1>1. Init => Promise!Init /\ EnsuredIsItsRow
  <2>1. Init => Issued = {} /\ Claims = [k \in Keys |-> NoId]
    BY DEF Init, RuntimeInit, Issued, Claims
  <2>2. QED BY <2>1 DEF Init, Promise!Init, EnsuredIsItsRow
<1>2. TInv /\ EnsuredIsItsRow /\ [Next]_vars => EnsuredIsItsRow'
  BY EnsuredStep
<1>3. TInv /\ EnsuredIsItsRow /\ [Next]_vars => [Promise!Next]_<<Issued, Claims>>
  BY PromiseStep
<1>4. QED BY <1>1, <1>2, <1>3, TypeCorrect, PTL DEF Spec, TInv, ImplementsProvisioning, Promise!Spec

-----------------------------------------------------------------------------
(* Onboarding. *)

(* What concerns tenants is a step of the tenant controller or a stutter. *)
LEMMA TenantPart ==
  ASSUME [OnboardingNext]_allVars
  PROVE  [Next]_vars
<1>1. CASE UNCHANGED allVars \/ \E k \in Clients : CreateClient(k) \/ PollSecret(k) \/ ClientTimeOut(k)
  BY <1>1 DEF allVars, tenantVars, vars, CreateClient, PollSecret, ClientTimeOut
<1>2. CASE TenantStep
  BY <1>2 DEF TenantStep, Next
<1>3. CASE \E r \in Replicas : RestartBoth(r)
  BY <1>3 DEF RestartBoth, Next
<1>4. CASE \/ ClientStep(C!UserEdit)
           \/ \E r \in Replicas, k \in Clients : ClientStep(C!Watch(r, k) \/ C!WatchSecret(r, k))
           \/ \E r \in Replicas : ClientStep(C!Reconcile(r))
  BY <1>4 DEF ClientStep, tenantVars, vars
<1>5. QED BY <1>1, <1>2, <1>3, <1>4 DEF OnboardingNext

(* The composition implements TenantController: the client controller and   *)
(* its command leave tenants alone.                                         *)
THEOREM ImplementsTenants == OnboardingSpec => Spec
<1>1. OnboardingInit => Init
  BY DEF OnboardingInit
<1>2. [OnboardingNext]_allVars => [Next]_vars
  BY TenantPart
<1>3. QED BY <1>1, <1>2, PTL DEF OnboardingSpec, Spec

(* A step of the tenant controller issues at most one ID. *)
LEMMA TenantStepForClients ==
  ASSUME TInv, TenantStep
  PROVE  C!TenantAppears \/ UNCHANGED C!vars
<1>1. Issued' = Issued \/ \E i \in Ids : Issued' = Issued \cup {i}
  BY RowsStep DEF TenantStep, Next
<1>2. UNCHANGED clientVars
  BY DEF TenantStep
<1>3. CASE Issued' = Issued
  BY <1>2, <1>3 DEF clientVars, C!vars, C!runtimeVars, C!secretVars, C!external
<1>4. ASSUME NEW i \in Ids \ Issued, Issued' = Issued \cup {i}
      PROVE  C!TenantAppears
  BY <1>2, <1>4 DEF clientVars, C!TenantAppears, C!runtimeVars, C!secretVars
<1>5. QED BY <1>1, <1>3, <1>4

(* The command creates a client as ClientController has its users do. *)
LEMMA CommandForClients ==
  ASSUME TInv, NEW k \in Clients, CreateClient(k)
  PROVE  C!UserEdit
<1>1. PICK t \in Keys, c \in ClientIds, s \in Given \cup {Unset} :
        /\ api[t] # Absent /\ api[t].id # NoId
        /\ C!CreateObject(k, [row |-> [tenant |-> api[t].id, clientId |-> c], secret |-> s])
  BY DEF CreateClient
<1>2. api[t].id \in Ids
  BY <1>1 DEF TInv, TypeOK, RuntimeTypeOK, Object
<1>3. [row |-> [tenant |-> api[t].id, clientId |-> c], secret |-> s] \in C!Spec0
  BY <1>2 DEF C!Spec0, C!Row
<1>4. UNCHANGED <<tenantVars, secrets, secretCache, secretSynced, clients, cPc, chosen>>
  BY DEF CreateClient
<1>5. Issued' = Issued
  BY <1>4 DEF tenantVars, Issued
<1>6. QED BY <1>1, <1>3, <1>4, <1>5 DEF CreateClient, C!UserEdit, C!secretVars

(* Every step of the composition is one of ClientController's or a stutter. *)
LEMMA ClientPart ==
  ASSUME TInv, [OnboardingNext]_allVars
  PROVE  [C!Next]_(C!vars)
<1>. USE DEF C!vars, C!runtimeVars, C!secretVars, C!external
<1>0. rows' = rows => Issued' = Issued
  BY DEF Issued
<1>1. CASE UNCHANGED allVars \/ \E k \in Clients : PollSecret(k) \/ ClientTimeOut(k)
  BY <1>0, <1>1 DEF allVars, tenantVars, clientVars, PollSecret, ClientTimeOut
<1>2. CASE \E k \in Clients : CreateClient(k)
  BY <1>2, CommandForClients DEF C!Next
<1>3. CASE TenantStep
  BY <1>3, TenantStepForClients DEF C!Next
<1>4. CASE \E r \in Replicas : RestartBoth(r)
  BY <1>4 DEF RestartBoth, C!Next
<1>5. CASE \/ ClientStep(C!UserEdit)
           \/ \E r \in Replicas, k \in Clients : ClientStep(C!Watch(r, k) \/ C!WatchSecret(r, k))
           \/ \E r \in Replicas : ClientStep(C!Reconcile(r))
  BY <1>5 DEF ClientStep, C!Next
<1>6. QED BY <1>1, <1>2, <1>3, <1>4, <1>5 DEF OnboardingNext

(* The composition implements ClientController: what that module assumes of *)
(* its surroundings is what the tenant controller does.                     *)
THEOREM ImplementsClientController == OnboardingSpec => ImplementsClients
<1>1. OnboardingInit => C!Init
  BY DEF OnboardingInit
<1>2. TInv /\ [OnboardingNext]_allVars => [C!Next]_(C!vars)
  BY ClientPart
<1>3. OnboardingSpec => []TInv
  BY ImplementsTenants, TypeCorrect, PTL DEF TInv
<1>4. QED BY <1>1, <1>2, <1>3, PTL DEF OnboardingSpec, ImplementsClients, C!Spec

-----------------------------------------------------------------------------
(* The theorems about ClientController, of the clients of the composition.  *)
CP == INSTANCE ClientProofs WITH
  Keys <- Clients, Tenants <- Ids, MaxEdits <- MaxClientEdits, MaxDeletes <- 0,
  api <- cApi, cache <- cCache, synced <- cSynced, queue <- cQueue, held <- cHeld,
  tenants <- Issued, pc <- cPc, edits <- cEdits

(* C and CP define the same controller, word for word.                      *)
LEMMA SameInit ==
  ASSUME C!Init
  PROVE  CP!Init
BY Zenon DEF C!Init, C!RuntimeInit, C!SecretInit, C!NotHeld, C!NotChosen, C!Row,
          CP!Init, CP!RuntimeInit, CP!SecretInit, CP!NotHeld, CP!NotChosen, CP!Row

LEMMA SameNext ==
  ASSUME [C!Next]_(C!vars)
  PROVE  [CP!Next]_(CP!vars)
BY Zenon DEF C!runtimeVars, C!NotHeld, C!Store, C!Sync, C!Fetch, C!FetchMissing, C!StatusStored,
          C!NothingStored, C!Done, C!Requeue, C!RestartRuntime, C!secretVars, C!Secret, C!PutSecret,
          C!CreateSecret, C!ReplaceSecret, C!ApplySecret, C!SyncSecret, C!Owned, C!CollectSecret,
          C!RestartSecrets, C!Value, C!Row, C!Spec0, C!Status, C!Object, C!Data, C!external, C!vars,
          C!NewStatus, C!NotChosen, C!Wanted, C!AtStage, C!GoTo, C!CreateObject, C!EditSpec,
          C!DeleteObject, C!UserEdit, C!TenantAppears, C!GarbageCollect, C!InUse, C!NewValue, C!Choose,
          C!StartReconcile, C!End, C!ReturnError, C!Inserted, C!EnsureClient, C!EnsureClientFails,
          C!WithoutDatabase, C!WriteSecret, C!PersistSecret, C!PersistSecretFails, C!PersistSecretSkipped,
          C!ReadyObject, C!UpdateStatus, C!UpdateStatusFails, C!Reconcile, C!Watch, C!WatchSecret,
          C!Restart, C!Next,
          CP!runtimeVars, CP!NotHeld, CP!Store, CP!Sync, CP!Fetch, CP!FetchMissing, CP!StatusStored,
          CP!NothingStored, CP!Done, CP!Requeue, CP!RestartRuntime, CP!secretVars, CP!Secret,
          CP!PutSecret, CP!CreateSecret, CP!ReplaceSecret, CP!ApplySecret, CP!SyncSecret, CP!Owned,
          CP!CollectSecret, CP!RestartSecrets, CP!Value, CP!Row, CP!Spec0, CP!Status, CP!Object, CP!Data,
          CP!external, CP!vars, CP!NewStatus, CP!NotChosen, CP!Wanted, CP!AtStage, CP!GoTo,
          CP!CreateObject, CP!EditSpec, CP!DeleteObject, CP!UserEdit, CP!TenantAppears, CP!GarbageCollect,
          CP!InUse, CP!NewValue, CP!Choose, CP!StartReconcile, CP!End, CP!ReturnError, CP!Inserted,
          CP!EnsureClient, CP!EnsureClientFails, CP!WithoutDatabase, CP!WriteSecret, CP!PersistSecret,
          CP!PersistSecretFails, CP!PersistSecretSkipped, CP!ReadyObject, CP!UpdateStatus,
          CP!UpdateStatusFails, CP!Reconcile, CP!Watch, CP!WatchSecret, CP!Restart, CP!Next

(* What ClientController assumes of its constants. *)
LEMMA ClientConstants == CP!ClientAssumption /\ CP!AbsentAssumption /\ CP!ProcessAssumption
BY OnboardingAssumption, ProcessAssumption
   DEF CP!ClientAssumption, CP!AbsentAssumption, CP!ProcessAssumption, C!Value, CP!Value, C!Row, CP!Row,
       C!Spec0, CP!Spec0, C!Status, CP!Status, C!Object, CP!Object, C!Data, CP!Data, C!Secret, CP!Secret

(* The command has shown only Secrets that are there to stay. *)
ShownExists == \A k \in shown : k \in Clients /\ secrets[k] # NoSecret

LEMMA ShownExistsStep ==
  ASSUME ShownExists, [OnboardingNext]_allVars, [CP!SecretsStay]_(CP!vars)
  PROVE  ShownExists'
<1>1. \A k \in Clients : secrets[k] # NoSecret => secrets'[k] # NoSecret
  BY DEF CP!SecretsStay, CP!vars, CP!secretVars
<1>2. ASSUME NEW k \in Clients, PollSecret(k)
      PROVE  ShownExists'
  BY <1>2 DEF PollSecret, clientVars, ShownExists
<1>3. CASE shown' \subseteq shown
  BY <1>1, <1>3 DEF ShownExists
<1>4. CASE UNCHANGED allVars \/ \E k \in Clients : CreateClient(k) \/ ClientTimeOut(k)
  BY <1>3, <1>4 DEF allVars, command, CreateClient, ClientTimeOut
<1>5. CASE \/ TenantStep \/ ClientStep(C!UserEdit)
           \/ \E r \in Replicas, k \in Clients : ClientStep(C!Watch(r, k) \/ C!WatchSecret(r, k))
           \/ \E r \in Replicas : ClientStep(C!Reconcile(r)) \/ RestartBoth(r)
  BY <1>3, <1>5 DEF TenantStep, ClientStep, RestartBoth, command
<1>6. QED BY <1>2, <1>4, <1>5 DEF OnboardingNext

(* Once frkrctl client create has said "Client Credential Ready!", the      *)
(* database has a client of the client ID in the Secret, in a tenant that   *)
(* exists, whatever edits and failures follow: when the processes are       *)
(* connected to the database.                                               *)
THEOREM ShownBacked ==
  ASSUME Disconnected = {}
  PROVE  OnboardingSpec => []ShownIsBacked
<1>1. OnboardingSpec => CP!Spec
  <2>1. OnboardingInit => CP!Init
    BY SameInit DEF OnboardingInit
  <2>2. TInv /\ [OnboardingNext]_allVars => [CP!Next]_(CP!vars)
    BY ClientPart, SameNext
  <2>3. OnboardingSpec => []TInv
    BY ImplementsTenants, TypeCorrect, PTL DEF TInv
  <2>4. QED BY <2>1, <2>2, <2>3, PTL DEF OnboardingSpec, CP!Spec
<1>2. CP!Spec => []CP!ShowsRows
  BY ClientConstants, CP!SecretBacked
     DEF CP!SecretBacked, CP!ClientAssumption, CP!AbsentAssumption, CP!ProcessAssumption
<1>3. CP!Spec => [][CP!SecretsStay]_(CP!vars)
  BY ClientConstants, CP!SecretKept
     DEF CP!SecretKept, CP!ClientAssumption, CP!AbsentAssumption, CP!ProcessAssumption
<1>4. OnboardingInit => ShownExists
  BY DEF OnboardingInit, ShownExists
<1>5. ShownExists /\ [OnboardingNext]_allVars /\ [CP!SecretsStay]_(CP!vars) => ShownExists'
  BY ShownExistsStep
<1>6. ShownExists /\ CP!ShowsRows => ShownIsBacked
  BY DEF ShownExists, CP!ShowsRows, CP!ShowsRow, ShownIsBacked, C!Row, CP!Row
<1>7. QED BY <1>1, <1>2, <1>3, <1>4, <1>5, <1>6, PTL DEF OnboardingSpec
=============================================================================
