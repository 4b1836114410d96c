---------------------------- MODULE StreamProofs ----------------------------
(***************************************************************************)
(* Theorems about StreamController, for every set of processes, stream     *)
(* objects, tenants and names, and every number of edits.                  *)
(***************************************************************************)
EXTENDS StreamController, RuntimeProofs

Backed(o) == o # Absent /\ o.status.stream # NoStream => Exists(o.status.stream)

(* Every copy of a status is backed: a reconcile may write back the one it  *)
(* read long ago.                                                           *)
AllBacked ==
  /\ \A k \in Keys : Backed(api[k])
  /\ \A r \in Replicas, k \in Keys : Backed(cache[r][k])
  /\ \A r \in Replicas : Backed(held[r].obj)

(* What a reconcile has already made when it is about to make the next.     *)
Progress ==
  \A r \in Replicas :
    /\ pc[r] \in {"CreateStream", "CreateTopic", "UpdateStatus"} => Wanted(r).tenant \in tenants
    /\ pc[r] \in {"CreateTopic", "UpdateStatus"} => Wanted(r) \in streams
    /\ pc[r] = "UpdateStatus" => Wanted(r) \in topics

(* Where the work that is left is remembered.                               *)
Pending(r, k) ==
  \/ ~synced[r][k]
  \/ k \in queue[r]
  \/ held[r].key = k
  \/ cache[r][k] = Absent
  \/ Converged(cache[r][k])

NothingLost == \A r \in Replicas, k \in Keys : Pending(r, k)

IInv == TypeOK /\ CopiesAreCurrent /\ AllBacked /\ Progress /\ NothingLost

-----------------------------------------------------------------------------
(* Types. *)
TInv == TypeOK /\ CopiesAreCurrent

(* Values the reconciler stores are objects. *)
LEMMA StoredObjects ==
  ASSUME TInv, NEW r \in Replicas, pc[r] # "idle"
  PROVE  /\ held[r].key \in Keys /\ held[r].obj \in Object /\ Wanted(r) \in Target
         /\ ReadyObject(r) \in Object
         /\ \A reason \in Reasons : [held[r].obj EXCEPT !.status.reason = reason] \in Object
<1>1. held[r].key \in Keys /\ held[r].obj \in Object
  BY DEF TInv, TypeOK, RuntimeTypeOK
<1>2. Wanted(r) \in Target
  BY <1>1 DEF Wanted, Object
<1>3. ReadyObject(r) \in Object
  BY <1>1, <1>2 DEF ReadyObject, Object, Status, Reasons
<1>4. \A reason \in Reasons : [held[r].obj EXCEPT !.status.reason = reason] \in Object
  BY <1>1 DEF Object, Status
<1>5. QED BY <1>1, <1>2, <1>3, <1>4

(* The end of a reconcile. *)
LEMMA EndType ==
  ASSUME TInv, NEW r \in Replicas, pc[r] # "idle", NEW o \in Object,
         StatusStored(r, o) \/ NothingStored(r), Done(r) \/ Requeue(r), GoTo(r, "idle")
  PROVE  /\ RuntimeInv(Object)'
         /\ pc' \in [Replicas -> Stages]
         /\ \A q \in Replicas : pc'[q] = "idle" <=> held'[q].key = NoKey
<1>1. RuntimeInv(Object) /\ held[r].key \in Keys
  BY StoredObjects DEF TInv, TypeOK, RuntimeInv
<1>2. RuntimeInv(Object)'
  BY <1>1, EndOK
<1>3. pc' \in [Replicas -> Stages]
  BY DEF TInv, TypeOK, GoTo, Stages
<1>4. held'[r] = NotHeld /\ \A q \in Replicas \ {r} : held'[q].key = held[q].key
  <2>1. CASE StatusStored(r, o)
    BY <1>1, <2>1, StatusStoredEffect
  <2>2. CASE NothingStored(r)
    BY <2>2 DEF NothingStored, TInv, TypeOK, RuntimeTypeOK
  <2>3. QED BY <2>1, <2>2
<1>5. \A q \in Replicas : pc'[q] = "idle" <=> held'[q].key = NoKey
  BY <1>4 DEF TInv, TypeOK, GoTo, NotHeld
<1>6. QED BY <1>2, <1>3, <1>5

LEMMA FailureType ==
  ASSUME TInv, NEW r \in Replicas, pc[r] # "idle", NEW reason \in Reasons, ReportFailure(r, reason)
  PROVE  /\ RuntimeInv(Object)'
         /\ pc' \in [Replicas -> Stages]
         /\ \A q \in Replicas : pc'[q] = "idle" <=> held'[q].key = NoKey
         /\ edits' = edits
<1>. DEFINE o == [held[r].obj EXCEPT !.status.reason = reason]
<1>1. o \in Object
  BY StoredObjects
<1>2. StatusStored(r, o) \/ NothingStored(r)
  BY DEF ReportFailure
<1>. HIDE DEF o
<1>3. QED BY <1>1, <1>2, EndType DEF ReportFailure

(* Steps in the middle of a reconcile leave the runtime alone. *)
LEMMA MiddleType ==
  ASSUME TInv, NEW r \in Replicas, pc[r] # "idle", NEW s \in Stages \ {"idle"},
         GoTo(r, s), UNCHANGED runtimeVars
  PROVE  /\ RuntimeInv(Object)'
         /\ pc' \in [Replicas -> Stages]
         /\ \A q \in Replicas : pc'[q] = "idle" <=> held'[q].key = NoKey
<1>1. RuntimeInv(Object)'
  BY UnchangedOK DEF TInv, TypeOK, RuntimeInv
<1>2. QED BY <1>1 DEF TInv, TypeOK, GoTo, runtimeVars

LEMMA TypeStep ==
  ASSUME TInv, [Next]_vars
  PROVE  TInv'
<1>. USE DEF RuntimeInv
<1>1. CASE UNCHANGED vars
  <2>1. RuntimeInv(Object)'
    BY <1>1, UnchangedOK DEF TInv, TypeOK, vars
  <2>2. QED BY <1>1, <2>1 DEF TInv, TypeOK, vars, runtimeVars, infraVars
<1>2. CASE UserEdit
  <2>1. PICK k \in Keys, o \in Object \cup {Absent} : Store(k, o)
    <3>1. ASSUME NEW k \in Keys, NEW s \in Target, CreateObject(k, s)
          PROVE  [spec |-> s, status |-> NewStatus] \in Object
      BY <3>1 DEF Object, Status, NewStatus, Reasons
    <3>2. ASSUME NEW k \in Keys, NEW s \in Target, EditSpec(k, s)
          PROVE  [api[k] EXCEPT !.spec = s] \in Object
      <4>1. api[k] \in Object
        BY <3>2 DEF EditSpec, TInv, TypeOK, RuntimeTypeOK
      <4>2. QED BY <4>1 DEF Object
    <3>3. QED BY <1>2, <3>1, <3>2 DEF UserEdit, CreateObject, EditSpec, DeleteObject
  <2>2. RuntimeInv(Object)'
    BY <2>1, StoreOK DEF TInv, TypeOK
  <2>3. \A q \in Replicas : held'[q].key = held[q].key
    BY <2>1 DEF Store, TInv, TypeOK, RuntimeTypeOK
  <2>4. edits' \in 0 .. MaxEdits
    BY <1>2, StreamAssumption DEF UserEdit, TInv, TypeOK
  <2>5. QED BY <1>2, <2>2, <2>3, <2>4 DEF UserEdit, infraVars, TInv, TypeOK
<1>3. ASSUME NEW r \in Replicas, NEW k \in Keys, Watch(r, k)
      PROVE  TInv'
  <2>1. RuntimeInv(Object)'
    BY <1>3, SyncOK DEF Watch, TInv, TypeOK
  <2>2. QED BY <1>3, <2>1 DEF Watch, Sync, infraVars, TInv, TypeOK
<1>4. ASSUME NEW r \in Replicas, Reconcile(r)
      PROVE  TInv'
  <2>1. CASE StartReconcile(r)
    <3>1. PICK k \in Keys : \/ Fetch(r, k) /\ GoTo(r, "EnsureTenant")
                            \/ FetchMissing(r, k) /\ UNCHANGED pc
      BY <2>1 DEF StartReconcile
    <3>2. RuntimeInv(Object)'
      BY <3>1, FetchOK DEF TInv, TypeOK
    <3>3. \A q \in Replicas : pc'[q] = "idle" <=> held'[q].key = NoKey
      <4>1. CASE Fetch(r, k) /\ GoTo(r, "EnsureTenant")
        <5>1. held'[r].key = k /\ \A q \in Replicas \ {r} : held'[q] = held[q]
          BY <4>1 DEF Fetch, TInv, TypeOK, RuntimeTypeOK
        <5>2. pc'[r] = "EnsureTenant" /\ \A q \in Replicas \ {r} : pc'[q] = pc[q]
          BY <4>1 DEF GoTo, TInv, TypeOK
        <5>3. QED BY <5>1, <5>2, AbsentAssumption DEF TInv, TypeOK
      <4>2. CASE FetchMissing(r, k) /\ UNCHANGED pc
        BY <4>2 DEF FetchMissing, TInv, TypeOK
      <4>3. QED BY <3>1, <4>1, <4>2
    <3>4. pc' \in [Replicas -> Stages]
      BY <3>1 DEF GoTo, Stages, TInv, TypeOK
    <3>5. QED BY <2>1, <3>2, <3>3, <3>4 DEF StartReconcile, infraVars, TInv, TypeOK
  <2>2. CASE NoDatabase(r)
    BY <2>2, FailureType DEF NoDatabase, AtStage, Reasons, infraVars, TInv, TypeOK
  <2>3. CASE EnsureTenant(r)
    <3>1. Wanted(r).tenant \in Tenants
      BY <2>3, StoredObjects DEF EnsureTenant, AtStage, Target
    <3>2. QED BY <2>3, <3>1, MiddleType DEF EnsureTenant, AtStage, Stages, TInv, TypeOK
  <2>4. CASE EnsureTenantFails(r)
    <3>1. Wanted(r).tenant \in Tenants
      BY <2>4, StoredObjects DEF EnsureTenantFails, AtStage, Target
    <3>2. QED BY <2>4, <3>1, FailureType DEF EnsureTenantFails, AtStage, Reasons, TInv, TypeOK
  <2>5. CASE CreateStream(r)
    BY <2>5, StoredObjects, MiddleType DEF CreateStream, AtStage, Stages, TInv, TypeOK
  <2>6. CASE CreateStreamFails(r)
    BY <2>6, StoredObjects, FailureType DEF CreateStreamFails, AtStage, Reasons, TInv, TypeOK
  <2>7. CASE CreateTopic(r)
    BY <2>7, StoredObjects, MiddleType DEF CreateTopic, AtStage, Stages, TInv, TypeOK
  <2>8. CASE CreateTopicFails(r)
    BY <2>8, StoredObjects, FailureType DEF CreateTopicFails, AtStage, Reasons, TInv, TypeOK
  <2>9. CASE UpdateStatus(r) \/ UpdateStatusFails(r)
    <3>1. /\ RuntimeInv(Object)'
          /\ pc' \in [Replicas -> Stages]
          /\ \A q \in Replicas : pc'[q] = "idle" <=> held'[q].key = NoKey
      BY <2>9, StoredObjects, EndType DEF UpdateStatus, UpdateStatusFails, AtStage
    <3>2. QED BY <2>9, <3>1 DEF UpdateStatus, UpdateStatusFails, infraVars, TInv, TypeOK
  <2>10. QED BY <1>4, <2>1, <2>2, <2>3, <2>4, <2>5, <2>6, <2>7, <2>8, <2>9 DEF Reconcile
<1>5. ASSUME NEW r \in Replicas, Restart(r)
      PROVE  TInv'
  <2>1. RuntimeInv(Object)'
    BY <1>5, RestartOK DEF Restart, TInv, TypeOK
  <2>2. \A q \in Replicas : pc'[q] = "idle" <=> held'[q].key = NoKey
    BY <1>5 DEF Restart, RestartRuntime, NotHeld, GoTo, TInv, TypeOK, RuntimeTypeOK
  <2>3. QED BY <1>5, <2>1, <2>2 DEF Restart, GoTo, Stages, infraVars, TInv, TypeOK
<1>6. QED BY <1>1, <1>2, <1>3, <1>4, <1>5 DEF Next

(* Type correctness, and that a copy marked up to date is the stored object *)
(* (the flags that stand for resource versions mean what they say).         *)
THEOREM TypeCorrect == Spec => [](TypeOK /\ CopiesAreCurrent)
<1>1. Init => TInv
  <2>. SUFFICES ASSUME Init PROVE TInv
    OBVIOUS
  <2>1. RuntimeInv(Object)
    BY RuntimeInitOK DEF Init
  <2>2. QED BY <2>1, StreamAssumption DEF Init, RuntimeInit, NotHeld, Stages, TInv, TypeOK, RuntimeInv
<1>2. TInv /\ [Next]_vars => TInv'
  BY TypeStep
<1>3. QED BY <1>1, <1>2, PTL DEF Spec, TInv

-----------------------------------------------------------------------------
(* What a step does to the objects, to the copies of them, and to the       *)
(* reconciles in progress.                                                  *)
Middle(r) == EnsureTenant(r) \/ CreateStream(r) \/ CreateTopic(r)
Failure(r) == pc[r] # "idle" /\ \E reason \in Reasons \ {"Success"} : ReportFailure(r, reason)
Update(r) == UpdateStatus(r) \/ UpdateStatusFails(r)

LEMMA StepKinds ==
  ASSUME [Next]_vars
  PROVE  \/ UNCHANGED vars
         \/ UserEdit
         \/ \E r \in Replicas, k \in Keys : Watch(r, k)
         \/ \E r \in Replicas : \/ StartReconcile(r) \/ Middle(r) \/ Failure(r)
                               \/ Update(r) \/ Restart(r)
<1>1. ASSUME NEW r \in Replicas, Reconcile(r)
      PROVE  StartReconcile(r) \/ Middle(r) \/ Failure(r) \/ Update(r)
  <2>1. NoDatabase(r) => Failure(r)
    BY DEF NoDatabase, AtStage, Failure, Reasons
  <2>2. EnsureTenantFails(r) => Failure(r)
    BY DEF EnsureTenantFails, AtStage, Failure, Reasons
  <2>3. CreateStreamFails(r) => Failure(r)
    BY DEF CreateStreamFails, AtStage, Failure, Reasons
  <2>4. CreateTopicFails(r) => Failure(r)
    BY DEF CreateTopicFails, AtStage, Failure, Reasons
  <2>5. QED BY <1>1, <2>1, <2>2, <2>3, <2>4 DEF Reconcile, Middle, Update
<1>2. QED BY <1>1 DEF Next

(* The outside resources are only added. *)
LEMMA Monotone ==
  ASSUME [Next]_vars
  PROVE  tenants \subseteq tenants' /\ streams \subseteq streams' /\ topics \subseteq topics'
<1>1. CASE UNCHANGED vars
  BY <1>1 DEF vars, infraVars
<1>2. CASE UserEdit
  BY <1>2 DEF UserEdit, infraVars
<1>3. CASE \E r \in Replicas, k \in Keys : Watch(r, k)
  BY <1>3 DEF Watch, infraVars
<1>4. ASSUME NEW r \in Replicas, Reconcile(r)
      PROVE  tenants \subseteq tenants' /\ streams \subseteq streams' /\ topics \subseteq topics'
  <2>1. CASE StartReconcile(r) \/ NoDatabase(r) \/ UpdateStatus(r) \/ UpdateStatusFails(r)
    BY <2>1 DEF StartReconcile, NoDatabase, UpdateStatus, UpdateStatusFails, infraVars
  <2>2. CASE EnsureTenant(r) \/ EnsureTenantFails(r)
    BY <2>2 DEF EnsureTenant, EnsureTenantFails
  <2>3. CASE CreateStream(r) \/ CreateStreamFails(r)
    BY <2>3 DEF CreateStream, CreateStreamFails
  <2>4. CASE CreateTopic(r) \/ CreateTopicFails(r)
    BY <2>4 DEF CreateTopic, CreateTopicFails
  <2>5. QED BY <1>4, <2>1, <2>2, <2>3, <2>4 DEF Reconcile
<1>5. CASE \E r \in Replicas : Restart(r)
  BY <1>5 DEF Restart, infraVars
<1>6. QED BY <1>1, <1>2, <1>3, <1>4, <1>5 DEF Next

(* The stored object k: deleted, created, edited, marked with a failure, or *)
(* marked Ready by a reconcile that still holds the stored version.         *)
LEMMA ObjectStep ==
  ASSUME TInv, [Next]_vars, NEW k \in Keys
  PROVE  \/ api'[k] = api[k]
         \/ api'[k] = Absent
         \/ api[k] = Absent /\ api'[k].status = NewStatus
         \/ /\ api[k] # Absent
            /\ api'[k].status.stream = api[k].status.stream
            /\ api'[k].status = api[k].status \/ api'[k].status.reason # "Success"
         \/ \E r \in Replicas : /\ pc[r] = "UpdateStatus" /\ held[r].key = k
                              /\ api[k] = held[r].obj /\ api'[k] = ReadyObject(r)
                              /\ Update(r)
<1>1. CASE UNCHANGED vars
  BY <1>1 DEF vars, runtimeVars
<1>2. CASE UserEdit
  <2>1. PICK j \in Keys : \/ \E s \in Target : CreateObject(j, s) \/ EditSpec(j, s)
                         \/ DeleteObject(j)
    BY <1>2 DEF UserEdit
  <2>2. CASE DeleteObject(j)
    BY <2>2 DEF DeleteObject, Store, TInv, TypeOK, RuntimeTypeOK
  <2>3. ASSUME NEW s \in Target, CreateObject(j, s)
        PROVE  \/ api'[k] = api[k]
               \/ api[k] = Absent /\ api'[k].status = NewStatus
    BY <2>3 DEF CreateObject, Store, TInv, TypeOK, RuntimeTypeOK
  <2>4. ASSUME NEW s \in Target, EditSpec(j, s)
        PROVE  api'[k] = api[k] \/ (api[k] # Absent /\ api'[k].status = api[k].status)
    <3>1. j = k => api[j] \in Object
      BY <2>4 DEF EditSpec, TInv, TypeOK, RuntimeTypeOK
    <3>2. QED BY <2>4, <3>1 DEF EditSpec, Store, TInv, TypeOK, RuntimeTypeOK, Object
  <2>5. QED BY <2>1, <2>2, <2>3, <2>4
<1>3. CASE \E r \in Replicas, j \in Keys : Watch(r, j)
  BY <1>3 DEF Watch, Sync
<1>4. CASE \E r \in Replicas : StartReconcile(r)
  BY <1>4 DEF StartReconcile, Fetch, FetchMissing
<1>5. CASE \E r \in Replicas : Middle(r)
  BY <1>5 DEF Middle, EnsureTenant, CreateStream, CreateTopic, runtimeVars
<1>6. ASSUME NEW r \in Replicas, Failure(r)
      PROVE  \/ api'[k] = api[k]
             \/ /\ api[k] # Absent
                /\ api'[k].status.stream = api[k].status.stream
                /\ api'[k].status = api[k].status \/ api'[k].status.reason # "Success"
  <2>1. PICK reason \in Reasons \ {"Success"} : ReportFailure(r, reason)
    BY <1>6 DEF Failure
  <2>. DEFINE o == [held[r].obj EXCEPT !.status.reason = reason]
  <2>2. held[r].key \in Keys /\ held[r].obj \in Object /\ o \in Object
    BY <1>6, StoredObjects DEF Failure
  <2>3. o.status.stream = held[r].obj.status.stream /\ o.status.reason # "Success"
    BY <2>2 DEF Object, Status
  <2>4. CASE NothingStored(r)
    BY <2>4 DEF NothingStored
  <2>5. CASE StatusStored(r, o)
    <3>. HIDE DEF o
    <3>1. held[r].obj = api[held[r].key] /\ api' = [api EXCEPT ![held[r].key] = o]
      BY <2>2, <2>5, StatusStoredEffect DEF TInv, TypeOK, RuntimeInv
    <3>2. QED BY <2>2, <2>3, <3>1, StreamAssumption DEF TInv, TypeOK, RuntimeTypeOK
  <2>6. QED BY <2>1, <2>4, <2>5 DEF ReportFailure
<1>7. ASSUME NEW r \in Replicas, Update(r)
      PROVE  \/ api'[k] = api[k]
             \/ /\ pc[r] = "UpdateStatus" /\ held[r].key = k
                /\ api[k] = held[r].obj /\ api'[k] = ReadyObject(r)
  <2>1. pc[r] = "UpdateStatus" /\ (StatusStored(r, ReadyObject(r)) \/ NothingStored(r))
    BY <1>7 DEF Update, UpdateStatus, UpdateStatusFails, AtStage
  <2>2. held[r].key \in Keys /\ ReadyObject(r) \in Object
    BY <2>1, StoredObjects
  <2>3. CASE NothingStored(r)
    BY <2>3 DEF NothingStored
  <2>4. CASE StatusStored(r, ReadyObject(r))
    <3>1. held[r].obj = api[held[r].key] /\ api' = [api EXCEPT ![held[r].key] = ReadyObject(r)]
      BY <2>2, <2>4, StatusStoredEffect DEF TInv, TypeOK, RuntimeInv
    <3>2. QED BY <2>1, <2>2, <3>1 DEF TInv, TypeOK, RuntimeTypeOK
  <2>5. QED BY <2>1, <2>3, <2>4
<1>8. CASE \E r \in Replicas : Restart(r)
  BY <1>8 DEF Restart, RestartRuntime
<1>9. QED BY <1>1, <1>2, <1>3, <1>4, <1>5, <1>6, <1>7, <1>8, StepKinds

(* The informer copies: kept, or brought up to the stored object. *)
LEMMA CacheStep ==
  ASSUME TInv, [Next]_vars, NEW q \in Replicas, NEW k \in Keys
  PROVE  cache'[q][k] \in {cache[q][k], api[k]}
<1>1. CASE UNCHANGED vars \/ UserEdit
  BY <1>1 DEF vars, runtimeVars, UserEdit, CreateObject, EditSpec, DeleteObject, Store
<1>2. ASSUME NEW r \in Replicas, NEW j \in Keys, Watch(r, j)
      PROVE  cache'[q][k] \in {cache[q][k], api[k]}
  BY <1>2 DEF Watch, Sync, TInv, TypeOK, RuntimeTypeOK
<1>3. ASSUME NEW r \in Replicas, StartReconcile(r) \/ Middle(r)
      PROVE  cache' = cache
  BY <1>3 DEF StartReconcile, Fetch, FetchMissing, Middle, EnsureTenant, CreateStream,
              CreateTopic, runtimeVars
<1>4. ASSUME NEW r \in Replicas, Failure(r) \/ Update(r)
      PROVE  cache' = cache
  BY <1>4 DEF Failure, ReportFailure, Update, UpdateStatus, UpdateStatusFails, StatusStored, NothingStored
<1>5. ASSUME NEW r \in Replicas, Restart(r)
      PROVE  cache'[q][k] \in {cache[q][k], api[k]}
  BY <1>5 DEF Restart, RestartRuntime, TInv, TypeOK, RuntimeTypeOK
<1>6. QED BY <1>1, <1>2, <1>3, <1>4, <1>5, StepKinds

(* The reconcile of q: ended, started from the informer copy, moved on with *)
(* the same object, or not involved.                                        *)
LEMMA HeldStep ==
  ASSUME TInv, [Next]_vars, NEW q \in Replicas
  PROVE  \/ pc'[q] = "idle" /\ held'[q] = NotHeld
         \/ pc'[q] = "EnsureTenant" /\ \E k \in Keys : held'[q].obj = cache[q][k]
         \/ held'[q].obj = held[q].obj /\ (pc'[q] = pc[q] \/ Middle(q))
<1>1. CASE UNCHANGED vars \/ UserEdit
  <2>1. CASE UNCHANGED vars
    BY <2>1 DEF vars, runtimeVars
  <2>2. CASE UserEdit
    <3>1. PICK j \in Keys : \E o : Store(j, o)
      BY <2>2 DEF UserEdit, CreateObject, EditSpec, DeleteObject
    <3>2. held'[q].obj = held[q].obj
      BY <3>1 DEF Store, TInv, TypeOK, RuntimeTypeOK
    <3>3. QED BY <2>2, <3>2 DEF UserEdit
  <2>3. QED BY <1>1, <2>1, <2>2
<1>2. ASSUME NEW r \in Replicas, NEW j \in Keys, Watch(r, j)
      PROVE  held'[q].obj = held[q].obj /\ pc'[q] = pc[q]
  BY <1>2 DEF Watch, Sync
<1>3. ASSUME NEW r \in Replicas, StartReconcile(r)
      PROVE  \/ pc'[q] = "EnsureTenant" /\ \E k \in Keys : held'[q].obj = cache[q][k]
             \/ held'[q].obj = held[q].obj /\ pc'[q] = pc[q]
  BY <1>3 DEF StartReconcile, Fetch, FetchMissing, GoTo, TInv, TypeOK, RuntimeTypeOK
<1>4. ASSUME NEW r \in Replicas, Middle(r)
      PROVE  held'[q].obj = held[q].obj /\ (pc'[q] = pc[q] \/ q = r)
  BY <1>4 DEF Middle, EnsureTenant, CreateStream, CreateTopic, GoTo, runtimeVars, TInv, TypeOK
<1>5. ASSUME NEW r \in Replicas, Failure(r) \/ Update(r)
      PROVE  \/ pc'[q] = "idle" /\ held'[q] = NotHeld
             \/ held'[q].obj = held[q].obj /\ pc'[q] = pc[q]
  <2>1. /\ GoTo(r, "idle")
        /\ NothingStored(r) \/ \E o \in Object : StatusStored(r, o)
    <3>1. CASE Failure(r)
      BY <3>1, StoredObjects DEF Failure, ReportFailure
    <3>2. CASE Update(r)
      BY <3>2, StoredObjects DEF Update, UpdateStatus, UpdateStatusFails, AtStage
    <3>3. QED BY <1>5, <3>1, <3>2
  <2>2. held[r].key \in Keys
    BY <1>5, StoredObjects DEF Failure, Update, UpdateStatus, UpdateStatusFails, AtStage
  <2>3. held'[r] = NotHeld /\ (q # r => held'[q].obj = held[q].obj)
    <3>1. CASE NothingStored(r)
      BY <3>1 DEF NothingStored, TInv, TypeOK, RuntimeTypeOK
    <3>2. ASSUME NEW o \in Object, StatusStored(r, o)
          PROVE  held'[r] = NotHeld /\ (q # r => held'[q].obj = held[q].obj)
      BY <2>2, <3>2, StatusStoredEffect DEF TInv, TypeOK, RuntimeInv
    <3>3. QED BY <2>1, <3>1, <3>2
  <2>4. QED BY <2>1, <2>3 DEF GoTo, TInv, TypeOK
<1>6. ASSUME NEW r \in Replicas, Restart(r)
      PROVE  \/ pc'[q] = "idle" /\ held'[q] = NotHeld
             \/ held'[q].obj = held[q].obj /\ pc'[q] = pc[q]
  BY <1>6 DEF Restart, RestartRuntime, GoTo, TInv, TypeOK, RuntimeTypeOK
<1>7. QED BY <1>1, <1>2, <1>3, <1>4, <1>5, <1>6, StepKinds

-----------------------------------------------------------------------------
(* A status stays backed.  What makes it inductive: the copies a reconcile  *)
(* may write back are backed, and a reconcile about to publish has made     *)
(* what it will name.                                                       *)
BackedInv == AllBacked /\ Progress

LEMMA BackedStep ==
  ASSUME TInv, BackedInv, [Next]_vars
  PROVE  BackedInv'
<1>1. tenants \subseteq tenants' /\ streams \subseteq streams' /\ topics \subseteq topics'
  BY Monotone
<1>2. \A o : Backed(o) => Backed(o)'
  BY <1>1 DEF Backed, Exists
<1>3. ASSUME NEW k \in Keys
      PROVE  Backed(api[k])'
  <2>1. CASE api'[k] = api[k]
    BY <2>1, <1>2 DEF BackedInv, AllBacked
  <2>2. CASE api'[k] = Absent
    BY <2>2 DEF Backed
  <2>3. CASE api'[k].status = NewStatus
    BY <2>3 DEF Backed, NewStatus
  <2>4. CASE api[k] # Absent /\ api'[k].status.stream = api[k].status.stream
    BY <2>4, <1>1 DEF BackedInv, AllBacked, Backed, Exists
  <2>5. ASSUME NEW r \in Replicas, pc[r] = "UpdateStatus", api'[k] = ReadyObject(r)
        PROVE  Backed(api[k])'
    <3>1. held[r].obj \in Object
      BY <2>5, StoredObjects
    <3>2. ReadyObject(r).status.stream = Wanted(r)
      BY <3>1 DEF ReadyObject, Object
    <3>3. Exists(Wanted(r))
      BY <2>5 DEF BackedInv, Progress, Exists
    <3>4. QED BY <2>5, <3>2, <3>3, <1>1 DEF Backed, Exists
  <2>6. QED BY <2>1, <2>2, <2>3, <2>4, <2>5, ObjectStep
<1>4. ASSUME NEW r \in Replicas, NEW k \in Keys
      PROVE  Backed(cache[r][k])'
  BY <1>2, CacheStep DEF BackedInv, AllBacked
<1>5. ASSUME NEW r \in Replicas
      PROVE  /\ Backed(held[r].obj)'
             /\ pc'[r] \in {"CreateStream", "CreateTopic", "UpdateStatus"} => Wanted(r).tenant' \in tenants'
             /\ pc'[r] \in {"CreateTopic", "UpdateStatus"} => Wanted(r)' \in streams'
             /\ pc'[r] = "UpdateStatus" => Wanted(r)' \in topics'
  <2>1. CASE pc'[r] = "idle" /\ held'[r] = NotHeld
    BY <2>1 DEF Backed, NotHeld
  <2>2. CASE pc'[r] = "EnsureTenant" /\ \E k \in Keys : held'[r].obj = cache[r][k]
    BY <2>2, <1>2 DEF BackedInv, AllBacked
  <2>3. CASE held'[r].obj = held[r].obj /\ (pc'[r] = pc[r] \/ Middle(r))
    <3>1. Backed(held[r].obj)' /\ Wanted(r)' = Wanted(r)
      BY <2>3, <1>2 DEF BackedInv, AllBacked, Wanted
    <3>2. CASE pc'[r] = pc[r]
      BY <3>1, <3>2, <1>1 DEF BackedInv, Progress
    <3>3. CASE EnsureTenant(r)
      BY <3>1, <3>3, <1>1 DEF EnsureTenant, GoTo, TInv, TypeOK
    <3>4. CASE CreateStream(r)
      BY <3>1, <3>4, <1>1 DEF CreateStream, AtStage, GoTo, TInv, TypeOK, BackedInv, Progress
    <3>5. CASE CreateTopic(r)
      BY <3>1, <3>5, <1>1 DEF CreateTopic, AtStage, GoTo, TInv, TypeOK, BackedInv, Progress
    <3>6. QED BY <2>3, <3>2, <3>3, <3>4, <3>5 DEF Middle
  <2>4. QED BY <2>1, <2>2, <2>3, HeldStep
<1>6. QED BY <1>3, <1>4, <1>5 DEF BackedInv, AllBacked, Progress

(* A published StreamID and Topic always have their tenant, their record    *)
(* and their topic behind them, whatever fails, crashes or is read stale.   *)
THEOREM StatusBacked == Spec => []StatusIsBacked
<1>1. Init => BackedInv
  BY DEF Init, RuntimeInit, NotHeld, BackedInv, AllBacked, Backed, Progress
<1>2. BackedInv => StatusIsBacked
  BY DEF BackedInv, AllBacked, Backed, StatusIsBacked
<1>3. TInv /\ BackedInv /\ [Next]_vars => BackedInv'
  BY BackedStep
<1>4. QED BY <1>1, <1>2, <1>3, TypeCorrect, PTL DEF Spec, TInv

-----------------------------------------------------------------------------
(* What a reconcile publishes as Ready is the stored spec: its status       *)
(* update is refused unless the object it read is still the stored one.     *)
THEOREM CurrentSpecPublished == Spec => PublishesCurrentSpec
<1>. DEFINE Published ==
       \A k \in Keys :
         (/\ api[k] # Absent /\ api'[k] # Absent
          /\ api'[k].status # api[k].status
          /\ api'[k].status.reason = "Success")
         => api'[k].status.stream = api[k].spec /\ api'[k].spec = api[k].spec
<1>1. TInv /\ [Next]_vars => Published
  <2>. SUFFICES ASSUME TInv, [Next]_vars, NEW k \in Keys,
                       api[k] # Absent, api'[k] # Absent,
                       api'[k].status # api[k].status, api'[k].status.reason = "Success"
                PROVE  api'[k].status.stream = api[k].spec /\ api'[k].spec = api[k].spec
    OBVIOUS
  <2>1. PICK r \in Replicas : /\ pc[r] = "UpdateStatus"
                             /\ api[k] = held[r].obj /\ api'[k] = ReadyObject(r)
    BY ObjectStep
  <2>2. held[r].obj \in Object
    BY <2>1, StoredObjects
  <2>3. QED BY <2>1, <2>2 DEF ReadyObject, Wanted, Object
<1>2. TInv /\ [Next]_vars => [Published]_vars
  BY <1>1
<1>3. QED BY <1>2, TypeCorrect, PTL DEF Spec, PublishesCurrentSpec, TInv

-----------------------------------------------------------------------------
(* No work is lost.  The queue, the flag of the informer copy, the object   *)
(* held, or the copy itself remembers what is left to do about an object.   *)
LEMMA PendingStep ==
  ASSUME TInv, NothingLost, [Next]_vars
  PROVE  NothingLost'
<1>. SUFFICES ASSUME NEW q \in Replicas, NEW k \in Keys
              PROVE  Pending(q, k)'
  BY DEF NothingLost
<1>0. Pending(q, k)
  BY DEF NothingLost
<1>1. CASE UNCHANGED vars
  BY <1>0, <1>1 DEF Pending, Converged, vars, runtimeVars
<1>2. CASE UserEdit
  <2>1. PICK j \in Keys : \E o : Store(j, o)
    BY <1>2 DEF UserEdit, CreateObject, EditSpec, DeleteObject
  <2>2. UNCHANGED <<cache, queue>> /\ held'[q].key = held[q].key /\ (synced'[q][k] => synced[q][k])
    BY <2>1 DEF Store, TInv, TypeOK, RuntimeTypeOK
  <2>3. QED BY <1>0, <2>2 DEF Pending, Converged
<1>3. ASSUME NEW r \in Replicas, NEW j \in Keys, Watch(r, j)
      PROVE  Pending(q, k)'
  <2>1. CASE q = r /\ k = j
    BY <1>3, <2>1 DEF Watch, Sync, Pending, TInv, TypeOK, RuntimeTypeOK
  <2>2. CASE ~(q = r /\ k = j)
    <3>1. /\ synced'[q][k] = synced[q][k] /\ cache'[q][k] = cache[q][k] /\ held' = held
          /\ queue[q] \subseteq queue'[q]
      BY <1>3, <2>2 DEF Watch, Sync, TInv, TypeOK, RuntimeTypeOK
    <3>2. QED BY <1>0, <3>1 DEF Pending, Converged
  <2>3. QED BY <2>1, <2>2
<1>4. ASSUME NEW r \in Replicas, StartReconcile(r)
      PROVE  Pending(q, k)'
  <2>1. PICK j \in Keys : Fetch(r, j) \/ FetchMissing(r, j)
    BY <1>4 DEF StartReconcile
  <2>2. UNCHANGED <<api, cache, synced>>
    BY <2>1 DEF Fetch, FetchMissing
  <2>3. CASE q = r /\ k = j
    <3>1. held'[q].key = k \/ cache[q][k] = Absent
      BY <2>1, <2>3 DEF Fetch, FetchMissing, TInv, TypeOK, RuntimeTypeOK
    <3>2. QED BY <2>2, <3>1 DEF Pending
  <2>4. CASE q # r \/ k # j
    <3>1. held[q].key = k => held'[q].key = k
      BY <2>1, <2>4, AbsentAssumption DEF Fetch, FetchMissing, TInv, TypeOK, RuntimeTypeOK
    <3>2. k \in queue[q] => k \in queue'[q]
      BY <2>1, <2>4 DEF Fetch, FetchMissing, TInv, TypeOK, RuntimeTypeOK
    <3>3. QED BY <1>0, <2>2, <3>1, <3>2 DEF Pending, Converged
  <2>5. QED BY <2>3, <2>4
<1>5. ASSUME NEW r \in Replicas, Middle(r)
      PROVE  Pending(q, k)'
  BY <1>0, <1>5 DEF Middle, EnsureTenant, CreateStream, CreateTopic, Pending, Converged, runtimeVars
<1>6. ASSUME NEW r \in Replicas, Failure(r) \/ Update(r)
      PROVE  Pending(q, k)'
  <2>1. pc[r] # "idle" /\ (pc[r] = "UpdateStatus" \/ Failure(r))
    BY <1>6 DEF Failure, Update, UpdateStatus, UpdateStatusFails, AtStage
  <2>2. PICK o \in Object : StatusStored(r, o) \/ NothingStored(r)
    BY <1>6, <2>1, StoredObjects DEF Failure, ReportFailure, Update, UpdateStatus, UpdateStatusFails
  <2>3. held[r].key \in Keys
    BY <2>1, StoredObjects
  <2>4. /\ cache' = cache
        /\ synced'[q][k] => synced[q][k]
        /\ q # r => held'[q].key = held[q].key
    <3>1. CASE StatusStored(r, o)
      BY <2>3, <3>1, StatusStoredEffect DEF TInv, TypeOK, RuntimeInv
    <3>2. CASE NothingStored(r)
      BY <3>2 DEF NothingStored, TInv, TypeOK, RuntimeTypeOK
    <3>3. QED BY <2>2, <3>1, <3>2
  <2>5. k \in queue[q] => k \in queue'[q]
    BY <1>6 DEF Failure, ReportFailure, Update, UpdateStatus, UpdateStatusFails, Done, Requeue,
                TInv, TypeOK, RuntimeTypeOK
  <2>6. CASE q # r \/ k # held[r].key
    BY <1>0, <2>4, <2>5, <2>6 DEF Pending, Converged
  <2>7. CASE q = r /\ k = held[r].key /\ Requeue(r)
    <3>1. k \in queue'[q]
      BY <2>3, <2>7 DEF Requeue, TInv, TypeOK, RuntimeTypeOK
    <3>2. QED BY <3>1 DEF Pending
  <2>8. CASE q = r /\ k = held[r].key /\ UpdateStatus(r)
    <3>1. ReadyObject(r) \in Object /\ held[r].obj \in Object /\ StatusStored(r, ReadyObject(r))
      BY <2>1, <2>8, StoredObjects DEF UpdateStatus
    <3>2. synced'[q][k] => synced[q][k] /\ ReadyObject(r) = api[k]
      BY <2>3, <2>8, <3>1, StatusStoredEffect DEF TInv, TypeOK, RuntimeInv
    <3>3. synced[q][k] => cache[q][k] = api[k]
      BY DEF TInv, CopiesAreCurrent
    <3>4. Converged(ReadyObject(r))
      BY <3>1 DEF Converged, ReadyObject, Wanted, Object
    <3>5. synced'[q][k] => Converged(cache[q][k])
      BY <3>2, <3>3, <3>4
    <3>6. QED BY <2>4, <3>5 DEF Pending, Converged
  <2>9. QED BY <1>6, <2>6, <2>7, <2>8 DEF Failure, ReportFailure, Update, UpdateStatusFails
<1>7. ASSUME NEW r \in Replicas, Restart(r)
      PROVE  Pending(q, k)'
  <2>1. CASE q = r
    BY <1>7, <2>1 DEF Restart, RestartRuntime, Pending, TInv, TypeOK, RuntimeTypeOK
  <2>2. CASE q # r
    <3>1. /\ synced'[q] = synced[q] /\ cache'[q] = cache[q] /\ held'[q] = held[q]
          /\ queue'[q] = queue[q]
      BY <1>7, <2>2 DEF Restart, RestartRuntime, TInv, TypeOK, RuntimeTypeOK
    <3>2. QED BY <1>0, <3>1 DEF Pending, Converged
  <2>3. QED BY <2>1, <2>2
<1>8. QED BY <1>1, <1>2, <1>3, <1>4, <1>5, <1>6, <1>7, StepKinds

(* A process with nothing left to do about a stream has brought it to Ready *)
(* for its present spec.                                                    *)
THEOREM NothingIsForgotten == Spec => []NothingForgotten
<1>1. Init => NothingLost
  BY DEF Init, RuntimeInit, NothingLost, Pending
<1>2. TInv /\ NothingLost => NothingForgotten
  BY DEF TInv, CopiesAreCurrent, NothingLost, Pending, Quiescent, NothingForgotten, Converged
<1>3. TInv /\ NothingLost /\ [Next]_vars => NothingLost'
  BY PendingStep
<1>4. QED BY <1>1, <1>2, <1>3, TypeCorrect, PTL DEF Spec, TInv

-----------------------------------------------------------------------------
(* StreamController implements Provisioning.  A failing call may have had   *)
(* its effect while the same step rewrites the reason of a status; what the *)
(* status names is left alone, so the step is still a Make or a stutter.    *)
ClaimOf(o) == IF o = Absent THEN NoStream ELSE o.status.stream

LEMMA PromiseStep ==
  ASSUME TInv, TInv', BackedInv, [Next]_vars
  PROVE  [Promise!Next]_<<Made, Claims>>
<1>. USE DEF RuntimeInv
<1>1. ASSUME NEW x \in Resource, Requires[x] \subseteq Made,
             Made' \in {Made, Made \cup {x}}, Claims' = Claims
      PROVE  [Promise!Next]_<<Made, Claims>>
  BY <1>1 DEF Promise!Next, Promise!Make
<1>2. ASSUME \A k \in Keys : ClaimOf(api'[k]) = ClaimOf(api[k])
      PROVE  Claims' = Claims
  BY <1>2 DEF Claims, ClaimOf
<1>3. ASSUME UNCHANGED infraVars PROVE Made' = Made
  BY <1>3 DEF Made, infraVars
<1>4. ASSUME NEW k \in Keys, NEW v, \A j \in Keys \ {k} : api'[j] = api[j], ClaimOf(api'[k]) = v
      PROVE  Claims' = [Claims EXCEPT ![k] = v]
  BY <1>4 DEF Claims, ClaimOf
<1>5. CASE UNCHANGED vars
  BY <1>5, <1>3 DEF vars, runtimeVars, Claims
<1>6. CASE UserEdit
  <2>1. PICK j \in Keys : \/ \E s \in Target : CreateObject(j, s) \/ EditSpec(j, s)
                         \/ DeleteObject(j)
    BY <1>6 DEF UserEdit
  <2>2. Made' = Made
    BY <1>6, <1>3 DEF UserEdit
  <2>3. ClaimOf(api'[j]) = NoStream \/ ClaimOf(api'[j]) = ClaimOf(api[j])
    <3>1. CASE DeleteObject(j)
      BY <3>1 DEF DeleteObject, Store, ClaimOf, TInv, TypeOK, RuntimeTypeOK
    <3>2. ASSUME NEW s \in Target, CreateObject(j, s) PROVE ClaimOf(api'[j]) = NoStream
      BY <3>2 DEF CreateObject, Store, ClaimOf, NewStatus, TInv, TypeOK, RuntimeTypeOK
    <3>3. ASSUME NEW s \in Target, EditSpec(j, s) PROVE ClaimOf(api'[j]) = ClaimOf(api[j])
      <4>1. api[j] \in Object /\ api' = [api EXCEPT ![j] = [api[j] EXCEPT !.spec = s]]
        BY <3>3 DEF EditSpec, Store, TInv, TypeOK, RuntimeTypeOK
      <4>2. api'[j] \in Object /\ api'[j].status = api[j].status
        BY <4>1 DEF Object, TInv, TypeOK, RuntimeTypeOK
      <4>3. QED BY <4>1, <4>2, StreamAssumption DEF ClaimOf
    <3>4. QED BY <2>1, <3>1, <3>2, <3>3
  <2>4. \A i \in Keys \ {j} : api'[i] = api[i]
    BY <2>1 DEF CreateObject, EditSpec, DeleteObject, Store, TInv, TypeOK, RuntimeTypeOK
  <2>5. CASE ClaimOf(api'[j]) = NoStream
    BY <2>2, <2>4, <2>5, <1>4 DEF Promise!Next, Promise!Withdraw
  <2>6. CASE ClaimOf(api'[j]) = ClaimOf(api[j])
    <3>1. \A i \in Keys : ClaimOf(api'[i]) = ClaimOf(api[i])
      BY <2>4, <2>6
    <3>2. Claims' = Claims
      BY <3>1, <1>2
    <3>3. QED BY <2>2, <3>2
  <2>7. QED BY <2>3, <2>5, <2>6
<1>7. CASE \E r \in Replicas : Restart(r) \/ StartReconcile(r) \/ \E k \in Keys : Watch(r, k)
  <2>1. UNCHANGED <<api, infraVars>>
    BY <1>7 DEF Restart, RestartRuntime, StartReconcile, Fetch, FetchMissing, Watch, Sync
  <2>2. QED BY <2>1, <1>3 DEF Claims
<1>8. ASSUME NEW r \in Replicas, Update(r)
      PROVE  [Promise!Next]_<<Made, Claims>>
  <2>1. pc[r] = "UpdateStatus" /\ (StatusStored(r, ReadyObject(r)) \/ NothingStored(r)) /\ UNCHANGED infraVars
    BY <1>8 DEF Update, UpdateStatus, UpdateStatusFails, AtStage
  <2>2. /\ held[r].key \in Keys /\ ReadyObject(r) \in Object /\ held[r].obj \in Object
        /\ Wanted(r) \in Target
    BY <2>1, StoredObjects
  <2>3. CASE NothingStored(r)
    BY <2>1, <2>3, <1>3 DEF NothingStored, Claims
  <2>4. CASE StatusStored(r, ReadyObject(r))
    <3>1. api' = [api EXCEPT ![held[r].key] = ReadyObject(r)]
      BY <2>2, <2>4, StatusStoredEffect DEF TInv, TypeOK
    <3>2. ClaimOf(ReadyObject(r)) = Wanted(r)
      BY <2>2, StreamAssumption DEF ClaimOf, ReadyObject, Object
    <3>3. Claims' = [Claims EXCEPT ![held[r].key] = Wanted(r)]
      BY <2>2, <3>1, <3>2, <1>4 DEF TInv, TypeOK, RuntimeTypeOK
    <3>4. Needs[Wanted(r)] \subseteq Made
      BY <2>1, <2>2 DEF Needs, Made, BackedInv, Progress, Target
    <3>5. Made' = Made
      BY <2>1, <1>3
    <3>6. QED BY <2>2, <3>3, <3>4, <3>5 DEF Promise!Next, Promise!Claim
  <2>5. QED BY <2>1, <2>3, <2>4
<1>9. ASSUME NEW r \in Replicas, Failure(r) \/ Middle(r)
      PROVE  Claims' = Claims
  <2>1. CASE Middle(r)
    BY <2>1 DEF Middle, EnsureTenant, CreateStream, CreateTopic, runtimeVars, Claims
  <2>2. CASE Failure(r)
    <3>1. PICK reason \in Reasons \ {"Success"} : ReportFailure(r, reason)
      BY <2>2 DEF Failure
    <3>. DEFINE o == [held[r].obj EXCEPT !.status.reason = reason]
    <3>2. held[r].key \in Keys /\ held[r].obj \in Object /\ o \in Object
      BY <2>2, StoredObjects DEF Failure
    <3>3. o.status.stream = held[r].obj.status.stream
      BY <3>2 DEF Object, Status
    <3>4. CASE NothingStored(r)
      BY <3>4 DEF NothingStored, Claims
    <3>5. CASE StatusStored(r, o)
      <4>. HIDE DEF o
      <4>1. held[r].obj = api[held[r].key] /\ api' = [api EXCEPT ![held[r].key] = o]
        BY <3>2, <3>5, StatusStoredEffect DEF TInv, TypeOK
      <4>2. \A k \in Keys : ClaimOf(api'[k]) = ClaimOf(api[k])
        BY <3>2, <3>3, <4>1, StreamAssumption DEF ClaimOf, TInv, TypeOK, RuntimeTypeOK
      <4>3. QED BY <4>2, <1>2
    <3>6. QED BY <3>1, <3>4, <3>5 DEF ReportFailure
  <2>3. QED BY <1>9, <2>1, <2>2
<1>10. ASSUME NEW r \in Replicas, pc[r] # "idle"
       PROVE  /\ <<"tenant", Wanted(r).tenant>> \in Resource
              /\ <<"stream", Wanted(r)>> \in Resource
              /\ <<"topic", Wanted(r)>> \in Resource
              /\ Requires[<<"tenant", Wanted(r).tenant>>] = {}
              /\ Requires[<<"stream", Wanted(r)>>] = {<<"tenant", Wanted(r).tenant>>}
              /\ Requires[<<"topic", Wanted(r)>>] = {<<"stream", Wanted(r)>>}
  <2>1. Wanted(r) \in Target /\ Wanted(r).tenant \in Tenants
    BY <1>10, StoredObjects DEF Target
  <2>2. QED BY <2>1 DEF Resource, Requires
<1>11. ASSUME NEW r \in Replicas, Reconcile(r), ~StartReconcile(r), ~Update(r)
       PROVE  [Promise!Next]_<<Made, Claims>>
  <2>1. Claims' = Claims
    <3>1. Failure(r) \/ Middle(r)
      BY <1>11 DEF Reconcile, Update, Failure, Middle, NoDatabase, EnsureTenantFails, CreateStreamFails,
                   CreateTopicFails, AtStage, Reasons
    <3>2. QED BY <3>1, <1>9
  <2>2. CASE NoDatabase(r)
    BY <2>1, <2>2, <1>3 DEF NoDatabase
  <2>3. CASE EnsureTenant(r) \/ EnsureTenantFails(r)
    <3>1. pc[r] # "idle" /\ Made' \in {Made, Made \cup {<<"tenant", Wanted(r).tenant>>}}
      BY <2>3 DEF EnsureTenant, EnsureTenantFails, AtStage, Made
    <3>2. QED BY <2>1, <3>1, <1>1, <1>10
  <2>4. CASE CreateStream(r) \/ CreateStreamFails(r)
    <3>1. pc[r] = "CreateStream" /\ Made' \in {Made, Made \cup {<<"stream", Wanted(r)>>}}
      BY <2>4 DEF CreateStream, CreateStreamFails, AtStage, Made
    <3>2. <<"tenant", Wanted(r).tenant>> \in Made
      BY <3>1 DEF Made, BackedInv, Progress
    <3>3. <<"stream", Wanted(r)>> \in Resource /\ Requires[<<"stream", Wanted(r)>>] \subseteq Made
      BY <3>1, <3>2, <1>10
    <3>4. QED BY <2>1, <3>1, <3>3, <1>1
  <2>5. CASE CreateTopic(r) \/ CreateTopicFails(r)
    <3>1. pc[r] = "CreateTopic" /\ Made' \in {Made, Made \cup {<<"topic", Wanted(r)>>}}
      BY <2>5 DEF CreateTopic, CreateTopicFails, AtStage, Made
    <3>2. <<"stream", Wanted(r)>> \in Made
      BY <3>1 DEF Made, BackedInv, Progress
    <3>3. <<"topic", Wanted(r)>> \in Resource /\ Requires[<<"topic", Wanted(r)>>] \subseteq Made
      BY <3>1, <3>2, <1>10
    <3>4. QED BY <2>1, <3>1, <3>3, <1>1
  <2>6. QED BY <1>11, <2>2, <2>3, <2>4, <2>5 DEF Reconcile, Update
<1>12. QED BY <1>5, <1>6, <1>7, <1>8, <1>11 DEF Next

(* The reconciler keeps the promise of Provisioning: rows and topics are    *)
(* only added, each after what it depends on, and a status names only what  *)
(* is made.                                                                 *)
THEOREM KeepsPromise == Spec => ImplementsProvisioning
<1>1. Init => Promise!Init
  BY DEF Init, RuntimeInit, Promise!Init, Made, Claims
<1>2. Init => BackedInv
  BY DEF Init, RuntimeInit, NotHeld, BackedInv, AllBacked, Backed, Progress
<1>3. TInv /\ BackedInv /\ [Next]_vars => BackedInv'
  BY BackedStep
<1>4. TInv /\ TInv' /\ BackedInv /\ [Next]_vars => [Promise!Next]_<<Made, Claims>>
  BY PromiseStep
<1>5. QED BY <1>1, <1>2, <1>3, <1>4, TypeCorrect, PTL DEF Spec, TInv, ImplementsProvisioning, Promise!Spec
=============================================================================
