----------------------------- MODULE InitProofs -----------------------------
(***************************************************************************)
(* Theorems about InitController, for every set of processes, inits,       *)
(* databases and gateways, and any number of migrations and changes.       *)
(***************************************************************************)
EXTENDS InitController, RuntimeProofs

Migrated == [version |-> Latest, dirty |-> FALSE]

(* Types, that a copy marked up to date is the stored object, and that a    *)
(* dirty database has begun a migration.                                    *)
DirtyHasBegun == \A u \in Urls : db[u].dirty => db[u].version > 0
IInv == TypeOK /\ CopiesAreCurrent /\ DirtyHasBegun

(* Past the migrations the database is and stays migrated.                  *)
PastMigrations ==
  \A r \in Replicas : pc[r] \in {"GetVersion", "CheckGateways"} => db[target[r]] = Migrated

(* No status, stored, copied or in the making, shows less.                  *)
Final == {s \in Status : s.version \in {0, Latest} /\ ~s.dirty}
ShowsFinal == {o \in Object : o.status \in Final}
FinalInv ==
  /\ PastMigrations
  /\ CopiesIn(ShowsFinal)
  /\ \A r \in Replicas : draft[r] \in Final

(* A process has seen no gateway that never was up and no data plane that   *)
(* does not exist; it works on the database that its copy of the spec asks  *)
(* for; the gateways it has checked have been up.                           *)
Asked(spec) == IF spec.url = FromDataPlane THEN plane ELSE spec.url
SeenIsTrue == \A r \in Replicas : upSeen[r] \subseteq everUp /\ planeSeen[r] \in {NoPlane, plane}
TargetIsAsked == \A r \in Replicas : pc[r] # "idle" => target[r] = Asked(held[r].obj.spec)
CheckedWereUp ==
  \A r \in Replicas :
    pc[r] = "CheckGateways" => held[r].obj.spec.gateways \ unchecked[r] \subseteq everUp
WorkInv == SeenIsTrue /\ TargetIsAsked /\ CheckedWereUp

(* InitializedAtRest, with the database known.                              *)
Settled(k) ==
  /\ api[k].status.phase = "Initialized" /\ api[k].status.ready = "True"
  /\ Database(k) \in Urls /\ db[Database(k)] = Migrated
  /\ api[k].spec.gateways \subseteq everUp
SettledAtRest == \A k \in Keys : AtRest(k) => Settled(k)

-----------------------------------------------------------------------------
(* The steps, and what they do to the runtime. *)
Outside ==
  \/ PlaneAppears
  \/ \E g \in Gateways : GatewayUp(g) \/ GatewayDown(g)
  \/ \E r \in Replicas : See(r)

Ending(r) ==
  \/ RunMigrationsFails(r) \/ CheckGatewaysFails(r) \/ ReportWaiting(r)
  \/ UpdateStatus(r) \/ UpdateStatusFails(r)

LEMMA StepKinds ==
  ASSUME [Next]_vars
  PROVE  \/ UNCHANGED vars
         \/ UserEdit
         \/ Outside
         \/ \E u \in Urls : Repair(u)
         \/ \E r \in Replicas, k \in Keys : Watch(r, k)
         \/ \E r \in Replicas :
              \/ StartReconcile(r) \/ RunMigrations(r) \/ GetVersion(r) \/ CheckGateway(r)
              \/ Ending(r) \/ Restart(r)
BY DEF Next, Reconcile, Ending, Outside

(* However a reconcile ends, it stores or loses a status of the version it  *)
(* has read; the database changes only by migrations that fail.             *)
LEMMA EndingKinds ==
  ASSUME IInv, NEW r \in Replicas, Ending(r)
  PROVE  /\ held[r].key \in Keys /\ held[r].obj \in Object /\ pc[r] # "idle"
         /\ \E s \in Status : /\ s.version = draft[r].version /\ s.dirty = draft[r].dirty
                              /\ [held[r].obj EXCEPT !.status = s] \in Object
                              /\ Ends(r, [held[r].obj EXCEPT !.status = s])
         /\ End(r)
         /\ UNCHANGED <<world, seen, changes>>
         /\ \/ UNCHANGED db
            \/ /\ pc[r] = "RunMigrations"
               /\ \E t \in Interrupted(db[target[r]]) : db' = [db EXCEPT ![target[r]] = t]
<1>1. pc[r] # "idle" /\ End(r) /\ UNCHANGED <<world, seen, changes>>
  BY DEF Ending, RunMigrationsFails, CheckGatewaysFails, ReportWaiting, UpdateStatus, UpdateStatusFails, AtStage
<1>2. held[r].key \in Keys /\ held[r].obj \in Object
  BY <1>1 DEF IInv, TypeOK, RuntimeTypeOK
<1>3. \/ UNCHANGED db
      \/ /\ pc[r] = "RunMigrations"
         /\ \E t \in Interrupted(db[target[r]]) : db' = [db EXCEPT ![target[r]] = t]
  BY DEF Ending, RunMigrationsFails, CheckGatewaysFails, ReportWaiting, UpdateStatus, UpdateStatusFails, AtStage
<1>4. ASSUME NEW s \in Status
      PROVE  [held[r].obj EXCEPT !.status = s] \in Object
  BY <1>2 DEF Object
<1>5. /\ FailedStatus(r) \in Status
      /\ FailedStatus(r).version = draft[r].version /\ FailedStatus(r).dirty = draft[r].dirty
      /\ InitializedStatus(r) \in Status
      /\ InitializedStatus(r).version = draft[r].version /\ InitializedStatus(r).dirty = draft[r].dirty
      /\ [draft[r] EXCEPT !.ready = "False"] \in Status
      /\ [draft[r] EXCEPT !.ready = "False"].version = draft[r].version
      /\ [draft[r] EXCEPT !.ready = "False"].dirty = draft[r].dirty
  <2>1. draft[r] \in Status
    BY DEF IInv, TypeOK
  <2>2. QED BY <2>1 DEF FailedStatus, InitializedStatus, Status
<1>6. \E s \in Status : /\ s.version = draft[r].version /\ s.dirty = draft[r].dirty
                        /\ [held[r].obj EXCEPT !.status = s] \in Object
                        /\ Ends(r, [held[r].obj EXCEPT !.status = s])
  <2>1. CASE RunMigrationsFails(r)
    BY <1>2, <1>4, <1>5, <2>1 DEF RunMigrationsFails, Publish, Ends
  <2>2. CASE CheckGatewaysFails(r) \/ ReportWaiting(r)
    BY <1>2, <1>4, <1>5, <2>2 DEF CheckGatewaysFails, ReportWaiting, Publish, Ends
  <2>3. CASE UpdateStatus(r) \/ UpdateStatusFails(r)
    BY <1>2, <1>4, <1>5, <2>3 DEF UpdateStatus, UpdateStatusFails, Publish, Ends
  <2>4. QED BY <2>1, <2>2, <2>3 DEF Ending
<1>7. QED BY <1>1, <1>2, <1>3, <1>6

(* An edit creates, changes or deletes an object; its status is the initial *)
(* one or the one before.                                                   *)
LEMMA EditStores ==
  ASSUME IInv, UserEdit
  PROVE  \E k \in Keys, o \in Object \cup {Absent} :
           /\ Store(k, o)
           /\ o = Absent \/ o.status = NewStatus \/ (api[k] # Absent /\ o.status = api[k].status)
<1>1. ASSUME NEW k \in Keys, NEW s \in Wish
      PROVE  /\ [spec |-> s, status |-> NewStatus] \in Object
             /\ api[k] # Absent => /\ [api[k] EXCEPT !.spec = s] \in Object
                                   /\ [api[k] EXCEPT !.spec = s].status = api[k].status
  <2>1. NewStatus \in Status
    BY InitAssumption DEF NewStatus, Status
  <2>2. api[k] # Absent => api[k] \in Object
    BY DEF IInv, TypeOK, RuntimeTypeOK
  <2>3. QED BY <2>1, <2>2 DEF Object
<1>2. PICK k \in Keys :
        \/ \E s \in Wish : \/ api[k] = Absent /\ Store(k, [spec |-> s, status |-> NewStatus])
                           \/ api[k] # Absent /\ Store(k, [api[k] EXCEPT !.spec = s])
        \/ Store(k, Absent)
  BY DEF UserEdit
<1>3. CASE Store(k, Absent)
  BY <1>3
<1>4. ASSUME NEW s \in Wish, Store(k, [spec |-> s, status |-> NewStatus])
      PROVE  \E o \in Object : Store(k, o) /\ o.status = NewStatus
  BY <1>1, <1>4
<1>5. ASSUME NEW s \in Wish, api[k] # Absent, Store(k, [api[k] EXCEPT !.spec = s])
      PROVE  \E o \in Object : Store(k, o) /\ o.status = api[k].status
  BY <1>1, <1>5
<1>6. QED BY <1>2, <1>3, <1>4, <1>5

LEMMA RuntimeStep ==
  ASSUME IInv, [Next]_vars
  PROVE  RuntimeInv(Object) /\ RuntimeNext(Object)
<1>1. RuntimeInv(Object)
  BY DEF IInv, TypeOK, RuntimeInv
<1>2. CASE UNCHANGED vars
  BY <1>1, <1>2 DEF vars, runtimeVars, RuntimeNext
<1>3. CASE UserEdit
  BY <1>1, <1>3, EditStores DEF RuntimeNext
<1>4. CASE Outside \/ \E u \in Urls : Repair(u)
  BY <1>1, <1>4 DEF Outside, PlaneAppears, GatewayUp, GatewayDown, See, Repair, RuntimeNext
<1>5. CASE \E r \in Replicas, k \in Keys : Watch(r, k)
  BY <1>1, <1>5 DEF Watch, RuntimeNext
<1>6. CASE \E r \in Replicas : RunMigrations(r) \/ GetVersion(r) \/ CheckGateway(r)
  BY <1>1, <1>6 DEF RunMigrations, GetVersion, CheckGateway, RuntimeNext
<1>7. CASE \E r \in Replicas : StartReconcile(r)
  BY <1>1, <1>7 DEF StartReconcile, RuntimeNext
<1>8. CASE \E r \in Replicas : Ending(r)
  BY <1>1, <1>8, EndingKinds DEF RuntimeNext
<1>9. CASE \E r \in Replicas : Restart(r)
  BY <1>1, <1>9 DEF Restart, RuntimeNext
<1>10. QED BY <1>2, <1>3, <1>4, <1>5, <1>6, <1>7, <1>8, <1>9, StepKinds

-----------------------------------------------------------------------------
(* The databases. *)

(* What an interrupted run of the migrations leaves. *)
LEMMA InterruptedSchema ==
  ASSUME NEW s \in Schema, s.dirty => s.version > 0, NEW t \in Interrupted(s)
  PROVE  /\ t \in Schema /\ (t.dirty => t.version > 0)
         /\ s = Migrated => t = Migrated
BY InitAssumption DEF Interrupted, Schema, Migrated

(* A step changes the database of a reconcile in its migrations, or repairs *)
(* a dirty one.                                                             *)
LEMMA DbStep ==
  ASSUME IInv, [Next]_vars
  PROVE  \/ UNCHANGED db
         \/ \E u \in Urls : /\ db[u].dirty
                            /\ \E v \in {db[u].version - 1, db[u].version} :
                                 db' = [db EXCEPT ![u] = [version |-> v, dirty |-> FALSE]]
         \/ \E r \in Replicas : /\ pc[r] = "RunMigrations" /\ target[r] \in Urls
                                /\ \E t \in Interrupted(db[target[r]]) \cup {Migrated} :
                                     db' = [db EXCEPT ![target[r]] = t]
<1>0. \A r \in Replicas : pc[r] = "RunMigrations" => target[r] \in Urls
  BY DEF IInv, TypeOK
<1>1. CASE UNCHANGED vars \/ UserEdit \/ Outside
  BY <1>1 DEF vars, UserEdit, Outside, PlaneAppears, GatewayUp, GatewayDown, See
<1>2. CASE \E u \in Urls : Repair(u)
  BY <1>2 DEF Repair
<1>3. CASE \/ \E r \in Replicas, k \in Keys : Watch(r, k)
           \/ \E r \in Replicas : StartReconcile(r) \/ GetVersion(r) \/ CheckGateway(r)
  BY <1>3 DEF Watch, StartReconcile, GetVersion, CheckGateway
<1>4. CASE \E r \in Replicas : RunMigrations(r)
  BY <1>0, <1>4 DEF RunMigrations, AtStage, Migrated
<1>5. CASE \E r \in Replicas : Ending(r)
  BY <1>0, <1>5, EndingKinds
<1>6. CASE \E r \in Replicas : Restart(r)
  BY <1>0, <1>6 DEF Restart, AtStage
<1>7. QED BY <1>1, <1>2, <1>3, <1>4, <1>5, <1>6, StepKinds

(* A migrated database stays migrated. *)
LEMMA MigratedStays ==
  ASSUME IInv, [Next]_vars, NEW u \in Urls, db[u] = Migrated
  PROVE  db'[u] = Migrated
<1>1. db \in [Urls -> Schema] /\ ~db[u].dirty
  BY DEF IInv, TypeOK, Migrated
<1>2. ASSUME NEW r \in Replicas, target[r] \in Urls, NEW t \in Interrupted(db[target[r]]) \cup {Migrated},
             db' = [db EXCEPT ![target[r]] = t]
      PROVE  db'[u] = Migrated
  BY <1>1, <1>2, InterruptedSchema DEF IInv, DirtyHasBegun
<1>3. QED BY <1>1, <1>2, DbStep

LEMMA DbTypeStep ==
  ASSUME IInv, [Next]_vars
  PROVE  db' \in [Urls -> Schema] /\ DirtyHasBegun'
<1>1. db \in [Urls -> Schema] /\ DirtyHasBegun
  BY DEF IInv, TypeOK
<1>2. CASE UNCHANGED db
  BY <1>1, <1>2 DEF DirtyHasBegun
<1>3. ASSUME NEW u \in Urls, NEW s \in Schema, s.dirty => s.version > 0, db' = [db EXCEPT ![u] = s]
      PROVE  db' \in [Urls -> Schema] /\ DirtyHasBegun'
  BY <1>1, <1>3 DEF DirtyHasBegun
<1>4. ASSUME NEW u \in Urls, db[u].dirty, NEW v \in {db[u].version - 1, db[u].version},
             db' = [db EXCEPT ![u] = [version |-> v, dirty |-> FALSE]]
      PROVE  db' \in [Urls -> Schema] /\ DirtyHasBegun'
  <2>1. db[u].version \in 0 .. Latest /\ db[u].version > 0
    BY <1>1, <1>4 DEF Schema, DirtyHasBegun
  <2>2. [version |-> v, dirty |-> FALSE] \in Schema
    BY <1>4, <2>1, InitAssumption DEF Schema
  <2>3. QED BY <1>3, <1>4, <2>2
<1>5. ASSUME NEW r \in Replicas, target[r] \in Urls, NEW t \in Interrupted(db[target[r]]) \cup {Migrated},
             db' = [db EXCEPT ![target[r]] = t]
      PROVE  db' \in [Urls -> Schema] /\ DirtyHasBegun'
  <2>1. t \in Schema /\ (t.dirty => t.version > 0)
    <3>1. Migrated \in Schema /\ ~Migrated.dirty
      BY InitAssumption DEF Migrated, Schema
    <3>2. db[target[r]] \in Schema /\ (db[target[r]].dirty => db[target[r]].version > 0)
      BY <1>1, <1>5 DEF DirtyHasBegun
    <3>3. QED BY <1>5, <3>1, <3>2, InterruptedSchema
  <2>2. QED BY <1>3, <1>5, <2>1
<1>6. QED BY <1>2, <1>4, <1>5, DbStep

-----------------------------------------------------------------------------
(* Types. *)
LEMMA TypeStep ==
  ASSUME IInv, [Next]_vars
  PROVE  IInv'
<1>0. RuntimeInv(Object)' /\ db' \in [Urls -> Schema] /\ DirtyHasBegun'
  BY RuntimeStep, RuntimeStepOK, DbTypeStep
<1>1. CASE UNCHANGED vars
  BY <1>0, <1>1 DEF RuntimeInv, IInv, TypeOK, vars, runtimeVars, world, seen, work
<1>2. CASE UserEdit
  <2>1. \A q \in Replicas : held'[q].key = held[q].key
    <3>1. PICK k \in Keys, o \in Object \cup {Absent} : Store(k, o)
      BY <1>2, EditStores
    <3>2. QED BY <3>1 DEF Store, IInv, TypeOK, RuntimeTypeOK
  <2>2. changes' \in 0 .. MaxChanges
    BY <1>2, InitAssumption DEF UserEdit, Change, IInv, TypeOK
  <2>3. QED BY <1>0, <1>2, <2>1, <2>2 DEF UserEdit, world, seen, work, RuntimeInv, IInv, TypeOK
<1>3. CASE Outside
  <2>1. /\ plane' \in {PlaneUrl, NoPlane}
        /\ up' \subseteq everUp' /\ everUp' \subseteq Gateways
        /\ planeSeen' \in [Replicas -> {PlaneUrl, NoPlane}]
        /\ upSeen' \in [Replicas -> SUBSET Gateways]
        /\ changes' \in 0 .. MaxChanges
    <3>1. CASE PlaneAppears
      BY <3>1 DEF PlaneAppears, seen, IInv, TypeOK
    <3>2. CASE \E g \in Gateways : GatewayUp(g)
      BY <3>2 DEF GatewayUp, seen, IInv, TypeOK
    <3>3. CASE \E g \in Gateways : GatewayDown(g)
      BY <3>3, InitAssumption DEF GatewayDown, Change, seen, IInv, TypeOK
    <3>4. CASE \E r \in Replicas : See(r)
      BY <3>4 DEF See, world, IInv, TypeOK
    <3>5. QED BY <1>3, <3>1, <3>2, <3>3, <3>4 DEF Outside
  <2>2. UNCHANGED <<held, work>>
    BY <1>3 DEF Outside, PlaneAppears, GatewayUp, GatewayDown, See, runtimeVars
  <2>3. QED BY <1>0, <2>1, <2>2 DEF work, RuntimeInv, IInv, TypeOK
<1>4. CASE \E u \in Urls : Repair(u)
  BY <1>0, <1>4 DEF Repair, runtimeVars, world, seen, work, RuntimeInv, IInv, TypeOK
<1>5. CASE \E r \in Replicas, k \in Keys : Watch(r, k)
  BY <1>0, <1>5 DEF Watch, Sync, world, seen, work, RuntimeInv, IInv, TypeOK
<1>6. ASSUME NEW r \in Replicas, StartReconcile(r)
      PROVE  IInv'
  <2>1. PICK k \in Keys : \/ /\ Fetch(r, k)
                             /\ Resolved(r, cache[r][k].spec) # NoPlane
                             /\ target' = [target EXCEPT ![r] = Resolved(r, cache[r][k].spec)]
                             /\ draft' = [draft EXCEPT ![r] = cache[r][k].status]
                             /\ GoTo(r, "RunMigrations")
                          \/ FetchMissing(r, k) /\ UNCHANGED <<target, draft, pc>>
    BY <1>6 DEF StartReconcile
  <2>2. UNCHANGED <<world, seen, unchecked, changes>>
    BY <1>6 DEF StartReconcile
  <2>3. CASE FetchMissing(r, k) /\ UNCHANGED <<target, draft, pc>>
    BY <1>0, <2>2, <2>3 DEF FetchMissing, world, seen, RuntimeInv, IInv, TypeOK
  <2>4. CASE /\ Fetch(r, k)
             /\ Resolved(r, cache[r][k].spec) # NoPlane
             /\ target' = [target EXCEPT ![r] = Resolved(r, cache[r][k].spec)]
             /\ draft' = [draft EXCEPT ![r] = cache[r][k].status]
             /\ GoTo(r, "RunMigrations")
    <3>1. /\ held[r].key = NoKey /\ held'[r].key = k
          /\ \A q \in Replicas \ {r} : held'[q] = held[q]
          /\ cache[r][k] \in Object
      BY <2>4 DEF Fetch, IInv, TypeOK, RuntimeTypeOK
    <3>2. Resolved(r, cache[r][k].spec) \in Urls \cup {NoPlane} /\ cache[r][k].status \in Status
      BY <3>1, InitAssumption DEF Resolved, Object, Wish, IInv, TypeOK
    <3>3. /\ pc' \in [Replicas -> Stages]
          /\ target' \in [Replicas -> Urls \cup {NoPlane}]
          /\ draft' \in [Replicas -> Status]
          /\ pc'[r] = "RunMigrations" /\ target'[r] # NoPlane /\ pc[r] = "idle"
          /\ \A q \in Replicas \ {r} : pc'[q] = pc[q] /\ target'[q] = target[q]
      BY <2>4, <3>1, <3>2 DEF GoTo, Stages, IInv, TypeOK
    <3>4. \A q \in Replicas : /\ pc'[q] = "idle" <=> held'[q].key = NoKey
                              /\ pc'[q] = "idle" <=> target'[q] = NoPlane
                              /\ pc'[q] # "CheckGateways" => unchecked[q] = {}
      BY <3>1, <3>3, AbsentAssumption DEF IInv, TypeOK
    <3>5. QED BY <1>0, <2>2, <3>3, <3>4 DEF world, seen, RuntimeInv, IInv, TypeOK
  <2>5. QED BY <2>1, <2>3, <2>4
<1>7. ASSUME NEW r \in Replicas, RunMigrations(r)
      PROVE  IInv'
  BY <1>0, <1>7 DEF RunMigrations, AtStage, GoTo, Stages, runtimeVars, world, seen, RuntimeInv, IInv, TypeOK
<1>8. ASSUME NEW r \in Replicas, GetVersion(r)
      PROVE  IInv'
  <2>1. draft' \in [Replicas -> Status]
    <3>1. target[r] \in Urls /\ db[target[r]] \in Schema /\ draft[r] \in Status
      BY <1>8 DEF GetVersion, AtStage, IInv, TypeOK
    <3>2. [draft[r] EXCEPT !.version = db[target[r]].version, !.dirty = db[target[r]].dirty] \in Status
      BY <3>1 DEF Status, Schema
    <3>3. \/ draft' = draft
          \/ draft' = [draft EXCEPT ![r] = [draft[r] EXCEPT !.version = db[target[r]].version,
                                                            !.dirty = db[target[r]].dirty]]
      BY <1>8 DEF GetVersion, IInv, TypeOK
    <3>4. QED BY <3>2, <3>3 DEF IInv, TypeOK
  <2>2. held[r].obj.spec.gateways \subseteq Gateways
    <3>1. held[r].obj \in Object
      BY <1>8 DEF GetVersion, AtStage, IInv, TypeOK, RuntimeTypeOK
    <3>2. QED BY <3>1 DEF Object, Wish
  <2>3. /\ unchecked' \in [Replicas -> SUBSET Gateways] /\ pc' \in [Replicas -> Stages]
        /\ pc[r] = "GetVersion" /\ pc'[r] = "CheckGateways"
        /\ \A q \in Replicas \ {r} : pc'[q] = pc[q] /\ unchecked'[q] = unchecked[q]
    BY <1>8, <2>2 DEF GetVersion, AtStage, GoTo, Stages, IInv, TypeOK
  <2>4. QED BY <1>0, <1>8, <2>1, <2>3 DEF GetVersion, runtimeVars, world, seen, RuntimeInv, IInv, TypeOK
<1>9. ASSUME NEW r \in Replicas, CheckGateway(r)
      PROVE  IInv'
  <2>1. unchecked' \in [Replicas -> SUBSET Gateways] /\ pc[r] = "CheckGateways"
        /\ \A q \in Replicas \ {r} : unchecked'[q] = unchecked[q]
    BY <1>9 DEF CheckGateway, AtStage, IInv, TypeOK
  <2>2. QED BY <1>0, <1>9, <2>1 DEF CheckGateway, runtimeVars, world, seen, RuntimeInv, IInv, TypeOK
<1>10. ASSUME NEW r \in Replicas, End(r)
       PROVE  /\ pc' \in [Replicas -> Stages] /\ target' \in [Replicas -> Urls \cup {NoPlane}]
              /\ draft' \in [Replicas -> Status] /\ unchecked' \in [Replicas -> SUBSET Gateways]
              /\ pc'[r] = "idle" /\ target'[r] = NoPlane /\ unchecked'[r] = {}
              /\ \A q \in Replicas \ {r} : /\ pc'[q] = pc[q] /\ target'[q] = target[q]
                                           /\ unchecked'[q] = unchecked[q]
  <2>1. NewStatus \in Status
    BY InitAssumption DEF NewStatus, Status
  <2>2. QED BY <1>10, <2>1 DEF End, GoTo, Stages, IInv, TypeOK
<1>11. ASSUME NEW r \in Replicas, Ending(r)
       PROVE  IInv'
  <2>1. PICK o \in Object : Ends(r, o)
    BY <1>11, EndingKinds
  <2>2. held'[r] = NotHeld
    BY <2>1, <1>11, RuntimeStep, EndEffect
  <2>3. \A q \in Replicas \ {r} : held'[q].key = held[q].key /\ held'[q].obj = held[q].obj
    BY <2>1, <1>11, RuntimeStep, EndEffect
  <2>4. End(r) /\ UNCHANGED <<world, seen, changes>>
    BY <1>11, EndingKinds
  <2>5. ASSUME NEW q \in Replicas
        PROVE  /\ pc'[q] = "idle" <=> held'[q].key = NoKey
               /\ pc'[q] = "idle" <=> target'[q] = NoPlane
               /\ pc'[q] # "CheckGateways" => unchecked'[q] = {}
    <3>1. CASE q = r
      BY <1>10, <2>2, <2>4, <3>1 DEF NotHeld
    <3>2. CASE q # r
      BY <1>10, <2>3, <2>4, <3>2 DEF IInv, TypeOK
    <3>3. QED BY <3>1, <3>2
  <2>6. QED BY <1>0, <1>10, <2>4, <2>5 DEF world, seen, RuntimeInv, IInv, TypeOK
<1>12. ASSUME NEW r \in Replicas, Restart(r)
       PROVE  IInv'
  <2>1. held'[r] = NotHeld /\ \A q \in Replicas \ {r} : held'[q] = held[q]
    BY <1>12 DEF Restart, RestartRuntime, IInv, TypeOK, RuntimeTypeOK
  <2>2. /\ planeSeen' \in [Replicas -> {PlaneUrl, NoPlane}]
        /\ upSeen' \in [Replicas -> SUBSET Gateways]
    BY <1>12 DEF Restart, IInv, TypeOK
  <2>3. QED BY <1>0, <1>10, <1>12, <2>1, <2>2 DEF Restart, NotHeld, world, RuntimeInv, IInv, TypeOK
<1>13. QED BY <1>1, <1>2, <1>3, <1>4, <1>5, <1>6, <1>7, <1>8, <1>9, <1>11, <1>12, StepKinds

LEMMA InitOK ==
  ASSUME Init
  PROVE  IInv
<1>1. RuntimeInv(Object)
  BY RuntimeInitOK DEF Init
<1>2. NewStatus \in Status
  BY InitAssumption DEF NewStatus, Status
<1>3. QED BY <1>1, <1>2, InitAssumption
          DEF Init, RuntimeInit, NotHeld, Schema, Stages, DirtyHasBegun, IInv, TypeOK, RuntimeInv

(* Type correctness, and that a copy marked up to date is the stored object. *)
THEOREM TypeCorrect == Spec => [](TypeOK /\ CopiesAreCurrent)
<1>1. IInv /\ [Next]_vars => IInv'
  BY TypeStep
<1>2. IInv => TypeOK /\ CopiesAreCurrent
  BY DEF IInv
<1>3. QED BY <1>1, <1>2, InitOK, PTL DEF Spec

-----------------------------------------------------------------------------
(* What a status can say. *)

(* How a process comes to the stage it is in. *)
Starts(r, k) ==
  /\ Fetch(r, k) /\ held'[r].key = k /\ held'[r].obj = cache[r][k]
  /\ pc'[r] = "RunMigrations"
  /\ target'[r] = Resolved(r, cache[r][k].spec) /\ target'[r] # NoPlane
  /\ draft'[r] = cache[r][k].status
  /\ UNCHANGED <<db, world, seen>>

GoesOn(r) ==
  /\ held'[r].key = held[r].key /\ held'[r].obj = held[r].obj
  /\ pc[r] # "idle" /\ target'[r] = target[r]
  /\ \/ pc'[r] = pc[r] /\ draft'[r] = draft[r] /\ unchecked'[r] = unchecked[r]
     \/ RunMigrations(r) /\ pc'[r] = "GetVersion" /\ draft'[r] = draft[r]
     \/ GetVersion(r) /\ pc[r] = "GetVersion" /\ pc'[r] = "CheckGateways"
     \/ /\ CheckGateway(r) /\ pc'[r] = pc[r] /\ draft'[r] = draft[r]

LEMMA StageStep ==
  ASSUME IInv, [Next]_vars, NEW r \in Replicas
  PROVE  \/ pc'[r] = "idle" /\ draft'[r] \in {draft[r], NewStatus}
         \/ \E k \in Keys : Starts(r, k)
         \/ GoesOn(r)
<1>. DEFINE Same == /\ held'[r].key = held[r].key /\ held'[r].obj = held[r].obj
                    /\ pc'[r] = pc[r] /\ target'[r] = target[r]
                    /\ draft'[r] = draft[r] /\ unchecked'[r] = unchecked[r]
<1>0. Same => GoesOn(r) \/ (pc'[r] = "idle" /\ draft'[r] = draft[r])
  BY DEF GoesOn
<1>1. CASE UserEdit
  <2>1. PICK k \in Keys, o \in Object \cup {Absent} : Store(k, o)
    BY <1>1, EditStores
  <2>2. Same
    BY <1>1, <2>1 DEF Store, UserEdit, work, IInv, TypeOK, RuntimeTypeOK
  <2>3. QED BY <1>0, <2>2
<1>2. CASE UNCHANGED vars \/ Outside \/ \E u \in Urls : Repair(u)
  <2>1. UNCHANGED <<held, work>>
    BY <1>2 DEF vars, Outside, PlaneAppears, GatewayUp, GatewayDown, See, Repair, runtimeVars
  <2>2. QED BY <1>0, <2>1 DEF work
<1>3. CASE \E q \in Replicas, k \in Keys : Watch(q, k)
  BY <1>0, <1>3 DEF Watch, Sync, work
<1>4. ASSUME NEW q \in Replicas, q # r,
             StartReconcile(q) \/ RunMigrations(q) \/ GetVersion(q) \/ CheckGateway(q)
      PROVE  Same
  <2>1. CASE StartReconcile(q)
    BY <1>4, <2>1 DEF StartReconcile, Fetch, FetchMissing, GoTo, IInv, TypeOK, RuntimeTypeOK
  <2>2. CASE RunMigrations(q) \/ CheckGateway(q)
    BY <1>4, <2>2 DEF RunMigrations, CheckGateway, GoTo, runtimeVars, IInv, TypeOK
  <2>3. CASE GetVersion(q)
    BY <1>4, <2>3 DEF GetVersion, GoTo, runtimeVars, IInv, TypeOK
  <2>4. QED BY <1>4, <2>1, <2>2, <2>3
<1>5. CASE StartReconcile(r)
  <2>1. PICK k \in Keys : \/ /\ Fetch(r, k)
                             /\ Resolved(r, cache[r][k].spec) # NoPlane
                             /\ target' = [target EXCEPT ![r] = Resolved(r, cache[r][k].spec)]
                             /\ draft' = [draft EXCEPT ![r] = cache[r][k].status]
                             /\ GoTo(r, "RunMigrations")
                          \/ FetchMissing(r, k) /\ UNCHANGED <<target, draft, pc>>
    BY <1>5 DEF StartReconcile
  <2>2. UNCHANGED <<db, world, seen, unchecked>>
    BY <1>5 DEF StartReconcile
  <2>3. CASE Fetch(r, k) /\ ~FetchMissing(r, k)
    <3>1. /\ held'[r].key = k /\ held'[r].obj = cache[r][k]
          /\ pc'[r] = "RunMigrations" /\ target'[r] = Resolved(r, cache[r][k].spec)
          /\ draft'[r] = cache[r][k].status
      BY <2>1, <2>3 DEF Fetch, GoTo, IInv, TypeOK, RuntimeTypeOK
    <3>2. QED BY <2>1, <2>2, <2>3, <3>1 DEF Starts
  <2>4. CASE FetchMissing(r, k)
    <3>1. Same
      BY <2>1, <2>2, <2>4 DEF Fetch, FetchMissing
    <3>2. QED BY <1>0, <3>1
  <2>5. QED BY <2>1, <2>3, <2>4
<1>6. CASE RunMigrations(r) \/ GetVersion(r) \/ CheckGateway(r)
  BY <1>6 DEF RunMigrations, GetVersion, CheckGateway, AtStage, GoTo, runtimeVars, GoesOn, IInv, TypeOK
<1>7. ASSUME NEW q \in Replicas, End(q), held'[q] = NotHeld,
             \A p \in Replicas \ {q} : held'[p].key = held[p].key /\ held'[p].obj = held[p].obj
      PROVE  Same \/ (pc'[r] = "idle" /\ draft'[r] = NewStatus)
  BY <1>7 DEF End, GoTo, IInv, TypeOK
<1>8. ASSUME NEW q \in Replicas, Ending(q)
      PROVE  Same \/ (pc'[r] = "idle" /\ draft'[r] = NewStatus)
  <2>1. PICK o \in Object : Ends(q, o)
    BY <1>8, EndingKinds
  <2>2. held'[q] = NotHeld
    BY <2>1, <1>8, RuntimeStep, EndEffect
  <2>3. \A p \in Replicas \ {q} : held'[p].key = held[p].key /\ held'[p].obj = held[p].obj
    BY <2>1, <1>8, RuntimeStep, EndEffect
  <2>4. QED BY <1>7, <1>8, <2>2, <2>3, EndingKinds
<1>9. ASSUME NEW q \in Replicas, Restart(q)
      PROVE  Same \/ (pc'[r] = "idle" /\ draft'[r] = NewStatus)
  <2>1. held'[q] = NotHeld /\ \A p \in Replicas \ {q} : held'[p] = held[p]
    BY <1>9 DEF Restart, RestartRuntime, IInv, TypeOK, RuntimeTypeOK
  <2>2. QED BY <1>7, <1>9, <2>1 DEF Restart
<1>. HIDE DEF Same
<1>10. QED BY <1>0, <1>1, <1>2, <1>3, <1>4, <1>5, <1>6, <1>8, <1>9, StepKinds

LEMMA NewIsFinal == NewStatus \in Final
<1>1. NewStatus \in Status
  BY InitAssumption DEF NewStatus, Status
<1>2. NewStatus.version = 0 /\ NewStatus.dirty = FALSE
  BY DEF NewStatus
<1>3. QED BY <1>1, <1>2 DEF Final

(* The stored statuses come from edits and from the reconciles. *)
LEMMA FinalStored ==
  ASSUME IInv, FinalInv, [Next]_vars
  PROVE  \A k \in Keys : api'[k] # Absent => api'[k] \in ShowsFinal
<1>0. NewStatus \in Final
  BY NewIsFinal
<1>1. \A k \in Keys : api[k] # Absent => api[k] \in ShowsFinal
  BY DEF FinalInv, CopiesIn
<1>2. CASE UserEdit
  <2>1. PICK k \in Keys, o \in Object \cup {Absent} :
           /\ Store(k, o)
           /\ o = Absent \/ o.status = NewStatus \/ (api[k] # Absent /\ o.status = api[k].status)
    BY <1>2, EditStores
  <2>2. o = Absent \/ o \in ShowsFinal
    BY <1>0, <1>1, <2>1 DEF ShowsFinal
  <2>3. QED BY <1>1, <2>1, <2>2 DEF Store, IInv, TypeOK, RuntimeTypeOK
<1>3. ASSUME NEW r \in Replicas, Ending(r)
      PROVE  \A k \in Keys : api'[k] # Absent => api'[k] \in ShowsFinal
  <2>1. PICK s \in Status : /\ s.version = draft[r].version /\ s.dirty = draft[r].dirty
                            /\ [held[r].obj EXCEPT !.status = s] \in Object
                            /\ Ends(r, [held[r].obj EXCEPT !.status = s])
    BY <1>3, EndingKinds
  <2>2. [held[r].obj EXCEPT !.status = s] \in ShowsFinal
    <3>1. s \in Final
      BY <2>1 DEF Final, FinalInv
    <3>2. held[r].obj \in Object
      BY <1>3, EndingKinds
    <3>3. [held[r].obj EXCEPT !.status = s].status = s
      BY <3>2 DEF Object
    <3>4. QED BY <2>1, <3>1, <3>3 DEF ShowsFinal
  <2>3. api' = api \/ api' = [api EXCEPT ![held[r].key] = [held[r].obj EXCEPT !.status = s]]
    BY <1>3, <2>1, RuntimeStep, EndEffect
  <2>4. QED BY <1>1, <2>2, <2>3 DEF IInv, TypeOK, RuntimeTypeOK
<1>4. CASE \/ UNCHANGED vars \/ Outside \/ \E u \in Urls : Repair(u)
           \/ \E r \in Replicas, k \in Keys : Watch(r, k)
           \/ \E r \in Replicas : \/ StartReconcile(r) \/ RunMigrations(r) \/ GetVersion(r) \/ CheckGateway(r)
                                  \/ Restart(r)
  <2>1. api' = api
    BY <1>4 DEF vars, runtimeVars, Outside, PlaneAppears, GatewayUp, GatewayDown, See, Repair, Watch, Sync,
                StartReconcile, Fetch, FetchMissing, RunMigrations, GetVersion, CheckGateway, Restart, RestartRuntime
  <2>2. QED BY <1>1, <2>1
<1>5. QED BY <1>2, <1>3, <1>4, StepKinds

LEMMA FinalStep ==
  ASSUME IInv, FinalInv, [Next]_vars
  PROVE  FinalInv'
<1>1. PastMigrations'
  <2>. SUFFICES ASSUME NEW r \in Replicas, pc'[r] \in {"GetVersion", "CheckGateways"}
                PROVE  db'[target'[r]] = Migrated
    BY DEF PastMigrations
  <2>1. GoesOn(r)
    BY StageStep DEF Starts
  <2>2. target'[r] = target[r] /\ target[r] \in Urls
    BY <2>1 DEF GoesOn, IInv, TypeOK
  <2>3. CASE RunMigrations(r)
    BY <2>2, <2>3 DEF RunMigrations, IInv, TypeOK, Migrated
  <2>4. CASE ~RunMigrations(r)
    <3>1. db[target[r]] = Migrated
      BY <2>1, <2>4 DEF GoesOn, FinalInv, PastMigrations
    <3>2. QED BY <2>2, <3>1, MigratedStays
  <2>5. QED BY <2>3, <2>4
<1>2. CopiesIn(ShowsFinal)'
  BY FinalStored, RuntimeStep, CopiesStep DEF FinalInv
<1>3. ASSUME NEW r \in Replicas
      PROVE  draft'[r] \in Final
  <2>0. NewStatus \in Final /\ draft[r] \in Final
    BY NewIsFinal DEF FinalInv
  <2>1. CASE \E k \in Keys : Starts(r, k)
    BY <2>1 DEF Starts, Fetch, FinalInv, CopiesIn, ShowsFinal
  <2>2. CASE GetVersion(r) /\ pc[r] = "GetVersion"
    <3>1. db[target[r]] = Migrated
      BY <2>2 DEF FinalInv, PastMigrations
    <3>2. \/ draft' = draft
          \/ draft' = [draft EXCEPT ![r] = [draft[r] EXCEPT !.version = db[target[r]].version,
                                                            !.dirty = db[target[r]].dirty]]
      BY <2>2 DEF GetVersion, IInv, TypeOK
    <3>. DEFINE s == [draft[r] EXCEPT !.version = db[target[r]].version, !.dirty = db[target[r]].dirty]
    <3>3. s \in Status /\ s.version = Latest /\ s.dirty = FALSE
      <4>1. db[target[r]].version = Latest /\ db[target[r]].dirty = FALSE
        BY <3>1 DEF Migrated
      <4>2. draft[r] \in Status
        BY DEF IInv, TypeOK
      <4>3. Latest \in 0 .. Latest
        BY InitAssumption
      <4>4. s = [draft[r] EXCEPT !.version = Latest, !.dirty = FALSE]
        BY <4>1
      <4>. HIDE DEF s
      <4>5. s \in Status
        BY <4>2, <4>3, <4>4 DEF Status
      <4>6. s.version = Latest /\ s.dirty = FALSE
        BY <4>2, <4>4 DEF Status
      <4>7. QED BY <4>5, <4>6
    <3>. HIDE DEF s
    <3>4. s \in Final
      BY <3>3 DEF Final
    <3>5. draft' = draft \/ draft'[r] = s
      BY <3>2 DEF s, IInv, TypeOK
    <3>6. QED BY <2>0, <3>4, <3>5
  <2>3. QED BY <2>0, <2>1, <2>2, StageStep DEF GoesOn
<1>4. QED BY <1>1, <1>2, <1>3 DEF FinalInv

(* No status ever shows a half-migrated database. *)
THEOREM StatusIsFinal == Spec => []VersionIsFinal
<1>1. Init => FinalInv
  <2>1. NewStatus \in Final
    BY NewIsFinal
  <2>2. QED BY <2>1 DEF Init, RuntimeInit, NotHeld, FinalInv, PastMigrations, CopiesIn
<1>2. IInv /\ FinalInv /\ [Next]_vars => FinalInv'
  BY FinalStep
<1>3. FinalInv => VersionIsFinal
  BY DEF FinalInv, CopiesIn, ShowsFinal, Final, VersionIsFinal
<1>4. Init => IInv
  BY InitOK
<1>5. QED BY <1>1, <1>2, <1>3, <1>4, TypeStep, PTL DEF Spec

-----------------------------------------------------------------------------
(* What a finished init has behind it. *)
LEMMA WorldStep ==
  ASSUME IInv, SeenIsTrue, [Next]_vars
  PROVE  /\ everUp \subseteq everUp' /\ (plane # NoPlane => plane' = plane)
         /\ SeenIsTrue'
<1>. USE DEF SeenIsTrue
<1>0. up \subseteq everUp
  BY DEF IInv, TypeOK
<1>1. CASE PlaneAppears
  BY <1>1 DEF PlaneAppears, seen
<1>2. CASE \E g \in Gateways : GatewayUp(g) \/ GatewayDown(g)
  BY <1>2 DEF GatewayUp, GatewayDown, seen
<1>3. CASE \E r \in Replicas : See(r)
  BY <1>0, <1>3 DEF See, world, IInv, TypeOK
<1>4. CASE \/ UNCHANGED vars \/ UserEdit \/ \E u \in Urls : Repair(u)
           \/ \E r \in Replicas, k \in Keys : Watch(r, k)
           \/ \E r \in Replicas : StartReconcile(r) \/ RunMigrations(r) \/ GetVersion(r) \/ CheckGateway(r)
  <2>1. UNCHANGED <<world, seen>>
    BY <1>4 DEF vars, UserEdit, Repair, Watch, StartReconcile, RunMigrations, GetVersion, CheckGateway
  <2>2. QED BY <2>1 DEF world, seen
<1>5. CASE \E r \in Replicas : Ending(r)
  <2>1. UNCHANGED <<world, seen>>
    BY <1>5, EndingKinds
  <2>2. QED BY <2>1 DEF world, seen
<1>6. CASE \E r \in Replicas : Restart(r)
  BY <1>0, <1>6 DEF Restart, world, IInv, TypeOK
<1>7. QED BY <1>1, <1>2, <1>3, <1>4, <1>5, <1>6, StepKinds DEF Outside

LEMMA WorkInvStep ==
  ASSUME IInv, WorkInv, [Next]_vars
  PROVE  WorkInv'
<1>0. /\ everUp \subseteq everUp' /\ (plane # NoPlane => plane' = plane)
      /\ SeenIsTrue'
  BY WorldStep DEF WorkInv
<1>1. ASSUME NEW r \in Replicas, pc'[r] # "idle"
      PROVE  target'[r] = Asked(held[r].obj.spec)'
  <2>1. CASE \E k \in Keys : Starts(r, k)
    <3>1. PICK k \in Keys : Starts(r, k)
      BY <2>1
    <3>2. plane' = plane /\ planeSeen[r] \in {NoPlane, plane}
      BY <3>1 DEF Starts, world, WorkInv, SeenIsTrue
    <3>3. QED BY <3>1, <3>2 DEF Starts, Resolved, Asked
  <2>2. CASE GoesOn(r)
    <3>1. /\ target'[r] = target[r] /\ target[r] # NoPlane /\ target[r] = Asked(held[r].obj.spec)
          /\ held'[r].obj = held[r].obj
      BY <2>2 DEF GoesOn, WorkInv, TargetIsAsked, IInv, TypeOK
    <3>2. QED BY <1>0, <3>1 DEF Asked
  <2>3. QED BY <1>1, <2>1, <2>2, StageStep
<1>2. ASSUME NEW r \in Replicas, pc'[r] = "CheckGateways"
      PROVE  held'[r].obj.spec.gateways \ unchecked'[r] \subseteq everUp'
  <2>1. GoesOn(r)
    BY <1>2, StageStep DEF Starts
  <2>2. CASE pc'[r] = pc[r] /\ unchecked'[r] = unchecked[r]
    BY <1>0, <1>2, <2>1, <2>2 DEF GoesOn, WorkInv, CheckedWereUp
  <2>3. CASE GetVersion(r)
    BY <2>1, <2>3 DEF GoesOn, GetVersion, IInv, TypeOK
  <2>4. CASE CheckGateway(r) /\ pc'[r] = pc[r]
    <3>1. PICK g \in unchecked[r] \cap upSeen[r] : unchecked' = [unchecked EXCEPT ![r] = unchecked[r] \ {g}]
      BY <2>4 DEF CheckGateway
    <3>2. g \in everUp /\ unchecked'[r] = unchecked[r] \ {g}
      BY <3>1 DEF WorkInv, SeenIsTrue, IInv, TypeOK
    <3>3. held[r].obj.spec.gateways \ unchecked[r] \subseteq everUp /\ held'[r].obj = held[r].obj
      BY <1>2, <2>1, <2>4 DEF GoesOn, WorkInv, CheckedWereUp
    <3>4. QED BY <1>0, <3>2, <3>3
  <2>5. QED BY <1>2, <2>1, <2>2, <2>3, <2>4 DEF GoesOn
<1>3. QED BY <1>0, <1>1, <1>2 DEF WorkInv, TargetIsAsked, CheckedWereUp

(* A reconcile gives up its init only at its end or when the process        *)
(* crashes.                                                                 *)
LEMMA WorkEnds ==
  ASSUME IInv, [Next]_vars, NEW r \in Replicas, held[r].key \in Keys, held'[r].key # held[r].key
  PROVE  Ending(r) \/ Restart(r)
<1>1. pc[r] # "idle"
  BY AbsentAssumption DEF IInv, TypeOK
<1>2. CASE UserEdit
  <2>1. PICK k \in Keys, o \in Object \cup {Absent} : Store(k, o)
    BY <1>2, EditStores
  <2>2. QED BY <2>1 DEF Store, IInv, TypeOK, RuntimeTypeOK
<1>3. CASE \/ UNCHANGED vars \/ Outside \/ \E u \in Urls : Repair(u)
           \/ \E q \in Replicas, k \in Keys : Watch(q, k)
           \/ \E q \in Replicas : RunMigrations(q) \/ GetVersion(q) \/ CheckGateway(q)
  BY <1>3 DEF vars, Outside, PlaneAppears, GatewayUp, GatewayDown, See, Repair, Watch, Sync, RunMigrations,
              GetVersion, CheckGateway, runtimeVars
<1>4. CASE \E q \in Replicas : StartReconcile(q)
  <2>1. PICK q \in Replicas, k \in Keys : Fetch(q, k) \/ FetchMissing(q, k)
    BY <1>4 DEF StartReconcile
  <2>2. CASE FetchMissing(q, k)
    BY <2>2 DEF FetchMissing
  <2>3. CASE Fetch(q, k)
    <3>1. q # r
      BY <2>3, AbsentAssumption DEF Fetch
    <3>2. QED BY <2>3, <3>1 DEF Fetch, IInv, TypeOK, RuntimeTypeOK
  <2>4. QED BY <2>1, <2>2, <2>3
<1>5. ASSUME NEW q \in Replicas, Ending(q)
      PROVE  Ending(r)
  <2>1. PICK o \in Object : Ends(q, o)
    BY <1>5, EndingKinds
  <2>2. \A p \in Replicas \ {q} : held'[p].key = held[p].key /\ held'[p].obj = held[p].obj
    BY <1>5, <2>1, RuntimeStep, EndEffect
  <2>3. QED BY <1>5, <2>2
<1>6. ASSUME NEW q \in Replicas, Restart(q)
      PROVE  Restart(r)
  BY <1>6 DEF Restart, RestartRuntime, IInv, TypeOK, RuntimeTypeOK
<1>7. QED BY <1>2, <1>3, <1>4, <1>5, <1>6, StepKinds

(* What makes an init Initialized. *)
LEMMA SettlesBy ==
  ASSUME IInv, PastMigrations, WorkInv, NEW r \in Replicas, UpdateStatus(r), NEW k \in Keys, held[r].key = k
  PROVE  Settled(k)'
<1>. DEFINE o == [held[r].obj EXCEPT !.status = InitializedStatus(r)]
<1>1. /\ pc[r] = "CheckGateways" /\ unchecked[r] = {} /\ held[r].obj \in Object
      /\ StatusStored(r, o) /\ UNCHANGED <<db, world>>
  BY DEF UpdateStatus, AtStage, Publish, IInv, TypeOK, RuntimeTypeOK
<1>2. api'[k] = o
  BY <1>1 DEF StatusStored, IInv, TypeOK, RuntimeTypeOK
<1>3. o.spec = held[r].obj.spec /\ o.status.phase = "Initialized" /\ o.status.ready = "True"
  <2>1. draft[r] \in Status
    BY DEF IInv, TypeOK
  <2>2. InitializedStatus(r).phase = "Initialized" /\ InitializedStatus(r).ready = "True"
    BY <2>1 DEF InitializedStatus, Status
  <2>3. QED BY <1>1, <2>2 DEF Object
<1>. HIDE DEF o
<1>4. Database(k)' = target[r]
  BY <1>1, <1>2, <1>3 DEF Database, Asked, world, WorkInv, TargetIsAsked
<1>5. target[r] \in Urls /\ db[target[r]] = Migrated
  BY <1>1 DEF PastMigrations, IInv, TypeOK
<1>6. o.spec.gateways \subseteq everUp
  BY <1>1, <1>3 DEF WorkInv, CheckedWereUp
<1>7. QED BY <1>1, <1>2, <1>3, <1>4, <1>5, <1>6 DEF Settled, world

LEMMA SettledStep ==
  ASSUME IInv, PastMigrations, WorkInv, SettledAtRest, [Next]_vars
  PROVE  SettledAtRest'
<1>. SUFFICES ASSUME NEW k \in Keys, AtRest(k)'
              PROVE  Settled(k)'
  BY DEF SettledAtRest
<1>1. /\ api'[k] # Absent /\ \A r \in Replicas : Quiescent(r, k)'
  BY DEF AtRest
<1>2. /\ api'[k] = api[k]
      /\ \A r \in Replicas : Quiescent(r, k) \/ held[r].key = k
  BY <1>1, RuntimeStep, RestStep, InitAssumption, ProcessAssumption
<1>3. CASE \A r \in Replicas : Quiescent(r, k)
  <2>1. Settled(k)
    BY <1>1, <1>2, <1>3 DEF SettledAtRest, AtRest
  <2>2. everUp \subseteq everUp' /\ (plane # NoPlane => plane' = plane)
    BY WorldStep DEF WorkInv
  <2>3. Database(k)' = Database(k)
    BY <1>2, <2>1, <2>2, InitAssumption DEF Settled, Database
  <2>4. db'[Database(k)] = Migrated
    BY <2>1, MigratedStays DEF Settled
  <2>5. QED BY <1>2, <2>1, <2>2, <2>3, <2>4 DEF Settled
<1>4. ASSUME NEW r \in Replicas, held[r].key = k
      PROVE  Settled(k)'
  <2>1. Ending(r) \/ Restart(r)
    BY <1>1, <1>4, WorkEnds DEF Quiescent
  <2>2. k \notin queue'[r]
    BY <1>1 DEF Quiescent
  <2>3. ~Restart(r)
    BY <1>1, <2>2 DEF Restart, RestartRuntime, IInv, TypeOK, RuntimeTypeOK
  <2>4. ~Requeue(r)
    BY <1>4, <2>2 DEF Requeue, IInv, TypeOK, RuntimeTypeOK
  <2>5. UpdateStatus(r)
    BY <2>1, <2>3, <2>4 DEF Ending, RunMigrationsFails, CheckGatewaysFails, ReportWaiting, UpdateStatusFails
  <2>6. QED BY <1>4, <2>5, SettlesBy
<1>5. QED BY <1>2, <1>3, <1>4

(* When the work about an init is done it says Initialized and Ready, its   *)
(* database is migrated and clean, and its gateways have been available.    *)
THEOREM InitializedIsTrue == Spec => []InitializedAtRest
<1>1. Init => FinalInv /\ WorkInv /\ SettledAtRest
  <2>1. NewStatus \in Final
    BY NewIsFinal
  <2>2. QED BY <2>1 DEF Init, RuntimeInit, NotHeld, FinalInv, PastMigrations, CopiesIn, WorkInv, SeenIsTrue,
                        TargetIsAsked, CheckedWereUp, SettledAtRest, AtRest
<1>2. IInv /\ FinalInv /\ WorkInv /\ SettledAtRest /\ [Next]_vars => FinalInv' /\ WorkInv' /\ SettledAtRest'
  BY FinalStep, WorkInvStep, SettledStep DEF FinalInv
<1>3. SettledAtRest => InitializedAtRest
  BY DEF SettledAtRest, Settled, Migrated, InitializedAtRest
<1>4. QED BY <1>1, <1>2, <1>3, InitOK, TypeStep, PTL DEF Spec
=============================================================================
