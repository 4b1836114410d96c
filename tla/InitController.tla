--------------------------- MODULE InitController ---------------------------
(***************************************************************************)
(* InitReconciler (internal/controller/init_controller.go): migrates the   *)
(* database that a FrkrInit or the FrkrDataPlane names, then waits until   *)
(* the gateways of the FrkrInit are available.                             *)
(*                                                                         *)
(* The data plane and the gateway deployments are read from informer       *)
(* copies; neither is watched, so a change of them queues nothing.  The    *)
(* list of data planes has at most one element here.                       *)
(*                                                                         *)
(* RunMigrations belongs to the common library and is external: it applies *)
(* the missing migrations one by one under a lock in the database, marks   *)
(* the database dirty while it applies one, and refuses a dirty database.  *)
(***************************************************************************)
EXTENDS ControllerRuntime, Naturals

CONSTANTS
  Urls,           \* the databases
  PlaneUrl,       \* the database of the data plane, once there is one
  FromDataPlane,  \* the empty DatabaseURL of a spec
  NoPlane,        \* stands for a missing data plane
  Gateways,       \* names of gateway deployments
  Latest,         \* the number of migrations
  MaxChanges      \* bound on what users, gateways and data plane do

Wish   == [url : Urls \cup {FromDataPlane}, gateways : SUBSET Gateways]
Status == [phase : {"", "Failed", "Initialized"},
           migrations : {"Unset", "False"},     \* condition MigrationsComplete
           ready : {"Unset", "False", "True"},  \* condition Ready
           version : 0 .. Latest, dirty : BOOLEAN]
Object == [spec : Wish, status : Status]
Schema == [version : 0 .. Latest, dirty : BOOLEAN]

ASSUME InitAssumption ==
  /\ Latest \in Nat \ {0} /\ MaxChanges \in Nat
  /\ PlaneUrl \in Urls /\ FromDataPlane \notin Urls /\ NoPlane \notin Urls
  /\ Absent \notin Object

VARIABLES
  db,         \* db[u]: what the migrations have made of database u
  plane,      \* the database of the data plane, NoPlane before it exists
  up,         \* the gateways with available replicas
  everUp,     \* the gateways that have been up (history, read by no action)
  planeSeen, upSeen,  \* the informer copies of plane and up in each process
  pc,         \* pc[r]: the next call of the reconcile in progress
  target,     \* target[r]: the database it works on
  draft,      \* draft[r]: the status it has put together so far
  unchecked,  \* unchecked[r]: the gateways it still has to check
  changes

world    == <<plane, up, everUp>>
seen     == <<planeSeen, upSeen>>
work     == <<pc, target, draft, unchecked>>
vars     == <<runtimeVars, db, world, seen, work, changes>>

NewStatus == [phase |-> "", migrations |-> "Unset", ready |-> "Unset", version |-> 0, dirty |-> FALSE]
Stages == {"idle", "RunMigrations", "GetVersion", "CheckGateways"}

TypeOK ==
  /\ RuntimeTypeOK(Object)
  /\ db \in [Urls -> Schema]
  /\ plane \in {PlaneUrl, NoPlane}
  /\ up \subseteq everUp /\ everUp \subseteq Gateways
  /\ planeSeen \in [Replicas -> {PlaneUrl, NoPlane}]
  /\ upSeen \in [Replicas -> SUBSET Gateways]
  /\ pc \in [Replicas -> Stages]
  /\ target \in [Replicas -> Urls \cup {NoPlane}]
  /\ draft \in [Replicas -> Status]
  /\ unchecked \in [Replicas -> SUBSET Gateways]
  /\ \A r \in Replicas : /\ pc[r] = "idle" <=> held[r].key = NoKey
                         /\ pc[r] = "idle" <=> target[r] = NoPlane
                         /\ pc[r] # "CheckGateways" => unchecked[r] = {}
  /\ changes \in 0 .. MaxChanges

Init ==
  /\ RuntimeInit
  /\ db = [u \in Urls |-> [version |-> 0, dirty |-> FALSE]]
  /\ plane = NoPlane /\ up = {} /\ everUp = {}
  /\ planeSeen = [r \in Replicas |-> NoPlane]
  /\ upSeen = [r \in Replicas |-> {}]
  /\ pc = [r \in Replicas |-> "idle"]
  /\ target = [r \in Replicas |-> NoPlane]
  /\ draft = [r \in Replicas |-> NewStatus]
  /\ unchecked = [r \in Replicas |-> {}]
  /\ changes = 0

AtStage(r, s) == pc[r] = s
GoTo(r, s) == pc' = [pc EXCEPT ![r] = s]
Change == changes < MaxChanges /\ changes' = changes + 1

-----------------------------------------------------------------------------
(* The rest of the cluster. *)
UserEdit ==
  /\ Change
  /\ \E k \in Keys :
       \/ \E s \in Wish : \/ api[k] = Absent /\ Store(k, [spec |-> s, status |-> NewStatus])
                          \/ api[k] # Absent /\ Store(k, [api[k] EXCEPT !.spec = s])
       \/ api[k] # Absent /\ Store(k, Absent)
  /\ UNCHANGED <<db, world, seen, work>>

(* The data plane is created; it is not changed afterwards. *)
PlaneAppears ==
  /\ plane = NoPlane
  /\ plane' = PlaneUrl
  /\ UNCHANGED <<runtimeVars, db, up, everUp, seen, work, changes>>

GatewayUp(g) ==
  /\ g \notin up
  /\ up' = up \cup {g} /\ everUp' = everUp \cup {g}
  /\ UNCHANGED <<runtimeVars, db, plane, seen, work, changes>>

GatewayDown(g) ==
  /\ g \in up
  /\ Change
  /\ up' = up \ {g}
  /\ UNCHANGED <<runtimeVars, db, plane, everUp, seen, work>>

(* An administrator corrects a dirty database and marks it clean, with the  *)
(* interrupted migration undone or completed.                               *)
Repair(u) ==
  /\ db[u].dirty
  /\ \E v \in {db[u].version - 1, db[u].version} :
       db' = [db EXCEPT ![u] = [version |-> v, dirty |-> FALSE]]
  /\ UNCHANGED <<runtimeVars, world, seen, work, changes>>

See(r) ==
  /\ planeSeen[r] # plane \/ upSeen[r] # up
  /\ planeSeen' = [planeSeen EXCEPT ![r] = plane]
  /\ upSeen' = [upSeen EXCEPT ![r] = up]
  /\ UNCHANGED <<runtimeVars, db, world, work, changes>>

-----------------------------------------------------------------------------
(* The reconciler. *)
Resolved(r, spec) == IF spec.url = FromDataPlane THEN planeSeen[r] ELSE spec.url

(* Without a data plane, or when its password cannot be read, the key goes  *)
(* back to the queue: nothing changes.                                      *)
StartReconcile(r) ==
  /\ \/ \E k \in Keys :
          /\ Fetch(r, k)
          /\ Resolved(r, cache[r][k].spec) # NoPlane
          /\ target' = [target EXCEPT ![r] = Resolved(r, cache[r][k].spec)]
          /\ draft' = [draft EXCEPT ![r] = cache[r][k].status]
          /\ GoTo(r, "RunMigrations")
     \/ \E k \in Keys : FetchMissing(r, k) /\ UNCHANGED <<target, draft, pc>>
  /\ UNCHANGED <<db, world, seen, unchecked, changes>>

End(r) ==
  /\ GoTo(r, "idle")
  /\ target' = [target EXCEPT ![r] = NoPlane]
  /\ draft' = [draft EXCEPT ![r] = NewStatus]
  /\ unchecked' = [unchecked EXCEPT ![r] = {}]

Publish(r, status) == StatusStored(r, [held[r].obj EXCEPT !.status = status])

(* What a run of the migrations that fails or is interrupted leaves behind. *)
Interrupted(s) ==
  IF s.dirty THEN {s}
  ELSE {t \in Schema : t.version >= s.version /\ (t.dirty => t.version > s.version)}

RunMigrations(r) ==
  /\ AtStage(r, "RunMigrations")
  /\ ~db[target[r]].dirty
  /\ db' = [db EXCEPT ![target[r]] = [version |-> Latest, dirty |-> FALSE]]
  /\ GoTo(r, "GetVersion")
  /\ UNCHANGED <<runtimeVars, world, seen, target, draft, unchecked, changes>>

FailedStatus(r) == [draft[r] EXCEPT !.phase = "Failed", !.migrations = "False"]

(* Fault: the error is logged and the reconcile goes on.                    *)
RunMigrationsUnchecked(r) ==
  /\ AtStage(r, "RunMigrations")
  /\ \E s \in Interrupted(db[target[r]]) : db' = [db EXCEPT ![target[r]] = s]
  /\ GoTo(r, "GetVersion")
  /\ UNCHANGED <<runtimeVars, world, seen, target, draft, unchecked, changes>>

RunMigrationsFails(r) ==
  /\ AtStage(r, "RunMigrations")
  /\ \E s \in Interrupted(db[target[r]]) : db' = [db EXCEPT ![target[r]] = s]
  /\ Publish(r, FailedStatus(r)) \/ NothingStored(r)
  /\ Requeue(r)
  /\ End(r)
  /\ UNCHANGED <<world, seen, changes>>

(* An error of GetVersion is logged: the version read before stays.         *)
GetVersion(r) ==
  /\ AtStage(r, "GetVersion")
  /\ draft' \in {draft, [draft EXCEPT ![r].version = db[target[r]].version,
                                      ![r].dirty = db[target[r]].dirty]}
  /\ unchecked' = [unchecked EXCEPT ![r] = held[r].obj.spec.gateways]
  /\ GoTo(r, "CheckGateways")
  /\ UNCHANGED <<runtimeVars, db, world, seen, target, changes>>

CheckGateway(r) ==
  /\ AtStage(r, "CheckGateways")
  /\ \E g \in unchecked[r] \cap upSeen[r] : unchecked' = [unchecked EXCEPT ![r] = @ \ {g}]
  /\ UNCHANGED <<runtimeVars, db, world, seen, pc, target, draft, changes>>

CheckGatewaysFails(r) ==
  /\ AtStage(r, "CheckGateways")
  /\ unchecked[r] # {}
  /\ NothingStored(r) /\ Requeue(r) /\ End(r)
  /\ UNCHANGED <<db, world, seen, changes>>

(* Fault: no later check is asked for; nothing else queues the key.         *)
ReportWaitingOnce(r) ==
  /\ AtStage(r, "CheckGateways")
  /\ unchecked[r] \ upSeen[r] # {}
  /\ Publish(r, [draft[r] EXCEPT !.ready = "False"]) \/ NothingStored(r)
  /\ Done(r)
  /\ End(r)
  /\ UNCHANGED <<db, world, seen, changes>>

(* A gateway is missing or has no available replica: check again later.     *)
ReportWaiting(r) ==
  /\ AtStage(r, "CheckGateways")
  /\ unchecked[r] \ upSeen[r] # {}
  /\ Publish(r, [draft[r] EXCEPT !.ready = "False"]) \/ NothingStored(r)
  /\ Requeue(r)
  /\ End(r)
  /\ UNCHANGED <<db, world, seen, changes>>

InitializedStatus(r) == [draft[r] EXCEPT !.phase = "Initialized", !.ready = "True"]

UpdateStatus(r) ==
  /\ AtStage(r, "CheckGateways")
  /\ unchecked[r] = {}
  /\ Publish(r, InitializedStatus(r))
  /\ Done(r)
  /\ End(r)
  /\ UNCHANGED <<db, world, seen, changes>>

UpdateStatusFails(r) ==
  /\ AtStage(r, "CheckGateways")
  /\ unchecked[r] = {}
  /\ Publish(r, InitializedStatus(r)) \/ NothingStored(r)
  /\ Requeue(r)
  /\ End(r)
  /\ UNCHANGED <<db, world, seen, changes>>

Reconcile(r) ==
  \/ StartReconcile(r)
  \/ RunMigrations(r) \/ RunMigrationsFails(r)
  \/ GetVersion(r)
  \/ CheckGateway(r) \/ CheckGatewaysFails(r) \/ ReportWaiting(r)
  \/ UpdateStatus(r) \/ UpdateStatusFails(r)

Watch(r, k) == Sync(r, k) /\ UNCHANGED <<db, world, seen, work, changes>>

(* Fault: the reconcile outlives the process.                               *)
RestartMidway(r) ==
  /\ RestartRuntime(r)
  /\ UNCHANGED <<db, world, seen, work, changes>>

(* A crash during the migrations leaves them where they are.                *)
Restart(r) ==
  /\ RestartRuntime(r)
  /\ IF AtStage(r, "RunMigrations")
     THEN \E s \in Interrupted(db[target[r]]) : db' = [db EXCEPT ![target[r]] = s]
     ELSE UNCHANGED db
  /\ planeSeen' = [planeSeen EXCEPT ![r] = plane]
  /\ upSeen' = [upSeen EXCEPT ![r] = up]
  /\ End(r)
  /\ UNCHANGED <<world, changes>>

Next ==
  \/ UserEdit \/ PlaneAppears
  \/ \E g \in Gateways : GatewayUp(g) \/ GatewayDown(g)
  \/ \E u \in Urls : Repair(u)
  \/ \E r \in Replicas, k \in Keys : Watch(r, k)
  \/ \E r \in Replicas : See(r) \/ Reconcile(r) \/ Restart(r)

Spec == Init /\ [][Next]_vars

(* The process keeps working and its copies catch up; the data plane, the   *)
(* gateways and a repair come in the end; a call retried for ever for an    *)
(* up-to-date copy succeeds in the end.                                     *)
Turn(r, k) == synced[r][k] /\ k \in queue[r] /\ StartReconcile(r) /\ k \notin queue'[r]
WorkingOn(r, k) == held[r].current /\ held[r].key = k

Fairness ==
  /\ WF_vars(PlaneAppears)
  /\ \A g \in Gateways : WF_vars(GatewayUp(g))
  /\ \A u \in Urls : WF_vars(Repair(u))
  /\ \A r \in Replicas :
       /\ WF_vars(Reconcile(r)) /\ WF_vars(See(r))
       /\ \A k \in Keys : /\ WF_vars(Watch(r, k))
                          /\ SF_vars(Turn(r, k))
                          /\ SF_vars(WorkingOn(r, k) /\ RunMigrations(r))
                          /\ SF_vars(WorkingOn(r, k) /\ GetVersion(r))
                          /\ SF_vars(WorkingOn(r, k) /\ CheckGateway(r))
                          /\ SF_vars(WorkingOn(r, k) /\ UpdateStatus(r))

FairSpec == Spec /\ Fairness

-----------------------------------------------------------------------------
AtRest(k) == api[k] # Absent /\ \A r \in Replicas : Quiescent(r, k)

(* The database the spec of k asks for. *)
Database(k) == IF api[k].spec.url = FromDataPlane THEN plane ELSE api[k].spec.url

(* When the work about an init is done it says Initialized and Ready, the   *)
(* database it asks for has all migrations and is clean, and every gateway  *)
(* of its present spec has been available: a failure, a crash in the middle *)
(* of the migrations or an edit never ends in a status that claims more.    *)
InitializedAtRest ==
  \A k \in Keys :
    AtRest(k) =>
      /\ api[k].status.phase = "Initialized" /\ api[k].status.ready = "True"
      /\ db[Database(k)] = [version |-> Latest, dirty |-> FALSE]
      /\ api[k].spec.gateways \subseteq everUp

(* A status never shows a half-migrated database: the version is read only  *)
(* after the migrations have succeeded.  So Dirty never becomes true.       *)
VersionIsFinal ==
  \A k \in Keys :
    api[k] # Absent => api[k].status.version \in {0, Latest} /\ ~api[k].status.dirty

(* Every init is brought to Initialized and Ready, however often            *)
(* migrations are interrupted, gateways come and go and processes crash.    *)
EventuallyInitialized ==
  \A k \in Keys :
    []<>(api[k] # Absent => api[k].status.phase = "Initialized" /\ api[k].status.ready = "True")
=============================================================================
