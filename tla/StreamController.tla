-------------------------- MODULE StreamController --------------------------
(***************************************************************************)
(* StreamReconciler (internal/controller/stream_controller.go) over the    *)
(* runtime of ControllerRuntime, the database and the broker.  A stream    *)
(* record and its topic are named by the tenant and the stream name, so    *)
(* the StreamID and Topic of a status are kept as that pair.  Description  *)
(* and retention are payload the control flow never looks at, left out.    *)
(*                                                                         *)
(* A call to the database or the broker may fail with or without effect    *)
(* (the reply is lost); a process may crash between any two calls.  There  *)
(* is always a KafkaAdmin: GetConfigFromEnv returns no empty broker URL.   *)
(*                                                                         *)
(* CreateStream of the common library is not in this repository.  infra.go *)
(* returns each of its errors: whether it answers with the record where    *)
(* there is one already, or refuses, is the constant AcceptsExisting.      *)
(***************************************************************************)
EXTENDS ControllerRuntime, Naturals

CONSTANTS
  Tenants, Names,
  NoStream,         \* the empty StreamID and Topic of a new status
  Disconnected,     \* processes whose DB handle is nil
  AcceptsExisting,  \* whether CreateStream succeeds when the record exists
  MaxEdits          \* bound on the creations, edits and deletions by users

Target == [tenant : Tenants, name : Names]

(* Phase and the StreamCreated condition are functions of its Reason, so    *)
(* the status keeps the reason and what it names.                           *)
Reasons == {"None", "InfrastructureNotReady", "TenantError", "DatabaseError", "KafkaError", "Success"}
Status == [reason : Reasons, stream : Target \cup {NoStream}]
Object == [spec : Target, status : Status]

ASSUME StreamAssumption ==
  /\ MaxEdits \in Nat
  /\ AcceptsExisting \in BOOLEAN
  /\ NoStream \notin Target
  /\ Absent \notin Object

VARIABLES
  tenants,  \* the tenants in the database
  streams,  \* the stream records in the database
  topics,   \* the topics of the broker
  pc,       \* pc[r]: the next call of the reconcile in progress
  edits

infraVars == <<tenants, streams, topics>>
vars == <<runtimeVars, infraVars, pc, edits>>

NewStatus == [reason |-> "None", stream |-> NoStream]
Stages == {"idle", "EnsureTenant", "CreateStream", "CreateTopic", "UpdateStatus"}

TypeOK ==
  /\ RuntimeTypeOK(Object)
  /\ tenants \subseteq Tenants
  /\ streams \subseteq Target
  /\ topics \subseteq Target
  /\ pc \in [Replicas -> Stages]
  /\ \A r \in Replicas : pc[r] = "idle" <=> held[r].key = NoKey
  /\ edits \in 0 .. MaxEdits

Init ==
  /\ RuntimeInit
  /\ tenants = {} /\ streams = {} /\ topics = {}
  /\ pc = [r \in Replicas |-> "idle"]
  /\ edits = 0

Wanted(r) == held[r].obj.spec
AtStage(r, s) == pc[r] = s
GoTo(r, s) == pc' = [pc EXCEPT ![r] = s]

-----------------------------------------------------------------------------
(* The users: frkrctl stream create, kubectl edit and delete. *)
CreateObject(k, s) ==
  /\ api[k] = Absent
  /\ Store(k, [spec |-> s, status |-> NewStatus])

EditSpec(k, s) ==
  /\ api[k] # Absent
  /\ Store(k, [api[k] EXCEPT !.spec = s])

DeleteObject(k) == api[k] # Absent /\ Store(k, Absent)

UserEdit ==
  /\ edits < MaxEdits
  /\ edits' = edits + 1
  /\ \E k \in Keys : \/ \E s \in Target : CreateObject(k, s) \/ EditSpec(k, s)
                     \/ DeleteObject(k)
  /\ UNCHANGED <<infraVars, pc>>

-----------------------------------------------------------------------------
(* The reconciler. *)
StartReconcile(r) ==
  /\ \/ \E k \in Keys : Fetch(r, k) /\ GoTo(r, "EnsureTenant")
     \/ \E k \in Keys : FetchMissing(r, k) /\ UNCHANGED pc
  /\ UNCHANGED <<infraVars, edits>>

(* updateStatus and RequeueAfter: what the status named before stays, the   *)
(* result of the status update is ignored.                                  *)
ReportFailure(r, reason) ==
  /\ \/ StatusStored(r, [held[r].obj EXCEPT !.status.reason = reason])
     \/ NothingStored(r)
  /\ Requeue(r)
  /\ GoTo(r, "idle")
  /\ UNCHANGED edits

NoDatabase(r) ==
  /\ AtStage(r, "EnsureTenant")
  /\ r \in Disconnected
  /\ ReportFailure(r, "InfrastructureNotReady")
  /\ UNCHANGED infraVars

(* Fault: the error of EnsureTenant is ignored.                             *)
EnsureTenantUnchecked(r) ==
  /\ AtStage(r, "EnsureTenant")
  /\ r \notin Disconnected
  /\ tenants' \in {tenants, tenants \cup {Wanted(r).tenant}}
  /\ GoTo(r, "CreateStream")
  /\ UNCHANGED <<runtimeVars, streams, topics, edits>>

EnsureTenant(r) ==
  /\ AtStage(r, "EnsureTenant")
  /\ r \notin Disconnected
  /\ tenants' = tenants \cup {Wanted(r).tenant}
  /\ GoTo(r, "CreateStream")
  /\ UNCHANGED <<runtimeVars, streams, topics, edits>>

EnsureTenantFails(r) ==
  /\ AtStage(r, "EnsureTenant")
  /\ r \notin Disconnected
  /\ tenants' \in {tenants, tenants \cup {Wanted(r).tenant}}
  /\ ReportFailure(r, "TenantError")
  /\ UNCHANGED <<streams, topics>>

CreateStream(r) ==
  /\ AtStage(r, "CreateStream")
  /\ Wanted(r) \in streams => AcceptsExisting
  /\ streams' = streams \cup {Wanted(r)}
  /\ GoTo(r, "CreateTopic")
  /\ UNCHANGED <<runtimeVars, tenants, topics, edits>>

(* An error of the database, before or after the record is written; or the  *)
(* record exists and is refused.                                            *)
CreateStreamFails(r) ==
  /\ AtStage(r, "CreateStream")
  /\ streams' \in {streams, streams \cup {Wanted(r)}}
  /\ ReportFailure(r, "DatabaseError")
  /\ UNCHANGED <<tenants, topics>>

(* Fault: every error of CreateTopic is taken for "already exists".         *)
CreateTopicUnchecked(r) ==
  /\ AtStage(r, "CreateTopic")
  /\ topics' \in {topics, topics \cup {Wanted(r)}}
  /\ GoTo(r, "UpdateStatus")
  /\ UNCHANGED <<runtimeVars, tenants, streams, edits>>

(* CreateTopic takes "already exists" for success. *)
CreateTopic(r) ==
  /\ AtStage(r, "CreateTopic")
  /\ topics' = topics \cup {Wanted(r)}
  /\ GoTo(r, "UpdateStatus")
  /\ UNCHANGED <<runtimeVars, tenants, streams, edits>>

CreateTopicFails(r) ==
  /\ AtStage(r, "CreateTopic")
  /\ topics' \in {topics, topics \cup {Wanted(r)}}
  /\ ReportFailure(r, "KafkaError")
  /\ UNCHANGED <<tenants, streams>>

ReadyObject(r) == [held[r].obj EXCEPT !.status = [reason |-> "Success", stream |-> Wanted(r)]]

UpdateStatus(r) ==
  /\ AtStage(r, "UpdateStatus")
  /\ StatusStored(r, ReadyObject(r))
  /\ Done(r)
  /\ GoTo(r, "idle")
  /\ UNCHANGED <<infraVars, edits>>

(* A conflict, an unreachable API server, or a lost reply. *)
UpdateStatusFails(r) ==
  /\ AtStage(r, "UpdateStatus")
  /\ StatusStored(r, ReadyObject(r)) \/ NothingStored(r)
  /\ Requeue(r)
  /\ GoTo(r, "idle")
  /\ UNCHANGED <<infraVars, edits>>

Reconcile(r) ==
  \/ StartReconcile(r)
  \/ NoDatabase(r)
  \/ EnsureTenant(r) \/ EnsureTenantFails(r)
  \/ CreateStream(r) \/ CreateStreamFails(r)
  \/ CreateTopic(r)  \/ CreateTopicFails(r)
  \/ UpdateStatus(r) \/ UpdateStatusFails(r)

Watch(r, k) == Sync(r, k) /\ UNCHANGED <<infraVars, pc, edits>>

(* Fault: the stage of the reconcile outlives the process.                  *)
RestartMidway(r) == RestartRuntime(r) /\ UNCHANGED <<infraVars, pc, edits>>

Restart(r) ==
  /\ RestartRuntime(r)
  /\ GoTo(r, "idle")
  /\ UNCHANGED <<infraVars, edits>>

Next ==
  \/ UserEdit
  \/ \E r \in Replicas, k \in Keys : Watch(r, k)
  \/ \E r \in Replicas : Reconcile(r) \/ Restart(r)

Spec == Init /\ [][Next]_vars

(* A reconcile in progress keeps going and the informer keeps up (weak      *)
(* fairness); the queue is first-in first-out, so a waiting key has its turn.*)
(* A call that is retried for ever for an up-to-date copy of the same object *)
(* succeeds in the end (strong fairness): without it no controller can       *)
(* promise anything.                                                         *)
Turn(r, k) == synced[r][k] /\ k \in queue[r] /\ StartReconcile(r) /\ k \notin queue'[r]
WorkingOn(r, k) == held[r].current /\ held[r].key = k

Fairness ==
  \A r \in Replicas :
    /\ WF_vars(Reconcile(r))
    /\ \A k \in Keys : /\ WF_vars(Watch(r, k))
                       /\ SF_vars(Turn(r, k))
                       /\ SF_vars(WorkingOn(r, k) /\ EnsureTenant(r))
                       /\ SF_vars(WorkingOn(r, k) /\ CreateStream(r))
                       /\ SF_vars(WorkingOn(r, k) /\ CreateTopic(r))
                       /\ SF_vars(WorkingOn(r, k) /\ UpdateStatus(r))

FairSpec == Spec /\ Fairness

-----------------------------------------------------------------------------
Exists(t) == t.tenant \in tenants /\ t \in streams /\ t \in topics

Converged(o) == o.status = [reason |-> "Success", stream |-> o.spec]

(* A status names a stream only when its tenant, its record and its topic   *)
(* exist: it outlives failures, crashes, stale reads and a second operator. *)
StatusIsBacked ==
  \A k \in Keys :
    api[k] # Absent /\ api[k].status.stream # NoStream => Exists(api[k].status.stream)

(* A process with nothing left to do about a stream has brought it to       *)
(* Ready for the spec it has now: no error, conflict or restart loses work. *)
NothingForgotten ==
  \A r \in Replicas, k \in Keys :
    Quiescent(r, k) /\ api[k] # Absent => Converged(api[k])

(* What a reconcile publishes is the stream of the spec stored at that      *)
(* moment, never of a spec edited since it was read.                        *)
PublishesCurrentSpec ==
  [][\A k \in Keys :
       (/\ api[k] # Absent /\ api'[k] # Absent
        /\ api'[k].status # api[k].status
        /\ api'[k].status.reason = "Success")
       => api'[k].status.stream = api[k].spec /\ api'[k].spec = api[k].spec]_vars

(* Users edit finitely often.  From then on every stream is Ready for its   *)
(* spec again and again, however often calls fail and processes crash; that *)
(* it stays Ready when they stop failing is NothingForgotten.  Only where   *)
(* AcceptsExisting: a record that is refused leaves the stream at           *)
(* DatabaseError for ever.                                                  *)
EventuallyReady == \A k \in Keys : []<>(api[k] # Absent => Converged(api[k]))

(* The promise of Provisioning, with the resources tagged by their kind.    *)
Resource == ({"tenant"} \X Tenants) \cup ({"stream", "topic"} \X Target)
Requires == [x \in Resource |-> CASE x[1] = "tenant" -> {}
                                  [] x[1] = "stream" -> {<<"tenant", x[2].tenant>>}
                                  [] OTHER -> {<<"stream", x[2]>>}]
Needs == [t \in Target |-> {<<"tenant", t.tenant>>, <<"stream", t>>, <<"topic", t>>}]
Made == ({"tenant"} \X tenants) \cup ({"stream"} \X streams) \cup ({"topic"} \X topics)
Claims == [k \in Keys |-> IF api[k] = Absent THEN NoStream ELSE api[k].status.stream]

Promise == INSTANCE Provisioning WITH
  Targets <- Target, None <- NoStream, made <- Made, claim <- Claims

(* The controller implements Provisioning: rows and topics are made in      *)
(* dependency order and a status claims only what is made.                  *)
ImplementsProvisioning == Promise!Spec
=============================================================================
