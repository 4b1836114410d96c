-------------------------- MODULE ClientController --------------------------
(***************************************************************************)
(* ClientReconciler (internal/controller/client_controller.go): a client   *)
(* credential lives in three places, the FrkrClient, the database row and  *)
(* the Secret frkr-client-<name>, and the reconciler writes the last two   *)
(* one after the other.                                                    *)
(*                                                                         *)
(* A row is named by tenant and client id.  The stream scope is payload.   *)
(* The credential in a row is set when the row is inserted: EnsureClient   *)
(* answers "already exists" with the row as it is.                         *)
(*                                                                         *)
(* A generated credential is a value found nowhere else in the system: it  *)
(* stands for a random string.  Generated must be large enough that one is *)
(* always free (MCClient says how many).                                   *)
(***************************************************************************)
EXTENDS SecretStore

CONSTANTS
  Tenants, ClientIds,
  Given,         \* credentials that users write in a spec
  Generated,     \* credentials that GeneratePassword can return
  Unset,         \* no credential
  NoRow,         \* the empty ID of a new status
  Disconnected,  \* processes whose DB handle is nil
  ReadErrors,    \* whether a read of a Secret may fail other than by NotFound
  MaxEdits,      \* bound on the creations, edits and deletions by users
  MaxDeletes     \* bound on the deletions among them

Value  == Given \cup Generated
Row    == [tenant : Tenants, clientId : ClientIds]
Spec0  == [row : Row, secret : Given \cup {Unset}]
Status == [id : Row \cup {NoRow}, secretGenerated : BOOLEAN]
Object == [uid : 1 .. MaxEdits, spec : Spec0, status : Status]
Data   == [clientId : ClientIds, clientSecret : Value]

ASSUME ClientAssumption ==
  /\ MaxEdits \in Nat /\ MaxDeletes \in Nat
  /\ ReadErrors \in BOOLEAN
  /\ Unset \notin Value
  /\ NoRow \notin Row
  /\ Absent \notin Object
  /\ NoSecret \notin Secret(Data)

VARIABLES
  tenants,  \* the tenant rows of the database, made by other parts
  clients,  \* clients[w]: the credential of row w, Unset when there is none
  pc,       \* pc[r]: the next call of the reconcile in progress
  chosen,   \* chosen[r]: the credential it works with, and whether it made it
  edits, deletes

external == <<tenants, edits, deletes>>
vars == <<runtimeVars, secretVars, clients, pc, chosen, external>>

NewStatus == [id |-> NoRow, secretGenerated |-> FALSE]
NotChosen == [value |-> Unset, made |-> FALSE]
Stages == {"idle", "EnsureClient", "ApplySecret", "UpdateStatus"}

TypeOK ==
  /\ RuntimeTypeOK(Object)
  /\ SecretTypeOK(Data)
  /\ tenants \subseteq Tenants
  /\ clients \in [Row -> Value \cup {Unset}]
  /\ pc \in [Replicas -> Stages]
  /\ chosen \in [Replicas -> [value : Value \cup {Unset}, made : BOOLEAN]]
  /\ \A r \in Replicas : /\ pc[r] = "idle" <=> held[r].key = NoKey
                         /\ pc[r] = "idle" <=> chosen[r].value = Unset
  /\ edits \in 0 .. MaxEdits /\ deletes \in 0 .. MaxDeletes

Init ==
  /\ RuntimeInit /\ SecretInit
  /\ tenants = {}
  /\ clients = [w \in Row |-> Unset]
  /\ pc = [r \in Replicas |-> "idle"]
  /\ chosen = [r \in Replicas |-> NotChosen]
  /\ edits = 0 /\ deletes = 0

Wanted(r) == held[r].obj.spec
AtStage(r, s) == pc[r] = s
GoTo(r, s) == pc' = [pc EXCEPT ![r] = s]

-----------------------------------------------------------------------------
(* The rest of the world: frkrctl client create and delete, kubectl edit,   *)
(* the parts that make tenants, the garbage collector.                      *)
CreateObject(k, s) ==
  /\ api[k] = Absent
  /\ Store(k, [uid |-> edits + 1, spec |-> s, status |-> NewStatus])
  /\ UNCHANGED deletes

EditSpec(k, s) ==
  /\ api[k] # Absent
  /\ Store(k, [api[k] EXCEPT !.spec = s])
  /\ UNCHANGED deletes

DeleteObject(k) ==
  /\ api[k] # Absent
  /\ deletes < MaxDeletes
  /\ Store(k, Absent)
  /\ deletes' = deletes + 1

UserEdit ==
  /\ edits < MaxEdits
  /\ edits' = edits + 1
  /\ \E k \in Keys : \/ \E s \in Spec0 : CreateObject(k, s) \/ EditSpec(k, s)
                     \/ DeleteObject(k)
  /\ UNCHANGED <<secretVars, clients, pc, chosen, tenants>>

TenantAppears ==
  /\ \E t \in Tenants \ tenants : tenants' = tenants \cup {t}
  /\ UNCHANGED <<runtimeVars, secretVars, clients, pc, chosen, edits, deletes>>

GarbageCollect ==
  /\ \E k \in Keys : CollectSecret(k)
  /\ UNCHANGED <<runtimeVars, clients, pc, chosen, external>>

-----------------------------------------------------------------------------
(* The reconciler. *)
InUse(v) ==
  \/ \E w \in Row : clients[w] = v
  \/ \E r \in Replicas : chosen[r].value = v
  \/ \E k \in Keys : secrets[k] # NoSecret /\ secrets[k].data.clientSecret = v
  \/ \E r \in Replicas, k \in Keys :
       secretCache[r][k] # NoSecret /\ secretCache[r][k].data.clientSecret = v

(* GeneratePassword.  Which of the free values it is makes no difference.   *)
NewValue == CHOOSE v \in Generated : ~InUse(v)

(* Fault: the Secret is asked before the spec.                              *)
ChooseStored(r, k) ==
  LET spec == cache[r][k].spec
      copy == secretCache[r][k]
      Takes(v, made) == chosen' = [chosen EXCEPT ![r] = [value |-> v, made |-> made]]
  IN \/ copy # NoSecret /\ Takes(copy.data.clientSecret, FALSE)
     \/ copy = NoSecret /\ spec.secret # Unset /\ Takes(spec.secret, FALSE)
     \/ /\ copy = NoSecret /\ spec.secret = Unset
        /\ \E v \in Generated : ~InUse(v)
        /\ Takes(NewValue, TRUE)

(* The credential of the spec, else the one of the Secret, else a new one.  *)
(* Any error of the read counts as "no Secret".                             *)
Choose(r, k) ==
  LET spec == cache[r][k].spec
      copy == secretCache[r][k]
      Takes(v, made) == chosen' = [chosen EXCEPT ![r] = [value |-> v, made |-> made]]
  IN \/ spec.secret # Unset /\ Takes(spec.secret, FALSE)
     \/ spec.secret = Unset /\ copy # NoSecret /\ Takes(copy.data.clientSecret, FALSE)
     \/ /\ spec.secret = Unset
        /\ copy = NoSecret \/ ReadErrors
        /\ \E v \in Generated : ~InUse(v)
        /\ Takes(NewValue, TRUE)

(* The two reads at the start come from informer copies and affect nothing. *)
StartReconcile(r) ==
  /\ \/ \E k \in Keys : Fetch(r, k) /\ Choose(r, k) /\ GoTo(r, "EnsureClient")
     \/ \E k \in Keys : FetchMissing(r, k) /\ UNCHANGED <<pc, chosen>>
  /\ UNCHANGED <<secretVars, clients, external>>

End(r) ==
  /\ GoTo(r, "idle")
  /\ chosen' = [chosen EXCEPT ![r] = NotChosen]

(* Every error is returned: the key is queued again and nothing is stored.  *)
ReturnError(r) == NothingStored(r) /\ Requeue(r) /\ End(r)

(* CreateClient inserts the row, GetClient returns the one that exists.     *)
Inserted(r) ==
  IF clients[Wanted(r).row] = Unset
  THEN [clients EXCEPT ![Wanted(r).row] = chosen[r].value] ELSE clients

(* Fault: the error of EnsureClient is ignored.                             *)
EnsureClientUnchecked(r) ==
  /\ AtStage(r, "EnsureClient")
  /\ r \notin Disconnected
  /\ clients' = clients \/ (Wanted(r).row.tenant \in tenants /\ clients' = Inserted(r))
  /\ GoTo(r, "ApplySecret")
  /\ UNCHANGED <<runtimeVars, secretVars, chosen, external>>

(* Fault: the row is inserted whether its tenant exists or not.             *)
EnsureClientOrphan(r) ==
  /\ AtStage(r, "EnsureClient")
  /\ r \notin Disconnected
  /\ clients' = Inserted(r)
  /\ GoTo(r, "ApplySecret")
  /\ UNCHANGED <<runtimeVars, secretVars, chosen, external>>

EnsureClient(r) ==
  /\ AtStage(r, "EnsureClient")
  /\ r \notin Disconnected
  /\ Wanted(r).row.tenant \in tenants
  /\ clients' = Inserted(r)
  /\ GoTo(r, "ApplySecret")
  /\ UNCHANGED <<runtimeVars, secretVars, chosen, external>>

(* The tenant "does not exist", or the call fails before or after the       *)
(* insertion.                                                               *)
EnsureClientFails(r) ==
  /\ AtStage(r, "EnsureClient")
  /\ r \notin Disconnected
  /\ clients' = clients \/ (Wanted(r).row.tenant \in tenants /\ clients' = Inserted(r))
  /\ ReturnError(r)
  /\ UNCHANGED <<secretVars, external>>

WithoutDatabase(r) ==
  /\ AtStage(r, "EnsureClient")
  /\ r \in Disconnected
  /\ GoTo(r, "ApplySecret")
  /\ UNCHANGED <<runtimeVars, secretVars, clients, chosen, external>>

WriteSecret(r) ==
  ApplySecret(r, held[r].key, held[r].obj.uid,
              [clientId |-> Wanted(r).row.clientId, clientSecret |-> chosen[r].value])

PersistSecret(r) ==
  /\ AtStage(r, "ApplySecret")
  /\ WriteSecret(r)
  /\ GoTo(r, "UpdateStatus")
  /\ UNCHANGED <<runtimeVars, clients, chosen, external>>

(* Fault: the error of Create and Update is ignored.                        *)
PersistSecretUnchecked(r) ==
  /\ AtStage(r, "ApplySecret")
  /\ WriteSecret(r) \/ UNCHANGED secretVars
  /\ GoTo(r, "UpdateStatus")
  /\ UNCHANGED <<runtimeVars, clients, chosen, external>>

(* AlreadyExists, a conflict, an unreachable API server, a lost reply.      *)
PersistSecretFails(r) ==
  /\ AtStage(r, "ApplySecret")
  /\ WriteSecret(r) \/ UNCHANGED secretVars
  /\ ReturnError(r)
  /\ UNCHANGED <<clients, external>>

(* The read before the write fails with another error: neither branch.      *)
PersistSecretSkipped(r) ==
  /\ AtStage(r, "ApplySecret")
  /\ ReadErrors
  /\ GoTo(r, "UpdateStatus")
  /\ UNCHANGED <<runtimeVars, secretVars, clients, chosen, external>>

ReadyObject(r) ==
  LET old == held[r].obj.status
  IN [held[r].obj EXCEPT !.status =
        [id |-> IF r \in Disconnected THEN old.id ELSE Wanted(r).row,
         secretGenerated |-> old.secretGenerated \/ chosen[r].made]]

UpdateStatus(r) ==
  /\ AtStage(r, "UpdateStatus")
  /\ StatusStored(r, ReadyObject(r))
  /\ Done(r)
  /\ End(r)
  /\ UNCHANGED <<secretVars, clients, external>>

UpdateStatusFails(r) ==
  /\ AtStage(r, "UpdateStatus")
  /\ StatusStored(r, ReadyObject(r)) \/ NothingStored(r)
  /\ Requeue(r)
  /\ End(r)
  /\ UNCHANGED <<secretVars, clients, external>>

Reconcile(r) ==
  \/ StartReconcile(r)
  \/ EnsureClient(r) \/ EnsureClientFails(r) \/ WithoutDatabase(r)
  \/ PersistSecret(r) \/ PersistSecretFails(r) \/ PersistSecretSkipped(r)
  \/ UpdateStatus(r) \/ UpdateStatusFails(r)

Watch(r, k) == Sync(r, k) /\ UNCHANGED <<secretVars, clients, pc, chosen, external>>

WatchSecret(r, k) == SyncSecret(r, k) /\ UNCHANGED <<runtimeVars, clients, pc, chosen, external>>

(* Fault: the credential chosen outlives the process.                       *)
RestartMidway(r) ==
  /\ RestartRuntime(r) /\ RestartSecrets(r)
  /\ GoTo(r, "idle")
  /\ UNCHANGED <<clients, chosen, external>>

Restart(r) ==
  /\ RestartRuntime(r)
  /\ RestartSecrets(r)
  /\ End(r)
  /\ UNCHANGED <<clients, external>>

Next ==
  \/ UserEdit \/ TenantAppears \/ GarbageCollect
  \/ \E r \in Replicas, k \in Keys : Watch(r, k) \/ WatchSecret(r, k)
  \/ \E r \in Replicas : Reconcile(r) \/ Restart(r)

Spec == Init /\ [][Next]_vars

(* Parts of the fairness that Onboarding states: the worker gets to k with  *)
(* an up-to-date copy; the reconcile of r works on such a copy of k.        *)
Turn(r, k) == synced[r][k] /\ k \in queue[r] /\ StartReconcile(r) /\ k \notin queue'[r]
WorkingOn(r, k) == held[r].current /\ held[r].key = k

-----------------------------------------------------------------------------
AtRest(k) == api[k] # Absent /\ \A r \in Replicas : Quiescent(r, k)

(* A published ID has a row behind it, whatever fails or crashes.           *)
ReadyIsBacked ==
  \A k \in Keys : api[k] # Absent /\ api[k].status.id # NoRow => clients[api[k].status.id] # Unset

(* When the work about a client is done its Secret carries the present spec: *)
(* the client id, and the credential if the spec gives one.  A second       *)
(* process with an older spec may have written last; it cannot be the last  *)
(* to work.                                                                 *)
SecretFollowsSpec ==
  \A k \in Keys :
    AtRest(k) /\ secrets[k] # NoSecret =>
      /\ secrets[k].data.clientId = api[k].spec.row.clientId
      /\ api[k].spec.secret # Unset => secrets[k].data.clientSecret = api[k].spec.secret

(* When the work about a client is done it is Ready for its present row, and *)
(* its Secret exists, not to be collected while the client exists.          *)
SecretAtRest ==
  \A k \in Keys :
    AtRest(k) =>
      /\ api[k].status.id = api[k].spec.row
      /\ secrets[k] # NoSecret /\ Owned(k)

(* The promise of Provisioning, with the resources tagged by their kind.    *)
Resource == ({"tenant"} \X Tenants) \cup ({"client"} \X Row)
Requires == [x \in Resource |-> IF x[1] = "client" THEN {<<"tenant", x[2].tenant>>} ELSE {}]
Needs == [w \in Row |-> {<<"tenant", w.tenant>>, <<"client", w>>}]
Made == ({"tenant"} \X tenants) \cup ({"client"} \X {w \in Row : clients[w] # Unset})
Claims == [k \in Keys |-> IF api[k] = Absent THEN NoRow ELSE api[k].status.id]

Promise == INSTANCE Provisioning WITH
  Targets <- Row, None <- NoRow, made <- Made, claim <- Claims

(* The controller implements Provisioning: a row is inserted after its      *)
(* tenant, is never taken back, and a status shows the ID of a row that     *)
(* exists, whichever processes have a database.                             *)
ImplementsProvisioning == Promise!Spec

-----------------------------------------------------------------------------
(* client_controller.go:43-44 "Check if a secret already exists in          *)
(* Kubernetes for this client. If not, auto-generate a new one and ensure   *)
(* it persists in a K8s Secret": the generated credential of the Secret is  *)
(* the one the database checks.                                             *)
SecretOpensClient ==
  \A k \in Keys :
    AtRest(k) /\ secrets[k] # NoSecret /\ api[k].spec.secret = Unset =>
      clients[api[k].spec.row] \in {Unset, secrets[k].data.clientSecret}
=============================================================================
