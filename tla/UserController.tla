--------------------------- MODULE UserController ---------------------------
(***************************************************************************)
(* UserReconciler (internal/controller/user_controller.go) and the         *)
(* commands of frkrctl user that create, reset and delete users            *)
(* (cmd/frkrctl/user.go).  A password lives in the status of the FrkrUser, *)
(* the database row and the Secret frkr-user-<username>; when the spec     *)
(* gives none, EVERY reconcile generates a new one.                        *)
(*                                                                         *)
(* As frkrctl does, the object is named by the user name, and so are the   *)
(* row (with the tenant) and the Secret.  Roles are payload.               *)
(*                                                                         *)
(* CreateUser of the common library is not in this repository: what it     *)
(* does with a user that exists is the constant OnExisting.                *)
(***************************************************************************)
EXTENDS SecretStore

CONSTANTS
  Tenants,
  Given,         \* passwords that users write in a spec
  Generated,     \* passwords that GeneratePassword can return
  Unset,         \* no password
  OnExisting,    \* what CreateUser may do to an existing row
  Disconnected,  \* processes whose DB handle is nil
  Commands,      \* users that may be created with frkrctl user create
  MaxEdits,      \* bound on the creations, edits and deletions by users
  MaxDeletes     \* bound on the deletions among them

Value   == Given \cup Generated
Row     == [tenant : Tenants, username : Keys]
Wish    == [tenant : Tenants, password : Given \cup {Unset}]
Status  == [password : Value \cup {Unset}, passwordGenerated : BOOLEAN]
Object  == [uid : 1 .. MaxEdits, spec : Wish, status : Status]

ASSUME UserAssumption ==
  /\ MaxEdits \in Nat /\ MaxDeletes \in Nat
  /\ Commands \subseteq Keys
  /\ OnExisting \subseteq {"keep", "replace", "error"}
  /\ Unset \notin Value
  /\ Absent \notin Object
  /\ NoSecret \notin Secret(Value)

VARIABLES
  tenants,  \* the tenant rows of the database
  users,    \* users[w]: the password of row w, Unset when there is none
  pc,       \* pc[r]: the next call of the reconcile in progress
  chosen,   \* chosen[r]: the password it works with
  awaiting, \* the users whose Secret a frkrctl user create waits for
  shown,    \* the users whose password it has printed
  revoked,  \* history: revoked[k] is the password that frkrctl user reset-password
            \* took out of the spec of k, Unset when k was edited since
  edits, deletes

dbVars == <<tenants, users>>
cli == <<awaiting, shown, revoked>>
outside == <<cli, edits, deletes>>
vars == <<runtimeVars, secretVars, dbVars, pc, chosen, outside>>

NewStatus == [password |-> Unset, passwordGenerated |-> FALSE]
Stages == {"idle", "EnsureTenant", "EnsureUser", "ApplySecret", "UpdateStatus"}

TypeOK ==
  /\ RuntimeTypeOK(Object)
  /\ SecretTypeOK(Value)
  /\ tenants \subseteq Tenants
  /\ users \in [Row -> Value \cup {Unset}]
  /\ pc \in [Replicas -> Stages]
  /\ chosen \in [Replicas -> Value \cup {Unset}]
  /\ \A r \in Replicas : /\ pc[r] = "idle" <=> held[r].key = NoKey
                         /\ pc[r] = "idle" <=> chosen[r] = Unset
  /\ awaiting \subseteq Commands /\ shown \subseteq Commands
  /\ revoked \in [Keys -> Given \cup {Unset}]
  /\ edits \in 0 .. MaxEdits /\ deletes \in 0 .. MaxDeletes

Init ==
  /\ RuntimeInit /\ SecretInit
  /\ tenants = {}
  /\ users = [w \in Row |-> Unset]
  /\ pc = [r \in Replicas |-> "idle"]
  /\ chosen = [r \in Replicas |-> Unset]
  /\ awaiting = {} /\ shown = {}
  /\ revoked = [k \in Keys |-> Unset]
  /\ edits = 0 /\ deletes = 0

Wanted(r) == held[r].obj.spec
RowOf(r) == [tenant |-> Wanted(r).tenant, username |-> held[r].key]
AtStage(r, s) == pc[r] = s
GoTo(r, s) == pc' = [pc EXCEPT ![r] = s]

-----------------------------------------------------------------------------
(* An object applied with kubectl.                                          *)
CreateObject(k, s) ==
  /\ api[k] = Absent
  /\ Store(k, [uid |-> edits + 1, spec |-> s, status |-> NewStatus])
  /\ UNCHANGED <<cli, deletes>>

(* frkrctl user create gives no password and waits for the Secret.          *)
CreateByCommand(k) ==
  /\ k \in Commands \ awaiting
  /\ api[k] = Absent
  /\ \E t \in Tenants :
       Store(k, [uid |-> edits + 1, spec |-> [tenant |-> t, password |-> Unset], status |-> NewStatus])
  /\ awaiting' = awaiting \cup {k} /\ shown' = shown \ {k}
  /\ UNCHANGED <<revoked, deletes>>

EditSpec(k, s) ==
  /\ api[k] # Absent
  /\ Store(k, [api[k] EXCEPT !.spec = s])
  /\ revoked' = [revoked EXCEPT ![k] = Unset]
  /\ UNCHANGED <<awaiting, shown, deletes>>

(* frkrctl user reset-password clears the password of the spec.  When it is *)
(* empty already the update changes nothing and queues nothing: the command *)
(* says "Password reset", and that is no step of the system.                *)
ResetPassword(k) ==
  /\ api[k] # Absent
  /\ Store(k, [api[k] EXCEPT !.spec.password = Unset])
  /\ revoked' = [revoked EXCEPT ![k] = api[k].spec.password]
  /\ UNCHANGED <<awaiting, shown, deletes>>

DeleteObject(k) ==
  /\ api[k] # Absent
  /\ deletes < MaxDeletes
  /\ Store(k, Absent)
  /\ deletes' = deletes + 1
  /\ revoked' = [revoked EXCEPT ![k] = Unset]
  /\ UNCHANGED <<awaiting, shown>>

UserEdit ==
  /\ edits < MaxEdits
  /\ edits' = edits + 1
  /\ \E k \in Keys : \/ \E s \in Wish : CreateObject(k, s) \/ EditSpec(k, s)
                     \/ CreateByCommand(k)
                     \/ ResetPassword(k)
                     \/ DeleteObject(k)
  /\ UNCHANGED <<secretVars, dbVars, pc, chosen>>

(* The command asks for the Secret once a second and prints what it finds;  *)
(* a failed Get means asking again.                                         *)
PollPassword(k) ==
  /\ k \in awaiting
  /\ secrets[k] # NoSecret
  /\ awaiting' = awaiting \ {k} /\ shown' = shown \cup {k}
  /\ UNCHANGED <<runtimeVars, secretVars, dbVars, pc, chosen, revoked, edits, deletes>>

TimeOut(k) ==
  /\ k \in awaiting
  /\ awaiting' = awaiting \ {k}
  /\ UNCHANGED <<runtimeVars, secretVars, dbVars, pc, chosen, shown, revoked, edits, deletes>>

GarbageCollect ==
  /\ \E k \in Keys : CollectSecret(k)
  /\ UNCHANGED <<runtimeVars, dbVars, pc, chosen, outside>>

-----------------------------------------------------------------------------
(* The reconciler. *)
Copies == {api[k] : k \in Keys} \cup {cache[r][k] : r \in Replicas, k \in Keys}
          \cup {held[r].obj : r \in Replicas}
SecretCopies == {secrets[k] : k \in Keys} \cup {secretCache[r][k] : r \in Replicas, k \in Keys}

InUse(v) ==
  \/ \E w \in Row : users[w] = v
  \/ \E r \in Replicas : chosen[r] = v
  \/ \E o \in Copies \ {Absent} : o.status.password = v
  \/ \E s \in SecretCopies \ {NoSecret} : s.data = v

(* GeneratePassword.  Which of the free values it is makes no difference.   *)
NewValue == CHOOSE v \in Generated : ~InUse(v)

Choose(r, k) ==
  LET given == cache[r][k].spec.password
  IN \/ given # Unset /\ chosen' = [chosen EXCEPT ![r] = given]
     \/ /\ given = Unset
        /\ \E v \in Generated : ~InUse(v)
        /\ chosen' = [chosen EXCEPT ![r] = NewValue]

StartReconcile(r) ==
  /\ \/ \E k \in Keys : Fetch(r, k) /\ Choose(r, k) /\ GoTo(r, "EnsureTenant")
     \/ \E k \in Keys : FetchMissing(r, k) /\ UNCHANGED <<pc, chosen>>
  /\ UNCHANGED <<secretVars, dbVars, outside>>

End(r) ==
  /\ GoTo(r, "idle")
  /\ chosen' = [chosen EXCEPT ![r] = Unset]

(* Every error is returned: the key is queued again and nothing is stored.  *)
ReturnError(r) == NothingStored(r) /\ Requeue(r) /\ End(r)

WithoutDatabase(r) ==
  /\ AtStage(r, "EnsureTenant")
  /\ r \in Disconnected
  /\ GoTo(r, "ApplySecret")
  /\ UNCHANGED <<runtimeVars, secretVars, dbVars, chosen, outside>>

EnsureTenant(r) ==
  /\ AtStage(r, "EnsureTenant")
  /\ r \notin Disconnected
  /\ tenants' = tenants \cup {Wanted(r).tenant}
  /\ GoTo(r, "EnsureUser")
  /\ UNCHANGED <<runtimeVars, secretVars, users, chosen, outside>>

EnsureTenantFails(r) ==
  /\ AtStage(r, "EnsureTenant")
  /\ r \notin Disconnected
  /\ tenants' \in {tenants, tenants \cup {Wanted(r).tenant}}
  /\ ReturnError(r)
  /\ UNCHANGED <<secretVars, users, outside>>

(* The row is inserted, or there is one and CreateUser keeps or replaces it. *)
WriteUser(r) ==
  LET written == [users EXCEPT ![RowOf(r)] = chosen[r]]
  IN \/ users[RowOf(r)] = Unset /\ users' = written
     \/ users[RowOf(r)] # Unset /\ "replace" \in OnExisting /\ users' = written
     \/ users[RowOf(r)] # Unset /\ "keep" \in OnExisting /\ users' = users

(* Fault: the error of EnsureUser is ignored.                               *)
EnsureUserUnchecked(r) ==
  /\ AtStage(r, "EnsureUser")
  /\ WriteUser(r) \/ users' = users
  /\ GoTo(r, "ApplySecret")
  /\ UNCHANGED <<runtimeVars, secretVars, tenants, chosen, outside>>

EnsureUser(r) ==
  /\ AtStage(r, "EnsureUser")
  /\ WriteUser(r)
  /\ GoTo(r, "ApplySecret")
  /\ UNCHANGED <<runtimeVars, secretVars, tenants, chosen, outside>>

(* "already exists" where CreateUser refuses an existing row; an error of   *)
(* the database before or after the row is written.                         *)
EnsureUserFails(r) ==
  /\ AtStage(r, "EnsureUser")
  /\ WriteUser(r) \/ users' = users
  /\ ReturnError(r)
  /\ UNCHANGED <<secretVars, tenants, outside>>

(* Fault: a Secret that exists is left as it is.                            *)
WriteSecretOnce(r) ==
  LET k == held[r].key
  IN \/ CreateSecret(r, k, held[r].obj.uid, chosen[r])
     \/ secretCache[r][k] # NoSecret /\ UNCHANGED secretVars

WriteSecret(r) == ApplySecret(r, held[r].key, held[r].obj.uid, chosen[r])

PersistSecret(r) ==
  /\ AtStage(r, "ApplySecret")
  /\ WriteSecret(r)
  /\ GoTo(r, "UpdateStatus")
  /\ UNCHANGED <<runtimeVars, dbVars, chosen, outside>>

(* Fault: the error of Create and Update is ignored.                        *)
PersistSecretUnchecked(r) ==
  /\ AtStage(r, "ApplySecret")
  /\ WriteSecret(r) \/ UNCHANGED secretVars
  /\ GoTo(r, "UpdateStatus")
  /\ UNCHANGED <<runtimeVars, dbVars, chosen, outside>>

(* AlreadyExists, a conflict, an unreachable API server, a lost reply.      *)
PersistSecretFails(r) ==
  /\ AtStage(r, "ApplySecret")
  /\ WriteSecret(r) \/ UNCHANGED secretVars
  /\ ReturnError(r)
  /\ UNCHANGED <<dbVars, outside>>

(* Fault: every reconcile publishes its password.                           *)
ActiveObjectOverwriting(r) ==
  [held[r].obj EXCEPT !.status =
     [password |-> chosen[r],
      passwordGenerated |-> held[r].obj.status.passwordGenerated \/ Wanted(r).password = Unset]]

(* The status keeps the first password it was given.                        *)
ActiveObject(r) ==
  LET old == held[r].obj.status
  IN [held[r].obj EXCEPT !.status =
        [password |-> IF old.password = Unset THEN chosen[r] ELSE old.password,
         passwordGenerated |-> old.passwordGenerated \/ Wanted(r).password = Unset]]

UpdateStatus(r) ==
  /\ AtStage(r, "UpdateStatus")
  /\ StatusStored(r, ActiveObject(r))
  /\ Done(r)
  /\ End(r)
  /\ UNCHANGED <<secretVars, dbVars, outside>>

UpdateStatusFails(r) ==
  /\ AtStage(r, "UpdateStatus")
  /\ StatusStored(r, ActiveObject(r)) \/ NothingStored(r)
  /\ Requeue(r)
  /\ End(r)
  /\ UNCHANGED <<secretVars, dbVars, outside>>

Reconcile(r) ==
  \/ StartReconcile(r)
  \/ WithoutDatabase(r)
  \/ EnsureTenant(r) \/ EnsureTenantFails(r)
  \/ EnsureUser(r)   \/ EnsureUserFails(r)
  \/ PersistSecret(r) \/ PersistSecretFails(r)
  \/ UpdateStatus(r) \/ UpdateStatusFails(r)

Watch(r, k) ==
  /\ Sync(r, k)
  /\ UNCHANGED <<secretVars, dbVars, pc, chosen, outside>>

WatchSecret(r, k) ==
  /\ SyncSecret(r, k)
  /\ UNCHANGED <<runtimeVars, dbVars, pc, chosen, outside>>

(* Fault: the password chosen outlives the process.                         *)
RestartMidway(r) ==
  /\ RestartRuntime(r) /\ RestartSecrets(r)
  /\ GoTo(r, "idle")
  /\ UNCHANGED <<dbVars, chosen, outside>>

Restart(r) ==
  /\ RestartRuntime(r)
  /\ RestartSecrets(r)
  /\ End(r)
  /\ UNCHANGED <<dbVars, outside>>

Next ==
  \/ UserEdit \/ GarbageCollect
  \/ \E k \in Keys : PollPassword(k) \/ TimeOut(k)
  \/ \E r \in Replicas, k \in Keys : Watch(r, k) \/ WatchSecret(r, k)
  \/ \E r \in Replicas : Reconcile(r) \/ Restart(r)

Spec == Init /\ [][Next]_vars

(* As for streams: the process keeps working, and a call that is retried    *)
(* for ever for an up-to-date copy succeeds in the end.                     *)
Turn(r, k) == synced[r][k] /\ k \in queue[r] /\ StartReconcile(r) /\ k \notin queue'[r]
WorkingOn(r, k) == held[r].current /\ held[r].key = k

Fairness ==
  \A r \in Replicas :
    /\ WF_vars(Reconcile(r))
    /\ \A k \in Keys : /\ WF_vars(Watch(r, k))
                       /\ WF_vars(WatchSecret(r, k))
                       /\ SF_vars(Turn(r, k))
                       /\ SF_vars(WorkingOn(r, k) /\ EnsureTenant(r))
                       /\ SF_vars(WorkingOn(r, k) /\ EnsureUser(r))
                       /\ SF_vars(WorkingOn(r, k) /\ PersistSecret(r))
                       /\ SF_vars(WorkingOn(r, k) /\ UpdateStatus(r))

FairSpec == Spec /\ Fairness

-----------------------------------------------------------------------------
AtRest(k) == api[k] # Absent /\ \A r \in Replicas : Quiescent(r, k)
CurrentRow(k) == [tenant |-> api[k].spec.tenant, username |-> k]

(* user_types.go:29-30: the password of the status is populated only once,  *)
(* when the user is created.  A process that has not seen it yet generates  *)
(* another one, and must not publish it.                                    *)
PopulatedOnce ==
  [][\A k \in Keys :
       (/\ api[k] # Absent /\ api'[k] # Absent /\ api'[k].uid = api[k].uid
        /\ api[k].status.password # Unset)
       => api'[k].status.password = api[k].status.password]_vars

(* A published password has a database row of the user behind it.           *)
ActiveIsBacked ==
  \A k \in Keys :
    api[k] # Absent /\ api[k].status.password # Unset =>
      \E t \in tenants : users[[tenant |-> t, username |-> k]] # Unset

(* When the work about a user is done, a password that the spec provides is *)
(* the one in the Secret (user_controller_test.go:163 "should update the    *)
(* secret when password changes"), also when several processes with         *)
(* different copies of the spec have written it.                            *)
ProvidedPasswordWins ==
  \A k \in Keys :
    AtRest(k) /\ api[k].spec.password # Unset /\ secrets[k] # NoSecret =>
      secrets[k].data = api[k].spec.password

(* When the work about a user is done the status shows a password and the   *)
(* Secret exists, not to be collected while the user exists.                *)
SecretAtRest ==
  \A k \in Keys :
    AtRest(k) => api[k].status.password # Unset /\ secrets[k] # NoSecret /\ Owned(k)

(* When the work about a user is done, the database and the Secret have the *)
(* same password, whatever call failed between the two writes.              *)
DatabaseMatchesSecret ==
  \A k \in Keys : AtRest(k) /\ secrets[k] # NoSecret => users[CurrentRow(k)] = secrets[k].data

(* user.go:94 prints "status: active" with the password: then the database  *)
(* has accepted the user, whichever reconcile the password came from.       *)
PrintedMeansActive ==
  \A k \in shown : \E t \in tenants : users[[tenant |-> t, username |-> k]] # Unset

(* frkrctl user reset-password of a user whose spec HAS a password (user.go *)
(* :176): when the work about the user is done, that password is neither in *)
(* the Secret nor in the database, whatever reconcile was writing it at the *)
(* moment of the reset and whatever has failed or crashed since.  Of a user *)
(* without a spec password the command replaces nothing.                    *)
ProvidedPasswordRevoked ==
  \A k \in Keys :
    AtRest(k) /\ revoked[k] # Unset =>
      secrets[k].data # revoked[k] /\ users[CurrentRow(k)] # revoked[k]

(* Every user gets a status and a Secret, however often calls fail and      *)
(* processes crash.                                                         *)
EventuallyActive ==
  \A k \in Keys :
    []<>(api[k] # Absent => api[k].status.password # Unset /\ secrets[k] # NoSecret)

-----------------------------------------------------------------------------
(* README.md:59 "User provisioning with password generation (one-time       *)
(* display in status)": the generated password the status displays is the   *)
(* one in the Secret.                                                       *)
StatusShowsPassword ==
  \A k \in Keys :
    (/\ api[k] # Absent
     /\ api[k].spec.password = Unset
     /\ api[k].status.password \in Generated
     /\ secrets[k] # NoSecret)
    => secrets[k].data = api[k].status.password
=============================================================================
