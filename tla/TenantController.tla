-------------------------- MODULE TenantController --------------------------
(***************************************************************************)
(* TenantReconciler (internal/controller/tenant_controller.go) and the     *)
(* command frkrctl tenant create (cmd/frkrctl/tenant.go), which waits for  *)
(* the ID that the reconciler publishes and prints it.  A tenant row has a *)
(* name and an ID made by the database; other resources refer to a tenant  *)
(* by one or the other.                                                    *)
(*                                                                         *)
(* Phase becomes "Ready" with the first ID and stays, so the status is the *)
(* ID.  The plan of a tenant is payload.                                   *)
(***************************************************************************)
EXTENDS ControllerRuntime, Naturals

CONSTANTS
  Names,    \* what a tenant can be called, the names of the objects included
  Unnamed,  \* the empty name of a spec
  Ids,      \* IDs that the database can make
  NoId,     \* the empty ID of a new status, and the ID of a missing row
  MaxEdits  \* bound on the creations, edits and deletions by administrators

Object == [name : Names \cup {Unnamed}, id : Ids \cup {NoId}]

ASSUME TenantAssumption ==
  /\ Keys \subseteq Names
  /\ NoId \notin Ids
  /\ Absent \notin Object
  /\ MaxEdits \in Nat

VARIABLES
  rows,       \* rows[n]: the ID of the tenant row named n
  pc,         \* pc[r]: the next call of the reconcile in progress
  ensured,    \* ensured[r]: the ID that EnsureTenant returned to it
  waiting,    \* the tenants whose ID a frkrctl tenant create waits for
  printed,    \* printed[k]: the ID that the last such command printed
  untouched,  \* the tenants nobody edited since such a command made them
  edits

cli == <<waiting, printed, untouched>>
vars == <<runtimeVars, rows, pc, ensured, cli, edits>>

TypeOK ==
  /\ RuntimeTypeOK(Object)
  /\ rows \in [Names -> Ids \cup {NoId}]
  /\ pc \in [Replicas -> {"idle", "EnsureTenant", "UpdateStatus"}]
  /\ ensured \in [Replicas -> Ids \cup {NoId}]
  /\ \A r \in Replicas : /\ pc[r] = "idle" <=> held[r].key = NoKey
                         /\ pc[r] = "UpdateStatus" <=> ensured[r] # NoId
  /\ waiting \subseteq Keys
  /\ printed \in [Keys -> Ids \cup {NoId}]
  /\ untouched \subseteq Keys
  /\ edits \in 0 .. MaxEdits

Init ==
  /\ RuntimeInit
  /\ rows = [n \in Names |-> NoId]
  /\ pc = [r \in Replicas |-> "idle"]
  /\ ensured = [r \in Replicas |-> NoId]
  /\ waiting = {} /\ printed = [k \in Keys |-> NoId] /\ untouched = {}
  /\ edits = 0

Issued == {rows[n] : n \in Names} \ {NoId}
AtStage(r, s) == pc[r] = s
GoTo(r, s) == pc' = [pc EXCEPT ![r] = s]

(* Fault: a row of that name is not looked for.                             *)
EnsureRowAnew(n) == \E i \in Ids \ Issued : rows' = [rows EXCEPT ![n] = i]

(* CreateOrGetTenant: the row of that name; a new one gets an unused ID.    *)
EnsureRow(n) ==
  \/ rows[n] # NoId /\ rows' = rows
  \/ rows[n] = NoId /\ \E i \in Ids \ Issued : rows' = [rows EXCEPT ![n] = i]

-----------------------------------------------------------------------------
(* The administrators. *)
CreateByCommand(k) ==
  /\ api[k] = Absent
  /\ k \notin waiting
  /\ Store(k, [name |-> k, id |-> NoId])
  /\ waiting' = waiting \cup {k}
  /\ printed' = [printed EXCEPT ![k] = NoId]
  /\ untouched' = untouched \cup {k}

Apply(k, n) ==
  /\ Store(k, [name |-> n, id |-> IF api[k] = Absent THEN NoId ELSE api[k].id])
  /\ untouched' = untouched \ {k}

DeleteTenant(k) ==
  /\ api[k] # Absent
  /\ Store(k, Absent)
  /\ untouched' = untouched \ {k}

AdminEdit ==
  /\ edits < MaxEdits
  /\ edits' = edits + 1
  /\ \E k \in Keys :
       \/ CreateByCommand(k)
       \/ /\ DeleteTenant(k) \/ \E n \in Names \cup {Unnamed} : Apply(k, n)
          /\ UNCHANGED <<waiting, printed>>
  /\ UNCHANGED <<rows, pc, ensured>>

(* The command asks the API server once a second; a failed Get and an empty *)
(* ID mean asking again.                                                    *)
PollID(k) ==
  /\ k \in waiting
  /\ api[k] # Absent /\ api[k].id # NoId
  /\ printed' = [printed EXCEPT ![k] = api[k].id]
  /\ waiting' = waiting \ {k}
  /\ UNCHANGED <<runtimeVars, rows, pc, ensured, untouched, edits>>

TimeOut(k) ==
  /\ k \in waiting
  /\ waiting' = waiting \ {k}
  /\ UNCHANGED <<runtimeVars, rows, pc, ensured, printed, untouched, edits>>

(* Users and streams give the name of their tenant to EnsureTenant too.     *)
EnsureElsewhere(n) ==
  /\ rows[n] = NoId /\ EnsureRow(n)
  /\ UNCHANGED <<runtimeVars, pc, ensured, cli, edits>>

-----------------------------------------------------------------------------
(* The reconciler. *)
NameOf(k, o) == IF o.name = Unnamed THEN k ELSE o.name
Wanted(r) == NameOf(held[r].key, held[r].obj)

StartReconcile(r) ==
  /\ \/ \E k \in Keys : Fetch(r, k) /\ GoTo(r, "EnsureTenant")
     \/ \E k \in Keys : FetchMissing(r, k) /\ UNCHANGED pc
  /\ UNCHANGED <<rows, ensured, cli, edits>>

EnsureTenant(r) ==
  /\ AtStage(r, "EnsureTenant")
  /\ EnsureRow(Wanted(r))
  /\ ensured' = [ensured EXCEPT ![r] = rows'[Wanted(r)]]
  /\ GoTo(r, "UpdateStatus")
  /\ UNCHANGED <<runtimeVars, cli, edits>>

End(r) ==
  /\ GoTo(r, "idle")
  /\ ensured' = [ensured EXCEPT ![r] = NoId]

(* The call fails before or after the row is made; the error is returned.   *)
EnsureTenantFails(r) ==
  /\ AtStage(r, "EnsureTenant")
  /\ EnsureRow(Wanted(r)) \/ rows' = rows
  /\ NothingStored(r) /\ Requeue(r) /\ End(r)
  /\ UNCHANGED <<cli, edits>>

(* Fault: any ID in the status will do.                                     *)
HasSomeID(r) == held[r].obj.id # NoId

(* The status is written only when the copy read shows another ID.          *)
HasID(r) == held[r].obj.id = ensured[r]

NothingToUpdate(r) ==
  /\ AtStage(r, "UpdateStatus")
  /\ HasID(r)
  /\ NothingStored(r) /\ Done(r) /\ End(r)
  /\ UNCHANGED <<rows, cli, edits>>

Publish(r) == ~HasID(r) /\ StatusStored(r, [held[r].obj EXCEPT !.id = ensured[r]])

UpdateStatus(r) ==
  /\ AtStage(r, "UpdateStatus")
  /\ Publish(r) /\ Done(r) /\ End(r)
  /\ UNCHANGED <<rows, cli, edits>>

UpdateStatusFails(r) ==
  /\ AtStage(r, "UpdateStatus")
  /\ Publish(r) \/ (~HasID(r) /\ NothingStored(r))
  /\ Requeue(r) /\ End(r)
  /\ UNCHANGED <<rows, cli, edits>>

Reconcile(r) ==
  \/ StartReconcile(r)
  \/ EnsureTenant(r) \/ EnsureTenantFails(r)
  \/ NothingToUpdate(r) \/ UpdateStatus(r) \/ UpdateStatusFails(r)

Watch(r, k) == Sync(r, k) /\ UNCHANGED <<rows, pc, ensured, cli, edits>>

(* Fault: the reconcile outlives the process.                               *)
RestartMidway(r) == RestartRuntime(r) /\ UNCHANGED <<rows, pc, ensured, cli, edits>>

Restart(r) ==
  /\ RestartRuntime(r)
  /\ End(r)
  /\ UNCHANGED <<rows, cli, edits>>

Step ==
  \/ AdminEdit
  \/ \E k \in Keys : PollID(k) \/ TimeOut(k)
  \/ \E n \in Names : EnsureElsewhere(n)
  \/ \E r \in Replicas, k \in Keys : Watch(r, k)
  \/ \E r \in Replicas : Reconcile(r)

Next == Step \/ \E r \in Replicas : Restart(r)

Spec == Init /\ [][Next]_vars

(* As for streams: the process keeps working, and a call that is retried    *)
(* for ever for an up-to-date copy succeeds in the end.                     *)
Turn(r, k) == synced[r][k] /\ k \in queue[r] /\ StartReconcile(r) /\ k \notin queue'[r]
WorkingOn(r, k) == held[r].current /\ held[r].key = k

Fairness ==
  \A r \in Replicas :
    /\ WF_vars(Reconcile(r))
    /\ \A k \in Keys : /\ WF_vars(Watch(r, k))
                       /\ SF_vars(Turn(r, k))
                       /\ SF_vars(WorkingOn(r, k) /\ EnsureTenant(r))
                       /\ SF_vars(WorkingOn(r, k) /\ UpdateStatus(r))

-----------------------------------------------------------------------------
HasItsID(k) == api[k].id # NoId /\ api[k].id = rows[NameOf(k, api[k])]

(* When a process has nothing left to do about a tenant, the tenant shows   *)
(* the ID of the row of its present name: no failure, conflict, crash or    *)
(* second process loses an edit of the name, although a reconcile that      *)
(* finds the ID in the copy it read writes nothing and compares no version. *)
IdAtRest ==
  \A r \in Replicas, k \in Keys : api[k] # Absent /\ Quiescent(r, k) => HasItsID(k)

(* A tenant is brought to the ID of its name again and again, however often *)
(* calls fail and processes crash.                                          *)
EventuallyPublished == \A k \in Keys : []<>(api[k] # Absent => HasItsID(k))

(* The ID that tenant create prints is the one of the row of the name it    *)
(* was given, unless somebody else edited the tenant since: a reconcile of  *)
(* an earlier tenant of that object name, which had another name in the     *)
(* spec, cannot put its ID there.                                           *)
PrintedIsItsOwn == \A k \in untouched : printed[k] \in {NoId, rows[k]}

(* The tenant controller keeps the promise of Provisioning: an ID is        *)
(* published, as a stream is, only when what it stands for exists.          *)
Claims == [k \in Keys |-> IF api[k] = Absent THEN NoId ELSE api[k].id]

Promise == INSTANCE Provisioning WITH
  Targets <- Ids, None <- NoId, Resource <- Ids,
  Requires <- [i \in Ids |-> {}], Needs <- [i \in Ids |-> {i}],
  made <- Issued, claim <- Claims

ImplementsProvisioning == Promise!Spec
=============================================================================
