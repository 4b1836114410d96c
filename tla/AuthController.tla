--------------------------- MODULE AuthController ---------------------------
(***************************************************************************)
(* AuthConfigReconciler (internal/controller/auth_controller.go): when the *)
(* type of a FrkrAuthConfig leaves basic, every FrkrUser is deleted.  The  *)
(* type that the last reconcile handled is status.PreviousType; Phase is   *)
(* "Active" exactly when it is set, and is left out.                       *)
(*                                                                         *)
(* The list of users comes from an informer copy; errors of the List and   *)
(* of each Delete are logged and dropped.  A user is only a name here, and *)
(* Delete goes by the name.                                                *)
(***************************************************************************)
EXTENDS ControllerRuntime, Naturals

CONSTANTS
  Users,     \* names of FrkrUsers
  NoType,    \* the empty PreviousType
  MaxEdits   \* bound on what administrators do

Types  == {"basic", "oidc", "composite"}
Object == [type : Types, previousType : Types \cup {NoType}]

ASSUME AuthAssumption == MaxEdits \in Nat /\ NoType \notin Types /\ Absent \notin Object

VARIABLES
  users,     \* the FrkrUsers that exist
  userSeen,  \* the informer copy of them in each process
  pc,        \* pc[r]: the next call of the reconcile in progress
  todo,      \* todo[r]: the users it still has to delete
  known,     \* known[k]: the users that existed, and that every process had
             \* seen, when config k left a recorded basic
  settled,   \* the users created when no work was pending, since when no
             \* config has left basic
  edits

history == <<known, settled>>  \* read by no action
vars == <<runtimeVars, users, userSeen, pc, todo, history, edits>>

TypeOK ==
  /\ RuntimeTypeOK(Object)
  /\ users \subseteq Users
  /\ userSeen \in [Replicas -> SUBSET Users]
  /\ pc \in [Replicas -> {"idle", "ListUsers", "DeleteUsers"}]
  /\ todo \in [Replicas -> SUBSET Users]
  /\ \A r \in Replicas : /\ pc[r] = "idle" <=> held[r].key = NoKey
                         /\ pc[r] # "DeleteUsers" => todo[r] = {}
  /\ known \in [Keys -> SUBSET users]
  /\ settled \subseteq users
  /\ edits \in 0 .. MaxEdits

Init ==
  /\ RuntimeInit
  /\ users = {}
  /\ userSeen = [r \in Replicas |-> {}]
  /\ pc = [r \in Replicas |-> "idle"]
  /\ todo = [r \in Replicas |-> {}]
  /\ known = [k \in Keys |-> {}] /\ settled = {}
  /\ edits = 0

AtStage(r, s) == pc[r] = s
GoTo(r, s) == pc' = [pc EXCEPT ![r] = s]
Edit == edits < MaxEdits /\ edits' = edits + 1
Pending == \E r \in Replicas, k \in Keys : ~Quiescent(r, k)

-----------------------------------------------------------------------------
(* The administrators: configs and users are applied and deleted.           *)
CreateConfig(k, t) ==
  /\ api[k] = Absent
  /\ Store(k, [type |-> t, previousType |-> NoType])
  /\ UNCHANGED history

LeaveBasic(k, t) ==
  /\ api[k] # Absent
  /\ api[k].type = "basic" /\ t # "basic"
  /\ Store(k, [api[k] EXCEPT !.type = t])
  /\ LET affected == IF api[k].previousType = "basic" THEN users ELSE {}
     IN known' = [known EXCEPT ![k] = {u \in affected : \A r \in Replicas : u \in userSeen[r]}]
  /\ settled' = {}

SwitchOtherwise(k, t) ==
  /\ api[k] # Absent
  /\ api[k].type # "basic"
  /\ Store(k, [api[k] EXCEPT !.type = t])
  /\ known' = [known EXCEPT ![k] = IF t = "basic" THEN {} ELSE @]
  /\ UNCHANGED settled

DeleteConfig(k) ==
  /\ api[k] # Absent
  /\ Store(k, Absent)
  /\ known' = [known EXCEPT ![k] = {}]
  /\ UNCHANGED settled

EditConfig ==
  /\ Edit
  /\ \E k \in Keys :
       \/ \E t \in Types : CreateConfig(k, t) \/ LeaveBasic(k, t) \/ SwitchOtherwise(k, t)
       \/ DeleteConfig(k)
  /\ UNCHANGED <<users, userSeen, pc, todo>>

CreateUser(u) ==
  /\ Edit
  /\ u \notin users
  /\ users' = users \cup {u}
  /\ settled' = IF Pending THEN settled ELSE settled \cup {u}
  /\ UNCHANGED <<runtimeVars, userSeen, pc, todo, known>>

(* The user is gone, whoever deleted it.                                    *)
Gone(u) ==
  /\ users' = users \ {u}
  /\ known' = [k \in Keys |-> known[k] \ {u}]
  /\ settled' = settled \ {u}

DeleteUserObject(u) ==
  /\ Edit
  /\ u \in users
  /\ Gone(u)
  /\ UNCHANGED <<runtimeVars, userSeen, pc, todo>>

-----------------------------------------------------------------------------
(* The reconciler. *)

(* Fault: any change of the type counts.                                    *)
AnySwitch(o) == o.previousType # o.type

(* Fault: composite is forgotten.                                           *)
SwitchingToOidc(o) == o.previousType = "basic" /\ o.type = "oidc"

SwitchingAway(o) == o.previousType = "basic" /\ o.type # "basic"

(* Without a switch away from basic there is nothing to delete.             *)
StartReconcile(r) ==
  /\ \/ \E k \in Keys :
          /\ Fetch(r, k)
          /\ GoTo(r, IF SwitchingAway(cache[r][k]) THEN "ListUsers" ELSE "DeleteUsers")
     \/ \E k \in Keys : FetchMissing(r, k) /\ UNCHANGED pc
  /\ UNCHANGED <<users, userSeen, todo, history, edits>>

ListUsers(r) ==
  /\ AtStage(r, "ListUsers")
  /\ todo' = [todo EXCEPT ![r] = userSeen[r]]
  /\ GoTo(r, "DeleteUsers")
  /\ UNCHANGED <<runtimeVars, users, userSeen, history, edits>>

(* The switch counts as handled although no user is deleted.                *)
ListUsersFails(r) ==
  /\ AtStage(r, "ListUsers")
  /\ GoTo(r, "DeleteUsers")
  /\ known' = [k \in Keys |-> {}]
  /\ UNCHANGED <<runtimeVars, users, userSeen, todo, settled, edits>>

DeleteUser(r) ==
  /\ \E u \in todo[r] : Gone(u) /\ todo' = [todo EXCEPT ![r] = @ \ {u}]
  /\ UNCHANGED <<runtimeVars, userSeen, pc, edits>>

(* Refused; the user stays and the loop goes on.                            *)
DeleteUserFails(r) ==
  /\ \E u \in todo[r] : /\ todo' = [todo EXCEPT ![r] = @ \ {u}]
                        /\ known' = [k \in Keys |-> known[k] \ {u}]
  /\ UNCHANGED <<runtimeVars, users, userSeen, pc, settled, edits>>

Recorded(r) == [held[r].obj EXCEPT !.previousType = held[r].obj.type]

Finish(r) ==
  /\ AtStage(r, "DeleteUsers")
  /\ todo[r] = {}
  /\ GoTo(r, "idle")
  /\ UNCHANGED <<users, userSeen, todo, history, edits>>

UpdateStatus(r) == Finish(r) /\ StatusStored(r, Recorded(r)) /\ Done(r)

UpdateStatusFails(r) ==
  /\ Finish(r)
  /\ StatusStored(r, Recorded(r)) \/ NothingStored(r)
  /\ Requeue(r)

Reconcile(r) ==
  \/ StartReconcile(r)
  \/ ListUsers(r) \/ ListUsersFails(r)
  \/ DeleteUser(r) \/ DeleteUserFails(r)
  \/ UpdateStatus(r) \/ UpdateStatusFails(r)

Watch(r, k) == Sync(r, k) /\ UNCHANGED <<users, userSeen, pc, todo, history, edits>>

(* The informer of r catches up with the users: they are watched by another *)
(* controller, so no config is queued.                                      *)
SeeUsers(r) ==
  /\ userSeen[r] # users
  /\ userSeen' = [userSeen EXCEPT ![r] = users]
  /\ UNCHANGED <<runtimeVars, users, pc, todo, history, edits>>

(* Fault: the rest of the loop outlives the process.                        *)
RestartMidway(r) ==
  /\ RestartRuntime(r)
  /\ userSeen' = [userSeen EXCEPT ![r] = users]
  /\ GoTo(r, "idle")
  /\ UNCHANGED <<users, todo, history, edits>>

Restart(r) ==
  /\ RestartRuntime(r)
  /\ userSeen' = [userSeen EXCEPT ![r] = users]
  /\ GoTo(r, "idle")
  /\ todo' = [todo EXCEPT ![r] = {}]
  /\ UNCHANGED <<users, history, edits>>

Next ==
  \/ EditConfig
  \/ \E u \in Users : CreateUser(u) \/ DeleteUserObject(u)
  \/ \E r \in Replicas, k \in Keys : Watch(r, k)
  \/ \E r \in Replicas : SeeUsers(r) \/ Reconcile(r) \/ Restart(r)

Spec == Init /\ [][Next]_vars

-----------------------------------------------------------------------------
AtRest(k) == api[k] # Absent /\ \A r \in Replicas : Quiescent(r, k)

(* When the work about a config is done its type has been handled and       *)
(* recorded: a conflict, a crash or a second process never loses a switch.  *)
RecordedAtRest == \A k \in Keys : AtRest(k) => api[k].previousType = api[k].type

(* When the work about a switch away from a recorded basic is done, the     *)
(* users that existed and that every process had seen are deleted, unless   *)
(* the List or their own Delete failed: a conflict with another process, a  *)
(* crash between the deletions and the record, or a further switch spares   *)
(* none of them.                                                            *)
KnownUsersDeleted ==
  \A k \in Keys : AtRest(k) /\ api[k].type # "basic" => known[k] = {}

(* A user created when no work was pending stays until a config leaves      *)
(* basic or an administrator deletes it: a switch that is handled deletes   *)
(* no user made after it, also by a second process or after a restart.      *)
SettledUsersStay ==
  [][\A u \in settled : u \notin users' => edits' # edits]_vars

=============================================================================
