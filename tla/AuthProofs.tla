----------------------------- MODULE AuthProofs -----------------------------
(***************************************************************************)
(* Theorems about AuthController, for every set of processes, configs and  *)
(* users, and any number of edits.                                         *)
(***************************************************************************)
EXTENDS AuthController, RuntimeProofs

(* Types, and that a copy marked up to date is the stored object.           *)
AInv == TypeOK /\ CopiesAreCurrent

(* Until a switch is recorded its config still shows it; the users known    *)
(* then are in every informer copy, and the reconcile that may record the   *)
(* switch still has them to delete.                                         *)
KnownShown == \A k \in Keys : known[k] # {} => api[k] # Absent /\ SwitchingAway(api[k])
KnownSeen  == \A r \in Replicas, k \in Keys : known[k] \subseteq userSeen[r]
KnownToDo  ==
  \A r \in Replicas, k \in Keys :
    held[r].key = k /\ held[r].current /\ pc[r] = "DeleteUsers" => known[k] \subseteq todo[r]
KnownInv == KnownShown /\ KnownSeen /\ KnownToDo

(* Nobody is about to delete users: no copy of a config shows a switch.     *)
Plain == {o \in Object : ~SwitchingAway(o)}
Calm  == CopiesIn(Plain) /\ \A r \in Replicas : pc[r] # "ListUsers" /\ todo[r] = {}
SettledInv == settled # {} => Calm

-----------------------------------------------------------------------------
(* The steps, and what they do to the runtime. *)
Ending(r) == UpdateStatus(r) \/ UpdateStatusFails(r)

LEMMA StepKinds ==
  ASSUME [Next]_vars
  PROVE  \/ UNCHANGED vars
         \/ EditConfig
         \/ \E u \in Users : CreateUser(u) \/ DeleteUserObject(u)
         \/ \E r \in Replicas, k \in Keys : Watch(r, k)
         \/ \E r \in Replicas :
              \/ SeeUsers(r) \/ StartReconcile(r) \/ ListUsers(r) \/ ListUsersFails(r)
              \/ DeleteUser(r) \/ DeleteUserFails(r) \/ Ending(r) \/ Restart(r)
BY DEF Next, Reconcile, Ending

LEMMA EndingKinds ==
  ASSUME AInv, NEW r \in Replicas, Ending(r)
  PROVE  /\ held[r].key \in Keys /\ held[r].obj \in Object
         /\ Recorded(r) \in Object
         /\ Recorded(r).type = held[r].obj.type /\ Recorded(r).previousType = held[r].obj.type
         /\ Ends(r, Recorded(r))
         /\ pc[r] = "DeleteUsers" /\ todo[r] = {} /\ GoTo(r, "idle")
         /\ UNCHANGED <<users, userSeen, todo, history, edits>>
<1>1. /\ pc[r] = "DeleteUsers" /\ todo[r] = {} /\ GoTo(r, "idle")
      /\ UNCHANGED <<users, userSeen, todo, history, edits>>
  BY DEF Ending, UpdateStatus, UpdateStatusFails, Finish, AtStage
<1>2. held[r].key \in Keys /\ held[r].obj \in Object
  BY <1>1 DEF AInv, TypeOK, RuntimeTypeOK
<1>3. /\ Recorded(r) \in Object
      /\ Recorded(r).type = held[r].obj.type /\ Recorded(r).previousType = held[r].obj.type
  BY <1>2 DEF Recorded, Object
<1>4. Ends(r, Recorded(r))
  BY <1>2 DEF Ending, UpdateStatus, UpdateStatusFails, Ends
<1>5. QED BY <1>1, <1>2, <1>3, <1>4

(* The edit of a config stores an object or deletes it. *)
LEMMA EditStores ==
  ASSUME AInv, EditConfig
  PROVE  \E k \in Keys, o \in Object \cup {Absent} : Store(k, o)
<1>1. ASSUME NEW k \in Keys, NEW t \in Types, CreateConfig(k, t)
      PROVE  \E o \in Object : Store(k, o)
  <2>1. [type |-> t, previousType |-> NoType] \in Object
    BY DEF Object
  <2>2. QED BY <1>1, <2>1 DEF CreateConfig
<1>2. ASSUME NEW k \in Keys, NEW t \in Types, LeaveBasic(k, t) \/ SwitchOtherwise(k, t)
      PROVE  \E o \in Object : Store(k, o)
  <2>1. api[k] \in Object
    BY <1>2 DEF LeaveBasic, SwitchOtherwise, AInv, TypeOK, RuntimeTypeOK
  <2>2. [api[k] EXCEPT !.type = t] \in Object
    BY <2>1 DEF Object
  <2>3. QED BY <1>2, <2>2 DEF LeaveBasic, SwitchOtherwise
<1>3. ASSUME NEW k \in Keys, DeleteConfig(k)
      PROVE  Store(k, Absent)
  BY <1>3 DEF DeleteConfig
<1>4. QED BY <1>1, <1>2, <1>3 DEF EditConfig

LEMMA RuntimeStep ==
  ASSUME AInv, [Next]_vars
  PROVE  RuntimeInv(Object) /\ RuntimeNext(Object)
<1>1. RuntimeInv(Object)
  BY DEF AInv, TypeOK, RuntimeInv
<1>2. CASE UNCHANGED vars
  BY <1>1, <1>2 DEF vars, runtimeVars, RuntimeNext
<1>3. CASE EditConfig
  BY <1>1, <1>3, EditStores DEF RuntimeNext
<1>4. CASE \E u \in Users : CreateUser(u) \/ DeleteUserObject(u)
  BY <1>1, <1>4 DEF CreateUser, DeleteUserObject, RuntimeNext
<1>5. CASE \E r \in Replicas, k \in Keys : Watch(r, k)
  BY <1>1, <1>5 DEF Watch, RuntimeNext
<1>6. CASE \E r \in Replicas : \/ SeeUsers(r) \/ ListUsers(r) \/ ListUsersFails(r)
                               \/ DeleteUser(r) \/ DeleteUserFails(r)
  BY <1>1, <1>6 DEF SeeUsers, ListUsers, ListUsersFails, DeleteUser, DeleteUserFails, RuntimeNext
<1>7. CASE \E r \in Replicas : StartReconcile(r)
  BY <1>1, <1>7 DEF StartReconcile, RuntimeNext
<1>8. CASE \E r \in Replicas : Ending(r)
  BY <1>1, <1>8, EndingKinds DEF RuntimeNext
<1>9. CASE \E r \in Replicas : Restart(r)
  BY <1>1, <1>9 DEF Restart, RuntimeNext
<1>10. QED BY <1>2, <1>3, <1>4, <1>5, <1>6, <1>7, <1>8, <1>9, StepKinds

(* What the end of a reconcile does to the runtime. *)
LEMMA EndingEffect ==
  ASSUME AInv, NEW r \in Replicas, Ending(r)
  PROVE  /\ held'[r] = NotHeld
         /\ \A q \in Replicas \ {r} : held'[q].key = held[q].key /\ held'[q].obj = held[q].obj
         /\ UNCHANGED cache
         /\ \A q \in Replicas, j \in Keys :
              /\ synced'[q][j] => synced[q][j]
              /\ j \in queue[q] => j \in queue'[q]
         /\ \/ api' = api
            \/ held[r].current /\ api' = [api EXCEPT ![held[r].key] = Recorded(r)]
<1>1. RuntimeInv(Object) /\ Recorded(r) \in Object /\ Ends(r, Recorded(r))
  BY EndingKinds DEF AInv, TypeOK, RuntimeInv
<1>2. /\ held'[r] = NotHeld
      /\ \A q \in Replicas \ {r} : held'[q].key = held[q].key /\ held'[q].obj = held[q].obj
      /\ UNCHANGED cache
      /\ \A q \in Replicas, j \in Keys :
           /\ synced'[q][j] => synced[q][j]
           /\ j \in queue[q] => j \in queue'[q]
  BY <1>1, EndEffect
<1>3. \/ api' = api
      \/ held[r].current /\ api' = [api EXCEPT ![held[r].key] = Recorded(r)]
  BY <1>1, EndEffect
<1>4. QED BY <1>2, <1>3

-----------------------------------------------------------------------------
(* Types. *)
LEMMA TypeStep ==
  ASSUME AInv, [Next]_vars
  PROVE  AInv'
<1>0. RuntimeInv(Object)'
  BY RuntimeStep, RuntimeStepOK
<1>1. CASE UNCHANGED vars
  BY <1>0, <1>1 DEF RuntimeInv, AInv, TypeOK, vars, runtimeVars, history
<1>2. CASE EditConfig
  <2>1. \A q \in Replicas : held'[q].key = held[q].key
    <3>1. PICK k \in Keys, o \in Object \cup {Absent} : Store(k, o)
      BY <1>2, EditStores
    <3>2. QED BY <3>1 DEF Store, AInv, TypeOK, RuntimeTypeOK
  <2>2. known' \in [Keys -> SUBSET users] /\ settled' \subseteq users
    <3>1. \/ UNCHANGED history
          \/ \E k \in Keys, s \in SUBSET users : known' = [known EXCEPT ![k] = s] /\ settled' \in {{}, settled}
      <4>1. ASSUME NEW k \in Keys, NEW t \in Types, LeaveBasic(k, t)
            PROVE  \E s \in SUBSET users : known' = [known EXCEPT ![k] = s] /\ settled' = {}
        BY <4>1 DEF LeaveBasic
      <4>2. ASSUME NEW k \in Keys, NEW t \in Types, SwitchOtherwise(k, t)
            PROVE  \E s \in SUBSET users : known' = [known EXCEPT ![k] = s] /\ settled' = settled
        BY <4>2 DEF SwitchOtherwise, AInv, TypeOK
      <4>3. QED BY <1>2, <4>1, <4>2 DEF EditConfig, CreateConfig, DeleteConfig
    <3>2. QED BY <3>1 DEF history, AInv, TypeOK
  <2>3. edits' \in 0 .. MaxEdits
    BY <1>2, AuthAssumption DEF EditConfig, Edit, AInv, TypeOK
  <2>4. QED BY <1>0, <1>2, <2>1, <2>2, <2>3 DEF EditConfig, RuntimeInv, AInv, TypeOK
<1>3. ASSUME NEW u \in Users, CreateUser(u)
      PROVE  AInv'
  <2>1. users' \subseteq Users /\ users \subseteq users' /\ settled' \subseteq users'
    BY <1>3 DEF CreateUser, AInv, TypeOK
  <2>2. known' \in [Keys -> SUBSET users']
    BY <1>3, <2>1 DEF CreateUser, AInv, TypeOK
  <2>3. edits' \in 0 .. MaxEdits
    BY <1>3, AuthAssumption DEF CreateUser, Edit, AInv, TypeOK
  <2>4. QED BY <1>0, <1>3, <2>1, <2>2, <2>3 DEF CreateUser, RuntimeInv, AInv, TypeOK, runtimeVars
<1>4. ASSUME NEW u, Gone(u)
      PROVE  users' \subseteq Users /\ known' \in [Keys -> SUBSET users'] /\ settled' \subseteq users'
  BY <1>4 DEF Gone, AInv, TypeOK
<1>5. ASSUME NEW u \in Users, DeleteUserObject(u)
      PROVE  AInv'
  <2>1. edits' \in 0 .. MaxEdits
    BY <1>5, AuthAssumption DEF DeleteUserObject, Edit, AInv, TypeOK
  <2>2. QED BY <1>0, <1>4, <1>5, <2>1 DEF DeleteUserObject, RuntimeInv, AInv, TypeOK, runtimeVars
<1>6. ASSUME NEW r \in Replicas, NEW k \in Keys, Watch(r, k)
      PROVE  AInv'
  BY <1>0, <1>6 DEF Watch, Sync, history, RuntimeInv, AInv, TypeOK
<1>7. ASSUME NEW r \in Replicas, SeeUsers(r)
      PROVE  AInv'
  BY <1>0, <1>7 DEF SeeUsers, history, runtimeVars, RuntimeInv, AInv, TypeOK
<1>8. ASSUME NEW r \in Replicas, StartReconcile(r)
      PROVE  AInv'
  <2>1. PICK k \in Keys : \/ /\ Fetch(r, k)
                             /\ GoTo(r, IF SwitchingAway(cache[r][k]) THEN "ListUsers" ELSE "DeleteUsers")
                          \/ FetchMissing(r, k) /\ UNCHANGED pc
    BY <1>8 DEF StartReconcile
  <2>2. /\ pc' \in [Replicas -> {"idle", "ListUsers", "DeleteUsers"}]
        /\ \A q \in Replicas : /\ pc'[q] = "idle" <=> held'[q].key = NoKey
                               /\ pc'[q] # "DeleteUsers" => todo[q] = {}
    <3>1. CASE Fetch(r, k) /\ GoTo(r, IF SwitchingAway(cache[r][k]) THEN "ListUsers" ELSE "DeleteUsers")
      <4>1. /\ held[r].key = NoKey /\ held'[r].key = k
            /\ \A q \in Replicas \ {r} : held'[q] = held[q]
        BY <3>1 DEF Fetch, AInv, TypeOK, RuntimeTypeOK
      <4>2. /\ pc' \in [Replicas -> {"idle", "ListUsers", "DeleteUsers"}]
            /\ pc'[r] # "idle" /\ \A q \in Replicas \ {r} : pc'[q] = pc[q]
        BY <3>1 DEF GoTo, AInv, TypeOK
      <4>3. QED BY <4>1, <4>2, AbsentAssumption DEF AInv, TypeOK
    <3>2. CASE FetchMissing(r, k) /\ UNCHANGED pc
      BY <3>2 DEF FetchMissing, AInv, TypeOK
    <3>3. QED BY <2>1, <3>1, <3>2
  <2>3. QED BY <1>0, <1>8, <2>2 DEF StartReconcile, history, RuntimeInv, AInv, TypeOK
<1>9. ASSUME NEW r \in Replicas, ListUsers(r) \/ ListUsersFails(r)
      PROVE  AInv'
  BY <1>0, <1>9 DEF ListUsers, ListUsersFails, AtStage, GoTo, history, runtimeVars, RuntimeInv, AInv, TypeOK
<1>10. ASSUME NEW r \in Replicas, DeleteUser(r)
       PROVE  AInv'
  <2>1. /\ todo' \in [Replicas -> SUBSET Users]
        /\ \A q \in Replicas : pc[q] # "DeleteUsers" => todo'[q] = {}
    BY <1>10 DEF DeleteUser, AInv, TypeOK
  <2>2. QED BY <1>0, <1>4, <1>10, <2>1 DEF DeleteUser, runtimeVars, RuntimeInv, AInv, TypeOK
<1>11. ASSUME NEW r \in Replicas, DeleteUserFails(r)
       PROVE  AInv'
  <2>1. /\ todo' \in [Replicas -> SUBSET Users]
        /\ \A q \in Replicas : pc[q] # "DeleteUsers" => todo'[q] = {}
        /\ known' \in [Keys -> SUBSET users]
    BY <1>11 DEF DeleteUserFails, AInv, TypeOK
  <2>2. QED BY <1>0, <1>11, <2>1 DEF DeleteUserFails, runtimeVars, RuntimeInv, AInv, TypeOK
<1>12. ASSUME NEW r \in Replicas, Ending(r)
       PROVE  AInv'
  <2>1. held'[r] = NotHeld
    BY <1>12, EndingEffect
  <2>2. \A q \in Replicas \ {r} : held'[q].key = held[q].key /\ held'[q].obj = held[q].obj
    BY <1>12, EndingEffect
  <2>3. /\ pc' \in [Replicas -> {"idle", "ListUsers", "DeleteUsers"}]
        /\ pc'[r] = "idle" /\ todo[r] = {} /\ \A q \in Replicas \ {r} : pc'[q] = pc[q]
    BY <1>12, EndingKinds DEF GoTo, AInv, TypeOK
  <2>4. QED BY <1>0, <1>12, <2>1, <2>2, <2>3, EndingKinds DEF NotHeld, history, RuntimeInv, AInv, TypeOK
<1>13. ASSUME NEW r \in Replicas, Restart(r)
       PROVE  AInv'
  <2>1. held'[r] = NotHeld /\ \A q \in Replicas \ {r} : held'[q] = held[q]
    BY <1>13 DEF Restart, RestartRuntime, AInv, TypeOK, RuntimeTypeOK
  <2>2. QED BY <1>0, <1>13, <2>1 DEF Restart, GoTo, NotHeld, history, RuntimeInv, AInv, TypeOK
<1>14. QED BY <1>1, <1>2, <1>3, <1>5, <1>6, <1>7, <1>8, <1>9, <1>10, <1>11, <1>12, <1>13, StepKinds

(* Type correctness, and that a copy marked up to date is the stored object. *)
THEOREM TypeCorrect == Spec => [](TypeOK /\ CopiesAreCurrent)
<1>1. Init => AInv
  <2>. SUFFICES ASSUME Init PROVE AInv
    OBVIOUS
  <2>1. RuntimeInv(Object)
    BY RuntimeInitOK DEF Init
  <2>2. QED BY <2>1, AuthAssumption DEF Init, RuntimeInit, NotHeld, AInv, TypeOK, RuntimeInv
<1>2. AInv /\ [Next]_vars => AInv'
  BY TypeStep
<1>3. QED BY <1>1, <1>2, PTL DEF Spec, AInv

-----------------------------------------------------------------------------
(* A switch is never lost. *)

(* A reconcile gives up its config only at its end or when the process      *)
(* crashes.                                                                 *)
LEMMA WorkEnds ==
  ASSUME AInv, [Next]_vars, NEW r \in Replicas, held[r].key \in Keys, held'[r].key # held[r].key
  PROVE  Ending(r) \/ Restart(r)
<1>1. pc[r] # "idle"
  BY AbsentAssumption DEF AInv, TypeOK
<1>2. CASE EditConfig
  <2>1. PICK k \in Keys, o \in Object \cup {Absent} : Store(k, o)
    BY <1>2, EditStores
  <2>2. QED BY <2>1 DEF Store, AInv, TypeOK, RuntimeTypeOK
<1>3. CASE UNCHANGED vars \/ \E u \in Users : CreateUser(u) \/ DeleteUserObject(u)
  BY <1>3 DEF vars, CreateUser, DeleteUserObject, runtimeVars
<1>4. CASE \E q \in Replicas, k \in Keys : Watch(q, k)
  BY <1>4 DEF Watch, Sync
<1>5. CASE \E q \in Replicas : \/ SeeUsers(q) \/ ListUsers(q) \/ ListUsersFails(q)
                               \/ DeleteUser(q) \/ DeleteUserFails(q)
  BY <1>5 DEF SeeUsers, ListUsers, ListUsersFails, DeleteUser, DeleteUserFails, runtimeVars
<1>6. CASE \E q \in Replicas : StartReconcile(q)
  BY <1>6, AbsentAssumption DEF StartReconcile, Fetch, FetchMissing, AInv, TypeOK, RuntimeTypeOK
<1>7. ASSUME NEW q \in Replicas, Ending(q)
      PROVE  Ending(r)
  <2>1. \A p \in Replicas \ {q} : held'[p].key = held[p].key /\ held'[p].obj = held[p].obj
    BY <1>7, EndingEffect
  <2>2. QED BY <1>7, <2>1
<1>8. ASSUME NEW q \in Replicas, Restart(q)
      PROVE  Restart(r)
  BY <1>8 DEF Restart, RestartRuntime, AInv, TypeOK, RuntimeTypeOK
<1>9. QED BY <1>2, <1>3, <1>4, <1>5, <1>6, <1>7, <1>8, StepKinds

LEMMA RecordedStep ==
  ASSUME AInv, RecordedAtRest, [Next]_vars
  PROVE  RecordedAtRest'
<1>. SUFFICES ASSUME NEW k \in Keys, AtRest(k)'
              PROVE  api'[k].previousType = api'[k].type
  BY DEF RecordedAtRest
<1>1. /\ api'[k] # Absent /\ \A r \in Replicas : Quiescent(r, k)'
  BY DEF AtRest
<1>2. /\ api'[k] = api[k]
      /\ \A r \in Replicas : Quiescent(r, k) \/ held[r].key = k
  BY <1>1, RuntimeStep, RestStep, AuthAssumption, ProcessAssumption
<1>3. CASE \A r \in Replicas : Quiescent(r, k)
  BY <1>1, <1>2, <1>3 DEF RecordedAtRest, AtRest
<1>4. ASSUME NEW r \in Replicas, held[r].key = k
      PROVE  api'[k].previousType = api'[k].type
  <2>1. Ending(r) \/ Restart(r)
    BY <1>1, <1>4, WorkEnds DEF Quiescent
  <2>2. k \notin queue'[r]
    BY <1>1 DEF Quiescent
  <2>3. CASE Restart(r)
    BY <1>1, <2>2, <2>3 DEF Restart, RestartRuntime, AInv, TypeOK, RuntimeTypeOK
  <2>4. CASE UpdateStatusFails(r)
    BY <1>4, <2>2, <2>4 DEF UpdateStatusFails, Requeue, AInv, TypeOK, RuntimeTypeOK
  <2>5. CASE UpdateStatus(r)
    <3>1. api'[k] = Recorded(r)
      BY <1>4, <2>5 DEF UpdateStatus, StatusStored, AInv, TypeOK, RuntimeTypeOK
    <3>2. QED BY <2>5, <3>1, EndingKinds DEF Ending
  <2>6. QED BY <2>1, <2>3, <2>4, <2>5 DEF Ending
<1>5. QED BY <1>2, <1>3, <1>4

(* When the work about a config is done its type has been handled and       *)
(* recorded, whatever conflicts, crashes and edits came in between.         *)
THEOREM SwitchRecorded == Spec => []RecordedAtRest
<1>1. Init => RecordedAtRest
  BY DEF Init, RuntimeInit, RecordedAtRest, AtRest
<1>2. AInv /\ RecordedAtRest /\ [Next]_vars => RecordedAtRest'
  BY RecordedStep
<1>3. QED BY <1>1, <1>2, TypeCorrect, PTL DEF Spec, AInv

-----------------------------------------------------------------------------
(* Known users. *)

(* What the edit of a config does to it and to the users known then. *)
LEMMA EditEffect ==
  ASSUME AInv, KnownShown, EditConfig
  PROVE  \E k \in Keys :
           /\ \A j \in Keys \ {k} : api'[j] = api[j] /\ known'[j] = known[j]
           /\ \A r \in Replicas : ~(held'[r].current /\ held'[r].key = k)
           /\ known'[k] # {} => api'[k] # Absent /\ SwitchingAway(api'[k])
           /\ \A r \in Replicas : known'[k] \subseteq known[k] \cup userSeen[r]
<1>1. ASSUME NEW k \in Keys, NEW o \in Object \cup {Absent}, Store(k, o)
      PROVE  /\ api'[k] = o /\ \A j \in Keys \ {k} : api'[j] = api[j]
             /\ \A r \in Replicas : ~(held'[r].current /\ held'[r].key = k)
  BY <1>1 DEF Store, AInv, TypeOK, RuntimeTypeOK
<1>2. ASSUME NEW k \in Keys, api[k] = Absent
      PROVE  known[k] = {}
  BY <1>2 DEF KnownShown
<1>3. ASSUME NEW k \in Keys, NEW t \in Types, CreateConfig(k, t)
      PROVE  /\ \A j \in Keys \ {k} : api'[j] = api[j] /\ known'[j] = known[j]
             /\ \A r \in Replicas : ~(held'[r].current /\ held'[r].key = k)
             /\ known'[k] = {}
  <2>1. [type |-> t, previousType |-> NoType] \in Object
    BY DEF Object
  <2>2. QED BY <1>1, <1>2, <1>3, <2>1 DEF CreateConfig, history
<1>4. ASSUME NEW k \in Keys, NEW t \in Types, LeaveBasic(k, t)
      PROVE  /\ \A j \in Keys \ {k} : api'[j] = api[j] /\ known'[j] = known[j]
             /\ \A r \in Replicas : ~(held'[r].current /\ held'[r].key = k)
             /\ known'[k] # {} => api'[k] # Absent /\ SwitchingAway(api'[k])
             /\ \A r \in Replicas : known'[k] \subseteq known[k] \cup userSeen[r]
  <2>. DEFINE o == [api[k] EXCEPT !.type = t]
              affected == IF api[k].previousType = "basic" THEN users ELSE {}
  <2>1. /\ api[k] \in Object /\ o \in Object
        /\ o.type = t /\ o.previousType = api[k].previousType
    <3>1. api[k] # Absent
      BY <1>4 DEF LeaveBasic
    <3>2. api[k] \in Object
      BY <3>1 DEF AInv, TypeOK, RuntimeTypeOK
    <3>3. QED BY <3>2 DEF Object
  <2>2. /\ Store(k, o) /\ t # "basic"
        /\ known' = [known EXCEPT ![k] = {u \in affected : \A r \in Replicas : u \in userSeen[r]}]
    BY <1>4 DEF LeaveBasic
  <2>3. /\ \A j \in Keys \ {k} : known'[j] = known[j]
        /\ known'[k] = {u \in affected : \A r \in Replicas : u \in userSeen[r]}
    BY <2>2 DEF AInv, TypeOK
  <2>4. known'[k] # {} => api[k].previousType = "basic"
    BY <2>3
  <2>. HIDE DEF o, affected
  <2>5. /\ api'[k] = o /\ api'[k] # Absent
        /\ \A j \in Keys \ {k} : api'[j] = api[j]
        /\ \A r \in Replicas : ~(held'[r].current /\ held'[r].key = k)
    <3>1. /\ api'[k] = o /\ \A j \in Keys \ {k} : api'[j] = api[j]
          /\ \A r \in Replicas : ~(held'[r].current /\ held'[r].key = k)
      BY <1>1, <2>1, <2>2
    <3>2. QED BY <2>1, <3>1, AuthAssumption
  <2>6. known'[k] # {} => SwitchingAway(api'[k])
    BY <2>1, <2>2, <2>4, <2>5 DEF SwitchingAway
  <2>7. \A r \in Replicas : known'[k] \subseteq userSeen[r]
    BY <2>3
  <2>8. QED BY <2>3, <2>5, <2>6, <2>7
<1>5. ASSUME NEW k \in Keys, NEW t \in Types, SwitchOtherwise(k, t)
      PROVE  /\ \A j \in Keys \ {k} : api'[j] = api[j] /\ known'[j] = known[j]
             /\ \A r \in Replicas : ~(held'[r].current /\ held'[r].key = k)
             /\ known'[k] # {} => api'[k] # Absent /\ SwitchingAway(api'[k])
             /\ known'[k] \subseteq known[k]
  <2>. DEFINE o == [api[k] EXCEPT !.type = t]
  <2>1. /\ api[k] \in Object /\ o \in Object
        /\ o.type = t /\ o.previousType = api[k].previousType
    <3>1. api[k] # Absent
      BY <1>5 DEF SwitchOtherwise
    <3>2. api[k] \in Object
      BY <3>1 DEF AInv, TypeOK, RuntimeTypeOK
    <3>3. QED BY <3>2 DEF Object
  <2>2. Store(k, o)
    BY <1>5 DEF SwitchOtherwise
  <2>3. /\ \A j \in Keys \ {k} : known'[j] = known[j]
        /\ known'[k] = IF t = "basic" THEN {} ELSE known[k]
    BY <1>5 DEF SwitchOtherwise, AInv, TypeOK
  <2>. HIDE DEF o
  <2>4. /\ api'[k] = o /\ api'[k] # Absent
        /\ \A j \in Keys \ {k} : api'[j] = api[j]
        /\ \A r \in Replicas : ~(held'[r].current /\ held'[r].key = k)
    <3>1. /\ api'[k] = o /\ \A j \in Keys \ {k} : api'[j] = api[j]
          /\ \A r \in Replicas : ~(held'[r].current /\ held'[r].key = k)
      BY <1>1, <2>1, <2>2
    <3>2. QED BY <2>1, <3>1, AuthAssumption
  <2>5. known'[k] # {} => SwitchingAway(api'[k])
    BY <2>1, <2>3, <2>4 DEF SwitchingAway, KnownShown
  <2>6. QED BY <2>3, <2>4, <2>5
<1>6. ASSUME NEW k \in Keys, DeleteConfig(k)
      PROVE  /\ \A j \in Keys \ {k} : api'[j] = api[j] /\ known'[j] = known[j]
             /\ \A r \in Replicas : ~(held'[r].current /\ held'[r].key = k)
             /\ known'[k] = {}
  BY <1>1, <1>6 DEF DeleteConfig, AInv, TypeOK
<1>7. QED BY <1>3, <1>4, <1>5, <1>6 DEF EditConfig

LEMMA KnownStep ==
  ASSUME AInv, KnownInv, [Next]_vars
  PROVE  KnownInv'
<1>. USE DEF KnownInv, KnownShown, KnownSeen, KnownToDo
<1>0. \A k \in Keys : known[k] \subseteq users
  BY DEF AInv, TypeOK
<1>1. CASE UNCHANGED vars
  BY <1>1 DEF vars, runtimeVars, history
<1>2. CASE EditConfig
  <2>1. PICK k \in Keys :
           /\ \A j \in Keys \ {k} : api'[j] = api[j] /\ known'[j] = known[j]
           /\ \A r \in Replicas : ~(held'[r].current /\ held'[r].key = k)
           /\ known'[k] # {} => api'[k] # Absent /\ SwitchingAway(api'[k])
           /\ \A r \in Replicas : known'[k] \subseteq known[k] \cup userSeen[r]
    BY <1>2, EditEffect
  <2>2. \A r \in Replicas : held'[r].key = held[r].key /\ (held'[r].current => held[r].current)
    <3>1. PICK j \in Keys, o \in Object \cup {Absent} : Store(j, o)
      BY <1>2, EditStores
    <3>2. QED BY <3>1 DEF Store, AInv, TypeOK, RuntimeTypeOK
  <2>3. UNCHANGED <<users, userSeen, pc, todo>>
    BY <1>2 DEF EditConfig
  <2>4. KnownShown' /\ KnownSeen'
    BY <2>1, <2>3
  <2>5. KnownToDo'
    BY <2>1, <2>2, <2>3
  <2>6. QED BY <2>4, <2>5
<1>3. CASE \E u \in Users : CreateUser(u)
  BY <1>3 DEF CreateUser, runtimeVars
<1>4. CASE \E u \in Users : DeleteUserObject(u)
  BY <1>4 DEF DeleteUserObject, Gone, runtimeVars
<1>5. CASE \E r \in Replicas, k \in Keys : Watch(r, k)
  BY <1>5 DEF Watch, Sync, history
<1>6. ASSUME NEW r \in Replicas, SeeUsers(r)
      PROVE  KnownInv'
  BY <1>0, <1>6 DEF SeeUsers, runtimeVars, history, AInv, TypeOK
<1>7. ASSUME NEW r \in Replicas, StartReconcile(r)
      PROVE  KnownInv'
  <2>1. UNCHANGED <<api, users, userSeen, todo, known>>
    BY <1>7 DEF StartReconcile, Fetch, FetchMissing, history
  <2>2. PICK k \in Keys : \/ /\ Fetch(r, k)
                             /\ GoTo(r, IF SwitchingAway(cache[r][k]) THEN "ListUsers" ELSE "DeleteUsers")
                          \/ FetchMissing(r, k) /\ UNCHANGED pc
    BY <1>7 DEF StartReconcile
  <2>3. CASE Fetch(r, k) /\ GoTo(r, IF SwitchingAway(cache[r][k]) THEN "ListUsers" ELSE "DeleteUsers")
    <3>1. /\ held'[r].key = k /\ (held'[r].current => cache[r][k] = api[k])
          /\ \A q \in Replicas \ {r} : held'[q] = held[q] /\ pc'[q] = pc[q]
          /\ pc'[r] = "DeleteUsers" => ~SwitchingAway(cache[r][k])
      BY <2>3 DEF Fetch, GoTo, CopiesAreCurrent, AInv, TypeOK, RuntimeTypeOK
    <3>2. held'[r].current /\ pc'[r] = "DeleteUsers" => known[k] = {}
      BY <3>1
    <3>3. QED BY <2>1, <3>1, <3>2
  <2>4. CASE FetchMissing(r, k) /\ UNCHANGED pc
    BY <2>1, <2>4 DEF FetchMissing
  <2>5. QED BY <2>2, <2>3, <2>4
<1>8. ASSUME NEW r \in Replicas, ListUsers(r)
      PROVE  KnownInv'
  BY <1>8 DEF ListUsers, AtStage, GoTo, runtimeVars, history, AInv, TypeOK
<1>9. CASE \E r \in Replicas : ListUsersFails(r)
  BY <1>9 DEF ListUsersFails, runtimeVars
<1>10. ASSUME NEW r \in Replicas, DeleteUser(r)
       PROVE  KnownInv'
  BY <1>10 DEF DeleteUser, Gone, runtimeVars, AInv, TypeOK
<1>11. ASSUME NEW r \in Replicas, DeleteUserFails(r)
       PROVE  KnownInv'
  BY <1>11 DEF DeleteUserFails, runtimeVars, AInv, TypeOK
<1>12. ASSUME NEW r \in Replicas, Ending(r)
       PROVE  KnownInv'
  <2>1. /\ UNCHANGED <<users, userSeen, todo, known>>
        /\ pc[r] = "DeleteUsers" /\ todo[r] = {} /\ held[r].key \in Keys
    BY <1>12, EndingKinds DEF history
  <2>2. /\ held'[r] = NotHeld
        /\ \A q \in Replicas \ {r} : held'[q].key = held[q].key /\ held'[q].obj = held[q].obj
    BY <1>12, EndingEffect
  <2>3. \A q \in Replicas \ {r} : pc'[q] = pc[q] /\ (held'[q].current => held[q].current)
    <3>1. \A q \in Replicas \ {r} : pc'[q] = pc[q]
      BY <1>12, EndingKinds DEF GoTo, AInv, TypeOK
    <3>2. ASSUME NEW q \in Replicas \ {r}
          PROVE  held'[q].current => held[q].current
      BY <1>12 DEF Ending, UpdateStatus, UpdateStatusFails, StatusStored, NothingStored, AInv, TypeOK, RuntimeTypeOK
    <3>3. QED BY <3>1, <3>2
  <2>4. KnownToDo'
    BY <2>1, <2>2, <2>3, AbsentAssumption DEF NotHeld
  <2>5. KnownShown'
    <3>1. CASE api' = api
      BY <2>1, <3>1
    <3>2. CASE held[r].current /\ api' = [api EXCEPT ![held[r].key] = Recorded(r)]
      <4>1. known[held[r].key] = {}
        BY <2>1, <3>2
      <4>2. \A j \in Keys \ {held[r].key} : api'[j] = api[j]
        BY <2>1, <3>2 DEF AInv, TypeOK, RuntimeTypeOK
      <4>3. QED BY <2>1, <4>1, <4>2
    <3>3. QED
      <4>1. \/ api' = api
            \/ held[r].current /\ api' = [api EXCEPT ![held[r].key] = Recorded(r)]
        BY <1>12, EndingEffect
      <4>2. QED BY <3>1, <3>2, <4>1
  <2>6. QED BY <2>1, <2>4, <2>5
<1>13. ASSUME NEW r \in Replicas, Restart(r)
       PROVE  KnownInv'
  <2>1. UNCHANGED <<api, users, known>>
    BY <1>13 DEF Restart, RestartRuntime, history
  <2>2. \A q \in Replicas : userSeen'[q] \in {userSeen[q], users}
    BY <1>13 DEF Restart, AInv, TypeOK
  <2>3. /\ held'[r] = NotHeld
        /\ \A q \in Replicas \ {r} : held'[q] = held[q] /\ pc'[q] = pc[q] /\ todo'[q] = todo[q]
    BY <1>13 DEF Restart, RestartRuntime, GoTo, AInv, TypeOK, RuntimeTypeOK
  <2>4. QED BY <1>0, <2>1, <2>2, <2>3, AbsentAssumption DEF NotHeld
<1>14. QED BY <1>1, <1>2, <1>3, <1>4, <1>5, <1>6, <1>7, <1>8, <1>9, <1>10, <1>11, <1>12, <1>13, StepKinds

(* The users that existed, and that every process had seen, when a config   *)
(* left a recorded basic are gone when the work about it is done, but for   *)
(* those whose deletion or listing failed.                                  *)
THEOREM NobodySpared == Spec => []KnownUsersDeleted
<1>1. Init => KnownInv
  BY AbsentAssumption DEF Init, RuntimeInit, NotHeld, KnownInv, KnownShown, KnownSeen, KnownToDo
<1>2. AInv /\ KnownInv /\ [Next]_vars => KnownInv'
  BY KnownStep
<1>3. KnownInv /\ RecordedAtRest => KnownUsersDeleted
  BY DEF KnownInv, KnownShown, SwitchingAway, RecordedAtRest, KnownUsersDeleted, AtRest
<1>4. QED BY <1>1, <1>2, <1>3, TypeCorrect, SwitchRecorded, PTL DEF Spec, AInv

-----------------------------------------------------------------------------
(* Settled users. *)

(* While no config leaves basic, no stored config comes to show a switch. *)
LEMMA PlainStays ==
  ASSUME AInv, [Next]_vars, \A k \in Keys : api[k] # Absent => api[k] \in Plain, settled' # {}
  PROVE  \A k \in Keys : api'[k] # Absent => api'[k] \in Plain
<1>1. CASE EditConfig
  <2>1. ASSUME NEW j \in Keys, NEW o \in Plain \cup {Absent}, Store(j, o)
        PROVE  \A k \in Keys : api'[k] # Absent => api'[k] \in Plain
    BY <2>1 DEF Store, AInv, TypeOK, RuntimeTypeOK
  <2>2. ASSUME NEW j \in Keys, NEW t \in Types, CreateConfig(j, t)
        PROVE  \A k \in Keys : api'[k] # Absent => api'[k] \in Plain
    <3>1. [type |-> t, previousType |-> NoType] \in Plain
      BY AuthAssumption DEF Object, Plain, SwitchingAway, Types
    <3>2. QED BY <2>1, <2>2, <3>1 DEF CreateConfig
  <2>3. ASSUME NEW j \in Keys, NEW t \in Types, SwitchOtherwise(j, t)
        PROVE  \A k \in Keys : api'[k] # Absent => api'[k] \in Plain
    <3>1. api[j] \in Plain /\ api[j].type # "basic"
      BY <2>3 DEF SwitchOtherwise
    <3>2. [api[j] EXCEPT !.type = t] \in Plain
      BY <3>1 DEF Plain, Object, SwitchingAway
    <3>3. QED BY <2>1, <2>3, <3>2 DEF SwitchOtherwise
  <2>4. QED BY <1>1, <2>1, <2>2, <2>3 DEF EditConfig, LeaveBasic, DeleteConfig
<1>2. ASSUME NEW r \in Replicas, Ending(r)
      PROVE  \A k \in Keys : api'[k] # Absent => api'[k] \in Plain
  <2>1. Recorded(r) \in Plain
    BY <1>2, EndingKinds DEF Plain, SwitchingAway
  <2>2. api' = api \/ api' = [api EXCEPT ![held[r].key] = Recorded(r)]
    BY <1>2, EndingEffect
  <2>3. QED BY <2>1, <2>2 DEF AInv, TypeOK, RuntimeTypeOK
<1>3. CASE \/ UNCHANGED vars
           \/ \E u \in Users : CreateUser(u) \/ DeleteUserObject(u)
           \/ \E r \in Replicas, k \in Keys : Watch(r, k)
           \/ \E r \in Replicas : \/ SeeUsers(r) \/ StartReconcile(r) \/ ListUsers(r) \/ ListUsersFails(r)
                                  \/ DeleteUser(r) \/ DeleteUserFails(r) \/ Restart(r)
  BY <1>3 DEF vars, runtimeVars, CreateUser, DeleteUserObject, Watch, Sync, SeeUsers, StartReconcile, Fetch,
              FetchMissing, ListUsers, ListUsersFails, DeleteUser, DeleteUserFails, Restart, RestartRuntime
<1>4. QED BY <1>1, <1>2, <1>3, StepKinds

(* When no work is pending every switch has been recorded. *)
LEMMA NothingPending ==
  ASSUME AInv, RecordedAtRest, ~Pending
  PROVE  Calm
<1>1. \A r \in Replicas, k \in Keys : synced[r][k] /\ held[r].key # k
  BY DEF Pending, Quiescent
<1>2. ASSUME NEW k \in Keys, api[k] # Absent
      PROVE  api[k] \in Plain
  BY <1>2 DEF Pending, RecordedAtRest, AtRest, Plain, SwitchingAway, AInv, TypeOK, RuntimeTypeOK
<1>3. \A r \in Replicas, k \in Keys : cache[r][k] = api[k]
  BY <1>1 DEF AInv, CopiesAreCurrent
<1>4. ASSUME NEW r \in Replicas
      PROVE  held[r].key = NoKey /\ pc[r] # "ListUsers" /\ todo[r] = {}
  BY <1>1 DEF AInv, TypeOK, RuntimeTypeOK
<1>5. QED BY <1>2, <1>3, <1>4 DEF Calm, CopiesIn

LEMMA SettledStep ==
  ASSUME AInv, RecordedAtRest, SettledInv, [Next]_vars
  PROVE  SettledInv'
<1>. SUFFICES ASSUME settled' # {} PROVE Calm'
  BY DEF SettledInv
<1>1. settled # {} \/ Calm
  BY NothingPending, StepKinds
     DEF EditConfig, CreateConfig, LeaveBasic, SwitchOtherwise, DeleteConfig, CreateUser, DeleteUserObject, Gone,
         Watch, SeeUsers, StartReconcile, ListUsers, ListUsersFails, DeleteUser, DeleteUserFails, Ending,
         UpdateStatus, UpdateStatusFails, Finish, Restart, history, vars
<1>2. Calm
  BY <1>1 DEF SettledInv
<1>3. CopiesIn(Plain)'
  <2>1. \A k \in Keys : api'[k] # Absent => api'[k] \in Plain
    BY <1>2, PlainStays DEF Calm, CopiesIn
  <2>2. QED BY <1>2, <2>1, RuntimeStep, CopiesStep DEF Calm
<1>4. \A r \in Replicas : pc'[r] # "ListUsers" /\ todo'[r] = {}
  <2>. DEFINE Free == \A r \in Replicas : pc'[r] # "ListUsers" /\ todo'[r] = {}
  <2>0. \A r \in Replicas : pc[r] # "ListUsers" /\ todo[r] = {}
    BY <1>2 DEF Calm
  <2>1. CASE \/ UNCHANGED vars \/ EditConfig
             \/ \E u \in Users : CreateUser(u) \/ DeleteUserObject(u)
             \/ \E r \in Replicas, k \in Keys : Watch(r, k)
             \/ \E r \in Replicas : SeeUsers(r)
    BY <2>0, <2>1 DEF vars, EditConfig, CreateUser, DeleteUserObject, Watch, SeeUsers
  <2>2. ASSUME NEW r \in Replicas, StartReconcile(r)
        PROVE  Free
    <3>1. PICK k \in Keys : \/ /\ Fetch(r, k)
                               /\ GoTo(r, IF SwitchingAway(cache[r][k]) THEN "ListUsers" ELSE "DeleteUsers")
                            \/ FetchMissing(r, k) /\ UNCHANGED pc
      BY <2>2 DEF StartReconcile
    <3>2. Fetch(r, k) => ~SwitchingAway(cache[r][k])
      BY <1>2 DEF Fetch, Calm, CopiesIn, Plain
    <3>3. todo' = todo
      BY <2>2 DEF StartReconcile
    <3>4. QED BY <2>0, <3>1, <3>2, <3>3 DEF GoTo, AInv, TypeOK
  <2>3. ASSUME NEW r \in Replicas, Ending(r)
        PROVE  Free
    BY <2>0, <2>3, EndingKinds DEF GoTo, AInv, TypeOK
  <2>4. ASSUME NEW r \in Replicas, Restart(r)
        PROVE  Free
    BY <2>0, <2>4 DEF Restart, GoTo, AInv, TypeOK
  <2>5. ASSUME NEW r \in Replicas, ListUsers(r) \/ ListUsersFails(r) \/ DeleteUser(r) \/ DeleteUserFails(r)
        PROVE  Free
    BY <2>0, <2>5 DEF ListUsers, ListUsersFails, DeleteUser, DeleteUserFails, AtStage
  <2>6. QED BY <2>1, <2>2, <2>3, <2>4, <2>5, StepKinds
<1>5. QED BY <1>3, <1>4 DEF Calm

(* A user created when no work was pending is deleted by an administrator   *)
(* only, until a config leaves basic.                                       *)
THEOREM SettledStay == Spec => SettledUsersStay
<1>1. Init => SettledInv
  BY DEF Init, SettledInv
<1>2. AInv /\ RecordedAtRest /\ SettledInv /\ [Next]_vars => SettledInv'
  BY SettledStep
<1>3. AInv /\ SettledInv /\ [Next]_vars => [\A u \in settled : u \notin users' => edits' # edits]_vars
  <2>. SUFFICES ASSUME AInv, SettledInv, [Next]_vars, NEW u \in settled, u \notin users'
                PROVE  edits' # edits
    OBVIOUS
  <2>1. u \in users /\ edits \in Nat
    BY AuthAssumption DEF AInv, TypeOK
  <2>2. \A r \in Replicas : todo[r] = {}
    BY DEF SettledInv, Calm
  <2>3. \E v \in Users : DeleteUserObject(v)
    BY <2>1, <2>2, StepKinds
       DEF EditConfig, CreateUser, Watch, SeeUsers, StartReconcile, ListUsers, ListUsersFails, DeleteUser,
           DeleteUserFails, Ending, UpdateStatus, UpdateStatusFails, Finish, Restart, vars
  <2>4. QED BY <2>1, <2>3 DEF DeleteUserObject, Edit
<1>4. QED BY <1>1, <1>2, <1>3, TypeCorrect, SwitchRecorded, PTL DEF Spec, AInv, SettledUsersStay
=============================================================================
