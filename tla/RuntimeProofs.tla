--------------------------- MODULE RuntimeProofs ---------------------------
(***************************************************************************)
(* What the steps of ControllerRuntime preserve, for any kind of object:   *)
(* the types of its variables, and that a copy marked up to date equals    *)
(* the stored object.  The proofs about each controller rest on these.     *)
(***************************************************************************)
EXTENDS ControllerRuntime, TLAPS

RuntimeInv(Object) == RuntimeTypeOK(Object) /\ CopiesAreCurrent

(* The initial state has the invariant. *)
LEMMA RuntimeInitOK ==
  ASSUME NEW Object, RuntimeInit
  PROVE  RuntimeInv(Object)
BY AbsentAssumption DEF RuntimeInit, RuntimeInv, RuntimeTypeOK, CopiesAreCurrent, NotHeld

(* A write by another client leaves every copy it outdates marked so. *)
LEMMA StoreOK ==
  ASSUME NEW Object, NEW k \in Keys, NEW o \in Object \cup {Absent},
         RuntimeInv(Object), Store(k, o)
  PROVE  RuntimeInv(Object)'
<1>1. RuntimeTypeOK(Object)'
  <2>. DEFINE Held == [key : Keys \cup {NoKey}, obj : Object \cup {Absent}, current : BOOLEAN]
              new(q) == IF held[q].key = k THEN [held[q] EXCEPT !.current = FALSE] ELSE held[q]
  <2>1. api' \in [Keys -> Object \cup {Absent}] /\ UNCHANGED <<cache, queue>>
    BY DEF Store, RuntimeInv, RuntimeTypeOK
  <2>2. synced' \in [Replicas -> [Keys -> BOOLEAN]]
    <3>1. ASSUME NEW q \in Replicas PROVE [synced[q] EXCEPT ![k] = FALSE] \in [Keys -> BOOLEAN]
      BY DEF RuntimeInv, RuntimeTypeOK
    <3>2. QED BY <3>1 DEF Store
  <2>3. ASSUME NEW q \in Replicas
        PROVE  new(q) \in Held /\ (new(q).key # NoKey => new(q).obj \in Object)
    BY DEF RuntimeInv, RuntimeTypeOK
  <2>4. held' = [q \in Replicas |-> new(q)]
    BY DEF Store
  <2>. HIDE DEF Held, new
  <2>5. held' \in [Replicas -> Held] /\ \A q \in Replicas : held'[q].key # NoKey => held'[q].obj \in Object
    BY <2>3, <2>4
  <2>6. QED BY <2>1, <2>2, <2>5 DEF Held, RuntimeInv, RuntimeTypeOK
<1>2. CopiesAreCurrent'
  BY DEF RuntimeInv, RuntimeTypeOK, CopiesAreCurrent, Store
<1>3. QED BY <1>1, <1>2 DEF RuntimeInv

(* The informer brings one copy up to date. *)
LEMMA SyncOK ==
  ASSUME NEW Object, NEW r \in Replicas, NEW k \in Keys,
         RuntimeInv(Object), Sync(r, k)
  PROVE  RuntimeInv(Object)'
<1>1. RuntimeTypeOK(Object)'
  BY DEF RuntimeInv, RuntimeTypeOK, Sync
<1>2. CopiesAreCurrent'
  BY DEF RuntimeInv, RuntimeTypeOK, CopiesAreCurrent, Sync
<1>3. QED BY <1>1, <1>2 DEF RuntimeInv

(* What a reconcile reads is current exactly when the informer copy is. *)
LEMMA FetchOK ==
  ASSUME NEW Object, NEW r \in Replicas, NEW k \in Keys,
         RuntimeInv(Object), Fetch(r, k) \/ FetchMissing(r, k)
  PROVE  RuntimeInv(Object)'
<1>1. CASE Fetch(r, k)
  <2>1. RuntimeTypeOK(Object)'
    BY <1>1, AbsentAssumption DEF RuntimeInv, RuntimeTypeOK, Fetch
  <2>2. CopiesAreCurrent'
    BY <1>1 DEF RuntimeInv, RuntimeTypeOK, CopiesAreCurrent, Fetch
  <2>3. QED BY <2>1, <2>2 DEF RuntimeInv
<1>2. CASE FetchMissing(r, k)
  BY <1>2 DEF RuntimeInv, RuntimeTypeOK, CopiesAreCurrent, FetchMissing
<1>3. QED BY <1>1, <1>2

(* However the reconcile of r ends, and however it leaves the queue. *)
LEMMA EndOK ==
  ASSUME NEW Object, NEW r \in Replicas, NEW o \in Object,
         RuntimeInv(Object), held[r].key \in Keys,
         StatusStored(r, o) \/ NothingStored(r),
         Done(r) \/ Requeue(r)
  PROVE  RuntimeInv(Object)'
<1>1. queue' \in [Replicas -> SUBSET Keys]
  <2>1. queue \in [Replicas -> SUBSET Keys]
    BY DEF RuntimeInv, RuntimeTypeOK
  <2>2. QED BY <2>1 DEF Done, Requeue
<1>2. CASE StatusStored(r, o)
  <2>. DEFINE k == held[r].key
              changed == o # held[r].obj
  <2>1. /\ api' = [api EXCEPT ![k] = o]
        /\ synced' = [q \in Replicas |-> [synced[q] EXCEPT ![k] = synced[q][k] /\ ~changed]]
        /\ held[r].current
        /\ UNCHANGED cache
    BY <1>2 DEF StatusStored
  <2>2. /\ held' \in [Replicas -> [key : Keys \cup {NoKey}, obj : Object \cup {Absent}, current : BOOLEAN]]
        /\ held'[r] = NotHeld
        /\ \A q \in Replicas \ {r} :
             /\ held'[q].key = held[q].key
             /\ held'[q].obj = held[q].obj
             /\ held'[q].current = (held[q].current /\ ~(held[q].key = k /\ changed))
    <3>1. ASSUME NEW q \in Replicas \ {r}
          PROVE  /\ held'[q] \in [key : Keys \cup {NoKey}, obj : Object \cup {Absent}, current : BOOLEAN]
                 /\ held'[q].key = held[q].key
                 /\ held'[q].obj = held[q].obj
                 /\ held'[q].current = (held[q].current /\ ~(held[q].key = k /\ changed))
      <4>1. held[q] \in [key : Keys \cup {NoKey}, obj : Object \cup {Absent}, current : BOOLEAN]
        BY DEF RuntimeInv, RuntimeTypeOK
      <4>2. held'[q] = [held[q] EXCEPT !.current = held[q].current /\ ~(held[q].key = k /\ changed)]
        BY <1>2 DEF StatusStored
      <4>. HIDE DEF changed
      <4>3. QED BY <4>1, <4>2
    <3>2. held'[r] = NotHeld
      BY <1>2 DEF StatusStored, RuntimeInv, RuntimeTypeOK
    <3>3. NotHeld \in [key : Keys \cup {NoKey}, obj : Object \cup {Absent}, current : BOOLEAN]
      BY DEF NotHeld
    <3>4. \A q \in Replicas : held'[q] \in [key : Keys \cup {NoKey}, obj : Object \cup {Absent}, current : BOOLEAN]
      BY <3>1, <3>2, <3>3
    <3>5. held' = [q \in Replicas |-> held'[q]]
      BY <1>2 DEF StatusStored
    <3>6. QED BY <3>1, <3>2, <3>4, <3>5
  <2>. HIDE DEF changed
  <2>3. RuntimeTypeOK(Object)'
    <3>1. synced' \in [Replicas -> [Keys -> BOOLEAN]]
      <4>1. ASSUME NEW q \in Replicas
            PROVE  [synced[q] EXCEPT ![k] = synced[q][k] /\ ~changed] \in [Keys -> BOOLEAN]
        BY DEF RuntimeInv, RuntimeTypeOK
      <4>2. QED BY <2>1, <4>1
    <3>2. api' \in [Keys -> Object \cup {Absent}]
      BY <2>1 DEF RuntimeInv, RuntimeTypeOK
    <3>3. ASSUME NEW q \in Replicas, held'[q].key # NoKey
          PROVE  held'[q].obj \in Object
      <4>1. q # r
        BY <2>2, <3>3 DEF NotHeld
      <4>2. held[q].key # NoKey => held[q].obj \in Object
        BY DEF RuntimeInv, RuntimeTypeOK
      <4>3. QED BY <2>2, <3>3, <4>1, <4>2
    <3>4. QED BY <1>1, <2>1, <2>2, <3>1, <3>2, <3>3 DEF RuntimeInv, RuntimeTypeOK
  <2>4. CopiesAreCurrent'
    <3>1. ASSUME NEW q \in Replicas, NEW j \in Keys, synced'[q][j]
          PROVE  cache'[q][j] = api'[j]
      <4>1. synced[q][j] /\ (j = k => ~changed)
        BY <2>1, <3>1 DEF RuntimeInv, RuntimeTypeOK
      <4>2. api'[j] = api[j]
        BY <2>1, <4>1 DEF RuntimeInv, RuntimeTypeOK, CopiesAreCurrent, changed
      <4>3. QED BY <2>1, <4>1, <4>2 DEF RuntimeInv, CopiesAreCurrent
    <3>2. ASSUME NEW q \in Replicas, held'[q].current
          PROVE  held'[q].key \in Keys /\ held'[q].obj = api'[held'[q].key]
      <4>1. q # r
        BY <2>2, <3>2 DEF NotHeld
      <4>2. held[q].current /\ held[q].key \in Keys /\ held[q].obj = api[held[q].key]
        BY <2>2, <3>2, <4>1 DEF RuntimeInv, CopiesAreCurrent
      <4>3. api'[held[q].key] = api[held[q].key]
        BY <2>1, <2>2, <3>2, <4>1, <4>2 DEF RuntimeInv, RuntimeTypeOK, CopiesAreCurrent, changed
      <4>4. QED BY <2>2, <4>1, <4>2, <4>3
    <3>3. QED BY <3>1, <3>2 DEF CopiesAreCurrent
  <2>5. QED BY <2>3, <2>4 DEF RuntimeInv
<1>3. CASE NothingStored(r)
  BY <1>1, <1>3, AbsentAssumption
     DEF RuntimeInv, RuntimeTypeOK, CopiesAreCurrent, NothingStored, NotHeld
<1>4. QED BY <1>2, <1>3

(* What an accepted status update changes: the stored object and nothing    *)
(* else that a reconcile reads; a copy of it is current afterwards only if  *)
(* the update changed nothing.                                              *)
LEMMA StatusStoredEffect ==
  ASSUME NEW Object, NEW r \in Replicas, NEW o \in Object,
         RuntimeInv(Object), held[r].key \in Keys, StatusStored(r, o)
  PROVE  /\ held[r].obj = api[held[r].key]
         /\ api' = [api EXCEPT ![held[r].key] = o]
         /\ UNCHANGED cache
         /\ held'[r] = NotHeld
         /\ \A q \in Replicas \ {r} : held'[q].key = held[q].key /\ held'[q].obj = held[q].obj
         /\ \A q \in Replicas, j \in Keys :
              synced'[q][j] => synced[q][j] /\ (j = held[r].key => o = api[j])
<1>1. held[r].obj = api[held[r].key]
  BY DEF RuntimeInv, CopiesAreCurrent, StatusStored
<1>2. /\ held'[r] = NotHeld
      /\ \A q \in Replicas \ {r} : held'[q].key = held[q].key /\ held'[q].obj = held[q].obj
  BY DEF RuntimeInv, RuntimeTypeOK, StatusStored
<1>3. ASSUME NEW q \in Replicas, NEW j \in Keys, synced'[q][j]
      PROVE  synced[q][j] /\ (j = held[r].key => o = api[j])
  <2>1. synced' = [p \in Replicas |-> [synced[p] EXCEPT ![held[r].key] = synced[p][held[r].key] /\ ~(o # held[r].obj)]]
    BY DEF StatusStored
  <2>2. QED BY <1>1, <1>3, <2>1 DEF RuntimeInv, RuntimeTypeOK
<1>4. QED BY <1>1, <1>2, <1>3 DEF StatusStored

(* A process that starts again has fresh copies of every object. *)
LEMMA RestartOK ==
  ASSUME NEW Object, NEW r \in Replicas, RuntimeInv(Object), RestartRuntime(r)
  PROVE  RuntimeInv(Object)'
<1>1. RuntimeTypeOK(Object)'
  BY AbsentAssumption DEF RuntimeInv, RuntimeTypeOK, RestartRuntime, NotHeld
<1>2. CopiesAreCurrent'
  BY DEF RuntimeInv, RuntimeTypeOK, CopiesAreCurrent, RestartRuntime, NotHeld
<1>3. QED BY <1>1, <1>2 DEF RuntimeInv

(* Steps outside the runtime. *)
LEMMA UnchangedOK ==
  ASSUME NEW Object, RuntimeInv(Object), UNCHANGED runtimeVars
  PROVE  RuntimeInv(Object)'
BY DEF RuntimeInv, RuntimeTypeOK, CopiesAreCurrent, runtimeVars
-----------------------------------------------------------------------------
(* Every step of a controller, as the runtime sees it. *)
Ends(r, o) ==
  /\ held[r].key \in Keys
  /\ StatusStored(r, o) \/ NothingStored(r)
  /\ Done(r) \/ Requeue(r)

RuntimeNext(Object) ==
  \/ UNCHANGED runtimeVars
  \/ \E k \in Keys, o \in Object \cup {Absent} : Store(k, o)
  \/ \E r \in Replicas, k \in Keys : Sync(r, k) \/ Fetch(r, k) \/ FetchMissing(r, k)
  \/ \E r \in Replicas, o \in Object : Ends(r, o)
  \/ \E r \in Replicas : RestartRuntime(r)

LEMMA RuntimeStepOK ==
  ASSUME NEW Object, RuntimeInv(Object), RuntimeNext(Object)
  PROVE  RuntimeInv(Object)'
BY UnchangedOK, StoreOK, SyncOK, FetchOK, EndOK, RestartOK DEF RuntimeNext, Ends

(* How a reconcile leaves the runtime when it ends. *)
LEMMA EndEffect ==
  ASSUME NEW Object, NEW r \in Replicas, NEW o \in Object, RuntimeInv(Object), Ends(r, o)
  PROVE  /\ held'[r] = NotHeld
         /\ \A q \in Replicas \ {r} : held'[q].key = held[q].key /\ held'[q].obj = held[q].obj
         /\ UNCHANGED cache
         /\ \A q \in Replicas, j \in Keys :
              /\ synced'[q][j] => synced[q][j]
              /\ j \in queue[q] => j \in queue'[q]
         /\ \/ NothingStored(r) /\ api' = api
            \/ /\ StatusStored(r, o) /\ held[r].current
               /\ held[r].obj = api[held[r].key]
               /\ api' = [api EXCEPT ![held[r].key] = o]
               /\ o # api[held[r].key] => \A q \in Replicas : ~synced'[q][held[r].key]
<1>1. \A q \in Replicas, j \in Keys : j \in queue[q] => j \in queue'[q]
  BY DEF Ends, Done, Requeue, RuntimeInv, RuntimeTypeOK
<1>2. CASE StatusStored(r, o)
  <2>1. held[r].key \in Keys
    BY DEF Ends
  <2>2. /\ held[r].obj = api[held[r].key]
        /\ api' = [api EXCEPT ![held[r].key] = o]
        /\ UNCHANGED cache
        /\ held'[r] = NotHeld
        /\ \A q \in Replicas \ {r} : held'[q].key = held[q].key /\ held'[q].obj = held[q].obj
        /\ \A q \in Replicas, j \in Keys :
             synced'[q][j] => synced[q][j] /\ (j = held[r].key => o = api[j])
    BY <1>2, <2>1, StatusStoredEffect
  <2>3. held[r].current
    BY <1>2 DEF StatusStored
  <2>4. QED BY <1>1, <1>2, <2>1, <2>2, <2>3
<1>3. CASE NothingStored(r)
  BY <1>1, <1>3 DEF NothingStored, RuntimeInv, RuntimeTypeOK
<1>4. QED BY <1>2, <1>3 DEF Ends

(* An object that changes outdates every informer copy of it. *)
LEMMA ApiStep ==
  ASSUME NEW Object, RuntimeInv(Object), RuntimeNext(Object), NEW k \in Keys
  PROVE  api'[k] = api[k] \/ \A q \in Replicas : ~synced'[q][k]
<1>1. CASE UNCHANGED runtimeVars
  BY <1>1 DEF runtimeVars
<1>2. ASSUME NEW j \in Keys, NEW o \in Object \cup {Absent}, Store(j, o)
      PROVE  api'[k] = api[k] \/ \A q \in Replicas : ~synced'[q][k]
  BY <1>2 DEF Store, RuntimeInv, RuntimeTypeOK
<1>3. CASE \E r \in Replicas, j \in Keys : Sync(r, j) \/ Fetch(r, j) \/ FetchMissing(r, j)
  BY <1>3 DEF Sync, Fetch, FetchMissing
<1>4. ASSUME NEW r \in Replicas, NEW o \in Object, Ends(r, o)
      PROVE  api'[k] = api[k] \/ \A q \in Replicas : ~synced'[q][k]
  <2>1. \/ api' = api
        \/ /\ api' = [api EXCEPT ![held[r].key] = o]
           /\ o # api[held[r].key] => \A q \in Replicas : ~synced'[q][held[r].key]
    BY <1>4, EndEffect
  <2>2. QED BY <1>4, <2>1 DEF Ends, RuntimeInv, RuntimeTypeOK
<1>5. CASE \E r \in Replicas : RestartRuntime(r)
  BY <1>5 DEF RestartRuntime
<1>6. QED BY <1>1, <1>2, <1>3, <1>4, <1>5 DEF RuntimeNext

(* An informer copy stays or becomes the stored object. *)
LEMMA CopyStep ==
  ASSUME NEW Object, RuntimeInv(Object), RuntimeNext(Object), NEW r \in Replicas, NEW k \in Keys
  PROVE  cache'[r][k] = cache[r][k] \/ (cache'[r][k] = api[k] /\ api' = api)
<1>1. CASE UNCHANGED runtimeVars
  BY <1>1 DEF runtimeVars
<1>2. CASE \E j \in Keys, o \in Object \cup {Absent} : Store(j, o)
  BY <1>2 DEF Store
<1>3. ASSUME NEW q \in Replicas, NEW j \in Keys, Sync(q, j) \/ Fetch(q, j) \/ FetchMissing(q, j)
      PROVE  cache'[r][k] = cache[r][k] \/ (cache'[r][k] = api[k] /\ api' = api)
  <2>1. CASE Sync(q, j)
    BY <2>1 DEF Sync, RuntimeInv, RuntimeTypeOK
  <2>2. QED BY <1>3, <2>1 DEF Fetch, FetchMissing
<1>4. CASE \E q \in Replicas, o \in Object : Ends(q, o)
  BY <1>4, EndEffect
<1>5. CASE \E q \in Replicas : RestartRuntime(q)
  BY <1>5 DEF RestartRuntime, RuntimeInv, RuntimeTypeOK
<1>6. QED BY <1>1, <1>2, <1>3, <1>4, <1>5 DEF RuntimeNext

(* The object a reconcile has read stays, is dropped at its end, or is read *)
(* from the informer copy at its start.  While it is current, the stored    *)
(* object does not change.                                                  *)
LEMMA WorkStep ==
  ASSUME NEW Object, RuntimeInv(Object), RuntimeNext(Object), NEW r \in Replicas
  PROVE  \/ /\ held'[r].key = held[r].key /\ held'[r].obj = held[r].obj
            /\ held'[r].current => held[r].current
         \/ held'[r] = NotHeld
         \/ \E k \in Keys : /\ Fetch(r, k) /\ api' = api
                            /\ held'[r] = [key |-> k, obj |-> cache[r][k], current |-> synced[r][k]]
<1>1. CASE UNCHANGED runtimeVars
  BY <1>1 DEF runtimeVars
<1>2. ASSUME NEW j \in Keys, NEW o \in Object \cup {Absent}, Store(j, o)
      PROVE  /\ held'[r].key = held[r].key /\ held'[r].obj = held[r].obj
             /\ held'[r].current => held[r].current
  BY <1>2 DEF Store, RuntimeInv, RuntimeTypeOK
<1>3. ASSUME NEW q \in Replicas, NEW j \in Keys, Sync(q, j) \/ Fetch(q, j) \/ FetchMissing(q, j)
      PROVE  \/ held'[r] = held[r]
             \/ /\ Fetch(r, j) /\ api' = api
                /\ held'[r] = [key |-> j, obj |-> cache[r][j], current |-> synced[r][j]]
  BY <1>3 DEF Sync, Fetch, FetchMissing, RuntimeInv, RuntimeTypeOK
<1>4. ASSUME NEW q \in Replicas, NEW o \in Object, Ends(q, o)
      PROVE  \/ /\ held'[r].key = held[r].key /\ held'[r].obj = held[r].obj
                /\ held'[r].current => held[r].current
             \/ held'[r] = NotHeld
  <2>1. CASE r = q
    BY <1>4, <2>1, EndEffect
  <2>2. CASE r # q
    <3>1. \A p \in Replicas \ {q} : held'[p].key = held[p].key /\ held'[p].obj = held[p].obj
      BY <1>4, EndEffect
    <3>2. held'[r].current => held[r].current
      BY <1>4, <2>2 DEF Ends, StatusStored, NothingStored, RuntimeInv, RuntimeTypeOK
    <3>3. QED BY <2>2, <3>1, <3>2
  <2>3. QED BY <2>1, <2>2
<1>5. CASE \E q \in Replicas : RestartRuntime(q)
  BY <1>5 DEF RestartRuntime, RuntimeInv, RuntimeTypeOK
<1>6. QED BY <1>1, <1>2, <1>3, <1>4, <1>5 DEF RuntimeNext

(* A process comes to rest about an object only by ending a reconcile of it *)
(* without an error, with a status update that changes nothing.             *)
LEMMA RestStep ==
  ASSUME NEW Object, Absent \notin Object, RuntimeInv(Object), RuntimeNext(Object),
         NEW r \in Replicas, NEW k \in Keys,
         api'[k] # Absent, Quiescent(r, k)'
  PROVE  /\ api'[k] = api[k]
         /\ \/ Quiescent(r, k)
            \/ /\ held[r].key = k /\ Done(r)
               /\ NothingStored(r) \/ (held[r].current /\ StatusStored(r, api[k]))
<1>0. api'[k] = api[k] /\ synced'[r][k] /\ k \notin queue'[r]
  BY ApiStep DEF Quiescent
<1>1. CASE UNCHANGED runtimeVars
  BY <1>0, <1>1 DEF runtimeVars, Quiescent
<1>2. ASSUME NEW j \in Keys, NEW o \in Object \cup {Absent}, Store(j, o)
      PROVE  Quiescent(r, k)
  BY <1>0, <1>2 DEF Store, Quiescent, RuntimeInv, RuntimeTypeOK
<1>3. ASSUME NEW q \in Replicas, NEW j \in Keys, Sync(q, j) \/ Fetch(q, j) \/ FetchMissing(q, j)
      PROVE  Quiescent(r, k)
  <2>1. CASE Sync(q, j)
    BY <1>0, <2>1 DEF Sync, Quiescent, RuntimeInv, RuntimeTypeOK
  <2>2. CASE Fetch(q, j)
    BY <1>0, <2>2, AbsentAssumption DEF Fetch, Quiescent, RuntimeInv, RuntimeTypeOK
  <2>3. CASE FetchMissing(q, j)
    <3>1. synced[r][k] => cache[r][k] # Absent
      BY <1>0 DEF RuntimeInv, CopiesAreCurrent
    <3>2. QED BY <1>0, <2>3, <3>1 DEF FetchMissing, Quiescent, RuntimeInv, RuntimeTypeOK
  <2>4. QED BY <1>3, <2>1, <2>2, <2>3
<1>4. ASSUME NEW q \in Replicas, NEW o \in Object, Ends(q, o)
      PROVE  \/ Quiescent(r, k)
             \/ /\ held[r].key = k /\ Done(r)
                /\ NothingStored(r) \/ (held[r].current /\ StatusStored(r, api[k]))
  <2>1. synced[r][k] /\ k \notin queue[r]
    BY <1>0, <1>4, EndEffect
  <2>2. CASE held[r].key # k
    BY <2>1, <2>2 DEF Quiescent
  <2>3. CASE held[r].key = k
    <3>1. q = r
      <4>1. \A p \in Replicas \ {q} : held'[p].key = held[p].key /\ held'[p].obj = held[p].obj
        BY <1>4, EndEffect
      <4>2. QED BY <2>3, <4>1 DEF Quiescent
    <3>2. Done(r)
      BY <1>0, <1>4, <2>3, <3>1 DEF Ends, Requeue, RuntimeInv, RuntimeTypeOK
    <3>3. CASE StatusStored(r, o)
      <4>1. held[r].current
        BY <3>3 DEF StatusStored
      <4>2. \A p \in Replicas, j \in Keys : synced'[p][j] => (j = held[r].key => o = api[j])
        BY <1>4, <2>3, <3>3, StatusStoredEffect
      <4>3. o = api[k]
        BY <1>0, <2>3, <4>2
      <4>4. QED BY <2>3, <3>2, <3>3, <4>1, <4>3
    <3>4. QED BY <1>4, <2>3, <3>1, <3>2, <3>3 DEF Ends
  <2>4. QED BY <2>2, <2>3
<1>5. CASE \E q \in Replicas : RestartRuntime(q)
  BY <1>0, <1>5 DEF RestartRuntime, Quiescent, RuntimeInv, RuntimeTypeOK
<1>6. QED BY <1>0, <1>1, <1>2, <1>3, <1>4, <1>5 DEF RuntimeNext

-----------------------------------------------------------------------------
(* Every copy of an object, the stored one, those of the informers and of   *)
(* the reconciles in progress, is in S.                                     *)
CopiesIn(S) ==
  /\ \A k \in Keys : api[k] # Absent => api[k] \in S
  /\ \A r \in Replicas, k \in Keys : cache[r][k] # Absent => cache[r][k] \in S
  /\ \A r \in Replicas : held[r].key # NoKey => held[r].obj \in S

(* Copies come from the stored objects only. *)
LEMMA CopiesStep ==
  ASSUME NEW Object, RuntimeInv(Object), RuntimeNext(Object), NEW S, CopiesIn(S),
         \A k \in Keys : api'[k] # Absent => api'[k] \in S
  PROVE  CopiesIn(S)'
<1>1. ASSUME NEW r \in Replicas, NEW k \in Keys, cache'[r][k] # Absent
      PROVE  cache'[r][k] \in S
  BY <1>1, CopyStep DEF CopiesIn
<1>2. ASSUME NEW r \in Replicas, held'[r].key # NoKey
      PROVE  held'[r].obj \in S
  <2>1. CASE held'[r].key = held[r].key /\ held'[r].obj = held[r].obj
    BY <1>2, <2>1 DEF CopiesIn
  <2>2. CASE held'[r] = NotHeld
    BY <1>2, <2>2 DEF NotHeld
  <2>3. ASSUME NEW k \in Keys, Fetch(r, k),
               held'[r] = [key |-> k, obj |-> cache[r][k], current |-> synced[r][k]]
        PROVE  held'[r].obj \in S
    BY <2>3 DEF Fetch, CopiesIn
  <2>4. QED BY <2>1, <2>2, <2>3, WorkStep
<1>3. QED BY <1>1, <1>2 DEF CopiesIn

(* A copy is up to date and the key not queued only if both were so, or the *)
(* reconcile starts with it.                                                *)
LEMMA QueueStep ==
  ASSUME NEW Object, RuntimeInv(Object), RuntimeNext(Object), NEW r \in Replicas, NEW k \in Keys,
         api'[k] # Absent, synced'[r][k], k \notin queue'[r]
  PROVE  /\ api'[k] = api[k] /\ ~RestartRuntime(r)
         /\ (synced[r][k] /\ k \notin queue[r]) \/ Fetch(r, k)
<1>0. api'[k] = api[k]
  BY ApiStep
<1>1. ~RestartRuntime(r)
  BY <1>0 DEF RestartRuntime, RuntimeInv, RuntimeTypeOK
<1>2. CASE UNCHANGED runtimeVars
  BY <1>0, <1>1, <1>2 DEF runtimeVars
<1>3. CASE \E j \in Keys, o \in Object \cup {Absent} : Store(j, o)
  BY <1>0, <1>1, <1>3 DEF Store, RuntimeInv, RuntimeTypeOK
<1>4. ASSUME NEW q \in Replicas, NEW j \in Keys, Sync(q, j) \/ Fetch(q, j) \/ FetchMissing(q, j)
      PROVE  (synced[r][k] /\ k \notin queue[r]) \/ Fetch(r, k)
  <2>1. CASE Sync(q, j)
    BY <2>1 DEF Sync, RuntimeInv, RuntimeTypeOK
  <2>2. CASE Fetch(q, j)
    BY <2>2 DEF Fetch, RuntimeInv, RuntimeTypeOK
  <2>3. CASE FetchMissing(q, j)
    BY <1>0, <2>3 DEF FetchMissing, RuntimeInv, RuntimeTypeOK, CopiesAreCurrent
  <2>4. QED BY <1>4, <2>1, <2>2, <2>3
<1>5. ASSUME NEW q \in Replicas, NEW o \in Object, Ends(q, o)
      PROVE  synced[r][k] /\ k \notin queue[r]
  BY <1>5, EndEffect
<1>6. ASSUME NEW q \in Replicas, RestartRuntime(q)
      PROVE  synced[r][k] /\ k \notin queue[r]
  <2>1. q # r
    BY <1>1, <1>6
  <2>2. QED BY <1>6, <2>1 DEF RestartRuntime, RuntimeInv, RuntimeTypeOK
<1>7. QED BY <1>0, <1>1, <1>2, <1>3, <1>4, <1>5, <1>6 DEF RuntimeNext

(* Every copy of one object is in S. *)
CopiesOf(k, S) ==
  /\ api[k] # Absent => api[k] \in S
  /\ \A r \in Replicas : cache[r][k] # Absent => cache[r][k] \in S
  /\ \A r \in Replicas : held[r].key = k => held[r].obj \in S

LEMMA CopiesOfStep ==
  ASSUME NEW Object, RuntimeInv(Object), RuntimeNext(Object), NEW k \in Keys, NEW S, CopiesOf(k, S),
         api'[k] # Absent => api'[k] \in S
  PROVE  CopiesOf(k, S)'
<1>1. ASSUME NEW r \in Replicas, cache'[r][k] # Absent
      PROVE  cache'[r][k] \in S
  BY <1>1, CopyStep DEF CopiesOf
<1>2. ASSUME NEW r \in Replicas, held'[r].key = k
      PROVE  held'[r].obj \in S
  <2>1. CASE held'[r].key = held[r].key /\ held'[r].obj = held[r].obj
    BY <1>2, <2>1 DEF CopiesOf
  <2>2. CASE held'[r] = NotHeld
    BY <1>2, <2>2, AbsentAssumption DEF NotHeld
  <2>3. ASSUME NEW j \in Keys, Fetch(r, j),
               held'[r] = [key |-> j, obj |-> cache[r][j], current |-> synced[r][j]]
        PROVE  held'[r].obj \in S
    BY <1>2, <2>3 DEF Fetch, CopiesOf
  <2>4. QED BY <2>1, <2>2, <2>3, WorkStep
<1>3. QED BY <1>1, <1>2 DEF CopiesOf
=============================================================================
