------------------------- MODULE ControllerRuntime -------------------------
(***************************************************************************)
(* What every controller of the operator relies on from the Kubernetes API *)
(* server and from controller-runtime, for the objects of ONE kind.        *)
(*                                                                         *)
(*   api    the objects as the API server stores them                      *)
(*   cache  the informer copy of each object in each operator process; the *)
(*          manager's client answers Get and List from it                  *)
(*   synced whether that copy is the version the API server stores now     *)
(*   queue  the work queue of each process (a key waits at most once)      *)
(*   held   the object the reconcile in progress has read, and whether it  *)
(*          is still the stored version                                    *)
(*                                                                         *)
(* Resource versions are only ever compared for equality, so they are kept *)
(* as the two flags `synced' and `held.current': a write that changes an   *)
(* object makes every other copy of it out of date.  A write that changes  *)
(* nothing leaves the version alone and raises no watch event.  Requeueing *)
(* after a delay and after an error both put the key back: time is not     *)
(* modelled.                                                               *)
(*                                                                         *)
(* cmd/operator/main.go starts the manager with leader election off unless *)
(* -leader-elect is given, so there may be more than one process.          *)
(***************************************************************************)
CONSTANTS
  Replicas,  \* the operator processes
  Keys,      \* the names of the objects of this kind
  Absent,    \* stands for an object that does not exist
  NoKey      \* stands for "no reconcile in progress"

ASSUME AbsentAssumption == NoKey \notin Keys

ASSUME ProcessAssumption == Replicas # {}

VARIABLES api, cache, synced, queue, held

runtimeVars == <<api, cache, synced, queue, held>>

NotHeld == [key |-> NoKey, obj |-> Absent, current |-> FALSE]

RuntimeTypeOK(Object) ==
  /\ api    \in [Keys -> Object \cup {Absent}]
  /\ cache  \in [Replicas -> [Keys -> Object \cup {Absent}]]
  /\ synced \in [Replicas -> [Keys -> BOOLEAN]]
  /\ queue  \in [Replicas -> SUBSET Keys]
  /\ held   \in [Replicas -> [key : Keys \cup {NoKey}, obj : Object \cup {Absent}, current : BOOLEAN]]
  /\ \A r \in Replicas : held[r].key # NoKey => held[r].obj \in Object

RuntimeInit ==
  /\ api    = [k \in Keys |-> Absent]
  /\ cache  = [r \in Replicas |-> [k \in Keys |-> Absent]]
  /\ synced = [r \in Replicas |-> [k \in Keys |-> TRUE]]
  /\ queue  = [r \in Replicas |-> {}]
  /\ held   = [r \in Replicas |-> NotHeld]

-----------------------------------------------------------------------------
(* Another client of the API server (kubectl, frkrctl) stores o, or deletes *)
(* the object when o is Absent.                                             *)
Store(k, o) ==
  /\ o # api[k]
  /\ api'    = [api EXCEPT ![k] = o]
  /\ synced' = [q \in Replicas |-> [synced[q] EXCEPT ![k] = FALSE]]
  /\ held'   = [q \in Replicas |-> IF held[q].key = k
                                   THEN [held[q] EXCEPT !.current = FALSE] ELSE held[q]]
  /\ UNCHANGED <<cache, queue>>

(* The informer of r receives the latest version of k; the event handler    *)
(* queues the key.  Events in between are merged: only the last one counts. *)
Sync(r, k) ==
  /\ ~synced[r][k]
  /\ cache'  = [cache EXCEPT ![r][k] = api[k]]
  /\ synced' = [synced EXCEPT ![r][k] = TRUE]
  /\ queue'  = [queue EXCEPT ![r] = @ \cup {k}]
  /\ UNCHANGED <<api, held>>

(* A reconcile starts: the worker takes k and Get reads the informer copy.  *)
(* One worker per controller, so r must not be reconciling already.  When   *)
(* Get fails otherwise than by NotFound the key goes back: nothing changes. *)
Fetch(r, k) ==
  /\ k \in queue[r]
  /\ held[r].key = NoKey
  /\ cache[r][k] # Absent
  /\ queue' = [queue EXCEPT ![r] = @ \ {k}]
  /\ held'  = [held EXCEPT ![r] = [key |-> k, obj |-> cache[r][k], current |-> synced[r][k]]]
  /\ UNCHANGED <<api, cache, synced>>

(* Get answers NotFound: IgnoreNotFound ends the reconcile without error.   *)
FetchMissing(r, k) ==
  /\ k \in queue[r]
  /\ held[r].key = NoKey
  /\ cache[r][k] = Absent
  /\ queue' = [queue EXCEPT ![r] = @ \ {k}]
  /\ UNCHANGED <<api, cache, synced, held>>

(* Fault: the version is not compared, the last writer wins.                *)
StatusOverwritten(r, o) ==
  LET k == held[r].key
  IN /\ api[k] # Absent
     /\ api'    = [api EXCEPT ![k] = o]
     /\ synced' = [q \in Replicas |-> [synced[q] EXCEPT ![k] = @ /\ o = api[k]]]
     /\ held'   = [q \in Replicas |->
                     IF q = r THEN NotHeld
                     ELSE [held[q] EXCEPT !.current = @ /\ ~(held[q].key = k /\ o # api[k])]]
     /\ UNCHANGED cache

(* The reconcile of r ends by Status().Update with o accepted: only when    *)
(* the version it read is still the stored one.                             *)
StatusStored(r, o) ==
  LET k == held[r].key
      changed == o # held[r].obj
  IN /\ held[r].current
     /\ api'    = [api EXCEPT ![k] = o]
     /\ synced' = [q \in Replicas |-> [synced[q] EXCEPT ![k] = @ /\ ~changed]]
     /\ held'   = [q \in Replicas |->
                     IF q = r THEN NotHeld
                     ELSE [held[q] EXCEPT !.current = @ /\ ~(held[q].key = k /\ changed)]]
     /\ UNCHANGED cache

(* The reconcile of r ends without storing anything: an error return, or a  *)
(* status update the API server refused (conflict) or never received.       *)
NothingStored(r) ==
  /\ held' = [held EXCEPT ![r] = NotHeld]
  /\ UNCHANGED <<api, cache, synced>>

(* How the work queue is left when the reconcile of r ends.                 *)
Done(r)    == queue' = queue
Requeue(r) == queue' = [queue EXCEPT ![r] = @ \cup {held[r].key}]

(* The process crashes and is started again at any point: the reconcile in  *)
(* progress is lost, the informer lists every object and queues it.         *)
RestartRuntime(r) ==
  /\ cache'  = [cache EXCEPT ![r] = api]
  /\ synced' = [synced EXCEPT ![r] = [k \in Keys |-> TRUE]]
  /\ queue'  = [queue EXCEPT ![r] = {k \in Keys : api[k] # Absent}]
  /\ held'   = [held EXCEPT ![r] = NotHeld]
  /\ UNCHANGED api

-----------------------------------------------------------------------------
(* What the two flags mean: a copy marked up to date equals the stored      *)
(* object.                                                                  *)
CopiesAreCurrent ==
  /\ \A r \in Replicas, k \in Keys : synced[r][k] => cache[r][k] = api[k]
  /\ \A r \in Replicas : held[r].current => held[r].key \in Keys /\ held[r].obj = api[held[r].key]

(* Process r has nothing left to do about k.                                *)
Quiescent(r, k) == synced[r][k] /\ k \notin queue[r] /\ held[r].key # k
=============================================================================
