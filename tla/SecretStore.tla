---------------------------- MODULE SecretStore ----------------------------
(***************************************************************************)
(* The Kubernetes Secrets in which the client and the user reconcilers     *)
(* keep credentials: one per object, named after it, with the object as    *)
(* controller reference.  A reference is a uid, so an object that is       *)
(* deleted and created again does not own the Secret of the one before.    *)
(* The reconcilers watch their own kind only: a change of a Secret queues  *)
(* nothing, and reads of Secrets come from an informer copy of its own.    *)
(*                                                                         *)
(* The reconcile step that writes the Secret reads the copy first.  Both   *)
(* are one action here: the write is accepted only if the copy is still    *)
(* right when it arrives, whatever happened in between.                    *)
(***************************************************************************)
EXTENDS ControllerRuntime, Naturals

CONSTANT NoSecret  \* stands for a Secret that does not exist

VARIABLES
  secrets,       \* secrets[k]: the Secret of object k as the API server stores it
  secretCache,   \* the informer copy of it in each process
  secretSynced   \* whether that copy is the stored version

secretVars == <<secrets, secretCache, secretSynced>>

Secret(Data) == [owner : Nat, data : Data]

SecretTypeOK(Data) ==
  /\ secrets      \in [Keys -> Secret(Data) \cup {NoSecret}]
  /\ secretCache  \in [Replicas -> [Keys -> Secret(Data) \cup {NoSecret}]]
  /\ secretSynced \in [Replicas -> [Keys -> BOOLEAN]]

SecretInit ==
  /\ secrets      = [k \in Keys |-> NoSecret]
  /\ secretCache  = [r \in Replicas |-> [k \in Keys |-> NoSecret]]
  /\ secretSynced = [r \in Replicas |-> [k \in Keys |-> TRUE]]

(* The API server stores s, or nothing when s is NoSecret.  An update that  *)
(* changes nothing leaves the version alone.                                *)
PutSecret(k, s) ==
  /\ secrets' = [secrets EXCEPT ![k] = s]
  /\ secretSynced' = [r \in Replicas |-> [secretSynced[r] EXCEPT ![k] = @ /\ s = secrets[k]]]
  /\ UNCHANGED secretCache

(* Create, when the copy says there is none: refused if there is one.       *)
CreateSecret(r, k, owner, data) ==
  /\ secretCache[r][k] = NoSecret
  /\ secrets[k] = NoSecret
  /\ PutSecret(k, [owner |-> owner, data |-> data])

(* Update of the copy with new data, its owner kept: refused if out of date. *)
ReplaceSecret(r, k, data) ==
  /\ secretCache[r][k] # NoSecret
  /\ secretSynced[r][k]
  /\ PutSecret(k, [secrets[k] EXCEPT !.data = data])

ApplySecret(r, k, owner, data) == CreateSecret(r, k, owner, data) \/ ReplaceSecret(r, k, data)

(* The informer of r receives the latest version. *)
SyncSecret(r, k) ==
  /\ ~secretSynced[r][k]
  /\ secretCache'  = [secretCache EXCEPT ![r][k] = secrets[k]]
  /\ secretSynced' = [secretSynced EXCEPT ![r][k] = TRUE]
  /\ UNCHANGED secrets

Owned(k) == api[k] # Absent /\ api[k].uid = secrets[k].owner

(* The garbage collector of Kubernetes removes a Secret whose owner is gone. *)
CollectSecret(k) ==
  /\ secrets[k] # NoSecret
  /\ ~Owned(k)
  /\ PutSecret(k, NoSecret)

RestartSecrets(r) ==
  /\ secretCache'  = [secretCache EXCEPT ![r] = secrets]
  /\ secretSynced' = [secretSynced EXCEPT ![r] = [k \in Keys |-> TRUE]]
  /\ UNCHANGED secrets

SecretCopiesAreCurrent ==
  \A r \in Replicas, k \in Keys : secretSynced[r][k] => secretCache[r][k] = secrets[k]
=============================================================================
