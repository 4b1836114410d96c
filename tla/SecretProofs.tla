---------------------------- MODULE SecretProofs ----------------------------
(***************************************************************************)
(* What the steps of SecretStore preserve, for any kind of data: the types *)
(* of its variables, and that a copy marked up to date equals the stored   *)
(* Secret.                                                                 *)
(***************************************************************************)
EXTENDS SecretStore, RuntimeProofs

SecretInv(Data) == SecretTypeOK(Data) /\ SecretCopiesAreCurrent

(* Every step of a controller, as the store of Secrets sees it. *)
SecretNext(Data) ==
  \/ UNCHANGED secretVars
  \/ \E r \in Replicas, k \in Keys, owner \in Nat, data \in Data : ApplySecret(r, k, owner, data)
  \/ \E r \in Replicas, k \in Keys : SyncSecret(r, k)
  \/ \E k \in Keys : CollectSecret(k)
  \/ \E r \in Replicas : RestartSecrets(r)

LEMMA SecretInitOK ==
  ASSUME NEW Data, SecretInit
  PROVE  SecretInv(Data)
BY DEF SecretInit, SecretInv, SecretTypeOK, SecretCopiesAreCurrent

LEMMA PutSecretOK ==
  ASSUME NEW Data, NEW k \in Keys, NEW s \in Secret(Data) \cup {NoSecret},
         SecretInv(Data), PutSecret(k, s)
  PROVE  SecretInv(Data)'
<1>1. /\ secrets' = [secrets EXCEPT ![k] = s]
      /\ secretSynced' = [r \in Replicas |-> [secretSynced[r] EXCEPT ![k] = secretSynced[r][k] /\ s = secrets[k]]]
      /\ UNCHANGED secretCache
  BY DEF PutSecret
<1>2. secretSynced' \in [Replicas -> [Keys -> BOOLEAN]]
  <2>1. ASSUME NEW r \in Replicas
        PROVE  [secretSynced[r] EXCEPT ![k] = secretSynced[r][k] /\ s = secrets[k]] \in [Keys -> BOOLEAN]
    BY DEF SecretInv, SecretTypeOK
  <2>2. QED BY <1>1, <2>1
<1>3. SecretTypeOK(Data)'
  BY <1>1, <1>2 DEF SecretInv, SecretTypeOK
<1>4. ASSUME NEW r \in Replicas, NEW j \in Keys, secretSynced'[r][j]
      PROVE  secretCache'[r][j] = secrets'[j]
  <2>1. secretSynced[r][j] /\ (j = k => s = secrets[k])
    BY <1>1, <1>4 DEF SecretInv, SecretTypeOK
  <2>2. QED BY <1>1, <2>1 DEF SecretInv, SecretTypeOK, SecretCopiesAreCurrent
<1>5. QED BY <1>3, <1>4 DEF SecretInv, SecretCopiesAreCurrent

(* What an accepted write leaves: the new data, under the owner there was   *)
(* if there was a Secret.                                                   *)
LEMMA ApplyEffect ==
  ASSUME NEW Data, NoSecret \notin Secret(Data), NEW r \in Replicas, NEW k \in Keys,
         NEW owner \in Nat, NEW data \in Data,
         SecretInv(Data), ApplySecret(r, k, owner, data)
  PROVE  \E s \in Secret(Data) :
           /\ PutSecret(k, s) /\ secrets' = [secrets EXCEPT ![k] = s]
           /\ s.data = data
           /\ s.owner = IF secrets[k] = NoSecret THEN owner ELSE secrets[k].owner
<1>1. CASE CreateSecret(r, k, owner, data)
  <2>1. [owner |-> owner, data |-> data] \in Secret(Data)
    BY DEF Secret
  <2>2. QED BY <1>1, <2>1 DEF CreateSecret, PutSecret
<1>2. CASE ReplaceSecret(r, k, data)
  <2>1. secrets[k] # NoSecret /\ secrets[k] \in Secret(Data)
    BY <1>2 DEF ReplaceSecret, SecretInv, SecretTypeOK, SecretCopiesAreCurrent
  <2>2. /\ [secrets[k] EXCEPT !.data = data] \in Secret(Data)
        /\ [secrets[k] EXCEPT !.data = data].data = data
        /\ [secrets[k] EXCEPT !.data = data].owner = secrets[k].owner
    BY <2>1 DEF Secret
  <2>3. QED BY <1>2, <2>1, <2>2 DEF ReplaceSecret, PutSecret
<1>3. QED BY <1>1, <1>2 DEF ApplySecret

LEMMA SecretStepOK ==
  ASSUME NEW Data, NoSecret \notin Secret(Data), SecretInv(Data), SecretNext(Data)
  PROVE  SecretInv(Data)'
<1>1. CASE UNCHANGED secretVars
  BY <1>1 DEF secretVars, SecretInv, SecretTypeOK, SecretCopiesAreCurrent
<1>2. CASE \E r \in Replicas, k \in Keys, owner \in Nat, data \in Data : ApplySecret(r, k, owner, data)
  BY <1>2, ApplyEffect, PutSecretOK
<1>3. CASE \E r \in Replicas, k \in Keys : SyncSecret(r, k)
  BY <1>3 DEF SyncSecret, SecretInv, SecretTypeOK, SecretCopiesAreCurrent
<1>4. CASE \E k \in Keys : CollectSecret(k)
  BY <1>4, PutSecretOK DEF CollectSecret
<1>5. CASE \E r \in Replicas : RestartSecrets(r)
  BY <1>5 DEF RestartSecrets, SecretInv, SecretTypeOK, SecretCopiesAreCurrent
<1>6. QED BY <1>1, <1>2, <1>3, <1>4, <1>5 DEF SecretNext
=============================================================================
