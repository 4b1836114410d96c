----------------------------- MODULE Onboarding -----------------------------
(***************************************************************************)
(* A tenant and its client from end to end: TenantController and           *)
(* ClientController in the same processes over the same database, and      *)
(* frkrctl client create (cmd/frkrctl/client.go), which is given the ID    *)
(* that the tenant shows and waits for the Secret of the client.           *)
(*                                                                         *)
(* ClientController has tenants made by other parts; here the tenant rows  *)
(* are those of TenantController, known to clients by their ID.  No client *)
(* is deleted.                                                             *)
(***************************************************************************)
EXTENDS TenantController

CONSTANTS
  Clients, ClientIds, Given, Generated, Unset, NoRow, NoSecret, Disconnected,
  ReadErrors, MaxClientEdits,
  TenantCommands,  \* tenants that may be created with frkrctl tenant create
  TenantNames      \* names, Unnamed among them, that tenants may be given

VARIABLES
  cApi, cCache, cSynced, cQueue, cHeld,  \* the runtime of FrkrClients
  secrets, secretCache, secretSynced,
  clients, cPc, chosen, cEdits, deletes,
  awaiting,  \* the clients whose Secret a frkrctl client create waits for
  shown      \* the clients whose credential it has shown as ready

C == INSTANCE ClientController WITH
  Keys <- Clients, Tenants <- Ids, MaxEdits <- MaxClientEdits, MaxDeletes <- 0,
  api <- cApi, cache <- cCache, synced <- cSynced, queue <- cQueue, held <- cHeld,
  tenants <- Issued, pc <- cPc, edits <- cEdits

ASSUME OnboardingAssumption ==
  /\ NoKey \notin Clients
  /\ MaxClientEdits \in Nat
  /\ ReadErrors \in BOOLEAN
  /\ Unset \notin C!Value
  /\ NoRow \notin C!Row
  /\ Absent \notin C!Object
  /\ NoSecret \notin C!Secret(C!Data)

tenantVars == <<runtimeVars, rows, pc, ensured, cli, edits>>
clientVars == <<cApi, cCache, cSynced, cQueue, cHeld, secrets, secretCache, secretSynced,
                clients, cPc, chosen, cEdits, deletes>>
command == <<awaiting, shown>>
allVars == <<tenantVars, clientVars, command>>

OnboardingInit ==
  /\ Init /\ C!Init
  /\ awaiting = {} /\ shown = {}

(* Fault: an object that exists is replaced.                                *)
CreateClientReplacing(k) ==
  /\ cEdits < MaxClientEdits
  /\ cEdits' = cEdits + 1
  /\ k \notin awaiting
  /\ \E t \in Keys, c \in ClientIds, s \in Given \cup {Unset} :
       /\ api[t] # Absent /\ api[t].id # NoId
       /\ C!Store(k, [uid |-> cEdits', status |-> C!NewStatus,
                     spec |-> [row |-> [tenant |-> api[t].id, clientId |-> c], secret |-> s]])
  /\ awaiting' = awaiting \cup {k} /\ shown' = shown \ {k}
  /\ UNCHANGED <<tenantVars, secrets, secretCache, secretSynced, clients, cPc, chosen, deletes>>

(* The ID of the tenant is the one its status shows (frkrctl tenant get).   *)
CreateClient(k) ==
  /\ cEdits < MaxClientEdits
  /\ cEdits' = cEdits + 1
  /\ k \notin awaiting
  /\ \E t \in Keys, c \in ClientIds, s \in Given \cup {Unset} :
       /\ api[t] # Absent /\ api[t].id # NoId
       /\ C!CreateObject(k, [row |-> [tenant |-> api[t].id, clientId |-> c], secret |-> s])
  /\ awaiting' = awaiting \cup {k} /\ shown' = shown \ {k}
  /\ UNCHANGED <<tenantVars, secrets, secretCache, secretSynced, clients, cPc, chosen>>

PollSecret(k) ==
  /\ k \in awaiting
  /\ secrets[k] # NoSecret
  /\ awaiting' = awaiting \ {k} /\ shown' = shown \cup {k}
  /\ UNCHANGED <<tenantVars, clientVars>>

ClientTimeOut(k) ==
  /\ k \in awaiting
  /\ awaiting' = awaiting \ {k}
  /\ UNCHANGED <<tenantVars, clientVars, shown>>

(* Tenants are applied with kubectl, or created by frkrctl tenant create.   *)
TenantStep ==
  /\ Step
  /\ waiting' \subseteq TenantCommands
  /\ \A t \in Keys : api'[t] # Absent => api'[t].name \in TenantNames
  /\ UNCHANGED <<clientVars, command>>

ClientStep(A) == UNCHANGED <<tenantVars, command>> /\ A

(* One process runs both controllers: they crash together.                  *)
RestartBoth(r) == Restart(r) /\ C!Restart(r) /\ UNCHANGED command

OnboardingNext ==
  \/ TenantStep
  \/ \E k \in Clients : CreateClient(k) \/ PollSecret(k) \/ ClientTimeOut(k)
  \/ ClientStep(C!UserEdit)
  \/ \E r \in Replicas, k \in Clients : ClientStep(C!Watch(r, k) \/ C!WatchSecret(r, k))
  \/ \E r \in Replicas : ClientStep(C!Reconcile(r)) \/ RestartBoth(r)

OnboardingSpec == OnboardingInit /\ [][OnboardingNext]_allVars

(* The fairness of both controllers, as they state it.                      *)
ClientFairness ==
  \A r \in Replicas :
    /\ WF_allVars(ClientStep(C!Reconcile(r)))
    /\ \A k \in Clients :
         /\ WF_allVars(ClientStep(C!Watch(r, k)))
         /\ WF_allVars(ClientStep(C!WatchSecret(r, k)))
         /\ SF_allVars(ClientStep(C!Turn(r, k)))
         /\ SF_allVars(ClientStep(C!WorkingOn(r, k) /\ C!EnsureClient(r)))
         /\ SF_allVars(ClientStep(C!WorkingOn(r, k) /\ C!PersistSecret(r)))
         /\ SF_allVars(ClientStep(C!WorkingOn(r, k) /\ C!UpdateStatus(r)))

FairOnboarding == OnboardingSpec /\ Fairness /\ ClientFairness

-----------------------------------------------------------------------------
(* The composition behaves as ClientController assumes of its surroundings: *)
(* tenants appear one by one, are there to stay, and a step of the tenant   *)
(* controller or of a command is no other step of a client.  What is        *)
(* checked of ClientController alone holds here too.                        *)
ImplementsClients == C!Spec

(* client.go:91 "Client Credential Ready!": once the command has said so,   *)
(* the database has a client of the client ID that the Secret shows, in a   *)
(* tenant that exists, whatever edits and failures follow.                  *)
ShownIsBacked ==
  \A k \in shown : \E w \in C!Row :
    w.tenant \in Issued /\ w.clientId = secrets[k].data.clientId /\ clients[w] # Unset

(* Every client whose tenant ID has been issued becomes Ready with a Secret *)
(* again and again, whatever fails and crashes in either controller.        *)
ClientsEventuallyReady ==
  \A k \in Clients :
    []<>(cApi[k] # Absent /\ cApi[k].spec.row.tenant \in Issued =>
           cApi[k].status.id = cApi[k].spec.row /\ secrets[k] # NoSecret)
=============================================================================
