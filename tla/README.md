# frkr-operator in TLA+

A verification development of the frkr operator: TLA+ modules translated from
the Go source, TLC configurations that check them on small instances, and
theorems that TLAPS proves for instances of every size. Paths are relative to
the repository (`internal/controller/...`, `cmd/...`, `api/v1/...`).

## 1. The system

The operator reconciles custom resources. Seven controllers share one manager;
`frkrctl` creates and edits the resources.

| component | source | state it keeps | operations | what makes it correct |
|---|---|---|---|---|
| FrkrStream controller | `stream_controller.go` | status of the stream; tenant, record (database), topic (broker) | ensure tenant, create record, create topic, publish status; requeue on failure | a status names only what exists, for the spec stored when it is written; no failure loses the work |
| FrkrClient controller | `client_controller.go` | status; row; Secret `frkr-client-<name>` | choose or generate a credential, insert row, write Secret, publish | a published ID has a row; the Secret follows the spec; row and Secret agree (they need not) |
| FrkrUser controller | `user_controller.go` | status with password; row; Secret `frkr-user-<username>` | choose or generate a password, ensure tenant and row, write Secret, publish once | status is set once and backed by a row; a provided password wins; row and Secret agree |
| FrkrInit controller | `init_controller.go` | status (phase, version, dirty, conditions); schema of a database | run migrations, read version, check gateways, publish, poll | Ready only when migrated and gateways have been up; never stuck; a half-migrated database is never shown |
| FrkrAuthConfig controller | `auth_controller.go` | PreviousType; the set of users | on leaving basic list users and delete each; record the type | no switch is lost; a handled switch deletes no later user |
| FrkrTenant controller | `tenant_controller.go` | ID in the status; tenant row | ensure tenant, publish its ID unless the copy read has it | an ID is published only when its row exists; at rest it is the ID of the present name |
| FrkrDataPlane controller | `dataplane_controller.go` | conditions | two connectivity tests that are stubs | (nothing depends on an order of events) |
| infrastructure layer | `internal/infra/infra.go` | connections | EnsureTenant, CreateStream, CreateTopic, EnsureUser, EnsureClient | a retry finds what the last attempt made (CreateStream and EnsureUser leave that to the library) |
| operator process | `cmd/operator/main.go`, `controllers.go` | manager, caches, queues | start; leader election is off by default | two processes do no harm to each other |
| frkrctl | `cmd/frkrctl/*.go` | none | create, reset, delete; wait for an ID, a Secret or a timeout and print | what is printed is true of the database |

The parts interact only through stored state: the objects of the Kubernetes API
server (read from informer copies that lag behind), the database, the broker,
and Secrets. Nothing is transactional across them. The hard behaviour is
therefore: a reconcile is a sequence of calls, each of which may fail with or
without effect; the process may die between two of them; the copy it works from
may be old; another process may be doing the same; and a requeue is the only
memory of what is left to do. `PROJECT.json` lists each of these hazards at its
line.

## 2. The modules

| module | models | used by |
|---|---|---|
| `ControllerRuntime` | API server objects of one kind, informer copies, work queues, the reconcile in progress, optimistic locking, restart | every controller |
| `SecretStore` | Secrets, their informer copies, controller references and the garbage collector | Client, User |
| `StreamController` | `StreamReconciler` and its database and broker calls | `MCStream`, `StreamProofs` |
| `TenantController` | `TenantReconciler`; `frkrctl tenant create` with its wait | `MCTenant`, `TenantProofs`, `Onboarding` |
| `Provisioning` | the abstract promise of a provisioning controller | refined by `StreamController`, `TenantController` and `ClientController` |
| `ClientController` | `ClientReconciler` | `MCClient`, `ClientProofs`, `Onboarding` |
| `Onboarding` | `TenantController` and `ClientController` in the same processes over one database; `frkrctl client create` with its wait | `MCOnboarding`, `TenantProofs` |
| `UserController` | `UserReconciler`, `frkrctl user create/reset-password/delete` with the wait for the password | `MCUser`, `UserProofs` |
| `InitController` | `InitReconciler`, its migrations and gateways | `MCInit`, `InitProofs` |
| `AuthController` | `AuthConfigReconciler` and the users it deletes | `MCAuth`, `AuthProofs` |
| `RuntimeProofs`, `SecretProofs` | lemmas about the runtime and about Secrets, for any kind of object and data | the proof modules below |
| `StreamProofs`, `TenantProofs`, `ClientProofs`, `UserProofs`, `AuthProofs`, `InitProofs` | theorems about each controller; those about the composition are in `TenantProofs`, which instantiates `ClientProofs` | |

### How a module corresponds to the code

*Runtime.* `Fetch` is the `r.Get` that opens every `Reconcile` (it reads the
informer copy), `FetchMissing` its NotFound, `StatusStored` an accepted
`r.Status().Update`, `NothingStored` an error return or a refused or lost
update, `Requeue`/`Done` what the returned `ctrl.Result` and error do to the
queue. Resource versions are only compared for equality, so they are two flags:
`synced[r][k]` (the informer copy is the stored version) and `held[r].current`
(the object read is). `RuntimeProofs` proves that the flags mean what they say.
An update that changes nothing keeps the version and raises no event. One
worker per controller and process, a key waits at most once, events merge: this
is how controller-runtime works with its defaults, which the code keeps.
Requeueing after a delay and after an error are the same: time is not modelled.

*Reconcilers.* Each stage of `pc[r]` is the next call that changes something
outside the process. The action that performs it contains the whole call; the
action named `...Fails` is the error return of that call, with or without its
effect, and everything the code does on that path (status update, requeue).
Pure computation belongs to the action it precedes. Between two stages any
other actor may act, the process may restart, and the object may be edited.
In `StreamController` the Phase and the StreamCreated condition are functions of
the condition's reason, so the status keeps the reason; StreamID and Topic are
functions of tenant and name, so it keeps that pair.

*Secrets.* The write of a Secret reads the informer copy first; both are one
action whose write is accepted only if the copy is still right, so the stale
reads show up as refused writes.

*Names of users.* The code names the row and the Secret of a user by
`spec.username`; `UserController` names them by the object, which is how `frkrctl`
makes users. Users whose username is another than their name, edits of the
username and two FrkrUsers with one username (which share a row and a Secret and
overwrite each other) are outside the model.

*Credentials.* A generated credential is a member of `Generated` in use nowhere
else, which stands for a random string. `MCClient` and `MCUser` count how many
values are needed so that one is always free.

*Tenants.* A row is a name with an ID that the database makes and never takes
back; the status of a tenant shows that ID and Phase follows it, so the ID is
the status. `NothingToUpdate` is the path of `tenant_controller.go:50` that
writes nothing and so compares no version. `EnsureElsewhere` is the
`EnsureTenant` of users and streams, which may make the row first.

*Commands that wait.* `frkrctl tenant create`, `user create` and `client create`
create an object and then ask the API server (not an informer copy) once a
second until they find what they print, or the time is up. The creation is one
action (`CreateByCommand`, `CreateClient`), finding it another (`PollID`,
`PollPassword`, `PollSecret`), the timeout a third; between them anything may
happen. `waiting` and `awaiting` hold the commands that wait. `printed` keeps
the ID a tenant command printed; `shown` only that a credential was, since which
value it was says nothing that lasts. Two history variables are read by no action:
`untouched` holds the tenants that nobody edited since the command made them,
`revoked` the password that `reset-password` took out of the spec of a user. A
reset of a user whose spec has no password changes nothing and so is no step.

*Composition.* `Onboarding` extends `TenantController` and instantiates
`ClientController` with the IDs issued by the tenant rows in place of its
`tenants`. A process crashes with both controllers (`RestartBoth`). The ID a
client is created with is one that a tenant shows. `TenantCommands` and
`TenantNames` say which tenants `frkrctl tenant create` may make and which names
tenants may be given: the theorems are for all of them, the run leaves the
waiting command to `tenant`.

*Environment.* Users create, edit and delete objects up to `MaxEdits`
(`MaxChanges`); in `ClientController` alone tenants are made by other parts; the garbage
collector removes a Secret whose owner is gone; an administrator repairs a dirty
database; gateways come and go. `Disconnected` are processes whose database
handle is nil: `controllers.go:18` ("Continue anyway, controllers will handle nil
connections") and the tests allow it, and the reconcilers test for it, though
`main` exits when the first connection fails. There is always a `KafkaAdmin`:
the broker URL has a default. The common library is not in the repository:
`OnExisting` is what its `CreateUser` does to a row that exists, `AcceptsExisting`
whether its `CreateStream` takes a record that exists for success
(`infra.go:75-81` returns each of its errors, where `CreateTopic` and
`EnsureClient` look for "already exists"), and the runs say which behaviours they
allow. The migration library is external:
`Interrupted` is what a failed or killed run may leave.

Definitions introduced by "Fault:" are plausible mistakes (a dropped guard, an
ignored error, a missing reset). No action uses them: they take the place of the
definition that follows when a property is tested for its power to notice.

## 3. Runs

| run | instance | shows |
|---|---|---|
| `stream` | 2 processes (one without database), 1 stream, 2 tenants, 2 edits; tenants are symmetric | `StatusIsBacked`, `NothingForgotten`, `PublishesCurrentSpec`, refinement of `Provisioning` |
| `stream_live` | 1 process, 2 edits, `CreateStream` accepts existing records, fair | `EventuallyReady` |
| `client_two` | 2 processes, 6 generated values, 2 edits | `SecretFollowsSpec`, `SecretAtRest` |
| `client_faults` | 2 processes (one without database), failing Secret reads, provided credentials only, 3 edits, one of them a deletion | `ReadyIsBacked`, refinement of `Provisioning` |
| `client_diverges` | 1 process, 1 creation | **violated**: row and Secret have different generated credentials |
| `user_two` | 2 processes (one without database), 2 provided passwords, CreateUser keeps or replaces, 3 edits, one of them a deletion | `ProvidedPasswordWins`, `PopulatedOnce` |
| `user_live` | 1 process, 7 generated values, 3 edits, `frkrctl user create` among them, fair | `ActiveIsBacked`, `SecretAtRest`, `DatabaseMatchesSecret`, `ProvidedPasswordRevoked`, `PrintedMeansActive`, `EventuallyActive` |
| `user_status` | 1 process | **violated**: the status displays a password that is no longer the one in the Secret |
| `init` | 1 process, 2 databases, 2 migrations, 1 gateway, 2 changes, fair | `InitializedAtRest`, `VersionIsFinal`, `EventuallyInitialized` |
| `auth` | 2 processes, 2 users, 4 edits; processes and users are symmetric | `RecordedAtRest`, `KnownUsersDeleted`, `SettledUsersStay` |
| `tenant` | 2 processes, 1 tenant, 2 names, 2 IDs, 4 edits; processes and IDs are symmetric | `IdAtRest`, `PrintedIsItsOwn`, refinement of `Provisioning` |
| `onboarding` | 1 process, 1 tenant with 1 creation, 1 client with 2 creations or edits, 4 generated values, fair | `ShownIsBacked`, refinement of `ClientController`, `ClientsEventuallyReady`, `EventuallyPublished` |

Deadlock is not checked: when the edits are used up and the work is done the
system stops.

*Why these bounds are enough.* The controllers treat objects of one kind
independently: names do not meet in the outside resources unless two objects ask
for the same one. For streams, clients and tenants the second call then finds
what the first has made; two users with one username do disturb each other, and
are not modelled (section 2). So one object is reconciled by two processes, which
is where copies of different age meet. Two
edits give create-then-edit in every phase of a reconcile; a third adds a
deletion or a second edit; the four of `tenant` are create, rename, delete and
create again, the shortest way in which a reconcile of an earlier tenant meets
a command that waits for a later one. Two names let a row be made for somebody
else. `onboarding` asks what the two controllers owe to each other, so it has
one of everything and leaves edits and deletions of each to the runs above; its
commands create the client before, between and after the edits. `Commands` says
which users are made by `frkrctl user create`: none where the wait adds nothing to
what a run asks. `client_faults` and `user_two` have no generated values, since
two processes would need a dozen: a client or user without a credential in its
spec is stored there but never reconciled, and it is `client_two` and the theorems
that speak of those with two processes. `EventuallyReady` needs `AcceptsExisting`:
with a library that refuses an existing record TLC finds a stream that stays at
DatabaseError after a lost reply or a crash between record and topic, and a Ready
stream falls back to it on the reconcile that its own status update causes. A
refusal is a failure without effect, so the properties of `stream` hold either
way. Failures, crashes and retries are unbounded. Two
processes and liveness together exceed TLC; liveness is checked for one process,
and the safety statements "at rest ..." say the rest for two.

*Fairness.* `FairSpec`, and `FairOnboarding` for two controllers at once, assume
that a process keeps working, that informers deliver, that the queue is first-in first-out (strong fairness of `Turn`), and
that a call which is retried for ever for an up-to-date copy succeeds in the end
(strong fairness of each successful call). controller-runtime gives the first
three; the last is the least a controller can ask of its environment, and does
not exclude any finite number of failures or crashes, nor infinitely many. For an
init, also that the data plane, the gateways and a repair come in the end. No
fairness is assumed of a command or an administrator. The tenant of a client is
made by the tenant controller, under its own fairness: `ClientsEventuallyReady`
needs no assumption that it appears.

### Disagreements with what the repository says

* `client_diverges`: `client_controller.go:43` promises that a generated
  credential persists in the Secret; the row is written first and a retry
  generates another.
* `user_status`: `README.md:59` promises a display of the password in the status;
  the reconcile caused by that very status update replaces it elsewhere. After
  `reset-password`, `user.go:183` points to that status; by `PopulatedOnce` it never
  changes.
* `reset-password` resets nothing for a user whose spec has no password, and every
  user made by `frkrctl user create` is one. `user.go:153` ("updates FrkrUser CRD to
  trigger reset"), `:176` ("Clear password to trigger regeneration") and `:182`
  ("Password reset for user ...") say otherwise; the update writes the object as it
  is, so no event is raised, no reconcile follows, and the Secret and the database
  keep their password. This takes no search: `Store` refuses an update that changes
  nothing, so `ResetPassword` is not enabled. Only where the spec had a password
  does the command replace it: that one is gone at rest (`ProvidedPasswordRevoked`),
  and the new one is in the Secret.

Seen while modelling, and kept as prose because they need no search:
`README.md:62` says that a switch of the type deletes the basic users, but errors
of the List and of each Delete are dropped, the list may be older than the newest
user, and the switch counts as handled (`KnownUsersDeleted` says which users are
spared); users and streams hand their tenant to `EnsureTenant` as a name, though
`stream_types.go:9` and `user_types.go:16` speak of an ID and the flag is
`--tenant-id`, so the ID that `tenant create` prints makes a tenant named by it,
while the same ID is right for clients; the password that `user create` prints
may be replaced a moment later by the second reconcile of the user; nothing
deletes topics, records or rows (`README.md:60` says create/update/delete); a
credential edited in the spec of a client does not reach an existing row; an
object that is deleted and created again may lose its Secret to the garbage
collector (`SecretAtRest` fails with `MaxDeletes = 1`); a config that leaves basic
before its first reconcile deletes nobody; `MigrationsComplete=False` is never
set back; the `RequeueAfter: 5` and `30` of the stream, client and user controllers are
nanoseconds, not seconds (time is not modelled); `Ready=True` outlives a later failed migration; `Dirty` never
becomes true although the API documents it, since the version is read only after
the migrations have succeeded (`VersionIsFinal`); an edit of the data plane and a
gateway that goes away queue no init.

## 4. Theorems

Every invariant, action property and refinement that a passing run checks is
also the statement of a theorem, for any sets of processes, objects, names and
values and any number of edits. A theorem assumes the named assumptions of its
module: the special values (`Absent`, `Unset`, `NoRow` ...) differ from ordinary
ones, bounds are numbers, there is at least one process (`ProcessAssumption`).
Where it needs more, the condition is an `ASSUME` of the theorem itself, given
below with the reason; the run of the property satisfies it, and without it the
property is false: TLC finds a counterexample.

Of every controller a theorem `TypeCorrect` says that the types are right and
that a copy marked up to date is the stored object (`CopiesAreCurrent`, and
`SecretCopiesAreCurrent` for Secrets). This is what makes optimistic locking and
merged events usable in the other proofs.

`RuntimeProofs` describes what each kind of step does to the stored object
(`ObjectStep`), an informer copy (`CacheStep`), the reconcile in progress
(`HeldStep`), the queue (`QueueStep`), all copies of one object (`CopiesStep`), and
a key at rest (`RestStep`); `EndEffect` says what the end of a reconcile can do.
`SecretProofs` does the same for Secrets. Both know nothing of a controller, so
every controller uses them.

*The argument that nothing is forgotten* is the same wherever a property says "at
rest": the queue, an outdated copy, or the reconcile in progress remembers each
object, until a copy has converged. The subtle step is a status update that
changes nothing: no event follows, but then the copy has converged.

*Streams* (`StreamProofs`).
* `StatusBacked`: `StatusIsBacked`. It is not inductive alone, because a reconcile
  writes back the status it read long ago. The invariant `BackedInv` adds that
  every copy of a status (stored, informer, held) is backed, and that a reconcile
  about to make the next resource has made the ones before (`Progress`). It is
  preserved because resources are only added (`Monotone`).
* `CurrentSpecPublished`: from the flags, a status update is accepted only for the
  stored object.
* `NothingIsForgotten`: with `NothingLost`.
* `KeepsPromise`: the refinement of `Provisioning`. The mapping is `Made` (rows and
  topics tagged by kind) and `Claims` (what each status names). A failing call
  that had its effect and rewrites the reason is still one abstract step.

*Tenants* (`TenantProofs`).
* `PrintedRight`: `PrintedIsItsOwn`. The invariant `PrintedInv` adds that a reconcile
  about to publish holds the ID of the row of its own object (`EnsuredIsItsRow`),
  and that a tenant as the command made it has its name and, if any, the ID of
  its row. A reconcile of an earlier tenant with another name cannot publish,
  because its version is not the stored one.
* `NothingIsForgotten`: `IdAtRest`, with `NothingLost`. A reconcile that writes nothing
  is the subtle step: it looked at the object it holds, so the invariant needs
  that this object is the informer copy, or the key is queued (`HeldIsCached`).
* `KeepsPromise`: the refinement of `Provisioning`, with the issued IDs as what is
  made. Every step changes the rows or one tenant, never both (`OneChange`).

*Clients* (`ClientProofs`).
* `ReadyBacked`: `ReadyIsBacked`, with no condition: a process without a database
  cannot invent an ID. `BackedInv` as for streams.
* `SecretFollows`: `SecretFollowsSpec`, if reads of Secrets do not fail (after any
  error but NotFound the code writes nothing and goes on to Ready). Several processes write the
  same Secret from copies of different age. `Todo(r, k)` says that `r` will still
  write the Secret of `k` from the present spec; `FollowInv`, that the Secret
  follows the spec or somebody has it to do. It holds because a write from an old
  copy leaves its writer with the update to see, and the reconcile that follows
  writes again.
* `SecretStays`: `SecretAtRest`, under the same condition, if some process is connected
  (a connected process at rest has published the row: `PublishedInv`) and no client is
  deleted. A client that is deleted and made again may find the Secret
  owned by the earlier one, which the garbage collector then takes. Without
  deletions every copy has the uid of the stored object (`SameUid`), so the
  Secret, once written, is never collected (`ExistsInv`).
* `KeepsPromise`: the refinement of `Provisioning`, with tenants and rows as what is
  made. It needs `BackedInv`, and that a row is only inserted under a tenant that
  exists (`RowTenants`). A process without a database publishes the ID it read, so
  its step is a stutter.
* `SecretBacked`, `SecretKept`: a Secret shows a client ID of a row in a tenant that
  exists (every process connected), and it stays (no deletion).

*Users* (`UserProofs`).
* `PasswordKept`: `PopulatedOnce`. No step changes a password that a status shows:
  a reconcile that publishes read a status without one, and its copy is the
  stored object.
* `ProvidedWins`: `ProvidedPasswordWins`, with no condition, by `Todo` and `FollowInv` as
  for clients; `Fits` says what a password may be for a spec.
* `SecretStays`: `SecretAtRest` without deletions, for the same reason as clients.
* `ActiveBacked`, `PrintedActive`: `ActiveIsBacked` and `PrintedMeansActive`, with every
  process connected: without a database handle the code publishes a password all
  the same. `RowInv`: until a user has a row nothing shows a password of it, in no
  copy, no Secret and no command.
* `DatabaseMatches`: `DatabaseMatchesSecret`, under `OneWriter`: one connected process,
  and a database that replaces the password of a row that exists. Two processes
  that interleave their two writes each leave row and Secret apart, and so does a
  database that keeps the old password. `WrittenInv` says that the row has the
  password on its way to the Secret; `MatchInv`, that the two agree or somebody
  has them to do. With no deletion too, `ResetEffective` gives
  `ProvidedPasswordRevoked`, when no generated password is one that users provide:
  a spec out of which a password was taken has none (`RevokedInv`), so by
  `FollowInv` and `MatchInv` Secret and row have a generated one.

*Auth configs* (`AuthProofs`).
* `SwitchRecorded`: `RecordedAtRest`.
* `NobodySpared`: `KnownUsersDeleted`. `KnownInv` follows the users known at the switch:
  its config still shows the switch (`KnownShown`), every informer has them
  (`KnownSeen`), and the one reconcile whose update can be accepted still has them
  to delete (`KnownToDo`).
* `SettledStay`: `SettledUsersStay`. While there are settled users no copy of any
  config, however old, shows a switch, and nobody is in the middle of one (`Calm`).

*Inits* (`InitProofs`).
* `StatusIsFinal`: `VersionIsFinal`. Past the migrations the database is migrated and
  stays so (`PastMigrations`), and no status, stored, copied or in the making,
  shows less (`FinalInv`).
* `InitializedIsTrue`: `InitializedAtRest`. `WorkInv` says that what a process has seen of
  the surroundings is true (`SeenIsTrue`), that it works on the database its copy
  asks for (`TargetIsAsked`), and that the gateways it has checked have been up
  (`CheckedWereUp`).

*Tenants and clients together* (`TenantProofs`, under `OnboardingAssumption`).
* `ImplementsTenants`: the client controller and its command leave tenants alone,
  and a process restarts for both controllers at once. So the theorems about
  tenants hold of the composition.
* `ImplementsClientController`: `ImplementsClients`, for any `TenantCommands` and
  `TenantNames`. `ClientController` lets tenants appear one at a time; the tenant
  controller and `frkrctl tenant create` do no more, because a step issues at most
  one ID (`RowsStep`). The run checks it for tenants applied under a name. `frkrctl client create`
  creates what a user of `ClientController` may create, because a status shows only
  IDs (`TypeCorrect`).
* `ShownBacked`: `ShownIsBacked`, with every process connected. This is where the
  refinement pays: `CP` is `ClientProofs` of the clients of the composition, so
  `SecretBacked` and `SecretKept` hold of it, and what is left to show is that the
  command has shown only Secrets that exist (`ShownExists`).

*Only model-checked*: liveness (`EventuallyReady`, `EventuallyActive`,
`EventuallyInitialized`, `ClientsEventuallyReady`, `EventuallyPublished`), because TLAPS
proves no ENABLED and hence uses no fairness; and the two statements the code
violates, of which TLC shows a counterexample.

## 5. Not modelled

*FrkrDataPlane.* Both connectivity tests are stubs that return true
(`dataplane_controller.go:86-96`): every reconcile computes the same status from
nothing it reads, the second one changes nothing, and no other controller reads
that status. A model of it would have one status and no question to ask.
`InitController` has the data plane as the object its database URL comes from.

*frkrctl setup and metrics* ask questions or format numbers and change no state.
*Generated code* is value semantics, which TLA+ has. Of the modelled parts:
flags and logging, `GetStream` (no caller), description, retention, plans, roles,
stream scopes, namespaces, the value a command prints for a credential, time.

## 6. Plan

1. Users as a refinement of an abstract specification: a password in a status
   stands for a row under *some* tenant, which `Provisioning` cannot say.
2. `AuthController` composed with `UserController`: the deletion of a user and the
   Secret and row it leaves behind.
