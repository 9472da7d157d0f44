# A TLA+ model of the local identity, management and storage system

This directory models the concurrent, replicated and crash-exposed parts of the
repository in TLA+, checks them with TLC on small instances, and proves the
properties that matter most with TLAPS for every instance. `PROJECT.json` holds the
same information in a form tools can read: which definition models which lines
(`map`), what every run checks, one seeded defect per property that the run must
catch (`mutants`), the hazards of the code and the theorems.

Paths below are relative to the repository. `Module!Name` is a definition.

## The system

An installation has three services, which run as three processes or inside the
desktop application, and any number of devices.

* The **IdP** (`crates/idp-*`) authenticates users, registers clients, takes
  consent and issues tokens.
* **Management** (`crates/management-*`) is the control plane: devices and their
  approval, the resources each device selects, roles and permissions.
* **Storage** (`crates/storage-*`) keeps databases and filesystems of a user and an
  application on a device, answers requests for them and synchronizes them with the
  other devices of the owner, asking the IdP about tokens and Management about peers.
* **Bootstrap** (`crates/bootstrap-service`) writes the baseline of a new
  installation. The **desktop application** (`apps/app/src-tauri`) decides between
  setup and normal operation, serves everything on localhost over a certificate of
  its own, and resets the device.
* In the browser, `packages/oidc-client` keeps a session per origin and
  `crates/tauri-plugin-fetch-api` carries `fetch` into the native process.

IdP and Management keep their rows in a replicated database (`ofdb`): every node
changes its own copy, copies are exchanged at any time, and concurrent writes leave a
column with several values until somebody resolves it. Most methods of the services
are several statements with an `await` between them; most hazards of this code lie in
what may happen there.

## Modules

| Module | Code | State and actions |
|---|---|---|
| `ReplicatedRow` | `ofdb` as the repositories use it (external) | a cell is the set of its concurrent values with the changes that wrote them; merge, read, overwrite |
| `SelectionPolicy` | `management-service/src/replica/selection_policy.rs` and its routes | policy row and resource rows per device and replica; select, deselect, deselect all, restrict, read with conflict resolution, exchange; every write is a step of its own, later than the reads that decided it |
| `DeviceEnrollment` | `management-service/src/{device_enrollment,replica/device_repo}.rs`, `idp-server/src/{router/routes/setup.rs,bootstrap/}` | device rows, in-memory grants, requests and connections as tasks; every statement a step; expiry, abandoned requests, restart |
| `PeerAllowlist` | `idp-server/src/cli/run.rs`, `idp-server/src/bootstrap/registry.rs` | composes `DeviceEnrollment` with the transport: listing, which fails while a row is in conflict, installing, admission for bootstrap |
| `OAuth2Grants` | `idp-service/src/oauth2/service.rs`, `idp-service/src/replica/oauth2_*_repo.rs` | consents, codes, tokens, keys; approve, revoke, authorize, redeem, refresh, exchange, statement by statement |
| `ConflictResolution` | `idp-model/src/replica.rs` | a token row and another row on several nodes; row-by-row checks, and resolutions with their audit record |
| `UserAccounts` | `idp-service/src/replica/user_repo.rs`, user operations of `oauth2/service.rs` | users, credentials, addresses; login, password reset, primary address, creation, deletion |
| `ServiceClients` | `idp-service/src/replica/{client,application,key}_repo.rs`, `repo/key_service.rs`, `idp-server/src/cli/provision_service_client.rs` | applications, client rows, key rows, keyring entries, credential files |
| `AccessControl` | `management-service/src/replica/{role,permission}_repo.rs`, routes and authorization of `management-server` | four tables as one sequence of rows and a set of live ids; the four-read authorization of every request |
| `StorageAccess` | `storage-server/src/{idp_client,management_client}.rs` and `router/`, `management-service/src/hosted_control_plane.rs`, introspection and client credentials of the IdP | time, service tokens and their caches, requests and sockets, the storage allowlist |
| `DatabaseCatalog`, `DatabaseRuntime` | `storage-service/src/database_{catalog,runtime}.rs` | catalog file, two caches behind two mutexes, calls on several threads |
| `ResourceLife` | what storage promises of a resource | abstract specification: a deletion is final and blocks every later open |
| `FileSystemRuntime` | `storage-service/src/scoped_file_system.rs`, `storage-server/src/{storage_protocol,router/storage_socket}.rs` | catalog, opened instances behind one mutex, sessions, the eviction tick |
| `StorageRequests` | `storage-service/src/service.rs` | overlapping requests over one filesystem, one step per filesystem call |
| `Residency` | `storage-service/src/residency.rs` | policy in memory and on disk, saving by rename |
| `ResourceSync` | `storage-server/src/{database,storage}_protocol.rs`, `AuthorizedTransport` | both ends of every stream, each device's catalog, copy and view of the policy |
| `ServerLife` | `{idp,management,storage}-server/src/cli/run.rs`, `api/src/serve.rs`, `storage-server/src/{network/peer_network,replication_runtime}.rs` | start step by step, background tasks and the peer sessions they detach, endpoint key, signal and shutdown |
| `InstallationSetup` | `bootstrap-service`, `apps/app/src-tauri/src/{setup,runtime,app}.rs` | the baseline call by call, starts, exits, Reset Device |
| `DesktopServer` | `apps/app/src-tauri/src/{localhost_server,localhost_trust,runtime,app}.rs` | certificate files, trust stores, marker, self-check, closing |
| `FetchBridge` | `tauri-plugin-fetch-api/src/backend.rs`, `guest-js/index.ts` | page, commands, task, frames, two registries and their locks |
| `OidcSession` | `packages/oidc-client/src` | pages over one storage: sign-in, callback with a code or with tokens in its address, refresh, sign-out, reload |

`MC*` modules give the constants values. `*Proofs` modules hold theorems and
the inductive invariants they rest on.

Data is abstracted to what the properties tell apart: a key, token, name or payload is
a model value, a body is its number of chunks, a certificate is the pair it is for and
the authority that signed it. Control is kept: each write, early return, error path
and their order. `SelectionPolicy` merges consecutive reads in three places, which its
header names; no write is merged with a read that decides it. Definitions whose
comment begins with *Defect* or *Mutant* are seeded bugs that no specification uses.

### What is assumed of code outside the repository

* `ofdb`: a statement list passed to `execute` is atomic; writing the value a column
  already holds is no change; a conflict is several distinct values; an UPDATE or a
  resolution replaces every value visible where it runs; an INSERT of an existing
  primary key or unique value fails; exchange may happen at any time
  (`idp-server/src/bootstrap/handler.rs:96`); `resolve_row` writes exactly the columns
  it is given. The database file is opened exclusively, so the provisioning command
  never overlaps a running server.
* `file-system`: each catalog method is atomic; `mark_projected_selected` leaves a
  resource that was never projected local; importing a snapshot does not override a
  tombstone; whether `projected_selected` lists tombstoned resources is left open and
  both are explored.
* The OS keyring stores an entry whole and durably; a rename is atomic; `sync_all`
  makes a file durable, and its directory entry with it, although `peer_network.rs:130`
  does not synchronize the directory. Dropping the protocol router stops accepting streams. HTTP
  calls end within reqwest's timeout.
* Tauri: sending a frame to a page fails only when the page is gone.
* The OpenID provider a browser talks to answers a token request only with the verifier
  whose challenge it was given. It is not assumed to redeem a code once.

## Runs

Every run checks deadlock unless its cfg says otherwise: synchronization, setup and
accounts may really come to rest, when every bound is used up or nothing
is left to do.

| Run | Properties | What it shows |
|---|---|---|
| `selection` | `DeselectionWins`, `RestrictionWins`, `Convergence` | on two replicas, whatever the order of exchanges and whoever resolves, a deselection or restriction is undone only by somebody who knew of it, and equal histories give equal rows |
| `devices` | `GrantExclusive`, `SyncOnlyWithGrantee`; `CallbackIsItsOwn`, `ClearedStaysCleared` | no two connections work with one grant; the control-plane database goes only to the approved device a grant was issued for. Browser: a code completes its own sign-in, once for each page that can; a cleared session comes back only by an answer already under way or by its callback address |
| `peer_allowlist` | `AllowlistFollows` | provided the devices can in the end be listed, the allowlist follows approvals and revocations, through failing and stale listings and restarts |
| `oauth2_grants` | `IssuedWithinConsent`, `LateNeverIssues`; `UnusedHasCause`, `DeniedWhileConflicted`, `AuditMatches` | no chain of grants over tokens this service issued widens a consent; no request that begins after its user or key is gone is answered with tokens. Conflicts: a check never passes over a row that was in conflict throughout; a consumed code reads as unused only after a resolution that was stale when applied; resolutions and audit records match |
| `database_runtime` | `OpenedOnce`, `DeletionBlocksOpens`, `CallsReturn` | no file is opened twice in a process; the runtime implements `ResourceLife`; no two calls wait for each other's mutex |
| `storage_device` | `OneInstance`; `KeyLossHasCause`, `StopsAfterSignal`; `AnswersAreTrue`; `NearestRuleWins`, `SavedSurvives` | a filesystem in use is never opened twice; a server keeps its identity through kills and power losses and stops when told; answers to overlapping requests are true; residency rules agree with a reference definition and the policy file is never torn by a kill |
| `resource_sync` | `NothingTaken`, `NothingGiven`, `SelectedConverges`, `DeselectedCopyRemoved` | a device that knows it is deselected takes nothing new, and one the others know to be deselected is given nothing; two selecting devices converge; a deselected copy goes |
| `setup_and_tokens` | `CreatedIsComplete`, `RetryOutcome`; `SentUnexpired`, `ExecutedWasAuthorized` | a successful answer means a complete baseline; an undisturbed request does not fail, and one is refused only when the baseline got as far as the device row. Tokens: no call leaves with an expired service token; storage acts only on live tokens in their namespace |
| `accounts_and_apps` | `LoginIsCurrent`, `ResetLeavesPassword`, `LoneUpsertDecides`; `PartsAgree`; `MarkerMeansTrusted`, `FailureHasCause`, `ExitAfterDrain`; `BodiesAreWhole`, `RegistryDrained`; `GrantRestsOnRows` | accounts; the parts of a client; the desktop server; the fetch plugin; a Management request profits from no row deleted before it began |
| `code_single_use` | `SingleUse` (violated) | finding 1 below |
| `setup_start` | `HealthyStartOpens` (violated) | finding 2 below |
| `setup_retry` | `RefusedIsComplete` (violated) | finding 3 below |

The type invariants of the components are not listed in a run: each of them is proved
(`*TypeCorrect`, `*TypeHolds`), for every instance.

### Components side by side

Five MC modules (`MCDeviceEnrollment`, `MCOAuth2Grants`, `MCFileSystemRuntime`,
`MCSetupAndTokens`, `MCAccountsAndApps`) check several components in one run. The
components share no variable. A variable `component`, chosen at the start, says which
one moves; the others rest in an initial state. Since no step of one component reads
or writes what another one owns, every behaviour of a component alone is a behaviour
of the run, and a property of one component's variables holds in the run exactly if it
holds of the component. States add up instead of multiplying. Weak fairness is stated
of the action together with the component's turn. Components that need interchangeable
elements share the same model values, which keeps the symmetry group small and is
sound because no behaviour relates elements of two components.

### Bounds

Every bound is a named constant, in a guard of the module it belongs to.

* `selection`: 2 replicas, 1 device, 2 resources of different kinds and applications,
  one request in flight, 5 changes: enough for two concurrent writes, an exchange, a
  resolution and a write that did not know of it. Exchanges and crashes fall between
  any two statements of the request, so what it read may be stale when it writes; with
  two requests in flight and 4 changes the same invariants hold (4.5 million states,
  too long for a run), and the proofs cover any number of requests.
* `devices`: the control plane's own key and another, 2 owners, 2 grants, 2 tasks:
  every pair of requests, or a request and a connection, on one row. `peer_allowlist`
  has one task, because its liveness properties exclude symmetry.
* `oauth2_grants`: 1 user, 1 client with two redirect URIs, 1 scope, 2 tasks, one
  consent, code and rotation each; conflicts with 2 nodes, 2 jobs, 4 changes: two
  concurrent writes and two resolutions.
* `database_runtime`: 2 threads, 2 databases. `storage_device`: 3 calls on one
  filesystem, 2 connections and 3 changes, a three-level path, 3 faults per process
  life, 2 endpoint keys, 2 open requests.
* `resource_sync`: 2 devices and one change; proofs cover any number and any links.
* `setup_and_tokens`: 2 requests, 2 ports, 2 device keys, one administrator name;
  tokens of 3 seconds, margin and timeout of 1, 4 seconds, 2 client keys. The proofs
  cover any number of each.
* `accounts_and_apps`: 2 calls, 2 users, 3 credentials, 2 addresses; 2 clients and
  applications; 6 key pairs over all starts, 2 open requests, 2 closers; one stream of
  2 chunks over a channel of capacity 1; 2 applications, 2 people, 5 rows, 2 Management
  requests. `devices` has 2 pages, 2 sign-ins and 2 calls beside its devices.

### Fairness

* `PeerAllowlist`: the two halves of the refresh loop, which `run.rs` repeats every
  two seconds for as long as the server lives. Nothing is assumed of requests, and
  nothing makes a listing succeed: that is a premise of `AllowlistFollows`.
* `DatabaseRuntime`: a thread that can take a step takes it, and one that asks for a
  mutex infinitely often while it is free gets it (strong fairness of `Lock` and
  `EvictKv`). This is what the standard mutexes give in practice.
* `ResourceSync`: ends of streams, the tick and the polling of Management go on, and
  failures stop at some point (`Calm`), without which no such protocol converges.
* `ServerLife`: the main task, the answer or cancellation of a refresh and the end of
  an aborted task, which Tokio's scheduler polls. No request is assumed to end: the
  drain has its own timeout in the code.

## Findings

1. **An authorization code can be redeemed twice.**
   `consume_authorization_code` (`oauth2_authorization_code_repo.rs:179`) reads the
   row, checks `consumed_at`, and sets it in a second statement conditional on the id
   alone. Two overlapping redemptions both pass the check. `CONTEXT.md:43`: "only one
   redemption succeeds". Run `code_single_use`.
2. **A first start does not reach setup.** Every start checks itself with
   `verify_localhost_server` (`runtime.rs:111`), which asks for routes only the normal
   router has; before setup the check fails and the start returns an error, although
   `docs/idp/ADR01.md:58–60` describes the setup flow of a newly opened database. Run
   `setup_start`.
3. **A baseline that stopped after its device row cannot be completed.** `create_system`
   (`setup.rs:87`) answers every request with 409 once a device is on record, and
   `ensure_system_baseline` records the device before the administrator's role,
   permission and key. `CONTEXT.md:17–19`: "idempotent", "It must be safe to run
   repeatedly". The calls of the baseline itself are; the request before them is not.
   Run `setup_retry`.

### Divergences kept as statements

Each is a definition of its module that TLC refutes on the same instance; no run
lists it. They are the exact form of the difference between a document, comment or
evident intention and the code.

* `SelectionPolicy!DeselectAllWins`: a device-wide deselection updates only the
  resource rows its replica holds; one first selected elsewhere at that time stays
  selected (`docs/adr/0001-offline-storage-resources.md:5`).
* A device-wide deselection that first resolves conflicted columns to NULL then takes the
  early return for a policy that names no resource (`selection_policy.rs:704`, in the
  model `DeselectDecides`), and reports success over rows that are still selected
  (`docs/storage/RESOURCE-API.md`).
* `set_admin_allowed_prevalidated` that finds no policy goes on as `set_prevalidated`
  (`selection_policy.rs:593`); when a policy has appeared in between, that updates the
  three columns only and the call answers `true` with `admin_allowed` as it was. No
  route calls it yet.
* `DeviceEnrollment!RevokedStaysRevoked`: `approve` checks the state it read and then
  writes unconditionally (`device_repo.rs:339`); a revocation in between is lost
  (`CONTEXT.md:69`).
* `DeviceEnrollment!JoinCanBeRetried`: the retry of a pending registration revokes
  the row and then inserts the same public key (`setup.rs:63`), which the unique index
  refuses.
* `PeerAllowlist!AllowlistFollows` has a premise because `devices.list()` fails on any
  device row in conflict (`device_repo.rs:246`): the refresh then logs a warning
  (`run.rs:224`) and keeps the old list, and a device revoked meanwhile stays on it. No
  code of the repository resolves such a conflict.
* `OAuth2Grants!IssuedWithinConsent` is about tokens this service issued because
  `refresh_token` decodes its token and does not verify it (`service.rs:718`, the TODO at
  742), whereas `CONTEXT.md:47` has tokens "validated against the configured issuer,
  audience, use, lifetime, and signature". The exchange does verify its token.
* `OidcSession`: `handleSigninCallback` stores tokens that come in the address before it
  looks at state or verifier (`OidcClient.ts:541`), so `CallbackIsItsOwn` excepts them;
  a refresh under way at a sign-out stores its answer afterwards and revives the session
  (`OidcClient.ts:608`), so `ClearedStaysCleared` excepts it.
* `ServerLife!HeldTasksHaveEndpoint` is about the tasks `run()` holds: the session of a
  peer is a task of its own that nothing waits for or cancels (`storage_protocol.rs:214`),
  and it may still run when the endpoint is closed under it.
* `FileSystemRuntime!DeletionBlocksOpens`: the tombstone is recorded before the opened
  instance is forgotten, and an open in between is answered from memory
  (`docs/storage/RESOURCE-API.md`). What holds, and is proved, is
  `LateOpensFromMemory`: such an open never opens the files again. `DatabaseRuntime`
  does not have this gap.
* `FileSystemRuntime!SelectedRetained`: the eviction tick acts on a selection it read
  earlier, and removes a filesystem selected and written since.
* `ResourceSync!TombstoneReaches`: only the device with the smaller key opens streams
  (`database_protocol.rs:65`), and the handshake carries only its own tombstone; a
  deletion on the other device is never told (`docs/adr/0001`).
  `ResourceSync!SelectedObtains`: the opener of a stream must already have the resource
  (`database_protocol.rs:128`), so the smaller key never obtains one created on the
  larger (`README.md`). Nothing removes
  the copy of a deselected *database*: `DeselectedCopyRemoved` holds with
  `FileSystem = TRUE` only.
* `InstallationSetup!RouterMeansComplete`: an approved device row counts as a finished
  setup (`runtime.rs:84`), whatever else of the baseline is recorded.
  `InstallationSetup!SigningKeysLoadable`: keyring entries are named after the issuer,
  whose port changes at every start. `ResetReturnsToSetup` fails with
  `SameDirectory = FALSE`: the reset removes files from the data directory, the
  database is opened in the config directory.
* `ConflictResolution!UnusedHasCause` has an exception because two administrators who
  read one conflict can, one after the other, make a consumed code read as unused: the
  second resolution is written over a column that is no longer in conflict. Nothing in
  production calls `resolve` yet.
* `FetchBridge` keeps the two registry locks, which `init_plugin_stream` and
  `cancel_plugin_stream` take in opposite order. With two streams they can wait for
  each other for ever; the run has one stream, where they cannot meet. The theorems are
  about any number of streams: a deadlock violates none of them. No application uses the
  plugin yet.

## Proofs

All proofs are checked by `tlapm` with Z3, Zenon and LS4. They hold for every value of
the constants that satisfies the named ASSUMEs, which say no more than that a null
value is not a member of the sets it stands beside, that bounds are naturals, that
paths, registrations and the like have their types, and what is listed here:

* `StorageAccess!TimeAssumption`: the call timeout is no longer than the renewal
  margin (10 and 15 seconds in the code) and shorter than the life of a token. A step
  of the process takes no time; the code leaves 5 seconds of slack.
* `ResourceSync!SyncAssumption`: devices are ordered by their keys.
* `UserAccounts!ContactAssumption`: a request names at most one email and one phone.
* `InstallationSetup!SetupAssumption`: no administrator has the name of a client.

For each component the properties are consequences of one inductive invariant. A proof
module has a section for each of its components, which share no variable; they are
grouped by size, because `tlapm` slows down with the length of a module. Most leaves
cite `Zenon` for the same reason: it needs less preparation than the SMT solver.

| Module | Theorems | Invariant and why it is needed |
|---|---|---|
| `SelectionAccountProofs`, policies | `TypeCorrect`, `DeselectionAlwaysWins`, `RestrictionAlwaysWins`, `ReplicasConverge`, `ResolvingAdmitsNothing` | `CellInv`: a cell is exactly the latest writes among the changes its replica holds. This is preserved by merging in either order, makes cells a function of the history, and with "resolutions are restrictive" gives both priorities. `ResolvingAdmitsNothing`: a resolution writes only the restrictive value, so whatever has changed since its read, no column and no row reads as more than before; requests are in the invariant only as what they name (`InFlight`) |
| … accounts | `AccountTypeCorrect`, `LoginsCurrent`, `ResetsLeavePassword`, `LoneUpsert` | `AccountInv`: what a reset, a login and an address update have read stays true of the rows they will write (`ResetOK`, `LoginOK`, `UpsertOK`); rows are appended and identified by position |
| `DeviceSessionProofs`, devices | `DeviceTypeCorrect`, `GrantsExclusive`, `GrantsNotLeaked`, `SyncsOnlyWithGrantee`, `AllowedApproved`, `TransportImplementsEnrollment` | `IInv`: a token belongs to one task at a time, and its grant and that task name the same row, key and owner; rows keep key and owner and are never pending again. `PeerInv` adds that whatever was listed has such a row. The transport refines the registry, so every theorem holds behind it |
| … sign-ins | `OidcTypeCorrect`, `CallbacksOwn`, `ClearedForGood` | `OidcInv`: a verifier in any memory or storage is paired with its own state (`StatesOK`), what was accepted has left the memory of the page that accepted it (`AcceptedOK`), and a stored or awaited token is of no cleared session unless its call was under way at the clear (`SessionsOK`, `FlowsOK`) |
| `OAuth2GrantsProofs`, grants | `OAuth2TypeCorrect`, `TokensWithinConsent`, `CodesMarkedFirst`, `LateRequestsNeverIssue` | `IInv`: what a request in flight has established, by where it stands; deleted users do not return and no key is newer than its user's root |
| … conflicts | `ConflictTypeCorrect`, `ChangesSurvive`, `ConsumptionLasts`, `ConflictsDeny`, `AuditsMatch` | `ConflictInv`: whatever change of a cell a node knows of is among the cell's siblings or older than one of them (`NothingLost`), so a consumption is lost only where a resolution overwrote it, and `UsedStaysUsed` says which; `JobsOK` gives the row a check has seen in conflict at every one of its steps |
| `DatabaseAccessProofs`, databases | `RuntimeTypeCorrect`, `FilesOpenedOnce`, `LocksAlwaysOrdered`, `RuntimeImplementsLife` | `RuntimeInv`: who holds which mutex where, and a file once opened is cached until its record is deleted; `MutexInv`: the converse, where and in which call the holder of a mutex stands, the part of `CallsReturn` that does not depend on fairness; the refinement maps a record to its life and a call to what it saw |
| … roles | `AccessTypeHolds`, `WithinApplicationHolds`, `RemovedIsGoneHolds`, `GrantRestsOnRowsHolds` | `AccessInv`: rows are appended and never come back, and each read of an authorization rests on rows not gone when it began |
| … tokens | `StorageTypeHolds`, `SentUnexpiredHolds`, `ExecutedWasAuthorizedHolds`, `RefreshForgetsHolds` | `StorageInv`: what a cached token, a slot and a refresh know lasts while time passes and tokens are revoked |
| `StorageServerProofs`, residency | `ResidencyTypeCorrect`, `SavedPolicySurvives`, `NearestRule` | `ResidencyInv`: the file is the policy whose save returned last; `NearestRule` takes the shortest prefix at which the loop would be wrong and shows there is none |
| … process | `ServerTypeCorrect`, `KeyLossCause`, `EndpointOutlivesHeldTasks` | `ServerInv`: `KeyOK` says when the stored key is whole, durable and the one peers have seen; `TasksOK`: where a start spawns tasks the endpoint is bound, and where a shutdown closes it no task it holds is left |
| … requests | `RequestsTypeCorrect`, `TrueAnswers` | `RequestsInv`: a request's own revision, the changes there were when it came in and the revisions it has yet to describe stay within the history, which only grows |
| `SyncClientProofs`, streams | `SyncTypeCorrect`, `DeselectedTakesNothing`, `DeselectedGivenNothing`, `DeletionClosesStreams`, `DeletionsSourced` | `SyncInv`: what is in a frame or a copy was taken under a policy its holder knew then; `Told`: a tombstone on its way is recorded on the device that sent it |
| … clients | `ClientTypeCorrect`, `ClientParts` | `ClientInv`: for every client either nothing is left, or the parts its creation has written so far, by the place of the job that owns it (`ClientsOK`, `JobsOK`) |
| `DesktopProofs`, setup | `SetupInvariance`, `SetupTypeCorrect`, `CreatedComplete`, `BootstrapDeviceUnique`, `ResetClears`, `RetriesDecided` | `IInv`: what a request has behind it stays established, because rows and keys only grow and neither port nor device key changes while requests are in flight; where there is a device row, all that comes before it in the baseline is there |
| … server | `DesktopTypeCorrect`, `MarkerTrusted`, `StartsHeal`, `ExitDrained` | `DesktopInv`: which combinations of whole, torn and missing files a start can find (`DiskOK`), what is ensured at each of its places (`EnsuredOK`), that a pair is never generated twice (`PairsOK`), and who may still be answering while others close (`ClosingOK`) |
| `FetchFileSystemProofs`, fetch plugin | `FetchTypeCorrect`, `BodiesWhole`, `RegistriesDrain` | `FetchInv`, stream by stream: every chunk of a request body is in the page, a command, the channel or with the handler, and the sender stays registered until the end has been sent (`UploadOK`); the frames on their way to an open reader are exactly the head and chunks it lacks, then an error or the end (`FramesOK`); when a stream must be in a registry and when it cannot be (`RegistryOK`) |
| … filesystems | `FsTypeCorrect`, `OneInstanceEach`, `LateOpens` | `FsInv`: an instance being opened is not remembered, one that is held is, until the deletion; `LateInv`: an open that began after the deletion finds the tombstone, and is never the one that opens the files |

Properties that are proved and not listed in a run (the type invariants,
`GrantNotLeaked`, `AllowedWasApproved`, `MarkedBeforeIssued`, `DeletedStaysClosed`,
`DeletionsHaveSource`, `OneBootstrapDevice`, `ResetReturnsToSetup`, `WithinApplication`,
`RemovedIsGone`, `RefreshForgets`, `NothingLost`, `ResolvingNeverAdmits`, `LocksOrdered`,
`HeldTasksHaveEndpoint`, `LateOpensFromMemory`) hold for every instance, the runs'
included.

**Only model-checked**: liveness under fairness (`AllowlistFollows`, `CallsReturn`,
`SelectedConverges`, `DeselectedCopyRemoved`, `StopsAfterSignal`), which this version
of TLAPS cannot prove, and the three statements the code violates. Every safety property
of a passing run is a theorem.

The library's induction theorems take an operator as a parameter, which none of the
provers can instantiate. Where a proof needs induction over the naturals (the loop of
`matching_rule`, the latest of several changes) it takes the least or greatest
counterexample instead (`Smallest`, `Largest`, from `WFMin`).

## Simplifications inside the models

* `UserAccounts`, `AccessControl` and `ServiceClients` model one replica. In
  `AccessControl` rows are never updated, so `ensure_clear` always succeeds and
  `revoked_at` is always null.
* `OAuth2Grants` leaves out refusals that depend on the request alone; `Stop` covers
  them.
* `ConflictResolution` lets repositories write at any time (more than they do) and
  keeps the columns of a client as one.
* `StorageAccess` follows one of three copies of the service-token code; they share
  nothing. `ServerLife` follows one server at a time, chosen at the start.
* `DesktopServer` takes the router as a choice of every start; verification goes
  through the system's store. `OidcSession` has a configured client id.
* `Residency` models kills, not power losses, and callers that do not overlap saves;
  nothing in production calls it yet.
* `InstallationSetup!Exit` also stands for a failed verification at start; keyring
  entries of removed entities leave the model with a reset.

## Not modelled

* **Routing, header extraction, OpenAPI** (`crates/api`, most of `*-server/src/router`):
  no state; what they decide is a guard of the action behind them.
* **Types, serialisation, migrations** (`crates/*-model`): unique indexes appear as
  guards of INSERTs.
* **Cryptography** (`crates/key`): pure functions; a signature or a hash matches or
  does not.
* **The Automerge protocol, the `file-system` and `ofdb` engines, Iroh**: external.
* **The device grant**: `device_authorization` answers with fresh codes and stores
  nothing, so there is no state to model. The web variant of the baseline
  (`BootstrapConfig::web`) has no production caller; `config.yaml` and the
  `completions` command are plain I/O.
* **Forwarding to a hosted control plane**: the routes pass requests on; a hosted
  revocation leaves the local row unchanged.
* **Generated clients, `native-fetch`, Svelte views, the password-manager UI**: no
  protocol of their own.
