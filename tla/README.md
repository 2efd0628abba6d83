# CertVault: a TLA+ verification project

CertVault issues certificates with ACME DNS challenges, keeps them in versioned
directories beside a SQLite database, and hands them to hosts, which fetch them
with API keys through cron jobs. This directory models the parts of it whose
correctness depends on the order of events or on rules that meet in several
places: the issuance service, the ACME client below it with its accounts and
credentials, configuration loading, downloads with API keys, the audit log,
browser login and sessions, the client signing key, and the two shell programs
that run on client hosts.
Modules are translated from the source (`src/backend`, `src/web/client`); paths
below are relative to `src/`. `PROJECT.json` maps every definition to its lines.

## 1. Inventory

| Component | State | Operations | Interacts with | What is hard | Correct when |
|---|---|---|---|---|---|
| Issuance manager `backend/service/manager.go` | claimed job, wake channel, ticker, loaded `Config` | `Run`, `reconcile`, `Enqueue`, `issue` (`obtain`, `save`, hooks) | job and certificate tables, ACME, files | handlers admit while the worker recovers, scans or issues; stop and kill at any point | nothing ordered twice by itself, nothing announced that is not recorded, every job finishes |
| Job repository | `jobs` | `Admit`, `Claim`, `RecoverInterrupted`, `Finish` | manager, handlers | one table shared by successive processes | one pending job per certificate, bounded, first in first out |
| Certificate repository | `certificates`, `certificate_versions` | `Reconcile`, `AddVersion`, queries | server start, command line, manager, downloads | rows rewritten under a running server | versions are complete, replacements repair drift |
| Server process `backend/server.go` | signal context, worker goroutine | start, graceful stop, exit | everything | exit must wait for the worker | a stop completes and leaves no running row |
| Command line `backend/cli` | none | key operations, reconciliation | the server's database | runs beside the server | does not disturb it |
| API keys `api_key_repository.go` | `api_keys`, grants | create, authenticate, revoke, delete | every API request | several statements per request | revocation and expiry are immediate |
| Downloads `backend/api/bundle.go`, `certificate_handlers.go` | bundle cache | bundle, single artifact, validators | keys, versions, files | version changes while a request runs; cache at its limit | one current version, within the grant, bounded memory |
| OIDC login `backend/api/auth` | flows, counts, token buckets, timer | login, callback, sweep | identity provider, browser | limits and timer under concurrent requests | bounded, rate limited, single use |
| Sessions, bootstrap login | signed cookie, kept by the browser | set, verify, log out | every console request | restarts with another master key, expiry | every change follows a login |
| Client updater `web/client/update.sh`, `launcher.sh` | version directories, links, locks, `next-check` | check, download, switch, prune | other jobs of the host | signals and kills between commands, two locks | the installed client always runs |
| Client sync `web/client/sync.sh` | outputs, snapshots, links, validator | fetch, deploy, reload, retain | server, service | failure at any command, overlapping runs | whole sets, true validators, eventual deployment |
| Installer `install.template.sh` | job files, crontab, pins | install, update only | both scripts | repeated installs | (its results are initial states here) |
| Update archive and signing key `client_updates.go` | key file, archive, one initialisation per process | create once, sign, serve | updater, vault | two processes create the key, one dies half way | one key is ever served |
| Configuration `backend/config` | none | variables, secret files, YAML, defaults; `Validate`; zone lookup | everything | precedence, integer range, two normalisations of a domain | what was written is what is loaded |
| DNS providers `mux_provider.go` | provider cache, process environment | construct, present, clean up | ACME | process-wide environment, every error path | a credential leaves no trace |
| ACME accounts `acme_account.go` | account files | load, register, save, delete | ACME, vault | registered but not saved; deletions meanwhile | one registration per directory, orders with a saved key |
| Audit log `audit_repository.go`, `audit_retention.go` | `audit_events` | record, search, prune | key changes, logins, console | pruning and inserts beside paging; failures inside transactions | events tell the truth, age out, and are not skipped |
| Client IP `network/client_ip.go` | none | resolve | login limits, audit | header entries the client wrote itself | limits are charged to the sender |
| Vault, health, notifications, console, mock ACME, e2e | none, or I/O only | | | | not modelled, see section 8 |

The hazards that follow from this are in `PROJECT.json`, each at its line, with
the properties that would catch it.

## 2. Modules

| Module | Models | Extended by |
|---|---|---|
| `JobStore` | the tables of issuance, one operator per transaction | `Issuance` |
| `Issuance` | server process, worker, handlers, operator, command line | `MCIssuance`, `IssuanceProofs` |
| `JobQueue` | abstract: what the job queue promises its users | instantiated by `Issuance` |
| `IssuanceProofs` | theorems: types, job table, refinement | `IssuanceOutcomeProofs` |
| `IssuanceOutcomeProofs` | theorems: versions, statuses, events, retries | |
| `Downloads` | API keys, download requests, bundle cache | `MCDownloads`, `DownloadsProofs` |
| `ClientAddress` | the client address of a request | `Logins` |
| `Logins` | OIDC state store, `Login`, discovery, `Callback` | `MCLogins`, `LoginsProofs` |
| `Configuration` | loading, validation, zone lookup, as constant operators | `AcmeClient` |
| `AcmeClient` | `obtain`: account, providers, order; account deletion; restarts with other deployments | `MCAcmeClient`, `AcmeClientProofs` |
| `AuditLog` | `audit_events`, key transactions, retention, paging | `Server` |
| `SigningKey` | the signing key of the client archive | `Server` |
| `KeyAgreement` | abstract: what the processes promise clients that pin the key | instantiated by `SigningKey` |
| `Server` | several server processes and sessions over both | `MCServer`, `ServerProofs` |
| `ClientUpdate` | `update.sh`, `launcher.sh`, several jobs of a host | `MCClientUpdate`, `ClientUpdateProofs` |
| `ClientSync` | `sync.sh`, several runs of a job | `MCClientSync`, `ClientSyncProofs` |

The `Proofs` modules hold theorems only (section 7). The `MC` modules only define
values for constants: configurations, budgets of environment events, symmetry
sets. Definitions named `Mut...` are deliberate defects, used by nothing in a
specification; replacing the definition below one of them by it makes the
corresponding property fail.

### Issuance

The worker goroutine is a program counter `pc` with the locals of `Run`,
`reconcile` and `issue`:

    recover -> list -> scan* -> claim -> begin -> obtain -> ordered -> save*
                ^                 |                                      |
                +---- idle <------+         top <- announce <- finish <- publish

One action is one transaction, one file renamed into place, one exchange with
the CA or one `select`. SQLite is opened with a single connection
(`database.go:41`), so a transaction is atomic. Operations that take the
worker's context fail once it is cancelled; `Finish` uses a background context
and fails only by a fault. `wake` and `tick` are the two one-element channels.
`Crash` drops everything held in memory at any point; `Start` loads the file and
reconciles it. `file` and `cfg` are separate variables, because the server keeps
the configuration it started with while the command line reads the file anew.

Data is reduced to what decisions look at. A SAN set and key type are one model
value (`Specs`), the error text is none, plain or interrupted, the clock is the
bit `due` of a version. A certificate that was never configured is a disabled
row: every query of this path selects enabled rows.

### Downloads

A request is a record of handler locals that goes through the statements of
`Authenticate` (row, grants, usage update), the scope checks, the two queries of
`CurrentVersion` and `bundleCache.get`, which holds its mutex while a bundle is
built. Key administration, publication, reconciliation by the command line,
restarts and the clock interleave with every statement. Fields `dead`, `shut`
and `least` are history: what was true when the request arrived.

### Logins and ClientAddress

The store's operations are single steps (mutex); `Login` and `Callback` are
several, with the timer and each other in between. Time counts in units in which
a bucket gains whole tokens. `close` has no caller outside tests. A request
carries the peer, the entries of `X-Forwarded-For` and `X-Real-IP`;
`ClientAddress!ClientIP` resolves the address it is charged to. The history field
`origin` is who really sent it, and the limits are stated of that; `RoutedFrom`
says which requests a client's can be once proxies have passed it on.
`discovered` remembers that discovery of the provider succeeded once.

### Configuration and AcmeClient

A deployment is the raw input of a process start: environment variables,
`_FILE` variables, YAML values, files. A text that may be missing is a sequence of
at most one element, a duration its number of days, a domain the sequence of its
labels with their case and trailing dot, a URL its stem and trailing slash.
Integers go up to `MaxInt` and wrap; the range check is the code's. `AcmeClient`
starts only deployments that `LoadSucceeds` accepts and goes through `obtain`:
load or create the account key, register, save, then for each domain find the
credential and set its variables one by one, construct the provider, restore, and
place the order, whose challenges look the provider up again. Account deletion by
two handlers, failures, stops and redeployments (another directory, slash or
master key) come in between. `issueMu` makes `obtain` a single process.

### AuditLog, SigningKey and Server

`AuditLog` and `SigningKey` are components, `Server` runs them in two processes on
one data directory, as during a rolling restart or with the command line beside
the server. A key change is a transaction that holds SQLite's write lock from its
first write to its commit; best-effort events take their time first and wait for
the lock (`waiting` is a bag: two equal events are two rows). Retention is one
task per process. The reader of the log is a person paging: each page is a `Count`
and a `Find`. The signing store is initialised once per process (`sync.Once`), an
error included; `os.Link` publishes a complete file or finds one. `KeyAgreement` is
what clients that pin the key rely on: its `chosen` is the content of the key file,
its `served` what the processes gave out. Sessions are the
cookies ever issued: nothing takes one back, and `VerifySession` decides by the
process's own master key.

### ClientUpdate and ClientSync

A process of the host is a program counter over the commands that change a file
or take a lock. `flock` locks vanish with their holder and are derived from the
program counters. `Terminate` is a signal the script traps: the shell runs the
trap after the current command. `Kill` is SIGKILL or power loss: nothing is
cleaned up, a copy may be torn. Downloads that fail verification are steps that
fail. `CheckFails` and `Fails` are `set -e` at any command that can fail.

Each run of `sync.sh` decides anew how it deploys (`Decide`): as the file system
supports (`supports`), or by copying after a passing failure of the `mktemp`,
`chmod`, `touch` or `ln` it tests the destination with (lines 21-39). `cp -f` follows
a symlink, so that such a run writes into the live snapshot (`Write`). The exit trap
of a copying run is a loop of its own, one step per output (`Restore`): a copy may
fail and is passed over (`RestoreFails`, `|| true`), and since the traps of line 58
stay armed, a second signal ends it half way (`Terminate`). The history variable
`halfway` records such ends until a reload completes. The lock on descriptor 9 is
also held by what the reload command leaves behind (`inherited`, until `DaemonEnds`).

## 3. Runs

| Run | Bounds | Shows |
|---|---|---|
| `issuance_restarts` | 2 certificates, limit 1, 2 requests, 1 tick, 1 stop, 1 kill | admission, the limit at its boundary, recovery, orderly stop, no automatic retry |
| `issuance_failures` | 1 certificate, definitions edited once or switched off, 2 files, 1 request, renewal window, command, stop, kill and failure | rows, versions, status and announcements agree; disabled certificates are not issued; restarts repair drift |
| `issuance_command_line` | 1 edit, 1 command, 1 tick, no failures | a replacement ordered for drift drifts again, violated: finding 1 |
| `issuance_queue` | 2 certificates, limit 2, 1 request, stop, kill, fault; fair | refinement of `JobQueue`, order, liveness |
| `downloads` | 2 concurrent of 3 requests, 1 key of 3 shapes, 2 versions, cache of 2 units | grants, currency, cache, usage sampling |
| `logins` | 2 clients, 2 proxies, every header shape of length up to 3, 4 flows, time 0..2, all limits reachable | consistency of the store, single use, rates |
| `acme_orders` | some 400 deployments that vary one part of a base, integers up to 31 with a day of 6 units, 2 orders, 2 deletions, 2 stops, 2 redeployments, 1 fault | precedence, durations, zones, accounts, environment |
| `server` | 2 processes, 3 configurations, time 0..6, six loads (below) | signing key and its agreement, audit truth, retention, paging, sessions |
| `client_update` | 2 jobs, up to 3 launches, 1 release, three loads (below), syncs may hang; fair | sync keeps its version, links stay sound, throttling, nobody waits for ever |
| `client_update_signal` | 1 job, 1 TERM | violated: finding 2 |
| `client_sync_failures` | 2 runs, 2 outputs, 2 versions, both destinations, 1 removal, fault, signal, kill; fair | whole sets, true 304, no way back, eventual deployment |
| `client_sync_reload` | 2 versions, 1 failure | violated: finding 3 |

Why the bounds are enough for what is asked: a second certificate is needed for
order and for the limit, a third adds nothing a pair does not show; one stop and
one kill reach every point at which a process can end, and both orders of the
two; a queue of one and a queue that never fills are both taken. In `downloads`
one insertion can evict two entries, and one bundle exceeds the cache. In
`logins` the sweep interval is shorter than a flow's lifetime and a bucket
empties and refills; two proxies and one forged entry reach every exit of the
header loop. In `acme_orders` every integer of the range is tried as a day count,
and zones and domains in every spelling against each other; two stops and
redeployments suffice to leave a directory and return to it. Where several kinds
of event together would be too many, Init picks one of several budgets (loads): in
`client_update` a kill with a requested check, a kill with a fault, or a signal
with a fault (in two launches); in `server` update requests with a restart, an
administrator's changes with a restart and an error, changes by the command alone
and beside a cleanup, failing cleanups, and a reader of a log that grows and ages.
What these loads of `server` separate shares the clock, the audit table and the
starts and stops of the processes, and each load has those of them it needs.
Three deployments of a destination (two versions and a repair) are the fewest in
which retention removes a snapshot. The fault may make a run fall back to
copying, the signal then end it and the kill cut its rollback short. Deadlock checking
is off where the bounds let the environment run dry (`downloads`, `logins`,
`client_update*`, `acme_orders`, `server`); the issuance and sync runs check it.

## 4. Fairness

- `Issuance!Fairness`: weak fairness of the worker (a goroutine is scheduled and
  every call it makes returns: ACME, DNS and HTTP clients have timeouts), of
  `Start` (`restart: unless-stopped` in the repository's compose example) and of
  `Exit` (runServer returns once the worker did). Nothing is assumed of
  requests, ticks or faults.
- `ClientUpdate!FairSpec`: each script goes on (`curl --max-time`, `flock -w 5`);
  nothing is assumed of the end of a sync, whose reload command has no timeout.
- `ClientSync!FairSpec`: cron starts the job again (`Begin`) and a run goes on
  (`Proceed`), except through the reload command, which has no timeout and may hang or
  leave a process that keeps the lock. Neither its end nor `DaemonEnds` is fair;
  `EventuallyDeployed` states the need of them as its assumption `LockIsReturned`.
  Failures, signals and kills are finite by their budgets.

## 5. Properties

Issuance. `AdmissionIsGuarded` (`OnePendingPerCertificate` and `QueueBounded`),
`OrdersFollowAdmission` and `RunningJobIsHeld` describe the job table; `NoAutomaticRetry` and
`DisabledCertificateIsNotIssued` what the worker never does;
`SucceededJobIsPublished` (and its directory complete),
`StatusTellsLastOutcome`, `EventsMatchRecord` the agreement of what is recorded
in different places; `GracefulStopLeavesNothingRunning`, `StopCompletes`,
`EveryJobFinishes`, `FirstIssuanceStarts` the life cycle; `ImplementsJobQueue`
the promise of `docs/client-access.md` as an abstract machine.
`RestartedServerRepairsDrift`: replacements match the row as long as only servers
reconcile; with the command line they need not (finding 1,
`ReplacementMatchesConfiguration`). A graceful stop may leave a row running whose
`Finish` failed or whose order a stop or a kill, this stop included, cut off. Recovery
fails the job and leaves the status of the certificate as it was;
`StatusTellsLastOutcome` permits that and speaks of what the worker recorded.

Downloads. `AnswerIsAuthorized` (a barred request learns nothing, an answer stays
within the grant of a live key), `AnswerIsCurrent`, `CacheIsAccounted`,
`UsageIsSampled`.

Logins. `StoreIsConsistent` (counts match flows, limits hold for whoever sent the
requests, a sweep is scheduled while there is something to sweep),
`FlowIsUsedOnce`, `RateIsLimited`. They rest on what `docs/security.md:20` says of
forwarding chains read from right to left: a proxy appends the address it saw.

AcmeClient. `LoadFollowsPrecedence` against a reference that lists the sources in
order and multiplies exactly, `ValidatedDomainsHaveCredential` (what `Validate`
accepts, `forDomain` finds), `OrderUsesSavedAccount`, `RegistersOnce` (every
registration at a CA is accounted for), `CredentialsAreScoped`.

Server. `ImplementsKeyAgreement` (a key once chosen is never replaced, whatever
fails, and only the chosen one is served; `ProcessesShareSigningKey` is its form as
an invariant, with the types, and proved),
`AuditTellsKeyState`, `RetentionIsEnforced`
(with the slack of one interval per failed cleanup), `ReaderMissesNothing` (what
a reader may miss is bounded by the rows removed above it and those inserted
after the last count), `ChangeFollowsLogin`.

ClientUpdate. `SyncKeepsItsVersion`, `LinksStaySound` (no step but the signal of
finding 2 breaks current or previous), `ChecksAreThrottled`, `EveryJobSyncs`;
`InstalledClientRuns` is violated by that signal.

ClientSync. `DeployedSetIsWhole` has two parts: a set of symlinks is of one version
unless a run is copying through them or rolling back, or was cut short in that
(`LinkedSetIsWhole`); between runs every set is of one version unless a run ended
between two outputs (`SetIsWhole`), which needs a kill, a failed or interrupted
rollback, or the end of a run that was turning files into symlinks, the only loop that
is not rolled back. `NotModifiedIsTrue`. `NothingGoesBack`: the service loads whole
sets of rising versions, and a reader goes back only to what a rollback restores,
which is what the output was before that run, or when somebody removes a file.
`EventuallyDeployed`, as long as the lock is returned.
`NotModifiedIsTrue` and `EventuallyDeployed` except one case (`DamagedInRepair`): a run
that repairs a removed output by copying, and is killed or whose rollback fails or is
interrupted, leaves torn or mixed files beside a validator that already names the
current version, so that later runs get 304 until the next renewal. The documentation
excludes the kill (fixed-file copies and SIGKILL) but not the rollback.

## 6. Findings

1. `issuance_command_line`. A certificate has its first version; `config.yaml` is
   edited, and an api-key command reconciles the new definition into the database of
   the running server. At the next tick its scheduler sees drift and queues a
   replacement, which `obtain` builds from the old definition the server loaded: it
   drifts as the one it replaces, and so each further tick orders again.
2. `client_update_signal`. A signal between the switch of `current` and
   `candidate=""` makes the exit trap delete the version just installed.
3. `client_sync_reload`. After a failed reload the retained "previous successful
   snapshot" is the one that failed, and the last successful one is orphaned.

Also seen, without a run of their own:

- A run of `sync.sh` whose test of the destination fails for a passing reason (lines
  23-28) copies through the symlinks of an earlier run (line 165), one file after the
  other, where `docs/client-access.md:94` promises an atomic switch of ordinary file
  systems. The model takes these steps; it is why `LinkedSetIsWhole` excepts runs that
  copy, and fails without that exception.
- `docs/client-access.md:154` excludes an interrupted certificate until an
  administrator renews it, but a renewal by an API key lifts the exclusion too.
- Recovery (`job_repository.go:138`) fails an interrupted job and leaves
  `certificates.status` as it was, so that the two tables tell of different events; no
  document says what the row should show.

## 7. Proofs

All theorems hold for every value of the constants that satisfies the named
assumptions of the modules (TLC evaluates these on every run): any number of
certificates, processes, requests, jobs or outputs, any limits and rates, any
budget of events. Every safety property of a passing run is a theorem.

| Module | Theorem | States |
|---|---|---|
| `IssuanceProofs` | `TypeCorrect` | `TypeOK` |
| | `PendingJobIsUnique` | `OnePendingPerCertificate` |
| | `RunningRowIsHeld` | `RunningJobIsHeld` |
| | `OrdersInAdmissionOrder` | `OrdersFollowAdmission` |
| | `QueueNeverExceedsLimit` | `QueueBounded` |
| | `AdmissionStaysGuarded` | `AdmissionIsGuarded`: both |
| | `ServiceImplementsQueue` | `ImplementsJobQueue` (step simulation) |
| `IssuanceOutcomeProofs` | `SuccessIsPublished` | `SucceededJobIsPublished` |
| | `StatusIsTruthful` | `StatusTellsLastOutcome` |
| | `EventsAreTruthful` | `EventsMatchRecord` |
| | `GracefulStop` | `GracefulStopLeavesNothingRunning` |
| | `CutOrderIsNotRetried` | `NoAutomaticRetry` |
| | `DisabledIsNotOrdered` | `DisabledCertificateIsNotIssued` |
| | `ReplacementCoversRow` | `RestartedServerRepairsDrift` |
| `DownloadsProofs` | `DownloadsAreAuthorized` | `AnswerIsAuthorized` |
| | `DownloadsAreCurrent` | `AnswerIsCurrent` |
| | `CacheIsBounded` | `CacheIsAccounted` |
| | `EvictionEnds` | the eviction loop stops before the list is empty |
| | `UsageSampling` | `UsageIsSampled` |
| `LoginsProofs` | `StoreStaysConsistent` | `StoreIsConsistent` |
| | `FlowsEndOnce` | `FlowIsUsedOnce` |
| | `LoginsAreLimited` | `RateIsLimited` |
| `AcmeClientProofs` | `ConfigurationFollowsPrecedence` | `LoadFollowsPrecedence` |
| | `ValidatedDomainsAreServed` | `ValidatedDomainsHaveCredential` |
| | `OrdersUseSavedAccounts` | `OrderUsesSavedAccount` |
| | `AccountsRegisterOnce` | `RegistersOnce` |
| | `CredentialsStayScoped` | `CredentialsAreScoped` |
| `ServerProofs` | `SigningKeyIsShared` | `ProcessesShareSigningKey` |
| | `AuditIsComplete` | `AuditTellsKeyState` |
| | `RetentionHolds` | `RetentionIsEnforced` |
| | `ReadersMissNothing` | `ReaderMissesNothing` |
| | `ProcessesAgreeOnKey` | `ImplementsKeyAgreement` (step simulation) |
| | `ChangesAreByAdministrators` | `ChangeFollowsLogin` |
| `ClientUpdateProofs` | `SyncVersionIsKept` | `SyncKeepsItsVersion` |
| | `ThrottleHolds` | `ChecksAreThrottled` |
| | `OnlyOneSignalBreaksLinks` | `LinksStaySound` |
| `ClientSyncProofs` | `ReadersFindWholeSets` | `DeployedSetIsWhole` |
| | `NotModifiedIsTruthful` | `NotModifiedIsTrue` |
| | `DeploymentMovesForward` | `NothingGoesBack` |

Hardly any of these is inductive alone. Each module names the invariant that is,
as a conjunction of parts with a comment on each; an action property follows from
it for one step.

Job table (`IndInv`). It adds to the type invariant that the worker holds a running
row from claim to finish (`WorkerHoldsJob`), that no later job has left the queue
before an earlier one (`NoOvertaking`), and that no placed order belongs to a job
at or after the one about to be ordered (`OrdersAreBehind`). Admission appends, so a
new row is behind every order and duplicates no pending row; a claim takes the
least queued row, so `NoOvertaking` makes every earlier row finished or running;
recovery turns every running row into a failed one before the first claim, so
that the claimed row is the only running one but for lost ones; an order is
therefore placed for a row greater than all before. `QueueBounded` needs only
the finiteness of the pending set and that `Admit` is the only step that adds to
it. The refinement maps each action to `Submit`, `Take`, `Settle`, `Sweep` or a
stuttering step.

Outcomes (`OutcomeInv`, on top of `IndInv`). A version row is of a job that ran and
has all its files (`VersionsAreBacked`); between the commit of a version and that
of its job the worker is at a known point (`SuccessHasVersion`,
`AnnounceMatchesRecord`); an order cut short stays recorded as interrupted until a
later job of its certificate exists (`CutIsInterrupted`), and the scheduler's
snapshot of the certificates, which is older than its decision, already knows
(`SnapshotKnowsCut`); what the worker is about to order was allowed by the loaded
configuration and the row (`ObtainIsAllowed`, `RowsFollowConfiguration`).

Downloads (`DownloadsInv`). What a request has learnt by each program point
(`IsAuthorized`, `IsCurrent`) must survive every step of the environment: keys keep
their shape, versions their certificate, and time goes on (`Grows`, shown once for
every such step). The cache's size is a recursive
function of its list. What the proofs need of it, and of greatest elements of
finite sets, is proved by taking a least counterexample: the natural numbers are well
founded, which a prover can use where it cannot use an induction theorem.

Logins (`StoreInv`, `RateInv`). Counts equal the flows held for a peer, no flow in
the store has been used, buckets are not ahead of time. The rate is bounded by
`RateHasSlack`: since any time, admissions plus the tokens now in the bucket are at
most burst plus refill. Forgetting an idle bucket keeps this only because a sweep
interval refills it (`RefillAssumption`, a minute at eight tokens a minute). Limits
are stated of the real sender, so the proof needs that a routed request resolves to
its sender (`PeerAssumption`, `RoutedFrom`): a proxy puts the address it saw
behind what was there. This is what `docs/security.md` asks of proxies; the code
cannot check it.

ACME client (`AccountInv`, `EnvironmentInv`). Account files hold registered accounts
of their directory, a key about to be registered is new and has no file, and only
accounts of other directories are being deleted; the guarded section has put the
credential's first variables into the environment and remembers what it found there
(`Guarded`), and domains dealt with have a provider (`Provided`). `AccountAssumption`
says the files found at the first start are of registered accounts: `saveUser` is
called only after registration (`manager.go:345-368`). `DeploymentAssumption`
describes the input after YAML decoding (`IsDeployment`), and that a domain has one
wildcard label at most, in front. The code does not check the latter: it trims
`*.` once in `Validate` and twice when issuing, so that a name like `*.*.x`, which
no CA issues, could pass the first and fail the second.
The exactness of `Days` in `DaysInRange` holds for every `MaxInt` and every length
of a day that does not divide `MaxInt + 1`, as is the case with 64 bits.

Server (`AuditInv`, `SigningInv`, `SessionInv`, `ReaderInv`). The first three share only the
clock and the processes; steps of one are shown to leave the others alone
(`AuditMove`, `SigningMove`). The newest event of a key carries the time of the
key's last change (`KeyIsTold`), which is what makes its removal by retention
imply the age of the change. For retention, a cleanup under way uses the present
time, and no time passes one that is due (`CleanerIsOnTime`). The refinement of
`KeyAgreement` maps the link of the first key file to `Choose`, an answer to `Serve`
and every other step to a stutter: `SigningInv` gives that a process which
has a key has the one of the file.

For a reader of the log it is not enough to count what was missed at the end, since
removals and inserts move every row to another offset. `Paged` says, for each row m
still in the table and the offset b where the next page begins, that the rows from m
on which are still unread number at most the rows removed above m plus the rows that
lie between b and m. An insert adds to the latter, a removal above m takes one from
it and adds to the former, and a page of `PerPage` rows shows exactly what the larger
offset no longer counts. When the last page is read nothing lies beyond the
offset but what came after the count, which leaves `Finished`, and from there, taking
for m the oldest row missed, `ReaderMissesNothing`.

Client updater (`ClientInv`). The two locks exclude (`OneUpdater`,
`RunLockIsExclusive`); until the switch, the candidate is apart from both links
(`CandidateIsApart`); `next-check` is late enough for all checks so far. The
last needs that a failed check is retried no later than a passed one is repeated
(`FailDelay <= OkDelay`: an hour and a day, `update.sh:26` and `109`).

Client sync (`SyncInv`). One run at a time. The same facts are kept of the
outputs and of the backup that may replace them (`Sound`): they are of one version,
complete once a run was completed, and as new as the validator says (`Whole`, `Kept`,
`Fresh`), with the symlinks agreeing with their snapshot (`LinksAgree`). During a
copy or a rollback they hold of the backup alone, and each program point knows which
files are already of the version fetched or restored (`BackedUp`). Facts with the
exceptions of `halfway` survive every step that only adds to it (`Eases`). That
nothing goes back (`ForwardInv`) is about two runs: a run holds a bundle no older than
what is loaded and shown from its request on, because the lock it took at its start
keeps every other run from switching or reloading before it ends; a backup is no newer
than the bundle of its run.

Model-checked only:

- `EveryJobFinishes`, `StopCompletes`, `FirstIssuanceStarts`, `EveryJobSyncs`,
  `EventuallyDeployed`: liveness, fairness and ENABLED are outside the prover.
- The three violated properties of section 6, which are refuted by example.

## 8. Abstractions and omissions

- The wall clock does not step back; the newest version is the one with the
  greatest id. lego returns a certificate for the SANs and key type asked for.
- Versions from before the key type column, the synchronous `Manager.Issue`
  (tests only), listing and search filters are left out. Job history pages like
  the audit log, but its rows are never deleted.
- The audit log's unit of time is one in which a cleanup completes.
- A URL's trailing slashes are one or none; an account file's name, a digest of the
  URL, is injective. The mock mode, which bypasses the CA, is left out, and so is
  a secret file that exists and is empty.
- A deployment's choice of data directory, durations in hours, log levels and
  listener addresses are left out of `Configuration`.
- Hooks and notifications of the last job are lost when the process exits: they run
  in goroutines nobody waits for, and no document promises them.
- Outputs are removed by others only between runs of a job.
- A child of the reload command that outlives its killed script is one that holds the
  lock (`inherited`); what it still does to the service is part of the killed step.
- The certificate of a key is checked against requests for one certificate;
  keys for other certificates exist in the instance.
- Not modelled: the vault (a cipher), HTTP routing and headers, health checks,
  delivery of hooks and notifications (one attempt, no promise), the mock ACME
  server, the console's views, the end-to-end harness, schema migration (ORM).

## 9. Plan

Modelling is complete but for parts with no state or ordering of their own (section
8), and every safety property the runs check is proved. The operators the proofs
rest on have lemmas of their own beside them (the client address of a routed request
with a chain of any length, `RouteIsResolved` in `LoginsProofs`; the zone lookup,
`FindZoneIs` in `AcmeClientProofs`). What would come next:

1. The wall clock that steps back between two issuances, which decides which version
   is current (`certificate_repository.go:223`), is a hazard without a property.
2. Liveness proofs, once the prover handles fairness.
