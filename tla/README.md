# A formal model of the MAS IAM SCIM bridge and its installer

This directory holds TLA+ modules that model the programs of this repository,
TLC configurations that check them on small instances, and proofs, checked by
TLAPS, of what holds for every instance.

## The system

The repository ships three things.

* **The SCIM bridge** (`services/scim-bridge`): a Go process that polls Keycloak,
  decides which users are in scope, and creates, updates and deactivates their
  accounts in IBM MAS through SCIM. It keeps the correlation between Keycloak ids
  and MAS ids, and the last applied fields, in a JSON file. Beside the poll loop
  it has a backfill mode, and a second program cleans its file up.
* **The installer** `mas-est` (`tools/mas-iam-installer`): a Go CLI that drives
  `oc`, the Keycloak admin CLI and the MAS admin API. It is installed and updated
  by a `bootstrap` container.
* **A Helm operator, manifests and scripts**: declarative resources and shell.

### Inventory

| Component | State | Operations | Hard part | What makes it correct | Module |
|---|---|---|---|---|---|
| poll cycle (`planner.go`, `executor.go`, `poller.go`) | scope of the cycle, planned actions | create, conflict search and adoption, PATCH, PUT, deactivate | a MAS call and the save of its outcome are two steps; calls fail, or succeed without a reply | own accounts only, true tombstones, true snapshots, justified deactivations, everybody synced in the end | `ScimBridge`, `UserSync` |
| process (`app.go`, `mas/auth.go`, `main.go`) | token, retry flag | start, tick, refresh once on 401, exit | replay of a half-done cycle | a cycle ends, a replay repairs | `ScimBridge` |
| state store (`state/store.go`) | map in memory, file | load, Save | memory changes before the file; two callers ignore errors; a kill between write and rename | memory is ahead of the file in errors only; the file always loads | `ScimBridge`, `StateFile` |
| scope (`scope.go`, `keycloak/client.go`) | offset, users seen | group lookup, page loop, filters | memberships change between two pages | no stable member missed, nobody twice | `GroupPaging` |
| diff, payload, profiles (`patch.go`, `payload.go`, `profile_resolver.go`) | none | diff, resolve label | removed fields, zero snapshots | applying the diff gives the wanted document | `ScimData` |
| MAS client (`mas/client.go`) | none | SCIM calls, retries | a retry of what was applied | a retried call has the effect of one | outcomes in `ScimBridge` |
| backfill (`backfill.go`) | store | search and seed entries | overwrites what a cycle wrote, no refresh on 401 | no account forgotten that a search finds | `StateFile` |
| cleanup tool (`cmd/scim-bridge-cleanup`) | the same file | delete accounts, drop entries | runs beside the bridge, which never re-reads the file; fails half way | repeatable, touches errors only | `StateFile` |
| install command (`install.go`, `config/install.go`, `preflight.go`) | the resolved configuration | resolve, validate, install phase after phase | defaults and validation in several places | an install that is started can work | `Install` |
| in-cluster install (`install_incluster.go`, `install_logstream.go`) | the Job, a shared Secret, resume position | look up the Job, replace it, apply, follow its log | two installs at once; dropped streams, lagging status | the Job installs what was confirmed; each line once | `Install`, `JobLogs` |
| MAS authentication (`mas_auth*.go`, `masadmin/`) | Keycloak clients, Suite, IDP configurations, Secrets | apply by API or CR, delete | several systems, a failure between two steps, read-modify-write | a repeated run leaves one secret everywhere | `MasAuth` |
| object storage, SMTP (`object_storage.go`, `smtp.go`, `details.go`) | Secrets, Deployments, a Job, MAS configuration | install MinIO, Rook, Mailpit | a failed read taken for absence; pods that read a Secret once | nobody is locked out, a rerun gets there | `Services` |
| bootstrap and update (`bootstrap.go`, `update.go`) | runtime directory, launcher | stage, swap, choose a release | a kill in the swap, two at once | a whole runtime or none | `Bootstrap` |
| runtime configuration, restart (`config.go`, `restart.go`) | one Secret or ConfigMap | one patch, one restart | | the bridge sees another configuration at its next start | starts of `ScimBridge` |
| read-only commands, forms, `oc` client | none | print | none | | not modelled: I/O only |
| operator, manifests, scripts | none | | | | not modelled: declarative |

The bridge reads Keycloak and writes MAS and its file; the installer writes the
bridge's configuration and restarts it; the cleanup tool shares the file.
Everything the bridge does is sequential in one process
(`manifests/scim-bridge.yaml`: one replica, strategy Recreate, one volume), so the
concurrency is between the bridge, the administrators of Keycloak and of MAS, the
cleanup tool, and crashes. The installer is sequential too, but several users may
run it, its pods run it again, and the cluster acts beside it.

## The modules

| Module | Models |
|---|---|
| `ScimData` | users, store entries, snapshots, MAS accounts and the pure operators on them |
| `ScimBridge` | the process, the poll cycle, the executor, the store, and the environment |
| `UserSync` | abstract: what the bridge promises about accounts |
| `ScimBridgeSync` | the refinement mapping from `ScimBridge` to `UserSync` |
| `GroupPaging` | the resolution of a scope from groups, page by page |
| `StateFile` | the state file with its two writers: the bridge, polling or in backfill mode, and the cleanup tool |
| `JobLogs` | the log stream of the in-cluster install Job and its `resumeWriter` |
| `Install` | the install command, on a user's machine and in a Job, for several users |
| `MasAuth` | `mas-auth apply` and `mas-auth delete` |
| `Services` | MinIO, Rook and Mailpit |
| `Bootstrap` | `bootstrap` and `update` |
| `MC...` | instances for TLC |
| `..._proofs` | inductive invariants and theorems |

An operator whose comment starts with "Mutant" is a wrong variant of the
definition that follows it: no run uses it, it records a bug that a property
detects.

### ScimBridge

| Variable | Code |
|---|---|
| `kc` | the realm: place (absent, out of scope, in scope, deleted), enabled, fields, profile |
| `mas` | MAS accounts by id; ids are issued in order |
| `file`, `mem` | the state file, and `FileStore`'s map in memory |
| `config` | INCLUDE_GROUPS set, ALLOW_UPDATES, DRY_RUN, fixed while a process runs |
| `pc`, `todo`, `cur`, `pend` | where `RunOnce` stands, actions left, the user in progress, the entry about to be saved |
| `scope` | Keycloak users as this cycle read them |
| `tokenOK`, `refreshed` | MAS accepts the token; this run is the retry of `runWithMASRefresh` |
| `edits`, `faults` | counters of the bounds |

Each action is one MAS call with everything up to the next call or save, or one
save. So a crash, an edit or an expired token may fall between the POST and the
`Save` of its id. Planned actions run in any order: Keycloak's order is not under
the bridge's control, and the property of one user does not rely on it.

Abstractions. The compared profile fields (names, e-mail) are one value; `active`
is separate. User names do not change, so a rename is not modelled. The profile
of a user is the profile the label resolves to, or `Unmapped`. A MAS outcome is
one of: applied, rejected, 401, 404, applied but answered with an error, applied
and retried into a 409, answered by a 201 that cannot be decoded. Without groups
the page read is any part of the users in scope. With groups the membership is
read at one moment; `GroupPaging` shows what that leaves out. A retried call is
not delayed past the next one. The `missing MAS ID` branches are left out because
`TrackedHaveId` makes them unreachable, and `planner.go:68-71` because the
configuration never has an empty default profile.

`UserSync` says what a reader of the design expects of all this without cycles,
stores, tokens or retries: a user is linked once and for good, to an account of
the user's name; an account is issued, switched on or off on behalf of a linked
user; a user is marked removed only while the account is off.
`ScimBridgeSync` maps MAS to the directory and the entries of the state file to
links and removals.

### GroupPaging

`member` is Keycloak, `k`, `first` and `found` are the loop variables of
`groupMembers`. Users are numbered in Keycloak's listing order, so the offset of a
user is the number of members before the user, and a page is the members at `PageSize`
offsets from `first` on. `ever`, `always` and `left` record what happened while the
scope was read. Joins, leaves and the deletion of a group fall between any two
requests.

### StateFile

`file` and `litter` are the volume: the state file and the temporary files beside
it. `mem` is the bridge's map, `left` the cleanup tool's. A write is two steps,
the temporary file and the rename; a kill in between leaves the temporary file.
`strict` says if the caller of `Save` looks at its error. Of a poll only its Saves
count: `PollCreate` and `PollUpdate` are what `ScimBridge` has in full. A backfill
visits every user, by externalId first and by name second, and overwrites what
it finds. `overlapped` records that bridge and cleanup were there at once: each
writes its whole map, so one then takes the other's entries away; the properties
about entries except that and say so.

### JobLogs

A line travels in four pieces: a part of its timestamp, the rest of it with the
head of the text, the tail, and the newline. A drop between any two leaves a part of
the line in `partial`. What stands before the first space of the line then emitted is
a timestamp when the two parts of one are together (`Stamped`): `EmitStamped` skips or
prints and remembers the line; `EmitRaw` prints it as it is and leaves `last`,
`lastCount`, `skipAtTs` and `resuming` alone. `--since-time` starts the stream at the first line of
that time or at any earlier one, because the API server truncates the time. The
writer's variables have the names of the fields of `resumeWriter`.
A follow that ends without an error is assumed to have reached the end of the log
of an exited container.

### Install

`run` has a record per run: users' runs, and the runs inside the pods of Jobs, which
go through the same actions with `PodMode` and `PodConf`. `Resolved` is what flags,
environment and answers become, `Valid` what the validation lets through, `JobArgs`
and `SecretKeys` what of it a Job is given. `job` is the Jobs, in phase none before
they are created, `named` those the API knows by name, `secret` the one Secret all
installs of a namespace share. A phase is one step that may fail. Preflight checks are
a choice to refuse; of them only the ranking of storage classes is modelled
(`Recommended`). Replacing a Job is two steps, the question and the deletion.

### MasAuth

`obj` maps every object a run writes, in Keycloak, in MAS and in the installer's
namespace, to the run that wrote it: the client secret of a run is random, so two
objects agree when one run wrote both. `Steps` is the list of calls of `apply` in
their order, by the admin API or with `--use-cr-apply`; an action takes the first
of the list, and after every call the run may fail, lose the answer or be killed.
`templates` and `seen` are the read and the patch of the Suite's podTemplates; `raced`
records the runs between whose read and patch the Suite got a template.

### Services

`Steps` again is the calls of one install in their order. `root` is the root Secret,
`pod` the password the running pod has read, `job` the bucket Job, `relay`, `mdep` and
`mpod` the same for Mailpit; `masCred`, `cfg` and `conn` what MAS and users have been
told. An install of MinIO waits for two rollouts, of the Deployment and of the
MINIO_DOMAIN it sets later (`reroll`). `Cluster` starts and stops pods and jobs on its
own. `Again` repeats a failed install. Calls that write what no property tells apart,
such as Services and routes, are part of the next step.

### Bootstrap

`runtime` and `launcher` are the host's directory, `staging` and `tmp` what is about
to replace them; the name of the new launcher is one for all, staging
directories are not. `Defers` is what the deferred calls clean up when a step
fails; `Killed` runs none of them. `RemoveAll` takes several steps. An `Update`
without `--version` takes the newest of the releases the registry has by then, if it is
newer or `--force` is given. `how` remembers if a version was asked for, by `--version`
or `--force`, or was the newer one of an update. `over` is history: the updates of the
latter kind during which another one installed a runtime, so that the one they
compared with is gone.

## What is checked

| Run | Question and properties | Bounds | States |
|---|---|---|---|
| `bridge_faults` | which facts survive crashes, full disks, lost, retried, rejected and undecodable calls, failed searches, edits, accounts made by hand? `TrackedHaveId`, `CorrelationIsOwn`, `OnlyErrorsUnsaved`, `TombstoneOnlyInactive`, `ScopedStaysActive`, and the refinement `ImplementsUserSync` | 2 users, 2 faults of any kind, 3 edits | 1 151 992 |
| `bridge_converge` | is MAS what Keycloak said, and the snapshot what MAS holds, at the end of each cycle, and for good? `SyncedAtIdle`, `SnapshotSound`, `RemovedIsDeactivated`, `ScopedIsSynced`; one user comes from a legacy file without a snapshot | 2 faults that are answered, 3 edits; fair | 355 204 |
| `bridge_modes` | does each switch forbid what it promises, over restarts that change it, and do entries keep account and profile? `TypeOK`, `CorrelationFixed`, `DryRunCallsNothing`, `UpdatesDisabled`, `DeactivationJustified` | 8 configurations at each start, 1 fault, 3 edits | 3 207 679 |
| `bridge_live` | does a cycle end when MAS refuses fresh tokens too, and is an account found again that was created just before a crash? `EveryCycleEnds`, `ScopedIsEnrolled` | 2 faults of any kind, 2 moves; fair | 46 466 |
| `group_paging` | is no member missed and none planned twice? `StableMembersFound`, `ScopeIsSound` | 2 groups, 4 users, pages of 2, 2 changes | 130 889 |
| `state_file` | what do kills and failures leave of the file, and what do backfill and cleanup forget or delete? `FileIsSound`, `CleanupComplete`, `CorrelationKept`, `DeletesErrorsOnly` | 2 interchangeable users, 2 accounts, 2 faults, 2 cleanups | 2 672 433 |
| `install` | does a Job install what its user confirmed, can what is installed work, who launches Jobs? `JobAsConfirmed`, `FitToRun`, `JobsFromPeople` | 112 requests of one user, invalid ones too, 2 of another one, 3 Jobs, 1 failure | 3 501 760 |
| `job_logs` | is the printed log the log? `PrintsTheLog`, `FollowingEnds` | 4 lines, two and two of one timestamp, 3 faults; fair | 95 490 |
| `mas_auth` | do Keycloak, MAS and the Secrets agree after failures and reruns? `AppliedAgree`, `ConnectionsSound`, `DeleteComplete`, `TemplatesKept` | 2 applies and a delete, all providers or OIDC alone, 1 failure; at once only with OIDC | 1 158 019 |
| `services` | is nobody locked out, and does a rerun get there? `ServicesAgree`, `AccessKept`, `DetailsKept`, `RerunSucceeds` | 2 installs and their reruns, 2 faults; an older release's MinIO or none; fair | 378 686 |
| `bootstrap` | does a kill or a second bootstrap leave a host that works? `HostIsSound`, `OneVersion`, `AloneNotBlocked`; does an update take away only what is older? `OnlyForward` | 3 bootstraps, two at once, 3 versions, one a pre-release, 1 failure or kill | 1 851 477 |

The run `claim_replaced` ends in a counterexample, on purpose.
`install_incluster.go:106-107` says that a Job of the same name is not silently
replaced, as it "may be somebody else's install". The code asks about the Job it
looked up, says of a Job whose pod is not made yet that it has finished, and then
deletes whatever has the name (:138): in the trace a user is told "finished", the
pod starts, and the answer deletes a running install.

### What else the models show

Behaviour of the code that the properties have to except, or that a trace shows;
none has a run of its own.

* An adopted account is recorded with a payload it was never sent, so it keeps its
  old fields until Keycloak changes again (`executor.go:231`).
* After a crash between an applied PATCH and its Save the snapshot is stale, and
  a tombstone may stand beside a reactivated account, which removal detection then
  passes over (`executor.go:314`, `planner.go:118`). `SnapshotSound` and
  `ScopedIsSynced` are therefore checked under faults that are answered.
* A user deleted and created again in Keycloak under the same name adopts the old
  account; removal detection then deactivates it for the old id
  (`executor.go:208`).
* A member who leaves a group between two pages makes the next page skip another
  member (`scope.go:72`; `SCIM-GROUP-SCOPING.md:67` calls the set complete).
  `StableMembersFound` excepts it.
* A dry run saves made-up ids and tombstones which a live process believes
  (`executor.go:50`, `137`). The refinement excepts it.
* A POST that was applied but answered with an error is stored without an id, and
  removal passes over the account (`planner.go:122`).
* An entry in error is skipped as long as the user is in scope, so the restart
  `TROUBLESHOOTING.md:75` advises does not help (`poller.go:56`).
* A failed reactivation loses the tombstone (`executor.go:298`).
* A 401 in a backfill is returned as a plain error, so no refresh follows
  (`backfill.go:59`); a backfill turns a tombstone into an entry in order.
* Before the first log line is printed a reconnect skips `Resume`, so a part of the
  line is glued to the first line of the next stream (`install_incluster.go:185`).
  When the timestamp itself was cut, the line is printed raw and not remembered
  (`install_logstream.go:73-93`): after one more drop the log starts again, and a
  line that was shown is shown a second time, which `install_incluster.go:148` says
  it is not. `EachLineOnce` allows that, and says how far it goes: one line, once
  more, of the first timestamp.
* A catch-up that fails may leave a part of a timestamp as the last line, even of
  a line printed before; `EachLineOnce` allows it.
* `update --force` installs the newest release again, or one older than what the
  host has, a dev build for instance (`update.go:107`), although the comment above it
  says that without `--version` a newer binary must not be updated back (:105-106).
  `OnlyForward` is about updates without `--force`.
* Without `--force` too an update may go back, when another bootstrap installs a
  newer version between the comparison and the removal: nothing compares again
  (`update.go:107`, `132-148`). `OnlyForward` excepts what was installed since the
  update looked, and nothing else.
* The memory bump is lost when the Suite has no podTemplates, and an edit between
  its read and its patch is (`mas_auth_api.go:70`).
* An apply of some providers drops the self-registration keys of the others
  (`mas_auth_api.go:260-305`).
* An error that is not "not found" is taken for a missing root Secret: MinIO gets
  a new password its pod does not have, and reruns time out
  (`object_storage.go:517`). `AccessKept` and `RerunSucceeds` except it.
* `--mas-base-url` is not passed to a Job without scim (`install_incluster.go:658`).
* The comment on unbounded Jobs overstates: a nested install with the default name
  would meet its own Job (`install_incluster.go:632-637`).
* The CLI reports the result of whatever Job has the name by then.
* A changed relay Secret does not reach the running Mailpit pod (`smtp.go:126`).

### Bounds

Two users suffice for one to interfere with another (one name for two ids, one
mismatch saved by another's write, a whole map written for one entry). Two
profiles, two values of the fields and a label without mapping are what guards
compare. Two faults and three edits allow: fail, recover, fail again; leave,
change, return. `MaxAccounts` is large enough that MAS never runs out of ids where
that matters. In `state_file` two cleanups and two faults allow a cleanup that fails
after its deletions and is repeated. In `install` one user has the wide set of requests and
the other one two that meet it: the same Job name and Secret, and an uninstall.
In `mas_auth` and `services` the bounds `Together` and `Overlaps` say which runs may be
there at once: those that write the same objects. In `mas_auth` one failure and
a second run are a run that stops anywhere and its repetition. `bootstrap` has three
versions so that an update can meet an older, an equal core and a newer one.
`job_logs` has lines that share the timestamp of the first one and lines that do
not, as the number of lines to skip is counted per timestamp; three faults are a drop in
the first timestamp, a second drop, and a catch-up that fails.

Deadlock checking is off in `job_logs`, `install`, `mas_auth`, `services` and `bootstrap`,
whose systems stop when all commands have ended. Symmetry is used in `state_file`
only, which has no liveness property.

### Fairness

* The bridge: `WF_vars(Bridge)`. The pod is restarted by its Deployment and the
  ticker fires, so some step of the bridge is taken whenever one is possible.
  Nothing is assumed of the environment: faults and edits are bounded, the
  properties speak of users who stay in or out for good, and premises say that MAS
  goes on accepting the token. No call is promised to succeed; it merely cannot
  fail more often than the bound allows.
* `JobLogs`: `WF_vars(Stream)`, the CLI runs on.
* `Services`: weak fairness of the cluster's steps and of each install; strong
  fairness of `Again(i)`, the user who repeats a failed install, because the bound
  on overlaps disables that now and then.

## What is proved

For any sets of users, names, values, profiles, groups, versions and requests, any
log, page size and order of timestamps, and any number of accounts, faults, edits,
cleanups, Jobs, installs and bootstraps:

| Module | Theorem | Property |
|---|---|---|
| `ScimBridge_proofs` | `TypeCorrect` | `TypeOK` |
| | `TrackedIdsKnown` | `TrackedHaveId` |
| | `CheckedSaves` | `OnlyErrorsUnsaved` |
| | `CorrelationsAreFixed` | `CorrelationFixed` |
| | `CorrelationsAreOwn` | `CorrelationIsOwn` |
| | `TombstonesAreTrue` | `TombstoneOnlyInactive` |
| | `RemovalsAreJustified` | `DeactivationJustified` |
| | `ScopedIsKept` | `ScopedStaysActive` |
| | `SnapshotsAreSound` | `SnapshotSound` |
| | `CyclesSync` | `SyncedAtIdle` |
| | `CreateOnly` | `UpdatesDisabled` |
| | `DryRunIsQuiet` | `DryRunCallsNothing` |
| | `BridgeKeepsPromise` | `ImplementsUserSync` |
| `StateFile_proofs` | `DirectorySound` | `FileIsSound` |
| | `CorrelationsKept` | `CorrelationKept` |
| | `ErrorsDeletedOnly` | `DeletesErrorsOnly` |
| | `CleanupsComplete` | `CleanupComplete` |
| `GroupPaging_proofs` | `StableMembersAreFound` | `StableMembersFound` |
| | `ScopeStaysSound` | `ScopeIsSound` |
| `Install_proofs` | `NoJobsFromJobs` | `JobsFromPeople` |
| | `JobsDoAsConfirmed` | `JobAsConfirmed` |
| | `FitToRunHolds` | `FitToRun` |
| `JobLogs_proofs` | `PrintsTheLogHolds` | `PrintsTheLog` |
| `MasAuth_proofs` | `AppliedAgreeHolds` | `AppliedAgree` |
| | `ConnectionsSoundHolds` | `ConnectionsSound` |
| | `DeleteCompleteHolds` | `DeleteComplete` |
| | `TemplatesKeptHolds` | `TemplatesKept` |
| `Services_proofs` | `ServicesAgreeHolds` | `ServicesAgree` |
| | `AccessKeptHolds` | `AccessKept` |
| | `DetailsKeptHolds` | `DetailsKept` |
| `Bootstrap_proofs` | `HostStaysSound` | `HostIsSound` |
| | `OwnVersionLeft` | `OneVersion` |
| | `AloneGetsThrough` | `AloneNotBlocked` |
| | `UpdatesGoForward` | `OnlyForward` |

Assumptions: the `...Assumption` of each module, which give the parameters their types
and keep the special values apart, and `InitialAssumption` of `ScimBridge` (an
account's externalId goes with its user's name, and an old state file names accounts
of its own users). `ClustersAssumption` numbers the names of storage classes in the
order in which the code compares them. `BridgeKeepsPromise` also supposes that no
process may start in dry run: a dry run records made-up ids. `ScopedIsKept` supposes
`OwnNames`, that no name is given to a second Keycloak id: a user who is deleted and
created anew under the old name shares the account with the old entry (see above), and
is deactivated on its behalf. `SnapshotsAreSound` and `CyclesSync` suppose a
`GoodWorld`, as the run `bridge_converge` has it: `OwnNames`; no dry run; a first file
that knows the accounts of its users' names and is true of them (accounts of other
names do not matter); and no crash, full disk, or call that was applied without a good
answer. Rejected calls, failed Keycloak calls, expired and refused tokens, edits and
deleted accounts remain. The list above shows how snapshots go stale otherwise.

The arguments.

* **The bridge.** None of the invariants is inductive alone. `ProcInv` adds `Control`,
  which says for every value of `pc` what the list of users may hold: in the sync loop
  only users the planner let through, in the removal loop only tracked users out of
  the scope, in a search only users without an entry, in a PUT only in live mode, and
  before a save an entry that keeps the id and profile of the one it replaces.
  `MemoryKeepsFile` says that memory knows every correlation of the file; with
  `Control` it gives `CorrelationFixed`. Every step of the bridge has one of four
  shapes (the process exits, the action is skipped, goes on, or has an outcome) or is
  a save, and one lemma per shape shows that it keeps `ProcInv`; the actions are then
  reduced to their shapes. `MasInv` relates the entries to MAS: `ExtNamed` (an
  externalId goes with a name), `CorrelationIsOwn`, and `TombstoneDone` (a tombstone
  waits for its save only after the deactivation was applied), which carries the fact
  over the step in between, in which a crash or an edit may fall. `ScopedIsKept`
  follows from `CorrelationIsOwn` and `DeactivationJustified`: two entries that name
  one account bear one name.
* **True snapshots and synced cycles.** `SyncInv` is about the entry of a user that
  counts, the one about to be saved or the one in memory (`Newest`): what it says of
  its account is so (`AllTrue`), an account of a user's name is the one the user is
  linked to (`AllTracked`), so that no create meets a conflict, and whoever's action of
  this cycle is done is in line (`SyncedSoFar`). The last part holds in the middle of a
  cycle; at its end it is `SyncedAtIdle`, as removal detection passes only over users
  who are tombstoned, whose account `AllTrue` says is inactive, or who have none. That
  a PATCH gives the wanted document rests on a true snapshot (`PatchReaches`).
* **The refinement.** The invariants above are strengthened by `LinksSaved`
  (memory and file link a user to the same account) and `NewIsOpen` (the first entry
  of a user is not a tombstone). Four lemmas say what a step of the bridge maps
  to: a step that changes the file (`FileMaps`), one that changes an account
  (`ChangeMaps`), a deletion in MAS (`DeleteMaps`), and the initial states
  (`InitMaps`); `StepMaps` puts them together.
* **The file.** `IInv` of `StateFile_proofs` adds: ids in maps were issued; an account
  with an externalId is the only one of its user (so a backfill finds exactly it);
  while bridge and cleanup have not met, one of them is not there (`Alone`), memory
  and the entry about to be saved have what the file has, and the cleanup's map is
  the file but for entries whose accounts it deleted; and the cleanup's list
  covers all its entries in error.
* **Install.** `JobsFromPeople` needs that a pod is at no step of launching a Job,
  which needs that what it resolves is `--local` (`PodsLocal`). `JobAsConfirmed` is
  about a configuration that is resolved twice, on the user's machine and in the pod.
  Resolving is idempotent (`CoreTwice`, `AuthTwice`, `ResolvedTwice`), and what
  `JobArgs` leaves out of the flags does not matter to what is installed
  (`RoundTrip`). `JInv` adds that a Job has the arguments of what its user confirmed,
  that its pod is given these and the Secret, and that a run whose Secret it still is
  finds its own values in it. `FitToRun` needs that what a run has done are the first
  of its phases (`DoneOf`), that `Phases` lists a service before the provider that
  needs it, and that the class a user's run has chosen is the `Recommended` one of the
  cluster; that some class has the least name among the best ranked is
  well-foundedness of the numbers (`LeastNumber`).
* **Paging.** The offsets of a group's members have no gap (`ShortPage`), so after a
  page that is not full nobody is ahead. `IInv` says of the group that is being read
  that whoever was a member throughout and is not found yet is still ahead of `first`
  (`Ahead`), and of the groups read before that they are covered. A join moves members
  back in the list and nobody forward; only a leave does, which is why the property
  excepts it.
* **The log.** `IInv` says what the writer knows (`Remembers`: the timestamp of the
  line printed last and how many printed lines have it), where the stream stands
  (`Sent`: m whole lines and q pieces of the next), and how the two go together: while
  the writer resumes, the number it has still to skip is what the stream will
  repeat, and otherwise the next line sent is the next to be printed. Before the first line
  is printed a part of it may be kept from earlier streams; it is of line 1 (`Opening`).
  When that part cut the timestamp, line 1 is printed and not counted: as long as all
  printed lines have its timestamp, the writer knows of one line less than was printed
  (`Uncounted`), and a resume repeats one. With the repeated line, or with the first
  line of another timestamp, the count is right again, and stays so: hence once.
* **MAS authentication.** `RunOK` says of a run that goes on or has ended well, for
  each object of its providers: the run wrote it, or has a step left that will
  (`Pending`), or another run came across the provider. The list of steps has an
  invariant of its own (`Plan`), which every step keeps by taking the first one off.
  `Owned` says that what is there was written by a run that was asked for it;
  `DeleteOK` does for the delete what `RunOK` does for an apply.
* **Services.** The same scheme: `PlanOK` says that an install has left exactly the
  steps from the present one on (`Rank`), and `MinioOK`, `RookOK` and `MailOK` give,
  for each effect, "the step is left or the effect is there", for installs that have
  met no other of their service. `CleanS3` and `CleanMail` carry that on after an
  install has ended, until the next begins. `AccessKept` rests on `OnePassword`:
  unless an error was taken for absence or two installs met, there has been one
  password ever.
* **Bootstrap.** `IInv` follows a bootstrap through its places: what is staged there,
  who wrote the new launcher and will rename or remove it, that a runtime is whole
  unless someone is removing it, and, for a bootstrap beside which no other one
  ran, that what it finds at each place is its own (`OwnWay`). `OnlyForward` rests on
  `BringsNewer`: what an update without `--force` brings is newer than the runtime there,
  until it is taken away, whoever runs beside it, unless one was installed meanwhile.

Only model-checked: liveness (`EveryCycleEnds`, `ScopedIsEnrolled`,
`RemovedIsDeactivated`, `ScopedIsSynced`, `FollowingEnds`, `RerunSucceeds`), which the
prover does not reach. Every other property of a passing run is a theorem, four of them under
the conditions said above.

## Not modelled

* Redaction, logging, terminal forms, read-only commands, the `oc` client and the
  process runner: input and output without state. What their calls do to the
  cluster is in the modules that make them.
* Runtime configuration and restart: one patch and one restart each; the bridge
  sees a start with another configuration, which `ScimBridge` allows at every start.
* Preflight checks other than storage classes: requests whose answers may refuse a
  run, which `Install` has as a choice.
* Of `mas-auth`: the keycloak-bootstrap script in detail, the memory limit's value,
  linking users, which stops no run. Of `Services`: labels, images, ports and sizes.
  Of `Bootstrap`: the version guard of other commands, `update --check`, the page limit
  of the registry. Of `JobLogs`: lines the container runtime itself writes without
  a timestamp; the raw branch is reached by cut timestamps only.
* RBAC manifests, charts, shell scripts: declarative, or outside Go.
* A power loss between write and rename (the file is not synced), a PATCH that MAS
  applies after a later one, a token request that never returns (it has no
  timeout): they lie in the disk, in MAS and in the network. They are listed as
  hazards without a property.

## Plan

1. Done: the bridge, its abstract specification, refinement and theorems; the
   state file with backfill and cleanup, and its theorems; paging; the installer's
   commands.
2. Done: theorems of every safety and action property of the runs. Left: weaker
   conditions for `SnapshotsAreSound`, such as crashes while no call is in flight.
3. Worth modelling further: an explicit delayed retry in the MAS client, and
   the diff field by field against a reference definition.
