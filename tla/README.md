# A TLA+ verification project for citeck-launcher

The launcher runs *namespaces*: sets of applications, each a Docker container
with init containers, probes and dependencies, generated from a configuration
and a bundle of versions.  The core of the program is the *namespace runtime*
(`internal/namespace`), a single-threaded loop that drives every application
through a state machine of twelve statuses while worker goroutines do the Docker
I/O and API goroutines change applications under the same lock.  Around it a
*daemon* (`internal/daemon`) loads and switches namespaces, keeps secrets,
snapshots and clones of repositories, and streams events to its clients.  On a
server the daemon is installed, upgraded and restarted by a command and systemd;
on the desktop it is the child of a *supervisor* (`internal/desktop`), which
restarts it and judges the updates it is swapped for.

This directory models these parts, checks them with TLC, and proves with TLAPS what matters most
of the runtime, the takeover by the next daemon, the supervisor, the daemon's namespaces, the clicks,
the installation, the staging of updates, the diagnostics, what is computed from documents and all that
is kept on disk.

## 1. Inventory

| component | state it keeps | operations | hard behaviours |
|---|---|---|---|
| **Runtime loop** (`runtime_loop.go`, `runtime_probes.go`, `runtime.go`) | `status`, `apps`, `manualStoppedApps`, `pendingContinuations`, `lastApps`, `shutdownComplete` | one `select` over commands, results, ticks, signals; `applyWorkerResult`, `tickUnderLock`, `stepAllApps`, `evaluateContinuations`, `updateNsStatus` | plans committed under the lock and dispatched after it; results that arrive after the state that asked for them; a stop budget racing a late answer |
| **Namespace operations** (`runtime_orchestration.go`, `runtime_portconflict.go`) | the same, and the containers | `doStart`, `doRegenerate`, `doStop`, `doDetach` | unlocked I/O between two critical sections; a chain of groups that must end; what is adopted and what is recreated |
| **API operations** (`runtime_commands.go`) | the same, under `r.mu` | `StopApp`, `StartApp`, `RestartApp` (three sections), `RetryPullFailedApps`, `Start`, `Stop`, `Detach`, `Shutdown`, `Regenerate`, `UpdateAppDef` | run between any two sections of the loop; several sections in one call; bounded waits |
| **Workers** (`runtime_workers.go`, `runtime_app.go`) | containers in Docker | pull, init, start, startup probe, stop, liveness, diff | cancelled, superseded, half done |
| **Dispatcher, command queue** (`dispatcher.go`, `signal.go`, `cmdqueue.go`) | the task in each slot, attempt ids, pull semaphore; a bounded channel | `Dispatch`, `Cancel`, `Enqueue`, `Drain` | late results; which commands a merge may forget |
| **Runtime state** (`runtime_state.go`, `statefile.go`) | the persisted status and intents | `setAppStatus`, persist, recover | a crash between a persisted intent and its action |
| **Generator** (`generator*.go`) | the map of applications | generate, prune | optional and mutual dependencies |
| **Edits** (`appdefpatch.go`, `filemerge.go`, `structmerge.go`, `nodeapply.go`) | deltas over what was generated | edit, reset, reload | a template that changes under an edit |
| **JVM commands** (`jvm_command.go`, `jvm_attach.go`, `liveness_suspend.go`, `generator_export.go`, `jvmattach`) | a count of suspensions; in the container a trigger, a listener, a class; dumps on disk | jcmd, heap dump, thread dump before a restart, rotation at a start | a pause that looks like a failure; several clients of one JVM |
| **Memory budget** (`memory_budget.go`, `partial_budget.go`) | none | divide a limit over the pools of a JVM | rounding, clamping, flags of the operator |
| **Daemon: namespaces** (`namespace_loader.go`, `server.go`, `routes_ns.go`, `routes_workspaces.go`) | the active workspace and namespace, its configuration, runtime and Docker client; rows of the store | create, activate, edit, reload, switch, delete, rotate | checks before `reloadMu` is taken; a crash between two writes |
| **Daemon: Update & Start** (`routes_config.go`) | a flag, a queue of one, two atomics | a click folds into a queued pass | no common lock |
| **Daemon: events** (`eventring.go`, `sse.go`, `web/src/lib/store.ts`) | a ring, a channel for each subscriber, the client's view | broadcast, replay, refetch | every way to lose an event |
| **Secrets** (`storage/crypto.go`, `systemsecrets`, `routes_secrets.go`) | the vault, its salt and mode; the system secrets | set a master password, unlock, import, edit, rotate | many rows, no transaction |
| **Bundles and git** (`git`, `bundle/resolver.go`) | clones, times of syncs, the cached bundle | sync, re-point, repair, order versions | joined syncs; repairs that fail |
| **Snapshots** (`snapshot`, `routes_snapshots.go`, `cli/snapshot.go`) | volumes, archives, a download | export, import, download with resume | failures half way; a command that waits by events |
| **Storage and migration** (`storage/sqlitestore.go`, `h2migrate`) | launcher.db, storage.db | upgrade the schema, import the Kotlin store | kills; a file that H2 left in the middle of a commit |
| **Certificates** (`acme`, `tlsutil`, `acme_certs.go`) | two pairs of files, a rate limit | order, renew, reload | key and certificate are two writes |
| **Installation** (`cli/installer_lifecycle.go`, `cli/start.go`, `cli/stop.go`, `bootstrap.go`) | the binary, its backup, the unit, the socket | install, upgrade, rollback, start, stop | systemd restarts what the installer kills |
| **Settings** (`cli/setup`) | a document, its history | set, undo, record external edits | several files, no transaction |
| **Cleaning** (`cli/clean.go`, `cli/uninstall.go`) | what Docker holds | clean, uninstall | a list that is older than the scan |
| **Updates** (`internal/update`) | the manifest of staged versions | check, stage, judge | a release published file by file; two writers |
| **Desktop shell** (`internal/desktop`, `cmd/citeck-desktop`) | the child daemon, the ready, stopping and restart flags | supervise, restart, gate, swap, quit | a stop between a check and a spawn; an answer of the previous child |

What makes each correct:

- *runtime*: an application the operator stopped stays down until he starts it; every
  application ends as last asked; what dies is replaced; the steps of one startup never
  overlap; the last reload wins; a stop is one chain, in the order of the groups, that ends and
  leaves nothing running.
- *takeover*: what is adopted runs the desired definition, and what need not be touched is not;
  a restart keeps the operator's intents.
- *generator, edits, budget, versions*: what survives can start; an edit and a newer template
  both keep their say; the pools fit the container; the order is one.
- *JVM commands*: a diagnosis costs an application nothing, leaves nothing in it, and is kept.
- *namespaces*: memory, store and Docker agree on what is active, whatever crashes.
- *clicks and events*: no click and no change is lost, or seen twice.
- *vault, clones, snapshots, database, settings, certificates*: no crash or failure between two
  writes costs what was there.
- *installation and desktop*: one daemon at a time, the platform stays up through upgrades, no
  update is committed that never worked, and nothing is left after a quit.

## 2. Modules

| module | models |
|---|---|
| `Commands` | the commands of the runtime and the table that merges adjacent ones, as pure operators |
| `NsRuntime`, `NsRuntimeProps`, `MCNsRuntime` | the loop, the workers, the containers, the API operations; their properties; the instances |
| `Adoption` | how a runtime starts, ends and is taken over by the next daemon |
| `Generator`, `Edits`, `JvmMemory`, `BundleVersions` | what is computed from documents |
| `Setup`, `MvStore` | the history of the settings; the reader of the Kotlin launcher's file |
| `Documents`, `MCDocuments` | compose six of the seven above, and all of them for TLC |
| `Namespaces`, `AdminPassword`, `Staging`, `Diagnostics`, `MCNamespaces` | the daemon's namespaces and workspaces; the rotation of the administrator's password in the systems that hold a copy; the staging of an update; what is asked of a running JVM; the four for TLC |
| `UpdateStart`, `ServedClicks` | the clicks on "Update & Start", and what a click is promised: the first implements the second |
| `EventStream`, `Installer`, `MCApi` | the stream of events with a client; the daemon of a server; these beside the clicks (`MCApi` extends `UpdateStart`), for TLC |
| `Secrets`, `Bundles`, `Snapshots`, `Migration`, `Certificates`, `Cleanup`, `MCStores` | what is kept on disk, and the composition for TLC |
| `Supervisor` | the desktop wrapper's supervisor, the boot gate, the swap, the quit and the manifest |
| `NsRuntime_proofs`, `NsStartup_proofs`, `Supervisor_proofs`, `Namespaces_proofs`, `Daemon_proofs`, `Api_proofs`, `Documents_proofs`, `Stores_proofs` | inductive invariants and theorems; `NsStartup_proofs` goes on from `NsRuntime_proofs`, `Daemon_proofs` from `Namespaces_proofs`; the last four have a section for each component |

A composition (`MCStores`, `MCDocuments`, `MCApi`, `MCNamespaces`) chooses in the initial state which
of its components moves; the others stay as they begin.  The components of one composition share
no state in the code, so their interleavings would add nothing but states.

Most of these modules have a constant ending in `Faults` (or `Races`, `SlowPoll`) that lets loose a
hazard under which a property fails.  The passing runs leave it empty; section 4 says what each
element stands for and what happens with it.

### How `NsRuntime` corresponds to the code

*Grain.*  One critical section of `r.mu` is one action.  What runs between two sections
of one handler is a step of its own: `plans` holds what the loop has committed and not yet
dispatched (`LoopDispatch`), `held` the same for API goroutines (`APIDispatch`),
`restarting` the section that `RestartApp` has reached, `pc = "regen"` the unlocked I/O of
`doRegenerate`, `pc = "diag"` the diagnostics of a failed liveness probe.

*The loop* is a program counter: `select` → (`drain` → `apply` → (`regen`)) → `step`
(`stepAllApps`) → `eval` (`evaluateContinuations`) → `status` (`updateNsStatus`) →
`select`.  The tail runs after every arm, as in the code.

*An application* is a record: `status`, `next` (`desiredNext`), `cid` (is a container id
known), `def` (what `GetHash` tells apart), `marked` (`markedForRemoval`), `fails`
(`livenessFailures`).  `apps` is a function whose domain is the set of known names; a
reload extends it and garbage collection shrinks it.

*Workers.*  `task[a][op]` is the dispatcher's slot: free, at work, or a result that is in
`resultCh` or about to be sent.  Results are handled in any order, since a goroutine may
be preempted before it sends.  A start worker has three steps (clean, create, start), so
that a stop, a sweep or a crash comes in between; every other worker touches a container
once.  A cancelled request may still be performed by the daemon.

*Docker.*  `docker[a]` is the container of that name and the version it was created from.
A crash makes it `exited` at any moment; the operations of every worker may fail.

*Time* is abstracted: a backoff may be over and a stop budget exhausted at any moment.  One
assumption about real time is made, in `TickWith`: a goroutine that has committed a stop
dispatches it before the budget of that stop (at least 20 seconds) runs out.

*Simplifications*, each of which removes behaviours:

- a superseded worker has no further effect on containers;
- handling a result and `ForgetTask` are one step (between them only a dispatch of the same
  slot matters, and it makes the result stale, which is the same as handling it first);
- a continuation names its group; the code keeps pointers to the applications;
- the enqueue of the regenerate that a restart turns into is atomic with its check;
- one `RestartApp` at a time for each application;
- the containers of init containers, their exit logs, statistics and post-start actions, the
  initial sweep, `reuseLocalImage`, the limit on pulls and the change of
  an image digest by a pull are left out; the suspension of liveness during a JVM command is in
  `Diagnostics`;
- `AppStatusFailed` is left out: the code tests for it and never assigns it.

*Initial states.*  The specification starts where `doStart` has committed its plan: for each
application nothing was found, a container of the right hash was adopted, a stale one is
being swept, or the application is detached and has no container.

### How `Supervisor` corresponds to the code

*Grain.*  The supervisor's fields are a mutex and atomics of their own, so a step is what a
goroutine does between two accesses to shared state.

*superviseLoop* is the program counter `sup`: `wait` (`cmd.Wait`) → `exited` (`done` closed,
the exit not yet interpreted) → `backoff` → `spawn` (select the binary and start it) →
`record` (`s.cmd`, `s.done`) → `reset` (`s.ready`) → `wait`; `gaveup` waits for the context
with the budget used up.  `respawn` is the same path after a failed spawn.  *readyLoop* asks
(`Ask`) and stores (`Store`) in two steps.

*The other goroutines* are three jobs with one program counter each: the boot gate
(`GatePendingPayload`), a swap (`applyDaemonSwap`) and the quit (`OnShutdown`).  `flag` sets
`intentionalRestart` or `stopping`, `post` asks the daemon to exit, `snap` is where `Wait`
reads `cmd` and `done`, `wait` ends with the exit of *that* child, with its replacement or
with a kill, `clear` resets the ready flag (or cancels the context), and `ready` is
`WaitReady`.  `back` marks the second restart, which rolls back and is not judged.

*Versions* are fine, hang or crash; which one is the environment's choice, except that the
bundled version and those that passed a gate earlier are fine.  A manifest starts with any
states, so that every boot after an interrupted swap is an initial state.

*Assumptions about time.*  A fine daemon becomes ready, and a respawn under way
completes, within `UpdateHealthTimeout` (60 s); a child takes longer to serve its socket or
to exit than `spawn` takes to record it.  `SlowPoll` says whether an answer that readyLoop
has received may be stored after the child that gave it is reaped.

*Left out*: the pid file and `ReapOrphanDaemon`, the relaunch of the wrapper (its next start
is an initial state), the control server, windows, and the failure of a write of the
manifest, whose read and write are one step.  One swap in a run of the wrapper.

### How `Adoption` corresponds to the code

A container is the hash on its label and whether it runs; the proxy's nginx keeps the address
of the gateway it was started with (`stale`).  `doStart` is six steps: publish the desired set and
copy the detached one (`Seed`), free the host port, list what there is, sweep, inspect what may be
reused, and commit; `doRegenerate` is two.  The
saved state outlives the daemon, and `LeavesWork` says when the loop's tail has still to write
it.  `HoldPort` is another namespace, or another program, on the fixed port of `PortApp`.  One
`Op` bound counts everything that operators, other namespaces and Docker do.

### How the documents correspond to the code

- `Generator`: one action per generator, in the order of `Generate`, on one map from names to
  dependencies and host ports; webapps and additional applications are generated one at a time, the
  webapps in one order of their names; then `PruneAppsWithMissingDeps`, one application at a time, in
  any order, since the code walks a map.
- `Edits`: a document is a tree; `DiffTree`, `ApplyTree` and their YAML and definition variants are
  the recursive operators of the module.  A reload is copy, merge and commit; a request reads,
  merges and writes.
- `JvmMemory`: sizes in KiB; `div` where the code divides, rounds and clamps.  0 is "no flag".
- `BundleVersions`: the files are walked in any order, and one step keeps the greater of the next and
  the choice so far; a key is scope, numbers, suffixes.
- `Setup`: a setting or an undo is a list of files still to write (`writing`), and a kill may come
  between any two.  The ghost `replayed` is the first snapshot with the patches of the history applied
  to it, kept as the history grows.
- `MvStore`: H2 appends, moves and frees chunks, writes the footer and the two blocks of the header;
  at any moment the file is left, and `Dump` is what the reader makes of it.

### How `Namespaces`, `AdminPassword`, `Staging` and `Diagnostics` correspond to the code

A request is a record of its operation and the section it has reached; each store call, each
critical section of `configMu`, and each hold of `reloadMu` is a step.  A configuration is its
version, the runtime of the active namespace is its status, `runs` are the keys with containers.
`Crash` keeps the store and the containers and loses the rest.  `Start` is the load at boot.

`AdminPassword` has one action for each command in a container and for each write.  A command is
done and answered, done with its answer lost, or answered with an error (`Exec`, `ExecLost`).
`rot[r]` is how far rotation `r` has come, `session` is the one login of `kcadm`, which lives in
Keycloak's container; a crash skips the deferred removal of the recovery user.  `Namespaces` rotates
in memory what `AdminPassword` rotates in the containers; `RotationLands` speaks of both.

`Staging` has one action for each step of `Stage`, whose manifest is read, changed and written in
steps; a release is three files that are published one by one; the wrapper judges at any moment.

`Diagnostics` is one application and its containers, one after another.  `job[j].pc` is how far a
command has come: ask (`jvmTargetContainer`), suspend, attach, wait for the listener, send, answer,
or through the container: copy the class, exec, the same protocol (`inside`), rm; then release and
verdict.  The thread dump that the loop takes before a restart is the job "loop", during which the
loop does nothing else (`loop = "diag"`).  `jvm` is what is inside the container; `jvm.pause` is who
has stopped its world, during which no probe is answered.  A failure is counted twice: `fails` as the
code counts it, `ours` when a pause of an operator's command has caused it.  What is assumed of time
is at the head of the module.  `StopApp`, `ContainerEnds` and `Started` are only what the rest of the
runtime does to the container and the status; `NsRuntime` has them in full.

### How the clicks, the stream and the installation correspond to the code

- `UpdateStart`: one action per atomic operation of `handleStartNamespace` and `updateAndStartAsync`:
  the flag, the forced flag, the compare-and-swap of the queued pass, `reloadMu`, the pass.
- `EventStream`: `broadcastEvent`, the ring, a channel of capacity `ChanCap`, the replay of what
  the client has not seen up to the cutoff, and the store of the web interface: gaps, refetches, the polling that goes on
  while the stream has not shown that it delivers.  `eventRing.since` selects by number; as the numbers
  in the ring follow one another (proved, `RingIsNumbered`), what it selects is a stretch of the ring.
- `Installer`: processes with the steps guard, boot, run (runtime started), up (socket bound), and
  two ways to end; systemd's `Restart`, `KillMode` and the drop-in; the installer's steps.

### How the stores correspond to the code

- `Secrets`: a value on disk is the stack of keys it is encrypted under; every row write is a step.
- `Bundles`: `singleflight` on the directory, throttle, skip window, the fresh clone beside the old
  one and its rename; what is cached.
- `Snapshots`: one operation under `snapshotMu`, volume by volume; the download with `Range`,
  retries and the digest; the command that stops, waits for events, and starts again.
- `Migration`: the schema statement by statement, and the import row by row.
- `Certificates`: three flows (wizard, load, renewal), each key first and then certificate.
- `Cleanup`: `clean` in its three phases beside a launcher that creates and deletes; `uninstall`.

## 3. The runs

Twelve runs; ten pass, two are expected to fail (section 4).  Every constant that a cfg sets to a
number is a bound named in the module that declares it.

| run | instance | what it shows |
|---|---|---|
| `settles` | 1 application watched by a liveness probe, adopted with the hash it should have; 2 calls of `StopApp`, `StartApp`, `RestartApp`; 1 fault | `DetachedStaysDown`, `SettlesAsAsked` |
| `intents` | the same, adopted or stale, with all calls, a reload at either of 2 versions, the reconciler, restarts turned into reloads | `TypeOK`, `DetachedParked` |
| `heals` | 2 applications: a with 2 init containers and a startup probe; b depends on a and has no image; the reconciler; 2 faults | `StartupIsSequential`, `HealsItself` |
| `shutdown` | 2 applications in 2 groups, running or being recreated; 2 calls of `Stop` | `OneStopChain`, `NothingRunsAfterStop`, `StopsInOrder`, `StopsCompletely` |
| `reload` | 2 applications, 2 versions, 2 reloads that keep only a, from a fresh start | `AppliesLatest` |
| `readded_app` | the same where the reloads drop b and want it again | expected to fail `AppliesLatest` |
| `supervisor` | 1 staged version, a failure budget of 3, 2 exits | `TypeOK`, `NeverRewaits`, `PromotesOnlyWorking`, `Serves`, `QuitIsFinal` |
| `namespaces` | 2 requests at a time, 2 workspaces with 3 namespaces between them, of which at most 2 are stored at a time, 1 edit of a configuration or 1 rotation, 1 crash; or 2 rotations of the password, 1 crash; or 2 releases in 6 uploads; or 2 commands to a JVM, 2 containers, a threshold of 2 failures | `DockerScoped`, `RestartFindsActive`, `NothingRunsUnseen`, `RotationLands`, `StagingIsSafe`, `DiagnosticsAreSafe` |
| `stale_create` | the former with a check of `createNamespace` that is made too early | expected to fail `DockerScoped` |
| `api` | 3 clicks, 1 of them forced, 2 namespaces, 1 move between them; or a ring of 1, a channel of 2, 3 events, 2 lost connections; or 2 upgrades, 1 crash, 3 commands of the operator | `ClicksAreServed`, `StreamIsFaithful`, `InstallIsSafe`, `UpgradeLands` |
| `stores` | 1 crash, and one of: 2 user secrets, a system secret, 2 passwords; 2 URLs, 2 callers, up to 2 commits of each; 2 volumes, 2 operations, an archive of 2 chunks in 3 tries; 3 starts over a Kotlin store with 2 namespaces; 2 host names; 2 workspaces to clean | `SecretsKept`, `SystemSecretsStable`, `ClonesServe`, `SnapshotsAreSafe`, `MigrationIsSafe`, `CertificatesServe`, `RemovalIsSafe` |
| `documents` | limits and options of the memory budget; 7 sorts of configurations; trees of depth 2, 3 operations; 3 files of bundles; 3 edits and 1 crash of the settings; 3 chunks and 3 commits of H2; 3 applications, 3 operations and 2 crashes of a takeover, 4 of them together | `BudgetFits`, `Startable`, `EditsStick`, `LatestHeadsTheList`, `HistoryIsFaithful`, `ReadIsHonest`, `AdoptionIsFaithful` |

*Why these bounds.*  Applications of the runtime interact only through dependencies, groups and the
diff of a reload, so two reach every interaction.  Two calls are a pair of conflicting intents with
any number of steps of the loop and the workers in between, which is where the re-checks of the
handlers matter.  One fault sends an application through each failure status, two let it fail in two
places.  Two requests of the daemon are what a check and the lock that follows it are about: they
speak of two namespaces, in one workspace or in two, and the third is the one that takes the place
of one that was deleted, so that two rows at a time (`MaxRows`) meet every pair.  One edit or
rotation (`MaxChanges`) is enough to tell a stale version from a new one; that more of them change
nothing is proved: the invariants of `Namespaces` hold for all values of the constants (section 5).
Three clicks are a pass under way, one queued and one that folds.  A ring of 1 overflows at the
second event and a channel of 2 at the third.  Three processes are the daemon that ends, the one
that takes over and the one that somebody else starts. Three operations of a takeover are an intent,
a change and a stop or detach, and two crashes are a restart that is cut short; a takeover has four
of these in all (`MaxEvents`). Two commands to a JVM share what is in its container, and the loop's
own comes beside them.  The stores are sequences of writes: one crash between any two of them is
every way of cutting one operation, and the next start or the next operation shows what is left;
that more crashes lose nothing either is proved of the vault, the migration, the clones, the
certificates, the snapshots, the settings and the takeover.  How fresh a clone is, is a matter of its own remote, so all commits
end when one remote has two.

*Deadlock* is not checked where the system may come to an end: the loop of a stopped namespace
returns, the wrapper quits, and requests, clicks, events and operations are bounded.

*Symmetry* is used in `stores` and `namespaces`, whose properties are invariants and action
properties, over names that nothing distinguishes; never where liveness is checked.

### Fairness

`FairSpec` of `NsRuntime` assumes that every goroutine keeps running (weak fairness of the loop, of
each worker and of each API goroutine past its first section) and that the Go `select`, which picks
at random among the ready arms, takes an arm that is ready again and again (strong fairness of the
arms).  Time passes: a stop budget that runs out because nothing will ever answer does run out, a
backoff ends, and the periodic diff comes due.  Nothing is assumed of the operator, of crashes or of
a hung Docker daemon: `StopWorker` is fair in a state in which the daemon answers, and a hung stop
is only freed by its cancellation.  `HealsItself` is not claimed for applications with a liveness
probe: a probe slower than the period of its ticks is superseded at each of them and never reports.

In `Supervisor` every goroutine keeps running, a process that must exit does, and a health timeout
ends even if a crashing daemon keeps moving the loop between backoff and wait meanwhile (strong
fairness of `Fails`): a timeout counts time, not states.  Nothing is assumed of crashes of a working
daemon or of the user.  `Serves` promises nothing once the user quits, once the loop has given up,
or while a staged version that no goroutine judges is pending.

In `UpdateStart` each click and each pass goes on (goroutines of one process); the same fairness
makes it implement `ServedClicks`, with its own.  In `EventStream` the client is notified of a lost
connection, connects again, and reads what it is sent.  In `Installer` the installer goes on, a
daemon that is booting or exiting goes on, and systemd restarts what it has to; nobody is assumed to
type a command.  `Generator` prunes until nothing is left to prune.  Everything else is safety.

### Mutants

Each property has one plausible bug of the code that it catches; the mutated operators stand next
to the operators they replace, marked `Mutation of`.  They are not part of the model.

## 4. Where the code and its comments differ, and what the passing runs leave out

Two runs check what the repository says and find it violated.

- `readded_app`: an application that one reload removes and the next one wants again, while its
  stop is in flight, keeps `markedForRemoval` and is deleted.
- `stale_create`: `server.go:68-72` says that the Docker client is always that of the active
  workspace and namespace.  `autoActivateAfterCreate` checks what is active before it takes
  `reloadMu`; a switch of the workspace in between leaves a namespace of the other workspace
  installed under the one that is now active.

The constants ending in `Faults`, with `Races` and `SlowPoll`, are empty in the passing runs.  Each
of their elements lets a hazard happen with which a property of its module fails, in the instance
of the passing run unless the table says otherwise:

| constant | element: what it lets happen |
|---|---|
| `Faults` (`Secrets`) | `crash_in_setup`: a crash of `SetMasterPassword` after its first write over existing rows.  `import_encrypted`: the Kotlin blob is imported into an encrypted vault.  `edit_races`: a secret changes between a read and the write that follows |
| `GitFaults` (`Bundles`) | `join`: a caller with another URL, or one that forces, is handed the result of the sync under way.  `torn_clone`: a repair and then the clone that follows it are both cut by a crash, and the time of the last success is still in the store (2 crashes) |
| `MigrationFaults` | `crash`: a kill in the middle of the import, whose marker is written before the rest (`bootstrap.go:465-466` says a second start completes it).  `save`, `entry`: a write of one row fails and is only logged.  `orphan`: a runtime state without its namespace |
| `CertFaults` | `crash`: between the key and the certificate of a pair that is replaced (`acme/client.go:190-200`).  `overlap`: a reload (`server.go:632-683`) beside a renewal.  `disk`: a write that fails |
| `CleanFaults` | `created`: a namespace is created while the operator answers.  `unreadable`: the configuration cannot be read.  `slow`: the daemon needs more than the 30 s that `uninstall` waits.  `detached`: the daemon has detached and its containers run on (`uninstall.go:23`) |
| `StreamFaults` | `restart`: the daemon begins its numbering again and soon reaches what the client has seen.  `overflow`: the last events of a burst are dropped and nothing follows them.  `late_fetch`: an older answer overtakes a newer one.  `first_connect`: an event between the first fetch and the first connection |
| `InstallFaults` | `noroot`: an installer that cannot write units.  `overlap`: a command or a crash while a daemon comes up; the guard (`bootstrap.go:365`) runs long before the socket is bound, the runtime in between.  `oldunit`: a service restarted by hand before its unit was migrated |
| `Races` (`Namespaces`) | `stale_create`: above.  `delete_unlocked`: deleting what is not active takes no `reloadMu`, and it becomes active meanwhile.  `rotate_unlocked`: another namespace is activated during a rotation of the password.  `no_client`: `SwitchWorkspace` finds no Docker after it has stopped and persisted |
| `AdminFaults` | `concurrent`: two rotations at once share the login of `kcadm` and interleave their writes.  `role_lost`: the exit status of `add-roles` is ignored; `citeck` logs in without its role, and no later rotation recovers it |
| `DiagFaults` | `gap`: a command begins while the loop takes its diagnostics (up to 30 s); the second check, before the restart, is of the status alone (`runtime_loop.go:1376-1381`).  `cancel`: the operator leaves, the exec returns, and the JVM goes on with the dump.  `blocked`: the diagnostics of another application keep the loop from the tick that would put the probe off.  `shared_class`: of two commands the first to end removes `CiteckAttach.class` under the other.  `disk`: a dump that could not be written whole is reported as written, since only its presence is looked at.  `cut_dump`: a container ends in the middle of a dump; `RotateHeapDumps` keeps the newest, which is cut, and deletes the one that is whole.  `same_second`: two heap dumps asked for in one second have one name, and the second is answered with the first.  `rm_fails`: the class stays in the container |
| `StagingFaults` | `again`: a pending version is staged anew and the wrapper judges a binary that is being replaced.  `race`: the daemon and the wrapper each read, change and write the manifest |
| `StoreFaults` (`MvStore`) | `lag`: a chunk is written and the header is not yet.  `uncommitted`: an entry whose commit never came is skipped in silence (`mvstore.go`).  `reused`: a freed slot is partly overwritten |
| `AdoptionFaults` | `unsaved`, `midstop`, `midfollow`: the daemon dies before the loop's tail has written the state, has stopped a container, has let the proxy follow its gateway.  `during`: `StopApp` while `doStart` talks to Docker.  `list`, `remove`: Docker's answer fails.  `dies`, `restart`: the gateway ends while it is inspected, or restarts alone.  `reload`: an application with a fixed port is added by a reload.  `slow`: `Start` comes more than five seconds before the last loop has ended |
| `SlowPoll` (`Supervisor`) | an answer of the old child is stored after it was reaped, and passes the gate for the next one |

Of these, the following disagree with what the repository says: `cut_dump` with
`generator_export.go:129-132`, "there is never a moment with no evidence at all"; `gap` with the
comment of `JVMCommand` that to restart an application that is busy answering "would be an own goal";
`SlowPoll` with the comment of
readyLoop that readiness is observed anew; `crash` of the migration with `bootstrap.go:465-466`;
`during` with the comment above the commit of `doStart` (`runtime_orchestration.go`), which says that
a call made meanwhile is applied on the next regeneration, although nothing regenerates.

While modelling, the following also showed.  No run states them; the code is modelled as it is.

*Runtime.*

- `StartApp` has no guard against a namespace that stops, as `RestartApp` has
  (`runtime_commands.go:637-645`): the application comes up in a stopping namespace and the chain
  waits for it.
- `stepAllApps` commits `STARTING` and dispatches the start worker after the unlock.  A `StopApp` in
  between has no worker to cancel; the container created afterwards survives the stop of the
  namespace when it is slower than the sweep.
- `StopApp` in `READY_TO_START` after a failed start leaves the created container behind; a diff
  taken before a restart queues the application again although it runs; `StopApp` in the middle of a
  `RestartApp` without a container leaves `STOPPING` with no stop dispatched until the budget ends.
- A reload while the namespace stops makes it `STARTING`, and applications of later groups are
  started before their group is stopped.  A second `Stop` after `shutdownComplete` is closed leaves
  the status `STOPPING`.
- A `StopApp` during the I/O of `doRegenerate` is not in its copy of the detached set: the
  application is queued, and stays queued.  That is why `DetachedParked` is weaker than
  `DetachedStaysDown`.  The comment of `attach_toggle_regen.go:36-39` presumes that the reload sees
  the set as it is.
- `reload_plan.go` says that the coupled recreation of the proxy does not apply to `doRegenerate`;
  it does, and `doStart` treats a detached gateway as a recreated one.  An exited container of an
  application that a reload removes while it is queued stays in Docker.  The port of a detached
  application still evicts the container of another namespace.

*Desktop and updates.*

- `applyDaemonSwap` records `failed` for any error, a context that the quit cancelled included; the
  boot gate does not.
- The request that applies an update is made once (`desktop_update.go:57`): when it is lost, a
  payload that is staged waits for the next boot.
- A notice of an update may be of a release older than the one staged meanwhile.

*Daemon.*

- A reload (`server.go:648`) may overwrite a configuration that a `PUT` has just written.
- An edited JSON file that is saved as it was generated is a delta of nothing, and the next reload
  makes it `null`; an edit made while a reload is copying is overwritten in memory.
- `citeck snapshot` waits 120 s for the namespace to stop (`cli/snapshot.go:130`), which a stop with
  several groups may exceed.  An import on a desktop writes into volumes without a copy aside;
  `SnapshotsAreSafe` claims that data are kept for servers.
- The comment of `kcadmDeleteUser` (`routes_admin_password.go:394-397`) says that a failed `kcadm get`
  is an error; the exit status is that of the end of the pipeline, so a rotation whose login is gone
  leaves the recovery user and reports nothing.  RabbitMQ and PgAdmin that could not be changed "will
  be updated on next container recreate" (lines 136 and 149), which lines 128-131 and 141-143 deny.
- `server.crt` is kept whatever host it is for (`acme_certs.go`); a certificate that cannot be read
  is never renewed (`renewal.go:174-190`); `Stop` does not wait for a renewal (`server.go:488-491`).

*Server.*

- The menu of settings writes back what it read and overwrites an edit made meanwhile
  (`setup.go:403`); an undo does not bridge an external edit (`undo.go:186`).
- The version that is installed is read off the binary, not off the daemon that runs.  After a kill,
  a failed copy leaves no daemon, and the drop-in that keeps systemd from restarting it.
- `citeck start` after `stop --shutdown` finds the namespace `STOPPED` and leaves it so.
- A daemon ends with its listener, since `Serve` returns at once.

## 5. What is proved

Every theorem holds for all values of the constants that satisfy the named assumptions of its
module, which TLC evaluates in the runs, and the hypotheses that its statement names.  Those are of
two sorts.  `None` is the model's nil, and `Apart`, `Distinct`, `Unnamed`, `NilIsNoDb`, `NilIsNoClone`,
`NilIsNoCert`, `SecretNames` and `StoreNames` say that it is none of the values it stands beside; so
does `DiagNames` of the model's other names.  `DiagNames` and `StoreNames` also ask for a finite set of
commands and of keys, a probe that tolerates at least one failure, and a file with room for a chunk.
`Sizes` says that a ring has room for an event and that a channel's capacity is a number.
`SetupNames` keeps keys of values and of sections apart; `VersionNames` says that keys consist of numbers
and parts of suffixes; `AdoptionNames`, that the gateway, the proxy and the holder of the port are
applications; `GeneratorNames`, that no webapp is named like what the other generators make and no
additional application like what ships (`additionalapps.go:84` rejects the reserved names).  The others
leave out what section 4 says the code does not survive: a constant that ends in `Faults` is empty, a
race is not let loose, or a call is not made.  The run that checks a property meets the hypotheses of
its theorem.

`NsRuntime_proofs`, for any applications, dependencies, groups, desired sets, calls and bounds:

- `TypeCorrect`: `Spec => []TypeOK`.  `TypeOK` is not inductive: an enqueued or half applied reload
  must carry a desired set (`RegenOK`), and the cursor of `evaluateContinuations` must stay within
  the continuations (`ScanOK`).  `IInv == TypeOK /\ ScanOK /\ RegenOK` is.
- `DetachedStayParked`: `Spec => []DetachedParked`.  An application the operator stopped is never
  pulled, started or running.  Inductive given `IInv`: every action that moves an application out
  of the parked statuses removes it from the detached set in the same critical section, checks the
  set, or checks a status that is not parked.  One lemma per action, with lemmas on the frame
  (`FrameParked`), on a single application that moves (`OneParked`) and on `SetAppStatus`.
- `DetachedStayDown`: `NoReloads => (Spec => []DetachedStaysDown)`.  Without `Regenerate`, and without
  restarts that turn into one, it does not even wait to be pulled.  The same lemmas with a smaller set
  of statuses; the new invariant is `OnlyStops`: no reload is queued, and `doRegenerate`, which works
  on a copy of the detached set, never runs.
- `StopsAreOneChain`: `NoReloads => (Spec => []OneStopChain)`.  The namespace is stopping exactly when
  there is one continuation or one network removal.  `ChainInv` adds that otherwise there is none at
  all, however they are counted: a second `Stop` finds the chain under way (`StopInFlight`), and what
  fires is replaced by its successor in the same step.  A reload makes a stopping namespace `STARTING`
  with its chain under way, which is why there must be none.

`NsStartup_proofs`, for a namespace left to itself (`Unattended`: the operator stops the namespace and
retries pulls; nobody stops, starts or restarts one application, or reloads):

- `StartupsAreSequential`: `Unattended => (Spec => []StartupIsSequential)`.  `UInv` is `OnlyStops`,
  `ChainInv`, `Quiet` and `Core`; `Core` says which operation of a startup is under way in which status
  and that it is alone (`StatusTells`), that only the stop of the namespace cancels one
  (`OnlyStopCancels`), and that every application that is not down is in the chain (`StopCovers`).
  `StopApp` is left out because it may come between the commit of a plan and its dispatch, whose worker
  then starts uncancelled; a reload, because the result of a worker it cancels arrives in the next
  startup.
- `StopLeavesNothingRunning`: `Unattended /\ MaxFaults = 0 => (Spec => []NothingRunsAfterStop)`.
  `Swept` says that once `RemoveNetwork` has ended no container runs, and no start worker, cancelled
  or not, is left in front of a container it could start.  A Docker that fails may leave one behind
  the sweep.
- `GroupsStopInOrder`: `Unattended => (Spec => StopsInOrder)`, an action property from the same `UInv`.

`Supervisor_proofs`, for any payloads, budget and bound:

- `TypeCorrect` and `NoDoubleClose` (`Spec => []NeverRewaits`), from
  `IInv == TypeOK /\ NotReaped /\ BudgetLeft`: what spawn has recorded is not reaped before the loop
  waits for it, and a loop at work has a failure left.
- `OnlyWorkingPromoted`: `~SlowPoll => (Spec => []PromotesOnlyWorking)`.  The strengthening
  `RightInv` says whose answer the ready flag is (`AnswerIsCurrent`), that what runs is the newest
  version that may (`NewestRuns`), and that what the gate or a swap judges is what runs
  (`GateIsRight`, `SwapIsRight`).

`Api_proofs`, for any clicks, processes and versions:

- `TypeCorrect`; `OnePassQueued` (at most one pass waits behind `reloadMu`); `NoForceIsStranded`
  (the force of a click is with a pass that takes it, wherever the goroutines stand);
  `FlagIsRaised` (clients see the flag while a pass works for somebody).
- `ServesSafely`: initial states map to initial states and every step to a step of `ServedClicks` or
  a stutter.  `ForceKept` says where the force of a click is at each moment: in the atomic until its
  pass takes it, and in the pass afterwards.  The fairness half of the refinement is model-checked
  (`ClicksAreServed`).
- `InstallIsSafeHolds`: `ApiSpec => []InstallIsSafe` with `InstallFaults = {}`.  `InstallInv` says that
  daemons come up one at a time (`ComesAlone`), that the file of the socket is that of the one that has
  come up (`SockIsHis`), how far the installer has come and who may run then (`InstallerOK`), and that
  what runs was started from the binary that is there (`RunsWhatIsThere`): the installer replaces a
  binary that nobody runs.  A daemon that stops the platform was asked to (`StopIsAsked`).
- `EventsComeOnce`: `ApiSpec => []E!DeliveredOnce`, the safety half of `StreamIsFaithful`, with any of
  the hazards of the stream let loose.  `StreamInv` says that the ring ends with the last number and
  leaves none out (`RingIsNumbered`), that the cutoff parts what is replayed from what the channel
  carries (`CutoffParts`), and that the client's number, if it is of this daemon, is behind both
  (`AheadOfClient`).

`Namespaces_proofs`, for any workspaces, namespaces, requests, versions and crashes:

- `ClientIsScoped`: `~StaleCreate => (Spec => []DockerScoped)`.  The strengthening `InstallsHere` says
  that whoever is about to install holds `reloadMu` and has loaded the namespace for the workspace that
  is active; `DownIsQuiet`, that a daemon that is down serves nobody.
- `RestartFinds` and `RunsAreSeen`: `Unraced => (Spec => []RestartFindsActive)`, and the same of
  `NothingRunsUnseen`.  Their invariant `RInv` says what the store, the memory and Docker know of each
  other between any two sections of the requests: the active namespace has its row and is selected
  (`ActiveOK`), containers run for it only, or for the one that the next start loads (`RunsOK`), how
  far each request has come allows that (`RequestOK`), and of two requests none deletes without
  `reloadMu` what the other is about to activate (`NoClash`, which is what `delete_unlocked` breaks).
- `RotationIsKnown`: unless another namespace is activated during a rotation (`rotate_unlocked`), the
  namespace in memory knows the password that is stored whenever no request is at work.  It is the
  half of `RotationLands` that belongs to `Namespaces`.

`Daemon_proofs`, about the composition `MCNamespaces`, for any releases, rotations, commands and
containers:

- `StagingKeepsItsPromises`: `StagingFaults = {} => (DaemonSpec => StagingIsSafe)`, an invariant and an
  action property: what the manifest lets the wrapper run is a whole binary of this publisher, and a
  verdict is never taken back.  The invariant follows an archive from the download (`Verified`) to the
  unpacked binary (`Unpacked`, `AllWhole`), and says that what is being staged is a version the wrapper
  may not run yet (`Unjudged`).
- `RotationsLand`: `DaemonSpec => []RotationLands` where nothing else is activated during a rotation and
  with `AdminFaults = {}`.  The half of `Namespaces` is `RotationIsKnown`; the other half is that the
  rotation knows at every step by which login `kcadm` lets it in (`LetIn`), gives up only where a
  command has failed (`GivesUpForCause`), and has changed every copy it has passed (`ChangedSoFar`).
- `DiagnosticsHold`: `DaemonSpec => DiagnosticsAreSafe` with `DiagFaults = {}`, seven properties of one
  invariant.  `DiagInv` says whose the trigger, the attach client and the class in a container are
  (`TriggerOK`, `ClassOK`, `GoneOK`), that only a dump that is being written is not whole and that a
  suspended JVM writes it (`DumpsOK`), where the loop's own command stands (`LoopOK`), and that the
  suspensions that are counted are the commands at work (`HeldOK`, `OursOK`).

`Documents_proofs`:

- `EveryBudgetFits`: for every limit and every combination of options, the pools the launcher sizes fit
  into the limit with those it leaves to the JVM.  Pure arithmetic with rounding and clamps; a lemma
  for each branch.
- `ReadsAreHonest`: `M!Spec => []ReadIsHonest` with `StoreFaults = {}`, for any finite set of keys, any
  slots, commits and moves.  While H2 has the file, every chunk that is needed is whole and where H2
  has it (`Placed`), all that looks whole agrees with it (`CopiesAgree`), and both blocks of the header
  point at the last (`HeaderPoints`).  A write touches nothing of this (`WriteKeeps`), so whatever it
  is cut off at, a version is on disk with all its pages (`OnDisk`): the new one where its chunk is
  whole, otherwise the one before.  `findChunk` takes a copy that is whole where there is one
  (`FindsCopy`), and what is read of such a version is what was written (`DumpsWhole`); of a chunk
  that was cut off, what cannot be read is counted as lost (`TornRead`), and where its layout is gone
  the scan finds the version before (`BlindRead`).
- `LatestIsListedFirst`: `V!Spec => []LatestHeadsTheList`, for keys of any numbers and suffixes and any
  number of files.  Verdicts on slices follow from the first place that differs or from the lengths
  (`SliceFacts`), so a comparison is opposed when its arguments are (`VersionsOpposed`), and that of
  the outer two of three follows from those of the neighbours (`VersionsFollow`), level by level:
  numbers, parts, suffixes, keys.  Hence no file that was walked is above the choice (`WalkInv`), and
  what heads the sorted list compares as equal to it.
- `HistoryIsKept`: `H!Spec => HistoryIsFaithful`, an invariant and an action property.  `Computed`: the
  patch between two documents leads from either of them to the second.  `HistoryLeads` says at each
  write of a command what the history leads to, which is what a kill leaves there; an edit that no
  bridge will record is the only exception.  `UndoneLeaf`: what an undo changes was checked to have the
  value that its entry left there, and gets the one from before.
- `GeneratedIsStartable`: `G!Spec => []Startable`.  What each generator puts waits for what ships
  (`Needs`) and is there by the time of the pruning, the gateway excepted (`Closed`, `Present`).  So
  with a gateway only additional applications are pruned, and of those never one of a set that is
  complete.  That nothing which ships waits for itself follows from `Needs` alone.
- `TakeoversAreFaithful`: `A!Spec => AdoptionIsFaithful` with `AdoptionFaults = {}`: four invariants and
  three action properties, for any applications, versions, operations and crashes.  `LeftInOrder` says
  what a daemon that has ended leaves: containers of applications that are to run and are not
  detached, and a saved state that says whether to start.  `StartsInOrder` follows `doStart` stage by
  stage; from the listing on, `Found` holds: what it will reuse runs by the definition that is wanted,
  and everything such is among it, the proxy only with its gateway.  `ServesInOrder` says of the loop
  that what it believes of an application is true of its container or a worker is on the way to make it
  so (`AppOK`), that the proxy is not serving while the gateway is replaced (`GatewayFirst`), and
  `AtRest` that nothing runs when the loop has ended.

`Stores_proofs`, about the composition `MCStores`, for any names, bounds and crashes.  Each store has
an invariant of its own, and every step of another store leaves its variables alone:

- `MigrationLosesNothing`, `MigrationIsSafe` with `MigrationFaults = {}`.  `MigrationInv` follows an
  import step by step: what it could read of each table is in the database or still among the rows to
  write (`Imported`).  Of an older database it says that the columns mean what they meant, read as
  their version says (`OldOK`): a statement of the schema and the version that tells how to read its
  effect are one transaction.
- `RemovalKeepsWhatIsUsed`, `RemovalIsSafe` with `CleanFaults = {}`.  `CleanInv`: what is listed is
  known, and what was found belongs to nothing known, through the operator's answer; `UninstallInv`:
  data go when the daemon is down.
- `SnapshotsKeepData`, `SnapshotsAreSafe` without a hypothesis.  `DataInv`: before an import writes its
  first volume, all of the operator's data are aside, and nothing takes them away.
- `ClonesAreKept`, `ClonesServe` with `GitFaults = {}`.  `CloneInv` says what there is at each stage
  of a flight (`StageOK`), that a torn clone was not synced lately, whatever the store says
  (`TornIsStale`), and that who has joined and forces finds what he saw (`Fresh`).
- `CertificatesAreServed`, `CertificatesServe` with `CertFaults = {}`.  `CertInv`: a pair that is not
  whole is between the two writes of the one flow at work, and what a load writes is for the host it
  was planned for (`FlowOK`, `LoadFits`).
- `SavedSecretsAreKept`, `SecretsKept` with `Faults = {}`.  `SecretInv` says with which keys each row
  is sealed while the holder of the lock rewrites the table row by row (`KeysOf`, `RowsOK`), how much
  of the metadata is written at that point (`HolderOK`), that memory agrees with the disk when nobody
  holds the lock (`MemOK`), and what a cleanup, an edit and an import may be doing meanwhile
  (`BesidesOK`).  `SecretNames` says that no user secret has the id of a system secret, which
  `routes_helpers.go:40` (ids start with a letter or a digit) and `systemsecrets.go:40-45` (with an
  underscore) ensure.
- `SystemSecretsStay`, `SystemSecretsStable` without a hypothesis: what the daemon runs with is what is
  stored (`UsedIsStored`), so a restart finds the same.

*Only model-checked*: liveness (`SettlesAsAsked`, `HealsItself`, `StopsCompletely`, `AppliesLatest`,
`Serves`, `QuitIsFinal`, `UpgradeLands` and the fairness half of `ClicksAreServed`), which is beyond
TLAPS (fairness and ENABLED), and so is the other half of `StreamIsFaithful`, that the client comes to
show the present state; and what `Edits` computes over trees (`EditsStick`), which is recursion and
induction over data.

## 6. Plan

Done: the runtime, the supervisor, the daemon's namespaces, clicks, stream and installation, the
stores, the documents, the takeover and the diagnostics of a JVM.  Left, in this order:

1. `AppLifecycle`: what one application promises (absent, going down, coming up, up, broken), with
   `NsRuntime` shown to implement it for each application.
2. The semaphore of pulls and the bound of the command channel, in modules of their own on
   `Commands`; the ring of restart events.
3. The wizard of the server's installation, and the templates of namespaces.

## 7. Not modelled, and why

- *DTOs and read-only routes* are views of a state and change nothing.
- *Authentication, request parsing, logs, metrics, support dumps, translations* have no protocol of
  their own.
- *The transport to Docker, git, ACME and GitHub* is I/O around libraries.  Docker appears as the
  containers, networks and volumes its calls change, the others as answers that come, fail or are
  cut.
- *Images and their digests, environments, probes' wording, the files of the proxy* are data of the
  generator that no decision of the runtime depends on but the hash of the definition.
- *Ciphers, compression, variable-length integers, certificates' contents* are abstracted to whether
  a key fits, a chunk is whole, a pair matches.
- *The command line and the web pages* are clients of the daemon, except the snapshot command and
  the store of the stream, which keep a protocol with it and are modelled.

`PROJECT.json` lists every component with its status, its sources and what of it is left out.
