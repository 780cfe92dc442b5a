# TLA+ models of Lightrail

Lightrail deploys preview environments. A CLI process, the *core*, turns
`lightrail up`, `down` and `prune` into calls of *plugins*: one per capability (target, builder,
runtime, exposure, DNS), each a process of its own that speaks JSON-RPC over its
standard streams. Nothing is shared between two runs of the CLI but what the
provider stores, so an *operation lock*, kept by the target plugin, is what
separates them. The core journals on local disk and compensates what it applied when an `up` fails.

This directory models how those parts behave when calls fail, go unanswered,
are interrupted, or race another operation.

## Inventory

| Part (source) | State | Operations | Hard behaviour | What makes it correct |
|---|---|---|---|---|
| Orchestrator (`crates/lightrail/src/orchestrator.rs`) | the plan, the observed snapshots, the list of applied capabilities, collected failures | `up_with_fleet`, `down_with_fleet`, `rollback_after_failure`; plan, lock, re-plan, lock check before every call, apply or destroy, cancellation, verification, compensation, release | two operations on one environment; a plan made stale; a call that fails halfway or is not answered; Ctrl+C; a disk that is full; a process that dies | no stale plan is carried out; a complete rollback is complete and deletes only what it created; success is whole; journal and exit code are true; it ends |
| Operation journal (`journal.rs`, `orchestrator.rs`) | one JSON file per operation; an entry per action | `save` by a temporary file and a rename; completion of entries from an answer; rollback claims | a save that fails at any of its places; an answer that is lost or names only some actions | what was changed is told of on disk, and compensated or reported |
| Lock protocol of the core (`orchestrator.rs`: `acquire_lock`, `reassert_mutation_lock`, `release_lock`) | the token it was given | acquire, continuity check, release with retries, forced bypass | a lock that lapses and is granted again with another token; lost answers | a new token is not continuity |
| Prune and `down --all` (`orchestrator.rs`) | candidates, shown and locked | select, lock, select again, destroy one by one | an environment renewed, replaced or claimed elsewhere while the command waits | unchanged candidates only; success is whole |
| Kubernetes Lease lock (`lightrail-plugin-kubernetes/src/lock.rs`, `command.rs`) | the Lease object; the lock map and a heartbeat task of each plugin process | `acquire`, `reacquire`, `assert_authority`, heartbeat, `release` | expiry by clocks that disagree, killed `kubectl` children whose request still lands, conflicts, races of heartbeat and handler | one mutator; an owner that is no longer one stops; release is not undone |
| Kubernetes resources (`plugin.rs`, `model.rs`) | a namespace, its labels and annotations; Jobs, workloads, Secrets, exposure | claim, ordered apply, waits, verification, expiry, compensation, destruction | two control namespaces for one environment; compensation called twice; an update that dies between two objects; commits between two operations | one authority per namespace; compensation is exact; an update destroys nothing |
| Plugin protocol client and server (`lightrail-plugin-protocol`) | pending and retired request tables, terminal failure; running requests of the server | request, notify, cancel, reader loop, shutdown | an answer racing its timeout, cancellation racing completion, the death of the plugin | every request ends once; a late answer harms nobody |
| Protocol types and versions | none | version ranges, error classes | boundaries of ranges | negotiation picks a version both support |
| SSH target (`lightrail-plugin-ssh`) | a lock directory on the host, made and removed by a shell of a session | lock by `mkdir`, continuity check, release, signals; bootstrap | a session that dies, drops or is abandoned while it waits | one session holds the host, and none keeps it for ever |
| Hetzner target (`lightrail-plugin-hetzner`) | server and firewall; an environment lock that becomes the machine's own flock once the machine exists | discovery, creation, upgrade of the lock, project locks, cleanup, rollback, destruction | lost creation answers; an upgrade that is refused; machines replaced between snapshot and removal | a machine is removed only under its own lock; compensation is exact |
| Fly plugin (`lightrail-plugin-fly`) | a Machines lease on a sentinel; Apps with Machines, volumes and addresses | acquire, check with refresh, release; create, update, verify, expire, roll back, destroy | a call longer than what is left of the lease; lost answers; strangers' Apps; a deletion that dies halfway | a mutation runs under a live lease; nothing of a stranger's is touched |
| Compose builder and runtime (`lightrail-plugin-compose`) | generated documents, their copies and a rollback marker on the host; containers | deploy with backup, `rollback_previous`, destroy | dying between backup, marker and start; scripts that outlive their client | a rollback restores what it found, or says that it did not |
| Plugin host and registry (`plugin_host.rs`, `plugin_registry.rs`) | `lightrail.lock`, its temporary file, installed executables | install, update, remove, synchronize, check and spawn | commands that overlap; a crash between two renames | what runs is what was pinned |
| Configuration, identity, naming, git | none | validation, deterministic names | two validators of one setting; two projects of one slug; a checkout that is moved or renamed | what `init` has checked, its plugin accepts; two environments share no name |
| Compose documents (`compose.rs`, `compose_model.rs`, `model.rs` of Kubernetes and Fly) | the resolved document, its revision | refuse, rewrite or translate, hash | a field that one validator lets pass and no renderer carries; bytes that a revision does not show | what is accepted keeps its meaning; one revision runs one thing |
| Secrets (`secrets.rs`, `admin.rs`) | keyring, an index file, a cache per operation | set, delete, list, resolve | a file that two commands rewrite; two contexts that ask at once | what was stored stays stored; one question, one value |
| Project files (`commands/`) | `lightrail.toml` | `init`, `profile add/default/remove` | no lock at all; environments that exist in the cloud meanwhile | no environment is orphaned |
| CLI, processes, output (`process.rs`, ...) | child programs | run with deadline, cancellation and dropped callers | pipes held by descendants, lost wake-ups | every call ends, truly answered, with its program dead |

The core calls a plugin and waits with a timeout; the plugin pushes progress
notifications. The only state that two operations share is the environment and
its lock, and on one computer the files of the project and of the user. `PROJECT.json` lists the hazards
of this code, each at its line, and the properties that cover it.

## Modules

| Module | What it is |
|---|---|
| `LockAuthority` | abstract specification of an operation lock: at most one owner; only an owner mutates; whoever stops being one stops mutating and never gets it back |
| `KubeLease`, `MCKubeLease` | the Lease lock of the Kubernetes plugin in full; its instances for TLC |
| `KubeLeaseProofs` | its inductive invariant, and that it implements `LockAuthority` |
| `Orchestrator`, `MCOrchestrator` | `up` with rollback and `down`, for several CLI processes over an abstract lock; its instances |
| `OrchestratorProofs`, `RollbackProofs` | its types and eight properties, for every instance |
| `PluginCall` | abstract specification of the calls of one session with a plugin |
| `PluginProtocol`, `MCPluginProtocol` | client, server and pipes of one session; its instances |
| `PluginProtocolProofs` | its types and tables, and that it implements `PluginCall` |
| `FlyLock` | the Fly lease with its clock |
| `PluginLocks`, `PluginLockProofs` | what the locks of Fly, SSH hosts and Hetzner promise together, proved |
| `FlyApps`, `KubeEnvironment`, `ComposeRuntime`, `SshLock`, `Hetzner` | what the plugins keep at a provider, in a cluster or on a host |
| `PluginResources` | what several plugins promise alike: their types, and that a compensation is exact |
| `EnvironmentProofs` | proofs about `KubeEnvironment`, `ComposeRuntime` and `FlyApps`, and of what `PluginResources` states |
| `Deletions` | what a `prune` and an `up` may delete |
| `CoreProofs` | proofs about `Prune`, `RollbackClaims`, `KubeWorkloads`, `ChildProcess`, `Settings` and `ComposeContract`, and of what `MCCore` states |
| `MCPlugins`, `MCCompose` | the six models of plugins in one run; the Compose runtime with more faults |
| `Prune`, `RollbackClaims`, `ProjectFile`, `PluginStore`, `SecretStore`, `Settings`, `ChildProcess` | the other components of the core (and the plugins' runners of programs) |
| `UnlockedFilesProofs` | proofs about `PluginStore`, `ProjectFile` and `SecretStore`, whose files no lock covers |
| `KubeWorkloads` | what the Kubernetes plugin makes of a Compose project, operation after operation |
| `ComposeContract` | what is refused, kept and claimed of a Compose document by the core and the three runtimes, and its revision |
| `MCCore` | these nine in one run |
| `Operations` | the constant `Op` that they share: the operations, one CLI process each |

`MCPlugins` and `MCCore` put modules that do not interact side by side: `part` says
which of them a behaviour is about, and the others stay in one state. Nothing is gained by their product, and one
run answers the same question (does compensation restore what was found, is success true, does it end) of each of them.
Each module is a specification of its own (`FlyLockSpec`, `AppsSpec`, `EnvSpec`, ...).

### KubeLease

`lease` is the Lease object (holder and time left), `late` the writes of killed
`kubectl` children that the API server may still apply. Each process has a
request handler (`pc`, `timer`, `budget`, `age`, `sent`, `fresh`), its `HeldLock` entry with
its `lost` flag (`entry`, `lost`), and a heartbeat task (`hb`, ...). `told` is the last answer the core has.
The actions are one per outcome of a `kubectl` call: `CreateConflict`, `FoundLive`,
`FoundExpired`, `ReplaceConflict`, `AcquireFails`, `Acquired`; `StartReassert` to `ReassertFails`;
`StartAssert` to `ApplyEnds` for the phases of an apply; `StartRelease` to
`ReleaseFails`; `HbWake` to `HbFails`; `HandlerLands`, `HbLands` and `LateLands` are the server,
`Exit` the death of a process, `Tick` the clock.

Time is relative: every timer counts down, so there is no last instant and the
state space is finite without a bound on time. `Tick` does not pass a timer at
zero: Tokio's timers fire on time in a process that runs. `resourceVersion` is kept by what
it decides (`fresh`): a write whose read is stale conflicts. The clocks of two
operations differ by up to `MaxSkew`. A tick stands for ten seconds under the
default times. The Lease is never deleted by the code, so there is no action for that.

`LockAuthority` is instantiated with owners = those that believe in their
Lease, working = those with a `kubectl apply` in flight, fenced = those that had an entry once.

### Orchestrator

`world` says for every capability whether something exists, which operation
made it, whose revision it is and whether it is whole. Each operation has a
place (`pc`: locking, locked, planned, next, calling, verifying, finishing, failing, rolling,
reverting, releasing, done, dead), its `plan`, the snapshot `snap` that the plan was made from, the capabilities left
(`todo`), those that a rollback has to look at (`applied`), how far its current call
has come (`did`), calls that went unanswered and may still act (`stray`),
collected failures, what became of Ctrl+C, the journal's status on `disk` and the exit code (`result`).

`Call` checks the lock (`Confirmed`) and sends the call of the next capability
in `APPLY_ORDER`, `DESTROY_ORDER` or `rollback_order`; `Act` is the plugin, in one step or in several; `Applied`,
`ApplyFails`, `Destroyed`, `DestroyFails`, `Undone` and `UndoFails` are the ways the call ends for the core.
A call that is not answered in time is moved to `stray` and goes on (`StrayActs`); so does the call that a dead process
leaves behind. The lock is that of `LockAuthority`, extended by what the
protocol lets an authority answer: a check may be granted a new token (`regranted`). `Lapse` is the loss of the lock, `Die` the
sudden death of the CLI, `CtrlC` the signal.

The core checks the lock between two calls. Whether a call that has begun stops with the lock is its plugin's affair, and
`Fenced` names the capabilities whose plugin does that: Kubernetes (`assert_authority` before every phase, children that are
killed by the heartbeat) and Fly (`ensure_lock` before each change). Hetzner looks once per call, SSH and Compose never, so
that for them a call under way, and every call in `stray`, goes on whoever has the lock by then (`MayAct`, `Unstopped`). What such a
call changes while it does not own the lock is recorded: `disturbed` has the operations since whose plan that has
happened (`Behind`), until they plan again. A machine is never fenced; a forced `down` that goes on without the lock
(`Bypass`) is one more call that no lock stops.

Abstractions: capabilities stand for the plugins' actions (one compensation
each, with what `classify_rollback` makes of the declared contract, `Contract`); one lock scope, as
`mutation_lock_scope` gives all operations of an environment; dry runs, confirmations
and read-only commands change nothing and are left out; built images are kept by the code and
by the model.

### PluginProtocol

The client has the future of each request (`call`, its channel `slot`), the two tables
`pending` and `retired`, the `terminal` failure, the reader task (`reader`, with the id it has in its
hands) and the stages of `mark_terminal` (`marks`), which the reader and every request whose write
failed may run at once. The server has its loop (`server`), the `active` table and the tasks. `toPlugin` holds at
most `Room` unread messages, since a pipe is bounded; `toCore` needs no bound, as every request is answered once
at most. Each mutex is taken by an action of its own, so that a timeout is `TimeOut` then `Retire`, reading an answer is
`ReadPending` then `Hand`, or `ReadUnlisted` then `IgnoreRetired` or `Unknown`, and a failure is `Mark`, `Wake`, `Kill`.
Requests are made concurrently; the owner of a session shuts it down when its calls have returned, because `PluginSession::shutdown`
consumes it. `Brief` are the calls that the core awaits for five seconds and then drops, without retiring
their ids (`plugin.cancel`).

Faults: the plugin dies (`crash`), prints something else (`junk`), a message is too large in either direction
(`oversize`), or it stops reading (`wedge`). Events, notifications and standard error change no table and are
left out; a partly written line is not modelled.

`PluginCall` is instantiated with what the caller sees of a call and whether the plugin works on it. The mapping
makes `TimeOut` a stutter and `Retire` the failure of the call.

### The locks of Fly, SSH and Hetzner

`FlyLock`: `flyLease` is the Machines lease on the sentinel (nonce and time left), `flySeen` the
expiry that a process remembers, `FlySkew` the error of its clock. `FlyAcquire`, `FlyMakeSentinel`,
`FlyTakeLease` and `FlyGiveUp` are `acquire_lock`; `FlyCheck` is `ensure_lock`, which either refreshes
(`FlyRefreshed`) or reads the lease back (`FlyCompared`), and then lets a mutation of a known duration begin; `FlyTick` is time.
There is no heartbeat: what separates two operations is that the duration was asked for in advance. `FlyTiming` is
the assumption: the allowance for a call covers the longest call and the error of the clock.

`SshLock`: `sshDirectory` is `/tmp/lightrail-host.operation.lock`, `sshShell` the remote shell of each session, an
orphan when its connection is gone. The shell is modelled command by command, since a session may be dropped between
any two. Its instance of `LockAuthority` has as owner the token whose session has been unbroken. What the model shows is bounded by
what it assumes: a `SIGKILL` of the shell or a crash of the host leaves the directory for an operator to remove. A session that
drops during a running apply lets the next holder in while that apply's own connections still work; that is no matter of this module,
but of `Orchestrator` (`Fenced`) and of `ComposeRuntime` (`CompDrop`).

`Hetzner` has both the lock and the resources, because the lock lives on the machine: while there is none,
each plugin only has a reservation of its own (`HzReserve`), which `HzUpgrade` replaces by the
flock of the machine. `HzMachine` and `HzFirewall` go by the operation that made them; `HzServer`, `HzFirewall`,
`HzAttach` may lose their answers, and `HzFinal` looks again. `HzCleanup` is the end of a failing first `up`, `HzUndo`
and `HzDestroy` the later removals, `down --all` (`HzTasks`) snapshots, locks every machine and checks the snapshot again.
Known limits, modelled but not promised: the cleanup of a failing first `up` may remove a server that another operation made
while neither had a flock; a server that another one takes the place of after the upgrade is not locked anew; `cancelled` is
never reset, as on Fly. The rules of a firewall are not told apart.

### FlyApps, KubeEnvironment, ComposeRuntime

Each is one environment at its provider, with `up`s, their compensation as the core calls it, and `down`s that
are run until they are through. A call may fail before or after it took effect (`"call"`), the process may die (`"die"`), the operation may be cancelled,
and somebody else may change what is there (`"meddle"`, `"squat"`, `"edit"`). What a lost call does, it has
done by the time the caller goes on; later effects are the subject of `KubeLease` and `Orchestrator`.

- `FlyApps`: `appCloud` is each App at the provider, with its owner, volume, Machine version, address and
  expiry; the plugin's memory of the operation is `appProv`, `appVersion`, `appAddress`, `appExpiry`, and the exact
  resources that a deletion may touch are captured before it (`appCaptured`). A `bare` prior is an environment that has lost its addresses.
  A deletion goes look by look and call by call: `AppVerify`, each Machine and the drain (`AppDeleteMachine`, `AppDrained`), each volume and its drain
  (`AppDeleteVolume` with its retries, `AppEmptied`), the second look at the App (`AppRecheck`), the deletion by name (`AppDeleteApp`), which after a
  failure is repeated on any App of that name (`AppDeleteAgain`), and the wait for it to vanish (`AppVanished`). A stranger may come at any moment; one that
  takes the name between the last look and a call by name (`AppByName`) is a `usurper`, and the calls of the code do not spare it.
  Not promised: the cleanup of a provisional App that is cut short after its Machine was deleted is refused when it is repeated.
- `KubeEnvironment`: `envSpace` is the Namespace with its claim (`control`), its owner and its expiry, `envObject` who applied each kind in it. Two checkouts
  may name different control namespaces and then hold different Leases: the claim is all that is between them.
- `ComposeRuntime`: `compDoc`, `compPrev`, `compMarker` and `compDone` are the generated documents, their copies,
  `rollback.operation` and `rollback.completed`, `compAssets` the files under `assets/`; `compRuns` the documents that the containers were started from. Each call runs a script
  of several commands. It is answered, or fails after any of them, or its client goes first (a lost call, a dropped handler, a death): `kill_on_drop` ends the local `ssh`
  only, so the script stops there or is left in `compStray`, from where it goes on command by command (`CompGoesOn`) beside the rollback, a `down` or the
  next operation. `CompDrop` is the loss of the lock's session while the operation goes on. `compBeside` has the operations since whose plan something else has
  changed the host: such a script, or an operation that works at the same time.
  An answered script is one step; two operations overlap call by call, scripts without a client command by command. A script has read what it reads to begin with
  (documents to start, proof of ownership) by the time its client is gone. A directory whose removal is cut short may have lost any of its documents, but not half of its copies.
  Not promised: a first `up` that fails before its manifest leaves its directory; the marker of a deployment that succeeded stays, so
  that a later update that fails before its own backup has its rollback refused (`runtime.rs:756`); an `up` after a deployment that died
  backs up what it finds; a manifest without containers counts as absent; the files under `assets/` are
  overwritten in place and have no copies (`runtime.rs:474`); an upload cut off in the middle of its stdin, which may be installed as it is (`command.rs:134`), is
  not modelled: contents arrive whole or not at all.

### KubeWorkloads

A chain of operations on one namespace while the user edits and commits. `kwTree` is the checkout;
the revision of an operation is what `base_labels` makes of it: the project, the commit, and the operation's own id when the checkout is
dirty or an image is built. A spec hash is the text of a service, its images' revision and that label. `KwPlan` refuses
(`KwRefused`: additions, removals, changed Jobs), `KwBuild` pushes, `KwClaim` labels the namespace, `KwApply` goes through
the phases, `KwWait` waits for the rollout, `KwVerify` looks once more, `KwUndo` is the compensation, `KwDelete` a `down`; `KwCluster` is what
workloads do by themselves. One operation at a time: what keeps them apart is `KubeLease`.

### Prune, RollbackClaims

`Prune` has what a command showed its user (`pruneShown`), what it saw under the lock (`pruneSeen`) and what its call still has to delete, beside
`up`s that renew an expiry, `down`s, and another control namespace that takes an environment over
(`"elsewhere"`). A deletion whose `kubectl` is killed has taken effect by then or never will.

`RollbackClaims` has one failed `apply`: the plugin works on the actions of its plan, undoes some and writes its journal; the
core gets all of it, some of it or nothing, completes its own copy (`ClaimComplete`: `rollback_journal`) and decides what to call and what to report
(`rollback_claims`, `classify_rollback`). `ClaimsAreExact` compares that with what is in fact in place. Sequence numbers do not decrease, and two entries may share one.

### ProjectFile, PluginStore, SecretStore

Three sets of files that commands read, change and replace without a lock. A command is a chain of steps, one for each access, and two commands
overlap in every way. Each module has ghosts for the overlaps that the code does not exclude, and states its
property beside them rather than leaving them out:

- `ProjectFile` (`lightrail.toml`): an `init`, also with `--force`, keeps the id it reads only if it does so before it asks
  (`write_config` reads it once more and ignores it); two `init`s, and a file written beside a running `up`, are excepted (`pfRaced`).
  The count of live environments is the target's: Kubernetes and Fly list the whole project, machines only their profile.
- `PluginStore`: `lightrail.lock`, its one temporary file (`psTemp`), which overlapping commands share (`psClash`), and the
  store of executables, a directory per version, which two builds may share. A run checks the digest and then spawns: what is moved in
  between by an overlapping install is excepted (`psMixed`). An `init` that dies before it has written the lock cannot be rerun without `--force`.
- `SecretStore`: the keyring first, then the index, read, changed and rewritten in place. `secSure` remembers
  what a command that ran alone has answered; overlapping commands may lose a name, a crash leaves an index that no command can read.
  The cache of an operation (`OperationSecretCache`) holds its mutex over the first lookup and the question.

### Settings

The target settings that `init` is given, asks for, checks, merges and writes (`StPasses`, `StMerged`, `StWrite`), and what the plugin makes of
them (`StParse`), field by field (`StLabel`, `StRegistry`, `StArgument`...). A value is a shape, one for each difference that
some validator makes. `StAnswersAreTrue` is stated for answers that `init` writes as it has checked them: it merges the raw answers over the checked ones, so that a padded value
is written padded and refused by the plugin. Other known differences: a repository that begins with a dash or is too long, settings
of another capability, host bits of a Hetzner CIDR and addresses of 100.64/10 are accepted by `init` and refused by the plugin.

### ChildProcess

One external program and its caller, in the six ways of the code (`ChRunners`): `process.rs` with its supervisor, the Kubernetes plugin's `run`, the Fly
plugin's, `run_local` of Compose, the readiness probe of Hetzner, git. The program may exit well or ill, never exit, and leave
a descendant that holds its pipes (`chHeir`). A behaviour is about one rescue (`rescue`): a deadline, `plugin.cancel`, the abort of the request or
the drop of the caller; nothing else makes a program exit. Two waits that no rescue ends are named and excepted from `ChIsThrough`: the Kubernetes plugin joins the
pipes of a killed program without a limit (`ChHeld`), and `Cancellation::cancelled` of Fly looks at its flag before it listens, so that a
cancellation between the two wakes nobody (`ChUnheard`). `run_local` has neither deadline nor cancellation, as its `plugin.cancel` says (`acknowledged: false`).

### ComposeContract

A document and its `up`, of two checkouts one after the other (`ccWho`, `ccDoc`, `ccAt`): the same environment, in another directory or under
another slug, or two environments that differ in project, profile or branch. A document is a record of shapes, one for each difference that some validator or renderer
makes, and only shapes that `docker compose config` puts out; at most two fields of the two documents together are not the usual (`CcOdd`). `CcAccepts` is
`validate_remote_safety` of the core followed by the validators of the runtime's plugin (`CcTakes`); `CcCarries` is what its renderer keeps; `CcClaims` are
the names that the deployment then has in a place that others use too; `CcRevision` is what its revision is a hash of. A hash is taken for the value that it
is of, cut to its length or not; `CcNormal` gives two branches one normalized name, so that `CcLabel` has something to tell apart.

- `CcScoped`: two environments claim nothing in common, but for routes of two projects of one slug and containers that have a name (see Findings).
- `CcFindsItsOwn`: an environment finds its volumes and networks again from another directory and after its project was renamed.
- `CcMeaningKept`: a field that is accepted is carried. It excepts by name: `x-lightrail.kind` under Compose, which nobody reads; options of a mount under
  Kubernetes (see Findings); under Fly a volume that two services mount, which becomes two volumes, and one without a name, which is dropped.
- `CcRevisionTells`: two `up`s of one revision deploy the same document with the same hidden bytes (builds, assets, environments, uncommitted files), and what has none of these keeps its revision in every
  directory. For Kubernetes it is stated of what a workload's text depends on: values of an environment restart a workload by an annotation of their own.

The acceptance and the rendering are translated separately, from the functions that `map` names, so that their disagreement is visible: adding a shape to one of them
and not to the other is what the property is about.

## Runs

| Run | Instance | Shows |
|---|---|---|
| `kube_lease` | two operations, clocks one tick apart, every fault, times that satisfy `SafeTiming`; 172,745 states | `OneMutator`, `OwnerHasAuthority`, `NeverRegained`, that the Lease implements the abstract lock; every acquisition returns, every abandoned Lease becomes free |
| `kube_lease_defaults` | the times of the code | finding: `OneMutator` is violated |
| `kube_lease_reassert` | no fault, a round trip longer than the check's deadline | finding: an intact Lease is not confirmed |
| `orchestrator` | two operations, each an `up` or a `down`, on a capability whose plugin never looks at the lock, every fault; 554,846 states | up to a call that no lock stops: `PlanIsCurrent`, `RollbackIsComplete`, `SuccessIsWhole`, `UpSparesOthers` |
| `orchestrator_single` | one operation of each kind over four capabilities, with Ctrl+C and a failing disk; 180,497 states | journal and exit code are true, a taken Ctrl+C never commits, it ends |
| `orchestrator_ctrl_c` | no fault, Ctrl+C between two calls | finding: it is swallowed, and the `up` commits |
| `protocol` | two calls, one of them brief, and the shutdown, every fault; 570,956 states | the contract of `PluginCall`, the tables of both sides, every call returns, what timed out stops |
| `protocol_wedge` | one call, a plugin that may stop reading, room for one message | finding: shutdown never kills it |
| `plugins` | `MCPlugins`, six parts, two operations each, one or two faults; 544,848 states | locks implement `LockAuthority` (`FlyOneMutator`, `LocksImplementLock`); `CompensationIsExact`; strangers' Apps, machines and claims are spared, and the documents of a host kept (`CompFoundIsKept`, `AppStrangersSpared`, `HzTouchesItsOwn`, `EnvOneAuthority`, `EnvExpiryKept`); every `down` gets through and every host becomes free (`EverythingSettles`) |
| `fly_cancel` | the Fly part, no fault but a cancellation | finding: the compensation is refused |
| `core` | `MCCore`, nine parts; 1,115,570 states | `SuccessIsTrue` of prune, plugin commands, programs, settings, secrets and documents; `ClaimsAreExact`; `PfNothingOrphaned`; `PsRunsWhatIsPinned`; `KwSuccessIsWhole`; `NothingElseIsDeleted`; `CoreSettles` |
| `kube_jobs` | the workloads part, no fault | finding: a commit refuses every `up` with a Job |

Five more configurations are kept beside these, larger or narrower instances of the same modules
(`tlc -config MCOrchestratorFenced.cfg MCOrchestrator`, and so on):

| Configuration | Instance | Shows |
|---|---|---|
| `MCOrchestratorFenced.cfg` | two operations on a target and a runtime whose plugins stop with the lock; 1,368,064 states | `Undisturbed`, and with it the four properties of `orchestrator` without exception |
| `MCOrchestratorUnfenced.cfg` | two operations on a machine | `LocksProtect` is violated (Findings) |
| `MCCompose.cfg`, `MCCompose` | the Compose part with two faults, symmetry; 991,432 states | `CompTypeOK`, `CompFoundIsKept` |
| `MCComposeCancel.cfg`, `MCCompose` | the Compose part, no fault but a call that is given up | `CompCancelledIsUndone` is violated (Findings) |
| `MCPluginsDelete.cfg`, `MCPlugins` | the Fly part, a failed call and a newcomer | `AppNameAuthorizesNothing` is violated (Findings) |

Why the bounds are enough. A lock is disputed by two; a third contender adds no
new kind of step, and the proofs below hold for any number. In `kube_lease` a Lease of ten ticks lets
every command, heartbeat and wait happen several times within one term, an expiry
happen under every kind of owner, and a write land after any number of later ones. In
`orchestrator` one capability is
enough for what it is about, calls that go on under the next holder, since those are bound to no order; a target and a runtime, the smallest pair with an order, are
in `MCOrchestratorFenced.cfg`; a machine with two unfenced capabilities and a
deletion that takes the other with it was run once (about 7.7 million states, no error), and the theorems hold for any of them.
Four capabilities in `orchestrator_single` add the image that is never compensated, an
exposure with its own contract and a machine. The configurations of two operations use symmetry in the operations, which
nothing distinguishes at the start; it is used only with safety properties. In `protocol` two calls let one time out
or end the session while the other is at any of its places, and room for two messages keeps a request and its own
cancellation unread together, and blocks the third writer.

In `plugins`, two faults (`AppBudget`, `EnvBudget`) let the first break an operation and the second its
compensation or the `down` after it, which is what the code's retries are for; Hetzner has one (two were run once,
280,684 states of that part alone), and so has Compose: one is what leaves a script behind, while the next operation's calls go on,
and `MCCompose.cfg` has two. Two Apps, one with a volume and one public, are every kind of App in a loop that may stop between them. A Fly lease of nine ticks with work of two passes through both branches of
`ensure_lock`. `SshAttempts = 2` lets an operation acquire anew after it lost its session. In `core`, three or four commands, of which two at a time, let one command's
leftovers meet the overlap of two others; three builds, two of one version, are the least with a clash of
versions; `KwOps = 3` with two edits is an environment, an update that fails and the one that meets the remains; two odd answers let two settings of
one target go wrong together, and two odd fields let two fields of a document meet, or one of each checkout; two journal entries for two actions let one be missing, doubled or undone.

Fairness. In `KubeLease` a request that has been started goes on (weak fairness
of each handler, heartbeat and of the server), since every await in it has a
timeout; time passes (strong fairness of `Tick`, since steps that take no time may disable it
over and over). Nobody is forced to start a request, release a lock or die. In `Orchestrator`
the core goes on (`WF(Core(o))`): each of its waits has a timeout, so that even
an unanswered call has an enabled step. The plugins, Ctrl+C and the death of
processes are not fair: `Settles` does not depend on an answer. In `PluginProtocol` tasks of both runtimes go on, timers
fire and a killed process dies (`WF(Proceed)`); handlers need not finish, which is why the properties rest on timeouts and the
kill. No step of a session repeats, so that weak fairness of their union leaves none of them enabled for ever, and
the liveness properties are stated as what holds in the end (`<>[]`). They
except a plugin that has stopped reading, the subject of `protocol_wedge`. In `MCPlugins` the process of an operation and each shell on a host
go on; calls that fail are faults, which are bounded, and nothing forces a fault, a cancellation or a death. In `MCCore` the process of a removal goes on; and of a child program
the caller's own steps, the death of what was killed, a pipe that has room, and the one rescue that the behaviour is about. A program is never forced to exit.

`CHECK_DEADLOCK FALSE` is set for all but the Lease: operations, commands and sessions end, and nothing happens afterwards.

`PlanIsCurrent`, `RollbackIsComplete`, `SuccessIsWhole` and `UpSparesOthers` are stated of operations that are not in `disturbed`:
since whose plan no call without the lock has changed the environment. That is an exception the code makes, not the model (see Findings), and
`Undisturbed` says where it is empty. An operation whose own call lost the lock, or a forced `down` without one, disturbs every other, and its own
late calls disturb it too. `RollbackIsComplete` is stated for rollbacks after which no unanswered call of the operation is outstanding. `CompFoundIsKept` is stated in the
same way (`compBeside`). `AppStrangersSpared` excepts exactly a `usurper`, at the very call that goes by name.

Each property has a mutant, next to the definition that it mutates (for example
`ConfirmedAnyToken` for `Confirmed`); the property is violated under the mutant. Where a property has a
conjunct per component, `PROJECT.json` names a mutant for one of them, and the others have theirs beside their definitions:

| Property | Other conjuncts, by their mutants |
|---|---|
| `LocksImplementLock` | `SshBeginAgain` |
| `CompensationIsExact` | `EnvNeedKept`, `HzSeenByServer` |
| `HzTouchesItsOwn` | `HzVerifiedByLabels` |
| `SuccessIsTrue` | `PruneDeleteHeedless`, `PsRenameNot`, `StMergedLast`, `SecKeepNot`, `SecLoadNothing`, `CcTakesExternal`, `CcLabelPlain`, `CcVolumeOwnerKept`, `CcStableNamed`, `CcSaltsWithoutBuilds` |
| `PfNothingOrphaned` | `PfAnsweredAnew` |
| `KwSuccessIsWhole` | `KwRefusedUnlessStale`, `KwVerifyPresence` |
| `NothingElseIsDeleted` | `PruneLookLoose` |

## Proofs

`KubeLeaseProofs` (for every number of operations, every choice of times, clocks
within `MaxSkew`, and every fault):

- `TypeCorrect`: `Spec => []TypeOK`.
- `LeaseAuthority`, `LeaseExclusion`, `LeaseIsLock`: under `SafeTiming`, `[]OwnerHasAuthority`, `[]OneMutator` and `ImplementsLock`.
- `LeaseNeverRegained`: `NeverRegained`, for all times: only an acquisition that has no entry yet brings an operation's token in, once, and a heartbeat's write that is still under way finds it there.

`SafeTiming` says that what is left of a Lease after the longest acquisition, and
after the longest renewal, exceeds the skew of the clocks, a heartbeat
interval and two heartbeat commands. The defaults of the code do not satisfy it (run
`kube_lease_defaults`); with it the argument is: an owner that believes in its Lease is ahead of the expiry by what
its heartbeat may still take (`OwnerMargin`), because the expiry was computed
no earlier than the deadlines allow (`AcquireClock`); hence nobody else finds it
expired, hence no write of another operation is fresh (`FreshWrite`), and a write that
lands late finds either nothing or an entry that is over (`LateWrite`). `HeartbeatOwned`
and `HandlerEntry` tie heartbeat and handler to the entry.

`OrchestratorProofs` (for every number of operations, every set of capabilities and every contract):

- `TypeCorrect`: a call in progress has a capability and a verb (`Busy`), which is what the range of `world` rests on.
- `PlansStayCurrent`: `[]PlanIsCurrent`. `Fresh` says that what is left of an owner's plan is to be
  done to what the plan was made from, unless the operation is disturbed. It is kept because whatever changes the environment owns the lock or disturbs everybody, because a lock
  that is lost never comes back to an operation that is still carrying out a plan, and
  because calls that a destruction gave up are for later capabilities than those left (`Trailing`): the target, whose deletion takes a
  machine's runtime with it, is the last one.
- `FencingProtects`: `[]Undisturbed`. Where every capability is fenced, who acts, or has calls that may still act, owns the lock it was given first.
- `EverythingIsTraced`: `[]LeavesATrace`. Every revision that exists or that a rollback might restore is told of by a journal (`Told`).
- `CancelledIsNotCommitted` and `SuccessIsTrue`: `[]TakenNeverCommits` and `[]ExitIsTrue`, from one invariant of how operations end (`Outcome`).

`RollbackProofs` (for every number of operations, capabilities and fault):

- All three are about operations that no call without the lock has disturbed, whatever the plugins fence and whether there is a machine (`Aim`, with
  which everything on it goes). With `FencingProtects` that is every operation where every plugin fences.

- `RollbackSparesOthers`: `UpSparesOthers`. A step that destroys something is the owner's own or disturbs the owner; an up that owns the lock and is undisturbed
  still tells its own resources from those it found, so that what it destroys, now or late, is its own (`Sparing`).
- `FailedIsUndone`: `[]RollbackIsComplete`. An up that has not failed to compensate accounts for everything that is not as it found it, a compensation
  that is done has put its capability back, and a journal says `Failed` only when every one is (`Undoing`).
- `CommittedIsWhole`: `[]SuccessIsWhole`. What a plan no longer has to do has been done and is still there, a machine before what is on it (`Honoured`).

`PluginProtocolProofs` (for every set of calls, every room in the pipe and every fault of either side):

- `TypeCorrect`, `UnknownAnswersAreLate`, `TableIsTrue`: `[]TypeOK`, `[]OnlyRetiringIsUnknown`, `[]ActiveIsServed`.
- `SessionKeepsContract`: `ImplementsCall`. The invariant follows an id: it is in at most one place on its way (stdin, task, stdout, reader, oneshot
  slot), each place says what the plugin has done, and while the session is alive whatever may still be answered is an id the client knows.

`EnvironmentProofs` (for every number of operations, control namespaces and services, and every fault):

- `EnvironmentTypeCorrect`: `[]EnvTypeOK`, a part of `PluginsTypeOK`.
- `OneAuthority`: `EnvOneAuthority`. Where an operation is in its handler says what its plan saw and that it still holds its Lease, so that a
  namespace of its control namespace is as the last step of some operation under that Lease left it (`Path`, `Owns`).
- `ExpiryKept`: `[]EnvExpiryKept`, which rests on that an operation that has planned an expiry has found a namespace (`Expires`), and whose it is.
- `CompensatesExactly`: `[]EnvCompensationIsExact`, the Kubernetes part of `CompensationIsExact`, from what each stage of a rollback has put back (`Stages`, `Undid`).
- `CompTypeCorrect`, `CompFoundKept`: `[]CompTypeOK`, `[]CompFoundIsKept`, from one invariant (`CompInv`). Of an operation beside which nothing has changed the host since its plan,
  documents, copies, marker and containers are tied to its place: what its uploads have done (`CompAdvanced`), where every document that it found is and what a rollback
  has moved back already (`CompSafe`, `CompRestoring`), and what it has said of its compensation (`CompSaid`). Every script is followed command by command, for its own
  call and for the one that outlives it, which takes nothing from this but for operations that it then counts against (`compBeside`).
- `AppTypesCorrect`, `AppCompensatesExactly`: `[]AppsTypeOK`, `[]AppCompensationIsExact`. An address or expiry that differs from the plan has its inverse
  remembered (`AppRemembers`), a loop that has not erred has put back all that it has passed (`AppPutBack`), and a destruction has captured whatever the
  operation has made and not yet deleted (`AppDeletes`). The loops go over finite sets of services in their order; that each goes to the least that is left
  needs `LeastNumber`.
- `AppStrangersLeftAlone`: `AppStrangersSpared`. Each call is at an App that the last look found owned, at a name that was free, or at one that was taken
  since, which makes its holder a `usurper` (`AppReachesItsOwn`); after a look that found nothing owned, nothing is known of it to pass the comparison (`AppKnown`).
- `PluginTypesCorrect`, `CompensatedIsExact`: `[]PluginsTypeOK` (under `FlyTiming`) and `[]CompensationIsExact`, from these and from `PluginLockProofs`.

`UnlockedFilesProofs` (for every number of processes, commands and faults):

- `StoreTypeCorrect`, `FileTypeCorrect`: `[]PsTypeOK` and `[]PfTypeOK`, parts of `CoreTypeOK`.
- `RunsWhatIsPinned`: `[]PsRunsWhatIsPinned`. Unless two commands overlapped, one process writes (`PsApart`); a build is moved into the store only where there is
  none, and what a run has verified stays there until it starts (`PsPlaced`).
- `PsAnswersHold`: `[]PsAnswersAreTrue`, a part of `SuccessIsTrue`. Unless commands clashed, the temporary file has one writer (`PsFile`) and a command that
  ran alone has nobody writing beside it (`PsSole`), so that what it has fetched, installed and saved is what lock and store show at its end (`PsAims`, `PsHeld`).
- `SecTypeCorrect`, `SecAnswersHold`: `[]SecTypeOK`, `[]SecAnswersAreTrue`, parts of `CoreTypeOK` and `SuccessIsTrue`. Of a name that is being written nothing is
  sure, and the index that a command is about to write has what is sure of the others (`SecWriter`); an operation has given its plugins the value that it
  has kept, or none (`SecGiven`).

`PluginLockProofs` (for every number of operations, and of attempts to reach a host):

- `FlyTypeCorrect`: `[]FlyLockTypeOK`, with every clock within the skew, every lease time and work, under `FlyTiming`, as the next three.
- `FlyCallsCovered`: `[]FlyOutlivesCalls`. The expiry that an operation remembers for a lease of its own is never later than the real one, and a check
  lets a mutation begin only with more left than the mutation and the margins take: time passes for both alike.
- `FlyExclusion`: `[]FlyOneMutator`, since of two leases that outlive their calls the sentinel has one.
- `FlyLeaseIsALock`: `FlyImplementsLock`. A step of an operation grants, begins, ends, forfeits or
  changes no operation's standing (`FlyStutterStep`, `FlyForfeitStep`); a tick that ends a lease is the forfeit of its owner, whose calls ended before.
- `SshTypeCorrect`, `SshLockIsLock`: `[]SshTypeOK`, `SshImplementsLock`. The directory is there exactly while one shell is between making and removing it
  (`SshHeld`); an entry whose connection is up is that shell's (`SshBelieves`).
- `LocksAreLocks`: `LocksImplementLock`, the two together, under `FlyTiming`.
- `HzTypeCorrect`, `HzUndoesItself`: `[]HzTypeOK`, `[]HzCompensationIsExact`, parts of `PluginsTypeOK` and `CompensationIsExact`.
- `HzSparesWhatIsNotItsOwn`: `[]HzTouchesItsOwn`. A server that was removed does not come back, since its maker makes no second (`HzMade`); the one whose flock
  an operation waits for was found after its last removal, and with the refusal the reservation is gone, without which nothing is removed (`HzDenial`).
  A `down --all` has locked the server of its snapshot or was shown none, and removes only what that snapshot has (`HzProject`).

`CoreProofs` (for every number of operations and environments, every plan and length of a journal, every set of services and secrets,
and every input and number of attempts of a program):

- `PruneTypeCorrect`, `PrunedIsGone`, `PruneDeletesTheShown`: `[]PruneTypeOK`, `[]PruneSuccessIsWhole` and `PruneSparesTheRest`, parts of `CoreTypeOK`,
  `SuccessIsTrue` and `NothingElseIsDeleted`. An operation selects under its lock what it showed; what it still has to delete is as it was shown,
  and what it no longer has to is gone or known to remain (`PruneTodoKept`, `PruneDone`).
- `ClaimTypeCorrect`, `NothingIsLeftUntold`: `[]ClaimTypeOK` and `[]ClaimsAreExact`. The plugin's journal is in order and tells of an action whether it was
  skipped or rolled back (`ClaimTold`); what the core adds behind it gives every planned inverse one place (`ClaimPlaced`, by counting, `RankTaken`) and
  changes no action's last status (`ClaimReading`).
- `KwTypeCorrect`, `KwWhatSucceedsIsWhole`: `[]KwTypeOK`, `KwSuccessIsWhole`. The objects that are applied are as they are rendered and the others as the
  inspection under the lock saw them (`KwProgress`), a Job that is not applied is the one that would be because a changed one was refused (`KwAccepted`), and the
  last inspection is what tells that what was not applied is healthy too.
- `KwNothingIsDestroyed`, `DeletedIsAsked`: `KwNonDestructive`, and with `PruneDeletesTheShown` all of `NothingElseIsDeleted`.
- `ChTypeCorrect`, `ChAnswersHold`: `[]ChTypeOK`, `[]ChAnswersAreTrue`. A program runs unkilled only while its caller feeds it or waits for it, success is the last
  thing said (`ChKept`), and unread input outlives neither the program nor what it has left running (`ChFed`).
- `StTypeCorrect`, `StAnswersHold`: `[]StTypeOK`, `[]StAnswersAreTrue`. What is written is what the checks of `init` have passed, merged (`StPast`). That this is
  accepted is a proof by cases about every field of every target, the two kinds of checks being different code.
- `CcTypeCorrect`, `CcAnswersHold`: `[]CcTypeOK`, `[]CcAnswersAreTrue`. What is up was accepted (`CcInv`); the rest is one lemma per part of the promise
  about what a runtime makes of an accepted document (its meaning, its names, its revision), for any two documents whose fields have modelled shapes.
  Those that the specification makes have at most `CcOdd` unusual fields between them.
- `CoreTypeCorrect`, `CoreSucceeds`, `CorePromises`: `[]CoreTypeOK`, `[]SuccessIsTrue` and the other properties of the run `core`, of its own specification. A step
  of the run is one of each component or leaves it alone (`CoreSteps`), so that a behaviour of the run is a behaviour of each (`CoreIsEach`); settings and
  documents begin in a state of their own only in the behaviours that are about them (`CoreHeld`).

The assumptions are those of the modules' ASSUME statements (distinct names, ranges of constants), which TLC
evaluates in every run; `PluginStore` assumes that there is a build at all, and a least one, which the order of versions gives, `SecretStore` that there is a secret to name. Liveness, ENABLED and facts that need induction over data are
out of the prover's reach and stay with TLC: `AcquireSettles`, `OrphanExpires`, `Settles`, `EveryCallEnds`, `AbandonedStops`,
`EverythingSettles`, `CoreSettles`, the seven liveness properties. Every invariant and every other action or refinement property of a passing run is
stated by a theorem. The runs that expect a violation refute what they check.

## Findings

1. **Continuity checks of the Lease cannot succeed.** The core asks with a
   deadline of 1 ms (`LOCK_CONTINUITY_TIMEOUT_MS`), and `reacquire` runs `kubectl get` under it.
2. **The default times let two operations apply at once.** The expiry is computed before an acquisition that may take 30 of its 60 seconds.
3. **Ctrl+C between two plugin calls is swallowed** and the `up` commits.
4. **A plugin that stops reading is never killed** once its stdin is full: the write of a request has no timeout.
5. **After Ctrl+C the Fly plugin refuses its own compensation**: a cancellation is kept per operation id and never cleared, and
   the rollback has the same id.
6. **A commit makes every `up` of an environment with a Job fail**, image-only or not: the revision label is part of the Job's spec.

Each is a run that expects a violation; `PROJECT.json` quotes the line of the documentation it contradicts.

Three more concern what the code does not stop. They are behaviours of the models, the properties named above are stated up to them, and
each is refuted by a configuration of its own:

- **A call outlives the lock of its operation** on Hetzner, SSH hosts and under Compose (`MCOrchestratorUnfenced.cfg`). `ensure_lock` of Hetzner (`plugin.rs:1497`) looks once at the
  beginning of apply and destroy (`:382`, `:491`), the Compose `deploy` (`runtime.rs:207`) not at all, the core between two calls (`orchestrator.rs:2286`). When the session that holds the
  lock drops, or the CLI dies, in the middle of a call, the rest of the call meets what the next holder has planned from. "Locks protect the complete mutation
  aggregate, not merely a local process." (`docs/architecture.md:785`)
- **A repeated deletion of a Fly App goes by its name alone** (`MCPluginsDelete.cfg`). After a failure `delete_captured_app_bounded` asks whether `get_app` finds any App of that name
  (`plugin.rs:6583`), does not compare its ID, and deletes by name again; if the first deletion was served and somebody has taken the name since, it is their App that goes, unless
  the provider refuses it. "An App name alone never authorizes deletion." (`docs/product-spec.md:1123`)
- **A remote script outlives its abandoned call** (`MCComposeCancel.cfg`). Dropping the handler kills the local `ssh` (`command.rs:46`); the remote `docker compose up` has no terminal and may
  go on after the compensation has removed its environment and answered. "Every child process is kill-on-drop, so no separate operation registry is needed."
  (`lightrail-plugin-compose/src/lib.rs:122`); "not permission to abandon a child process or provider mutation" (`docs/plugin-protocol.md:52`).

Six more disagreements are behaviours of the models without a configuration of their own. A release of the Lease whose answer was lost is refused
when it is retried ("already released is successful", `docs/plugin-protocol.md:448`; `ReleaseFails`).
A rollback whose first save of the journal fails compensates nothing (`orchestrator.rs:2415`; `Rollback`); `LeavesATrace` still holds.
An answer that arrives while its request times out ends the session (`client.rs:355`; `Unknown`), which `OnlyRetiringIsUnknown` confines to that window.
The Compose plugin passes `container_name` through (`compose_model.rs:791`), and a hostname is made of the project's slug and not its id (`naming.rs:166`), so that
two environments on one host may claim one container or one route ("networks, named volumes, containers, generated files, and routes are environment-scoped",
`docs/product-spec.md:768`); `CcScoped` excepts these two and nothing else. The Kubernetes translator drops options of a mount such as `volume.subpath`
(`parse_mount`, `model.rs:1010`; "fails on non-empty service fields it cannot preserve", `README.md:334`); `CcMeaningKept` excepts them.

## Not modelled

- The text of manifests, Compose documents and Machine configurations, parsing, output and telemetry: functions of their inputs, without
  state to go wrong. What decides a spec hash, a refusal, a name or a revision is modelled (`KubeWorkloads`, `Settings`, `ComposeContract`).
- Version negotiation, events and log streams of the protocol; the error classification.
- Bootstrap and probe scripts of a host, an upload that is cut off in its stdin, and connections
  that are cut without a trace: each is named above with its module.
- Diagnostics, status and logs, which only read. `GitContext::discover` reads branch, commit and status by separate commands,
  which may belong to different moments.
- The composition of orchestrator, sessions and plugins: the orchestrator sees an answer, an error, or no answer, and a plugin's module has the core's
  calls as its environment. That a terminal's Ctrl+C also reaches the plugins, which are in the same process group, is a crash for the session.

## Plan

1. Done: all modules above.
2. Done: the proofs above.
3. Done: the proofs about the commands, with which all of `SuccessIsTrue` and `CoreTypeOK` is proved.
4. The composition of `Orchestrator` with a plugin's `cancel` and `destroy`, in which findings 3 and 5 meet.
