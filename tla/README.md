# FOTA orchestrator of the central gateway: a TLA+ development

This directory holds TLA+ models of the C++ daemon in this repository, the TLC
configurations that check them and theorems about them checked by TLAPS. The code is the
reference throughout. `PROJECT.json` maps every definition that models code to the lines
it stands for; `hpp` and `cpp` alone mean `src/include/cgw/fota/ota/fota_orchestrator.hpp`
and `src/src/ota/fota_orchestrator.cpp`.

1. Inventory
2. The models
3. Runs, bounds and fairness
4. Proofs
5. What disagrees with the documentation
6. What is not modelled
7. Plan

## 1. Inventory

The program is one process. `FotaDaemon` owns a timer thread that calls
`FotaOrchestrator::step()`. The SOME/IP transport owns the downlink worker threads (one by
default, `downlink_workers`), and they call `FotaOrchestrator::applyControl()`. The
orchestrator talks to the cloud through `FotaCloudProxyViaTransport`, to the installer
through `InstallExecutor`, and keeps every durable fact in `FotaCloudStateStore`, one atomic
key/value write per `save*` call.

| Component | State | Operations | What is hard | What makes it correct |
|---|---|---|---|---|
| `main` (`main.cpp`) | where the start or the shutdown stands, the `running` flag | configuration, store, recovery, migration, runtime, DIAG, address, daemon, signal loop, release in reverse | an early return or a signal at any point, a power loss at any point | nothing is opened before the migration is over; the daemon stops before what it uses; a signal ends the process |
| Orchestrator (`ota/fota_orchestrator`) | vehicle-task and execution state, frozen task, permit, sequence numbers, control ids; a durable copy of most of them | `step` with `doCheckTask`, `doConsent`, `doDownload`, `doPermit`, `doExecute`, `doFinalize`; `emit`; `reconcileOnStart`; `applyControl`; `syncPolicy` | power loss between two durable writes, answers lost after the cloud acted, stale records of an earlier task | consent and verification before installation, one event per sequence number, no final result before the events, a restart that changes nothing |
| State machines (`ota/state`) | none | transition predicates, mapping of the cloud's status | nothing calls the predicates | the orchestrator follows the diagrams |
| Cloud state records and store (`store/fota_cloud_state*`) | `fota.*` keys | load and save of each record | none of its own: a write is atomic | a record reads back as it was written |
| Migration (`store/fota_state_migration`) | `ota.*` and `fota.*` keys, the marker | `migrateOtaToFota` | a crash half way, a repetition, both schemas present, text revisions | every field is carried over, no old key goes before the marker, a repetition takes nobody back |
| SOME/IP transport (`ota/someip_vehicle_message_transport`) | in-flight table, downlink queue, subscriptions, workers, `stopping_` | `exchange`, `publish`, `subscribe`, `start`, `stop`, `onDownlinkEvent` | callers, SOME/IP callbacks, workers and `stop` interleave; timeouts race answers | an answer belongs to its call, a bounded table nobody leaks into, no call after release, `stop` ends |
| Cloud proxy and codec (`ota/fota_cloud_proxy*`, `fota_message_codec`) | none | encode, exchange, decode | answers of the wrong type, correlation, version | only the answer to its own request reaches the business code |
| Daemon (`daemon/fota_daemon`) | timer thread, subscription | `start`, `stop`, `timerLoop` | start-up and shut-down order against the threads | the orchestrator is reconciled before it is used |
| Snapshot sequence store (`store/fota_state_store`) | `inventory.*` keys, their backups, a blocked flag per key | `open` with `migrateAndValidate`, `allocateSnapshotSeq` | failed or interrupted writes, records of other releases, the limit | a number is handed out once; what cannot be read is kept; what is upgraded is backed up |
| State recovery (`store/fota_state_recovery`) | the plan | `recover`, `reconcileCompleted` | a crash between two of its writes | recovery of a recovery ends the same way; only a confirmed job is removed |
| Snapshot assembler, diagnostics client | the throttle | collect, validate, allocate | time-outs, retries | a fresh number per snapshot |
| Fingerprint, canonical encoder | none | pure functions | field boundaries, order of ECUs | one digest per content |
| Serialisers | none | envelope, upgrade chain, checks | records two releases old | every release's record reads back with its content |
| Configuration, generic transport contract | none | parse, range checks, resolve | boundary values | an address in range, free and of version 1, or none |
| Production ports | none | answers of the hardware not there yet | none | refuse rather than pretend |
| Logging, error codes | none | formatting | none | none |

How a process runs: `main` reads the configuration, opens and recovers the `inventory.*`
store, migrates `ota.*` to `fota.*`, opens the SOME/IP runtime, waits up to five seconds
for DIAG, resolves the address of the TBOX service, makes the daemon and waits for a
signal. The daemon's threads then run campaigns.

How a campaign runs: `doCheckTask` reports the inventory, freezes the task the cloud
hands out and stores it. `doConsent` asks for consent where the task requires it.
`doDownload` gets a grant per package, downloads, verifies, reports the stage. `doPermit`
waits for the window and the guards and stores the permit. `doExecute` starts the
executor, which calls back into `emit()`, then sends the event outbox. `doFinalize` sends
the final result once every event is accepted, and the answer names the next state.

The hazards, each at its line and with the properties that cover it, are in
`PROJECT.json` under `hazards`.

## 2. The models

Four state machines, each with the actors that interfere with it, and the control channel
beside them, over shared modules of records and pure functions:

```
MCFotaBoot --- FotaBoot --+-- FotaMigration -- CloudRecords --+
                          +-- FotaConfig                      +-- Envelope
MCSnapshotStore -- RecordUpgrades -- SnapshotStore -- StateRecords
        |                               |             +-- Envelope
        +--------- InventoryDigests ----+
                          +-- InventoryFingerprint
MCFotaOrchestrator -- FotaOrchestrator --+-- FotaStates
                                         +-- EventJournal   (INSTANCE: what it refines)
MCFotaControl -- FotaControl
MCVehicleExchange -- VehicleExchange
```

| Module | Models |
|---|---|
| `FotaStates` | the two state machines of `ota/state`: states, documented transitions, terminal states, the cloud's status as a state |
| `FotaOrchestrator` | `step()` and all its stages, `emit()`, `reconcileOnStart`, power loss, and the part of the cloud, executor and vehicle they depend on |
| `EventJournal` | the abstract specification: what `EventSink::emit` promises the executor |
| `FotaControl` | the control channel: SOME/IP callback, downlink queue, workers, `applyControl`, start and stop of daemon and transport, power loss |
| `VehicleExchange` | the calls of the cloud: proxy, codec, `exchange` with its in-flight table, by the step thread and the workers, beside the daemon's `stop()` |
| `Envelope` | the versioned envelope around every durable record |
| `StateRecords` | the `inventory.*` records: upgrade chain, checks and fields |
| `RecordUpgrades` | what earlier releases wrote of the `inventory.*` records, and what the upgrade must make of it |
| `SnapshotStore` | the life of these records: `open`, `recover`, `reconcileCompleted`, `assembleSnapshot` with `allocateSnapshotSeq`, failing store operations, power loss |
| `InventoryFingerprint` | the canonical encoding and the digests |
| `InventoryDigests` | what the digests are to tell apart; it extends `SnapshotStore` only so that the claim is about the specification of that run |
| `CloudRecords` | the `fota.*` records: kinds and fields |
| `FotaMigration` | `migrateOtaToFota`: detection, conversion of the nine old keys, read-back, marker, removal |
| `FotaConfig` | which configurations start, and with which address |
| `FotaBoot` | `main()` around the migration: start, errors, signal, shutdown, power loss |
| `MC*` | definitions that give constants their values in the runs, and the bounded inputs of the pure functions |
| `*Proofs` | the theorems of section 4; those of the orchestrator build on each other in the order `FotaOrchestratorProofs`, `FotaTaskProofs`, `FotaResultProofs` |

### FotaOrchestrator: state

`vtState`, `exState`, `frozenTask`, `permit`, `nextSeq`, `acceptedSeq` are the members
`vtState_`, `exState_`, `frozenTask_`, `permit_` (with `executionId_`, which always
changes with it), `nextSeq_`, `acceptedSeq_`. The `stored*` variables are the records of
`FotaCloudStateStore`: vehicle task, execution, outbox meta, outbox events by sequence
number, consent, downloads by package. Strings are model values, execution ids are
`1..issued`, and byte counts are 0 or 1, for "none" and "some".

`pc`, `ret`, `todo`, `pkg`, `entry`, `allReady`, `sendSeq` and `sendError` are the position
and the locals of the running call; `entry` is the download record before it is saved.
`bytesOf` says under which etag the bytes were fetched that the downloader keeps of a package;
like them it survives a power loss. `installs`, `emissions`, `acknowledged`, `delivered`,
`stageOk` and `finals` record what the executor did and what the cloud has accepted; the code
has no such variables, and the properties speak about them.

### FotaOrchestrator: actions and atomicity

A step is cut exactly where a power loss, or the cloud, could tell the difference: at
each durable write, at the beginning of the executor's side effects, and at each cloud
call that takes effect there. Between two such points the code is one action:

| Action | Code |
|---|---|
| `CheckTask`, `RequireConsent` | `doCheckTask` up to its first `persistVehicleTask`, and from there to the second |
| `ReportConsent`, `RecordConsent` | `doConsent` up to `saveConsent`, and the task state after it |
| `BeginDownload`, `SkipReady`, `EndDownload` | the loop of `doDownload` |
| `Fetch`, `GrantFails` | one package: the grant and `downloadAndVerify`, or the exception |
| `StageReported`, `StageReportLost`, `NoStageResult` | the stage result: answered, its answer lost, or none |
| `SaveDownload`, `AbandonDownload` | `saveDownload` at the end of the round, or in a catch block before the return |
| `OpenWindow`, `RequestPermit`, `RetryNotGranted` | `doPermit`, and `step()` turning RetryPending into PermitPending |
| `SaveExecution`, `SaveMeta` | the two writes of `persistExecution`; `ret` says where it returns to |
| `StartInstall`, `EmitEvent`, `CommitEvent`, `StartReturns`, `StartRefused`, `ResumeExecution` | `doExecute` up to the outbox, with `emit()` cut between its two writes; `start()` may also answer that it did not start after it began or emitted |
| `SkipEvent`, `MarkSent`, `EventAccepted`, `EventNotAccepted`, `EndSend` | the outbox loop |
| `FinalAccepted`, `FinalNotAccepted` | `doFinalize` |
| `StepFails` | every early return that changes nothing |
| `Crash`, `Reconcile` | power loss at any point; construction and `reconcileOnStart` |
| `PermitExpires`, `GuardsChange` | the clock and the vehicle, between any two actions |

A cloud call that ends in an exception may have taken effect or not: both are in
`StageReportLost`, `EventNotAccepted` and `FinalNotAccepted`. `step()` calls never
overlap (one timer thread), so `FotaOrchestrator` is a sequential program that can be
interrupted anywhere. `applyControl` runs on another thread, but it neither reads nor
writes any variable above except for copying control ids into reports. That is why the two
modules are not composed.

`CloudDedupes`, `StageOptional`, `ConditionsVary`, `GrantsAsAsked`, `MaxLateRefusals` and
`Migrated` select how demanding the environment is: whether a grant may name another package
revision than the one asked for, how often an execution may have begun when the executor
refuses to start it, and so on. They are constants so that a theorem can speak of all of them
at once.

### FotaControl

Four kinds of thread meet: the main thread (`main`, `handler`, `stopping`,
`queueStopping`), the SOME/IP callback (`arriving` is the message it holds), the workers
(`at`, `cmd`, `ackNo`), and the power supply. `queue` is `downlinkQueue_`; `lastReceived`,
`lastApplied`, `pending` and `ackSeq` are the orchestrator's members; `storedControl` are
the records `fota.controls:<revision>`, reduced to what `applyControl` looks at. `asked`,
`handed`, `applied` and `acks` record what the executor and the cloud have seen. A command
is its `controlRevision`.

| Action | Code |
|---|---|
| `StartTransport`, `SubscribeDownlink` | `transport_->start()`; the subscription in `FotaDaemon::start` |
| `CancelHandler`, `RefuseNew`, `StopQueue`, `JoinWorkers`, `ReleaseService`, `Exit` | `FotaDaemon::stop` and the transport's `stop()`, flag by flag |
| `Arrive`, `Enqueue` | `onDownlinkEvent`: the check of `stopping_`, then the section under `queueMutex_` |
| `Take`, `LeaveLoop`, `Dispatch` | `workerLoop`, `dispatchToHandlers` |
| `FindDuplicate`, `FindNew`, `SaveReceived`, `Execute`, `RecordApplied`, `Acknowledge` | `applyControl`, cut at its durable writes, the executor and the cloud call |
| `PowerLoss` | at any point once the process runs |

The cloud may deliver any command at any time, again and again. The executor may apply a
command or answer with any other status; an acknowledgement may arrive or be lost, and a
stopping transport refuses it.

### VehicleExchange

The callers are the thread that runs `step()` and the downlink workers, whose acknowledgements
are calls too. `table` is `inflight_`, `stopping` is `stopping_`; `at`, `msg` and `answer` are
the position, the request and the future of each caller, `late` says that the deadline in
its entry has passed, `main` where `FotaDaemon::stop` stands. `received` records what the
cloud got, `result` the request of each caller's last call and what the business code was given
for it.

| Action | Code |
|---|---|
| `Begin` | a typed method of the proxy, `encodeRequest`, and `exchange` up to the table: `stopping_`, envelope and payload size |
| `Reserve` | `evictExpiredInflight` and `reserveInflight`, one section under `inflightMutex_` |
| `TooLarge`, `Send` | the size of the encoded envelope, then `callAsync` |
| `TakeAnswer`, `GiveUp` | the two ways `wait_for` ends |
| `Release`, `Finish` | `releaseInflight`; the outcome, `FotaMessageCodec::decode` and `throwFor` |
| `Answer`, `DeadlinePasses` | the framework, the TBOX and the cloud; the clock |
| `JoinTimer`, `RefuseNew`, `JoinWorkers`, `ReleaseService` | `FotaDaemon::stop` and the transport's `stop()` |

An answer keeps what the code decides on: the framework's error code, the correlation id,
the type, and at most one further defect (an undecodable envelope, a wrong kind, service
or version, an expired deadline, an answer that is too large, empty or unparsable). An
answer without a defect may carry the correlation id of *any* request that reached the
cloud, and any type. The deadline of an entry is read off the system clock while the caller
waits on the steady clock; a clock that is set makes the first pass at any moment, which is
the case `evictExpiredInflight` has to be safe in.

### SnapshotStore

One thread, cut where a power loss or a failing store operation can tell the difference.
`disk` and `backup` are the store, `corrupt` the flag of each key, `plan` the
`RecoveryPlan`; `asm`, `attempt` and `throttled` are the assembler. `issued` records the
numbers handed out, `first` the store before the first boot.

| Action | Code |
|---|---|
| `OpenFails`, `CheckKey`, `RewriteKey`, `VerifyKey` | `open` and, for each key, `migrateAndValidate`: backup, upgrade, read-back |
| `Recover` | `StateRecovery::recover`, with any of its loads failing |
| `ReconcileDedupe`, `ReconcileCleanup` | the two writes of `reconcileCompleted` |
| `BeginAssemble`, `DiagFails`, `DiagAnswers`, `HandOut` | `assembleSnapshot` with its retries |
| `AllocateBlocked`, `AllocateSaves` | `allocateSnapshotSeq` |
| `IntervalPasses`, `StopsNow`, `Boot` | the throttle, the end of the process at any point, the next start |

A write that fails may have taken effect. A record is a function from field names to values,
so that a missing field is a missing field; `StateRecords` has the upgrade chain and the
checks of the decoders on them. `RecordUpgrades` says, from the fixtures of the serialiser's
tests, which fields each earlier release wrote.

### FotaMigration and FotaBoot

`FotaMigration` is `migrateOtaToFota` with one action per durable write, and
`Interrupted` for everything that throws. Its conversions are operators from old to new
records: a field is carried under its name or a new one, changed (a text revision becomes
a number, a negative offset becomes 0, actions and apply modes get their new names) or left
at its default. `FotaBoot` runs it inside `main()`: its actions are the lines of `main` from
one early return to the next. `SavesState` stands for the daemon's durable writes; it
moves the sequence numbers on, because those are what a repeated migration could take
back. A return with an error goes to `unwind`, where the destructors run in the order C++
gives them: `DestroyDaemon`, `DestroyClient`, `Left`. `FotaOrchestrator` starts, under
`Migrated`, from the records of this kind it reads (`MigratedStore`): any of them may be
missing, the task is in any of `OldTaskStates` and without its snapshot, the execution in any of
`OldExecStates`, the watermarks are any, and the events, without payload, are at any numbers
and in any mix of PENDING, SENT and ACKED. `AcceptedBefore`: what is marked ACKED the cloud
has, under that number.

### InventoryFingerprint and FotaConfig

Operators only. The encoding is a sequence of numbers in which every field has its header
(id, presence, length), so that what SHA-256 is applied to can be compared; SHA-256 itself
is taken to be free of collisions. `Sorted` puts an ECU where the number of those before it in
the order of `sortEcuIndices` says, ties being broken by the index as there. `InventoryDigests`
says which content each digest is to name, and `MCSnapshotStore` gives it the inventories of the
run: two ECUs, missing, empty and one-byte fields, and bytes that look like a header.
`FotaConfig` is the acceptance of the settings and the resolution of the generic transport
address, used by `FotaBoot`.

## 3. Runs, bounds and fairness

| Run | Question | Bounds |
|---|---|---|
| `orch_crash` | Do consent, verification, the outbox, the final result and the idle restart survive power losses? | two tasks, one with consent, one package, two events, two permits, two power losses, an executor that refuses once after it began |
| `orch_steady` | Without power losses: one start per execution, under its saved permit, kept bytes under the recorded etag, and the right final number? | one task, one package, three permits and three events, two etags and grants without one, stage results that may be missing, expiring permits, changing guards |
| `orch_live` | Is every execution concluded and every acknowledged event delivered? | one task, two permits, two events, one power loss |
| `orch_migrated` | Are sequence numbers safe on a store filled by migration? | one task, two places in the outbox; every migrated store with the task in one of three states (a terminal one among them) and the execution in one of three, any watermarks and events; two power losses |
| `control` | Is a command applied at most once, is every acknowledgement backed by the store, does `stop()` drain the queue and return? | two commands, a queue of two, one worker, two power losses |
| `exchange` | Does each call get its own answer, does the table stay bounded and leak nothing, does `stop()` wait for every call and end? | the step thread with two requests of one type that fit, one whose envelope and one whose payload is too large, and a worker with an acknowledgement; a table of one; six framework codes, one for each way the code treats them |
| `snapshot` | Are snapshot numbers fresh, is nothing lost by the upgrade, does an interrupted recovery end like an uninterrupted one? And the pure functions: do records of every release read back, do digests name their content? | 17 first stores; three boots, two failing store operations, `SeqMax` 4, a window of two, one retry |
| `boot` | Does the migration lose nothing and take nobody back; is nothing opened too early and everything stopped in order; does a signal end the process? | 11 first stores, 9 configurations, two starts, numbers up to 5 |
| `find_*` | See section 5 | the smallest that shows it |

Why the bounds are enough. Two power losses interrupt a recovery once more; two events make a
first and a last one, so one may be refused and the next accepted; two permits give a retry,
and in `orch_steady` three give a retry of a retry; two tasks let the second inherit what the
first left in the store. Every counter is bounded in a guard (`MaxPermits`, `MaxCrashes`,
`MaxLateRefusals`, `OutboxMax`, `MaxBoots`, `MaxFaults`, `MaxNumber`), no state constraint is
used, and deadlock is checked in the runs of `FotaOrchestrator` and `FotaControl`: the idle
orchestrator always has a step, if only `StepFails`. `exchange`, `snapshot` and `boot` do not
check it because there the process may be over: the transport is released, or the last of the
bounded number of starts has ended. `OutboxMax` is not a bound of the model but
`cfg.eventOutboxMax`; small values make the full outbox a common case. In `control` the same
holds of `QueueCapacity`, which is `cfg.downlinkQueueCapacity`; deliveries need no bound, since
a known command changes nothing, and the only bounded counter is `crashes` (the daemon may be
stopped and started without limit). In `exchange` one place in the table for two callers makes
the refusal, the eviction of an expired entry and its late removal the common case. In
`snapshot` the third boot interrupts, or finds, what the second made of an interrupted first,
two failing operations let the compensation for the first fail too, and `SeqMax` lets the limit
be reached; the first stores have each key missing, of each earlier release, of this one,
damaged, newer and not decodable, a sequence behind the last success, and a finished job of
this and of another report. In `boot` the second start repeats whatever the first left; the
stores have every old key, some of them unreadable, and a migrated vehicle that was downgraded
in between; the configurations are at the edges of the ranges.

Which properties, and why these:

- `ConsentBeforeUse`: a task that requires consent is past the consent stage only while the
  store holds the consent *for that task*. The cloud may send the vehicle back to detection and
  hand out another task.
- `InstallOnlyVerified`: nothing is started before the cloud accepted a stage result for each
  package, in the revision the task asks for.
- `OneEventPerSequenceNo`, `ImplementsJournal`: see section 4. The first compares the events of
  this release: those from before a migration are at the cloud under numbers that do return
  (section 5).
- `RestartIsTransparent`: at every idle point, what `loadFromStore` would restore leads to the
  same decisions as memory does. This is the claim of hpp:8-10 that a step ends on a durable
  boundary. It is about stages, not states: a failed download leaves Downloading in memory and
  DownloadPending in the store, and both mean the same to `step()`.
- `ResultOnlyAfterInstall`, `FinalResultAfterEvents`: no success is reported for an execution
  that never began, and none while an acknowledged event is missing.
- `TerminalIsForever`: Completed and Ended, stored with the snapshot of their task, survive
  every step and restart. A migrated task has none and is checked anew (section 5).
- `OneInstallPerExecution`, `InstallUnderSavedPermit`, `FinalNamesLastEvent`,
  `PartialBytesMatchEtag`: hold while power holds, and each fails with one power loss (section
  5). The last says that resumed bytes and the etag of their record belong together. The bytes
  a migrated record speaks of are taken to be of its etag.
- `SkipsAtMostOneState`: what the store says of the vehicle task moves along the documented
  diagram, or over one state of it, the one whose save the code leaves out.
- `ExecutionConcludes`, `EventsReachCloud`: liveness, below.
- `AppliedOnce`, `AckedIsRecorded`, `PendingIsUnapplied`: what `applyControl` owes the vehicle,
  the cloud and the final result, wherever the power fails. They are about one worker, the
  default. With two, both may find no record of a redelivered command and both apply it:
  `AppliedOnce` fails as soon as `control.cfg` names a second worker.
- `StopLeavesNothing`, `StopReturns`: `stop()` against callbacks and workers.
- `AnswerIsOwn`: what a call returns is of the right type, answers the very request of that
  call, not an earlier one of the same thread, and that request had reached the cloud. The
  codec's check of the type is what keeps a well-formed answer to the right call with the wrong
  content out.
- `InFlightIsBounded`, `NoEntryLeaks`: a call within its deadline owns its place, whatever
  expired calls are evicted or leave late, and no way out of a call forgets its entry. The
  first needs that no two threads use one message id (`IdsAreOwn`, an assumption of
  `MCVehicleExchange`); with one worker, the default, the code gives that.
- `ReleasedIsQuiet`, `StopReleases`: `exchange` looks at `stopping_` only once. What keeps
  calls out of a released service is that `FotaDaemon::stop` joins the timer thread and the
  transport joins its workers first.
- `NumbersAreFresh`: a snapshot number handed out is above all earlier ones and above what the
  first store had reached, in spite of power losses, failing writes, upgrades and damage.
- `OldRecordIsBackedUp`, `UnreadableIsKept`: no upgrade without its backup, and no write over a
  record this release cannot read (the dedupe window is the exception, section 5).
- `JobEndsConfirmed`, `RecoveryIsRestartable`: a job is removed only as a finished one whose
  very report succeeded and is in the window; and without failing operations every boot that
  ends leaves the store a single uninterrupted one would have left.
- `RecordsSurviveUpgrade`, `DigestsNameContent`: the pure functions, over every record of
  `Records` and every inventory of the run; they have the premise `boots = 0`, so that TLC
  evaluates them before the first boot only. `Records` stands for records this release may
  write (`RecordsAssumption`), the inventories for those that have a digest
  (`InventoriesAssumption`); the theorems are about all of them, the run about a few.
- `LegacyKeptUntilMarked`, `RecordsSurviveRestarts`, `BusinessFieldsAreKept`: an interrupted
  migration finds everything it started from; what it leaves, however interrupted and repeated,
  is what one uninterrupted call makes, with what the daemon saved since on top; and every
  migrated record agrees with its old one in every field they share, stated field by field and
  not through the operators that convert. Dropped are only the fields that hold a message of
  the old protocol (`Opaque`). TLC also evaluates, as an assumption of `MCFotaBoot`, that the
  old records of the run are regular (section 4).
- `OpensOnlyWhenReady`, `StopsInOrder`, `SignalEndsProcess`: the start and the end of the
  process. `StopsInOrder` covers every return of `main`, through the signal loop and by an
  error anywhere: DIAG goes after the daemon, the runtime after both.

Fairness (`Fairness` in `FotaOrchestrator`). `timerLoop` (`fota_daemon.cpp:134-145`) calls
`step()` as long as the daemon runs, and a started daemon reconciles first: weak fairness
of the program's own moves, and of the outbox and final-report attempts, whatever their
answer. Of the environment three things are asked, each without which nothing could be
promised: the executor's start returns, an event reported again and again is at some time
accepted, and so is a final result (strong fairness, because an attempt is over before the
next begins). Nothing is assumed about consent, grants, permits or the window: the
properties only speak of executions that exist.

`FotaControl` asks for weak fairness of the start-up, of `stop()` once it is past the
cancellation, of the callback inside `onDownlinkEvent`, and of each worker. The executor's
`apply` returns, and a cloud call has a timeout (`someip_vehicle_message_transport.cpp:280`).
Nobody need ever deliver a command or stop the daemon. `VehicleExchange` asks that a caller
inside a call is scheduled, which includes that its wait ends, and the same of `stop()` once
it has joined the timer; no answer is ever required. `FotaBoot` asks that each call `main`
makes returns or throws; the wait for DIAG is bounded by its five seconds (`main.cpp:199`)
and looks at the signal, and the loop ends once it was seen. `SnapshotStore` has no liveness
property and no fairness.

Each property has at least one mutant in `PROJECT.json`: a plausible slip in one
definition (an event's status tested for the wrong value, a missing reset, a dropped
save) under which TLC finds the property violated in the same run. The mutated forms
stand beside the originals as `Mut...` operators; no specification uses them. The type
invariants of `FotaControl`, `VehicleExchange` and `SnapshotStore` are no properties of a run;
those of the first two are proved.

## 4. Proofs

`TLAPS` checks 38 theorems in eight modules, each for all values of the constants that
satisfy the named assumptions: `DataAssumption`, `BoundAssumption`, `SwitchAssumption` and
`RecordAssumption` of `FotaOrchestrator`, `ControlAssumption` of `FotaControl`,
`ExchangeAssumption`, `BootAssumption`, `StoreAssumption`. They say that the constants have
their kinds, and that the marker for an absent key is no record. Two of them also say what
decoding gives in C++ by its types alone: `StoreAssumption` that a decoded sequence is an
unsigned number and a decoded window a list, `BootAssumption` that the entries of a decodable
list of old records are a list, and that the migration marker is absent, reads as completed,
or cannot be read. `RecordsAssumption` says that `Records` holds values the decoders return,
`InventoriesAssumption` that the inventories are finitely many (a `Cardinality` compares
digests with contents) and that no two ECUs of one share their key, which is when the code
makes a digest.
Whatever else a theorem needs is a premise of its statement, and the table names it.

| module | theorem | property | premise |
|---|---|---|---|
| `FotaOrchestratorProofs` | `TypeCorrect` | `TypeOK` | |
| | `NumbersNameOneEvent` | `OneEventPerSequenceNo` (events of this release) | |
| | `OutboxImplementsJournal` | `ImplementsJournal` | not migrated |
| `FotaTaskProofs` | `ConsentIsGiven` | `ConsentBeforeUse` | |
| | `TerminalStays` | `TerminalIsForever` (tasks with a snapshot) | |
| | `DiagramIsFollowed` | `SkipsAtMostOneState` | not migrated, `CloudFollowsDiagram` |
| | `BytesMatchEtag` | `PartialBytesMatchEtag` | `MaxCrashes = 0`, no grant carries an empty etag |
| | `InstallsAreVerified` | `InstallOnlyVerified` | not migrated, stage results always given, `OneRevisionForAll`, `GrantsAsAsked` |
| | `ResultsAreOfInstalls` | `ResultOnlyAfterInstall` | not migrated |
| | `RestartsAreTransparent` | `RestartIsTransparent` | not migrated |
| `FotaResultProofs` | `EventsPrecedeResult` | `FinalResultAfterEvents` | not migrated |
| | `ResultNamesLastEvent` | `FinalNamesLastEvent` | not migrated, `NoPowerLoss` |
| | `InstallsOnce` | `OneInstallPerExecution` | `NoPowerLoss`, `MaxLateRefusals = 0` |
| | `InstallsUnderPermit` | `InstallUnderSavedPermit` | `NoPowerLoss` |
| `FotaControlProofs` | `ControlTypeCorrect` | `TypeOK` | |
| | `StopEmptiesQueue` | `StopLeavesNothing` | |
| | `AppliedAtMostOnce` | `AppliedOnce` | `SingleWorker` |
| | `AcksAreRecorded` | `AckedIsRecorded` | `SingleWorker` |
| | `PendingIsReported` | `PendingIsUnapplied` | `SingleWorker` |
| `VehicleExchangeProofs` | `ExchangeTypeCorrect` | `TypeOK` | |
| | `AnswersAreOwn` | `AnswerIsOwn` | |
| | `CallsAreBounded` | `InFlightIsBounded` | `IdsAreOwn` |
| | `EntriesAreOfCalls` | `NoEntryLeaks` | |
| | `ReleaseFindsNoCall` | `ReleasedIsQuiet` | |
| `FotaBootProofs` | `TypeCorrect` | `TypeOK` | |
| | `LegacyIsKept` | `LegacyKeptUntilMarked` | |
| | `OpenedWhenReady` | `OpensOnlyWhenReady` | |
| | `ShutdownIsOrdered` | `StopsInOrder` | |
| | `RecordsSurvive` | `RecordsSurviveRestarts` | `MissingIsNoNumbers` |
| | `FieldsAreKept` | `BusinessFieldsAreKept` | `MissingIsNoNumbers`, `OldRecordsAreRegular` |
| `SnapshotStoreProofs` | `NumbersAreNew` | `NumbersAreFresh` | `MissingIsNoEnvelope` |
| | `NumbersAreDurable` | `IssuedIsDurable` | `MissingIsNoEnvelope` |
| | `UnreadableIsLeft` | `UnreadableIsKept` | |
| | `OldRecordsAreKept` | `OldRecordIsBackedUp` | `MissingIsNoEnvelope` |
| | `JobsEndConfirmed` | `JobEndsConfirmed` | `MissingIsNoEnvelope` |
| | `RestartsAreIdempotent` | `RecoveryIsRestartable` | `MissingIsNoEnvelope` |
| | `RecordsAreUpgraded` | `RecordsSurviveUpgrade` | |
| `InventoryDigestsProofs` | `DigestsAreNames` | `DigestsNameContent` | |

The step of each invariant has one case per action that can disturb it and, where one leaf
does not do, one step per conjunct. Frame lemmas (`QuietStep`, `TaskQuiet`, `WhoWrites`,
`OutboxQuiet`, `ExecutionQuiet`) dispose of the other actions together.

### The orchestrator

`TypeOK` alone is not inductive. `emit()` tests the limit before its first write and
increments the number in its second, and a stage's writes name `RevisionOf[frozenTask]`,
which needs a task. `TypeInv` adds
- `TaskKnown`: from the first task check on, memory holds a task and the store a task with
  its snapshot;
- `RoomToCommit`: between the two writes of `emit()` the number is within the limit.

**Numbers.** The danger is `persistExecution`, which writes the outbox meta back from memory
while `emit()` increments it in the store. `NumberInv` adds to `TypeInv`
- `MemoryAgrees`: memory and store name the same next number, or nothing of this release was
  delivered yet and no executor runs (`BeforePermit`); the second is a migrated store whose
  reset has not been saved, and a task without snapshot implies that nothing of this release was
  delivered;
- `DeliveredIsLogged`: what the cloud has of this release (`OfThisRelease`) lies before the
  stored number and is what the record of that number holds.

On a migrated store the numbers begin again at 1 as soon as the first permit is saved, and
events without payload are never sent. So an old event is never mixed up with a new one in the
outbox; at the cloud, however, a number the old release used comes again (section 5), which is
why the property is about the events of this release.

**The journal.** The durable outbox refines `EventJournal` under the mapping
`log <- Logged`, `taken <- Taken`: the first `storedMeta.next - 1` records, and those among
them that are ACKED. `CommitEvent` is the abstract commit, `EventAccepted` the taking, and
every other step, power losses included, leaves the journal alone. `LogInv` adds `FreshInv`
to `TypeInv`: memory and store agree whenever the program runs, every committed number has
its record, and the event being emitted is younger than all of them, so that a commit is of
a new event. On a migrated store the first `persistExecution` writes the reset numbers over
the migrated ones and the journal shrinks, hence the premise.

**The task.** `TaskInv` adds to `TypeInv` what memory and store say of each other:
- `CallPlace`: where the running call stands says which state the memory holds;
- `StoreAgrees`: a restart would find the task the memory holds, at the same stage, and
  would still know that it rolls back. States are only compared by stage, because
  `Downloading`, `PermitPending` and the end of `RollbackPending` live in memory only;
- `ExecAgrees`: between two steps of an execution, and while its final result is asked for,
  the store holds its permit and state;
- `ConsentSaved`: the stored consent is that of the task a restart would resume.

`ConsentIsGiven`, `TerminalStays` and, with `LogInv`, `DiagramIsFollowed` and
`RestartsAreTransparent` follow from it. On a migrated store the first durable change goes
back to `Discovered`, which the diagram does not know, and the numbers differ until the
first permit is saved. `CloudFollowsDiagram` asks that the state the cloud answers a final
result with may follow `Executing`.

- `BytesInv` adds to `PartialBytesMatchEtag`, which is about the record in hand, that outside
  the save of a package the stored records match its bytes too (`StoredMatch`). A power loss
  between `downloadAndVerify` and the save breaks that (section 5), so the theorem has the
  premise `MaxCrashes = 0`. An empty etag in a grant is copied into the record without resetting
  the offset, so the theorem excludes it as well.
- `VerifiedInv`: a ready record has the revision every task asks for and its stage result
  counts; so do the packages `doDownload` has visited while `allReady` holds; so do all
  packages of a task that a restart would resume past its download. Without
  `OneRevisionForAll` the second task skips a record that is ready for the first
  (`find_stale_ready`), without the second premise a package that reported nothing counts as
  ready, without `GrantsAsAsked` the stage result is of the revision the grant named instead of
  the task's, and a migrated record is ready without a result of this release.
- `RanInv`: an execution past its start, in memory or as a restart would find it, has begun,
  and only such an execution is rolled back. It covers the power loss between the saves of
  task and execution record, after which the store pairs `Executing` with the previous
  execution.
- `SettledInv` adds to `LogInv` that acknowledged events are in the outbox, that what is
  marked accepted has been delivered, and `PassInv`: while nothing failed, all that the pass
  over the outbox has left behind is accepted.
- `WatermarkInv` (`NoPowerLoss`): the watermark in memory bounds every accepted number and
  lies below the next one.
- `StartInv` (`NoPowerLoss`): an execution that is due has its permit and has not begun, and
  neither have the permits not yet granted. Together with `ExecAgrees` it gives the saved
  permit.

`NoPowerLoss` cannot be dropped: TLC refutes the properties with one power loss (section 5).
Nor can `MaxLateRefusals = 0` in `InstallsOnce`: an executor that began and then answers that it
did not start is started again by the next step.

### The control channel

`StopInv` says that a worker that left, left an empty queue which takes nothing more, so
that after the join, which needs at least one worker, it is still empty. `CommandInv` adds
to the three other properties
- `PlaceInv`: what the place of the worker in `applyControl` says of the record of its
  command (none, fresh and never applied, fresh, applied under its number);
- `StoreInv`: a command without a record was never applied nor asked, and the pending ids
  are the asked commands whose record is not marked applied.

The single worker keeps `PlaceInv`: no other thread writes the record it has read. With two
workers TLC refutes `AppliedOnce`.

### The transport

`CallInv` relates the callers, `stop()` and the in-flight table: `PlaceInv` says what the place
of a caller says of its request, `MainInv` whom `stop()` has joined by now, and `TableInv` that
every entry belongs to a call that has not returned (`NoEntryLeaks`) and that there is room for
all (`RoomInv`). None of it asks whose ids are whose. `HeldInv`, that a call in time has its
entry, does: it is kept if no two threads use one message id (`IdsAreOwn`), and
`CallsAreBounded` has that as its premise. With several workers on one redelivered control
revision the code does not give it (section 5). A call whose deadline has passed may have been
evicted by a later one, so `InFlightIsBounded` counts only the others. `AnswerInv` says that an
answer without a defect is to a request that had reached the cloud.

### Boot and migration

`LegacyInv` follows the migration: no old key goes before the completed marker is durable,
then they go one after the other, and the migration is over only when all are gone. `OpenInv`
says what `main` has checked where it stands, and `StopInv` that once the loop is left the
daemon is stopped or was never made, and that a stopped runtime finds neither daemon nor DIAG.

*Types.* That every record of the store decodes as the kind of its key is not inductive:
during the conversion the records still to be saved are in `queue`. `RecordInv` says that
what is queued, and what is in the store beside the first records, are saves the conversion
of some old record makes (`SaveSet`), or sequence numbers; `SavesAreSaves` shows for each kind
that the conversion makes only records its decoder accepts.

*Interruptions.* `RecordsSurvive` compares the store with what one uninterrupted migration
would make (`Expected`), for any number of interruptions. The call has no memory of earlier
ones, so the invariant cannot speak of them either. `SurviveInv` relates the position to the
store alone:
- `Midway`: what is queued and what the keys from `at` on will queue (`Rest(at)`) is the end
  of the whole list of saves, and for every key saved so far in this call the store holds the
  *last* of its saves. A new call starts at the beginning of the list, where this says
  nothing, whatever an interrupted one left;
- `Untouched`: a key that no save names is as in the first store. Together they give, once
  the list is done, every key of the store, and the earlier calls have left no trace because
  each key they wrote is written again;
- `Passed`: the keys before `at` could be decoded and led to the numbers in `meta`, which is
  what makes `Rest` the same list in every call;
- `Fits`: after the marker, the store is the expected one but for the sequence numbers the
  daemon saved since.

`RestIs` and `AllSavesAre` carry the list from one key to the next; the concatenations have
a fixed length of nine, so no induction is needed. `MissingIsNoNumbers` says that no pair of
sequence numbers is the marker for an absent key.

*Fields.* `FieldsAreKept` has one lemma per kind (`VehicleTaskHolds` to `LogJobHolds`), each
field by field: carried, renamed, or computed; the five fields of `Opaque` are compared with
nothing. `MigratedInv` says that after the marker
every old key was decoded, and that what is expected under a key is one of the saves made
under it. `OldRecordsAreRegular` is
needed because the claim is about every field an old record and its new one share: a list
with two entries of one id would give one record for both (section 5), a field that none of
the old structs has may happen to be called like a new one, and a count that is no whole
number is not what the structs hold. TLC evaluates it on the stores of the run.

### The snapshot store

`SequenceInv`: the durable sequence record covers the first one and every number handed out,
and is above them while a number is allocated but not yet returned. It rests on
`SequenceReadsBack`, the round trip of that record through `Encode` and `Decode`, and on
`Writers`, which says which step writes which key. `JobInv`: only a job `recover` has read is
removed. `PassedInv`: once `open` has passed the sequence record it is up to date, missing or
blocked, and only a running process assembles. `BackupInv`: a record that is no longer the
first one was written by this release, and the one about to be rewritten is in the backup.
`MissingIsNoEnvelope` says that no envelope is the marker for an absent key.

*Round trips.* `IsRecord` says which values the decoders return. `RecordIsRead` is that
decoding gives such a value, `ReadsBack` that what `Encode` writes of one is decoded as the
same. `RecordsAreUpgraded` takes the fixture of each release apart: `LegacyPayloadIs` lists
its fields, `MigratedIs` and `WindowMigrated` follow them through the chain of upgrades, one
version at a time, and `DamagedIsRefused` has one case per defect.

*Jobs.* A removed job is gone, so `JobEndsConfirmed` must be known before the removal.
`ContentInv` says that the records of the last success and of the job still have the content
of the first store (`Resting`: as they were, or upgraded), `SettleInv` that whoever is on the
way to the removal has read a finished job whose report succeeded (`Settling`), and that at
the removal the window lists that report (`Listed`). A power loss forgets the place, and
the next boot reads it all again.

*Restarts.* `RecoveryIsRestartable` is about boots that no failing operation disturbs, on a
store whose sequence is not behind its last success: that one blocks recovery, and the number
handed out all the same (section 5) may end the block at the next boot.
`FlagInv`: what `open` is past is flagged exactly when it cannot be read, and is not older
than this release. `RestartInv` then says how far the store has come between the first one
and the one a single boot leaves: each record is as it was or upgraded (`Untouched`), but for
the window, which a finished job settles first, and for the job, which is removed last, so
that `Recovered` holds from then on. It is kept by every boot: settling a window that is
already settled leaves it as it is (`SettledIs`), and where there is no finished job `open`
alone has made the store the recovered one (`NothingToSettle`).

### The digests

`DigestsAreNames` is about lists of any length, and needs induction. The library's induction
theorems take a predicate, which the provers cannot instantiate; `Induction` takes a set. Its
proof is by counting: were n the counterexample, moving each counterexample up to n down by one
would map a finite set into itself, one to one, without reaching n, which `FS_Injection`
excludes. `Least`, the least element of a set of numbers, follows from it.

*What is written can be read back.* `Agree` says of two sequences that one begins the other, and
`IsCode` of a set of them that no two members agree. `FlattenDiffers`: two lists of as many
members of a code, run together, agree only if the lists are the same (by induction over the
list, of which `FlattenIsJoin` gives the partial joins). A field is a member of a code because its
header holds its length (`FieldsDiffer`), and so is a record, whose header holds the length of its
domain and the number of its fields (`CanonicalDiffers`). Each kind of field tells its values
apart (`StringFields` to `ListFields`), in particular a missing one from an empty one, and so do
the records of the ECUs.

*The order of the ECUs is not part of it.* `KeyOrder3`: the comparison of keys is a strict total
order. `RanksNumber`: in such an order of a finite set the number of smaller elements numbers
the elements. `SortedArranges` follows, and without a duplicate key the order is strict
(`SortedIncreases`); `HasDuplicateKey` compares neighbours only, which is enough because equal
keys are neighbours. `SameOrder`: there is only one way to list a set in a strict order.
`ListedTells` puts both together: two lists of codes are equal exactly when the sets of what is
encoded are. `VersionsTell`, `SnapshotsTell`, `IdentifiersTell` and `KeysTell` say it of the four
digests, and their different domains keep them apart.

### Model-checked only

Liveness (`ExecutionConcludes`, `EventsReachCloud`, `StopReturns`, `StopReleases`,
`SignalEndsProcess`) is out of the prover's reach. `BlockedStopsReporting` (section 5) fails.
Every safety property of a passing run is a theorem.

## 5. What disagrees with the documentation

Four runs end in a counterexample, each a finding in `PROJECT.json`.

| Run | What the code does | What is said |
|---|---|---|
| `find_recheck` | the re-check in `doPermit` only sets an error text; the next step starts the executor without any check | cpp:506 |
| `find_stale_ready` | a package an earlier task left ready satisfies the next task, whatever revision that asks for | `vehicle_task_state.hpp:26` |
| `find_mixed_download` | bytes are fetched under a new etag (cpp:387) before the record that names it is saved (cpp:429); after a power loss in between the old record still holds, and when its etag is granted again the other object's bytes are resumed | `package.proto:14` |
| `find_lost_control` | a control command is saved before the executor is asked; a power loss in between makes its redelivery a duplicate, and it is never executed | hpp:85 |

Others are a constant away from a passing run; TLC shows each when that constant is changed.

| Change | Then fails | Because | What is said |
|---|---|---|---|
| `MaxCrashes = 1` in `orch_steady.cfg` | `InstallUnderSavedPermit` | Executing is stored (cpp:503) before the permit is; a power loss between the two starts the executor without one | cpp:497 |
| `MaxCrashes = 1` in `orch_steady.cfg` | `OneInstallPerExecution` | the executor begins (cpp:535) before InstallStarted is stored (cpp:541); a power loss begins the same execution again | `execution_state.hpp:8` |
| `CloudDedupes = TRUE` in `orch_live.cfg` | `ExecutionConcludes` | DUPLICATE counts as an error (cpp:566): a resent event that the cloud knows blocks the final result for ever | hpp:13 |
| `MaxCrashes = 1` in `orch_steady.cfg` | `FinalNamesLastEvent` | an event is stored as ACKED (cpp:574) before the watermark is, so `final_sequence_no` may be too small | `execution.proto:16` |
| `EmptyEtag` among the `GrantEtags` of `orch_steady.cfg` | `PartialBytesMatchEtag` | an empty etag in a grant replaces the recorded one without resetting the offset (cpp:383), and so hides a later change | `package.proto:14` |
| `MaxLateRefusals = 1` in `orch_steady.cfg` | `OneInstallPerExecution` | an executor that began and then answers `started = false` leaves the state as it was (cpp:535-539), and the next step starts it again | `execution_state.hpp:8` |
| `InstallOnlyVerified` as an INVARIANT of `orch_steady.cfg` | `InstallOnlyVerified` | a package without a stage result, which `package_downloader.hpp:26` allows, does not keep the task from Ready (cpp:391) | `vehicle_task_state.hpp:26` |
| a second worker in `control.cfg` | `AppliedOnce` | two workers both find no record of a redelivered command | hpp:85 |
| `BlockedStopsReporting` as a PROPERTY of `snapshot.cfg` | `BlockedStopsReporting` | `main` only logs a plan that says Blocked (`main.cpp:106-111`); numbers the last success already covers can be handed out | `fota_state_recovery.hpp:38` |

Seen while modelling, with no run of its own.

Orchestrator and control: Downloading and PermitPending are never stored, so the durable
state goes from DownloadPending to Ready and from WaitingWindow to Executing, which
`vehicle_task_state.hpp:11` does not list; `stop()` cancels the daemon's handler before the
transport drains its queue, so the drained commands find no handler; acknowledgement numbers
start at 1 again with each process (cpp:739); the watermark is a maximum, not a contiguous
prefix (cpp:565 against `execution.proto:81`), visible as an event refused and its successor
accepted; a migrated store's numbers are reset (cpp:108), so the guarantee of the journal
starts only after the first save, and new events reach the cloud under numbers the old release
has used (`execution.proto:59` has them strictly increasing); a migrated task without its
snapshot goes back to detection whatever its state, a terminal one too (cpp:103-110 against
`vehicle_task_state.hpp:11`); a changed revision with an equal etag keeps the old bytes
(cpp:379 against `package.proto:14`); a migrated execution record next to a task stored as
Executing by an interrupted `doPermit` is taken for the running one.

Migration: without a marker, `fota.*` records that are already there are overwritten, and with
a completed one old keys written by a downgraded release are removed unread, where
`fota_state_migration.hpp:17` promises to refuse conflicting double state. Two old control
records whose revisions have the same numeric value ("1" and "01"), or two downloads of one
package id, become one record.

Inventory store: a dedupe window that is newer, damaged or could not be backed up is
overwritten by `reconcileCompleted`, against the "do not overwrite, do not downgrade" of
`fota_state_store.cpp:135-137`, and a window whose read fails once is taken for an empty one;
the window drops its oldest entry by position, never by age (`fota_state.hpp:150`); a
successful upgrade is logged under the event of a failed one; `saveLastSuccess` and
`saveActiveJob` have no caller in the program.

Transport: the message id is "req-" and the idempotency key, the same for every attempt, where
`fota_message_codec.hpp:40` calls it globally unique. With two workers on the same control
revision the late removal by the first erases the entry of the second, which is why
`CallsAreBounded` has the premise `IdsAreOwn`. Evicted calls still wait, so that more than
`max_in_flight` callers may be inside altogether. `ExchangeOptions.max_response_bytes` and
`in_flight_ttl` are not read.

Process: the provider's digest (`production_ports.cpp:53-68`) depends on the order of the ECUs,
which the fingerprints do not; these are used by the tests only. The task check comes every
minute and the assembler answers at most every five, so four of five checks report an empty
inventory with the default settings. `min_report_interval_ms` is cut to 32 bits
(`main.cpp:161`). `main` never passes `reconcile_on_start` on.

## 6. What is not modelled

In the orchestrator: records nothing in the program reads back (inventory record, log jobs,
timestamps, digests); the text of outcomes and logs; `syncPolicy`, which only copies the
cloud's answer into a record. The consent receipt in the permit request is opaque to the
vehicle. The order in which a task lists its packages is not fixed: `doDownload` may visit
them in any order, a superset of what the code does. `EventSink` callers may emit any number
of events up to the limit, and only while the executor's start runs, which is where the
executors of this repository emit.

In the transport: `publish`, which no code calls, and the metrics. The protobuf payloads are
generated code; JSON is abstracted to the fields present. The times in the records of the
inventory, which no decision looks at, and the data of each ECU, which only the digests see.
The settings of the logger and of the SOME/IP runtime are handed to the framework. The data
race on the list of pending control ids (cpp:601) is undefined behaviour of the C++ program
and is not given outcomes here. The test doubles, logging and error codes hold no state.

The modules are composed where they share state: the migration and the configuration in
`FotaBoot`. `FotaOrchestrator` and `FotaControl` are apart because `applyControl` touches no
variable of the campaign but the control ids copied into reports; `VehicleExchange` is what both
rely on when they let a call of the cloud return the answer, throw after it took effect, or
throw before; `SnapshotStore` shares only the process with the rest, since the provider hands
the orchestrator an inventory and no number.

## 7. Plan

Done: the plan of the first version (`FotaStates` to `FotaConfig` above, in that order), each
module with its run and, for the state machines, its theorems. Left:

1. Two workers in `exchange` with distinct revisions on larger machines; the theorems cover
   any number.
2. `syncPolicy` and `doLogUpload`, once something reads their records.
