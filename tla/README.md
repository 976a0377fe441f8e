# GoreeCloud Browser: specifications

TLA+ models of the browser's own state machines and decisions, the TLC
configurations that check them on small instances, and TLAPS proofs about them.
The reference is the C++ code; line numbers are those of the commit beside which
this directory stands. `H/` below abbreviates `include/goreecloud/browser/`.

## 1. The system

The browser is a header-heavy C++20 program. Nearly everything runs on one UI
thread: the GTK main loop (`H/platform/gtk_linux_runner.hpp:193-213`) handles
the events of the window, runs the engine's work, pumps the download manager
and pauses, over and over. What makes it hard is therefore not threads but
(a) long operations made of steps with callbacks and writes to the disk in
between, (b) the process dying between any two of these writes, (c) servers, the
platform's process launcher, CEF and the user answering late, twice or not at
all, (d) state that lives in two places told apart by an id only, and (e) long
sequences of legal operations.

| Component | State | Operations | Talks to | Hard behaviour | What makes it correct | Module |
|---|---|---|---|---|---|---|
| Transfer scheduler (`H/advanced_download_transfer_engine.hpp`) | `pending_`, `active_` with plans, `paused_`, `cancelled_` | queue, pause, resume, cancel, pump | runtime (callbacks), transport | admission while paused or cancelled, retries, order of callbacks | a download is in one place; slot limit; paused does not move; finished means full; waiting downloads are served | DownloadScheduler |
| Plans and checkpoints (same file, `H/download_checkpoint_store.hpp`) | segments with credits and retries | cut, save, apply | scheduler, runtime | remainders, limits of zero, stale checkpoints | segments partition the resource; progress is kept only of the same version | DownloadPlan |
| Download runtime (`H/advanced_download_runtime.hpp`, manager service, file store, checkpoint store, queue store, HTTP transport, `src/curl_http_download_client.cpp`) | records, scheduled set, staged and final files, checkpoints, `queue.tsv` | enqueue, pause, resume, cancel, restart, pump, verify and commit, restore | all of the above, server, disk, scanner | death between writes, ignored write errors, restoration, id reuse, servers that change | what is released is whole and was cleared; record, scheduler and disk agree; nothing is forgotten; downloads settle | DownloadRuntime, ReleaseGate |
| Wardveil decision (`H/wardveil_download_security.hpp`) | none | evaluate a scan, digest a file | runtime | combinations of an incomplete answer, time, block boundaries | only a current clean finding about this file releases; time never softens | WardveilDecision |
| Extension permission ledger and its storage (`H/extension_permission_ledger.hpp`, `..._storage.hpp`) | leases; primary, temporary and backup file | add, revoke, close tab, website or session, expire, authorize, save, load | runtime authority | backup older than a revocation, death between renames, clock going back | a whole snapshot always survives; what is loaded is recent and well formed | ExtensionLedger, LedgerStorage |
| Extension runtime authority and process broker (`H/extension_runtime_authority.hpp`, `H/extension_process_broker.hpp`) | sessions, tokens, tracked processes | register, suspend, resume, terminate, issue, dispatch, launch | ledger, platform launcher | a token outlives the lease behind it; ambiguous launches; processes that do not end | a token works only for what runs; once is once; a revocation bites within a token's life | ExtensionRuntime |
| Native extension packages and signatures (`H/native_extension*.hpp`, `src/extension_signature_sodium.cpp`) | none | decode, validate, verify | broker | malformed archives and text | what loads has distinct paths inside the package, keeps the limits and has what it starts; a signature is of one set of files | ExtensionPackage |
| Permission broker (`H/permission_broker.hpp`) | requests with their resolutions | receive, evaluate, decide, cancel, close context | policy, shield, Wardveil, host, engine | everything may change between evaluation and decision | a grant is fresh; answers stand; complete means resolved | PermissionBroker |
| Session recovery (`H/session_recovery.hpp`) | snapshots in a store | checkpoint, mark clean, discard, offer | tabs, store | a store others wrote | what is offered is sound and not private | SessionRecovery |
| Private browsing (seven headers) | contexts, sessions, flags, grants, download records | open, clear, close and forget, delete files | engine, windows | one clean-up step of several failing | nothing outlives its context; a failure can be retried and is reported | PrivateSession |
| Tabs and windows (`H/window_controller.hpp`, `H/in_memory_tab_manager.hpp`, `H/tab_strip_model.hpp`) | order, active tab, selection; groups, splits, protection | create, close, activate, select, sleep, group, split | each other, by id | closing in any order, operations on one side only | there is an active tab whenever there is a tab; the strip draws what exists | BrowserWindow |
| Sync (`H/sync_*.hpp`) | fetch cursor and records | record, submit, fetch pages | server, signer | a server that changes between pages, or misbehaves | bounded, in order, complete; no content of a private tab is sent | SyncExchange |
| Engine view (`src/cef_runtime.cpp`, `H/cef_client.hpp`, `H/cef_media_probe_app.hpp`) | CEF browsers, pending requests | attach, detach, navigate, probe, preview | renderer | a browser closing while another is created; lost answers | every request is answered once | CefView |
| Window host, hover popover and main loop (`src/platform/gtk_linux_glaze_host.cpp`, `H/live_media_hover_coordinator.hpp`, `H/platform/gtk_linux_runner.hpp`) | surface, popover, dialogs, probe sequence | toolbar, search, pointer, click, close | view, windows | late answers, navigation under a dialog | the popover shows the attached view; what was clicked is acted on | BrowserShell |
| Media actions (`H/media_*.hpp`, `H/browser_media_action_backend.hpp`) | none | offer, ask, execute | search, services, downloads | combinations of policy, protection and answers | nothing leaves unasked; protected media stays | MediaActions |
| Health (`H/health.hpp`) | none | evaluate | every dependency | combinations and order of signals | readiness is that of the worst | BrowserHealth |
| Download panel and policies; Android application; settings, home, search and other surfaces | - | - | - | - | - | none (section 6) |

## 2. Modules

```
DownloadPlan -- extended by --> DownloadRuntime -- INSTANCE --> DownloadScheduler, ReleaseGate
DownloadPlan -- extended by --> DownloadAdmission
ExtensionLedger -- extended by --> LedgerStorage, ExtensionRuntime
Filtering -- extended by --> LedgerStorage, SessionRecovery
DecisionCases EXTENDS DownloadAdmission; INSTANCEs MediaActions, WardveilDecision,
  ExtensionPackage, BrowserHealth

MCDownloadScheduler, MCDownloadRuntime, MCLedgerStorage, MCExtensionRuntime,
  MCPermissionBroker EXTEND the module they are named for
MCFrontEnd EXTENDS BrowserWindow, SessionRecovery, PrivateSession, CefView,
  BrowserShell, SyncExchange
MCDecisions EXTENDS DecisionCases

DownloadSchedulerProofs, ExtensionRuntimeProofs, PermissionBrokerProofs,
  LedgerStorageProofs EXTEND the module they are named for
DownloadRuntimeProofs EXTENDS DownloadRuntime; INSTANCEs DownloadSchedulerProofs
DownloadFilesProofs EXTENDS DownloadRuntimeProofs
FrontEndProofs EXTENDS the six modules of MCFrontEnd
DecisionProofs EXTENDS DecisionCases
```

An MC module holds only the values of constants, and in MCFrontEnd the
composition of the six components; everything that is checked is defined in the
module it is about, so that the runs and the theorems name the same definition.
The six components of the front end have specifications of their own
(`WindowSpec`, `RecoverySpec`, `PrivateSpec`, `ViewSpec`, `ShellSpec`, `SyncSpec`)
over disjoint variables. `Filtering` defines what erasing from a vector leaves,
by a recursive function on the index.

**DownloadScheduler** is `DownloadTransferScheduler`. `pending`, `active`,
`plan`, `outcome`, `paused` and `cancelled` are its fields. A pump is one call
in the code but it calls its owner between its steps, so it is a sequence of
actions: `PumpBegin`; `AdmitDrop`, `AdmitDefer`, `AdmitReject`, `AdmitStart`
for one turn each of the admission loop; `AdmitEnd`; `Transfer` or
`TransferNothing` for each active download; `TransferEnd`; `Settle` for each
callback; `PumpEnd`. `stage`, `scans` and `turn` are the program counter and the
loop variables. The owner's calls require `stage = "idle"`. `cancelled` only
grows: the code never takes an id out of `cancelled_`.

**DownloadPlan** has no state: `MakePlan` is the loop of `make_plan` in closed
form (the first `total % n` segments are one byte longer), `ApplyCheckpoint`
is `apply_download_checkpoint`. **DownloadAdmission** puts plans to use:
any legal progress, and admissions against resources that change; it compares
the closed form with a recursive function that walks the loop's cursor.

**DownloadRuntime** is `AdvancedDownloadRuntimeService`, with the scheduler
instantiated on its own variables, so that every action of the runtime is
either an action of the scheduler or a stutter of it. Its callbacks are split at
every write to the disk: `Report` (a checkpoint) and `ReportRunning` (the queue file),
`BeginVerify`, `CheckSize`, `Scan`, `Recheck`, `CommitRemove`, `CommitRename`,
`Forget`, `Conclude`; `job` is the callback's program counter and its locals
(the digest and the decision). `Crash` can fall between any two steps and is
followed by `RestoreOne` / `RestoreFails` for each line of `queue.tsv`, and
`BootDone`. Files are sequences of bytes, a byte being `<<source, version,
position>>`, `Hole` or `Junk`, so that "the right bytes" can be said. `Replies`
is what the HTTP client makes of each kind of answer: how many bytes reach the
writer, whether the range counts as complete and whether it may be retried.

| Answer kind | The server or network does | Client reports |
|---|---|---|
| `range` | 206 with the bytes asked for | complete |
| `rangecut` | 206, interrupted | incomplete, retryable or not |
| `short` | 206 with fewer bytes than asked for | complete |
| `whole` | 200 with the whole resource | incomplete, not retryable |
| `wholecut` | 200, interrupted | incomplete, retryable or not |
| `error` | an error status with a body, perhaps interrupted | incomplete, retryable if interrupted |
| `down` | no answer | incomplete, retryable or not |

| Fault kind | What fails |
|---|---|
| `prepare` | creating or opening a staged file |
| `write` | writing the bytes of an answer, of a range or of a whole resource, which ends the request for good |
| `save` | saving `queue.tsv` or a checkpoint (the code ignores it) |
| `erase` | erasing a checkpoint (ignored as well) |
| `read` | reading the staged file for a digest |
| `remove`, `rename` | the two steps of `commit()`, and discarding staged files |
| `tamper` | another program rewrites the staged file during the scan |

**ReleaseGate** is the promise: a file appears under a final name only with
exactly the bytes for which a decision to release is in force, and a decision
releases at most once. `GateSpec` states that the runtime implements it, under
the refinement mapping `released <- final[f].bytes`, `cleared <- Cleared`
(the digest of the job while its decision is "allow" and its rename is ahead).

**ExtensionLedger** makes an operator from a ledger to a ledger of every method
of the class, so that both modules that hold a ledger use the same ones.
**LedgerStorage** is one profile's ledger and its three files; a save is
`SaveWrite`, `SaveInspect`, `SaveBackup` or `SaveRemove`, `SaveRename`, each with
its failing twin, and `Crash` falls between any two. A save that cannot find or
read the primary (`SaveInspectFails`) takes it for one not worth keeping; when it
was good, `misreads` counts it, as `damages` and `setbacks` count the other ways to
lose a snapshot. A load may fail to read either file as well. **ExtensionRuntime** has the
authority's sessions and tokens and the broker's tracked processes over the
ledger. Instances in `Brokered` are reached through the broker only, those in
`Direct` through the authority, which can suspend them too. A launch ends well,
is refused, rolled back or ambiguous; `Exit` is a process dying by itself.
`endedAt`, a token's `lease` and `used` record what the properties compare.

**PermissionBroker**: `Receive`, `Evaluate`, `Decide`, `Cancel`, `CloseContext` are
the public calls. Page, authorities and time are arguments, not state, as in
the code, so every call may find them changed. `granted` records what the
engine was allowed and under which arguments.

**PrivateSession** keeps `held`, what the engine's context holds by the class of
data, apart from `present`, the flags of the manager, as the code does.
`Clearings` is what one call to the engine may report, for CEF and for an
engine that keeps the interface's promise; `Wipes` chains three of them.

**BrowserWindow** has the window's order, active tab and selection beside the
manager's record of the tabs by id. **SessionRecovery** is the coordinator over a
store that may fail and that others write. **CefView** has every browser of one
view through creation and closing, `pending` requests and the `mail` between
client and renderer; `Reply` is the renderer, `Deliver` the client's handler.
**BrowserShell** divides one turn of the main loop into the events of the window,
of the engine and the check of the address; `dialog` is a modal question under
which only the window's timers and moves go on: the engine runs again when the
loop does, after the dialog. **SyncExchange** is a paged fetch
from a server that is honest or not and whose records change, and what may be
submitted.

**MediaActions, WardveilDecision, ExtensionPackage, BrowserHealth** are stateless:
operators translated from the functions, each beside a definition of what it
should be. **DecisionCases** has one input of one of them per initial state,
`case`, and states what is required of each.

## 3. Runs

| Run | Instance | What it shows |
|---|---|---|
| `scheduler` | 3 ids, 2 slots, 1 retry; a fresh plan, a restored one, a restored full one | no interleaving of owner calls and pump steps puts a download in two places, exceeds the slots, revives a cancelled id, credits too much, reports an incomplete plan or moves a paused one; pumping alone serves what waits |
| `runtime_core` | 2 downloads, one private and scheduled, 1 slot, file faults (save and erase excepted) | records, `queue.tsv`, scheduler and released files agree between pumps; the runtime drives the scheduler only as it allows |
| `runtime_crash` | 1 download, 2 segments, 2 versions, 2 deaths, servers with and without ranges | a released file is one whole version; a checkpoint never credits bytes the staged file lacks; it comes to a final state |
| `runtime_pair` | 2 downloads, 2 deaths, the second possibly during the restoration after the first | no unsettled download disappears from `queue.tsv`; no checkpoint outlives its use |
| `runtime_faults_crash` | 1 download of 2 bytes, at once or scheduled, every fault, error pages, whole and short answers, 1 death | the gate holds; a completed download owns its file; the record agrees with the scheduler |
| `ledger_storage` | 3 leases offered (always, one hour, another profile's), 3 saves, 2 deaths, 1 damaged file, 1 setback of the clock, every failure, 1 good primary not read | some whole snapshot survives every step, a load takes the last or one older for each loss, a save is atomic |
| `extension_runtime` | 3 instances (2 of the broker), 3 kinds of lease, 1 handle, 2 tokens, clock to 2 | section 4's properties of tokens, leases and processes |
| `permission_broker` | 2 requests for up to 2 resources, a normal and a private context, 3 states of the authorities, times 0 to 2 | grants are fresh and consented, answers stand |
| `front_end` | six components, one at a time: 4 tabs; 2 windows to recover; 1 private session; 2 CEF browsers with 2 requests; 2 tabs with 2 media; 3 records in pages of 2 | each component's properties |
| `decisions` | every input within bounds of the pure functions, and plans up to 5 bytes | each function agrees with a definition of what it should be |
| `bug_restart`, `bug_backup` | smallest instances | two sentences of the repository the code does not keep (section 5) |

An invariant that holds of one state as a whole is one property of a run, a
conjunction of named parts: `SchedulerIsSound`, `RecordsAreSound`,
`FilesAreSound` and the properties of `front_end` and `decisions` name theirs
where they are defined. The type invariants of `ExtensionRuntime`,
`PermissionBroker` and `PrivateSession`, `CompletedIsResolved` and
`SurvivorReported` are proved (section 4) and not repeated in a run.

Bounds. Two ids are enough for every pairwise conflict (slot, destination, id
reuse) and a third makes queue order matter in the scheduler's run. Two bytes
in two segments make every segment boundary, hole and misplaced byte visible.
One retry distinguishes "may retry", "spent" and "spent before a restart". Two
versions suffice for mixing; two deaths allow one in the middle of recovering
from the other. Three saves turn a snapshot into backup and then out of it. Two
tokens share a lease or an instance; one handle is enough for its reuse after
its process is gone. Two requests, two resources and two contexts tell apart
every request, resource and page a call may mix up. Four tabs allow a close
before, at and behind the active one. Two CEF browsers are one closing beside
one being created. `MaxId`, `MaxVersion`, `MaxCrashes`, `MaxSaves`, `MaxDamages`,
`MaxSetbacks`, `MaxMisreads`, `MaxClock`, `MaxTime`, `MaxLeases`, `MaxLedger`, `MaxSessions`,
`MaxTokens`, `MaxTabs`, `MaxManaged`, `MaxCollected`, `MaxSplits`, `MaxBrowsers`,
`MaxRequests`, `MaxStored` and `MaxCheckpoints` bound what the code leaves open;
the other constants are the code's own parameters made small.

`front_end` composes six components that share no state in the code. A behaviour
is one of one of them, chosen by `part`, so that the run costs the sum and
not the product of their states. `decisions` has one input of one function per
initial state, `case`; only plans move.

Deadlock is checked except in those two, where a bounded component (no id left,
nothing to close) or an evaluated case really is at its end.

Fairness. The main loop pumps on every iteration, unconditionally, so `WF(Pump)`
is weak fairness of the disjunction of the pump's steps: once a pump is under way
nothing else of the process runs. `WF(Boot)` says that a constructor which
restores the queue runs to its end, and `WF(StartTimeReached)` that time
passes. Users, servers and deaths owe nothing. `WaitingIsServed` and
`EventuallySettles` except the cases the code really leaves open: a paused
transfer keeps its slot for ever, and a restarted one is dropped (section 5).
The other components owe nothing by themselves (each step is a call or an
answer from outside), so no liveness is claimed of them.

## 4. Proofs

The theorems hold for every value of the constants: any set of downloads, tabs,
leases or requests, any size and limit, any number of process deaths. Each names
its hypotheses on the constants, if it has any, in an `ASSUME`; the assumptions
of the modules (`SchedulerAssumption`, `RuntimeAssumption`, `NoneAssumption`,
`StorageAssumption`, `OffersAssumption`, `AdmissionAssumption`, `InputAssumption` and
the like) say that sizes and limits are positive, that inputs have their types
and that `None` and `Hole` are not among the values they stand beside. TLC
evaluates them in every run.

| Property of a run | Theorem | Module |
|---|---|---|
| SchedulerIsSound, PausedHoldsStill | SchedulerSound, PausedDownloadHoldsStill | DownloadSchedulerProofs |
| SchedulerSpec, GateSpec | RuntimeImplementsScheduler, RuntimePassesGate | DownloadRuntimeProofs |
| RecordsAgree | RecordsAlwaysAgree | DownloadRuntimeProofs |
| CompletedOwnsFile | CompletedAlwaysOwns | DownloadFilesProofs |
| RecordsAreSound (a) | RecordsSound | DownloadFilesProofs |
| NothingForgotten (b) | QueueForgetsNothing | DownloadFilesProofs |
| NoStrayCheckpoint (c) | NoCheckpointStrays | DownloadFilesProofs |
| CheckpointHonest (d) | CheckpointsAreHonest | DownloadFilesProofs |
| ReleasedIsWhole (e) | ReleasedFilesAreWhole | DownloadFilesProofs |
| FilesAreSound, SaveIsAtomic | FilesStaySound, SavesAreAtomic | LedgerStorageProofs |
| LiveTokenRuns, OnceIsOnce, RevocationBitesSoon, BrokerAgrees, TerminationIsFinal | Extension... | ExtensionRuntimeProofs |
| GrantsAreConsented, GrantIsFresh, FirstAnswerStands | Broker... | PermissionBrokerProofs |
| NothingOutlives, RetryRemains, ManagerNeverAhead | Private... | FrontEndProofs |
| RequestsAreAnswered, SyncIsSound, ShellIsCurrent, RecoveryIsSound | ViewAnswersRequests, SyncSound, ShellStaysCurrent, RecoveryStaysSound | FrontEndProofs |
| WindowIsSound, OnlyTheClosedGoes | WindowStaysSound, OnlyClosedTabGoes | FrontEndProofs |
| PlanPartitions, ResumeKeepsProgress | PlansPartition, ResumingKeepsProgress | DecisionProofs |
| MediaIsGuarded, FindingStands, SignatureIsOfOnePackage, ReadinessIsTheWorst | MediaStaysGuarded, FindingsStand, SignaturesAreOfOnePackage, ReadinessStaysTheWorst | DecisionProofs |
| PackageIsSound, DigestIsStandard | PackagesAreSound, DigestsAreStandard | DecisionProofs |

The hypotheses of the lettered ones are those of the run that checks the
property, or weaker; each excludes a divergence that section 5 describes:

* (a) no process death, and saving the queue works; every other fault and every answer;
* (b) saving the queue and staging files work; any number of process deaths;
* (c) as (b), erasing a checkpoint works, and no request is private;
* (d) as (c), and no answer is `short`;
* (e) as (c), no tampering, no answer is `short`, `error` or `wholecut`, and when
  writing may fail none is `whole`: cut or not fully written, the beginning of
  a whole resource is credited as the range.

None of these hypotheses can be dropped. With `Runtime_crash.cfg` (one segment
suffices) and the fault, answer, private request or process death put back that
one of them excludes, TLC finds a counterexample to the property within a minute
or two. The instances for (b) and for `prepare` in (c) have two downloads, the one
for `prepare` in (e) two and requests for the same
destination from two sources; the ones for private requests in (d)
and (e) two sources: the stray checkpoint of one download is then resumed by another. Each theorem
therefore says what these files promise and no less.

### The scheduler: DownloadSchedulerProofs

`SchedulerInvariant` is `Spec => []IInv`. `IInv` is the type invariant,
`KnownOnce`, `CancelledNeverActive`, `CreditMatches` and `FinishedIsFull`
together with two facts about the pump without which they are not inductive:
the transfer loop visits no paused download and no loop has a cursor outside
its stage (`TurnIsRunnable`), and no active download has an outcome before the
transfer loop runs (`NoOutcomeYet`). The argument goes action by action over lemmas about
the queue as a sequence of distinct ids (`AppendKeepsDistinct`,
`TailKeepsDistinct`, `WithoutKeepsDistinct`) and about segments
(`AdvancedIsWellFormed`, `PlanStaysWellFormed`). The slot bound
(`SlotsNeverExceeded`) is strengthened by the finiteness of `active`, over the
cardinality lemmas of the library. `PausedDownloadHoldsStill` needs that no paused
download is in `turn` during the transfer loop.

### The runtime: DownloadRuntimeProofs

The module begins with plans: for every size, limit and range support the
segments partition the resource (`PlanPartitionsResource`, by division with
remainder), and a plan restored from a checkpoint has the fresh ranges and
consistent credits (`RestoredPlanFits`).

Everything about the runtime rests on the inductive invariant `RInv`
(`RuntimeInvariant`). `TypeOK` alone is not inductive: a report needs a plan for
its id, a callback a record. `RInv` adds

* `SchedulerOK`: the scheduler's `IInv`, taken with INSTANCE from
  `DownloadSchedulerProofs` with every plan the runtime can make for `Plans`
  and `0..Total` for `Reports`; every plan is one of these (`AllPlans`); what
  is in `turn` holds a slot; what waits for its start time is paused;
* `Known`: the scheduler knows only ids that have a record;
* `JobOK`: where a callback is, what it has computed and what has been decided;
  from the second digest on the staged file has the digest of the scan;
* `BootOK`: nothing is left to restore once the process runs.

The scheduler's part is kept because every step is a step of the scheduler
(`StepDrivesScheduler`), so the scheduler's own proof applies
(`SchedulerStepKeeps`); the runtime's part is shown action by action
(`EnqueueKeeps`, `ControlKeeps`, `LoopKeeps`, `JobStepKeeps`, `BootKeeps`,
`CrashKeeps`, `WorldKeeps`). `RuntimeImplementsScheduler` is the refinement: the
runtime calls its scheduler only between pumps, with the plans and reports that
`DownloadScheduler` provides for, so the scheduler's theorems hold of the
scheduler inside the runtime. `RuntimePassesGate` is the other: a name gets
content only by a rename, with the digest for which a decision is in force,
which the rename consumes. Both hold with every fault and every answer.

`RecordsAlwaysAgree` adds `RecordsOK`, which says of each id separately and at
every step, not only between pumps, how record and scheduler stand
(`RecordOK`): within a completion callback the record is ahead of the scheduler,
which lets go of the download when the callback returns (`Leaves`); while a process
starts, what was read of queue.tsv has no record yet (`BootRecords`). `JobPlace` and
`OutcomeOK` tie a callback to the loop of the pump that makes it and to a
download that is in its slot and not paused.

### Files and process deaths: DownloadFilesProofs

Each property has the invariant it needs, in layers over `RInv` and `RecordsOK`:

* `OwnOK` and `ReleasedOK`: what a callback has renamed (`Renamed`) belongs to it
  until it is recorded. A second download of the same destination takes it
  over, which is why `CompletedOwnsFile` excepts a shared destination.
* `RestartOK`: queue.tsv is the queue whenever a constructor has returned
  (`StoreOK`), never holds a private record, and what is being restored is
  still in it or in the records (`BootKept`).
* `CheckpointOK`: the owner of a checkpoint is open, in the records of a
  running process, in queue.tsv while one starts, whatever lies between.
* `StagingOK`: a finished download is the only one to be verified
  (`VerifiedOK`), whoever is in use has a staged file (`StagedOK`), the
  checkpoint is the plan but while it is being saved (`FollowsOK`).
* `HonestOK`: what a plan or checkpoint credits was written, or the plan is full
  and the staged file, renamed away, was prepared again empty (`Stale`).
* `TruthOK`: what is credited of the version whose ETag a plan was made for is
  of this version (`Faithful`), or the server has sent another one whole; the
  digest of a verification is of one version. `TruthOK` was checked with TLC on
  `runtime_crash` first, with `error` answers TLC shows it false, and with it
  `ReleasedIsWhole`.

### Extensions

`ExtensionRuntimeProofs` (for every set of extensions, offers, places and handles,
and any life of a token) rests on `ExtensionInvariant`, whose conjuncts are
the types, `LiveTokenRuns`, `OnceIsOnce`, `BrokerAgrees` and two facts without
which they are not inductive: `LedgerOK`, that leases have distinct ids and that
`endedAt` is set exactly when a lease has stopped authorizing, and `TokensOK`,
that a token's lease is in the ledger, used up if it was for one use, had not
ended before the token was issued, and that no token was used after its own
life. Every operation of the ledger is a decay: it only takes authorization
away (`Decays`), which disposes of most steps at once. `RevocationBitesSoon`
follows from `TokensOK` by arithmetic, `TerminationIsFinal` from the invariant and
the step.

`LedgerStorageProofs` rests on `StorageInvariant`. Beside the types it says
(`RecentOK`) that the primary is the last snapshot that was completed and that
the backup is no older than the damages and setbacks account for, one more
being allowed only while a primary can be loaded and no save is about to take it
away; that every undamaged file can be loaded while the clock was not set back
(`FilesOK`); and that a save removes a primary only when it refused it, an
intact one therefore only after a setback (`SaveOK`). The step `discard` is a removal
of its own, of a primary that was not read: it needs no reason, and what it may
cost is already counted in `misreads`. `FilteredLies` says that filtering
keeps a ledger well formed; its induction is by least counterexample.

`PermissionBrokerProofs` (for every set of ids, resources, contexts and states of
the authorities): `FirstAnswerStands` and the invariants `CompletedIsResolved`,
`GrantIsFresh` and `GrantsAreConsented`. The calls fall into those that add
resolutions and possibly grants (`Progress`) and those that do not (`Quiet`). The
cardinality in `GrantsAreConsented` is replaced, for induction, by two
implications, a grant has its consent and a consent its grant, and by a grant
being unique for its request and resource.

### The front end: FrontEndProofs

One section per component, each about the component's own specification:

* private browsing, any number of sessions, downloads and grants:
  `NothingOutlives` from `ChainClears`, what a success of the chain of clearings
  means for either engine (`PrivateInv`); the action properties
  `RetryRemains`, `ManagerNeverAhead` and `SurvivorReported`;
* the engine view, any bound on browsers and requests (`ViewInv`): requests are
  pending only while the client knows a browser that lives, and what was not
  asked was not answered;
* synchronization, any page size, number of pages and server (`SyncInv`):
  everything fetched lies at or before the cursor, and of an honest server what
  it had all along up to the cursor is fetched;
* the shell (`ShellInv`), any addresses and media: an answer is awaited only from
  the attached view (`AsksTheShown`), a dialog is about what was shown when it was
  clicked (`DialogIsOfClicked`);
* recovery (`RecoveryInv`): the store is a sequence of records, others' included,
  and after a clean end its newest is clean;
* a window and its tab manager (`WindowInv`): tabs are distinct, were opened in
  order (the i-th has an id of at least i, which bounds their number), one of
  them is active and no other has that state (`ShownOK`); groups and
  splits are of managed tabs, whether the window has them or not (`ManagerOK`).
  The second half is what makes "the strip draws what exists" inductive:
  window and manager close tabs separately.

### Decisions: DecisionProofs

`AdmissionInv`: a plan is cut as a fresh one of its resource and its credits lie
inside the segments; its checkpoint is one a plan had. Restoring from it gives
either a fresh plan or one with the saved credits, so `PlansPartition` and
`ResumingKeepsProgress` follow. That the closed form of a plan is what
`make_plan`'s cursor walks is an induction along the segments
(`InductionUpTo`, `CursorIsBegin`), and so is the evaluation loop of the browser's
health over its reports (`LoopRuns`, `LoopKnowsTheWorst`). The library's induction theorem
cannot be instantiated by the provers; `InductionUpTo` is about a set of numbers
instead of a predicate and is itself proved. `MediaIsGuarded` and `FindingStands` are
case analyses over any policy and answer; `SignaturesAreOfOnePackage` is about
sets of files of any size.

`PackagesAreSound` follows the scan of an archive entry by entry (`ScanIs`): while
it goes on, the paths seen are those of the entries so far, all of them
different, valid and naming a file, and the total is their sum and within the
limit (`ScannedIsSound`). A valid path that names a file leads where it says
(`ValidPathsLead`), so that different paths lead to different places. For text,
`CharacterIsRfc` compares the arithmetic of `valid_extension_utf8` with the
table of RFC 3629, width by width, and `Utf8IsRfc` shows that the two recursions
along the bytes agree at every place.

`DigestsAreStandard` has a closed form for what the hash knows after m bytes
(`ReadSoFar`: the whole blocks, and the bytes of the last one). One update by c
bytes leads to that of m + c bytes (`UpdatedIs`), so that a file read in chunks of
any size is read as a whole (`FileIsRead`); the padding then fits into one block
(`LastOfOne`) or takes two (`FirstOfTwo`, `SecondOfTwo`).

The inputs of these theorems are any that `InputAssumption` allows: it says of
which type they are (a length is a natural number, a text a sequence of
bytes) and nothing else.

### Only model-checked

* `NothingResurrected` and `RestartedRuns`, which do not hold (section 5).
* Liveness: `WaitingIsServed`, `EventuallySettles`. Liveness under fairness and
  `ENABLED` are outside what the prover does.
* That the runs' bounded instances reach the interesting states, which the
  theorems say nothing about.


## 5. Where the code and its documents disagree

Two runs check a sentence of the repository and find it violated:

* `bug_restart`: `cancel()` leaves its mark in `cancelled_`, so the download
  that `restart()` queues again is dropped by the next pump and is shown as
  queued for ever.
* `bug_backup`: the backup still holds a lease that was revoked, and saved as
  revoked, afterwards; a load that falls back to it authorizes the lease again.

Met while modelling, without a run of their own.

Downloads:

* The body of an error answer is written and counted before its status is
  looked at (`curl_http_download_client.cpp:203`); a long enough error page
  becomes file content. A `200` answer cut short after it covered the bytes of
  a segment is credited like a range (line 198), and so is one that the writer
  did not write to its end (`http_download_transport.hpp:94-104`).
* After a death between the rename and the last save a download is marked
  failed although its file is released (`advanced_download_runtime.hpp:304`).
* A second download of the same name replaces the file of a completed one
  (`download_file_store.hpp:105`).
* The checkpoint of a private download is written with its source URL
  (`advanced_download_runtime.hpp:56`), while `SPECIFICATIONS.md:538` says the
  private source is not persisted for recovery; after a death it stays, and a
  later private download given the same id resumes from it.
* A staged file that cannot be reopened during restoration makes
  `mark_failed()` save the records restored so far (line 346); a second death
  before the end loses the others.

For these reasons `error` and `wholecut` are not among the answers of
`runtime_crash` and `write` not among its faults, `prepare` not among the faults of `runtime_pair`, private
requests appear in `runtime_core` only, the two downloads of a run have different
names, and `FailedNeverReleased` is checked without process death.
`CompletedOwnsFile` excepts a shared destination. `CheckpointHonest` fails with
`short` only: the other answers write what they have counted.

Extensions:

* A launch receipt that names the handle of a registered process is refused
  by terminating that handle, that is the registered process
  (`extension_process_broker.hpp:248-254`); an ambiguous launch leaves a process
  nobody tracks (line 150).
* A lease with a tab id, or with a website twice, is accepted by the ledger and
  makes every later save fail, so that revocations no longer reach the disk
  (`extension_permission_ledger_storage.hpp:331`).
* A lease until its website closes whose scope is wide authorizes on other
  sites (`extension_permission_ledger.hpp:204`).
* After the clock was set back a save removes a primary it refused to read
  (`..._storage.hpp:746,761`). `SnapshotSurvives` and `SaveIsAtomic` except this.
* A save that fails to read the primary, however good, removes it as well (lines
  745, 762), and replaces one it fails to find (line 741). A death or a failed
  rename before the new snapshot is in its place leaves the older backup, or
  nothing. `SnapshotSurvives` and `LoadIsRecent` count it as a loss,
  `SaveIsAtomic` excepts the step.
* An archive with the entries `manifest` and `manifest/x`, or `a` and `a/b`, is
  loaded, though no directory can hold both (`native_extension_package.hpp:376`
  refuses equal paths only). `LoadedIsSound` says nothing of it; the run has
  such an input.

Windows, sessions and sync:

* Closing a tab before the active one moves activity to the tab behind the
  removed one (`window_controller.hpp:62`); `OnlyTheClosedGoes` and
  its theorem speak of tabs behind the active one only. The window calls a tab suspended that the manager refused to
  put to sleep, and waking one by activating it leaves the manager's flag.
  `close_tabs` of the manager leaves the window a tab it cannot close.
* Discarding the snapshot of a clean end makes an older one, of a session
  that ran, the newest, and it is offered (`session_recovery.hpp`);
  `CleanEndIsQuiet` excepts it. `read_recent(1)` never falls back to an older,
  valid snapshot.
* A tombstone is made of an id alone, and nobody asks what tab it was of
  (`sync_submission.hpp:88-112`): that of a private tab's id may leave, while
  `BROWSER_SYNC_PHASE_0.md:576` demands that private tabs never enter an
  envelope. `SentIsAllowed` therefore forbids the content of a private tab and
  not its id. Only the smoke test calls `MakeSyncTombstone` so far.

Private browsing:

* Under CEF, clearing all data reports success having cleared the HTTP cache
  only, and clearing permissions always fails (`src/cef_runtime.cpp:171-187`),
  so `close_and_forget` never succeeds. `ManagerNeverAhead` is therefore about an
  engine that keeps its promise; the other properties hold of both.
* Windows keep a reference to a destroyed context; closing a session through
  its window leaves a context nothing can destroy; a download's record goes
  although its file could not be deleted.

Views, shell and media:

* A view that is attached while its browser is still being created makes a
  second one; detaching then closes nothing; a navigation before the creation
  is lost; a new title publishes the old address over a new one.
* A navigation and its undoing within one turn of the loop are not noticed; a
  new tab with the address of the current one leaves the old view attached; a
  failed attachment leaves the former surface; panels do not detach, so that
  probing goes on. A page that navigates after its address was announced keeps
  its old popover until the next probe. Nested dialogs may hide the popover; the
  copy made in `gtk_linux_runner.hpp:137` is what `ActsOnClicked` rests on.
* The callback of a preview keeps a reference to the target of a request that
  belongs to the handler (`gtk_linux_runner.hpp:69-80`).
* `search` with a local destination passes the executor without a question
  (the runner asks); a protected target saved to a synchronized destination
  reaches the backend's store.

## 6. Not modelled

* The download panel and its policies: a view over the runtime that delegates
  every action, and policy objects no running code calls.
* The Android application: a Kotlin front end around the platform's own web view.
* Settings, home, search, vault and bookmarks: descriptions and containers
  without control of their own. BrowserShell takes of the omnibox whether an
  input becomes an address, a search or nothing.
* Of the downloads: `progress_`, speed samples; the `completed_` and `failed_`
  histories nothing reads; a death inside a user operation (a failed save or
  erase and a death after the operation leave the same disk), or in the middle of
  the body of an answer, and a block that a failing write leaves half written:
  bytes in the staged file that nobody credits; a change of the
  staged bytes between the second digest and the rename, which the code cannot
  notice; resources whose size changes with the version, and servers without
  ETags. `queue.tsv` is restored in any order.
* Of tabs and windows: pinning, muting, duplicating, moving and reloading. Of
  private browsing: locking, attaching windows, forgetting a single tab or site.
  Of the window host: geometry, drawing, context menus and start-up of CEF.
* Cryptography (SHA-256's compression, signatures), the bytes of the file
  formats and the wording of reasons: only what a check tells apart is kept. The
  limit of 64 MiB on the file of a package (`native_extension_package.hpp:268`) is
  left out, which makes the model accept more.

## 7. Further work

1. With a failing `save` the queue lags behind the records, and (a) to (e) fail
   as they stand; which weaker property remains then is not stated.
2. `BrowserShell` over `CefView`, so that an answer of the renderer is what the
   coordinator accepts, and `DownloadRuntime` behind `MediaActions`.
