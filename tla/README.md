# Verification of BedrockGDKCamaraPatch

MCFIX corrects uneven mouse turning in Minecraft for Windows.  An installer
replaces one runtime DLL of the game's package by a forwarding proxy, the proxy
loads a patch DLL, the patch hooks three functions of the game and spreads each
turn that arrives in a lump over the next few camera calls.  A watchdog brings
the installation back after an update of the game.

This directory holds TLA+ models of that code, TLC configurations that check
them on small instances, and proofs for all instances.  Everything is
translated from the C++ under `camera_patch/`; paths below are relative to
`camera_patch/src/` unless they start otherwise.  `PROJECT.json` gives for every
definition the lines it stands for.

Parse with `tlasany M.tla`, check with `tlc -config X.cfg M`, prove with
`tlapm M.tla`.

## 1. The system

| Component | State | Operations | Talks to |
|---|---|---|---|
| Installation plan, `installer/direct_plan.cpp` | none | `make_direct_install_plan` | called by the transaction |
| Direct transaction, `installer/direct_transaction.cpp` | four files of the package directory, temporaries, `proxy_committed` | `install_direct_patch`, `uninstall_direct_patch`, `inspect_direct_patch` | the files only; nothing locks them |
| Runtime contract, hashes | none | `inspect_runtime_contract`, `sha256_file` | read by plan, transaction, watchdog |
| Shipping installer, `installer/shipping_installer.cpp`, `patcher_main.cpp` | durable files under ProgramData, manifest | install, repair, uninstall, status, verify | directory guard, transaction, watchdog task |
| Directory access guard, `installer/directory_access.cpp` | owner and access list of the package directory, the captured descriptor | `acquire`, `restore`, destructor | around each transaction |
| Watchdog, `installer/watchdog_app.cpp`, `watchdog.cpp`, `watchdog_task.cpp` | mutex, WMI subscription, heartbeat events, scheduled task | observe a process, check the installation, run a repair | starts `Patcher.exe repair` |
| Bootstrap proxy, `bootstrap/*.cpp` | real runtime module, heartbeat event | forward exports, start the patch | loaded by the game; loads the patch DLL |
| Patch start-up, `patch_dll.cpp`, `hook_targets.cpp`, `signature.cpp`, `target_policy.cpp` | MinHook targets, hook lifetime, writer thread | `initialize_patch` and its rollback | MinHook, writer |
| Hook callbacks, `patch_dll.cpp`, `hook_callbacks.cpp` | per-thread classifier and distributor | three detours | classifier, distributor, ring |
| Cadence classifier, `cadence_classifier.cpp` | last call, last turn, mean camera interval, count, armed | `observe` | hook |
| Turn distributor, `turn_distributor.cpp` | eight pending portions, mean interval, object | `distribute` | hook |
| Telemetry ring, `include/mcfix/telemetry.hpp` | slots, flag, two indices, count, drop counter | `push`, `drain` | hooks push, writer drains |
| Capture session, `telemetry_writer.cpp`, `capture_limit.cpp` | writer state, limiter, CSV | writer loop | ring |
| Probe runner and package probe, `installer/probe_*.cpp`, `package_*.cpp`, `bootstrap/probe_host.cpp` | a child process and its pipe | diagnostic commands | none of the above |
| MinHook, `third_party/minhook` | hook table, frozen threads | vendored | used by start-up |

The hard behaviour is in six places.

*Failure and kills in the transaction.* It is a sequence of file copies and
atomic replacements, each of which can fail, with a rollback that can fail too,
and a power loss or a kill between any two.  The single irreplaceable thing is
the stock runtime: if every copy is overwritten the game does not start and
nothing here can bring it back.  The Store replaces files in between.

*Two patchers.* The watchdog repairs silently in the background, the user types
commands, and no lock is taken.

*Threads and the ring.* The game's threads push from inside hooked functions and
must not wait; the writer drains; the ring overflows and wraps.

*Time series.* Classifier and distributor are small, but what they do depends on
the whole history of calls, their spacing, objects, pauses, and on rounding.

*Start and capture.* Hooks go into a game whose threads already run what is
being hooked, and come out again when a later step of the start fails.  A
capture is switched on by one thread, recorded by others and ended by the
writer, each looking at the switches at its own time.

*The watchdog.* It follows processes whose identifiers are given again, waits
for children that may outlive its patience, and is stopped and started by the
very commands it starts.  Most of its failures are taken for health.

What makes each component correct is stated with the properties in section 3;
every hazard found on the way is in `PROJECT.json` with the property that
answers it, or the reason none does.

## 2. The modules

### DirectPlan, DirectTransaction

`DirectPlan` is `make_direct_install_plan` as a function of the fourteen facts.
`DirectTransaction` extends it with state.  A file is the *build* it holds: a
stock runtime (`Originals`), a proxy of ours (`Proxies`), anything else
(`Foreign`), or `Absent`; hashes compare builds, and the PE inspection tells the
three kinds apart.  A temporary may also hold `Torn`, a copy cut short.  Each
patcher has a place `pc`, a `job` with its payloads and plan, its temporaries
`staged`, and `committed`, the code's `proxy_committed`.

| Action | Code |
|---|---|
| `BeginInstall`, `BeginUninstall` | inspection, plan and early returns, 120-143, 203-237 |
| `StageManaged`, `StageProxy`, `StageCamera` | `copy_verified` into a temporary, 146-168 |
| `CommitManaged`, `CommitCamera`, `CommitProxy` | `MoveFileExW`, 170-179 |
| `Verify`, `Cleanup`, `RollbackCopy`, `RollbackReplace` | post-commit check, `catch` block, 181-199 |
| `RestoreCopy`, `RestoreReplace`, `RemoveCamera`, `RemoveManaged` | uninstallation, 224-246 |
| `Exit`, `Crash` | the process ends, or is killed at any step |
| `StoreService`, `StoreRedeploy`, `Tamper` | outside: updates in place or into a new directory, other programs |

`genuine` is a history variable: the stock build last delivered here.
`RuntimeVault` is the abstract promise: one live runtime, one vault, six moves.

Surroundings act only while no patcher runs (`Quiet`).  The Store does not
service a package while it is being written with the game closed by the patcher's
check; that assumption is ours and the models do not cover its failure.

### TelemetryRing, LossyQueue

One action per access to shared state that another thread could tell apart:
`TakeSequence` is the `fetch_add` before the flag, `TryPush` and `TryDrain` the
`test_and_set`, `DropNewest` the early return, `MakeRoom`, `StoreEvent`,
`CommitEvent`, `UnlockPush` the critical section of `push`; `ReadOldest`,
`LeaveEmpty`, `AdvanceOldest`, `ReleaseDrain`, `Consume` that of `drain`.  Memory is
sequentially consistent: the flag's acquire and release order everything it
guards, and the two counters are only read after the fact.  `LossyQueue` is the
abstract promise: a bounded queue that may lose the newest or the oldest event
and counts every loss.

### TurnInput, TurnDistributor, CadenceClassifier, TurnHook, CadenceHistory

`TurnDistributor` and `CadenceClassifier` have one action per way out of
`distribute` and `observe`; `TurnHook` is the body of `turn_delta_hook` that
combines them, `CadenceHistory` the classifier alone with what its callers did.
Time is kept as ticks passed.  A turn is an integer number of indivisible units;
a portion is the nearest integer to its share, so that the residual takes either
sign, as the rounding of floats does.  The two components of a turn take the
same path and one stands for both.  The running means are doubles in the code
and multiples of 1/Scale tick here.

`CadenceHistory` keeps three histories of the calls: `steady`, every call was a
turn and none came within a millisecond of the last (calls in one tick may);
`slow`, no two came within 9 ms; `batches`, how many turns in a row came 12 to
35 ms apart.  The millisecond in `steady` is needed: see section 5.

### DirectoryAccess, Deployment

`DirectoryAccess` is `DirectoryAccessGuard`: a descriptor is an owner and
whether write access is granted; `acquire` is three calls that can each fail,
the third after ownership was taken, and `restore` one.  `Deployment` extends
`DirectTransaction` and instantiates the guard; its actions are the two commands
around the transaction, with the transaction's own actions inside
`TransactionStep`, so every interleaving with failures and kills of both is a
behaviour.

| Action | Code (`installer/shipping_installer.cpp`) |
|---|---|
| `StartInstall`, `StartUninstall` | payload check, first inspection, early returns, security template, 226-256, 289-302 |
| `Acquire`, `RestoreAccess`, `Unwind` | the guard, and its destructor when an exception leaves its scope |
| `BeginTransaction`, `TransactionStep`, `TransactionDone` | `install_direct_patch`, `uninstall_direct_patch` under the guard |
| `Secure` | `apply_runtime_security`, 183-197 |
| `StageFiles` | `stage_durable_files`, one `copy_atomic_verified` per file, 97-129 |
| `EnsureTask`, `WriteState` | `ensure_watchdog_task`, `write_state` |
| `RemoveTask`, `RemoveFiles`, `RemovePatcher` | the unchecked removals, 309-323 |
| `ExitCommand`, `CrashCommand` | the process ends, or is killed at any step |
| `ServicePackage`, `RedeployPackage`, `Reboot` | outside: updates, and the deletion the system was asked for |

A command runs from a release's folder or from the durable folder.  The latter
is how the watchdog repairs, so the watchdog's effect on the files is in this
model; when it decides to is `Watchdog`'s subject.  `found` and `settled` are history
variables: the directory's security when the command started, and what the last
command to get under way reported.

### PatchStartup

`initialize_patch` step by step, each of which may fail, beside the writer,
which reports when it can, and the game's threads, which enter and leave detours
all the time.  A hook is its trampoline (`created`) and its jump (`enabled`).
MinHook is that interface with its failures, read in its sources
(`third_party/minhook/src/hook.c`): putting jumps in or taking them out suspends
the game's threads and unprotects pages, may fail at any hook, and leaves the rest
as they were; a hook whose jump stays keeps its trampoline, and MinHook stays as
long as a jump does.  `remove_created_hooks` looks at no outcome, so each of its
steps does what it can whatever became of the others; `targets` are the hooks it
has still to visit.

`patch-status.json` outlives its session.  `earlier` is a file some other session
left: it may say anything, names the process it is about, and stays when this
session cannot write its own.

| Action | Code |
|---|---|
| `Attach`, `Identify` | `DllMain`, identity, `.text`, scan: `patch_dll.cpp:170-183`, 253-262, `hook_targets.cpp:7-36` |
| `Initialize`, `CreateHook`, `EnableHooks` | `MH_Initialize`, three `MH_CreateHook`, the batch, 185-226 |
| `StartWriter`, `AwaitWriter`, `CheckWriter` | the writer's thread, 200 looks at its state, the last one, 228-242 |
| `WriterReports` | `telemetry_writer.cpp:112-130` |
| `DisableHooks`, `RemoveHook`, `Uninitialize` | `remove_created_hooks`, 144-156 |
| `ReportStatus` | `write_patch_status`, `telemetry_writer.cpp:66-105`; nobody looks whether it succeeded |
| `EnterDetour`, `CallOriginal` | a thread at a jump, and at the end of a detour, 45-99 |

### CaptureLimiter, CaptureSession

`CaptureLimiter` is `CaptureLimiter::observe`, as what it leaves and what it
answers.  `CaptureSession` composes it with the detours' recording side and the
writer's loop.  The ring is the queue `TelemetryRing` was shown to implement;
that its push and drain give up when it is busy is `DropEvent` and a `DrainEnd`
with events left.  An event is its time and whether it is a motion.

| Action | Code |
|---|---|
| `EnterHook`, `CheckEnabled`, `CheckStarted` | the detours up to the push, `patch_dll.cpp:45-99`, `hook_callbacks.cpp:22-53` |
| `PushEvent`, `DropEvent` | the push of what was asked for, then for a turn of what is handed on |
| `OpenArtifact` | `telemetry_writer.cpp:112-133` |
| `DrainEvent`, `DrainEnd` | the drain with the limiter in its callback, 138-156 |
| `WriteBatch`, `FailWrite`, `Overdue` | the batch written or failing, the end, the ten minutes, 158-176 |

`seen` is a history variable: what was drained from the first motion on, as far
as the event that is too much.

### Watchdog

The watchdog's processes, the children they start, the commands a user types,
the task, the game and its identifiers.  A transaction is one step that fails
while the game runs (the game has the files open); what it does inside is the
subject of the modules above.  `active` is the watchdog the Task Scheduler knows;
one that was stopped is `dying` and holds the mutex until it is gone.

| Action | Code (`installer/`) |
|---|---|
| `CheckMutex`, `Scan`, `Subscribe`, `NextEvent`, `LoseEvents` | `wWinMain`, `watchdog_app.cpp:112-189` |
| `Heartbeat`, `AwaitExit` | `wait_for_heartbeat`, `observe_process`, 83-110; `NoHandle` is `OpenProcess` failing, with or without a process |
| `StartVerify`, `EndVerify` | `install_is_healthy`, 59-81 |
| `StartRepair`, `EndRepair` | `run_silent_repair`, 42-57; after 60 seconds the child goes on alone |
| `StartTask`, `Logon`, `Die` | the task and its triggers, `watchdog_task.cpp:117-184` |
| `TypeCommand`, `Verify` | `patcher_main.cpp:224-247`, `shipping_installer.cpp:201-224` |
| `InspectInstall`, `Transact`, `StageFiles`, `Register`, `RunTask` | `shipping_install`, 226-283, and `register_and_start_watchdog_task`, `watchdog_task.cpp:84-224` |
| `InspectUninstall`, `Restore`, `Unregister`, `RemoveFiles` | `shipping_uninstall`, 289-328, and `stop_and_remove_watchdog_task`, `watchdog_task.cpp:231-254` |
| `Beat` | the event the proxy sets, `../bootstrap/runtime_proxy.cpp:12-53` |
| `Launch`, `Quit`, `Reuse`, `Update` | outside: processes, their identifiers, the Store |

Two history variables carry what is promised.  `due` is set when a game without
the patch is seen by a watchdog, in its first look or by an event; it is cleared
by the repair, and where the code itself gives up:

* no `Patcher.exe`, a child that cannot be started, a verification that does not
  answer in time (`StartVerify`, `EndVerify`, `StartRepair`);
* a game that cannot be opened, another user's say, which the system announces
  all the same: it is not waited for, its repair comes while it runs and is refused
  (`NoHandle`);
* an event whose identifier cannot be read, unless others wait behind it
  (`NextEvent`);
* a repair that fails with no game running (`Refuse`);
* a subscription that fails or breaks, and a game launched while no watchdog
  listens (`Subscribe`, `LoseEvents`, `Launch`);
* a stop of the watchdog by a command, and an uninstallation (`Stop`, `Restore`).

`uninstall` says whether an uninstallation ran with no repair beside it and
removed all it was to remove.
Which of several idle watchdogs or children is used makes no difference, so it
is always the first (`FreeWatcher`, `FreeJob`).

The model also holds these facts, which no property is about: a game that
starts between the first look and the subscription (`watchdog_app.cpp:122-154`) is
announced to nobody; the heartbeat is given before the patch is loaded
(`runtime_proxy.cpp:31`), so a patch that cannot be loaded passes for health; a
watchdog started while the stopped one still has its mutex leaves at once
(`watchdog_task.cpp:212-216`), and none runs until the next logon.

### Proof modules

`DirectTransactionProofs` (with what is proved of `RuntimeVault`),
`DeploymentProofs`, `TelemetryRingProofs`, `TurnHookProofs`,
`CadenceHistoryProofs`, `PatchStartupProofs`, `CaptureSessionProofs`,
`WatchdogProofs`.  Each extends the module it is about; section 4 says what they
show.

## 3. The runs

| Run | Module, config | States | What it shows |
|---|---|---|---|
| `direct_transaction` | `DirectTransaction`, `DirectTransaction.cfg` | 17 222 | With other programs deleting and overwriting files between commands: the delivered runtime is kept, no step of the patcher leaves a proxy without its target, what is reported is true; `IInv` is checked as it stands |
| `overlap` (violation) | `DirectTransaction`, `DirectTransactionOverlap.cfg` | | An uninstallation started beside an installation loses the stock runtime |
| `stale_legacy` (violation) | `DirectTransaction`, `DirectTransactionStale.cfg` | | A legacy original older than the live runtime is preserved in its place |
| `deployment` | `MCDeployment`, `Deployment.cfg` | 5 798 648 | Commands of two releases and repairs from the durable files, over two stock builds: the directory is left as found, a patched game can be restored, an updated one repaired, the durable proxy outlives the live one, and the files implement `RuntimeVault` with the delivered build live or behind every proxy |
| `deployment_reboot` (violation) | `MCDeployment`, `DeploymentReboot.cfg` | | Uninstallation by the durable `Patcher.exe`, installation, restart: the watchdog has nothing to repair with |
| `deployment_security` (violation) | `MCDeployment`, `DeploymentSecurity.cfg` | | An installation repeated after a late failure skips what was missed and reports success |
| `telemetry_ring` | `TelemetryRing`, `TelemetryRing.cfg` | 85 480 | Exclusion, every event accounted for once, the ring a bounded lossy queue, every push returns, every stored event leaves |
| `turn_hook` | `MCTurnHook`, `TurnHook.cfg` | 712 682 | No turn is lost, invented, kept for more than seven calls or reversed; nothing is held before the classifier is armed |
| `cadence` | `CadenceHistory`, `CadenceHistory.cfg` | 2 697 170 | Nothing less than five batched turns in a row arms the classifier; a slow camera never does, nor a smooth mouse that turns at least a millisecond apart |
| `patch_startup` | `PatchStartup`, `PatchStartup.cfg` | 12 160 | With a failure at any step and of any removal: all three hooks, or nothing, or what MinHook would not take out, never a jump without its trampoline; a status file that is true of this session; and a trampoline is taken from under a thread only when the start is given up after the hooks were enabled |
| `capture_session` | `CaptureSession`, `CaptureSession.cfg` | 605 068 | The file holds exactly the capture, whatever was lost on the way; nobody joins the recording once it is switched off; every capture ends |
| `watchdog` | `Watchdog`, `Watchdog.cfg` | 695 634 | A game announced without the patch is followed up until it is repaired, or a call the code gives up on fails; an uninstallation without a repair beside it is not undone; no watchdog waits for ever |

Each property is stated and explained where it is defined, and `PROJECT.json`
names for each a mutant, an operator marked *Mutant* in the module, that breaks
it: a plausible mistake in the code the property would catch.

Deadlock is checked in every run but `patch_startup`, where a start that was given
up leaves nothing to do.

### Bounds, and why they are enough

*Files.* Two stock builds (one is not enough to see a stale original), two
proxies and two camera builds (an upgrade), one foreign file.  One patcher at a
time in the passing runs: with two, `OriginalKept` is false, which is what
`overlap` shows.  No cap on the number of commands, failures, kills or updates:
the state is finite.

*Commands.* Two stock builds, so that the Store can deliver another between any
two commands; two releases, so that the live proxy, the durable one and the one
a command brings can all differ; one camera build, since the transaction's own
run has two.  Again no cap on commands, failures, kills, updates or restarts.
One command at a time, because two transactions at once are already wrong
(`overlap`).

*Ring.* Capacity 2 wraps and overflows with three events; five events make it
overflow more than once with two producers in flight.  The proofs cover every
capacity, any finite set of producers and any number of events.

*Turns.* A 400 Hz counter in `turn_hook` and one of 1200 Hz in `cadence` put every
comparison of the code (horizon, 9, 12 and 35 ms, a quarter second) on both
sides of some gap; the means take all values they converge through.  In
`turn_hook` a turn is spread over 2, 3, 4 or 8 slots, or passed as it is, and is 91
units: their residuals are -1, +1, -1 and +3, so that both signs are put to
`NoReversal` and `TurnConserved`, and eight slots make the seven calls of
`DrainedInSeven` tight.  Objects are only compared with each other, hence the
symmetry; no liveness is checked there.  Ages past the last comparison are one age.
At 1200 Hz one tick is less than a millisecond, five are a fast camera, fourteen
a slow one or a batch, and three times fourteen is still a batch.  The proofs
cover every gap.

*Start-up.* Two threads, so that one can be in a detour while another is stranded
or already back.  The three hooks are the code's.  The proofs cover any number of
threads.

*Capture.* Two threads, of which one can have read the switches when the other
starts or the writer ends the capture.  A ring of one slot loses the oldest
event at every second push.  A clock of two readings and a capture that lasts
one tick have events at, before and after both of its ends; three events make
the number the limit as well; differences wrap at `Word`, which is 4 for 2^64.
`MaxEvents` and `Duration` are the code's 200 000 and 90 seconds, `LastTick` is
where the model's clock stops.

*Watchdog.* One process identifier, so that every identifier is given again;
two watchdogs, one of which may be dying or waiting for the mutex while the
other works; two children, one of which may have been left behind, besides the
user's command.  `MaxEvents`, one waiting event: a game is not launched while
the queue is full.  `WatchdogProofs` covers any number of each.

### Fairness

*The ring.* `LiveSpec` assumes that a thread inside `push` is
scheduled, which the operating system sees to, and nothing of the writer, so
`PushReturns` holds with a writer stopped for good inside its critical section.
`EventLeaves` assumes in addition, in its own antecedent, that the writer calls
`drain` again and again, as its loop does (`telemetry_writer.cpp:134-176`).
Weak fairness is enough for `EventLeaves` because a drain that finds the flag
taken returns and tries again, and pushes are finitely many in the run.

*The capture.* `LiveSpec` has weak fairness of the writer's steps and of the ten
minutes: threads are scheduled and time passes.  The hooked functions are called
for as long as the game runs, hence weak fairness of the detours.  Strong
fairness of `DrainEvent` and of a push that finds the ring free says that nobody
is unlucky for ever: both the drain and a push give up on a busy ring and try
again with the next call.  Without it a capture need not end, since each attempt
may meet the other side in its critical section.  `CaptureEnds` excuses one thing
the code does: rows that could not be written end the writer and leave the
recording switched on (`telemetry_writer.cpp:158-161`).

*The watchdog.* `LiveSpec` has weak fairness of each watchdog's steps, of each
command's, and of `Quit`: a program the user started ends some day.  Nothing is
assumed of the user, the Store or the task.  `DueIsSettled` has games no longer
being started in its antecedent: somebody who keeps the game running can keep
every repair from it.

## 4. What is proved

Every theorem holds for all values of the constants allowed by the modules'
assumptions: any builds, any number of patchers and producers, any capacity, any
frequency, gaps and deltas.  Beyond the typing assumptions
(`KindsDisjoint`: no build is both a stock one and a proxy; `TurnsManyUnits`: a
turn has at least 64 units, so that no portion rounds to less than the residual)
one theorem asks for a counter of at least 25 kHz (below), and
three flags appear as hypotheses where a result needs them: `OneAtATime`,
patchers do not overlap; `~StaleLegacy`, the Store does not service a directory
in place while it keeps an earlier tool's legacy original; `~Tampering`, nobody
else touches the files.  The first two are exactly what the runs `overlap` and
`stale_legacy` show to be needed.

*Transaction.* `TypeCorrect` needs no flag: whoever overlaps, every file is a
whole build.  All else follows from `Safe`, the inductive invariant `IInv`.  What
a step does depends on a plan made steps earlier and on temporaries copied
since, so the properties are not inductive: `IInv` adds `GenuineInv`, which says
which file holds the delivered build in each combination of the four, and for a
patcher under way `PlanInv` (the files still bear out its plan), `StagedInv` (each
temporary is what was copied) and `SourceInv` (what each place may rely on).  From it
come `DeliveredKept`, `InstallKept`, `UninstallKept`, `ProxyHasTarget` and, with
`StepMoves` listing what a step may do to the two runtimes, `Refinement`: the
transaction implements `RuntimeVault`, whose own theorem `VaultRecoverable`
then gives `DeliveredBehindProxy`.

*Commands.* `CommandsTransact` shows that the commands implement
`DirectTransaction!Spec`, so the theorems above hold of them; `DeployTyped` is the
first use.  `DirectoryLeftAsFound` rests on `AccessInv`: what the guard has done to
the directory at each step of the one command that holds it.  `StoreInv` relates
the live runtime to the durable proxy at each step, and carries
`CommandsReversible` and `DurableProxyOutlives`; `RepairInv` adds what has been staged
so far, and `InstallationRepairable` follows by going through the plan.

*Ring.* `MutualExclusion` and `TypeCorrect` from one invariant; `EveryEventAccounted`
counts numbers given out against those delivered, stored, dropped and under way;
`RingPlaced`, `EventsDistinct` and `RingRefinesQueue` from `RingInv`, which describes
the contents between the two indices across wrapping and during a push that has
stored but not yet counted its event.

*Start-up.* All of it follows from `StartInv`.  The promises speak of the end, or
of threads, and each step relies on those before: `Place` says what stands where
`initialize_patch` is, `StatusTrue` that the status is written last and of what it
finds, and `Detours` that before the start is given up late every thread in a detour
has its trampoline.  `AllOrNothing` and `StatusTrue` are proved of a removal any
step of which may fail.  What they do not claim is that nothing is left then: a
jump MinHook cannot take out stays, with its trampoline and MinHook (`OnlyOut`, `Kept`),
and only after a failure that came once the batch had been begun.

*Watchdog.* `Remembered` and `UninstallationSticks` follow from `WatchInv`.  That
what is owed is being seen to depends on where the game is: `Followed` says that
a game that runs is the one the watchdog looks at, or the last in its queue, so
that a later end of it leads to a verification; it needs `OneGame`, and `Builds`
for the heartbeat, since a game that gives it was started with the patch and so
nothing is owed.  `Answered` says that a child with nothing more to do has settled
what was owed or left a later game in the queue, `Fits` and `Kinds` that a
watchdog waits for its own child, `Alone` that the mutex lets one through.
`Uninstalled` is the same for the uninstallation: no repair beside it, and none
can start, for the files are gone and the package is not patched.

*Capture.* The limiter sees one event at a time and keeps three numbers; what a
capture is, `Recorded`, speaks of all events at once, and rows are in two places
while a batch waits.  `LimiterInv` ties them: the numbers are those of `seen`, no
event of it but the last was one too many, and the rows, written or not, are
those events or all but the last.  `OffInv` says that only the writer's last
step switches the recording off, after it wrote what it had.  From the two
follow `ExactlyCaptured`, `OffWhenComplete` and, what a reader of the file relies
on, `FileWellCut`; `OffStaysOff` needs only that nothing switches it on again.

*Cadence.* `FiveArm` needs that the count is never ahead of the row of turns
(`RowInv`), and for that that without a turn in memory there is no count.
`SlowCameraLeftAlone` needs that the mean of slow intervals is slow, through its
rounding, so that no batch is coarse on it.  `SmoothMouseLeftAlone` is a race
between two recurrences: for a smooth mouse a batch is also an interval of the
camera, so each batch takes the mean up while it has to stay two and a half
times below the batch and below 9 ms.  `SmoothInv` says how high the mean is
after so many batches in a row (0.74, 2.38, 3.77, 5.06, 6.82 ms); a fifth would
take it past 9 ms.  The numbers leave room for the model's rounding of the mean,
down to a step of 1/Scale tick, when the counter has at least 25 000 ticks a
second, the hypothesis: performance counters run at a megahertz and more, and the
code's doubles round far less.  The run `cadence` checks the same at 1200 Hz.

*Turns.* `Conserved` and `NeverReversed` rest on `PortionsTotal`: eight rounded
portions and the residual add up to the turn, and with 64 units or more the
residual never outweighs the portion it is added to.  `Drained` strengthens to
`EmptiesFromTheBack`, `NothingHeldUnarmed` uses that zeros through an empty queue
stay zeros.

### Only model-checked

Liveness (`PushReturns`, `EventLeaves`, `CaptureEnds`, `DueIsSettled`), which this
prover cannot do.  The runs that expect a violation are, of course, only runs.

## 5. Disagreements with the documentation

The first four are runs that expect a violation, and entries of `PROJECT.json`.

* `overlap`: nothing keeps two patchers apart
  (`installer/direct_transaction.cpp:241`).  The trace: a first installation has
  preserved the stock runtime, committed the managed original and the camera
  patch, and stands before its proxy.  An uninstallation starts, finds the stock
  runtime still live, so has nothing to restore, and removes the camera patch.  The
  installation commits its proxy over the live runtime.  The uninstallation
  removes the managed original, the only stock runtime left, and reports success.
  A repair by the watchdog runs the same code.  `README.md:40` promises that
  uninstalling restores the original runtime.
* `stale_legacy`: with a legacy original present and no managed one, the live
  runtime is never looked at (`installer/direct_plan.cpp:63`), though
  `README.md:136-139` says the installer validates and preserves it.
* `deployment_reboot`: the deletion of `Patcher.exe` at the next start
  (`installer/shipping_installer.cpp:317`) is not withdrawn by an installation in
  between, and the watchdog takes a missing `Patcher.exe` for health
  (`installer/watchdog_app.cpp:61`); `README.md:38` promises repairs.
* `deployment_security`: file security is applied only when the plan has
  operations (`installer/shipping_installer.cpp:250`), so an installation repeated
  after a late failure leaves it as it is; `README.md:142-143` promises it restored.

* A smooth mouse that is armed: `README.md:124-126` says that "already-smooth
  per-camera input" remains pass-through, and
  `camera_patch/tests/test_core.cpp:440-447` that input with every camera call
  "must remain untouched".  Two calls 0.1 ms apart followed by frames of 12, 12,
  12, 16 and 22 ms, a turn with each, arm the classifier: the first interval after
  a pause is taken as the mean as it stands (`cadence_classifier.cpp:33`), and at
  0.1, 1.9, 3.4, 4.7, 6.4 and 8.7 ms the mean stays behind the frames
  (`cadence_classifier.cpp:42-46`).  Nothing is lost by it, since an armed
  distributor conserves every turn, but it is spread.  No run shows this one;
  `SmoothNeverArms` says what does hold.
* Not against any line of the documentation, but worth knowing: when MinHook cannot
  take the hooks out again (`patch_dll.cpp:144-156`), the status file says
  `"active": false` while the detours go on and the turn distributor with them.
  `StatusTrue` says this openly (`Kept`).

## 6. Not modelled

* PE parsing, hashing, the byte search of the signature scan, package-name
  comparison, JSON and CSV text, command lines: pure functions or output,
  abstracted to what they answer.
* MinHook's patching, trampolines and disassembler: vendored.  What its calls leave,
  failures included, is in `PatchStartup`.
* The probe runner and the package discovery: diagnostics that change no state
  of the installation.  Of `package_probe.cpp` the test for a running game is in
  `Watchdog`; elevation and the probe commands of `patcher_main.cpp` are left out.
* `watchdog.cpp`, the older loop behind `Patcher.exe watch`: it repairs in its own
  process and no task starts it.
* `loader_args`, `loader_safety`, `pe_image`: only tests use them.

## 7. Plan

Done: the transaction, the commands around it and the directory guard, the ring,
the turn hook and the classifier's histories, the start-up, the capture and the
watchdog, with their types and every safety property the runs check proved.

1. `Watchdog` composed with `Deployment`, each transaction in its steps: what the
   files can come to when a repair outlives its 60 seconds and a second one is
   started beside it.  `overlap` shows what two transactions can do; the
   composition would show by which ways the programs get there.
2. `watchdog.cpp`, should a task ever start it again.
