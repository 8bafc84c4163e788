# Thesis-Communication in TLA+

The repository is a library by which applications and a resource controller on one machine find each other and exchange
data through System V shared memory, semaphores and control groups. Applications link `AppRegisterClient`; the controller
derives a class from `Policy::Policy` of `AppRegisterServer` and calls its `run(cycle)` again and again. Nothing in the
library runs in a thread of its own: all concurrency is between processes, and any of them may die at any moment.

## 1. Inventory

| Component (under `src/libs`) | State | Operations | Model |
|---|---|---|---|
| Client registration (`AppRegisterClient/src/AppRegister.cc`) | where the calling process is; the pid it believes the controller has; its `app_data` segment and semaphore | `registerAttach`, `registerDetach`, `getControllerPid`; `setTickStartTime`, `addTick`, `autosleep`; accessors of the knobs | registration in `AppRegister`, ticks and `autosleep` in `Ticks`; the accessors are not modelled |
| `app_register` and its semaphore (`AppRegisterServer/src/AppRegister.cc`, `AppRegisterCommon`) | `new_apps`, `n_new`, `detached_apps`, `n_detached`; value and undo counts of the semaphore | `registerCreate/Destroy`, `registerSemaphoreCreate/Destroy`, `binarySemaphoreWait/Post` | `Semaphore`, `AppRegister`, `Registry` |
| `Policy` (`Policy.cc`) | `registeredApps`, `freeCores` | constructor, destructor, `deregisterDeadApps`, `deregisterDetachedApps`, `registerNewApps`, `lock`, `unlock`, `getWindowThroughput` | `AppRegister`; the throughput in `Ticks` |
| `App` (`App.cc`) | descriptor, attached `app_data`, `currentCores`, sliding window of ticks | constructor, destructor; `lock`, `unlock`, `readTicks`, `getWindowTicks` | constructor and destructor in `AppRegister`; the rest in `Ticks` |
| `AppData` (`AppData.cc`) | the fields of `app_data` both sides write without a lock | `getCurrTicks`, accessors of the knobs | `Ticks`; the accessors are not modelled |
| `AppUtils` (`AppUtils.cc`) | none (reads `/proc` and `ps`) | `isAppRunning`, `getAppPids`, `killApp`; `UpdateCpuSet`, `UpdateCpuQuota` | `AppRegister`; the last two in `CGroupSettings` |
| `CGroupUtils` (`CGroupUtils.cc`) | the control groups and their values | `Setup`, `Initialize`, `Remove`, `Destroy`; `UpdateCpuSet`, `UpdateCpuQuota`, `UpdateCpuFreezer` | existence of groups in `CGroupUtils`, values in `CGroupSettings` |
| `Frequency` (`Frequency.cc`) | governor and frequencies of the CPUs, range and power gate of the GPU (in sysfs) | `SetCpuFreq`, `SetGpuFreq`, `getCurr*`, `getNext*`, `getMin*`, `getMax*` | `Frequency`, `CpuFrequency`, `GpuFrequency` |
| `Utilization` (`Utilization.cc`) | previous counters of each CPU | `computeUtilization` | `Utilization` |
| `Sensors` (`Sensors.cc`) | current readings, samples of each sensor | `readSensors`, `sampleSensors`, nine `getAvg...` | `Sensors` |
| `Utils` of the client, build files | none | - | not modelled: nothing to check |

**How they interact.** The controller creates a semaphore and an `app_register` segment whose System V keys are its pid. An
application looks the controller's pid up with `pgrep`, creates an `app_data` segment and a semaphore with its own pid as
key, takes the controller's semaphore, appends itself to `new_apps` and gives the semaphore back. `run()` (of the derived
class) takes the semaphore with `lock()`, lets the three helpers move entries from the lists into and out of the map
`registeredApps`, and calls `unlock()`. An `App` object in the map stands for one application: its constructor creates the
control group, its destructor kills the process, removes the segment and the group. Between registrations, the application
adds ticks to its `app_data` and the controller collects them with `readTicks`, both at any time. What the policy then does
with CPUs, quotas and frequencies goes through `CGroupUtils` and `Frequency`, and what it decides by comes from
`Utilization` and `Sensors`; these four share nothing with each other, nor with the registration but the names of the groups.

**What is hard.** Nobody looks at the result of `binarySemaphoreWait`; a process that exits or is killed inside the critical
section relies on `SEM_UNDO`; the shutdown removes the segment and the semaphore under the feet of waiting applications;
pids are reused; a zombie still "runs"; applications outlive the controller and detach from its successor; the shutdown and
the helpers trust the lists to be what they expect; ticks are collected while they are added, with no lock on either side;
settings fail halfway or are refused in silence; CPUs go off line under the reader of `/proc/stat`. `PROJECT.json` lists
every such hazard with its line.

**What makes it correct.** One process at a time in the register, whoever dies; no attachment lost, none twice; lists within
their arrays; every core in exactly one place; an App's group and segment exist as long as the App; nobody attached is
killed except by the shutdown; a shutdown leaves no register, semaphore or segment of an attached application behind;
waiters get on and the map follows the processes; in all, what applications and the derived class see is a registry whose
operations are atomic. Ticks are counted once and periods run forward; what the controller was told about settings is in
force; each CPU's load is its own; averages are over fresh samples.

## 2. Modules

| Module | What it is |
|---|---|
| `Semaphore` | a System V semaphore as a record of existence, value and undo counts, and the operators on it (`Taken`, `Given`, `Undone`, `SetToOne`, ...); no state |
| `CGroupUtils` | the operations that create and delete control groups, as sets of outcomes, because libcgroup may refuse any step, and deletions may fail unnoticed (`MayStay`); the names of groups are the pids they are made for |
| `AppRegister` | the protocol: extends `Semaphore`, instantiates `CGroupUtils`; the actions of applications, controller and environment, and the properties of the registration |
| `Registry` | abstract: what the library promises, as atomic steps |
| `RegistryRefinement` | the refinement mapping from `AppRegister` to `Registry` |
| `MCAppRegister` | values of constants for TLC |
| `Ticks` | the ticks, access by access; extends `Semaphore` for the semaphore of the `app_data` |
| `CGroupSettings` | the values of the control groups, and what the controller was told about them |
| `Frequency`, `CpuFrequency`, `GpuFrequency` | the tables and the next higher frequency; the two setters as chains of commands |
| `Utilization` | `/proc/stat` cut into pieces, matched with CPUs, and the loads computed from it |
| `Sensors` | readings, samples and averages |
| `Platform`, `MCPlatform` | the five parts above composed, and values of their constants |
| `SumTheorems` | lemmas about sums over finite sets, and the inductions they rest on |
| `AppRegister_proofs`, `AppRegisterLock_proofs`, `AppRegisterMap_proofs`, `RegistryRefinement_proofs`, `AppRegisterAttach_proofs`, `Ticks_proofs`, `Platform_proofs` | theorems and proofs (section 5) |

### Correspondence of `AppRegister` to the code

| Variable | Code |
|---|---|
| `proc`, `spawned` | the kernel's process table for the pids of applications; `spawned` bounds the reuse of a pid |
| `pc` | the place of the process in `registerAttach` / `registerDetach`; `"idle"`: not attached, `"attached"`: `registerAttach` has returned |
| `home` | `controllerPid`, the local of the call in progress (or of the call that attached) |
| `sem`, `reg` | per controller pid, the semaphore and the `app_register` |
| `dataSem`, `dataSeg` | the pids as whose key an application's semaphore or segment exists |
| `cgroups` | existing control groups |
| `killed` | running processes that were sent `SIGINT` by `killApp` (a process may handle it and go on) |
| `ctl`, `cpc`, `started` | the current controller and its place in `Policy`; each controller pid is used once |
| `loop` | the helper that runs, its index into a list, the keys its iterator has not reached |
| `registered`, `cores`, `freeCores` | `registeredApps`, `App::currentCores`, `freeCores` |

Each function is cut into steps at the calls through which other processes matter: `registerAttach` is `AttachCreate` (or
`AttachRefused`), `AttachSem` (`semget`), `AttachWait`, `AttachCheck` (`shmget`, `shmat` and the test of `n_new`),
`AttachWrite` and `AttachPost`. The test and the write inside the critical section are separate steps, although the lock is
held, because the callers go on when the wait fails: exclusion is a result here and not an assumption. `registerDetach` is
cut in the same way. The controller goes through `SemaphoreCreate`, `SemaphoreInit` (`SETALL`), `BootLock`,
`RegisterCreate`, `BootUnlock`, `SetupGroups`; then cycles `RunBegin`, one step per entry of a helper's loop and one for its
end, `RunEnd`; then `DestroyBegin`, `RegisterDestroy`, `DestroyUnlock`, `SemaphoreDestroy`, `GroupsDestroy`, `DropApp` for
each App in the map (the member is destroyed after the destructor's body), `DestroyEnd`. Creating or destroying one App is
part of the step that does it: its parts are calls of the kernel and of libcgroup that no other actor of the model observes
half done.

`exit(EXIT_FAILURE)` in an application is `Dies`: it becomes a zombie and the kernel applies its undo counts. In the
controller it is `ControllerEnds`. Crashes at any other place are `Crash` and `ControllerCrash`, enabled everywhere; the
latter also stands for the exits after a failed `UpdateCpuSet`, `Remove` or `Destroy`, which differ from a crash in the
message and in the groups that are gone by then. That a deletion fails without anybody noticing is part of `AppsDestroyed` and
`GroupsDestroy`: any of the groups in `MayStay` may be left.

**External.** `run()` is pure virtual in the repository. It is modelled as what its helpers and the pair `lock`/`unlock`
invite to: lock, the helpers in the order of the constant `RunOrder`, unlock. `AssignCore` is the derived class handing a
free core to an App. Processes start, die and are waited for as they please.

**Callers.** An application calls `registerDetach` once for each `registerAttach` that returned, and from the same process;
`DetachBegin` has the guard `"attached"` for this, which the code does not test. A second call would append the pid again and
then end the process, because its segment is detached already.

**Abstractions.** The descriptor an application writes is its pid. `pgrep` finds the controller exactly while its process
runs, also before its semaphore exists; a name that matches several processes is left out. `GrepHits` gives, for a pid, the
other processes whose line of `ps -e -T` contains its digits. The semaphore of the `app_data`, which no code takes, is only
tracked as existing. A controller pid is not reused, so that `IPC_EXCL` never meets a controller's leftovers.
`registerDestroy`'s loop with a non-empty list reads past the segment until the process is killed by the fault (or by the
growth of the vector): it is one step that ends the controller. `registeredApps[pid]` of an unknown pid reads a field of a
null object: likewise.

### The registry and its refinement

`Registry` knows five things: whether a controller serves, which pids some process has, the queue of attached applications,
the members, and who has announced to leave. Its properties `OnePlace` and `InOrder` are what a reader should expect of it, and
`RegistryRefinement` states them of the protocol as well. Its mapping: `RegistryOpen` is the existence of the running
controller's `app_register`; `Queue` is `new_apps` without the entries that the loop of `registerNewApps` has
processed; `Leaving` likewise of `detached_apps`; `Members` is `registeredApps`. So `Attach` happens at `AttachWrite`,
`Register` and `Deregister` at single turns of the helpers' loops, `Leave` at `DetachWrite`, `Open` and `Close` at the
creation and removal of the segment or at the controller's death; every other step is a stutter, as is the reset of a counter
after its loop - which is true only because nobody is inside the register meanwhile.

### Correspondence of `Ticks` to the code

| Variable | Code |
|---|---|
| `total`, `curr` | `from_start` and `curr_period` of the `app_data` |
| `app` | the client's call in progress, the accesses it has still to make, and its locals |
| `ctl` | `getCurrTicks` in progress: loads and stores still to make, and `curr_ticks` |
| `window` | `ticksSlidingWindow` |
| `dataSem` | the semaphore that `App::lock` and `App::unlock` post |
| `added`, `reported`, `taken`, `raced` | history: ticks added, how many of them by the last call, when, and which client calls have overlapped a `getCurrTicks` |

A step is one load or store of a field the other side uses too; `value += n` is two. No lock, fence or atomic orders the
accesses of a call, so the model lets it make them in any order its data dependencies allow. One store of a `long double` is
one step: a read that sees half of it is not modelled. Nor is a `usleep` that a signal ends early. `setTickStartTime` happens
before the first tick, as its comment says; called later it would move `curr_period.start` past ticks already counted.

### Correspondence of `Platform`'s parts to the code

- **`CGroupSettings`.** `groups` is what the kernel has, `said` what successful calls of the controller said they set. Each
  of the seven operations describes a group in libcgroup and lets the kernel write it at the end. Failures before the write
  return -1 and the caller exits (`Exit`); a write that the kernel refuses ends `Setup` and `Initialize` with -1 too, but is
  printed and forgotten by the three Update calls, which is what the history `refused` remembers. `Remove(p)` is what `~App`
  does to the groups: it deletes those of `p` and of every grep hit of `p` (`GrepHits`), and any deletion may fail unnoticed.
  `phase` is how far the controller's constructor is. What the kernel accepts (`Acceptable`) is external.
- **`CpuFrequency`, `GpuFrequency`.** One shell command of parts joined by `&&`: any may fail, the later ones are then not
  made, and the result says whether all were. CPUs may belong to one clock domain or several. That `scaling_setspeed` needs
  the governor "userspace" and that `min_freq` stays at or below `max_freq` is the kernel's doing (external). Initially the
  clock domains run at any frequencies of the table, the same or not. `Raise` is a policy that reads the frequency and asks
  for the next one: the use `getNextCpuFreq` is for.
- **`Utilization`.** `Pieces` is what `fgets` yields of `/proc/stat` with a buffer of 80: line by line, or a line in two
  pieces when it is too long. The cut is taken to fall after the counters that are read. `PieceAt` is the loop's position in
  the file when it comes to a CPU. User, nice and the parts of system time only ever enter as a sum, `busy`.
- **`Sensors`.** A reading is a value, -1 (no file) or noise (no number in it). The nine sensors are handled alike; an
  average is kept as sum and count, so that the model needs no fractions.
- **`Platform`** puts them side by side. They share no state and none calls another, so steps of different parts commute; a
  behaviour picks one `part` and moves only that, which keeps the state space a sum instead of a product.

## 3. Runs

Where groups are looked at, any of them may stay (`MayStay` is all of them): `registration`, `interrupted` and the
violations. In `restart`, whose properties do not read groups, only the controller's own may, and in `liveness` none: a
group that stays disables no step of the protocol and enables none (`Initialize` of a pid may fail in any case).

Deadlock is not checked: applications and the controller may stop for good, and the bounded counters of `Ticks` and
`Utilization` do stop.

| Run | Instance | What it shows |
|---|---|---|
| `registration` | 1 controller, order new-detached-dead, 2 pids with up to 2 processes each, 2 cores, lists of 2 | `TypeOK`; `NoLostAttach`; `NoDoubleRegistration` (an App is never overwritten, even when a pid is reused before the controller notices: the segment of the former process refuses the new one); `CoreConservation`; `RegisteredHaveGroup`; `RegisteredHaveData`; `DetachedAreRegistered`; `KillOnlyDetached`; `InOrder`: applications are registered in the order in which they attached |
| `restart` | 2 controllers in turn, order as declared in `Policy.h` (dead-detached-new), 2 pids, lists of 1 | `MutualExclusion`, its inductive invariant `LockInv`, `QueueBounded`, `RoomForWriters`, `CleanShutdown`, with applications that wait for, or write to, the register of a controller that is shutting down or dead; `ImplementsRegistry`: across the restart the protocol implements `Registry` |
| `interrupted` | 1 controller, lists of 2, waits may fail with `EINTR` | `LockNotLeaked` even when processes are inside without owning the semaphore |
| `liveness` | 1 controller, lists of 1, fair, deletions of groups succeed | `AttachedEventuallyRegistered`, `WaiterProceeds`, `GoneEventuallyDeregistered` |
| `ticks` | window of 2, 3 instants, 2 ticks, by one call or by two | `TypeOK`; what no race disturbs: `PeriodsOrdered` and `ThroughputNotNegative` hold whatever `addTick` overlaps; what holds unless calls overlap: `ConservedUnlessRaced`, `WindowCovers` with its inductive invariant `CoverInv`, `SleepPaced` |
| `platform` | 2 applications that grep hits only for themselves, 1 core and one that does not exist, quotas accepted and refused; 4 CPUs in 2 domains, readings off by 1 kHz; the real tables of frequencies; 3 CPUs of which 2 count and switch; 2 sensors | `TypeOK`, `InForceUnlessRefused`, `CpusTogether`, `RaiseNeverLowers`, `NextIsLeastAbove`, `OrderAccepted`, `PinnedOrFree`, `LoadOfEach`, `AverageOfRecent` |
| `interrupted_wait` | waits may fail with `EINTR` | violation of `MutualExclusion` |
| `unknown_detach` | 2 controllers | violation of `DetachedAreRegistered` |
| `destroy_loop` | 1 controller | violation of `RegisterDestroyReturns` |
| `grep_pids` | `GrepHits` of one pid contain the other | violation of `RegisteredHaveGroup` |
| `lost_ticks` | 2 ticks, one at a time | violation of `TicksConserved` |
| `overshoot` | as `ticks` | violation of `NoOvershoot` |

**Bounds.** In `AppRegister`, `MaxSpawns` is the only bound of the model itself; the lists are bounded by `MaxApps`, a
parameter of the code. Two pids give a holder and a waiter, or an application and its grep neighbour; with two processes per
pid a third process meets what the first left behind. Lists of length one make the "full" exits happen with two
applications, lists of length two make the helpers' loops iterate. Two controllers give a predecessor, whose register is
still in use, and a successor. In `Ticks`, `MaxTime` and `MaxTicks` bound clock and ticks; a window of two drops its oldest
period at the third `readTicks`, and two ticks give one that is collected and one that races, or one call that reports both.
In `Utilization`, `MaxTicks` stops the counters; three CPUs give a first that never leaves, a middle and a last that do, and
`LongAt` is low enough that lines outgrow the buffer. In `Sensors`, `MaxSamples` bounds what the code lets grow without
bound; two sensors are one that is averaged and one that is not. The proofs of section 5 remove the bounds for every
invariant and every action property that the passing runs check, and for the refinement; liveness alone rests on the bounded
instance.

**The violations** are disagreements of the code with what its comments say; `PROJECT.json` quotes them:

1. *Interrupted waits.* A signal handler of the application (or of the controller, which must handle signals to run its
   destructor) makes a blocked `semop` fail with `EINTR`; the caller proceeds into the critical section.
2. *Detach from a stranger.* `deregisterDetachedApps` dereferences `registeredApps[pid]` without a test. With one controller
   and the order new-detached-dead every detached pid is in the map (run `registration`); with a restarted controller it is
   not. The order of declaration fails even with one controller: an application that attaches and detaches between two
   cycles, or that detaches and is reaped before the next, is met before it is registered or after it was erased. Of the six
   orders only new-detached-dead avoids this.
3. *`registerDestroy`.* The loop condition is the counter itself.
4. *`getAppPids`* matches digits anywhere in the line, so that killing 123 removes the control group of 1234.
5. *Lost ticks.* `getCurrTicks` resets the period it has copied, and `addTick` adds to it in three unlocked accesses: ticks
   in between are dropped, or come back after they were counted.
6. *Overshoot.* `autosleep` waits for one period per call, however many ticks the last `addTick` reported: with several the
   application is faster than the reference throughput, which its comment says it does not overshoot. `SleepPaced` is what
   remains true: an application that reports single ticks is held back until one period after each.

Further disagreements with comments and headers, which have no run of their own:

- `registerDetach` detaches the segment but does not delete it, as the comment above that line says
  (`AppRegisterClient/src/AppRegister.cc:124`); the controller's App does, later (`DetachData`, `AppsDestroyed`).
- A write that the kernel refuses is reported as a success by the three Update calls; `CGroupUtils.h:38-47` documents -1 for
  a failure. `refused` remembers these, and `InForceUnlessRefused` takes them out.
- A deletion that fails is reported as a success by `Remove` and `Destroy`; `CGroupUtils.h:30-36` documents -1. So a shutdown
  may leave groups behind: no property claims otherwise.
- CPUs from number 10 on are reported idle, although `Utilization.h:13` says "Compute utilization across all cores"; and when
  CPUs 1 to 9 are all off line the line of `cpu10` is taken for that of CPU 1 (`TenthStays` excludes it). Once the first line of
  `/proc/stat` outgrows the buffer all CPUs are. `LoadOfEach` is about the first ten, as long as the lines fit.

Other things the models show or contain, of which we found no document that promises the contrary:

- New-detached-dead, the only order that never meets an unknown detached pid with one controller, is not safe either once a
  controller has been restarted: an application attached to the former controller announces itself to its successor, then
  attaches to it, and the same `run()` registers it and after that takes the old announcement for a new one and kills it.
  With detached processed before new this cannot happen (section 5, `DetachedFirst`). So neither order is free of trouble.
- `App::lock` posts the semaphore, as `unlock` does; the semaphore counts up to its maximum and excludes nobody.
- `autosleep` returns early when a racing `getCurrTicks` has written an older end of the period; `getWindowTicks` of an empty
  window reads elements that are not there.
- A frequency that cannot be read ends the controller by an uncaught exception.
- `registered` of the `app_data` is never set by the library.

**Fairness** (`Fairness` in `AppRegister`, the only one: `Ticks` and the parts of `Platform` have nothing that waits for
another process). The steps of a process inside the library are weakly fair: the scheduler runs it. Returning from a wait is
strongly fair, because the kernel queues waiters and wakes them in turn, so a waiter is not passed over forever while the
semaphore opens again and again. `RunBegin` and `BootLock` are waits of the controller; strong fairness of `RunBegin` also
says that the controller keeps calling `run()`, which is what a controller is. Nothing obliges an application to attach,
detach, die or be reaped, nor the controller to be started, stopped or crashed. `WaiterProceeds` has one exception, and shows
that it is the only one: a controller that died between `semget` and `SETALL` (`DiedUnopened`) leaves a semaphore nobody ever
opens, and whoever waits for it waits for good.

## 4. Properties worth a remark

- `MutualExclusion` counts a process as inside from its return from the wait, successful or not; only the check step of an
  application that finds no segment is harmless and not counted. `~Policy` removes the segment before the semaphore, which is
  what makes waiters that `IPC_RMID` wakes find no segment.
- `NoLostAttach` and `NoDoubleRegistration` speak of the entries of `new_apps` beyond the loop's index while
  `registerNewApps` runs, and of all entries otherwise.
- `KillOnlyDetached` is about `~App` after a detachment: the process it kills has left the critical section of
  `registerDetach`, or has not called the library since. That such a process, which keeps running after a polite detachment,
  is sent `SIGINT` at all is what the code does.
- `PeriodsOrdered` needs no lock: the controller stores the end of its copy as the new start, whatever the application
  stores meanwhile is later, and no access can come between a value and what depends on it.
- `WindowCovers` leaves open on which side of a shared timestamp a tick is counted: periods end where the next begin, at the
  time of the last tick.
- `LoadOfEach` compares with the history `seen`, the counters when `computeUtilization` last met the CPU on line; the code's
  `prev` must agree with it although the loop that finds the lines skips those of absent CPUs.
- `OrderAccepted` quantifies over what any earlier chain that stopped halfway has left.

## 5. Proofs

What the theorems of the registration assume, beyond the assumptions on the constants in `AppRegister`:

- `Uninterrupted` is `~Interruptible`: no wait fails with `EINTR`.
- `ExactMatches`: `GrepHits[p]` has no element but `p`; `CGroupSettings` has one of the same name and meaning.
- `FiniteProcs`: there are finitely many processes.
- `InGoodOrder` is `DetachedFirst \/ (Alone /\ DetachedLater)`. `DetachedFirst`: `RunOrder` has `deregisterDetachedApps` before
  `registerNewApps`, as `Policy.h` declares them. `Alone`: there is one controller. `DetachedLater`: `RunOrder` has
  `registerNewApps` before `deregisterDetachedApps` and that before `deregisterDeadApps`, the order of the run `registration`.

Everything holds for every set of applications, controllers and cores, every `MaxApps`, and, unless said otherwise, every
`RunOrder`, `GrepHits` and `MayStay`.

| Theorem | Formula | Assumes |
|---|---|---|
| `TypeCorrect` (`AppRegister_proofs`) | `[]TypeOK` | - |
| `LockInvariant`, `Exclusion`, `Bounded`, `Room` (`AppRegisterLock_proofs`) | `[]LockInv`, `[]MutualExclusion`, `[]QueueBounded`, `[]RoomForWriters` | `Uninterrupted` |
| `NotLeaked` (`AppRegisterLock_proofs`) | `[]LockNotLeaked` | `FiniteProcs` |
| `RegisteredOnce`, `DataStays` (`AppRegisterMap_proofs`) | `[]NoDoubleRegistration`, `[]RegisteredHaveData` | - |
| `CoresConserved` (`AppRegisterMap_proofs`) | `[]CoreConservation` | - |
| `GroupsStay` (`AppRegisterMap_proofs`) | `[]RegisteredHaveGroup` | `ExactMatches` |
| `Implements`, `RegisteredInOrder` (`RegistryRefinement_proofs`) | `ImplementsRegistry`, `InOrder` | `Uninterrupted` |
| `OneOfEach` (`RegistryRefinement_proofs`) | `[]OnePlace` | - |
| `AttachNotLost`, `KillsOnlyDetached`, `ShutdownClean` (`AppRegisterAttach_proofs`) | `[]NoLostAttach`, `KillOnlyDetached`, `[]CleanShutdown` | `Uninterrupted`, `InGoodOrder` |
| `DetachedFound` (`AppRegisterAttach_proofs`) | `[]DetachedAreRegistered` | `Uninterrupted`, `Alone`, `DetachedLater` |
| `TypeCorrect`, `Conserved`, `Ordered`, `Divisible` (`Ticks_proofs`) | `[]TypeOK`, `[]ConservedUnlessRaced`, `[]PeriodsOrdered`, `[]ThroughputNotNegative` | `TicksAssumption` |
| `Counted`, `Covered`, `Paced` (`Ticks_proofs`) | `[]CoverInv`, `[]WindowCovers`, `SleepPaced` | `TicksAssumption` |
| `PlatformTypes`, `AllCpusTogether`, `NextFound`, `GpuWritesAccepted` (`Platform_proofs`) | `[]TypeOK`, `[]CpusTogether`, `[]NextIsLeastAbove`, `[]OrderAccepted` | `PlatformAssumption` |
| `SettingsInForce` (`Platform_proofs`) | `[]InForceUnlessRefused` | `PlatformAssumption`, `ExactMatches` |
| `GpuPinned`, `LoadsReported`, `AveragesRecent` (`Platform_proofs`) | `PinnedOrFree`, `LoadOfEach`, `AverageOfRecent` | `PlatformAssumption` |
| `RaisesOnly` (`Platform_proofs`) | `RaiseNeverLowers` | `PlatformAssumption`; no reading is lower than what was set by more than 51000 kHz, the smallest gap of the table |

*The lock.* Exclusion is not inductive: the semaphore must carry the information who is inside. An opened semaphore is in one
of two states, open with all undo counts 0, or closed with exactly one process whose count is 1 (`SemaphoreState`); the owner
is inside (`OwnersLocked`) and whoever is inside is the owner, except an application that was woken by `IPC_RMID` and has not
yet looked for the segment (`LockedOwn`). For that exception to be harmless, a register must have a semaphore
(`RegisterHasSemaphore`) and a process past the check must see one (`WritersSeeRegister`), which follows from the order of
the destructor (`ControllerState`). `BootState` says that nobody has taken part in the semaphore of a controller that has not
created it yet, so that `SETALL`, which clears the undo counts, clears none that matter. The lemmas `TakenOwner`,
`GivenFree` and `UndoneOwner` are about the semaphore alone: who owns it after a wait, a post and a death. With interrupted
waits exclusion is false, as the run `interrupted_wait` shows.

*The lock and interrupted waits.* That a death never leaves the register locked must not rest on exclusion, because it is to
hold when signal handlers let processes in that own nothing, and posts of theirs that nobody took. `LeakInv` counts instead:
the value of a semaphore and all undo counts together are its `Units`, and `SETALL` gave one. A wait moves a unit from the
value to a count, a post moves one back or makes one more, a death moves counts to the value; none loses one (`UnitKept`). So
when the value is 0 somebody is owed a unit, and whoever is owed one is inside (`UndosLocked`), on its way to the post that
returns it. Only `SETALL` could take units away; nobody has posted before it, since a process that finds no segment exits
(`NoneServed`, `OpenedState`).

*The lists.* `QueueBounded` and `RoomForWriters` together are inductive given `LockInv`. The bound alone is not: a write needs
the room its process found earlier, and that room is still there because nobody else is inside (`OneWriter`) and the
controller only empties lists (`QueueController`).

*The map.* `MapInv` does not use the lock, so it survives interrupted waits. What keeps a pid from being twice in the map and
`new_apps` is `shmget` with `IPC_EXCL`: the segment of an application that waits or is registered exists, nobody with its pid
gets past the creation of that segment, and only `~App` removes it. `CoresInv` adds that the cores of distinct Apps are
disjoint and that an App gives back its cores on each way out of the map.

*The refinement.* Every step is shown to be one action of `Registry` or a stutter. Most are `Quiet`: they touch nothing the
mapping reads, or only a register that is not the running controller's. `AttachWrite` is an `Attach` because of `RoomForWriters`
(there is room), `MapInv` (the pid is nowhere yet) and `LockInv` (the helpers are not between their loop and the reset of the
counter). A register that belongs to no running controller may still be written to; `ClosedInv` keeps the queue closed then.
`InOrder` is then a consequence of three shapes of step: the queue grows at its end, loses its head to the map, or ends with
its controller. `OnePlace` needs neither the refinement nor the lock, only `MapInv`.

*Attachments and kills.* `NoLostAttach` looks like a statement about one list, but a pid reaches `~App` only through
`detached_apps`, so what must be excluded is an old announcement meeting a new attachment. `AttachInv` says that no member
on its way in, or attached, has an announcement waiting (`NoneLeaving`); that whoever is inside belongs to the controller
that serves (`HomeNow`); that an attached application is known to it (`AttachedKnown`); and that a list which a helper has
emptied in a cycle stays empty to the end of the cycle (`ListsEmptied`) - the last is where the order of the helpers and the
lock come in. With `DetachedFirst` this is inductive. With one controller, `AloneInv` adds why an announcement is then never
older than the application it names: who leaves is in the map or in `new_apps` (`LeavingKnown`), has announced itself once
(`LeftOnce`), and no member has while it is on its way in (`NotYetLeaving`). So when `deregisterDetachedApps` runs after
`registerNewApps` has emptied its list, every pid it meets is in the map: `DetachedFound`. With new applications first and
two controllers the theorems are false, by the scenario of section 3; of the remaining orders, which meet unknown pids,
nothing is claimed. `KillOnlyDetached` follows, and so does `CleanShutdown`: an application attached to a controller that
has run its destructor was a member when the destructor began (`ShutdownInv`), and `DropApp` has met it. It says nothing of
control groups, which may stay.

*The ticks.* `CallsInv` says what the calls in progress have still to do. `Accounting` says where the ticks are meanwhile: in
the period, in the copy, in the total, or in the application's register. `PeriodsInv` orders the timestamps of the window, the
copy and the period through every order of loads and stores; it rests on `TimesInv`, that no timestamp is later than the start
of the application's call in progress. `addTick` may race as it likes, which is what makes `Ordered` more than an account of
sequential code.

*What a window covers.* The sum of a window's values is not an account of its ticks step by step: a period enters at one end
and leaves at the other. `CoverInv` therefore counts from the start of each period to now: the values of that period and of
all later ones, with the current period and the ticks on their way into it (`TicksSince`). `addTick` adds to all these sums at
once, a collection moves ticks within them, and dropping the oldest period drops its sum. `GapInv` says that the window ends
where the current period begins. `Covered` subtracts two sums; `Paced` needs only that the last tick is the end of the period
that `autosleep` read (`EndInv`).

*The platform.* `PlatformInv` is a conjunction of one invariant per part, because the parts share no state; a step of one
leaves the others alone. `SettingsInv` and `CpuInv` are inductive with the types; the part of `SettingsInv`
that is not about types depends on `ExactMatches`, because `~App` may otherwise delete the group of another application (as the
run `grep_pids` shows). `Gpu!TypeOK` includes that the range is never
reversed, from which each of the three writes is accepted wherever a chain before has stopped. `LoadInv` says that the code's
`prev` is never ahead of the counters and is what was last seen on line while the lines fit the buffer; the step needs where
the loop stands in `/proc/stat` when it comes to a CPU, which is the number of lines of lower CPUs on line. `PowerInv` says that
the samples kept of a sensor are those taken since its last average, unless one failed; the average lies between the least and
the greatest by `SumBounds`.

*Sums and induction.* The induction theorems of the library take operators, which the provers cannot instantiate.
`SumTheorems` states the induction it needs about sets instead (`SetInduction`: a set of naturals with 0 and the successor
of each of its members has every natural; `BoundedInduction`, `SubsetInduction`, `StepwiseExists`), whose proofs and uses
are first-order, and derives from them that a sum is what its recursive definition says (`SumUnfold`) and how it changes
with one value, one member or one shift of the indices. A property of all values of a recursive function becomes membership
in the set of arguments at which it holds.

**Only model-checked.** `AttachedEventuallyRegistered`, `WaiterProceeds` and `GoneEventuallyDeregistered`: liveness under
fairness needs `ENABLED`, which is out of the prover's reach. The refutations (the runs that expect a violation) are single
behaviours and need no proof. Every other property of a passing run is a theorem.

## 6. Not modelled

- The accessors of the knobs (`setCurrPrecision`, `getNCpuCores`, `setUseGpu`, ...) on both sides: single unlocked accesses to
  fields on which nothing else in the library depends.
- `Utils::now` of the client and the build files: no state, no behaviour the library uses.
- What a derived class decides: `run()` is abstract in the repository.
- A clock that is set back: `gettimeofday` is wall-clock time, and `PeriodsOrdered`, `ThroughputNotNegative`, `WindowCovers` and
  `SleepPaced` rest on its going forward. Counters of `/proc/stat` that decrease, as some kernels' do by a little: the usage
  would not be a percentage.
- A second `registerDetach` for one attachment (section 2).
- A name of the controller that several processes match; the reuse of a controller's pid; a torn `long double`; `usleep`
  ended by a signal; `ticksSWMaxSize` 0 (undefined behaviour of the first `readTicks`); the eight counters of a `/proc/stat`
  line being cut by the buffer themselves.
- Fairness of the controller's policy towards applications: cores and frequencies are the derived class's business.
