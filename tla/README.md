# Verification of the sm8550-common device tree

Most of this repository is configuration.  The program with behaviour of its
own is the vendor service `sensor-notifier` (`sensors/`), a C++ process with up
to five threads, two signal handlers, two objects that can be replaced while
other threads use them, and three layers of "recovery".  This directory holds
TLA+ models of it, TLC runs on small instances, and TLAPS proofs, for every
instance, of the safety properties that the passing runs check.

## 1. Inventory

| Component | State | Operations | Interacts with | Hard part |
|---|---|---|---|---|
| **SensorNotifier** (`SensorNotifier.cpp/.h`), base class | `mQueue`, `mSensorHandle`, `mActive` (atomic), `mPollingThread`, `mThreadMutex` | constructor, `initializeSensorQueue`, `activate`, `deactivate`, destructor | sensor service (`ISensorManager`, `IEventQueue`), the derived class's `pollingFunction`, callers on three threads | activate/deactivate interleavings, join under the lock, lost HIDL calls, destruction with a live thread |
| **AodNotifier** (`AodNotifier.cpp`) | locals of `pollingFunction`: `sensorEnabled`, two error counters, the display file and the `pollfd` made from it; the callback's own display file | polling loop, `AodSensorCallback::onEvent` | display feature driver (events, doze brightness), sensor service | error counters, reopening, service refusals, late one-way events |
| **NonUiNotifier** (`NonUiNotifier.cpp`) | `sensorEnabled`, `pollfds`, two error counters | polling loop, callback that writes a gesture event | three gesture files in sysfs, sensor service | `enabled` computed from changed files only, stale `errno`, shrinking list of files |
| **SensorNotifierUtils** | none | `readBool`, `parseDispEvent` | the files above | width and sign of the data length |
| **HealthMonitor** (`HealthMonitor.cpp/.h`) | `mComponents` (heartbeat, alive, restart count), `mMutex`, `mMonitoring` | `registerComponent`, `updateHeartbeat`, `monitoringLoop`, `canRestartComponent`, `triggerRecovery`, start/stop | callbacks into `main.cpp`, both under `mMutex` | test without the lock, stale list of failures, callbacks under a non-recursive mutex |
| **service main** (`main.cpp`, `sensor-notifier.rc`) | `gRunning`, `gAodNotifier`, `gNonUiNotifier`, `gSensorManager` | `main`, `onComponentHealthChange`, `onRecoveryRequested`, `recoverAllComponents`, `signalHandler` | everything above, init | lock order, signal handlers that lock, shutdown order, replacing objects in use |
| **Config** (`Config.cpp/.h`) | `mConfigMap`, `mSettings` | `loadConfig`, `parseConfigLine`, `applySettings`, `getString`, `getInt`, `getBool` | read by all, written before there is a second thread | `long` narrowed to `int`, no ranges, defaults written twice |
| **UdfpsHandler** (`udfps/`) | sysfs nodes, HAL parameters | `onFingerDown`, `onFingerUp`, `onAcquired`, `onAuthentication*`, `cancel` | fingerprint HAL, on several threads | groups of unchecked writes without a lock |
| **Euicc disabler** (`Euicc/`) | enabled state of packages | boot receiver | package manager | order of checks at boot |
| power-mode, unbuilt `Enhanced*`/`Recovery*` files, `extract-files.py`, configuration | - | - | - | none, see section 8 |

What makes each of them correct:

* SensorNotifier: never two polling threads, never a thread or an enabled
  sensor after `deactivate()` or destruction, the mutex always given back.
* The polling loops: they change the sensor only in step with `sensorEnabled`,
  leave when `mActive` is cleared, stop on persistent errors, follow the display
  or the gestures.
* HealthMonitor: no failure, the first or a later one, is dropped, no more than `maxRestarts` restarts
  between heartbeats, a dead component is eventually given up.
* Config: the last line for a setting counts, and what the file does not say, or
  says badly, changes nothing it should not.
* UdfpsHandler: when all calls are done the outputs are as the last one wants them;
  the light does not stay on.
* main: nobody waits in a circle, SIGTERM ends the process and leaves nothing
  running, recovery completes, a stopped notifier is noticed.  (Not all of these
  hold: sections 6 and 7.)

## 2. Modules

    NotifierContract <--implements-- SensorNotifier --EXTENDS--> PollingThread
                                                                  ^        ^
            SensorNotifierUtils <--EXTENDS-- AodNotifier --implements      | EXTENDS
                    |                                                      | and implements
                    v                                                NonUiNotifier
                MachineInts <--EXTENDS-- Config
    HealthMonitor <--EXTENDS-- Service (+ notifiers as their contract and lock discipline)
    UdfpsHandler

| Module | Stands for |
|---|---|
| `NotifierContract` | abstract: off / on / stopping, and whether the sensor streams |
| `PollingThread` | the contract of `pollingFunction()`, which the base class calls and both notifiers implement |
| `SensorNotifier` | one notifier with all its callers; the polling thread as `PollingThread` lets it be |
| `SensorNotifierProofs` | TLAPS proofs about `SensorNotifier` |
| `AodNotifier` | the AOD polling loop in detail, its driver, its callback |
| `AodNotifierProofs` | TLAPS proofs about `AodNotifier` |
| `NonUiNotifier` | the gesture loop in detail, the gesture files, its callback |
| `NonUiNotifierProofs` | TLAPS proofs about `NonUiNotifier` and its erasing by index |
| `SensorNotifierUtils` | `parseDispEvent()` |
| `HealthMonitor` | the monitor with any callbacks |
| `HealthMonitorProofs` | TLAPS proofs about `HealthMonitor` |
| `Service` | the whole process: `HealthMonitor` with main.cpp's callbacks, `main()`, signals, two notifiers |
| `ServiceProofs` | TLAPS proofs about the locks of `Service`, and that it implements `HealthMonitor` |
| `ServiceEndProofs` | TLAPS proofs about circles of waits and the exit of `main()` |
| `Config`, `MCConfig` | loading of the configuration file; widths, keys and numbers for its run |
| `ConfigProofs` | TLAPS proofs about `Config` and the conversions of numbers |
| `MachineInts` | C's unchecked integer conversions |
| `UdfpsHandler` | the fingerprint handler, write by write |
| `UdfpsHandlerProofs` | TLAPS proofs about `UdfpsHandler` |

Mutated operators (comment "Mutant:") stand directly before the definition they
vary; each is a mistake that could be made in that code, and shows that the
property listed for it in `PROJECT.json` can fail.

### How state and actions correspond to the code

**SensorNotifier.**  `mActive`, `mQueue`, `mSensorHandle`, `mPollingThread` and
`mThreadMutex` are the members; `pc[c]` is where caller `c` is.  The critical
sections are cut where another thread can see a difference: `DeactivateBegin`
(lock, `mActive = false`), `Join`, `DisableAndUnlock`; `ActivateAccepted` and
`Spawn`.  An early return takes and releases the lock in one step.  A joinable
`std::thread` that is assigned over or destroyed makes `fate` "terminated"; a
failing HIDL transaction inside `pollingFunction()` (whose `Return<Result>` is
converted unchecked), one in the constructor's `initializeSensorQueue()` (whose
`Return<void>` is dropped unchecked, `ConstructAborts`) and a failing thread creation
make it "aborted"; either way init restarts the service (`Restart`).  So
`getSensorList()` and `createEventQueue()` answer OK or ERROR or end the process;
the last `disableSensor()`, which is checked, may also be LOST.

**PollingThread / AodNotifier.**  `PollingThread` sees six places of the thread.
`AodNotifier` has the loop's real branches: outcomes of `poll()`, both counters
with the places where the code clears them, the read, the reopening, the switch
on the power state, `DOZE_TO_NORMAL`, the cleanup.  Its refinement mapping sends
the inner places to "polling", except "normal", which is already "testing":
the sensor is settled and only the brightness request is left.

`parseDispEvent()` is an operator on the header's length: its subtraction is narrowed
to `int` by `Wrap`, and the driver's faults are all lengths and short reads.  Only an
event of another type, one without data (whose `data[0]` is any value) or none at all
can come of them, besides the power events in `events`.

**NonUiNotifier.**  `poller` is what `PollingThread` sees, `step` the place in the
body of the loop: the scan of the descriptors, `poll()`, the reading of the files,
the switch of the sensor.  `pollfds` is the vector, in order; `Read` goes through it
with the value `errno` has at each index (`Ebadf`), since only that decides which
files go, and then erases the indices as the code does, the highest first
(`EraseAll`).  `Without` is the `remove_if` of the files that are not open.  Reading a file takes it out
of `changed`.  The driver toggles gestures at any time, `CloseBehind` closes a
descriptor.  Locals that are out of scope are given their first values.

**Config.**  A line is a key and a value, or says nothing; values are kept as far as
`getInt`, `getBool` and `getString` tell them apart.  `Settings` is what
`applySettings()` computes, `Ints`, `Bools` and `Texts` what a `Settings` object is
born with.

**UdfpsHandler.**  A call puts its writes into `todo[t]`, and `Write(t)` makes the
next one or, in a behaviour with failures, does not.  `last` and `tainted` are
history: the call that began last, and the outputs it cannot vouch for.

**HealthMonitor.**  A component's `lastHeartbeat` is kept as `silence`, ticks
since then, saturating just above the timeout, which is all the code compares.
The loop reads `now` before it takes the mutex, so the set `overdue` is taken at
`Wake` and a heartbeat that gets the mutex first takes its component out of it.
`unhealthy` is `newlyUnhealthyComponents`, worked off after the lock was given
up.  `untried` is history: the components found to have died that no recovery has been
attempted for since.  "reporting" and "restarting" are the two callbacks, under `mMutex`.
`ReadHealth` is a getter: it takes the mutex, as a heartbeat does, and changes nothing.

**Service.**  A frame is a thread or the SIGUSR1 handler on top of it, which
blocks the thread below until it returns.  `todo[f]` lists the calls still to be
made, the current one first; each operation pops its entry or replaces it.  A health
report locks `mMutex` for each of its reads.
A call through `gAodNotifier` or `gNonUiNotifier` reads the pointer (`LoadPointer`,
`Published`) and from then on stays with the object it found.  Automatic recovery makes a
new object, publishes it, and only then destroys the old one (`Construct`: both
destructors call `deactivate()`, then `Free`), as the assignment to a `unique_ptr` does;
meanwhile a signal handler can activate the new object while the old one's thread still
runs.  A frame that is left with a freed object crashes the process or stays there
(`UseFreed`), and so does the destruction of a `std::thread` that somebody has started
after the last `deactivate()`.  `revived` is history: the objects activated during the
shutdown after main had deactivated them.  `poller[o]` "ended" with `active[o]` true is a polling
thread that gave up.

## 3. Runs

Configurations are named after the module and the question.

| Run | Shows | Bounds |
|---|---|---|
| `notifier` | `TypeOK`, `NeverTerminated`, `InactiveIsQuiet`, `BeliefIsTrue`, `GoneIsQuiet`, `LockReleased`, `ImplementsContract` | three callers |
| `health` | `HealthTypeOK`, `RestartBudget`, `EveryFailureTried`, `SilentGivenUp` | 2 components, 2 users, timeout 1 tick, 2 restarts |
| `aod` | `TypeOK`, `NeverShort`, `ImplementsPolling`, `FailedPollStops`, `StopsForCause`, `FollowsDisplay`, `BrightnessRestored` | both limits 2, 2 unread events; 16 lengths, header of 3; every subset of the faults |
| `nonui` | `NonUiTypeOK`, `ImplementsPolling`, `RightFilesDropped`, `StopsForCause`, `FollowsChanges` | 2 files, limit 2, all faults or none |
| `udfps` | `UdfpsTypeOK`, `AgreesWithLast`, `LightGoesOut` | one client's thread, one of the library's; writes that fail or not |
| `config` | `ConfigTypeOK`, `LastLineCounts`, `OtherSettings`, `HugeNumbers` | up to 3 lines, 3 keys, 10 numbers, int of 16 and long of 18 bits |
| `service_manual` | `NoDeadlock`, `QuietExit`, `StopHonoured` with automatic recovery off and no SIGUSR1 | 2 notifiers, 1 object each, timeout 1, 1 restart |
| `service_faults` | `ServiceTypeOK`, `NoLeakedLock`, `SinglePoller`, `OnlySelfDeadlock` with automatic recovery and SIGUSR1 | 1 notifier, 2 objects, 2 signals, timeout 1, 1 restart |
| `service_auto`, `service_dead`, `aod_reopen`, `nonui_gesture` | counterexamples to what logs and comments say, section 7 | |

Why the bounds suffice: three callers are the three there are (main, monitor,
signal handler), each of which can be inside, waiting and about to destroy.
Timeout 1 has a tick before and a tick at the limit; two restarts tell "count
one" from "count all"; two components let one fail while the other is restarted
and give the list of failures length two.  With limits of 2 an error counter has
a value below, at and, if the code let it, above the limit, and survives or
loses one round in between.  Two unread events let a report be overtaken.  Two
signals put a handler on each thread, or two in a row on one.  A notifier has a second
object only after an automatic recovery, which ends with the monitor waiting for its own
mutex, so nobody makes a third (with `MaxObjects` 3 the states are the same).
Two gesture files let one change while the other does not, and both be dropped at
once.  One thread of each kind overlaps every call of a client with every one of the
library.  Three lines set a key twice with something else in between or behind, and
the numbers lie on both sides of the bounds of `int` and of `long`.
`service_faults` keeps one notifier to stay small; the two notifiers share
nothing but `mMutex` and the order of calls, which `service_manual` has.
The number of attempts in main's start-up loop is left open.

Deadlock is checked except in `Service`, where `main()` ends, and in `Config`, where the file is read once.

## 4. Fairness

* A thread that can run runs (WF on `PollStep`, on `InsideLock(c)`, on the
  frames and on the monitor): the kernel's scheduler is preemptive and no thread
  has real-time priority.
* `poll()` comes back: the timeout is finite (5000 ms by default).  A negative
  `poll_timeout_ms` in the configuration would take this away (section 7).
* `HealthSpec` assumes strong fairness of the loop against `updateHeartbeat()`:
  the heartbeats hold `mMutex` for an instant once a second.  In `Service` no
  strong fairness is needed: time passes only when no thread has something to do
  at once (`Tick`).  That is an assumption that processing is short
  compared to the one-second tick; sleeps, service calls and polling are not
  bound by it.
* A call of the fingerprint HAL that has begun makes its writes (WF on `Write(t)`).
* The callbacks of `HealthMonitor` return, as long as they are the environment's.
  `Service` puts the real ones in their place and shows where they do not.
* Callers are not obliged to call, signals not to come, the display not to
  change, the sensor not to send.
* `init` restarts the service: its `.rc` entry is not `oneshot`.

## 5. What is proved

Every invariant and every action property that a passing run checks, but for
`NeverShort`, is the statement of a theorem, for all values of the constants that the
named assumptions allow:

* `NobodyAssumption`, `HealthAssumption`, `UdfpsAssumption`: the owner of a free mutex
  is no thread, the monitor is no user, a client's thread is none of the library's.
  Any sets of callers, components, users and threads, any `Timeout`, any `MaxRestarts`
  (a negative one included).
* `ServiceAssumption`: the notifiers are any of the two, and the frames are the three
  the process has besides the monitor's thread.  Any number of signals and of objects.
* `AodAssumption`, `NonUiAssumption`: the limits are positive: `main()` gets to the
  notifiers only with a positive `max_consecutive_errors` (`main.cpp:215`), and a limit of
  empty reads below 1 is the limit 1.  Any number of gesture files, any subset of the faults.
* `UtilsAssumption`, `ConfigAssumption`, `DefaultsFit`: integers have an even number of
  values, an event's header has a size that they can count, the defaults are ints, and
  `long` is wider than `int`, which it is on arm64 (`BoardConfigCommon.mk:30`).

| Module | Theorems |
|---|---|
| `SensorNotifierProofs` | `TypeCorrect`, `NeverTerminatedHolds`, `InactiveIsQuietHolds`, `BeliefIsTrueHolds`, `GoneIsQuietHolds`, `Refinement` |
| `HealthMonitorProofs` | `TypeCorrect`, `RestartBudgetHolds`, `EveryFailureTriedHolds` |
| `ServiceProofs` | `ServiceTypeCorrect`, `NoLeakedLockHolds`, `SinglePollerHolds`, `ImplementsHealthMonitor`, `RestartBudgetInService`, `EveryFailureTriedInService` |
| `ServiceEndProofs` | `OnlySelfDeadlockHolds`, `QuietExitHolds`, `NoDeadlockHolds` |
| `AodNotifierProofs` | `TypeCorrect`, `StopsForCauseHolds`, `ImplementsPollingSafely` |
| `NonUiNotifierProofs` | `TypeCorrect`, `ImplementsPollingSafely`, `StopsForCauseHolds`, `RightFilesDroppedHolds` |
| `UdfpsHandlerProofs` | `TypeCorrect`, `AgreesWithLastHolds` |
| `ConfigProofs` | `TypeCorrect`, `LastLineCountsHolds`, `OtherSettingsHolds`, `HugeNumbersHolds` |

The three refinements (`Refinement`, and `ImplementsPollingSafely` twice) are the safety
parts of `ImplementsContract` and `ImplementsPolling`: initial states and steps map to
initial states and steps, or stutter.  `ImplementsHealthMonitor` is the same for the
process and the monitor in it.

**SensorNotifier.**  `InactiveIsQuiet` and `GoneIsQuiet` speak of moments
when the mutex is free or the object is gone, `NeverTerminated` of one line; none is
inductive.  `IInv` adds: exactly the caller inside the critical section owns the
mutex (`LockInv`); the `std::thread` is joinable exactly when there is a polling
thread (`ThreadInv`); while the mutex is free the notifier is active exactly when
its thread is joinable, and what both are at each line inside it (`StageInv`); an
active notifier has a queue and a handle, and so has one whose thread is to be joined
or whose sensor is to be switched off (`QueueInv`); whoever destroys the object is alone
with it (`DestroyInv`); an absent object has no caller, no thread and no enabled sensor
(`AbsentInv`); the polling thread's belief is true while it runs, and a sensor that is on
without a thread was refused (`ServiceInv`).

**HealthMonitor.**  `RestartBudget` is inductive with the types: the count
goes up only under the second test, made with the mutex.  `EveryFailureTried` looks
at moments when the loop is not working off failures; `FailurePending` says where an
untried failure is in between: its component is alive again, or has no restart left, or
is on the list.  The list is empty wherever the loop is at rest, and that its head may be
dropped after its restart needs that the head is no longer untried in the callback
(`ListInv`).  `LockInv` keeps heartbeats, which give restarts back, out of the callback.

**Service.**  Both lock properties say what a frame's *first* call means.
`ServiceInv` adds that no later call of a frame gives a mutex back (`TailInv`), that the
monitor's thread makes calls only inside the callbacks and never unlocks in them
(`CallbackInv`), the owners in terms of first calls (`OwnerInv`), and what an object's
`active` and `poller` are between taking its `mThreadMutex` and giving it back
(`PollerInv`).  One lemma for each way in which a call can give way to others says what
becomes of the owners, and each action is one of those ways.  Since the invariant of
`HealthMonitor` is part of it, `ImplementsHealthMonitor` comes first and brings
`HealthMonitor`'s theorems into the process.

**Circles of waits.**  Whoever holds `mThreadMutex`, or `mMutex` as a user, waits for
nobody (`OwnersRun`); everybody else waits for such a frame or for the monitor
(`WaitsEnd`).  A circle would therefore go through the monitor, and the monitor waits for
itself only in the health callback (`MonitorWaits`): this is `OnlySelfDeadlockHolds`,
without any hypothesis.  `NoDeadlockHolds` has those of the run `service_manual`: no
SIGUSR1 (`MaxSignals = 0`) and `AutoRecovery = FALSE`.  They are needed: the handler can
wait for the thread below it, and the health callback for itself (section 7).

**The exit.**  `QuietExitHolds` has no hypothesis either.  main deactivates the object
each pointer points to, so it has to be shown that no other object of the notifier runs.
A second object exists only while the monitor is in the health callback with its
heartbeat still to send (`Trapped`, `ConstructInv`): the monitor never returns from
there (`TrappedInv`), so main's join never does, and main does not end.  As long as the
monitor is not trapped, every running object is the one that main has still to deactivate
(`Outstanding`) or has been activated since (`QuietInv`); `MadeInv` says that only made
objects run and are called, `MainInv` what main has still to call at its end.

**AodNotifier.**  `StopsForCause` compares two rounds, so the invariant remembers that an
error count above zero means that the last `poll()` went wrong (`CountInv`); `RoomInv`
(inside the loop the count is below its limit) carries its type.

**NonUiNotifier.**  `consecutiveErrors` is 0 wherever it is incremented or set
(`ErrorInv`) and the third failure of `poll()` ends the loop (`PollErrorInv`).
`EraseAll` is a recursion over the indices; that it has a solution, and that erasing
one index after another from the highest down keeps exactly the others, are inductions
over the number of indices dealt with (`EraseAllDefined`, `KeptStep`,
`ErasesExactly`), made from the least counterexample (`Least`, `Induction`).

**UdfpsHandler.**  Between calls every output that is not tainted is right; while calls
are under way it may also be waiting for a write of the right value (`Pending`).  The
writes of opposed calls are of tainted outputs (`OpposedTainted`) and a call writes one
value (`OneValue`).

**Config.**  At each line the map holds what the last line for a key gave it (`MapInv`),
and the settings are the initial ones until they are made from it (`SettingsInv`).  The
rest is arithmetic: a number that fits is not changed, and one beyond `long` is first
cut to its bound and then narrowed (`WrapFits`, `WrapAfterClamp`).

Only model-checked: liveness (`LockReleased`, `SilentGivenUp`, `StopHonoured`,
`FollowsDisplay`, `BrightnessRestored`, `FailedPollStops`, `FollowsChanges`,
`LightGoesOut`) and the fairness in `ImplementsContract` and `ImplementsPolling`, which
are out of the prover's reach.  The guard of `Service`'s `Tick` uses ENABLED; the proofs
need none of it, since the properties do not depend on when time passes.

## 6. Properties that hold, and are not obvious

* `SinglePoller` and `NoLeakedLock` hold even in the behaviours in which the process
  deadlocks on itself or loses a frame to a freed object: a handler or recovery that is
  stuck never leaves an object with two threads.  (Two objects of one notifier may have
  one each.)
* `BeliefIsTrue`: `deactivate()` switches off a sensor the polling thread believes on,
  which is harmless only because it joins first.
* `EveryFailureTried`: the list is stale when it is worked off, yet no transition to
  unhealthy is lost, however often a component was restarted before.
* `QuietExit`: a notifier that runs when main has ended was activated after main had
  deactivated it; nothing that was running before escapes the shutdown.
* `OnlySelfDeadlock`: with SIGUSR1 and automatic recovery the process can block, but
  never main, the monitor and the handlers each other without an interrupted thread or
  the health callback in the circle.
* `StopsForCause`: in the AOD loop POLLERR never ends the thread, since its count is
  cleared before it is raised; in the gesture loop neither count of line 219 or 253 gets
  to a limit of two.
* `RightFilesDropped`: descending erasure drops the right files, as long as `errno` is
  not an old EBADF.
* `NeverShort`: the length that is narrowed to `int` is never a shorter one.  It says nothing
  of an event that claims no data, which is accepted and whose `data[0]` is used.
* `AgreesWithLast`: overlapping calls leave only what an opposed call still had to write;
  the status set by "waiting" (`UdfpsHandler.cpp:144`) goes with the next finger-up.
* `NoDeadlock`: with automatic recovery off, `mMutex` is always taken before `mThreadMutex`.

## 7. Findings

1. `service_auto`: automatic recovery, on by default, calls `updateHeartbeat()` from a
   callback that runs under the same mutex.  The monitor never returns, and main stops
   at its next heartbeat: SIGTERM no longer ends the process.
2. `service_dead`: main sends heartbeats on behalf of any notifier whose `mActive` is set,
   and a polling thread that gives up does not clear it.
3. `aod_reopen`: after reopening, the loop polls the closed descriptor for ever, without
   a pause, and the new file is not registered for events.
4. `nonui_gesture`: when one gesture is disabled the sensor goes off, although another
   is still enabled.

What the code does less well than its messages say, held by an invariant that
passes:

* The SIGUSR1 handler (`main.cpp:194`) locks mutexes that the interrupted thread may
  hold, and then waits for ever, although `main.cpp:254` offers the signal "to force
  recovery of all components"; `OnlySelfDeadlock` excepts these circles.
* main deactivates the notifiers (`main.cpp:298`) before it stops the monitor, which may be
  inside a restart or make one more pass, and then activates one again behind "stopped
  gracefully".  With the defaults the last heartbeat is too recent for that pass; it takes
  a `component_timeout_sec` below the monitor's 30 seconds, or a main that was held up.
  `QuietExit` excepts exactly these activations.
* Automatic recovery publishes the new object before it destroys the old one, and nothing
  keeps a signal handler or main from being inside the old one: two polling threads of one
  notifier, and the use of a freed object, are behaviours of `Service`.
* "Too many poll errors, stopping AodNotifier" (`AodNotifier.cpp:151`) is never reached
  with a limit of two or more (`StopsForCause`); nor are the limits at
  `NonUiNotifier.cpp:219` and `:253`.
* A number too large for `long` becomes -1 (`HugeNumbers`).
* `health_check_interval_sec` is read and printed but not used: `HealthMonitor` has
  `mCheckInterval{30}`.

## 8. Not modelled, and why

* Statistics and logging: only read, or only logged.
* What a frame reads in a freed notifier: `Service` ends the process there, or leaves the
  frame where it is.  That a signal handler activates an object whose derived part has just
  been destroyed, so that its thread calls a pure virtual function.  `isActive()` reads
  the pointer and the flag in one step.  The order of static destruction at exit.
* In `Service`, an abort inside a notifier's constructor or polling thread and a failing
  thread creation: `SensorNotifier` has them.
* SIGUSR1 on a polling thread, which would join itself; the kernel prefers the main
  thread.
* Gestures that are enabled before the thread starts: the byte read as a test takes
  note of them, and the code waits for the next change.  That the kernel reports such a
  change with POLLERR as well as POLLPRI, which would drop the file, is the fault "err".
* The touch mode is modelled, but nothing says what it should be when the sensor is off.
* Trimming and comments of the configuration file; no file is part of the repository.
* `Euicc/`: at boot one package is enabled or disabled, by one property and by which
  other packages are installed and enabled: a decision without state of its own, on one
  thread; the other receiver only logs.
* A descriptor number reused by another thread after `aod_reopen`.
* A sensor event that arrives after `DOZE_TO_NORMAL`: the model has it
  (`SensorEvent`, `OnEvent`), but which comes last is the binder's choice, and no
  property is stated beyond `BrightnessRestored`.
* `EnhancedAodNotifier.cpp`, `RecoveryManager.h`, `EnhancedRecoveryManager.h`,
  `PerformanceMonitor.h`, `RuntimeConfig.h` are not built.  `power-mode.cpp` is a
  stateless switch.  `extract-files.py`, make files, overlays, init scripts, policy and
  audio or media tables have no behaviour of their own.

## 9. Plan

Done: all modules of section 2, and a theorem for every safety property that a passing
run checks, but for `NeverShort`.

Next, proofs:

1. Safety facts that the liveness properties rest on: what a waiting frame of `Service`
   waits for while `StopHonoured` is pending, and that a failing `poll()` counts up to its
   limit (`FailedPollStops`).
2. The two notifiers of `Service` implement what `NotifierContract` says of `mActive` and
   the polling thread, as `SensorNotifier` does.
3. `NoDeadlock` with automatic recovery and no component that ever fails.
