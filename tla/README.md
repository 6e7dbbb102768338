# PressureKeeper: a TLA+ model

PressureKeeper raises the pressure of a sample in a diamond anvil cell by driving
the gas membrane behind it with a PACE5000 pressure controller, while a
fluorescence ("ruby") reading says what the sample pressure is. It controls one
side only: it may push, it never lowers. Its two hard jobs are to command a device
that goes on ramping by itself, over a link that loses answers, and to stay
stopped when anything is doubtful.

This directory holds TLA+ modules that model that program, TLC configurations that
check them on small instances, and TLAPS proofs of what matters most for every
instance. All source paths below are under `src/src/pressurekeeper/`;
`README:n` is line n of the repository's own `README.md`.

## 1. Inventory

| component | state it keeps | operations | what makes it correct |
|---|---|---|---|
| **Controller** `controller.py` | control state, user target, step in flight, staged setpoint, target-reduction hold, rate-pause hold, prior state, cached status, resume grace | `step()`; `set_target pause resume abort reset apply_config_update stop_and_confirm` | Control is enabled only on a setpoint commanded and read back; steps neither stack nor drive down; a stop is retried until it holds; a sample that needs pressure is approached again |
| **Safety supervisor** `safety.py` | abort latch, manual pause, membrane-stop intention, last command, error streaks, step budget | `evaluate check_command on_* request_* force_reset update_config` | abort sticks; mismatch, gap, supply and lost control are seen; every write passes a last gate |
| **PACE5000 and client** `clients/pace5000_client.py`, `interfaces.py` | setpoint, output mode, pressure, supply | `read_status set_pressure set_control_mode` | external; the program may not assume a failed request was not applied |
| **Simulator** `sim/simulator.py` | the same, simulated | the same, `step(dt)` | reference for the device's behaviour |
| **Estimator** `estimator.py` | raw window, median history, last valid time, jump flag | `update update_config filtered_pressure pressure_slope is_valid` | old or rejected samples are not taken for new ones; a level that persists is accepted |
| **Gain estimator** `gain.py` | observed gains and midpoints, interrupted rate observations | `record_step record_interrupted_rate_observation discard_... estimate` | a step is as large as what was learned allows; only clean interruptions slow the ramp |
| **Instance lock** `instance_lock.py` | a file with a pid | `acquire release` | one live process per endpoint, no lock-out by the dead |
| **App wiring** `app.py` | lock, controller, logger, sessions | `build_app close` | the lock spans the life of the controller; nothing is closed under a tick |
| **Schedule** `scheduler.py`, `gui/tab_schedule.py` | step index, issued flag, elapsed wait, status | `start stop on_tick` | a step passes only at its own target; the schedule ends |
| **GUI worker, main window** `gui/worker.py`, `gui/main_window.py` | thread, stop request, started flag, the lock of the endpoint in use | `run`, Start/Stop Control, Save & Apply, endpoint change, close | only a locked endpoint is driven; a setpoint staged on one device is never armed on another |
| **CLI** `cli.py` | runner thread, stop event | `target pause resume abort reset status quit` | quit confirms the stop and ends; the run's record says how it ended |
| **Logger** `logging_sink.py` | the manifest in memory and on disk, CSV files | `mark_control_started mark_end close`, rows | the record of how a run ended is true |
| **Configuration, ruby client, dialogs, plots** | parameters, widgets | | no control state |

How they interact:

- **Two threads.** A polling thread (the GUI's `ControllerWorker` or the CLI's
  runner) calls `controller.step()` in a loop; an operator thread calls the other
  methods. `step()` reads the ruby source and the device *before* it takes
  `self._lock`, and holds the lock from the verdict to the end of the tick.
  `pause()` and `abort()` deliberately set their flags and send their own STOP
  *without* the lock, so that a hung request cannot delay a stop, and take the lock
  only to forget the step in flight.
- **A third actor.** In Control the PACE5000 ramps toward its setpoint whatever
  the program does; its status may show an enabled output late; its setpoint
  survives the program's restart.
- **The end of the process.** The worker may crash, the window may be closed, the
  command line interrupted; the main thread then stops the device, waits for the
  worker and closes log, sessions and lock, in that order. Both threads write the
  manifest through the same temporary file, without a lock.
- **A queue.** The worker emits a snapshot per tick as a Qt signal; the GUI thread
  handles it later and lets the schedule call `set_target()`.
- **Other processes.** The lock file is the only thing between two PressureKeepers
  on one endpoint; an endpoint change holds two of them for a moment.

Hard behaviours: the unlocked flags against the locked tick; writes whose answer
is lost; a cached status compared with a later command; a setpoint staged in
Measure while the gas moves; the device repointed under a tick; counters, windows and
clocks that decide when a streak is too long, a step settled or a budget spent; late
snapshots; every system call on the lock file.
`PROJECT.json` lists each hazard at its line.

## 2. Modules

| module | models | lines of the model to read first |
|---|---|---|
| `Pace5000` | device, gas, HTTP link | `SetTarget`, `SetMode`, `DeviceStep` |
| `SafetySupervisor` | `safety.py` | `Verdict`, `LatchAbort`, `ForceReset` |
| `Controller` | `controller.py` over the two above | `PollingThread`, `Operator` |
| `OneSidedDrive` | abstract specification of what the controller does to the device | `Stage`, `Advance`, `Enable` |
| `ControllerProofs` | theorems about `Controller`: types, what Control is enabled on | `IInv` |
| `ControllerSafetyProofs` | its writes, its stops and its verdicts | `WriteInv`, `OutputSeen`, `QuitInv` |
| `ControllerDriveProofs` | how it drives the gas; it implements `OneSidedDrive` | `DriveInv`, `StackInv` |
| `SensorChoices` | what one tick's reads may tell the controller, as sets of choices | `DisturbedIn`, `UsableIn` |
| `Sensing` | `estimator.py`, the streaks and ages of `safety.py`, the reads of `step()` | `Tick`, `Accept`, `Disturbed` |
| `SensingProofs` | theorems about `Sensing` | `SilenceInv`, `SensingInv` |
| `StepSizing` | the timed and counted part of `controller.py`, `gain.py`, the budget | `Issue`, `Settles`, `RateTick` |
| `StepSizingProofs` | theorems about `StepSizing` | `TypeParts`, `BudgetInv`, `ClockInv` |
| `Schedule` | `scheduler.py` and the snapshot queue over `Controller` | `OnTick` |
| `ScheduleProofs` | theorems about `Schedule` | `ScheduleTyped`, `ReachedInv` |
| `RunLog` | the manifest of `logging_sink.py` | `Dump`, `WriteTmp`, `Replace` |
| `Session` | one process: `app.py`, `cli.py`, `gui/worker.py`, `gui/main_window.py`, over `RunLog` | `PollingThread`, `MainGoesOn`, `Operator` |
| `SessionProofs` | theorems about `Session` | `ClosedInv`, `GuiLogInv`, `SafeInv` |
| `InstanceLock` | `instance_lock.py` | `Create` ... `Unlink` |
| `InstanceLockProofs` | theorems about `InstanceLock` | `IInv` |
| `MC*` | values for TLC | |

`Controller` EXTENDS `Pace5000`, `SafetySupervisor` and `SensorChoices`; `Schedule` EXTENDS
`Controller`, so a schedule is checked over the whole controller and device and not
over a stub. `Session` EXTENDS `RunLog`. `Controller` refines `OneSidedDrive`, with `lastCmd`
for its `command`, `youngCmd` for its `young` and the device as it is.
`Sensing` EXTENDS `SensorChoices` too: the controller *chooses* from the sets in it,
and `WithinChoices` says that the windows and counters, computed in full, never leave
those sets, given the faults (`jump`, `statusRead`, `ruby`) that happened. A `Controller` run that
includes those faults therefore covers the supervisor's real counters without carrying them
through its state space; one that leaves them out says nothing about them.

### The tick

`pc` says where the polling thread is. One `step()` is the path

```
idle -BeginTick-> evaluate -Evaluate-> apply --decision--> [write --Write*-->] reconcile
     -Reconcile*-> [disable | enable -WriteMode->] idle
```

- `BeginTick` is the status poll (`controller.py:424-454`): not due,
  failed, disconnected or fresh, and happens without the lock. A connected device may answer
  with a field missing (`gives`: the output state, the setpoint, or a pressure or the supply).
- `Evaluate` takes the lock, feeds one sample (or an invalid one, or an error) and
  computes the verdict. It latches the abort, as `evaluate()` does.
- The *decision* is one of seventeen actions, one per branch of `_apply_verdict` and
  `_advance`: `ApplyAbort`; `ApplyPause`, `KeepRateHold`, `ConfirmRateHold`,
  `StartRatePause`, `StageRateHold`; `ApplyNoSample`, `ApplyHold`,
  `ApplyStayHold`; `ConfirmStaged`, `DiscardStaged`, `AwaitReadBack`,
  `AwaitSettle`, `AwaitOutput`; `NoCommand`, `PauseForSupply`, `DecideStep`.
- `WriteSetpoint`/`WriteUnanswered` is the one `set_pressure` of the tick and the
  bookkeeping after it. A lost answer is booked like a success, with the write
  applied or not.
- `ReconcileStop`/`ReconcileResume` reads `membrane_stop_intended` and the (possibly
  cached) output state; `WriteMode` is the output write decided there. They are
  separate steps because a flag set in between is not looked at again.

`Locked` is every place but `idle` and `evaluate`. Operator calls that take the
lock have `~Locked` as a guard; `Pause`, `Abort` and `Quit` do not, and go through
`halt` (the unlocked STOP, `EmergencyStop`) and `abandon` (`AbandonStep`, locked).
The ruby source is also read before the lock; nobody else sees that reading, so the
read is folded into `Evaluate`.

### What is abstracted

- **Pressures** are small integers; the sample's physics is gone: an estimate is
  *any* member of `Readings` on every tick, so every property holds for every
  sample that behaves arbitrarily.
- **Step sizing** (gain, curvature, adaptive probes) is any step of `1..MaxStep` in
  `Controller`; a step refused for its size or by the cumulative budget is the fault
  `noStep`. `StepSizing` has the limits and the budget.
- **The grace of the mismatch check** (`setpoint_mismatch_grace_s`, `safety.py:426`, 0 by default) is
  the constant `CommandGrace`, true when it is positive. A command then starts
  `youngCmd`, and any later tick may end it (`CommandAges`), so that the grace may last any number of ticks or none.
  Every behaviour with `CommandGrace = FALSE`, the default configuration, is therefore one with `TRUE`
  but for that flag. `link` takes `TRUE`, the other runs the default, the theorems both.
- **Incomplete statuses** (`safety.py:288-305`): a status without its output state, or without a pressure or the supply, is
  a pause (`Incomplete`); a pressure or supply that is not finite is an abort (`MayAbort`); one without the setpoint
  is compared with nothing and raises no event of its own (`ShowsTarget`), as in the code.
- **Timers** (settle window, blackout, resume grace, staleness, error streaks) are
  "may have elapsed" choices in `Controller`: more behaviours than the code has. The grace is
  three-valued and starts and ends where the code starts and ends it. `Sensing` and
  `StepSizing` have the clocks.
- **The cause** of a pause is kept only as far as the code tells causes apart:
  `rate` is `compression_rate_exceeded` alone, everything else is `pause`.
- **Request flag + stop flag**: `request_manual_abort()` and the
  `set_membrane_stop_intended(True)` next to it are one action; no other thread
  reads the pair in a way that tells them apart within the same call.
- **dry_run** is not modelled.

### Sensing

One `Tick` is one `step()` up to the verdict: the ruby read (accepted, rejected by the
quality gate, failed), the poll if it is due (answered or failed), and the windows, streaks
and ages they change. Time passes by a member of `Idles` between ticks and of `IoTimes`
during the two reads. No absolute time is kept: every age is measured from now, or from the newest
accepted sample, and saturates past the limit it is compared with, which keeps the
state finite and loses nothing. Medians are doubled and the slope is compared with the
cap by cross-multiplication, so that all numbers are whole and least squares is
exact. `blind` and `deaf` are history variables: the true length of a
silence, against which the code's own counters are judged. `Reset` and `Configure` forget what
`force_reset()` and `apply_config_update()` forget.

### Step sizing

A tick takes one unit of time. The gas follows the setpoint while Control is on, which it is
from a moment up to `control_mode_resume_grace_s` after it was asked for (`onFor`, `lag`); the
sample may respond or not. `step` is the step staged or driven, with what `_commit_step` and
`_confirm_staged_rearm` record in it; `driveAge` and `settledFor` are the two clocks of
`_update_pending_step`; `recent` is the budget's window. `Issue` bounds a step by the probe, the
growth factor, the hard cap and the budget (`Limit`, `WithinBudget`), and its rate by what has been
learned (`Fastest`); the observed gain itself is any number, so the step is any size below the
limit. `obs` is the observation of an interrupted step, `learned` what it leaves behind.
History variables (`commanded`, `quiet`, `report`, `reduced`, `fair`) record what really
happened. Sizing is `adaptive_local`, learning is in enforcing mode; `apply_config_update()`, which
clears the budget with everything else, is left to `Controller`.

### The session

`worker` and `main` say where the polling and the main thread are. A tick is reduced to what the
life cycle depends on: the status it read and from which device (`read`, `known`), the verdict it
took under the lock, and the one request it then sends, addressed to the endpoint the client
pointed at when it was sent (`req.at`). `Crash` is an exception anywhere in `step()`; the handler's five steps
follow (`CrashMark` ... `CrashClear`), then its last tick. `front` chooses the GUI or the command line;
they share the sequence at the end and differ in when the thread is started
(`Launch`, `FirstStart`), which operations exist, and in Ctrl-C, which the command line may get at any point
(`Interrupted`). `Others` are other processes that take, drive and release the endpoints this one does
not hold. Each dump of the manifest is three steps: change and dump the record, write the temporary
file, rename it.

Simplified in `Session`: setting the flags and sending the STOP of the crash handler's abort are one step; so
are the change of the manifest's record and its dump to text; pause, resume and target are left to
`Controller`; dry-run, simulator mode (which takes no lock) and a full disk in
`mark_control_started()` are not modelled.

### The lock file

Each system call is an action, because another process may act between any two of
them, and `Kill` may strike at each: create with `O_EXCL`, write the payload, read,
judge (is the recorded pid alive and not mine), truncate, rewrite; in `release()`
read and unlink. `orphan` is a pending write to a file that has lost its name.
`Prompt` says that a creator's payload lands within the reader's retries
(20 times 5 ms); `Overlap` says whether two processes may be inside `acquire()` at once.
A pid that died may come back.

### The schedule

`inbox` holds the snapshots on their way to the GUI thread. `OnTick` handles the
oldest; its seven branches are those of `on_tick()`. `IssueTarget` runs
`set_target()`, whole. The Schedule tab locks the single-target tab while a schedule
runs, so the operator's own `target` is not available then; the other commands are. A snapshot has what
`on_tick()` reads of the controller; `reduced`, whether a lowered target held the controller when it was made, is
history that only `ReachedAtTarget` looks at.

## 3. Runs

All pressures are in units of the smallest distinguishable step. `Tol = 0` makes
"close" mean "equal", `GapMax = 1` and `MaxStep = 1` make one step the largest
gap, so a second step stacked on the first is seen at once.

| run | bounds and disturbances | what passes |
|---|---|---|
| `link` | `MaxM` 2; a positive mismatch grace; lost `set_pressure` and output writes, skipped polls, invalid readings and errors, refused steps, rate pauses; pause, reset, target, quit | `EnableVetted NeverDrivenDown StepsNotStacked EnableMatchesVerdict ConfirmedStopHolds ArmedAboveActual LoweredOnlyInMeasure LostWriteReconciled ImplementsDrive` |
| `gas` | `MaxM` 2; drift, supply 1 or 3, statuses without the setpoint; target, pause, resume, abort, configure with ceiling 4 or 8 | `TypeOK NoPushWhileReduced PushesOnlyBelowTarget` |
| `live` | fairness; lost writes, failed, skipped and disconnected polls, leaks, late output state, front panel, raw spikes over the ceiling; abort | `Reapproaches AbortLeadsToMeasure` |
| `sensing` | fairness; two pressure levels a hard jump apart, raw window of 3, three points for a valid filter (as shipped), windows of 7 and 3 time units, ticks of 2 or 3; rejected, failed and late reads, reset, configure | `SensingTypeOK SilenceBounded WithinChoices GoodReadsClear` |
| `adaptive` | gas up to 3, steps of 1 or 2, budget 3 in a window of 3 ticks, a settle time of 2 ticks; unanswered writes, Control up to 2 ticks late, rate and other pauses, blind ticks, reset, rate changes | `StepSizingTypeOK BudgetHolds SettledIsReal LearnedIsClean SmallerAfterRatePause` |
| `session` | fairness; two endpoints, other processes on them, both front ends, lost requests and reads, `step()` crashing anywhere, Ctrl-C anywhere, one retry of the final STOP; `Updates = FALSE` | `SessionTypeOK DrivesOnlyOwned EnabledWhereStaged NothingAfterClose ConfirmedStopStays EndReasonTrue LeaveEnds` |
| `lock_life` | three pids; either all in `acquire()` at once from a missing file, or one at a time from any left-over file with release, failed unlink and kill anywhere | `MutualExclusion NeverLockedOut` |
| `schedule` | fairness; a three-step schedule, snapshots up to two ticks late, statuses without the output state or a pressure; stop, restart, abort | `ScheduleTypeOK ScheduleFinishes ReachedAtTarget` |

The properties, in a sentence each:

- `EnableVetted`: when the output is about to be enabled, the device holds the
  setpoint last commanded since the start or the last reset. *Whatever setpoint an
  earlier process left in the device is never driven.*
- `EnableMatchesVerdict`: Control is enabled only by a tick found safe, or for the
  hold of a rate-only pause on that hold's own setpoint.
- `NeverDrivenDown`, `StepsNotStacked`: in Control, once something has been commanded, the setpoint is never
  below the gas pressure by more than the read-back tolerance, and never above it by more than one step
  and the arrival and read-back tolerances (both are zero in the runs).
- `ImplementsDrive`: whatever happens, the device sees nothing but the steps of `OneSidedDrive`. A setpoint
  is staged in Measure from the present pressure, or in Control put one step above a setpoint that is held and that the gas
  has reached; a command within its grace may be followed by the next unseen, but is not enabled unseen; only a held setpoint that the gas can rise to by one step is enabled.
- `LoweredOnlyInMeasure`: a setpoint is lowered only while the output is off.
- `LostWriteReconciled`: a new setpoint is sent only when the device holds the last
  one, so an unanswered write is settled first; a command within `setpoint_mismatch_grace_s` is the exception the
  configuration asks for. With a grace that is all that can be said: the next step goes out while the device still holds the one before.
  `EnableVetted` has no such exception: Control is not enabled on an unseen setpoint even then.
- `ArmedAboveActual`: when the stop is lifted, the read-back setpoint is not below
  the read-back pressure (but for the tolerance of that way of arming), although the gas moved in between.
- `NoPushWhileReduced`: while a lowered target holds the controller nothing is
  written above the pressure.
- `PushesOnlyBelowTarget`: at the instant a setpoint is raised the sample is short of
  the target *and* the ceiling then in force, not those of the decision.
- `ConfirmedStopHolds`: once `stop_and_confirm()` returned True the output stays off,
  whatever the last tick was doing.
- `AbortLeadsToMeasure`, `Reapproaches`: an abort ends in Measure; as long as pressure
  is wanted the output is armed again and again.
- `SilenceBounded`: a tick found safe comes after an accepted sample within
  `max_stale_sample_s` and a status within the poll interval, one late tick and the grace, whatever
  mixture of failures came in between.
- `WithinChoices`: the link between the counters and the controller's model (section 2).
- `GoodReadsClear`: a pressure level that persists is accepted in the end, however far it is from
  the old one: a jump flag, a hard jump and the slope over the jump do not block each other for ever.
- `BudgetHolds`: within any window no more gas is commanded than `max_cumulative_step_mpa`, over
  resets, abandoned and unanswered steps.
- `SettledIsReal`: a step that settles has arrived, with Control on for its whole ramp and a slope
  that stayed flat; a sample that did not respond was watched for the dead time after the ramp.
- `LearnedIsClean`: a ramp rate is learned from acknowledged, driven steps in a pause that had no other
  cause until it cleared, and from nothing else.
- `SmallerAfterRatePause`: after a rate pause the next step, however often it is tried, stays below what the interrupted one
  had moved.
- `DrivesOnlyOwned`: a request that moves a setpoint or enables an output goes only to an endpoint
  whose lock this process holds.
- `EnabledWhereStaged`: Control is enabled only on the device the approach's setpoint was written to.
- `NothingAfterClose`, `ConfirmedStopStays`: log, sessions and lock are given up after the polling thread
  has ended; a confirmed STOP is not undone by a tick in progress or a crash handler.
- `EndReasonTrue`: the GUI's manifest ends with the truth. `LeaveEnds`: a process asked to leave ends.
- `MutualExclusion`, `NeverLockedOut`: at most one process holds the lock, and a dead process's file locks nobody out.
- `ReachedAtTarget`: a set-pressure step passes only on a snapshot whose own reading
  is at that step's target, but for a snapshot made while a lowered target held the controller (see *Schedule* below).
  It is the snapshot's own time that counts: with a longer queue the hold can be over when the snapshot is handled. `ScheduleFinishes`: at the highest target a running
  schedule ends.

Why the bounds are enough. The control flow of `Controller` depends on pressures only through
comparisons of neighbours: equal or not to the last command, at most one step apart,
at the limit or below it. `MaxM = 2` has two steps and so a "previous" setpoint
with something stacked on it; `live` and `schedule` need one step only (`MaxM = 1`),
since what they ask is about states and not about the height. Every reading used is
one of five: far below, far below and too fast, inside the hysteresis band, at the
target, a spike over the ceiling. Three pids give a live owner, a dead name in the
file and a newcomer. A queue of two snapshots is the least in which one was made
before and one after a `set_target()`. A wait lasts two ticks,
so that it can end one tick early or late. Gas that creeps up in Measure stops one
above `MaxM` (`Drift`, in `gas`), and `link` may start from a left-over setpoint above `MaxM`: both
reach the abort on a membrane over its limit. A failed poll and an `abort` are left to `live`, `gas` and `schedule`: what `link` asks they disturb
like a skipped poll with an invalid reading and like a `quit`, and the theorems have both.

In `Sensing` a raw window of three is the shortest the configuration allows, and the first whose median hides an outlier; two
levels further apart than every jump limit meet all three jump mechanisms; every streak limit is
two or three, reached by count and by age in different orders. The longer window is just long enough for a row of
`min_points_for_valid` samples at the slowest ticks (`WindowsHold`, section 4): with 6 in place of 7 `WithinChoices` is violated. With slower
sampling the estimator may never become valid, and the program rightly does nothing. In `StepSizing` the budget is one more than the largest step, so that
it binds; the window is shorter than an episode, so that steps leave it; two rates, two
samples and a ceiling inside the gas range make every branch of the limit differ. `Longest` and
`MaxPeriod` bound clocks and rates where nothing distinguishes larger ones. In `Session` two endpoints are one
driven and one to change to, held by us or by others, and one retry separates the first read of the final
STOP from the last.

All `Controller` runs take `AutoArm = TRUE`, the default
(`ensure_control_mode_enabled`); the other value is covered by the theorems only.
`link`, `lock_life` and `lock_stale` switch off the deadlock check because there the
system does stop: the threads have ended, or every process has its lock or has gone.

### Fairness

`Fairness` in `Controller.tla` assumes, and the code justifies:

- the polling thread goes on (`WF PollingThread`): its loop has no exit but the stop
  event, requests have timeouts, and communication errors are caught; an unexpected
  exception ends the worker, which is `Session`'s subject;
- an operator call in progress goes on (`WF EmergencyStop`, `SF AbandonStep`): the lock
  is free again and again, because the thread sleeps between ticks, but it is not free
  for good, hence strong fairness;
- the link is not dead for ever (`SF FreshPoll`, `SF OutputWritten`): among infinitely
  many polls some are answered with a whole status, among infinitely many output writes some arrive. This
  is about the environment; with a link that stays dead nothing can be promised;
- a late output state appears in the end (`WF CatchUp`); in `Schedule`, the Qt event
  loop handles its queue (`WF OnTick`).

No fairness is assumed of the operator, of the gas or of a reading. `Reapproaches`
has a premise that excludes a `set_pressure` lost for good: the code then pauses on the
mismatch until an operator resets, and its comment says why ("do not overwrite
evidence", `controller.py:787`, `1409`).

`Sensing` assumes `WF(Tick)`, for the same reason, in the form that infinitely many steps read: a tick is always enabled and
only a tick reads. `Session` assumes `WF(PollingThread)` and `WF(MainGoesOn)`: each thread
goes on when it can; its waits (the controller's lock, `worker.wait()`, `runner.join()`) are guards, and
`LeaveEnds` shows that what they wait for comes. Nothing is assumed of the operator, of Ctrl-C, of a crash or of other processes.

### Disagreements between the code and its documentation

Four runs find a documented statement violated (`findings` in `PROJECT.json`):

- `race_enable`: a pause or abort between `_reconcile_membrane_drive` and the write in
  `_resume_membrane_drive` is overtaken by the enabling write; a later tick stops it.
- `stopped_configure`: Configure Parameters after Stop Control clears the abort latch while
  the worker still ticks, and the controller approaches although Start was not pressed.
- `lock_stale`: two processes read and judge the same left-over file; the first overwrites it and holds the lock, then the second
  overwrites the first one's.
- `sched_nosample`: a tick without a reading after `set_target()` still shows the old HOLD, now
  with the new target, and the schedule takes it for "reached".

Further counterexamples TLC gave while the properties were being narrowed. No run keeps
them, each explains why a property is not stated more widely, or why a run leaves a
disturbance out:

- *Pause and resume inside one tick* (`controller.py:315-334`): the flags are clear again
  when `check_command` looks, and the step decided before is sent on top of the one that was
  abandoned, so steps stack. `link` therefore has no pause/resume; `gas` has.
- *A HOLD in Control* (`controller.py:865`, README:156): a HOLD interrupted by a rate-only pause, whose hold setpoint was
  armed, is resumed inside the hysteresis band without the stop; the state says HOLD, the output is in Control.
- *A retry skipped on a cached Measure* (`controller.py:623`, README:167-168): with polls
  rarer than ticks the STOP is not written although the output was enabled since; the next fresh
  poll repairs it. `AbortLeadsToMeasure` says exactly that much.
- *The mismatch check on a cached status* (`safety.py:421`): a status read before the
  command is compared with it and a spurious PAUSE follows.
- *A status without the setpoint* (`controller.py:1736`, `safety.py:425`): it raises no event, so a lost command is not
  noticed, and the next step is sized from the pressure. With `noTarget` in `link` `LostWriteReconciled` and `ImplementsDrive` fail;
  `gas` has it. A connected PACE5000 reports all fields, so it takes a faulty or changed server.
- *A step sent within the grace*: with `CommandGrace` a lost write is followed by the next step before anything is compared; hence the exception
  in `LostWriteReconciled`, and `Reconciled` in `OneSidedDrive`.
- *A reduction hold re-armed* (`controller.py:839`): `_confirm_rate_pause_hold` does not look at
  the reduction hold, so a rate-only pause can arm Control at the present pressure while the target
  is lowered. Nothing is pushed (`NoPushWhileReduced`), but the output is on.
- *A reduction floor above a lowered ceiling* (`controller.py:113-117`, `258`): the target that
  would lift the hold is now refused; only `reset()` gets out.
- *A rate hold that outlives its episode* (`controller.py:94-98`, `545`): a hold setpoint staged
  in one pause is confirmed in the next rate-only pause after a supply pause in between.
- *Enabling retried without the supply check* (`controller.py:665`, README:91-95): after a
  lost enabling write it is repeated while the supply has dropped; the next tick pauses.
- *A rate hold below a drifted pressure* (`controller.py:769-806`, README:184): the staged path
  recalculates when the gas moved, the hold path does not. `gas`, which has drift, therefore has no rate pauses, and `link`, which has rate pauses
  and `ArmedAboveActual`, no drift; the theorem `ArmedAbovePressure` covers a creeping gas without rate pauses.
- *`stop_and_confirm()` under a late output state* (`controller.py:384`, `config.py:104-111`): Measure is
  read back for an output that is just on. `link` therefore has no `lag`.
- *A staged setpoint that survives a configuration update* (`controller.py:187-191`): the last command
  is forgotten, the staged setpoint is not. `EnableVetted` and the theorem exclude `configure`.
- *A lock released between a failed create and the read* (`instance_lock.py:154-158`): the
  missing file reads as a stale one, and a third process's fresh lock can be overwritten.
  The race of `lock_life` therefore has no release.
- *Schedule*: the HOLD of a lowered target passes a step (`scheduler.py:142-147`); the guard
  against lowering reads a queued target (`scheduler.py:143`); Stop and Start Control between two ticks
  leave the schedule running (`scheduler.py:130`).
- *Sensing*: "a single spike does not move the median" (`estimator.py:9-10`) does not hold for the first one or two samples of a
  window; "filter lag or a downward outlier can never justify a larger step" (README:71) does not when the two
  coincide; an error is "recent" over a window counted back from now, and a reset forgets it (`safety.py:172-190`); a tick whose
  sample was rejected may still command from the previous filter (`controller.py:808-820`); after an outage the raw window,
  bounded by count, still holds values from before it.
- *Settling* (README:104-108, "held continuously"): near the target the threshold is tighter, but a clock begun under the loose one
  counts (`controller.py:911-927`), and ticks that evaluate no slope do not restart it. The drive clock starts when the
  staged step is confirmed, while Control may come on up to the resume grace later: `SettledIsReal` allows that much.
- *Learning*: an observation may stem from a step that was confirmed but whose Control had not come on yet
  (`controller.py:1621`); the growth limit compares with the last *commanded* step, driven or not.
- *Save & Apply after Stop, in a session* (`main_window.py:214-218`): with `Updates = TRUE` `DrivesOnlyOwned` and `EnabledWhereStaged` fail, by
  the same path as `stopped_configure`; the other properties of `session` hold.
- *An endpoint change after a lost STOP* (`main_window.py:252`): the retries go to the new device; the old one keeps driving, with
  its lock released. A STOP in flight may also land on an endpoint whose lock is given up. `DrivesOnlyOwned` therefore
  speaks of requests that push.
- *An old status for a new device*: a tick begun before Stop, an endpoint change and Start stages on the new device a setpoint
  computed from the old device's status; `EnabledWhereStaged` says that it is at least armed where it was written.
- *The crash reason of a command-line run* (`cli.py:217-224`, against `cli.py:82-85`): the main thread marks the run as started after
  the thread runs, so its rename can replace the crash handler's manifest, or fail and leave `main()` before the `try`,
  without `stop_and_confirm()`. `EndReasonTrue` is stated for the GUI, whose order is the other one.
- *Ctrl-C outside the loop* (`cli.py:230-242`): a second one in the `finally`, or one while the start is marked, ends the process without a
  confirmed stop (`Interrupted`); only the lock file of a dead process is left.
- *The crash dialog* says the device has been stopped (`main_window.py:365`), though both STOPs may have been lost and nothing
  retries them until the window is closed.

## 4. Proofs

TLAPS checks thirty-one theorems in eight modules, for every value of the constants that satisfies the named
assumptions in `Pace5000`, `SafetySupervisor`, `Controller`, `Sensing`, `StepSizing`, `Schedule`, `RunLog`, `Session` and
`InstanceLock`; TLC evaluates the same assumptions in the runs of these modules. They say no more than that limits are
naturals in the order the configuration's validators enforce, commands and faults are of the known kinds, a schedule has steps,
and `None` and `Offline` are not readings. Every invariant and every safety property of the passing runs is the subject of a theorem,
and so is the refinement. Where a theorem excludes a disturbance, a counterexample of section 3 shows why, or it is said here.

Each module's invariants were first checked by TLC on the runs of its component.

### The controller

A theorem names the disturbances it excludes: `OwnSetpoint` (nobody at the front panel, and a connected status shows the setpoint), `NoLag`, `NoLeak`,
`NoDrift` (no late output state, no gas that falls, or rises, by itself in Measure), `NoResume`, and `Undisturbed`, which is `OwnSetpoint` and no
configuration update. All else may happen: lost writes of both kinds, failed, skipped and disconnected polls, statuses without output state or
pressure, bad readings, supply changes, both values of `AutoArm`, with and without a grace of the mismatch check, any steps, margins and tolerances.
In the table `panel` stands for `OwnSetpoint`.

| theorem | property | excludes |
|---|---|---|
| `TypeCorrect` | `TypeOK` | nothing |
| `ControlVetted` | `EnableVetted` | panel, configure |
| `LostWritesAreReconciled` | `LostWriteReconciled` | panel |
| `PushesStayBelowTarget` | `PushesOnlyBelowTarget` | panel |
| `LoweredInMeasure` | `LoweredOnlyInMeasure` | panel, lag |
| `NoPushUnderReduction` | `NoPushWhileReduced` | panel, lag, leak |
| `ConfirmedStopStands` | `ConfirmedStopHolds` | panel, lag |
| `EnabledByVerdict` | `EnableMatchesVerdict` | panel, configure |
| `ArmedAbovePressure` | `ArmedAboveActual` | panel; lag and drift, or else rate pauses |
| `DrivenUpward` | `NeverDrivenDown` | panel, configure, lag, drift |
| `NoStepOnStep` | `StepsNotStacked` | panel, configure, lag, drift, leak, resume |
| `ControllerImplementsDrive` | `ImplementsDrive` | the same |

A front panel may set any output and any setpoint at any instant, so no promise about what the device does survives it. A late output
state shows Measure for an output that is on. Drift lifts the gas above a hold that waits for its read-back, a leak lets it fall
below the pressure a hold was taken at or a staged step was sized from. A pause and a resume that both fall inside one tick forget the step in flight and
leave Control on (`NoStepOnStep` holds with pauses alone). A configuration update forgets the last command but not the staged setpoint. Without the setpoint in the status neither the
last command nor a staged one is compared with the device.

The arguments:

- *Types.* `TypeOK` alone is not inductive: that a plan exists when it is written, that an issued step has a status in Control under
  it, and that a usable tick has an estimate are facts carried from one place of the tick to the next (`CarriesOver`).
- *Enabling* (`IInv`). The output is enabled when the stop is not intended, and the stop is lifted only at two places, after a fresh status
  that shows the setpoint waiting for it. So: a status read in this tick still shows the device's setpoint (`ReadBackTrue`: the polling
  thread is its only writer); what waits for its read-back is the last command (`WaitsForLastCommand`); nothing else waits while
  a setpoint is on its way (`WritesAlone`); and while Control is wanted, either the device holds the last command or some status already shows
  that it does not, and that the output is in Control: the next verdict finds the mismatch, and while the grace keeps it from looking there is nothing to
  enable (`DriveVetted`). The last is the case of an issued step whose answer was lost and
  which was not applied, the reason why `EnableVetted` is not just an invariant of the arming step.
- *Writing* (`WriteInv`). Between a decision and its write only the operator's flags can change, since everything else takes
  the lock: a verdict that allows a write has compared the setpoint unless the command was within its grace (`VerdictCompared`), and what it decided is still true of the sample, the target and the
  ceiling when the write is sent (`WriteVetted`, `PlanVetted`). The action properties follow step by step from this and from
  what a status says of the output (`OutputSeen`) and of the pressure (`PressureSeen`).
- *Stopping* (`QuitInv`). Once `stop_and_confirm()` has had the lock, a tick in progress has found the abort or is past its enabling write.
- *Driving* (`DriveInv`, `StackInv`). A staged setpoint was sized above the gas in Measure, where it has only fallen since (`StagedSteady`); a
  hold waits in Measure (`HoldInv`); with Control on, wanted or about to be enabled the gas is not above the setpoint (`DrivenUp`). For the
  upper bound: no status, however old, shows the gas ahead of itself (`StatusBehind`); the step in flight covers the setpoint of the device, also when
  its write was lost (`PendingCovers`); with nothing in flight the gas has arrived (`Arrived`); and a step is forgotten
  between two ticks only under a flag that the next tick sees (`AbandonFlagged`), which is what a resume would break. Stating them over any
  tolerances is what made the properties precise: a hold may be armed a tolerance below the gas, and a step may start an arrival tolerance early.
- *The refinement.* Each step of the controller is one of `OneSidedDrive`'s or leaves the device and the last command alone. A write is a
  `Stage` or an `Advance` by `WriteInv`, `NotRisen` and `PressureSeen` (in Measure the status' pressure *is* the pressure) and
  `IssueArrived`; an output write is an `Enable` by `EnableVetted`, `DrivenUp` and `OneAhead`; an operator's STOP is a `Disable`, a reset a `Forget`.

### The instance lock

`InstanceLockProofs`, under `~Overlap` (two processes are not inside `acquire()` at once; without it
`lock_stale` is a counterexample):

- `LockExcludes == ~Overlap => (Spec => []MutualExclusion)`, for any set of pids, any file found and kills
  anywhere. `IInv` says that the file names the owner (`OwnerNamed`), that whoever is judging has seen that
  name (`SeesOwner`), and so whoever writes has nobody else owning (`WriterAlone`).
- `NobodyLockedOut == ~Overlap => (Spec => NeverLockedOut)`: whoever judges is alone in `acquire()`, so the live process
  it found in the file is holding or leaving.

### The session

`SessionProofs`, for any endpoints and both front ends:

- `SessionTypeCorrect == Spec => []SessionTypeOK`, one lemma per group of variables; the manifest's
  part rests on `LogMoves`: whatever a step does, the manifest takes one of its own steps or none.
- `NothingClosedUnderTick == Spec => []NothingAfterClose`. `ClosedInv` says at which places of the main thread what is
  closed, and that behind the join the polling thread has ended and cannot be started again.
- `EndReasonIsTrue == Spec => []EndReasonTrue`. The GUI's two writers of the manifest share a file and no lock, and never meet: Control is
  marked as started before the thread exists and the run is ended after it is gone (`OneWriter`). So every file holds the record it was
  written from, and the record says what happened so far (`Truthful`).
- `DrivesOnlyOwnedAlways`, `EnabledWhereStagedAlways`, `ConfirmedStopLasts`, under `Updates = FALSE` (Save & Apply after Stop clears the latch the
  argument rests on). None of the three properties is inductive: a tick
  that began before Stop goes on while the main thread changes the endpoint. The argument is that whenever the endpoint changes, or
  the final STOP is confirmed, the session is `Silent`: a tick in progress can send nothing but a STOP. `abort()` makes it so in
  two halves, its latch turning every later verdict to "abort", and its wait for the controller's lock letting an
  earlier tick end. `SafeInv` has a part for each piece: `Latched` (where the latch is set), `Stopping` (what the flags say while a tick decides),
  `Held` (the lock of the client's endpoint is ours), `Ours` (what is staged and in flight belongs to that endpoint), `Quiet`
  (the silence), `Confirmed`, and `Order`, the order of the threads' places. One lemma per part, one step per group of actions.

### Sensing

`SensingProofs`, for any windows, limits, idle times and values:

- `SilenceIsBounded == Spec => []SilenceBounded`. `SilenceInv` relates the true lengths of a silence to the code's counters: `blind` is the age the
  supervisor looks at (`BlindSeen`); without a streak of errors the last status is as old as the last poll, with one it is older by
  the streak's age and one late tick (`PolledInTime`, `StreakCounts`).
- `SensingTypes == Spec => []SensingTypeOK`, which needs that a median of values is one of them, and that histories stay as long as their windows
  (`WindowsOK`).
- `ChoicesCover == ASSUME ReadsInTime, WindowsHold PROVE Spec => WithinChoices`. A tick whose reads take longer than `max_stale_sample_s` may be stale
  at once, against which no choice of the controller's model would help (`ReadsInTime`). `WindowsHold` says that the longer window holds
  a row of `min_points_for_valid` samples when every tick is the slowest one, for any such number: with the shipped three points and six seconds it means
  twice the idle time plus three times the reads within six seconds. The history variable `good` counts the samples accepted in a row: from the
  `min_points_for_valid`-th on, an accepted sample keeps a usable filter usable without any fault (`RowOK`: the row's j-th sample from the end is at most
  `Span(j)` old, so that none of it has been pruned). Shorter rows follow a rejected or failed read, or the start; there the filter
  may be valid, then not, then valid again, because old points are pruned while new ones come in, and `UsableIn` allows that under the fault `ruby`. At the start
  itself the filter first becomes valid with the row complete. A `Controller` run without `ruby` therefore speaks of sample sources that deliver, in
  configurations with `WindowsHold`.

### Step sizing

`StepSizingProofs`, without further assumptions:

- `StepSizingTypes == Spec => []StepSizingTypeOK`, one lemma per group of variables.
- `OnlyCleanLearned == Spec => []LearnedIsClean`: what is learned is what clean interruptions have shown (`LearnInv`).
- `SmallerUntilSettled == Spec => []SmallerAfterRatePause`: after a rate pause the sizing is forced to a probe no larger than what remained (`SmallInv`).
- `BudgetIsKept == Spec => []BudgetHolds`. That a sum grows by what is added to a term, and that ageing the window does not let it grow, are
  lemmas by induction over the window (`UpTo`, from the least element of a set of naturals, since the induction theorems of the library
  cannot be instantiated).
- `SettledTruly == Spec => []SettledIsReal`. `ClockInv` says how far the drive clock may run ahead of Control (`DriveClock`, the grace) and that a settled
  time has been flat for longer (`FlatSince`). The attempt to prove it found the ghost `quiet` wrong: it was cleared by a tick that computes no slope, while
  `_settled_since` survives such a tick; the ghost is now cleared by a slope that is not flat, and by trouble.

### The schedule

`ScheduleProofs`, for any list of steps, wait and queue:

- `ScheduleTypes == ScheduleSpec => []ScheduleTypeOK`.
- `StepsPassAtTarget == ASSUME WellRead PROVE ScheduleSpec => ReachedAtTarget`, with `WellRead` every tick having a reading (`sched_nosample` is the
  counterexample without) and no configuration update. A HOLD decided in a tick is true of that tick's reading (`HoldTrue`); before the first sample nothing holds
  (`NothingUnread`); every snapshot in the queue is such a tick's (`InboxTrue`), however long it waits; and
  only `AwaitTarget` ends a set step, having compared the snapshot's own target with the step's.
- `DrivenController`: when the schedule's targets are among those the operator may set, every behaviour of a scheduled controller is one of `Controller`'s,
  so that all its theorems hold of it.

### Only model-checked

Liveness: `Reapproaches`, `AbortLeadsToMeasure`, `GoodReadsClear`, `ScheduleFinishes`, `LeaveEnds`; `ENABLED` and
fairness are out of the prover's reach. No module declares a RECURSIVE operator: sums are recursive functions, which the prover can unfold.

## 5. Not modelled, and the plan

Not modelled: parsing of the ruby client's answers, YAML and environment variables, argument parsing, plots,
dialogs and widgets, CSV rows: they keep no control state, or only what the modelled parts already allow
them. Dry-run and the legacy gain regions change what is sent and how large, not the order of anything. The value
of a gain (percentiles over observations) is any number, which covers every gain but proves nothing about the estimate itself.
A lock file that holds valid JSON which is not an object raises an uncaught error in `instance_lock.py:124`; `Junk` stands for
content that does not parse.

The order of work was: device, supervisor and controller first, because everything that can go
wrong with pressure is there; then the lock; the schedule on top of the controller; the counters and clocks the
controller's model abstracts; the life of a process around them. Still to come, in this order:

1. `Session`'s lock steps, one `acquire()` and one `release()` each, shown to be an abstraction of those of `InstanceLock`.
2. Fewer hypotheses: `NoStepOnStep` with leaks, `NoPushUnderReduction` with leaks, and statuses without the setpoint where no lost write meets them.
3. A device closed in a loop with a sample that responds, so that `Reapproaches` can be asked of the whole approach.
4. Dry-run and its substituted statuses.
