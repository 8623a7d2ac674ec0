# Verification of aiolos

aiolos is a fan and airflow orchestrator: one process that supervises a set of
device modules ("anemoi"), polls them on a schedule, and routes what some of
them measure to those that drive fans or power limits.  A wrong interleaving
here means a device left in manual control with nobody regulating it, two
processes fighting over it, or a fan driven by temperatures of a sensor that
died.  This directory holds TLA+ modules of that system, the TLC runs that check
them on small instances, and the theorems TLAPS proves about them.

## The system

| part | source | state | operations |
|---|---|---|---|
| main loop | `aiolos/src/main.rs` | `AppState` (`instances`, `blackboard`, `sched`, under one `RwLock`), the results channel's receiver, the supervisors' handles | watchdog, reap reports, dispatch due instances with routed inputs, graceful shutdown |
| module supervisor, one thread per module | `aiolos/src/module.rs` | `running`, `last_found`, `spawn_counts`, `backoff`, the detect child | detect, reconcile, spawn, reap, clean-up on panic |
| instance worker, one thread per instance | `module.rs:530`, `aiolos/src/instance.rs` | the child, its pipes, its command channel, `ActiveGuard` | tick (one request and reply), shutdown, drop |
| SDK, in each child | `anemos/src/run.rs`, `stdio.rs`, `controller.rs`, `curve.rs`, `damper.rs`, `signal_curve_policy.rs` | the open device, the curve, the smoothing | serve apply and shutdown lines, restore at shutdown, EOF or signal |
| device modules | `anemoi/*` | claims on a device, fault counters | apply, restore |
| transports | `tech/*` | what the device was told last, which outlives the process | writes that fail, or take effect and are reported failed |
| configuration | `config.rs`, `registry.rs` | read once at start | parse the file into modules, their inputs and their schedules |
| wire types, status page | `protocol`, `status_page.rs` | none that matters here | (de)serialisation, rendering |

How they interact:

* A supervisor forks a child, publishes its entry, and starts the worker that
  owns it.  The main loop finds the worker's `Sender` in the entry; the worker
  answers on the shared results channel.  Entry, signals and scheduler slot of
  one key are three maps written by the main loop *and* the supervisor.
* A report carries the generation (`restart_count`) of the instance that made
  it; the main loop drops it unless the entry of its key has that generation.
* A worker ends after a fatal report, a `Shutdown`, or when its channel has no
  sender left.  The supervisor polls for ended workers, removes their state and
  spawns again after a backoff.
* At a signal the supervisors stop by themselves and the main loop tells every
  instance to stop, waits for the workers up to a deadline, and exits; what is
  left of the children sees EOF on stdin.

What is hard: five kinds of actors interleave over `AppState` and two kinds of
channel; decisions are made under the lock and acted on after it; reports arrive
after their instance was removed or replaced; supervisors can panic between any
two steps; shutdown races spawning.  Below that, two processes talk over byte
pipes under deadlines, and a device keeps what it was told by a process that is
gone, while files it is regulated by are edited and writes fail half-way.
`PROJECT.json` lists the hazards line by line with the properties that cover
them.

What makes each part correct:

* main loop: one request in flight per instance; only fresh signals of live
  instances are routed; no slot is busy for ever; a signal ends in an exit.
* supervisor: one process per device; nothing survives its removal; a panic
  leaves a clean slate.
* worker and child: every request is answered, or the worker ends and its child
  is gone.
* SDK and devices: half-duplex protocol; whoever leaves hands the device back;
  fans never below what curve, floor and policy ask for; faults compensated.

## Modules

| module | what it is |
|---|---|
| `Orchestrator` | the aiolos process: main loop, supervisors, workers and children, with its properties |
| `Tenancy` | abstract specification of who drives a device |
| `OrchestratorTenancy` | the refinement mapping from `Orchestrator` to `Tenancy` |
| `MCOrchestrator` | the constants of the runs |
| `OrchestratorProofs`, `InFlightProofs` | theorems about `Orchestrator` and their proofs |
| `TenancyProofs` | who drives a device: one process at a time, and the implementation of `Tenancy` |
| `Config` | what `aiolos.conf` means: modules, inputs, schedules |
| `InstancePipe` | one worker and its child over byte pipes, and the respawn backoff |
| `InstancePipeProofs` | theorems about `InstancePipe` and their proofs |
| `BoardFans` | the rome2d-fans process and the BMC: one apply, every way out, the stop of the service |
| `BoardFansProofs` | theorems about `BoardFans` and their proofs |
| `Curves`, `CasePolicy` | pure operators: curve files, interpolation, damper, controller; the case-fan policy |
| `Rome2dFans`, `MCRome2dFans` | what duty each fan of the board gets, tick after tick |
| `Rome2dFansProofs` | lemmas about the damper and theorems about `Rome2dFans` |
| `Nvml` | one GPU behind the library: outcomes of each function |
| `GpuFans`, `PowerCap` | the fan process and the power-cap process of a GPU |
| `Nvidia`, `MCNvidia` | both processes on one GPU, and the service around them |
| `NvidiaProofs` | theorems about `Nvidia`, `GpuFans` and `PowerCap` and their proofs |
| `ChannelFans`, `MCChannelFans` | the it87 device: channels claimed and handed back one by one |
| `ChannelFansProofs` | theorems about `ChannelFans` and their proofs |

What composes what: `Nvidia` composes `GpuFans` and `PowerCap`, which share
`Nvml`; `Rome2dFans` builds on `CasePolicy`, and that on `Curves`;
`MCOrchestrator` takes the routing of a run from a `Config` file.  The
device modules stand below `Tenancy`: what it promises of the processes of a
device (a new one may start while a dismissed one is leaving) is what their
environments do.

### Orchestrator

The state is the code's: `instances`, `blackboard`, `sched` (a slot is
"absent", "idle" or "busy"), `running`, `lastFound`, `spawnCounts`, the channels
`cmds[w]` and `results`, and a program counter for the main loop (`mpc`), for
each supervisor (`spc`) and for each worker (`wpc`).

* **Incarnations.**  Each spawn is a fresh number `w`, with the key and the
  generation it was spawned with.  The code cannot tell two incarnations of one
  key apart except by generation; the model can, and that is how the properties
  say "the instance that produced it".  `instances[k]` and `blackboard[k]` hold
  the incarnation whose entry or signals the key has.
* **Grain.**  One action per critical section, send, or step of a thread
  between two points where another thread can act.  `dispatch_due` is
  `Dispatch` (under the lock) and one `SendTick` per request (after it).
  `apply_results` holds the write lock for a whole batch: it is one `ApplyReport`
  per report, and `LockFree` keeps the other writers out until the batch is done.
  `spawn_instance` is `SpawnChild`, `Publish`, `StartThread`.  `reconcile` is
  `ForgetVanished` + `RemoveState` per vanished id, `CollectToSpawn`, then the
  spawns.  `graceful_shutdown`'s snapshot and sends are one action: a later send
  only delays a delivery.  The kill of a child that timed out and the post of its
  report are one action.
* **Time.**  Which idle slots are due (`Dispatch`) and which backoffs have
  expired (`CollectToSpawn`) are choices, so every schedule is covered.
  `SUPERVISOR_RESPAWN_BACKOFF` and `base_tick` are a choice of the loop too.
  `ExitForced` may happen whenever a worker is active: a deadline that is passed
  arbitrarily early includes the real one.
* **Outcomes of an apply** (`Status`): an ok report with signals or without
  ("empty"), a declared error or fatal, and the backstops.  A crash of the child
  appears as "dead" at the next apply, as the code learns of it.
* **Alive** means the child *may* be alive: a worker that posted "dead" keeps its
  child among the live ones until its drop has waited for it.
* **Detect** is one step: an ok list replaces `lastFound`, every other outcome
  keeps it.  A list says how often each id occurs.
* **Panics** are at the calls of the supervisor that can raise one (starting a
  thread, and anything in detect).  The unwinding drops what `spawn_instance`
  holds, then `Supervisor::drop` runs step by step.  A panic of a worker is not
  modelled.
* **Left out:** detect health, the stderr tail, logging, counters of the status
  page, poisoned locks.

### Tenancy

A key has at most one tenant; a dismissed process may run for a while (it
restores its device) but is never tenant again and leaves in the end; a new
tenant is a new process.  `OrchestratorTenancy` maps a tenant to a child whose
worker may still run applies and has no `Shutdown` in its channel.  The new
tenant may arrive while the old process is leaving: this is what the code does
when a unit vanishes and returns, or after a panic, and it is why
`OneProcessPerDevice` needs stable units.

### BoardFans

Below the orchestrator, one device: the processes started for the board, one
after another, and the BMC they command.

* **The BMC** is external and is modelled from how `board.rs` and its spec use
  it: a claim takes the fans out of "auto" into manual mode with no duty
  ("bare", the minimum-speed trap), a duty is accepted in manual mode only
  ("driven"), a release goes back to "auto".
* **A command** (`Raw`) is accepted, refused, or executed with its reply lost:
  `raw_with_timeout` reports the last two alike.  What the fans are told is one
  value; a duty payload is always valid (`duty_payload` clamps and mirrors it).
* **One apply** is one action per command, in the order of `regulate`: claim
  unless `claimed`, set, claim again, set again, give up.  `Blind` is
  `release_or_error`.  Whether there is a temperature and a curve is a choice.
* **stdin** is at most one request (the protocol is half-duplex) and whether it
  is closed behind it; `term` is the flag of the signal handler.  A request is
  read only before the flag is seen, and stdin's end after the request.
* **Startup** opens the device, finds the curve invalid, or fails to open it; the
  last two are answered fatal.
* **The end** is `restore`, then `Drop` if that failed; then, when no process is
  left and the service is stopped, `aiolos restore`.  `Start` allows what
  `Tenancy` allows: a new process while dismissed ones are still leaving.
* **Faults** are counted, so that a property can say how many it takes: a
  refused command or a lost reply is one, a SIGKILL two, because it takes away
  both attempts a process makes at its end.  The ghost `unheard` remembers a claim
  whose reply was lost.
* **Left out:** a panic in `apply` (the device unwinds through `Drop`), the
  one-shot modes other than `restore`, a signal before the handler is installed
  and a child forked after the SIGTERM of a stop (it has touched nothing).

### Config

Lines are already cut into words, and a value is a number with a suffix or
"bad".  `MCOrchestrator` states what the rest of the system relies on as
assumptions that TLC evaluates over all files of two lines with values around
every clamp: no wake, cadence, timeout or backoff is 0 (`ConfigIsUsable`), the
shutdown grace covers every timeout (`ShutdownGraceCoversApplies`), a name with a
':' is never routed (`NamesAreRoutable`), and a cadence is kept to within a wake
(`CadenceIsKept`).  The wiring of the routing run is `InputMap` of a file that
names a source twice and another one that does not exist.

### InstancePipe

`Instance::tick`, `shutdown` and `drop` on one side, `StdinReader::next_event` and
`run_loop` on the other.

* A byte is a token <<what, tag>>.  The tag says which request it belongs to;
  neither side can see it, and the properties can.  Pipes have a capacity, a read
  takes at most a chunk, the buffers have the limits of the code.
* The child may print noise, crash, hang in a device call, be told to stop by a
  signal at any point, or answer ok, error or fatal.  Noise may contain newlines
  and complete lines.
* `late` is the deadline of what the worker does, and may pass at any step.  A
  deadline or a cut write kills; EOF does not need to.
* The supervisor's part is `Failures` (record_failure and record_fatal), `Delay`
  and `BackoffExpired`, over a clock that runs while there is no child.
* Left out: two requests of one tick (there is one in flight: `OneApplyInFlight`),
  and EINTR and non-blocking retries, which are steps that change nothing.

### Curves, CasePolicy and Rome2dFans

`Curves` and `CasePolicy` are functions from what a tick reads (files, signals)
and the state kept before to the state after.  A file is what reading it gives:
missing, garbled, or an object with entries good and bad.  The average of the
damper is a float in the code and a multiple of half a degree here, rounded
towards the reading, so that an average that rises reaches its reading as the
float does to within rounding.  Temperatures are those from 0 up, and -1 stands
for none.

`Rome2dFans` is one process between its start and its replacement.  What a tick
finds (files, signals, tachometers, whether the board obeys) is a *surrounding*;
a world is a set of surroundings any of which may come next.  A tick releases
(`Release`), sets (`Set`) or fails to set (`Fail`), and the three differ in what
is reset afterwards: the controller of the SDK by `run_loop`, the zones by the
device, the policy's dampers by nobody.  What becomes of the board is `BoardFans`.

A tick reads some things twice, and a surrounding says what each read gives.  A
zone file is read to make the controller, by the first apply (`made`), to decide
whether there are zones (`probed`: `both_present`, with caches it throws away),
and to regulate (`used`: the reload of `Controller::duty`); the CPU's sensors are
read to regulate (`cpu`) and to report and judge the overlay (`local`).  This is
where the code differs from what it promises: `curve.rs:5` says a half-written
file "never disrupts fan control", and `anemos-rome2d-fans.spec.md:153-157` that
a broken curve keeps the last-good one and is no reason to release.  A zone
controller that never had a curve has no last-good one; when its file is whole at
the probe and broken at the read, the tick releases the board with "zone mode: no
usable curve" although both temperatures are there, and the main curve too.
`EditsKeepControl` states what is true: this (`Torn`) is the only way an edit
costs control, and it ends with the first tick that reads the zone's file whole.
Surroundings `zoneTorn` and `zoneLost` are such ticks.

The dampers of the zones and of the policy keep their average over a set that
fails, as the code has it; `UniformStartsFresh` is about the uniform controller
only, and no property bounds how far from the reading the others may be then.

### Nvml, GpuFans, PowerCap and Nvidia

A library function is the set of its outcomes: its result and what became of the
fans or the limit.  `RestoreFans` returns Ok whoever of the fans obeyed, as the
code does; `Write` may take effect and be reported failed (`power.unheard`
remembers that, and two properties except it).  `GpuFans` is `nvidia run`,
`PowerCap` is `nvidia-powercap run` with its adoption of a limit it finds at
open, and `Nvidia` lets them act on one GPU through handles of one library,
beside `info`, which opens, looks and drops.  Each module's apply is one action:
the two processes touch different halves of the device.

### ChannelFans

The sysfs writes of it87 are actions of their own, channel by channel, because a
successor and a process that is leaving work on the same channels, and because
the file that names the channels can be edited in between: a process keeps the
wiring it read at its start, the one-shot reads it again.  A duty is one value.
A channel is "stale" between the two writes that take it.

The board's EC is an action of its own (`Reclaim`): it may take any channel back
at any time, which is why `set_pwm_duty` writes enable=1 every tick
(`tech/hwmon/src/lib.rs:133`, `anemos-it87.spec.md:39-41`).  One that comes between
the two writes of a channel is like one right after them.  `taken` remembers what
the EC took since an apply last began, so that a report can be told wrong (the
code's doing) from overtaken (the EC's): a claimed report is true of every
channel but those, and they are claimed again by the next apply.

## Runs

| run | instance | shows |
|---|---|---|
| `duplicates` | 1 module, 1 id, lists with the id 0 to 2 times, 2 spawns | `TypeOK`, `OneApplyInFlight`, `NothingOrphaned` |
| `hotplug` | 1 module, 1 id that comes and goes, 2 spawns, fair | `SignalsFromHolder`, `RoutedOnlyWhileOk`, `InFlightIsBusy`, `NoSlotWedged`, `ShutdownCompletes` |
| `routing` | producer and consumer module, children that crash, 3 spawns | `OneProcessPerDevice`, `RoutedInputsAreLive` |
| `tenancy` | hotplug and one supervisor panic, fair | `ImplementsTenancy` |
| `board_nets` | 2 processes, 3 faults of any kind | `NotStranded`, `BareIsAttended`, `ServiceStops`, `TrapEnds`, `TypeOK` of `BoardFans` |
| `rome` | 4 fans, 4 worlds of 5 to 10 surroundings, lasting 40 and 44 degrees | `NeverUnderCurve`, `EditsKeepControl`, `FailsHigh`, `ConfirmedIsEarned`, `UniformStartsFresh`, `DeadFanCompensated`, `Settles`, `TypeOK` |
| `nvidia` | 2 fans, 4 power situations, 3 faults of each half | `FansNotStranded`, `FanSinkTrue`, `PowerNotStranded`, `PowerSinkTrue`, `GridObeyed`, `TypeOK` |
| `channels` | 2 channels, 2 wirings, 2 processes, 2 faults | `AllOrNothing`, `NotStranded`, `ControlReturns`, `TypeOK` |
| `pipe` | pipes, chunks and lines of 2 tokens, requests of 2 or 5, max_backoff 1 or 3 | `HalfDuplex`, `SignalIsHeard`, `RespawnIsPaced`, `TickReturns`, `LeavesNoChild`, `TypeOK` |
| `board_claim` | 1 lost reply | violates `ClaimFailedMeansUnclaimed` |
| `cap_handover` | 2 processes, no fault | violates `GridObeyed` |
| `pipe_backoff` | as `pipe` | violates `OneFailureIsShort` |

**Bounds.**  `MaxInc` bounds the spawns and `MaxPanics` the panics; with no spawn
left a supervisor's `Instance::new` fails (`SpawnNothing`), so the bound does not
deadlock the model.  Two spawns of one key are a predecessor and a successor,
which is what every hazard of a key needs; the third in `routing` lets producer
or consumer restart beside the other.  Keys do not interact except by routing,
which `routing` has and the theorems cover for any number.  Ids are a set of one
in the runs because a second id of a module behaves as a second module does,
apart from the order of its supervisor's loops.

Of `BoardFans`, two processes are a predecessor and a successor that overlap.
Three faults are what `NotStranded` allows for: with four one would only check
that more of them strand the board, and with fewer the last net is never lost.
`TrapEnds` speaks of two faults and no SIGKILL: with three, or with a process that
is killed in the trap, the board can be left there until the next start or stop.

In `nvidia` a kill counts two faults and everything else one, so three are a kill
and a failed one-shot, or a failed restore, drop and one-shot: what strands a
half of the GPU.  `MaxProc` is 1 there and 2 in `cap_handover`, whose violation is
the reason.  `channels` has a predecessor and a successor, faults for a set
and a hand-back in one apply, and an EC that may take both channels.  In `rome` two fans per zone are a dead one and its
sibling; every file, signal and tachometer is usable, broken and gone in some
surrounding; streaks stop counting at `StreakCap`, where the code tells nothing
apart any more.  In `pipe` every size is the smallest at which a line needs two
reads, a pipe fills up and a buffer floods; `Saturate` is the shift from which
2^n exceeds every backoff, as the code's 32 does.

**Fairness.**  Weak fairness of the main loop, of each supervisor, of each
worker, and of each child after the process has exited: they are threads and
processes the operating system schedules, every wait of theirs is bounded by a
timeout (`tick`) or a grace followed by SIGKILL (`shutdown`, `drop`), and locks
are held for bounded steps.  Nothing is assumed of signals, panics, detect
replies, apply outcomes or of which slots are due.  In `BoardFans`: each process
(every command is bounded by `RESP_TIMEOUT`), the next request of the main loop,
the worker that hangs up, and systemd's ExecStopPost; nothing is assumed of
starts, dismissals or stops.  In `InstancePipe`: the worker, the supervisor's
poll, the child between its device calls, and time; a device call may last for
ever.  In `Rome2dFans` and `Nvidia`: the next apply of a process that is asked
(`beat` makes an apply a step even when nothing else changes).  In `ChannelFans`:
each process, whose writes return, and which is asked again and again; nothing of
the EC.  Hence `ControlReturns` says of each channel that the process that stays
has it again and again, and that it keeps all of them only when the EC has given up.

**What the violations say.**

1. `board_claim`: a claim whose reply is lost was executed; `regulate` takes the
   error for "nothing claimed" and returns without a release, so until the next
   apply the fans run at their minimum with nobody at work on them.  `TrapEnds`
   says the next apply or the way out repairs it.
2. `cap_handover`: a GPU that vanishes from detect and returns while its capping
   process is leaving gets a new process, which finds the cap and records it as
   its own; then the old one restores the firmware default.  The target is on
   record, so the new one never writes it again and reports "claimed" for as long
   as the machine stays on battery.
3. `pipe_backoff`: the failure count of an id survives any time of healthy work,
   so an instance that fails once a day ends up waiting for `max_backoff` each
   time, although "consecutive failures" is what the comments count.

A supervisor that panics is outside the passing runs of `Orchestrator` other than
`tenancy`.  With `MaxPanics = 1` TLC finds `SignalsFromHolder` violated in the
instance of `hotplug` (generations start again at 0, so a predecessor's late
report is taken for the successor's, which `instance.rs:109` says cannot be) and
`OneProcessPerDevice` in that of `routing` (`Supervisor::drop` does not wait for the
children it dismisses); `NothingOrphaned` and the safety part of
`ImplementsTenancy` are proved for any number of panics.

## Proofs

TLAPS checks these for every value of the constants: every set of modules, ids,
fans or channels, every world, policy and wiring, every number of processes,
spawns and faults, pipes and lines of every size.

| theorem | states | of | assumes |
|---|---|---|---|
| `TypeCorrect` | `Spec => []TypeOK` | `Orchestrator` | |
| `NothingIsOrphaned` | `Spec => []NothingOrphaned` | | |
| `RoutedSignalsAreOwn` | `Spec => []SignalsFromHolder` | | `NoPanics`, `UnitsOnce` |
| `RoutedSignalsAreOk` | `Spec => []RoutedOnlyWhileOk` | | `NoPanics`, `UnitsOnce` |
| `RoutedInputsAreOwn` | `Spec => RoutedInputsAreLive` | | `NoPanics`, `UnitsOnce` |
| `OneInFlight` | `Spec => []OneApplyInFlight` | | `NoPanics` |
| `BusyWhileInFlight` | `Spec => []InFlightIsBusy` | | `NoPanics` |
| `OneProcess` | `Spec => []OneProcessPerDevice` | | `NoPanics`, `UnitsStable` |
| `TenancyIsKept` | `Spec => Abstract!Safety` | `OrchestratorTenancy` | `UnitsOnce` |
| `PipeTypes` | `Spec => []TypeOK` | `InstancePipe` | |
| `RepliesMatch` | `Spec => []HalfDuplex` | | |
| `SignalHeard` | `Spec => []SignalIsHeard` | | |
| `RespawnPaced` | `Spec => []RespawnIsPaced` | | |
| `TypeCorrect` | `Spec => []TypeOK` | `BoardFans` | |
| `NeverStranded` | `Spec => []NotStranded` | | |
| `TrapIsAttended` | `Spec => []BareIsAttended` | | |
| `BoardTypes` | `Spec => []TypeOK` | `Rome2dFans` | |
| `CurveIsFloor` | `Spec => []NeverUnderCurve` | | |
| `ControlSurvivesEdits` | `Spec => EditsKeepControl` | | |
| `OverlayFailsHigh` | `Spec => []FailsHigh` | | |
| `ConfirmedEarned` | `Spec => []ConfirmedIsEarned` | | |
| `OutageForgets` | `Spec => UniformStartsFresh` | | |
| `NvidiaTypes` | `Spec => []TypeOK` | `Nvidia` | |
| `FansGoBack` | `Spec => []FansNotStranded` | | |
| `FanReportTrue` | `Spec => []FanSinkTrue` | | |
| `CapIsLifted` | `Spec => []PowerNotStranded` | | |
| `CapReportTrue` | `Spec => []PowerSinkTrue` | | `MaxProc = 1` |
| `ChannelTypes` | `Spec => []TypeOK` | `ChannelFans` | |
| `ReportIsWhole` | `Spec => []AllOrNothing` | | |
| `ChannelsGoBack` | `Spec => NotStranded` | | |

**Assumptions of theorems.**  `NoPanics` is `MaxPanics = 0`; `UnitsOnce` says no
reply names an id twice, `UnitsStable` that every reply names every id once.  A
panic needs to be excluded because generations restart after it: the late report
of a predecessor then idles the slot of its successor.  A unit that vanishes and
returns shows the need of `UnitsStable`.  `MaxProc = 1` in `CapReportTrue` is the
lesson of `cap_handover`: with two processes the one that leaves restores the limit
behind the back of the one that stays, whose report is then wrong.

**Assumptions of constants** are the ASSUMEs of the modules, which TLC evaluates in
the runs.  They say that a number is natural or a set finite, except for these:
files and readings of a surrounding are those a file or a sensor can be
(`SurroundingsAssumption`); a cap is a percentage from 1 to 100, as `Policy::parse`
clamps it (`GridsAssumption`); a device prints no report of its own, which is
"stdout is protocol-only" of the design (`NoiseAssumption`); and the powers of two
up to the saturation are positive (`SaturateAssumption`), because the prover knows no
exponentiation.

### The arguments

* `NothingOrphaned` is inductive with the type invariant and `InHand` (a
  supervisor about to publish has an incarnation in hand): every removal clears
  the three maps in one critical section, slots are made only for live entries,
  and signals are stored only through an entry.
* `SignalsFromHolder` rests on the stale-report guard, which compares
  generations.  It is sound only if generations identify incarnations, so the
  inductive invariant `OwnerInv` adds: no supervisor is unwinding (`Steady`);
  incarnations in use are keyed by the module that spawned them and have a
  generation below its count (`KeyedRight`); two incarnations of a key differ in
  generation (`GenerationsDiffer`); an entry is the running incarnation or the one
  being started or removed (`EntryIsRunning`); an id left to spawn is not running
  (`SpawnsOnce`).
* `OneApplyInFlight` counts: applies about to be sent, in the channel, in the
  worker's hands and reports not yet applied are one sum per incarnation.
  `FlightInv` adds to the generations that nothing is sent to an incarnation before
  its entry is published (`Untouched`, `Unpublished`), and that a dispatch whose
  key has found another holder meanwhile finds nothing in flight there
  (`SendsRight`): this is the race between the lock released by `dispatch_due` and
  the send that follows.
* `OneProcessPerDevice` adds that a live child is the one its supervisor runs or
  has in hand (`ChildHeld`), that nothing running is ever found vanished
  (`NeverVanished`), and that a child being published has only its child
  (`OnlyChild`): then a second live child of a key would be a second value of
  `running` at that key.
* `TenancyIsKept` maps every step to one of `Tenancy` or to a stutter.  With panics
  a supervisor may forget what it runs, so `TenantInv` speaks of tenants instead of
  children: a tenant is the one its supervisor runs or is starting, until the
  shutdown (`TenantHeld`); a dead supervisor has told all it ran to stop
  (`DeadRunsNothing`); and nothing is sent to an incarnation before it is spawned
  (`UnbornQuiet`).
* `HalfDuplex` needs the bytes in every place seen as two lines.  In `PipeInv`
  the child's buffer, the pipe to it and what is left to write are one request
  that ends in its newline; the worker's buffer, the pipe to it and what is left
  to say contain one report, at their end; nothing is said before the request has
  been read to its end (`Wire`), and both are empty when the worker is idle
  (`Bare`).  Each read, write, split and cut takes an infix or moves a boundary.
* `SignalIsHeard` adds that a child in its last apply has no further line in its
  buffer (`Heard`), and `RespawnIsPaced` that the failure count says how the
  instance ended (`Paced`).
* `NotStranded` of `BoardFans` counts nets.  Its invariant `Caught` says that under
  a board that is not in auto there is a process with the device open that has not
  begun to drop, or one that is dropping and a fault, or two faults; `NobodyAtRest`
  that no process lives while the service is down.  The one-shot then makes the
  third.  `FansOwed` and `CapOwed` of `Nvidia` and `Owed` of `ChannelFans` are the
  same count per half of the GPU and per channel; in `CapOwed` somebody must have
  the restore armed (`HoldsCap`), a successor that adopted the cap included.
* `BareIsAttended` needs `GiveUpForReason`: a process that gives up in the trap
  has seen a fault, because a duty is refused without one only in auto, or
  another process brought the board there since and is still trying.
* `AllOrNothing` needs what an undisturbed process knows half-way through its
  loops: the channels it is done with are driven or were taken by the EC, or are
  back, or it has noted a failure (`Knows`).  `FanSinkTrue` and `PowerSinkTrue` need that the record is made
  from what was written and the report from the record (`RecordTrue`).
* `NeverUnderCurve` joins the damper's lemma `DeadbandBounds` to what follows it
  in a tick: overlay, policy and compensation only raise.  `RomeInv` says that the
  main controller always has a curve and every held duty is a percentage
  (`ControlInv`), and that there is a damper for every rule of the policy in force
  (`PolicyOK`).  `EditsKeepControl` needs the first of these: a broken file never
  takes the curve away, and a controller answers nothing only if it had no curve and
  has just read none (`DutyDoes`).  `FailsHigh` needs that an overlay that was asked is one
  that was seen, and `UniformStartsFresh` that the controller is empty after an
  outage (`OutageInv`).
* `ConfirmedIsEarned` is not inductive: a fan at its third tick of standing still
  is declared dead in the next step whatever the ticks above the duty floor say.
  `EarnedInv` adds that the ticks of standing still began after the grace: a fan
  has been above the floor for the grace and as many ticks more, or the count of
  these is at its cap.  Every other step keeps or clears the counters.
* `DeadbandBounds`, `DeadbandFollows`, `ClampBounds` and `SmoothMovesTowards` say of
  the operators of `Curves`, for every value, what the runs see on a few: the
  duty is never under the curve nor three points above it, a larger fall is
  followed at once, and rounding never carries the average past the reading.

Every safety property of a passing run is stated by a theorem.  Only
model-checked, because they need fairness, which is out of the prover's reach:
`NoSlotWedged`, `ShutdownCompletes`, `TrapEnds`, `ServiceStops`, `DeadFanCompensated`,
`Settles`, `ControlReturns`, `GridObeyed`, `TickReturns`, `LeavesNoChild` and the fairness
part of `ImplementsTenancy`.  What `Config` means is evaluated over bounded files
(`ConfigIsUsable` and the rest) and not proved.

## Plan

* Theorems about the pure operators: the clamps of `Config` for files of any
  length, and of `CasePolicy` that its duty is one of those its rules ask for.
* Lemmas that the liveness runs rest on, where they are safety: that a fan which
  is compensated is compensated until it turns again, and that a controller whose
  reading stands still moves towards it.
* Two pieces of model: two registry lines with one module name (two supervisors
  of one module), and the service stop around `Rome2dFans`, which so far
  `BoardFans` has without duties.

## Not modelled

* The sensor-only modules (`nvme`, `nut`, `hwmon-temps`, `ipmi-temps`): a tick reads the
  device and prints it; they hold no device state to restore.  To the
  orchestrator they are instances like any other.
* The transports under the fan modules are modelled as far as they change state or
  fail (`Nvml`, and the actions of `BoardFans` and `ChannelFans`); their formats and
  bus protocols are not.
* The it87 duty computation: `ChannelFans` keeps which channels are claimed and
  commanded, not the duties; the curve and the damper it uses are those of `Curves`.
* The `detect` and `once` modes of the SDK, which read and print and exit.
* The status page and the metrics, which only read; the mock, a test double.
