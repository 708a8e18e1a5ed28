# Verification of the CNC firmware core

This directory holds TLA+ models of the real-time core of the firmware in
`src/stm32_firmware/core-master` (grblHAL, C), the TLC configurations that check
them and proofs the TLA+ proof system checks. File names below without a
directory are in that directory.

Contents: [inventory](#inventory), [modules](#modules), [runs](#runs),
[bounds](#bounds), [fairness](#fairness), [deviations](#deviations),
[proofs](#proofs), [not modelled](#not-modelled), [plan](#plan).

## Inventory

The repository is a CNC machine: an STM32 firmware, a Qt desktop interface, a
C# web server, a web client, a Flutter application and a database dump. Only the
firmware holds a program with state; the others are screens, a product list and
a login page, listed in `PROJECT.json` as not modelled.

The firmware has three kinds of actors.

* **The foreground**, one thread. `protocol_main_loop` (protocol.c) reads a line,
  has `gcode.c` or `system.c` execute it and calls `protocol_execute_realtime`
  at its check points. That calls `protocol_exec_rt_system`, which looks at a
  pending alarm, fetches the requests in `sys.rt_exec_state`, hands them to the
  state machine, fetches overrides and prepares step segments. In a suspend
  (hold, door, sleep) `protocol_exec_rt_suspend` loops around it. A handler of
  the state machine may wait in `delay_sec`, which calls it again. Tasks of the
  scheduler (Modbus, CAN, writing settings) run there too.
* **The step interrupt** (stepper.c), which executes segments and requests
  `EXEC_CYCLE_COMPLETE` when it runs out of them.
* **Other interrupts**: real-time characters picked off the input stream
  (`protocol_enqueue_realtime_command`), control pins
  (`control_interrupt_handler`), limit switches (`limit_interrupt_handler`),
  receivers of serial ports and CAN.

They communicate by shared words: requests (`sys.rt_exec_state`), alarms
(`sys.rt_exec_alarm`), `sys.step_control`, the override rings, the segment
buffer, the task lists.

| Component | State | Operations | What makes it correct |
|---|---|---|---|
| Real-time executive (protocol.c) | requests, alarm, `sys.suspend`, `sys.abort`, call stack | check points, suspend loop, synchronization, stop, reset | no request lost; a reset always gets through; a synchronizing command finds the machine at rest |
| State machine (state_machine.c) | `sys_state`, `pending_state`, `stateHandler`, `park`, `restore_condition`, `sys.holding_state`, `parking_state` | one handler per state, `state_set`, suspend manager | motion only in states that own it; whoever waits for a motion is woken; accessories and position restored; nothing resumes with the door open; alarms stay |
| Stepper (stepper.c) | segment buffer, stepper blocks, `pl_block`, `st.exec_block` | prepare, step, wake up, go idle, reset, hold, parking | every step made once, in order, with the data of its own motion; what decelerates stops; ends every motion with one cycle complete |
| Planner (planner.c) | ring of blocks, planned pointer, entry speeds | buffer, discard, replan, reset, override | blocks in order, none lost; the planned pointer stays between tail and head; every speed can be reached and braked from |
| Motion control (motion_control.c) | none of its own | line, jog, parking motion, drilling and threading cycles, helices, splines, `mc_reset` | a reset in motion is an alarm; a cycle never moves rapidly in the material, cuts every depth, ends where it should |
| Override rings (override.c) | three rings | enqueue from the interrupt, fetch and flush in the foreground | first in first out, nothing lost once accepted |
| Task scheduler (grbllib.c) | pool, immediate and delayed lists | add, delete, execute | each accepted function called once, in order of time |
| G-code parser (gcode.c) | `gc_state`: modes, offsets, position, cycle data, pending tool | a block, a jog, `gc_init`, sync with the position | offsets as stored, position as planned, feed rate of its mode, a jog and a rejected block leave no trace |
| Expressions and flow control (ngc_expr.c, ngc_params.c, ngc_flowctrl.c, stream_file.c) | flow stack, subs, parameters of each call, redirected input | o-words, calls, returns, `$` macros, assignments | a program does what its text means, with parameters of its own call and input from its own file |
| Settings and storage (settings.c, nvs_buffer.c) | live settings, RAM copy, dirty flags, physical storage | change, restore, write back, start, `$n=value`, `$n`, `$$` | nothing forgotten, settings consistent, a power failure loses what was being written and nothing else; a value reads as it was written |
| Override, Modbus, CAN (modbus_rtu.c, canbus.c) | message queue, state, rings | send, poll, receive, retry, reset | an answer goes to its own message; messages end; order kept |
| Tool change (tool_change.c) | handlers taken over, previous position, suspended input | change, acknowledge, touch off, restore, reset | what was taken is given back; the tip of the new tool is where the old one was |
| Homing and travel limits (machine_limits.c) | homed axes, locked motors, pass of the cycle | cycle, pull off, check targets, arcs, jogs | only axes that were found are homed, at the place they are said to be; no move beyond the limits |
| Spindles (spindle_control.c, state_machine.c, stepper.c) | registered spindles, the selected one, speeds, overrides, PWM values | register, select, start, stop, override, speed to PWM | only the selected spindle runs, at the speed last asked for, driven between its limits |
| Secondary motor (stepper2.c) | ramp, counters | move, speed, stop, reset | the steps asked for, the speed asked for, rest after a stop |
| Streams (stream.c) | list of connections, the selected one, handlers, MPG mode, suspension | connect, disconnect, MPG on and off, suspend, acknowledge | input comes from who is in control, and comes back to who had it |
| Status reports (report.c, system.c) | flags of what changed, refresh counters, cached modes | change, report by task or character | the client is told of every change |
| Virtual file system (vfs.c, fs_device.c) | list of mounts, current directory and mount, handles of files, listings and drives | mount, unmount, change directory, open, write, close, list, enumerate | a path leads to the nearest mount; the current directory is the one shown; everything listed once; changes announced; a device has one owner |
| Kinematics (kinematics/, motion_control.c) | static variables of `segment_line`, last position, cancelled jog, positions of motors | begin a line, next segment, cancel, end of program, home an axis | segments follow each other to the target, each at its feed rate; a cancelled jog ends; the table does not turn around; an axis homed leaves the other |
| I/O ports (ioports.c, crossbar.h) | drivers' ports, map of numbers, claims, labels | add, claim, remap, settings by bit | a number goes on addressing its pin |

What is hard here: an interrupt comes between any two statements of the
foreground; a flag read before a delay is used after it; a delay inside a
handler runs the executive, so a handler can be entered while it is not left;
requests that arrive together are handled in one call of a handler that looks at
one of them; resets, stops and e-stops meet half-done transitions; the pool and
the rings fill; the tick counter wraps; power fails between two writes; an answer
comes after its time-out; copies of one value (offsets, settings, positions,
speeds, numbers of ports) are kept in several places and one is not updated. Each
place is a row of "hazards" in `PROJECT.json`.

## Modules

| Module | Models | Code |
|---|---|---|
| `Machine` | the record `m` of everything the core shares, the stepper as far as the state machine sees it, parking motions | system.h, stepper.c, motion_control.c |
| `StateMachine` | every state handler, `state_set`, `state_update`, `state_suspend_manager`, as operators from record to record | state_machine.c, coolant_control.c |
| `Protocol` | the foreground as a program counter (`phase`) with a call stack, the interrupt handlers, re-initialization | protocol.c, grbllib.c, motion_control.c, system.c, machine_limits.c, sleep.c, gcode.c |
| `ProtocolProperties` | what the three must guarantee | |
| `ProtocolProofs` | proofs about the executive for all inputs and commands | |
| `SegmentBuffer` | planner ring, segment ring, stepper blocks and step interrupt, with what the state machine does to them | planner.c, stepper.c, motion_control.c:1116, state_machine.c |
| `StepQueue` | what they promise: a queue of motions, executed step by step | |
| `SegmentBufferProofs` | proofs about `SegmentBuffer` for all sizes | |
| `OverrideQueue` | one override ring, one memory access per action | override.c, state_machine.c:163 |
| `CommandFifo` | what a ring promises: a bounded queue | |
| `ClientProofs` | proofs about `OverrideQueue` for all sizes, `Streams` for all clients and `StatusReport` for all intervals | |
| `TaskScheduler` | pool, lists, `task_execute` one access per action | grbllib.c |
| `TaskList` | what it promises: an accepted function is called once | |
| `GcodeBlock` | words of a block, modal groups, error checks, targets | gcode.c |
| `Gcode` | the execution of a block with its waits, jogs, probes, stops, restarts | gcode.c |
| `GcodeMC` | vocabularies of blocks | |
| `GcodeProofs` | proofs about `Gcode` for all vocabularies | |
| `NvsBuffer` | the RAM copy of the storage, dirty flags, write-back | nvs_buffer.c |
| `Settings` | settings that depend on each other, other blocks, restores, restarts | settings.c, ngc_params.c, tool data |
| `Vfs` | mounts, paths, current directories, files, listings, drives | vfs.c, fs_device.c |
| `SettingsMC` | menus of changes, mounts | |
| `SettingValues` | the table of settings, which of them a machine has, values accepted, stored as flags and read, the listing | settings.c, settings.h, report.c |
| `StorageProofs` | proofs about `Settings`, `NvsBuffer` and `Vfs` for all blocks, menus and file systems | |
| `NgcExpr` | expressions: operators, functions, precedence | ngc_expr.c |
| `Flow` | flow stack, subs, macros in files, redirected input, parameters | ngc_flowctrl.c, ngc_params.c, stream_file.c, gcode.c |
| `FlowProgram` | an interpreter of structured programs, its text as blocks, the two in step | |
| `Modbus` | message queue, exchange, time-outs, retries, and a log of what was sent and answered | modbus_rtu.c, modbus.h |
| `DeviceProofs` | proofs about `Modbus` for all queues and times about `Homing` for all travels and latencies and about `Stepper2` for all speeds and moves | |
| `CanBus` | transmit and receive ring | canbus.c |
| `Kinematics` | lines in segments, cancelled jogs, the polar table, CoreXY | motion_control.c, kinematics/ |
| `ServiceProofs` | proofs about `CanBus` for all sizes, `Kinematics` for all lines and `SpindleControl` for all spindles | |
| `ToolChange` | manual and semi-automatic tool changes | tool_change.c, stream.c, system.c, gcode.c |
| `ChangeProperties` | what a tool change leaves behind | |
| `ToolChangeProofs` | proofs about `ToolChange` for all programs and tools | |
| `Homing` | the homing cycle | machine_limits.c, stepper.c, system.c |
| `TravelLimits` | checks of arcs and jogs | machine_limits.c |
| `Stepper2` | the ramp of a secondary motor | stepper2.c |
| `SpindleControl` | registration, selection, start and stop, overrides | spindle_control.c, stepper.c, state_machine.c, gcode.c |
| `IoPorts` | numbers, claims, remaps, settings by bit | ioports.c, system.c |
| `SpindlePwm` | PWM values of speeds | spindle_control.c |
| `SpeedPlan` | entry speeds of planned blocks, speed profiles of segments, holds and overrides | planner.c, stepper.c |
| `MotionCycles` | drilling and threading cycles, helices, splines | motion_control.c |
| `Streams` | connections, pendant, suspended input | stream.c, stream.h |
| `StatusReport` | status reports and the flags they clear | report.c, system.c, grbllib.c |
| `DevicesMC`, `ServicesMC` | the small instances of the components that keep their state to themselves; `ServicesMC` also has the programs of `FlowProgram` | |

`Machine` <- `StateMachine` <- `Protocol` <- `ProtocolProperties`,
`GcodeBlock` <- `Gcode` <- `GcodeMC`, `NvsBuffer` <- `Settings` <- `SettingsMC`,
`NgcExpr` <- `Flow` <- `FlowProgram` <- `ServicesMC`, `CanBus`, `Kinematics` and `SettingValues` <- `ServicesMC`,
`Vfs` <- `SettingsMC`, `OverrideQueue`, `Modbus`, `Homing` and `Stepper2` <- `DevicesMC` by EXTENDS. `SegmentBuffer` implements `StepQueue`,
`OverrideQueue` and both rings of `CanBus` implement `CommandFifo` and
`TaskScheduler` implements `TaskList` by INSTANCE with a refinement mapping.
`ChangeProperties` holds the properties of `ToolChange`, over the variables it shares with it: `DevicesMC`
takes the component in by INSTANCE and extends this module, so that the run checks the definition the
theorem states.
`DevicesMC`, `ServicesMC` and `SettingsMC` hold several components: a behaviour chooses one
(`part`) in its initial state, and the variables of the others do not move.

**State of Protocol.** The fields of `m` are named for the C variables:
`exHold`, `exSys`, `endMotion` are the bits `execute_hold`, `execute_sys_motion`
and `end_motion` of `sys.step_control`; `rt` and `rtAlarm` the pending requests
and alarm; `restart`, `restoring`, `active`, `motion` the bits of `park.flags`;
`gc*` is `gc_state.modal`, `rc*` `restore_condition`, `spindle` and `coolant` the
outputs. `handler` is `stateHandler`. Motion is counted: a program block is one
segment, a system motion (parking) two, the parking axis is at the work, the
pull-out or the parking height. `loaded` is the block `st_prep_buffer` holds and
whether it was loaded under a hold.

**Control.** A foreground function that cannot wait is one operator on `m`; the
executive is cut where an interrupt matters: look at the alarm (`ExecAlarm`),
fetch and clear the requests (`ExecFetch`, atomic in the code), dispatch
(`ExecReset`, `ExecStop` with its wait for rest `StopAtRest`, `ExecState`),
overrides, one round of segment preparation (`ExecPrep`), return to the caller. `stack` holds the callers:
main program, suspend loop, or a delay inside a handler with the statements still
to be run (`tail`). When a delay ends, `Continue` runs the rest of the handler
on the machine as it is *then*, as the code does.

**SegmentBuffer.** Protocol counts motions and segments; here they have content.
`plan` is the block ring with `tail`, `head` and `planned`; a slot has the number
of its motion, the steps still to be taken from it (`left`, the code's
`millimeters`) and in `total` the code's `step_event_count`. `prep` is `st_prep_t`
with `pl_block` (`block`) and `st_prep_block` (`st`); `blocks` tells whose data
each stepper block holds; `st` is the interrupt's register file. Each turn of the
loop of `st_prep_buffer` is one or two actions (`LoadBlock`, `AddSegment`,
`BailOut`), so that the interrupt comes in between. How many steps a segment has
and how far the forward pass pushes the planned pointer depend on speeds, so both
are chosen freely; so is whether a deceleration ends in a block, at its end or
less than a step away. `state` is what the state machine waits for. A reset comes
while the foreground is not preparing, as the code has it unwind first. The
mapping to `StepQueue` (`Pending`) adds the steps in segments and in the planner
of each motion; motions of the system (parking) have number 0 and do not count.
Segments of no steps, which the code says can occur at low speed, are left out.

**TaskScheduler.** Calls that disable interrupts are one action. `task_execute`
is one action per access: read `fn` and `next` and clear `fn`, clear `next`,
offer the slot, call, pick, claim. A task runs between `FreeKeep` and `Return`
and may do what a task can: add, delete, call `task_execute` again. `frames` is
the stack of activations. Times are ticks modulo `Ticks`, compared as the code
compares signed differences.

**OverrideQueue.** `laser` says whether the ring is the spindle ring of a laser,
into which `initiate_hold` enqueues from the foreground. Without it the ring
refines `CommandFifo`; with it, only the fetch is right.

**Gcode.** A block is a record of the words it names. `GcodeBlock` checks it as
`gc_execute_block` does (modal groups, axis words, feed, arcs, cycles) and gives
the error or the resulting modes and target; `Gcode` executes it in the order of
the code, a wait of the planner at each place where the code has one. In every
wait a stop may come: `gc_init` re-initializes the parser and the rest of the
block is executed on what it left. `g` is `gc_state` with the tool table and the
stored coordinate data, `planned` where the last planned motion ends, `last`
what the last block was and became. Axes X and Z stand for those of the plane and
the one across; offsets and targets are small integers, inches are 2 units. The
axes move to a `Place` when a stop or a probe ends a motion early.

**Flow.** `Flow` is the code: a stack of entries, subs with positions in files, the
stream redirected to a file, errors that unwind. `FlowProgram` interprets the same
program by its structure, block by block; `Text` writes the structure as the
lines the code reads. After every line the two must be at the same block with the
same values (`InStep`). What the interpreter says is what o-words mean in the
comments of ngc_flowctrl.c; where the code differs, the program is among the
deviations and not in `ServicesMC`.

**Settings.** `m.n` is the buffer (`NvsBuffer`), `m.live` the settings in use. A menu
is the set of things one behaviour changes, so that each behaviour mixes a few
related operations. Physical writes may fail for blocks in `Unreliable`, when the machine is idle, in a
restore and at the start alike, and power may fail between and within those of the running machine
(`PowerFail` leaves the block torn). `PowerOn` is `settings_init` and what it restores; that power fails in it is not
modelled. `lost` of a buffer is history: the blocks whose write failed while the code cleared their flag (deviation 26).

**SettingValues.** A setting is its number, and a value that is a mask or a set of options is the set of its bits.
`values.on` are the flags of `settings_t` that are on, each called by the setting and bit that hold it (`Flag` says which bits share
one), `values.num` the numbers, `values.pos` the position in steps, `values.ok` whether the last value was accepted.
`Write` is `$n=value`. One handler may change the flags of several settings, so `WrittenIsRead` says of every value in
the menu what it reads as (`Kept`) and which others may change with it (`Follows`). `ListingRestores` writes the listing
of every state back, to the same machine and to one as it was at the start. What a value makes inputs, spindles and limits do
at once is left to the modules of those.

**Modbus.** Time is counted in polls. `m.packet` is the message under way, `m.queue`
what waits; the log says which message each answer was for. Answers come up to
`Lateness` polls after the request, damaged, refused, or never.

**ToolChange.** `t` is the code's state and what it has taken over (handlers, input
stream, jogging reference), `h` the program with the real length and place of
the tool. Motions end, or a stop or reset comes in the middle of them; the
operator types commands while the input is suspended, as the code lets him.

**Homing.** A pass moves the axes of a cycle in steps towards switches that sit at
a place the code does not know; `SeekLag` and `LocateLag` are how far an axis runs
on after its switch. Ganged axes have two motors, each with a switch. A switch can
be missing, stuck, and a reset or the door can come at any poll.

**TravelLimits.** An arc is three lattice points of one circle (centre, start,
target) and a signed number of turns, so that which extremes it touches can be said
with integers; a jog is clipped along its line. `move` is one call, all calls are
initial states.

**SpeedPlan.** A speed is its square and a distance what that square can change over
it, so the reverse and forward passes and the profiles are sums and comparisons. The
first block may be in execution from a profile made earlier.

**MotionCycles.** A job is what the parser accepts; each `mc_line` is an action, as a
reset may end the cycle after any.

**Streams, StatusReport.** `s` holds the fields of `hal.stream` with the handler of each
stream; tasks change the mode, characters come in between. In a report flags are taken at its start and
cleared at its end. The client keeps what it was told.

**Vfs.** A path is the sequence of its names. A mount is known by its file system; `place` is its place in the list
`vfs_mount` appends to, 0 when it is not there. The file systems are external: they may refuse what they are asked and
have a current directory (`at`) of their own. `stale` are those that changed and have not been announced. What the
properties count (`due`, `told`) is kept with the listing it is about.

**Kinematics.** A line is given by the points its segments lie between, a point by its angle, so that the turns of the
polar table can be counted; `line` holds the static variables of `segment_line` and what was planned, `trail` the
places where the machine may stop. Each call of `segment_line`, and each segment planned, is an action, as `mc_line` runs the
executive between them: jogs are cancelled and resets come there.

**Stepper2, SpindleControl, SpindlePwm, IoPorts** each have one record with the fields of the C
structures, and history for the property. `Windows` (`MotorWindows` of `Stepper2`) names the situations
of the deviations below and is empty in the runs.

## Runs

Every property of a passing run has a mutant in `PROJECT.json`: a change of one
mapped definition, as a plausible bug would make it, under which TLC reports the
property violated. The mutated definitions stand beside the originals, marked
"Mutant".

| Run | Module | What it shows |
|---|---|---|
| `program` | ProtocolProperties | Motions, M0, M2, M6, M3/M8 with feed hold, cycle start, spindle stop and stop at every moment. `MotionOwned`: steppers run only in states that prepare segments, never in a completed hold. `WaitersWake`: whoever waits for a cycle complete has one to come. `SyncEndsAtRest`: `protocol_buffer_synchronize` ends with the steppers at rest. |
| `door` | ProtocolProperties | Door, resets, sleep, unlock without parking. `StoppedIsOff`: a finished door hold is de-energized, in an alarm and asleep all is off. `ResumesWithDoorClosed`. |
| `parking` | ProtocolProperties | The door with retract, park, restore and plunge, and with on-delays, in which the executive runs inside the handler. `ResumesAsStopped`: a resume brings back spindle and coolant, and the axis to the work, however often the way back was interrupted. `ParkingInOrder`: motion in the door state is only stopping or parking, no resume before the retraction ended, a door opened during the restore sends the machine back to retract. |
| `lock` | ProtocolProperties | Resets, hard limits, e-stops, jog cancels, stops, without delays (for those see `alarm_lost`): `AlarmLatched` through any sequence. `ResetNotSwallowed`: a reset request is taken by the branch for resets only, but for one posted while a stop waits (deviation 14). `JogFlushed`: nothing of a cancelled jog stays in the planner. |
| `live` | ProtocolProperties | `ForegroundProgresses`: a hold completes, a synchronizing command gets through, an abort restarts, with delays in the resume. |
| `segments` | SegmentBuffer | `ImplementsStepQueue`: every motion is executed in order to its last step through holds, parking, overrides and resets. `BlocksIntact`: each segment with the data of its motion. `PlannedInside`. `StoppingEnds`. |
| `tasks` | TaskScheduler | `ListsSound`: no slot lost or on two lists, no null call, delayed tasks in order across the wrap of the counter. `ImplementsTaskList`: nested `task_execute`, full pool. |
| `gcode` | GcodeMC | `CoordsFresh`: the data of the work coordinate system in use are the stored ones. `PositionTracks`: the parser's position is where the planner ends, or the machine is. `FeedInMode`: no feed rate of another mode. `ChangesNamed`: modes and axes change only if the block names them; a jog and a rejected block change none. |
| `storage` | SettingsMC | `Tracked`: what the storage lacks is marked to be written, but for blocks whose own write failed where the code forgets that (deviation 26). `SavedIsLive`: what is to be stored are the live settings. `SettingsAgree`: soft limits need homing, one homing rate where one is used, what is derived follows. `OnlyTornIsLost`: a restart finds all but the block whose write was cut. `VfsSound`: paths, directories, listings, announcements and devices of the virtual file system. |
| `services` | ServicesMC | `InStep`, `CallsKept` of `FlowProgram`: loops, choices, subs, macros and errors. `PathsSound`: arcs and jogs against the limits, cycles, helices and splines, planned speeds and their profiles. `DriversSound`: a number addresses its port, the spindle selected runs at the speed asked for, PWM values are in range, input comes from who is in control; settings read as written (`WrittenIsRead`), a listing restores them (`ListingRestores`), other steps of a mm leave the machine in its place (`SamePlace`). `LinesSound`: lines in segments. `ImplementsFifos`: the CAN rings. `ChangesTold`: the client of the status reports is told of every change. |
| `devices` | DevicesMC | `FetchHoldsOldest`, `ImplementsFifo` of `OverrideQueue`; `AnswersOwn`: a Modbus answer goes to its own message; `ChangeSound`: tool changes; `HomedSound`; `MotorSound`; `EverythingEnds`: Modbus messages end and the queue drains, homing ends, the secondary motor stops and reaches its speed. |
| `alarm_lost` | ProtocolProperties | violation: see deviation 2 |

## Bounds

* `MaxBlocks` 1 or 2 program blocks in the planner: one being executed, one that
  a hold leaves behind. Blocks are interchangeable, so a third adds nothing a
  second does not show.
* `MaxSegs = 2`: the buffer is empty, partly full or full. A block is a single
  segment; a system motion takes two, so it can be interrupted under way.
* `MaxNest = 2`: cycle start is pressed at call depths up to main, suspend. With
  delays it would otherwise be pressed in each nested delay without end.
* `Patient`: cycle start is pressed only once the end of a motion was seen. Off
  in `program` and `door`; on where the deviations 6 to 8 would hide everything
  else.
* `Starves`: whether the segment buffer may run dry within a motion. Off in
  `parking` and `live`, where a motion that ends early is a different hazard.
* `DoorDelays`, `HoldDelays`: whether the on-delays are configured. The delays of
  the door are in `parking`, which does not state
  `DoorDeEnergized` (deviation 5); those of the hold are in `live` and `alarm_lost` (deviation 8 excludes more).
* `Inputs`, `Commands`: what operator and sender do. The runs split them so that
  each pair of mechanisms the code lets interact is in one run.
* `SegmentBuffer`: 4 segments (the code has 10), hence 3 stepper blocks: a block is
  reused after two others. 2 planner blocks and the free slot, motions of 1 or 2
  steps (a motion of one segment and one that can be held in the middle), 4
  motions: the rings wrap around and the first slot is used again. With 5
  segments, and with parking off, TLC finds the same.
* `OverrideQueue`: 4 slots, 2 commands: wrap around, full, empty. The proofs are
  for every size.
* `TaskScheduler`: 3 slots, one function, delays 0 and 1, `MaxDepth = 2`
  activations, a clock of 10 ticks that advances at most `MaxStall = 1` between
  two looks, as the assumption of signed differences demands (the delay and the
  time tasks may lie overdue stay below half the range, `DelaysAssumption`).
* `Gcode`: a behaviour uses one of ten vocabularies of about ten blocks, chosen so
  that modes that meet in the code meet in a vocabulary (offsets with G10 and stops,
  feed modes with M2, M70 to M72 with both, canned cycles with planes, jogs with everything); two axes,
  two coordinate systems, one `Place` at which motions are interrupted, coordinates up to
  `Limit = 2`. Offsets of one unit are enough to tell a stale copy from a fresh one.
* `Settings`: one startup line, three blocks of coordinate data (one that may not be written), one tool, one
  value besides the empty one; two axes with homing rates. `Foreign` are the contents
  found at the first start: all torn, or written by another build.
* `FlowProgram`: 72 programs, a stack of 6 entries and 3 levels of calls (20 and 10 in the
  code), so that errors for both are reached. Programs are finite; the run stops at
  their end (`CHECK_DEADLOCK FALSE`).
* `Modbus`: a queue of 2, 3 messages, retries 0 and 1, times of 1 to 3 polls: answers on
  time, late, and after the silence that follows a time-out. `CanBus`: rings of 3.
* `ToolChange`: two changes between three tools of different length in each mode, 2 typed commands,
  1 stop or reset.
* `Homing`: two cycles, one of a ganged axis, axes 2 long, 3 searched, so that a
  missing switch and a stuck one are found out; 2 homings, so that one meets what the other left.
* `TravelLimits`: the 12 lattice points of a circle of radius 5 cover every quadrant and
  all axis points; limits inside, on and outside the circle on each side.
* `Stepper2`: 2 speeds and moves of no step, of one, of a length that never reaches its speed, that just does, and without
  end; `MaxCruise` steps at speed before something else happens, 2 calls.
* `SpindleControl`: 2 spindles (one whose speed is a value, one on/off), 2 speeds, 3 overrides, speeds clamped on both
  sides. `SpindlePwm`: a period of 1000, percentages in order (off, least, most), speeds at, next to and
  between the limits; whole numbers.
* `SpeedPlan`: motions of two lengths, two junction speeds, nominal speeds that are or are not the
  limit, at two overrides; 3 slots, 4 motions, so that the ring wraps and a motion is replanned while executed.
* `MotionCycles`: holes below, at and above the retract height, one to three pecks; depths of cut whose last pass is
  short or full; helices up and down; steps of a spline from `BEZIER_MIN_STEP` to `BEZIER_MAX_STEP`.
* `Streams`: a serial stream, a pendant, two network clients, 2 mode changes waiting. `StatusReport`: a behaviour
  uses one of five menus of changes, 5 changes, refresh counts of 2 to 4, 2 motions.
* `Vfs`: a card at the root, a drive, hidden pages and the devices; a listing sees none, one or two mounts, before and after one
  is unmounted and mounted again. 2 files, directories 2 deep. Files, a listing and the enumeration are not open together.
* `Kinematics`: lines of one to three segments from, through and past the center, by half a turn, past the angle 0, to a point
  outside; all four machines, with and without soft limits; angles up to a turn when a line begins.
* `SettingValues`: eight menus of the settings that meet in a handler or a flag: homing with limits and rates, inputs, control
  signals, PWM, tools, axes, reports, numbers at and beyond their least and greatest value; two axes, one of them ganged, two spindles,
  a driver with most capabilities. Settings that are plain numbers are represented by some of each kind.
* `IoPorts`: two drivers of 2 and 1 ports, up to 5 numbers, one control signal.

## Fairness

`LiveSpec` has weak fairness of `Foreground`, one thread that the code never
stops, and of `Stepper`, a hardware timer that runs while enabled. Nobody has to
press a key, close a door or send a line. `TimedSpec` adds strong fairness of
`DelayEnds`: `delay_sec` counts down a number of steps, so a delay ends however
often its rounds are interrupted. `LiveSpec` of `SegmentBuffer` has weak fairness of the
preparation of segments, of taking the end of a motion, both done by the
foreground in each round, and of the step timer. No fairness is assumed of holds,
resumes or parking motions.

`DevicesSpec` has weak fairness of the Modbus poll (a task of the main loop), of
the sender that blocks and of its transmit buffer; of the homing loop and the step
interrupt; of the interrupt of the secondary motor. Nothing is assumed of devices
answering, switches closing or calls being made.

`ServicesSpec` has weak fairness of the motions that are executed, of the task that
asks for reports and of the reports, and strong fairness of the end of a command's wait and of the
reports of modes and offsets: the foreground, which does them, goes on between any
two reports.

## Deviations

Places where the code does not do what its comments say, or what a reader would
expect. The second has a run; the others were found with the same modules, with the
constants given (settings not named: delays and parking off, `MaxBlocks = 1`,
`MaxSegs = 2`, `MaxNest = 2`, `Patient = FALSE`, `Starves = TRUE`). The passing runs
exclude each of them by a constant or by what they do.

### Executive, stepper, tasks


1. *Jog cancelled late*. `state_cycle` and `state_set`
   take a motion cancel fetched with, or after, the end of the jog
   (state_machine.c:440): the handler waits for the end of a motion that has
   ended, and the machine stays in STATE_JOG. `WaitersWake`, reset, jog_cancel, jog.
2. *Alarm lost* (run `alarm_lost`). The last statements of `state_await_resume`
   (state_machine.c:694) set the state from what was so before a delay; an e-stop
   raised during it is overwritten by idle.
3. *Tasks and interrupts*. `task_free` gives a slot back
   in three stores with interrupts enabled (grbllib.c:501); a task that an
   interrupt adds in between can be dropped: `ImplementsTaskList` with
   `Interrupts = {"add_immediate"}`. With `Interrupts = {"delete"}`
   `NoNullCall` fails: `task_execute` picks the first due task with
   interrupts enabled (grbllib.c:549) and the stepper may delete it
   (`st_go_idle`) before its function is read.
4. *Fast hold*. The stop command takes segments back from a
   full buffer but not their stepper blocks (stepper.c:731). When every buffered
   motion is a single segment, the next motions loaded overwrite the blocks of the
   segments that were kept, which are then executed with other directions and
   steps, against the comment at stepper.c:55. `BlocksIntact` with
   `Cancels = {"fast"}`, 5 segments and 6 motions.
5. *Coolant with the door open*. `state_restore_conditions` restores the coolant
   although the spindle delay was cut short by the door (state_machine.c:98,
   "Block if safety door re-opened during prior restore actions").
   `CoolantStaysOffWithDoorOpen`, parking and door delays on, `Patient`, inputs
   cycle_start, door, commands motion, accessories.
6. *Resume with the door open*. A cycle start with `park.flags.restart` set
   resumes without a look at the door (state_machine.c:641; comment at 520).
   `ResumesWithDoorClosed`, parking on, `Patient`, not `Starves`, cycle_start,
   door, motion.
7. *Resume while parking*. A cycle start during the last retraction is acted on
   (state_machine.c:648). `ResumesWhenRetracted`, as above, not `Patient`.
8. *Resumed twice*. A cycle start in a delay of `state_await_resume` enters it
   again; the outer call sets the state once more on a machine already started
   (state_machine.c:694). `SyncEndsAtRest`, hold delays on, `MaxBlocks = 2`,
   cycle_start, feed_hold, spindle_stop, motion, pause, accessories. Waiting for
   the end of a motion first (`Patient`) does not help.
9. *Door reopened as the plunge ends*. The door request is fetched with the cycle
   complete of the plunge, which is dropped (state_machine.c:850); the retraction
   waits for it. `WaitersWake`, parking on, `Patient`, not `Starves`,
   cycle_start, door, motion.
10. *Door in a decelerating hold*. `state_set` calls `state_await_hold` as if the
   hold had ended (state_machine.c:331): `step_control` is cleared and program
   motion goes on in the door state. `DoorHolds`, feed_hold, door, motion.
11. *Synchronization stuck*. The cycle start of `protocol_auto_cycle_start` is
    dropped by `state_cycle` when it is fetched with a cycle complete; a block
    stays queued and `protocol_buffer_synchronize` waits (protocol.c:369).
    `SyncGetsThrough` under `TimedSpec`, no inputs, motion, accessories. It needs
    a segment buffer that runs dry (`Starves`).
12. *Position lost, alarm lost*. `mc_reset` interrupting `protocol_exec_rt_system`
    between its look at the alarm (protocol.c:449) and its fetch (520) has its
    reset taken first, and re-initialization clears the alarm (grbllib.c:428).
    `PositionLostAlarms`, reset, motion.
13. *E-stop with the spindle on*. The same window with the e-stop asserted; a
    synchronizing command that waits goes on and starts the spindle, and the
    executive then blocks (protocol.c:451). `BlockedDeEnergized`, estop,
    accessories. In the same way a jog line that is being started when the e-stop
    is pressed wakes the steppers up in the alarm, and a cycle start that was fetched
    before a hard limit was hit starts the motion after it (`MotionOwned`, hard_limit, motion).
14. *Reset swallowed*. Requests that arrive while a stop waits for the motion to
    end are merged after the branch for resets (protocol.c:585), and the state machine
    drops the reset. `ResetNotSwallowed` names this one way; the run `lock` takes it.
    The property without `phase = "update"`: reset, stop, motion.
15. *Coolant after a reset*. A reset ends the spindle delay of a resume and the
    coolant is restored (state_machine.c:103). `AbortDeEnergized`, hold delays on,
    `Patient`, not `Starves`, cycle_start, feed_hold, spindle_stop, reset,
    accessories.
16. *Laser stop overwritten*. `initiate_hold` enqueues from the foreground into a
    ring the interrupt also writes (state_machine.c:163): one of the two commands is
    lost. `ImplementsFifo` without its condition on `laser`.

### G-code parser (`Gcode`)

17. A jog without axis words (`$J=F100`) moves to the machine's origin (gcode.c:3232). So does a
    spline or a canned cycle that is named again without axis words (2535): the block's target is never set.
18. A stop during the wait of G28/G30: the position is set to the home position
    although the motion was not planned (gcode.c:3966). A stop during the dwell of a canned cycle:
    the rest of the cycle is taken as done. `Waits` leaves out "home" and "drill". A stop in a
    wait before (coolant, spindle, dwell) ends the same way when the block also goes home or drills.
    `PositionTracks` without `MovesAlone`.
19. A stop in a wait inside a block re-initializes the parser, and the rest of the
    block applies its modes again; an M6 of the block still starts a tool change.
20. G85, G86 and G89 are accepted and make no motion.
21. M72 is overwritten by modes of its own block; coordinates changed by G10
    in between are restored from before (`CoordsFresh` without `RestoresCurrent`).
22. M2 and M30 clear `canned_cycle_active` of the block, not of `gc_state`; the feed
    rate of `G93 ... F2 M2` is used in G94 afterwards (`FeedInMode` without `EndsWithoutFeed`); in check mode M2 selects G54
    without reading its offsets.
23. A block rejected late (gcode.c:1783) has already changed what it names.
    G50/G51 set the axis command without looking for a conflict. `M62 P... G10 L2` uses
    the P word twice. More than three G92 in the planner overwrite their queue.
    Canned cycle increments are kept when L changes, and a change of plane within a cycle keeps the axes.
24. A warm reset clears `tool_offset_mode` but keeps the offset, and clears the
    queue of offsets but keeps G92. Output commands are freed, the pointer kept.

### Settings and storage (`Settings`, `NvsBuffer`)

25. `$RST=$` does not compute what is derived from settings (soft and hard limits,
    homed axes), against system.c:677 "Force reset to ensure settings are
    initialized correctly.". `LimitsFollow` with `Menus <- MCDefaults`.
26. Writes that fail are forgotten: of a startup line, whose flag is cleared before the write; on flash of
    everything, when the last retry failed; and at the start, when the defaults replace contents that cannot be used, of
    any block, as nobody looks at the result before all flags are cleared (nvs_buffer.c:280-292). RAM and storage then differ
    with nothing marked, until the block is changed again, and the next start finds the old contents. These blocks are
    `lost`: `Tracked` lets no other block go unmarked, and none get there whose own write did not fail. A version whose
    write failed keeps its flag, but waits for another block to be written.
27. `$RST=$` while an acceleration override is active brings the old acceleration back
    with it; writing any setting ends the override silently. `$RST=#` leaves G30.
28. `set_spindle_invert` refuses the value and changes the live setting; the sanity
    check at the end of a settings file changes live settings without saving them.

### Flow control (`Flow`)

29. `while((streams == streams->next))` (stream_file.c:160) never links the third
    nested redirect, which changelog.md says is supported ("Supports nesting.").
30. A flow control error inside a named macro clears the stack first, so the handler
    that closes the files does nothing: the file stays the input, at its end
    (stream_file.c:88, "If an error is detected reading from file(s) will be stopped
    and the status_code reported"). `ErrorStops` with `Sources <- MCUnbalanced`.
31. CONTINUE in a WHILE whose condition has become false takes the entry off the stack;
    the rest of the body is executed and ENDWHILE refused. CONTINUE in DO does not look at the condition.
32. The value of RETURN and ENDSUB is evaluated after the call was left, with the caller's
    parameters. A call with one argument less than the maximum reads an argument that was not set; missing arguments are the
    caller's.
33. BREAK and CONTINUE outside a loop read the stack below its bottom.
34. The sub being skipped or called survives `ngc_flowctrl_init`; redirects survive a soft
    reset; names of a macro that ends by its end of file are not released.
35. Assignments of one block are applied last to first, named ones at once, although
    ngc_expr.c says in parallel. `1 MOD 0` is not a number and counts as true. Loops on the
    console are refused also where they are skipped.

### Modbus, tool change, homing, limits

36. `modbus_send` returns true for a message it drops (modbus_rtu.c:342).
    `modbus_reset` writes through a null packet (358). A callback that sends waits for a lock it
    holds. With `rx_timeout` 0 a lost answer is waited for without end.
37. An answer later than time-out and silence together is taken for the next
    (`Lateness`, and `FlushInFlight` for a flush of the buffer while it arrives).
38. A reset or stop between cycle start and the task it posts: the task runs after
    the reset. A stop during the move to the change position still enters the tool
    change. A cycle start before the acknowledgement, then the acknowledgement: the
    handlers stay, every later cycle start is swallowed. `ChangeSound` with
    `Windows` "stop_posted", "stop_leaving", "ack_cancelled".
39. A reset during a change does not restore the previous tool if there is no tool table
    (tool_change.c:123 says so); with one, the entry of the new tool is overwritten.
    After power-up with a persistent tool `T0 M6` does nothing. A failed touch-off in semi-automatic mode leaves the input suspended after
    `$X`.
40. A reset in the debounce delay of homing is followed by the next pass, which starts the
    motors (machine_limits.c:447). With `keep_on_reset` a failed homing of a single axis leaves it
    homed, at a wrong position. A failed pull-off leaves a motor disabled.
41. An arc that passes the lowest point of the circle and not the highest is not
    checked at the higher of its ends (machine_limits.c:765), one that passes only the highest not at the lower of them (772),
    against "Returns false if check failed." (681). `ArcsChecked`. `labs(turns > 1)` (715) takes clockwise arcs of several turns
    for partial ones. `ArcsJudged`, in `PathsSound`, says that these are all (`Misjudged`).

### Secondary motor, spindle, ports

42. A finite move makes two or three steps too many ("total steps to move"). A stop in the last step of the acceleration is swallowed, a
    lower speed early in the acceleration decelerates without end ("Motor will be
    accelerated or decelerated to the new speed."), a new speed in a finite move misses
    the way down, repeated stops put the stop off. A new speed whose ramp has as many steps as the one
    made changes `min_delay` and nothing else, the motor stays at the old one; a lower speed whose ramp has more (the
    delays are rounded, the old speed was reached early) gets a `step_run` behind the step it is at. `MotorWindows`
    of `Stepper2`: "stop_last", "early", "finite", "again", "near".
43. A spindle registered after the null spindle was selected takes index 0 and
    counts as initialized. An override equal to the speed prepared last is never sent
    (stepper.c:1175). An override in a hold is lost, although state_machine.c:391 says
    "NOTE: Spindle speed overrides may be altered during hold state.", as is one that
    comes after the last segment was prepared. M3 and M5 end the disabled override although M51 P0 is
    modal. `Windows` of `SpindleControl`: "late", "same", "hold", "last", "disable".
44. `ioport_find_free` returns claimed ports; `ioport_remap` does not look whether the
    source is claimed, can leave a hole and leaves the label. `ioports_unclaimed` is
    computed before the last driver has added its ports. `$RST=$` leaves pins configured as before. `Windows`
    of `IoPorts`: "remap", "early", "restore".

### Planner, cycles, streams, reports

45. After an override that lowers speeds, planner.c:151 keeps entry speeds that equal their limit although what
    follows was lowered, and the motion being executed may be unable to brake to the lowered entry of the next
    (`decelerate_after > accelerate_until`; stepper.c:951 says "Guaranteed to intersect updated plan"). At the last
    block the speed is not 0 at the end. `PathsSound` demands optimal speeds and no sudden drop only while no override was
    lowered, junctions and no sudden rise always.
46. The X word of G76 changes only the pitch, a straight thread is cut (motion_control.c:702, gcode.c:2750). The
    feed rate of an arc in inverse time mode is taken as mm/min after it was multiplied, once for several turns (306).
47. A status report clears flags that were set while it was written, by interrupts or by a report asked for with 0x87. A full
    report consumes the pending tool offset flag (report.c:1494), which protocol.c:872 keeps on purpose. Modes
    that change twice are compared with what was cached, in an else-if chain (1500): one of the changes is not told. M2
    restores overrides, and the last motion with a G92 ends, without a flag. With an interval and automatic reports off
    the report task adds itself with no delay, for ever (grbllib.c:141). `ReportWindows` of
    `StatusReport`: "all", "often".
48. Connecting, disconnecting or the end of MPG mode while the input is suspended opens the input or restores the
    read function of the stream before (stream.c:175, stream.h:230). A tool change in MPG mode installs the handler of the
    acknowledgement on the wrong stream. Disconnecting a stream that is not selected selects the one before it; while MPG is in
    control it ends MPG mode with `mpg_control` left set. A pendant that only receives never gets control back. `Windows`
    of `Streams`: "suspended", "mpg", "other".
49. PWM percentages are not checked for order: a minimum above the maximum wraps the gradient around, the off value may
    exceed the minimum. With speeds out of range and an inverted signal the off value is 0.

### Virtual file system, kinematics

50. Of mount points that lie below each other `get_mount` takes the one mounted first, not the nearest (vfs.c:239); `vfs_opendir` lists
    also mounts whose names only begin with that of the directory (433). Both are left out: mount points are directories of the root, and no name begins another. `vfs_chdir` changes `cwd` before the file system is asked and leaves it changed when it refuses; ".." from a
    directory of the first level leaves it empty (393) and never leaves a mount; going back to a mount does not reset its own
    directory; an absolute path below a mount is given to the file system with the path of the mount. A file opened to append to is not announced. Without a root, listing "/"
    names each visible mount twice, and a hidden one that is first. Unmounting does not look for open files. `FileWindows`
    of `Vfs`: "mount over", "fails", "up", "back", "inside", "append", "null", "unmount".
51. A jog begun before a cancelled one has stopped loses what of it was planned and goes on from elsewhere ("early" of
    `LineWindows`). `last_pos` of the polar machine and of the delta robot counts a segment that a cancel or a reset keeps from being
    planned, so distances and turns of the next line begin at the wrong place ("cancelled"). At the center the angle of the
    table is taken plus what is beyond one turn again (polar.c:116), so it turns on after two ("center"). A point the arms of a delta robot do not reach ends the line there,
    without an error ("outside"). A jog cancel cuts any line in segments, in every state (protocol.c:913); with a full planner one
    more segment is planned after the planner was emptied, and started as a jog.
52. The wall plotter and the polar machine leave the check of travel limits to the core, which refuses targets in positions of motors
    (machine_limits.c:665), so with soft limits on they do not move. The radius of the polar machine is
    corrected by the work offset twice (`r_offset`, "??"). Homing of the wall plotter decrements its index twice. The functions of the
    Maslow router do not have the signature the core calls.

### Values of settings (`SettingValues`)

53. Disabling homing leaves `limits.flags.two_switches` (settings.c:1018), so `$22=0` reads 16 afterwards. `$7` can be written where
    it is not available (3249). What is no number is stored as such in `$180` and `$190` (3259), as `validate_value` finds it in
    range. `$26=65536` is accepted and stored as 0. A number of an axis is looked up though the axis does not exist, and refused then. A listing
    written to a machine without homing loses `$20`, which needs `$22`: it has to be written twice. `WrittenIsRead` and
    `ListingRestores` say what holds with these.

## Proofs

`ClientProofs` proves of `OverrideQueue`, for every set of commands and every
`BufSize \in Nat`, `BufSize > 1` (the only assumption):

* `TypeCorrect`: `Spec => []TypeOK`;
* `FetchCorrect`: `Spec => []FetchHoldsOldest`, with one and two producers;
* `Refinement`: `Spec => ImplementsFifo`.

The invariant `IInv` is needed because `FetchHoldsOldest` says nothing between
fetches: that what a fetch reads is a command rests on every slot between tail
and head being filled (`Filled`), and with a second producer on the head it is
about to publish not running past an unfilled slot (`PublishSafe`). During a
flush the tail is reset and the head not yet, so `Filled` is excused there; the
mapping shows an empty queue meanwhile. `Refinement` cites what each access does
to `Contents` (`EnqueueAppends` and the lemmas after it), and that no second
producer is active when `laser` is false.

It also proves `StreamsAreSound`, `StreamsSpec => []StreamsSound` of `Streams`, for any set of clients and any bound of posted mode
changes, from `StreamsAssumption` (the first stream, the pendant and the clients differ) and `Windows = {}` (deviation 48). `StreamsSafe` says
that the list is the first stream, perhaps the pendant, and clients, each once (`Linked`), and that the latest of them but for the pendant is
selected (`Chosen`); that while an acknowledgement is awaited nothing is selected or taken over, the selected stream and no other one has
the handler that waits, and what is kept is what to restore (`Suspending`); that in MPG mode the pendant has the protocol's
handler and the stream to go back to is the one selected (`Mastered`). A disconnection is safe as the stream that
goes is the last of the list (`RemovedIs`). `ServicesMC` checks `StreamsSound` as a part of `DriversSound`.

And it proves `StaleIsTold`, `ReportSpec => []StaleIsPending` of `StatusReport`, for all refresh intervals, menus and bounds, from `ReportWindows = {}`
(deviation 47). All flags are cleared when a report ends, so `ReportSafe` asks for more while one is written: of the four elements the client
knows each, or a wait will flag it (`ValuesTold`), and the tool offset has its own report requested (`OffsetTold`), which a
report of everything would lose. Interrupts and characters in between may add flags, never take them (`MoreFlagsSafe`). `ServicesMC`
checks it as the first part of `ChangesTold`; that the client catches up is liveness.

`SegmentBufferProofs` proves, from `SizesAssumption` (a segment ring of more
than 3, a planner ring of more than 1, any lengths and numbers of motions, with
and without parking, slow and fast cancels):

* `TypeCorrect`: `Spec => []TypeOK`;
* `PlannedStaysInside`: `Spec => []PlannedInside`;
* `BlocksStayIntact`: `Spec => []BlocksIntact`, for slow cancels only, as a fast one breaks it (deviation 4).

None of them is inductive by itself. `TypeOK` needs that the step count the
interrupt loads is not zero (`SegmentsFilled`, by the guard of `AddSegment`: it would count down from zero) and
that the segment it executes is still in the ring (`ExecutedQueued`: the tail
would pass the head; a fast hold keeps two segments for that). `PlannedInside`
needs that the preparation discards a block only when there is one
(`PreparedExists`), which rests on who prepares: a parking motion uses the slot
of the head and discards nothing, and is under way only in the states of parking
(`SystemWhenParking`). `IInv` is their conjunction. The arithmetic of the rings is
in lemmas of its own: `RingSuccessor` and `RingDistance` turn the remainders into
cases, `PushedInside`, `DiscardedIs`, `QueueGrows` and `QueueShrinks` say what a
planner push, a discard, a new segment and a finished one do to distances. There is
one lemma per action after that.

`BlocksStayIntact` needs a second invariant on top of `IInv`, `BlocksInv`. That a stepper block is not overwritten
while a queued segment refers to it follows from a count: from any queued segment on, every
segment takes at most one block more, and the block being prepared is at most one ahead (`InOrder`), so with
one block less than the ring has segments the next one to be loaded is free, also that
of the segment executed last, whose data the interrupt keeps in registers (`Executed`). The rest
ties the foreground to it: the block being prepared has the data of its motion, also after a replan
and when it is restored after a parking motion (`BlockLoaded`, `ParkingKept`), and a parking motion begins and ends
with nothing queued (`Ending`, `Resting`).

`StorageProofs` proves `TrackedAlways`, `Spec => []Tracked`, for every set of
startup lines, coordinates and tools, every kind of storage, menu and foreign
content, and for every set of blocks whose physical write may fail, at the start as well, from `StorageKind`,
`CoordsAssumption`, `ForeignAssumption` of the modules and one assumption
of the theorem: the blocks that menus name exist. The invariant `Sound` says of
the machine in every phase that its buffer is one (`IsBuffer`) and that what RAM
and storage disagree on is dirty, with `isDirty` set when some flag is, or lost by a failed write of its own (`Good`); a
machine that is off has read nothing, so RAM is then what the storage holds (`Buffer`). Each
operation on the buffer has a lemma (`WriteGood` and the three after it), each operation of
`Settings` composes them.

Its third part is about contents, for every menu of settings to set, restore and read and every maximum rate:

* `SettingsAreSaved` (`SavedIsLive`), if the driver can invert PWM or is not asked to (`InvertsFit`, deviation 28);
* `SettingsAlwaysAgree` (`SettingsAgree`), if the defaults are not restored (`NoDefaults`, deviation 25);
* `RestartsKeep` (`OnlyTornIsLost`), for a storage with a physical part.

All three assume that menus name existing blocks other than the settings and that settings left by another firmware agree
with each other or cannot be read (`BlocksApart`, `ForeignAgrees`); none needs physical writes to succeed. `IntactInv`
says of every phase that stored and live settings agree with what depends on them (`Intact`, `Current`), torn and
unread ones excepted: a handler works beside the settings, or sets one, mends the others, writes and derives anew.

`VfsIsSound`, `VfsSpec => []VfsSound`, is for every set of file systems, of directories of the root they are mounted at (each at its
own, or at the root), names and devices, from `VfsAssumption` and `FileWindows = {}` (deviation 50). The invariant `VfsInv` has five parts:
places in the list of mounts are those of its members, each its own (`MountInv`); the current directory of the virtual file system leads to
the mount it remembers and is that of the mounted one, in a form the next change keeps (`DirInv`); what a listing has not told is what it has to tell (`ListInv`);
drives told lie before the one the enumeration is at and those due not before it, also when a mount before or after it goes and
the others move up (`DriveInv`); a visible change that is not announced has a file that will announce it, and a device that is open
has one handle (`FileInv`). That a path leads to one mount (`MountFact`) rests on mount points being one name deep and apart.

`ServiceProofs` proves `FifosRefined`, `CanSpec => ImplementsFifos`, for every set of messages and every
ring of more than one slot: both rings are bounded queues, with one access of the ring per step. It
needs only that a callback is under way for a message that is still in the ring (`CalledForOne`).

It proves `LinesAreSound`, `KinSpec => []LinesSound`, for all machines, lines, points out of reach or outside of the limits and positions of CoreXY, from
`KinematicsAssumption` and `LineWindows = {}` (deviation 51). `KinInv` says of each phase of a line how many segments are made and planned,
where the machine is and what `segment_line` remembers of it, how often the feed rate was multiplied, and that a
cancelled line plans no second segment; that the table's angle is that of its point, or at the center within two turns of zero, where
the code turns it right.

It proves `SpindleIsSound`, `Spec => []SpindleSound` of `SpindleControl`, for all spindles, speeds and overrides, from `Windows = {}`
(deviation 43) and `SpindleAssumptions`: no override makes a speed zero, as none does in the floating point of the code. `SpindleSafe`
says that what runs is selected and known to run (`Obeys`), that the program, or what it waits for, agrees with it in state and speed
(`Agrees`), that a machine at rest has nothing to prepare (`Rests`), and of every segment that is prepared that it carries a speed only if the
program asks for one; the last of them, or the spindle without any, has the speed of the override in force, unless the
next look at it finds a difference (`Paced`). Without `Agrees` the segments, which carry the parser's speed, could not be compared to the core's. `ServicesMC` checks
`SpindleSound` as a part of `DriversSound`.

`DeviceProofs` proves `AnswersAreOwn`, `Spec => []AnswersOwn` of the Modbus transport, for every length
of the queue and every number of retries, from `BusAssumptions`: the code's ranges of sizes and times, that
an answer does not come later than time-out and silence (deviation 37) and that the buffer is not
flushed while an answer arrives. A late answer cannot be told from a right one by what it holds, so
the invariant `BusInv` is about time: in each state, how old every request on the wire is at
least when the next one can be sent (`TimeInv`). `OnceInv` says that a message that waits was not
answered and is in one place, `ProgressInv` who waits for what.

It proves `HomedIsSound`, `HomingSpec => []HomedSound`, for all travels, pull-offs, numbers of locate passes and latencies,
from `HomingAssumption` and without `KeepOnReset` (deviation 40). The switches are found by the motion, so the invariant bounds where each motor
is by how often the loop has looked at its switch since it was reached. `HomingInv` is the type of the cycle (`HomingType`), which axes are its own and which phase
follows which (`PhaseInv`), that homed axes it does not work on are where they were put (`PlacedInv`), and of each phase where the motors
of its axes are and which of them are locked (`CycleInv`: `EngagedInv`, `ApproachInv`, `PullOffInv`, `DelayInv`, `OffsetInv`); after a reset
in the cycle its axes no longer count.

It proves `MotorIsSound`, `MotorSpec => []MotorSound`, for every acceleration, first delay, scale of the fixed point, set of speeds and moves
and any number of calls, from `MotorAssumption` (acceleration and speeds are positive) and without what `MotorWindows` names (deviation
42). That a finite move ends where it should is a sum over its whole way, which holds in no single step: `MotorInv` says that `denom` is four times the
steps of the ramp made so far and one (`Shaped`), that a motor decelerating to a lower speed has no more steps to go than its ramp
has (`Steady`), and in each phase how the steps made, those of the ramp and those until the way down add up to the move
(`OnItsWay`): exactly on the way up, up to the step in which the speed was reached at constant speed, and up to the two or three extra
steps on the way down. When the delay falls below its minimum is left open, so the proof does not depend on the rounding.

`ToolChangeProofs` proves `ChangesAreSound`, `Spec => []ChangeSound`, for every program, every set of tools,
and any number of typed lines, resets and stops, outside of the windows of deviation 38
(`ToolAssumptions`, which also keeps the operator's lines apart from the program's). `ToolInv` ties the
handler, the read function and the acknowledgement to each other (`HandlersInv`), says that a routine
runs for a trapped cycle start only (`RoutineInv`), whose lines are where (`LinesInv`) and that
position and tool remembered at the M6 are those to be restored (`ChangeInv`).

`ProtocolProofs` proves eight properties of the executive, for every set of inputs and commands, any
number of blocks and segments and any depth of calls:

* `AlarmStaysLatched` (`AlarmLatched`) and `JogIsFlushed` (`JogFlushed`), without delays in the
  handlers (with them the first is false, deviation 2);
* `ResetsAreHandled` (`ResetNotSwallowed`), with and without parking, delays and stops, from no assumption: what
  deviation 14 describes is the only way in which a reset is lost;
* `StoppedLeavesNothingOn` (`StoppedIsOff`) and `ResumesOnlyWhenClosed` (`ResumesWithDoorClosed`), without parking and
  delays (deviations 5, 6 and 15), e-stop (13) and stop command;
* `MotionStaysOwned` (`MotionOwned`), `WaitersAreWoken` (`WaitersWake`) and `SyncsEndAtRest` (`SyncEndsAtRest`), without
  parking and delays (8, 9), for programs of any length under cycle start, feed hold, spindle stop and stop: the
  inputs and commands of the run `program` (`ProgramOnly`). With a jog that is cancelled, a door or a hard limit they are
  false (1, 10, 13).

Each handler and each function of the state machine has a lemma that says what it leaves alone; `Framed` and
`Passes` are the frames that compose (`KeptTransitive`). `LockInv` knows the two call stacks there are
without delays and that the state a handler goes back to is never a locked one; `ResetInv` says that fetched requests
exist only while they are dispatched, delays included; `StoppedInv` that of alarm, reset and
the switching off of the outputs the next is still to come until all are done: a machine that was
locked with the spindle on has a reset under way, and a command that waits to switch it on is aborted
first. It contains the invariant `Sound` of the record, which says for each state and handler what is off.
`RunInv` says that the machine either rests, in idle, a completed hold or a tool change, or waits for the end of a
motion; that it then moves or this end is posted, once; and that an end nobody waits for is only there with an empty
planner. The last is what keeps the end of one motion from being taken for that of the next, and it rests on where the
foreground is: a stop takes the waiter away but aborts what would queue another motion (`m.cancel`), up to the main loop,
which fetches requests before it reads a line; a tool change is asked for after a synchronization (`tool_change` in
`RunInv`), so nothing is queued when it is handled. `Advanced` says what one call of a state handler may make of a machine and
the requests fetched for it (`Expected`); the lemmas ...Runs state both for each handler and each action.

`GcodeProofs` proves four properties of the parser for every set of vocabularies, stored systems, tools
and places, with a stop in any wait of a block:

* `CoordsStayFresh` (`CoordsFresh`: the data of the work coordinate system in use are the stored ones; G92 and
  tool offsets are not its subject) from `RestoresCurrent`: no vocabulary has both a G10 and an M72 (deviation 21);
* `FeedStaysInMode` (`FeedInMode`) from `EndsWithoutFeed` (deviation 22);
* `PositionIsTracked` (`PositionTracks`) from `MovesAlone` (deviations 18 and 20);
* `ModesAreNamed` (`ModesNamed`, the first half of `ChangesNamed`), from no assumption.

`GcodeMC` states the three as an ASSUME, so TLC shows that there are programs that satisfy them. The invariant `GcodeInv` says
of `g` what each property needs: modes of their groups with offsets as stored, also in the modes that M70
saves (`StateCoords`, `StateFed`), and a motion mode the program allows (`StatePlace`). A block is proved in
two parts. The checks are twenty operators one after the other, each of which changes little of its context:
`Passed` says what all of them leave alone, and which feed rate, speed and offsets they select. The
execution changes `g` field by field, with a wait, hence a stop and a re-initialization, between
any two: `Stage` says what every stage keeps of the invariants, before the modes are set, `Late`
while they are, and `Done` at the end; a block that was stopped in the middle is covered as the stages hold from any
initialized state.

All theorems rest on the named assumptions of the modules and on those listed here, and on nothing else.
Type correctness of the records `m` and `g` in full is not stated as a theorem; the proofs carry the part they use.

Only model-checked, as no theorem states them: in `Protocol` the parking properties (`ResumesAsStopped`, `ParkingInOrder`;
their invariants relate the phase of every call on the stack to the stepper), and motion and waiting with jogs and resets;
`TaskScheduler`, `NgcExpr` and `FlowProgram`, whose walks over lists and expressions are recursive
operators, which the prover does not support, and with them the rest of what `ServicesMC` checks, but for spindles, streams, stale reports, lines and CAN bus;
`ImplementsStepQueue` of `SegmentBuffer`, whose mapping adds up the steps of segments and motions (a sum over a set is a fold,
an induction over data);
`MovesNamedAxes` (it needs that the parser has no pending retract from another plane); liveness, which is outside
the prover's reach.

## Not modelled

In the executive and state machine: check mode, probing and its alarm
protection, feed_hold_disable and threading, feed and rapid
overrides and coolant toggles, `restore_after_feed_hold` off, the queries the
blocked loop answers, laser mode except for the ring, more than one program
segment per block, the interruption of the re-initialization. Interrupts do not
nest. In the scheduler: the systick and on_booted lists. In the parser: lathe
modes, motion synchronized with the spindle (G33, G76, G95), laser, macros of
plugins (G65, M99), user M codes, M66, M73, check mode. In the settings: units, groups and texts, `$$` of plugins, the
settings of encoders and of Modbus, backlash and jerk, more than two axes. In homing: manual homing, and kinematics but CoreXY. In the tool change: the tool table, a rotated plane.
Contents and attributes of files. Analog ports, spindle encoders, linearization of PWM values, Modbus functions and stream claims, CAN filters.

Junction speeds, the segments of an arc, step times and the transformations of kinematics are floating point arithmetic;
the wording of reports and the parsing of words are text. The desktop and web programs have no state
of their own.

## Plan

Done: the executive with state machine, segments, override rings and tasks; the parser;
flow control; settings and storage; the devices; the theorems above. Left, in order:

1. The theorems on motion and waiting of `Protocol` with jogs, sleep and resets; the parking properties, from an
   invariant that relates every call on the stack to the stepper and the requests that are pending.
2. That every step of `SegmentBuffer` is one of `StepQueue` or a stutter, given how each changes the
   steps of a motion; the sums themselves stay with TLC.
3. More of reports. A liveness property of the scheduler.
