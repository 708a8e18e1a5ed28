------------------------------- MODULE Machine -------------------------------
(***************************************************************************)
(* The state the real-time core of the firmware shares: the system_t sys   *)
(* of system.h, the statics of state_machine.c, and what the core can      *)
(* observe of the planner, the step segment buffer, the outputs and pins.  *)
(* The state is one record m; an operator of this module and of            *)
(* StateMachine takes the record before a C function runs and yields the   *)
(* record after it.                                                        *)
(*                                                                         *)
(* Motion is counted, not computed: the planner holds `blocks' program     *)
(* blocks of one segment each and, separately, one system motion block for *)
(* parking, of SysSegs segments; the parking axis is at one of three       *)
(* heights.  Accessories are on or off.                                    *)
(***************************************************************************)
EXTENDS Naturals, Sequences, FiniteSets

CONSTANTS ParkingEnabled,   \* settings.parking.flags.enabled, parking axis homed
          KeepCoolantOn,    \* settings.safety_door.flags.keep_coolant_on
          DoorDelays,       \* settings.safety_door.*_on_delay are not zero
          HoldDelays,       \* settings.spindle.on_delay, coolant.on_delay are not zero
          MaxBlocks,        \* bound: program blocks in the planner
          MaxSegs           \* bound: segments in the step segment buffer

ASSUME SettingsAssumption ==
    {ParkingEnabled, KeepCoolantOn, DoorDelays, HoldDelays} \subseteq BOOLEAN
ASSUME BoundsAssumption ==
    MaxBlocks \in Nat /\ MaxSegs \in Nat /\ MaxBlocks > 0 /\ MaxSegs > 0

\* sys_state_t, without homing and check mode.
States == {"idle", "alarm", "cycle", "hold", "jog", "door", "sleep", "estop",
           "tool_change"}

\* The functions stateHandler can point to.
Handlers == {"idle", "cycle", "await_hold", "noop", "await_motion_cancel",
             "await_resume", "await_toolchanged", "await_waypoint_retract",
             "restore", "await_resumed", "await_restart_retract"}

\* The EXEC_* requests the state machine sees.
Requests == {"cycle_start", "cycle_complete", "feed_hold", "stop", "reset",
             "safety_door", "motion_cancel", "sleep", "tool_change",
             "door_closed"}

Alarms == {"none", "abort_cycle", "hard_limit", "estop"}

\* Alarms only a reset clears: sys.blocking_event.
CriticalAlarms == {"hard_limit", "estop"}

\* Heights of the parking axis; PullOut is also settings.parking.pullout_increment.
Work == 0
PullOut == 1
Parked == 2
Heights == Work .. Parked

\* A system motion takes more than one segment, so it can be interrupted.
SysSegs == 2

\* Where a C function waits in delay_sec; `tail' says that state_await_resume
\* is the caller and still has its last statements to run.
DelayPoints == {"spindle", "coolant", "hold_spindle", "hold_coolant",
                "suspend_spindle", "restore_again"}
Delays == [at : DelayPoints, tail : BOOLEAN, dwell : BOOLEAN]
NoDelay == [at |-> "none", tail |-> FALSE, dwell |-> FALSE]

Machines ==
    [ state : States, pending : States, handler : Handlers,
      suspend : BOOLEAN,
      exHold : BOOLEAN, exSys : BOOLEAN, endMotion : BOOLEAN, \* step_control
      holding : {"no", "pending", "complete"},
      parking : {"door_closed", "door_ajar", "retracting", "resuming"},
      active : BOOLEAN, motion : BOOLEAN,                      \* park.flags
      restart : BOOLEAN, restoring : BOOLEAN,
      restoreZ : Heights, z : Heights, sysTarget : Heights,
      spindle : BOOLEAN, coolant : BOOLEAN,        \* outputs
      gcSpindle : BOOLEAN, gcCoolant : BOOLEAN,    \* gc_state.modal
      rcSpindle : BOOLEAN, rcCoolant : BOOLEAN,    \* restore_condition
      spindleStop : {"none", "initiate", "enabled", "restore", "cycle"},
      toolChange : BOOLEAN, readSuspended : BOOLEAN,
      alarm : Alarms, rtAlarm : Alarms, rt : SUBSET Requests,
      abort : BOOLEAN, cancel : BOOLEAN, resetPending : BOOLEAN,
      blocking : BOOLEAN, positionLost : BOOLEAN,
      blocks : 0 .. MaxBlocks, segs : 0 .. MaxSegs, sysLeft : 0 .. SysSegs,
      loaded : {"none", "run", "hold", "sys", "sys_hold"},  \* pl_block
      stepping : BOOLEAN, execBlock : BOOLEAN,
      door : BOOLEAN, estop : BOOLEAN,             \* pins
      call : Delays \cup {NoDelay} ]               \* delay being entered

PowerUp ==
    [ state |-> "idle", pending |-> "idle", handler |-> "idle",
      suspend |-> FALSE,
      exHold |-> FALSE, exSys |-> FALSE, endMotion |-> FALSE,
      holding |-> "no", parking |-> "door_closed",
      active |-> FALSE, motion |-> FALSE,
      restart |-> FALSE, restoring |-> FALSE,
      restoreZ |-> Work, z |-> Work, sysTarget |-> Work,
      spindle |-> FALSE, coolant |-> FALSE,
      gcSpindle |-> FALSE, gcCoolant |-> FALSE,
      rcSpindle |-> FALSE, rcCoolant |-> FALSE,
      spindleStop |-> "none",
      toolChange |-> FALSE, readSuspended |-> FALSE,
      alarm |-> "none", rtAlarm |-> "none", rt |-> {},
      abort |-> FALSE, cancel |-> FALSE, resetPending |-> FALSE,
      blocking |-> FALSE, positionLost |-> FALSE,
      blocks |-> 0, segs |-> 0, sysLeft |-> 0,
      loaded |-> "none",
      stepping |-> FALSE, execBlock |-> FALSE,
      door |-> FALSE, estop |-> FALSE,
      call |-> NoDelay ]

\* ABORTED of nuts_bolts.h.
Aborted(m) == m.abort \/ m.cancel

\* system_set_exec_state_flag
Request(m, r) == [m EXCEPT !.rt = @ \cup {r}]

-----------------------------------------------------------------------------
(* stepper.c, as far as the state machine can tell.                        *)

StWakeUp(m) == [m EXCEPT !.stepping = TRUE]

StGoIdle(m) == [m EXCEPT !.stepping = FALSE]

StIsStepping(m) == m.stepping /\ m.execBlock

StReset(m) == [m EXCEPT !.stepping = FALSE, !.execBlock = FALSE,
                        !.segs = 0, !.loaded = "none"]

\* st_update_plan_block_parameters and st_parking_restore_buffer both make
\* the next prep load a block anew.
StReload(m) == [m EXCEPT !.loaded = "none"]

\* The block st_prep_buffer works on: a profile is chosen when it is loaded.
Loaded(m) ==
    IF m.loaded # "none" THEN m.loaded
    ELSE IF m.exSys THEN (IF m.exHold THEN "sys_hold" ELSE "sys")
    ELSE IF m.blocks > 0 THEN (IF m.exHold THEN "hold" ELSE "run")
    ELSE "none"

PrepBlocked(m) == m.endMotion \/ m.segs = MaxSegs \/ Loaded(m) = "none"

\* plan_discard_current_block of an empty planner does nothing.
Discarded(m) == IF m.blocks > 0 THEN m.blocks - 1 ELSE 0

\* End of a block: a system motion stops the segment generator, after any
\* other block the planner's tail is discarded.
EndOfBlock(m) ==
    IF m.exSys THEN [m EXCEPT !.endMotion = TRUE]
    ELSE [m EXCEPT !.loaded = "none", !.blocks = Discarded(m)]

\* One more segment of the block, which may be its last.
PrepRun(m) ==
    LET p == [m EXCEPT !.loaded = Loaded(m), !.segs = @ + 1] IN
    IF Loaded(m) \in {"run", "hold"} THEN EndOfBlock(p)
    ELSE IF m.sysLeft > 1 THEN [p EXCEPT !.sysLeft = @ - 1]
    ELSE EndOfBlock([p EXCEPT !.sysLeft = 0])

\* The forced deceleration ends in this block, with or without a last segment.
PrepHoldEnds(m) ==
    {[m EXCEPT !.loaded = Loaded(m), !.endMotion = TRUE, !.segs = @ + n] :
        n \in {0, 1}}

\* What one round of st_prep_buffer's loop can do.
PrepOutcomes(m) ==
    IF Loaded(m) \in {"run", "sys"} THEN {PrepRun(m)}
    ELSE PrepHoldEnds(m) \cup {PrepRun(m)}

\* st_prep_buffer called at rest, before the steppers are woken up: a hold
\* from zero speed ends at once.
PrepAtRest(m) ==
    IF PrepBlocked(m) THEN m
    ELSE IF Loaded(m) \in {"run", "sys"} THEN PrepRun(m)
    ELSE [m EXCEPT !.loaded = Loaded(m), !.endMotion = TRUE]

-----------------------------------------------------------------------------
(* mc_parking_motion of motion_control.c: refused during an abort and when *)
(* there is no distance to travel.                                         *)

CanPark(m, height) == ~m.abort /\ height # m.z

ParkingMotion(m, height) ==
    IF ~CanPark(m, height) THEN m
    ELSE StWakeUp(PrepAtRest(
            [m EXCEPT !.exSys = TRUE, !.endMotion = FALSE, !.loaded = "none",
                      !.sysLeft = SysSegs, !.sysTarget = height]))
=============================================================================
