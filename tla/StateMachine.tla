----------------------------- MODULE StateMachine -----------------------------
(***************************************************************************)
(* state_machine.c: what state_set and each state handler do to the        *)
(* machine.  A handler called by another one with EXEC_CYCLE_COMPLETE is   *)
(* the operator ...Complete.  A function that waits in delay_sec leaves    *)
(* the point where it waits in m.call; Protocol runs the delay and then    *)
(* continues with Continue.  Operators are defined callee first.           *)
(***************************************************************************)
EXTENDS Machine

\* state_set ends by clearing sys.alarm outside the alarm states.
ClearAlarm(m) ==
    IF m.state \in {"alarm", "estop"} THEN m ELSE [m EXCEPT !.alarm = "none"]

\* parking_state as the handlers derive it from the door switch.
DoorState(m) == IF m.door THEN "door_ajar" ELSE "door_closed"

DeEnergized(m) == [m EXCEPT !.spindle = FALSE, !.coolant = FALSE]

-----------------------------------------------------------------------------
(* state_set for the states that are entered without a hold.               *)

SetIdle(m) ==
    IF m.state = "idle" THEN m
    ELSE ClearAlarm(
            [m EXCEPT !.suspend = FALSE,
                      !.exHold = FALSE, !.exSys = FALSE, !.endMotion = FALSE,
                      !.parking = "door_closed", !.holding = "no",
                      !.state = "idle", !.pending = "idle",
                      !.active = FALSE, !.motion = FALSE,
                      !.restart = FALSE, !.restoring = FALSE,
                      !.handler = "idle"])

\* Only from idle and with a block in the planner: prep, wake up, run.
SetCycle(m) ==
    IF m.state = "cycle" THEN m
    ELSE IF m.state = "idle" /\ m.blocks > 0
    THEN ClearAlarm([StWakeUp(PrepAtRest([m EXCEPT !.state = "cycle"]))
                        EXCEPT !.handler = "cycle"])
    ELSE ClearAlarm(m)

SetJog(m) ==
    IF m.state = "jog" THEN m
    ELSE ClearAlarm(
            [m EXCEPT !.pending = IF m.state = "tool_change"
                                  THEN "tool_change" ELSE @,
                      !.state = "jog", !.handler = "cycle"])

SetToolChange(m) ==
    IF m.state = "tool_change" THEN m
    ELSE ClearAlarm([m EXCEPT !.state = "tool_change",
                              !.handler = "await_toolchanged"])

\* The alarm states.
SetLocked(m, alarmState) ==
    IF m.state = alarmState THEN m
    ELSE ClearAlarm([m EXCEPT !.state = alarmState, !.suspend = FALSE,
                              !.handler = "noop"])

\* Mutant: asleep with spindle and coolant left on.
EnterSleepEnergized(m) == [StGoIdle(m) EXCEPT !.handler = "noop"]

EnterSleep(m) == [DeEnergized(StGoIdle(m)) EXCEPT !.handler = "noop"]

-----------------------------------------------------------------------------
(* Feed hold.                                                              *)

\* initiate_hold: remember what to restore, decelerate if in motion.
InitiateHold(m, new) ==
    LET remember(n) ==
            [n EXCEPT !.rcSpindle = n.gcSpindle,
                      !.rcCoolant = n.gcCoolant \/ (n.blocks = 0 /\ n.coolant),
                      !.suspend = TRUE,
                      !.pending = IF n.state = "jog" THEN new ELSE "idle"]
        decelerate(n) ==
            IF n.state \in {"cycle", "jog"}
            THEN [StReload(n) EXCEPT !.exHold = TRUE, !.handler = "await_hold"]
            ELSE n
        suspend(n) ==
            IF new = "hold" THEN [n EXCEPT !.holding = "pending"]
            ELSE [n EXCEPT !.parking = "retracting",
                           !.active = FALSE, !.motion = FALSE,
                           !.restart = FALSE, !.restoring = FALSE]
    IN suspend(decelerate(remember(m)))

\* Mutant: the end of the hold is taken for granted.
HoldAwaitsNothing(m) == FALSE

\* What initiate_hold returns.
HoldAwaitsMotion(m) == m.state = "cycle"

SetHold(m) ==
    LET complete(n) == [n EXCEPT !.holding = "complete",
                                 !.handler = "await_resume"]
        hold(n) == IF HoldAwaitsMotion(m) THEN n ELSE complete(n)
    IN IF m.state = "hold" THEN m
       ELSE IF m.state = "jog" THEN ClearAlarm(m)
       ELSE ClearAlarm([hold(InitiateHold(m, "hold")) EXCEPT !.state = "hold"])

-----------------------------------------------------------------------------
(* Retraction: steps of the parking motion, last step first.               *)

\* A system motion has ended: st_parking_restore_buffer.
SysMotionDone(m) ==
    IF m.exSys THEN StReload([m EXCEPT !.exSys = FALSE]) ELSE m

\* state_await_resume, its part for EXEC_CYCLE_COMPLETE.
AwaitResumeComplete(m) ==
    IF ~ParkingEnabled THEN m
    ELSE LET d == [SysMotionDone(m) EXCEPT !.parking = DoorState(m)]
         IN IF m.state = "sleep" THEN EnterSleep(d) ELSE d

\* What parking switches off.
ParkedOff(m) == [m EXCEPT !.spindle = FALSE, !.coolant = @ /\ KeepCoolantOn]

\* state_await_waypoint_retract: pulled out, de-energize and go to the target.
AwaitWaypointRetractComplete(m) ==
    LET park(off) == IF off.motion /\ off.z < Parked /\ CanPark(off, Parked)
                     THEN ParkingMotion(off, Parked)
                     ELSE AwaitResumeComplete(off)
    IN park([ParkedOff(SysMotionDone(m)) EXCEPT !.handler = "await_resume"])

\* park.retract_waypoint
Waypoint(m) == IF m.restoreZ + PullOut > Parked THEN Parked
               ELSE m.restoreZ + PullOut

\* state_await_hold in the safety door and sleep states, parking possible.
Retract(m) ==
    LET w == Waypoint(m)
        s == [m EXCEPT !.handler = "await_waypoint_retract"]
    IN IF m.z < w /\ CanPark(m, w)
       THEN [ParkingMotion(s, w) EXCEPT !.motion = @ \/ ~m.restart]
       ELSE AwaitWaypointRetractComplete([s EXCEPT !.motion = @ /\ m.restart])

\* No parking motion possible: just disable the spindle and coolant.
StopAccessories(m) ==
    [m EXCEPT !.spindle = FALSE,
              !.coolant = @ /\ KeepCoolantOn /\ m.state # "sleep",
              !.parking = DoorState(m)]

HoldComplete(m) ==
    [m EXCEPT !.holding = "complete", !.handler = "await_resume"]

\* Mutant: a restarted retraction overwrites it.
RestoreTargetLatest(m) == IF ParkingEnabled THEN m.z ELSE m.restoreZ

\* park.restore_target: where the first retraction starts.
RestoreTarget(m) == IF ParkingEnabled /\ ~m.active THEN m.z ELSE m.restoreZ

\* state_await_hold, for EXEC_CYCLE_COMPLETE, real or simulated.
AwaitHoldComplete(m) ==
    LET stop(n) == StReload([n EXCEPT !.exHold = FALSE, !.exSys = FALSE,
                                      !.endMotion = FALSE])
        target(n) == [n EXCEPT !.spindleStop = "none",
                               !.restoreZ = RestoreTarget(n),
                               !.active = @ \/ ParkingEnabled]
        park(n) == IF ParkingEnabled /\ n.restoreZ < Parked THEN Retract(n)
                   ELSE HoldComplete(StopAccessories(n))
    IN CASE m.state = "tool_change"        -> HoldComplete(DeEnergized(stop(m)))
         [] m.state \in {"sleep", "door"} -> park(target(stop(m)))
         [] OTHER                          -> HoldComplete(stop(m))

\* state_set(STATE_SAFETY_DOOR), state_set(STATE_SLEEP): at rest the end of the
\* hold is simulated; a jog keeps its state, the new one is pending.
SetDoorOrSleep(m, new) ==
    LET enter(n) == IF HoldAwaitsMotion(m) THEN [n EXCEPT !.state = new]
                    ELSE IF n.pending # new
                    THEN AwaitHoldComplete([n EXCEPT !.state = new])
                    ELSE n
        sleep(n) == IF n.state = "sleep"
                       /\ n.handler # "await_waypoint_retract"
                    THEN EnterSleep(n) ELSE n
    IN IF \/ m.state = new
          \/ new = "door" /\ m.state \in {"alarm", "estop", "sleep"}
       THEN m
       ELSE ClearAlarm(sleep(enter(
               InitiateHold([m EXCEPT !.parking = "retracting"], new))))

\* state_set with the new state as data.
StateSet(m, new) ==
    CASE new = "idle"              -> SetIdle(m)
      [] new = "cycle"             -> SetCycle(m)
      [] new = "jog"               -> SetJog(m)
      [] new = "tool_change"       -> SetToolChange(m)
      [] new = "hold"              -> SetHold(m)
      [] new \in {"door", "sleep"} -> SetDoorOrSleep(m, new)
      [] OTHER                     -> SetLocked(m, new)

-----------------------------------------------------------------------------
(* Resuming: back to the pull-out height, restore spindle and coolant,     *)
(* plunge, restart the cycle; a door opening restarts the retraction.      *)

\* state_await_restart_retract
AwaitRestartRetractComplete(m) ==
    AwaitHoldComplete([SysMotionDone(m) EXCEPT !.handler = "await_hold"])

\* Abort the plunge; without a motion under way retract at once.
RestartRetract(m) ==
    LET r == [m EXCEPT !.handler = "await_restart_retract",
                       !.restart = TRUE, !.parking = "retracting"]
    IN IF m.exSys THEN [StReload(r) EXCEPT !.exHold = TRUE]
       ELSE AwaitRestartRetractComplete(r)

\* state_await_resumed: plunged, restart the cycle.
AwaitResumedComplete(m) ==
    LET normal(n) ==
            IF ~n.exSys THEN n
            ELSE StReload([n EXCEPT !.exHold = FALSE, !.exSys = FALSE,
                                    !.endMotion = FALSE])
    IN SetCycle(SetIdle(normal(
           [m EXCEPT !.parking = "door_closed",
                     !.active = FALSE, !.motion = FALSE,
                     !.restart = FALSE, !.restoring = FALSE])))

\* Mutant: the planner is not reset.
JogStopped(m) ==
    StReset([m EXCEPT !.exHold = FALSE, !.exSys = FALSE, !.endMotion = FALSE,
                      !.suspend = FALSE])

\* A jog's rest is thrown away.
JogDropped(m) ==
    StReset([m EXCEPT !.exHold = FALSE, !.exSys = FALSE, !.endMotion = FALSE,
                      !.blocks = 0, !.suspend = FALSE])

\* A tool change requested meanwhile comes next.
ToolChangeNext(m) == IF m.toolChange THEN SetToolChange(m) ELSE m

\* state_await_motion_cancel
AwaitMotionCancelComplete(m) ==
    ToolChangeNext(StateSet(IF m.state = "jog" THEN JogDropped(m) ELSE m,
                            m.pending))

CycleComplete(m) == IF m.toolChange THEN SetToolChange(m) ELSE SetIdle(m)

\* Enter a delay of a restore function.  coolant_restore runs a whole
\* protocol_execute_realtime per step of the delay when not suspended.
Wait(m, at, tail) ==
    [m EXCEPT !.call = [at |-> at, tail |-> tail,
                        dwell |-> at \in {"coolant", "hold_coolant"}
                                  /\ ~m.suspend]]

\* stateHandler(EXEC_CYCLE_COMPLETE) where stateHandler may have been changed
\* by what ran during a delay.  state_restore calls back here, so it is left
\* for Continue.
HandlerComplete(m, tail) ==
    CASE m.handler = "cycle"                  -> CycleComplete(m)
      [] m.handler = "await_hold"             -> AwaitHoldComplete(m)
      [] m.handler = "await_resume"           -> AwaitResumeComplete(m)
      [] m.handler = "await_resumed"          -> AwaitResumedComplete(m)
      [] m.handler = "await_waypoint_retract" -> AwaitWaypointRetractComplete(m)
      [] m.handler = "await_restart_retract"  -> AwaitRestartRetractComplete(m)
      [] m.handler = "await_motion_cancel"    -> AwaitMotionCancelComplete(m)
      [] m.handler = "restore"                -> Wait(m, "restore_again", tail)
      [] OTHER                                -> m

\* The last statements of state_await_resume: step_control survives state_set.
RestartCycle(m) ==
    IF m.state \in {"sleep", "door"} THEN m
    ELSE SetCycle([SetIdle(m) EXCEPT !.exHold = m.exHold, !.exSys = m.exSys,
                                     !.endMotion = m.endMotion])

\* Return from a handler to state_await_resume, if that called it.
ReturnTo(m, tail) ==
    IF tail /\ m.call = NoDelay THEN RestartCycle(m) ELSE m

\* Mutant: a door opened during the restore is forgotten.
RestorePositionBlindly(m, tail) ==
    LET r == [m EXCEPT !.restoring = FALSE, !.parking = "resuming"]
    IN ReturnTo(IF r.motion THEN ParkingMotion(r, r.restoreZ)
                ELSE HandlerComplete(r, tail), tail)

\* state_restore after state_restore_conditions.
RestorePosition(m, tail) ==
    LET resuming(n) == IF n.motion THEN [n EXCEPT !.parking = "resuming"] ELSE n
        plunge(n) == IF n.restart THEN RestartRetract(n)
                     ELSE IF n.motion /\ CanPark(n, n.restoreZ)
                     THEN ParkingMotion(resuming(n), n.restoreZ)
                     ELSE HandlerComplete(resuming(n), tail)
    IN ReturnTo(plunge([m EXCEPT !.restoring = FALSE, !.spindleStop = "none"]),
                tail)

\* gc_coolant
GcCoolant(m, on) == [m EXCEPT !.gcCoolant = on, !.coolant = on]

\* state_restore_conditions, second half.
RestoreCoolant(m, tail) ==
    LET differs == m.gcCoolant # m.coolant
    IN IF differs /\ DoorDelays /\ m.rcCoolant /\ ~m.coolant
       THEN Wait([m EXCEPT !.coolant = TRUE], "coolant", tail)
       ELSE RestorePosition(IF differs THEN GcCoolant(m, m.rcCoolant) ELSE m,
                            tail)

\* state_restore from its first EXEC_CYCLE_COMPLETE to the first delay.
\* spindle_set_state does nothing during an abort.
RestoreComplete(m, tail) ==
    LET spindle(n) ==
            LET differs == n.spindle # n.rcSpindle /\ ~Aborted(n)
                on(k) == IF differs /\ DoorDelays THEN Wait(k, "spindle", tail)
                         ELSE RestoreCoolant(k, tail)
            IN on([n EXCEPT !.spindle = IF differs THEN n.rcSpindle ELSE @])
    IN spindle([SysMotionDone(m) EXCEPT !.restart = FALSE, !.restoring = TRUE,
                                        !.handler = "await_resumed"])

-----------------------------------------------------------------------------
(* Resuming from a feed hold.                                              *)

HoldRestored(m) == RestartCycle([m EXCEPT !.spindleStop = "none"])

HoldRestoreCoolant(m) ==
    LET differs == m.rcCoolant # m.coolant
    IN IF differs /\ HoldDelays /\ m.rcCoolant
       THEN Wait([m EXCEPT !.coolant = TRUE], "hold_coolant", TRUE)
       ELSE HoldRestored(IF differs THEN GcCoolant(m, m.rcCoolant) ELSE m)

\* settings.flags.restore_after_feed_hold is on, the default.
HoldRestore(m) ==
    LET differs == m.spindle # m.rcSpindle /\ ~Aborted(m)
        on(n) == IF differs /\ HoldDelays THEN Wait(n, "hold_spindle", TRUE)
                 ELSE HoldRestoreCoolant(n)
    IN on([m EXCEPT !.spindle = IF differs THEN m.rcSpindle ELSE @,
                    !.spindleStop = IF m.state = "hold" /\ @ = "none"
                                    THEN "cycle" ELSE @])

\* What a function does after the delay it waited in.
Continue(m, delay) ==
    CASE delay.at = "spindle"       -> RestoreCoolant(m, delay.tail)
      [] delay.at = "coolant"       -> RestorePosition(GcCoolant(m, m.rcCoolant),
                                                       delay.tail)
      [] delay.at = "restore_again" -> RestoreComplete(m, delay.tail)
      [] delay.at = "hold_spindle"  -> HoldRestoreCoolant(m)
      [] delay.at = "hold_coolant"  -> HoldRestored(GcCoolant(m, m.rcCoolant))
      [] OTHER                      -> [m EXCEPT !.spindleStop = "none"]

-----------------------------------------------------------------------------
(* The handlers, with the set of requests rt they are called with.         *)

StateIdle(m, rt) ==
    LET start(n) == IF "cycle_start" \in rt THEN SetCycle(n) ELSE n
        hold(n)  == IF "feed_hold" \in rt THEN SetHold(n) ELSE n
        tool(n)  == IF "tool_change" \in rt
                    THEN SetToolChange([n EXCEPT !.readSuspended = TRUE]) ELSE n
        sleep(n) == IF "sleep" \in rt THEN SetDoorOrSleep(n, "sleep") ELSE n
    IN sleep(tool(hold(start(m))))

StateCycle(m, rt) ==
    LET tool(n) == IF "tool_change" \in rt
                   THEN [n EXCEPT !.readSuspended = TRUE] ELSE n
        end(n)  == IF "cycle_complete" \in rt THEN CycleComplete(n) ELSE n
        stop(n) == IF "motion_cancel" \in rt
                   THEN [StReload(n) EXCEPT !.suspend = TRUE, !.exHold = TRUE,
                                            !.handler = "await_motion_cancel"]
                   ELSE n
        hold(n) == IF "feed_hold" \in rt THEN SetHold(n) ELSE n
    IN IF rt = {"cycle_start"} THEN m ELSE hold(stop(end(tool(m))))

\* A tool change still pending is kept: the cycle start key clears it first.
AwaitToolchanged(m, rt) ==
    IF "cycle_start" \notin rt THEN m
    ELSE SetCycle(SetIdle(
            [m EXCEPT !.readSuspended = @ /\ m.toolChange,
                      !.pending = IF m.toolChange THEN "tool_change"
                                  ELSE "idle"]))

\* Mutant: the door is not checked.
ResumeFromDoorBlindly(m) ==
    RestoreComplete([m EXCEPT !.handler = "restore", !.parking = "resuming"],
                    TRUE)

\* Safety door: back to the pull-out height, then state_restore.
ResumeFromDoor(m) ==
    LET r == [m EXCEPT !.handler = "restore", !.parking = "resuming",
                       !.restart = @ /\ ~m.motion]
    IN IF ~m.restart /\ m.door THEN m
       ELSE IF m.motion /\ CanPark(r, Waypoint(m))
       THEN ParkingMotion(r, Waypoint(m))
       ELSE RestoreComplete(r, TRUE)

AwaitResume(m, rt) ==
    LET parked(n) == IF "cycle_complete" \in rt THEN AwaitResumeComplete(n)
                     ELSE n
        sleep(n) == IF "sleep" \in rt THEN SetDoorOrSleep(n, "sleep") ELSE n
        resume(n) == CASE n.state = "sleep"       -> n
                       [] n.state = "tool_change" -> RestartCycle(n)
                       [] n.state = "door"        -> ResumeFromDoor(n)
                       [] OTHER                   -> HoldRestore(n)
        act(n) == IF "safety_door" \in rt THEN [n EXCEPT !.parking = DoorState(n)]
                  ELSE IF "cycle_start" \in rt THEN resume(n)
                  ELSE IF "door_closed" \in rt /\ ~n.door
                  THEN [n EXCEPT !.parking = "door_closed"]
                  ELSE n
    IN IF "cycle_complete" \in rt /\ ParkingEnabled /\ m.state = "sleep"
       THEN parked(m)
       ELSE act(sleep(parked(m)))

StateRestore(m, rt) ==
    IF "safety_door" \in rt
    THEN IF m.restoring THEN [m EXCEPT !.restart = TRUE] ELSE RestartRetract(m)
    ELSE IF "cycle_complete" \in rt THEN RestoreComplete(m, FALSE)
    ELSE m

AwaitResumed(m, rt) ==
    IF "safety_door" \in rt THEN RestartRetract(m)
    ELSE IF "cycle_complete" \in rt THEN AwaitResumedComplete(m)
    ELSE m

\* Handlers that wait for the end of a motion only.
OnComplete(m, rt) ==
    IF "cycle_complete" \in rt THEN HandlerComplete(m, FALSE) ELSE m

\* stateHandler(rt_exec)
Handle(m, rt) ==
    CASE m.handler = "idle"              -> StateIdle(m, rt)
      [] m.handler = "cycle"             -> StateCycle(m, rt)
      [] m.handler = "await_toolchanged" -> AwaitToolchanged(m, rt)
      [] m.handler = "await_resume"      -> AwaitResume(m, rt)
      [] m.handler = "restore"           -> StateRestore(m, rt)
      [] m.handler = "await_resumed"     -> AwaitResumed(m, rt)
      [] OTHER                           -> OnComplete(m, rt)

StateUpdate(m, rt) ==
    Handle(IF "safety_door" \in rt THEN SetDoorOrSleep(m, "door") ELSE m, rt)

\* state_door_reopened
DoorReopened(m) == ParkingEnabled /\ m.restart

\* state_suspend_manager, between two rounds of the suspend loop.
SuspendManager(m) ==
    IF m.handler # "await_resume" \/ ~m.gcSpindle THEN m
    ELSE CASE m.spindleStop = "initiate" ->
                [m EXCEPT !.spindle = FALSE, !.spindleStop = "enabled"]
           [] m.spindleStop = "restore" ->
                IF m.spindle = m.rcSpindle \/ Aborted(m)
                THEN [m EXCEPT !.spindleStop = "none"]
                ELSE IF HoldDelays
                THEN Wait([m EXCEPT !.spindle = m.rcSpindle],
                          "suspend_spindle", FALSE)
                ELSE [m EXCEPT !.spindle = m.rcSpindle, !.spindleStop = "none"]
           [] OTHER -> m
=============================================================================
