---------------------------- MODULE ProtocolProofs ----------------------------
(***************************************************************************)
(* Proofs about the real-time executive.                                   *)
(***************************************************************************)
EXTENDS ProtocolProperties, SequenceTheorems, TLAPS

Fields == {"state", "pending", "handler", "suspend", "exHold", "exSys", "endMotion", "holding",
           "parking", "active", "motion", "restart", "restoring", "restoreZ", "z", "sysTarget",
           "spindle", "coolant", "gcSpindle", "gcCoolant", "rcSpindle", "rcCoolant", "spindleStop",
           "toolChange", "readSuspended", "alarm", "rtAlarm", "rt", "abort", "cancel", "resetPending",
           "blocking", "positionLost", "blocks", "segs", "sysLeft", "loaded", "stepping",
           "execBlock", "door", "estop", "call"}

\* A machine record; no alarm is pending behind a jog.
IsMachine(n) == DOMAIN n = Fields /\ n.pending \in States \ Locked

\* From machine a to b a function leaves requests, alarms, aborts and pins alone, raises
\* no alarm and puts nothing into an empty planner.
Framed(a, b) ==
    /\ IsMachine(b)
    /\ b.rt = a.rt /\ b.rtAlarm = a.rtAlarm
    /\ b.abort = a.abort /\ b.cancel = a.cancel /\ b.resetPending = a.resetPending
    /\ b.door = a.door /\ b.estop = a.estop
    /\ a.state \notin Locked => b.state \notin Locked
    /\ a.blocks = 0 => b.blocks = 0

\* ... and it does not wait.
Kept(a, b) == Framed(a, b) /\ b.call = a.call

NoDelays == ~DoorDelays /\ ~HoldDelays

LEMMA KeptTransitive ==
    ASSUME NEW a, NEW b, NEW c
    PROVE  /\ Framed(a, b) /\ Framed(b, c) => Framed(a, c)
           /\ Kept(a, b) /\ Kept(b, c) => Kept(a, c)
BY DEF Framed, Kept

LEMMA KeptSelf == ASSUME NEW a, IsMachine(a) PROVE Kept(a, a)
BY DEF Framed, Kept

-----------------------------------------------------------------------------
(* stepper.c, motion_control.c *)

LEMMA StepperKept ==
    ASSUME NEW n, IsMachine(n)
    PROVE  /\ Kept(n, StWakeUp(n)) /\ Kept(n, StGoIdle(n)) /\ Kept(n, StReset(n)) /\ Kept(n, StReload(n))
           /\ Kept(n, PrepAtRest(n))
BY DEF Kept, Framed, IsMachine, Fields, States, Locked, StWakeUp, StGoIdle, StReset, StReload,
       PrepAtRest, PrepBlocked, Loaded, PrepRun, EndOfBlock, Discarded

LEMMA ParkingMotionKept ==
    ASSUME NEW n, IsMachine(n), NEW height
    PROVE  Kept(n, ParkingMotion(n, height))
<1> DEFINE ready == [n EXCEPT !.exSys = TRUE, !.endMotion = FALSE, !.loaded = "none",
                              !.sysLeft = SysSegs, !.sysTarget = height]
<1>1. Kept(n, ready)
    BY DEF Kept, Framed, IsMachine, Fields, States, Locked
<1>2. ParkingMotion(n, height) = IF CanPark(n, height) THEN StWakeUp(PrepAtRest(ready)) ELSE n
    BY DEF ParkingMotion
<1> HIDE DEF ready
<1>3. Kept(ready, PrepAtRest(ready)) /\ Kept(PrepAtRest(ready), StWakeUp(PrepAtRest(ready)))
    BY <1>1, StepperKept DEF Kept, Framed
<1> QED BY <1>1, <1>2, <1>3, KeptTransitive, KeptSelf

-----------------------------------------------------------------------------
(* state_set *)

LEMMA SetKept ==
    ASSUME NEW n, IsMachine(n)
    PROVE  /\ Kept(n, ClearAlarm(n)) /\ Kept(n, DeEnergized(n))
           /\ Kept(n, SetIdle(n)) /\ Kept(n, SetJog(n)) /\ Kept(n, SetToolChange(n))
           /\ Kept(n, EnterSleep(n)) /\ Kept(n, StopAccessories(n)) /\ Kept(n, HoldComplete(n))
           /\ Kept(n, SysMotionDone(n)) /\ Kept(n, ParkedOff(n)) /\ Kept(n, JogDropped(n))
BY ZenonT(60) DEF Kept, Framed, IsMachine, Fields, States, Locked, ClearAlarm, DeEnergized,
       SetIdle, SetJog, SetToolChange, EnterSleep, StGoIdle, StopAccessories, HoldComplete,
       SysMotionDone, StReload, ParkedOff, JogDropped, StReset

LEMMA SetCycleKept ==
    ASSUME NEW n, IsMachine(n)
    PROVE  Kept(n, SetCycle(n))
<1> DEFINE cycle == [n EXCEPT !.state = "cycle"]
           running == StWakeUp(PrepAtRest(cycle))
           set == [running EXCEPT !.handler = "cycle"]
<1>1. Kept(n, cycle)
    BY DEF Kept, Framed, IsMachine, Fields, States, Locked
<1>2. SetCycle(n) = IF n.state = "cycle" THEN n
                    ELSE IF n.state = "idle" /\ n.blocks > 0 THEN ClearAlarm(set) ELSE ClearAlarm(n)
    BY DEF SetCycle
<1> HIDE DEF cycle
<1>3. Kept(cycle, PrepAtRest(cycle)) /\ Kept(PrepAtRest(cycle), running)
    BY <1>1, StepperKept DEF Kept, Framed
<1> HIDE DEF running
<1>4. Kept(running, set)
    BY <1>3 DEF Kept, Framed, IsMachine, Fields, States, Locked
<1> HIDE DEF set
<1>5. Kept(set, ClearAlarm(set)) /\ Kept(n, ClearAlarm(n)) /\ Kept(n, n)
    BY <1>4, SetKept, KeptSelf DEF Kept, Framed
<1>6. Kept(n, ClearAlarm(set))
    BY <1>1, <1>3, <1>4, <1>5, KeptTransitive
<1> QED BY <1>2, <1>5, <1>6

LEMMA InitiateHoldKept ==
    ASSUME NEW n, IsMachine(n), NEW new \in {"hold", "door", "sleep"}
    PROVE  Kept(n, InitiateHold(n, new))
BY ZenonT(60) DEF Kept, Framed, IsMachine, Fields, States, Locked, InitiateHold, StReload

LEMMA SetHoldKept ==
    ASSUME NEW n, IsMachine(n)
    PROVE  Kept(n, SetHold(n))
<1> DEFINE held == InitiateHold(n, "hold")
           done == [held EXCEPT !.holding = "complete", !.handler = "await_resume"]
           next == IF HoldAwaitsMotion(n) THEN held ELSE done
           set == [next EXCEPT !.state = "hold"]
<1>1. SetHold(n) = IF n.state = "hold" THEN n ELSE IF n.state = "jog" THEN ClearAlarm(n)
                   ELSE ClearAlarm(set)
    BY DEF SetHold
<1>2. Kept(n, held)
    BY InitiateHoldKept
<1> HIDE DEF held
<1>3. Kept(held, set)
    BY <1>2 DEF Kept, Framed, IsMachine, Fields, States, Locked
<1> HIDE DEF set
<1> QED BY <1>1, <1>2, <1>3, SetKept, KeptTransitive, KeptSelf DEF Kept, Framed

-----------------------------------------------------------------------------
(* Retraction *)

LEMMA AwaitResumeCompleteKept ==
    ASSUME NEW n, IsMachine(n)
    PROVE  Kept(n, AwaitResumeComplete(n))
<1> DEFINE d == [SysMotionDone(n) EXCEPT !.parking = DoorState(n)]
<1>1. Kept(n, SysMotionDone(n)) /\ Kept(n, n)
    BY SetKept, KeptSelf
<1>2. Kept(SysMotionDone(n), d)
    BY <1>1 DEF Kept, Framed, IsMachine, Fields, States, Locked
<1>3. AwaitResumeComplete(n) = IF ~ParkingEnabled THEN n ELSE IF n.state = "sleep" THEN EnterSleep(d) ELSE d
    BY DEF AwaitResumeComplete
<1> HIDE DEF d
<1>4. Kept(d, EnterSleep(d))
    BY <1>2, SetKept DEF Kept, Framed
<1> QED BY <1>1, <1>2, <1>3, <1>4, KeptTransitive

LEMMA AwaitWaypointRetractCompleteKept ==
    ASSUME NEW n, IsMachine(n)
    PROVE  Kept(n, AwaitWaypointRetractComplete(n))
<1> DEFINE off == ParkedOff(SysMotionDone(n))
           next == [off EXCEPT !.handler = "await_resume"]
<1>1. Kept(n, SysMotionDone(n)) /\ Kept(SysMotionDone(n), off)
    BY SetKept DEF Kept, Framed
<1>2. AwaitWaypointRetractComplete(n) = IF next.motion /\ next.z < Parked /\ CanPark(next, Parked)
                                        THEN ParkingMotion(next, Parked) ELSE AwaitResumeComplete(next)
    BY DEF AwaitWaypointRetractComplete
<1> HIDE DEF off
<1>3. Kept(off, next)
    BY <1>1 DEF Kept, Framed, IsMachine, Fields, States, Locked
<1> HIDE DEF next
<1>4. Kept(next, ParkingMotion(next, Parked)) /\ Kept(next, AwaitResumeComplete(next))
    BY <1>3, ParkingMotionKept, AwaitResumeCompleteKept DEF Kept, Framed
<1> QED BY <1>1, <1>2, <1>3, <1>4, KeptTransitive

LEMMA RetractKept ==
    ASSUME NEW n, IsMachine(n)
    PROVE  Kept(n, Retract(n))
<1> DEFINE w == Waypoint(n)
           next == [n EXCEPT !.handler = "await_waypoint_retract"]
           moving == ParkingMotion(next, w)
           moved == [moving EXCEPT !.motion = @ \/ ~n.restart]
           still == [next EXCEPT !.motion = @ /\ n.restart]
<1>1. Retract(n) = IF n.z < w /\ CanPark(n, w) THEN moved ELSE AwaitWaypointRetractComplete(still)
    BY DEF Retract
<1>2. Kept(n, next)
    BY DEF Kept, Framed, IsMachine, Fields, States, Locked
<1> HIDE DEF next
<1>3. Kept(next, moving)
    BY <1>2, ParkingMotionKept DEF Kept, Framed
<1> HIDE DEF moving
<1>4. Kept(moving, moved) /\ Kept(next, still)
    BY <1>2, <1>3 DEF Kept, Framed, IsMachine, Fields, States, Locked
<1> HIDE DEF moved, still
<1>5. Kept(still, AwaitWaypointRetractComplete(still))
    BY <1>4, AwaitWaypointRetractCompleteKept DEF Kept, Framed
<1> QED BY <1>1, <1>2, <1>3, <1>4, <1>5, KeptTransitive

LEMMA AwaitHoldCompleteKept ==
    ASSUME NEW n, IsMachine(n)
    PROVE  Kept(n, AwaitHoldComplete(n))
<1> DEFINE ended == [n EXCEPT !.exHold = FALSE, !.exSys = FALSE, !.endMotion = FALSE]
           stop == StReload(ended)
           target == [stop EXCEPT !.spindleStop = "none",
                                  !.restoreZ = RestoreTarget(stop),
                                  !.active = @ \/ ParkingEnabled]
           park == IF ParkingEnabled /\ target.restoreZ < Parked THEN Retract(target)
                   ELSE HoldComplete(StopAccessories(target))
<1>1. AwaitHoldComplete(n) = CASE n.state = "tool_change"        -> HoldComplete(DeEnergized(stop))
                               [] n.state \in {"sleep", "door"} -> park
                               [] OTHER                          -> HoldComplete(stop)
    BY DEF AwaitHoldComplete
<1>2. Kept(n, ended)
    BY DEF Kept, Framed, IsMachine, Fields, States, Locked
<1> HIDE DEF ended
<1>3. Kept(ended, stop)
    BY <1>2, StepperKept DEF Kept, Framed
<1> HIDE DEF stop
<1>4. Kept(stop, target)
    BY <1>3 DEF Kept, Framed, IsMachine, Fields, States, Locked
<1> HIDE DEF target
<1>5. /\ Kept(target, Retract(target))
      /\ Kept(target, StopAccessories(target))
      /\ Kept(stop, DeEnergized(stop)) /\ Kept(stop, HoldComplete(stop))
    BY <1>3, <1>4, RetractKept, SetKept DEF Kept, Framed
<1>6. /\ Kept(StopAccessories(target), HoldComplete(StopAccessories(target)))
      /\ Kept(DeEnergized(stop), HoldComplete(DeEnergized(stop)))
    BY <1>5, SetKept DEF Kept, Framed
<1>7. Kept(n, stop) /\ Kept(n, target)
    BY <1>2, <1>3, <1>4, KeptTransitive
<1>8. Kept(n, park)
    BY <1>5, <1>6, <1>7, KeptTransitive
<1> HIDE DEF park
<1>9. Kept(n, HoldComplete(DeEnergized(stop))) /\ Kept(n, HoldComplete(stop))
    BY <1>5, <1>6, <1>7, KeptTransitive
<1> QED BY <1>1, <1>8, <1>9

LEMMA SetDoorOrSleepKept ==
    ASSUME NEW n, IsMachine(n), NEW new \in {"door", "sleep"}
    PROVE  Kept(n, SetDoorOrSleep(n, new))
<1> DEFINE retracting == [n EXCEPT !.parking = "retracting"]
           held == InitiateHold(retracting, new)
           entered == [held EXCEPT !.state = new]
           done == AwaitHoldComplete(entered)
           enter == IF HoldAwaitsMotion(n) THEN entered
                    ELSE IF held.pending # new THEN done ELSE held
           sleep == IF enter.state = "sleep" /\ enter.handler # "await_waypoint_retract"
                    THEN EnterSleep(enter) ELSE enter
<1>1. SetDoorOrSleep(n, new) =
          IF \/ n.state = new
             \/ new = "door" /\ n.state \in {"alarm", "estop", "sleep"}
          THEN n ELSE ClearAlarm(sleep)
    BY DEF SetDoorOrSleep
<1>2. Kept(n, retracting)
    BY DEF Kept, Framed, IsMachine, Fields, States, Locked
<1> HIDE DEF retracting
<1>3. Kept(retracting, held)
    BY <1>2, InitiateHoldKept DEF Kept, Framed
<1> HIDE DEF held
<1>4. Kept(held, entered)
    BY <1>3 DEF Kept, Framed, IsMachine, Fields, States, Locked
<1> HIDE DEF entered
<1>5. Kept(entered, done)
    BY <1>4, AwaitHoldCompleteKept DEF Kept, Framed
<1> HIDE DEF done
<1>6. Kept(n, enter)
    BY <1>2, <1>3, <1>4, <1>5, KeptTransitive
<1> HIDE DEF enter
<1>7. Kept(enter, EnterSleep(enter))
    BY <1>6, SetKept DEF Kept, Framed
<1>8. Kept(n, sleep)
    BY <1>6, <1>7, KeptTransitive
<1> HIDE DEF sleep
<1>9. Kept(sleep, ClearAlarm(sleep)) /\ Kept(n, n)
    BY <1>8, SetKept, KeptSelf DEF Kept, Framed
<1> QED BY <1>1, <1>8, <1>9, KeptTransitive

LEMMA StateSetKept ==
    ASSUME NEW n, IsMachine(n), NEW new, new \in States \ Locked
    PROVE  Kept(n, StateSet(n, new))
BY SetKept, SetCycleKept, SetHoldKept, SetDoorOrSleepKept DEF StateSet, States, Locked

-----------------------------------------------------------------------------
(* Resuming, without delays *)

LEMMA AwaitRestartRetractCompleteKept ==
    ASSUME NEW n, IsMachine(n)
    PROVE  Kept(n, AwaitRestartRetractComplete(n))
<1> DEFINE next == [SysMotionDone(n) EXCEPT !.handler = "await_hold"]
<1>1. Kept(n, SysMotionDone(n))
    BY SetKept
<1>2. Kept(SysMotionDone(n), next)
    BY <1>1 DEF Kept, Framed, IsMachine, Fields, States, Locked
<1> HIDE DEF next
<1>3. Kept(next, AwaitHoldComplete(next))
    BY <1>2, AwaitHoldCompleteKept DEF Kept, Framed
<1> QED BY <1>1, <1>2, <1>3, KeptTransitive DEF AwaitRestartRetractComplete, next

LEMMA RestartRetractKept ==
    ASSUME NEW n, IsMachine(n)
    PROVE  Kept(n, RestartRetract(n))
<1> DEFINE r == [n EXCEPT !.handler = "await_restart_retract",
                          !.restart = TRUE, !.parking = "retracting"]
           held == [StReload(r) EXCEPT !.exHold = TRUE]
<1>1. Kept(n, r)
    BY DEF Kept, Framed, IsMachine, Fields, States, Locked
<1>2. RestartRetract(n) = IF n.exSys THEN held ELSE AwaitRestartRetractComplete(r)
    BY DEF RestartRetract
<1> HIDE DEF r
<1>3. Kept(r, StReload(r)) /\ Kept(r, AwaitRestartRetractComplete(r))
    BY <1>1, StepperKept, AwaitRestartRetractCompleteKept DEF Kept, Framed
<1>4. Kept(StReload(r), held)
    BY <1>3 DEF Kept, Framed, IsMachine, Fields, States, Locked
<1> HIDE DEF held
<1> QED BY <1>1, <1>2, <1>3, <1>4, KeptTransitive

LEMMA AwaitResumedCompleteKept ==
    ASSUME NEW n, IsMachine(n)
    PROVE  Kept(n, AwaitResumedComplete(n))
<1> DEFINE r == [n EXCEPT !.parking = "door_closed",
                          !.active = FALSE, !.motion = FALSE,
                          !.restart = FALSE, !.restoring = FALSE]
           ended == [r EXCEPT !.exHold = FALSE, !.exSys = FALSE, !.endMotion = FALSE]
           normal == IF ~r.exSys THEN r ELSE StReload(ended)
<1>1. AwaitResumedComplete(n) = SetCycle(SetIdle(normal))
    BY DEF AwaitResumedComplete
<1>2. Kept(n, r)
    BY DEF Kept, Framed, IsMachine, Fields, States, Locked
<1> HIDE DEF r
<1>3. Kept(r, ended)
    BY <1>2 DEF Kept, Framed, IsMachine, Fields, States, Locked
<1> HIDE DEF ended
<1>4. Kept(ended, StReload(ended))
    BY <1>3, StepperKept DEF Kept, Framed
<1>5. Kept(n, normal)
    BY <1>2, <1>3, <1>4, KeptTransitive
<1> HIDE DEF normal
<1>6. Kept(normal, SetIdle(normal))
    BY <1>5, SetKept DEF Kept, Framed
<1>7. Kept(SetIdle(normal), SetCycle(SetIdle(normal)))
    BY <1>6, SetCycleKept DEF Kept, Framed
<1> QED BY <1>1, <1>5, <1>6, <1>7, KeptTransitive

LEMMA AwaitMotionCancelCompleteKept ==
    ASSUME NEW n, IsMachine(n)
    PROVE  Kept(n, AwaitMotionCancelComplete(n))
<1> DEFINE dropped == IF n.state = "jog" THEN JogDropped(n) ELSE n
           set == StateSet(dropped, n.pending)
<1>1. Kept(n, dropped)
    BY SetKept, KeptSelf
<1> HIDE DEF dropped
<1>2. Kept(dropped, set)
    BY <1>1, StateSetKept DEF Kept, Framed, IsMachine
<1>3. AwaitMotionCancelComplete(n) = IF set.toolChange THEN SetToolChange(set) ELSE set
    BY DEF AwaitMotionCancelComplete, ToolChangeNext, dropped
<1> HIDE DEF set
<1>4. Kept(set, SetToolChange(set))
    BY <1>2, SetKept DEF Kept, Framed
<1> QED BY <1>1, <1>2, <1>3, <1>4, KeptTransitive

LEMMA CycleCompleteKept ==
    ASSUME NEW n, IsMachine(n)
    PROVE  Kept(n, CycleComplete(n))
BY SetKept DEF CycleComplete

LEMMA HandlerCompleteKept ==
    ASSUME NEW n, IsMachine(n), NEW tail
    PROVE  /\ Framed(n, HandlerComplete(n, tail))
           /\ n.handler # "restore" => Kept(n, HandlerComplete(n, tail))
<1>1. Framed(n, Wait(n, "restore_again", tail))
    BY DEF Framed, Wait, IsMachine, Fields
<1>2. CASE n.handler = "restore"
    BY <1>1, <1>2 DEF HandlerComplete
<1>3. CASE n.handler # "restore"
    <2>1. Kept(n, HandlerComplete(n, tail))
        BY <1>3, CycleCompleteKept, AwaitHoldCompleteKept, AwaitResumeCompleteKept, AwaitResumedCompleteKept,
           AwaitWaypointRetractCompleteKept, AwaitRestartRetractCompleteKept, AwaitMotionCancelCompleteKept,
           KeptSelf DEF HandlerComplete
    <2> QED BY <2>1, <1>3 DEF Kept
<1> QED BY <1>2, <1>3

LEMMA RestartCycleKept ==
    ASSUME NEW n, IsMachine(n)
    PROVE  Kept(n, RestartCycle(n))
<1> DEFINE idle == SetIdle(n)
           next == [idle EXCEPT !.exHold = n.exHold, !.exSys = n.exSys, !.endMotion = n.endMotion]
<1>1. Kept(n, idle) /\ Kept(n, n)
    BY SetKept, KeptSelf
<1>2. RestartCycle(n) = IF n.state \in {"sleep", "door"} THEN n ELSE SetCycle(next)
    BY DEF RestartCycle
<1> HIDE DEF idle
<1>3. Kept(idle, next)
    BY <1>1 DEF Kept, Framed, IsMachine, Fields, States, Locked
<1> HIDE DEF next
<1>4. Kept(next, SetCycle(next))
    BY <1>3, SetCycleKept DEF Kept, Framed
<1> QED BY <1>1, <1>2, <1>3, <1>4, KeptTransitive

LEMMA ReturnToKept ==
    ASSUME NEW n, IsMachine(n), NEW tail
    PROVE  Kept(n, ReturnTo(n, tail))
BY RestartCycleKept, KeptSelf DEF ReturnTo

LEMMA RestorePositionKept ==
    ASSUME NEW n, IsMachine(n), NEW tail
    PROVE  /\ Framed(n, RestorePosition(n, tail))
           /\ n.handler = "await_resumed" => Kept(n, RestorePosition(n, tail))
<1> DEFINE r == [n EXCEPT !.restoring = FALSE, !.spindleStop = "none"]
           resuming == IF r.motion THEN [r EXCEPT !.parking = "resuming"] ELSE r
           plunged == IF r.restart THEN RestartRetract(r)
                      ELSE IF r.motion /\ CanPark(r, r.restoreZ)
                      THEN ParkingMotion(resuming, r.restoreZ)
                      ELSE HandlerComplete(resuming, tail)
<1>1. RestorePosition(n, tail) = ReturnTo(plunged, tail)
    BY DEF RestorePosition
<1>2. Kept(n, r) /\ r.handler = n.handler
    BY DEF Kept, Framed, IsMachine, Fields, States, Locked
<1> HIDE DEF r
<1>3. Kept(r, resuming) /\ resuming.handler = r.handler
    BY <1>2 DEF Kept, Framed, IsMachine, Fields, States, Locked
<1> HIDE DEF resuming
<1>4. /\ Kept(r, RestartRetract(r)) /\ Kept(resuming, ParkingMotion(resuming, r.restoreZ))
      /\ Framed(resuming, HandlerComplete(resuming, tail))
      /\ n.handler = "await_resumed" => Kept(resuming, HandlerComplete(resuming, tail))
    BY <1>2, <1>3, RestartRetractKept, ParkingMotionKept, HandlerCompleteKept DEF Kept, Framed
<1>5. Kept(n, resuming)
    BY <1>2, <1>3, KeptTransitive
<1>6. /\ Framed(n, plunged)
      /\ n.handler = "await_resumed" => Kept(n, plunged)
    <2>1. Kept(n, RestartRetract(r)) /\ Kept(n, ParkingMotion(resuming, r.restoreZ))
        BY <1>2, <1>4, <1>5, KeptTransitive
    <2>2. /\ Framed(n, HandlerComplete(resuming, tail))
          /\ n.handler = "await_resumed" => Kept(n, HandlerComplete(resuming, tail))
        BY <1>4, <1>5, KeptTransitive DEF Kept
    <2> QED BY <2>1, <2>2 DEF Kept
<1> HIDE DEF plunged
<1>7. Kept(plunged, ReturnTo(plunged, tail))
    BY <1>6, ReturnToKept DEF Framed
<1>8. Framed(plunged, ReturnTo(plunged, tail))
    BY <1>7 DEF Kept
<1> QED BY <1>1, <1>6, <1>7, <1>8, KeptTransitive

LEMMA RestoreCoolantKept ==
    ASSUME NEW n, IsMachine(n), NEW tail
    PROVE  /\ Framed(n, RestoreCoolant(n, tail))
           /\ NoDelays /\ n.handler = "await_resumed" => Kept(n, RestoreCoolant(n, tail))
<1> DEFINE differs == n.gcCoolant # n.coolant
           waiting == Wait([n EXCEPT !.coolant = TRUE], "coolant", tail)
           next == IF differs THEN GcCoolant(n, n.rcCoolant) ELSE n
<1>1. RestoreCoolant(n, tail) = IF differs /\ DoorDelays /\ n.rcCoolant /\ ~n.coolant
                                THEN waiting ELSE RestorePosition(next, tail)
    BY DEF RestoreCoolant
<1>2. Framed(n, waiting)
    BY DEF Framed, IsMachine, Fields, States, Locked, Wait
<1>3. Kept(n, next) /\ next.handler = n.handler
    BY DEF Kept, Framed, IsMachine, Fields, States, Locked, GcCoolant
<1> HIDE DEF waiting, next
<1>4. /\ Framed(next, RestorePosition(next, tail))
      /\ n.handler = "await_resumed" => Kept(next, RestorePosition(next, tail))
    BY <1>3, RestorePositionKept DEF Kept, Framed
<1>5. /\ Framed(n, RestorePosition(next, tail))
      /\ n.handler = "await_resumed" => Kept(n, RestorePosition(next, tail))
    BY <1>3, <1>4, KeptTransitive DEF Kept
<1> QED BY <1>1, <1>2, <1>5 DEF NoDelays

LEMMA RestoreCompleteKept ==
    ASSUME NEW n, IsMachine(n), NEW tail
    PROVE  /\ Framed(n, RestoreComplete(n, tail))
           /\ NoDelays => Kept(n, RestoreComplete(n, tail))
<1> DEFINE sys == SysMotionDone(n)
           r == [sys EXCEPT !.restart = FALSE, !.restoring = TRUE, !.handler = "await_resumed"]
           differs == r.spindle # r.rcSpindle /\ ~Aborted(r)
           k == [r EXCEPT !.spindle = IF differs THEN r.rcSpindle ELSE @]
           kdiffers == differs /\ DoorDelays
<1>1. RestoreComplete(n, tail) = IF kdiffers THEN Wait(k, "spindle", tail) ELSE RestoreCoolant(k, tail)
    BY DEF RestoreComplete
<1>2. Kept(n, sys)
    BY SetKept
<1> HIDE DEF sys
<1>3. Kept(sys, r) /\ r.handler = "await_resumed"
    BY <1>2 DEF Kept, Framed, IsMachine, Fields, States, Locked
<1> HIDE DEF r
<1>4. Kept(r, k) /\ k.handler = "await_resumed"
    BY <1>3 DEF Kept, Framed, IsMachine, Fields, States, Locked
<1>5. kdiffers => ~NoDelays
    BY DEF NoDelays
<1> HIDE DEF k, kdiffers
<1>6. Kept(n, k)
    BY <1>2, <1>3, <1>4, KeptTransitive
<1>7. Framed(k, Wait(k, "spindle", tail))
    BY <1>6 DEF Kept, Framed, IsMachine, Fields, States, Locked, Wait
<1>8. /\ Framed(k, RestoreCoolant(k, tail))
      /\ NoDelays => Kept(k, RestoreCoolant(k, tail))
    BY <1>4, <1>6, RestoreCoolantKept DEF Kept, Framed
<1>9. /\ Framed(n, Wait(k, "spindle", tail)) /\ Framed(n, RestoreCoolant(k, tail))
      /\ NoDelays => Kept(n, RestoreCoolant(k, tail))
    BY <1>6, <1>7, <1>8, KeptTransitive DEF Kept
<1> QED BY <1>1, <1>5, <1>9

LEMMA HoldRestoredKept ==
    ASSUME NEW n, IsMachine(n)
    PROVE  Kept(n, HoldRestored(n))
<1> DEFINE next == [n EXCEPT !.spindleStop = "none"]
<1>1. Kept(n, next)
    BY DEF Kept, Framed, IsMachine, Fields, States, Locked
<1>2. HoldRestored(n) = RestartCycle(next)
    BY DEF HoldRestored
<1> HIDE DEF next
<1>3. Kept(next, RestartCycle(next))
    BY <1>1, RestartCycleKept DEF Kept, Framed
<1> QED BY <1>1, <1>2, <1>3, KeptTransitive

LEMMA HoldRestoreCoolantKept ==
    ASSUME NEW n, IsMachine(n)
    PROVE  /\ Framed(n, HoldRestoreCoolant(n))
           /\ NoDelays => Kept(n, HoldRestoreCoolant(n))
<1> DEFINE differs == n.rcCoolant # n.coolant
           waiting == Wait([n EXCEPT !.coolant = TRUE], "hold_coolant", TRUE)
           next == IF differs THEN GcCoolant(n, n.rcCoolant) ELSE n
<1>1. HoldRestoreCoolant(n) = IF differs /\ HoldDelays /\ n.rcCoolant THEN waiting ELSE HoldRestored(next)
    BY DEF HoldRestoreCoolant
<1>2. Framed(n, waiting)
    BY DEF Framed, IsMachine, Fields, States, Locked, Wait
<1>3. Kept(n, next)
    BY DEF Kept, Framed, IsMachine, Fields, States, Locked, GcCoolant
<1> HIDE DEF waiting, next
<1>4. Kept(n, HoldRestored(next))
    BY <1>3, HoldRestoredKept, KeptTransitive DEF Kept, Framed
<1> QED BY <1>1, <1>2, <1>4 DEF NoDelays, Kept

LEMMA HoldRestoreKept ==
    ASSUME NEW n, IsMachine(n)
    PROVE  /\ Framed(n, HoldRestore(n))
           /\ NoDelays => Kept(n, HoldRestore(n))
<1> DEFINE differs == n.spindle # n.rcSpindle /\ ~Aborted(n)
           next == [n EXCEPT !.spindle = IF differs THEN n.rcSpindle ELSE @,
                             !.spindleStop = IF n.state = "hold" /\ @ = "none" THEN "cycle" ELSE @]
<1>1. HoldRestore(n) = IF differs /\ HoldDelays THEN Wait(next, "hold_spindle", TRUE)
                       ELSE HoldRestoreCoolant(next)
    BY DEF HoldRestore
<1>2. Kept(n, next)
    BY DEF Kept, Framed, IsMachine, Fields, States, Locked
<1> HIDE DEF next
<1>3. Framed(next, Wait(next, "hold_spindle", TRUE))
    BY <1>2 DEF Kept, Framed, IsMachine, Fields, States, Locked, Wait
<1>4. /\ Framed(next, HoldRestoreCoolant(next))
      /\ NoDelays => Kept(next, HoldRestoreCoolant(next))
    BY <1>2, HoldRestoreCoolantKept DEF Kept, Framed
<1>5. /\ Framed(n, Wait(next, "hold_spindle", TRUE)) /\ Framed(n, HoldRestoreCoolant(next))
      /\ NoDelays => Kept(n, HoldRestoreCoolant(next))
    BY <1>2, <1>3, <1>4, KeptTransitive DEF Kept
<1> QED BY <1>1, <1>5 DEF NoDelays

LEMMA ContinueFramed ==
    ASSUME NEW n, IsMachine(n), NEW delay
    PROVE  Framed(n, Continue(n, delay))
<1> DEFINE cool == GcCoolant(n, n.rcCoolant)
<1>1. Kept(n, cool) /\ Framed(n, [n EXCEPT !.spindleStop = "none"])
    BY DEF Kept, Framed, IsMachine, Fields, States, Locked, GcCoolant
<1> HIDE DEF cool
<1>2. Framed(cool, RestorePosition(cool, delay.tail)) /\ Framed(cool, HoldRestored(cool))
    BY <1>1, RestorePositionKept, HoldRestoredKept DEF Kept, Framed
<1>3. Framed(n, RestorePosition(cool, delay.tail)) /\ Framed(n, HoldRestored(cool))
    BY <1>1, <1>2, KeptTransitive DEF Kept
<1> QED BY <1>1, <1>3, RestoreCoolantKept, RestoreCompleteKept, HoldRestoreCoolantKept DEF Continue, cool

-----------------------------------------------------------------------------
(* The handlers *)

LEMMA StateIdleKept ==
    ASSUME NEW n, IsMachine(n), NEW rt
    PROVE  Kept(n, StateIdle(n, rt))
<1> DEFINE start == IF "cycle_start" \in rt THEN SetCycle(n) ELSE n
           hold  == IF "feed_hold" \in rt THEN SetHold(start) ELSE start
           reading == [hold EXCEPT !.readSuspended = TRUE]
           tool  == IF "tool_change" \in rt THEN SetToolChange(reading) ELSE hold
<1>1. StateIdle(n, rt) = IF "sleep" \in rt THEN SetDoorOrSleep(tool, "sleep") ELSE tool
    BY DEF StateIdle
<1>2. Kept(n, start)
    BY SetCycleKept, KeptSelf
<1> HIDE DEF start
<1>3. Kept(start, hold)
    BY <1>2, SetHoldKept, KeptSelf DEF Kept, Framed
<1> HIDE DEF hold
<1>4. Kept(hold, reading) /\ Kept(hold, hold)
    BY <1>3 DEF Kept, Framed, IsMachine, Fields, States, Locked
<1> HIDE DEF reading
<1>5. Kept(reading, SetToolChange(reading))
    BY <1>4, SetKept DEF Kept, Framed
<1>6. Kept(hold, tool)
    BY <1>4, <1>5, KeptTransitive
<1> HIDE DEF tool
<1>7. Kept(tool, SetDoorOrSleep(tool, "sleep"))
    BY <1>6, SetDoorOrSleepKept DEF Kept, Framed
<1> QED BY <1>1, <1>2, <1>3, <1>6, <1>7, KeptTransitive

LEMMA StateCycleKept ==
    ASSUME NEW n, IsMachine(n), NEW rt
    PROVE  Kept(n, StateCycle(n, rt))
<1> DEFINE tool == IF "tool_change" \in rt THEN [n EXCEPT !.readSuspended = TRUE] ELSE n
           end == IF "cycle_complete" \in rt THEN CycleComplete(tool) ELSE tool
           again == StReload(end)
           stop == IF "motion_cancel" \in rt
                   THEN [again EXCEPT !.suspend = TRUE, !.exHold = TRUE, !.handler = "await_motion_cancel"]
                   ELSE end
<1>1. StateCycle(n, rt) = IF rt = {"cycle_start"} THEN n
                          ELSE IF "feed_hold" \in rt THEN SetHold(stop) ELSE stop
    BY DEF StateCycle
<1>2. Kept(n, tool)
    BY DEF Kept, Framed, IsMachine, Fields, States, Locked
<1> HIDE DEF tool
<1>3. Kept(tool, end)
    BY <1>2, CycleCompleteKept, KeptSelf DEF Kept, Framed
<1> HIDE DEF end
<1>4. Kept(end, again)
    BY <1>3, StepperKept DEF Kept, Framed
<1> HIDE DEF again
<1>5. Kept(end, stop)
    BY <1>3, <1>4 DEF Kept, Framed, IsMachine, Fields, States, Locked
<1> HIDE DEF stop
<1>6. Kept(stop, SetHold(stop)) /\ Kept(n, n)
    BY <1>5, SetHoldKept, KeptSelf DEF Kept, Framed
<1> QED BY <1>1, <1>2, <1>3, <1>5, <1>6, KeptTransitive

LEMMA AwaitToolchangedKept ==
    ASSUME NEW n, IsMachine(n), NEW rt
    PROVE  Kept(n, AwaitToolchanged(n, rt))
<1> DEFINE next == [n EXCEPT !.readSuspended = @ /\ n.toolChange,
                             !.pending = IF n.toolChange THEN "tool_change" ELSE "idle"]
<1>1. Kept(n, next) /\ Kept(n, n)
    BY DEF Kept, Framed, IsMachine, Fields, States, Locked
<1>2. AwaitToolchanged(n, rt) = IF "cycle_start" \notin rt THEN n ELSE SetCycle(SetIdle(next))
    BY DEF AwaitToolchanged
<1> HIDE DEF next
<1>3. Kept(next, SetIdle(next))
    BY <1>1, SetKept DEF Kept, Framed
<1>4. Kept(SetIdle(next), SetCycle(SetIdle(next)))
    BY <1>3, SetCycleKept DEF Kept, Framed
<1> QED BY <1>1, <1>2, <1>3, <1>4, KeptTransitive

LEMMA ResumeFromDoorKept ==
    ASSUME NEW n, IsMachine(n)
    PROVE  /\ Framed(n, ResumeFromDoor(n))
           /\ NoDelays => Kept(n, ResumeFromDoor(n))
<1> DEFINE r == [n EXCEPT !.handler = "restore", !.parking = "resuming", !.restart = @ /\ ~n.motion]
<1>1. Kept(n, r) /\ Kept(n, n)
    BY DEF Kept, Framed, IsMachine, Fields, States, Locked
<1>2. ResumeFromDoor(n) = IF ~n.restart /\ n.door THEN n
                          ELSE IF n.motion /\ CanPark(r, Waypoint(n)) THEN ParkingMotion(r, Waypoint(n))
                          ELSE RestoreComplete(r, TRUE)
    BY DEF ResumeFromDoor
<1> HIDE DEF r
<1>3. /\ Kept(r, ParkingMotion(r, Waypoint(n)))
      /\ Framed(r, RestoreComplete(r, TRUE))
      /\ NoDelays => Kept(r, RestoreComplete(r, TRUE))
    <2>1. IsMachine(r)
        BY <1>1 DEF Kept, Framed
    <2> QED BY <2>1, ParkingMotionKept, RestoreCompleteKept
<1>4. /\ Kept(n, ParkingMotion(r, Waypoint(n)))
      /\ Framed(n, RestoreComplete(r, TRUE))
      /\ NoDelays => Kept(n, RestoreComplete(r, TRUE))
    BY <1>1, <1>3, KeptTransitive DEF Kept
<1> QED BY <1>1, <1>2, <1>4 DEF Kept

LEMMA AwaitResumeKept ==
    ASSUME NEW n, IsMachine(n), NEW rt
    PROVE  /\ Framed(n, AwaitResume(n, rt))
           /\ NoDelays => Kept(n, AwaitResume(n, rt))
<1> DEFINE parked == IF "cycle_complete" \in rt THEN AwaitResumeComplete(n) ELSE n
           a == IF "sleep" \in rt THEN SetDoorOrSleep(parked, "sleep") ELSE parked
           resume == CASE a.state = "sleep"       -> a
                       [] a.state = "tool_change" -> RestartCycle(a)
                       [] a.state = "door"        -> ResumeFromDoor(a)
                       [] OTHER                   -> HoldRestore(a)
           ajar == [a EXCEPT !.parking = DoorState(a)]
           closed == [a EXCEPT !.parking = "door_closed"]
           act == IF "safety_door" \in rt THEN ajar
                  ELSE IF "cycle_start" \in rt THEN resume
                  ELSE IF "door_closed" \in rt /\ ~a.door THEN closed
                  ELSE a
<1>1. AwaitResume(n, rt) = IF "cycle_complete" \in rt /\ ParkingEnabled /\ n.state = "sleep"
                           THEN parked ELSE act
    BY DEF AwaitResume
<1>2. Kept(n, parked)
    BY AwaitResumeCompleteKept, KeptSelf
<1> HIDE DEF parked
<1>3. Kept(parked, a)
    BY <1>2, SetDoorOrSleepKept, KeptSelf DEF Kept, Framed
<1> HIDE DEF a
<1>4. Kept(a, ajar) /\ Kept(a, closed) /\ Kept(a, a)
    BY <1>3 DEF Kept, Framed, IsMachine, Fields, States, Locked
<1>5. Framed(a, resume) /\ (NoDelays => Kept(a, resume))
    BY <1>3, <1>4, RestartCycleKept, ResumeFromDoorKept, HoldRestoreKept DEF Kept, Framed
<1> HIDE DEF ajar, closed, resume
<1>6. Framed(a, act) /\ (NoDelays => Kept(a, act))
    BY <1>4, <1>5 DEF Kept
<1> HIDE DEF act
<1>7. Kept(n, a)
    BY <1>2, <1>3, KeptTransitive
<1>8. Framed(n, act) /\ (NoDelays => Kept(n, act))
    BY <1>6, <1>7, KeptTransitive DEF Kept
<1> QED BY <1>1, <1>2, <1>8 DEF Kept

LEMMA StateRestoreKept ==
    ASSUME NEW n, IsMachine(n), NEW rt
    PROVE  /\ Framed(n, StateRestore(n, rt))
           /\ NoDelays => Kept(n, StateRestore(n, rt))
<1>1. Kept(n, [n EXCEPT !.restart = TRUE]) /\ Kept(n, n)
    BY DEF Kept, Framed, IsMachine, Fields, States, Locked
<1> QED BY <1>1, RestartRetractKept, RestoreCompleteKept DEF StateRestore, Kept

LEMMA AwaitResumedKept ==
    ASSUME NEW n, IsMachine(n), NEW rt
    PROVE  Kept(n, AwaitResumed(n, rt))
BY KeptSelf, RestartRetractKept, AwaitResumedCompleteKept DEF AwaitResumed

LEMMA HandleKept ==
    ASSUME NEW n, IsMachine(n), NEW rt
    PROVE  /\ Framed(n, Handle(n, rt))
           /\ NoDelays => Kept(n, Handle(n, rt))
<1>1. CASE n.handler \in {"idle", "cycle", "await_toolchanged", "await_resumed"}
    <2>1. Kept(n, Handle(n, rt))
        BY <1>1, StateIdleKept, StateCycleKept, AwaitToolchangedKept, AwaitResumedKept DEF Handle
    <2> QED BY <2>1 DEF Kept
<1>2. CASE n.handler \in {"await_resume", "restore"}
    BY <1>2, AwaitResumeKept, StateRestoreKept DEF Handle
<1>3. CASE n.handler \notin {"idle", "cycle", "await_toolchanged", "await_resumed", "await_resume", "restore"}
    <2>1. Handle(n, rt) = OnComplete(n, rt)
        BY <1>3 DEF Handle
    <2>2. Kept(n, OnComplete(n, rt))
        BY <1>3, HandlerCompleteKept, KeptSelf DEF OnComplete
    <2> QED BY <2>1, <2>2 DEF Kept
<1> QED BY <1>1, <1>2, <1>3

LEMMA StateUpdateKept ==
    ASSUME NEW n, IsMachine(n), NEW rt
    PROVE  /\ Framed(n, StateUpdate(n, rt))
           /\ NoDelays => Kept(n, StateUpdate(n, rt))
<1> DEFINE door == IF "safety_door" \in rt THEN SetDoorOrSleep(n, "door") ELSE n
<1>1. Kept(n, door)
    BY SetDoorOrSleepKept, KeptSelf
<1>2. StateUpdate(n, rt) = Handle(door, rt)
    BY DEF StateUpdate
<1> HIDE DEF door
<1>3. Framed(door, Handle(door, rt)) /\ (NoDelays => Kept(door, Handle(door, rt)))
    BY <1>1, HandleKept DEF Kept, Framed
<1> QED BY <1>1, <1>2, <1>3, KeptTransitive DEF Kept

LEMMA SuspendManagerKept ==
    ASSUME NEW n, IsMachine(n)
    PROVE  /\ Framed(n, SuspendManager(n))
           /\ NoDelays => Kept(n, SuspendManager(n))
BY DEF SuspendManager, Wait, Kept, Framed, IsMachine, Fields, States, Locked, NoDelays

\* With the machine locked the state machine does nothing.
LEMMA LockedStays ==
    ASSUME NEW n, n.state \in Locked, n.handler = "noop", NEW rt
    PROVE  StateUpdate(n, rt) = n /\ SuspendManager(n) = n
BY DEF Locked, StateUpdate, SetDoorOrSleep, Handle, OnComplete, HandlerComplete, SuspendManager

-----------------------------------------------------------------------------
(* Operators of the executive, the main program and the interrupts         *)

\* In an alarm nothing handles requests; no function is entered that waits.
Safe(n) == IsMachine(n) /\ (n.state \in Locked => n.handler = "noop") /\ n.call = NoDelay

\* From a to b no alarm is forgotten.
Latched(a, b) == Safe(b) /\ (a.state \in Locked => b.state \in Locked)

LEMMA LatchedTransitive ==
    ASSUME NEW a, NEW b, NEW c, Latched(a, b), Latched(b, c)
    PROVE  Latched(a, c)
BY DEF Latched

LEMMA KeptIsLatched ==
    ASSUME NEW a, NEW b, Safe(a), a.state \notin Locked, Kept(a, b)
    PROVE  Latched(a, b)
BY DEF Latched, Safe, Kept, Framed

LEMMA RaiseAlarmLatched ==
    ASSUME NEW n, Safe(n), NEW alarm
    PROVE  Latched(n, RaiseAlarm(n, alarm)) /\ RaiseAlarm(n, alarm).rt = n.rt
           /\ RaiseAlarm(n, alarm).abort = n.abort /\ RaiseAlarm(n, alarm).cancel = n.cancel
           /\ RaiseAlarm(n, alarm).estop = n.estop
BY DEF Latched, Safe, IsMachine, Fields, States, Locked, RaiseAlarm, SetLocked, ClearAlarm

LEMMA McResetLatched ==
    ASSUME NEW n, Safe(n)
    PROVE  /\ Latched(n, McReset(n))
           /\ McReset(n).cancel = n.cancel
           /\ n.rt \subseteq McReset(n).rt /\ McReset(n).rt \subseteq n.rt \cup {"reset"}
BY DEF Latched, Safe, IsMachine, Fields, States, Locked, McReset, Request, StGoIdle

LEMMA PrepKept ==
    ASSUME NEW n, IsMachine(n), NEW p \in PrepOutcomes(n)
    PROVE  Kept(n, p) /\ p.state = n.state /\ p.handler = n.handler
<1> DEFINE run == PrepRun(n)
           end(k) == [n EXCEPT !.loaded = Loaded(n), !.endMotion = TRUE, !.segs = @ + k]
<1>1. p = run \/ \E k \in {0, 1} : p = end(k)
    BY DEF PrepOutcomes, PrepHoldEnds
<1>2. Kept(n, run) /\ run.state = n.state /\ run.handler = n.handler
    BY DEF Safe, Kept, Framed, IsMachine, Fields, States, Locked, PrepRun, EndOfBlock, Discarded
<1>3. ASSUME NEW k PROVE Kept(n, end(k)) /\ end(k).state = n.state /\ end(k).handler = n.handler
    BY DEF Safe, Kept, Framed, IsMachine, Fields, States, Locked
<1> HIDE DEF run, end
<1> QED BY <1>1, <1>2, <1>3

LEMMA PrepLatched ==
    ASSUME NEW n, Safe(n), NEW p \in PrepOutcomes(n)
    PROVE  Latched(n, p) /\ Kept(n, p) /\ p.state = n.state /\ p.handler = n.handler
BY PrepKept DEF Latched, Safe, Kept, Framed

LEMMA InitializedLatched ==
    ASSUME NEW n, Safe(n)
    PROVE  Latched(n, Initialized(n)) /\ Initialized(n).blocks = 0
<1> DEFINE clear ==
            [StReset(n) EXCEPT
                !.suspend = FALSE, !.exHold = FALSE, !.exSys = FALSE,
                !.endMotion = FALSE, !.holding = "no",
                !.parking = "door_closed", !.spindleStop = "none",
                !.rt = {}, !.rtAlarm = "none", !.abort = FALSE,
                !.cancel = FALSE, !.resetPending = FALSE,
                !.blocking = FALSE, !.positionLost = FALSE,
                !.gcSpindle = FALSE, !.gcCoolant = FALSE,
                !.toolChange = FALSE, !.readSuspended = FALSE,
                !.blocks = 0]
           unlock == IF clear.state = "estop" THEN SetLocked(clear, "alarm") ELSE clear
<1>1. Initialized(n) = IF unlock.estop THEN RaiseAlarm(unlock, "estop")
                       ELSE IF StaysLocked(unlock) THEN SetLocked(unlock, "alarm")
                       ELSE SetIdle(unlock)
    BY DEF Initialized
<1>2. Latched(n, clear) /\ clear.blocks = 0
    BY DEF Latched, Safe, IsMachine, Fields, States, Locked, StReset
<1> HIDE DEF clear
<1>3. Latched(clear, unlock) /\ unlock.blocks = 0 /\ unlock.state # "estop"
    BY <1>2 DEF Latched, Safe, IsMachine, Fields, States, Locked, SetLocked, ClearAlarm
<1> HIDE DEF unlock
<1>4. Latched(unlock, RaiseAlarm(unlock, "estop")) /\ RaiseAlarm(unlock, "estop").blocks = 0
    BY <1>3 DEF Latched, Safe, IsMachine, Fields, States, Locked, RaiseAlarm, SetLocked, ClearAlarm
<1>5. Latched(unlock, SetLocked(unlock, "alarm")) /\ SetLocked(unlock, "alarm").blocks = 0
    BY <1>3 DEF Latched, Safe, IsMachine, Fields, States, Locked, SetLocked, ClearAlarm
<1>6. ~StaysLocked(unlock) => Latched(unlock, SetIdle(unlock)) /\ SetIdle(unlock).blocks = 0
    BY <1>3 DEF Latched, Safe, IsMachine, Fields, States, Locked, StaysLocked, SetIdle, ClearAlarm
<1> QED BY <1>1, <1>2, <1>3, <1>4, <1>5, <1>6, LatchedTransitive

LEMMA StartJogKept ==
    ASSUME NEW n, IsMachine(n)
    PROVE  Kept(n, StartJog(n))
<1>1. CASE n.state \in {"idle", "tool_change"}
    <2> DEFINE jog == SetJog(n)
               prepared == PrepAtRest(jog)
    <2>1. Kept(n, jog)
        BY SetKept
    <2> HIDE DEF jog
    <2>2. Kept(jog, prepared)
        BY <2>1, StepperKept DEF Kept, Framed
    <2> HIDE DEF prepared
    <2>3. Kept(prepared, StWakeUp(prepared))
        BY <2>2, StepperKept DEF Kept, Framed
    <2>4. Kept(n, StWakeUp(prepared))
        BY <2>1, <2>2, <2>3, KeptTransitive
    <2> QED BY <1>1, <2>4 DEF StartJog, jog, prepared
<1>2. CASE n.state \notin {"idle", "tool_change"}
    BY <1>2, KeptSelf DEF StartJog
<1> QED BY <1>1, <1>2

LEMMA StartJogLatched ==
    ASSUME NEW n, Safe(n)
    PROVE  Latched(n, StartJog(n))
<1>1. CASE n.state \in {"idle", "tool_change"}
    BY <1>1, StartJogKept, KeptIsLatched DEF Safe, Locked
<1>2. CASE n.state \notin {"idle", "tool_change"}
    BY <1>2 DEF StartJog, Latched
<1> QED BY <1>1, <1>2

-----------------------------------------------------------------------------
(* Alarms and jogs, without delays                                         *)

\* The main program synchronizes for the commands that ask for it.
Syncing == {"pause", "end", "tool_change", "accessories"}
CommandInv ==
    /\ pc = "line" => cmd \in CommandNames
    /\ pc = "sync" => cmd \in Syncing

LEMMA CommandStep == ASSUME CommandInv, [Next]_vars PROVE CommandInv'
<1>1. CASE UNCHANGED <<pc, cmd>>
    BY <1>1 DEF CommandInv
<1>2. CASE pc' \in {"loop", "startup", "idle", "buffer", "done"}
    BY <1>2 DEF CommandInv
<1>3. ASSUME NEW c \in Commands, ReadLine(c) PROVE CommandInv'
    BY <1>3, EnvironmentAssumption DEF ReadLine, Execute, CommandInv
<1>4. CASE LineStarts
    <2>1. CASE pc' \in {"loop", "buffer"}
        BY <2>1, <1>2
    <2>2. CASE pc' \notin {"loop", "buffer"}
        BY <1>4, <2>2 DEF LineStarts, LineDone, Execute, Returned, CommandInv, CommandNames, Syncing
    <2> QED BY <2>1, <2>2
<1>5. CASE SyncWaits
    BY <1>5 DEF SyncWaits, Execute, Returned, CommandInv
<1>6. CASE Foreground /\ ~(UNCHANGED <<pc, cmd>>) /\ ~LineStarts /\ ~SyncWaits
    <2>1. MainIdle \/ Startup \/ IdleDone \/ LineAborted \/ MotionBuffered \/ SyncEnds \/ LineEnds
        BY <1>6 DEF Foreground, ExecAlarm, ExecBlocked, ExecFetch, ExecReset, ExecStop, StopPrep, StopAtRest,
           ExecState, ExecOverrides, ExecPrep, EnterSuspend, SuspendAgain, SuspendEnds, SuspendRound,
           SuspendTail, DelayRound, DelayEnds, ReadCan
    <2>2. CASE MainIdle \/ Startup \/ IdleDone \/ LineAborted \/ MotionBuffered \/ LineEnds
        BY <1>2, <2>2 DEF MainIdle, Startup, IdleDone, LineAborted, MotionBuffered, LineEnds,
           Reinitialize, Start, LineDone, Execute
    <2>3. CASE SyncEnds
        <3>1. cmd \in Syncing
            BY <2>3 DEF SyncEnds, Returned, CommandInv
        <3>2. pc' \in {"loop", "done"}
            BY <2>3, <3>1 DEF SyncEnds, LineDone, Execute, Syncing
        <3> QED BY <1>2, <3>2
    <2> QED BY <2>1, <2>2, <2>3
<1>7. CASE (Environment \/ Stepper \/ UNCHANGED vars) /\ ~\E c \in Commands : ReadLine(c)
    BY <1>1, <1>7 DEF Environment, Stepper, vars, KeyCycleStart, KeyFeedHold, KeyReset, KeyStop,
       KeyJogCancel, KeySpindleStop, DoorOpens, DoorCloses, EstopPressed, EstopReleased, HardLimit,
       StepSegment, StepsExhausted, Interrupt
<1> QED BY <1>1, <1>3, <1>4, <1>5, <1>6, <1>7 DEF Next

\* Where the foreground is: in the main program, or in the suspend loop that
\* protocol_execute_realtime has entered for it; stopping, for a stop.
LockInv ==
    /\ Safe(m)
    /\ stack \in {<<MainFrame>>, <<MainFrame, SuspendFrame>>}
    /\ phase \in {"suspended", "suspend_tail"} => stack = <<MainFrame, SuspendFrame>>
    /\ phase \in {"stopping", "stopped"} => m.cancel

JogDone(a, b) ==
    a.state = "jog" /\ a.handler = "await_motion_cancel" /\ b.state \notin {"jog"} \cup Locked
        => b.blocks = 0

\* What each step must do.
LockStep ==
    /\ LockInv'
    /\ m.state \in Locked /\ m'.state \notin Locked => cmd = "unlock" \/ m'.cancel
    /\ JogDone(m, m')

\* For steps that leave the stack and do not begin to stop.
LEMMA LatchedStep ==
    ASSUME LockInv, Latched(m, m'), JogDone(m, m'), stack' = stack,
           phase' \in {"suspended", "suspend_tail"} => phase \in {"suspended", "suspend_tail"} \/ Top = SuspendFrame,
           phase' \in {"stopping", "stopped"} => m'.cancel
    PROVE  LockStep
BY DEF LockInv, LockStep, Latched, Top, MainFrame, SuspendFrame, NoDelay

LEMMA FirstOfTwo ==
    ASSUME NEW a, NEW b, NEW s, s = <<a, b>>
    PROVE  s[Len(s)] = b /\ SubSeq(s, 1, Len(s) - 1) = <<a>> /\ s # <<a>>
<1> DEFINE t == SubSeq(s, 1, 1)
<1>1. s \in Seq({a, b}) /\ Len(s) = 2 /\ s[1] = a
    OBVIOUS
<1>2. t \in Seq({a, b}) /\ Len(t) = 1 /\ t[1] = a
    BY <1>1
<1> HIDE DEF t
<1>3. <<a>> \in Seq({a, b}) /\ Len(<<a>>) = 1 /\ <<a>>[1] = a
    OBVIOUS
<1>4. t = <<a>>
    BY <1>2, <1>3, SeqEqual
<1> QED BY <1>1, <1>4 DEF t

LEMMA Tops ==
    ASSUME LockInv
    PROVE  /\ ~IsDelay(Top) /\ Top \in {MainFrame, SuspendFrame} /\ MainFrame # SuspendFrame
           /\ EntersSuspend(Top) => stack = <<MainFrame>>
           /\ Top = MainFrame <=> stack = <<MainFrame>>
           /\ stack = <<MainFrame, SuspendFrame>> => Popped = <<MainFrame>>
<1>1. /\ MainFrame.at = "main" /\ MainFrame.dwell = FALSE
      /\ SuspendFrame.at = "suspend" /\ SuspendFrame.dwell = FALSE
    BY DEF MainFrame, SuspendFrame, NoDelay
<1>2. MainFrame # SuspendFrame /\ MainFrame \notin Delays /\ SuspendFrame \notin Delays
    BY <1>1 DEF Delays, DelayPoints
<1>3. CASE stack = <<MainFrame>>
    <2>1. Top = MainFrame /\ stack # <<MainFrame, SuspendFrame>>
        BY <1>3 DEF Top
    <2> QED BY <1>1, <1>2, <1>3, <2>1 DEF IsDelay, EntersSuspend
<1>4. CASE stack = <<MainFrame, SuspendFrame>>
    <2>1. Top = SuspendFrame /\ Popped = <<MainFrame>> /\ stack # <<MainFrame>>
        BY <1>4, FirstOfTwo DEF Top, Popped
    <2> QED BY <1>1, <1>2, <1>4, <2>1 DEF IsDelay, EntersSuspend
<1> QED BY <1>3, <1>4 DEF LockInv

LEMMA InitLocked == Init => LockInv
BY DEF Init, LockInv, Safe, IsMachine, Fields, States, Locked, PowerUp

LEMMA ExecAlarmLocked == ASSUME LockInv, ExecAlarm PROVE LockStep
<1> DEFINE resetting == "reset" \in m.rt
           off == IF resetting THEN DeEnergized(m) ELSE m
           noted == [off EXCEPT !.resetPending = resetting, !.rtAlarm = "none"]
           locked == RaiseAlarm(noted, m.rtAlarm)
           critical == m.rtAlarm \in CriticalAlarms
           raised == [locked EXCEPT !.blocking = critical]
           blocked == [raised EXCEPT !.rtAlarm = m.rtAlarm, !.rt = @ \ {"reset"}]
<1>1. /\ m' \in {m, raised, blocked} /\ stack' = stack
      /\ phase' \in {"fetch", "blocked"}
    BY DEF ExecAlarm
<1>2. Safe(m)
    BY DEF LockInv
<1>3. Latched(m, noted) /\ noted.state = m.state
    BY <1>2 DEF Latched, Safe, IsMachine, Fields, States, Locked, DeEnergized
<1> HIDE DEF noted
<1>4. Latched(noted, locked) /\ (locked.state = noted.state \/ locked.state \in Locked)
    <2>1. locked.state = noted.state \/ locked.state \in Locked
        BY <1>3 DEF RaiseAlarm, SetLocked, ClearAlarm, Locked, Latched, Safe, IsMachine, Fields
    <2> QED BY <1>3, <2>1, RaiseAlarmLatched DEF Latched
<1> HIDE DEF locked
<1>5. Latched(locked, raised) /\ Latched(locked, blocked) /\ raised.state = locked.state /\ blocked.state = locked.state
    BY <1>4 DEF Latched, Safe, IsMachine, Fields, States, Locked
<1> HIDE DEF raised, blocked
<1>6. Latched(m, m') /\ (m'.state = m.state \/ m'.state \in Locked)
    BY <1>1, <1>2, <1>3, <1>4, <1>5, LatchedTransitive DEF Latched
<1> QED BY <1>1, <1>6, LatchedStep DEF JogDone

LEMMA ExecStateLocked == ASSUME LockInv, NoDelays, ExecState PROVE LockStep
<1> DEFINE n == [m EXCEPT !.resetPending = FALSE]
           u == StateUpdate(n, exec)
<1>1. Safe(n) /\ n.state = m.state /\ n.handler = m.handler
    BY DEF LockInv, Safe, IsMachine, Fields
<1>2. Proceed(u, stack, "overrides")
    BY DEF ExecState
<1> HIDE DEF n
<1>3. Kept(n, u)
    BY <1>1, StateUpdateKept DEF Safe
<1>4. Latched(n, u)
    <2>1. CASE n.state \in Locked
        BY <1>1, <2>1, LockedStays DEF Safe, Latched
    <2>2. CASE n.state \notin Locked
        BY <1>1, <1>3, <2>2, KeptIsLatched
    <2> QED BY <2>1, <2>2
<1>5. JogDone(n, u)
    <2> SUFFICES ASSUME n.state = "jog", n.handler = "await_motion_cancel" PROVE u.state = "jog" \/ u.blocks = 0
        BY DEF JogDone
    <2> DEFINE door == IF "safety_door" \in exec THEN SetDoorOrSleep(n, "door") ELSE n
    <2>1. u = Handle(door, exec)
        BY DEF StateUpdate
    <2>2. CASE "safety_door" \in exec
        <3> DEFINE retracting == [n EXCEPT !.parking = "retracting"]
                   held == InitiateHold(retracting, "door")
        <3>1. retracting.state = "jog" /\ IsMachine(retracting)
            BY <1>1 DEF Safe, IsMachine, Fields, States, Locked
        <3>2. door = ClearAlarm(IF held.pending # "door" THEN AwaitHoldComplete([held EXCEPT !.state = "door"])
                                ELSE IF held.state = "sleep" /\ held.handler # "await_waypoint_retract"
                                     THEN EnterSleep(held) ELSE held)
                \/ held.pending # "door"
            BY <2>2 DEF SetDoorOrSleep, HoldAwaitsMotion
        <3> HIDE DEF retracting
        <3>3. held.state = "jog" /\ held.pending = "door" /\ held.handler = "await_hold" /\ IsMachine(held)
            BY <3>1 DEF InitiateHold, StReload, IsMachine, Fields, States, Locked
        <3> HIDE DEF held
        <3>4. door.state = "jog" /\ door.handler = "await_hold" /\ IsMachine(door)
            BY <3>2, <3>3 DEF ClearAlarm, IsMachine, Fields, States, Locked
        <3> HIDE DEF door
        <3>5. Handle(door, exec) = IF "cycle_complete" \in exec THEN AwaitHoldComplete(door) ELSE door
            BY <3>4 DEF Handle, OnComplete, HandlerComplete
        <3>6. AwaitHoldComplete(door).state = "jog"
            BY <3>4 DEF AwaitHoldComplete, HoldComplete, StReload, IsMachine, Fields
        <3> QED BY <2>1, <3>4, <3>5, <3>6
    <2>3. CASE "safety_door" \notin exec
        <3>1. u = IF "cycle_complete" \in exec THEN AwaitMotionCancelComplete(n) ELSE n
            BY <2>3 DEF StateUpdate, Handle, OnComplete, HandlerComplete
        <3> DEFINE dropped == JogDropped(n)
                   set == StateSet(dropped, n.pending)
        <3>2. AwaitMotionCancelComplete(n) = IF set.toolChange THEN SetToolChange(set) ELSE set
            BY DEF AwaitMotionCancelComplete, ToolChangeNext
        <3>3. dropped.blocks = 0 /\ IsMachine(dropped) /\ n.pending \in States \ Locked
            BY <1>1 DEF JogDropped, StReset, Safe, IsMachine, Fields, States, Locked
        <3> HIDE DEF dropped
        <3>4. set.blocks = 0 /\ IsMachine(set)
            BY <3>3, StateSetKept DEF Kept, Framed
        <3> HIDE DEF set
        <3>5. AwaitMotionCancelComplete(n).blocks = 0
            BY <3>2, <3>4, SetKept DEF Kept, Framed
        <3> QED BY <3>1, <3>5
    <2> QED BY <2>2, <2>3
<1>6. u.call = NoDelay
    BY <1>1, <1>3 DEF Kept, Safe
<1>7. m' = u /\ stack' = stack /\ phase' = "overrides"
    BY <1>2, <1>6 DEF Proceed
<1> HIDE DEF u
<1>8. Latched(m, m') /\ JogDone(m, m')
    BY <1>1, <1>4, <1>5, <1>7 DEF Latched, JogDone
<1> QED BY <1>7, <1>8, LatchedStep

\* A step that leaves state and handler alone.
Still(a, b) ==
    IsMachine(b) /\ b.state = a.state /\ b.handler = a.handler /\ b.call = a.call /\ b.cancel = a.cancel

LEMMA StillStep ==
    ASSUME LockInv, Still(m, m'), stack' = stack,
           \/ phase' = phase
           \/ phase' \notin {"suspended", "suspend_tail", "stopping", "stopped"}
           \/ Top = SuspendFrame /\ phase' = "suspended"
    PROVE  LockStep
<1>1. Latched(m, m') /\ JogDone(m, m')
    BY DEF LockInv, Still, Latched, Safe, JogDone
<1> QED BY <1>1, LatchedStep DEF LockInv, Still

LEMMA ExecutiveLocked ==
    ASSUME LockInv, ExecBlocked \/ ExecFetch \/ ExecReset \/ ExecOverrides
    PROVE  LockStep
<1> USE DEF LockInv, Safe
<1>1. CASE ExecBlocked
    <2> DEFINE looped == [m EXCEPT !.abort = "reset" \in m.rt]
    <2>1. /\ m' = looped \/ m' = [looped EXCEPT !.rtAlarm = "none"]
          /\ stack' = stack /\ phase' \in {"return", "blocked"}
        BY <1>1 DEF ExecBlocked
    <2>2. Still(m, looped)
        BY DEF Still, IsMachine, Fields
    <2> HIDE DEF looped
    <2>3. Still(m, m')
        BY <2>1, <2>2 DEF Still, IsMachine, Fields
    <2> QED BY <2>1, <2>3, StillStep
<1>2. CASE ExecFetch
    <2>1. Still(m, m') /\ stack' = stack /\ phase' \in {"overrides", "dispatch"}
        BY <1>2 DEF ExecFetch, Still, IsMachine, Fields
    <2> QED BY <2>1, StillStep
<1>3. CASE ExecReset
    <2> DEFINE n == [DeEnergized(m) EXCEPT !.resetPending = TRUE, !.abort = ~m.estop]
    <2>1. Still(m, n)
        BY DEF Still, DeEnergized, IsMachine, Fields
    <2>2. m' \in {n, RaiseAlarm(n, "estop")} /\ stack' = stack /\ phase' = "return"
        BY <1>3 DEF ExecReset
    <2> HIDE DEF n
    <2>3. Safe(n) /\ Latched(m, n)
        BY <2>1 DEF Still, Latched
    <2>4. Latched(m, m')
        BY <2>2, <2>3, RaiseAlarmLatched, LatchedTransitive
    <2>5. m'.state = m.state \/ m'.state \in Locked
        BY <2>1, <2>2 DEF Still, RaiseAlarm, SetLocked, ClearAlarm, Locked, IsMachine, Fields
    <2> QED BY <2>2, <2>4, <2>5, LatchedStep DEF JogDone
<1>4. CASE ExecOverrides
    <2>1. Still(m, m') /\ stack' = stack /\ phase' \in {"prep", "return"}
        BY <1>4 DEF ExecOverrides, Still, IsMachine, Fields
    <2> QED BY <2>1, StillStep
<1> QED BY <1>1, <1>2, <1>3, <1>4

LEMMA StopLocked ==
    ASSUME LockInv, ExecStop \/ StopPrep \/ StopAtRest \/ ExecPrep
    PROVE  LockStep
<1>0. Safe(m) /\ IsMachine(m)
    BY DEF LockInv, Safe
<1>1. CASE ExecStop
    <2> DEFINE n == [m EXCEPT !.cancel = TRUE, !.resetPending = FALSE,
                              !.exHold = FALSE, !.exSys = FALSE,
                              !.endMotion = FALSE, !.toolChange = FALSE,
                              !.readSuspended = FALSE]
               c == StateCycle(n, {"motion_cancel"})
    <2>1. /\ m' = IF StIsStepping(n) /\ n.handler = "cycle" THEN c ELSE n
          /\ stack' = stack /\ phase' \in {"stopping", "stopped"}
        BY <1>1 DEF ExecStop
    <2>2. /\ Safe(n) /\ n.state = m.state /\ n.handler = m.handler /\ n.cancel = TRUE
          /\ Latched(m, n)
        BY <1>0 DEF Safe, Latched, IsMachine, Fields
    <2> HIDE DEF n
    <2>3. Kept(n, c)
        BY <2>2, StateCycleKept DEF Safe
    <2>4. n.handler = "cycle" => Latched(n, c)
        BY <2>2, <2>3, KeptIsLatched DEF Safe
    <2>5. m'.cancel
        BY <2>1, <2>2, <2>3 DEF Kept, Framed
    <2> HIDE DEF c
    <2>6. Latched(m, m') /\ JogDone(m, m')
        BY <2>1, <2>2, <2>4, LatchedTransitive DEF JogDone
    <2> QED BY <2>1, <2>5, <2>6, LatchedStep
<1>2. CASE StopPrep \/ ExecPrep
    <2>1. /\ m' = m \/ m' \in PrepOutcomes(m)
          /\ stack' = stack
          /\ phase' = phase \/ phase' = "return"
        BY <1>2 DEF StopPrep, ExecPrep
    <2>2. Latched(m, m') /\ m'.cancel = m.cancel /\ m'.state = m.state
        BY <1>0, <2>1, PrepLatched DEF Kept, Framed, Latched
    <2> QED BY <2>1, <2>2, LatchedStep DEF JogDone, LockInv
<1>3. CASE StopAtRest
    <2> DEFINE late == IF phase = "stopping" THEN m.rt ELSE {}
               n == [m EXCEPT !.rt = @ \ late]
               off == [DeEnergized(n) EXCEPT !.gcSpindle = FALSE,
                                             !.gcCoolant = FALSE,
                                             !.toolChange = FALSE,
                                             !.blocks = 0]
               r == StReset(off)
               new == IF m.door THEN "door" ELSE "idle"
    <2>1. m' = StateSet(r, new) /\ stack' = stack /\ phase' \in {"overrides", "update"}
        BY <1>3 DEF StopAtRest
    <2>2. m.cancel
        BY <1>3 DEF StopAtRest, LockInv
    <2>3. /\ IsMachine(r) /\ r.blocks = 0 /\ r.cancel = m.cancel /\ r.call = NoDelay
          /\ r.state = m.state /\ r.handler = m.handler
        BY <1>0 DEF Safe, IsMachine, Fields, DeEnergized, StReset
    <2> HIDE DEF r
    <2>4. Kept(r, StateSet(r, new))
        BY <2>3, StateSetKept DEF States, Locked
    <2>5. m'.blocks = 0 /\ m'.cancel /\ IsMachine(m') /\ m'.call = NoDelay
        BY <2>1, <2>2, <2>3, <2>4 DEF Kept, Framed
    <2>6. m'.state \in Locked => m'.handler = "noop"
        <3>1. CASE r.state \notin Locked
            BY <2>1, <2>3, <2>4, <3>1 DEF Kept, Framed
        <3>2. CASE r.state \in Locked /\ m.door
            BY <1>0, <2>1, <2>3, <3>2 DEF StateSet, SetDoorOrSleep, Locked, Safe
        <3>3. CASE r.state \in Locked /\ ~m.door
            <4>1. m'.state = "idle"
                BY <2>1, <2>3, <3>3 DEF StateSet, SetIdle, ClearAlarm, IsMachine, Fields, Locked
            <4> QED BY <4>1 DEF Locked
        <3> QED BY <3>1, <3>2, <3>3
    <2> QED BY <2>1, <2>5, <2>6 DEF LockStep, LockInv, Safe, JogDone
<1> QED BY <1>1, <1>2, <1>3

LEMMA Pushed ==
    ASSUME NEW a, NEW b
    PROVE  Append(<<a>>, b) = <<a, b>>
<1>1. <<a>> \in Seq({a, b}) /\ <<a, b>> \in Seq({a, b}) /\ Len(<<a>>) = 1 /\ Len(<<a, b>>) = 2
    OBVIOUS
<1>2. /\ Append(<<a>>, b) \in Seq({a, b})
      /\ Len(Append(<<a>>, b)) = 2
      /\ \A i \in 1 .. 2 : Append(<<a>>, b)[i] = <<a, b>>[i]
    BY <1>1
<1> QED BY <1>1, <1>2, SeqEqual

LEMMA SuspendLocked ==
    ASSUME LockInv, NoDelays,
           EnterSuspend \/ SuspendAgain \/ SuspendEnds \/ SuspendRound \/ SuspendTail \/ DelayRound \/ DelayEnds
    PROVE  LockStep
<1>0. Safe(m) /\ IsMachine(m) /\ ~IsDelay(Top)
    BY Tops DEF LockInv, Safe
<1>1. CASE EnterSuspend
    <2>1. /\ m' = [m EXCEPT !.blocking = m.state = "sleep"] \/ m' = m
          /\ stack' = Append(stack, SuspendFrame) \/ stack' = stack
          /\ phase' = "suspended" => stack' = Append(stack, SuspendFrame)
          /\ phase' \in {"suspended", "back"}
          /\ stack = <<MainFrame>>
        BY <1>1, Tops DEF EnterSuspend
    <2>2. Still(m, m')
        BY <1>0, <2>1 DEF Still, IsMachine, Fields
    <2>3. Append(<<MainFrame>>, SuspendFrame) = <<MainFrame, SuspendFrame>>
        BY Pushed
    <2>4. LockInv'
        BY <2>1, <2>2, <2>3 DEF LockInv, Safe, Still
    <2> QED BY <2>2, <2>4 DEF LockStep, Still, JogDone
<1>2. CASE SuspendAgain
    <2>1. Still(m, m') /\ stack' = stack /\ phase' = "suspended" /\ Top = SuspendFrame
        BY <1>0, <1>2 DEF SuspendAgain, Still
    <2> QED BY <2>1, StillStep
<1>3. CASE SuspendEnds
    <2>1. Still(m, m') /\ stack' = <<MainFrame>> /\ phase' = "back"
        BY <1>0, <1>3, Tops DEF SuspendEnds, Still, LockInv
    <2>2. LockInv'
        BY <2>1 DEF LockInv, Safe, Still
    <2> QED BY <2>1, <2>2 DEF LockStep, Still, JogDone
<1>4. CASE SuspendRound
    <2> DEFINE n == SuspendManager(m)
    <2>1. Kept(m, n)
        BY <1>0, SuspendManagerKept
    <2>2. Latched(m, n)
        BY <1>0, <2>1, LockedStays, KeptIsLatched DEF Safe, Latched
    <2>3. n.state = m.state
        BY <1>0 DEF SuspendManager, Wait, IsMachine, Fields
    <2>4. Proceed(n, stack, "suspend_tail") /\ phase = "suspended"
        BY <1>4 DEF SuspendRound
    <2> HIDE DEF n
    <2>5. m' = n /\ stack' = stack /\ phase' = "suspend_tail"
        BY <1>0, <2>1, <2>4 DEF Proceed, Kept, Safe
    <2> QED BY <2>2, <2>3, <2>4, <2>5, LatchedStep DEF JogDone
<1>5. CASE SuspendTail
    <2> DEFINE n == IF m.state = "door" /\ ~m.door THEN Request(m, "door_closed") ELSE m
    <2>1. m' \in {n, Request(n, "sleep")} /\ stack' = stack /\ phase' = "alarm"
        BY <1>5 DEF SuspendTail
    <2>2. Still(m, n)
        BY <1>0 DEF Still, Request, IsMachine, Fields
    <2> HIDE DEF n
    <2>3. Still(m, m')
        BY <2>1, <2>2 DEF Still, Request, IsMachine, Fields
    <2> QED BY <2>1, <2>3, StillStep
<1>6. CASE DelayRound \/ DelayEnds
    BY <1>0, <1>6 DEF DelayRound, DelayEnds
<1> QED BY <1>1, <1>2, <1>3, <1>4, <1>5, <1>6

\* What the main program does to the machine between two calls of the executive.
LEMMA MainStill ==
    ASSUME NEW n, IsMachine(n)
    PROVE  /\ Still(n, AutoCycleStart(n))
           /\ \A r \in Requests : Still(n, Request(n, r))
           /\ Still(n, n)
BY DEF Still, AutoCycleStart, Request, IsMachine, Fields

LEMMA ReinitializeLocked ==
    ASSUME LockInv, Reinitialize
    PROVE  LockStep
<1> DEFINE n == Initialized(m)
<1>0. Safe(m)
    BY DEF LockInv
<1>1. Latched(m, n) /\ n.blocks = 0
    BY <1>0, InitializedLatched
<1>2. (m' = n \/ m' = Request(n, "safety_door")) /\ phase' \in {"main", "alarm"} /\ stack' = stack
    BY DEF Reinitialize, Start, Execute, LineDone
<1> HIDE DEF n
<1>3. Latched(n, m') /\ m'.blocks = 0
    BY <1>1, <1>2 DEF Latched, Safe, Request, IsMachine, Fields
<1>4. Latched(m, m') /\ JogDone(m, m')
    BY <1>1, <1>3, LatchedTransitive DEF JogDone
<1> QED BY <1>2, <1>4, LatchedStep

LEMMA MainLocked ==
    ASSUME LockInv,
           \/ ReadCan \/ MainIdle \/ Startup \/ IdleDone \/ LineAborted
           \/ \E c \in Commands : ReadLine(c)
    PROVE  LockStep
<1>0. Safe(m) /\ IsMachine(m) /\ Still(m, m)
    BY MainStill DEF LockInv, Safe
<1>1. CASE ReadCan
    <2>1. Still(m, m') /\ stack' = stack /\ phase' = phase
        BY <1>0, <1>1, MainStill DEF ReadCan, Requests
    <2> QED BY <2>1, StillStep
<1>2. CASE MainIdle
    <2>1. Still(m, m') /\ stack' = stack /\ phase' = "alarm"
        BY <1>0, <1>2, MainStill DEF MainIdle, Execute
    <2> QED BY <2>1, StillStep
<1>3. CASE Startup
    <2>1. Still(m, m') /\ stack' = stack /\ phase' = "main"
        BY <1>0, <1>3 DEF Startup, LineDone
    <2> QED BY <2>1, StillStep
<1>4. CASE IdleDone
    <2>1. CASE m.abort
        BY <1>4, <2>1, ReinitializeLocked DEF IdleDone
    <2>2. CASE ~m.abort
        <3> DEFINE n == [m EXCEPT !.cancel = FALSE]
        <3>1. (m' = n \/ m' = Request(n, "sleep")) /\ stack' = stack /\ phase' = "main"
            BY <1>4, <2>2 DEF IdleDone, LineDone
        <3>2. Latched(m, n) /\ n.state = m.state
            BY <1>0 DEF Latched, Safe, IsMachine, Fields
        <3> HIDE DEF n
        <3>3. Latched(m, m') /\ m'.state = m.state
            BY <3>1, <3>2 DEF Latched, Safe, Request, IsMachine, Fields
        <3> QED BY <3>1, <3>3, LatchedStep DEF JogDone
    <2> QED BY <2>1, <2>2
<1>5. CASE LineAborted
    BY <1>5, ReinitializeLocked DEF LineAborted
<1>6. ASSUME NEW c \in Commands, ReadLine(c)
      PROVE  LockStep
    <2>1. Still(m, m') /\ stack' = stack /\ phase' = "alarm"
        BY <1>0, <1>6 DEF ReadLine, Execute
    <2> QED BY <2>1, StillStep
<1> QED BY <1>1, <1>2, <1>3, <1>4, <1>5, <1>6

LEMMA CommandsLocked ==
    ASSUME LockInv, CommandInv, LineStarts \/ MotionBuffered \/ SyncWaits \/ SyncEnds \/ LineEnds
    PROVE  LockStep
<1>0. Safe(m) /\ IsMachine(m) /\ Still(m, m)
    BY MainStill DEF LockInv, Safe
<1>1. CASE LineStarts
    <2>1. stack' = stack /\ phase' \in {"main", "alarm"}
        BY <1>1 DEF LineStarts, LineDone, Execute
    <2>2. CASE LineAccepted /\ cmd = "unlock"
        <3>1. m' = SetIdle(m) /\ m.state \in Locked
            BY <1>1, <2>2 DEF LineStarts, LineAccepted, LineDone, Locked
        <3>2. Safe(m')
            BY <1>0, <3>1 DEF SetIdle, ClearAlarm, Safe, IsMachine, Fields, States, Locked
        <3> QED BY <2>1, <2>2, <3>1, <3>2 DEF LockStep, LockInv, JogDone, Locked
    <2>3. CASE ~(LineAccepted /\ cmd = "unlock")
        <3>1. m' \in {m, Request(m, "sleep"), AutoCycleStart(m)}
            BY <1>1, <2>3 DEF LineStarts, LineDone, Execute
        <3>2. Still(m, m')
            BY <1>0, <3>1, MainStill DEF Requests
        <3> QED BY <2>1, <3>2, StillStep
    <2> QED BY <2>2, <2>3
<1>2. CASE MotionBuffered
    <2> DEFINE n == [m EXCEPT !.blocks = @ + 1]
    <2>1. /\ m' \in {m, AutoCycleStart(m), n, StartJog(n)}
          /\ stack' = stack /\ phase' \in {"main", "alarm"}
        BY <1>2 DEF MotionBuffered, LineDone, Execute
    <2>2. Still(m, n)
        BY <1>0 DEF Still, IsMachine, Fields
    <2> HIDE DEF n
    <2>3. CASE m' = StartJog(n)
        <3>1. Latched(m, n)
            BY <1>0, <2>2 DEF Still, Safe, Latched
        <3>2. Latched(m, m')
            BY <2>3, <3>1, StartJogLatched, LatchedTransitive DEF Latched
        <3>3. m.state = "jog" => m'.state = "jog"
            BY <2>2, <2>3 DEF StartJog, Still
        <3> QED BY <2>1, <3>2, <3>3, LatchedStep DEF JogDone
    <2>4. CASE m' # StartJog(n)
        <3>1. Still(m, m')
            BY <1>0, <2>1, <2>2, <2>4, MainStill
        <3> QED BY <2>1, <3>1, StillStep
    <2> QED BY <2>3, <2>4
<1>3. CASE SyncWaits
    <2>1. Still(m, m') /\ stack' = stack /\ phase' = "alarm"
        BY <1>0, <1>3 DEF SyncWaits, Execute
    <2> QED BY <2>1, StillStep
<1>4. CASE SyncEnds
    <2> DEFINE change == Request([m EXCEPT !.toolChange = TRUE], "tool_change")
               on == [m EXCEPT !.spindle = TRUE, !.gcSpindle = TRUE, !.coolant = TRUE, !.gcCoolant = TRUE]
               off == [DeEnergized(m) EXCEPT !.gcSpindle = FALSE, !.gcCoolant = FALSE]
               hold == Request(m, "feed_hold")
    <2>1. m' \in {m, change, on, off, hold} /\ stack' = stack /\ phase' \in {"main", "alarm"}
        <3> HIDE DEF change, on, off, hold
        <3>0. cmd \in Syncing
            BY <1>4 DEF SyncEnds, Returned, CommandInv
        <3>1. CASE cmd = "tool_change"
            BY <1>4, <3>1 DEF SyncEnds, Execute, change
        <3>2. CASE cmd = "accessories"
            BY <1>4, <3>2 DEF SyncEnds, LineDone, on
        <3>3. CASE cmd = "end" \/ (cmd = "pause" /\ m.cancel)
            BY <1>4, <3>3 DEF SyncEnds, LineDone, off
        <3>4. CASE cmd = "pause" /\ ~m.cancel
            BY <1>4, <3>4 DEF SyncEnds, Execute, hold
        <3> QED BY <3>0, <3>1, <3>2, <3>3, <3>4 DEF Syncing
    <2>2. Still(m, change) /\ Still(m, on) /\ Still(m, off) /\ Still(m, hold)
        BY <1>0 DEF Still, Request, DeEnergized, IsMachine, Fields
    <2> HIDE DEF change, on, off, hold
    <2>3. Still(m, m')
        BY <1>0, <2>1, <2>2
    <2> QED BY <2>1, <2>3, StillStep
<1>5. CASE LineEnds
    <2>1. Still(m, m') /\ stack' = stack /\ phase' = "main"
        BY <1>0, <1>5 DEF LineEnds, LineDone
    <2> QED BY <2>1, StillStep
<1> QED BY <1>1, <1>2, <1>3, <1>4, <1>5
LEMMA InterruptsLocked ==
    ASSUME LockInv,
           \/ KeyCycleStart \/ KeyFeedHold \/ KeyReset \/ KeyStop \/ KeyJogCancel \/ KeySpindleStop
           \/ DoorOpens \/ DoorCloses \/ EstopPressed \/ EstopReleased \/ HardLimit \/ Stepper
    PROVE  LockStep
<1>0. Safe(m) /\ IsMachine(m) /\ stack' = stack /\ phase' = phase
    BY DEF LockInv, Safe, KeyCycleStart, KeyFeedHold, KeyReset, KeyStop, KeyJogCancel,
           KeySpindleStop, DoorOpens, DoorCloses, EstopPressed, EstopReleased, HardLimit,
           Stepper, StepSegment, StepsExhausted, Interrupt
<1>1. CASE Still(m, m')
    BY <1>0, <1>1, StillStep
<1>2. CASE /\ Latched(m, m') /\ m'.cancel = m.cancel
           /\ m'.state = "jog" \/ m'.state \in Locked \/ m.state # "jog"
    BY <1>0, <1>2, LatchedStep DEF LockInv, JogDone
<1>3. ASSUME NEW n, Still(m, n), m' = McReset(n)
      PROVE  LockStep
    <2>1. Safe(n) /\ Latched(m, n) /\ n.state = m.state
        BY <1>0, <1>3 DEF Still, Safe, Latched
    <2>2. Latched(n, m') /\ m'.cancel = n.cancel
        BY <1>3, <2>1, McResetLatched
    <2>3. Latched(m, m') /\ m'.cancel = m.cancel
        BY <1>3, <2>1, <2>2, LatchedTransitive DEF Still
    <2>4. m'.state = n.state
        BY <1>3, <2>1 DEF McReset, Request, StGoIdle, Safe, IsMachine, Fields
    <2> QED BY <1>2, <2>1, <2>3, <2>4
<1>4. CASE KeyCycleStart \/ KeyFeedHold \/ KeyStop \/ KeyJogCancel \/ KeySpindleStop
    <2>1. \/ m' = [Request(m, "cycle_start") EXCEPT !.toolChange = FALSE]
          \/ m' = m \/ \E r \in Requests : m' = Request(m, r)
        BY <1>4 DEF KeyCycleStart, KeyFeedHold, KeyStop, KeyJogCancel, KeySpindleStop,
                    Interrupt, Requests
    <2>2. Still(m, [Request(m, "cycle_start") EXCEPT !.toolChange = FALSE])
        BY <1>0 DEF Still, Request, IsMachine, Fields
    <2>3. Still(m, m')
        BY <1>0, <2>1, <2>2, MainStill
    <2> QED BY <1>1, <2>3
<1>5. CASE KeyReset
    BY <1>0, <1>3, <1>5 DEF KeyReset, Interrupt, Still
<1>6. CASE DoorOpens \/ DoorCloses \/ EstopReleased
    <2>1. \/ \E d \in BOOLEAN : m' = [m EXCEPT !.door = d]
          \/ m' = Request([m EXCEPT !.door = TRUE], "safety_door")
          \/ m' = [m EXCEPT !.estop = FALSE]
        BY <1>6 DEF DoorOpens, DoorCloses, EstopReleased, Interrupt
    <2>2. ASSUME NEW d \in BOOLEAN, m' = [m EXCEPT !.door = d] PROVE Still(m, m')
        BY <1>0, <2>2 DEF Still, IsMachine, Fields
    <2>3. Still(m, Request([m EXCEPT !.door = TRUE], "safety_door"))
        BY <1>0 DEF Request, Still, IsMachine, Fields
    <2>4. Still(m, [m EXCEPT !.estop = FALSE])
        BY <1>0 DEF Still, IsMachine, Fields
    <2> QED BY <1>1, <2>1, <2>2, <2>3, <2>4
<1>7. CASE EstopPressed
    <2> DEFINE n == [m EXCEPT !.estop = TRUE]
    <2>1. m' = McReset(n) \/ m' = n
        BY <1>7 DEF EstopPressed, Interrupt
    <2>2. Still(m, n)
        BY <1>0 DEF Still, IsMachine, Fields
    <2> HIDE DEF n
    <2> QED BY <1>1, <1>3, <2>1, <2>2
<1>8. CASE HardLimit
    <2> DEFINE n == McReset(m)
    <2>1. m' = [n EXCEPT !.rtAlarm = "hard_limit"]
        BY <1>8 DEF HardLimit, Interrupt
    <2>2. Latched(m, n) /\ n.cancel = m.cancel /\ n.state = m.state
        BY <1>0, McResetLatched DEF McReset, Request, StGoIdle, Safe, IsMachine, Fields
    <2> HIDE DEF n
    <2>3. Latched(m, m') /\ m'.cancel = m.cancel /\ m'.state = m.state
        BY <2>1, <2>2 DEF Latched, Safe, IsMachine, Fields
    <2> QED BY <1>2, <2>3
<1>9. CASE Stepper
    <2>1. \/ \E z : m' = [m EXCEPT !.segs = @ - 1, !.execBlock = TRUE, !.z = z]
          \/ m' = Request([StGoIdle(m) EXCEPT !.execBlock = FALSE], "cycle_complete")
        BY <1>9 DEF Stepper, StepSegment, StepsExhausted, Interrupt
    <2>2. Still(m, Request([StGoIdle(m) EXCEPT !.execBlock = FALSE], "cycle_complete"))
        BY <1>0 DEF StGoIdle, Request, Still, IsMachine, Fields
    <2>3. ASSUME NEW z, m' = [m EXCEPT !.segs = @ - 1, !.execBlock = TRUE, !.z = z]
          PROVE  Still(m, m')
        BY <1>0, <2>3 DEF Still, IsMachine, Fields
    <2> QED BY <1>1, <2>1, <2>2, <2>3
<1> QED BY <1>4, <1>5, <1>6, <1>7, <1>8, <1>9

LEMMA StepLocked ==
    ASSUME LockInv, CommandInv, NoDelays, [Next]_vars
    PROVE  LockStep
<1>1. CASE Foreground
    BY <1>1, ExecAlarmLocked, ExecutiveLocked, StopLocked, ExecStateLocked, SuspendLocked,
       MainLocked, CommandsLocked DEF Foreground
<1>2. CASE Environment
    BY <1>2, InterruptsLocked, MainLocked DEF Environment
<1>3. CASE Stepper
    BY <1>3, InterruptsLocked
<1>4. CASE UNCHANGED vars
    BY <1>4 DEF vars, LockStep, LockInv, JogDone, Safe
<1> QED BY <1>1, <1>2, <1>3, <1>4 DEF Next

LEMMA CommandInvariant == Spec => []CommandInv
<1>1. Init => CommandInv
    BY DEF Init, CommandInv
<1>2. CommandInv /\ [Next]_vars => CommandInv'
    BY CommandStep
<1> QED BY <1>1, <1>2, PTL DEF Spec

LEMMA LockInvariant ==
    ASSUME NoDelays
    PROVE  Spec => []LockInv
<1>1. LockInv /\ CommandInv /\ [Next]_vars => LockInv'
    BY StepLocked DEF LockStep
<1> QED BY <1>1, InitLocked, CommandInvariant, PTL DEF Spec

\* The alarm lock (state_machine.c, system.c): without dwelling delays in the
\* state handlers, whatever is requested in whatever order, a machine in alarm
\* leaves it by $X or by a stop alone.
THEOREM AlarmStaysLatched ==
    ASSUME NoDelays
    PROVE  Spec => AlarmLatched
<1>1. LockInv /\ CommandInv /\ [Next]_vars
        => [m.state \in Locked /\ m'.state \notin Locked => cmd = "unlock" \/ m'.cancel]_vars
    BY StepLocked DEF LockStep
<1> QED BY <1>1, LockInvariant, CommandInvariant, PTL DEF Spec, AlarmLatched

\* Jog cancel (state_machine.c, protocol.c): nothing of a cancelled jog is left
\* in the planner when the machine goes on.
THEOREM JogIsFlushed ==
    ASSUME NoDelays
    PROVE  Spec => JogFlushed
<1>1. LockInv /\ CommandInv /\ [Next]_vars
        => [m.state = "jog" /\ m.handler = "await_motion_cancel"
              /\ m'.state \notin {"jog"} \cup Locked => m'.blocks = 0]_vars
    BY StepLocked DEF LockStep, JogDone
<1> QED BY <1>1, LockInvariant, CommandInvariant, PTL DEF Spec, JogFlushed

-----------------------------------------------------------------------------
(* Resets, with the delays                                                 *)

\* The phases in which requests are fetched but not dealt with.
Stops == {"stopping", "stopped"}
Handling == {"dispatch", "update"} \cup Stops

\* Only these hold fetched requests, so the delays, which execute requests themselves, are
\* entered with none; a stop was preferred to no reset.
ResetInv ==
    /\ IsMachine(m)
    /\ phase \notin Handling => exec = {}
    /\ phase \in Stops => "reset" \notin exec
    /\ "stop" \notin Inputs => "stop" \notin m.rt \cup exec /\ phase \notin Stops \cup {"update"}

\* A reset enters the requests for the state machine only while a stop waits.
ResetMerged ==
    phase # "update" /\ phase' = "update" /\ "reset" \in exec'
      => phase = "stopping" /\ "reset" \in m.rt /\ "reset" \notin exec

ResetStep ==
    /\ ResetInv'
    /\ TakesReset => ResetTaken \/ phase = "update"
    /\ ResetMerged

\* From machine a to b nothing is added to the requests but those of r, and none is lost.
Passes(a, b, r) == IsMachine(b) /\ a.rt \subseteq b.rt /\ b.rt \subseteq a.rt \cup r

LEMMA FramedPasses ==
    ASSUME NEW a, NEW b
    PROVE  /\ Framed(a, b) => Passes(a, b, {})
           /\ Kept(a, b) => Passes(a, b, {})
BY DEF Kept, Framed, Passes

LEMMA RequestPasses ==
    ASSUME NEW n, IsMachine(n), NEW r
    PROVE  Passes(n, Request(n, r), {r})
BY DEF Passes, Request, IsMachine, Fields

LEMMA AlarmPasses ==
    ASSUME NEW n, IsMachine(n), NEW alarm
    PROVE  /\ IsMachine(RaiseAlarm(n, alarm)) /\ RaiseAlarm(n, alarm).rt = n.rt
           /\ RaiseAlarm(n, alarm).alarm = alarm /\ RaiseAlarm(n, alarm).estop = n.estop
BY DEF IsMachine, Fields, States, Locked, RaiseAlarm, SetLocked, ClearAlarm

LEMMA McResetPasses ==
    ASSUME NEW n, IsMachine(n)
    PROVE  Passes(n, McReset(n), {"reset"})
BY DEF Passes, IsMachine, Fields, States, Locked, McReset, Request, StGoIdle

\* A step that keeps the requests, and those fetched, and does not dispatch them.
LEMMA PassingStep ==
    ASSUME ResetInv, NEW r, Passes(m, m', r), "stop" \in r => "stop" \in Inputs, exec' = exec,
           phase' # phase => phase \notin Handling /\ phase' \notin Handling
    PROVE  ResetStep
BY DEF ResetInv, ResetStep, ResetMerged, Passes, TakesReset, Handling, Stops

LEMMA ExecutivePasses ==
    ASSUME ResetInv,
           \/ ExecAlarm \/ ExecBlocked \/ ExecFetch \/ ExecReset \/ ExecStop \/ StopPrep \/ StopAtRest
           \/ ExecState \/ ExecOverrides \/ ExecPrep
    PROVE  ResetStep
<1>0. IsMachine(m)
    BY DEF ResetInv
<1>1. CASE ExecAlarm
    <2> DEFINE resetting == "reset" \in m.rt
               off == IF resetting THEN DeEnergized(m) ELSE m
               n == [off EXCEPT !.resetPending = resetting, !.rtAlarm = "none"]
               critical == m.rtAlarm \in CriticalAlarms
               raised == [RaiseAlarm(n, m.rtAlarm) EXCEPT !.blocking = critical]
    <2>1. /\ phase = "alarm" /\ phase' \in {"fetch", "blocked"} /\ exec' = exec
          /\ \/ m' = m \/ m' = raised
             \/ m' = [raised EXCEPT !.rtAlarm = m.rtAlarm, !.rt = @ \ {"reset"}]
        BY <1>1 DEF ExecAlarm
    <2>2. IsMachine(n) /\ n.rt = m.rt
        BY <1>0 DEF IsMachine, Fields, DeEnergized
    <2> HIDE DEF n, critical
    <2>3. IsMachine(raised) /\ raised.rt = m.rt
        BY <2>2, AlarmPasses DEF IsMachine, Fields
    <2> HIDE DEF raised
    <2>4. ASSUME m' = [raised EXCEPT !.rtAlarm = m.rtAlarm, !.rt = @ \ {"reset"}]
          PROVE  IsMachine(m') /\ m'.rt \subseteq m.rt
        <3> DEFINE rt == raised.rt \ {"reset"}
        <3>1. m' = [raised EXCEPT !.rtAlarm = m.rtAlarm, !.rt = rt]
            BY <2>4
        <3>2. rt \subseteq m.rt
            BY <2>3
        <3> HIDE DEF rt
        <3> QED BY <2>3, <3>1, <3>2 DEF IsMachine, Fields
    <2>5. IsMachine(m') /\ m'.rt \subseteq m.rt
        BY <1>0, <2>1, <2>3, <2>4
    <2> QED BY <2>1, <2>5 DEF ResetInv, ResetStep, ResetMerged, TakesReset, Handling, Stops
<1>2. CASE ExecBlocked
    <2>1. /\ phase = "blocked" /\ exec' = exec /\ phase' \in {"return", "blocked"}
          /\ Passes(m, m', {})
        BY <1>0, <1>2, ZenonT(60) DEF ExecBlocked, Passes, IsMachine, Fields
    <2> QED BY <2>1, PassingStep DEF Handling, Stops
<1>3. CASE ExecFetch
    <2>1. /\ phase = "fetch" /\ exec' = m.rt /\ m' = [m EXCEPT !.rt = {}]
          /\ phase' = IF m.rt = {} THEN "overrides" ELSE "dispatch"
        BY <1>3 DEF ExecFetch
    <2>2. IsMachine(m') /\ m'.rt = {}
        BY <1>0, <2>1 DEF IsMachine, Fields
    <2> QED BY <2>1, <2>2 DEF ResetInv, ResetStep, ResetMerged, TakesReset, Handling, Stops
<1>4. CASE ExecReset
    <2> DEFINE n == [DeEnergized(m) EXCEPT !.resetPending = TRUE, !.abort = ~m.estop]
    <2>1. /\ m' = IF m.estop THEN RaiseAlarm(n, "estop") ELSE n
          /\ phase' = "return" /\ exec' = {}
        BY <1>4 DEF ExecReset
    <2>2. IsMachine(n) /\ n.rt = m.rt /\ n.estop = m.estop /\ n.abort = ~m.estop
        BY <1>0 DEF IsMachine, Fields, DeEnergized
    <2> HIDE DEF n
    <2>3. CASE m.estop
        BY <2>1, <2>2, <2>3, AlarmPasses DEF ResetInv, ResetStep, ResetMerged, ResetTaken, Stops
    <2>4. CASE ~m.estop
        BY <2>1, <2>2, <2>4 DEF ResetInv, ResetStep, ResetMerged, ResetTaken, Stops
    <2> QED BY <2>3, <2>4
<1>5. CASE ExecStop
    <2> DEFINE n == [m EXCEPT !.cancel = TRUE, !.resetPending = FALSE,
                              !.exHold = FALSE, !.exSys = FALSE,
                              !.endMotion = FALSE, !.toolChange = FALSE,
                              !.readSuspended = FALSE]
               c == StateCycle(n, {"motion_cancel"})
    <2>1. /\ m' = n \/ m' = c
          /\ phase = "dispatch" /\ phase' \in Stops
          /\ exec' = exec /\ "reset" \notin exec /\ "stop" \in exec
        BY <1>5 DEF ExecStop, Stops
    <2>2. IsMachine(n) /\ n.rt = m.rt
        BY <1>0 DEF IsMachine, Fields
    <2> HIDE DEF n
    <2>3. Kept(n, c)
        BY <2>2, StateCycleKept
    <2> HIDE DEF c
    <2>4. IsMachine(m') /\ m'.rt = m.rt
        BY <2>1, <2>2, <2>3 DEF Kept, Framed
    <2> QED BY <2>1, <2>4 DEF ResetInv, ResetStep, ResetMerged, TakesReset, Handling, Stops
<1>9. CASE StopPrep
    <2>1. phase' = phase /\ exec' = exec /\ m' \in PrepOutcomes(m)
        BY <1>9 DEF StopPrep
    <2>2. Passes(m, m', {})
        BY <1>0, <2>1, PrepKept, FramedPasses
    <2> QED BY <2>1, <2>2, PassingStep
<1>10. CASE StopAtRest
    <2> DEFINE late == IF phase = "stopping" THEN m.rt ELSE {}
               left == m.rt \ late
               n == [m EXCEPT !.rt = left]
               off == [DeEnergized(n) EXCEPT !.gcSpindle = FALSE,
                                             !.gcCoolant = FALSE,
                                             !.toolChange = FALSE,
                                             !.blocks = 0]
               r == StReset(off)
               new == IF m.door THEN "door" ELSE "idle"
    <2>1. /\ m' = StateSet(r, new)
          /\ phase \in Stops /\ phase' = IF exec' = {} THEN "overrides" ELSE "update"
          /\ exec' = (exec \cup late) \ {"stop"}
        BY <1>10 DEF StopAtRest, Stops
    <2>2. IsMachine(n) /\ n.rt = left
        BY <1>0 DEF IsMachine, Fields
    <2> HIDE DEF n
    <2>3. IsMachine(r) /\ r.rt = left
        BY <2>2 DEF IsMachine, Fields, DeEnergized, StReset
    <2> HIDE DEF r
    <2>4. IsMachine(m') /\ m'.rt = left
        BY <2>1, <2>3, StateSetKept DEF Kept, Framed, States, Locked
    <2>5. "stop" \in Inputs /\ "reset" \notin exec
        BY <2>1 DEF ResetInv
    <2> QED BY <2>1, <2>4, <2>5 DEF ResetInv, ResetStep, ResetMerged, TakesReset, Handling, Stops
<1>6. CASE ExecState
    <2> DEFINE n == [m EXCEPT !.resetPending = FALSE]
               k == StateUpdate(n, exec)
    <2>1. /\ phase = "update" \/ "reset" \notin exec
          /\ exec' = {}
          /\ m' = k \/ m' = [k EXCEPT !.call = NoDelay]
          /\ phase' \in {"overrides", "return", "alarm"}
        BY <1>6 DEF ExecState, Proceed
    <2>2. IsMachine(n) /\ n.rt = m.rt
        BY <1>0 DEF IsMachine, Fields
    <2> HIDE DEF n
    <2>3. IsMachine(k) /\ k.rt = m.rt
        BY <2>2, StateUpdateKept DEF Framed
    <2> HIDE DEF k
    <2>4. IsMachine(m') /\ m'.rt = m.rt
        BY <2>1, <2>3 DEF IsMachine, Fields
    <2> QED BY <2>1, <2>4 DEF ResetInv, ResetStep, ResetMerged, TakesReset, Handling, Stops
<1>7. CASE ExecOverrides
    <2>1. /\ phase = "overrides" /\ exec' = exec /\ phase' \in {"prep", "return"}
          /\ m' = m \/ \E s : m' = [m EXCEPT !.spindleStop = s]
        BY <1>7 DEF ExecOverrides
    <2>2. Passes(m, m', {})
        BY <1>0, <2>1 DEF Passes, IsMachine, Fields
    <2> QED BY <2>1, <2>2, PassingStep DEF Handling, Stops
<1>8. CASE ExecPrep
    <2>1. /\ phase = "prep" /\ exec' = exec /\ phase' \in {"prep", "return"}
          /\ m' = m \/ m' \in PrepOutcomes(m)
        BY <1>8 DEF ExecPrep
    <2>2. Passes(m, m', {})
        BY <1>0, <2>1, PrepKept, KeptSelf, FramedPasses
    <2> QED BY <2>1, <2>2, PassingStep DEF Handling, Stops
<1> QED BY <1>1, <1>2, <1>3, <1>4, <1>5, <1>6, <1>7, <1>8, <1>9, <1>10

LEMMA CallersPass ==
    ASSUME ResetInv,
           EnterSuspend \/ SuspendAgain \/ SuspendEnds \/ SuspendRound \/ SuspendTail \/ DelayRound \/ DelayEnds
    PROVE  ResetStep
<1>0. IsMachine(m) /\ Passes(m, m, {})
    BY DEF ResetInv, Passes
<1>1. CASE EnterSuspend \/ SuspendAgain \/ SuspendEnds \/ DelayRound
    <2>1. /\ phase \in {"return", "suspended", "back"} /\ phase' \in {"suspended", "back", "alarm"}
          /\ exec' = exec
        BY <1>1 DEF EnterSuspend, SuspendAgain, SuspendEnds, DelayRound
    <2>2. Passes(m, m', {})
        <3>1. CASE EnterSuspend
            BY <1>0, <3>1 DEF EnterSuspend, Passes, IsMachine, Fields
        <3>2. CASE SuspendAgain \/ SuspendEnds \/ DelayRound
            BY <1>0, <3>2 DEF SuspendAgain, SuspendEnds, DelayRound
        <3> QED BY <1>1, <3>1, <3>2
    <2> QED BY <2>1, <2>2, PassingStep DEF Handling, Stops
<1>2. ASSUME NEW n, Framed(m, n), \E frames, next : Proceed(n, frames, next)
                                  /\ next \in {"suspend_tail", "overrides"},
             phase \in {"suspended", "back", "return"}, exec' = exec
      PROVE  ResetStep
    <2>1. /\ m' = n \/ m' = [n EXCEPT !.call = NoDelay]
          /\ phase' \in {"suspend_tail", "overrides", "return", "alarm"}
        BY <1>2 DEF Proceed
    <2>2. Passes(m, m', {})
        BY <1>2, <2>1 DEF Framed, Passes, IsMachine, Fields
    <2> QED BY <1>2, <2>1, <2>2, PassingStep DEF Handling, Stops
<1>3. CASE SuspendRound
    BY <1>0, <1>2, <1>3, SuspendManagerKept DEF SuspendRound
<1>4. CASE SuspendTail
    <2>1. /\ \/ m' = m \/ m' = Request(m, "door_closed") \/ m' = Request(m, "sleep")
             \/ m' = Request(Request(m, "door_closed"), "sleep")
          /\ phase = "suspend_tail" /\ phase' = "alarm" /\ exec' = exec
        BY <1>4 DEF SuspendTail
    <2>2. Passes(m, m', {"door_closed", "sleep"})
        BY <1>0, <2>1, RequestPasses DEF Passes
    <2> QED BY <2>1, <2>2, PassingStep DEF Handling, Stops
<1>5. CASE DelayEnds
    <2>1. Framed(m, Continue(m, Top))
        BY <1>0, ContinueFramed
    <2>2. /\ phase \in {"back", "return"} /\ exec' = exec
          /\ \E frames, next : Proceed(Continue(m, Top), frames, next) /\ next \in {"suspend_tail", "overrides"}
        BY <1>5 DEF DelayEnds
    <2> QED BY <1>2, <2>1, <2>2
<1> QED BY <1>1, <1>3, <1>4, <1>5

LEMMA ReinitializePasses ==
    ASSUME ResetInv, Reinitialize, phase = "back"
    PROVE  ResetStep
<1> DEFINE n == Initialized(m)
<1>1. IsMachine(n) /\ n.rt = {}
    <2> DEFINE clear ==
            [StReset(m) EXCEPT
                !.suspend = FALSE, !.exHold = FALSE, !.exSys = FALSE,
                !.endMotion = FALSE, !.holding = "no",
                !.parking = "door_closed", !.spindleStop = "none",
                !.rt = {}, !.rtAlarm = "none", !.abort = FALSE,
                !.cancel = FALSE, !.resetPending = FALSE,
                !.blocking = FALSE, !.positionLost = FALSE,
                !.gcSpindle = FALSE, !.gcCoolant = FALSE,
                !.toolChange = FALSE, !.readSuspended = FALSE,
                !.blocks = 0]
               unlock == IF clear.state = "estop" THEN SetLocked(clear, "alarm") ELSE clear
    <2>1. n = IF unlock.estop THEN RaiseAlarm(unlock, "estop")
              ELSE IF StaysLocked(unlock) THEN SetLocked(unlock, "alarm") ELSE SetIdle(unlock)
        BY DEF Initialized
    <2>2. IsMachine(clear) /\ clear.rt = {}
        BY DEF ResetInv, IsMachine, Fields, States, Locked, StReset
    <2> HIDE DEF clear
    <2>3. IsMachine(unlock) /\ unlock.rt = {}
        BY <2>2 DEF IsMachine, Fields, States, Locked, SetLocked, ClearAlarm
    <2> HIDE DEF unlock
    <2>4. /\ IsMachine(SetLocked(unlock, "alarm")) /\ SetLocked(unlock, "alarm").rt = {}
          /\ IsMachine(SetIdle(unlock)) /\ SetIdle(unlock).rt = {}
        BY <2>3 DEF IsMachine, Fields, States, Locked, SetLocked, SetIdle, ClearAlarm
    <2> QED BY <2>1, <2>3, <2>4, AlarmPasses
<1>2. /\ m' = n \/ m' = Request(n, "safety_door")
      /\ phase' \in {"alarm", "main"} /\ exec' = exec
    BY DEF Reinitialize, Start, LineDone, Execute
<1> HIDE DEF n
<1>3. IsMachine(m') /\ "stop" \notin m'.rt
    BY <1>1, <1>2, RequestPasses DEF Passes
<1> QED BY <1>2, <1>3 DEF ResetInv, ResetStep, ResetMerged, TakesReset, Handling, Stops

LEMMA MainPasses ==
    ASSUME ResetInv,
           \/ ReadCan \/ MainIdle \/ Startup \/ IdleDone \/ LineAborted
           \/ \E c \in Commands : ReadLine(c)
    PROVE  ResetStep
<1>0. IsMachine(m) /\ Passes(m, m, {})
    BY DEF ResetInv, Passes
<1>1. CASE IdleDone \/ LineAborted
    <2>1. CASE Reinitialize
        BY <1>1, <2>1, ReinitializePasses DEF IdleDone, LineAborted, Returned
    <2>2. CASE ~Reinitialize
        <3> DEFINE n == [m EXCEPT !.cancel = FALSE]
        <3>1. /\ m' = n \/ m' = Request(n, "sleep")
              /\ phase = "back" /\ phase' = "main" /\ exec' = exec
            BY <1>1, <2>2 DEF IdleDone, LineAborted, Returned, LineDone
        <3>2. IsMachine(n) /\ n.rt = m.rt
            BY <1>0, <2>2 DEF Passes, IsMachine, Fields
        <3> HIDE DEF n
        <3>3. Passes(m, m', {"sleep"})
            BY <3>1, <3>2, RequestPasses DEF Passes
        <3> QED BY <3>1, <3>3, PassingStep DEF Handling, Stops
    <2> QED BY <2>1, <2>2
<1>2. CASE ReadCan \/ MainIdle \/ Startup \/ \E c \in Commands : ReadLine(c)
    <2>1. /\ \/ m' = m \/ m' = Request(m, "motion_cancel") \/ m' = Request(m, "cycle_start")
          /\ phase \in {"main", "back"} /\ phase' \in {"main", "alarm"} /\ exec' = exec
        BY <1>2 DEF ReadCan, MainIdle, Startup, ReadLine, InMain, Returned, Execute, LineDone, AutoCycleStart
    <2>2. Passes(m, m', {"motion_cancel", "cycle_start"})
        BY <1>0, <2>1, RequestPasses DEF Passes
    <2> QED BY <2>1, <2>2, PassingStep DEF Handling, Stops
<1> QED BY <1>1, <1>2

LEMMA CommandsPass ==
    ASSUME ResetInv, CommandInv, LineStarts \/ MotionBuffered \/ SyncWaits \/ SyncEnds \/ LineEnds
    PROVE  ResetStep
<1>0. IsMachine(m) /\ Passes(m, m, {})
    BY DEF ResetInv, Passes
<1>1. phase = "back" /\ phase' \in {"main", "alarm"} /\ exec' = exec
    <2>1. CASE LineStarts
        BY <2>1 DEF LineStarts, Returned, LineDone, Execute
    <2>2. CASE MotionBuffered
        BY <2>2 DEF MotionBuffered, Returned, LineDone, Execute
    <2>3. CASE SyncWaits \/ LineEnds
        BY <2>3 DEF SyncWaits, LineEnds, Returned, LineDone, Execute
    <2>4. CASE SyncEnds
        <3>1. cmd \in {"tool_change", "accessories", "end", "pause"}
            BY <2>4 DEF SyncEnds, Returned, CommandInv, Syncing
        <3> QED BY <2>4, <3>1 DEF SyncEnds, Returned, LineDone, Execute
    <2> QED BY <2>1, <2>2, <2>3, <2>4
<1>2. ASSUME NEW r, Passes(m, m', r), "stop" \notin r
      PROVE  ResetStep
    BY <1>1, <1>2, PassingStep DEF Handling, Stops
<1>3. CASE LineStarts
    <2>1. m' \in {m, SetIdle(m), Request(m, "sleep"), Request(m, "cycle_start")}
        BY <1>3 DEF LineStarts, LineDone, Execute, AutoCycleStart
    <2>2. Passes(m, SetIdle(m), {})
        BY <1>0, SetKept, FramedPasses
    <2>3. Passes(m, m', {"sleep", "cycle_start"})
        BY <1>0, <2>1, <2>2, RequestPasses DEF Passes
    <2> QED BY <1>2, <2>3
<1>4. CASE MotionBuffered
    <2> DEFINE n == [m EXCEPT !.blocks = @ + 1]
    <2>1. m' \in {m, Request(m, "cycle_start"), n, StartJog(n)}
        BY <1>4 DEF MotionBuffered, LineDone, Execute, AutoCycleStart
    <2>2. IsMachine(n) /\ n.rt = m.rt
        BY <1>0 DEF IsMachine, Fields
    <2> HIDE DEF n
    <2>3. Passes(n, StartJog(n), {})
        BY <2>2, StartJogKept, FramedPasses
    <2>4. Passes(m, m', {"cycle_start"})
        BY <1>0, <2>1, <2>2, <2>3, RequestPasses DEF Passes
    <2> QED BY <1>2, <2>4
<1>5. CASE SyncWaits \/ LineEnds
    <2>1. m' = m
        BY <1>5 DEF SyncWaits, LineEnds, Execute, LineDone
    <2> QED BY <1>0, <1>2, <2>1
<1>6. CASE SyncEnds
    <2> DEFINE change == [m EXCEPT !.toolChange = TRUE]
               on == [m EXCEPT !.spindle = TRUE, !.gcSpindle = TRUE, !.coolant = TRUE, !.gcCoolant = TRUE]
               off == [DeEnergized(m) EXCEPT !.gcSpindle = FALSE, !.gcCoolant = FALSE]
    <2>1. m' \in {m, Request(change, "tool_change"), on, off, Request(m, "feed_hold")}
        <3> HIDE DEF change, on, off
        <3>0. cmd \in Syncing
            BY <1>6 DEF SyncEnds, Returned, CommandInv
        <3>1. CASE cmd = "tool_change"
            BY <1>6, <3>1 DEF SyncEnds, Execute, change
        <3>2. CASE cmd = "accessories"
            BY <1>6, <3>2 DEF SyncEnds, LineDone, on
        <3>3. CASE cmd = "end" \/ (cmd = "pause" /\ m.cancel)
            BY <1>6, <3>3 DEF SyncEnds, LineDone, off
        <3>4. CASE cmd = "pause" /\ ~m.cancel
            BY <1>6, <3>4 DEF SyncEnds, Execute
        <3> QED BY <3>0, <3>1, <3>2, <3>3, <3>4 DEF Syncing
    <2>2. /\ IsMachine(change) /\ change.rt = m.rt /\ IsMachine(on) /\ on.rt = m.rt
          /\ IsMachine(off) /\ off.rt = m.rt
        BY <1>0 DEF DeEnergized, IsMachine, Fields
    <2> HIDE DEF change, on, off
    <2>3. Passes(m, m', {"tool_change", "feed_hold"})
        BY <1>0, <2>1, <2>2, RequestPasses DEF Passes
    <2> QED BY <1>2, <2>3
<1> QED BY <1>3, <1>4, <1>5, <1>6

LEMMA InterruptsPass ==
    ASSUME ResetInv,
           \/ KeyCycleStart \/ KeyFeedHold \/ KeyReset \/ KeyStop \/ KeyJogCancel \/ KeySpindleStop
           \/ DoorOpens \/ DoorCloses \/ EstopPressed \/ EstopReleased \/ HardLimit \/ Stepper
    PROVE  ResetStep
<1>0. IsMachine(m) /\ exec' = exec /\ phase' = phase
    BY DEF ResetInv, KeyCycleStart, KeyFeedHold, KeyReset, KeyStop, KeyJogCancel,
           KeySpindleStop, DoorOpens, DoorCloses, EstopPressed, EstopReleased, HardLimit,
           Stepper, StepSegment, StepsExhausted, Interrupt
<1>1. ASSUME NEW r, Passes(m, m', r), "stop" \in r => "stop" \in Inputs
      PROVE  ResetStep
    BY <1>0, <1>1, PassingStep
<1>2. ASSUME NEW n, IsMachine(n), n.rt = m.rt,
             NEW r, r = "stop" => "stop" \in Inputs, m' = n \/ m' = Request(n, r)
      PROVE  ResetStep
    <2>1. Passes(n, Request(n, r), {r})
        BY <1>2, RequestPasses
    <2>2. Passes(m, m', {r})
        BY <1>2, <2>1 DEF Passes
    <2> QED BY <1>1, <1>2, <2>2
<1>3. CASE KeyCycleStart
    <2>1. m' = [Request(m, "cycle_start") EXCEPT !.toolChange = FALSE]
        BY <1>3 DEF KeyCycleStart, Interrupt
    <2>2. Passes(m, m', {"cycle_start"})
        BY <1>0, <2>1 DEF Passes, Request, IsMachine, Fields
    <2> QED BY <1>1, <2>2
<1>4. CASE KeyFeedHold \/ KeyJogCancel \/ KeySpindleStop
    BY <1>0, <1>2, <1>4 DEF KeyFeedHold, KeyJogCancel, KeySpindleStop, Interrupt
<1>5. CASE KeyStop
    BY <1>0, <1>2, <1>5 DEF KeyStop
<1>6. CASE DoorOpens \/ DoorCloses \/ EstopReleased
    <2>1. \A d \in BOOLEAN : LET n == [m EXCEPT !.door = d] IN IsMachine(n) /\ n.rt = m.rt
        BY <1>0 DEF IsMachine, Fields
    <2>2. LET n == [m EXCEPT !.estop = FALSE] IN IsMachine(n) /\ n.rt = m.rt
        BY <1>0 DEF IsMachine, Fields
    <2>3. \/ \E d \in BOOLEAN : m' = [m EXCEPT !.door = d] \/ m' = Request([m EXCEPT !.door = d], "safety_door")
          \/ m' = [m EXCEPT !.estop = FALSE]
        BY <1>6 DEF DoorOpens, DoorCloses, EstopReleased, Interrupt
    <2>4. ASSUME NEW d \in BOOLEAN,
                 m' = [m EXCEPT !.door = d] \/ m' = Request([m EXCEPT !.door = d], "safety_door")
          PROVE  ResetStep
        <3> DEFINE n == [m EXCEPT !.door = d]
        <3>1. IsMachine(n) /\ n.rt = m.rt
            BY <2>1
        <3>2. m' = n \/ m' = Request(n, "safety_door")
            BY <2>4
        <3> HIDE DEF n
        <3> QED BY <1>2, <3>1, <3>2
    <2>5. CASE m' = [m EXCEPT !.estop = FALSE]
        <3> DEFINE n == [m EXCEPT !.estop = FALSE]
        <3>1. IsMachine(n) /\ n.rt = m.rt /\ m' = n
            BY <2>2, <2>5
        <3> HIDE DEF n
        <3>2. m' = n \/ m' = Request(n, "reset")
            BY <3>1
        <3> QED BY <1>2, <3>1, <3>2
    <2> QED BY <2>3, <2>4, <2>5
<1>7. ASSUME NEW n, IsMachine(n), n.rt = m.rt,
             NEW a, m' = McReset(n) \/ m' = [McReset(n) EXCEPT !.rtAlarm = a]
      PROVE  ResetStep
    <2>1. Passes(n, McReset(n), {"reset"})
        BY <1>7, McResetPasses
    <2>2. Passes(m, m', {"reset"})
        BY <1>7, <2>1 DEF Passes, IsMachine, Fields
    <2> QED BY <1>1, <2>2
<1>8. CASE KeyReset \/ HardLimit
    BY <1>0, <1>7, <1>8 DEF KeyReset, HardLimit, Interrupt
<1>9. CASE EstopPressed
    <2> DEFINE n == [m EXCEPT !.estop = TRUE]
    <2>1. IsMachine(n) /\ n.rt = m.rt
        BY <1>0 DEF IsMachine, Fields
    <2>2. m' = n \/ m' = McReset(n)
        BY <1>9 DEF EstopPressed, Interrupt
    <2> HIDE DEF n
    <2>3. CASE m' = n
        BY <1>2, <2>1, <2>3
    <2>4. CASE m' = McReset(n)
        BY <1>7, <2>1, <2>4
    <2> QED BY <2>2, <2>3, <2>4
<1>10. CASE Stepper
    <2>1. \/ \E z : m' = [m EXCEPT !.segs = @ - 1, !.execBlock = TRUE, !.z = z]
          \/ m' = Request([StGoIdle(m) EXCEPT !.execBlock = FALSE], "cycle_complete")
        BY <1>10 DEF Stepper, StepSegment, StepsExhausted, Interrupt
    <2>2. Passes(m, Request([StGoIdle(m) EXCEPT !.execBlock = FALSE], "cycle_complete"), {"cycle_complete"})
        BY <1>0 DEF StGoIdle, Request, Passes, IsMachine, Fields
    <2>3. ASSUME NEW z, m' = [m EXCEPT !.segs = @ - 1, !.execBlock = TRUE, !.z = z]
          PROVE  Passes(m, m', {})
        BY <1>0, <2>3 DEF Passes, IsMachine, Fields
    <2> QED BY <1>1, <2>1, <2>2, <2>3
<1> QED BY <1>3, <1>4, <1>5, <1>6, <1>8, <1>9, <1>10

LEMMA ResetKept ==
    ASSUME ResetInv, CommandInv, [Next]_vars
    PROVE  ResetStep
<1>1. CASE Foreground
    BY <1>1, ExecutivePasses, CallersPass, MainPasses, CommandsPass DEF Foreground
<1>2. CASE Environment
    BY <1>2, InterruptsPass, MainPasses DEF Environment
<1>3. CASE Stepper
    BY <1>3, InterruptsPass
<1>4. CASE UNCHANGED vars
    BY <1>4 DEF vars, ResetStep, ResetInv, ResetMerged, TakesReset
<1> QED BY <1>1, <1>2, <1>3, <1>4 DEF Next

\* A reset request, from a key, the e-stop or a limit switch (mc_reset), is handled
\* as one however it interleaves with the executive, with all the delays of the state
\* handlers, which execute requests themselves, and with stops: no step drops it, before or
\* after it was fetched, but that of the requests which a stop merged while it waited
\* for the motion to end (protocol.c:585).
THEOREM ResetsAreHandled == Spec => ResetNotSwallowed
<1>1. Init => ResetInv
    BY DEF Init, ResetInv, Handling, Stops, IsMachine, Fields, States, Locked, PowerUp
<1>2. ResetInv /\ CommandInv /\ [Next]_vars => ResetInv'
    BY ResetKept DEF ResetStep
<1>3. ResetInv /\ CommandInv /\ [Next]_vars
        => [/\ TakesReset => ResetTaken \/ phase = "update"
            /\ phase # "update" /\ phase' = "update" /\ "reset" \in exec'
                 => phase = "stopping" /\ "reset" \in m.rt /\ "reset" \notin exec]_vars
    BY ResetKept DEF ResetStep, ResetMerged
<1> QED BY <1>1, <1>2, <1>3, CommandInvariant, PTL DEF Spec, ResetNotSwallowed

-----------------------------------------------------------------------------
(* Doors, alarms and sleep, without parking and delays                     *)

Simple == ~ParkingEnabled /\ NoDelays

Off(n) == ~n.spindle /\ ~n.coolant

CalmHandlers == {"idle", "cycle", "await_hold", "noop", "await_motion_cancel", "await_resume",
                 "await_toolchanged"}

\* Between two handlers: no restore or retraction is under way.
Calm(n) ==
    IsMachine(n) /\ n.handler \in CalmHandlers /\ ~n.motion /\ ~n.restart /\ n.call = NoDelay

\* What a machine whose door was opened, that is in alarm or asleep is like.
Sound(n) ==
    /\ Calm(n)
    /\ n.state \in Locked => n.handler = "noop" /\ Off(n)
    /\ n.state = "sleep" => n.handler = "noop" /\ Off(n) /\ ~n.stepping /\ n.suspend
    /\ n.state = "door" => n.suspend /\ n.handler \in {"await_hold", "await_resume"}
    /\ n.state = "door" /\ n.handler = "await_resume" =>
          /\ ~n.spindle /\ (n.coolant => KeepCoolantOn)
          /\ n.spindleStop \notin {"initiate", "restore"}

LEMMA SetSound ==
    ASSUME NEW n, Sound(n)
    PROVE  /\ Sound(SetIdle(n)) /\ SetIdle(n).state = "idle"
           /\ Sound(SetToolChange(n)) /\ Sound(SetJog(n))
           /\ Sound(ClearAlarm(n)) /\ ClearAlarm(n).state = n.state
           /\ n.state = "jog" => Sound(JogDropped(n)) /\ JogDropped(n).state = "jog"
<1>1. ASSUME NEW k, Calm(k), k.state \in {"idle", "tool_change", "jog"}
      PROVE  Sound(k) /\ Sound(ClearAlarm(k)) /\ ClearAlarm(k).state = k.state
    BY <1>1 DEF Sound, Calm, CalmHandlers, IsMachine, Fields, Locked, ClearAlarm
<1>2. Sound(ClearAlarm(n)) /\ ClearAlarm(n).state = n.state
    <2>1. CASE n.state \in Locked
        BY <2>1 DEF ClearAlarm, Locked
    <2>2. CASE n.state \notin Locked
        BY <2>2 DEF Sound, Calm, Off, CalmHandlers, IsMachine, Fields, Locked, ClearAlarm
    <2> QED BY <2>1, <2>2
<1>3. Sound(SetIdle(n)) /\ SetIdle(n).state = "idle"
    <2> DEFINE k == [n EXCEPT !.suspend = FALSE, !.exHold = FALSE, !.exSys = FALSE,
                              !.endMotion = FALSE, !.parking = "door_closed", !.holding = "no",
                              !.state = "idle", !.pending = "idle", !.active = FALSE,
                              !.motion = FALSE, !.restart = FALSE, !.restoring = FALSE,
                              !.handler = "idle"]
    <2>1. SetIdle(n) = IF n.state = "idle" THEN n ELSE ClearAlarm(k)
        BY DEF SetIdle
    <2>2. Calm(k) /\ k.state = "idle"
        BY DEF Sound, Calm, CalmHandlers, IsMachine, Fields, States, Locked
    <2> HIDE DEF k
    <2> QED BY <1>1, <2>1, <2>2
<1>4. Sound(SetToolChange(n))
    <2> DEFINE k == [n EXCEPT !.state = "tool_change", !.handler = "await_toolchanged"]
    <2>1. SetToolChange(n) = IF n.state = "tool_change" THEN n ELSE ClearAlarm(k)
        BY DEF SetToolChange
    <2>2. Calm(k) /\ k.state = "tool_change"
        BY DEF Sound, Calm, CalmHandlers, IsMachine, Fields
    <2> HIDE DEF k
    <2> QED BY <1>1, <2>1, <2>2
<1>5. Sound(SetJog(n))
    <2> DEFINE p == IF n.state = "tool_change" THEN "tool_change" ELSE n.pending
               k == [n EXCEPT !.pending = p, !.state = "jog", !.handler = "cycle"]
    <2>1. SetJog(n) = IF n.state = "jog" THEN n ELSE ClearAlarm(k)
        BY DEF SetJog
    <2>2. p \in States \ Locked
        BY DEF Sound, Calm, IsMachine, States, Locked
    <2> HIDE DEF p
    <2>3. Calm(k) /\ k.state = "jog"
        BY <2>2 DEF Sound, Calm, CalmHandlers, IsMachine, Fields
    <2> HIDE DEF k
    <2> QED BY <1>1, <2>1, <2>3
<1>6. n.state = "jog" => Sound(JogDropped(n)) /\ JogDropped(n).state = "jog"
    <2>1. n.state = "jog" => Calm(JogDropped(n)) /\ JogDropped(n).state = "jog"
        BY DEF Sound, Calm, CalmHandlers, IsMachine, Fields, JogDropped, StReset
    <2> QED BY <1>1, <2>1
<1> QED BY <1>2, <1>3, <1>4, <1>5, <1>6

LEMMA SetCycleSound ==
    ASSUME NEW n, Sound(n)
    PROVE  Sound(SetCycle(n)) /\ (n.state = "idle" => SetCycle(n).state \in {"idle", "cycle"})
<1> DEFINE cycle == [n EXCEPT !.state = "cycle"]
           prepared == PrepAtRest(cycle)
           set == [StWakeUp(prepared) EXCEPT !.handler = "cycle"]
<1>1. SetCycle(n) = IF n.state = "cycle" THEN n
                    ELSE IF n.state = "idle" /\ n.blocks > 0 THEN ClearAlarm(set) ELSE ClearAlarm(n)
    BY DEF SetCycle
<1>2. /\ IsMachine(prepared) /\ prepared.state = "cycle" /\ prepared.motion = n.motion
      /\ prepared.restart = n.restart /\ prepared.call = n.call
    BY DEF Sound, Calm, IsMachine, Fields, PrepAtRest, PrepBlocked, Loaded, PrepRun, EndOfBlock, Discarded
<1> HIDE DEF prepared
<1>3. Sound(set) /\ set.state = "cycle"
    BY <1>2 DEF Sound, Calm, Off, CalmHandlers, IsMachine, Fields, Locked, StWakeUp
<1> HIDE DEF set
<1> QED BY <1>1, <1>3, SetSound

LEMMA InitiateHoldSound ==
    ASSUME NEW n, Calm(n), NEW new \in {"hold", "door", "sleep"}
    PROVE  LET h == InitiateHold(n, new) IN
           /\ Calm(h) /\ h.state = n.state /\ h.suspend
           /\ h.state = "cycle" => h.handler = "await_hold"
           /\ h.state # "jog" => h.pending = "idle"
           /\ h.state \notin {"cycle", "jog"} => h.handler = n.handler
<1> DEFINE p == IF n.state = "jog" THEN new ELSE "idle"
           cool == n.gcCoolant \/ (n.blocks = 0 /\ n.coolant)
           remembered == [n EXCEPT !.rcSpindle = n.gcSpindle, !.rcCoolant = cool,
                                   !.suspend = TRUE, !.pending = p]
           slowed == IF remembered.state \in {"cycle", "jog"}
                     THEN [StReload(remembered) EXCEPT !.exHold = TRUE, !.handler = "await_hold"]
                     ELSE remembered
           held == [slowed EXCEPT !.holding = "pending"]
           retracting == [slowed EXCEPT !.parking = "retracting", !.active = FALSE, !.motion = FALSE,
                                        !.restart = FALSE, !.restoring = FALSE]
<1>1. InitiateHold(n, new) = IF new = "hold" THEN held ELSE retracting
    <2>1. remembered.state = n.state
        BY DEF Sound, Calm, IsMachine, Fields
    <2> QED BY <2>1 DEF InitiateHold
<1>2. p \in States \ Locked
    BY DEF States, Locked
<1> HIDE DEF cool
<1>3. /\ Calm(remembered) /\ remembered.state = n.state /\ remembered.suspend
      /\ remembered.pending = p /\ remembered.handler = n.handler
    <2> HIDE DEF p
    <2> QED BY <1>2 DEF Sound, Calm, CalmHandlers, IsMachine, Fields
<1> HIDE DEF remembered
<1>4. /\ Calm(slowed) /\ slowed.state = n.state /\ slowed.suspend /\ slowed.pending = p
      /\ slowed.handler = IF n.state \in {"cycle", "jog"} THEN "await_hold" ELSE n.handler
    BY <1>3 DEF Calm, CalmHandlers, IsMachine, Fields, StReload
<1> HIDE DEF slowed
<1>5. /\ Calm(held) /\ held.state = n.state /\ held.suspend /\ held.pending = p
      /\ held.handler = IF n.state \in {"cycle", "jog"} THEN "await_hold" ELSE n.handler
    BY <1>4 DEF Calm, CalmHandlers, IsMachine, Fields
<1>6. /\ Calm(retracting) /\ retracting.state = n.state /\ retracting.suspend /\ retracting.pending = p
      /\ retracting.handler = IF n.state \in {"cycle", "jog"} THEN "await_hold" ELSE n.handler
    BY <1>4 DEF Calm, CalmHandlers, IsMachine, Fields
<1> HIDE DEF held, retracting
<1> QED BY <1>1, <1>5, <1>6

LEMMA SetHoldSound ==
    ASSUME NEW n, Sound(n), n.state \notin Locked \cup {"sleep", "door"}
    PROVE  Sound(SetHold(n))
<1> DEFINE h == InitiateHold(n, "hold")
           held == IF HoldAwaitsMotion(n) THEN h
                   ELSE [h EXCEPT !.holding = "complete", !.handler = "await_resume"]
<1>1. SetHold(n) = IF n.state = "hold" THEN n ELSE IF n.state = "jog" THEN ClearAlarm(n)
                   ELSE ClearAlarm([held EXCEPT !.state = "hold"])
    BY DEF SetHold
<1>2. Calm(h)
    BY InitiateHoldSound DEF Sound
<1> HIDE DEF h
<1>3. Sound([held EXCEPT !.state = "hold"])
    BY <1>2 DEF Sound, Calm, CalmHandlers, IsMachine, Fields, Locked
<1> QED BY <1>1, <1>3, SetSound

\* The end of a hold: whatever the machine was held for, it waits to be resumed, and in
\* the door state everything is off.
LEMMA AwaitHoldCompleteSound ==
    ASSUME NEW n, Calm(n), ~ParkingEnabled, n.state \notin Locked
    PROVE  LET h == AwaitHoldComplete(n) IN
           /\ Calm(h) /\ h.state = n.state /\ h.suspend = n.suspend /\ h.handler = "await_resume"
           /\ h.state = "door" => ~h.spindle /\ (h.coolant => KeepCoolantOn) /\ h.spindleStop = "none"
<1> DEFINE stop == StReload([n EXCEPT !.exHold = FALSE, !.exSys = FALSE, !.endMotion = FALSE])
           target == [stop EXCEPT !.spindleStop = "none", !.restoreZ = RestoreTarget(stop),
                                  !.active = @ \/ ParkingEnabled]
           off == StopAccessories(target)
<1>1. AwaitHoldComplete(n) =
            CASE n.state = "tool_change"       -> HoldComplete(DeEnergized(stop))
              [] n.state \in {"sleep", "door"} -> HoldComplete(off)
              [] OTHER                         -> HoldComplete(stop)
    BY DEF AwaitHoldComplete
<1>2. Calm(stop) /\ stop.state = n.state /\ stop.suspend = n.suspend
    BY DEF Calm, CalmHandlers, IsMachine, Fields, StReload
<1> HIDE DEF stop
<1>3. /\ Calm(target) /\ target.state = n.state /\ target.suspend = n.suspend
      /\ target.spindleStop = "none"
    BY <1>2 DEF Calm, CalmHandlers, IsMachine, Fields
<1> HIDE DEF target
<1>4. /\ Calm(off) /\ off.state = n.state /\ off.suspend = n.suspend
      /\ off.spindleStop = "none" /\ ~off.spindle /\ (off.coolant => KeepCoolantOn)
    BY <1>3 DEF Calm, CalmHandlers, IsMachine, Fields, StopAccessories
<1> HIDE DEF off
<1>5. ASSUME NEW k, Calm(k), k.state = n.state, k.suspend = n.suspend,
             k.state = "door" => ~k.spindle /\ (k.coolant => KeepCoolantOn) /\ k.spindleStop = "none"
      PROVE  LET h == HoldComplete(k) IN
             /\ Calm(h) /\ h.state = n.state /\ h.suspend = n.suspend /\ h.handler = "await_resume"
             /\ h.state = "door" => ~h.spindle /\ (h.coolant => KeepCoolantOn) /\ h.spindleStop = "none"
    BY <1>5 DEF Calm, CalmHandlers, IsMachine, Fields, HoldComplete
<1>6. Calm(DeEnergized(stop)) /\ DeEnergized(stop).state = n.state /\ DeEnergized(stop).suspend = n.suspend
    BY <1>2 DEF Calm, CalmHandlers, IsMachine, Fields, DeEnergized
<1>7. CASE n.state = "tool_change"
    BY <1>1, <1>5, <1>6, <1>7
<1>8. CASE n.state \in {"sleep", "door"}
    BY <1>1, <1>4, <1>5, <1>8
<1>9. CASE n.state \notin {"tool_change", "sleep", "door"}
    BY <1>1, <1>2, <1>5, <1>9
<1> QED BY <1>7, <1>8, <1>9

LEMMA SetDoorOrSleepSound ==
    ASSUME NEW n, Sound(n), ~ParkingEnabled, NEW new \in {"door", "sleep"},
           n.state = "door" \/ n.state \notin Locked \cup {"sleep", "door"} \/ new = "door"
    PROVE  Sound(SetDoorOrSleep(n, new)) /\ SetDoorOrSleep(n, new).state \in {new, n.state}
<1> DEFINE r == [n EXCEPT !.parking = "retracting"]
           h == InitiateHold(r, new)
           moved == [h EXCEPT !.state = new]
           done == AwaitHoldComplete(moved)
           entered == IF HoldAwaitsMotion(n) THEN moved ELSE IF h.pending # new THEN done ELSE h
           asleep == EnterSleep(entered)
<1>1. CASE SetDoorOrSleep(n, new) = n
    BY <1>1
<1>2. CASE SetDoorOrSleep(n, new) # n
    <2>1. /\ n.state \notin Locked \cup {"sleep"} /\ n.state # new
          /\ SetDoorOrSleep(n, new) =
                ClearAlarm(IF entered.state = "sleep" /\ entered.handler # "await_waypoint_retract"
                           THEN asleep ELSE entered)
        <3>1. n.state # new /\ ~(new = "door" /\ n.state \in {"alarm", "estop", "sleep"})
            BY <1>2 DEF SetDoorOrSleep
        <3>2. n.state \notin Locked \cup {"sleep"}
            BY <3>1 DEF Locked
        <3> QED BY <3>1, <3>2 DEF SetDoorOrSleep
    <2>2. /\ Calm(r) /\ r.state = n.state /\ r.suspend = n.suspend /\ r.handler = n.handler
        BY DEF Sound, Calm, CalmHandlers, IsMachine, Fields
    <2>3. /\ Calm(h) /\ h.state = n.state /\ h.suspend
          /\ h.state = "cycle" => h.handler = "await_hold"
          /\ h.state # "jog" => h.pending # new
          /\ h.state = "door" => h.handler \in {"await_hold", "await_resume"}
        <3> HIDE DEF r
        <3> QED BY <2>1, <2>2, InitiateHoldSound DEF Sound
    <2> HIDE DEF r, h
    <2>4. Calm(moved) /\ moved.state = new /\ moved.suspend /\ moved.handler = h.handler
        BY <2>3 DEF Calm, CalmHandlers, IsMachine, Fields
    <2> HIDE DEF moved
    <2>5. /\ Calm(done) /\ done.state = new /\ done.suspend /\ done.handler = "await_resume"
          /\ done.state = "door" => ~done.spindle /\ (done.coolant => KeepCoolantOn) /\ done.spindleStop = "none"
        BY <2>4, AwaitHoldCompleteSound DEF Locked
    <2> HIDE DEF done
    <2>6. /\ Calm(entered) /\ entered.suspend /\ entered.state \in {new, n.state}
          /\ entered.state = "door" => entered.handler \in {"await_hold", "await_resume"}
          /\ entered.state = "door" /\ entered.handler = "await_resume"
                => ~entered.spindle /\ (entered.coolant => KeepCoolantOn) /\ entered.spindleStop = "none"
        BY <2>1, <2>3, <2>4, <2>5 DEF HoldAwaitsMotion
    <2> HIDE DEF entered
    <2>7. entered.state = "sleep" => Sound(asleep) /\ asleep.state = "sleep"
        BY <2>6 DEF Sound, Calm, Off, CalmHandlers, IsMachine, Fields, Locked, EnterSleep, DeEnergized, StGoIdle
    <2>8. entered.state # "sleep" => Sound(entered)
        BY <2>1, <2>6 DEF Sound, Locked
    <2>9. entered.handler # "await_waypoint_retract"
        BY <2>6 DEF Calm, CalmHandlers
    <2> HIDE DEF asleep
    <2> QED BY <2>1, <2>6, <2>7, <2>8, <2>9, SetSound
<1> QED BY <1>1, <1>2

LEMMA StateSetSound ==
    ASSUME NEW n, Sound(n), ~ParkingEnabled, n.state \notin Locked \cup {"sleep", "door"},
           NEW new \in States \ Locked
    PROVE  Sound(StateSet(n, new))
BY SetSound, SetCycleSound, SetHoldSound, SetDoorOrSleepSound DEF StateSet, States, Locked

LEMMA CompleteSound ==
    ASSUME NEW n, Sound(n), ~ParkingEnabled, NEW tail
    PROVE  /\ Sound(CycleComplete(n)) /\ Sound(HandlerComplete(n, tail))
           /\ n.handler = "await_resume" => HandlerComplete(n, tail) = n
<1>1. Sound(CycleComplete(n))
    BY SetSound DEF CycleComplete
<1>2. CASE n.handler = "cycle"
    BY <1>1, <1>2 DEF HandlerComplete
<1>3. CASE n.handler = "await_hold"
    <2>1. n.state \notin Locked \cup {"sleep"}
        BY <1>3 DEF Sound
    <2>2. Sound(AwaitHoldComplete(n))
        BY <2>1, AwaitHoldCompleteSound DEF Sound, Locked
    <2> QED BY <1>1, <1>3, <2>2 DEF HandlerComplete
<1>4. CASE n.handler = "await_motion_cancel"
    <2> DEFINE k == IF n.state = "jog" THEN JogDropped(n) ELSE n
    <2>1. n.state \notin Locked \cup {"sleep", "door"}
        BY <1>4 DEF Sound
    <2>2. Sound(k) /\ k.state = n.state
        BY SetSound
    <2>3. n.pending \in States \ Locked
        BY DEF Sound, Calm, IsMachine
    <2> HIDE DEF k
    <2>4. Sound(StateSet(k, n.pending))
        BY <2>1, <2>2, <2>3, StateSetSound
    <2>5. Sound(AwaitMotionCancelComplete(n))
        BY <2>4, SetSound DEF AwaitMotionCancelComplete, ToolChangeNext, k
    <2> QED BY <1>1, <1>4, <2>5 DEF HandlerComplete
<1>5. CASE n.handler = "await_resume"
    BY <1>1, <1>5 DEF HandlerComplete, AwaitResumeComplete
<1>6. CASE n.handler \in {"idle", "noop", "await_toolchanged"}
    BY <1>1, <1>6 DEF HandlerComplete
<1> QED BY <1>2, <1>3, <1>4, <1>5, <1>6 DEF Sound, Calm, CalmHandlers

LEMMA RestartCycleSound ==
    ASSUME NEW n, Sound(n)
    PROVE  Sound(RestartCycle(n)) /\ (n.state \in {"sleep", "door"} => RestartCycle(n) = n)
<1> DEFINE idle == SetIdle(n)
           k == [idle EXCEPT !.exHold = n.exHold, !.exSys = n.exSys, !.endMotion = n.endMotion]
<1>1. RestartCycle(n) = IF n.state \in {"sleep", "door"} THEN n ELSE SetCycle(k)
    BY DEF RestartCycle
<1>2. Sound(idle) /\ idle.state = "idle"
    BY SetSound
<1> HIDE DEF idle
<1>3. Sound(k)
    BY <1>2 DEF Sound, Calm, CalmHandlers, IsMachine, Fields, Locked
<1> QED BY <1>1, <1>3, SetCycleSound

\* state_restore from the safety door, in one go.
LEMMA RestoreCompleteSound ==
    ASSUME NEW n, IsMachine(n), ~n.motion, n.call = NoDelay, n.state = "door", Simple, NEW tail
    PROVE  Sound(RestoreComplete(n, tail))
<1> DEFINE sys == SysMotionDone(n)
           r == [sys EXCEPT !.restart = FALSE, !.restoring = TRUE, !.handler = "await_resumed"]
           differs == r.spindle # r.rcSpindle /\ ~Aborted(r)
           spun == IF differs THEN r.rcSpindle ELSE r.spindle
           on == [r EXCEPT !.spindle = spun]
           wet == IF on.gcCoolant # on.coolant THEN GcCoolant(on, on.rcCoolant) ELSE on
           p == [wet EXCEPT !.restoring = FALSE, !.spindleStop = "none"]
           resumed == [p EXCEPT !.parking = "door_closed", !.active = FALSE, !.motion = FALSE,
                                !.restart = FALSE, !.restoring = FALSE]
           normal == IF ~resumed.exSys THEN resumed
                     ELSE StReload([resumed EXCEPT !.exHold = FALSE, !.exSys = FALSE, !.endMotion = FALSE])
           idle == SetIdle(normal)
<1> DEFINE Door(k) == IsMachine(k) /\ ~k.motion /\ k.call = NoDelay /\ k.state = "door"
<1>1. Door(sys)
    BY DEF IsMachine, Fields, SysMotionDone, StReload
<1>2. RestoreComplete(n, tail) = RestoreCoolant(on, tail)
    BY DEF RestoreComplete, Simple, NoDelays
<1> HIDE DEF sys
<1>3. Door(r) /\ ~r.restart /\ r.handler = "await_resumed"
    BY <1>1 DEF IsMachine, Fields
<1> HIDE DEF r, spun
<1>4. Door(on) /\ ~on.restart /\ on.handler = "await_resumed"
    BY <1>3 DEF IsMachine, Fields
<1>5. RestoreCoolant(on, tail) = RestorePosition(wet, tail)
    BY DEF RestoreCoolant, Simple, NoDelays
<1> HIDE DEF on
<1>6. Door(wet) /\ ~wet.restart /\ wet.handler = "await_resumed"
    BY <1>4 DEF IsMachine, Fields, GcCoolant
<1> HIDE DEF wet
<1>7. Door(p) /\ ~p.restart /\ p.handler = "await_resumed"
    BY <1>6 DEF IsMachine, Fields
<1>8. RestorePosition(wet, tail) = ReturnTo(HandlerComplete(p, tail), tail)
    BY <1>7 DEF RestorePosition
<1> HIDE DEF p
<1>9. HandlerComplete(p, tail) = SetCycle(idle)
    BY <1>7 DEF HandlerComplete, AwaitResumedComplete
<1>10. Door(resumed) /\ ~resumed.restart
    BY <1>7 DEF IsMachine, Fields
<1> HIDE DEF resumed
<1>11. Door(normal) /\ ~normal.restart
    BY <1>10 DEF IsMachine, Fields, StReload
<1> HIDE DEF normal
<1>12. Sound(idle)
    BY ZenonT(60), <1>11 DEF Sound, Calm, CalmHandlers, IsMachine, Fields, States, Locked, SetIdle, ClearAlarm
<1> HIDE DEF idle
<1>13. Sound(SetCycle(idle))
    BY <1>12, SetCycleSound
<1> QED BY <1>2, <1>5, <1>8, <1>9, <1>13, RestartCycleSound DEF ReturnTo

LEMMA HoldRestoreSound ==
    ASSUME NEW n, Sound(n), n.state \notin Locked \cup {"sleep", "door"}, NoDelays
    PROVE  Sound(HoldRestore(n))
<1> DEFINE differs == n.spindle # n.rcSpindle /\ ~Aborted(n)
           spun == IF differs THEN n.rcSpindle ELSE n.spindle
           stop == IF n.state = "hold" /\ n.spindleStop = "none" THEN "cycle" ELSE n.spindleStop
           on == [n EXCEPT !.spindle = spun, !.spindleStop = stop]
           wet == IF on.rcCoolant # on.coolant THEN GcCoolant(on, on.rcCoolant) ELSE on
           k == [wet EXCEPT !.spindleStop = "none"]
<1>1. HoldRestore(n) = HoldRestoreCoolant(on)
    BY DEF HoldRestore, NoDelays
<1> HIDE DEF spun, stop
<1>2. Sound(on) /\ on.state = n.state
    BY DEF Sound, Calm, CalmHandlers, IsMachine, Fields
<1>3. HoldRestoreCoolant(on) = RestartCycle(k)
    BY DEF HoldRestoreCoolant, HoldRestored, NoDelays
<1> HIDE DEF on
<1>4. Sound(wet) /\ wet.state = n.state
    BY <1>2 DEF Sound, Calm, CalmHandlers, IsMachine, Fields, GcCoolant
<1> HIDE DEF wet
<1>5. Sound(k)
    BY <1>4 DEF Sound, Calm, CalmHandlers, IsMachine, Fields
<1> QED BY <1>1, <1>3, <1>5, RestartCycleSound

\* state_await_resume: the machine resumes from the safety door with the door closed.
LEMMA AwaitResumeSound ==
    ASSUME NEW n, Sound(n), n.handler = "await_resume", Simple, NEW rt
    PROVE  /\ Sound(AwaitResume(n, rt))
           /\ n.state = "door" /\ n.door =>
                 AwaitResume(n, rt).handler \notin {"restore", "await_resumed", "cycle"}
<1> DEFINE s == IF "sleep" \in rt THEN SetDoorOrSleep(n, "sleep") ELSE n
           resumed == CASE s.state = "sleep"       -> s
                        [] s.state = "tool_change" -> RestartCycle(s)
                        [] s.state = "door"        -> ResumeFromDoor(s)
                        [] OTHER                   -> HoldRestore(s)
           ajar == [s EXCEPT !.parking = DoorState(s)]
           closed == [s EXCEPT !.parking = "door_closed"]
           act == IF "safety_door" \in rt THEN ajar
                  ELSE IF "cycle_start" \in rt THEN resumed
                  ELSE IF "door_closed" \in rt /\ ~s.door THEN closed
                  ELSE s
<1>1. AwaitResume(n, rt) = act
    <2> HIDE DEF s
    <2>1. AwaitResumeComplete(n) = n
        BY DEF AwaitResumeComplete, Simple
    <2> QED BY <2>1 DEF AwaitResume, Simple, s
<1>2. n.state \notin Locked \cup {"sleep"}
    BY DEF Sound
<1>3. Sound(s) /\ s.state \in {"sleep", n.state} /\ s.state \notin Locked /\ s.door = n.door
    <2>1. Kept(n, SetDoorOrSleep(n, "sleep"))
        BY SetDoorOrSleepKept DEF Sound, Calm
    <2> QED BY <1>2, <2>1, SetDoorOrSleepSound DEF Simple, Kept, Framed
<1> HIDE DEF s
<1>4. Sound(ajar) /\ ajar.handler = s.handler /\ Sound(closed) /\ closed.handler = s.handler
    BY <1>3 DEF Sound, Calm, Off, CalmHandlers, IsMachine, Fields
<1>5. s.state = "door" => ResumeFromDoor(s) = IF s.door THEN s ELSE RestoreComplete(
            [s EXCEPT !.handler = "restore", !.parking = "resuming", !.restart = @ /\ ~s.motion], TRUE)
    BY <1>3 DEF ResumeFromDoor, Sound, Calm
<1>6. ASSUME s.state = "door"
      PROVE  Sound(ResumeFromDoor(s)) /\ (s.door => ResumeFromDoor(s) = s)
    <2> DEFINE again == s.restart /\ ~s.motion
               k == [s EXCEPT !.handler = "restore", !.parking = "resuming", !.restart = again]
    <2> HIDE DEF again
    <2>1. IsMachine(k) /\ ~k.motion /\ k.call = NoDelay /\ k.state = "door"
        BY <1>3, <1>6 DEF Sound, Calm, IsMachine, Fields
    <2>2. ResumeFromDoor(s) = IF s.door THEN s ELSE RestoreComplete(k, TRUE)
        BY <1>5, <1>6 DEF again
    <2> HIDE DEF k
    <2> QED BY <1>3, <2>1, <2>2, RestoreCompleteSound
<1>7. Sound(resumed) /\ (s.state \in {"sleep", "door"} /\ s.door => resumed = s)
    BY <1>3, <1>6, RestartCycleSound, HoldRestoreSound DEF Simple
<1> HIDE DEF resumed, ajar, closed
<1>8. Sound(act)
    BY <1>3, <1>4, <1>7
<1>9. s.state \in {"sleep", "door"} /\ s.door => act.handler = s.handler
    BY <1>4, <1>7
<1>10. n.state = "door" => s.state \in {"sleep", "door"} /\ s.handler \in {"noop", "await_hold", "await_resume"}
    BY <1>3 DEF Sound
<1> HIDE DEF act
<1> QED BY <1>1, <1>3, <1>8, <1>9, <1>10

LEMMA StateIdleSound ==
    ASSUME NEW n, Sound(n), n.handler = "idle", Simple, NEW rt
    PROVE  Sound(StateIdle(n, rt))
<1> DEFINE start == IF "cycle_start" \in rt THEN SetCycle(n) ELSE n
           hold == IF "feed_hold" \in rt THEN SetHold(start) ELSE start
           tool == IF "tool_change" \in rt THEN SetToolChange([hold EXCEPT !.readSuspended = TRUE]) ELSE hold
<1> DEFINE Free(k) == Sound(k) /\ k.state \notin Locked \cup {"sleep", "door"}
<1>1. StateIdle(n, rt) = IF "sleep" \in rt THEN SetDoorOrSleep(tool, "sleep") ELSE tool
    BY DEF StateIdle
<1>2. Free(n)
    BY DEF Sound
<1>4. ASSUME NEW k, Free(k)
      PROVE  Free(SetCycle(k))
    <2>1. Sound(SetCycle(k))
        BY <1>4, SetCycleSound
    <2>2. SetCycle(k).state \in {k.state, "cycle"}
        <3> DEFINE p == PrepAtRest([k EXCEPT !.state = "cycle"])
        <3>1. p.state = "cycle" /\ DOMAIN p = Fields
            BY <1>4 DEF Sound, Calm, IsMachine, Fields, PrepAtRest, PrepBlocked, Loaded, PrepRun,
                        EndOfBlock, Discarded
        <3> HIDE DEF p
        <3>2. ClearAlarm([StWakeUp(p) EXCEPT !.handler = "cycle"]).state = "cycle"
            BY <3>1 DEF Fields, ClearAlarm, StWakeUp
        <3> QED BY <1>4, <3>2, SetSound DEF SetCycle, p
    <2> QED BY <1>4, <2>1, <2>2 DEF Locked
<1>5. ASSUME NEW k, Free(k)
      PROVE  Free(SetHold(k))
    <2>1. Sound(SetHold(k))
        BY <1>5, SetHoldSound
    <2>2. SetHold(k).state \in {k.state, "hold"}
        <3> DEFINE i == InitiateHold(k, "hold")
                   h == IF HoldAwaitsMotion(k) THEN i
                        ELSE [i EXCEPT !.holding = "complete", !.handler = "await_resume"]
        <3>1. Calm(i)
            BY <1>5, InitiateHoldSound DEF Sound
        <3> HIDE DEF i
        <3>2. DOMAIN h = Fields
            BY <3>1 DEF Calm, IsMachine
        <3>3. SetHold(k) = IF k.state = "hold" THEN k ELSE IF k.state = "jog" THEN ClearAlarm(k)
                           ELSE ClearAlarm([h EXCEPT !.state = "hold"])
            BY DEF SetHold, i
        <3> HIDE DEF h
        <3>4. ClearAlarm([h EXCEPT !.state = "hold"]).state = "hold"
            BY <3>2 DEF Fields, ClearAlarm
        <3> QED BY <1>5, <3>3, <3>4, SetSound
    <2> QED BY <1>5, <2>1, <2>2 DEF Locked
<1>6. ASSUME NEW k, Free(k)
      PROVE  LET t == [k EXCEPT !.readSuspended = TRUE]
             IN Free(t) /\ Sound(SetToolChange(t)) /\ SetToolChange(t).state = "tool_change"
    <2> DEFINE t == [k EXCEPT !.readSuspended = TRUE]
    <2>1. Free(t)
        BY <1>6 DEF Sound, Calm, IsMachine, Fields
    <2> HIDE DEF t
    <2>2. Sound(SetToolChange(t)) /\ SetToolChange(t).state = "tool_change"
        <3>1. DOMAIN t = Fields
            BY <2>1 DEF Sound, Calm, IsMachine
        <3>2. SetToolChange(t).state = "tool_change"
            BY <3>1 DEF SetToolChange, ClearAlarm, Fields
        <3> QED BY <2>1, <3>2, SetSound
    <2> QED BY <2>1, <2>2 DEF t
<1>7. Free(start)
    BY <1>2, <1>4
<1> HIDE DEF start
<1>8. Free(hold)
    BY <1>5, <1>7
<1> HIDE DEF hold
<1>9. Free(tool)
    BY <1>6, <1>8 DEF Locked
<1> HIDE DEF tool
<1> QED BY <1>1, <1>9, SetDoorOrSleepSound DEF Simple

LEMMA StateCycleSound ==
    ASSUME NEW n, Sound(n), n.handler = "cycle", NEW rt
    PROVE  Sound(StateCycle(n, rt))
<1> DEFINE Free(k) == Sound(k) /\ k.state \notin Locked \cup {"sleep", "door"}
           tool == IF "tool_change" \in rt THEN [n EXCEPT !.readSuspended = TRUE] ELSE n
           end == IF "cycle_complete" \in rt THEN CycleComplete(tool) ELSE tool
           stopped == [StReload(end) EXCEPT !.suspend = TRUE, !.exHold = TRUE,
                                            !.handler = "await_motion_cancel"]
           stop == IF "motion_cancel" \in rt THEN stopped ELSE end
<1>1. StateCycle(n, rt) = IF rt = {"cycle_start"} THEN n
                          ELSE IF "feed_hold" \in rt THEN SetHold(stop) ELSE stop
    BY DEF StateCycle
<1>2. Free(tool)
    BY DEF Sound, Calm, CalmHandlers, IsMachine, Fields, Locked
<1> HIDE DEF tool
<1>3. Free(CycleComplete(tool))
    <2>1. SetIdle(tool).state = "idle" /\ Sound(CycleComplete(tool))
        BY <1>2, SetSound DEF CycleComplete
    <2>2. SetToolChange(tool).state = "tool_change"
        <3>1. DOMAIN tool = Fields
            BY <1>2 DEF Sound, Calm, IsMachine
        <3> QED BY <3>1 DEF SetToolChange, ClearAlarm, Fields
    <2> QED BY <2>1, <2>2 DEF CycleComplete, Locked
<1>4. Free(end)
    BY <1>2, <1>3
<1> HIDE DEF end
<1>5. Free(stopped)
    BY <1>4 DEF Sound, Calm, CalmHandlers, IsMachine, Fields, Locked, StReload
<1> HIDE DEF stopped
<1>6. Free(stop)
    BY <1>4, <1>5
<1> HIDE DEF stop
<1> QED BY <1>1, <1>6, SetHoldSound

LEMMA AwaitToolchangedSound ==
    ASSUME NEW n, Sound(n), NEW rt
    PROVE  Sound(AwaitToolchanged(n, rt))
<1> DEFINE read == n.readSuspended /\ n.toolChange
           next == IF n.toolChange THEN "tool_change" ELSE "idle"
           k == [n EXCEPT !.readSuspended = read, !.pending = next]
<1>1. AwaitToolchanged(n, rt) = IF "cycle_start" \notin rt THEN n ELSE SetCycle(SetIdle(k))
    BY DEF AwaitToolchanged
<1>2. next \in States \ Locked
    BY DEF States, Locked
<1> HIDE DEF read, next
<1>3. Sound(k)
    BY <1>2 DEF Sound, Calm, Off, CalmHandlers, IsMachine, Fields
<1> HIDE DEF k
<1> QED BY <1>1, <1>3, SetSound, SetCycleSound

LEMMA HandleSound ==
    ASSUME NEW n, Sound(n), Simple, NEW rt
    PROVE  /\ Sound(Handle(n, rt))
           /\ n.state = "door" /\ n.handler = "await_resume" /\ n.door =>
                 Handle(n, rt).handler \notin {"restore", "await_resumed", "cycle"}
<1>1. CASE n.handler = "idle"
    BY <1>1, StateIdleSound DEF Handle
<1>2. CASE n.handler = "cycle"
    BY <1>2, StateCycleSound DEF Handle
<1>3. CASE n.handler = "await_toolchanged"
    BY <1>3, AwaitToolchangedSound DEF Handle
<1>4. CASE n.handler = "await_resume"
    BY <1>4, AwaitResumeSound DEF Handle
<1>5. CASE n.handler \in {"await_hold", "noop", "await_motion_cancel"}
    <2>1. Sound(OnComplete(n, rt))
        BY CompleteSound DEF OnComplete, Simple
    <2> QED BY <1>5, <2>1 DEF Handle
<1> QED BY <1>1, <1>2, <1>3, <1>4, <1>5 DEF Sound, Calm, CalmHandlers

LEMMA StateUpdateSound ==
    ASSUME NEW n, Sound(n), Simple, NEW rt
    PROVE  /\ Sound(StateUpdate(n, rt))
           /\ n.state = "door" /\ n.handler = "await_resume" /\ n.door =>
                 StateUpdate(n, rt).handler \notin {"restore", "await_resumed", "cycle"}
<1> DEFINE opened == IF "safety_door" \in rt THEN SetDoorOrSleep(n, "door") ELSE n
<1>1. Sound(opened)
    BY SetDoorOrSleepSound DEF Simple
<1>2. n.state = "door" => opened = n
    BY DEF SetDoorOrSleep
<1>3. StateUpdate(n, rt) = Handle(opened, rt)
    BY DEF StateUpdate
<1> HIDE DEF opened
<1> QED BY <1>1, <1>2, <1>3, HandleSound

LEMMA SuspendManagerSound ==
    ASSUME NEW n, Sound(n), NoDelays
    PROVE  /\ Sound(SuspendManager(n))
           /\ SuspendManager(n).handler = n.handler /\ SuspendManager(n).state = n.state
           /\ SuspendManager(n).suspend = n.suspend
           /\ SuspendManager(n).rtAlarm = n.rtAlarm
           /\ Off(n) /\ Aborted(n) => Off(SuspendManager(n))
<1> DEFINE stopped == [n EXCEPT !.spindle = FALSE, !.spindleStop = "enabled"]
           kept == [n EXCEPT !.spindleStop = "none"]
           on == [n EXCEPT !.spindle = n.rcSpindle, !.spindleStop = "none"]
<1>1. /\ SuspendManager(n) \in {n, stopped, kept, on}
      /\ SuspendManager(n) = on =>
            \/ SuspendManager(n) \in {n, kept, stopped}
            \/ ~Aborted(n) /\ n.spindleStop = "restore" /\ n.handler = "await_resume"
    BY DEF SuspendManager, NoDelays
<1>2. Sound(stopped) /\ Sound(kept)
    BY DEF Sound, Calm, Off, CalmHandlers, IsMachine, Fields
<1>3. n.spindleStop = "restore" /\ n.handler = "await_resume" => Sound(on)
    BY DEF Sound, Calm, Off, CalmHandlers, IsMachine, Fields
<1>4. /\ \A k \in {n, stopped, kept, on} : k.handler = n.handler /\ k.state = n.state /\ k.suspend = n.suspend
                                            /\ k.rtAlarm = n.rtAlarm
      /\ Off(n) => Off(stopped) /\ Off(kept)
    BY DEF Sound, Calm, Off, IsMachine, Fields
<1> HIDE DEF stopped, kept, on
<1> QED BY <1>1, <1>2, <1>3, <1>4

-----------------------------------------------------------------------------
(* ... and the steps of the executive.                                     *)

\* Where the foreground can be after a reset was taken, until it raises the alarm.
AbortPhases == {"return", "suspended", "back", "main", "alarm"}

\* An alarm that is pending came with a reset: either that is still to be taken, and will
\* switch everything off, or it has been.  A command that waits to switch the spindle on is
\* aborted before it could do so with the machine locked.
StoppedInv ==
    /\ Sound(m)
    /\ ~m.cancel /\ ~m.estop
    /\ phase = "blocked" => Off(m)
    /\ phase = "back" => ~m.suspend \/ m.abort
    /\ m.rtAlarm \in {"none", "abort_cycle", "hard_limit"}
    /\ m.rtAlarm # "none" => \/ "reset" \in m.rt \cup exec
                             \/ phase = "blocked"
                             \/ m.abort /\ Off(m) /\ phase \in AbortPhases
    /\ pc = "sync" /\ m.state \in Locked =>
          \/ m.abort \/ phase = "blocked"
          \/ phase = "fetch" /\ "reset" \in m.rt
          \/ phase = "dispatch" /\ "reset" \in exec

\* The invariants it goes with.
WithInv == StoppedInv /\ LockInv /\ ResetInv /\ CommandInv

ClosedToResume == Resumes => ~m.door

StoppedStep == StoppedInv' /\ ClosedToResume

\* A step that neither takes nor loses requests or alarms, and keeps off what is off
\* after a reset.
Mild(a, b) ==
    /\ Sound(b)
    /\ b.cancel = a.cancel /\ b.estop = a.estop /\ b.rtAlarm = a.rtAlarm /\ b.abort = a.abort
    /\ a.rt \subseteq b.rt
    /\ a.abort /\ Off(a) => Off(b)

SameOutputs(a, b) ==
    b.suspend = a.suspend /\ b.spindle = a.spindle /\ b.coolant = a.coolant

LEMMA MildStep ==
    ASSUME StoppedInv, Mild(m, m'), exec' = exec,
           phase' = "blocked" => Off(m'), phase = "blocked" => phase' = "blocked",
           phase' = "back" => ~m'.suspend \/ m'.abort,
           phase \in AbortPhases /\ m.abort => phase' \in AbortPhases,
           pc' = "sync" /\ m'.state \in Locked =>
                m.abort \/ (m.state \in Locked /\ phase' = phase /\ pc' = pc),
           ClosedToResume
    PROVE  StoppedStep
BY DEF StoppedInv, StoppedStep, Mild

LEMMA MildSelf ==
    ASSUME NEW n, Sound(n)
    PROVE  /\ Mild(n, n)
           /\ \A r : Mild(n, Request(n, r)) /\ Request(n, r).state = n.state
                     /\ Request(n, r).handler = n.handler /\ SameOutputs(n, Request(n, r))
           /\ SameOutputs(n, n)
BY DEF Mild, Request, Sound, Calm, Off, CalmHandlers, IsMachine, Fields, SameOutputs

LEMMA ClosedByDefault ==
    ASSUME Sound(m'), m'.handler # "cycle" \/ m.state # "door" \/ m.handler # "await_resume"
    PROVE  ClosedToResume
BY DEF Sound, Calm, CalmHandlers, ClosedToResume, Resumes

LEMMA ExecAlarmStopped == ASSUME WithInv, ExecAlarm PROVE StoppedStep
<1> DEFINE resetting == "reset" \in m.rt
           off == IF resetting THEN DeEnergized(m) ELSE m
           noted == [off EXCEPT !.resetPending = resetting, !.rtAlarm = "none"]
           locked == RaiseAlarm(noted, m.rtAlarm)
           critical == m.rtAlarm \in CriticalAlarms
           raised == [locked EXCEPT !.blocking = critical]
<1>0. /\ Sound(m) /\ phase = "alarm" /\ exec = {} /\ exec' = exec /\ pc' = pc
      /\ m.rtAlarm \in {"none", "abort_cycle", "hard_limit"} /\ ~m.cancel /\ ~m.estop
    BY DEF WithInv, StoppedInv, ResetInv, Handling, Stops, ExecAlarm
<1>3. m.rtAlarm # "none" => resetting \/ (m.abort /\ Off(m))
    <2>1. m.rtAlarm # "none" => "reset" \in m.rt \cup exec \/ (m.abort /\ Off(m))
        BY <1>0 DEF WithInv, StoppedInv
    <2>2. "reset" \in m.rt \cup exec => "reset" \in m.rt
        BY <1>0
    <2> QED BY <2>1, <2>2
<1>1. CASE m.rtAlarm = "none"
    <2>1. m' = m /\ phase' = "fetch"
        BY <1>1 DEF ExecAlarm
    <2>2. ClosedToResume
        BY <2>1 DEF ClosedToResume, Resumes
    <2> QED BY <1>0, <1>1, <2>1, <2>2 DEF WithInv, StoppedInv, StoppedStep
<1>2. CASE m.rtAlarm \in {"abort_cycle", "hard_limit"}
    <2> DEFINE blocked == [raised EXCEPT !.rtAlarm = m.rtAlarm, !.rt = @ \ {"reset"}]
    <2>1. \/ m' = raised /\ phase' = "fetch"
          \/ m' = blocked /\ phase' = "blocked"
        <3>1. m.rtAlarm # "none"
            BY <1>2
        <3> QED BY <3>1 DEF ExecAlarm
    <2>2. resetting \/ (m.abort /\ Off(m))
        BY <1>2, <1>3
    <2> HIDE DEF critical
    <2>3. /\ Sound(off) /\ Off(off) /\ off.abort = m.abort /\ off.rt = m.rt
          /\ off.cancel = m.cancel /\ off.estop = m.estop
          /\ off.state = m.state /\ off.handler = m.handler
        BY <1>0, <2>2 DEF Sound, Calm, Off, CalmHandlers, IsMachine, Fields, DeEnergized
    <2> HIDE DEF off, resetting
    <2>4. /\ Sound(noted) /\ Off(noted) /\ noted.abort = m.abort /\ noted.rt = m.rt
          /\ noted.cancel = m.cancel /\ noted.estop = m.estop /\ noted.rtAlarm = "none"
          /\ noted.state = m.state /\ noted.handler = m.handler
        BY <2>3 DEF Sound, Calm, Off, CalmHandlers, IsMachine, Fields
    <2> HIDE DEF noted
    <2> DEFINE Raised(k) == /\ Sound(k) /\ Off(k) /\ k.handler \in {"noop", m.handler} /\ k.abort = m.abort /\ k.rt = m.rt
                            /\ k.cancel = m.cancel /\ k.estop = m.estop /\ k.rtAlarm = "none"
    <2>5. Raised(locked)
        BY <1>2, <2>4 DEF Sound, Calm, Off, CalmHandlers, IsMachine, Fields, Locked, RaiseAlarm, SetLocked, ClearAlarm
    <2> HIDE DEF locked
    <2>6. Raised(raised)
        BY <2>5 DEF Sound, Calm, Off, CalmHandlers, IsMachine, Fields
    <2> HIDE DEF raised
    <2>7. CASE m' = raised /\ phase' = "fetch"
        <3>1. ClosedToResume
            BY <2>6, <2>7 DEF ClosedToResume, Resumes
        <3> QED BY <1>0, <2>2, <2>6, <2>7, <3>1 DEF StoppedInv, StoppedStep, resetting
    <2>8. CASE m' = blocked /\ phase' = "blocked"
        <3>1. /\ Sound(m') /\ Off(m') /\ m'.handler \in {"noop", m.handler}
              /\ m'.cancel = m.cancel /\ m'.estop = m.estop /\ m'.rtAlarm = m.rtAlarm
            BY <2>6, <2>8 DEF Sound, Calm, Off, CalmHandlers, IsMachine, Fields
        <3>2. ClosedToResume
            BY <3>1 DEF ClosedToResume, Resumes
        <3> QED BY <1>0, <2>8, <3>1, <3>2 DEF StoppedInv, StoppedStep
    <2> QED BY <2>1, <2>7, <2>8
<1> QED BY <1>0, <1>1, <1>2

LEMMA ExecutiveStopped ==
    ASSUME WithInv, Simple, "stop" \notin Inputs,
           \/ ExecBlocked \/ ExecFetch \/ ExecReset \/ ExecStop \/ StopPrep \/ StopAtRest
           \/ ExecState \/ ExecOverrides \/ ExecPrep
    PROVE  StoppedStep
<1>0. Sound(m)
    BY DEF WithInv, StoppedInv
<1>1. CASE ExecStop \/ StopPrep \/ StopAtRest
    BY <1>1 DEF WithInv, ResetInv, Stops, ExecStop, StopPrep, StopAtRest
<1>7. CASE ExecBlocked
    <2> DEFINE asked == "reset" \in m.rt
               looped == [m EXCEPT !.abort = asked]
               left == [looped EXCEPT !.rtAlarm = "none"]
    <2>1. /\ phase = "blocked" /\ exec' = exec /\ pc' = pc
          /\ IF looped.abort /\ ~m.estop THEN m' = left /\ phase' = "return" ELSE m' = looped /\ phase' = phase
        BY <1>7 DEF ExecBlocked
    <2>2. Off(m) /\ ~m.cancel /\ ~m.estop /\ m.rtAlarm \in {"none", "abort_cycle", "hard_limit"}
        BY <2>1 DEF WithInv, StoppedInv
    <2> HIDE DEF asked
    <2>3. /\ Sound(looped) /\ Off(looped) /\ looped.cancel = m.cancel /\ looped.estop = m.estop
          /\ looped.rtAlarm = m.rtAlarm /\ looped.handler = m.handler
        BY <1>0, <2>2 DEF Sound, Calm, Off, CalmHandlers, IsMachine, Fields
    <2> HIDE DEF looped
    <2>4. /\ Sound(left) /\ Off(left) /\ left.cancel = m.cancel /\ left.estop = m.estop
          /\ left.rtAlarm = "none" /\ left.handler = m.handler /\ left.abort = looped.abort
        BY <2>3 DEF Sound, Calm, Off, CalmHandlers, IsMachine, Fields
    <2> HIDE DEF left
    <2>5. ClosedToResume
        BY <2>1, <2>3, <2>4 DEF ClosedToResume, Resumes
    <2>6. CASE m' = left /\ phase' = "return" /\ looped.abort
        BY <2>1, <2>2, <2>4, <2>5, <2>6 DEF StoppedInv, StoppedStep
    <2>7. CASE m' = looped /\ phase' = phase
        BY <2>1, <2>2, <2>3, <2>5, <2>7 DEF StoppedInv, StoppedStep
    <2> QED BY <2>1, <2>6, <2>7
<1>2. CASE ExecFetch
    <2>1. /\ phase = "fetch" /\ exec = {} /\ exec' = m.rt /\ m' = [m EXCEPT !.rt = {}] /\ pc' = pc
          /\ phase' = IF m.rt = {} THEN "overrides" ELSE "dispatch"
        BY <1>2 DEF ExecFetch, WithInv, ResetInv, Handling, Stops
    <2>2. /\ Sound(m') /\ m'.cancel = m.cancel /\ m'.estop = m.estop /\ m'.rtAlarm = m.rtAlarm
          /\ m'.abort = m.abort /\ m'.state = m.state /\ m'.handler = m.handler /\ m'.suspend = m.suspend
        BY <1>0, <2>1 DEF Sound, Calm, Off, CalmHandlers, IsMachine, Fields
    <2>3. ClosedToResume
        BY <2>2 DEF ClosedToResume, Resumes
    <2> QED BY <2>1, <2>2, <2>3 DEF WithInv, StoppedInv, StoppedStep, AbortPhases
<1>3. CASE ExecReset
    <2> DEFINE n == [DeEnergized(m) EXCEPT !.resetPending = TRUE, !.abort = TRUE]
    <2>1. /\ m' = n /\ phase' = "return" /\ exec' = {} /\ pc' = pc
        BY <1>3 DEF ExecReset, WithInv, StoppedInv
    <2>2. /\ Sound(n) /\ Off(n) /\ n.abort /\ n.cancel = m.cancel /\ n.estop = m.estop
          /\ n.rtAlarm = m.rtAlarm /\ n.handler = m.handler
        BY <1>0 DEF Sound, Calm, Off, CalmHandlers, IsMachine, Fields, DeEnergized
    <2> HIDE DEF n
    <2>3. ClosedToResume
        BY <2>1, <2>2 DEF ClosedToResume, Resumes
    <2> QED BY <2>1, <2>2, <2>3 DEF WithInv, StoppedInv, StoppedStep, AbortPhases
<1>4. CASE ExecState
    <2> DEFINE n == [m EXCEPT !.resetPending = FALSE]
               k == StateUpdate(n, exec)
    <2>1. /\ phase = "dispatch" /\ exec \cap {"reset", "stop"} = {} /\ exec' = {} /\ pc' = pc
        BY <1>4 DEF ExecState, WithInv, ResetInv
    <2>9. k.call = NoDelay => m' = k /\ phase' = "overrides"
        <3>1. Proceed(k, stack, "overrides")
            BY <1>4 DEF ExecState
        <3> HIDE DEF k
        <3> QED BY <3>1 DEF Proceed
    <2>2. /\ Sound(n) /\ n.state = m.state /\ n.handler = m.handler /\ n.rt = m.rt /\ n.rtAlarm = m.rtAlarm
          /\ n.abort = m.abort /\ n.cancel = m.cancel /\ n.estop = m.estop /\ n.door = m.door
        BY <1>0 DEF Sound, Calm, Off, CalmHandlers, IsMachine, Fields
    <2> HIDE DEF n
    <2>3. /\ Sound(k) /\ Framed(n, k)
          /\ n.state = "door" /\ n.handler = "await_resume" /\ n.door =>
                k.handler \notin {"restore", "await_resumed", "cycle"}
        BY <2>2, StateUpdateSound, StateUpdateKept DEF Sound, Calm
    <2> HIDE DEF k
    <2>4. m' = k /\ phase' = "overrides"
        BY <2>9, <2>3 DEF Sound, Calm
    <2>6. ClosedToResume
        BY <2>2, <2>3, <2>4 DEF ClosedToResume, Resumes, Framed
    <2>7. /\ m'.cancel = m.cancel /\ m'.estop = m.estop /\ m'.rtAlarm = m.rtAlarm
          /\ m'.abort = m.abort /\ m'.rt = m.rt /\ (m'.state \in Locked => m.state \in Locked)
        BY <2>2, <2>3, <2>4 DEF Framed
    <2>8. /\ m.rtAlarm # "none" => "reset" \in m.rt
          /\ pc = "sync" /\ m.state \in Locked => m.abort
        <3>1. "reset" \notin exec /\ phase \notin AbortPhases /\ phase \notin {"fetch", "blocked"}
            BY <2>1 DEF AbortPhases
        <3> HIDE DEF AbortPhases
        <3>2. m.rtAlarm # "none" => "reset" \in m.rt
            BY <3>1 DEF WithInv, StoppedInv
        <3>3. pc = "sync" /\ m.state \in Locked => m.abort
            BY <3>1 DEF WithInv, StoppedInv
        <3> QED BY <3>2, <3>3
    <2> QED BY <2>1, <2>3, <2>4, <2>6, <2>7, <2>8 DEF WithInv, StoppedInv, StoppedStep
<1>5. CASE ExecOverrides
    <2>1. /\ m' = m \/ (m.state = "hold" /\ \E s : m' = [m EXCEPT !.spindleStop = s])
          /\ phase = "overrides" /\ phase' \in {"prep", "return"} /\ exec' = exec /\ pc' = pc
        BY <1>5 DEF ExecOverrides
    <2>2. Mild(m, m') /\ m'.state = m.state /\ m'.handler = m.handler
        BY <1>0, <2>1 DEF Mild, Sound, Calm, Off, CalmHandlers, IsMachine, Fields, Locked
    <2>3. ClosedToResume
        BY <2>2 DEF ClosedToResume, Resumes
    <2>4. pc = "sync" /\ m.state \in Locked => m.abort
        BY <2>1 DEF WithInv, StoppedInv
    <2> QED BY <2>1, <2>2, <2>3, <2>4, MildStep DEF WithInv, AbortPhases
<1>6. CASE ExecPrep
    <2>1. /\ m' = m \/ m' \in PrepOutcomes(m)
          /\ phase = "prep" /\ phase' \in {"prep", "return"} /\ exec' = exec /\ pc' = pc
        BY <1>6 DEF ExecPrep
    <2>2. Mild(m, m') /\ m'.state = m.state /\ m'.handler = m.handler
        <3>1. CASE m' = m
            BY <1>0, <3>1, MildSelf
        <3>2. CASE m' \in PrepOutcomes(m)
            <4>1. Kept(m, m') /\ m'.state = m.state /\ m'.handler = m.handler
                BY <1>0, <3>2, PrepKept DEF Sound, Calm
            <4> DEFINE Like(p) ==
                   /\ p.motion = m.motion /\ p.restart = m.restart /\ p.suspend = m.suspend
                   /\ p.stepping = m.stepping /\ p.spindle = m.spindle /\ p.coolant = m.coolant
                   /\ p.spindleStop = m.spindleStop
            <4>2. Like(PrepRun(m))
                BY <1>0 DEF Sound, Calm, IsMachine, Fields, PrepRun, EndOfBlock, Discarded
            <4>3. \A j : Like([m EXCEPT !.loaded = Loaded(m), !.endMotion = TRUE, !.segs = @ + j])
                BY <1>0 DEF Sound, Calm, IsMachine, Fields
            <4>4. Like(m')
                <5> HIDE DEF Like
                <5> QED BY <3>2, <4>2, <4>3 DEF PrepOutcomes, PrepHoldEnds
            <4> QED BY <1>0, <4>1, <4>4 DEF Mild, Kept, Framed, Sound, Calm, Off
        <3> QED BY <2>1, <3>1, <3>2
    <2>3. ClosedToResume
        BY <2>2 DEF ClosedToResume, Resumes
    <2>4. pc = "sync" /\ m.state \in Locked => m.abort
        BY <2>1 DEF WithInv, StoppedInv
    <2> QED BY <2>1, <2>2, <2>3, <2>4, MildStep DEF WithInv, AbortPhases
<1> QED BY <1>1, <1>2, <1>3, <1>4, <1>5, <1>6, <1>7

LEMMA CallersStopped ==
    ASSUME WithInv, Simple,
           EnterSuspend \/ SuspendAgain \/ SuspendEnds \/ SuspendRound \/ SuspendTail \/ DelayRound \/ DelayEnds
    PROVE  StoppedStep
<1>0. Sound(m) /\ ~IsDelay(Top) /\ (m.state # "sleep" => TRUE)
    BY Tops DEF WithInv, StoppedInv
<1>1. pc = "sync" /\ m.state \in Locked /\ phase \notin {"fetch", "dispatch", "blocked"} => m.abort
    BY DEF WithInv, StoppedInv
<1>2. ASSUME Mild(m, m'), m'.state = m.state, m'.handler = m.handler, exec' = exec, pc' = pc,
             phase \notin {"fetch", "dispatch", "blocked"}, phase' # "blocked",
             phase' = "back" => ~m'.suspend \/ m'.abort,
             phase \in AbortPhases /\ m.abort => phase' \in AbortPhases
      PROVE  StoppedStep
    <2>1. ClosedToResume
        BY <1>2 DEF ClosedToResume, Resumes
    <2> QED BY <1>1, <1>2, <2>1, MildStep DEF WithInv
<1>3. CASE EnterSuspend
    <2>1. /\ phase = "return" /\ exec' = exec /\ pc' = pc
          /\ \/ m' = m /\ phase' = "back" /\ (Aborted(m) \/ ~m.suspend)
             \/ m' = [m EXCEPT !.blocking = m.state = "sleep"] /\ phase' = "suspended"
        BY <1>3 DEF EnterSuspend
    <2>2. Mild(m, m') /\ m'.state = m.state /\ m'.handler = m.handler /\ m'.suspend = m.suspend
        <3>1. CASE m' = m
            BY <1>0, <3>1, MildSelf
        <3>2. CASE m' = [m EXCEPT !.blocking = m.state = "sleep"]
            <4> DEFINE asleep == m.state = "sleep"
            <4>1. m' = [m EXCEPT !.blocking = asleep]
                BY <3>2
            <4> HIDE DEF asleep
            <4> QED BY <1>0, <4>1 DEF Mild, Sound, Calm, Off, CalmHandlers, IsMachine, Fields
        <3> QED BY <2>1, <3>1, <3>2
    <2>3. phase' = "back" => ~m'.suspend \/ m'.abort
        BY <2>1 DEF Aborted, WithInv, StoppedInv
    <2> QED BY <1>2, <2>1, <2>2, <2>3 DEF AbortPhases
<1>4. CASE SuspendAgain \/ SuspendEnds
    <2>1. /\ m' = m /\ exec' = exec /\ pc' = pc /\ phase \in {"return", "suspended"}
          /\ phase' \in {"suspended", "back"} /\ (phase' = "back" => ~m.suspend \/ m.abort)
        BY <1>4 DEF SuspendAgain, SuspendEnds, SuspendLeft
    <2> QED BY <1>0, <1>2, <2>1, MildSelf DEF AbortPhases
<1>5. CASE SuspendRound
    <2> DEFINE k == SuspendManager(m)
    <2>1. /\ phase = "suspended" /\ ~m.abort /\ exec' = exec /\ pc' = pc /\ Proceed(k, stack, "suspend_tail")
        BY <1>5 DEF SuspendRound, SuspendLeft
    <2>2. Sound(k) /\ k.state = m.state /\ k.handler = m.handler /\ Kept(m, k)
        BY <1>0, SuspendManagerSound, SuspendManagerKept DEF Simple, Sound, Calm
    <2> HIDE DEF k
    <2>3. m' = k /\ phase' = "suspend_tail"
        BY <2>1, <2>2 DEF Proceed, Sound, Calm
    <2>4. Mild(m, m')
        BY <2>1, <2>2, <2>3 DEF Mild, Kept, Framed
    <2> QED BY <1>2, <2>1, <2>2, <2>3, <2>4
<1>6. CASE SuspendTail
    <2> DEFINE n == IF m.state = "door" /\ ~m.door THEN Request(m, "door_closed") ELSE m
    <2>1. /\ m' = n \/ m' = Request(n, "sleep")
          /\ phase = "suspend_tail" /\ phase' = "alarm" /\ exec' = exec /\ pc' = pc
        BY <1>6 DEF SuspendTail
    <2>2. Mild(m, n) /\ n.state = m.state /\ n.handler = m.handler
        BY <1>0, MildSelf
    <2> HIDE DEF n
    <2>3. Mild(n, m') /\ m'.state = n.state /\ m'.handler = n.handler
        BY <2>1, <2>2, MildSelf DEF Mild
    <2>4. Mild(m, m')
        BY <2>2, <2>3 DEF Mild
    <2> QED BY <1>2, <2>1, <2>2, <2>3, <2>4 DEF AbortPhases
<1>7. CASE DelayRound \/ DelayEnds
    BY <1>0, <1>7 DEF DelayRound, DelayEnds
<1> QED BY <1>3, <1>4, <1>5, <1>6, <1>7

\* The main program is initialized again with a sound machine, no alarm pending.
LEMMA InitializedSound ==
    ASSUME NEW n, Sound(n), ~n.estop
    PROVE  LET k == Initialized(n)
           IN /\ Sound(k) /\ k.rtAlarm = "none" /\ ~k.cancel /\ ~k.estop
              /\ k.handler \in {n.handler, "idle", "noop"}
<1> DEFINE clear ==
            [StReset(n) EXCEPT
                !.suspend = FALSE, !.exHold = FALSE, !.exSys = FALSE,
                !.endMotion = FALSE, !.holding = "no",
                !.parking = "door_closed", !.spindleStop = "none",
                !.rt = {}, !.rtAlarm = "none", !.abort = FALSE,
                !.cancel = FALSE, !.resetPending = FALSE,
                !.blocking = FALSE, !.positionLost = FALSE,
                !.gcSpindle = FALSE, !.gcCoolant = FALSE,
                !.toolChange = FALSE, !.readSuspended = FALSE,
                !.blocks = 0]
           unlock == IF clear.state = "estop" THEN SetLocked(clear, "alarm") ELSE clear
           Fresh(k) == k.rtAlarm = "none" /\ ~k.cancel /\ ~k.estop
           Stopped(k) == k.state \in Locked \cup {"sleep"} => k.handler = "noop" /\ Off(k)
<1>1. Initialized(n) = IF unlock.estop THEN RaiseAlarm(unlock, "estop")
                       ELSE IF StaysLocked(unlock) THEN SetLocked(unlock, "alarm")
                       ELSE SetIdle(unlock)
    BY DEF Initialized
<1>2. Calm(clear) /\ Fresh(clear) /\ Stopped(clear) /\ clear.handler = n.handler
    BY ZenonT(60) DEF Sound, Calm, Off, CalmHandlers, IsMachine, Fields, States, Locked, StReset
<1> HIDE DEF clear
<1>3. /\ Calm(unlock) /\ Fresh(unlock) /\ Stopped(unlock) /\ unlock.handler \in {clear.handler, "noop"}
      /\ unlock.state # "estop"
    BY <1>2 DEF Calm, Off, CalmHandlers, IsMachine, Fields, States, Locked, SetLocked, ClearAlarm
<1> HIDE DEF unlock
<1>4. StaysLocked(unlock) =>
         LET k == SetLocked(unlock, "alarm")
         IN Sound(k) /\ Fresh(k) /\ k.handler \in {unlock.handler, "noop"}
    BY <1>3 DEF Sound, Calm, Off, CalmHandlers, IsMachine, Fields, States, Locked, SetLocked, ClearAlarm, StaysLocked
<1>5. ~StaysLocked(unlock) =>
         LET k == SetIdle(unlock)
         IN Sound(k) /\ Fresh(k) /\ k.handler \in {unlock.handler, "idle"}
    BY <1>3, ZenonT(60) DEF Sound, Calm, Off, CalmHandlers, IsMachine, Fields, States, Locked, SetIdle, ClearAlarm, StaysLocked
<1> QED BY <1>1, <1>2, <1>3, <1>4, <1>5

LEMMA ReinitializeStopped ==
    ASSUME WithInv, Reinitialize, phase = "back"
    PROVE  StoppedStep
<1> DEFINE n == Initialized(m)
<1>1. /\ Sound(n) /\ n.rtAlarm = "none" /\ ~n.cancel /\ ~n.estop
      /\ n.handler \in {m.handler, "idle", "noop"}
    BY InitializedSound DEF WithInv, StoppedInv
<1>2. /\ m' = n \/ m' = Request(n, "safety_door")
      /\ phase' \in {"main", "alarm"} /\ pc' \in {"loop", "startup"}
    BY DEF Reinitialize, Start, Execute, LineDone
<1> HIDE DEF n
<1>3. /\ Sound(m') /\ m'.rtAlarm = "none" /\ ~m'.cancel /\ ~m'.estop
      /\ m'.handler \in {m.handler, "idle", "noop"}
    BY <1>1, <1>2 DEF Request, Sound, Calm, Off, CalmHandlers, IsMachine, Fields
<1>4. ClosedToResume
    BY <1>3 DEF ClosedToResume, Resumes
<1> QED BY <1>2, <1>3, <1>4 DEF StoppedInv, StoppedStep

\* A step of the main program, or of an interrupt, that changes neither state nor handler.
LEMMA PlainStep ==
    ASSUME WithInv, Mild(m, m'), m'.state = m.state, m'.handler = m.handler, exec' = exec,
           phase' = "blocked" => Off(m'), phase = "blocked" => phase' = "blocked",
           phase' = "back" => ~m'.suspend \/ m'.abort,
           phase \in AbortPhases /\ m.abort => phase' \in AbortPhases,
           pc' = "sync" => (pc' = pc /\ phase' = phase) \/ m.abort \/ m.state \notin Locked
    PROVE  StoppedStep
<1>1. ClosedToResume
    BY DEF ClosedToResume, Resumes
<1> QED BY <1>1, MildStep DEF WithInv

LEMMA MainStopped ==
    ASSUME WithInv,
           \/ ReadCan \/ MainIdle \/ Startup \/ IdleDone \/ LineAborted
           \/ \E c \in Commands : ReadLine(c)
    PROVE  StoppedStep
<1>0. Sound(m) /\ ~m.cancel
    BY DEF WithInv, StoppedInv
<1>1. CASE (IdleDone \/ LineAborted) /\ Reinitialize
    BY <1>1, ReinitializeStopped DEF IdleDone, LineAborted, Returned
<1>2. CASE IdleDone /\ ~Reinitialize
    <2> DEFINE n == [m EXCEPT !.cancel = FALSE]
    <2>1. /\ m' = n \/ m' = Request(n, "sleep")
          /\ phase = "back" /\ phase' = "main" /\ pc' = "loop" /\ exec' = exec
        BY <1>2 DEF IdleDone, Returned, LineDone
    <2>2. Mild(m, n) /\ n.state = m.state /\ n.handler = m.handler
        <3>1. Sound(n) /\ ~n.cancel
            BY <1>0 DEF Sound, Calm, Off, CalmHandlers, IsMachine, Fields
        <3>2. /\ n.estop = m.estop /\ n.rtAlarm = m.rtAlarm /\ n.abort = m.abort /\ n.rt = m.rt
              /\ n.state = m.state /\ n.handler = m.handler /\ n.spindle = m.spindle /\ n.coolant = m.coolant
            BY <1>0 DEF Sound, Calm, IsMachine, Fields
        <3>3. n.cancel = m.cancel
            <4>1. n.cancel = FALSE /\ m.cancel = FALSE
                BY <1>0 DEF Sound, Calm, IsMachine, Fields, WithInv, StoppedInv
            <4> QED BY <4>1
        <3> HIDE DEF n
        <3> QED BY <3>1, <3>2, <3>3 DEF Mild, Off
    <2> HIDE DEF n
    <2>3. Mild(n, m') /\ m'.state = n.state /\ m'.handler = n.handler
        BY <2>1, <2>2, MildSelf DEF Mild
    <2>4. Mild(m, m')
        BY <2>2, <2>3 DEF Mild
    <2> QED BY <2>1, <2>2, <2>3, <2>4, PlainStep DEF AbortPhases
<1>3. CASE ReadCan \/ MainIdle \/ Startup \/ \E c \in Commands : ReadLine(c)
    <2>1. /\ \/ m' = m \/ m' = Request(m, "motion_cancel") \/ m' = Request(m, "cycle_start")
          /\ phase \in {"main", "back"} /\ phase' \in {"main", "alarm"} /\ pc' \in {"loop", "line", "idle"} /\ exec' = exec
        BY <1>3 DEF ReadCan, MainIdle, Startup, ReadLine, InMain, Returned, Execute, LineDone, AutoCycleStart
    <2>2. Mild(m, m') /\ m'.state = m.state /\ m'.handler = m.handler
        BY <1>0, <2>1, MildSelf
    <2> QED BY <2>1, <2>2, PlainStep DEF AbortPhases
<1> QED BY <1>1, <1>2, <1>3 DEF LineAborted

LEMMA CommandsStopped ==
    ASSUME WithInv, LineStarts \/ MotionBuffered \/ SyncWaits \/ SyncEnds \/ LineEnds
    PROVE  StoppedStep
<1>0. Sound(m) /\ ~m.cancel /\ phase = "back" /\ Mild(m, m) /\ (~m.suspend \/ m.abort)
    BY MildSelf DEF WithInv, StoppedInv, LineStarts, MotionBuffered, SyncWaits, SyncEnds, LineEnds, Returned
<1>1. ASSUME Mild(m, m'), m'.state = m.state, m'.handler = m.handler, exec' = exec,
             phase' \in {"main", "alarm"},
             pc' = "sync" => m.abort \/ m.state \notin Locked
      PROVE  StoppedStep
    BY <1>0, <1>1, PlainStep DEF AbortPhases
<1>2. CASE LineStarts
    <2>1. /\ m' \in {m, Request(m, "sleep"), Request(m, "cycle_start")} \/ (cmd = "unlock" /\ m' = SetIdle(m))
          /\ phase' \in {"main", "alarm"} /\ exec' = exec /\ pc' \in {"loop", "buffer", "sync"}
          /\ cmd = "unlock" => pc' = "loop"
        BY <1>2 DEF LineStarts, LineDone, Execute, AutoCycleStart
    <2>2. pc' = "sync" => m.state \notin Locked
        <3>1. pc' = "sync" => cmd \in Syncing
            BY <1>2 DEF LineStarts, Returned, LineDone, Execute, LineAccepted, WithInv, CommandInv, CommandNames, Syncing
        <3>2. pc' = "sync" => LineAccepted
            BY <1>2 DEF LineStarts, LineDone
        <3> QED BY <3>1, <3>2 DEF LineAccepted, GcodeCommands, Syncing, Locked
    <2>3. CASE m' \in {m, Request(m, "sleep"), Request(m, "cycle_start")}
        <3>1. Mild(m, m') /\ m'.state = m.state /\ m'.handler = m.handler
            BY <1>0, <2>3, MildSelf
        <3> QED BY <1>1, <2>1, <2>2, <3>1
    <2>4. CASE m' = SetIdle(m) /\ cmd = "unlock"
        <3>1. Sound(m')
            BY <1>0, <2>4, SetSound
        <3>2. /\ m'.cancel = m.cancel /\ m'.estop = m.estop /\ m'.rtAlarm = m.rtAlarm
              /\ m'.abort = m.abort /\ m'.rt = m.rt /\ m'.spindle = m.spindle /\ m'.coolant = m.coolant
            BY <1>0, <2>4 DEF Sound, Calm, IsMachine, Fields, SetIdle, ClearAlarm
        <3>3. Mild(m, m')
            BY <3>1, <3>2 DEF Mild, Off
        <3>4. ClosedToResume
            BY <1>0, <1>2 DEF ClosedToResume, Resumes, LineStarts, Aborted, Sound
        <3> QED BY <1>0, <2>1, <2>4, <3>3, <3>4, MildStep DEF WithInv, AbortPhases
    <2> QED BY <2>1, <2>3, <2>4
<1>3. CASE MotionBuffered
    <2> DEFINE n == [m EXCEPT !.blocks = @ + 1]
    <2>1. /\ m' \in {m, Request(m, "cycle_start"), n} \/ (~Aborted(m) /\ m' = StartJog(n))
          /\ phase' \in {"main", "alarm"} /\ exec' = exec /\ pc' \in {"loop", "buffer"}
        BY <1>3 DEF MotionBuffered, LineDone, Execute, AutoCycleStart
    <2>2. Mild(m, n) /\ n.state = m.state /\ n.handler = m.handler
        BY <1>0 DEF Mild, Sound, Calm, Off, CalmHandlers, IsMachine, Fields
    <2> HIDE DEF n
    <2>3. CASE m' \in {m, Request(m, "cycle_start"), n}
        <3>1. Mild(m, m') /\ m'.state = m.state /\ m'.handler = m.handler
            BY <1>0, <2>2, <2>3, MildSelf
        <3> QED BY <1>1, <2>1, <3>1
    <2>4. CASE ~Aborted(m) /\ m' = StartJog(n) /\ n.state \in {"idle", "tool_change"}
        <3> DEFINE jog == SetJog(n)
                   prepared == PrepAtRest(jog)
        <3>1. Sound(jog) /\ jog.state = "jog" /\ Kept(n, jog)
            <4>1. Sound(jog) /\ Kept(n, jog)
                BY <2>2, SetSound, SetKept DEF Mild, Sound, Calm
            <4>2. jog.state = "jog"
                BY <2>2, <2>4 DEF SetJog, ClearAlarm, Mild, Sound, Calm, IsMachine, Fields
            <4> QED BY <4>1, <4>2
        <3> HIDE DEF jog
        <3>2. /\ prepared.state = "jog" /\ prepared.handler = jog.handler /\ prepared.motion = jog.motion
              /\ prepared.restart = jog.restart /\ prepared.call = jog.call /\ Kept(jog, prepared)
            <4>1. Kept(jog, prepared)
                BY <3>1, StepperKept DEF Sound, Calm
            <4> QED BY <3>1, <4>1 DEF Sound, Calm, IsMachine, Fields, PrepAtRest, PrepBlocked, Loaded, PrepRun, EndOfBlock, Discarded
        <3> HIDE DEF prepared
        <3>3. m' = StWakeUp(prepared)
            BY <2>4 DEF StartJog, prepared, jog
        <3>4. Sound(m') /\ Kept(prepared, m')
            <4>1. Kept(prepared, m')
                BY <3>2, <3>3, StepperKept DEF Kept, Framed
            <4> QED BY <3>1, <3>2, <3>3, <4>1 DEF Kept, Framed, Sound, Calm, CalmHandlers, IsMachine, Fields, StWakeUp, Locked
        <3>5. Kept(n, m')
            BY <3>1, <3>2, <3>4, KeptTransitive
        <3>6. Mild(m, m')
            BY <2>2, <2>4, <3>4, <3>5 DEF Mild, Kept, Framed, Aborted
        <3>7. ClosedToResume
            BY <2>2, <2>4 DEF ClosedToResume, Resumes
        <3> QED BY <1>0, <2>1, <3>6, <3>7, MildStep DEF WithInv, AbortPhases
    <2> QED BY <2>1, <2>3, <2>4 DEF StartJog
<1>4. CASE SyncWaits \/ LineEnds
    <2>1. /\ m' = m /\ phase' \in {"main", "alarm"} /\ exec' = exec
          /\ pc' = "sync" => pc = "sync"
        BY <1>4 DEF SyncWaits, LineEnds, Returned, LineDone, Execute
    <2>2. pc' = "sync" => m.abort \/ m.state \notin Locked
        BY <1>0, <2>1 DEF WithInv, StoppedInv
    <2> QED BY <1>0, <1>1, <2>1, <2>2
<1>5. CASE SyncEnds
    <2> DEFINE change == Request([m EXCEPT !.toolChange = TRUE], "tool_change")
               on == [m EXCEPT !.spindle = TRUE, !.gcSpindle = TRUE, !.coolant = TRUE, !.gcCoolant = TRUE]
               off == [DeEnergized(m) EXCEPT !.gcSpindle = FALSE, !.gcCoolant = FALSE]
               hold == Request(m, "feed_hold")
    <2>1. /\ m' \in {m, change, off, hold} \/ (~m.abort /\ m' = on)
          /\ phase' \in {"main", "alarm"} /\ exec' = exec /\ pc' \in {"loop", "done"}
        <3> HIDE DEF change, on, off, hold
        <3>0. cmd \in Syncing
            BY <1>5 DEF SyncEnds, Returned, WithInv, CommandInv
        <3>1. CASE cmd = "tool_change"
            BY <1>5, <3>1 DEF SyncEnds, Execute, change
        <3>2. CASE cmd = "accessories"
            BY <1>5, <3>2 DEF SyncEnds, LineDone, on, Aborted
        <3>3. CASE cmd = "end" \/ (cmd = "pause" /\ m.cancel)
            BY <1>5, <3>3 DEF SyncEnds, LineDone, off
        <3>4. CASE cmd = "pause" /\ ~m.cancel
            BY <1>5, <3>4 DEF SyncEnds, Execute, hold
        <3> QED BY <3>0, <3>1, <3>2, <3>3, <3>4 DEF Syncing
    <2>2. /\ Mild(m, change) /\ change.state = m.state /\ change.handler = m.handler
          /\ Mild(m, off) /\ off.state = m.state /\ off.handler = m.handler
          /\ Mild(m, hold) /\ hold.state = m.state /\ hold.handler = m.handler
        <3>1. Mild(m, off) /\ off.state = m.state /\ off.handler = m.handler
            BY <1>0 DEF Mild, Sound, Calm, Off, CalmHandlers, IsMachine, Fields, DeEnergized
        <3>2. Mild(m, change) /\ change.state = m.state /\ change.handler = m.handler
            BY <1>0 DEF Mild, Sound, Calm, Off, CalmHandlers, IsMachine, Fields, Request
        <3> QED BY <1>0, <3>1, <3>2, MildSelf
    <2>3. ~m.abort => Mild(m, on) /\ on.state = m.state /\ on.handler = m.handler
        <3>1. ~m.abort => m.state \notin Locked \cup {"sleep", "door"}
            BY <1>0, <1>5 DEF WithInv, StoppedInv, SyncEnds, Returned, Sound
        <3> QED BY <1>0, <3>1 DEF Mild, Sound, Calm, Off, CalmHandlers, IsMachine, Fields
    <2> HIDE DEF change, on, off, hold
    <2>4. Mild(m, m') /\ m'.state = m.state /\ m'.handler = m.handler
        BY <1>0, <2>1, <2>2, <2>3
    <2> QED BY <1>1, <2>1, <2>4
<1> QED BY <1>2, <1>3, <1>4, <1>5

\* Without the e-stop and the stop command an interrupt that leaves an alarm pending, of
\* an aborted motion or of a limit switch, leaves a reset with it.
NoOtherStops == Inputs \cap {"stop", "estop"} = {}

LEMMA InterruptsStopped ==
    ASSUME WithInv, NoOtherStops,
           \/ KeyCycleStart \/ KeyFeedHold \/ KeyReset \/ KeyStop \/ KeyJogCancel \/ KeySpindleStop
           \/ DoorOpens \/ DoorCloses \/ EstopPressed \/ EstopReleased \/ HardLimit \/ Stepper
    PROVE  StoppedStep
<1>0. Sound(m) /\ exec' = exec /\ phase' = phase /\ pc' = pc /\ ~m.estop
    BY DEF WithInv, StoppedInv, KeyCycleStart, KeyFeedHold, KeyReset, KeyStop, KeyJogCancel,
           KeySpindleStop, DoorOpens, DoorCloses, EstopPressed, EstopReleased, HardLimit,
           Stepper, StepSegment, StepsExhausted, Interrupt
<1>1. ASSUME Mild(m, m'), m'.state = m.state, m'.handler = m.handler, SameOutputs(m, m')
      PROVE  StoppedStep
    <2>1. (phase' = "blocked" => Off(m')) /\ (phase' = "back" => ~m'.suspend \/ m'.abort)
        BY <1>0, <1>1 DEF WithInv, StoppedInv, Mild, Off, SameOutputs
    <2> QED BY <1>0, <1>1, <2>1, PlainStep
<1>2. CASE KeyCycleStart
    <2>1. m' = [Request(m, "cycle_start") EXCEPT !.toolChange = FALSE]
        BY <1>2 DEF KeyCycleStart, Interrupt
    <2>2. Mild(m, m') /\ m'.state = m.state /\ m'.handler = m.handler /\ SameOutputs(m, m')
        BY <1>0, <2>1 DEF Mild, Request, Sound, Calm, Off, CalmHandlers, IsMachine, Fields, SameOutputs
    <2> QED BY <1>1, <2>2
<1>3. CASE KeyFeedHold \/ KeyJogCancel \/ KeySpindleStop
    <2>1. m' = m \/ m' = Request(m, "feed_hold")
        BY <1>3 DEF KeyFeedHold, KeyJogCancel, KeySpindleStop, Interrupt
    <2>2. Mild(m, m') /\ m'.state = m.state /\ m'.handler = m.handler /\ SameOutputs(m, m')
        BY <1>0, <2>1, MildSelf
    <2> QED BY <1>1, <2>2
<1>4. CASE KeyStop \/ EstopPressed \/ EstopReleased
    BY <1>0, <1>4 DEF NoOtherStops, KeyStop, EstopPressed, EstopReleased
<1>5. CASE KeyReset \/ HardLimit
    <2> DEFINE reset == McReset(m)
               moving == m.state \in {"cycle", "jog"} \/ m.exHold \/ m.exSys
               asked == Request(m, "reset")
               r == [asked EXCEPT !.readSuspended = FALSE, !.positionLost = moving]
               killed == [StGoIdle(r) EXCEPT !.rtAlarm = "abort_cycle"]
               Asks(n) == /\ Sound(n) /\ n.cancel = m.cancel /\ n.estop = m.estop /\ n.abort = m.abort
                          /\ "reset" \in n.rt /\ n.rtAlarm \in {"none", "abort_cycle", "hard_limit"}
                          /\ n.state = m.state /\ n.handler = m.handler /\ SameOutputs(m, n)
    <2>1. m' = reset \/ m' = [reset EXCEPT !.rtAlarm = "hard_limit"]
        BY <1>5 DEF KeyReset, HardLimit, Interrupt
    <2>2. /\ "reset" \in m.rt => reset = m
          /\ "reset" \notin m.rt => reset \in {asked, r, killed}
        BY <1>0 DEF McReset
    <2> HIDE DEF moving
    <2>3. ("reset" \in m.rt => Asks(m)) /\ Asks(asked)
        BY <1>0 DEF Request, Sound, Calm, Off, CalmHandlers, IsMachine, Fields, SameOutputs, WithInv, StoppedInv
    <2> HIDE DEF asked
    <2>4. Asks(r)
        BY <2>3 DEF Sound, Calm, Off, CalmHandlers, IsMachine, Fields, SameOutputs
    <2> HIDE DEF r
    <2>5. Asks(killed)
        BY <2>4 DEF Sound, Calm, Off, CalmHandlers, IsMachine, Fields, SameOutputs, StGoIdle
    <2> HIDE DEF killed
    <2>6. Asks(reset)
        <3> HIDE DEF Asks, reset
        <3> QED BY <2>2, <2>3, <2>4, <2>5
    <2> HIDE DEF reset
    <2>7. Asks(m')
        BY <2>1, <2>6 DEF Sound, Calm, Off, CalmHandlers, IsMachine, Fields, SameOutputs
    <2>8. ClosedToResume
        BY <2>7 DEF ClosedToResume, Resumes
    <2>9. phase = "blocked" => Off(m')
        BY <2>7 DEF WithInv, StoppedInv, SameOutputs, Off
    <2>10. pc = "sync" /\ m'.state \in Locked =>
             \/ m'.abort \/ phase = "blocked"
             \/ phase = "fetch" /\ "reset" \in m'.rt
             \/ phase = "dispatch" /\ "reset" \in exec
        BY <2>7 DEF WithInv, StoppedInv
    <2>11. phase = "back" => ~m'.suspend \/ m'.abort
        BY <2>7 DEF WithInv, StoppedInv, SameOutputs
    <2>12. ~m'.cancel /\ ~m'.estop
        BY <2>7 DEF WithInv, StoppedInv
    <2> QED BY <1>0, <2>7, <2>8, <2>9, <2>10, <2>11, <2>12 DEF StoppedInv, StoppedStep
<1>6. CASE DoorOpens \/ DoorCloses
    <2>1. \/ \E d \in BOOLEAN : m' = [m EXCEPT !.door = d]
          \/ m' = Request([m EXCEPT !.door = TRUE], "safety_door")
        BY <1>6 DEF DoorOpens, DoorCloses, Interrupt
    <2>2. ASSUME NEW d \in BOOLEAN
          PROVE  LET n == [m EXCEPT !.door = d]
                 IN Mild(m, n) /\ n.state = m.state /\ n.handler = m.handler /\ SameOutputs(m, n)
        BY <1>0, <2>2 DEF Mild, Sound, Calm, Off, CalmHandlers, IsMachine, Fields, SameOutputs
    <2>3. ASSUME NEW n, Mild(m, n), n.state = m.state, n.handler = m.handler, SameOutputs(m, n),
                 m' = n \/ m' = Request(n, "safety_door")
          PROVE  StoppedStep
        <3>1. Mild(n, m') /\ m'.state = n.state /\ m'.handler = n.handler /\ SameOutputs(n, m')
            BY <2>3, MildSelf DEF Mild
        <3>2. Mild(m, m')
            BY <2>3, <3>1 DEF Mild
        <3> QED BY <1>1, <2>3, <3>1, <3>2 DEF SameOutputs
    <2> QED BY <2>1, <2>2, <2>3
<1>7. CASE Stepper
    <2>1. \/ \E z : m' = [m EXCEPT !.segs = @ - 1, !.execBlock = TRUE, !.z = z]
          \/ m' = Request([StGoIdle(m) EXCEPT !.execBlock = FALSE], "cycle_complete")
        BY <1>7 DEF Stepper, StepSegment, StepsExhausted, Interrupt
    <2>2. LET n == Request([StGoIdle(m) EXCEPT !.execBlock = FALSE], "cycle_complete")
          IN Mild(m, n) /\ n.state = m.state /\ n.handler = m.handler /\ SameOutputs(m, n)
        BY <1>0 DEF StGoIdle, Request, Mild, Sound, Calm, Off, CalmHandlers, IsMachine, Fields, SameOutputs
    <2>3. ASSUME NEW z, m' = [m EXCEPT !.segs = @ - 1, !.execBlock = TRUE, !.z = z]
          PROVE  Mild(m, m') /\ m'.state = m.state /\ m'.handler = m.handler /\ SameOutputs(m, m')
        BY <1>0, <2>3 DEF Mild, Sound, Calm, Off, CalmHandlers, IsMachine, Fields, SameOutputs
    <2> QED BY <1>1, <2>1, <2>2, <2>3
<1> QED BY <1>2, <1>3, <1>4, <1>5, <1>6, <1>7

LEMMA StepStopped ==
    ASSUME WithInv, Simple, NoOtherStops, [Next]_vars
    PROVE  StoppedStep
<1>1. CASE Foreground
    BY <1>1, ExecAlarmStopped, ExecutiveStopped, CallersStopped, MainStopped, CommandsStopped
       DEF Foreground, NoOtherStops
<1>2. CASE Environment
    BY <1>2, InterruptsStopped, MainStopped DEF Environment
<1>3. CASE Stepper
    BY <1>3, InterruptsStopped
<1>4. CASE UNCHANGED vars
    BY <1>4 DEF vars, WithInv, StoppedStep, StoppedInv, ClosedToResume, Resumes
<1> QED BY <1>1, <1>2, <1>3, <1>4 DEF Next

LEMMA StoppedInvariant ==
    ASSUME Simple, NoOtherStops
    PROVE  Spec => []WithInv
<1>1. Init => WithInv
    <2>1. Init => StoppedInv
        BY DEF Init, PowerUp, StoppedInv, Sound, Calm, CalmHandlers, IsMachine, Fields, States, Locked
    <2>2. Init => ResetInv /\ CommandInv
        BY DEF Init, PowerUp, ResetInv, Handling, Stops, CommandInv, IsMachine, Fields, States, Locked
    <2> QED BY <2>1, <2>2, InitLocked DEF WithInv
<1>2. WithInv /\ [Next]_vars => WithInv'
    <2> QED BY StepStopped, StepLocked, ResetKept, CommandStep
            DEF WithInv, StoppedStep, LockStep, ResetStep, Simple
<1> QED BY <1>1, <1>2, PTL DEF Spec

\* Whatever stopped the machine left nothing on (enter_sleep, state_set, the door branch of
\* state_await_hold, mc_reset): a door hold that has ended, an alarm and sleep find
\* spindle, coolant and steppers off.  Without parking and delays, for a machine without
\* e-stop whose senders do not use the stop command.
THEOREM StoppedLeavesNothingOn ==
    ASSUME Simple, NoOtherStops
    PROVE  Spec => []StoppedIsOff
<1>1. WithInv => StoppedIsOff
    BY DEF WithInv, StoppedInv, Sound, Off, StoppedIsOff, DoorDeEnergized, AlarmDeEnergized, SleepOff
<1> QED BY <1>1, StoppedInvariant, PTL

\* "... and door has been closed" (state_await_resume): under the same conditions no order of
\* keys, door and executive resumes from the safety door while it is open.
THEOREM ResumesOnlyWhenClosed ==
    ASSUME Simple, NoOtherStops
    PROVE  Spec => ResumesWithDoorClosed
<1>1. WithInv /\ [Next]_vars => [Resumes => ~m.door]_vars
    BY StepStopped DEF StoppedStep, ClosedToResume
<1> QED BY <1>1, StoppedInvariant, PTL DEF Spec, ResumesWithDoorClosed

-----------------------------------------------------------------------------
(* The machine while it executes a program                                 *)

ProgramRequests == {"cycle_start", "cycle_complete", "feed_hold", "stop", "tool_change"}

\* Neither an abort nor an alarm nor the door, no parking motion, and no state to be
\* entered behind a jog.
Quiet(n) ==
    /\ IsMachine(n) /\ n.call = NoDelay
    /\ ~n.abort /\ n.rtAlarm = "none" /\ ~n.door /\ ~n.estop /\ ~n.exSys
    /\ n.pending = "idle" /\ n.rt \subseteq ProgramRequests

\* At rest, and waiting for an operator or for lines.
Resting(n) ==
    /\ ~n.stepping
    /\ \/ n.state = "idle" /\ n.handler = "idle" /\ ~n.suspend
       \/ n.state = "hold" /\ n.handler = "await_resume" /\ n.holding = "complete"
       \/ n.state = "tool_change" /\ n.handler = "await_toolchanged"

\* In a cycle, or decelerating to a hold: waiting for the end of the motion.
Moving(n) ==
    \/ n.state = "cycle" /\ n.handler = "cycle"
    \/ n.state = "hold" /\ n.handler = "await_hold" /\ n.holding = "pending" /\ n.suspend

LEMMA QuietKept ==
    ASSUME NEW a, NEW b, Quiet(a), Kept(a, b), ~b.exSys, b.pending = "idle"
    PROVE  Quiet(b)
BY DEF Quiet, Kept, Framed

LEMMA SetIdleRests ==
    ASSUME NEW n, IsMachine(n), n.rt \subseteq ProgramRequests, n.call = NoDelay,
           ~n.abort, n.rtAlarm = "none", ~n.door, ~n.estop, ~n.exSys, ~n.stepping,
           n.state = "idle" => Resting(n) /\ n.pending = "idle"
    PROVE  LET k == SetIdle(n) IN Quiet(k) /\ Resting(k) /\ k.state = "idle" /\ Kept(n, k)
<1> DEFINE set == [n EXCEPT !.suspend = FALSE, !.exHold = FALSE, !.exSys = FALSE,
                            !.endMotion = FALSE, !.parking = "door_closed", !.holding = "no",
                            !.state = "idle", !.pending = "idle", !.active = FALSE,
                            !.motion = FALSE, !.restart = FALSE, !.restoring = FALSE,
                            !.handler = "idle"]
           k == SetIdle(n)
<1>1. k = IF n.state = "idle" THEN n ELSE ClearAlarm(set)
    BY DEF SetIdle
<1>2. /\ DOMAIN set = Fields /\ ~set.stepping /\ set.state = "idle" /\ set.handler = "idle"
      /\ ~set.suspend /\ ~set.exSys /\ set.pending = "idle"
    BY DEF IsMachine, Fields
<1> HIDE DEF set
<1>3. n.state # "idle" => /\ ~k.stepping /\ k.state = "idle" /\ k.handler = "idle"
                          /\ ~k.suspend /\ ~k.exSys /\ k.pending = "idle"
    BY <1>1, <1>2 DEF ClearAlarm, Fields
<1>4. Kept(n, k)
    BY SetKept
<1>5. Resting(k) /\ k.state = "idle" /\ ~k.exSys /\ k.pending = "idle"
    BY <1>1, <1>3 DEF Resting
<1> HIDE DEF k
<1>6. Quiet(k)
    BY <1>4, <1>5 DEF Quiet, Kept, Framed
<1> QED BY <1>4, <1>5, <1>6 DEF k

\* The machine starts to move only from idle with a block in the planner.
LEMMA SetCycleRuns ==
    ASSUME NEW n, Quiet(n), Resting(n), n.state = "idle"
    PROVE  LET k == SetCycle(n) IN
           /\ Quiet(k) /\ Kept(n, k)
           /\ \/ Resting(k) /\ k.state = "idle"
              \/ Moving(k) /\ k.state = "cycle" /\ k.stepping /\ n.blocks # 0
<1> DEFINE k == SetCycle(n)
           cycle == [n EXCEPT !.state = "cycle"]
           prepared == PrepAtRest(cycle)
           set == [StWakeUp(prepared) EXCEPT !.handler = "cycle"]
<1>1. k = IF n.blocks > 0 THEN ClearAlarm(set) ELSE ClearAlarm(n)
    BY DEF SetCycle
<1>2. Kept(n, k)
    BY SetCycleKept DEF Quiet
<1>3. /\ DOMAIN cycle = Fields /\ cycle.state = "cycle" /\ ~cycle.exSys /\ cycle.pending = "idle"
    BY DEF Quiet, IsMachine, Fields
<1> HIDE DEF cycle
<1>4. /\ DOMAIN prepared = Fields /\ prepared.state = "cycle" /\ ~prepared.exSys
      /\ prepared.pending = "idle"
    BY <1>3 DEF Fields, PrepAtRest, PrepBlocked, Loaded, PrepRun, EndOfBlock, Discarded
<1> HIDE DEF prepared
<1>5. /\ DOMAIN set = Fields /\ set.state = "cycle" /\ set.handler = "cycle" /\ set.stepping
      /\ ~set.exSys /\ set.pending = "idle"
    BY <1>4 DEF Fields, StWakeUp
<1> HIDE DEF set
<1>6. LET r == ClearAlarm(set) IN Moving(r) /\ r.state = "cycle" /\ r.stepping /\ ~r.exSys /\ r.pending = "idle"
    BY <1>5 DEF ClearAlarm, Fields, Moving
<1>7. LET r == ClearAlarm(n) IN Resting(r) /\ r.state = "idle" /\ ~r.exSys /\ r.pending = "idle"
    BY DEF ClearAlarm, Quiet, IsMachine, Fields, Resting
<1>8. n.blocks > 0 => n.blocks # 0
    OBVIOUS
<1> HIDE DEF k
<1>9. ~k.exSys /\ k.pending = "idle"
    BY <1>1, <1>6, <1>7
<1>10. Quiet(k)
    BY <1>2, <1>9, QuietKept
<1> QED BY <1>1, <1>2, <1>6, <1>7, <1>8, <1>10 DEF k

LEMMA SetHoldHolds ==
    ASSUME NEW n, Quiet(n), Resting(n) \/ (Moving(n) /\ n.state = "cycle")
    PROVE  LET k == SetHold(n) IN
           /\ Quiet(k) /\ Kept(n, k) /\ k.stepping = n.stepping
           /\ Resting(n) => Resting(k)
           /\ Moving(n) => Moving(k)
<1> DEFINE k == SetHold(n)
           cool == n.gcCoolant \/ (n.blocks = 0 /\ n.coolant)
           remembered == [n EXCEPT !.rcSpindle = n.gcSpindle, !.rcCoolant = cool,
                                   !.suspend = TRUE, !.pending = "idle"]
           slowed == IF n.state = "cycle"
                     THEN [StReload(remembered) EXCEPT !.exHold = TRUE, !.handler = "await_hold"]
                     ELSE remembered
           held == [slowed EXCEPT !.holding = "pending"]
           done == IF n.state = "cycle" THEN held
                   ELSE [held EXCEPT !.holding = "complete", !.handler = "await_resume"]
           set == [done EXCEPT !.state = "hold"]
<1>0. n.state # "jog" /\ DOMAIN n = Fields
    BY DEF Resting, Moving, Quiet, IsMachine
<1>1. k = IF n.state = "hold" THEN n ELSE ClearAlarm(set)
    <2>1. remembered.state = n.state
        BY <1>0 DEF Fields
    <2>2. InitiateHold(n, "hold") = held
        BY <1>0, <2>1 DEF InitiateHold
    <2> QED BY <1>0, <2>2 DEF SetHold, HoldAwaitsMotion
<1>2. Kept(n, k)
    BY SetHoldKept DEF Quiet
<1> HIDE DEF cool
<1>3. /\ DOMAIN remembered = Fields /\ remembered.suspend /\ remembered.pending = "idle"
      /\ remembered.stepping = n.stepping /\ ~remembered.exSys
    BY <1>0 DEF Quiet, Fields
<1> HIDE DEF remembered
<1>4. /\ DOMAIN slowed = Fields /\ slowed.suspend /\ slowed.pending = "idle"
      /\ slowed.stepping = n.stepping /\ ~slowed.exSys
      /\ n.state = "cycle" => slowed.handler = "await_hold"
    BY <1>3 DEF Fields, StReload
<1> HIDE DEF slowed
<1>5. /\ DOMAIN set = Fields /\ set.suspend /\ set.pending = "idle" /\ set.stepping = n.stepping
      /\ ~set.exSys /\ set.state = "hold"
      /\ IF n.state = "cycle" THEN set.handler = "await_hold" /\ set.holding = "pending"
         ELSE set.handler = "await_resume" /\ set.holding = "complete"
    BY <1>4 DEF Fields
<1> HIDE DEF set
<1>6. LET r == ClearAlarm(set) IN
      /\ r.suspend /\ r.pending = "idle" /\ r.stepping = n.stepping /\ ~r.exSys /\ r.state = "hold"
      /\ IF n.state = "cycle" THEN r.handler = "await_hold" /\ r.holding = "pending"
         ELSE r.handler = "await_resume" /\ r.holding = "complete"
    BY <1>5 DEF ClearAlarm, Fields
<1> HIDE DEF k
<1>7. /\ ~k.exSys /\ k.pending = "idle" /\ k.stepping = n.stepping
      /\ Resting(n) => Resting(k)
      /\ Moving(n) => Moving(k)
    BY <1>1, <1>6 DEF Resting, Moving, Quiet
<1> QED BY <1>2, <1>7, QuietKept DEF k

LEMMA SetToolChangeRests ==
    ASSUME NEW n, Quiet(n), ~n.stepping, n.state = "tool_change" => Resting(n)
    PROVE  LET k == SetToolChange(n) IN Quiet(k) /\ Kept(n, k) /\ Resting(k)
<1> DEFINE k == SetToolChange(n)
<1>1. Kept(n, k)
    BY SetKept DEF Quiet
<1>2. Resting(k) /\ ~k.exSys /\ k.pending = "idle"
    BY DEF SetToolChange, ClearAlarm, Quiet, IsMachine, Fields, Resting
<1> HIDE DEF k
<1> QED BY <1>1, <1>2, QuietKept DEF k

\* The machine and the requests fetched for it: its end is not among them while it moves,
\* and one that came too late finds nothing left to start, nor does a tool change.
Expected(n, e) ==
    /\ Quiet(n) /\ e \subseteq ProgramRequests
    /\ Resting(n) \/ Moving(n)
    /\ n.stepping => "cycle_complete" \notin e
    /\ Resting(n) /\ "cycle_complete" \in e => n.blocks = 0
    /\ "tool_change" \in e => n.blocks = 0

\* What a handler makes of them: it comes to rest with the end of the motion, and moves
\* again only from rest and with a block in the planner.
Advanced(n, e, u) ==
    /\ Quiet(u) /\ Kept(n, u)
    /\ Resting(u) \/ Moving(u)
    /\ "cycle_complete" \in e => Resting(u)
    /\ Resting(u) => Resting(n) \/ "cycle_complete" \in e
    /\ u.stepping => n.stepping \/ (Resting(n) /\ n.blocks # 0)
    /\ Moving(u) => u.stepping \/ (Moving(n) /\ ~n.stepping)

LEMMA Exclusive ==
    ASSUME NEW n
    PROVE  ~(Resting(n) /\ Moving(n))
BY DEF Resting, Moving

LEMMA StateIdleRuns ==
    ASSUME NEW n, NEW e, Expected(n, e), n.handler = "idle"
    PROVE  Advanced(n, e, StateIdle(n, e))
<1> DEFINE start == IF "cycle_start" \in e THEN SetCycle(n) ELSE n
           hold == IF "feed_hold" \in e THEN SetHold(start) ELSE start
           read == [hold EXCEPT !.readSuspended = TRUE]
           tool == IF "tool_change" \in e THEN SetToolChange(read) ELSE hold
<1>1. StateIdle(n, e) = tool
    BY DEF StateIdle, Expected, ProgramRequests
<1>2. Quiet(n) /\ Resting(n) /\ n.state = "idle" /\ Kept(n, n)
    BY KeptSelf DEF Expected, Quiet, Resting, Moving
<1>3. /\ Quiet(start) /\ Kept(n, start)
      /\ \/ Resting(start)
         \/ Moving(start) /\ start.state = "cycle" /\ start.stepping /\ n.blocks # 0
    BY <1>2, SetCycleRuns
<1> HIDE DEF start
<1>4. /\ Quiet(hold) /\ Kept(start, hold) /\ hold.stepping = start.stepping
      /\ Resting(start) => Resting(hold)
      /\ Moving(start) => Moving(hold)
    BY <1>3, SetHoldHolds, KeptSelf DEF Quiet
<1> HIDE DEF hold
<1>5. Kept(n, hold)
    BY <1>3, <1>4, KeptTransitive
<1>6. CASE "tool_change" \in e
    <2>1. n.blocks = 0
        BY <1>6 DEF Expected
    <2>2. Resting(hold)
        BY <1>3, <1>4, <2>1
    <2>3. Quiet(read) /\ Kept(hold, read) /\ Resting(read)
        BY <1>4, <2>2 DEF Quiet, Kept, Framed, IsMachine, Fields, Resting
    <2> HIDE DEF read
    <2>4. Quiet(tool) /\ Kept(read, tool) /\ Resting(tool)
        BY <1>6, <2>3, SetToolChangeRests DEF Resting
    <2>5. Kept(n, tool)
        BY <1>5, <2>3, <2>4, KeptTransitive
    <2>6. ~tool.stepping
        BY <2>4 DEF Resting
    <2> HIDE DEF tool
    <2> QED BY <1>1, <1>2, <2>4, <2>5, <2>6, Exclusive DEF Advanced
<1>7. CASE "tool_change" \notin e
    <2>1. tool = hold
        BY <1>7
    <2>2. "cycle_complete" \in e => n.blocks = 0
        BY <1>2 DEF Expected
    <2>3. Resting(start) => ~hold.stepping
        BY <1>4 DEF Resting
    <2> QED BY <1>1, <1>2, <1>3, <1>4, <1>5, <2>1, <2>2, <2>3, Exclusive DEF Advanced
<1> QED BY <1>6, <1>7

LEMMA StateCycleRuns ==
    ASSUME NEW n, NEW e, Expected(n, e), n.handler = "cycle"
    PROVE  Advanced(n, e, StateCycle(n, e))
<1> DEFINE tool == IF "tool_change" \in e THEN [n EXCEPT !.readSuspended = TRUE] ELSE n
           end == IF "cycle_complete" \in e THEN CycleComplete(tool) ELSE tool
           hold == IF "feed_hold" \in e THEN SetHold(end) ELSE end
<1>1. StateCycle(n, e) = IF e = {"cycle_start"} THEN n ELSE hold
    BY DEF StateCycle, Expected, ProgramRequests
<1>2. Quiet(n) /\ Moving(n) /\ n.state = "cycle" /\ Kept(n, n)
    BY KeptSelf DEF Expected, Quiet, Resting, Moving
<1>3. Quiet(tool) /\ Moving(tool) /\ tool.state = "cycle" /\ tool.stepping = n.stepping /\ Kept(n, tool)
    BY <1>2 DEF Quiet, Moving, Kept, Framed, IsMachine, Fields
<1> HIDE DEF tool
<1>4. "cycle_complete" \in e => ~n.stepping
    BY DEF Expected
<1>5. "cycle_complete" \in e => Quiet(end) /\ Resting(end) /\ Kept(tool, end)
    <2> SUFFICES ASSUME "cycle_complete" \in e PROVE Quiet(end) /\ Resting(end) /\ Kept(tool, end)
        OBVIOUS
    <2>1. Quiet(SetIdle(tool)) /\ Resting(SetIdle(tool)) /\ Kept(tool, SetIdle(tool))
        BY <1>3, <1>4, SetIdleRests DEF Quiet
    <2>2. Quiet(SetToolChange(tool)) /\ Resting(SetToolChange(tool)) /\ Kept(tool, SetToolChange(tool))
        BY <1>3, <1>4, SetToolChangeRests
    <2> QED BY <2>1, <2>2 DEF CycleComplete
<1>6. "cycle_complete" \notin e => end = tool
    OBVIOUS
<1> HIDE DEF end
<1>7. Quiet(end) /\ Kept(n, end) /\ (Resting(end) \/ (Moving(end) /\ end.state = "cycle"))
    BY <1>3, <1>5, <1>6, KeptTransitive
<1>8. /\ Quiet(hold) /\ Kept(end, hold) /\ hold.stepping = end.stepping
      /\ Resting(end) => Resting(hold)
      /\ Moving(end) => Moving(hold)
    BY <1>7, SetHoldHolds, KeptSelf DEF Quiet
<1> HIDE DEF hold
<1>9. Kept(n, hold)
    BY <1>7, <1>8, KeptTransitive
<1>10. CASE "cycle_complete" \in e
    <2>1. Resting(hold) /\ ~hold.stepping /\ e # {"cycle_start"}
        BY <1>5, <1>8, <1>10 DEF Resting
    <2> QED BY <1>1, <1>8, <1>9, <1>10, <2>1, Exclusive DEF Advanced
<1>11. CASE "cycle_complete" \notin e
    <2>1. Advanced(n, e, n)
        BY <1>2, <1>11, Exclusive DEF Advanced
    <2>2. Advanced(n, e, hold)
        BY <1>2, <1>3, <1>6, <1>8, <1>9, <1>11, Exclusive DEF Advanced
    <2> QED BY <1>1, <2>1, <2>2
<1> QED BY <1>10, <1>11

LEMMA AwaitHoldRuns ==
    ASSUME NEW n, NEW e, Expected(n, e), n.handler = "await_hold"
    PROVE  Advanced(n, e, OnComplete(n, e))
<1> DEFINE stop == StReload([n EXCEPT !.exHold = FALSE, !.exSys = FALSE, !.endMotion = FALSE])
           held == HoldComplete(stop)
<1>1. Quiet(n) /\ Moving(n) /\ n.state = "hold" /\ Kept(n, n)
    BY KeptSelf DEF Expected, Quiet, Resting, Moving
<1>2. OnComplete(n, e) = IF "cycle_complete" \in e THEN held ELSE n
    BY <1>1 DEF OnComplete, HandlerComplete, AwaitHoldComplete
<1>3. Kept(n, held)
    BY <1>1, AwaitHoldCompleteKept DEF AwaitHoldComplete, Quiet
<1>4. /\ DOMAIN stop = Fields /\ ~stop.exSys /\ stop.pending = "idle" /\ stop.stepping = n.stepping
      /\ stop.state = "hold"
    BY <1>1 DEF Quiet, IsMachine, Fields, StReload
<1> HIDE DEF stop
<1>5. /\ ~held.exSys /\ held.pending = "idle" /\ held.stepping = n.stepping
      /\ held.state = "hold" /\ held.handler = "await_resume" /\ held.holding = "complete"
    BY <1>4 DEF Fields, HoldComplete
<1> HIDE DEF held
<1>6. CASE "cycle_complete" \in e
    <2>1. ~n.stepping
        BY <1>6 DEF Expected
    <2>2. Quiet(held) /\ Resting(held) /\ ~held.stepping
        BY <1>1, <1>3, <1>5, <2>1, QuietKept DEF Resting
    <2> QED BY <1>2, <1>3, <1>6, <2>2, Exclusive DEF Advanced
<1>7. CASE "cycle_complete" \notin e
    BY <1>1, <1>2, <1>7, Exclusive DEF Advanced
<1> QED BY <1>6, <1>7

LEMMA AwaitToolchangedRuns ==
    ASSUME NEW n, NEW e, Expected(n, e), n.handler = "await_toolchanged"
    PROVE  Advanced(n, e, AwaitToolchanged(n, e))
<1> DEFINE read == n.readSuspended /\ n.toolChange
           next == IF n.toolChange THEN "tool_change" ELSE "idle"
           asked == [n EXCEPT !.readSuspended = read, !.pending = next]
           idle == SetIdle(asked)
           set == SetCycle(idle)
<1>1. AwaitToolchanged(n, e) = IF "cycle_start" \notin e THEN n ELSE set
    BY DEF AwaitToolchanged
<1>2. Quiet(n) /\ Resting(n) /\ n.state = "tool_change" /\ Kept(n, n) /\ ~n.stepping
    BY KeptSelf DEF Expected, Quiet, Resting, Moving
<1>3. next \in States \ Locked
    BY DEF States, Locked
<1> HIDE DEF read, next
<1>4. /\ IsMachine(asked) /\ asked.rt \subseteq ProgramRequests /\ asked.call = NoDelay
      /\ ~asked.abort /\ asked.rtAlarm = "none" /\ ~asked.door /\ ~asked.estop /\ ~asked.exSys
      /\ ~asked.stepping /\ asked.state = "tool_change" /\ Kept(n, asked)
    BY <1>2, <1>3 DEF Quiet, IsMachine, Fields, Kept, Framed
<1> HIDE DEF asked
<1>5. Quiet(idle) /\ Resting(idle) /\ idle.state = "idle" /\ Kept(asked, idle)
    BY <1>4, SetIdleRests
<1> HIDE DEF idle
<1>6. Kept(n, idle)
    BY <1>4, <1>5, KeptTransitive
<1>7. /\ Quiet(set) /\ Kept(idle, set)
      /\ Resting(set) \/ (Moving(set) /\ set.stepping /\ idle.blocks # 0)
    BY <1>5, SetCycleRuns
<1> HIDE DEF set
<1>8. Kept(n, set) /\ (idle.blocks # 0 => n.blocks # 0)
    BY <1>6, <1>7, KeptTransitive DEF Kept, Framed
<1>9. Advanced(n, e, n)
    BY <1>2, Exclusive DEF Advanced
<1>10. Resting(set) => ~set.stepping
    BY DEF Resting
<1>11. "cycle_complete" \in e => n.blocks = 0
    BY <1>2 DEF Expected
<1>12. Advanced(n, e, set)
    BY <1>2, <1>7, <1>8, <1>10, <1>11, Exclusive DEF Advanced
<1> QED BY <1>1, <1>9, <1>12

LEMMA AwaitResumeRuns ==
    ASSUME NEW n, NEW e, Expected(n, e), n.handler = "await_resume", Simple
    PROVE  Advanced(n, e, AwaitResume(n, e))
<1> DEFINE differs == n.spindle # n.rcSpindle /\ ~Aborted(n)
           spun == IF differs THEN n.rcSpindle ELSE n.spindle
           stop == IF n.state = "hold" /\ n.spindleStop = "none" THEN "cycle" ELSE n.spindleStop
           on == [n EXCEPT !.spindle = spun, !.spindleStop = stop]
           wet == IF on.rcCoolant # on.coolant THEN GcCoolant(on, on.rcCoolant) ELSE on
           k == [wet EXCEPT !.spindleStop = "none"]
           idle == SetIdle(k)
           ready == [idle EXCEPT !.exHold = k.exHold, !.exSys = k.exSys, !.endMotion = k.endMotion]
           set == SetCycle(ready)
<1>1. Quiet(n) /\ Resting(n) /\ n.state = "hold" /\ Kept(n, n) /\ ~n.stepping
    BY KeptSelf DEF Expected, Quiet, Resting, Moving
<1>2. AwaitResume(n, e) = IF "cycle_start" \in e THEN HoldRestore(n) ELSE n
    <2>1. AwaitResumeComplete(n) = n
        BY DEF AwaitResumeComplete, Simple
    <2>2. "sleep" \notin e /\ "safety_door" \notin e /\ "door_closed" \notin e
        BY DEF Expected, ProgramRequests
    <2> QED BY <1>1, <2>1, <2>2 DEF AwaitResume, Simple
<1>3. HoldRestore(n) = HoldRestoreCoolant(on)
    BY DEF HoldRestore, Simple, NoDelays
<1> HIDE DEF spun, stop
<1> DEFINE Paused(x) == Quiet(x) /\ x.state = "hold" /\ ~x.stepping /\ Kept(n, x)
<1>4. Paused(on)
    BY <1>1 DEF Quiet, IsMachine, Fields, Kept, Framed
<1>5. HoldRestoreCoolant(on) = RestartCycle(k)
    BY DEF HoldRestoreCoolant, HoldRestored, Simple, NoDelays
<1> HIDE DEF on
<1>6. Paused(wet)
    BY <1>4 DEF Quiet, IsMachine, Fields, Kept, Framed, GcCoolant
<1> HIDE DEF wet
<1>7. Paused(k)
    BY <1>6 DEF Quiet, IsMachine, Fields, Kept, Framed
<1>8. RestartCycle(k) = set
    BY <1>7 DEF RestartCycle
<1> HIDE DEF k
<1>9. Quiet(idle) /\ Resting(idle) /\ idle.state = "idle" /\ Kept(k, idle)
    BY <1>7, SetIdleRests DEF Quiet
<1> HIDE DEF idle
<1>10. Quiet(ready) /\ Resting(ready) /\ ready.state = "idle" /\ Kept(idle, ready)
    BY <1>7, <1>9 DEF Quiet, IsMachine, Fields, Kept, Framed, Resting
<1> HIDE DEF ready
<1>11. Kept(n, ready)
    BY <1>7, <1>9, <1>10, KeptTransitive
<1>12. /\ Quiet(set) /\ Kept(ready, set)
       /\ Resting(set) \/ (Moving(set) /\ set.stepping /\ ready.blocks # 0)
    BY <1>10, SetCycleRuns
<1> HIDE DEF set
<1>13. Kept(n, set) /\ (ready.blocks # 0 => n.blocks # 0)
    BY <1>11, <1>12, KeptTransitive DEF Kept, Framed
<1>14. Resting(set) => ~set.stepping
    BY DEF Resting
<1>15. "cycle_complete" \in e => n.blocks = 0
    BY <1>1 DEF Expected
<1>16. Advanced(n, e, n) /\ Advanced(n, e, set)
    BY <1>1, <1>12, <1>13, <1>14, <1>15, Exclusive DEF Advanced
<1> QED BY <1>2, <1>3, <1>5, <1>8, <1>16

LEMMA StateUpdateRuns ==
    ASSUME NEW n, NEW e, Expected(n, e), Simple
    PROVE  Advanced(n, e, StateUpdate(n, e))
<1>1. StateUpdate(n, e) = Handle(n, e)
    BY DEF StateUpdate, Expected, ProgramRequests
<1>2. n.handler \in {"idle", "cycle", "await_hold", "await_toolchanged", "await_resume"}
    BY DEF Expected, Resting, Moving
<1>3. CASE n.handler = "idle"
    BY <1>1, <1>3, StateIdleRuns DEF Handle
<1>4. CASE n.handler = "cycle"
    BY <1>1, <1>4, StateCycleRuns DEF Handle
<1>5. CASE n.handler = "await_hold"
    BY <1>1, <1>5, AwaitHoldRuns DEF Handle
<1>6. CASE n.handler = "await_toolchanged"
    BY <1>1, <1>6, AwaitToolchangedRuns DEF Handle
<1>7. CASE n.handler = "await_resume"
    BY <1>1, <1>7, AwaitResumeRuns DEF Handle
<1> QED BY <1>2, <1>3, <1>4, <1>5, <1>6, <1>7

-----------------------------------------------------------------------------
(* ... and the executive                                                   *)

\* What operators and senders do to a program that runs: no resets, no doors and no jogs.
ProgramOnly ==
    /\ Inputs \subseteq {"cycle_start", "feed_hold", "spindle_stop", "stop"}
    /\ Commands \subseteq GcodeCommands

Ended(n, e) == "cycle_complete" \in n.rt \cup e

\* Where requests can be that are taken from those posted.
Fetched == {"dispatch", "stopping", "stopped", "update"}

\* Who waits for the end of a motion is moving, or its end was posted, once.  An end
\* nobody waits for is seen before a block is queued again: a stop that took its waiter
\* away leaves the planner empty, and aborts what would fill it.  A tool change is asked
\* for with the planner empty.
RunInv ==
    /\ Quiet(m) /\ exec \subseteq ProgramRequests /\ phase # "blocked"
    /\ \/ Resting(m) \/ Moving(m)
       \/ m.state = "cycle" /\ m.handler = "await_motion_cancel" /\ phase = "stopping"
    /\ m.stepping => ~Ended(m, exec)
    /\ ~Resting(m) => m.stepping \/ Ended(m, exec)
    /\ ~("cycle_complete" \in m.rt /\ "cycle_complete" \in exec)
    /\ Resting(m) /\ Ended(m, exec) => m.blocks = 0
    /\ Resting(m) /\ "cycle_complete" \in m.rt => m.cancel \/ phase \in {"main", "alarm", "fetch"}
    /\ m.cancel => m.blocks = 0 \/ phase \in {"stopping", "stopped"}
    /\ "tool_change" \in m.rt => phase \in {"alarm", "fetch"}
    /\ "tool_change" \in m.rt \cup exec => pc = "done" /\ m.blocks = 0
    /\ phase = "back" => ~m.suspend \/ m.cancel
    /\ exec # {} => phase \in Fetched
    /\ cmd \in Commands \cup {"none"}

WithRun == RunInv /\ LockInv /\ CommandInv

\* protocol_buffer_synchronize returns, not aborted, with the steppers at rest.
CleanSync == pc = "sync" /\ pc' # "sync" /\ ~Aborted(m) => ~m.stepping

RunStep == RunInv' /\ CleanSync

\* A step that tells neither state, motion nor their end from before.
Alike(a, b) ==
    /\ Quiet(b)
    /\ b.state = a.state /\ b.handler = a.handler /\ b.suspend = a.suspend
    /\ b.holding = a.holding /\ b.stepping = a.stepping /\ b.cancel = a.cancel
    /\ a.blocks = 0 => b.blocks = 0
    /\ \A r \in {"cycle_complete", "tool_change"} : r \in b.rt <=> r \in a.rt

LEMMA AlikeSelf ==
    ASSUME NEW a, Quiet(a)
    PROVE  /\ Alike(a, a)
           /\ \A r \in ProgramRequests \ {"cycle_complete", "tool_change"} : Alike(a, Request(a, r))
BY DEF Alike, Quiet, Request, IsMachine, Fields, ProgramRequests

LEMMA AlikeStep ==
    ASSUME RunInv, Alike(m, m'), exec' = exec, phase' # "blocked",
           phase \in Fetched => phase' = phase,
           phase \in {"main", "alarm", "fetch"} => phase' \in {"main", "alarm", "fetch"},
           phase \in {"alarm", "fetch"} => phase' \in {"alarm", "fetch"},
           phase' = "back" => ~m.suspend \/ m.cancel,
           pc' = pc \/ (exec = {} /\ phase \notin {"alarm", "fetch"}),
           cmd' \in Commands \cup {"none"}
    PROVE  RunInv'
<1>1. Resting(m') <=> Resting(m)
    BY DEF Alike, Resting
<1>2. Moving(m') <=> Moving(m)
    BY DEF Alike, Moving
<1>3. Ended(m', exec') <=> Ended(m, exec)
    BY DEF Alike, Ended
<1>4. Quiet(m') /\ m'.state = m.state /\ m'.handler = m.handler /\ m'.stepping = m.stepping
      /\ m'.suspend = m.suspend /\ m'.cancel = m.cancel /\ (m.blocks = 0 => m'.blocks = 0)
      /\ ("cycle_complete" \in m'.rt <=> "cycle_complete" \in m.rt)
      /\ ("tool_change" \in m'.rt <=> "tool_change" \in m.rt)
    BY DEF Alike
<1>5. "tool_change" \in m.rt \cup exec => pc' = "done"
    BY DEF RunInv
<1> HIDE DEF Fetched
<1>6. phase \in Fetched => phase' \in Fetched
    OBVIOUS
<1>7. phase \in {"stopping", "stopped"} => phase' = phase
    BY DEF Fetched
<1> QED BY <1>1, <1>2, <1>3, <1>4, <1>5, <1>6, <1>7 DEF RunInv

LEMMA RunFrame ==
    ASSUME WithRun
    PROVE  /\ Quiet(m) /\ Alike(m, m) /\ phase # "blocked" /\ m.state \notin {"jog", "door", "alarm", "estop"}
           /\ phase \notin Fetched => exec = {}
BY AlikeSelf DEF WithRun, RunInv, Resting, Moving

LEMMA ExecutiveRuns ==
    ASSUME WithRun,
           ExecAlarm \/ ExecBlocked \/ ExecReset \/ StopPrep \/ ExecOverrides \/ ExecPrep
    PROVE  RunStep
<1>0. /\ Quiet(m) /\ Alike(m, m) /\ phase # "blocked" /\ RunInv /\ cmd \in Commands \cup {"none"}
    BY RunFrame DEF WithRun, RunInv
<1>1. CASE ExecAlarm
    <2>1. m' = m /\ phase = "alarm" /\ phase' = "fetch" /\ UNCHANGED <<exec, pc, cmd>>
        BY <1>0, <1>1 DEF ExecAlarm, Quiet
    <2> QED BY <1>0, <2>1, AlikeStep DEF RunStep, CleanSync, Fetched
<1>2. CASE ExecBlocked \/ ExecReset
    <2>1. "reset" \notin exec
        BY DEF WithRun, RunInv, ProgramRequests
    <2> QED BY <1>0, <1>2, <2>1 DEF ExecBlocked, ExecReset
<1>3. CASE StopPrep \/ ExecPrep
    <2>1. /\ m' = m \/ m' \in PrepOutcomes(m)
          /\ UNCHANGED <<exec, pc, cmd>>
          /\ \/ phase = "stopping" /\ phase' = phase
             \/ phase = "prep" /\ phase' \in {"prep", "return"}
        BY <1>3 DEF StopPrep, ExecPrep
    <2>2. ASSUME NEW p \in PrepOutcomes(m) PROVE Alike(m, p)
        <3> DEFINE Like(q) ==
               /\ q.suspend = m.suspend /\ q.holding = m.holding /\ q.stepping = m.stepping
               /\ ~q.exSys /\ q.pending = "idle"
        <3>1. Kept(m, p) /\ p.state = m.state /\ p.handler = m.handler
            BY <1>0, <2>2, PrepKept DEF Quiet
        <3>2. Like(PrepRun(m))
            BY <1>0 DEF Quiet, IsMachine, Fields, PrepRun, EndOfBlock, Discarded
        <3>3. \A j : Like([m EXCEPT !.loaded = Loaded(m), !.endMotion = TRUE, !.segs = @ + j])
            BY <1>0 DEF Quiet, IsMachine, Fields
        <3>4. Like(p)
            <4> HIDE DEF Like
            <4> QED BY <2>2, <3>2, <3>3 DEF PrepOutcomes, PrepHoldEnds
        <3>5. Quiet(p)
            BY <1>0, <3>1, <3>4, QuietKept
        <3> QED BY <3>1, <3>4, <3>5 DEF Alike, Kept, Framed
    <2>3. Alike(m, m')
        BY <1>0, <2>1, <2>2
    <2> QED BY <1>0, <2>1, <2>3, AlikeStep DEF RunStep, CleanSync, Fetched
<1>4. CASE ExecOverrides
    <2>1. /\ m' = m \/ \E s : m' = [m EXCEPT !.spindleStop = s]
          /\ phase = "overrides" /\ phase' \in {"prep", "return"} /\ UNCHANGED <<exec, pc, cmd>>
        BY <1>4 DEF ExecOverrides
    <2>2. Alike(m, m')
        BY <1>0, <2>1 DEF Alike, Quiet, IsMachine, Fields
    <2> QED BY <1>0, <2>1, <2>2, AlikeStep DEF RunStep, CleanSync, Fetched
<1> QED BY <1>1, <1>2, <1>3, <1>4

LEMMA FetchRuns == ASSUME WithRun, ExecFetch PROVE RunStep
<1>1. /\ phase = "fetch" /\ exec' = m.rt /\ m' = [m EXCEPT !.rt = {}] /\ UNCHANGED <<pc, cmd>>
      /\ phase' = IF m.rt = {} THEN "overrides" ELSE "dispatch"
    BY DEF ExecFetch
<1>2. exec = {} /\ Quiet(m)
    BY <1>1, RunFrame DEF Fetched
<1>3. /\ Quiet(m') /\ m'.rt = {} /\ m'.state = m.state /\ m'.handler = m.handler
      /\ m'.suspend = m.suspend /\ m'.holding = m.holding /\ m'.stepping = m.stepping
      /\ m'.cancel = m.cancel /\ m'.blocks = m.blocks
    BY <1>1, <1>2 DEF Quiet, IsMachine, Fields
<1>4. (Resting(m') <=> Resting(m)) /\ (Moving(m') <=> Moving(m)) /\ (Ended(m', exec') <=> Ended(m, exec))
    BY <1>1, <1>2, <1>3 DEF Resting, Moving, Ended
<1>5. exec' \subseteq ProgramRequests
    BY <1>1, <1>2 DEF Quiet
<1>6. phase' # "blocked" /\ phase' # "back" /\ (exec' # {} => phase' \in Fetched)
    BY <1>1 DEF Fetched
<1>7. RunInv'
    BY <1>1, <1>2, <1>3, <1>4, <1>5, <1>6 DEF WithRun, RunInv
<1> QED BY <1>1, <1>7 DEF RunStep, CleanSync

LEMMA StateRuns == ASSUME WithRun, Simple, ExecState PROVE RunStep
<1> DEFINE n == [m EXCEPT !.resetPending = FALSE]
           u == StateUpdate(n, exec)
<1>0. RunInv /\ Quiet(m)
    BY DEF WithRun, RunInv
<1>1. /\ phase \in {"dispatch", "update"} /\ exec' = {} /\ UNCHANGED <<pc, cmd>>
      /\ Proceed(u, stack, "overrides")
    BY DEF ExecState
<1>2. /\ Quiet(n) /\ n.rt = m.rt /\ n.blocks = m.blocks /\ n.cancel = m.cancel /\ n.stepping = m.stepping
      /\ (Resting(n) <=> Resting(m)) /\ (Moving(n) <=> Moving(m))
    BY <1>0 DEF Quiet, IsMachine, Fields, Resting, Moving
<1> HIDE DEF n
<1>3. Expected(n, exec)
    <2>1. Resting(m) \/ Moving(m)
        BY <1>0, <1>1 DEF RunInv
    <2>2. /\ m.stepping => "cycle_complete" \notin exec
          /\ Resting(m) /\ "cycle_complete" \in exec => m.blocks = 0
          /\ "tool_change" \in exec => m.blocks = 0
          /\ exec \subseteq ProgramRequests
        BY <1>0 DEF RunInv, Ended
    <2> QED BY <1>2, <2>1, <2>2 DEF Expected
<1>4. Advanced(n, exec, u)
    BY <1>3, StateUpdateRuns
<1> HIDE DEF u
<1>5. m' = u /\ phase' = "overrides"
    BY <1>1, <1>4 DEF Advanced, Quiet, Proceed
<1>6. /\ Quiet(m') /\ m'.rt = m.rt /\ m'.cancel = m.cancel /\ (m.blocks = 0 => m'.blocks = 0)
      /\ Resting(m') \/ Moving(m')
      /\ "cycle_complete" \in exec => Resting(m')
      /\ Resting(m') => Resting(m) \/ "cycle_complete" \in exec
      /\ m'.stepping => m.stepping \/ (Resting(m) /\ m.blocks # 0)
      /\ Moving(m') => m'.stepping \/ Moving(m)
    BY <1>2, <1>4, <1>5 DEF Advanced, Kept, Framed
<1>7. phase \notin {"main", "alarm", "fetch", "stopping", "stopped"}
    BY <1>1
<1>8. m'.stepping => "cycle_complete" \notin m'.rt
    BY <1>0, <1>6 DEF RunInv, Ended
<1>9. ~Resting(m') => m'.stepping \/ "cycle_complete" \in m'.rt
    <2> SUFFICES ASSUME ~Resting(m'), ~m'.stepping PROVE "cycle_complete" \in m.rt
        BY <1>6
    <2>1. Moving(m) /\ ~Resting(m) /\ "cycle_complete" \notin exec
        BY <1>6, Exclusive
    <2>2. ~m.stepping
        <3>1. m.stepping => m'.stepping
            BY <2>1, <1>4, <1>5, <1>2 DEF Advanced
        <3> QED BY <3>1
    <2> QED BY <1>0, <2>1, <2>2 DEF RunInv, Ended
<1>10. Resting(m') /\ "cycle_complete" \in m'.rt => m'.blocks = 0 /\ m'.cancel
    <2> SUFFICES ASSUME Resting(m'), "cycle_complete" \in m.rt PROVE m'.blocks = 0 /\ m'.cancel
        BY <1>6
    <2>1. "cycle_complete" \notin exec
        BY <1>0 DEF RunInv
    <2>2. Resting(m)
        BY <1>6, <2>1
    <2> QED BY <1>0, <1>6, <1>7, <2>2 DEF RunInv, Ended
<1>11. m'.cancel => m'.blocks = 0
    BY <1>0, <1>6, <1>7 DEF RunInv
<1>12. "tool_change" \notin m'.rt
    BY <1>0, <1>1, <1>6 DEF RunInv
<1>13. RunInv'
    BY <1>0, <1>1, <1>5, <1>6, <1>8, <1>9, <1>10, <1>11, <1>12 DEF RunInv, Ended
<1> QED BY <1>1, <1>13 DEF RunStep, CleanSync

LEMMA ExecStopRuns == ASSUME WithRun, ExecStop PROVE RunStep
<1> DEFINE n == [m EXCEPT !.cancel = TRUE, !.resetPending = FALSE,
                          !.exHold = FALSE, !.exSys = FALSE,
                          !.endMotion = FALSE, !.toolChange = FALSE,
                          !.readSuspended = FALSE]
           c == [StReload(n) EXCEPT !.suspend = TRUE, !.exHold = TRUE,
                                    !.handler = "await_motion_cancel"]
<1>0. RunInv /\ Quiet(m)
    BY DEF WithRun, RunInv
<1>1. StateCycle(n, {"motion_cancel"}) = c
    BY DEF StateCycle
<1>2. /\ phase = "dispatch" /\ exec' = exec /\ UNCHANGED <<pc, cmd>>
      /\ m' = IF StIsStepping(n) /\ n.handler = "cycle" THEN c ELSE n
      /\ phase' = IF StIsStepping(m) THEN "stopping" ELSE "stopped"
    BY <1>1 DEF ExecStop
<1>3. /\ Quiet(n) /\ n.state = m.state /\ n.handler = m.handler /\ n.suspend = m.suspend
      /\ n.holding = m.holding /\ n.stepping = m.stepping /\ n.cancel
      /\ n.blocks = m.blocks /\ n.rt = m.rt /\ n.execBlock = m.execBlock
    BY <1>0 DEF Quiet, IsMachine, Fields
<1> HIDE DEF n
<1>4. /\ Quiet(c) /\ c.state = n.state /\ c.handler = "await_motion_cancel" /\ c.cancel
      /\ c.stepping = n.stepping /\ c.blocks = n.blocks /\ c.rt = n.rt
    BY <1>3 DEF Quiet, IsMachine, Fields, StReload
<1> HIDE DEF c
<1>5. Resting(m) \/ Moving(m)
    BY <1>0, <1>2 DEF RunInv
<1>6. /\ m'.blocks = m.blocks /\ m'.rt = m.rt /\ m'.stepping = m.stepping /\ m'.cancel /\ Quiet(m')
      /\ phase' \in {"stopping", "stopped"}
    BY <1>2, <1>3, <1>4
<1>7. Ended(m', exec') <=> Ended(m, exec)
    BY <1>2, <1>6 DEF Ended
<1>8. CASE m' = n
    <2>1. (Resting(m') <=> Resting(m)) /\ (Moving(m') <=> Moving(m))
        BY <1>3, <1>8 DEF Resting, Moving
    <2>2. RunInv'
        BY <1>0, <1>2, <1>5, <1>6, <1>7, <2>1 DEF RunInv, Fetched
    <2> QED BY <1>2, <2>2 DEF RunStep, CleanSync
<1>9. CASE m' = c /\ m'.handler = "await_motion_cancel" /\ m' # n
    <2>1. m.stepping /\ m.execBlock /\ m.handler = "cycle"
        BY <1>2, <1>3, <1>9 DEF StIsStepping
    <2>2. phase' = "stopping" /\ ~Resting(m') /\ m'.state = "cycle"
        BY <1>2, <1>3, <1>4, <1>5, <1>6, <1>9, <2>1 DEF StIsStepping, Resting, Moving
    <2>3. RunInv'
        BY <1>0, <1>2, <1>6, <1>7, <1>9, <2>1, <2>2 DEF RunInv, Fetched
    <2> QED BY <1>2, <2>3 DEF RunStep, CleanSync
<1> QED BY <1>2, <1>4, <1>8, <1>9

LEMMA StopAtRestRuns == ASSUME WithRun, StopAtRest PROVE RunStep
<1> DEFINE late == IF phase = "stopping" THEN m.rt ELSE {}
           n == [m EXCEPT !.rt = @ \ late]
           off == [DeEnergized(n) EXCEPT !.gcSpindle = FALSE,
                                         !.gcCoolant = FALSE,
                                         !.toolChange = FALSE,
                                         !.blocks = 0]
           r == StReset(off)
           k == SetIdle(r)
<1>0. RunInv /\ Quiet(m) /\ m.cancel /\ phase \in {"stopping", "stopped"}
    BY DEF WithRun, RunInv, LockInv, StopAtRest
<1>1. /\ m' = StateSet(r, IF m.door THEN "door" ELSE "idle")
      /\ exec' = (exec \cup late) \ {"stop"}
      /\ phase' = IF exec' = {} THEN "overrides" ELSE "update"
      /\ UNCHANGED <<pc, cmd>>
    BY DEF StopAtRest
<1>2. m' = k
    BY <1>0, <1>1 DEF Quiet, StateSet
<1>3. /\ IsMachine(r) /\ r.rt = m.rt \ late /\ r.call = NoDelay /\ ~r.abort /\ r.rtAlarm = "none"
      /\ ~r.door /\ ~r.estop /\ ~r.exSys /\ ~r.stepping /\ r.blocks = 0 /\ r.cancel
      /\ r.state = m.state /\ r.handler = m.handler /\ r.suspend = m.suspend /\ r.pending = "idle"
    BY <1>0 DEF Quiet, IsMachine, Fields, DeEnergized, StReset
<1> HIDE DEF r
<1>4. r.state = "idle" => Resting(r) /\ r.pending = "idle"
    BY <1>0, <1>3 DEF RunInv, Resting, Moving
<1>5. r.rt \subseteq ProgramRequests
    BY <1>0, <1>3 DEF Quiet
<1>6. Quiet(k) /\ Resting(k) /\ Kept(r, k)
    BY <1>3, <1>4, <1>5, SetIdleRests
<1> HIDE DEF k
<1>7. /\ m'.rt = m.rt \ late /\ m'.blocks = 0 /\ m'.cancel /\ ~m'.stepping /\ Quiet(m') /\ Resting(m')
    BY <1>2, <1>3, <1>6 DEF Kept, Framed, Resting
<1>8. /\ exec' \subseteq ProgramRequests /\ (exec' # {} => phase' \in Fetched)
      /\ phase' \in {"overrides", "update"}
    BY <1>0, <1>1 DEF RunInv, Quiet, Fetched
<1>9. ~("cycle_complete" \in m'.rt /\ "cycle_complete" \in exec')
    BY <1>0, <1>1, <1>7 DEF RunInv
<1>10. "tool_change" \notin m'.rt /\ ("tool_change" \in exec' => pc = "done")
    BY <1>0, <1>1, <1>7 DEF RunInv
<1>11. RunInv'
    BY <1>0, <1>1, <1>7, <1>8, <1>9, <1>10 DEF RunInv
<1> QED BY <1>1, <1>11 DEF RunStep, CleanSync

LEMMA CallersRun ==
    ASSUME WithRun, Simple, ProgramOnly,
           EnterSuspend \/ SuspendAgain \/ SuspendEnds \/ SuspendRound \/ SuspendTail \/ DelayRound \/ DelayEnds
    PROVE  RunStep
<1>0. /\ RunInv /\ Quiet(m) /\ Alike(m, m) /\ m.state # "door" /\ ~IsDelay(Top)
      /\ cmd \in Commands \cup {"none"}
    BY RunFrame, Tops DEF WithRun, RunInv
<1>1. ASSUME Alike(m, m'), UNCHANGED <<exec, pc, cmd>>, phase \in {"return", "suspended", "suspend_tail"},
             phase' \in {"suspended", "suspend_tail", "alarm"} \/ (phase' = "back" /\ (~m.suspend \/ m.cancel))
      PROVE  RunStep
    <2>1. RunInv'
        BY <1>0, <1>1, AlikeStep DEF Fetched
    <2> QED BY <1>1, <2>1 DEF RunStep, CleanSync
<1>2. CASE EnterSuspend
    <2>1. /\ \/ m' = [m EXCEPT !.blocking = m.state = "sleep"] /\ phase' = "suspended"
             \/ m' = m /\ phase' = "back" /\ ~(~Aborted(m) /\ m.suspend)
          /\ phase = "return" /\ UNCHANGED <<exec, pc, cmd>>
        BY <1>2 DEF EnterSuspend
    <2>2. Alike(m, [m EXCEPT !.blocking = m.state = "sleep"])
        BY <1>0 DEF Alike, Quiet, IsMachine, Fields
    <2>3. phase' = "back" => ~m.suspend \/ m.cancel
        BY <1>0, <2>1 DEF Aborted, Quiet
    <2> QED BY <1>0, <1>1, <2>1, <2>2, <2>3
<1>3. CASE SuspendAgain
    BY <1>0, <1>1, <1>3 DEF SuspendAgain
<1>4. CASE SuspendEnds
    BY <1>0, <1>1, <1>4 DEF SuspendEnds, SuspendLeft, Quiet
<1>5. CASE SuspendRound
    <2> DEFINE n == SuspendManager(m)
               turned(s, t) == [m EXCEPT !.spindle = s, !.spindleStop = t]
    <2>1. Proceed(n, stack, "suspend_tail") /\ phase = "suspended" /\ UNCHANGED <<exec, pc, cmd>>
        BY <1>5 DEF SuspendRound
    <2>2. n = m \/ \E s, t : n = turned(s, t)
        <3>1. \/ n = m \/ n = turned(FALSE, "enabled") \/ n = turned(m.rcSpindle, "none")
              \/ n = [m EXCEPT !.spindleStop = "none"]
            BY DEF SuspendManager, Simple, NoDelays
        <3>2. [m EXCEPT !.spindleStop = "none"] = turned(m.spindle, "none")
            BY <1>0 DEF Quiet, IsMachine, Fields
        <3> HIDE DEF n, turned
        <3> QED BY <3>1, <3>2
    <2>3. \A s, t : Alike(m, turned(s, t))
        BY <1>0 DEF Alike, Quiet, IsMachine, Fields
    <2> HIDE DEF n, turned
    <2>4. Alike(m, n)
        BY <1>0, <2>2, <2>3
    <2>5. m' = n /\ phase' = "suspend_tail"
        BY <2>1, <2>4 DEF Proceed, Alike, Quiet
    <2> QED BY <1>1, <2>1, <2>4, <2>5
<1>6. CASE SuspendTail
    <2>1. ~SleepDue(m)
        BY DEF SleepDue, ProgramOnly
    <2>2. m' = m /\ phase = "suspend_tail" /\ phase' = "alarm" /\ UNCHANGED <<exec, pc, cmd>>
        BY <1>0, <1>6, <2>1 DEF SuspendTail
    <2> QED BY <1>0, <1>1, <2>2
<1>7. CASE DelayRound \/ DelayEnds
    BY <1>0, <1>7 DEF DelayRound, DelayEnds
<1> QED BY <1>2, <1>3, <1>4, <1>5, <1>6, <1>7

\* The main program is initialized again, at rest and with nothing to do.
LEMMA ReinitializeRuns ==
    ASSUME WithRun, Reinitialize, phase = "back", pc # "sync"
    PROVE  RunStep
<1> DEFINE clear == [StReset(m) EXCEPT
                        !.suspend = FALSE, !.exHold = FALSE, !.exSys = FALSE,
                        !.endMotion = FALSE, !.holding = "no",
                        !.parking = "door_closed", !.spindleStop = "none",
                        !.rt = {}, !.rtAlarm = "none", !.abort = FALSE,
                        !.cancel = FALSE, !.resetPending = FALSE,
                        !.blocking = FALSE, !.positionLost = FALSE,
                        !.gcSpindle = FALSE, !.gcCoolant = FALSE,
                        !.toolChange = FALSE, !.readSuspended = FALSE,
                        !.blocks = 0]
           k == SetIdle(clear)
<1>0. RunInv /\ Quiet(m) /\ exec = {} /\ m.state \in {"idle", "cycle", "hold", "tool_change"}
    BY RunFrame DEF WithRun, RunInv, Fetched, Resting, Moving
<1>1. /\ IsMachine(clear) /\ clear.rt = {} /\ clear.call = NoDelay /\ ~clear.abort
      /\ clear.rtAlarm = "none" /\ ~clear.door /\ ~clear.estop /\ ~clear.exSys /\ ~clear.stepping
      /\ clear.blocks = 0 /\ ~clear.cancel /\ ~clear.suspend /\ clear.pending = "idle"
      /\ clear.state = m.state /\ clear.handler = m.handler
    BY <1>0 DEF Quiet, IsMachine, Fields, StReset
<1>2. Initialized(m) = IF clear.state = "estop" THEN Initialized(m)
                       ELSE IF clear.estop THEN RaiseAlarm(clear, "estop")
                       ELSE IF StaysLocked(clear) THEN SetLocked(clear, "alarm") ELSE k
    BY DEF Initialized
<1> HIDE DEF clear
<1>3. Initialized(m) = k
    BY <1>0, <1>1, <1>2 DEF StaysLocked
<1>4. clear.state = "idle" => Resting(clear) /\ clear.pending = "idle"
    BY <1>0, <1>1 DEF RunInv, Resting, Moving
<1>5. Quiet(k) /\ Resting(k) /\ Kept(clear, k)
    BY <1>1, <1>4, SetIdleRests
<1> HIDE DEF k
<1>6. m' = k /\ phase' = "main" /\ cmd' = "none" /\ exec' = exec
    BY <1>3, <1>5 DEF Reinitialize, Start, LineDone, Quiet
<1>7. /\ Quiet(m') /\ Resting(m') /\ m'.rt = {} /\ m'.blocks = 0 /\ ~m'.cancel /\ ~m'.stepping
    BY <1>1, <1>5, <1>6 DEF Kept, Framed, Resting
<1>8. RunInv'
    BY <1>0, <1>6, <1>7 DEF RunInv, Ended
<1> QED BY <1>8 DEF RunStep, CleanSync

LEMMA MainRuns ==
    ASSUME WithRun, ProgramOnly,
           \/ ReadCan \/ MainIdle \/ Startup \/ IdleDone \/ LineAborted
           \/ \E c \in Commands : ReadLine(c)
    PROVE  RunStep
<1>0. /\ RunInv /\ Quiet(m) /\ Alike(m, m) /\ m.state # "jog" /\ cmd \in Commands \cup {"none"}
      /\ phase \notin Fetched => exec = {}
    BY RunFrame DEF WithRun, RunInv
<1>1. ASSUME Alike(m, m'), exec' = exec, pc # "sync", cmd' \in Commands \cup {"none"},
             (phase = "main" /\ phase' \in {"main", "alarm"}) \/ (phase = "back" /\ phase' = "main")
      PROVE  RunStep
    <2>1. exec = {} /\ phase \notin {"alarm", "fetch"}
        BY <1>0, <1>1 DEF Fetched
    <2>2. RunInv'
        BY <1>0, <1>1, <2>1, AlikeStep DEF Fetched
    <2> QED BY <1>1, <2>2 DEF RunStep, CleanSync
<1>2. CASE ReadCan
    BY <1>0, <1>1, <1>2 DEF ReadCan, InMain
<1>3. CASE MainIdle
    <2>1. m' = m \/ m' = Request(m, "cycle_start")
        BY <1>3 DEF MainIdle, Execute, AutoCycleStart
    <2>2. Alike(m, m')
        BY <1>0, <2>1, AlikeSelf DEF ProgramRequests
    <2> QED BY <1>0, <1>1, <1>3, <2>2 DEF MainIdle, Execute, InMain
<1>4. CASE Startup
    BY <1>0, <1>1, <1>4 DEF Startup, Returned, LineDone
<1>5. CASE IdleDone
    <2> DEFINE n == [m EXCEPT !.cancel = FALSE]
    <2>1. ~m.abort /\ ~SleepDue(n)
        BY <1>0 DEF Quiet, SleepDue, ProgramOnly
    <2>2. m' = n /\ phase = "back" /\ phase' = "main" /\ pc # "sync" /\ cmd' = "none" /\ exec' = exec
        BY <1>5, <2>1 DEF IdleDone, Returned, LineDone
    <2>3. /\ Quiet(m') /\ ~m'.cancel /\ m'.rt = m.rt /\ m'.blocks = m.blocks /\ m'.stepping = m.stepping
          /\ (Resting(m') <=> Resting(m)) /\ (Moving(m') <=> Moving(m))
        BY <1>0, <2>2 DEF Quiet, IsMachine, Fields, Resting, Moving
    <2>4. exec = {}
        BY <1>0, <2>2 DEF Fetched
    <2>5. RunInv'
        BY <1>0, <2>2, <2>3, <2>4 DEF RunInv, Ended
    <2> QED BY <2>2, <2>5 DEF RunStep, CleanSync
<1>6. CASE LineAborted
    BY <1>6, ReinitializeRuns DEF LineAborted, Returned
<1>7. ASSUME NEW c \in Commands, ReadLine(c)
      PROVE  RunStep
    BY <1>0, <1>1, <1>7 DEF ReadLine, InMain, Execute
<1> QED BY <1>2, <1>3, <1>4, <1>5, <1>6, <1>7

LEMMA CommandsRun ==
    ASSUME WithRun, ProgramOnly, LineStarts \/ MotionBuffered \/ SyncWaits \/ SyncEnds \/ LineEnds
    PROVE  RunStep
<1>0. /\ RunInv /\ Quiet(m) /\ Alike(m, m) /\ exec = {} /\ phase = "back"
      /\ cmd \in GcodeCommands \cup {"none"} /\ cmd \in Commands \cup {"none"}
    BY RunFrame DEF WithRun, RunInv, Fetched, ProgramOnly, LineStarts, MotionBuffered, SyncWaits,
       SyncEnds, LineEnds, Returned
<1>1. ASSUME Alike(m, m'), exec' = exec, phase' \in {"main", "alarm"}, cmd' \in {cmd, "none"}
      PROVE  RunInv'
    BY <1>0, <1>1, AlikeStep DEF Fetched
<1>2. Aborted(m) <=> m.cancel
    BY <1>0 DEF Aborted, Quiet
<1>3. CASE LineStarts
    <2>1. m' = m \/ m' = Request(m, "cycle_start")
        BY <1>0, <1>3 DEF LineStarts, LineDone, Execute, GcodeCommands, AutoCycleStart, Returned,
           WithRun, CommandInv, CommandNames
    <2>2. exec' = exec /\ phase' \in {"main", "alarm"} /\ cmd' \in {cmd, "none"} /\ pc = "line"
        BY <1>3 DEF LineStarts, LineDone, Execute, Returned
    <2>3. Alike(m, m')
        BY <1>0, <2>1, AlikeSelf DEF ProgramRequests
    <2> QED BY <1>1, <2>2, <2>3 DEF RunStep, CleanSync
<1>4. CASE MotionBuffered
    <2> DEFINE n == [m EXCEPT !.blocks = @ + 1]
    <2>1. exec' = exec /\ phase' \in {"main", "alarm"} /\ cmd' \in {cmd, "none"} /\ pc = "buffer"
        BY <1>4 DEF MotionBuffered, LineDone, Execute, Returned
    <2>2. m' = m \/ m' = Request(m, "cycle_start") \/ (~Aborted(m) /\ m' = n /\ phase' = "main")
        BY <1>0, <1>4 DEF MotionBuffered, LineDone, Execute, AutoCycleStart, GcodeCommands
    <2>3. CASE m' = m \/ m' = Request(m, "cycle_start")
        <3>1. Alike(m, m')
            BY <1>0, <2>3, AlikeSelf DEF ProgramRequests
        <3> QED BY <1>1, <2>1, <3>1 DEF RunStep, CleanSync
    <2>4. CASE ~Aborted(m) /\ m' = n /\ phase' = "main"
        <3>1. /\ Quiet(m') /\ ~m'.cancel /\ m'.rt = m.rt /\ m'.stepping = m.stepping
              /\ (Resting(m') <=> Resting(m)) /\ (Moving(m') <=> Moving(m))
            BY <1>0, <1>2, <2>4 DEF Quiet, IsMachine, Fields, Resting, Moving
        <3>2. "tool_change" \notin m.rt /\ ~(Resting(m) /\ "cycle_complete" \in m.rt)
            BY <1>0, <1>2, <2>4 DEF RunInv
        <3>3. RunInv'
            BY <1>0, <2>1, <2>4, <3>1, <3>2 DEF RunInv, Ended
        <3> QED BY <2>1, <3>3 DEF RunStep, CleanSync
    <2> QED BY <2>2, <2>3, <2>4
<1>5. CASE SyncWaits
    BY <1>0, <1>1, <1>5 DEF SyncWaits, Execute, RunStep, CleanSync
<1>6. CASE SyncEnds
    <2> DEFINE change == Request([m EXCEPT !.toolChange = TRUE], "tool_change")
               on == [m EXCEPT !.spindle = TRUE, !.gcSpindle = TRUE, !.coolant = TRUE, !.gcCoolant = TRUE]
               off == [DeEnergized(m) EXCEPT !.gcSpindle = FALSE, !.gcCoolant = FALSE]
               hold == Request(m, "feed_hold")
    <2>1. /\ \/ m' \in {m, on, off, hold}
             \/ m' = change /\ phase' = "alarm" /\ pc' = "done"
          /\ exec' = exec /\ phase' \in {"main", "alarm"} /\ cmd' \in {cmd, "none"}
        <3> HIDE DEF change, on, off, hold
        <3>0. cmd \in Syncing
            BY <1>6 DEF SyncEnds, Returned, WithRun, CommandInv
        <3>1. CASE cmd = "tool_change"
            BY <1>6, <3>1 DEF SyncEnds, Execute, change
        <3>2. CASE cmd = "accessories"
            BY <1>6, <3>2 DEF SyncEnds, LineDone, on
        <3>3. CASE cmd = "end" \/ (cmd = "pause" /\ m.cancel)
            BY <1>6, <3>3 DEF SyncEnds, LineDone, off
        <3>4. CASE cmd = "pause" /\ ~m.cancel
            BY <1>6, <3>4 DEF SyncEnds, Execute, hold
        <3> QED BY <3>0, <3>1, <3>2, <3>3, <3>4 DEF Syncing
    <2>2. Alike(m, on) /\ Alike(m, off) /\ Alike(m, hold)
        <3>1. Alike(m, hold)
            BY <1>0, AlikeSelf DEF ProgramRequests
        <3>2. Alike(m, on) /\ Alike(m, off)
            BY <1>0 DEF Alike, Quiet, IsMachine, Fields, DeEnergized
        <3> QED BY <3>1, <3>2
    <2>3. /\ Quiet(change) /\ change.rt = m.rt \cup {"tool_change"} /\ change.blocks = m.blocks
          /\ change.cancel = m.cancel /\ change.stepping = m.stepping
          /\ (Resting(change) <=> Resting(m)) /\ (Moving(change) <=> Moving(m))
        BY <1>0 DEF Quiet, IsMachine, Fields, Resting, Moving, Request, ProgramRequests
    <2> HIDE DEF change, on, off, hold
    <2>4. CleanSync
        <3>1. ~Aborted(m) => ~m.suspend /\ m.state # "cycle"
            BY <1>0, <1>2, <1>6 DEF RunInv, SyncEnds, Synchronized
        <3>2. ~Aborted(m) => Resting(m)
            BY <1>0, <3>1 DEF RunInv, Moving
        <3> QED BY <3>2 DEF CleanSync, Resting
    <2>5. CASE m' = change /\ phase' = "alarm" /\ pc' = "done"
        <3>1. m.blocks = 0
            BY <1>0, <1>2, <1>6 DEF RunInv, SyncEnds, Synchronized
        <3>2. RunInv'
            BY <1>0, <2>1, <2>3, <2>5, <3>1 DEF RunInv, Ended
        <3> QED BY <2>4, <3>2 DEF RunStep
    <2>6. CASE m' \in {m, on, off, hold}
        <3>1. RunInv'
            BY <1>0, <1>1, <2>1, <2>2, <2>6
        <3> QED BY <2>4, <3>1 DEF RunStep
    <2> QED BY <2>1, <2>5, <2>6
<1>7. CASE LineEnds
    BY <1>0, <1>1, <1>7 DEF LineEnds, Returned, LineDone, RunStep, CleanSync
<1> QED BY <1>3, <1>4, <1>5, <1>6, <1>7

LEMMA InterruptsRun ==
    ASSUME WithRun, ProgramOnly, Environment \/ Stepper, ~\E c \in Commands : ReadLine(c)
    PROVE  RunStep
<1>0. RunInv /\ Quiet(m) /\ Alike(m, m) /\ phase # "blocked" /\ cmd \in Commands \cup {"none"}
    BY RunFrame DEF WithRun, RunInv
<1>1. UNCHANGED <<phase, exec, pc, cmd>>
    BY DEF Environment, Stepper, KeyCycleStart, KeyFeedHold, KeyReset, KeyStop, KeyJogCancel,
           KeySpindleStop, DoorOpens, DoorCloses, EstopPressed, EstopReleased, HardLimit,
           StepSegment, StepsExhausted, Interrupt
<1>2. ASSUME Alike(m, m') PROVE RunStep
    <2>1. phase' = "back" => ~m.suspend \/ m.cancel
        BY <1>0, <1>1 DEF RunInv
    <2>2. RunInv'
        BY <1>0, <1>1, <1>2, <2>1, AlikeStep
    <2> QED BY <1>1, <2>2 DEF RunStep, CleanSync
<1>3. CASE Environment
    <2>1. KeyCycleStart \/ KeyFeedHold \/ KeyStop \/ KeySpindleStop
        BY <1>0, <1>3 DEF Environment, ProgramOnly, Quiet, KeyReset, KeyJogCancel, DoorOpens,
           DoorCloses, EstopPressed, EstopReleased, HardLimit
    <2>2. m' \in {m, [Request(m, "cycle_start") EXCEPT !.toolChange = FALSE],
                  Request(m, "feed_hold"), Request(m, "stop")}
        BY <2>1 DEF KeyCycleStart, KeyFeedHold, KeyStop, KeySpindleStop, Interrupt
    <2>3. Alike(m, [Request(m, "cycle_start") EXCEPT !.toolChange = FALSE])
        BY <1>0 DEF Alike, Quiet, IsMachine, Fields, Request, ProgramRequests
    <2>4. Alike(m, m')
        BY <1>0, <2>2, <2>3, AlikeSelf DEF ProgramRequests
    <2> QED BY <1>2, <2>4
<1>4. CASE StepSegment
    <2>1. PICK z : m' = [m EXCEPT !.segs = @ - 1, !.execBlock = TRUE, !.z = z]
        BY <1>4 DEF StepSegment, Interrupt
    <2>2. Alike(m, m')
        BY <1>0, <2>1 DEF Alike, Quiet, IsMachine, Fields
    <2> QED BY <1>2, <2>2
<1>5. CASE StepsExhausted
    <2>1. m.stepping /\ m' = Request([StGoIdle(m) EXCEPT !.execBlock = FALSE], "cycle_complete")
        BY <1>5 DEF StepsExhausted, Interrupt
    <2>2. /\ Quiet(m') /\ ~m'.stepping /\ m'.rt = m.rt \cup {"cycle_complete"} /\ m'.blocks = m.blocks
          /\ m'.cancel = m.cancel /\ m'.state = m.state /\ m'.handler = m.handler
          /\ m'.suspend = m.suspend /\ m'.holding = m.holding
        BY <1>0, <2>1 DEF Quiet, IsMachine, Fields, Request, StGoIdle, ProgramRequests
    <2>3. ~Resting(m) /\ ~Resting(m') /\ (Moving(m') <=> Moving(m))
        BY <1>0, <2>1, <2>2 DEF RunInv, Resting, Moving
    <2>4. ~Ended(m, exec) /\ Ended(m', exec')
        BY <1>0, <1>1, <2>1, <2>2 DEF RunInv, Ended
    <2>5. RunInv'
        BY <1>0, <1>1, <2>2, <2>3, <2>4 DEF RunInv, Ended
    <2> QED BY <1>1, <2>5 DEF RunStep, CleanSync
<1> QED BY <1>3, <1>4, <1>5 DEF Stepper

LEMMA StepRuns ==
    ASSUME WithRun, Simple, ProgramOnly, [Next]_vars
    PROVE  RunStep
<1>1. CASE Foreground
    BY <1>1, ExecutiveRuns, FetchRuns, StateRuns, ExecStopRuns, StopAtRestRuns, CallersRun, MainRuns,
       CommandsRun DEF Foreground
<1>2. CASE Environment \/ Stepper
    BY <1>2, MainRuns, InterruptsRun
<1>3. CASE UNCHANGED vars
    BY <1>3 DEF vars, WithRun, RunStep, RunInv, CleanSync, Quiet, Resting, Moving, Ended
<1> QED BY <1>1, <1>2, <1>3 DEF Next

LEMMA RunInvariant ==
    ASSUME Simple, ProgramOnly
    PROVE  Spec => []WithRun
<1>1. Init => WithRun
    <2>1. Init => RunInv
        BY DEF Init, PowerUp, RunInv, Quiet, Resting, Moving, Ended, IsMachine, Fields, States, Locked
    <2>2. Init => CommandInv
        BY DEF Init, CommandInv
    <2> QED BY <2>1, <2>2, InitLocked DEF WithRun
<1>2. WithRun /\ [Next]_vars => WithRun'
    BY StepRuns, StepLocked, CommandStep DEF WithRun, RunStep, LockStep, Simple
<1> QED BY <1>1, <1>2, PTL DEF Spec

\* Motions have an owner (state_machine.c, protocol.c, stepper.c): while a program runs, and
\* the operator holds, stops and resumes it in whatever order, the steppers only run in a
\* state that preps segments for them, and never in a hold reported as complete.
THEOREM MotionStaysOwned ==
    ASSUME Simple, ProgramOnly
    PROVE  Spec => []MotionOwned
<1>1. WithRun => MotionOwned
    BY DEF WithRun, RunInv, MotionOwned, Resting, Moving, MotionStates
<1> QED BY <1>1, RunInvariant, PTL

\* No lost wakeup (EXEC_CYCLE_COMPLETE of stepper.c, protocol_exec_rt_system): under the same
\* conditions a handler that waits for the end of a motion has one that will end, or its end
\* is among the requests not yet seen.
THEOREM WaitersAreWoken ==
    ASSUME Simple, ProgramOnly
    PROVE  Spec => []WaitersWake
<1>1. WithRun => WaitersWake
    <2>1. WithRun => (Waiting => ~Resting(m))
        BY DEF WithRun, RunInv, Waiting, Resting, Moving
    <2> QED BY <2>1 DEF WithRun, RunInv, WaitersWake, Ended
<1> QED BY <1>1, RunInvariant, PTL

\* "waits for clean cycle end" (protocol_buffer_synchronize): under the same conditions the
\* caller of a synchronization that was not aborted finds the steppers at rest.
THEOREM SyncsEndAtRest ==
    ASSUME Simple, ProgramOnly
    PROVE  Spec => SyncEndsAtRest
<1>1. WithRun /\ [Next]_vars => [pc = "sync" /\ pc' # "sync" /\ ~Aborted(m) => ~m.stepping]_vars
    BY StepRuns DEF RunStep, CleanSync
<1> QED BY <1>1, RunInvariant, PTL DEF Spec, SyncEndsAtRest
=============================================================================
