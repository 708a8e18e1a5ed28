-------------------------- MODULE ProtocolProperties --------------------------
(***************************************************************************)
(* What the real-time executive must guarantee, whatever the order of      *)
(* requests, interrupts and foreground steps.                              *)
(***************************************************************************)
EXTENDS Protocol

\* A reset or an alarm is on its way: the machine is about to be stopped for
\* good and a handler may wait in vain for the rest of a motion.
Ending == "reset" \in m.rt \cup exec \/ m.abort \/ m.rtAlarm # "none"

Locked == {"alarm", "estop"}

-----------------------------------------------------------------------------
(* Safety.                                                                 *)

\* The steppers only run in a state that preps segments for them, and never in
\* a hold reported as complete (Hold_Complete, "Hold:0").
MotionOwned ==
    m.stepping => /\ m.state \in MotionStates
                  /\ m.state = "hold" => m.holding = "pending"

\* Handlers that wait for EXEC_CYCLE_COMPLETE, and the states that end by it.
Waiting ==
    \/ m.handler \in {"await_hold", "await_motion_cancel", "restore",
                      "await_waypoint_retract", "await_restart_retract"}
    \/ m.handler = "await_resumed" /\ Top.at \notin {"spindle", "coolant"}
    \/ m.state \in {"cycle", "jog"}

\* No lost wakeup: whoever waits for the end of a motion has a motion that will
\* end, or its end is among the requests not yet seen.
WaitersWake ==
    Waiting => \/ m.stepping
               \/ "cycle_complete" \in m.rt \cup exec
               \/ Ending

\* protocol_buffer_synchronize "waits for clean cycle end": unless it was
\* aborted, its caller finds the steppers at rest.
SyncEndsAtRest ==
    [][pc = "sync" /\ pc' # "sync" /\ ~Aborted(m) => ~m.stepping]_vars

\* The cycle resumes, from a hold or a safety door, with spindle and coolant as
\* they were when it was interrupted (restore_condition), except while a reset
\* is being handled.
AccessoriesRestored ==
    [][m.state \in {"hold", "door"} /\ m'.state = "cycle" /\ ~m.abort =>
          m'.spindle = m.rcSpindle /\ m'.coolant = m.rcCoolant]_vars

\* A safety door hold that has come to its end leaves the spindle, and the
\* coolant unless it is to be kept on, switched off.
DoorDeEnergized ==
    m.state = "door" /\ m.handler = "await_resume" =>
        ~m.spindle /\ (m.coolant => KeepCoolantOn)

\* With the state at safety door the machine moves to stop or to park only: it
\* never goes on with the program.
DoorHolds == [](m.state = "door" /\ m.stepping => m.exHold \/ m.exSys)

\* A resume from the safety door.
Resumes == /\ m.state = "door" /\ m.handler = "await_resume"
           /\ m'.handler \in {"restore", "await_resumed", "cycle"}

\* "Resume door state when parking motion has retracted ..." (state_machine.c).
ResumesWhenRetracted == [][Resumes => ~m.exSys]_vars

\* "... and door has been closed."
ResumesWithDoorClosed == [][Resumes => ~m.door]_vars

\* Parking gives the program back the position it was interrupted at, which is
\* the work position, however often the way back was itself interrupted.
ResumeWhereStopped ==
    [][m.state = "door" /\ m'.state = "cycle" => m'.z = Work]_vars

\* Both: the program goes on where, and as, it was interrupted.
ResumesAsStopped == AccessoriesRestored /\ ResumeWhereStopped

\* "Block if safety door re-opened during prior restore actions": a door opened
\* while accessories are restored sends the machine back to retract; the plunge
\* that was to follow does not begin, whatever delay was under way.
ReopenedRetracts ==
    [][m.restoring /\ m.restart /\ m.state = "door"
        => m'.parking # "resuming" /\ m'.state # "cycle"]_vars

\* The three together: no motion of the program while parking, none back to the
\* work before the one to the park position has ended, nor with the door open
\* again.
ParkingInOrder == DoorHolds /\ ResumesWhenRetracted /\ ReopenedRetracts

\* An alarm lock is only released by $X or by a stop, through any number of
\* resets, keys and lines.
AlarmLatched ==
    [][m.state \in Locked /\ m'.state \notin Locked =>
          cmd = "unlock" \/ m'.cancel]_vars

\* In an alarm the spindle and coolant are off.
AlarmDeEnergized == m.state \in Locked => ~m.spindle /\ ~m.coolant

\* A reset request disappears, and not because a critical alarm or a
\* re-initialization answers it.
TakesReset ==
    /\ "reset" \in m.rt \cup exec /\ "reset" \notin m'.rt \cup exec'
    /\ phase \notin {"alarm", "blocked", "back"}

\* The branch for resets: abort or, with the e-stop asserted, its alarm.
ResetTaken == m'.abort \/ (m'.estop /\ m'.alarm = "estop")

\* A reset request is taken by the branch for resets, before and after it was
\* fetched, whatever else is requested; with one exception: a request posted
\* while a stop waits for the motion to end is merged with those fetched after
\* that branch (protocol.c:585), and goes to the state machine, which drops it.
ResetNotSwallowed ==
    [][/\ TakesReset => ResetTaken \/ phase = "update"
       /\ phase # "update" /\ phase' = "update" /\ "reset" \in exec'
            => phase = "stopping" /\ "reset" \in m.rt /\ "reset" \notin exec]_vars

\* Asleep: everything off and at rest.
SleepOff ==
    m.state = "sleep" /\ m.handler = "noop" =>
        ~m.spindle /\ ~m.coolant /\ ~m.stepping

\* Whatever stopped the machine - a door, an alarm, sleep - left nothing on.
StoppedIsOff == DoorDeEnergized /\ AlarmDeEnergized /\ SleepOff

\* A cancelled jog leaves nothing of it in the planner; after an alarm the
\* reset empties it.
JogFlushed ==
    [][m.state = "jog" /\ m.handler = "await_motion_cancel"
       /\ m'.state \notin {"jog"} \cup Locked => m'.blocks = 0]_vars

-----------------------------------------------------------------------------
(* Liveness, under LiveSpec.                                               *)

\* A delay ends although its rounds are interrupted: it counts its steps down.
TimedSpec == LiveSpec /\ SF_vars(DelayEnds)

\* A feed hold that decelerates comes to its end.
HoldCompletes == m.holding = "pending" ~> m.holding # "pending"

\* A synchronizing command gets through, or waits for the operator in a suspend.
SyncGetsThrough == pc = "sync" ~> pc # "sync" \/ m.suspend

\* A reset always gets the main program back to its initialization.
AbortRestarts == m.abort ~> ~m.abort

\* The foreground, which polls for all of these, is never stuck: neither in a
\* hold, nor in a synchronizing command, nor in whatever a reset interrupted.
ForegroundProgresses == HoldCompletes /\ SyncGetsThrough /\ AbortRestarts

-----------------------------------------------------------------------------
(* What comments of the source promise and the code does not keep: the     *)
(* section Deviations of the README says how each of these is violated.    *)

\* While conditions are restored the coolant is not switched on once the door
\* was opened again ("Block if safety door re-opened during prior restore
\* actions", state_restore_conditions).
CoolantStaysOffWithDoorOpen ==
    [][m.state = "door" /\ DoorReopened(m) => (m'.coolant => m.coolant)]_vars

\* While a critical event blocks everything the spindle and coolant are off.
BlockedDeEnergized == phase = "blocked" => ~m.spindle /\ ~m.coolant

\* A reset leaves the spindle and coolant off ("Kill spindle and coolant.",
\* protocol_exec_rt_system), whatever the reset interrupted.
AbortDeEnergized == m.abort => ~m.spindle /\ ~m.coolant

\* A reset that killed the steppers brings the machine up in an alarm.
PositionLostAlarms ==
    [][m.abort /\ ~m'.abort /\ phase = "back" /\ m.positionLost =>
          m'.state \in Locked]_vars
=============================================================================
