------------------------------ MODULE Protocol ------------------------------
(***************************************************************************)
(* The real-time executive: protocol_main_loop, protocol_execute_realtime, *)
(* protocol_exec_rt_system and protocol_exec_rt_suspend of protocol.c, the *)
(* re-initialization of grbllib.c, the commands that synchronize with the  *)
(* machine, and the interrupt handlers that post requests to it.           *)
(*                                                                         *)
(* The foreground is one thread.  `phase' is where it is in                *)
(* protocol_exec_rt_system, `stack' the functions that called it: the main *)
(* program, the suspend loop, a delay inside a state handler (which runs   *)
(* protocol_exec_rt_system again).  An interrupt can come between any two  *)
(* actions of the foreground, and runs to its end.                         *)
(***************************************************************************)
EXTENDS StateMachine

CONSTANTS Inputs,     \* what operator, pins and senders do: names below
          Commands,   \* commands the sender sends: names below
          Patient,    \* cycle start is only pressed when a motion has ended and
                      \* its end was seen by the executive
          Starves,    \* the step segment buffer can run dry within a motion
          MaxNest     \* bound: depth of the stack at which cycle start is pressed

InputNames == {"cycle_start", "feed_hold", "stop", "reset", "door", "estop",
               "hard_limit", "jog_cancel", "spindle_stop", "sleep_timeout"}
CommandNames == {"motion", "jog", "pause", "end", "tool_change",
                 "accessories", "unlock", "sleep"}

ASSUME EnvironmentAssumption ==
    Inputs \subseteq InputNames /\ Commands \subseteq CommandNames
ASSUME TimingAssumption == {Patient, Starves} \subseteq BOOLEAN
ASSUME NestAssumption == MaxNest \in Nat /\ MaxNest > 0

VARIABLES m,        \* the machine record
          phase,    \* program counter of the foreground in the executive
          stack,    \* callers of protocol_exec_rt_system, outermost first
          exec,     \* rt_exec, the requests being processed
          pc,       \* why the main program called protocol_execute_realtime
          cmd,      \* the command the main program is executing
          can,      \* ASCII_CAN is in the input stream
          stopKey   \* spindle stop is in the spindle override queue

vars == <<m, phase, stack, exec, pc, cmd, can, stopKey>>

MainFrame == [NoDelay EXCEPT !.at = "main"]
SuspendFrame == [NoDelay EXCEPT !.at = "suspend"]
Frames == Delays \cup {MainFrame, SuspendFrame}

Phases == {"main", "alarm", "fetch", "dispatch", "stopping", "stopped",
           "update", "overrides", "prep", "return", "back", "suspended", "suspend_tail", "blocked"}

Init ==
    /\ m = PowerUp
    /\ phase = "main" /\ stack = <<MainFrame>> /\ exec = {}
    /\ pc = "loop" /\ cmd = "none"
    /\ can = FALSE /\ stopKey = FALSE

Top == stack[Len(stack)]
Popped == SubSeq(stack, 1, Len(stack) - 1)

\* delay_sec called with DelayMode_Dwell, and the main program, call
\* protocol_execute_realtime; the others protocol_exec_rt_system.
EntersSuspend(frame) == frame.at = "main" \/ frame.dwell

\* Continue at `next' with machine n and callers `frames', or in the delay n
\* has entered.  A handler called back has no delay to wait for.
Proceed(n, frames, next) ==
    IF n.call = NoDelay
    THEN /\ m' = n /\ stack' = frames /\ phase' = next
    ELSE /\ m' = [n EXCEPT !.call = NoDelay]
         /\ stack' = Append(frames, n.call)
         /\ phase' = IF n.call.at = "restore_again" THEN "return" ELSE "alarm"

-----------------------------------------------------------------------------
(* protocol_exec_rt_system.                                                *)

\* system_raise_alarm
RaiseAlarm(n, alarm) ==
    IF n.alarm = alarm THEN n
    ELSE SetLocked([n EXCEPT !.alarm = alarm,
                             !.blocking = alarm \in CriticalAlarms],
                   IF alarm = "estop" THEN "estop" ELSE "alarm")

\* A pending alarm is raised; a critical one blocks until a reset.
ExecAlarm ==
    /\ phase = "alarm"
    /\ LET resetting == "reset" \in m.rt
           off == IF resetting THEN DeEnergized(m) ELSE m
           critical == m.rtAlarm \in CriticalAlarms
           raised == [RaiseAlarm([off EXCEPT !.resetPending = resetting,
                                             !.rtAlarm = "none"], m.rtAlarm)
                         EXCEPT !.blocking = critical]
       IN IF m.rtAlarm = "none" THEN phase' = "fetch" /\ UNCHANGED m
          ELSE IF critical
          THEN /\ m' = [raised EXCEPT !.rtAlarm = m.rtAlarm,
                                      !.rt = @ \ {"reset"}]
               /\ phase' = "blocked"
          ELSE m' = raised /\ phase' = "fetch"
    /\ UNCHANGED <<stack, exec, pc, cmd, can, stopKey>>

\* The loop after a critical alarm leaves once a reset was requested and the
\* e-stop is released.
ExecBlocked ==
    /\ phase = "blocked"
    /\ LET looped == [m EXCEPT !.abort = "reset" \in m.rt]
       IN IF looped.abort /\ ~m.estop
          THEN m' = [looped EXCEPT !.rtAlarm = "none"] /\ phase' = "return"
          ELSE m' = looped /\ UNCHANGED phase
    /\ UNCHANGED <<stack, exec, pc, cmd, can, stopKey>>

\* system_clear_exec_states: get and clear atomically.
ExecFetch ==
    /\ phase = "fetch"
    /\ exec' = m.rt
    /\ m' = [m EXCEPT !.rt = {}]
    /\ phase' = IF m.rt = {} THEN "overrides" ELSE "dispatch"
    /\ UNCHANGED <<stack, pc, cmd, can, stopKey>>

\* A reset request: everything off; abort unless the e-stop is asserted.
ExecReset ==
    /\ phase = "dispatch" /\ "reset" \in exec
    /\ LET n == [DeEnergized(m) EXCEPT !.resetPending = TRUE,
                                       !.abort = ~m.estop]
       IN m' = IF m.estop THEN RaiseAlarm(n, "estop") ELSE n
    /\ phase' = "return" /\ exec' = {}
    /\ UNCHANGED <<stack, pc, cmd, can, stopKey>>

\* A stop request: a motion is cancelled first, with step_control cleared.
\* state_cycle is the only handler that looks at EXEC_MOTION_CANCEL.
ExecStop ==
    /\ phase = "dispatch" /\ "reset" \notin exec /\ "stop" \in exec
    /\ LET stop(n) == [n EXCEPT !.cancel = TRUE, !.resetPending = FALSE,
                                !.exHold = FALSE, !.exSys = FALSE,
                                !.endMotion = FALSE, !.toolChange = FALSE,
                                !.readSuspended = FALSE]
           cancel(n) == IF StIsStepping(n) /\ n.handler = "cycle"
                        THEN StateCycle(n, {"motion_cancel"}) ELSE n
       IN m' = cancel(stop(m))
    /\ phase' = IF StIsStepping(m) THEN "stopping" ELSE "stopped"
    /\ can' = (can \/ m.readSuspended)
    /\ UNCHANGED <<stack, exec, pc, cmd, stopKey>>

\* st_prep_buffer is called until the motion has ended.
StopPrep ==
    /\ phase = "stopping" /\ StIsStepping(m) /\ ~PrepBlocked(m)
    /\ m' \in PrepOutcomes(m)
    /\ UNCHANGED <<phase, stack, exec, pc, cmd, can, stopKey>>

\* The end of a stop: gc_init, plan_reset, st_reset, all off, a new state; the
\* requests fetched with the stop or posted while it waited come next.
StopAtRest ==
    /\ phase = "stopped" \/ (phase = "stopping" /\ ~StIsStepping(m))
    /\ LET reset(n) == StReset([DeEnergized(n) EXCEPT !.gcSpindle = FALSE,
                                                      !.gcCoolant = FALSE,
                                                      !.toolChange = FALSE,
                                                      !.blocks = 0])
           late == IF phase = "stopping" THEN m.rt ELSE {}
       IN /\ m' = StateSet(reset([m EXCEPT !.rt = @ \ late]),
                           IF m.door THEN "door" ELSE "idle")
          /\ exec' = (exec \cup late) \ {"stop"}
    /\ phase' = IF exec' = {} THEN "overrides" ELSE "update"
    /\ stopKey' = FALSE
    /\ UNCHANGED <<stack, pc, cmd, can>>

\* Mutant: the requests are cleared after they were handled.
ExecStateThenClear ==
    /\ phase = "dispatch" /\ exec \cap {"reset", "stop"} = {}
    /\ Proceed([StateUpdate(m, exec) EXCEPT !.rt = {}], stack, "overrides")
    /\ exec' = {}
    /\ UNCHANGED <<pc, cmd, can, stopKey>>

\* All other requests go to the state machine.
ExecState ==
    /\ \/ phase = "dispatch" /\ exec \cap {"reset", "stop"} = {}
       \/ phase = "update"
    /\ Proceed(StateUpdate([m EXCEPT !.resetPending = FALSE], exec),
               stack, "overrides")
    /\ exec' = {}
    /\ UNCHANGED <<pc, cmd, can, stopKey>>

MotionStates == {"cycle", "hold", "door", "sleep", "jog"}

\* The spindle stop override is only taken in a hold, with the spindle on.
ExecOverrides ==
    /\ phase = "overrides"
    /\ m' = IF stopKey /\ m.state = "hold" /\ m.gcSpindle
            THEN [m EXCEPT !.spindleStop = CASE @ = "none"    -> "initiate"
                                             [] @ = "enabled" -> "restore"
                                             [] OTHER         -> @]
            ELSE m
    /\ stopKey' = FALSE
    /\ phase' = IF m.state \in MotionStates THEN "prep" ELSE "return"
    /\ UNCHANGED <<stack, exec, pc, cmd, can>>

\* st_prep_buffer, one round of its loop at a time.
ExecPrep ==
    /\ phase = "prep"
    /\ IF PrepBlocked(m) THEN phase' = "return" /\ UNCHANGED m
       ELSE m' \in PrepOutcomes(m) /\ UNCHANGED phase
    /\ UNCHANGED <<stack, exec, pc, cmd, can, stopKey>>

-----------------------------------------------------------------------------
(* The callers: protocol_execute_realtime, the suspend loop, delay_sec.    *)

\* protocol_execute_realtime after protocol_exec_rt_system.
EnterSuspend ==
    /\ phase = "return" /\ EntersSuspend(Top)
    /\ IF ~Aborted(m) /\ m.suspend
       THEN /\ stack' = Append(stack, SuspendFrame)
            /\ m' = [m EXCEPT !.blocking = m.state = "sleep"]
            /\ phase' = "suspended"
       ELSE phase' = "back" /\ UNCHANGED <<m, stack>>
    /\ UNCHANGED <<exec, pc, cmd, can, stopKey>>

SuspendAgain ==
    /\ phase = "return" /\ Top = SuspendFrame
    /\ phase' = "suspended"
    /\ UNCHANGED <<m, stack, exec, pc, cmd, can, stopKey>>

\* Mutant: a reset does not break the loop.
SuspendOver == ~m.suspend

SuspendLeft == ~m.suspend \/ m.abort

SuspendEnds ==
    /\ phase = "suspended" /\ SuspendLeft
    /\ stack' = Popped /\ phase' = "back"
    /\ UNCHANGED <<m, exec, pc, cmd, can, stopKey>>

SuspendRound ==
    /\ phase = "suspended" /\ ~SuspendLeft
    /\ Proceed(SuspendManager(m), stack, "suspend_tail")
    /\ UNCHANGED <<exec, pc, cmd, can, stopKey>>

\* Issue door closed requests, see to the sleep timeout, execute requests.
SleepDue(n) ==
    /\ "sleep_timeout" \in Inputs /\ n.rt = {} /\ n.rtAlarm = "none"
    /\ n.gcSpindle \/ n.gcCoolant
    /\ \/ n.state = "idle"
       \/ n.state = "hold" /\ n.holding = "complete"
       \/ n.state = "door" /\ n.parking = "door_ajar"

SuspendTail ==
    /\ phase = "suspend_tail"
    /\ LET n == IF m.state = "door" /\ ~m.door THEN Request(m, "door_closed")
                ELSE m
       IN m' \in {n} \cup (IF SleepDue(n) THEN {Request(n, "sleep")} ELSE {})
    /\ phase' = "alarm"
    /\ UNCHANGED <<stack, exec, pc, cmd, can, stopKey>>

\* delay_sec: again, or its time is up; it bails out when aborted and, in a
\* suspend, when the door was opened again.
IsDelay(frame) == frame \in Delays

DelayRound ==
    /\ \/ phase = "return" /\ IsDelay(Top) /\ ~Top.dwell /\ ~DoorReopened(m)
       \/ phase = "back" /\ IsDelay(Top)
    /\ Top.at # "restore_again" /\ ~Aborted(m)
    /\ phase' = "alarm"
    /\ UNCHANGED <<m, stack, exec, pc, cmd, can, stopKey>>

DelayEnds ==
    /\ IsDelay(Top)
    /\ phase = IF Top.dwell THEN "back" ELSE "return"
    /\ Proceed(Continue(m, Top), Popped,
               IF Top.at = "suspend_spindle" THEN "suspend_tail"
               ELSE "overrides")
    /\ UNCHANGED <<exec, pc, cmd, can, stopKey>>
-----------------------------------------------------------------------------
(* protocol_main_loop and the commands.                                    *)

\* protocol_auto_cycle_start
AutoCycleStart(n) ==
    IF ~Aborted(n) /\ n.blocks > 0 THEN Request(n, "cycle_start") ELSE n

\* The main program calls protocol_execute_realtime for reason r.
Execute(n, r) == m' = n /\ pc' = r /\ phase' = "alarm"

\* ... and has nothing more to do for this line.
LineDone(n) == m' = n /\ pc' = "loop" /\ phase' = "main" /\ cmd' = "none"

InMain == phase = "main" /\ pc = "loop"

Returned(r) == phase = "back" /\ Top = MainFrame /\ pc = r

\* Jog cancel empties the input and leaves ASCII_CAN in it.
ReadCan ==
    /\ InMain /\ ~Aborted(m) /\ can
    /\ can' = FALSE
    /\ m' = IF m.state = "jog" THEN Request(m, "motion_cancel") ELSE m
    /\ UNCHANGED <<phase, stack, exec, pc, cmd, stopKey>>

ReadLine(c) ==
    /\ InMain /\ ~Aborted(m) /\ ~can /\ ~m.readSuspended
    /\ cmd' = c
    /\ Execute(m, "line")
    /\ UNCHANGED <<stack, exec, can, stopKey>>

\* No more input: auto cycle start, then the run-time check point.
MainIdle ==
    /\ InMain /\ ~can
    /\ Execute(AutoCycleStart(m), "idle")
    /\ UNCHANGED <<stack, exec, cmd, can, stopKey>>

\* Mutant: an alarm is forgotten by a reset.
LockedWhenAsleep(n) == n.state = "sleep"

\* protocol_main_loop: "Ensure alarm state is set."
StaysLocked(n) == n.state \in {"alarm", "sleep"}

\* Initialization loop of grbl_enter: sys is cleared but for the alarm, the
\* statics of state_machine.c keep their values; then protocol_main_loop
\* chooses the state to start in.
Initialized(n) ==
    LET clear(k) ==
            [StReset(k) EXCEPT
                !.suspend = FALSE, !.exHold = FALSE, !.exSys = FALSE,
                !.endMotion = FALSE, !.holding = "no",
                !.parking = "door_closed", !.spindleStop = "none",
                !.rt = {}, !.rtAlarm = "none", !.abort = FALSE,
                !.cancel = FALSE, !.resetPending = FALSE,
                !.blocking = FALSE, !.positionLost = FALSE,
                !.gcSpindle = FALSE, !.gcCoolant = FALSE,
                !.toolChange = FALSE, !.readSuspended = FALSE,
                !.blocks = 0]
        unlock(k) == IF k.state = "estop" THEN SetLocked(k, "alarm") ELSE k
        start(k) == IF k.estop THEN RaiseAlarm(k, "estop")
                    ELSE IF StaysLocked(k) THEN SetLocked(k, "alarm")
                    ELSE SetIdle(k)
    IN start(unlock(clear(n)))

\* With the safety door open the loop starts with a request for it.
Start(n) ==
    IF n.state = "idle" /\ n.door
    THEN Execute(Request(n, "safety_door"), "startup") /\ cmd' = "none"
    ELSE LineDone(n)

Reinitialize ==
    /\ Start(Initialized(m))
    /\ can' = FALSE /\ stopKey' = FALSE
    /\ UNCHANGED <<stack, exec>>

Startup ==
    /\ Returned("startup")
    /\ LineDone(m)
    /\ UNCHANGED <<stack, exec, can, stopKey>>

IdleDone ==
    /\ Returned("idle")
    /\ IF m.abort THEN Reinitialize
       ELSE /\ LET n == [m EXCEPT !.cancel = FALSE]
               IN \/ LineDone(n)
                  \/ SleepDue(n) /\ LineDone(Request(n, "sleep"))
            /\ UNCHANGED <<stack, exec, can, stopKey>>

\* The run-time check before a line is executed: after a reset, and after a
\* stop, the main program is left for re-initialization.
LineAborted == Returned("line") /\ Aborted(m) /\ Reinitialize

GcodeCommands == {"motion", "pause", "end", "tool_change", "accessories"}

LineAccepted ==
    CASE cmd = "motion" -> /\ m.state \notin {"alarm", "estop", "jog"}
                           /\ ~m.toolChange
      [] cmd \in GcodeCommands -> m.state \notin {"alarm", "estop", "jog"}
      [] cmd = "jog"    -> m.state \in {"idle", "jog", "tool_change"}
      [] cmd = "unlock" -> m.state \in {"alarm", "estop"} /\ ~m.estop /\ ~m.door
      [] cmd = "sleep"  -> m.state \in {"idle", "alarm"}

LineStarts ==
    /\ Returned("line") /\ ~Aborted(m)
    /\ IF ~LineAccepted THEN LineDone(m)
       ELSE CASE cmd = "unlock" -> LineDone(SetIdle(m))
              [] cmd = "sleep"  -> LineDone(Request(m, "sleep"))
              [] cmd \in {"motion", "jog"} -> Execute(m, "buffer") /\ UNCHANGED cmd
              [] OTHER -> Execute(AutoCycleStart(m), "sync") /\ UNCHANGED cmd
    /\ UNCHANGED <<stack, exec, can, stopKey>>

\* A jog that finds the machine at rest is started by hand.
StartJog(n) ==
    IF n.state \in {"idle", "tool_change"}
    THEN StWakeUp(PrepAtRest(SetJog(n))) ELSE n

\* mc_line: wait for room in the planner, queue the motion; mc_jog_execute.
MotionBuffered ==
    /\ Returned("buffer")
    /\ IF Aborted(m) THEN LineDone(m)
       ELSE IF m.blocks = MaxBlocks
       THEN Execute(AutoCycleStart(m), "buffer") /\ UNCHANGED cmd
       ELSE LET n == [m EXCEPT !.blocks = @ + 1]
            IN LineDone(IF cmd = "jog" THEN StartJog(n) ELSE n)
    /\ UNCHANGED <<stack, exec, can, stopKey>>

\* Mutant: the end of the cycle is not waited for.
Drained == m.blocks = 0

\* The condition protocol_buffer_synchronize waits for.
Synchronized == m.blocks = 0 /\ m.state # "cycle"

\* protocol_buffer_synchronize waits for the planner to drain ...
SyncWaits ==
    /\ Returned("sync") /\ ~Aborted(m) /\ ~Synchronized
    /\ Execute(m, "sync")
    /\ UNCHANGED <<stack, exec, cmd, can, stopKey>>

\* ... or is aborted.  M6 goes on either way; after a stop gc_init has cleared
\* the program flow, so M0 is then taken for a program end.
SyncEnds ==
    /\ Returned("sync") /\ (Aborted(m) \/ Synchronized)
    /\ CASE cmd = "tool_change" ->
               /\ Execute(Request([m EXCEPT !.toolChange = TRUE],
                                  "tool_change"), "done")
               /\ UNCHANGED cmd
         [] cmd = "accessories" ->
               LineDone(IF Aborted(m) THEN m
                        ELSE [m EXCEPT !.spindle = TRUE, !.gcSpindle = TRUE,
                                       !.coolant = TRUE, !.gcCoolant = TRUE])
         [] cmd = "end" \/ (cmd = "pause" /\ m.cancel) ->
               LineDone([DeEnergized(m) EXCEPT !.gcSpindle = FALSE,
                                               !.gcCoolant = FALSE])
         [] cmd = "pause" /\ ~m.cancel ->
               Execute(Request(m, "feed_hold"), "done") /\ UNCHANGED cmd
    /\ UNCHANGED <<stack, exec, can, stopKey>>

LineEnds ==
    /\ Returned("done")
    /\ LineDone(m)
    /\ UNCHANGED <<stack, exec, can, stopKey>>

Foreground ==
    \/ ExecAlarm \/ ExecBlocked \/ ExecFetch \/ ExecReset \/ ExecStop
    \/ StopPrep \/ StopAtRest \/ ExecState \/ ExecOverrides \/ ExecPrep
    \/ EnterSuspend \/ SuspendAgain \/ SuspendEnds \/ SuspendRound
    \/ SuspendTail \/ DelayRound \/ DelayEnds
    \/ ReadCan \/ MainIdle \/ Startup \/ IdleDone \/ LineAborted
    \/ LineStarts \/ MotionBuffered \/ SyncWaits \/ SyncEnds \/ LineEnds

-----------------------------------------------------------------------------
(* Interrupt handlers.                                                     *)

Interrupt(n) == m' = n /\ UNCHANGED <<phase, stack, exec, pc, cmd, can, stopKey>>

\* mc_reset: request a reset once; in motion kill the steppers, the position
\* is lost.  Nothing more while a reset or a critical alarm is being handled.
McReset(n) ==
    LET moving == n.state \in {"cycle", "jog"} \/ n.exHold \/ n.exSys
        r == [Request(n, "reset") EXCEPT !.readSuspended = FALSE,
                                         !.positionLost = moving]
        killed == IF moving THEN [StGoIdle(r) EXCEPT !.rtAlarm = "abort_cycle"]
                  ELSE r
    IN IF "reset" \in n.rt THEN n
       ELSE IF n.resetPending \/ n.blocking THEN Request(n, "reset")
       ELSE IF n.estop THEN [killed EXCEPT !.rtAlarm = "estop"]
       ELSE killed

\* protocol_enqueue_realtime_command: characters picked off the input stream.
KeyCycleStart ==
    /\ "cycle_start" \in Inputs /\ Len(stack) <= MaxNest
    /\ Patient => ~m.stepping /\ "cycle_complete" \notin m.rt \cup exec
    /\ Interrupt([Request(m, "cycle_start") EXCEPT !.toolChange = FALSE])

KeyFeedHold == "feed_hold" \in Inputs /\ Interrupt(Request(m, "feed_hold"))

KeyReset == "reset" \in Inputs /\ ~m.estop /\ Interrupt(McReset(m))

KeyStop ==
    /\ "stop" \in Inputs
    /\ m' = Request(m, "stop") /\ can' = TRUE
    /\ UNCHANGED <<phase, stack, exec, pc, cmd, stopKey>>

KeyJogCancel ==
    /\ "jog_cancel" \in Inputs
    /\ can' = TRUE
    /\ UNCHANGED <<m, phase, stack, exec, pc, cmd, stopKey>>

KeySpindleStop ==
    /\ "spindle_stop" \in Inputs
    /\ stopKey' = ~stopKey
    /\ UNCHANGED <<m, phase, stack, exec, pc, cmd, can>>

\* control_interrupt_handler and the pins it reads.
DoorOpens ==
    /\ "door" \in Inputs /\ ~m.door
    /\ LET n == [m EXCEPT !.door = TRUE]
       IN Interrupt(IF m.toolChange THEN n ELSE Request(n, "safety_door"))

DoorCloses == m.door /\ Interrupt([m EXCEPT !.door = FALSE])

EstopPressed ==
    /\ "estop" \in Inputs /\ ~m.estop
    /\ LET n == [m EXCEPT !.estop = TRUE]
       IN Interrupt(IF m.state = "estop" THEN n ELSE McReset(n))

EstopReleased == m.estop /\ Interrupt([m EXCEPT !.estop = FALSE])

\* limit_interrupt_handler: ignored in an alarm or with one already pending.
HardLimit ==
    /\ "hard_limit" \in Inputs
    /\ m.state \notin {"alarm", "estop"} /\ m.rtAlarm = "none"
    /\ Interrupt([McReset(m) EXCEPT !.rtAlarm = "hard_limit"])

\* stepper_driver_interrupt_handler: execute a segment of the buffer; the
\* parking axis has arrived with the last one.
StepSegment ==
    /\ m.stepping /\ m.segs > 0
    /\ \E z \in IF ~m.exSys THEN {Work}
                ELSE IF m.sysLeft = 0 /\ m.segs = 1 THEN {m.sysTarget}
                ELSE {m.z, m.sysTarget} :
          Interrupt([m EXCEPT !.segs = @ - 1, !.execBlock = TRUE, !.z = z])

\* Mutant: the main program is not told.
StepsExhaustedSilently ==
    /\ m.stepping /\ m.segs = 0
    /\ Interrupt([StGoIdle(m) EXCEPT !.execBlock = FALSE])

\* The segment buffer is empty: shut down, cycle complete.  Unless it starves,
\* a state that preps segments has prepped all there are by then.
StepsExhausted ==
    /\ m.stepping /\ m.segs = 0
    /\ Starves \/ PrepBlocked(m) \/ m.state \notin MotionStates
    /\ Interrupt(Request([StGoIdle(m) EXCEPT !.execBlock = FALSE],
                         "cycle_complete"))

Environment ==
    \/ KeyCycleStart \/ KeyFeedHold \/ KeyReset \/ KeyStop
    \/ KeyJogCancel \/ KeySpindleStop
    \/ DoorOpens \/ DoorCloses \/ EstopPressed \/ EstopReleased \/ HardLimit
    \/ \E c \in Commands : ReadLine(c)

Stepper == StepSegment \/ StepsExhausted

Next == Foreground \/ Environment \/ Stepper

Spec == Init /\ [][Next]_vars

\* The foreground runs and the step timer fires while it is enabled; nobody
\* is obliged to press a key or to send a line.
LiveSpec == Spec /\ WF_vars(Foreground) /\ WF_vars(Stepper)

-----------------------------------------------------------------------------
TypeOK ==
    /\ m \in Machines
    /\ phase \in Phases
    /\ stack # <<>> /\ stack[1] = MainFrame
    /\ \A i \in 2 .. Len(stack) : stack[i] \in Delays \cup {SuspendFrame}
    /\ exec \subseteq Requests
    /\ pc \in {"loop", "line", "buffer", "sync", "done", "idle", "startup"}
    /\ cmd \in CommandNames \cup {"none"}
    /\ {can, stopKey} \subseteq BOOLEAN
=============================================================================
