------------------------------ MODULE ToolChange ------------------------------
(***************************************************************************)
(* The manual tool change (tool_change.c, the input suspension of          *)
(* stream.c): M6 takes the machine to the change position and suspends the *)
(* input until the sender acknowledges; then the operator may jog, touch   *)
(* off and set offsets with lines of his own, while cycle start is trapped *)
(* and runs what the mode asks for: a way back from G30, a touch off at    *)
(* the toolsetter, the restore of position and accessories.  Reset and     *)
(* stop give back all that was claimed.                                    *)
(*                                                                         *)
(* The linear axis is Z, heights and lengths are small integers; there is  *)
(* no tool table, and the axes are homed.  An action of the foreground is  *)
(* what it does between two looks at the real-time commands.               *)
(***************************************************************************)
EXTENDS ChangeProperties

CONSTANTS Modes,             \* settings.tool_change.mode
          Length,            \* length of each tool
          FirstTool,         \* the tool at power up
          Typed,             \* lines the operator may type: subset of {"jog", "tpw", "offset"}
          Windows,           \* moments interrupts may come at, besides all others: subset of AllWindows
          MaxTyped, MaxStops \* bounds: operator's lines in one change, resets and stops

\* A reset or stop between a cycle start and its routine, a stop on the way to
\* the change position, an acknowledge right after a cycle start that has
\* cancelled the change: what the properties do not survive.
AllWindows == {"stop_posted", "stop_leaving", "ack_cancelled"}

vars == <<t, h>>

Manual == {"manual", "g59_3"}
Home == 4
At(xy, z) == [xy |-> xy, z |-> z]
G30 == At("g30", 3)
Toolsetter == At("setter", 2)

Init ==
    /\ t \in [mode : Modes, g30 : BOOLEAN,      \* settings.flags.tool_change_at_g30
              keep : BOOLEAN,                   \* settings.flags.no_restore_position_after_M6
              state : {"idle"}, at : {"main"},  \* sys_state, and the routine the foreground is in
              cycleStart : {FALSE}, toolChange : {FALSE},   \* EXEC_CYCLE_START, gc_state.tool_change
              resetPending : {FALSE},
              rx : {Program}, backup : {<< >>}, acked : {FALSE}, suspended : {FALSE},
              read : {"normal"}, handler : {"normal"},      \* hal.stream.read and the character handler
              trap : {FALSE},                               \* hal.control.interrupt_callback
              blocked : {FALSE}, changeAtG30 : {FALSE}, executePosted : {FALSE}, posted : {"none"},
              gcTool : {FirstTool}, pending : {FirstTool}, next : {"none"}, slot : {FirstTool}, current : {FirstTool},
              pos : {At("work", Home)}, previous : {At("work", Home)},
              tlo : {0}, wco : {0}, reference : {0, Length[FirstTool]}, referenceSet : BOOLEAN,
              spindle : {TRUE}, running : {TRUE}]   \* the modal state, and the spindle itself
    /\ t.referenceSet <=> t.reference # 0
    /\ h = [asked |-> At("work", Home), executed |-> << >>, completed |-> FALSE, typed |-> 0, stops |-> 0]

NextTool(c) == IF c.next = "slot" THEN c.slot ELSE c.gcTool

-----------------------------------------------------------------------------
(* stream_rx_suspend *)

Suspended(c) ==
    IF c.suspended THEN c ELSE [c EXCEPT !.suspended = TRUE, !.handler = "await", !.read = "null"]

Unsuspended(c) ==
    IF ~c.suspended THEN c
    ELSE [c EXCEPT !.suspended = FALSE, !.acked = FALSE,
                   !.rx = IF c.acked THEN c.backup ELSE @,
                   !.read = IF c.acked THEN @ ELSE "normal",
                   !.handler = IF c.acked THEN @ ELSE "normal"]

-----------------------------------------------------------------------------
(* tool_change, called by M6 *)

\* "Restore HAL pointers on completion or reset."
CompletedTrapped(c) ==     \* Mutant
    [c EXCEPT !.handler = IF @ = "trap" THEN "normal" ELSE @, !.toolChange = FALSE]
ChangeCompleted(c) ==
    [c EXCEPT !.handler = IF @ = "trap" THEN "normal" ELSE @, !.trap = FALSE, !.toolChange = FALSE]

Selected(c, tool) ==
    IF c.pending = tool THEN c
    ELSE [c EXCEPT !.pending = tool, !.next = "slot", !.slot = tool]

\* M6: nothing to do, or an error when no tool was selected, or off it goes.
\* Before T, the tool that is pending was selected already: slot is that tool.
Change(c, tool) ==
    LET d == [Selected(c, tool) EXCEPT !.slot = tool]
    IN IF d.slot = d.gcTool \/ d.next = "none" THEN d
       ELSE IF d.current = NextTool(d) THEN [d EXCEPT !.gcTool = d.slot]
       ELSE [d EXCEPT !.blocked = c.mode # "semi", !.running = FALSE, !.executePosted = FALSE,
                      !.previous = At(c.pos.xy, c.pos.z - Offset(c)), !.changeAtG30 = c.g30,
                      !.pos.z = Home, !.at = "leave"]

\* At the change position: the machine waits for a cycle start.
ChangePosition(c) == IF c.g30 THEN G30
                     ELSE IF c.mode = "g59_3" THEN Toolsetter ELSE At(c.pos.xy, Home)

Leave ==
    /\ t.at = "leave" /\ ~t.resetPending
    /\ t' = Suspended([t EXCEPT !.pos = ChangePosition(t), !.toolChange = TRUE, !.state = "tool_change",
                                !.at = "main", !.gcTool = t.slot])
    /\ UNCHANGED h

-----------------------------------------------------------------------------
(* The main loop reads a line of the program, or one of the operator *)

Reading(line) ==
    /\ t.at = "main" /\ ~t.resetPending /\ ~t.cycleStart /\ t.posted = "none"
    /\ t.state # "alarm" /\ t.read = "normal" /\ t.rx # << >> /\ Head(t.rx) = line

Consumed == [t EXCEPT !.rx = Tail(@)]

ReadMove ==
    /\ Reading("move") /\ ~t.toolChange
    /\ t' = [Consumed EXCEPT !.pos = At("work", Offset(t))]
    /\ h' = [h EXCEPT !.executed = Append(@, "move"), !.completed = FALSE]

ReadChange(tool) ==
    /\ Reading(tool)
    /\ t' = Change(Consumed, tool)
    /\ h' = [h EXCEPT !.executed = Append(@, tool), !.completed = FALSE, !.typed = 0,
                      !.asked = At(t.pos.xy, t.pos.z - Offset(t))]

ReadJog ==
    /\ Reading("jog")
    /\ t' = [Consumed EXCEPT !.pos = At("aside", Home)]
    /\ UNCHANGED h

\* A G10 of the coordinate system in use; onWcoSaved.
ReadOffset ==
    /\ Reading("offset")
    /\ \E z \in 0..1 : t' = [Consumed EXCEPT !.wco = z, !.blocked = @ /\ t.changeAtG30]
    /\ UNCHANGED h

\* tc_probe_workpiece: not before the acknowledge, nor at G30.
ReadTouchOff ==
    /\ Reading("tpw")
    /\ t' = [Consumed EXCEPT !.at = IF t.mode \in Manual /\ t.handler = "trap" /\ ~t.changeAtG30
                                    THEN "tpw" ELSE @]
    /\ UNCHANGED h

\* Found, a bit above and found again, or not; onProbeCompleted.
Contact == Length[t.gcTool]
Lower(a, b) == IF a < b THEN a ELSE b

TouchOff ==
    /\ t.at = "tpw" /\ ~t.resetPending
    /\ \/ t' = [t EXCEPT !.at = "main", !.blocked = FALSE,
                         !.tlo = IF t.referenceSet THEN Contact - t.reference ELSE @,
                         !.pos.z = Lower(Contact + 2, Home)]
       \/ t' = [t EXCEPT !.at = "main", !.pos.z = 0]
    /\ UNCHANGED h

-----------------------------------------------------------------------------
(* What cycle start runs *)

RunPosted ==
    /\ t.at = "main" /\ t.posted # "none" /\ ~t.resetPending
    /\ t' = [t EXCEPT !.at = t.posted, !.posted = "none"]
    /\ UNCHANGED h

\* execute_return_from_g30
Return ==
    /\ t.at = "return" /\ ~t.resetPending
    /\ t' = [t EXCEPT !.at = "main", !.changeAtG30 = FALSE, !.executePosted = FALSE,
                      !.pos = IF t.mode = "g59_3" THEN Toolsetter ELSE At(t.previous.xy, Home)]
    /\ UNCHANGED h

\* execute_probe: the first tool touched off is the reference.  A probe that
\* finds nothing is an alarm.
Probe ==
    /\ t.at = "probe" /\ ~t.resetPending
    /\ \/ t' = [t EXCEPT !.at = "restore", !.pos = At("setter", Contact),
                         !.tlo = IF t.referenceSet THEN Contact - t.reference ELSE @,
                         !.reference = IF t.referenceSet THEN @ ELSE Contact,
                         !.referenceSet = TRUE]
       \/ t' = [ChangeCompleted(t) EXCEPT !.at = "main", !.state = "alarm", !.pos = At("setter", 0)]
    /\ UNCHANGED h

\* restore: over the old position, accessories on ...
Restore ==
    /\ t.at = "restore" /\ ~t.resetPending
    /\ t' = [t EXCEPT !.at = "plunge", !.running = t.spindle,
                      !.pos = IF t.pos.xy = t.previous.xy THEN @
                              ELSE At(IF t.keep THEN t.pos.xy ELSE t.previous.xy, Home)]
    /\ UNCHANGED h

\* ... then down, with the offsets of the new tool; execute_restore.
PlungePosition(c) == [c.previous EXCEPT !.z = @ + Offset(c)]

Plunge ==
    /\ t.at = "plunge" /\ ~t.resetPending
    /\ t' = ChangeCompleted([t EXCEPT !.at = "main", !.pos = IF t.keep THEN @ ELSE PlungePosition(t),
                                      !.current = NextTool(t), !.cycleStart = TRUE])
    /\ h' = [h EXCEPT !.completed = TRUE]

Routine == RunPosted \/ Return \/ Probe \/ Restore \/ Plunge

\* state_await_toolchanged: the program goes on.
Resume ==
    /\ t.cycleStart /\ t.at = "main" /\ ~t.resetPending
    /\ t' = IF t.state = "tool_change" /\ ~t.toolChange
            THEN [Unsuspended(t) EXCEPT !.cycleStart = FALSE, !.state = "idle"]
            ELSE [t EXCEPT !.cycleStart = FALSE]
    /\ UNCHANGED h

-----------------------------------------------------------------------------
(* Interrupts: characters and buttons *)

\* await_toolchange_ack, on_toolchange_ack
Acknowledge ==
    /\ t.handler = "await" /\ ~t.acked /\ (t.toolChange \/ "ack_cancelled" \in Windows)
    /\ t' = [t EXCEPT !.acked = TRUE, !.backup = t.rx, !.rx = << >>, !.read = "normal",
                      !.trap = TRUE, !.handler = "trap"]
    /\ UNCHANGED h

Type(line) ==
    /\ t.acked /\ h.typed < MaxTyped
    /\ t' = [t EXCEPT !.rx = Append(@, line)]
    /\ h' = [h EXCEPT !.typed = @ + 1]

\* A trapped cycle start posts one routine; one that is not cancels the change.
\* None comes during a $TPW: the routine would run in the middle of it.
CycleStart ==
    /\ t.at # "tpw" /\ (t.trap /\ t.resetPending => "stop_posted" \in Windows)
    /\ t' = IF ~t.trap
            THEN [t EXCEPT !.cycleStart = TRUE, !.toolChange = FALSE]
            ELSE IF t.executePosted \/ (t.blocked /\ ~t.changeAtG30) THEN t
            ELSE [t EXCEPT !.executePosted = TRUE,
                           !.posted = CASE t.blocked -> "return"
                                        [] t.mode = "semi" -> "probe"
                                        [] OTHER -> "restore"]
    /\ UNCHANGED h

StopAllowed == h.stops < MaxStops /\ (t.posted = "none" \/ "stop_posted" \in Windows)

\* mc_reset; the foreground comes to the reset later.
ResetKey ==
    /\ StopAllowed /\ ~t.resetPending
    /\ t' = [Unsuspended(t) EXCEPT !.resetPending = TRUE]
    /\ h' = [h EXCEPT !.stops = @ + 1]

\* reset and gc_init: without a tool table the tool in gc_state stays what it is.
DriverReset(c) ==
    LET d == ChangeCompleted(c)
    IN [d EXCEPT !.pending = d.gcTool, !.next = "gc", !.current = d.gcTool,
                 !.spindle = FALSE, !.running = FALSE, !.at = "main", !.state = "idle",
                 !.cycleStart = FALSE,
                 !.changeAtG30 = IF c.at = "return" THEN FALSE ELSE @,
                 !.executePosted = IF c.at = "return" THEN FALSE ELSE @]

\* The sender starts the program again.
Restarted(c) == [c EXCEPT !.rx = Program]
HistoryRestarted == [h EXCEPT !.executed = << >>, !.completed = FALSE]

HandleReset ==
    /\ t.resetPending
    /\ t' = Restarted([DriverReset(t) EXCEPT !.resetPending = FALSE])
    /\ h' = HistoryRestarted

\* EXEC_STOP
Stop ==
    /\ StopAllowed /\ ~t.resetPending /\ (t.at # "leave" \/ "stop_leaving" \in Windows)
    /\ t' = Restarted([Unsuspended(DriverReset(t)) EXCEPT !.at = IF t.at = "leave" THEN "leave" ELSE "main"])
    /\ h' = [HistoryRestarted EXCEPT !.stops = @ + 1]

Next ==
    \/ Leave \/ ReadMove \/ ReadJog \/ ReadOffset \/ ReadTouchOff \/ TouchOff
    \/ Routine \/ Resume
    \/ Acknowledge \/ CycleStart \/ ResetKey \/ HandleReset \/ Stop
    \/ \E tool \in DOMAIN Length : ReadChange(tool)
    \/ \E line \in Typed : Type(line)

Spec == Init /\ [][Next]_vars
=============================================================================
