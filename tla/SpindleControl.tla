---------------------------- MODULE SpindleControl ----------------------------
(***************************************************************************)
(* The spindles (spindle_control.c): drivers and plugins register them,    *)
(* one is enabled at a time (N_SYS_SPINDLE is 1), programs start and stop  *)
(* it and wait for its speed, and the operator overrides the speed at any  *)
(* time: at once when the machine is idle, with the next segment           *)
(* (st_prep_buffer) when it moves.  What a spindle really does, hw, is     *)
(* kept apart from what the core believes.                                 *)
(***************************************************************************)
EXTENDS Integers, Sequences

CONSTANTS Types,    \* of the spindles, in the order they register: "pwm", "basic"
          Speeds, Percents, LowSpeed, HighSpeed,  \* S words, overrides, rpm_min and rpm_max
          Timeout,  \* polls until a spindle that is not at speed raises an alarm
          Windows   \* subset of AllWindows

\* A registration after the null spindle was selected, an override whose speed is
\* the one the segments were last prepared for, an override in a hold, one after the
\* last segment of a motion was prepared, and a spindle that is started, stopped or
\* changed with the overrides disabled.
AllWindows == {"late", "same", "hold", "last", "disable"}

VARIABLE s

None == 0
Ids == 1..(Len(Types) + 1)
Off == [on |-> FALSE, rpm |-> 0]
Default == 100

Init ==
    s = [reg |-> << >>, pwm |-> None, started |-> FALSE,
         hw |-> [id \in Ids |-> Off],                       \* the spindles themselves
         id |-> None, rpm |-> 0, over |-> 0, pct |-> 0, on |-> FALSE, disable |-> FALSE,  \* sys_spindle[0]
         gc |-> Off, disabled |-> FALSE,                    \* modal state
         state |-> "idle", wait |-> None, target |-> Off,
         update |-> FALSE, current |-> 0, queue |-> << >>,  \* stepper: flag, rpm prepared, segments
         looked |-> FALSE]                                  \* history

Clamp(x, low, high) == IF x < low THEN low ELSE IF x > high THEN high ELSE x
Overridden(rpm, pct) == IF rpm <= 0 THEN 0 ELSE Clamp((rpm * pct) \div 100, LowSpeed, HighSpeed)

\* spindle_all_off and gc_spindle_off
AllOff(x) ==
    [x EXCEPT !.hw = [id \in Ids |-> IF id = x.id THEN Off ELSE @[id]],
              !.rpm = 0, !.over = 0, !.on = FALSE, !.disable = FALSE]
GcSpindleOff(x) == [AllOff(x) EXCEPT !.gc = Off]

-----------------------------------------------------------------------------
(* Registration and selection *)

Entry(type) == [type |-> type, ok |-> FALSE]
IsNull(x) == Len(x.reg) = 1 /\ x.reg[1].type = "null"

\* spindle_register: the null spindle is replaced, what is known of it is not.
Registered(x, type) ==
    LET y == IF IsNull(x) THEN [x EXCEPT !.reg = << [@[1] EXCEPT !.type = type] >>]
             ELSE [x EXCEPT !.reg = Append(@, Entry(type))]
        id == Len(y.reg)
    IN [y EXCEPT !.pwm = IF type = "pwm" /\ @ = None THEN id ELSE @]

Registrations == Len(s.reg) - IF s.reg # << >> /\ s.reg[1].type = "null" THEN 1 ELSE 0

Register ==
    /\ ~s.started \/ "late" \in Windows
    /\ Registrations < Len(Types)
    /\ s' = Registered(s, Types[Registrations + 1])

\* spindle_activate; what config() and on_spindle_select answer is not known.
Configured(x, id, ok) == [x EXCEPT !.reg[id].ok = ok, !.hw[id] = IF ok THEN Off ELSE @]

PwmFirst(x, id, ok) ==
    [(IF x.pwm \notin {None, id} THEN Configured(x, x.pwm, ok) ELSE x) EXCEPT !.pwm = None]

\* Mutant: the spindle that runs is not stopped.
ActivateRunning(x, id, ok) ==
    LET y == PwmFirst(x, id, ok)
    IN IF id \notin DOMAIN x.reg THEN y
       ELSE IF y.reg[id].ok \/ ok
            THEN [y EXCEPT !.reg[id].ok = TRUE, !.id = id, !.pct = IF @ = 0 THEN Default ELSE @]
            ELSE y
Activate(x, id, ok) ==
    LET y == PwmFirst(x, id, ok)
        z == IF y.id \notin {None, id} THEN GcSpindleOff(y) ELSE y
    IN IF id \notin DOMAIN x.reg THEN y
       ELSE IF z.reg[id].ok \/ ok
            THEN [z EXCEPT !.reg[id].ok = TRUE, !.id = id, !.pct = IF @ = 0 THEN Default ELSE @]
            ELSE z

\* spindle_select: without any spindle the null spindle is registered first.
Selected(x, id, ok) ==
    IF x.reg = << >> THEN Activate(Registered(x, "null"), 1, TRUE)
    ELSE IF x.id = id THEN x ELSE Activate(x, id, ok)

\* Start of the controller: the spindle of the settings, or the null spindle.
Boot ==
    /\ ~s.started
    /\ \E id \in 1..Len(Types), ok \in BOOLEAN :
        LET x == Selected(s, IF id \in DOMAIN s.reg THEN id ELSE 1, ok)
            y == IF x.id # None THEN x
                 ELSE LET z == Registered(x, "null") IN Activate(z, Len(z.reg), TRUE)
        IN s' = [AllOff(y) EXCEPT !.started = TRUE]

Ready == s.started /\ s.state = "idle" /\ s.wait = None

\* Stopping the spindle ends the override control the program asked for, M51 does
\* not: what enables the overrides again is left out.
MayStop == "disable" \in Windows \/ ~s.disabled

\* $395 selects another one, also when the spindle runs.
Select == Ready /\ MayStop /\ \E id \in DOMAIN s.reg, ok \in BOOLEAN : s' = Selected(s, id, ok)

-----------------------------------------------------------------------------
(* Programs *)

\* spindle_set_state
SetState(x, on, rpm) ==
    LET y == IF on THEN [x EXCEPT !.over = Overridden(rpm, x.pct)] ELSE x
    IN [y EXCEPT !.hw[x.id] = IF x.reg[x.id].type = "null" THEN @
                              ELSE IF on THEN [on |-> TRUE, rpm |-> y.over] ELSE Off,
                 !.rpm = IF on THEN rpm ELSE 0, !.on = on, !.current = IF on THEN rpm ELSE 0]

\* M3 or M5, and the wait for the speed or for the delay
Program ==
    /\ Ready /\ MayStop
    /\ \E on \in BOOLEAN, rpm \in Speeds :
        /\ on # s.gc.on
        /\ s' = [SetState(s, on, rpm) EXCEPT
                     !.wait = IF s.reg[s.id].type = "pwm" THEN Timeout ELSE 1,
                     !.target = IF on THEN [on |-> TRUE, rpm |-> rpm] ELSE Off]

\* spindle_set_state_wait: at speed, or not for too long.
AtSpeed ==
    /\ s.wait # None
    /\ s' = [s EXCEPT !.wait = None, !.gc = s.target, !.on = s.target.on, !.disable = FALSE]

NotAtSpeed ==
    /\ s.wait # None /\ s.reg[s.id].type = "pwm"
    /\ s' = IF s.wait > 1 THEN [s EXCEPT !.wait = @ - 1]
            ELSE [GcSpindleOff(s) EXCEPT !.wait = None]

\* A new S word
Speed ==
    /\ Ready /\ s.gc.on
    /\ \E rpm \in Speeds \ {s.gc.rpm} : s' = [SetState(s, TRUE, rpm) EXCEPT !.gc.rpm = rpm]

\* M51: the override goes back to 100 % and stays there (spindle_override_disable).
\* In a hold the spindle is restored, which does nothing to one that runs, and the
\* flag is cleared (handle_spindle_stop, state_machine.c).
Held(x) == x.state = "hold" /\ x.hw[x.id].on
SetOverride(x, pct) ==
    IF pct = x.pct \/ (pct # Default /\ x.disable) THEN x
    ELSE LET y == [x EXCEPT !.pct = pct, !.over = Overridden(x.rpm, pct)]
         IN IF x.state = "idle" THEN [y EXCEPT !.hw[x.id].rpm = IF @ = 0 THEN 0 ELSE y.over]
            ELSE [y EXCEPT !.update = ~Held(x), !.looked = FALSE]

OverrideControl ==
    /\ Ready
    /\ \E disable \in BOOLEAN :
        /\ disable # s.disabled
        /\ s' = [(IF disable THEN SetOverride(s, Default) ELSE s) EXCEPT !.disable = disable, !.disabled = disable]

-----------------------------------------------------------------------------
(* Overrides and motion *)

\* The speed the last segment that is prepared leaves the spindle at
Final(x) == IF x.queue = << >> THEN x.hw[x.id].rpm ELSE x.queue[Len(x.queue)]

Override ==
    /\ s.started
    /\ \E pct \in Percents :
        /\ "hold" \in Windows \/ s.state # "hold"
        /\ \/ s.state = "idle" \/ "same" \in Windows
           \/ Overridden(s.rpm, pct) # s.current \/ Overridden(s.rpm, pct) = Final(s)
        /\ s' = SetOverride(s, pct)

\* st_prep_buffer: nothing is sent when the speed is the one prepared for last.
PrepChanged(x, rpm) ==
    IF rpm = x.current THEN [x EXCEPT !.looked = TRUE]
    ELSE [x EXCEPT !.queue = Append(@, rpm), !.current = rpm, !.update = FALSE, !.looked = TRUE]

Prep ==
    /\ s.state = "run" /\ s.update /\ Len(s.queue) < 2
    /\ s' = IF s.gc.on THEN PrepChanged([s EXCEPT !.over = Overridden(s.gc.rpm, s.pct)], Overridden(s.gc.rpm, s.pct))
            ELSE PrepChanged([s EXCEPT !.rpm = 0], 0)

Segment ==
    /\ s.queue # << >>
    /\ s' = [s EXCEPT !.queue = Tail(@), !.hw[s.id].rpm = IF @ = 0 THEN 0 ELSE s.queue[1]]

Move == Ready /\ s' = [s EXCEPT !.state = "run"]
Resume == s.state = "hold" /\ s' = [s EXCEPT !.state = "run"]

\* The end of a motion or of a deceleration clears the flag.
Ends(state) ==
    /\ s.state = "run" /\ s.queue = << >>
    /\ "last" \in Windows \/ ~s.update \/ s.looked
    /\ s' = [s EXCEPT !.state = state, !.update = FALSE]
Moved == Ends("idle")
Hold == Ends("hold")

\* A stop, or a reset that starts the controller's loop again
Stop ==
    /\ s.started
    /\ s' = [GcSpindleOff(s) EXCEPT !.state = "idle", !.wait = None, !.queue = << >>, !.update = FALSE,
                 !.current = 0, !.disabled = FALSE, !.pct = Default]

Next ==
    \/ Register \/ Boot \/ Select \/ Program \/ AtSpeed \/ NotAtSpeed \/ Speed \/ OverrideControl
    \/ Override \/ Prep \/ Segment \/ Move \/ Hold \/ Resume \/ Moved \/ Stop

Spec == Init /\ [][Next]_s

-----------------------------------------------------------------------------
(* Properties *)

\* A spindle that runs is the one selected, and the core knows it runs: it can be
\* stopped.  When no program waits for it, the parser agrees.
OnlySelectedRuns ==
    /\ \A id \in Ids : s.hw[id].on => s.id = id /\ s.on
    /\ s.started /\ s.wait = None /\ s.reg[s.id].type # "null" => s.gc.on = s.hw[s.id].on

\* The override is what the spindle runs at, unless a segment is still to be
\* prepared since it was changed.
SpeedFollows ==
    s.started /\ s.hw[s.id].on => (s.update /\ ~s.looked) \/ Final(s) = Overridden(s.rpm, s.pct)

\* With its overrides disabled a program runs at the speed it asked for.
DisabledIsFull == s.disabled => s.pct = Default

SpindleSound == OnlySelectedRuns /\ SpeedFollows /\ DisabledIsFull
=============================================================================
