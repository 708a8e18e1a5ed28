-------------------------------- MODULE Homing --------------------------------
(***************************************************************************)
(* The homing cycle (machine_limits.c, mc_homing_cycle, $H and $X of       *)
(* system.c).  Axes are moved towards their switches, off them, back more  *)
(* slowly and off again; then the machine position is set.  The X axis may *)
(* have two motors with a switch each, which homing squares.               *)
(*                                                                         *)
(* The motors step between any two looks of the foreground at the          *)
(* switches, which comes to look after a few steps at the latest.  Only a  *)
(* reset and the door interrupt the cycle.  Places are distances from the  *)
(* switch, which is engaged at 0 and beyond.  Axes in one cycle share      *)
(* their rates; manual homing and kinematics are not modelled.             *)
(***************************************************************************)
EXTENDS Integers, FiniteSets, Sequences

CONSTANTS Cycles,         \* settings.homing.cycle[]: a sequence of sets of axes
          Travel,         \* max_travel, the same for all axes
          Search,         \* Travel times HOMING_AXIS_SEARCH_SCALAR
          Pulloff,        \* homing_pulloff
          LocateScalar,   \* HOMING_AXIS_LOCATE_SCALAR
          LocateCycles,   \* settings.homing.locate_cycles
          FailDistance,   \* autosquare_fail_distance
          SeekLag, LocateLag,  \* steps made between two looks at the switches
          KeepOnReset,    \* settings.homing.flags.keep_on_reset
          MaxHomings      \* bound of the homing commands

ASSUME HomingAssumption ==
    /\ Cycles \in Seq(SUBSET {"x", "y"}) \ {<< >>}
    /\ {Travel, Search, Pulloff, LocateScalar, SeekLag, LocateLag, MaxHomings} \subseteq Nat
    /\ FailDistance \in Nat /\ LocateCycles \in Nat \ {0} /\ KeepOnReset \in BOOLEAN

Axes == {"x", "y"}
Motors == {"xa", "xb", "y"}
MotorsOf(axis) == IF axis = "x" THEN {"xa", "xb"} ELSE {"y"}

VARIABLES place,   \* of each motor
          homing        \* the homing state

homingVars == <<place, homing>>

HomingInit ==
    /\ place \in [Motors -> 0..Travel] /\ place["xa"] = place["xb"]
    /\ homing \in [squared : BOOLEAN,               \* the X axis is ganged and auto squared
              switch : [Motors -> BOOLEAN],    \* switches that work
              offset : {-1, 0, 1},             \* dual_axis_offset
              state : {"idle"}, at : {"main"}, homed : {{}}, position : {[a \in Axes |-> 0]},
              todo : {<< >>}, cycle : {{}}, mode : {"seek"}, passes : {0},
              lock : {{}},          \* sys.homing_axis_lock: the axes that may step
              left : {0}, step : {0},   \* of the motion: its length and direction
              lag : {0},
              squaring : {"both"}, check : {FALSE}, trigger : {0}, disabled : {{}},
              complete : {FALSE}, reset : {FALSE}, door : {FALSE},  \* EXEC_CYCLE_COMPLETE, ...
              lost : {FALSE},       \* sys.position_lost
              limits : {TRUE},      \* the hard limit interrupt is enabled
              homings : {0}]
    /\ Cardinality({n \in Motors : ~homing.switch[n]}) <= 1
    /\ ~homing.squared => homing.offset = 0 /\ homing.switch["xb"]

Engaged(n) == homing.switch[n] /\ place[n] <= 0
Squared(cycle) == IF homing.squared THEN cycle \cap {"x"} ELSE {}

\* homing_signals_select: the switch of the motor that has stopped is ignored.
\* Without squaring the X axis has one switch.
Ignored == CASE ~homing.squared          -> {"xb"}
             [] homing.squaring = "a"    -> {"xa"}
             [] homing.squaring = "b"    -> {"xb"}
             [] OTHER               -> {}
Signals(ignored) == {a \in Axes : \E n \in MotorsOf(a) \ ignored : Engaged(n)}
AllSignals == Signals(IF homing.squared THEN {} ELSE {"xb"})

-----------------------------------------------------------------------------
(* The stepper interrupt: axes that are locked make no steps. *)

HomingStep ==
    /\ homing.left > 0 /\ homing.lag < (IF homing.mode = "seek" THEN SeekLag ELSE LocateLag)
    /\ place' = [n \in Motors |->
                    IF n \notin homing.disabled /\ \E a \in homing.lock : n \in MotorsOf(a)
                    THEN place[n] + homing.step ELSE place[n]]
    /\ homing' = [homing EXCEPT !.left = @ - 1, !.complete = @ \/ homing.left = 1, !.lag = @ + 1,
                      !.trigger = IF homing.check THEN @ + 1 ELSE @]

-----------------------------------------------------------------------------
(* homing_cycle *)

Motion(c, at, axes, distance, step) ==
    [c EXCEPT !.at = at, !.lock = axes, !.left = distance, !.step = step, !.lag = 0]

\* sys.position counts from zero in every pass.
Pass(c, mode) ==
    LET d == [c EXCEPT !.mode = mode, !.position = [a \in Axes |-> IF a \in c.cycle THEN 0 ELSE @[a]]]
    IN CASE mode = "seek"    -> Motion(d, "approach", c.cycle, Search, -1)
         [] mode = "pulloff" -> Motion(d, "pulloff", c.cycle, Pulloff, 1)
         [] mode = "locate"  -> Motion(d, "approach", c.cycle, Pulloff * LocateScalar, -1)

FirstPass(c) == Pass([c EXCEPT !.passes = 2 * LocateCycles + 1], "seek")

\* limits_go_home: a squared axis is first pulled off its switches.
Begin(c) ==
    LET d == [c EXCEPT !.cycle = Head(c.todo), !.todo = Tail(@), !.limits = FALSE]
    IN IF Squared(d.cycle) \cap AllSignals # {}
       THEN Motion(d, "engaged", Squared(d.cycle), Pulloff * LocateScalar, 1)
       ELSE FirstPass(d)

\* The switches are where they were found: the axes stand off them.
Located(c) ==
    LET d == [c EXCEPT !.homed = @ \cup c.cycle, !.left = 0, !.disabled = {},
                       !.position = [a \in Axes |-> IF a \in c.cycle THEN Pulloff ELSE @[a]]]
    IN IF d.todo # << >> THEN Begin(d) ELSE [d EXCEPT !.at = "finish", !.limits = TRUE]

BothButB(c) == [c EXCEPT !.squaring = "both", !.check = FALSE, !.disabled = @ \cap {"xb"}]   \* Mutant
BothAgain(c) == [c EXCEPT !.squaring = "both", !.check = FALSE, !.disabled = {}]

\* mc_reset: nothing more happens when a reset is pending already.
MotorsStopped(c) ==
    IF c.reset THEN c ELSE [c EXCEPT !.reset = TRUE, !.lost = homing.state = "homing", !.left = 0]
Fail(c) == [MotorsStopped(c) EXCEPT !.at = "aborting"]

\* Auto squaring: the motor at its switch waits for the other one.
OneOfTwo == /\ Squared(homing.cycle) # {} /\ homing.squaring = "both"
            /\ Engaged("xa") # Engaged("xb")

LookedAt ==
    LET first == IF Engaged("xa") THEN "xa" ELSE "xb"
        waiting == [homing EXCEPT !.check = TRUE, !.trigger = 0, !.disabled = {first},
                             !.squaring = IF first = "xa" THEN "a" ELSE "b"]
        c == IF OneOfTwo THEN waiting ELSE homing
        found == Signals(Ignored) \ (IF OneOfTwo THEN {"x"} ELSE {})
    IN [c EXCEPT !.lock = @ \ found, !.check = @ /\ "x" \notin found, !.lag = 0]

\* rt_exec: the motion has ended or is to end.
Over(c) == c.reset \/ c.door \/ c.complete

Approach ==
    /\ homing.at = "approach"
    /\ homing' = LET c == LookedAt
            IN IF c.check /\ c.trigger > FailDistance THEN Fail(c)
               ELSE IF Over(homing) THEN Fail(c)
               ELSE IF c.lock = {} THEN [c EXCEPT !.at = "delay", !.left = 0]
               ELSE c
    /\ UNCHANGED place

\* The end of a pull-off, also of one before or after the passes.
PulledOff(axes) == ~homing.reset /\ ~homing.door /\ AllSignals \cap axes = {}

PullOff ==
    /\ homing.at \in {"engaged", "pulloff", "offset"}
    /\ homing' = LET c == [homing EXCEPT !.lag = 0]
                d == [c EXCEPT !.complete = FALSE, !.left = 0]
            IN IF ~Over(homing) THEN c
               ELSE IF ~PulledOff(IF homing.at = "pulloff" THEN homing.cycle ELSE {"x"}) THEN Fail(c)
               ELSE CASE homing.at = "engaged" -> FirstPass(d)
                      [] homing.at = "pulloff" -> [d EXCEPT !.at = "delay"]
                      [] homing.at = "offset"  -> Located(d)
    /\ UNCHANGED place

\* After the debounce delay: the next pass, the offset of the second motor,
\* or the axes are located.
AfterPass(c) ==
    IF c.passes > 0
    THEN Pass([c EXCEPT !.passes = @ - 1], IF c.mode = "pulloff" THEN "locate" ELSE "pulloff")
    ELSE IF Squared(c.cycle) # {} /\ c.offset # 0
    THEN Motion([c EXCEPT !.disabled = {IF c.offset < 0 THEN "xb" ELSE "xa"}], "offset", {"x"}, 1, 1)
    ELSE Located(c)

Delayed ==
    /\ homing.at = "delay"
    /\ homing' = AfterPass(IF Squared(homing.cycle) # {} THEN BothAgain(homing) ELSE homing)
    /\ UNCHANGED place

-----------------------------------------------------------------------------
(* $H, $H<axis>, $X, and what the foreground does about a reset *)

Home(cycles) ==
    /\ homing.at = "main" /\ homing.state \in {"idle", "alarm"} /\ ~homing.reset /\ homing.homings < MaxHomings
    /\ homing' = Begin([homing EXCEPT !.state = "homing", !.todo = cycles, !.homings = @ + 1,
                            !.homed = IF cycles = Cycles THEN {} ELSE @])
    /\ UNCHANGED place

Unlock ==
    /\ homing.at = "main" /\ homing.state = "alarm" /\ ~homing.reset
    /\ homing' = [homing EXCEPT !.state = "idle"]
    /\ UNCHANGED place

Finish ==
    /\ homing.at = "finish" /\ ~homing.reset
    /\ homing' = [homing EXCEPT !.at = "main", !.state = "idle", !.lock = {}, !.cycle = {}, !.door = FALSE]
    /\ UNCHANGED place

\* The alarm and the abort of protocol_exec_rt_system, and the initialization
\* of the main loop after it.
HandleReset ==
    /\ homing.reset /\ homing.at \in {"main", "finish", "aborting"}
    /\ homing' = [BothAgain(homing) EXCEPT
               !.reset = FALSE, !.door = FALSE, !.complete = FALSE, !.at = "main", !.left = 0,
               !.state = IF homing.lost THEN "alarm" ELSE @, !.lost = FALSE,
               !.homed = IF homing.lost /\ ~KeepOnReset THEN {} ELSE @,
               !.limits = TRUE, !.lock = {}, !.cycle = {}, !.todo = << >>]
    /\ UNCHANGED place

ResetKey ==
    /\ ~homing.reset
    /\ homing' = MotorsStopped(homing)
    /\ UNCHANGED place

DoorOpens ==
    /\ homing.state = "homing" /\ ~homing.door
    /\ homing' = [homing EXCEPT !.door = TRUE]
    /\ UNCHANGED place

HomingPoll == Approach \/ PullOff \/ Delayed \/ Finish \/ HandleReset

HomingNext == \/ HomingStep \/ HomingPoll \/ Unlock \/ ResetKey \/ DoorOpens
        \/ Home(Cycles)
        \/ \E a \in Axes : Home(<<{a}>>)

HomingSpec == HomingInit /\ [][HomingNext]_homingVars
HomingLiveSpec == HomingSpec /\ WF_homingVars(HomingStep) /\ WF_homingVars(HomingPoll)

-----------------------------------------------------------------------------
(* Properties *)

AtRest == homing.at = "main" /\ homing.state = "idle" /\ ~homing.reset

\* The motor at whose switch the position of an axis is set.
Reference(axis) == IF axis = "y" THEN "y" ELSE IF homing.offset > 0 THEN "xa" ELSE "xb"

Near(a, b) == a - b \in -LocateLag..LocateLag

\* An axis counts as homed only while the machine position is what its switch
\* says, up to the steps of one look at it, and a squared axis is square:
\* whatever fails, and whenever a reset comes (homing_cycle, limits_pull_off,
\* the initialization after a reset).
HomedIsTrue ==
    AtRest => \A a \in homing.homed :
        /\ Near(place[Reference(a)], homing.position[a])
        /\ homing.squared /\ a = "x" => Near(place["xb"], place["xa"] + homing.offset)

\* Out of the homing cycle the hard limits are watched and all motors run
\* (mc_homing_cycle, homing_cycle).
MachineGivenBack == AtRest => homing.limits /\ homing.disabled = {}

\* Homing comes to an end: a switch that does not work is found out
\* (EXEC_CYCLE_COMPLETE in homing_cycle).
HomingEnds == homing.state = "homing" ~> homing.state # "homing"

HomedSound == HomedIsTrue /\ MachineGivenBack
=============================================================================
